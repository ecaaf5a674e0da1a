--------------------------- MODULE KTLSConnProofs ----------------------------
(***************************************************************************)
(* Proofs about KTLSConn for every kernel version set, every set of        *)
(* negotiated suites and every record bound.                               *)
(***************************************************************************)
EXTENDS KTLSConn, SequenceTheorems, TLAPS

\* The capability table init() computes is a table of flags.
LEMMA ProbeCapsType ==
    ASSUME NEW present \in BOOLEAN, NEW v \in (Nat \X Nat) \cup {NoVersion}
    PROVE  ProbeCaps(present, v) \in [Features -> BOOLEAN]
<1>1. NoCaps \in [Features -> BOOLEAN]
  BY DEF NoCaps
<1>2. [NoCaps EXCEPT !["support"] = TRUE] \in [Features -> BOOLEAN]
  BY <1>1 DEF Features
<1>3. ASSUME v \in Nat \X Nat PROVE VersionCaps(v) \in [Features -> BOOLEAN]
  BY <1>3 DEF VersionCaps, Features, AtLeast
<1>4. QED
  BY <1>1, <1>2, <1>3 DEF ProbeCaps

\* An encoder call logs a sequence of ULP bind outcomes, reports the ULP and
\* the kernel's configuration as flags, and returns nil exactly when the
\* kernel took the configuration.
LEMMA EncoderType ==
    ASSUME NEW fam, NEW skip \in BOOLEAN, NEW ub \in BOOLEAN,
           NEW bindOk \in BOOLEAN, NEW cfgOk \in BOOLEAN
    PROVE  /\ Encoder(fam, skip, ub, bindOk, cfgOk).log \in Seq({"ok", "fail"})
           /\ Encoder(fam, skip, ub, bindOk, cfgOk).ulp \in BOOLEAN
           /\ Encoder(fam, skip, ub, bindOk, cfgOk).configured \in BOOLEAN
           /\ Encoder(fam, skip, ub, bindOk, cfgOk).ok
                = Encoder(fam, skip, ub, bindOk, cfgOk).configured
<1> DEFINE e == Encoder(fam, skip, ub, bindOk, cfgOk)
           bound == ~skip /\ ~ub /\ bindOk
<1>1. e.log \in Seq({"ok", "fail"})
  <2>1. CASE skip
    <3>1. e.log = <<>>
      BY <2>1 DEF Encoder
    <3>2. QED
      BY <3>1
  <2>2. CASE ~skip
    <3>1. e.log = <<IF bound THEN "ok" ELSE "fail">>
      BY <2>2 DEF Encoder
    <3>2. (IF bound THEN "ok" ELSE "fail") \in {"ok", "fail"}
      OBVIOUS
    <3>3. QED
      BY <3>1, <3>2
  <2>3. QED
    BY <2>1, <2>2
<1>2. e.ulp \in BOOLEAN /\ e.configured \in BOOLEAN
  BY Zenon DEF Encoder
<1>3. e.ok = e.configured
  BY Zenon DEF Encoder
<1>4. QED
  BY <1>1, <1>2, <1>3

\* A flag counts for zero or one protection layer.
LEMMA BitRange ==
    ASSUME NEW b \in BOOLEAN
    PROVE  Bit(b) \in 0..1
BY DEF Bit

\* A record leaves the connection with zero to two layers of protection.
LEMMA OutLayersRange ==
    ASSUME TypeOK, NEW user \in BOOLEAN
    PROVE  OutLayers(user) \in 0..2
<1>1. Bit(user) \in 0..1
  BY BitRange
<1>2. Bit(sock.tx) \in 0..1
  BY BitRange DEF TypeOK, SockState
<1>3. QED
  BY <1>1, <1>2 DEF OutLayers

\* A peer record reaches the application with one layer too few, none, or
\* one still on it.
LEMMA InLayersRange ==
    ASSUME TypeOK, NEW user \in BOOLEAN
    PROVE  InLayers(user) \in -1..1
<1>1. Bit(user) \in 0..1
  BY BitRange
<1>2. Bit(sock.rx) \in 0..1
  BY BitRange DEF TypeOK, SockState
<1>3. QED
  BY <1>1, <1>2 DEF InLayers

\* The initial state of a connection before package initialisation is typed.
LEMMA TypeInit == Init => TypeOK
<1> SUFFICES ASSUME Init PROVE TypeOK
  OBVIOUS
<1>1. caps \in [Features -> BOOLEAN]
  BY DEF Init, ProbeInit, NoCaps
<1>2. sock \in SockState
  BY DEF Init, ConnInit, SockState
<1>3. /\ ulpLog \in Seq({"ok", "fail"})
      /\ wire \in Seq([path : WirePaths, layers : 0..2])
      /\ delivered \in Seq([path : ReadPaths, layers : -1..1])
  BY DEF Init, ConnInit
<1>4. QED
  BY <1>1, <1>2, <1>3 DEF Init, ProbeInit, ConnInit, TypeOK, ProbeTypeOK, Errors

\* Every step of the probe and of the connection keeps every variable typed.
LEMMA TypeStep == TypeOK /\ [Next]_vars => TypeOK'
<1> SUFFICES ASSUME TypeOK, [Next]_vars PROVE TypeOK'
  OBVIOUS
<1>1. CASE ProbeStep
  <2>1. PICK present \in BOOLEAN, v \in KernelVersions \cup {NoVersion} :
              caps' = ProbeCaps(present, v)
    BY <1>1 DEF ProbeStep, Probe
  <2>2. caps' \in [Features -> BOOLEAN]
    BY <2>1, ProbeCapsType, KernelVersionsAssumption
  <2>3. QED
    BY <1>1, <2>2 DEF ProbeStep, Probe, TypeOK, ProbeTypeOK, connVars
<1>2. CASE EnableKernelTLS
  <2>1. PICK txBind, txCfg, rxBind, rxCfg, zcOk, npOk \in BOOLEAN :
            EnableWith(txBind, txCfg, rxBind, rxCfg, zcOk, npOk)
    BY <1>2 DEF EnableKernelTLS
  <2> DEFINE fam     == Family(suite)
             start   == caps["support"] /\ SuiteOffloadable(suite) /\ caps["tx"]
             txTried == start /\ tcp
             tx      == Encoder(fam, FALSE, sock.ulp, txBind, txCfg)
             txOn    == txTried /\ tx.ok
             ulp1    == IF txTried THEN tx.ulp ELSE sock.ulp
             rx      == Encoder(fam, txOn, ulp1, rxBind, rxCfg)
             txFail  == txTried /\ ~tx.ok
             rxTried == /\ start /\ ~txFail /\ tcp
                        /\ caps["rx"] /\ (IsTLS13(suite) => caps["tls13rx"])
  <2>2. tx.log \in Seq({"ok", "fail"}) /\ tx.ulp \in BOOLEAN
        /\ tx.configured \in BOOLEAN /\ tx.ok = tx.configured
    <3>1. sock.ulp \in BOOLEAN
      BY DEF TypeOK, SockState
    <3>2. tx.log \in Seq({"ok", "fail"})
      BY <3>1, EncoderType
    <3>3. tx.ulp \in BOOLEAN /\ tx.configured \in BOOLEAN
      BY <3>1, Zenon DEF Encoder
    <3>4. tx.ok = tx.configured
      BY DEF Encoder
    <3>5. QED
      BY <3>2, <3>3, <3>4
  <2>3. ulp1 \in BOOLEAN /\ txOn \in BOOLEAN
    BY <2>2 DEF TypeOK, SockState
  <2>4. rx.log \in Seq({"ok", "fail"}) /\ rx.ulp \in BOOLEAN
        /\ rx.configured \in BOOLEAN /\ rx.ok = rx.configured
    <3> HIDE DEF fam, txOn, ulp1
    <3>1. rx.log \in Seq({"ok", "fail"})
      BY <2>3, EncoderType
    <3>2. rx.ulp \in BOOLEAN /\ rx.configured \in BOOLEAN
      BY <2>3, Zenon DEF Encoder
    <3>3. rx.ok = rx.configured
      BY DEF Encoder
    <3>4. QED
      BY <3>1, <3>2, <3>3
  <2>5. sock' \in SockState
    BY <2>1, <2>2, <2>3, <2>4 DEF EnableWith, TypeOK, SockState
  <2>6. ulpLog' \in Seq({"ok", "fail"})
    <3> DEFINE txLog == IF txTried THEN tx.log ELSE <<>>
               rxLog == IF rxTried THEN rx.log ELSE <<>>
    <3>0. <<>> \in Seq({"ok", "fail"})
      OBVIOUS
    <3>1. txLog \in Seq({"ok", "fail"}) /\ rxLog \in Seq({"ok", "fail"})
      BY <2>2, <2>4, <3>0, Zenon
    <3>2. ulpLog' = ulpLog \o txLog \o rxLog
      BY <2>1 DEF EnableWith
    <3>3. QED
      BY <3>1, <3>2, ConcatProperties DEF TypeOK
  <2>7. enableErr' \in Errors
    BY <2>1 DEF EnableWith, Errors
  <2>8. out' \in {"soft", "ktls"} /\ in' \in {"soft", "ktls"}
    BY <2>1 DEF EnableWith, TypeOK
  <2>9. QED
    BY <1>2, <2>5, <2>6, <2>7, <2>8 DEF EnableKernelTLS, TypeOK, ProbeTypeOK, probeVars
<1>3. CASE Write
  <2>1. [path |-> "write", layers |-> OutLayers(out = "soft")] \in [path : WirePaths, layers : 0..2]
    <3>1. OutLayers(out = "soft") \in 0..2
      BY OutLayersRange
    <3>2. QED
      BY <3>1 DEF WirePaths
  <2>2. wire' = Append(wire, [path |-> "write", layers |-> OutLayers(out = "soft")])
    BY <1>3 DEF Write
  <2>3. wire' \in Seq([path : WirePaths, layers : 0..2])
    BY <2>1, <2>2, AppendProperties DEF TypeOK
  <2>5. QED
    BY <1>3, <2>3 DEF Write, TypeOK, ProbeTypeOK, probeVars
<1>4. CASE ReadFrom
  <2>1. [path |-> "readfrom", layers |-> OutLayers(FALSE)] \in [path : WirePaths, layers : 0..2]
    <3>1. OutLayers(FALSE) \in 0..2
      BY OutLayersRange
    <3>2. QED
      BY <3>1 DEF WirePaths
  <2>2. wire' = Append(wire, [path |-> "readfrom", layers |-> OutLayers(FALSE)])
    BY <1>4 DEF ReadFrom
  <2>3. wire' \in Seq([path : WirePaths, layers : 0..2])
    BY <2>1, <2>2, AppendProperties DEF TypeOK
  <2>5. QED
    BY <1>4, <2>3 DEF ReadFrom, TypeOK, ProbeTypeOK, probeVars
<1>5. CASE SendCtrlMessage
  <2>1. [path |-> "ctrl", layers |-> OutLayers(FALSE)] \in [path : WirePaths, layers : 0..2]
    <3>1. OutLayers(FALSE) \in 0..2
      BY OutLayersRange
    <3>2. QED
      BY <3>1 DEF WirePaths
  <2>2. wire' = Append(wire, [path |-> "ctrl", layers |-> OutLayers(FALSE)])
    BY <1>5 DEF SendCtrlMessage
  <2>3. wire' \in Seq([path : WirePaths, layers : 0..2])
    BY <2>1, <2>2, AppendProperties DEF TypeOK
  <2>5. QED
    BY <1>5, <2>3 DEF SendCtrlMessage, TypeOK, ProbeTypeOK, probeVars
<1>6. CASE PeerSend
  <2>1. inbox' \in Nat
    BY <1>6 DEF PeerSend, TypeOK
  <2>2. QED
    BY <1>6, <2>1 DEF PeerSend, TypeOK, ProbeTypeOK, probeVars
<1>7. CASE Read
  <2>1. [path |-> "read", layers |-> InLayers(TRUE)] \in [path : ReadPaths, layers : -1..1]
    <3>1. InLayers(TRUE) \in -1..1
      BY InLayersRange
    <3>2. QED
      BY <3>1 DEF ReadPaths
  <2>2. delivered' = Append(delivered, [path |-> "read", layers |-> InLayers(TRUE)])
    BY <1>7 DEF Read
  <2>3. delivered' \in Seq([path : ReadPaths, layers : -1..1])
    BY <2>1, <2>2, AppendProperties DEF TypeOK
  <2>4. inbox' \in Nat
    BY <1>7 DEF Read, CanRecv, TypeOK
  <2>5. QED
    BY <1>7, <2>3, <2>4 DEF Read, TypeOK, ProbeTypeOK, probeVars
<1>8. CASE ReadRecord
  <2>1. [path |-> "record", layers |-> InLayers(FALSE)] \in [path : ReadPaths, layers : -1..1]
    <3>1. InLayers(FALSE) \in -1..1
      BY InLayersRange
    <3>2. QED
      BY <3>1 DEF ReadPaths
  <2>2. delivered' = IF sock.rx THEN Append(delivered, [path |-> "record", layers |-> InLayers(FALSE)]) ELSE delivered
    BY <1>8 DEF ReadRecord
  <2>3. delivered' \in Seq([path : ReadPaths, layers : -1..1])
    <3>1. CASE sock.rx
      BY <2>1, <2>2, <3>1, AppendProperties DEF TypeOK
    <3>2. CASE ~sock.rx
      BY <2>2, <3>2 DEF TypeOK
    <3>3. QED
      BY <3>1, <3>2
  <2>4. inbox' \in Nat
    BY <1>8 DEF ReadRecord, CanRecv, TypeOK
  <2>5. QED
    BY <1>8, <2>3, <2>4 DEF ReadRecord, TypeOK, ProbeTypeOK, probeVars
<1>9. CASE WriteTo
  <2>1. [path |-> "writeto", layers |-> InLayers(FALSE)] \in [path : ReadPaths, layers : -1..1]
    <3>1. InLayers(FALSE) \in -1..1
      BY InLayersRange
    <3>2. QED
      BY <3>1 DEF ReadPaths
  <2>2. delivered' = Append(delivered, [path |-> "writeto", layers |-> InLayers(FALSE)])
    BY <1>9 DEF WriteTo
  <2>3. delivered' \in Seq([path : ReadPaths, layers : -1..1])
    BY <2>1, <2>2, AppendProperties DEF TypeOK
  <2>4. inbox' \in Nat
    BY <1>9 DEF WriteTo, CanRecv, TypeOK
  <2>5. QED
    BY <1>9, <2>3, <2>4 DEF WriteTo, TypeOK, ProbeTypeOK, probeVars
<1>10. CASE UNCHANGED vars
  BY <1>10 DEF vars, probeVars, connVars, TypeOK, ProbeTypeOK
<1>11. QED
  BY <1>1, <1>2, <1>3, <1>4, <1>5, <1>6, <1>7, <1>8, <1>9, <1>10 DEF Next

-----------------------------------------------------------------------------
(* The record layer and the kernel agree on who protects a record.         *)

\* Part of the record invariant: every record sent through the record
\* layer (c.Write) or as a control
\* message (ktlsSendCtrlMessage) is protected exactly once on the wire:
\* neither sent in the clear nor encrypted by both the record layer and the
\* kernel.
SanctionedWireProtected ==
    \A i \in 1..Len(wire) :
        wire[i].path \in {"write", "ctrl"} => wire[i].layers = 1

\* Part of the record invariant: every record the application reads through the record layer (c.Read) or
\* through ktlsReadDataFromRecord reaches it decrypted exactly once.
SanctionedReadPlain ==
    \A i \in 1..Len(delivered) :
        delivered[i].path \in {"read", "record"} => delivered[i].layers = 0

\* The invariant the data paths of the record layer rest on: the markers
\* match the kernel's configuration, and so every record sent or read
\* through the record layer so far carries exactly one protection layer.
RecordInv ==
    /\ TypeOK
    /\ OffloadConsistent
    /\ SanctionedWireProtected
    /\ SanctionedReadPlain

\* enableKernelTLS sets a direction's marker exactly when the kernel took
\* that direction's configuration, and nothing else touches either.
LEMMA OffloadStep ==
    TypeOK /\ OffloadConsistent /\ [Next]_vars => OffloadConsistent'
<1> SUFFICES ASSUME TypeOK, OffloadConsistent, [Next]_vars
             PROVE  OffloadConsistent'
  OBVIOUS
<1>1. CASE EnableKernelTLS
  <2>1. PICK txBind, txCfg, rxBind, rxCfg, zcOk, npOk \in BOOLEAN :
            EnableWith(txBind, txCfg, rxBind, rxCfg, zcOk, npOk)
    BY <1>1 DEF EnableKernelTLS
  <2> DEFINE fam     == Family(suite)
             start   == caps["support"] /\ SuiteOffloadable(suite) /\ caps["tx"]
             txTried == start /\ tcp
             tx      == Encoder(fam, FALSE, sock.ulp, txBind, txCfg)
             txOn    == txTried /\ tx.ok
             txFail  == txTried /\ ~tx.ok
             ulp1    == IF txTried THEN tx.ulp ELSE sock.ulp
             rxTried == /\ start /\ ~txFail /\ tcp
                        /\ caps["rx"] /\ (IsTLS13(suite) => caps["tls13rx"])
             rx      == Encoder(fam, txOn, ulp1, rxBind, rxCfg)
             rxOn    == rxTried /\ rx.ok
  <2>2. tx.ok = tx.configured /\ rx.ok = rx.configured
    BY DEF Encoder
  <2>3. (out' = "ktls") <=> sock'.tx
    BY <2>1, <2>2 DEF EnableWith, OffloadConsistent
  <2>4. (in' = "ktls") <=> sock'.rx
    BY <2>1, <2>2 DEF EnableWith, OffloadConsistent
  <2>5. QED
    BY <2>3, <2>4 DEF OffloadConsistent
<1>2. CASE ~EnableKernelTLS
  <2>1. UNCHANGED <<sock, out, in>>
    BY <1>2 DEF Next, ProbeStep, connVars, Write, ReadFrom, SendCtrlMessage,
                PeerSend, Read, ReadRecord, WriteTo, vars
  <2>2. QED
    BY <2>1 DEF OffloadConsistent
<1>3. QED
  BY <1>1, <1>2

\* Appending a record that satisfies a per-path condition on its layers to
\* a sequence of records that all do keeps them all satisfying it.
LEMMA AppendKeepsLayers ==
    ASSUME NEW S, NEW seq \in Seq(S), NEW r, NEW Paths, NEW k,
           \A i \in 1..Len(seq) : seq[i].path \in Paths => seq[i].layers = k,
           r.path \in Paths => r.layers = k
    PROVE  \A i \in 1..Len(Append(seq, r)) :
               Append(seq, r)[i].path \in Paths => Append(seq, r)[i].layers = k
OBVIOUS

\* The layer counts of one record-layer and one kernel protection.
LEMMA LayerArith ==
    /\ 0 + 1 = 1 /\ 1 + 0 = 1
    /\ 1 - 1 - 0 = 0 /\ 1 - 0 - 1 = 0
BY SMT

\* The record layer encrypts a c.Write record exactly when the kernel does
\* not, so it leaves with one layer; a control message is sent only with TX
\* offloaded, so the kernel gives it its one layer.
LEMMA SanctionedOutLayers ==
    ASSUME TypeOK, OffloadConsistent
    PROVE  /\ OutLayers(out = "soft") = 1
           /\ out = "ktls" => OutLayers(FALSE) = 1
<1>1. CASE sock.tx
  <2>1. out = "ktls"
    BY <1>1 DEF OffloadConsistent
  <2>2. OutLayers(out = "soft") = 0 + 1 /\ OutLayers(FALSE) = 0 + 1
    BY <1>1, <2>1, Zenon DEF OutLayers, Bit
  <2>3. QED
    BY <2>2, LayerArith, Zenon
<1>2. CASE ~sock.tx
  <2>1. out = "soft"
    BY <1>2 DEF OffloadConsistent, TypeOK
  <2>2. OutLayers(out = "soft") = 1 + 0
    BY <1>2, <2>1, Zenon DEF OutLayers, Bit
  <2>3. QED
    BY <2>1, <2>2, LayerArith, Zenon
<1>3. QED
  BY <1>1, <1>2

\* The wire keeps holding only properly protected record-layer records.
LEMMA WireStep ==
    /\ TypeOK /\ OffloadConsistent /\ SanctionedWireProtected /\ [Next]_vars
    => SanctionedWireProtected'
<1> SUFFICES ASSUME TypeOK, OffloadConsistent, SanctionedWireProtected,
                    [Next]_vars
             PROVE  SanctionedWireProtected'
  OBVIOUS
<1>0. wire \in Seq([path : WirePaths, layers : 0..2])
  BY DEF TypeOK
<1>1. CASE Write
  <2> DEFINE r == [path |-> "write", layers |-> OutLayers(out = "soft")]
  <2>1. wire' = Append(wire, r)
    BY <1>1 DEF Write
  <2>2. r.path \in {"write", "ctrl"} => r.layers = 1
    BY SanctionedOutLayers
  <2> HIDE DEF r
  <2>3. \A i \in 1..Len(Append(wire, r)) :
            Append(wire, r)[i].path \in {"write", "ctrl"} => Append(wire, r)[i].layers = 1
    BY <1>0, <2>2, AppendKeepsLayers DEF SanctionedWireProtected
  <2>4. QED
    BY <2>1, <2>3, Zenon DEF SanctionedWireProtected
<1>2. CASE ReadFrom
  <2> DEFINE r == [path |-> "readfrom", layers |-> OutLayers(FALSE)]
  <2>1. wire' = Append(wire, r)
    BY <1>2 DEF ReadFrom
  <2>2. r.path \in {"write", "ctrl"} => r.layers = 1
    OBVIOUS
  <2> HIDE DEF r
  <2>3. \A i \in 1..Len(Append(wire, r)) :
            Append(wire, r)[i].path \in {"write", "ctrl"} => Append(wire, r)[i].layers = 1
    BY <1>0, <2>2, AppendKeepsLayers DEF SanctionedWireProtected
  <2>4. QED
    BY <2>1, <2>3, Zenon DEF SanctionedWireProtected
<1>3. CASE SendCtrlMessage
  <2>0. out = "ktls"
    BY <1>3 DEF SendCtrlMessage
  <2> DEFINE r == [path |-> "ctrl", layers |-> OutLayers(FALSE)]
  <2>1. wire' = Append(wire, r)
    BY <1>3 DEF SendCtrlMessage
  <2>2. r.path \in {"write", "ctrl"} => r.layers = 1
    BY <2>0, SanctionedOutLayers
  <2> HIDE DEF r
  <2>3. \A i \in 1..Len(Append(wire, r)) :
            Append(wire, r)[i].path \in {"write", "ctrl"} => Append(wire, r)[i].layers = 1
    BY <1>0, <2>2, AppendKeepsLayers DEF SanctionedWireProtected
  <2>4. QED
    BY <2>1, <2>3, Zenon DEF SanctionedWireProtected
<1>4. CASE ~Write /\ ~ReadFrom /\ ~SendCtrlMessage
  <2>1. wire' = wire
    BY <1>4 DEF Next, ProbeStep, connVars, EnableKernelTLS, PeerSend, Read,
                ReadRecord, WriteTo, vars
  <2>2. QED
    BY <2>1 DEF SanctionedWireProtected
<1>5. QED
  BY <1>1, <1>2, <1>3, <1>4

\* c.Read decrypts in the record layer exactly when the kernel does not, and
\* ktlsReadDataFromRecord delivers only what the kernel decrypted.
LEMMA SanctionedInLayers ==
    ASSUME TypeOK, OffloadConsistent
    PROVE  /\ in = "soft" => InLayers(TRUE) = 0
           /\ sock.rx => InLayers(FALSE) = 0
<1>1. CASE sock.rx
  <2>1. in = "ktls"
    BY <1>1 DEF OffloadConsistent
  <2>2. InLayers(FALSE) = 1 - 1 - 0
    BY <1>1, Zenon DEF InLayers, Bit
  <2>3. QED
    BY <2>1, <2>2, LayerArith, Zenon
<1>2. CASE ~sock.rx
  <2>1. InLayers(TRUE) = 1 - 0 - 1
    BY <1>2, Zenon DEF InLayers, Bit
  <2>2. QED
    BY <1>2, <2>1, LayerArith, Zenon
<1>3. QED
  BY <1>1, <1>2

\* The application keeps having received only decrypted record-layer
\* records.
LEMMA ReadStep ==
    /\ TypeOK /\ OffloadConsistent /\ SanctionedReadPlain /\ [Next]_vars
    => SanctionedReadPlain'
<1> SUFFICES ASSUME TypeOK, OffloadConsistent, SanctionedReadPlain,
                    [Next]_vars
             PROVE  SanctionedReadPlain'
  OBVIOUS
<1>0. delivered \in Seq([path : ReadPaths, layers : -1..1])
  BY DEF TypeOK
<1>1. CASE Read
  <2>0. in = "soft"
    BY <1>1 DEF Read
  <2> DEFINE r == [path |-> "read", layers |-> InLayers(TRUE)]
  <2>1. delivered' = Append(delivered, r)
    BY <1>1 DEF Read
  <2>2. r.path \in {"read", "record"} => r.layers = 0
    BY <2>0, SanctionedInLayers
  <2> HIDE DEF r
  <2>3. \A i \in 1..Len(Append(delivered, r)) :
            Append(delivered, r)[i].path \in {"read", "record"} => Append(delivered, r)[i].layers = 0
    BY <1>0, <2>2, AppendKeepsLayers DEF SanctionedReadPlain
  <2>4. QED
    BY <2>1, <2>3, Zenon DEF SanctionedReadPlain
<1>2. CASE ReadRecord
  <2>1. CASE sock.rx
    <3> DEFINE r == [path |-> "record", layers |-> InLayers(FALSE)]
    <3>1. delivered' = Append(delivered, r)
      BY <1>2, <2>1 DEF ReadRecord
    <3>2. r.path \in {"read", "record"} => r.layers = 0
      BY <2>1, SanctionedInLayers
    <3> HIDE DEF r
    <3>3. \A i \in 1..Len(Append(delivered, r)) :
              Append(delivered, r)[i].path \in {"read", "record"} => Append(delivered, r)[i].layers = 0
      BY <1>0, <3>2, AppendKeepsLayers DEF SanctionedReadPlain
    <3>4. QED
      BY <3>1, <3>3, Zenon DEF SanctionedReadPlain
  <2>2. CASE ~sock.rx
    <3>1. delivered' = delivered
      BY <1>2, <2>2 DEF ReadRecord
    <3>2. QED
      BY <3>1 DEF SanctionedReadPlain
  <2>3. QED
    BY <2>1, <2>2
<1>3. CASE WriteTo
  <2> DEFINE r == [path |-> "writeto", layers |-> InLayers(FALSE)]
  <2>1. delivered' = Append(delivered, r)
    BY <1>3 DEF WriteTo
  <2>2. r.path \in {"read", "record"} => r.layers = 0
    OBVIOUS
  <2> HIDE DEF r
  <2>3. \A i \in 1..Len(Append(delivered, r)) :
            Append(delivered, r)[i].path \in {"read", "record"} => Append(delivered, r)[i].layers = 0
    BY <1>0, <2>2, AppendKeepsLayers DEF SanctionedReadPlain
  <2>4. QED
    BY <2>1, <2>3, Zenon DEF SanctionedReadPlain
<1>4. CASE ~Read /\ ~ReadRecord /\ ~WriteTo
  <2>1. delivered' = delivered
    BY <1>4 DEF Next, ProbeStep, connVars, EnableKernelTLS, Write, ReadFrom,
                SendCtrlMessage, PeerSend, vars
  <2>2. QED
    BY <2>1 DEF SanctionedReadPlain
<1>5. QED
  BY <1>1, <1>2, <1>3, <1>4

\* The record layer's markers match the kernel's configuration at every
\* step: whatever enableKernelTLS's setsockopt calls returned, c.out.cipher
\* (c.in.cipher) is the kTLSCipher marker exactly when the kernel encrypts
\* (decrypts) the socket.  Records written through c.Write or
\* ktlsSendCtrlMessage leave with exactly one protection layer, and records
\* read through c.Read or ktlsReadDataFromRecord arrive decrypted.
LEMMA RecordInvariant == Spec => []RecordInv
<1>1. Init => RecordInv
  BY TypeInit DEF Init, ProbeInit, ConnInit, RecordInv, OffloadConsistent,
                  SanctionedWireProtected, SanctionedReadPlain
<1>2. RecordInv /\ [Next]_vars => RecordInv'
  BY TypeStep, OffloadStep, WireStep, ReadStep DEF RecordInv
<1>3. QED
  BY <1>1, <1>2, PTL DEF Spec

\* The out and in markers of the record layer agree with the kernel's TLS_TX
\* and TLS_RX configuration in every reachable state.
THEOREM OffloadConsistency == Spec => []OffloadConsistent
<1>1. RecordInv => OffloadConsistent
  BY DEF RecordInv
<1>2. QED
  BY RecordInvariant, <1>1, PTL

\* Every variable keeps its type.
THEOREM TypeCorrect == Spec => []TypeOK
<1>1. QED
  BY TypeInit, TypeStep, PTL DEF Spec


-----------------------------------------------------------------------------
(* The TCP ULP is bound at most once.                                      *)

\* An encoder call logs at most one TCP_ULP bind, and none when it is told
\* to skip the bind.
LEMMA EncoderLog ==
    ASSUME NEW fam, NEW skip \in BOOLEAN, NEW ub, NEW bindOk, NEW cfgOk
    PROVE  /\ Len(Encoder(fam, skip, ub, bindOk, cfgOk).log) <= 1
           /\ skip => Encoder(fam, skip, ub, bindOk, cfgOk).log = <<>>
<1> DEFINE e == Encoder(fam, skip, ub, bindOk, cfgOk)
<1>1. CASE skip
  <2>1. e.log = <<>>
    BY <1>1 DEF Encoder
  <2>2. Len(e.log) = 0
    BY <2>1
  <2>3. QED
    BY <2>1, <2>2
<1>2. CASE ~skip
  <2>1. PICK x : e.log = <<x>>
    BY <1>2 DEF Encoder
  <2>2. Len(e.log) = 1
    BY <2>1
  <2>3. QED
    BY <1>2, <2>2
<1>3. QED
  BY <1>1, <1>2

\* Two logs of at most one entry, one of them empty, concatenate to a log of
\* at most one entry.
LEMMA ShortConcat ==
    ASSUME NEW S, NEW a \in Seq(S), NEW b \in Seq(S),
           Len(a) <= 1, Len(b) <= 1, a = <<>> \/ b = <<>>
    PROVE  Len(a \o b) <= 1
<1>1. Len(a \o b) = Len(a) + Len(b)
  BY ConcatProperties
<1>2. Len(a) = 0 \/ Len(b) = 0
  OBVIOUS
<1>3. Len(a) \in Nat /\ Len(b) \in Nat
  BY LenProperties
<1>4. QED
  BY <1>1, <1>2, <1>3

\* Before enableKernelTLS has run no bind was attempted, and afterwards at
\* most one was.
UlpInv ==
    /\ phase = "handshake" => ulpLog = <<>>
    /\ Len(ulpLog) <= 1

\* enableKernelTLS binds the ULP in the TX encoder or, only when TX did not
\* bind it, in the RX encoder; no other step touches the ULP.
LEMMA UlpStep == TypeOK /\ UlpInv /\ [Next]_vars => UlpInv'
<1> SUFFICES ASSUME TypeOK, UlpInv, [Next]_vars PROVE UlpInv'
  OBVIOUS
<1>1. CASE EnableKernelTLS
  <2>1. PICK txBind, txCfg, rxBind, rxCfg, zcOk, npOk \in BOOLEAN :
            EnableWith(txBind, txCfg, rxBind, rxCfg, zcOk, npOk)
    BY <1>1 DEF EnableKernelTLS
  <2> DEFINE fam     == Family(suite)
             start   == caps["support"] /\ SuiteOffloadable(suite) /\ caps["tx"]
             txTried == start /\ tcp
             tx      == Encoder(fam, FALSE, sock.ulp, txBind, txCfg)
             txOn    == txTried /\ tx.ok
             txFail  == txTried /\ ~tx.ok
             ulp1    == IF txTried THEN tx.ulp ELSE sock.ulp
             rxTried == /\ start /\ ~txFail /\ tcp
                        /\ caps["rx"] /\ (IsTLS13(suite) => caps["tls13rx"])
             rx      == Encoder(fam, txOn, ulp1, rxBind, rxCfg)
             txLog   == IF txTried THEN tx.log ELSE <<>>
             rxLog   == IF rxTried THEN rx.log ELSE <<>>
  <2>2. ulpLog = <<>>
    BY <1>1 DEF EnableKernelTLS, UlpInv
  <2>3. ulpLog' = ulpLog \o txLog \o rxLog
    BY <2>1, Zenon DEF EnableWith
  <2>4. txOn \in BOOLEAN
    BY Zenon
  <2>5. txLog \in Seq({"ok", "fail"}) /\ rxLog \in Seq({"ok", "fail"})
    <3>0. <<>> \in Seq({"ok", "fail"})
      OBVIOUS
    <3>1. tx.log \in Seq({"ok", "fail"})
      BY EncoderType, Zenon DEF TypeOK, SockState
    <3>2. ulp1 \in BOOLEAN
      BY Zenon DEF Encoder, TypeOK, SockState
    <3>3. rx.log \in Seq({"ok", "fail"})
      <4> HIDE DEF fam, txOn, ulp1
      <4>1. Encoder(fam, txOn, ulp1, rxBind, rxCfg).log \in Seq({"ok", "fail"})
        BY <2>4, <3>2, EncoderType
      <4>2. QED
        BY <4>1
    <3>4. QED
      BY <3>0, <3>1, <3>3, Zenon
  <2>6. Len(txLog) <= 1 /\ Len(rxLog) <= 1
    <3>1. Len(tx.log) <= 1 /\ Len(rx.log) <= 1
      BY <2>4, EncoderLog, Zenon
    <3>2. Len(<<>>) = 0
      OBVIOUS
    <3>3. txLog = tx.log \/ txLog = <<>>
      BY Zenon
    <3>4. rxLog = rx.log \/ rxLog = <<>>
      BY Zenon
    <3> HIDE DEF txLog, rxLog, tx, rx
    <3>5. QED
      BY <3>1, <3>2, <3>3, <3>4
  <2>7. txLog = <<>> \/ rxLog = <<>>
    <3>1. CASE ~txTried
      BY <3>1, Zenon
    <3>2. CASE txTried /\ tx.ok
      <4>1. txOn
        BY <3>2, Zenon
      <4>2. rx.log = <<>>
        BY <4>1, EncoderLog, Zenon
      <4>3. QED
        BY <4>2, Zenon
    <3>3. CASE txTried /\ ~tx.ok
      <4>1. ~rxTried
        BY <3>3, Zenon
      <4>2. QED
        BY <4>1, Zenon
    <3>4. QED
      BY <3>1, <3>2, <3>3, Zenon
  <2>8. Len(ulpLog') <= 1
    <3> HIDE DEF txLog, rxLog
    <3>1. ulpLog' = txLog \o rxLog
      BY <2>2, <2>3, <2>5, ConcatEmptySeq
    <3>2. QED
      BY <2>5, <2>6, <2>7, <3>1, ShortConcat
  <2>9. phase' = "established"
    BY <1>1 DEF EnableKernelTLS
  <2>10. QED
    BY <2>8, <2>9 DEF UlpInv
<1>2. CASE ~EnableKernelTLS
  <2>1. UNCHANGED <<phase, ulpLog>>
    BY <1>2 DEF Next, ProbeStep, connVars, Write, ReadFrom, SendCtrlMessage,
                PeerSend, Read, ReadRecord, WriteTo, vars
  <2>2. QED
    BY <2>1 DEF UlpInv
<1>3. QED
  BY <1>1, <1>2

\* The TLS ULP is attached to the socket by at most one setsockopt(TCP_ULP)
\* of enableKernelTLS: after TX bound it, ktlsEnableAES and
\* ktlsEnableCHACHA20 pass ulpEnabled to the RX encoder, which skips the
\* bind, for every kernel, suite and answer of the kernel.
THEOREM SingleUlpBind == Spec => []UlpBoundOnce
<1>1. Init => TypeOK /\ UlpInv
  BY TypeInit DEF Init, ConnInit, UlpInv
<1>2. TypeOK /\ UlpInv /\ [Next]_vars => TypeOK' /\ UlpInv'
  BY TypeStep, UlpStep
<1>3. TypeOK /\ UlpInv => UlpBoundOnce
  BY DEF UlpInv, UlpBoundOnce
<1>4. QED
  BY <1>1, <1>2, <1>3, PTL DEF Spec

=============================================================================
