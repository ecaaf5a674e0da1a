------------------------- MODULE KTLSOffloadProofs -------------------------
(***************************************************************************)
(* KTLSConn implements KTLSOffload under the refinement mapping of         *)
(* KTLSConn (AbsMode, AbsWire, AbsDelivered), for every set of kernel      *)
(* versions, suites and record bound.                                      *)
(***************************************************************************)
EXTENDS KTLSConnProofs

\* Nothing has moved before enableKernelTLS: both markers are software and
\* no record has been sent or delivered.
Clean ==
    phase = "handshake" =>
        /\ out = "soft" /\ in = "soft"
        /\ wire = <<>> /\ delivered = <<>>

\* The invariant the refinement rests on.
RefInv == RecordInv /\ Clean

\* The mapped wire and delivered sequences, as functions of the concrete ones.
AbsWireOf(q) ==
    [i \in 1..Len(q) |-> [path |-> q[i].path, protected |-> q[i].layers = 1]]

AbsDeliveredOf(q) ==
    [i \in 1..Len(q) |-> [path |-> q[i].path, plain |-> q[i].layers = 0]]

\* Mapping a sequence with one more record gives the mapped sequence with
\* that record's image appended.
LEMMA WireMapAppend ==
    ASSUME NEW S, NEW s \in Seq(S), NEW r
    PROVE  AbsWireOf(Append(s, r))
             = Append(AbsWireOf(s), [path |-> r.path, protected |-> r.layers = 1])
BY DEF AbsWireOf

LEMMA DeliveredMapAppend ==
    ASSUME NEW S, NEW s \in Seq(S), NEW r
    PROVE  AbsDeliveredOf(Append(s, r))
             = Append(AbsDeliveredOf(s), [path |-> r.path, plain |-> r.layers = 0])
BY DEF AbsDeliveredOf

\* The numerals the layer counts compare with.
LEMMA LayerNumerals ==
    /\ 0 \in 0..2 /\ 1 \in 0..2 /\ 0 \in -1..1 /\ 1 \in -1..1 /\ 0 # 1
BY SMT

LEMMA CleanInit == Init => Clean
BY DEF Init, ConnInit, Clean

LEMMA CleanStep == Clean /\ [Next]_vars => Clean'
<1> SUFFICES ASSUME Clean, [Next]_vars PROVE Clean'
  OBVIOUS
<1>1. CASE EnableKernelTLS
  BY <1>1 DEF EnableKernelTLS, Clean
<1>2. CASE ProbeStep \/ UNCHANGED vars
  BY <1>2 DEF ProbeStep, connVars, vars, Clean
<1>3. CASE Write \/ ReadFrom \/ SendCtrlMessage \/ PeerSend \/ Read \/ ReadRecord \/ WriteTo
  <2>1. phase' = "established"
    BY <1>3 DEF Write, ReadFrom, SendCtrlMessage, PeerSend, Read, ReadRecord,
                WriteTo, CanSend, CanRecv
  <2>2. QED
    BY <2>1 DEF Clean
<1>4. QED
  BY <1>1, <1>2, <1>3 DEF Next

LEMMA RefInvariant == Spec => []RefInv
<1>1. Init => RefInv
  BY CleanInit, RecordInvariant, TypeInit
     DEF Init, ProbeInit, ConnInit, RefInv, RecordInv, OffloadConsistent,
         SanctionedWireProtected, SanctionedReadPlain
<1>2. RefInv /\ [Next]_vars => RefInv'
  BY TypeStep, OffloadStep, WireStep, ReadStep, CleanStep DEF RefInv, RecordInv
<1>3. QED
  BY <1>1, <1>2, PTL DEF Spec

\* A step that appends r to the wire and leaves everything else the
\* abstraction sees alone is an abstract Send on r's path, provided r is
\* protected exactly as the abstract spec says.
LEMMA SendMaps ==
    ASSUME TypeOK, NEW p \in WirePaths, NEW k \in 0..2,
           phase = "established", wire' = Append(wire, [path |-> p, layers |-> k]),
           UNCHANGED <<phase, out, in, delivered>>,
           p = "ctrl" => out = "ktls",
           k = 1 <=> (p \in {"write", "ctrl"} \/ out = "ktls")
    PROVE  Offload!Send(p)
<1>1. AbsWire' = Append(AbsWire, [path |-> p, protected |-> k = 1])
  <2>1. AbsWire' = AbsWireOf(Append(wire, [path |-> p, layers |-> k])) /\ AbsWire = AbsWireOf(wire)
    BY DEF AbsWire, AbsWireOf
  <2>2. wire \in Seq([path : WirePaths, layers : 0..2])
    BY DEF TypeOK
  <2>3. AbsWireOf(Append(wire, [path |-> p, layers |-> k]))
          = Append(AbsWireOf(wire), [path |-> p, protected |-> k = 1])
    BY <2>2, WireMapAppend
  <2>4. QED
    BY <2>1, <2>3
<1>2. AbsMode(out) = IF out = "ktls" THEN "kernel" ELSE "soft"
  BY DEF AbsMode
<1>3. UNCHANGED <<AbsMode(out), AbsMode(in), AbsDelivered>>
  BY DEF AbsMode, AbsDelivered
<1>4. p \in Offload!Framed <=> p \in {"write", "ctrl"}
  BY DEF Offload!Framed, WirePaths
<1>5. k = 1 <=> (p \in Offload!Framed \/ AbsMode(out) = "kernel")
  BY <1>2, <1>4
<1>6. AbsMode(out) # "pending" /\ (p = "ctrl" => AbsMode(out) = "kernel")
  BY <1>2
<1> HIDE DEF AbsWire, AbsDelivered, AbsMode
<1>7. QED
  BY <1>1, <1>3, <1>5, <1>6 DEF Offload!Send

\* The same for a record handed to the application.
LEMMA ReceiveMaps ==
    ASSUME TypeOK, NEW p \in ReadPaths, NEW k \in -1..1,
           phase = "established",
           delivered' = Append(delivered, [path |-> p, layers |-> k]),
           UNCHANGED <<phase, out, in, wire>>,
           p = "read" => in = "soft",
           p = "record" => in = "ktls",
           k = 0 <=> (p \in {"read", "record"} \/ in = "ktls")
    PROVE  Offload!Receive(p)
<1>1. AbsDelivered' = Append(AbsDelivered, [path |-> p, plain |-> k = 0])
  <2>1. AbsDelivered' = AbsDeliveredOf(Append(delivered, [path |-> p, layers |-> k]))
        /\ AbsDelivered = AbsDeliveredOf(delivered)
    BY DEF AbsDelivered, AbsDeliveredOf
  <2>2. delivered \in Seq([path : ReadPaths, layers : -1..1])
    BY DEF TypeOK
  <2>3. AbsDeliveredOf(Append(delivered, [path |-> p, layers |-> k]))
          = Append(AbsDeliveredOf(delivered), [path |-> p, plain |-> k = 0])
    BY <2>2, DeliveredMapAppend
  <2>4. QED
    BY <2>1, <2>3
<1>2. AbsMode(in) = IF in = "ktls" THEN "kernel" ELSE "soft"
  BY DEF AbsMode
<1>3. UNCHANGED <<AbsMode(out), AbsMode(in), AbsWire>>
  BY DEF AbsMode, AbsWire
<1>4. p \in Offload!Framed <=> p \in {"read", "record"}
  BY DEF Offload!Framed, ReadPaths
<1>5. k = 0 <=> (p \in Offload!Framed \/ AbsMode(in) = "kernel")
  BY <1>2, <1>4
<1>6. /\ AbsMode(in) # "pending"
      /\ p = "read" => AbsMode(in) = "soft"
      /\ p = "record" => AbsMode(in) = "kernel"
  BY <1>2
<1> HIDE DEF AbsWire, AbsDelivered, AbsMode
<1>7. QED
  BY <1>1, <1>3, <1>5, <1>6 DEF Offload!Receive

\* Every step of the connection is a step of KTLSOffload or leaves its
\* image alone.
LEMMA RefineStep == RefInv /\ [Next]_vars => [Offload!Next]_Offload!vars
<1> SUFFICES ASSUME RefInv, [Next]_vars PROVE [Offload!Next]_Offload!vars
  OBVIOUS
<1> USE DEF RefInv, RecordInv
<1>0. UNCHANGED <<phase, out, in, wire, delivered>> => UNCHANGED Offload!vars
  BY DEF Offload!vars, AbsMode, AbsWire, AbsDelivered
<1>1. CASE ProbeStep \/ UNCHANGED vars
  BY <1>0, <1>1 DEF ProbeStep, connVars, vars
<1>2. CASE EnableKernelTLS
  <2>1. PICK txBind, txCfg, rxBind, rxCfg, zcOk, npOk \in BOOLEAN :
            EnableWith(txBind, txCfg, rxBind, rxCfg, zcOk, npOk)
    BY <1>2 DEF EnableKernelTLS
  <2> DEFINE start   == caps["support"] /\ SuiteOffloadable(suite) /\ caps["tx"]
             txTried == start /\ tcp
             tx      == Encoder(Family(suite), FALSE, sock.ulp, txBind, txCfg)
             txOn    == txTried /\ tx.ok
             txFail  == txTried /\ ~tx.ok
             ulp1    == IF txTried THEN tx.ulp ELSE sock.ulp
             rxTried == /\ start /\ ~txFail /\ tcp
                        /\ caps["rx"] /\ (IsTLS13(suite) => caps["tls13rx"])
             rx      == Encoder(Family(suite), txOn, ulp1, rxBind, rxCfg)
             rxOn    == rxTried /\ rx.ok
  <2>2. phase = "handshake" /\ phase' = "established" /\ UNCHANGED <<wire, delivered>>
    BY <1>2 DEF EnableKernelTLS
  <2>3. out = "soft" /\ in = "soft"
    BY <2>2 DEF Clean
  <2>4. /\ out' = (IF txOn THEN "ktls" ELSE out)
        /\ in' = (IF rxOn THEN "ktls" ELSE in)
    BY <2>1 DEF EnableWith
  <2>5. rxOn => txOn
    BY Zenon
  <2> HIDE DEF start, txTried, tx, txOn, txFail, ulp1, rxTried, rx, rxOn
  <2>6. <<AbsMode(out)', AbsMode(in)'>>
          \in {<<"soft", "soft">>, <<"kernel", "soft">>, <<"kernel", "kernel">>}
    BY <2>2, <2>3, <2>4, <2>5 DEF AbsMode
  <2>7. AbsMode(out) = "pending" /\ UNCHANGED <<AbsWire, AbsDelivered>>
    BY <2>2 DEF AbsMode, AbsWire, AbsDelivered
  <2>8. Offload!Decide
    <3>1. \E m \in {<<"soft", "soft">>, <<"kernel", "soft">>, <<"kernel", "kernel">>} :
            AbsMode(out)' = m[1] /\ AbsMode(in)' = m[2]
      BY <2>6
    <3> HIDE DEF AbsMode
    <3>2. QED
      BY <2>7, <3>1 DEF Offload!Decide
  <2>9. QED
    BY <2>8 DEF Offload!Next
<1>3. CASE Write
  <2>1. OutLayers(out = "soft") = 1
    BY SanctionedOutLayers
  <2>2. Offload!Send("write")
    BY <1>3, <2>1, SendMaps DEF Write, CanSend, WirePaths
  <2>3. QED
    BY <2>2 DEF Offload!Next, Offload!WirePaths
<1>4. CASE ReadFrom
  <2>1. sock.tx \in BOOLEAN /\ (out = "ktls" <=> sock.tx)
    BY Zenon DEF TypeOK, SockState, OffloadConsistent
  <2>2. OutLayers(FALSE) = IF sock.tx THEN 1 ELSE 0
    BY <2>1, LayerArith DEF OutLayers, Bit
  <2>3. OutLayers(FALSE) \in 0..2 /\ (OutLayers(FALSE) = 1 <=> out = "ktls")
    BY <2>1, <2>2, LayerNumerals, Zenon
  <2>4. Offload!Send("readfrom")
    BY <1>4, <2>3, SendMaps DEF ReadFrom, CanSend, WirePaths
  <2>5. QED
    BY <2>4 DEF Offload!Next, Offload!WirePaths
<1>5. CASE SendCtrlMessage
  <2>1. out = "ktls"
    BY <1>5 DEF SendCtrlMessage
  <2>2. OutLayers(FALSE) = 1
    BY <2>1, SanctionedOutLayers
  <2>3. OutLayers(FALSE) \in 0..2 /\ (OutLayers(FALSE) = 1 <=> ("ctrl" \in {"write", "ctrl"} \/ out = "ktls"))
    BY <2>2, LayerNumerals, Zenon
  <2>4. Offload!Send("ctrl")
    BY <1>5, <2>1, <2>3, SendMaps DEF SendCtrlMessage, CanSend, WirePaths
  <2>5. QED
    BY <2>4 DEF Offload!Next, Offload!WirePaths
<1>6. CASE PeerSend
  BY <1>0, <1>6 DEF PeerSend
<1>7. CASE Read
  <2>1. in = "soft"
    BY <1>7 DEF Read
  <2>2. InLayers(TRUE) = 0
    BY <2>1, SanctionedInLayers
  <2>3. InLayers(TRUE) \in -1..1 /\ (InLayers(TRUE) = 0 <=> ("read" \in {"read", "record"} \/ in = "ktls"))
    BY <2>2, LayerNumerals, Zenon
  <2>4. Offload!Receive("read")
    BY <1>7, <2>1, <2>3, ReceiveMaps DEF Read, CanRecv, ReadPaths
  <2>5. QED
    BY <2>4 DEF Offload!Next, Offload!ReadPaths
<1>8. CASE ReadRecord
  <2>1. CASE sock.rx
    <3>1. in = "ktls"
      BY <2>1 DEF OffloadConsistent
    <3>2. InLayers(FALSE) = 0
      BY <2>1, SanctionedInLayers
    <3>3. InLayers(FALSE) \in -1..1 /\ (InLayers(FALSE) = 0 <=> ("record" \in {"read", "record"} \/ in = "ktls"))
      BY <3>2, LayerNumerals, Zenon
    <3>4. Offload!Receive("record")
      BY <1>8, <2>1, <3>1, <3>3, ReceiveMaps DEF ReadRecord, CanRecv, ReadPaths
    <3>5. QED
      BY <3>4 DEF Offload!Next, Offload!ReadPaths
  <2>2. CASE ~sock.rx
    BY <1>0, <1>8, <2>2 DEF ReadRecord
  <2>3. QED
    BY <2>1, <2>2
<1>9. CASE WriteTo
  <2>1. sock.rx \in BOOLEAN /\ (in = "ktls" <=> sock.rx)
    BY Zenon DEF TypeOK, SockState, OffloadConsistent
  <2>2. InLayers(FALSE) = IF sock.rx THEN 0 ELSE 1
    BY <2>1, LayerArith DEF InLayers, Bit
  <2>3. InLayers(FALSE) \in -1..1 /\ (InLayers(FALSE) = 0 <=> in = "ktls")
    BY <2>1, <2>2, LayerNumerals, Zenon
  <2>4. Offload!Receive("writeto")
    BY <1>9, <2>3, ReceiveMaps DEF WriteTo, CanRecv, ReadPaths
  <2>5. QED
    BY <2>4 DEF Offload!Next, Offload!ReadPaths
<1>10. QED
  BY <1>1, <1>2, <1>3, <1>4, <1>5, <1>6, <1>7, <1>8, <1>9 DEF Next

(***************************************************************************)
(* The connection implements the offload contract (OffloadRefined): the    *)
(* direction modes enableKernelTLS decides, the marker that never changes  *)
(* after, and the protection of every record on each path all behave as    *)
(* KTLSOffload says.                                                       *)
(***************************************************************************)
THEOREM Refinement == Spec => OffloadRefined
<1>1. Init => Offload!Init
  BY DEF Init, ConnInit, Offload!Init, AbsMode, AbsWire, AbsDelivered
<1>2. QED
  BY <1>1, RefInvariant, RefineStep, PTL DEF Spec, OffloadRefined, Offload!Spec

=============================================================================
