--------------------------- MODULE KTLSCapsProofs ----------------------------
(***************************************************************************)
(* enableKernelTLS asks the kernel only for what init() found it supports, *)
(* for every set of kernel versions, suites and record bound.  The         *)
(* capability table is written once, by init(), before any connection     *)
(* calls enableKernelTLS, and the socket is configured by that one call.   *)
(***************************************************************************)
EXTENDS KTLSConnProofs

\* The kernel TLS state of a socket nothing has configured.
NoSock == [ulp |-> FALSE, tx |-> FALSE, rx |-> FALSE, zc |-> FALSE,
           nopad |-> FALSE]

\* The invariant OffloadWithinCaps rests on: during the handshake the socket
\* is untouched, and once enableKernelTLS has run the table it read is the
\* one init() wrote, which no later step changes.
CapsInv ==
    /\ phase = "handshake" => sock = NoSock
    /\ phase = "established" => probed
    /\ OffloadWithinCaps

LEMMA CapsInit == Init => CapsInv
BY DEF Init, ConnInit, ProbeInit, CapsInv, NoSock, OffloadWithinCaps

\* The socket state enableKernelTLS leaves on an untouched socket: each
\* option the kernel took was asked for under its capability flags.
LEMMA EnableWithinCaps ==
    ASSUME TypeOK, sock = NoSock,
           NEW txBind \in BOOLEAN, NEW txCfg \in BOOLEAN,
           NEW rxBind \in BOOLEAN, NEW rxCfg \in BOOLEAN,
           NEW zcOk \in BOOLEAN, NEW npOk \in BOOLEAN,
           EnableWith(txBind, txCfg, rxBind, rxCfg, zcOk, npOk),
           caps' = caps, suite' = suite
    PROVE  OffloadWithinCaps'
<1> DEFINE fam     == Family(suite)
           v13     == IsTLS13(suite)
           start   == caps["support"] /\ SuiteOffloadable(suite) /\ caps["tx"]
           txTried == start /\ tcp
           tx      == Encoder(fam, FALSE, sock.ulp, txBind, txCfg)
           txOn    == txTried /\ tx.ok
           txFail  == txTried /\ ~tx.ok
           ulp1    == IF txTried THEN tx.ulp ELSE sock.ulp
           rxTried == /\ start /\ ~txFail /\ tcp
                      /\ caps["rx"] /\ (v13 => caps["tls13rx"])
           rx      == Encoder(fam, txOn, ulp1, rxBind, rxCfg)
           rxOn    == rxTried /\ rx.ok
<1>1. /\ sock'.tx = (txTried /\ tx.configured)
      /\ sock'.rx = (rxTried /\ rx.configured)
      /\ sock'.zc = (txOn /\ caps["zerocopy"] /\ zcOk)
      /\ sock'.nopad = (rxOn /\ v13 /\ caps["nopad"] /\ npOk)
  BY Zenon DEF EnableWith, NoSock
<1>2. tx.ok = tx.configured /\ rx.ok = rx.configured
  BY DEF Encoder
<1>3. sock'.tx => caps["support"] /\ caps["tx"] /\ SuiteOffloadable(suite)
  BY <1>1, Zenon
<1>4. sock'.rx => /\ sock'.tx /\ caps["rx"]
                  /\ IsTLS13(suite) => caps["tls13rx"]
  BY <1>1, <1>2, Zenon
<1>5. sock'.zc => sock'.tx /\ caps["zerocopy"]
  BY <1>1, <1>2, Zenon
<1>6. sock'.nopad => sock'.rx /\ IsTLS13(suite) /\ caps["nopad"]
  BY <1>1, <1>2, Zenon
<1>7. QED
  BY <1>3, <1>4, <1>5, <1>6, Zenon DEF OffloadWithinCaps, SuiteOffloadable,
                                       IsTLS13

LEMMA CapsStep == TypeOK /\ CapsInv /\ [Next]_vars => CapsInv'
<1> SUFFICES ASSUME TypeOK, CapsInv, [Next]_vars PROVE CapsInv'
  OBVIOUS
<1>1. CASE ProbeStep
  \* init() runs before enableKernelTLS, on a socket nobody configured.
  <2>1. phase = "handshake"
    BY <1>1, Zenon DEF ProbeStep, Probe, CapsInv, TypeOK
  <2>2. sock' = NoSock /\ phase' = phase
    BY <1>1, <2>1, Zenon DEF ProbeStep, connVars, CapsInv
  <2>3. QED
    BY <2>1, <2>2, Zenon DEF CapsInv, OffloadWithinCaps, NoSock
<1>2. CASE EnableKernelTLS
  <2>1. sock = NoSock /\ probed
    BY <1>2, Zenon DEF EnableKernelTLS, CapsInv
  <2>2. PICK txBind, txCfg, rxBind, rxCfg, zcOk, npOk \in BOOLEAN :
            EnableWith(txBind, txCfg, rxBind, rxCfg, zcOk, npOk)
    BY <1>2 DEF EnableKernelTLS
  <2>3. caps' = caps /\ suite' = suite /\ probed' = probed
        /\ phase' = "established"
    BY <1>2 DEF EnableKernelTLS, probeVars
  <2>4. OffloadWithinCaps'
    BY <2>1, <2>2, <2>3, EnableWithinCaps
  <2>5. QED
    BY <2>1, <2>3, <2>4, Zenon DEF CapsInv
<1>3. CASE ~ProbeStep /\ ~EnableKernelTLS
  <2>1. UNCHANGED <<caps, probed, suite, phase, sock>>
    BY <1>3 DEF Next, connVars, Write, ReadFrom, SendCtrlMessage,
                PeerSend, Read, ReadRecord, WriteTo, vars, probeVars
  <2>2. QED
    BY <2>1 DEF CapsInv, OffloadWithinCaps, SuiteOffloadable, IsTLS13
<1>4. QED
  BY <1>1, <1>2, <1>3

\* enableKernelTLS configures the kernel only under the capability flags
\* init() set (kTLSSupport, kTLSSupportTX, the suite's family, TLS 1.3 TX),
\* RX only after TX succeeded and under kTLSSupportRX (kTLSSupportTLS13RX
\* for TLS 1.3), and the best-effort options only under their own flags,
\* for every kernel version, suite and answer of the kernel.
THEOREM OffloadRespectsCaps == Spec => []OffloadWithinCaps
<1>1. Init => TypeOK /\ CapsInv
  BY TypeInit, CapsInit
<1>2. TypeOK /\ CapsInv /\ [Next]_vars => TypeOK' /\ CapsInv'
  BY TypeStep, CapsStep
<1>3. TypeOK /\ CapsInv => OffloadWithinCaps
  BY DEF CapsInv
<1>4. QED
  BY <1>1, <1>2, <1>3, PTL DEF Spec


-----------------------------------------------------------------------------
(***************************************************************************)
(* The table in use is the table init() wrote for the kernel it found.    *)
(***************************************************************************)

\* Before init() every flag is false; afterwards the table is the one
\* init() computes for the presence of the tls module and the parsed
\* release, and no later step writes it.
ProbeInv ==
    /\ ~probed => caps = NoCaps
    /\ probed =>
          \E present \in BOOLEAN, v \in KernelVersions \cup {NoVersion} :
             caps = ProbeCaps(present, v)

LEMMA ProbeInvInit == Init => ProbeInv
BY DEF Init, ProbeInit, ProbeInv

LEMMA ProbeInvStep == ProbeInv /\ [Next]_vars => ProbeInv'
<1> SUFFICES ASSUME ProbeInv, [Next]_vars PROVE ProbeInv'
  OBVIOUS
<1>1. CASE ProbeStep
  <2>1. PICK present \in BOOLEAN, v \in KernelVersions \cup {NoVersion} :
            caps' = ProbeCaps(present, v)
    BY <1>1 DEF ProbeStep, Probe
  <2>2. probed'
    BY <1>1 DEF ProbeStep, Probe
  <2>3. QED
    BY <2>1, <2>2 DEF ProbeInv
<1>2. CASE ~ProbeStep
  <2>1. UNCHANGED <<caps, probed>>
    BY <1>2 DEF Next, EnableKernelTLS, Write, ReadFrom, SendCtrlMessage,
                PeerSend, Read, ReadRecord, WriteTo, vars, probeVars
  <2>2. QED
    BY <2>1 DEF ProbeInv
<1>3. QED
  BY <1>1, <1>2

\* init() sets kTLSSupportTLS13RX only with the tls module present, a
\* release that parsed, and a major version above 5.
LEMMA TLS13RXFlag ==
    ASSUME NEW present \in BOOLEAN, NEW v \in KernelVersions \cup {NoVersion},
           ProbeCaps(present, v)["tls13rx"]
    PROVE  /\ v \in KernelVersions /\ v[1] > 5
           /\ ProbeCaps(present, v) = ProbeCaps(TRUE, v)
<1>1. present
  <2>1. NoCaps["tls13rx"] = FALSE
    BY DEF NoCaps, Features
  <2>2. QED
    BY <2>1 DEF ProbeCaps
<1>2. v # NoVersion
  <2>1. [NoCaps EXCEPT !["support"] = TRUE]["tls13rx"] = FALSE
    BY DEF NoCaps, Features
  <2>2. QED
    BY <1>1, <2>1 DEF ProbeCaps, kTLSEnabled
<1>3. v \in KernelVersions /\ v \in Nat \X Nat
  BY <1>2, KernelVersionsAssumption
<1>4. ProbeCaps(present, v) = VersionCaps(v)
  BY <1>1, <1>2 DEF ProbeCaps, kTLSEnabled
<1>5. VersionCaps(v)["tls13rx"] = (v[1] > 5)
  BY <1>3 DEF VersionCaps, Features
<1>6. QED
  BY <1>1, <1>3, <1>4, <1>5

\* A TLS 1.3 connection has its receive path offloaded only on a kernel
\* 6.0 or later: init() sets kTLSSupportTLS13RX for `major > 5` alone, and
\* ktlsEnableAES / ktlsEnableCHACHA20 return before the RX setsockopt
\* without it, for every set of kernel versions and suites.
THEOREM TLS13RXOnlyOnKernel6 == Spec => []TLS13RXNeedsKernel6
<1> DEFINE Inv == TypeOK /\ CapsInv /\ ProbeInv
<1>1. Init => Inv
  BY TypeInit, CapsInit, ProbeInvInit
<1>2. Inv /\ [Next]_vars => Inv'
  BY TypeStep, CapsStep, ProbeInvStep
<1>3. Inv => TLS13RXNeedsKernel6
  <2> SUFFICES ASSUME Inv, sock.rx, IsTLS13(suite)
               PROVE  \E v \in KernelVersions :
                         v[1] > 5 /\ caps = ProbeCaps(TRUE, v)
    BY DEF TLS13RXNeedsKernel6
  <2>1. caps["tls13rx"]
    BY DEF CapsInv, OffloadWithinCaps
  <2>2. probed
    <3>1. phase # "handshake"
      BY DEF CapsInv, NoSock
    <3>2. QED
      BY <3>1 DEF CapsInv, TypeOK
  <2>3. PICK present \in BOOLEAN, v \in KernelVersions \cup {NoVersion} :
            caps = ProbeCaps(present, v)
    BY <2>2 DEF ProbeInv
  <2>4. /\ v \in KernelVersions /\ v[1] > 5
        /\ ProbeCaps(present, v) = ProbeCaps(TRUE, v)
    BY <2>1, <2>3, TLS13RXFlag
  <2>5. QED
    BY <2>3, <2>4
<1>4. QED
  BY <1>1, <1>2, <1>3, PTL DEF Spec

=============================================================================
