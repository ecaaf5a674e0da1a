------------------------------ MODULE KTLSConn -------------------------------
(***************************************************************************)
(* One goktls connection: kernel TLS offload activation at the end of the  *)
(* handshake (enableKernelTLS and the per-family helpers ktlsEnableAES,    *)
(* ktlsEnableCHACHA20, ktlsEnable{AES128GCM,AES256GCM,CHACHA20POLY1305}),  *)
(* the per-direction markers c.out.cipher / c.in.cipher that the record    *)
(* layer consults, the kernel's configuration of the socket, and the data  *)
(* paths that move records between the application and the wire.          *)
(*                                                                         *)
(* Data is abstracted to protection layers: a record on the wire carries   *)
(* the number of times it was encrypted (1 is right, 0 is plaintext, 2 is  *)
(* garbage), a record handed to the application the number of protection  *)
(* layers still on it (0 is right).  The kernel encrypts what is written  *)
(* to the socket iff TLS_TX is configured and decrypts what is read iff    *)
(* TLS_RX is configured.  Key, IV and sequence lengths are those the       *)
(* handshake derives for the suite, so the length checks of the encoders   *)
(* pass (their failures are the subject of KTLSCipher).                    *)
(***************************************************************************)
EXTENDS KTLSProbe, Sequences

CONSTANTS
    NegotiatedSuites,  \* cipher suites the handshake may hand over
    MaxRecords         \* bound on records sent and on records received

ASSUME MaxRecordsAssumption == MaxRecords \in Nat

\* The cipher suite switch of enableKernelTLS (ktls_linux.go).
AES128Suites12 == {"TLS_ECDHE_RSA_WITH_AES_128_GCM_SHA256",
                   "TLS_ECDHE_ECDSA_WITH_AES_128_GCM_SHA256",
                   "TLS_RSA_WITH_AES_128_GCM_SHA256"}
AES256Suites12 == {"TLS_ECDHE_RSA_WITH_AES_256_GCM_SHA384",
                   "TLS_ECDHE_ECDSA_WITH_AES_256_GCM_SHA384",
                   "TLS_RSA_WITH_AES_256_GCM_SHA384"}
CHACHASuites12 == {"TLS_ECDHE_RSA_WITH_CHACHA20_POLY1305_SHA256",
                   "TLS_ECDHE_ECDSA_WITH_CHACHA20_POLY1305_SHA256"}
Suites13 == {"TLS_AES_128_GCM_SHA256", "TLS_AES_256_GCM_SHA384",
             "TLS_CHACHA20_POLY1305_SHA256"}

Family(s) ==
    CASE s \in AES128Suites12 \cup {"TLS_AES_128_GCM_SHA256"}       -> "AES128"
      [] s \in AES256Suites12 \cup {"TLS_AES_256_GCM_SHA384"}       -> "AES256"
      [] s \in CHACHASuites12 \cup {"TLS_CHACHA20_POLY1305_SHA256"} -> "CHACHA"
      [] OTHER                                                     -> "none"

IsTLS13(s) == s \in Suites13

FamilyCap == [AES128 |-> "aes128", AES256 |-> "aes256", CHACHA |-> "chacha"]

\* The case guard of enableKernelTLS: a known suite whose family the kernel
\* supports, and for a TLS 1.3 suite kernel TLS 1.3 TX support.
SuiteOffloadable(s) ==
    /\ Family(s) # "none"
    /\ caps[FamilyCap[Family(s)]]
    /\ IsTLS13(s) => caps["tls13tx"]

VARIABLES
    suite,      \* the negotiated cipher suite
    tcp,        \* c.conn is a *net.TCPConn
    phase,      \* "handshake" until enableKernelTLS has run, then "established"
    sock,       \* the kernel's TLS state of the socket
    out,        \* c.out.cipher: "ktls" (the kTLSCipher marker) or "soft"
    in,         \* c.in.cipher
    ulpLog,     \* outcomes of the setsockopt(TCP_ULP, "tls") calls, in order
    enableErr,  \* the error enableKernelTLS returned
    wire,       \* records sent to the peer: [path, layers]
    inbox,      \* records of the peer not yet read from the socket
    delivered   \* records handed to the application: [path, layers]

connVars == <<suite, tcp, phase, sock, out, in, ulpLog, enableErr, wire,
              inbox, delivered>>
vars == <<probeVars, connVars>>

SockState == [ulp : BOOLEAN, tx : BOOLEAN, rx : BOOLEAN, zc : BOOLEAN,
              nopad : BOOLEAN]
Errors == {"none", "ulp", "tx", "rx"}
WirePaths == {"write", "readfrom", "ctrl"}
ReadPaths == {"read", "record", "writeto"}

(***************************************************************************)
(* One of ktlsEnableAES128GCM, ktlsEnableAES256GCM, ktlsEnableCHACHA20-    *)
(* POLY1305 after its length checks: unless skip, setsockopt(SOL_TCP,      *)
(* TCP_ULP, "tls"), which the kernel refuses on a socket that already has  *)
(* the ULP and may refuse otherwise (bindOk); then setsockopt(SOL_TLS,     *)
(* opt, cryptoInfo), which the kernel refuses without the ULP and may      *)
(* refuse otherwise (cfgOk).  AES-GCM-128 logs a ULP failure and goes on   *)
(* to the SOL_TLS call; the other two return the ULP error.                *)
(***************************************************************************)
\* Mutant: the `if !skip` guard of the ULP bind dropped.
EncoderAlwaysBind(fam, skip, ulpBound, bindOk, cfgOk) ==
    LET bound      == ~ulpBound /\ bindOk
        abort      == ~bound /\ fam # "AES128"
        configured == ~abort /\ (ulpBound \/ bound) /\ cfgOk
    IN  [log |-> <<IF bound THEN "ok" ELSE "fail">>, ulp |-> ulpBound \/ bound,
         configured |-> configured, ok |-> configured,
         err |-> IF abort THEN "ulp" ELSE "cfg"]

\* Mutant: `if err == nil { err = err0 }` dropped, so the SOL_TLS error is
\* lost and the encoder returns nil.
EncoderDropErr(fam, skip, ulpBound, bindOk, cfgOk) ==
    LET bound      == ~skip /\ ~ulpBound /\ bindOk
        abort      == ~skip /\ ~bound /\ fam # "AES128"
        configured == ~abort /\ (ulpBound \/ bound) /\ cfgOk
    IN  [log |-> IF skip THEN <<>> ELSE <<IF bound THEN "ok" ELSE "fail">>,
         ulp |-> ulpBound \/ bound, configured |-> configured, ok |-> TRUE,
         err |-> IF abort THEN "ulp" ELSE "cfg"]

\* The encoder's effect: the ULP bind it logged, whether the ULP is attached
\* afterwards, whether the kernel took the configuration, whether the
\* encoder returned nil, and which error it returned otherwise.
Encoder(fam, skip, ulpBound, bindOk, cfgOk) ==
    LET bound      == ~skip /\ ~ulpBound /\ bindOk
        abort      == ~skip /\ ~bound /\ fam # "AES128"
        configured == ~abort /\ (ulpBound \/ bound) /\ cfgOk
    IN  [log        |-> IF skip THEN <<>> ELSE <<IF bound THEN "ok" ELSE "fail">>,
         ulp        |-> ulpBound \/ bound,
         configured |-> configured,
         ok         |-> configured,
         err        |-> IF abort THEN "ulp" ELSE "cfg"]

ConnInit ==
    /\ suite \in NegotiatedSuites
    /\ tcp \in BOOLEAN
    /\ phase = "handshake"
    /\ sock = [ulp |-> FALSE, tx |-> FALSE, rx |-> FALSE, zc |-> FALSE,
               nopad |-> FALSE]
    /\ out = "soft"
    /\ in = "soft"
    /\ ulpLog = <<>>
    /\ enableErr = "none"
    /\ wire = <<>>
    /\ inbox = 0
    /\ delivered = <<>>

Init == ProbeInit /\ ConnInit

(***************************************************************************)
(* enableKernelTLS with ktlsEnableAES / ktlsEnableCHACHA20, as one step:   *)
(* the function runs on the handshake goroutine with nothing else touching *)
(* the connection.  The kernel's answers are the inputs.  TX is tried     *)
(* first; a TX error is returned at once; RX is tried when the kernel     *)
(* supports it for the protocol version, binding the ULP only if TX did    *)
(* not (ulpEnabled).  A direction's marker is set after its SOL_TLS call   *)
(* succeeded; TX zero-copy and RX no-pad are best effort.  The handshake   *)
(* then completes, falling back to software for a direction not offloaded. *)
(***************************************************************************)
\* Mutant: *clientCipher = kTLSCipher{} moved above the TX error check.
EnableWithMarkEarly(txBind, txCfg, rxBind, rxCfg, zcOk, npOk) ==
    LET fam     == Family(suite)
        v13     == IsTLS13(suite)
        start   == caps["support"] /\ SuiteOffloadable(suite) /\ caps["tx"]
        txTried == start /\ tcp
        tx      == Encoder(fam, FALSE, sock.ulp, txBind, txCfg)
        txOn    == txTried
        txFail  == txTried /\ ~tx.ok
        ulp1    == IF txTried THEN tx.ulp ELSE sock.ulp
        rxTried == /\ start /\ ~txFail /\ tcp
                   /\ caps["rx"] /\ (v13 => caps["tls13rx"])
        rx      == Encoder(fam, txOn, ulp1, rxBind, rxCfg)
        rxOn    == rxTried /\ rx.ok
        rxFail  == rxTried /\ ~rx.ok
    IN
    /\ sock' = [ulp   |-> IF rxTried THEN rx.ulp ELSE ulp1,
                tx    |-> sock.tx \/ (txTried /\ tx.configured),
                rx    |-> sock.rx \/ (rxTried /\ rx.configured),
                zc    |-> sock.zc \/ (txOn /\ caps["zerocopy"] /\ zcOk),
                nopad |-> sock.nopad \/ (rxOn /\ v13 /\ caps["nopad"] /\ npOk)]
    /\ out' = IF txOn THEN "ktls" ELSE out
    /\ in' = IF rxOn THEN "ktls" ELSE in
    /\ ulpLog' = ulpLog \o (IF txTried THEN tx.log ELSE <<>>)
                        \o (IF rxTried THEN rx.log ELSE <<>>)
    /\ enableErr' = CASE txFail /\ tx.err = "ulp" -> "ulp"
                      [] txFail                   -> "tx"
                      [] rxFail /\ rx.err = "ulp" -> "ulp"
                      [] rxFail                   -> "rx"
                      [] OTHER                    -> "none"

\* Mutant: the `return err` after a TX error dropped, so RX is still tried.
EnableWithNoTxReturn(txBind, txCfg, rxBind, rxCfg, zcOk, npOk) ==
    LET fam     == Family(suite)
        v13     == IsTLS13(suite)
        start   == caps["support"] /\ SuiteOffloadable(suite) /\ caps["tx"]
        txTried == start /\ tcp
        tx      == Encoder(fam, FALSE, sock.ulp, txBind, txCfg)
        txOn    == txTried /\ tx.ok
        txFail  == txTried /\ ~tx.ok
        ulp1    == IF txTried THEN tx.ulp ELSE sock.ulp
        rxTried == /\ start /\ tcp
                   /\ caps["rx"] /\ (v13 => caps["tls13rx"])
        rx      == Encoder(fam, txOn, ulp1, rxBind, rxCfg)
        rxOn    == rxTried /\ rx.ok
        rxFail  == rxTried /\ ~rx.ok
    IN
    /\ sock' = [ulp   |-> IF rxTried THEN rx.ulp ELSE ulp1,
                tx    |-> sock.tx \/ (txTried /\ tx.configured),
                rx    |-> sock.rx \/ (rxTried /\ rx.configured),
                zc    |-> sock.zc \/ (txOn /\ caps["zerocopy"] /\ zcOk),
                nopad |-> sock.nopad \/ (rxOn /\ v13 /\ caps["nopad"] /\ npOk)]
    /\ out' = IF txOn THEN "ktls" ELSE out
    /\ in' = IF rxOn THEN "ktls" ELSE in
    /\ ulpLog' = ulpLog \o (IF txTried THEN tx.log ELSE <<>>)
                        \o (IF rxTried THEN rx.log ELSE <<>>)
    /\ enableErr' = CASE txFail /\ tx.err = "ulp" -> "ulp"
                      [] txFail                   -> "tx"
                      [] rxFail /\ rx.err = "ulp" -> "ulp"
                      [] rxFail                   -> "rx"
                      [] OTHER                    -> "none"

\* The kernel's answers: txBind / rxBind for the TCP_ULP calls, txCfg / rxCfg
\* for the SOL_TLS calls, zcOk / npOk for the best-effort options.
EnableWith(txBind, txCfg, rxBind, rxCfg, zcOk, npOk) ==
    LET fam     == Family(suite)
        v13     == IsTLS13(suite)
        start   == caps["support"] /\ SuiteOffloadable(suite) /\ caps["tx"]
        txTried == start /\ tcp
        tx      == Encoder(fam, FALSE, sock.ulp, txBind, txCfg)
        txOn    == txTried /\ tx.ok
        txFail  == txTried /\ ~tx.ok
        ulp1    == IF txTried THEN tx.ulp ELSE sock.ulp
        rxTried == /\ start /\ ~txFail /\ tcp
                   /\ caps["rx"] /\ (v13 => caps["tls13rx"])
        rx      == Encoder(fam, txOn, ulp1, rxBind, rxCfg)
        rxOn    == rxTried /\ rx.ok
        rxFail  == rxTried /\ ~rx.ok
    IN
    /\ sock' = [ulp   |-> IF rxTried THEN rx.ulp ELSE ulp1,
                tx    |-> sock.tx \/ (txTried /\ tx.configured),
                rx    |-> sock.rx \/ (rxTried /\ rx.configured),
                zc    |-> sock.zc \/ (txOn /\ caps["zerocopy"] /\ zcOk),
                nopad |-> sock.nopad \/ (rxOn /\ v13 /\ caps["nopad"] /\ npOk)]
    /\ out' = IF txOn THEN "ktls" ELSE out
    /\ in' = IF rxOn THEN "ktls" ELSE in
    /\ ulpLog' = ulpLog \o (IF txTried THEN tx.log ELSE <<>>)
                        \o (IF rxTried THEN rx.log ELSE <<>>)
    /\ enableErr' = CASE txFail /\ tx.err = "ulp" -> "ulp"
                      [] txFail                   -> "tx"
                      [] rxFail /\ rx.err = "ulp" -> "ulp"
                      [] rxFail                   -> "rx"
                      [] OTHER                    -> "none"

EnableKernelTLS ==
    /\ probed
    /\ phase = "handshake"
    /\ \E txBind, txCfg, rxBind, rxCfg, zcOk, npOk \in BOOLEAN :
          EnableWith(txBind, txCfg, rxBind, rxCfg, zcOk, npOk)
    /\ phase' = "established"
    /\ UNCHANGED <<probeVars, suite, tcp, wire, inbox, delivered>>

\* One protection layer if b holds, none otherwise.
Bit(b) == IF b THEN 1 ELSE 0

\* Protection layers a record gets on the way out: once by the record layer
\* unless the out marker is kTLSCipher or the path bypasses the record layer,
\* once by the kernel if TLS_TX is configured.
OutLayers(user) == Bit(user) + Bit(sock.tx)

\* Layers left on a peer record on the way in (it left the peer with one).
InLayers(user) == 1 - Bit(sock.rx) - Bit(user)

CanSend == phase = "established" /\ Len(wire) < MaxRecords
CanRecv == phase = "established" /\ inbox > 0

\* c.Write through the record layer (conn.go), which skips its own
\* encryption when c.out.cipher is the kTLSCipher marker.
Write ==
    /\ CanSend
    /\ wire' = Append(wire, [path |-> "write", layers |-> OutLayers(out = "soft")])
    /\ UNCHANGED <<probeVars, suite, tcp, phase, sock, out, in, ulpLog,
                   enableErr, inbox, delivered>>

\* Conn.ReadFrom: after c.Handshake(), io.Copy(c.conn, r) straight onto the
\* socket.
ReadFrom ==
    /\ CanSend
    /\ wire' = Append(wire, [path |-> "readfrom", layers |-> OutLayers(FALSE)])
    /\ UNCHANGED <<probeVars, suite, tcp, phase, sock, out, in, ulpLog,
                   enableErr, inbox, delivered>>

\* ktlsSendCtrlMessage: sendmsg with a TLS_SET_RECORD_TYPE control message,
\* used by the record layer for non-data records once TX is offloaded.
SendCtrlMessage ==
    /\ CanSend
    /\ out = "ktls"
    /\ wire' = Append(wire, [path |-> "ctrl", layers |-> OutLayers(FALSE)])
    /\ UNCHANGED <<probeVars, suite, tcp, phase, sock, out, in, ulpLog,
                   enableErr, inbox, delivered>>

\* The peer sends one protected record.
PeerSend ==
    /\ phase = "established"
    /\ inbox + Len(delivered) < MaxRecords
    /\ inbox' = inbox + 1
    /\ UNCHANGED <<probeVars, suite, tcp, phase, sock, out, in, ulpLog,
                   enableErr, wire, delivered>>

\* c.Read through the record layer (conn.go) when c.in.cipher is a software
\* cipher: it reads the socket and decrypts.
Read ==
    /\ CanRecv
    /\ in = "soft"
    /\ inbox' = inbox - 1
    /\ delivered' = Append(delivered, [path |-> "read", layers |-> InLayers(TRUE)])
    /\ UNCHANGED <<probeVars, suite, tcp, phase, sock, out, in, ulpLog,
                   enableErr, wire>>

\* Mutant: the cmsg level and type checks of ktlsReadRecord dropped.
ReadRecordNoCmsgCheck ==
    /\ CanRecv
    /\ inbox' = inbox - 1
    /\ delivered' = Append(delivered, [path |-> "record", layers |-> InLayers(FALSE)])
    /\ UNCHANGED <<probeVars, suite, tcp, phase, sock, out, in, ulpLog,
                   enableErr, wire>>

\* Mutant: ktlsReadRecord does not wait for data (the EAGAIN retry lost).
ReadRecordNoWait ==
    /\ phase = "established"
    /\ inbox' = inbox - 1
    /\ delivered' = IF sock.rx
                    THEN Append(delivered, [path |-> "record", layers |-> InLayers(FALSE)])
                    ELSE delivered
    /\ UNCHANGED <<probeVars, suite, tcp, phase, sock, out, in, ulpLog,
                   enableErr, wire>>

\* ktlsReadDataFromRecord over ktlsReadRecord: recvmsg with room for one
\* control message.  Only a kernel with TLS_RX attaches the SOL_TLS /
\* TLS_GET_RECORD_TYPE message; without it the cmsg level check fails and
\* the bytes read are dropped with the error.
ReadRecord ==
    /\ CanRecv
    /\ inbox' = inbox - 1
    /\ delivered' = IF sock.rx
                    THEN Append(delivered, [path |-> "record", layers |-> InLayers(FALSE)])
                    ELSE delivered
    /\ UNCHANGED <<probeVars, suite, tcp, phase, sock, out, in, ulpLog,
                   enableErr, wire>>

\* Conn.WriteTo: after c.Handshake(), spliceToFile for a LimitedWriter on a
\* file, io.Copy(w, c.conn) otherwise; both take the socket's bytes as they
\* come out of the kernel.
WriteTo ==
    /\ CanRecv
    /\ inbox' = inbox - 1
    /\ delivered' = Append(delivered, [path |-> "writeto", layers |-> InLayers(FALSE)])
    /\ UNCHANGED <<probeVars, suite, tcp, phase, sock, out, in, ulpLog,
                   enableErr, wire>>

ProbeStep == Probe /\ UNCHANGED connVars

Next ==
    \/ ProbeStep
    \/ EnableKernelTLS
    \/ Write
    \/ ReadFrom
    \/ SendCtrlMessage
    \/ PeerSend
    \/ Read
    \/ ReadRecord
    \/ WriteTo

Spec == Init /\ [][Next]_vars

-----------------------------------------------------------------------------
(* Properties *)

\* Every variable has its type.
TypeOK ==
    /\ ProbeTypeOK
    /\ suite \in NegotiatedSuites
    /\ tcp \in BOOLEAN
    /\ phase \in {"handshake", "established"}
    /\ sock \in SockState
    /\ out \in {"soft", "ktls"}
    /\ in \in {"soft", "ktls"}
    /\ ulpLog \in Seq({"ok", "fail"})
    /\ enableErr \in Errors
    /\ wire \in Seq([path : WirePaths, layers : 0..2])
    /\ inbox \in Nat
    /\ delivered \in Seq([path : ReadPaths, layers : -1..1])

\* The record layer's markers agree with the kernel: c.out.cipher is the
\* kTLSCipher marker exactly when the kernel encrypts the socket's output,
\* c.in.cipher exactly when it decrypts its input, whichever of the TX and RX
\* setsockopt calls of enableKernelTLS failed.
OffloadConsistent ==
    /\ (out = "ktls") <=> sock.tx
    /\ (in = "ktls") <=> sock.rx

\* The TLS ULP is attached at most once per connection: the RX encoder is
\* told to skip the bind (ulpEnabled) once TX has bound it, so the kernel is
\* never asked for a second TCP_ULP, which it would refuse.
UlpBoundOnce == Len(ulpLog) <= 1

\* The kernel is configured only for what init() found it supports, and RX
\* only together with TX: TLS_TX needs kTLSSupport, kTLSSupportTX and the
\* suite's family (kTLSSupportTLS13TX for TLS 1.3); TLS_RX needs a successful
\* TLS_TX, kTLSSupportRX and, for TLS 1.3, kTLSSupportTLS13RX; TX zero-copy
\* needs kTLSSupportZEROCOPY, and RX no-pad TLS 1.3 and
\* kTLSSupportNOPAD.
OffloadWithinCaps ==
    /\ sock.tx    => caps["support"] /\ caps["tx"] /\ SuiteOffloadable(suite)
    /\ sock.rx    => /\ sock.tx /\ caps["rx"]
                     /\ IsTLS13(suite) => caps["tls13rx"]
    /\ sock.zc    => sock.tx /\ caps["zerocopy"]
    /\ sock.nopad => sock.rx /\ IsTLS13(suite) /\ caps["nopad"]

\* TLS 1.3 receive offload is switched on only when the kernel init() found
\* is 6.0 or later: the table in use is the one init() writes for such a
\* kernel.  Only the `major > 5` test of init() and the kTLSSupportTLS13RX
\* check of ktlsEnableAES / ktlsEnableCHACHA20 together give this.
TLS13RXNeedsKernel6 ==
    sock.rx /\ IsTLS13(suite) =>
        \E v \in KernelVersions : v[1] > 5 /\ caps = ProbeCaps(TRUE, v)

\* Every record any path of the connection sends, Conn.ReadFrom included, is
\* protected exactly once on the wire.
WireProtected == \A i \in 1..Len(wire) : wire[i].layers = 1

\* Every record any path hands to the application, Conn.WriteTo included, is
\* decrypted.
DeliveredPlain == \A i \in 1..Len(delivered) : delivered[i].layers = 0

\* A failed setsockopt(TCP_ULP) is what enableKernelTLS reports: the spec
\* has the encoder propagate it as its own error.
UlpFailureReported ==
    (\E i \in 1..Len(ulpLog) : ulpLog[i] = "fail") => enableErr = "ulp"


-----------------------------------------------------------------------------
(***************************************************************************)
(* Refinement of KTLSOffload.  A direction is pending until               *)
(* enableKernelTLS has run, then kernel where the marker is kTLSCipher and *)
(* soft otherwise.  A record is protected on the wire when it carries      *)
(* exactly one layer, plain towards the application when it carries none. *)
(***************************************************************************)
AbsMode(marker) ==
    IF phase = "handshake" THEN "pending"
    ELSE IF marker = "ktls" THEN "kernel" ELSE "soft"

AbsWire ==
    [i \in 1..Len(wire) |-> [path |-> wire[i].path, protected |-> wire[i].layers = 1]]

AbsDelivered ==
    [i \in 1..Len(delivered) |-> [path |-> delivered[i].path,
                                  plain |-> delivered[i].layers = 0]]

Offload == INSTANCE KTLSOffload
               WITH txMode <- AbsMode(out), rxMode <- AbsMode(in),
                    wire <- AbsWire, delivered <- AbsDelivered

\* The connection keeps what offload promises: enableKernelTLS decides each
\* direction once (RX only along with TX, as ktlsEnableAES and
\* ktlsEnableCHACHA20 return on a TX error), a marker never changes after
\* it, the record layer and ktlsSendCtrlMessage / ktlsReadDataFromRecord
\* always protect their records, and ReadFrom / WriteTo exactly when the
\* kernel does the direction.
OffloadRefined == Offload!Spec

=============================================================================
