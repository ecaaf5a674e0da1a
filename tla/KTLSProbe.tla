------------------------------ MODULE KTLSProbe ------------------------------
(***************************************************************************)
(* The process-wide kernel TLS capability table of goktls: the package     *)
(* variables kTLSSupport, kTLSSupportTX, ... of ktls_linux.go, computed    *)
(* once by the package init() from the presence of /sys/module/tls and the *)
(* kernel release reported by uname, and read without synchronisation     *)
(* afterwards by every connection.                                         *)
(*                                                                         *)
(* The release string is abstracted to the (major, minor) pair that the    *)
(* parser in init() extracts, or to NoVersion when uname or the parse      *)
(* fails; how that pair is extracted is the subject of KTLSRelease.        *)
(***************************************************************************)
EXTENDS Integers

CONSTANTS
    KernelVersions,   \* the (major, minor) pairs the probed kernel may report
    NoVersion         \* uname failed or a release field did not parse

ASSUME KernelVersionsAssumption ==
    /\ KernelVersions \subseteq (Nat \X Nat)
    /\ NoVersion \notin Nat \X Nat

\* The capability flags: the package variables kTLSSupport* of ktls_linux.go.
Features == {"support", "tx", "rx", "aes128", "aes256", "chacha",
             "tls13tx", "tls13rx", "zerocopy", "nopad"}

\* kTLSEnabled: set to true by the init() of ktls.go, which runs before the
\* init() of ktls_linux.go (files are initialised in name order), and
\* written nowhere else.
kTLSEnabled == TRUE

VARIABLES
    caps,     \* Features -> BOOLEAN, the kTLSSupport* variables
    probed    \* init() of ktls_linux.go has run

probeVars == <<caps, probed>>

NoCaps == [f \in Features |-> FALSE]

\* The kernel version thresholds of init(): (major == M && minor >= m) || major > M.
AtLeast(v, M, m) == (v[1] = M /\ v[2] >= m) \/ v[1] > M

\* Mutant: kTLSSupportTLS13RX set from 5.19 on, as the comment above the RX
\* check of ktlsEnableAES says, instead of from 6.0.
VersionCapsTLS13RX519(v) ==
    [f \in Features |->
        CASE f = "support"  -> TRUE
          [] f = "tx"       -> AtLeast(v, 4, 13)
          [] f = "aes128"   -> AtLeast(v, 4, 13)
          [] f = "rx"       -> AtLeast(v, 4, 17)
          [] f = "aes256"   -> AtLeast(v, 5, 1)
          [] f = "tls13tx"  -> AtLeast(v, 5, 1)
          [] f = "chacha"   -> AtLeast(v, 5, 11)
          [] f = "zerocopy" -> AtLeast(v, 5, 19)
          [] f = "tls13rx"  -> AtLeast(v, 5, 19)
          [] f = "nopad"    -> v[1] > 5]

\* The flags init() sets for a parsed kernel version v, kTLSSupport being true.
VersionCaps(v) ==
    [f \in Features |->
        CASE f = "support"  -> TRUE
          [] f = "tx"       -> AtLeast(v, 4, 13)
          [] f = "aes128"   -> AtLeast(v, 4, 13)
          [] f = "rx"       -> AtLeast(v, 4, 17)
          [] f = "aes256"   -> AtLeast(v, 5, 1)
          [] f = "tls13tx"  -> AtLeast(v, 5, 1)
          [] f = "chacha"   -> AtLeast(v, 5, 11)
          [] f = "zerocopy" -> AtLeast(v, 5, 19)
          [] f = "tls13rx"  -> v[1] > 5
          [] f = "nopad"    -> v[1] > 5]

\* The whole of init(): a missing tls module leaves every flag false; with the
\* module present kTLSSupport is kTLSEnabled, and a failed uname or parse
\* returns early with only kTLSSupport set.
ProbeCaps(present, v) ==
    IF ~present THEN NoCaps
    ELSE IF ~kTLSEnabled THEN NoCaps
    ELSE IF v = NoVersion THEN [NoCaps EXCEPT !["support"] = TRUE]
    ELSE VersionCaps(v)

ProbeInit ==
    /\ caps = NoCaps
    /\ probed = FALSE

\* Package initialisation: runs once, before any connection exists.
Probe ==
    /\ ~probed
    /\ \E present \in BOOLEAN, v \in KernelVersions \cup {NoVersion} :
          caps' = ProbeCaps(present, v)
    /\ probed' = TRUE

ProbeTypeOK ==
    /\ caps \in [Features -> BOOLEAN]
    /\ probed \in BOOLEAN

=============================================================================
