---------------------------- MODULE KTLSOffload ----------------------------
(***************************************************************************)
(* What kernel TLS offload promises a connection, with no kernel, no       *)
(* setsockopt and no marker in it.  Each direction starts "pending" and is *)
(* decided once, when the handshake hands over: "kernel" (offloaded) or    *)
(* "soft" (Go's record layer keeps it).  The decision never changes.       *)
(*                                                                         *)
(* Records are reduced to their path and whether they are protected as     *)
(* TLS requires: encrypted once on the wire, decrypted once when handed to *)
(* the application.  The record layer and the record-type I/O always get   *)
(* this right.  The paths that bypass the record layer (Conn.ReadFrom,     *)
(* Conn.WriteTo) get it right exactly when the kernel does the direction.  *)
(***************************************************************************)
EXTENDS Sequences

VARIABLES
    txMode,     \* "pending", "soft" or "kernel"
    rxMode,
    wire,       \* records sent: [path, protected]
    delivered   \* records handed to the application: [path, plain]

vars == <<txMode, rxMode, wire, delivered>>

Modes == {"pending", "soft", "kernel"}
WirePaths == {"write", "readfrom", "ctrl"}
ReadPaths == {"read", "record", "writeto"}

\* The paths that go through the record layer or the record-type I/O.
Framed == {"write", "ctrl", "read", "record"}

TypeOK ==
    /\ txMode \in Modes
    /\ rxMode \in Modes
    /\ wire \in Seq([path : WirePaths, protected : BOOLEAN])
    /\ delivered \in Seq([path : ReadPaths, plain : BOOLEAN])

Init ==
    /\ txMode = "pending"
    /\ rxMode = "pending"
    /\ wire = <<>>
    /\ delivered = <<>>

\* The hand-over decides both directions at once; RX is offloaded only
\* together with TX.
Decide ==
    /\ txMode = "pending"
    /\ \E m \in {<<"soft", "soft">>, <<"kernel", "soft">>, <<"kernel", "kernel">>} :
          /\ txMode' = m[1]
          /\ rxMode' = m[2]
    /\ UNCHANGED <<wire, delivered>>

\* A record goes out on path p; control records need the kernel's framing.
Send(p) ==
    /\ txMode # "pending"
    /\ p = "ctrl" => txMode = "kernel"
    /\ wire' = Append(wire, [path |-> p,
                             protected |-> p \in Framed \/ txMode = "kernel"])
    /\ UNCHANGED <<txMode, rxMode, delivered>>

\* A record comes in on path p: the record layer reads a software
\* direction, the record-type read an offloaded one.
Receive(p) ==
    /\ rxMode # "pending"
    /\ p = "read" => rxMode = "soft"
    /\ p = "record" => rxMode = "kernel"
    /\ delivered' = Append(delivered, [path |-> p,
                                       plain |-> p \in Framed \/ rxMode = "kernel"])
    /\ UNCHANGED <<txMode, rxMode, wire>>

Next ==
    \/ Decide
    \/ \E p \in WirePaths : Send(p)
    \/ \E p \in ReadPaths : Receive(p)

Spec == Init /\ [][Next]_vars
=============================================================================
