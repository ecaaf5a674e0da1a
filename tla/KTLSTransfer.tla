---------------------------- MODULE KTLSTransfer ----------------------------
(***************************************************************************)
(* What Conn.WriteTo promises when it hands an offloaded socket's stream   *)
(* to a file, with no pipe, no poller and no retry in it.  Bytes are taken *)
(* off the decrypted stream and stored in the file in order; an error,     *)
(* once met, is final; a transfer returns without an error only when it    *)
(* stored every byte it took, and at least the lw.N bytes asked for.       *)
(***************************************************************************)
EXTENDS Naturals

CONSTANT Limit     \* lw.N

VARIABLES
    status,    \* "idle", "copying" or "returned"
    handled,   \* the transfer was done by the kernel path
    taken,     \* bytes taken off the stream
    stored,    \* bytes stored in the file, a prefix of those taken
    err        \* "none" or the error that stopped the transfer

vars == <<status, handled, taken, stored, err>>

Init ==
    /\ status = "idle"
    /\ handled = FALSE
    /\ taken = 0
    /\ stored = 0
    /\ err = "none"

\* The kernel path is set up, or not, and then the caller falls back.
Begin ==
    /\ status = "idle"
    /\ \E ok \in BOOLEAN :
          /\ handled' = ok
          /\ status' = IF ok THEN "copying" ELSE "returned"
    /\ UNCHANGED <<taken, stored, err>>

\* More bytes are taken off the stream.
Take ==
    /\ status = "copying"
    /\ err = "none"
    /\ taken' \in Nat
    /\ taken' > taken
    /\ UNCHANGED <<status, handled, stored, err>>

\* More of the bytes taken reach the file, in order.
Store ==
    /\ status = "copying"
    /\ stored' \in Nat
    /\ stored < stored' /\ stored' <= taken
    /\ UNCHANGED <<status, handled, taken, err>>

\* The socket, the file or the deadline stops the transfer.
Fail(e) ==
    /\ status = "copying"
    /\ err = "none"
    /\ err' = e
    /\ UNCHANGED <<status, handled, taken, stored>>

\* The transfer returns; without an error only once everything taken is
\* stored and lw.N is reached.
Return ==
    /\ status = "copying"
    /\ err = "none" => stored = taken /\ stored >= Limit
    /\ status' = "returned"
    /\ UNCHANGED <<handled, taken, stored, err>>

Next ==
    \/ Begin
    \/ Take
    \/ Store
    \/ \E e \in {"sock", "file", "timeout"} : Fail(e)
    \/ Return

Spec == Init /\ [][Next]_vars
=============================================================================
