----------------------------- MODULE KTLSSplice ------------------------------
(***************************************************************************)
(* Conn.spliceToFile (ktls_linux.go): moving lw.N bytes of an offloaded    *)
(* socket into a file through a temporary pipe.  The reading goroutine     *)
(* runs the callback of sc.Read: splice socket -> pipe, then, inside       *)
(* fsc.Write, splice pipe -> file until the chunk is drained; on EAGAIN    *)
(* the callback returns false and the goroutine parks in the poller until  *)
(* the socket is readable or its deadline passes.                          *)
(*                                                                         *)
(* Bytes are counted, not named: the pipe and the file are FIFO, so their  *)
(* contents are the stream's next bytes.  A failed splice returns -1 in n  *)
(* (the raw syscall result on error, as the n == -1 fix of ktlsReadRecord  *)
(* notes), which the code adds into remain and written before it looks at  *)
(* err.  The peer sends Total bytes, one at a time, and may then close.    *)
(***************************************************************************)
EXTENDS Integers

CONSTANTS
    Limit,       \* lw.N, the byte count asked of spliceToFile
    Total,       \* bytes the peer sends before it may close
    MaxSplice    \* maxSpliceSize (4 MiB), scaled down

ASSUME SpliceConstantsAssumption ==
    /\ Limit \in Nat \ {0}
    /\ Total \in Nat
    /\ MaxSplice \in Nat \ {0}

VARIABLES
    pc,        \* "start", "loop", "parked", "drain", "exit", "done"
    remain,    \* the remain parameter, decremented by every splice result
    written,   \* the written result
    n,         \* the chunk variable shared by the two splice stages
    err,       \* the err result: "none", "sock", "file", "timeout"
    handled,   \* the handled result
    pipe,      \* bytes in the temporary pipe
    file,      \* bytes spliced into the file
    consumed,  \* bytes taken off the socket
    avail,     \* decrypted bytes waiting in the socket
    sent,      \* bytes the peer has sent
    peerFin    \* the peer closed its side of the TCP connection

vars == <<pc, remain, written, n, err, handled, pipe, file, consumed, avail,
          sent, peerFin>>

peerVars == <<avail, sent, peerFin>>

Min(a, b) == IF a < b THEN a ELSE b

Init ==
    /\ pc = "start"
    /\ remain = Limit
    /\ written = 0
    /\ n = MaxSplice
    /\ err = "none"
    /\ handled = FALSE
    /\ pipe = 0
    /\ file = 0
    /\ consumed = 0
    /\ avail = 0
    /\ sent = 0
    /\ peerFin = FALSE

\* The type assertion, SyscallConn and unix.Pipe; any failure returns
\* (0, nil, false) and WriteTo falls back to io.Copy.
Start ==
    /\ pc = "start"
    /\ \E ok \in BOOLEAN :
          /\ pc' = IF ok THEN "loop" ELSE "done"
          /\ handled' = ok
    /\ UNCHANGED <<remain, written, n, err, pipe, file, consumed, peerVars>>

\* The chunk size computed at the top of the callback's loop.
Chunk == Min(MaxSplice, remain)

\* Mutant: the socket splice is taken to move the whole chunk, data or not.
SpliceInDataNoWait ==
    /\ pc = "loop"
    /\ \E k \in 1..Chunk :
          /\ remain' = remain - k
          /\ written' = written + k
          /\ n' = k
          /\ avail' = avail - k
          /\ consumed' = consumed + k
          /\ pipe' = pipe + k
    /\ pc' = "drain"
    /\ UNCHANGED <<err, handled, file, sent, peerFin>>

\* splice(socket -> pipe) moves k bytes: remain and written are adjusted and
\* the chunk goes to the file stage.
SpliceInData ==
    /\ pc = "loop"
    /\ \E k \in 1..Min(Chunk, avail) :
          /\ remain' = remain - k
          /\ written' = written + k
          /\ n' = k
          /\ avail' = avail - k
          /\ consumed' = consumed + k
          /\ pipe' = pipe + k
    /\ pc' = "drain"
    /\ err' = "none"
    /\ UNCHANGED <<handled, file, sent, peerFin>>

\* splice(socket -> pipe) at end of stream returns 0 with no error: the zero
\* chunk goes to the file stage.
SpliceInEOF ==
    /\ pc = "loop"
    /\ avail = 0
    /\ peerFin
    /\ n' = 0
    /\ pc' = "drain"
    /\ err' = "none"
    /\ UNCHANGED <<remain, written, handled, pipe, file, consumed, peerVars>>

\* splice(socket -> pipe) fails with EAGAIN: n is -1 and is folded into
\* remain and written; err is reset to nil and the callback returns false.
SpliceInAgain ==
    /\ pc = "loop"
    /\ avail = 0
    /\ ~peerFin
    /\ n' = -1
    /\ remain' = remain + 1
    /\ written' = written - 1
    /\ pc' = "parked"
    /\ err' = "none"
    /\ UNCHANGED <<handled, pipe, file, consumed, peerVars>>

\* splice(socket -> pipe) fails otherwise (a non-data record, a reset, a
\* bad record MAC): n is -1, folded in, and the loop breaks.
SpliceInError ==
    /\ pc = "loop"
    /\ n' = -1
    /\ remain' = remain + 1
    /\ written' = written - 1
    /\ err' = "sock"
    /\ pc' = "exit"
    /\ UNCHANGED <<handled, pipe, file, consumed, peerVars>>

\* The poller wakes the parked goroutine when the socket is readable, and
\* sc.Read calls the callback again.
Wake ==
    /\ pc = "parked"
    /\ avail > 0 \/ peerFin
    /\ pc' = "loop"
    /\ UNCHANGED <<remain, written, n, err, handled, pipe, file, consumed,
                   peerVars>>

\* Mutant: `if err == nil { err = rerr }` dropped.
DeadlineDropErr ==
    /\ pc = "parked"
    /\ pc' = "exit"
    /\ UNCHANGED <<remain, written, n, err, handled, pipe, file, consumed,
                   peerVars>>

\* The socket's deadline passes while the goroutine is parked: sc.Read
\* returns the error, which becomes err because err is nil.
Deadline ==
    /\ pc = "parked"
    /\ err' = IF err = "none" THEN "timeout" ELSE err
    /\ pc' = "exit"
    /\ UNCHANGED <<remain, written, n, handled, pipe, file, consumed,
                   peerVars>>

\* Mutant: the short-move retry (goto bump) dropped.
SpliceOutNoRetry ==
    /\ pc = "drain"
    /\ \E m \in 0..Min(n, pipe) :
          /\ m = 0 => n = 0
          /\ pipe' = pipe - m
          /\ file' = file + m
    /\ pc' = IF remain <= 0 THEN "exit" ELSE "loop"
    /\ UNCHANGED <<remain, written, n, err, handled, consumed, peerVars>>

\* splice(pipe -> file) of n bytes moves m of them; a short move is retried
\* with n - m (goto bump), a full one ends fsc.Write (err, set by every
\* splice, is nil), and the callback's
\* loop stops once remain <= 0.
SpliceOutData ==
    /\ pc = "drain"
    /\ \E m \in 0..Min(n, pipe) :
          /\ m = 0 => n = 0
          /\ pipe' = pipe - m
          /\ file' = file + m
          /\ IF m < n
             THEN /\ n' = n - m
                  /\ pc' = "drain"
             ELSE /\ n' = n
                  /\ pc' = IF remain <= 0 THEN "exit" ELSE "loop"
    /\ err' = "none"
    /\ UNCHANGED <<remain, written, handled, consumed, peerVars>>

\* Mutant: the err test of `if err != nil || remain <= 0 { break }` dropped.
SpliceOutErrorNoBreak ==
    /\ pc = "drain"
    /\ err' = "file"
    /\ pc' = IF remain <= 0 THEN "exit" ELSE "loop"
    /\ UNCHANGED <<remain, written, n, handled, pipe, file, consumed,
                   peerVars>>

\* splice(pipe -> file) fails (the file system is full): fsc.Write returns,
\* err is set and the loop breaks.
SpliceOutError ==
    /\ pc = "drain"
    /\ err' = "file"
    /\ pc' = "exit"
    /\ UNCHANGED <<remain, written, n, handled, pipe, file, consumed,
                   peerVars>>

\* spliceToFile returns: the deferred destroyTempPipe closes both ends and
\* what the pipe still holds is gone.
Finish ==
    /\ pc = "exit"
    /\ pipe' = 0
    /\ pc' = "done"
    /\ UNCHANGED <<remain, written, n, err, handled, file, consumed,
                   peerVars>>

\* The peer's TLS stack sends one more byte; the kernel decrypts it.
PeerSend ==
    /\ sent < Total
    /\ sent' = sent + 1
    /\ avail' = avail + 1
    /\ UNCHANGED <<pc, remain, written, n, err, handled, pipe, file, consumed,
                   peerFin>>

\* The peer closes its side after sending everything.
PeerClose ==
    /\ sent = Total
    /\ ~peerFin
    /\ peerFin' = TRUE
    /\ UNCHANGED <<pc, remain, written, n, err, handled, pipe, file, consumed,
                   avail, sent>>

\* The steps of the goroutine running spliceToFile.
Transfer ==
    \/ Start \/ SpliceInData \/ SpliceInEOF \/ SpliceInAgain \/ SpliceInError
    \/ Wake \/ SpliceOutData \/ SpliceOutError \/ Finish

Peer == PeerSend \/ PeerClose

Next == Transfer \/ Deadline \/ Peer

\* The goroutine is scheduled whenever it can run; the peer and the deadline
\* are the environment and owe nothing.
Spec == Init /\ [][Next]_vars /\ WF_vars(Transfer)

-----------------------------------------------------------------------------
(* Properties *)

\* Every variable has its type.
TypeOK ==
    /\ pc \in {"start", "loop", "parked", "drain", "exit", "done"}
    /\ remain \in Int
    /\ written \in Int
    /\ n \in Int
    /\ err \in {"none", "sock", "file", "timeout"}
    /\ handled \in BOOLEAN
    /\ pipe \in Nat /\ file \in Nat /\ consumed \in Nat
    /\ avail \in Nat /\ sent \in Nat
    /\ peerFin \in BOOLEAN

\* A chunk is in the file before the next one is taken off the socket: when
\* the callback goes back to the socket, or parks, the pipe is empty, the
\* short pipe -> file moves having been retried for the rest of the chunk.
PipeDrainedBeforeNextChunk == pc \in {"loop", "parked"} => pipe = 0

\* A transfer that returns with fewer than lw.N bytes in the file reports an
\* error, whether the socket, the file or the deadline stopped it.
ShortTransferHasError ==
    (pc = "done" /\ handled /\ file < Limit) => err # "none"

\* err is the variable of spliceToFile that both closures assign, every
\* splice call included.  The error spliceToFile returns is the first one it
\* met: once err is set, no later step (a splice of the callback's loop,
\* the EAGAIN reset, rerr of sc.Read) clears or replaces it.
ErrorSticky == [][err # "none" => err' = err]_vars

\* spliceToFile takes no more than lw.N bytes off the socket: what follows
\* belongs to the next reader of the connection.
NoOverRead == consumed <= Limit

\* The written result is the number of bytes that reached the file.
WrittenAccurate == (pc = "done" /\ handled) => written = file

\* Once the peer has closed the connection, spliceToFile returns.
Termination == peerFin ~> (pc = "done")

-----------------------------------------------------------------------------
(***************************************************************************)
(* Refinement of KTLSTransfer.  spliceToFile is idle before its set-up,    *)
(* copying from the socket splice loop to the deferred destroyTempPipe,    *)
(* and has returned after it.  The bytes taken are those spliced off the   *)
(* socket, the bytes stored those spliced into the file; the pipe and the  *)
(* splice stages are hidden.                                               *)
(***************************************************************************)
AbsStatus ==
    CASE pc = "start" -> "idle"
      [] pc = "done"  -> "returned"
      [] OTHER        -> "copying"

Copy == INSTANCE KTLSTransfer
            WITH status <- AbsStatus, taken <- consumed, stored <- file

\* spliceToFile keeps what WriteTo promises: every byte reaches the file in
\* the order it left the socket, the first error is the one returned, and
\* a return without an error has moved into the file every byte it took
\* off the socket, and at least lw.N of them.
TransferRefined == Copy!Spec

=============================================================================
