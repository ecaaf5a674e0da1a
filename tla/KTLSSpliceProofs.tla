------------------------- MODULE KTLSSpliceProofs -------------------------
(***************************************************************************)
(* Proofs about KTLSSplice: the pipe is drained before the next chunk is   *)
(* taken off the socket, and a transfer that falls short reports an error, *)
(* for every lw.N, peer byte count and chunk size.                         *)
(***************************************************************************)
EXTENDS KTLSSplice, TLAPS

(***************************************************************************)
(* The inductive invariant.  Outside fsc.Write the pipe is empty; inside   *)
(* it, the pipe holds exactly the n bytes still to move.  While no error   *)
(* is set, every byte of lw.N is in the file, in the pipe or still in      *)
(* remain (an EAGAIN's -1 only makes remain larger).  The loop leaves      *)
(* without an error only after a full move with remain <= 0.  err is nil   *)
(* while the loop runs: each error breaks it at once.  Until the pipe is   *)
(* destroyed, every byte taken off the socket is in the pipe or the file.  *)
(***************************************************************************)
SpliceInv ==
    /\ TypeOK
    /\ pc \in {"start", "loop", "parked", "done"} => pipe = 0
    /\ pc = "drain" => pipe = n /\ n >= 0
    /\ pc \in {"start", "loop", "parked", "drain"} => err = "none"
    /\ pc # "done" => consumed = file + pipe
    /\ file <= consumed
    /\ err = "none" => file + pipe + remain >= Limit
    /\ pc = "exit" /\ err = "none" => pipe = 0 /\ remain <= 0
    /\ pc = "done" /\ handled /\ err = "none" => remain <= 0

\* SpliceInv split into its two Boolean-valued variables and the rest, for
\* the provers: Zenon does the first, SMT the second.
BoolTypeOK == handled \in BOOLEAN /\ peerFin \in BOOLEAN

NumInv ==
    /\ pc \in {"start", "loop", "parked", "drain", "exit", "done"}
    /\ remain \in Int /\ written \in Int /\ n \in Int
    /\ err \in {"none", "sock", "file", "timeout"}
    /\ pipe \in Nat /\ file \in Nat /\ consumed \in Nat
    /\ avail \in Nat /\ sent \in Nat
    /\ pc \in {"start", "loop", "parked", "done"} => pipe = 0
    /\ pc = "drain" => pipe = n /\ n >= 0
    /\ pc \in {"start", "loop", "parked", "drain"} => err = "none"
    /\ pc # "done" => consumed = file + pipe
    /\ file <= consumed
    /\ err = "none" => file + pipe + remain >= Limit
    /\ pc = "exit" /\ err = "none" => pipe = 0 /\ remain <= 0
    /\ pc = "done" /\ handled /\ err = "none" => remain <= 0

LEMMA SplitInv == SpliceInv <=> BoolTypeOK /\ NumInv
BY Zenon DEF SpliceInv, BoolTypeOK, NumInv, TypeOK

LEMMA SpliceInit == Init => SpliceInv
<1> SUFFICES ASSUME Init PROVE BoolTypeOK /\ NumInv
  BY SplitInv
<1>1. BoolTypeOK
  BY Zenon DEF Init, BoolTypeOK
<1>2. NumInv
  BY SpliceConstantsAssumption DEF Init, NumInv
<1>3. QED
  BY <1>1, <1>2

\* Only Start writes handled and only PeerClose writes peerFin, both with a
\* Boolean.
LEMMA BoolStep == BoolTypeOK /\ [Next]_vars => BoolTypeOK'
BY Zenon DEF BoolTypeOK, Next, Transfer, Peer, Start, SpliceInData, SpliceInEOF,
             SpliceInAgain, SpliceInError, Wake, SpliceOutData, SpliceOutError,
             Finish, Deadline, PeerSend, PeerClose, vars, peerVars

LEMMA NumStep == NumInv /\ [Next]_vars => NumInv'
<1> SUFFICES ASSUME NumInv, [Next]_vars PROVE NumInv'
  OBVIOUS
<1> USE SpliceConstantsAssumption DEF NumInv
<1>1. CASE Start
  BY <1>1 DEF Start, peerVars
<1>2. CASE SpliceInData
  <2>1. PICK k \in 1..Min(Chunk, avail) :
            /\ remain' = remain - k
            /\ written' = written + k
            /\ n' = k
            /\ avail' = avail - k
            /\ consumed' = consumed + k
            /\ pipe' = pipe + k
    BY <1>2 DEF SpliceInData
  <2>2. k \in 1..avail
    BY <2>1 DEF Min, Chunk
  <2>3. QED
    BY <1>2, <2>1, <2>2 DEF SpliceInData
<1>3. CASE SpliceInEOF
  BY <1>3 DEF SpliceInEOF, peerVars
<1>4. CASE SpliceInAgain
  BY <1>4 DEF SpliceInAgain, peerVars
<1>5. CASE SpliceInError
  BY <1>5 DEF SpliceInError, peerVars
<1>6. CASE Wake
  BY <1>6 DEF Wake, peerVars
<1>7. CASE SpliceOutData
  <2>1. PICK m \in 0..Min(n, pipe) :
            /\ m = 0 => n = 0
            /\ pipe' = pipe - m
            /\ file' = file + m
            /\ IF m < n
               THEN n' = n - m /\ pc' = "drain"
               ELSE n' = n /\ pc' = IF remain <= 0 THEN "exit" ELSE "loop"
    BY <1>7 DEF SpliceOutData
  <2>2. pc = "drain" /\ pipe = n /\ m \in 0..n
    BY <1>7, <2>1 DEF SpliceOutData, Min
  <2>6. /\ UNCHANGED <<remain, written, err, consumed, avail, sent>>
        /\ err' = "none" => err = "none"
    BY <1>7 DEF SpliceOutData, peerVars
  <2>3. CASE m < n
    <3>1. n' = n - m /\ pc' = "drain"
      BY <2>1, <2>3
    <3>2. QED
      BY <2>1, <2>2, <2>6, <3>1
  <2>4. CASE ~(m < n)
    <3>1. m = n /\ n' = n /\ pc' \in {"exit", "loop"}
      BY <2>1, <2>2, <2>4
    <3>2. pc' = "exit" => remain <= 0
      BY <2>1, <2>4
    <3>3. QED
      BY <2>1, <2>2, <2>6, <3>1, <3>2
  <2>5. QED
    BY <2>3, <2>4
<1>8. CASE SpliceOutError
  BY <1>8 DEF SpliceOutError, peerVars
<1>9. CASE Finish
  BY <1>9 DEF Finish, peerVars
<1>10. CASE Deadline
  BY <1>10 DEF Deadline, peerVars
<1>11. CASE PeerSend \/ PeerClose
  BY <1>11 DEF PeerSend, PeerClose
<1>12. CASE UNCHANGED vars
  BY <1>12 DEF vars
<1>13. QED
  BY <1>1, <1>2, <1>3, <1>4, <1>5, <1>6, <1>7, <1>8, <1>9, <1>10, <1>11,
     <1>12, Zenon DEF Next, Transfer, Peer

LEMMA SpliceStep == SpliceInv /\ [Next]_vars => SpliceInv'
<1> SUFFICES ASSUME SpliceInv, [Next]_vars PROVE SpliceInv'
  OBVIOUS
<1>1. BoolTypeOK /\ NumInv
  BY SplitInv
<1>2. BoolTypeOK' /\ NumInv'
  BY <1>1, BoolStep, NumStep
<1>3. QED
  BY <1>2, Zenon DEF SpliceInv, BoolTypeOK, NumInv, TypeOK

LEMMA SpliceInvariant == Spec => []SpliceInv
BY SpliceInit, SpliceStep, PTL DEF Spec

(***************************************************************************)
(* spliceToFile goes back to the socket, or parks, only with the pipe      *)
(* empty: a short pipe -> file move is retried until the chunk is in the   *)
(* file.                                                                   *)
(***************************************************************************)
THEOREM PipeDrained == Spec => []PipeDrainedBeforeNextChunk
<1>1. SpliceInv => PipeDrainedBeforeNextChunk
  BY DEF SpliceInv, PipeDrainedBeforeNextChunk
<1>2. QED
  BY <1>1, SpliceInvariant, PTL

(***************************************************************************)
(* When spliceToFile returns having handled the transfer with fewer than   *)
(* lw.N bytes in the file, its err result is set.                          *)
(***************************************************************************)
THEOREM ShortTransferReported == Spec => []ShortTransferHasError
<1>1. SpliceInv => ShortTransferHasError
  BY SplitInv, SpliceConstantsAssumption DEF NumInv, ShortTransferHasError
<1>2. QED
  BY <1>1, SpliceInvariant, PTL

(***************************************************************************)
(* Once spliceToFile has met an error, no later step clears or replaces    *)
(* it: err is set only by a step that leaves the loop, and nothing after   *)
(* the loop assigns it while it is set.                                    *)
(***************************************************************************)
LEMMA ErrorStep ==
    ASSUME NumInv, [Next]_vars
    PROVE  err # "none" => err' = err
<1> SUFFICES ASSUME err # "none" PROVE err' = err
  OBVIOUS
<1>1. pc \in {"exit", "done"}
  BY DEF NumInv
<1>2. QED
  BY <1>1 DEF Next, Transfer, Peer, Start, SpliceInData, SpliceInEOF,
             SpliceInAgain, SpliceInError, Wake, SpliceOutData, SpliceOutError,
             Finish, Deadline, PeerSend, PeerClose, vars

THEOREM ErrorIsFinal == Spec => ErrorSticky
<1>1. SpliceInv /\ [Next]_vars => [err # "none" => err' = err]_vars
  <2> SUFFICES ASSUME SpliceInv, [Next]_vars
               PROVE  [err # "none" => err' = err]_vars
    OBVIOUS
  <2>1. NumInv
    BY SplitInv
  <2>2. err # "none" => err' = err
    BY <2>1, ErrorStep
  <2>3. QED
    BY <2>2
<1>2. QED
  BY <1>1, SpliceInvariant, PTL DEF ErrorSticky, Spec

(***************************************************************************)
(* Refinement of KTLSTransfer.                                             *)
(***************************************************************************)
LEMMA TransferInit == Init => Copy!Init
BY DEF Init, Copy!Init, AbsStatus

\* The steps of the splice loop that KTLSTransfer does not see.
LEMMA TransferStutter ==
    ASSUME NumInv, [Next]_vars,
           pc \in {"loop", "parked", "drain"}, pc' \in {"loop", "parked", "drain"},
           err' = "none", UNCHANGED <<handled, consumed, file>>
    PROVE  UNCHANGED Copy!vars
<1>1. AbsStatus = "copying" /\ AbsStatus' = "copying"
  BY DEF AbsStatus
<1>2. err = "none"
  BY DEF NumInv
<1>3. QED
  BY <1>1, <1>2, Zenon DEF Copy!vars

LEMMA TransferStep == NumInv /\ [Next]_vars => [Copy!Next]_Copy!vars
<1> SUFFICES ASSUME NumInv, [Next]_vars PROVE [Copy!Next]_Copy!vars
  OBVIOUS
<1>1. CASE Start
  <2>1. PICK ok \in BOOLEAN : pc' = (IF ok THEN "loop" ELSE "done") /\ handled' = ok
    BY <1>1, Zenon DEF Start
  <2>2. AbsStatus = "idle"
    BY <1>1 DEF Start, AbsStatus
  <2>3. AbsStatus' = IF ok THEN "copying" ELSE "returned"
    <3>1. CASE ok
      <4>1. pc' = "loop"
        BY <2>1, <3>1, Zenon
      <4>2. QED
        BY <3>1, <4>1 DEF AbsStatus
    <3>2. CASE ~ok
      <4>1. pc' = "done"
        BY <2>1, <3>2, Zenon
      <4>2. QED
        BY <3>2, <4>1 DEF AbsStatus
    <3>3. QED
      BY <3>1, <3>2
  <2>4. UNCHANGED <<consumed, file, err>>
    BY <1>1 DEF Start, peerVars
  <2>5. \E o \in BOOLEAN : /\ handled' = o
                          /\ AbsStatus' = IF o THEN "copying" ELSE "returned"
    BY <2>1, <2>3, Zenon
  <2>6. Copy!Begin
    BY <2>2, <2>4, <2>5, Zenon DEF Copy!Begin
  <2>7. QED
    BY <2>6 DEF Copy!Next
<1>2. CASE SpliceInData
  <2>1. AbsStatus = "copying" /\ AbsStatus' = "copying" /\ err = "none"
    BY <1>2 DEF SpliceInData, AbsStatus, NumInv
  <2>2. consumed' \in Nat /\ consumed' > consumed /\ file' = file /\ err' = err
    BY <1>2, <2>1 DEF SpliceInData, NumInv, Min, Chunk
  <2>3. Copy!Take
    BY <1>2, <2>1, <2>2, Zenon DEF SpliceInData, Copy!Take
  <2>4. QED
    BY <2>3 DEF Copy!Next
<1>3. CASE SpliceInEOF
  BY <1>3, TransferStutter DEF SpliceInEOF, peerVars
<1>4. CASE SpliceInAgain
  BY <1>4, TransferStutter DEF SpliceInAgain, peerVars
<1>5. CASE Wake
  <2>1. err' = err /\ err = "none"
    BY <1>5 DEF Wake, NumInv
  <2>2. QED
    BY <1>5, <2>1, TransferStutter DEF Wake, peerVars
<1>6. CASE SpliceOutData
  <2>1. PICK m \in 0..Min(n, pipe) :
            /\ pipe' = pipe - m
            /\ file' = file + m
            /\ pc' \in {"drain", "exit", "loop"}
    BY <1>6 DEF SpliceOutData
  <2>2. /\ AbsStatus = "copying" /\ AbsStatus' = "copying"
        /\ err = "none" /\ err' = err
        /\ UNCHANGED <<handled, consumed>>
    BY <1>6, <2>1 DEF SpliceOutData, AbsStatus, NumInv
  <2>3. CASE m = 0
    <3>1. file' = file
      BY <2>1, <2>3 DEF NumInv
    <3>2. QED
      BY <2>2, <3>1, Zenon DEF Copy!vars
  <2>4. CASE m # 0
    <3>1. file' \in Nat /\ file < file' /\ file' <= consumed
      BY <1>6, <2>1, <2>4 DEF SpliceOutData, NumInv, Min
    <3>2. Copy!Store
      BY <2>2, <3>1, Zenon DEF Copy!Store
    <3>3. QED
      BY <3>2 DEF Copy!Next
  <2>5. QED
    BY <2>3, <2>4
<1>7. CASE SpliceInError \/ SpliceOutError \/ Deadline
  <2>1. \E e \in {"sock", "file", "timeout"} : err' = e
    BY <1>7 DEF SpliceInError, SpliceOutError, Deadline, NumInv
  <2>2. /\ AbsStatus = "copying" /\ AbsStatus' = "copying" /\ err = "none"
        /\ UNCHANGED <<handled, consumed, file>>
    BY <1>7 DEF SpliceInError, SpliceOutError, Deadline, AbsStatus, NumInv, peerVars
  <2>3. QED
    BY <2>1, <2>2, Zenon DEF Copy!Next, Copy!Fail
<1>8. CASE Finish
  <2>1. AbsStatus = "copying" /\ AbsStatus' = "returned"
    BY <1>8 DEF Finish, AbsStatus
  <2>2. err = "none" => file = consumed /\ file >= Limit
    <3>1. pc = "exit"
      BY <1>8 DEF Finish
    <3>2. /\ file \in Nat /\ pipe \in Nat /\ remain \in Int /\ consumed \in Nat
          /\ err = "none" => pipe = 0 /\ remain <= 0 /\ file + pipe + remain >= Limit
          /\ consumed = file + pipe
      BY <3>1, Zenon DEF NumInv
    <3>3. QED
      BY <3>2, SpliceConstantsAssumption
  <2>3. UNCHANGED <<handled, consumed, file, err>>
    BY <1>8 DEF Finish
  <2>4. QED
    BY <2>1, <2>2, <2>3, Zenon DEF Copy!Next, Copy!Return
<1>9. CASE PeerSend \/ PeerClose
  <2>1. UNCHANGED <<pc, handled, consumed, file, err>>
    BY <1>9 DEF PeerSend, PeerClose
  <2>2. QED
    BY <2>1 DEF Copy!vars, AbsStatus
<1>10. CASE UNCHANGED vars
  BY <1>10 DEF vars, Copy!vars, AbsStatus
<1>11. QED
  BY <1>1, <1>2, <1>3, <1>4, <1>5, <1>6, <1>7, <1>8, <1>9, <1>10
     DEF Next, Transfer, Peer

(***************************************************************************)
(* spliceToFile implements KTLSTransfer: the bytes reach the file in the   *)
(* order they left the socket, the first error is the one returned, and a  *)
(* return without an error has moved into the file every byte it took off  *)
(* the socket, and at least lw.N of them.                                  *)
(***************************************************************************)
THEOREM SpliceRefinement == Spec => TransferRefined
<1>1. SpliceInv /\ [Next]_vars => [Copy!Next]_Copy!vars
  <2> SUFFICES ASSUME SpliceInv, [Next]_vars PROVE [Copy!Next]_Copy!vars
    OBVIOUS
  <2>1. NumInv
    BY SplitInv
  <2>2. QED
    BY <2>1, TransferStep
<1>2. QED
  BY <1>1, TransferInit, SpliceInvariant, PTL DEF Spec, TransferRefined, Copy!Spec

(***************************************************************************)
(* The state of spliceToFile and of its peer keeps its types.              *)
(***************************************************************************)
THEOREM SpliceTypeCorrect == Spec => []TypeOK
BY SpliceInvariant, PTL DEF SpliceInv
=============================================================================
