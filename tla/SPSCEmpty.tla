------------------------------ MODULE SPSCEmpty -----------------------------
(***************************************************************************)
(* empty() of include/lockless/spsc_queue.hpp, called by a third thread    *)
(* beside the producer and the consumer of SPSCQueue.  It loads head_ and  *)
(* tail_ in an order that the language leaves to the compiler.             *)
(***************************************************************************)
EXTENDS SPSCQueue

VARIABLE
  call   \* the index loaded first, and history: both counts at that time

NoCall == [first |-> "none", index |-> 0, pushed |-> 0, popped |-> 0]

ObservedInit == Init /\ call = NoCall

EmptyLoad ==
  /\ call = NoCall
  /\ \E first \in {"head", "tail"} :
       call' = [first |-> first, index |-> IF first = "head" THEN head_ ELSE tail_,
                pushed |-> Len(log), popped |-> popped]
  /\ UNCHANGED vars

\* Mutant: the test for a full queue.
EmptyReturn_Full(result) ==
  /\ call # NoCall /\ call' = NoCall
  /\ result = (Slot(IF call.first = "head" THEN call.index + 1 ELSE head_ + 1) =
               IF call.first = "head" THEN tail_ ELSE call.index)
  /\ UNCHANGED vars

EmptyReturn(result) ==
  /\ call # NoCall /\ call' = NoCall
  /\ result = (call.index = IF call.first = "head" THEN tail_ ELSE head_)
  /\ UNCHANGED vars

Empty == EmptyLoad \/ \E result \in BOOLEAN : EmptyReturn(result)

ObservedSpec ==
  ObservedInit /\ [][(Next /\ UNCHANGED call) \/ Empty]_<<vars, call>>

\* If empty() returns true, all the items published before the call have been
\* consumed when it returns, except when it loaded tail_ first and the
\* consumer went on during the call: then head_ may have gone once round.  If
\* it returns false, the queue was not both empty and left alone.
EmptyReport ==
  [][/\ EmptyReturn(TRUE) =>
          popped >= call.pushed \/ (call.first = "tail" /\ popped > call.popped)
     /\ EmptyReturn(FALSE) =>
          ~(popped = call.popped /\ Len(log) = call.pushed /\ popped = Len(log))]_<<vars, call>>
=============================================================================
