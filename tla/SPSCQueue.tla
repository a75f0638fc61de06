----------------------------- MODULE SPSCQueue ------------------------------
(***************************************************************************)
(* SPSCQueue<T, Size> of include/lockless/spsc_queue.hpp: Lamport's queue  *)
(* for one producer and one consumer thread.  One slot always stays free,  *)
(* so that head_ = tail_ means empty.                                      *)
(*                                                                         *)
(* One step is one access to shared memory; a thread's load of the index   *)
(* that only it stores is joined with its next access.  The two try_push   *)
(* overloads differ only in copying or moving the item.                    *)
(***************************************************************************)
EXTENDS Naturals, Sequences

CONSTANTS
  Items,       \* the values that may be pushed
  NoItem,      \* what an unwritten element of buffer_ holds
  Size,        \* the template parameter Size
  MaxPushes,   \* bound: the number of successful pushes
  WeakLoads    \* may an acquire load return a value that was overwritten?

ASSUME SPSCQueueAssumption ==
  /\ NoItem \notin Items
  /\ Size \in Nat /\ Size >= 2 /\ \E k \in 1 .. Size : Size = 2^k
  /\ MaxPushes \in Nat
  /\ WeakLoads \in BOOLEAN

VARIABLES
  head_, tail_,  \* the next slot to write, to read
  buffer_,       \* the item in each slot
  pc,            \* what the producer and the consumer do next
  item,          \* the item being pushed, the one popped
  log,           \* history: every item published, in order
  popped,        \* history: how many of them have been consumed
  seen           \* history: how much of the other's progress each has seen

vars == <<head_, tail_, buffer_, pc, item, log, popped, seen>>

P == "producer"
C == "consumer"
Threads == {P, C}
Slots == 0 .. Size - 1

\* i & mask_, which is the remainder because Size is a power of two.
Slot(i) == i % Size

Init ==
  /\ head_ = 0 /\ tail_ = 0
  /\ buffer_ = [i \in Slots |-> NoItem]
  /\ pc = [t \in Threads |-> "idle"]
  /\ item = [t \in Threads |-> NoItem]
  /\ log = <<>> /\ popped = 0
  /\ seen = [t \in Threads |-> 0]

Goto(t, from, to) == pc[t] = from /\ pc' = [pc EXCEPT ![t] = to]

Return(t, from) == Goto(t, from, "idle") /\ item' = [item EXCEPT ![t] = NoItem]

\* Thread t loads the index that the other thread has stored n times: the
\* value of some store not older than the last one that t has seen.
Loads(t, n, index) ==
  \E v \in (IF WeakLoads THEN seen[t] ELSE n) .. n :
    index = Slot(v) /\ seen' = [seen EXCEPT ![t] = v]

-----------------------------------------------------------------------------
(* try_push, by the producer *)

PushCall ==
  /\ Len(log) < MaxPushes
  /\ Goto(P, "idle", "push")
  /\ \E x \in Items : item' = [item EXCEPT ![P] = x]
  /\ UNCHANGED <<head_, tail_, buffer_, log, popped, seen>>

\* next == tail: return false.
PushFull ==
  /\ Loads(P, popped, Slot(head_ + 1))
  /\ Return(P, "push")
  /\ UNCHANGED <<head_, tail_, buffer_, log, popped>>

\* Mutant: the sentinel slot is used, too.
PushRoom_NoSentinel ==
  /\ \E i \in Slots : Loads(P, popped, i)
  /\ Goto(P, "push", "push_write")
  /\ UNCHANGED <<head_, tail_, buffer_, item, log, popped>>

PushRoom ==
  /\ \E i \in Slots \ {Slot(head_ + 1)} : Loads(P, popped, i)
  /\ Goto(P, "push", "push_write")
  /\ UNCHANGED <<head_, tail_, buffer_, item, log, popped>>

\* Mutant: the index is published before the item is written.
PushWrite_PublishFirst ==
  /\ Goto(P, "push_write", "push_publish")
  /\ head_' = Slot(head_ + 1)
  /\ log' = Append(log, item[P])
  /\ UNCHANGED <<buffer_, tail_, item, popped, seen>>

PushWrite ==
  /\ Goto(P, "push_write", "push_publish")
  /\ buffer_' = [buffer_ EXCEPT ![head_] = item[P]]
  /\ UNCHANGED <<head_, tail_, item, log, popped, seen>>

PushPublish ==
  /\ Goto(P, "push_publish", "push_done")
  /\ head_' = Slot(head_ + 1)
  /\ log' = Append(log, item[P])
  /\ UNCHANGED <<tail_, buffer_, item, popped, seen>>

PushReturn ==
  /\ Return(P, "push_done")
  /\ UNCHANGED <<head_, tail_, buffer_, log, popped, seen>>

-----------------------------------------------------------------------------
(* try_pop, by the consumer *)

PopCall ==
  /\ Goto(C, "idle", "pop")
  /\ UNCHANGED <<head_, tail_, buffer_, item, log, popped, seen>>

\* Mutant: one item is taken for none.
PopEmpty_OffByOne ==
  /\ \E i \in {tail_, Slot(tail_ + 1)} : Loads(C, Len(log), i)
  /\ Return(C, "pop")
  /\ UNCHANGED <<head_, tail_, buffer_, log, popped>>

\* tail == head: return false.
PopEmpty ==
  /\ Loads(C, Len(log), tail_)
  /\ Return(C, "pop")
  /\ UNCHANGED <<head_, tail_, buffer_, log, popped>>

PopItem ==
  /\ \E i \in Slots \ {tail_} : Loads(C, Len(log), i)
  /\ Goto(C, "pop", "pop_read")
  /\ UNCHANGED <<head_, tail_, buffer_, item, log, popped>>

PopRead ==
  /\ Goto(C, "pop_read", "pop_advance")
  /\ item' = [item EXCEPT ![C] = buffer_[tail_]]
  /\ UNCHANGED <<head_, tail_, buffer_, log, popped, seen>>

PopAdvance ==
  /\ Goto(C, "pop_advance", "pop_done")
  /\ tail_' = Slot(tail_ + 1)
  /\ popped' = popped + 1
  /\ UNCHANGED <<head_, buffer_, item, log, seen>>

PopReturn ==
  /\ Return(C, "pop_done")
  /\ UNCHANGED <<head_, tail_, buffer_, log, popped, seen>>

-----------------------------------------------------------------------------
Producer == PushCall \/ PushFull \/ PushRoom \/ PushWrite \/ PushPublish \/ PushReturn
Consumer == PopCall \/ PopEmpty \/ PopItem \/ PopRead \/ PopAdvance \/ PopReturn

Next == Producer \/ Consumer

Spec == Init /\ [][Next]_vars

-----------------------------------------------------------------------------
(* Properties *)

Labels == {"idle", "push", "push_write", "push_publish", "push_done",
           "pop", "pop_read", "pop_advance", "pop_done"}

\* The indices that try_push and try_pop store stay inside buffer_.
TypeOK ==
  /\ head_ \in Slots /\ tail_ \in Slots
  /\ buffer_ \in [Slots -> Items \cup {NoItem}]
  /\ pc \in [Threads -> Labels]
  /\ item \in [Threads -> Items \cup {NoItem}]
  /\ log \in Seq(Items) /\ popped \in Nat
  /\ seen \in [Threads -> Nat]

\* The element of buffer_ that the producer writes is not the one that the
\* consumer reads, although neither access is synchronised.
SlotExclusive ==
  ~(pc[P] = "push_write" /\ pc[C] = "pop_read" /\ head_ = tail_)

\* The inductive invariant: the indices are the two counts modulo Size.  The
\* producer's view of the consumer is behind by less than Size, the consumer's
\* view of the producer lies between the counts, and the slots between the
\* indices hold the items between the counts.
Inv ==
  /\ TypeOK
  /\ head_ = Slot(Len(log)) /\ tail_ = Slot(popped)
  /\ seen[P] <= popped /\ popped <= seen[C] /\ seen[C] <= Len(log)
  /\ Len(log) < seen[P] + Size
  /\ \A k \in popped + 1 .. Len(log) : buffer_[Slot(k - 1)] = log[k]
  /\ pc[P] \in {"idle", "push", "push_write", "push_publish", "push_done"}
  /\ pc[C] \in {"idle", "pop", "pop_read", "pop_advance", "pop_done"}
  /\ pc[P] \in {"push", "push_write", "push_publish"} => item[P] \in Items
  /\ pc[P] \in {"push_write", "push_publish"} => Len(log) + 1 < seen[P] + Size
  /\ pc[P] = "push_publish" => buffer_[head_] = item[P]
  /\ pc[C] \in {"pop_read", "pop_advance"} => popped < seen[C]
  /\ pc[C] = "pop_advance" => item[C] = log[popped + 1]
  /\ pc[C] \in {"idle", "pop", "pop_read"} => item[C] = NoItem

\* The queue seen as a BoundedQueue.  A call takes effect when it stores its
\* index.
queue == SubSeq(log, popped + 1, Len(log))

phase ==
  [t \in Threads |->
     CASE pc[t] \in {"push", "push_write", "push_publish"} -> "push"
       [] pc[t] = "push_done" -> "pushed"
       [] pc[t] \in {"pop", "pop_read", "pop_advance"} -> "pop"
       [] pc[t] = "pop_done" -> "popped"
       [] pc[t] = "idle" -> "idle"]

value == [t \in Threads |-> IF pc[t] = "pop_advance" THEN NoItem ELSE item[t]]

Abstract == INSTANCE BoundedQueue WITH
  Producers <- {P}, Consumers <- {C}, Capacity <- Size - 1, Exact <- TRUE

\* With loads that return the current value, the code implements a first-in
\* first-out queue of Size - 1 items that refuses a push only when it is full
\* and a pop only when it is empty.
ImplementsQueue == Abstract!Spec
=============================================================================
