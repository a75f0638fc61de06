----------------------------- MODULE RingBuffer -----------------------------
(***************************************************************************)
(* RingBuffer<T, Size> of include/lockless/ring_buffer.hpp: a bounded      *)
(* multi-producer multi-consumer queue in which a slot's sequence number   *)
(* says which position may use the slot next.                              *)
(*                                                                         *)
(* One step is one access to shared memory.  The two try_push overloads    *)
(* differ only in copying or moving the item; try_push and try_pop are     *)
(* batches of one.  The positions are 64-bit counters that grow by one per *)
(* operation, so they are natural numbers here.                            *)
(***************************************************************************)
EXTENDS Naturals, Sequences

CONSTANTS
  Producers,   \* the threads that push
  Consumers,   \* the threads that pop; a thread may do both
  Items,       \* the values that may be pushed
  NoItem,      \* what an unwritten element of buffer_ holds
  Size,        \* the template parameter Size
  MaxBatch,    \* bound: the largest count given to a batch operation
  MaxPushes,   \* bound: no push is started once head_ has reached it
  WeakLoads    \* may a load return a value that has been overwritten?

ASSUME RingBufferAssumption ==
  /\ NoItem \notin Items
  /\ Size \in Nat \ {0} /\ \E k \in 0 .. Size : Size = 2^k
  /\ MaxBatch \in Nat /\ MaxPushes \in Nat
  /\ WeakLoads \in BOOLEAN

VARIABLES
  head_, tail_,  \* the next position to push, to pop
  sequences_,    \* the sequence number of each slot
  buffer_,       \* the item in each slot
  pc,            \* what each thread does next
  pos,           \* the local head of try_push, the local tail of try_pop
  item,          \* the item being pushed, or the one popped
  left,          \* iterations left of the batch, the current one included
  log            \* history: the item of every claimed position, in order

Threads == Producers \cup Consumers

vars == <<head_, tail_, sequences_, buffer_, pc, pos, item, left, log>>
shared == <<head_, tail_, sequences_, buffer_, log>>

Slots == 0 .. Size - 1

\* head & mask_, which is the remainder because Size is a power of two.
Slot(p) == p % Size

\* The values a slot's sequence number goes through, up to its current one.
SequencesOf(i) ==
  {s \in 0 .. sequences_[i] : Slot(s) = i \/ (s > 0 /\ Slot(s - 1) = i)}

\* What a load may return.  A load that is not sequentially consistent may
\* return an old value; a compare-exchange that succeeds never does.
Load(counter) == IF WeakLoads THEN 0 .. counter ELSE {counter}
LoadSequence(i) == IF WeakLoads THEN SequencesOf(i) ELSE {sequences_[i]}

Init ==
  /\ head_ = 0 /\ tail_ = 0
  /\ sequences_ = [i \in Slots |-> i]
  /\ buffer_ = [i \in Slots |-> NoItem]
  /\ pc = [t \in Threads |-> "idle"]
  /\ pos = [t \in Threads |-> 0]
  /\ item = [t \in Threads |-> NoItem]
  /\ left = [t \in Threads |-> 0]
  /\ log = <<>>

Goto(t, from, to) == pc[t] = from /\ pc' = [pc EXCEPT ![t] = to]

\* The locals of a call go out of scope when it returns.
Return(t, from) ==
  /\ Goto(t, from, "idle")
  /\ pos' = [pos EXCEPT ![t] = 0]
  /\ item' = [item EXCEPT ![t] = NoItem]
  /\ left' = [left EXCEPT ![t] = 0]

-----------------------------------------------------------------------------
(* try_push and try_push_batch *)

\* Enter try_push for one of the n items left.
NextPush(t, from, n) ==
  /\ Goto(t, from, "push_load")
  /\ \E x \in Items : item' = [item EXCEPT ![t] = x]
  /\ left' = [left EXCEPT ![t] = n]
  /\ pos' = [pos EXCEPT ![t] = 0]

PushCall(t) ==
  /\ head_ < MaxPushes
  /\ \E n \in 1 .. MaxBatch : NextPush(t, "idle", n)
  /\ UNCHANGED shared

\* On entry, and again when the slot turns out to belong to a later lap.
PushLoad(t) ==
  /\ Goto(t, "push_load", "push_seq")
  /\ \E h \in Load(head_) : pos' = [pos EXCEPT ![t] = h]
  /\ UNCHANGED <<shared, item, left>>

\* Mutant: a full queue is not recognised.
PushSeq_TakesFull(t) ==
  /\ Goto(t, "push_seq", "push_cas")
  /\ \E s \in LoadSequence(Slot(pos[t])) : s <= pos[t]
  /\ UNCHANGED <<shared, pos, item, left>>

\* diff == 0: the slot is free for this position.
PushSeq(t) ==
  /\ Goto(t, "push_seq", "push_cas")
  /\ pos[t] \in LoadSequence(Slot(pos[t]))
  /\ UNCHANGED <<shared, pos, item, left>>

\* diff < 0: return false, which also ends a batch.
PushFull(t) ==
  /\ Return(t, "push_seq")
  /\ \E s \in LoadSequence(Slot(pos[t])) : s < pos[t]
  /\ UNCHANGED shared

\* Mutant: head is not loaded again.
PushBehind_NoReload(t) ==
  /\ pc[t] = "push_seq"
  /\ \E s \in LoadSequence(Slot(pos[t])) : s > pos[t]
  /\ UNCHANGED vars

\* diff > 0: another producer has taken the position.
PushBehind(t) ==
  /\ Goto(t, "push_seq", "push_load")
  /\ \E s \in LoadSequence(Slot(pos[t])) : s > pos[t]
  /\ UNCHANGED <<shared, pos, item, left>>

\* Mutant: a store instead of a compare-exchange.
PushCas_Store(t) ==
  /\ Goto(t, "push_cas", "push_write")
  /\ head_' = pos[t] + 1
  /\ log' = Append(log, item[t])
  /\ UNCHANGED <<tail_, sequences_, buffer_, pos, item, left>>

\* Mutant: the slot is published before the item is written.
PushCas_PublishFirst(t) ==
  /\ Goto(t, "push_cas", "push_write")
  /\ head_ = pos[t]
  /\ head_' = head_ + 1
  /\ sequences_' = [sequences_ EXCEPT ![Slot(pos[t])] = pos[t] + 1]
  /\ log' = Append(log, item[t])
  /\ UNCHANGED <<tail_, buffer_, pos, item, left>>

PushCas(t) ==
  /\ Goto(t, "push_cas", "push_write")
  /\ head_ = pos[t]
  /\ head_' = head_ + 1
  /\ log' = Append(log, item[t])
  /\ UNCHANGED <<tail_, sequences_, buffer_, pos, item, left>>

\* compare_exchange_weak may fail although the values are equal.
PushCasFail(t) ==
  /\ Goto(t, "push_cas", "push_seq")
  /\ \E h \in Load(head_) : pos' = [pos EXCEPT ![t] = h]
  /\ UNCHANGED <<shared, item, left>>

PushWrite(t) ==
  /\ Goto(t, "push_write", "push_publish")
  /\ buffer_' = [buffer_ EXCEPT ![Slot(pos[t])] = item[t]]
  /\ UNCHANGED <<head_, tail_, sequences_, pos, item, left, log>>

\* Mutant: the sequence number is not stored.
PushPublish_NoStore(t) ==
  /\ \/ left[t] = 1 /\ Return(t, "push_publish")
     \/ left[t] > 1 /\ NextPush(t, "push_publish", left[t] - 1)
  /\ UNCHANGED shared

\* Return true, or go on with the next item of the batch.
PushPublish(t) ==
  /\ sequences_' = [sequences_ EXCEPT ![Slot(pos[t])] = pos[t] + 1]
  /\ \/ left[t] = 1 /\ Return(t, "push_publish")
     \/ left[t] > 1 /\ NextPush(t, "push_publish", left[t] - 1)
  /\ UNCHANGED <<head_, tail_, buffer_, log>>

-----------------------------------------------------------------------------
(* try_pop and try_pop_batch *)

NextPop(t, from, n) ==
  /\ Goto(t, from, "pop_load")
  /\ item' = [item EXCEPT ![t] = NoItem]
  /\ left' = [left EXCEPT ![t] = n]
  /\ pos' = [pos EXCEPT ![t] = 0]

PopCall(t) ==
  /\ \E n \in 1 .. MaxBatch : NextPop(t, "idle", n)
  /\ UNCHANGED shared

PopLoad(t) ==
  /\ Goto(t, "pop_load", "pop_seq")
  /\ \E p \in Load(tail_) : pos' = [pos EXCEPT ![t] = p]
  /\ UNCHANGED <<shared, item, left>>

\* diff == 0: the item of this position has been published.
PopSeq(t) ==
  /\ Goto(t, "pop_seq", "pop_cas")
  /\ pos[t] + 1 \in LoadSequence(Slot(pos[t]))
  /\ UNCHANGED <<shared, pos, item, left>>

\* Mutant: the comparison is off by one.
PopEmpty_OffByOne(t) ==
  /\ Return(t, "pop_seq")
  /\ \E s \in LoadSequence(Slot(pos[t])) : s <= pos[t] + 1
  /\ UNCHANGED shared

\* diff < 0: return false, which also ends a batch.
PopEmpty(t) ==
  /\ Return(t, "pop_seq")
  /\ \E s \in LoadSequence(Slot(pos[t])) : s < pos[t] + 1
  /\ UNCHANGED shared

\* diff > 0: another consumer has taken the position.
PopBehind(t) ==
  /\ Goto(t, "pop_seq", "pop_load")
  /\ \E s \in LoadSequence(Slot(pos[t])) : s > pos[t] + 1
  /\ UNCHANGED <<shared, pos, item, left>>

PopCas(t) ==
  /\ Goto(t, "pop_cas", "pop_read")
  /\ tail_ = pos[t]
  /\ tail_' = tail_ + 1
  /\ UNCHANGED <<head_, sequences_, buffer_, pos, item, left, log>>

PopCasFail(t) ==
  /\ Goto(t, "pop_cas", "pop_seq")
  /\ \E p \in Load(tail_) : pos' = [pos EXCEPT ![t] = p]
  /\ UNCHANGED <<shared, item, left>>

PopRead(t) ==
  /\ Goto(t, "pop_read", "pop_release")
  /\ item' = [item EXCEPT ![t] = buffer_[Slot(pos[t])]]
  /\ UNCHANGED <<shared, pos, left>>

\* Mutant: tail + mask_ instead of tail + mask_ + 1.
PopRelease_OffByOne(t) ==
  /\ sequences_' = [sequences_ EXCEPT ![Slot(pos[t])] = pos[t] + Size - 1]
  /\ \/ left[t] = 1 /\ Return(t, "pop_release")
     \/ left[t] > 1 /\ NextPop(t, "pop_release", left[t] - 1)
  /\ UNCHANGED <<head_, tail_, buffer_, log>>

\* Hand the slot to the push of the next lap, at tail + mask_ + 1.
PopRelease(t) ==
  /\ sequences_' = [sequences_ EXCEPT ![Slot(pos[t])] = pos[t] + Size]
  /\ \/ left[t] = 1 /\ Return(t, "pop_release")
     \/ left[t] > 1 /\ NextPop(t, "pop_release", left[t] - 1)
  /\ UNCHANGED <<head_, tail_, buffer_, log>>

-----------------------------------------------------------------------------
PushStep(t) ==
  \/ PushLoad(t) \/ PushSeq(t) \/ PushFull(t) \/ PushBehind(t)
  \/ PushCas(t) \/ PushCasFail(t) \/ PushWrite(t) \/ PushPublish(t)

PopStep(t) ==
  \/ PopLoad(t) \/ PopSeq(t) \/ PopEmpty(t) \/ PopBehind(t)
  \/ PopCas(t) \/ PopCasFail(t) \/ PopRead(t) \/ PopRelease(t)

Next ==
  \/ \E t \in Producers : PushCall(t) \/ PushStep(t)
  \/ \E t \in Consumers : PopCall(t) \/ PopStep(t)

Spec == Init /\ [][Next]_vars

(***************************************************************************)
(* Every thread inside a call is scheduled, a weak compare-exchange does   *)
(* not fail spuriously for ever, and consumers call try_pop in a loop, as  *)
(* the ones of tests/test_ring_buffer.cpp do.                              *)
(***************************************************************************)
Fairness ==
  /\ \A t \in Producers : WF_vars(PushStep(t)) /\ SF_vars(PushCas(t))
  /\ \A t \in Consumers : WF_vars(PopStep(t)) /\ SF_vars(PopCas(t))
  /\ \A t \in Consumers : WF_vars(PopCall(t))

FairSpec == Spec /\ Fairness

-----------------------------------------------------------------------------
(* Properties *)

PushOwner(t) == pc[t] \in {"push_write", "push_publish"}
PopOwner(t) == pc[t] \in {"pop_read", "pop_release"}

Labels == {"idle"} \cup
  {"push_load", "push_seq", "push_cas", "push_write", "push_publish"} \cup
  {"pop_load", "pop_seq", "pop_cas", "pop_read", "pop_release"}

\* The shapes of the counters, slots and locals; a batch never runs past its
\* count, and whatever is claimed is an item.
TypeOK ==
  /\ head_ \in Nat /\ tail_ \in Nat
  /\ sequences_ \in [Slots -> Nat]
  /\ buffer_ \in [Slots -> Items \cup {NoItem}]
  /\ pc \in [Threads -> Labels]
  /\ pos \in [Threads -> Nat]
  /\ item \in [Threads -> Items \cup {NoItem}]
  /\ left \in [Threads -> 0 .. MaxBatch]
  /\ log \in Seq(Items)

\* The queue is bounded: no more positions are claimed by pushes and not by
\* pops than there are slots, and pops never overtake pushes.
Bounded == tail_ <= head_ /\ head_ <= tail_ + Size

\* buffer_ is accessed without synchronisation between a successful
\* compare-exchange and the store of the sequence number.  No two threads
\* are there with the same slot, so there is no data race on buffer_.
SlotExclusive ==
  \A t, u \in Threads :
    t # u /\ (PushOwner(t) \/ PopOwner(t)) /\ (PushOwner(u) \/ PopOwner(u))
      => Slot(pos[t]) # Slot(pos[u])

\* The pop that claims a position returns the item of the push that claimed
\* it: first in, first out, nothing lost, duplicated or half-written.
PopsInOrder ==
  \A t \in Threads : pc[t] = "pop_release" => item[t] = log[pos[t] + 1]

\* What a slot's sequence number says.  It is either a position of that slot
\* that waits for its push to be written, or one more than a position whose
\* item is in the slot.
SlotInv(i) ==
  LET s == sequences_[i] IN
  \/ /\ Slot(s) = i
     /\ tail_ <= s /\ s < tail_ + Size
     /\ s < head_ => \E t \in Producers : PushOwner(t) /\ pos[t] = s
  \/ /\ s > 0 /\ Slot(s - 1) = i
     /\ s <= head_ /\ head_ < s + Size
     /\ s <= tail_ => \E t \in Consumers : PopOwner(t) /\ pos[t] = s - 1
     /\ buffer_[i] = log[s]

\* What a thread knows about the position it works on.
ThreadInv(t) ==
  LET s == sequences_[Slot(pos[t])] IN
  /\ pc[t] \in {"push_seq", "push_cas"} => pos[t] <= head_
  /\ pc[t] \in {"pop_seq", "pop_cas"} => pos[t] <= tail_
  /\ pc[t] = "push_cas" => s >= pos[t]
  /\ pc[t] = "pop_cas" => s >= pos[t] + 1
  /\ PushOwner(t) => pos[t] < head_ /\ s = pos[t] /\ item[t] = log[pos[t] + 1]
  /\ pc[t] = "push_publish" => buffer_[Slot(pos[t])] = item[t]
  /\ PopOwner(t) => pos[t] < tail_ /\ s = pos[t] + 1
  /\ pc[t] = "pop_release" => item[t] = log[pos[t] + 1]
  /\ pc[t] \in {"push_load", "push_seq", "push_cas"} \/ PushOwner(t)
       => t \in Producers /\ item[t] \in Items /\ left[t] > 0
  /\ pc[t] \in {"pop_load", "pop_seq", "pop_cas"} \/ PopOwner(t)
       => t \in Consumers /\ left[t] > 0

\* The inductive invariant: the sequence numbers tell every thread enough for
\* an exclusive claim, provided there are at least two slots.
Inv ==
  /\ TypeOK
  /\ Bounded
  /\ Len(log) = head_
  /\ \A i \in Slots : SlotInv(i)
  /\ \A t \in Threads : ThreadInv(t)
  /\ \A t, u \in Threads :
       /\ t # u /\ PushOwner(t) /\ PushOwner(u) => pos[t] # pos[u]
       /\ t # u /\ PopOwner(t) /\ PopOwner(u) => pos[t] # pos[u]

\* The queue seen as a BoundedQueue.  A push takes effect when it claims its
\* position, a pop too.
Abstract == INSTANCE BoundedQueue WITH
  Capacity <- Size, Exact <- FALSE,
  queue <- SubSeq(log, tail_ + 1, head_),
  phase <- [t \in Threads |->
              CASE pc[t] \in {"push_load", "push_seq", "push_cas"} -> "push"
                [] PushOwner(t) -> "pushed"
                [] pc[t] \in {"pop_load", "pop_seq", "pop_cas"} -> "pop"
                [] PopOwner(t) -> "popped"
                [] OTHER -> "idle"],
  value <- [t \in Threads |->
              CASE pc[t] = "pop_read" -> buffer_[Slot(pos[t])]
                [] OTHER -> item[t]]

\* With loads that return the current value, the code implements the queue
\* of BoundedQueue: also its refusals are the ones allowed there.
ImplementsQueue == Abstract!Spec

\* Lock freedom.  No more than finitely many operations succeed here, so a
\* call that never returned would be one that nobody's progress excuses.
CallsReturn == \A t \in Threads : pc[t] # "idle" ~> pc[t] = "idle"

\* While consumers keep popping, every claimed position is popped.
Delivered == \A n \in 1 .. MaxPushes : head_ >= n ~> tail_ >= n
=============================================================================
