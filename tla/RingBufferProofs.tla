-------------------------- MODULE RingBufferProofs --------------------------
(***************************************************************************)
(* The safety of RingBuffer for any threads, items, bounds and any number  *)
(* of slots that is at least two, whether or not loads may return old      *)
(* values.                                                                 *)
(***************************************************************************)
EXTENDS RingBufferClaims

-----------------------------------------------------------------------------
(* Steps that hand a slot over *)

\* What a thread knows survives a step of another one that lets the sequence
\* number of its slot grow, unless the thread owns the slot.
LEMMA OtherThread ==
  ASSUME NEW u \in Threads, ThreadInv(u), pos[u] \in Nat,
         UNCHANGED <<head_, tail_, buffer_, log>>,
         pc'[u] = pc[u], pos'[u] = pos[u], item'[u] = item[u], left'[u] = left[u],
         sequences_'[Slot(pos[u])] \in Nat, sequences_[Slot(pos[u])] \in Nat,
         sequences_'[Slot(pos[u])] >= sequences_[Slot(pos[u])],
         PushOwner(u) \/ PopOwner(u) => sequences_'[Slot(pos[u])] = sequences_[Slot(pos[u])]
  PROVE  ThreadInv(u)'
  <1>1. /\ pc[u] = "push_cas" => sequences_'[Slot(pos[u])] >= pos[u]
        /\ pc[u] = "pop_cas" => sequences_'[Slot(pos[u])] >= pos[u] + 1
    <2> DEFINE s == sequences_[Slot(pos[u])]
               r == sequences_'[Slot(pos[u])]
    <2>1. (pc[u] = "push_cas" => s >= pos[u]) /\ (pc[u] = "pop_cas" => s >= pos[u] + 1)
      BY Zenon DEF ThreadInv
    <2>2. s \in Nat /\ r \in Nat /\ r >= s
      OBVIOUS
    <2> HIDE DEF s, r
    <2>3. (pc[u] = "push_cas" => r >= pos[u]) /\ (pc[u] = "pop_cas" => r >= pos[u] + 1)
      BY <2>1, <2>2
    <2> QED BY <2>3 DEF r
  <1>2. (PushOwner(u)' <=> PushOwner(u)) /\ (PopOwner(u)' <=> PopOwner(u))
    BY DEF PushOwner, PopOwner
  <1>3. /\ PushOwner(u) => sequences_'[Slot(pos[u])] = pos[u]
        /\ PopOwner(u) => sequences_'[Slot(pos[u])] = pos[u] + 1
    BY DEF ThreadInv
  <1> QED BY <1>1, <1>2, <1>3 DEF ThreadInv

\* Storing position + 1 in the sequence number hands the item to the pops.
LEMMA PushPublishStep ==
  ASSUME Size >= 2, Inv, NEW t \in Producers, PushPublish(t)
  PROVE  Inv'
  <1> USE DEF Threads
  <1> DEFINE j == Slot(pos[t])
  <1>1. /\ pc[t] = "push_publish"
        /\ sequences_' = [sequences_ EXCEPT ![j] = pos[t] + 1]
        /\ UNCHANGED <<head_, tail_, buffer_, log>>
    BY DEF PushPublish, Return, NextPush, Goto
  <1>2. TypeOK /\ ThreadInv(t) /\ t \in Threads /\ PushOwner(t) /\ Size \in Nat
    BY <1>1, RingBufferAssumption DEF Inv, PushOwner
  <1>3. /\ j \in Slots /\ sequences_[j] = pos[t] /\ pos[t] \in Nat
        /\ tail_ <= pos[t] /\ pos[t] < head_ /\ head_ < pos[t] + 1 + Size
        /\ tail_ \in Nat /\ head_ \in Nat
        /\ buffer_[j] = log[pos[t] + 1]
    BY <1>1, <1>2, PushOwnerSlot DEF TypeOK, ThreadInv
  <1>4. TypeOK' /\ ThreadInv(t)' /\ pc'[t] \in {"idle", "push_load"}
    <2>1. MaxBatch \in Nat
      BY RingBufferAssumption
    <2>a. sequences_' \in [Slots -> Nat]
      BY <1>1, <1>2, <1>3 DEF TypeOK
    <2>2. CASE left[t] = 1 /\ Return(t, "push_publish")
      <3>1. pc'[t] = "idle"
        BY <1>2, <2>2 DEF TypeOK, Return, Goto
      <3>2. TypeOK'
        BY <1>1, <1>2, <2>1, <2>a, <2>2 DEF TypeOK, Labels, Return, Goto
      <3> QED BY <1>2, <3>1, <3>2, FreshKnows
    <2>3. CASE left[t] > 1 /\ NextPush(t, "push_publish", left[t] - 1)
      <3>1. left[t] - 1 \in 0 .. MaxBatch /\ left[t] - 1 > 0
        BY <1>2, <2>1, <2>3 DEF TypeOK
      <3>2. pc'[t] = "push_load" /\ item'[t] \in Items /\ left'[t] > 0
        BY <1>2, <2>3, <3>1 DEF TypeOK, NextPush, Goto
      <3>3. TypeOK'
        BY <1>1, <1>2, <2>a, <2>3, <3>1 DEF TypeOK, Labels, NextPush, Goto
      <3> QED BY <1>2, <3>2, <3>3, FreshKnows
    <2> QED BY <2>2, <2>3 DEF PushPublish
  <1>5. \A u \in Threads : u # t => /\ PushOwner(u)' <=> PushOwner(u)
                                    /\ PopOwner(u)' <=> PopOwner(u)
                                    /\ pc'[u] = pc[u] /\ pos'[u] = pos[u]
                                    /\ item'[u] = item[u] /\ left'[u] = left[u]
    BY <1>2 DEF PushOwner, PopOwner, TypeOK, PushPublish, Return, NextPush, Goto
  <1>6. ASSUME NEW i \in Slots PROVE SlotInv(i)'
    <2>1. CASE i = j
      <3>1. sequences_'[i] = pos[t] + 1
        BY <1>1, <1>2, <2>1 DEF TypeOK
      <3>2. (pos[t] + 1) - 1 = pos[t] /\ pos[t] + 1 > 0 /\ ~(pos[t] + 1 <= tail_)
            /\ pos[t] + 1 <= head_
        BY <1>3
      <3> QED BY <1>1, <1>3, <2>1, <3>1, <3>2 DEF SlotInv
    <2>2. CASE i # j
      <3>1. SlotInv(i) /\ sequences_'[i] = sequences_[i] /\ sequences_[i] \in Nat
        BY <1>1, <1>2, <2>2 DEF Inv, TypeOK
      <3>2. ~PopOwner(t)
        BY <1>2 DEF PushOwner, PopOwner
      <3> QED BY <1>1, <1>5, <2>2, <3>1, <3>2 DEF SlotInv
    <2> QED BY <2>1, <2>2
  <1>7. ASSUME NEW u \in Threads PROVE ThreadInv(u)'
    <2>1. CASE u = t
      BY <1>4, <2>1
    <2>2. CASE u # t
      <3>1. ThreadInv(u) /\ pos[u] \in Nat /\ Slot(pos[u]) \in Slots
        BY <1>2, SlotType DEF Inv, TypeOK
      <3>2. PushOwner(u) \/ PopOwner(u) => sequences_'[Slot(pos[u])] = sequences_[Slot(pos[u])]
        BY <1>1, <1>2, <2>2, <3>1, Exclusive, Zenon DEF SlotExclusive, TypeOK
      <3>3. sequences_'[Slot(pos[u])] >= sequences_[Slot(pos[u])]
        BY <1>1, <1>2, <1>3, <3>1 DEF TypeOK
      <3>4. sequences_'[Slot(pos[u])] \in Nat /\ sequences_[Slot(pos[u])] \in Nat
        BY <1>2, <1>4, <3>1 DEF TypeOK
      <3> QED BY <1>1, <1>5, <2>2, <3>1, <3>2, <3>3, <3>4, OtherThread
    <2> QED BY <2>1, <2>2
  <1>8. Bounded' /\ Len(log') = head_' /\ ~PushOwner(t)' /\ ~PopOwner(t)'
    BY <1>1, <1>4 DEF Inv, Bounded, PushOwner, PopOwner
  <1> QED BY <1>4, <1>5, <1>6, <1>7, <1>8 DEF Inv

\* Storing position + Size hands the slot to the push of the next lap.
LEMMA PopReleaseStep ==
  ASSUME Size >= 2, Inv, NEW t \in Consumers, PopRelease(t)
  PROVE  Inv'
  <1> USE DEF Threads
  <1> DEFINE j == Slot(pos[t])
  <1>1. /\ pc[t] = "pop_release"
        /\ sequences_' = [sequences_ EXCEPT ![j] = pos[t] + Size]
        /\ UNCHANGED <<head_, tail_, buffer_, log>>
    BY DEF PopRelease, Return, NextPop, Goto
  <1>2. TypeOK /\ ThreadInv(t) /\ t \in Threads /\ PopOwner(t) /\ Size \in Nat
    BY <1>1, RingBufferAssumption DEF Inv, PopOwner
  <1>3. /\ j \in Slots /\ sequences_[j] = pos[t] + 1 /\ pos[t] \in Nat
        /\ pos[t] < tail_ /\ head_ <= pos[t] + Size
        /\ tail_ \in Nat /\ head_ \in Nat /\ tail_ <= head_
    BY <1>1, <1>2, PopOwnerSlot DEF TypeOK, Inv, Bounded
  <1>4. TypeOK' /\ ThreadInv(t)' /\ pc'[t] \in {"idle", "pop_load"}
    <2>1. MaxBatch \in Nat
      BY RingBufferAssumption
    <2>a. sequences_' \in [Slots -> Nat]
      BY <1>1, <1>2, <1>3 DEF TypeOK
    <2>2. CASE left[t] = 1 /\ Return(t, "pop_release")
      <3>1. pc'[t] = "idle"
        BY <1>2, <2>2 DEF TypeOK, Return, Goto
      <3>2. TypeOK'
        BY <1>1, <1>2, <2>1, <2>a, <2>2 DEF TypeOK, Labels, Return, Goto
      <3> QED BY <1>2, <3>1, <3>2, FreshKnows
    <2>3. CASE left[t] > 1 /\ NextPop(t, "pop_release", left[t] - 1)
      <3>1. left[t] - 1 \in 0 .. MaxBatch /\ left[t] - 1 > 0
        BY <1>2, <2>1, <2>3 DEF TypeOK
      <3>2. pc'[t] = "pop_load" /\ left'[t] > 0
        BY <1>2, <2>3, <3>1 DEF TypeOK, NextPop, Goto
      <3>3. TypeOK'
        BY <1>1, <1>2, <2>a, <2>3, <3>1 DEF TypeOK, Labels, NextPop, Goto
      <3> QED BY <1>2, <3>2, <3>3, FreshKnows
    <2> QED BY <2>2, <2>3 DEF PopRelease
  <1>5. \A u \in Threads : u # t => /\ PushOwner(u)' <=> PushOwner(u)
                                    /\ PopOwner(u)' <=> PopOwner(u)
                                    /\ pc'[u] = pc[u] /\ pos'[u] = pos[u]
                                    /\ item'[u] = item[u] /\ left'[u] = left[u]
    BY <1>2 DEF PushOwner, PopOwner, TypeOK, PopRelease, Return, NextPop, Goto
  <1>6. ASSUME NEW i \in Slots PROVE SlotInv(i)'
    <2>1. CASE i = j
      <3>1. sequences_'[i] = pos[t] + Size
        BY <1>1, <1>2, <2>1 DEF TypeOK
      <3>2. Slot(pos[t] + Size) = i
        BY <1>3, <2>1, SlotLap
      <3>3. tail_ <= pos[t] + Size /\ pos[t] + Size < tail_ + Size /\ ~(pos[t] + Size < head_)
        BY <1>2, <1>3
      <3> QED BY <1>1, <3>1, <3>2, <3>3 DEF SlotInv
    <2>2. CASE i # j
      <3>1. SlotInv(i) /\ sequences_'[i] = sequences_[i] /\ sequences_[i] \in Nat
        BY <1>1, <1>2, <2>2 DEF Inv, TypeOK
      <3>2. ~PushOwner(t)
        BY <1>2 DEF PushOwner, PopOwner
      <3> QED BY <1>1, <1>5, <2>2, <3>1, <3>2 DEF SlotInv
    <2> QED BY <2>1, <2>2
  <1>7. ASSUME NEW u \in Threads PROVE ThreadInv(u)'
    <2>1. CASE u = t
      BY <1>4, <2>1
    <2>2. CASE u # t
      <3>1. ThreadInv(u) /\ pos[u] \in Nat /\ Slot(pos[u]) \in Slots
        BY <1>2, SlotType DEF Inv, TypeOK
      <3>2. PushOwner(u) \/ PopOwner(u) => sequences_'[Slot(pos[u])] = sequences_[Slot(pos[u])]
        BY <1>1, <1>2, <2>2, <3>1, Exclusive, Zenon DEF SlotExclusive, TypeOK
      <3>3. sequences_'[Slot(pos[u])] >= sequences_[Slot(pos[u])]
        BY <1>1, <1>2, <1>3, <3>1 DEF TypeOK
      <3>4. sequences_'[Slot(pos[u])] \in Nat /\ sequences_[Slot(pos[u])] \in Nat
        BY <1>2, <1>4, <3>1 DEF TypeOK
      <3> QED BY <1>1, <1>5, <2>2, <3>1, <3>2, <3>3, <3>4, OtherThread
    <2> QED BY <2>1, <2>2
  <1>8. Bounded' /\ Len(log') = head_' /\ ~PushOwner(t)' /\ ~PopOwner(t)'
    BY <1>1, <1>4 DEF Inv, Bounded, PushOwner, PopOwner
  <1> QED BY <1>4, <1>5, <1>6, <1>7, <1>8 DEF Inv

-----------------------------------------------------------------------------
(* The theorems *)

\* The constructor establishes the invariant.
LEMMA InitInv == Init => Inv
  <1> SUFFICES ASSUME Init PROVE Inv
    OBVIOUS
  <1>1. Size \in Nat \ {0} /\ MaxBatch \in Nat
    BY RingBufferAssumption
  <1>2. TypeOK /\ Bounded /\ Len(log) = head_
    BY <1>1 DEF Init, TypeOK, Bounded, Labels, Slots
  <1>3. ASSUME NEW i \in Slots PROVE SlotInv(i)
    <2>1. Slot(i) = i /\ i \in Nat /\ i < Size
      BY <1>1 DEF Slot, Slots
    <2> QED BY <1>1, <2>1 DEF Init, SlotInv
  <1>4. \A t \in Threads : ThreadInv(t) /\ ~PushOwner(t) /\ ~PopOwner(t)
    BY DEF Init, ThreadInv, PushOwner, PopOwner
  <1> QED BY <1>2, <1>3, <1>4 DEF Inv

\* With at least two slots, every step of try_push and try_pop preserves it.
LEMMA NextInv == ASSUME Size >= 2, Inv, [Next]_vars PROVE Inv'
  <1>1. CASE UNCHANGED vars
    <2>1. TypeOK' /\ Bounded' /\ Len(log') = head_'
      BY <1>1 DEF vars, Inv, TypeOK, Bounded
    <2>2. \A t \in Threads : /\ ThreadInv(t)' /\ pos'[t] = pos[t]
                              /\ (PushOwner(t)' <=> PushOwner(t)) /\ (PopOwner(t)' <=> PopOwner(t))
      BY <1>1 DEF vars, Inv, ThreadInv, PushOwner, PopOwner
    <2>3. \A i \in Slots : SlotInv(i)'
      BY <1>1 DEF vars, Inv, SlotInv, PushOwner, PopOwner
    <2> QED BY <2>1, <2>2, <2>3 DEF Inv
  <1>2. ASSUME NEW t \in Producers, PushCall(t) \/ PushStep(t) PROVE Inv'
    BY <1>2, PushLocal, PushCasStep, PushWriteStep, PushPublishStep DEF PushStep
  <1>3. ASSUME NEW t \in Consumers, PopCall(t) \/ PopStep(t) PROVE Inv'
    BY <1>3, PopLocal, PopCasStep, PopReadStep, PopReleaseStep DEF PopStep
  <1> QED BY <1>1, <1>2, <1>3 DEF Next

\* The invariant holds of RingBuffer with at least two slots.
THEOREM Invariance == ASSUME Size >= 2 PROVE Spec => []Inv
  <1>1. Inv /\ [Next]_vars => Inv'
    BY NextInv
  <1> QED BY <1>1, InitInv, PTL DEF Spec

\* Counters, slots and locals keep their types.
THEOREM TypeCorrect == ASSUME Size >= 2 PROVE Spec => []TypeOK
  <1>1. Inv => TypeOK
    BY DEF Inv
  <1> QED BY <1>1, Invariance, PTL

\* The queue never holds more than Size items, nor fewer than none.
THEOREM QueueBounded == ASSUME Size >= 2 PROVE Spec => []Bounded
  <1>1. Inv => Bounded
    BY DEF Inv
  <1> QED BY <1>1, Invariance, PTL

\* Two threads never access one element of buffer_ at the same time.
THEOREM NoDataRace == ASSUME Size >= 2 PROVE Spec => []SlotExclusive
  <1>1. Inv => SlotExclusive
    BY Exclusive
  <1> QED BY <1>1, Invariance, PTL

\* Items are popped in the order of their pushes, each of them once.
THEOREM FirstInFirstOut == ASSUME Size >= 2 PROVE Spec => []PopsInOrder
  <1>1. Inv => PopsInOrder
    BY DEF Inv, ThreadInv, PopsInOrder
  <1> QED BY <1>1, Invariance, PTL
=============================================================================
