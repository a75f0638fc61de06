-------------------------- MODULE RingBufferClaims --------------------------
(***************************************************************************)
(* A successful compare-exchange of RingBuffer, and the access to the slot *)
(* that it claims, keep the invariant.                                     *)
(***************************************************************************)
EXTENDS RingBufferSlots

-----------------------------------------------------------------------------
(* Steps that change shared memory *)

\* A successful compare-exchange on head_ gives the thread its slot.
LEMMA PushCasStep ==
  ASSUME Size >= 2, Inv, NEW t \in Producers, PushCas(t)
  PROVE  Inv'
  <1> USE DEF Threads
  <1>1. TypeOK /\ ThreadInv(t) /\ t \in Threads /\ Size \in Nat /\ Len(log) = head_
    BY RingBufferAssumption DEF Inv
  <1>2. sequences_[Slot(pos[t])] = pos[t] /\ pos[t] < tail_ + Size
    BY PushClaim DEF PushCas, Goto
  <1>3. /\ pc' = [pc EXCEPT ![t] = "push_write"] /\ pc[t] = "push_cas"
        /\ head_ = pos[t] /\ head_' = head_ + 1 /\ log' = Append(log, item[t])
        /\ UNCHANGED <<tail_, sequences_, buffer_, pos, item, left>>
    BY DEF PushCas, Goto
  <1>4. item[t] \in Items
    BY <1>1, <1>3 DEF ThreadInv
  <1>5. /\ TypeOK' /\ Bounded' /\ Len(log') = head_'
        /\ \A n \in 1 .. head_ : log'[n] = log[n]
        /\ log'[pos[t] + 1] = item[t]
    BY <1>1, <1>2, <1>3, <1>4 DEF TypeOK, Labels, Inv, Bounded
  <1>6. ASSUME NEW i \in Slots PROVE SlotInv(i)'
    <2> DEFINE s == sequences_[i]
    <2>1. SlotInv(i) /\ s \in Nat /\ head_ \in Nat /\ tail_ \in Nat
      BY <1>1 DEF Inv, TypeOK
    <2>2. CASE Slot(s) = i /\ tail_ <= s /\ s < tail_ + Size
                /\ (s < head_ => \E u \in Producers : PushOwner(u) /\ pos[u] = s)
      <3>1. s < head_ + 1 => \E u \in Producers : PushOwner(u)' /\ pos[u] = s
        <4>1. CASE s = head_
          BY <1>1, <1>3, <4>1 DEF PushOwner, TypeOK
        <4>2. CASE s < head_
          BY <1>1, <1>3, <2>2, <4>2 DEF PushOwner, TypeOK
        <4> HIDE DEF s
        <4> QED BY <2>1, <4>1, <4>2
      <3> QED BY <1>3, <2>1, <2>2, <3>1 DEF SlotInv
    <2>3. CASE s > 0 /\ Slot(s - 1) = i /\ s <= head_ /\ head_ < s + Size
                /\ (s <= tail_ => \E u \in Consumers : PopOwner(u) /\ pos[u] = s - 1)
                /\ buffer_[i] = log[s]
      <3>1. head_ + 1 # s + Size
        <4> SUFFICES ASSUME head_ + 1 = s + Size PROVE FALSE
          OBVIOUS
        <4>1. Slot((s - 1) + Size) = Slot(s - 1)
          BY <2>1, <2>3, SlotLap
        <4>2. (s - 1) + Size = head_
          BY <1>1, <2>1
        <4>3. s = head_
          BY <1>2, <1>3, <2>3, <4>1, <4>2
        <4> QED BY <1>1, <2>1, <4>3
      <3>2. \A u \in Consumers : PopOwner(u) => PopOwner(u)'
        BY <1>1, <1>3 DEF PopOwner, TypeOK
      <3>3. log'[s] = log[s] /\ s <= head_ + 1 /\ head_ + 1 < s + Size
        <4>1. s \in 1 .. head_ /\ s <= head_ + 1 /\ head_ + 1 < s + Size
          <5> HIDE DEF s
          <5> QED BY <1>1, <2>1, <2>3, <3>1
        <4> QED BY <1>5, <4>1, Zenon
      <3> QED BY <1>3, <2>1, <2>3, <3>2, <3>3 DEF SlotInv
    <2> QED BY <2>1, <2>2, <2>3 DEF SlotInv
  <1>7. ASSUME NEW u \in Threads PROVE ThreadInv(u)'
    <2>1. CASE u = t
      BY <1>1, <1>2, <1>3, <1>5, <2>1 DEF ThreadInv, TypeOK, PushOwner, PopOwner
    <2>2. CASE u # t
      <3>1. ThreadInv(u) /\ pc'[u] = pc[u] /\ pos[u] \in Nat /\ Bounded
        BY <1>1, <1>3, <2>2 DEF Inv, TypeOK
      <3>2. head_ \in Nat /\ tail_ \in Nat
        BY <1>1 DEF TypeOK
      <3>3. CASE PushOwner(u) \/ PopOwner(u)
        <4>1. pos[u] < head_
          BY <3>1, <3>2, <3>3 DEF ThreadInv, Bounded
        <4>2. log'[pos[u] + 1] = log[pos[u] + 1] /\ pos[u] < head_ + 1
          BY <1>5, <3>1, <3>2, <4>1
        <4> QED BY <1>3, <3>1, <3>2, <3>3, <4>2 DEF ThreadInv, PushOwner, PopOwner
      <3>4. CASE ~(PushOwner(u) \/ PopOwner(u))
        BY <1>3, <3>1, <3>2, <3>4 DEF ThreadInv, PushOwner, PopOwner
      <3> QED BY <3>3, <3>4
    <2> QED BY <2>1, <2>2
  <1>8. ASSUME NEW u \in Threads, NEW v \in Threads
        PROVE  /\ (u # v /\ PushOwner(u) /\ PushOwner(v) => pos[u] # pos[v])'
               /\ (u # v /\ PopOwner(u) /\ PopOwner(v) => pos[u] # pos[v])'
    <2>1. \A w \in Threads : PushOwner(w) => pos[w] < head_ /\ pos[w] \in Nat
      BY <1>1 DEF Inv, ThreadInv, TypeOK
    <2> QED BY <1>1, <1>3, <2>1 DEF Inv, PushOwner, PopOwner, TypeOK
  <1> QED BY <1>5, <1>6, <1>7, <1>8 DEF Inv

\* A successful compare-exchange on tail_ gives the thread its item.
LEMMA PopCasStep ==
  ASSUME Inv, NEW t \in Consumers, PopCas(t)
  PROVE  Inv'
  <1> USE DEF Threads
  <1>1. TypeOK /\ ThreadInv(t) /\ t \in Threads /\ Size \in Nat /\ Len(log) = head_
    BY RingBufferAssumption DEF Inv
  <1>2. sequences_[Slot(pos[t])] = pos[t] + 1 /\ pos[t] < head_
    BY PopClaim DEF PopCas, Goto
  <1>3. /\ pc' = [pc EXCEPT ![t] = "pop_read"] /\ pc[t] = "pop_cas"
        /\ tail_ = pos[t] /\ tail_' = tail_ + 1
        /\ UNCHANGED <<head_, sequences_, buffer_, pos, item, left, log>>
    BY DEF PopCas, Goto
  <1>4. head_ \in Nat /\ tail_ \in Nat /\ pos[t] \in Nat
    BY <1>1 DEF TypeOK
  <1>5. TypeOK' /\ Bounded' /\ Len(log') = head_'
    <2>1. tail_' \in Nat
      BY <1>3, <1>4
    <2>2. TypeOK'
      BY <1>1, <1>3, <2>1, Zenon DEF TypeOK, Labels
    <2>3. Bounded'
      BY <1>1, <1>2, <1>3, <1>4 DEF Inv, Bounded
    <2> QED BY <1>1, <1>3, <2>2, <2>3
  <1>6. ASSUME NEW i \in Slots PROVE SlotInv(i)'
    <2> DEFINE s == sequences_[i]
    <2>1. SlotInv(i) /\ s \in Nat
      BY <1>1 DEF Inv, TypeOK
    <2>2. CASE Slot(s) = i /\ tail_ <= s /\ s < tail_ + Size
                /\ (s < head_ => \E u \in Producers : PushOwner(u) /\ pos[u] = s)
      <3>1. s # tail_
        BY <1>2, <1>3, <1>4, <2>2
      <3>2. tail_ + 1 <= s /\ s < tail_ + 1 + Size
        <4> HIDE DEF s
        <4> QED BY <1>1, <1>4, <2>1, <2>2, <3>1
      <3>3. \A u \in Producers : PushOwner(u) => PushOwner(u)'
        BY <1>1, <1>3 DEF PushOwner, TypeOK
      <3> QED BY <1>3, <2>1, <2>2, <3>2, <3>3 DEF SlotInv
    <2>3. CASE s > 0 /\ Slot(s - 1) = i /\ s <= head_ /\ head_ < s + Size
                /\ (s <= tail_ => \E u \in Consumers : PopOwner(u) /\ pos[u] = s - 1)
                /\ buffer_[i] = log[s]
      <3>1. s <= tail_ + 1 => \E u \in Consumers : PopOwner(u)' /\ pos[u] = s - 1
        <4>1. CASE s = tail_ + 1
          BY <1>1, <1>3, <1>4, <4>1 DEF PopOwner, TypeOK
        <4>2. CASE s <= tail_
          BY <1>1, <1>3, <2>3, <4>2 DEF PopOwner, TypeOK
        <4> HIDE DEF s
        <4> QED BY <1>4, <2>1, <4>1, <4>2
      <3> QED BY <1>3, <2>1, <2>3, <3>1 DEF SlotInv
    <2> QED BY <2>1, <2>2, <2>3 DEF SlotInv
  <1>7. ASSUME NEW u \in Threads PROVE ThreadInv(u)'
    <2>1. CASE u = t
      BY <1>1, <1>2, <1>3, <1>4, <2>1 DEF ThreadInv, TypeOK, PushOwner, PopOwner
    <2>2. CASE u # t
      <3>1. ThreadInv(u) /\ pc'[u] = pc[u] /\ pos[u] \in Nat
        BY <1>1, <1>3, <2>2 DEF Inv, TypeOK
      <3> QED BY <1>3, <1>4, <3>1 DEF ThreadInv, PushOwner, PopOwner
    <2> QED BY <2>1, <2>2
  <1>8. ASSUME NEW u \in Threads, NEW v \in Threads
        PROVE  /\ (u # v /\ PushOwner(u) /\ PushOwner(v) => pos[u] # pos[v])'
               /\ (u # v /\ PopOwner(u) /\ PopOwner(v) => pos[u] # pos[v])'
    <2>1. \A w \in Threads : PopOwner(w) => pos[w] < tail_ /\ pos[w] \in Nat
      BY <1>1 DEF Inv, ThreadInv, TypeOK
    <2> QED BY <1>1, <1>3, <1>4, <2>1 DEF Inv, PushOwner, PopOwner, TypeOK
  <1> QED BY <1>5, <1>6, <1>7, <1>8 DEF Inv

\* Writing the item disturbs no other slot and no other thread.
LEMMA PushWriteStep ==
  ASSUME Size >= 2, Inv, NEW t \in Producers, PushWrite(t)
  PROVE  Inv'
  <1> USE DEF Threads
  <1> DEFINE j == Slot(pos[t])
  <1>1. /\ pc' = [pc EXCEPT ![t] = "push_publish"] /\ pc[t] = "push_write"
        /\ buffer_' = [buffer_ EXCEPT ![j] = item[t]]
        /\ UNCHANGED <<head_, tail_, sequences_, pos, item, left, log>>
    BY DEF PushWrite, Goto
  <1>2. TypeOK /\ ThreadInv(t) /\ t \in Threads /\ PushOwner(t)
    BY <1>1 DEF Inv, PushOwner
  <1>3. /\ j \in Slots /\ sequences_[j] = pos[t] /\ pos[t] \in Nat
        /\ tail_ <= pos[t] /\ SlotInv(j)
    BY <1>2, PushOwnerSlot DEF Inv, TypeOK
  <1>4. TypeOK' /\ Bounded' /\ Len(log') = head_'
    BY <1>1, <1>2, <1>3 DEF TypeOK, Labels, Inv, Bounded
  <1>5. \A u \in Threads : /\ PushOwner(u)' <=> PushOwner(u)
                           /\ PopOwner(u)' <=> PopOwner(u)
                           /\ u # t => pc'[u] = pc[u]
    BY <1>1, <1>2 DEF PushOwner, PopOwner, TypeOK
  <1>6. ASSUME NEW i \in Slots PROVE SlotInv(i)'
    <2>1. CASE i = j
      <3>1. ~(pos[t] > 0 /\ Slot(pos[t] - 1) = j)
        BY <1>3, SlotSucc
      <3> QED BY <1>1, <1>3, <1>5, <2>1, <3>1 DEF SlotInv
    <2>2. CASE i # j
      <3>1. SlotInv(i) /\ buffer_'[i] = buffer_[i]
        BY <1>1, <1>2, <2>2 DEF Inv, TypeOK
      <3> QED BY <1>1, <1>5, <3>1 DEF SlotInv
    <2> QED BY <2>1, <2>2
  <1>7. ASSUME NEW u \in Threads PROVE ThreadInv(u)'
    <2>1. CASE u = t
      BY <1>1, <1>2, <1>3, <2>1 DEF ThreadInv, TypeOK, PushOwner, PopOwner
    <2>2. CASE u # t
      <3>1. ThreadInv(u) /\ pos[u] \in Nat /\ Slot(pos[u]) \in Slots
        BY <1>2, SlotType DEF Inv, TypeOK
      <3>2. PushOwner(u) => buffer_'[Slot(pos[u])] = buffer_[Slot(pos[u])]
        BY <1>1, <1>2, <2>2, <3>1, Exclusive, Zenon DEF SlotExclusive, TypeOK
      <3> QED BY <1>1, <1>5, <2>2, <3>1, <3>2 DEF ThreadInv, PushOwner
    <2> QED BY <2>1, <2>2
  <1> QED BY <1>1, <1>4, <1>5, <1>6, <1>7 DEF Inv

\* Reading the item changes only the reading thread.
LEMMA PopReadStep ==
  ASSUME Size >= 2, Inv, NEW t \in Consumers, PopRead(t)
  PROVE  Inv'
  <1> USE DEF Threads
  <1>1. /\ pc' = [pc EXCEPT ![t] = "pop_release"] /\ pc[t] = "pop_read"
        /\ item' = [item EXCEPT ![t] = buffer_[Slot(pos[t])]]
        /\ UNCHANGED <<head_, tail_, sequences_, buffer_, log, pos, left>>
    BY DEF PopRead, Goto, shared
  <1>2. TypeOK /\ ThreadInv(t) /\ t \in Threads /\ PopOwner(t)
    BY <1>1 DEF Inv, PopOwner
  <1>3. Slot(pos[t]) \in Slots /\ buffer_[Slot(pos[t])] = log[pos[t] + 1]
    BY <1>2, PopOwnerSlot
  <1>4. TypeOK' /\ Bounded' /\ Len(log') = head_'
    BY <1>1, <1>2, <1>3 DEF TypeOK, Labels, Inv, Bounded
  <1>5. \A u \in Threads : /\ PushOwner(u)' <=> PushOwner(u)
                           /\ PopOwner(u)' <=> PopOwner(u)
                           /\ u # t => pc'[u] = pc[u] /\ item'[u] = item[u]
    BY <1>1, <1>2 DEF PushOwner, PopOwner, TypeOK
  <1>6. ASSUME NEW i \in Slots PROVE SlotInv(i)'
    BY <1>1, <1>5 DEF Inv, SlotInv
  <1>7. ASSUME NEW u \in Threads PROVE ThreadInv(u)'
    <2>1. CASE u = t
      BY <1>1, <1>2, <1>3, <2>1 DEF ThreadInv, TypeOK, PushOwner, PopOwner
    <2>2. CASE u # t
      BY <1>1, <1>5, <2>2 DEF Inv, ThreadInv
    <2> QED BY <2>1, <2>2
  <1> QED BY <1>1, <1>4, <1>5, <1>6, <1>7 DEF Inv
=============================================================================
