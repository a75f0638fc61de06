-------------------------- MODULE RingBufferSlots ---------------------------
(***************************************************************************)
(* What the positions and sequence numbers of RingBuffer mean to a thread, *)
(* and the steps of a call before its compare-exchange succeeds: they keep *)
(* the invariant, for at least two slots and whether or not loads may return *)
(* old values.                                                             *)
(***************************************************************************)
EXTENDS RingBuffer, Laps, TLAPS

-----------------------------------------------------------------------------
(* Arithmetic of slots *)

\* head & mask_ is an index of the arrays.
LEMMA SlotType == \A p \in Nat : Slot(p) \in Slots
  BY RingBufferAssumption DEF Slot, Slots

\* A position and the one a lap later use the same slot.
LEMMA SlotLap == ASSUME NEW p \in Nat PROVE Slot(p + Size) = Slot(p)
  <1>1. Size \in Nat \ {0}
    BY RingBufferAssumption
  <1> QED BY <1>1, LapShift, Zenon DEF Slot

\* Two positions of one slot are at least a lap apart.
LEMMA SlotApart ==
  ASSUME NEW p \in Nat, NEW q \in Nat, p < q, Slot(p) = Slot(q)
  PROVE  p + Size <= q
  <1>1. Size \in Nat \ {0}
    BY RingBufferAssumption
  <1> QED BY <1>1, LapApart, Zenon DEF Slot

\* With at least two slots, neighbouring positions use different ones.
LEMMA SlotSucc ==
  ASSUME Size >= 2, NEW p \in Nat
  PROVE  Slot(p + 1) # Slot(p) /\ (p > 0 => Slot(p - 1) # Slot(p))
  <1>1. Slot(p) = Slot(p + 1) => p + Size <= p + 1
    BY SlotApart
  <1>2. p > 0 /\ Slot(p - 1) = Slot(p) => (p - 1) + Size <= p
    BY SlotApart
  <1> QED BY <1>1, <1>2, RingBufferAssumption

-----------------------------------------------------------------------------
(* What a successful compare-exchange may rely on *)

\* A push whose compare-exchange on head_ succeeds finds its slot free,
\* although it loaded the sequence number earlier.
LEMMA PushClaim ==
  ASSUME Size >= 2, Inv, NEW t \in Threads, pc[t] = "push_cas", head_ = pos[t]
  PROVE  /\ sequences_[Slot(pos[t])] = pos[t]
         /\ pos[t] < tail_ + Size
  <1> DEFINE i == Slot(pos[t])
             s == sequences_[i]
  <1>1. pos[t] \in Nat /\ i \in Slots /\ s \in Nat /\ tail_ \in Nat /\ Size \in Nat
    BY SlotType, RingBufferAssumption DEF Inv, TypeOK
  <1>2. SlotInv(i) /\ s >= pos[t] /\ tail_ <= pos[t]
    BY <1>1 DEF Inv, ThreadInv, Bounded
  <1>3. CASE Slot(s) = i /\ tail_ <= s /\ s < tail_ + Size
    <2>1. ~(pos[t] < s)
      <3>1. pos[t] < s => pos[t] + Size <= s
        BY <1>1, <1>3, SlotApart
      <3> HIDE DEF s, i
      <3> QED BY <1>1, <1>2, <1>3, <3>1
    <2> HIDE DEF s, i
    <2>2. s = pos[t]
      BY <1>1, <1>2, <2>1
    <2> QED BY <1>1, <1>3, <2>2 DEF s, i
  <1>4. CASE s > 0 /\ Slot(s - 1) = i /\ s <= head_
    <2>1. s = pos[t]
      BY <1>1, <1>2, <1>4
    <2> QED BY <1>1, <1>4, <2>1, SlotSucc
  <1> QED BY <1>2, <1>3, <1>4 DEF SlotInv

\* A pop whose compare-exchange on tail_ succeeds finds its item published.
LEMMA PopClaim ==
  ASSUME Inv, NEW t \in Threads, pc[t] = "pop_cas", tail_ = pos[t]
  PROVE  /\ sequences_[Slot(pos[t])] = pos[t] + 1
         /\ pos[t] < head_
  <1> DEFINE i == Slot(pos[t])
             s == sequences_[i]
  <1>1. /\ pos[t] \in Nat /\ i \in Slots /\ s \in Nat
        /\ tail_ \in Nat /\ head_ \in Nat /\ Size \in Nat
    BY SlotType, RingBufferAssumption DEF Inv, TypeOK
  <1>2. SlotInv(i) /\ s >= pos[t] + 1 /\ head_ <= pos[t] + Size
    BY <1>1 DEF Inv, ThreadInv, Bounded
  <1>3. CASE Slot(s) = i /\ s < tail_ + Size
    <2>1. pos[t] + Size <= s
      BY <1>1, <1>2, <1>3, SlotApart
    <2> HIDE DEF s, i
    <2> QED BY <1>1, <1>3, <2>1
  <1>4. CASE s > 0 /\ Slot(s - 1) = i /\ s <= head_
    <2>1. s - 1 \in Nat
      BY <1>1, <1>4
    <2>2. pos[t] < s - 1 => pos[t] + Size <= s - 1
      BY <1>1, <1>4, <2>1, SlotApart
    <2> HIDE DEF s, i
    <2>3. s = pos[t] + 1
      BY <1>1, <1>2, <1>4, <2>1, <2>2
    <2> QED BY <1>1, <1>4, <2>3 DEF s, i
  <1> QED BY <1>2, <1>3, <1>4 DEF SlotInv

-----------------------------------------------------------------------------
(* What the owner of a slot may rely on *)

\* The slot of a push between its claim and its publication is still waiting.
LEMMA PushOwnerSlot ==
  ASSUME Size >= 2, Inv, NEW t \in Threads, PushOwner(t)
  PROVE  /\ sequences_[Slot(pos[t])] = pos[t] /\ Slot(pos[t]) \in Slots
         /\ tail_ <= pos[t] /\ pos[t] < head_ /\ head_ < pos[t] + 1 + Size
         /\ item[t] = log[pos[t] + 1]
  <1>1. /\ pos[t] \in Nat /\ tail_ \in Nat /\ head_ \in Nat /\ Size \in Nat
        /\ Slot(pos[t]) \in Slots /\ SlotInv(Slot(pos[t])) /\ ThreadInv(t)
        /\ head_ <= tail_ + Size
    BY SlotType, RingBufferAssumption DEF Inv, TypeOK, Bounded
  <1>2. /\ sequences_[Slot(pos[t])] = pos[t] /\ pos[t] < head_
        /\ item[t] = log[pos[t] + 1]
    BY <1>1 DEF ThreadInv
  <1>3. tail_ <= pos[t]
    BY <1>1, <1>2, SlotSucc DEF SlotInv
  <1> QED BY <1>1, <1>2, <1>3

\* The slot of a pop between its claim and its release still holds the item.
LEMMA PopOwnerSlot ==
  ASSUME Size >= 2, Inv, NEW t \in Threads, PopOwner(t)
  PROVE  /\ sequences_[Slot(pos[t])] = pos[t] + 1 /\ Slot(pos[t]) \in Slots
         /\ pos[t] < tail_ /\ head_ <= pos[t] + Size
         /\ buffer_[Slot(pos[t])] = log[pos[t] + 1]
  <1>1. /\ pos[t] \in Nat /\ tail_ \in Nat /\ head_ \in Nat /\ Size \in Nat
        /\ Slot(pos[t]) \in Slots /\ SlotInv(Slot(pos[t])) /\ ThreadInv(t)
    BY SlotType, RingBufferAssumption DEF Inv, TypeOK
  <1>2. sequences_[Slot(pos[t])] = pos[t] + 1 /\ pos[t] < tail_
    BY <1>1 DEF ThreadInv
  <1>3. Slot(pos[t] + 1) # Slot(pos[t])
    BY <1>1, SlotSucc
  <1>4. head_ < pos[t] + 1 + Size /\ buffer_[Slot(pos[t])] = log[pos[t] + 1]
    BY <1>1, <1>2, <1>3 DEF SlotInv
  <1> QED BY <1>1, <1>2, <1>4

\* The invariant keeps the owners of a slot apart.
LEMMA Exclusive == ASSUME Size >= 2, Inv PROVE SlotExclusive
  <1> SUFFICES ASSUME NEW t \in Threads, NEW u \in Threads, t # u,
                      PushOwner(t) \/ PopOwner(t), PushOwner(u) \/ PopOwner(u),
                      Slot(pos[t]) = Slot(pos[u])
               PROVE  FALSE
    BY DEF SlotExclusive
  <1>1. pos[t] \in Nat /\ pos[u] \in Nat
    BY DEF Inv, TypeOK
  <1>2. CASE PushOwner(t) /\ PushOwner(u)
    BY <1>2, PushOwnerSlot DEF Inv
  <1>3. CASE PopOwner(t) /\ PopOwner(u)
    <2>1. pos[t] + 1 = pos[u] + 1
      BY <1>3, PopOwnerSlot
    <2> QED BY <1>1, <1>3, <2>1 DEF Inv
  <1>4. CASE PushOwner(t) /\ PopOwner(u)
    <2>1. pos[t] = pos[u] + 1
      BY <1>4, PushOwnerSlot, PopOwnerSlot
    <2> QED BY <1>1, <2>1, SlotSucc
  <1>5. CASE PopOwner(t) /\ PushOwner(u)
    <2>1. pos[u] = pos[t] + 1
      BY <1>5, PushOwnerSlot, PopOwnerSlot
    <2> QED BY <1>1, <2>1, SlotSucc
  <1> QED BY <1>2, <1>3, <1>4, <1>5

-----------------------------------------------------------------------------
(* Steps that only move one thread *)

\* A thread between two calls, or about to load its position, knows nothing.
LEMMA FreshKnows ==
  ASSUME NEW t \in Threads,
         \/ pc'[t] = "idle"
         \/ pc'[t] = "push_load" /\ t \in Producers /\ item'[t] \in Items /\ left'[t] > 0
         \/ pc'[t] = "pop_load" /\ t \in Consumers /\ left'[t] > 0
  PROVE  ThreadInv(t)' /\ ~PushOwner(t)' /\ ~PopOwner(t)'
  <1>1. CASE pc'[t] = "idle"
    BY <1>1 DEF ThreadInv, PushOwner, PopOwner
  <1>2. CASE pc'[t] = "push_load" /\ t \in Producers /\ item'[t] \in Items /\ left'[t] > 0
    BY <1>2 DEF ThreadInv, PushOwner, PopOwner
  <1>3. CASE pc'[t] = "pop_load" /\ t \in Consumers /\ left'[t] > 0
    BY <1>3 DEF ThreadInv, PushOwner, PopOwner
  <1> QED BY <1>1, <1>2, <1>3

\* A step of a thread that owns no slot, before or after, and changes nothing
\* shared preserves the invariant if it preserves what the thread knows.
LEMMA LocalStep ==
  ASSUME Inv, NEW t \in Threads, TypeOK', UNCHANGED shared,
         \A u \in Threads \ {t} :
           pc'[u] = pc[u] /\ pos'[u] = pos[u] /\ item'[u] = item[u] /\ left'[u] = left[u],
         ~PushOwner(t), ~PopOwner(t), ~PushOwner(t)', ~PopOwner(t)', ThreadInv(t)'
  PROVE  Inv'
  <1>1. Bounded' /\ (Len(log) = head_)'
    BY DEF Inv, Bounded, shared
  <1>2. ASSUME NEW i \in Slots PROVE SlotInv(i)'
    <2>1. SlotInv(i)
      BY DEF Inv
    <2>2. \A u \in Threads : PushOwner(u) => PushOwner(u)' /\ pos'[u] = pos[u]
      BY DEF PushOwner
    <2>3. \A u \in Threads : PopOwner(u) => PopOwner(u)' /\ pos'[u] = pos[u]
      BY DEF PopOwner
    <2> QED BY <2>1, <2>2, <2>3 DEF SlotInv, shared, Threads
  <1>3. ASSUME NEW u \in Threads PROVE ThreadInv(u)'
    <2>1. CASE u = t
      BY <2>1
    <2>2. CASE u # t
      <3>1. ThreadInv(u)
        BY DEF Inv
      <3>2. pc'[u] = pc[u] /\ pos'[u] = pos[u] /\ item'[u] = item[u] /\ left'[u] = left[u]
        BY <2>2
      <3> QED BY <3>1, <3>2, Zenon DEF ThreadInv, shared, PushOwner, PopOwner
    <2> QED BY <2>1, <2>2
  <1>4. ASSUME NEW u \in Threads, NEW v \in Threads
        PROVE  /\ (u # v /\ PushOwner(u) /\ PushOwner(v) => pos[u] # pos[v])'
               /\ (u # v /\ PopOwner(u) /\ PopOwner(v) => pos[u] # pos[v])'
    BY DEF Inv, PushOwner, PopOwner
  <1> QED BY <1>1, <1>2, <1>3, <1>4 DEF Inv

\* A load of a counter that only grows returns at most its current value.
LEMMA LoadBound == \A n \in Nat : \A h \in Load(n) : h \in Nat /\ h <= n
  BY DEF Load

\* So does a load of a sequence number.
LEMMA SequenceBound ==
  ASSUME NEW i, sequences_[i] \in Nat, NEW s \in LoadSequence(i)
  PROVE  s <= sequences_[i]
  <1>1. s = sequences_[i] \/ s \in 0 .. sequences_[i]
    BY Zenon DEF LoadSequence, SequencesOf
  <1> QED BY <1>1

\* The steps of try_push before its compare-exchange succeeds.
LEMMA PushLocal ==
  ASSUME Inv, NEW t \in Producers,
         PushCall(t) \/ PushLoad(t) \/ PushSeq(t) \/ PushFull(t) \/ PushBehind(t) \/ PushCasFail(t)
  PROVE  Inv'
  <1> USE DEF Threads
  <1>1. TypeOK /\ ThreadInv(t) /\ t \in Threads /\ UNCHANGED shared
    BY DEF Inv, PushCall, PushLoad, PushSeq, PushFull, PushBehind, PushCasFail
  <1>2. TypeOK'
    <2>1. MaxBatch \in Nat
      BY RingBufferAssumption
    <2>2. CASE PushCall(t)
      BY <1>1, <2>1, <2>2 DEF TypeOK, shared, Labels, PushCall, Goto, NextPush
    <2>3. CASE PushLoad(t) \/ PushCasFail(t)
      <3>1. PICK h \in Load(head_) : pos' = [pos EXCEPT ![t] = h]
        BY <2>3 DEF PushLoad, PushCasFail
      <3>2. h \in Nat
        BY <1>1, LoadBound DEF TypeOK
      <3> QED BY <1>1, <2>3, <3>1, <3>2, Zenon
              DEF TypeOK, shared, Labels, PushLoad, PushCasFail, Goto
    <2>4. CASE PushSeq(t) \/ PushBehind(t)
      BY <1>1, <2>4, Zenon DEF TypeOK, shared, Labels, PushSeq, PushBehind, Goto
    <2>5. CASE PushFull(t)
      BY <1>1, <2>1, <2>5 DEF TypeOK, shared, Labels, PushFull, Goto, Return
    <2> QED BY <2>2, <2>3, <2>4, <2>5
  <1>3. \A u \in Threads \ {t} :
          pc'[u] = pc[u] /\ pos'[u] = pos[u] /\ item'[u] = item[u] /\ left'[u] = left[u]
    BY <1>1 DEF TypeOK, PushCall, PushLoad, PushSeq, PushFull,
                PushBehind, PushCasFail, Goto, Return, NextPush
  <1>4. ~PushOwner(t) /\ ~PopOwner(t) /\ ~PushOwner(t)' /\ ~PopOwner(t)'
    BY <1>1 DEF TypeOK, PushOwner, PopOwner, PushCall, PushLoad, PushSeq, PushFull,
                PushBehind, PushCasFail, Goto, Return, NextPush
  <1>5. ThreadInv(t)'
    <2>1. CASE PushCall(t)
      <3>1. pc'[t] = "push_load" /\ item'[t] \in Items /\ left'[t] \in 1 .. MaxBatch
        BY <1>1, <2>1 DEF TypeOK, PushCall, Goto, NextPush
      <3> QED BY <1>1, <3>1, FreshKnows
    <2>2. CASE PushLoad(t)
      BY <1>1, <2>2 DEF TypeOK, ThreadInv, PushOwner, PopOwner, PushLoad, Goto, Load, shared
    <2>3. CASE PushSeq(t)
      <3>1. sequences_[Slot(pos[t])] >= pos[t]
        <4>1. pos[t] \in Nat /\ sequences_[Slot(pos[t])] \in Nat
          BY <1>1, SlotType DEF TypeOK
        <4>2. pos[t] <= sequences_[Slot(pos[t])]
          BY <2>3, <4>1, SequenceBound, Zenon DEF PushSeq
        <4> QED BY <4>1, <4>2
      <3> QED BY <1>1, <2>3, <3>1 DEF TypeOK, ThreadInv, PushOwner, PopOwner, PushSeq, Goto, shared
    <2>4. CASE PushFull(t)
      <3>1. pc'[t] = "idle"
        BY <1>1, <2>4 DEF TypeOK, PushFull, Goto, Return
      <3> QED BY <1>1, <3>1, FreshKnows
    <2>5. CASE PushBehind(t)
      BY <1>1, <2>5 DEF TypeOK, ThreadInv, PushOwner, PopOwner, PushBehind, Goto, shared
    <2>6. CASE PushCasFail(t)
      BY <1>1, <2>6 DEF TypeOK, ThreadInv, PushOwner, PopOwner, PushCasFail, Goto, Load, shared
    <2> QED BY <2>1, <2>2, <2>3, <2>4, <2>5, <2>6
  <1> QED BY <1>1, <1>2, <1>3, <1>4, <1>5, LocalStep

\* The steps of try_pop before its compare-exchange succeeds.
LEMMA PopLocal ==
  ASSUME Inv, NEW t \in Consumers,
         PopCall(t) \/ PopLoad(t) \/ PopSeq(t) \/ PopEmpty(t) \/ PopBehind(t) \/ PopCasFail(t)
  PROVE  Inv'
  <1> USE DEF Threads
  <1>1. TypeOK /\ ThreadInv(t) /\ t \in Threads /\ UNCHANGED shared
    BY DEF Inv, PopCall, PopLoad, PopSeq, PopEmpty, PopBehind, PopCasFail
  <1>2. TypeOK'
    <2>1. MaxBatch \in Nat
      BY RingBufferAssumption
    <2>2. CASE PopCall(t)
      BY <1>1, <2>1, <2>2 DEF TypeOK, shared, Labels, PopCall, Goto, NextPop
    <2>3. CASE PopLoad(t) \/ PopCasFail(t)
      <3>1. PICK h \in Load(tail_) : pos' = [pos EXCEPT ![t] = h]
        BY <2>3 DEF PopLoad, PopCasFail
      <3>2. h \in Nat
        BY <1>1, LoadBound DEF TypeOK
      <3> QED BY <1>1, <2>3, <3>1, <3>2, Zenon
              DEF TypeOK, shared, Labels, PopLoad, PopCasFail, Goto
    <2>4. CASE PopSeq(t) \/ PopBehind(t)
      BY <1>1, <2>4, Zenon DEF TypeOK, shared, Labels, PopSeq, PopBehind, Goto
    <2>5. CASE PopEmpty(t)
      BY <1>1, <2>1, <2>5 DEF TypeOK, shared, Labels, PopEmpty, Goto, Return
    <2> QED BY <2>2, <2>3, <2>4, <2>5
  <1>3. \A u \in Threads \ {t} :
          pc'[u] = pc[u] /\ pos'[u] = pos[u] /\ item'[u] = item[u] /\ left'[u] = left[u]
    BY <1>1 DEF TypeOK, PopCall, PopLoad, PopSeq, PopEmpty,
                PopBehind, PopCasFail, Goto, Return, NextPop
  <1>4. ~PushOwner(t) /\ ~PopOwner(t) /\ ~PushOwner(t)' /\ ~PopOwner(t)'
    BY <1>1 DEF TypeOK, PushOwner, PopOwner, PopCall, PopLoad, PopSeq, PopEmpty,
                PopBehind, PopCasFail, Goto, Return, NextPop
  <1>5. ThreadInv(t)'
    <2>1. CASE PopCall(t)
      <3>1. pc'[t] = "pop_load" /\ left'[t] \in 1 .. MaxBatch
        BY <1>1, <2>1 DEF TypeOK, PopCall, Goto, NextPop
      <3> QED BY <1>1, <3>1, FreshKnows
    <2>2. CASE PopLoad(t)
      BY <1>1, <2>2 DEF TypeOK, ThreadInv, PushOwner, PopOwner, PopLoad, Goto, Load, shared
    <2>3. CASE PopSeq(t)
      <3>1. sequences_[Slot(pos[t])] >= pos[t] + 1
        <4>1. pos[t] \in Nat /\ sequences_[Slot(pos[t])] \in Nat
          BY <1>1, SlotType DEF TypeOK
        <4>2. pos[t] + 1 <= sequences_[Slot(pos[t])]
          BY <2>3, <4>1, SequenceBound, Zenon DEF PopSeq
        <4> QED BY <4>1, <4>2
      <3> QED BY <1>1, <2>3, <3>1 DEF TypeOK, ThreadInv, PushOwner, PopOwner, PopSeq, Goto, shared
    <2>4. CASE PopEmpty(t)
      <3>1. pc'[t] = "idle"
        BY <1>1, <2>4 DEF TypeOK, PopEmpty, Goto, Return
      <3> QED BY <1>1, <3>1, FreshKnows
    <2>5. CASE PopBehind(t)
      BY <1>1, <2>5 DEF TypeOK, ThreadInv, PushOwner, PopOwner, PopBehind, Goto, shared
    <2>6. CASE PopCasFail(t)
      BY <1>1, <2>6 DEF TypeOK, ThreadInv, PushOwner, PopOwner, PopCasFail, Goto, Load, shared
    <2> QED BY <2>1, <2>2, <2>3, <2>4, <2>5, <2>6
  <1> QED BY <1>1, <1>2, <1>3, <1>4, <1>5, LocalStep
=============================================================================
