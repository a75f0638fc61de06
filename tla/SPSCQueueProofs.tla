-------------------------- MODULE SPSCQueueProofs ---------------------------
(***************************************************************************)
(* The safety of SPSCQueue for any items, any number of slots and any      *)
(* bound on the pushes, whether or not loads may return old values.        *)
(***************************************************************************)
EXTENDS SPSCQueue, Laps, SequenceTheorems, TLAPS

-----------------------------------------------------------------------------
(* Arithmetic of slots *)

LEMMA SizeType == Size \in Nat \ {0} /\ Size >= 2 /\ Size \in Nat
  BY SPSCQueueAssumption

\* i & mask_ is an index of buffer_.
LEMMA SlotType == \A p \in Nat : Slot(p) \in Slots
  BY SizeType DEF Slot, Slots

\* Two counts with one index are at least a lap apart.
LEMMA SlotApart ==
  ASSUME NEW p \in Nat, NEW q \in Nat, p < q, Slot(p) = Slot(q)
  PROVE  p + Size <= q
  <1>1. Size \in Nat \ {0}
    BY SizeType
  <1> QED BY <1>1, LapApart, Zenon DEF Slot

\* Counts a lap apart have one index.
LEMMA SlotLap == ASSUME NEW p \in Nat PROVE Slot(p + Size) = Slot(p)
  <1>1. Size \in Nat \ {0}
    BY SizeType
  <1> QED BY <1>1, LapShift, Zenon DEF Slot

\* (head + 1) & mask_ is the index of the next count.
LEMMA SlotNext == ASSUME NEW p \in Nat PROVE Slot(Slot(p) + 1) = Slot(p + 1)
  <1>1. Size \in Nat \ {0}
    BY SizeType
  <1> QED BY <1>1, LapNext, Zenon DEF Slot

-----------------------------------------------------------------------------
(* Steps that store no index *)

\* A load changes only what the thread has seen, and never backwards.
LEMMA LoadSees ==
  ASSUME Inv, NEW t \in Threads, NEW n \in Nat, seen[t] <= n,
         NEW index, Loads(t, n, index)
  PROVE  \E m \in Nat : /\ seen[t] <= m /\ m <= n /\ index = Slot(m)
                        /\ seen' = [seen EXCEPT ![t] = m]
  <1>1. seen[t] \in Nat
    BY DEF Inv, TypeOK
  <1>2. PICK m \in (IF WeakLoads THEN seen[t] ELSE n) .. n :
          index = Slot(m) /\ seen' = [seen EXCEPT ![t] = m]
    BY DEF Loads
  <1>3. m \in Nat /\ seen[t] <= m /\ m <= n
    BY <1>1, <1>2
  <1> QED BY <1>2, <1>3

\* The constructor establishes the invariant.
LEMMA InitInv == Init => Inv
  BY SizeType DEF Init, Inv, TypeOK, Slots, Slot, Threads, Labels, P, C

\* Starting a push, or returning from a call.
LEMMA CallStep ==
  ASSUME Inv, PushCall \/ PushReturn \/ PopCall \/ PopReturn
  PROVE  Inv'
  <1> USE DEF Threads, P, C, Labels
  <1>1. CASE PushCall
    BY <1>1 DEF PushCall, Goto, Inv, TypeOK
  <1>2. CASE PushReturn
    BY <1>2 DEF PushReturn, Return, Goto, Inv, TypeOK
  <1>3. CASE PopCall
    BY <1>3 DEF PopCall, Goto, Inv, TypeOK
  <1>4. CASE PopReturn
    BY <1>4 DEF PopReturn, Return, Goto, Inv, TypeOK
  <1> QED BY <1>1, <1>2, <1>3, <1>4

\* The producer's load of tail_.  If it returns anything but the index after
\* head_, there is room, however old the value is.
LEMMA PushLoadStep == ASSUME Inv, PushFull \/ PushRoom PROVE Inv'
  <1> USE DEF Threads, P, C, Labels
  <1>1. /\ TypeOK /\ Len(log) \in Nat /\ Size \in Nat /\ seen[P] \in Nat
        /\ popped \in Nat /\ seen[P] <= popped /\ Len(log) < seen[P] + Size
    BY SizeType DEF Inv, TypeOK
  <1>2. CASE PushFull
    <2>1. PICK m \in Nat : /\ seen[P] <= m /\ m <= popped
                           /\ seen' = [seen EXCEPT ![P] = m]
      BY <1>1, <1>2, LoadSees DEF PushFull
    <2> QED BY <1>1, <1>2, <2>1 DEF PushFull, Return, Goto, Inv, TypeOK
  <1>3. CASE PushRoom
    <2>1. PICK i \in Slots \ {Slot(head_ + 1)} : Loads(P, popped, i)
      BY <1>3 DEF PushRoom
    <2>2. PICK m \in Nat : /\ seen[P] <= m /\ m <= popped /\ i = Slot(m)
                           /\ seen' = [seen EXCEPT ![P] = m]
      BY <1>1, <2>1, LoadSees
    <2>3. Slot(m) # Slot(Len(log) + 1)
      BY <1>1, <2>1, <2>2, SlotNext DEF Inv
    <2>4. Len(log) + 1 # m + Size
      BY <2>2, <2>3, SlotLap
    <2>5. Len(log) + 1 < m + Size
      BY <1>1, <2>2, <2>4
    <2> QED BY <1>1, <1>3, <2>2, <2>5 DEF PushRoom, Goto, Inv, TypeOK
  <1> QED BY <1>2, <1>3

\* The consumer's load of head_.  If it returns anything but tail_, there is
\* an item, however old the value is.
LEMMA PopLoadStep == ASSUME Inv, PopEmpty \/ PopItem PROVE Inv'
  <1> USE DEF Threads, P, C, Labels
  <1>1. /\ TypeOK /\ Len(log) \in Nat /\ seen[C] \in Nat /\ popped \in Nat
        /\ popped <= seen[C] /\ seen[C] <= Len(log)
    BY DEF Inv, TypeOK
  <1>2. CASE PopEmpty
    <2>1. PICK m \in Nat : /\ seen[C] <= m /\ m <= Len(log)
                           /\ seen' = [seen EXCEPT ![C] = m]
      BY <1>1, <1>2, LoadSees DEF PopEmpty
    <2> QED BY <1>1, <1>2, <2>1 DEF PopEmpty, Return, Goto, Inv, TypeOK
  <1>3. CASE PopItem
    <2>1. PICK i \in Slots \ {tail_} : Loads(C, Len(log), i)
      BY <1>3 DEF PopItem
    <2>2. PICK m \in Nat : /\ seen[C] <= m /\ m <= Len(log) /\ i = Slot(m)
                           /\ seen' = [seen EXCEPT ![C] = m]
      BY <1>1, <2>1, LoadSees
    <2>3. m # popped
      BY <2>1, <2>2 DEF Inv
    <2>4. popped < m
      BY <1>1, <2>2, <2>3
    <2> QED BY <1>1, <1>3, <2>2, <2>4 DEF PopItem, Goto, Inv, TypeOK
  <1> QED BY <1>2, <1>3

-----------------------------------------------------------------------------
(* Accesses to buffer_ and stores of the indices *)

\* The slot being written holds none of the items in the queue.
LEMMA PushWriteStep == ASSUME Inv, PushWrite PROVE Inv'
  <1> USE DEF Threads, P, C, Labels
  <1>1. /\ TypeOK /\ Len(log) \in Nat /\ popped \in Nat /\ seen[P] \in Nat /\ Size \in Nat
        /\ head_ = Slot(Len(log)) /\ head_ \in Slots
        /\ Len(log) < seen[P] + Size /\ seen[P] <= popped
    BY SizeType DEF Inv, TypeOK
  <1>2. ASSUME NEW k \in popped + 1 .. Len(log)
        PROVE  buffer_'[Slot(k - 1)] = log[k]
    <2>1. k - 1 \in Nat /\ popped <= k - 1 /\ k - 1 < Len(log)
      BY <1>1
    <2>2. Slot(k - 1) # head_
      <3>1. Slot(k - 1) = Slot(Len(log)) => (k - 1) + Size <= Len(log)
        BY <1>1, <2>1, SlotApart
      <3> QED BY <1>1, <2>1, <3>1
    <2>3. Slot(k - 1) \in Slots
      BY <2>1, SlotType
    <2> QED BY <1>1, <2>2, <2>3 DEF PushWrite, Inv, TypeOK
  <1> QED BY <1>1, <1>2 DEF PushWrite, Goto, Inv, TypeOK

\* The item enters the queue.
LEMMA PushPublishStep == ASSUME Inv, PushPublish PROVE Inv'
  <1> USE DEF Threads, P, C, Labels
  <1>1. /\ TypeOK /\ Len(log) \in Nat /\ popped \in Nat /\ item[P] \in Items
        /\ head_ = Slot(Len(log)) /\ buffer_[head_] = item[P]
        /\ popped <= Len(log) /\ log \in Seq(Items)
    BY DEF Inv, TypeOK, PushPublish, Goto
  <1>2. /\ log' = Append(log, item[P]) /\ Len(log') = Len(log) + 1
        /\ log' \in Seq(Items) /\ log'[Len(log) + 1] = item[P]
        /\ \A k \in 1 .. Len(log) : log'[k] = log[k]
    BY <1>1 DEF PushPublish
  <1>3. head_' = Slot(Len(log) + 1) /\ head_' \in Slots
    BY <1>1, SlotNext, SlotType DEF PushPublish
  <1>4. ASSUME NEW k \in popped + 1 .. Len(log) + 1
        PROVE  buffer_[Slot(k - 1)] = log'[k]
    <2>1. CASE k = Len(log) + 1
      BY <1>1, <1>2, <2>1
    <2>2. CASE k # Len(log) + 1
      BY <1>1, <1>2, <2>2 DEF Inv
    <2> QED BY <2>1, <2>2
  <1>5. pc[C] = "pop_advance" => log'[popped + 1] = log[popped + 1]
    BY <1>1, <1>2 DEF Inv, TypeOK
  <1>6. TypeOK'
    BY <1>1, <1>2, <1>3 DEF PushPublish, Goto, TypeOK
  <1>7. \A k \in popped' + 1 .. Len(log') : buffer_'[Slot(k - 1)] = log'[k]
    BY <1>2, <1>4 DEF PushPublish
  <1>8. /\ seen' = seen /\ popped' = popped /\ item' = item
        /\ pc'[P] = "push_done" /\ pc'[C] = pc[C]
    BY <1>1 DEF PushPublish, Goto, TypeOK
  <1>9. /\ seen[P] \in Nat /\ seen[C] \in Nat /\ Size \in Nat /\ tail_' = tail_
        /\ Len(log) + 1 < seen[P] + Size
    BY SizeType DEF Inv, TypeOK, PushPublish, Goto
  <1> QED BY <1>1, <1>2, <1>3, <1>5, <1>6, <1>7, <1>8, <1>9 DEF Inv

\* The consumer reads the oldest item.
LEMMA PopReadStep == ASSUME Inv, PopRead PROVE Inv'
  <1> USE DEF Threads, P, C, Labels
  <1>1. TypeOK /\ popped \in Nat /\ popped < Len(log) /\ Len(log) \in Nat
    BY DEF Inv, TypeOK, PopRead, Goto
  <1>2. buffer_[Slot((popped + 1) - 1)] = log[popped + 1] /\ (popped + 1) - 1 = popped
    BY <1>1 DEF Inv
  <1>3. buffer_[tail_] = log[popped + 1] /\ tail_ \in Slots
    BY <1>1, <1>2 DEF Inv, TypeOK
  <1> QED BY <1>1, <1>3 DEF PopRead, Goto, Inv, TypeOK

\* It leaves the queue.
LEMMA PopAdvanceStep == ASSUME Inv, PopAdvance PROVE Inv'
  <1> USE DEF Threads, P, C, Labels
  <1>1. TypeOK /\ popped \in Nat /\ tail_ = Slot(popped)
    BY DEF Inv, TypeOK
  <1>2. tail_' = Slot(popped + 1) /\ tail_' \in Slots
    BY <1>1, SlotNext, SlotType DEF PopAdvance
  <1> QED BY <1>1, <1>2 DEF PopAdvance, Goto, Inv, TypeOK

-----------------------------------------------------------------------------
(* The theorems *)

LEMMA NextInv == Inv /\ [Next]_vars => Inv'
  <1> SUFFICES ASSUME Inv, [Next]_vars PROVE Inv'
    OBVIOUS
  <1>1. CASE UNCHANGED vars
    BY <1>1 DEF vars, Inv, TypeOK
  <1>2. CASE Producer
    BY <1>2, CallStep, PushLoadStep, PushWriteStep, PushPublishStep DEF Producer
  <1>3. CASE Consumer
    BY <1>3, CallStep, PopLoadStep, PopReadStep, PopAdvanceStep DEF Consumer
  <1> QED BY <1>1, <1>2, <1>3 DEF Next

\* The indices that try_push and try_pop exchange keep the two counts apart,
\* also if each thread sees the other's stores late.
THEOREM Invariance == Spec => []Inv
  BY InitInv, NextInv, PTL DEF Spec

\* The producer never writes the element of buffer_ that the consumer reads.
THEOREM NoDataRace == Spec => []SlotExclusive
  <1>1. Inv => SlotExclusive
    <2> SUFFICES ASSUME Inv, pc[P] = "push_write", pc[C] = "pop_read", head_ = tail_
                 PROVE  FALSE
      BY DEF SlotExclusive
    <2>1. /\ popped \in Nat /\ Len(log) \in Nat /\ Size \in Nat /\ seen[P] \in Nat
          /\ popped < Len(log) /\ Len(log) < seen[P] + Size /\ seen[P] <= popped
          /\ Slot(popped) = Slot(Len(log))
      BY SizeType DEF Inv, TypeOK, Threads, P, C
    <2>2. popped + Size <= Len(log)
      BY <2>1, SlotApart
    <2> QED BY <2>1, <2>2
  <1> QED BY <1>1, Invariance, PTL

-----------------------------------------------------------------------------
(* The queue of BoundedQueue is implemented *)

\* The items between the counts.
LEMMA QueueType ==
  ASSUME Inv
  PROVE  /\ queue \in Seq(Items)
         /\ Len(queue) = Len(log) - popped
         /\ \A k \in 1 .. Len(log) - popped : queue[k] = log[popped + k]
  <1>1. log \in Seq(Items) /\ Len(log) \in Nat /\ popped \in Nat /\ popped <= Len(log)
    BY DEF Inv, TypeOK, Threads
  <1> QED BY <1>1 DEF queue

\* Appending to a sequence appends to what is left of it after m elements.
LEMMA SubSeqAppend ==
  ASSUME NEW S, NEW s \in Seq(S), NEW x \in S, NEW m \in Nat, m <= Len(s)
  PROVE  SubSeq(Append(s, x), m + 1, Len(s) + 1) = Append(SubSeq(s, m + 1, Len(s)), x)
  <1> DEFINE t == Append(s, x)
             l == SubSeq(t, m + 1, Len(s) + 1)
             q == SubSeq(s, m + 1, Len(s))
             r == Append(q, x)
  <1>1. /\ Len(s) \in Nat /\ t \in Seq(S) /\ Len(t) = Len(s) + 1
        /\ t[Len(s) + 1] = x /\ \A i \in 1 .. Len(s) : t[i] = s[i]
    OBVIOUS
  <1> HIDE DEF t
  <1>2. /\ l \in Seq(S) /\ Len(l) = Len(s) + 1 - m
        /\ \A i \in 1 .. Len(s) + 1 - m : l[i] = t[m + i]
    BY <1>1
  <1>3. /\ q \in Seq(S) /\ Len(q) = Len(s) - m
        /\ \A i \in 1 .. Len(s) - m : q[i] = s[m + i]
    BY <1>1
  <1> HIDE DEF l, q
  <1>4. /\ r \in Seq(S) /\ Len(r) = Len(s) + 1 - m /\ r[Len(s) + 1 - m] = x
        /\ \A i \in 1 .. Len(s) - m : r[i] = s[m + i]
    BY <1>1, <1>3
  <1> HIDE DEF r
  <1>5. ASSUME NEW i \in 1 .. Len(l) PROVE l[i] = r[i]
    <2>1. CASE i = Len(s) + 1 - m
      BY <1>1, <1>2, <1>4, <2>1
    <2>2. CASE i # Len(s) + 1 - m
      <3>1. i \in 1 .. Len(s) - m /\ i \in 1 .. Len(s) + 1 - m /\ m + i \in 1 .. Len(s)
        <4>1. Len(l) = Len(s) + 1 - m /\ Len(s) \in Nat
          BY <1>1, <1>2
        <4> QED BY <4>1, <2>2
      <3>2. l[i] = t[m + i] /\ t[m + i] = s[m + i] /\ r[i] = s[m + i]
        BY <1>1, <1>2, <1>4, <3>1
      <3> QED BY <3>2
    <2> QED BY <2>1, <2>2
  <1>6. l = r
    BY <1>2, <1>4, <1>5, SeqEqual
  <1> QED BY <1>6 DEF l, r, q, t

\* A load of the current value.
LEMMA LoadsCurrent ==
  ASSUME WeakLoads = FALSE, NEW t, NEW n \in Nat, NEW index, Loads(t, n, index)
  PROVE  index = Slot(n)
  <1>1. PICK m \in n .. n : index = Slot(m)
    BY DEF Loads
  <1>2. m = n
    BY <1>1
  <1> QED BY <1>1, <1>2

\* Calls and returns.
LEMMA RefinesCalls ==
  ASSUME Inv, PushCall \/ PushReturn \/ PopCall \/ PopReturn
  PROVE  Abstract!Next
  <1> USE DEF Threads, P, C, Labels
  <1>0. TypeOK /\ (pc[C] = "idle" => item[C] = NoItem)
    BY DEF Inv
  <1>1. CASE PushCall
    <2>1. PICK x \in Items : item' = [item EXCEPT ![P] = x]
      BY <1>1 DEF PushCall
    <2>2. phase[P] = "idle" /\ phase' = [phase EXCEPT ![P] = "push"]
      BY <1>0, <1>1 DEF PushCall, Goto, phase, TypeOK
    <2>3. value' = [value EXCEPT ![P] = x]
      BY <1>0, <1>1, <2>1 DEF PushCall, Goto, value, TypeOK
    <2>4. queue' = queue
      BY <1>1 DEF PushCall, queue
    <2> QED BY <2>2, <2>3, <2>4 DEF Abstract!Next, Abstract!StartPush, Abstract!Becomes
  <1>2. CASE PushReturn
    <2>1. phase[P] = "pushed" /\ phase' = [phase EXCEPT ![P] = "idle"]
      BY <1>0, <1>2 DEF PushReturn, Return, Goto, phase, TypeOK
    <2>2. value' = [value EXCEPT ![P] = NoItem]
      BY <1>0, <1>2 DEF PushReturn, Return, Goto, value, TypeOK
    <2>3. queue' = queue
      BY <1>2 DEF PushReturn, queue
    <2> QED BY <2>1, <2>2, <2>3 DEF Abstract!Next, Abstract!EndPush, Abstract!Becomes
  <1>3. CASE PopCall
    <2>1. phase[C] = "idle" /\ phase' = [phase EXCEPT ![C] = "pop"]
      BY <1>0, <1>3 DEF PopCall, Goto, phase, TypeOK
    <2>2. value' = [value EXCEPT ![C] = NoItem]
      BY <1>0, <1>3 DEF PopCall, Goto, value, TypeOK
    <2>3. queue' = queue
      BY <1>3 DEF PopCall, queue
    <2> QED BY <2>1, <2>2, <2>3 DEF Abstract!Next, Abstract!StartPop, Abstract!Becomes
  <1>4. CASE PopReturn
    <2>1. phase[C] = "popped" /\ phase' = [phase EXCEPT ![C] = "idle"]
      BY <1>0, <1>4 DEF PopReturn, Return, Goto, phase, TypeOK
    <2>2. value' = [value EXCEPT ![C] = NoItem]
      BY <1>0, <1>4 DEF PopReturn, Return, Goto, value, TypeOK
    <2>3. queue' = queue
      BY <1>4 DEF PopReturn, queue
    <2> QED BY <2>1, <2>2, <2>3 DEF Abstract!Next, Abstract!EndPop, Abstract!Becomes
  <1> QED BY <1>1, <1>2, <1>3, <1>4

\* Steps in the middle of a call do not show.
LEMMA RefinesInner ==
  ASSUME Inv, PushRoom \/ PushWrite \/ PopItem \/ PopRead
  PROVE  UNCHANGED Abstract!vars
  <1> USE DEF Threads, P, C, Labels
  <1>0. TypeOK /\ (pc[C] \in {"pop", "pop_read"} => item[C] = NoItem)
    BY DEF Inv
  <1>1. queue' = queue
    BY DEF PushRoom, PushWrite, PopItem, PopRead, queue
  <1>2. phase' = phase
    BY <1>0 DEF PushRoom, PushWrite, PopItem, PopRead, Goto, phase, TypeOK
  <1>3. value' = value
    BY <1>0 DEF PushRoom, PushWrite, PopItem, PopRead, Goto, value, TypeOK
  <1> QED BY <1>1, <1>2, <1>3 DEF Abstract!vars

\* If the index after head_ is the current tail_, the queue is full.
LEMMA RefinesFull == ASSUME WeakLoads = FALSE, Inv, PushFull PROVE Abstract!Next
  <1> USE DEF Threads, P, C, Labels
  <1>1. /\ TypeOK /\ popped \in Nat /\ Len(log) \in Nat /\ Size \in Nat /\ seen[P] \in Nat
        /\ popped <= Len(log) /\ Len(log) < seen[P] + Size /\ seen[P] <= popped
        /\ head_ = Slot(Len(log))
    BY SizeType DEF Inv, TypeOK
  <1>2. Slot(head_ + 1) = Slot(popped)
    BY <1>1, LoadsCurrent DEF PushFull
  <1>3. Slot(popped) = Slot(Len(log) + 1)
    BY <1>1, <1>2, SlotNext
  <1>4. popped + Size <= Len(log) + 1
    BY <1>1, <1>3, SlotApart
  <1>5. Len(queue) = Size - 1
    BY <1>1, <1>4, QueueType
  <1>6. phase[P] = "push" /\ phase' = [phase EXCEPT ![P] = "idle"]
    BY <1>1 DEF PushFull, Return, Goto, phase, TypeOK
  <1>7. value' = [value EXCEPT ![P] = NoItem]
    BY <1>1 DEF PushFull, Return, Goto, value, TypeOK
  <1>8. queue' = queue
    BY DEF PushFull, queue
  <1> QED BY <1>5, <1>6, <1>7, <1>8
          DEF Abstract!Next, Abstract!RefusePush, Abstract!Becomes

\* If the current head_ is tail_, the queue is empty.
LEMMA RefinesEmpty == ASSUME WeakLoads = FALSE, Inv, PopEmpty PROVE Abstract!Next
  <1> USE DEF Threads, P, C, Labels
  <1>1. /\ TypeOK /\ popped \in Nat /\ Len(log) \in Nat /\ Size \in Nat /\ seen[P] \in Nat
        /\ popped <= Len(log) /\ Len(log) < seen[P] + Size /\ seen[P] <= popped
        /\ tail_ = Slot(popped)
    BY SizeType DEF Inv, TypeOK
  <1>2. Slot(popped) = Slot(Len(log))
    BY <1>1, LoadsCurrent DEF PopEmpty
  <1>3. popped < Len(log) => popped + Size <= Len(log)
    BY <1>1, <1>2, SlotApart
  <1>4. Len(queue) = 0 /\ queue \in Seq(Items)
    BY <1>1, <1>3, QueueType
  <1>5. queue = <<>>
    BY <1>4
  <1>6. phase[C] = "pop" /\ phase' = [phase EXCEPT ![C] = "idle"]
    BY <1>1 DEF PopEmpty, Return, Goto, phase, TypeOK
  <1>7. value' = [value EXCEPT ![C] = NoItem]
    BY <1>1 DEF PopEmpty, Return, Goto, value, TypeOK
  <1>8. queue' = queue
    BY DEF PopEmpty, queue
  <1> QED BY <1>5, <1>6, <1>7, <1>8
          DEF Abstract!Next, Abstract!RefusePop, Abstract!Becomes

\* A push takes effect when it stores head_.
LEMMA RefinesPush == ASSUME Inv, PushPublish PROVE Abstract!Next
  <1> USE DEF Threads, P, C, Labels
  <1>1. /\ TypeOK /\ popped \in Nat /\ Len(log) \in Nat /\ Size \in Nat /\ seen[P] \in Nat
        /\ popped <= Len(log) /\ Len(log) + 1 < seen[P] + Size /\ seen[P] <= popped
        /\ item[P] \in Items /\ log \in Seq(Items)
    BY SizeType DEF Inv, TypeOK, PushPublish, Goto
  <1>2. log' = Append(log, item[P]) /\ popped' = popped
    BY DEF PushPublish
  <1>3. queue' = Append(queue, item[P])
    <2>1. Len(log') = Len(log) + 1
      BY <1>1, <1>2
    <2> QED BY <1>1, <1>2, <2>1, SubSeqAppend DEF queue
  <1>4. Len(queue) < Size - 1
    BY <1>1, QueueType
  <1>5. phase[P] = "push" /\ phase' = [phase EXCEPT ![P] = "pushed"]
    BY <1>1 DEF PushPublish, Goto, phase, TypeOK
  <1>6. value[P] = item[P] /\ value' = [value EXCEPT ![P] = value[P]]
    BY <1>1 DEF PushPublish, Goto, value, TypeOK
  <1> QED BY <1>3, <1>4, <1>5, <1>6
          DEF Abstract!Next, Abstract!Push, Abstract!Becomes

\* A pop takes effect when it stores tail_.
LEMMA RefinesPop == ASSUME Inv, PopAdvance PROVE Abstract!Next
  <1> USE DEF Threads, P, C, Labels
  <1>1. /\ TypeOK /\ popped \in Nat /\ Len(log) \in Nat /\ popped < Len(log)
        /\ item[C] = log[popped + 1] /\ log \in Seq(Items)
    BY DEF Inv, TypeOK, PopAdvance, Goto
  <1>2. /\ queue \in Seq(Items) /\ Len(queue) = Len(log) - popped
        /\ queue[1] = log[popped + 1]
    BY <1>1, QueueType
  <1>3. queue # <<>> /\ Head(queue) = item[C]
    BY <1>1, <1>2
  <1>4. queue' = Tail(queue)
    BY <1>1 DEF PopAdvance, queue
  <1>5. phase[C] = "pop" /\ phase' = [phase EXCEPT ![C] = "popped"]
    BY <1>1 DEF PopAdvance, Goto, phase, TypeOK
  <1>6. value' = [value EXCEPT ![C] = item[C]]
    BY <1>1 DEF PopAdvance, Goto, value, TypeOK
  <1> QED BY <1>3, <1>4, <1>5, <1>6
          DEF Abstract!Next, Abstract!Pop, Abstract!Becomes

\* With loads that return the current value, try_push and try_pop implement
\* a first-in first-out queue of Size - 1 items with exact refusals.
THEOREM Refinement == ASSUME WeakLoads = FALSE PROVE Spec => ImplementsQueue
  <1>1. Init => Abstract!Init
    BY DEF Init, Abstract!Init, Abstract!Threads, queue, phase, value, Threads
  <1>2. Inv /\ [Next]_vars => [Abstract!Next]_(Abstract!vars)
    <2> SUFFICES ASSUME Inv, [Next]_vars PROVE [Abstract!Next]_(Abstract!vars)
      OBVIOUS
    <2>1. CASE UNCHANGED vars
      BY <2>1 DEF vars, Abstract!vars, queue, phase, value
    <2>2. CASE Producer
      BY <2>2, RefinesCalls, RefinesInner, RefinesFull, RefinesPush DEF Producer
    <2>3. CASE Consumer
      BY <2>3, RefinesCalls, RefinesInner, RefinesEmpty, RefinesPop DEF Consumer
    <2> QED BY <2>1, <2>2, <2>3 DEF Next
  <1> QED BY <1>1, <1>2, Invariance, PTL DEF Spec, ImplementsQueue, Abstract!Spec
=============================================================================
