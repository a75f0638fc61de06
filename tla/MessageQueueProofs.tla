------------------------- MODULE MessageQueueProofs -------------------------
(***************************************************************************)
(* For every number of threads, every arena and every set of sizes whose   *)
(* sum with the arena's does not overflow size_t: messages get disjoint    *)
(* parts of the arena, and a message that was sent stays as it was written.*)
(***************************************************************************)
EXTENDS MessageQueue, TLAPS

HandleTypes == [offset : Nat, size : Lengths]

Types ==
  /\ write_offset_ \in 0 .. ArenaSize
  /\ log \in Seq(HandleTypes)
  /\ pc \in [Producers -> {"idle", "allocate", "write", "push", "pushing"}]
  /\ current \in [Producers -> Nat] /\ bytes \in [Producers -> Nat]
  /\ message \in [Producers -> Nat]
  /\ queue \in Seq(Handles)
  /\ phase \in [Producers \cup Consumers -> {"idle", "push", "pushed", "pop", "popped"}]
  /\ value \in [Producers \cup Consumers -> Handles \cup {NoHandle}]
  /\ \A t \in Producers \cup Consumers : phase[t] = "push" => value[t] \in Handles

\* What was allocated lies in order below write_offset_.
Ordered ==
  /\ \A k \in 1 .. Len(log) : log[k].offset + log[k].size <= write_offset_
  /\ \A j, k \in 1 .. Len(log) : j < k => log[j].offset + log[j].size <= log[k].offset

\* A producer that has loaded the offset has one that is not too large; one
\* that has allocated knows its own message.
Knows(p) ==
  /\ pc[p] # "idle" => bytes[p] \in Lengths
  /\ pc[p] = "allocate" => current[p] <= write_offset_
  /\ pc[p] \in {"write", "push", "pushing"} =>
       /\ message[p] \in 1 .. Len(log)
       /\ log[message[p]] = [offset |-> current[p], size |-> bytes[p]]

\* What a producer is about to push is written.
Written(p) ==
  /\ pc[p] \in {"push", "pushing"} =>
       \A i \in Region(log[message[p]]) : buffer_[i] = message[p]
  /\ phase[p] \in {"push", "pushed"} => Intact(value[p])

ArenaInv == Types /\ Ordered /\ \A p \in Producers : Knows(p)
SentInv == MessagesIntact /\ \A p \in Producers : Written(p)
Inv == ArenaInv /\ SentInv

-----------------------------------------------------------------------------
(* The arena *)

\* A sum of an offset and a size does not overflow.
LEMMA EndFits ==
  ASSUME LengthsFit, NEW o \in 0 .. ArenaSize, NEW n \in Lengths
  PROVE  (o + n) % SizeMod = o + n
BY DEF LengthsFit

LEMMA InitArena == ASSUME LengthsFit, Init PROVE ArenaInv
BY DEF LengthsFit, Init, ArenaInv, Types, Ordered, Knows, queue_!Init, queue_!Threads

LEMMA LoadArena ==
  ASSUME LengthsFit, ArenaInv, NEW p \in Producers, AllocateLoad(p)
  PROVE  ArenaInv'
<1>1. PICK n \in Lengths : bytes' = [bytes EXCEPT ![p] = n]
  BY Zenon DEF AllocateLoad
<1>2. PICK v \in {write_offset_} \cup {log[k].offset : k \in 1 .. Len(log)} :
        current' = [current EXCEPT ![p] = v]
  BY Zenon DEF AllocateLoad
<1>3. v \in Nat /\ v <= write_offset_
  <2>1. CASE v = write_offset_
    BY <2>1 DEF ArenaInv, Types, LengthsFit
  <2>2. CASE \E k \in 1 .. Len(log) : v = log[k].offset
    <3>1. PICK k \in 1 .. Len(log) : v = log[k].offset
      BY <2>2
    <3>2. log[k] \in HandleTypes /\ log[k].offset + log[k].size <= write_offset_
      BY DEF ArenaInv, Types, Ordered
    <3>3. log[k].offset \in Nat /\ log[k].size \in Nat
      BY Zenon, <3>2 DEF HandleTypes, LengthsFit
    <3>4. write_offset_ \in Nat
      BY DEF ArenaInv, Types, LengthsFit
    <3> QED BY <3>1, <3>2, <3>3, <3>4
  <2> QED BY <2>1, <2>2, <1>2
<1>4. Types'
  BY <1>1, <1>2, <1>3 DEF ArenaInv, Types, AllocateLoad, Goto, arena, LengthsFit
<1>5. Ordered'
  BY DEF ArenaInv, Ordered, AllocateLoad, arena
<1>6. \A q \in Producers : Knows(q)'
  BY <1>1, <1>2, <1>3 DEF ArenaInv, Types, Knows, AllocateLoad, Goto, arena
<1> QED BY <1>4, <1>5, <1>6 DEF ArenaInv

LEMMA RetryArena ==
  ASSUME LengthsFit, ArenaInv, NEW p \in Producers, AllocateRetry(p)
  PROVE  ArenaInv'
<1>1. Types'
  BY DEF ArenaInv, Types, AllocateRetry, arena, LengthsFit
<1>2. Ordered'
  BY DEF ArenaInv, Ordered, AllocateRetry, arena
<1>3. ASSUME NEW q \in Producers PROVE Knows(q)'
  <2>1. /\ pc' = pc /\ bytes' = bytes /\ message' = message /\ log' = log
        /\ write_offset_' = write_offset_ /\ write_offset_ \in Nat
    BY DEF ArenaInv, Types, AllocateRetry, arena, LengthsFit
  <2>2. IF q = p THEN pc[q] = "allocate" /\ current'[q] = write_offset_ ELSE current'[q] = current[q]
    BY DEF ArenaInv, Types, AllocateRetry
  <2>3. Knows(q)
    BY DEF ArenaInv
  <2> QED BY <2>1, <2>2, <2>3 DEF Knows
<1> QED BY <1>1, <1>2, <1>3 DEF ArenaInv

LEMMA CasArena ==
  ASSUME LengthsFit, ArenaInv, NEW p \in Producers, AllocateCas(p)
  PROVE  ArenaInv'
<1> DEFINE h == [offset |-> current[p], size |-> bytes[p]]
<1>1. bytes[p] \in Lengths /\ bytes[p] \in Nat /\ current[p] \in Nat /\ current[p] = write_offset_
  BY DEF ArenaInv, Types, Knows, AllocateCas, Goto
<1>2. End(p) = current[p] + bytes[p]
  BY <1>1, EndFits DEF ArenaInv, Types, End
<1>3. h \in HandleTypes /\ h.offset = current[p] /\ h.size = bytes[p]
  BY <1>1 DEF HandleTypes
<1>4. log \in Seq(HandleTypes) /\ log' = Append(log, h)
  BY DEF ArenaInv, Types, AllocateCas
<1> HIDE DEF h
<1>5. /\ Len(log) \in Nat /\ Len(log') = Len(log) + 1
      /\ log' \in Seq(HandleTypes)
      /\ log'[Len(log) + 1] = h
      /\ \A k \in 1 .. Len(log) : log'[k] = log[k] /\ log[k] \in HandleTypes
  BY <1>3, <1>4
<1>6. write_offset_' = current[p] + bytes[p] /\ write_offset_' \in 0 .. ArenaSize
  BY <1>1, <1>2 DEF AllocateCas, LengthsFit
<1>7. Types'
  BY <1>5, <1>6 DEF ArenaInv, Types, AllocateCas, Goto
<1>8. Ordered'
  <2>1. \A k \in 1 .. Len(log) : log[k].offset + log[k].size <= current[p]
    BY <1>1 DEF ArenaInv, Ordered
  <2>2. \A k \in 1 .. Len(log) : log[k].offset \in Nat /\ log[k].size \in Nat
    BY Zenon, <1>5 DEF HandleTypes, LengthsFit
  <2>3. \A k \in 1 .. Len(log') : k = Len(log) + 1 \/ k \in 1 .. Len(log)
    BY <1>5
  <2>4. \A k \in 1 .. Len(log') : log'[k].offset + log'[k].size <= write_offset_'
    <3> SUFFICES ASSUME NEW k \in 1 .. Len(log')
                 PROVE  log'[k].offset + log'[k].size <= write_offset_'
      OBVIOUS
    <3>1. CASE k = Len(log) + 1
      BY <3>1, <1>1, <1>3, <1>5, <1>6
    <3>2. CASE k \in 1 .. Len(log)
      <4>1. log[k].offset + log[k].size <= current[p] /\ log'[k] = log[k]
        BY <3>2, <2>1, <1>5
      <4> QED BY <4>1, <3>2, <2>2, <1>1, <1>6
    <3> QED BY <3>1, <3>2, <2>3
  <2>5. ASSUME NEW j \in 1 .. Len(log'), NEW k \in 1 .. Len(log'), j < k
        PROVE  log'[j].offset + log'[j].size <= log'[k].offset
    <3>1. j \in 1 .. Len(log)
      BY <2>5, <1>5
    <3>2. CASE k \in 1 .. Len(log)
      BY <3>1, <3>2, <2>5, <1>5 DEF ArenaInv, Ordered
    <3>3. CASE k = Len(log) + 1
      BY <3>1, <3>3, <2>1, <1>3, <1>5
    <3> QED BY <3>2, <3>3, <2>3
  <2> QED BY <2>4, <2>5 DEF Ordered
<1>9. ASSUME NEW q \in Producers PROVE Knows(q)'
  <2>1. CASE q = p
    <3>1. pc'[p] = "write" /\ message'[p] = Len(log) + 1 /\ current'[p] = current[p] /\ bytes'[p] = bytes[p]
      BY DEF ArenaInv, Types, AllocateCas, Goto
    <3>2. log'[message'[p]] = [offset |-> current'[p], size |-> bytes'[p]]
      BY <3>1, <1>5 DEF h
    <3> QED BY <2>1, <3>1, <3>2, <1>1, <1>5 DEF Knows
  <2>2. CASE q # p
    <3>1. pc'[q] = pc[q] /\ message'[q] = message[q] /\ current'[q] = current[q] /\ bytes'[q] = bytes[q]
      BY <2>2 DEF ArenaInv, Types, AllocateCas, Goto
    <3>2. Knows(q) /\ current[q] \in Nat
      BY DEF ArenaInv, Types
    <3>3. write_offset_ <= write_offset_' /\ write_offset_ \in Nat /\ write_offset_' \in Nat
      BY <1>1, <1>6
    <3> QED BY <3>1, <3>2, <3>3, <1>5 DEF Knows
  <2> QED BY <2>1, <2>2
<1> QED BY <1>7, <1>8, <1>9 DEF ArenaInv

\* The other actions leave the arena's offset and the allocations alone.
LEMMA FrameArena ==
  ASSUME ArenaInv, Types',
         UNCHANGED <<write_offset_, log, current, bytes, message>>,
         \A q \in Producers :
           \/ pc'[q] = pc[q] \/ pc'[q] = "idle"
           \/ {pc[q], pc'[q]} \subseteq {"write", "push", "pushing"}
  PROVE  ArenaInv'
<1>1. Ordered'
  BY DEF ArenaInv, Ordered
<1>2. ASSUME NEW q \in Producers PROVE Knows(q)'
  BY DEF ArenaInv, Knows
<1> QED BY <1>1, <1>2 DEF ArenaInv

LEMMA OtherArena ==
  ASSUME ArenaInv, NEW p \in Producers, AllocateThrow(p) \/ Write(p)
  PROVE  ArenaInv'
<1>1. Types'
  BY Zenon DEF ArenaInv, Types, AllocateThrow, Write, Goto, arena
<1>2. \A q \in Producers :
        \/ pc'[q] = pc[q] \/ pc'[q] = "idle"
        \/ {pc[q], pc'[q]} \subseteq {"write", "push", "pushing"}
  BY DEF ArenaInv, Types, AllocateThrow, Write, Goto
<1> QED BY <1>1, <1>2, FrameArena DEF AllocateThrow, Write, arena

\* A step of a call on the queue keeps the types of what it changes.
LEMMA BecomesTypes ==
  ASSUME ArenaInv, NEW t \in Producers \cup Consumers, NEW from, NEW x \in Handles \cup {NoHandle},
         NEW to \in {"idle", "push", "pushed", "pop", "popped"},
         to = "push" => x \in Handles, queue_!Becomes(t, from, to, x)
  PROVE  /\ phase' \in [Producers \cup Consumers -> {"idle", "push", "pushed", "pop", "popped"}]
         /\ value' \in [Producers \cup Consumers -> Handles \cup {NoHandle}]
         /\ \A u \in Producers \cup Consumers : phase'[u] = "push" => value'[u] \in Handles
         /\ phase[t] = from /\ phase'[t] = to /\ value'[t] = x
         /\ \A u \in (Producers \cup Consumers) \ {t} : phase'[u] = phase[u] /\ value'[u] = value[u]
BY DEF ArenaInv, Types, queue_!Becomes

LEMMA PushArena ==
  ASSUME ArenaInv, NEW p \in Producers, PushMessage(p)
  PROVE  ArenaInv'
<1>1. PICK x \in Handles : queue_!Becomes(p, "idle", "push", x) /\ queue' = queue
  BY DEF PushMessage, queue_!StartPush
<1>2. Types'
  BY Zenon, <1>1, BecomesTypes DEF ArenaInv, Types, PushMessage, Goto, arena
<1>3. \A q \in Producers :
        pc'[q] = pc[q] \/ {pc[q], pc'[q]} \subseteq {"write", "push", "pushing"}
  BY DEF ArenaInv, Types, PushMessage, Goto
<1> QED BY <1>2, <1>3, FrameArena DEF PushMessage, arena

LEMMA PushStepArena ==
  ASSUME ArenaInv, NEW p \in Producers, PushStep(p)
  PROVE  ArenaInv'
<1>1. /\ pc' \in [Producers -> {"idle", "allocate", "write", "push", "pushing"}]
      /\ \A q \in Producers :
           \/ pc'[q] = pc[q] \/ pc'[q] = "idle"
           \/ {pc[q], pc'[q]} \subseteq {"write", "push", "pushing"}
  BY Zenon DEF ArenaInv, Types, PushStep, Goto
<1>2. /\ queue' \in Seq(Handles)
      /\ phase' \in [Producers \cup Consumers -> {"idle", "push", "pushed", "pop", "popped"}]
      /\ value' \in [Producers \cup Consumers -> Handles \cup {NoHandle}]
      /\ \A u \in Producers \cup Consumers : phase'[u] = "push" => value'[u] \in Handles
  <2>1. CASE queue_!Push(p)
    <3>1. queue \in Seq(Handles) /\ value[p] \in Handles
      BY <2>1 DEF ArenaInv, Types, queue_!Push, queue_!Becomes
    <3>2. Append(queue, value[p]) \in Seq(Handles)
      BY <3>1
    <3> QED BY Zenon, <2>1, <3>1, <3>2, BecomesTypes DEF queue_!Push
  <2>2. CASE queue_!RefusePush(p)
    BY <2>2, BecomesTypes DEF ArenaInv, Types, queue_!RefusePush
  <2>3. CASE queue_!EndPush(p)
    BY Zenon, <2>3, BecomesTypes DEF ArenaInv, Types, queue_!EndPush
  <2> QED BY <2>1, <2>2, <2>3 DEF PushStep
<1>3. Types'
  BY <1>1, <1>2 DEF ArenaInv, Types, PushStep, arena
<1> QED BY <1>1, <1>3, FrameArena DEF PushStep, arena

LEMMA PopArena ==
  ASSUME ArenaInv, NEW c \in Consumers, Consume(c)
  PROVE  ArenaInv'
<1>1. /\ queue' \in Seq(Handles)
      /\ phase' \in [Producers \cup Consumers -> {"idle", "push", "pushed", "pop", "popped"}]
      /\ value' \in [Producers \cup Consumers -> Handles \cup {NoHandle}]
      /\ \A u \in Producers \cup Consumers : phase'[u] = "push" => value'[u] \in Handles
  <2>1. CASE queue_!Pop(c)
    <3>1. queue \in Seq(Handles) /\ queue # <<>>
      BY <2>1 DEF ArenaInv, Types, queue_!Pop
    <3>2. Head(queue) \in Handles /\ Tail(queue) \in Seq(Handles)
      BY <3>1
    <3> QED BY Zenon, <2>1, <3>2, BecomesTypes DEF queue_!Pop
  <2>2. CASE queue_!StartPop(c)
    BY <2>2, BecomesTypes DEF ArenaInv, Types, queue_!StartPop
  <2>3. CASE queue_!RefusePop(c)
    BY <2>3, BecomesTypes DEF ArenaInv, Types, queue_!RefusePop
  <2>4. CASE queue_!EndPop(c)
    BY <2>4, BecomesTypes DEF ArenaInv, Types, queue_!EndPop
  <2> QED BY <2>1, <2>2, <2>3, <2>4 DEF Consume, PopMessage, PopReturn
<1>2. UNCHANGED <<arena, locals>>
  BY DEF Consume, PopMessage, PopReturn
<1>3. Types'
  BY <1>1, <1>2 DEF ArenaInv, Types, arena, locals
<1> QED BY <1>2, <1>3, FrameArena DEF arena, locals

-----------------------------------------------------------------------------
(* The messages *)

LEMMA RegionsApart ==
  ASSUME LengthsFit, ArenaInv, NEW j \in 1 .. Len(log), NEW k \in 1 .. Len(log), j # k
  PROVE  Region(log[j]) \cap Region(log[k]) = {}
<1>1. log[j] \in HandleTypes /\ log[k] \in HandleTypes /\ Len(log) \in Nat
  BY DEF ArenaInv, Types
<1>2. /\ log[j].offset \in Nat /\ log[j].size \in Nat
      /\ log[k].offset \in Nat /\ log[k].size \in Nat
  BY Zenon, <1>1 DEF HandleTypes, LengthsFit
<1>3. \/ log[j].offset + log[j].size <= log[k].offset
      \/ log[k].offset + log[k].size <= log[j].offset
  BY <1>1 DEF ArenaInv, Ordered
<1>4. Bytes \subseteq Nat
  BY DEF Bytes, LengthsFit
<1>5. ASSUME NEW i \in Region(log[j]), i \in Region(log[k]) PROVE FALSE
  <2>1. i \in Nat
    BY Zenon, <1>4 DEF Region
  <2>2. /\ log[j].offset <= i /\ i < log[j].offset + log[j].size
        /\ log[k].offset <= i /\ i < log[k].offset + log[k].size
    BY <1>5 DEF Region
  <2> QED BY <2>1, <2>2, <1>2, <1>3
<1> QED BY <1>5

\* An allocation takes nothing away from the messages before it.
LEMMA HoldsAppend ==
  ASSUME log \in Seq(HandleTypes), NEW h, Intact(h), NEW e \in HandleTypes
  PROVE  Holds(h, Append(log, e), buffer_)
<1>1. PICK k \in 1 .. Len(log) : log[k] = h /\ \A i \in Region(h) : buffer_[i] = k
  BY DEF Intact, Holds
<1>2. k \in 1 .. Len(Append(log, e)) /\ Append(log, e)[k] = h
  BY <1>1
<1>3. h.offset < ArenaSize
  BY DEF Intact, Holds
<1> QED BY <1>1, <1>2, <1>3 DEF Holds

\* Writing a message changes no byte of another.
LEMMA WriteKeeps ==
  ASSUME LengthsFit, ArenaInv, NEW p \in Producers, Write(p),
         NEW k \in 1 .. Len(log), \A i \in Region(log[k]) : buffer_[i] = k
  PROVE  \A i \in Region(log[k]) : buffer_'[i] = k
<1>1. /\ message[p] \in 1 .. Len(log)
      /\ log[message[p]] = [offset |-> current[p], size |-> bytes[p]]
  BY DEF ArenaInv, Knows, Write, Goto
<1>2. \A i \in Bytes : buffer_'[i] = IF i \in Region(log[message[p]]) THEN message[p] ELSE buffer_[i]
  BY <1>1 DEF Write
<1>3. Region(log[k]) \subseteq Bytes
  BY DEF Region
<1>4. k # message[p] => Region(log[k]) \cap Region(log[message[p]]) = {}
  BY Zenon, <1>1, RegionsApart
<1> QED BY <1>2, <1>3, <1>4

LEMMA HoldsWrite ==
  ASSUME LengthsFit, ArenaInv, NEW p \in Producers, Write(p), NEW h, Intact(h)
  PROVE  Holds(h, log, buffer_')
<1>1. PICK k \in 1 .. Len(log) : log[k] = h /\ \A i \in Region(h) : buffer_[i] = k
  BY DEF Intact, Holds
<1>2. \A i \in Region(h) : buffer_'[i] = k
  BY <1>1, WriteKeeps
<1> QED BY <1>1, <1>2 DEF Intact, Holds

LEMMA InitSent == ASSUME Init PROVE SentInv
BY DEF Init, SentInv, MessagesIntact, Written, queue_!Init, queue_!Threads

\* A step that leaves the queue alone and spoils no message.
LEMMA FrameSent ==
  ASSUME SentInv, UNCHANGED <<queue, phase, value, received>>,
         \A h : Intact(h) => Holds(h, log', buffer_'),
         \A q \in Producers : pc'[q] \in {"push", "pushing"} =>
           \A i \in Region(log'[message'[q]]) : buffer_'[i] = message'[q]
  PROVE  SentInv'
<1>1. MessagesIntact'
  <2>1. \A k \in 1 .. Len(queue') : Holds(queue'[k], log', buffer_')
    BY DEF SentInv, MessagesIntact
  <2>2. \A c \in Consumers : phase'[c] = "popped" => Holds(value'[c], log', buffer_')
    BY DEF SentInv, MessagesIntact
  <2>3. \A h \in received' : Holds(h, log', buffer_')
    BY DEF SentInv, MessagesIntact
  <2> QED BY <2>1, <2>2, <2>3 DEF MessagesIntact, Intact
<1>2. \A q \in Producers : phase'[q] \in {"push", "pushed"} => Holds(value'[q], log', buffer_')
  BY DEF SentInv, Written
<1>3. \A q \in Producers : Written(q)'
  BY <1>2 DEF Written, Intact
<1> QED BY <1>1, <1>3 DEF SentInv

LEMMA AllocateSent ==
  ASSUME ArenaInv, SentInv, NEW p \in Producers,
         AllocateLoad(p) \/ AllocateThrow(p) \/ AllocateRetry(p)
  PROVE  SentInv'
<1>1. UNCHANGED <<queue, phase, value, received, log, buffer_, message>>
  BY DEF AllocateLoad, AllocateThrow, AllocateRetry, arena
<1>2. \A q \in Producers : pc'[q] \in {"push", "pushing"} => pc[q] = pc'[q]
  BY DEF ArenaInv, Types, AllocateLoad, AllocateThrow, AllocateRetry, Goto
<1>3. \A h : Intact(h) => Holds(h, log', buffer_')
  BY <1>1 DEF Intact
<1>4. \A q \in Producers : pc'[q] \in {"push", "pushing"} =>
        \A i \in Region(log'[message'[q]]) : buffer_'[i] = message'[q]
  BY Zenon, <1>1, <1>2 DEF SentInv, Written
<1> QED BY <1>1, <1>3, <1>4, FrameSent

LEMMA CasSent ==
  ASSUME ArenaInv, SentInv, NEW p \in Producers, AllocateCas(p)
  PROVE  SentInv'
<1> DEFINE e == [offset |-> current[p], size |-> bytes[p]]
<1>1. log \in Seq(HandleTypes) /\ log' = Append(log, e) /\ buffer_' = buffer_ /\ e \in HandleTypes
  BY DEF ArenaInv, Types, Knows, AllocateCas, Goto, HandleTypes
<1> HIDE DEF e
<1>2. \A h : Intact(h) => Holds(h, log', buffer_')
  BY <1>1, HoldsAppend
<1>3. ASSUME NEW q \in Producers, pc'[q] \in {"push", "pushing"}
      PROVE  \A i \in Region(log'[message'[q]]) : buffer_'[i] = message'[q]
  <2>1. q # p /\ pc[q] = pc'[q] /\ message'[q] = message[q]
    BY <1>3 DEF ArenaInv, Types, AllocateCas, Goto
  <2>2. message[q] \in 1 .. Len(log) /\ \A i \in Region(log[message[q]]) : buffer_[i] = message[q]
    BY Zenon, <2>1, <1>3 DEF ArenaInv, Knows, SentInv, Written
  <2>3. log'[message[q]] = log[message[q]]
    BY <1>1, <2>2
  <2> QED BY <2>1, <2>2, <2>3, <1>1
<1> QED BY Zenon, <1>2, <1>3, FrameSent DEF AllocateCas

LEMMA WriteSent ==
  ASSUME LengthsFit, ArenaInv, SentInv, NEW p \in Producers, Write(p)
  PROVE  SentInv'
<1>1. \A h : Intact(h) => Holds(h, log', buffer_')
  BY HoldsWrite DEF Write
<1>2. log' = log /\ message' = message
  BY DEF Write
<1>3. ASSUME NEW q \in Producers, pc'[q] \in {"push", "pushing"}
      PROVE  \A i \in Region(log[message[q]]) : buffer_'[i] = message[q]
  <2>1. CASE q = p
    <3>1. log[message[p]] = [offset |-> current[p], size |-> bytes[p]]
      BY DEF ArenaInv, Knows, Write, Goto
    <3>2. Region(log[message[p]]) \subseteq Bytes
      BY DEF Region
    <3> QED BY <2>1, <3>1, <3>2 DEF Write
  <2>2. CASE q # p
    <3>1. pc[q] = pc'[q]
      BY <2>2 DEF ArenaInv, Types, Write, Goto
    <3>2. message[q] \in 1 .. Len(log) /\ \A i \in Region(log[message[q]]) : buffer_[i] = message[q]
      BY Zenon, <3>1, <1>3 DEF ArenaInv, Knows, SentInv, Written
    <3> QED BY <3>2, WriteKeeps
  <2> QED BY <2>1, <2>2
<1> QED BY <1>1, <1>2, <1>3, FrameSent DEF Write

LEMMA PushSent ==
  ASSUME LengthsFit, ArenaInv, SentInv, NEW p \in Producers, PushMessage(p)
  PROVE  SentInv'
<1>1. PICK x \in Handles : queue_!Becomes(p, "idle", "push", x) /\ queue' = queue
  BY DEF PushMessage, queue_!StartPush
<1>2. UNCHANGED <<log, buffer_, message, received>>
  BY DEF PushMessage, arena
<1>3. /\ value'[p] = x /\ phase'[p] = "push"
      /\ \A u \in (Producers \cup Consumers) \ {p} : phase'[u] = phase[u] /\ value'[u] = value[u]
  BY <1>1, BecomesTypes
<1>4. pc[p] = "push" /\ \A q \in Producers : pc'[q] = IF q = p THEN "pushing" ELSE pc[q]
  BY DEF ArenaInv, Types, PushMessage, Goto
<1>5. Intact(x)
  <2>1. current[p] \in Nat /\ SizeMod \in Nat /\ ArenaSize \in Nat
    BY DEF ArenaInv, Types, LengthsFit
  <2>2. current[p] < ArenaSize /\ get_offset(current[p]) = current[p]
    BY <2>1 DEF PushMessage, get_offset
  <2>3. x = [offset |-> current[p], size |-> bytes[p]]
    BY Zenon, <1>3, <2>2 DEF PushMessage
  <2>4. message[p] \in 1 .. Len(log) /\ log[message[p]] = x
    BY <1>4, <2>3 DEF ArenaInv, Knows
  <2>5. \A i \in Region(x) : buffer_[i] = message[p]
    BY <1>4, <2>4 DEF SentInv, Written
  <2>6. x.offset < ArenaSize
    BY <2>2, <2>3
  <2> QED BY <2>4, <2>5, <2>6 DEF Intact, Holds
<1>6. \A h : Intact(h) <=> Intact(h)'
  BY <1>2 DEF Intact
<1>7. MessagesIntact'
  <2>1. \A k \in 1 .. Len(queue') : Holds(queue'[k], log', buffer_')
    BY <1>1, <1>2 DEF SentInv, MessagesIntact, Intact
  <2>2. \A c \in Consumers : phase'[c] = "popped" => Holds(value'[c], log', buffer_')
    BY <1>2, <1>3 DEF SentInv, MessagesIntact, Intact
  <2>3. \A h \in received' : Holds(h, log', buffer_')
    BY <1>2 DEF SentInv, MessagesIntact, Intact
  <2> QED BY <2>1, <2>2, <2>3 DEF MessagesIntact, Intact
<1>8. ASSUME NEW q \in Producers PROVE Written(q)'
  <2>1. pc'[q] \in {"push", "pushing"} => \A i \in Region(log'[message'[q]]) : buffer_'[i] = message'[q]
    BY <1>2, <1>4 DEF SentInv, Written
  <2>2. phase'[q] \in {"push", "pushed"} => Holds(value'[q], log', buffer_')
    BY <1>2, <1>3, <1>5 DEF SentInv, Written, Intact
  <2> QED BY <2>1, <2>2 DEF Written, Intact
<1> QED BY <1>7, <1>8 DEF SentInv

\* A step of a call on the queue brings in no handle that was not there.
LEMMA QueueSent ==
  ASSUME SentInv, UNCHANGED <<log, buffer_, message>>,
         \A q \in Producers : pc'[q] \in {"push", "pushing"} => pc[q] \in {"push", "pushing"},
         \A k \in 1 .. Len(queue') : Intact(queue'[k]),
         \A c \in Consumers : phase'[c] = "popped" => Intact(value'[c]),
         \A q \in Producers : phase'[q] \in {"push", "pushed"} => Intact(value'[q]),
         \A h \in received' : Intact(h)
  PROVE  SentInv'
<1>1. MessagesIntact'
  <2>1. \A k \in 1 .. Len(queue') : Holds(queue'[k], log', buffer_')
    BY DEF Intact
  <2>2. \A c \in Consumers : phase'[c] = "popped" => Holds(value'[c], log', buffer_')
    BY DEF Intact
  <2>3. \A h \in received' : Holds(h, log', buffer_')
    BY DEF Intact
  <2> QED BY <2>1, <2>2, <2>3 DEF MessagesIntact, Intact
<1>2. ASSUME NEW q \in Producers PROVE Written(q)'
  <2>1. pc'[q] \in {"push", "pushing"} => \A i \in Region(log'[message'[q]]) : buffer_'[i] = message'[q]
    BY DEF SentInv, Written
  <2>2. phase'[q] \in {"push", "pushed"} => Holds(value'[q], log', buffer_')
    BY DEF Intact
  <2> QED BY <2>1, <2>2 DEF Written, Intact
<1> QED BY <1>1, <1>2 DEF SentInv

LEMMA PushStepSent ==
  ASSUME ArenaInv, SentInv, NEW p \in Producers, PushStep(p)
  PROVE  SentInv'
<1>1. UNCHANGED <<log, buffer_, message, received>>
  BY DEF PushStep, arena
<1>2. \A q \in Producers : pc'[q] \in {"push", "pushing"} => pc[q] \in {"push", "pushing"}
  BY DEF ArenaInv, Types, PushStep, Goto
<1>3. \A h \in received' : Intact(h)
  BY Zenon, <1>1 DEF SentInv, MessagesIntact
<1>4. ASSUME NEW to \in {"idle", "pushed"}, NEW from, NEW x \in Handles \cup {NoHandle},
             queue_!Becomes(p, from, to, x), to = "pushed" => Intact(x)
      PROVE  /\ \A c \in Consumers : phase'[c] = "popped" => Intact(value'[c])
             /\ \A q \in Producers : phase'[q] \in {"push", "pushed"} => Intact(value'[q])
  <2>1. /\ phase'[p] = to /\ value'[p] = x
        /\ \A u \in (Producers \cup Consumers) \ {p} : phase'[u] = phase[u] /\ value'[u] = value[u]
    BY <1>4, BecomesTypes
  <2>2. \A c \in Consumers : phase'[c] = "popped" => Intact(value'[c])
    BY <2>1, <1>4 DEF SentInv, MessagesIntact
  <2>3. \A q \in Producers : phase'[q] \in {"push", "pushed"} => Intact(value'[q])
    BY <2>1, <1>4 DEF SentInv, Written
  <2> QED BY <2>2, <2>3
<1>5. CASE queue_!Push(p)
  <2>1. /\ queue \in Seq(Handles) /\ value[p] \in Handles /\ queue' = Append(queue, value[p])
        /\ phase[p] = "push" /\ queue_!Becomes(p, "push", "pushed", value[p])
    BY <1>5 DEF ArenaInv, Types, queue_!Push, queue_!Becomes
  <2>2. Intact(value[p])
    BY <2>1 DEF SentInv, Written
  <2>3. ASSUME NEW k \in 1 .. Len(queue') PROVE Intact(queue'[k])
    <3>1. queue'[k] = IF k = Len(queue) + 1 THEN value[p] ELSE queue[k]
      BY <2>1
    <3>2. k = Len(queue) + 1 \/ k \in 1 .. Len(queue)
      BY <2>1
    <3>3. Len(queue) + 1 \notin 1 .. Len(queue)
      BY <2>1
    <3> QED BY <3>1, <3>2, <3>3, <2>2 DEF SentInv, MessagesIntact
  <2>4. /\ \A c \in Consumers : phase'[c] = "popped" => Intact(value'[c])
        /\ \A q \in Producers : phase'[q] \in {"push", "pushed"} => Intact(value'[q])
    BY <2>1, <2>2, <1>4
  <2> QED BY <1>1, <1>2, <1>3, <2>3, <2>4, QueueSent
<1>6. CASE queue_!RefusePush(p) \/ (queue_!EndPush(p) /\ phase'[p] = "idle")
  <2>1. queue' = queue /\ \E from \in {"push", "pushed"} : queue_!Becomes(p, from, "idle", NoHandle)
    <3>1. CASE queue_!RefusePush(p)
      BY <3>1 DEF queue_!RefusePush
    <3>2. CASE queue_!EndPush(p) /\ phase'[p] = "idle"
      <4>1. \A x : ~queue_!Becomes(p, "pushed", "push", x)
        BY <3>2 DEF ArenaInv, Types, queue_!Becomes
      <4> QED BY <3>2, <4>1 DEF queue_!EndPush
    <3> QED BY <1>6, <3>1, <3>2
  <2>2. /\ \A c \in Consumers : phase'[c] = "popped" => Intact(value'[c])
        /\ \A q \in Producers : phase'[q] \in {"push", "pushed"} => Intact(value'[q])
    BY <2>1, <1>4
  <2>3. \A k \in 1 .. Len(queue') : Intact(queue'[k])
    BY <2>1 DEF SentInv, MessagesIntact
  <2> QED BY <1>1, <1>2, <1>3, <2>2, <2>3, QueueSent
<1> QED BY <1>5, <1>6 DEF PushStep

LEMMA PopSent ==
  ASSUME ArenaInv, SentInv, NEW c \in Consumers, Consume(c)
  PROVE  SentInv'
<1>1. UNCHANGED <<log, buffer_, message, pc>>
  BY Zenon DEF Consume, PopMessage, PopReturn, arena, locals
<1>2. ASSUME NEW to \in {"idle", "pop", "popped"}, NEW from, NEW x \in Handles \cup {NoHandle},
             queue_!Becomes(c, from, to, x), to = "popped" => Intact(x)
      PROVE  /\ \A d \in Consumers : phase'[d] = "popped" => Intact(value'[d])
             /\ \A q \in Producers : phase'[q] \in {"push", "pushed"} => Intact(value'[q])
  <2>1. /\ phase'[c] = to /\ value'[c] = x
        /\ \A u \in (Producers \cup Consumers) \ {c} : phase'[u] = phase[u] /\ value'[u] = value[u]
    BY <1>2, BecomesTypes
  <2>2. \A d \in Consumers : phase'[d] = "popped" => Intact(value'[d])
    BY <2>1, <1>2 DEF SentInv, MessagesIntact
  <2>3. \A q \in Producers : phase'[q] \in {"push", "pushed"} => Intact(value'[q])
    BY <2>1, <1>2 DEF SentInv, Written
  <2> QED BY <2>2, <2>3
<1>3. CASE queue_!Pop(c) /\ received' = received
  <2>1. /\ queue \in Seq(Handles) /\ queue # <<>> /\ queue' = Tail(queue)
        /\ queue_!Becomes(c, "pop", "popped", Head(queue))
    BY <1>3 DEF ArenaInv, Types, queue_!Pop
  <2>2. Head(queue) = queue[1] /\ 1 \in 1 .. Len(queue) /\ Head(queue) \in Handles
    BY <2>1
  <2>3. Intact(Head(queue))
    BY <2>2 DEF SentInv, MessagesIntact
  <2>4. \A k \in 1 .. Len(queue') : queue'[k] = queue[k + 1] /\ k + 1 \in 1 .. Len(queue)
    BY <2>1
  <2>5. \A k \in 1 .. Len(queue') : Intact(queue'[k])
    BY <2>4 DEF SentInv, MessagesIntact
  <2>6. /\ \A d \in Consumers : phase'[d] = "popped" => Intact(value'[d])
        /\ \A q \in Producers : phase'[q] \in {"push", "pushed"} => Intact(value'[q])
    BY <2>1, <2>2, <2>3, <1>2
  <2>7. \A h \in received' : Intact(h)
    BY <1>3 DEF SentInv, MessagesIntact
  <2> QED BY <1>1, <2>5, <2>6, <2>7, QueueSent
<1>4. ASSUME NEW to \in {"idle", "pop"}, NEW from, queue_!Becomes(c, from, to, NoHandle),
             queue' = queue, \A h \in received' : Intact(h)
      PROVE  SentInv'
  <2>1. \A k \in 1 .. Len(queue') : Intact(queue'[k])
    BY <1>4 DEF SentInv, MessagesIntact
  <2>2. /\ \A d \in Consumers : phase'[d] = "popped" => Intact(value'[d])
        /\ \A q \in Producers : phase'[q] \in {"push", "pushed"} => Intact(value'[q])
    BY <1>4, <1>2
  <2> QED BY <1>1, <1>4, <2>1, <2>2, QueueSent
<1>5. CASE (queue_!StartPop(c) \/ queue_!RefusePop(c)) /\ received' = received
  <2>1. \A h \in received' : Intact(h)
    BY <1>5 DEF SentInv, MessagesIntact
  <2> QED BY <1>4, <1>5, <2>1 DEF queue_!StartPop, queue_!RefusePop
<1>6. CASE PopReturn(c)
  <2>1. phase[c] = "popped" /\ queue' = queue /\ \E to \in {"idle", "pop"} : queue_!Becomes(c, "popped", to, NoHandle)
    BY Zenon, <1>6 DEF PopReturn, queue_!EndPop, queue_!Becomes
  <2>2. \A h \in received' : Intact(h)
    BY <1>6, <2>1 DEF PopReturn, SentInv, MessagesIntact
  <2> QED BY <1>4, <2>1, <2>2
<1> QED BY <1>3, <1>5, <1>6 DEF Consume, PopMessage

-----------------------------------------------------------------------------
(* Theorems *)

LEMMA NextInv ==
  ASSUME LengthsFit, Inv, [Next]_vars
  PROVE  Inv'
<1>1. CASE UNCHANGED vars
  <2>1. ArenaInv'
    BY <1>1 DEF Inv, ArenaInv, Types, Ordered, Knows, vars, arena, locals
  <2>2. SentInv'
    BY Zenon, <1>1 DEF Inv, SentInv, MessagesIntact, Written, Intact, vars, arena, locals
  <2> QED BY <2>1, <2>2 DEF Inv
<1>2. ASSUME NEW p \in Producers, Produce(p) PROVE Inv'
  BY <1>2, LoadArena, RetryArena, CasArena, OtherArena, PushArena, PushStepArena,
     AllocateSent, CasSent, WriteSent, PushSent, PushStepSent DEF Inv, Produce
<1>3. ASSUME NEW c \in Consumers, Consume(c) PROVE Inv'
  BY <1>3, PopArena, PopSent DEF Inv
<1> QED BY <1>1, <1>2, <1>3 DEF Next

\* The inductive invariant holds in every reachable state.
THEOREM Invariance == ASSUME LengthsFit PROVE Spec => []Inv
<1>1. Init => Inv
  BY InitArena, InitSent DEF Inv
<1>2. Inv /\ [Next]_vars => Inv'
  BY NextInv
<1> QED BY <1>1, <1>2, PTL DEF Spec

\* allocate gives every message a part of the arena that no other message
\* has, with any number of threads in its compare-exchange loop.
THEOREM Disjointness == ASSUME LengthsFit PROVE Spec => []RegionsDisjoint
<1>1. Inv => RegionsDisjoint
  <2> SUFFICES ASSUME Inv, NEW j \in 1 .. Len(log)
               PROVE  /\ log[j].offset + log[j].size <= ArenaSize
                      /\ \A k \in 1 .. Len(log) : j # k => Region(log[j]) \cap Region(log[k]) = {}
    BY Zenon DEF RegionsDisjoint
  <2>1. log[j].offset \in Nat /\ log[j].size \in Nat
    <3>1. log[j] \in HandleTypes
      BY DEF Inv, ArenaInv, Types
    <3> QED BY Zenon, <3>1 DEF HandleTypes, LengthsFit
  <2>2. log[j].offset + log[j].size <= write_offset_ /\ write_offset_ \in 0 .. ArenaSize
    BY Zenon DEF Inv, ArenaInv, Types, Ordered
  <2>3. log[j].offset + log[j].size <= ArenaSize
    BY <2>1, <2>2 DEF LengthsFit
  <2> QED BY <2>3, RegionsApart DEF Inv
<1> QED BY <1>1, Invariance, PTL

\* A handle that push_message has put into the queue, or pop_message has
\* taken out of it, names bytes that hold the message and that no later
\* allocation or write touches.
THEOREM Integrity == ASSUME LengthsFit PROVE Spec => []MessagesIntact
<1>1. Inv => MessagesIntact
  BY DEF Inv, SentInv
<1> QED BY <1>1, Invariance, PTL
=============================================================================
