---------------------------- MODULE MessageQueue ----------------------------
(***************************************************************************)
(* SharedMemoryArena and ZeroCopyQueue of include/lockless/                *)
(* message_queue.hpp, with the clients of tests/test_message_queue.cpp:    *)
(* producers prepare a message, write it and push it until the push is     *)
(* accepted, consumers pop and look at the data.  queue_ is a RingBuffer;  *)
(* it is used here through what it promises, an inexact BoundedQueue,      *)
(* which RingBuffer implements.                                            *)
(*                                                                         *)
(* One step is one access to write_offset_, the writing of one message, or *)
(* a step of the queue.  Pointers into the arena are offsets.              *)
(***************************************************************************)
EXTENDS Naturals, Sequences

CONSTANTS
  Producers, Consumers,
  Lengths,       \* the sizes that clients ask for
  ArenaSize, QueueSize,
  SizeMod,       \* the number of values of size_t, 2^64 in the code
  NoHandle,
  MaxMessages    \* bound: no message is begun once so many have been allocated

VARIABLES
  queue, phase, value,  \* queue_ and the calls on it
  write_offset_,
  buffer_,              \* which message wrote each byte last, 0 for none
  pc,                   \* what each producer does next
  current,              \* current of allocate, then the pointer it returned
  bytes,                \* the size the producer has asked for
  message,              \* the number of the message that the producer writes
  log,                  \* history: the handle of every allocated message
  received              \* history: the handles that consumers have popped

arena == <<write_offset_, buffer_, log>>
locals == <<pc, current, bytes, message>>
vars == <<queue, phase, value, arena, locals, received>>

Bytes == 0 .. ArenaSize - 1
Handles == [offset : Bytes, size : Lengths]
SIZE_MAX == SizeMod - 1

\* Every size leaves room for the sum in allocate, whose overflow the code
\* does not detect.
LengthsFit ==
  /\ ArenaSize \in Nat /\ SizeMod \in Nat /\ Lengths \subseteq Nat
  /\ \A n \in Lengths : ArenaSize + n < SizeMod

queue_ == INSTANCE BoundedQueue WITH
  Items <- Handles, NoItem <- NoHandle, Capacity <- QueueSize, Exact <- FALSE

Init ==
  /\ queue_!Init
  /\ write_offset_ = 0
  /\ buffer_ = [i \in Bytes |-> 0]
  /\ pc = [p \in Producers |-> "idle"]
  /\ current = [p \in Producers |-> 0]
  /\ bytes = [p \in Producers |-> 0]
  /\ message = [p \in Producers |-> 0]
  /\ log = <<>> /\ received = {}

Goto(p, from, to) == pc[p] = from /\ pc' = [pc EXCEPT ![p] = to]

-----------------------------------------------------------------------------
(* prepare_message, which is allocate *)

\* The relaxed load may return any value that write_offset_ has had.
AllocateLoad(p) ==
  /\ Len(log) < MaxMessages
  /\ Goto(p, "idle", "allocate")
  /\ \E n \in Lengths : bytes' = [bytes EXCEPT ![p] = n]
  /\ \E v \in {write_offset_} \cup {log[k].offset : k \in 1 .. Len(log)} :
       current' = [current EXCEPT ![p] = v]
  /\ UNCHANGED <<queue, phase, value, arena, message, received>>

End(p) == (current[p] + bytes[p]) % SizeMod

\* "Arena full" is thrown; the client goes on without this message.
AllocateThrow(p) ==
  /\ End(p) > ArenaSize
  /\ Goto(p, "allocate", "idle")
  /\ UNCHANGED <<queue, phase, value, arena, current, bytes, message, received>>

\* Mutant: the offset is stored without being compared.
AllocateCas_Store(p) ==
  /\ End(p) <= ArenaSize
  /\ Goto(p, "allocate", "write")
  /\ write_offset_' = End(p)
  /\ log' = Append(log, [offset |-> current[p], size |-> bytes[p]])
  /\ message' = [message EXCEPT ![p] = Len(log) + 1]
  /\ UNCHANGED <<queue, phase, value, buffer_, current, bytes, received>>

AllocateCas(p) ==
  /\ End(p) <= ArenaSize
  /\ write_offset_ = current[p]
  /\ Goto(p, "allocate", "write")
  /\ write_offset_' = End(p)
  /\ log' = Append(log, [offset |-> current[p], size |-> bytes[p]])
  /\ message' = [message EXCEPT ![p] = Len(log) + 1]
  /\ UNCHANGED <<queue, phase, value, buffer_, current, bytes, received>>

\* A failure although the values are equal leaves everything as it was.
AllocateRetry(p) ==
  /\ pc[p] = "allocate" /\ End(p) <= ArenaSize
  /\ write_offset_ # current[p]
  /\ current' = [current EXCEPT ![p] = write_offset_]
  /\ UNCHANGED <<queue, phase, value, arena, pc, bytes, message, received>>

-----------------------------------------------------------------------------
Region(h) == {i \in Bytes : h.offset <= i /\ i < h.offset + h.size}

\* Client: write the message to the space it was given.
Write(p) ==
  /\ Goto(p, "write", "push")
  /\ buffer_' = [i \in Bytes |->
       IF i \in Region([offset |-> current[p], size |-> bytes[p]]) THEN message[p] ELSE buffer_[i]]
  /\ UNCHANGED <<queue, phase, value, write_offset_, log, current, bytes, message, received>>

get_offset(p) == IF p < ArenaSize THEN p ELSE SIZE_MAX

\* Mutant: the pointer is compared with the wrong end of the arena.
PushMessage_ShortArena(p) ==
  /\ current[p] < ArenaSize - 1
  /\ Goto(p, "push", "pushing")
  /\ queue_!StartPush(p)
  /\ value'[p] = [offset |-> current[p], size |-> bytes[p]]
  /\ UNCHANGED <<arena, current, bytes, message, received>>

\* The call is refused, and the client repeats it, if the pointer is at the
\* end of the arena: what allocate returns for 0 bytes when it is full.
PushMessage(p) ==
  /\ get_offset(current[p]) # SIZE_MAX
  /\ Goto(p, "push", "pushing")
  /\ queue_!StartPush(p)
  /\ value'[p] = [offset |-> get_offset(current[p]), size |-> bytes[p]]
  /\ UNCHANGED <<arena, current, bytes, message, received>>

\* Client: a refused push is tried again.
PushStep(p) ==
  /\ \/ queue_!Push(p) /\ UNCHANGED pc
     \/ queue_!RefusePush(p) /\ Goto(p, "pushing", "push")
     \/ queue_!EndPush(p) /\ phase'[p] = "idle" /\ Goto(p, "pushing", "idle")
  /\ UNCHANGED <<arena, current, bytes, message, received>>

\* pop_message, which a client repeats when it is refused.
PopMessage(c) ==
  /\ queue_!StartPop(c) \/ queue_!Pop(c) \/ queue_!RefusePop(c)
  /\ UNCHANGED <<arena, locals, received>>

\* The consumer has the handle and may look at its data from now on.
PopReturn(c) ==
  /\ queue_!EndPop(c) /\ phase'[c] = "idle"
  /\ received' = received \cup {value[c]}
  /\ UNCHANGED <<arena, locals>>

-----------------------------------------------------------------------------
Produce(p) ==
  \/ AllocateLoad(p) \/ AllocateThrow(p) \/ AllocateCas(p) \/ AllocateRetry(p)
  \/ Write(p) \/ PushMessage(p) \/ PushStep(p)
Consume(c) == PopMessage(c) \/ PopReturn(c)

Next == (\E p \in Producers : Produce(p)) \/ (\E c \in Consumers : Consume(c))

Spec == Init /\ [][Next]_vars

-----------------------------------------------------------------------------
(* Properties *)

\* What allocate hands out lies within the arena, and no two messages share a
\* byte, whatever the threads had loaded before their compare-exchange.
RegionsDisjoint ==
  \A j \in 1 .. Len(log) :
    /\ log[j].offset + log[j].size <= ArenaSize
    /\ \A k \in 1 .. Len(log) : j # k => Region(log[j]) \cap Region(log[k]) = {}

\* The handle names a place in the arena, whose bytes hold one message.
Holds(h, handles, data) ==
  /\ h.offset < ArenaSize
  /\ \E k \in 1 .. Len(handles) : handles[k] = h /\ \A i \in Region(h) : data[i] = k
Intact(h) == Holds(h, log, buffer_)

\* A handle that is in the queue or has come out of it names bytes of the
\* arena that all hold what the producer of one message wrote, and go on
\* holding it: get_message_data is never null, and nobody overwrites a
\* message that was sent.
MessagesIntact ==
  /\ \A k \in 1 .. Len(queue) : Intact(queue[k])
  /\ \A c \in Consumers : phase[c] = "popped" => Intact(value[c])
  /\ \A h \in received : Intact(h)

\* Every message that has been given space reaches a consumer, also one that
\* a full queue has refused.  Only a message of no bytes may be refused for
\* ever.
MessagesArrive ==
  <>[](\A k \in 1 .. Len(log) : log[k].size > 0 => log[k] \in received)
=============================================================================
