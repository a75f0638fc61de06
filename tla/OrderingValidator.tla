-------------------------- MODULE OrderingValidator -------------------------
(***************************************************************************)
(* OrderingValidator and ScopedOperation of include/lockless/              *)
(* ordering_validator.hpp, with the client of                              *)
(* tests/test_ordering_validator.cpp: workers that push and pop through a  *)
(* RingBuffer and record each call.  The RingBuffer is used here through   *)
(* what it promises, an inexact BoundedQueue, which RingBuffer implements. *)
(*                                                                         *)
(* One step is one access to an atomic variable, one section under         *)
(* operations_mutex_, a reading of the clock, or a step of the queue.  The *)
(* clock is high_resolution_clock, of which the standard promises little:  *)
(* readings may be equal, and the clock may be set back.  Bound: this      *)
(* happens once, and the clock then stands still.  The thread_id of an     *)
(* entry is only printed and is left out.  The queue is large enough for   *)
(* every push.                                                             *)
(***************************************************************************)
EXTENDS Naturals, Sequences, FiniteSets

CONSTANTS
  Workers,
  Rounds,      \* how often each worker pushes and pops
  NoItem,
  MaxTime,     \* bound: the latest time of the clock
  UINT64_MAX   \* the id of an operation that is not recorded

VARIABLES
  queue, phase, value,  \* the queue under test and the calls on it
  operations_, recording_, operation_counter_,
  clock,                \* the last reading, later than the epoch it counts from
  set_back,             \* has the clock been set back?
  pc,                   \* what each worker does next
  done,                 \* client: how many operations the worker has finished
  op_id, start,         \* the id and the start time of its operation
  result,               \* success_ and result_ of its ScopedOperation
  lost,                 \* history: was the end of a recorded operation not recorded?
  misplaced             \* history: was an end recorded at an entry of the other type?

validator == <<operations_, recording_, operation_counter_>>
scope == <<op_id, start, result>>
time == <<clock, set_back>>
history == <<lost, misplaced>>
vars == <<queue, phase, value, validator, time, pc, done, scope, history>>

Items == Workers \X (0 .. Rounds - 1)

buffer == INSTANCE BoundedQueue WITH
  Producers <- Workers, Consumers <- Workers,
  Capacity <- Cardinality(Items), Exact <- FALSE

\* Pushes and pops take turns.
Type(w) == IF done[w] % 2 = 0 THEN "PUSH" ELSE "POP"
Pushed(w) == <<w, done[w] \div 2>>

Init ==
  /\ buffer!Init
  /\ operations_ = <<>> /\ recording_ = FALSE /\ operation_counter_ = 0
  /\ clock = 1 /\ set_back = FALSE
  /\ pc = [w \in Workers |-> "created"]
  /\ done = [w \in Workers |-> 0]
  /\ op_id = [w \in Workers |-> UINT64_MAX]
  /\ start = [w \in Workers |-> 0]
  /\ result = [w \in Workers |-> [success |-> FALSE, value |-> NoItem]]
  /\ lost = FALSE /\ misplaced = FALSE

Goto(w, from, to) == pc[w] = from /\ pc' = [pc EXCEPT ![w] = to]

\* A reading of the clock, which is clock'.
get_timestamp_ns ==
  /\ clock' \in (IF set_back THEN {clock} ELSE 1 .. MaxTime)
  /\ set_back' = (set_back \/ clock' < clock)

-----------------------------------------------------------------------------
(* The main thread *)

\* The recording is started before the workers are.
StartRecording ==
  /\ \A w \in Workers : pc[w] = "created"
  /\ recording_' = TRUE /\ operations_' = <<>> /\ operation_counter_' = 0
  /\ pc' = [w \in Workers |-> "idle"]
  /\ UNCHANGED <<queue, phase, value, time, done, scope, history>>

\* Nothing makes the caller wait for the workers.
StopRecording ==
  /\ recording_ /\ recording_' = FALSE
  /\ UNCHANGED <<queue, phase, value, operations_, operation_counter_, time, pc, done,
                 scope, history>>

-----------------------------------------------------------------------------
(* record_operation_start, called by the constructor of ScopedOperation *)

StartCheck(w) ==
  /\ done[w] < 2 * Rounds
  /\ Goto(w, "idle", IF recording_ THEN "draw" ELSE "call")
  /\ UNCHANGED <<queue, phase, value, validator, time, done, scope, history>>

\* Mutant: the counter is loaded and not incremented.
StartDraw_NoAdd(w) ==
  /\ Goto(w, "draw", "time")
  /\ op_id' = [op_id EXCEPT ![w] = operation_counter_]
  /\ UNCHANGED <<queue, phase, value, validator, time, done, start, result, history>>

StartDraw(w) ==
  /\ Goto(w, "draw", "time")
  /\ op_id' = [op_id EXCEPT ![w] = operation_counter_]
  /\ operation_counter_' = operation_counter_ + 1
  /\ UNCHANGED <<queue, phase, value, operations_, recording_, time, done, start, result,
                 history>>

\* The lock is not yet held.
StartTime(w) ==
  /\ Goto(w, "time", "append")
  /\ get_timestamp_ns /\ start' = [start EXCEPT ![w] = clock']
  /\ UNCHANGED <<queue, phase, value, validator, done, op_id, result, history>>

\* The operation is appended under the lock, whatever its id is.
StartAppend(w) ==
  /\ Goto(w, "append", "call")
  /\ operations_' = Append(operations_,
       [type |-> Type(w), start |-> start[w], end |-> 0,
        value |-> IF Type(w) = "PUSH" THEN Pushed(w) ELSE NoItem, success |-> FALSE])
  /\ start' = [start EXCEPT ![w] = 0]
  /\ UNCHANGED <<queue, phase, value, recording_, operation_counter_, time, done, op_id,
                 result, history>>

-----------------------------------------------------------------------------
(* The operation itself *)

Call(w) ==
  /\ Goto(w, "call", "called")
  /\ IF Type(w) = "PUSH" THEN buffer!StartPush(w) /\ value'[w] = Pushed(w) ELSE buffer!StartPop(w)
  /\ UNCHANGED <<validator, time, done, scope, history>>

TakeEffect(w) ==
  /\ buffer!Push(w) \/ buffer!Pop(w)
  /\ UNCHANGED <<validator, time, pc, done, scope, history>>

\* set_success and set_result.
Returned(w, res) ==
  /\ phase'[w] = "idle" /\ Goto(w, "called", "end")
  /\ result' = [result EXCEPT ![w] = res]
  /\ UNCHANGED <<validator, time, done, op_id, start, history>>

ReturnTrue(w) ==
  /\ buffer!EndPush(w) \/ buffer!EndPop(w)
  /\ Returned(w, [success |-> TRUE, value |-> value[w]])

ReturnFalse(w) ==
  /\ buffer!RefusePush(w) \/ buffer!RefusePop(w)
  /\ Returned(w, [success |-> FALSE, value |-> NoItem])

-----------------------------------------------------------------------------
(* record_operation_end, called by the destructor of ScopedOperation *)

Leave(w, from) ==
  /\ Goto(w, from, "idle")
  /\ done' = [done EXCEPT ![w] = @ + 1]
  /\ op_id' = [op_id EXCEPT ![w] = UINT64_MAX]
  /\ result' = [result EXCEPT ![w] = [success |-> FALSE, value |-> NoItem]]
  /\ UNCHANGED start

EndCheck(w) ==
  /\ \/ /\ op_id[w] # UINT64_MAX /\ recording_
        /\ Goto(w, "end", "finish") /\ UNCHANGED <<done, scope, lost>>
     \/ /\ op_id[w] = UINT64_MAX \/ ~recording_
        /\ Leave(w, "end") /\ lost' = (lost \/ op_id[w] # UINT64_MAX)
  /\ UNCHANGED <<queue, phase, value, validator, time, misplaced>>

\* The entry that record_operation_end finishes: the id is used as an index.
Entry(w) == op_id[w] + 1


\* Under the lock, the clock included.
EndWrite(w) ==
  /\ Leave(w, "finish")
  /\ Entry(w) \in DOMAIN operations_
  /\ get_timestamp_ns
  /\ operations_' = [operations_ EXCEPT ![Entry(w)].end = clock',
                                        ![Entry(w)].success = result[w].success,
                                        ![Entry(w)].value = result[w].value]
  /\ misplaced' = (misplaced \/ operations_[Entry(w)].type # Type(w))
  /\ UNCHANGED <<queue, phase, value, recording_, operation_counter_, lost>>

\* The id is too large: nothing is recorded.
EndDrop(w) ==
  /\ Leave(w, "finish")
  /\ Entry(w) \notin DOMAIN operations_
  /\ lost' = TRUE
  /\ UNCHANGED <<queue, phase, value, validator, time, misplaced>>

-----------------------------------------------------------------------------
Work(w) ==
  \/ StartCheck(w) \/ StartDraw(w) \/ StartTime(w) \/ StartAppend(w)
  \/ Call(w) \/ TakeEffect(w) \/ ReturnTrue(w) \/ ReturnFalse(w)
  \/ EndCheck(w) \/ EndWrite(w) \/ EndDrop(w)

Next == StartRecording \/ StopRecording \/ \E w \in Workers : Work(w)

Spec == Init /\ [][Next]_vars

-----------------------------------------------------------------------------
\* How many successful operations of a type have value v.
Count(type, v) == Cardinality({i \in DOMAIN operations_ :
  operations_[i].type = type /\ operations_[i].success /\ operations_[i].value = v})

\* No operation ended before it started, and no value was popped more often
\* than it was pushed.  The code goes on to sort the operations by their end
\* and to replay them on a stack, but returns true whatever the replay does, so
\* that the order of the operations does not matter.
check_sequential_consistency ==
  /\ \A i \in DOMAIN operations_ : operations_[i].end >= operations_[i].start
  /\ \A i \in DOMAIN operations_ :
       LET v == operations_[i].value IN Count("POP", v) <= Count("PUSH", v)

-----------------------------------------------------------------------------
(* Properties *)

\* Ids are drawn and entries are appended in different orders, so an end may
\* be recorded at another thread's entry.  Even then no two ends meet in one
\* entry: what record_operation_end has written is never overwritten.
FinishedOnce ==
  [][\A i \in DOMAIN operations_ : operations_[i].end # 0 => operations_'[i] = operations_[i]]_vars

=============================================================================
