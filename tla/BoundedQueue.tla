---------------------------- MODULE BoundedQueue ----------------------------
(***************************************************************************)
(* What a bounded multi-producer multi-consumer queue promises.  Every     *)
(* call takes effect at one instant between its start and its return; the  *)
(* items leave in the order in which they entered.  A push is refused only *)
(* when the queue is full and a pop only when it is empty, except that an  *)
(* inexact queue may also refuse a push while a pop that took effect has   *)
(* not returned, and a pop while such a push has not returned.             *)
(***************************************************************************)
EXTENDS Naturals, Sequences

CONSTANTS Producers, Consumers, Items, NoItem, Capacity, Exact

VARIABLES
  queue,   \* the items that entered and have not left
  phase,   \* how far each thread's call has come
  value    \* the item each thread's call pushes or has popped

vars == <<queue, phase, value>>

Threads == Producers \cup Consumers

Init ==
  /\ queue = <<>>
  /\ phase = [t \in Threads |-> "idle"]
  /\ value = [t \in Threads |-> NoItem]

Becomes(t, from, to, x) ==
  /\ phase[t] = from
  /\ phase' = [phase EXCEPT ![t] = to]
  /\ value' = [value EXCEPT ![t] = x]

StartPush(t) == \E x \in Items : Becomes(t, "idle", "push", x) /\ UNCHANGED queue

Push(t) ==
  /\ Len(queue) < Capacity
  /\ Becomes(t, "push", "pushed", value[t])
  /\ queue' = Append(queue, value[t])

RefusePush(t) ==
  /\ Len(queue) = Capacity \/ (~Exact /\ \E u \in Consumers : phase[u] = "popped")
  /\ Becomes(t, "push", "idle", NoItem)
  /\ UNCHANGED queue

\* A push of a batch may be followed at once by the next one.
EndPush(t) ==
  /\ \/ Becomes(t, "pushed", "idle", NoItem)
     \/ \E x \in Items : Becomes(t, "pushed", "push", x)
  /\ UNCHANGED queue

StartPop(t) == Becomes(t, "idle", "pop", NoItem) /\ UNCHANGED queue

Pop(t) ==
  /\ queue # <<>>
  /\ Becomes(t, "pop", "popped", Head(queue))
  /\ queue' = Tail(queue)

RefusePop(t) ==
  /\ queue = <<>> \/ (~Exact /\ \E u \in Producers : phase[u] = "pushed")
  /\ Becomes(t, "pop", "idle", NoItem)
  /\ UNCHANGED queue

EndPop(t) ==
  /\ \E to \in {"idle", "pop"} : Becomes(t, "popped", to, NoItem)
  /\ UNCHANGED queue

Next ==
  \/ \E t \in Producers : StartPush(t) \/ Push(t) \/ RefusePush(t) \/ EndPush(t)
  \/ \E t \in Consumers : StartPop(t) \/ Pop(t) \/ RefusePop(t) \/ EndPop(t)

Spec == Init /\ [][Next]_vars
=============================================================================
