---------------------------- MODULE BoundedStack ----------------------------
(***************************************************************************)
(* What a bounded concurrent stack promises.  Every call takes effect at   *)
(* one instant between its start and its return; the item that entered     *)
(* last leaves first.  A pop is refused only when the stack is empty.  A   *)
(* push is refused only when the stack is full, counting the calls that    *)
(* are under way as items.                                                 *)
(***************************************************************************)
EXTENDS Naturals, Sequences, FiniteSets

CONSTANTS Threads, Items, NoItem, Capacity

VARIABLES
  stack,   \* the items, the last one to enter first
  phase,   \* how far each thread's call has come
  value    \* the item each thread's call pushes or has popped

vars == <<stack, phase, value>>

Init ==
  /\ stack = <<>>
  /\ phase = [t \in Threads |-> "idle"]
  /\ value = [t \in Threads |-> NoItem]

Becomes(t, from, to, x) ==
  /\ phase[t] = from
  /\ phase' = [phase EXCEPT ![t] = to]
  /\ value' = [value EXCEPT ![t] = x]

StartPush(t) == \E x \in Items : Becomes(t, "idle", "push", x) /\ UNCHANGED stack

Push(t) ==
  /\ Len(stack) < Capacity
  /\ stack' = <<value[t]>> \o stack
  /\ Becomes(t, "push", "idle", NoItem)

RefusePush(t) ==
  /\ Len(stack) + Cardinality({u \in Threads \ {t} : phase[u] \in {"push", "popped"}})
       >= Capacity
  /\ Becomes(t, "push", "idle", NoItem)
  /\ UNCHANGED stack

StartPop(t) == Becomes(t, "idle", "pop", NoItem) /\ UNCHANGED stack

Pop(t) ==
  /\ stack # <<>>
  /\ stack' = Tail(stack)
  /\ Becomes(t, "pop", "popped", Head(stack))

RefusePop(t) ==
  /\ stack = <<>>
  /\ Becomes(t, "pop", "idle", NoItem)
  /\ UNCHANGED stack

EndPop(t) == Becomes(t, "popped", "idle", NoItem) /\ UNCHANGED stack

Next == \E t \in Threads :
  \/ StartPush(t) \/ Push(t) \/ RefusePush(t)
  \/ StartPop(t) \/ Pop(t) \/ RefusePop(t) \/ EndPop(t)

Spec == Init /\ [][Next]_vars
=============================================================================
