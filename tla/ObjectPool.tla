----------------------------- MODULE ObjectPool -----------------------------
(***************************************************************************)
(* LockFreeObjectPool<T> of include/lockless/object_pool.hpp, with clients *)
(* that acquire and release objects.  free_indices_ is an                  *)
(* ArrayLockFreeStack; it is used here through what that stack promises,   *)
(* BoundedStack, which ArrayStack implements.                              *)
(*                                                                         *)
(* A pointer to an object is modelled by its index.  release returns at    *)
(* once when it is given a null pointer or one outside pool_storage_.      *)
(***************************************************************************)
EXTENDS Naturals, Sequences

CONSTANTS
  Threads,
  capacity_,
  NoIndex    \* not an index of the pool

VARIABLES
  stack, phase, value,  \* free_indices_ and the calls on it
  held,                 \* client: the objects each thread has acquired
  misused               \* history: has a thread released what it did not hold?

vars == <<stack, phase, value, held, misused>>

Indices == 0 .. capacity_ - 1

free_indices_ == INSTANCE BoundedStack WITH
  Items <- Indices, NoItem <- NoIndex, Capacity <- capacity_

\* The constructor pushes the indices one by one.
Init ==
  /\ stack = [k \in 1 .. capacity_ |-> capacity_ - k]
  /\ phase = [t \in Threads |-> "idle"]
  /\ value = [t \in Threads |-> NoIndex]
  /\ held = [t \in Threads |-> {}]
  /\ misused = FALSE

AcquireCall(t) == free_indices_!StartPop(t) /\ UNCHANGED <<held, misused>>

AcquirePop(t) ==
  /\ free_indices_!Pop(t) \/ free_indices_!RefusePop(t)
  /\ UNCHANGED <<held, misused>>

AcquireReturn(t) ==
  /\ free_indices_!EndPop(t)
  /\ held' = [held EXCEPT ![t] = @ \cup {value[t]}]
  /\ UNCHANGED misused

\* Mutant: the last object counts as one outside the pool.
ReleaseCall_OffByOne(t) ==
  \/ /\ free_indices_!StartPush(t) /\ value'[t] # capacity_ - 1
     /\ held' = [held EXCEPT ![t] = @ \ {value'[t]}]
     /\ misused' = (misused \/ value'[t] \notin held[t])
  \/ /\ phase[t] = "idle" /\ capacity_ - 1 \in held[t]
     /\ held' = [held EXCEPT ![t] = @ \ {capacity_ - 1}]
     /\ UNCHANGED <<stack, phase, value, misused>>

\* Nothing in the code stops a client that releases an object twice.
ReleaseCall(t) ==
  /\ free_indices_!StartPush(t)
  /\ held' = [held EXCEPT ![t] = @ \ {value'[t]}]
  /\ misused' = (misused \/ value'[t] \notin held[t])

\* The result of try_push is ignored: when it is false, the index is gone.
ReleasePush(t) ==
  /\ free_indices_!Push(t) \/ free_indices_!RefusePush(t)
  /\ UNCHANGED <<held, misused>>

Next == \E t \in Threads :
  \/ AcquireCall(t) \/ AcquirePop(t) \/ AcquireReturn(t)
  \/ ReleaseCall(t) \/ ReleasePush(t)

Spec == Init /\ [][Next]_vars

-----------------------------------------------------------------------------
\* As long as every thread releases only what it holds, every object is at
\* one place: free, held by one thread, or on its way in one call.  So no two
\* threads are given one object, and the try_push in release, whose result is
\* ignored, never loses one, however many calls are under way.
ObjectsPlacedOnce ==
  ~misused =>
    \A i \in Indices :
      LET places == {<<"free", k>> : k \in {n \in 1 .. Len(stack) : stack[n] = i}} \cup
                    {<<"held", t>> : t \in {u \in Threads : i \in held[u]}} \cup
                    {<<"call", t>> : t \in {u \in Threads : value[u] = i}}
      IN  \E p \in places : places = {p}
=============================================================================
