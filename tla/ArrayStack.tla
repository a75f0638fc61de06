----------------------------- MODULE ArrayStack -----------------------------
(***************************************************************************)
(* ArrayLockFreeStack<T> of include/lockless/array_stack.hpp: a stack and  *)
(* a list of free nodes, both linked through the next fields of one array. *)
(* try_push takes a node from the free list and puts it on the data list,  *)
(* try_pop does the opposite, each with pop_index and push_index.          *)
(*                                                                         *)
(* One step is one access to shared memory.  The heads change only by      *)
(* compare-exchange, so every acquire load of a head synchronises with all *)
(* earlier releases of it.  A load that returned an older head could only  *)
(* make the compare-exchange fail, or find a list empty that was empty     *)
(* before.  Loads return the current value here.                           *)
(***************************************************************************)
EXTENDS Naturals, Sequences

CONSTANTS
  Threads,
  Items,       \* the values that may be pushed
  NoItem,      \* what an unwritten node holds
  Capacity,    \* the number of nodes
  NULL_INDEX,  \* the index that ends a list
  TagMod       \* the number of tags, 2^32 in the code

ASSUME ArrayStackAssumption ==
  /\ NoItem \notin Items
  /\ Capacity \in Nat \ {0}
  /\ NULL_INDEX \notin 0 .. Capacity - 1
  /\ TagMod \in Nat /\ TagMod >= 2

VARIABLES
  head,    \* head_ ("data") and free_head_ ("free"): an index and a tag
  next,    \* the next field of each node
  data,    \* the data field of each node
  pc,      \* what each thread does next
  op,      \* "push" in try_push, "pop" in try_pop
  old,     \* old_head of pop_index and push_index
  nextIdx, \* next_idx of pop_index
  node,    \* node_idx of try_push and try_pop
  item,    \* the value being pushed, or the result
  chain    \* history: the nodes of each list, from the head on

shared == <<head, next, data, chain>>
vars == <<head, next, data, pc, op, old, nextIdx, node, item, chain>>

Nodes == 0 .. Capacity - 1
Lists == {"data", "free"}

\* No thread holds these between two calls.
NoHead == [index |-> NULL_INDEX, tag |-> 0]

\* The list a call takes its node from, and the one it puts it on.
Source(t) == IF op[t] = "push" THEN "free" ELSE "data"
Target(t) == IF op[t] = "push" THEN "data" ELSE "free"

Init ==
  /\ head = [l \in Lists |-> IF l = "free" THEN [index |-> 0, tag |-> 0] ELSE NoHead]
  /\ next = [n \in Nodes |-> IF n = Capacity - 1 THEN NULL_INDEX ELSE n + 1]
  /\ data = [n \in Nodes |-> NoItem]
  /\ pc = [t \in Threads |-> "idle"]
  /\ op = [t \in Threads |-> "none"]
  /\ old = [t \in Threads |-> NoHead]
  /\ nextIdx = [t \in Threads |-> NULL_INDEX]
  /\ node = [t \in Threads |-> NULL_INDEX]
  /\ item = [t \in Threads |-> NoItem]
  /\ chain = [l \in Lists |-> IF l = "free" THEN [k \in 1 .. Capacity |-> k - 1] ELSE <<>>]

Goto(t, from, to) == pc[t] = from /\ pc' = [pc EXCEPT ![t] = to]

\* The locals of a call go out of scope when it returns.
Return(t, from) ==
  /\ Goto(t, from, "idle")
  /\ op' = [op EXCEPT ![t] = "none"]
  /\ old' = [old EXCEPT ![t] = NoHead]
  /\ nextIdx' = [nextIdx EXCEPT ![t] = NULL_INDEX]
  /\ node' = [node EXCEPT ![t] = NULL_INDEX]
  /\ item' = [item EXCEPT ![t] = NoItem]

\* The thread is between the load of head[l] and the compare-exchange, and
\* all tags but its own have been used since.
Overtaken(t, l) ==
  /\ \/ pc[t] \in {"pop_next", "pop_cas"} /\ Source(t) = l
     \/ pc[t] \in {"push_next", "push_cas"} /\ Target(t) = l
  /\ (head[l].tag + 1) % TagMod = old[t].tag

\* Mutant: only the index is compared.
Cas_IgnoresTag(t, l, i) ==
  /\ head[l].index = old[t].index
  /\ \A u \in Threads \ {t} : ~Overtaken(u, l)
  /\ head' = [head EXCEPT ![l] = [index |-> i, tag |-> (old[t].tag + 1) % TagMod]]

\* Mutant: the tag is wider than its field.
Cas_NoWrap(t, l, i) ==
  /\ head[l] = old[t]
  /\ head' = [head EXCEPT ![l] = [index |-> i, tag |-> old[t].tag + 1]]

\* compare_exchange of head[l] from what t loaded to index i with the next
\* tag.  Assumed of the scheduler: no other thread is suspended for so long
\* that its tag would come round again.
Cas(t, l, i) ==
  /\ head[l] = old[t]
  /\ \A u \in Threads \ {t} : ~Overtaken(u, l)
  /\ head' = [head EXCEPT ![l] = [index |-> i, tag |-> (old[t].tag + 1) % TagMod]]

-----------------------------------------------------------------------------
PushCall(t) ==
  /\ Goto(t, "idle", "pop_load")
  /\ op' = [op EXCEPT ![t] = "push"]
  /\ \E x \in Items : item' = [item EXCEPT ![t] = x]
  /\ UNCHANGED <<shared, old, nextIdx, node>>

PopCall(t) ==
  /\ Goto(t, "idle", "pop_load")
  /\ op' = [op EXCEPT ![t] = "pop"]
  /\ UNCHANGED <<shared, old, nextIdx, node, item>>

-----------------------------------------------------------------------------
(* pop_index(Source(t)) *)

\* old_head is set by the load or by a failed compare-exchange, which may be
\* a spurious failure.  With NULL_INDEX the whole call returns false.
PopIndexSees(t, from) ==
  \/ /\ head[Source(t)].index # NULL_INDEX
     /\ Goto(t, from, "pop_next")
     /\ old' = [old EXCEPT ![t] = head[Source(t)]]
     /\ nextIdx' = [nextIdx EXCEPT ![t] = NULL_INDEX]
     /\ UNCHANGED <<op, node, item>>
  \/ /\ head[Source(t)].index = NULL_INDEX
     /\ Return(t, from)

PopIndexLoad(t) == PopIndexSees(t, "pop_load") /\ UNCHANGED shared

\* The node may have been popped, and pushed elsewhere, in the meantime.
PopIndexNext(t) ==
  /\ Goto(t, "pop_next", "pop_cas")
  /\ nextIdx' = [nextIdx EXCEPT ![t] = next[old[t].index]]
  /\ UNCHANGED <<shared, op, old, node, item>>

PopIndexCas(t) ==
  /\ Goto(t, "pop_cas", "access")
  /\ Cas(t, Source(t), nextIdx[t])
  /\ node' = [node EXCEPT ![t] = old[t].index]
  /\ chain' = [chain EXCEPT ![Source(t)] = SubSeq(@, 2, Len(@))]
  /\ old' = [old EXCEPT ![t] = NoHead]
  /\ nextIdx' = [nextIdx EXCEPT ![t] = NULL_INDEX]
  /\ UNCHANGED <<next, data, op, item>>

\* Mutant: a lost race is reported as an empty stack.
PopIndexCasFail_GivesUp(t) == Return(t, "pop_cas") /\ UNCHANGED shared

PopIndexCasFail(t) == PopIndexSees(t, "pop_cas") /\ UNCHANGED shared

-----------------------------------------------------------------------------
\* Write the value to the node, or read the result from it.
Access(t) ==
  /\ Goto(t, "access", "push_load")
  /\ \/ /\ op[t] = "push"
        /\ data' = [data EXCEPT ![node[t]] = item[t]]
        /\ UNCHANGED item
     \/ /\ op[t] = "pop"
        /\ item' = [item EXCEPT ![t] = data[node[t]]]
        /\ UNCHANGED data
  /\ UNCHANGED <<head, next, chain, op, old, nextIdx, node>>

-----------------------------------------------------------------------------
(* push_index(Target(t), node[t]) *)

PushIndexSees(t, from) ==
  /\ Goto(t, from, "push_next")
  /\ old' = [old EXCEPT ![t] = head[Target(t)]]
  /\ UNCHANGED <<shared, op, nextIdx, node, item>>

PushIndexLoad(t) == PushIndexSees(t, "push_load")

PushIndexNext(t) ==
  /\ Goto(t, "push_next", "push_cas")
  /\ next' = [next EXCEPT ![node[t]] = old[t].index]
  /\ UNCHANGED <<head, data, chain, op, old, nextIdx, node, item>>

\* On success the call returns true.
PushIndexCas(t) ==
  /\ Return(t, "push_cas")
  /\ Cas(t, Target(t), node[t])
  /\ chain' = [chain EXCEPT ![Target(t)] = <<node[t]>> \o @]
  /\ UNCHANGED <<next, data>>

\* Mutant: a failed compare-exchange does not link the node again.
PushIndexCasFail_NoRelink(t) ==
  /\ pc[t] = "push_cas"
  /\ old' = [old EXCEPT ![t] = head[Target(t)]]
  /\ UNCHANGED <<shared, pc, op, nextIdx, node, item>>

PushIndexCasFail(t) == PushIndexSees(t, "push_cas")

-----------------------------------------------------------------------------
Step(t) ==
  \/ PopIndexLoad(t) \/ PopIndexNext(t) \/ PopIndexCas(t) \/ PopIndexCasFail(t)
  \/ Access(t)
  \/ PushIndexLoad(t) \/ PushIndexNext(t) \/ PushIndexCas(t) \/ PushIndexCasFail(t)

Next == \E t \in Threads : PushCall(t) \/ PopCall(t) \/ Step(t)

Spec == Init /\ [][Next]_vars

-----------------------------------------------------------------------------
(* Properties *)

HeadType == [index : Nodes \cup {NULL_INDEX}, tag : 0 .. TagMod - 1]
Labels == {"idle", "pop_load", "pop_next", "pop_cas", "access",
           "push_load", "push_next", "push_cas"}

\* pack and unpack lose nothing: indices are nodes or NULL_INDEX, and tags fit
\* their field.
TypeOK ==
  /\ head \in [Lists -> HeadType]
  /\ next \in [Nodes -> Nodes \cup {NULL_INDEX}]
  /\ data \in [Nodes -> Items \cup {NoItem}]
  /\ pc \in [Threads -> Labels]
  /\ op \in [Threads -> {"none", "push", "pop"}]
  /\ old \in [Threads -> HeadType]
  /\ nextIdx \in [Threads -> Nodes \cup {NULL_INDEX}]
  /\ node \in [Threads -> Nodes \cup {NULL_INDEX}]
  /\ item \in [Threads -> Items \cup {NoItem}]
  /\ chain \in [Lists -> Seq(Nodes)]

\* The next fields link the nodes of each list in their order: no node is
\* lost, no list runs into another one and none into a cycle.
Linked ==
  \A l \in Lists :
    LET nodes == chain[l] IN
    /\ head[l].index = IF nodes = <<>> THEN NULL_INDEX ELSE nodes[1]
    /\ \A k \in 1 .. Len(nodes) :
         next[nodes[k]] = IF k = Len(nodes) THEN NULL_INDEX ELSE nodes[k + 1]

Holds(t) == pc[t] \in {"access", "push_load", "push_next", "push_cas"}

\* Every node is at one place: once on one of the lists, or in the hands of
\* the one thread that may then access its data without synchronisation.
Partition ==
  \A n \in Nodes :
    LET places == {<<l, k>> \in Lists \X (1 .. Capacity) : k <= Len(chain[l]) /\ chain[l][k] = n}
        holders == {t \in Threads : Holds(t) /\ node[t] = n}
    IN  \/ holders = {} /\ \E p \in places : places = {p}
        \/ places = {} /\ \E t \in holders : holders = {t}

\* The stack seen as a BoundedStack.  A push takes effect when it puts its
\* node on the data list, a pop when it takes one from it.
Abstract == INSTANCE BoundedStack WITH
  stack <- [k \in 1 .. Len(chain["data"]) |-> data[chain["data"][k]]],
  phase <- [t \in Threads |->
              CASE op[t] = "push" -> "push"
                [] op[t] = "pop" /\ Holds(t) -> "popped"
                [] op[t] = "pop" /\ ~Holds(t) -> "pop"
                [] OTHER -> "idle"],
  value <- [t \in Threads |->
              IF op[t] = "pop" /\ pc[t] = "access" THEN data[node[t]] ELSE item[t]]

\* The code implements a bounded last-in first-out stack.
ImplementsStack == Abstract!Spec
=============================================================================
