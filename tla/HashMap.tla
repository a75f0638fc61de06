------------------------------ MODULE HashMap -------------------------------
(***************************************************************************)
(* LockFreeHashMap<K, V, Size> of include/lockless/hash_map.hpp: an open   *)
(* addressing table that is never resized and from which nothing is ever   *)
(* deleted.                                                                *)
(*                                                                         *)
(* One step is one access to shared memory.  The two insert overloads      *)
(* differ only in copying or moving key and value.  Loads return the       *)
(* current value.                                                          *)
(***************************************************************************)
EXTENDS Naturals, FiniteSets

CONSTANTS
  Threads, Keys, Values,
  None,    \* the key and the value of a node nobody has written
  Size,    \* the template parameter Size
  Hash     \* std::hash of each key

ASSUME HashMapAssumption ==
  /\ None \notin Keys \cup Values
  /\ Size \in Nat \ {0}
  /\ Hash \in [Keys -> Nat]

VARIABLES
  occupied, ready, key, value,  \* the fields of the nodes in buckets_
  pc,        \* what each thread does next
  k, v,      \* the arguments of its call
  i,         \* the number of buckets it has probed
  inserted,  \* history: how many inserts of each key have returned true
  found,     \* history: the values that finds of each key have returned
  claimed,   \* history: the arguments of the inserts that have got a bucket
  known      \* history: had an insert of k returned true when the call began?

nodes == <<occupied, ready, key, value>>
history == <<inserted, found, claimed>>
vars == <<nodes, pc, k, v, i, history, known>>

Buckets == 0 .. Size - 1

\* (idx + i) % Size
Bucket(x, n) == ((Hash[x] % Size) + n) % Size
Current(t) == Bucket(k[t], i[t])

Init ==
  /\ occupied = [b \in Buckets |-> FALSE]
  /\ ready = [b \in Buckets |-> FALSE]
  /\ key = [b \in Buckets |-> None]
  /\ value = [b \in Buckets |-> None]
  /\ pc = [t \in Threads |-> "idle"]
  /\ k = [t \in Threads |-> None]
  /\ v = [t \in Threads |-> None]
  /\ i = [t \in Threads |-> 0]
  /\ inserted = [x \in Keys |-> 0]
  /\ found = [x \in Keys |-> {}]
  /\ claimed = {}
  /\ known = [t \in Threads |-> FALSE]

Goto(t, from, to) == pc[t] = from /\ pc' = [pc EXCEPT ![t] = to]

Call(t, to, x, y) ==
  /\ Goto(t, "idle", to)
  /\ k' = [k EXCEPT ![t] = x] /\ v' = [v EXCEPT ![t] = y]
  /\ known' = [known EXCEPT ![t] = inserted[x] > 0]
  /\ UNCHANGED <<nodes, i, history>>

\* The locals of a call go out of scope when it returns.
Return(t, from) ==
  /\ Goto(t, from, "idle")
  /\ k' = [k EXCEPT ![t] = None] /\ v' = [v EXCEPT ![t] = None]
  /\ i' = [i EXCEPT ![t] = 0]
  /\ known' = [known EXCEPT ![t] = FALSE]

\* Mutant: one bucket too many.
Probe_OffByOne(t, from, to) ==
  /\ \/ /\ i[t] < Size
        /\ Goto(t, from, to)
        /\ i' = [i EXCEPT ![t] = @ + 1]
        /\ UNCHANGED <<k, v, known>>
     \/ i[t] = Size /\ Return(t, from)
  /\ UNCHANGED <<nodes, history>>

\* Go on with the next bucket, or return false after the last one.
Probe(t, from, to) ==
  /\ \/ /\ i[t] + 1 < Size
        /\ Goto(t, from, to)
        /\ i' = [i EXCEPT ![t] = @ + 1]
        /\ UNCHANGED <<k, v, known>>
     \/ i[t] + 1 = Size /\ Return(t, from)
  /\ UNCHANGED <<nodes, history>>

-----------------------------------------------------------------------------
(* insert *)

InsertCall(t) == \E x \in Keys, y \in Values : Call(t, "insert", x, y)

InsertOccupied(t) ==
  /\ \/ Goto(t, "insert", "ins_ready") /\ occupied[Current(t)]
     \/ Goto(t, "insert", "ins_cas") /\ ~occupied[Current(t)]
  /\ UNCHANGED <<nodes, k, v, i, history, known>>

\* Return false if the bucket is ready and holds the key.
InsertDuplicate(t) ==
  /\ Return(t, "ins_ready")
  /\ ready[Current(t)] /\ key[Current(t)] = k[t]
  /\ UNCHANGED <<nodes, history>>

\* Any other bucket is skipped, also one that is not ready yet.
InsertSkip(t) ==
  /\ Probe(t, "ins_ready", "insert")
  /\ ~(ready[Current(t)] /\ key[Current(t)] = k[t])

InsertCas(t) ==
  /\ Goto(t, "ins_cas", "ins_key")
  /\ ~occupied[Current(t)]
  /\ occupied' = [occupied EXCEPT ![Current(t)] = TRUE]
  /\ claimed' = claimed \cup {<<k[t], v[t]>>}
  /\ UNCHANGED <<ready, key, value, k, v, i, inserted, found, known>>

\* The bucket went to another insert, whatever its key.
InsertCasFail(t) == Probe(t, "ins_cas", "insert") /\ occupied[Current(t)]

InsertKey(t) ==
  /\ Goto(t, "ins_key", "ins_value")
  /\ key' = [key EXCEPT ![Current(t)] = k[t]]
  /\ UNCHANGED <<occupied, ready, value, k, v, i, history, known>>

\* Mutant: the ready flag is set before the value is written.
InsertValue_ReadyFirst(t) ==
  /\ Goto(t, "ins_value", "ins_publish")
  /\ ready' = [ready EXCEPT ![Current(t)] = TRUE]
  /\ UNCHANGED <<occupied, value, key, k, v, i, history, known>>

InsertValue(t) ==
  /\ Goto(t, "ins_value", "ins_publish")
  /\ value' = [value EXCEPT ![Current(t)] = v[t]]
  /\ UNCHANGED <<occupied, ready, key, k, v, i, history, known>>

\* Mutant: the ready flag is not set.
InsertPublish_NotReady(t) ==
  /\ Return(t, "ins_publish")
  /\ inserted' = [inserted EXCEPT ![k[t]] = @ + 1]
  /\ UNCHANGED <<nodes, found, claimed>>

\* Set the ready flag and return true.
InsertPublish(t) ==
  /\ Return(t, "ins_publish")
  /\ ready' = [ready EXCEPT ![Current(t)] = TRUE]
  /\ inserted' = [inserted EXCEPT ![k[t]] = @ + 1]
  /\ UNCHANGED <<occupied, key, value, found, claimed>>

-----------------------------------------------------------------------------
(* find *)

FindCall(t) == \E x \in Keys : Call(t, "find", x, None)

\* A bucket nobody has claimed ends the probe chain: return false.
FindEnd(t) ==
  /\ Return(t, "find")
  /\ ~occupied[Current(t)]
  /\ UNCHANGED <<nodes, history>>

FindOccupied(t) ==
  /\ Goto(t, "find", "find_ready")
  /\ occupied[Current(t)]
  /\ UNCHANGED <<nodes, k, v, i, history, known>>

\* Mutant: find takes a bucket that is not ready for a miss.
FindReady_NoWait(t) ==
  \/ /\ Goto(t, "find_ready", "find_key")
     /\ ready[Current(t)]
     /\ UNCHANGED <<nodes, k, v, i, history, known>>
  \/ Probe(t, "find_ready", "find") /\ ~ready[Current(t)]

\* Spin until the insert that has claimed the bucket is done with it.
FindReady(t) ==
  \/ /\ Goto(t, "find_ready", "find_key")
     /\ ready[Current(t)]
     /\ UNCHANGED <<nodes, k, v, i, history, known>>
  \/ /\ pc[t] = "find_ready"
     /\ ~ready[Current(t)]
     /\ UNCHANGED vars

FindHit(t) ==
  /\ Return(t, "find_key")
  /\ key[Current(t)] = k[t]
  /\ found' = [found EXCEPT ![k[t]] = @ \cup {value[Current(t)]}]
  /\ UNCHANGED <<nodes, inserted, claimed>>

\* Mutant: find gives up at the first other key.
FindOther_GivesUp(t) ==
  /\ Return(t, "find_key")
  /\ key[Current(t)] # k[t]
  /\ UNCHANGED <<nodes, history>>

FindOther(t) == Probe(t, "find_key", "find") /\ key[Current(t)] # k[t]

-----------------------------------------------------------------------------
Step(t) ==
  \/ InsertOccupied(t) \/ InsertDuplicate(t) \/ InsertSkip(t) \/ InsertCas(t) \/ InsertCasFail(t)
  \/ InsertKey(t) \/ InsertValue(t) \/ InsertPublish(t)
  \/ FindEnd(t) \/ FindOccupied(t) \/ FindReady(t) \/ FindHit(t) \/ FindOther(t)

Next == \E t \in Threads : InsertCall(t) \/ FindCall(t) \/ Step(t)

Spec == Init /\ [][Next]_vars

\* Every thread inside a call is scheduled.
FairSpec == Spec /\ \A t \in Threads : WF_vars(Step(t))

-----------------------------------------------------------------------------
(* Properties *)

\* insert and find probe no more buckets than there are, and no bucket is
\* filled twice.
TypeOK ==
  /\ occupied \in [Buckets -> BOOLEAN] /\ ready \in [Buckets -> BOOLEAN]
  /\ key \in [Buckets -> Keys \cup {None}]
  /\ value \in [Buckets -> Values \cup {None}]
  /\ pc \in [Threads -> {"idle", "insert", "ins_ready", "ins_cas", "ins_key", "ins_value",
                         "ins_publish", "find", "find_ready", "find_key"}]
  /\ k \in [Threads -> Keys \cup {None}] /\ v \in [Threads -> Values \cup {None}]
  /\ i \in [Threads -> Buckets]
  /\ inserted \in [Keys -> 0 .. Size]
  /\ found \in [Keys -> SUBSET (Values \cup {None})]
  /\ claimed \in SUBSET (Keys \X Values)
  /\ known \in [Threads -> BOOLEAN]

\* A find returns a value only if an insert was called with that key and that
\* value and got a bucket: never half-written data, never another key's value.
FoundWasInserted == \A x \in Keys : \A y \in found[x] : <<x, y>> \in claimed

\* All finds of a key that return a value return the same one, also when
\* several inserts of the key have got a bucket.
FoundIsStable == \A x \in Keys : Cardinality(found[x]) <= 1

\* A find misses no key of which an insert had returned true when it began.
FindsWhatIsKnown ==
  [][\A t \in Threads :
       /\ pc[t] \in {"find", "find_key"} /\ pc'[t] = "idle"
       /\ pc[t] = "find_key" => key[Current(t)] # k[t]
       => ~known[t]]_vars

\* An insert returns true for one of the calls with a key only.
InsertedOnce == \A x \in Keys : inserted[x] <= 1

\* Every call returns, provided that no insert stops half way.
CallsReturn == \A t \in Threads : pc[t] # "idle" ~> pc[t] = "idle"
=============================================================================
