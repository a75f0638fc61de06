--------------------------- MODULE EpochReclaimer ---------------------------
(***************************************************************************)
(* EpochReclaimer and EpochGuard of include/lockless/epoch_reclaimer.hpp,  *)
(* with the client they are written for: a structure whose objects readers *)
(* reach only inside a critical section and retirers first unlink and then *)
(* retire.  Freed objects are allocated and linked again.                  *)
(*                                                                         *)
(* One step is one access to shared memory or one section under a mutex.   *)
(* Loads return the current value.                                         *)
(***************************************************************************)
EXTENDS Integers

CONSTANTS
  Readers,     \* the threads that register and enter critical sections
  Retirers,    \* the threads that unlink and retire objects
  Objects,
  MaxThreads,  \* MAX_THREADS
  MaxEpoch,    \* bound: no retire is started once global_epoch_ has reached it
  RegisterOneByOne   \* does the client let one thread at a time register?

ASSUME EpochReclaimerAssumption ==
  /\ MaxThreads \in Nat \ {0} /\ MaxEpoch \in Nat
  /\ RegisterOneByOne \in BOOLEAN

VARIABLES
  global_epoch_,
  local_epoch, in_use,  \* the fields of slots_
  retire_lists_,        \* the objects in each of the lists
  pc,                   \* what each thread does next
  tid,                  \* the id each thread has registered, or -1
  critical,             \* is the thread inside a critical section?
  epoch,                \* the epoch it has loaded: epoch, or current of try_advance
  scan,                 \* the loop index i of register_thread and try_advance
  object,               \* the objects it is about to put on a list
  to_free,              \* the objects it is about to free
  refs,                 \* client: the objects it may dereference
  status,               \* client: is the object linked, unlinked or freed?
  entered,              \* history: global_epoch_ when the thread's epoch was published
  late                  \* history: the objects put on a list that was about to be freed

NUM_EPOCHS == 3
Threads == Readers \cup Retirers
Slots == 0 .. MaxThreads - 1
Inactive == -1    \* UINT64_MAX

slots == <<local_epoch, in_use>>
lists == <<retire_lists_, to_free, object>>
client == <<refs, status>>
vars == <<global_epoch_, slots, lists, pc, tid, critical, epoch, scan, client, entered, late>>

Init ==
  /\ global_epoch_ = 0
  /\ local_epoch = [i \in Slots |-> Inactive]
  /\ in_use = [i \in Slots |-> FALSE]
  /\ retire_lists_ = [i \in 0 .. NUM_EPOCHS - 1 |-> {}]
  /\ pc = [t \in Threads |-> "idle"]
  /\ tid = [t \in Threads |-> -1]
  /\ critical = [t \in Threads |-> FALSE]
  /\ epoch = [t \in Threads |-> 0]
  /\ scan = [t \in Threads |-> 0]
  /\ object = [t \in Threads |-> {}]
  /\ to_free = [t \in Threads |-> {}]
  /\ refs = [t \in Threads |-> {}]
  /\ status = [o \in Objects |-> "linked"]
  /\ entered = [t \in Threads |-> 0]
  /\ late = {}

Goto(t, from, to) == pc[t] = from /\ pc' = [pc EXCEPT ![t] = to]

\* The locals epoch, current and i go out of scope.
Forget(t) == epoch' = [epoch EXCEPT ![t] = 0] /\ scan' = [scan EXCEPT ![t] = 0]

-----------------------------------------------------------------------------
(* register_thread and unregister_thread *)

RegisterCall(t) ==
  /\ RegisterOneByOne => \A u \in Threads : pc[u] \notin {"reg_scan", "reg_take", "reg_clear"}
  /\ tid[t] = -1
  /\ Goto(t, "idle", "reg_scan")
  /\ UNCHANGED <<global_epoch_, slots, lists, tid, critical, epoch, scan, client, entered, late>>

RegisterScan(t) ==
  /\ scan[t] < MaxThreads
  /\ \/ ~in_use[scan[t]] /\ Goto(t, "reg_scan", "reg_take") /\ UNCHANGED scan
     \/ in_use[scan[t]] /\ pc[t] = "reg_scan" /\ UNCHANGED pc
          /\ scan' = [scan EXCEPT ![t] = @ + 1]
  /\ UNCHANGED <<global_epoch_, slots, lists, tid, critical, epoch, client, entered, late>>

\* Mutant: the slot is not marked.
RegisterTake_NoMark(t) ==
  /\ Goto(t, "reg_take", "reg_clear")
  /\ UNCHANGED <<global_epoch_, slots, lists, tid, critical, epoch, scan, client, entered, late>>

\* in_use is an ordinary field: the test and the store are not one step.
RegisterTake(t) ==
  /\ Goto(t, "reg_take", "reg_clear")
  /\ in_use' = [in_use EXCEPT ![scan[t]] = TRUE]
  /\ UNCHANGED <<global_epoch_, local_epoch, lists, tid, critical, epoch, scan, client, entered, late>>

RegisterClear(t) ==
  /\ Goto(t, "reg_clear", "idle")
  /\ local_epoch' = [local_epoch EXCEPT ![scan[t]] = Inactive]
  /\ tid' = [tid EXCEPT ![t] = scan[t]]
  /\ Forget(t)
  /\ UNCHANGED <<global_epoch_, in_use, lists, critical, client, entered, late>>

\* No slot left: return -1, and the client does not go on with that id.
RegisterNone(t) ==
  /\ scan[t] = MaxThreads
  /\ Goto(t, "reg_scan", "idle")
  /\ Forget(t)
  /\ UNCHANGED <<global_epoch_, slots, lists, tid, critical, client, entered, late>>

UnregisterCall(t) ==
  /\ ~critical[t] /\ tid[t] # -1
  /\ Goto(t, "idle", "unregister")
  /\ local_epoch' = [local_epoch EXCEPT ![tid[t]] = Inactive]
  /\ UNCHANGED <<global_epoch_, in_use, lists, tid, critical, epoch, scan, client, entered, late>>

UnregisterEnd(t) ==
  /\ Goto(t, "unregister", "idle")
  /\ in_use' = [in_use EXCEPT ![tid[t]] = FALSE]
  /\ tid' = [tid EXCEPT ![t] = -1]
  /\ UNCHANGED <<global_epoch_, local_epoch, lists, critical, epoch, scan, client, entered, late>>

-----------------------------------------------------------------------------
(* enter_critical, the critical section and leave_critical *)

EnterLoad(t) ==
  /\ ~critical[t] /\ tid[t] # -1
  /\ Goto(t, "idle", "enter")
  /\ epoch' = [epoch EXCEPT ![t] = global_epoch_]
  /\ UNCHANGED <<global_epoch_, slots, lists, tid, critical, scan, client, entered, late>>

\* The epoch may have moved on since it was loaded.
EnterPublish(t) ==
  /\ Goto(t, "enter", "idle")
  /\ local_epoch' = [local_epoch EXCEPT ![tid[t]] = epoch[t]]
  /\ critical' = [critical EXCEPT ![t] = TRUE]
  /\ entered' = [entered EXCEPT ![t] = global_epoch_]
  /\ Forget(t)
  /\ UNCHANGED <<global_epoch_, in_use, lists, tid, client, late>>

\* Client: follow a link.
Read(t) ==
  /\ critical[t] /\ pc[t] = "idle"
  /\ \E o \in Objects : status[o] = "linked" /\ refs' = [refs EXCEPT ![t] = @ \cup {o}]
  /\ UNCHANGED <<global_epoch_, slots, lists, pc, tid, critical, epoch, scan, status, entered, late>>

Leave(t) ==
  /\ critical[t] /\ pc[t] = "idle"
  /\ local_epoch' = [local_epoch EXCEPT ![tid[t]] = Inactive]
  /\ critical' = [critical EXCEPT ![t] = FALSE]
  /\ refs' = [refs EXCEPT ![t] = {}]
  /\ entered' = [entered EXCEPT ![t] = 0]
  /\ UNCHANGED <<global_epoch_, in_use, lists, pc, tid, epoch, scan, status, late>>

-----------------------------------------------------------------------------
(* retire *)

\* Client: unlink an object and call retire, inside a critical section or not.
RetireCall(t) ==
  /\ global_epoch_ < MaxEpoch
  /\ Goto(t, "idle", "retire")
  /\ \E o \in Objects :
       /\ status[o] = "linked"
       /\ status' = [status EXCEPT ![o] = "unlinked"]
       /\ object' = [object EXCEPT ![t] = {o}]
  /\ UNCHANGED <<global_epoch_, slots, retire_lists_, to_free, tid, critical, epoch, scan, refs, entered, late>>

RetireLoad(t) ==
  /\ Goto(t, "retire", "retire_push")
  /\ epoch' = [epoch EXCEPT ![t] = global_epoch_]
  /\ UNCHANGED <<global_epoch_, slots, lists, tid, critical, scan, client, entered, late>>

\* Thread u has advanced the epoch to e, or to one that shared its list with
\* e, and has not taken over that list yet.
SwapPending(u, e) ==
  pc[u] = "adv_swap" /\ epoch[u] + 1 <= e /\ (epoch[u] + 1) % NUM_EPOCHS = e % NUM_EPOCHS

RetirePush(t) ==
  /\ Goto(t, "retire_push", "advance")
  /\ retire_lists_' = [retire_lists_ EXCEPT ![epoch[t] % NUM_EPOCHS] = @ \cup object[t]]
  /\ object' = [object EXCEPT ![t] = {}]
  /\ late' = IF \E u \in Retirers : SwapPending(u, epoch[t]) THEN late \cup object[t] ELSE late
  /\ Forget(t)
  /\ UNCHANGED <<global_epoch_, slots, to_free, tid, critical, client, entered>>

-----------------------------------------------------------------------------
(* try_advance *)

AdvanceLoad(t) ==
  /\ Goto(t, "advance", "adv_scan")
  /\ epoch' = [epoch EXCEPT ![t] = global_epoch_]
  /\ UNCHANGED <<global_epoch_, slots, lists, tid, critical, scan, client, entered, late>>

\* The slot is unused, its thread is not in a critical section, or it is in
\* one that it has entered in the current epoch.
Passes(t, i) == in_use[i] => local_epoch[i] \in {Inactive, epoch[t]}

\* Mutant: the epoch is not compared.
AdvanceScan_NoCompare(t) ==
  /\ scan[t] < MaxThreads
  /\ pc[t] = "adv_scan" /\ UNCHANGED pc
  /\ scan' = [scan EXCEPT ![t] = @ + 1] /\ UNCHANGED epoch
  /\ UNCHANGED <<global_epoch_, slots, lists, tid, critical, client, entered, late>>

AdvanceScan(t) ==
  /\ scan[t] < MaxThreads
  /\ \/ Passes(t, scan[t]) /\ pc[t] = "adv_scan" /\ UNCHANGED pc
          /\ scan' = [scan EXCEPT ![t] = @ + 1] /\ UNCHANGED epoch
     \/ ~Passes(t, scan[t]) /\ Goto(t, "adv_scan", "idle") /\ Forget(t)
  /\ UNCHANGED <<global_epoch_, slots, lists, tid, critical, client, entered, late>>

AdvanceCas(t) ==
  /\ scan[t] = MaxThreads
  /\ \/ /\ global_epoch_ = epoch[t]
        /\ Goto(t, "adv_scan", "adv_swap")
        /\ global_epoch_' = epoch[t] + 1
        /\ scan' = [scan EXCEPT ![t] = 0] /\ UNCHANGED epoch
     \/ /\ global_epoch_ # epoch[t]
        /\ Goto(t, "adv_scan", "idle")
        /\ Forget(t) /\ UNCHANGED global_epoch_
  /\ UNCHANGED <<slots, lists, tid, critical, client, entered, late>>

\* Take over the list that the new epoch is going to use.
SwapList(t, i) ==
  /\ Goto(t, "adv_swap", "adv_free")
  /\ to_free' = [to_free EXCEPT ![t] = retire_lists_[i]]
  /\ retire_lists_' = [retire_lists_ EXCEPT ![i] = {}]
  /\ Forget(t)
  /\ UNCHANGED <<global_epoch_, slots, object, tid, critical, client, entered, late>>

\* Mutant: the list of the epoch that has just ended.
AdvanceSwap_LastEpoch(t) == SwapList(t, epoch[t] % NUM_EPOCHS)

\* Mutant: the list is copied.
AdvanceSwap_Copy(t) ==
  /\ Goto(t, "adv_swap", "adv_free")
  /\ to_free' = [to_free EXCEPT ![t] = retire_lists_[(epoch[t] + 1) % NUM_EPOCHS]]
  /\ Forget(t)
  /\ UNCHANGED <<global_epoch_, slots, retire_lists_, object, tid, critical, client, entered, late>>

AdvanceSwap(t) == SwapList(t, (epoch[t] + 1) % NUM_EPOCHS)

AdvanceFree(t) ==
  /\ Goto(t, "adv_free", "idle")
  /\ status' = [o \in Objects |-> IF o \in to_free[t] THEN "freed" ELSE status[o]]
  /\ to_free' = [to_free EXCEPT ![t] = {}]
  /\ UNCHANGED <<global_epoch_, slots, retire_lists_, object, tid, critical, epoch, scan, refs, entered, late>>

-----------------------------------------------------------------------------
\* Client: allocate an object and link it into the structure.
Link ==
  /\ \E o \in Objects :
       /\ status[o] = "freed"
       /\ status' = [status EXCEPT ![o] = "linked"]
       /\ late' = late \ {o}
  /\ UNCHANGED <<global_epoch_, slots, lists, pc, tid, critical, epoch, scan, refs, entered>>

\* The destructor, which runs when no thread uses the reclaimer any more.
Destroy ==
  /\ \A t \in Threads : pc[t] = "idle" /\ ~critical[t]
  /\ status' = [o \in Objects |->
                 IF \E i \in DOMAIN retire_lists_ : o \in retire_lists_[i] THEN "freed" ELSE status[o]]
  /\ retire_lists_' = [i \in 0 .. NUM_EPOCHS - 1 |-> {}]
  /\ pc' = [t \in Threads |-> "destroyed"]
  /\ UNCHANGED <<global_epoch_, slots, to_free, object, tid, critical, epoch, scan, refs, entered, late>>

Register(t) ==
  \/ RegisterCall(t) \/ RegisterScan(t) \/ RegisterTake(t)
  \/ RegisterClear(t) \/ RegisterNone(t)
Unregister(t) == UnregisterCall(t) \/ UnregisterEnd(t)
Guard(t) == EnterLoad(t) \/ EnterPublish(t) \/ Read(t) \/ Leave(t)
Retire(t) == RetireCall(t) \/ RetireLoad(t) \/ RetirePush(t)
TryAdvance(t) ==
  AdvanceLoad(t) \/ AdvanceScan(t) \/ AdvanceCas(t) \/ AdvanceSwap(t) \/ AdvanceFree(t)

Next ==
  \/ \E t \in Readers : Register(t) \/ Unregister(t) \/ Guard(t)
  \/ \E t \in Retirers : Retire(t) \/ TryAdvance(t)
  \/ Link \/ Destroy

Spec == Init /\ [][Next]_vars

-----------------------------------------------------------------------------
(* Properties *)

\* No object is freed while a thread that reached it in its critical section
\* is still in there: what the reclaimer is for.
NoUseAfterFree == \A t \in Threads : \A o \in refs[t] : status[o] # "freed"

\* The only objects that may be freed too early are those that a retire puts
\* on a list between the compare-exchange of global_epoch_ and the swap of
\* that list by another thread.  With one retirer there are none.
OnlyLateFreedEarly ==
  \A t \in Threads : \A o \in refs[t] : status[o] = "freed" => o \in late

\* A thread in a critical section holds the epoch back: it moves at most one
\* further than where it was when the thread published the one it had loaded.
EpochHeldBack == \A t \in Threads : critical[t] => global_epoch_ <= entered[t] + 1

\* A retired object is at exactly one place until it is freed, so it is freed
\* once; when the reclaimer is gone, none is left.
RetiredOnce ==
  \A o \in Objects :
    LET places == {<<"call", t>> : t \in {u \in Threads : o \in object[u]}} \cup
                  {<<"list", i>> : i \in {j \in DOMAIN retire_lists_ : o \in retire_lists_[j]}} \cup
                  {<<"free", t>> : t \in {u \in Threads : o \in to_free[u]}}
    IN  IF status[o] = "unlinked" THEN \E p \in places : places = {p} ELSE places = {}

\* No two threads use one slot.
TidsDistinct == \A t, u \in Threads : t # u /\ tid[t] # -1 => tid[t] # tid[u]
=============================================================================
