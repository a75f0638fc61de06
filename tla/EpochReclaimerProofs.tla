------------------------ MODULE EpochReclaimerProofs ------------------------
(***************************************************************************)
(* If threads register one at a time, then for every number of threads and *)
(* objects a retired object is freed once, and it is freed under a reader  *)
(* only if it was put on a list whose takeover was pending.  With a single *)
(* retirer no object is.                                                   *)
(***************************************************************************)
EXTENDS EpochSlots

-----------------------------------------------------------------------------
(* The steps that move an object *)

LEMMA RetireCallPlaces ==
  ASSUME SlotTypes, PlaceInv, NEW t \in Threads, RetireCall(t)
  PROVE  PlaceInv'
<1>1. PICK o \in Objects : /\ status[o] = "linked"
                           /\ status' = [status EXCEPT ![o] = "unlinked"]
                           /\ object' = [object EXCEPT ![t] = {o}]
  BY Zenon DEF RetireCall
<1>2. UNCHANGED <<retire_lists_, to_free, refs, late, critical>>
  BY DEF RetireCall
<1>3. pc[t] = "idle" /\ pc'[t] = "retire" /\ \A u \in Threads \ {t} : pc'[u] = pc[u]
  BY DEF SlotTypes, RetireCall, Goto
<1>4. object[t] = {}
  BY <1>3 DEF PlaceInv, Holding
<1>5. object'[t] = {o} /\ \A u \in Threads \ {t} : object'[u] = object[u]
  BY <1>1 DEF PlaceInv, ListTypes
<1>6. ListTypes'
  BY <1>1, <1>2 DEF PlaceInv, ListTypes
<1>7. ASSUME NEW d \in Objects PROVE Placed(d)'
  <2>1. CASE d = o
    <3>1. ~Somewhere(o) /\ status'[o] = "unlinked"
      BY <1>1 DEF PlaceInv, Placed, ListTypes
    <3> QED BY <2>1, <3>1, <1>2, <1>5 DEF Placed, OnePlace, Somewhere
  <2>2. CASE d # o
    <3>1. status'[d] = status[d] /\ Placed(d)
      BY <1>1, <2>2 DEF PlaceInv, ListTypes
    <3>2. \A u \in Threads : d \in object'[u] <=> d \in object[u]
      BY <1>4, <1>5, <2>2
    <3> QED BY <3>1, <3>2, <1>2 DEF Placed, OnePlace, Somewhere
  <2> QED BY <2>1, <2>2
<1>8. \A u \in Threads : Holding(u)'
  BY <1>2, <1>3, <1>5 DEF PlaceInv, Holding
<1> QED BY <1>6, <1>7, <1>8 DEF PlaceInv

LEMMA RetirePushPlaces ==
  ASSUME SlotTypes, PlaceInv, NEW t \in Threads, RetirePush(t)
  PROVE  PlaceInv'
<1> DEFINE k == epoch[t] % NUM_EPOCHS
<1>1. k \in Lists
  BY DEF SlotTypes, Lists, NUM_EPOCHS
<1>2. UNCHANGED <<to_free, refs, status, critical>>
  BY DEF RetirePush, client
<1>3. pc[t] = "retire_push" /\ pc'[t] = "advance" /\ \A u \in Threads \ {t} : pc'[u] = pc[u]
  BY DEF SlotTypes, RetirePush, Goto
<1>4. /\ retire_lists_' = [retire_lists_ EXCEPT ![k] = @ \cup object[t]]
      /\ object' = [object EXCEPT ![t] = {}]
  BY DEF RetirePush
<1> HIDE DEF k
<1>5. object'[t] = {} /\ \A u \in Threads \ {t} : object'[u] = object[u]
  BY <1>4 DEF PlaceInv, ListTypes
<1>6. /\ retire_lists_'[k] = retire_lists_[k] \cup object[t]
      /\ \A i \in Lists \ {k} : retire_lists_'[i] = retire_lists_[i]
  BY <1>1, <1>4 DEF PlaceInv, ListTypes
<1>7. ListTypes'
  <2>1. object[t] \subseteq Objects /\ late' \in SUBSET Objects
    BY DEF PlaceInv, ListTypes, RetirePush
  <2> QED BY <1>1, <1>2, <1>4, <2>1 DEF PlaceInv, ListTypes
<1>8. ASSUME NEW d \in Objects PROVE Placed(d)'
  <2>1. Placed(d)
    BY DEF PlaceInv
  <2>2. CASE d \in object[t]
    <3>1. /\ d \in retire_lists_'[k] /\ \A i \in Lists \ {k} : d \notin retire_lists_'[i]
          /\ \A u \in Threads : d \notin object'[u] /\ d \notin to_free'[u]
      BY <1>1, <1>2, <1>5, <1>6, <2>1, <2>2 DEF Placed, OnePlace
    <3>2. status[d] = "unlinked"
      BY <2>1, <2>2 DEF Placed, Somewhere
    <3> QED BY <1>1, <1>2, <3>1, <3>2 DEF Placed, OnePlace, Somewhere
  <2>3. CASE d \notin object[t]
    <3>1. /\ \A i \in Lists : d \in retire_lists_'[i] <=> d \in retire_lists_[i]
          /\ \A u \in Threads : d \in object'[u] <=> d \in object[u]
      BY <1>1, <1>5, <1>6, <2>3
    <3> QED BY <1>2, <2>1, <3>1 DEF Placed, OnePlace, Somewhere
  <2> QED BY <2>2, <2>3
<1>9. \A u \in Threads : Holding(u)'
  BY <1>2, <1>3, <1>5 DEF PlaceInv, Holding
<1> QED BY <1>7, <1>8, <1>9 DEF PlaceInv

LEMMA SwapPlaces ==
  ASSUME SlotTypes, PlaceInv, NEW t \in Threads, AdvanceSwap(t)
  PROVE  PlaceInv'
<1> DEFINE k == (epoch[t] + 1) % NUM_EPOCHS
<1>1. k \in Lists
  BY DEF SlotTypes, Lists, NUM_EPOCHS
<1>2. UNCHANGED <<object, refs, status, critical, late>>
  BY DEF AdvanceSwap, SwapList, client
<1>3. pc[t] = "adv_swap" /\ pc'[t] = "adv_free" /\ \A u \in Threads \ {t} : pc'[u] = pc[u]
  BY DEF SlotTypes, AdvanceSwap, SwapList, Goto
<1>4. /\ to_free' = [to_free EXCEPT ![t] = retire_lists_[k]]
      /\ retire_lists_' = [retire_lists_ EXCEPT ![k] = {}]
  BY DEF AdvanceSwap, SwapList
<1> HIDE DEF k
<1>5. to_free[t] = {} /\ object[t] = {}
  BY <1>3 DEF PlaceInv, Holding
<1>6. to_free'[t] = retire_lists_[k] /\ \A u \in Threads \ {t} : to_free'[u] = to_free[u]
  BY <1>4 DEF PlaceInv, ListTypes
<1>7. retire_lists_'[k] = {} /\ \A i \in Lists \ {k} : retire_lists_'[i] = retire_lists_[i]
  BY <1>1, <1>4 DEF PlaceInv, ListTypes
<1>8. ListTypes'
  BY <1>1, <1>2, <1>4 DEF PlaceInv, ListTypes
<1>9. ASSUME NEW d \in Objects PROVE Placed(d)'
  <2>1. Placed(d)
    BY DEF PlaceInv
  <2>2. CASE d \in retire_lists_[k]
    <3>1. /\ \A i \in Lists : d \notin retire_lists_'[i]
          /\ \A u \in Threads : d \notin object'[u]
          /\ d \in to_free'[t] /\ \A u \in Threads \ {t} : d \notin to_free'[u]
      BY <1>1, <1>2, <1>6, <1>7, <2>1, <2>2 DEF Placed, OnePlace
    <3>2. status[d] = "unlinked"
      BY <1>1, <2>1, <2>2 DEF Placed, Somewhere
    <3> QED BY <1>2, <3>1, <3>2 DEF Placed, OnePlace, Somewhere
  <2>3. CASE d \notin retire_lists_[k]
    <3>1. /\ \A i \in Lists : d \in retire_lists_'[i] <=> d \in retire_lists_[i]
          /\ \A u \in Threads : d \in to_free'[u] <=> d \in to_free[u]
      BY <1>1, <1>5, <1>6, <1>7, <2>3
    <3> QED BY <1>2, <2>1, <3>1 DEF Placed, OnePlace, Somewhere
  <2> QED BY <2>2, <2>3
<1>10. \A u \in Threads : Holding(u)'
  BY <1>2, <1>3, <1>5, <1>6 DEF PlaceInv, Holding
<1> QED BY <1>8, <1>9, <1>10 DEF PlaceInv

LEMMA FreePlaces ==
  ASSUME SlotTypes, PlaceInv, NEW t \in Threads, AdvanceFree(t)
  PROVE  PlaceInv'
<1>1. UNCHANGED <<object, retire_lists_, refs, critical, late>>
  BY DEF AdvanceFree
<1>2. pc[t] = "adv_free" /\ pc'[t] = "idle" /\ \A u \in Threads \ {t} : pc'[u] = pc[u]
  BY DEF SlotTypes, AdvanceFree, Goto
<1>3. object[t] = {}
  BY <1>2 DEF PlaceInv, Holding
<1>4. to_free'[t] = {} /\ \A u \in Threads \ {t} : to_free'[u] = to_free[u]
  BY DEF PlaceInv, ListTypes, AdvanceFree
<1>5. \A d \in Objects : status'[d] = IF d \in to_free[t] THEN "freed" ELSE status[d]
  BY DEF AdvanceFree
<1>6. ListTypes'
  BY <1>1 DEF PlaceInv, ListTypes, AdvanceFree
<1>7. ASSUME NEW d \in Objects PROVE Placed(d)'
  <2>1. Placed(d)
    BY DEF PlaceInv
  <2>2. CASE d \in to_free[t]
    <3>1. /\ \A i \in Lists : d \notin retire_lists_'[i]
          /\ \A u \in Threads : d \notin object'[u] /\ d \notin to_free'[u]
      BY <1>1, <1>4, <2>1, <2>2 DEF Placed, OnePlace
    <3>2. status'[d] = "freed"
      BY <1>5, <2>2
    <3> QED BY <3>1, <3>2 DEF Placed, OnePlace, Somewhere
  <2>3. CASE d \notin to_free[t]
    <3>1. \A u \in Threads : d \in to_free'[u] <=> d \in to_free[u]
      BY <1>4, <2>3
    <3>2. status'[d] = status[d]
      BY <1>5, <2>3
    <3> QED BY <1>1, <2>1, <3>1, <3>2 DEF Placed, OnePlace, Somewhere
  <2> QED BY <2>2, <2>3
<1>8. \A u \in Threads : Holding(u)'
  BY <1>1, <1>2, <1>3, <1>4 DEF PlaceInv, Holding
<1> QED BY <1>6, <1>7, <1>8 DEF PlaceInv

LEMMA LinkPlaces ==
  ASSUME PlaceInv, Link
  PROVE  PlaceInv'
<1>1. PICK o \in Objects : /\ status[o] = "freed"
                           /\ status' = [status EXCEPT ![o] = "linked"]
                           /\ late' = late \ {o}
  BY Zenon DEF Link
<1>2. UNCHANGED <<object, retire_lists_, to_free, refs, critical, pc>>
  BY DEF Link, lists
<1>3. ListTypes'
  BY <1>1, <1>2 DEF PlaceInv, ListTypes
<1>4. ASSUME NEW d \in Objects PROVE Placed(d)'
  <2>1. Placed(d) /\ (status'[d] = "unlinked" <=> status[d] = "unlinked")
    BY <1>1 DEF PlaceInv, ListTypes
  <2> QED BY <1>2, <2>1 DEF Placed, OnePlace, Somewhere
<1>5. \A u \in Threads : Holding(u)'
  BY <1>2 DEF PlaceInv, Holding
<1> QED BY <1>3, <1>4, <1>5 DEF PlaceInv

LEMMA DestroyPlaces ==
  ASSUME PlaceInv, Destroy
  PROVE  PlaceInv'
<1>1. UNCHANGED <<object, to_free, refs, critical, late>>
  BY DEF Destroy
<1>2. \A t \in Threads : object[t] = {} /\ to_free[t] = {} /\ refs[t] = {}
  BY DEF PlaceInv, Holding, Destroy
<1>3. \A i \in Lists : retire_lists_'[i] = {}
  BY DEF Destroy, Lists
<1>4. ListTypes'
  BY <1>1 DEF PlaceInv, ListTypes, Destroy, Lists
<1>5. ASSUME NEW d \in Objects PROVE Placed(d)'
  <2>1. Placed(d) /\ DOMAIN retire_lists_ = Lists
    BY DEF PlaceInv, ListTypes
  <2>2. status'[d] # "unlinked"
    BY <1>2, <2>1 DEF Placed, Somewhere, Destroy
  <2> QED BY <1>1, <1>2, <1>3, <2>2 DEF Placed, OnePlace, Somewhere
<1>6. \A u \in Threads : Holding(u)'
  BY <1>1, <1>2 DEF Holding
<1> QED BY <1>4, <1>5, <1>6 DEF PlaceInv

LEMMA NextPlaces ==
  ASSUME SlotTypes, PlaceInv, [Next]_vars
  PROVE  PlaceInv'
<1>1. ASSUME NEW t \in Readers, Register(t) PROVE PlaceInv'
  <2>1. t \in Threads
    BY DEF Threads
  <2>2. CASE RegisterCall(t)
    BY <2>1, <2>2, MovePlaces DEF RegisterCall, client
  <2>3. CASE RegisterTake(t)
    BY <2>1, <2>3, MovePlaces DEF RegisterTake, client
  <2>4. CASE RegisterClear(t)
    BY <2>1, <2>4, MovePlaces DEF RegisterClear, client
  <2>5. CASE RegisterNone(t)
    BY <2>1, <2>5, MovePlaces DEF RegisterNone, client
  <2> QED BY <1>1, <2>1, <2>2, <2>3, <2>4, <2>5, ScanCasPlaces DEF Register
<1>2. ASSUME NEW t \in Readers, Unregister(t) PROVE PlaceInv'
  <2>1. t \in Threads
    BY DEF Threads
  <2> QED BY <1>2, <2>1, MovePlaces DEF Unregister, UnregisterCall, UnregisterEnd, client
<1>3. ASSUME NEW t \in Readers, Guard(t) PROVE PlaceInv'
  <2>1. t \in Threads
    BY DEF Threads
  <2>2. CASE EnterLoad(t)
    BY <2>1, <2>2, MovePlaces DEF EnterLoad, client
  <2> QED BY <1>3, <2>1, <2>2, ReaderPlaces DEF Guard
<1>4. ASSUME NEW t \in Retirers, Retire(t) PROVE PlaceInv'
  <2>1. t \in Threads
    BY DEF Threads
  <2>2. CASE RetireLoad(t)
    BY <2>1, <2>2, MovePlaces DEF RetireLoad, client
  <2> QED BY <1>4, <2>1, <2>2, RetireCallPlaces, RetirePushPlaces DEF Retire
<1>5. ASSUME NEW t \in Retirers, TryAdvance(t) PROVE PlaceInv'
  <2>1. t \in Threads
    BY DEF Threads
  <2>2. CASE AdvanceLoad(t)
    BY Zenon, <2>1, <2>2, MovePlaces DEF AdvanceLoad, client
  <2> QED BY <1>5, <2>1, <2>2, ScanCasPlaces, SwapPlaces, FreePlaces DEF TryAdvance
<1>6. CASE UNCHANGED vars
  <2>1. /\ UNCHANGED <<lists, status, late>> /\ refs' = refs /\ pc' = pc /\ critical' = critical
    BY <1>6 DEF vars, client
  <2> QED BY <2>1, FramePlaces DEF PlaceInv, ListTypes, Holding
<1> QED BY <1>1, <1>2, <1>3, <1>4, <1>5, <1>6, LinkPlaces, DestroyPlaces DEF Next

-----------------------------------------------------------------------------
(* Readers *)

\* An object on list i that t may dereference and that was not put there
\* late: it was retired in the epoch in which t entered or in the next one,
\* and nobody is about to take over the list.
Kept(t, i) ==
  /\ \/ i = entered[t] % NUM_EPOCHS
     \/ i = (entered[t] + 1) % NUM_EPOCHS /\ global_epoch_ = entered[t] + 1
  /\ \A u \in Retirers : pc[u] = "adv_swap" => (epoch[u] + 1) % NUM_EPOCHS # i

\* An object that t may dereference.
Protected(t, o) ==
  /\ status[o] = "freed" => o \in late
  /\ \A u \in Threads : o \in object[u] /\ pc[u] = "retire_push" => entered[t] <= epoch[u]
  /\ \A u \in Threads : o \in to_free[u] => o \in late
  /\ \A i \in Lists : o \in retire_lists_[i] /\ o \notin late => Kept(t, i)

\* The epoch of a retire or of a pending takeover is not in the future.
Past(u) ==
  /\ pc[u] = "adv_swap" => epoch[u] + 1 <= global_epoch_
  /\ pc[u] = "retire_push" => epoch[u] <= global_epoch_

ProtectInv ==
  /\ \A u \in Threads : Past(u)
  /\ \A t \in Threads : \A o \in refs[t] : Protected(t, o)

\* A thread with references is in a critical section.
LEMMA ReaderEpoch ==
  ASSUME SlotInv, PlaceInv, NEW t \in Threads, refs[t] # {}
  PROVE  /\ entered[t] \in Nat /\ global_epoch_ \in Nat
         /\ entered[t] <= global_epoch_ /\ global_epoch_ <= entered[t] + 1
<1>1. critical[t]
  BY DEF PlaceInv, Holding
<1>2. entered[t] \in Nat /\ global_epoch_ \in Nat
  BY DEF SlotInv, SlotTypes
<1>3. entered[t] <= global_epoch_ /\ global_epoch_ <= entered[t] + 1
  BY <1>1 DEF SlotInv, Dated
<1> QED BY <1>2, <1>3

LEMMA InitProtect == ASSUME Init PROVE ProtectInv
BY DEF Init, ProtectInv, Past

\* A step that moves no object and no epoch, and gives nobody a reference.
LEMMA FrameProtect ==
  ASSUME ProtectInv, UNCHANGED <<global_epoch_, lists, status, late>>,
         \A t \in Threads : refs'[t] \subseteq refs[t] /\ (refs'[t] # {} => entered'[t] = entered[t]),
         \A u \in Threads : pc'[u] \in {"retire_push", "adv_swap"} => pc'[u] = pc[u] /\ epoch'[u] = epoch[u]
  PROVE  ProtectInv'
<1>1. \A u \in Threads : Past(u)'
  BY DEF ProtectInv, Past
<1>2. ASSUME NEW t \in Threads, NEW o \in refs'[t] PROVE Protected(t, o)'
  <2>1. Protected(t, o) /\ entered'[t] = entered[t]
    BY DEF ProtectInv
  <2>2. ASSUME NEW i \in Lists, Kept(t, i) PROVE Kept(t, i)'
    BY <2>1, <2>2 DEF Kept, Threads
  <2> QED BY <2>1, <2>2 DEF Protected, lists
<1> QED BY <1>1, <1>2 DEF ProtectInv

LEMMA SlotProtect ==
  ASSUME SlotTypes, PlaceInv, ProtectInv, NEW t \in Threads,
         \/ Register(t) \/ Unregister(t) \/ EnterLoad(t) \/ AdvanceLoad(t) \/ AdvanceScan(t)
  PROVE  ProtectInv'
<1>1. UNCHANGED <<global_epoch_, lists, status, late, refs, entered>>
  BY DEF Register, RegisterCall, RegisterScan, RegisterTake, RegisterClear, RegisterNone, Unregister,
         UnregisterCall, UnregisterEnd, EnterLoad, AdvanceLoad, AdvanceScan, client
<1>2. ASSUME NEW u \in Threads, pc'[u] \in {"retire_push", "adv_swap"}
      PROVE  pc'[u] = pc[u] /\ epoch'[u] = epoch[u]
  <2>1. CASE Register(t)
    BY <1>2, <2>1 DEF SlotTypes, Register, RegisterCall, RegisterScan, RegisterTake, RegisterClear, RegisterNone, Goto, Forget
  <2>2. CASE Unregister(t)
    BY <1>2, <2>2 DEF SlotTypes, Unregister, UnregisterCall, UnregisterEnd, Goto
  <2>3. CASE EnterLoad(t) \/ AdvanceLoad(t)
    BY <1>2, <2>3 DEF SlotTypes, EnterLoad, AdvanceLoad, Goto
  <2>4. CASE AdvanceScan(t)
    BY <1>2, <2>4 DEF SlotTypes, AdvanceScan, Goto, Forget
  <2> QED BY Zenon, <2>1, <2>2, <2>3, <2>4
<1> QED BY Zenon, <1>1, <1>2, FrameProtect

LEMMA GuardProtect ==
  ASSUME SlotTypes, PlaceInv, SlotInv, ProtectInv, NEW t \in Threads, EnterPublish(t) \/ Leave(t)
  PROVE  ProtectInv'
<1>1. UNCHANGED <<global_epoch_, lists, status, late>>
  BY DEF EnterPublish, Leave, client
<1>2. \A u \in Threads : pc'[u] \in {"retire_push", "adv_swap"} => pc'[u] = pc[u] /\ epoch'[u] = epoch[u]
  BY DEF SlotTypes, EnterPublish, Leave, Goto, Forget
<1>3. refs'[t] = {} /\ \A u \in Threads \ {t} : refs'[u] = refs[u] /\ entered'[u] = entered[u]
  <2>1. CASE EnterPublish(t)
    <3>1. ~critical[t]
      BY <2>1 DEF SlotInv, Slotted, EnterPublish, Goto
    <3> QED BY <2>1, <3>1 DEF PlaceInv, Holding, SlotTypes, EnterPublish, client
  <2>2. CASE Leave(t)
    BY <2>2 DEF PlaceInv, ListTypes, SlotTypes, Leave
  <2> QED BY <2>1, <2>2
<1> QED BY <1>1, <1>2, <1>3, FrameProtect

\* A linked object is not on its way through the reclaimer.
LEMMA ReadProtect ==
  ASSUME SlotTypes, PlaceInv, ProtectInv, NEW t \in Threads, Read(t)
  PROVE  ProtectInv'
<1>1. PICK o \in Objects : status[o] = "linked" /\ refs' = [refs EXCEPT ![t] = @ \cup {o}]
  BY Zenon DEF Read
<1>2. UNCHANGED <<global_epoch_, lists, status, late, entered, pc, epoch>>
  BY DEF Read
<1>3. \A u \in Threads : Past(u)'
  BY <1>2 DEF ProtectInv, Past
<1>4. ASSUME NEW u \in Threads, NEW d \in refs'[u] PROVE Protected(u, d)'
  <2>1. Protected(u, d)
    <3>1. CASE d \in refs[u]
      BY <3>1 DEF ProtectInv
    <3>2. CASE d = o
      <4>1. ~Somewhere(o)
        BY <1>1 DEF PlaceInv, Placed
      <4> QED BY <1>1, <3>2, <4>1 DEF Protected, Somewhere
    <3> QED BY <1>1, <3>1, <3>2 DEF PlaceInv, ListTypes
  <2> QED BY <1>2, <2>1 DEF Protected, Kept, lists
<1> QED BY <1>3, <1>4 DEF ProtectInv

LEMMA RetireCallProtect ==
  ASSUME SlotTypes, PlaceInv, ProtectInv, NEW t \in Threads, RetireCall(t)
  PROVE  ProtectInv'
<1>1. PICK o \in Objects : /\ status' = [status EXCEPT ![o] = "unlinked"]
                           /\ object' = [object EXCEPT ![t] = {o}]
  BY Zenon DEF RetireCall
<1>2. UNCHANGED <<global_epoch_, retire_lists_, to_free, refs, entered, late, epoch>>
  BY DEF RetireCall
<1>3. pc'[t] = "retire" /\ \A u \in Threads \ {t} : pc'[u] = pc[u] /\ object'[u] = object[u]
  BY <1>1 DEF SlotTypes, PlaceInv, ListTypes, RetireCall, Goto
<1>4. \A d \in Objects : status'[d] = "freed" => status[d] = "freed"
  BY <1>1 DEF PlaceInv, ListTypes
<1>5. \A u \in Threads : Past(u)'
  BY <1>2, <1>3 DEF ProtectInv, Past
<1>6. ASSUME NEW u \in Threads, NEW d \in refs'[u] PROVE Protected(u, d)'
  <2>1. Protected(u, d) /\ d \in Objects
    BY <1>2 DEF ProtectInv, PlaceInv, ListTypes
  <2>2. ASSUME NEW i \in Lists, Kept(u, i) PROVE Kept(u, i)'
    BY <1>2, <1>3, <2>2 DEF Kept, Threads
  <2> QED BY <1>2, <1>3, <1>4, <2>1, <2>2 DEF Protected
<1> QED BY <1>5, <1>6 DEF ProtectInv

LEMMA RetireLoadProtect ==
  ASSUME SlotInv, PlaceInv, ProtectInv, NEW t \in Threads, RetireLoad(t)
  PROVE  ProtectInv'
<1>1. UNCHANGED <<global_epoch_, lists, status, late, refs, entered>>
  BY DEF RetireLoad, client
<1>2. /\ pc'[t] = "retire_push" /\ epoch'[t] = global_epoch_ /\ global_epoch_ \in Nat
      /\ \A u \in Threads \ {t} : pc'[u] = pc[u] /\ epoch'[u] = epoch[u]
  BY DEF SlotInv, SlotTypes, RetireLoad, Goto
<1>3. \A u \in Threads : Past(u)'
  BY <1>1, <1>2 DEF ProtectInv, Past
<1>4. ASSUME NEW u \in Threads, NEW d \in refs'[u] PROVE Protected(u, d)'
  <2>1. Protected(u, d) /\ entered[u] <= global_epoch_
    BY Zenon, <1>1, ReaderEpoch DEF ProtectInv
  <2>2. ASSUME NEW i \in Lists, Kept(u, i) PROVE Kept(u, i)'
    BY <1>1, <1>2, <2>2 DEF Kept, Threads
  <2> QED BY <1>1, <1>2, <2>1, <2>2 DEF Protected, lists
<1> QED BY <1>3, <1>4 DEF ProtectInv

LEMMA Residues ==
  ASSUME NEW n \in Nat
  PROVE  n % NUM_EPOCHS # (n + 1) % NUM_EPOCHS
BY DEF NUM_EPOCHS

\* The object gets on a list that nobody is about to take over, or it is
\* late.
LEMMA RetirePushProtect ==
  ASSUME SlotInv, PlaceInv, ProtectInv, NEW t \in Threads, RetirePush(t)
  PROVE  ProtectInv'
<1>0. PICK e \in Nat : epoch[t] = e
  BY DEF SlotInv, SlotTypes
<1> DEFINE k == e % NUM_EPOCHS
<1>1. UNCHANGED <<global_epoch_, to_free, refs, entered, status>>
  BY DEF RetirePush, client
<1>2. /\ pc[t] = "retire_push" /\ pc'[t] = "advance"
      /\ \A u \in Threads \ {t} : pc'[u] = pc[u] /\ epoch'[u] = epoch[u]
  BY DEF SlotInv, SlotTypes, RetirePush, Goto, Forget
<1>3. k \in Lists /\ e \in Nat /\ e <= global_epoch_
  BY <1>0, <1>2 DEF Lists, NUM_EPOCHS, ProtectInv, Past
<1>4. \A u \in Threads : object'[u] \subseteq object[u]
  BY DEF PlaceInv, ListTypes, RetirePush
<1>5. /\ retire_lists_'[k] = retire_lists_[k] \cup object[t]
      /\ \A i \in Lists \ {k} : retire_lists_'[i] = retire_lists_[i]
  BY <1>0, <1>3 DEF PlaceInv, ListTypes, RetirePush
<1>6. /\ late \subseteq late'
      /\ (\E o \in object[t] : o \notin late') => \A u \in Retirers : ~SwapPending(u, e)
  BY <1>0 DEF RetirePush
<1>7. \A u \in Threads : Past(u)'
  BY <1>1, <1>2 DEF ProtectInv, Past
<1> HIDE DEF k
<1>8. ASSUME NEW u \in Threads, NEW d \in refs'[u] PROVE Protected(u, d)'
  <2>1. Protected(u, d)
    BY <1>1 DEF ProtectInv
  <2>2. /\ entered[u] \in Nat /\ global_epoch_ \in Nat
        /\ entered[u] <= global_epoch_ /\ global_epoch_ <= entered[u] + 1
    BY <1>1, ReaderEpoch
  <2>3. ASSUME NEW i \in Lists, Kept(u, i) PROVE Kept(u, i)'
    BY <1>1, <1>2, <2>3 DEF Kept, Threads
  <2>4. ASSUME d \in object[t], d \notin late' PROVE Kept(u, k)'
    <3>1. entered[u] <= e
      BY <1>0, <1>2, <2>1, <2>4 DEF Protected
    <3>2. e = entered[u] \/ (e = entered[u] + 1 /\ global_epoch_ = entered[u] + 1)
      BY <3>1, <1>3, <2>2
    <3>3. ASSUME NEW q \in Retirers, pc[q] = "adv_swap", (epoch[q] + 1) % NUM_EPOCHS = k PROVE FALSE
      <4>1. q \in Threads /\ epoch[q] \in Nat /\ epoch[q] + 1 <= global_epoch_
        BY Zenon, <3>3 DEF Threads, SlotInv, SlotTypes, ProtectInv, Past
      <4>2. ~(epoch[q] + 1 <= e)
        BY <3>3, <2>4, <1>6 DEF SwapPending, k
      <4>3. e = entered[u] /\ epoch[q] + 1 = e + 1
        BY <4>1, <4>2, <3>2, <2>2, <1>3
      <4>4. (epoch[q] + 1) % NUM_EPOCHS # e % NUM_EPOCHS
        BY <4>3, Residues
      <4> QED BY Zenon, <4>4, <3>3 DEF k
    <3>4. \A q \in Retirers : pc'[q] = "adv_swap" => pc[q] = "adv_swap" /\ epoch'[q] = epoch[q]
      BY <1>2 DEF Threads
    <3>5. \/ k = entered[u] % NUM_EPOCHS
          \/ k = (entered[u] + 1) % NUM_EPOCHS /\ global_epoch_ = entered[u] + 1
      BY <3>2 DEF k
    <3> QED BY Zenon, <1>1, <3>3, <3>4, <3>5 DEF Kept
  <2>5. ASSUME NEW i \in Lists, d \in retire_lists_'[i], d \notin late' PROVE Kept(u, i)'
    <3>1. d \notin late /\ (d \in retire_lists_[i] \/ (i = k /\ d \in object[t]))
      BY <2>5, <1>5, <1>6
    <3> QED BY <3>1, <2>1, <2>3, <2>4, <2>5 DEF Protected
  <2>6. \A q \in Threads : d \in object'[q] /\ pc'[q] = "retire_push" => entered'[u] <= epoch'[q]
    BY <1>1, <1>2, <1>4, <2>1 DEF Protected
  <2> QED BY <1>1, <1>6, <2>1, <2>5, <2>6 DEF Protected
<1> QED BY <1>7, <1>8 DEF ProtectInv

\* The list that the new epoch is going to use is not the one of the epoch
\* before: no reader's objects are on it.
LEMMA CasProtect ==
  ASSUME SlotInv, SlotInv', PlaceInv, PlaceInv', ProtectInv, NEW t \in Threads, AdvanceCas(t)
  PROVE  ProtectInv'
<1>1. UNCHANGED <<lists, status, late, refs, entered>>
  BY DEF AdvanceCas, client
<1>2. CASE UNCHANGED global_epoch_ /\ Goto(t, "adv_scan", "idle") /\ Forget(t)
  <2>1. \A u \in Threads : pc'[u] \in {"retire_push", "adv_swap"} => pc'[u] = pc[u] /\ epoch'[u] = epoch[u]
    BY Zenon, <1>2 DEF SlotInv, SlotTypes, Goto, Forget
  <2> QED BY <1>1, <1>2, <2>1, FrameProtect
<1>3. CASE /\ global_epoch_ = epoch[t] /\ Goto(t, "adv_scan", "adv_swap")
           /\ global_epoch_' = epoch[t] + 1 /\ UNCHANGED epoch
  <2>1. /\ global_epoch_ \in Nat /\ global_epoch_' = global_epoch_ + 1
        /\ \A u \in Threads : epoch[u] \in Nat
        /\ pc'[t] = "adv_swap" /\ \A u \in Threads \ {t} : pc'[u] = pc[u]
    BY <1>3 DEF SlotInv, SlotTypes, Goto
  <2>2. \A u \in Threads : Past(u)'
    BY <1>3, <2>1 DEF ProtectInv, Past
  <2>3. ASSUME NEW u \in Threads, NEW d \in refs'[u] PROVE Protected(u, d)'
    <3>1. Protected(u, d)
      BY <1>1 DEF ProtectInv
    <3>2. /\ entered[u] \in Nat /\ entered[u] <= global_epoch_
          /\ global_epoch_' <= entered'[u] + 1
      <4>1. entered[u] \in Nat /\ entered[u] <= global_epoch_
        BY Zenon, <1>1, ReaderEpoch
      <4>2. critical'[u]
        BY DEF PlaceInv, Holding
      <4> QED BY <4>1, <4>2 DEF SlotInv, Dated
    <3>3. global_epoch_ = entered[u]
      BY <3>2, <1>1, <2>1
    <3>4. ASSUME NEW i \in Lists, Kept(u, i) PROVE Kept(u, i)'
      <4>1. i = entered[u] % NUM_EPOCHS
        BY <3>2, <3>3, <3>4 DEF Kept
      <4>2. i # (epoch[t] + 1) % NUM_EPOCHS
        BY Zenon, <4>1, <3>2, <3>3, <1>3, Residues
      <4>3. \A q \in Retirers : pc'[q] = "adv_swap" => (epoch[q] + 1) % NUM_EPOCHS # i
        BY Zenon, <4>2, <3>4, <2>1 DEF Kept, Threads
      <4> QED BY <1>1, <1>3, <4>1, <4>3 DEF Kept
    <3> QED BY <1>1, <1>3, <2>1, <3>1, <3>4 DEF Protected, lists
  <2> QED BY <2>2, <2>3 DEF ProtectInv
<1> QED BY <1>2, <1>3 DEF AdvanceCas

LEMMA SwapProtect ==
  ASSUME SlotTypes, PlaceInv, ProtectInv, NEW t \in Retirers, AdvanceSwap(t)
  PROVE  ProtectInv'
<1> DEFINE k == (epoch[t] + 1) % NUM_EPOCHS
<1>1. UNCHANGED <<global_epoch_, object, refs, status, late, entered>>
  BY DEF AdvanceSwap, SwapList, client
<1>2. /\ t \in Threads /\ pc[t] = "adv_swap" /\ pc'[t] = "adv_free"
      /\ \A u \in Threads \ {t} : pc'[u] = pc[u] /\ epoch'[u] = epoch[u]
  BY DEF SlotTypes, AdvanceSwap, SwapList, Goto, Forget, Threads
<1>3. k \in Lists
  BY <1>2 DEF SlotTypes, Lists, NUM_EPOCHS
<1>4. /\ to_free'[t] = retire_lists_[k] /\ \A u \in Threads \ {t} : to_free'[u] = to_free[u]
      /\ \A i \in Lists : retire_lists_'[i] \subseteq retire_lists_[i]
  BY Zenon, <1>2, <1>3 DEF PlaceInv, ListTypes, AdvanceSwap, SwapList
<1>5. \A u \in Threads : Past(u)'
  BY Zenon, <1>1, <1>2 DEF ProtectInv, Past
<1>6. ASSUME NEW u \in Threads, NEW d \in refs'[u] PROVE Protected(u, d)'
  <2>1. Protected(u, d)
    BY <1>1 DEF ProtectInv
  <2>2. ASSUME NEW i \in Lists, Kept(u, i) PROVE Kept(u, i)'
    BY <1>1, <1>2, <2>2 DEF Kept, Threads
  <2>3. d \in retire_lists_[k] => d \in late
    BY <1>2, <1>3, <2>1 DEF Protected, Kept
  <2> QED BY <1>1, <1>2, <1>4, <2>1, <2>2, <2>3 DEF Protected
<1> QED BY <1>5, <1>6 DEF ProtectInv

LEMMA FreeProtect ==
  ASSUME SlotTypes, PlaceInv, ProtectInv, NEW t \in Threads, AdvanceFree(t)
  PROVE  ProtectInv'
<1>1. UNCHANGED <<global_epoch_, object, retire_lists_, refs, late, entered, epoch>>
  BY DEF AdvanceFree
<1>2. pc'[t] = "idle" /\ \A u \in Threads \ {t} : pc'[u] = pc[u]
  BY DEF SlotTypes, AdvanceFree, Goto
<1>3. \A u \in Threads : to_free'[u] \subseteq to_free[u]
  BY DEF PlaceInv, ListTypes, AdvanceFree
<1>4. \A u \in Threads : Past(u)'
  BY Zenon, <1>1, <1>2 DEF ProtectInv, Past
<1>5. ASSUME NEW u \in Threads, NEW d \in refs'[u] PROVE Protected(u, d)'
  <2>1. Protected(u, d) /\ d \in Objects
    BY Zenon, <1>1 DEF ProtectInv, PlaceInv, ListTypes
  <2>2. ASSUME NEW i \in Lists, Kept(u, i) PROVE Kept(u, i)'
    BY Zenon, <1>1, <1>2, <2>2 DEF Kept, Threads
  <2>3. status'[d] = "freed" => d \in late
    BY <2>1 DEF AdvanceFree, Protected
  <2> QED BY <1>1, <1>2, <1>3, <2>1, <2>2, <2>3 DEF Protected
<1> QED BY <1>4, <1>5 DEF ProtectInv

LEMMA LinkProtect ==
  ASSUME PlaceInv, ProtectInv, Link
  PROVE  ProtectInv'
<1>1. PICK o \in Objects : /\ status[o] = "freed"
                           /\ status' = [status EXCEPT ![o] = "linked"]
                           /\ late' = late \ {o}
  BY Zenon DEF Link
<1>2. UNCHANGED <<global_epoch_, lists, refs, entered, pc, epoch>>
  BY DEF Link
<1>3. \A u \in Threads : Past(u)'
  BY <1>2 DEF ProtectInv, Past
<1>4. ASSUME NEW u \in Threads, NEW d \in refs'[u] PROVE Protected(u, d)'
  <2>1. Protected(u, d) /\ d \in Objects
    BY <1>2 DEF ProtectInv, PlaceInv, ListTypes
  <2>2. CASE d = o
    <3>1. ~Somewhere(o) /\ status'[o] = "linked"
      BY Zenon, <1>1 DEF PlaceInv, ListTypes, Placed
    <3> QED BY <1>2, <2>2, <3>1 DEF Protected, Somewhere, lists
  <2>3. CASE d # o
    <3>1. status'[d] = status[d] /\ (d \in late' <=> d \in late)
      BY Zenon, <1>1, <2>1, <2>3 DEF PlaceInv, ListTypes
    <3> QED BY Zenon, <1>2, <2>1, <3>1 DEF Protected, Kept, lists
  <2> QED BY <2>2, <2>3
<1> QED BY <1>3, <1>4 DEF ProtectInv

LEMMA DestroyProtect ==
  ASSUME PlaceInv, ProtectInv, Destroy
  PROVE  ProtectInv'
<1>1. \A t \in Threads : refs'[t] = {}
  BY DEF PlaceInv, Holding, Destroy
<1>2. \A t \in Threads : pc'[t] = "destroyed"
  BY DEF Destroy
<1> QED BY <1>1, <1>2 DEF ProtectInv, Past

LEMMA NextProtect ==
  ASSUME SlotInv, SlotInv', PlaceInv, PlaceInv', ProtectInv, [Next]_vars
  PROVE  ProtectInv'
<1>1. SlotTypes
  BY DEF SlotInv
<1>2. ASSUME NEW t \in Readers, Register(t) \/ Unregister(t) \/ Guard(t) PROVE ProtectInv'
  BY <1>1, <1>2, SlotProtect, GuardProtect, ReadProtect DEF Guard, Threads
<1>3. ASSUME NEW t \in Retirers, Retire(t) PROVE ProtectInv'
  BY <1>1, <1>3, RetireCallProtect, RetireLoadProtect, RetirePushProtect DEF Retire, Threads
<1>4. ASSUME NEW t \in Retirers, TryAdvance(t) PROVE ProtectInv'
  BY Zenon, <1>1, <1>4, SlotProtect, CasProtect, SwapProtect, FreeProtect DEF TryAdvance, Threads
<1>5. CASE UNCHANGED vars
  BY <1>5, FrameProtect DEF vars, client
<1> QED BY <1>2, <1>3, <1>4, <1>5, LinkProtect, DestroyProtect DEF Next

-----------------------------------------------------------------------------
(* Theorems *)

\* The inductive invariant of the reclaimer holds in every reachable state.
THEOREM Invariance == ASSUME RegisterOneByOne PROVE Spec => [](SlotInv /\ PlaceInv /\ ProtectInv)
<1>1. Init => PlaceInv /\ ProtectInv
  BY InitPlaces, InitProtect
<1>2. SlotInv /\ PlaceInv /\ [Next]_vars => PlaceInv'
  BY NextPlaces DEF SlotInv
<1>3. SlotInv /\ SlotInv' /\ PlaceInv /\ PlaceInv' /\ ProtectInv /\ [Next]_vars => ProtectInv'
  BY NextProtect
<1> QED BY <1>1, <1>2, <1>3, SlotInvariance, PTL DEF Spec

\* An object that a reader has reached in its critical section is freed
\* before the reader leaves only if its retire put it on the list between
\* another thread's compare-exchange and that thread's swap of the list.
THEOREM LateOnly == ASSUME RegisterOneByOne PROVE Spec => []OnlyLateFreedEarly
<1>1. ProtectInv => OnlyLateFreedEarly
  BY DEF ProtectInv, Protected, OnlyLateFreedEarly
<1> QED BY <1>1, Invariance, PTL

\* Every retired object is at exactly one place until its deleter runs.
THEOREM FreedOnce == ASSUME RegisterOneByOne PROVE Spec => []RetiredOnce
<1>1. PlaceInv => RetiredOnce
  <2> SUFFICES ASSUME PlaceInv, NEW o \in Objects
               PROVE  LET places == {<<"call", t>> : t \in {u \in Threads : o \in object[u]}} \cup
                                    {<<"list", i>> : i \in {j \in DOMAIN retire_lists_ : o \in retire_lists_[j]}} \cup
                                    {<<"free", t>> : t \in {u \in Threads : o \in to_free[u]}}
                      IN  IF status[o] = "unlinked" THEN \E p \in places : places = {p} ELSE places = {}
    BY Zenon DEF RetiredOnce
  <2> DEFINE calls == {u \in Threads : o \in object[u]}
             onLists == {j \in Lists : o \in retire_lists_[j]}
             frees == {u \in Threads : o \in to_free[u]}
             places == {<<"call", t>> : t \in calls} \cup {<<"list", i>> : i \in onLists} \cup
                       {<<"free", t>> : t \in frees}
  <2>1. Placed(o) /\ DOMAIN retire_lists_ = Lists
    BY Zenon DEF PlaceInv, ListTypes
  <2>2. CASE status[o] # "unlinked"
    <3>1. calls = {} /\ onLists = {} /\ frees = {}
      BY <2>1, <2>2 DEF Placed, Somewhere
    <3>2. places = {}
      BY Zenon, <3>1
    <3> QED BY <2>1, <2>2, <3>2
  <2>3. CASE status[o] = "unlinked"
    <3>1. \/ \E t \in Threads : calls = {t} /\ onLists = {} /\ frees = {}
          \/ \E i \in Lists : calls = {} /\ onLists = {i} /\ frees = {}
          \/ \E t \in Threads : calls = {} /\ onLists = {} /\ frees = {t}
      <4>1. CASE \E t \in Threads : o \in object[t]
        BY <2>1, <4>1 DEF Placed, OnePlace
      <4>2. CASE \E t \in Threads : o \in to_free[t]
        BY <2>1, <4>2 DEF Placed, OnePlace
      <4>3. CASE \E i \in Lists : o \in retire_lists_[i]
        BY <2>1, <4>3 DEF Placed, OnePlace
      <4> QED BY Zenon, <2>1, <2>3, <4>1, <4>2, <4>3 DEF Placed, Somewhere
    <3> HIDE DEF calls, onLists, frees
    <3>2. \E p \in places : places = {p}
      <4>1. ASSUME NEW t \in Threads, calls = {t}, onLists = {}, frees = {} PROVE places = {<<"call", t>>}
        BY <4>1
      <4>2. ASSUME NEW i \in Lists, calls = {}, onLists = {i}, frees = {} PROVE places = {<<"list", i>>}
        BY <4>2
      <4>3. ASSUME NEW t \in Threads, calls = {}, onLists = {}, frees = {t} PROVE places = {<<"free", t>>}
        BY <4>3
      <4> HIDE DEF places
      <4> QED BY Zenon, <3>1, <4>1, <4>2, <4>3
    <3> QED BY Zenon, <2>1, <2>3, <3>2 DEF calls, onLists, frees
  <2> QED BY Zenon, <2>2, <2>3
<1> QED BY <1>1, Invariance, PTL

\* With a single retirer, nothing is freed under a reader: the guarantee for
\* which the reclaimer exists, and which a second retirer breaks.
THEOREM SafeReclamation ==
  ASSUME RegisterOneByOne, NEW r, Retirers = {r}
  PROVE  Spec => []NoUseAfterFree
<1>1. Init => late = {}
  BY DEF Init
<1>2. late = {} /\ [Next]_vars => (late = {})'
  <2> SUFFICES ASSUME late = {}, [Next]_vars PROVE late' = {}
    OBVIOUS
  <2>1. CASE RetirePush(r)
    <3>1. ~SwapPending(r, epoch[r])
      BY Zenon, <2>1 DEF RetirePush, Goto, SwapPending
    <3> QED BY <2>1, <3>1 DEF RetirePush
  <2>2. ASSUME NEW t \in Readers, Register(t) \/ Unregister(t) PROVE late' = {}
    BY Zenon, <2>2 DEF Register, RegisterCall, RegisterScan, RegisterTake, RegisterClear, RegisterNone,
                Unregister, UnregisterCall, UnregisterEnd
  <2>3. ASSUME NEW t \in Readers, Guard(t) PROVE late' = {}
    <3>1. CASE EnterLoad(t) \/ EnterPublish(t)
      BY Zenon, <3>1 DEF EnterLoad, EnterPublish
    <3>2. CASE Read(t) \/ Leave(t)
      BY Zenon, <3>2 DEF Read, Leave, client
    <3> QED BY Zenon, <2>3, <3>1, <3>2 DEF Guard
  <2>4. CASE RetireCall(r) \/ RetireLoad(r) \/ TryAdvance(r)
    <3>1. CASE RetireCall(r) \/ RetireLoad(r)
      BY <3>1 DEF RetireCall, RetireLoad
    <3>2. CASE AdvanceLoad(r) \/ AdvanceScan(r) \/ AdvanceCas(r)
      BY <3>2 DEF AdvanceLoad, AdvanceScan, AdvanceCas
    <3>3. CASE AdvanceSwap(r) \/ AdvanceFree(r)
      BY <3>3 DEF AdvanceSwap, SwapList, AdvanceFree
    <3> QED BY Zenon, <2>4, <3>1, <3>2, <3>3 DEF TryAdvance
  <2>5. CASE Link \/ Destroy \/ UNCHANGED vars
    BY <2>5 DEF Link, Destroy, vars
  <2> QED BY <2>1, <2>2, <2>3, <2>4, <2>5 DEF Next, Retire
<1>3. late = {} /\ OnlyLateFreedEarly => NoUseAfterFree
  BY DEF OnlyLateFreedEarly, NoUseAfterFree
<1> QED BY <1>1, <1>2, <1>3, LateOnly, PTL DEF Spec
=============================================================================
