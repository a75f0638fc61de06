----------------------------- MODULE EpochSlots -----------------------------
(***************************************************************************)
(* If threads register one at a time, then for every number of threads and *)
(* slots no two threads share a slot, and a thread in a critical section   *)
(* lets the epoch move at most one further.  The second part says where an *)
(* object is between its retirement and its deletion, for the steps that   *)
(* leave the objects where they are.                                       *)
(***************************************************************************)
EXTENDS EpochReclaimer, TLAPS

SlotTypes ==
  /\ global_epoch_ \in Nat
  /\ local_epoch \in [Slots -> Nat \cup {Inactive}]
  /\ in_use \in [Slots -> BOOLEAN]
  /\ pc \in [Threads -> {"reg_scan", "reg_take", "reg_clear", "unregister", "idle",
                         "enter", "retire", "retire_push", "advance", "adv_scan", "adv_swap", "adv_free", "destroyed"}]
  /\ tid \in [Threads -> -1 .. MaxThreads - 1]
  /\ critical \in [Threads -> BOOLEAN]
  /\ epoch \in [Threads -> Nat]
  /\ scan \in [Threads -> 0 .. MaxThreads]
  /\ entered \in [Threads -> Nat]

Registering(t) == pc[t] \in {"reg_scan", "reg_take", "reg_clear"}

\* A thread has a slot or is looking for one.
Slotted(t) ==
  /\ tid[t] # -1 => in_use[tid[t]]
  /\ Registering(t) => tid[t] = -1
  /\ pc[t] \in {"enter", "unregister"} => tid[t] # -1 /\ ~critical[t]
  /\ critical[t] => tid[t] # -1
  /\ pc[t] = "reg_take" => scan[t] \in Slots /\ ~in_use[scan[t]]
  /\ pc[t] = "reg_clear" => scan[t] \in Slots /\ in_use[scan[t]]
  /\ pc[t] = "advance" => scan[t] = 0

\* No two threads have a slot in common, nor do they look for one together.
Apart(t, u) ==
  /\ Registering(t) => ~Registering(u)
  /\ tid[t] # -1 => tid[t] # tid[u]
  /\ pc[t] = "reg_clear" => scan[t] # tid[u]

\* The epochs that a thread has loaded or published are not in the future.
Dated(t) ==
  /\ pc[t] \in {"enter", "adv_scan"} => epoch[t] <= global_epoch_
  /\ critical[t] => /\ local_epoch[tid[t]] \in Nat /\ local_epoch[tid[t]] <= entered[t]
                    /\ entered[t] <= global_epoch_ /\ global_epoch_ <= entered[t] + 1

\* A scan for an epoch after t entered does not get past the slot of t.
Stopped(t, u) ==
  pc[u] = "adv_scan" /\ critical[t] /\ entered[t] < epoch[u] => scan[u] <= tid[t]

SlotInv ==
  /\ SlotTypes
  /\ \A t \in Threads : Slotted(t) /\ Dated(t)
  /\ \A t, u \in Threads : t # u => Apart(t, u)
  /\ \A t, u \in Threads : Stopped(t, u)

-----------------------------------------------------------------------------

LEMMA InitSlots == ASSUME Init PROVE SlotInv
<1>1. SlotTypes
  BY EpochReclaimerAssumption DEF Init, SlotTypes, Inactive, Slots
<1> QED
  BY <1>1 DEF Init, SlotInv, Slotted, Registering, Apart, Dated, Stopped

\* The steps that neither change a slot nor look at one: each thread stays
\* where it is, or goes where the slots do not matter.
Elsewhere == {"idle", "retire", "retire_push", "advance", "adv_swap", "adv_free", "destroyed"}

\* No two threads come to share a slot while none begins to look for one.
LEMMA FrameApart ==
  ASSUME SlotInv, UNCHANGED tid,
         \A t \in Threads : ~Registering(t)' \/ (pc'[t] = pc[t] /\ scan'[t] = scan[t])
  PROVE  \A t, u \in Threads : t # u => Apart(t, u)'
<1> SUFFICES ASSUME NEW t \in Threads, NEW u \in Threads, t # u PROVE Apart(t, u)'
  OBVIOUS
<1>1. Apart(t, u)
  BY DEF SlotInv
<1> QED BY <1>1 DEF Apart, Registering

LEMMA CalmSlots ==
  ASSUME SlotInv, SlotTypes',
         UNCHANGED <<global_epoch_, local_epoch, in_use, tid, critical, entered>>,
         \A t \in Threads :
           \/ pc'[t] = pc[t] /\ epoch'[t] = epoch[t] /\ scan'[t] = scan[t]
           \/ pc'[t] \in Elsewhere /\ (pc'[t] = "advance" => scan'[t] = 0)
  PROVE  SlotInv'
<1>1. ASSUME NEW t \in Threads PROVE Slotted(t)' /\ Dated(t)'
  BY DEF SlotInv, Slotted, Registering, Dated, Elsewhere
<1>2. ASSUME NEW t \in Threads, NEW u \in Threads, t # u PROVE Apart(t, u)'
  BY <1>2 DEF SlotInv, Apart, Registering, Elsewhere
<1>3. ASSUME NEW t \in Threads, NEW u \in Threads PROVE Stopped(t, u)'
  BY DEF SlotInv, Stopped, Elsewhere
<1> QED BY <1>1, <1>2, <1>3 DEF SlotInv

\* The types of pc, epoch and scan when one thread moves.
LEMMA MoveTypes ==
  ASSUME SlotTypes, NEW t \in Threads, NEW from, NEW to \in Elsewhere, Goto(t, from, to), Forget(t),
         UNCHANGED <<global_epoch_, local_epoch, in_use, tid, critical, entered>>
  PROVE  /\ SlotTypes'
         /\ \A u \in Threads :
              \/ pc'[u] = pc[u] /\ epoch'[u] = epoch[u] /\ scan'[u] = scan[u]
              \/ pc'[u] \in Elsewhere /\ (pc'[u] = "advance" => scan'[u] = 0)
<1>1. /\ pc' \in [Threads -> {"reg_scan", "reg_take", "reg_clear", "unregister", "idle",
                   "enter", "retire", "retire_push", "advance", "adv_scan", "adv_swap", "adv_free", "destroyed"}]
      /\ epoch' \in [Threads -> Nat] /\ scan' \in [Threads -> 0 .. MaxThreads]
  BY EpochReclaimerAssumption DEF SlotTypes, Goto, Forget, Elsewhere
<1>2. \A u \in Threads \ {t} : pc'[u] = pc[u] /\ epoch'[u] = epoch[u] /\ scan'[u] = scan[u]
  BY DEF SlotTypes, Goto, Forget
<1>3. pc'[t] \in Elsewhere /\ scan'[t] = 0
  BY DEF SlotTypes, Goto, Forget
<1> QED BY <1>1, <1>2, <1>3 DEF SlotTypes

LEMMA ForgetSlots ==
  ASSUME SlotInv, NEW t \in Threads, NEW from, NEW to \in Elsewhere, Goto(t, from, to), Forget(t),
         UNCHANGED <<global_epoch_, local_epoch, in_use, tid, critical, entered>>
  PROVE  SlotInv'
BY MoveTypes, CalmSlots DEF SlotInv

LEMMA RegisterCallSlots ==
  ASSUME RegisterOneByOne, SlotInv, NEW t \in Threads, RegisterCall(t)
  PROVE  SlotInv'
<1>1. /\ UNCHANGED <<global_epoch_, local_epoch, in_use, tid, critical, epoch, scan, entered>>
      /\ \A u \in Threads : ~Registering(u)
      /\ tid[t] = -1
      /\ pc'[t] = "reg_scan" /\ \A u \in Threads \ {t} : pc'[u] = pc[u]
  BY DEF SlotInv, SlotTypes, RegisterCall, Goto, slots, Registering
<1>2. SlotTypes'
  BY <1>1 DEF SlotInv, SlotTypes, RegisterCall, Goto
<1>3. ASSUME NEW u \in Threads PROVE Slotted(u)' /\ Dated(u)'
  BY <1>1 DEF SlotInv, Slotted, Registering, Dated
<1>4. ASSUME NEW u \in Threads, NEW q \in Threads, u # q PROVE Apart(u, q)'
  BY <1>1, <1>4 DEF SlotInv, Apart, Registering
<1>5. ASSUME NEW u \in Threads, NEW q \in Threads PROVE Stopped(u, q)'
  BY <1>1 DEF SlotInv, Stopped
<1> QED BY <1>2, <1>3, <1>4, <1>5 DEF SlotInv

LEMMA RegisterScanSlots ==
  ASSUME SlotInv, NEW t \in Threads, RegisterScan(t)
  PROVE  SlotInv'
<1>1. /\ UNCHANGED <<global_epoch_, local_epoch, in_use, tid, critical, epoch, entered>>
      /\ pc[t] = "reg_scan" /\ pc'[t] \in {"reg_scan", "reg_take"}
      /\ pc'[t] = "reg_take" => scan'[t] \in Slots /\ ~in_use[scan'[t]]
      /\ \A u \in Threads \ {t} : pc'[u] = pc[u] /\ scan'[u] = scan[u]
  <2>1. CASE ~in_use[scan[t]] /\ Goto(t, "reg_scan", "reg_take") /\ UNCHANGED scan
    BY <2>1, EpochReclaimerAssumption DEF SlotInv, SlotTypes, RegisterScan, Goto, slots, Slots
  <2>2. CASE pc[t] = "reg_scan" /\ UNCHANGED pc /\ scan' = [scan EXCEPT ![t] = @ + 1]
    BY <2>2 DEF SlotInv, SlotTypes, RegisterScan, slots
  <2> QED BY <2>1, <2>2 DEF RegisterScan
<1>2. SlotTypes'
  BY EpochReclaimerAssumption DEF SlotInv, SlotTypes, RegisterScan, Goto, slots
<1>3. ASSUME NEW u \in Threads PROVE Slotted(u)' /\ Dated(u)'
  BY <1>1 DEF SlotInv, Slotted, Registering, Dated
<1>4. ASSUME NEW u \in Threads, NEW q \in Threads, u # q PROVE Apart(u, q)'
  BY <1>1, <1>4 DEF SlotInv, Apart, Registering
<1>5. ASSUME NEW u \in Threads, NEW q \in Threads PROVE Stopped(u, q)'
  BY <1>1 DEF SlotInv, Stopped
<1> QED BY <1>2, <1>3, <1>4, <1>5 DEF SlotInv

LEMMA RegisterTakeSlots ==
  ASSUME SlotInv, NEW t \in Threads, RegisterTake(t)
  PROVE  SlotInv'
<1>1. /\ UNCHANGED <<global_epoch_, local_epoch, tid, critical, epoch, scan, entered>>
      /\ pc[t] = "reg_take" /\ pc'[t] = "reg_clear"
      /\ \A u \in Threads \ {t} : pc'[u] = pc[u]
  BY DEF SlotInv, SlotTypes, RegisterTake, Goto
<1>2. scan[t] \in Slots /\ ~in_use[scan[t]]
  BY <1>1 DEF SlotInv, Slotted
<1>3. in_use'[scan[t]] /\ \A i \in Slots \ {scan[t]} : in_use'[i] = in_use[i]
  BY <1>2 DEF SlotInv, SlotTypes, RegisterTake
<1>4. SlotTypes'
  BY Zenon, <1>1 DEF SlotInv, SlotTypes, RegisterTake, Goto
<1>5. \A u \in Threads : tid[u] # -1 => tid[u] \in Slots /\ tid[u] # scan[t]
  <2>1. \A u \in Threads : tid[u] # -1 => tid[u] \in Slots
    BY EpochReclaimerAssumption DEF SlotInv, SlotTypes, Slots
  <2> QED BY <2>1, <1>2 DEF SlotInv, Slotted
<1>6. ASSUME NEW u \in Threads PROVE Slotted(u)' /\ Dated(u)'
  <2>1. Dated(u)'
    BY <1>1 DEF SlotInv, Dated
  <2>2. u # t => ~Registering(u)
    BY <1>1 DEF SlotInv, Apart, Registering
  <2>3. Slotted(u)'
    BY <1>1, <1>2, <1>3, <1>5, <2>2 DEF SlotInv, Slotted, Registering
  <2> QED BY <2>1, <2>3
<1>7. ASSUME NEW u \in Threads, NEW q \in Threads, u # q PROVE Apart(u, q)'
  <2>1. -1 # scan[t]
    BY <1>2, EpochReclaimerAssumption DEF Slots
  <2> QED BY <1>1, <1>5, <1>7, <2>1 DEF SlotInv, Apart, Registering
<1>8. ASSUME NEW u \in Threads, NEW q \in Threads PROVE Stopped(u, q)'
  BY <1>1 DEF SlotInv, Stopped
<1> QED BY <1>4, <1>6, <1>7, <1>8 DEF SlotInv

LEMMA RegisterClearSlots ==
  ASSUME SlotInv, NEW t \in Threads, RegisterClear(t)
  PROVE  SlotInv'
<1>1. /\ UNCHANGED <<global_epoch_, in_use, critical, entered>>
      /\ pc[t] = "reg_clear" /\ pc'[t] = "idle" /\ tid'[t] = scan[t]
      /\ \A u \in Threads \ {t} :
           pc'[u] = pc[u] /\ tid'[u] = tid[u] /\ epoch'[u] = epoch[u] /\ scan'[u] = scan[u]
  BY DEF SlotInv, SlotTypes, RegisterClear, Goto, Forget
<1>2. scan[t] \in Slots /\ in_use[scan[t]] /\ ~critical[t]
  BY <1>1 DEF SlotInv, Slotted, Registering
<1>3. \A i \in Slots \ {scan[t]} : local_epoch'[i] = local_epoch[i]
  BY <1>2 DEF SlotInv, SlotTypes, RegisterClear
<1>4. SlotTypes'
  <2>1. local_epoch' \in [Slots -> Nat \cup {Inactive}]
    BY <1>2 DEF SlotInv, SlotTypes, RegisterClear
  <2>2. tid' \in [Threads -> -1 .. MaxThreads - 1]
    BY <1>2, EpochReclaimerAssumption DEF SlotInv, SlotTypes, RegisterClear, Slots
  <2>3. /\ pc' \in [Threads -> {"reg_scan", "reg_take", "reg_clear", "unregister", "idle",
                   "enter", "retire", "retire_push", "advance", "adv_scan", "adv_swap", "adv_free", "destroyed"}]
        /\ epoch' \in [Threads -> Nat] /\ scan' \in [Threads -> 0 .. MaxThreads]
    BY EpochReclaimerAssumption DEF SlotInv, SlotTypes, RegisterClear, Goto, Forget
  <2> QED BY <1>1, <2>1, <2>2, <2>3 DEF SlotInv, SlotTypes
<1>5. \A u \in Threads \ {t} : tid[u] # scan[t] /\ ~Registering(u)
  BY <1>1 DEF SlotInv, Apart, Registering
<1>6. \A u \in Threads : tid[u] # -1 => tid[u] \in Slots
  BY EpochReclaimerAssumption DEF SlotInv, SlotTypes, Slots
<1>7. ASSUME NEW u \in Threads PROVE Slotted(u)' /\ Dated(u)'
  <2>1. CASE u = t
    BY <1>1, <1>2, <2>1 DEF Slotted, Registering, Dated
  <2>2. CASE u # t
    <3>1. Slotted(u) /\ Dated(u)
      BY DEF SlotInv
    <3>2. critical[u] => local_epoch'[tid[u]] = local_epoch[tid[u]]
      BY <3>1, <2>2, <1>3, <1>5, <1>6 DEF Slotted
    <3> QED BY <3>1, <3>2, <2>2, <1>1 DEF Slotted, Registering, Dated
  <2> QED BY <2>1, <2>2
<1>8. ASSUME NEW u \in Threads, NEW q \in Threads, u # q PROVE Apart(u, q)'
  BY <1>1, <1>5, <1>8 DEF SlotInv, Apart, Registering
<1>9. ASSUME NEW u \in Threads, NEW q \in Threads PROVE Stopped(u, q)'
  BY <1>1, <1>2 DEF SlotInv, Stopped
<1> QED BY <1>4, <1>7, <1>8, <1>9 DEF SlotInv

\* A thread that changes its own slot leaves those of the others alone.
LEMMA OwnSlot ==
  ASSUME SlotInv, NEW t \in Threads, tid[t] # -1, NEW e, local_epoch' = [local_epoch EXCEPT ![tid[t]] = e]
  PROVE  /\ tid[t] \in Slots /\ local_epoch'[tid[t]] = e
         /\ \A u \in Threads \ {t} : tid[u] # -1 => local_epoch'[tid[u]] = local_epoch[tid[u]]
<1>1. \A u \in Threads : tid[u] # -1 => tid[u] \in Slots
  BY EpochReclaimerAssumption DEF SlotInv, SlotTypes, Slots
<1>2. \A u \in Threads \ {t} : tid[u] # tid[t]
  BY DEF SlotInv, Apart
<1> QED BY <1>1, <1>2 DEF SlotInv, SlotTypes

LEMMA UnregisterCallSlots ==
  ASSUME SlotInv, NEW t \in Threads, UnregisterCall(t)
  PROVE  SlotInv'
<1>1. /\ UNCHANGED <<global_epoch_, in_use, tid, critical, epoch, scan, entered>>
      /\ pc[t] = "idle" /\ pc'[t] = "unregister" /\ tid[t] # -1 /\ ~critical[t]
      /\ \A u \in Threads \ {t} : pc'[u] = pc[u]
  BY DEF SlotInv, SlotTypes, UnregisterCall, Goto
<1>2. /\ tid[t] \in Slots
      /\ \A u \in Threads \ {t} : tid[u] # -1 => local_epoch'[tid[u]] = local_epoch[tid[u]]
  BY Zenon, <1>1, OwnSlot DEF UnregisterCall
<1>3. SlotTypes'
  BY <1>1, <1>2 DEF SlotInv, SlotTypes, UnregisterCall, Goto
<1>4. ASSUME NEW u \in Threads PROVE Slotted(u)' /\ Dated(u)'
  <2>1. Slotted(u) /\ Dated(u)
    BY DEF SlotInv
  <2> QED BY <1>1, <1>2, <2>1 DEF Slotted, Registering, Dated
<1>5. ASSUME NEW u \in Threads, NEW q \in Threads, u # q PROVE Apart(u, q)'
  BY <1>1, <1>5 DEF SlotInv, Apart, Registering
<1>6. ASSUME NEW u \in Threads, NEW q \in Threads PROVE Stopped(u, q)'
  BY <1>1 DEF SlotInv, Stopped
<1> QED BY <1>3, <1>4, <1>5, <1>6 DEF SlotInv

LEMMA UnregisterEndSlots ==
  ASSUME SlotInv, NEW t \in Threads, UnregisterEnd(t)
  PROVE  SlotInv'
<1>1. /\ UNCHANGED <<global_epoch_, local_epoch, critical, epoch, scan, entered>>
      /\ pc[t] = "unregister" /\ pc'[t] = "idle" /\ tid'[t] = -1
      /\ \A u \in Threads \ {t} : pc'[u] = pc[u] /\ tid'[u] = tid[u]
  BY DEF SlotInv, SlotTypes, UnregisterEnd, Goto
<1>2. tid[t] # -1 /\ ~critical[t] /\ tid[t] \in Slots
  BY <1>1, EpochReclaimerAssumption DEF SlotInv, SlotTypes, Slotted, Slots
<1>3. ~in_use'[tid[t]] /\ \A i \in Slots \ {tid[t]} : in_use'[i] = in_use[i]
  BY <1>2 DEF SlotInv, SlotTypes, UnregisterEnd
<1>4. SlotTypes'
  <2>1. tid' \in [Threads -> -1 .. MaxThreads - 1] /\ in_use' \in [Slots -> BOOLEAN]
    BY <1>2, EpochReclaimerAssumption DEF SlotInv, SlotTypes, UnregisterEnd
  <2> QED BY <1>1, <2>1 DEF SlotInv, SlotTypes, UnregisterEnd, Goto
<1>5. \A u \in Threads \ {t} : tid[u] # tid[t] /\ (tid[u] # -1 => tid[u] \in Slots)
  BY <1>2, EpochReclaimerAssumption DEF SlotInv, SlotTypes, Apart, Slots
<1>6. \A u \in Threads \ {t} : pc[u] = "reg_clear" => scan[u] # tid[t]
  BY Zenon DEF SlotInv, Apart
<1>7. ASSUME NEW u \in Threads PROVE Slotted(u)' /\ Dated(u)'
  <2>1. Slotted(u) /\ Dated(u)
    BY DEF SlotInv
  <2>2. CASE u = t
    BY <1>1, <1>2, <2>1, <2>2 DEF Slotted, Registering, Dated
  <2>3. CASE u # t
    <3>1. Dated(u)'
      BY <1>1, <2>1, <2>3 DEF Dated
    <3>2. Slotted(u)'
      BY <1>1, <1>3, <1>5, <1>6, <2>1, <2>3 DEF Slotted, Registering
    <3> QED BY <3>1, <3>2
  <2> QED BY <2>2, <2>3
<1>8. ASSUME NEW u \in Threads, NEW q \in Threads, u # q PROVE Apart(u, q)'
  <2>1. pc[u] = "reg_clear" => scan[u] # -1
    BY EpochReclaimerAssumption DEF SlotInv, SlotTypes
  <2> QED BY <1>1, <1>8, <2>1 DEF SlotInv, Apart, Registering
<1>9. ASSUME NEW u \in Threads, NEW q \in Threads PROVE Stopped(u, q)'
  BY <1>1, <1>2 DEF SlotInv, Stopped
<1> QED BY <1>4, <1>7, <1>8, <1>9 DEF SlotInv

\* An epoch is loaded by a thread that is going to publish it, or to scan.
LEMMA LoadSlots ==
  ASSUME SlotInv, NEW t \in Threads, EnterLoad(t) \/ AdvanceLoad(t)
  PROVE  SlotInv'
<1>1. /\ UNCHANGED <<global_epoch_, local_epoch, in_use, tid, critical, scan, entered>>
      /\ pc'[t] \in {"enter", "adv_scan"} /\ epoch'[t] = global_epoch_
      /\ pc'[t] = "enter" => tid[t] # -1 /\ ~critical[t]
      /\ pc'[t] = "adv_scan" => pc[t] = "advance"
      /\ \A u \in Threads \ {t} : pc'[u] = pc[u] /\ epoch'[u] = epoch[u]
  BY DEF SlotInv, SlotTypes, EnterLoad, AdvanceLoad, Goto, slots
<1>2. SlotTypes'
  BY <1>1 DEF SlotInv, SlotTypes, EnterLoad, AdvanceLoad, Goto
<1>3. ASSUME NEW u \in Threads PROVE Slotted(u)' /\ Dated(u)'
  <2>1. Slotted(u) /\ Dated(u) /\ global_epoch_ \in Nat
    BY Zenon DEF SlotInv, SlotTypes
  <2> QED BY <1>1, <2>1 DEF Slotted, Registering, Dated
<1>4. \A u, q \in Threads : u # q => Apart(u, q)'
  <2>1. \A u \in Threads : ~Registering(u)' \/ (pc'[u] = pc[u] /\ scan'[u] = scan[u])
    BY <1>1 DEF Registering
  <2> QED BY Zenon, <1>1, <2>1, FrameApart
<1>5. ASSUME NEW u \in Threads, NEW q \in Threads PROVE Stopped(u, q)'
  <2>1. critical[u] => 0 <= tid[u]
    BY EpochReclaimerAssumption DEF SlotInv, SlotTypes, Slotted
  <2>2. pc[t] = "advance" => scan[t] = 0
    BY DEF SlotInv, Slotted
  <2> QED BY <1>1, <2>1, <2>2 DEF SlotInv, Stopped
<1> QED BY <1>2, <1>3, <1>4, <1>5 DEF SlotInv

LEMMA EnterPublishSlots ==
  ASSUME SlotInv, NEW t \in Threads, EnterPublish(t)
  PROVE  SlotInv'
<1>1. /\ UNCHANGED <<global_epoch_, in_use, tid>>
      /\ pc[t] = "enter" /\ pc'[t] = "idle" /\ critical'[t] /\ entered'[t] = global_epoch_
      /\ \A u \in Threads \ {t} :
           /\ pc'[u] = pc[u] /\ epoch'[u] = epoch[u] /\ scan'[u] = scan[u]
           /\ critical'[u] = critical[u] /\ entered'[u] = entered[u]
  BY DEF SlotInv, SlotTypes, EnterPublish, Goto, Forget
<1>2. tid[t] # -1 /\ epoch[t] \in Nat /\ epoch[t] <= global_epoch_ /\ global_epoch_ \in Nat
  BY <1>1 DEF SlotInv, SlotTypes, Slotted, Dated
<1>3. /\ tid[t] \in Slots /\ local_epoch'[tid[t]] = epoch[t]
      /\ \A u \in Threads \ {t} : tid[u] # -1 => local_epoch'[tid[u]] = local_epoch[tid[u]]
  BY Zenon, <1>2, OwnSlot DEF EnterPublish
<1>4. SlotTypes'
  <2>1. local_epoch' \in [Slots -> Nat \cup {Inactive}]
    BY <1>2, <1>3 DEF SlotInv, SlotTypes, EnterPublish
  <2>2. /\ pc' \in [Threads -> {"reg_scan", "reg_take", "reg_clear", "unregister", "idle",
                   "enter", "retire", "retire_push", "advance", "adv_scan", "adv_swap", "adv_free", "destroyed"}]
        /\ epoch' \in [Threads -> Nat] /\ scan' \in [Threads -> 0 .. MaxThreads]
    BY EpochReclaimerAssumption DEF SlotInv, SlotTypes, EnterPublish, Goto, Forget
  <2>3. critical' \in [Threads -> BOOLEAN] /\ entered' \in [Threads -> Nat]
    BY DEF SlotInv, SlotTypes, EnterPublish
  <2> QED BY <1>1, <2>1, <2>2, <2>3 DEF SlotInv, SlotTypes
<1>5. ASSUME NEW u \in Threads PROVE Slotted(u)' /\ Dated(u)'
  <2>1. Slotted(u) /\ Dated(u)
    BY DEF SlotInv
  <2>2. CASE u = t
    BY <1>1, <1>2, <1>3, <2>1, <2>2 DEF Slotted, Registering, Dated
  <2>3. CASE u # t
    BY <1>1, <1>3, <2>1, <2>3 DEF Slotted, Registering, Dated
  <2> QED BY <2>2, <2>3
<1>6. \A u, q \in Threads : u # q => Apart(u, q)'
  <2>1. \A u \in Threads : ~Registering(u)' \/ (pc'[u] = pc[u] /\ scan'[u] = scan[u])
    BY <1>1 DEF Registering
  <2> QED BY Zenon, <1>1, <2>1, FrameApart
<1>7. ASSUME NEW u \in Threads, NEW q \in Threads PROVE Stopped(u, q)'
  <2>1. pc[q] = "adv_scan" => epoch[q] \in Nat /\ epoch[q] <= global_epoch_
    BY DEF SlotInv, SlotTypes, Dated
  <2> QED BY <1>1, <1>2, <2>1 DEF SlotInv, Stopped
<1> QED BY <1>4, <1>5, <1>6, <1>7 DEF SlotInv

LEMMA LeaveSlots ==
  ASSUME SlotInv, NEW t \in Threads, Leave(t)
  PROVE  SlotInv'
<1>1. /\ UNCHANGED <<global_epoch_, in_use, tid, pc, epoch, scan>>
      /\ critical[t] /\ ~critical'[t]
      /\ \A u \in Threads \ {t} : critical'[u] = critical[u] /\ entered'[u] = entered[u]
  BY Zenon DEF SlotInv, SlotTypes, Leave
<1>2. tid[t] # -1
  BY <1>1 DEF SlotInv, Slotted
<1>3. /\ tid[t] \in Slots
      /\ \A u \in Threads \ {t} : tid[u] # -1 => local_epoch'[tid[u]] = local_epoch[tid[u]]
  BY Zenon, <1>2, OwnSlot DEF Leave
<1>4. SlotTypes'
  <2>1. local_epoch' \in [Slots -> Nat \cup {Inactive}]
    BY <1>3 DEF SlotInv, SlotTypes, Leave
  <2>2. critical' \in [Threads -> BOOLEAN] /\ entered' \in [Threads -> Nat]
    BY DEF SlotInv, SlotTypes, Leave
  <2> QED BY <1>1, <2>1, <2>2 DEF SlotInv, SlotTypes
<1>5. ASSUME NEW u \in Threads PROVE Slotted(u)' /\ Dated(u)'
  <2>1. Slotted(u) /\ Dated(u)
    BY DEF SlotInv
  <2> QED BY <1>1, <1>3, <2>1 DEF Slotted, Registering, Dated
<1>6. ASSUME NEW u \in Threads, NEW q \in Threads, u # q PROVE Apart(u, q)'
  BY <1>1, <1>6 DEF SlotInv, Apart, Registering
<1>7. ASSUME NEW u \in Threads, NEW q \in Threads PROVE Stopped(u, q)'
  BY <1>1 DEF SlotInv, Stopped
<1> QED BY <1>4, <1>5, <1>6, <1>7 DEF SlotInv

\* The scan stops at the slot of a thread that entered before the epoch it
\* is for.
LEMMA ScanSlots ==
  ASSUME SlotInv, NEW t \in Threads, AdvanceScan(t)
  PROVE  SlotInv'
<1>1. CASE ~Passes(t, scan[t]) /\ Goto(t, "adv_scan", "idle") /\ Forget(t)
  BY <1>1, ForgetSlots DEF AdvanceScan, slots, Elsewhere
<1>2. CASE /\ Passes(t, scan[t]) /\ pc[t] = "adv_scan" /\ UNCHANGED pc
           /\ scan' = [scan EXCEPT ![t] = @ + 1] /\ UNCHANGED epoch
  <2>1. /\ UNCHANGED <<global_epoch_, local_epoch, in_use, tid, critical, entered, pc, epoch>>
        /\ scan[t] < MaxThreads /\ scan'[t] = scan[t] + 1
        /\ \A u \in Threads \ {t} : scan'[u] = scan[u]
    BY <1>2 DEF SlotInv, SlotTypes, AdvanceScan, slots
  <2>2. SlotTypes'
    BY <1>2, <2>1, EpochReclaimerAssumption DEF SlotInv, SlotTypes
  <2>3. ASSUME NEW u \in Threads PROVE Slotted(u)' /\ Dated(u)'
    <3>1. Slotted(u) /\ Dated(u) /\ pc[t] = "adv_scan"
      BY Zenon, <1>2 DEF SlotInv
    <3>2. Slotted(u)'
      BY Zenon, <2>1, <3>1 DEF Slotted, Registering
    <3>3. Dated(u)'
      BY Zenon, <2>1, <3>1 DEF Dated
    <3> QED BY Zenon, <3>2, <3>3
  <2>4. ASSUME NEW u \in Threads, NEW q \in Threads, u # q PROVE Apart(u, q)'
    BY <1>2, <2>1, <2>4 DEF SlotInv, Apart, Registering
  <2>5. ASSUME NEW u \in Threads, critical[u], entered[u] < epoch[t] PROVE scan[t] + 1 <= tid[u]
    <3>1. tid[u] # -1 /\ in_use[tid[u]] /\ scan[t] <= tid[u] /\ Dated(u)
      BY <1>2, <2>5 DEF SlotInv, Slotted, Stopped
    <3>2. entered[u] \in Nat /\ epoch[t] \in Nat /\ tid[u] \in Int /\ scan[t] \in Int
      BY EpochReclaimerAssumption DEF SlotInv, SlotTypes
    <3>3. local_epoch[tid[u]] \notin {Inactive, epoch[t]}
      BY <2>5, <3>1, <3>2 DEF Dated, Inactive
    <3>4. scan[t] # tid[u]
      BY <1>2, <3>1, <3>3 DEF Passes
    <3> QED BY <3>1, <3>2, <3>4
  <2>6. ASSUME NEW u \in Threads, NEW q \in Threads PROVE Stopped(u, q)'
    BY <1>2, <2>1, <2>5 DEF SlotInv, Stopped
  <2> QED BY <2>2, <2>3, <2>4, <2>6 DEF SlotInv
<1> QED BY <1>1, <1>2 DEF AdvanceScan

\* A scan that was completed has met no thread that entered before.
LEMMA CasSlots ==
  ASSUME SlotInv, NEW t \in Threads, AdvanceCas(t)
  PROVE  SlotInv'
<1>1. CASE Goto(t, "adv_scan", "idle") /\ Forget(t) /\ UNCHANGED global_epoch_
  BY <1>1, ForgetSlots DEF AdvanceCas, slots, Elsewhere
<1>2. CASE /\ global_epoch_ = epoch[t] /\ Goto(t, "adv_scan", "adv_swap")
           /\ global_epoch_' = epoch[t] + 1
           /\ scan' = [scan EXCEPT ![t] = 0] /\ UNCHANGED epoch
  <2>1. /\ UNCHANGED <<local_epoch, in_use, tid, critical, entered, epoch>>
        /\ scan[t] = MaxThreads /\ pc[t] = "adv_scan" /\ pc'[t] = "adv_swap"
        /\ global_epoch_' = global_epoch_ + 1
        /\ \A u \in Threads \ {t} : scan'[u] = scan[u] /\ pc'[u] = pc[u]
    BY <1>2 DEF SlotInv, SlotTypes, AdvanceCas, slots, Goto
  <2>2. SlotTypes'
    BY <1>2, <2>1, EpochReclaimerAssumption DEF SlotInv, SlotTypes, Goto
  <2>3. \A u \in Threads : critical[u] => entered[u] = global_epoch_
    <3>1. \A u \in Threads : /\ tid[u] < MaxThreads /\ tid[u] \in Int /\ MaxThreads \in Int
                              /\ entered[u] \in Nat /\ global_epoch_ \in Nat
      BY EpochReclaimerAssumption DEF SlotInv, SlotTypes
    <3>2. \A u \in Threads : critical[u] => entered[u] <= global_epoch_
      BY Zenon DEF SlotInv, Dated
    <3>3. ASSUME NEW u \in Threads, critical[u] PROVE ~(entered[u] < global_epoch_)
      <4>1. entered[u] < epoch[t] => scan[t] <= tid[u]
        BY Zenon, <2>1, <3>3 DEF SlotInv, Stopped
      <4>2. scan[t] = MaxThreads /\ epoch[t] = global_epoch_
        BY Zenon, <1>2, <2>1
      <4> QED BY <3>1, <4>1, <4>2
    <3> QED BY <3>1, <3>2, <3>3
  <2>4. ASSUME NEW u \in Threads PROVE Slotted(u)' /\ Dated(u)'
    <3>1. Slotted(u) /\ Dated(u) /\ global_epoch_ \in Nat /\ epoch[u] \in Nat
      BY DEF SlotInv, SlotTypes
    <3>2. Slotted(u)'
      BY Zenon, <2>1, <3>1 DEF Slotted, Registering
    <3>3. Dated(u)'
      BY <2>1, <2>3, <3>1 DEF Dated
    <3> QED BY <3>2, <3>3
  <2>5. \A u, q \in Threads : u # q => Apart(u, q)'
    <3>1. \A u \in Threads : ~Registering(u)' \/ (pc'[u] = pc[u] /\ scan'[u] = scan[u])
      BY <2>1 DEF Registering
    <3> QED BY Zenon, <2>1, <3>1, FrameApart
  <2>6. ASSUME NEW u \in Threads, NEW q \in Threads PROVE Stopped(u, q)'
    BY <2>1 DEF SlotInv, Stopped
  <2> QED BY <2>2, <2>4, <2>5, <2>6 DEF SlotInv
<1> QED BY <1>1, <1>2 DEF AdvanceCas

LEMMA ClientSlots ==
  ASSUME SlotInv, NEW t \in Threads,
         Read(t) \/ RetireCall(t) \/ RetireLoad(t) \/ RetirePush(t) \/ AdvanceSwap(t) \/ AdvanceFree(t)
  PROVE  SlotInv'
<1>1. UNCHANGED <<global_epoch_, local_epoch, in_use, tid, critical, entered>>
  BY Zenon DEF Read, RetireCall, RetireLoad, RetirePush, AdvanceSwap, SwapList, AdvanceFree, slots
<1>2. CASE RetirePush(t) \/ AdvanceSwap(t)
  BY <1>1, <1>2, ForgetSlots DEF RetirePush, AdvanceSwap, SwapList, Elsewhere
<1>3. CASE Read(t) \/ RetireCall(t) \/ RetireLoad(t) \/ AdvanceFree(t)
  <2>1. SlotTypes'
    BY Zenon, <1>1, <1>3 DEF SlotInv, SlotTypes, Read, RetireCall, RetireLoad, AdvanceFree, Goto
  <2>2. ASSUME NEW u \in Threads
        PROVE  \/ pc'[u] = pc[u] /\ epoch'[u] = epoch[u] /\ scan'[u] = scan[u]
               \/ pc'[u] \in Elsewhere /\ pc'[u] # "advance"
    BY <1>3 DEF SlotInv, SlotTypes, Read, RetireCall, RetireLoad, AdvanceFree, Goto, Elsewhere
  <2> QED BY Zenon, <1>1, <2>1, <2>2, CalmSlots
<1> QED BY Zenon, <1>2, <1>3

LEMMA EndSlots ==
  ASSUME SlotInv, Link \/ Destroy \/ UNCHANGED vars
  PROVE  SlotInv'
<1>1. UNCHANGED <<global_epoch_, local_epoch, in_use, tid, critical, entered, epoch, scan>>
  BY Zenon DEF Link, Destroy, vars, slots
<1>2. SlotTypes'
  BY <1>1 DEF SlotInv, SlotTypes, Link, Destroy, vars
<1>3. \A u \in Threads : pc'[u] = pc[u] \/ pc'[u] = "destroyed"
  BY DEF Link, Destroy, vars
<1> QED BY <1>1, <1>2, <1>3, CalmSlots DEF Elsewhere

LEMMA NextSlots ==
  ASSUME RegisterOneByOne, SlotInv, [Next]_vars
  PROVE  SlotInv'
<1>1. ASSUME NEW t \in Readers, Register(t) PROVE SlotInv'
  <2>1. t \in Threads
    BY DEF Threads
  <2>2. CASE RegisterNone(t)
    BY <2>1, <2>2, ForgetSlots DEF RegisterNone, slots, Elsewhere
  <2> QED BY <1>1, <2>1, <2>2, RegisterCallSlots, RegisterScanSlots, RegisterTakeSlots, RegisterClearSlots DEF Register
<1>2. ASSUME NEW t \in Readers, Unregister(t) PROVE SlotInv'
  BY <1>2, UnregisterCallSlots, UnregisterEndSlots DEF Unregister, Threads
<1>3. ASSUME NEW t \in Readers, Guard(t) PROVE SlotInv'
  BY <1>3, LoadSlots, EnterPublishSlots, LeaveSlots, ClientSlots DEF Guard, Threads
<1>4. ASSUME NEW t \in Retirers, Retire(t) PROVE SlotInv'
  BY <1>4, ClientSlots DEF Retire, Threads
<1>5. ASSUME NEW t \in Retirers, TryAdvance(t) PROVE SlotInv'
  BY <1>5, LoadSlots, ScanSlots, CasSlots, ClientSlots DEF TryAdvance, Threads
<1> QED BY <1>1, <1>2, <1>3, <1>4, <1>5, EndSlots DEF Next

-----------------------------------------------------------------------------
(* The places of a retired object, and the steps that move none *)

Lists == 0 .. NUM_EPOCHS - 1

ListTypes ==
  /\ retire_lists_ \in [Lists -> SUBSET Objects]
  /\ object \in [Threads -> SUBSET Objects]
  /\ to_free \in [Threads -> SUBSET Objects]
  /\ refs \in [Threads -> SUBSET Objects]
  /\ status \in [Objects -> {"linked", "unlinked", "freed"}]
  /\ late \in SUBSET Objects

\* An object is at no two places of its way through the reclaimer.
OnePlace(o) ==
  /\ \A t, u \in Threads : o \in object[t] /\ o \in object[u] => t = u
  /\ \A t, u \in Threads : o \in to_free[t] /\ o \in to_free[u] => t = u
  /\ \A i, j \in Lists : o \in retire_lists_[i] /\ o \in retire_lists_[j] => i = j
  /\ \A t, u \in Threads : ~(o \in object[t] /\ o \in to_free[u])
  /\ \A t \in Threads : \A i \in Lists : ~(o \in retire_lists_[i] /\ (o \in object[t] \/ o \in to_free[t]))

Somewhere(o) ==
  \/ \E t \in Threads : o \in object[t] \/ o \in to_free[t]
  \/ \E i \in Lists : o \in retire_lists_[i]

Placed(o) == OnePlace(o) /\ (status[o] = "unlinked" <=> Somewhere(o))

\* Where a thread is when it has objects or references.
Holding(t) ==
  /\ object[t] # {} => pc[t] \in {"retire", "retire_push"}
  /\ to_free[t] # {} => pc[t] = "adv_free"
  /\ refs[t] # {} => critical[t]

PlaceInv ==
  /\ ListTypes
  /\ \A o \in Objects : Placed(o)
  /\ \A t \in Threads : Holding(t)

LEMMA InitPlaces == ASSUME Init PROVE PlaceInv
<1>1. ListTypes
  BY DEF Init, ListTypes, Lists
<1>2. \A o \in Objects : Placed(o)
  BY DEF Init, Placed, OnePlace, Somewhere, Lists
<1>3. \A t \in Threads : Holding(t)
  BY DEF Init, Holding
<1> QED BY <1>1, <1>2, <1>3 DEF PlaceInv

\* A step that moves no object.
LEMMA FramePlaces ==
  ASSUME PlaceInv, UNCHANGED <<lists, status, late>>,
         refs' \in [Threads -> SUBSET Objects],
         \A t \in Threads : /\ object[t] # {} => pc'[t] \in {"retire", "retire_push"}
                            /\ to_free[t] # {} => pc'[t] = "adv_free"
                            /\ refs'[t] # {} => critical'[t]
  PROVE  PlaceInv'
<1>1. ListTypes'
  BY DEF PlaceInv, ListTypes, lists
<1>2. \A o \in Objects : Placed(o)'
  BY DEF PlaceInv, Placed, OnePlace, Somewhere, lists
<1>3. \A t \in Threads : Holding(t)'
  BY DEF Holding, lists
<1> QED BY <1>1, <1>2, <1>3 DEF PlaceInv

\* One thread, which holds no object, moves.
LEMMA MovePlaces ==
  ASSUME SlotTypes, PlaceInv, NEW t \in Threads, UNCHANGED <<lists, status, late, refs, critical>>,
         NEW from, NEW to, Goto(t, from, to),
         \/ from \notin {"retire", "retire_push", "adv_free"}
         \/ from = "retire" /\ to = "retire_push"
  PROVE  PlaceInv'
<1>1. pc[t] = from /\ pc'[t] = to /\ \A u \in Threads \ {t} : pc'[u] = pc[u]
  BY DEF SlotTypes, Goto
<1>2. \A u \in Threads : /\ object[u] # {} => pc'[u] \in {"retire", "retire_push"}
                         /\ to_free[u] # {} => pc'[u] = "adv_free"
                         /\ refs'[u] # {} => critical'[u]
  BY <1>1 DEF PlaceInv, Holding
<1>3. refs' \in [Threads -> SUBSET Objects]
  BY DEF PlaceInv, ListTypes
<1> QED BY <1>2, <1>3, FramePlaces

LEMMA ReaderPlaces ==
  ASSUME SlotTypes, PlaceInv, NEW t \in Threads, EnterPublish(t) \/ Read(t) \/ Leave(t)
  PROVE  PlaceInv'
<1>1. UNCHANGED <<lists, status, late>>
  BY Zenon DEF EnterPublish, Read, Leave, client
<1>2. refs' \in [Threads -> SUBSET Objects]
  <2>1. refs \in [Threads -> SUBSET Objects]
    BY Zenon DEF PlaceInv, ListTypes
  <2>2. CASE EnterPublish(t)
    BY Zenon, <2>1, <2>2 DEF EnterPublish, client
  <2>3. CASE Read(t) \/ Leave(t)
    BY <2>1, <2>3 DEF Read, Leave
  <2> QED BY Zenon, <2>2, <2>3
<1>3. ASSUME NEW u \in Threads
      PROVE  /\ object[u] # {} => pc'[u] \in {"retire", "retire_push"}
             /\ to_free[u] # {} => pc'[u] = "adv_free"
             /\ refs'[u] # {} => critical'[u]
  <2>1. Holding(u)
    BY DEF PlaceInv
  <2>2. pc'[u] = pc[u] \/ pc[u] = "enter"
    BY Zenon DEF SlotTypes, EnterPublish, Read, Leave, Goto
  <2>3. refs'[u] # {} => critical'[u]
    <3>1. refs \in [Threads -> SUBSET Objects]
      BY Zenon DEF PlaceInv, ListTypes
    <3>2. critical \in [Threads -> BOOLEAN]
      BY Zenon DEF SlotTypes
    <3>3. CASE EnterPublish(t)
      <4>1. refs' = refs /\ critical' = [critical EXCEPT ![t] = TRUE]
        BY Zenon, <3>3 DEF EnterPublish, client
      <4> QED BY Zenon, <2>1, <3>2, <4>1 DEF Holding
    <3>4. CASE Read(t)
      <4>1. critical[t] /\ critical' = critical /\ (u # t => refs'[u] = refs[u])
        BY Zenon, <3>1, <3>4 DEF Read
      <4> QED BY Zenon, <2>1, <4>1 DEF Holding
    <3>5. CASE Leave(t)
      <4>1. /\ critical' = [critical EXCEPT ![t] = FALSE]
            /\ refs' = [refs EXCEPT ![t] = {}]
        BY Zenon, <3>5 DEF Leave
      <4> QED BY Zenon, <2>1, <3>1, <3>2, <4>1 DEF Holding
    <3> QED BY Zenon, <3>3, <3>4, <3>5
  <2> QED BY Zenon, <2>1, <2>2, <2>3 DEF Holding
<1> QED BY Zenon, <1>1, <1>2, <1>3, FramePlaces

LEMMA ScanCasPlaces ==
  ASSUME SlotTypes, PlaceInv, NEW t \in Threads, RegisterScan(t) \/ AdvanceScan(t) \/ AdvanceCas(t)
  PROVE  PlaceInv'
<1>1. UNCHANGED <<lists, status, late, refs, critical>>
  <2>1. CASE RegisterScan(t)
    BY Zenon, <2>1 DEF RegisterScan, client
  <2>2. CASE AdvanceScan(t)
    BY Zenon, <2>2 DEF AdvanceScan, client
  <2>3. CASE AdvanceCas(t)
    BY Zenon, <2>3 DEF AdvanceCas, client
  <2> QED BY Zenon, <2>1, <2>2, <2>3
<1>2. ASSUME NEW u \in Threads
      PROVE  /\ object[u] # {} => pc'[u] \in {"retire", "retire_push"}
             /\ to_free[u] # {} => pc'[u] = "adv_free"
             /\ refs'[u] # {} => critical'[u]
  <2>1. Holding(u)
    BY DEF PlaceInv
  <2>2. pc'[u] = pc[u] \/ pc[u] \in {"reg_scan", "adv_scan"}
    BY DEF SlotTypes, RegisterScan, AdvanceScan, AdvanceCas, Goto
  <2> QED BY <1>1, <2>1, <2>2 DEF Holding
<1>3. refs' \in [Threads -> SUBSET Objects]
  BY <1>1 DEF PlaceInv, ListTypes
<1> QED BY Zenon, <1>1, <1>2, <1>3, FramePlaces

-----------------------------------------------------------------------------
(* Theorems *)

\* What the slots say about the threads holds in every reachable state.
THEOREM SlotInvariance == ASSUME RegisterOneByOne PROVE Spec => []SlotInv
<1>1. Init => SlotInv
  BY InitSlots
<1>2. SlotInv /\ [Next]_vars => SlotInv'
  BY NextSlots
<1> QED BY <1>1, <1>2, PTL DEF Spec

\* If no two calls of register_thread overlap, no two threads get the same
\* id.
THEOREM DistinctIds == ASSUME RegisterOneByOne PROVE Spec => []TidsDistinct
<1>1. SlotInv => TidsDistinct
  BY DEF SlotInv, Apart, TidsDistinct
<1> QED BY <1>1, SlotInvariance, PTL

\* enter_critical holds the epoch back, although the epoch it publishes may
\* be old and try_advance looks at the slots one after the other.
THEOREM HeldBack == ASSUME RegisterOneByOne PROVE Spec => []EpochHeldBack
<1>1. SlotInv => EpochHeldBack
  BY DEF SlotInv, Dated, EpochHeldBack
<1> QED BY <1>1, SlotInvariance, PTL
=============================================================================
