-------------------------- MODULE ReconcileProofs ---------------------------
(****************************************************************************)
(* Proofs about Reconcile, for any objects, sites, finalizers and bounds.    *)
(****************************************************************************)
EXTENDS Reconcile, TLAPS

\* Zenon is tried first, then SMT.
USE ZenonT(20), SMTT(20)

-----------------------------------------------------------------------------
(* Types. *)

LEMMA EmptyTypes ==
  NoStatus \in Statuses /\ NoSnap \in Snaps
BY ReconcileAssumption DEF NoStatus, NoSnap, Statuses, Snaps, States, Powers

LEMMA SnapTypes ==
  ASSUME ObjTypes, NEW n \in Names
  PROVE  [uid |-> uid[n], site |-> site[n], power |-> power[n], gen |-> gen[n],
          deleting |-> deleting[n], claimed |-> Finalizer \in fins[n]] \in Snaps
BY SMT DEF ObjTypes, Snaps

LEMMA StatusTypes ==
  ASSUME CtlTypes, NEW n \in Names
  PROVE  StatusOf(n) \in Statuses
<1>1. snap[n] \in Snaps /\ seen \in States
  BY DEF CtlTypes
<1> QED
  BY <1>1 DEF StatusOf, Statuses, Snaps

LEMMA RemoveTypes ==
  ASSUME ObjTypes, status \in [Names -> Statuses], NEW n \in Names, Remove(n)
  PROVE  ObjTypes' /\ status' \in [Names -> Statuses]
BY SMT, EmptyTypes, ReconcileAssumption DEF Remove, ObjTypes, Powers

\* The directory the controller works on.
LEMMA DirTypes ==
  ASSUME Inv, pc \notin {"list", "pick"}
  PROVE  cur \in Names /\ snap[cur].site \in Sites /\ snap[cur].uid \in UIDs /\ Dir(cur) \in Dirs
<1>1. snap[cur] \in Snaps /\ cur \in Names
  BY DEF Inv, TypeOK, CtlTypes
<1>2. snap[cur].site \in Sites /\ snap[cur].uid # 0 /\ snap[cur].uid \in 0..MaxUID
  BY <1>1 DEF Inv, SnapInv, Busy, Snaps
<1> QED
  BY <1>1, <1>2, ReconcileAssumption DEF Dir, Dirs, UIDs

LEMMA TypeStep ==
  ASSUME Inv, [Next]_vars
  PROVE  TypeOK'
<1> USE ReconcileAssumption DEF objVars, ctlVars, vars
<1>0. TypeOK
  BY DEF Inv
<1>1. ASSUME List PROVE TypeOK'
  <2>1. ObjTypes' /\ status' \in [Names -> Statuses]
    BY <1>0, <1>1, EmptyTypes DEF List, TypeOK, ObjTypes
  <2>2. vm' \in [Dirs -> States] /\ faults' \in 0..MaxFaults
    BY <1>0, <1>1 DEF List, TypeOK, States
  <2>3. CtlTypes'
    BY <1>0, <1>1, EmptyTypes, SnapTypes DEF List, TypeOK, CtlTypes, States
  <2> QED
    BY <2>1, <2>2, <2>3 DEF TypeOK
<1>2. ASSUME Pick PROVE TypeOK'
  <2>1. ObjTypes' /\ status' \in [Names -> Statuses]
    BY <1>0, <1>2, EmptyTypes DEF Pick, Route, TypeOK, ObjTypes
  <2>2. vm' \in [Dirs -> States] /\ faults' \in 0..MaxFaults
    BY <1>0, <1>2 DEF Pick, Route, TypeOK, States
  <2>3. CtlTypes'
    BY <1>0, <1>2, EmptyTypes DEF Pick, Route, TypeOK, CtlTypes, States
  <2> QED
    BY <2>1, <2>2, <2>3 DEF TypeOK
<1>3. ASSUME EndTick PROVE TypeOK'
  <2>1. ObjTypes' /\ status' \in [Names -> Statuses]
    BY <1>0, <1>3, EmptyTypes DEF EndTick, Goto, TypeOK, ObjTypes
  <2>2. vm' \in [Dirs -> States] /\ faults' \in 0..MaxFaults
    BY <1>0, <1>3 DEF EndTick, Goto, TypeOK, States
  <2>3. CtlTypes'
    BY <1>0, <1>3, EmptyTypes DEF EndTick, Goto, TypeOK, CtlTypes, States
  <2> QED
    BY <2>1, <2>2, <2>3 DEF TypeOK
<1>4. ASSUME Destroy PROVE TypeOK'
  <2>1. ObjTypes' /\ status' \in [Names -> Statuses]
    BY <1>0, <1>4, EmptyTypes DEF Destroy, Goto, Dir, TypeOK, ObjTypes
  <2>2. vm' \in [Dirs -> States] /\ faults' \in 0..MaxFaults
    BY <1>0, <1>4, Zenon DEF Destroy, Goto, Dir, TypeOK, States, CtlTypes
  <2>3. CtlTypes'
    BY <1>0, <1>4, EmptyTypes DEF Destroy, Goto, Dir, TypeOK, CtlTypes, States
  <2> QED
    BY <2>1, <2>2, <2>3 DEF TypeOK
<1>5. ASSUME DestroyFails PROVE TypeOK'
  <2>1. ObjTypes' /\ status' \in [Names -> Statuses]
    BY <1>0, <1>5, EmptyTypes DEF DestroyFails, Done, Dir, Fault, TypeOK, ObjTypes
  <2>2. vm' \in [Dirs -> States] /\ faults' \in 0..MaxFaults
    <3>1. vm' \in [Dirs -> States]
      BY <1>0, <1>5, Zenon DEF DestroyFails, TypeOK
    <3>2. faults' \in 0..MaxFaults
      BY SMT, <1>0, <1>5 DEF DestroyFails, Fault, TypeOK
    <3> QED
      BY <3>1, <3>2
  <2>3. CtlTypes'
    BY <1>0, <1>5, EmptyTypes DEF DestroyFails, Done, Dir, Fault, TypeOK, CtlTypes, States
  <2> QED
    BY <2>1, <2>2, <2>3 DEF TypeOK
<1>6. ASSUME Release PROVE TypeOK'
  <2>1. ObjTypes' /\ status' \in [Names -> Statuses]
    <3>1. CASE Remove(cur)
      BY <1>0, <3>1, RemoveTypes DEF TypeOK, CtlTypes
    <3>2. CASE ~deleting[cur]
      BY <1>0, <1>6, <3>2 DEF Release, TypeOK, ObjTypes, CtlTypes
    <3> QED
      BY <1>6, <3>1, <3>2 DEF Release
  <2>2. vm' \in [Dirs -> States] /\ faults' \in 0..MaxFaults
    BY <1>0, <1>6 DEF Release, Done, Remove, TypeOK, States
  <2>3. CtlTypes'
    BY <1>0, <1>6, EmptyTypes DEF Release, Done, Remove, TypeOK, CtlTypes, States
  <2> QED
    BY <2>1, <2>2, <2>3 DEF TypeOK
<1>7. ASSUME Claim PROVE TypeOK'
  <2>1. ObjTypes' /\ status' \in [Names -> Statuses]
    BY <1>0, <1>7, EmptyTypes DEF Claim, Done, Claimable, TypeOK, ObjTypes, CtlTypes
  <2>2. vm' \in [Dirs -> States] /\ faults' \in 0..MaxFaults
    BY <1>0, <1>7 DEF Claim, Done, Claimable, TypeOK, States
  <2>3. CtlTypes'
    BY <1>0, <1>7, EmptyTypes DEF Claim, Done, Claimable, TypeOK, CtlTypes, States
  <2> QED
    BY <2>1, <2>2, <2>3 DEF TypeOK
<1>8. ASSUME Observe PROVE TypeOK'
  <2>1. ObjTypes' /\ status' \in [Names -> Statuses]
    BY <1>0, <1>8, EmptyTypes DEF Observe, Plan, Dir, TypeOK, ObjTypes
  <2>2. vm' \in [Dirs -> States] /\ faults' \in 0..MaxFaults
    BY <1>0, <1>8 DEF Observe, Plan, Dir, TypeOK, States
  <2>3. CtlTypes'
    <3>1. seen' \in States
      BY <1>0, <1>8, DirTypes DEF Observe, TypeOK, States
    <3>2. pc' \in {"create", "stop", "publish"}
      BY <1>8 DEF Observe, Plan
    <3> QED
      BY <1>0, <1>8, <3>1, <3>2 DEF Observe, TypeOK, CtlTypes
  <2> QED
    BY <2>1, <2>2, <2>3 DEF TypeOK
<1>9. ASSUME Create PROVE TypeOK'
  <2>1. ObjTypes' /\ status' \in [Names -> Statuses]
    BY <1>0, <1>9, EmptyTypes DEF Create, Done, Dir, TypeOK, ObjTypes
  <2>2. vm' \in [Dirs -> States] /\ faults' \in 0..MaxFaults
    BY <1>0, <1>9, Zenon DEF Create, Done, Dir, TypeOK, States, CtlTypes
  <2>3. CtlTypes'
    BY <1>0, <1>9, EmptyTypes DEF Create, Done, Dir, TypeOK, CtlTypes, States
  <2> QED
    BY <2>1, <2>2, <2>3 DEF TypeOK
<1>10. ASSUME CreateFails PROVE TypeOK'
  <2>1. ObjTypes' /\ status' \in [Names -> Statuses]
    BY <1>0, <1>10, EmptyTypes DEF CreateFails, Dir, Fault, TypeOK, ObjTypes
  <2>2. vm' \in [Dirs -> States] /\ faults' \in 0..MaxFaults
    BY SMT, <1>0, <1>10 DEF CreateFails, Dir, Fault, TypeOK, States, CtlTypes
  <2>3. CtlTypes'
    BY <1>0, <1>10, EmptyTypes DEF CreateFails, Dir, Fault, TypeOK, CtlTypes, States
  <2> QED
    BY <2>1, <2>2, <2>3 DEF TypeOK
<1>11. ASSUME Stop PROVE TypeOK'
  <2>1. ObjTypes' /\ status' \in [Names -> Statuses]
    BY <1>0, <1>11, EmptyTypes DEF Stop, Done, Dir, TypeOK, ObjTypes
  <2>2. vm' \in [Dirs -> States] /\ faults' \in 0..MaxFaults
    BY <1>0, <1>11, Zenon DEF Stop, Done, Dir, TypeOK, States, CtlTypes
  <2>3. CtlTypes'
    BY <1>0, <1>11, EmptyTypes DEF Stop, Done, Dir, TypeOK, CtlTypes, States
  <2> QED
    BY <2>1, <2>2, <2>3 DEF TypeOK
<1>12. ASSUME StopFails PROVE TypeOK'
  <2>1. ObjTypes' /\ status' \in [Names -> Statuses]
    BY <1>0, <1>12, EmptyTypes DEF StopFails, Fault, TypeOK, ObjTypes
  <2>2. vm' \in [Dirs -> States] /\ faults' \in 0..MaxFaults
    BY SMT, <1>0, <1>12 DEF StopFails, Fault, TypeOK, States
  <2>3. CtlTypes'
    BY <1>0, <1>12, EmptyTypes DEF StopFails, Fault, TypeOK, CtlTypes, States
  <2> QED
    BY <2>1, <2>2, <2>3 DEF TypeOK
<1>13. ASSUME Publish PROVE TypeOK'
  <2>1. ObjTypes' /\ status' \in [Names -> Statuses]
    BY <1>0, <1>13, EmptyTypes, StatusTypes DEF Publish, Done, StatusOf, TypeOK, ObjTypes, CtlTypes
  <2>2. vm' \in [Dirs -> States] /\ faults' \in 0..MaxFaults
    BY <1>0, <1>13 DEF Publish, Done, StatusOf, TypeOK, States
  <2>3. CtlTypes'
    BY <1>0, <1>13, EmptyTypes DEF Publish, Done, StatusOf, TypeOK, CtlTypes, States
  <2> QED
    BY <2>1, <2>2, <2>3 DEF TypeOK
<1>14. ASSUME CallFails PROVE TypeOK'
  <2>1. ObjTypes' /\ status' \in [Names -> Statuses]
    BY <1>0, <1>14, EmptyTypes DEF CallFails, Done, Fault, TypeOK, ObjTypes
  <2>2. vm' \in [Dirs -> States] /\ faults' \in 0..MaxFaults
    BY SMT, <1>0, <1>14 DEF CallFails, Done, Fault, TypeOK, States
  <2>3. CtlTypes'
    BY <1>0, <1>14, EmptyTypes DEF CallFails, Done, Fault, TypeOK, CtlTypes, States
  <2> QED
    BY <2>1, <2>2, <2>3 DEF TypeOK
<1>15. ASSUME Restart PROVE TypeOK'
  <2>1. ObjTypes' /\ status' \in [Names -> Statuses]
    BY <1>0, <1>15, EmptyTypes DEF Restart, TypeOK, ObjTypes
  <2>2. vm' \in [Dirs -> States] /\ faults' \in 0..MaxFaults
    BY SMT, <1>0, <1>15 DEF Restart, TypeOK, States
  <2>3. CtlTypes'
    BY <1>0, <1>15, EmptyTypes DEF Restart, TypeOK, CtlTypes, States
  <2> QED
    BY <2>1, <2>2, <2>3 DEF TypeOK
<1>16. ASSUME NEW n0 \in Names, NEW s0 \in Sites, NEW w0 \in Powers, UserApplies(n0, s0, w0) PROVE TypeOK'
  <2>1. ObjTypes' /\ status' \in [Names -> Statuses]
    BY SMT, <1>0, <1>16, EmptyTypes DEF UserApplies, TypeOK, ObjTypes, Powers
  <2>2. vm' \in [Dirs -> States] /\ faults' \in 0..MaxFaults
    BY <1>0, <1>16 DEF UserApplies, TypeOK, States
  <2>3. CtlTypes'
    BY <1>0, <1>16, EmptyTypes DEF UserApplies, TypeOK, CtlTypes
  <2> QED
    BY <2>1, <2>2, <2>3 DEF TypeOK
<1>17. ASSUME NEW n0 \in Names, NEW s0 \in Sites, NEW w0 \in Powers, UserEdits(n0, s0, w0) PROVE TypeOK'
  <2>1. ObjTypes' /\ status' \in [Names -> Statuses]
    BY SMT, <1>0, <1>17, EmptyTypes DEF UserEdits, TypeOK, ObjTypes, Powers
  <2>2. vm' \in [Dirs -> States] /\ faults' \in 0..MaxFaults
    BY <1>0, <1>17 DEF UserEdits, TypeOK, States
  <2>3. CtlTypes'
    BY <1>0, <1>17, EmptyTypes DEF UserEdits, TypeOK, CtlTypes
  <2> QED
    BY <2>1, <2>2, <2>3 DEF TypeOK
<1>18. ASSUME NEW n0 \in Names, UserDeletes(n0) PROVE TypeOK'
  <2>1. ObjTypes' /\ status' \in [Names -> Statuses]
    <3>1. CASE Remove(n0)
      BY <1>0, <1>18, <3>1, RemoveTypes DEF TypeOK
    <3>2. CASE ~Remove(n0)
      BY <1>0, <1>18, <3>2, Zenon DEF UserDeletes, TypeOK, ObjTypes
    <3> QED
      BY <3>1, <3>2
  <2>2. vm' \in [Dirs -> States] /\ faults' \in 0..MaxFaults
    BY <1>0, <1>18 DEF UserDeletes, Remove, TypeOK, States
  <2>3. CtlTypes'
    BY <1>0, <1>18, EmptyTypes DEF UserDeletes, Remove, TypeOK, CtlTypes
  <2> QED
    BY <2>1, <2>2, <2>3 DEF TypeOK
<1>19. ASSUME NEW n0 \in Names, OtherClaims(n0) PROVE TypeOK'
  <2>1. ObjTypes' /\ status' \in [Names -> Statuses]
    BY <1>0, <1>19, EmptyTypes DEF OtherClaims, TypeOK, ObjTypes, Powers
  <2>2. vm' \in [Dirs -> States] /\ faults' \in 0..MaxFaults
    BY <1>0, <1>19 DEF OtherClaims, TypeOK, States
  <2>3. CtlTypes'
    BY <1>0, <1>19, EmptyTypes DEF OtherClaims, TypeOK, CtlTypes
  <2> QED
    BY <2>1, <2>2, <2>3 DEF TypeOK
<1>20. ASSUME NEW n0 \in Names, OtherReleases(n0) PROVE TypeOK'
  <2>1. ObjTypes' /\ status' \in [Names -> Statuses]
    <3>1. CASE Remove(n0)
      BY <1>0, <1>20, <3>1, RemoveTypes DEF TypeOK
    <3>2. CASE ~Remove(n0)
      BY <1>0, <1>20, <3>2 DEF OtherReleases, TypeOK, ObjTypes
    <3> QED
      BY <3>1, <3>2
  <2>2. vm' \in [Dirs -> States] /\ faults' \in 0..MaxFaults
    BY <1>0, <1>20 DEF OtherReleases, Remove, TypeOK, States
  <2>3. CtlTypes'
    BY <1>0, <1>20, EmptyTypes DEF OtherReleases, Remove, TypeOK, CtlTypes
  <2> QED
    BY <2>1, <2>2, <2>3 DEF TypeOK
<1>21. ASSUME NEW d0 \in Dirs, VMExits(d0) PROVE TypeOK'
  <2>1. ObjTypes' /\ status' \in [Names -> Statuses]
    BY <1>0, <1>21, EmptyTypes DEF VMExits, Fault, TypeOK, ObjTypes, Powers
  <2>2. vm' \in [Dirs -> States] /\ faults' \in 0..MaxFaults
    BY SMT, <1>0, <1>21 DEF VMExits, Fault, TypeOK, States, CtlTypes
  <2>3. CtlTypes'
    BY <1>0, <1>21, EmptyTypes DEF VMExits, Fault, TypeOK, CtlTypes
  <2> QED
    BY <2>1, <2>2, <2>3 DEF TypeOK
<1>22. CASE UNCHANGED vars
  BY <1>0, <1>22 DEF TypeOK, ObjTypes, CtlTypes
<1> QED
  BY <1>1, <1>2, <1>3, <1>4, <1>5, <1>6, <1>7, <1>8, <1>9, <1>10, <1>11, <1>12, <1>13, <1>14, <1>15, <1>16, <1>17, <1>18, <1>19, <1>20, <1>21, <1>22 DEF Next, Controller, Outside, Powers

-----------------------------------------------------------------------------
(* What most steps leave alone. *)

LEMMA ObjKept ==
  ASSUME Inv, UNCHANGED objVars
  PROVE  (\A n \in Names : ObjInv(n)') /\ StatusIsOwn' /\ SyncedIsCurrent'
BY DEF Inv, ObjInv, StatusIsOwn, SyncedIsCurrent, objVars

LEMMA VMKept ==
  ASSUME Inv, UNCHANGED vm
  PROVE  HardwareInv' /\ (UNCHANGED <<uid, site, fins>> /\ "site" \notin Edits => NoOrphans')
BY SMT DEF Inv, HardwareInv, NoOrphans

\* A snapshot stays true as long as it is used and nobody changes the objects.
LEMMA SnapKept ==
  ASSUME Inv, UNCHANGED objVars,
         \A n \in Names : Busy(n)' => Busy(n) /\ snap'[n] = snap[n]
  PROVE  \A n \in Names : SnapInv(n)'
BY DEF Inv, SnapInv, objVars

-----------------------------------------------------------------------------
(* The invariant, step by step of everybody else. *)

\* None of them touches the controller's variables or the driver's.
LEMMA OthersFrame ==
  ASSUME Inv, UNCHANGED <<vm, ctlVars>>
  PROVE  HardwareInv' /\ StepInv' /\ (\A n \in Names : Busy(n)' <=> Busy(n))
BY DEF Inv, HardwareInv, StepInv, Busy, ctlVars, Dir

LEMMA UserKeepsInv ==
  ASSUME Inv, TypeOK', NEW k \in Names, NEW s \in Sites, NEW w \in Powers,
         UserApplies(k, s, w) \/ UserEdits(k, s, w)
  PROVE  Inv'
<1>1. UNCHANGED <<vm, ctlVars>>
  BY DEF UserApplies, UserEdits
<1>2. HardwareInv' /\ StepInv' /\ (\A n \in Names : Busy(n)' <=> Busy(n)) /\ snap' = snap
  BY <1>1, OthersFrame DEF ctlVars
<1>3. \A n \in Names \ {k} :
        /\ uid'[n] = uid[n] /\ site'[n] = site[n] /\ power'[n] = power[n] /\ gen'[n] = gen[n]
        /\ deleting'[n] = deleting[n] /\ fins'[n] = fins[n] /\ status'[n] = status[n]
  BY SMT DEF UserApplies, UserEdits, Inv, TypeOK, ObjTypes
<1>4. CASE UserApplies(k, s, w)
  <2>1. /\ uid[k] = 0 /\ uid'[k] # 0 /\ site'[k] = s /\ gen'[k] = 1
        /\ ~deleting'[k] /\ fins'[k] = {} /\ status'[k] = NoStatus
    BY SMT, <1>4 DEF UserApplies, Inv, TypeOK, ObjTypes
  <2>2. fins[k] = {}
    BY <2>1 DEF Inv, ObjInv
  <2>3. \A n \in Names : ObjInv(n)'
    BY SMT, <1>3, <2>1 DEF Inv, ObjInv, NoStatus
  <2>4. \A n \in Names : SnapInv(n)'
    BY SMT, <1>2, <1>3, <2>1, <2>2 DEF Inv, SnapInv
  <2>5. ASSUME "site" \notin Edits PROVE NoOrphans'
    BY SMT, <1>1, <1>3, <2>2, <2>5 DEF Inv, NoOrphans
  <2>6. StatusIsOwn'
    BY <1>3, <2>1 DEF Inv, StatusIsOwn
  <2>7. SyncedIsCurrent'
    BY SMT, <1>3, <2>1 DEF Inv, SyncedIsCurrent, NoStatus
  <2> QED
    BY <1>2, <2>3, <2>4, <2>5, <2>6, <2>7 DEF Inv
<1>5. CASE UserEdits(k, s, w)
  <2>1. /\ uid'[k] = uid[k] /\ uid[k] # 0 /\ site'[k] = s /\ gen'[k] = gen[k] + 1
        /\ gen[k] \in Nat /\ deleting'[k] = deleting[k] /\ fins'[k] = fins[k]
        /\ status'[k] = status[k] /\ ("site" \notin Edits => s = site[k])
    BY SMT, <1>5 DEF UserEdits, Inv, TypeOK, ObjTypes
  <2>2. status[k].gen <= gen[k] /\ status[k].gen \in Nat /\ snap[k].gen \in Nat
    BY SMT DEF Inv, ObjInv, TypeOK, CtlTypes, Statuses, Snaps
  <2>3. \A n \in Names : ObjInv(n)'
    BY SMT, <1>3, <2>1, <2>2 DEF Inv, ObjInv
  <2>4. \A n \in Names : SnapInv(n)'
    BY SMT, <1>2, <1>3, <2>1, <2>2 DEF Inv, SnapInv
  <2>5. ASSUME "site" \notin Edits PROVE NoOrphans'
    BY SMT, <1>1, <1>3, <2>1, <2>5 DEF Inv, NoOrphans
  <2>6. StatusIsOwn'
    BY <1>3, <2>1 DEF Inv, StatusIsOwn
  <2>7. SyncedIsCurrent'
    BY SMT, <1>3, <2>1, <2>2 DEF Inv, SyncedIsCurrent
  <2> QED
    BY <1>2, <2>3, <2>4, <2>5, <2>6, <2>7 DEF Inv
<1> QED
  BY <1>4, <1>5

\* An object goes away for good only without finalizers, or with another
\* controller's.
LEMMA RemovalKeepsInv ==
  ASSUME Inv, TypeOK', NEW k \in Names, Remove(k), Finalizer \notin fins[k],
         UNCHANGED <<vm, ctlVars>>
  PROVE  Inv'
<1>1. HardwareInv' /\ StepInv' /\ (\A n \in Names : Busy(n)' <=> Busy(n)) /\ snap' = snap
  BY OthersFrame DEF ctlVars
<1>2. /\ \A n \in Names \ {k} :
           /\ uid'[n] = uid[n] /\ site'[n] = site[n] /\ power'[n] = power[n]
           /\ gen'[n] = gen[n] /\ deleting'[n] = deleting[n] /\ fins'[n] = fins[n]
           /\ status'[n] = status[n]
      /\ uid'[k] = 0 /\ gen'[k] = 0 /\ ~deleting'[k] /\ fins'[k] = {} /\ status'[k] = NoStatus
  BY DEF Remove, Inv, TypeOK, ObjTypes
<1>3. \A n \in Names : ObjInv(n)'
  BY SMT, <1>2 DEF Inv, ObjInv, NoStatus
<1>4. \A n \in Names : SnapInv(n)'
  BY SMT, <1>1, <1>2 DEF Inv, SnapInv
<1>5. ASSUME "site" \notin Edits PROVE NoOrphans'
  BY SMT, <1>2, <1>5 DEF Inv, NoOrphans
<1>6. StatusIsOwn' /\ SyncedIsCurrent'
  BY SMT, <1>2 DEF Inv, StatusIsOwn, SyncedIsCurrent, NoStatus
<1> QED
  BY <1>1, <1>3, <1>4, <1>5, <1>6 DEF Inv

\* Deletion marks an object and other controllers change their own finalizer.
LEMMA MarkKeepsInv ==
  ASSUME Inv, TypeOK', NEW k \in Names, uid[k] # 0,
         UNCHANGED <<vm, ctlVars, uid, site, power, gen, status>>,
         \A n \in Names : /\ Finalizer \in fins'[n] <=> Finalizer \in fins[n]
                          /\ deleting[n] => deleting'[n]
                          /\ n # k => fins'[n] = fins[n] /\ deleting'[n] = deleting[n]
  PROVE  Inv'
<1>1. HardwareInv' /\ StepInv' /\ (\A n \in Names : Busy(n)' <=> Busy(n)) /\ snap' = snap
  BY OthersFrame DEF ctlVars
<1>2. \A n \in Names : ObjInv(n)'
  BY DEF Inv, ObjInv
<1>3. \A n \in Names : SnapInv(n)'
  BY <1>1 DEF Inv, SnapInv
<1>4. ASSUME "site" \notin Edits PROVE NoOrphans'
  BY SMT, <1>4 DEF Inv, NoOrphans
<1>5. StatusIsOwn' /\ SyncedIsCurrent'
  BY DEF Inv, StatusIsOwn, SyncedIsCurrent
<1> QED
  BY <1>1, <1>2, <1>3, <1>4, <1>5 DEF Inv

LEMMA FinalizersKeepInv ==
  ASSUME Inv, TypeOK', NEW k \in Names,
         UserDeletes(k) \/ OtherClaims(k) \/ OtherReleases(k)
  PROVE  Inv'
<1>0. Finalizer # Other
  BY ReconcileAssumption
<1>1. CASE UserDeletes(k)
  <2>1. CASE fins[k] = {} /\ Remove(k)
    BY <1>1, <2>1, RemovalKeepsInv DEF UserDeletes
  <2>2. CASE ~(fins[k] = {} /\ Remove(k))
    BY <1>1, <2>2, MarkKeepsInv DEF UserDeletes, Inv, TypeOK, ObjTypes
  <2> QED
    BY <2>1, <2>2
<1>2. CASE OtherClaims(k)
  BY <1>0, <1>2, MarkKeepsInv DEF OtherClaims, Inv, TypeOK, ObjTypes
<1>3. CASE OtherReleases(k)
  <2>1. CASE fins[k] = {Other} /\ Remove(k)
    BY <1>0, <1>3, <2>1, RemovalKeepsInv DEF OtherReleases
  <2>2. CASE ~(fins[k] = {Other} /\ Remove(k))
    <3>1. uid[k] # 0
      BY <1>3 DEF OtherReleases, Inv, ObjInv
    <3> QED
      BY <1>0, <1>3, <2>2, <3>1, MarkKeepsInv, SMTT(30) DEF OtherReleases, Inv, TypeOK, ObjTypes
  <2> QED
    BY <2>1, <2>2
<1> QED
  BY <1>1, <1>2, <1>3

LEMMA ExitKeepsInv ==
  ASSUME Inv, TypeOK', NEW d \in Dirs, VMExits(d)
  PROVE  Inv'
<1>1. UNCHANGED objVars /\ UNCHANGED ctlVars /\ vm[d] = "Running"
      /\ \A e \in Dirs : vm'[e] = vm[e] \/ (e = d /\ vm'[e] = "Stopped")
  BY DEF VMExits, Inv, TypeOK
<1>2. \A s \in Sites, n \in Names, u \in UIDs : <<s, n, u>> \in Dirs
  BY DEF Dirs
<1>3. \A n \in Names : SnapInv(n)'
  <2>1. \A n \in Names : (Busy(n)' => Busy(n)) /\ snap' = snap
    BY <1>1 DEF Busy, ctlVars
  <2> QED
    BY <1>1, <2>1, SnapKept
<1>4. StepInv'
  <2>1. pc = "release" => vm'[Dir(cur)] = "Absent"
    <3>1. SUFFICES ASSUME pc = "release" PROVE vm'[Dir(cur)] = "Absent"
      OBVIOUS
    <3>2. Dir(cur) \in Dirs /\ vm[Dir(cur)] = "Absent"
      BY <3>1, DirTypes DEF Inv, StepInv
    <3> QED
      BY <1>1, <3>2
  <2> QED
    BY <1>1, <2>1 DEF Inv, StepInv, ctlVars, Dir
<1>5. HardwareInv'
  BY <1>1, <1>2, ReconcileAssumption DEF Inv, HardwareInv
<1>6. ASSUME "site" \notin Edits PROVE NoOrphans'
  <2>1. NoOrphans /\ UNCHANGED <<uid, site, fins>>
    BY <1>1, <1>6 DEF Inv, objVars
  <2> QED
    BY SMT, <1>1, <1>2, <2>1 DEF NoOrphans
<1> QED
  BY <1>1, <1>3, <1>4, <1>5, <1>6, ObjKept DEF Inv

-----------------------------------------------------------------------------
(* The controller's calls and returns. *)

\* A snapshot in use that is kept, of an object that is kept, stays true.
LEMMA SnapStays ==
  ASSUME Inv,
         \A n \in Names : Busy(n)' =>
           /\ Busy(n) /\ snap'[n] = snap[n]
           /\ uid'[n] = uid[n] /\ site'[n] = site[n] /\ power'[n] = power[n] /\ gen'[n] = gen[n]
           /\ deleting'[n] = deleting[n] /\ fins'[n] = fins[n]
  PROVE  \A n \in Names : SnapInv(n)'
<1> SUFFICES ASSUME NEW n \in Names, Busy(n)' PROVE SnapInv(n)'
  BY DEF SnapInv
<1>1. SnapInv(n) /\ Busy(n)
  BY DEF Inv
<1> QED
  BY <1>1, SMTT(30) DEF SnapInv

\* When reconcile returns, no snapshot but that of its item is given up.
LEMMA ItemDone ==
  ASSUME Inv, Done, pc \notin {"list", "pick"}
  PROVE  /\ \A n \in Names : Busy(n)' => n # cur /\ Busy(n) /\ snap'[n] = snap[n]
         /\ StepInv'
BY DEF Inv, Done, Busy, StepInv, TypeOK, CtlTypes

\* The driver changes one state directory, that of the object in hand, and puts
\* something there only for an object that is claimed.
LEMMA DriverCall ==
  ASSUME Inv, UNCHANGED objVars, pc \notin {"list", "pick"}, NEW st,
         vm' = vm \/ (cur \notin Hardware /\ vm' = [vm EXCEPT ![Dir(cur)] = st]),
         st = "Absent" \/ vm[Dir(cur)] # "Absent" \/ snap[cur].claimed
  PROVE  HardwareInv' /\ ("site" \notin Edits => NoOrphans')
<1>1. CASE vm' = vm
  BY <1>1, VMKept DEF objVars
<1>2. CASE cur \notin Hardware /\ vm' = [vm EXCEPT ![Dir(cur)] = st]
  <2>1. Dir(cur) = <<snap[cur].site, cur, snap[cur].uid>> /\ Dir(cur) \in Dirs /\ cur \in Names
    BY DirTypes DEF Dir
  <2>2. \A s \in Sites, n \in Names, u \in UIDs :
          /\ <<s, n, u>> # Dir(cur) => vm'[<<s, n, u>>] = vm[<<s, n, u>>]
          /\ <<s, n, u>> = Dir(cur) =>
               vm'[<<s, n, u>>] = st /\ s = snap[cur].site /\ n = cur /\ u = snap[cur].uid
    BY SMT, <1>2, <2>1 DEF Inv, TypeOK, Dirs
  <2>3. ASSUME NEW s \in Sites, NEW n \in Hardware, NEW u \in UIDs
        PROVE  vm'[<<s, n, u>>] = "Absent"
    <3>1. n \in Names /\ vm[<<s, n, u>>] = "Absent"
      BY ReconcileAssumption DEF Inv, HardwareInv
    <3>2. <<s, n, u>> # Dir(cur)
      BY <1>2, <2>2, <3>1
    <3> QED
      BY <2>2, <3>1, <3>2
  <2>4. ASSUME "site" \notin Edits PROVE NoOrphans'
    <3>1. NoOrphans /\ UNCHANGED <<uid, site, fins>>
      BY <2>4 DEF Inv, objVars
    <3>2. snap[cur].claimed =>
            uid[cur] = snap[cur].uid /\ site[cur] = snap[cur].site /\ Finalizer \in fins[cur]
      BY <2>1, <2>4 DEF Inv, SnapInv, Busy
    <3> QED
      BY SMT, <2>1, <2>2, <3>1, <3>2 DEF NoOrphans
  <2> QED
    BY <2>3, <2>4 DEF HardwareInv
<1> QED
  BY <1>1, <1>2

-----------------------------------------------------------------------------
(* The invariant, step by step of the controller. *)

\* Listing, picking an item and going to sleep.
LEMMA LoopKeepsInv ==
  ASSUME Inv, TypeOK', List \/ Pick \/ EndTick \/ Restart
  PROVE  Inv'
<1>1. UNCHANGED objVars /\ UNCHANGED vm
  BY DEF List, Pick, EndTick, Restart
<1>2. CASE List
  <2>1. ASSUME NEW n \in Names, Busy(n)' PROVE SnapInv(n)'
    <3>1. uid[n] # 0 /\ site[n] \in Sites /\ gen[n] \in Nat
      BY <1>2, <2>1, SMTT(30) DEF Inv, List, Busy, ObjInv, TypeOK, ObjTypes
    <3>2. snap'[n] = [uid |-> uid[n], site |-> site[n], power |-> power[n],
                      gen |-> gen[n], deleting |-> deleting[n],
                      claimed |-> Finalizer \in fins[n]]
      BY <1>2 DEF List
    <3>3. /\ snap'[n].uid = uid[n] /\ snap'[n].site = site[n] /\ snap'[n].power = power[n]
          /\ snap'[n].gen = gen[n] /\ snap'[n].deleting = deleting[n]
          /\ snap'[n].claimed = (Finalizer \in fins[n])
      BY <3>2
    <3>4. (snap'[n].deleting <=> deleting[n]) /\ (snap'[n].claimed <=> Finalizer \in fins[n])
      BY <3>3, Zenon
    <3> QED
      BY <1>1, <3>1, <3>3, <3>4, SMTT(30) DEF SnapInv, objVars
  <2>2. StepInv'
    BY <1>2, SMTT(30) DEF List, StepInv
  <2>3. \A n \in Names : SnapInv(n)'
    BY <2>1 DEF SnapInv
  <2> QED
    BY <1>1, <2>2, <2>3, ObjKept, VMKept DEF Inv, objVars
<1>3. CASE Pick
  <2>1. \A n \in Names : Busy(n)' => Busy(n) /\ snap'[n] = snap[n]
    BY <1>3 DEF Pick, Busy
  <2>2. StepInv'
    BY <1>3, SMTT(30) DEF Inv, Pick, Route, StepInv
  <2> QED
    BY <1>1, <2>1, <2>2, ObjKept, VMKept, SnapKept DEF Inv, objVars
<1>4. CASE EndTick \/ Restart
  <2>1. \A n \in Names : ~Busy(n)'
    BY <1>4 DEF EndTick, Restart, Goto, Busy
  <2>2. StepInv'
    BY <1>4 DEF EndTick, Restart, Goto, StepInv
  <2> QED
    BY <1>1, <2>1, <2>2, ObjKept, VMKept, SnapKept DEF Inv, objVars
<1> QED
  BY <1>2, <1>3, <1>4

\* Calls of the driver that end the item.
LEMMA CallKeepsInv ==
  ASSUME Inv, TypeOK', DestroyFails \/ Create \/ Stop \/ CallFails
  PROVE  Inv'
<1>1. UNCHANGED objVars /\ Done /\ pc \notin {"list", "pick"}
  BY DEF DestroyFails, Create, Stop, CallFails
<1>2. (\A n \in Names : SnapInv(n)') /\ StepInv'
  BY <1>1, ItemDone, SnapKept
<1>3. HardwareInv' /\ ("site" \notin Edits => NoOrphans')
  <2>1. CASE DestroyFails
    <3>1. PICK st \in States : /\ vm[Dir(cur)] = "Absent" => st = "Absent"
                               /\ vm' = [vm EXCEPT ![Dir(cur)] = st]
      BY <2>1, Zenon DEF DestroyFails
    <3>2. cur \notin Hardware
      BY <2>1 DEF DestroyFails
    <3> QED
      BY <1>1, <3>1, <3>2, DriverCall, Zenon
  <2>2. CASE Create \/ Stop
    <3>1. snap[cur].claimed
      BY <2>2 DEF Inv, StepInv, Create, Stop
    <3>2. \/ vm' = vm
          \/ cur \notin Hardware /\ vm' = [vm EXCEPT ![Dir(cur)] = "Running"]
          \/ cur \notin Hardware /\ vm' = [vm EXCEPT ![Dir(cur)] = "Stopped"]
      BY <2>2 DEF Create, Stop
    <3> QED
      BY <1>1, <3>1, <3>2, DriverCall
  <2>3. CASE CallFails
    BY <1>1, <2>3, VMKept DEF CallFails, objVars
  <2> QED
    BY <2>1, <2>2, <2>3
<1> QED
  BY <1>1, <1>2, <1>3, ObjKept DEF Inv

\* Steps that go on with the item.
LEMMA ItemKeepsInv ==
  ASSUME Inv, TypeOK', Destroy \/ Observe \/ CreateFails \/ StopFails
  PROVE  Inv'
<1>1. UNCHANGED objVars /\ pc \notin {"list", "pick"} /\ cur' = cur /\ todo' = todo /\ snap' = snap
  BY DEF Destroy, Observe, CreateFails, StopFails, Goto
<1>2. \A n \in Names : SnapInv(n)'
  <2>1. \A n \in Names : Busy(n)' => Busy(n)
    BY <1>1 DEF Busy
  <2> QED
    BY <1>1, <2>1, SnapKept
<1>3. HardwareInv' /\ ("site" \notin Edits => NoOrphans')
  <2>1. CASE Destroy
    BY <1>1, <2>1, DriverCall DEF Destroy
  <2>2. CASE Observe \/ StopFails
    BY <1>1, <2>2, VMKept DEF Observe, StopFails, objVars
  <2>3. CASE CreateFails
    <3>1. snap[cur].claimed
      BY <2>3 DEF Inv, StepInv, CreateFails
    <3> QED
      BY <1>1, <2>3, <3>1, DriverCall DEF CreateFails
  <2> QED
    BY <2>1, <2>2, <2>3
<1>4. StepInv'
  <2>1. CASE Destroy
    <3>1. vm'[Dir(cur)] = "Absent"
      <4>1. CASE cur \in Hardware
        BY <2>1, <4>1, DirTypes DEF Inv, HardwareInv, Destroy, Dir
      <4>2. CASE cur \notin Hardware
        BY <1>1, <2>1, <4>2, DirTypes, SMTT(30) DEF Inv, TypeOK, Destroy
      <4> QED
        BY <4>1, <4>2
    <3> QED
      BY <1>1, <2>1, <3>1 DEF Inv, StepInv, Destroy, Goto, Dir
  <2>2. CASE Observe
    <3>1. snap[cur] \in Snaps /\ seen' \in States
      BY <1>1 DEF Inv, TypeOK, CtlTypes
    <3>2. snap[cur].power \in Powers
      BY <3>1 DEF Snaps
    <3>3. pc' = "publish" => seen' = snap[cur].power
      BY <2>2, <3>1, <3>2 DEF Observe, Plan, Powers, States
    <3>4. pc' \in {"create", "stop", "publish"}
      BY <2>2 DEF Observe, Plan
    <3> QED
      BY <1>1, <2>2, <3>3, <3>4 DEF Inv, StepInv, Observe
  <2>3. CASE CreateFails \/ StopFails
    BY <1>1, <2>3, SMTT(30) DEF Inv, StepInv, CreateFails, StopFails
  <2> QED
    BY <2>1, <2>2, <2>3
<1> QED
  BY <1>1, <1>2, <1>3, <1>4, ObjKept DEF Inv

\* The finalizer goes only when the machine of the only directory that can hold
\* one is gone.
LEMMA ReleaseKeepsInv ==
  ASSUME Inv, TypeOK', Release
  PROVE  Inv'
<1>1. cur \in Names /\ Done /\ UNCHANGED vm /\ pc = "release" /\ cur \notin todo
  BY DEF Inv, StepInv, TypeOK, CtlTypes, Release
<1>2. /\ \A n \in Names : Busy(n)' => n # cur /\ Busy(n) /\ snap'[n] = snap[n]
      /\ StepInv'
  BY <1>1, ItemDone
<1>3. \A n \in Names \ {cur} :
        /\ uid'[n] = uid[n] /\ site'[n] = site[n] /\ power'[n] = power[n] /\ gen'[n] = gen[n]
        /\ deleting'[n] = deleting[n] /\ fins'[n] = fins[n] /\ status'[n] = status[n]
  BY DEF Release, Remove, Inv, TypeOK, ObjTypes
<1>4. fins'[cur] = {}
  BY <1>1 DEF Release, Remove, Inv, TypeOK, ObjTypes
<1>5. \/ /\ uid'[cur] = 0 /\ ~deleting'[cur] /\ status'[cur] = NoStatus /\ gen'[cur] = 0
      \/ /\ uid'[cur] = uid[cur] /\ site'[cur] = site[cur] /\ ~deleting'[cur]
         /\ status'[cur] = status[cur] /\ gen'[cur] = gen[cur] /\ power'[cur] = power[cur]
  BY <1>1, SMTT(30) DEF Release, Remove, Inv, TypeOK, ObjTypes
<1>6. \A n \in Names : ObjInv(n)'
  BY <1>3, <1>4, <1>5, SMTT(30) DEF Inv, ObjInv, NoStatus
<1>7. \A n \in Names : SnapInv(n)'
  BY <1>2, <1>3, SnapStays
<1>8. HardwareInv'
  BY <1>1, VMKept
<1>9. ASSUME "site" \notin Edits PROVE NoOrphans'
  <2>1. \A s \in Sites, u \in UIDs : vm[<<s, cur, u>>] = "Absent"
    <3>1. vm[<<snap[cur].site, cur, snap[cur].uid>>] = "Absent"
      BY <1>1 DEF Inv, StepInv, Dir
    <3>2. Finalizer \in fins[cur] => uid[cur] = snap[cur].uid /\ site[cur] = snap[cur].site
      BY <1>1, <1>9, SMTT(30) DEF Inv, SnapInv, Busy
    <3> QED
      BY SMT, <1>1, <1>9, <3>1, <3>2 DEF Inv, NoOrphans
  <2> QED
    BY SMT, <1>1, <1>3, <1>9, <2>1 DEF Inv, NoOrphans
<1>10. StatusIsOwn'
  BY <1>3, <1>5 DEF Inv, StatusIsOwn
<1>11. SyncedIsCurrent'
  BY SMT, <1>3, <1>5 DEF Inv, SyncedIsCurrent, NoStatus
<1> QED
  BY <1>2, <1>6, <1>7, <1>8, <1>9, <1>10, <1>11 DEF Inv

LEMMA ClaimKeepsInv ==
  ASSUME Inv, TypeOK', Claim
  PROVE  Inv'
<1>1. cur \in Names /\ Done /\ UNCHANGED <<vm, uid, site, power, gen, deleting, status>>
      /\ pc = "claim" /\ cur \notin todo /\ ~snap[cur].claimed
  BY DEF Inv, StepInv, TypeOK, CtlTypes, Claim
<1>2. /\ \A n \in Names : Busy(n)' => n # cur /\ Busy(n) /\ snap'[n] = snap[n]
      /\ StepInv'
  BY <1>1, ItemDone
<1>3. /\ \A n \in Names \ {cur} : fins'[n] = fins[n]
      /\ fins'[cur] = fins[cur] \/ (uid[cur] # 0 /\ fins'[cur] = {Finalizer})
  BY <1>1 DEF Claim, Claimable, Inv, TypeOK, ObjTypes
<1>4. \A n \in Names : ObjInv(n)'
  BY <1>1, <1>3, SMTT(30) DEF Inv, ObjInv
<1>5. \A n \in Names : SnapInv(n)'
  BY <1>1, <1>2, <1>3, SnapStays
<1>6. HardwareInv'
  BY <1>1, VMKept, SMTT(30)
<1>7. ASSUME "site" \notin Edits PROVE NoOrphans'
  BY <1>1, <1>3, <1>7, SMTT(30) DEF Inv, NoOrphans
<1>8. StatusIsOwn' /\ SyncedIsCurrent'
  BY <1>1, SMTT(30) DEF Inv, StatusIsOwn, SyncedIsCurrent
<1> QED
  BY <1>2, <1>4, <1>5, <1>6, <1>7, <1>8 DEF Inv

\* The status that is published is that of the object it goes to, because the
\* finalizer in the snapshot has kept that object in place.
LEMMA PublishKeepsInv ==
  ASSUME Inv, TypeOK', Publish
  PROVE  Inv'
<1>1. cur \in Names /\ Done /\ UNCHANGED <<vm, uid, site, power, gen, deleting, fins>>
      /\ pc = "publish" /\ snap[cur].claimed
      /\ (verdict = "converged" => seen = snap[cur].power)
  BY DEF Inv, StepInv, TypeOK, CtlTypes, Publish
<1>2. /\ \A n \in Names : Busy(n)' => n # cur /\ Busy(n) /\ snap'[n] = snap[n]
      /\ StepInv'
  BY <1>1, ItemDone
<1>3. /\ uid[cur] = snap[cur].uid /\ snap[cur].gen <= gen[cur] /\ snap[cur].uid # 0
      /\ snap[cur].gen = gen[cur] => snap[cur].power = power[cur]
  BY <1>1, SMTT(30) DEF Inv, SnapInv, Busy
<1>4. /\ \A n \in Names \ {cur} : status'[n] = status[n]
      /\ status'[cur] = StatusOf(cur)
  BY <1>1, <1>3, SMTT(30) DEF Publish, Inv, TypeOK
<1>5. /\ StatusOf(cur).of = uid[cur] /\ StatusOf(cur).gen = snap[cur].gen
      /\ StatusOf(cur).synced => StatusOf(cur).power = snap[cur].power
  BY <1>1, <1>3, Zenon DEF StatusOf
<1>6. \A n \in Names : ObjInv(n)'
  BY <1>1, <1>3, <1>4, <1>5, SMTT(30) DEF Inv, ObjInv
<1>7. \A n \in Names : SnapInv(n)'
  BY <1>1, <1>2, SnapStays
<1>8. HardwareInv' /\ ("site" \notin Edits => NoOrphans')
  BY <1>1, VMKept
<1>9. StatusIsOwn'
  BY <1>1, <1>4, <1>5, SMTT(30) DEF Inv, StatusIsOwn
<1>10. SyncedIsCurrent'
  BY <1>1, <1>3, <1>4, <1>5 DEF Inv, SyncedIsCurrent
<1> QED
  BY <1>2, <1>6, <1>7, <1>8, <1>9, <1>10 DEF Inv

-----------------------------------------------------------------------------
LEMMA InvInit == Init => Inv
<1> SUFFICES ASSUME Init PROVE Inv
  OBVIOUS
<1>1. TypeOK
  BY EmptyTypes, ReconcileAssumption
  DEF Init, TypeOK, ObjTypes, CtlTypes, Powers, States
<1>2. (\A n \in Names : ObjInv(n)) /\ StatusIsOwn /\ SyncedIsCurrent
  BY DEF Init, ObjInv, StatusIsOwn, SyncedIsCurrent, NoStatus
<1>3. (\A n \in Names : SnapInv(n)) /\ StepInv
  BY DEF Init, SnapInv, StepInv, Busy
<1>4. HardwareInv /\ NoOrphans
  BY ReconcileAssumption DEF Init, HardwareInv, NoOrphans, Dirs
<1> QED
  BY <1>1, <1>2, <1>3, <1>4 DEF Inv

LEMMA InvStep ==
  ASSUME Inv, [Next]_vars
  PROVE  Inv'
<1>1. TypeOK'
  BY TypeStep
<1>2. CASE List \/ Pick \/ EndTick \/ Restart
  BY <1>1, <1>2, LoopKeepsInv
<1>3. CASE DestroyFails \/ Create \/ Stop \/ CallFails
  BY <1>1, <1>3, CallKeepsInv
<1>4. CASE Destroy \/ Observe \/ CreateFails \/ StopFails
  BY <1>1, <1>4, ItemKeepsInv
<1>5. CASE Release \/ Claim \/ Publish
  BY <1>1, <1>5, ReleaseKeepsInv, ClaimKeepsInv, PublishKeepsInv
<1>6. CASE Outside
  <2>1. CASE \E n \in Names, s \in Sites, w \in {"Running", "Stopped"} :
               UserApplies(n, s, w) \/ UserEdits(n, s, w)
    BY <1>1, <2>1, UserKeepsInv DEF Powers
  <2>2. CASE \E n \in Names : UserDeletes(n) \/ OtherClaims(n) \/ OtherReleases(n)
    BY <1>1, <2>2, FinalizersKeepInv
  <2>3. CASE \E d \in Dirs : VMExits(d)
    BY <1>1, <2>3, ExitKeepsInv
  <2> QED
    BY <1>6, <2>1, <2>2, <2>3 DEF Outside
<1>7. CASE UNCHANGED vars
  <2>1. UNCHANGED objVars /\ UNCHANGED vm /\ UNCHANGED ctlVars
    BY <1>7 DEF vars
  <2>2. \A n \in Names : (Busy(n)' => Busy(n)) /\ snap' = snap
    BY <2>1 DEF Busy, ctlVars
  <2> QED
    BY <1>1, <2>1, <2>2, ObjKept, VMKept, SnapKept, OthersFrame DEF Inv, objVars
<1> QED
  BY <1>2, <1>3, <1>4, <1>5, <1>6, <1>7 DEF Next, Controller

\* The invariant of the controller loop, for any objects, sites and hardware and
\* any number of edits, re-creations and faults.
THEOREM Invariance == Spec => []Inv
BY InvInit, InvStep, PTL DEF Spec

\* reconcile's delete-first order and its finalizer: as long as spec.site is
\* left alone, no machine is ever left without an object that this controller's
\* finalizer protects.
THEOREM NothingLeaks ==
  ASSUME "site" \notin Edits
  PROVE  Spec => []NoOrphans
<1>1. Inv => NoOrphans
  BY DEF Inv
<1> QED
  BY <1>1, Invariance, PTL

\* publish goes by name and may be late; still a status is that of the object
\* that carries it, and Synced at the current generation is about today's spec.
THEOREM StatusesAreTrue == Spec => []TrueStatuses
<1>1. Inv => TrueStatuses
  BY DEF Inv, TrueStatuses
<1> QED
  BY <1>1, Invariance, PTL

-----------------------------------------------------------------------------
(* What is converged is left alone. *)

\* The object of a status that is of today's spec, and its directory.
LEMMA CurrentObject ==
  ASSUME Inv, NEW n \in Names, Current(n)
  PROVE  uid[n] # 0 /\ status[n] # NoStatus /\ <<site[n], n, uid[n]>> \in Dirs
<1>1. status[n] # NoStatus
  BY DEF Current, NoStatus
<1>2. uid[n] # 0 /\ site[n] \in Sites
  BY <1>1 DEF Inv, ObjInv
<1>3. uid[n] \in 0..MaxUID
  BY DEF Inv, TypeOK, ObjTypes
<1> QED
  BY SMT, <1>1, <1>2, <1>3, ReconcileAssumption DEF Dirs, UIDs

\* What the controller works on for an object whose status is of today's spec:
\* today's spec, and the machine the object has.
LEMMA CurrentItem ==
  ASSUME Inv, KeepInv, pc \notin {"list", "pick"}, snap[cur].claimed, Current(cur)
  PROVE  /\ snap[cur].gen = gen[cur] /\ snap[cur].power = power[cur]
         /\ Dir(cur) = <<site[cur], cur, uid[cur]>>
<1>1. cur \in Names /\ Busy(cur)
  BY DEF Inv, TypeOK, CtlTypes, Busy
<1>2. /\ uid[cur] = snap[cur].uid /\ snap[cur].gen <= gen[cur]
      /\ snap[cur].gen = gen[cur] => snap[cur].power = power[cur]
  BY <1>1 DEF Inv, SnapInv
<1>3. /\ status[cur].gen <= snap[cur].gen /\ status[cur].gen = gen[cur]
      /\ snap[cur].gen = gen[cur] => snap[cur].site = site[cur]
  BY <1>1 DEF KeepInv, FreshInv, Current
<1>4. snap[cur] \in Snaps /\ gen[cur] \in Nat
  BY SMT, <1>1 DEF Inv, TypeOK, CtlTypes, ObjTypes
<1>5. snap[cur].gen \in Nat
  BY SMT, <1>4 DEF Snaps
<1>6. snap[cur].gen = gen[cur]
  BY SMT, <1>2, <1>3, <1>4, <1>5
<1> QED
  BY <1>2, <1>3, <1>6 DEF Dir

\* Users and other controllers mark an object, edit it, or replace one that is
\* not claimed.
LEMMA OutsideKeeps ==
  ASSUME Inv, KeepInv, UNCHANGED <<vm, ctlVars>>,
         \A n \in Names :
           \/ /\ uid'[n] = uid[n] /\ site'[n] = site[n] /\ power'[n] = power[n]
              /\ gen'[n] = gen[n] /\ status'[n] = status[n]
              /\ ~deleting'[n] => ~deleting[n]
              /\ Finalizer \in fins'[n] <=> Finalizer \in fins[n]
           \/ status'[n] = NoStatus /\ Finalizer \notin fins[n]
           \/ /\ status'[n] = status[n] /\ gen'[n] = gen[n] + 1 /\ fins'[n] = fins[n]
  PROVE  KeepInv'
<1> DEFINE Marked(n) == /\ uid'[n] = uid[n] /\ site'[n] = site[n] /\ power'[n] = power[n]
                        /\ gen'[n] = gen[n] /\ status'[n] = status[n]
                        /\ ~deleting'[n] => ~deleting[n]
                        /\ Finalizer \in fins'[n] <=> Finalizer \in fins[n]
           Replaced(n) == status'[n] = NoStatus /\ Finalizer \notin fins[n]
           Edited(n) == status'[n] = status[n] /\ gen'[n] = gen[n] + 1 /\ fins'[n] = fins[n]
<1>1. \A n \in Names : (Busy(n)' <=> Busy(n)) /\ snap' = snap /\ pc' = pc /\ cur' = cur
                       /\ verdict' = verdict /\ vm' = vm
  BY DEF Busy, ctlVars
<1>2. ASSUME NEW n \in Names
      PROVE  StatusInv(n)' /\ FreshInv(n)' /\ (Current(n)' => Current(n))
  <2>1. /\ StatusInv(n) /\ FreshInv(n)
        /\ status[n].gen \in Nat /\ gen[n] \in Nat /\ snap[n].gen \in Nat /\ status[n].gen <= gen[n]
    BY SMT DEF KeepInv, Inv, TypeOK, ObjTypes, ObjInv, CtlTypes, Statuses, Snaps
  <2>2. Busy(n) /\ snap[n].claimed => Finalizer \in fins[n] /\ snap[n].gen <= gen[n]
    BY DEF Inv, SnapInv
  <2>3. CASE Marked(n)
    BY <1>1, <2>1, <2>3 DEF StatusInv, FreshInv, Current
  <2>4. CASE Replaced(n)
    BY <1>1, <2>2, <2>4 DEF StatusInv, FreshInv, Current, NoStatus
  <2>5. CASE Edited(n)
    <3>1. ~Current(n)'
      BY SMT, <2>1, <2>5 DEF Current
    <3>2. Busy(n) /\ snap[n].claimed => snap[n].gen # gen'[n]
      BY SMT, <2>1, <2>2, <2>5
    <3> QED
      BY <1>1, <2>1, <2>5, <3>1, <3>2 DEF StatusInv, FreshInv
  <2> QED
    BY <2>3, <2>4, <2>5
<1>3. CallInv'
  <2>1. cur \in Names
    BY DEF Inv, TypeOK, CtlTypes
  <2> QED
    BY <1>1, <1>2, <2>1 DEF KeepInv, CallInv, Dir
<1> QED
  BY <1>2, <1>3 DEF KeepInv

LEMMA UsersKeep ==
  ASSUME Inv, KeepInv, NEW k \in Names,
         \/ \E s \in Sites, w \in Powers : UserApplies(k, s, w) \/ UserEdits(k, s, w)
         \/ UserDeletes(k) \/ OtherClaims(k) \/ OtherReleases(k)
  PROVE  KeepInv'
<1> USE DEF Inv, TypeOK, ObjTypes
<1>0. Finalizer # Other /\ (uid[k] = 0 => fins[k] = {})
  BY ReconcileAssumption DEF ObjInv
<1>1. ASSUME NEW s \in Sites, NEW w \in Powers, UserApplies(k, s, w) PROVE KeepInv'
  <2>1. /\ UNCHANGED <<vm, ctlVars>> /\ status'[k] = NoStatus /\ Finalizer \notin fins[k]
        /\ \A n \in Names \ {k} :
             /\ uid'[n] = uid[n] /\ site'[n] = site[n] /\ power'[n] = power[n] /\ gen'[n] = gen[n]
             /\ status'[n] = status[n] /\ deleting'[n] = deleting[n] /\ fins'[n] = fins[n]
    BY <1>0, <1>1 DEF UserApplies
  <2> QED
    BY <2>1, OutsideKeeps
<1>2. ASSUME NEW s \in Sites, NEW w \in Powers, UserEdits(k, s, w) PROVE KeepInv'
  <2>1. /\ UNCHANGED <<vm, ctlVars, uid, deleting, fins, status>> /\ gen'[k] = gen[k] + 1
        /\ \A n \in Names \ {k} :
             site'[n] = site[n] /\ power'[n] = power[n] /\ gen'[n] = gen[n]
    BY <1>2 DEF UserEdits
  <2> QED
    BY <2>1, OutsideKeeps
<1>3. ASSUME Remove(k), Finalizer \notin fins[k], UNCHANGED <<vm, ctlVars>> PROVE KeepInv'
  <2>1. /\ status'[k] = NoStatus
        /\ \A n \in Names \ {k} :
             /\ uid'[n] = uid[n] /\ site'[n] = site[n] /\ power'[n] = power[n] /\ gen'[n] = gen[n]
             /\ status'[n] = status[n] /\ deleting'[n] = deleting[n] /\ fins'[n] = fins[n]
    BY <1>3 DEF Remove
  <2> QED
    BY <1>3, <2>1, OutsideKeeps
<1>4. CASE UserDeletes(k)
  <2>1. CASE fins[k] = {} /\ Remove(k)
    BY <1>3, <1>4, <2>1 DEF UserDeletes
  <2>2. CASE ~(fins[k] = {} /\ Remove(k))
    <3>1. /\ UNCHANGED <<vm, ctlVars, uid, site, power, gen, status, fins>>
          /\ \A n \in Names : ~deleting'[n] => ~deleting[n]
      BY <1>4, <2>2 DEF UserDeletes
    <3> QED
      BY <3>1, OutsideKeeps
  <2> QED
    BY <2>1, <2>2
<1>5. CASE OtherClaims(k)
  <2>1. /\ UNCHANGED <<vm, ctlVars, uid, site, power, gen, status, deleting>>
        /\ \A n \in Names : Finalizer \in fins'[n] <=> Finalizer \in fins[n]
    BY <1>0, <1>5 DEF OtherClaims
  <2> QED
    BY <2>1, OutsideKeeps
<1>6. CASE OtherReleases(k)
  <2>1. CASE fins[k] = {Other} /\ Remove(k)
    BY <1>0, <1>3, <1>6, <2>1 DEF OtherReleases
  <2>2. CASE ~(fins[k] = {Other} /\ Remove(k))
    <3>1. /\ UNCHANGED <<vm, ctlVars, uid, site, power, gen, status, deleting>>
          /\ \A n \in Names : Finalizer \in fins'[n] <=> Finalizer \in fins[n]
      BY <1>0, <1>6, <2>2 DEF OtherReleases
    <3> QED
      BY <3>1, OutsideKeeps
  <2> QED
    BY <2>1, <2>2
<1> QED
  BY <1>1, <1>2, <1>4, <1>5, <1>6

\* A machine that dies is stopped, where something else than running was asked
\* for or not.
LEMMA ExitKeeps ==
  ASSUME Inv, KeepInv, NEW d \in Dirs, VMExits(d)
  PROVE  KeepInv'
<1>1. /\ UNCHANGED objVars /\ UNCHANGED ctlVars /\ vm[d] = "Running"
      /\ \A e \in Dirs : vm'[e] = vm[e] \/ (vm[e] = "Running" /\ vm'[e] = "Stopped")
  BY DEF VMExits, Inv, TypeOK
<1>2. \A n \in Names : Current(n)' <=> Current(n)
  BY <1>1 DEF Current, objVars
<1>3. ASSUME NEW n \in Names PROVE StatusInv(n)' /\ FreshInv(n)'
  <2>1. StatusInv(n)'
    BY <1>1, <1>2, CurrentObject DEF KeepInv, StatusInv, objVars
  <2>2. FreshInv(n)'
    BY <1>1 DEF KeepInv, FreshInv, Busy, objVars, ctlVars
  <2> QED
    BY <2>1, <2>2
<1>4. CallInv'
  <2>1. cur \in Names /\ Dir(cur)' = Dir(cur)
    BY <1>1 DEF Inv, TypeOK, CtlTypes, Dir, ctlVars
  <2>2. pc \notin {"list", "pick"} =>
          vm'[Dir(cur)] = vm[Dir(cur)] \/ (vm[Dir(cur)] = "Running" /\ vm'[Dir(cur)] = "Stopped")
    BY <1>1, DirTypes
  <2> QED
    BY <1>1, <1>2, <2>1, <2>2 DEF KeepInv, CallInv, ctlVars
<1> QED
  BY <1>3, <1>4 DEF KeepInv

\* When reconcile returns, and wherever the loop is between two items, nothing
\* is claimed about calls.
LEMMA NoCall ==
  ASSUME pc' \notin {"create", "stop", "publish"}
  PROVE  CallInv'
BY DEF CallInv

\* Snapshots in use of objects that nobody touched.
LEMMA FreshStays ==
  ASSUME KeepInv,
         \A n \in Names : Busy(n)' =>
           /\ Busy(n) /\ snap'[n] = snap[n]
           /\ site'[n] = site[n] /\ gen'[n] = gen[n] /\ status'[n] = status[n]
  PROVE  \A n \in Names : FreshInv(n)'
BY DEF KeepInv, FreshInv

\* Steps that call nobody, and failed patches.
LEMMA LoopKeeps ==
  ASSUME Inv, KeepInv, List \/ Pick \/ EndTick \/ Restart \/ CallFails
  PROVE  KeepInv'
<1>1. UNCHANGED objVars /\ UNCHANGED vm /\ pc' \notin {"create", "stop", "publish"}
  BY DEF List, Pick, Route, EndTick, Restart, CallFails, Goto, Done
<1>2. \A n \in Names : StatusInv(n)'
  BY <1>1 DEF KeepInv, StatusInv, Current, objVars
<1>3. \A n \in Names : FreshInv(n)'
  <2>1. CASE List
    <3> SUFFICES ASSUME NEW n \in Names PROVE FreshInv(n)'
      OBVIOUS
    <3>1. snap'[n].gen = gen[n] /\ snap'[n].site = site[n]
      BY <2>1 DEF List
    <3>2. status[n].gen <= gen[n]
      BY DEF Inv, ObjInv
    <3> QED
      BY <1>1, <3>1, <3>2 DEF FreshInv, objVars
  <2>2. CASE ~List
    <3>1. \A n \in Names : Busy(n)' => Busy(n) /\ snap'[n] = snap[n]
      BY <2>2 DEF Pick, EndTick, Restart, CallFails, Goto, Done, Busy, Inv, TypeOK, CtlTypes,
                  StepInv
    <3> QED
      BY <1>1, <3>1, FreshStays DEF objVars
  <2> QED
    BY <2>1, <2>2
<1> QED
  BY <1>1, <1>2, <1>3, NoCall DEF KeepInv

\* A call of the driver leaves the item's machine as a status of today allows.
LEMMA DriverKeeps ==
  ASSUME Inv, KeepInv, UNCHANGED objVars, pc \notin {"list", "pick"}, NEW st,
         vm' = vm \/ (cur \notin Hardware /\ vm' = [vm EXCEPT ![Dir(cur)] = st]),
         cur \notin Hardware /\ Current(cur) => st \in {"Stopped", power[cur]}
  PROVE  \A n \in Names : StatusInv(n)'
<1> SUFFICES ASSUME NEW n \in Names PROVE StatusInv(n)'
  OBVIOUS
<1>1. /\ (status[n] # NoStatus => Finalizer \in fins[n])'
      /\ Current(n)' <=> Current(n)
  BY DEF KeepInv, StatusInv, Current, objVars
<1>2. ASSUME Current(n), n \notin Hardware
      PROVE  vm'[<<site[n], n, uid[n]>>] \in {"Stopped", power[n]}
  <2>1. <<site[n], n, uid[n]>> \in Dirs /\ vm[<<site[n], n, uid[n]>>] \in {"Stopped", power[n]}
    BY <1>2, CurrentObject DEF KeepInv, StatusInv
  <2>2. CASE vm' = vm
    BY <2>1, <2>2
  <2>3. CASE cur \notin Hardware /\ vm' = [vm EXCEPT ![Dir(cur)] = st]
    <3>1. CASE <<site[n], n, uid[n]>> = Dir(cur)
      <4>1. n = cur
        BY <3>1 DEF Dir
      <4>2. vm'[Dir(cur)] = st
        BY <2>1, <2>3, <3>1 DEF Inv, TypeOK
      <4> QED
        BY <1>2, <3>1, <4>1, <4>2
    <3>2. CASE <<site[n], n, uid[n]>> # Dir(cur)
      BY <2>1, <2>3, <3>2 DEF Inv, TypeOK
    <3> QED
      BY <3>1, <3>2
  <2> QED
    BY <2>2, <2>3
<1> QED
  BY <1>1, <1>2 DEF StatusInv, objVars

\* An item that is torn down has no status of today's spec: its object is being
\* deleted, or never was claimed.
LEMMA DoomedIsNotCurrent ==
  ASSUME Inv, KeepInv, pc \in {"destroy", "release"}
  PROVE  ~Current(cur)
<1>1. cur \in Names /\ Busy(cur) /\ snap[cur].deleting
  BY DEF Inv, TypeOK, CtlTypes, Busy, StepInv
<1>2. CASE snap[cur].claimed
  BY <1>1, <1>2 DEF Inv, SnapInv, Current
<1>3. CASE ~snap[cur].claimed
  <2>1. status[cur] = NoStatus
    BY <1>1, <1>3 DEF Inv, SnapInv, KeepInv, StatusInv
  <2> QED
    BY <2>1 DEF Current, NoStatus
<1> QED
  BY <1>2, <1>3

\* Creating, stopping and destroying.
LEMMA CallsKeep ==
  ASSUME Inv, KeepInv, Destroy \/ DestroyFails \/ Create \/ Stop \/ CreateFails
  PROVE  KeepInv'
<1>1. UNCHANGED objVars /\ pc \notin {"list", "pick"} /\ cur \in Names
  BY DEF Destroy, DestroyFails, Create, Stop, CreateFails, Inv, TypeOK, CtlTypes
<1>2. \A n \in Names : FreshInv(n)'
  <2>1. \A n \in Names : Busy(n)' => Busy(n) /\ snap'[n] = snap[n]
    <3>1. CASE Destroy \/ CreateFails
      BY <3>1 DEF Destroy, CreateFails, Goto, Busy
    <3>2. CASE DestroyFails \/ Create \/ Stop
      BY <1>1, <3>2, ItemDone DEF DestroyFails, Create, Stop
    <3> QED
      BY <3>1, <3>2
  <2> QED
    BY <1>1, <2>1, FreshStays DEF objVars
<1>3. pc \in {"create", "stop"} => snap[cur].claimed
  BY DEF Inv, StepInv
<1>4. snap[cur].power \in {"Running", "Stopped"}
  BY <1>1 DEF Inv, TypeOK, CtlTypes, Snaps, Powers
<1>5. CASE Destroy \/ DestroyFails
  <2>1. pc = "destroy" /\ pc' \notin {"create", "stop", "publish"}
    BY <1>5 DEF Destroy, DestroyFails, Goto, Done
  <2>2. PICK st : vm' = vm \/ (cur \notin Hardware /\ vm' = [vm EXCEPT ![Dir(cur)] = st])
    BY <1>5 DEF Destroy, DestroyFails
  <2>3. \A n \in Names : StatusInv(n)'
    BY <1>1, <2>1, <2>2, DoomedIsNotCurrent, DriverKeeps
  <2> QED
    BY <1>2, <2>1, <2>3, NoCall DEF KeepInv
<1>6. CASE Create
  <2>1. /\ pc = "create" /\ pc' = "pick" /\ cur \notin Hardware
        /\ vm' = [vm EXCEPT ![Dir(cur)] = "Running"]
        /\ vm[Dir(cur)] \notin {"Running", snap[cur].power}
    BY <1>6 DEF Create, Done, KeepInv, CallInv
  <2>2. Current(cur) => power[cur] = "Running"
    <3> SUFFICES ASSUME Current(cur) PROVE power[cur] = "Running"
      OBVIOUS
    <3>1. snap[cur].power = power[cur] /\ Dir(cur) = <<site[cur], cur, uid[cur]>>
      BY <1>1, <1>3, <2>1, CurrentItem
    <3>2. vm[Dir(cur)] \in {"Stopped", power[cur]}
      BY <1>1, <2>1, <3>1 DEF KeepInv, StatusInv
    <3> QED
      BY <1>4, <2>1, <3>1, <3>2
  <2>3. \A n \in Names : StatusInv(n)'
    BY <1>1, <2>1, <2>2, DriverKeeps
  <2> QED
    BY <1>2, <2>1, <2>3, NoCall DEF KeepInv
<1>7. CASE Stop
  <2>1. pc' = "pick" /\ (vm' = vm \/ (cur \notin Hardware /\ vm' = [vm EXCEPT ![Dir(cur)] = "Stopped"]))
    BY <1>7 DEF Stop, Done
  <2>2. \A n \in Names : StatusInv(n)'
    BY <1>1, <2>1, DriverKeeps
  <2> QED
    BY <1>2, <2>1, <2>2, NoCall DEF KeepInv
<1>8. CASE CreateFails
  <2>1. /\ pc = "create" /\ pc' = "publish" /\ verdict' = "CreateFailed" /\ cur \notin Hardware
        /\ \/ vm' = vm
           \/ vm' = [vm EXCEPT ![Dir(cur)] = "Stopped"]
           \/ vm' = [vm EXCEPT ![Dir(cur)] = "Running"]
        /\ vm[Dir(cur)] \notin {"Running", snap[cur].power}
        /\ cur' = cur /\ snap' = snap
    BY <1>8 DEF CreateFails, KeepInv, CallInv
  <2>2. Current(cur) => snap[cur].power = "Running" /\ power[cur] = "Running"
    <3> SUFFICES ASSUME Current(cur) PROVE snap[cur].power = "Running" /\ power[cur] = "Running"
      OBVIOUS
    <3>1. snap[cur].power = power[cur] /\ Dir(cur) = <<site[cur], cur, uid[cur]>>
      BY <1>1, <1>3, <2>1, CurrentItem
    <3>2. vm[Dir(cur)] \in {"Stopped", power[cur]}
      BY <1>1, <2>1, <3>1 DEF KeepInv, StatusInv
    <3> QED
      BY <1>4, <2>1, <3>1, <3>2
  <2>3. \A n \in Names : StatusInv(n)'
    BY <1>1, <2>1, <2>2, DriverKeeps
  <2>4. Current(cur)' <=> Current(cur)
    BY <1>1, <2>1 DEF Current, objVars
  <2>5. CallInv'
    BY <2>1, <2>2, <2>4 DEF CallInv
  <2> QED
    BY <1>2, <2>3, <2>5 DEF KeepInv
<1> QED
  BY <1>5, <1>6, <1>7, <1>8

\* Observing, and a stop that fails.
LEMMA ObserveKeeps ==
  ASSUME Inv, KeepInv, Observe \/ StopFails
  PROVE  KeepInv'
<1>1. /\ UNCHANGED objVars /\ UNCHANGED vm /\ cur' = cur /\ snap' = snap /\ todo' = todo
      /\ pc \in {"observe", "stop"} /\ cur \in Names
  BY DEF Observe, StopFails, Inv, TypeOK, CtlTypes
<1>2. \A n \in Names : StatusInv(n)' /\ (Current(n)' <=> Current(n))
  BY <1>1 DEF KeepInv, StatusInv, Current, objVars
<1>3. \A n \in Names : FreshInv(n)'
  BY <1>1, FreshStays DEF objVars, Busy
<1>4. CASE Observe
  <2>1. /\ snap[cur].claimed /\ pc = "observe" /\ verdict' = "converged"
        /\ pc' = Plan(seen', snap[cur].power)
        /\ seen' = IF cur \in Hardware THEN "Running" ELSE vm[Dir(cur)]
    BY <1>4 DEF Observe, Inv, StepInv
  <2>2. snap[cur].power \in Powers /\ seen' \in States
    BY <1>1, <2>1, DirTypes DEF Inv, TypeOK, CtlTypes, Snaps, States
  <2>3. pc' = "create" => seen' \notin {"Running", snap[cur].power}
    BY <2>1, <2>2 DEF Plan, Powers, States
  <2>4. pc' = "stop" => snap[cur].power = "Stopped" /\ seen' = "Running"
    BY <2>1, <2>2 DEF Plan, Powers, States
  <2>5. pc' = "publish" => seen' = snap[cur].power
    BY <2>1, <2>2 DEF Plan, Powers, States
  <2>6. ASSUME pc' = "stop", cur \notin Hardware, Current(cur) PROVE FALSE
    <3>1. snap[cur].power = power[cur] /\ Dir(cur) = <<site[cur], cur, uid[cur]>>
      BY <1>1, <2>1, <2>6, CurrentItem
    <3>2. vm[Dir(cur)] \in {"Stopped", power[cur]}
      BY <1>1, <2>6, <3>1 DEF KeepInv, StatusInv
    <3> QED
      BY <2>1, <2>4, <2>6, <3>1, <3>2
  <2>7. CallInv'
    BY <1>1, <1>2, <2>1, <2>3, <2>4, <2>5, <2>6 DEF CallInv, Dir
  <2> QED
    BY <1>2, <1>3, <2>7 DEF KeepInv
<1>5. CASE StopFails
  <2>1. pc = "stop" /\ cur \notin Hardware /\ pc' = "publish" /\ verdict' = "StopFailed"
    BY <1>5 DEF StopFails
  <2>2. ~Current(cur)
    BY <2>1 DEF KeepInv, CallInv
  <2>3. CallInv'
    BY <1>1, <1>2, <2>1, <2>2 DEF CallInv
  <2> QED
    BY <1>2, <1>3, <2>3 DEF KeepInv
<1> QED
  BY <1>4, <1>5

\* What Publish writes.
LEMMA Published ==
  ASSUME Inv, Publish
  PROVE  /\ cur \in Names /\ Done /\ pc = "publish" /\ snap[cur].claimed
         /\ UNCHANGED <<vm, uid, site, power, gen, deleting, fins>>
         /\ Finalizer \in fins[cur]
         /\ \A n \in Names \ {cur} : status'[n] = status[n]
         /\ status'[cur] = StatusOf(cur)
<1>1. cur \in Names /\ Done /\ UNCHANGED <<vm, uid, site, power, gen, deleting, fins>>
      /\ pc = "publish" /\ snap[cur].claimed
  BY DEF Inv, StepInv, TypeOK, CtlTypes, Publish
<1>2. uid[cur] = snap[cur].uid /\ snap[cur].uid # 0 /\ Finalizer \in fins[cur]
  BY <1>1 DEF Inv, SnapInv, Busy
<1> QED
  BY <1>1, <1>2 DEF Publish, Inv, TypeOK

\* The patches.
LEMMA PatchesKeep ==
  ASSUME Inv, KeepInv, Release \/ Claim \/ Publish
  PROVE  KeepInv'
<1>1. cur \in Names /\ Done /\ UNCHANGED vm /\ pc \notin {"list", "pick"} /\ pc' = "pick"
  BY DEF Inv, TypeOK, CtlTypes, Release, Claim, Publish, Done
<1>2. \A n \in Names : Busy(n)' => n # cur /\ Busy(n) /\ snap'[n] = snap[n]
  BY <1>1, ItemDone
<1>3. \A n \in Names \ {cur} :
        /\ uid'[n] = uid[n] /\ site'[n] = site[n] /\ power'[n] = power[n] /\ gen'[n] = gen[n]
        /\ deleting'[n] = deleting[n] /\ fins'[n] = fins[n] /\ status'[n] = status[n]
  BY Published DEF Release, Claim, Remove, Inv, TypeOK, ObjTypes
<1>4. \A n \in Names : FreshInv(n)'
  BY <1>2, <1>3, FreshStays
<1>5. \A n \in Names \ {cur} : StatusInv(n)'
  BY <1>1, <1>3 DEF KeepInv, StatusInv, Current
<1>6. StatusInv(cur)'
  <2>0. cur' = cur
    BY <1>1 DEF Done
  <2>1. CASE Release
    <3>1. \/ status'[cur] = NoStatus
          \/ /\ ~deleting[cur] /\ ~deleting'[cur] /\ status'[cur] = status[cur]
      BY <1>1, <2>1 DEF Release, Remove, Inv, TypeOK, ObjTypes
    <3>2. ~deleting[cur] => status[cur] = NoStatus
      <4>1. snap[cur].deleting /\ Busy(cur)
        BY <1>1, <2>1 DEF Release, Inv, StepInv, Busy
      <4> QED
        BY <1>1, <4>1 DEF Inv, SnapInv, KeepInv, StatusInv
    <3>3. status'[cur] = NoStatus
      BY <3>1, <3>2
    <3>4. ~NoStatus.synced
      BY DEF NoStatus
    <3>5. ~Current(cur)'
      BY <2>0, <3>3, <3>4 DEF Current
    <3> QED
      BY <2>0, <3>3, <3>5 DEF StatusInv
  <2>2. CASE Claim
    <3>1. UNCHANGED <<uid, site, power, gen, deleting, status>>
          /\ (Finalizer \in fins[cur] => Finalizer \in fins'[cur])
      BY <1>1, <2>2 DEF Claim, Inv, TypeOK, ObjTypes
    <3> QED
      BY <1>1, <2>0, <3>1 DEF KeepInv, StatusInv, Current
  <2>3. CASE Publish
    <3>1. /\ UNCHANGED <<uid, site, power, gen, deleting, fins>> /\ Finalizer \in fins[cur]
          /\ pc = "publish" /\ snap[cur].claimed /\ status'[cur] = StatusOf(cur)
      BY <2>3, Published
    <3>2. /\ StatusOf(cur).gen = snap[cur].gen /\ (StatusOf(cur).synced <=> verdict = "converged")
      BY Zenon DEF StatusOf
    <3>3. ASSUME Current(cur)', cur \notin Hardware
          PROVE  vm[<<site[cur], cur, uid[cur]>>] \in {"Stopped", power[cur]}
      <4>1. verdict = "converged" /\ snap[cur].gen = gen[cur]
        BY <2>0, <3>1, <3>2, <3>3 DEF Current
      <4>2. vm[Dir(cur)] \in {"Stopped", snap[cur].power}
        BY <3>1, <3>3, <4>1 DEF KeepInv, CallInv
      <4>3. /\ uid[cur] = snap[cur].uid /\ snap[cur].power = power[cur]
            /\ snap[cur].site = site[cur]
        BY <1>1, <3>1, <4>1 DEF Inv, SnapInv, Busy, KeepInv, FreshInv
      <4> QED
        BY <4>2, <4>3 DEF Dir
    <3> QED
      BY <1>1, <2>0, <3>1, <3>3 DEF StatusInv
  <2> QED
    BY <2>1, <2>2, <2>3
<1>7. \A n \in Names : n = cur => StatusInv(n)'
  BY <1>1, <1>6 DEF Done, StatusInv, Current
<1>8. \A n \in Names : StatusInv(n)'
  BY <1>5, <1>7
<1> QED
  BY <1>1, <1>4, <1>8, NoCall DEF KeepInv

LEMMA KeepInit == Init => KeepInv
BY DEF Init, KeepInv, StatusInv, FreshInv, CallInv, Current, Busy, NoStatus

LEMMA KeepStep ==
  ASSUME Inv, KeepInv, [Next]_vars
  PROVE  KeepInv'
<1>1. CASE List \/ Pick \/ EndTick \/ Restart \/ CallFails
  BY <1>1, LoopKeeps
<1>2. CASE Destroy \/ DestroyFails \/ Create \/ Stop \/ CreateFails
  BY <1>2, CallsKeep
<1>3. CASE Observe \/ StopFails
  BY <1>3, ObserveKeeps
<1>4. CASE Release \/ Claim \/ Publish
  BY <1>4, PatchesKeep
<1>5. CASE Outside
  BY <1>5, UsersKeep, ExitKeeps DEF Outside, Powers
<1>6. CASE UNCHANGED vars
  BY <1>6, OutsideKeeps DEF vars, objVars
<1> QED
  BY <1>1, <1>2, <1>3, <1>4, <1>5, <1>6 DEF Next, Controller

\* Converged is about an object, its status and its machine.
LEMMA ConvergedFrame ==
  ASSUME NEW n \in Names, Converged(n), uid'[n] = uid[n], site'[n] = site[n],
         power'[n] = power[n], gen'[n] = gen[n], status'[n] = status[n],
         n \notin Hardware => vm'[<<site[n], n, uid[n]>>] = vm[<<site[n], n, uid[n]>>]
  PROVE  Converged(n)'
BY DEF Converged, Served

\* A step of the controller leaves a converged machine and its status as they
\* are, or writes them once more, unless a create of it is to be reported failed.
LEMMA ConvergedStays ==
  ASSUME Inv, KeepInv, Controller \/ Restart,
         NEW n \in Names, uid[n] # 0, ~deleting[n], Converged(n), ~CreateFailed(n)
  PROVE  Converged(n)'
<1>1. Current(n) /\ <<site[n], n, uid[n]>> \in Dirs
  BY CurrentObject DEF Converged, Current
<1>2. CASE UNCHANGED <<uid, site, power, gen, status, vm>>
  BY <1>2, ConvergedFrame
<1>3. CASE Release
  <2>1. n # cur
    BY <1>1, <1>3, DoomedIsNotCurrent DEF Release
  <2>2. /\ uid'[n] = uid[n] /\ site'[n] = site[n] /\ power'[n] = power[n]
        /\ gen'[n] = gen[n] /\ status'[n] = status[n] /\ vm' = vm
    BY <1>3, <2>1 DEF Release, Remove, Inv, TypeOK, ObjTypes
  <2> QED
    BY <2>2, ConvergedFrame
<1>4. ASSUME NEW st, UNCHANGED objVars, cur \notin Hardware, vm' = [vm EXCEPT ![Dir(cur)] = st],
             n = cur /\ Dir(cur) = <<site[n], n, uid[n]>> => vm[Dir(cur)] = st
      PROVE  Converged(n)'
  <2>1. vm'[<<site[n], n, uid[n]>>] = vm[<<site[n], n, uid[n]>>]
    <3>1. CASE <<site[n], n, uid[n]>> = Dir(cur)
      BY <1>1, <1>4, <3>1 DEF Dir, Inv, TypeOK
    <3>2. CASE <<site[n], n, uid[n]>> # Dir(cur)
      BY <1>1, <1>4, <3>2 DEF Inv, TypeOK
    <3> QED
      BY <3>1, <3>2
  <2> QED
    BY <1>4, <2>1, ConvergedFrame DEF objVars
<1>5. CASE Destroy \/ DestroyFails
  <2>1. n # cur
    BY <1>1, <1>5, DoomedIsNotCurrent DEF Destroy, DestroyFails
  <2>2. UNCHANGED objVars
        /\ (vm' = vm \/ (cur \notin Hardware /\ \E st : vm' = [vm EXCEPT ![Dir(cur)] = st]))
    BY <1>5 DEF Destroy, DestroyFails
  <2> QED
    BY <1>2, <1>4, <2>1, <2>2 DEF objVars
<1>6. ASSUME n = cur, pc \in {"create", "stop", "publish"}
      PROVE  /\ snap[cur].gen = gen[n] /\ snap[cur].power = power[n]
             /\ n \notin Hardware => Dir(cur) = <<site[n], n, uid[n]>> /\ vm[Dir(cur)] = snap[cur].power
  <2>1. snap[cur].claimed
    BY <1>6 DEF Inv, StepInv
  <2> QED
    BY <1>1, <1>6, <2>1, CurrentItem DEF Converged, Served
<1>7. CASE Create \/ CreateFails
  <2>1. /\ UNCHANGED objVars /\ pc = "create" /\ cur \notin Hardware
        /\ vm[Dir(cur)] # snap[cur].power
        /\ vm' = vm \/ \E st : vm' = [vm EXCEPT ![Dir(cur)] = st]
    BY <1>7 DEF Create, CreateFails, KeepInv, CallInv
  <2>2. n # cur
    BY <1>6, <2>1
  <2> QED
    BY <1>2, <1>4, <2>1, <2>2 DEF objVars
<1>8. CASE Stop
  <2>1. UNCHANGED objVars /\ pc = "stop" /\ snap[cur].power = "Stopped"
        /\ (vm' = vm \/ (cur \notin Hardware /\ vm' = [vm EXCEPT ![Dir(cur)] = "Stopped"]))
    BY <1>8 DEF Stop, KeepInv, CallInv
  <2> QED
    BY <1>2, <1>4, <1>6, <2>1 DEF objVars
<1>9. CASE Publish
  <2>1. /\ pc = "publish" /\ UNCHANGED <<vm, uid, site, power, gen>>
        /\ \A k \in Names \ {cur} : status'[k] = status[k]
        /\ status'[cur] = StatusOf(cur)
    BY <1>9, Published
  <2>2. CASE n # cur
    BY <2>1, <2>2, ConvergedFrame
  <2>3. CASE n = cur
    <3>1. verdict = "converged"
      BY <1>1, <2>1, <2>3 DEF KeepInv, CallInv, Inv, TypeOK, CtlTypes, CreateFailed
    <3>2. seen = power[n]
      BY <1>6, <2>1, <2>3, <3>1 DEF Inv, StepInv
    <3>3. /\ StatusOf(cur).synced /\ StatusOf(cur).gen = gen[n]
          /\ StatusOf(cur).ready <=> power[n] = "Running"
      BY <1>6, <2>1, <2>3, <3>1, <3>2 DEF StatusOf
    <3> QED
      BY <2>1, <2>3, <3>3 DEF Converged, Served
  <2> QED
    BY <2>2, <2>3
<1>10. CASE List \/ Pick \/ EndTick \/ Claim \/ Observe \/ StopFails \/ CallFails \/ Restart
  BY <1>2, <1>10
     DEF List, Pick, EndTick, Claim, Observe, StopFails, CallFails, Restart, objVars
<1> QED
  BY <1>3, <1>5, <1>7, <1>8, <1>9, <1>10 DEF Controller

\* The report of a failed create is about the status only.
LEMMA ReportKeepsServed ==
  ASSUME Inv, Controller \/ Restart, NEW n \in Names, uid[n] # 0, Converged(n), CreateFailed(n)
  PROVE  Served(n)'
<1>1. pc = "publish"
  BY DEF CreateFailed
<1>2. UNCHANGED <<vm, uid, site, power>>
  BY <1>1 DEF Controller, Restart, List, Pick, EndTick, Destroy, DestroyFails, Release, Claim,
              Observe, Create, CreateFails, Stop, StopFails, Publish, CallFails, objVars
<1> QED
  BY <1>2 DEF Converged, Served

\* The loop never undoes what it has reached, whatever users, other controllers,
\* failing neighbours and dying machines do, spec.site edited or not: neither the
\* machine, nor, but for the report of a create that failed, the status.  It is
\* what is safety in Converges: of that, only that the loop does get there, and
\* that its turns come, is left to the model checker.
THEOREM ConvergedIsLeftAlone == Spec => ConvergedIsKept
<1>1. Spec => []KeepInv
  BY KeepInit, KeepStep, Invariance, PTL DEF Spec
<1>2. ASSUME Inv, KeepInv, Controller \/ Restart,
             NEW n \in Names, uid[n] # 0, ~deleting[n], Converged(n)
      PROVE  Served(n)' /\ (~CreateFailed(n) => Converged(n)')
  BY <1>2, ConvergedStays, ReportKeepsServed DEF Converged
<1>3. Inv /\ KeepInv /\ [Next]_vars =>
        [Controller \/ Restart =>
           \A n \in Names : uid[n] # 0 /\ ~deleting[n] /\ Converged(n) =>
             /\ Served(n)'
             /\ ~CreateFailed(n) => Converged(n)']_vars
  BY <1>2
<1> QED
  BY <1>1, <1>3, Invariance, PTL DEF Spec, ConvergedIsKept
=============================================================================
