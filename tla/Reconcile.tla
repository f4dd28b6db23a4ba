----------------------------- MODULE Reconcile -----------------------------
(****************************************************************************)
(* The controller loop of driverkit/driverkit.go: one serial process that    *)
(* lists the TalosMachines, reconciles each item of that snapshot, and       *)
(* sleeps.  Around it: users and other controllers, who change the objects   *)
(* between any two of its steps, VMs that die by themselves, and the API     *)
(* server (external), whose patches address an object by NAME.               *)
(*                                                                          *)
(* The driver is the contract of driverkit.Driver: Create, Stop and Destroy  *)
(* are single steps that do what they promise or fail part-way.  That the    *)
(* QEMU driver honours it is what module Machine is about.                   *)
(****************************************************************************)
EXTENDS Naturals

CONSTANTS
    Names,      \* names of TalosMachine objects
    Sites,      \* values of spec.site
    Hardware,   \* names whose objects carry spec.baremetal
    Broken,     \* names whose calls and patches may fail for ever
    Edits,      \* the spec fields that users edit
    Finalizer,  \* the finalizer of this controller
    Other,      \* the finalizer of some other controller
    Settled,    \* bound: names that are applied once and not edited
    MaxUID,     \* bound: incarnations of a name
    MaxGen,     \* bound: generations of an object
    MaxFaults   \* bound: failures that are not those of Broken

ASSUME ReconcileAssumption ==
    /\ Hardware \subseteq Names
    /\ Broken \subseteq Names
    /\ Settled \subseteq Names
    /\ Edits \subseteq {"power", "site"}
    /\ Finalizer # Other
    /\ MaxUID \in Nat /\ MaxGen \in Nat \ {0} /\ MaxFaults \in Nat

VARIABLES
    \* the API server's objects, by name
    uid,        \* 0 when there is no such object
    born,       \* incarnations so far
    site, power, gen,
    deleting,   \* metadata.deletionTimestamp is set
    fins,       \* metadata.finalizers
    status,     \* the status subresource, or NoStatus
    \* the host
    vm,         \* what each state directory holds
    \* the controller
    pc, cur, todo, snap,
    seen,       \* what Observe answered
    verdict,    \* what is to be published
    faults

objVars == <<uid, born, site, power, gen, deleting, fins, status>>
ctlVars == <<pc, cur, todo, snap, seen, verdict>>
vars == <<objVars, vm, ctlVars, faults>>

UIDs == 1..MaxUID
Dirs == Sites \X Names \X UIDs
States == {"Absent", "Stopped", "Running"}
Powers == {"Running", "Stopped"}

NoSite == "none"
NoStatus == [of |-> 0, gen |-> 0, power |-> "Absent", synced |-> FALSE, ready |-> FALSE]
NoSnap == [uid |-> 0, site |-> NoSite, power |-> "Running", gen |-> 0,
           deleting |-> FALSE, claimed |-> FALSE]

\* The API server removes an object: nothing of it is left but its UID's use.
Remove(n) ==
    /\ uid' = [uid EXCEPT ![n] = 0]
    /\ site' = [site EXCEPT ![n] = NoSite]
    /\ power' = [power EXCEPT ![n] = "Running"]
    /\ gen' = [gen EXCEPT ![n] = 0]
    /\ deleting' = [deleting EXCEPT ![n] = FALSE]
    /\ fins' = [fins EXCEPT ![n] = {}]
    /\ status' = [status EXCEPT ![n] = NoStatus]
    /\ UNCHANGED born

-----------------------------------------------------------------------------
(* The controller. *)

\* hvf.dir: state is keyed by site, then UID.  A UID is unique, here by being
\* a name and its incarnation.
Dir(n) == <<snap[n].site, n, snap[n].uid>>

Goto(l) ==
    /\ pc' = l
    /\ UNCHANGED <<cur, todo, snap, seen, verdict>>

\* reconcile returns: the snapshot of the item is not used again.
Done ==
    /\ pc' = "pick"
    /\ snap' = [snap EXCEPT ![cur] = NoSnap]
    /\ seen' = "Absent"
    /\ verdict' = "converged"
    /\ UNCHANGED <<cur, todo>>

\* A call or a patch fails: always possible for a broken machine, otherwise at
\* the expense of the budget.
Fault(n) ==
    \/ n \in Broken /\ UNCHANGED faults
    \/ n \notin Broken /\ faults > 0 /\ faults' = faults - 1

\* Run: one List, whose items are worked on one after the other.
List ==
    /\ pc = "list"
    /\ pc' = "pick"
    /\ snap' = [n \in Names |-> [uid |-> uid[n], site |-> site[n], power |-> power[n],
                                 gen |-> gen[n], deleting |-> deleting[n],
                                 claimed |-> Finalizer \in fins[n]]]
    /\ todo' = {n \in Names : uid[n] # 0}
    /\ UNCHANGED <<objVars, vm, cur, seen, verdict, faults>>

\* Faulty: an object that is being deleted is reconciled like any other.
RouteDeletionLast(n) == IF ~snap[n].claimed THEN "claim" ELSE "observe"

\* reconcile: deletion first, then the finalizer, then the machine.
Route(n) ==
    IF snap[n].deleting THEN "destroy"
    ELSE IF ~snap[n].claimed THEN "claim"
    ELSE "observe"

Pick ==
    /\ pc = "pick"
    /\ \E n \in todo : /\ cur' = n
                       /\ todo' = todo \ {n}
                       /\ pc' = Route(n)
    /\ UNCHANGED <<objVars, vm, snap, seen, verdict, faults>>

\* Every item has had its turn; the loop sleeps and lists again.
EndTick ==
    /\ pc = "pick"
    /\ todo = {}
    /\ Goto("list")
    /\ UNCHANGED <<objVars, vm, faults>>

Destroy ==
    /\ pc = "destroy"
    /\ vm' = IF cur \in Hardware THEN vm ELSE [vm EXCEPT ![Dir(cur)] = "Absent"]
    /\ Goto("release")
    /\ UNCHANGED <<objVars, faults>>

\* Faulty: the finalizer goes even though the teardown failed.
DestroyFailureIgnored ==
    /\ pc = "destroy"
    /\ cur \notin Hardware
    /\ Fault(cur)
    /\ Goto("release")
    /\ UNCHANGED <<objVars, vm>>

\* The teardown fails, having done any part of its work: deletion is blocked.
DestroyFails ==
    /\ pc = "destroy"
    /\ cur \notin Hardware
    /\ Fault(cur)
    /\ \E s \in States : /\ vm[Dir(cur)] = "Absent" => s = "Absent"
                         /\ vm[Dir(cur)] = "Stopped" => s # "Running"
                         /\ vm' = [vm EXCEPT ![Dir(cur)] = s]
    /\ Done
    /\ UNCHANGED objVars

\* The merge patch {"finalizers":[]}, by name: whatever object has the name
\* now loses all its finalizers, and goes away if it is being deleted.
Release ==
    /\ pc = "release"
    /\ \/ deleting[cur] /\ Remove(cur)
       \/ /\ ~deleting[cur]
          /\ fins' = [fins EXCEPT ![cur] = {}]
          /\ UNCHANGED <<uid, born, site, power, gen, deleting, status>>
    /\ Done
    /\ UNCHANGED <<vm, faults>>

\* The merge patch that claims an object.  The API server refuses new
\* finalizers on an object that is being deleted, and there may be none.
Claimable(n) == uid[n] # 0 /\ ~deleting[n]

Claim ==
    /\ pc = "claim"
    /\ fins' = IF Claimable(cur) THEN [fins EXCEPT ![cur] = {Finalizer}] ELSE fins
    /\ Done
    /\ UNCHANGED <<uid, born, site, power, gen, deleting, status, vm, faults>>

\* plan, the transition table.
Plan(observed, desired) ==
    IF desired = "Stopped" /\ observed = "Running" THEN "stop"
    ELSE IF desired = "Stopped" /\ observed = "Absent" THEN "create"
    ELSE IF desired = "Stopped" \/ observed = "Running" THEN "publish"
    ELSE "create"

\* Faulty: a machine that cannot be observed is taken for one that is not there.
ObserveErrorAsAbsent ==
    /\ pc = "observe"
    /\ \/ /\ seen' = IF cur \in Hardware THEN "Running" ELSE vm[Dir(cur)]
          /\ UNCHANGED faults
       \/ cur \notin Hardware /\ Fault(cur) /\ seen' = "Absent"
    /\ verdict' = "converged"
    /\ pc' = Plan(seen', snap[cur].power)
    /\ UNCHANGED <<objVars, vm, cur, todo, snap>>

\* A verdict other than convergence is Synced=False and Ready=False.
Observe ==
    /\ pc = "observe"
    /\ seen' = IF cur \in Hardware THEN "Running" ELSE vm[Dir(cur)]
    /\ verdict' = "converged"
    /\ pc' = Plan(seen', snap[cur].power)
    /\ UNCHANGED <<objVars, vm, cur, todo, snap, faults>>

\* The result of a create or a stop is left to the next tick to observe.
Create ==
    /\ pc = "create"
    /\ vm' = IF cur \in Hardware THEN vm ELSE [vm EXCEPT ![Dir(cur)] = "Running"]
    /\ Done
    /\ UNCHANGED <<objVars, faults>>

\* Create fails, having done any part of its work: nothing, the directory and
\* the disks, or all of it, when qemu runs and its pidfile cannot be read.
CreateFails ==
    /\ pc = "create"
    /\ cur \notin Hardware
    /\ Fault(cur)
    /\ vm' \in {vm, [vm EXCEPT ![Dir(cur)] = "Stopped"], [vm EXCEPT ![Dir(cur)] = "Running"]}
    /\ pc' = "publish"
    /\ verdict' = "CreateFailed"
    /\ UNCHANGED <<objVars, cur, todo, snap, seen>>

Stop ==
    /\ pc = "stop"
    /\ vm' = IF cur \in Hardware THEN vm ELSE [vm EXCEPT ![Dir(cur)] = "Stopped"]
    /\ Done
    /\ UNCHANGED <<objVars, faults>>

StopFails ==
    /\ pc = "stop"
    /\ cur \notin Hardware
    /\ Fault(cur)
    /\ pc' = "publish"
    /\ verdict' = "StopFailed"
    /\ UNCHANGED <<objVars, vm, cur, todo, snap, seen>>

\* Faulty: the status names the generation the object has by now.
StatusOfLatest(n) ==
    [of |-> snap[n].uid, gen |-> gen[n], power |-> seen,
     synced |-> verdict = "converged",
     ready |-> verdict = "converged" /\ seen = "Running"]

\* statusPatch, from the snapshot and from what Observe saw.  A pid, once
\* published, stays: the merge patch of a stopped machine does not name it.
StatusOf(n) ==
    [of |-> snap[n].uid, gen |-> snap[n].gen, power |-> seen,
     synced |-> verdict = "converged",
     ready |-> verdict = "converged" /\ seen = "Running"]

Publish ==
    /\ pc = "publish"
    /\ status' = IF uid[cur] # 0 THEN [status EXCEPT ![cur] = StatusOf(cur)] ELSE status
    /\ Done
    /\ UNCHANGED <<uid, born, site, power, gen, deleting, fins, vm, faults>>

\* Faulty: an error ends the loop's pass over the items.
CallFailsAll ==
    /\ pc \in {"release", "claim", "observe", "publish"}
    /\ Fault(cur)
    /\ pc' = "list"
    /\ todo' = {}
    /\ UNCHANGED <<objVars, vm, cur, snap, seen, verdict>>

\* A patch or an Observe that returns an error ends the item.
CallFails ==
    /\ pc \in {"release", "claim", "observe", "publish"}
    /\ Fault(cur)
    /\ Done
    /\ UNCHANGED <<objVars, vm>>

Controller ==
    \/ List \/ Pick \/ EndTick
    \/ Destroy \/ DestroyFails \/ Release \/ Claim
    \/ Observe \/ Create \/ CreateFails \/ Stop \/ StopFails
    \/ Publish \/ CallFails

\* The controller is killed, anywhere, and started again.
Restart ==
    /\ pc # "list"
    /\ faults > 0
    /\ faults' = faults - 1
    /\ pc' = "list"
    /\ todo' = {}
    /\ snap' = [n \in Names |-> NoSnap]
    /\ seen' = "Absent"
    /\ verdict' = "converged"
    /\ UNCHANGED <<objVars, vm, cur>>

-----------------------------------------------------------------------------
(* Users, other controllers and the host. *)

\* kubectl apply of a new object: a new UID, generation 1, no status.
UserApplies(n, s, w) ==
    /\ uid[n] = 0
    /\ born[n] < MaxUID /\ (n \in Settled => born[n] = 0)
    /\ born' = [born EXCEPT ![n] = @ + 1]
    /\ uid' = [uid EXCEPT ![n] = born[n] + 1]
    /\ site' = [site EXCEPT ![n] = s]
    /\ power' = [power EXCEPT ![n] = w]
    /\ gen' = [gen EXCEPT ![n] = 1]
    /\ deleting' = [deleting EXCEPT ![n] = FALSE]
    /\ fins' = [fins EXCEPT ![n] = {}]
    /\ status' = [status EXCEPT ![n] = NoStatus]
    /\ UNCHANGED <<vm, ctlVars, faults>>

UserEdits(n, s, w) ==
    /\ uid[n] # 0
    /\ gen[n] < MaxGen /\ n \notin Settled
    /\ <<s, w>> # <<site[n], power[n]>>
    /\ s # site[n] => "site" \in Edits
    /\ w # power[n] => "power" \in Edits
    /\ site' = [site EXCEPT ![n] = s]
    /\ power' = [power EXCEPT ![n] = w]
    /\ gen' = [gen EXCEPT ![n] = @ + 1]
    /\ UNCHANGED <<uid, born, deleting, fins, status, vm, ctlVars, faults>>

UserDeletes(n) ==
    /\ uid[n] # 0
    /\ ~deleting[n]
    /\ \/ fins[n] = {} /\ Remove(n)
       \/ /\ fins[n] # {}
          /\ deleting' = [deleting EXCEPT ![n] = TRUE]
          /\ UNCHANGED <<uid, born, site, power, gen, fins, status>>
    /\ UNCHANGED <<vm, ctlVars, faults>>

\* Some other controller adds its finalizer to the list ...
OtherClaims(n) ==
    /\ uid[n] # 0
    /\ ~deleting[n]
    /\ fins' = [fins EXCEPT ![n] = @ \cup {Other}]
    /\ UNCHANGED <<uid, born, site, power, gen, deleting, status, vm, ctlVars, faults>>

\* ... and takes it away once the object is being deleted.
OtherReleases(n) ==
    /\ deleting[n]
    /\ Other \in fins[n]
    /\ \/ fins[n] = {Other} /\ Remove(n)
       \/ /\ fins[n] # {Other}
          /\ fins' = [fins EXCEPT ![n] = @ \ {Other}]
          /\ UNCHANGED <<uid, born, site, power, gen, deleting, status>>
    /\ UNCHANGED <<vm, ctlVars, faults>>

\* A VM dies or powers itself off.
VMExits(d) ==
    /\ vm[d] = "Running"
    /\ Fault(d[2])
    /\ vm' = [vm EXCEPT ![d] = "Stopped"]
    /\ UNCHANGED <<objVars, ctlVars>>

Outside ==
    \/ \E n \in Names : \/ \E s \in Sites, w \in {"Running", "Stopped"} :
                             UserApplies(n, s, w) \/ UserEdits(n, s, w)
                        \/ UserDeletes(n) \/ OtherClaims(n) \/ OtherReleases(n)
    \/ \E d \in Dirs : VMExits(d)

-----------------------------------------------------------------------------
Init ==
    /\ uid = [n \in Names |-> 0]
    /\ born = [n \in Names |-> 0]
    /\ site = [n \in Names |-> NoSite]
    /\ power = [n \in Names |-> "Running"]
    /\ gen = [n \in Names |-> 0]
    /\ deleting = [n \in Names |-> FALSE]
    /\ fins = [n \in Names |-> {}]
    /\ status = [n \in Names |-> NoStatus]
    /\ vm = [d \in Dirs |-> "Absent"]
    /\ pc = "list" /\ cur \in Names /\ todo = {}
    /\ snap = [n \in Names |-> NoSnap]
    /\ seen = "Absent" /\ verdict = "converged"
    /\ faults = MaxFaults

Next == Controller \/ Restart \/ Outside

Spec == Init /\ [][Next]_vars
FairSpec == Spec /\ WF_vars(Controller)

-----------------------------------------------------------------------------
(* Correctness. *)

ObjTypes ==
    /\ uid \in [Names -> 0..MaxUID]
    /\ born \in [Names -> 0..MaxUID]
    /\ site \in [Names -> Sites \cup {NoSite}]
    /\ power \in [Names -> Powers]
    /\ gen \in [Names -> 0..MaxGen]
    /\ deleting \in [Names -> BOOLEAN]
    /\ fins \in [Names -> SUBSET {Finalizer, Other}]

Statuses == [of : 0..MaxUID, gen : 0..MaxGen, power : States, synced : BOOLEAN, ready : BOOLEAN]
Snaps == [uid : 0..MaxUID, site : Sites \cup {NoSite}, power : Powers, gen : 0..MaxGen,
          deleting : BOOLEAN, claimed : BOOLEAN]

CtlTypes ==
    /\ pc \in {"list", "pick", "destroy", "release", "claim", "observe", "create", "stop",
               "publish"}
    /\ cur \in Names
    /\ todo \subseteq Names
    /\ snap \in [Names -> Snaps]
    /\ seen \in States
    /\ verdict \in {"converged", "CreateFailed", "StopFailed"}

TypeOK ==
    /\ ObjTypes
    /\ status \in [Names -> Statuses]
    /\ vm \in [Dirs -> States]
    /\ CtlTypes
    /\ faults \in 0..MaxFaults

\* The CRD's promise on deletion ("nothing is orphaned"): whatever a state
\* directory holds belongs to an object that exists under that UID and site and
\* that this controller's finalizer still protects.
NoOrphans ==
    \A s \in Sites, n \in Names, u \in UIDs :
      vm[<<s, n, u>>] # "Absent" =>
        uid[n] = u /\ site[n] = s /\ Finalizer \in fins[n]

\* Patches go by name and may be late, yet no object is ever given a status
\* that was computed for an earlier object of its name.
StatusIsOwn ==
    \A n \in Names : status[n] # NoStatus => status[n].of = uid[n]

\* A status whose observedGeneration is the object's own generation and that
\* says Synced reports what the spec of today asks for, though users edit the
\* spec while the controller works from its snapshot.
SyncedIsCurrent ==
    \A n \in Names : status[n].synced /\ status[n].gen = gen[n] => status[n].power = power[n]

\* What a status says is true of the object that carries it, and of its spec.
TrueStatuses == StatusIsOwn /\ SyncedIsCurrent

\* Deleting an object destroys its machine, and the object goes away.
DeletionCompletes ==
    \A n \in Names \ Broken : deleting[n] ~> uid[n] = 0

\* The machine is what the spec asks for.
Served(n) == n \notin Hardware => vm[<<site[n], n, uid[n]>>] = power[n]

Converged(n) ==
    /\ status[n].synced /\ status[n].gen = gen[n]
    /\ status[n].ready <=> power[n] = "Running"
    /\ Served(n)

\* Once users and faults leave an object alone, its machine and its status come
\* to be what its spec asks for, and stay so, however its neighbours fail.  (A
\* stop is never served for hardware, and publishes nothing.)
Converges ==
    \A n \in Names \ Broken :
      <>[](uid[n] # 0 /\ (n \in Hardware => power[n] = "Running") => Converged(n))

\* A create of n has failed, and its failure is about to be published.  The
\* machine may run all the same: launchQemu succeeded and the read of its
\* pidfile did not.
CreateFailed(n) == n = cur /\ pc = "publish" /\ verdict = "CreateFailed"

\* The loop never undoes what it has reached: no step of the controller, from
\* however old a snapshot, takes a machine away from what the spec asks for,
\* unless the object is being deleted, and none takes its status away but the
\* report of a create that did fail.
ConvergedIsKept ==
    [][Controller \/ Restart =>
         \A n \in Names : uid[n] # 0 /\ ~deleting[n] /\ Converged(n) =>
           /\ Served(n)'
           /\ ~CreateFailed(n) => Converged(n)']_vars

-----------------------------------------------------------------------------
(* The inductive invariant behind the safety properties above. *)

\* Objects: one that does not exist has nothing, and no status is ahead of the
\* object it describes.
ObjInv(n) ==
    /\ uid[n] = 0 => fins[n] = {} /\ ~deleting[n] /\ status[n] = NoStatus
    /\ uid[n] # 0 => site[n] \in Sites /\ gen[n] # 0
    /\ status[n].gen <= gen[n]

\* The controller still has use for its snapshot of n.
Busy(n) == n \in todo \/ (n = cur /\ pc \notin {"list", "pick"})

\* Snapshots: only this controller adds or takes its finalizer, so a snapshot in
\* use tells the truth about it, and one that has it is of the object that is
\* there, at an earlier or at its present generation.
SnapInv(n) ==
    Busy(n) =>
      /\ snap[n].uid # 0 /\ snap[n].site \in Sites
      /\ snap[n].claimed <=> Finalizer \in fins[n]
      /\ snap[n].claimed =>
           /\ uid[n] = snap[n].uid
           /\ snap[n].deleting => deleting[n]
           /\ snap[n].gen <= gen[n]
           /\ snap[n].gen = gen[n] => snap[n].power = power[n]
           /\ "site" \notin Edits => snap[n].site = site[n]

\* Steps: what the controller has established on its way.
StepInv ==
    /\ pc \notin {"list", "pick"} => cur \notin todo
    /\ pc = "claim" => ~snap[cur].claimed
    /\ pc \in {"destroy", "release"} => snap[cur].deleting
    /\ pc = "release" => vm[Dir(cur)] = "Absent"
    /\ pc \in {"observe", "create", "stop", "publish"} => snap[cur].claimed
    /\ pc = "publish" /\ verdict = "converged" => seen = snap[cur].power

HardwareInv ==
    \A s \in Sites, n \in Hardware, u \in UIDs : vm[<<s, n, u>>] = "Absent"

Inv ==
    /\ TypeOK
    /\ \A n \in Names : ObjInv(n)
    /\ \A n \in Names : SnapInv(n)
    /\ StepInv
    /\ HardwareInv
    /\ "site" \notin Edits => NoOrphans
    /\ StatusIsOwn
    /\ SyncedIsCurrent

\* Behind ConvergedIsKept.  A status that claims to be of the spec of today ...
Current(n) == ~deleting[n] /\ status[n].synced /\ status[n].gen = gen[n]

\* ... is of an object that is claimed, and whose machine exists and, if it is
\* to be stopped, is stopped.
StatusInv(n) ==
    /\ status[n] # NoStatus => Finalizer \in fins[n]
    /\ Current(n) /\ n \notin Hardware => vm[<<site[n], n, uid[n]>>] \in {"Stopped", power[n]}

\* A snapshot in use is no older than the status.
FreshInv(n) ==
    Busy(n) /\ snap[n].claimed =>
      /\ status[n].gen <= snap[n].gen
      /\ snap[n].gen = gen[n] => snap[n].site = site[n]

\* The driver is only called, and a failure only published, for a machine that
\* is not what the snapshot asks for.
CallInv ==
    /\ pc = "create" => cur \notin Hardware /\ vm[Dir(cur)] \notin {"Running", snap[cur].power}
    /\ pc = "stop" => snap[cur].power = "Stopped" /\ (cur \notin Hardware => ~Current(cur))
    /\ pc = "publish" /\ verdict = "converged" /\ cur \notin Hardware =>
         vm[Dir(cur)] \in {"Stopped", snap[cur].power}
    /\ pc = "publish" /\ verdict = "StopFailed" => ~Current(cur)
    /\ pc = "publish" /\ verdict = "CreateFailed" =>
         /\ cur \notin Hardware
         /\ snap[cur].power = "Stopped" => ~Current(cur)

KeepInv == (\A n \in Names : StatusInv(n) /\ FreshInv(n)) /\ CallInv
=============================================================================
