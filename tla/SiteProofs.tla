----------------------------- MODULE SiteProofs -----------------------------
(***************************************************************************)
(* Proofs about Site, for any VMs with distinct names, any machine files,  *)
(* edits and interruptions: the records of a site never collide, and are   *)
(* what the running VMs were started from; and a joiner that up starts     *)
(* fits in the host's memory.                                              *)
(***************************************************************************)
EXTENDS Site, FiniteSetTheorems, WellFoundedInduction, TLAPS

\* Zenon is tried first, then SMT.
USE ZenonT(20), SMTT(20)

\* What checkForwardCollisions compares decides whether two files share a
\* socket: one bound on 0.0.0.0 takes its port on every address.
LEMMA NoCollisionNoSocket ==
  ASSUME NEW f, NEW g, ~ForwardCollision(f, g)
  PROVE  Sockets(f) \cap Sockets(g) = {}
<1> DEFINE BoundOn(b) == IF b.addr = "0.0.0.0" THEN HostAddresses ELSE {b.addr}
           Held(b) == [proto : {b.proto}, port : {b.port}, addr : BoundOn(b)]
<1>1. \A h : Sockets(h) = UNION {Held(b) : b \in Binds(h)}
  BY DEF Sockets
<1>2. ASSUME NEW a \in Binds(f), NEW b \in Binds(g), NEW s \in Held(a), s \in Held(b)
      PROVE  Clash(a, b)
  <2>1. s.proto = a.proto /\ s.port = a.port /\ s.addr \in BoundOn(a)
    BY <1>2
  <2>2. s.proto = b.proto /\ s.port = b.port /\ s.addr \in BoundOn(b)
    BY <1>2
  <2>3. a.addr = b.addr \/ "0.0.0.0" \in {a.addr, b.addr}
    BY <2>1, <2>2
  <2> QED
    BY <2>1, <2>2, <2>3 DEF Clash
<1> HIDE DEF Held, BoundOn
<1>3. SUFFICES ASSUME NEW s \in Sockets(f), s \in Sockets(g)
               PROVE  FALSE
  OBVIOUS
<1>4. PICK a \in Binds(f) : s \in Held(a)
  BY <1>1
<1>5. PICK b \in Binds(g) : s \in Held(b)
  BY <1>1, <1>3
<1> QED
  BY <1>2, <1>4, <1>5 DEF ForwardCollision

LEMMA NetworkSymmetric ==
  ASSUME NEW f, NEW g, NetworkCollision(f, g)
  PROVE  NetworkCollision(g, f)
BY DEF NetworkCollision

LEMMA InitInv == Init => Inv
<1> SUFFICES ASSUME Init
             PROVE  Inv
  OBVIOUS
<1>1. TypeOK
  BY DEF Init, TypeOK, OrNone
<1> QED
  BY <1>1 DEF Init, Inv, RunningHasDisk, CreateInv, Idle, RecordsValid, RecordsAgree,
     RecordIsRunning, Running

-----------------------------------------------------------------------------
(* Types. *)

LEMMA GotoTypes ==
  ASSUME TypeOK, ~Idle, NEW l \in Steps, Goto(l)
  PROVE  /\ run' \in OrNone([machine : Machines, file : Files, verb : Verbs, step : Steps])
         /\ run'.machine = run.machine /\ run'.file = run.file /\ run'.step = l
BY SMT DEF TypeOK, Idle, Goto, OrNone

LEMMA TypesKept ==
  ASSUME TypeOK, RunningHasDisk, [Next]_vars
  PROVE  TypeOK'
<1> USE DEF TypeOK, OrNone
<1>1. ASSUME NEW m \in Machines, NEW f \in Files, Edit(m, f)
      PROVE  TypeOK'
  BY <1>1 DEF Edit
<1>2. ASSUME NEW m \in Machines, UpBegin(m)
      PROVE  TypeOK'
  <2>1. run' \in [machine : Machines, file : Files, verb : Verbs, step : Steps]
    BY SMT, <1>2 DEF UpBegin, Verbs, Steps
  <2> QED
    BY <1>2, <2>1 DEF UpBegin
<1>3. ASSUME NEW m \in Machines, ApplyBegin(m)
      PROVE  TypeOK'
  <2>1. run' \in [machine : Machines, file : Files, verb : Verbs, step : Steps]
    BY SMT, <1>3 DEF ApplyBegin, Verbs, Steps
  <2> QED
    BY <1>3, <2>1 DEF ApplyBegin
<1>4. CASE CreateRecord
  <2>1. run.machine \in Machines /\ run.file \in Files
    BY SMT, <1>4 DEF CreateRecord, Idle
  <2> QED
    BY <1>4, <2>1, GotoTypes DEF CreateRecord, Steps
<1>5. CASE CreateRefused \/ Die
  BY <1>5 DEF CreateRefused, Die, End
<1>6. CASE Start
  <2>1. run.machine \in Machines /\ run.file \in Files
    BY SMT, <1>6 DEF Start, Idle
  <2>2. run' \in OrNone([machine : Machines, file : Files, verb : Verbs, step : Steps])
    BY <1>6, GotoTypes DEF Start, End, Steps
  <2> QED
    BY <1>6, <2>1, <2>2 DEF Start
<1>7. CASE StartFails
  <2>1. run.machine \in Machines
    BY SMT, <1>7 DEF StartFails, Idle
  <2> QED
    BY <1>7, <2>1 DEF StartFails, End
<1>8. CASE Configure
  <2>1. run.machine \in Machines
    BY SMT, <1>8 DEF Configure, Idle
  <2> QED
    BY <1>8, <2>1 DEF Configure, End, RunningHasDisk
<1>9. ASSUME NEW m \in Machines, Stop(m)
      PROVE  TypeOK'
  BY <1>9 DEF Stop
<1>10. ASSUME NEW m \in Machines, Destroy(m)
       PROVE  TypeOK'
  BY <1>10 DEF Destroy
<1>11. CASE UNCHANGED vars
  BY <1>11 DEF vars
<1> QED
  BY <1>1, <1>2, <1>3, <1>4, <1>5, <1>6, <1>7, <1>8, <1>9, <1>10, <1>11 DEF Next

-----------------------------------------------------------------------------
(* The steps. *)

LEMMA DisksKept ==
  ASSUME TypeOK, RunningHasDisk, [Next]_vars
  PROVE  RunningHasDisk'
<1> USE DEF RunningHasDisk, Running
<1>1. CASE Start
  <2>1. run.machine \in Machines
    BY SMT, <1>1 DEF Start, Idle, TypeOK, OrNone
  <2> QED
    BY <1>1, <2>1 DEF Start, TypeOK
<1>2. CASE StartFails
  <2>1. run.machine \in Machines
    BY SMT, <1>2 DEF StartFails, Idle, TypeOK, OrNone
  <2> QED
    BY <1>2, <2>1 DEF StartFails, TypeOK
<1>3. ASSUME NEW m \in Machines, Stop(m) \/ Destroy(m)
      PROVE  RunningHasDisk'
  BY <1>3 DEF Stop, Destroy, TypeOK
<1>4. ASSUME UNCHANGED <<disk, qemu>>
      PROVE  RunningHasDisk'
  BY <1>4
<1> QED
  BY <1>1, <1>2, <1>3, <1>4 DEF Next, vars, Edit, UpBegin, ApplyBegin, CreateRecord,
     CreateRefused, Configure, Die

LEMMA CreateKept ==
  ASSUME RunInv, [Next]_vars
  PROVE  CreateInv'
<1> USE DEF RunInv, CreateInv, Running
<1>1. ASSUME NEW m \in Machines, NEW f \in Files, Edit(m, f)
      PROVE  CreateInv'
  BY <1>1 DEF Edit, Idle
<1>2. ASSUME NEW m \in Machines, UpBegin(m)
      PROVE  CreateInv'
  BY SMT, <1>2 DEF UpBegin
<1>3. ASSUME NEW m \in Machines, ApplyBegin(m)
      PROVE  CreateInv'
  BY SMT, <1>3 DEF ApplyBegin
<1>4. CASE CreateRecord
  <2>1. run.machine \in Machines /\ run.file \in Files
    BY SMT, <1>4 DEF CreateRecord, Idle, TypeOK, OrNone
  <2>2. run'.machine = run.machine /\ run'.file = run.file /\ run'.step = "start"
    BY <1>4, GotoTypes DEF CreateRecord, Steps
  <2> QED
    BY <1>4, <2>1, <2>2 DEF CreateRecord, TypeOK
<1>5. CASE Start
  <2>1. CASE End
    BY <2>1 DEF End, Idle
  <2>2. CASE Goto("configure")
    <3>1. run'.step = "configure"
      BY <1>5, <2>2, GotoTypes DEF Start, Steps
    <3> QED
      BY <3>1
  <2> QED
    BY <1>5, <2>1, <2>2 DEF Start
<1>6. CASE CreateRefused \/ StartFails \/ Configure \/ Die
  BY <1>6 DEF CreateRefused, StartFails, Configure, Die, End, Idle
<1>7. ASSUME NEW m \in Machines, Stop(m)
      PROVE  CreateInv'
  <2>1. ~Idle => run.machine \in Machines
    BY SMT DEF Idle, TypeOK, OrNone
  <2> QED
    BY <1>7, <2>1 DEF Stop, TypeOK, Idle
<1>8. ASSUME NEW m \in Machines, Destroy(m)
      PROVE  CreateInv'
  BY <1>8 DEF Destroy, Idle
<1>9. CASE UNCHANGED vars
  BY <1>9 DEF vars, Idle
<1> QED
  BY <1>1, <1>2, <1>3, <1>4, <1>5, <1>6, <1>7, <1>8, <1>9 DEF Next

\* A create that records its file has compared it with every other record.
LEMMA RecordAgrees ==
  ASSUME DistinctNames, Inv, CreateRecord
  PROVE  RecordsValid' /\ RecordsAgree'
<1> DEFINE m0 == run.machine
           f0 == run.file
<1>1. m0 \in Machines /\ f0 \in Files
  BY SMT DEF CreateRecord, Idle, Inv, TypeOK, OrNone
<1>2. CheckSite(m0, f0) /\ record' = [record EXCEPT ![m0] = f0]
  BY DEF CreateRecord
<1> HIDE DEF m0, f0
<1>3. record'[m0] = f0 /\ \A o \in Machines \ {m0} : record'[o] = record[o]
  BY <1>1, <1>2 DEF Inv, TypeOK
<1>4. RecordsValid'
  BY <1>1, <1>2, <1>3 DEF CheckSite, Inv, RecordsValid, Valid, HasNetwork
<1>5. ASSUME NEW o \in Machines \ {m0}, record[o] # None
      PROVE  /\ Sockets(f0) \cap Sockets(record[o]) = {}
             /\ ~NetworkCollision(f0, record[o])
  <2>1. NameOf[o] # NameOf[m0] /\ o \in SiteMachines(m0)
    BY <1>1, <1>5 DEF DistinctNames, SiteMachines
  <2>2. ~ForwardCollision(f0, record[o]) /\ ~NetworkCollision(f0, record[o])
    BY <1>2, <1>5, <2>1 DEF CheckSite, Inv, RecordsValid
  <2> QED
    BY <2>2, NoCollisionNoSocket
<1>6. RecordsAgree'
  <2>1. SUFFICES ASSUME NEW m \in Machines, NEW o \in Machines, m # o,
                        record'[m] # None, record'[o] # None
                 PROVE  /\ Sockets(record'[m]) \cap Sockets(record'[o]) = {}
                        /\ ~NetworkCollision(record'[m], record'[o])
    BY DEF RecordsAgree, Sockets, Binds, NetworkCollision, HasNetwork
  <2>2. CASE m = m0
    BY <1>3, <1>5, <2>1, <2>2
  <2>3. CASE o = m0
    <3>1. Sockets(f0) \cap Sockets(record[m]) = {} /\ ~NetworkCollision(f0, record[m])
      BY <1>3, <1>5, <2>1, <2>3
    <3> QED
      BY <1>3, <2>1, <2>3, <3>1, NetworkSymmetric
  <2>4. CASE m # m0 /\ o # m0
    BY <1>3, <2>1, <2>4 DEF Inv, RecordsAgree
  <2> QED
    BY <2>2, <2>3, <2>4
<1> QED
  BY <1>4, <1>6

LEMMA RecordsKept ==
  ASSUME DistinctNames, Inv, [Next]_vars
  PROVE  RecordsValid' /\ RecordsAgree'
<1>1. ASSUME \A m \in Machines : record'[m] \in {record[m], None}
      PROVE  RecordsValid' /\ RecordsAgree'
  <2>1. RecordsValid'
    BY <1>1 DEF Inv, RecordsValid, Valid, HasNetwork
  <2>2. RecordsAgree'
    BY SMT, <1>1 DEF Inv, RecordsAgree, Sockets, Binds, NetworkCollision, HasNetwork
  <2> QED
    BY <2>1, <2>2
<1>2. ASSUME UNCHANGED record
      PROVE  RecordsValid' /\ RecordsAgree'
  BY <1>1, <1>2
<1>3. ASSUME NEW m \in Machines, Destroy(m)
      PROVE  RecordsValid' /\ RecordsAgree'
  BY <1>1, <1>3 DEF Destroy, Inv, TypeOK
<1> QED
  BY <1>2, <1>3, RecordAgrees DEF Next, vars, Edit, UpBegin, ApplyBegin, CreateRefused,
     Start, StartFails, Configure, Die, Stop

LEMMA RunningKept ==
  ASSUME RunInv, [Next]_vars
  PROVE  RecordIsRunning'
<1> USE DEF RunInv, RecordIsRunning, Running
<1>1. CASE CreateRecord
  <2>1. run.machine \in Machines /\ ~Running(run.machine)
    BY SMT, <1>1 DEF CreateRecord, Idle, TypeOK, OrNone, CreateInv
  <2> QED
    BY <1>1, <2>1 DEF CreateRecord, TypeOK
<1>2. CASE Start
  <2>1. run.machine \in Machines /\ record[run.machine] = run.file
    BY SMT, <1>2 DEF Start, Idle, TypeOK, OrNone, CreateInv
  <2> QED
    BY <1>2, <2>1 DEF Start, TypeOK
<1>3. ASSUME NEW m \in Machines, Stop(m) \/ Destroy(m)
      PROVE  RecordIsRunning'
  BY <1>3 DEF Stop, Destroy, TypeOK
<1>4. ASSUME UNCHANGED <<record, qemu>>
      PROVE  RecordIsRunning'
  BY <1>4
<1> QED
  BY <1>1, <1>2, <1>3, <1>4 DEF Next, vars, Edit, UpBegin, ApplyBegin, CreateRefused,
     StartFails, Configure, Die

-----------------------------------------------------------------------------
(* The theorems. *)

\* Whatever names the files have, a machine that is configured has the disk it
\* was configured on, since a config is sent to a running VM (up.go: Up; main.go:
\* destroy takes the disk and the config together).
THEOREM SiteTypes == Spec => []TypeOK
<1>1. Init => TypeOK /\ RunningHasDisk
  BY InitInv DEF Inv
<1>2. TypeOK /\ RunningHasDisk /\ [Next]_vars => TypeOK' /\ RunningHasDisk'
  BY TypesKept, DisksKept
<1> QED
  BY <1>1, <1>2, PTL DEF Spec

\* The inductive invariant: create records its file before it starts qemu, and
\* checkSite reads every record of the site before it lets a file in.
THEOREM SiteInvariant ==
  ASSUME DistinctNames
  PROVE  Spec => []Inv
<1>1. Inv /\ [Next]_vars => Inv'
  BY TypesKept, DisksKept, CreateKept, RecordsKept, RunningKept, DistinctNames DEF Inv, RunInv
<1> QED
  BY <1>1, InitInv, PTL DEF Spec

\* No two state directories of a site hold files with a common host port or
\* address, whatever is edited, interrupted or half destroyed.
THEOREM RecordsNeverCollide ==
  ASSUME DistinctNames
  PROVE  Spec => []RecordsAgree
<1>1. Inv => RecordsAgree
  BY DEF Inv
<1> QED
  BY <1>1, SiteInvariant, PTL

\* The record other VMs are checked against is what the VM's qemu was started
\* from.  Nothing is asked of the names: only the run of a VM writes its record,
\* and only while the VM is down.
THEOREM RecordsAreRunning == Spec => []RecordIsRunning
<1>1. Init => RunInv
  BY InitInv DEF Inv, RunInv
<1>2. RunInv /\ [Next]_vars => RunInv'
  BY TypesKept, DisksKept, CreateKept, RunningKept DEF RunInv
<1>3. RunInv => RecordIsRunning
  BY DEF RunInv
<1> QED
  BY <1>1, <1>2, <1>3, PTL DEF Spec

\* When create comes to start qemu, no running VM of the site holds a port of
\* its file: the records stand for the sockets.
THEOREM PortsAreFree ==
  ASSUME DistinctNames
  PROVE  Spec => []BindsSucceed
<1>1. Inv => BindsSucceed
  <2>1. SUFFICES ASSUME Inv, ~Idle, run.step = "start", NEW o \in Machines, Running(o)
                 PROVE  Sockets(run.file) \cap Sockets(qemu[o]) = {}
    BY DEF BindsSucceed, BindsFree
  <2>2. run.machine \in Machines /\ run.file \in Files
    BY SMT, <2>1 DEF Inv, TypeOK, OrNone, Idle
  <2>3. ~Running(run.machine) /\ record[run.machine] = run.file
    BY <2>1 DEF Inv, CreateInv
  <2>4. record[o] = qemu[o] /\ record[o] # None
    BY <2>1 DEF Inv, RecordIsRunning, Running
  <2>5. o # run.machine /\ record[run.machine] # None
    BY <2>1, <2>2, <2>3, SiteAssumption
  <2> QED
    BY <2>1, <2>2, <2>3, <2>4, <2>5 DEF Inv, RecordsAgree
<1> QED
  BY <1>1, SiteInvariant, PTL

-----------------------------------------------------------------------------
(* Sums of memory, as the number of pairs of a file and a MiB of it. *)

\* A family of subsets of a finite set has a least one.
LEMMA LeastSubset ==
  ASSUME NEW S, IsFiniteSet(S), NEW F \in SUBSET (SUBSET S), F # {}
  PROVE  \E T \in F : \A U \in F : U \subseteq T => U = T
<1>1. F \subseteq FiniteSubsetsOf(S)
  BY FS_Subset DEF FiniteSubsetsOf
<1>2. IsWellFoundedOn(StrictSubsetOrdering(S), FiniteSubsetsOf(S))
  BY FS_StrictSubsetOrderingWellFounded
<1>3. PICK T \in F : \A U \in F : <<U, T>> \notin StrictSubsetOrdering(S)
  BY <1>1, <1>2, WFMin
<1> QED
  BY <1>3 DEF StrictSubsetOrdering

\* The size of one entry of a sum, the entry the sum takes next, and one round
\* of the recursion behind MapThenSumSet.
MB(x) == ToMB(x[2].memory)
Pick(s) == CHOOSE y \in s : TRUE
SumBody(g, fs) == [s \in SUBSET fs |-> IF s = {} THEN 0 ELSE MB(Pick(s)) + g[s \ {Pick(s)}]]

LEMMA SumUnfolds ==
  ASSUME NEW fs
  PROVE  SumMB(fs) = (CHOOSE g : g = SumBody(g, fs))[fs]
BY Zenon DEF SumMB, MapThenSumSet, MapThenFoldSet, SumBody, MB, Pick

\* One slot for each MiB of each file.
Slots(fs) == {p \in fs \X Nat : p[2] < MB(p[1])}
Sized(fs) == \A x \in fs : MB(x) \in Nat

LEMMA SlotsOfOne ==
  ASSUME NEW x, MB(x) \in Nat
  PROVE  IsFiniteSet(Slots({x})) /\ Cardinality(Slots({x})) = MB(x)
<1>1. \A n \in Nat : n < MB(x) <=> n \in 0 .. MB(x) - 1
  BY SMT
<1>2. Slots({x}) = {x} \X (0 .. MB(x) - 1)
  <2>1. 0 .. MB(x) - 1 \subseteq Nat
    BY SMT
  <2> HIDE DEF MB
  <2> QED
    BY <1>1, <2>1 DEF Slots
<1>3. IsFiniteSet(0 .. MB(x) - 1) /\ Cardinality(0 .. MB(x) - 1) = MB(x)
  BY SMT, FS_Interval
<1>4. IsFiniteSet({x}) /\ Cardinality({x}) = 1
  BY FS_Singleton
<1>5. IsFiniteSet({x} \X (0 .. MB(x) - 1))
      /\ Cardinality({x} \X (0 .. MB(x) - 1)) = 1 * MB(x)
  BY <1>3, <1>4, FS_Product
<1>6. 1 * MB(x) = MB(x)
  BY SMT
<1> QED
  BY Zenon, <1>2, <1>5, <1>6

LEMMA SlotsSplit ==
  ASSUME NEW s, NEW x \in s, MB(x) \in Nat, IsFiniteSet(Slots(s \ {x}))
  PROVE  /\ IsFiniteSet(Slots(s))
         /\ Cardinality(Slots(s)) = MB(x) + Cardinality(Slots(s \ {x}))
<1>1. Slots(s) = Slots(s \ {x}) \cup Slots({x}) /\ Slots(s \ {x}) \cap Slots({x}) = {}
  <2> HIDE DEF MB
  <2> QED
    BY DEF Slots
<1>2. IsFiniteSet(Slots({x})) /\ Cardinality(Slots({x})) = MB(x)
  BY SlotsOfOne
<1>3. Cardinality({}) = 0
  BY FS_EmptySet
<1>4. Cardinality(Slots(s \ {x})) \in Nat
  BY FS_CardinalityType
<1>5. /\ IsFiniteSet(Slots(s))
      /\ Cardinality(Slots(s)) = Cardinality(Slots(s \ {x})) + MB(x) - 0
  <2> DEFINE R == Slots(s \ {x})
             X == Slots({x})
  <2>1. IsFiniteSet(R) /\ IsFiniteSet(X) /\ R \cap X = {} /\ Slots(s) = R \cup X
    BY <1>1, <1>2
  <2>2. Cardinality(X) = MB(x)
    BY <1>2
  <2> HIDE DEF R, X
  <2>3. /\ IsFiniteSet(R \cup X)
        /\ Cardinality(R \cup X) = Cardinality(R) + Cardinality(X) - Cardinality(R \cap X)
    BY Zenon, <2>1, FS_Union
  <2> QED
    BY Zenon, <1>3, <2>1, <2>2, <2>3 DEF R
<1> QED
  BY SMT, <1>4, <1>5

LEMMA SlotsFinite ==
  ASSUME NEW fs, IsFiniteSet(fs), Sized(fs)
  PROVE  \A s \in SUBSET fs : IsFiniteSet(Slots(s))
<1> DEFINE Bad == {s \in SUBSET fs : ~IsFiniteSet(Slots(s))}
<1>1. SUFFICES ASSUME Bad # {} PROVE FALSE
  OBVIOUS
<1>2. PICK s \in Bad : \A U \in Bad : U \subseteq s => U = s
  <2>1. Bad \in SUBSET (SUBSET fs)
    OBVIOUS
  <2> HIDE DEF Bad
  <2> QED
    BY <1>1, <2>1, LeastSubset
<1>3. CASE s = {}
  <2>1. Slots(s) = {}
    BY <1>3 DEF Slots
  <2> QED
    BY <1>2, <2>1, FS_EmptySet
<1>4. CASE s # {}
  <2>1. PICK x \in s : TRUE
    BY <1>4
  <2>2. IsFiniteSet(Slots(s \ {x}))
    BY <1>2
  <2> QED
    BY <1>2, <2>2, SlotsSplit DEF Sized
<1> QED
  BY <1>3, <1>4

\* The sum is a number of slots.
LEMMA SumIsCount ==
  ASSUME NEW fs, IsFiniteSet(fs), Sized(fs)
  PROVE  SumMB(fs) = Cardinality(Slots(fs)) /\ SumMB(fs) \in Nat
<1> DEFINE Count == [s \in SUBSET fs |-> Cardinality(Slots(s))]
           g == CHOOSE h : h = SumBody(h, fs)
<1>1. \A s \in SUBSET fs : s # {} => Pick(s) \in s
  BY DEF Pick
<1>2. Cardinality(Slots({})) = 0
  <2>1. Slots({}) = {}
    BY DEF Slots
  <2> QED
    BY <2>1, FS_EmptySet
<1>3. \A s \in SUBSET fs : s # {} =>
         Cardinality(Slots(s)) = MB(Pick(s)) + Cardinality(Slots(s \ {Pick(s)}))
  BY <1>1, SlotsFinite, SlotsSplit DEF Sized
<1>4. Count = SumBody(Count, fs)
  <2>1. \A s \in SUBSET fs : s \ {Pick(s)} \in SUBSET fs
    OBVIOUS
  <2> QED
    BY <1>2, <1>3, <2>1 DEF SumBody
<1>5. g = SumBody(g, fs)
  BY <1>4
<1>6. SumMB(fs) = g[fs]
  BY SumUnfolds
<1> HIDE DEF g
<1> DEFINE Bad == {s \in SUBSET fs : g[s] # Cardinality(Slots(s))}
<1>7. ASSUME Bad # {} PROVE FALSE
  <2>1. Bad \in SUBSET (SUBSET fs)
    OBVIOUS
  <2>2. PICK s \in Bad : \A U \in Bad : U \subseteq s => U = s
    <3> HIDE DEF Bad
    <3> QED
      BY <1>7, <2>1, LeastSubset
  <2>3. s # {}
    BY <1>2, <1>5, <2>2 DEF SumBody
  <2>4. g[s] = MB(Pick(s)) + g[s \ {Pick(s)}]
    BY <1>5, <2>2, <2>3 DEF SumBody
  <2>5. g[s \ {Pick(s)}] = Cardinality(Slots(s \ {Pick(s)}))
    BY <1>1, <2>2, <2>3
  <2> QED
    BY <1>3, <2>2, <2>3, <2>4, <2>5
<1>8. g[fs] = Cardinality(Slots(fs))
  BY <1>7
<1>9. Cardinality(Slots(fs)) \in Nat
  BY SlotsFinite, FS_CardinalityType
<1> QED
  BY <1>6, <1>8, <1>9

\* Fewer files take no more memory.
LEMMA SumGrows ==
  ASSUME NEW fs, IsFiniteSet(fs), Sized(fs), NEW s \in SUBSET fs
  PROVE  SumMB(s) <= SumMB(fs)
<1>1. IsFiniteSet(s) /\ Sized(s)
  BY FS_Subset DEF Sized
<1>2. Slots(s) \subseteq Slots(fs)
  BY DEF Slots
<1>3. Cardinality(Slots(s)) <= Cardinality(Slots(fs))
  BY <1>2, SlotsFinite, FS_Subset
<1> QED
  BY <1>1, <1>3, SumIsCount

LEMMA SumOfOneMore ==
  ASSUME NEW fs, IsFiniteSet(fs), Sized(fs), NEW x \in fs
  PROVE  SumMB(fs) = MB(x) + SumMB(fs \ {x})
<1>1. IsFiniteSet(fs \ {x}) /\ Sized(fs \ {x})
  BY FS_Subset DEF Sized
<1>2. Cardinality(Slots(fs)) = MB(x) + Cardinality(Slots(fs \ {x}))
  BY SlotsFinite, SlotsSplit DEF Sized
<1> QED
  BY <1>1, <1>2, SumIsCount

-----------------------------------------------------------------------------
(* Capacity. *)

LEMMA PairsSized ==
  ASSUME NEW S \in SUBSET Machines, NEW q, \A o \in S : q[o] \in Files
  PROVE  /\ IsFiniteSet({<<o, q[o]>> : o \in S})
         /\ Sized({<<o, q[o]>> : o \in S})
<1> DEFINE fs == {<<o, q[o]>> : o \in S}
           pair == [o \in S |-> <<o, q[o]>>]
<1>1. IsFiniteSet(S)
  BY SiteAssumption, FS_Subset
<1>2. pair \in Surjection(S, fs)
  BY DEF Surjection
<1>3. IsFiniteSet(fs)
  BY <1>1, <1>2, FS_Surjection
<1>4. ASSUME NEW o \in S PROVE MB(<<o, q[o]>>) \in Nat
  <2>1. q[o].memory.number \in Int
    BY <1>4, SiteAssumption
  <2>2. MB(<<o, q[o]>>) = ToMB(q[o].memory)
    BY DEF MB
  <2> QED
    BY SMT, <2>1, <2>2 DEF ToMB
<1> QED
  BY <1>3, <1>4 DEF Sized

\* What checkCapacity found when the run began still holds when it starts the
\* joiner: while a run is under way VMs stop, and none is started but its own.
LEMMA FitKept ==
  ASSUME DistinctNames, Inv, FitInv, [Next]_vars
  PROVE  FitInv'
<1>1. ASSUME NEW m \in Machines, UpBegin(m)
      PROVE  FitInv'
  <2> DEFINE f == file[m]
  <2>1. run' = [machine |-> m, file |-> f, verb |-> "up",
                step |-> IF Running(m) THEN "configure" ELSE "create"]
        /\ qemu' = qemu
    BY <1>1 DEF UpBegin
  <2>2. run'.machine = m /\ run'.file = f
    BY <2>1
  <2>3. SUFFICES ASSUME Joins(f)
                 PROVE  ToMB(f.memory) + SumMB(Others(m)) <= Limit
    BY <2>1, <2>2 DEF FitInv, Others, Running
  <2>4. CheckCapacity(m, f)
    BY <1>1, <2>3 DEF UpBegin, MayJoin
  <2>5. {o \in SiteMachines(m) : NameOf[o] # NameOf[m] /\ Running(o)}
          = {x \in Machines \ {m} : Running(x)}
    BY DEF SiteMachines, DistinctNames, Inv, RecordIsRunning, Running
  <2>6. {<<o, record[o]>> : o \in {x \in Machines \ {m} : Running(x)}} = Others(m)
    BY DEF Others, Inv, RecordIsRunning
  <2> QED
    BY <2>4, <2>5, <2>6 DEF CheckCapacity
<1>2. ASSUME NEW m \in Machines, Stop(m)
      PROVE  FitInv'
  <2>1. SUFFICES ASSUME ~Idle, run.verb = "up", run.step \in {"create", "start"}, Joins(run.file)
                 PROVE  ToMB(run.file.memory) + SumMB(Others(run.machine)') <= Limit
    BY <1>2 DEF Stop, FitInv, Idle, Others
  <2>2. run.machine \in Machines /\ run.file \in Files
    BY SMT, <2>1 DEF Inv, TypeOK, OrNone, Idle
  <2>3. Others(run.machine)' \subseteq Others(run.machine)
    BY <1>2 DEF Stop, Others, Running, Inv, TypeOK
  <2>4. IsFiniteSet(Others(run.machine)) /\ Sized(Others(run.machine))
    <3>1. \A o \in {x \in Machines \ {run.machine} : Running(x)} : qemu[o] \in Files
      BY DEF Running, Inv, TypeOK, OrNone
    <3> QED
      BY <3>1, PairsSized DEF Others
  <2>5. SumMB(Others(run.machine)') <= SumMB(Others(run.machine))
    BY <2>3, <2>4, SumGrows
  <2>6. SumMB(Others(run.machine)') \in Nat /\ SumMB(Others(run.machine)) \in Nat
    BY <2>3, <2>4, SumIsCount, FS_Subset DEF Sized
  <2>7. ToMB(run.file.memory) \in Int /\ Limit \in Int
    BY SMT, <2>2, SiteAssumption DEF ToMB, Limit
  <2>8. ToMB(run.file.memory) + SumMB(Others(run.machine)) <= Limit
    BY <2>1 DEF FitInv
  <2> QED
    BY SMT, <2>5, <2>6, <2>7, <2>8
<1>3. CASE CreateRecord
  <2>1. run'.machine = run.machine /\ run'.file = run.file /\ run'.verb = run.verb /\ qemu' = qemu
    BY SMT, <1>3 DEF CreateRecord, Goto, Inv, TypeOK, OrNone, Idle
  <2>2. ~Idle /\ run.step = "create"
    BY <1>3 DEF CreateRecord
  <2> QED
    BY <2>1, <2>2 DEF FitInv, Others, Running
<1>4. CASE Start
  <2>1. CASE End
    BY <2>1 DEF End, FitInv, Idle
  <2>2. CASE Goto("configure")
    <3>1. run'.step = "configure"
      BY <1>4, <2>2, GotoTypes DEF Start, Steps, Inv
    <3> QED
      BY <3>1 DEF FitInv
  <2> QED
    BY <1>4, <2>1, <2>2 DEF Start
<1>5. ASSUME NEW m \in Machines, ApplyBegin(m)
      PROVE  FitInv'
  <2>1. run'.verb = "apply"
    BY <1>5 DEF ApplyBegin
  <2> QED
    BY <2>1 DEF FitInv
<1>6. CASE CreateRefused \/ StartFails \/ Configure \/ Die
  BY <1>6 DEF CreateRefused, StartFails, Configure, Die, End, FitInv, Idle
<1>7. ASSUME NEW m \in Machines, Destroy(m)
      PROVE  FitInv'
  BY <1>7 DEF Destroy, FitInv, Idle
<1>8. ASSUME UNCHANGED <<qemu, run>> PROVE FitInv'
  BY <1>8 DEF FitInv, Idle, Others, Running
<1> QED
  BY <1>1, <1>2, <1>3, <1>4, <1>5, <1>6, <1>7, <1>8 DEF Next, vars, Edit

\* When up starts a joiner, the VMs that then run are within the share of the
\* host's memory, though VMs, files and records may have changed since
\* checkCapacity counted them (capacity.go: checkCapacity; join.go: vmJoinOptions).
THEOREM JoinersFit ==
  ASSUME DistinctNames
  PROVE  Spec => JoinerFits
<1> DEFINE Fits == \A m \in Machines :
        (Booted(m) /\ Joins(qemu'[m]) /\ run.verb = "up") => Used' <= Limit
<1>1. Init => FitInv
  BY DEF Init, FitInv, Idle
<1>2. Spec => []FitInv
  BY <1>1, FitKept, DistinctNames, SiteInvariant, PTL DEF Spec
<1>3. ASSUME Inv, FitInv, [Next]_vars
      PROVE  Fits
  <2>1. SUFFICES ASSUME NEW m \in Machines, Booted(m), Joins(qemu'[m]), run.verb = "up"
                 PROVE  Used' <= Limit
    OBVIOUS
  <2>2. Start
    BY <1>3, <2>1 DEF Next, vars, Booted, Edit, UpBegin, ApplyBegin, CreateRecord, CreateRefused,
       StartFails, Configure, Die, Stop, Destroy, Inv, TypeOK
  <2>3. run.machine \in Machines /\ run.file \in Files
    BY SMT, <1>3, <2>2 DEF Start, Idle, Inv, TypeOK, OrNone
  <2>4. qemu' = [qemu EXCEPT ![run.machine] = run.file] /\ run.step = "start" /\ ~Idle
    BY <2>2 DEF Start
  <2>5. m = run.machine /\ qemu'[m] = run.file
    BY <1>3, <2>1, <2>3, <2>4 DEF Booted, Inv, TypeOK
  <2>6. ToMB(run.file.memory) + SumMB(Others(m)) <= Limit
    BY <1>3, <2>1, <2>4, <2>5 DEF FitInv
  <2> DEFINE S == {x \in Machines : Running(x)'}
             fs == {<<x, qemu'[x]>> : x \in S}
  <2>7. Used' = SumMB(fs)
    BY DEF Used
  <2>8. TypeOK'
    BY <1>3, TypesKept DEF Inv
  <2>9. IsFiniteSet(fs) /\ Sized(fs)
    <3>1. \A o \in S : qemu'[o] \in Files
      BY <2>8 DEF TypeOK, OrNone, Running
    <3> QED
      BY <3>1, PairsSized
  <2>10. <<m, run.file>> \in fs /\ fs \ {<<m, run.file>>} = Others(m)
    BY <2>3, <2>4, <2>5, SiteAssumption, <1>3 DEF Others, Running, Inv, TypeOK
  <2>11. SumMB(fs) = MB(<<m, run.file>>) + SumMB(Others(m))
    BY <2>9, <2>10, SumOfOneMore
  <2> QED
    BY <2>6, <2>7, <2>11 DEF MB
<1> HIDE DEF Fits
<1>4. Spec => [][Fits]_vars
  BY <1>2, <1>3, SiteInvariant, DistinctNames, PTL DEF Spec
<1> QED
  BY <1>4 DEF Fits, JoinerFits
=============================================================================
