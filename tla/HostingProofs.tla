--------------------------- MODULE HostingProofs ----------------------------
(***************************************************************************)
(* Theorems about HostingOperations, for any sets of operations, bindings  *)
(* and ports and any bounds on attempts: the inductive invariant, its      *)
(* preservation by requests, preparation, admission, task leases,          *)
(* reconciliation and restores, by routes, withdrawals and cancellation    *)
(* and by every report a runner makes of an operation, and the properties  *)
(* that follow from it.                                                    *)
(***************************************************************************)
EXTENDS HostingOperations, TLAPS

Open(o) == state[o] \notin Terminal \cup {"absent"}

HeldState == {"applying", "verifying", "cancel_requested", "reconciliation_required"}

(* A release on record that has a container on its port. *)
Listed(o) == ledger[o] \in {"healthy", "retained", "cleanup_pending"} /\ o \in running

Reserved(o) == claim[o] \in {"reserved", "held"}

(* An operation that was not inserted has no rows; one that was has a      *)
(* binding and a port.                                                     *)
Rows ==
    /\ \A o \in Op :
           IF state[o] = "absent"
           THEN bind[o] = NoBinding /\ target[o] = NoOp /\ prev[o] = NoOp /\ claim[o] = "none" /\ o \notin release
           ELSE bind[o] \in Binding /\ port[o] \in Port
    /\ tries \in [Task -> Nat]
    /\ restoreHeld \in {{}, Binding}

(* The task of an operation is leased only while the operation is under    *)
(* way, has not reported and no restore holds it.                          *)
Tasks ==
    \A o \in Op :
        /\ state[o] \in {"absent", "queued"} => run[Main(o)] = "none"
        /\ state[o] \in {"absent", "queued", "dispatched", "preparing", "prepared"} => result[o] = "none"
        /\ run[Main(o)] = "none" => lease[Main(o)] = "none"
        /\ run[Main(o)] = "queued" => result[o] = "none"
        /\ lease[Main(o)] \in {"active", "lapsed"} => Open(o) /\ result[o] = "none" /\ restoreHeld = {}
        /\ o \in handler => state[o] \in {"queued", "canceled"}

(* The operations past their admission are those that hold their bindings. *)
Holding ==
    /\ \A o \in Op :
           /\ state[o] \in HeldState <=> Holds(o)
           /\ Holds(o) => o \in admitted /\ (o \in release \/ target[o] # NoOp)
           /\ o \in release => target[o] = NoOp
           /\ Holds(o) /\ o \in release => result[o] \notin {"succeeded", "restored"}
           /\ o \in touching => Holds(o)
    /\ \A b \in Binding : hold[b] # NoOp => bind[hold[b]] = b

OneOpen == \A o, q \in Op : Open(o) /\ Open(q) /\ bind[o] = bind[q] => o = q

(* What a plan says of the previous release stays true until the operation *)
(* is over.                                                                *)
Plans ==
    \A o \in Op :
        /\ Open(o) /\ (o \in release \/ target[o] # NoOp) => prev[o] = healthy[bind[o]]
        /\ target[o] # NoOp => bind[target[o]] = bind[o] /\ ledger[target[o]] # "none"
        /\ prev[o] # NoOp => bind[prev[o]] = bind[o]
        /\ Holds(o) /\ target[o] # NoOp => ledger[target[o]] = "cleanup_pending"

Ledger ==
    /\ \A o \in Op :
           /\ ledger[o] = "healthy" => healthy[bind[o]] = o /\ o \in running /\ claim[o] = "retained"
           /\ ledger[o] # "none" => state[o] = "succeeded" /\ target[o] = NoOp
    /\ \A b \in Binding : healthy[b] # NoOp => bind[healthy[b]] = b /\ ledger[healthy[b]] = "healthy"

(* A deployment that is under way has its port reserved. *)
Claims ==
    \A o \in Op :
        /\ Reserved(o) <=> Open(o) /\ target[o] = NoOp
        /\ claim[o] \in {"reserved", "held", "retained"} => slot[port[o]] = bind[o]

(* A reserved port has no other reservation, and the only release on it is *)
(* the healthy one of the same binding; otherwise a port has one release.  *)
Ports ==
    \A o, q \in Op : o # q /\ port[o] = port[q] =>
        /\ ~(Reserved(o) /\ Reserved(q))
        /\ ~(Listed(o) /\ Listed(q))
        /\ Reserved(o) /\ Listed(q) => q = healthy[bind[o]]

(* The inductive invariant. *)
IInv ==
    /\ HTypeOK
    /\ Rows
    /\ Tasks
    /\ Holding
    /\ OneOpen
    /\ Plans
    /\ Ledger
    /\ Claims
    /\ Ports
    /\ ReferencedReleasesRun

-----------------------------------------------------------------------------
(* An operation has two different tasks of its own. *)
LEMMA TaskFacts ==
  /\ \A o \in Op : Main(o) \in Task /\ Observe(o) \in Task /\ Main(o) # Observe(o)
  /\ \A o \in Op : Main(o)[1] = o /\ Observe(o)[1] = o
  /\ \A o, q \in Op : Main(o) = Main(q) => o = q
  /\ \A o, q \in Op : Main(o) # Observe(q)
  /\ \A t \in Task : t[1] \in Op /\ (t = Main(t[1]) \/ t = Observe(t[1]))
  BY DEF Task, Main, Observe

(* What is named by a row is an operation. *)
LEMMA NamedOperations ==
  ASSUME IInv
  PROVE  /\ \A o \in Op : target[o] # NoOp => target[o] \in Op
         /\ \A o \in Op : prev[o] # NoOp => prev[o] \in Op
         /\ \A b \in Binding : healthy[b] # NoOp => healthy[b] \in Op
         /\ referenced \subseteq Op
  BY ZenonT(30) DEF IInv, HTypeOK

(* The empty tables satisfy the invariant. *)
LEMMA InitIInv == Init => IInv
  <1> SUFFICES ASSUME Init PROVE IInv
    BY Zenon
  <1> USE HostingAssumption DEF Init
  <1>1. HTypeOK
    BY DEF HTypeOK, OperationState, Attempts
  <1>2. Rows
    BY Zenon DEF Rows
  <1>3. Tasks
    BY TaskFacts, Zenon DEF Tasks, Open
  <1>4. Holding
    BY Zenon DEF Holding, HeldState, Holds
  <1>5. OneOpen /\ Plans /\ Ledger /\ Claims
    BY Zenon DEF OneOpen, Plans, Ledger, Claims, Open, Reserved, Holds
  <1>6. Ports
    BY Zenon DEF Ports, Reserved, Listed
  <1>7. ReferencedReleasesRun
    BY Zenon DEF ReferencedReleasesRun
  <1> QED
    BY <1>1, <1>2, <1>3, <1>4, <1>5, <1>6, <1>7, Zenon DEF IInv

(* RequestHostingDeployment inserts an operation whose port is reserved.   *)
LEMMA RequestDeploymentStep ==
  ASSUME IInv, NEW o \in Op, NEW b \in Binding, NEW p \in Port, NEW auto \in BOOLEAN,
         RequestHostingDeployment(o, b, p, auto)
  PROVE  IInv'
  <1> USE HostingAssumption DEF IInv, RequestHostingDeployment, taskVars, envVars
  <1>1. HTypeOK'
    BY Zenon DEF HTypeOK, OperationState, SlotsFor, Attempts
  <1>2. Rows'
    BY DEF Rows, HTypeOK
  <1>3. Tasks'
    BY DEF Tasks, HTypeOK, Open, Rows, Terminal
  <1>4. Holding'
    BY DEF Holding, Holds, HTypeOK, HeldState, Rows
  <1>5. OneOpen'
    BY DEF OneOpen, Open, HTypeOK, HostingBindingBusy, Rows
  <1>6. Plans'
    BY DEF Plans, Open, Holds, HTypeOK, Rows, Ledger
  <1>7. Ledger'
    BY DEF Ledger, HTypeOK, Rows
  <1>8. Claims'
    <2> SUFFICES ASSUME NEW q \in Op
                 PROVE  /\ Reserved(q)' <=> Open(q)' /\ target'[q] = NoOp
                        /\ claim'[q] \in {"reserved", "held", "retained"} => slot'[port'[q]] = bind'[q]
      BY Zenon DEF Claims
    <2>1. Reserved(q)' <=> Open(q)' /\ target'[q] = NoOp
      BY DEF Claims, Reserved, Open, Terminal, HTypeOK, Rows
    <2>2. ASSUME q # o, claim[q] \in {"reserved", "held", "retained"}
          PROVE  slot'[port[q]] = bind[q]
      <3>1. port[q] \in Port /\ bind[q] \in Binding /\ slot[port[q]] = bind[q]
        BY <2>2, Zenon DEF Claims, Rows
      <3>2. ~Reclaimable(port[q])
        BY <2>2, Zenon DEF Reclaimable, OnPort
      <3>3. SlotsFor(auto)[port[q]] = bind[q]
        BY <3>1, <3>2, Zenon DEF SlotsFor
      <3>4. port[q] = p => bind[q] = b
        BY <3>1, <3>3, Zenon DEF ResolveHostingReleasePort
      <3> QED
        BY <3>1, <3>3, <3>4, Zenon DEF SlotsFor
    <2> QED
      BY <2>1, <2>2 DEF HTypeOK, SlotsFor
  <1>9. Ports'
    BY DEF Ports, Reserved, Listed, HTypeOK, Rows, Ledger, ResolveHostingReleasePort,
           HostingReleaseSlotReusable, OnPort
  <1>10. ReferencedReleasesRun'
    BY DEF ReferencedReleasesRun, HTypeOK, Rows, Plans, RetainPrevious, Holds, Ledger
  <1> QED
    BY <1>1, <1>2, <1>3, <1>4, <1>5, <1>6, <1>7, <1>8, <1>9, <1>10, Zenon

(* RequestHostingReleaseCleanup inserts an operation on the port of its    *)
(* target.                                                                 *)
LEMMA RequestCleanupStep ==
  ASSUME IInv, NEW o \in Op, NEW r \in Op, RequestHostingReleaseCleanup(o, r)
  PROVE  IInv'
  <1> USE HostingAssumption DEF IInv, RequestHostingReleaseCleanup, taskVars, envVars, portVars
  <1>0. /\ r # o /\ bind[r] \in Binding /\ port[r] \in Port /\ state[r] = "succeeded"
        /\ healthy[bind[r]] \in Op \cup {NoOp}
    BY DEF Ledger, Rows, HTypeOK
  <1>1. HTypeOK'
    BY <1>0, Zenon DEF HTypeOK, OperationState
  <1>2. Rows'
    BY <1>0 DEF Rows, HTypeOK
  <1>3. Tasks'
    BY DEF Tasks, HTypeOK, Open, Rows, Terminal
  <1>4. Holding'
    BY DEF Holding, Holds, HTypeOK, HeldState, Rows
  <1>5. OneOpen'
    BY <1>0 DEF OneOpen, Open, HTypeOK, HostingBindingBusy, Rows
  <1>6. Plans'
    BY <1>0 DEF Plans, Open, Holds, HTypeOK, Rows, Ledger, HostingCleanupUnreferenced
  <1>7. Ledger'
    BY DEF Ledger, HTypeOK, Rows
  <1>8. Claims'
    BY <1>0 DEF Claims, Reserved, Open, Terminal, HTypeOK, Rows
  <1>9. Ports'
    BY DEF Ports, Reserved, Listed, HTypeOK, Rows, Ledger
  <1>10. ReferencedReleasesRun'
    BY DEF ReferencedReleasesRun, HTypeOK, Rows, Plans, RetainPrevious, Holds, Ledger
  <1> QED
    BY <1>1, <1>2, <1>3, <1>4, <1>5, <1>6, <1>7, <1>8, <1>9, <1>10, Zenon

-----------------------------------------------------------------------------
(* A step that neither starts nor ends an operation, and changes no plan,  *)
(* hold, claim or release, keeps what the tables say of each other.        *)
LEMMA TablesUntouched ==
  ASSUME IInv,
         \A o \in Op : Open(o)' <=> Open(o),
         \A o \in Op : state'[o] = "succeeded" <=> state[o] = "succeeded",
         UNCHANGED <<bind, port, target, release, prev, hold, healthy, claim, slot, ledger, running>>
  PROVE  OneOpen' /\ Plans' /\ Ledger' /\ Claims' /\ Ports'
  <1> USE DEF IInv
  <1>1. OneOpen'
    BY Zenon DEF OneOpen
  <1>2. Plans'
    BY Zenon DEF Plans, Holds
  <1>3. Ledger'
    BY Zenon DEF Ledger
  <1>4. Claims'
    BY Zenon DEF Claims, Reserved
  <1>5. Ports'
    BY Zenon DEF Ports, Reserved, Listed
  <1> QED
    BY <1>1, <1>2, <1>3, <1>4, <1>5, Zenon

(* A step that changes no plan, hold or release keeps the referenced ones. *)
LEMMA ReferencesUntouched ==
  ASSUME IInv, UNCHANGED <<bind, port, target, prev, hold, ledger, running, referenced>>
  PROVE  ReferencedReleasesRun'
  BY Zenon DEF IInv, ReferencedReleasesRun, Holds, RetainPrevious

(* The job reads an operation. *)
LEMMA ReadStep ==
  ASSUME IInv, NEW o \in Op, ReadQueuedOperation(o)
  PROVE  IInv'
  <1> USE DEF ReadQueuedOperation, opVars, taskVars, portVars, envVars
  <1>1. HTypeOK' /\ Rows'
    BY Zenon DEF IInv, HTypeOK, Rows
  <1>2. Tasks'
    BY Zenon DEF IInv, Tasks, Open
  <1>3. Holding'
    BY Zenon DEF IInv, Holding, Holds
  <1>4. OneOpen' /\ Plans' /\ Ledger' /\ Claims' /\ Ports' /\ ReferencedReleasesRun'
    BY TablesUntouched, ReferencesUntouched, Zenon DEF Open
  <1> QED
    BY <1>1, <1>2, <1>3, <1>4, Zenon DEF IInv

(* The job refuses the operation, dispatches it or finds it canceled. *)
LEMMA PrepareStep ==
  ASSUME IInv, NEW o \in Op, PrepareDeployment(o)
  PROVE  IInv'
  <1> USE TaskFacts DEF PrepareDeployment, ReleaseHostingFailedClaim, envVars
  <1>0. state[o] \in {"queued", "canceled"} /\ run[Main(o)] \in {"none", "queued", "running", "over"}
    BY DEF IInv, Tasks, HTypeOK
  <1>1. HTypeOK'
    BY <1>0, Zenon DEF IInv, HTypeOK, OperationState, Terminal
  <1>2. Rows'
    BY <1>0 DEF IInv, Rows, HTypeOK
  <1>3. Tasks'
    BY <1>0 DEF IInv, Tasks, Open, HTypeOK, Terminal
  <1>4. Holding'
    BY <1>0 DEF IInv, Holding, Holds, HTypeOK, HeldState
  <1>5. OneOpen' /\ Plans'
    BY <1>0 DEF IInv, OneOpen, Plans, Open, HTypeOK, Terminal, Holds
  <1>6. Ledger'
    BY <1>0 DEF IInv, Ledger, HTypeOK
  <1>7. Claims'
    BY <1>0 DEF IInv, Claims, Reserved, Open, HTypeOK, Terminal
  <1>8. Ports'
    BY <1>0 DEF IInv, Ports, Reserved, Listed, HTypeOK
  <1>9. ReferencedReleasesRun'
    BY ReferencesUntouched, Zenon
  <1> QED
    BY <1>1, <1>2, <1>3, <1>4, <1>5, <1>6, <1>7, <1>8, <1>9, Zenon DEF IInv

(* HostingRunnerPlan moves an operation that holds nothing. *)
LEMMA PlanStep ==
  ASSUME IInv, NEW o \in Op, HostingRunnerPlan(o)
  PROVE  IInv'
  <1> USE DEF HostingRunnerPlan, taskVars, portVars, envVars
  <1>0. PICK s \in {"preparing", "prepared"} : state' = [state EXCEPT ![o] = s]
    BY Zenon
  <1>1. HTypeOK' /\ Rows'
    BY <1>0 DEF IInv, HTypeOK, Rows, OperationState
  <1>2. \A q \in Op : /\ Open(q)' <=> Open(q)
                      /\ state'[q] = "succeeded" <=> state[q] = "succeeded"
    BY <1>0, Zenon DEF IInv, HTypeOK, Open, Terminal
  <1>3. Tasks'
    BY <1>0, <1>2 DEF IInv, Tasks, HTypeOK
  <1>4. Holding'
    BY <1>0 DEF IInv, Holding, Holds, HTypeOK, HeldState
  <1>5. OneOpen' /\ Plans' /\ Ledger' /\ Claims' /\ Ports' /\ ReferencedReleasesRun'
    BY <1>2, TablesUntouched, ReferencesUntouched, Zenon
  <1> QED
    BY <1>1, <1>3, <1>4, <1>5, Zenon DEF IInv

(* HostingPrepared stores the plan, with the healthy release of now. *)
LEMMA PreparedStep ==
  ASSUME IInv, NEW o \in Op, HostingPrepared(o)
  PROVE  IInv'
  <1> USE DEF HostingPrepared, taskVars, portVars, envVars
  <1>0. bind[o] \in Binding /\ healthy[bind[o]] \in Op \cup {NoOp} /\ ~Holds(o)
    BY HostingAssumption DEF IInv, Rows, HTypeOK, Holds
  <1>1. HTypeOK' /\ Rows'
    BY <1>0, ZenonT(30) DEF IInv, HTypeOK, Rows, OperationState
  <1>2. Tasks'
    BY DEF IInv, Tasks, Open, HTypeOK, Terminal
  <1>3. Holding'
    BY <1>0 DEF IInv, Holding, Holds, HTypeOK, HeldState
  <1>4. OneOpen' /\ Ledger'
    BY DEF IInv, OneOpen, Ledger, Open, HTypeOK, Terminal
  <1>5. Plans'
    BY <1>0 DEF IInv, Plans, Ledger, Open, HTypeOK, Terminal, Holds
  <1>6. Claims'
    BY DEF IInv, Claims, Reserved, Open, HTypeOK, Terminal
  <1>7. Ports'
    BY Zenon DEF IInv, Ports, Reserved, Listed
  <1>8. ReferencedReleasesRun'
    BY <1>0 DEF IInv, ReferencedReleasesRun, Holds, RetainPrevious, HTypeOK
  <1> QED
    BY <1>1, <1>2, <1>3, <1>4, <1>5, <1>6, <1>7, <1>8, Zenon DEF IInv

-----------------------------------------------------------------------------
(* A step lets the runner of o, and no other, at the host. *)
OnlyAdmits(o) ==
    /\ bind[o] \in Binding /\ ~Holds(o) /\ Open(o) /\ prev[o] = healthy[bind[o]]
    /\ \A q \in Op : /\ Holds(q)' <=> q = o \/ Holds(q)
                     /\ Open(q)' <=> Open(q)
                     /\ state'[q] = "succeeded" <=> state[q] = "succeeded"

LEMMA AdmitFacts ==
  ASSUME IInv, NEW o \in Op, Admit(o), o \in release \/ target[o] # NoOp
  PROVE  OnlyAdmits(o)
  <1> USE DEF Admit
  <1>1. bind[o] \in Binding /\ ~Holds(o) /\ Open(o)
    BY HostingAssumption, Zenon DEF IInv, Rows, Holds, Open, Terminal
  <1>2. prev[o] = healthy[bind[o]]
    BY <1>1, Zenon DEF IInv, Plans
  <1>3. \A q \in Op : Holds(q)' <=> q = o \/ Holds(q)
    BY <1>1, HostingAssumption DEF IInv, HTypeOK, Holds
  <1>4. \A q \in Op : /\ Open(q)' <=> Open(q)
                      /\ state'[q] = "succeeded" <=> state[q] = "succeeded"
    BY Zenon DEF IInv, HTypeOK, Open, Terminal
  <1> QED
    BY <1>1, <1>2, <1>3, <1>4, Zenon DEF OnlyAdmits

(* The admission keeps rows, tasks and holds in agreement. *)
LEMMA AdmitStep ==
  ASSUME IInv, NEW o \in Op, Admit(o), o \in release \/ target[o] # NoOp,
         \A q \in Op : claim'[q] = "none" <=> claim[q] = "none"
  PROVE  Rows' /\ Tasks' /\ Holding' /\ OneOpen'
  <1>0. OnlyAdmits(o)
    BY AdmitFacts, Zenon
  <1> USE DEF Admit, taskVars, envVars
  <1>1. Rows'
    BY DEF IInv, Rows, HTypeOK
  <1>2. Tasks'
    BY <1>0 DEF OnlyAdmits, IInv, Tasks, HTypeOK
  <1>3. Holding'
    <2>1. \A b \in Binding : hold'[b] # NoOp => bind'[hold'[b]] = b
      BY <1>0 DEF OnlyAdmits, IInv, Holding, HTypeOK
    <2>2. \A q \in Op : state'[q] \in HeldState <=> Holds(q)'
      BY <1>0 DEF OnlyAdmits, IInv, Holding, HTypeOK, HeldState
    <2>3. result[o] = "none"
      BY Zenon DEF IInv, Tasks
    <2> QED
      BY <2>1, <2>2, <2>3, <1>0 DEF OnlyAdmits, IInv, Holding, HTypeOK
  <1>4. OneOpen'
    BY <1>0, Zenon DEF OnlyAdmits, IInv, OneOpen
  <1> QED
    BY <1>1, <1>2, <1>3, <1>4, Zenon

(* HostingApplyBegin checks the references to the port it will replace. *)
LEMMA ApplyBeginStep ==
  ASSUME IInv, NEW o \in Op, HostingApplyBegin(o)
  PROVE  IInv'
  <1>a. OnlyAdmits(o)
    BY AdmitFacts, Zenon DEF HostingApplyBegin
  <1> USE DEF HostingApplyBegin
  <1>0. /\ target[o] = NoOp
        /\ \A q \in Op : Reserved(q)' <=> Reserved(q)
        /\ \A q \in Op : /\ claim'[q] = "none" <=> claim[q] = "none"
                         /\ claim'[q] = "retained" <=> claim[q] = "retained"
    BY DEF IInv, Holding, HTypeOK, Reserved
  <1> USE DEF Admit, taskVars, envVars
  <1>1. HTypeOK'
    BY <1>a DEF OnlyAdmits, IInv, HTypeOK, OperationState
  <1>2. Rows' /\ Tasks' /\ Holding' /\ OneOpen'
    BY <1>0, AdmitStep, Zenon
  <1>3. Plans'
    BY <1>0, <1>a, ZenonT(30) DEF OnlyAdmits, IInv, Plans
  <1>4. Ledger'
    BY <1>0, <1>a, ZenonT(30) DEF OnlyAdmits, IInv, Ledger
  <1>5. Claims'
    BY <1>0, <1>a, Zenon DEF OnlyAdmits, IInv, Claims, Reserved, HTypeOK
  <1>6. Ports'
    BY <1>0, ZenonT(30) DEF IInv, Ports, Listed
  <1>7. ReferencedReleasesRun'
    BY <1>0, <1>a, HostingAssumption
    DEF OnlyAdmits, IInv, ReferencedReleasesRun, HTypeOK, RetainPrevious, HostingReleasePortReferenced, OnPort
  <1> QED
    BY <1>1, <1>2, <1>3, <1>4, <1>5, <1>6, <1>7, Zenon DEF IInv

(* A cleanup is let at a release that nothing refers to. *)
LEMMA AdmitCleanupStep ==
  ASSUME IInv, NEW o \in Op, AdmitHostingCleanup(o)
  PROVE  IInv'
  <1>a. OnlyAdmits(o)
    BY AdmitFacts, ZenonT(30) DEF AdmitHostingCleanup
  <1> USE DEF AdmitHostingCleanup
  <1>0. /\ target[o] \in Op /\ target[o] \notin referenced
        /\ \A q \in Op : ledger'[q] = IF q = target[o] THEN "cleanup_pending" ELSE ledger[q]
        /\ \A q \in Op : Holds(q) => target[q] # target[o]
    BY <1>a DEF OnlyAdmits, Admit, IInv, HTypeOK, HostingCleanupUnreferenced, Plans
  <1>1. HTypeOK'
    BY <1>a DEF OnlyAdmits, IInv, HTypeOK, OperationState, Admit, taskVars, envVars
  <1>2. Rows' /\ Tasks' /\ Holding' /\ OneOpen'
    BY AdmitStep, Zenon
  <1>c. target[o] # NoOp /\ ledger[target[o]] = "retained"
    BY Zenon
  <1>b. UNCHANGED <<bind, port, target, release, prev, healthy, claim, slot, running, referenced>>
    BY Zenon DEF Admit, envVars
  <1> HIDE DEF AdmitHostingCleanup
  <1>d. /\ ledger'[target[o]] = "cleanup_pending" /\ target[o] # NoOp /\ ledger[target[o]] = "retained"
        /\ \A q \in Op : q # target[o] => ledger'[q] = ledger[q]
    BY <1>0, <1>c, Zenon
  <1>3. Plans'
    <2>1. \A q \in Op : target[q] # NoOp => target[q] \in Op
      BY Zenon DEF IInv, HTypeOK
    <2>2. ASSUME NEW q \in Op, Holds(q)', target[q] # NoOp PROVE ledger'[target[q]] = "cleanup_pending"
      <3>1. q = o \/ ledger[target[q]] = "cleanup_pending"
        BY <2>2, <1>a, Zenon DEF OnlyAdmits, IInv, Plans
      <3> QED
        BY <3>1, <2>1, <2>2, <1>d, Zenon
    <2>3. ASSUME NEW q \in Op, target[q] # NoOp PROVE ledger'[target[q]] # "none"
      <3>1. ledger[target[q]] # "none"
        BY <2>3, Zenon DEF IInv, Plans
      <3> QED
        BY <3>1, <2>1, <2>3, <1>d, Zenon
    <2> QED
      BY <2>2, <2>3, <1>a, <1>b, Zenon DEF OnlyAdmits, IInv, Plans
  <1>4. Ledger'
    <2>1. \A q \in Op : /\ ledger'[q] # "none" => ledger[q] # "none"
                        /\ ledger'[q] = "healthy" <=> ledger[q] = "healthy"
      BY <1>d, Zenon
    <2>2. \A b \in Binding : healthy[b] # NoOp => healthy[b] \in Op
      BY Zenon DEF IInv, HTypeOK
    <2> QED
      BY <2>1, <2>2, <1>a, <1>b, ZenonT(30) DEF OnlyAdmits, IInv, Ledger
  <1>5. Claims'
    BY <1>a, <1>b, Zenon DEF OnlyAdmits, IInv, Claims, Reserved
  <1>6. Ports'
    <2>1. \A q \in Op : Listed(q)' => Listed(q)
      BY <1>0, <1>b, <1>c, Zenon DEF Listed
    <2> QED
      BY <2>1, <1>b, Zenon DEF IInv, Ports, Reserved
  <1>7. ReferencedReleasesRun'
    <2>1. \A r \in referenced : r \in Op /\ r # target[o] /\ ledger[r] \in {"healthy", "retained"} /\ r \in running
      <3>1. referenced \subseteq Op
        BY Zenon DEF IInv, HTypeOK
      <3> QED
        BY <3>1, <1>0, Zenon DEF IInv, ReferencedReleasesRun
    <2>2. \A r \in referenced : ledger'[r] \in {"healthy", "retained"}
      BY <2>1, <1>d, Zenon
    <2>3. \A q \in Op : RetainPrevious(q)' <=> RetainPrevious(q)
      BY <1>b, Zenon DEF RetainPrevious
    <2>4. ASSUME NEW r \in referenced, NEW q \in Op, Holds(q)'
          PROVE  target[q] # r /\ (prev[q] = r => RetainPrevious(q) \/ target[q] # NoOp)
      <3>1. q = o \/ Holds(q)
        BY <2>4, <1>a, Zenon DEF OnlyAdmits
      <3> QED
        BY <3>1, <2>1, <1>d, Zenon DEF IInv, ReferencedReleasesRun
    <2> QED
      BY <2>1, <2>2, <2>3, <2>4, <1>b, Zenon DEF ReferencedReleasesRun
  <1> QED
    BY <1>1, <1>2, <1>3, <1>4, <1>5, <1>6, <1>7, Zenon DEF IInv

(* A verifying report, and the end of the runner's commands. *)
LEMMA StatusStep ==
  ASSUME IInv, NEW o \in Op, HostingStatus(o)
  PROVE  IInv'
  <1> USE DEF HostingStatus, taskVars, portVars, envVars
  <1>1. HTypeOK' /\ Rows'
    BY ZenonT(30) DEF IInv, HTypeOK, Rows, OperationState
  <1>2. \A q \in Op : /\ Open(q)' <=> Open(q)
                      /\ state'[q] = "succeeded" <=> state[q] = "succeeded"
    BY ZenonT(30) DEF IInv, HTypeOK, Open, Terminal
  <1>3. Tasks'
    BY <1>2 DEF IInv, Tasks, HTypeOK
  <1>4. Holding'
    BY DEF IInv, Holding, Holds, HTypeOK, HeldState
  <1>5. OneOpen' /\ Plans' /\ Ledger' /\ Claims' /\ Ports' /\ ReferencedReleasesRun'
    BY <1>2, TablesUntouched, ReferencesUntouched, Zenon
  <1> QED
    BY <1>1, <1>3, <1>4, <1>5, Zenon DEF IInv

LEMMA StopsStep ==
  ASSUME IInv, NEW o \in Op, RunnerStops(o)
  PROVE  IInv'
  <1> USE DEF RunnerStops, opVars, taskVars, portVars, envVars
  <1>1. HTypeOK' /\ Rows'
    BY Zenon DEF IInv, HTypeOK, Rows
  <1>2. Tasks'
    BY Zenon DEF IInv, Tasks, Open
  <1>3. Holding'
    BY Zenon DEF IInv, Holding, Holds
  <1>4. OneOpen' /\ Plans' /\ Ledger' /\ Claims' /\ Ports' /\ ReferencedReleasesRun'
    BY TablesUntouched, ReferencesUntouched, Zenon DEF Open
  <1> QED
    BY <1>1, <1>2, <1>3, <1>4, Zenon DEF IInv

-----------------------------------------------------------------------------
(* A step that moves leases and tasks, and neither starts nor ends an      *)
(* operation, keeps everything but what it says of the tasks.              *)
LEMMA TaskStep ==
  ASSUME IInv,
         \A o \in Op : state'[o] = state[o],
         UNCHANGED <<bind, port, target, release, prev, admitted, result, hold, healthy, claim, slot,
                     ledger, running, referenced, touching>>
  PROVE  Holding' /\ OneOpen' /\ Plans' /\ Ledger' /\ Claims' /\ Ports' /\ ReferencedReleasesRun'
  <1>1. Holding'
    BY Zenon DEF IInv, Holding, Holds
  <1> QED
    BY <1>1, TablesUntouched, ReferencesUntouched, Zenon DEF Open

(* Nor does it change what is said of a task that it leaves alone.         *)
LEMMA OwnTaskKept ==
  ASSUME IInv,
         \A q \in Op : run'[Main(q)] = run[Main(q)] /\ lease'[Main(q)] = lease[Main(q)] /\ state'[q] = state[q],
         UNCHANGED <<result, restoreHeld, handler>>
  PROVE  Tasks'
  BY ZenonT(30) DEF IInv, Tasks, Open

(* A grant keeps the types of the tables and the count of its task. *)
LEMMA GrantTypes ==
  ASSUME IInv, NEW t \in Task, Grant(t)
  PROVE  HTypeOK' /\ Rows'
  <1>1. /\ tries \in [Task -> Nat] /\ tries[t] < Attempts(t) /\ tries' = [tries EXCEPT ![t] = tries[t] + 1]
        /\ \A u \in Task : Attempts(u) \in Nat /\ tries[u] \in 0 .. Attempts(u)
    BY HostingAssumption, Zenon DEF IInv, HTypeOK, Rows, Grant, Attempts
  <1>2. tries' \in [Task -> Nat] /\ \A u \in Task : tries'[u] \in 0 .. Attempts(u)
    BY <1>1
  <1>3. /\ run' = [run EXCEPT ![t] = "running"] /\ lease' = [lease EXCEPT ![t] = "active"]
        /\ UNCHANGED <<opVars, hold, healthy, portVars, envVars, handler, touching>>
    BY Zenon DEF Grant
  <1>4. /\ run' \in [Task -> {"none", "queued", "running", "over"}]
        /\ lease' \in [Task -> {"none", "active", "lapsed", "over"}]
    BY <1>3, Zenon DEF IInv, HTypeOK
  <1>5. HTypeOK'
    BY <1>2, <1>3, <1>4, Zenon DEF IInv, HTypeOK, opVars, portVars, envVars
  <1>6. Rows'
    BY <1>2, <1>3, Zenon DEF IInv, Rows, opVars, portVars, envVars
  <1> QED
    BY <1>5, <1>6, Zenon

(* Claims and renewals of leases. *)
LEMMA ClaimRunStep ==
  ASSUME IInv, NEW t \in Task, ClaimRun(t)
  PROVE  IInv'
  <1> USE TaskFacts DEF ClaimRun, Grant, opVars, portVars, envVars
  <1>1. HTypeOK' /\ Rows'
    BY GrantTypes, ZenonT(30)
  <1>2. Tasks'
    <2>1. ASSUME NEW o \in Op, t = Main(o)
          PROVE  Open(o) /\ result[o] = "none" /\ restoreHeld = {}
      BY <2>1 DEF IInv, HostingClaimAllowed, Gate, Open, Terminal, Tasks, Rows
    <2> QED
      BY <2>1 DEF IInv, Tasks, Open, HTypeOK
  <1>3. Holding' /\ OneOpen' /\ Plans' /\ Ledger' /\ Claims' /\ Ports' /\ ReferencedReleasesRun'
    BY TaskStep, Zenon
  <1> QED
    BY <1>1, <1>2, <1>3, Zenon DEF IInv

LEMMA ClaimObservationStep ==
  ASSUME IInv, NEW o \in Op, ClaimHostingObservation(o)
  PROVE  IInv'
  <1> USE TaskFacts DEF ClaimHostingObservation, Grant, opVars, portVars, envVars
  <1>1. HTypeOK' /\ Rows'
    BY GrantTypes, Zenon
  <1>2. Tasks'
    <2>1. \A q \in Op : run'[Main(q)] = run[Main(q)] /\ lease'[Main(q)] = lease[Main(q)]
      BY Zenon DEF IInv, HTypeOK
    <2> QED
      BY <2>1, OwnTaskKept, Zenon
  <1>3. Holding' /\ OneOpen' /\ Plans' /\ Ledger' /\ Claims' /\ Ports' /\ ReferencedReleasesRun'
    BY TaskStep, Zenon
  <1> QED
    BY <1>1, <1>2, <1>3, Zenon DEF IInv

LEMMA LapseStep ==
  ASSUME IInv, NEW t \in Task, Lapse(t)
  PROVE  IInv'
  <1> USE TaskFacts DEF Lapse, Live, opVars, portVars, envVars
  <1>1. HTypeOK' /\ Rows'
    BY Zenon DEF IInv, HTypeOK, Rows
  <1>2. Tasks'
    <2>1. \A q \in Op : /\ lease'[Main(q)] \in {"active", "lapsed"} <=> lease[Main(q)] \in {"active", "lapsed"}
                        /\ lease'[Main(q)] = "none" <=> lease[Main(q)] = "none"
      BY ZenonT(30) DEF IInv, HTypeOK
    <2> HIDE DEF opVars
    <2>2. UNCHANGED <<state, result>>
      BY Zenon DEF opVars
    <2> QED
      BY <2>1, <2>2, Zenon DEF IInv, Tasks, Open
  <1>3. Holding' /\ OneOpen' /\ Plans' /\ Ledger' /\ Claims' /\ Ports' /\ ReferencedReleasesRun'
    BY TaskStep, Zenon
  <1> QED
    BY <1>1, <1>2, <1>3, Zenon DEF IInv

(* An observation is requested; nothing that it sees settles a hold, since *)
(* an operation with a certain result has given its hold up.               *)
LEMMA ReconciliationRequestStep ==
  ASSUME IInv, NEW o \in Op, RequestHostingReconciliation(o)
  PROVE  IInv'
  <1> USE TaskFacts DEF RequestHostingReconciliation, portVars, envVars
  <1>1. HTypeOK' /\ Rows'
    BY DEF IInv, HTypeOK, Rows
  <1>2. Tasks'
    <2>1. \A q \in Op : run'[Main(q)] = run[Main(q)] /\ lease'[Main(q)] = lease[Main(q)]
      BY Zenon DEF IInv, HTypeOK
    <2> QED
      BY <2>1, OwnTaskKept, Zenon
  <1>3. Holding' /\ OneOpen' /\ Plans' /\ Ledger' /\ Claims' /\ Ports' /\ ReferencedReleasesRun'
    BY TaskStep, Zenon
  <1> QED
    BY <1>1, <1>2, <1>3, Zenon DEF IInv

LEMMA ObservationNeverSettles ==
  ASSUME IInv, NEW o \in Op
  PROVE  ~ObservationSettles(o)
  BY Zenon DEF IInv, Holding, ObservationSettles

LEMMA ReconciliationStep ==
  ASSUME IInv, NEW o \in Op, HostingReconciliation(o)
  PROVE  IInv'
  <1>0. ~ObservationSettles(o)
    BY ObservationNeverSettles, Zenon
  <1>1. state' = state /\ hold' = hold /\ healthy' = healthy
    <2>1. /\ state' = [state EXCEPT ![o] = state[o]]
          /\ hold' = [hold EXCEPT ![bind[o]] = hold[bind[o]]]
          /\ healthy' = [healthy EXCEPT ![bind[o]] = healthy[bind[o]]]
      BY <1>0, Zenon DEF HostingReconciliation
    <2> QED
      BY <2>1, Zenon DEF IInv, HTypeOK
  <1>2. /\ Settle(Observe(o)) /\ requested' = requested \ {o}
        /\ UNCHANGED <<bind, port, target, release, prev, admitted, result, portVars, envVars,
                       handler, touching>>
    BY Zenon DEF HostingReconciliation
  <1> USE <1>1, <1>2, TaskFacts DEF Settle, portVars, envVars
  <1>3. HTypeOK' /\ Rows'
    BY Zenon DEF IInv, HTypeOK, Rows
  <1>4. Tasks'
    <2>1. \A q \in Op : run'[Main(q)] = run[Main(q)] /\ lease'[Main(q)] = lease[Main(q)]
      BY Zenon DEF IInv, HTypeOK
    <2> QED
      BY <2>1, OwnTaskKept, Zenon
  <1>5. Holding' /\ OneOpen' /\ Plans' /\ Ledger' /\ Claims' /\ Ports' /\ ReferencedReleasesRun'
    BY TaskStep, Zenon
  <1> QED
    BY <1>3, <1>4, <1>5, Zenon DEF IInv

(* Leases expire: an operation that holds its binding is left to an        *)
(* operator, another one goes back to the queue.                           *)
LEMMA RequeueStep ==
  ASSUME IInv, NEW S \in SUBSET Task, \A t \in S : lease[t] \in {"active", "lapsed"},
         RequeueExpiredRuns(S),
         restoreHeld' = restoreHeld \/ (restoreHeld' = Binding /\ \A t \in Task \ S : lease[t] \notin {"active", "lapsed"}),
         handler' \in SUBSET handler,
         UNCHANGED <<bind, port, target, release, prev, admitted, result, requested, tries, healthy,
                     portVars, referenced, granted, runnerActive, touching>>
  PROVE  IInv'
  <1> USE TaskFacts DEF RequeueExpiredRuns, portVars
  <1>0. \A o \in Op : Main(o) \in S => Open(o) /\ result[o] = "none"
    BY Zenon DEF IInv, Tasks
  <1>1. HTypeOK' /\ Rows'
    <2>1. restoreHeld' \in {{}, Binding}
      BY Zenon DEF IInv, Rows
    <2>2. Rows'
      BY <1>0, <2>1, Zenon DEF IInv, HTypeOK, Rows, Open
    <2>3. /\ \A t \in Task : /\ lease[t] \in {"none", "active", "lapsed", "over"}
                             /\ run[t] \in {"none", "queued", "running", "over"}
          /\ state \in [Op -> OperationState] /\ restoreHeld' \subseteq Binding /\ handler' \subseteq Op
      BY <2>1, ZenonT(30) DEF IInv, HTypeOK
    <2>4. lease' \in [Task -> {"none", "active", "lapsed", "over"}]
      BY <2>3, Zenon
    <2>5. run' \in [Task -> {"none", "queued", "running", "over"}]
      BY <2>3, Zenon
    <2>6. state' \in [Op -> OperationState]
      BY <2>3, Zenon DEF OperationState
    <2>7. HTypeOK'
      BY <2>3, <2>4, <2>5, <2>6, Zenon DEF IInv, HTypeOK
    <2> QED
      BY <2>2, <2>7, Zenon
  <1>2. \A o \in Op : /\ Open(o)' <=> Open(o)
                      /\ state'[o] = "succeeded" <=> state[o] = "succeeded"
    BY <1>0, Zenon DEF Open, Terminal
  <1>3. Tasks'
    BY <1>0, <1>2, Zenon DEF IInv, Tasks, HTypeOK, Open, Terminal
  <1>4. Holding'
    <2>1. \A o \in Op : Main(o) \in S => (state'[o] \in HeldState <=> Holds(o))
      BY Zenon DEF HeldState
    <2> QED
      BY <2>1, Zenon DEF IInv, Holding, Holds
  <1>5. OneOpen' /\ Plans' /\ Ledger' /\ Claims' /\ Ports' /\ ReferencedReleasesRun'
    BY <1>2, TablesUntouched, ReferencesUntouched, Zenon
  <1> QED
    BY <1>1, <1>3, <1>4, <1>5, Zenon DEF IInv

LEMMA ExpireStep ==
  ASSUME IInv, NEW t \in Task, ExpireRun(t)
  PROVE  IInv'
  BY RequeueStep, Zenon DEF ExpireRun, envVars

LEMMA RestoreStep ==
  ASSUME IInv, Restore
  PROVE  IInv'
  BY RequeueStep, Zenon DEF Restore

-----------------------------------------------------------------------------

(* Routes, grants and the runner's status. *)
LEMMA RouteStep ==
  ASSUME IInv, NEW b \in Binding, RequestHostingRoute(b)
  PROVE  IInv'
  <1> USE DEF RequestHostingRoute, opVars, taskVars, portVars
  <1>0. healthy[b] \in Op /\ bind[healthy[b]] = b
    BY ZenonT(30) DEF IInv, HTypeOK, Ledger
  <1>1. HTypeOK' /\ Rows' /\ Tasks'
    BY <1>0 DEF IInv, HTypeOK, Rows, Tasks, Open
  <1>2. Holding'
    BY Zenon DEF IInv, Holding, Holds
  <1>3. OneOpen' /\ Plans' /\ Ledger' /\ Claims' /\ Ports'
    BY TablesUntouched, Zenon DEF Open
  <1>4. \A o \in Op : Holds(o) => bind[o] # b
    BY HostingAssumption, ZenonT(30) DEF Holds
  <1>5. ReferencedReleasesRun'
    BY <1>0, <1>4, HostingAssumption DEF IInv, ReferencedReleasesRun, HTypeOK, Plans, Holds,
        RetainPrevious
  <1> QED
    BY <1>1, <1>2, <1>3, <1>5, Zenon DEF IInv

LEMMA WithdrawStep ==
  ASSUME IInv, NEW o \in Op, WithdrawRoute(o)
  PROVE  IInv'
  <1> USE DEF WithdrawRoute, opVars, taskVars, portVars
  <1>1. HTypeOK' /\ Rows' /\ Tasks'
    BY Zenon DEF IInv, HTypeOK, Rows, Tasks, Open
  <1>2. Holding'
    BY Zenon DEF IInv, Holding, Holds
  <1>3. OneOpen' /\ Plans' /\ Ledger' /\ Claims' /\ Ports'
    BY TablesUntouched, Zenon DEF Open
  <1>4. ReferencedReleasesRun'
    BY ZenonT(30) DEF IInv, ReferencedReleasesRun, Holds, RetainPrevious
  <1> QED
    BY <1>1, <1>2, <1>3, <1>4, Zenon DEF IInv

LEMMA EnvironmentStep ==
  ASSUME IInv, ChangeRunner \/ \E b \in Binding : ChangeGrant(b)
  PROVE  IInv'
  <1>1. /\ UNCHANGED <<opVars, taskVars, hold, healthy, portVars, referenced, restoreHeld, handler, touching>>
        /\ granted' \subseteq Binding
    BY Zenon DEF ChangeRunner, ChangeGrant, IInv, HTypeOK
  <1>2. runnerActive' \in BOOLEAN
    BY Zenon DEF ChangeRunner, ChangeGrant, IInv, HTypeOK
  <1> USE <1>1 DEF opVars, taskVars, portVars
  <1>3. HTypeOK' /\ Rows' /\ Tasks'
    BY <1>2, Zenon DEF IInv, HTypeOK, Rows, Tasks, Open
  <1>4. Holding' /\ OneOpen' /\ Plans' /\ Ledger' /\ Claims' /\ Ports' /\ ReferencedReleasesRun'
    BY TaskStep, Zenon
  <1> QED
    BY <1>3, <1>4, Zenon DEF IInv

(* An operation that ends without success gives its reservation back and   *)
(* changes no release.                                                     *)
LEMMA TablesAfterEnd ==
  ASSUME IInv, NEW o \in Op, Open(o),
         \A q \in Op : Open(q)' <=> Open(q) /\ q # o,
         \A q \in Op : state'[q] = "succeeded" <=> state[q] = "succeeded",
         claim' = ReleaseHostingFailedClaim(o),
         UNCHANGED <<bind, port, target, healthy, slot, ledger, running>>
  PROVE  Ledger' /\ Claims' /\ Ports'
  <1>1. /\ claim'[o] \in {"none", "released"}
        /\ \A q \in Op : q # o => claim'[q] = claim[q]
    BY ZenonT(30) DEF IInv, HTypeOK, ReleaseHostingFailedClaim
  <1>2. ~Reserved(o)' /\ \A q \in Op : q # o => (Reserved(q)' <=> Reserved(q))
    BY <1>1, Zenon DEF Reserved
  <1>3. ledger[o] # "healthy"
    BY Zenon DEF IInv, Ledger, Open, Terminal
  <1>4. Ledger'
    <2>1. \A q \in Op : ledger[q] = "healthy" => claim'[q] = claim[q]
      BY <1>1, <1>3, Zenon
    <2>2. ASSUME NEW q \in Op
          PROVE  /\ ledger'[q] = "healthy" =>
                       healthy'[bind'[q]] = q /\ q \in running' /\ claim'[q] = "retained"
                 /\ ledger'[q] # "none" => state'[q] = "succeeded" /\ target'[q] = NoOp
      <3>1. /\ ledger[q] = "healthy" => healthy[bind[q]] = q /\ q \in running /\ claim[q] = "retained"
            /\ ledger[q] # "none" => state[q] = "succeeded" /\ target[q] = NoOp
        BY Zenon DEF IInv, Ledger
      <3> QED
        BY <2>1, <3>1, Zenon
    <2>3. \A b \in Binding : healthy'[b] # NoOp => bind'[healthy'[b]] = b /\ ledger'[healthy'[b]] = "healthy"
      BY Zenon DEF IInv, Ledger
    <2> QED
      BY <2>2, <2>3, Zenon DEF Ledger
  <1>5. Claims'
    BY <1>1, <1>2, Zenon DEF IInv, Claims
  <1>6. Ports'
    BY <1>2, Zenon DEF IInv, Ports, Listed
  <1> QED
    BY <1>4, <1>5, <1>6, Zenon

(* A cancellation ends an operation that holds nothing, and leaves the     *)
(* hold of one that does.                                                  *)
LEMMA CancelStep ==
  ASSUME IInv, NEW o \in Op, CancelHostingOperation(o)
  PROVE  IInv'
  <1>0. /\ Open(o)
        /\ UNCHANGED <<bind, port, target, release, prev, admitted, result, tries, hold, healthy,
                       slot, ledger, running, referenced, restoreHeld, handler, touching>>
        /\ claim' = IF Holds(o) THEN claim ELSE ReleaseHostingFailedClaim(o)
    BY Zenon DEF Open, CancelHostingOperation, envVars
  <1>a. /\ state'[o] = IF Holds(o) THEN "cancel_requested" ELSE "canceled"
        /\ \A q \in Op : q # o => state'[q] = state[q]
    BY Zenon DEF CancelHostingOperation, IInv, HTypeOK
  <1>b. /\ \A q \in Op : q # o => run'[Main(q)] = run[Main(q)] /\ lease'[Main(q)] = lease[Main(q)]
        /\ run'[Main(o)] \in {"none", "over"} /\ lease'[Main(o)] \notin {"active", "lapsed"}
        /\ run'[Main(o)] = "none" => lease'[Main(o)] = "none"
    <2>1. \A q \in Op : q # o => run'[Main(q)] = run[Main(q)] /\ lease'[Main(q)] = lease[Main(q)]
      BY TaskFacts, ZenonT(30) DEF CancelHostingOperation
    <2>2. CASE run[Main(o)] = "none"
      <3>1. run'[Main(o)] = "none" /\ lease'[Main(o)] = lease[Main(o)] /\ lease[Main(o)] = "none"
        BY <2>2, TaskFacts, Zenon DEF CancelHostingOperation, IInv, Tasks
      <3> QED
        BY <2>1, <3>1, Zenon
    <2>3. CASE run[Main(o)] # "none"
      <3>1. /\ run'[Main(o)] = "over"
            /\ lease'[Main(o)] = IF lease[Main(o)] \in {"active", "lapsed"} THEN "over" ELSE lease[Main(o)]
        BY <2>3, TaskFacts, Zenon DEF CancelHostingOperation
      <3>2. lease'[Main(o)] \notin {"active", "lapsed"}
        BY <3>1
      <3> QED
        BY <2>1, <3>1, <3>2, Zenon
    <2> QED
      BY <2>2, <2>3, Zenon
  <1>1. HTypeOK'
    BY TaskFacts, Zenon
       DEF CancelHostingOperation, ReleaseHostingFailedClaim, envVars, IInv, HTypeOK, OperationState, Terminal
  <1>2. Rows'
    <2>1. \A q \in Op : q # o => claim'[q] = claim[q]
      BY <1>0, Zenon DEF IInv, HTypeOK, ReleaseHostingFailedClaim
    <2>2. state[o] # "absent" /\ state'[o] # "absent"
      BY <1>0, <1>a, Zenon DEF Open
    <2> QED
      BY <1>0, <1>a, <2>1, <2>2, Zenon DEF IInv, Rows
  <1>3. Tasks'
    <2>1. o \in handler => state'[o] = "canceled"
      <3>1. o \in handler => state[o] = "queued"
        BY <1>0, Zenon DEF IInv, Tasks, Open, Terminal
      <3>2. state[o] = "queued" => ~Holds(o)
        BY Zenon DEF IInv, Holding, HeldState
      <3> QED
        BY <1>a, <3>1, <3>2, Zenon
    <2>2. /\ state'[o] \notin {"absent", "queued", "dispatched", "preparing", "prepared"}
          /\ run'[Main(o)] # "queued"
      BY <1>a, <1>b, Zenon
    <2>3. \A q \in Op : q # o => (Open(q)' <=> Open(q))
      BY <1>a, Zenon DEF Open
    <2> QED
      <3> SUFFICES ASSUME NEW q \in Op
                   PROVE  /\ state'[q] \in {"absent", "queued"} => run'[Main(q)] = "none"
                          /\ state'[q] \in {"absent", "queued", "dispatched", "preparing", "prepared"} =>
                                result'[q] = "none"
                          /\ run'[Main(q)] = "none" => lease'[Main(q)] = "none"
                          /\ run'[Main(q)] = "queued" => result'[q] = "none"
                          /\ lease'[Main(q)] \in {"active", "lapsed"} =>
                                Open(q)' /\ result'[q] = "none" /\ restoreHeld' = {}
                          /\ q \in handler' => state'[q] \in {"queued", "canceled"}
        BY Zenon DEF Tasks
      <3>1. CASE q = o
        BY <3>1, <1>0, <1>b, <2>1, <2>2, Zenon
      <3>2. CASE q # o
        BY <3>2, <1>0, <1>a, <1>b, <2>3, ZenonT(30) DEF IInv, Tasks
      <3> QED
        BY <3>1, <3>2, Zenon
  <1>4. Holding'
    <2>1. \A q \in Op : Holds(q)' <=> Holds(q)
      BY <1>0, Zenon DEF Holds
    <2>2. \A q \in Op : state'[q] \in HeldState <=> Holds(q)
      BY <1>a, Zenon DEF IInv, Holding, HeldState
    <2> QED
      BY <1>0, <2>1, <2>2, Zenon DEF IInv, Holding
  <1>5. OneOpen' /\ Plans' /\ Ledger' /\ Claims' /\ Ports'
    <2>1. \A q \in Op : state'[q] = "succeeded" <=> state[q] = "succeeded"
      BY <1>0, <1>a, Zenon DEF Open, Terminal
    <2>2. CASE Holds(o)
      <3>1. \A q \in Op : Open(q)' <=> Open(q)
        BY <1>0, <1>a, <2>2, Zenon DEF Open, Terminal
      <3> QED
        BY <1>0, <2>1, <2>2, <3>1, TablesUntouched, Zenon
    <2>3. CASE ~Holds(o)
      <3>1. \A q \in Op : Open(q)' <=> Open(q) /\ q # o
        BY <1>a, <2>3, Zenon DEF Open, Terminal
      <3>2. Ledger' /\ Claims' /\ Ports'
        BY <1>0, <2>1, <2>3, <3>1, TablesAfterEnd, Zenon
      <3>3. OneOpen'
        BY <1>0, <3>1, Zenon DEF IInv, OneOpen
      <3>4. Plans'
        BY <1>0, <3>1, Zenon DEF IInv, Plans, Holds
      <3> QED
        BY <3>2, <3>3, <3>4, Zenon
    <2> QED
      BY <2>2, <2>3, Zenon
  <1>6. ReferencedReleasesRun'
    BY <1>0, ReferencesUntouched, Zenon
  <1> QED
    BY <1>1, <1>2, <1>3, <1>4, <1>5, <1>6, Zenon DEF IInv

-----------------------------------------------------------------------------
(* What a report of the runner can rely on: the operation is under way and *)
(* has not reported, and no other one of its binding is under way.         *)
LEMMA ReportFacts ==
  ASSUME IInv, NEW o \in Op, Live(Main(o))
  PROVE  /\ Open(o) /\ result[o] = "none" /\ bind[o] \in Binding /\ port[o] \in Port
         /\ o \notin handler
         /\ \A q \in Op : Open(q) /\ bind[q] = bind[o] => q = o
         /\ \A q \in Op : Holds(q) /\ bind[q] = bind[o] => q = o
  <1>1. Open(o) /\ result[o] = "none"
    BY Zenon DEF IInv, Tasks, Live
  <1>2. bind[o] \in Binding /\ port[o] \in Port
    BY <1>1, Zenon DEF IInv, Rows, Open
  <1>3. o \notin handler
    <2>1. state[o] # "queued"
      BY Zenon DEF IInv, Tasks, Live
    <2> QED
      BY <2>1, <1>1, Zenon DEF IInv, Tasks, Open, Terminal
  <1>4. \A q \in Op : Open(q) /\ bind[q] = bind[o] => q = o
    BY <1>1, Zenon DEF IInv, OneOpen
  <1>5. \A q \in Op : Holds(q) => Open(q)
    BY Zenon DEF IInv, Holding, HeldState, Open, Terminal
  <1> QED
    BY <1>1, <1>2, <1>3, <1>4, <1>5, Zenon

(* The rows that any completion writes: task, lease, result and state. *)
LEMMA CompletionTasks ==
  ASSUME IInv, NEW o \in Op, Live(Main(o)), NEW s \in Terminal \cup {"reconciliation_required"},
         state' = [state EXCEPT ![o] = s], Settle(Main(o)), NEW res, result' = [result EXCEPT ![o] = res],
         UNCHANGED <<handler, restoreHeld>>
  PROVE  Tasks'
  <1> USE TaskFacts DEF Settle
  <1>1. /\ \A q \in Op \ {o} : UNCHANGED <<state[q], run[Main(q)], lease[Main(q)], result[q]>>
        /\ state'[o] = s /\ run'[Main(o)] = "over" /\ lease'[Main(o)] = "over"
    BY DEF IInv, HTypeOK
  <1> QED
    <2>1. o \notin handler /\ s \notin {"absent", "queued", "dispatched", "preparing", "prepared"}
      BY ReportFacts, Zenon DEF Terminal
    <2>2. \A q \in Op : q # o => (Open(q)' <=> Open(q))
      BY <1>1, Zenon DEF Open
    <2>3. \A q \in Op : q # o => UNCHANGED <<state[q], run[Main(q)], lease[Main(q)], result[q]>>
      BY <1>1, Zenon
    <2>4. /\ run'[Main(o)] \notin {"none", "queued"} /\ lease'[Main(o)] \notin {"active", "lapsed"}
          /\ state'[o] \notin {"absent", "queued", "dispatched", "preparing", "prepared"}
      BY <1>1, <2>1
    <2> SUFFICES ASSUME NEW q \in Op
                 PROVE  /\ state'[q] \in {"absent", "queued"} => run'[Main(q)] = "none"
                        /\ state'[q] \in {"absent", "queued", "dispatched", "preparing", "prepared"} =>
                              result'[q] = "none"
                        /\ run'[Main(q)] = "none" => lease'[Main(q)] = "none"
                        /\ run'[Main(q)] = "queued" => result'[q] = "none"
                        /\ lease'[Main(q)] \in {"active", "lapsed"} =>
                              Open(q)' /\ result'[q] = "none" /\ restoreHeld' = {}
                        /\ q \in handler' => state'[q] \in {"queued", "canceled"}
      BY Zenon DEF Tasks
    <2>5. CASE q = o
      BY <2>1, <2>4, <2>5, Zenon
    <2>6. CASE q # o
      <3>1. /\ state[q] \in {"absent", "queued"} => run[Main(q)] = "none"
            /\ state[q] \in {"absent", "queued", "dispatched", "preparing", "prepared"} => result[q] = "none"
            /\ run[Main(q)] = "none" => lease[Main(q)] = "none"
            /\ run[Main(q)] = "queued" => result[q] = "none"
            /\ lease[Main(q)] \in {"active", "lapsed"} => Open(q) /\ result[q] = "none" /\ restoreHeld = {}
            /\ q \in handler => state[q] \in {"queued", "canceled"}
        BY Zenon DEF IInv, Tasks
      <3>2. /\ state'[q] = state[q] /\ run'[Main(q)] = run[Main(q)] /\ lease'[Main(q)] = lease[Main(q)]
            /\ result'[q] = result[q] /\ handler' = handler /\ restoreHeld' = restoreHeld
        BY <2>3, <2>6, ZenonT(30)
      <3> QED
        BY <2>2, <2>6, <3>1, <3>2, Zenon
    <2> QED
      BY <2>5, <2>6, ZenonT(30)

(* The rows that any completion leaves in agreement with its state. *)
LEMMA CompletionRows ==
  ASSUME IInv, NEW o \in Op, Open(o), NEW s \in Terminal \cup {"reconciliation_required"},
         state' = [state EXCEPT ![o] = s],
         \A q \in Op : state[q] = "absent" => claim'[q] = claim[q],
         UNCHANGED <<bind, port, target, release, prev, tries, restoreHeld>>
  PROVE  Rows'
  <1>1. \A q \in Op : state'[q] = "absent" <=> state[q] = "absent"
    BY Zenon DEF IInv, HTypeOK, Open, Terminal
  <1> QED
    BY <1>1, Zenon DEF IInv, Rows

(* A report that leaves the host in doubt keeps the hold and the claim. *)
LEMMA UnsettledStep ==
  ASSUME IInv, NEW o \in Op, NEW res \in Result, Holds(o), Live(Main(o)), Settle(Main(o)),
         o \in release => res \notin {"succeeded", "restored"},
         result' = [result EXCEPT ![o] = res],
         state' = [state EXCEPT ![o] = "reconciliation_required"],
         UNCHANGED <<bind, port, target, release, prev, admitted, requested, hold, healthy, portVars,
                     envVars, handler, touching>>
  PROVE  IInv'
  <1>1. Open(o) /\ result[o] = "none" /\ bind[o] \in Binding
    BY ReportFacts, Zenon
  <1> USE DEF envVars, portVars
  <1>2. HTypeOK'
    BY Zenon DEF IInv, HTypeOK, Settle, OperationState
  <1>3. Rows'
    BY <1>1, CompletionRows, Zenon DEF Settle
  <1>4. Tasks'
    BY CompletionTasks, Zenon
  <1>5. /\ state'[o] = "reconciliation_required" /\ result'[o] = res
        /\ \A q \in Op : q # o => state'[q] = state[q] /\ result'[q] = result[q]
    BY Zenon DEF IInv, HTypeOK
  <1>6. Holding'
    <2>1. \A q \in Op : Holds(q)' <=> Holds(q)
      BY Zenon DEF Holds
    <2>2. \A q \in Op : state'[q] \in HeldState <=> Holds(q)
      BY <1>5, Zenon DEF IInv, Holding, HeldState
    <2>3. \A q \in Op : Holds(q) /\ q \in release => result'[q] \notin {"succeeded", "restored"}
      BY <1>5, Zenon DEF IInv, Holding
    <2> QED
      BY <2>1, <2>2, <2>3, Zenon DEF IInv, Holding
  <1>7. \A q \in Op : /\ Open(q)' <=> Open(q)
                      /\ state'[q] = "succeeded" <=> state[q] = "succeeded"
    BY <1>1, <1>5, Zenon DEF Open, Terminal
  <1>8. OneOpen' /\ Plans' /\ Ledger' /\ Claims' /\ Ports' /\ ReferencedReleasesRun'
    BY <1>7, TablesUntouched, ReferencesUntouched, Zenon
  <1> QED
    BY <1>2, <1>3, <1>4, <1>6, <1>8, Zenon DEF IInv

LEMMA CompleteUnsettledStep ==
  ASSUME IInv, NEW o \in Op, NEW res \in Result, HostingComplete(o, res), Unsettled(o, res)
  PROVE  IInv'
  <1>1. /\ res \in {"failed", "uncertain"} /\ Holds(o) /\ Live(Main(o)) /\ Settle(Main(o))
        /\ result' = [result EXCEPT ![o] = res]
        /\ state' = [state EXCEPT ![o] = "reconciliation_required"]
        /\ UNCHANGED <<bind, port, target, release, prev, admitted, requested, portVars, envVars,
                       handler, touching>>
    BY Zenon DEF HostingComplete, Unsettled, OutcomeState, portVars
  <1>2. UNCHANGED <<hold, healthy>>
    <2>1. /\ hold' = [hold EXCEPT ![bind[o]] = hold[bind[o]]]
          /\ healthy' = [healthy EXCEPT ![bind[o]] = healthy[bind[o]]]
      BY Zenon DEF HostingComplete, Unsettled
    <2> QED
      BY <2>1, Zenon DEF IInv, HTypeOK
  <1> QED
    BY <1>1, <1>2, UnsettledStep, Zenon

(* A completion that ends the hold of its operation, if it had one. *)
EndsHold(o, s) ==
    /\ state' = [state EXCEPT ![o] = s]
    /\ hold' = [hold EXCEPT ![bind[o]] = IF @ = o THEN NoOp ELSE @]
    /\ UNCHANGED <<bind, port, target, release, prev, admitted, touching>>

LEMMA EndsHoldFacts ==
  ASSUME IInv, NEW o \in Op, Live(Main(o)), NEW s \in Terminal, EndsHold(o, s),
         o \notin touching, NEW res, result' = [result EXCEPT ![o] = res]
  PROVE  /\ \A q \in Op : Holds(q)' <=> Holds(q) /\ q # o
         /\ \A q \in Op : Open(q)' <=> Open(q) /\ q # o
         /\ Holding' /\ OneOpen'
  <1>0. Open(o) /\ bind[o] \in Binding
    BY ReportFacts, Zenon
  <1> USE DEF EndsHold
  <1>1. \A q \in Op : Holds(q)' <=> Holds(q) /\ q # o
    BY <1>0, HostingAssumption DEF IInv, HTypeOK, Holds
  <1>2. \A q \in Op : Open(q)' <=> Open(q) /\ q # o
    BY <1>0, Zenon DEF IInv, HTypeOK, Open
  <1>3. \A b \in Binding : hold'[b] # NoOp => bind'[hold'[b]] = b
    BY Zenon DEF IInv, HTypeOK, Holding
  <1>4. \A q \in Op : state'[q] \in HeldState <=> Holds(q)'
    <2>1. state'[o] = s /\ \A q \in Op : q # o => state'[q] = state[q]
      BY ZenonT(30) DEF IInv, HTypeOK
    <2>2. s \notin HeldState
      BY Zenon DEF HeldState, Terminal
    <2> QED
      BY <1>1, <2>1, <2>2, Zenon DEF IInv, Holding
  <1>5. Holding'
    BY <1>1, <1>3, <1>4 DEF IInv, HTypeOK, Holding
  <1>6. OneOpen'
    BY <1>2, Zenon DEF IInv, OneOpen
  <1> QED
    BY <1>1, <1>2, <1>5, <1>6, Zenon

LEMMA CompleteFailedStep ==
  ASSUME IInv, NEW o \in Op, NEW res \in Result, HostingComplete(o, res), ~Unsettled(o, res),
         res # "succeeded"
  PROVE  IInv'
  <1>1. /\ Live(Main(o)) /\ Settle(Main(o)) /\ result' = [result EXCEPT ![o] = res]
        /\ EndsHold(o, "failed") /\ claim' = ReleaseHostingFailedClaim(o)
        /\ UNCHANGED <<requested, firstPort, slot, envVars, handler, ledger, running>>
    BY Zenon DEF HostingComplete, OutcomeState, EndsHold
  <1>2. healthy' = healthy
    <2>1. healthy' = [healthy EXCEPT ![bind[o]] = healthy[bind[o]]]
      BY Zenon DEF HostingComplete
    <2> QED
      BY <2>1, Zenon DEF IInv, HTypeOK
  <1>3. o \notin touching
    BY Zenon DEF HostingComplete, Unsettled, Result, IInv, Holding
  <1>4. Open(o) /\ bind[o] \in Binding
    BY <1>1, ReportFacts, Zenon
  <1>5. /\ \A q \in Op : Holds(q)' <=> Holds(q) /\ q # o
        /\ \A q \in Op : Open(q)' <=> Open(q) /\ q # o
        /\ Holding' /\ OneOpen'
    BY <1>1, <1>3, EndsHoldFacts, Zenon DEF Terminal
  <1> USE <1>1, <1>2, <1>4, <1>5, TaskFacts DEF envVars, EndsHold, ReleaseHostingFailedClaim
  <1>6. HTypeOK'
    BY Zenon DEF IInv, HTypeOK, Settle, OperationState, Terminal
  <1>7. Rows'
    <2>1. \A q \in Op : q # o => claim'[q] = claim[q]
      BY Zenon DEF IInv, HTypeOK
    <2>2. state[o] # "absent"
      BY Zenon DEF Open
    <2> QED
      BY <2>1, <2>2, CompletionRows, Zenon DEF Settle, Terminal
  <1>8. Tasks'
    BY CompletionTasks, Zenon DEF Terminal
  <1>9. Plans'
    BY Zenon DEF IInv, Plans
  <1>10. Ledger' /\ Claims' /\ Ports'
    <2>1. \A q \in Op : state'[q] = "succeeded" <=> state[q] = "succeeded"
      <3>1. state'[o] = "failed" /\ \A q \in Op : q # o => state'[q] = state[q]
        BY ZenonT(30) DEF IInv, HTypeOK
      <3> QED
        BY <3>1, Zenon DEF Open, Terminal
    <2> QED
      BY <2>1, TablesAfterEnd, Zenon
  <1>11. ReferencedReleasesRun'
    BY Zenon DEF IInv, ReferencedReleasesRun, RetainPrevious
  <1> QED
    BY <1>5, <1>6, <1>7, <1>8, <1>9, <1>10, <1>11, Zenon DEF IInv

(* A success makes the release the healthy one of its binding, in place of *)
(* the one its plan names.                                                 *)
LEMMA CompleteSucceededStep ==
  ASSUME IInv, NEW o \in Op, HostingComplete(o, "succeeded")
  PROVE  IInv'
  <1>1. /\ Live(Main(o)) /\ Settle(Main(o)) /\ result' = [result EXCEPT ![o] = "succeeded"]
        /\ EndsHold(o, "succeeded") /\ claim' = [claim EXCEPT ![o] = "retained"]
        /\ healthy' = [healthy EXCEPT ![bind[o]] = o]
        /\ ledger' = LedgerAfterSuccess(o)
        /\ running' = IF RetainPrevious(o) THEN running \cup {o} ELSE (running \ {prev[o]}) \cup {o}
        /\ target[o] = NoOp /\ Holds(o) /\ o \notin touching
        /\ UNCHANGED <<requested, firstPort, slot, envVars, handler>>
    BY Zenon DEF HostingComplete, OutcomeState, EndsHold, Unsettled
  <1>2. /\ Open(o) /\ bind[o] \in Binding /\ port[o] \in Port
        /\ \A q \in Op : Open(q) /\ bind[q] = bind[o] => q = o
    BY <1>1, ReportFacts, Zenon
  <1>3. /\ \A q \in Op : Holds(q)' <=> Holds(q) /\ q # o
        /\ \A q \in Op : Open(q)' <=> Open(q) /\ q # o
        /\ Holding' /\ OneOpen'
    BY <1>1, EndsHoldFacts, Zenon DEF Terminal
  <1>4. prev[o] = healthy[bind[o]] /\ ledger[o] = "none" /\ Reserved(o)
    BY <1>1, <1>2, Zenon DEF IInv, Holding, Plans, Ledger, Claims, Open, Terminal
  <1>5. HTypeOK'
    BY <1>1, <1>2, ZenonT(20) DEF IInv, HTypeOK, Settle, OperationState, Terminal, Result,
        LedgerAfterSuccess, envVars, EndsHold
  <1>a. /\ ledger'[o] = "healthy" /\ claim'[o] = "retained" /\ state'[o] = "succeeded"
        /\ healthy'[bind[o]] = o
    BY <1>1, <1>2, Zenon DEF LedgerAfterSuccess, EndsHold, IInv, HTypeOK
  <1>b. \A q \in Op : q # o => /\ ledger'[q] = IF q = prev[o] /\ ledger[q] = "healthy" THEN "retained" ELSE ledger[q]
                               /\ claim'[q] = claim[q] /\ state'[q] = state[q]
    BY <1>1, Zenon DEF LedgerAfterSuccess, EndsHold, IInv, HTypeOK
  <1>c. \A b \in Binding : b # bind[o] => healthy'[b] = healthy[b]
    BY <1>1, ZenonT(30) DEF IInv, HTypeOK
  <1>d. /\ prev[o] # o
        /\ \A q \in Op : ledger[q] = "healthy" => bind[q] \in Binding /\ (bind[q] = bind[o] <=> q = prev[o])
        /\ \A q \in Op : Open(q) => bind[q] \in Binding
    BY <1>2, <1>4, HostingAssumption DEF IInv, Ledger, Rows, Open, HTypeOK
  <1>e. /\ UNCHANGED <<bind, port, target, release, prev, slot, referenced, handler, restoreHeld, tries>>
        /\ running' = IF RetainPrevious(o) THEN running \cup {o} ELSE (running \ {prev[o]}) \cup {o}
    BY <1>1, Zenon DEF EndsHold, envVars, Settle
  <1>6. Rows'
    <2>1. \A q \in Op : state[q] = "absent" => claim'[q] = claim[q]
      BY <1>b, <1>2, Zenon DEF Open
    <2> QED
      BY <2>1, <1>1, <1>2, <1>e, CompletionRows, Zenon DEF Terminal, EndsHold
  <1>7. Tasks'
    BY <1>1, <1>e, CompletionTasks, Zenon DEF Terminal, EndsHold
  <1>f. \A q \in Op : q # o => /\ ledger'[q] = "healthy" => ledger[q] = "healthy" /\ q # prev[o]
                               /\ ledger'[q] = "none" <=> ledger[q] = "none"
                               /\ ledger'[q] = "cleanup_pending" <=> ledger[q] = "cleanup_pending"
                               /\ ledger[q] \in {"healthy", "retained"} <=> ledger'[q] \in {"healthy", "retained"}
    BY <1>b, Zenon
  <1>8. Plans'
    <2>1. ASSUME NEW q \in Op, Open(q)' PROVE healthy'[bind[q]] = healthy[bind[q]]
      BY <2>1, <1>2, <1>3, <1>c, <1>d, Zenon
    <2>2. ASSUME NEW q \in Op, target[q] # NoOp
          PROVE  /\ ledger'[target[q]] # "none"
                 /\ ledger[target[q]] = "cleanup_pending" => ledger'[target[q]] = "cleanup_pending"
      <3>1. target[q] \in Op
        BY <2>2, NamedOperations, Zenon
      <3>2. ledger[target[q]] # "none"
        BY <2>2, Zenon DEF IInv, Plans
      <3> QED
        BY <3>1, <3>2, <1>4, <1>f, Zenon
    <2> QED
      BY <2>1, <2>2, <1>3, <1>e, Zenon DEF IInv, Plans
  <1>9. Ledger'
    <2>1. ASSUME NEW q \in Op, ledger'[q] = "healthy"
          PROVE  healthy'[bind[q]] = q /\ q \in running' /\ claim'[q] = "retained"
      <3>1. CASE q = o
        BY <3>1, <1>a, <1>e, Zenon
      <3>2. CASE q # o
        <4>1. ledger[q] = "healthy" /\ q # prev[o] /\ bind[q] \in Binding /\ bind[q] # bind[o]
          BY <2>1, <3>2, <1>d, <1>f, Zenon
        <4>2. healthy[bind[q]] = q /\ q \in running /\ claim[q] = "retained"
          BY <4>1, Zenon DEF IInv, Ledger
        <4> QED
          BY <4>1, <4>2, <3>2, <1>b, <1>c, <1>e, Zenon
      <3> QED
        BY <3>1, <3>2, Zenon
    <2>2. ASSUME NEW q \in Op, ledger'[q] # "none" PROVE state'[q] = "succeeded" /\ target[q] = NoOp
      <3>1. CASE q = o
        BY <3>1, <1>1, <1>a, Zenon
      <3>2. CASE q # o
        <4>1. ledger[q] # "none"
          BY <2>2, <3>2, <1>f, Zenon
        <4> QED
          BY <4>1, <3>2, <1>b, ZenonT(30) DEF IInv, Ledger
      <3> QED
        BY <3>1, <3>2, Zenon
    <2>3. ASSUME NEW b \in Binding, healthy'[b] # NoOp
          PROVE  bind[healthy'[b]] = b /\ ledger'[healthy'[b]] = "healthy"
      <3>1. CASE b = bind[o]
        BY <3>1, <1>a, Zenon
      <3>2. CASE b # bind[o]
        <4>1. healthy'[b] = healthy[b] /\ healthy[b] \in Op
          BY <2>3, <3>2, <1>c, Zenon DEF IInv, HTypeOK
        <4>2. bind[healthy[b]] = b /\ ledger[healthy[b]] = "healthy"
          BY <4>1, <2>3, Zenon DEF IInv, Ledger
        <4>3. healthy[b] # o /\ healthy[b] # prev[o]
          BY <4>1, <4>2, <3>2, <1>d, Zenon
        <4> QED
          BY <4>1, <4>2, <4>3, <1>b, Zenon
      <3> QED
        BY <3>1, <3>2, Zenon
    <2> QED
      BY <2>1, <2>2, <2>3, <1>e, Zenon DEF Ledger
  <1>g. ~Reserved(o)' /\ \A q \in Op : q # o => (Reserved(q)' <=> Reserved(q))
    BY <1>a, <1>b, Zenon DEF Reserved
  <1>10. Claims'
    <2>1. \A q \in Op : claim'[q] \in {"reserved", "held", "retained"} => claim[q] \in {"reserved", "held", "retained"}
      BY <1>4, <1>b, ZenonT(30) DEF Reserved
    <2> QED
      BY <2>1, <1>g, <1>3, <1>e, Zenon DEF IInv, Claims
  <1>11. Ports'
    <2>1. \A q \in Op : q # o => (Listed(q)' => Listed(q)) /\ (Reserved(q)' <=> Reserved(q))
      <3>1. ASSUME NEW q \in Op, q # o, Listed(q)' PROVE Listed(q)
        <4>1. ledger[q] \in {"healthy", "retained", "cleanup_pending"}
          BY <3>1, <1>f, Zenon DEF Listed
        <4>2. q \in running
          BY <3>1, <1>e, ZenonT(30) DEF Listed
        <4> QED
          BY <4>1, <4>2, Zenon DEF Listed
      <3> QED
        BY <3>1, <1>g, Zenon
    <2>2. \A q \in Op : q # o /\ port[q] = port[o] => ~Listed(q)' /\ ~Reserved(q)
      <3>1. \A q \in Op : q # o /\ port[q] = port[o] /\ Listed(q) => q = prev[o]
        BY <1>4, Zenon DEF IInv, Ports
      <3>2. prev[o] \in Op /\ port[prev[o]] = port[o] => prev[o] \notin running'
        BY <1>d, <1>e, HostingAssumption, ZenonT(30) DEF RetainPrevious
      <3> QED
        BY <2>1, <3>1, <3>2, <1>4, Zenon DEF Listed, IInv, Ports
    <2>4. \A q \in Op : Reserved(q)' => bind[q] \in Binding /\ healthy'[bind[q]] = healthy[bind[q]]
      BY <1>2, <1>c, <1>d, <1>g, <2>1 DEF IInv, Claims
    <2> QED
      <3> SUFFICES ASSUME NEW p \in Op, NEW q \in Op, p # q, port[p] = port[q]
                   PROVE  /\ ~(Reserved(p)' /\ Reserved(q)')
                          /\ ~(Listed(p)' /\ Listed(q)')
                          /\ Reserved(p)' /\ Listed(q)' => q = healthy'[bind[p]]
        BY <1>e, Zenon DEF Ports
      <3>1. CASE p = o
        BY <3>1, <2>1, <2>2, <1>g, Zenon
      <3>2. CASE q = o
        BY <3>2, <2>1, <2>2, <1>g, Zenon
      <3>3. CASE p # o /\ q # o
        BY <3>3, <2>1, <2>4, Zenon DEF IInv, Ports
      <3> QED
        BY <3>1, <3>2, <3>3, Zenon
  <1>12. ReferencedReleasesRun'
    <2>1. \A r \in referenced : r \in Op /\ (r = prev[o] => RetainPrevious(o))
      BY <1>1, ZenonT(30) DEF IInv, ReferencedReleasesRun, HTypeOK
    <2>2. \A r \in referenced : ledger'[r] \in {"healthy", "retained"}
      BY <2>1, <1>a, <1>f, Zenon DEF IInv, ReferencedReleasesRun
    <2>3. \A r \in referenced : r \in running'
      BY <2>1, <1>e, Zenon DEF IInv, ReferencedReleasesRun
    <2>4. \A q \in Op : RetainPrevious(q)' <=> RetainPrevious(q)
      BY <1>e, Zenon DEF RetainPrevious
    <2> QED
      BY <2>2, <2>3, <2>4, <1>3, <1>e, Zenon DEF IInv, ReferencedReleasesRun
  <1> QED
    BY <1>3, <1>5, <1>6, <1>7, <1>8, <1>9, <1>10, <1>11, <1>12, Zenon DEF IInv

(* A cleanup that did not succeed keeps its hold. *)
LEMMA CleanupUnsettledStep ==
  ASSUME IInv, NEW o \in Op, NEW res \in Result, CompleteHostingCleanup(o, res), res # "succeeded"
  PROVE  IInv'
  <1>1. /\ Holds(o) /\ Live(Main(o)) /\ Settle(Main(o)) /\ target[o] # NoOp
        /\ result' = [result EXCEPT ![o] = res]
        /\ state' = [state EXCEPT ![o] = "reconciliation_required"]
        /\ UNCHANGED <<bind, port, target, release, prev, admitted, requested, healthy, firstPort, envVars,
                       handler, touching, running, claim, slot>>
    BY Zenon DEF CompleteHostingCleanup
  <1>2. UNCHANGED <<hold, ledger>>
    <2>1. /\ hold' = [hold EXCEPT ![bind[o]] = hold[bind[o]]]
          /\ ledger' = [ledger EXCEPT ![target[o]] = ledger[target[o]]]
      BY Zenon DEF CompleteHostingCleanup
    <2> QED
      BY <2>1, Zenon DEF IInv, HTypeOK
  <1>3. o \notin release
    BY <1>1, Zenon DEF IInv, Holding
  <1> QED
    BY <1>1, <1>2, <1>3, UnsettledStep, Zenon DEF portVars

(* A cleanup removes a release that is neither healthy nor referenced, and *)
(* gives its port up when nothing else is on it.                           *)
LEMMA CleanupSucceededStep ==
  ASSUME IInv, NEW o \in Op, CompleteHostingCleanup(o, "succeeded")
  PROVE  IInv'
  <1> DEFINE r == target[o]
  <1>1. /\ Live(Main(o)) /\ Settle(Main(o)) /\ result' = [result EXCEPT ![o] = "succeeded"]
        /\ claim' = ReleaseHostingFailedClaim(r) /\ ledger' = [ledger EXCEPT ![r] = "removed"]
        /\ running' = running \ {r} /\ slot' = SlotsAfterCleanup(r)
        /\ r # NoOp /\ Holds(o) /\ o \notin touching
        /\ UNCHANGED <<requested, healthy, firstPort, envVars, handler>>
    BY Zenon DEF CompleteHostingCleanup
  <1>2. EndsHold(o, "succeeded")
    BY Zenon DEF CompleteHostingCleanup, EndsHold, Holds
  <1>3. /\ Open(o) /\ bind[o] \in Binding
        /\ \A q \in Op : Holds(q) /\ bind[q] = bind[o] => q = o
    BY <1>1, ReportFacts, Zenon
  <1>4. /\ \A q \in Op : Holds(q)' <=> Holds(q) /\ q # o
        /\ \A q \in Op : Open(q)' <=> Open(q) /\ q # o
        /\ Holding' /\ OneOpen'
    BY <1>1, <1>2, EndsHoldFacts, ZenonT(30) DEF Terminal
  <1>5. /\ r \in Op /\ ledger[r] = "cleanup_pending" /\ bind[r] = bind[o] /\ state[r] = "succeeded"
        /\ port[r] \in Port /\ r \notin referenced
    BY <1>1 DEF IInv, HTypeOK, Plans, Ledger, Rows, ReferencedReleasesRun
  <1>a. /\ ledger'[r] = "removed" /\ claim'[r] \in {"none", "released"} /\ state'[o] = "succeeded"
        /\ (claim'[r] = "none" => claim[r] = "none")
    BY <1>1, <1>2, <1>5, ZenonT(30) DEF IInv, HTypeOK, EndsHold, ReleaseHostingFailedClaim
  <1>b. /\ \A q \in Op : q # r => ledger'[q] = ledger[q] /\ claim'[q] = claim[q]
        /\ \A q \in Op : q # o => state'[q] = state[q]
    BY <1>1, <1>2, <1>5, ZenonT(30) DEF IInv, HTypeOK, EndsHold, ReleaseHostingFailedClaim
  <1>c. /\ UNCHANGED <<bind, port, target, release, prev, healthy, referenced, handler, restoreHeld, tries>>
        /\ running' = running \ {r}
    BY <1>1, <1>2, Zenon DEF EndsHold, envVars, Settle
  <1>d. \A b \in Binding : healthy[b] # r
    BY <1>1, <1>5, Zenon DEF IInv, Ledger
  <1>6. HTypeOK'
    BY <1>1, <1>2, <1>3, <1>5, ZenonT(20)
    DEF IInv, HTypeOK, Settle, OperationState, Terminal, Result, SlotsAfterCleanup, EndsHold, envVars,
        ReleaseHostingFailedClaim
  <1> HIDE DEF r
  <1>7. Rows'
    <2>1. \A q \in Op : state[q] = "absent" => claim'[q] = claim[q]
      BY <1>5, <1>b, Zenon
    <2> QED
      BY <2>1, <1>1, <1>2, <1>3, <1>c, CompletionRows, Zenon DEF Terminal, EndsHold
  <1>8. Tasks'
    BY <1>1, <1>2, <1>c, CompletionTasks, Zenon DEF Terminal, EndsHold
  <1>9. Plans'
    <2>1. ASSUME NEW q \in Op, Holds(q)', target[q] # NoOp PROVE ledger'[target[q]] = "cleanup_pending"
      <3>1. Holds(q) /\ q # o
        BY <2>1, <1>4, Zenon
      <3>2. ledger[target[q]] = "cleanup_pending" /\ bind[target[q]] = bind[q]
        BY <2>1, <3>1, Zenon DEF IInv, Plans
      <3>3. target[q] # r
        BY <3>1, <3>2, <1>3, <1>5, Zenon
      <3>4. target[q] \in Op
        BY <2>1, NamedOperations, Zenon
      <3> QED
        BY <3>2, <3>3, <3>4, <1>b, Zenon
    <2>2. ASSUME NEW q \in Op, target[q] # NoOp PROVE ledger'[target[q]] # "none"
      <3>1. ledger[target[q]] # "none"
        BY <2>2, Zenon DEF IInv, Plans
      <3>2. target[q] \in Op
        BY <2>2, NamedOperations, Zenon
      <3> QED
        BY <3>1, <3>2, <1>a, <1>b, Zenon
    <2> QED
      BY <2>1, <2>2, <1>4, <1>c, Zenon DEF IInv, Plans
  <1>10. Ledger'
    <2>1. ASSUME NEW q \in Op
          PROVE  /\ ledger'[q] # "none" => state'[q] = "succeeded" /\ target[q] = NoOp
                 /\ ledger'[q] = "healthy" => healthy[bind[q]] = q /\ q \in running' /\ claim'[q] = "retained"
      <3>1. CASE q = r
        BY <3>1, <1>5, <1>a, <1>b, Zenon DEF IInv, Ledger
      <3>2. CASE q # r
        <4>1. ledger'[q] = ledger[q] /\ claim'[q] = claim[q] /\ (q \in running' <=> q \in running)
          BY <3>2, <1>b, <1>c, Zenon
        <4>2. /\ ledger[q] # "none" => state[q] = "succeeded" /\ target[q] = NoOp
              /\ ledger[q] = "healthy" => healthy[bind[q]] = q /\ q \in running /\ claim[q] = "retained"
          BY Zenon DEF IInv, Ledger
        <4>3. state[q] = "succeeded" => q # o
          BY <1>3, Zenon DEF Open, Terminal
        <4> QED
          BY <4>1, <4>2, <4>3, <1>b, Zenon
      <3> QED
        BY <3>1, <3>2, Zenon
    <2>2. ASSUME NEW b \in Binding, healthy[b] # NoOp PROVE bind[healthy[b]] = b /\ ledger'[healthy[b]] = "healthy"
      <3>1. healthy[b] \in Op
        BY <2>2, NamedOperations, Zenon
      <3>2. bind[healthy[b]] = b /\ ledger[healthy[b]] = "healthy"
        BY <2>2, Zenon DEF IInv, Ledger
      <3> QED
        BY <3>1, <3>2, <1>b, <1>d, Zenon
    <2> QED
      BY <2>1, <2>2, <1>c, Zenon DEF Ledger
  <1>11. Claims'
    <2>1. \A q \in Op : Reserved(q)' <=> Reserved(q)
      <3>1. ~Open(r)
        BY <1>5, Zenon DEF Open, Terminal
      <3>2. ~Reserved(r)
        BY <3>1, <1>5, Zenon DEF IInv, Claims
      <3>3. claim'[r] \notin {"reserved", "held"}
        BY <1>a, Zenon
      <3> QED
        BY <3>2, <3>3, <1>b, Zenon DEF Reserved
    <2>2. \A q \in Op : q # r /\ port[q] = port[r] /\ claim[q] \in {"reserved", "held", "retained"} => slot' = slot
      BY <1>1, Zenon DEF SlotsAfterCleanup, OnPort
    <2>3. \A p \in Port : p # port[r] => slot'[p] = slot[p]
      <3>1. slot' = slot \/ slot' = [slot EXCEPT ![port[r]] = NoBinding]
        BY <1>1, Zenon DEF SlotsAfterCleanup
      <3>2. slot \in [Port -> Binding \cup {NoBinding}] /\ port[r] \in Port
        BY <1>5, Zenon DEF IInv, HTypeOK
      <3> QED
        BY <3>1, <3>2
    <2>4. ASSUME NEW q \in Op, claim'[q] \in {"reserved", "held", "retained"} PROVE slot'[port[q]] = bind[q]
      <3>1. q # r
        BY <2>4, <1>a, Zenon
      <3>2. claim[q] \in {"reserved", "held", "retained"} /\ slot[port[q]] = bind[q]
        BY <3>1, <2>4, <1>b, Zenon DEF IInv, Claims
      <3>3. port[q] \in Port
        BY <3>2, Zenon DEF IInv, Rows
      <3> QED
        BY <3>1, <3>2, <3>3, <2>2, <2>3, Zenon
    <2>5. \A q \in Op : Reserved(q)' <=> Open(q)' /\ target[q] = NoOp
      BY <2>1, <1>1, <1>4, Zenon DEF IInv, Claims, r
    <2> QED
      BY <2>4, <2>5, <1>c, Zenon DEF Claims
  <1>12. Ports'
    <2>1. \A q \in Op : (Listed(q)' => Listed(q)) /\ (Reserved(q)' => Reserved(q))
      BY <1>a, <1>b, <1>c, Zenon DEF Listed, Reserved
    <2> QED
      BY <2>1, <1>c, Zenon DEF IInv, Ports
  <1>13. ReferencedReleasesRun'
    <2>1. \A q \in referenced : q \in Op /\ q # r
      BY <1>5, Zenon DEF IInv, HTypeOK
    <2>2. \A q \in referenced : ledger'[q] \in {"healthy", "retained"} /\ q \in running'
      BY <2>1, <1>b, <1>c, Zenon DEF IInv, ReferencedReleasesRun
    <2>3. \A q \in Op : RetainPrevious(q)' <=> RetainPrevious(q)
      BY <1>c, Zenon DEF RetainPrevious
    <2> QED
      BY <2>2, <2>3, <1>4, <1>c, Zenon DEF IInv, ReferencedReleasesRun
  <1> QED
    BY <1>4, <1>6, <1>7, <1>8, <1>9, <1>10, <1>11, <1>12, <1>13, Zenon DEF IInv

-----------------------------------------------------------------------------

(* Every action preserves the invariant. *)
LEMMA NextIInv == IInv /\ [Next]_vars => IInv'
  <1> SUFFICES ASSUME IInv, [Next]_vars PROVE IInv'
    BY Zenon
  <1>1. CASE \E o \in Op, b \in Binding, p \in Port, auto \in BOOLEAN : RequestHostingDeployment(o, b, p, auto)
    BY <1>1, RequestDeploymentStep, Zenon
  <1>2. CASE \E o, r \in Op : RequestHostingReleaseCleanup(o, r)
    BY <1>2, RequestCleanupStep, Zenon
  <1>3. ASSUME NEW o \in Op, ReadQueuedOperation(o) \/ PrepareDeployment(o) \/ HostingRunnerPlan(o)
        PROVE  IInv'
    BY <1>3, ReadStep, PrepareStep, PlanStep, Zenon
  <1>4. ASSUME NEW o \in Op, \/ HostingPrepared(o) \/ HostingApplyBegin(o) \/ AdmitHostingCleanup(o)
                             \/ HostingStatus(o) \/ RunnerStops(o)
        PROVE  IInv'
    BY <1>4, PreparedStep, ApplyBeginStep, AdmitCleanupStep, StatusStep, StopsStep, Zenon
  <1>5. ASSUME NEW o \in Op, \/ CancelHostingOperation(o) \/ RequestHostingReconciliation(o)
                             \/ ClaimHostingObservation(o) \/ HostingReconciliation(o) \/ WithdrawRoute(o)
        PROVE  IInv'
    BY <1>5, CancelStep, ReconciliationRequestStep, ClaimObservationStep, ReconciliationStep,
        WithdrawStep, Zenon
  <1>6. ASSUME NEW o \in Op, NEW res \in Result, HostingComplete(o, res)
        PROVE  IInv'
    <2>1. CASE res = "succeeded"
      BY <1>6, <2>1, CompleteSucceededStep, Zenon
    <2>2. CASE Unsettled(o, res)
      BY <1>6, <2>2, CompleteUnsettledStep, Zenon
    <2>3. CASE res # "succeeded" /\ ~Unsettled(o, res)
      BY <1>6, <2>3, CompleteFailedStep, Zenon
    <2> QED
      BY <2>1, <2>2, <2>3, Zenon
  <1>7. ASSUME NEW o \in Op, NEW res \in Result, CompleteHostingCleanup(o, res)
        PROVE  IInv'
    BY <1>7, CleanupSucceededStep, CleanupUnsettledStep, Zenon
  <1>8. ASSUME NEW t \in Task, ClaimRun(t) \/ Lapse(t) \/ ExpireRun(t)
        PROVE  IInv'
    BY <1>8, ClaimRunStep, LapseStep, ExpireStep, Zenon
  <1>9. CASE \E b \in Binding : RequestHostingRoute(b)
    BY <1>9, RouteStep, Zenon
  <1>10. CASE ChangeRunner \/ \E b \in Binding : ChangeGrant(b)
    BY <1>10, EnvironmentStep, Zenon
  <1>11. CASE Restore
    BY <1>11, RestoreStep, Zenon
  <1>12. CASE UNCHANGED vars
    <2> USE <1>12 DEF vars, opVars, taskVars, portVars, envVars
    <2>1. HTypeOK' /\ Rows' /\ Tasks'
      BY Zenon DEF IInv, HTypeOK, Rows, Tasks, Open
    <2>2. Holding' /\ OneOpen' /\ Plans' /\ Ledger' /\ Claims' /\ Ports' /\ ReferencedReleasesRun'
      BY TaskStep, Zenon
    <2> QED
      BY <2>1, <2>2, Zenon DEF IInv
  <1> QED
    BY <1>1, <1>2, <1>3, <1>4, <1>5, <1>6, <1>7, <1>8, <1>9, <1>10, <1>11, <1>12, Zenon DEF Next

(* The tables of hosting_execution.sql satisfy the invariant at all times. *)
THEOREM Invariance == Spec => []IInv
  BY InitIInv, NextIInv, PTL DEF Spec

(* The columns keep their types. *)
THEOREM TypeCorrect == Spec => []HTypeOK
  <1>1. IInv => HTypeOK
    BY Zenon DEF IInv
  <1> QED
    BY <1>1, Invariance, PTL

(* No two runners change one binding's containers: whoever may have Docker *)
(* commands running holds the binding, however leases, cancellations and   *)
(* uncertain reports went.                                                 *)
THEOREM ExclusionTheorem == Spec => []MutationIsExclusive
  <1>1. IInv => MutationIsExclusive
    BY Zenon DEF IInv, Holding, HTypeOK, MutationIsExclusive
  <1> QED
    BY <1>1, Invariance, PTL

(* A binding has one operation under way, and a hold belongs to it. *)
THEOREM OneOperationTheorem == Spec => []OneOperationPerBinding
  <1>1. ASSUME IInv PROVE OneOperationPerBinding
    <2>1. ASSUME NEW b \in Binding, hold[b] # NoOp
          PROVE  /\ bind[hold[b]] = b /\ hold[b] \in admitted
                 /\ state[hold[b]] \in HeldState
      <3>1. hold[b] \in Op /\ bind[hold[b]] = b
        BY <1>1, <2>1 DEF IInv, Holding, HTypeOK
      <3>2. Holds(hold[b])
        BY <3>1, Zenon DEF Holds
      <3> QED
        BY <1>1, <3>1, <3>2, ZenonT(30) DEF IInv, Holding
    <2>2. \A o, q \in {u \in Op : state[u] \notin Terminal \cup {"absent"}} : bind[o] = bind[q] => o = q
      BY <1>1, Zenon DEF IInv, OneOpen, Open
    <2> QED
      BY <2>1, <2>2, Zenon DEF HeldState, OneOperationPerBinding
  <1> QED
    BY <1>1, Invariance, PTL

(* Two containers share a host port only while a deployment replaces the   *)
(* healthy release of its own binding in place.                            *)
THEOREM PortsTheorem == Spec => []PortsAreExclusive
  <1>1. ASSUME IInv PROVE PortsAreExclusive
    <2> SUFFICES ASSUME NEW o \in MayListen, NEW q \in MayListen, o # q, port[o] = port[q]
                 PROVE  (Holds(o) /\ prev[o] = q) \/ (Holds(q) /\ prev[q] = o)
      BY Zenon DEF PortsAreExclusive
    <2>1. o \in Op /\ q \in Op
      BY Zenon DEF MayListen
    <2>2. \A u \in Op : target[u] = NoOp /\ Holds(u) => Reserved(u) /\ prev[u] = healthy[bind[u]]
      BY <1>1, Zenon DEF IInv, Holding, HeldState, Open, Terminal, Claims, Plans
    <2>3. \A u \in MayListen : Listed(u) \/ (target[u] = NoOp /\ Holds(u))
      BY Zenon DEF MayListen, Listed
    <2> QED
      BY <1>1, <2>1, <2>2, <2>3, Zenon DEF IInv, Ports
  <1> QED
    BY <1>1, Invariance, PTL

(* The healthy pointer of a binding and the release ledger agree. *)
THEOREM LedgerTheorem == Spec => []HealthyIsInLedger
  <1>1. IInv => HealthyIsInLedger
    <2> SUFFICES ASSUME IInv, NEW o \in Op
                 PROVE  (ledger[o] = "healthy") <=>
                           /\ bind[o] \in Binding /\ healthy[bind[o]] = o
                           /\ state[o] = "succeeded" /\ o \in running /\ claim[o] = "retained"
      BY Zenon DEF HealthyIsInLedger
    <2>1. ASSUME ledger[o] = "healthy"
          PROVE  /\ bind[o] \in Binding /\ healthy[bind[o]] = o
                 /\ state[o] = "succeeded" /\ o \in running /\ claim[o] = "retained"
      BY <2>1, Zenon DEF IInv, Ledger, Rows
    <2>2. ASSUME bind[o] \in Binding, healthy[bind[o]] = o PROVE ledger[o] = "healthy"
      <3>1. healthy[bind[o]] # NoOp
        BY <2>2, HostingAssumption, Zenon
      <3>2. ledger[healthy[bind[o]]] = "healthy"
        BY <2>2, <3>1, Zenon DEF IInv, Ledger
      <3> QED
        BY <2>2, <3>2, Zenon
    <2> QED
      BY <2>1, <2>2, Zenon
  <1> QED
    BY <1>1, Invariance, PTL

(* Reclaiming and cleanup never hand out the port of an open operation or  *)
(* a kept release.                                                         *)
THEOREM SlotsTheorem == Spec => []ClaimsHaveSlots
  <1>1. IInv => ClaimsHaveSlots
    BY Zenon DEF IInv, Claims, Reserved, Open, ClaimsHaveSlots
  <1> QED
    BY <1>1, Invariance, PTL

(* A release that a route or the proxy uses runs, and nobody has been let  *)
(* at the host to replace or remove it.                                    *)
THEOREM ReferencesTheorem == Spec => []ReferencedReleasesRun
  <1>1. IInv => ReferencedReleasesRun
    BY Zenon DEF IInv
  <1> QED
    BY <1>1, Invariance, PTL

-----------------------------------------------------------------------------
(* The actions that change the state of an operation find it under way. *)
LEMMA TerminalStep ==
  ASSUME IInv, [Next]_vars, NEW o \in Op, state[o] \in Terminal
  PROVE  state'[o] = state[o]
  <1>0. ~Open(o) /\ state \in [Op -> OperationState]
    BY Zenon DEF Open, IInv, HTypeOK
  <1>1. ASSUME NEW q \in Op, NEW b \in Binding, NEW p \in Port, NEW auto \in BOOLEAN,
               RequestHostingDeployment(q, b, p, auto)
        PROVE  state'[o] = state[o]
    BY <1>0, <1>1, Zenon DEF RequestHostingDeployment, Terminal
  <1>2. ASSUME NEW q \in Op, NEW r \in Op, RequestHostingReleaseCleanup(q, r)
        PROVE  state'[o] = state[o]
    BY <1>0, <1>2, Zenon DEF RequestHostingReleaseCleanup, Terminal
  <1>3. ASSUME NEW q \in Op, \/ PrepareDeployment(q) \/ HostingRunnerPlan(q) \/ HostingPrepared(q)
                             \/ HostingStatus(q) \/ CancelHostingOperation(q)
        PROVE  state'[o] = state[o]
    BY <1>0, <1>3, Zenon DEF PrepareDeployment, HostingRunnerPlan, HostingPrepared, HostingStatus,
                      CancelHostingOperation, Terminal
  <1>4. ASSUME NEW q \in Op, HostingApplyBegin(q) \/ AdmitHostingCleanup(q)
        PROVE  state'[o] = state[o]
    BY <1>0, <1>4, Zenon DEF HostingApplyBegin, AdmitHostingCleanup, Admit, Terminal
  <1>5. ASSUME NEW q \in Op, NEW res \in Result, HostingComplete(q, res) \/ CompleteHostingCleanup(q, res)
        PROVE  state'[o] = state[o]
    BY <1>0, <1>5, Zenon DEF HostingComplete, CompleteHostingCleanup, Terminal
  <1>6. ASSUME NEW q \in Op, HostingReconciliation(q)
        PROVE  state'[o] = state[o]
    BY <1>0, <1>6, ObservationNeverSettles, Zenon DEF HostingReconciliation
  <1>7. ASSUME NEW S \in SUBSET Task, \A t \in S : lease[t] \in {"active", "lapsed"}, RequeueExpiredRuns(S)
        PROVE  state'[o] = state[o]
    <2>1. Main(o) \notin S
      BY <1>0, <1>7, Zenon DEF IInv, Tasks
    <2> QED
      BY <1>7, <2>1, Zenon DEF RequeueExpiredRuns
  <1>8. CASE (\E t \in Task : ExpireRun(t)) \/ Restore
    BY <1>7, <1>8, Zenon DEF ExpireRun, Restore
  <1>9. CASE \/ \E q \in Op : \/ ReadQueuedOperation(q) \/ RunnerStops(q) \/ RequestHostingReconciliation(q)
                             \/ ClaimHostingObservation(q) \/ WithdrawRoute(q)
             \/ \E t \in Task : ClaimRun(t) \/ Lapse(t)
             \/ \E b \in Binding : RequestHostingRoute(b) \/ ChangeGrant(b)
             \/ ChangeRunner \/ UNCHANGED vars
    BY <1>9, Zenon DEF ReadQueuedOperation, RunnerStops, RequestHostingReconciliation,
        ClaimHostingObservation, Grant,
                WithdrawRoute, ClaimRun, Lapse, RequestHostingRoute, ChangeGrant, ChangeRunner, vars, opVars
  <1> QED
    BY <1>1, <1>2, <1>3, <1>4, <1>5, <1>6, <1>8, <1>9, Zenon DEF Next

(* An operation that is over stays over, although RequeueExpiredRun writes *)
(* the state without looking at it.                                        *)
THEOREM TerminalTheorem == Spec => TerminalOperationIsFinal
  <1>1. IInv /\ [Next]_vars => [\A o \in Op : state[o] \in Terminal => state'[o] = state[o]]_vars
    BY TerminalStep, Zenon
  <1> QED
    BY <1>1, Invariance, PTL DEF Spec, TerminalOperationIsFinal

-----------------------------------------------------------------------------
(* A hold and a healthy release change in few actions. *)
LEMMA HoldChanges ==
  ASSUME IInv, [Next]_vars, NEW b \in Binding, hold'[b] # hold[b] \/ healthy'[b] # healthy[b]
  PROVE  \E o \in Op : /\ b = bind[o] /\ Live(Main(o))
                       /\ \/ Admit(o) /\ healthy' = healthy
                          \/ hold[b] = o /\ hold'[b] = NoOp /\ o \notin touching
  <1>0. hold \in [Binding -> Op \cup {NoOp}] /\ healthy \in [Binding -> Op \cup {NoOp}]
    BY Zenon DEF IInv, HTypeOK
  <1>1. ASSUME NEW o \in Op, HostingApplyBegin(o) \/ AdmitHostingCleanup(o)
        PROVE  b = bind[o] /\ Live(Main(o)) /\ Admit(o) /\ healthy' = healthy
    BY <1>0, <1>1, Zenon DEF HostingApplyBegin, AdmitHostingCleanup, Admit
  <1>2. ASSUME NEW o \in Op, NEW res \in Result, HostingComplete(o, res)
        PROVE  b = bind[o] /\ Live(Main(o)) /\ hold[b] = o /\ hold'[b] = NoOp /\ o \notin touching
    BY <1>0, <1>2, Zenon DEF HostingComplete, Unsettled, Holds, Result
  <1>3. ASSUME NEW o \in Op, NEW res \in Result, CompleteHostingCleanup(o, res)
        PROVE  b = bind[o] /\ Live(Main(o)) /\ hold[b] = o /\ hold'[b] = NoOp /\ o \notin touching
    BY <1>0, <1>3, Zenon DEF CompleteHostingCleanup, Holds
  <1>4. ASSUME NEW o \in Op, HostingReconciliation(o)
        PROVE  FALSE
    BY <1>0, <1>4, ObservationNeverSettles, Zenon DEF HostingReconciliation
  <1>5. ASSUME NEW o \in Op, \/ ReadQueuedOperation(o) \/ PrepareDeployment(o) \/ HostingRunnerPlan(o)
                             \/ HostingPrepared(o) \/ HostingStatus(o) \/ RunnerStops(o)
                             \/ CancelHostingOperation(o) \/ RequestHostingReconciliation(o)
                             \/ ClaimHostingObservation(o) \/ WithdrawRoute(o)
                             \/ \E r \in Op : RequestHostingReleaseCleanup(o, r)
                             \/ \E c \in Binding, p \in Port, auto \in BOOLEAN : RequestHostingDeployment(o, c, p, auto)
        PROVE  FALSE
    BY <1>5, Zenon DEF ReadQueuedOperation, PrepareDeployment, HostingRunnerPlan,
        HostingPrepared, HostingStatus,
                RunnerStops, CancelHostingOperation, RequestHostingReconciliation, ClaimHostingObservation, Grant,
                WithdrawRoute, RequestHostingReleaseCleanup, RequestHostingDeployment
  <1>6. ASSUME \/ \E t \in Task : ClaimRun(t) \/ Lapse(t) \/ ExpireRun(t)
               \/ \E c \in Binding : RequestHostingRoute(c) \/ ChangeGrant(c)
               \/ ChangeRunner \/ Restore \/ UNCHANGED vars
        PROVE  FALSE
    BY <1>6, Zenon DEF ClaimRun, Grant, Lapse, ExpireRun, RequeueExpiredRuns,
        RequestHostingRoute, ChangeGrant,
                ChangeRunner, Restore, vars
  <1> QED
    BY <1>1, <1>2, <1>3, <1>4, <1>5, <1>6, Zenon DEF Next

(* Only the runner that was let at the host ends a hold, with a live lease *)
(* and after its last command.                                             *)
THEOREM HoldTheorem == Spec => OnlyHolderEndsHold
  <1>1. ASSUME IInv, [Next]_vars, NEW b \in Binding, hold[b] # NoOp, hold'[b] # hold[b]
        PROVE  Live(Main(hold[b])) /\ hold[b] \notin touching /\ hold'[b] = NoOp
    BY <1>1, HoldChanges, Zenon DEF Admit
  <1>2. IInv /\ [Next]_vars => [\A b \in Binding : hold[b] # NoOp /\ hold'[b] # hold[b] =>
             Live(Main(hold[b])) /\ hold[b] \notin touching /\ hold'[b] = NoOp]_vars
    BY <1>1, Zenon
  <1> QED
    BY <1>2, Invariance, PTL DEF Spec, OnlyHolderEndsHold

(* Nothing moves on a binding of a restored database: its operations have  *)
(* lost their leases and get no other.                                     *)
THEOREM RestoreTheorem == Spec => RestoredBindingsStayStill
  <1>1. ASSUME IInv, [Next]_vars, NEW b \in restoreHeld
        PROVE  hold'[b] = hold[b] /\ healthy'[b] = healthy[b]
    <2>1. b \in Binding /\ \A o \in Op : ~Live(Main(o))
      BY <1>1, Zenon DEF IInv, HTypeOK, Tasks, Live
    <2> QED
      BY <1>1, <2>1, HoldChanges, Zenon
  <1>2. IInv /\ [Next]_vars => [\A b \in restoreHeld : hold'[b] = hold[b] /\ healthy'[b] = healthy[b]]_vars
    BY <1>1, Zenon
  <1> QED
    BY <1>2, Invariance, PTL DEF Spec, RestoredBindingsStayStill
=============================================================================
