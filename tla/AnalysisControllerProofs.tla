---------------------- MODULE AnalysisControllerProofs ----------------------
(***************************************************************************)
(* Proofs about AnalysisController, for every set of tasks, projects,      *)
(* Deployments and strategies and every bound.                             *)
(***************************************************************************)
EXTENDS AnalysisController, TLAPS

(* The selector a worker at a Namespace selector reads is one a user       *)
(* wrote: a project or the empty name.                                     *)
LEMMA SelectorName ==
    ASSUME WorkerOK, AtSelector, CurrentSelector.kind = "Namespace"
    PROVE  CurrentSelector.name \in Namespaces \cup {Nil}
<1>1. worker.spec \in TaskSpecs
  BY DEF WorkerOK, AtSelector
<1>2. worker.spec.selectors \in Seq(Selector)
  BY <1>1, SpecAssumption
<1>3. worker.next \in DOMAIN worker.spec.selectors
  BY <1>2 DEF WorkerOK, AtSelector
<1> QED
  BY <1>1, <1>3, SpecAssumption DEF CurrentSelector

(* A Deployment selector names a Deployment of the task's own project.     *)
LEMMA SelectorTarget ==
    ASSUME WorkerOK, AtSelector, CurrentSelector.kind = "Deployment"
    PROVE  <<Home[worker.task], CurrentSelector.name>> \in Deployment
<1>1. worker.spec \in TaskSpecs /\ worker.task \in Tasks
  BY DEF WorkerOK, AtSelector
<1>2. worker.spec.selectors \in Seq(Selector)
  BY <1>1, SpecAssumption
<1>3. worker.next \in DOMAIN worker.spec.selectors
  BY <1>2 DEF WorkerOK, AtSelector
<1>4. CurrentSelector.name \in Names
  BY <1>1, <1>3, SpecAssumption DEF CurrentSelector
<1> QED
  BY <1>1, <1>4, SpecAssumption DEF Deployment

(* Entering CreateCraneAnalysis for a Deployment keeps the calls typed.    *)
LEMMA EnterType ==
    ASSUME CallOK, NEW g \in Goroutines, NEW d \in Deployment,
           NEW s \in Strategies, attempted \subseteq Deployment, Enter(g, d, s)
    PROVE  CallOK' /\ attempted' \subseteq Deployment
<1>1. d[2] \in Names
  BY DEF Deployment
<1>2. ConvertAnalytics(d, s) \in Object
  BY <1>1 DEF ConvertAnalytics, Object
<1> QED
  BY <1>2 DEF Enter, CallOK

LEMMA ReturnType ==
    ASSUME CallOK, NEW g \in Goroutines, Return(g)
    PROVE  CallOK'
<1>1. EmptyObject \in Object
  BY DEF EmptyObject, Object
<1> QED
  BY <1>1 DEF Return, CallOK, IdleCall

LEMMA InitType == Init => TypeOK
<1>1. ASSUME Init PROVE TypeOK
  <2>1. EmptyObject \in Object
    BY DEF EmptyObject, Object
  <2>2. CallOK
    BY <1>1, <2>1 DEF Init, CallOK, IdleCall
  <2>3. WorkerOK
    BY <1>1 DEF Init, WorkerOK, IdleWorker
  <2>4. ServerOK /\ InformerOK
    BY <1>1 DEF Init, ServerOK, InformerOK
  <2> QED
    BY <1>1, <2>2, <2>3, <2>4, BoundAssumption DEF Init, TypeOK
<1> QED BY <1>1
LEMMA CraneType ==
    ASSUME TypeOK, NEW g \in Goroutines, CreateCraneAnalysis(g)
    PROVE  TypeOK'
<1>1. CASE CraneFound(g)
  <2>1. CallOK'
    BY <1>1, ReturnType DEF TypeOK, CraneFound
  <2>2. ServerOK'
    BY <1>1 DEF TypeOK, ServerOK, CallOK, CraneFound, ModifiedSpec
  <2> QED
    BY <1>1, <2>1, <2>2
       DEF CraneFound, TypeOK, InformerOK, WorkerOK, informer, counters
<1>2. CASE CraneNotFound(g)
  <2>1. EmptyObject \in Object
    BY DEF EmptyObject, Object
  <2>2. CallOK'
    BY <1>2, <2>1 DEF TypeOK, CallOK, CraneNotFound, AfterNotFound
  <2> QED
    BY <1>2, <2>2
       DEF CraneNotFound, TypeOK, ServerOK, InformerOK, WorkerOK, server, informer,
           counters
<1>3. CASE CraneGetError(g)
  <2>1. CallOK'
    BY <1>3, ReturnType DEF TypeOK, CraneGetError
  <2>2. faults' \in 0..MaxFaults
    BY <1>3, BoundAssumption DEF TypeOK, CraneGetError
  <2> QED
    BY <1>3, <2>1, <2>2
       DEF CraneGetError, TypeOK, ServerOK, InformerOK, WorkerOK, server, informer
<1>4. CASE CraneCreate(g)
  <2>1. CallOK'
    BY <1>4, ReturnType DEF TypeOK, CraneCreate
  <2>2. call[g].at \in Deployment /\ call[g].obj.strategy \in Strategies \cup {Nil}
    BY <1>4 DEF TypeOK, CallOK, CraneCreate, Object
  <2>3. ServerOK'
    BY <1>4, <2>2 DEF TypeOK, ServerOK, CraneCreate
  <2> QED
    BY <1>4, <2>1, <2>3
       DEF CraneCreate, TypeOK, InformerOK, WorkerOK, informer, counters
<1> QED
  BY <1>1, <1>2, <1>3, <1>4 DEF CreateCraneAnalysis

(* A step of the worker that leaves the rest of the state alone keeps the  *)
(* types when it leaves a well-formed worker record.                       *)
LEMMA WorkerStepType ==
    ASSUME TypeOK, WorkerOK',
           UNCHANGED <<server, informer, nsCache, call, attempted, excused, counters>>
    PROVE  TypeOK'
BY DEF TypeOK, ServerOK, InformerOK, CallOK, server, informer, counters

LEMMA IdleWorkerType ==
    ASSUME worker' = IdleWorker
    PROVE  WorkerOK'
BY DEF WorkerOK, IdleWorker

LEMMA NextSelectorType ==
    ASSUME WorkerOK, worker.pc # "idle", worker' = NextSelector
    PROVE  WorkerOK'
<1>1. worker.next + 1 \in Nat \ {0}
  BY DEF WorkerOK
<1>2. worker' = [pc |-> "select", task |-> worker.task, spec |-> worker.spec,
                 next |-> worker.next + 1, ns |-> Nil, todo |-> {}]
  BY DEF WorkerOK, NextSelector
<1> QED
  BY <1>1, <1>2 DEF WorkerOK

LEMMA ReconcileType ==
    ASSUME TypeOK, Reconcile
    PROVE  TypeOK'
<1> USE DEF TypeOK
<1>1. ASSUME NEW t \in Tasks, ReconcileMissing(t) PROVE TypeOK'
  BY <1>1 DEF ReconcileMissing, ServerOK, InformerOK, WorkerOK, CallOK, server,
              process, counters
<1>2. ASSUME NEW t \in Tasks, ReconcileTask(t) PROVE TypeOK'
  <2>1. taskCache[t] \in TaskSpecs
    BY <1>2 DEF ReconcileTask, InformerOK
  <2>2. WorkerOK'
    <3>1. CASE worker' = IdleWorker
      BY <3>1, IdleWorkerType
    <3>2. CASE worker' = [IdleWorker EXCEPT !.pc = "select", !.task = t,
                                            !.spec = taskCache[t]]
      <4>1. worker' = [pc |-> "select", task |-> t, spec |-> taskCache[t],
                       next |-> 1, ns |-> Nil, todo |-> {}]
        BY <3>2 DEF IdleWorker
      <4> QED
        BY <4>1, <2>1, NilAssumption DEF WorkerOK
    <3> QED
      BY <1>2, <3>1, <3>2 DEF ReconcileTask
  <2> QED
    BY <1>2, <2>2 DEF ReconcileTask, ServerOK, InformerOK, CallOK, server, counters
<1>3. CASE SkipSelector
  BY <1>3, NextSelectorType, WorkerStepType DEF SkipSelector, AtSelector
<1>4. CASE DeploymentSelector
  <2>1. <<Home[worker.task], CurrentSelector.name>> \in Deployment
    BY <1>4, SelectorTarget DEF DeploymentSelector
  <2>2. worker.spec.strategy \in Strategies
    BY <1>4, SpecAssumption DEF DeploymentSelector, AtSelector, WorkerOK
  <2>3. CallOK' /\ attempted' \subseteq Deployment
    BY <1>4, <2>1, <2>2, EnterType DEF DeploymentSelector, Goroutines
  <2>4. WorkerOK'
    BY <1>4, NextSelectorType DEF DeploymentSelector, AtSelector
  <2> QED
    BY <1>4, <2>3, <2>4
       DEF DeploymentSelector, ServerOK, InformerOK, server, informer, counters
<1>5. CASE EmptyNamespace
  BY <1>5, IdleWorkerType, WorkerStepType DEF EmptyNamespace
<1>6. CASE BeginCacheWrite
  <2>1. CurrentSelector.name \in Namespaces
    BY <1>6, SelectorName DEF BeginCacheWrite
  <2>2. WorkerOK'
    BY <1>6, <2>1, NilAssumption DEF BeginCacheWrite, AtSelector, WorkerOK
  <2> QED
    BY <1>6, <2>2, WorkerStepType DEF BeginCacheWrite
<1>7. CASE EndCacheWrite
  <2>1. WrittenEntry \in Entry
    BY <1>7, SpecAssumption DEF EndCacheWrite, WrittenEntry, WorkerOK, Entry
  <2>2. nsCache' \in [Namespaces -> Entry \cup {Nil}]
    BY <1>7, <2>1 DEF EndCacheWrite
  <2>3. WorkerOK'
    BY <1>7 DEF EndCacheWrite, WorkerOK
  <2> QED
    BY <1>7, <2>2, <2>3
       DEF EndCacheWrite, ServerOK, InformerOK, CallOK, server, informer, counters
<1>8. CASE ListDeployments
  <2>1. WorkerOK'
    BY <1>8 DEF ListDeployments, WorkerOK, Existing
  <2> QED
    BY <1>8, <2>1, WorkerStepType DEF ListDeployments
<1>9. CASE ListError
  <2>1. worker.ns \in Namespaces
    BY <1>9 DEF ListError, WorkerOK
  <2>2. excused' \subseteq Deployment
    <3>1. \A m \in Existing(worker.ns) : <<worker.ns, m>> \in Deployment
      BY <2>1 DEF Existing, Deployment
    <3> QED
      BY <1>9, <3>1 DEF ListError
  <2>3. faults' \in 0..MaxFaults
    BY <1>9, BoundAssumption DEF ListError
  <2>4. WorkerOK'
    BY <1>9, IdleWorkerType DEF ListError
  <2> QED
    BY <1>9, <2>2, <2>3, <2>4
       DEF ListError, ServerOK, InformerOK, CallOK, server, informer
<1>10. ASSUME NEW m \in Names, ListedDeployment(m) PROVE TypeOK'
  <2>1. <<worker.ns, m>> \in Deployment
    BY <1>10 DEF ListedDeployment, WorkerOK, Deployment
  <2>2. worker.spec.strategy \in Strategies
    BY <1>10, SpecAssumption DEF ListedDeployment, WorkerOK
  <2>3. CallOK' /\ attempted' \subseteq Deployment
    BY <1>10, <2>1, <2>2, EnterType DEF ListedDeployment, Goroutines
  <2>4. WorkerOK'
    BY <1>10 DEF ListedDeployment, WorkerOK
  <2> QED
    BY <1>10, <2>3, <2>4
       DEF ListedDeployment, ServerOK, InformerOK, server, informer, counters
<1>11. CASE ListDone
  BY <1>11, NextSelectorType, WorkerStepType DEF ListDone
<1>12. CASE ReconcileReturns
  BY <1>12, IdleWorkerType, WorkerStepType DEF ReconcileReturns
<1> QED
  BY <1>1, <1>2, <1>3, <1>4, <1>5, <1>6, <1>7, <1>8, <1>9, <1>10, <1>11, <1>12
     DEF Reconcile

(* Every entry a lookup may yield is an entry some pass wrote.             *)
LEMMA LookUpType ==
    ASSUME TypeOK, NEW n \in Namespaces
    PROVE  LookUp(n) \subseteq Entry \cup {Nil}
<1>1. worker.pc = "write" => WrittenEntry \in Entry
  BY SpecAssumption DEF TypeOK, WorkerOK, WrittenEntry, Entry
<1> QED
  BY <1>1 DEF LookUp, TypeOK

LEMMA AddFuncType ==
    ASSUME TypeOK, NEW d \in Deployment, AddFunc(d)
    PROVE  TypeOK'
<1>1. PICK entry \in LookUp(d[1]) :
        IF entry = Nil THEN UNCHANGED <<call, attempted>>
                       ELSE Enter("handler", d, entry.strategy)
  BY DEF AddFunc
<1>2. d[1] \in Namespaces
  BY DEF Deployment
<1>3. entry \in Entry \cup {Nil}
  BY <1>1, <1>2, LookUpType
<1>4. CallOK' /\ attempted' \subseteq Deployment
  <2>1. CASE entry = Nil
    BY <1>1, <2>1 DEF TypeOK, CallOK
  <2>2. CASE entry # Nil
    BY <1>1, <1>3, <2>2, EnterType DEF TypeOK, Entry, Goroutines
  <2> QED
    BY <2>1, <2>2
<1> QED
  BY <1>4 DEF AddFunc, TypeOK, ServerOK, InformerOK, WorkerOK, server, counters

LEMMA InformersType ==
    ASSUME TypeOK, Informers
    PROVE  TypeOK'
<1> USE DEF TypeOK, ServerOK, InformerOK, WorkerOK, CallOK, server, process, counters
<1>1. ASSUME NEW t \in Tasks, TaskWatch(t) \/ TaskResync(t) \/ BackoffExpires(t)
      PROVE  TypeOK'
  BY <1>1 DEF TaskWatch, TaskResync, BackoffExpires
<1>2. ASSUME NEW d \in Deployment, DeploymentWatch(d) PROVE TypeOK'
  BY <1>2 DEF DeploymentWatch
<1>3. CASE DeploymentRelist
  BY <1>3, BoundAssumption DEF DeploymentRelist
<1> QED
  BY <1>1, <1>2, <1>3 DEF Informers

LEMMA UsersType ==
    ASSUME TypeOK, Users
    PROVE  TypeOK'
<1> USE DEF TypeOK, ServerOK, InformerOK, WorkerOK, CallOK, informer, process, Edit
<1>1. ASSUME NEW t \in Tasks, SetTask(t) PROVE TypeOK'
  BY <1>1, BoundAssumption DEF SetTask
<1>2. ASSUME NEW d \in Deployment, CreateDeployment(d) PROVE TypeOK'
  BY <1>2, BoundAssumption DEF CreateDeployment
<1>3. ASSUME NEW d \in Deployment, DeleteDeployment(d) PROVE TypeOK'
  BY <1>3, BoundAssumption DEF DeleteDeployment
<1>4. ASSUME NEW d \in Deployment, SetAnalytics(d) PROVE TypeOK'
  BY <1>4, BoundAssumption DEF SetAnalytics
<1> QED
  BY <1>1, <1>2, <1>3, <1>4 DEF Users

(* The process ends: from outside, or at a tombstone of some informer.     *)
ProcessEnds ==
    \/ Restart
    \/ \E d \in Deployment : DeleteFunc(d)
    \/ OtherDeleteFunc

LEMMA EndStep ==
    ASSUME TypeOK, ProcessEnds
    PROVE  /\ NewProcess
           /\ UNCHANGED <<server, edits>>
           /\ faults' \in 0..MaxFaults /\ restarts' \in 0..MaxRestarts
<1> USE BoundAssumption DEF TypeOK
<1>1. CASE Restart
  BY <1>1 DEF Restart
<1>2. ASSUME NEW d \in Deployment, DeleteFunc(d)
      PROVE  NewProcess /\ UNCHANGED <<server, counters>>
  BY <1>2 DEF DeleteFunc
<1>3. CASE OtherDeleteFunc
  BY <1>3 DEF OtherDeleteFunc
<1> QED
  BY <1>1, <1>2, <1>3 DEF ProcessEnds, counters

LEMMA EndType ==
    ASSUME TypeOK, ProcessEnds
    PROVE  TypeOK'
<1>1. EmptyObject \in Object
  BY DEF EmptyObject, Object
<1>2. NewProcess
  BY EndStep
<1>3. CallOK'
  BY <1>1, <1>2 DEF NewProcess, CallOK, IdleCall
<1>4. WorkerOK'
  BY <1>2, IdleWorkerType DEF NewProcess
<1>5. InformerOK'
  BY <1>2 DEF NewProcess, InformerOK
<1> QED
  BY <1>2, <1>3, <1>4, <1>5, EndStep DEF NewProcess, TypeOK, ServerOK, server

LEMMA NextType ==
    ASSUME TypeOK, [Next]_vars
    PROVE  TypeOK'
<1>1. CASE UNCHANGED vars
  BY <1>1 DEF vars, server, informer, process, counters, TypeOK, ServerOK, InformerOK,
              WorkerOK, CallOK
<1> QED
  BY <1>1, CraneType, ReconcileType, AddFuncType, InformersType, UsersType,
     EndType DEF Next, ProcessEnds

(* The state of the controller is well-formed: in particular a worker that *)
(* writes the cache or lists Deployments holds a project name, never "".   *)
THEOREM TypeCorrect == Spec => []TypeOK
BY InitType, NextType, PTL DEF Spec
-----------------------------------------------------------------------------
(***************************************************************************)
(* No Deployment of a cached project is overlooked.  The invariant is      *)
(* inductive together with TypeOK; the argument is that the only step that *)
(* adds a project to the cache leaves the worker just before the List of   *)
(* that project, that a Deployment created later differs from the          *)
(* informer's copy until it is notified, and that each step that takes a   *)
(* Deployment out of a notification or a listing enters                    *)
(* CreateCraneAnalysis for it or finds its project not cached.             *)
(***************************************************************************)

(* No uid in use, or known to the informer, is still to be given out.      *)
UidOK == \A d \in Deployment : deployments[d] <= edits + 1 /\ seen[d] <= edits + 1

IInv == TypeOK /\ UidOK /\ NoDeploymentOverlooked

Present(d) == deployments[d] # 0 /\ nsCache[d[1]] # Nil

(* A step that adds no present Deployment, takes nothing from the history  *)
(* and leaves notifications and the listing alone keeps the invariant.     *)
LEMMA AccountedKept ==
    ASSUME NoDeploymentOverlooked,
           NEW d \in Deployment, Present(d)', Present(d)' => Present(d),
           attempted \subseteq attempted', excused \subseteq excused',
           Notifiable(d) => Notifiable(d)', Listing(d) => Listing(d)'
    PROVE  Accounted(d)'
BY DEF NoDeploymentOverlooked, Accounted, Present

LEMMA CraneAccounted ==
    ASSUME TypeOK, NoDeploymentOverlooked, NEW g \in Goroutines,
           CreateCraneAnalysis(g), NEW d \in Deployment, Present(d)'
    PROVE  Accounted(d)'
<1>1. UNCHANGED <<deployments, nsCache, worker, attempted, excused, seen, addEvents>>
  BY DEF CreateCraneAnalysis, CraneFound, CraneNotFound, CraneGetError, CraneCreate,
         server, informer
<1> QED
  BY <1>1, AccountedKept DEF Present, Notifiable, Listing

LEMMA ReconcileAccounted ==
    ASSUME TypeOK, NoDeploymentOverlooked, Reconcile,
           NEW d \in Deployment, Present(d)'
    PROVE  Accounted(d)'
<1> USE DEF Present, Notifiable, Listing, server, informer
<1>1. ASSUME NEW t \in Tasks, ReconcileMissing(t) \/ ReconcileTask(t)
      PROVE  Accounted(d)'
  <2>1. UNCHANGED <<deployments, nsCache, attempted, excused, seen, addEvents>>
    BY <1>1 DEF ReconcileMissing, ReconcileTask, process
  <2>2. ~Listing(d)
    BY <1>1 DEF ReconcileMissing, ReconcileTask
  <2> QED
    BY <2>1, <2>2, AccountedKept
<1>2. CASE SkipSelector \/ EmptyNamespace \/ BeginCacheWrite \/ ReconcileReturns
  <2>1. UNCHANGED <<deployments, nsCache, attempted, excused, seen, addEvents>>
    BY <1>2 DEF SkipSelector, EmptyNamespace, BeginCacheWrite, ReconcileReturns
  <2>2. ~Listing(d)
    BY <1>2 DEF SkipSelector, EmptyNamespace, BeginCacheWrite, ReconcileReturns,
                AtSelector
  <2> QED
    BY <2>1, <2>2, AccountedKept
<1>3. CASE DeploymentSelector
  <2>1. /\ UNCHANGED <<deployments, nsCache, excused, seen, addEvents>>
        /\ attempted \subseteq attempted'
    BY <1>3 DEF DeploymentSelector, Enter
  <2>2. ~Listing(d)
    BY <1>3 DEF DeploymentSelector, AtSelector
  <2> QED
    BY <2>1, <2>2, AccountedKept
<1>4. CASE EndCacheWrite
  <2>1. UNCHANGED <<deployments, attempted, excused, seen, addEvents>>
    BY <1>4 DEF EndCacheWrite
  <2>2. ~Listing(d)
    BY <1>4 DEF EndCacheWrite
  <2>3. CASE worker.ns = d[1]
    <3>1. worker'.ns = d[1] /\ worker'.pc = "list"
      BY <1>4, <2>3 DEF EndCacheWrite, TypeOK, WorkerOK
    <3> QED
      BY <3>1 DEF Accounted
  <2>4. CASE worker.ns # d[1]
    <3>1. d[1] \in Namespaces
      BY DEF Deployment
    <3>2. nsCache'[d[1]] = nsCache[d[1]]
      BY <1>4, <2>4, <3>1 DEF EndCacheWrite, TypeOK
    <3> QED
      BY <2>1, <2>2, <3>2, AccountedKept
  <2> QED
    BY <2>3, <2>4
<1>5. CASE ListDeployments
  <2>1. UNCHANGED <<deployments, nsCache, attempted, excused, seen, addEvents>>
    BY <1>5 DEF ListDeployments
  <2>2. Listing(d) => Listing(d)'
    <3>1. d[2] \in Names /\ d = <<d[1], d[2]>>
      BY DEF Deployment
    <3>2. worker' = [worker EXCEPT !.pc = "create", !.todo = Existing(worker.ns)]
      BY <1>5 DEF ListDeployments
    <3>3. /\ worker'.ns = worker.ns
          /\ worker'.pc = "create"
          /\ worker'.todo = Existing(worker.ns)
      BY <3>2 DEF TypeOK, WorkerOK
    <3>4. worker.ns = d[1] => d[2] \in Existing(worker.ns)
      BY <2>1, <3>1 DEF Existing
    <3> QED
      BY <3>3, <3>4
  <2> QED
    BY <2>1, <2>2, AccountedKept
<1>6. CASE ListError
  <2>1. /\ UNCHANGED <<deployments, nsCache, attempted, seen, addEvents>>
        /\ excused \subseteq excused'
    BY <1>6 DEF ListError
  <2>2. CASE worker.ns = d[1]
    <3>1. d[2] \in Names /\ d = <<d[1], d[2]>>
      BY DEF Deployment
    <3>2. d[2] \in Existing(worker.ns)
      BY <2>1, <2>2, <3>1 DEF Existing
    <3>3. d \in excused'
      BY <1>6, <2>2, <3>1, <3>2 DEF ListError
    <3> QED
      BY <3>3 DEF Accounted
  <2>3. CASE worker.ns # d[1]
    BY <2>1, <2>3, AccountedKept
  <2> QED
    BY <2>2, <2>3
<1>7. ASSUME NEW m \in Names, ListedDeployment(m) PROVE Accounted(d)'
  <2>1. /\ UNCHANGED <<deployments, nsCache, excused, seen, addEvents>>
        /\ attempted' = attempted \cup {<<worker.ns, m>>}
        /\ worker' = [worker EXCEPT !.todo = @ \ {m}]
        /\ worker.pc = "create"
    BY <1>7 DEF ListedDeployment, Enter
  <2>2. CASE d = <<worker.ns, m>>
    BY <2>1, <2>2 DEF Accounted
  <2>3. CASE d # <<worker.ns, m>>
    <3>1. worker.ns = d[1] => d[2] # m
      BY <2>3 DEF Deployment
    <3>2. Listing(d) => Listing(d)'
      BY <2>1, <3>1 DEF TypeOK, WorkerOK
    <3> QED
      BY <2>1, <3>2, AccountedKept
  <2> QED
    BY <2>2, <2>3
<1>8. CASE ListDone
  <2>1. UNCHANGED <<deployments, nsCache, attempted, excused, seen, addEvents>>
    BY <1>8 DEF ListDone
  <2>2. ~Listing(d)
    BY <1>8 DEF ListDone
  <2> QED
    BY <2>1, <2>2, AccountedKept
<1> QED
  BY <1>1, <1>2, <1>3, <1>4, <1>5, <1>6, <1>7, <1>8 DEF Reconcile

LEMMA AddFuncAccounted ==
    ASSUME TypeOK, NoDeploymentOverlooked, NEW e \in Deployment, AddFunc(e),
           NEW d \in Deployment, Present(d)'
    PROVE  Accounted(d)'
<1>1. /\ UNCHANGED <<deployments, nsCache, excused, seen, worker>>
      /\ addEvents' = addEvents \ {e}
  BY DEF AddFunc, server
<1>2. PICK entry \in LookUp(e[1]) :
        IF entry = Nil THEN UNCHANGED <<call, attempted>>
                       ELSE Enter("handler", e, entry.strategy)
  BY DEF AddFunc
<1>3. attempted \subseteq attempted'
  BY <1>2 DEF Enter
<1>4. CASE d # e
  BY <1>1, <1>3, <1>4, AccountedKept DEF Present, Notifiable, Listing
<1>5. CASE d = e /\ entry # Nil
  <2>1. d \in attempted'
    BY <1>2, <1>5 DEF Enter
  <2> QED
    BY <2>1 DEF Accounted
(* The project is cached, so a lookup that misses is impossible.           *)
<1>6. CASE d = e /\ entry = Nil
  <2>1. nsCache[d[1]] # Nil
    BY <1>1 DEF Present
  <2>2. entry = WrittenEntry
    BY <1>2, <1>6, <2>1 DEF LookUp
  <2>3. d[1] \in Namespaces
    BY DEF Deployment
  <2>4. WrittenEntry = [task |-> worker.task, strategy |-> worker.spec.strategy]
    BY DEF WrittenEntry
  <2>5. worker.pc = "write" => WrittenEntry # Nil
    BY <2>4, NilAssumption, SpecAssumption DEF TypeOK, WorkerOK, Entry
  <2> QED
    BY <1>2, <1>6, <2>1, <2>2, <2>4, <2>5 DEF LookUp
<1> QED
  BY <1>4, <1>5, <1>6

LEMMA InformersAccounted ==
    ASSUME TypeOK, NoDeploymentOverlooked, Informers,
           NEW d \in Deployment, Present(d)'
    PROVE  Accounted(d)'
<1> USE DEF Present, Notifiable, Listing, server, process
<1>1. ASSUME NEW t \in Tasks, TaskWatch(t) \/ TaskResync(t) \/ BackoffExpires(t)
      PROVE  Accounted(d)'
  <2>1. UNCHANGED <<deployments, nsCache, worker, attempted, excused, seen, addEvents>>
    BY <1>1 DEF TaskWatch, TaskResync, BackoffExpires
  <2> QED
    BY <2>1, AccountedKept
<1>2. ASSUME NEW e \in Deployment, DeploymentWatch(e) PROVE Accounted(d)'
  <2>1. /\ UNCHANGED <<deployments, nsCache, worker, attempted, excused>>
        /\ addEvents \subseteq addEvents'
    BY <1>2 DEF DeploymentWatch
  <2>2. Notifiable(d) => Notifiable(d)'
    <3>1. CASE d = e
      BY <1>2, <2>1, <3>1 DEF DeploymentWatch
    <3>2. CASE d # e
      BY <1>2, <2>1, <3>2 DEF DeploymentWatch, TypeOK, InformerOK
    <3> QED
      BY <3>1, <3>2
  <2> QED
    BY <2>1, <2>2, AccountedKept
<1>3. CASE DeploymentRelist
  <2>1. /\ UNCHANGED <<deployments, nsCache, worker, attempted>>
        /\ addEvents \subseteq addEvents' /\ excused \subseteq excused'
    BY <1>3 DEF DeploymentRelist
  <2>2. CASE seen[d] = deployments[d] \/ d \in addEvents
    BY <2>1, <2>2, AccountedKept
  <2>3. CASE seen[d] # deployments[d] /\ d \notin addEvents
    <3>1. d \in addEvents' \/ d \in excused'
      BY <1>3, <2>1, <2>3 DEF DeploymentRelist
    <3> QED
      BY <3>1 DEF Accounted
  <2> QED
    BY <2>2, <2>3
<1> QED
  BY <1>1, <1>2, <1>3 DEF Informers

LEMMA UsersAccounted ==
    ASSUME TypeOK, UidOK, NoDeploymentOverlooked, Users,
           NEW d \in Deployment, Present(d)'
    PROVE  Accounted(d)'
<1> USE DEF Present, Notifiable, Listing, informer, process
<1>1. ASSUME NEW t \in Tasks, SetTask(t) PROVE Accounted(d)'
  <2>1. UNCHANGED <<deployments, nsCache, worker, attempted, excused, seen, addEvents>>
    BY <1>1 DEF SetTask
  <2> QED
    BY <2>1, AccountedKept
<1>2. ASSUME NEW e \in Deployment, SetAnalytics(e) PROVE Accounted(d)'
  <2>1. UNCHANGED <<deployments, nsCache, worker, attempted, excused, seen, addEvents>>
    BY <1>2 DEF SetAnalytics
  <2> QED
    BY <2>1, AccountedKept
<1>3. ASSUME NEW e \in Deployment, DeleteDeployment(e) PROVE Accounted(d)'
  <2>1. /\ UNCHANGED <<nsCache, worker, attempted, excused, seen, addEvents>>
        /\ deployments' = [deployments EXCEPT ![e] = 0]
    BY <1>3 DEF DeleteDeployment
  <2>2. deployments'[d] = deployments[d]
    BY <2>1 DEF TypeOK, ServerOK
  <2> QED
    BY <2>1, <2>2, AccountedKept
(* A new Deployment has a uid the informer does not hold: what it holds    *)
(* was given out earlier.                                                  *)
<1>4. ASSUME NEW e \in Deployment, CreateDeployment(e) PROVE Accounted(d)'
  <2>1. /\ UNCHANGED <<nsCache, worker, attempted, excused, seen, addEvents>>
        /\ deployments' = [deployments EXCEPT ![e] = edits + 2]
    BY <1>4 DEF CreateDeployment
  <2>2. CASE d # e
    <3>1. deployments'[d] = deployments[d]
      BY <2>1, <2>2 DEF TypeOK, ServerOK
    <3> QED
      BY <2>1, <3>1, AccountedKept
  <2>3. CASE d = e
    <3>1. deployments'[d] = edits + 2
      BY <2>1, <2>3 DEF TypeOK, ServerOK
    <3> QED
      BY <2>1, <3>1 DEF Accounted, TypeOK, UidOK
  <2> QED
    BY <2>2, <2>3
<1> QED
  BY <1>1, <1>2, <1>3, <1>4 DEF Users

LEMMA EndAccounted ==
    ASSUME TypeOK, ProcessEnds, NEW d \in Deployment, Present(d)'
    PROVE  Accounted(d)'
<1>1. nsCache'[d[1]] = Nil
  BY EndStep DEF NewProcess, Deployment
<1> QED
  BY <1>1 DEF Present

LEMMA NextUid ==
    ASSUME TypeOK, UidOK, [Next]_vars
    PROVE  UidOK'
<1> USE DEF TypeOK, ServerOK, InformerOK, UidOK
<1>1. CASE UNCHANGED <<deployments, seen, edits>>
  BY <1>1
<1>2. ASSUME NEW d \in Deployment, DeploymentWatch(d) PROVE UidOK'
  BY <1>2 DEF DeploymentWatch, server, counters
<1>3. CASE DeploymentRelist
  BY <1>3 DEF DeploymentRelist, server
<1>4. ASSUME NEW t \in Tasks, SetTask(t) PROVE UidOK'
  BY <1>4 DEF SetTask, Edit, informer
<1>5. ASSUME NEW d \in Deployment, CreateDeployment(d) PROVE UidOK'
  BY <1>5 DEF CreateDeployment, Edit, informer
<1>6. ASSUME NEW d \in Deployment, DeleteDeployment(d) PROVE UidOK'
  BY <1>6 DEF DeleteDeployment, Edit, informer
<1>7. ASSUME NEW d \in Deployment, SetAnalytics(d) PROVE UidOK'
  BY <1>7 DEF SetAnalytics, Edit, informer
<1>8. CASE ProcessEnds
  BY <1>8, EndStep DEF NewProcess, server
<1>9. ASSUME NEW g \in Goroutines, CreateCraneAnalysis(g)
      PROVE  UNCHANGED <<deployments, seen, edits>>
  BY <1>9 DEF CreateCraneAnalysis, CraneFound, CraneNotFound, CraneGetError,
              CraneCreate, server, informer, counters
<1>10. ASSUME Reconcile PROVE UNCHANGED <<deployments, seen, edits>>
  BY <1>10 DEF Reconcile, ReconcileMissing, ReconcileTask, SkipSelector,
     DeploymentSelector, EmptyNamespace, BeginCacheWrite, EndCacheWrite,
     ListDeployments, ListError, ListedDeployment, ListDone, ReconcileReturns,
     server, informer, counters
<1>11. ASSUME NEW d \in Deployment, AddFunc(d)
       PROVE  UNCHANGED <<deployments, seen, edits>>
  BY <1>11 DEF AddFunc, server, counters
<1>12. ASSUME NEW t \in Tasks, TaskWatch(t) \/ TaskResync(t) \/ BackoffExpires(t)
       PROVE  UNCHANGED <<deployments, seen, edits>>
  BY <1>12 DEF TaskWatch, TaskResync, BackoffExpires, server, counters
<1>13. CASE UNCHANGED vars
  BY <1>1, <1>13 DEF vars, server, informer, counters
<1> QED
  BY <1>1, <1>2, <1>3, <1>4, <1>5, <1>6, <1>7, <1>8, <1>9, <1>10, <1>11, <1>12, <1>13
     DEF Next, Informers, Users, ProcessEnds

LEMMA NextAccounted ==
    ASSUME TypeOK, UidOK, NoDeploymentOverlooked, [Next]_vars
    PROVE  NoDeploymentOverlooked'
<1> SUFFICES ASSUME NEW d \in Deployment, Present(d)'
             PROVE  Accounted(d)'
  BY DEF NoDeploymentOverlooked, Present
<1>1. CASE UNCHANGED vars
  BY <1>1, AccountedKept
     DEF vars, server, informer, process, Present, Notifiable, Listing
<1> QED
  BY <1>1, CraneAccounted, ReconcileAccounted, AddFuncAccounted, InformersAccounted,
     UsersAccounted, EndAccounted DEF Next, ProcessEnds

(* Once a project is cached no Deployment of it falls between the List of  *)
(* the reconciler and the notifications of the informer, whatever the      *)
(* interleaving: it is attempted, being listed, being notified, or one of  *)
(* the recorded exceptions.                                                *)
THEOREM DeploymentsNotOverlooked == Spec => []NoDeploymentOverlooked
<1>1. Init => IInv
  <2>1. Init => UidOK
    BY BoundAssumption DEF Init, UidOK
  <2>2. Init => NoDeploymentOverlooked
    BY DEF Init, NoDeploymentOverlooked, Deployment
  <2> QED
    BY <2>1, <2>2, InitType DEF IInv
<1>2. IInv /\ [Next]_vars => IInv'
  BY NextType, NextUid, NextAccounted DEF IInv
<1>3. IInv => NoDeploymentOverlooked
  BY DEF IInv
<1> QED
  BY <1>1, <1>2, <1>3, PTL DEF Spec
-----------------------------------------------------------------------------
(***************************************************************************)
(* A change of a task is not lost.  EntriesFollowTasks speaks of tasks at  *)
(* rest; the inductive invariant also says how far a pass under way has    *)
(* come: each project a task outside the queue selects has its entry, or   *)
(* the running pass, which then works on the cached spec, still comes to   *)
(* a selector of it.                                                       *)
(***************************************************************************)

(* Selector i of a spec names project n, and the pass gets to it.          *)
Chosen(spec, i, n) ==
    /\ spec.selectors[i] = [kind |-> "Namespace", name |-> n]
    /\ \A j \in 1..i : spec.selectors[j] # [kind |-> "Namespace", name |-> Nil]

Enrolled(t, n) ==
    /\ nsCache[n] # Nil
    /\ nsCache[n].task = t => nsCache[n].strategy = taskCache[t].strategy

Upcoming(t, n) ==
    /\ worker.pc # "idle" /\ worker.task = t
    /\ \E i \in DOMAIN taskCache[t].selectors :
          /\ Chosen(taskCache[t], i, n)
          /\ i >= worker.next
          /\ i = worker.next => worker.pc \in {"select", "write"}

(* A worker inside a selector is at a project selector of its spec.        *)
InSelector ==
    worker.pc \in {"write", "list", "create"} =>
       /\ worker.next \in DOMAIN worker.spec.selectors
       /\ CurrentSelector.kind = "Namespace" /\ CurrentSelector.name = worker.ns

SpecCurrent ==
    \A t \in Tasks : worker.pc # "idle" /\ worker.task = t /\ t \notin queue =>
       worker.spec = taskCache[t]

EntriesKept ==
    faults = 0 =>
       \A t \in Tasks : t \notin queue /\ taskCache[t] # Nil =>
          \A n \in Selected(taskCache[t]) : Enrolled(t, n) \/ Upcoming(t, n)

PassInv == InSelector /\ SpecCurrent /\ EntriesKept

LEMMA SelectedChosen ==
    ASSUME NEW spec \in TaskSpecs, NEW n
    PROVE  /\ spec.selectors \in Seq(Selector)
           /\ n \in Selected(spec) <=>
                 /\ n \in Namespaces /\ spec.type = "Namespace"
                 /\ \E i \in DOMAIN spec.selectors : Chosen(spec, i, n)
<1>1. spec # Nil /\ spec.selectors \in Seq(Selector)
  BY NilAssumption, SpecAssumption
<1> QED
  BY <1>1 DEF Selected, Chosen

LEMMA ChosenFields ==
    ASSUME NEW spec \in TaskSpecs, NEW i \in DOMAIN spec.selectors, NEW n
    PROVE  /\ i \in Nat /\ i >= 1 /\ i <= Len(spec.selectors)
           /\ spec.selectors[i] = [kind |-> "Namespace", name |-> n] <=>
                 spec.selectors[i].kind = "Namespace" /\ spec.selectors[i].name = n
<1>1. spec.selectors \in Seq(Selector)
  BY SpecAssumption
<1>2. spec.selectors[i] \in Selector
  BY <1>1
<1> QED
  BY <1>1, <1>2 DEF Selector

(* Selectors the worker has behind it once it is done with the present one. *)
LEMMA UpcomingFields ==
    ASSUME TypeOK, InSelector, SpecCurrent, NEW t \in Tasks, NEW n,
           t \notin queue, taskCache[t] # Nil, Upcoming(t, n)
    PROVE  /\ taskCache[t] = worker.spec /\ worker.spec \in TaskSpecs
           /\ worker.next \in Nat
           /\ worker.next <= Len(worker.spec.selectors)
           /\ CurrentSelector # [kind |-> "Namespace", name |-> Nil]
           /\ \A i \in DOMAIN worker.spec.selectors :
                 i = worker.next /\ Chosen(worker.spec, i, n) =>
                    CurrentSelector.kind = "Namespace" /\ CurrentSelector.name = n
<1>1. taskCache[t] = worker.spec /\ worker.spec \in TaskSpecs /\ worker.next \in Nat \ {0}
  BY DEF Upcoming, SpecCurrent, TypeOK, WorkerOK
<1>2. PICK i \in DOMAIN worker.spec.selectors :
        Chosen(worker.spec, i, n) /\ i >= worker.next
  BY <1>1 DEF Upcoming
<1>3. i \in Nat /\ i <= Len(worker.spec.selectors)
  BY <1>1, ChosenFields
<1>4. worker.next \in 1..i
  BY <1>1, <1>2, <1>3
<1>5. CurrentSelector # [kind |-> "Namespace", name |-> Nil]
  BY <1>2, <1>4 DEF Chosen, CurrentSelector
<1> QED
  BY <1>1, <1>2, <1>3, <1>5, ChosenFields DEF CurrentSelector, Chosen

(* A step that leaves the cache of tasks, the worker and the entries alone *)
(* and takes nothing from the queue.                                       *)
LEMMA PassKept ==
    ASSUME PassInv, UNCHANGED <<taskCache, nsCache, worker>>, queue \subseteq queue',
           faults' = 0 => faults = 0
    PROVE  PassInv'
<1> USE DEF PassInv
<1>1. InSelector' /\ SpecCurrent'
  BY DEF InSelector, SpecCurrent, CurrentSelector
<1>2. EntriesKept'
  BY DEF EntriesKept, Enrolled, Upcoming
<1> QED
  BY <1>1, <1>2

(* A step of the worker other than the write: it may only give up          *)
(* selectors that chose no project without an entry.                       *)
LEMMA WorkerEntries ==
    ASSUME TypeOK, PassInv, UNCHANGED <<taskCache, queue, nsCache>>,
           faults' = 0 => faults = 0,
           \A t \in Tasks, n \in Namespaces :
              /\ t \notin queue /\ taskCache[t] # Nil /\ n \in Selected(taskCache[t])
              /\ Upcoming(t, n)
              => Upcoming(t, n)'
    PROVE  EntriesKept'
BY DEF PassInv, EntriesKept, Enrolled, Selected

LEMMA SameSpec ==
    ASSUME SpecCurrent, UNCHANGED <<taskCache, queue>>,
           worker'.pc # "idle" => /\ worker.pc # "idle"
                                  /\ worker'.task = worker.task
                                  /\ worker'.spec = worker.spec
    PROVE  SpecCurrent'
BY DEF SpecCurrent

LEMMA IdleFields == IdleWorker.pc = "idle"
BY DEF IdleWorker

LEMMA NextFields ==
    ASSUME WorkerOK
    PROVE  /\ NextSelector.pc = "select" /\ NextSelector.task = worker.task
           /\ NextSelector.spec = worker.spec /\ NextSelector.next = worker.next + 1
BY DEF NextSelector, WorkerOK

LEMMA ReconcilePass ==
    ASSUME TypeOK, PassInv, Reconcile
    PROVE  PassInv'
<1> USE DEF PassInv
<1>1. ASSUME NEW u \in Tasks, ReconcileMissing(u) PROVE PassInv'
  <2>1. /\ UNCHANGED <<taskCache, nsCache, worker, faults>>
        /\ queue' = queue \ {u} /\ taskCache[u] = Nil /\ worker.pc = "idle"
    BY <1>1 DEF ReconcileMissing, process, counters
  <2>2. InSelector' /\ SpecCurrent'
    BY <2>1 DEF InSelector, SpecCurrent
  <2>3. EntriesKept'
    BY <2>1 DEF EntriesKept, Enrolled, Upcoming
  <2> QED
    BY <2>2, <2>3
<1>2. ASSUME NEW u \in Tasks, ReconcileTask(u) PROVE PassInv'
  <2>1. /\ UNCHANGED <<taskCache, nsCache, faults>>
        /\ queue' = queue \ {u} /\ taskCache[u] \in TaskSpecs /\ worker.pc = "idle"
    BY <1>2 DEF ReconcileTask, counters, TypeOK, InformerOK
  <2>2. CASE taskCache[u].type \notin {"Deployment", "Namespace"}
    <3>1. worker' = IdleWorker
      BY <1>2, <2>2 DEF ReconcileTask
    <3>2. InSelector' /\ SpecCurrent'
      BY <3>1, IdleFields DEF InSelector, SpecCurrent
    <3>3. Selected(taskCache[u]) = {}
      BY <2>2 DEF Selected
    <3>4. EntriesKept'
      BY <2>1, <3>3 DEF EntriesKept, Enrolled, Upcoming
    <3> QED
      BY <3>2, <3>4
  <2>3. CASE taskCache[u].type \in {"Deployment", "Namespace"}
    <3>1. worker' = [IdleWorker EXCEPT !.pc = "select", !.task = u,
                                       !.spec = taskCache[u]]
      BY <1>2, <2>3 DEF ReconcileTask
    <3>2. /\ worker'.pc = "select" /\ worker'.task = u
          /\ worker'.spec = taskCache[u] /\ worker'.next = 1
      BY <3>1 DEF IdleWorker
    <3>3. InSelector' /\ SpecCurrent'
      BY <2>1, <3>2 DEF InSelector, SpecCurrent
    <3>4. ASSUME NEW n \in Selected(taskCache[u]) PROVE Upcoming(u, n)'
      <4>1. PICK i \in DOMAIN taskCache[u].selectors : Chosen(taskCache[u], i, n)
        BY <2>1, <3>4, SelectedChosen
      <4>2. i >= 1
        BY <2>1, <4>1, ChosenFields
      <4>3. Chosen(taskCache[u], i, n)'
        BY <2>1, <4>1 DEF Chosen
      <4> QED
        BY <2>1, <3>2, <4>2, <4>3 DEF Upcoming
    <3>5. EntriesKept'
      BY <2>1, <3>4 DEF EntriesKept, Enrolled, Upcoming
    <3> QED
      BY <3>3, <3>5
  <2> QED
    BY <2>2, <2>3
(* The pass moves to the next selector; the present one chose nothing.     *)
<1>3. ASSUME worker' = NextSelector, UNCHANGED <<taskCache, queue, nsCache>>,
             faults' = 0 => faults = 0, worker.pc # "idle",
             \A t \in Tasks, n \in Namespaces :
                n \in Selected(taskCache[t]) /\ worker.spec = taskCache[t]
                   /\ worker.pc \in {"select", "write"}
                   => ~Chosen(worker.spec, worker.next, n)
      PROVE  PassInv'
  <2>1. /\ worker'.pc = "select" /\ worker'.task = worker.task
        /\ worker'.spec = worker.spec /\ worker'.next = worker.next + 1
    BY <1>3, NextFields DEF TypeOK
  <2>2. InSelector' /\ SpecCurrent'
    BY <1>3, <2>1, SameSpec DEF InSelector
  <2>3. ASSUME NEW t \in Tasks, NEW n \in Namespaces, t \notin queue,
               taskCache[t] # Nil, n \in Selected(taskCache[t]), Upcoming(t, n)
        PROVE  Upcoming(t, n)'
    <3>1. /\ taskCache[t] = worker.spec /\ worker.next \in Nat
          /\ taskCache[t] \in TaskSpecs
      BY <2>3, UpcomingFields
    <3>2. PICK i \in DOMAIN taskCache[t].selectors :
            /\ Chosen(taskCache[t], i, n)
            /\ i >= worker.next
            /\ i = worker.next => worker.pc \in {"select", "write"}
      BY <2>3 DEF Upcoming
    <3>3. i \in Nat
      BY <3>1, ChosenFields
    <3>4. i # worker.next
      BY <1>3, <2>3, <3>1, <3>2
    <3>5. i >= worker.next + 1
      BY <3>1, <3>2, <3>3, <3>4
    <3>6. Chosen(taskCache[t], i, n)'
      BY <1>3, <3>2 DEF Chosen
    <3>7. worker'.task = t /\ i >= worker'.next
      BY <2>1, <2>3, <3>5 DEF Upcoming
    <3> QED
      BY <1>3, <2>1, <3>6, <3>7 DEF Upcoming
  <2>4. EntriesKept'
    BY <1>3, <2>3, WorkerEntries
  <2> QED
    BY <2>2, <2>4
(* The pass ends; no selector was left that chose a project.               *)
<1>4. ASSUME worker' = IdleWorker, UNCHANGED <<taskCache, queue, nsCache>>,
             faults' = 0 => faults = 0,
             \A t \in Tasks, n \in Namespaces :
                /\ t \notin queue /\ taskCache[t] # Nil
                /\ n \in Selected(taskCache[t])
                => ~Upcoming(t, n)
      PROVE  PassInv'
  <2>1. InSelector' /\ SpecCurrent'
    BY <1>4, IdleFields, SameSpec DEF InSelector
  <2>2. EntriesKept'
    BY <1>4, WorkerEntries
  <2> QED
    BY <2>1, <2>2
(* The pass stays at its selector.                                         *)
<1>5. ASSUME UNCHANGED <<taskCache, queue, nsCache>>, faults' = 0 => faults = 0,
             worker.pc # "idle", worker'.pc # "idle",
             worker'.task = worker.task, worker'.spec = worker.spec,
             worker'.next = worker.next,
             worker.pc \in {"select", "write"} => worker'.pc \in {"select", "write"},
             InSelector'
      PROVE  PassInv'
  <2>1. SpecCurrent'
    BY <1>5, SameSpec
  <2>2. ASSUME NEW t \in Tasks, NEW n, Upcoming(t, n) PROVE Upcoming(t, n)'
    BY <1>5, <2>2 DEF Upcoming, Chosen
  <2>3. EntriesKept'
    BY <1>5, <2>2, WorkerEntries
  <2> QED
    BY <1>5, <2>1, <2>3
<1>6. CASE SkipSelector
  <2>1. ASSUME NEW t \in Tasks, NEW n \in Namespaces, n \in Selected(taskCache[t]),
               worker.spec = taskCache[t]
        PROVE  ~Chosen(worker.spec, worker.next, n)
    <3>1. worker.spec \in TaskSpecs
      BY <1>6 DEF SkipSelector, AtSelector, TypeOK, WorkerOK
    <3>2. worker.spec.type = "Namespace"
      BY <2>1, <3>1, SelectedChosen
    <3>3. CurrentSelector.kind # "Namespace"
      BY <1>6, <3>2 DEF SkipSelector
    <3> QED
      BY <3>3 DEF Chosen, CurrentSelector
  <2> QED
    BY <1>3, <1>6, <2>1 DEF SkipSelector, AtSelector, informer, counters
<1>7. CASE DeploymentSelector
  <2>1. ASSUME NEW t \in Tasks, NEW n \in Namespaces, n \in Selected(taskCache[t]),
               worker.spec = taskCache[t]
        PROVE  ~Chosen(worker.spec, worker.next, n)
    BY <1>7, <2>1 DEF DeploymentSelector, Selected
  <2> QED
    BY <1>3, <1>7, <2>1 DEF DeploymentSelector, AtSelector, informer, counters
<1>8. CASE EmptyNamespace
  <2>1. CurrentSelector \in Selector
    <3>1. worker.spec \in TaskSpecs /\ worker.spec.selectors \in Seq(Selector)
      BY <1>8, SpecAssumption DEF EmptyNamespace, AtSelector, TypeOK, WorkerOK
    <3> QED
      BY <1>8, <3>1 DEF EmptyNamespace, AtSelector, TypeOK, WorkerOK, CurrentSelector
  <2>2. CurrentSelector = [kind |-> "Namespace", name |-> Nil]
    BY <1>8, <2>1 DEF EmptyNamespace, Selector
  <2>3. ASSUME NEW t \in Tasks, NEW n \in Namespaces, t \notin queue,
               taskCache[t] # Nil
        PROVE  ~Upcoming(t, n)
    BY <2>2, <2>3, UpcomingFields
  <2> QED
    BY <1>4, <1>8, <2>3 DEF EmptyNamespace, informer, counters
<1>9. CASE BeginCacheWrite
  <2>1. worker' = [worker EXCEPT !.pc = "write", !.ns = CurrentSelector.name]
    BY <1>9 DEF BeginCacheWrite
  <2>2. /\ worker'.pc = "write" /\ worker'.ns = CurrentSelector.name
        /\ worker'.task = worker.task /\ worker'.spec = worker.spec
        /\ worker'.next = worker.next
    BY <2>1 DEF TypeOK, WorkerOK
  <2>3. worker.next \in DOMAIN worker.spec.selectors
    <3>1. worker.spec \in TaskSpecs /\ worker.spec.selectors \in Seq(Selector)
      BY <1>9, SpecAssumption DEF BeginCacheWrite, AtSelector, TypeOK, WorkerOK
    <3> QED
      BY <1>9, <3>1 DEF BeginCacheWrite, AtSelector, TypeOK, WorkerOK
  <2>4. InSelector'
    BY <1>9, <2>2, <2>3 DEF BeginCacheWrite, InSelector, CurrentSelector
  <2> QED
    BY <1>5, <1>9, <2>2, <2>4
       DEF BeginCacheWrite, AtSelector, informer, counters
<1>10. CASE ListDeployments
  <2>1. worker' = [worker EXCEPT !.pc = "create", !.todo = Existing(worker.ns)]
    BY <1>10 DEF ListDeployments
  <2>2. /\ worker'.pc = "create" /\ worker'.ns = worker.ns
        /\ worker'.task = worker.task /\ worker'.spec = worker.spec
        /\ worker'.next = worker.next
    BY <2>1 DEF TypeOK, WorkerOK
  <2>3. InSelector'
    BY <1>10, <2>2 DEF ListDeployments, InSelector, CurrentSelector
  <2> QED
    BY <1>5, <1>10, <2>2, <2>3 DEF ListDeployments, informer, counters
<1>11. CASE ListError
  <2>1. faults' # 0
    BY <1>11 DEF ListError, TypeOK
  <2>2. InSelector' /\ SpecCurrent'
    BY <1>11, IdleFields, SameSpec DEF ListError, InSelector, informer
  <2> QED
    BY <2>1, <2>2 DEF EntriesKept
<1>12. ASSUME NEW m \in Names, ListedDeployment(m) PROVE PassInv'
  <2>1. worker' = [worker EXCEPT !.todo = @ \ {m}] /\ worker.pc = "create"
    BY <1>12 DEF ListedDeployment
  <2>2. /\ worker'.pc = "create" /\ worker'.ns = worker.ns
        /\ worker'.task = worker.task /\ worker'.spec = worker.spec
        /\ worker'.next = worker.next
    BY <2>1 DEF TypeOK, WorkerOK
  <2>3. InSelector'
    BY <2>1, <2>2 DEF InSelector, CurrentSelector
  <2> QED
    BY <1>5, <1>12, <2>1, <2>2, <2>3 DEF ListedDeployment, informer, counters
<1>13. CASE ListDone
  BY <1>3, <1>13 DEF ListDone, informer, counters
<1>14. CASE ReconcileReturns
  <2>1. ASSUME NEW t \in Tasks, NEW n \in Namespaces, t \notin queue,
               taskCache[t] # Nil
        PROVE  ~Upcoming(t, n)
    <3>1. worker.spec.selectors \in Seq(Selector) /\ worker.next \in Nat
      BY <1>14, SpecAssumption DEF ReconcileReturns, TypeOK, WorkerOK
    <3> QED
      BY <1>14, <2>1, <3>1, UpcomingFields DEF ReconcileReturns
  <2> QED
    BY <1>4, <1>14, <2>1 DEF ReconcileReturns, informer, counters
(* The write: it enrols the project of the present selector, and leaves    *)
(* the entries of the others.                                              *)
<1>15. CASE EndCacheWrite
  <2>1. /\ UNCHANGED <<taskCache, queue, faults>> /\ worker.pc = "write"
        /\ nsCache' = [nsCache EXCEPT ![worker.ns] = WrittenEntry]
        /\ worker' = [worker EXCEPT !.pc = "list"]
    BY <1>15 DEF EndCacheWrite, informer, counters
  <2>2. /\ worker'.pc = "list" /\ worker'.ns = worker.ns
        /\ worker'.task = worker.task /\ worker'.spec = worker.spec
        /\ worker'.next = worker.next
    BY <2>1 DEF TypeOK, WorkerOK
  <2>3. InSelector'
    BY <2>1, <2>2 DEF InSelector, CurrentSelector
  <2>4. SpecCurrent'
    BY <2>1, <2>2, SameSpec
  <2>5. ASSUME NEW t \in Tasks, NEW n \in Namespaces, t \notin queue,
               taskCache[t] # Nil, n \in Selected(taskCache[t]),
               Enrolled(t, n) \/ Upcoming(t, n)
        PROVE  Enrolled(t, n)' \/ Upcoming(t, n)'
    <3>1. CASE n = worker.ns
      <4>1. nsCache'[n] = WrittenEntry
        BY <2>1, <3>1 DEF TypeOK
      <4>2. WrittenEntry = [task |-> worker.task, strategy |-> worker.spec.strategy]
        BY DEF WrittenEntry
      <4>3. WrittenEntry # Nil
        BY <2>1, <4>2, NilAssumption, SpecAssumption DEF TypeOK, WorkerOK, Entry
      <4>4. worker.task = t => worker.spec = taskCache[t]
        BY <2>1, <2>5 DEF SpecCurrent
      <4>5. Enrolled(t, n)'
        BY <2>1, <4>1, <4>2, <4>3, <4>4 DEF Enrolled
      <4> QED
        BY <4>5
    <3>2. CASE n # worker.ns
      <4>1. nsCache'[n] = nsCache[n]
        BY <2>1, <3>2 DEF TypeOK
      <4>2. CASE Enrolled(t, n)
        BY <2>1, <4>1, <4>2 DEF Enrolled
      <4>3. CASE Upcoming(t, n)
        <5>1. PICK i \in DOMAIN taskCache[t].selectors :
                Chosen(taskCache[t], i, n) /\ i >= worker.next
          BY <4>3 DEF Upcoming
        <5>2. i # worker.next
          BY <2>1, <2>5, <3>2, <4>3, <5>1, UpcomingFields DEF InSelector
        <5>3. Chosen(taskCache[t], i, n)'
          BY <2>1, <5>1 DEF Chosen
        <5>4. Upcoming(t, n)'
          BY <2>1, <2>2, <4>3, <5>1, <5>2, <5>3 DEF Upcoming
        <5> QED
          BY <5>4
      <4> QED
        BY <2>5, <4>2, <4>3
    <3> QED
      BY <3>1, <3>2
  <2>6. EntriesKept'
    BY <2>1, <2>5 DEF EntriesKept, Selected
  <2> QED
    BY <2>3, <2>4, <2>6
<1> QED
  BY <1>1, <1>2, <1>6, <1>7, <1>8, <1>9, <1>10, <1>11, <1>12, <1>13, <1>14, <1>15
     DEF Reconcile

LEMMA NextPass ==
    ASSUME TypeOK, PassInv, [Next]_vars
    PROVE  PassInv'
<1>1. ASSUME NEW g \in Goroutines, CreateCraneAnalysis(g) PROVE PassInv'
  <2>1. /\ UNCHANGED <<taskCache, queue, nsCache, worker>>
        /\ faults' = 0 => faults = 0
    BY <1>1 DEF CreateCraneAnalysis, CraneFound, CraneNotFound, CraneGetError,
                CraneCreate, informer, counters, TypeOK
  <2> QED
    BY <2>1, PassKept
<1>2. ASSUME NEW d \in Deployment, AddFunc(d) PROVE PassInv'
  BY <1>2, PassKept DEF AddFunc, counters
(* A new version of a task queues it.                                      *)
<1>3. ASSUME NEW u \in Tasks, TaskWatch(u) PROVE PassInv'
  <2>1. /\ UNCHANGED <<nsCache, worker, faults>> /\ queue' = queue \cup {u}
        /\ \A t \in Tasks : t # u => taskCache'[t] = taskCache[t]
    BY <1>3 DEF TaskWatch, process, counters, TypeOK, InformerOK
  <2>2. InSelector' /\ SpecCurrent'
    BY <2>1 DEF PassInv, InSelector, SpecCurrent, CurrentSelector
  <2>3. ASSUME NEW t \in Tasks, t \notin queue', NEW n
        PROVE  /\ Enrolled(t, n) => Enrolled(t, n)'
               /\ Upcoming(t, n) => Upcoming(t, n)'
    BY <2>1, <2>3 DEF Enrolled, Upcoming, Chosen
  <2>4. EntriesKept'
    BY <2>1, <2>3 DEF PassInv, EntriesKept
  <2> QED
    BY <2>2, <2>4 DEF PassInv
<1>4. ASSUME NEW u \in Tasks, TaskResync(u) \/ BackoffExpires(u) PROVE PassInv'
  BY <1>4, PassKept DEF TaskResync, BackoffExpires, process, counters
<1>5. ASSUME NEW d \in Deployment, DeploymentWatch(d) PROVE PassInv'
  BY <1>5, PassKept DEF DeploymentWatch, process, counters
<1>6. CASE DeploymentRelist
  <2>1. /\ UNCHANGED <<taskCache, queue, nsCache, worker>>
        /\ faults' = 0 => faults = 0
    BY <1>6 DEF DeploymentRelist, TypeOK
  <2> QED
    BY <2>1, PassKept
<1>7. CASE Users
  <2>1. UNCHANGED <<taskCache, queue, nsCache, worker, faults>>
    BY <1>7 DEF Users, SetTask, CreateDeployment, DeleteDeployment, SetAnalytics,
                informer, process
  <2> QED
    BY <2>1, PassKept
(* After a restart no task is cached.                                      *)
<1>8. CASE ProcessEnds
  <2>1. \A t \in Tasks : taskCache'[t] = Nil
    BY <1>8, EndStep DEF NewProcess
  <2>2. worker'.pc = "idle"
    BY <1>8, EndStep, IdleFields DEF NewProcess
  <2> QED
    BY <2>1, <2>2 DEF PassInv, InSelector, SpecCurrent, EntriesKept
<1>9. CASE UNCHANGED vars
  BY <1>9, PassKept DEF vars, informer, process, counters
<1> QED
  BY <1>1, <1>2, <1>3, <1>4, <1>5, <1>6, <1>7, <1>8, <1>9, ReconcilePass
     DEF Next, Informers, ProcessEnds

(* However many tasks select a project, change and overtake each other, a  *)
(* task at rest has enrolled every project it selects, and an entry of its *)
(* own carries the strategy it has now.                                    *)
THEOREM EntriesFollow == Spec => []EntriesFollowTasks
<1>1. Init => PassInv
  BY DEF Init, IdleWorker, PassInv, InSelector, SpecCurrent, EntriesKept
<1>2. PassInv /\ TypeOK => EntriesFollowTasks
  <2> SUFFICES ASSUME PassInv, TypeOK, NEW t \in Tasks, Settled(t),
                      NEW n \in Selected(tasks[t])
               PROVE  /\ nsCache[n] # Nil
                      /\ nsCache[n].task = t => nsCache[n].strategy = tasks[t].strategy
    BY DEF EntriesFollowTasks
  <2>1. taskCache[t] # Nil
    BY DEF Settled, Selected
  <2>2. Enrolled(t, n)
    BY <2>1 DEF PassInv, EntriesKept, Settled, Upcoming
  <2> QED
    BY <2>2 DEF Enrolled, Settled
<1>3. TypeOK /\ PassInv /\ [Next]_vars => PassInv'
  BY NextPass
<1> QED
  BY <1>1, <1>2, <1>3, TypeCorrect, PTL DEF Spec
=============================================================================
