------------------------- MODULE AnalysisController -------------------------
(***************************************************************************)
(* The analysis controller of the schedule controller-manager: the         *)
(* reconciler of AnalysisTask objects, its namespace cache, the event      *)
(* handler of the Deployment informer and the CreateCraneAnalysis call     *)
(* they share (pkg/controller/schedule/analysis, pkg/service/schedule).    *)
(*                                                                         *)
(* Two goroutines of one process run the code: the reconcile worker        *)
(* (MaxConcurrentReconciles is left at its default of one) and the         *)
(* goroutine that delivers the informer's notifications.  They share       *)
(* NameSpaceCache without a lock.  Everything else they talk to, the API   *)
(* server, the informers and the work queue, is library code seen through  *)
(* the calls this repository makes of it.                                  *)
(***************************************************************************)
EXTENDS Naturals, Sequences, FiniteSets

CONSTANTS
    Tasks,        \* names of AnalysisTask objects
    Namespaces,   \* projects
    Names,        \* names of Deployments within a project
    Strategies,   \* values of spec.completionStrategy
    Home,         \* Home[t]: the namespace AnalysisTask t is stored in
    TaskSpecs,    \* the specs users give to tasks
    Nil,          \* a missing object, and the empty string
    MaxEdits,     \* bound: changes users make to the cluster
    MaxFaults,    \* bound: failed API calls and broken watches
    MaxRestarts   \* bound: ends of the process, each followed by a restart

Kinds == {"Deployment", "Namespace", "Other"}

Selector == [kind : Kinds, name : Namespaces \cup Names \cup {Nil}]

(* A Go map of at most eight entries is one bucket whose entries never     *)
(* move, so a lookup that races with a write of another key is undisturbed. *)
ASSUME SmallMap == IsFiniteSet(Namespaces) /\ Cardinality(Namespaces) \in 1..8

Entry == [task : Tasks, strategy : Strategies]

ASSUME NilAssumption ==
    Nil \notin Tasks \cup Namespaces \cup Names \cup Strategies \cup TaskSpecs
            \cup Entry

ASSUME SpecAssumption ==
    /\ TaskSpecs \subseteq
          [type : Kinds, selectors : Seq(Selector), strategy : Strategies]
    (* What a Deployment selector names is a Deployment; the rest of what  *)
    (* a user may write there reaches the API server as a missing object.  *)
    /\ \A spec \in TaskSpecs : \A i \in DOMAIN spec.selectors :
          LET sel == spec.selectors[i] IN
          /\ sel.kind = "Deployment" => sel.name \in Names
          /\ sel.kind = "Namespace" => sel.name \in Namespaces \cup {Nil}
    /\ Home \in [Tasks -> Namespaces]

ASSUME BoundAssumption == {MaxEdits, MaxFaults, MaxRestarts} \subseteq Nat

Deployment == Namespaces \X Names

(* An Analytics lives in the namespace of its workload under a name made   *)
(* from the workload's, so a Deployment also identifies its Analytics.     *)
Object == [name : Names \cup {Nil}, strategy : Strategies \cup {Nil}]
EmptyObject == [name |-> Nil, strategy |-> Nil]

Goroutines == {"worker", "handler"}

VARIABLES
    (* the API server *)
    tasks,        \* the spec of each AnalysisTask, or Nil
    deployments,  \* the uid of each Deployment, 0 when it does not exist
    analytics,    \* the strategy of each Analytics, or Nil
    (* the informers and the work queue of the process *)
    taskCache,    \* the manager's cached copy of tasks
    queue,        \* task names ready to be reconciled
    backoff,      \* task names waiting for their rate-limited retry
    seen,         \* the Deployment informer's copy of deployments
    addEvents,    \* Add notifications not yet handed to AddFunc
    tombstones,   \* deletions found by a relist, not yet handed to DeleteFunc
    (* the reconciler *)
    nsCache,      \* NameSpaceCache
    worker,       \* where the reconcile worker is
    call,         \* the CreateCraneAnalysis call of each goroutine
    (* history and bounds *)
    attempted,    \* Deployments this process called CreateCraneAnalysis for
    excused,      \* Deployments a dropped error or Update notification cost
    edits, faults, restarts

server    == <<tasks, deployments, analytics>>
informer  == <<taskCache, queue, backoff, seen, addEvents, tombstones>>
process   == <<nsCache, worker, call, attempted, excused>>
counters  == <<edits, faults, restarts>>
vars      == <<server, informer, process, counters>>

IdleWorker ==
    [pc |-> "idle", task |-> Nil, spec |-> Nil, next |-> 1, ns |-> Nil, todo |-> {}]

IdleCall == [pc |-> "idle", at |-> Nil, obj |-> EmptyObject]

ServerOK ==
    /\ tasks \in [Tasks -> TaskSpecs \cup {Nil}]
    /\ deployments \in [Deployment -> Nat]
    /\ analytics \in [Deployment -> Strategies \cup {Nil}]

InformerOK ==
    /\ taskCache \in [Tasks -> TaskSpecs \cup {Nil}]
    /\ queue \subseteq Tasks
    /\ backoff \subseteq Tasks
    /\ seen \in [Deployment -> Nat]
    /\ addEvents \subseteq Deployment
    /\ tombstones \subseteq Deployment

WorkerOK ==
    /\ worker \in [pc : {"idle", "select", "write", "list", "create"},
                   task : Tasks \cup {Nil}, spec : TaskSpecs \cup {Nil},
                   next : Nat \ {0}, ns : Namespaces \cup {Nil}, todo : SUBSET Names]
    /\ worker.pc # "idle" => worker.task # Nil /\ worker.spec # Nil
    /\ worker.pc \in {"write", "list", "create"} => worker.ns # Nil

CallOK ==
    /\ call \in [Goroutines -> [pc : {"idle", "get", "create"},
                                at : Deployment \cup {Nil}, obj : Object]]
    /\ \A g \in Goroutines : call[g].pc # "idle" => call[g].at \in Deployment

(* Every variable holds values of its kind; in particular a goroutine      *)
(* inside CreateCraneAnalysis has a target, and a worker that writes,      *)
(* lists or creates has read a project name that is not empty.             *)
TypeOK ==
    /\ ServerOK
    /\ InformerOK
    /\ nsCache \in [Namespaces -> Entry \cup {Nil}]
    /\ WorkerOK
    /\ CallOK
    /\ attempted \subseteq Deployment
    /\ excused \subseteq Deployment
    /\ edits \in 0..MaxEdits
    /\ faults \in 0..MaxFaults
    /\ restarts \in 0..MaxRestarts

-----------------------------------------------------------------------------
(* What a fresh process holds: SetupWithManager registers every handler    *)
(* before the informers start, so each of them is told of every object     *)
(* that already exists.                                                    *)
Init ==
    /\ tasks \in [Tasks -> TaskSpecs \cup {Nil}]
    /\ deployments \in [Deployment -> {0, 1}]
    /\ analytics = [d \in Deployment |-> Nil]
    /\ taskCache = [t \in Tasks |-> Nil]
    /\ queue = {}
    /\ backoff = {}
    /\ seen = [d \in Deployment |-> 0]
    /\ addEvents = {}
    /\ tombstones = {}
    /\ nsCache = [n \in Namespaces |-> Nil]
    /\ worker = IdleWorker
    /\ call = [g \in Goroutines |-> IdleCall]
    /\ attempted = {}
    /\ excused = {}
    /\ edits = 0 /\ faults = 0 /\ restarts = 0

-----------------------------------------------------------------------------
(* CreateCraneAnalysis.                                                    *)

(* convertAnalytics: the Analytics wanted for a workload.                  *)
ConvertAnalytics(d, strategy) == [name |-> d[2], strategy |-> strategy]

(* The object the local variable analytics holds once Get has answered     *)
(* NotFound: the assignment replaces the wanted object by the generated    *)
(* client's result, which on an error is a zero Analytics.                 *)
AfterNotFound(wanted) == EmptyObject

(* The spec of the copy that is compared with the Analytics found: its own. *)
ModifiedSpec(found, wanted) == found

(* A goroutine enters CreateCraneAnalysis for Deployment d.                *)
Enter(g, d, strategy) ==
    /\ call' = [call EXCEPT ![g] =
                  [pc |-> "get", at |-> d, obj |-> ConvertAnalytics(d, strategy)]]
    /\ attempted' = attempted \cup {d}

Return(g) == call' = [call EXCEPT ![g] = IdleCall]

(* The Get finds the Analytics: the copy is patched onto it.               *)
CraneFound(g) ==
    /\ call[g].pc = "get"
    /\ LET d == call[g].at IN
       /\ analytics[d] # Nil
       /\ analytics' = [analytics EXCEPT
                          ![d] = ModifiedSpec(analytics[d], call[g].obj.strategy)]
    /\ Return(g)
    /\ UNCHANGED <<tasks, deployments, informer, nsCache, worker, attempted,
                   excused, counters>>

CraneNotFound(g) ==
    /\ call[g].pc = "get"
    /\ analytics[call[g].at] = Nil
    /\ call' = [call EXCEPT ![g].pc = "create",
                            ![g].obj = AfterNotFound(call[g].obj)]
    /\ UNCHANGED <<server, informer, nsCache, worker, attempted, excused, counters>>

(* The Get fails otherwise; both callers drop the error.                   *)
CraneGetError(g) ==
    /\ call[g].pc = "get"
    /\ faults < MaxFaults
    /\ faults' = faults + 1
    /\ Return(g)
    /\ UNCHANGED <<server, informer, nsCache, worker, attempted, excused, edits,
                   restarts>>

(* Create.  The API server refuses an object without a name and one that   *)
(* exists; both callers drop the error.                                    *)
CraneCreate(g) ==
    /\ call[g].pc = "create"
    /\ LET d == call[g].at
           o == call[g].obj
       IN  analytics' = IF o.name # Nil /\ analytics[d] = Nil
                        THEN [analytics EXCEPT ![d] = o.strategy] ELSE analytics
    /\ Return(g)
    /\ UNCHANGED <<tasks, deployments, informer, nsCache, worker, attempted,
                   excused, counters>>

-----------------------------------------------------------------------------
(* Reconcile: the worker.                                                  *)

CurrentSelector == worker.spec.selectors[worker.next]

(* A reconcile pass may take its next step: it has selectors left and is   *)
(* not inside CreateCraneAnalysis.                                         *)
AtSelector ==
    /\ worker.pc = "select"
    /\ worker.next <= Len(worker.spec.selectors)
    /\ call["worker"].pc = "idle"

NextSelector == [worker EXCEPT !.pc = "select", !.next = @ + 1,
                               !.ns = Nil, !.todo = {}]

(* Get of the task fails only when the cache does not hold it; the error   *)
(* puts the name back into the queue after a delay.                        *)
ReconcileMissing(t) ==
    /\ worker.pc = "idle"
    /\ t \in queue
    /\ taskCache[t] = Nil
    /\ queue' = queue \ {t}
    /\ backoff' = backoff \cup {t}
    /\ UNCHANGED <<server, taskCache, seen, addEvents, tombstones, process, counters>>

(* Get returns a copy of the cached task, and the type is looked at.       *)
ReconcileTask(t) ==
    /\ worker.pc = "idle"
    /\ t \in queue
    /\ taskCache[t] # Nil
    /\ queue' = queue \ {t}
    /\ worker' = IF taskCache[t].type \in {"Deployment", "Namespace"}
                 THEN [IdleWorker EXCEPT !.pc = "select", !.task = t,
                                         !.spec = taskCache[t]]
                 ELSE IdleWorker
    /\ UNCHANGED <<server, taskCache, backoff, seen, addEvents, tombstones, nsCache, call,
                   attempted, excused, counters>>

(* Both loops skip a selector of another kind than the task's type.        *)
SkipSelector ==
    /\ AtSelector
    /\ CurrentSelector.kind # worker.spec.type
    /\ worker' = NextSelector
    /\ UNCHANGED <<server, informer, nsCache, call, attempted, excused, counters>>

DeploymentSelector ==
    /\ AtSelector
    /\ worker.spec.type = "Deployment"
    /\ CurrentSelector.kind = "Deployment"
    /\ Enter("worker", <<Home[worker.task], CurrentSelector.name>>,
             worker.spec.strategy)
    /\ worker' = NextSelector
    /\ UNCHANGED <<server, informer, nsCache, excused, counters>>

(* An empty namespace name ends the pass, later selectors unread.          *)
EmptyNamespace ==
    /\ AtSelector
    /\ worker.spec.type = "Namespace"
    /\ CurrentSelector.kind = "Namespace"
    /\ CurrentSelector.name = Nil
    /\ worker' = IdleWorker
    /\ UNCHANGED <<server, informer, nsCache, call, attempted, excused, counters>>

(* Mutant: no check for an empty namespace name.                           *)
BeginUncheckedWrite ==
    /\ AtSelector
    /\ worker.spec.type = "Namespace"
    /\ CurrentSelector.kind = "Namespace"
    /\ worker' = [worker EXCEPT !.pc = "write", !.ns = CurrentSelector.name]
    /\ UNCHANGED <<server, informer, nsCache, call, attempted, excused, counters>>

(* Mutant: a project that is cached already is not taken up again.         *)
BeginFirstWrite ==
    /\ AtSelector
    /\ worker.spec.type = "Namespace"
    /\ CurrentSelector.kind = "Namespace"
    /\ CurrentSelector.name # Nil
    /\ worker' = IF nsCache[CurrentSelector.name] # Nil THEN NextSelector
                 ELSE [worker EXCEPT !.pc = "write", !.ns = CurrentSelector.name]
    /\ UNCHANGED <<server, informer, nsCache, call, attempted, excused, counters>>

(* The map assignment takes time: a lookup by the other goroutine may fall *)
(* between its two ends.                                                   *)
BeginCacheWrite ==
    /\ AtSelector
    /\ worker.spec.type = "Namespace"
    /\ CurrentSelector.kind = "Namespace"
    /\ CurrentSelector.name # Nil
    /\ worker' = [worker EXCEPT !.pc = "write", !.ns = CurrentSelector.name]
    /\ UNCHANGED <<server, informer, nsCache, call, attempted, excused, counters>>

WrittenEntry == [task |-> worker.task, strategy |-> worker.spec.strategy]

(* Mutant: the entry is filed under the namespace of the task.             *)
EndMisfiledWrite ==
    /\ worker.pc = "write"
    /\ nsCache' = [nsCache EXCEPT ![Home[worker.task]] = WrittenEntry]
    /\ worker' = [worker EXCEPT !.pc = "list"]
    /\ UNCHANGED <<server, informer, call, attempted, excused, counters>>

(* Mutant: an entry once made is kept.                                     *)
EndFirstWrite ==
    /\ worker.pc = "write"
    /\ nsCache' = [nsCache EXCEPT ![worker.ns] = IF @ = Nil THEN WrittenEntry ELSE @]
    /\ worker' = [worker EXCEPT !.pc = "list"]
    /\ UNCHANGED <<server, informer, call, attempted, excused, counters>>

EndCacheWrite ==
    /\ worker.pc = "write"
    /\ nsCache' = [nsCache EXCEPT ![worker.ns] = WrittenEntry]
    /\ worker' = [worker EXCEPT !.pc = "list"]
    /\ UNCHANGED <<server, informer, call, attempted, excused, counters>>

(* The Deployments of a namespace that the API server holds now.           *)
Existing(n) == {m \in Names : deployments[<<n, m>>] # 0}

ListDeployments ==
    /\ worker.pc = "list"
    /\ worker' = [worker EXCEPT !.pc = "create", !.todo = Existing(worker.ns)]
    /\ UNCHANGED <<server, informer, nsCache, call, attempted, excused, counters>>

(* List fails: the pass ends, and Reconcile drops the error it returns.    *)
ListError ==
    /\ worker.pc = "list"
    /\ faults < MaxFaults
    /\ faults' = faults + 1
    /\ excused' = excused \cup {<<worker.ns, m>> : m \in Existing(worker.ns)}
    /\ worker' = IdleWorker
    /\ UNCHANGED <<server, informer, nsCache, call, attempted, edits, restarts>>

ListedDeployment(m) ==
    /\ worker.pc = "create"
    /\ call["worker"].pc = "idle"
    /\ m \in worker.todo
    /\ Enter("worker", <<worker.ns, m>>, worker.spec.strategy)
    /\ worker' = [worker EXCEPT !.todo = @ \ {m}]
    /\ UNCHANGED <<server, informer, nsCache, excused, counters>>

ListDone ==
    /\ worker.pc = "create"
    /\ call["worker"].pc = "idle"
    /\ worker.todo = {}
    /\ worker' = NextSelector
    /\ UNCHANGED <<server, informer, nsCache, call, attempted, excused, counters>>

ReconcileReturns ==
    /\ worker.pc = "select"
    /\ call["worker"].pc = "idle"
    /\ worker.next > Len(worker.spec.selectors)
    /\ worker' = IdleWorker
    /\ UNCHANGED <<server, informer, nsCache, call, attempted, excused, counters>>

-----------------------------------------------------------------------------
(* DeploymentEventHandler.                                                 *)

(* What NameSpaceCache[n] may yield: while the worker is assigning that    *)
(* key, the old or the new entry.  The runtime may also end the process    *)
(* ("concurrent map read and map write"): that is Restart.                 *)
LookUp(n) ==
    {nsCache[n]} \cup
    (IF worker.pc = "write" /\ worker.ns = n THEN {WrittenEntry} ELSE {})

(* AddFunc.  UpdateFunc only logs, and so does DeleteFunc for a deletion   *)
(* that the watch reported.                                                *)
AddFunc(d) ==
    /\ call["handler"].pc = "idle"
    /\ d \in addEvents
    /\ addEvents' = addEvents \ {d}
    /\ \E entry \in LookUp(d[1]) :
          IF entry = Nil THEN UNCHANGED <<call, attempted>>
                         ELSE Enter("handler", d, entry.strategy)
    /\ UNCHANGED <<server, taskCache, queue, backoff, seen, tombstones, nsCache, worker,
                   excused, counters>>

-----------------------------------------------------------------------------
(* Informers and work queue.                                               *)

(* The watch brings the task up to date, and the name is queued.           *)
TaskWatch(t) ==
    /\ taskCache[t] # tasks[t]
    /\ taskCache' = [taskCache EXCEPT ![t] = tasks[t]]
    /\ queue' = queue \cup {t}
    /\ UNCHANGED <<server, backoff, seen, addEvents, tombstones, process, counters>>

(* The manager's cache resends every object it holds every ten hours.      *)
TaskResync(t) ==
    /\ taskCache[t] # Nil
    /\ queue' = queue \cup {t}
    /\ UNCHANGED <<server, taskCache, backoff, seen, addEvents, tombstones, process, counters>>

BackoffExpires(t) ==
    /\ t \in backoff
    /\ backoff' = backoff \ {t}
    /\ queue' = queue \cup {t}
    /\ UNCHANGED <<server, taskCache, seen, addEvents, tombstones, process, counters>>

(* The watch reports each deletion and each creation, in that order for    *)
(* one name: a Deployment recreated meanwhile is notified as an Add.       *)
DeploymentWatch(d) ==
    /\ seen[d] # deployments[d]
    /\ seen' = [seen EXCEPT ![d] = deployments[d]]
    /\ addEvents' = IF deployments[d] # 0 THEN addEvents \cup {d} ELSE addEvents
    /\ UNCHANGED <<server, taskCache, queue, backoff, tombstones, process, counters>>

(* A broken watch makes the informer list again: a name it knows is        *)
(* notified as an Update even when the object behind it is another one,    *)
(* and of a name that is gone it has only a cache.DeletedFinalStateUnknown. *)
DeploymentRelist ==
    /\ faults < MaxFaults
    /\ faults' = faults + 1
    /\ seen # deployments
    /\ seen' = deployments
    /\ LET present == {d \in Deployment : deployments[d] # 0}
           new     == {d \in present : seen[d] = 0}
       IN  /\ addEvents' = addEvents \cup new
           /\ tombstones' = tombstones \cup {d \in Deployment \ present : seen[d] # 0}
           /\ excused' = excused \cup {d \in present \ new : seen[d] # deployments[d]}
    /\ UNCHANGED <<server, taskCache, queue, backoff, nsCache, worker, call,
                   attempted, edits, restarts>>

-----------------------------------------------------------------------------
(* Users, and the end of the process.                                      *)

Edit == edits < MaxEdits /\ edits' = edits + 1

SetTask(t) ==
    /\ Edit
    /\ \E spec \in TaskSpecs \cup {Nil} :
          spec # tasks[t] /\ tasks' = [tasks EXCEPT ![t] = spec]
    /\ UNCHANGED <<deployments, analytics, informer, process, faults, restarts>>

CreateDeployment(d) ==
    /\ Edit
    /\ deployments[d] = 0
    /\ deployments' = [deployments EXCEPT ![d] = edits + 2]
    /\ UNCHANGED <<tasks, analytics, informer, process, faults, restarts>>

DeleteDeployment(d) ==
    /\ Edit
    /\ deployments[d] # 0
    /\ deployments' = [deployments EXCEPT ![d] = 0]
    /\ UNCHANGED <<tasks, analytics, informer, process, faults, restarts>>

(* A user makes the Analytics by hand, or removes it.                      *)
SetAnalytics(d) ==
    /\ Edit
    /\ \E s \in Strategies :
          analytics' = [analytics EXCEPT ![d] = IF @ = Nil THEN s ELSE Nil]
    /\ UNCHANGED <<tasks, deployments, informer, process, faults, restarts>>

(* A new process starts with nothing.                                      *)
NewProcess ==
    /\ taskCache' = [t \in Tasks |-> Nil]
    /\ queue' = {}
    /\ backoff' = {}
    /\ seen' = [d \in Deployment |-> 0]
    /\ addEvents' = {}
    /\ tombstones' = {}
    /\ nsCache' = [n \in Namespaces |-> Nil]
    /\ worker' = IdleWorker
    /\ call' = [g \in Goroutines |-> IdleCall]
    /\ attempted' = {}
    /\ excused' = {}

(* A crash, a fatal log, a configuration reload.                           *)
Restart ==
    /\ restarts < MaxRestarts
    /\ restarts' = restarts + 1
    /\ NewProcess
    /\ UNCHANGED <<server, edits, faults>>

(* DeleteFunc takes what it is given for a Deployment: at a tombstone it   *)
(* panics, and the process ends.                                           *)
DeleteFunc(d) ==
    /\ call["handler"].pc = "idle"
    /\ d \in tombstones
    /\ NewProcess
    /\ UNCHANGED <<server, counters>>

(* The handlers of the other informers, which otherwise only log, do the   *)
(* same with what a relist finds gone.                                     *)
OtherDeleteFunc ==
    /\ faults < MaxFaults
    /\ faults' = faults + 1
    /\ NewProcess
    /\ UNCHANGED <<server, edits, restarts>>

-----------------------------------------------------------------------------
CreateCraneAnalysis(g) ==
    \/ CraneFound(g) \/ CraneNotFound(g) \/ CraneGetError(g) \/ CraneCreate(g)

Reconcile ==
    \/ \E t \in Tasks : ReconcileMissing(t) \/ ReconcileTask(t)
    \/ SkipSelector \/ DeploymentSelector \/ EmptyNamespace
    \/ BeginCacheWrite \/ EndCacheWrite
    \/ ListDeployments \/ ListError
    \/ \E m \in Names : ListedDeployment(m)
    \/ ListDone \/ ReconcileReturns

Informers ==
    \/ \E t \in Tasks : TaskWatch(t) \/ TaskResync(t) \/ BackoffExpires(t)
    \/ \E d \in Deployment : DeploymentWatch(d)
    \/ DeploymentRelist

Users ==
    \/ \E t \in Tasks : SetTask(t)
    \/ \E d \in Deployment :
          CreateDeployment(d) \/ DeleteDeployment(d) \/ SetAnalytics(d)

Next ==
    \/ \E g \in Goroutines : CreateCraneAnalysis(g)
    \/ Reconcile
    \/ \E d \in Deployment : AddFunc(d) \/ DeleteFunc(d)
    \/ OtherDeleteFunc
    \/ Informers
    \/ Users
    \/ Restart

Spec == Init /\ [][Next]_vars

(* Both goroutines run whenever they can; each watch, the resync and the   *)
(* retry timer deliver in the end.  Users, faults and restarts owe nothing. *)
Fairness ==
    /\ \A g \in Goroutines :
          WF_vars(CraneFound(g) \/ CraneNotFound(g) \/ CraneCreate(g))
    /\ WF_vars(Reconcile)
    /\ \A d \in Deployment : /\ WF_vars(AddFunc(d)) /\ WF_vars(DeleteFunc(d))
                             /\ WF_vars(DeploymentWatch(d))
    /\ \A t \in Tasks : /\ WF_vars(TaskWatch(t)) /\ WF_vars(TaskResync(t))
                        /\ WF_vars(BackoffExpires(t))
                        /\ SF_vars(ReconcileMissing(t) \/ ReconcileTask(t))

FairSpec == Spec /\ Fairness

-----------------------------------------------------------------------------
(* Properties.                                                             *)

(* The Deployments a notification is still on its way for.                 *)
Notifiable(d) == seen[d] # deployments[d] \/ d \in addEvents

(* The Deployments the current pass still has to take.                     *)
Listing(d) ==
    /\ worker.ns = d[1]
    /\ \/ worker.pc = "list"
       \/ worker.pc = "create" /\ d[2] \in worker.todo

Accounted(d) == d \in attempted \cup excused \/ Notifiable(d) \/ Listing(d)

(* Once a project is in NameSpaceCache, every Deployment it has was given  *)
(* to CreateCraneAnalysis, or the running pass or a pending notification   *)
(* will give it: writing the cache before the List (analysis_controller.go *)
(* 124, 126) leaves no gap between the two.  The exceptions are recorded:  *)
(* a List error that Reconcile drops, a recreation notified as an Update.  *)
NoDeploymentOverlooked ==
    \A d \in Deployment :
       deployments[d] # 0 /\ nsCache[d[1]] # Nil => Accounted(d)

(* The namespace selectors a pass over spec reads before it returns.       *)
Selected(spec) ==
    IF spec = Nil \/ spec.type # "Namespace" THEN {} ELSE
    {n \in Namespaces : \E i \in DOMAIN spec.selectors :
        /\ spec.selectors[i] = [kind |-> "Namespace", name |-> n]
        /\ \A j \in 1..i : spec.selectors[j] # [kind |-> "Namespace", name |-> Nil]}

Settled(t) ==
    /\ taskCache[t] = tasks[t]
    /\ t \notin queue
    /\ worker.task # t
    /\ faults = 0

(* A task at rest, that is reconciled since its last change, has enrolled  *)
(* every project it selects, and an entry that is still its own carries    *)
(* the strategy of its present spec: a change of a task is never lost      *)
(* between the watch, the queue, the pass and NameSpaceCache.              *)
EntriesFollowTasks ==
    \A t \in Tasks : Settled(t) =>
       \A n \in Selected(tasks[t]) :
          /\ nsCache[n] # Nil
          /\ nsCache[n].task = t => nsCache[n].strategy = tasks[t].strategy

(* A Deployment that stays in a project that a task keeps selecting is     *)
(* given to CreateCraneAnalysis in the end, even when a List failed or a   *)
(* watch broke: the resync of the task repairs what the errors dropped.    *)
EveryDeploymentAttempted ==
    \A d \in Deployment :
       (<>[](deployments[d] # 0 /\ \E t \in Tasks : d[1] \in Selected(tasks[t])))
          => <>[](d \in attempted)

(* README.md:6, "Automatically create analysis tasks for all loads under   *)
(* the project (including previous and subsequent creations)": a           *)
(* Deployment of a selected project gets its Analytics.                    *)
EveryLoadAnalysed ==
    \A d \in Deployment :
       (<>[](deployments[d] # 0 /\ \E t \in Tasks : d[1] \in Selected(tasks[t])))
          => <>(analytics[d] # Nil)
=============================================================================
