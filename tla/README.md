# Verification of the KubeSphere schedule service

TLA+ models of the two programs of this repository, the TLC configurations that
check them on small instances, and TLAPS proofs of the properties that matter
most for every value of the constants. Paths are relative to the root of the
repository.

Contents

1. The system
2. Modules, and how they correspond to the code
3. Runs, bounds and fairness
4. What the code does and its documents say otherwise
5. Proofs
6. Not modelled
7. Plan

## 1. The system

Two programs work on `AnalysisTask` objects (`schedule.kubesphere.io/v1alpha1`,
`api/schedule/v1alpha1/types.go`). A task names workloads or whole projects; for
each workload an `Analytics` object of Crane is to be made.

| Component | State it keeps | Operations | Talks to |
|---|---|---|---|
| analysis controller, `pkg/controller/schedule/analysis` | `NameSpaceCache` (project to task), `SchedulerConfig` (thresholds), the informers' caches, the work queue | `Reconcile` with its two passes, the handlers of the Deployment, ks-installer, Namespace, Analytics and Recommendation informers | API server, informers, `CreateCraneAnalysis` |
| `CreateCraneAnalysis`, `pkg/service/schedule/crane.go` | none; one local object across its calls | Get, then Create or nothing | API server |
| controller-manager, `cmd/controller` | the options, the current context, one goroutine per server, the metrics port | flags, load, watch, `Run`, `run` | configuration file, signals, clients, informer factories |
| clients, `pkg/client/k8s`, `pkg/client/clientset` | none once built | building from options; one request per call | the kubeconfig, API server |
| informer factories, `pkg/informers`, `pkg/client/informers` | the informers asked for, started, synced | make, start, wait | clients |
| configuration file, `pkg/config` | viper's configuration, the change channel | `loadFromDisk`, `watchConfig` | controller-manager |
| ks-apiserver, `cmd/apiserver`, `pkg/apiserver` | informers, listener | start, filter chain, routes | API server, signals, clients |
| request info, `pkg/apiserver/request` | none | `NewRequestInfo` | the two filters |
| REST handlers, `pkg/kapis/schedule/v1alpha1` | none across requests | one per route | schedule operator |
| schedule operator, `pkg/service/schedule/interface.go` | none across requests | create, modify, delete, list tasks; modify the thresholds | API server |
| queries, `pkg/apiserver/query`, `pkg/service/resources/v1alpha3` | none | parameters, pages, filter, sort | list handler |
| helpers, generated code, API types | none | conversions | all of the above |

The programs interact only through objects in the cluster: ks-apiserver writes
tasks and the `ks-installer` object, the controller watches both and writes
Analytics.

What is hard in this code, and what makes each part correct:

* **Analysis controller.** The reconcile worker writes `NameSpaceCache` and the
  informer's goroutine reads it, without a lock. The cache has to be written
  before the Deployments are listed, or a Deployment created in between is
  missed. Errors of List are dropped. Watches break, and a recreated object
  then looks like an updated one, and a missed deletion like no Deployment at
  all, on which the handler panics. The cache dies with the process. *Correct:* no
  Deployment of an enrolled project is overlooked; entries follow the tasks that
  are there; every Deployment is handled in the end.
* **controller-manager.** Closures of server goroutines read `ictx` and `s` from
  the frame of `Run` while `Run` replaces them. The watcher sends on an
  unbuffered channel from inside viper's callback. Old servers stop while new
  ones start. Informers run only if they are asked for before `Start`.
  *Correct:* superseded servers are cancelled, a live server has the current
  options, at most one is at work, its handlers are served, no notified change is
  lost, signals end the process.
* **Tasks over REST.** A Modify reads, computes a merge patch and sends it
  without a version. *Correct:* it takes back nothing that others changed, brings
  no deleted task back, answers truthfully, and takes effect at one moment.
* **Thresholds.** A PATCH goes through ks-installer, a watch and a handler that
  keeps what it cannot read; any other object of the resource takes the same way.
  *Correct:* an answer of success is true, requests keep each other's thresholds, the
  controller has no older value of an object than the object has once it is notified,
  and is notified in the end.
* **Task list.** Every page is cut out of a list read anew. *Correct:* pages leave
  no gap, repeats have a cause, and the order is the one asked for, as far as the
  comparison tells the tasks apart.
* **ks-apiserver.** Signals against a start that waits for informers; options that
  nothing validates; URLs in which a name may be a keyword. *Correct:* no list is
  served from an empty cache, the start ends, each URL, those of the typed client
  included, is read as it is meant and goes where its prefix says.

## 2. Modules, and how they correspond to the code

`PROJECT.json` maps every definition to the lines it stands for. Each module is
named for its component. An `MC` module gives a module its values for TLC.
Definitions whose comment starts with "Mutant" are altered versions of the
definition that follows; no behaviour uses them. They show that a property
notices a plausible bug when the altered version takes the place of the original.

A step is what a goroutine does between two points at which others can act: a
call to the API server, a send or receive on a channel, an access to a shared
variable. What is outside `src` (API server, client-go, controller-runtime,
viper, go-restful) is modelled as this code uses it and marked external in the map.

### AnalysisController

`tasks`, `deployments` (a uid, 0 if absent) and `analytics` are the cluster;
`taskCache`, `queue`, `backoff`, `seen` and `addEvents` the informers and the
work queue; `nsCache` is `NameSpaceCache`. `worker` is where the one reconcile
worker is (`MaxConcurrentReconciles` keeps its default), `call` where each of the
two goroutines is in `CreateCraneAnalysis`, and the value of its local object.

| Actions | Code |
|---|---|
| `ReconcileTask`, `ReconcileMissing` | `Reconcile`: the cached task, or NotFound, which is returned and so retried |
| `SkipSelector`, `DeploymentSelector` | `ReconcileDeploymentAnalysis`, a selector at a time |
| `EmptyNamespace`, `BeginCacheWrite` and the steps behind it | `ReconcileNamespaceAnalysis`: write the entry, List, one call for each Deployment; an empty name ends the pass, an error of List is dropped |
| `AddFunc` | the handler of added Deployments: look the project up, call `CreateCraneAnalysis` |
| `CraneFound`, `CraneNotFound`, `CraneGetError`, `CraneCreate` | `CreateCraneAnalysis`; its object is overwritten by the result of Get |
| `Informers`, `Users`, `Restart` | watches, resync, backoff; edits by users; the end of the process, which empties all its state |

The lookup may see an entry that is being written: `NameSpaceCache` is a Go map
accessed without its mutex. The maps of the model have at most eight entries, the
size of one bucket: an unsynchronised lookup then finds the old or the new value or
misses. Go's check for concurrent map access may end the process instead, which
is a `Restart`. `DeleteFunc` and `OtherDeleteFunc` are the panic of a handler at a
`DeletedFinalStateUnknown`, a deletion that only the list after a broken watch
found; the Deployments of which one is due are `tombstones`. `attempted` and `excused` are history: what the process handed to
`CreateCraneAnalysis`, and the Deployments a dropped error or an Update
notification cost.

### ControllerManager, with ServerSuccession, ManagerOptions, KubernetesClient, InformerFactories

`file` is the configuration on disk, `loaded` viper's, `sending` the callback's
pending send, `flags` the command line, `cfg` and `options` what `Run` received
and merged. `main` is the main goroutine's place. `ictx` counts contexts, and so
servers; each of `servers` has the context and options it was really called with,
read when its closure first runs, and the informers that were asked for and
started. `port` is who holds the metrics port.

`LoadFromDisk` … `Exit` are the main goroutine and `FileEvent` is viper's watcher.
A server goroutine goes through `CallRun`, `BuildClient`, `NewManager`,
`SetupControllers`, `StartServer` and `StopManager`; `ManagerFails` and
`SendOnClosed` end the process. A file holds a configuration, something of another
structure, or no YAML.

`ManagerOptions` has the flags over the file, `Validate` and the selectors;
`KubernetesClient` the options of the client, their validation, and its building
from the clientsets, any of which the rate limits may refuse; `InformerFactories`
the factory each client gives, the informers `SetupWithManager` asks for, and
`Start`. None of them has variables of its own. The rate limits in use and the
kubeconfigs that exist are constants; TLC's values are in `MCControllerManager`.

`ServerSuccession` is what all of this is for, seen from the cluster: one server at
work after the other (`Begin`, `Withdraw`), each with the configuration in force when
it began; a new one is adopted between servers only and is never older (`Adopt`);
none begins once the process is leaving (`Leave`, `End`). ControllerManager implements
it (`ImplementsSuccession`): `options` is the configuration in force, the workers are
the servers that started informers and whose context is alive, while the process is up.
It is not the loop of `Run` in other words: `Run` waits for no server to stop, and a
server reads its context and options whenever its goroutine comes to it.

### ScheduleAPI

`store` is the tasks of the cluster, `req` the requests: handler, key, body,
place, the task read (`base`) and the answer. `Arrive` is a handler up to the
operator, with the errors it answers itself and the panic on JSON null; `Create`,
`Delete`, `ModifyGet` and `ModifyPatch` are the calls of the operator;
`CallFails` is a failed call, which may have taken effect. `Result` and `Output`
are translated as they are, including that Output answers with the error
it is given or with the object. A task has three parts (type, rest of the spec,
labels): enough to tell a patch of one part from a patch of another.

`TaskStore` is the abstract specification: a request is asked, and takes effect in
one step (`Put`, `Change`, `Take`) or is refused, always on the task as it is then.
ScheduleAPI implements it (`ImplementsTaskStore`) under the mapping `Asked`, which
keeps of a request only what its client knows. It says what two concurrent Modifies
may leave: each part of the task is that of one of them, for `Change` merges some
parts of a body into the task of that moment.

### NotifyThresholds

`store` is the `clusterconfigurations` objects, ks-installer and any others,
`informed` the informer's copy, `events` the queue of notifications in their order,
`SchedulerConfig` the controller's thresholds. A threshold is a value, absent or
mistyped, as `GetInt64` of `pkg/utils/jsonpath` tells them apart. An object is `Blocked`
if `spec.schedule`, `analysis` or `notifyThreshold` is there and no object: then
`jsonpath.Set` sets nothing and its error is dropped (`interface.go:119`), so the patch is
empty and the request succeeds. Requests `Arrive`, `Get`, `Patch`, fail.
`InstallerEvent` is the handler with `UpdateScheduleConfig`, which asks no object for its
name (`analysis_controller.go:182`); `source` is history, the object each threshold was
read from. `WatchBreaks`, `Relist`, `Resync` and `Restart` do what client-go does; a batch
of notifications that belong to one List comes in any order. `MCNotifyThresholds` has the
contents other clients write.

### TaskList

A client (`read`) reads pages one request at a time while tasks are created
and deleted. `ListAnalysisTask` is one request: `ParseQueryParameter` and
`GetValidPagination` in integers of `Width` bits, as Go wraps them; the filter
(name, namespace, labels with their negation, and fields no object has); and
`sort.Slice` with the code's comparison: negated for ascending order, so that of equal
tasks each is less than the other. The sort is a constant of the module, and
`SortAssumption` its contract: the list has each task once, a task that is less than
another one, and not the other way round, before it, and nothing is said of equal ones.
Where equal tasks come is up to Go: from seven elements on sort.Slice of Go 1.18 makes a
pass over a distance of six first, from thirteen on it is a quicksort. So a task that is
created may change the places of two others with one name, and the properties name
that as a cause of a gap or a repeat (`HasTwin`). `MCTaskList` has a sort that does so with
lists of three. A page whose bounds are out of order makes DefaultList panic
(answer 500). One assumption is about numbers: there are fewer tasks than the largest
integer by two, as there are in any cluster; the bound of the last page would wrap
otherwise.

### RequestInfo, TaskClient and ApiServer, with ServerOptions, SharedInformers

`RequestInfo` has no variables. `NewRequestInfo` is the parser, over the
sequence of segments; `URL`, `IsForm` and `Meaning` state independently what the
forms in its comment stand for. A form is one only if it is unmistakable
(`IsUnmistakable`): no value in it stands where a key of another form would. The group
`clusters` without a cluster, the resources `workspaces`, `watch` or `proxy` outside
any namespace, `devops` outside a namespace and `status` or `finalize` directly behind
one are the ambiguous URLs; a cluster, workspace, namespace or object may have any
name, keywords included. `TaskClient` is the typed client
(`pkg/client/clientset`): `Sent` is the request of each of its calls, `CallMeaning`
what the call is about.

`ApiServer` is the process: `Validate` and `NewAPIServer` from the options of
`ServerOptions`, `Discover` (tries of the discovery), `MakeInformers`,
`StartFactory`, `WaitForCacheSync` with the factory of `SharedInformers`, the runtime
cache, `Listen` and `Signal`; and one request at a time through `WithRequestInfo`
and `WithKubeAPIServer` to a route (`Dispatch`). One at a time is enough because
requests share nothing before their handler. `SharedInformers` declares the variables
of the factory and its operations as parts of actions; ApiServer composes them with
its own.

## 3. Runs, bounds and fairness

| Run | Instance | What it shows |
|---|---|---|
| `analysis_coverage` | two projects, one Deployment each, one task with every shape of spec, 2 edits, 1 fault | types; no Deployment of a cached project falls between List and notification; a task at rest has enrolled its projects |
| `analysis_liveness` | one project, 2 edits, 2 faults, 1 restart, fair | a Deployment that stays selected is handed to `CreateCraneAnalysis` in the end, through failed Lists, broken watches, panics and a restart |
| `analysis_promise` | one project, 1 edit, no fault, fair | violation: no Analytics is ever made (section 4) |
| `manager` | 2 changes of the file of every kind, 3 command lines, 1 failing manager, fair | contexts, options, informers, one server at work, the refinement of `ServerSuccession`, why Run returns, no lost notified change, shutdown, crash on misconfiguration |
| `manager_reload` | 1 good change | violation: the reload ends the process |
| `manager_startup` | 1 good change, fair | violation: an early change is lost |
| `manager_command_line` | 1 good change, a kubeconfig on the command line | violation: the change takes it away |
| `schedule_api` | two requests of any kind, two namespaces, 1 edit, 1 failed call | what concurrent Modify, Create and Delete may do to each other; the refinement of `TaskStore` |
| `notify_thresholds` | ks-installer and another object, one request, 1 edit, 1 fault, two values and an object that is blocked, fair | thresholds reach the controller, requests keep what they do not name, and an answer of success is true |
| `task_list` | three tasks, two of one name, 2 changes, pages of 1, 2 and 15, 5 bits | gaps, repeats and order of pages, with a sort that is not stable |
| `task_list_range` | limits 2 and 15, starts 0 and 1 | violation: a page that ends before it starts |
| `api_server` | documented forms whose cluster, workspace, namespace and name are keywords, and whose group or resource is one where that is unmistakable; paths of up to five segments over four prefixes and three keywords; every call of the typed client; command lines with ports and key pairs that fit and do not; two tries; two signals | parsing, forwarding, start against signals |

**Why the bounds are enough.** Each interesting case needs few actors: two
goroutines and one Deployment for the gap between cache and List; two changes of the file, so that three servers exist
and a closure can run after it is superseded twice; two requests, because the
third sees one of two stale states; two values, so that stale and fresh differ.
Two edits allow create, delete and recreate around a broken watch. That tasks may take
over each other's entries is not in an instance: `EntriesFollow` proves the property for any
number of tasks. The width of
five bits and a default limit of 2 in place of 64 and 10 bring overflow
and page borders into reach of three tasks; the properties mention neither number. Two tries of the
discovery in place of five give one that is repeated and a last one. The proofs of
section 5 need none of these bounds.

`CHECK_DEADLOCK FALSE` is used where the system may stop: bounds on users and
faults are used up, every request is answered, or the process has ended.

**Fairness.** Where a run is fair, the following is assumed, and nothing of
users, other clients, faults, signals and restarts.

* *Goroutines that can step do* (weak fairness of `Reconcile`, `AddFunc`,
  `CreateCraneAnalysis`, `Main`, `RunServer`, `Start`): the Go scheduler is
  preemptive.
* *Watches deliver, broken ones list again, informers sync* (`TaskWatch`,
  `DeploymentWatch`, `Relist`, `InstallerEvent`, `InformersSync`): the reflectors
  of client-go retry without end.
* *Each queued task is taken in the end* (strong fairness of a pass per task):
  the work queue is first in, first out; the set `queue` does not keep the
  order, so the fairness stands for it.
* *Resync*: the cache of controller-runtime resends every task each ten hours.
  `EveryDeploymentAttempted` rests on it: without it a dropped List error is
  never made good.
  The informers of client-go notify every object they have each ten minutes
  (`informers.go:40`, `Resync` of NotifyThresholds). `ThresholdsApplied` rests on that:
  what another object said may have come last.
* *The file watcher* (`FileEvent`) handles events that arrived.

## 4. What the code does and its documents say otherwise

Five runs end in a violation:

* **No Analytics is created** (`EveryLoadAnalysed`). `crane.go:32` assigns the
  result of Get to the variable that holds the wanted object. After NotFound that is
  the empty object of the generated client; `Create` sends it without a name and is
  refused, and both callers drop the error. `README.md:6` promises analyses for
  all loads of the project.
* **A reload may end the process** (`ReloadKeepsProcess`). The new server starts
  before the old one has released the metrics port; `server.go:175` is a Fatalf.
  `server.go:114`: "when config changed, stop server and renew context, start
  new server".
* **A change during the start is lost** (`EveryChangeApplied`). The callback is
  registered (`config.go:88`) after the watch begins and after the file was read.
* **The command line loses to the file** (`CommandLineObeyed`). The flags are parsed
  once; `MergeConfig` (`options.go:197`) replaces what they set at the first
  change of the file. `config.go:41`: "Command line flags hold higher priority
  than configuration file".
* **A page may be out of range** (`PageInRange`). `query/types.go:103` adds
  offset and limit without a check; the sum is negative for large limits and
  DefaultList panics. `types.go:74`: "make sure that pagination is valid".

Noted while modelling, without a run:

* `docs/develop.md:369-381` shows the thresholds of ks-installer below
  `spec.scheduler`; the code reads and writes `spec.schedule`
  (`analysis_controller.go:230`, `interface.go:119`). Thresholds written as the document
  says never reach the controller, and a request does not change them; the properties are
  about `spec.schedule`.
* `controllers.go:73` adds the analysis controller whatever `--controllers` says;
  the selectors only choose the line that is logged (`controllers.go:84`), although
  `options.go:57-65` and `110-112` say that they enable and disable controllers.
* An Analytics that exists is never brought up to date: `crane.go:43`, below the comment
  "update", assigns the found spec to itself, so the patch built in lines 41 to 57 is
  always empty. Since Create never succeeds either, no step of the model writes an
  Analytics.
* An entry of `NameSpaceCache` is never removed. A project whose task was deleted, or
  selects it no more, goes on being analysed until the process ends.
* `register.go:124` documents that a Create returns the task; the handler answers
  with an empty error object. The parameters `conditions` and `paging` of
  `register.go:104-113` are read by nothing.
* Two servers may share one context: the closure (`server.go:107`) reads `ictx`
  when it runs, not when it is made. Only the metrics port keeps two live servers,
  each with its own reconciler and `NameSpaceCache`, apart (`OneServerAtWork`).
* Every informer handler asserts the type of what is deleted and panics at a
  `DeletedFinalStateUnknown` (`analysis_controller.go:161`).
* Any `clusterconfigurations` object changes the thresholds, whatever its name
  (`analysis_controller.go:182`): with a second one the object notified last decides, and
  the resync notifies them in any order. `SourceDecides` says what holds all the same, and
  `ThresholdsApplied` is about a threshold of ks-installer that no other object contradicts.
* Where the way to the thresholds is blocked, a PATCH is answered with success and sets
  nothing: the errors of `jsonpath.Set` are dropped (`interface.go:119`, `122`).
* A patch of ks-installer that is answered NotFound counts as success
  (`interface.go:141`).
* `limit=-1` gives the first page again for every page number. `NothingMissed` leaves it
  out (`Whole`).
* Two tasks of one name, in different projects, are equal to the comparison
  (`resources/v1alpha3/interface.go:117-124`) and may change places between two pages. With
  the default limit of 10 that takes a second page, and so eleven tasks.
* A deleted task is retried for ever, because NotFound is returned as an error.
* `APIServer.Run` shadows its context by one that nothing cancels
  (`apiserver.go:137-143`): the goroutine that should call `Shutdown` never gets there. The
  first signal shuts nothing down, the second ends the process among open requests.
* The result of `WaitForCacheSync` is dropped, so a signal during the start makes the
  server listen with caches that never fill.
* `/api/clusters/c/v1` runs out of its slice (`requestinfo.go:209`): the
  connection is dropped without an answer.
* `Validate` of ks-apiserver checks nothing; that of the generic options is not
  called (`options/validation.go:24`), and nothing makes up for it. With
  `--insecure-port=0` and no secure port, which `server/options/options.go:61` would refuse
  ("insecure and secure port can not be disabled at the same time"), the server serves
  at a port the system picks. Only the key pair is read in any case. The bind address is
  used by nothing.

## 5. Proofs

All proofs hold for every value of the constants that satisfies the assumptions of
the module. Most of these say that special values (`Nil`, `Absent`, …) are no ordinary
ones, that bounds are naturals, and of what kind the sets of inputs are. The others limit
what the theorems are about:

* AnalysisController: `SmallMap`, at most eight projects, the entries of a Go map that
  has not grown to a second bucket; `SpecAssumption`, a task lives in one of the projects
  and its selectors name Deployments and projects of the instance, or nothing.
* NotifyThresholds: `Contents`, what other clients write, is any set of contents; there
  are finitely many objects.
* TaskList: `SortAssumption`, the contract of `sort.Slice` for this comparison, which is
  no strict order. It is not proved here: it follows from the algorithm of Go 1.18,
  in which the passes of a short list, the heap sort and the partition of the quicksort use
  the answers about equal elements only for where these come, and a transcription of it
  kept the contract on random lists of up to 200 elements. The assumption also makes the list a function
  of the set of tasks: the API server lists in the order of the keys and the sort draws no
  lots. `KeysAssumption`: names are numbers, and there are fewer tasks than the largest
  integer by two; the bound of the last page would wrap otherwise.
* RequestInfo and TaskClient: `NoSegments` are the names that are no path segment for
  another reason than being `.` or `..`; `IsForm`, with `IsUnmistakable`, and `IsCall`, the
  names a client refuses to put into a path left out, are what the theorems are about.
* KubernetesClient and ServerOptions: which kubeconfigs and key pairs there are does not
  change while a process runs.

**AnalysisControllerProofs.** `TypeCorrect`; `DeploymentsNotOverlooked`;
`EntriesFollow`. The inductive invariant is `TypeOK`, `UidOK` (no uid
known anywhere is still to be given out) and `NoDeploymentOverlooked` itself.
`UidOK` is needed where a Deployment is created: only because the informer
cannot know the new uid does the creation count as still to be notified. The rest
goes by where a Deployment is accounted for: the one step that enrols a project
leaves the worker before its List, and every step that takes a Deployment out of
a listing or a notification enters the call for it, finds the project not
cached, or is one of the recorded exceptions.

For `EntriesFollow` the invariant adds `PassInv`, which says how far a pass has come:
the running pass works on the cached spec of its task unless the task is queued again
(`SpecCurrent`), and each project the spec selects has its entry or is still to come
in the pass (`EntriesKept`). Every change of a cached task queues it, so the pass
of an older spec is excused, and the entry of a later task that selects the same
project is one the property does not speak of.

**ControllerManagerProofs.** `TypeCorrect`, `ContextsCancelled`,
`LiveServersCurrent`. The invariant adds `ContextsOK` (a server's context is
never newer than the latest, and none exists before Run) to the two
properties. They need each other: options change only in the step of
MergeConfig, where every context is cancelled, so that no server is live.

`ErrorsHaveCause`, `HandlersAreServed` and `OneAtWork` rest on
`ServersStep`: what any step may do to any one server. A server is failed only from
where no client could be built (`FailedHasCause`), and starts only after its
controllers asked for all informers (`ServerStep`), each of which
the lemma `AllStarted` finds in a factory. From the manager to its end a server holds
the port (`PortHeld`), and one that started and is done had its context cancelled
(`StartedHolds`).

`ServersSucceed` is the refinement of ServerSuccession. It needs the two invariants
above together and `VersionsInOrder`: what the servers have is no newer than what the
callback sends, that no newer than what viper holds, and that no newer than the file.
`NoneAtWork` is the heart: before Run and from the cancelFunc to the next server every
context is cancelled, so nobody is at work where the options change or Run returns.
`StartServer` is `Begin` or a stutter (`BeginStep`): the port leaves no other server at
work, and a server whose context is alive has the current options. Every other step of a
server leaves the workers as they are (`SameWorkers`) or ends the process (`EndStep`).

**ScheduleAPIProofs.** `TypeCorrect`, which includes that a request about to patch
has a task it read and one it wants that differ; `DeletedStaysDeleted`;
`OthersKept`, from a lemma that a merge keeps a part that is not in the difference;
and `Implements`, the refinement of TaskStore: each step of a request maps to `Ask`,
`Refuse`, `Put`, `Change`, `Take` or a stutter, and a merge patch to `Change` with the
parts in which the wanted task differs from the one read. `NotFoundTrue` needs
`CallsMatch`, that a request stands before a call of its own operation: without it a
Modify could be answered by the Create of an existing task. `ModifyExact` adds the
lemma `DiffExact`: the difference merged into the object it was taken from gives the
object wanted.

**NotifyThresholdsProofs.** `TypeCorrect`; `OthersKept`; `NamedAreSet`; and
`SourcesDecide`, for any objects of the resource. Its invariant: `Fresh` (an intact watch
makes the informer's copy equal to the cluster), `LastSays` (of the notifications left
about an object the last one says what the informer has) and `Heeded` (what is said of a
threshold by an object with no notification left, the controller has if it read the
threshold from that object, and has read it from some object in any case). A notification
is heeded when it is the last one about its object, and otherwise its object stays
`Pending`; the lemma `Batch` says that a batch has one about each object, by the
injection of positions into objects. `Patches` says what a patch makes of the object it
meets, which need not be the one it was made from; both theorems about requests follow.
`NamedAreSet` needs that a request has no status before its answer (`Unanswered`).

**TaskSortProofs and TaskListProofs.** `TaskSortProofs` is about one answer, of any sort
that keeps `SortAssumption`. `Precedes` is the order asked for, in which tasks may be
alike. `SortedRanks`: every task that passes the filters is listed once, none behind one
that it precedes, so a task without a twin comes after as many as its rank, the number of
those that precede it.

`TaskListProofs` is about a client that reads page after page while tasks come and go:
`TypeCorrect`, `NoTaskIsMissed`, `RepeatsAreExplained` and `PagesComeInOrder`. `Page` says
what ParseQueryParameter and GetValidPagination make of a request in integers that wrap.
The inductive invariant is `ReadingInv`: what the client has are tasks there were
(`Witnessed`), no more than the pages it asked for can hold (`Bounded`); the number of the
page and the offset are integers the machine has (`Placed`); what it does not have yet has
a twin, or a rank at or behind the next offset, unless a task that matches was deleted
(`Kept`); what it has comes once or has a twin, and has a rank below that offset, unless a
task before it was created (`Passed`); its pages are in order (`Arranged`); and as long as
nothing changes they are those of one list, twins included (`Straight`). A created task only
raises ranks and a deleted one only lowers them, which is why each property excuses one of
the two.

**RequestInfoProofs.** `URLIsUnderstood`: NewRequestInfo reads the URL of every form as
the form is meant, whatever the names in it. The URL is the prefix and, one inside the
other, what is left behind the prefix, cluster, group, version, special verb, workspace
and namespace (`Clustered` … `Object`); `URLBehindPrefix` puts it together by the
associativity of concatenation. `Taken` and `MaybeInFront` say when a part is taken and
when nothing is mistaken for it, and a lemma for each part (`ObjectRead`, `PlacedRead`,
… `ClusteredRead`), from the resource outwards, cites what `IsForm` excludes at that
point. `ResourceTold` turns the parts into the fields. `CallIsUnderstood` is the same for
the calls of the typed client: what a call sends has the URL of a form (`PathOfForm`), and
its method and options say its verb (`SaysTheCall`).

The first attempt at `URLIsUnderstood` failed for a good reason: `IsForm` admitted forms
whose URL is that of another one, such as a group `clusters` without a cluster. TLC
confirmed it on an instance with that group, which the instance had lacked;
`IsUnmistakable` is what had been missing, and the instance has those groups and
resources now.

**ApiServerProofs.** `TypeCorrect`; `NoListBeforeSync`; `OnlyKubernetesForwarded` and
`OnlyVersionDropped`, for every path, method and option. The invariant of the start adds `StartInv`: a
server that listens with informers still listing was interrupted, an interruption
that early is remembered in `late`, and no informer is started once the server
listens. That of a request is `Followed`: behind the first filter `info` says of
Kubernetes what the path says. It rests on `InfoTells` (every outcome of
NewRequestInfo does), `PrefixDecides` (the deferred function depends on the first
segment only, at every length) and `RoutesAnswer` (no route answers "forwarded" or
"dropped"). `OnlyVersionDropped` counts segments: `BehindCluster` says what a cluster
leaves of a path that is long enough to have a prefix, and `OnlyVersionPanics` that the
lengths NewRequestInfo checks leave no other path. `FormsUnderstood` and `CallsUnderstood` bring the theorems of
RequestInfoProofs to the running process: until it is read, a request has the URL and
options it was sent with (`Origin`), and nothing is both a form and a call
(`FormsAreNoCalls`).

Every invariant and every action property of a passing run is stated by a theorem, the
refinements of TaskStore and ServerSuccession included. Only model-checked are the six temporal properties that need
fairness, which is beyond the prover: `EveryDeploymentAttempted`, `ChangesApplied`,
`ShutdownEnds`, `MisconfiguredCrashes`, `ThresholdsApplied` and `StartEnds`.

## 6. Not modelled

* Generated listers, fake clients and deep copies; what an informer does on its own
  (resync, notifications, broken watches) is in the modules that use it.
* The factories of InformerFactories hold informers of client-go and Crane; modelled is
  which are there and what `Start` does with them.
* Leader election, disabled by default; the webhook, gops and logging flags only reach
  the libraries.
* The steps of `run` that end in a Fatalf for a programming error: a scheme or a
  controller that cannot be registered.
* `authentication.go`: not part of the handler chain.
* `ToMap`, `GetFromConfigMap`, `GetAnalysisTask`, `idutils`, `reflectutils`,
  `sliceutil`, `server/params`, most of `service/schedule/utils.go`: nothing the two
  programs do calls them.
* The headers and query that `WithRequestInfo` rewrites, logging, swagger, charts,
  CRDs, images and documents.

Each component and its reason is in `PROJECT.json`; so are the hazards, each at
its line with the properties that cover it. Those without a property are defects the
model has as the code has them, and about which no line of the repository promises
anything a run could refute, or limits that a property names as its exception; each has a
note, and section 4 says what happens.

## 7. Plan

Done: AnalysisController, ControllerManager with its options, clients, informers and ServerSuccession,
ScheduleAPI with TaskStore, NotifyThresholds, TaskList, and ApiServer with RequestInfo,
TaskClient and its options, each with proofs.

To come:

1. An abstract promise of the controller (a project once enrolled is covered) that
   AnalysisController implements, with `attempted` as the mapped state.
2. The two programs together: a threshold set over REST and a task created
   over REST, followed to the controller.
