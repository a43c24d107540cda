------------------------------ MODULE ApiServer ------------------------------
(***************************************************************************)
(* The life of the ks-apiserver process (cmd/apiserver/app, APIServer in   *)
(* pkg/apiserver), and the way of a request through it: the filter that    *)
(* reads the URL, the filter that forwards requests to the API server of   *)
(* the cluster, and the routes of the schedule service.  What the handlers *)
(* behind the routes do is in ScheduleAPI, NotifyThresholds and TaskList.  *)
(*                                                                         *)
(* Requests share nothing on that way, so one is followed at a time, while *)
(* signals arrive and the start goes on.                                   *)
(***************************************************************************)
EXTENDS TaskClient, KubernetesClient, ServerOptions, SharedInformers, FiniteSets

CONSTANTS
    Nil,
    Forms,       \* the documented URL forms clients use
    OtherPaths,  \* other paths they use
    Calls,       \* the calls of typed clients whose host is ks-apiserver
    Methods,     \* the methods
    Options,     \* the query options of requests for other paths
    Loaded,      \* the options a configuration file may give
    MaxTries     \* tries of the discovery: five with retry.DefaultRetry

ASSUME FormsAssumption == Forms \subseteq Form /\ \A f \in Forms : IsForm(f)
ASSUME CallsAssumption == Calls \subseteq Call /\ \A c \in Calls : IsCall(c)
ASSUME NilAssumption == Nil \notin Forms \cup Calls
ASSUME PathsAssumption == OtherPaths \subseteq Seq(STRING)
ASSUME LoadedAssumption == Loaded \subseteq KubernetesOptions
ASSUME TriesAssumption == MaxTries \in Nat \ {0}

VARIABLES
    main,       \* where the main goroutine is
    generic,    \* GenericServerRunOptions
    server,     \* the http.Server, once there is one
    tries,      \* how often discovery failed, while it is tried
    served,     \* the resources of the schedule group the cluster has
    cache,      \* the goroutine of the cache of controller-runtime
    signals,    \* the signals that arrived; the first cancels the context
    late,       \* a signal arrived before the server listened
    request     \* the request that is followed

process == <<main, generic, server, tries, served, cache, factory, signals, late>>
vars == <<process, request>>

Cancelled == signals > 0

(* A request that was not sent yet.                                        *)
NoRequest == [pc |-> "none"]

Init ==
    /\ main = "validate"
    /\ generic = NewServerRunOptions
    /\ server = Nil
    /\ tries = 0
    /\ served = {}
    /\ cache = "none"
    /\ NewSharedInformerFactory
    /\ signals = 0
    /\ late = FALSE
    /\ request = NoRequest

-----------------------------------------------------------------------------
(* The process.                                                            *)

(* The configuration file cannot be read, or the flags are parsed; the      *)
(* Validate of the command checks nothing.  Signals are listened to from   *)
(* now on.                                                                 *)
Validate ==
    /\ main = "validate"
    /\ \/ main' = "ended" /\ UNCHANGED generic
       \/ /\ main' = "create"
          /\ \E line \in CommandLines : generic' = AddServerFlags(line, generic)
    /\ UNCHANGED <<server, tries, served, cache, factory, signals, late, request>>

(* A client is made and the key pair read, or the process ends; the        *)
(* manager, which asks the cluster for its resources, may fail in any      *)
(* case.  PrepareRun then installs the routes and the filters.             *)
NewAPIServer ==
    /\ main = "create"
    /\ \/ main' = "ended" /\ UNCHANGED server
       \/ /\ main' = "discover"
          /\ \E k \in Loaded : NewKubernetesClient(k) # {}
          /\ LoadX509KeyPair(generic)
          /\ server' = NewServer(generic)
    /\ UNCHANGED <<generic, tries, served, cache, factory, signals, late, request>>

(* Mutant: discovery is tried once too often.                              *)
DiscoverAgain ==
    /\ main = "discover"
    /\ \/ main' = "ended" /\ tries' = 0 /\ UNCHANGED served
       \/ tries < MaxTries /\ tries' = tries + 1 /\ UNCHANGED <<main, served>>
       \/ main' = "inform" /\ tries' = 0 /\ served' \in SUBSET Resources
    /\ UNCHANGED <<generic, server, cache, factory, signals, late, request>>

(* WaitForCacheSync asks which resources the schedule group has.  NotFound *)
(* is final, any other error is tried again; no signal is looked at.       *)
Discover ==
    /\ main = "discover"
    /\ \/ main' = "ended" /\ tries' = 0 /\ UNCHANGED served
       \/ tries + 1 < MaxTries /\ tries' = tries + 1 /\ UNCHANGED <<main, served>>
       \/ main' = "inform" /\ tries' = 0 /\ served' \in SUBSET Resources
    /\ UNCHANGED <<generic, server, cache, factory, signals, late, request>>

(* The resources that have to be synced; ForResource knows them all.       *)
ScheduleGVRs == {"analysistasks"}

(* An informer is made for those the cluster has, with a warning for the   *)
(* others, and all are started.                                            *)
MakeInformers ==
    /\ main = "inform"
    /\ InformersFor(ScheduleGVRs \cap served)
    /\ main' = "start"
    /\ UNCHANGED <<generic, server, tries, served, cache, signals, late, request>>

(* Mutant: the informers are not started.                                  *)
StartNothing ==
    /\ main = "start"
    /\ main' = "sync"
    /\ UNCHANGED <<generic, server, tries, served, cache, factory, signals, late, request>>

StartFactory ==
    /\ main = "start"
    /\ StartInformers
    /\ main' = "sync"
    /\ UNCHANGED <<generic, server, tries, served, cache, signals, late, request>>

InformerSyncs ==
    /\ main # "ended"
    /\ \E r \in Resources : Sync(r, Cancelled)
    /\ UNCHANGED <<main, generic, server, tries, served, cache, signals, late, request>>

(* Mutant: a signal is not noticed while the server waits.                 *)
WaitDeaf ==
    /\ main = "sync"
    /\ SyncEnds(FALSE)
    /\ cache' = "spawned"
    /\ main' = "cache"
    /\ UNCHANGED <<generic, server, tries, served, factory, signals, late, request>>

(* The wait for the informers ends when they have synced, or when the      *)
(* context is cancelled; the difference is not looked at.  The goroutine   *)
(* of the cache is next.                                                   *)
WaitForCacheSync ==
    /\ main = "sync"
    /\ SyncEnds(Cancelled)
    /\ cache' = "spawned"
    /\ main' = "cache"
    /\ UNCHANGED <<generic, server, tries, served, factory, signals, late, request>>

(* No informer was asked of the cache: it has synced when it started.      *)
StartRuntimeCache ==
    /\ main # "ended"
    /\ cache = "spawned"
    /\ cache' = "started"
    /\ UNCHANGED <<main, generic, server, tries, served, factory, signals, late, request>>

WaitForRuntimeCache ==
    /\ main = "cache"
    /\ cache = "started" \/ Cancelled
    /\ main' = "listen"
    /\ UNCHANGED <<generic, server, tries, served, cache, factory, signals, late, request>>

(* The context of Run is replaced by one that no signal cancels: nothing   *)
(* shuts the server down.                                                  *)
Listen ==
    /\ main = "listen"
    /\ main' \in {"ended"} \cup IF CanListen(server) THEN {"serving"} ELSE {}
    /\ UNCHANGED <<generic, server, tries, served, cache, factory, signals, late, request>>

(* SetupSignalHandler: the second signal ends the process.                 *)
Signal ==
    /\ main \notin {"validate", "ended"}
    /\ signals' = signals + 1
    /\ late' = (late \/ main # "serving")
    /\ main' = IF signals' = 2 THEN "ended" ELSE main
    /\ UNCHANGED <<generic, server, tries, served, cache, factory, request>>

-----------------------------------------------------------------------------
(* A request.                                                              *)

Serving == main = "serving"

(* The routes of the schedule service below /kapis/schedule.kubesphere.io  *)
(* and its version; "*" stands for one segment.                            *)
Routes ==
    {<<"GET",    <<"scheduler">>,                        "ListScheduler">>,
     <<"PATCH",  <<"scheduler">>,                        "ModifyScheduler">>,
     <<"PATCH",  <<"analysis", "config">>,               "ModifyAnalysisTaskConfig">>,
     <<"GET",    <<"analysis">>,                         "ListAnalysisTask">>,
     <<"POST",   <<"analysis">>,                         "CreateNamespaceAnalysis">>,
     <<"POST",   <<"namespaces", "*", "analysis">>,      "CreateAnalysis">>,
     <<"PATCH",  <<"namespaces", "*", "analysis", "*">>, "ModifyAnalysisTask">>,
     <<"GET",    <<"namespaces", "*", "analysis", "*">>, "DescribeAnalysisTask">>,
     <<"DELETE", <<"namespaces", "*", "analysis", "*">>, "DeleteAnalysisTask">>}

Root == <<"kapis", "schedule.kubesphere.io", "v1">>

Fits(route, path) ==
    LET template == Root \o route[2]
    IN  /\ Len(path) = Len(template)
        /\ \A i \in DOMAIN path : template[i] \in {"*", path[i]}

(* What the container does with a request: a handler, or 404 or 405.       *)
Dispatch(req) ==
    LET fitting == {route \in Routes : Fits(route, req.path)}
        chosen  == {route \in fitting : route[1] = req.method}
    IN  IF chosen # {} THEN (CHOOSE route \in chosen : TRUE)[3]
        ELSE IF fitting # {} THEN "405" ELSE "404"

Send(path, form, method, options) ==
    /\ Serving
    /\ request.pc = "none"
    /\ request' = [pc |-> "read", path |-> path, form |-> form, method |-> method,
                   options |-> options, info |-> Nil, answer |-> ""]
    /\ UNCHANGED process

(* The filter WithRequestInfo.  A panic here is behind no recover handler  *)
(* of the container: net/http drops the connection.                        *)
WithRequestInfo ==
    /\ Serving
    /\ request.pc = "read"
    /\ LET read == NewRequestInfo(request)
       IN  request' = CASE read.outcome = "panic" ->
                              [request EXCEPT !.pc = "done", !.answer = "dropped"]
                        [] read.outcome = "error" ->
                              [request EXCEPT !.pc = "done", !.answer = "500"]
                        [] OTHER -> [request EXCEPT !.pc = "filter", !.info = read.info]
    /\ UNCHANGED process

(* The filter WithKubeAPIServer: the request is forwarded, or handled by   *)
(* the container.                                                          *)
WithKubeAPIServer ==
    /\ Serving
    /\ request.pc = "filter"
    /\ request' = [request EXCEPT !.pc = "done",
                      !.answer = IF request.info.IsKubernetesRequest THEN "forwarded"
                                 ELSE Dispatch(request)]
    /\ UNCHANGED process

(* The client has its answer.                                              *)
Leave ==
    /\ request.pc = "done"
    /\ request' = NoRequest
    /\ UNCHANGED process

-----------------------------------------------------------------------------
Start ==
    \/ Validate \/ NewAPIServer
    \/ Discover \/ MakeInformers \/ StartFactory \/ WaitForCacheSync \/ WaitForRuntimeCache
    \/ Listen

Next ==
    \/ Start
    \/ InformerSyncs
    \/ StartRuntimeCache
    \/ Signal
    \/ \E f \in Forms, m \in Methods : Send(URL(f), f, m, NoOptions)
    \/ \E p \in OtherPaths, m \in Methods, o \in Options : Send(p, Nil, m, o)
    \/ \E c \in Calls : Send(Sent(c).path, c, Sent(c).method, Sent(c).options)
    \/ WithRequestInfo \/ WithKubeAPIServer
    \/ Leave

Spec == Init /\ [][Next]_vars

(* The goroutines run, and the informers sync in the end.                  *)
FairSpec ==
    Spec /\ WF_vars(Start) /\ WF_vars(InformerSyncs) /\ WF_vars(StartRuntimeCache)

-----------------------------------------------------------------------------
(* Properties.                                                             *)

ServerTypeOK ==
    /\ generic \in ServerRunOptions
    /\ server \in [port : Int, tls : BOOLEAN] \cup {Nil}

(* Every variable is of its kind.                                          *)
TypeOK ==
    /\ main \in {"validate", "create", "discover", "inform", "start", "sync", "cache",
                "listen", "serving", "ended"}
    /\ ServerTypeOK
    /\ tries \in 0..(MaxTries - 1)
    /\ served \subseteq Resources
    /\ cache \in {"none", "spawned", "started"}
    /\ FactoryTypeOK
    /\ signals \in 0..2
    /\ late \in BOOLEAN
    /\ request.pc \in {"none", "read", "filter", "done"}

(* The comment of NewRequestInfo: a URL of a documented form is read as    *)
(* what it means, whatever names the cluster, workspace, namespace and     *)
(* object in it have; a project may be called "watch" or "workspaces".     *)
RequestUnderstood ==
    request.pc = "filter" /\ request.form \in Forms =>
       request.info = Meaning(request.form, request.method)

(* The typed client and the reader of URLs agree: a call of the client is  *)
(* read with the verb, the namespace, the name and the subresource the     *)
(* call has, and as one for Kubernetes, whatever the names are.            *)
CallUnderstood ==
    request.pc = "filter" /\ request.form \in Calls =>
       request.info = CallMeaning(request.form)

(* kubeapiserver.go:32, "proxy request to kubernetes service if requests   *)
(* path starts with /api": a request is forwarded to Kubernetes exactly if *)
(* the first segment says so, and then reaches no handler of this program, *)
(* however short, long or odd the rest of its path is.                     *)
ForwardedByPrefix ==
    request.pc = "done" /\ request.answer \notin {"500", "dropped"} =>
       (request.answer = "forwarded" <=>
           request.path # <<>> /\ request.path[1] \in {"api", "apis"})

(* A request goes unanswered only if its path ends with the version behind *)
(* a cluster, under a prefix without groups; the check of the length in    *)
(* front of every other index of NewRequestInfo suffices.                  *)
DroppedOnlyAtVersion ==
    request.pc = "done" /\ request.answer = "dropped" =>
       /\ Len(request.path) = 4
       /\ request.path[1] \in {"api", "kapi"} /\ request.path[2] = "clusters"

(* apiserver.go:122-125: before the informers have synced, lists would be  *)
(* empty.  When a request is handled, the informer of every resource that  *)
(* is needed and that the cluster has is started and has synced, except    *)
(* when a signal cut the wait short: the server listens all the same.      *)
SyncedBeforeServing ==
    request.pc # "none" => ScheduleGVRs \cap served \subseteq synced \/ late

(* The start of APIServer.Run comes to an end: the server listens, or the  *)
(* process is over, also when a signal arrives before informers have       *)
(* synced or discovery keeps failing.                                      *)
StartEnds == main = "validate" ~> main \in {"serving", "ended"}

=============================================================================
