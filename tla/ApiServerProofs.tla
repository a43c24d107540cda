--------------------------- MODULE ApiServerProofs ---------------------------
(***************************************************************************)
(* Proofs about ApiServer, for every set of paths and forms, every number  *)
(* of tries, and signals at any moment.                                    *)
(***************************************************************************)
EXTENDS ApiServer, RequestInfoProofs

(***************************************************************************)
(* The start.  The server listens with informers that have not synced only *)
(* if a signal ended the wait, and a signal that early is remembered in    *)
(* late; requests come only to a server that listens, and no informer is   *)
(* started after that.                                                     *)
(***************************************************************************)

Before    == {"validate", "create", "discover"}
Informed  == {"start", "sync", "cache", "listen", "serving"}
Begun     == {"sync", "cache", "listen", "serving"}
Waited    == {"cache", "listen", "serving"}

StartInv ==
    /\ main = "ended" \/ tries = 0 \/ main = "discover"
    /\ main # "ended" => signals < 2
    /\ main \notin {"serving", "ended"} /\ Cancelled => late
    /\ main \in Informed => ScheduleGVRs \cap served \subseteq informers
    /\ main \in Begun => informers \subseteq startedInformers
    /\ main \in Waited => startedInformers \subseteq synced \/ late
    /\ request.pc # "none" => main \in {"serving", "ended"}

IInv == TypeOK /\ StartInv /\ SyncedBeforeServing

(* The options and the server are of their kind from the start on.         *)
LEMMA InitOptions == Init => ServerTypeOK
<1>1. NewServerRunOptions \in ServerRunOptions
    BY TextsAssumption DEF NewServerRunOptions, ServerRunOptions
<1>2. QED
    BY <1>1 DEF Init, ServerTypeOK

LEMMA OptionsStep == ServerTypeOK /\ [Next]_vars => ServerTypeOK'
<1> SUFFICES ASSUME ServerTypeOK, [Next]_vars PROVE ServerTypeOK'
    OBVIOUS
<1>1. CASE Validate
  <2>1. ASSUME NEW line \in CommandLines PROVE AddServerFlags(line, generic) \in ServerRunOptions
    <3>1. /\ line \in CommandLine
          /\ generic \in ServerRunOptions
        BY CommandLineAssumption DEF ServerTypeOK
    <3>2. QED
        BY <3>1 DEF AddServerFlags, CommandLine, ServerRunOptions
  <2>2. generic' \in ServerRunOptions
      BY <1>1, <2>1 DEF Validate, ServerTypeOK
  <2>3. QED
      BY <1>1, <2>2 DEF Validate, ServerTypeOK
<1>2. CASE NewAPIServer
  <2>1. NewServer(generic) \in [port : Int, tls : BOOLEAN]
    <3>1. generic.SecurePort \in Int /\ generic.InsecurePort \in Int
        BY DEF ServerTypeOK, ServerRunOptions
    <3>2. QED
        BY <3>1 DEF NewServer
  <2>2. QED
      BY <1>2, <2>1 DEF NewAPIServer, ServerTypeOK
<1>3. CASE ~Validate /\ ~NewAPIServer
  <2>1. UNCHANGED <<generic, server>>
      BY <1>3 DEF Next, Start, Discover, MakeInformers, StartFactory, WaitForCacheSync,
                  WaitForRuntimeCache, Listen, InformerSyncs, StartRuntimeCache, Signal, Send,
                  WithRequestInfo, WithKubeAPIServer, Leave, process, vars
  <2>2. QED
      BY <2>1 DEF ServerTypeOK
<1>4. QED
    BY <1>1, <1>2, <1>3

LEMMA OptionsStay == Spec => []ServerTypeOK
<1>1. QED
    BY InitOptions, OptionsStep, PTL DEF Spec

LEMMA InitIInv == Init => IInv
<1> SUFFICES ASSUME Init PROVE IInv
    OBVIOUS
<1>0. ServerTypeOK
    BY InitOptions
<1>1. request.pc = "none"
    BY DEF Init, NoRequest
<1>2. late \in BOOLEAN
    BY DEF Init
<1>3. /\ main = "validate" /\ served = {} /\ cache = "none"
      /\ tries = 0 /\ signals = 0 /\ MaxTries \in Nat /\ tries < MaxTries
    BY TriesAssumption DEF Init
<1>4. FactoryTypeOK
    BY DEF Init, NewSharedInformerFactory, FactoryTypeOK
<1>5. QED
    BY <1>0, <1>1, <1>2, <1>3, <1>4 DEF IInv, TypeOK, StartInv, SyncedBeforeServing, Before,
                                  Informed, Begun, Waited, Cancelled

(* The steps of the goroutines of the start.                               *)
LEMMA StartIInv ==
    IInv /\ ServerTypeOK' /\ (Start \/ InformerSyncs \/ StartRuntimeCache) => IInv'
<1> SUFFICES ASSUME IInv, ServerTypeOK', Start \/ InformerSyncs \/ StartRuntimeCache
             PROVE  IInv'
    OBVIOUS
<1> USE TriesAssumption
    DEF IInv, TypeOK, StartInv, SyncedBeforeServing, FactoryTypeOK, factory,
        Before, Informed, Begun, Waited, Cancelled, Resources
<1>1. CASE Validate
    BY <1>1 DEF Validate
<1>2. CASE NewAPIServer
  <2>1. main = "create" /\ main' \in {"ended", "discover"}
      BY <1>2 DEF NewAPIServer
  <2>2. UNCHANGED <<tries, served, cache, factory, signals, late, request>>
      BY <1>2 DEF NewAPIServer
  <2>3. QED
      BY <2>1, <2>2
<1>3. CASE Discover
  <2>1. /\ main = "discover"
        /\ UNCHANGED <<cache, informers, startedInformers, synced, signals, late, request>>
      BY <1>3 DEF Discover
  <2>2. \/ main' \in {"ended", "inform"} /\ tries' = 0
        \/ main' = "discover" /\ tries' = tries + 1 /\ tries' < MaxTries
      BY <1>3 DEF Discover
  <2>3. served' \subseteq Resources
      BY <1>3 DEF Discover
  <2>4. request.pc = "none"
      BY <2>1
  <2>5. QED
      BY <2>1, <2>2, <2>3, <2>4
<1>4. CASE MakeInformers
    BY <1>4 DEF MakeInformers, InformersFor, ScheduleGVRs
<1>5. CASE StartFactory
    BY <1>5 DEF StartFactory, StartInformers
<1>6. CASE WaitForCacheSync
    BY <1>6 DEF WaitForCacheSync, SyncEnds
<1>7. CASE WaitForRuntimeCache
    BY <1>7 DEF WaitForRuntimeCache
<1>8. CASE Listen
    BY <1>8 DEF Listen
<1>9. CASE InformerSyncs
    BY <1>9 DEF InformerSyncs, Sync
<1>10. CASE StartRuntimeCache
    BY <1>10 DEF StartRuntimeCache
<1>11. QED
    BY <1>1, <1>2, <1>3, <1>4, <1>5, <1>6, <1>7, <1>8, <1>9, <1>10 DEF Start

(* The steps of a request leave the process alone, and give the request    *)
(* one of its places.                                                      *)
Answering ==
    \/ \E f \in Forms, m \in Methods : Send(URL(f), f, m, NoOptions)
    \/ \E p \in OtherPaths, m \in Methods, o \in Options : Send(p, Nil, m, o)
    \/ \E c \in Calls : Send(Sent(c).path, c, Sent(c).method, Sent(c).options)
    \/ WithRequestInfo \/ WithKubeAPIServer

(* A request keeps its fields.                                             *)
Shape ==
    request.pc # "none" =>
       request = [pc |-> request.pc, path |-> request.path, form |-> request.form,
                  method |-> request.method, options |-> request.options,
                  info |-> request.info, answer |-> request.answer]

LEMMA InitShape == Init => Shape
BY DEF Init, Shape, NoRequest

LEMMA SendShape ==
    ASSUME NEW path, NEW form, NEW method, NEW options, Send(path, form, method, options)
    PROVE  Shape' /\ request'.pc = "read" /\ Serving /\ UNCHANGED process
BY DEF Send, Shape

LEMMA ReadShape ==
    ASSUME Shape, WithRequestInfo
    PROVE  Shape' /\ request'.pc \in {"done", "filter"} /\ Serving /\ UNCHANGED process
<1>1. request.pc = "read" /\ Serving /\ UNCHANGED process
    BY DEF WithRequestInfo
<1> DEFINE read == NewRequestInfo(request)
<1>2. \/ request' = [request EXCEPT !.pc = "done", !.answer = "dropped"]
      \/ request' = [request EXCEPT !.pc = "done", !.answer = "500"]
      \/ request' = [request EXCEPT !.pc = "filter", !.info = read.info]
    BY DEF WithRequestInfo
<1> HIDE DEF read
<1>3. QED
    BY <1>1, <1>2 DEF Shape

LEMMA FilterShape ==
    ASSUME Shape, WithKubeAPIServer
    PROVE  Shape' /\ request'.pc = "done" /\ Serving /\ UNCHANGED process
<1>1. request.pc = "filter" /\ Serving /\ UNCHANGED process
    BY DEF WithKubeAPIServer
<1>2. PICK answer : request' = [request EXCEPT !.pc = "done", !.answer = answer]
    BY DEF WithKubeAPIServer
<1>3. QED
    BY <1>1, <1>2 DEF Shape

LEMMA NextIInv ==
    IInv /\ Shape /\ ServerTypeOK' /\ [Next]_vars => IInv' /\ Shape'
<1> SUFFICES ASSUME IInv, Shape, ServerTypeOK', [Next]_vars PROVE IInv' /\ Shape'
    OBVIOUS
<1>1. CASE Start \/ InformerSyncs \/ StartRuntimeCache
  <2>1. UNCHANGED request
      BY <1>1 DEF Start, Validate, NewAPIServer, Discover, MakeInformers, StartFactory,
                  WaitForCacheSync, WaitForRuntimeCache, Listen, InformerSyncs,
                  StartRuntimeCache
  <2>2. QED
      BY <1>1, <2>1, StartIInv DEF Shape
<1>2. CASE Signal
  <2>1. /\ signals \in 0..1 /\ signals' = signals + 1
        /\ main' = IF signals' = 2 THEN "ended" ELSE main
        /\ UNCHANGED <<tries, served, cache, factory, request>>
      BY <1>2 DEF Signal, IInv, TypeOK, StartInv
  <2>2. late' \in BOOLEAN /\ (late => late') /\ (main # "serving" => late')
      BY <1>2 DEF Signal
  <2>3. TypeOK'
      BY <2>1, <2>2 DEF IInv, TypeOK, FactoryTypeOK, factory
  <2>4. StartInv'
      BY <2>1, <2>2 DEF IInv, TypeOK, StartInv, Before, Informed, Begun, Waited, Cancelled,
                        factory
  <2>5. SyncedBeforeServing' /\ Shape'
      BY <2>1, <2>2 DEF IInv, SyncedBeforeServing, Shape, factory
  <2>6. QED
      BY <2>3, <2>4, <2>5 DEF IInv
<1>3. CASE Answering
  <2>1. /\ Serving /\ UNCHANGED process
        /\ Shape' /\ request'.pc \in {"read", "filter", "done"}
      BY <1>3, SendShape, ReadShape, FilterShape DEF Answering
  <2>2. QED
      BY <2>1 DEF process, Serving, IInv, TypeOK, StartInv, SyncedBeforeServing,
                  Before, Informed, Begun, Waited, FactoryTypeOK, factory, Cancelled
<1>4. CASE Leave
    BY <1>4 DEF Leave, process, NoRequest, IInv, TypeOK, StartInv, SyncedBeforeServing, Shape,
                Before, Informed, Begun, Waited, FactoryTypeOK, factory, Cancelled
<1>5. CASE UNCHANGED vars
    BY <1>5 DEF vars, process, IInv, TypeOK, StartInv, SyncedBeforeServing, Shape,
                Before, Informed, Begun, Waited, FactoryTypeOK, factory, Cancelled
<1>6. QED
    BY <1>1, <1>2, <1>3, <1>4, <1>5 DEF Next, Answering

LEMMA Invariant == Spec => [](IInv /\ Shape)
<1>1. Init => IInv /\ Shape
    BY InitIInv, InitShape
<1>2. QED
    BY <1>1, NextIInv, OptionsStay, PTL DEF Spec

(* Every variable is of its kind: discovery ends after its tries, and a    *)
(* second signal is the last.                                              *)
THEOREM TypeCorrect == Spec => []TypeOK
<1>1. IInv => TypeOK
    BY DEF IInv
<1>2. QED
    BY <1>1, Invariant, PTL

(* No request is handled before the informers have synced, unless a signal *)
(* cut the start short.                                                    *)
THEOREM NoListBeforeSync == Spec => []SyncedBeforeServing
<1>1. IInv => SyncedBeforeServing
    BY DEF IInv
<1>2. QED
    BY <1>1, Invariant, PTL

(***************************************************************************)
(* The way of a request.  What the first filter says of Kubernetes follows *)
(* from the first segment in every outcome, and no route answers like the  *)
(* second filter.                                                          *)
(***************************************************************************)

(* The deferred function looks at the first segment only.                  *)
LEMMA PrefixDecides ==
    ASSUME NEW S, NEW path \in Seq(S)
    PROVE  IsKubernetesRequest(path) <=> path # <<>> /\ path[1] \in {"api", "apis"}
<1> DEFINE n == Len(path)
<1>1. n \in Nat /\ (n = 0 => path = <<>>) /\ (n # 0 => path # <<>>)
    OBVIOUS
<1>2. CASE n >= 3
  <2>1. path # <<>> /\ Len(path) \notin 1..2
    <3>1. n # 0 /\ n \notin 1..2
      <4> HIDE DEF n
      <4> QED
        BY <1>1, <1>2
    <3>2. QED
        BY <3>1, <1>1
  <2>2. APIPrefix(path) = IF path[1] \in APIPrefixes THEN path[1] ELSE ""
      BY <1>2 DEF APIPrefix
  <2>3. kubernetesAPIPrefixes \subseteq APIPrefixes /\ "" \notin kubernetesAPIPrefixes
      BY DEF APIPrefixes, kubernetesAPIPrefixes
  <2>4. CASE path[1] \in APIPrefixes
    <3>1. APIPrefix(path) = path[1]
        BY <2>2, <2>4
    <3>2. QED
        BY <3>1, <2>1 DEF IsKubernetesRequest, kubernetesAPIPrefixes
  <2>5. CASE path[1] \notin APIPrefixes
    <3>1. APIPrefix(path) \notin kubernetesAPIPrefixes
        BY <2>2, <2>3, <2>5
    <3>2. path[1] \notin kubernetesAPIPrefixes
        BY <2>3, <2>5
    <3>3. QED
        BY <3>1, <3>2, <2>1 DEF IsKubernetesRequest, kubernetesAPIPrefixes
  <2>6. QED
      BY <2>4, <2>5
<1>3. CASE n \in 1..2
  <2>1. path # <<>> /\ ~(Len(path) >= 3)
    <3>1. n # 0 /\ ~(n >= 3)
      <4> HIDE DEF n
      <4> QED
        BY <1>1, <1>3
    <3>2. QED
        BY <3>1, <1>1
  <2>2. APIPrefix(path) \notin kubernetesAPIPrefixes
    <3>1. APIPrefix(path) = ""
        BY <2>1 DEF APIPrefix
    <3>2. QED
        BY <3>1 DEF kubernetesAPIPrefixes
  <2>3. QED
      BY <2>1, <2>2, <1>3 DEF IsKubernetesRequest, kubernetesAPIPrefixes
<1>4. CASE n = 0
  <2>1. path = <<>> /\ ~(Len(path) >= 3) /\ Len(path) \notin 1..2
      BY <1>1, <1>4
  <2>2. APIPrefix(path) = ""
      BY <2>1 DEF APIPrefix
  <2>3. APIPrefix(path) \notin kubernetesAPIPrefixes
      BY <2>2 DEF kubernetesAPIPrefixes
  <2>4. QED
      BY <2>1, <2>3 DEF IsKubernetesRequest
<1>5. n >= 3 \/ n \in 1..2 \/ n = 0
  <2> HIDE DEF n
  <2> QED
    BY <1>1
<1>6. QED
    BY <1>2, <1>3, <1>4, <1>5

(* Every outcome of NewRequestInfo tells whether the request is for        *)
(* Kubernetes.                                                             *)
LEMMA NonResourceTells ==
    ASSUME NEW req
    PROVE  NonResource(req).IsKubernetesRequest = IsKubernetesRequest(req.path)
BY DEF NonResource

LEMMA ClusterTells ==
    ASSUME NEW req, NEW cluster
    PROVE  [NonResource(req) EXCEPT !.Cluster = cluster].IsKubernetesRequest
              = IsKubernetesRequest(req.path)
BY DEF NonResource

LEMMA ResourceTells ==
    ASSUME NEW req, NEW cluster, NEW group, NEW version, NEW special, NEW rest
    PROVE  ResourceInfo(req, cluster, group, version, special, rest).IsKubernetesRequest
              = IsKubernetesRequest(req.path)
BY DEF ResourceInfo

LEMMA InfoTells ==
    ASSUME NEW req
    PROVE  NewRequestInfo(req).info.IsKubernetesRequest = IsKubernetesRequest(req.path)
<1> DEFINE same(info) == info.IsKubernetesRequest = IsKubernetesRequest(req.path)
           parts     == Tail(req.path)
           groupless == req.path[1] \in GrouplessAPIPrefixes
           cluster   == ValueOf(parts, "clusters")
           inCluster == Behind(parts, "clusters")
           versioned == IF groupless THEN inCluster ELSE Tail(inCluster)
           rest      == Tail(versioned)
           unspecial == IF IsSpecial(rest) THEN Tail(rest) ELSE rest
           plain     == Understood(NonResource(req))
           clustered == Understood([NonResource(req) EXCEPT !.Cluster = cluster])
           resource  == Understood(
                ResourceInfo(req, cluster, IF groupless THEN "" ELSE inCluster[1],
                             versioned[1], IF IsSpecial(rest) THEN rest[1] ELSE "",
                             unspecial))
           outcome ==
              IF APIPrefix(req.path) = "" THEN plain
              ELSE IF ~groupless /\ Len(inCluster) < 3 THEN clustered
              ELSE IF TooShort(rest) THEN Failed(req)
              ELSE IF unspecial = <<>> THEN Panicked(req)
              ELSE resource
<1>1. same(plain.info) /\ same(Failed(req).info) /\ same(Panicked(req).info)
    BY NonResourceTells DEF Understood, Failed, Panicked
<1>2. same(clustered.info)
    BY ClusterTells DEF Understood
<1>3. same(resource.info)
  <2>1. \A clu, group, version, special, tail :
           same(Understood(ResourceInfo(req, clu, group, version, special, tail)).info)
      BY ResourceTells DEF Understood
  <2> DEFINE group   == IF groupless THEN "" ELSE inCluster[1]
             version == versioned[1]
             special == IF IsSpecial(rest) THEN rest[1] ELSE ""
  <2>2. resource = Understood(ResourceInfo(req, cluster, group, version, special, unspecial))
      OBVIOUS
  <2>3. \A clu, g, v, sp, tail :
           resource = Understood(ResourceInfo(req, clu, g, v, sp, tail)) => same(resource.info)
    <3> HIDE DEF resource
    <3> QED
      BY <2>1
  <2> HIDE DEF resource, cluster, group, version, special, unspecial
  <2>4. QED
      BY <2>2, <2>3
<1>4. NewRequestInfo(req) = outcome
    BY DEF NewRequestInfo
<1>5. same(outcome.info)
  <2> HIDE DEF plain, clustered, resource, unspecial, groupless, inCluster, rest
  <2> QED
    BY <1>1, <1>2, <1>3
<1>6. QED
    BY <1>4, <1>5

(* The container answers: a handler is no forwarding and no dropping.      *)
LEMMA RoutesAnswer == \A req : Dispatch(req) \notin {"forwarded", "dropped"}
<1> SUFFICES ASSUME NEW req PROVE Dispatch(req) \notin {"forwarded", "dropped"}
    OBVIOUS
<1> DEFINE fitting == {route \in Routes : Fits(route, req.path)}
           chosen  == {route \in fitting : route[1] = req.method}
<1>1. \A route \in Routes : route[3] \notin {"forwarded", "dropped"}
    BY DEF Routes
<1>2. chosen \subseteq Routes
    OBVIOUS
<1>3. chosen # {} => (CHOOSE route \in chosen : TRUE) \in chosen
    OBVIOUS
<1>4. chosen # {} => (CHOOSE route \in chosen : TRUE)[3] \notin {"forwarded", "dropped"}
    BY <1>1, <1>2, <1>3
<1>5. Dispatch(req) = IF chosen # {} THEN (CHOOSE route \in chosen : TRUE)[3]
                      ELSE IF fitting # {} THEN "405" ELSE "404"
    BY DEF Dispatch
<1> HIDE DEF chosen, fitting
<1>6. QED
    BY <1>4, <1>5

(* The segments of a path are of some set.                                 *)
IsPath(path) == \E S : path \in Seq(S)

(* The URL of a form is a path of its parts and keys.                      *)
LEMMA URLIsPath == \A f : IsPath(URL(f))
<1> SUFFICES ASSUME NEW f PROVE IsPath(URL(f))
    OBVIOUS
<1> DEFINE S == Segments(f)
<1>1. <<f.prefix>> \in Seq(S) /\ Clustered(f) \in Seq(S)
    BY PartsOfForm, RestsOfForm
<1>2. URL(f) = <<f.prefix>> \o Clustered(f)
    BY URLBehindPrefix
<1> HIDE DEF S
<1>3. URL(f) \in Seq(S)
    BY <1>1, <1>2, ConcatProperties
<1>4. QED
    BY <1>3 DEF IsPath

(* What a call of the typed client sends has a path.                       *)
LEMMA PathToIsPath == \A ns, name, subresource : IsPath(PathTo(ns, name, subresource))
<1> SUFFICES ASSUME NEW ns, NEW name, NEW subresource
             PROVE  IsPath(PathTo(ns, name, subresource))
    OBVIOUS
<1> DEFINE S == {ns, name, subresource, "apis", "schedule.kubesphere.io", "v1alpha1",
                 "namespaces", "analysistasks"}
<1>1. /\ ns \in S /\ name \in S /\ subresource \in S /\ "namespaces" \in S
      /\ setConfigDefaults \in Seq(S)
      /\ <<"analysistasks">> \in Seq(S)
    BY DEF setConfigDefaults
<1> HIDE DEF S
<1>2. Segment("namespaces", ns) \in Seq(S) /\ Maybe(name) \in Seq(S)
      /\ Maybe(subresource) \in Seq(S)
    BY <1>1, PartsAre
<1>3. QED
    BY <1>1, <1>2 DEF PathTo, IsPath

LEMMA SentIsPath == \A c : c.op \in Ops => IsPath(Sent(c).path)
BY PathToIsPath DEF Ops, Sent, Request, Get, List, Watch, Create, Update, UpdateStatus,
                    Delete, DeleteCollection, Patch

(* On its way a request has a path, and behind the first filter an info    *)
(* that tells the same as the path.                                        *)
Followed ==
    /\ request.pc \in {"read", "filter"} => IsPath(request.path)
    /\ request.pc = "filter" =>
          request.info.IsKubernetesRequest = IsKubernetesRequest(request.path)

LEMMA SendFollowed ==
    ASSUME NEW path, IsPath(path), NEW form, NEW method, NEW options,
           Send(path, form, method, options)
    PROVE  Followed' /\ ForwardedByPrefix'
BY DEF Send, Followed, ForwardedByPrefix

LEMMA ReadFollowed ==
    ASSUME Shape, Followed, WithRequestInfo
    PROVE  Followed' /\ ForwardedByPrefix'
<1>1. request.pc = "read" /\ IsPath(request.path)
    BY DEF WithRequestInfo, Followed
<1> DEFINE read == NewRequestInfo(request)
<1>2. read.info.IsKubernetesRequest = IsKubernetesRequest(request.path)
    BY InfoTells
<1>3. \/ request' = [request EXCEPT !.pc = "done", !.answer = "dropped"]
      \/ request' = [request EXCEPT !.pc = "done", !.answer = "500"]
      \/ request' = [request EXCEPT !.pc = "filter", !.info = read.info]
    BY DEF WithRequestInfo
<1> HIDE DEF read
<1>4. CASE request' = [request EXCEPT !.pc = "done", !.answer = "dropped"]
    BY <1>1, <1>4 DEF Shape, Followed, ForwardedByPrefix
<1>5. CASE request' = [request EXCEPT !.pc = "done", !.answer = "500"]
    BY <1>1, <1>5 DEF Shape, Followed, ForwardedByPrefix
<1>6. CASE request' = [request EXCEPT !.pc = "filter", !.info = read.info]
  <2>1. request'.pc = "filter" /\ request'.path = request.path /\ request'.info = read.info
      BY <1>1, <1>6 DEF Shape
  <2>2. QED
      BY <1>1, <1>2, <2>1 DEF Followed, ForwardedByPrefix
<1>7. QED
    BY <1>3, <1>4, <1>5, <1>6

LEMMA FilterFollowed ==
    ASSUME Shape, Followed, WithKubeAPIServer
    PROVE  Followed' /\ ForwardedByPrefix'
<1> DEFINE answer == IF request.info.IsKubernetesRequest THEN "forwarded"
                     ELSE Dispatch(request)
<1>1. /\ request.pc = "filter" /\ IsPath(request.path)
      /\ request.info.IsKubernetesRequest = IsKubernetesRequest(request.path)
    BY DEF WithKubeAPIServer, Followed
<1>2. request' = [request EXCEPT !.pc = "done", !.answer = answer]
    BY DEF WithKubeAPIServer
<1>3. answer = "forwarded" <=> IsKubernetesRequest(request.path)
    BY <1>1, RoutesAnswer
<1>4. answer = "forwarded" <=> request.path # <<>> /\ request.path[1] \in {"api", "apis"}
    BY <1>1, <1>3, PrefixDecides DEF IsPath
<1> HIDE DEF answer
<1>5. request'.pc = "done" /\ request'.path = request.path /\ request'.answer = answer
    BY <1>1, <1>2 DEF Shape
<1>6. QED
    BY <1>4, <1>5 DEF Followed, ForwardedByPrefix

LEMMA NextFollowed ==
    Shape /\ Followed /\ ForwardedByPrefix /\ [Next]_vars => Followed' /\ ForwardedByPrefix'
<1> SUFFICES ASSUME Shape, Followed, ForwardedByPrefix, [Next]_vars
             PROVE  Followed' /\ ForwardedByPrefix'
    OBVIOUS
<1>1. CASE Start \/ InformerSyncs \/ StartRuntimeCache \/ Signal \/ UNCHANGED vars
  <2>1. UNCHANGED request
      BY <1>1 DEF Start, Validate, NewAPIServer, Discover, MakeInformers, StartFactory,
                  WaitForCacheSync, WaitForRuntimeCache, Listen, InformerSyncs,
                  StartRuntimeCache, Signal, vars
  <2>2. QED
      BY <2>1 DEF Followed, ForwardedByPrefix
<1>2. CASE \E f \in Forms, m \in Methods : Send(URL(f), f, m, NoOptions)
    BY <1>2, URLIsPath, SendFollowed
<1>3. CASE \E p \in OtherPaths, m \in Methods, o \in Options : Send(p, Nil, m, o)
    BY <1>3, PathsAssumption, SendFollowed DEF IsPath
<1>4. CASE \E c \in Calls : Send(Sent(c).path, c, Sent(c).method, Sent(c).options)
    BY <1>4, CallsAssumption, SentIsPath, SendFollowed DEF Call
<1>5. CASE WithRequestInfo \/ WithKubeAPIServer
    BY <1>5, ReadFollowed, FilterFollowed
<1>6. CASE Leave
    BY <1>6 DEF Leave, NoRequest, Followed, ForwardedByPrefix
<1>7. QED
    BY <1>1, <1>2, <1>3, <1>4, <1>5, <1>6 DEF Next

(* A request is forwarded to Kubernetes exactly if the first segment of    *)
(* its path is "api" or "apis", for every path.                            *)
THEOREM OnlyKubernetesForwarded == Spec => []ForwardedByPrefix
<1>1. Init => Shape /\ Followed /\ ForwardedByPrefix
    BY DEF Init, NoRequest, Shape, Followed, ForwardedByPrefix
<1>2. IInv /\ Shape => Shape
    OBVIOUS
<1>3. Spec => []Shape
    BY Invariant, <1>2, PTL
<1>4. QED
    BY <1>1, <1>3, NextFollowed, PTL DEF Spec

(***************************************************************************)
(* What goes unanswered.  The parser takes at most one segment for the     *)
(* prefix, two for the cluster, and the group where there are groups; the  *)
(* lengths it checks leave one path for which the version is the last.     *)
(***************************************************************************)

(* The length of a sequence and of its tail.                               *)
LEMMA EmptyLength == ASSUME NEW S, NEW t \in Seq(S) PROVE t = <<>> <=> Len(t) = 0
OBVIOUS

LEMMA TailLength ==
    ASSUME NEW S, NEW s \in Seq(S), Len(s) >= 1
    PROVE  /\ Tail(s) \in Seq(S) /\ Len(Tail(s)) = Len(s) - 1
           /\ Tail(s) = <<>> <=> Len(s) = 1
<1>1. Tail(s) \in Seq(S) /\ Len(Tail(s)) = Len(s) - 1
    OBVIOUS
<1>2. Len(s) \in Nat
    OBVIOUS
<1>3. Tail(s) = <<>> <=> Len(Tail(s)) = 0
    BY <1>1, EmptyLength
<1>4. QED
    BY <1>1, <1>2, <1>3

(* A key and a value are taken if something is behind them.                *)
LEMMA BehindLength ==
    ASSUME NEW S, NEW parts \in Seq(S), Len(parts) >= 2, NEW key
    PROVE  /\ Behind(parts, key) \in Seq(S)
           /\ \/ Behind(parts, key) = parts
              \/ /\ parts[1] = key
                 /\ Len(parts) > 2
                 /\ Len(Behind(parts, key)) = Len(parts) - 2
<1>1. CASE parts[1] = key /\ Len(parts) > 2
  <2>1. Behind(parts, key) = SubSeq(parts, 3, Len(parts))
      BY <1>1 DEF Behind, From
  <2>2. /\ SubSeq(parts, 3, Len(parts)) \in Seq(S)
        /\ Len(SubSeq(parts, 3, Len(parts))) = Len(parts) - 2
      BY <1>1
  <2>3. QED
      BY <1>1, <2>1, <2>2
<1>2. CASE ~(parts[1] = key /\ Len(parts) > 2)
    BY <1>2 DEF Behind
<1>3. QED
    BY <1>1, <1>2

(* What is behind the prefix and a cluster.                                *)
LEMMA BehindCluster ==
    ASSUME NEW S, NEW path \in Seq(S), Len(path) >= 3
    PROVE  LET inCluster == Behind(Tail(path), "clusters")
           IN  /\ inCluster \in Seq(S) /\ Len(inCluster) >= 1
               /\ Len(inCluster) = 1 => Len(path) = 4 /\ path[2] = "clusters"
<1> DEFINE parts     == Tail(path)
           inCluster == Behind(parts, "clusters")
<1>1. /\ parts \in Seq(S) /\ Len(parts) = Len(path) - 1 /\ Len(parts) >= 2
      /\ parts[1] = path[2] /\ Len(path) \in Nat
    OBVIOUS
<1> HIDE DEF parts
<1>2. /\ inCluster \in Seq(S)
      /\ \/ inCluster = parts
         \/ /\ parts[1] = "clusters"
            /\ Len(parts) > 2
            /\ Len(inCluster) = Len(parts) - 2
    BY <1>1, BehindLength
<1> HIDE DEF inCluster
<1>3. ASSUME NEW n \in Nat, NEW l \in Nat, l = n - 1
      PROVE  /\ l >= 2 => l # 1 /\ l >= 1
             /\ l > 2 => l - 2 >= 1 /\ (l - 2 = 1 => n = 4)
    BY <1>3
<1>4. /\ Len(parts) \in Nat
      /\ Len(parts) >= 2 => Len(parts) # 1 /\ Len(parts) >= 1
      /\ Len(parts) > 2 => Len(parts) - 2 >= 1 /\ (Len(parts) - 2 = 1 => Len(path) = 4)
  <2>1. Len(parts) \in Nat
      BY <1>1
  <2>2. QED
      BY <1>1, <1>3, <2>1
<1>5. Len(inCluster) >= 1 /\ (Len(inCluster) = 1 => Len(path) = 4 /\ path[2] = "clusters")
  <2>1. CASE inCluster = parts
      BY <1>1, <1>4, <2>1
  <2>2. CASE inCluster # parts
      BY <1>1, <1>2, <1>4, <2>2
  <2>3. QED
      BY <2>1, <2>2
<1>6. QED
    BY <1>2, <1>5 DEF inCluster, parts

(* The one path on which the parser indexes what is not there.             *)
VersionLast(path) ==
    /\ Len(path) = 4
    /\ path[1] \in {"api", "kapi"} /\ path[2] = "clusters"

LEMMA AtLeastTwo == \A n \in Nat : ~(n < 2) => n >= 1 /\ n # 1
OBVIOUS

(* A special verb that is not too short leaves something behind.           *)
LEMMA NothingLeft ==
    ASSUME NEW S, NEW rest \in Seq(S), ~TooShort(rest),
           (IF IsSpecial(rest) THEN Tail(rest) ELSE rest) = <<>>
    PROVE  rest = <<>>
<1>1. CASE IsSpecial(rest)
  <2>1. ~(Len(rest) < 2) /\ Tail(rest) = <<>> /\ Len(rest) \in Nat
      BY <1>1 DEF TooShort
  <2>2. Len(rest) >= 1 /\ Len(rest) # 1
      BY <2>1, AtLeastTwo
  <2>3. QED
      BY <2>1, <2>2, TailLength
<1>2. CASE ~IsSpecial(rest)
    BY <1>2
<1>3. QED
    BY <1>1, <1>2

(* The parser panics on no other path.                                     *)
LEMMA OnlyVersionPanics ==
    ASSUME NEW S, NEW req, req.path \in Seq(S), NewRequestInfo(req).outcome = "panic"
    PROVE  VersionLast(req.path)
<1> DEFINE parts     == Tail(req.path)
           groupless == req.path[1] \in GrouplessAPIPrefixes
           cluster   == ValueOf(parts, "clusters")
           inCluster == Behind(parts, "clusters")
           versioned == IF groupless THEN inCluster ELSE Tail(inCluster)
           rest      == Tail(versioned)
           unspecial == IF IsSpecial(rest) THEN Tail(rest) ELSE rest
           plain     == Understood(NonResource(req))
           clustered == Understood([NonResource(req) EXCEPT !.Cluster = cluster])
           resource  == Understood(
                ResourceInfo(req, cluster, IF groupless THEN "" ELSE inCluster[1],
                             versioned[1], IF IsSpecial(rest) THEN rest[1] ELSE "",
                             unspecial))
           outcome ==
              IF APIPrefix(req.path) = "" THEN plain
              ELSE IF ~groupless /\ Len(inCluster) < 3 THEN clustered
              ELSE IF TooShort(rest) THEN Failed(req)
              ELSE IF unspecial = <<>> THEN Panicked(req)
              ELSE resource
<1>1. NewRequestInfo(req) = outcome
    BY DEF NewRequestInfo
<1>2. \A info : Understood(info).outcome # "panic"
    BY DEF Understood
<1>3. /\ plain.outcome # "panic" /\ clustered.outcome # "panic"
      /\ resource.outcome # "panic" /\ Failed(req).outcome # "panic"
    BY <1>2 DEF Failed
<1>4. /\ APIPrefix(req.path) # ""
      /\ ~(~groupless /\ Len(inCluster) < 3)
      /\ ~TooShort(rest)
      /\ unspecial = <<>>
  <2> HIDE DEF plain, clustered, resource, unspecial, groupless, inCluster, rest
  <2> QED
    BY <1>1, <1>3
<1>5. Len(req.path) >= 3
    BY <1>4 DEF APIPrefix
<1>6. /\ inCluster \in Seq(S) /\ Len(inCluster) >= 1 /\ Len(inCluster) \in Nat
      /\ Len(inCluster) = 1 => Len(req.path) = 4 /\ req.path[2] = "clusters"
  <2>1. /\ inCluster \in Seq(S) /\ Len(inCluster) >= 1
        /\ Len(inCluster) = 1 => Len(req.path) = 4 /\ req.path[2] = "clusters"
      BY <1>5, BehindCluster
  <2> HIDE DEF inCluster
  <2>2. QED
      BY <2>1
<1>7. CASE groupless
  <2>1. rest = Tail(inCluster)
      BY <1>7
  <2> HIDE DEF inCluster
  <2>2. rest \in Seq(S) /\ (rest = <<>> => Len(inCluster) = 1)
      BY <1>6, <2>1, TailLength
  <2> HIDE DEF rest
  <2>3. rest = <<>>
      BY <1>4, <2>2, NothingLeft
  <2>4. QED
      BY <1>6, <1>7, <2>2, <2>3 DEF VersionLast, GrouplessAPIPrefixes
<1>8. CASE ~groupless
  <2>1. rest = Tail(Tail(inCluster))
      BY <1>8
  <2>2. ~(Len(inCluster) < 3)
      BY <1>4, <1>8
  <2> HIDE DEF inCluster
  <2>3. Tail(inCluster) \in Seq(S) /\ Len(Tail(inCluster)) = Len(inCluster) - 1
      BY <1>6, TailLength
  <2>4. Len(Tail(inCluster)) >= 1 /\ Len(Tail(inCluster)) # 1
      BY <1>6, <2>2, <2>3
  <2>5. rest \in Seq(S) /\ rest # <<>>
      BY <2>1, <2>3, <2>4, TailLength
  <2> HIDE DEF rest
  <2>6. rest = <<>>
      BY <1>4, <2>5, NothingLeft
  <2>7. QED
      BY <2>5, <2>6
<1>9. QED
    BY <1>7, <1>8

(* Only the first filter drops a request.                                  *)
LEMMA ReadDropped ==
    ASSUME Shape, Followed, WithRequestInfo
    PROVE  DroppedOnlyAtVersion'
<1>1. request.pc = "read" /\ IsPath(request.path)
    BY DEF WithRequestInfo, Followed
<1> DEFINE read == NewRequestInfo(request)
<1>2. \/ /\ read.outcome = "panic"
         /\ request' = [request EXCEPT !.pc = "done", !.answer = "dropped"]
      \/ request' = [request EXCEPT !.pc = "done", !.answer = "500"]
      \/ request' = [request EXCEPT !.pc = "filter", !.info = read.info]
    BY DEF WithRequestInfo
<1>3. read.outcome = "panic" => VersionLast(request.path)
    BY <1>1, OnlyVersionPanics DEF IsPath
<1> HIDE DEF read
<1>4. QED
    BY <1>1, <1>2, <1>3 DEF Shape, VersionLast, DroppedOnlyAtVersion

LEMMA NextDropped ==
    Shape /\ Followed /\ DroppedOnlyAtVersion /\ [Next]_vars => DroppedOnlyAtVersion'
<1> SUFFICES ASSUME Shape, Followed, DroppedOnlyAtVersion, [Next]_vars
             PROVE  DroppedOnlyAtVersion'
    OBVIOUS
<1>1. CASE Start \/ InformerSyncs \/ StartRuntimeCache \/ Signal \/ UNCHANGED vars
  <2>1. UNCHANGED request
      BY <1>1 DEF Start, Validate, NewAPIServer, Discover, MakeInformers, StartFactory,
                  WaitForCacheSync, WaitForRuntimeCache, Listen, InformerSyncs,
                  StartRuntimeCache, Signal, vars
  <2>2. QED
      BY <2>1 DEF DroppedOnlyAtVersion
<1>2. ASSUME NEW path, NEW form, NEW method, NEW options, Send(path, form, method, options)
      PROVE  DroppedOnlyAtVersion'
    BY <1>2 DEF Send, DroppedOnlyAtVersion
<1>3. CASE WithRequestInfo
    BY <1>3, ReadDropped
<1>4. CASE WithKubeAPIServer
  <2> DEFINE answer == IF request.info.IsKubernetesRequest THEN "forwarded"
                       ELSE Dispatch(request)
  <2>1. request.pc = "filter" /\ request' = [request EXCEPT !.pc = "done", !.answer = answer]
      BY <1>4 DEF WithKubeAPIServer
  <2>2. answer # "dropped"
      BY RoutesAnswer
  <2> HIDE DEF answer
  <2>3. QED
      BY <2>1, <2>2 DEF Shape, DroppedOnlyAtVersion
<1>5. CASE Leave
    BY <1>5 DEF Leave, NoRequest, DroppedOnlyAtVersion
<1>6. QED
    BY <1>1, <1>2, <1>3, <1>4, <1>5 DEF Next

(* No path but the one whose version ends it behind a cluster makes the    *)
(* parser index what is not there, for every path.                         *)
THEOREM OnlyVersionDropped == Spec => []DroppedOnlyAtVersion
<1>1. Init => Shape /\ Followed /\ ForwardedByPrefix /\ DroppedOnlyAtVersion
    BY DEF Init, NoRequest, Shape, Followed, ForwardedByPrefix, DroppedOnlyAtVersion
<1>2. IInv /\ Shape => Shape
    OBVIOUS
<1>3. Spec => []Shape
    BY Invariant, <1>2, PTL
<1>4. QED
    BY <1>1, <1>3, NextFollowed, NextDropped, PTL DEF Spec

(***************************************************************************)
(* What is read.  A request keeps the URL and the options it was sent with *)
(* until it is read, and the parser reads the URL of a form or of a call   *)
(* as what it means (RequestInfoProofs).                                   *)
(***************************************************************************)

(* A form and a call have different fields.                                *)
LEMMA FormsAreNoCalls == Form \cap Call = {}
<1> SUFFICES ASSUME NEW x, x \in Form, x \in Call PROVE FALSE
    OBVIOUS
<1>1. "prefix" \in DOMAIN x
    BY DEF Form
<1>2. "prefix" \notin DOMAIN x
    BY DEF Call
<1>3. QED
    BY <1>1, <1>2

(* A request for a form is on its way with the URL of the form, and what a *)
(* client calls for is on its way as it was sent.                          *)
FromForm(r) == r.form \in Forms => r.path = URL(r.form) /\ r.options = NoOptions

FromCall(r) ==
    r.form \in Calls => /\ r.path = Sent(r.form).path
                        /\ r.method = Sent(r.form).method
                        /\ r.options = Sent(r.form).options

Origin == request.pc = "read" => FromForm(request) /\ FromCall(request)

UnderstoodInv == Origin /\ RequestUnderstood /\ CallUnderstood

(* What is sent is for a form, for a call or for neither.                  *)
LEMMA SendOrigin ==
    ASSUME NEW path, NEW form, NEW method, NEW options, Send(path, form, method, options),
           form \in Forms => path = URL(form) /\ options = NoOptions,
           form \in Calls => /\ path = Sent(form).path /\ method = Sent(form).method
                             /\ options = Sent(form).options
    PROVE  UnderstoodInv'
<1>1. /\ request'.pc = "read" /\ request'.form = form /\ request'.path = path
      /\ request'.method = method /\ request'.options = options
    BY DEF Send
<1>2. QED
    BY <1>1 DEF UnderstoodInv, Origin, FromForm, FromCall, RequestUnderstood, CallUnderstood

(* The first filter.                                                       *)
LEMMA ReadUnderstood ==
    ASSUME Shape, Origin, WithRequestInfo
    PROVE  UnderstoodInv'
<1>1. request.pc = "read" /\ FromForm(request) /\ FromCall(request)
    BY DEF WithRequestInfo, Origin
<1> DEFINE read == NewRequestInfo(request)
<1>2. \/ request' = [request EXCEPT !.pc = "done", !.answer = "dropped"]
      \/ request' = [request EXCEPT !.pc = "done", !.answer = "500"]
      \/ request' = [request EXCEPT !.pc = "filter", !.info = read.info]
    BY DEF WithRequestInfo
<1>3. request.form \in Forms => read.info = Meaning(request.form, request.method)
  <2>1. SUFFICES ASSUME request.form \in Forms
                 PROVE  read.info = Meaning(request.form, request.method)
      OBVIOUS
  <2>2. request.form \in Form /\ IsForm(request.form)
      BY <2>1, FormsAssumption
  <2>3. request.path = URL(request.form) /\ request.options = NoOptions
      BY <1>1, <2>1 DEF FromForm
  <2>4. read = Understood(Meaning(request.form, request.method))
      BY <2>2, <2>3, URLIsUnderstood
  <2>5. QED
      BY <2>4 DEF Understood
<1>4. request.form \in Calls => read.info = CallMeaning(request.form)
  <2>1. SUFFICES ASSUME request.form \in Calls PROVE read.info = CallMeaning(request.form)
      OBVIOUS
  <2>2. request.form \in Call /\ IsCall(request.form)
      BY <2>1, CallsAssumption
  <2>3. /\ request.path = Sent(request.form).path
        /\ request.method = Sent(request.form).method
        /\ request.options = Sent(request.form).options
      BY <1>1, <2>1 DEF FromCall
  <2>4. read = Understood(CallMeaning(request.form))
      BY <2>2, <2>3, CallIsUnderstood
  <2>5. QED
      BY <2>4 DEF Understood
<1> HIDE DEF read
<1>5. CASE request'.pc = "done"
    BY <1>5 DEF UnderstoodInv, Origin, RequestUnderstood, CallUnderstood
<1>6. CASE request' = [request EXCEPT !.pc = "filter", !.info = read.info]
  <2>1. /\ request'.pc = "filter" /\ request'.info = read.info
        /\ request'.form = request.form /\ request'.method = request.method
      BY <1>1, <1>6 DEF Shape
  <2>2. QED
      BY <1>3, <1>4, <2>1 DEF UnderstoodInv, Origin, RequestUnderstood, CallUnderstood
<1>7. QED
  <2>1. request'.pc = "done" \/ request' = [request EXCEPT !.pc = "filter", !.info = read.info]
      BY <1>1, <1>2 DEF Shape
  <2>2. QED
      BY <1>5, <1>6, <2>1

LEMMA NextUnderstood ==
    Shape /\ UnderstoodInv /\ [Next]_vars => UnderstoodInv'
<1> SUFFICES ASSUME Shape, UnderstoodInv, [Next]_vars PROVE UnderstoodInv'
    OBVIOUS
<1>0. \A x : /\ x \in Forms => x \notin Calls /\ x # Nil
             /\ x \in Calls => x \notin Forms /\ x # Nil
    BY FormsAssumption, CallsAssumption, NilAssumption, FormsAreNoCalls
<1>1. CASE Start \/ InformerSyncs \/ StartRuntimeCache \/ Signal \/ UNCHANGED vars
  <2>1. UNCHANGED request
      BY <1>1 DEF Start, Validate, NewAPIServer, Discover, MakeInformers, StartFactory,
                  WaitForCacheSync, WaitForRuntimeCache, Listen, InformerSyncs,
                  StartRuntimeCache, Signal, vars
  <2>2. QED
      BY <2>1 DEF UnderstoodInv, Origin, FromForm, FromCall, RequestUnderstood, CallUnderstood
<1>2. CASE \E f \in Forms, m \in Methods : Send(URL(f), f, m, NoOptions)
  <2>1. PICK f \in Forms, m \in Methods : Send(URL(f), f, m, NoOptions)
      BY <1>2
  <2>2. f \notin Calls
      BY <1>0
  <2>3. QED
      BY <2>1, <2>2, SendOrigin
<1>3. CASE \E p \in OtherPaths, m \in Methods, o \in Options : Send(p, Nil, m, o)
    BY <1>0, <1>3, SendOrigin
<1>4. CASE \E c \in Calls : Send(Sent(c).path, c, Sent(c).method, Sent(c).options)
  <2>1. PICK c \in Calls : Send(Sent(c).path, c, Sent(c).method, Sent(c).options)
      BY <1>4
  <2>2. c \notin Forms
      BY <1>0
  <2>3. QED
      BY <2>1, <2>2, SendOrigin
<1>5. CASE WithRequestInfo
    BY <1>5, ReadUnderstood DEF UnderstoodInv
<1>6. CASE WithKubeAPIServer
    BY <1>6, FilterShape DEF UnderstoodInv, Origin, RequestUnderstood, CallUnderstood
<1>7. CASE Leave
    BY <1>7 DEF Leave, NoRequest, UnderstoodInv, Origin, RequestUnderstood, CallUnderstood
<1>8. QED
    BY <1>1, <1>2, <1>3, <1>4, <1>5, <1>6, <1>7 DEF Next

LEMMA AlwaysUnderstood == Spec => []UnderstoodInv
<1>1. Init => UnderstoodInv
    BY DEF Init, NoRequest, UnderstoodInv, Origin, RequestUnderstood, CallUnderstood
<1>2. IInv /\ Shape => Shape
    OBVIOUS
<1>3. Spec => []Shape
    BY Invariant, <1>2, PTL
<1>4. QED
    BY <1>1, <1>3, NextUnderstood, PTL DEF Spec

(* The handlers behind the first filter are told what the URL of a form    *)
(* means, for every cluster, workspace, namespace and name in it and every *)
(* method.                                                                 *)
THEOREM FormsUnderstood == Spec => []RequestUnderstood
<1>1. UnderstoodInv => RequestUnderstood
    BY DEF UnderstoodInv
<1>2. QED
    BY <1>1, AlwaysUnderstood, PTL

(* They are told what a call of the typed client is about, for every       *)
(* namespace, name and subresource in it.                                  *)
THEOREM CallsUnderstood == Spec => []CallUnderstood
<1>1. UnderstoodInv => CallUnderstood
    BY DEF UnderstoodInv
<1>2. QED
    BY <1>1, AlwaysUnderstood, PTL
=============================================================================
