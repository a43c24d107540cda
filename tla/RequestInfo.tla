----------------------------- MODULE RequestInfo -----------------------------
(***************************************************************************)
(* How ks-apiserver reads a URL (pkg/apiserver/request): the algorithm of  *)
(* NewRequestInfo, and the URL forms its comment documents.  A path is the *)
(* sequence of its segments, what splitPath makes of it.                   *)
(***************************************************************************)
EXTENDS Naturals, Sequences

CONSTANT NoSegments  \* the names in use that hold a slash or a percent sign

ASSUME NoSegmentsAssumption == "" \notin NoSegments

APIPrefixes           == {"api", "apis", "kapis", "kapi"}
GrouplessAPIPrefixes  == {"api", "kapi"}
kubernetesAPIPrefixes == {"api", "apis"}
specialVerbs          == {"proxy", "watch"}
namespaceSubresources == {"status", "finalize"}

(* What a GET without a name may ask for in its query: to watch, one name  *)
(* (a field selector), one workspace (a label selector); "" if it does not. *)
NoOptions == [watch |-> FALSE, name |-> "", workspace |-> ""]

IsValidPathSegmentName(name) == name \notin {".", ".."} \cup NoSegments

(* The name a field selector asks for, if it could be one.                 *)
SelectedName(options) == IF IsValidPathSegmentName(options.name) THEN options.name ELSE ""

(* The verb a method stands for, "" for any other method.                  *)
VerbOf(method) ==
    CASE method = "POST"            -> "create"
      [] method \in {"GET", "HEAD"} -> "get"
      [] method = "PUT"             -> "update"
      [] method = "PATCH"           -> "patch"
      [] method = "DELETE"          -> "delete"
      [] OTHER                      -> ""

From(s, i) == SubSeq(s, i, Len(s))

(* {key}/{value}/*: the value, and the parts behind it; if nothing is      *)
(* behind it, the key is read once more as what follows.                   *)
ValueOf(parts, key) == IF parts[1] = key /\ Len(parts) > 1 THEN parts[2] ELSE ""
Behind(parts, key)  == IF parts[1] = key /\ Len(parts) > 2 THEN From(parts, 3) ELSE parts

APIPrefix(path) ==
    IF Len(path) >= 3 /\ path[1] \in APIPrefixes THEN path[1] ELSE ""

(* Mutant: the discovery requests, which are short, are forgotten.         *)
LongKubernetesRequest(path) == APIPrefix(path) \in kubernetesAPIPrefixes

(* The deferred function.  A path too short for a resource still tells by  *)
(* its first segment that it is for Kubernetes.                            *)
IsKubernetesRequest(path) ==
    \/ APIPrefix(path) \in kubernetesAPIPrefixes
    \/ Len(path) \in 1..2 /\ path[1] \in kubernetesAPIPrefixes

NonResource(req) ==
    [IsKubernetesRequest |-> IsKubernetesRequest(req.path), IsResourceRequest |-> FALSE,
     Verb |-> req.method, Cluster |-> "", Workspace |-> "", APIGroup |-> "",
     APIVersion |-> "", Namespace |-> "", DevOps |-> "", Resource |-> "",
     Subresource |-> "", Name |-> "", ResourceScope |-> ""]

Understood(info) == [outcome |-> "info", info |-> info]
Failed(req)      == [outcome |-> "error", info |-> NonResource(req)]
Panicked(req)    == [outcome |-> "panic", info |-> NonResource(req)]

(* Mutant: the workspace is looked at first.                               *)
ScopeWorkspaceFirst(namespace, devops, workspace) ==
    IF workspace # "" THEN "Workspace"
    ELSE IF devops # "" THEN "DevOps"
    ELSE IF namespace # "" THEN "Namespace" ELSE "Cluster"

(* resolveResourceScope; GlobalResources is empty in this program.         *)
resolveResourceScope(namespace, devops, workspace) ==
    IF namespace # "" THEN "Namespace"
    ELSE IF devops # "" THEN "DevOps"
    ELSE IF workspace # "" THEN "Workspace" ELSE "Cluster"

(* The rest of the path, behind the version and the special verb.          *)
ResourceInfo(req, cluster, group, version, special, rest) ==
    LET verb == IF special # "" THEN special ELSE VerbOf(req.method)
        tail == Behind(rest, "workspaces")
        Parts ==
            IF tail[1] = "namespaces"
            THEN IF Len(tail) > 2 /\ tail[3] \notin namespaceSubresources
                 THEN From(tail, 3) ELSE tail
            ELSE Behind(tail, "devops")
        named == IF Len(Parts) >= 2 THEN Parts[2] ELSE ""
        all   == named = "" /\ verb = "get"
        verb2 == IF ~all THEN verb ELSE IF req.options.watch THEN "watch" ELSE "list"
        name  == IF all THEN SelectedName(req.options) ELSE named
        bySelector == verb2 = "watch" /\ req.options.workspace # ""
        workspace  == ValueOf(rest, "workspaces")
        namespace  == ValueOf(tail, "namespaces")
        devops     == ValueOf(tail, "devops")
    IN  [IsKubernetesRequest |-> IsKubernetesRequest(req.path),
         IsResourceRequest   |-> TRUE,
         Cluster     |-> cluster,
         APIGroup    |-> group,
         APIVersion  |-> version,
         Workspace   |-> IF bySelector THEN req.options.workspace ELSE workspace,
         Namespace   |-> namespace,
         DevOps      |-> devops,
         Resource    |-> Parts[1],
         Subresource |-> IF Len(Parts) >= 3 /\ verb # "proxy" THEN Parts[3] ELSE "",
         Name        |-> name,
         Verb        |-> IF name = "" /\ verb2 = "delete" THEN "deletecollection" ELSE verb2,
         ResourceScope |-> IF bySelector THEN "Workspace"
                           ELSE resolveResourceScope(namespace, devops, workspace)]

IsSpecial(rest) == rest # <<>> /\ rest[1] \in specialVerbs

(* Mutant: nothing behind the special verb is not noticed.                 *)
NothingTooShort(rest) == FALSE

(* A special verb that nothing follows.                                    *)
TooShort(rest) == IsSpecial(rest) /\ Len(rest) < 2

(* NewRequestInfo.  A path without a prefix, or without group, version and *)
(* resource, is no resource.  The first segment behind the version and the *)
(* special verb is read whether there is one or not.                       *)
NewRequestInfo(req) ==
    LET parts     == Tail(req.path)
        groupless == req.path[1] \in GrouplessAPIPrefixes
        cluster   == ValueOf(parts, "clusters")
        inCluster == Behind(parts, "clusters")
        versioned == IF groupless THEN inCluster ELSE Tail(inCluster)
        rest      == Tail(versioned)
        unspecial == IF IsSpecial(rest) THEN Tail(rest) ELSE rest
    IN  IF APIPrefix(req.path) = ""
        THEN Understood(NonResource(req))
        ELSE IF ~groupless /\ Len(inCluster) < 3
        THEN Understood([NonResource(req) EXCEPT !.Cluster = cluster])
        ELSE IF TooShort(rest) THEN Failed(req)
        ELSE IF unspecial = <<>> THEN Panicked(req)
        ELSE Understood(
                ResourceInfo(req, cluster, IF groupless THEN "" ELSE inCluster[1],
                             versioned[1], IF IsSpecial(rest) THEN rest[1] ELSE "",
                             unspecial))

-----------------------------------------------------------------------------
(* The documented URL forms.                                               *)

Segment(key, value) == IF value = "" THEN <<>> ELSE <<key, value>>
Maybe(value) == IF value = "" THEN <<>> ELSE <<value>>

(* The parts of a URL, "" for those it lacks.                              *)
Form == [prefix : APIPrefixes, cluster : STRING, group : STRING, version : STRING,
         special : {""} \cup specialVerbs, workspace : STRING, namespace : STRING,
         resource : STRING, name : STRING, subresource : STRING]

URL(f) ==
    <<f.prefix>> \o Segment("clusters", f.cluster) \o Maybe(f.group) \o <<f.version>>
       \o Maybe(f.special) \o Segment("workspaces", f.workspace)
       \o Segment("namespaces", f.namespace)
       \o <<f.resource>> \o Maybe(f.name) \o Maybe(f.subresource)

(* Where a key of another form would stand, or a verb, or a subresource of *)
(* a namespace, no part of this one is called like it.                     *)
IsUnmistakable(f) ==
    /\ f.cluster = "" => (IF f.group = "" THEN f.version ELSE f.group) # "clusters"
    /\ f.workspace = "" /\ f.namespace = "" =>
          f.resource # "workspaces" /\ (f.special = "" => f.resource \notin specialVerbs)
    /\ IF f.namespace = "" THEN f.resource # "devops"
       ELSE f.resource \notin namespaceSubresources

(* A prefix without groups has none, the others have one; a subresource    *)
(* belongs to a name; the namespaces themselves are in no namespace.       *)
IsForm(f) ==
    /\ IsUnmistakable(f)
    /\ f.prefix \in GrouplessAPIPrefixes <=> f.group = ""
    /\ f.subresource # "" => f.name # "" /\ f.special # "proxy"
    /\ f.resource = "namespaces" =>
          f.namespace = "" /\ f.subresource \in {""} \cup namespaceSubresources

(* What a request for it is about.  A namespace that is asked for is also  *)
(* the one the request belongs to.                                         *)
Meaning(f, method) ==
    LET namespace == IF f.resource = "namespaces" THEN f.name ELSE f.namespace
        verb == IF f.special # "" THEN f.special ELSE VerbOf(method)
    IN  [IsKubernetesRequest |-> f.prefix \in kubernetesAPIPrefixes,
         IsResourceRequest   |-> TRUE,
         Cluster |-> f.cluster, Workspace |-> f.workspace, DevOps |-> "",
         APIGroup |-> f.group, APIVersion |-> f.version, Namespace |-> namespace,
         Resource |-> f.resource, Name |-> f.name, Subresource |-> f.subresource,
         Verb |-> CASE f.name = "" /\ verb = "get"    -> "list"
                    [] f.name = "" /\ verb = "delete" -> "deletecollection"
                    [] OTHER                          -> verb,
         ResourceScope |-> CASE namespace # ""   -> "Namespace"
                             [] namespace = "" /\ f.workspace # "" -> "Workspace"
                             [] OTHER            -> "Cluster"]
=============================================================================
