----------------------------- MODULE TaskClient -----------------------------
(***************************************************************************)
(* The typed client of analysis tasks (pkg/client/clientset): the request  *)
(* each of its calls sends, as the filters of an API server see it, and    *)
(* what the call is about.  The handlers and the informers reach Kubernetes *)
(* by these calls; a client whose host is ks-apiserver has them forwarded. *)
(***************************************************************************)
EXTENDS RequestInfo

(* A call: the namespace is "" for all of them, the name is "" for calls   *)
(* that have none; of a list, it is the name its field selector asks for.  *)
(* A request of client-go with a name that is no segment is not sent, and  *)
(* no object is called like that.                                          *)
Ops == {"Get", "List", "Watch", "Create", "Update", "UpdateStatus", "Delete",
        "DeleteCollection", "Patch"}

Call == [op : Ops, ns : STRING, name : STRING, subresource : STRING]

Named  == {"Get", "Update", "UpdateStatus", "Delete", "Patch"}
Chosen == {"List", "Watch"}

IsCall(c) ==
    /\ IsValidPathSegmentName(c.name)
    /\ c.op \in Named => c.name # "" /\ c.ns # ""
    /\ c.op \notin Named \cup Chosen => c.name = ""
    /\ c.op = "Create" => c.ns # ""
    /\ c.op # "Patch" => c.subresource = ""

(* Where the client has its group: the API path, group and version.        *)
setConfigDefaults == <<"apis", "schedule.kubesphere.io", "v1alpha1">>

(* Namespace, Resource, Name and SubResource of a request of client-go.    *)
PathTo(ns, name, subresource) ==
    setConfigDefaults \o Segment("namespaces", ns)
       \o <<"analysistasks">> \o Maybe(name) \o Maybe(subresource)

Request(method, path, options) == [method |-> method, path |-> path, options |-> options]

Get(c) == Request("GET", PathTo(c.ns, c.name, ""), NoOptions)
List(c) == Request("GET", PathTo(c.ns, "", ""), [NoOptions EXCEPT !.name = c.name])

(* Mutant: a watch that does not say so.                                   *)
WatchAsList(c) == List(c)

Watch(c) == Request("GET", PathTo(c.ns, "", ""),
                     [NoOptions EXCEPT !.name = c.name, !.watch = TRUE])
Create(c) == Request("POST", PathTo(c.ns, "", ""), NoOptions)
Update(c) == Request("PUT", PathTo(c.ns, c.name, ""), NoOptions)
UpdateStatus(c) == Request("PUT", PathTo(c.ns, c.name, "status"), NoOptions)
Delete(c) == Request("DELETE", PathTo(c.ns, c.name, ""), NoOptions)
DeleteCollection(c) ==
    Request("DELETE", PathTo(c.ns, "", ""), [NoOptions EXCEPT !.name = c.name])
Patch(c) == Request("PATCH", PathTo(c.ns, c.name, c.subresource), NoOptions)

Sent(c) ==
    CASE c.op = "Get"              -> Get(c)
      [] c.op = "List"             -> List(c)
      [] c.op = "Watch"            -> Watch(c)
      [] c.op = "Create"           -> Create(c)
      [] c.op = "Update"           -> Update(c)
      [] c.op = "UpdateStatus"     -> UpdateStatus(c)
      [] c.op = "Delete"           -> Delete(c)
      [] c.op = "DeleteCollection" -> DeleteCollection(c)
      [] c.op = "Patch"            -> Patch(c)

(* What a call is about, in the words of the API server.                   *)
CallMeaning(c) ==
    [IsKubernetesRequest |-> TRUE, IsResourceRequest |-> TRUE,
     Cluster |-> "", Workspace |-> "", DevOps |-> "",
     APIGroup |-> "schedule.kubesphere.io", APIVersion |-> "v1alpha1",
     Namespace |-> c.ns, Resource |-> "analysistasks", Name |-> c.name,
     Subresource |-> IF c.op = "UpdateStatus" THEN "status" ELSE c.subresource,
     Verb |-> CASE c.op = "Get"    -> "get"
                [] c.op = "List"   -> "list"
                [] c.op = "Watch"  -> "watch"
                [] c.op = "Create" -> "create"
                [] c.op \in {"Update", "UpdateStatus"} -> "update"
                [] c.op = "Delete" -> "delete"
                [] c.op = "DeleteCollection" -> "deletecollection"
                [] c.op = "Patch"  -> "patch",
     ResourceScope |-> IF c.ns = "" THEN "Cluster" ELSE "Namespace"]
=============================================================================
