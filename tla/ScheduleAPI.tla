----------------------------- MODULE ScheduleAPI -----------------------------
(***************************************************************************)
(* The REST requests on AnalysisTask objects: the handlers of              *)
(* pkg/kapis/schedule/v1alpha1, the operator of pkg/service/schedule they  *)
(* call, and the answers they write.  ks-apiserver serves every request in *)
(* a goroutine of its own, and each call an operator makes to the API      *)
(* server of the cluster is a step, so requests on one task interleave.    *)
(***************************************************************************)
EXTENDS Naturals, FiniteSets

CONSTANTS
    Requests,     \* requests, in flight or still to come
    Namespaces,   \* namespaces of the cluster
    ScheduleNs,   \* constants.KubesphereScheduleNamespace, one of them
    Ids,          \* names of tasks
    Types,        \* values of spec.type
    Data,         \* values of the parts of a task other than its type
    Nil,          \* no object, JSON null
    MaxEdits,     \* bound: changes made past this API
    MaxFaults     \* bound: calls to the API server that fail

ASSUME NsAssumption == ScheduleNs \in Namespaces

ASSUME TypesAssumption == {"Deployment", "Namespace"} \subseteq Types

(* The parts of a task a request may set: spec.type, the rest of the spec, *)
(* and the labels.                                                         *)
Content == [type : Types, spec : Data, labels : Data]
Parts   == {"type", "spec", "labels"}

ASSUME BoundAssumption == MaxEdits \in Nat /\ MaxFaults \in Nat

Key == Namespaces \X Ids

ASSUME NilAssumption == Nil \notin Content /\ Nil \notin Key

Ops == {"CreateAnalysis", "CreateNamespaceAnalysis", "ModifyScheduler",
        "ModifyAnalysisTask", "DeleteAnalysisTask",
        "DescribeAnalysisTask", "ListScheduler"}

VARIABLES
    store,   \* the AnalysisTasks of the cluster
    req,     \* the state of each request
    edits, faults

vars == <<store, req, edits, faults>>

(* An answer: the status and what the body holds.                          *)
Answer == [status : {0, 200, 400, 404, 500}, entity : {"none", "message", "task"}]

NoAnswer == [status |-> 0, entity |-> "none"]

Request == [op   : Ops \cup {"none"},
            key  : Key \cup {Nil},
            body : Content \cup {Nil},
            pc   : {"new", "create", "get", "patch", "delete", "done"},
            base : Content \cup {Nil},   \* what ModifyAnalysisTask read
            answer : Answer]

(* Every request is of its kind; one that is under way has a key, and one  *)
(* about to patch holds the task it read and one it asks for that differs. *)
TypeOK ==
    /\ store \in [Key -> Content \cup {Nil}]
    /\ req \in [Requests -> Request]
    /\ \A r \in Requests :
          /\ req[r].pc \in {"create", "get", "patch", "delete"} => req[r].key # Nil
          /\ req[r].pc = "create" => req[r].body # Nil
          /\ req[r].pc = "patch" => /\ req[r].base # Nil /\ req[r].body # Nil
                                    /\ req[r].base # req[r].body
    /\ edits \in 0..MaxEdits
    /\ faults \in 0..MaxFaults

Init ==
    /\ store \in [Key -> Content \cup {Nil}]
    /\ req = [r \in Requests |->
                [op |-> "none", key |-> Nil, body |-> Nil, pc |-> "new",
                 base |-> Nil, answer |-> NoAnswer]]
    /\ edits = 0 /\ faults = 0

-----------------------------------------------------------------------------
(* Result and Output.                                                      *)

(* Result keeps the object only when its second argument is an error; a    *)
(* nil error is none, so the object of a success is dropped.               *)
Result(object, err) ==
    IF err = "none" THEN [type |-> 0, object |-> Nil, err |-> "none"]
    ELSE [type |-> 2, object |-> object, err |-> err]

(* Output: NotFound and every other error, or errors.None and the object.  *)
Output(result) ==
    IF result.err # "none"
    THEN [status |-> IF result.err = "NotFound" THEN 404 ELSE 400,
          entity |-> "message"]
    ELSE [status |-> 200, entity |-> IF result.type = 2 THEN "task" ELSE "message"]

BadRequest == [status |-> 400, entity |-> "message"]

(* A panic of the handler is recovered by the container.                   *)
Panic == [status |-> 500, entity |-> "message"]

(* The answer is written; what the request held is gone.                   *)
Finish(r, answer) ==
    req' = [req EXCEPT ![r] = [op |-> @.op, key |-> Nil, body |-> Nil, pc |-> "done",
                               base |-> Nil, answer |-> answer]]

-----------------------------------------------------------------------------
(* A request arrives: the handler decodes it and checks the type.          *)

Enter(r, op, key, body, pc) ==
    req' = [req EXCEPT ![r].op = op, ![r].key = key, ![r].body = body, ![r].pc = pc]

Reject(r, op, answer) ==
    req' = [req EXCEPT ![r].op = op, ![r].pc = "done", ![r].answer = answer]

(* The three handlers that create differ in the type they want and in the  *)
(* namespace; the type of a null body is read through a nil pointer.       *)
ArriveCreate(r, op, wanted, namespaces) ==
    /\ req[r].pc = "new"
    /\ \/ \E n \in namespaces, id \in Ids, body \in Content :
             IF body.type # wanted THEN Reject(r, op, BadRequest)
             ELSE Enter(r, op, <<n, id>>, body, "create")
       \/ Reject(r, op, Panic)
    /\ UNCHANGED <<store, edits, faults>>

CreateAnalysis(r) ==
    ArriveCreate(r, "CreateAnalysis", "Deployment", Namespaces)

CreateNamespaceAnalysis(r) ==
    ArriveCreate(r, "CreateNamespaceAnalysis", "Namespace", {ScheduleNs})

(* The route of ModifyScheduler has no namespace: its Create names none,   *)
(* and the API server knows no such path for a namespaced resource.        *)
ModifyScheduler(r) ==
    /\ req[r].pc = "new"
    /\ \E body \in Content \cup {Nil} :
          Reject(r, "ModifyScheduler",
                 IF body = Nil THEN Panic
                 ELSE IF body.type # "Deployment" THEN BadRequest
                 ELSE Output(Result(Nil, "NotFound")))
    /\ UNCHANGED <<store, edits, faults>>

ModifyAnalysisTask(r) ==
    /\ req[r].pc = "new"
    /\ \E k \in Key, body \in Content \cup {Nil} :
          Enter(r, "ModifyAnalysisTask", k, body, "get")
    /\ UNCHANGED <<store, edits, faults>>

DeleteAnalysisTask(r) ==
    /\ req[r].pc = "new"
    /\ \E k \in Key : Enter(r, "DeleteAnalysisTask", k, Nil, "delete")
    /\ UNCHANGED <<store, edits, faults>>

(* Two operations are not implemented: they panic.                         *)
NotImplemented(r) ==
    /\ req[r].pc = "new"
    /\ \E op \in {"DescribeAnalysisTask", "ListScheduler"} : Reject(r, op, Panic)
    /\ UNCHANGED <<store, edits, faults>>

(* A body that is not JSON, or of another shape.                           *)
ReadEntityFails(r) ==
    /\ req[r].pc = "new"
    /\ \E op \in {"CreateAnalysis", "CreateNamespaceAnalysis", "ModifyScheduler",
                  "ModifyAnalysisTask"} : Reject(r, op, BadRequest)
    /\ UNCHANGED <<store, edits, faults>>

-----------------------------------------------------------------------------
(* The operator.                                                           *)

Stored(r) == store[req[r].key]

Create(r) ==
    /\ req[r].pc = "create"
    /\ IF Stored(r) = Nil
       THEN /\ store' = [store EXCEPT ![req[r].key] = req[r].body]
            /\ Finish(r, Output(Result(req[r].body, "none")))
       ELSE /\ UNCHANGED store
            /\ Finish(r, Output(Result(Nil, "AlreadyExists")))
    /\ UNCHANGED <<edits, faults>>

Delete(r) ==
    /\ req[r].pc = "delete"
    /\ store' = [store EXCEPT ![req[r].key] = Nil]
    /\ Finish(r, Output(Result(Nil, IF Stored(r) = Nil THEN "NotFound" ELSE "none")))
    /\ UNCHANGED <<edits, faults>>

(* Mutant: the labels are not taken from the body.                         *)
CopySpecOnly(base, body) == [body EXCEPT !.labels = base.labels]

(* What the patch asks for: the parts of the copy that differ from the     *)
(* task read.  The copy takes spec and labels from the body.               *)
Copy(base, body) == body

Diff(base, copy) == {p \in Parts : copy[p] # base[p]}

(* The API server merges a patch into the task it holds by then.           *)
Merge(current, copy, parts) ==
    [p \in Parts |-> IF p \in parts THEN copy[p] ELSE current[p]]

(* Mutant: an Update with the whole copy in place of a patch.              *)
PatchedUpdates(r) == Copy(req[r].base, req[r].body)

(* The task after the patch of a request.                                  *)
Patched(r) ==
    LET copy == Copy(req[r].base, req[r].body)
    IN  Merge(Stored(r), copy, Diff(req[r].base, copy))

(* Mutant: NotFound is ignored, as ModifyAnalysisTaskConfig does.          *)
ModifyGetIgnoresNotFound(r) ==
    /\ req[r].pc = "get"
    /\ LET base == Stored(r)
           body == req[r].body
       IN  IF base = Nil THEN Finish(r, Output(Result(Nil, "none")))
           ELSE IF body = Nil THEN Finish(r, Panic)
           ELSE IF Diff(base, Copy(base, body)) = {}
                THEN Finish(r, Output(Result(Nil, "none")))
           ELSE req' = [req EXCEPT ![r].pc = "patch", ![r].base = base]
    /\ UNCHANGED <<store, edits, faults>>

(* Mutant: the empty patch is sent too.                                    *)
ModifyGetAlwaysPatches(r) ==
    /\ req[r].pc = "get"
    /\ LET base == Stored(r)
           body == req[r].body
       IN  IF base = Nil THEN Finish(r, Output(Result(Nil, "NotFound")))
           ELSE IF body = Nil THEN Finish(r, Panic)
           ELSE req' = [req EXCEPT ![r].pc = "patch", ![r].base = base]
    /\ UNCHANGED <<store, edits, faults>>

(* Get; then the patch is computed, and dropped when it is empty.          *)
ModifyGet(r) ==
    /\ req[r].pc = "get"
    /\ LET base == Stored(r)
           body == req[r].body
       IN  IF base = Nil THEN Finish(r, Output(Result(Nil, "NotFound")))
           ELSE IF body = Nil THEN Finish(r, Panic)
           ELSE IF Diff(base, Copy(base, body)) = {}
                THEN Finish(r, Output(Result(Nil, "none")))
           ELSE req' = [req EXCEPT ![r].pc = "patch", ![r].base = base]
    /\ UNCHANGED <<store, edits, faults>>

(* Mutant: a task that is gone is created again.                           *)
ModifyPatchUpserts(r) ==
    /\ req[r].pc = "patch"
    /\ store' = [store EXCEPT ![req[r].key] =
                    IF Stored(r) = Nil THEN req[r].body ELSE Patched(r)]
    /\ Finish(r, Output(Result(Nil, "none")))
    /\ UNCHANGED <<edits, faults>>

(* Patch: nothing ties it to the version of the task that was read.        *)
ModifyPatch(r) ==
    /\ req[r].pc = "patch"
    /\ IF Stored(r) = Nil
       THEN UNCHANGED store /\ Finish(r, Output(Result(Nil, "NotFound")))
       ELSE /\ store' = [store EXCEPT ![req[r].key] = Patched(r)]
            /\ Finish(r, Output(Result(Nil, "none")))
    /\ UNCHANGED <<edits, faults>>

(* Mutant: a call that seems to fail is tried again.                       *)
CallIsRetried(r) ==
    /\ req[r].pc \in {"create", "get", "patch", "delete"}
    /\ faults < MaxFaults
    /\ faults' = faults + 1
    /\ \/ UNCHANGED store
       \/ /\ req[r].pc = "patch" /\ Stored(r) # Nil
          /\ store' = [store EXCEPT ![req[r].key] = Patched(r)]
    /\ UNCHANGED <<req, edits>>

(* A call fails before or after it took effect: Get, Create, Patch and     *)
(* Delete report every such error alike.                                   *)
CallFails(r) ==
    /\ req[r].pc \in {"create", "get", "patch", "delete"}
    /\ faults < MaxFaults
    /\ faults' = faults + 1
    /\ Finish(r, Output(Result(Nil, "Error")))
    /\ \/ UNCHANGED store
       \/ /\ req[r].pc = "create" /\ Stored(r) = Nil
          /\ store' = [store EXCEPT ![req[r].key] = req[r].body]
       \/ /\ req[r].pc = "patch" /\ Stored(r) # Nil
          /\ store' = [store EXCEPT
                ![req[r].key] = Patched(r)]
       \/ /\ req[r].pc = "delete"
          /\ store' = [store EXCEPT ![req[r].key] = Nil]
    /\ UNCHANGED edits

(* Somebody changes a task with another client.                            *)
ExternalEdit ==
    /\ edits < MaxEdits
    /\ edits' = edits + 1
    /\ \E k \in Key, c \in Content \cup {Nil} :
          store[k] # c /\ store' = [store EXCEPT ![k] = c]
    /\ UNCHANGED <<req, faults>>

-----------------------------------------------------------------------------
Arrive(r) ==
    \/ CreateAnalysis(r) \/ CreateNamespaceAnalysis(r) \/ ModifyScheduler(r)
    \/ ModifyAnalysisTask(r) \/ DeleteAnalysisTask(r) \/ NotImplemented(r)
    \/ ReadEntityFails(r)

Serve(r) == Create(r) \/ Delete(r) \/ ModifyGet(r) \/ ModifyPatch(r) \/ CallFails(r)

Next ==
    \/ \E r \in Requests : Arrive(r) \/ Serve(r)
    \/ ExternalEdit

Spec == Init /\ [][Next]_vars

-----------------------------------------------------------------------------
(* Properties.                                                             *)

Answered(r) == req[r].pc # "done" /\ req'[r].pc = "done"

(* A part of a task that a Modify does not change from what it read keeps  *)
(* whatever other requests made of it meanwhile: the merge patch of the    *)
(* difference never writes back a stale part (interface.go 182-191).       *)
OtherPartsSurvive ==
    [][\A r \in Requests :
          req[r].pc = "patch" /\ Answered(r) /\ store' # store =>
             \A p \in Parts :
                req[r].body[p] = req[r].base[p] =>
                   store'[req[r].key][p] = store[req[r].key][p]]_vars

(* A Modify that is answered with success when nothing else changed the    *)
(* task since it was read leaves exactly the spec and labels it asked for. *)
UndisturbedModifyExact ==
    [][\A r \in Requests :
          /\ req[r].op = "ModifyAnalysisTask"
          /\ Answered(r) /\ req'[r].answer.status = 200
          /\ (req[r].pc = "get" \/ req[r].base = Stored(r))
          => store'[req[r].key] = req[r].body]_vars

(* A task that was deleted comes back only through a Create or another     *)
(* client: a Modify that read it before the deletion is answered NotFound. *)
NoResurrection ==
    [][\A k \in Key : store[k] = Nil /\ store'[k] # Nil =>
          \/ edits' # edits
          \/ \E r \in Requests : req[r].key = k /\ req[r].pc = "create"
                                 /\ Answered(r)]_vars

(* The answer NotFound is true: it is given only by a step that finds no   *)
(* task of that key, and a request that succeeds found one.                *)
NotFoundIsTrue ==
    [][\A r \in Requests :
          /\ req[r].op \in {"ModifyAnalysisTask", "DeleteAnalysisTask"}
          /\ Answered(r)
          => /\ req'[r].answer.status = 404 => Stored(r) = Nil
             /\ req'[r].answer.status = 200 => Stored(r) # Nil]_vars

(* What a client sees of the requests: whether one is under way, the task  *)
(* it is about and what it asks for, and then the status of its answer.    *)
Asked ==
    [r \in Requests |->
        [kind   |-> CASE req[r].pc = "new"    -> "none"
                      [] req[r].pc = "create" -> "create"
                      [] req[r].pc = "delete" -> "delete"
                      [] req[r].pc = "done"   -> "answered"
                      [] OTHER                -> "modify",
         key    |-> req[r].key,
         body   |-> req[r].body,
         status |-> req[r].answer.status]]

Tasks == INSTANCE TaskStore WITH asked <- Asked

(* The requests implement the store of TaskStore, though a Modify is two   *)
(* calls and any call may fail: each takes effect at one moment, on its    *)
(* task as it is then, with what it asked for, and never after its answer; *)
(* of two Modifies of a task, every part is that of one of them.           *)
ImplementsTaskStore == Tasks!Spec
=============================================================================
