-------------------------- MODULE ScheduleAPIProofs --------------------------
(***************************************************************************)
(* Proofs about ScheduleAPI: its types, and what concurrent requests on    *)
(* one task cannot do.                                                     *)
(***************************************************************************)
EXTENDS ScheduleAPI, TLAPS

(* What Output answers.                                                    *)
LEMMA OutputAnswers ==
    ASSUME NEW object, NEW err \in {"none", "NotFound", "AlreadyExists", "Error"}
    PROVE  Output(Result(object, err)) \in Answer
BY DEF Output, Result, Answer

LEMMA OtherAnswers == {BadRequest, Panic, NoAnswer} \subseteq Answer
BY DEF BadRequest, Panic, NoAnswer, Answer

(* A request that ends keeps its operation and nothing else.               *)
LEMMA FinishTypes ==
    ASSUME TypeOK, NEW r \in Requests, NEW answer \in Answer, Finish(r, answer)
    PROVE  /\ req' \in [Requests -> Request]
           /\ \A q \in Requests \ {r} : req'[q] = req[q]
           /\ req'[r].pc = "done"
BY DEF TypeOK, Finish, Request

(* The part of the type invariant that speaks of requests.                 *)
Consistent(q) ==
    /\ q.pc \in {"create", "get", "patch", "delete"} => q.key # Nil
    /\ q.pc = "create" => q.body # Nil
    /\ q.pc = "patch" => q.base # Nil /\ q.body # Nil /\ q.base # q.body

LEMMA ReqStep ==
    ASSUME TypeOK, NEW r \in Requests,
           req' \in [Requests -> Request],
           \A q \in Requests \ {r} : req'[q] = req[q],
           Consistent(req'[r])
    PROVE  \A q \in Requests : Consistent(req'[q])
BY DEF TypeOK, Consistent

LEMMA TypeParts ==
    TypeOK <=> /\ store \in [Key -> Content \cup {Nil}]
               /\ req \in [Requests -> Request]
               /\ \A r \in Requests : Consistent(req[r])
               /\ edits \in 0..MaxEdits
               /\ faults \in 0..MaxFaults
BY DEF TypeOK, Consistent

LEMMA TypePartsNext ==
    ASSUME store' \in [Key -> Content \cup {Nil}],
           req' \in [Requests -> Request],
           \A r \in Requests : Consistent(req'[r]),
           edits' \in 0..MaxEdits,
           faults' \in 0..MaxFaults
    PROVE  TypeOK'
BY DEF TypeOK, Consistent

(* A merge of two contents is a content.                                   *)
LEMMA MergeContent ==
    ASSUME NEW current \in Content, NEW copy \in Content, NEW parts \in SUBSET Parts
    PROVE  Merge(current, copy, parts) \in Content
BY DEF Merge, Content, Parts

-----------------------------------------------------------------------------
(* The initial states are of their types.                                  *)
LEMMA InitTypes == Init => TypeOK
<1> SUFFICES ASSUME Init PROVE TypeOK
    OBVIOUS
<1>1. req \in [Requests -> Request]
    BY OtherAnswers DEF Init, Request
<1>2. \A r \in Requests : Consistent(req[r])
    BY DEF Init, Consistent
<1>3. edits \in 0..MaxEdits /\ faults \in 0..MaxFaults
    BY BoundAssumption DEF Init
<1> QED
    BY <1>1, <1>2, <1>3, TypeParts DEF Init

(* A step of one request that ends it, whatever it does to the store.      *)
LEMMA FinishStep ==
    ASSUME TypeOK, NEW r \in Requests, NEW answer \in Answer, Finish(r, answer),
           store' \in [Key -> Content \cup {Nil}],
           edits' \in 0..MaxEdits, faults' \in 0..MaxFaults
    PROVE  TypeOK'
<1>1. /\ req' \in [Requests -> Request]
      /\ \A q \in Requests \ {r} : req'[q] = req[q]
      /\ req'[r].pc = "done"
    BY FinishTypes
<1>2. Consistent(req'[r])
    BY <1>1 DEF Consistent
<1>3. \A q \in Requests : Consistent(req'[q])
    BY <1>1, <1>2, ReqStep
<1> QED
    BY <1>1, <1>3, TypePartsNext

(* A step that turns a request away.                                       *)
LEMMA RejectStep ==
    ASSUME TypeOK, NEW r \in Requests, NEW op \in Ops, NEW answer \in Answer,
           Reject(r, op, answer), UNCHANGED <<store, edits, faults>>
    PROVE  TypeOK'
<1>0. /\ req \in [Requests -> Request]
      /\ [req[r] EXCEPT !.op = op, !.pc = "done", !.answer = answer] \in Request
    BY DEF TypeOK, Request
<1>1. req' \in [Requests -> Request]
    BY <1>0 DEF Reject
<1>2. \A q \in Requests \ {r} : req'[q] = req[q]
    BY DEF Reject, TypeOK
<1>3. Consistent(req'[r])
    BY DEF Reject, TypeOK, Request, Consistent
<1>4. \A q \in Requests : Consistent(req'[q])
    BY <1>1, <1>2, <1>3, ReqStep
<1> QED
    BY <1>1, <1>4, TypePartsNext DEF TypeOK

(* A step that hands a request to the operator.                            *)
LEMMA EnterStep ==
    ASSUME TypeOK, NEW r \in Requests, NEW op \in Ops, NEW key \in Key,
           NEW body \in Content \cup {Nil}, NEW pc \in {"create", "get", "delete"},
           pc = "create" => body # Nil, key # Nil,
           Enter(r, op, key, body, pc), UNCHANGED <<store, edits, faults>>
    PROVE  TypeOK'
<1>0. /\ req \in [Requests -> Request]
      /\ [req[r] EXCEPT !.op = op, !.key = key, !.body = body, !.pc = pc] \in Request
    BY DEF TypeOK, Request
<1>1. req' \in [Requests -> Request]
    BY <1>0 DEF Enter
<1>2. \A q \in Requests \ {r} : req'[q] = req[q]
    BY DEF Enter, TypeOK
<1>3. Consistent(req'[r])
    BY DEF Enter, TypeOK, Request, Consistent
<1>4. \A q \in Requests : Consistent(req'[q])
    BY <1>1, <1>2, <1>3, ReqStep
<1> QED
    BY <1>1, <1>4, TypePartsNext DEF TypeOK

(* A task whose parts differ.                                              *)
LEMMA DiffEmpty ==
    ASSUME NEW base \in Content, NEW body \in Content, Diff(base, body) # {}
    PROVE  base # body
BY DEF Diff

(* The task after a patch is a task.                                       *)
LEMMA PatchedTypes ==
    ASSUME TypeOK, NEW r \in Requests, req[r].pc = "patch", Stored(r) # Nil
    PROVE  /\ req[r].key \in Key
           /\ Patched(r) \in Content
           /\ [store EXCEPT ![req[r].key] = Patched(r)] \in [Key -> Content \cup {Nil}]
<1>1. /\ req[r] \in Request /\ req[r].key \in Key
      /\ req[r].base \in Content /\ req[r].body \in Content
    BY DEF TypeOK, Request
<1>2. Stored(r) \in Content
    BY <1>1 DEF TypeOK, Stored
<1>3. Diff(req[r].base, Copy(req[r].base, req[r].body)) \in SUBSET Parts
    BY DEF Diff
<1>4. Patched(r) \in Content
    BY <1>1, <1>2, <1>3, MergeContent DEF Patched, Copy
<1> QED
    BY <1>1, <1>4 DEF TypeOK

-----------------------------------------------------------------------------
(* Handlers.                                                               *)

LEMMA ArriveCreateTypes ==
    ASSUME TypeOK, NEW r \in Requests,
           NEW op \in {"CreateAnalysis", "CreateNamespaceAnalysis"},
           NEW wanted, NEW namespaces \in SUBSET Namespaces,
           ArriveCreate(r, op, wanted, namespaces)
    PROVE  TypeOK'
<1>1. op \in Ops /\ UNCHANGED <<store, edits, faults>>
    BY DEF ArriveCreate, Ops
<1>2. ASSUME NEW n \in namespaces, NEW id \in Ids, NEW body \in Content,
             body.type # wanted, Reject(r, op, BadRequest)
      PROVE  TypeOK'
    BY <1>1, <1>2, RejectStep, OtherAnswers
<1>3. ASSUME NEW n \in namespaces, NEW id \in Ids, NEW body \in Content,
             body.type = wanted, Enter(r, op, <<n, id>>, body, "create")
      PROVE  TypeOK'
    <2>1. <<n, id>> \in Key /\ <<n, id>> # Nil /\ body # Nil
        BY NilAssumption DEF Key
    <2> QED
        BY <1>1, <1>3, <2>1, EnterStep
<1>4. CASE Reject(r, op, Panic)
    BY <1>1, <1>4, RejectStep, OtherAnswers
<1> QED
    BY <1>2, <1>3, <1>4 DEF ArriveCreate

LEMMA ArriveTypes ==
    ASSUME TypeOK, NEW r \in Requests, Arrive(r)
    PROVE  TypeOK'
<1>1. CASE CreateAnalysis(r)
    BY <1>1, ArriveCreateTypes DEF CreateAnalysis
<1>2. CASE CreateNamespaceAnalysis(r)
    BY <1>2, ArriveCreateTypes, NsAssumption DEF CreateNamespaceAnalysis
<1>3. CASE ModifyScheduler(r)
    <2>1. PICK answer \in Answer : Reject(r, "ModifyScheduler", answer)
        BY <1>3, OutputAnswers, OtherAnswers DEF ModifyScheduler
    <2> QED
        BY <1>3, <2>1, RejectStep DEF ModifyScheduler, Ops
<1>4. CASE ModifyAnalysisTask(r)
    BY <1>4, EnterStep, NilAssumption DEF ModifyAnalysisTask, Ops
<1>5. CASE DeleteAnalysisTask(r)
    BY <1>5, EnterStep, NilAssumption DEF DeleteAnalysisTask, Ops
<1>6. CASE NotImplemented(r)
    BY <1>6, RejectStep, OtherAnswers DEF NotImplemented, Ops
<1>7. CASE ReadEntityFails(r)
    BY <1>7, RejectStep, OtherAnswers DEF ReadEntityFails, Ops
<1> QED
    BY <1>1, <1>2, <1>3, <1>4, <1>5, <1>6, <1>7 DEF Arrive

-----------------------------------------------------------------------------
(* The operator.                                                           *)

LEMMA CreateTypes ==
    ASSUME TypeOK, NEW r \in Requests, Create(r)
    PROVE  TypeOK'
<1>1. /\ req[r].key \in Key /\ req[r].body \in Content
      /\ edits' \in 0..MaxEdits /\ faults' \in 0..MaxFaults
    BY DEF TypeOK, Request, Create
<1>2. store' \in [Key -> Content \cup {Nil}]
    BY <1>1 DEF TypeOK, Create
<1>3. PICK answer \in Answer : Finish(r, answer)
    BY OutputAnswers DEF Create
<1> QED
    BY <1>1, <1>2, <1>3, FinishStep

LEMMA DeleteTypes ==
    ASSUME TypeOK, NEW r \in Requests, Delete(r)
    PROVE  TypeOK'
<1>1. /\ store' \in [Key -> Content \cup {Nil}]
      /\ edits' \in 0..MaxEdits /\ faults' \in 0..MaxFaults
    BY DEF TypeOK, Delete
<1>2. PICK answer \in Answer : Finish(r, answer)
    BY OutputAnswers DEF Delete
<1> QED
    BY <1>1, <1>2, FinishStep

LEMMA ModifyGetTypes ==
    ASSUME TypeOK, NEW r \in Requests, ModifyGet(r)
    PROVE  TypeOK'
<1> DEFINE base == Stored(r)
           body == req[r].body
<1>1. /\ req[r] \in Request /\ req[r].key \in Key
      /\ base \in Content \cup {Nil} /\ body \in Content \cup {Nil}
      /\ UNCHANGED <<store, edits, faults>>
    BY DEF TypeOK, Request, ModifyGet, Stored
<1>2. ASSUME NEW answer \in Answer, Finish(r, answer)
      PROVE  TypeOK'
    BY <1>1, <1>2, FinishStep DEF TypeOK
<1>3. CASE base # Nil /\ body # Nil /\ Diff(base, Copy(base, body)) # {}
    <2>1. req' = [req EXCEPT ![r].pc = "patch", ![r].base = base]
        BY <1>3 DEF ModifyGet
    <2>2. base # body
        BY <1>1, <1>3, DiffEmpty DEF Copy
    <2>3. req' \in [Requests -> Request]
        <3>1. [req[r] EXCEPT !.pc = "patch", !.base = base] \in Request
            BY <1>1 DEF Request
        <3> QED
            BY <2>1, <3>1 DEF TypeOK
    <2>4. /\ \A q \in Requests \ {r} : req'[q] = req[q]
          /\ req'[r].pc = "patch" /\ req'[r].base = base
          /\ req'[r].body = body /\ req'[r].key = req[r].key
        BY <2>1, <1>1 DEF TypeOK, Request
    <2>5. Consistent(req'[r])
        BY <1>1, <1>3, <2>2, <2>4, NilAssumption DEF Consistent
    <2>6. \A q \in Requests : Consistent(req'[q])
        BY <2>3, <2>4, <2>5, ReqStep
    <2> QED
        BY <1>1, <2>3, <2>6, TypePartsNext DEF TypeOK
<1>4. CASE ~(base # Nil /\ body # Nil /\ Diff(base, Copy(base, body)) # {})
    <2>1. PICK answer \in Answer : Finish(r, answer)
        BY <1>4, OutputAnswers, OtherAnswers DEF ModifyGet
    <2> QED
        BY <1>2, <2>1
<1> QED
    BY <1>3, <1>4

LEMMA ModifyPatchTypes ==
    ASSUME TypeOK, NEW r \in Requests, ModifyPatch(r)
    PROVE  TypeOK'
<1>1. /\ store' \in [Key -> Content \cup {Nil}]
      /\ edits' \in 0..MaxEdits /\ faults' \in 0..MaxFaults
    BY PatchedTypes DEF TypeOK, ModifyPatch
<1>2. PICK answer \in Answer : Finish(r, answer)
    BY OutputAnswers DEF ModifyPatch
<1> QED
    BY <1>1, <1>2, FinishStep

LEMMA CallFailsTypes ==
    ASSUME TypeOK, NEW r \in Requests, CallFails(r)
    PROVE  TypeOK'
<1>1. edits' \in 0..MaxEdits /\ faults' \in 0..MaxFaults
    BY BoundAssumption DEF TypeOK, CallFails
<1>2. req[r] \in Request /\ (req[r].pc = "create" => req[r].body \in Content)
    BY DEF TypeOK, Request
<1>3. store' \in [Key -> Content \cup {Nil}]
    BY <1>2, PatchedTypes DEF TypeOK, CallFails
<1>4. PICK answer \in Answer : Finish(r, answer)
    BY OutputAnswers DEF CallFails
<1> QED
    BY <1>1, <1>3, <1>4, FinishStep

LEMMA ExternalEditTypes ==
    ASSUME TypeOK, ExternalEdit
    PROVE  TypeOK'
BY BoundAssumption DEF TypeOK, ExternalEdit

LEMMA NextTypes ==
    ASSUME TypeOK, [Next]_vars
    PROVE  TypeOK'
<1>1. ASSUME NEW r \in Requests, Serve(r)
      PROVE  TypeOK'
    BY <1>1, CreateTypes, DeleteTypes, ModifyGetTypes, ModifyPatchTypes,
       CallFailsTypes DEF Serve
<1>2. CASE UNCHANGED vars
    BY <1>2 DEF TypeOK, vars
<1> QED
    BY <1>1, <1>2, ArriveTypes, ExternalEditTypes DEF Next

(* The variables of the requests and of the cluster keep their types; a    *)
(* request about to patch asks for something other than what it read.      *)
THEOREM TypeCorrect == Spec => []TypeOK
<1>1. Init => TypeOK
    BY InitTypes
<1>2. TypeOK /\ [Next]_vars => TypeOK'
    BY NextTypes
<1> QED
    BY <1>1, <1>2, PTL DEF Spec

-----------------------------------------------------------------------------
(* What steps do to the store.                                             *)

(* A request that arrives leaves the store alone.                          *)
LEMMA ArriveStore ==
    ASSUME NEW r \in Requests, Arrive(r)
    PROVE  store' = store
BY DEF Arrive, CreateAnalysis, CreateNamespaceAnalysis, ArriveCreate, ModifyScheduler,
       ModifyAnalysisTask, DeleteAnalysisTask, NotImplemented, ReadEntityFails

(* The task of another key is left alone, and a request that changes its   *)
(* own is one of the three that write, and is answered.                    *)
LEMMA ServeStore ==
    ASSUME TypeOK, NEW r \in Requests, Serve(r), NEW k \in Key, store'[k] # store[k]
    PROVE  /\ req[r].key = k
           /\ req[r].pc \in {"create", "patch", "delete"}
           /\ req'[r].pc = "done"
           /\ req[r].pc = "patch" => store[k] # Nil /\ store'[k] = Patched(r)
           /\ req[r].pc = "delete" => store'[k] = Nil
<1> USE DEF Stored
<1>1. CASE Create(r)
    BY <1>1 DEF Create, TypeOK, Finish
<1>2. CASE Delete(r)
    BY <1>2 DEF Delete, TypeOK, Finish
<1>3. CASE ModifyGet(r)
    BY <1>3 DEF ModifyGet
<1>4. CASE ModifyPatch(r)
    BY <1>4 DEF ModifyPatch, TypeOK, Finish
<1>5. CASE CallFails(r)
    BY <1>5 DEF CallFails, TypeOK, Finish
<1> QED
    BY <1>1, <1>2, <1>3, <1>4, <1>5 DEF Serve

(* A part the request does not change is in the patched task what it was.  *)
LEMMA PatchedKeeps ==
    ASSUME NEW r \in Requests, NEW p \in Parts,
           req[r].body[p] = req[r].base[p]
    PROVE  Patched(r)[p] = Stored(r)[p]
BY DEF Patched, Merge, Diff, Copy

(* A request that serves leaves the others as they are.                    *)
LEMMA SameRequest ==
    ASSUME TypeOK, NEW q \in Requests, Serve(q), NEW r \in Requests, req'[r] # req[r]
    PROVE  q = r
BY DEF Serve, Create, Delete, ModifyGet, ModifyPatch, CallFails, Finish, TypeOK

(* A step that is not another client's.                                    *)
LEMMA StoreStep ==
    ASSUME TypeOK, Next, NEW k \in Key, store'[k] # store[k], edits' = edits
    PROVE  \E r \in Requests : Serve(r)
BY ArriveStore DEF Next, ExternalEdit, TypeOK

-----------------------------------------------------------------------------
(* A task that was deleted comes back only through a Create or another     *)
(* client, for any number of concurrent requests.                          *)
THEOREM DeletedStaysDeleted == Spec => NoResurrection
<1> DEFINE A == \A k \in Key : store[k] = Nil /\ store'[k] # Nil =>
                   \/ edits' # edits
                   \/ \E r \in Requests : req[r].key = k /\ req[r].pc = "create"
                                          /\ Answered(r)
<1>1. TypeOK /\ [Next]_vars => [A]_vars
    <2> SUFFICES ASSUME TypeOK, Next, NEW k \in Key, store[k] = Nil, store'[k] # Nil,
                        edits' = edits
                 PROVE  \E r \in Requests : req[r].key = k /\ req[r].pc = "create"
                                            /\ Answered(r)
        OBVIOUS
    <2>1. PICK r \in Requests : Serve(r)
        BY StoreStep
    <2> QED
        BY <2>1, ServeStore DEF Answered
<1>2. Spec => []TypeOK
    BY TypeCorrect
<1> QED
    BY <1>1, <1>2, PTL DEF Spec, NoResurrection

(* A Modify never writes back a part it does not change, whatever other    *)
(* requests made of that part since it was read.                           *)
THEOREM OthersKept == Spec => OtherPartsSurvive
<1> DEFINE A == \A r \in Requests :
                   req[r].pc = "patch" /\ Answered(r) /\ store' # store =>
                      \A p \in Parts :
                         req[r].body[p] = req[r].base[p] =>
                            store'[req[r].key][p] = store[req[r].key][p]
<1>1. TypeOK /\ [Next]_vars => [A]_vars
    <2> SUFFICES ASSUME TypeOK, Next, NEW r \in Requests, req[r].pc = "patch",
                        Answered(r), NEW p \in Parts,
                        req[r].body[p] = req[r].base[p],
                        store'[req[r].key] # store[req[r].key]
                 PROVE  store'[req[r].key][p] = store[req[r].key][p]
        OBVIOUS
    <2>1. req[r].key \in Key /\ req' # req
        BY DEF TypeOK, Request, Answered
    <2>2. PICK q \in Requests : Serve(q)
        BY <2>1, ArriveStore DEF Next, ExternalEdit
    <2>3. q = r
        BY <2>2, SameRequest DEF Answered
    <2>4. store'[req[r].key] = Patched(r)
        BY <2>1, <2>2, <2>3, ServeStore
    <2> QED
        BY <2>4, PatchedKeeps DEF Stored
<1>2. Spec => []TypeOK
    BY TypeCorrect
<1> QED
    BY <1>1, <1>2, PTL DEF Spec, OtherPartsSurvive

-----------------------------------------------------------------------------
(* What the answers tell.  Each of the calls belongs to the operations     *)
(* that make it.                                                           *)

Creates == {"CreateAnalysis", "CreateNamespaceAnalysis"}

CallsMatch ==
    \A r \in Requests :
       /\ req[r].pc = "new" => req[r].op = "none"
       /\ req[r].pc = "create" => req[r].op \in Creates
       /\ req[r].pc = "delete" => req[r].op = "DeleteAnalysisTask"

LEMMA CreateArrives ==
    ASSUME NEW r, NEW op, NEW wanted, NEW namespaces, ArriveCreate(r, op, wanted, namespaces)
    PROVE  \/ \E answer : Reject(r, op, answer)
           \/ \E key, body : Enter(r, op, key, body, "create")
<1>1. CASE Reject(r, op, Panic)
    BY <1>1
<1>2. CASE \E n \in namespaces, id \in Ids, body \in Content :
              IF body.type # wanted THEN Reject(r, op, BadRequest)
              ELSE Enter(r, op, <<n, id>>, body, "create")
    <2>1. PICK n \in namespaces, id \in Ids, body \in Content :
              Reject(r, op, BadRequest) \/ Enter(r, op, <<n, id>>, body, "create")
        BY <1>2
    <2> QED
        BY <2>1
<1> QED
    BY <1>1, <1>2 DEF ArriveCreate

(* A request arrives for an operation, or is served for the one it has.    *)
LEMMA ArriveMatch ==
    ASSUME TypeOK, CallsMatch, NEW r \in Requests, Arrive(r)
    PROVE  CallsMatch' /\ req[r].op = "none" /\ \A q \in Requests \ {r} : req'[q] = req[q]
<1>1. /\ req[r].pc = "new"
      /\ \/ \E op, answer : Reject(r, op, answer)
         \/ \E op, key, body : /\ op \in Creates
                               /\ Enter(r, op, key, body, "create")
         \/ \E key, body : Enter(r, "ModifyAnalysisTask", key, body, "get")
         \/ \E key, body : Enter(r, "DeleteAnalysisTask", key, body, "delete")
    <2>1. CASE CreateAnalysis(r)
        <3>1. ArriveCreate(r, "CreateAnalysis", "Deployment", Namespaces)
            BY <2>1 DEF CreateAnalysis
        <3>2. \/ \E answer : Reject(r, "CreateAnalysis", answer)
              \/ \E key, body : Enter(r, "CreateAnalysis", key, body, "create")
            BY <3>1, CreateArrives
        <3>3. req[r].pc = "new" /\ "CreateAnalysis" \in Creates
            BY <3>1 DEF ArriveCreate, Creates
        <3> QED
            BY <3>2, <3>3, Zenon
    <2>2. CASE CreateNamespaceAnalysis(r)
        <3>1. ArriveCreate(r, "CreateNamespaceAnalysis", "Namespace", {ScheduleNs})
            BY <2>2 DEF CreateNamespaceAnalysis
        <3>2. \/ \E answer : Reject(r, "CreateNamespaceAnalysis", answer)
              \/ \E key, body : Enter(r, "CreateNamespaceAnalysis", key, body, "create")
            BY <3>1, CreateArrives
        <3>3. req[r].pc = "new" /\ "CreateNamespaceAnalysis" \in Creates
            BY <3>1 DEF ArriveCreate, Creates
        <3> QED
            BY <3>2, <3>3, Zenon
    <2>3. CASE ModifyScheduler(r)
        BY <2>3 DEF ModifyScheduler
    <2>4. CASE NotImplemented(r) \/ ReadEntityFails(r)
        BY <2>4 DEF NotImplemented, ReadEntityFails
    <2>5. CASE ModifyAnalysisTask(r)
        BY <2>5 DEF ModifyAnalysisTask
    <2>6. CASE DeleteAnalysisTask(r)
        BY <2>6 DEF DeleteAnalysisTask
    <2> QED
        BY <2>1, <2>2, <2>3, <2>4, <2>5, <2>6 DEF Arrive
<1>2. /\ \A q \in Requests \ {r} : req'[q] = req[q]
      /\ \/ req'[r].pc = "done"
         \/ req'[r].pc = "create" /\ req'[r].op \in Creates
         \/ req'[r].pc = "get"
         \/ req'[r].pc = "delete" /\ req'[r].op = "DeleteAnalysisTask"
    <2>1. req \in [Requests -> Request]
        BY DEF TypeOK
    <2>2. ASSUME NEW op, NEW answer, Reject(r, op, answer)
          PROVE  /\ \A q \in Requests \ {r} : req'[q] = req[q]
                 /\ req'[r].pc = "done"
        BY <2>1, <2>2 DEF Reject, Request
    <2>3. ASSUME NEW op, NEW key, NEW body, NEW pc, Enter(r, op, key, body, pc)
          PROVE  /\ \A q \in Requests \ {r} : req'[q] = req[q]
                 /\ req'[r].pc = pc /\ req'[r].op = op
        BY <2>1, <2>3 DEF Enter, Request
    <2> QED
        BY <1>1, <2>2, <2>3
<1>4. CallsMatch'
    BY <1>2 DEF CallsMatch, Creates
<1> QED
    BY <1>1, <1>2, <1>4 DEF CallsMatch

LEMMA ServeMatch ==
    ASSUME TypeOK, CallsMatch, NEW r \in Requests, Serve(r)
    PROVE  CallsMatch'
<1>1. \A q \in Requests \ {r} : req'[q] = req[q]
    BY SameRequest
<1>2. req'[r].pc \in {"done", "patch"}
    <2>1. CASE \E answer : Finish(r, answer)
        BY <2>1 DEF Finish, TypeOK
    <2>2. CASE req' = [req EXCEPT ![r].pc = "patch", ![r].base = Stored(r)]
        BY <2>2 DEF TypeOK, Request
    <2> QED
        BY <2>1, <2>2 DEF Serve, Create, Delete, ModifyGet, ModifyPatch, CallFails
<1> QED
    BY <1>1, <1>2 DEF CallsMatch

LEMMA NextMatch ==
    ASSUME TypeOK, CallsMatch, [Next]_vars
    PROVE  CallsMatch'
BY ArriveMatch, ServeMatch DEF Next, ExternalEdit, vars, CallsMatch

LEMMA MatchInvariant == Spec => [](TypeOK /\ CallsMatch)
<1>1. Init => TypeOK /\ CallsMatch
    BY InitTypes DEF Init, CallsMatch
<1>2. TypeOK /\ CallsMatch /\ [Next]_vars => (TypeOK /\ CallsMatch)'
    BY NextTypes, NextMatch
<1> QED
    BY <1>1, <1>2, PTL DEF Spec

(* What a Modify or Delete answered with success or NotFound has seen: the *)
(* task it patched, found as it should be, or deleted, or no task.         *)
LEMMA AnswerSeen ==
    ASSUME TypeOK, CallsMatch, Next, NEW r \in Requests, Answered(r),
           req[r].op \in {"ModifyAnalysisTask", "DeleteAnalysisTask"}
    PROVE  /\ req[r].key \in Key
           /\ req'[r].answer.status = 404 => Stored(r) = Nil
           /\ req'[r].answer.status = 200 =>
                 \/ req[r].pc = "delete" /\ Stored(r) # Nil
                 \/ /\ req[r].pc = "get" /\ Stored(r) # Nil /\ req[r].body # Nil
                    /\ Diff(Stored(r), req[r].body) = {} /\ store' = store
                 \/ /\ req[r].pc = "patch" /\ Stored(r) # Nil
                    /\ store' = [store EXCEPT ![req[r].key] = Patched(r)]
<1>1. Serve(r)
    <2>1. req' # req
        BY DEF Answered
    <2>2. PICK q \in Requests : Arrive(q) \/ Serve(q)
        BY <2>1 DEF Next, ExternalEdit
    <2>3. CASE Arrive(q)
        BY <2>3, ArriveMatch DEF Answered
    <2> QED
        BY <2>2, <2>3, SameRequest DEF Answered
<1>2. req[r].pc \in {"delete", "get", "patch"} /\ req[r].key \in Key
    <2>1. req[r].pc \in {"create", "delete", "get", "patch"}
        BY <1>1 DEF Serve, Create, Delete, ModifyGet, ModifyPatch, CallFails
    <2> QED
        BY <2>1 DEF TypeOK, Request, CallsMatch, Creates
<1>3. \A answer : Finish(r, answer) => req'[r].answer = answer
    BY DEF Finish, TypeOK
<1>4. \A object : /\ Output(Result(object, "none")).status = 200
                  /\ Output(Result(object, "NotFound")).status = 404
                  /\ Output(Result(object, "Error")).status = 400
    BY DEF Output, Result
<1>5. CASE Delete(r)
    BY <1>2, <1>3, <1>4, <1>5 DEF Delete
<1>6. CASE ModifyGet(r)
    <2>1. \/ Stored(r) = Nil /\ req'[r].answer.status = 404
          \/ req'[r].answer.status = 500
          \/ /\ Stored(r) # Nil /\ req[r].body # Nil
             /\ Diff(Stored(r), req[r].body) = {} /\ req'[r].answer.status = 200
          \/ req' = [req EXCEPT ![r].pc = "patch", ![r].base = Stored(r)]
        BY <1>3, <1>4, <1>6 DEF ModifyGet, Copy, Panic
    <2>2. req' # [req EXCEPT ![r].pc = "patch", ![r].base = Stored(r)]
        BY DEF Answered, TypeOK, Request
    <2> QED
        BY <1>2, <1>6, <2>1, <2>2 DEF ModifyGet
<1>7. CASE ModifyPatch(r)
    BY <1>2, <1>3, <1>4, <1>7 DEF ModifyPatch
<1>8. CASE CallFails(r)
    BY <1>2, <1>3, <1>4, <1>8 DEF CallFails
<1>9. ~Create(r)
    BY <1>2 DEF Create
<1> QED
    BY <1>1, <1>5, <1>6, <1>7, <1>8, <1>9 DEF Serve

(* NotFound is answered only when there is no task of that key, and        *)
(* success only when there is one.                                         *)
THEOREM NotFoundTrue == Spec => NotFoundIsTrue
<1> DEFINE A == \A r \in Requests :
                   /\ req[r].op \in {"ModifyAnalysisTask", "DeleteAnalysisTask"}
                   /\ Answered(r)
                   => /\ req'[r].answer.status = 404 => Stored(r) = Nil
                      /\ req'[r].answer.status = 200 => Stored(r) # Nil
<1>1. TypeOK /\ CallsMatch /\ [Next]_vars => [A]_vars
    BY AnswerSeen
<1> QED
    BY <1>1, MatchInvariant, PTL DEF Spec, NotFoundIsTrue

(* Two tasks that do not differ are one, and a patch of a task that is as  *)
(* it was read makes it what was asked for.                                *)
LEMMA DiffExact ==
    ASSUME NEW base \in Content, NEW body \in Content
    PROVE  /\ Diff(base, body) = {} => base = body
           /\ Merge(base, body, Diff(base, body)) = body
BY DEF Diff, Merge, Content, Parts

(* A Modify that is answered with success and undisturbed leaves the task  *)
(* it asked for.                                                           *)
THEOREM ModifyExact == Spec => UndisturbedModifyExact
<1> DEFINE A == \A r \in Requests :
                   /\ req[r].op = "ModifyAnalysisTask"
                   /\ Answered(r) /\ req'[r].answer.status = 200
                   /\ (req[r].pc = "get" \/ req[r].base = Stored(r))
                   => store'[req[r].key] = req[r].body
<1>1. TypeOK /\ CallsMatch /\ [Next]_vars => [A]_vars
    <2> SUFFICES ASSUME TypeOK, CallsMatch, Next, NEW r \in Requests,
                        req[r].op = "ModifyAnalysisTask", Answered(r),
                        req'[r].answer.status = 200,
                        req[r].pc = "get" \/ req[r].base = Stored(r)
                 PROVE  store'[req[r].key] = req[r].body
        OBVIOUS
    <2>1. req[r].key \in Key
        BY AnswerSeen
    <2>2. \/ /\ req[r].pc = "get" /\ Stored(r) # Nil /\ req[r].body # Nil
             /\ Diff(Stored(r), req[r].body) = {} /\ store' = store
          \/ /\ req[r].pc = "patch" /\ Stored(r) # Nil
             /\ store' = [store EXCEPT ![req[r].key] = Patched(r)]
        BY AnswerSeen DEF CallsMatch
    <2>3. Stored(r) # Nil => Stored(r) \in Content
        BY <2>1 DEF TypeOK, Stored
    <2>4. req[r].body # Nil => req[r].body \in Content
        BY DEF TypeOK, Request
    <2>5. req[r].pc = "patch" => req[r].body # Nil
        BY DEF TypeOK
    <2>6. CASE req[r].pc = "get"
        BY <2>2, <2>3, <2>4, <2>6, DiffExact DEF Stored
    <2>7. CASE req[r].pc = "patch"
        <3>1. Patched(r) = req[r].body
            BY <2>2, <2>3, <2>4, <2>5, <2>7, DiffExact DEF Patched, Copy
        <3> QED
            BY <2>1, <2>2, <2>7, <3>1 DEF TypeOK
    <2> QED
        BY <2>2, <2>6, <2>7
<1> QED
    BY <1>1, MatchInvariant, PTL DEF Spec, UndisturbedModifyExact

-----------------------------------------------------------------------------
(* The refinement.  A client sees nothing of a request but what View       *)
(* says; Blank is what its record holds beside that.                       *)

View(q) ==
    [kind   |-> CASE q.pc = "new"    -> "none"
                  [] q.pc = "create" -> "create"
                  [] q.pc = "delete" -> "delete"
                  [] q.pc = "done"   -> "answered"
                  [] OTHER           -> "modify",
     key    |-> q.key,
     body   |-> q.body,
     status |-> q.answer.status]

Blank(q) ==
    /\ q.pc = "new" => q.key = Nil /\ q.body = Nil
    /\ q.pc # "done" => q.answer = NoAnswer

AllBlank == \A r \in Requests : Blank(req[r])

LEMMA AskedIsView == \A r \in Requests : Asked[r] = View(req[r])
BY DEF Asked, View

(* A step of one request is seen as a change of what that request asks.    *)
LEMMA ViewStep ==
    ASSUME TypeOK, NEW r \in Requests, NEW q, req' = [req EXCEPT ![r] = q]
    PROVE  /\ Asked' = [Asked EXCEPT ![r] = View(q)]
           /\ req'[r] = q
           /\ \A o \in Requests \ {r} : req'[o] = req[o]
<1>1. req'[r] = q /\ \A o \in Requests \ {r} : req'[o] = req[o]
    BY DEF TypeOK
<1>2. Asked' = [o \in Requests |-> View(req'[o])]
    BY DEF Asked, View
<1>3. Asked = [o \in Requests |-> View(req[o])]
    BY DEF Asked, View
<1> QED
    BY <1>1, <1>2, <1>3

(* A request that ends is seen as answered with the status.                *)
LEMMA FinishSeen ==
    ASSUME TypeOK, AllBlank, NEW r \in Requests, NEW answer, Finish(r, answer)
    PROVE  Tasks!Answer(r, answer.status) /\ AllBlank'
<1> DEFINE q == [op |-> req[r].op, key |-> Nil, body |-> Nil, pc |-> "done",
                 base |-> Nil, answer |-> answer]
<1>1. req' = [req EXCEPT ![r] = q]
    BY DEF Finish, TypeOK
<1>2. View(q) = Tasks!Answered(answer.status)
    BY DEF View, Tasks!Answered
<1>3. q.pc = "done"
    OBVIOUS
<1> HIDE DEF q
<1>4. Asked' = [Asked EXCEPT ![r] = View(q)] /\ req'[r] = q
      /\ \A o \in Requests \ {r} : req'[o] = req[o]
    BY <1>1, ViewStep
<1>5. Blank(q)
    BY <1>3 DEF Blank
<1> QED
    BY <1>2, <1>4, <1>5 DEF Tasks!Answer, AllBlank

(* One that is turned away has asked for nothing, and is refused.          *)
Errors == [status : {400, 404, 500}, entity : {"message"}]

LEMMA RejectSeen ==
    ASSUME TypeOK, AllBlank, NEW r \in Requests, NEW op, NEW answer \in Errors,
           req[r].pc = "new",
           Reject(r, op, answer), UNCHANGED <<store, edits>>
    PROVE  Tasks!Refuse(r) /\ AllBlank'
<1> DEFINE q == [req[r] EXCEPT !.op = op, !.pc = "done", !.answer = answer]
<1>1. req' = [req EXCEPT ![r] = q]
    BY DEF Reject, TypeOK, Request
<1>2. req[r] \in Request /\ Blank(req[r])
    BY DEF TypeOK, AllBlank
<1>3. q.pc = "done" /\ q.key = Nil /\ q.body = Nil /\ q.answer = answer
    BY <1>2 DEF Request, Blank
<1> HIDE DEF q
<1>4. Asked' = [Asked EXCEPT ![r] = View(q)] /\ req'[r] = q
      /\ \A o \in Requests \ {r} : req'[o] = req[o]
    BY <1>1, ViewStep
<1>5. View(q) = Tasks!Answered(answer.status) /\ Blank(q)
    BY <1>3 DEF View, Blank, Tasks!Answered
<1>6. Asked[r] = Tasks!Unasked
    BY <1>2, AskedIsView DEF View, Blank, NoAnswer, Tasks!Unasked
<1>7. Asked[r].kind # "answered"
    BY <1>6 DEF Tasks!Unasked
<1>8. Tasks!Answer(r, answer.status)
    BY <1>4, <1>5 DEF Tasks!Answer
<1>9. Tasks!Refuse(r)
    BY <1>6, <1>7, <1>8 DEF Tasks!Refuse, Errors
<1>10. AllBlank'
    BY <1>4, <1>5 DEF AllBlank
<1> QED
    BY <1>9, <1>10

(* One that is handed to the operator asks for what it names.              *)
LEMMA EnterSeen ==
    ASSUME TypeOK, AllBlank, NEW r \in Requests, NEW op, NEW key \in Key,
           NEW body \in Content \cup {Nil}, NEW pc \in {"create", "get", "delete"},
           req[r].pc = "new", Enter(r, op, key, body, pc), UNCHANGED <<store, edits>>
    PROVE  Tasks!Ask(r) /\ AllBlank'
<1> DEFINE q == [req[r] EXCEPT !.op = op, !.key = key, !.body = body, !.pc = pc]
<1>1. req' = [req EXCEPT ![r] = q]
    BY DEF Enter, TypeOK, Request
<1>2. req[r] \in Request /\ Blank(req[r])
    BY DEF TypeOK, AllBlank
<1>3. q.pc = pc /\ q.key = key /\ q.body = body /\ q.answer = NoAnswer
    BY <1>2 DEF Request, Blank
<1> HIDE DEF q
<1>4. Asked' = [Asked EXCEPT ![r] = View(q)] /\ req'[r] = q
      /\ \A o \in Requests \ {r} : req'[o] = req[o]
    BY <1>1, ViewStep
<1>5. View(q) \in Tasks!Wish /\ Blank(q)
    BY <1>3 DEF View, Blank, NoAnswer, Tasks!Wish
<1>6. Asked[r] = Tasks!Unasked
    BY <1>2, AskedIsView DEF View, Blank, NoAnswer, Tasks!Unasked
<1>7. Asked'[r] = View(q)
    BY <1>4, AskedIsView DEF Asked
<1> QED
    BY <1>4, <1>5, <1>6, <1>7 DEF Tasks!Ask, AllBlank

(* Every answer of an error is one of the refusals.                        *)
LEMMA ErrorAnswers ==
    /\ BadRequest \in Errors /\ Panic \in Errors
    /\ \A err \in {"NotFound", "AlreadyExists", "Error"} :
          Output(Result(Nil, err)) \in Errors
BY DEF BadRequest, Panic, Errors, Output, Result

LEMMA ArriveSeen ==
    ASSUME TypeOK, AllBlank, NEW r \in Requests, Arrive(r)
    PROVE  (Tasks!Refuse(r) \/ Tasks!Ask(r)) /\ AllBlank'
<1>1. req[r].pc = "new" /\ UNCHANGED <<store, edits>>
    BY DEF Arrive, CreateAnalysis, CreateNamespaceAnalysis, ArriveCreate, ModifyScheduler,
           ModifyAnalysisTask, DeleteAnalysisTask, NotImplemented, ReadEntityFails
<1>2. ASSUME NEW op, NEW answer \in Errors, Reject(r, op, answer)
      PROVE  Tasks!Refuse(r) /\ AllBlank'
    BY <1>1, <1>2, RejectSeen
<1>3. ASSUME NEW op, NEW key \in Key, NEW body \in Content \cup {Nil},
             NEW pc \in {"create", "get", "delete"}, Enter(r, op, key, body, pc)
      PROVE  Tasks!Ask(r) /\ AllBlank'
    BY <1>1, <1>3, EnterSeen
<1>4. ASSUME NEW op, NEW wanted, NEW namespaces \in SUBSET Namespaces,
             ArriveCreate(r, op, wanted, namespaces)
      PROVE  (Tasks!Refuse(r) \/ Tasks!Ask(r)) /\ AllBlank'
    <2>1. \/ \E n \in namespaces, id \in Ids, body \in Content :
                Enter(r, op, <<n, id>>, body, "create")
          \/ Reject(r, op, BadRequest) \/ Reject(r, op, Panic)
        BY <1>4 DEF ArriveCreate
    <2>2. \A n \in namespaces, id \in Ids : <<n, id>> \in Key
        BY DEF Key
    <2> QED
        BY <2>1, <2>2, <1>2, <1>3, ErrorAnswers
<1>5. CASE CreateAnalysis(r)
    BY <1>4, <1>5 DEF CreateAnalysis
<1>6. CASE CreateNamespaceAnalysis(r)
    BY <1>4, <1>6, NsAssumption DEF CreateNamespaceAnalysis
<1>7. CASE ModifyScheduler(r)
    <2>1. PICK answer \in Errors : Reject(r, "ModifyScheduler", answer)
        BY <1>7, ErrorAnswers DEF ModifyScheduler
    <2> QED
        BY <2>1, <1>2
<1>8. CASE ModifyAnalysisTask(r)
    BY <1>3, <1>8 DEF ModifyAnalysisTask
<1>9. CASE DeleteAnalysisTask(r)
    BY <1>3, <1>9 DEF DeleteAnalysisTask
<1>10. CASE NotImplemented(r)
    BY <1>2, <1>10, ErrorAnswers DEF NotImplemented
<1>11. CASE ReadEntityFails(r)
    BY <1>2, <1>11, ErrorAnswers DEF ReadEntityFails
<1> QED
    BY <1>5, <1>6, <1>7, <1>8, <1>9, <1>10, <1>11 DEF Arrive

(* What the store sees of a request that is under way.                     *)
LEMMA AskedOf ==
    ASSUME TypeOK, NEW r \in Requests, req[r].pc \notin {"new", "done"}
    PROVE  /\ Asked[r].key = req[r].key /\ Asked[r].body = req[r].body
           /\ Asked[r].kind \in {"create", "modify", "delete"}
           /\ req[r].pc = "create" => Asked[r].kind = "create"
           /\ req[r].pc = "delete" => Asked[r].kind = "delete"
           /\ req[r].pc \in {"get", "patch"} => Asked[r].kind = "modify"
           /\ req[r].key \in Key
           /\ Asked[r] # Tasks!Unasked
<1>1. Asked[r] = View(req[r]) /\ req[r] \in Request
    BY AskedIsView DEF TypeOK
<1>2. req[r].pc \in {"create", "get", "patch", "delete"} /\ req[r].key \in Key
    BY <1>1 DEF TypeOK, Request
<1> QED
    BY <1>1, <1>2 DEF View, Tasks!Unasked

(* A request under way that ends in an error without effect is refused.    *)
LEMMA RefuseSeen ==
    ASSUME TypeOK, AllBlank, NEW r \in Requests, req[r].pc \notin {"new", "done"},
           NEW answer \in Errors, Finish(r, answer),
           answer.status = 404 => Stored(r) = Nil, UNCHANGED <<store, edits>>
    PROVE  Tasks!Refuse(r) /\ AllBlank'
<1>1. Tasks!Answer(r, answer.status) /\ AllBlank'
    BY FinishSeen
<1>2. Asked[r].kind # "answered" /\ Asked[r].key = req[r].key
    BY AskedOf
<1> QED
    BY <1>1, <1>2 DEF Tasks!Refuse, Errors, Stored

(* The effect of a request comes with its answer.                          *)
Effects == [status : {200, 400}, entity : {"none", "message", "task"}]

LEMMA EffectAnswers ==
    /\ \A object : Output(Result(object, "none")) \in Effects
    /\ Output(Result(Nil, "Error")) \in Effects
BY DEF Effects, Output, Result

LEMMA SucceedSeen ==
    ASSUME TypeOK, AllBlank, NEW r \in Requests, NEW answer \in Effects, Finish(r, answer)
    PROVE  Tasks!Succeed(r) /\ AllBlank'
<1>1. Tasks!Answer(r, answer.status) /\ AllBlank'
    BY FinishSeen
<1>2. answer.status \in {200, 400}
    BY DEF Effects
<1> QED
    BY <1>1, <1>2 DEF Tasks!Succeed

(* A patch is a merge of some parts of what is asked for.                  *)
LEMMA PatchSeen ==
    ASSUME TypeOK, AllBlank, NEW r \in Requests, NEW answer \in Effects,
           req[r].pc = "patch", Stored(r) # Nil,
           store' = [store EXCEPT ![req[r].key] = Patched(r)],
           Finish(r, answer), UNCHANGED edits
    PROVE  Tasks!Change(r) /\ AllBlank'
<1>1. /\ Asked[r].kind = "modify" /\ Asked[r].key = req[r].key
      /\ Asked[r].body = req[r].body /\ req[r].key \in Key /\ req[r].body # Nil
    BY AskedOf DEF TypeOK
<1> DEFINE parts == Diff(req[r].base, req[r].body)
<1>2. parts \in SUBSET Parts
    BY DEF Diff
<1>3. Patched(r) = Tasks!Merge(store[req[r].key], req[r].body, parts)
    BY DEF Patched, Copy, Merge, Stored, Tasks!Merge
<1> HIDE DEF parts
<1>4. store' = [store EXCEPT ![Asked[r].key] =
                   Tasks!Merge(store[Asked[r].key], Asked[r].body, parts)]
    BY <1>1, <1>3
<1>5. Tasks!Succeed(r) /\ AllBlank'
    BY SucceedSeen
<1>6. Asked[r].body # Nil /\ store[Asked[r].key] # Nil
    BY <1>1 DEF Stored
<1> QED
    BY <1>1, <1>2, <1>4, <1>5, <1>6 DEF Tasks!Change

(* Merging no part changes nothing.                                        *)
LEMMA MergeNothing ==
    ASSUME NEW current \in Content, NEW body
    PROVE  Tasks!Merge(current, body, {}) = current
BY DEF Tasks!Merge, Content, Parts

(* A Create that finds no task.                                            *)
LEMMA CreateSeen ==
    ASSUME TypeOK, AllBlank, NEW r \in Requests, NEW answer \in Effects,
           req[r].pc = "create", Stored(r) = Nil,
           store' = [store EXCEPT ![req[r].key] = req[r].body],
           Finish(r, answer), UNCHANGED edits
    PROVE  Tasks!Put(r) /\ AllBlank'
<1>1. /\ Asked[r].kind = "create" /\ Asked[r].key = req[r].key
      /\ Asked[r].body = req[r].body
    BY AskedOf
<1> QED
    BY <1>1, SucceedSeen DEF Tasks!Put, Stored

(* A Delete that finds the task.                                           *)
LEMMA DeleteSeen ==
    ASSUME TypeOK, AllBlank, NEW r \in Requests, NEW answer \in Effects,
           req[r].pc = "delete", Stored(r) # Nil,
           store' = [store EXCEPT ![req[r].key] = Nil],
           Finish(r, answer), UNCHANGED edits
    PROVE  Tasks!Take(r) /\ AllBlank'
<1>1. Asked[r].kind = "delete" /\ Asked[r].key = req[r].key
    BY AskedOf
<1> QED
    BY <1>1, SucceedSeen DEF Tasks!Take, Stored

(* The Get of a Modify: an end without effect, an end that finds nothing   *)
(* to change, or nothing that a client sees.                               *)
LEMMA ModifyGetSeen ==
    ASSUME TypeOK, AllBlank, NEW r \in Requests, ModifyGet(r)
    PROVE  (Tasks!Refuse(r) \/ Tasks!Change(r) \/ UNCHANGED Tasks!vars) /\ AllBlank'
<1> DEFINE base == Stored(r)
           body == req[r].body
<1>1. /\ req[r].pc = "get" /\ UNCHANGED <<store, edits>>
      /\ req[r] \in Request /\ Blank(req[r]) /\ req[r].key \in Key
      /\ base \in Content \cup {Nil}
    BY DEF TypeOK, Request, ModifyGet, Stored, AllBlank
<1>2. CASE base = Nil
  <2>1. Finish(r, Output(Result(Nil, "NotFound")))
      BY <1>2 DEF ModifyGet
  <2> QED
      BY <1>1, <1>2, <2>1, RefuseSeen, ErrorAnswers
<1>3. CASE base # Nil /\ body = Nil
  <2>1. Finish(r, Panic)
      BY <1>3 DEF ModifyGet
  <2>2. Panic.status # 404
      BY DEF Panic
  <2> QED
      BY <1>1, <2>1, <2>2, RefuseSeen, ErrorAnswers
<1>4. CASE base # Nil /\ body # Nil /\ Diff(base, Copy(base, body)) = {}
  <2>1. Finish(r, Output(Result(Nil, "none")))
      BY <1>4 DEF ModifyGet
  <2>2. Tasks!Succeed(r) /\ AllBlank'
      BY <2>1, SucceedSeen, EffectAnswers
  <2>3. /\ Asked[r].kind = "modify" /\ Asked[r].key = req[r].key
        /\ Asked[r].body = body
      BY <1>1, AskedOf
  <2>4. Tasks!Merge(base, body, {}) = base
      BY <1>1, <1>4, MergeNothing
  <2>5. store = [store EXCEPT ![req[r].key] = base]
      BY <1>1 DEF TypeOK, Stored
  <2>6. store' = [store EXCEPT ![Asked[r].key] =
                     Tasks!Merge(store[Asked[r].key], Asked[r].body, {})]
      BY <1>1, <2>3, <2>4, <2>5 DEF Stored
  <2>7. {} \in SUBSET Parts
      OBVIOUS
  <2>8. Asked[r].body # Nil /\ store[Asked[r].key] # Nil
      BY <1>4, <2>3 DEF Stored
  <2> QED
      BY <1>1, <2>2, <2>3, <2>6, <2>7, <2>8 DEF Tasks!Change
<1>5. CASE base # Nil /\ body # Nil /\ Diff(base, Copy(base, body)) # {}
  <2> DEFINE q == [req[r] EXCEPT !.pc = "patch", !.base = base]
  <2>1. req' = [req EXCEPT ![r] = q]
      BY <1>5 DEF ModifyGet, TypeOK, Request
  <2>2. /\ q.pc = "patch" /\ q.key = req[r].key /\ q.body = req[r].body
        /\ q.answer = req[r].answer
      BY <1>1 DEF Request
  <2> HIDE DEF q, base, body
  <2>3. Asked' = [Asked EXCEPT ![r] = View(q)] /\ req'[r] = q
        /\ \A o \in Requests \ {r} : req'[o] = req[o]
      BY <2>1, ViewStep
  <2>4. View(q) = Asked[r] /\ Blank(q)
      BY <1>1, <2>2, AskedIsView DEF View, Blank
  <2>5. Asked' = Asked
      BY <2>3, <2>4 DEF Asked
  <2>6. AllBlank'
      BY <2>3, <2>4 DEF AllBlank
  <2> QED
      BY <1>1, <2>5, <2>6 DEF Tasks!vars
<1> HIDE DEF base, body
<1> QED
    BY <1>2, <1>3, <1>4, <1>5

(* The calls that write, and calls that fail.                              *)
LEMMA CallSeen ==
    ASSUME TypeOK, AllBlank, NEW r \in Requests,
           Create(r) \/ Delete(r) \/ ModifyPatch(r)
    PROVE  (Tasks!Refuse(r) \/ Tasks!Put(r) \/ Tasks!Change(r) \/ Tasks!Take(r)) /\ AllBlank'
<1> USE ErrorAnswers, EffectAnswers
<1>1. CASE Create(r) /\ Stored(r) = Nil
    BY <1>1, CreateSeen DEF Create
<1>2. CASE Create(r) /\ Stored(r) # Nil
  <2>1. /\ req[r].pc = "create" /\ UNCHANGED <<store, edits>>
        /\ Finish(r, Output(Result(Nil, "AlreadyExists")))
      BY <1>2 DEF Create
  <2>2. Output(Result(Nil, "AlreadyExists")).status # 404
      BY DEF Output, Result
  <2> QED
      BY <2>1, <2>2, RefuseSeen
<1>3. CASE Delete(r) /\ Stored(r) # Nil
    BY <1>3, DeleteSeen DEF Delete
<1>4. CASE Delete(r) /\ Stored(r) = Nil
  <2>1. store' = store
      BY <1>4 DEF Delete, Stored, TypeOK
  <2> QED
      BY <1>4, <2>1, RefuseSeen DEF Delete
<1>5. CASE ModifyPatch(r) /\ Stored(r) # Nil
    BY <1>5, PatchSeen DEF ModifyPatch
<1>6. CASE ModifyPatch(r) /\ Stored(r) = Nil
    BY <1>6, RefuseSeen DEF ModifyPatch
<1> QED
    BY <1>1, <1>2, <1>3, <1>4, <1>5, <1>6

LEMMA CallFailsSeen ==
    ASSUME TypeOK, AllBlank, NEW r \in Requests, CallFails(r)
    PROVE  (Tasks!Refuse(r) \/ Tasks!Put(r) \/ Tasks!Change(r) \/ Tasks!Take(r)) /\ AllBlank'
<1> DEFINE answer == Output(Result(Nil, "Error"))
<1>1. /\ req[r].pc \in {"create", "get", "patch", "delete"}
      /\ Finish(r, answer) /\ UNCHANGED edits
      /\ answer \in Errors /\ answer \in Effects
    BY ErrorAnswers, EffectAnswers DEF CallFails
<1>2. answer.status # 404
    BY DEF Output, Result
<1> HIDE DEF answer
<1>3. CASE UNCHANGED store
    BY <1>1, <1>2, <1>3, RefuseSeen
<1>4. CASE /\ req[r].pc = "create" /\ Stored(r) = Nil
           /\ store' = [store EXCEPT ![req[r].key] = req[r].body]
    BY <1>1, <1>4, CreateSeen
<1>5. CASE /\ req[r].pc = "patch" /\ Stored(r) # Nil
           /\ store' = [store EXCEPT ![req[r].key] = Patched(r)]
    BY <1>1, <1>5, PatchSeen
<1>6. CASE req[r].pc = "delete" /\ store' = [store EXCEPT ![req[r].key] = Nil]
  <2>1. CASE Stored(r) # Nil
      BY <1>1, <1>6, <2>1, DeleteSeen
  <2>2. CASE Stored(r) = Nil
    <3>1. store' = store
        BY <1>6, <2>2 DEF Stored, TypeOK
    <3> QED
        BY <1>3, <3>1
  <2> QED
      BY <2>1, <2>2
<1> QED
    BY <1>3, <1>4, <1>5, <1>6 DEF CallFails

LEMMA NextSeen ==
    ASSUME TypeOK, AllBlank, [Next]_vars
    PROVE  [Tasks!Next]_(Tasks!vars) /\ AllBlank'
<1>1. CASE \E r \in Requests : Arrive(r) \/ Serve(r)
  <2>1. PICK r \in Requests : Arrive(r) \/ Serve(r)
      BY <1>1
  <2>2. /\ \/ Tasks!Ask(r) \/ Tasks!Refuse(r) \/ Tasks!Put(r) \/ Tasks!Change(r)
           \/ Tasks!Take(r) \/ UNCHANGED Tasks!vars
        /\ AllBlank'
      BY <2>1, ArriveSeen, ModifyGetSeen, CallSeen, CallFailsSeen DEF Serve
  <2> QED
      BY <2>2 DEF Tasks!Next
<1>2. CASE ExternalEdit
  <2>1. req' = req /\ edits' = edits + 1
        /\ \E k \in Key, c \in Content \cup {Nil} : store' = [store EXCEPT ![k] = c]
      BY <1>2 DEF ExternalEdit
  <2>2. Asked' = Asked /\ AllBlank'
      BY <2>1 DEF Asked, AllBlank, Blank
  <2>3. Tasks!Edit
      BY <2>1, <2>2 DEF Tasks!Edit
  <2> QED
      BY <2>2, <2>3 DEF Tasks!Next
<1>3. CASE UNCHANGED vars
    BY <1>3 DEF vars, Tasks!vars, Asked, AllBlank, Blank
<1> QED
    BY <1>1, <1>2, <1>3 DEF Next

(* Any number of concurrent requests, with calls that fail at any point,   *)
(* implement the store of TaskStore: what a client sees of each request is *)
(* one atomic step.                                                        *)
THEOREM Implements == Spec => ImplementsTaskStore
<1>1. Init => Tasks!Init /\ AllBlank
  <2> SUFFICES ASSUME Init PROVE Tasks!Init /\ AllBlank
      OBVIOUS
  <2>1. \A r \in Requests : req[r].pc = "new" /\ req[r].key = Nil /\ req[r].body = Nil
                            /\ req[r].answer = NoAnswer
      BY DEF Init
  <2>2. \A r \in Requests : View(req[r]) = Tasks!Unasked
      BY <2>1 DEF View, NoAnswer, Tasks!Unasked
  <2>3. Asked = [r \in Requests |-> Tasks!Unasked]
      BY <2>2, AskedIsView DEF Asked
  <2> QED
      BY <2>1, <2>3 DEF Init, Tasks!Init, AllBlank, Blank
<1>2. TypeOK /\ AllBlank /\ [Next]_vars => [Tasks!Next]_(Tasks!vars) /\ AllBlank'
    BY NextSeen
<1>3. Spec => []TypeOK
    BY TypeCorrect
<1> QED
    BY <1>1, <1>2, <1>3, PTL DEF Spec, ImplementsTaskStore, Tasks!Spec
=============================================================================
