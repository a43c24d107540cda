------------------------------ MODULE TaskStore ------------------------------
(***************************************************************************)
(* What the REST API for AnalysisTasks promises its clients, without the   *)
(* calls it makes: a request takes effect in one step or not at all, on    *)
(* the task it names and with values it asks for, and it is answered in    *)
(* that step.  ScheduleAPI implements it.                                  *)
(***************************************************************************)
EXTENDS Naturals

CONSTANTS
    Requests,   \* requests to the API
    Key,        \* what a request names a task by
    Content,    \* what a task may hold, for every part of it a value
    Parts,      \* the parts a request may change
    Nil         \* no task

VARIABLES
    store,   \* the tasks
    asked,   \* what each request asks for, or the status of its answer
    edits    \* how often another client changed a task

vars == <<store, asked, edits>>

Unasked == [kind |-> "none", key |-> Nil, body |-> Nil, status |-> 0]

(* What a request may ask for.                                             *)
Wish == [kind : {"create", "modify", "delete"}, key : Key, body : Content \cup {Nil},
         status : {0}]

Answered(status) == [kind |-> "answered", key |-> Nil, body |-> Nil, status |-> status]

Init ==
    /\ store \in [Key -> Content \cup {Nil}]
    /\ asked = [r \in Requests |-> Unasked]
    /\ edits = 0

(* A request comes and asks for something.                                 *)
Ask(r) ==
    /\ UNCHANGED <<store, edits>>
    /\ asked[r] = Unasked
    /\ asked'[r] \in Wish
    /\ asked' = [asked EXCEPT ![r] = asked'[r]]

Answer(r, status) == asked' = [asked EXCEPT ![r] = Answered(status)]

(* It is turned away at once, or ends without effect.  That its task does  *)
(* not exist is said only when it does not.                                *)
Refuse(r) ==
    /\ UNCHANGED <<store, edits>>
    /\ asked[r].kind # "answered"
    /\ \E status \in {400, 404, 500} :
          /\ status = 404 /\ asked[r] # Unasked => store[asked[r].key] = Nil
          /\ Answer(r, status)

(* The effects.  A call whose answer was lost has an effect and ends in an *)
(* error.                                                                  *)
Succeed(r) == \E status \in {200, 400} : Answer(r, status)

Put(r) ==
    /\ asked[r].kind = "create"
    /\ store[asked[r].key] = Nil
    /\ store' = [store EXCEPT ![asked[r].key] = asked[r].body]
    /\ Succeed(r)
    /\ UNCHANGED edits

(* Some parts of the task become what the request asks for, the others     *)
(* stay as they are in the moment of the change.                           *)
Merge(current, body, parts) ==
    [p \in Parts |-> IF p \in parts THEN body[p] ELSE current[p]]

Change(r) ==
    /\ asked[r].kind = "modify"
    /\ asked[r].body # Nil
    /\ store[asked[r].key] # Nil
    /\ \E parts \in SUBSET Parts :
          store' = [store EXCEPT ![asked[r].key] = Merge(@, asked[r].body, parts)]
    /\ Succeed(r)
    /\ UNCHANGED edits

Take(r) ==
    /\ asked[r].kind = "delete"
    /\ store[asked[r].key] # Nil
    /\ store' = [store EXCEPT ![asked[r].key] = Nil]
    /\ Succeed(r)
    /\ UNCHANGED edits

(* Another client changes one task.                                        *)
Edit ==
    /\ edits' = edits + 1
    /\ \E k \in Key, c \in Content \cup {Nil} : store' = [store EXCEPT ![k] = c]
    /\ UNCHANGED asked

Next ==
    \/ \E r \in Requests : Ask(r) \/ Refuse(r) \/ Put(r) \/ Change(r) \/ Take(r)
    \/ Edit

Spec == Init /\ [][Next]_vars
=============================================================================
