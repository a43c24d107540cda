--------------------------- MODULE NotifyThresholds ---------------------------
(***************************************************************************)
(* The way of the notification thresholds from a PATCH request, through    *)
(* the clusterconfigurations objects of the cluster, to the SchedulerConfig *)
(* of the analysis controller.                                             *)
(*                                                                         *)
(* ks-apiserver serves requests concurrently; each reads the installer     *)
(* object and patches it.  The controller manager watches all the objects  *)
(* of that resource and handles their notifications one after the other.   *)
(***************************************************************************)
EXTENDS Naturals, Sequences, FiniteSets, SequencesExt

CONSTANTS
    Objects,     \* the clusterconfigurations objects
    Installer,   \* ks-installer, the one requests modify
    Values,      \* integers
    Absent,      \* no value, a nil pointer
    Mistyped,    \* a value that is no integer
    Blocked,     \* a value where the way to the thresholds needs an object
    Nil,         \* no object, JSON null
    Contents,    \* what other clients write
    Requests,
    MaxEdits,    \* bound: changes made past this API
    MaxFaults    \* bound: failed calls, broken watches, restarts

ASSUME ObjectsAssumption == Installer \in Objects /\ IsFiniteSet(Objects)

ASSUME ValuesAssumption == Absent \notin Values /\ Mistyped \notin Values

ASSUME BoundAssumption == MaxEdits \in Nat /\ MaxFaults \in Nat

Fields == {"cpu", "mem"}

(* spec.schedule.analysis.notifyThreshold of one object.                   *)
Thresholds == [Fields -> Values \cup {Absent, Mistyped}]
Content    == Thresholds \cup {Blocked}

Pointers == [Fields -> Values \cup {Absent}]

ASSUME ContentsAssumption == Contents \subseteq Content

ASSUME BlockedAssumption == Blocked \notin Thresholds

ASSUME NilAssumption == Nil \notin Content /\ Nil \notin Pointers /\ Nil \notin Objects

(* What is at the end of the path to a field.                              *)
Threshold(content, f) == IF content = Blocked THEN Absent ELSE content[f]

VARIABLES
    store,            \* the objects in the cluster
    watching,         \* the watch of the informer is intact
    informed,         \* the cache of the informer
    events,           \* notifications the handler has not had
    SchedulerConfig,  \* AnalysisTaskReconciler.SchedulerConfig
    source,           \* history: the object each field of it was read from
    req,              \* the requests
    edits, faults

clusterVars  == <<store, informed, events>>
configVars   == <<SchedulerConfig, source>>
controlVars  == <<watching, configVars>>
vars == <<clusterVars, controlVars, req, edits, faults>>

Event == [object : Objects, content : Content \cup {Nil}]

Request == [pc : {"new", "get", "patch", "done"},
            body : Pointers \cup {Nil},
            base : Content \cup {Nil},
            status : {0, 200, 400, 500}]

(* Every variable is of its kind; a request about to patch has a body and  *)
(* an object that it read and that can hold it, and the two differ.        *)
TypeOK ==
    /\ store \in [Objects -> Content \cup {Nil}]
    /\ watching \in BOOLEAN
    /\ informed \in [Objects -> Content \cup {Nil}]
    /\ events \in Seq(Event)
    /\ SchedulerConfig \in Pointers
    /\ source \in [Fields -> Objects \cup {Nil}]
    /\ req \in [Requests -> Request]
    /\ \A r \in Requests :
          req[r].pc = "patch" =>
             /\ req[r].body # Nil /\ req[r].base \in Thresholds
             /\ \E f \in Fields : req[r].body[f] \notin {Absent, req[r].base[f]}
    /\ edits \in 0..MaxEdits
    /\ faults \in 0..MaxFaults

NoThresholds == [f \in Fields |-> Absent]

(* The notifications for a set of objects, in any order.                   *)
Notifications(S, c) ==
    {[i \in DOMAIN q |-> [object |-> q[i], content |-> c[q[i]]]] : q \in SetToSeqs(S)}

Existing(c) == {o \in Objects : c[o] # Nil}

Init ==
    /\ store \in [Objects -> Contents \cup {Nil}]
    /\ watching = TRUE
    /\ informed = store
    /\ events \in Notifications(Existing(store), store)
    /\ SchedulerConfig = NoThresholds
    /\ source = [f \in Fields |-> Nil]
    /\ req = [r \in Requests |->
                [pc |-> "new", body |-> Nil, base |-> Nil, status |-> 0]]
    /\ edits = 0 /\ faults = 0

-----------------------------------------------------------------------------
(* The cluster.                                                            *)

(* An object changes; a watch that is intact notifies the informer.        *)
Change(o, content) ==
    /\ store' = [store EXCEPT ![o] = content]
    /\ IF watching
       THEN /\ informed' = [informed EXCEPT ![o] = content]
            /\ events' = Append(events, [object |-> o, content |-> content])
       ELSE UNCHANGED <<informed, events>>

ExternalEdit ==
    /\ edits < MaxEdits
    /\ edits' = edits + 1
    /\ \E o \in Objects, c \in Contents \cup {Nil} : store[o] # c /\ Change(o, c)
    /\ UNCHANGED <<controlVars, req, faults>>

-----------------------------------------------------------------------------
(* The controller.                                                         *)

(* GetInt64, with what the caller keeps when the path is missing or what   *)
(* is there is no integer.                                                 *)
GetInt64(threshold, otherwise) == IF threshold \in Values THEN threshold ELSE otherwise

(* Mutant: nothing is read behind a field without an integer.              *)
UpdateScheduleConfigStops(config, content) ==
    IF Threshold(content, "cpu") \notin Values THEN config
    ELSE [f \in Fields |-> GetInt64(Threshold(content, f), config[f])]

(* A field that is no integer leaves the configuration as it is.           *)
UpdateScheduleConfig(config, content) ==
    [f \in Fields |-> GetInt64(Threshold(content, f), config[f])]

(* The history that goes with it.                                          *)
Source(event) ==
    [f \in Fields |-> IF Threshold(event.content, f) \in Values THEN event.object
                      ELSE source[f]]

(* Mutant: the configuration is read once, when the controller starts.     *)
InstallerFirstEvent ==
    /\ events # <<>>
    /\ events' = Tail(events)
    /\ IF Head(events).content = Nil \/ SchedulerConfig # NoThresholds
       THEN UNCHANGED configVars
       ELSE /\ SchedulerConfig' = UpdateScheduleConfig(SchedulerConfig, Head(events).content)
            /\ source' = Source(Head(events))
    /\ UNCHANGED <<store, watching, informed, req, edits, faults>>

(* InstallerEventHandler: Add and Update, of any object, whatever it is    *)
(* called; Delete only logs.                                               *)
InstallerEvent ==
    /\ events # <<>>
    /\ events' = Tail(events)
    /\ IF Head(events).content = Nil THEN UNCHANGED configVars
       ELSE /\ SchedulerConfig' = UpdateScheduleConfig(SchedulerConfig, Head(events).content)
            /\ source' = Source(Head(events))
    /\ UNCHANGED <<store, watching, informed, req, edits, faults>>

(* The resync of the informer: an Update for every object in its cache.    *)
Resync ==
    /\ events = <<>>
    /\ events' \in Notifications(Existing(informed), informed)
    /\ UNCHANGED <<store, informed, controlVars, req, edits, faults>>

WatchBreaks ==
    /\ watching
    /\ faults < MaxFaults
    /\ faults' = faults + 1
    /\ watching' = FALSE
    /\ UNCHANGED <<clusterVars, configVars, req, edits>>

(* The informer lists again, and notifies what is there and what is gone.  *)
Relist ==
    /\ ~watching
    /\ watching' = TRUE
    /\ informed' = store
    /\ \E q \in Notifications(Existing(store) \cup Existing(informed), store) :
          events' = events \o q
    /\ UNCHANGED <<store, configVars, req, edits, faults>>

(* The controller manager starts again, with an empty SchedulerConfig.     *)
Restart ==
    /\ faults < MaxFaults
    /\ faults' = faults + 1
    /\ watching' = TRUE
    /\ informed' = store
    /\ events' \in Notifications(Existing(store), store)
    /\ SchedulerConfig' = NoThresholds
    /\ source' = [f \in Fields |-> Nil]
    /\ UNCHANGED <<store, req, edits>>

-----------------------------------------------------------------------------
(* The requests.                                                           *)

Finish(r, status) ==
    req' = [req EXCEPT ![r] = [pc |-> "done", body |-> Nil, base |-> Nil,
                               status |-> status]]

(* The handler; the body may be JSON null.                                 *)
Arrive(r) ==
    /\ req[r].pc = "new"
    /\ \/ \E body \in Pointers \cup {Nil} :
             req' = [req EXCEPT ![r].pc = "get", ![r].body = body]
       \/ Finish(r, 400)
    /\ UNCHANGED <<clusterVars, controlVars, edits, faults>>

Stored == store[Installer]

(* Mutant: the second field is set only if the first is not named.         *)
SetOneThreshold(base, body) ==
    IF base = Blocked THEN base
    ELSE IF body["cpu"] # Absent THEN [base EXCEPT !["cpu"] = body["cpu"]]
    ELSE [f \in Fields |-> IF body[f] # Absent THEN body[f] ELSE base[f]]

(* The copy: the fields the request names are set, with the objects on the *)
(* way to them that are missing.  Where something else is on the way,      *)
(* jsonpath.Set returns an error, which is dropped, and sets nothing.      *)
SetThresholds(base, body) ==
    IF base = Blocked THEN base
    ELSE [f \in Fields |-> IF body[f] # Absent THEN body[f] ELSE base[f]]

Diff(base, copy) == {f \in Fields : Threshold(copy, f) # Threshold(base, f)}

(* The API server merges a patch into the object it holds by then; what is *)
(* in the way of the fields of the patch gives way to them.                *)
Merge(current, copy, fields) ==
    [f \in Fields |-> IF f \in fields THEN copy[f] ELSE Threshold(current, f)]

(* Mutant: an empty patch is sent too.                                     *)
GetAlwaysPatches(r) ==
    /\ req[r].pc = "get"
    /\ IF Stored = Nil \/ req[r].body = Nil THEN Finish(r, 500)
       ELSE req' = [req EXCEPT ![r].pc = "patch", ![r].base = Stored]
    /\ UNCHANGED <<clusterVars, controlVars, edits, faults>>

(* Get.  NotFound is ignored, and the nil object read next; so is a nil    *)
(* body.  An empty patch is not sent.                                      *)
Get(r) ==
    /\ req[r].pc = "get"
    /\ IF Stored = Nil \/ req[r].body = Nil THEN Finish(r, 500)
       ELSE IF Diff(Stored, SetThresholds(Stored, req[r].body)) = {} THEN Finish(r, 200)
       ELSE req' = [req EXCEPT ![r].pc = "patch", ![r].base = Stored]
    /\ UNCHANGED <<clusterVars, controlVars, edits, faults>>

(* Mutant: an Update with the whole copy in place of a patch.              *)
PatchedUpdates(r) == SetThresholds(req[r].base, req[r].body)

(* The object after the patch of a request.                                *)
Patched(r) ==
    LET copy == SetThresholds(req[r].base, req[r].body)
    IN  Merge(Stored, copy, Diff(req[r].base, copy))

(* Patch.  NotFound is ignored once more.                                  *)
Patch(r) ==
    /\ req[r].pc = "patch"
    /\ IF Stored = Nil THEN UNCHANGED clusterVars ELSE Change(Installer, Patched(r))
    /\ Finish(r, 200)
    /\ UNCHANGED <<controlVars, edits, faults>>

(* A call fails, before or after it took effect.                           *)
CallFails(r) ==
    /\ req[r].pc \in {"get", "patch"}
    /\ faults < MaxFaults
    /\ faults' = faults + 1
    /\ \/ UNCHANGED clusterVars
       \/ /\ req[r].pc = "patch" /\ Stored # Nil
          /\ Change(Installer, Patched(r))
    /\ Finish(r, 400)
    /\ UNCHANGED <<controlVars, edits>>

-----------------------------------------------------------------------------
ModifyAnalysisTaskConfig(r) == Arrive(r) \/ Get(r) \/ Patch(r) \/ CallFails(r)

Next ==
    \/ \E r \in Requests : ModifyAnalysisTaskConfig(r)
    \/ InstallerEvent \/ Resync \/ WatchBreaks \/ Relist \/ Restart
    \/ ExternalEdit

Spec == Init /\ [][Next]_vars

(* The informer lists again when its watch broke, notifies, and resyncs.   *)
FairSpec == Spec /\ WF_vars(InstallerEvent) /\ WF_vars(Relist) /\ WF_vars(Resync)
-----------------------------------------------------------------------------
(* Properties.                                                             *)

(* What an object of the cluster says of a field.                          *)
States(o, f) == store[o] # Nil /\ Threshold(store[o], f) \in Values

(* Once the notifications are handled, each threshold of the controller is *)
(* the one that the object it was read from states now, and is there if    *)
(* any object states one: no sequence of patches, edits, broken watches,   *)
(* deletions and restarts leaves it with an older value of that object     *)
(* (analysis_controller.go 179-193, 228-238).  Which object that is, among *)
(* several, is a matter of the last notification.                          *)
SourceDecides ==
    watching /\ events = <<>> =>
       \A o \in Objects, f \in Fields : States(o, f) =>
          /\ source[f] # Nil
          /\ source[f] = o => SchedulerConfig[f] = store[o][f]

(* A patch step changes only thresholds the request names and found        *)
(* different: it never takes back what another request or client made of   *)
(* the other one since it was read (interface.go 120-140).                 *)
OtherThresholdSurvives ==
    [][\A r \in Requests :
          req[r].pc = "patch" /\ req'[r].pc = "done" /\ store' # store =>
             \A f \in Fields :
                req[r].body[f] \in {Absent, req[r].base[f]} =>
                   store'[Installer][f] = Threshold(Stored, f)]_vars

(* An answer of success is true, whatever other clients did meanwhile: the *)
(* thresholds the request names, and did not find in ks-installer, are in  *)
(* it when it answers (interface.go 116-148).  Not so where the code drops *)
(* an error: for an object that is gone (141), or in which something else  *)
(* is on the way to the thresholds (119, 122).                             *)
ReadBy(r) == IF req[r].pc = "get" THEN Stored ELSE req[r].base

NamedThresholdsSet ==
    [][\A r \in Requests :
          /\ req[r].pc \in {"get", "patch"} /\ req'[r].status = 200
          /\ Stored # Nil /\ ReadBy(r) # Blocked
          => \A f \in Fields :
                req[r].body[f] \notin {Absent, ReadBy(r)[f]} =>
                   store'[Installer][f] = req[r].body[f]]_vars

(* Thresholds that stay in ks-installer reach the controller in the end,   *)
(* if no other object of the resource keeps stating another integer: the   *)
(* resync repairs what an object said that is gone (informers.go 85-87).   *)
Stays(f, v) ==
    /\ Stored # Nil /\ Threshold(Stored, f) = v
    /\ \A o \in Objects : States(o, f) => store[o][f] = v

ThresholdsApplied ==
    \A f \in Fields, v \in Values :
       (<>[]Stays(f, v)) => <>[](SchedulerConfig[f] = v)

=============================================================================
