------------------------ MODULE NotifyThresholdsProofs ------------------------
(***************************************************************************)
(* Proofs about NotifyThresholds, for every set of objects and requests:   *)
(* its types, that requests keep what they do not name and set what they   *)
(* do, and that the controller ends up with what the object says that each *)
(* threshold was read from.                                                *)
(***************************************************************************)
EXTENDS NotifyThresholds, FiniteSetTheorems, SequenceTheorems, TLAPS

(* A batch of notifications is a sequence of them.                         *)
LEMMA NotificationTypes ==
    ASSUME NEW S \in SUBSET Objects, NEW c \in [Objects -> Content \cup {Nil}],
           NEW e \in Notifications(S, c)
    PROVE  e \in Seq(Event)
<1>1. Cardinality(S) \in Nat
    BY ObjectsAssumption, FS_Subset, FS_CardinalityType
<1>2. PICK q \in SetToSeqs(S) :
         e = [i \in DOMAIN q |-> [object |-> q[i], content |-> c[q[i]]]]
    BY DEF Notifications
<1>3. q \in [1..Cardinality(S) -> S]
    BY DEF SetToSeqs
<1>4. e \in [1..Cardinality(S) -> Event]
    BY <1>2, <1>3 DEF Event
<1> QED
    BY <1>1, <1>4, SeqDef

(* What setting thresholds and merging make is a content.                  *)
LEMMA SetContent ==
    ASSUME NEW base \in Thresholds, NEW body \in Pointers
    PROVE  /\ SetThresholds(base, body) \in Thresholds
           /\ \A f \in Fields : SetThresholds(base, body)[f] =
                                  IF body[f] # Absent THEN body[f] ELSE base[f]
BY BlockedAssumption DEF SetThresholds, Thresholds, Pointers

LEMMA ThresholdType ==
    ASSUME NEW content \in Content, NEW f \in Fields
    PROVE  Threshold(content, f) \in Values \cup {Absent, Mistyped}
BY DEF Threshold, Content, Thresholds

(* The thresholds of an object that has them.                              *)
LEMMA ThresholdOf ==
    ASSUME NEW content \in Thresholds, NEW f
    PROVE  Threshold(content, f) = content[f]
BY BlockedAssumption DEF Threshold

LEMMA MergeContent ==
    ASSUME NEW current \in Content, NEW copy \in Thresholds, NEW fields
    PROVE  /\ Merge(current, copy, fields) \in Thresholds
           /\ \A f \in Fields : Merge(current, copy, fields)[f] =
                 IF f \in fields THEN copy[f] ELSE Threshold(current, f)
<1>1. \A f \in Fields : Threshold(current, f) \in Values \cup {Absent, Mistyped}
    BY ThresholdType
<1> QED
    BY <1>1 DEF Merge, Thresholds

LEMMA ExistingObjects ==
    ASSUME NEW c PROVE Existing(c) \in SUBSET Objects
BY DEF Existing

LEMMA InitTypes == Init => TypeOK
<1> SUFFICES ASSUME Init PROVE TypeOK
    OBVIOUS
<1>0. store \in [Objects -> Content \cup {Nil}]
    BY ContentsAssumption DEF Init
<1>1. events \in Seq(Event)
    BY <1>0, NotificationTypes, ExistingObjects DEF Init
<1>2. req \in [Requests -> Request]
    BY DEF Init, Request
<1>3. SchedulerConfig \in Pointers /\ source \in [Fields -> Objects \cup {Nil}]
    BY DEF Init, NoThresholds, Pointers
<1>4. edits \in 0..MaxEdits /\ faults \in 0..MaxFaults
    BY BoundAssumption DEF Init
<1> QED
    BY <1>0, <1>1, <1>2, <1>3, <1>4 DEF Init, TypeOK

(* A change keeps the variables of the cluster of their types.             *)
LEMMA ChangeTypes ==
    ASSUME TypeOK, NEW o \in Objects, NEW c \in Content \cup {Nil}, Change(o, c)
    PROVE  /\ store' \in [Objects -> Content \cup {Nil}]
           /\ informed' \in [Objects -> Content \cup {Nil}]
           /\ events' \in Seq(Event)
<1>1. [object |-> o, content |-> c] \in Event
    BY DEF Event
<1>2. store' \in [Objects -> Content \cup {Nil}]
    BY DEF TypeOK, Change
<1>3. informed' \in [Objects -> Content \cup {Nil}]
    BY DEF TypeOK, Change
<1>4. events' \in Seq(Event)
    <2>1. Append(events, [object |-> o, content |-> c]) \in Seq(Event)
        BY <1>1, AppendProperties DEF TypeOK
    <2> QED
        BY <2>1 DEF TypeOK, Change
<1> QED
    BY <1>2, <1>3, <1>4

(* What TypeOK says of one request.                                        *)
Consistent(q) ==
    q.pc = "patch" =>
       /\ q.body # Nil /\ q.base \in Thresholds
       /\ \E f \in Fields : q.body[f] \notin {Absent, q.base[f]}

LEMMA TypeParts ==
    TypeOK <=> /\ store \in [Objects -> Content \cup {Nil}]
               /\ watching \in BOOLEAN
               /\ informed \in [Objects -> Content \cup {Nil}]
               /\ events \in Seq(Event)
               /\ SchedulerConfig \in Pointers
               /\ source \in [Fields -> Objects \cup {Nil}]
               /\ req \in [Requests -> Request]
               /\ \A r \in Requests : Consistent(req[r])
               /\ edits \in 0..MaxEdits
               /\ faults \in 0..MaxFaults
BY DEF TypeOK, Consistent

(* A request that ends.                                                    *)
LEMMA FinishTypes ==
    ASSUME TypeOK, NEW r \in Requests, NEW status \in {200, 400, 500}, Finish(r, status)
    PROVE  /\ req' \in [Requests -> Request]
           /\ req'[r].pc = "done"
           /\ \A q \in Requests : Consistent(req'[q])
<1>1. [pc |-> "done", body |-> Nil, base |-> Nil, status |-> status] \in Request
    BY DEF Request
<1>2. req' \in [Requests -> Request] /\ \A q \in Requests \ {r} : req'[q] = req[q]
    BY <1>1 DEF Finish, TypeOK
<1>3. req'[r].pc = "done"
    BY <1>1 DEF Finish, TypeOK
<1> QED
    BY <1>2, <1>3, TypeParts DEF Consistent

(* A request about to patch has the values it needs.                       *)
LEMMA PatchedTypes ==
    ASSUME TypeOK, NEW r \in Requests, req[r].pc = "patch", Stored # Nil
    PROVE  /\ Stored \in Content /\ Patched(r) \in Thresholds
           /\ req[r].base \in Thresholds /\ req[r].body \in Pointers
<1>1. Stored \in Content
    BY ObjectsAssumption DEF TypeOK, Stored
<1>2. req[r].base \in Thresholds /\ req[r].body \in Pointers
    BY DEF TypeOK, Request
<1> QED
    BY <1>1, <1>2, SetContent, MergeContent DEF Patched

-----------------------------------------------------------------------------
(* The steps of a request.                                                 *)

(* A record keeps its kind when fields get values of their kinds.          *)
LEMMA BodyField ==
    ASSUME NEW P, NEW B, NEW C, NEW D, NEW pc \in P, NEW body \in B,
           NEW q \in [pc : P, body : B, base : C, status : D]
    PROVE  [q EXCEPT !.pc = pc, !.body = body] \in [pc : P, body : B, base : C, status : D]
OBVIOUS

LEMMA BaseField ==
    ASSUME NEW P, NEW B, NEW C, NEW D, NEW pc \in P, NEW base \in C,
           NEW q \in [pc : P, body : B, base : C, status : D]
    PROVE  [q EXCEPT !.pc = pc, !.base = base] \in [pc : P, body : B, base : C, status : D]
OBVIOUS

LEMMA RequestFields ==
    ASSUME NEW q \in Request
    PROVE  /\ \A body \in Pointers \cup {Nil} :
                [q EXCEPT !.pc = "get", !.body = body] \in Request
           /\ \A base \in Content \cup {Nil} :
                [q EXCEPT !.pc = "patch", !.base = base] \in Request
<1> DEFINE pcs    == {"new", "get", "patch", "done"}
           bodies == Pointers \cup {Nil}
           bases  == Content \cup {Nil}
           states == {0, 200, 400, 500}
<1>1. Request = [pc : pcs, body : bodies, base : bases, status : states]
    BY DEF Request
<1>2. "get" \in pcs /\ "patch" \in pcs
    OBVIOUS
<1> HIDE DEF pcs, bodies, bases, states
<1>3. \A body \in bodies : [q EXCEPT !.pc = "get", !.body = body] \in Request
    BY <1>1, <1>2, BodyField
<1>4. \A base \in bases : [q EXCEPT !.pc = "patch", !.base = base] \in Request
    BY <1>1, <1>2, BaseField
<1> QED
    BY <1>3, <1>4 DEF bodies, bases

LEMMA ArriveTypes ==
    ASSUME TypeOK, NEW r \in Requests, Arrive(r)
    PROVE  TypeOK'
<1>0. UNCHANGED <<store, informed, events, watching, SchedulerConfig, source, edits, faults>>
    BY DEF Arrive, clusterVars, controlVars, configVars
<1>1. CASE Finish(r, 400)
    BY <1>0, <1>1, FinishTypes, TypeParts DEF TypeOK, Consistent
<1>2. ASSUME NEW body \in Pointers \cup {Nil},
             req' = [req EXCEPT ![r].pc = "get", ![r].body = body]
      PROVE  TypeOK'
    <2>0. req[r] \in Request
        BY DEF TypeOK
    <2>1. [req[r] EXCEPT !.pc = "get", !.body = body] \in Request
        BY <2>0, <1>2, RequestFields
    <2>2. req' \in [Requests -> Request]
        BY <1>2, <2>1 DEF TypeOK
    <2>3. /\ \A q \in Requests \ {r} : req'[q] = req[q]
          /\ req'[r].pc = "get"
        BY <1>2 DEF TypeOK, Request
    <2> QED
        BY <1>0, <2>2, <2>3 DEF TypeOK
<1> QED
    BY <1>1, <1>2 DEF Arrive

LEMMA GetTypes ==
    ASSUME TypeOK, NEW r \in Requests, Get(r)
    PROVE  TypeOK'
<1>0. UNCHANGED <<store, informed, events, watching, SchedulerConfig, source, edits, faults>>
    BY DEF Get, clusterVars, controlVars, configVars
<1>1. ASSUME NEW status \in {200, 500}, Finish(r, status)
      PROVE  TypeOK'
    BY <1>0, <1>1, FinishTypes DEF TypeOK, Consistent
<1>2. ASSUME Stored # Nil, req[r].body # Nil,
             Diff(Stored, SetThresholds(Stored, req[r].body)) # {},
             req' = [req EXCEPT ![r].pc = "patch", ![r].base = Stored]
      PROVE  TypeOK'
    <2>1. Stored \in Content /\ req[r] \in Request /\ req[r].body \in Pointers
        BY <1>2, ObjectsAssumption DEF TypeOK, Stored, Request
    <2>2. [req[r] EXCEPT !.pc = "patch", !.base = Stored] \in Request
        BY <2>1, RequestFields
    <2>3. req' \in [Requests -> Request]
        BY <1>2, <2>2 DEF TypeOK
    <2>4. /\ \A q \in Requests \ {r} : req'[q] = req[q]
          /\ req'[r].pc = "patch" /\ req'[r].body = req[r].body /\ req'[r].base = Stored
        BY <1>2, <2>1 DEF TypeOK, Request
    <2>5. PICK f \in Fields :
             Threshold(SetThresholds(Stored, req[r].body), f) # Threshold(Stored, f)
        BY <1>2 DEF Diff
    <2>6. Stored \in Thresholds
        BY <2>1, <2>5 DEF SetThresholds, Content
    <2>7. req[r].body[f] \notin {Absent, Stored[f]}
        BY <2>1, <2>5, <2>6, SetContent, ThresholdOf
    <2>8. Consistent(req'[r])
        BY <1>2, <2>4, <2>6, <2>7 DEF Consistent
    <2> QED
        BY <1>0, <2>3, <2>4, <2>8 DEF TypeOK, Consistent
<1> QED
    BY <1>1, <1>2 DEF Get

LEMMA PatchTypes ==
    ASSUME TypeOK, NEW r \in Requests, Patch(r)
    PROVE  TypeOK'
<1>1. /\ req' \in [Requests -> Request]
      /\ \A q \in Requests : Consistent(req'[q])
    BY FinishTypes DEF Patch
<1>2. /\ store' \in [Objects -> Content \cup {Nil}]
      /\ informed' \in [Objects -> Content \cup {Nil}]
      /\ events' \in Seq(Event)
    BY PatchedTypes, ChangeTypes, ObjectsAssumption DEF Patch, clusterVars, TypeOK, Content
<1>3. UNCHANGED <<watching, SchedulerConfig, source, edits, faults>>
    BY DEF Patch, controlVars, configVars
<1> QED
    BY <1>1, <1>2, <1>3 DEF TypeOK, Consistent

LEMMA CallFailsTypes ==
    ASSUME TypeOK, NEW r \in Requests, CallFails(r)
    PROVE  TypeOK'
<1>1. /\ req' \in [Requests -> Request]
      /\ \A q \in Requests : Consistent(req'[q])
    BY FinishTypes DEF CallFails
<1>2. /\ store' \in [Objects -> Content \cup {Nil}]
      /\ informed' \in [Objects -> Content \cup {Nil}]
      /\ events' \in Seq(Event)
    BY PatchedTypes, ChangeTypes, ObjectsAssumption DEF CallFails, clusterVars, TypeOK, Content
<1>3. UNCHANGED <<watching, SchedulerConfig, source, edits>> /\ faults' \in 0..MaxFaults
    BY BoundAssumption DEF CallFails, controlVars, configVars, TypeOK
<1> QED
    BY <1>1, <1>2, <1>3 DEF TypeOK, Consistent

-----------------------------------------------------------------------------
(* The other steps.                                                        *)

LEMMA ControllerTypes ==
    ASSUME TypeOK, InstallerEvent \/ Resync \/ WatchBreaks \/ Relist \/ Restart
    PROVE  TypeOK'
<1>1. CASE InstallerEvent
    <2>1. Head(events) \in Event /\ Tail(events) \in Seq(Event)
        BY <1>1, HeadTailProperties DEF InstallerEvent, TypeOK
    <2>2. SchedulerConfig' \in Pointers
        BY <1>1, <2>1 DEF InstallerEvent, UpdateScheduleConfig, GetInt64, configVars, TypeOK,
                          Pointers
    <2>3. source' \in [Fields -> Objects \cup {Nil}]
        BY <1>1, <2>1 DEF InstallerEvent, Source, configVars, TypeOK, Event
    <2> QED
        BY <1>1, <2>1, <2>2, <2>3 DEF InstallerEvent, TypeOK
<1>2. CASE Resync
    BY <1>2, NotificationTypes, ExistingObjects DEF Resync, TypeOK, controlVars, configVars
<1>3. CASE WatchBreaks
    <2>1. /\ UNCHANGED <<store, informed, events, SchedulerConfig, source, req, edits>>
          /\ watching' \in BOOLEAN
        BY <1>3 DEF WatchBreaks, clusterVars, configVars
    <2>2. faults' \in 0..MaxFaults
        BY <1>3, BoundAssumption DEF WatchBreaks, TypeOK
    <2> QED
        BY <2>1, <2>2 DEF TypeOK
<1>4. CASE Relist
    <2>1. PICK q \in Notifications(Existing(store) \cup Existing(informed), store) :
             events' = events \o q
        BY <1>4 DEF Relist
    <2>2. q \in Seq(Event)
        BY NotificationTypes, ExistingObjects DEF TypeOK
    <2>3. events' \in Seq(Event)
        BY <2>1, <2>2, ConcatProperties DEF TypeOK
    <2> QED
        BY <1>4, <2>3 DEF Relist, TypeOK, configVars
<1>5. CASE Restart
    <2>1. events' \in Seq(Event)
        BY <1>5, NotificationTypes, ExistingObjects DEF Restart, TypeOK
    <2>2. SchedulerConfig' \in Pointers /\ source' \in [Fields -> Objects \cup {Nil}]
        BY <1>5 DEF Restart, NoThresholds, Pointers
    <2> QED
        BY <1>5, <2>1, <2>2, BoundAssumption DEF Restart, TypeOK
<1> QED
    BY <1>1, <1>2, <1>3, <1>4, <1>5

LEMMA ExternalEditTypes ==
    ASSUME TypeOK, ExternalEdit
    PROVE  TypeOK'
<1>1. PICK o \in Objects, c \in Content \cup {Nil} : Change(o, c)
    BY ContentsAssumption DEF ExternalEdit
<1> QED
    BY <1>1, ChangeTypes, BoundAssumption DEF ExternalEdit, TypeOK, controlVars, configVars

LEMMA NextTypes ==
    ASSUME TypeOK, [Next]_vars
    PROVE  TypeOK'
<1>1. CASE UNCHANGED vars
    BY <1>1 DEF TypeOK, vars, clusterVars, controlVars, configVars
<1> QED
    BY <1>1, ArriveTypes, GetTypes, PatchTypes, CallFailsTypes, ControllerTypes,
       ExternalEditTypes DEF Next, ModifyAnalysisTaskConfig

(* The variables keep their types, and a request about to patch asks for   *)
(* something other than what it read.                                      *)
THEOREM TypeCorrect == Spec => []TypeOK
<1>1. Init => TypeOK
    BY InitTypes
<1>2. TypeOK /\ [Next]_vars => TypeOK'
    BY NextTypes
<1> QED
    BY <1>1, <1>2, PTL DEF Spec

-----------------------------------------------------------------------------
(***************************************************************************)
(* The way to SourceDecides.  A watch that is intact keeps the informer up *)
(* to date; of the notifications about an object that are left, the last   *)
(* one says what the informer has; and of the objects without any left,    *)
(* the controller has what SourceDecides says, with the informer's cache   *)
(* in place of the cluster.                                                *)
(***************************************************************************)

Fresh == watching => informed = store

Pending(o) == \E i \in DOMAIN events : events[i].object = o

(* The last notification of a sequence about each object says what c has.  *)
LastSays(q, c) ==
    \A i \in DOMAIN q :
       (\A j \in DOMAIN q : j > i => q[j].object # q[i].object)
          => q[i].content = c[q[i].object]

Known(o, f) == informed[o] # Nil /\ Threshold(informed[o], f) \in Values

Heeded ==
    \A o \in Objects, f \in Fields :
       Known(o, f) /\ ~Pending(o) =>
          /\ source[f] # Nil
          /\ source[f] = o => SchedulerConfig[f] = Threshold(informed[o], f)

Progress == Fresh /\ LastSays(events, informed) /\ Heeded

IInv == TypeOK /\ Progress

LEMMA IInvImplies == IInv => SourceDecides
<1> SUFFICES ASSUME IInv, watching, events = <<>>, NEW o \in Objects, NEW f \in Fields,
                    States(o, f)
             PROVE  /\ source[f] # Nil
                    /\ source[f] = o => SchedulerConfig[f] = store[o][f]
    BY DEF SourceDecides
<1>1. ~Pending(o)
    BY DEF Pending
<1>2. Known(o, f) /\ informed[o] = store[o]
    BY DEF IInv, Progress, Fresh, States, Known
<1>3. store[o] \in Content /\ Threshold(store[o], f) \in Values
    BY DEF IInv, TypeOK, States
<1>4. Threshold(store[o], f) = store[o][f]
    BY <1>3, ValuesAssumption DEF Threshold
<1> QED
    BY <1>1, <1>2, <1>4 DEF IInv, Progress, Heeded

(* A batch has one notification about each of its objects.                 *)
LEMMA Batch ==
    ASSUME NEW S \in SUBSET Objects, NEW c \in [Objects -> Content \cup {Nil}],
           NEW e \in Notifications(S, c)
    PROVE  /\ e \in Seq(Event)
           /\ \A i \in DOMAIN e : e[i].object \in S /\ e[i].content = c[e[i].object]
           /\ \A o \in S : \E i \in DOMAIN e : e[i].object = o
<1>1. PICK q \in SetToSeqs(S) :
         e = [i \in DOMAIN q |-> [object |-> q[i], content |-> c[q[i]]]]
    BY DEF Notifications
<1>2. IsFiniteSet(S) /\ Cardinality(S) \in Nat
    BY ObjectsAssumption, FS_Subset, FS_CardinalityType
<1> DEFINE D == 1..Cardinality(S)
<1>3. q \in [D -> S] /\ \A i, j \in D : i # j => q[i] # q[j]
    BY DEF SetToSeqs
<1>4. q \in Injection(D, S)
    BY <1>3 DEF Injection, IsInjective
<1>5. IsFiniteSet(D) /\ Cardinality(D) = Cardinality(S)
    BY <1>2, FS_Interval
<1>6. q \in Surjection(D, S)
    BY <1>2, <1>4, <1>5, FS_Injection
<1>7. \A o \in S : \E i \in D : q[i] = o
    BY <1>6 DEF Surjection
<1>8. DOMAIN e = D /\ \A i \in D : e[i] = [object |-> q[i], content |-> c[q[i]]]
    BY <1>1, <1>3
<1> QED
    BY <1>3, <1>7, <1>8, NotificationTypes

(* A change whose watch is intact is notified last.                        *)
LEMMA ChangeProgress ==
    ASSUME IInv, NEW o \in Objects, NEW c \in Content \cup {Nil}, Change(o, c),
           UNCHANGED <<watching, configVars>>
    PROVE  Progress'
<1>0. /\ events \in Seq(Event) /\ Len(events) \in Nat
      /\ informed \in [Objects -> Content \cup {Nil}]
      /\ UNCHANGED <<watching, SchedulerConfig, source>>
    BY LenProperties DEF IInv, TypeOK, configVars
<1>1. CASE ~watching
  <2>1. UNCHANGED <<informed, events>>
    BY <1>1 DEF Change
  <2> QED
    BY <1>0, <1>1, <2>1 DEF IInv, Progress, Fresh, LastSays, Heeded, Known, Pending
<1>2. CASE watching
  <2> DEFINE e == [object |-> o, content |-> c]
             n == Len(events)
  <2>1. /\ store' = [store EXCEPT ![o] = c]
        /\ informed' = [informed EXCEPT ![o] = c]
        /\ events' = Append(events, e)
    BY <1>2 DEF Change
  <2>2. Fresh'
    BY <1>0, <1>2, <2>1 DEF IInv, Progress, Fresh
  <2>3. e \in Event /\ e.object = o /\ e.content = c
    BY DEF Event
  <2> HIDE DEF e
  <2>4. /\ DOMAIN events = 1..n /\ DOMAIN events' = 1..(n + 1)
        /\ events'[n + 1] = e
        /\ \A i \in 1..n : events'[i] = events[i] /\ events[i].object \in Objects
    <3>1. /\ events' \in Seq(Event) /\ Len(events') = n + 1 /\ events'[n + 1] = e
          /\ \A i \in 1..n : events'[i] = events[i]
      BY <1>0, <2>1, <2>3, AppendProperties
    <3>2. \A i \in 1..n : events[i] \in Event
      BY <1>0, ElementOfSeq
    <3> QED
      BY <1>0, <3>1, <3>2, LenProperties DEF Event
  <2>5. \A p \in Objects : informed'[p] = IF p = o THEN c ELSE informed[p]
    BY <1>0, <2>1
  <2> HIDE DEF n
  <2>6. LastSays(events', informed')
    <3> SUFFICES ASSUME NEW i \in 1..(n + 1),
                        \A j \in 1..(n + 1) : j > i => events'[j].object # events'[i].object
                 PROVE  events'[i].content = informed'[events'[i].object]
      BY <2>4 DEF LastSays
    <3>1. CASE i = n + 1
      BY <2>3, <2>4, <2>5, <3>1
    <3>2. CASE i # n + 1
      <4>1. i \in 1..n /\ n + 1 \in 1..(n + 1) /\ n + 1 > i
        BY <1>0, <3>2 DEF n
      <4>2. events'[i] = events[i] /\ events[i].object \in Objects /\ events[i].object # o
        BY <2>3, <2>4, <4>1
      <4>3. \A j \in 1..n : j > i => events[j].object # events[i].object
        BY <1>0, <2>4, <4>1 DEF n
      <4>4. events[i].content = informed[events[i].object]
        BY <2>4, <4>1, <4>3 DEF IInv, Progress, LastSays
      <4> QED
        BY <2>5, <4>2, <4>4
    <3> QED
      BY <3>1, <3>2
  <2>7. Heeded'
    <3> SUFFICES ASSUME NEW p \in Objects, NEW f \in Fields, Known(p, f)', ~Pending(p)'
                 PROVE  /\ source'[f] # Nil
                        /\ source'[f] = p =>
                              SchedulerConfig'[f] = Threshold(informed'[p], f)
      BY DEF Heeded
    <3>1. p # o /\ ~Pending(p)
      <4>1. n + 1 \in DOMAIN events' /\ DOMAIN events \subseteq DOMAIN events'
        BY <1>0, <2>4 DEF n
      <4> QED
        BY <2>3, <2>4, <4>1 DEF Pending
    <3>2. informed'[p] = informed[p] /\ Known(p, f)
      BY <2>5, <3>1 DEF Known
    <3> QED
      BY <1>0, <3>1, <3>2 DEF IInv, Progress, Heeded
  <2> QED
    BY <2>2, <2>6, <2>7 DEF Progress
<1> QED
  BY <1>1, <1>2

(* A notification that is handled is heeded if it is the last one about    *)
(* its object.                                                             *)
LEMMA EventProgress ==
    ASSUME IInv, InstallerEvent
    PROVE  Progress'
<1> DEFINE e == Head(events)
           n == Len(events)
<1>1. /\ events \in Seq(Event) /\ events # <<>> /\ e \in Event /\ n \in Nat /\ n > 0
      /\ events' = Tail(events) /\ e = events[1]
      /\ UNCHANGED <<store, watching, informed>>
    BY HeadTailProperties, LenProperties, EmptySeq DEF InstallerEvent, IInv, TypeOK
<1>2. /\ DOMAIN events = 1..n /\ DOMAIN events' = 1..(n - 1)
      /\ \A i \in 1..(n - 1) : events'[i] = events[i + 1]
  <2>1. events' \in Seq(Event) /\ Len(events') = n - 1
    BY <1>1, HeadTailProperties
  <2> QED
    BY <1>1, <2>1, HeadTailProperties, LenProperties
<1>3. e.object \in Objects /\ e.content \in Content \cup {Nil}
    BY <1>1 DEF Event
<1>4. /\ e.content = Nil => UNCHANGED <<SchedulerConfig, source>>
      /\ e.content # Nil =>
            /\ SchedulerConfig' = UpdateScheduleConfig(SchedulerConfig, e.content)
            /\ source' = Source(e)
    BY DEF InstallerEvent, configVars
<1> HIDE DEF e, n
<1>5. Fresh'
    BY <1>1 DEF IInv, Progress, Fresh
<1>6. LastSays(events', informed')
  <2> SUFFICES ASSUME NEW i \in 1..(n - 1),
                      \A j \in 1..(n - 1) : j > i => events'[j].object # events'[i].object
               PROVE  events'[i].content = informed'[events'[i].object]
    BY <1>2 DEF LastSays
  <2>1. i + 1 \in 1..n /\ events'[i] = events[i + 1]
    BY <1>1, <1>2
  <2>2. ASSUME NEW j \in 1..n, j > i + 1 PROVE events[j].object # events[i + 1].object
    <3>1. j - 1 \in 1..(n - 1) /\ j - 1 > i /\ (j - 1) + 1 = j
      BY <1>1, <2>2
    <3> QED
      BY <1>2, <2>1, <3>1
  <2>3. events[i + 1].content = informed[events[i + 1].object]
    BY <1>2, <2>1, <2>2 DEF IInv, Progress, LastSays
  <2> QED
    BY <1>1, <2>1, <2>3
<1>7. Heeded'
  <2> SUFFICES ASSUME NEW o \in Objects, NEW f \in Fields, Known(o, f)', ~Pending(o)'
               PROVE  /\ source'[f] # Nil
                      /\ source'[f] = o => SchedulerConfig'[f] = Threshold(informed[o], f)
    BY <1>1 DEF Heeded
  <2>1. Known(o, f)
    BY <1>1 DEF Known
  <2>2. \A i \in 2..n : events[i].object # o
    <3> TAKE i \in 2..n
    <3>1. i - 1 \in 1..(n - 1) /\ (i - 1) + 1 = i
      BY <1>1
    <3> QED
      BY <1>2, <3>1 DEF Pending
  <2>3. CASE e.object = o
    <3>1. 1 \in DOMAIN events /\ \A j \in DOMAIN events : j > 1 => events[j].object # o
      BY <1>1, <1>2, <2>2
    <3>2. e.content = informed[o]
      BY <1>1, <2>3, <3>1 DEF IInv, Progress, LastSays
    <3>3. e.content # Nil /\ Threshold(e.content, f) \in Values
      BY <2>1, <3>2 DEF Known
    <3>4. source'[f] = o /\ SchedulerConfig'[f] = Threshold(informed[o], f)
      BY <1>4, <2>3, <3>2, <3>3 DEF Source, UpdateScheduleConfig, GetInt64
    <3>5. o # Nil
      BY NilAssumption
    <3> QED
      BY <3>4, <3>5
  <2>4. CASE e.object # o
    <3>1. ~Pending(o)
      BY <1>1, <1>2, <2>2, <2>4 DEF Pending
    <3>2. /\ source[f] # Nil
          /\ source[f] = o => SchedulerConfig[f] = Threshold(informed[o], f)
      BY <2>1, <3>1 DEF IInv, Progress, Heeded
    <3>3. CASE e.content # Nil /\ Threshold(e.content, f) \in Values
      <4>1. source'[f] = e.object
        BY <1>4, <3>3 DEF Source
      <4> QED
        BY <1>3, <2>4, <4>1, NilAssumption
    <3>4. CASE e.content # Nil /\ Threshold(e.content, f) \notin Values
      <4>1. source'[f] = source[f] /\ SchedulerConfig'[f] = SchedulerConfig[f]
        BY <1>4, <3>4 DEF Source, UpdateScheduleConfig, GetInt64
      <4> QED
        BY <3>2, <4>1
    <3>5. CASE e.content = Nil
      BY <1>4, <3>2, <3>5
    <3> QED
      BY <3>3, <3>4, <3>5
  <2> QED
    BY <2>3, <2>4
<1> QED
  BY <1>5, <1>6, <1>7 DEF Progress

(* Notifications about all that the informer has leave nothing to heed.    *)
LEMMA AllNotified ==
    ASSUME NEW c \in [Objects -> Content \cup {Nil}],
           NEW e \in Notifications(Existing(c), c)
    PROVE  /\ LastSays(e, c)
           /\ \A o \in Objects : c[o] # Nil => \E i \in DOMAIN e : e[i].object = o
<1>1. Existing(c) \in SUBSET Objects
    BY DEF Existing
<1>2. /\ \A i \in DOMAIN e : e[i].content = c[e[i].object]
      /\ \A o \in Existing(c) : \E i \in DOMAIN e : e[i].object = o
    BY <1>1, Batch
<1> QED
    BY <1>2 DEF LastSays, Existing

LEMMA NotifiedProgress ==
    ASSUME Fresh, LastSays(events, informed),
           \A o \in Objects : informed[o] # Nil => \E i \in DOMAIN events : events[i].object = o
    PROVE  Progress
BY DEF Progress, Heeded, Known, Pending

LEMMA RelistProgress ==
    ASSUME IInv, Relist
    PROVE  Progress'
<1> DEFINE S == Existing(store) \cup Existing(informed)
           n == Len(events)
<1>1. PICK q \in Notifications(S, store) : events' = events \o q
    BY DEF Relist
<1>2. /\ informed' = store /\ store' = store /\ UNCHANGED <<SchedulerConfig, source>>
      /\ store \in [Objects -> Content \cup {Nil}] /\ events \in Seq(Event)
      /\ informed \in [Objects -> Content \cup {Nil}] /\ n \in Nat
      /\ S \in SUBSET Objects
    BY ExistingObjects, LenProperties DEF Relist, IInv, TypeOK, configVars
<1> HIDE DEF S
<1>3. /\ q \in Seq(Event) /\ Len(q) \in Nat
      /\ \A i \in DOMAIN q : q[i].object \in S /\ q[i].content = store[q[i].object]
      /\ \A o \in S : \E i \in DOMAIN q : q[i].object = o
    BY <1>2, Batch, LenProperties
<1>4. /\ DOMAIN events = 1..n /\ DOMAIN q = 1..Len(q) /\ DOMAIN events' = 1..(n + Len(q))
      /\ \A i \in 1..(n + Len(q)) : events'[i] = IF i <= n THEN events[i] ELSE q[i - n]
      /\ \A i \in 1..n : events[i].object \in Objects
  <2>1. /\ events' \in Seq(Event) /\ Len(events') = n + Len(q)
        /\ \A i \in 1..(n + Len(q)) : events'[i] = IF i <= n THEN events[i] ELSE q[i - n]
    BY <1>1, <1>2, <1>3, ConcatProperties
  <2>2. \A i \in 1..n : events[i] \in Event
    BY <1>2, ElementOfSeq
  <2> QED
    BY <1>2, <1>3, <2>1, <2>2, LenProperties DEF Event
<1>5. \A o \in Objects \ S : store[o] = Nil /\ informed[o] = Nil
    BY DEF S, Existing
<1> HIDE DEF n
<1>6. \A o \in S : \E i \in 1..(n + Len(q)) : i > n /\ events'[i].object = o
  <2> TAKE o \in S
  <2>1. PICK i \in 1..Len(q) : q[i].object = o
    BY <1>3, <1>4
  <2>2. /\ n + i \in 1..(n + Len(q)) /\ n + i > n /\ ~(n + i <= n) /\ (n + i) - n = i
    BY <1>2, <1>3
  <2> QED
    BY <1>4, <2>1, <2>2
<1>7. LastSays(events', informed')
  <2> SUFFICES ASSUME NEW i \in 1..(n + Len(q)),
                      \A j \in 1..(n + Len(q)) :
                         j > i => events'[j].object # events'[i].object
               PROVE  events'[i].content = store[events'[i].object]
    BY <1>2, <1>4 DEF LastSays
  <2>1. CASE i > n
    <3>1. i - n \in 1..Len(q) /\ ~(i <= n)
      BY <1>2, <1>3, <2>1
    <3> QED
      BY <1>3, <1>4, <3>1
  <2>2. CASE i <= n
    <3>1. i \in 1..n /\ events'[i] = events[i]
      BY <1>2, <1>4, <2>2
    <3>2. events[i].object \notin S
      <4> SUFFICES ASSUME events[i].object \in S PROVE FALSE
        OBVIOUS
      <4>1. PICK j \in 1..(n + Len(q)) : j > n /\ events'[j].object = events[i].object
        BY <1>6
      <4>2. j > i
        BY <1>2, <1>3, <2>2, <4>1
      <4> QED
        BY <3>1, <4>1, <4>2
    <3>3. \A j \in 1..n : j > i => events[j].object # events[i].object
      BY <1>2, <1>3, <1>4, <3>1
    <3>4. events[i].content = informed[events[i].object]
      BY <1>4, <3>1, <3>3 DEF IInv, Progress, LastSays
    <3> QED
      BY <1>4, <1>5, <3>1, <3>2, <3>4
  <2> QED
    BY <1>2, <2>1, <2>2
<1>8. Heeded'
  <2>1. \A o \in S : Pending(o)'
    BY <1>4, <1>6 DEF Pending
  <2>2. \A o \in Objects, f \in Fields : Known(o, f)' => o \in S
    BY <1>2, <1>5 DEF Known
  <2> QED
    BY <2>1, <2>2 DEF Heeded
<1> QED
  BY <1>2, <1>7, <1>8 DEF Progress, Fresh

LEMMA NextIInv ==
    ASSUME IInv, [Next]_vars
    PROVE  IInv'
<1>0. TypeOK'
    BY NextTypes DEF IInv
<1>1. ASSUME UNCHANGED <<store, informed, events, watching, SchedulerConfig, source>>
      PROVE  Progress'
  <2>1. Fresh' /\ LastSays(events, informed)'
    BY <1>1 DEF IInv, Progress, Fresh, LastSays
  <2>2. Heeded'
    BY <1>1 DEF IInv, Progress, Heeded, Known, Pending
  <2> QED
    BY <2>1, <2>2 DEF Progress
<1>2. ASSUME NEW r \in Requests, ModifyAnalysisTaskConfig(r)
      PROVE  Progress'
    <2>1. CASE Arrive(r) \/ Get(r)
        BY <1>0, <1>1, <2>1 DEF Arrive, Get, clusterVars, controlVars, configVars, IInv
    <2>2. CASE Patch(r) \/ CallFails(r)
        <3>1. UNCHANGED <<watching, configVars>>
            BY <2>2 DEF Patch, CallFails, controlVars
        <3>2. CASE UNCHANGED clusterVars
            BY <1>0, <1>1, <3>1, <3>2 DEF clusterVars, configVars, IInv
        <3>3. CASE req[r].pc = "patch" /\ Stored # Nil /\ Change(Installer, Patched(r))
            BY <3>1, <3>3, PatchedTypes, ChangeProgress, ObjectsAssumption DEF IInv, Content
        <3> QED
            BY <2>2, <3>2, <3>3 DEF Patch, CallFails
    <2> QED
        BY <1>2, <2>1, <2>2 DEF ModifyAnalysisTaskConfig
<1>3. CASE ExternalEdit
  <2>1. PICK o \in Objects, c \in Contents \cup {Nil} : Change(o, c)
    BY <1>3 DEF ExternalEdit
  <2>2. UNCHANGED <<watching, configVars>> /\ c \in Content \cup {Nil}
    BY <1>3, ContentsAssumption DEF ExternalEdit, controlVars
  <2> QED
    BY <1>0, <2>1, <2>2, ChangeProgress DEF IInv
<1>4. CASE WatchBreaks
  <2>1. UNCHANGED <<store, informed, events, SchedulerConfig, source>> /\ watching' = FALSE
    BY <1>4 DEF WatchBreaks, clusterVars, configVars
  <2>2. Fresh' /\ LastSays(events, informed)'
    BY <2>1 DEF IInv, Progress, Fresh, LastSays
  <2>3. Heeded'
    BY <2>1 DEF IInv, Progress, Heeded, Known, Pending
  <2> QED
    BY <1>0, <2>2, <2>3 DEF IInv, Progress
<1>5. CASE UNCHANGED vars
    BY <1>0, <1>1, <1>5 DEF vars, clusterVars, controlVars, configVars, IInv
<1>6. CASE Resync
  <2>1. /\ UNCHANGED <<store, watching, informed>>
        /\ informed \in [Objects -> Content \cup {Nil}]
        /\ events' \in Notifications(Existing(informed), informed)
    BY <1>6 DEF Resync, controlVars, IInv, TypeOK
  <2>2. /\ LastSays(events', informed)
        /\ \A o \in Objects : informed[o] # Nil => \E i \in DOMAIN events' : events'[i].object = o
    BY <2>1, AllNotified
  <2>3. Fresh' /\ LastSays(events, informed)'
    BY <2>1, <2>2 DEF IInv, Progress, Fresh, LastSays
  <2>4. Heeded'
    BY <2>1, <2>2 DEF Heeded, Known, Pending
  <2> QED
    BY <1>0, <2>3, <2>4 DEF IInv, Progress
<1>7. CASE Restart
  <2>1. /\ informed' = store /\ store' = store
        /\ store \in [Objects -> Content \cup {Nil}]
        /\ events' \in Notifications(Existing(store), store)
    BY <1>7 DEF Restart, IInv, TypeOK
  <2>2. /\ LastSays(events', store)
        /\ \A o \in Objects : store[o] # Nil => \E i \in DOMAIN events' : events'[i].object = o
    BY <2>1, AllNotified
  <2>3. Fresh' /\ LastSays(events, informed)'
    BY <2>1, <2>2 DEF Fresh, LastSays
  <2>4. Heeded'
    BY <2>1, <2>2 DEF Heeded, Known, Pending
  <2> QED
    BY <1>0, <2>3, <2>4 DEF IInv, Progress
<1> QED
    BY <1>0, <1>2, <1>3, <1>4, <1>5, <1>6, <1>7, EventProgress, RelistProgress DEF Next, IInv

LEMMA InitIInv == Init => IInv
<1> SUFFICES ASSUME Init PROVE IInv
    OBVIOUS
<1>1. TypeOK /\ Fresh
    BY InitTypes DEF Init, Fresh
<1>2. /\ informed \in [Objects -> Content \cup {Nil}]
      /\ events \in Notifications(Existing(informed), informed)
    BY <1>1 DEF Init, TypeOK
<1>3. /\ LastSays(events, informed)
      /\ \A o \in Objects : informed[o] # Nil => \E i \in DOMAIN events : events[i].object = o
    BY <1>2, AllNotified
<1> QED
    BY <1>1, <1>3, NotifiedProgress DEF IInv

(* Whatever the objects of the resource are, and however many requests,    *)
(* edits, broken watches and restarts there were: a controller that has    *)
(* handled its notifications has, of each threshold, what the object says  *)
(* now that it was read from.                                              *)
THEOREM SourcesDecide == Spec => []SourceDecides
<1>1. Init => IInv
    BY InitIInv
<1>2. IInv /\ [Next]_vars => IInv'
    BY NextIInv
<1>3. IInv => SourceDecides
    BY IInvImplies
<1> QED
    BY <1>1, <1>2, <1>3, PTL DEF Spec

-----------------------------------------------------------------------------
(* Requests.                                                               *)

(* What a request makes of the object it found and of the one it patches.  *)
LEMMA Patches ==
    ASSUME TypeOK, NEW r \in Requests, req[r].pc = "patch", Stored # Nil, NEW f \in Fields
    PROVE  Patched(r)[f] = IF req[r].body[f] \in {Absent, req[r].base[f]}
                           THEN Threshold(Stored, f) ELSE req[r].body[f]
<1> DEFINE base == req[r].base
           body == req[r].body
           copy == SetThresholds(base, body)
<1>1. Stored \in Content /\ base \in Thresholds /\ body \in Pointers
    BY PatchedTypes
<1> HIDE DEF base, body
<1>2. copy \in Thresholds /\ copy[f] = IF body[f] # Absent THEN body[f] ELSE base[f]
    BY <1>1, SetContent
<1> HIDE DEF copy
<1>3. f \in Diff(base, copy) <=> body[f] \notin {Absent, base[f]}
    BY <1>1, <1>2, ThresholdOf DEF Diff
<1>4. Merge(Stored, copy, Diff(base, copy))[f] =
         IF f \in Diff(base, copy) THEN copy[f] ELSE Threshold(Stored, f)
    BY <1>1, <1>2, MergeContent
<1> QED
    BY <1>2, <1>3, <1>4 DEF Patched, base, body, copy

(* A patch never takes back a threshold it does not set, for any number of *)
(* concurrent requests.                                                    *)
THEOREM OthersKept == Spec => OtherThresholdSurvives
<1> DEFINE A == \A r \in Requests :
                   req[r].pc = "patch" /\ req'[r].pc = "done" /\ store' # store =>
                      \A f \in Fields :
                         req[r].body[f] \in {Absent, req[r].base[f]} =>
                            store'[Installer][f] = Threshold(Stored, f)
<1>1. TypeOK /\ [Next]_vars => [A]_vars
    <2> SUFFICES ASSUME TypeOK, Next, NEW r \in Requests, req[r].pc = "patch",
                        req'[r].pc = "done", store' # store, NEW f \in Fields,
                        req[r].body[f] \in {Absent, req[r].base[f]}
                 PROVE  store'[Installer][f] = Threshold(Stored, f)
        OBVIOUS
    <2>1. PICK q \in Requests : Patch(q) \/ CallFails(q)
        BY DEF Next, ModifyAnalysisTaskConfig, Arrive, Get, InstallerEvent, Resync,
               WatchBreaks, Relist, Restart, ExternalEdit, clusterVars
    <2>2. q = r
        BY <2>1 DEF Patch, CallFails, Finish, TypeOK
    <2>3. Stored # Nil /\ Change(Installer, Patched(r))
        BY <2>1, <2>2 DEF Patch, CallFails, clusterVars
    <2>4. store'[Installer] = Patched(r)
        BY <2>3, ObjectsAssumption DEF Change, TypeOK
    <2> QED
        BY <2>3, <2>4, Patches
<1>2. Spec => []TypeOK
    BY TypeCorrect
<1> QED
    BY <1>1, <1>2, PTL DEF Spec, OtherThresholdSurvives

(* A request has no status before its answer.                              *)
Unanswered == \A r \in Requests : req[r].pc # "done" => req[r].status = 0

LEMMA InitUnanswered == Init => Unanswered
BY DEF Init, Unanswered

LEMMA NextUnanswered ==
    ASSUME TypeOK, Unanswered, [Next]_vars
    PROVE  Unanswered'
<1>1. ASSUME NEW r \in Requests, ModifyAnalysisTaskConfig(r)
      PROVE  Unanswered'
    <2>1. req \in [Requests -> Request]
        BY DEF TypeOK
    <2>2. ASSUME NEW status, Finish(r, status)
          PROVE  Unanswered'
        BY <2>1, <2>2 DEF Finish, Unanswered
    <2>3. ASSUME req[r].pc = "new", NEW body, req' = [req EXCEPT ![r].pc = "get", ![r].body = body]
          PROVE  Unanswered'
        BY <2>1, <2>3 DEF Unanswered, Request
    <2>4. ASSUME req[r].pc = "get", NEW base, req' = [req EXCEPT ![r].pc = "patch", ![r].base = base]
          PROVE  Unanswered'
        BY <2>1, <2>4 DEF Unanswered, Request
    <2> QED
        BY <1>1, <2>2, <2>3, <2>4 DEF ModifyAnalysisTaskConfig, Arrive, Get, Patch, CallFails
<1>2. CASE UNCHANGED req
    BY <1>2 DEF Unanswered
<1> QED
    BY <1>1, <1>2 DEF Next, InstallerEvent, Resync, WatchBreaks, Relist, Restart,
                      ExternalEdit, vars

(* A request that is answered with success has what it asked for in the    *)
(* object, for any number of concurrent requests and other clients: unless *)
(* the object is gone, or the error of jsonpath.Set was dropped.           *)
THEOREM NamedAreSet == Spec => NamedThresholdsSet
<1> DEFINE A == \A r \in Requests :
                   /\ req[r].pc \in {"get", "patch"} /\ req'[r].status = 200
                   /\ Stored # Nil /\ ReadBy(r) # Blocked
                   => \A f \in Fields :
                         req[r].body[f] \notin {Absent, ReadBy(r)[f]} =>
                            store'[Installer][f] = req[r].body[f]
<1>1. TypeOK /\ Unanswered /\ [Next]_vars => [A]_vars
    <2> SUFFICES ASSUME TypeOK, Unanswered, Next, NEW r \in Requests,
                        req[r].pc \in {"get", "patch"}, req'[r].status = 200,
                        Stored # Nil, ReadBy(r) # Blocked, NEW f \in Fields,
                        req[r].body[f] \notin {Absent, ReadBy(r)[f]}
                 PROVE  store'[Installer][f] = req[r].body[f]
        OBVIOUS
    <2>1. Get(r) \/ Patch(r) \/ CallFails(r)
        <3>1. req' # req
            BY DEF Unanswered
        <3>2. PICK q \in Requests : ModifyAnalysisTaskConfig(q)
            BY <3>1 DEF Next, InstallerEvent, Resync, WatchBreaks, Relist, Restart, ExternalEdit
        <3>3. q # r => req'[r] = req[r]
            BY <3>2 DEF ModifyAnalysisTaskConfig, Arrive, Get, Patch, CallFails, Finish, TypeOK
        <3>4. q = r
            BY <3>3 DEF Unanswered
        <3> QED
            BY <3>2, <3>4 DEF ModifyAnalysisTaskConfig, Arrive
    <2>2. \A status : Finish(r, status) => req'[r].status = status
        BY DEF Finish, TypeOK
    <2>3. Get(r) \/ Patch(r)
        BY <2>1, <2>2 DEF CallFails
    <2>4. CASE Get(r)
        <3> DEFINE copy == SetThresholds(Stored, req[r].body)
        <3>1. req' # [req EXCEPT ![r].pc = "patch", ![r].base = Stored]
            BY <2>4 DEF Unanswered, Get, TypeOK, Request
        <3>2. req[r].pc = "get" /\ req[r].body # Nil /\ Diff(Stored, copy) = {}
            BY <2>2, <2>4, <3>1 DEF Get
        <3>3. Stored \in Thresholds /\ req[r].body \in Pointers
            BY <3>2, ObjectsAssumption DEF TypeOK, Request, Stored, ReadBy, Content
        <3>4. copy \in Thresholds /\ copy[f] = req[r].body[f] /\ copy[f] # Stored[f]
            BY <3>2, <3>3, SetContent DEF ReadBy
        <3>5. f \in Diff(Stored, copy)
            BY <3>3, <3>4, ThresholdOf DEF Diff
        <3> QED
            BY <3>2, <3>5
    <2>5. CASE Patch(r)
        <3>1. req[r].pc = "patch"
            BY <2>5 DEF Patch
        <3>2. store'[Installer] = Patched(r)
            BY <2>5, ObjectsAssumption DEF Patch, Change, TypeOK
        <3> QED
            BY <3>1, <3>2, Patches DEF ReadBy
    <2> QED
        BY <2>3, <2>4, <2>5
<1>2. Spec => []TypeOK
    BY TypeCorrect
<1>3. Init => Unanswered
    BY InitUnanswered
<1>4. TypeOK /\ Unanswered /\ [Next]_vars => Unanswered'
    BY NextUnanswered
<1> QED
    BY <1>1, <1>2, <1>3, <1>4, PTL DEF Spec, NamedThresholdsSet
=============================================================================
