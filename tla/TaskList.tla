------------------------------ MODULE TaskList ------------------------------
(***************************************************************************)
(* GET /analysis: a client reads the analysis tasks page by page while     *)
(* other clients create and delete tasks.                                  *)
(*                                                                         *)
(* Every request lists all tasks of the cluster, filters and sorts them    *)
(* and returns one page; nothing is kept from one request to the next, so  *)
(* each page is cut out of another list.  Modelled here: the parameters    *)
(* (ParseQueryParameter), the page (GetValidPagination), and DefaultList   *)
(* with its filter and comparison.  Integers are Width bits wide.  How     *)
(* sort.Slice goes about the list is left to the Go library: of it only    *)
(* what it is given and what it leaves is said (SortAssumption).           *)
(***************************************************************************)
EXTENDS Integers, FiniteSets, SequencesExt

CONSTANTS
    Keys,          \* the <<namespace, name>> of tasks; both are numbers
    LabelsOf,      \* the labels of each: a function from keys to values
    FilterSets,    \* the sets of filters <<field, value>> a client asks for
    NoInteger,     \* the text of a parameter that is missing or is no integer
    Limits,        \* values of "limit": integers or NoInteger
    Starts,        \* where a client that uses "start" begins: the same
    sortSlice(_, _, _), \* sort.Slice: a set of tasks, in a requested order
    DefaultLimit,  \* 10 in the code
    Width,         \* of an int: 64 in the code
    MaxClock,      \* bound on the seconds that pass
    MaxChanges,    \* bound on creations and deletions
    MaxRequests    \* bound on the requests of one reading

ASSUME WidthAssumption == Width \in Nat \ {0, 1}
ASSUME DefaultLimitAssumption ==
    DefaultLimit \in Nat \ {0} /\ DefaultLimit < 2 ^ (Width - 1)
(* There are fewer tasks than the largest int.                             *)
ASSUME KeysAssumption ==
    /\ Keys \subseteq Nat \X Nat /\ IsFiniteSet(Keys)
    /\ Cardinality(Keys) < 2 ^ (Width - 1) - 1
    /\ DOMAIN LabelsOf = Keys
ASSUME TextsAssumption ==
    /\ NoInteger \notin Int
    /\ Limits \subseteq Int \cup {NoInteger} /\ Starts \subseteq Int \cup {NoInteger}
ASSUME BoundsAssumption == MaxClock \in Nat /\ MaxChanges \in Nat /\ MaxRequests \in Nat

VARIABLES
    tasks,     \* the tasks of the cluster
    clock,     \* the seconds of creation timestamps
    changes,   \* how many tasks were created or deleted so far
    read       \* the client's reading: its query, what came, what happened

vars == <<tasks, clock, changes, read>>

Task == [key : Keys, time : 0..MaxClock]
Namespace(t) == t.key[1]
Name(t) == t.key[2]

(* A query, its page number or start left out.                             *)
Query == [by : {"page", "start"}, limit : Limits, filters : FilterSets,
          sortBy : {"name", "creationTimestamp"}, ascending : BOOLEAN]

-----------------------------------------------------------------------------
(* Integers as the machine and strconv.Atoi have them.                     *)

Half == 2 ^ (Width - 1)
Int_ == -Half..(Half - 1)
Wrap(n) == ((n + Half) % (2 * Half)) - Half

(* What Atoi makes of a parameter, with a value for what is no integer.    *)
Atoi(text, otherwise) == IF text = NoInteger THEN otherwise
                         ELSE IF text \in Int_ THEN text ELSE otherwise

(* "make sure that pagination is valid"                                    *)
newPagination(limit, offset) ==
    [limit  |-> IF limit < 0 THEN DefaultLimit ELSE limit,
     offset |-> IF offset < 0 THEN 0 ELSE offset]

(* What a new query has.                                                   *)
NoPagination == newPagination(-1, 0)

(* Mutant: pages are counted from zero.                                    *)
ParseFromZero(by, position, limitText) ==
    LET n     == Atoi(limitText, DefaultLimit)
        limit == IF n < -1 THEN DefaultLimit ELSE n
        page  == IF by = "page" THEN Atoi(position, 1) ELSE 0
        start == IF by = "start" THEN Atoi(position, 0) ELSE 0
    IN  IF page >= 1 THEN newPagination(limit, Wrap(page * limit))
        ELSE IF start >= 0 THEN newPagination(limit, start)
        ELSE NoPagination

(* Mutant: a page begins with the last task of the page before.            *)
ParseOverlap(by, position, limitText) ==
    LET n     == Atoi(limitText, DefaultLimit)
        limit == IF n < -1 THEN DefaultLimit ELSE n
        page  == IF by = "page" THEN Atoi(position, 1) ELSE 0
        start == IF by = "start" THEN Atoi(position, 0) ELSE 0
    IN  IF page >= 1 THEN newPagination(limit, Wrap((page - 1) * limit - 1))
        ELSE IF start >= 0 THEN newPagination(limit, start)
        ELSE NoPagination

(* The page a request asks for: "page" if it has one, or else "start".     *)
ParseQueryParameter(by, position, limitText) ==
    LET n     == Atoi(limitText, DefaultLimit)
        limit == IF n < -1 THEN DefaultLimit ELSE n
        page  == IF by = "page" THEN Atoi(position, 1) ELSE 0
        start == IF by = "start" THEN Atoi(position, 0) ELSE 0
    IN  IF page >= 1 THEN newPagination(limit, Wrap((page - 1) * limit))
        ELSE IF start >= 0 THEN newPagination(limit, start)
        ELSE NoPagination

(* Mutant: the page is not cut off.                                        *)
GetToTheEnd(p, total) ==
    IF p.limit < 0 \/ p.offset < 0 \/ p.offset > total THEN <<0, 0>>
    ELSE <<p.offset, total>>

(* Start and end of the page in a list of total tasks.                     *)
GetValidPagination(p, total) ==
    IF p.limit < 0 \/ p.offset < 0 \/ p.offset > total THEN <<0, 0>>
    ELSE LET end == Wrap(p.offset + p.limit)
         IN  <<p.offset, IF end > total THEN total ELSE end>>

-----------------------------------------------------------------------------
(* The list.                                                               *)

(* A label term: key=value, key!=value, or the key alone.  A term with !=  *)
(* does not select a task that lacks the key.                              *)
labelMatch(t, term) ==
    \E l \in LabelsOf[t.key] :
       /\ l.key = term.key
       /\ IF term.opposite THEN l.value # term.value ELSE term.value \in {"*", l.value}

(* "names" has the names themselves, "name" the names that contain a text; *)
(* a field that is not known selects every task.                           *)
DefaultObjectMetaFilter(t, filter) ==
    LET field == filter[1]
        value == filter[2]
    IN  CASE field = "namespace"         -> Namespace(t) = value
          [] field \in {"name", "names"} -> Name(t) \in value
          [] field = "label"             -> \A term \in value : labelMatch(t, term)
          [] OTHER                       -> TRUE

Matches(t, filters) == \A f \in filters : DefaultObjectMetaFilter(t, f)

(* True if left is greater than right.                                     *)
DefaultObjectMetaCompare(left, right, sortBy) ==
    IF sortBy = "name" \/ left.time = right.time THEN Name(left) > Name(right)
    ELSE left.time > right.time

(* Mutant: ascending order is left to the client.                          *)
LessDescending(left, right, q) == DefaultObjectMetaCompare(left, right, q.sortBy)

(* What sort.Slice is given: for the ascending order the negation, which   *)
(* is true of equal tasks both ways.                                       *)
Less(left, right, q) ==
    IF q.ascending THEN ~DefaultObjectMetaCompare(left, right, q.sortBy)
    ELSE DefaultObjectMetaCompare(left, right, q.sortBy)

(* sort.Slice leaves every task once, and, as far as the comparison says   *)
(* so one way only, the lesser one first.  Nothing is said of equal tasks: *)
(* the sort is not stable, and where one of them comes depends on which    *)
(* others are in the list, but not on anything else, for the API server    *)
(* lists the tasks by namespace and name and the sort draws no lots.       *)
ASSUME SortAssumption ==
    \A S \in SUBSET Task, by \in {"name", "creationTimestamp"}, asc \in BOOLEAN :
       (\A t, u \in S : t.key = u.key => t = u) =>
          LET s == sortSlice(S, by, asc)
              q == [sortBy |-> by, ascending |-> asc]
          IN  /\ s \in Seq(S) /\ Range(s) = S /\ IsInjective(s)
              /\ \A i, j \in DOMAIN s :
                    i < j => Less(s[i], s[j], q) \/ ~Less(s[j], s[i], q)

(* The tasks that pass the filters, sorted.                                *)
Sorted(S, q) == sortSlice({t \in S : Matches(t, q.filters)}, q.sortBy, q.ascending)

-----------------------------------------------------------------------------
Nobody == [pc |-> "idle"]

Init ==
    /\ clock = IF MaxClock = 0 THEN 0 ELSE 1
    /\ \E K \in SUBSET Keys : \E time \in [K -> 0..clock] :
          tasks = {[key |-> k, time |-> time[k]] : k \in K}
    /\ changes = 0
    /\ read = Nobody

(* A second passes.                                                        *)
Tick ==
    /\ clock < MaxClock
    /\ clock' = clock + 1
    /\ UNCHANGED <<tasks, changes, read>>

Reading == read.pc = "reading"

(* Another client creates a task, or deletes one.                          *)
Create(k) ==
    /\ changes < MaxChanges
    /\ k \notin {t.key : t \in tasks}
    /\ LET t == [key |-> k, time |-> clock]
       IN  /\ tasks' = tasks \cup {t}
           /\ read' = IF Reading THEN [read EXCEPT !.created = @ \cup {t}] ELSE read
    /\ changes' = changes + 1
    /\ UNCHANGED clock

Delete(t) ==
    /\ changes < MaxChanges
    /\ t \in tasks
    /\ tasks' = tasks \ {t}
    /\ read' = IF Reading THEN [read EXCEPT !.deleted = @ \cup {t}] ELSE read
    /\ changes' = changes + 1
    /\ UNCHANGED clock

(* The client begins, at page 1 or at a start.                             *)
Begin(q, position) ==
    /\ read = Nobody
    /\ position \in IF q.by = "page" THEN {1} ELSE Starts
    /\ read' = [pc |-> "reading", query |-> q, first |-> position,
                position |-> position, requests |-> 0, seen |-> <<>>,
                began |-> tasks, created |-> {}, deleted |-> {}, status |-> 0]
    /\ UNCHANGED <<tasks, clock, changes>>

(* The client has what it wanted; it, or another one, may begin again.     *)
Leave ==
    /\ read.pc = "done"
    /\ read' = Nobody
    /\ UNCHANGED <<tasks, clock, changes>>

(* Where the client asks next: the next page, or behind the tasks it got.  *)
NextPosition(got) ==
    IF read.query.by = "page" THEN read.position + 1
    ELSE Atoi(read.position, 0) + got

(* What DefaultList returns; it panics, and the container answers 500,     *)
(* when the end of the page lies before its start.                         *)
DefaultList(objects, q, pagination) ==
    LET list  == Sorted(objects, q)
        range == GetValidPagination(pagination, Len(list))
    IN  IF range[2] < range[1] THEN [status |-> 500, page |-> <<>>]
        ELSE [status |-> 200, page |-> SubSeq(list, range[1] + 1, range[2])]

(* GET /analysis.  The client stops at an error and at an empty page.      *)
ListAnalysisTask ==
    /\ Reading
    /\ read.requests < MaxRequests
    /\ LET q == read.query
           answer == DefaultList(tasks, q,
                         ParseQueryParameter(q.by, read.position, q.limit))
           got    == answer.page
       IN  read' = IF got = <<>> THEN [read EXCEPT !.pc = "done", !.status = answer.status]
                   ELSE [read EXCEPT !.seen = @ \o got, !.status = 200,
                                     !.position = NextPosition(Len(got)),
                                     !.requests = @ + 1]
    /\ UNCHANGED <<tasks, clock, changes>>

(* The list cannot be read: the request is answered with 400, and the      *)
(* client may ask for the page again.                                      *)
ListFails ==
    /\ Reading
    /\ read' = [read EXCEPT !.status = 400]
    /\ UNCHANGED <<tasks, clock, changes>>

Next ==
    \/ Tick
    \/ \E k \in Keys : Create(k)
    \/ \E t \in tasks : Delete(t)
    \/ \E q \in Query : \E position \in Starts \cup {1} : Begin(q, position)
    \/ Leave
    \/ ListAnalysisTask
    \/ ListFails

Spec == Init /\ [][Next]_vars

-----------------------------------------------------------------------------
(* Properties.                                                             *)

Readings ==
    [pc : {"reading", "done"}, query : Query, first : Int \cup {NoInteger},
     position : Int \cup {NoInteger}, requests : 0..MaxRequests, seen : Seq(Task),
     began : SUBSET Task, created : SUBSET Task, deleted : SUBSET Task,
     status : {0, 200, 400, 500}]

(* The first page of a start before the list has the default length.       *)
Limit(q, first) == ParseQueryParameter(q.by, first, q.limit).limit

(* Every variable is of its kind; what the client was given are tasks that *)
(* were there when it began or were created since, and, but for a start    *)
(* before the list, no page was longer than the limit.                     *)
TypeOK ==
    /\ tasks \subseteq Task
    /\ \A t, u \in tasks : t.key = u.key => t = u
    /\ clock \in 0..MaxClock /\ changes \in 0..MaxChanges
    /\ read \in Readings \cup {Nobody}
    /\ read # Nobody =>
         /\ Range(read.seen) \subseteq read.began \cup read.created
         /\ \/ Len(read.seen) <= read.requests * Limit(read.query, read.first)
            \/ read.query.by = "start" /\ Atoi(read.first, 0) < 0

Finished == read.pc = "done" /\ read.status = 200

(* The client began at the beginning, with a limit that is a number of     *)
(* tasks or that the code replaces with the default.  A limit of -1 is     *)
(* taken as the default for the length of a page, but not for where the    *)
(* page begins, and a limit of 0 gives empty pages.                        *)
Whole ==
    /\ Atoi(read.first, 0) \in IF read.query.by = "page" THEN {1} ELSE {0}
    /\ Atoi(read.query.limit, DefaultLimit) \notin {-1, 0}

Of(S) == {t \in S : Matches(t, read.query.filters)}

(* t comes before u in the order that was asked for ("sort result in       *)
(* ascending or descending order").                                        *)
Precedes(t, u, q) == IF q.ascending THEN DefaultObjectMetaCompare(u, t, q.sortBy)
                     ELSE DefaultObjectMetaCompare(t, u, q.sortBy)

(* Neither does: they have one name, and one time if the order is by time. *)
Alike(t, u, q) == t # u /\ ~Precedes(t, u, q) /\ ~Precedes(u, t, q)

(* A task that could come on the client's pages as well is like t.         *)
HasTwin(t) == \E u \in Of(read.began \cup read.created) : Alike(t, u, read.query)

(* A reading to the end, during which no task that matches was deleted,    *)
(* has every task that matched when it began: ParseQueryParameter and      *)
(* GetValidPagination cut lists that differ into pages without a gap.  It  *)
(* misses one only if that has a twin and another task was created: then   *)
(* sort.Slice may put the twins the other way round between two pages.     *)
NothingMissed ==
    Finished /\ Whole /\ Of(read.deleted) = {} =>
       \A t \in Of(read.began) :
          t \in Range(read.seen) \/ (HasTwin(t) /\ Of(read.created) # {})

(* A reading gives a task twice only if one that comes earlier was created *)
(* meanwhile, or if the task has a twin and the list was changed at all.   *)
RepeatsExplained ==
    read # Nobody /\ Whole =>
       \A i, j \in DOMAIN read.seen :
          i # j /\ read.seen[i] = read.seen[j] =>
             \/ \E c \in Of(read.created) : Precedes(c, read.seen[i], read.query)
             \/ HasTwin(read.seen[i]) /\ Of(read.created \cup read.deleted) # {}

(* The documented order: unless a task that matches is created meanwhile,  *)
(* the pages put together are sorted, whatever is deleted.                 *)
PagesInOrder ==
    read # Nobody /\ Whole /\ Of(read.created) = {} =>
       \A i, j \in DOMAIN read.seen :
          i < j => ~Precedes(read.seen[j], read.seen[i], read.query)

(* "make sure that pagination is valid" (query/types.go:74): no request    *)
(* asks for a page that DefaultList cannot cut out.                        *)
PageInRange == read # Nobody => read.status # 500

=============================================================================
