----------------------------- MODULE MCTaskList -----------------------------
(* Values for TLC: three tasks, two of which have the same name, and one   *)
(* of which lacks the label.                                               *)
EXTENDS TaskList

MCKeys == {<<1, 1>>, <<1, 2>>, <<2, 1>>}
MCLabelsOf == [k \in MCKeys |-> IF k = <<1, 2>> THEN {}
                                ELSE {[key |-> "app", value |-> IF k[1] = 1 THEN "web" ELSE "db"]}]
MCFilterSets ==
    { {},
      {<<"label", {[key |-> "app", value |-> "web", opposite |-> TRUE]}>>,
       <<"status", "Running">>},
      {<<"name", {1}>>, <<"namespace", 1>>} }
MCLimits == {NoInteger, 1, 15}
MCStarts == {NoInteger}
MCBigLimits == {2, 15}
MCAnyStarts == {0, 1}

(* A sort that is not stable, already on the short lists of TLC: it leaves *)
(* equal tasks by key, or the other way round, as the list's length is     *)
(* even or odd.  sort.Slice of Go 1.18 does so from seven tasks on, where  *)
(* it first compares tasks that are six places apart.                      *)
MCSortSlice(S, sortBy, ascending) ==
    LET q == [sortBy |-> sortBy, ascending |-> ascending]
        ByKey(t, u) == \/ Namespace(t) < Namespace(u)
                       \/ Namespace(t) = Namespace(u) /\ Name(t) < Name(u)
        Comes(t, u) == IF Less(t, u, q) # Less(u, t, q) THEN Less(t, u, q)
                       ELSE IF Cardinality(S) % 2 = 0 THEN ByKey(t, u) ELSE ByKey(u, t)
    IN  [i \in 1..Cardinality(S) |->
            CHOOSE t \in S : Cardinality({u \in S : Comes(u, t)}) = i - 1]
=============================================================================
