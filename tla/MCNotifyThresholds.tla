------------------------- MODULE MCNotifyThresholds -------------------------
(* Values for TLC: contents with both thresholds, with one and no integer, *)
(* with the other alone, and with something on the way to them.            *)
EXTENDS NotifyThresholds

CONSTANTS v1, v2

Both(c, m) == [f \in Fields |-> IF f = "cpu" THEN c ELSE m]

MCContents ==
    {Both(v1, v1), Both(v2, v1), Both(Mistyped, v2), Both(v2, Absent), Blocked}
=============================================================================
