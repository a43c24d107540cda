--------------------------- MODULE ServerSuccession ---------------------------
(***************************************************************************)
(* What the controller-manager promises the cluster it works on, whatever  *)
(* happens to its configuration: one server is at work after the other,    *)
(* never two, each with the configuration in force when it began.  That    *)
(* configuration changes only while no server is at work, and never goes   *)
(* back to an older one; and once the process is leaving, no server        *)
(* begins.  ControllerManager implements it.                               *)
(***************************************************************************)
EXTENDS Naturals

CONSTANT Configs   \* what may be in force, with the number of its version

VARIABLES
    conf,      \* the configuration in force
    workers,   \* the servers at work, each with what it works with
    status     \* "up", "leaving" when Run has returned, or "over"

vars == <<conf, workers, status>>

Init ==
    /\ conf \in Configs
    /\ workers = {}
    /\ status = "up"

Adopt ==
    /\ status = "up"
    /\ workers = {} /\ workers' = {}
    /\ conf' \in Configs /\ conf'.version >= conf.version
    /\ UNCHANGED status

Begin ==
    /\ status = "up"
    /\ workers = {}
    /\ \E w \in workers' : workers' = {w} /\ w.conf = conf
    /\ UNCHANGED <<conf, status>>

Withdraw ==
    /\ workers # {} /\ workers' = {}
    /\ UNCHANGED <<conf, status>>

Leave ==
    /\ status = "up" /\ status' = "leaving"
    /\ workers' = {}
    /\ UNCHANGED conf

End ==
    /\ status # "over" /\ status' = "over"
    /\ workers' = {}
    /\ UNCHANGED conf

Next == Adopt \/ Begin \/ Withdraw \/ Leave \/ End

Spec == Init /\ [][Next]_vars
=============================================================================
