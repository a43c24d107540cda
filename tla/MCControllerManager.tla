------------------------- MODULE MCControllerManager -------------------------
(* Instances of ControllerManager: two kubeconfigs that can be read and one *)
(* that is gone, in the file or on the command line.                       *)
EXTENDS ControllerManager

Paths == {"", "file.conf", "flag.conf", "gone.conf"}
Files == {"file.conf", "flag.conf"}
Limits == {0, 2}

Says(form, kubeconfig, burst) ==
    [form |-> form, kubernetes |-> [kubeconfig |-> kubeconfig, qps |-> 2, burst |-> burst]]

Good      == Says("config", "file.conf", 2)
Gone      == Says("config", "gone.conf", 2)
Burstless == Says("config", "file.conf", 0)

AllContents  == {Good, Gone, Burstless, Says("mistyped", "", 2), Says("unparsable", "", 2)}
GoodContents == {Good}

Gate(disable, name) == [disable |-> disable, name |-> name]

Plain   == [kubeconfig |-> Unset, gates |-> <<Star>>]
Flagged == [kubeconfig |-> "flag.conf", gates |-> <<Gate(TRUE, "analysis"), Star>>]
Typo    == [kubeconfig |-> Unset, gates |-> <<Gate(TRUE, "analytics")>>]

AllLines     == {Plain, Flagged, Typo}
PlainLine    == {Plain}
FlaggedLine  == {Flagged}
=============================================================================
