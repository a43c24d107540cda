-------------------------- MODULE KubernetesClient --------------------------
(***************************************************************************)
(* The options that say how to reach Kubernetes (pkg/client/k8s/options.go) *)
(* and the client that is built from them (pkg/client/k8s/kubernetes.go):   *)
(* one clientset for each API group in use, all over one configuration.    *)
(* Both processes start from here.                                         *)
(***************************************************************************)
EXTENDS Integers

CONSTANTS
    Kubeconfigs,  \* the paths an option may name, "" for none
    Existing,     \* those at which there is a file
    Readable,     \* those a configuration can be read from; "" inside a pod
    HomeConfig,   \* the path .kube/config in the home directory
    Rates,        \* what qps and burst may be
    Unset         \* a flag that is not given

ASSUME KubeconfigAssumption ==
    /\ "" \in Kubeconfigs /\ "" \notin Existing
    /\ HomeConfig \in Kubeconfigs
    /\ Existing \subseteq Kubeconfigs
    /\ Readable \subseteq Existing \cup {""}
    /\ Unset \notin Kubeconfigs

(* The default rate stands for 1e6 requests in a second.                   *)
DefaultRate == 2

ASSUME RateAssumption == Rates \subseteq Int /\ DefaultRate \in Rates

KubernetesOptions == [kubeconfig : Kubeconfigs, qps : Rates, burst : Rates]

(* The kubeconfig of the user, if there is one; inside a pod, none.        *)
NewKubernetesOptions ==
    [kubeconfig |-> IF HomeConfig \in Existing THEN HomeConfig ELSE "",
     qps        |-> DefaultRate,
     burst      |-> DefaultRate]

(* The options Validate refuses: a kubeconfig is only looked for, and the  *)
(* rates are not looked at.                                                *)
ValidateKubernetes(k) == k.kubeconfig = "" \/ k.kubeconfig \in Existing

(* The flag is bound to the field of the options that were loaded, and     *)
(* parsing it overwrites the field.                                        *)
AddFlags(kubeconfig, k) ==
    IF kubeconfig = Unset THEN k ELSE [k EXCEPT !.kubeconfig = kubeconfig]

(* The kubeconfig can be read into a rest.Config.                          *)
BuildConfigFromFlags(kubeconfig) == kubeconfig \in Readable

(* dynamic and discovery make a REST client directly.  Every other         *)
(* clientset makes a rate limiter of its own first, in its copy of the     *)
(* configuration, and has none to make without a burst.                    *)
Direct     == {"dynamic", "discovery"}
Clientsets == Direct \cup {"kubernetes", "schedule", "crane", "apiextensions", "ext"}

NewForConfig(s, c) == s \in Direct \/ c.qps <= 0 \/ c.burst > 0

(* The client, known by its configuration: none when one of its clientsets *)
(* cannot be made.                                                         *)
NewKubernetesClientWithConfig(c) ==
    IF \A s \in Clientsets : NewForConfig(s, c) THEN {c} ELSE {}

NewKubernetesClient(k) ==
    IF BuildConfigFromFlags(k.kubeconfig)
    THEN NewKubernetesClientWithConfig(
            [kubeconfig |-> k.kubeconfig, qps |-> k.qps, burst |-> k.burst])
    ELSE {}
=============================================================================
