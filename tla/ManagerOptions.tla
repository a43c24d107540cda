--------------------------- MODULE ManagerOptions ---------------------------
(***************************************************************************)
(* The options of the controller manager (cmd/controller/app/options): what *)
(* the configuration file says, what the command line says over it, and    *)
(* the selectors of controllers.                                           *)
(***************************************************************************)
EXTENDS KubernetesClient, Sequences

CONSTANTS
    CommandLines  \* the command lines the process may be started with

(* allControllers.                                                         *)
AllControllers == {"analysis"}

(* The selector 'foo' or '-foo'; '*' is a selector too.                    *)
Selector == [disable : BOOLEAN, name : STRING]
Star     == [disable |-> FALSE, name |-> "*"]

(* What the flags give: the kubeconfig, and the list of selectors, which   *)
(* is <<Star>> when the flag is not given.                                 *)
CommandLine == [kubeconfig : Kubeconfigs \cup {Unset}, gates : Seq(Selector)]

ASSUME CommandLineAssumption == CommandLines \subseteq CommandLine

(* The flags are parsed once, into the options the file gave.              *)
Flags(f, k) == AddFlags(f.kubeconfig, k)

(* The names in the selectors that no controller has; '-*' names one.      *)
UnknownControllers(gates) ==
    {gates[i].name : i \in {j \in DOMAIN gates : gates[j] # Star}} \ AllControllers

(* Validate: no error.                                                     *)
Validate(f, k) == ValidateKubernetes(k) /\ UnknownControllers(f.gates) = {}
=============================================================================
