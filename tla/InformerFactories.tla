------------------------- MODULE InformerFactories -------------------------
(***************************************************************************)
(* The informer factories of a server (pkg/informers): one for each client *)
(* there is, with the informers its users ask for, all started by one call. *)
(***************************************************************************)

Factories ==
    {"informerFactory", "scheduleInformerFactory", "apiextensionsInformerFactory",
     "extensionsInformerFactory", "dynamicInformerFactory", "craneInformer"}

(* The client each is made for; that of the extensions is made when there  *)
(* is a client for Kubernetes, from another one.                           *)
NewInformerFactories(clients) ==
    {f \in Factories :
        CASE f = "informerFactory"              -> "kubernetes" \in clients
          [] f = "scheduleInformerFactory"      -> "schedule" \in clients
          [] f = "apiextensionsInformerFactory" -> "apiextensions" \in clients
          [] f = "extensionsInformerFactory"    -> "kubernetes" \in clients
          [] f = "dynamicInformerFactory"       -> "dynamic" \in clients
          [] OTHER                              -> "crane" \in clients}

(* The informers the analysis controller has a handler on.                 *)
Informers == {"deployments", "namespaces", "clusterconfigurations", "analytics",
              "recommendations"}

(* Where it gets them from.                                                *)
FactoryOf(informer) ==
    CASE informer \in {"deployments", "namespaces"}      -> "informerFactory"
      [] informer \in {"analytics", "recommendations"}   -> "craneInformer"
      [] OTHER                                           -> "dynamicInformerFactory"

(* Mutant: one of the factories is forgotten.                              *)
StartStaticFactories(factories, asked) ==
    {i \in asked : FactoryOf(i) \in factories \ {"dynamicInformerFactory"}}

(* Start runs the informers asked of the factories so far, and no informer *)
(* that is asked for later.                                                *)
StartFactories(factories, asked) == {i \in asked : FactoryOf(i) \in factories}
=============================================================================
