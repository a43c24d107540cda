-------------------------- MODULE SharedInformers --------------------------
(***************************************************************************)
(* The factory of the informers of the schedule group                      *)
(* (pkg/client/informers/externalversions): it makes one informer for each *)
(* resource that is asked for, starts those it made, and waits for those   *)
(* it started.  The steps are parts of the actions of the process that     *)
(* holds the factory; stop says that its stop channel is closed.           *)
(***************************************************************************)

VARIABLES
    informers,         \* the resources an informer was made for
    startedInformers,  \* those whose informer was started
    synced             \* those whose informer has listed what there is

factory == <<informers, startedInformers, synced>>

(* The resources ForResource has a case for.                               *)
Resources == {"analysistasks"}

FactoryTypeOK ==
    /\ informers \subseteq Resources
    /\ startedInformers \subseteq informers
    /\ synced \subseteq startedInformers

NewSharedInformerFactory ==
    informers = {} /\ startedInformers = {} /\ synced = {}

(* InformerFor, for every resource of rs: a second call finds the informer *)
(* of the first.                                                           *)
InformersFor(rs) ==
    /\ informers' = informers \cup rs
    /\ UNCHANGED <<startedInformers, synced>>

(* Start runs what was made and not started before.                        *)
StartInformers ==
    /\ startedInformers' = informers
    /\ UNCHANGED <<informers, synced>>

(* A running informer has listed, which it does no more once it stopped.   *)
Sync(r, stop) ==
    /\ r \in startedInformers \ synced
    /\ ~stop
    /\ synced' = synced \cup {r}
    /\ UNCHANGED <<informers, startedInformers>>

(* WaitForCacheSync returns.                                               *)
SyncEnds(stop) == startedInformers \subseteq synced \/ stop
=============================================================================
