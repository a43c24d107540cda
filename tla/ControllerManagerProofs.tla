----------------------- MODULE ControllerManagerProofs -----------------------
(***************************************************************************)
(* Proofs about ControllerManager, for any number of configuration changes *)
(* and failures, any files they may hold and any command line.             *)
(***************************************************************************)
EXTENDS ControllerManager, TLAPS

LEMMA DefaultType == DefaultConfig \in Config /\ NewServer \in Server
<1>1. NewKubernetesOptions \in KubernetesOptions
  BY KubeconfigAssumption, RateAssumption DEF NewKubernetesOptions, KubernetesOptions
<1>2. DefaultConfig \in Config
  BY <1>1 DEF DefaultConfig, Config, Forms
<1> QED
  BY <1>2 DEF NewServer, Server

LEMMA WrittenType ==
    ASSUME NEW n \in Nat, NEW c \in Contents
    PROVE  Written(n, c) \in Config
BY ContentAssumption DEF Written, Content, Config

(* The flags leave options what they are.                                  *)
LEMMA FlagsType ==
    ASSUME NEW f \in CommandLines, NEW k \in KubernetesOptions
    PROVE  Flags(f, k) \in KubernetesOptions
<1>1. f.kubeconfig \in Kubeconfigs \cup {Unset}
  BY CommandLineAssumption DEF CommandLine
<1> QED
  BY <1>1 DEF Flags, AddFlags, KubernetesOptions

LEMMA ReadType ==
    ASSUME TypeOK
    PROVE  ReadInConfig(file) \in Config
BY DEF TypeOK, ReadInConfig

LEMMA InitType == Init => TypeOK
<1>1. ASSUME Init PROVE TypeOK
  <2>1. file \in Config
    BY <1>1, WrittenType DEF Init
  <2>2. servers \in [1..ictx -> Server]
    BY <1>1, DefaultType DEF Init
  <2>3. port \subseteq 1..ictx /\ sending \subseteq Config /\ cancelled \subseteq Nat
    BY <1>1 DEF Init
  <2>4. {file, loaded, cfg, options} \subseteq Config
    BY <1>1, <2>1, DefaultType DEF Init
  <2>5. main \in MainStates /\ ictx \in Nat /\ changes \in 0..MaxChanges /\ faults \in 0..MaxFaults
    BY <1>1, BoundAssumption DEF Init, MainStates
  <2>6. watching \in BOOLEAN /\ hooked \in BOOLEAN /\ signal \in BOOLEAN /\ events \in Nat
        /\ proc \in {"up", "exited", "fatal", "panicked"}
        /\ flags \in CommandLines
    BY <1>1 DEF Init
  <2> QED
    BY <2>2, <2>3, <2>4, <2>5, <2>6 DEF TypeOK
<1> QED
  BY <1>1

(* A new context and server keep the servers a function of the contexts.   *)
LEMMA RenewType ==
    ASSUME TypeOK, Renew
    PROVE  ictx' \in Nat /\ servers' \in [1..ictx' -> Server]
<1>1. ictx \in Nat /\ servers \in [1..ictx -> Server]
  BY DEF TypeOK
<1>2. \A g \in 1..(ictx + 1) :
        (IF g <= ictx THEN servers[g] ELSE NewServer) \in Server
  BY <1>1, DefaultType
<1> QED
  BY <1>1, <1>2 DEF Renew

LEMMA MainType ==
    ASSUME TypeOK, Main
    PROVE  TypeOK'
<1> USE DEF TypeOK, configVars, MainStates
<1>1. CASE LoadFromDisk
  <2> DEFINE k == Flags(flags, loaded'.kubernetes)
             o == [loaded' EXCEPT !.kubernetes = k]
  <2>1. loaded' \in Config
    BY <1>1, ReadType DEF LoadFromDisk
  <2>2. k \in KubernetesOptions
    BY <2>1, FlagsType DEF Config
  <2>3. o \in Config
    BY <2>1, <2>2 DEF Config
  <2>4. \/ options' = options /\ main' = main /\ proc' \in {"fatal", "exited"}
        \/ options' = o /\ main' = "watch" /\ proc' = proc
    BY <1>1 DEF LoadFromDisk
  <2> HIDE DEF k, o
  <2> QED
    BY <1>1, <2>1, <2>3, <2>4 DEF LoadFromDisk
<1>2. CASE WatchConfig
  BY <1>2 DEF WatchConfig
<1>3. CASE OnConfigChange
  BY <1>3 DEF OnConfigChange
<1>4. CASE StartRun \/ StartNewServer
  <2>1. Renew
    BY <1>4 DEF StartRun, StartNewServer
  <2>2. ictx' \in Nat /\ servers' \in [1..ictx' -> Server]
    BY <2>1, RenewType
  <2>3. port' \subseteq 1..ictx'
    <3>1. UNCHANGED port /\ ictx' = ictx + 1
      BY <1>4, <2>1 DEF StartRun, StartNewServer, Renew
    <3>2. 1..ictx \subseteq 1..(ictx + 1)
      OBVIOUS
    <3> QED
      BY <3>1, <3>2
  <2> QED
    BY <1>4, <2>2, <2>3 DEF StartRun, StartNewServer
<1>5. CASE SelectSignal
  BY <1>5 DEF SelectSignal, Cancel
<1>6. CASE SelectConfig
  BY <1>6 DEF SelectConfig, Cancel
<1>7. CASE MergeConfig
  BY <1>7 DEF MergeConfig
<1>8. CASE SelectError
  <2>1. PICK g \in 1..ictx : servers' = [servers EXCEPT ![g].pc = "done"]
    BY <1>8 DEF SelectError
  <2>2. servers' \in [1..ictx -> Server]
    BY <2>1 DEF Server
  <2> QED
    BY <1>8, <2>2 DEF SelectError, Cancel
<1>9. CASE Exit
  BY <1>9 DEF Exit, runVars
<1> QED
  BY <1>1, <1>2, <1>3, <1>4, <1>5, <1>6, <1>7, <1>8, <1>9 DEF Main

LEMMA ServerType ==
    ASSUME TypeOK, NEW g \in 1..ictx, RunServer(g) \/ ManagerFails(g) \/ SendOnClosed(g)
    PROVE  TypeOK'
<1> USE DEF TypeOK, configVars, runVars
<1>1. CASE CallRun(g)
  <2>1. [servers[g] EXCEPT !.pc = "client", !.ctx = ictx] \in Server
    BY DEF Server
  <2>2. servers' = [servers EXCEPT ![g] = [servers[g] EXCEPT !.pc = "client", !.ctx = ictx]]
    BY <1>1 DEF CallRun
  <2>3. servers' \in [1..ictx -> Server]
    BY <2>1, <2>2
  <2> QED
    BY <1>1, <2>3 DEF CallRun
<1>2. CASE BuildClient(g)
  <2>1. servers' \in [1..ictx -> Server]
    <3> DEFINE pc == IF NewKubernetesClient(options.kubernetes) # {}
                     THEN "listen" ELSE "failed"
    <3>1. pc \in {"listen", "failed"}
      OBVIOUS
    <3>2. servers' = [servers EXCEPT ![g] = [servers[g] EXCEPT !.pc = pc, !.opts = options]]
      BY <1>2 DEF BuildClient
    <3> HIDE DEF pc
    <3>3. [servers[g] EXCEPT !.pc = pc, !.opts = options] \in Server
      BY <3>1 DEF Server
    <3> QED
      BY <3>2, <3>3
  <2> QED
    BY <1>2, <2>1 DEF BuildClient
<1>3. CASE NewManager(g)
  <2>1. CASE port = {}
    <3>1. [servers[g] EXCEPT !.pc = "setup"] \in Server
      BY DEF Server
    <3>2. servers' = [servers EXCEPT ![g] = [servers[g] EXCEPT !.pc = "setup"]]
      BY <1>3, <2>1 DEF NewManager
    <3>3. servers' \in [1..ictx -> Server]
      BY <3>1, <3>2
    <3> QED
      BY <1>3, <2>1, <3>3 DEF NewManager
  <2>2. CASE port # {}
    BY <1>3, <2>2 DEF NewManager
  <2> QED
    BY <2>1, <2>2
<1>4. CASE StopManager(g)
  <2>1. servers' \in [1..ictx -> Server]
    BY <1>4 DEF StopManager, Server
  <2> QED
    BY <1>4, <2>1 DEF StopManager
<1>5. CASE ManagerFails(g)
  BY <1>5, BoundAssumption DEF ManagerFails
<1>6. CASE SendOnClosed(g)
  BY <1>6 DEF SendOnClosed
<1>7. CASE SetupControllers(g)
  <2>1. [servers[g] EXCEPT !.pc = "inform", !.asked = Informers] \in Server
    BY DEF Server
  <2>2. servers' = [servers EXCEPT ![g] = [servers[g] EXCEPT !.pc = "inform", !.asked = Informers]]
    BY <1>7 DEF SetupControllers
  <2>3. servers' \in [1..ictx -> Server]
    BY <2>1, <2>2
  <2> QED
    BY <1>7, <2>3 DEF SetupControllers
<1>8. CASE StartServer(g)
  <2> DEFINE S == StartFactories(NewInformerFactories(Clientsets), servers[g].asked)
  <2>1. S \in SUBSET Informers
    BY DEF StartFactories, Server
  <2>2. servers' = [servers EXCEPT ![g] = [servers[g] EXCEPT !.pc = "running", !.started = S]]
    BY <1>8 DEF StartServer
  <2> HIDE DEF S
  <2>3. [servers[g] EXCEPT !.pc = "running", !.started = S] \in Server
    BY <2>1 DEF Server
  <2>4. servers' \in [1..ictx -> Server]
    BY <2>2, <2>3
  <2> QED
    BY <1>8, <2>4 DEF StartServer
<1> QED
  BY <1>1, <1>2, <1>3, <1>4, <1>5, <1>6, <1>7, <1>8 DEF RunServer

LEMMA FileType ==
    ASSUME TypeOK, FileEvent \/ WriteFile \/ Signal
    PROVE  TypeOK'
<1> USE DEF TypeOK, runVars
<1>1. CASE FileEvent
  BY <1>1, ReadType DEF FileEvent
<1>2. CASE WriteFile
  <2>1. file' \in Config
    BY <1>2, WrittenType, BoundAssumption DEF WriteFile
  <2> QED
    BY <1>2, <2>1, BoundAssumption DEF WriteFile
<1>3. CASE Signal
  BY <1>3 DEF Signal, configVars
<1> QED
  BY <1>1, <1>2, <1>3

LEMMA NextType ==
    ASSUME TypeOK, [Next]_vars
    PROVE  TypeOK'
<1>1. CASE UNCHANGED vars
  BY <1>1 DEF vars, configVars, runVars, TypeOK
<1> QED
  BY <1>1, MainType, ServerType, FileType DEF Next

(* The process is well-formed: there is one server goroutine for each      *)
(* context, and every configuration in use is one that was read.           *)
THEOREM TypeCorrect == Spec => []TypeOK
BY InitType, NextType, PTL DEF Spec

-----------------------------------------------------------------------------
(***************************************************************************)
(* A live server has the options merged last.  The options change only in  *)
(* MergeConfig, where every context is cancelled, and a server's context   *)
(* is never newer than the latest one, so no server is live there.         *)
(***************************************************************************)

BeforeRun == {"load", "watch", "hook", "run"}

ContextsOK ==
    /\ main \in BeforeRun => ictx = 0
    /\ main \notin BeforeRun => ictx > 0
    /\ \A g \in 1..ictx : /\ servers[g].ctx <= ictx
                          /\ servers[g].pc # "spawned" => servers[g].ctx > 0

IInv == TypeOK /\ ContextsOK /\ EarlierContextsCancelled /\ LiveServerHasOptions

LEMMA InitInv == Init => IInv
<1>1. ASSUME Init PROVE ContextsOK /\ EarlierContextsCancelled /\ LiveServerHasOptions
  BY <1>1 DEF Init, ContextsOK, EarlierContextsCancelled, LiveServerHasOptions, BeforeRun
<1> QED
  BY <1>1, InitType DEF IInv

LEMMA MainInv ==
    ASSUME IInv, Main
    PROVE  ContextsOK' /\ EarlierContextsCancelled' /\ LiveServerHasOptions'
<1> USE DEF IInv, TypeOK, ContextsOK, EarlierContextsCancelled, LiveServerHasOptions,
            BeforeRun, configVars
<1>1. CASE LoadFromDisk
  BY <1>1 DEF LoadFromDisk
<1>2. CASE WatchConfig \/ OnConfigChange
  BY <1>2 DEF WatchConfig, OnConfigChange
<1>3. CASE StartRun \/ StartNewServer
  <2>1. /\ ictx' = ictx + 1
        /\ UNCHANGED <<options, cancelled>>
        /\ main' = "select"
        /\ \A g \in 1..ictx : servers'[g] = servers[g]
        /\ servers'[ictx + 1] = NewServer
    BY <1>3 DEF StartRun, StartNewServer, Renew
  <2>2. 1..ictx \subseteq cancelled
    BY <1>3 DEF StartRun, StartNewServer
  <2>3. \A g \in 1..ictx' : g \in 1..ictx \/ g = ictx + 1
    BY <2>1
  <2>4. ContextsOK'
    <3>1. \A g \in 1..ictx' : /\ servers'[g].ctx <= ictx'
                              /\ servers'[g].pc # "spawned" => servers'[g].ctx > 0
      <4>1. TAKE g \in 1..ictx'
      <4>2. CASE g \in 1..ictx
        BY <2>1, <4>2 DEF Server
      <4>3. CASE g = ictx + 1
        BY <2>1, <4>3 DEF NewServer
      <4> QED
        BY <2>3, <4>2, <4>3
    <3> QED
      BY <2>1, <3>1
  <2>5. EarlierContextsCancelled'
    BY <2>1, <2>2
  <2>6. LiveServerHasOptions'
    BY <2>1, <2>3 DEF NewServer
  <2> QED
    BY <2>4, <2>5, <2>6
<1>4. CASE SelectSignal
  BY <1>4 DEF SelectSignal, Cancel
<1>5. CASE SelectConfig
  BY <1>5 DEF SelectConfig, Cancel
<1>6. CASE MergeConfig
  <2>1. 1..ictx \subseteq cancelled
    BY <1>6 DEF MergeConfig
  <2>2. \A g \in 1..ictx : servers[g].pc # "spawned" => servers[g].ctx \in cancelled
    <3>1. TAKE g \in 1..ictx
    <3>2. servers[g].ctx \in Nat
      BY DEF Server
    <3>3. servers[g].pc # "spawned" => servers[g].ctx \in 1..ictx
      BY <3>1, <3>2
    <3> QED
      BY <2>1, <3>3
  <2>3. UNCHANGED <<ictx, cancelled, servers>> /\ main' = "spawn"
    BY <1>6 DEF MergeConfig
  <2>4. ictx \in cancelled /\ ictx > 0
    BY <1>6 DEF MergeConfig
  <2>5. ContextsOK' /\ EarlierContextsCancelled'
    BY <2>3, <2>4
  <2>6. LiveServerHasOptions'
    BY <2>2, <2>3
  <2> QED
    BY <2>5, <2>6
<1>7. CASE SelectError
  <2>1. PICK g \in 1..ictx : servers' = [servers EXCEPT ![g].pc = "done"] /\ servers[g].pc = "failed"
    BY <1>7 DEF SelectError
  <2>2. \A h \in 1..ictx : /\ servers'[h].ctx = servers[h].ctx
                           /\ servers'[h].opts = servers[h].opts
                           /\ servers'[h].pc = servers[h].pc \/
                              (servers'[h].pc = "done" /\ servers[h].pc = "failed")
    BY <2>1 DEF Server
  <2> QED
    BY <1>7, <2>2 DEF SelectError, Cancel
<1>8. CASE Exit
  BY <1>8 DEF Exit, runVars
<1> QED
  BY <1>1, <1>2, <1>3, <1>4, <1>5, <1>6, <1>7, <1>8 DEF Main

LEMMA ServerInv ==
    ASSUME IInv, NEW g \in 1..ictx, RunServer(g) \/ ManagerFails(g) \/ SendOnClosed(g)
    PROVE  ContextsOK' /\ EarlierContextsCancelled' /\ LiveServerHasOptions'
<1> USE DEF IInv, TypeOK, ContextsOK, EarlierContextsCancelled, LiveServerHasOptions,
            configVars, runVars
<1>1. CASE CallRun(g)
  <2>1. ictx > 0
    OBVIOUS
  <2> QED
    BY <1>1, <2>1 DEF CallRun, Server
<1>2. CASE BuildClient(g)
  BY <1>2 DEF BuildClient, Server
<1>3. CASE NewManager(g)
  <2>1. CASE port = {}
    <3>1. /\ servers' = [servers EXCEPT ![g].pc = "setup"]
          /\ servers[g].pc = "listen"
          /\ UNCHANGED <<main, ictx, cancelled, options>>
      BY <1>3, <2>1 DEF NewManager
    <3>2. \A h \in 1..ictx :
            /\ servers'[h].ctx = servers[h].ctx /\ servers'[h].opts = servers[h].opts
            /\ servers'[h].pc = servers[h].pc \/
               (servers'[h].pc = "setup" /\ servers[h].pc = "listen")
      BY <3>1 DEF Server
    <3> QED
      BY <3>1, <3>2
  <2>2. CASE port # {}
    BY <1>3, <2>2 DEF NewManager
  <2> QED
    BY <2>1, <2>2
<1>4. CASE StopManager(g)
  BY <1>4 DEF StopManager, Server
<1>5. CASE ManagerFails(g) \/ SendOnClosed(g)
  BY <1>5 DEF ManagerFails, SendOnClosed
<1>6. CASE SetupControllers(g) \/ StartServer(g)
  <2>1. /\ UNCHANGED runVars /\ servers[g].pc \in {"setup", "inform"}
        /\ \E p \in {"inform", "running"}, A, S \in SUBSET Informers :
              servers' = [servers EXCEPT ![g].pc = p, ![g].asked = A, ![g].started = S]
    <3> DEFINE S == StartFactories(NewInformerFactories(Clientsets), servers[g].asked)
    <3>1. servers[g].asked \in SUBSET Informers /\ servers[g].started \in SUBSET Informers
      BY DEF Server
    <3>2. S \in SUBSET Informers
      BY <3>1 DEF StartFactories
    <3>3. CASE SetupControllers(g)
      <4>1. servers' = [servers EXCEPT ![g].pc = "inform", ![g].asked = Informers,
                                       ![g].started = servers[g].started]
        BY <3>3 DEF SetupControllers, Server
      <4> QED
        BY <3>1, <3>3, <4>1 DEF SetupControllers
    <3>4. CASE StartServer(g)
      <4>1. servers' = [servers EXCEPT ![g].pc = "running", ![g].started = S]
        BY <3>4 DEF StartServer
      <4> HIDE DEF S
      <4>2. servers' = [servers EXCEPT ![g].pc = "running", ![g].asked = servers[g].asked,
                                       ![g].started = S]
        BY <4>1 DEF Server
      <4> QED
        BY <3>1, <3>2, <3>4, <4>2 DEF StartServer
    <3> QED
      BY <1>6, <3>3, <3>4
  <2>2. \A h \in 1..ictx :
          /\ servers'[h].ctx = servers[h].ctx /\ servers'[h].opts = servers[h].opts
          /\ servers'[h].pc = servers[h].pc \/
             (servers'[h].pc \in {"inform", "running"} /\ servers[h].pc \in {"setup", "inform"})
    BY <2>1 DEF Server
  <2> QED
    BY <2>1, <2>2
<1> QED
  BY <1>1, <1>2, <1>3, <1>4, <1>5, <1>6 DEF RunServer

LEMMA NextInv ==
    ASSUME IInv, [Next]_vars
    PROVE  IInv'
<1>1. TypeOK'
  BY NextType DEF IInv
<1>2. CASE UNCHANGED <<runVars, servers>>
  BY <1>1, <1>2 DEF IInv, ContextsOK, EarlierContextsCancelled, LiveServerHasOptions,
                    runVars
<1>3. CASE FileEvent \/ WriteFile \/ Signal \/ UNCHANGED vars
  BY <1>2, <1>3 DEF FileEvent, WriteFile, Signal, vars
<1> QED
  BY <1>1, <1>3, MainInv, ServerInv DEF Next, IInv

(* Run never loses the cancelFunc of a context that is still in use: all   *)
(* but the latest are cancelled, for any sequence of configurations.       *)
THEOREM ContextsCancelled == Spec => []EarlierContextsCancelled
<1>1. IInv => EarlierContextsCancelled
  BY DEF IInv
<1> QED
  BY <1>1, InitInv, NextInv, PTL DEF Spec

(* A server that is not cancelled runs with the options merged last, for   *)
(* any interleaving of the goroutines that share ictx and s.               *)
THEOREM LiveServersCurrent == Spec => []LiveServerHasOptions
<1>1. IInv => LiveServerHasOptions
  BY DEF IInv
<1> QED
  BY <1>1, InitInv, NextInv, PTL DEF Spec

-----------------------------------------------------------------------------
(***************************************************************************)
(* Why Run ends, and which informers a server started.  A server goes      *)
(* through its states in one order: it is failed only from where no client *)
(* could be built, and runs only from where the controllers were set up.   *)
(***************************************************************************)

NoClient(k) == NewKubernetesClient(k) = {}

(* What one step may do to the server old.                                 *)
ServerStep(old, new) ==
    \/ new = old
    \/ old.pc = "setup" /\ new.pc = "inform"
       /\ new.asked = Informers /\ new.started = old.started
    \/ old.pc = "inform" /\ new.pc = "running" /\ new.asked = old.asked
       /\ new.started = StartFactories(NewInformerFactories(Clientsets), old.asked)
    \/ /\ new.asked = old.asked /\ new.started = old.started
       /\ \/ old.pc = "spawned" /\ new.pc = "client"
          \/ old.pc = "client" /\ new.pc = "listen"
          \/ old.pc = "client" /\ new.pc = "failed" /\ NoClient(new.opts.kubernetes)
          \/ old.pc = "listen" /\ new.pc = "setup"
          \/ /\ old.pc = "running" /\ new.pc = "done"
             /\ new.ctx = old.ctx /\ new.ctx \in cancelled
          \/ /\ old.pc = "failed" /\ new.pc = "done" /\ new.opts = old.opts
             /\ main' = "returned"

(* Every step takes every server along its states, and adds new ones only. *)
LEMMA ServersStep ==
    ASSUME TypeOK, Next
    PROVE  /\ ictx' \in {ictx, ictx + 1}
           /\ \A h \in 1..ictx : ServerStep(servers[h], servers'[h])
           /\ ictx' = ictx + 1 => servers'[ictx'] = NewServer
<1> USE DEF TypeOK, ServerStep
<1>1. CASE StartRun \/ StartNewServer
  BY <1>1 DEF StartRun, StartNewServer, Renew
<1>2. CASE SelectError
  <2>1. PICK g \in 1..ictx : /\ servers[g].pc = "failed"
                             /\ servers' = [servers EXCEPT ![g].pc = "done"]
    BY <1>2 DEF SelectError
  <2>2. ictx' = ictx /\ main' = "returned"
    BY <1>2 DEF SelectError
  <2>3. ASSUME NEW h \in 1..ictx PROVE ServerStep(servers[h], servers'[h])
    BY <2>1, <2>2 DEF Server
  <2> QED
    BY <2>2, <2>3
<1>3. CASE UNCHANGED <<ictx, servers>>
  BY <1>3
<1>4. CASE \E g \in 1..ictx : RunServer(g) \/ ManagerFails(g) \/ SendOnClosed(g)
  <2>1. PICK g \in 1..ictx : RunServer(g) \/ ManagerFails(g) \/ SendOnClosed(g)
    BY <1>4
  <2>2. ictx' = ictx
    BY <2>1 DEF RunServer, ManagerFails, SendOnClosed, CallRun, BuildClient, NewManager,
                SetupControllers, StartServer,
                StopManager, runVars
  <2>3. ASSUME NEW h \in 1..ictx, h # g PROVE servers'[h] = servers[h]
    BY <2>1, <2>3 DEF RunServer, ManagerFails, SendOnClosed, CallRun, BuildClient,
                      NewManager, SetupControllers, StartServer, StopManager
  <2>4. ServerStep(servers[g], servers'[g])
    <3>1. CASE CallRun(g)
      BY <3>1 DEF CallRun, Server
    <3>2. CASE BuildClient(g)
      <4> DEFINE pc == IF NewKubernetesClient(options.kubernetes) # {}
                       THEN "listen" ELSE "failed"
      <4>1. servers[g].pc = "client"
        BY <3>2 DEF BuildClient
      <4>2. servers' = [servers EXCEPT ![g].pc = pc, ![g].opts = options]
        BY <3>2 DEF BuildClient
      <4>3. pc = "listen" \/ (pc = "failed" /\ NoClient(options.kubernetes))
        BY DEF NoClient
      <4> HIDE DEF pc
      <4>4. /\ servers'[g].pc = pc /\ servers'[g].opts = options
            /\ servers'[g].asked = servers[g].asked
            /\ servers'[g].started = servers[g].started
        BY <4>2 DEF Server
      <4> QED
        BY <4>1, <4>3, <4>4
    <3>3. CASE NewManager(g)
      BY <3>3 DEF NewManager, Server
    <3>4. CASE StopManager(g)
      BY <3>4 DEF StopManager, Server
    <3>5. CASE ManagerFails(g) \/ SendOnClosed(g)
      BY <3>5 DEF ManagerFails, SendOnClosed
    <3>6. CASE SetupControllers(g)
      BY <3>6 DEF SetupControllers, Server
    <3>7. CASE StartServer(g)
      <4> DEFINE S == StartFactories(NewInformerFactories(Clientsets), servers[g].asked)
      <4>1. servers[g].pc = "inform"
        BY <3>7 DEF StartServer
      <4>2. servers' = [servers EXCEPT ![g].pc = "running", ![g].started = S]
        BY <3>7 DEF StartServer
      <4> HIDE DEF S
      <4>3. /\ servers'[g].pc = "running" /\ servers'[g].started = S
            /\ servers'[g].asked = servers[g].asked
        BY <4>2 DEF Server
      <4> QED
        BY <4>1, <4>3 DEF S
    <3> QED
      BY <2>1, <3>1, <3>2, <3>3, <3>4, <3>5, <3>6, <3>7 DEF RunServer
  <2> QED
    BY <2>2, <2>3, <2>4
<1> QED
  BY <1>1, <1>2, <1>3, <1>4
     DEF Next, Main, LoadFromDisk, WatchConfig, OnConfigChange, SelectSignal, SelectConfig,
         MergeConfig, Exit, FileEvent, WriteFile, Signal, configVars, runVars

FailedHasCause ==
    \A g \in 1..ictx : servers[g].pc = "failed" => NoClient(servers[g].opts.kubernetes)

SetupDone ==
    \A g \in 1..ictx : servers[g].pc \in {"inform", "running"} =>
       servers[g].asked = Informers

CauseInv == TypeOK /\ FailedHasCause /\ ErrorHasCause /\ SetupDone /\ HandlersServed

LEMMA InitCause == Init => CauseInv
BY InitType DEF Init, CauseInv, FailedHasCause, ErrorHasCause, SetupDone, HandlersServed

(* Each of the informers comes from a factory that a full client gives.    *)
LEMMA AllStarted ==
    StartFactories(NewInformerFactories(Clientsets), Informers) = Informers
<1>1. {"informerFactory", "craneInformer", "dynamicInformerFactory"}
         \subseteq NewInformerFactories(Clientsets)
  BY DEF NewInformerFactories, Factories, Clientsets, Direct
<1>2. \A i \in Informers : FactoryOf(i) \in
         {"informerFactory", "craneInformer", "dynamicInformerFactory"}
  BY DEF Informers, FactoryOf
<1> QED
  BY <1>1, <1>2 DEF StartFactories

(* Run returns on the signal, or on the error of a failed server.          *)
LEMMA ReturnStep ==
    ASSUME TypeOK, FailedHasCause, ErrorHasCause, Next
    PROVE  ErrorHasCause'
<1> SUFFICES ASSUME main' = "returned", ~signal'
             PROVE  \E g \in 1..ictx' : /\ servers'[g].pc = "done"
                                       /\ NoClient(servers'[g].opts.kubernetes)
  BY DEF ErrorHasCause, NoClient
<1>1. /\ ictx' \in {ictx, ictx + 1} /\ ictx \in Nat
      /\ \A h \in 1..ictx : ServerStep(servers[h], servers'[h])
  BY ServersStep DEF TypeOK
<1>2. CASE main = "returned"
  <2>1. ~signal
    BY DEF Next, Main, LoadFromDisk, WatchConfig, OnConfigChange, StartRun, SelectSignal,
           SelectConfig, MergeConfig, StartNewServer, SelectError, Exit, FileEvent,
           RunServer, CallRun, BuildClient, NewManager, SetupControllers, StartServer,
           StopManager, ManagerFails, SendOnClosed, WriteFile, Signal, runVars, configVars
  <2>2. PICK g \in 1..ictx : servers[g].pc = "done" /\ NoClient(servers[g].opts.kubernetes)
    BY <1>2, <2>1 DEF ErrorHasCause, NoClient
  <2>3. servers'[g].pc = "done" /\ servers'[g].opts = servers[g].opts
    BY <1>1, <2>2 DEF ServerStep
  <2> QED
    BY <1>1, <2>2, <2>3
<1>3. CASE main # "returned"
  <2>1. SelectError
    <3>1. Main
      BY <1>3 DEF Next, FileEvent, RunServer, CallRun, BuildClient, NewManager,
                  SetupControllers, StartServer, StopManager, ManagerFails, SendOnClosed, WriteFile, Signal, runVars
    <3>2. SelectError \/ SelectSignal
      BY <1>3, <3>1 DEF Main, LoadFromDisk, WatchConfig, OnConfigChange, StartRun,
                        SelectConfig, MergeConfig, StartNewServer, Exit, runVars
    <3>3. ~SelectSignal
      BY DEF SelectSignal
    <3> QED
      BY <3>2, <3>3
  <2>2. PICK g \in 1..ictx : /\ servers[g].pc = "failed"
                             /\ servers' = [servers EXCEPT ![g].pc = "done"]
    BY <2>1 DEF SelectError
  <2>3. servers'[g].pc = "done" /\ servers'[g].opts = servers[g].opts
    BY <2>2 DEF TypeOK, Server
  <2>4. NoClient(servers[g].opts.kubernetes)
    BY <2>2 DEF FailedHasCause
  <2> QED
    BY <1>1, <2>3, <2>4
<1> QED
  BY <1>2, <1>3

LEMMA NextCause ==
    ASSUME CauseInv, [Next]_vars
    PROVE  CauseInv'
<1>1. TypeOK'
  BY NextType DEF CauseInv
<1>2. CASE Next
  <2>1. /\ ictx' \in {ictx, ictx + 1} /\ ictx \in Nat
        /\ \A h \in 1..ictx : ServerStep(servers[h], servers'[h])
        /\ ictx' = ictx + 1 => servers'[ictx'] = NewServer
    BY <1>2, ServersStep DEF CauseInv, TypeOK
  <2>2. \A g \in 1..ictx' : g \in 1..ictx \/ servers'[g] = NewServer
    BY <2>1
  <2>3. FailedHasCause'
    BY <2>1, <2>2 DEF CauseInv, FailedHasCause, ServerStep, NewServer, NoClient
  <2>4. SetupDone' /\ HandlersServed'
    <3>1. ASSUME NEW g \in 1..ictx', servers'[g].pc \in {"inform", "running"}
          PROVE  /\ servers'[g].asked = Informers
                 /\ servers'[g].pc = "running" => servers'[g].started = Informers
      <4>1. g \in 1..ictx
        BY <2>2, <3>1 DEF NewServer
      <4>2. ServerStep(servers[g], servers'[g])
        BY <2>1, <4>1
      <4>3. /\ servers[g].pc \in {"inform", "running"} =>
                  servers[g].asked = Informers
            /\ servers[g].pc = "running" => servers[g].started = Informers
        BY <4>1 DEF CauseInv, SetupDone, HandlersServed
      <4> QED
        BY <2>1, <3>1, <4>2, <4>3, AllStarted DEF ServerStep
    <3> QED
      BY <3>1 DEF SetupDone, HandlersServed
  <2>5. ErrorHasCause'
    BY <1>2, ReturnStep DEF CauseInv
  <2> QED
    BY <1>1, <2>3, <2>4, <2>5 DEF CauseInv
<1>3. CASE UNCHANGED vars
  BY <1>1, <1>3 DEF CauseInv, FailedHasCause, ErrorHasCause, SetupDone, HandlersServed,
                    vars, configVars, runVars
<1> QED
  BY <1>2, <1>3

(* A change of the configuration never makes Run return an error: without  *)
(* a signal it returns only when some configuration gave no client.        *)
THEOREM ErrorsHaveCause == Spec => []ErrorHasCause
<1>1. CauseInv => ErrorHasCause
  BY DEF CauseInv
<1> QED
  BY <1>1, InitCause, NextCause, PTL DEF Spec

(* The handlers of a server that runs are all on informers that were       *)
(* started.                                                                *)
THEOREM HandlersAreServed == Spec => []HandlersServed
<1>1. CauseInv => HandlersServed
  BY DEF CauseInv
<1> QED
  BY <1>1, InitCause, NextCause, PTL DEF Spec

-----------------------------------------------------------------------------
(***************************************************************************)
(* One server is at work.  From manager.New to the end of the manager a    *)
(* server holds the port, and a manager only ends when its context is      *)
(* cancelled, or with the process.                                         *)
(***************************************************************************)

PortHeld ==
    \A g \in 1..ictx : servers[g].pc \in {"setup", "inform", "running"} => port = {g}

StartedHolds ==
    \A g \in 1..ictx : servers[g].started # {} =>
       \/ servers[g].pc = "running"
       \/ servers[g].pc = "done" /\ servers[g].ctx \in cancelled

WorkInv == TypeOK /\ PortHeld /\ StartedHolds

LEMMA InitWork == Init => WorkInv
BY InitType DEF Init, WorkInv, PortHeld, StartedHolds

LEMMA NextPort ==
    ASSUME TypeOK, PortHeld, Next
    PROVE  PortHeld'
<1> USE DEF TypeOK, PortHeld
<1>1. CASE UNCHANGED <<ictx, servers, port>>
  BY <1>1
<1>2. CASE StartRun \/ StartNewServer
  <2>1. /\ UNCHANGED port
        /\ \A g \in 1..ictx' : g \in 1..ictx \/ servers'[g] = NewServer
        /\ \A g \in 1..ictx : servers'[g] = servers[g]
    BY <1>2 DEF StartRun, StartNewServer, Renew
  <2> QED
    BY <2>1 DEF NewServer
<1>3. CASE SelectError
  <2>1. PICK g \in 1..ictx : servers' = [servers EXCEPT ![g].pc = "done"]
    BY <1>3 DEF SelectError
  <2>2. UNCHANGED <<ictx, port>>
    BY <1>3 DEF SelectError
  <2> QED
    BY <2>1, <2>2 DEF Server
<1>4. ASSUME NEW g \in 1..ictx, NewManager(g) PROVE PortHeld'
  <2>1. CASE port = {}
    <3>1. /\ port' = {g} /\ ictx' = ictx
          /\ servers' = [servers EXCEPT ![g].pc = "setup"]
      BY <1>4, <2>1 DEF NewManager, runVars
    <3>2. \A h \in 1..ictx : h # g => servers'[h].pc \notin {"setup", "inform", "running"}
      BY <2>1, <3>1 DEF Server
    <3> QED
      BY <3>1, <3>2
  <2>2. CASE port # {}
    BY <1>1, <1>4, <2>2 DEF NewManager, runVars
  <2> QED
    BY <2>1, <2>2
<1>5. ASSUME NEW g \in 1..ictx, StopManager(g) PROVE PortHeld'
  <2>1. /\ port = {g} /\ ictx' = ictx
        /\ servers' = [servers EXCEPT ![g].pc = "done"]
    BY <1>5 DEF StopManager, runVars
  <2>2. \A h \in 1..ictx : servers'[h].pc \notin {"setup", "inform", "running"}
    <3>1. TAKE h \in 1..ictx
    <3>2. CASE h = g
      BY <2>1, <3>2 DEF Server
    <3>3. CASE h # g
      <4>1. servers[h].pc \notin {"setup", "inform", "running"}
        BY <2>1, <3>3
      <4> QED
        BY <2>1, <3>3, <4>1
    <3> QED
      BY <3>2, <3>3
  <2> QED
    BY <2>1, <2>2
<1>6. ASSUME NEW g \in 1..ictx, CallRun(g) \/ BuildClient(g) PROVE PortHeld'
  <2>1. /\ UNCHANGED <<ictx, port>>
        /\ \A h \in 1..ictx : servers'[h].pc \in {servers[h].pc, "client", "listen", "failed"}
    BY <1>6 DEF CallRun, BuildClient, runVars, Server
  <2> QED
    BY <2>1
<1>7. ASSUME NEW g \in 1..ictx, SetupControllers(g) \/ StartServer(g) PROVE PortHeld'
  <2>1. /\ UNCHANGED <<ictx, port>>
        /\ servers[g].pc \in {"setup", "inform"}
        /\ \A h \in 1..ictx : h # g => servers'[h] = servers[h]
    BY <1>7 DEF SetupControllers, StartServer, runVars
  <2> QED
    BY <2>1
<1>8. CASE \E g \in 1..ictx : ManagerFails(g) \/ SendOnClosed(g)
  BY <1>1, <1>8 DEF ManagerFails, SendOnClosed, runVars
<1> QED
  BY <1>1, <1>2, <1>3, <1>4, <1>5, <1>6, <1>7, <1>8
     DEF Next, Main, RunServer, LoadFromDisk, WatchConfig, OnConfigChange, SelectSignal,
         SelectConfig, MergeConfig, Exit, FileEvent, WriteFile, Signal, configVars, runVars

LEMMA NextStarted ==
    ASSUME TypeOK, StartedHolds, Next
    PROVE  StartedHolds'
<1>1. /\ ictx' \in {ictx, ictx + 1} /\ ictx \in Nat
      /\ \A h \in 1..ictx : ServerStep(servers[h], servers'[h])
      /\ ictx' = ictx + 1 => servers'[ictx'] = NewServer
  BY ServersStep DEF TypeOK
<1>2. cancelled \subseteq cancelled'
  BY DEF Next, Main, LoadFromDisk, WatchConfig, OnConfigChange, StartRun, SelectSignal,
         SelectConfig, MergeConfig, StartNewServer, SelectError, Exit, Cancel, FileEvent,
         RunServer, CallRun, BuildClient, NewManager, SetupControllers, StartServer,
         StopManager, ManagerFails, SendOnClosed, WriteFile, Signal, runVars, configVars
<1>3. \A g \in 1..ictx' : g \in 1..ictx \/ servers'[g] = NewServer
  BY <1>1
<1> SUFFICES ASSUME NEW g \in 1..ictx', servers'[g].started # {}
             PROVE  \/ servers'[g].pc = "running"
                    \/ servers'[g].pc = "done" /\ servers'[g].ctx \in cancelled'
  BY DEF StartedHolds
<1>4. g \in 1..ictx
  BY <1>3 DEF NewServer
<1>5. ServerStep(servers[g], servers'[g])
  BY <1>1, <1>4
<1>6. servers[g].started # {} =>
         \/ servers[g].pc = "running"
         \/ servers[g].pc = "done" /\ servers[g].ctx \in cancelled
  BY <1>4 DEF StartedHolds
<1> QED
  BY <1>2, <1>5, <1>6 DEF ServerStep

LEMMA NextWork ==
    ASSUME WorkInv, [Next]_vars
    PROVE  WorkInv'
<1>1. ASSUME UNCHANGED vars PROVE PortHeld' /\ StartedHolds'
  BY <1>1 DEF WorkInv, PortHeld, StartedHolds, vars, runVars
<1> QED
  BY <1>1, NextType, NextPort, NextStarted DEF WorkInv

(* At most one server is at work with a context that is alive, although    *)
(* goroutines may be called with each other's context.                     *)
THEOREM OneAtWork == Spec => []OneServerAtWork
<1>1. WorkInv => OneServerAtWork
  BY DEF WorkInv, PortHeld, StartedHolds, OneServerAtWork, AtWork
<1> QED
  BY <1>1, InitWork, NextWork, PTL DEF Spec

-----------------------------------------------------------------------------
(***************************************************************************)
(* The goroutines implement ServerSuccession.  No configuration that is on *)
(* its way to the servers is older than the one they have: the file is the *)
(* latest, viper holds what it read from it last, and the callback and Run *)
(* hold what viper held.                                                   *)
(***************************************************************************)

VersionsInOrder ==
    /\ options.version <= loaded.version /\ loaded.version <= file.version
    /\ file.version <= changes + 1
    /\ hooked => main \notin {"load", "watch", "hook"}
    /\ sending # {} => hooked
    /\ \A s \in sending : options.version <= s.version /\ s.version <= loaded.version
    /\ main = "merge" =>
          /\ options.version <= cfg.version /\ cfg.version <= loaded.version
          /\ \A s \in sending : cfg.version <= s.version

ConfigVersions == TypeOK /\ VersionsInOrder

LEMMA InitVersions == Init => ConfigVersions
<1>1. ASSUME Init PROVE VersionsInOrder
  BY <1>1 DEF Init, VersionsInOrder, DefaultConfig, Written
<1> QED
  BY <1>1, InitType DEF ConfigVersions

LEMMA NextVersions ==
    ASSUME ConfigVersions, [Next]_vars
    PROVE  ConfigVersions'
<1> USE DEF ConfigVersions, VersionsInOrder, TypeOK
<1>0. /\ {file.version, loaded.version, cfg.version, options.version, changes} \subseteq Nat
      /\ \A s \in sending : s.version \in Nat
  BY DEF Config
<1>1. ASSUME LoadFromDisk PROVE VersionsInOrder'
  <2>1. /\ sending = {} /\ ~hooked /\ main' # "merge"
        /\ UNCHANGED <<sending, hooked, file, changes>>
    BY <1>1 DEF LoadFromDisk
  <2>2. loaded'.version \in {loaded.version, file.version}
    BY <1>1 DEF LoadFromDisk, ReadInConfig
  <2>3. options'.version \in {options.version, loaded'.version}
    <3> DEFINE k == Flags(flags, loaded'.kubernetes)
    <3>1. options' = options \/ options' = [loaded' EXCEPT !.kubernetes = k]
      BY <1>1 DEF LoadFromDisk
    <3>2. loaded' \in Config
      BY <1>1, ReadType DEF LoadFromDisk
    <3> HIDE DEF k
    <3> QED
      BY <3>1, <3>2 DEF Config
  <2> QED
    BY <1>0, <2>1, <2>2, <2>3
<1>2. ASSUME FileEvent PROVE VersionsInOrder'
  <2>1. loaded'.version \in {loaded.version, file.version}
    BY <1>2 DEF FileEvent, ReadInConfig
  <2>2. sending' \subseteq {loaded'} /\ (sending' # {} => hooked)
    BY <1>2 DEF FileEvent
  <2>3. UNCHANGED <<file, hooked, main, cfg, options, changes>>
    BY <1>2 DEF FileEvent, runVars
  <2> QED
    BY <1>0, <2>1, <2>2, <2>3
<1>3. ASSUME WriteFile PROVE VersionsInOrder'
  <2>1. file'.version = changes + 2 /\ changes' = changes + 1
    BY <1>3 DEF WriteFile, Written
  <2>2. UNCHANGED <<loaded, hooked, sending, main, cfg, options>>
    BY <1>3 DEF WriteFile, runVars
  <2> QED
    BY <1>0, <2>1, <2>2
<1>4. ASSUME WatchConfig \/ OnConfigChange PROVE VersionsInOrder'
  BY <1>4 DEF WatchConfig, OnConfigChange
<1>5. ASSUME SelectConfig PROVE VersionsInOrder'
  BY <1>5 DEF SelectConfig
<1>6. ASSUME MergeConfig PROVE VersionsInOrder'
  BY <1>6 DEF MergeConfig, configVars
<1>7. ASSUME \/ UNCHANGED <<runVars, configVars, changes>>
             \/ StartRun \/ StartNewServer \/ SelectSignal \/ SelectError
      PROVE VersionsInOrder'
  BY <1>7 DEF StartRun, StartNewServer, SelectSignal, SelectError, runVars, configVars
<1>8. ASSUME \/ UNCHANGED vars \/ Exit \/ Signal
             \/ \E g \in 1..ictx : RunServer(g) \/ ManagerFails(g) \/ SendOnClosed(g)
      PROVE  UNCHANGED <<runVars, configVars, changes>>
  BY <1>8 DEF vars, Exit, Signal, RunServer, CallRun, BuildClient, NewManager,
              SetupControllers, StartServer, StopManager, ManagerFails, SendOnClosed
<1>9. VersionsInOrder'
  BY <1>1, <1>2, <1>3, <1>4, <1>5, <1>6, <1>7, <1>8 DEF Next, Main
<1> QED
  BY <1>9, NextType

(* What the mapped steps rely on.                                          *)
SuccessionInv == IInv /\ WorkInv /\ ConfigVersions

LEMMA NextSuccession ==
    ASSUME SuccessionInv, [Next]_vars
    PROVE  SuccessionInv'
BY NextInv, NextWork, NextVersions DEF SuccessionInv

(* Before Run, and from the cancelFunc on to the next server, every        *)
(* context there is is cancelled, so no server is at work.                 *)
Between == main \in BeforeRun \cup {"merge", "spawn", "returned"}

Idle == Workers = {}

LEMMA NoneAtWork == SuccessionInv /\ Between => Idle
<1> SUFFICES ASSUME SuccessionInv, Between, NEW g \in 1..ictx, AtWork(g)
             PROVE  FALSE
  BY DEF Idle, Workers
<1>1. servers[g].pc # "spawned" /\ servers[g].ctx \notin cancelled
  BY DEF SuccessionInv, WorkInv, StartedHolds, AtWork
<1>2. servers[g].ctx \in 1..ictx
  BY <1>1 DEF SuccessionInv, IInv, TypeOK, ContextsOK, Server
<1>3. 1..ictx \subseteq cancelled
  BY DEF SuccessionInv, IInv, TypeOK, ContextsOK, EarlierContextsCancelled, Between, BeforeRun
<1> QED
  BY <1>1, <1>2, <1>3

LEMMA NoneAtWorkThen == SuccessionInv' /\ Between' => Idle'
BY NoneAtWork, PTL

(* A server as the cluster sees it does not change from old to new.        *)
Unmoved(old, new) ==
    \/ old.started = {} /\ new.started = {}
    \/ new.started = old.started /\ new.ctx = old.ctx /\ new.opts = old.opts

LEMMA SameWorkers ==
    ASSUME UNCHANGED <<proc, cancelled, ictx>>,
           \A g \in 1..ictx : Unmoved(servers[g], servers'[g])
    PROVE  Workers' = Workers
<1>1. \A g \in 1..ictx : /\ AtWork(g)' <=> AtWork(g)
                         /\ AtWork(g) => servers'[g].opts = servers[g].opts
  BY DEF AtWork, Unmoved
<1>2. \A w : w \in Workers' <=> w \in Workers
  BY <1>1 DEF Workers
<1> QED
  BY <1>2

(* The end of the process is the end for its servers.                      *)
LEMMA EndStep ==
    ASSUME proc = "up", proc' # "up", options' = options
    PROVE  Succession!End
BY DEF Succession!End, Status, Workers

LEMMA MainImplements ==
    ASSUME SuccessionInv, SuccessionInv', Main
    PROVE  [Succession!Next]_<<options, Workers, Status>>
<1> USE DEF SuccessionInv
<1>1. ASSUME LoadFromDisk PROVE Succession!Adopt \/ Succession!End
  <2>1. CASE proc' = "up"
    <3>1. /\ proc = "up" /\ main = "load" /\ main' = "watch" /\ ictx' = ictx
          /\ loaded' = ReadInConfig(file) /\ loaded' \in Config
          /\ options' = [loaded' EXCEPT !.kubernetes = Flags(flags, loaded'.kubernetes)]
      BY <1>1, <2>1, ReadType DEF LoadFromDisk, WorkInv
    <3>2. Workers = {} /\ Workers' = {}
      BY <3>1, NoneAtWork, NoneAtWorkThen DEF Between, BeforeRun, Idle
    <3>3. options' \in Config /\ options'.version >= options.version
      <4> DEFINE k == Flags(flags, loaded'.kubernetes)
      <4>1. options'.version = loaded'.version
        <5>1. options' = [loaded' EXCEPT !.kubernetes = k]
          BY <3>1
        <5> HIDE DEF k
        <5> QED
          BY <3>1, <5>1 DEF Config
      <4>2. {file.version, loaded.version, options.version} \subseteq Nat
        BY DEF ConfigVersions, TypeOK, Config
      <4>3. loaded'.version >= options.version
        BY <3>1, <4>2 DEF ReadInConfig, ConfigVersions, VersionsInOrder
      <4> QED
        BY <4>1, <4>3 DEF ConfigVersions, TypeOK
    <3> QED
      BY <2>1, <3>1, <3>2, <3>3 DEF Succession!Adopt, Status
  <2>2. CASE proc' # "up"
    BY <1>1, <2>2, EndStep DEF LoadFromDisk
  <2> QED
    BY <2>1, <2>2
<1>2. ASSUME MergeConfig PROVE Succession!Adopt
  <2>1. /\ proc = "up" /\ proc' = "up" /\ main = "merge" /\ main' = "spawn"
        /\ options' = cfg /\ UNCHANGED <<ictx, cancelled>>
    BY <1>2 DEF MergeConfig
  <2>2. Workers = {} /\ Workers' = {}
    BY <2>1, NoneAtWork, NoneAtWorkThen DEF Between, Idle
  <2>3. options' \in Config /\ options'.version >= options.version
    BY <2>1 DEF ConfigVersions, VersionsInOrder, TypeOK, Config
  <2> QED
    BY <2>1, <2>2, <2>3 DEF Succession!Adopt, Status
<1>3. ASSUME SelectConfig PROVE Succession!Withdraw \/ UNCHANGED <<options, Workers, Status>>
  <2>1. /\ proc = "up" /\ proc' = "up" /\ main = "select" /\ main' = "merge"
        /\ options' = options
    BY <1>3 DEF SelectConfig
  <2>2. Workers' = {}
    BY <2>1, NoneAtWorkThen DEF Between, Idle
  <2> QED
    BY <2>1, <2>2 DEF Succession!Withdraw, Status
<1>4. ASSUME SelectSignal \/ SelectError PROVE Succession!Leave
  <2>1. /\ proc = "up" /\ proc' = "up" /\ main = "select" /\ main' = "returned"
        /\ options' = options
    BY <1>4 DEF SelectSignal, SelectError
  <2>2. Workers' = {}
    BY <2>1, NoneAtWorkThen DEF Between, Idle
  <2> QED
    BY <2>1, <2>2 DEF Succession!Leave, Status
<1>5. ASSUME StartRun \/ StartNewServer PROVE UNCHANGED <<options, Workers, Status>>
  <2>1. /\ UNCHANGED <<proc, cancelled, options>>
        /\ main \in {"run", "spawn"} /\ main' = "select" /\ ictx' = ictx + 1
        /\ \A g \in 1..ictx : servers'[g] = servers[g]
        /\ servers'[ictx + 1] = NewServer
    BY <1>5 DEF StartRun, StartNewServer, Renew, WorkInv, TypeOK
  <2>2. \A g : g \in 1..ictx' <=> (g \in 1..ictx \/ g = ictx + 1)
    BY <2>1 DEF WorkInv, TypeOK
  <2>3. \A g : g = ictx + 1 => ~AtWork(g)'
    BY <2>1 DEF AtWork, NewServer
  <2>4. \A g \in 1..ictx : AtWork(g)' <=> AtWork(g)
    BY <2>1 DEF AtWork
  <2>5. \A w : w \in Workers' <=> w \in Workers
    BY <2>1, <2>2, <2>3, <2>4 DEF Workers
  <2>6. Workers' = Workers
    BY <2>5
  <2> QED
    BY <2>1, <2>6 DEF Status
<1>6. ASSUME WatchConfig \/ OnConfigChange PROVE UNCHANGED <<options, Workers, Status>>
  <2>1. /\ UNCHANGED <<proc, cancelled, options, ictx, servers>>
        /\ main # "returned" /\ main' # "returned"
    BY <1>6 DEF WatchConfig, OnConfigChange
  <2>2. Workers' = Workers
    BY <2>1, SameWorkers DEF Unmoved
  <2> QED
    BY <2>1, <2>2 DEF Status
<1>7. ASSUME Exit PROVE Succession!End
  BY <1>7, EndStep DEF Exit, runVars
<1> QED
  BY <1>1, <1>2, <1>3, <1>4, <1>5, <1>6, <1>7 DEF Main, Succession!Next

(* A server begins when its informers are started, if its context is       *)
(* alive: it holds the port, so no other is at work.                       *)
LEMMA BeginStep ==
    ASSUME SuccessionInv, NEW g \in 1..ictx, StartServer(g)
    PROVE  Succession!Begin \/ UNCHANGED <<options, Workers, Status>>
<1> USE DEF SuccessionInv
<1> DEFINE S == StartFactories(NewInformerFactories(Clientsets), servers[g].asked)
<1>1. /\ UNCHANGED <<proc, cancelled, options, ictx, main>> /\ proc = "up"
      /\ servers[g].pc = "inform"
      /\ servers' = [servers EXCEPT ![g].pc = "running", ![g].started = S]
  BY DEF StartServer, runVars
<1> HIDE DEF S
<1>2. /\ \A h \in 1..ictx : h # g => servers'[h] = servers[h]
      /\ servers'[g].started = S /\ servers[g].started = {}
      /\ servers'[g].ctx = servers[g].ctx /\ servers'[g].opts = servers[g].opts
  BY <1>1 DEF WorkInv, TypeOK, StartedHolds, Server
<1>3. ASSUME NEW h \in 1..ictx, h # g
      PROVE  /\ AtWork(h)' <=> AtWork(h)
             /\ servers'[h].opts = servers[h].opts
  <2>1. servers'[h] = servers[h]
    BY <1>2, <1>3
  <2>2. cancelled' = cancelled
    BY <1>1
  <2> QED
    BY <2>1, <2>2 DEF AtWork
<1>4. CASE S = {} \/ servers[g].ctx \in cancelled
  <2>1. ~AtWork(g) /\ ~AtWork(g)'
    BY <1>1, <1>2, <1>4 DEF AtWork
  <2>2. \A h \in 1..ictx : /\ AtWork(h)' <=> AtWork(h)
                           /\ AtWork(h) => servers'[h].opts = servers[h].opts
    <3>1. TAKE h \in 1..ictx
    <3>2. CASE h = g
      BY <2>1, <3>2
    <3>3. CASE h # g
      BY <1>3, <3>1, <3>3
    <3> QED
      BY <3>2, <3>3
  <2>3. \A w : w \in Workers' <=> w \in Workers
    BY <1>1, <2>2 DEF Workers
  <2>4. Workers' = Workers
    BY <2>3
  <2> QED
    BY <1>1, <2>4 DEF Status
<1>5. CASE S # {} /\ servers[g].ctx \notin cancelled
  <2>1. \A h \in 1..ictx : ~AtWork(h)
    BY <1>1, <1>2 DEF AtWork, WorkInv, StartedHolds, PortHeld
  <2>2. \A h \in 1..ictx : AtWork(h)' <=> h = g
    <3>1. TAKE h \in 1..ictx
    <3>2. CASE h = g
      BY <1>1, <1>2, <1>5, <3>2 DEF AtWork
    <3>3. CASE h # g
      BY <1>3, <2>1, <3>1, <3>3
    <3> QED
      BY <3>2, <3>3
  <2>3. servers'[g].opts = options
    BY <1>1, <1>2, <1>5 DEF IInv, LiveServerHasOptions
  <2>4. Workers = {} /\ Workers' = {[server |-> g, conf |-> options]}
    <3>1. Workers = {}
      BY <2>1 DEF Workers
    <3>2. \A w : w \in Workers' <=> w = [server |-> g, conf |-> options]
      BY <1>1, <2>2, <2>3 DEF Workers
    <3> QED
      BY <3>1, <3>2
  <2>5. main # "returned"
    <3>1. servers[g].ctx \in 1..ictx
      BY <1>1 DEF IInv, TypeOK, ContextsOK, Server
    <3> QED
      BY <1>5, <3>1 DEF IInv, TypeOK, EarlierContextsCancelled
  <2> QED
    BY <1>1, <2>4, <2>5 DEF Succession!Begin, Status
<1> QED
  BY <1>4, <1>5

LEMMA ServerImplements ==
    ASSUME SuccessionInv, NEW g \in 1..ictx, RunServer(g) \/ ManagerFails(g) \/ SendOnClosed(g)
    PROVE  [Succession!Next]_<<options, Workers, Status>>
<1> USE DEF SuccessionInv
<1>1. ASSUME ManagerFails(g) \/ SendOnClosed(g) PROVE Succession!End
  BY <1>1, EndStep DEF ManagerFails, SendOnClosed, runVars
<1>2. ASSUME NewManager(g), proc' # "up" PROVE Succession!End
  BY <1>2, EndStep DEF NewManager, runVars
<1>3. ASSUME \/ CallRun(g) \/ BuildClient(g) \/ SetupControllers(g) \/ StopManager(g)
             \/ NewManager(g) /\ proc' = "up"
      PROVE  UNCHANGED <<options, Workers, Status>>
  <2>1. UNCHANGED <<proc, cancelled, options, ictx, main>>
    BY <1>3 DEF CallRun, BuildClient, SetupControllers, StopManager, NewManager, runVars
  <2>2. servers[g].pc \in {"spawned", "client"} => servers[g].started = {}
    BY DEF WorkInv, StartedHolds
  <2>3. \A h \in 1..ictx : Unmoved(servers[h], servers'[h])
    <3>1. \A h \in 1..ictx : h # g => servers'[h] = servers[h]
      BY <1>3 DEF CallRun, BuildClient, SetupControllers, StopManager, NewManager,
                  WorkInv, TypeOK
    <3>2. Unmoved(servers[g], servers'[g])
      <4>1. CASE CallRun(g)
        BY <2>2, <4>1 DEF CallRun, Unmoved, WorkInv, TypeOK, Server
      <4>2. CASE BuildClient(g)
        BY <2>2, <4>2 DEF BuildClient, Unmoved, WorkInv, TypeOK, Server
      <4>3. CASE SetupControllers(g)
        BY <4>3 DEF SetupControllers, Unmoved, WorkInv, TypeOK, Server
      <4>4. CASE StopManager(g)
        BY <4>4 DEF StopManager, Unmoved, WorkInv, TypeOK, Server
      <4>5. CASE NewManager(g) /\ proc' = "up"
        BY <4>5 DEF NewManager, Unmoved, WorkInv, TypeOK, Server
      <4> QED
        BY <1>3, <4>1, <4>2, <4>3, <4>4, <4>5
    <3> QED
      BY <3>1, <3>2 DEF Unmoved
  <2>4. Workers' = Workers
    BY <2>1, <2>3, SameWorkers
  <2> QED
    BY <2>1, <2>4 DEF Status
<1> QED
  BY <1>1, <1>2, <1>3, BeginStep DEF RunServer, Succession!Next

LEMMA NextImplements ==
    ASSUME SuccessionInv, SuccessionInv', [Next]_vars
    PROVE  [Succession!Next]_<<options, Workers, Status>>
<1>1. ASSUME FileEvent \/ WriteFile \/ Signal \/ UNCHANGED vars
      PROVE  UNCHANGED <<options, Workers, Status>>
  <2>1. UNCHANGED <<proc, cancelled, options, ictx, main, servers>>
    BY <1>1 DEF FileEvent, WriteFile, Signal, vars, runVars
  <2>2. Workers' = Workers
    BY <2>1, SameWorkers DEF Unmoved
  <2> QED
    BY <2>1, <2>2 DEF Status
<1> QED
  BY <1>1, MainImplements, ServerImplements DEF Next

LEMMA InitImplements == Init => Succession!Init
<1>1. ASSUME Init PROVE Workers = {}
  BY <1>1 DEF Init, Workers
<1> QED
  BY <1>1, DefaultType DEF Init, Succession!Init, Status

(* For any configurations, command lines and interleavings, the goroutines *)
(* implement the succession of servers: one after the other, each with the *)
(* configuration in force, which never goes back to an older one.          *)
THEOREM ServersSucceed == Spec => ImplementsSuccession
<1>1. Init => SuccessionInv
  BY InitInv, InitWork, InitVersions DEF SuccessionInv
<1> QED
  BY <1>1, NextSuccession, NextImplements, InitImplements, PTL
     DEF Spec, ImplementsSuccession, Succession!Spec, Succession!vars
=============================================================================
