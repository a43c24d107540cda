-------------------------- MODULE ControllerManager --------------------------
(***************************************************************************)
(* The life of the controller-manager process: loading and watching its    *)
(* configuration file (pkg/config), the loop of Run that replaces the      *)
(* server when the configuration changes, and the goroutines that execute  *)
(* run (cmd/controller/app/server.go).                                     *)
(*                                                                         *)
(* Three kinds of goroutine act: the main one, viper's watcher, which      *)
(* calls back into this code, and one goroutine for each server started.   *)
(* They meet in the unbuffered channels cfgChangeCh and errCh, in the      *)
(* contexts, and in the variables ictx and s, which the server goroutines  *)
(* read from the frame of Run.                                             *)
(***************************************************************************)
EXTENDS ManagerOptions, InformerFactories, FiniteSets

CONSTANTS
    Contents,    \* what the configuration file may say
    MaxChanges,  \* bound: changes of the file
    MaxFaults    \* bound: managers that fail after they started

(* "config": the YAML of a Config; "mistyped": YAML that does not unmarshal *)
(* into one; "unparsable": not YAML.                                       *)
Forms   == {"config", "mistyped", "unparsable"}
Content == [form : Forms, kubernetes : KubernetesOptions]
Config  == [version : Nat, form : Forms, kubernetes : KubernetesOptions]

ASSUME ContentAssumption == Contents \subseteq Content

ASSUME BoundAssumption == MaxChanges \in Nat /\ MaxFaults \in Nat

(* What the program uses when no file could be read.                       *)
DefaultConfig ==
    [version |-> 0, form |-> "config", kubernetes |-> NewKubernetesOptions]

(* The file with the contents c, written as version n.                     *)
Written(n, c) == [version |-> n, form |-> c.form, kubernetes |-> c.kubernetes]

VARIABLES
    flags,      \* the command line
    file,       \* the configuration file
    loaded,     \* the configuration viper holds
    watching,   \* viper watches the file
    hooked,     \* the callback is registered
    events,     \* file events viper has not handled
    sending,    \* the configurations the callback is sending: none or one
    main,       \* where the main goroutine is
    cfg,        \* the configuration Run received last
    options,    \* the configuration in s
    ictx,       \* the number of the latest internal context, 0 before Run
    cancelled,  \* the contexts that are cancelled
    servers,    \* the server goroutines, numbered in the order of their start
    port,       \* the servers that hold the metrics port: none or one
    signal,     \* a shutdown signal has arrived
    proc,       \* "up", or how the process ended
    changes, faults

configVars == <<flags, file, loaded, watching, hooked, events, sending>>
runVars    == <<main, cfg, options, ictx, cancelled>>
vars       == <<configVars, runVars, servers, port, signal, proc, changes, faults>>

MainStates == {"load", "watch", "hook", "run", "select", "merge", "spawn", "returned"}

Server == [pc   : {"spawned", "client", "listen", "setup", "inform", "running",
                   "failed", "done"},
           ctx  : Nat,        \* the context it was called with
           opts : Config,     \* the configuration its client was built from
           asked   : SUBSET Informers,  \* the informers its handlers are on
           started : SUBSET Informers]  \* those that were started

(* A server goroutine that has not run yet.                                *)
NewServer == [pc |-> "spawned", ctx |-> 0, opts |-> DefaultConfig,
              asked |-> {}, started |-> {}]

(* Every variable holds values of its kind, and there is one server        *)
(* goroutine for each context.                                             *)
TypeOK ==
    /\ flags \in CommandLines
    /\ {file, loaded, cfg, options} \subseteq Config
    /\ watching \in BOOLEAN /\ hooked \in BOOLEAN
    /\ events \in Nat
    /\ sending \subseteq Config
    /\ main \in MainStates
    /\ ictx \in Nat
    /\ cancelled \subseteq Nat
    /\ servers \in [1..ictx -> Server]
    /\ port \subseteq 1..ictx
    /\ signal \in BOOLEAN
    /\ proc \in {"up", "exited", "fatal", "panicked"}
    /\ changes \in 0..MaxChanges
    /\ faults \in 0..MaxFaults

Init ==
    /\ flags \in CommandLines
    /\ \E c \in Contents : file = Written(1, c)
    /\ loaded = DefaultConfig
    /\ watching = FALSE
    /\ hooked = FALSE
    /\ events = 0
    /\ sending = {}
    /\ main = "load"
    /\ cfg = DefaultConfig
    /\ options = DefaultConfig
    /\ ictx = 0
    /\ cancelled = {}
    /\ servers = [g \in 1..0 |-> NewServer]
    /\ port = {}
    /\ signal = FALSE
    /\ proc = "up"
    /\ changes = 0
    /\ faults = 0

-----------------------------------------------------------------------------
(* The configuration file and viper.                                       *)

(* What viper holds after reading configuration c: the old one when c      *)
(* cannot be parsed.                                                       *)
ReadInConfig(c) == IF c.form = "unparsable" THEN loaded ELSE c

(* loadFromDisk returns the error of Unmarshal: it takes the place of that *)
(* of ReadInConfig, be it that there is no file or that it is no YAML.     *)
LoadError(c) == c.form = "mistyped"

WriteFile ==
    /\ proc = "up"
    /\ changes < MaxChanges
    /\ changes' = changes + 1
    /\ \E c \in Contents : file' = Written(changes + 2, c)
    /\ events' = IF watching THEN events + 1 ELSE events
    /\ UNCHANGED <<flags, loaded, watching, hooked, sending, runVars,
                   servers, port, signal, proc, faults>>

(* Mutant: the callback merges the configuration itself.                   *)
FileEventMerges ==
    /\ proc = "up"
    /\ events > 0
    /\ sending = {}
    /\ events' = events - 1
    /\ loaded' = ReadInConfig(file)
    /\ sending' = IF hooked /\ loaded'.form # "mistyped" THEN {loaded'} ELSE {}
    /\ options' = IF sending' = {} THEN options ELSE loaded'
    /\ UNCHANGED <<flags, file, watching, hooked, main, cfg, ictx,
                   cancelled, servers, port, signal, proc, changes, faults>>

(* Mutant: the callback does not wait for a receiver.                      *)
FileEventDrops ==
    /\ proc = "up"
    /\ events > 0
    /\ sending = {}
    /\ events' = events - 1
    /\ loaded' = ReadInConfig(file)
    /\ sending' = IF hooked /\ main = "select" /\ loaded'.form # "mistyped"
                  THEN {loaded'} ELSE {}
    /\ UNCHANGED <<flags, file, watching, hooked, runVars, servers, port,
                   signal, proc, changes, faults>>

(* The watcher reads the file again and calls back.  A configuration that  *)
(* does not unmarshal is only logged; any other, the old one included, is  *)
(* sent, and the watcher waits until the main goroutine takes it.          *)
FileEvent ==
    /\ proc = "up"
    /\ events > 0
    /\ sending = {}
    /\ events' = events - 1
    /\ loaded' = ReadInConfig(file)
    /\ sending' = IF hooked /\ loaded'.form # "mistyped" THEN {loaded'} ELSE {}
    /\ UNCHANGED <<flags, file, watching, hooked, runVars, servers, port,
                   signal, proc, changes, faults>>

-----------------------------------------------------------------------------
(* The main goroutine before Run: NewControllerManagerCommand.             *)

(* The flags are parsed into what was loaded, and Validate looks at the    *)
(* result: at the options of the start, and at no later ones.              *)
LoadFromDisk ==
    /\ proc = "up"
    /\ main = "load"
    /\ loaded' = ReadInConfig(file)
    /\ IF LoadError(loaded')
       THEN proc' = "fatal" /\ UNCHANGED <<main, options>>
       ELSE LET k == Flags(flags, loaded'.kubernetes)
            IN  IF Validate(flags, k)
                THEN /\ main' = "watch"
                     /\ options' = [loaded' EXCEPT !.kubernetes = k]
                     /\ UNCHANGED proc
                ELSE proc' = "exited" /\ UNCHANGED <<main, options>>
    /\ UNCHANGED <<flags, file, watching, hooked, events, sending, cfg, ictx,
                   cancelled, servers, port, signal, changes, faults>>

(* WatchConfig, then OnConfigChange: an event between the two finds no     *)
(* callback.                                                               *)
WatchConfig ==
    /\ proc = "up"
    /\ main = "watch"
    /\ watching' = TRUE
    /\ main' = "hook"
    /\ UNCHANGED <<flags, file, loaded, hooked, events, sending, cfg,
                   options, ictx, cancelled, servers, port, signal, proc,
                   changes, faults>>

OnConfigChange ==
    /\ proc = "up"
    /\ main = "hook"
    /\ hooked' = TRUE
    /\ main' = "run"
    /\ UNCHANGED <<flags, file, loaded, watching, events, sending, cfg,
                   options, ictx, cancelled, servers, port, signal, proc,
                   changes, faults>>

-----------------------------------------------------------------------------
(* The main goroutine in Run.                                              *)

(* Mutant: the new server gets no context of its own.                      *)
SpawnOnly ==
    /\ ictx' = ictx
    /\ servers' = [g \in 1..(ictx + 1) |-> IF g <= ictx THEN servers[g] ELSE NewServer]

(* A new context and a goroutine for a new server.                         *)
Renew ==
    /\ ictx' = ictx + 1
    /\ servers' = [g \in 1..(ictx + 1) |-> IF g <= ictx THEN servers[g] ELSE NewServer]

StartRun ==
    /\ proc = "up"
    /\ main = "run"
    /\ Renew
    /\ main' = "select"
    /\ UNCHANGED <<configVars, cfg, options, cancelled, port, signal,
                   proc, changes, faults>>

(* Mutant: the select declares a cancelFunc of its own, and the one of Run *)
(* stays that of the first context.                                        *)
CancelFirst == cancelled' = cancelled \cup {1}

(* cancelFunc cancels the latest context.                                  *)
Cancel == cancelled' = cancelled \cup {ictx}

(* Mutant: break, which leaves the select but not the loop.                *)
SelectSignalBreak ==
    /\ proc = "up"
    /\ main = "select"
    /\ signal
    /\ Cancel
    /\ UNCHANGED <<configVars, main, cfg, options, ictx, servers, port,
                   signal, proc, changes, faults>>

SelectSignal ==
    /\ proc = "up"
    /\ main = "select"
    /\ signal
    /\ Cancel
    /\ main' = "returned"
    /\ UNCHANGED <<configVars, cfg, options, ictx, servers, port, signal,
                   proc, changes, faults>>

(* Mutant: the old context is forgotten.                                   *)
SelectConfigOnly ==
    /\ proc = "up"
    /\ main = "select"
    /\ cfg' \in sending
    /\ sending' = {}
    /\ main' = "merge"
    /\ UNCHANGED <<flags, file, loaded, watching, hooked, events,
                   options, ictx, cancelled, servers, port, signal, proc,
                   changes, faults>>

(* A configuration is received: cancel, merge, then renew.                 *)
SelectConfig ==
    /\ proc = "up"
    /\ main = "select"
    /\ cfg' \in sending
    /\ sending' = {}
    /\ Cancel
    /\ main' = "merge"
    /\ UNCHANGED <<flags, file, loaded, watching, hooked, events,
                   options, ictx, servers, port, signal, proc, changes, faults>>

MergeConfig ==
    /\ proc = "up"
    /\ main = "merge"
    /\ options' = cfg
    /\ main' = "spawn"
    /\ UNCHANGED <<configVars, cfg, ictx, cancelled, servers, port,
                   signal, proc, changes, faults>>

StartNewServer ==
    /\ proc = "up"
    /\ main = "spawn"
    /\ Renew
    /\ main' = "select"
    /\ UNCHANGED <<configVars, cfg, options, cancelled, port, signal,
                   proc, changes, faults>>

(* The error of any server ends Run, the latest one's or an older one's.   *)
SelectError ==
    /\ proc = "up"
    /\ main = "select"
    /\ \E g \in 1..ictx :
          /\ servers[g].pc = "failed"
          /\ servers' = [servers EXCEPT ![g].pc = "done"]
    /\ Cancel
    /\ main' = "returned"
    /\ UNCHANGED <<configVars, cfg, options, ictx, port, signal, proc,
                   changes, faults>>

(* Run has returned, and closed errCh; the command ends the process.       *)
Exit ==
    /\ proc = "up"
    /\ main = "returned"
    /\ proc' = "exited"
    /\ UNCHANGED <<configVars, runVars, servers, port, signal, changes,
                   faults>>

-----------------------------------------------------------------------------
(* A server goroutine.                                                     *)

(* The closure reads ictx when the goroutine runs, not when it is made.    *)
CallRun(g) ==
    /\ proc = "up"
    /\ servers[g].pc = "spawned"
    /\ servers' = [servers EXCEPT ![g].pc = "client", ![g].ctx = ictx]
    /\ UNCHANGED <<configVars, runVars, port, signal, proc, changes,
                   faults>>

(* Mutant: the error is logged and dropped.                                *)
NewClientLogged(g) ==
    /\ proc = "up"
    /\ servers[g].pc = "client"
    /\ servers' = [servers EXCEPT
          ![g].pc = IF NewKubernetesClient(options.kubernetes) # {} THEN "listen" ELSE "done",
          ![g].opts = options]
    /\ UNCHANGED <<configVars, runVars, port, signal, proc, changes, faults>>

(* Building the client is the one step of run whose error is returned.     *)
BuildClient(g) ==
    /\ proc = "up"
    /\ servers[g].pc = "client"
    /\ servers' = [servers EXCEPT
          ![g].pc = IF NewKubernetesClient(options.kubernetes) # {} THEN "listen" ELSE "failed",
          ![g].opts = options]
    /\ UNCHANGED <<configVars, runVars, port, signal, proc, changes, faults>>

(* Mutant: a manager without a metrics port, as the one of ks-apiserver.   *)
NewManagerWithoutPort(g) ==
    /\ proc = "up"
    /\ servers[g].pc = "listen"
    /\ servers' = [servers EXCEPT ![g].pc = "setup"]
    /\ UNCHANGED <<configVars, runVars, port, signal, proc, changes, faults>>

(* manager.New listens on the metrics port, one per process; run ends the  *)
(* process when it cannot.                                                 *)
NewManager(g) ==
    /\ proc = "up"
    /\ servers[g].pc = "listen"
    /\ IF port = {}
       THEN /\ port' = {g}
            /\ servers' = [servers EXCEPT ![g].pc = "setup"]
            /\ UNCHANGED proc
       ELSE proc' = "fatal" /\ UNCHANGED <<port, servers>>
    /\ UNCHANGED <<configVars, runVars, signal, changes, faults>>

(* addAllControllers: every controller is added, which puts handlers on    *)
(* informers of the factories of this server.  The selectors are read only *)
(* for what it logs.                                                       *)
SetupControllers(g) ==
    /\ proc = "up"
    /\ servers[g].pc = "setup"
    /\ servers' = [servers EXCEPT ![g].pc = "inform", ![g].asked = Informers]
    /\ UNCHANGED <<configVars, runVars, port, signal, proc, changes, faults>>

(* The informers are started, and then the manager.                        *)
StartServer(g) ==
    /\ proc = "up"
    /\ servers[g].pc = "inform"
    /\ servers' = [servers EXCEPT ![g].pc = "running",
          ![g].started = StartFactories(NewInformerFactories(Clientsets), servers[g].asked)]
    /\ UNCHANGED <<configVars, runVars, port, signal, proc, changes, faults>>

(* Mutant: the end of a manager that was stopped is reported as an error.  *)
StopManagerReports(g) ==
    /\ proc = "up"
    /\ servers[g].pc = "running"
    /\ servers[g].ctx \in cancelled
    /\ servers' = [servers EXCEPT ![g].pc = "failed"]
    /\ port' = port \ {g}
    /\ UNCHANGED <<configVars, runVars, signal, proc, changes, faults>>

(* mgr.Start returns some time after its context is cancelled.             *)
StopManager(g) ==
    /\ proc = "up"
    /\ servers[g].pc = "running"
    /\ servers[g].ctx \in cancelled
    /\ servers' = [servers EXCEPT ![g].pc = "done"]
    /\ port' = port \ {g}
    /\ UNCHANGED <<configVars, runVars, signal, proc, changes, faults>>

(* manager.New finds no cluster, or mgr.Start fails, on a lost lease for   *)
(* instance.                                                               *)
ManagerFails(g) ==
    /\ proc = "up"
    /\ servers[g].pc \in {"listen", "running"}
    /\ faults < MaxFaults
    /\ faults' = faults + 1
    /\ proc' = "fatal"
    /\ UNCHANGED <<configVars, runVars, servers, port, signal, changes>>

(* A server that still wants to report its error when Run has returned     *)
(* sends on a closed channel.                                              *)
SendOnClosed(g) ==
    /\ proc = "up"
    /\ servers[g].pc = "failed"
    /\ main = "returned"
    /\ proc' = "panicked"
    /\ UNCHANGED <<configVars, runVars, servers, port, signal, changes,
                   faults>>

Signal ==
    /\ proc = "up"
    /\ main \notin {"load", "watch", "hook"}
    /\ ~signal
    /\ signal' = TRUE
    /\ UNCHANGED <<configVars, runVars, servers, port, proc, changes,
                   faults>>

-----------------------------------------------------------------------------
Main ==
    \/ LoadFromDisk \/ WatchConfig \/ OnConfigChange
    \/ StartRun \/ SelectSignal \/ SelectConfig \/ MergeConfig \/ StartNewServer
    \/ SelectError \/ Exit

RunServer(g) ==
    \/ CallRun(g) \/ BuildClient(g) \/ NewManager(g) \/ SetupControllers(g)
    \/ StartServer(g) \/ StopManager(g)

Next ==
    \/ Main
    \/ FileEvent
    \/ \E g \in 1..ictx : RunServer(g) \/ ManagerFails(g) \/ SendOnClosed(g)
    \/ WriteFile
    \/ Signal

Spec == Init /\ [][Next]_vars

(* The scheduler runs every goroutine that can step.                       *)
Fairness ==
    /\ WF_vars(Main)
    /\ WF_vars(FileEvent)
    /\ \A g \in 1..(MaxChanges + 1) : WF_vars(g \in DOMAIN servers /\ RunServer(g))

FairSpec == Spec /\ Fairness
-----------------------------------------------------------------------------
(* Properties.                                                             *)

(* Every context but the latest is cancelled, and the latest one is when   *)
(* Run is about to replace or has left it: no step of the loop loses the   *)
(* cancelFunc of a context in use (server.go 118, 120, 122, 130).          *)
EarlierContextsCancelled ==
    /\ 1..(ictx - 1) \subseteq cancelled
    /\ main \in {"merge", "spawn", "returned"} => ictx \in cancelled

(* A server whose context is not cancelled works with the options of the   *)
(* configuration merged last, although it reads both ictx and s without a  *)
(* lock while the main goroutine replaces them.                            *)
LiveServerHasOptions ==
    \A g \in 1..ictx :
       servers[g].pc \in {"listen", "setup", "inform", "running"} =>
          servers[g].ctx \in cancelled \/ servers[g].opts = options

(* server.go:195, "Start cache data after all informer is registered": the *)
(* handlers of a server that runs are on informers that were started, each *)
(* by the factory it was asked of.                                         *)
HandlersServed ==
    \A g \in 1..ictx : servers[g].pc = "running" =>
       servers[g].asked = Informers /\ servers[g].started = Informers

(* Two servers whose contexts are alive are never at work on the cluster   *)
(* at once, not even when their goroutines were called with one context    *)
(* (server.go 107, 125): each has a reconciler and a NameSpaceCache of its *)
(* own.  Nothing but the metrics port keeps them apart.                    *)
AtWork(g) == servers[g].started # {} /\ servers[g].ctx \notin cancelled

OneServerAtWork == \A g, h \in 1..ictx : AtWork(g) /\ AtWork(h) => g = h

(* To the cluster, a server is at work while the process is up.            *)
Workers ==
    IF proc = "up"
    THEN {[server |-> g, conf |-> servers[g].opts] : g \in {h \in 1..ictx : AtWork(h)}}
    ELSE {}

Status ==
    IF proc # "up" THEN "over" ELSE IF main = "returned" THEN "leaving" ELSE "up"

Succession == INSTANCE ServerSuccession
                 WITH Configs <- Config, conf <- options, workers <- Workers,
                      status <- Status

(* The goroutines implement the succession of ServerSuccession, though Run *)
(* waits for no server to stop before it starts the next one, and servers  *)
(* read ictx and s late (server.go:114, "when config changed, stop server  *)
(* and renew context, start new server"): one server after the other, each *)
(* with the configuration in force, which changes between servers only and *)
(* never goes back.                                                        *)
ImplementsSuccession == Succession!Spec

(* Run ends without a signal only when no client could be built from a     *)
(* configuration that was in force: a manager that is stopped because the  *)
(* configuration changed never ends it (server.go 129, 201).               *)
ErrorHasCause ==
    main = "returned" /\ ~signal =>
       \E g \in 1..ictx : /\ servers[g].pc = "done"
                          /\ NewKubernetesClient(servers[g].opts.kubernetes) = {}

(* A file event that arrives when the callback is registered brings the    *)
(* configuration in the file to the servers, or the process ends, unless   *)
(* the file can no longer be read: cfgChangeCh loses nothing, and no step  *)
(* blocks the watcher for ever.                                            *)
Usable(c) == c.form = "config"

ChangesApplied ==
    hooked /\ events > 0 ~>
       proc # "up" \/ options.version = file.version \/ ~Usable(file)

(* A shutdown signal ends the process, whatever the servers and the        *)
(* configuration do meanwhile (server.go 117-119).                         *)
ShutdownEnds == signal ~> proc # "up"

(* options.go:193, "MergeConfig merge new config without validation. When  *)
(* misconfigured, the app should just crash directly": a process that      *)
(* keeps options no client can be built from ends, those Validate would    *)
(* have accepted included.                                                 *)
MisconfiguredCrashes ==
    (<>[](NewKubernetesClient(options.kubernetes) = {})) => <>(proc # "up")

(* server.go:114, "when config changed, stop server and renew context,     *)
(* start new server": a change to a good configuration is no reason for    *)
(* the process to end by a fatal error.                                    *)
ReloadKeepsProcess == proc \notin {"fatal", "panicked"}

(* server.go:114 again, "when config changed": a change of the file after  *)
(* it was loaded reaches the servers in the end, or the process ends.      *)
EveryChangeApplied ==
    [](Usable(file)) => <>[](proc # "up" \/ options.version = file.version)

(* config.go:41, "Command line flags hold higher priority than             *)
(* configuration file": a server that is live uses the kubeconfig of the   *)
(* command line, when it gives one.                                        *)
CommandLineObeyed ==
    \A g \in 1..ictx :
       servers[g].pc = "running" /\ servers[g].ctx \notin cancelled =>
          flags.kubeconfig \in {Unset, servers[g].opts.kubernetes.kubeconfig}
=============================================================================
