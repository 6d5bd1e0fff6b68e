----------------------------- MODULE Lifecycle -----------------------------
(***************************************************************************)
(* One gateway from start to end: main (src/cmd/event-gateway/main.go),    *)
(* the shutdown guard, the two HTTP servers, embedded etcd and the         *)
(* plugins, with the requests the events server has accepted.              *)
(*                                                                         *)
(* The build uses Go 1.9 (Dockerfile): Shutdown of an http.Server that is  *)
(* not yet listening is lost, and ListenAndServe returns as soon as        *)
(* Shutdown begins, while handlers still run.                              *)
(***************************************************************************)
EXTENDS Plugins

CONSTANTS
    Loggers     \* whether the servers have a logger: FALSE in main.go

ASSUME LoggersAssumption == Loggers \subseteq BOOLEAN

Servers == {"events", "config"}

VARIABLES
    dev,            \* the flag -dev: etcd is embedded
    logger,
    main,           \* where main is
    guard,          \* counter of the guard's WaitGroup
    shuttingDown,   \* the guard's channel is closed
    server,         \* the goroutine of each server
    shutter,        \* the goroutine in Listen that calls Shutdown
    etcd,           \* embedded etcd and its goroutine
    request,        \* requests to the events server
    outcome         \* of the process: it runs, main returned, or what ended it

lifeVars == <<dev, logger, main, guard, shuttingDown, server, shutter, etcd, request, outcome>>
vars == <<lifeVars, pluginVars>>

Init ==
    /\ PluginsInit
    /\ dev \in BOOLEAN /\ logger \in Loggers
    /\ main = "logger"
    /\ guard = 0 /\ shuttingDown = FALSE
    /\ server = [s \in Servers |-> "off"]
    /\ shutter = [s \in Servers |-> "off"]
    /\ etcd = "off"
    /\ request = [r \in Reactions |-> "new"]
    /\ outcome = "running"

InitiateShutdown == shuttingDown' = TRUE
Panic(where) == outcome' = where
Fatal == outcome' = "fatal"     \* log.Fatal: os.Exit(1)

----------------------------------------------------------------------------
(* main.                                                                   *)

BuildLogger ==
    /\ main = "logger"
    /\ main' = "etcd"
    /\ \/ UNCHANGED outcome
       \/ Panic("start")
    /\ UNCHANGED <<dev, logger, guard, shuttingDown, server, shutter, etcd, request, pluginVars>>

(* EmbedEtcd adds etcd to the guard once it is ready; when it does not     *)
(* start, there is nothing to wait for and it panics.                      *)
StartEtcd ==
    /\ main = "etcd"
    /\ main' = "store"
    /\ \/ dev /\ guard' = guard + 1 /\ etcd' = "running" /\ UNCHANGED <<shuttingDown, outcome>>
       \/ dev /\ InitiateShutdown /\ Panic("start") /\ UNCHANGED <<guard, etcd>>
       \/ ~dev /\ UNCHANGED <<guard, etcd, shuttingDown, outcome>>
    /\ UNCHANGED <<dev, logger, server, shutter, request, pluginVars>>

NewStore ==
    /\ main = "store"
    /\ main' = "plugins"
    /\ \/ UNCHANGED outcome
       \/ Fatal
    /\ UNCHANGED <<dev, logger, guard, shuttingDown, server, shutter, etcd, request, pluginVars>>

(* NewManager launches a plugin, or fails and leaves the others running.   *)
LaunchPlugin ==
    /\ main = "plugins"
    /\ \/ (\E p \in Plugins : Launch(p)) /\ UNCHANGED outcome
       \/ Unlaunched # {} /\ Fatal /\ UNCHANGED pluginVars
    /\ UNCHANGED <<dev, logger, main, guard, shuttingDown, server, shutter, etcd, request>>

(* The cache and the workers, which need nothing from the rest.            *)
StartWorkers ==
    /\ main = "plugins" /\ Unlaunched = {}
    /\ main' = "events"
    /\ UNCHANGED <<dev, logger, guard, shuttingDown, server, shutter, etcd, request, outcome, pluginVars>>

StartServer(s, then) ==
    /\ guard' = guard + 1
    /\ server' = [server EXCEPT ![s] = "added"]
    /\ main' = then
    /\ UNCHANGED <<dev, logger, shuttingDown, shutter, etcd, request, outcome, pluginVars>>

StartEventsAPI == main = "events" /\ StartServer("events", "config")
StartConfigAPI == main = "config" /\ StartServer("config", "wait")

(* Mutant: main waits for the shutdown to begin, not to end.               *)
WaitForSignal ==
    /\ main = "wait" /\ shuttingDown
    /\ main' = "drain"
    /\ UNCHANGED <<dev, logger, guard, shuttingDown, server, shutter, etcd, request, outcome, pluginVars>>

Wait ==
    /\ main = "wait" /\ guard = 0
    /\ main' = "drain"
    /\ UNCHANGED <<dev, logger, guard, shuttingDown, server, shutter, etcd, request, outcome, pluginVars>>

(* Drain closes the router's channel and waits for the workers, which      *)
(* Router shows to leave.                                                  *)
Drain ==
    /\ \/ main = "drain" /\ main' = "draining"
       \/ main = "draining" /\ main' = "drained"
    /\ UNCHANGED <<dev, logger, guard, shuttingDown, server, shutter, etcd, request, outcome, pluginVars>>

Draining == main \in {"draining", "drained", "killed"}

KillPlugins ==
    /\ main = "drained"
    /\ main' = "killed"
    /\ Kill
    /\ UNCHANGED <<dev, logger, guard, shuttingDown, server, shutter, etcd, request, outcome>>

Return ==
    /\ main = "killed"
    /\ outcome' = "exited"
    /\ UNCHANGED <<dev, logger, main, guard, shuttingDown, server, shutter, etcd, request, pluginVars>>

Main ==
    \/ BuildLogger \/ StartEtcd \/ NewStore \/ LaunchPlugin
    \/ StartWorkers \/ StartEventsAPI \/ StartConfigAPI \/ Wait \/ Drain \/ KillPlugins \/ Return

----------------------------------------------------------------------------
(* The goroutine of a server: Listen, then Done.                           *)

(* Listen starts the goroutine that waits for the shutdown.                *)
Listen(s) ==
    /\ server[s] = "added"
    /\ server' = [server EXCEPT ![s] = "binding"]
    /\ shutter' = [shutter EXCEPT ![s] = "waiting"]
    /\ UNCHANGED <<dev, logger, main, guard, shuttingDown, etcd, request, outcome, pluginVars>>

(* ListenAndServe binds the port or returns an error, now or later.        *)
ListenAndServe(s) ==
    /\ \/ server[s] = "binding" /\ server' = [server EXCEPT ![s] = "listening"]
       \/ server[s] = "binding" /\ server' = [server EXCEPT ![s] = "returned"]
    /\ UNCHANGED <<dev, logger, main, guard, shuttingDown, shutter, etcd, request, outcome, pluginVars>>

ServeFails(s) ==
    /\ server[s] = "listening"
    /\ server' = [server EXCEPT ![s] = "returned"]
    /\ UNCHANGED <<dev, logger, main, guard, shuttingDown, shutter, etcd, request, outcome, pluginVars>>

(* The other goroutine of Listen: Shutdown ends a server that listens and  *)
(* does nothing to one that is about to.                                   *)
Shutdown(s) ==
    /\ shutter[s] = "waiting" /\ shuttingDown
    /\ shutter' = [shutter EXCEPT ![s] = IF server[s] = "binding" THEN "early" ELSE "done"]
    /\ server' = [server EXCEPT ![s] = IF @ = "listening" THEN "returned" ELSE @]
    /\ UNCHANGED <<dev, logger, main, guard, shuttingDown, etcd, request, outcome, pluginVars>>

(* Mutant: a server that ends tells nobody.                                *)
ListenReturnsQuietly(s) ==
    /\ server[s] = "returned"
    /\ server' = [server EXCEPT ![s] = "ended"]
    /\ IF logger THEN UNCHANGED outcome ELSE Panic("server")
    /\ UNCHANGED <<dev, logger, main, guard, shuttingDown, shutter, etcd, request, pluginVars>>

(* The error is logged before the shutdown is initiated: without a logger  *)
(* this panics.                                                            *)
ListenReturns(s) ==
    /\ server[s] = "returned"
    /\ server' = [server EXCEPT ![s] = "ended"]
    /\ IF logger THEN InitiateShutdown /\ UNCHANGED outcome
                 ELSE Panic("server") /\ UNCHANGED shuttingDown
    /\ UNCHANGED <<dev, logger, main, guard, shutter, etcd, request, pluginVars>>

ServerDone(s) ==
    /\ server[s] = "ended"
    /\ server' = [server EXCEPT ![s] = "done"]
    /\ guard' = guard - 1
    /\ UNCHANGED <<dev, logger, main, shuttingDown, shutter, etcd, request, outcome, pluginVars>>

----------------------------------------------------------------------------
(* The goroutine of embedded etcd.                                         *)

StopEtcd ==
    /\ etcd = "running" /\ shuttingDown
    /\ etcd' = "stopped" /\ guard' = guard - 1
    /\ UNCHANGED <<dev, logger, main, shuttingDown, server, shutter, request, outcome, pluginVars>>

(* Mutant: the failure is not taken off the guard before waiting for it.   *)
EtcdFailsWaiting ==
    /\ etcd = "running"
    /\ etcd' = "failed" /\ InitiateShutdown
    /\ UNCHANGED <<dev, logger, main, guard, server, shutter, request, outcome, pluginVars>>

(* Mutant: it is taken off twice.                                          *)
EtcdFailsTwice ==
    /\ etcd = "running"
    /\ etcd' = "failed" /\ InitiateShutdown /\ guard' = guard - 2
    /\ UNCHANGED <<dev, logger, main, server, shutter, request, outcome, pluginVars>>

EtcdFails ==
    /\ etcd = "running"
    /\ etcd' = "failed" /\ InitiateShutdown /\ guard' = guard - 1
    /\ UNCHANGED <<dev, logger, main, server, shutter, request, outcome, pluginVars>>

(* It waits for the same guard as main does, and panics.                   *)
EtcdPanics ==
    /\ etcd = "failed" /\ guard = 0
    /\ Panic("etcd")
    /\ UNCHANGED <<dev, logger, main, guard, shuttingDown, server, shutter, etcd, request, pluginVars>>

----------------------------------------------------------------------------
(* Requests: the handler of the events server.                             *)

Accept(r) ==
    /\ server["events"] = "listening" /\ request[r] = "new"
    /\ request' = [request EXCEPT ![r] = "accepted"]
    /\ UNCHANGED <<dev, logger, main, guard, shuttingDown, server, shutter, etcd, outcome, pluginVars>>

(* isDraining is asked first, then the plugins.                            *)
ServeHTTP(r) ==
    /\ request[r] = "accepted"
    /\ IF Draining
       THEN request' = [request EXCEPT ![r] = "503"] /\ UNCHANGED pluginVars
       ELSE request' = [request EXCEPT ![r] = "reacting"] /\ Begin(r)
    /\ UNCHANGED <<dev, logger, main, guard, shuttingDown, server, shutter, etcd, outcome>>

AskPlugins(r) ==
    /\ request[r] = "reacting"
    /\ React(r)
    /\ UNCHANGED lifeVars

(* The rest of the handler; after an error there is none.                  *)
Reply(r) ==
    /\ request[r] = "reacting" /\ verdict[r] # None
    /\ request' = [request EXCEPT ![r] = IF verdict[r] = "ok" THEN "processed" ELSE "stopped"]
    /\ UNCHANGED <<dev, logger, main, guard, shuttingDown, server, shutter, etcd, outcome, pluginVars>>

(* The process ends at once: a worker does not recover from a panic of     *)
(* authorizeEventType (`crashed` of Router), nor a watcher from one of     *)
(* DeleteRoute (`panicked` of TargetCache), nobody from the fatal error of *)
(* a map that is read while it is written (`Racing` of Exchange), and main *)
(* handles no signal.                                                      *)
Die ==
    /\ outcome' = "died"
    /\ UNCHANGED <<dev, logger, main, guard, shuttingDown, server, shutter, etcd, request, pluginVars>>

CrashPlugin(p) ==
    /\ Crash(p)
    /\ UNCHANGED lifeVars

ServerStep(s) == Listen(s) \/ ListenAndServe(s) \/ ListenReturns(s) \/ ServerDone(s)
Handle(r) == ServeHTTP(r) \/ AskPlugins(r) \/ Reply(r)

Next ==
    /\ outcome = "running"
    /\ \/ Main
       \/ \E s \in Servers : ServerStep(s) \/ Shutdown(s) \/ ServeFails(s)
       \/ StopEtcd \/ EtcdFails \/ EtcdPanics
       \/ Die
       \/ \E r \in Reactions : Accept(r) \/ Handle(r)
       \/ \E p \in Plugins : CrashPlugin(p)

Spec == Init /\ [][Next]_vars

(* Goroutines run; nothing has to fail, and nobody has to send requests.   *)
Fairness ==
    /\ WF_vars(outcome = "running" /\ Main)
    /\ \A s \in Servers :
        WF_vars(outcome = "running" /\ ServerStep(s)) /\ WF_vars(outcome = "running" /\ Shutdown(s))
    /\ WF_vars(outcome = "running" /\ (StopEtcd \/ EtcdPanics))
    /\ \A r \in Reactions : WF_vars(outcome = "running" /\ Handle(r))

FairSpec == Spec /\ Fairness

----------------------------------------------------------------------------
(* Properties.                                                             *)

TypeOK ==
    /\ dev \in BOOLEAN /\ logger \in BOOLEAN /\ shuttingDown \in BOOLEAN
    /\ main \in {"logger", "etcd", "store", "plugins", "events", "config", "wait", "drain",
                 "draining", "drained", "killed"}
    /\ guard \in 0..3
    /\ server \in [Servers -> {"off", "added", "binding", "listening", "returned", "ended", "done"}]
    /\ shutter \in [Servers -> {"off", "waiting", "early", "done"}]
    /\ etcd \in {"off", "running", "stopped", "failed"}
    /\ request \in [Reactions -> {"new", "accepted", "503", "reacting", "processed", "stopped"}]
    /\ process \in [Plugins -> {"off", "alive", "dead"}]
    /\ outcome \in {"running", "exited", "fatal", "start", "server", "etcd", "died"}

(* The guard's counter is the number of components that were added and     *)
(* have not finished, however the shutdown began.  main leaves Wait only   *)
(* when this is none of them.                                              *)
GuardCounts ==
    guard = Cardinality({s \in Servers : server[s] \notin {"off", "done"}})
            + (IF etcd = "running" THEN 1 ELSE 0)

(* From Drain on no server listens, so the requests that the router still  *)
(* sees were accepted before; and it takes a logger to get there.          *)
DrainIsLast ==
    main \in {"drain", "draining", "drained", "killed"} =>
        /\ logger /\ shuttingDown
        /\ \A s \in Servers : server[s] = "done"
        /\ etcd # "running"

(* Nothing that the process started is left when main returns: no plugin   *)
(* process, no etcd and no server.  When embedded etcd ends the process it *)
(* has waited for the servers, and a process that could not start never    *)
(* served.  A server without logger, and whatever makes the process Die,   *)
(* may leave all of them.                                                  *)
CleanEnd ==
    /\ outcome = "exited" =>
        /\ \A p \in Plugins : process[p] = "dead"
        /\ etcd # "running"
        /\ \A s \in Servers : server[s] = "done"
    /\ outcome = "etcd" => \A s \in Servers : server[s] \in {"off", "done"}
    /\ outcome \in {"start", "fatal"} => \A s \in Servers : server[s] = "off"

(* Once a shutdown is initiated, or a server stops serving, the process    *)
(* ends, unless a server was told to shut down in the moment before it     *)
(* listened: it then serves on and main waits for it.                      *)
ShutdownEnds ==
    (shuttingDown \/ \E s \in Servers : server[s] = "returned") ~>
        (outcome # "running" \/ \E s \in Servers : shutter[s] = "early")
=============================================================================
