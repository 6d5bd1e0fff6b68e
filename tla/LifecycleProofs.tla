-------------------------- MODULE LifecycleProofs --------------------------
(***************************************************************************)
(* Proofs about Lifecycle and Plugins, for any number of plugins with any  *)
(* subscriptions and any number of requests.                               *)
(***************************************************************************)
EXTENDS Lifecycle, TLAPS, FiniteSetTheorems

(* What a component contributes to the guard's counter.                    *)
Holds(s) == IF server[s] \in {"off", "done"} THEN 0 ELSE 1
EtcdHolds == IF etcd = "running" THEN 1 ELSE 0

MainPCs == {"logger", "etcd", "store", "plugins", "events", "config", "wait", "drain",
            "draining", "drained", "killed"}
Starting == {"logger", "etcd", "store", "plugins"}
Ending == {"drain", "draining", "drained", "killed"}

(* The types, without the bound of the guard's counter, which follows from *)
(* what it counts.                                                         *)
LifeTypes ==
    /\ dev \in BOOLEAN /\ logger \in BOOLEAN /\ shuttingDown \in BOOLEAN
    /\ main \in MainPCs
    /\ guard \in Int
    /\ server \in [Servers -> {"off", "added", "binding", "listening", "returned", "ended", "done"}]
    /\ shutter \in [Servers -> {"off", "waiting", "early", "done"}]
    /\ etcd \in {"off", "running", "stopped", "failed"}
    /\ request \in [Reactions -> {"new", "accepted", "503", "reacting", "processed", "stopped"}]
    /\ process \in [Plugins -> {"off", "alive", "dead"}]
    /\ outcome \in {"running", "exited", "fatal", "start", "server", "etcd", "died"}

Counted == guard = Holds("events") + Holds("config") + EtcdHolds

(* Where main is tells which components have been started.                 *)
Started ==
    /\ main \in Starting \cup {"events"} => server["events"] = "off"
    /\ main \in Starting \cup {"events", "config"} => server["config"] = "off"
    /\ main = "config" => server["events"] # "off"
    /\ main \in {"wait"} \cup Ending => \A s \in Servers : server[s] # "off"
    /\ main \in {"logger", "etcd"} => etcd = "off"
    /\ main \notin Starting => Unlaunched = {}

(* A server that ended has told everybody, unless it took the process down.*)
Told ==
    /\ \A s \in Servers : server[s] = "done" => logger /\ shuttingDown
    /\ \A s \in Servers : server[s] = "ended" => (logger /\ shuttingDown) \/ outcome = "server"

Ended ==
    /\ main \in Ending => etcd # "running" /\ \A s \in Servers : server[s] = "done"
    /\ main = "killed" => \A p \in Plugins : process[p] = "dead"
    /\ outcome = "exited" => main = "killed"

LifeInv == LifeTypes /\ Counted /\ Started /\ Told /\ Ended /\ CleanEnd

(* The invariant holds in the beginning.                                   *)
LEMMA LifeInit == ASSUME Init PROVE LifeInv
<1>1. LifeTypes
  <2>1. dev \in BOOLEAN /\ logger \in BOOLEAN /\ shuttingDown \in BOOLEAN
    BY LoggersAssumption, Zenon DEF Init
  <2>2. QED BY <2>1 DEF Init, PluginsInit, LifeTypes, MainPCs
<1>2. Counted /\ Started /\ Told /\ Ended /\ CleanEnd
  BY DEF Init, PluginsInit, Counted, Holds, EtcdHolds, Servers, Started, Starting, Ending, Told,
     Ended, CleanEnd
<1>3. QED BY <1>1, <1>2 DEF LifeInv

(* main's steps.                                                           *)
LEMMA MainStep == ASSUME LifeInv, outcome = "running", Main PROVE LifeInv'
<1> USE DEF LifeInv
<1>0. CASE BuildLogger
  BY <1>0 DEF BuildLogger, Panic, pluginVars, LifeTypes, MainPCs, Counted, Holds,
     EtcdHolds, Servers, Started, Starting, Ending, Told, Ended, CleanEnd, Unlaunched
<1>1. CASE StartEtcd
  <2>1. LifeTypes'
    <3>1. shuttingDown' \in BOOLEAN
      BY <1>1, Zenon DEF StartEtcd, InitiateShutdown, LifeTypes
    <3>2. guard' \in Int /\ etcd' \in {"off", "running", "stopped", "failed"}
      BY <1>1 DEF StartEtcd, LifeTypes
    <3>3. QED BY <1>1, <3>1, <3>2 DEF StartEtcd, Panic, pluginVars, LifeTypes, MainPCs
  <2>2. Counted'
    BY <1>1 DEF StartEtcd, LifeTypes, Counted, Holds, EtcdHolds, Started, Starting
  <2>3. Started' /\ Told' /\ Ended' /\ CleanEnd'
    BY <1>1 DEF StartEtcd, InitiateShutdown, Panic, pluginVars, LifeTypes, Servers, Started,
       Starting, Ending, Told, Ended, CleanEnd, Unlaunched
  <2>4. QED BY <2>1, <2>2, <2>3
<1>2. CASE NewStore
  BY <1>2 DEF NewStore, Fatal, pluginVars, LifeTypes, MainPCs, Counted, Holds,
     EtcdHolds, Servers, Started, Starting, Ending, Told, Ended, CleanEnd, Unlaunched
<1>3. CASE LaunchPlugin
  BY <1>3 DEF LaunchPlugin, Launch, Fatal, pluginVars, LifeTypes, MainPCs, Counted, Holds,
     EtcdHolds, Servers, Started, Starting, Ending, Told, Ended, CleanEnd
<1>4. CASE StartWorkers
  BY <1>4 DEF StartWorkers, pluginVars, LifeTypes, MainPCs, Counted, Holds,
     EtcdHolds, Servers, Started, Starting, Ending, Told, Ended, CleanEnd, Unlaunched
<1>5. CASE StartEventsAPI
  <2>1. LifeTypes'
    BY <1>5 DEF StartEventsAPI, StartServer, pluginVars, LifeTypes, MainPCs, Servers
  <2>2. Counted' /\ Started' /\ Told' /\ Ended' /\ CleanEnd'
    BY <1>5 DEF StartEventsAPI, StartServer, pluginVars, LifeTypes, Counted, Holds, EtcdHolds,
       Servers, Started, Starting, Ending, Told, Ended, CleanEnd, Unlaunched
  <2>3. QED BY <2>1, <2>2
<1>6. CASE StartConfigAPI
  <2>1. LifeTypes'
    BY <1>6 DEF StartConfigAPI, StartServer, pluginVars, LifeTypes, MainPCs, Servers
  <2>2. Counted' /\ Started' /\ Told' /\ Ended' /\ CleanEnd'
    BY <1>6 DEF StartConfigAPI, StartServer, pluginVars, LifeTypes, Counted, Holds, EtcdHolds,
       Servers, Started, Starting, Ending, Told, Ended, CleanEnd, Unlaunched
  <2>3. QED BY <2>1, <2>2
<1>7. CASE Wait
  BY <1>7 DEF Wait, pluginVars, LifeTypes, MainPCs, Counted, Holds,
     EtcdHolds, Servers, Started, Starting, Ending, Told, Ended, CleanEnd, Unlaunched
<1>8. CASE Drain
  BY <1>8 DEF Drain, pluginVars, LifeTypes, MainPCs, Counted, Holds,
     EtcdHolds, Servers, Started, Starting, Ending, Told, Ended, CleanEnd, Unlaunched
<1>9. CASE KillPlugins
  BY <1>9 DEF KillPlugins, Kill, pluginVars, LifeTypes, MainPCs, Counted, Holds,
     EtcdHolds, Servers, Started, Starting, Ending, Told, Ended, CleanEnd, Unlaunched
<1>10. CASE Return
  BY <1>10 DEF Return, pluginVars, LifeTypes, MainPCs, Counted, Holds,
     EtcdHolds, Servers, Started, Starting, Ending, Told, Ended, CleanEnd, Unlaunched
<1>11. QED BY <1>0, <1>1, <1>2, <1>3, <1>4, <1>5, <1>6, <1>7, <1>8, <1>9, <1>10 DEF Main

(* The goroutines of the servers.                                          *)
LEMMA ServerSteps ==
    ASSUME LifeInv, outcome = "running", NEW s \in Servers,
           ServerStep(s) \/ Shutdown(s) \/ ServeFails(s)
    PROVE  LifeInv'
<1> USE DEF LifeInv
<1>1. CASE Listen(s) \/ ListenAndServe(s) \/ ServeFails(s)
  <2>1. LifeTypes'
    BY <1>1 DEF Listen, ListenAndServe, ServeFails, pluginVars, LifeTypes
  <2>2. Counted' /\ Started' /\ Told' /\ Ended' /\ CleanEnd'
    BY <1>1 DEF Listen, ListenAndServe, ServeFails, pluginVars, LifeTypes, Counted, Holds,
       EtcdHolds, Servers, Started, Starting, Ending, Told, Ended, CleanEnd, Unlaunched
  <2>3. QED BY <2>1, <2>2
<1>2. CASE Shutdown(s)
  <2>1. LifeTypes'
    BY <1>2 DEF Shutdown, pluginVars, LifeTypes
  <2>2. Counted' /\ Started' /\ Told' /\ Ended' /\ CleanEnd'
    BY <1>2 DEF Shutdown, pluginVars, LifeTypes, Counted, Holds,
       EtcdHolds, Servers, Started, Starting, Ending, Told, Ended, CleanEnd, Unlaunched
  <2>3. QED BY <2>1, <2>2
<1>3. CASE ListenReturns(s)
  <2>1. LifeTypes'
    BY <1>3 DEF ListenReturns, InitiateShutdown, Panic, pluginVars, LifeTypes
  <2>2. Counted' /\ Started' /\ Ended'
    BY <1>3 DEF ListenReturns, InitiateShutdown, Panic, pluginVars, LifeTypes, Counted, Holds,
       EtcdHolds, Servers, Started, Starting, Ending, Ended, Unlaunched
  <2>3. Told' /\ CleanEnd'
    BY <1>3 DEF ListenReturns, InitiateShutdown, Panic, pluginVars, LifeTypes, Told, CleanEnd
  <2>4. QED BY <2>1, <2>2, <2>3
<1>4. CASE ServerDone(s)
  <2>1. LifeTypes'
    BY <1>4 DEF ServerDone, pluginVars, LifeTypes
  <2>2. Counted' /\ Started' /\ Told' /\ Ended' /\ CleanEnd'
    BY <1>4 DEF ServerDone, pluginVars, LifeTypes, Counted, Holds,
       EtcdHolds, Servers, Started, Starting, Ending, Told, Ended, CleanEnd, Unlaunched
  <2>3. QED BY <2>1, <2>2
<1>5. QED BY <1>1, <1>2, <1>3, <1>4 DEF ServerStep

(* Embedded etcd.                                                          *)
LEMMA EtcdSteps ==
    ASSUME LifeInv, outcome = "running", StopEtcd \/ EtcdFails \/ EtcdPanics
    PROVE  LifeInv'
<1>1. LifeTypes'
  <2>1. shuttingDown' \in BOOLEAN
    BY Zenon DEF LifeInv, StopEtcd, EtcdFails, EtcdPanics, InitiateShutdown, LifeTypes
  <2>2. guard' \in Int /\ etcd' \in {"off", "running", "stopped", "failed"}
    BY DEF LifeInv, StopEtcd, EtcdFails, EtcdPanics, LifeTypes
  <2>3. QED BY <2>1, <2>2
        DEF LifeInv, StopEtcd, EtcdFails, EtcdPanics, Panic, pluginVars, LifeTypes
<1>2. Counted' /\ Started' /\ Ended'
  BY DEF LifeInv, StopEtcd, EtcdFails, EtcdPanics, InitiateShutdown, Panic, pluginVars, LifeTypes,
     Counted, Holds, EtcdHolds, Started, Starting, Ended, Ending, Unlaunched
<1>3. Told' /\ CleanEnd'
  BY DEF LifeInv, StopEtcd, EtcdFails, EtcdPanics, InitiateShutdown, Panic, pluginVars, LifeTypes,
     Counted, Holds, EtcdHolds, Servers, Told, CleanEnd
<1>4. QED BY <1>1, <1>2, <1>3 DEF LifeInv

(* The process ends at once.                                               *)
LEMMA DieStep ==
    ASSUME LifeInv, outcome = "running", Die
    PROVE  LifeInv'
BY DEF LifeInv, Die, pluginVars, LifeTypes, Counted, Holds, EtcdHolds,
   Started, Told, Ended, CleanEnd, Unlaunched

(* Requests and plugin processes that die.                                 *)
LEMMA RequestSteps ==
    ASSUME LifeInv, outcome = "running", NEW r \in Reactions, Accept(r) \/ Handle(r)
    PROVE  LifeInv'
<1>1. UNCHANGED <<dev, logger, main, guard, shuttingDown, server, shutter, etcd, outcome, process>>
  BY DEF Accept, Handle, ServeHTTP, AskPlugins, Reply, Begin, React, AskSubscriptions, CallReact,
     pluginVars, lifeVars
<1>2. request' \in [Reactions -> {"new", "accepted", "503", "reacting", "processed", "stopped"}]
  BY DEF LifeInv, LifeTypes, Accept, Handle, ServeHTTP, AskPlugins, Reply, lifeVars
<1>3. QED BY <1>1, <1>2 DEF LifeInv, LifeTypes, Counted, Holds, EtcdHolds, Started, Told, Ended,
                            CleanEnd, Unlaunched

(* A plugin crashes.                                                       *)
LEMMA CrashSteps ==
    ASSUME LifeInv, outcome = "running", NEW p \in Plugins, CrashPlugin(p)
    PROVE  LifeInv'
BY DEF LifeInv, CrashPlugin, Crash, lifeVars, LifeTypes, Counted, Holds, EtcdHolds, Started, Told,
   Ended, CleanEnd, Unlaunched

(* Every step keeps the invariant.                                         *)
LEMMA LifeStep == ASSUME LifeInv, [Next]_vars PROVE LifeInv'
<1>1. CASE Next
  BY <1>1, MainStep, ServerSteps, EtcdSteps, DieStep, RequestSteps, CrashSteps DEF Next
<1>2. CASE UNCHANGED vars
  BY <1>2 DEF vars, lifeVars, pluginVars, LifeInv, LifeTypes, Counted, Holds, EtcdHolds, Started,
     Told, Ended, CleanEnd, Unlaunched
<1>3. QED BY <1>1, <1>2

(* LifeInv is an invariant of main, its servers, etcd and its plugins.     *)
THEOREM LifeInductive == Spec => []LifeInv
<1>1. Init => LifeInv
  BY LifeInit
<1>2. LifeInv /\ [Next]_vars => LifeInv'
  BY LifeStep
<1>3. QED BY <1>1, <1>2, PTL DEF Spec

(* The servers that hold the guard, counted.                               *)
LEMMA HoldersCounted ==
    Cardinality({s \in Servers : server[s] \notin {"off", "done"}})
        = Holds("events") + Holds("config")
<1> DEFINE H == {s \in Servers : server[s] \notin {"off", "done"}}
<1>0. /\ IsFiniteSet({}) /\ Cardinality({}) = 0
      /\ \A x : IsFiniteSet({x}) /\ Cardinality({x}) = 1
  BY FS_EmptySet, FS_Singleton
<1>1. CASE Holds("events") = 0 /\ Holds("config") = 0
  <2>1. H = {} BY <1>1 DEF Holds, Servers
  <2>2. QED BY <1>0, <1>1, <2>1
<1>2. CASE Holds("events") = 1 /\ Holds("config") = 0
  <2>1. H = {"events"} BY <1>2 DEF Holds, Servers
  <2>2. QED BY <1>0, <1>2, <2>1
<1>3. CASE Holds("events") = 0 /\ Holds("config") = 1
  <2>1. H = {"config"} BY <1>3 DEF Holds, Servers
  <2>2. QED BY <1>0, <1>3, <2>1
<1>4. CASE Holds("events") = 1 /\ Holds("config") = 1
  <2>1. H = {"events"} \cup {"config"} /\ "config" \notin {"events"}
    BY <1>4 DEF Holds, Servers
  <2>2. Cardinality({"events"} \cup {"config"}) = Cardinality({"events"}) + 1
    BY <1>0, <2>1, FS_AddElement
  <2>3. QED BY <1>0, <1>4, <2>1, <2>2
<1>5. QED BY <1>1, <1>2, <1>3, <1>4 DEF Holds

(* The guard counts the servers and etcd that run, however the shutdown    *)
(* began and whoever else failed: main leaves Wait exactly when none does. *)
THEOREM GuardIsExact == Spec => []GuardCounts
<1>1. LifeInv => GuardCounts
  BY HoldersCounted DEF LifeInv, Counted, GuardCounts, EtcdHolds
<1>2. QED BY <1>1, LifeInductive, PTL

(* Every variable of the process has its type; in particular the counter   *)
(* of the guard never becomes negative, which would panic.                 *)
THEOREM LifecycleTyped == Spec => []TypeOK
<1>1. LifeInv => TypeOK
  <2>1. SUFFICES ASSUME LifeInv PROVE TypeOK
    OBVIOUS
  <2>2. guard \in 0..3
    BY <2>1 DEF LifeInv, Counted, Holds, EtcdHolds
  <2>3. QED BY <2>1, <2>2 DEF LifeInv, LifeTypes, MainPCs, TypeOK
<1>2. QED BY <1>1, LifeInductive, PTL

(* When main drains the router, every server has ended and told the others *)
(* and etcd is gone: nothing that is accepted from then on can be lost.    *)
THEOREM DrainComesLast == Spec => []DrainIsLast
<1>1. LifeInv => DrainIsLast
  BY DEF LifeInv, LifeTypes, Told, Ended, Ending, DrainIsLast, Servers
<1>2. QED BY <1>1, LifeInductive, PTL

(* When main returns, every plugin process, both servers and etcd have     *)
(* ended; etcd's panic comes only when no server serves (main.go:137-142,  *)
(* embedded.go:71-75).                                                     *)
THEOREM EndIsClean == Spec => []CleanEnd
<1>1. LifeInv => CleanEnd
  BY DEF LifeInv
<1>2. QED BY <1>1, LifeInductive, PTL
-----------------------------------------------------------------------------
(***************************************************************************)
(* The reactions of the plugins.                                           *)
(***************************************************************************)
Fresh(r) ==
    /\ reaction[r] = Idle
    /\ verdict[r] = None
    /\ refused[r] = {}
    /\ \A q \in Plugins : heard[r][q] = 0

(* React is at a plugin: those before it have been called, it itself for   *)
(* all but the subscriptions left, and those after it not at all.          *)
Underway(r) ==
    LET p == reaction[r].plugin
    IN  /\ p \in Plugins
        /\ verdict[r] = None
        /\ refused[r] = {}
        /\ \A q \in Plugins : q < p => Heard(r, q)
        /\ \A q \in Plugins : q > p => heard[r][q] = 0
        /\ reaction[r].left = None => heard[r][p] = 0
        /\ reaction[r].left # None =>
              /\ reaction[r].left # <<>>
              /\ process[p] = "alive" =>
                    heard[r][p] + Len(reaction[r].left) = Len(subscriptions[p])

Agreed(r) ==
    /\ reaction[r].plugin # 0
    /\ verdict[r] = "ok"
    /\ refused[r] = {}
    /\ \A q \in Plugins : Heard(r, q)

Stopped(r) ==
    /\ reaction[r].plugin # 0
    /\ verdict[r] = "error"
    /\ \E p \in Plugins :
          /\ refused[r] = {p}
          /\ \A q \in Plugins : q < p => Heard(r, q)
          /\ \A q \in Plugins : q > p => heard[r][q] = 0

ReactionTypes ==
    /\ subscriptions \in [Plugins -> Seq(Types)]
    /\ reaction \in [Reactions -> [plugin : Nat, left : Seq(Types) \cup {None}]]
    /\ heard \in [Reactions -> [Plugins -> Nat]]
    /\ verdict \in [Reactions -> {None, "ok", "error"}]
    /\ refused \in [Reactions -> SUBSET Plugins]

(* No plugin is asked before the events server listens, and so none is     *)
(* launched while one is asked.                                            *)
NotBeforeServing ==
    /\ server["events"] = "off" => \A r \in Reactions : request[r] = "new"
    /\ \A r \in Reactions : request[r] \in {"new", "accepted", "503"} => reaction[r] = Idle

Reaction(r) == Fresh(r) \/ Underway(r) \/ Agreed(r) \/ Stopped(r)

ReactInv == ReactionTypes /\ NotBeforeServing /\ \A r \in Reactions : Reaction(r)

(* The invariant about reactions holds in the beginning.                   *)
LEMMA ReactInit == ASSUME Init PROVE ReactInv
<1>1. subscriptions \in [Plugins -> Seq(Types)]
  BY PluginsAssumption DEF Init, PluginsInit
<1>2. ReactionTypes
  BY <1>1 DEF Init, PluginsInit, ReactionTypes, Idle
<1>3. NotBeforeServing
  BY DEF Init, PluginsInit, NotBeforeServing
<1>4. \A r \in Reactions : Fresh(r)
  BY DEF Init, PluginsInit, Fresh, Idle
<1>5. QED BY <1>2, <1>3, <1>4 DEF ReactInv, Reaction

(* A reaction that makes no step does not mind that plugins die.           *)
LEMMA ReactionKept ==
    ASSUME NEW r \in Reactions, Reaction(r),
           reaction'[r] = reaction[r], verdict'[r] = verdict[r], heard'[r] = heard[r],
           refused'[r] = refused[r], subscriptions' = subscriptions,
           \A p \in Plugins : process'[p] = "alive" => process[p] = "alive"
    PROVE  Reaction(r)'
<1>1. \A q \in Plugins : Heard(r, q) => Heard(r, q)'
  BY DEF Heard
<1>2. CASE Fresh(r)
  BY <1>2 DEF Reaction, Fresh
<1>3. CASE Underway(r)
  BY <1>1, <1>3 DEF Reaction, Underway
<1>4. CASE Agreed(r)
  BY <1>1, <1>4 DEF Reaction, Agreed
<1>5. CASE Stopped(r)
  BY <1>1, <1>5 DEF Reaction, Stopped
<1>6. QED BY <1>2, <1>3, <1>4, <1>5 DEF Reaction

(* React begins with nothing heard.                                        *)
LEMMA BeginStep ==
    ASSUME ReactInv, NEW r \in Reactions, Begin(r)
    PROVE  ReactionTypes' /\ Reaction(r)'
<1>0. ReactionTypes /\ PluginCount \in Nat
  BY PluginsAssumption DEF ReactInv
<1>1. reaction[r].plugin = 0
  BY DEF Begin, Idle
<1>2. Fresh(r)
  BY <1>1 DEF ReactInv, Reaction, Underway, Agreed, Stopped, Plugins
<1>3. reaction'[r] = [plugin |-> 1, left |-> None]
  BY <1>0 DEF Begin, ReactionTypes
<1>4. ReactionTypes'
  BY <1>0 DEF Begin, ReactionTypes
<1>5. CASE PluginCount = 0
  <2>1. verdict'[r] = "ok" /\ refused'[r] = {} /\ Plugins = {} /\ reaction'[r].plugin # 0
    BY <1>0, <1>2, <1>3, <1>5 DEF Begin, Fresh, ReactionTypes, Plugins
  <2>2. QED BY <1>4, <2>1 DEF Reaction, Agreed
<1>6. CASE PluginCount # 0
  <2>1. /\ verdict'[r] = None /\ refused'[r] = {} /\ reaction'[r].plugin = 1
        /\ reaction'[r].left = None /\ 1 \in Plugins /\ heard' = heard
    BY <1>0, <1>2, <1>3, <1>6 DEF Begin, Fresh, Plugins
  <2>2. \A q \in Plugins : heard[r][q] = 0 /\ ~(q < 1)
    BY <1>2 DEF Fresh, Plugins
  <2>3. Underway(r)'
    BY <2>1, <2>2 DEF Underway
  <2>4. QED BY <1>4, <2>3 DEF Reaction
<1>7. QED BY <1>5, <1>6

(* What Advance makes of a reaction whose plugin has been called for all   *)
(* but the subscriptions `left`.                                           *)
LEMMA AdvanceStep ==
    ASSUME ReactionTypes, NEW r \in Reactions, NEW left \in Seq(Types), Advance(r, left),
           heard' \in [Reactions -> [Plugins -> Nat]],
           reaction[r].plugin \in Plugins, refused[r] = {},
           UNCHANGED <<subscriptions, process, refused>>,
           \A q \in Plugins : q < reaction[r].plugin => Heard(r, q)',
           \A q \in Plugins : q > reaction[r].plugin => heard'[r][q] = 0,
           process[reaction[r].plugin] = "alive" =>
               heard'[r][reaction[r].plugin] + Len(left) = Len(subscriptions[reaction[r].plugin])
    PROVE  ReactionTypes' /\ Reaction(r)'
<1> DEFINE p == reaction[r].plugin
<1>0. p \in Nat /\ p >= 1 /\ p <= PluginCount /\ PluginCount \in Nat /\ None \notin Seq(Types)
      /\ Plugins = 1..PluginCount
  BY PluginsAssumption DEF Plugins
<1>1. CASE left # <<>>
  <2>1. reaction' = [reaction EXCEPT ![r] = [plugin |-> p, left |-> left]]
    BY <1>1 DEF Advance
  <2>2. reaction'[r].plugin = p /\ reaction'[r].left = left
    BY <2>1 DEF ReactionTypes
  <2>3. verdict' = [verdict EXCEPT ![r] = None]
    <3>1. ~(reaction'[r].plugin > PluginCount)
      BY <1>0, <2>2
    <3>2. verdict' = [verdict EXCEPT ![r] =
                        IF reaction'[r].plugin > PluginCount THEN "ok" ELSE None]
      BY DEF Advance
    <3>3. QED BY <3>1, <3>2
  <2>4. ReactionTypes'
    <3>1. [plugin |-> p, left |-> left] \in [plugin : Nat, left : Seq(Types) \cup {None}]
      BY <1>0
    <3>2. reaction' \in [Reactions -> [plugin : Nat, left : Seq(Types) \cup {None}]]
      BY <2>1, <3>1 DEF ReactionTypes
    <3>3. verdict' \in [Reactions -> {None, "ok", "error"}]
      BY <2>3 DEF ReactionTypes
    <3>4. QED BY <3>2, <3>3 DEF ReactionTypes
  <2>5. verdict'[r] = None /\ refused'[r] = {} /\ left # None
    BY <1>0, <2>3 DEF ReactionTypes
  <2> HIDE DEF p
  <2>6. Underway(r)'
    BY <1>1, <2>2, <2>5 DEF Underway, p
  <2>7. QED BY <2>4, <2>6 DEF Reaction
<1>2. CASE left = <<>>
  <2>1. reaction' = [reaction EXCEPT ![r] = [plugin |-> p + 1, left |-> None]]
    BY <1>2 DEF Advance
  <2>2. reaction'[r].plugin = p + 1 /\ reaction'[r].left = None
    BY <2>1 DEF ReactionTypes
  <2>3. verdict' = [verdict EXCEPT ![r] = IF p + 1 > PluginCount THEN "ok" ELSE None]
    BY <2>2 DEF Advance
  <2>4. ReactionTypes'
    <3>1. [plugin |-> p + 1, left |-> None] \in [plugin : Nat, left : Seq(Types) \cup {None}]
      BY <1>0
    <3>2. reaction' \in [Reactions -> [plugin : Nat, left : Seq(Types) \cup {None}]]
      BY <2>1, <3>1 DEF ReactionTypes
    <3>3. verdict' \in [Reactions -> {None, "ok", "error"}]
      BY <2>3 DEF ReactionTypes
    <3>4. QED BY <3>2, <3>3 DEF ReactionTypes
  <2>5. \A q \in Plugins : q < p + 1 => Heard(r, q)'
    <3>1. process[p] = "alive" => heard'[r][p] = Len(subscriptions[p])
      BY <1>0, <1>2 DEF ReactionTypes
    <3>2. p \in Int /\ \A q \in Plugins : q \in Int /\ (q < p + 1 => q < p \/ q = p)
      BY <1>0
    <3> HIDE DEF p
    <3>3. \A q \in Plugins : q < p => Heard(r, q)'
      BY DEF p
    <3>4. SUFFICES ASSUME NEW q \in Plugins, q < p + 1 PROVE Heard(r, q)'
      OBVIOUS
    <3>5. CASE q < p
      BY <3>3, <3>5
    <3>6. CASE q = p
      <4>1. process'[q] = process[q] /\ subscriptions' = subscriptions
        OBVIOUS
      <4>2. QED BY <3>1, <3>6, <4>1 DEF Heard
    <3>7. QED BY <3>2, <3>4, <3>5, <3>6
  <2>6. CASE p + 1 > PluginCount
    <3>1. verdict'[r] = "ok"
      BY <2>3, <2>6 DEF ReactionTypes
    <3>2. Agreed(r)'
      BY <1>0, <2>2, <2>5, <2>6, <3>1 DEF Agreed
    <3>3. QED BY <2>4, <3>2 DEF Reaction
  <2>7. CASE ~(p + 1 > PluginCount)
    <3>1. verdict'[r] = None /\ p + 1 \in Plugins
      BY <1>0, <2>3, <2>7 DEF ReactionTypes
    <3>2. \A q \in Plugins : q > p + 1 => heard'[r][q] = 0
      BY <1>0
    <3>3. heard'[r][p + 1] = 0
      BY <1>0, <3>1
    <3> HIDE DEF p
    <3>4. Underway(r)'
      BY <2>2, <2>5, <3>1, <3>2, <3>3 DEF Underway
    <3>5. QED BY <2>4, <3>4 DEF Reaction
  <2>8. QED BY <2>6, <2>7
<1>3. QED BY <1>1, <1>2

(* One step of React, for one plugin.                                      *)
LEMMA ReactStep ==
    ASSUME ReactInv, NEW r \in Reactions, React(r)
    PROVE  ReactionTypes' /\ Reaction(r)'
<1> DEFINE p == reaction[r].plugin
<1>0. ReactionTypes /\ Reacting(r) /\ p \in Plugins /\ verdict[r] = None
      /\ None \notin Seq(Types) \cup {"ok", "error"}
  BY PluginsAssumption DEF ReactInv, React, AskSubscriptions, CallReact, Reacting
<1>1. Underway(r)
  BY <1>0, PluginsAssumption DEF ReactInv, Reaction, Fresh, Agreed, Stopped, Idle, Plugins
<1>2. CASE AskSubscriptions(r)
  <2>1. Asked(p) \in Seq(Types)
    BY <1>0 DEF Asked, ReactionTypes
  <2>2. Advance(r, Asked(p)) /\ UNCHANGED <<subscriptions, process, heard, refused>>
        /\ reaction[r].left = None
    BY <1>2 DEF AskSubscriptions
  <2>3. /\ refused[r] = {} /\ heard[r][p] = 0
        /\ \A q \in Plugins : q < p => Heard(r, q)
        /\ \A q \in Plugins : q > p => heard[r][q] = 0
    BY <1>1, <2>2 DEF Underway
  <2>4. process[p] = "alive" => heard'[r][p] + Len(Asked(p)) = Len(subscriptions[p])
    BY <1>0, <2>2, <2>3 DEF Asked, ReactionTypes
  <2>5. \A q \in Plugins : q < p => Heard(r, q)'
    BY <2>2, <2>3 DEF Heard
  <2>6. heard' \in [Reactions -> [Plugins -> Nat]] /\ \A q \in Plugins : q > p => heard'[r][q] = 0
    BY <1>0, <2>2, <2>3 DEF ReactionTypes
  <2>7. QED BY <1>0, <2>1, <2>2, <2>3, <2>4, <2>5, <2>6, AdvanceStep
<1>3. CASE CallReact(r)
  <2>1. /\ reaction[r].left \in Seq(Types) /\ reaction[r].left # <<>>
        /\ reaction[r].left # None
    BY <1>0, <1>1, <1>3 DEF CallReact, Underway, ReactionTypes
  <2>2. /\ heard' = [heard EXCEPT ![r][p] = @ + 1]
        /\ UNCHANGED <<subscriptions, process>>
    BY <1>3 DEF CallReact
  <2>3. /\ heard' \in [Reactions -> [Plugins -> Nat]]
        /\ heard'[r][p] = heard[r][p] + 1
        /\ \A q \in Plugins : q # p => heard'[r][q] = heard[r][q]
    <3>1. heard[r] \in [Plugins -> Nat] /\ heard[r][p] \in Nat
      BY <1>0 DEF ReactionTypes
    <3>2. QED BY <1>0, <2>2, <3>1 DEF ReactionTypes
  <2>4. /\ refused[r] = {}
        /\ \A q \in Plugins : q < p => Heard(r, q)
        /\ \A q \in Plugins : q > p => heard[r][q] = 0
        /\ process[p] = "alive" => heard[r][p] + Len(reaction[r].left) = Len(subscriptions[p])
    BY <1>1, <2>1 DEF Underway
  <2>5. p \in Nat /\ \A q \in Plugins : q \in Nat /\ (q < p \/ q > p => q # p)
    BY <1>0 DEF Plugins
  <2>6. \A q \in Plugins : q < p => Heard(r, q)'
    BY <2>2, <2>3, <2>4, <2>5 DEF Heard
  <2>7. \A q \in Plugins : q > p => heard'[r][q] = 0
    BY <2>3, <2>4, <2>5
  <2>8. CASE Advance(r, Tail(reaction[r].left)) /\ refused' = refused
    <3>1. Tail(reaction[r].left) \in Seq(Types)
          /\ Len(Tail(reaction[r].left)) = Len(reaction[r].left) - 1
          /\ Len(reaction[r].left) \in Nat
      BY <2>1
    <3>2. heard[r][p] \in Nat
      BY <1>0 DEF ReactionTypes
    <3>3. process[p] = "alive" =>
            heard'[r][p] + Len(Tail(reaction[r].left)) = Len(subscriptions[p])
      <4> HIDE DEF p
      <4>1. heard'[r][p] = heard[r][p] + 1
        BY <2>3
      <4>2. process[p] = "alive" => heard[r][p] + Len(reaction[r].left) = Len(subscriptions[p])
        BY <2>4
      <4>3. QED BY <3>1, <3>2, <4>1, <4>2
    <3>4. QED BY <1>0, <2>2, <2>3, <2>4, <2>6, <2>7, <2>8, <3>1, <3>3, AdvanceStep
  <2>9. CASE /\ refused' = [refused EXCEPT ![r] = @ \cup {p}]
             /\ reaction' = [reaction EXCEPT ![r].left = <<>>]
             /\ verdict' = [verdict EXCEPT ![r] = "error"]
    <3>1. refused'[r] = {p} /\ verdict'[r] = "error"
      BY <1>0, <2>4, <2>9 DEF ReactionTypes
    <3>2. reaction' \in [Reactions -> [plugin : Nat, left : Seq(Types) \cup {None}]]
          /\ reaction'[r].plugin = p
      <4>1. reaction[r] \in [plugin : Nat, left : Seq(Types) \cup {None}]
        BY <1>0 DEF ReactionTypes
      <4>2. [reaction[r] EXCEPT !.left = <<>>] \in [plugin : Nat, left : Seq(Types) \cup {None}]
            /\ [reaction[r] EXCEPT !.left = <<>>].plugin = p
        <5>1. ASSUME NEW x \in [plugin : Nat, left : Seq(Types) \cup {None}]
              PROVE  /\ [x EXCEPT !.left = <<>>] \in [plugin : Nat, left : Seq(Types) \cup {None}]
                     /\ [x EXCEPT !.left = <<>>].plugin = x.plugin
          <6>1. <<>> \in Seq(Types) \cup {None}
            OBVIOUS
          <6> DEFINE L == Seq(Types) \cup {None}
          <6> HIDE DEF L
          <6>2. x \in [plugin : Nat, left : L] /\ <<>> \in L
            BY <5>1, <6>1 DEF L
          <6>3. [x EXCEPT !.left = <<>>] \in [plugin : Nat, left : L]
                /\ [x EXCEPT !.left = <<>>].plugin = x.plugin
            BY <6>2
          <6>4. QED BY <6>3 DEF L
        <5>2. QED BY <4>1, <5>1
      <4>3. reaction' = [reaction EXCEPT ![r] = [reaction[r] EXCEPT !.left = <<>>]]
        BY <2>9
      <4>4. QED BY <1>0, <4>2, <4>3 DEF ReactionTypes
    <3>3. ReactionTypes'
      BY <1>0, <2>2, <2>3, <2>9, <3>2 DEF ReactionTypes
    <3>4. reaction'[r].plugin # 0
      BY <1>0, <3>2 DEF Plugins
    <3>5. Stopped(r)'
      BY <1>0, <2>6, <2>7, <3>1, <3>4 DEF Stopped
    <3>6. QED BY <3>3, <3>5 DEF Reaction
  <2>10. QED BY <1>3, <2>8, <2>9 DEF CallReact, Failed
<1>4. QED BY <1>2, <1>3 DEF React

(* Every step keeps the invariant about reactions.                         *)
LEMMA ReactInvStep ==
    ASSUME LifeInv, ReactInv, Next
    PROVE  ReactInv'
<1>0. ReactionTypes /\ NotBeforeServing /\ (\A r \in Reactions : Reaction(r)) /\ LifeTypes
  BY DEF LifeInv, ReactInv
<1>1. ASSUME UNCHANGED <<reactVars, subscriptions>>,
             \A p \in Plugins : process'[p] = "alive" => process[p] = "alive"
      PROVE  ReactionTypes' /\ \A r \in Reactions : Reaction(r)'
  BY <1>0, <1>1, ReactionKept DEF reactVars, ReactionTypes
<1>2. ASSUME NEW r \in Reactions, ReactionTypes', Reaction(r)', UNCHANGED <<subscriptions, process>>,
             \A q \in Reactions \ {r} : /\ reaction'[q] = reaction[q] /\ verdict'[q] = verdict[q]
                                        /\ heard'[q] = heard[q] /\ refused'[q] = refused[q]
      PROVE  \A q \in Reactions : Reaction(q)'
  BY <1>0, <1>2, ReactionKept
<1>3. CASE UNCHANGED pluginVars
           /\ (\A r \in Reactions : request'[r] = request[r] \/ request'[r] \in {"processed", "stopped"}
                  \/ (request'[r] = "503" /\ request[r] = "accepted")
                  \/ (request'[r] = "accepted" /\ request[r] = "new"))
           /\ (server'["events"] = "off" => server["events"] = "off" /\ request' = request)
  <2>1. ReactionTypes' /\ \A r \in Reactions : Reaction(r)'
    BY <1>1, <1>3 DEF pluginVars, reactVars
  <2>2. NotBeforeServing'
    BY <1>0, <1>3 DEF NotBeforeServing, pluginVars
  <2>3. QED BY <2>1, <2>2 DEF ReactInv
<1>4. CASE \E p \in Plugins : CrashPlugin(p)
  <2>1. UNCHANGED <<reactVars, subscriptions, server, request>>
        /\ \A p \in Plugins : process'[p] = "alive" => process[p] = "alive"
    BY <1>0, <1>4 DEF CrashPlugin, Crash, reactVars, lifeVars, LifeTypes
  <2>2. QED BY <1>0, <1>1, <2>1 DEF ReactInv, NotBeforeServing, reactVars
<1>5. CASE KillPlugins
  <2>1. UNCHANGED <<reactVars, subscriptions, server, request>>
        /\ \A p \in Plugins : process'[p] = "alive" => process[p] = "alive"
    BY <1>0, <1>5 DEF KillPlugins, Kill, reactVars
  <2>2. QED BY <1>0, <1>1, <2>1 DEF ReactInv, NotBeforeServing, reactVars
<1>6. CASE LaunchPlugin
  <2>1. \A r \in Reactions : reaction[r] = Idle
    BY <1>6 DEF LifeInv, Started, Starting, LaunchPlugin, ReactInv, NotBeforeServing
  <2>2. UNCHANGED <<reactVars, subscriptions, server, request>>
    BY <1>6 DEF LaunchPlugin, Launch, reactVars, pluginVars
  <2>3. \A r \in Reactions : Fresh(r)
    BY <1>0, <2>1 DEF Reaction, Underway, Agreed, Stopped, Idle, Plugins
  <2>4. \A r \in Reactions : Fresh(r)'
    BY <2>2, <2>3 DEF Fresh, reactVars
  <2>5. QED BY <1>0, <2>2, <2>4
        DEF ReactInv, ReactionTypes, NotBeforeServing, Reaction, reactVars
<1>7. ASSUME NEW r \in Reactions, Handle(r)
      PROVE  ReactInv'
  <2>1. CASE Reply(r) \/ (ServeHTTP(r) /\ Draining)
    <3>1. server["events"] # "off"
      BY <1>0, <2>1 DEF NotBeforeServing, Reply, ServeHTTP
    <3>2. QED BY <1>0, <1>3, <2>1, <3>1 DEF Reply, ServeHTTP, LifeTypes
  <2>2. CASE ServeHTTP(r) /\ ~Draining
    <3>1. Begin(r) /\ request' = [request EXCEPT ![r] = "reacting"] /\ UNCHANGED server
      BY <2>2 DEF ServeHTTP
    <3>2. ReactionTypes' /\ Reaction(r)'
      BY <3>1, BeginStep
    <3>3. \A q \in Reactions \ {r} : /\ reaction'[q] = reaction[q] /\ verdict'[q] = verdict[q]
                                     /\ heard'[q] = heard[q] /\ refused'[q] = refused[q]
      BY <1>0, <3>1 DEF Begin, ReactionTypes
    <3>4. NotBeforeServing'
      BY <1>0, <2>2, <3>1, <3>3 DEF NotBeforeServing, LifeTypes, ServeHTTP
    <3>5. QED BY <1>2, <3>1, <3>2, <3>3, <3>4 DEF ReactInv, Begin
  <2>3. CASE AskPlugins(r)
    <3>1. React(r) /\ UNCHANGED <<server, request>> /\ request[r] = "reacting"
      BY <2>3 DEF AskPlugins, lifeVars
    <3>2. ReactionTypes' /\ Reaction(r)'
      BY <3>1, ReactStep
    <3>3. \A q \in Reactions \ {r} : /\ reaction'[q] = reaction[q] /\ verdict'[q] = verdict[q]
                                     /\ heard'[q] = heard[q] /\ refused'[q] = refused[q]
      BY <1>0, <3>1 DEF React, AskSubscriptions, CallReact, Failed, Advance, ReactionTypes
    <3>4. NotBeforeServing'
      BY <1>0, <3>1, <3>3 DEF NotBeforeServing
    <3>5. QED BY <1>2, <3>1, <3>2, <3>3, <3>4 DEF ReactInv, React, AskSubscriptions, CallReact
  <2>4. QED BY <1>7, <2>1, <2>2, <2>3 DEF Handle
<1>8. ASSUME NEW r \in Reactions, Accept(r)
      PROVE  ReactInv'
  BY <1>0, <1>3, <1>8 DEF Accept, LifeTypes
<1>9. CASE \E s \in Servers : ServerStep(s) \/ Shutdown(s) \/ ServeFails(s)
  <2>1. UNCHANGED <<pluginVars, request>> /\ (server'["events"] = "off" => server["events"] = "off")
    BY <1>0, <1>9 DEF ServerStep, Shutdown, ServeFails, Listen, ListenAndServe, ListenReturns,
       ServerDone, LifeTypes, Servers
  <2>2. QED BY <1>3, <2>1
<1>10. CASE StopEtcd \/ EtcdFails \/ EtcdPanics \/ Die
  BY <1>3, <1>10 DEF StopEtcd, EtcdFails, EtcdPanics, Die
<1>11. CASE Main /\ ~LaunchPlugin /\ ~KillPlugins
  <2>1. UNCHANGED <<pluginVars, request>> /\ (server'["events"] = "off" => server["events"] = "off")
    BY <1>0, <1>11 DEF Main, BuildLogger, StartEtcd, NewStore, StartWorkers, StartEventsAPI,
       StartConfigAPI, StartServer, Wait, Drain, Return, LifeTypes, Servers
  <2>2. QED BY <1>3, <2>1
<1>12. QED BY <1>4, <1>5, <1>6, <1>7, <1>8, <1>9, <1>10, <1>11 DEF Next

(* React of the plugin manager: an error is returned exactly if a plugin   *)
(* refused a sync subscription, every living plugin before that one was    *)
(* called for each of its subscriptions and none after it, whichever       *)
(* plugins die in between and however many requests react at once.         *)
THEOREM RefusalsObeyed == Spec => []RefusalObeyed
<1>1. Init => ReactInv
  BY ReactInit
<1>2. LifeInv /\ ReactInv /\ [Next]_vars => ReactInv'
  <2>1. CASE UNCHANGED vars /\ ReactInv
    <3>1. \A r \in Reactions : Reaction(r)'
      BY <2>1, ReactionKept DEF vars, pluginVars, ReactInv
    <3>2. QED BY <2>1, <3>1 DEF vars, lifeVars, pluginVars, ReactInv, ReactionTypes, NotBeforeServing
  <2>2. QED BY <2>1, ReactInvStep
<1>3. ReactInv => RefusalObeyed
  <2>1. SUFFICES ASSUME ReactInv, NEW r \in Reactions
                 PROVE  /\ verdict[r] = "ok" => Agreed(r)
                        /\ verdict[r] = "error" => Stopped(r)
    <3>1. \A p \in Plugins : 1..(p - 1) \subseteq Plugins /\ (p + 1)..PluginCount \subseteq Plugins
            /\ (\A q \in 1..(p - 1) : q < p) /\ (\A q \in (p + 1)..PluginCount : q > p)
      BY PluginsAssumption DEF Plugins
    <3>2. QED BY <3>1 DEF RefusalObeyed, Agreed, Stopped
  <2>2. None \notin {"ok", "error"}
    BY PluginsAssumption
  <2>3. QED BY <2>1, <2>2 DEF ReactInv, Reaction, Fresh, Underway, Agreed, Stopped
<1>4. QED BY <1>1, <1>2, <1>3, LifeInductive, PTL DEF Spec
=============================================================================
