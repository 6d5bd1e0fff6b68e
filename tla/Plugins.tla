------------------------------ MODULE Plugins ------------------------------
(***************************************************************************)
(* The plugin manager (src/plugin): processes that are launched one after  *)
(* the other, asked about every system event, and killed at the end.       *)
(*                                                                         *)
(* One event type is followed.  A reaction is one call of Manager.React,   *)
(* in the goroutine of a request; several run at once.                     *)
(***************************************************************************)
EXTENDS Integers, Sequences, FiniteSets

CONSTANTS
    PluginCount,
    Subscriptions,  \* the sequences of types a plugin may subscribe to the event with
    Reactions,
    None

Plugins == 1..PluginCount
Types == {"sync", "async"}

ASSUME PluginsAssumption ==
    /\ PluginCount \in Nat
    /\ Subscriptions \subseteq Seq(Types)
    /\ None \notin Seq(Types) \cup {"ok", "error"}

VARIABLES
    subscriptions,  \* of each plugin
    process,        \* of each plugin: "off", "alive" or "dead"
    reaction,       \* where a reaction is: the plugin and the subscriptions left in it
    verdict,        \* what React returned: None, "ok" or "error"
    heard,          \* how often a plugin was called in a reaction
    refused         \* the plugins that returned an error for a sync subscription

pluginVars == <<subscriptions, process, reaction, verdict, heard, refused>>
reactVars == <<reaction, verdict, heard, refused>>

Idle == [plugin |-> 0, left |-> <<>>]

PluginsInit ==
    /\ subscriptions \in [Plugins -> Subscriptions]
    /\ process = [p \in Plugins |-> "off"]
    /\ reaction = [r \in Reactions |-> Idle]
    /\ verdict = [r \in Reactions |-> None]
    /\ heard = [r \in Reactions |-> [p \in Plugins |-> 0]]
    /\ refused = [r \in Reactions |-> {}]

----------------------------------------------------------------------------
(* The next plugin NewManager has to launch; there is none when it is      *)
(* done.                                                                   *)
Unlaunched == {p \in Plugins : process[p] = "off"}

(* The client starts the process, connects and dispenses the reacter.      *)
Launch(p) ==
    /\ p \in Unlaunched
    /\ \A q \in Unlaunched : p <= q
    /\ process' = [process EXCEPT ![p] = "alive"]
    /\ UNCHANGED <<subscriptions, reaction, verdict, heard, refused>>

(* A process ends by itself; nobody starts it again.                       *)
Crash(p) ==
    /\ process[p] = "alive"
    /\ process' = [process EXCEPT ![p] = "dead"]
    /\ UNCHANGED <<subscriptions, reaction, verdict, heard, refused>>

(* Mutant: the first plugin only.                                          *)
KillFirst ==
    /\ process' = [p \in Plugins |-> IF p = 1 THEN "dead" ELSE process[p]]
    /\ UNCHANGED <<subscriptions, reaction, verdict, heard, refused>>

Kill ==
    /\ process' = [p \in Plugins |-> IF process[p] = "alive" THEN "dead" ELSE process[p]]
    /\ UNCHANGED <<subscriptions, reaction, verdict, heard, refused>>

----------------------------------------------------------------------------
(* React.                                                                  *)

Reacting(r) == reaction[r].plugin \in Plugins /\ verdict[r] = None

(* React begins with the first plugin.                                     *)
Begin(r) ==
    /\ reaction[r] = Idle
    /\ reaction' = [reaction EXCEPT ![r] = [plugin |-> 1, left |-> None]]
    /\ verdict' = IF PluginCount = 0 THEN [verdict EXCEPT ![r] = "ok"] ELSE verdict
    /\ UNCHANGED <<subscriptions, process, heard, refused>>

(* The subscriptions are asked for at every event.  An error looks like a  *)
(* plugin without any.                                                     *)
Asked(p) == IF process[p] = "alive" THEN subscriptions[p] ELSE <<>>

(* Mutant: a plugin is called for its first subscription only.             *)
AdvanceOnce(r, left) ==
    LET p == reaction[r].plugin
    IN  /\ reaction' = [reaction EXCEPT ![r] =
                IF @.left = None /\ left # <<>> THEN [plugin |-> p, left |-> left]
                ELSE [plugin |-> p + 1, left |-> None]]
        /\ verdict' = [verdict EXCEPT ![r] = IF reaction'[r].plugin > PluginCount THEN "ok" ELSE None]

(* On to the next subscription, else to the next plugin, else return.      *)
Advance(r, left) ==
    LET p == reaction[r].plugin
    IN  /\ reaction' = [reaction EXCEPT ![r] =
                IF left # <<>> THEN [plugin |-> p, left |-> left]
                ELSE [plugin |-> p + 1, left |-> None]]
        /\ verdict' = [verdict EXCEPT ![r] = IF reaction'[r].plugin > PluginCount THEN "ok" ELSE None]

AskSubscriptions(r) ==
    /\ Reacting(r) /\ reaction[r].left = None
    /\ Advance(r, Asked(reaction[r].plugin))
    /\ UNCHANGED <<subscriptions, process, heard, refused>>

(* Only the error of a sync subscription counts.                           *)
Failed(r) ==
    IF Head(reaction[r].left) = "sync"
    THEN /\ refused' = [refused EXCEPT ![r] = @ \cup {reaction[r].plugin}]
         /\ reaction' = [reaction EXCEPT ![r].left = <<>>]
         /\ verdict' = [verdict EXCEPT ![r] = "error"]
    ELSE Advance(r, Tail(reaction[r].left)) /\ refused' = refused

(* The call of a plugin for one subscription may fail, and does when the   *)
(* process is gone.                                                        *)
CallReact(r) ==
    LET p == reaction[r].plugin
    IN  /\ Reacting(r) /\ reaction[r].left # None
        /\ \/ /\ process[p] = "alive"
              /\ Advance(r, Tail(reaction[r].left)) /\ refused' = refused
           \/ Failed(r)
        /\ heard' = [heard EXCEPT ![r][p] = @ + 1]
        /\ UNCHANGED <<subscriptions, process>>

React(r) == AskSubscriptions(r) \/ CallReact(r)

----------------------------------------------------------------------------
(* Properties.                                                             *)

(* Whatever other plugins did, p was called once for each of its           *)
(* subscriptions to the event.  Only one that died is passed over, sync or *)
(* not.                                                                    *)
Heard(r, p) == process[p] = "alive" => heard[r][p] = Len(subscriptions[p])

(* React returns an error exactly if a plugin returned one for a sync      *)
(* subscription; the plugins before it have been called, those after it    *)
(* never are.  Without an error all plugins have been called.              *)
RefusalObeyed ==
    \A r \in Reactions :
        /\ verdict[r] = "ok" => refused[r] = {} /\ \A p \in Plugins : Heard(r, p)
        /\ verdict[r] = "error" =>
            \E p \in Plugins :
                /\ refused[r] = {p}
                /\ \A q \in 1..(p - 1) : Heard(r, q)
                /\ \A q \in (p + 1)..PluginCount : heard[r][q] = 0
=============================================================================
