------------------------------- MODULE Alerts -------------------------------
(***************************************************************************)
(* The alerting half of a master cycle (app/workers/scheduler.py) and its   *)
(* dispatch to Discord (app/alerts/discord.py): which of the opportunities  *)
(* found are alerted, what the alert history remembers of them, and how     *)
(* the webhook posts go.                                                    *)
(*                                                                          *)
(* A step is what a cycle does between two suspension points.  Choosing     *)
(* alerts, recording them and entering send_batch_alerts is one step: there *)
(* is no await in between.  Two cycles can be under way at once (Scheduler, *)
(* NoOverlappingRuns).  Scores are not modelled: where the code keeps the   *)
(* best of a list, the model keeps any.  The keys of the history name the   *)
(* item and the route of an opportunity but not its quality, so several     *)
(* opportunities can share one.                                             *)
(***************************************************************************)
EXTENDS Integers, FiniteSets

CONSTANTS
    Opps,          \* opportunities: item, quality and route
    AlertKeys,     \* what _alert_history is indexed by
    KeyOf,         \* key_fn: item and route, without the quality
    Channel,       \* the channel an opportunity is alerted on
    Category,      \* its item category; numbers stand for their alphabetical order
    Webhooks,      \* channels with a webhook url
    Profits,       \* profits a scan can compute
    Cycles,        \* master_cycle tasks
    Cooldown,      \* alert_cooldown_minutes
    TopPerCategory,  \* 10 in the code
    AlertLimit,    \* alert_limit_per_cycle
    MaxRetries,    \* max_retries of _send_webhook
    None,
    MaxTime        \* bound of the clock

ASSUME KeyAssumption == KeyOf \in [Opps -> AlertKeys]
ASSUME NoneAssumption == None \notin Opps /\ None \notin [time : Nat, profit : Profits]
ASSUME ProfitAssumption == Profits \subseteq Nat
ASSUME CooldownAssumption == Cooldown \in Nat
ASSUME LimitAssumption == /\ TopPerCategory \in Nat \ {0} /\ AlertLimit \in Nat
                          /\ MaxRetries \in Nat \ {0} /\ MaxTime \in Nat
ASSUME GroupAssumption == Category \in [Opps -> Nat]

VARIABLES
    now,             \* the clock
    alert_history,   \* QuantScheduler._alert_history
    enabled,         \* state.discord_alerts_enabled
    pc,              \* where each cycle is
    pending,         \* alerts a dispatch has still to send
    sending,         \* the alert whose POST is in flight
    attempt,         \* attempt of _send_webhook, counted from one
    alerted,         \* history: when and at which profit each was last chosen
    delivered        \* history: whether what was last chosen reached Discord

dispatch == <<pending, sending, attempt>>
vars == <<now, alert_history, enabled, pc, dispatch, alerted, delivered>>

Entries == [time : Nat, profit : Profits]

----------------------------------------------------------------------------
Lesser(a, b) == IF a <= b THEN a ELSE b

(* has_profit_jump: at least 15 percent more than the profit last alerted. *)
Jump(last, curr) == last > 0 /\ 100 * (curr - last) >= 15 * last

(* Mutant: an entry still suppresses when the cooldown has just elapsed. *)
CooledTooLong(entry, curr) ==
    entry # None => now - entry.time > Cooldown \/ Jump(entry.profit, curr)

(* An opportunity may be alerted, going by the entry of its key: it has     *)
(* cooled down or its profit has jumped.                                    *)
Cooled(entry, curr) ==
    entry # None => now - entry.time >= Cooldown \/ Jump(entry.profit, curr)

MayAlert(o, profit) == Cooled(alert_history[KeyOf[o]], profit)

(* Mutant: the history is pruned at half the cooldown, not at twice. *)
OutdatedEarly(entry) == entry # None /\ 2 * (now - entry.time) >= Cooldown

Outdated(entry) == entry # None /\ now - entry.time > 2 * Cooldown

Group(o) == {p \in Opps : Channel[p] = Channel[o] /\ Category[p] = Category[o]}

(* The best items of every category of a channel. *)
IsTop(top, fresh) ==
    \A o \in fresh :
        Cardinality(top \cap Group(o)) = Lesser(TopPerCategory, Cardinality(fresh \cap Group(o)))

(* The first AlertLimit alerts of every channel, which are sorted by category. *)
IsCut(cut, alerts) ==
    \A p \in alerts :
        LET all == {o \in alerts : Channel[o] = Channel[p]}
        IN  /\ Cardinality(cut \cap all) = Lesser(AlertLimit, Cardinality(all))
            /\ \A k \in all \cap cut, d \in all \ cut : Category[k] <= Category[d]

(* send_batch_alerts: what it may come to send of those chosen, some of which *)
(* are verified, while alerts are on.                                         *)
Batches(chosen) ==
    IF enabled
    THEN {cut \in SUBSET chosen :
             \E verified \in SUBSET chosen : cut \subseteq verified /\ IsCut(cut, verified)}
    ELSE {{}}

(* Of those chosen with one key the last one stays in the history. *)
AreLast(last, chosen) ==
    /\ last \subseteq chosen
    /\ \A o \in chosen : \E p \in last : KeyOf[p] = KeyOf[o]
    /\ \A o, p \in last : KeyOf[p] = KeyOf[o] => p = o

(* The history after the chosen ones are recorded. *)
Recorded(last, profit) ==
    [k \in AlertKeys |->
        IF \E o \in last : KeyOf[o] = k
        THEN [time |-> now, profit |-> profit[CHOOSE o \in last : KeyOf[o] = k]]
        ELSE alert_history[k]]

----------------------------------------------------------------------------
Init ==
    /\ now = 0
    /\ alert_history = [k \in AlertKeys |-> None]
    /\ enabled = FALSE
    /\ pc = [c \in Cycles |-> "idle"]
    /\ pending = [c \in Cycles |-> {}]
    /\ sending = [c \in Cycles |-> None]
    /\ attempt = [c \in Cycles |-> 0]
    /\ alerted = [o \in Opps |-> None]
    /\ delivered = [o \in Opps |-> FALSE]

(* master_cycle begins: the history is pruned, then items are ingested. *)
BeginCycle(c) ==
    /\ pc[c] = "idle"
    /\ pc' = [pc EXCEPT ![c] = "ingest"]
    /\ alert_history' =
         [k \in AlertKeys |-> IF Outdated(alert_history[k]) THEN None ELSE alert_history[k]]
    /\ UNCHANGED <<now, enabled, dispatch, alerted, delivered>>

(* The scan found opportunities; "found" passed the filters of tier, budget *)
(* and margin.  Those that have cooled down are ranked and recorded, and    *)
(* send_batch_alerts takes what is verified, up to its limits.              *)
ChooseAlerts(c, found, profit) ==
    /\ pc[c] = "ingest"
    /\ LET fresh == {o \in found : MayAlert(o, profit[o])}
       IN  \E chosen \in SUBSET fresh :
              /\ IsTop(chosen, fresh)
              /\ alerted' = [o \in Opps |-> IF o \in chosen
                                            THEN [time |-> now, profit |-> profit[o]]
                                            ELSE alerted[o]]
              /\ delivered' = [o \in Opps |-> delivered[o] /\ o \notin chosen]
              /\ \E last \in SUBSET chosen :
                    AreLast(last, chosen) /\ alert_history' = Recorded(last, profit)
              /\ \E batch \in Batches(chosen) : pending' = [pending EXCEPT ![c] = batch]
    /\ pc' = [pc EXCEPT ![c] = "dispatch"]
    /\ UNCHANGED <<now, enabled, sending, attempt>>

(* The cycle ends without alerts: ingestion was stopped, or a step raised. *)
AbortCycle(c) ==
    /\ pc[c] = "ingest"
    /\ pc' = [pc EXCEPT ![c] = "idle"]
    /\ UNCHANGED <<now, alert_history, enabled, dispatch, alerted, delivered>>

(* The alerts of a batch are taken channel by channel, by category. *)
NextAlert(c, o) ==
    /\ pc[c] = "dispatch" /\ sending[c] = None
    /\ o \in pending[c]
    /\ \A p \in pending[c] : Channel[p] = Channel[o] => Category[o] <= Category[p]

(* The channel has no webhook, or _send_webhook finds the alerts muted. *)
SkipAlert(c, o) ==
    /\ NextAlert(c, o)
    /\ ~enabled \/ Channel[o] \notin Webhooks
    /\ pending' = [pending EXCEPT ![c] = @ \ {o}]
    /\ UNCHANGED <<now, alert_history, enabled, pc, sending, attempt, alerted, delivered>>

(* The first POST of an alert goes out. *)
PostAlert(c, o) ==
    /\ NextAlert(c, o)
    /\ enabled /\ Channel[o] \in Webhooks
    /\ sending' = [sending EXCEPT ![c] = o]
    /\ attempt' = [attempt EXCEPT ![c] = 1]
    /\ UNCHANGED <<now, alert_history, enabled, pc, pending, alerted, delivered>>

(* Mutant: the attempts are not counted afresh for every alert. *)
EndAlertKeepsAttempt(c) ==
    /\ pending' = [pending EXCEPT ![c] = @ \ {sending[c]}]
    /\ sending' = [sending EXCEPT ![c] = None]
    /\ UNCHANGED attempt

(* _send_webhook returns for the alert that is being sent. *)
EndAlert(c) ==
    /\ pending' = [pending EXCEPT ![c] = @ \ {sending[c]}]
    /\ sending' = [sending EXCEPT ![c] = None]
    /\ attempt' = [attempt EXCEPT ![c] = 0]

(* 200 or 204 *)
Accepted(c) ==
    /\ sending[c] # None
    /\ delivered' = [delivered EXCEPT ![sending[c]] = TRUE]
    /\ EndAlert(c)
    /\ UNCHANGED <<now, alert_history, enabled, pc, alerted>>

(* Mutant: when no attempt is left they are counted afresh. *)
RepeatForever(c) ==
    /\ attempt' = [attempt EXCEPT ![c] = (@ % MaxRetries) + 1]
    /\ UNCHANGED <<pending, sending>>

(* Another attempt after a pause, or none is left. *)
Repeat(c) ==
    IF attempt[c] < MaxRetries
    THEN attempt' = [attempt EXCEPT ![c] = @ + 1] /\ UNCHANGED <<pending, sending>>
    ELSE EndAlert(c)

(* 429, another status or an exception; a POST that timed out may still have *)
(* reached the channel.                                                      *)
Refused(c) ==
    /\ sending[c] # None
    /\ Repeat(c)
    /\ \/ UNCHANGED delivered
       \/ delivered' = [delivered EXCEPT ![sending[c]] = TRUE]
    /\ UNCHANGED <<now, alert_history, enabled, pc, alerted>>

(* send_batch_alerts returns; the cycle is complete. *)
EndDispatch(c) ==
    /\ pc[c] = "dispatch" /\ sending[c] = None /\ pending[c] = {}
    /\ pc' = [pc EXCEPT ![c] = "idle"]
    /\ UNCHANGED <<now, alert_history, enabled, dispatch, alerted, delivered>>

(* The cycle's task is cancelled, or formatting an alert raises: what has not *)
(* been sent is dropped.                                                      *)
DropDispatch(c) ==
    /\ pc[c] = "dispatch"
    /\ pc' = [pc EXCEPT ![c] = "idle"]
    /\ pending' = [pending EXCEPT ![c] = {}]
    /\ sending' = [sending EXCEPT ![c] = None]
    /\ attempt' = [attempt EXCEPT ![c] = 0]
    /\ UNCHANGED <<now, alert_history, enabled, alerted, delivered>>

(* POST /discord-alerts, POST /settings, !alerts on and off *)
ToggleAlerts ==
    /\ enabled' = ~enabled
    /\ UNCHANGED <<now, alert_history, pc, dispatch, alerted, delivered>>

Tick ==
    /\ now < MaxTime
    /\ now' = now + 1
    /\ UNCHANGED <<alert_history, enabled, pc, dispatch, alerted, delivered>>

----------------------------------------------------------------------------
Dispatch(c) ==
    \/ \E o \in Opps : SkipAlert(c, o) \/ PostAlert(c, o)
    \/ Accepted(c) \/ Refused(c) \/ EndDispatch(c)

Choose(c) == \E found \in SUBSET Opps : \E profit \in [found -> Profits] :
                 ChooseAlerts(c, found, profit)

Next ==
    \/ \E c \in Cycles : \/ BeginCycle(c) \/ Choose(c) \/ AbortCycle(c)
                         \/ Dispatch(c) \/ DropDispatch(c)
    \/ ToggleAlerts \/ Tick

Spec == Init /\ [][Next]_vars

(* Every POST has a timeout and every pause an end, so a dispatch goes on. *)
FairSpec == Spec /\ \A c \in Cycles : WF_vars(Dispatch(c))

----------------------------------------------------------------------------
(* Properties *)

(* Clock, history and dispatches have their types; an alert is in flight only *)
(* in a dispatch that still holds it, on one of its attempts.                 *)
TypeOK ==
    /\ now \in Nat /\ enabled \in BOOLEAN
    /\ alert_history \in [AlertKeys -> Entries \cup {None}]
    /\ alerted \in [Opps -> Entries \cup {None}]
    /\ delivered \in [Opps -> BOOLEAN]
    /\ pc \in [Cycles -> {"idle", "ingest", "dispatch"}]
    /\ pending \in [Cycles -> SUBSET Opps]
    /\ sending \in [Cycles -> Opps \cup {None}]
    /\ attempt \in [Cycles -> 0..MaxRetries]
    /\ \A c \in Cycles : /\ pending[c] # {} => pc[c] = "dispatch"
                         /\ sending[c] # None => sending[c] \in pending[c]
                         /\ (attempt[c] > 0) <=> (sending[c] # None)

(* The opportunities of the key of o that were chosen last. *)
LastChosen(o) ==
    LET mine == {p \in Opps : KeyOf[p] = KeyOf[o] /\ alerted[p] # None}
    IN  {p \in mine : \A q \in mine : alerted[q].time <= alerted[p].time}

(* "Re-alert on Discord only if profit jumped by >= 15% or cooldown elapsed":  *)
(* whatever was pruned, aborted, muted or chosen by another cycle, what a scan *)
(* may alert again under a key has cooled down since, or jumped above, one of  *)
(* those the key was last chosen for.  With several qualities under one key    *)
(* that need not be the same opportunity.                                      *)
NoRepeat ==
    \A o \in Opps, profit \in Profits :
        MayAlert(o, profit) /\ LastChosen(o) # {} =>
            \E p \in LastChosen(o) :
                now - alerted[p].time >= Cooldown \/ Jump(alerted[p].profit, profit)

(* Nothing else holds an alert back: what a scan may not alert would be a      *)
(* repetition, within the cooldown and without a jump, of something its key    *)
(* was last chosen for.                                                        *)
NoneMissed ==
    \A o \in Opps, profit \in Profits :
        ~MayAlert(o, profit) =>
            \E p \in LastChosen(o) :
                now - alerted[p].time < Cooldown /\ ~Jump(alerted[p].profit, profit)

(* A dispatch ends whatever Discord answers, so the cycle that waits for it    *)
(* does not hold up the engine.                                                *)
DispatchEnds == \A c \in Cycles : pc[c] = "dispatch" ~> pc[c] = "idle"

(* alert_cooldown_minutes are the "minutes to wait before repeating an alert": *)
(* whatever is held back was delivered or is being dispatched.                 *)
HeldBackWasSent ==
    \A o \in Opps :
        alerted[o] # None /\ now - alerted[o].time < Cooldown =>
            delivered[o] \/ \E c \in Cycles : o \in pending[c]
=============================================================================
