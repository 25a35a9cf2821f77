---------------------------- MODULE AlertsProofs ----------------------------
(***************************************************************************)
(* What the alert history guarantees, for any opportunities, profits,       *)
(* cooldown, limits and number of cycles, and whatever opportunities share  *)
(* a key: types, no alert of a key repeated within the cooldown and none    *)
(* held back without a reason.                                              *)
(***************************************************************************)
EXTENDS Alerts, TLAPS

(* Clock and history have their types.                                       *)
HistoryTyped ==
    /\ now \in Nat
    /\ alert_history \in [AlertKeys -> Entries \cup {None}]
    /\ alerted \in [Opps -> Entries \cup {None}]

(* The rest of the state has its types.                                      *)
DispatchTyped ==
    /\ enabled \in BOOLEAN
    /\ delivered \in [Opps -> BOOLEAN]
    /\ pc \in [Cycles -> {"idle", "ingest", "dispatch"}]
    /\ pending \in [Cycles -> SUBSET Opps]
    /\ sending \in [Cycles -> Opps \cup {None}]
    /\ attempt \in [Cycles -> 0..MaxRetries]

(* A dispatch holds what it is sending.                                      *)
DispatchShaped ==
    \A c \in Cycles : /\ pending[c] # {} => pc[c] = "dispatch"
                      /\ sending[c] # None => sending[c] \in pending[c]
                      /\ (attempt[c] > 0) <=> (sending[c] # None)

(* What was chosen was chosen in the past.                                   *)
ChosenBefore == \A p \in Opps : alerted[p] # None => alerted[p].time <= now

(* Everything the key of o was chosen for is older than two cooldowns.       *)
AllOutdated(o) ==
    \A p \in Opps : KeyOf[p] = KeyOf[o] /\ alerted[p] # None =>
                        now - alerted[p].time > 2 * Cooldown

(* The history of a key is that of one of the opportunities it was last      *)
(* chosen for, unless all that is older than two cooldowns and was pruned.   *)
HistoryIsExact ==
    \A o \in Opps :
        \/ alert_history[KeyOf[o]] = None /\ AllOutdated(o)
        \/ \E p \in LastChosen(o) : alert_history[KeyOf[o]] = alerted[p]

----------------------------------------------------------------------------
(* Recording the chosen alerts keeps the type of the history.                *)
LEMMA RecordedType ==
    ASSUME HistoryTyped, NEW found \in SUBSET Opps, NEW profit \in [found -> Profits],
           NEW last \in SUBSET found
    PROVE  Recorded(last, profit) \in [AlertKeys -> Entries \cup {None}]
BY DEF Recorded, HistoryTyped, Entries

(* What ChooseAlerts does to the history.                                    *)
LEMMA ChoiceRecords ==
    ASSUME NEW c \in Cycles, NEW found \in SUBSET Opps, NEW profit \in [found -> Profits],
           ChooseAlerts(c, found, profit)
    PROVE  \E chosen \in SUBSET found : \E last \in SUBSET chosen :
              /\ AreLast(last, chosen)
              /\ alert_history' = Recorded(last, profit)
              /\ alerted' = [o \in Opps |-> IF o \in chosen
                                            THEN [time |-> now, profit |-> profit[o]]
                                            ELSE alerted[o]]
              /\ now' = now
<1>1. PICK chosen \in SUBSET found : \E last \in SUBSET chosen :
        /\ AreLast(last, chosen)
        /\ alert_history' = Recorded(last, profit)
        /\ alerted' = [o \in Opps |-> IF o \in chosen
                                      THEN [time |-> now, profit |-> profit[o]]
                                      ELSE alerted[o]]
  BY Zenon DEF ChooseAlerts
<1>2. now' = now
  BY DEF ChooseAlerts
<1> QED
  BY <1>1, <1>2

(* No step takes the clock or the history out of their types.                *)
LEMMA HistoryStep == HistoryTyped /\ [Next]_vars => HistoryTyped'
<1> SUFFICES ASSUME HistoryTyped, [Next]_vars PROVE HistoryTyped'
  OBVIOUS
<1>1. ASSUME NEW c \in Cycles, BeginCycle(c) PROVE HistoryTyped'
  BY <1>1 DEF BeginCycle, HistoryTyped
<1>2. ASSUME NEW c \in Cycles, NEW found \in SUBSET Opps, NEW profit \in [found -> Profits],
             ChooseAlerts(c, found, profit)
      PROVE  HistoryTyped'
  <2>1. PICK chosen \in SUBSET found : \E last \in SUBSET chosen :
          /\ alert_history' = Recorded(last, profit)
          /\ alerted' = [o \in Opps |-> IF o \in chosen
                                        THEN [time |-> now, profit |-> profit[o]]
                                        ELSE alerted[o]]
          /\ now' = now
    BY <1>2, ChoiceRecords
  <2>2. alerted' \in [Opps -> Entries \cup {None}]
    BY <2>1 DEF HistoryTyped, Entries
  <2> QED
    BY <2>1, <2>2, RecordedType DEF HistoryTyped
<1>3. CASE UNCHANGED <<alert_history, alerted>> /\ now' \in {now, now + 1}
  BY <1>3 DEF HistoryTyped
<1>4. ASSUME NEW c \in Cycles, AbortCycle(c) \/ Dispatch(c) \/ DropDispatch(c)
      PROVE  HistoryTyped'
  BY <1>3, <1>4 DEF AbortCycle, Dispatch, DropDispatch, SkipAlert, PostAlert, Accepted, Refused,
                    EndDispatch
<1>5. CASE ToggleAlerts \/ Tick \/ UNCHANGED vars
  BY <1>3, <1>5 DEF ToggleAlerts, Tick, vars
<1> QED
  BY <1>1, <1>2, <1>4, <1>5 DEF Next, Choose

(* Clock and history have their types at all times.                          *)
LEMMA HistoryAlwaysTyped == Spec => []HistoryTyped
<1>1. Init => HistoryTyped
  BY DEF Init, HistoryTyped
<1> QED
  BY <1>1, HistoryStep, PTL DEF Spec

----------------------------------------------------------------------------
(* Every step of a dispatch keeps its types and its shape.                   *)
LEMMA DispatchStep ==
    DispatchTyped /\ DispatchShaped /\ [Next]_vars => DispatchTyped' /\ DispatchShaped'
<1> SUFFICES ASSUME DispatchTyped, DispatchShaped, [Next]_vars
             PROVE  DispatchTyped' /\ DispatchShaped'
  OBVIOUS
<1> USE NoneAssumption, LimitAssumption DEF DispatchTyped, DispatchShaped, dispatch
<1>2. ASSUME NEW c \in Cycles, NEW found \in SUBSET Opps, NEW profit \in [found -> Profits],
             ChooseAlerts(c, found, profit)
      PROVE  DispatchTyped' /\ DispatchShaped'
  <2>1. PICK chosen \in SUBSET found :
          /\ delivered' = [o \in Opps |-> delivered[o] /\ o \notin chosen]
          /\ \E batch \in Batches(chosen) : pending' = [pending EXCEPT ![c] = batch]
    BY <1>2, Zenon DEF ChooseAlerts
  <2>2. PICK batch \in SUBSET chosen : pending' = [pending EXCEPT ![c] = batch]
    BY <2>1 DEF Batches
  <2>3. batch \subseteq Opps
    OBVIOUS
  <2>4. /\ pc[c] = "ingest" /\ pc' = [pc EXCEPT ![c] = "dispatch"]
        /\ UNCHANGED <<enabled, sending, attempt>>
    BY <1>2 DEF ChooseAlerts
  <2>5. delivered' \in [Opps -> BOOLEAN]
    BY <2>1, Zenon
  <2>6. sending[c] = None
    BY <2>4
  <2> QED
    BY <2>2, <2>3, <2>4, <2>5, <2>6
<1>3. ASSUME NEW c \in Cycles, BeginCycle(c) \/ AbortCycle(c)
      PROVE  DispatchTyped' /\ DispatchShaped'
  BY <1>3 DEF BeginCycle, AbortCycle
<1>4. ASSUME NEW c \in Cycles, NEW o \in Opps, SkipAlert(c, o) \/ PostAlert(c, o)
      PROVE  DispatchTyped' /\ DispatchShaped'
  BY <1>4 DEF SkipAlert, PostAlert, NextAlert
<1>5. ASSUME NEW c \in Cycles, sending[c] # None,
             EndAlert(c) \/ Repeat(c), pc' = pc
      PROVE  /\ pending' \in [Cycles -> SUBSET Opps]
             /\ sending' \in [Cycles -> Opps \cup {None}]
             /\ attempt' \in [Cycles -> 0..MaxRetries]
             /\ DispatchShaped'
  <2>1. CASE EndAlert(c)
    BY <1>5, <2>1 DEF EndAlert
  <2>2. CASE /\ attempt[c] < MaxRetries
             /\ attempt' = [attempt EXCEPT ![c] = @ + 1] /\ UNCHANGED <<pending, sending>>
    BY <1>5, <2>2
  <2> QED
    BY <1>5, <2>1, <2>2 DEF Repeat
<1>6. ASSUME NEW c \in Cycles, Accepted(c) \/ Refused(c)
      PROVE  DispatchTyped' /\ DispatchShaped'
  <2>1. /\ sending[c] # None /\ (EndAlert(c) \/ Repeat(c))
        /\ pc' = pc /\ enabled' = enabled
    BY <1>6 DEF Accepted, Refused
  <2>2. delivered' \in [Opps -> BOOLEAN]
    BY <1>6, <2>1 DEF Accepted, Refused
  <2> QED
    BY <1>5, <1>6, <2>1, <2>2 DEF Accepted, Refused
<1>7. ASSUME NEW c \in Cycles, EndDispatch(c) \/ DropDispatch(c)
      PROVE  DispatchTyped' /\ DispatchShaped'
  BY <1>7 DEF EndDispatch, DropDispatch
<1>8. CASE ToggleAlerts \/ Tick \/ UNCHANGED vars
  BY <1>8 DEF ToggleAlerts, Tick, vars
<1> QED
  BY <1>2, <1>3, <1>4, <1>6, <1>7, <1>8 DEF Next, Choose, Dispatch

(* Every variable keeps its type, and an alert is in flight only in the      *)
(* dispatch that holds it, on one of its attempts.                           *)
THEOREM TypeCorrect == Spec => []TypeOK
<1>1. ASSUME Init PROVE DispatchTyped /\ DispatchShaped
  <2>1. enabled \in BOOLEAN /\ delivered \in [Opps -> BOOLEAN]
    BY <1>1, Zenon DEF Init
  <2>3. /\ pc = [c \in Cycles |-> "idle"] /\ pending = [c \in Cycles |-> {}]
        /\ sending = [c \in Cycles |-> None] /\ attempt = [c \in Cycles |-> 0]
    BY <1>1 DEF Init
  <2> QED
    BY <2>1, <2>3, LimitAssumption DEF DispatchTyped, DispatchShaped
<1>2. HistoryTyped /\ DispatchTyped /\ DispatchShaped => TypeOK
  BY DEF HistoryTyped, DispatchTyped, DispatchShaped, TypeOK
<1> QED
  BY <1>1, <1>2, DispatchStep, HistoryAlwaysTyped, PTL DEF Spec

----------------------------------------------------------------------------
(* No step records a choice in the future.                                   *)
LEMMA BeforeStep == HistoryTyped /\ ChosenBefore /\ [Next]_vars => ChosenBefore'
<1> SUFFICES ASSUME HistoryTyped, ChosenBefore, [Next]_vars PROVE ChosenBefore'
  OBVIOUS
<1>1. ASSUME NEW c \in Cycles, NEW found \in SUBSET Opps, NEW profit \in [found -> Profits],
             ChooseAlerts(c, found, profit)
      PROVE  ChosenBefore'
  <2>1. PICK chosen \in SUBSET found :
          /\ alerted' = [o \in Opps |-> IF o \in chosen
                                        THEN [time |-> now, profit |-> profit[o]]
                                        ELSE alerted[o]]
          /\ now' = now
    BY <1>1, ChoiceRecords
  <2> QED
    BY <2>1 DEF ChosenBefore, HistoryTyped
<1>2. ASSUME UNCHANGED alerted, now' \in {now, now + 1} PROVE ChosenBefore'
  BY <1>2 DEF ChosenBefore, HistoryTyped, Entries
<1>3. ASSUME NEW c \in Cycles, BeginCycle(c) \/ AbortCycle(c) \/ Dispatch(c) \/ DropDispatch(c)
      PROVE  ChosenBefore'
  BY <1>2, <1>3 DEF BeginCycle, AbortCycle, Dispatch, DropDispatch, SkipAlert, PostAlert, Accepted,
                    Refused, EndDispatch
<1>4. CASE ToggleAlerts \/ Tick \/ UNCHANGED vars
  BY <1>2, <1>4 DEF ToggleAlerts, Tick, vars
<1> QED
  BY <1>1, <1>3, <1>4 DEF Next, Choose

(* Recording the chosen alerts keeps the history exact: a key something was  *)
(* chosen for has the entry of one of those, any other keeps what it had.    *)
LEMMA ChoiceIsExact ==
    ASSUME HistoryTyped, HistoryIsExact, ChosenBefore,
           NEW c \in Cycles, NEW found \in SUBSET Opps, NEW profit \in [found -> Profits],
           ChooseAlerts(c, found, profit)
    PROVE  HistoryIsExact'
<1> SUFFICES ASSUME NEW o \in Opps
             PROVE  \/ alert_history'[KeyOf[o]] = None /\ AllOutdated(o)'
                    \/ \E p \in LastChosen(o)' : alert_history'[KeyOf[o]] = alerted'[p]
  BY DEF HistoryIsExact
<1> DEFINE Choice(chosen, last) ==
      /\ AreLast(last, chosen)
      /\ alert_history' = Recorded(last, profit)
      /\ alerted' = [p \in Opps |-> IF p \in chosen THEN [time |-> now, profit |-> profit[p]]
                                    ELSE alerted[p]]
      /\ now' = now
<1>5. PICK chosen \in SUBSET found : \E last \in SUBSET chosen : Choice(chosen, last)
  BY ChoiceRecords
<1>6. PICK last \in SUBSET chosen : Choice(chosen, last)
  BY <1>5
<1>1. Choice(chosen, last)
  BY <1>6
<1>2. KeyOf[o] \in AlertKeys
  BY KeyAssumption
<1>3. CASE \E p \in last : KeyOf[p] = KeyOf[o]
  <2> DEFINE w == CHOOSE p \in last : KeyOf[p] = KeyOf[o]
  <2>1. w \in last /\ KeyOf[w] = KeyOf[o]
    BY <1>3
  <2>2. alert_history'[KeyOf[o]] = [time |-> now, profit |-> profit[w]]
    BY <1>1, <1>2, <1>3 DEF Recorded
  <2> HIDE DEF w
  <2>3. /\ w \in Opps /\ alerted'[w] = [time |-> now, profit |-> profit[w]]
        /\ profit[w] \in Profits
    BY <1>1, <2>1
  <2>4. alerted'[w] # None /\ alerted'[w].time = now
    <3>1. now \in Nat
      BY DEF HistoryTyped
    <3> QED
      BY <2>3, <3>1, NoneAssumption
  <2>5. \A q \in Opps : alerted'[q] # None => alerted'[q].time <= now
    BY <1>1 DEF ChosenBefore, HistoryTyped
  <2>6. w \in LastChosen(o)'
    BY <2>1, <2>3, <2>4, <2>5 DEF LastChosen
  <2> QED
    BY <2>2, <2>3, <2>6
<1>4. CASE ~\E p \in last : KeyOf[p] = KeyOf[o]
  <2>1. alert_history'[KeyOf[o]] = alert_history[KeyOf[o]]
    BY <1>1, <1>2, <1>4 DEF Recorded
  <2>2. \A p \in Opps : KeyOf[p] = KeyOf[o] => alerted'[p] = alerted[p]
    BY <1>1, <1>4 DEF AreLast
  <2>3. AllOutdated(o)' <=> AllOutdated(o)
    BY <1>1, <2>2 DEF AllOutdated
  <2>4. LastChosen(o)' = LastChosen(o)
    BY <2>2 DEF LastChosen
  <2>5. \A p \in LastChosen(o) : alerted'[p] = alerted[p]
    BY <2>2 DEF LastChosen
  <2> QED
    BY <2>1, <2>3, <2>4, <2>5 DEF HistoryIsExact
<1> QED
  BY <1>3, <1>4

(* Pruning, recording and the passing of time keep the history exact.        *)
LEMMA ExactStep ==
    HistoryTyped /\ HistoryIsExact /\ ChosenBefore /\ [Next]_vars => HistoryIsExact'
<1> SUFFICES ASSUME HistoryTyped, HistoryIsExact, ChosenBefore, [Next]_vars
             PROVE  HistoryIsExact'
  OBVIOUS
<1>1. \A p \in Opps : alerted[p] # None => alerted[p].time \in Nat
  BY DEF HistoryTyped, Entries
<1>2. ASSUME NEW c \in Cycles, BeginCycle(c) PROVE HistoryIsExact'
  <2> SUFFICES ASSUME NEW o \in Opps
               PROVE  \/ alert_history'[KeyOf[o]] = None /\ AllOutdated(o)'
                      \/ \E p \in LastChosen(o)' : alert_history'[KeyOf[o]] = alerted'[p]
    BY DEF HistoryIsExact
  <2>1. /\ alert_history'[KeyOf[o]] = IF Outdated(alert_history[KeyOf[o]]) THEN None
                                      ELSE alert_history[KeyOf[o]]
        /\ alerted' = alerted /\ now' = now
    BY <1>2, KeyAssumption DEF BeginCycle
  <2>2. (AllOutdated(o)' <=> AllOutdated(o)) /\ LastChosen(o)' = LastChosen(o)
    BY <2>1 DEF AllOutdated, LastChosen
  <2>3. CASE alert_history[KeyOf[o]] = None /\ AllOutdated(o)
    BY <2>1, <2>2, <2>3
  <2>4. ASSUME NEW p \in LastChosen(o), alert_history[KeyOf[o]] = alerted[p],
               Outdated(alert_history[KeyOf[o]])
        PROVE  AllOutdated(o)
    <3>1. p \in Opps /\ alerted[p] # None /\ now - alerted[p].time > 2 * Cooldown
      BY <2>4 DEF Outdated, LastChosen
    <3>2. \A q \in Opps : KeyOf[q] = KeyOf[o] /\ alerted[q] # None =>
              alerted[q].time <= alerted[p].time
      BY <2>4 DEF LastChosen
    <3>3. now \in Nat
      BY DEF HistoryTyped
    <3> QED
      BY <1>1, <3>1, <3>2, <3>3, CooldownAssumption DEF AllOutdated
  <2> QED
    BY <2>1, <2>2, <2>3, <2>4 DEF HistoryIsExact
<1>3. ASSUME UNCHANGED <<alert_history, alerted>>, now' \in {now, now + 1}
      PROVE  HistoryIsExact'
  <2>1. \A o \in Opps : LastChosen(o)' = LastChosen(o)
    BY <1>3 DEF LastChosen
  <2>2. \A o \in Opps : AllOutdated(o) => AllOutdated(o)'
    BY <1>1, <1>3, CooldownAssumption DEF AllOutdated, HistoryTyped
  <2> QED
    BY <1>3, <2>1, <2>2 DEF HistoryIsExact
<1>4. ASSUME NEW c \in Cycles, AbortCycle(c) \/ Dispatch(c) \/ DropDispatch(c)
      PROVE  UNCHANGED <<alert_history, alerted>> /\ now' = now
  BY <1>4 DEF AbortCycle, Dispatch, DropDispatch, SkipAlert, PostAlert, Accepted, Refused,
              EndDispatch
<1>5. ASSUME ToggleAlerts \/ Tick \/ UNCHANGED vars
      PROVE  UNCHANGED <<alert_history, alerted>> /\ now' \in {now, now + 1}
  BY <1>5 DEF ToggleAlerts, Tick, vars
<1> QED
  BY <1>2, <1>3, <1>4, <1>5, ChoiceIsExact DEF Next, Choose

(* The history is exact at all times.                                        *)
LEMMA HistoryAlwaysExact == Spec => [](HistoryIsExact /\ ChosenBefore)
<1>1. Init => HistoryIsExact /\ ChosenBefore
  BY KeyAssumption DEF Init, HistoryIsExact, ChosenBefore, AllOutdated
<1> QED
  BY <1>1, ExactStep, BeforeStep, HistoryAlwaysTyped, PTL DEF Spec

----------------------------------------------------------------------------
(* Whatever a scan may alert again under a key has cooled down since, or its *)
(* profit has jumped above that of, something the key was last chosen for:   *)
(* the entry compared with is always one of those, or was pruned too late to *)
(* matter.                                                                   *)
THEOREM NothingRepeated == Spec => []NoRepeat
<1>1. ASSUME HistoryTyped, HistoryIsExact PROVE NoRepeat
  <2> SUFFICES ASSUME NEW o \in Opps, NEW profit \in Profits, MayAlert(o, profit),
                      NEW q \in LastChosen(o)
               PROVE  \E p \in LastChosen(o) :
                         now - alerted[p].time >= Cooldown \/ Jump(alerted[p].profit, profit)
    BY DEF NoRepeat
  <2>1. CASE AllOutdated(o)
    <3>1. q \in Opps /\ KeyOf[q] = KeyOf[o] /\ alerted[q] # None
      BY DEF LastChosen
    <3>2. now \in Nat /\ alerted[q].time \in Nat
      BY <1>1, <3>1 DEF HistoryTyped, Entries
    <3>3. now - alerted[q].time > 2 * Cooldown
      BY <2>1, <3>1 DEF AllOutdated
    <3> QED
      BY <3>2, <3>3, CooldownAssumption
  <2>2. ASSUME NEW p \in LastChosen(o), alert_history[KeyOf[o]] = alerted[p]
        PROVE  now - alerted[p].time >= Cooldown \/ Jump(alerted[p].profit, profit)
    <3>1. alerted[p] # None
      BY DEF LastChosen
    <3> QED
      BY <2>2, <3>1 DEF MayAlert, Cooled
  <2> QED
    BY <1>1, <2>1, <2>2 DEF HistoryIsExact
<1> QED
  BY <1>1, HistoryAlwaysTyped, HistoryAlwaysExact, PTL

(* Whatever a scan may not alert repeats, within the cooldown and without a  *)
(* jump, something its key was last chosen for: no entry outlives its        *)
(* cooldown, and none is recorded for a key nothing was chosen for.          *)
THEOREM NothingMissed == Spec => []NoneMissed
<1>1. ASSUME HistoryTyped, HistoryIsExact PROVE NoneMissed
  <2> SUFFICES ASSUME NEW o \in Opps, NEW profit \in Profits, ~MayAlert(o, profit)
               PROVE  \E p \in LastChosen(o) :
                         now - alerted[p].time < Cooldown /\ ~Jump(alerted[p].profit, profit)
    BY DEF NoneMissed
  <2>1. /\ alert_history[KeyOf[o]] # None
        /\ ~(now - alert_history[KeyOf[o]].time >= Cooldown)
        /\ ~Jump(alert_history[KeyOf[o]].profit, profit)
    BY DEF MayAlert, Cooled
  <2>2. PICK p \in LastChosen(o) : alert_history[KeyOf[o]] = alerted[p]
    BY <1>1, <2>1 DEF HistoryIsExact
  <2>3. now \in Nat /\ alerted[p].time \in Nat
    BY <1>1, <2>1, <2>2 DEF HistoryTyped, Entries, LastChosen
  <2>4. now - alerted[p].time < Cooldown
    BY <2>1, <2>2, <2>3, CooldownAssumption
  <2> QED
    BY <2>1, <2>2, <2>4
<1> QED
  BY <1>1, HistoryAlwaysTyped, HistoryAlwaysExact, PTL
=============================================================================
