------------------------ MODULE OpportunityCacheProofs ------------------------
(***************************************************************************)
(* Theorems about OpportunityCache, for any number of opportunities, orders  *)
(* and records, and any arrangement of a cache.  A sweep and a               *)
(* reconciliation meet one entry after the other and change the records they *)
(* go by: what each comes to is shown by induction over the entries met.     *)
(***************************************************************************)
EXTENDS OpportunityCache, TLAPS

Sweeps == INSTANCE Induction WITH Op <- Meet
Merges == INSTANCE Induction WITH Op <- Retain

(* What is left of the records, all of them as they were. *)
Part(left, records) ==
    \A o \in DOMAIN left : o \in DOMAIN records /\ left[o] = records[o]

(* A record that is gone met fresher data of its order. *)
Explained(left, records, entries) ==
    \A o \in DOMAIN records \ DOMAIN left :
        \E k \in DOMAIN entries \cap BlackMarket :
            OrderOf[k] = o /\ Fresher(entries[k], records[o])

(* What a sweep has come to after n keys. *)
Swept(entries, records, until, n, r) ==
    /\ r.visible \subseteq DOMAIN entries
    /\ Part(r.records, records)
    /\ Explained(r.records, records, entries)
    /\ \A k \in r.visible :
          ~HasRecord(k, r.records) /\ (k \notin BlackMarket => ~ItemDismissed(k, until))
    /\ \A i \in 1..n : order[i] \in DOMAIN entries \ r.visible =>
          ItemDismissed(order[i], until) \/ HasRecord(order[i], records)

----------------------------------------------------------------------------
(* Sweeps *)

LEMMA SweepRuns ==
    ASSUME NEW entries, NEW records, NEW until, Len(order) \in Nat
    PROVE  \E f : /\ f[0] = [visible |-> {}, records |-> records]
                  /\ \A n \in 1..Len(order) : f[n] = Meet(entries, until, f[n - 1], order[n])
                  /\ Sweep(entries, records, until) = f[Len(order)]
<1> DEFINE base == [visible |-> {}, records |-> records]
           Rule(f, n) == IF n = 0 THEN base ELSE Meet(entries, until, f[n - 1], order[n])
           met == CHOOSE f : f = [n \in 0..Len(order) |-> Rule(f, n)]
<1>1. PICK f : Sweeps!IsRun(entries, until, base, order, Len(order), f)
  BY Sweeps!RunExists
<1>2. f = [n \in 0..Len(order) |-> Rule(f, n)]
  BY <1>1 DEF Sweeps!IsRun
<1>3. met = [n \in 0..Len(order) |-> Rule(met, n)]
  <2> HIDE DEF Rule
  <2> QED
    BY <1>2
<1>4. Sweep(entries, records, until) = met[Len(order)]
  BY DEF Sweep
<1> HIDE DEF met
<1>5. \A n \in 0..Len(order) : met[n] = Rule(met, n)
  BY <1>3
<1>6. met[0] = base
  <2>1. met[0] = Rule(met, 0)
    BY <1>5, 0 \in 0..Len(order)
  <2> HIDE DEF base
  <2> QED
    BY <2>1
<1>7. ASSUME NEW n \in 1..Len(order) PROVE met[n] = Meet(entries, until, met[n - 1], order[n])
  BY <1>5, n \in 0..Len(order), n # 0
<1> HIDE DEF Rule
<1> QED
  BY <1>4, <1>6, <1>7

(* Meeting an entry keeps to what a sweep may come to. *)
LEMMA MeetKeepsSwept ==
    ASSUME NEW entries, NEW records, NEW until, NEW r, NEW n \in Nat, NEW k,
           k = order[n + 1], Swept(entries, records, until, n, r)
    PROVE  Swept(entries, records, until, n + 1, Meet(entries, until, r, k))
<1> DEFINE s == Meet(entries, until, r, k)
<1>1. CASE k \notin DOMAIN entries
  <2>1. s = r
    BY <1>1 DEF Meet
  <2> QED
    BY <1>1, <2>1 DEF Swept
<1>2. CASE k \in DOMAIN entries
  <2> DEFINE opp == entries[k]
  <2>1. /\ s.visible = IF Hidden(k, opp, r.records, until) THEN r.visible ELSE r.visible \cup {k}
        /\ s.records = Records(k, opp, r.records)
    BY <1>2 DEF Meet
  <2> HIDE DEF s
  <2>2. Part(s.records, records) /\ Part(s.records, r.records)
    BY <2>1 DEF Swept, Part, Records, Only
  <2>3. Explained(s.records, records, entries)
    <3> SUFFICES ASSUME NEW o \in DOMAIN records \ DOMAIN s.records
                 PROVE  \E j \in DOMAIN entries \cap BlackMarket :
                            OrderOf[j] = o /\ Fresher(entries[j], records[o])
      BY DEF Explained
    <3>1. CASE o \notin DOMAIN r.records
      BY <3>1 DEF Swept, Explained
    <3>2. CASE o \in DOMAIN r.records
      <4>1. HasRecord(k, r.records) /\ Fresher(opp, r.records[OrderOf[k]]) /\ o = OrderOf[k]
        BY <2>1, <3>2 DEF Records, Only
      <4> QED
        BY <1>2, <3>2, <4>1 DEF HasRecord, Swept, Part
    <3> QED
      BY <3>1, <3>2
  <2>4. \A j \in s.visible :
           ~HasRecord(j, s.records) /\ (j \notin BlackMarket => ~ItemDismissed(j, until))
    <3> TAKE j \in s.visible
    <3>1. CASE j \in r.visible
      BY <3>1, <2>2 DEF Swept, Part, HasRecord
    <3>2. CASE j \notin r.visible
      <4>1. j = k /\ ~Hidden(k, opp, r.records, until)
        BY <2>1, <3>2
      <4>2. CASE HasRecord(k, r.records)
        BY <4>1, <4>2, <2>1 DEF Hidden, HasRecord, Records, Only
      <4>3. CASE ~HasRecord(k, r.records)
        BY <4>1, <4>3, <2>1 DEF Hidden, Records
      <4> QED
        BY <4>2, <4>3
    <3> QED
      BY <3>1, <3>2
  <2>5. \A i \in 1..n + 1 : order[i] \in DOMAIN entries \ s.visible =>
           ItemDismissed(order[i], until) \/ HasRecord(order[i], records)
    <3> SUFFICES ASSUME NEW i \in 1..n + 1, order[i] \in DOMAIN entries \ s.visible
                 PROVE  ItemDismissed(order[i], until) \/ HasRecord(order[i], records)
      OBVIOUS
    <3>1. CASE i \in 1..n
      BY <2>1, <3>1 DEF Swept
    <3>2. CASE i = n + 1
      <4>1. Hidden(k, opp, r.records, until)
        BY <2>1, <3>2
      <4> QED
        BY <3>2, <4>1 DEF Hidden, HasRecord, Swept, Part
    <3> QED
      BY <3>1, <3>2
  <2>6. s.visible \subseteq DOMAIN entries
    BY <1>2, <2>1 DEF Swept
  <2> QED
    BY <2>2, <2>3, <2>4, <2>5, <2>6 DEF Swept, s
<1> QED
  BY <1>1, <1>2

(* So a sweep is what its description says, whatever the arrangement. *)
LEMMA SweepIsSwept ==
    ASSUME NEW entries, NEW records, NEW until, Len(order) \in Nat
    PROVE  Swept(entries, records, until, Len(order), Sweep(entries, records, until))
<1>1. PICK f : /\ f[0] = [visible |-> {}, records |-> records]
               /\ \A n \in 1..Len(order) : f[n] = Meet(entries, until, f[n - 1], order[n])
               /\ Sweep(entries, records, until) = f[Len(order)]
  BY SweepRuns
<1> DEFINE S == {n \in Nat : n <= Len(order) => Swept(entries, records, until, n, f[n])}
<1>2. 0 \in S
  <2>1. f[0].visible = {} /\ f[0].records = records
    BY <1>1
  <2> QED
    BY <2>1 DEF Swept, Part, Explained
<1>3. ASSUME NEW n \in Nat, n \in S PROVE n + 1 \in S
  <2> SUFFICES ASSUME n + 1 <= Len(order) PROVE Swept(entries, records, until, n + 1, f[n + 1])
    OBVIOUS
  <2>1. f[n + 1] = Meet(entries, until, f[n], order[n + 1])
    BY <1>1
  <2>2. Swept(entries, records, until, n, f[n])
    BY <1>3
  <2> QED
    BY <2>1, <2>2, MeetKeepsSwept
<1> HIDE DEF S
<1>4. Nat \subseteq S
  BY <1>2, <1>3, Sweeps!SetInduction
<1>5. Swept(entries, records, until, Len(order), f[Len(order)])
  BY <1>4 DEF S
<1> QED
  BY <1>1, <1>5

----------------------------------------------------------------------------
(* Reconciliations *)

(* Entries that are met: they were not found again. *)
Missed(existing, incoming) == DOMAIN existing \ DOMAIN incoming

(* A reason for which an entry may go. *)
Evictable(k, existing, incoming, records) ==
    \/ ItemDismissed(k, dismissed)
    \/ Outlived(k, existing[k])
    \/ Fulfilled(k, existing[k])
    \/ HasRecord(k, records) /\ ~Fresher(existing[k], records[OrderOf[k]])
    \/ k \in BlackMarket /\ \E j \in Missed(existing, incoming) \cap BlackMarket :
          /\ OrderOf[j] = OrderOf[k] /\ Fulfilled(j, existing[j])
          /\ ~Fresher(existing[k], FillRecord(existing[j]))

(* Each record is an old one or that of a fill. *)
Sourced(left, existing, incoming, records) ==
    \A o \in DOMAIN left :
        \/ o \in DOMAIN records /\ left[o] = records[o]
        \/ \E j \in Missed(existing, incoming) \cap BlackMarket :
              /\ OrderOf[j] = o /\ Fulfilled(j, existing[j])
              /\ left[o] = FillRecord(existing[j])

(* An old record is there still, or fresher data was met. *)
Accounted(left, existing, incoming, records) ==
    \A o \in DOMAIN records :
        \/ o \in DOMAIN left /\ left[o] = records[o]
        \/ \E j \in Missed(existing, incoming) \cap BlackMarket :
              OrderOf[j] = o /\ Fresher(existing[j], records[o])

(* What a reconciliation has come to after n keys. *)
Reconciled(existing, incoming, records, sequence, n, r) ==
    /\ DOMAIN incoming \subseteq DOMAIN r.entries
    /\ \A k \in DOMAIN incoming : r.entries[k] = incoming[k]
    /\ \A k \in DOMAIN r.entries \ DOMAIN incoming :
          k \in DOMAIN existing /\ r.entries[k] = existing[k] /\ ~Outlived(k, existing[k])
    /\ \A i \in 1..n : sequence[i] \in DOMAIN existing \ DOMAIN r.entries =>
          Evictable(sequence[i], existing, incoming, records)
    /\ Sourced(r.records, existing, incoming, records)
    /\ Accounted(r.records, existing, incoming, records)

(* The results of meeting the first entries of a sequence, one after the other. *)
Course(existing, incoming, records, sequence, f) ==
    /\ f[0] = [entries |-> incoming, records |-> records]
    /\ \A n \in 1..Len(sequence) : f[n] = Retain(existing, incoming, f[n - 1], sequence[n])
    /\ Reconcile(existing, incoming, records, sequence) = f[Len(sequence)]

LEMMA ReconcileRuns ==
    ASSUME NEW existing, NEW incoming, NEW records, NEW sequence, Len(sequence) \in Nat
    PROVE  \E f : Course(existing, incoming, records, sequence, f)
<1> DEFINE base == [entries |-> incoming, records |-> records]
           Rule(f, n) == IF n = 0 THEN base ELSE Retain(existing, incoming, f[n - 1], sequence[n])
           met == CHOOSE f : f = [n \in 0..Len(sequence) |-> Rule(f, n)]
<1>1. PICK f : Merges!IsRun(existing, incoming, base, sequence, Len(sequence), f)
  BY Merges!RunExists
<1>2. f = [n \in 0..Len(sequence) |-> Rule(f, n)]
  BY <1>1 DEF Merges!IsRun
<1>3. met = [n \in 0..Len(sequence) |-> Rule(met, n)]
  <2> HIDE DEF Rule
  <2> QED
    BY <1>2
<1>4. Reconcile(existing, incoming, records, sequence) = met[Len(sequence)]
  BY DEF Reconcile
<1> HIDE DEF met
<1>5. \A n \in 0..Len(sequence) : met[n] = Rule(met, n)
  BY <1>3
<1>6. met[0] = base
  <2>1. met[0] = Rule(met, 0)
    BY <1>5, 0 \in 0..Len(sequence)
  <2> HIDE DEF base
  <2> QED
    BY <2>1
<1>7. ASSUME NEW n \in 1..Len(sequence)
      PROVE  met[n] = Retain(existing, incoming, met[n - 1], sequence[n])
  BY <1>5, n \in 0..Len(sequence), n # 0
<1> HIDE DEF Rule
<1>8. Course(existing, incoming, records, sequence, met)
  BY <1>4, <1>6, <1>7 DEF Course
<1> QED
  BY <1>8

(* Meeting an entry keeps to what a reconciliation may come to. *)
LEMMA RetainKeepsReconciled ==
    ASSUME NEW existing, NEW incoming, NEW records, NEW sequence,
           NEW r, NEW n \in Nat, NEW k, k = sequence[n + 1],
           Reconciled(existing, incoming, records, sequence, n, r)
    PROVE  Reconciled(existing, incoming, records, sequence, n + 1,
                      Retain(existing, incoming, r, k))
<1> DEFINE s == Retain(existing, incoming, r, k)
           opp == existing[k]
           left == Records(k, opp, r.records)
<1>1. CASE k \notin Missed(existing, incoming)
  <2>1. s = r
    BY <1>1 DEF Retain, Missed
  <2>2. k \in DOMAIN existing => k \in DOMAIN r.entries
    BY <1>1 DEF Missed, Reconciled
  <2> QED
    BY <2>1, <2>2 DEF Reconciled
<1>2. CASE k \in Missed(existing, incoming)
  <2>1. left \in {r.records} \/
          /\ HasRecord(k, r.records) /\ Fresher(opp, r.records[OrderOf[k]])
          /\ DOMAIN left = DOMAIN r.records \ {OrderOf[k]}
          /\ \A o \in DOMAIN left : left[o] = r.records[o]
    BY DEF Records, Only
  <2>2. Sourced(left, existing, incoming, records)
    BY <2>1 DEF Reconciled, Sourced
  <2>3. Accounted(left, existing, incoming, records)
    <3> SUFFICES ASSUME NEW o \in DOMAIN records, ~(o \in DOMAIN left /\ left[o] = records[o])
                 PROVE  \E j \in Missed(existing, incoming) \cap BlackMarket :
                            OrderOf[j] = o /\ Fresher(existing[j], records[o])
      BY DEF Accounted
    <3>1. CASE ~(o \in DOMAIN r.records /\ r.records[o] = records[o])
      BY <3>1 DEF Reconciled, Accounted
    <3>2. CASE o \in DOMAIN r.records /\ r.records[o] = records[o]
      BY <1>2, <2>1, <3>2 DEF HasRecord
    <3> QED
      BY <3>1, <3>2
  <2> HIDE DEF left
  <2>4. CASE Hidden(k, opp, r.records, dismissed) \/ Outlived(k, opp)
    <3>1. s.entries = r.entries /\ s.records = left
      BY <1>2, <2>4 DEF Retain, Missed, left
    <3>2. Evictable(k, existing, incoming, records)
      <4>1. CASE HasRecord(k, r.records) /\ Hidden(k, opp, r.records, dismissed)
        BY <4>1 DEF Hidden, HasRecord, Reconciled, Sourced, Evictable
      <4> QED
        BY <2>4, <4>1 DEF Hidden, Evictable
    <3> HIDE DEF s
    <3>3. \A i \in 1..n + 1 : sequence[i] \in DOMAIN existing \ DOMAIN s.entries =>
             Evictable(sequence[i], existing, incoming, records)
      BY <3>1, <3>2 DEF Reconciled
    <3> QED
      BY <2>2, <2>3, <3>1, <3>3 DEF Reconciled, s
  <2>5. CASE ~(Hidden(k, opp, r.records, dismissed) \/ Outlived(k, opp)) /\ Fulfilled(k, opp)
    <3>1. s.entries = r.entries /\ s.records = Put(left, OrderOf[k], FillRecord(opp))
      BY <1>2, <2>5 DEF Retain, Missed, left
    <3>2. Evictable(k, existing, incoming, records)
      BY <2>5 DEF Evictable
    <3>3. k \in BlackMarket
      BY <2>5 DEF Fulfilled
    <3>4. /\ DOMAIN s.records = DOMAIN left \cup {OrderOf[k]}
          /\ s.records[OrderOf[k]] = FillRecord(opp)
          /\ \A o \in DOMAIN left : o # OrderOf[k] => s.records[o] = left[o]
      BY <3>1 DEF Put
    <3> HIDE DEF s
    <3>5. Sourced(s.records, existing, incoming, records)
      <4> SUFFICES ASSUME NEW o \in DOMAIN s.records
                   PROVE  \/ o \in DOMAIN records /\ s.records[o] = records[o]
                          \/ \E j \in Missed(existing, incoming) \cap BlackMarket :
                                /\ OrderOf[j] = o /\ Fulfilled(j, existing[j])
                                /\ s.records[o] = FillRecord(existing[j])
        BY DEF Sourced
      <4>1. CASE o = OrderOf[k]
        BY <1>2, <2>5, <3>3, <3>4, <4>1
      <4>2. CASE o # OrderOf[k]
        BY <2>2, <3>4, <4>2 DEF Sourced
      <4> QED
        BY <4>1, <4>2
    <3>6. Accounted(s.records, existing, incoming, records)
      <4> SUFFICES ASSUME NEW o \in DOMAIN records,
                          ~(o \in DOMAIN s.records /\ s.records[o] = records[o])
                   PROVE  \E j \in Missed(existing, incoming) \cap BlackMarket :
                              OrderOf[j] = o /\ Fresher(existing[j], records[o])
        BY DEF Accounted
      <4>1. CASE o = OrderOf[k]
        <5>1. OrderOf[k] \notin DOMAIN left
          BY <2>5, <3>3 DEF Hidden, HasRecord, left, Records, Only
        <5> QED
          BY <2>3, <4>1, <5>1 DEF Accounted
      <4>2. CASE o # OrderOf[k]
        BY <2>3, <3>4, <4>2 DEF Accounted
      <4> QED
        BY <4>1, <4>2
    <3>7. \A i \in 1..n + 1 : sequence[i] \in DOMAIN existing \ DOMAIN s.entries =>
             Evictable(sequence[i], existing, incoming, records)
      BY <3>1, <3>2 DEF Reconciled
    <3> QED
      BY <3>1, <3>5, <3>6, <3>7 DEF Reconciled, s
  <2>6. CASE ~(Hidden(k, opp, r.records, dismissed) \/ Outlived(k, opp)) /\ ~Fulfilled(k, opp)
    <3>1. s.entries = Put(r.entries, k, opp) /\ s.records = left
      BY <1>2, <2>6 DEF Retain, Missed, left
    <3>2. /\ DOMAIN s.entries = DOMAIN r.entries \cup {k}
          /\ s.entries[k] = opp
          /\ \A j \in DOMAIN r.entries : j # k => s.entries[j] = r.entries[j]
      BY <3>1 DEF Put
    <3> HIDE DEF s
    <3>3. \A i \in 1..n + 1 : sequence[i] \in DOMAIN existing \ DOMAIN s.entries =>
             Evictable(sequence[i], existing, incoming, records)
      BY <3>2 DEF Reconciled
    <3>4. \A j \in DOMAIN incoming : j \in DOMAIN s.entries /\ s.entries[j] = incoming[j]
      BY <1>2, <3>2 DEF Reconciled, Missed
    <3>5. \A j \in DOMAIN s.entries \ DOMAIN incoming :
             j \in DOMAIN existing /\ s.entries[j] = existing[j] /\ ~Outlived(j, existing[j])
      BY <1>2, <2>6, <3>2 DEF Reconciled, Missed
    <3> QED
      BY <2>2, <2>3, <3>1, <3>3, <3>4, <3>5 DEF Reconciled, s
  <2> QED
    BY <2>4, <2>5, <2>6
<1> QED
  BY <1>1, <1>2

(* So a reconciliation is what its description says. *)
LEMMA ReconcileIsReconciled ==
    ASSUME NEW existing, NEW incoming, NEW records, NEW sequence, Len(sequence) \in Nat
    PROVE  Reconciled(existing, incoming, records, sequence, Len(sequence),
                      Reconcile(existing, incoming, records, sequence))
<1>1. PICK f : Course(existing, incoming, records, sequence, f)
  BY ReconcileRuns
<1> DEFINE S == {n \in Nat : n <= Len(sequence) =>
                      Reconciled(existing, incoming, records, sequence, n, f[n])}
<1>2. 0 \in S
  <2>1. f[0].entries = incoming /\ f[0].records = records
    BY <1>1 DEF Course
  <2> QED
    BY <2>1 DEF Reconciled, Sourced, Accounted
<1>3. ASSUME NEW n \in Nat, n \in S PROVE n + 1 \in S
  <2> SUFFICES ASSUME n + 1 <= Len(sequence)
               PROVE  Reconciled(existing, incoming, records, sequence, n + 1, f[n + 1])
    OBVIOUS
  <2>1. f[n + 1] = Retain(existing, incoming, f[n], sequence[n + 1])
    BY <1>1 DEF Course
  <2>2. Reconciled(existing, incoming, records, sequence, n, f[n])
    BY <1>3
  <2> QED
    BY <2>1, <2>2, RetainKeepsReconciled
<1> HIDE DEF S
<1>4. Nat \subseteq S
  BY <1>2, <1>3, Merges!SetInduction
<1>5. Reconciled(existing, incoming, records, sequence, Len(sequence), f[Len(sequence)])
  BY <1>4 DEF S
<1> QED
  BY <1>1, <1>5 DEF Course

----------------------------------------------------------------------------
(* The inductive invariants *)

(* An entry found by a scan: its data was within its lifespan when the entry   *)
(* was detected, and its price is that of the order's row unless the row was   *)
(* captured since.                                                            *)
GenuineAt(k, opp, t, rows) ==
    /\ opp.price \in Recorded /\ opp.age \in Nat /\ opp.seen \in 0..t /\ opp.detected \in 0..t
    /\ opp.seen + opp.age = opp.detected
    /\ k \in BlackMarket =>
         LET row == rows[OrderOf[k]]
         IN  /\ opp.price > 0
             /\ \E p \in Prices : /\ opp.price = Effective[p]
                                  /\ opp.detected - opp.seen <= Lifespan[k][p]
             /\ opp.detected > row.captured => opp.price = Effective[row.price]

Genuine(k, opp) == GenuineAt(k, opp, now, market)

AllGenuine(entries) ==
    DOMAIN entries \subseteq Keys /\ \A k \in DOMAIN entries : Genuine(k, entries[k])

RecordsOK(records) ==
    /\ DOMAIN records \subseteq Orders
    /\ \A o \in DOMAIN records : records[o].age \in Nat /\ records[o].price \in Nat

MarketOK ==
    /\ now \in 1..MaxTime
    /\ DOMAIN market = Orders
    /\ \A o \in Orders : /\ market[o].price \in Prices /\ market[o].seen \in 0..now
                         /\ market[o].captured \in 0..now
                         /\ market[o].seen <= market[o].captured

StateOK ==
    /\ MarketOK
    /\ scan_time \in 0..now /\ order \in Arrangements
    /\ AllGenuine(cache) /\ AllGenuine(shown)
    /\ RecordsOK(filled)
    /\ DOMAIN dismissed \subseteq Items /\ \A i \in DOMAIN dismissed : dismissed[i] \in Nat

(* A dismissal lasts at least its time. *)
StruckOK ==
    \A i \in DOMAIN struck :
        /\ struck[i] \in Nat /\ struck[i] <= now
        /\ now < struck[i] + DismissalTime =>
             i \in DOMAIN dismissed /\ dismissed[i] >= struck[i] + DismissalTime

(* Marks are honoured: the record of a marked card is there, and no entry of   *)
(* its order is newer data for it.                                            *)
Honoured(marks, entries, records) ==
    \A o \in DOMAIN marks :
        /\ marks[o].price \in Nat /\ marks[o].age \in Nat /\ marks[o].seen \in Nat
        /\ marks[o].detected = marks[o].seen + marks[o].age
        /\ o \in DOMAIN records
        /\ records[o].age = marks[o].age /\ records[o].price = marks[o].price
        /\ \A k \in DOMAIN entries \cap BlackMarket :
              OrderOf[k] = o => ~Lifts(entries[k], marks[o])

(* An arrangement is a sequence that meets every key. *)
LEMMA ArrangementCovers ==
    ASSUME NEW a, a \in Arrangements
    PROVE  Len(a) \in Nat /\ \A k \in Keys : \E i \in 1..Len(a) : a[i] = k
<1>1. a \in Seq(Keys) /\ Range(a) = Keys
  BY KeyAssumption
<1>2. \A k \in Keys : \E i \in DOMAIN a : a[i] = k
  BY <1>1 DEF Range
<1> QED
  BY <1>1, <1>2

(* What a scan finds is as it should be. *)
LEMMA FoundIsGenuine ==
    ASSUME MarketOK, NEW k \in Findable
    PROVE  Genuine(k, Found(k))
<1>1. CASE k \in BlackMarket
  <2> DEFINE row == market[OrderOf[k]]
  <2>1. OrderOf[k] \in Orders
    BY <1>1 DEF Orders
  <2>2. row.price \in Prices /\ row.seen \in 0..now /\ now \in Nat
    BY <2>1 DEF MarketOK
  <2>3. Effective[row.price] > 0 /\ now - row.seen <= Lifespan[k][row.price]
    BY <1>1 DEF Findable
  <2>4. Effective[row.price] \in Recorded /\ Effective[row.price] \in Nat
    BY <2>2, PriceAssumption DEF Recorded
  <2>5. Found(k) = [price |-> Effective[row.price], age |-> now - row.seen,
                    seen |-> row.seen, detected |-> now]
    BY <1>1 DEF Found
  <2> QED
    BY <1>1, <2>2, <2>3, <2>4, <2>5 DEF Genuine, GenuineAt
<1>2. CASE k \notin BlackMarket
  <2>1. Found(k) = [price |-> 0, age |-> 0, seen |-> now, detected |-> now]
    BY <1>2 DEF Found
  <2>2. 0 \in Recorded
    <3>1. Effective[0] = 0
      BY PriceAssumption
    <3> QED
      BY <3>1, PriceAssumption DEF Recorded
  <2>3. now \in Nat
    BY DEF MarketOK
  <2> QED
    BY <1>2, <2>1, <2>2, <2>3 DEF Genuine, GenuineAt
<1> QED
  BY <1>1, <1>2

(* The prices of entries and the lifespans looked up are numbers. *)
LEMMA PricesAreNumbers ==
    /\ Recorded \subseteq Nat
    /\ \A p \in Prices : p \in Nat /\ Effective[p] \in Recorded /\ Effective[p] <= p
    /\ \A k \in Keys : \A p \in Prices \cup Recorded : Lifespan[k][p] \in Nat
    /\ RoyalRetention \in Nat /\ FresherBy \in Nat /\ Slack \in Nat /\ DismissalTime \in Nat
  BY PriceAssumption, AgeAssumption DEF Recorded

(* What a reconciliation leaves: genuine entries, each of them found by the    *)
(* scan or as it was and not outlived, a reason for each that is gone, and an *)
(* account of the records.                                                    *)
Settled(r, existing, keys, records) ==
    /\ AllGenuine(r.entries) /\ RecordsOK(r.records)
    /\ \A k \in DOMAIN r.entries :
          \/ k \in keys /\ r.entries[k] = Found(k)
          \/ k \in DOMAIN existing /\ r.entries[k] = existing[k] /\ ~Outlived(k, existing[k])
    /\ \A k \in DOMAIN existing \ DOMAIN r.entries :
          Evictable(k, existing, Finds(keys), records)
    /\ Sourced(r.records, existing, Finds(keys), records)
    /\ Accounted(r.records, existing, Finds(keys), records)

LEMMA ReconcileSettles ==
    ASSUME MarketOK, NEW existing, AllGenuine(existing), NEW records, RecordsOK(records),
           NEW keys, keys \subseteq Findable, NEW sequence, sequence \in Arrangements,
           NEW r, r = Reconcile(existing, Finds(keys), records, sequence)
    PROVE  Settled(r, existing, keys, records)
<1>1. Reconciled(existing, Finds(keys), records, sequence, Len(sequence), r)
  BY ArrangementCovers, ReconcileIsReconciled
<1>2. DOMAIN Finds(keys) = keys /\ \A k \in keys : Finds(keys)[k] = Found(k)
  BY DEF Finds
<1>3. \A k \in DOMAIN r.entries :
         \/ k \in keys /\ r.entries[k] = Found(k)
         \/ k \in DOMAIN existing /\ r.entries[k] = existing[k] /\ ~Outlived(k, existing[k])
  BY <1>1, <1>2 DEF Reconciled
<1>4. AllGenuine(r.entries)
  BY <1>3, FoundIsGenuine DEF AllGenuine, Findable
<1>5. RecordsOK(r.records)
  <2> SUFFICES ASSUME NEW o \in DOMAIN r.records
               PROVE  o \in Orders /\ r.records[o].age \in Nat /\ r.records[o].price \in Nat
    BY DEF RecordsOK
  <2>1. CASE o \in DOMAIN records /\ r.records[o] = records[o]
    BY <2>1 DEF RecordsOK
  <2>2. CASE \E j \in Missed(existing, Finds(keys)) \cap BlackMarket :
               OrderOf[j] = o /\ r.records[o] = FillRecord(existing[j])
    <3>1. PICK j \in Missed(existing, Finds(keys)) \cap BlackMarket :
                 OrderOf[j] = o /\ r.records[o] = FillRecord(existing[j])
      BY <2>2
    <3>2. existing[j].price \in Nat
      BY <3>1, PricesAreNumbers DEF Missed, AllGenuine, Genuine, GenuineAt
    <3>3. o \in Orders
      BY <3>1 DEF Orders
    <3> QED
      BY <3>1, <3>2, <3>3 DEF FillRecord
  <2> QED
    BY <1>1, <2>1, <2>2 DEF Reconciled, Sourced
<1>6. \A k \in DOMAIN existing \ DOMAIN r.entries : Evictable(k, existing, Finds(keys), records)
  <2> SUFFICES ASSUME NEW k \in DOMAIN existing \ DOMAIN r.entries
               PROVE  Evictable(k, existing, Finds(keys), records)
    OBVIOUS
  <2>1. PICK i \in 1..Len(sequence) : sequence[i] = k
    BY ArrangementCovers DEF AllGenuine
  <2> QED
    BY <1>1, <2>1 DEF Reconciled
<1> QED
  BY <1>1, <1>3, <1>4, <1>5, <1>6 DEF Reconciled, Settled

----------------------------------------------------------------------------
(* The steps *)

(* What a scan and the two reconciliations of a cycle come to. *)
LEMMA ScanSettles ==
    ASSUME StateOK, NEW keys \in SUBSET Findable, Scan(keys)
    PROVE  \E r : /\ Settled(r, cache, keys, filled)
                  /\ cache' = r.entries /\ scan_time' = now /\ filled' = r.records
                  /\ order' \in Arrangements
                  /\ marked' = Unlifted(marked, Finds(keys))
                  /\ UNCHANGED <<now, market, dismissed, shown, struck>>
  BY ReconcileSettles DEF Scan, StateOK

LEMMA CycleSettles ==
    ASSUME StateOK, NEW keys \in SUBSET Findable, NEW passed \in SUBSET keys,
           CycleScan(keys, passed)
    PROVE  \E first, second :
             /\ Settled(first, cache, keys, filled)
             /\ Settled(second, first.entries, passed, first.records)
             /\ order' \in Arrangements
             /\ dismissed' = Unexpired
             /\ cache' = second.entries /\ scan_time' = now /\ filled' = second.records
             /\ marked' = Unlifted(marked, Finds(keys))
             /\ UNCHANGED <<now, market, shown, struck>>
<1>1. PICK first, second :
             /\ first = Reconcile(cache, Finds(keys), filled, order)
             /\ second = Reconcile(first.entries, Finds(passed), first.records, order')
             /\ order' \in Arrangements
             /\ dismissed' = Unexpired
             /\ cache' = second.entries /\ scan_time' = now /\ filled' = second.records
             /\ marked' = Unlifted(marked, Finds(keys))
             /\ UNCHANGED <<now, market, shown, struck>>
  BY DEF CycleScan
<1>2. Settled(first, cache, keys, filled)
  BY <1>1, ReconcileSettles DEF StateOK
<1>3. AllGenuine(first.entries) /\ RecordsOK(first.records) /\ passed \subseteq Findable
  BY <1>2 DEF Settled
<1>4. Settled(second, first.entries, passed, first.records)
  BY <1>1, <1>3, ReconcileSettles DEF StateOK
<1> QED
  BY <1>1, <1>2, <1>4

LEMMA StateInit == Init => StateOK
<1> SUFFICES ASSUME Init PROVE StateOK
  OBVIOUS
<1>1. MarketOK
  BY PricesAreNumbers, PriceAssumption, AgeAssumption DEF Init, MarketOK
<1>2. DOMAIN cache = {} /\ DOMAIN shown = {} /\ DOMAIN filled = {} /\ DOMAIN dismissed = {}
  BY DEF Init
<1>3. scan_time \in 0..now /\ order \in Arrangements
  BY DEF Init
<1> QED
  BY <1>1, <1>2, <1>3 DEF StateOK, AllGenuine, RecordsOK

(* Entries stay genuine while time passes and orders are observed. *)
LEMMA GenuineLater ==
    ASSUME NEW k \in Keys, NEW opp, NEW t \in Nat, NEW u \in Nat, t <= u,
           NEW rows, NEW later, GenuineAt(k, opp, t, rows),
           k \in BlackMarket => \/ later[OrderOf[k]] = rows[OrderOf[k]]
                               \/ later[OrderOf[k]].captured = t
    PROVE  GenuineAt(k, opp, u, later)
<1>1. /\ opp.price \in Recorded /\ opp.age \in Nat /\ opp.seen \in 0..u /\ opp.detected \in 0..u
      /\ opp.seen \in 0..t /\ opp.detected \in 0..t
  BY DEF GenuineAt
<1>2. CASE k \notin BlackMarket
  BY <1>1, <1>2 DEF GenuineAt
<1>3. CASE k \in BlackMarket /\ later[OrderOf[k]] = rows[OrderOf[k]]
  BY <1>1, <1>3 DEF GenuineAt
<1>4. CASE k \in BlackMarket /\ later[OrderOf[k]] # rows[OrderOf[k]]
  BY <1>1, <1>4 DEF GenuineAt
<1> QED
  BY <1>2, <1>3, <1>4

(* Time passes and orders are observed: entries that stay are as they should be. *)
LEMMA StaysGenuine ==
    ASSUME MarketOK, now' \in Nat, now <= now',
           \A o \in Orders : \/ market'[o] = market[o]
                             \/ market'[o].captured = now
    PROVE  /\ AllGenuine(cache) /\ UNCHANGED cache => AllGenuine(cache)'
           /\ AllGenuine(shown) /\ UNCHANGED shown => AllGenuine(shown)'
<1>1. ASSUME NEW k \in Keys, NEW opp, GenuineAt(k, opp, now, market)
      PROVE  GenuineAt(k, opp, now', market')
  <2>1. k \in BlackMarket => OrderOf[k] \in Orders
    BY DEF Orders
  <2>2. now \in Nat
    BY DEF MarketOK
  <2> QED
    BY <1>1, <2>1, <2>2, GenuineLater
<1> QED
  BY <1>1 DEF AllGenuine, Genuine

LEMMA StateStep ==
    ASSUME StateOK, Next
    PROVE  StateOK'
<1> USE DEF StateOK
<1>0. \A S : AllGenuine(Only(cache, S))
  BY DEF AllGenuine, Only
<1>1. ASSUME NEW keys \in SUBSET Findable, Scan(keys) PROVE StateOK'
  <2>1. PICK r : /\ Settled(r, cache, keys, filled)
                 /\ cache' = r.entries /\ scan_time' = now /\ filled' = r.records
                 /\ order' \in Arrangements
                 /\ UNCHANGED <<now, market, dismissed, shown, struck>>
    BY <1>1, ScanSettles
  <2>2. AllGenuine(r.entries) /\ RecordsOK(r.records)
    BY <2>1 DEF Settled
  <2>3. AllGenuine(cache)' /\ AllGenuine(shown)' /\ RecordsOK(filled)' /\ MarketOK'
    BY <2>1, <2>2 DEF AllGenuine, Genuine, RecordsOK, MarketOK
  <2> QED
    BY <2>1, <2>3 DEF MarketOK
<1>2. ASSUME NEW keys \in SUBSET Findable, NEW passed \in SUBSET keys, CycleScan(keys, passed)
      PROVE  StateOK'
  <2>1. PICK first, second :
             /\ Settled(first, cache, keys, filled)
             /\ Settled(second, first.entries, passed, first.records)
             /\ order' \in Arrangements
             /\ dismissed' = Unexpired
             /\ cache' = second.entries /\ scan_time' = now /\ filled' = second.records
             /\ marked' = Unlifted(marked, Finds(keys))
             /\ UNCHANGED <<now, market, shown, struck>>
    BY <1>2, CycleSettles
  <2>3. AllGenuine(second.entries) /\ RecordsOK(second.records)
    BY <2>1 DEF Settled
  <2>4. AllGenuine(cache)' /\ AllGenuine(shown)' /\ RecordsOK(filled)' /\ MarketOK'
    BY <2>1, <2>3 DEF AllGenuine, Genuine, RecordsOK, MarketOK
  <2>5. DOMAIN dismissed' \subseteq Items /\ \A i \in DOMAIN dismissed' : dismissed'[i] \in Nat
    BY <2>1 DEF Unexpired, Only
  <2> QED
    BY <2>1, <2>4, <2>5 DEF MarketOK
<1>3. ASSUME NEW keys \in SUBSET Keys, Get(keys) PROVE StateOK'
  <2>1. PICK r : /\ r = Sweep(Only(cache, keys), filled, dismissed)
                 /\ shown' = Only(cache, r.visible) /\ filled' = r.records
                 /\ UNCHANGED <<now, market, cache, scan_time, order, dismissed, marked, struck>>
    BY <1>3 DEF Get
  <2>2. Part(r.records, filled)
    BY <2>1, ArrangementCovers, SweepIsSwept DEF Swept
  <2>3. RecordsOK(filled)'
    BY <2>1, <2>2 DEF RecordsOK, Part
  <2>4. AllGenuine(shown)' /\ AllGenuine(cache)' /\ MarketOK'
    BY <1>0, <2>1 DEF AllGenuine, Genuine, MarketOK
  <2> QED
    BY <2>1, <2>3, <2>4
<1>4. ASSUME NEW k \in Keys, DismissOrder(k) PROVE StateOK'
  <2> DEFINE card == shown[k]
             recorded == Put(filled, OrderOf[k], [age |-> card.age, price |-> card.price])
  <2>1. PICK r : /\ r = Sweep(cache, recorded, dismissed)
                 /\ k \in DOMAIN shown \cap BlackMarket
                 /\ cache' = Only(cache, r.visible) /\ filled' = r.records
                 /\ UNCHANGED <<now, market, scan_time, order, dismissed, shown, struck>>
    BY <1>4 DEF DismissOrder
  <2>2. card.age \in Nat /\ card.price \in Nat
    BY <2>1, PricesAreNumbers DEF AllGenuine, Genuine, GenuineAt
  <2>3. RecordsOK(recorded)
    BY <2>1, <2>2 DEF RecordsOK, Put, Orders
  <2> HIDE DEF recorded
  <2>4. Part(r.records, recorded)
    BY <2>1, ArrangementCovers, SweepIsSwept DEF Swept
  <2>5. RecordsOK(filled)'
    BY <2>1, <2>3, <2>4 DEF RecordsOK, Part
  <2>6. AllGenuine(shown)' /\ AllGenuine(cache)' /\ MarketOK'
    BY <1>0, <2>1 DEF AllGenuine, Genuine, MarketOK
  <2> QED
    BY <2>1, <2>5, <2>6
<1>5. ASSUME NEW k \in Keys, DismissItem(k) PROVE StateOK'
  <2>1. PICK r : /\ r = Sweep(cache, filled, dismissed')
                 /\ cache' = Only(cache, r.visible) /\ filled' = r.records
                 /\ dismissed' = Put(dismissed, ItemOf[k], now + DismissalTime)
                 /\ UNCHANGED <<now, market, scan_time, order, shown, marked>>
    BY <1>5 DEF DismissItem
  <2>2. Part(r.records, filled)
    BY <2>1, ArrangementCovers, SweepIsSwept DEF Swept
  <2>3. RecordsOK(filled)'
    BY <2>1, <2>2 DEF RecordsOK, Part
  <2>4. AllGenuine(shown)' /\ AllGenuine(cache)' /\ MarketOK'
    BY <1>0, <2>1 DEF AllGenuine, Genuine, MarketOK
  <2>5. now + DismissalTime \in Nat /\ ItemOf[k] \in Items
    BY PricesAreNumbers DEF MarketOK, Items
  <2>6. DOMAIN dismissed' \subseteq Items /\ \A i \in DOMAIN dismissed' : dismissed'[i] \in Nat
    BY <2>1, <2>5 DEF Put
  <2> QED
    BY <2>1, <2>3, <2>4, <2>6
<1>6. CASE Clear
  <2>1. AllGenuine(cache)' /\ AllGenuine(shown)' /\ MarketOK' /\ RecordsOK(filled)'
    BY <1>6 DEF Clear, AllGenuine, Genuine, MarketOK, RecordsOK
  <2> QED
    BY <1>6, <2>1 DEF Clear, MarketOK
<1>7. ASSUME NEW o \in Orders, NEW price \in Prices, NEW seen \in 0..now,
             Observe(o, price, seen)
      PROVE  StateOK'
  <2>1. /\ DOMAIN market' = Orders
        /\ market'[o] = [price |-> price, seen |-> seen, captured |-> now]
        /\ \A p \in Orders : p # o => market'[p] = market[p]
        /\ UNCHANGED <<now, cache, scan_time, order, filled, dismissed, shown>>
    BY <1>7 DEF Observe, MarketOK
  <2>2. MarketOK'
    BY <2>1 DEF MarketOK
  <2>3. AllGenuine(shown)' /\ AllGenuine(cache)'
    BY <2>1, StaysGenuine DEF MarketOK
  <2> QED
    BY <2>1, <2>2, <2>3 DEF RecordsOK
<1>8. CASE Tick
  <2>1. /\ now' = now + 1 /\ now < MaxTime
        /\ UNCHANGED <<market, cache, scan_time, order, filled, dismissed, shown>>
    BY <1>8 DEF Tick
  <2>2. MarketOK'
    BY <2>1, AgeAssumption DEF MarketOK
  <2>3. AllGenuine(shown)' /\ AllGenuine(cache)'
    BY <2>1, StaysGenuine DEF MarketOK
  <2> QED
    BY <2>1, <2>2, <2>3 DEF RecordsOK, MarketOK
<1> QED
  BY <1>1, <1>2, <1>3, <1>4, <1>5, <1>6, <1>7, <1>8 DEF Next

LEMMA StateStays == StateOK /\ [Next]_vars => StateOK'
<1>1. ASSUME StateOK, UNCHANGED vars PROVE StateOK'
  BY <1>1 DEF vars, StateOK, MarketOK, AllGenuine, Genuine, RecordsOK
<1> QED
  BY <1>1, StateStep

LEMMA StateInvariant == Spec => []StateOK
  BY StateInit, StateStays, PTL DEF Spec

(* Market, cache, answers, records and dismissals have their types. *)
THEOREM TypeCorrect == Spec => []TypeOK
<1>1. StateOK => TypeOK
  BY DEF StateOK, MarketOK, AllGenuine, Genuine, GenuineAt, IsOpportunity, RecordsOK, TypeOK
<1> QED
  BY <1>1, StateInvariant, PTL

----------------------------------------------------------------------------
(* Dismissals of items *)

LEMMA StruckStep ==
    ASSUME StateOK, StruckOK, Next
    PROVE  StruckOK'
<1> USE PricesAreNumbers DEF StruckOK
<1>0. now \in Nat
  BY DEF StateOK, MarketOK
<1>1. ASSUME UNCHANGED <<now, dismissed, struck>> PROVE StruckOK'
  BY <1>1
<1>2. ASSUME NEW keys \in SUBSET Findable, NEW passed \in SUBSET keys, CycleScan(keys, passed)
      PROVE  StruckOK'
  <2>1. dismissed' = Unexpired /\ UNCHANGED <<now, struck>>
    BY <1>2 DEF CycleScan
  <2>2. ASSUME NEW i \in DOMAIN struck, now < struck[i] + DismissalTime
        PROVE  i \in DOMAIN dismissed' /\ dismissed'[i] >= struck[i] + DismissalTime
    <3>1. i \in DOMAIN dismissed /\ dismissed[i] >= struck[i] + DismissalTime
          /\ struck[i] \in Nat /\ dismissed[i] \in Nat
      BY <2>2 DEF StateOK
    <3>2. dismissed[i] > now
      BY <1>0, <2>2, <3>1
    <3> QED
      BY <2>1, <3>1, <3>2 DEF Unexpired, Only
  <2> QED
    BY <2>1, <2>2
<1>3. ASSUME NEW k \in Keys, DismissItem(k) PROVE StruckOK'
  <2>1. /\ dismissed' = Put(dismissed, ItemOf[k], now + DismissalTime)
        /\ struck' = Put(struck, ItemOf[k], now) /\ UNCHANGED now
    BY <1>3 DEF DismissItem
  <2>2. /\ DOMAIN struck' = DOMAIN struck \cup {ItemOf[k]}
        /\ struck'[ItemOf[k]] = now
        /\ \A i \in DOMAIN struck : i # ItemOf[k] => struck'[i] = struck[i]
    BY <2>1 DEF Put
  <2>3. /\ DOMAIN dismissed' = DOMAIN dismissed \cup {ItemOf[k]}
        /\ dismissed'[ItemOf[k]] = now + DismissalTime
        /\ \A i \in DOMAIN dismissed : i # ItemOf[k] => dismissed'[i] = dismissed[i]
    BY <2>1 DEF Put
  <2> QED
    BY <1>0, <2>1, <2>2, <2>3
<1>4. CASE Tick
  <2>1. now' = now + 1 /\ UNCHANGED <<dismissed, struck>>
    BY <1>4 DEF Tick
  <2> QED
    BY <1>0, <2>1
<1> QED
  BY <1>1, <1>2, <1>3, <1>4 DEF Next, Scan, Get, DismissOrder, Clear, Observe

LEMMA StruckInvariant == Spec => []StruckOK
<1>1. Init => StruckOK
  BY DEF Init, StruckOK
<1>2. StateOK /\ StruckOK /\ [Next]_vars => StruckOK'
  BY StruckStep DEF StruckOK, vars
<1> QED
  BY <1>1, <1>2, StateInvariant, PTL DEF Spec

(* A dismissal outside the Black Market lasts its full time, whatever is       *)
(* scanned, purged and served meanwhile.                                      *)
THEOREM ItemsStayDismissed == Spec => ItemStaysDismissed
<1> DEFINE A == \A k \in DOMAIN shown' \ BlackMarket :
                   ItemOf[k] \in DOMAIN struck /\ now < struck[ItemOf[k]] + DismissalTime
                       => ~Served
<1>1. ASSUME StateOK, StruckOK PROVE A
  <2> SUFFICES ASSUME NEW k \in DOMAIN shown' \ BlackMarket, ItemOf[k] \in DOMAIN struck,
                      now < struck[ItemOf[k]] + DismissalTime,
                      NEW keys \in SUBSET Keys, Get(keys)
               PROVE  FALSE
    BY DEF Served
  <2>1. PICK r : r = Sweep(Only(cache, keys), filled, dismissed) /\ shown' = Only(cache, r.visible)
    BY DEF Get
  <2>2. Swept(Only(cache, keys), filled, dismissed, Len(order), r)
    BY <1>1, <2>1, ArrangementCovers, SweepIsSwept DEF StateOK
  <2>3. ~ItemDismissed(k, dismissed)
    BY <2>1, <2>2 DEF Swept, Only
  <2>4. /\ dismissed[ItemOf[k]] >= struck[ItemOf[k]] + DismissalTime
        /\ ItemOf[k] \in DOMAIN dismissed /\ dismissed[ItemOf[k]] \in Nat
        /\ struck[ItemOf[k]] \in Nat /\ now \in Nat
    BY <1>1 DEF StruckOK, StateOK, MarketOK
  <2> QED
    BY <2>3, <2>4, PricesAreNumbers DEF ItemDismissed
<1>2. StateOK /\ StruckOK => [A]_vars
  BY <1>1
<1> QED
  BY <1>2, StateInvariant, StruckInvariant, PTL DEF ItemStaysDismissed

----------------------------------------------------------------------------
(* The age of what is cached *)

LEMMA ReconcileInTime ==
    ASSUME StateOK, NEW existing, AllGenuine(existing), NEW k \in BlackMarket,
           k \in DOMAIN existing, ~Outlived(k, existing[k])
    PROVE  DataInTime(existing[k], k)
<1> DEFINE opp == existing[k]
<1>1. Genuine(k, opp) /\ k \in Keys
  BY DEF AllGenuine
<1>2. PICK p \in Prices : opp.price = Effective[p] /\ opp.detected - opp.seen <= Lifespan[k][p]
  BY <1>1 DEF Genuine, GenuineAt
<1>3. opp.detected \in Nat /\ opp.seen \in Nat /\ now \in Nat
  BY <1>1 DEF Genuine, GenuineAt, StateOK, MarketOK
<1>4. Lifespan[k][p] \in Nat /\ Lifespan[k][Effective[p]] \in Nat
  BY <1>1, PricesAreNumbers
<1>5. now - opp.detected <= Lifespan[k][Effective[p]]
  BY <1>2, <1>3, <1>4 DEF Outlived
<1>6. now - opp.seen <= Lifespan[k][p] + Lifespan[k][Effective[p]]
  BY <1>2, <1>3, <1>4, <1>5
<1> QED
  BY <1>2, <1>6 DEF DataInTime

LEMMA FoundInTime ==
    ASSUME StateOK, NEW k \in BlackMarket, k \in Findable
    PROVE  DataInTime(Found(k), k)
<1> DEFINE row == market[OrderOf[k]]
<1>1. row.price \in Prices /\ row.seen \in Nat /\ now \in Nat /\ k \in Keys
  BY KeyAssumption DEF StateOK, MarketOK, Orders
<1>2. now - row.seen <= Lifespan[k][row.price]
  BY DEF Findable
<1>3. Lifespan[k][row.price] \in Nat /\ Lifespan[k][Effective[row.price]] \in Nat
  BY <1>1, PricesAreNumbers
<1>4. now - row.seen <= Lifespan[k][row.price] + Lifespan[k][Effective[row.price]]
  BY <1>1, <1>2, <1>3
<1>5. Found(k).price = Effective[row.price] /\ Found(k).seen = row.seen
  BY DEF Found
<1> QED
  BY <1>1, <1>4, <1>5 DEF DataInTime

(* A scan leaves no Black Market opportunity whose data has outlived both the  *)
(* ceiling of the scan and that of the cache.                                 *)
THEOREM DataIsInTime == Spec => DataAgeBounded
<1> DEFINE A == \A k \in DOMAIN cache' \cap BlackMarket :
                   ~DataInTime(cache'[k], k) => ~Scanned
<1>1. ASSUME StateOK PROVE A
  <2> SUFFICES ASSUME NEW k \in DOMAIN cache' \cap BlackMarket, Scanned
               PROVE  DataInTime(cache'[k], k)
    OBVIOUS
  <2>1. ASSUME NEW keys \in SUBSET Findable, Scan(keys) PROVE DataInTime(cache'[k], k)
    <3>1. PICK r : Settled(r, cache, keys, filled) /\ cache' = r.entries
      BY <1>1, <2>1, ScanSettles
    <3>2. \/ k \in keys /\ cache'[k] = Found(k)
          \/ k \in DOMAIN cache /\ cache'[k] = cache[k] /\ ~Outlived(k, cache[k])
      BY <3>1 DEF Settled
    <3> QED
      BY <1>1, <3>2, FoundInTime, ReconcileInTime DEF StateOK
  <2>2. ASSUME NEW keys \in SUBSET Findable, NEW passed \in SUBSET keys, CycleScan(keys, passed)
        PROVE  DataInTime(cache'[k], k)
    <3>1. PICK first, second :
             /\ Settled(first, cache, keys, filled)
             /\ Settled(second, first.entries, passed, first.records)
             /\ cache' = second.entries
      BY <1>1, <2>2, CycleSettles
    <3>2. AllGenuine(first.entries)
      BY <3>1 DEF Settled
    <3>3. \/ k \in passed /\ cache'[k] = Found(k)
          \/ /\ k \in DOMAIN first.entries /\ cache'[k] = first.entries[k]
             /\ ~Outlived(k, first.entries[k])
      BY <3>1 DEF Settled
    <3> QED
      BY <1>1, <3>2, <3>3, FoundInTime, ReconcileInTime
  <2> QED
    BY <2>1, <2>2 DEF Scanned
<1>2. StateOK => [A]_vars
  BY <1>1
<1> QED
  BY <1>2, StateInvariant, PTL DEF DataAgeBounded

----------------------------------------------------------------------------
(* Evictions *)

(* A row with a lower price was captured since the detection: an entry detected *)
(* later would have been found at that price.                                 *)
LEMMA LowerIsUndercut ==
    ASSUME MarketOK, NEW k \in BlackMarket, NEW opp, Genuine(k, opp), NEW price \in Nat,
           opp.price = price,
           market[OrderOf[k]].price < price \/ market[OrderOf[k]].price = 0
    PROVE  Undercut(k, opp)
<1> DEFINE row == market[OrderOf[k]]
<1>1. row.price \in Prices /\ row.captured \in Nat /\ row.price \in Nat
  BY PricesAreNumbers DEF MarketOK, Orders
<1>2. opp.price > 0 /\ opp.detected \in Nat
      /\ (opp.detected > row.captured => opp.price = Effective[row.price])
  BY DEF Genuine, GenuineAt
<1>3. Effective[row.price] \in Nat /\ Effective[row.price] <= row.price
  BY <1>1, PricesAreNumbers
<1>4. ~(opp.detected > row.captured)
  BY <1>1, <1>2, <1>3
<1> QED
  BY <1>1, <1>2, <1>4 DEF Undercut

(* The record of a fill hides only entries of the price that was filled. *)
LEMMA FillHides ==
    ASSUME MarketOK, NEW k \in BlackMarket, NEW opp, Genuine(k, opp),
           NEW j \in BlackMarket, NEW other, OrderOf[j] = OrderOf[k], other.price \in Nat,
           Fulfilled(j, other), ~Fresher(opp, FillRecord(other))
    PROVE  Undercut(k, opp)
<1>1. /\ other.price > 0
      /\ market[OrderOf[k]].price < other.price \/ market[OrderOf[k]].price = 0
  BY DEF Fulfilled
<1>2. opp.price > 0
  BY DEF Genuine, GenuineAt
<1>3. FillRecord(other).price = other.price
  BY DEF FillRecord
<1>4. opp.price = other.price
  BY <1>1, <1>2, <1>3 DEF Fresher
<1> QED
  BY <1>1, <1>4, LowerIsUndercut

(* The reasons for an eviction, with fills taken back to what was captured. *)
Caused(k, opp) ==
    \/ ItemDismissed(k, dismissed)
    \/ HasRecord(k, filled)
    \/ Outlived(k, opp)
    \/ k \in BlackMarket /\ Undercut(k, opp)

(* Where the records that a reconciliation starts from may come from. *)
Traced(records) ==
    \A o \in DOMAIN records :
        \/ o \in DOMAIN filled
        \/ \E j \in BlackMarket : \E other :
              /\ OrderOf[j] = o /\ other.price \in Nat
              /\ Fulfilled(j, other) /\ records[o] = FillRecord(other)

LEMMA EvictionCaused ==
    ASSUME MarketOK, NEW existing, AllGenuine(existing), NEW records, Traced(records),
           NEW incoming, NEW k \in DOMAIN existing,
           Evictable(k, existing, incoming, records)
    PROVE  Caused(k, existing[k])
<1> DEFINE opp == existing[k]
<1>0. Genuine(k, opp)
  BY DEF AllGenuine
<1>1. ASSUME Fulfilled(k, opp) PROVE Caused(k, opp)
  <2>1. k \in BlackMarket /\ opp.price \in Nat
    BY <1>0, <1>1, PricesAreNumbers DEF Fulfilled, Genuine, GenuineAt
  <2>2. market[OrderOf[k]].price < opp.price \/ market[OrderOf[k]].price = 0
    BY <1>1 DEF Fulfilled
  <2> QED
    BY <1>0, <2>1, <2>2, LowerIsUndercut DEF Caused
<1>2. ASSUME HasRecord(k, records), ~Fresher(opp, records[OrderOf[k]]) PROVE Caused(k, opp)
  <2>1. CASE OrderOf[k] \in DOMAIN filled
    BY <1>2, <2>1 DEF HasRecord, Caused
  <2>2. CASE OrderOf[k] \notin DOMAIN filled
    <3>1. PICK j \in BlackMarket : \E other :
              /\ OrderOf[j] = OrderOf[k] /\ other.price \in Nat
              /\ Fulfilled(j, other) /\ records[OrderOf[k]] = FillRecord(other)
      BY <1>2, <2>2 DEF Traced, HasRecord
    <3>2. k \in BlackMarket
      BY <1>2 DEF HasRecord
    <3> QED
      BY <1>0, <1>2, <3>1, <3>2, FillHides DEF Caused
  <2> QED
    BY <2>1, <2>2
<1>3. ASSUME k \in BlackMarket, NEW j \in Missed(existing, incoming) \cap BlackMarket,
             OrderOf[j] = OrderOf[k], Fulfilled(j, existing[j]),
             ~Fresher(opp, FillRecord(existing[j]))
      PROVE  Caused(k, opp)
  <2>1. existing[j].price \in Nat
    BY <1>3, PricesAreNumbers DEF Missed, AllGenuine, Genuine, GenuineAt
  <2> QED
    BY <1>0, <1>3, <2>1, FillHides DEF Caused
<1> QED
  BY <1>1, <1>2, <1>3 DEF Evictable, Caused

(* What was just found is neither outlived nor undercut. *)
LEMMA FoundIsSafe ==
    ASSUME MarketOK, NEW k \in Findable, Caused(k, Found(k))
    PROVE  ItemDismissed(k, dismissed) \/ HasRecord(k, filled)
<1>1. Genuine(k, Found(k)) /\ k \in Keys /\ now \in Nat
  BY FoundIsGenuine DEF Findable, MarketOK
<1>2. ~Outlived(k, Found(k))
  <2>1. Found(k).detected = now
    BY DEF Found
  <2>2. Lifespan[k][Found(k).price] \in Nat /\ RoyalRetention \in Nat
    BY <1>1, PricesAreNumbers DEF Genuine, GenuineAt
  <2> QED
    BY <1>1, <2>1, <2>2 DEF Outlived
<1>3. ASSUME k \in BlackMarket PROVE ~Undercut(k, Found(k))
  <2> DEFINE row == market[OrderOf[k]]
  <2>1. row.price \in Prices /\ row.price \in Nat
    BY <1>3, PricesAreNumbers DEF MarketOK, Orders
  <2>2. Effective[row.price] > 0 /\ Effective[row.price] \in Nat /\ Effective[row.price] <= row.price
    BY <1>3, <2>1, PricesAreNumbers DEF Findable
  <2>3. Found(k).price = Effective[row.price]
    BY <1>3 DEF Found
  <2> QED
    BY <2>1, <2>2, <2>3 DEF Undercut
<1> QED
  BY <1>2, <1>3 DEF Caused

(* No entry leaves the cache without a cause; in particular a fill that is     *)
(* detected on one route to an order drops other routes to it only at the     *)
(* price that was filled.                                                     *)
THEOREM EvictionsAreJustified == Spec => NoPrematureEviction
<1> DEFINE Excused(k) ==
              \/ Clear
              \/ ItemDismissed(k, dismissed) \/ ItemDismissed(k, dismissed')
              \/ HasRecord(k, filled)
              \/ k \in BlackMarket /\ \E j \in BlackMarket : OrderOf[j] = OrderOf[k] /\ DismissOrder(j)
              \/ Outlived(k, cache[k])
              \/ k \in BlackMarket /\ Undercut(k, cache[k])
<1>0. \A k : Caused(k, cache[k]) => Excused(k)
  BY DEF Caused
<1>1. ASSUME StateOK, Next, NEW k \in DOMAIN cache \ DOMAIN cache' PROVE Excused(k)
  <2> HIDE DEF Excused
  <2>0. MarketOK /\ AllGenuine(cache) /\ order \in Arrangements
    BY <1>1 DEF StateOK
  <2>a. k \in Keys /\ \E i \in 1..Len(order) : order[i] = k
    BY <1>1, <2>0, ArrangementCovers DEF AllGenuine
  <2>1. ASSUME NEW keys \in SUBSET Findable, Scan(keys) PROVE Excused(k)
    <3>1. PICK r : Settled(r, cache, keys, filled) /\ cache' = r.entries
      BY <1>1, <2>1, ScanSettles
    <3>2. Evictable(k, cache, Finds(keys), filled)
      BY <1>1, <3>1 DEF Settled
    <3> QED
      BY <1>0, <1>1, <2>0, <3>2, EvictionCaused DEF Traced
  <2>2. ASSUME NEW keys \in SUBSET Findable, NEW passed \in SUBSET keys, CycleScan(keys, passed)
        PROVE  Excused(k)
    <3>1. PICK first, second :
             /\ Settled(first, cache, keys, filled)
             /\ Settled(second, first.entries, passed, first.records)
             /\ cache' = second.entries
      BY <1>1, <2>2, CycleSettles
    <3>2. CASE k \notin DOMAIN first.entries
      <4>1. Evictable(k, cache, Finds(keys), filled)
        BY <1>1, <3>1, <3>2 DEF Settled
      <4> QED
        BY <1>0, <1>1, <2>0, <4>1, EvictionCaused DEF Traced
    <3>3. CASE k \in DOMAIN first.entries
      <4>1. AllGenuine(first.entries)
        BY <3>1 DEF Settled
      <4>2. Traced(first.records)
        <5>1. \A j \in Missed(cache, Finds(keys)) : cache[j].price \in Nat
          BY <2>0, PricesAreNumbers DEF Missed, AllGenuine, Genuine, GenuineAt
        <5> QED
          BY <3>1, <5>1 DEF Settled, Sourced, Traced
      <4>3. Evictable(k, first.entries, Finds(passed), first.records)
        BY <1>1, <3>1, <3>3 DEF Settled
      <4>4. Caused(k, first.entries[k])
        BY <2>0, <3>3, <4>1, <4>2, <4>3, EvictionCaused
      <4>5. CASE k \in keys /\ first.entries[k] = Found(k)
        BY <2>0, <4>4, <4>5, FoundIsSafe DEF Excused
      <4>6. CASE first.entries[k] = cache[k]
        BY <1>0, <4>4, <4>6
      <4> QED
        BY <3>1, <3>3, <4>5, <4>6 DEF Settled
    <3> QED
      BY <3>2, <3>3
  <2>3. ASSUME NEW j \in Keys, DismissOrder(j) PROVE Excused(k)
    <3> DEFINE recorded == Put(filled, OrderOf[j], [age |-> shown[j].age, price |-> shown[j].price])
    <3>1. PICK r : /\ r = Sweep(cache, recorded, dismissed)
                   /\ cache' = Only(cache, r.visible) /\ j \in BlackMarket
      BY <2>3 DEF DismissOrder
    <3>2. DOMAIN recorded = DOMAIN filled \cup {OrderOf[j]}
      BY DEF Put
    <3> HIDE DEF recorded
    <3>3. Swept(cache, recorded, dismissed, Len(order), r)
      BY <2>0, <3>1, ArrangementCovers, SweepIsSwept
    <3>4. ItemDismissed(k, dismissed) \/ HasRecord(k, recorded)
      BY <1>1, <2>a, <3>1, <3>3 DEF Swept, Only
    <3> QED
      BY <2>3, <3>1, <3>2, <3>4 DEF HasRecord, Excused
  <2>4. ASSUME NEW j \in Keys, DismissItem(j) PROVE Excused(k)
    <3>1. PICK r : r = Sweep(cache, filled, dismissed') /\ cache' = Only(cache, r.visible)
      BY <2>4 DEF DismissItem
    <3>2. Swept(cache, filled, dismissed', Len(order), r)
      BY <2>0, <3>1, ArrangementCovers, SweepIsSwept
    <3> QED
      BY <1>1, <2>a, <3>1, <3>2 DEF Swept, Only, Excused
  <2>5. CASE Clear
    BY <2>5 DEF Excused
  <2> QED
    BY <1>1, <2>1, <2>2, <2>3, <2>4, <2>5 DEF Next, Get, Observe, Tick
<1>2. StateOK /\ [Next]_vars => [\A k \in DOMAIN cache \ DOMAIN cache' : Excused(k)]_vars
  BY <1>1 DEF vars
<1> QED
  BY <1>2, StateInvariant, PTL DEF Spec, NoPrematureEviction

----------------------------------------------------------------------------
(* Dismissals of orders *)

(* By age, an entry is fresher than a marked card only if its price was        *)
(* observed later or it was found by an earlier scan.                         *)
LEMMA FresherLifts ==
    ASSUME NEW k \in BlackMarket, NEW opp, Genuine(k, opp), NEW card, NEW record,
           card.price \in Nat, card.age \in Nat, card.seen \in Nat,
           card.detected = card.seen + card.age,
           record.age = card.age, record.price = card.price,
           Fresher(opp, record)
    PROVE  Lifts(opp, card)
<1>1. opp.age \in Nat /\ opp.seen \in Nat /\ opp.seen + opp.age = opp.detected
  BY DEF Genuine, GenuineAt
<1>2. CASE opp.age + FresherBy < card.age
  <2>1. opp.seen > card.seen \/ opp.detected < card.detected
    BY <1>1, <1>2, PricesAreNumbers
  <2> QED
    BY <2>1 DEF Lifts
<1>3. CASE opp.price # card.price
  BY <1>3 DEF Lifts
<1> QED
  BY <1>2, <1>3 DEF Fresher

(* Marks stay honoured when entries stay or are no newer data, and records are *)
(* lost only to fresher data.                                                 *)
LEMMA StaysHonoured ==
    ASSUME NEW marks, NEW entries, NEW records, AllGenuine(entries),
           Honoured(marks, entries, records), NEW left, NEW kept,
           \A k \in DOMAIN left \cap BlackMarket :
              \/ k \in DOMAIN entries /\ left[k] = entries[k]
              \/ OrderOf[k] \in DOMAIN marks => ~Lifts(left[k], marks[OrderOf[k]]),
           \A o \in DOMAIN records :
              \/ o \in DOMAIN kept /\ kept[o] = records[o]
              \/ \E j \in DOMAIN entries \cap BlackMarket :
                    OrderOf[j] = o /\ Fresher(entries[j], records[o])
    PROVE  Honoured(marks, left, kept)
<1> SUFFICES ASSUME NEW o \in DOMAIN marks
    PROVE  /\ marks[o].price \in Nat /\ marks[o].age \in Nat /\ marks[o].seen \in Nat
           /\ marks[o].detected = marks[o].seen + marks[o].age
           /\ o \in DOMAIN kept
           /\ kept[o].age = marks[o].age /\ kept[o].price = marks[o].price
           /\ \A k \in DOMAIN left \cap BlackMarket :
                 OrderOf[k] = o => ~Lifts(left[k], marks[o])
  BY DEF Honoured
<1>1. /\ marks[o].price \in Nat /\ marks[o].age \in Nat /\ marks[o].seen \in Nat
      /\ marks[o].detected = marks[o].seen + marks[o].age
      /\ o \in DOMAIN records
      /\ records[o].age = marks[o].age /\ records[o].price = marks[o].price
      /\ \A k \in DOMAIN entries \cap BlackMarket :
            OrderOf[k] = o => ~Lifts(entries[k], marks[o])
  BY DEF Honoured
<1>2. ASSUME NEW j \in DOMAIN entries \cap BlackMarket, OrderOf[j] = o
      PROVE  ~Fresher(entries[j], records[o])
  BY <1>1, <1>2, FresherLifts DEF AllGenuine
<1> QED
  BY <1>1, <1>2

(* So do they in a reconciliation with entries that are no newer data. *)
LEMMA SettledHonours ==
    ASSUME NEW marks, NEW existing, NEW records, AllGenuine(existing),
           Honoured(marks, existing, records), NEW keys, NEW r,
           Settled(r, existing, keys, records),
           \A k \in keys \cap BlackMarket :
              OrderOf[k] \in DOMAIN marks => ~Lifts(Found(k), marks[OrderOf[k]])
    PROVE  Honoured(marks, r.entries, r.records)
<1>1. \A k \in DOMAIN r.entries \cap BlackMarket :
         \/ k \in DOMAIN existing /\ r.entries[k] = existing[k]
         \/ OrderOf[k] \in DOMAIN marks => ~Lifts(r.entries[k], marks[OrderOf[k]])
  BY DEF Settled
<1>2. \A o \in DOMAIN records :
         \/ o \in DOMAIN r.records /\ r.records[o] = records[o]
         \/ \E j \in DOMAIN existing \cap BlackMarket :
               OrderOf[j] = o /\ Fresher(existing[j], records[o])
  BY DEF Settled, Accounted, Missed
<1> QED
  BY <1>1, <1>2, StaysHonoured

(* Marks that newer data has not lifted: what was found is no newer data. *)
LEMMA UnliftedByFinds ==
    ASSUME NEW marks, NEW keys, NEW left, left = Unlifted(marks, Finds(keys))
    PROVE  /\ \A o \in DOMAIN left : o \in DOMAIN marks /\ left[o] = marks[o]
           /\ \A k \in keys \cap BlackMarket :
                 OrderOf[k] \in DOMAIN left => ~Lifts(Found(k), left[OrderOf[k]])
  BY DEF Unlifted, Only, Finds

LEMMA FewerHonoured ==
    ASSUME NEW marks, NEW entries, NEW records, Honoured(marks, entries, records),
           NEW left, \A o \in DOMAIN left : o \in DOMAIN marks /\ left[o] = marks[o]
    PROVE  Honoured(left, entries, records)
  BY DEF Honoured

LEMMA HonouredStep ==
    ASSUME StateOK, Honoured(marked, cache, filled), Next
    PROVE  Honoured(marked, cache, filled)'
<1>0. MarketOK /\ AllGenuine(cache) /\ AllGenuine(shown) /\ order \in Arrangements
  BY DEF StateOK
<1>1. ASSUME Honoured(marked', cache', filled') PROVE Honoured(marked, cache, filled)'
  BY <1>1 DEF Honoured, Lifts
<1>2. ASSUME NEW keys \in SUBSET Findable, Scan(keys) PROVE Honoured(marked, cache, filled)'
  <2>1. PICK r : /\ Settled(r, cache, keys, filled) /\ cache' = r.entries /\ filled' = r.records
                 /\ marked' = Unlifted(marked, Finds(keys))
    BY <1>2, ScanSettles
  <2>2. /\ \A o \in DOMAIN marked' : o \in DOMAIN marked /\ marked'[o] = marked[o]
        /\ \A k \in keys \cap BlackMarket :
              OrderOf[k] \in DOMAIN marked' => ~Lifts(Found(k), marked'[OrderOf[k]])
    BY <2>1, UnliftedByFinds
  <2>3. Honoured(marked', cache, filled)
    BY <2>2, FewerHonoured
  <2>4. Honoured(marked', r.entries, r.records)
    BY <1>0, <2>1, <2>2, <2>3, SettledHonours
  <2> QED
    BY <1>1, <2>1, <2>4
<1>3. ASSUME NEW keys \in SUBSET Findable, NEW passed \in SUBSET keys, CycleScan(keys, passed)
      PROVE  Honoured(marked, cache, filled)'
  <2>1. PICK first, second :
             /\ Settled(first, cache, keys, filled)
             /\ Settled(second, first.entries, passed, first.records)
             /\ cache' = second.entries /\ filled' = second.records
             /\ marked' = Unlifted(marked, Finds(keys))
    BY <1>3, CycleSettles
  <2>2. /\ \A o \in DOMAIN marked' : o \in DOMAIN marked /\ marked'[o] = marked[o]
        /\ \A k \in keys \cap BlackMarket :
              OrderOf[k] \in DOMAIN marked' => ~Lifts(Found(k), marked'[OrderOf[k]])
    BY <2>1, UnliftedByFinds
  <2>3. Honoured(marked', cache, filled)
    BY <2>2, FewerHonoured
  <2>4. Honoured(marked', first.entries, first.records)
    BY <1>0, <2>1, <2>2, <2>3, SettledHonours
  <2>5. AllGenuine(first.entries)
    BY <2>1 DEF Settled
  <2>6. Honoured(marked', second.entries, second.records)
    BY <2>1, <2>2, <2>4, <2>5, SettledHonours
  <2> QED
    BY <1>1, <2>1, <2>6
<1>4. ASSUME NEW keys \in SUBSET Keys, Get(keys) PROVE Honoured(marked, cache, filled)'
  <2>1. PICK r : /\ r = Sweep(Only(cache, keys), filled, dismissed) /\ filled' = r.records
                 /\ UNCHANGED <<cache, marked>>
    BY <1>4 DEF Get
  <2>2. Swept(Only(cache, keys), filled, dismissed, Len(order), r)
    BY <1>0, <2>1, ArrangementCovers, SweepIsSwept
  <2>3. Part(r.records, filled) /\ Explained(r.records, filled, cache)
    BY <2>2 DEF Swept, Explained, Only
  <2>4. Honoured(marked, cache, r.records)
    BY <1>0, <2>3, StaysHonoured DEF Part, Explained
  <2> QED
    BY <1>1, <2>1, <2>4
<1>5. ASSUME NEW k \in Keys, DismissItem(k) PROVE Honoured(marked, cache, filled)'
  <2>1. PICK r : /\ r = Sweep(cache, filled, dismissed')
                 /\ cache' = Only(cache, r.visible) /\ filled' = r.records
                 /\ UNCHANGED marked
    BY <1>5 DEF DismissItem
  <2>2. Swept(cache, filled, dismissed', Len(order), r)
    BY <1>0, <2>1, ArrangementCovers, SweepIsSwept
  <2>3. \A j \in DOMAIN cache' : j \in DOMAIN cache /\ cache'[j] = cache[j]
    BY <2>1 DEF Only
  <2>4. Honoured(marked, cache', r.records)
    BY <1>0, <2>2, <2>3, StaysHonoured DEF Swept, Part, Explained
  <2> QED
    BY <1>1, <2>1, <2>4
<1>6. ASSUME NEW k \in Keys, DismissOrder(k) PROVE Honoured(marked, cache, filled)'
  <2> DEFINE card == shown[k]
             recorded == Put(filled, OrderOf[k], [age |-> card.age, price |-> card.price])
             put == Put(marked, OrderOf[k], card)
  <2>1. PICK r : /\ r = Sweep(cache, recorded, dismissed)
                 /\ k \in DOMAIN shown \cap BlackMarket
                 /\ cache' = Only(cache, r.visible) /\ filled' = r.records
                 /\ marked' = Unlifted(put, cache)
    BY <1>6 DEF DismissOrder
  <2>2. /\ DOMAIN recorded = DOMAIN filled \cup {OrderOf[k]}
        /\ recorded[OrderOf[k]] = [age |-> card.age, price |-> card.price]
        /\ \A o \in DOMAIN filled : o # OrderOf[k] => recorded[o] = filled[o]
    BY DEF Put
  <2>3. /\ DOMAIN put = DOMAIN marked \cup {OrderOf[k]}
        /\ put[OrderOf[k]] = card
        /\ \A o \in DOMAIN marked : o # OrderOf[k] => put[o] = marked[o]
    BY DEF Put
  <2>4. /\ card.price \in Nat /\ card.age \in Nat /\ card.seen \in Nat
        /\ card.detected = card.seen + card.age
    <3>1. Genuine(k, card)
      BY <1>0, <2>1 DEF AllGenuine
    <3> HIDE DEF card
    <3>2. /\ card.price \in Recorded /\ card.age \in Nat /\ card.seen \in 0..now
          /\ card.seen + card.age = card.detected
      BY <3>1 DEF Genuine, GenuineAt
    <3>3. card.price \in Nat
      BY <3>2, PricesAreNumbers
    <3>4. now \in Nat
      BY <1>0 DEF MarketOK
    <3>5. card.seen \in Nat /\ card.detected = card.seen + card.age
      BY <3>2, <3>4
    <3> QED
      BY <3>2, <3>3, <3>5
  <2> HIDE DEF recorded, put
  <2>5. /\ \A o \in DOMAIN marked' : o \in DOMAIN put /\ marked'[o] = put[o]
        /\ \A o \in DOMAIN marked' : \A j \in DOMAIN cache \cap BlackMarket :
              OrderOf[j] = o => ~Lifts(cache[j], marked'[o])
    BY <2>1 DEF Unlifted, Only
  <2>6. Honoured(marked', cache, recorded)
    <3> SUFFICES ASSUME NEW o \in DOMAIN marked'
        PROVE  /\ marked'[o].price \in Nat /\ marked'[o].age \in Nat /\ marked'[o].seen \in Nat
               /\ marked'[o].detected = marked'[o].seen + marked'[o].age
               /\ o \in DOMAIN recorded
               /\ recorded[o].age = marked'[o].age /\ recorded[o].price = marked'[o].price
      BY <2>5 DEF Honoured
    <3>1. CASE o = OrderOf[k]
      BY <2>2, <2>3, <2>4, <2>5, <3>1
    <3>2. CASE o # OrderOf[k]
      BY <2>2, <2>3, <2>5, <3>2 DEF Honoured
    <3> QED
      BY <3>1, <3>2
  <2>7. Swept(cache, recorded, dismissed, Len(order), r)
    BY <1>0, <2>1, ArrangementCovers, SweepIsSwept
  <2>8. \A j \in DOMAIN cache' : j \in DOMAIN cache /\ cache'[j] = cache[j]
    BY <2>1 DEF Only
  <2>9. Honoured(marked', cache', r.records)
    BY <1>0, <2>6, <2>7, <2>8, StaysHonoured DEF Swept, Part, Explained
  <2> QED
    BY <1>1, <2>1, <2>9
<1>7. CASE Clear
  BY <1>7 DEF Clear, Honoured, Lifts
<1>8. ASSUME UNCHANGED <<cache, filled, marked>> PROVE Honoured(marked, cache, filled)'
  BY <1>1, <1>8
<1> QED
  BY <1>2, <1>3, <1>4, <1>5, <1>6, <1>7, <1>8 DEF Next, Observe, Tick

LEMMA HonouredInvariant == Spec => []Honoured(marked, cache, filled)
<1>1. Init => Honoured(marked, cache, filled)
  BY DEF Init, Honoured
<1>2. StateOK /\ Honoured(marked, cache, filled) /\ [Next]_vars => Honoured(marked, cache, filled)'
  <2>1. ASSUME Honoured(marked, cache, filled), UNCHANGED vars
        PROVE  Honoured(marked, cache, filled)'
    BY <2>1 DEF Honoured, Lifts, vars
  <2> QED
    BY <2>1, HonouredStep
<1> QED
  BY <1>1, <1>2, StateInvariant, PTL DEF Spec

(* No card of an order marked as filled is served before newer data of the     *)
(* order is found or met, whatever was scanned, dismissed, filled, cleared and *)
(* captured since and however many routes lead to the order.                  *)
THEOREM DismissalsHold == Spec => DismissalHolds
<1> DEFINE A == \A k \in DOMAIN shown' \cap BlackMarket : OrderOf[k] \in DOMAIN marked => ~Served
<1>1. ASSUME StateOK, Honoured(marked, cache, filled) PROVE A
  <2> SUFFICES ASSUME NEW k \in DOMAIN shown' \cap BlackMarket, OrderOf[k] \in DOMAIN marked,
                      NEW keys \in SUBSET Keys, Get(keys)
               PROVE  FALSE
    BY DEF Served
  <2>0. AllGenuine(cache) /\ order \in Arrangements
    BY <1>1 DEF StateOK
  <2>1. PICK r : r = Sweep(Only(cache, keys), filled, dismissed) /\ shown' = Only(cache, r.visible)
    BY DEF Get
  <2>2. Swept(Only(cache, keys), filled, dismissed, Len(order), r)
    BY <2>0, <2>1, ArrangementCovers, SweepIsSwept
  <2>3. k \in r.visible
    BY <2>1 DEF Only
  <2>4. Part(r.records, filled) /\ Explained(r.records, filled, cache)
    BY <2>2 DEF Swept, Explained, Only
  <2>5. Honoured(marked, cache, r.records)
    BY <1>1, <2>0, <2>4, StaysHonoured DEF Part, Explained
  <2>6. OrderOf[k] \notin DOMAIN r.records
    BY <2>2, <2>3 DEF Swept, HasRecord
  <2> QED
    BY <2>5, <2>6 DEF Honoured
<1>2. StateOK /\ Honoured(marked, cache, filled) => [A]_vars
  BY <1>1
<1> QED
  BY <1>2, StateInvariant, HonouredInvariant, PTL DEF DismissalHolds
===============================================================================
