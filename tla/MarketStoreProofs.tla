------------------------- MODULE MarketStoreProofs -------------------------
(***************************************************************************)
(* Type correctness of the price table, and that the two writers, in any   *)
(* interleaving, keep the ages of its rows honest and bounded.             *)
(***************************************************************************)
EXTENDS MarketStore, TLAPS

USE StoreAssumption DEF Time, None, Quote, row, book, Stored

(* get_bucket returns the start of an interval that contains the time. *)
LEMMA BucketContains ==
    ASSUME NEW t \in Time
    PROVE  /\ Bucket(t) \in Time
           /\ Bucket(t) <= t /\ t < Bucket(t) + BucketTicks
<1>1. t % BucketTicks \in 0..BucketTicks - 1
  BY DEF Time
<1>2. t % BucketTicks <= t
  BY <1>1
<1> QED
  BY <1>1, <1>2 DEF Bucket

(* The type invariant, apart from the Boolean variable, in parts.            *)
RowsOK ==
    /\ sell \in [Time -> Quote] /\ buy \in [Time -> Quote]
    /\ age \in [Time -> Time] /\ captured \in [Time -> Quote]
    /\ \A b \in Stored : b = Bucket(captured[b])

RecordsOK ==
    /\ now \in Time
    /\ api \in [sell : Quote, buy : Quote, age : Time, captured : Quote]
    /\ flush \in [sell : Quote, buy : Quote, age : {0}, captured : Quote]
    /\ orders \subseteq Sides /\ live \subseteq Sides
    /\ updated \in Quote
    /\ records \in 0..MaxRecords

(* A record on its way to the table has an age. *)
LEMMA RecordType ==
    ASSUME RecordsOK, NEW s \in Quote, NEW b \in Quote, s <= now, b <= now, Storable(s, b)
    PROVE  DataAge(s, b) \in Time
BY DEF RecordsOK, Storable, DataAge

(* Every step that is not a write or a deletion leaves the rows alone. *)
LEMMA RowsStep ==
    ASSUME RowsOK, RecordsOK, [Next]_vars
    PROVE  RowsOK'
<1> USE DEF RowsOK
<1>1. CASE UNCHANGED row
  BY <1>1
<1>2. CASE SaveSnapshots
  <2>1. Bucket(api.captured) \in Time
    BY <1>2, BucketContains DEF SaveSnapshots, RecordsOK
  <2> QED
    BY <1>2, <2>1 DEF SaveSnapshots, RecordsOK
<1>3. CASE SaveFlush
  <2>1. Bucket(flush.captured) \in Time
    BY <1>3, BucketContains DEF SaveFlush, RecordsOK
  <2>2. /\ Coalesce(flush.sell, sell[Bucket(flush.captured)]) \in Quote
        /\ Coalesce(flush.buy, buy[Bucket(flush.captured)]) \in Quote
    <3>1. /\ sell[Bucket(flush.captured)] \in Quote /\ buy[Bucket(flush.captured)] \in Quote
          /\ flush.sell \in Quote /\ flush.buy \in Quote
      BY <2>1 DEF RecordsOK
    <3> QED
      BY <3>1 DEF Coalesce
  <2>6. flush.captured \in Quote /\ flush.age \in Time
    BY DEF RecordsOK
  <2> HIDE DEF Quote, Time
  <2>3. /\ sell' \in [Time -> Quote] /\ buy' \in [Time -> Quote]
        /\ age' \in [Time -> Time] /\ captured' \in [Time -> Quote]
    BY <1>3, <2>1, <2>2, <2>6 DEF SaveFlush
  <2>4. \A b \in Stored' : b = Bucket(captured'[b])
    BY <1>3, <2>1, <2>3 DEF SaveFlush
  <2> QED
    BY <2>3, <2>4
<1>4. CASE Prune
  <2>1. PICK gone : /\ sell' = [b \in Time |-> IF b \in gone THEN None ELSE sell[b]]
                    /\ buy' = [b \in Time |-> IF b \in gone THEN None ELSE buy[b]]
                    /\ age' = [b \in Time |-> IF b \in gone THEN 0 ELSE age[b]]
                    /\ captured' = [b \in Time |-> IF b \in gone THEN None ELSE captured[b]]
    BY <1>4, Zenon DEF Prune
  <2>2. sell' \in [Time -> Quote] /\ buy' \in [Time -> Quote]
    BY <2>1
  <2>3. age' \in [Time -> Time] /\ captured' \in [Time -> Quote]
    BY <2>1
  <2>4. \A b \in Stored' : b = Bucket(captured'[b])
    BY <2>1
  <2> QED
    BY <2>2, <2>3, <2>4
<1> QED
  BY <1>1, <1>2, <1>3, <1>4 DEF Next, vars, Tick, Fetch, SaveFails, OrderArrives,
     AnonymousArrives, OrdersExpire, BookIsDropped, TakeBuffer, FlushFails, Restart

(* The records, the clock and the live book keep their types. *)
LEMMA RecordsStep ==
    ASSUME RecordsOK, [Next]_vars
    PROVE  RecordsOK'
<1>1. CASE Fetch
  <2>1. PICK s \in Quote, b \in Quote :
           /\ s <= now /\ b <= now /\ Storable(s, b)
           /\ api' = [sell |-> s, buy |-> b, age |-> DataAge(s, b), captured |-> now]
    BY <1>1, Zenon DEF Fetch
  <2>2. /\ UNCHANGED <<now, flush, orders, live, updated>>
        /\ records < MaxRecords /\ records' = records + 1
    BY <1>1, Zenon DEF Fetch, book
  <2> HIDE DEF Quote, Time
  <2>3. api' \in [sell : Quote, buy : Quote, age : Time, captured : Quote]
    BY <2>1, RecordType DEF RecordsOK, Quote
  <2> QED
    BY <2>2, <2>3 DEF RecordsOK
<1>2. CASE Tick
  <2>1. /\ now < MaxTime /\ now' = now + 1
        /\ UNCHANGED <<api, flush, orders, live, updated, records>>
    BY <1>2, Zenon DEF Tick, book
  <2> QED
    BY <2>1 DEF RecordsOK
<1>3. CASE TakeBuffer
  <2>1. /\ UNCHANGED <<now, api, orders, live, updated>>
        /\ records < MaxRecords /\ records' = records + 1
        /\ flush' = IF live = {} THEN Idle
                    ELSE [sell |-> IF "sell" \in live THEN now ELSE None,
                          buy |-> IF "buy" \in live THEN now ELSE None,
                          age |-> 0, captured |-> now]
    BY <1>3, Zenon DEF TakeBuffer, book
  <2> QED
    BY <2>1 DEF RecordsOK, Idle
<1>4. ASSUME /\ now' = now /\ records' = records
             /\ api' \in {api, Idle} /\ flush' \in {flush, Idle}
             /\ orders' \subseteq Sides /\ live' \subseteq Sides
             /\ updated' \in {updated, now, None}
      PROVE  RecordsOK'
  BY <1>4 DEF RecordsOK, Idle
<1>5. CASE SaveSnapshots \/ SaveFlush \/ SaveFails \/ FlushFails \/ Prune \/ UNCHANGED vars
  BY <1>4, <1>5, Zenon DEF RecordsOK, SaveSnapshots, SaveFlush, SaveFails, FlushFails, Prune,
     vars, book
<1>6. CASE OrderArrives \/ AnonymousArrives \/ OrdersExpire \/ BookIsDropped \/ Restart
  <2>1. orders' \subseteq Sides /\ live' \subseteq Sides
    BY <1>6 DEF RecordsOK, OrderArrives, AnonymousArrives, OrdersExpire, BookIsDropped, Restart
  <2>2. /\ now' = now /\ records' = records
        /\ api' \in {api, Idle} /\ flush' \in {flush, Idle}
        /\ updated' \in {updated, now, None}
    BY <1>6, Zenon DEF OrderArrives, AnonymousArrives, OrdersExpire, BookIsDropped, Restart, book
  <2> QED
    BY <1>4, <2>1, <2>2
<1> QED
  BY <1>1, <1>2, <1>3, <1>5, <1>6 DEF Next

(* Every variable has its type and every row lies in the bucket of its       *)
(* capture (get_bucket in the repository and in _process_buffer).            *)
THEOREM TypeCorrect == Spec => []TypeOK
<1> DEFINE BufferOK == buffered \in BOOLEAN
<1>1. Init => RowsOK /\ RecordsOK /\ BufferOK
  <2> SUFFICES ASSUME Init
               PROVE  RowsOK /\ RecordsOK /\ BufferOK
    OBVIOUS
  <2>1. RowsOK
    BY DEF Init, RowsOK
  <2>2. RecordsOK
    BY DEF Init, RecordsOK, Idle, Sides
  <2>3. BufferOK
    BY Zenon DEF Init
  <2> QED
    BY <2>1, <2>2, <2>3
<1>2. BufferOK /\ [Next]_vars => BufferOK'
  BY Zenon DEF Next, vars, Tick, Fetch, SaveSnapshots, SaveFails, OrderArrives,
     AnonymousArrives, OrdersExpire, BookIsDropped, TakeBuffer, SaveFlush, FlushFails, Prune, Restart
<1>3. RowsOK /\ RecordsOK /\ BufferOK => TypeOK
  BY DEF TypeOK, RowsOK, RecordsOK
<1>4. RowsOK /\ RecordsOK /\ [Next]_vars => RowsOK' /\ RecordsOK'
  BY RowsStep, RecordsStep
<1> QED
  BY <1>1, <1>2, <1>3, <1>4, PTL DEF Spec

(* The parts of the type invariant hold together. *)
LEMMA PartsCorrect == Spec => [](RowsOK /\ RecordsOK)
<1>1. Init => RowsOK /\ RecordsOK
  BY DEF Init, RowsOK, RecordsOK, Idle, Sides
<1>2. RowsOK /\ RecordsOK /\ [Next]_vars => RowsOK' /\ RecordsOK'
  BY RowsStep, RecordsStep
<1> QED
  BY <1>1, <1>2, PTL DEF Spec

----------------------------------------------------------------------------
(* Ages: the invariant speaks of the rows and of the records under way.      *)
NoRowNoPrice == \A b \in Time : captured[b] = None => sell[b] = None /\ buy[b] = None

LegInBucket == \A b \in Stored : b - IngestCeiling <= Checked(b)

LegOf(rec) == IF rec.sell # None THEN rec.sell ELSE rec.buy

RecordsHonest ==
    /\ api.captured # None =>
          /\ api.captured - api.age \in {api.sell, api.buy}
          /\ api.captured - IngestCeiling <= LegOf(api)
    /\ flush.captured # None =>
          /\ flush.captured \in {flush.sell, flush.buy}
          /\ flush.sell \in {None, flush.captured} /\ flush.buy \in {None, flush.captured}

AgeInv == NoRowNoPrice /\ LegInBucket /\ AgeIsOfAPrice /\ RecordsHonest

(* The row of the bucket of t is written... *)
Written(t, a, s, d) ==
    /\ sell' = [sell EXCEPT ![Bucket(t)] = s]
    /\ buy' = [buy EXCEPT ![Bucket(t)] = d]
    /\ age' = [age EXCEPT ![Bucket(t)] = a]
    /\ captured' = [captured EXCEPT ![Bucket(t)] = t]

(* ...with an age and a checked price that the invariant admits. *)
Honest(t, a, s, d) ==
    /\ t - a \in {s, d}
    /\ Bucket(t) - IngestCeiling <= (IF s # None THEN s ELSE d)

(* Such a write keeps the invariant of the rows. *)
LEMMA WriteKeepsAges ==
    ASSUME RowsOK, NoRowNoPrice, LegInBucket, AgeIsOfAPrice,
           NEW t \in Time, NEW a \in Time, NEW s \in Quote, NEW d \in Quote,
           Written(t, a, s, d), Honest(t, a, s, d)
    PROVE  NoRowNoPrice' /\ LegInBucket' /\ AgeIsOfAPrice'
<1> USE DEF Written, Honest
<1>1. Bucket(t) \in Time
  BY BucketContains
<1>2. NoRowNoPrice'
  BY <1>1 DEF NoRowNoPrice, RowsOK
<1>3. LegInBucket'
  BY <1>1 DEF LegInBucket, RowsOK, Checked
<1>4. AgeIsOfAPrice'
  BY <1>1 DEF AgeIsOfAPrice, RowsOK
<1> QED
  BY <1>2, <1>3, <1>4

(* The two writers and the deletions keep the invariant, and so does every   *)
(* step that prepares or drops a record.                                     *)
LEMMA AgeStep ==
    ASSUME RowsOK, RecordsOK, AgeInv, [Next]_vars
    PROVE  AgeInv'
<1> USE DEF AgeInv
<1>1. CASE SaveSnapshots
  <2>1. api.captured \in Time /\ api.age \in Time /\ api.sell \in Quote /\ api.buy \in Quote
    BY <1>1 DEF SaveSnapshots, RecordsOK
  <2>2. Bucket(api.captured) <= api.captured /\ Bucket(api.captured) \in Time
    BY <2>1, BucketContains
  <2>3. Honest(api.captured, api.age, api.sell, api.buy)
    BY <1>1, <2>1, <2>2 DEF RecordsHonest, SaveSnapshots, LegOf, Honest
  <2>4. Written(api.captured, api.age, api.sell, api.buy)
    BY <1>1, Zenon DEF SaveSnapshots, Written
  <2>9. NoRowNoPrice' /\ LegInBucket' /\ AgeIsOfAPrice'
    BY <2>1, <2>3, <2>4, WriteKeepsAges, Zenon
  <2>5. RecordsHonest'
    BY <1>1 DEF SaveSnapshots, RecordsHonest, Idle, LegOf
  <2> QED
    BY <2>9, <2>5
<1>2. CASE SaveFlush
  <2> DEFINE t == flush.captured
             s == Coalesce(flush.sell, sell[Bucket(t)])
             d == Coalesce(flush.buy, buy[Bucket(t)])
  <2>1. t \in Time /\ flush.age = 0 /\ flush.sell \in Quote /\ flush.buy \in Quote
    BY <1>2 DEF SaveFlush, RecordsOK
  <2>2. Bucket(t) <= t /\ Bucket(t) \in Time
    BY <2>1, BucketContains
  <2>3. s \in Quote /\ d \in Quote
    BY <2>1, <2>2 DEF RowsOK, Coalesce
  <2>4. t - flush.age \in {s, d}
    BY <1>2, <2>1 DEF RecordsHonest, SaveFlush, Coalesce
  <2>5. Bucket(t) - IngestCeiling <= (IF s # None THEN s ELSE d)
    <3>1. CASE captured[Bucket(t)] = None
      BY <1>2, <2>1, <2>2, <3>1 DEF NoRowNoPrice, RecordsHonest, SaveFlush, Coalesce
    <3>2. CASE captured[Bucket(t)] # None
      <4>1. Bucket(t) - IngestCeiling <= Checked(Bucket(t))
        BY <2>2, <3>2 DEF LegInBucket
      <4>2. (IF s # None THEN s ELSE d) \in {Checked(Bucket(t)), t}
        BY <1>2, <2>1, <2>2 DEF RowsOK, Checked, RecordsHonest, SaveFlush, Coalesce
      <4> QED
        BY <2>1, <2>2, <4>1, <4>2
    <3> QED
      BY <3>1, <3>2
  <2>6. Written(t, flush.age, s, d) /\ Honest(t, flush.age, s, d)
    <3>1. Written(t, flush.age, s, d)
      BY <1>2, Zenon DEF SaveFlush, Written
    <3> QED
      BY <2>4, <2>5, <3>1 DEF Honest
  <2>9. flush.age \in Time
    BY <2>1
  <2> HIDE DEF t, s, d
  <2>7. NoRowNoPrice' /\ LegInBucket' /\ AgeIsOfAPrice'
    BY <2>1, <2>9, <2>3, <2>6, WriteKeepsAges, Zenon
  <2>8. RecordsHonest'
    BY <1>2 DEF SaveFlush, RecordsHonest, Idle, LegOf
  <2> QED
    BY <2>7, <2>8
<1>3. CASE Prune
  <2>1. PICK gone : /\ sell' = [b \in Time |-> IF b \in gone THEN None ELSE sell[b]]
                    /\ buy' = [b \in Time |-> IF b \in gone THEN None ELSE buy[b]]
                    /\ age' = [b \in Time |-> IF b \in gone THEN 0 ELSE age[b]]
                    /\ captured' = [b \in Time |-> IF b \in gone THEN None ELSE captured[b]]
    BY <1>3, Zenon DEF Prune
  <2>2. NoRowNoPrice'
    BY <2>1 DEF NoRowNoPrice
  <2>3. LegInBucket'
    BY <2>1 DEF LegInBucket, Checked
  <2>4. AgeIsOfAPrice'
    BY <2>1 DEF AgeIsOfAPrice
  <2> QED
    BY <1>3, <2>2, <2>3, <2>4 DEF Prune, RecordsHonest, LegOf
<1>4. ASSUME UNCHANGED row, RecordsHonest' PROVE AgeInv'
  BY <1>4 DEF NoRowNoPrice, LegInBucket, AgeIsOfAPrice, Checked
<1>5. CASE Fetch
  <2>1. PICK s \in Quote, d \in Quote :
           /\ s <= now /\ d <= now /\ Storable(s, d)
           /\ api' = [sell |-> s, buy |-> d, age |-> DataAge(s, d), captured |-> now]
    BY <1>5, Zenon DEF Fetch
  <2>2. /\ now - DataAge(s, d) \in {s, d}
        /\ now - IngestCeiling <= (IF s # None THEN s ELSE d)
    BY <2>1 DEF Storable, DataAge, RecordsOK
  <2> HIDE DEF Quote, Time
  <2>3. UNCHANGED <<row, flush>>
    BY <1>5, Zenon DEF Fetch
  <2>4. RecordsHonest'
    BY <2>1, <2>2, <2>3 DEF RecordsHonest, LegOf
  <2> QED
    BY <1>4, <2>3, <2>4
<1>6. CASE TakeBuffer
  <2>1. RecordsHonest' /\ UNCHANGED row
    BY <1>6 DEF TakeBuffer, RecordsHonest, Idle, LegOf, RecordsOK, Sides
  <2> QED
    BY <1>4, <2>1
<1>7. ASSUME UNCHANGED row, api' \in {api, Idle}, flush' \in {flush, Idle} PROVE AgeInv'
  BY <1>4, <1>7 DEF RecordsHonest, Idle, LegOf
<1>8. CASE Tick \/ SaveFails \/ FlushFails \/ OrderArrives \/ AnonymousArrives \/ OrdersExpire \/ BookIsDropped
           \/ Restart \/ UNCHANGED vars
  BY <1>7, <1>8, Zenon DEF Tick, SaveFails, FlushFails, OrderArrives, AnonymousArrives, OrdersExpire,
     BookIsDropped, Restart, vars
<1> QED
  BY <1>1, <1>2, <1>3, <1>5, <1>6, <1>8 DEF Next

(* AgeInv is an invariant of every interleaving of the two writers. *)
LEMMA AgesCorrect == Spec => []AgeInv
<1>1. Init => AgeInv
  BY DEF Init, AgeInv, NoRowNoPrice, LegInBucket, AgeIsOfAPrice, RecordsHonest, Idle
<1>2. RowsOK /\ RecordsOK /\ AgeInv /\ [Next]_vars => AgeInv'
  BY AgeStep
<1> QED
  BY <1>1, <1>2, PartsCorrect, PTL DEF Spec

(* data_age_seconds of a stored row is the age of one of its prices.         *)
THEOREM RowsAreHonest == Spec => []AgeIsOfAPrice
<1>1. AgeInv => AgeIsOfAPrice
  BY DEF AgeInv
<1> QED
  BY <1>1, AgesCorrect, PTL

(* The price of a loaded row whose age was checked stood at most lookback,   *)
(* ceiling and one bucket ago.                                               *)
THEOREM LegsAreBounded == Spec => []LegBounded
<1>1. RowsOK /\ RecordsOK /\ AgeInv => LegBounded
  <2> SUFFICES ASSUME RowsOK, RecordsOK, AgeInv, NEW b \in Loaded
               PROVE  now - Checked(b) < Lookback + IngestCeiling + BucketTicks
    BY DEF LegBounded
  <2>1. /\ b \in Time /\ captured[b] \in Time /\ b = Bucket(captured[b])
        /\ now - Lookback <= captured[b]
    BY DEF Loaded, RowsOK, RecordsOK
  <2>2. captured[b] < b + BucketTicks
    BY <2>1, BucketContains
  <2>3. b - IngestCeiling <= Checked(b)
    <3>1. b \in Stored
      BY DEF Loaded
    <3> QED
      BY <3>1 DEF AgeInv, LegInBucket
  <2>4. Checked(b) \in Int
    <3>1. sell[b] \in Quote /\ buy[b] \in Quote
      BY <2>1 DEF RowsOK
    <3> QED
      BY <3>1 DEF Checked
  <2> QED
    BY <2>1, <2>2, <2>3, <2>4 DEF RecordsOK
<1> QED
  BY <1>1, PartsCorrect, AgesCorrect, PTL
=============================================================================
