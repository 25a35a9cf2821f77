---------------------------- MODULE RequestsProofs ----------------------------
(***************************************************************************)
(* Theorems about Requests, for any catalogue, limits and times: the type    *)
(* invariant and, from it and from what is known of a collector that sleeps  *)
(* in the limiter, the spacing of the requests and the pause after refusals. *)
(* That the batches of a pass are cut as the limits ask goes by induction    *)
(* over the positions of the catalogue.                                      *)
(***************************************************************************)
EXTENDS Requests, SequenceTheorems, TLAPS

----------------------------------------------------------------------------
(* The variables in two parts, and what retries add to them. *)

ClockOK == left \in Nat /\ since \in 0..Horizon /\ slowdown \in Scale..MaxSlowdown

CountsOK ==
    /\ pass \in {"none", "prices", "volumes"}
    /\ at \in {"idle", "batch", "spacing", "sent", "backoff", "pacing", "cooling"}
    /\ attempt \in 0..MaxRetries /\ (at = "backoff" => attempt < MaxRetries)
    /\ consecutive_429s \in 0..Patience - 1 /\ refusals \in Nat

(* The slowdown stays between its bounds, whatever is reported. *)
LEMMA SlowdownBounded ==
    ASSUME slowdown \in Scale..MaxSlowdown
    PROVE  Slowed \in Scale..MaxSlowdown /\ Recovered \in Scale..MaxSlowdown
<1>1. Scale \in Nat /\ MaxSlowdown \in Nat /\ Scale <= MaxSlowdown
  BY TimeAssumption
<1>2. slowdown \in Nat /\ Scale <= slowdown /\ slowdown <= MaxSlowdown
  BY <1>1
<1>3. (5 * slowdown) \div 4 \in Nat /\ slowdown <= (5 * slowdown) \div 4
  BY <1>2
<1>4. (99 * slowdown) \div 100 \in Nat /\ (99 * slowdown) \div 100 <= slowdown
  BY <1>2
<1> QED
  BY <1>1, <1>2, <1>3, <1>4 DEF Slowed, Recovered, Lesser, Greater

(* A step keeps the clock, the sleep and the slowdown in their ranges. *)
LEMMA ClockStep == ClockOK /\ attempt \in 0..MaxRetries /\ [Next]_vars => ClockOK'
<1> SUFFICES ASSUME ClockOK, attempt \in 0..MaxRetries, [Next]_vars PROVE ClockOK'
  OBVIOUS
<1> USE TimeAssumption, SlowdownBounded DEF ClockOK
<1>1. CASE Enter \/ RequestStop \/ BeginPrices \/ BeginVolumes
  BY <1>1 DEF Enter, RequestStop, BeginPrices, BeginVolumes, Begin
<1>2. CASE Finish \/ NextBatch \/ Send \/ TryAgain \/ Resume \/ Cancel
  BY <1>2 DEF Finish, NextBatch, Send, TryAgain, Resume, Cancel, Leave, Acquire
<1>3. CASE Answered \/ Rejected \/ Broken \/ Unanswered
  BY <1>3 DEF Answered, Rejected, Broken, Unanswered, Proceed, Leave
<1>4. CASE Retry
  BY <1>4 DEF Retry, Reported
<1>5. CASE Refused
  BY <1>5 DEF Refused, SkipRefused, Leave, Reported
<1>6. CASE Tick
  BY <1>6 DEF Tick, Lesser, Greater
<1>7. CASE UNCHANGED vars
  BY <1>7 DEF vars
<1> QED
  BY <1>1, <1>2, <1>3, <1>4, <1>5, <1>6, <1>7 DEF Next, Collect

(* A step keeps what is counted in range. *)
LEMMA CountsStep == CountsOK /\ [Next]_vars => CountsOK'
<1> SUFFICES ASSUME CountsOK, [Next]_vars PROVE CountsOK'
  OBVIOUS
<1> USE TimeAssumption DEF CountsOK
<1>1. CASE Enter \/ RequestStop \/ BeginPrices \/ BeginVolumes
  BY <1>1 DEF Enter, RequestStop, BeginPrices, BeginVolumes, Begin
<1>2. CASE Finish \/ NextBatch \/ Send \/ TryAgain \/ Resume \/ Cancel
  BY <1>2 DEF Finish, NextBatch, Send, TryAgain, Resume, Cancel, Leave, Acquire
<1>3. CASE Answered \/ Rejected \/ Broken \/ Unanswered
  BY <1>3 DEF Answered, Rejected, Broken, Unanswered, Proceed, Settle, Leave
<1>4. CASE Retry
  BY <1>4 DEF Retry
<1>5. CASE Refused
  BY <1>5 DEF Refused, SkipRefused, Settle, Opens, Leave
<1>6. CASE Tick
  BY <1>6 DEF Tick
<1>7. CASE UNCHANGED vars
  BY <1>7 DEF vars
<1> QED
  BY <1>1, <1>2, <1>3, <1>4, <1>5, <1>6, <1>7 DEF Next, Collect

(* The stop request is a flag. *)
LEMMA FlagStep == stop_requested \in BOOLEAN /\ [Next]_vars => stop_requested' \in BOOLEAN
<1> SUFFICES ASSUME stop_requested \in BOOLEAN, [Next]_vars PROVE stop_requested' \in BOOLEAN
  OBVIOUS
<1>1. CASE Enter
  BY <1>1, Zenon DEF Enter
<1>2. CASE RequestStop
  BY <1>2, Zenon DEF RequestStop
<1>3. ASSUME UNCHANGED stop_requested PROVE stop_requested' \in BOOLEAN
  BY <1>3
<1>4. CASE BeginPrices \/ BeginVolumes \/ Collect \/ Cancel \/ Tick \/ UNCHANGED vars
  BY <1>3, <1>4, Zenon DEF BeginPrices, BeginVolumes, Begin, Collect, Finish, NextBatch, Send,
      Answered, Rejected, Broken, Retry, Refused, Unanswered, TryAgain, Resume, Cancel, Tick, vars
<1> QED
  BY <1>1, <1>2, <1>4 DEF Next

(* Counters, clock and slowdown keep their types and bounds. *)
THEOREM TypeCorrect == Spec => []TypeOK
<1> DEFINE Typed == ClockOK /\ CountsOK /\ stop_requested \in BOOLEAN
<1>1. Init => Typed
  <2>1. Init => ClockOK /\ CountsOK
    BY TimeAssumption DEF Init, ClockOK, CountsOK
  <2>2. Init => stop_requested \in BOOLEAN
    BY Zenon DEF Init
  <2> QED
    BY <2>1, <2>2
<1>2. Typed /\ [Next]_vars => Typed'
  BY ClockStep, CountsStep, FlagStep DEF CountsOK
<1>3. Typed => TypeOK
  BY DEF ClockOK, CountsOK, TypeOK
<1> QED
  BY <1>1, <1>2, <1>3, PTL DEF Spec

----------------------------------------------------------------------------

(* A collector asleep in the limiter will have slept enough. *)
WillBeSpaced == at = "spacing" => Enough(since + left)

(* No step takes away from what will have been waited. *)
LEMMA SpacedStep == ClockOK /\ WillBeSpaced /\ [Next]_vars => WillBeSpaced'
<1> SUFFICES ASSUME ClockOK, WillBeSpaced, [Next]_vars, at' = "spacing"
             PROVE  Enough(since + left)'
  BY DEF WillBeSpaced
<1> USE DEF WillBeSpaced
<1>1. CASE Enter \/ RequestStop \/ UNCHANGED vars
  BY <1>1 DEF Enter, RequestStop, vars, Enough
<1>2. CASE NextBatch \/ TryAgain
  BY <1>2 DEF NextBatch, TryAgain, Acquire, Enough
<1>3. CASE BeginPrices \/ BeginVolumes \/ Finish \/ Send \/ Answered \/ Rejected \/ Broken
           \/ Retry \/ Refused \/ Unanswered \/ Resume \/ Cancel
  BY <1>3 DEF BeginPrices, BeginVolumes, Begin, Finish, Leave, Send, Answered, Rejected,
      Broken, Proceed, Retry, Refused, SkipRefused, Unanswered, Resume, Cancel
<1>4. CASE Tick
  <2>1. /\ since \in Nat /\ left \in Nat /\ slowdown \in Nat /\ slowdown <= MaxSlowdown
        /\ Scale \in Nat /\ Interval \in Nat /\ MaxSlowdown \in Nat /\ Horizon \in Nat
        /\ since <= Horizon
    BY TimeAssumption DEF ClockOK
  <2>2. slowdown' = slowdown /\ Enough(since + left)
    BY <1>4 DEF Tick
  <2>3. CASE since < Horizon
    <3>1. since' + left' \in Nat /\ since + left <= since' + left'
      BY <1>4, <2>1, <2>3 DEF Tick, Lesser, Greater
    <3>2. (since + left) * Scale <= (since' + left') * Scale
      BY <2>1, <3>1
    <3> QED
      BY <2>1, <2>2, <3>1, <3>2 DEF Enough
  <2>4. CASE since = Horizon
    <3>1. since' + left' \in Nat /\ Horizon <= since' + left'
      BY <1>4, <2>1, <2>4 DEF Tick, Lesser, Greater
    <3>2. Horizon * Scale <= (since' + left') * Scale
      BY <2>1, <3>1
    <3>3. Interval * slowdown <= Interval * MaxSlowdown
      BY <2>1
    <3> QED
      BY <2>1, <2>2, <3>1, <3>2, <3>3, TimeAssumption DEF Enough
  <2> QED
    BY <2>1, <2>3, <2>4
<1> QED
  BY <1>1, <1>2, <1>3, <1>4 DEF Next, Collect

(* Two requests are never closer than the interval times the slowdown. *)
THEOREM RequestsSpaced == Spec => RequestsAreSpaced
<1>1. Init => WillBeSpaced
  BY DEF Init, WillBeSpaced
<1>2. TypeOK => ClockOK
  BY DEF TypeOK, ClockOK
<1>3. ClockOK /\ WillBeSpaced /\ [Next]_vars
        => [Sends => since * Scale >= Interval * slowdown]_vars
  <2> SUFFICES ASSUME ClockOK, WillBeSpaced, [Next]_vars, Sends
               PROVE  since * Scale >= Interval * slowdown
    OBVIOUS
  <2>1. Send
    BY DEF Sends, Next, Collect, Enter, RequestStop, BeginPrices, BeginVolumes, Begin, Finish,
        Leave, NextBatch, Acquire, Answered, Rejected, Broken, Proceed, Retry, Refused,
        SkipRefused, Unanswered, TryAgain, Resume, Cancel, Tick, vars
  <2>2. left = 0 /\ since + left = since
    BY <2>1 DEF Send, ClockOK
  <2> QED
    BY <2>2 DEF Sends, WillBeSpaced, Enough
<1> QED
  BY <1>1, <1>2, <1>3, SpacedStep, TypeCorrect, PTL DEF Spec, RequestsAreSpaced

----------------------------------------------------------------------------
(* Sequences of batches.  What is defined position by position exists, by      *)
(* Induction.                                                                 *)

Pack(limits, none, packed, item) == Packed(packed, item, limits)
Glue(none, nothing, glued, part) == glued \o part

Cuts == INSTANCE Induction WITH Op <- Pack
Joins == INSTANCE Induction WITH Op <- Glue

(* Batches glued together, one after the other. *)
Glued(seqs, N, f) == Joins!IsRun(0, 0, <<>>, seqs, N, f)
Gluing(seqs, f) == Glued(seqs, Len(seqs), f)

(* Whatever is glued from sequences is a sequence. *)
LEMMA GluingTyped ==
    ASSUME NEW S, NEW seqs \in Seq(Seq(S)), NEW f, Gluing(seqs, f)
    PROVE  /\ \A n \in 0..Len(seqs) : f[n] \in Seq(S)
           /\ f[0] = <<>> /\ \A n \in 1..Len(seqs) : f[n] = f[n - 1] \o seqs[n]
<1> DEFINE N == Len(seqs)
           T == {n \in Nat : n <= N => f[n] \in Seq(S)}
<1>1. N \in Nat /\ \A n \in 1..N : seqs[n] \in Seq(S)
  OBVIOUS
<1>2. \A n \in 0..N : f[n] = IF n = 0 THEN <<>> ELSE f[n - 1] \o seqs[n]
  BY DEF Gluing, Glued, Joins!IsRun, Glue
<1>3. f[0] = <<>>
  BY <1>1, <1>2, 0 \in 0..N
<1>4. \A n \in 1..N : f[n] = f[n - 1] \o seqs[n]
  <2> TAKE n \in 1..N
  <2>1. n \in 0..N /\ n # 0
    BY <1>1
  <2> QED
    BY <1>2, <2>1
<1>5. 0 \in T
  <2>1. <<>> \in Seq(S)
    OBVIOUS
  <2> QED
    BY <1>3, <2>1
<1>6. ASSUME NEW n \in Nat, n \in T PROVE n + 1 \in T
  <2> SUFFICES ASSUME n + 1 <= N PROVE f[n + 1] \in Seq(S)
    OBVIOUS
  <2>1. f[n] \in Seq(S) /\ n + 1 \in 1..N /\ (n + 1) - 1 = n
    BY <1>1, <1>6
  <2>2. f[n + 1] = f[n] \o seqs[n + 1] /\ seqs[n + 1] \in Seq(S)
    BY <1>1, <1>4, <2>1
  <2> QED
    BY <2>1, <2>2
<1> HIDE DEF T
<1>7. Nat \subseteq T
  BY <1>5, <1>6, Joins!SetInduction
<1>8. \A n \in 0..N : f[n] \in Seq(S)
  BY <1>1, <1>7 DEF T
<1> QED
  BY <1>3, <1>4, <1>8

(* FlattenSeq glues. *)
LEMMA FlattenGlues ==
    ASSUME NEW S, NEW seqs \in Seq(Seq(S))
    PROVE  \E f : Gluing(seqs, f) /\ FlattenSeq(seqs) = f[Len(seqs)]
<1> DEFINE N == Len(seqs)
           Rule(h, i) == IF i = 1 THEN seqs[i] ELSE h[i - 1] \o seqs[i]
           flatten == CHOOSE h : h = [i \in 1..N |-> Rule(h, i)]
<1> N \in Nat
  OBVIOUS
<1>1. PICK f : Gluing(seqs, f)
  BY Joins!RunExists, Zenon DEF Gluing, Glued
<1>2. /\ \A n \in 0..N : f[n] \in Seq(S)
      /\ f[0] = <<>> /\ \A n \in 1..N : f[n] = f[n - 1] \o seqs[n]
  BY <1>1, GluingTyped, Zenon
<1>3. CASE N = 0
  <2>1. seqs = <<>>
    BY <1>3
  <2> QED
    BY <1>1, <1>2, <1>3, <2>1 DEF FlattenSeq
<1>4. CASE N # 0
  <2> DEFINE g == [i \in 1..N |-> f[i]]
             T == {n \in Nat : n + 1 <= N => flatten[n + 1] = f[n + 1]}
  <2>1. f[1] = seqs[1]
    <3>1. 1 \in 1..N /\ 1 - 1 = 0 /\ seqs[1] \in Seq(S)
      BY <1>4
    <3>2. f[1] = <<>> \o seqs[1]
      BY <1>2, <3>1
    <3> QED
      BY <3>1, <3>2
  <2>2. ASSUME NEW i \in 1..N PROVE g[i] = Rule(g, i)
    <3>1. CASE i = 1
      BY <2>1, <3>1
    <3>2. CASE i # 1
      <4>1. i - 1 \in 1..N
        BY <1>2, <3>2
      <4> QED
        BY <1>2, <3>2, <4>1
    <3> QED
      BY <3>1, <3>2
  <2>3. g = [i \in 1..N |-> Rule(g, i)]
    BY <2>2
  <2> HIDE DEF g
  <2>4. flatten = [i \in 1..N |-> Rule(flatten, i)]
    <3> HIDE DEF Rule
    <3> QED
      BY <2>3
  <2>5. FlattenSeq(seqs) = flatten[N]
    BY <1>4 DEF FlattenSeq
  <2> HIDE DEF flatten
  <2>6. \A i \in 1..N : flatten[i] = IF i = 1 THEN seqs[i] ELSE flatten[i - 1] \o seqs[i]
    BY <2>4
  <2>7. 0 \in T
    BY <1>2, <1>4, <2>1, <2>6
  <2>8. ASSUME NEW n \in Nat, n \in T PROVE n + 1 \in T
    <3> SUFFICES ASSUME (n + 1) + 1 <= N PROVE flatten[(n + 1) + 1] = f[(n + 1) + 1]
      OBVIOUS
    <3>1. /\ (n + 1) + 1 \in 1..N /\ (n + 1) + 1 # 1 /\ ((n + 1) + 1) - 1 = n + 1
          /\ flatten[n + 1] = f[n + 1]
      BY <1>2, <2>8
    <3>2. f[(n + 1) + 1] = f[n + 1] \o seqs[(n + 1) + 1]
      BY <1>2, <3>1
    <3>3. flatten[(n + 1) + 1] = flatten[n + 1] \o seqs[(n + 1) + 1]
      BY <2>6, <3>1
    <3> QED
      BY <3>1, <3>2, <3>3
  <2> HIDE DEF T
  <2>9. Nat \subseteq T
    BY <2>7, <2>8, Joins!SetInduction
  <2>10. N - 1 \in Nat /\ (N - 1) + 1 = N
    BY <1>2, <1>4
  <2>11. flatten[N] = f[N]
    <3>1. N - 1 \in T
      BY <2>9, <2>10
    <3> HIDE DEF N
    <3> QED
      BY <2>10, <3>1 DEF T
  <2> QED
    BY <1>1, <2>5, <2>11
<1> QED
  BY <1>3, <1>4

(* What is flattened is a sequence, and of nothing comes nothing. *)
LEMMA FlattenTyped ==
    ASSUME NEW S, NEW seqs \in Seq(Seq(S))
    PROVE  FlattenSeq(seqs) \in Seq(S)
<1>1. PICK f : Gluing(seqs, f) /\ FlattenSeq(seqs) = f[Len(seqs)]
  BY FlattenGlues
<1>2. Len(seqs) \in 0..Len(seqs)
  OBVIOUS
<1> QED
  BY <1>1, <1>2, GluingTyped

LEMMA FlattenNone == FlattenSeq(<<>>) = <<>>
BY DEF FlattenSeq

(* Of two sequences that begin alike, the beginnings are glued alike. *)
LEMMA GluedAlike ==
    ASSUME NEW s, NEW t, NEW f, NEW g, NEW M \in Nat, NEW N \in Nat, NEW K \in 0..M,
           Glued(s, M, f), Glued(t, N, g), K <= N, \A n \in 1..K : s[n] = t[n]
    PROVE  f[K] = g[K]
<1>1. \A b : Joins!IsRun(0, 0, b, s, M, f) /\ Joins!IsRun(0, 0, b, t, N, g) => f[K] = g[K]
  BY Joins!RunsAgree
<1> QED
  BY <1>1, Zenon DEF Glued

(* The last part can be taken off. *)
LEMMA FlattenLast ==
    ASSUME NEW S, NEW seqs \in Seq(Seq(S)), NEW front \in Seq(Seq(S)),
           Len(seqs) = Len(front) + 1, \A n \in 1..Len(front) : seqs[n] = front[n]
    PROVE  FlattenSeq(seqs) = FlattenSeq(front) \o seqs[Len(seqs)]
<1> DEFINE M == Len(seqs)
           N == Len(front)
<1>1. PICK f : Gluing(seqs, f) /\ FlattenSeq(seqs) = f[M]
  BY FlattenGlues
<1>2. PICK g : Gluing(front, g) /\ FlattenSeq(front) = g[N]
  BY FlattenGlues
<1>3. M \in Nat /\ N \in Nat
  OBVIOUS
<1>4. N \in 0..M /\ N <= N /\ M - 1 = N /\ M \in 1..M
  BY <1>3
<1>5. f[M] = f[N] \o seqs[M]
  BY <1>1, <1>4, GluingTyped
<1>6. f[N] = g[N]
  <2>1. Glued(seqs, M, f) /\ Glued(front, N, g) /\ \A n \in 1..N : seqs[n] = front[n]
    BY <1>1, <1>2, Zenon DEF Gluing
  <2> HIDE DEF M, N
  <2> QED
    BY <1>3, <1>4, <2>1, GluedAlike
<1> QED
  BY <1>1, <1>2, <1>5, <1>6

(* Batches that are cut as BatchesAreSafe says, none of them empty. *)
WellPacked(S, packed, limits) ==
    /\ packed \in Seq(Seq(S))
    /\ \A n \in 1..Len(packed) : packed[n] # <<>>
    /\ \A n \in 1..Len(packed) : Len(packed[n]) > 1 => Safe(packed[n], limits)
    /\ \A n \in 1..Len(packed) - 1 : ~Safe(Append(packed[n], Head(packed[n + 1])), limits)

(* As well cut, with one more item. *)
Grown(S, limits, packed, item, more) ==
    WellPacked(S, more, limits) /\ FlattenSeq(more) = Append(FlattenSeq(packed), item)

(* One more item does not spoil them, whether it is added to the last batch or  *)
(* begins another.                                                            *)
LEMMA PackKeeps ==
    ASSUME NEW S, NEW limits, NEW packed, NEW item \in S, WellPacked(S, packed, limits)
    PROVE  Grown(S, limits, packed, item, Packed(packed, item, limits))
<1> USE DEF Grown
<1> DEFINE N == Len(packed)
           more == Packed(packed, item, limits)
<1>1. /\ packed \in Seq(Seq(S)) /\ N \in Nat
      /\ \A n \in 1..N : packed[n] \in Seq(S) /\ packed[n] # <<>>
      /\ \A n \in 1..N : Len(packed[n]) > 1 => Safe(packed[n], limits)
      /\ \A n \in 1..N - 1 : ~Safe(Append(packed[n], Head(packed[n + 1])), limits)
  BY DEF WellPacked
<1>2. CASE packed # <<>> /\ Safe(Append(Last(packed), item), limits)
  <2> DEFINE grown == Append(packed[N], item)
  <2>1. N \in 1..N /\ Last(packed) = packed[N] /\ packed[N] \in Seq(S)
    BY <1>1, <1>2 DEF Last
  <2>2. more = [packed EXCEPT ![N] = grown] /\ Safe(grown, limits)
    BY <1>2, <2>1 DEF Packed
  <2>3. grown \in Seq(S) /\ grown # <<>> /\ Head(grown) = Head(packed[N])
    BY <1>1, <2>1
  <2>4. /\ more \in Seq(Seq(S)) /\ Len(more) = N /\ more[N] = grown
        /\ \A n \in 1..N : n # N => more[n] = packed[n]
    <3> HIDE DEF more, grown
    <3>1. grown \in Seq(S)
      BY <2>3
    <3>2. more \in Seq(Seq(S)) /\ Len(more) = N
      BY <1>1, <2>1, <2>2, <3>1, ExceptSeq
    <3>3. \A n \in 1..N : more[n] = IF n = N THEN grown ELSE packed[n]
      BY <1>1, <2>1, <2>2, <3>1, ExceptSeq
    <3> QED
      BY <2>1, <3>2, <3>3
  <2> HIDE DEF more, grown
  <2>5. \A n \in 1..N - 1 : ~Safe(Append(more[n], Head(more[n + 1])), limits)
    <3> TAKE n \in 1..N - 1
    <3>1. n \in 1..N /\ n # N /\ n + 1 \in 1..N
      BY <1>1
    <3>2. more[n] = packed[n] /\ Head(more[n + 1]) = Head(packed[n + 1])
      BY <2>3, <2>4, <3>1
    <3> QED
      BY <1>1, <3>2
  <2>6. WellPacked(S, more, limits)
    <3>1. \A n \in 1..N : more[n] # <<>> /\ (Len(more[n]) > 1 => Safe(more[n], limits))
      BY <1>1, <2>2, <2>3, <2>4
    <3> QED
      BY <2>4, <2>5, <3>1 DEF WellPacked
  <2>7. FlattenSeq(more) = Append(FlattenSeq(packed), item)
    <3> DEFINE front == SubSeq(packed, 1, N - 1)
    <3>1. /\ front \in Seq(Seq(S)) /\ Len(front) = N - 1 /\ N = (N - 1) + 1
          /\ \A n \in 1..N - 1 : front[n] = packed[n]
      <4>1. N - 1 \in Nat /\ N = (N - 1) + 1 /\ 1 \in 1..N + 1 /\ N - 1 \in 0..N
        BY <1>1, <2>1
      <4>2. front \in Seq(Seq(S)) /\ Len(front) = N - 1
        BY <1>1, <4>1, SubSeqProperties
      <4>3. \A n \in 1..N - 1 : front[n] = packed[n]
        BY <1>1, <4>1, SubSeqProperties
      <4> QED
        BY <4>1, <4>2, <4>3
    <3>2. \A n \in 1..N - 1 : more[n] = packed[n]
      BY <1>1, <2>4
    <3> HIDE DEF front
    <3>3. FlattenSeq(packed) = FlattenSeq(front) \o packed[N]
      BY <1>1, <3>1, FlattenLast
    <3>4. FlattenSeq(more) = FlattenSeq(front) \o more[N]
      <4>1. Len(more) = Len(front) + 1 /\ \A n \in 1..Len(front) : more[n] = front[n]
        BY <2>4, <3>1, <3>2
      <4> QED
        BY <2>4, <3>1, <4>1, FlattenLast
    <3>5. FlattenSeq(front) \in Seq(S) /\ packed[N] \in Seq(S)
      BY <2>1, <3>1, FlattenTyped
    <3>6. more[N] = Append(packed[N], item)
      BY <2>4 DEF grown
    <3> HIDE DEF N
    <3> QED
      BY <3>3, <3>4, <3>5, <3>6
  <2> QED
    BY <2>6, <2>7 DEF more
<1>3. CASE ~(packed # <<>> /\ Safe(Append(Last(packed), item), limits))
  <2>1. more = Append(packed, <<item>>)
    BY <1>3 DEF Packed
  <2>2. <<item>> \in Seq(S) /\ <<item>> # <<>> /\ Len(<<item>>) = 1 /\ Head(<<item>>) = item
    OBVIOUS
  <2>3. /\ more \in Seq(Seq(S)) /\ Len(more) = N + 1 /\ more[N + 1] = <<item>>
        /\ \A n \in 1..N : more[n] = packed[n]
    BY <1>1, <2>1, <2>2
  <2> HIDE DEF more
  <2>4. \A n \in 1..N : ~Safe(Append(more[n], Head(more[n + 1])), limits)
    <3> TAKE n \in 1..N
    <3>1. CASE n = N
      <4>1. packed # <<>> /\ Last(packed) = packed[N]
        BY <1>1, <3>1 DEF Last
      <4> QED
        BY <1>1, <1>3, <2>2, <2>3, <3>1, <4>1
    <3>2. CASE n # N
      <4>1. n \in 1..N - 1 /\ n + 1 \in 1..N
        BY <1>1, <3>2
      <4> QED
        BY <1>1, <2>3, <4>1
    <3> QED
      BY <3>1, <3>2
  <2>5. WellPacked(S, more, limits)
    <3>1. ASSUME NEW n \in 1..N + 1
          PROVE  more[n] # <<>> /\ (Len(more[n]) > 1 => Safe(more[n], limits))
      <4>1. CASE n = N + 1
        BY <2>2, <2>3, <4>1, ~(1 > 1)
      <4>2. CASE n # N + 1
        <5>1. n \in 1..N
          BY <1>1, <4>2
        <5> QED
          BY <1>1, <2>3, <5>1
      <4> QED
        BY <4>1, <4>2
    <3>2. (N + 1) - 1 = N
      BY <1>1
    <3> QED
      BY <2>3, <2>4, <3>1, <3>2 DEF WellPacked
  <2>6. FlattenSeq(more) = Append(FlattenSeq(packed), item)
    <3>1. FlattenSeq(more) = FlattenSeq(packed) \o more[N + 1]
      BY <1>1, <2>3, FlattenLast
    <3>2. FlattenSeq(packed) \in Seq(S)
      BY <1>1, FlattenTyped
    <3> QED
      BY <2>3, <3>1, <3>2
  <2> QED
    BY <2>5, <2>6 DEF more
<1> QED
  BY <1>2, <1>3

(* build_safe_batches *)
LEMMA SafeBatchesRuns ==
    ASSUME NEW items, NEW limits, Len(items) \in Nat
    PROVE  \E f : /\ f[0] = <<>>
                  /\ \A n \in 1..Len(items) : f[n] = Packed(f[n - 1], items[n], limits)
                  /\ SafeBatches(items, limits) = f[Len(items)]
<1> DEFINE N == Len(items)
           Rule(f, n) == IF n = 0 THEN <<>> ELSE Packed(f[n - 1], items[n], limits)
           packed == CHOOSE f : f = [n \in 0..N |-> Rule(f, n)]
<1>1. PICK f : Cuts!IsRun(limits, 0, <<>>, items, N, f)
  BY Cuts!RunExists, Zenon
<1>2. f = [n \in 0..N |-> Rule(f, n)]
  BY <1>1 DEF Cuts!IsRun, Pack
<1>3. packed = [n \in 0..N |-> Rule(packed, n)]
  <2> HIDE DEF Rule
  <2> QED
    BY <1>2
<1>4. SafeBatches(items, limits) = packed[N]
  BY DEF SafeBatches
<1> HIDE DEF packed
<1>5. \A n \in 0..N : packed[n] = Rule(packed, n)
  BY <1>3
<1>6. packed[0] = <<>>
  <2>1. packed[0] = Rule(packed, 0)
    BY <1>5, 0 \in 0..N
  <2> QED
    BY <2>1
<1>7. \A n \in 1..N : packed[n] = Packed(packed[n - 1], items[n], limits)
  <2> TAKE n \in 1..N
  <2>1. n \in 0..N /\ n # 0
    OBVIOUS
  <2>2. packed[n] = Rule(packed, n)
    BY <1>5, <2>1
  <2> QED
    BY <2>1, <2>2
<1> QED
  BY <1>4, <1>6, <1>7

(* The batches are the items, in order, each once, and cut well. *)
LEMMA SafeBatchesWell ==
    ASSUME NEW S, NEW items \in Seq(S), NEW limits
    PROVE  /\ WellPacked(S, SafeBatches(items, limits), limits)
           /\ FlattenSeq(SafeBatches(items, limits)) = items
<1> DEFINE N == Len(items)
<1>1. N \in Nat /\ \A n \in 1..N : items[n] \in S
  OBVIOUS
<1>2. PICK f : /\ f[0] = <<>> /\ \A n \in 1..N : f[n] = Packed(f[n - 1], items[n], limits)
               /\ SafeBatches(items, limits) = f[N]
  BY <1>1, SafeBatchesRuns
<1> DEFINE T == {n \in Nat : n <= N => /\ WellPacked(S, f[n], limits)
                                       /\ FlattenSeq(f[n]) = SubSeq(items, 1, n)}
<1>3. 0 \in T
  <2>1. WellPacked(S, <<>>, limits)
    BY DEF WellPacked
  <2>2. SubSeq(items, 1, 0) = <<>>
    BY SubSeqEmpty
  <2> QED
    BY <1>2, <2>1, <2>2, FlattenNone
<1>4. ASSUME NEW n \in Nat, n \in T PROVE n + 1 \in T
  <2> SUFFICES ASSUME n + 1 <= N
               PROVE  /\ WellPacked(S, f[n + 1], limits)
                      /\ FlattenSeq(f[n + 1]) = SubSeq(items, 1, n + 1)
    OBVIOUS
  <2>1. n + 1 \in 1..N /\ (n + 1) - 1 = n /\ 1 \in 1..N /\ n + 1 \in 1..Len(items)
    BY <1>1
  <2>2. WellPacked(S, f[n], limits) /\ FlattenSeq(f[n]) = SubSeq(items, 1, n)
    BY <1>1, <1>4
  <2>3. f[n + 1] = Packed(f[n], items[n + 1], limits) /\ items[n + 1] \in S
    BY <1>1, <1>2, <2>1
  <2>4. WellPacked(S, f[n + 1], limits) /\ FlattenSeq(f[n + 1]) = Append(SubSeq(items, 1, n), items[n + 1])
    <3>1. Grown(S, limits, f[n], items[n + 1], f[n + 1])
      BY <2>2, <2>3, PackKeeps
    <3> QED
      BY <2>2, <3>1, Zenon DEF Grown
  <2>5. SubSeq(items, 1, n + 1) = Append(SubSeq(items, 1, n), items[n + 1])
    BY <2>1
  <2> QED
    BY <2>4, <2>5
<1> HIDE DEF T
<1>5. Nat \subseteq T
  BY <1>3, <1>4, Cuts!SetInduction
<1>6. N \in T /\ N <= N
  BY <1>1, <1>5
<1>7. SubSeq(items, 1, N) = items
  BY SubSeqFull
<1> HIDE DEF N
<1> QED
  BY <1>2, <1>6, <1>7 DEF T

(* The items of a partition are those of the catalogue. *)
LEMMA PartitionTyped ==
    \A p, firstQuarter : PartitionItems(p, firstQuarter) \in Seq(ToSet(Catalogue))
<1> TAKE p, firstQuarter
<1> DEFINE S == ToSet(Catalogue)
           Due(i) == Polled(i, firstQuarter) /\ InPartition(i, p) /\ i \notin ToSet(Priority)
           chosen == [n \in DOMAIN Catalogue |-> IF Due(Catalogue[n]) THEN <<Catalogue[n]>> ELSE <<>>]
<1> HIDE DEF Due
<1>1. Catalogue \in Seq(S) /\ Priority \in Seq(S)
  BY CatalogueAssumption
<1>2. chosen \in Seq(Seq(S))
  <2> HIDE DEF S
  <2>1. DOMAIN Catalogue = 1..Len(Catalogue) /\ Len(Catalogue) \in Nat
    BY <1>1
  <2>2. \A n \in 1..Len(Catalogue) : Catalogue[n] \in S
    BY <1>1
  <2>3. \A n \in 1..Len(Catalogue) :
           (IF Due(Catalogue[n]) THEN <<Catalogue[n]>> ELSE <<>>) \in Seq(S)
    BY <2>2
  <2>4. chosen \in [1..Len(Catalogue) -> Seq(S)]
    BY <2>1, <2>3
  <2> QED
    BY <2>1, <2>4
<1> HIDE DEF chosen, S
<1>3. FlattenSeq(chosen) \in Seq(S)
  BY <1>2, FlattenTyped
<1> QED
  BY <1>1, <1>3 DEF PartitionItems, chosen, S, Due

----------------------------------------------------------------------------
(* The batches of a pass *)

Limits == IF pass = "prices" THEN PriceLimits ELSE VolumeLimits

(* Settled batches and those to come are the goal, cut well; a batch that is    *)
(* asked for is there.                                                        *)
BatchInv ==
    /\ done \in Seq(Seq(ToSet(Catalogue))) /\ rest \in Seq(Seq(ToSet(Catalogue)))
    /\ FlattenSeq(done \o rest) = goal
    /\ WellPacked(ToSet(Catalogue), done \o rest, Limits)
    /\ at \in {"spacing", "sent", "backoff"} => rest # <<>>

(* Settling a batch moves it from one part to the other. *)
LEMMA SettleMoves ==
    ASSUME NEW S, NEW before \in Seq(S), NEW after \in Seq(S), after # <<>>
    PROVE  /\ Append(before, Head(after)) \in Seq(S) /\ Tail(after) \in Seq(S)
           /\ Append(before, Head(after)) \o Tail(after) = before \o after
<1>1. Head(after) \in S /\ Tail(after) \in Seq(S) /\ Len(Tail(after)) = Len(after) - 1
  BY HeadTailProperties
<1> DEFINE left1 == Append(before, Head(after)) \o Tail(after)
           right1 == before \o after
<1>2. left1 \in Seq(S) /\ right1 \in Seq(S) /\ Len(left1) = Len(right1)
  BY <1>1
<1>3. \A n \in 1..Len(left1) : left1[n] = right1[n]
  BY <1>1
<1> QED
  BY <1>1, <1>2, <1>3, SeqEqual

(* A pass begins with all its batches to come. *)
LEMMA BeginBatches ==
    ASSUME NEW what \in {"prices", "volumes"}, NEW items \in Seq(ToSet(Catalogue)),
           Begin(what, items, IF what = "prices" THEN PriceLimits ELSE VolumeLimits)
    PROVE  BatchInv'
<1> DEFINE S == ToSet(Catalogue)
           limits == IF what = "prices" THEN PriceLimits ELSE VolumeLimits
<1>1. /\ pass' = what /\ at' = "batch" /\ goal' = items
      /\ done' = <<>> /\ rest' = SafeBatches(items, limits)
  BY DEF Begin
<1>2. WellPacked(S, rest', limits) /\ FlattenSeq(rest') = items
  BY <1>1, SafeBatchesWell
<1>3. rest' \in Seq(Seq(S)) /\ done' \in Seq(Seq(S)) /\ done' \o rest' = rest'
  BY <1>1, <1>2 DEF WellPacked
<1>4. Limits' = limits
  BY <1>1 DEF Limits
<1> HIDE DEF S, limits
<1>5. WellPacked(S, done' \o rest', Limits')
  BY <1>2, <1>3, <1>4, Zenon
<1>6. FlattenSeq(done' \o rest') = goal'
  BY <1>1, <1>2, <1>3, Zenon
<1>7. at' \notin {"spacing", "sent", "backoff"}
  BY <1>1
<1> QED
  BY <1>3, <1>5, <1>6, <1>7 DEF BatchInv, WellPacked, Limits, S

(* A pass that is left has none. *)
LEMMA LeaveBatches ==
    ASSUME done' = <<>>, rest' = <<>>, goal' = <<>>, at' = "idle" PROVE BatchInv'
<1>1. done' \o rest' = <<>>
  OBVIOUS
<1>2. WellPacked(ToSet(Catalogue), <<>>, Limits')
  BY DEF WellPacked
<1>3. FlattenSeq(done' \o rest') = goal' /\ WellPacked(ToSet(Catalogue), done' \o rest', Limits')
  BY <1>1, <1>2, FlattenNone
<1> QED
  BY <1>3 DEF BatchInv, WellPacked, Limits

(* A step keeps the batches. *)
LEMMA BatchStep == BatchInv /\ [Next]_vars => BatchInv'
<1> SUFFICES ASSUME BatchInv, [Next]_vars PROVE BatchInv'
  OBVIOUS
<1>1. CASE BeginPrices
  <2>1. PICK p \in 0..NumPartitions - 1, firstQuarter \in BOOLEAN :
            Begin("prices", PartitionItems(p, firstQuarter), PriceLimits)
    BY <1>1 DEF BeginPrices
  <2> QED
    BY <2>1, PartitionTyped, BeginBatches
<1>2. CASE BeginVolumes
  BY <1>2, CatalogueAssumption, BeginBatches DEF BeginVolumes
<1>3. CASE Finish \/ Broken \/ Cancel \/ (Refused /\ pass # "prices")
  <2>1. Leave
    BY <1>3 DEF Finish, Broken, Cancel, Refused
  <2> QED
    BY <2>1, LeaveBatches DEF Leave
<1>4. ASSUME Settle, at = "sent", at' \notin {"spacing", "sent", "backoff"} PROVE BatchInv'
  <2>1. rest # <<>> /\ done \in Seq(Seq(ToSet(Catalogue))) /\ rest \in Seq(Seq(ToSet(Catalogue)))
    BY <1>4 DEF BatchInv
  <2>2. /\ done' \in Seq(Seq(ToSet(Catalogue))) /\ rest' \in Seq(Seq(ToSet(Catalogue)))
        /\ done' \o rest' = done \o rest
    BY <1>4, <2>1, SettleMoves DEF Settle
  <2>3. goal' = goal /\ Limits' = Limits
    BY <1>4 DEF Settle, Limits
  <2> QED
    BY <1>4, <2>2, <2>3, Zenon DEF BatchInv, WellPacked, Limits
<1>5. CASE Answered \/ Rejected \/ Unanswered \/ (Refused /\ pass = "prices")
  <2>1. Settle /\ at = "sent" /\ at' \in {"pacing", "cooling", "batch"}
    BY <1>5 DEF Answered, Rejected, Unanswered, Refused, Proceed, SkipRefused
  <2> QED
    BY <1>4, <2>1
<1>6. ASSUME UNCHANGED <<pass, batches>>,
             at' \in {"spacing", "sent", "backoff"} => rest # <<>>
      PROVE  BatchInv'
  BY <1>6, Zenon DEF BatchInv, WellPacked, Limits, batches
<1>7. CASE Enter \/ RequestStop \/ NextBatch \/ Send \/ Retry \/ TryAgain \/ Resume \/ Tick
           \/ UNCHANGED vars
  <2>1. UNCHANGED <<pass, batches>> /\ (at' \in {"spacing", "sent", "backoff"} => rest # <<>>)
    BY <1>7 DEF BatchInv, Enter, RequestStop, NextBatch, Send, Retry, TryAgain, Acquire, Resume,
        Tick, vars, batches
  <2> QED
    BY <1>6, <2>1
<1> QED
  BY <1>1, <1>2, <1>3, <1>5, <1>7 DEF Next, Collect

(* No request is cut longer than the limits unless a single item is, none is    *)
(* sent that the one before it had room for, and the batches of a pass are its *)
(* items, in order, each once.                                                *)
THEOREM BatchesSafe == Spec => []BatchesAreSafe
<1>1. Init => BatchInv
  <2> SUFFICES ASSUME Init PROVE BatchInv
    OBVIOUS
  <2>1. done \o rest = <<>> /\ goal = <<>> /\ at = "idle" /\ done = <<>> /\ rest = <<>>
    BY DEF Init
  <2>2. WellPacked(ToSet(Catalogue), <<>>, Limits)
    BY DEF WellPacked
  <2> QED
    BY <2>1, <2>2, FlattenNone DEF BatchInv
<1>2. BatchInv => BatchesAreSafe
  BY DEF BatchInv, WellPacked, BatchesAreSafe, Limits
<1> QED
  BY <1>1, <1>2, BatchStep, PTL DEF Spec

----------------------------------------------------------------------------
(* The breaker *)

(* The counter is what remains of the refusals in a row. *)
Counted == \E q \in Nat : refusals = q * Patience + consecutive_429s

(* A pass that cools down will have done so, and one that has lately reached    *)
(* its patience and asks for the next batch did.                              *)
CooledOff ==
    /\ at = "pacing" => refusals = 0
    /\ at = "cooling" => since + left >= CoolDown
    /\ at = "batch" \/ (at = "spacing" /\ attempt = 0) =>
          (refusals > 0 /\ consecutive_429s = 0 => since >= CoolDown)

LEMMA CountedStep == CountsOK /\ Counted /\ [Next]_vars => Counted'
<1> SUFFICES ASSUME CountsOK, Counted, [Next]_vars PROVE Counted'
  OBVIOUS
<1>1. PICK q \in Nat : refusals = q * Patience + consecutive_429s
  BY DEF Counted
<1>2. Patience \in Nat /\ Patience > 0 /\ consecutive_429s \in Nat
  BY TimeAssumption DEF CountsOK
<1>3. ASSUME refusals' = 0, consecutive_429s' = 0 PROVE Counted'
  <2>1. 0 = 0 * Patience + 0
    BY <1>2
  <2> QED
    BY <1>3, <2>1 DEF Counted
<1>4. ASSUME UNCHANGED <<refusals, consecutive_429s>> PROVE Counted'
  BY <1>1, <1>4 DEF Counted
<1>5. ASSUME SkipRefused PROVE Counted'
  <2>1. CASE Opens
    <3>1. refusals' = refusals + 1 /\ consecutive_429s' = 0 /\ consecutive_429s + 1 = Patience
      BY <1>2, <1>5, <2>1, TimeAssumption DEF SkipRefused, Opens, CountsOK
    <3>2. (q + 1) * Patience = q * Patience + Patience
      BY <1>2
    <3>3. refusals' = (q + 1) * Patience + 0 /\ q + 1 \in Nat
      BY <1>1, <1>2, <3>1, <3>2
    <3> QED
      BY <3>1, <3>3 DEF Counted
  <2>2. CASE ~Opens
    <3>1. refusals' = refusals + 1 /\ consecutive_429s' = consecutive_429s + 1
      BY <1>5, <2>2 DEF SkipRefused
    <3>2. refusals' = q * Patience + consecutive_429s'
      BY <1>1, <1>2, <3>1
    <3> QED
      BY <3>2 DEF Counted
  <2> QED
    BY <2>1, <2>2
<1>6. CASE BeginPrices \/ BeginVolumes \/ Finish \/ Broken \/ Cancel \/ Answered \/ Rejected
           \/ Unanswered
  BY <1>3, <1>6 DEF BeginPrices, BeginVolumes, Begin, Finish, Broken, Cancel, Leave, Answered,
      Rejected, Unanswered, Proceed
<1>7. CASE Refused
  BY <1>3, <1>5, <1>7 DEF Refused, Leave
<1>8. CASE Enter \/ RequestStop \/ NextBatch \/ Send \/ Retry \/ TryAgain \/ Resume \/ Tick
           \/ UNCHANGED vars
  BY <1>4, <1>8 DEF Enter, RequestStop, NextBatch, Send, Retry, TryAgain, Resume, Tick, vars
<1> QED
  BY <1>6, <1>7, <1>8 DEF Next, Collect

LEMMA CooledStep == ClockOK /\ CountsOK /\ CooledOff /\ [Next]_vars => CooledOff'
<1> SUFFICES ASSUME ClockOK, CountsOK, CooledOff, [Next]_vars PROVE CooledOff'
  OBVIOUS
<1> USE TimeAssumption DEF CooledOff, ClockOK, CountsOK
<1>1. CASE Enter \/ RequestStop \/ UNCHANGED vars
  BY <1>1 DEF Enter, RequestStop, vars
<1>2. CASE BeginPrices \/ BeginVolumes
  BY <1>2 DEF BeginPrices, BeginVolumes, Begin
<1>3. CASE Finish \/ Broken \/ Cancel
  BY <1>3 DEF Finish, Broken, Cancel, Leave
<1>4. CASE NextBatch \/ TryAgain \/ Send \/ Retry
  BY <1>4 DEF NextBatch, TryAgain, Acquire, Send, Retry
<1>5. CASE Answered \/ Rejected \/ Unanswered
  BY <1>5 DEF Answered, Rejected, Unanswered, Proceed
<1>6. CASE Refused
  BY <1>6 DEF Refused, SkipRefused, Leave, Opens
<1>7. CASE Resume
  BY <1>7 DEF Resume
<1>8. CASE Tick
  BY <1>8 DEF Tick, Lesser, Greater
<1> QED
  BY <1>1, <1>2, <1>3, <1>4, <1>5, <1>6, <1>7, <1>8 DEF Next, Collect

(* What is a multiple and a remainder is no multiple unless nothing remains. *)
LEMMA NothingRemains ==
    ASSUME NEW q \in Nat, NEW P \in Nat \ {0}, NEW c \in 0..P - 1, (q * P + c) % P = 0
    PROVE  c = 0
<1> DEFINE d == (q * P + c) \div P
<1>1. q * P + c \in Nat
  OBVIOUS
<1>2. d \in Int /\ q * P + c = d * P
  BY <1>1
<1> HIDE DEF d
<1>3. c = (d - q) * P
  BY <1>2
<1>4. d - q >= 1 => (d - q) * P >= P
  BY <1>2
<1>5. d - q <= -1 => (d - q) * P <= -P
  BY <1>2
<1> QED
  BY <1>2, <1>3, <1>4, <1>5

(* Each time its patience is exhausted, a pass cools down before it asks for    *)
(* the next batch.                                                            *)
THEOREM RefusalsCoolOff == Spec => RefusalsCoolDown
<1>1. Init => Counted /\ CooledOff
  <2> SUFFICES ASSUME Init PROVE Counted /\ CooledOff
    OBVIOUS
  <2>1. 0 = 0 * Patience + 0
    BY TimeAssumption
  <2> QED
    BY <2>1 DEF Init, Counted, CooledOff
<1> DEFINE Good == ClockOK /\ CountsOK /\ Counted /\ CooledOff
<1>2. Init => Good
  BY <1>1, TimeAssumption DEF Init, ClockOK, CountsOK
<1>3. Good /\ [Next]_vars => Good'
  BY ClockStep, CountsStep, CountedStep, CooledStep DEF CountsOK
<1>4. Good /\ [Next]_vars =>
        [Sends /\ attempt = 0 /\ refusals > 0 /\ refusals % Patience = 0 => since >= CoolDown]_vars
  <2> SUFFICES ASSUME Good, at = "spacing", attempt = 0, refusals > 0, refusals % Patience = 0
               PROVE  since >= CoolDown
    BY DEF Sends
  <2>1. PICK q \in Nat : refusals = q * Patience + consecutive_429s
    BY DEF Counted
  <2>2. consecutive_429s = 0
    BY <2>1, TimeAssumption, NothingRemains DEF CountsOK
  <2> QED
    BY <2>2 DEF CooledOff
<1> QED
  BY <1>2, <1>3, <1>4, PTL DEF Spec, RefusalsCoolDown
=============================================================================
