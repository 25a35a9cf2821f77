------------------------------ MODULE Induction ------------------------------
(***************************************************************************)
(* Induction over the natural numbers, in terms of sets: what holds of zero  *)
(* and is inherited by the next number holds of all.  With it, what a        *)
(* recursive function over the positions of a sequence is defined to be      *)
(* exists, so that the definition can be used: TLA+ takes such a function to *)
(* be any that satisfies its equation, if there is one.  The sums over finite *)
(* sets that the community modules define are such functions, too.           *)
(***************************************************************************)
EXTENDS Integers, Sequences, FiniteSetTheorems, TLAPS

CONSTANT Op(_, _, _, _)     \* the step: two parameters, what was reached, the next element

(* A nonempty set of natural numbers has a least element. *)
LEMMA LeastMember ==
    ASSUME NEW T, T \subseteq Nat, T # {}
    PROVE  \E n \in T : \A m \in T : n <= m
<1>1. IsWellFoundedOn(OpToRel(<, Nat), Nat)
  BY NatLessThanWellFounded
<1>2. PICK n \in T : \A m \in T : <<m, n>> \notin OpToRel(<, Nat)
  BY <1>1, WFMin
<1>3. \A m \in T : ~(m < n)
  BY <1>2 DEF OpToRel
<1> QED
  BY <1>3

(* A set that holds zero and with every number the next one holds them all:    *)
(* there is no least number outside of it.                                    *)
LEMMA SetInduction ==
    ASSUME NEW S, 0 \in S, \A n \in Nat : n \in S => n + 1 \in S
    PROVE  Nat \subseteq S
<1> SUFFICES ASSUME Nat \ S # {} PROVE FALSE
  OBVIOUS
<1>1. PICK n \in Nat \ S : \A m \in Nat \ S : n <= m
  BY LeastMember
<1>2. n # 0 /\ n - 1 \in Nat /\ n - 1 \in S
  BY <1>1
<1> QED
  BY <1>1, <1>2

(* What is reached when the step is repeated along N elements of a sequence. *)
IsRun(p, q, base, seq, N, f) ==
    f = [n \in 0..N |-> IF n = 0 THEN base ELSE Op(p, q, f[n - 1], seq[n])]

(* It can be repeated as often as one likes. *)
LEMMA RunExists ==
    \A p, q, base, seq : \A N \in Nat : \E f : IsRun(p, q, base, seq, N, f)
<1> TAKE p, q, base, seq
<1> DEFINE Rule(f, n) == IF n = 0 THEN base ELSE Op(p, q, f[n - 1], seq[n])
           S == {N \in Nat : \E f : IsRun(p, q, base, seq, N, f)}
<1>1. 0 \in S
  <2> DEFINE f == [n \in 0..0 |-> base]
  <2>1. IsRun(p, q, base, seq, 0, f)
    BY DEF IsRun
  <2> QED
    BY <2>1
<1>2. ASSUME NEW N \in Nat, N \in S PROVE N + 1 \in S
  <2>1. PICK f : f = [n \in 0..N |-> Rule(f, n)]
    BY <1>2 DEF IsRun
  <2> DEFINE g == [n \in 0..N + 1 |-> IF n <= N THEN f[n] ELSE Op(p, q, f[N], seq[N + 1])]
  <2>2. ASSUME NEW n \in 0..N + 1 PROVE g[n] = Rule(g, n)
    <3>1. CASE n <= N
      <4>1. g[n] = f[n] /\ f[n] = Rule(f, n)
        BY <3>1, <2>1
      <4>2. n # 0 => g[n - 1] = f[n - 1]
        BY <3>1
      <4> QED
        BY <4>1, <4>2
    <3>2. CASE n = N + 1
      BY <3>2
    <3> QED
      BY <3>1, <3>2
  <2>3. g = [n \in 0..N + 1 |-> Rule(g, n)]
    BY <2>2
  <2>4. IsRun(p, q, base, seq, N + 1, g)
    BY <2>3 DEF IsRun
  <2> HIDE DEF g
  <2> QED
    BY <2>4
<1> HIDE DEF S
<1>3. Nat \subseteq S
  BY <1>1, <1>2, SetInduction
<1> QED
  BY <1>3 DEF S

(* Two runs along sequences that begin alike go alike so far. *)
LEMMA RunsAgree ==
    ASSUME NEW p, NEW q, NEW base, NEW s, NEW t, NEW M \in Nat, NEW N \in Nat, NEW f, NEW g,
           IsRun(p, q, base, s, M, f), IsRun(p, q, base, t, N, g),
           NEW K \in 0..M, K <= N, \A n \in 1..K : s[n] = t[n]
    PROVE  f[K] = g[K]
<1> DEFINE S == {n \in Nat : n <= K => f[n] = g[n]}
<1>1. \A n \in 0..M : f[n] = IF n = 0 THEN base ELSE Op(p, q, f[n - 1], s[n])
  BY DEF IsRun
<1>2. \A n \in 0..N : g[n] = IF n = 0 THEN base ELSE Op(p, q, g[n - 1], t[n])
  BY DEF IsRun
<1>3. 0 \in S
  BY <1>1, <1>2
<1>4. ASSUME NEW n \in Nat, n \in S PROVE n + 1 \in S
  <2> SUFFICES ASSUME n + 1 <= K PROVE f[n + 1] = g[n + 1]
    OBVIOUS
  <2>1. f[n] = g[n] /\ n + 1 \in 0..M /\ n + 1 \in 0..N /\ (n + 1) - 1 = n /\ n + 1 # 0
    BY <1>4
  <2>2. f[n + 1] = Op(p, q, f[n], s[n + 1]) /\ g[n + 1] = Op(p, q, g[n], t[n + 1])
    BY <1>1, <1>2, <2>1
  <2>3. s[n + 1] = t[n + 1]
    OBVIOUS
  <2> QED
    BY <2>1, <2>2, <2>3
<1> HIDE DEF S
<1>5. Nat \subseteq S
  BY <1>3, <1>4, SetInduction
<1> QED
  BY <1>5 DEF S
----------------------------------------------------------------------------
(* Finite sums *)

(* The element a sum takes out first. *)
Some(s) == CHOOSE x \in s : TRUE

(* The sums of weights over the subsets of a set, one element after the other. *)
IsSum(w, S, f) ==
    f = [s \in SUBSET S |-> IF s = {} THEN 0 ELSE w[Some(s)] + f[s \ {Some(s)}]]

Sum(w, S) == (CHOOSE f : IsSum(w, S, f))[S]

(* One is taken out of a set of n + 1. *)
LEMMA OneLess ==
    ASSUME NEW S, IsFiniteSet(S), NEW n \in Nat, Cardinality(S) = n + 1
    PROVE  /\ S # {} /\ Some(S) \in S
           /\ \A x \in S : IsFiniteSet(S \ {x}) /\ Cardinality(S \ {x}) = n
<1>1. S # {}
  BY FS_EmptySet
<1>2. \A x \in S : IsFiniteSet(S \ {x}) /\ Cardinality(S \ {x}) = n
  BY FS_RemoveElement
<1> QED
  BY <1>1, <1>2 DEF Some

(* A nonempty finite set of natural numbers has a greatest element. *)
LEMMA GreatestMember ==
    ASSUME NEW S, S \subseteq Nat, S # {}, IsFiniteSet(S)
    PROVE  \E x \in S : \A y \in S : x >= y
<1> DEFINE N == {n \in Nat : \A s \in SUBSET S :
                    Cardinality(s) = n => s = {} \/ \E x \in s : \A y \in s : x >= y}
<1>0. \A s \in SUBSET S : IsFiniteSet(s) /\ Cardinality(s) \in Nat
  BY FS_Subset, FS_CardinalityType
<1>1. 0 \in N
  BY <1>0, FS_EmptySet
<1>2. ASSUME NEW n \in Nat, n \in N PROVE n + 1 \in N
  <2> SUFFICES ASSUME NEW s \in SUBSET S, Cardinality(s) = n + 1
               PROVE  \E x \in s : \A y \in s : x >= y
    OBVIOUS
  <2> DEFINE a == Some(s)
  <2>1. a \in s /\ Cardinality(s \ {a}) = n
    BY <1>0, OneLess
  <2> HIDE DEF a
  <2>2. s \ {a} = {} \/ \E x \in s \ {a} : \A y \in s \ {a} : x >= y
    BY <1>2, <2>1
  <2>3. CASE s \ {a} = {}
    BY <2>1, <2>3
  <2>4. CASE \E x \in s \ {a} : \A y \in s \ {a} : x >= y
    <3>1. PICK x \in s \ {a} : \A y \in s \ {a} : x >= y
      BY <2>4
    <3>2. x \in Nat /\ a \in Nat /\ \A y \in s : y \in Nat
      BY <2>1
    <3>3. CASE x >= a
      BY <3>1, <3>2, <3>3
    <3>4. CASE ~(x >= a)
      BY <2>1, <3>1, <3>2, <3>4
    <3> QED
      BY <3>3, <3>4
  <2> QED
    BY <2>2, <2>3, <2>4
<1> HIDE DEF N
<1>3. Nat \subseteq N
  BY <1>1, <1>2, SetInduction
<1> QED
  BY <1>0, <1>3 DEF N

(* Sums are the same over what two weighings agree on. *)
LEMMA SumsAgree ==
    ASSUME NEW S, NEW T, NEW w, NEW v, NEW f, NEW g, IsSum(w, S, f), IsSum(v, T, g),
           NEW R, R \subseteq S, R \subseteq T, IsFiniteSet(R), \A x \in R : w[x] = v[x]
    PROVE  f[R] = g[R]
<1> DEFINE N == {n \in Nat : \A s \in SUBSET R : Cardinality(s) = n => f[s] = g[s]}
<1>0. \A s \in SUBSET R : IsFiniteSet(s) /\ Cardinality(s) \in Nat
  BY FS_Subset, FS_CardinalityType
<1>1. 0 \in N
  <2>1. \A s \in SUBSET R : Cardinality(s) = 0 => s = {}
    BY <1>0, FS_EmptySet
  <2>2. f[{}] = 0 /\ g[{}] = 0
    BY DEF IsSum
  <2> QED
    BY <2>1, <2>2
<1>2. ASSUME NEW n \in Nat, n \in N PROVE n + 1 \in N
  <2> SUFFICES ASSUME NEW s \in SUBSET R, Cardinality(s) = n + 1 PROVE f[s] = g[s]
    OBVIOUS
  <2> DEFINE x == Some(s)
  <2>1. s # {} /\ x \in s /\ Cardinality(s \ {x}) = n
    BY <1>0, OneLess
  <2>2. f[s \ {x}] = g[s \ {x}]
    BY <1>2, <2>1
  <2> HIDE DEF x
  <2>3. f[s] = w[x] + f[s \ {x}] /\ g[s] = v[x] + g[s \ {x}]
    BY <2>1 DEF IsSum, x
  <2> QED
    BY <2>1, <2>2, <2>3
<1> HIDE DEF N
<1>3. Nat \subseteq N
  BY <1>1, <1>2, SetInduction
<1> QED
  BY <1>0, <1>3 DEF N

(* A finite set can be summed up: no set is the least that cannot be. *)
LEMMA SumExists ==
    ASSUME NEW w, NEW S, IsFiniteSet(S)
    PROVE  \E f : IsSum(w, S, f)
<1> DEFINE N == {n \in Nat : \A s \in SUBSET S : Cardinality(s) <= n => \E f : IsSum(w, s, f)}
<1>0. \A s \in SUBSET S : IsFiniteSet(s) /\ Cardinality(s) \in Nat
  BY FS_Subset, FS_CardinalityType
<1>1. 0 \in N
  <2> SUFFICES ASSUME NEW s \in SUBSET S, Cardinality(s) <= 0 PROVE \E f : IsSum(w, s, f)
    OBVIOUS
  <2>1. s = {}
    BY <1>0, FS_EmptySet
  <2> DEFINE f == [t \in SUBSET {} |-> 0]
  <2>2. IsSum(w, s, f)
    BY <2>1 DEF IsSum
  <2> QED
    BY <2>2
<1>2. ASSUME NEW n \in Nat, n \in N PROVE n + 1 \in N
  <2> SUFFICES ASSUME NEW s \in SUBSET S, Cardinality(s) = n + 1 PROVE \E f : IsSum(w, s, f)
    BY <1>0, <1>2
  <2> DEFINE of(t) == CHOOSE f : IsSum(w, t, f)
             F == [t \in SUBSET s |-> IF t = s THEN w[Some(s)] + of(s \ {Some(s)})[s \ {Some(s)}]
                                       ELSE of(t)[t]]
  <2>1. \A t \in SUBSET s : t # s => IsSum(w, t, of(t))
    <3> SUFFICES ASSUME NEW t \in SUBSET s, t # s PROVE \E f : IsSum(w, t, f)
      OBVIOUS
    <3>1. Cardinality(t) < n + 1
      BY <1>0, FS_Subset
    <3> QED
      BY <1>0, <1>2, <3>1
  <2>2. s # {} /\ Some(s) \in s
    BY <1>0, OneLess
  <2> HIDE DEF of
  <2>3. ASSUME NEW t \in SUBSET s
        PROVE  F[t] = IF t = {} THEN 0 ELSE w[Some(t)] + F[t \ {Some(t)}]
    <3>1. CASE t = {}
      <4>1. of(t)[t] = 0
        BY <2>1, <2>2, <3>1 DEF IsSum
      <4> QED
        BY <2>2, <3>1, <4>1
    <3>2. CASE t # {} /\ t # s
      <4> DEFINE x == Some(t)
                 r == t \ {x}
      <4>1. x \in t
        BY <3>2 DEF Some
      <4>2. of(t)[t] = w[x] + of(t)[r]
        BY <2>1, <3>2, <4>1 DEF IsSum
      <4>3. r \in SUBSET s /\ r # s /\ r \subseteq t
        BY <3>2
      <4>4. of(t)[r] = of(r)[r]
        BY <1>0, <2>1, <3>2, <4>3, SumsAgree
      <4>5. F[t] = of(t)[t] /\ F[r] = of(r)[r]
        BY <3>2, <4>3
      <4> QED
        BY <3>2, <4>2, <4>4, <4>5
    <3>3. CASE t # {} /\ t = s
      <4>1. s \ {Some(s)} # s
        BY <2>2
      <4> QED
        BY <2>2, <3>3, <4>1
    <3> QED
      BY <3>1, <3>2, <3>3
  <2>4. IsSum(w, s, F)
    <3>1. F = [t \in SUBSET s |-> F[t]]
      OBVIOUS
    <3> HIDE DEF F
    <3> QED
      BY <2>3, <3>1 DEF IsSum
  <2> QED
    BY <2>4
<1> HIDE DEF N
<1>3. Nat \subseteq N
  BY <1>1, <1>2, SetInduction
<1> QED
  BY <1>0, <1>3 DEF N

(* So the sum is what its definition says, *)
LEMMA SumSteps ==
    ASSUME NEW w, NEW S, IsFiniteSet(S)
    PROVE  /\ S = {} => Sum(w, S) = 0
           /\ S # {} => Sum(w, S) = w[Some(S)] + Sum(w, S \ {Some(S)})
<1> DEFINE of(t) == CHOOSE f : IsSum(w, t, f)
           R == S \ {Some(S)}
<1>1. IsFiniteSet(R)
  BY FS_Subset
<1>2. IsSum(w, S, of(S)) /\ IsSum(w, R, of(R))
  BY <1>1, SumExists
<1>3. Sum(w, S) = of(S)[S] /\ Sum(w, R) = of(R)[R]
  BY Zenon DEF Sum
<1> HIDE DEF of
<1>4. of(S)[R] = of(R)[R]
  BY <1>1, <1>2, SumsAgree
<1>5. S # {} => of(S)[S] = w[Some(S)] + of(S)[R]
  BY <1>2 DEF IsSum
<1>6. S = {} => of(S)[S] = 0
  BY <1>2 DEF IsSum
<1> QED
  BY <1>3, <1>4, <1>5, <1>6

(* depends on the weights of the set alone, *)
LEMMA SumOfSame ==
    ASSUME NEW w, NEW v, NEW S, IsFiniteSet(S), \A x \in S : w[x] = v[x]
    PROVE  Sum(w, S) = Sum(v, S)
<1>1. IsSum(w, S, CHOOSE f : IsSum(w, S, f)) /\ IsSum(v, S, CHOOSE f : IsSum(v, S, f))
  BY SumExists
<1> QED
  BY <1>1, SumsAgree DEF Sum

(* is zero when they are, *)
LEMMA SumOfNothing ==
    ASSUME NEW w, NEW S, IsFiniteSet(S), \A x \in S : w[x] = 0
    PROVE  Sum(w, S) = 0
<1> DEFINE N == {n \in Nat : \A s \in SUBSET S : Cardinality(s) = n => Sum(w, s) = 0}
<1>0. \A s \in SUBSET S : IsFiniteSet(s) /\ Cardinality(s) \in Nat
  BY FS_Subset, FS_CardinalityType
<1>1. 0 \in N
  BY <1>0, FS_EmptySet, SumSteps
<1>2. ASSUME NEW n \in Nat, n \in N PROVE n + 1 \in N
  <2> SUFFICES ASSUME NEW s \in SUBSET S, Cardinality(s) = n + 1 PROVE Sum(w, s) = 0
    OBVIOUS
  <2>1. s # {} /\ Some(s) \in s /\ Cardinality(s \ {Some(s)}) = n
    BY <1>0, OneLess
  <2>2. Sum(w, s \ {Some(s)}) = 0 /\ w[Some(s)] = 0
    BY <1>2, <2>1
  <2> QED
    BY <1>0, <2>1, <2>2, SumSteps
<1> HIDE DEF N
<1>3. Nat \subseteq N
  BY <1>1, <1>2, SetInduction
<1> QED
  BY <1>0, <1>3 DEF N

(* and a natural number when they are. *)
LEMMA SumType ==
    ASSUME NEW w, NEW S, IsFiniteSet(S), \A x \in S : w[x] \in Nat
    PROVE  Sum(w, S) \in Nat
<1> DEFINE N == {n \in Nat : \A s \in SUBSET S : Cardinality(s) = n => Sum(w, s) \in Nat}
<1>0. \A s \in SUBSET S : IsFiniteSet(s) /\ Cardinality(s) \in Nat
  BY FS_Subset, FS_CardinalityType
<1>1. 0 \in N
  BY <1>0, FS_EmptySet, SumSteps
<1>2. ASSUME NEW n \in Nat, n \in N PROVE n + 1 \in N
  <2> SUFFICES ASSUME NEW s \in SUBSET S, Cardinality(s) = n + 1 PROVE Sum(w, s) \in Nat
    OBVIOUS
  <2>1. s # {} /\ Some(s) \in s /\ Cardinality(s \ {Some(s)}) = n
    BY <1>0, OneLess
  <2>2. Sum(w, s \ {Some(s)}) \in Nat /\ w[Some(s)] \in Nat
    BY <1>2, <2>1
  <2> QED
    BY <1>0, <2>1, <2>2, SumSteps
<1> HIDE DEF N
<1>3. Nat \subseteq N
  BY <1>1, <1>2, SetInduction
<1> QED
  BY <1>0, <1>3 DEF N

(* The order does not matter: any element may be taken out first. *)
LEMMA SumSplits ==
    ASSUME NEW w, NEW S, IsFiniteSet(S), \A x \in S : w[x] \in Nat, NEW x \in S
    PROVE  Sum(w, S) = w[x] + Sum(w, S \ {x})
<1> DEFINE N == {n \in Nat : \A s \in SUBSET S : \A a \in s :
                    Cardinality(s) = n => Sum(w, s) = w[a] + Sum(w, s \ {a})}
<1>0. \A s \in SUBSET S : IsFiniteSet(s) /\ Cardinality(s) \in Nat /\ Sum(w, s) \in Nat
  BY FS_Subset, FS_CardinalityType, SumType
<1>1. 0 \in N
  BY <1>0, FS_EmptySet
<1>2. ASSUME NEW n \in Nat, n \in N PROVE n + 1 \in N
  <2> SUFFICES ASSUME NEW s \in SUBSET S, NEW a \in s, Cardinality(s) = n + 1
               PROVE  Sum(w, s) = w[a] + Sum(w, s \ {a})
    OBVIOUS
  <2> DEFINE b == Some(s)
  <2>1. b \in s /\ \A y \in s : Cardinality(s \ {y}) = n
    BY <1>0, OneLess
  <2>2. Sum(w, s) = w[b] + Sum(w, s \ {b})
    BY <1>0, SumSteps
  <2> HIDE DEF b
  <2>3. CASE a # b
    <3>1. Sum(w, s \ {b}) = w[a] + Sum(w, (s \ {b}) \ {a})
      BY <1>2, <2>1, <2>3
    <3>2. Sum(w, s \ {a}) = w[b] + Sum(w, (s \ {a}) \ {b})
      BY <1>2, <2>1, <2>3
    <3>3. (s \ {b}) \ {a} = (s \ {a}) \ {b}
      OBVIOUS
    <3>4. w[a] \in Nat /\ w[b] \in Nat /\ Sum(w, (s \ {a}) \ {b}) \in Nat
      BY <1>0, <2>1
    <3> QED
      BY <2>2, <3>1, <3>2, <3>3, <3>4
  <2> QED
    BY <2>2, <2>3
<1> HIDE DEF N
<1>3. Nat \subseteq N
  BY <1>1, <1>2, SetInduction
<1> QED
  BY <1>0, <1>3 DEF N

(* What two disjoint sets weigh adds up. *)
LEMMA SumsAddUp ==
    ASSUME NEW w, NEW S, IsFiniteSet(S), \A x \in S : w[x] \in Nat, NEW T, T \subseteq S
    PROVE  Sum(w, S) = Sum(w, T) + Sum(w, S \ T)
<1> DEFINE N == {n \in Nat : \A t \in SUBSET S : \A r \in SUBSET (S \ t) :
                    Cardinality(t) = n => Sum(w, t \cup r) = Sum(w, t) + Sum(w, r)}
<1>0. \A s \in SUBSET S : IsFiniteSet(s) /\ Cardinality(s) \in Nat /\ Sum(w, s) \in Nat
  BY FS_Subset, FS_CardinalityType, SumType
<1>1. 0 \in N
  <2> SUFFICES ASSUME NEW t \in SUBSET S, NEW r \in SUBSET (S \ t), Cardinality(t) = 0
               PROVE  Sum(w, t \cup r) = Sum(w, t) + Sum(w, r)
    OBVIOUS
  <2>1. t = {} /\ t \cup r = r /\ r \in SUBSET S
    BY <1>0, FS_EmptySet
  <2>2. Sum(w, t) = 0
    BY <1>0, <2>1, SumSteps
  <2> QED
    BY <1>0, <2>1, <2>2
<1>2. ASSUME NEW n \in Nat, n \in N PROVE n + 1 \in N
  <2> SUFFICES ASSUME NEW t \in SUBSET S, NEW r \in SUBSET (S \ t), Cardinality(t) = n + 1
               PROVE  Sum(w, t \cup r) = Sum(w, t) + Sum(w, r)
    OBVIOUS
  <2> DEFINE a == Some(t)
             u == t \ {a}
  <2>1. a \in t /\ Cardinality(u) = n
    BY <1>0, OneLess
  <2> HIDE DEF a
  <2>2. Sum(w, u \cup r) = Sum(w, u) + Sum(w, r)
    BY <1>2, <2>1
  <2>3. Sum(w, t) = w[a] + Sum(w, u)
    BY <1>0, <2>1, SumSplits
  <2>4. (t \cup r) \ {a} = u \cup r /\ t \cup r \in SUBSET S /\ a \in t \cup r
    BY <2>1
  <2>5. Sum(w, t \cup r) = w[a] + Sum(w, u \cup r)
    BY <1>0, <2>4, SumSplits
  <2>6. w[a] \in Nat /\ Sum(w, u) \in Nat /\ Sum(w, r) \in Nat
    BY <1>0, <2>1
  <2> QED
    BY <2>2, <2>3, <2>5, <2>6
<1> HIDE DEF N
<1>3. Nat \subseteq N
  BY <1>1, <1>2, SetInduction
<1>4. T \cup (S \ T) = S /\ T \in SUBSET S /\ S \ T \in SUBSET (S \ T)
  OBVIOUS
<1>5. Cardinality(T) \in N
  BY <1>0, <1>3, <1>4
<1> QED
  BY <1>4, <1>5 DEF N
==============================================================================
