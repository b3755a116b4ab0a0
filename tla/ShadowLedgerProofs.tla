------------------------- MODULE ShadowLedgerProofs -------------------------
(***************************************************************************)
(* Proofs about ShadowLedger, for every finite set of traders, every       *)
(* p-value and every number of dates: nobody a whole snapshot has seen     *)
(* alive is missing from a later whole one, and the qualified of a date    *)
(* are the largest set of traders within its share of alpha.               *)
(*                                                                         *)
(* First benjamini_hochberg_select by itself: an order by p-value exists   *)
(* and has every trader once, so what the cut at k* keeps is within its    *)
(* share, and no larger set is.  Then the inductive invariant.  A date is  *)
(* written by one run, or what is said of it is void; the run holds all    *)
(* that was in sight when it began until it has written it; its p-values   *)
(* are those of the episodes closed before the date that were recorded     *)
(* when it read them, whatever is recorded since; and what it has written  *)
(* and has yet to write are together the largest set.  A step of a run     *)
(* touches one date, so each action is looked at for its date, and         *)
(* OtherDates does the rest.                                               *)
(***************************************************************************)
EXTENDS ShadowLedger, FiniteSetTheorems, WellFoundedInduction, TLAPS

(* The Benjamini-Hochberg selection                                        *)

(* Every non-empty set of naturals has a least one.                        *)
LEMMA LeastNat ==
  ASSUME NEW S \in SUBSET Nat, S # {}
  PROVE  \E n \in S : \A m \in S : n <= m
<1> DEFINE Less == {mn \in Nat \X Nat : mn[1] < mn[2]}
<1>1. IsWellFoundedOn(Less, Nat)
  BY NatLessThanWellFounded DEF OpToRel
<1> HIDE DEF Less
<1>2. PICK n \in S : \A m \in S : ~(<<m, n>> \in Less)
  BY <1>1, WFMin
<1>3. ASSUME NEW m \in S PROVE n <= m
  <2>1. <<m, n>> \in Less <=> m < n
    BY DEF Less
  <2> QED  BY <1>2, <2>1
<1> QED  BY <1>3

(* q is an order by the values of p, without repetitions.                  *)
Sorts(q, p) == IsInjective(q) /\ \A h, i \in DOMAIN q : h < i => p[q[h]] <= p[q[i]]

(* One more member: the one with the least value goes to the front.        *)
LEMMA SortGrows ==
  ASSUME NEW n \in Nat, NEW s, NEW p, \A y \in s : p[y] \in Nat,
         NEW x \in s, \A y \in s : p[x] <= p[y],
         NEW q \in [1 .. n -> s \ {x}], Sorts(q, p)
  PROVE  \E r \in [1 .. (n + 1) -> s] : Sorts(r, p)
<1> DEFINE r == [i \in 1 .. (n + 1) |-> IF i = 1 THEN x ELSE q[i - 1]]
<1>1. \A i \in 1 .. (n + 1) : i # 1 => i - 1 \in 1 .. n
  OBVIOUS
<1>2. r \in [1 .. (n + 1) -> s] /\ r[1] = x
      /\ \A i \in 1 .. (n + 1) : i # 1 => r[i] = q[i - 1] /\ r[i] # x /\ r[i] \in s
  BY <1>1
<1> HIDE DEF r
<1>3. IsInjective(r)
  <2> SUFFICES ASSUME NEW a \in 1 .. (n + 1), NEW b \in 1 .. (n + 1), r[a] = r[b] PROVE a = b
    BY <1>2 DEF IsInjective
  <2>1. CASE a = 1 \/ b = 1
    BY <1>2, <2>1
  <2>2. CASE a # 1 /\ b # 1
    <3>1. q[a - 1] = q[b - 1] /\ a - 1 \in DOMAIN q /\ b - 1 \in DOMAIN q
      BY <1>1, <1>2, <2>2
    <3>2. a - 1 = b - 1
      BY <3>1 DEF Sorts, IsInjective
    <3> QED  BY <3>2
  <2> QED  BY <2>1, <2>2
<1>4. ASSUME NEW h \in 1 .. (n + 1), NEW i \in 1 .. (n + 1), h < i PROVE p[r[h]] <= p[r[i]]
  <2>1. i # 1 /\ r[i] \in s
    BY <1>2, <1>4
  <2>2. CASE h = 1
    BY <1>2, <2>1, <2>2
  <2>3. CASE h # 1
    <3>1. h - 1 \in DOMAIN q /\ i - 1 \in DOMAIN q /\ h - 1 < i - 1
      BY <1>1, <1>4, <2>1, <2>3
    <3>2. p[q[h - 1]] <= p[q[i - 1]]
      BY <3>1 DEF Sorts
    <3> QED  BY <1>2, <2>1, <2>3, <3>2
  <2> QED  BY <2>2, <2>3
<1> QED  BY <1>2, <1>3, <1>4 DEF Sorts

(* A finite set can be put in order: the least counterexample would grow.  *)
LEMMA SortExists ==
  ASSUME NEW S, IsFiniteSet(S), NEW p \in [S -> Nat]
  PROVE  \E q \in [1 .. Cardinality(S) -> S] : Sorts(q, p)
<1> DEFINE Sortable(s, n) == \E q \in [1 .. n -> s] : Sorts(q, p)
           Bad == {n \in Nat : \E s \in SUBSET S : Cardinality(s) = n /\ ~Sortable(s, n)}
<1>1. Bad = {}
  <2>1. SUFFICES ASSUME Bad # {} PROVE FALSE
    OBVIOUS
  <2>2. PICK n \in Bad : \A m \in Bad : n <= m
    <3>1. Bad \in SUBSET Nat
      OBVIOUS
    <3> HIDE DEF Bad
    <3> QED  BY <2>1, <3>1, LeastNat
  <2>3. PICK s \in SUBSET S : Cardinality(s) = n /\ ~Sortable(s, n)
    BY <2>2
  <2>4. IsFiniteSet(s) /\ n \in Nat
    BY <2>2, FS_Subset
  <2>5. CASE n = 0
    <3> DEFINE q == [i \in 1 .. 0 |-> 0]
    <3>1. q \in [1 .. 0 -> s] /\ Sorts(q, p)
      BY DEF Sorts, IsInjective
    <3> QED  BY <2>3, <2>5, <3>1
  <2>6. CASE n # 0
    <3>1. s # {}
      BY <2>3, <2>6, FS_EmptySet
    <3>2. PICK x \in s : \A y \in s : p[x] <= p[y]
      <4>1. {p[y] : y \in s} \in SUBSET Nat /\ {p[y] : y \in s} # {}
        BY <3>1
      <4>2. PICK m \in {p[y] : y \in s} : \A k \in {p[y] : y \in s} : m <= k
        BY <4>1, LeastNat
      <4> QED  BY <4>2
    <3>3. Cardinality(s \ {x}) = n - 1 /\ n - 1 \in Nat /\ s \ {x} \in SUBSET S
      <4>1. IsFiniteSet(s) /\ x \in s
        BY <2>4, <3>2
      <4>2. Cardinality(s \ {x}) = Cardinality(s) - 1
        BY <4>1, FS_RemoveElement
      <4>3. n - 1 \in Nat
        BY <2>4, <2>6
      <4>4. s \ {x} \in SUBSET S
        OBVIOUS
      <4> QED  BY <2>3, <4>2, <4>3, <4>4
    <3>4. Sortable(s \ {x}, n - 1)
      <4>1. n - 1 \notin Bad
        BY <2>2, <2>4, <3>3
      <4> QED  BY <3>3, <4>1
    <3>5. PICK m \in Nat : m = n - 1 /\ m + 1 = n
      BY <2>4, <3>3
    <3>6. PICK q \in [1 .. m -> s \ {x}] : Sorts(q, p)
      BY <3>4, <3>5
    <3>7. \A y \in s : p[y] \in Nat
      OBVIOUS
    <3>8. \E r \in [1 .. (m + 1) -> s] : Sorts(r, p)
      BY <3>2, <3>5, <3>6, <3>7, SortGrows
    <3> QED  BY <2>3, <3>5, <3>8
  <2> QED  BY <2>5, <2>6
<1>2. Cardinality(S) \in Nat /\ S \in SUBSET S
  BY FS_CardinalityType
<1> QED  BY <1>1, <1>2

(* So what Sorted chooses is one, and it has every member.                 *)
LEMMA SortedSorts ==
  ASSUME NEW S, IsFiniteSet(S), NEW p \in [S -> Nat]
  PROVE  /\ Sorted(p) \in [1 .. Cardinality(S) -> S] /\ Sorts(Sorted(p), p)
         /\ \A t \in S : \E i \in 1 .. Cardinality(S) : Sorted(p)[i] = t
<1>1. PICK n \in Nat : n = Cardinality(S)
  BY FS_CardinalityType
<1>2. \E q \in [1 .. n -> S] : Sorts(q, p)
  BY <1>1, SortExists
<1>3. Sorted(p) \in [1 .. n -> S] /\ Sorts(Sorted(p), p)
  <2>1. DOMAIN p = S
    OBVIOUS
  <2>2. Sorted(p) = CHOOSE q \in [1 .. n -> S] : Sorts(q, p)
    BY <1>1, <2>1 DEF Sorted, Sorts
  <2> QED  BY <1>2, <2>2
<1>4. \A t \in S : \E i \in 1 .. n : Sorted(p)[i] = t
  <2>1. PICK q \in [1 .. n -> S] : q = Sorted(p) /\ Sorts(q, p)
    BY <1>3
  <2>2. IsFiniteSet(1 .. n) /\ Cardinality(1 .. n) = n
    BY <1>1, FS_Interval
  <2>3. q \in Injection(1 .. n, S)
    BY <2>1 DEF Injection, Sorts, IsInjective
  <2>4. q \in Surjection(1 .. n, S)
    BY <1>1, <2>2, <2>3, FS_Injection
  <2> QED  BY <2>1, <2>4 DEF Surjection
<1> QED  BY <1>1, <1>3, <1>4

(* Max of a bounded set of naturals.                                       *)
LEMMA GreatestNat ==
  ASSUME NEW n \in Nat, NEW S \in SUBSET (0 .. n), 0 \in S
  PROVE  Max(S) \in S /\ \A y \in S : y <= Max(S)
<1> DEFINE B == {m \in Nat : \A y \in S : y <= m}
<1>1. n \in B /\ B \in SUBSET Nat
  OBVIOUS
<1>2. PICK m \in B : \A k \in B : m <= k
  BY <1>1, LeastNat
<1>3. m \in S
  <2> SUFFICES ASSUME m \notin S PROVE FALSE
    OBVIOUS
  <2>1. m # 0 /\ m - 1 \in Nat /\ \A y \in S : y <= m - 1
    <3>1. m \in Nat /\ \A y \in S : y <= m /\ y # m /\ y \in Nat
      BY <1>2
    <3> QED  BY <3>1
  <2>2. m - 1 \in B
    BY <2>1
  <2>3. m <= m - 1 /\ m \in Nat
    BY <1>2, <2>2
  <2> QED  BY <2>3
<1>4. \A y \in S : m >= y
  BY <1>2
<1>5. Max(S) \in S /\ \A y \in S : Max(S) >= y
  BY <1>3, <1>4 DEF Max
<1> QED  BY <1>5

LEMMA TimesMonotone ==
  ASSUME NEW a \in Nat, NEW b \in Nat, NEW c \in Nat, a <= b
  PROVE  a * c <= b * c /\ a * c \in Nat /\ b * c \in Nat
<1>1. PICK d \in Nat : b = a + d
  <2>1. b - a \in Nat /\ b = a + (b - a)
    OBVIOUS
  <2> QED  BY <2>1
<1>2. (a + d) * c = a * c + d * c
  OBVIOUS
<1>3. a * c \in Nat /\ d * c \in Nat
  OBVIOUS
<1> QED  BY <1>1, <1>2, <1>3

(* The first k of a sequence without repetitions.                          *)
First(q, k) == {q[i] : i \in 1 .. k}

LEMMA FirstOnes ==
  ASSUME NEW n \in Nat, NEW S, NEW q \in [1 .. n -> S], IsInjective(q), NEW k \in 0 .. n
  PROVE  IsFiniteSet(First(q, k)) /\ Cardinality(First(q, k)) = k
<1> DEFINE Q == {q[i] : i \in 1 .. k}
           f == [i \in 1 .. k |-> q[i]]
<1>1. f \in Bijection(1 .. k, Q)
  <2>1. \A i \in 1 .. k : i \in 1 .. n
    OBVIOUS
  <2>2. f \in Injection(1 .. k, Q)
    BY <2>1 DEF IsInjective, Injection
  <2>3. f \in Surjection(1 .. k, Q)
    BY DEF Surjection
  <2> QED  BY <2>2, <2>3 DEF Bijection
<1>2. IsFiniteSet(1 .. k) /\ Cardinality(1 .. k) = k
  BY FS_Interval
<1> HIDE DEF f, Q
<1>3. ExistsBijection(1 .. k, Q)
  BY <1>1 DEF ExistsBijection
<1>4. IsFiniteSet(Q) /\ Cardinality(Q) = Cardinality(1 .. k)
  BY <1>2, <1>3, FS_Bijection
<1> QED  BY <1>2, <1>4 DEF Q, First

(* The p-values of Q are at most its share of alpha among n tested ones.   *)
Within(p, Q, n) == \A t \in Q : p[t] * n <= Cardinality(Q) * SNAPSHOT_FDR_ALPHA

(* What benjamini_hochberg_select returns for the p-values p of a finite    *)
(* set: traders within their share of alpha, and no larger set is.         *)
THEOREM LargestWithin ==
  ASSUME NEW S, IsFiniteSet(S), NEW p \in [S -> Nat]
  PROVE  LET n == Cardinality(S)
             Q == benjamini_hochberg_select(p)
         IN  /\ Q \subseteq S /\ Within(p, Q, n)
             /\ \A V \in SUBSET S : Within(p, V, n) => Cardinality(V) <= Cardinality(Q)
<1>1. PICK n \in Nat : n = Cardinality(S)
  BY FS_CardinalityType
<1>2. PICK q \in [1 .. n -> S] : q = Sorted(p) /\ Sorts(q, p)
                                 /\ \A t \in S : \E i \in 1 .. n : q[i] = t
  BY <1>1, SortedSorts
<1>3. DOMAIN p = S /\ SNAPSHOT_FDR_ALPHA \in Nat
  BY ShadowLedgerAssumption
<1> DEFINE alpha == SNAPSHOT_FDR_ALPHA
           K == {i \in 1 .. n : p[q[i]] * n <= i * alpha}
<1>5. PICK k \in 0 .. n : k = Max({0} \cup K) /\ (k = 0 \/ k \in K) /\ \A i \in K : i <= k
  <2>1. {0} \cup K \in SUBSET (0 .. n) /\ 0 \in {0} \cup K
    OBVIOUS
  <2> HIDE DEF K
  <2>2. Max({0} \cup K) \in {0} \cup K /\ \A y \in {0} \cup K : y <= Max({0} \cup K)
    BY <2>1, GreatestNat
  <2> QED  BY <2>1, <2>2
<1> DEFINE Q == First(q, k)
<1>4. benjamini_hochberg_select(p) = Q
  BY <1>1, <1>2, <1>3, <1>5 DEF benjamini_hochberg_select, First
<1> HIDE DEF K
<1>6. IsFiniteSet(Q) /\ Cardinality(Q) = k
  <2>1. IsInjective(q) /\ k \in 0 .. n
    BY <1>2, <1>5 DEF Sorts
  <2> QED  BY <2>1, FirstOnes
<1>7. Q \subseteq S
  BY <1>5 DEF First
<1>8. \A i \in 1 .. n : p[q[i]] \in Nat
  OBVIOUS
<1>9. Within(p, Q, n)
  <2> SUFFICES ASSUME NEW i \in 1 .. k PROVE p[q[i]] * n <= k * alpha
    BY <1>6 DEF Within, First
  <2>1. i \in 1 .. n /\ k \in 1 .. n /\ p[q[k]] * n <= k * alpha
    BY <1>5 DEF K
  <2>2. p[q[i]] <= p[q[k]] /\ p[q[i]] \in Nat /\ p[q[k]] \in Nat
    <3>1. i = k \/ i < k
      BY <1>5
    <3> QED  BY <1>2, <1>8, <2>1, <3>1 DEF Sorts
  <2>3. p[q[i]] * n <= p[q[k]] * n /\ p[q[i]] * n \in Nat /\ p[q[k]] * n \in Nat
    BY <2>2, TimesMonotone
  <2>4. k * alpha \in Nat
    BY <1>3, <1>5
  <2> QED  BY <2>1, <2>3, <2>4
<1>10. ASSUME NEW V \in SUBSET S, Within(p, V, n) PROVE Cardinality(V) <= k
  <2>1. PICK m \in Nat : m = Cardinality(V)
    BY FS_Subset, FS_CardinalityType
  <2>2. IsFiniteSet(V) /\ m <= n
    BY <1>1, <2>1, FS_Subset
  <2> SUFFICES ASSUME m > k PROVE FALSE
    BY <1>5, <2>1
  <2>3. m \in 1 .. n /\ m - 1 \in 0 .. n
    BY <1>5, <2>2
  <2>4. PICK i \in m .. n : q[i] \in V
    <3> SUFFICES ASSUME \A i \in m .. n : q[i] \notin V PROVE FALSE
      OBVIOUS
    <3> DEFINE F == First(q, m - 1)
    <3>1. V \in SUBSET F
      <4> SUFFICES ASSUME NEW t \in V PROVE t \in F
        OBVIOUS
      <4>1. PICK i \in 1 .. n : q[i] = t
        BY <1>2
      <4>2. i \in 1 .. (m - 1)
        BY <2>3, <4>1
      <4> QED  BY <4>1, <4>2 DEF First
    <3>2. IsFiniteSet(F) /\ Cardinality(F) = m - 1
      <4>1. IsInjective(q)
        BY <1>2 DEF Sorts
      <4> QED  BY <2>3, <4>1, FirstOnes
    <3> HIDE DEF F
    <3>3. Cardinality(V) <= m - 1
      BY <3>1, <3>2, FS_Subset
    <3> QED  BY <2>1, <3>3
  <2>5. i \in 1 .. n /\ p[q[i]] * n <= m * alpha
    BY <1>10, <2>1, <2>3, <2>4 DEF Within
  <2>6. p[q[m]] <= p[q[i]] /\ p[q[m]] \in Nat /\ p[q[i]] \in Nat
    <3>1. m = i \/ m < i
      BY <2>4
    <3> QED  BY <1>2, <1>8, <2>3, <2>5, <3>1 DEF Sorts
  <2>7. p[q[m]] * n <= p[q[i]] * n /\ p[q[m]] * n \in Nat /\ p[q[i]] * n \in Nat
    BY <2>6, TimesMonotone
  <2>8. m * alpha \in Nat
    BY <1>3
  <2>9. p[q[m]] * n <= m * alpha
    BY <2>5, <2>7, <2>8
  <2>10. m \in K
    BY <2>3, <2>9 DEF K
  <2>11. m <= k
    BY <1>5, <2>10
  <2> QED  BY <1>5, <2>1, <2>11
<1> HIDE DEF Q
<1> QED  BY <1>1, <1>4, <1>6, <1>7, <1>9, <1>10

-----------------------------------------------------------------------------
(* The inductive invariant                                                 *)

Date == 1 .. MaxDate
Busy(j, d) == jobs[j] # Idle /\ jobs[j].date = d

Shot == [account : Nat, quality : BOOLEAN, p : Nat \cup {NoP}, profitable : BOOLEAN,
         event : {"death", "censored", "active"}, fdr : BOOLEAN, selected : BOOLEAN]
AreShots(s) == DOMAIN s \in SUBSET Trader /\ s \in [DOMAIN s -> Shot]

Assessing(w) ==
  /\ w.pc = "assess"
  /\ w = [pc |-> "assess", date |-> w.date, left |-> w.left, pooled |-> w.pooled,
          values |-> w.values, snapshots |-> w.snapshots]
  /\ w.date \in Date /\ w.left \in SUBSET Trader
  /\ w.values \in [Trader -> Account] /\ AreShots(w.snapshots)
Persisting(w) ==
  /\ w.pc = "persist"
  /\ w = [pc |-> "persist", date |-> w.date, snapshots |-> w.snapshots]
  /\ w.date \in Date /\ AreShots(w.snapshots)

Types ==
  /\ today \in Date /\ events \in 0 .. MaxEvents
  /\ pool \in SUBSET Trader /\ account \in [Trader -> Account]
  /\ closed \in SUBSET Episodes(Trader)
  /\ DOMAIN rows \in SUBSET (Date \X Trader) /\ rows \in [DOMAIN rows -> Shot]
  /\ DOMAIN jobs = Job /\ jobs = [j \in Job |-> jobs[j]]
  /\ \A j \in Job : jobs[j] = Idle \/ Assessing(jobs[j]) \/ Persisting(jobs[j])
  /\ runs \in [Date -> {"none", "open", "complete", "mixed"}]
  /\ before \in [Date -> SUBSET Date]
  /\ known \in [Date -> [Trader -> SUBSET Episodes(Trader)]]

(* A date is written by one run, which finds no row of it; none writes it  *)
(* once complete.  What was complete when it began stays so, or is mixed.  *)
Paged(d) ==
  /\ runs[d] = "none" => (\A j \in Job : ~Busy(j, d)) /\ (\A t \in Trader : ~Row(d, t))
  /\ runs[d] = "open" =>
       /\ d <= today
       /\ \A i, j \in Job : Busy(i, d) /\ Busy(j, d) => i = j
       /\ \A j \in Job : Busy(j, d) /\ jobs[j].pc = "assess" => \A t \in Trader : ~Row(d, t)
  /\ runs[d] = "complete" => d <= today /\ \A j \in Job : ~Busy(j, d)
Based(d) == \A e \in before[d] : runs[e] \in {"complete", "mixed"}

(* Whoever was in sight has a row, or the run at work has yet to write it. *)
Pending(w) == DOMAIN w.snapshots \cup (IF w.pc = "assess" THEN w.left ELSE {})
InSight(d, e, t) == e < d /\ runs[e] = "complete" /\ Row(e, t) /\ rows[<<e, t>>].event # "death"
Seen(d) ==
  runs[d] \in {"open", "complete"} =>
    \A e \in before[d], t \in Trader :
      InSight(d, e, t) => Row(d, t) \/ \E j \in Job : Busy(j, d) /\ t \in Pending(jobs[j])

(* The episodes each trader was known to have closed before a date when a  *)
(* run read them, its p-value, and the largest set of traders within its   *)
(* share of alpha.                                                         *)
History(d) == [t \in Trader |-> {e \in known[d][t] : e.trader = t /\ e.date < d}]
Rate(es) == IF Cardinality(es) >= SNAPSHOT_MIN_EPISODES THEN PValue(es) ELSE NoP
Tested(h, U) == {t \in U : Cardinality(h[t]) >= SNAPSHOT_MIN_EPISODES}
Controlled(h, Q, n) == \A t \in Q : PValue(h[t]) * n <= Cardinality(Q) * SNAPSHOT_FDR_ALPHA
Largest(h, U, Q) ==
  /\ Q \in SUBSET Tested(h, U) /\ Controlled(h, Q, Cardinality(Tested(h, U)))
  /\ \A S \in SUBSET Tested(h, U) :
       Controlled(h, S, Cardinality(Tested(h, U))) => Cardinality(S) <= Cardinality(Q)

(* The traders of a date, and those marked as qualified, when s is still   *)
(* to be written.                                                          *)
Shown(d, s) == {t \in Trader : Row(d, t) \/ t \in DOMAIN s}
Marked(d, s) ==
  {t \in Trader : IF t \in DOMAIN s THEN s[t].fdr ELSE Row(d, t) /\ rows[<<d, t>>].fdr}
Nothing == [t \in {} |-> 0]
Rated(d) ==
  /\ runs[d] = "open" =>
       \A j \in Job : Busy(j, d) =>
         LET s == jobs[j].snapshots
         IN  IF jobs[j].pc = "assess" THEN \A t \in DOMAIN s : s[t].p = Rate(History(d)[t])
             ELSE Largest(History(d), Shown(d, s), Marked(d, s))
  /\ runs[d] = "complete" => Largest(History(d), Shown(d, Nothing), Marked(d, Nothing))

DateInv(d) == Paged(d) /\ Based(d) /\ Seen(d) /\ Rated(d)
LedgerInv == Types /\ \A d \in Date : DateInv(d)

(* The records of a job, and what its steps make of them.                  *)
AfterAssess(w, L, s) == [w EXCEPT !.left = L, !.snapshots = s]

LEMMA AssessedJob ==
  ASSUME NEW w, Assessing(w), NEW L \in SUBSET Trader, NEW s, AreShots(s),
         NEW v, v = AfterAssess(w, L, s)
  PROVE  v.date = w.date /\ v.left = L /\ v.snapshots = s /\ Assessing(v)
<1>1. v = [pc |-> "assess", date |-> w.date, left |-> L, pooled |-> w.pooled,
           values |-> w.values, snapshots |-> s]
  BY DEF Assessing, AfterAssess
<1> QED  BY <1>1 DEF Assessing

LEMMA StartedJob ==
  ASSUME NEW d, NEW L, NEW P, NEW V, NEW s,
         NEW v, v = [pc |-> "assess", date |-> d, left |-> L, pooled |-> P, values |-> V,
                     snapshots |-> s]
  PROVE  /\ v.pc = "assess" /\ v.date = d /\ v.left = L /\ v.snapshots = s /\ v # Idle
         /\ d \in Date /\ L \in SUBSET Trader /\ V \in [Trader -> Account] /\ AreShots(s)
              => Assessing(v)
<1>1. v # Idle
  BY DEF Idle
<1> QED  BY <1>1 DEF Assessing

LEMMA SelectedJob ==
  ASSUME NEW d, NEW s, NEW v, v = [pc |-> "persist", date |-> d, snapshots |-> s]
  PROVE  /\ v.pc = "persist" /\ v.date = d /\ v.snapshots = s /\ v # Idle
         /\ d \in Date /\ AreShots(s) => Persisting(v)
<1>1. v # Idle
  BY DEF Idle
<1> QED  BY <1>1 DEF Persisting

LEMMA PersistedJob ==
  ASSUME NEW w, Persisting(w), NEW s, NEW v, v = [w EXCEPT !.snapshots = s]
  PROVE  /\ v.pc = "persist" /\ v.date = w.date /\ v.snapshots = s /\ v # Idle
         /\ AreShots(s) => Persisting(v)
<1>1. v = [pc |-> "persist", date |-> w.date, snapshots |-> s]
  BY DEF Persisting
<1> QED  BY <1>1, SelectedJob DEF Persisting

LEMMA JobKinds ==
  ASSUME NEW w, w = Idle \/ Assessing(w) \/ Persisting(w)
  PROVE  /\ w = Idle <=> w.pc = "idle"
         /\ Assessing(w) <=> w.pc = "assess"
         /\ Persisting(w) <=> w.pc = "persist"
<1>1. CASE w = Idle
  BY <1>1 DEF Idle, Assessing, Persisting
<1>2. CASE Assessing(w)
  BY <1>2 DEF Idle, Assessing, Persisting
<1>3. CASE Persisting(w)
  BY <1>3 DEF Idle, Assessing, Persisting
<1> QED  BY <1>1, <1>2, <1>3

LEMMA PutShots ==
  ASSUME NEW s, AreShots(s), NEW t \in Trader, NEW v \in Shot
  PROVE  AreShots(Put(s, t, v)) /\ DOMAIN Put(s, t, v) = DOMAIN s \cup {t}
BY DEF AreShots, Put

(* The row a run makes of a trader.                                        *)
LEMMA SnapshotShot ==
  ASSUME Types, NEW j \in Job, Assessing(jobs[j]), NEW t \in Trader
  PROVE  /\ Snapshot(j, t) \in Shot
         /\ Snapshot(j, t).p = Rate(ClosedBefore(t, jobs[j].date))
<1> DEFINE es == ClosedBefore(t, jobs[j].date)
           current == IF t \in jobs[j].pooled THEN jobs[j].values[t] ELSE 0
           enough == Cardinality(es) >= SNAPSHOT_MIN_EPISODES
<1>1. current \in Nat
  <2>1. jobs[j].values[t] \in Account
    BY DEF Assessing
  <2> QED  BY <2>1, ShadowLedgerAssumption
<1>2. (IF enough THEN PValue(es) ELSE NoP) \in Nat \cup {NoP}
  <2>1. es \in SUBSET Episodes({t})
    BY DEF Types, ClosedBefore, Episodes
  <2>2. PValue(es) \in Nat
    BY <2>1, ShadowLedgerAssumption
  <2> QED  BY <2>2
<1> DEFINE peak == Max({current} \cup {rows[k].account : k \in RowsOf(t)})
           quality == t \in jobs[j].pooled /\ enough
           profitable == es # {} /\ avg_r_net(es) >= SNAPSHOT_MIN_AVG_R_NET
           event == IF detect_death_events(t, current, peak) THEN "death"
                    ELSE IF detect_censor_events(t) THEN "censored" ELSE "active"
           p == IF enough THEN PValue(es) ELSE NoP
<1>3. Snapshot(j, t) = [account |-> current, quality |-> quality, p |-> p,
                        profitable |-> profitable, event |-> event, fdr |-> FALSE,
                        selected |-> FALSE]
  BY Zenon DEF Snapshot
<1>4. quality \in BOOLEAN /\ profitable \in BOOLEAN
  <2> HIDE DEF es, enough
  <2> QED  OBVIOUS
<1>5. event \in {"death", "censored", "active"}
  <2> HIDE DEF peak, current
  <2> QED  OBVIOUS
<1>6. p = Rate(es)
  BY DEF Rate
<1>7. p \in Nat \cup {NoP}
  BY <1>2
<1> HIDE DEF es, current, enough, peak, quality, profitable, event, p
<1>8. Snapshot(j, t) \in Shot /\ Snapshot(j, t).p = p
  BY <1>1, <1>3, <1>4, <1>5, <1>7 DEF Shot
<1> QED  BY <1>6, <1>8 DEF es

LEMMA TypesInitially == Init => Types
<1> SUFFICES ASSUME Init PROVE Types
  OBVIOUS
<1>1. today \in Date /\ events \in 0 .. MaxEvents /\ pool \in SUBSET Trader
      /\ account \in [Trader -> Account] /\ closed \in SUBSET Episodes(Trader)
  BY ShadowLedgerAssumption DEF Init, Date
<1>2. DOMAIN rows \in SUBSET (Date \X Trader) /\ rows \in [DOMAIN rows -> Shot]
  BY DEF Init
<1>3. DOMAIN jobs = Job /\ jobs = [j \in Job |-> jobs[j]] /\ \A j \in Job : jobs[j] = Idle
  BY DEF Init
<1>4. runs \in [Date -> {"none", "open", "complete", "mixed"}]
      /\ before \in [Date -> SUBSET Date]
  BY DEF Init, Date
<1>5. known \in [Date -> [Trader -> SUBSET Episodes(Trader)]]
  BY DEF Init, Date
<1> QED  BY <1>1, <1>2, <1>3, <1>4, <1>5 DEF Types

(* One action at a time: what becomes of the types.                        *)
LEMMA BeginTypes ==
  ASSUME Types, NEW j \in Job, NEW d \in Date, Begin(j, d),
         events' \in 0 .. MaxEvents
  PROVE  Types'
<1>1. Universe(d) \in SUBSET Trader
  BY ShadowLedgerAssumption DEF Types, Universe
<1>2. AreShots([t \in {} |-> 0])
  BY DEF AreShots
<1>3. Assessing(jobs'[j]) /\ DOMAIN jobs' = Job /\ jobs' = [i \in Job |-> jobs'[i]]
      /\ \A i \in Job : i # j => jobs'[i] = jobs[i]
  <2>1. DOMAIN jobs' = Job /\ jobs' = [i \in Job |-> jobs'[i]]
        /\ \A i \in Job : i # j => jobs'[i] = jobs[i]
    BY DEF Begin, Types
  <2>2. jobs'[j] = [pc |-> "assess", date |-> d, left |-> Universe(d), pooled |-> pool,
                    values |-> account, snapshots |-> [t \in {} |-> 0]]
    BY DEF Begin, Types
  <2>3. account \in [Trader -> Account]
    BY DEF Types
  <2>4. Assessing(jobs'[j])
    BY <1>1, <1>2, <2>2, <2>3, StartedJob
  <2> QED  BY <2>1, <2>4
<1>4. runs' \in [Date -> {"none", "open", "complete", "mixed"}]
  BY DEF Begin, Types
<1>5. before' \in [Date -> SUBSET Date]
  BY DEF Begin, Types, Date
<1>6. \A i \in Job : jobs'[i] = Idle \/ Assessing(jobs'[i]) \/ Persisting(jobs'[i])
  BY <1>3 DEF Types
<1>7. today' \in Date /\ pool' \in SUBSET Trader /\ account' \in [Trader -> Account]
      /\ closed' \in SUBSET Episodes(Trader)
      /\ DOMAIN rows' \in SUBSET (Date \X Trader) /\ rows' \in [DOMAIN rows' -> Shot]
      /\ known' \in [Date -> [Trader -> SUBSET Episodes(Trader)]]
  BY DEF Begin, Types, worldVars
<1> QED  BY <1>3, <1>4, <1>5, <1>6, <1>7 DEF Types

(* What the steps of a run make of its job; the other jobs stay.           *)
OnlyJob(j) ==
  DOMAIN jobs' = Job /\ jobs' = [i \in Job |-> jobs'[i]]
  /\ \A i \in Job : i # j => jobs'[i] = jobs[i]

LEMMA AssessMakes ==
  ASSUME Types, NEW j \in Job, Assess(j)
  PROVE  /\ Assessing(jobs[j]) /\ Assessing(jobs'[j]) /\ OnlyJob(j)
         /\ jobs'[j].date = jobs[j].date
         /\ \E t \in jobs[j].left :
              /\ jobs'[j].left = jobs[j].left \ {t}
              /\ jobs'[j].snapshots = Put(jobs[j].snapshots, t, Snapshot(j, t))
              /\ known' = [known EXCEPT ![jobs[j].date][t] = closed]
<1>1. Assessing(jobs[j])
  BY JobKinds DEF Types, Assess
<1>2. PICK t \in jobs[j].left :
        /\ jobs' = [jobs EXCEPT ![j] = [jobs[j] EXCEPT !.left = jobs[j].left \ {t},
                                     !.snapshots = Put(jobs[j].snapshots, t, Snapshot(j, t))]]
        /\ known' = [known EXCEPT ![jobs[j].date][t] = closed]
  BY DEF Assess
<1> DEFINE L == jobs[j].left \ {t}
           z == Put(jobs[j].snapshots, t, Snapshot(j, t))
<1>3. t \in Trader /\ L \in SUBSET Trader
  BY <1>1 DEF Assessing
<1>4. PICK v : v = AfterAssess(jobs[j], L, z) /\ jobs' = [jobs EXCEPT ![j] = v]
  BY <1>2, Zenon DEF AfterAssess
<1>5. AreShots(z)
  <2>1. AreShots(jobs[j].snapshots) /\ Snapshot(j, t) \in Shot
    BY <1>1, <1>3, SnapshotShot DEF Assessing
  <2> QED  BY <1>3, <2>1, PutShots
<1> HIDE DEF z, L
<1>6. v.date = jobs[j].date /\ v.left = L /\ v.snapshots = z /\ Assessing(v)
  BY <1>1, <1>3, <1>4, <1>5, AssessedJob
<1>7. OnlyJob(j) /\ jobs'[j] = v
  BY <1>4 DEF Types, OnlyJob
<1> QED  BY <1>1, <1>2, <1>6, <1>7 DEF z, L

Entered(s) == {t \in DOMAIN s : s[t].p # NoP}
Qualified(s) == benjamini_hochberg_select([t \in Entered(s) |-> s[t].p])

LEMMA SelectMakes ==
  ASSUME Types, NEW j \in Job, Select(j)
  PROVE  /\ Assessing(jobs[j]) /\ Persisting(jobs'[j]) /\ OnlyJob(j)
         /\ jobs[j].left = {} /\ jobs'[j].date = jobs[j].date
         /\ DOMAIN jobs'[j].snapshots = DOMAIN jobs[j].snapshots
         /\ \A t \in DOMAIN jobs[j].snapshots :
              jobs'[j].snapshots[t].fdr = (t \in Qualified(jobs[j].snapshots))
<1>1. Assessing(jobs[j])
  BY JobKinds DEF Types, Select
<1> DEFINE s == jobs[j].snapshots
           fdr == Qualified(s)
<1>2. PICK chosen :
        jobs' = [jobs EXCEPT ![j] =
                   [pc |-> "persist", date |-> @.date,
                    snapshots |-> [t \in DOMAIN s |-> [s[t] EXCEPT !.fdr = t \in fdr,
                                                                   !.selected = t \in chosen]]]]
  BY Zenon DEF Select, Qualified, Entered
<1>3. AreShots(s) /\ jobs[j].date \in Date
  BY <1>1 DEF Assessing
<1> HIDE DEF fdr
<1> DEFINE z == [t \in DOMAIN s |-> [s[t] EXCEPT !.fdr = t \in fdr, !.selected = t \in chosen]]
<1>4. OnlyJob(j) /\ jobs'[j] = [pc |-> "persist", date |-> jobs[j].date, snapshots |-> z]
  BY <1>2 DEF Types, OnlyJob
<1>5. AreShots(z) /\ DOMAIN z = DOMAIN s /\ \A t \in DOMAIN s : z[t].fdr = (t \in fdr)
  <2>1. ASSUME NEW t \in DOMAIN s PROVE z[t] \in Shot /\ z[t].fdr = (t \in fdr)
    <3>1. s[t] \in Shot
      BY <1>3 DEF AreShots
    <3>2. (t \in fdr) \in BOOLEAN /\ (t \in chosen) \in BOOLEAN
      OBVIOUS
    <3>3. z[t] = [s[t] EXCEPT !.fdr = t \in fdr, !.selected = t \in chosen]
      OBVIOUS
    <3> QED  BY <3>1, <3>2, <3>3 DEF Shot
  <2> QED  BY <1>3, <2>1 DEF AreShots
<1> HIDE DEF z
<1>6. Persisting(jobs'[j]) /\ jobs'[j].date = jobs[j].date /\ jobs'[j].snapshots = z
  BY <1>3, <1>4, <1>5, SelectedJob
<1>7. jobs[j].left = {}
  BY DEF Select
<1> QED  BY <1>1, <1>4, <1>5, <1>6, <1>7 DEF fdr

LEMMA PersistMakes ==
  ASSUME Types, NEW j \in Job, Persist(j)
  PROVE  /\ Persisting(jobs[j]) /\ Persisting(jobs'[j]) /\ OnlyJob(j)
         /\ jobs'[j].date = jobs[j].date
         /\ \E t \in DOMAIN jobs[j].snapshots :
              /\ jobs'[j].snapshots =
                   [u \in DOMAIN jobs[j].snapshots \ {t} |-> jobs[j].snapshots[u]]
              /\ \/ /\ rows' = Put(rows, <<jobs[j].date, t>>, jobs[j].snapshots[t])
                    /\ UNCHANGED <<runs, events>>
                 \/ /\ rows' = rows /\ runs' = [runs EXCEPT ![jobs[j].date] = "mixed"]
                    /\ Event
<1>1. Persisting(jobs[j])
  BY JobKinds DEF Types, Persist
<1> DEFINE s == jobs[j].snapshots
<1>2. PICK t \in DOMAIN s, ok \in BOOLEAN :
       /\ IF ok THEN UNCHANGED events ELSE Event
       /\ rows' = IF ok THEN Put(rows, <<jobs[j].date, t>>, s[t]) ELSE rows
       /\ runs' = IF ok THEN runs ELSE [runs EXCEPT ![jobs[j].date] = "mixed"]
       /\ jobs' = [jobs EXCEPT ![j].snapshots = [u \in DOMAIN @ \ {t} |-> @[u]]]
  BY DEF Persist
<1> DEFINE z == [u \in DOMAIN s \ {t} |-> s[u]]
<1>3. OnlyJob(j) /\ jobs'[j] = [jobs[j] EXCEPT !.snapshots = z]
  BY <1>2 DEF Types, OnlyJob
<1>4. AreShots(z)
  BY <1>1 DEF Persisting, AreShots
<1> HIDE DEF z
<1>5. Persisting(jobs'[j]) /\ jobs'[j].date = jobs[j].date /\ jobs'[j].snapshots = z
  BY <1>1, <1>3, <1>4, PersistedJob
<1> QED  BY <1>1, <1>2, <1>3, <1>5 DEF z

LEMMA IdleMakes ==
  ASSUME Types, NEW j \in Job, jobs' = [jobs EXCEPT ![j] = Idle]
  PROVE  OnlyJob(j) /\ jobs'[j] = Idle
BY DEF Types, OnlyJob

RunNames == {"none", "open", "complete", "mixed"}

LEMMA EventCounts == ASSUME Types, Event PROVE events' \in 0 .. MaxEvents
BY ShadowLedgerAssumption DEF Types, Event

(* The types are kept by every action.                                     *)
LEMMA TypesStep == Types /\ [Next]_vars => Types'
<1> SUFFICES ASSUME Types, [Next]_vars PROVE Types'
  OBVIOUS
<1> DEFINE World == /\ today' \in Date /\ events' \in 0 .. MaxEvents /\ pool' \in SUBSET Trader
                    /\ account' \in [Trader -> Account] /\ closed' \in SUBSET Episodes(Trader)
           Table == DOMAIN rows' \in SUBSET (Date \X Trader) /\ rows' \in [DOMAIN rows' -> Shot]
           Work == /\ DOMAIN jobs' = Job /\ jobs' = [j \in Job |-> jobs'[j]]
                   /\ \A j \in Job : jobs'[j] = Idle \/ Assessing(jobs'[j]) \/ Persisting(jobs'[j])
           Story == /\ runs' \in [Date -> RunNames] /\ before' \in [Date -> SUBSET Date]
                    /\ known' \in [Date -> [Trader -> SUBSET Episodes(Trader)]]
<1>0. World /\ Table /\ Work /\ Story => Types'
  BY DEF Types, RunNames
<1>1. CASE Daily
  <2>1. Begin("daily", today) /\ events' = events /\ "daily" \in Job /\ today \in Date
    BY <1>1 DEF Daily, Job, Types
  <2> QED  BY <2>1, BeginTypes DEF Types
<1>2. CASE Request
  <2>1. PICK d \in Date : Begin("request", d)
    BY <1>2 DEF Request, Date
  <2>2. "request" \in Job /\ events' \in 0 .. MaxEvents
    BY <1>2, EventCounts DEF Job, Request
  <2> QED  BY <2>1, <2>2, BeginTypes
<1>3. ASSUME NEW j \in Job, Assess(j) PROVE Types'
  <2>1. Assessing(jobs'[j]) /\ OnlyJob(j)
    BY <1>3, AssessMakes
  <2>2. Work
    BY <2>1 DEF Types, OnlyJob
  <2>3. World /\ Table /\ runs' = runs /\ before' = before
    BY <1>3 DEF Assess, Types, worldVars
  <2>4. known' \in [Date -> [Trader -> SUBSET Episodes(Trader)]]
    <3>1. PICK t \in jobs[j].left : known' = [known EXCEPT ![jobs[j].date][t] = closed]
      BY <1>3, AssessMakes
    <3> QED  BY <3>1 DEF Types
  <2> QED  BY <1>0, <2>2, <2>3, <2>4 DEF Types, RunNames
<1>4. ASSUME NEW j \in Job, Select(j) PROVE Types'
  <2>1. Persisting(jobs'[j]) /\ OnlyJob(j)
    BY <1>4, SelectMakes
  <2>2. Work
    BY <2>1 DEF Types, OnlyJob
  <2>3. World /\ Table /\ Story
    BY <1>4 DEF Select, Types, worldVars, RunNames
  <2> QED  BY <1>0, <2>2, <2>3
<1>5. ASSUME NEW j \in Job, Persist(j) PROVE Types'
  <2>1. Persisting(jobs[j]) /\ Persisting(jobs'[j]) /\ OnlyJob(j)
    BY <1>5, PersistMakes
  <2>2. PICK t \in DOMAIN jobs[j].snapshots :
             \/ /\ rows' = Put(rows, <<jobs[j].date, t>>, jobs[j].snapshots[t])
                /\ UNCHANGED <<runs, events>>
             \/ /\ rows' = rows /\ runs' = [runs EXCEPT ![jobs[j].date] = "mixed"]
                /\ Event
    BY <1>5, PersistMakes
  <2>3. Work
    BY <2>1 DEF Types, OnlyJob
  <2>4. UNCHANGED <<today, worldVars, closed, before, known>>
    BY <1>5 DEF Persist
  <2>5. <<jobs[j].date, t>> \in Date \X Trader /\ jobs[j].snapshots[t] \in Shot
    BY <2>1 DEF Persisting, AreShots
  <2>6. Table
    <3> PICK v : v = jobs[j].snapshots[t]
      OBVIOUS
    <3>1. CASE rows' = Put(rows, <<jobs[j].date, t>>, v)
      <4>1. PICK k \in Date \X Trader : k = <<jobs[j].date, t>>
        BY <2>5
      <4>2. DOMAIN Put(rows, k, v) = DOMAIN rows \cup {k}
            /\ Put(rows, k, v) \in [DOMAIN rows \cup {k} -> Shot]
        BY <2>5 DEF Types, Put
      <4> QED  BY <3>1, <4>1, <4>2 DEF Types
    <3> QED  BY <2>2, <3>1 DEF Types
  <2>7. World
    BY <2>2, <2>4, EventCounts DEF Types, worldVars
  <2>8. Story
    BY <2>2, <2>4 DEF Types, RunNames
  <2> QED  BY <1>0, <2>3, <2>6, <2>7, <2>8
<1>6. ASSUME NEW j \in Job, End(j) PROVE Types'
  <2>1. OnlyJob(j) /\ jobs'[j] = Idle
    BY <1>6, IdleMakes DEF End
  <2>2. Work
    BY <2>1 DEF Types, OnlyJob
  <2>3. World /\ Table /\ Story
    BY <1>6 DEF End, Types, worldVars, RunNames
  <2> QED  BY <1>0, <2>2, <2>3
<1>7. ASSUME NEW j \in Job, Break(j) PROVE Types'
  <2>1. OnlyJob(j) /\ jobs'[j] = Idle
    BY <1>7, IdleMakes DEF Break
  <2>2. Work
    BY <2>1 DEF Types, OnlyJob
  <2>3. events' \in 0 .. MaxEvents
    BY <1>7, EventCounts DEF Break
  <2>4. World /\ Table /\ Story
    BY <1>7, <2>3 DEF Break, Types, worldVars, RunNames
  <2> QED  BY <1>0, <2>2, <2>4
<1>8. CASE NextDay
  <2>1. today' \in Date
    BY <1>8, ShadowLedgerAssumption DEF NextDay, Types, Date
  <2> QED  BY <1>0, <1>8, <2>1 DEF NextDay, Types, worldVars, RunNames
<1>9. CASE Close
  <2>1. PICK t \in Trader, r \in R, d \in 1 .. today :
          closed' = closed \cup {[trader |-> t, r |-> r, date |-> d, id |-> events]}
    BY <1>9 DEF Close
  <2>2. events' \in 0 .. MaxEvents /\ events \in 0 .. MaxEvents - 1
    BY <1>9, ShadowLedgerAssumption DEF Close, Event, Types
  <2>3. [trader |-> t, r |-> r, date |-> d, id |-> events] \in Episodes(Trader)
    <3>1. d \in Date
      BY ShadowLedgerAssumption DEF Types, Date
    <3> QED  BY <2>2, <3>1 DEF Date, Episodes
  <2>4. World
    BY <1>9, <2>1, <2>2, <2>3 DEF Close, Types, worldVars
  <2> QED  BY <1>0, <1>9, <2>4 DEF Close, Types, worldVars, RunNames
<1>10. CASE Move
  <2>1. pool' \in SUBSET Trader /\ account' \in [Trader -> Account]
    BY <1>10 DEF Move, Types
  <2>2. events' \in 0 .. MaxEvents
    BY <1>10, EventCounts DEF Move
  <2>3. World /\ Table /\ Work /\ Story
    BY <1>10, <2>1, <2>2 DEF Move, Types, RunNames
  <2> QED  BY <1>0, <2>3
<1>11. CASE UNCHANGED vars
  <2>1. World /\ Table /\ Work /\ Story
    BY <1>11 DEF vars, Types, worldVars, RunNames
  <2> QED  BY <1>0, <2>1
<1> QED
  BY <1>1, <1>2, <1>3, <1>4, <1>5, <1>6, <1>7, <1>8, <1>9, <1>10, <1>11 DEF Next

-----------------------------------------------------------------------------
(* A step of a run touches one date                                        *)

Kept(d) ==
  /\ runs'[d] = runs[d]
  /\ \A t \in Trader : (<<d, t>> \in DOMAIN rows' <=> <<d, t>> \in DOMAIN rows)
                       /\ (<<d, t>> \in DOMAIN rows => rows'[<<d, t>>] = rows[<<d, t>>])
  /\ \A j \in Job : Busy(j, d) \/ Busy(j, d)' => jobs'[j] = jobs[j]
KeptBut(x) == \A d \in Date \ {x} : Kept(d) /\ before'[d] = before[d]

(* A run changes its job, and runs, before and rows at its date only.      *)
LEMMA RunKeeps ==
  ASSUME NEW j \in Job, NEW x \in Date, OnlyJob(j),
         jobs[j] = Idle \/ jobs[j].date = x, jobs'[j] = Idle \/ jobs'[j].date = x,
         \A d \in Date \ {x} : runs'[d] = runs[d] /\ before'[d] = before[d],
         \/ rows' = rows
         \/ \E t \in Trader, v \in Shot : rows' = Put(rows, <<x, t>>, v)
  PROVE  KeptBut(x)
<1> SUFFICES ASSUME NEW d \in Date \ {x} PROVE Kept(d)
  BY DEF KeptBut
<1>1. ASSUME NEW t \in Trader
      PROVE  /\ <<d, t>> \in DOMAIN rows' <=> <<d, t>> \in DOMAIN rows
             /\ <<d, t>> \in DOMAIN rows => rows'[<<d, t>>] = rows[<<d, t>>]
  <2>1. CASE rows' = rows
    BY <2>1
  <2>2. ASSUME NEW u \in Trader, NEW v \in Shot, rows' = Put(rows, <<x, u>>, v)
        PROVE  /\ <<d, t>> \in DOMAIN rows' <=> <<d, t>> \in DOMAIN rows
               /\ <<d, t>> \in DOMAIN rows => rows'[<<d, t>>] = rows[<<d, t>>]
    <3>1. <<d, t>> # <<x, u>>
      OBVIOUS
    <3>2. PICK k : k = <<d, t>>
      OBVIOUS
    <3>3. PICK m : m = <<x, u>>
      OBVIOUS
    <3> QED  BY <2>2, <3>1, <3>2, <3>3 DEF Put
  <2> QED  BY <2>1, <2>2
<1>2. ASSUME NEW i \in Job, Busy(i, d) \/ Busy(i, d)' PROVE jobs'[i] = jobs[i]
  <2>1. i # j
    BY <1>2 DEF Busy
  <2> QED  BY <2>1 DEF OnlyJob
<1> QED  BY <1>1, <1>2 DEF Kept

(* What is kept of a date keeps what is true of it.                        *)
LEMMA KeptPaged ==
  ASSUME Types, Types', NEW d \in Date, Kept(d), Paged(d), today <= today'
  PROVE  Paged(d)'
<1>1. \A j \in Job : (Busy(j, d)' <=> Busy(j, d)) /\ (Busy(j, d) => jobs'[j] = jobs[j])
  BY DEF Kept, Busy
<1>2. \A t \in Trader : Row(d, t)' <=> Row(d, t)
  BY DEF Kept, Row
<1>3. runs'[d] = runs[d]
  BY DEF Kept
<1>4. d <= today => d <= today'
  BY DEF Types, Date
<1> QED  BY <1>1, <1>2, <1>3, <1>4 DEF Paged

LEMMA KeptRated ==
  ASSUME NEW d \in Date, Kept(d), Rated(d), History(d)' = History(d)
  PROVE  Rated(d)'
<1>1. \A j \in Job : (Busy(j, d)' <=> Busy(j, d)) /\ (Busy(j, d) => jobs'[j] = jobs[j])
  BY DEF Kept, Busy
<1>2. \A s : Shown(d, s)' = Shown(d, s) /\ Marked(d, s)' = Marked(d, s)
  BY DEF Kept, Shown, Marked, Row
<1>3. runs'[d] = runs[d]
  BY DEF Kept
<1> PICK h : h = History(d) /\ h = History(d)'
  OBVIOUS
<1> QED  BY <1>1, <1>2, <1>3 DEF Rated

LEMMA KeptSeen ==
  ASSUME NEW d \in Date, Kept(d), Seen(d), before'[d] = before[d], before[d] \in SUBSET Date,
         \A e \in before[d] : runs'[e] = "complete" => Kept(e)
  PROVE  Seen(d)'
<1>1. \A j \in Job : (Busy(j, d)' <=> Busy(j, d)) /\ (Busy(j, d) => jobs'[j] = jobs[j])
  BY DEF Kept, Busy
<1>2. \A t \in Trader : Row(d, t)' <=> Row(d, t)
  BY DEF Kept, Row
<1>3. \A e \in before[d], t \in Trader : InSight(d, e, t)' => InSight(d, e, t)
  BY DEF InSight, Kept, Row
<1>4. runs'[d] = runs[d]
  BY DEF Kept
<1> QED  BY <1>1, <1>2, <1>3, <1>4 DEF Seen

LEMMA OtherDates ==
  ASSUME Types, Types', NEW x \in Date, KeptBut(x), today <= today',
         \A d \in Date : DateInv(d),
         runs[x] \in {"complete", "mixed"} => runs'[x] = "mixed",
         \A d \in Date \ {x} : History(d)' = History(d)
  PROVE  \A d \in Date \ {x} : DateInv(d)'
<1> SUFFICES ASSUME NEW d \in Date \ {x} PROVE DateInv(d)'
  OBVIOUS
<1>1. Kept(d) /\ DateInv(d) /\ before'[d] = before[d] /\ before[d] \in SUBSET Date
  BY DEF KeptBut, Types
<1>2. Paged(d)'
  BY <1>1, KeptPaged DEF DateInv
<1>3. Based(d)'
  <2> SUFFICES ASSUME NEW e \in before[d] PROVE runs'[e] \in {"complete", "mixed"}
    BY <1>1 DEF Based
  <2>1. runs[e] \in {"complete", "mixed"} /\ e \in Date
    BY <1>1 DEF DateInv, Based
  <2> QED  BY <2>1 DEF KeptBut, Kept
<1>4. Seen(d)'
  <2>1. \A e \in before[d] : runs'[e] = "complete" => Kept(e)
    BY <1>1 DEF KeptBut, DateInv, Based
  <2> QED  BY <1>1, <2>1, KeptSeen DEF DateInv
<1>5. Rated(d)'
  <2>1. CASE runs[d] = "none" \/ runs[d] = "mixed"
    BY <1>1, <2>1 DEF Rated, Kept
  <2>2. CASE runs[d] # "none"
    BY <1>1, <2>2, KeptRated DEF DateInv
  <2> QED  BY <2>1, <2>2
<1> QED  BY <1>2, <1>3, <1>4, <1>5 DEF DateInv

(* The date a run is at: it is open, or what is said of it is void.        *)
LEMMA BusyDate ==
  ASSUME Types, NEW j \in Job, NEW x \in Date, Busy(j, x), Paged(x)
  PROVE  /\ runs[x] \in {"open", "mixed"}
         /\ runs[x] = "open" => x <= today /\ \A i \in Job : Busy(i, x) => i = j
<1>1. runs[x] \in {"none", "open", "complete", "mixed"}
  BY DEF Types
<1> QED  BY <1>1 DEF Paged

LEMMA KeptBased ==
  ASSUME Types, NEW x \in Date, KeptBut(x), Based(x), before'[x] = before[x],
         runs[x] \in {"complete", "mixed"} => runs'[x] = "mixed"
  PROVE  Based(x)'
<1> SUFFICES ASSUME NEW e \in before[x] PROVE runs'[e] \in {"complete", "mixed"}
  BY DEF Based
<1>1. e \in Date /\ runs[e] \in {"complete", "mixed"}
  BY DEF Types, Based
<1> QED  BY <1>1 DEF KeptBut, Kept

LEMMA MixedDate ==
  ASSUME NEW x \in Date, runs'[x] = "mixed", Based(x)'
  PROVE  DateInv(x)'
BY DEF DateInv, Paged, Seen, Rated

LEMMA PagedOn ==
  ASSUME Types, NEW j \in Job, NEW x \in Date, Busy(j, x), Paged(x), OnlyJob(j),
         runs[x] = "open", runs'[x] = "open", today' = today,
         jobs'[j].pc = "assess" => \A t \in Trader : ~Row(x, t)'
  PROVE  Paged(x)'
<1>1. x <= today' /\ \A i \in Job : Busy(i, x) => i = j
  BY BusyDate
<1>2. \A i \in Job : Busy(i, x)' => i = j
  BY <1>1 DEF OnlyJob, Busy
<1> QED  BY <1>1, <1>2 DEF Paged

LEMMA SeenOn ==
  ASSUME Types, NEW j \in Job, NEW x \in Date, Busy(j, x), Paged(x), Seen(x), runs[x] = "open",
         KeptBut(x), before'[x] = before[x],
         \A t \in Trader : Row(x, t) \/ t \in Pending(jobs[j]) =>
           Row(x, t)' \/ (Busy(j, x)' /\ t \in Pending(jobs'[j]))
  PROVE  Seen(x)'
<1>1. ASSUME NEW e \in before[x], NEW t \in Trader, InSight(x, e, t)'
      PROVE  Row(x, t)' \/ \E i \in Job : Busy(i, x)' /\ t \in Pending(jobs'[i])
  <2>1. e \in Date \ {x}
    BY <1>1 DEF Types, InSight, Date
  <2>2. InSight(x, e, t)
    BY <1>1, <2>1 DEF KeptBut, Kept, InSight, Row
  <2>3. Row(x, t) \/ \E i \in Job : Busy(i, x) /\ t \in Pending(jobs[i])
    BY <2>2 DEF Seen
  <2>4. Row(x, t) \/ t \in Pending(jobs[j])
    BY <2>3, BusyDate
  <2> QED  BY <2>4
<1> QED  BY <1>1 DEF Seen

LEMMA SameHistory ==
  ASSUME known' = known, NEW d PROVE History(d)' = History(d)
BY DEF History

(* A run begins: the universe has everybody in sight.                      *)
LEMMA BeginDates ==
  ASSUME Types, Types', \A d \in Date : DateInv(d), NEW j \in Job, NEW x \in Date, Begin(j, x)
  PROVE  \A d \in Date : DateInv(d)'
<1>1. /\ jobs[j] = Idle /\ today' = today /\ known' = known /\ rows' = rows
      /\ runs' = [runs EXCEPT ![x] = IF @ = "none" /\ x <= today THEN "open" ELSE "mixed"]
      /\ before' = [before EXCEPT ![x] = {e \in Date : runs[e] = "complete"}]
  BY DEF Begin, Date
<1> DEFINE L == Universe(x)
<1>2. /\ OnlyJob(j) /\ jobs'[j].pc = "assess" /\ jobs'[j].date = x /\ jobs'[j].left = L
      /\ jobs'[j].snapshots = [t \in {} |-> 0]
  <2>1. OnlyJob(j) /\ jobs'[j] = [pc |-> "assess", date |-> x, left |-> L, pooled |-> pool,
                                  values |-> account, snapshots |-> [t \in {} |-> 0]]
    BY DEF Begin, Types, OnlyJob
  <2> HIDE DEF L
  <2> QED  BY <2>1
<1>3. runs'[x] = IF runs[x] = "none" /\ x <= today THEN "open" ELSE "mixed"
  BY <1>1 DEF Types
<1>4. KeptBut(x)
  <2>1. \A d \in Date \ {x} : runs'[d] = runs[d] /\ before'[d] = before[d]
    BY <1>1 DEF Types
  <2> QED  BY <1>1, <1>2, <2>1, RunKeeps
<1>5. \A d \in Date \ {x} : DateInv(d)'
  <2>1. today <= today'
    BY <1>1 DEF Types, Date
  <2>2. \A d \in Date : History(d)' = History(d)
    BY <1>1, SameHistory
  <2> QED  BY <1>3, <1>4, <2>1, <2>2, OtherDates
<1>6. before'[x] = {e \in Date : runs[e] = "complete"}
  BY <1>1 DEF Types
<1>7. Based(x)'
  <2> SUFFICES ASSUME NEW e \in Date, runs[e] = "complete"
               PROVE  runs'[e] \in {"complete", "mixed"}
    BY <1>6 DEF Based
  <2> QED  BY <1>3, <1>4 DEF KeptBut, Kept
<1>8. DateInv(x)'
  <2>1. CASE runs'[x] = "mixed"
    BY <1>7, <2>1, MixedDate
  <2>2. CASE runs'[x] = "open"
    <3>1. runs[x] = "none" /\ x <= today /\ Paged(x)
      BY <1>3, <2>2 DEF DateInv
    <3>2. (\A i \in Job : ~Busy(i, x)) /\ \A t \in Trader : ~Row(x, t)'
      BY <1>1, <3>1 DEF Paged, Row
    <3>3. \A i \in Job : Busy(i, x)' => i = j
      BY <1>2, <3>2 DEF OnlyJob, Busy
    <3>4. Paged(x)'
      BY <1>1, <2>2, <3>1, <3>2, <3>3 DEF Paged
    <3>5. Seen(x)'
      <4>1. ASSUME NEW e \in Date, NEW t \in Trader, InSight(x, e, t)' PROVE t \in L
        <5>1. e < x /\ <<e, t>> \in DOMAIN rows /\ rows[<<e, t>>].event # "death"
          BY <1>1, <4>1 DEF InSight, Row
        <5>2. PICK k : k = <<e, t>>
          OBVIOUS
        <5>3. k[1] = e /\ k[2] = t
          BY <5>2
        <5> QED  BY <5>1, <5>2, <5>3 DEF Universe, RowsOf
      <4>2. Busy(j, x)'
        <5>1. jobs'[j] # Idle
          BY <1>2 DEF Idle
        <5> QED  BY <1>2, <5>1 DEF Busy
      <4> HIDE DEF L
      <4>3. L \subseteq Pending(jobs'[j])
        BY <1>2 DEF Pending
      <4>4. \A e \in before'[x] : e \in Date
        BY <1>6
      <4> QED  BY <4>1, <4>2, <4>3, <4>4 DEF Seen
    <3>6. Rated(x)'
      <4>1. DOMAIN jobs'[j].snapshots = {}
        BY <1>2
      <4> QED  BY <1>2, <2>2, <3>3, <4>1 DEF Rated
    <3> QED  BY <1>7, <3>4, <3>5, <3>6 DEF DateInv
  <2> QED  BY <1>3, <2>1, <2>2
<1> QED  BY <1>5, <1>8

(* The snapshot made has the p-value the invariant asks for.               *)
LEMMA AssessDates ==
  ASSUME Types, Types', \A d \in Date : DateInv(d), NEW j \in Job, Assess(j)
  PROVE  \A d \in Date : DateInv(d)'
<1> PICK x : x = jobs[j].date
  OBVIOUS
<1>1. UNCHANGED <<today, rows, runs, before>>
  BY DEF Assess
<1>2. /\ Assessing(jobs[j]) /\ Assessing(jobs'[j]) /\ OnlyJob(j) /\ jobs'[j].date = x
      /\ x \in Date /\ jobs[j].pc = "assess" /\ jobs'[j].pc = "assess"
      /\ jobs[j] # Idle /\ jobs'[j] # Idle
  <2>1. Assessing(jobs[j]) /\ Assessing(jobs'[j]) /\ OnlyJob(j) /\ jobs'[j].date = x
    BY AssessMakes
  <2> QED  BY <2>1 DEF Assessing, Idle
<1>3. PICK t \in jobs[j].left :
        /\ jobs'[j].left = jobs[j].left \ {t}
        /\ jobs'[j].snapshots = Put(jobs[j].snapshots, t, Snapshot(j, t))
        /\ known' = [known EXCEPT ![x][t] = closed]
  BY AssessMakes
<1>4. KeptBut(x) /\ Busy(j, x) /\ Busy(j, x)'
  BY <1>1, <1>2, RunKeeps DEF Busy
<1>5. runs[x] \in {"open", "mixed"} /\ runs'[x] = runs[x] /\ before'[x] = before[x]
  BY <1>1, <1>2, <1>4, BusyDate DEF DateInv
<1>6. /\ \A d \in Date \ {x} : History(d)' = History(d)
      /\ \A u \in Trader :
           History(x)'[u] = IF u = t THEN ClosedBefore(t, x) ELSE History(x)[u]
  <2>1. \A d \in Date \ {x} : known'[d] = known[d]
    BY <1>2, <1>3 DEF Types
  <2>2. \A u \in Trader : known'[x][u] = IF u = t THEN closed ELSE known[x][u]
    BY <1>2, <1>3 DEF Types, Assessing
  <2>3. ASSUME NEW u \in Trader
        PROVE  History(x)'[u] = IF u = t THEN ClosedBefore(t, x) ELSE History(x)[u]
    BY <2>2 DEF History, ClosedBefore
  <2>4. \A d \in Date \ {x} : History(d)' = History(d)
    BY <2>1 DEF History
  <2> QED  BY <2>3, <2>4
<1>7. \A d \in Date \ {x} : DateInv(d)'
  <2>1. today <= today'
    BY <1>1 DEF Types, Date
  <2> QED  BY <1>2, <1>4, <1>5, <1>6, <2>1, OtherDates
<1>8. Based(x)'
  BY <1>2, <1>4, <1>5, KeptBased DEF DateInv
<1>9. DateInv(x)'
  <2>1. CASE runs[x] = "mixed"
    BY <1>2, <1>5, <1>8, <2>1, MixedDate
  <2>2. CASE runs[x] = "open"
    <3>1. (\A i \in Job : Busy(i, x) => i = j) /\ \A u \in Trader : ~Row(x, u)
      BY <1>2, <1>4, <2>2, BusyDate DEF DateInv, Paged
    <3>2. \A u \in Trader : Row(x, u)' <=> Row(x, u)
      BY <1>1 DEF Row
    <3>3. Paged(x)'
      BY <1>1, <1>2, <1>4, <1>5, <2>2, <3>1, <3>2, PagedOn DEF DateInv
    <3>4. DOMAIN jobs'[j].snapshots = DOMAIN jobs[j].snapshots \cup {t}
          /\ \A u \in DOMAIN jobs'[j].snapshots :
               jobs'[j].snapshots[u] = IF u = t THEN Snapshot(j, t) ELSE jobs[j].snapshots[u]
      BY <1>3 DEF Put
    <3>5. Pending(jobs'[j]) = Pending(jobs[j])
      BY <1>2, <1>3, <3>4 DEF Pending
    <3>6. Seen(x)'
      BY <1>2, <1>4, <1>5, <2>2, <3>2, <3>5, SeenOn DEF DateInv
    <3>7. Rated(x)'
      <4>1. \A i \in Job : Busy(i, x)' => i = j
        BY <1>2, <3>1 DEF OnlyJob, Busy
      <4>2. \A u \in DOMAIN jobs[j].snapshots : jobs[j].snapshots[u].p = Rate(History(x)[u])
        BY <1>2, <1>4, <2>2 DEF DateInv, Rated
      <4>3. Snapshot(j, t).p = Rate(ClosedBefore(t, x)) /\ t \in Trader
        <5>1. t \in Trader
          BY <1>2 DEF Assessing
        <5> QED  BY <1>2, <5>1, SnapshotShot
      <4>4. PICK h : h = History(x)'
        OBVIOUS
      <4>5. \A u \in DOMAIN jobs'[j].snapshots : jobs'[j].snapshots[u].p = Rate(h[u])
        <5>1. DOMAIN jobs[j].snapshots \in SUBSET Trader
          BY <1>2 DEF Assessing, AreShots
        <5>2. ASSUME NEW u \in Trader
              PROVE  h[u] = IF u = t THEN ClosedBefore(t, x) ELSE History(x)[u]
          BY <1>6, <4>4
        <5> QED  BY <3>4, <4>2, <4>3, <5>1, <5>2
      <4> QED  BY <1>2, <1>5, <2>2, <4>1, <4>4, <4>5 DEF Rated
    <3> QED  BY <1>8, <3>3, <3>6, <3>7 DEF DateInv
  <2> QED  BY <1>5, <2>1, <2>2
<1> QED  BY <1>7, <1>9

(* The selection finds the largest set.                                    *)
LEMMA QualifiedLargest ==
  ASSUME NEW h, NEW s, AreShots(s), \A t \in DOMAIN s : s[t].p = Rate(h[t]),
         \A t \in DOMAIN s : PValue(h[t]) \in Nat
  PROVE  Largest(h, DOMAIN s, Qualified(s))
<1> DEFINE S == Tested(h, DOMAIN s)
           p == [t \in S |-> s[t].p]
           Q == benjamini_hochberg_select(p)
<1>1. Entered(s) = S
  <2> SUFFICES ASSUME NEW t \in DOMAIN s
               PROVE  s[t].p # NoP <=> Cardinality(h[t]) >= SNAPSHOT_MIN_EPISODES
    BY DEF Entered, Tested
  <2> QED  BY DEF Rate, NoP
<1>2. IsFiniteSet(S)
  <2>1. S \in SUBSET Trader
    BY DEF AreShots, Tested
  <2> QED  BY <2>1, ShadowLedgerAssumption, FS_Subset
<1>3. \A t \in S : p[t] = PValue(h[t]) /\ p[t] \in Nat
  BY DEF Rate, Tested
<1>4. p \in [S -> Nat]
  BY <1>3
<1>5. Qualified(s) = Q
  BY <1>1 DEF Qualified
<1> HIDE DEF S, p
<1>6. /\ Q \subseteq S /\ Within(p, Q, Cardinality(S))
      /\ \A V \in SUBSET S : Within(p, V, Cardinality(S)) => Cardinality(V) <= Cardinality(Q)
  BY <1>2, <1>4, LargestWithin
<1> HIDE DEF Q
<1>7. \A V \in SUBSET S : Within(p, V, Cardinality(S)) <=> Controlled(h, V, Cardinality(S))
  BY <1>3 DEF Within, Controlled
<1>8. Q \in SUBSET S
  BY <1>6
<1> QED  BY <1>5, <1>6, <1>7, <1>8 DEF Largest, S

(* All are still to be written, and the qualified are marked.             *)
LEMMA SelectDates ==
  ASSUME Types, Types', \A d \in Date : DateInv(d), NEW j \in Job, Select(j)
  PROVE  \A d \in Date : DateInv(d)'
<1> PICK x : x = jobs[j].date
  OBVIOUS
<1>1. UNCHANGED <<today, known, rows, runs, before>>
  BY DEF Select
<1>2. /\ Assessing(jobs[j]) /\ Persisting(jobs'[j]) /\ OnlyJob(j) /\ jobs'[j].date = x
      /\ x \in Date /\ jobs[j].pc = "assess" /\ jobs'[j].pc = "persist" /\ jobs[j].left = {}
      /\ jobs[j] # Idle /\ jobs'[j] # Idle
  <2>1. /\ Assessing(jobs[j]) /\ Persisting(jobs'[j]) /\ OnlyJob(j) /\ jobs'[j].date = x
        /\ jobs[j].left = {}
    BY SelectMakes
  <2> QED  BY <2>1 DEF Assessing, Persisting, Idle
<1> PICK s : s = jobs[j].snapshots
  OBVIOUS
<1> PICK z : z = jobs'[j].snapshots
  OBVIOUS
<1>3. DOMAIN z = DOMAIN s /\ \A t \in DOMAIN s : z[t].fdr = (t \in Qualified(s))
  BY SelectMakes
<1>4. KeptBut(x) /\ Busy(j, x) /\ Busy(j, x)'
  BY <1>1, <1>2, RunKeeps DEF Busy
<1>5. runs[x] \in {"open", "mixed"} /\ runs'[x] = runs[x] /\ before'[x] = before[x]
  BY <1>1, <1>2, <1>4, BusyDate DEF DateInv
<1>6. \A d \in Date : History(d)' = History(d)
  BY <1>1, SameHistory
<1>7. \A d \in Date \ {x} : DateInv(d)'
  <2>1. today <= today'
    BY <1>1 DEF Types, Date
  <2> QED  BY <1>2, <1>4, <1>5, <1>6, <2>1, OtherDates
<1>8. Based(x)'
  BY <1>2, <1>4, <1>5, KeptBased DEF DateInv
<1>9. DateInv(x)'
  <2>1. CASE runs[x] = "mixed"
    BY <1>2, <1>5, <1>8, <2>1, MixedDate
  <2>2. CASE runs[x] = "open"
    <3>1. (\A i \in Job : Busy(i, x) => i = j) /\ \A u \in Trader : ~Row(x, u)
      BY <1>2, <1>4, <2>2, BusyDate DEF DateInv, Paged
    <3>2. \A u \in Trader : Row(x, u)' <=> Row(x, u)
      BY <1>1 DEF Row
    <3>3. Paged(x)'
      BY <1>1, <1>2, <1>4, <1>5, <2>2, <3>1, <3>2, PagedOn DEF DateInv
    <3>4. Pending(jobs'[j]) = Pending(jobs[j])
      BY <1>2, <1>3 DEF Pending
    <3>5. Seen(x)'
      BY <1>2, <1>4, <1>5, <2>2, <3>2, <3>4, SeenOn DEF DateInv
    <3>6. Rated(x)'
      <4>1. \A i \in Job : Busy(i, x)' => i = j
        BY <1>2, <3>1 DEF OnlyJob, Busy
      <4>2. PICK h : h = History(x) /\ h = History(x)'
        BY <1>2, <1>6
      <4>3. \A u \in DOMAIN s : s[u].p = Rate(h[u])
        BY <1>2, <1>4, <2>2, <4>2 DEF DateInv, Rated
      <4>4. AreShots(s) /\ DOMAIN s \in SUBSET Trader
        BY <1>2 DEF Assessing, AreShots
      <4>5. \A u \in DOMAIN s : PValue(h[u]) \in Nat
        <5> SUFFICES ASSUME NEW u \in DOMAIN s PROVE PValue(h[u]) \in Nat
          OBVIOUS
        <5>1. u \in Trader /\ h[u] = {e \in known[x][u] : e.trader = u /\ e.date < x}
          BY <4>2, <4>4 DEF History
        <5>2. known[x][u] \in SUBSET Episodes(Trader)
          BY <1>2, <5>1 DEF Types
        <5>3. h[u] \in SUBSET Episodes({u})
          BY <5>1, <5>2 DEF Episodes
        <5> QED  BY <5>1, <5>3, ShadowLedgerAssumption
      <4>6. Largest(h, DOMAIN s, Qualified(s))
        BY <4>3, <4>4, <4>5, QualifiedLargest
      <4>7. Shown(x, z)' = DOMAIN s
        BY <1>3, <3>1, <3>2, <4>4 DEF Shown
      <4>8. Qualified(s) \in SUBSET DOMAIN s
        BY <4>6 DEF Largest, Tested
      <4>9. Marked(x, z)' = Qualified(s)
        BY <1>3, <3>1, <3>2, <4>4, <4>8 DEF Marked
      <4>10. Largest(h, Shown(x, z)', Marked(x, z)')
        BY <4>6, <4>7, <4>9
      <4> HIDE DEF Largest
      <4> QED  BY <1>2, <1>5, <2>2, <4>1, <4>2, <4>10 DEF Rated
    <3> QED  BY <1>8, <3>3, <3>5, <3>6 DEF DateInv
  <2> QED  BY <1>5, <2>1, <2>2
<1> QED  BY <1>7, <1>9

(* A row moves from the run to the table.                                  *)
LEMMA PersistDates ==
  ASSUME Types, Types', \A d \in Date : DateInv(d), NEW j \in Job, Persist(j)
  PROVE  \A d \in Date : DateInv(d)'
<1> PICK x : x = jobs[j].date
  OBVIOUS
<1> PICK s : s = jobs[j].snapshots
  OBVIOUS
<1> PICK z : z = jobs'[j].snapshots
  OBVIOUS
<1>1. UNCHANGED <<today, known, before>>
  BY DEF Persist
<1>2. /\ Persisting(jobs[j]) /\ Persisting(jobs'[j]) /\ OnlyJob(j) /\ jobs'[j].date = x
      /\ x \in Date /\ jobs[j].pc = "persist" /\ jobs'[j].pc = "persist"
      /\ jobs[j] # Idle /\ jobs'[j] # Idle
  <2>1. Persisting(jobs[j]) /\ Persisting(jobs'[j]) /\ OnlyJob(j) /\ jobs'[j].date = x
    BY PersistMakes
  <2> QED  BY <2>1 DEF Persisting, Idle
<1>3. PICK t \in DOMAIN s :
        /\ z = [u \in DOMAIN s \ {t} |-> s[u]]
        /\ \/ rows' = Put(rows, <<x, t>>, s[t]) /\ runs' = runs
           \/ rows' = rows /\ runs' = [runs EXCEPT ![x] = "mixed"]
  BY PersistMakes
<1>4. DOMAIN s \in SUBSET Trader /\ t \in Trader /\ s[t] \in Shot
  BY <1>2 DEF Persisting, AreShots
<1>5. KeptBut(x) /\ Busy(j, x) /\ Busy(j, x)'
  <2>1. \A d \in Date \ {x} : runs'[d] = runs[d] /\ before'[d] = before[d]
    BY <1>1, <1>2, <1>3 DEF Types
  <2>2. rows' = rows \/ \E u \in Trader, v \in Shot : rows' = Put(rows, <<x, u>>, v)
    BY <1>3, <1>4
  <2> QED  BY <1>1, <1>2, <2>1, <2>2, RunKeeps DEF Busy
<1>6. /\ runs[x] \in {"open", "mixed"} /\ runs'[x] \in {runs[x], "mixed"}
      /\ before'[x] = before[x]
  BY <1>1, <1>2, <1>3, <1>5, BusyDate DEF DateInv, Types
<1>7. \A d \in Date : History(d)' = History(d)
  BY <1>1, SameHistory
<1>8. \A d \in Date \ {x} : DateInv(d)'
  <2>1. today <= today'
    BY <1>1 DEF Types, Date
  <2> QED  BY <1>2, <1>5, <1>6, <1>7, <2>1, OtherDates
<1>9. Based(x)'
  BY <1>2, <1>5, <1>6, KeptBased DEF DateInv
<1>10. DateInv(x)'
  <2>1. CASE runs'[x] = "mixed"
    BY <1>2, <1>9, <2>1, MixedDate
  <2>2. CASE runs'[x] # "mixed"
    <3>1. runs[x] = "open" /\ runs'[x] = "open" /\ rows' = Put(rows, <<x, t>>, s[t])
      <4>1. runs[x] = "open" /\ runs'[x] = "open"
        BY <1>6, <2>2
      <4>2. runs' # [runs EXCEPT ![x] = "mixed"]
        BY <1>2, <2>2 DEF Types
      <4> QED  BY <1>3, <4>1, <4>2
    <3>2. \A i \in Job : Busy(i, x) => i = j
      BY <1>2, <1>5, <3>1, BusyDate DEF DateInv
    <3>3. ASSUME NEW u \in Trader
          PROVE  /\ Row(x, u)' <=> Row(x, u) \/ u = t
                 /\ Row(x, u)' => rows'[<<x, u>>] = IF u = t THEN s[t] ELSE rows[<<x, u>>]
      <4>1. PICK k : k = <<x, t>>
        OBVIOUS
      <4>2. PICK m : m = <<x, u>>
        OBVIOUS
      <4>3. k = m <=> u = t
        BY <4>1, <4>2
      <4> QED  BY <3>1, <4>1, <4>2, <4>3 DEF Put, Row
    <3>4. Paged(x)'
      BY <1>1, <1>2, <1>5, <3>1, PagedOn DEF DateInv
    <3>5. Seen(x)'
      <4>1. ASSUME NEW u \in Trader, Row(x, u) \/ u \in Pending(jobs[j])
            PROVE  Row(x, u)' \/ (Busy(j, x)' /\ u \in Pending(jobs'[j]))
        <5>1. Pending(jobs[j]) = DOMAIN s /\ Pending(jobs'[j]) = DOMAIN s \ {t}
          BY <1>2, <1>3 DEF Pending
        <5> QED  BY <1>5, <3>3, <4>1, <5>1
      <4> QED  BY <1>2, <1>5, <1>6, <3>1, <4>1, SeenOn DEF DateInv
    <3>6. Rated(x)'
      <4>1. \A i \in Job : Busy(i, x)' => i = j
        BY <1>2, <3>2 DEF OnlyJob, Busy
      <4>2. PICK h : h = History(x) /\ h = History(x)'
        BY <1>2, <1>7
      <4>3. Largest(h, Shown(x, s), Marked(x, s))
        BY <1>2, <1>5, <3>1, <4>2 DEF DateInv, Rated
      <4>4. DOMAIN z = DOMAIN s \ {t} /\ \A u \in DOMAIN s \ {t} : z[u] = s[u]
        BY <1>3
      <4>5. Shown(x, z)' = Shown(x, s)
        BY <1>3, <3>3, <4>4 DEF Shown
      <4>6. Marked(x, z)' = Marked(x, s)
        BY <1>3, <3>3, <4>4 DEF Marked
      <4>7. Largest(h, Shown(x, z)', Marked(x, z)')
        BY <4>3, <4>5, <4>6
      <4> QED  BY <1>2, <3>1, <4>1, <4>2, <4>7 DEF Rated
    <3> QED  BY <1>9, <3>4, <3>5, <3>6 DEF DateInv
  <2> QED  BY <2>1, <2>2
<1> QED  BY <1>8, <1>10

(* Nothing is left to write: what held of both holds of the table.         *)
LEMMA EndDates ==
  ASSUME Types, Types', \A d \in Date : DateInv(d), NEW j \in Job, End(j)
  PROVE  \A d \in Date : DateInv(d)'
<1> PICK x : x = jobs[j].date
  OBVIOUS
<1>1. UNCHANGED <<today, known, rows, before>>
      /\ runs' = [runs EXCEPT ![x] = IF @ = "open" THEN "complete" ELSE @]
      /\ DOMAIN jobs[j].snapshots = {} /\ jobs[j].pc = "persist"
  BY DEF End
<1>2. OnlyJob(j) /\ jobs'[j] = Idle
  BY IdleMakes DEF End
<1>3. jobs[j] # Idle /\ x \in Date
  BY <1>1, JobKinds DEF Types, Idle, Persisting
<1>4. KeptBut(x) /\ Busy(j, x)
  <2>1. \A d \in Date \ {x} : runs'[d] = runs[d] /\ before'[d] = before[d]
    BY <1>1, <1>3 DEF Types
  <2> QED  BY <1>1, <1>2, <1>3, <2>1, RunKeeps DEF Busy
<1>5. /\ runs[x] \in {"open", "mixed"} /\ before'[x] = before[x]
      /\ runs'[x] = IF runs[x] = "open" THEN "complete" ELSE runs[x]
  BY <1>1, <1>3, <1>4, BusyDate DEF DateInv, Types
<1>6. \A d \in Date : History(d)' = History(d)
  BY <1>1, SameHistory
<1>7. \A d \in Date \ {x} : DateInv(d)'
  <2>1. today <= today'
    BY <1>1 DEF Types, Date
  <2> QED  BY <1>3, <1>4, <1>5, <1>6, <2>1, OtherDates
<1>8. Based(x)'
  BY <1>3, <1>4, <1>5, KeptBased DEF DateInv
<1>9. DateInv(x)'
  <2>1. CASE runs[x] = "mixed"
    BY <1>3, <1>5, <1>8, <2>1, MixedDate
  <2>2. CASE runs[x] = "open"
    <3>1. x <= today /\ \A i \in Job : Busy(i, x) => i = j
      BY <1>3, <1>4, <2>2, BusyDate DEF DateInv
    <3>2. \A i \in Job : ~Busy(i, x)'
      BY <1>2, <3>1 DEF OnlyJob, Busy
    <3>3. Paged(x)'
      BY <1>1, <1>5, <2>2, <3>1, <3>2 DEF Paged
    <3>4. Pending(jobs[j]) = {}
      BY <1>1 DEF Pending
    <3>5. Seen(x)'
      <4>1. \A u \in Trader : Row(x, u) \/ u \in Pending(jobs[j]) => Row(x, u)'
        BY <1>1, <3>4 DEF Row
      <4> QED  BY <1>3, <1>4, <1>5, <2>2, <4>1, SeenOn DEF DateInv
    <3>6. Rated(x)'
      <4>1. PICK h : h = History(x) /\ h = History(x)'
        BY <1>3, <1>6
      <4> PICK s : s = jobs[j].snapshots
        OBVIOUS
      <4>2. Largest(h, Shown(x, s), Marked(x, s))
        BY <1>1, <1>3, <1>4, <2>2, <4>1 DEF DateInv, Rated
      <4>3. Shown(x, Nothing)' = Shown(x, s) /\ Marked(x, Nothing)' = Marked(x, s)
        BY <1>1 DEF Shown, Marked, Row, Nothing
      <4>4. Largest(h, Shown(x, Nothing)', Marked(x, Nothing)')
        BY <4>2, <4>3
      <4> QED  BY <1>5, <2>2, <4>1, <4>4 DEF Rated
    <3> QED  BY <1>8, <3>3, <3>5, <3>6 DEF DateInv
  <2> QED  BY <1>5, <2>1, <2>2
<1> QED  BY <1>7, <1>9

(* A run cut short voids its date.                                         *)
LEMMA BreakDates ==
  ASSUME Types, Types', \A d \in Date : DateInv(d), NEW j \in Job, Break(j)
  PROVE  \A d \in Date : DateInv(d)'
<1> PICK x : x = jobs[j].date
  OBVIOUS
<1>1. UNCHANGED <<today, known, rows, before>> /\ runs' = [runs EXCEPT ![x] = "mixed"]
      /\ jobs[j] # Idle
  BY DEF Break
<1>2. OnlyJob(j) /\ jobs'[j] = Idle
  BY IdleMakes DEF Break
<1>3. x \in Date
  BY <1>1 DEF Types, Assessing, Persisting
<1>4. KeptBut(x)
  <2>1. \A d \in Date \ {x} : runs'[d] = runs[d] /\ before'[d] = before[d]
    BY <1>1, <1>3 DEF Types
  <2> QED  BY <1>1, <1>2, <1>3, <2>1, RunKeeps
<1>5. runs'[x] = "mixed" /\ before'[x] = before[x]
  BY <1>1, <1>3 DEF Types
<1>6. \A d \in Date : History(d)' = History(d)
  BY <1>1, SameHistory
<1>7. \A d \in Date \ {x} : DateInv(d)'
  <2>1. today <= today'
    BY <1>1 DEF Types, Date
  <2> QED  BY <1>3, <1>4, <1>5, <1>6, <2>1, OtherDates
<1>8. Based(x)'
  BY <1>3, <1>4, <1>5, KeptBased DEF DateInv
<1>9. DateInv(x)'
  BY <1>3, <1>5, <1>8, MixedDate
<1> QED  BY <1>7, <1>9

(* What is not a step of a run leaves the dates up to today as they are.   *)
LEMMA WorldDates ==
  ASSUME Types, Types', \A d \in Date : DateInv(d),
         UNCHANGED <<rows, jobs, runs, before, known>>, today <= today'
  PROVE  \A d \in Date : DateInv(d)'
<1> SUFFICES ASSUME NEW d \in Date PROVE DateInv(d)'
  OBVIOUS
<1>1. \A e \in Date : Kept(e) /\ before'[e] = before[e]
  BY DEF Kept, Busy
<1>2. Paged(d)'
  BY <1>1, KeptPaged DEF DateInv
<1>3. Based(d)'
  BY DEF DateInv, Based
<1>4. Seen(d)'
  <2>1. before[d] \in SUBSET Date
    BY DEF Types
  <2> QED  BY <1>1, <2>1, KeptSeen DEF DateInv
<1>5. Rated(d)'
  <2>1. History(d)' = History(d)
    BY SameHistory
  <2> QED  BY <1>1, <2>1, KeptRated DEF DateInv
<1> QED  BY <1>2, <1>3, <1>4, <1>5 DEF DateInv

LEMMA LedgerInitially == Init => LedgerInv
<1> SUFFICES ASSUME Init PROVE \A d \in Date : DateInv(d)
  BY TypesInitially DEF LedgerInv
<1>1. /\ runs = [d \in Date |-> "none"] /\ before = [d \in Date |-> {}]
      /\ rows = [k \in {} |-> 0] /\ jobs = [j \in Job |-> Idle]
  BY DEF Init, Date
<1> QED  BY <1>1 DEF DateInv, Paged, Based, Seen, Rated, Busy, Row

LEMMA LedgerStep == LedgerInv /\ [Next]_vars => LedgerInv'
<1> SUFFICES ASSUME LedgerInv, [Next]_vars PROVE LedgerInv'
  OBVIOUS
<1>1. Types /\ Types' /\ (\A d \in Date : DateInv(d)) /\ today \in Nat
  BY TypesStep DEF LedgerInv, Types, Date
<1> SUFFICES \A d \in Date : DateInv(d)'
  BY <1>1 DEF LedgerInv
<1>2. CASE Daily
  <2>1. Begin("daily", today) /\ "daily" \in Job /\ today \in Date
    BY <1>1, <1>2 DEF Daily, Job, Types
  <2> QED  BY <1>1, <2>1, BeginDates
<1>3. CASE Request
  <2>1. "request" \in Job /\ \E d \in Date : Begin("request", d)
    BY <1>3 DEF Request, Date, Job
  <2> QED  BY <1>1, <2>1, BeginDates
<1>4. CASE NextDay
  <2>1. UNCHANGED <<rows, jobs, runs, before, known>> /\ today <= today'
    BY <1>1, <1>4 DEF NextDay
  <2> QED  BY <1>1, <2>1, WorldDates
<1>5. CASE Close
  <2>1. UNCHANGED <<rows, jobs, runs, before, known>> /\ today <= today'
    BY <1>1, <1>5 DEF Close
  <2> QED  BY <1>1, <2>1, WorldDates
<1>6. CASE Move
  <2>1. UNCHANGED <<rows, jobs, runs, before, known>> /\ today <= today'
    BY <1>1, <1>6 DEF Move
  <2> QED  BY <1>1, <2>1, WorldDates
<1>7. CASE UNCHANGED vars
  <2>1. UNCHANGED <<rows, jobs, runs, before, known>> /\ today <= today'
    BY <1>1, <1>7 DEF vars
  <2> QED  BY <1>1, <2>1, WorldDates
<1>8. ASSUME NEW j \in Job, Assess(j) \/ Select(j) \/ Persist(j) \/ End(j) \/ Break(j)
      PROVE  \A d \in Date : DateInv(d)'
  BY <1>1, <1>8, AssessDates, SelectDates, PersistDates, EndDates, BreakDates
<1> QED  BY <1>2, <1>3, <1>4, <1>5, <1>6, <1>7, <1>8 DEF Next

(* No run, in any order with another and with the changes of the world,    *)
(* breaks what the runs of the other dates have made sure of.              *)
THEOREM LedgerInvariance == Spec => []LedgerInv
<1>1. Init => LedgerInv
  BY LedgerInitially
<1>2. LedgerInv /\ [Next]_vars => LedgerInv'
  BY LedgerStep
<1> QED  BY <1>1, <1>2, PTL DEF Spec

(* Nobody drops out of sight: a trader with a row that is no death has one *)
(* on every later date written whole (create_daily_snapshot's universe,    *)
(* snapshot.py:5-6).                                                       *)
THEOREM NobodyVanishes == Spec => []NoSurvivorshipBias
<1>1. LedgerInv => NoSurvivorshipBias
  <2> SUFFICES ASSUME LedgerInv, NEW d \in Date, NEW t \in Trader, runs[d] = "complete",
                      NEW e \in before[d], e < d, runs[e] = "complete", Row(e, t),
                      rows[<<e, t>>].event # "death"
               PROVE  Row(d, t)
    BY DEF NoSurvivorshipBias, Date
  <2>1. \A j \in Job : ~Busy(j, d)
    BY DEF LedgerInv, DateInv, Paged
  <2>2. InSight(d, e, t)
    BY DEF InSight
  <2> QED  BY <2>1, <2>2 DEF LedgerInv, DateInv, Seen
<1> QED  BY <1>1, LedgerInvariance, PTL

(* The qualified of a date are the largest set within its share of alpha,  *)
(* by the episodes closed before the date that were recorded when the run  *)
(* read each trader's (benjamini_hochberg_select, get_trader_r_values).    *)
THEOREM RateControlled == Spec => []FDRControlled
<1>1. LedgerInv => FDRControlled
  <2> SUFFICES ASSUME LedgerInv PROVE FDRControlled
    OBVIOUS
  <2> DEFINE Reference(t, d) == {e \in known[d][t] : e.trader = t /\ e.date < d}
  <2>1. ASSUME NEW d \in Date, runs[d] = "complete"
        PROVE  LET tested == {t \in Trader : Row(d, t)
                                  /\ Cardinality(Reference(t, d)) >= SNAPSHOT_MIN_EPISODES}
                   controlled(S) == \A t \in S :
                     PValue(Reference(t, d)) * Cardinality(tested)
                       <= Cardinality(S) * SNAPSHOT_FDR_ALPHA
                   qualified == {t \in Trader : Row(d, t) /\ rows[<<d, t>>].fdr}
               IN  /\ qualified \subseteq tested /\ controlled(qualified)
                   /\ \A S \in SUBSET tested :
                        controlled(S) => Cardinality(S) <= Cardinality(qualified)
    <3> DEFINE h == History(d)
               U == Shown(d, Nothing)
               Q == Marked(d, Nothing)
               tested == {t \in Trader : Row(d, t)
                             /\ Cardinality(Reference(t, d)) >= SNAPSHOT_MIN_EPISODES}
    <3>1. Largest(h, U, Q)
      BY <2>1 DEF LedgerInv, DateInv, Rated
    <3>2. \A t \in Trader : h[t] = Reference(t, d)
      BY DEF History
    <3> HIDE DEF h
    <3>3. Tested(h, U) = tested
      BY <3>2 DEF Tested, Shown, Nothing
    <3>4. Q = {t \in Trader : Row(d, t) /\ rows[<<d, t>>].fdr}
      BY DEF Marked, Nothing
    <3> HIDE DEF U, Q
    <3> DEFINE controlled(S) == \A t \in S :
                 PValue(Reference(t, d)) * Cardinality(tested)
                   <= Cardinality(S) * SNAPSHOT_FDR_ALPHA
    <3>5. \A S \in SUBSET Trader : Controlled(h, S, Cardinality(tested)) <=> controlled(S)
      BY <3>2 DEF Controlled
    <3>6. tested \in SUBSET Trader
      OBVIOUS
    <3> HIDE DEF tested, controlled
    <3>7. /\ Q \subseteq tested /\ controlled(Q)
          /\ \A S \in SUBSET tested : controlled(S) => Cardinality(S) <= Cardinality(Q)
      <4>1. Q \in SUBSET Trader /\ \A S \in SUBSET tested : S \in SUBSET Trader
        BY <3>1, <3>3, <3>6 DEF Largest
      <4> QED  BY <3>1, <3>3, <3>5, <4>1 DEF Largest
    <3> USE DEF tested, controlled
    <3> QED  BY <3>4, <3>7, Zenon
  <2> QED  BY <2>1, Zenon DEF FDRControlled, Date
<1> QED  BY <1>1, LedgerInvariance, PTL
=============================================================================
