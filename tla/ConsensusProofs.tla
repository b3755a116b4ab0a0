-------------------------- MODULE ConsensusProofs --------------------------
(***************************************************************************)
(* Proofs about Consensus, for every set of traders, every history of      *)
(* fills, restarts, failures and correlation runs, and every move of the   *)
(* market: no signal rests on a guessed volatility, a signal is sure       *)
(* enough for a regime the market was in, and clones never signal.         *)
(*                                                                         *)
(* The sums of weights are folds over sets of votes.  SumOf says what a    *)
(* fold is, as a function on the subsets of the set; SumExists that there  *)
(* is one, and SumScaled that a constant factor can be taken out.          *)
(***************************************************************************)
EXTENDS Consensus, FiniteSetTheorems, WellFoundedInduction, TLAPS

HandlerInv ==
  handler.pc # "idle" => phase = "up" /\ atr.valid

(* The stop of a process that is up comes from data, or is marked invalid. *)
VolatilityInv ==
  phase = "up" /\ ATR_STRICT_MODE /\ atr.valid =>
    atr.source \in {"db", "calculated", "realized_vol"}

TimeInv ==
  /\ now \in Nat /\ view \in Views
  /\ lastHeld \in [Views \cup {NoCandles} -> {Never} \cup 0 .. now]

(* The cached regime is that of a view that still was the market's, or     *)
(* could not be read, when it was cached.                                  *)
CacheInv ==
  cache # NoCache =>
    /\ cache.at \in Int
    /\ \E v \in DOMAIN lastHeld :
         RegimeOf(v) = cache.regime /\ lastHeld[v] # Never /\ cache.at <= lastHeld[v]

(* The detector knows every pair the provider has loaded, at the value it  *)
(* was loaded with.                                                        *)
MatrixInv == \A p \in DOMAIN loaded : p \in DOMAIN matrix /\ matrix[p] = loaded[p]

PositionInv == position \in [Trader -> {NoPosition} \cup Episodes(Nat)]

CInv ==
  HandlerInv /\ VolatilityInv /\ TimeInv /\ CacheInv /\ MatrixInv /\ PositionInv

--------------------------------------------------------------------------
(* A set of natural numbers has a least member.                            *)
LEMMA LeastNat ==
  ASSUME NEW T \in SUBSET Nat, T # {}
  PROVE  \E n \in T : \A m \in T : n <= m
<1> DEFINE R == {mn \in Nat \X Nat : mn[1] < mn[2]}
<1>1. IsWellFoundedOn(R, Nat)
  BY NatLessThanWellFounded DEF OpToRel
<1> HIDE DEF R
<1>2. PICK n \in T : \A m \in T : ~(<<m, n>> \in R)
  BY <1>1, WFMin
<1>3. ASSUME NEW m \in T PROVE n <= m
  <2>1. <<m, n>> \in R <=> m < n
    BY DEF R
  <2> QED  BY <1>2, <2>1
<1> QED  BY <1>3

(* g[s] adds up F over the members of s, for every subset s of S.          *)
SumOf(g, F, S) ==
  g = [s \in SUBSET S |->
         IF s = {} THEN 0
         ELSE F[CHOOSE x \in s : TRUE] + g[s \ {CHOOSE x \in s : TRUE}]]

(* The sums over the subsets of at most n members.                         *)
UpTo(n, S) == {s \in SUBSET S : Cardinality(s) <= n}
SumUpTo(g, n, F, S) ==
  g = [s \in UpTo(n, S) |->
         IF s = {} THEN 0
         ELSE F[CHOOSE x \in s : TRUE] + g[s \ {CHOOSE x \in s : TRUE}]]

LEMMA Smaller ==
  ASSUME NEW S, IsFiniteSet(S), NEW s \in SUBSET S, s # {}
  PROVE  /\ (CHOOSE x \in s : TRUE) \in s
         /\ s \ {CHOOSE x \in s : TRUE} \in SUBSET S
         /\ Cardinality(s) \in Nat
         /\ Cardinality(s \ {CHOOSE x \in s : TRUE}) = Cardinality(s) - 1
<1>1. IsFiniteSet(s)
  BY FS_Subset
<1>2. (CHOOSE x \in s : TRUE) \in s
  OBVIOUS
<1> QED  BY <1>1, <1>2, FS_RemoveElement, FS_CardinalityType

LEMMA SumGrows ==
  ASSUME NEW S, IsFiniteSet(S), NEW F, NEW n \in Nat, NEW g, SumUpTo(g, n, F, S)
  PROVE  \E h : SumUpTo(h, n + 1, F, S)
<1> DEFINE h == [s \in UpTo(n + 1, S) |->
                   IF s = {} THEN 0
                   ELSE F[CHOOSE x \in s : TRUE] + g[s \ {CHOOSE x \in s : TRUE}]]
<1>1. ASSUME NEW s \in UpTo(n, S)  PROVE h[s] = g[s]
  <2>1. s \in UpTo(n + 1, S)
    <3>1. Cardinality(s) \in Nat
      BY FS_Subset, FS_CardinalityType DEF UpTo
    <3> QED  BY <3>1 DEF UpTo
  <2>2. g[s] = IF s = {} THEN 0
               ELSE F[CHOOSE x \in s : TRUE] + g[s \ {CHOOSE x \in s : TRUE}]
    BY DEF SumUpTo
  <2> QED  BY <2>1, <2>2
<1>2. ASSUME NEW s \in UpTo(n + 1, S), s # {}
      PROVE  s \ {CHOOSE x \in s : TRUE} \in UpTo(n, S)
  <2>1. s \in SUBSET S /\ Cardinality(s) <= n + 1
    BY DEF UpTo
  <2> QED  BY <2>1, <1>2, Smaller DEF UpTo
<1>3. h = [s \in UpTo(n + 1, S) |->
             IF s = {} THEN 0
             ELSE F[CHOOSE x \in s : TRUE] + h[s \ {CHOOSE x \in s : TRUE}]]
  <2>1. ASSUME NEW s \in UpTo(n + 1, S)
        PROVE  h[s] = IF s = {} THEN 0
                      ELSE F[CHOOSE x \in s : TRUE] + h[s \ {CHOOSE x \in s : TRUE}]
    <3>1. CASE s = {}
      BY <3>1
    <3>2. CASE s # {}
      <4>1. h[s \ {CHOOSE x \in s : TRUE}] = g[s \ {CHOOSE x \in s : TRUE}]
        BY <3>2, <1>1, <1>2
      <4> QED  BY <3>2, <4>1
    <3> QED  BY <3>1, <3>2
  <2> QED  BY <2>1
<1> HIDE DEF h
<1> QED  BY <1>3 DEF SumUpTo

(* There is a sum over every finite set.                                   *)
LEMMA SumExists ==
  ASSUME NEW S, IsFiniteSet(S), NEW F
  PROVE  \E g : SumOf(g, F, S)
<1> DEFINE Bad == {n \in Nat : ~ \E g : SumUpTo(g, n, F, S)}
<1>1. Bad = {}
  <2>1. SUFFICES ASSUME Bad # {} PROVE FALSE
    OBVIOUS
  <2>2. PICK n \in Bad : \A m \in Bad : n <= m
    BY <2>1, LeastNat
  <2>3. n # 0
    <3> DEFINE zero == [s \in UpTo(0, S) |-> 0]
    <3>1. \A s \in UpTo(0, S) : s = {}
      BY FS_Subset, FS_EmptySet, FS_CardinalityType DEF UpTo
    <3>2. zero = [s \in UpTo(0, S) |->
                    IF s = {} THEN 0
                    ELSE F[CHOOSE x \in s : TRUE] + zero[s \ {CHOOSE x \in s : TRUE}]]
      BY <3>1
    <3> HIDE DEF zero
    <3>3. SumUpTo(zero, 0, F, S)
      BY <3>2 DEF SumUpTo
    <3> QED  BY <3>3
  <2>4. n - 1 \in Nat /\ n - 1 \notin Bad /\ (n - 1) + 1 = n
    BY <2>2, <2>3
  <2>5. PICK g : SumUpTo(g, n - 1, F, S)
    BY <2>4
  <2>6. \E h : SumUpTo(h, n, F, S)
    BY <2>4, <2>5, SumGrows
  <2> QED  BY <2>2, <2>6
<1>2. Cardinality(S) \in Nat
  BY FS_CardinalityType
<1>3. PICK g : SumUpTo(g, Cardinality(S), F, S)
  BY <1>1, <1>2
<1>4. UpTo(Cardinality(S), S) = SUBSET S
  BY FS_Subset DEF UpTo
<1> QED  BY <1>3, <1>4 DEF SumUpTo, SumOf

(* A constant factor can be taken out of a sum of integers.                *)
LEMMA SumScaled ==
  ASSUME NEW S, IsFiniteSet(S), NEW F, NEW G, NEW f, NEW g, NEW c \in Int,
         SumOf(f, F, S), SumOf(g, G, S),
         \A x \in S : G[x] \in Int /\ F[x] = c * G[x]
  PROVE  g[S] \in Int /\ f[S] = c * g[S]
<1> DEFINE Good(s) == g[s] \in Int /\ f[s] = c * g[s]
           Bad == {s \in SUBSET S : ~Good(s)}
           Sizes == {Cardinality(s) : s \in Bad}
<1>1. SUFFICES ASSUME Bad # {} PROVE FALSE
  OBVIOUS
<1>2. Sizes \subseteq Nat /\ Sizes # {}
  BY <1>1, FS_Subset, FS_CardinalityType
<1>3. PICK s \in Bad : \A t \in Bad : Cardinality(s) <= Cardinality(t)
  <2>1. PICK n \in Sizes : \A m \in Sizes : n <= m
    BY <1>2, LeastNat
  <2> HIDE DEF Bad
  <2> QED  BY <2>1
<1>4. /\ f[s] = IF s = {} THEN 0
                ELSE F[CHOOSE x \in s : TRUE] + f[s \ {CHOOSE x \in s : TRUE}]
      /\ g[s] = IF s = {} THEN 0
                ELSE G[CHOOSE x \in s : TRUE] + g[s \ {CHOOSE x \in s : TRUE}]
  BY <1>3 DEF SumOf
<1>5. s # {}
  BY <1>3, <1>4
<1> DEFINE e == CHOOSE x \in s : TRUE
           r == s \ {e}
<1>6. e \in S /\ r \in SUBSET S /\ Cardinality(r) < Cardinality(s)
  BY <1>3, <1>5, Smaller
<1>7. Good(r)
  <2>1. Cardinality(s) \in Nat /\ Cardinality(r) \in Nat
    BY <1>3, <1>6, <1>2, FS_Subset, FS_CardinalityType
  <2> QED  BY <1>3, <1>6, <2>1
<1>8. f[s] = F[e] + f[r] /\ g[s] = G[e] + g[r]
  BY <1>4, <1>5
<1>9. G[e] \in Int /\ F[e] = c * G[e]
  BY <1>6
<1> HIDE DEF e, r
<1>10. f[s] = c * G[e] + c * g[r] /\ g[s] = G[e] + g[r] /\ G[e] \in Int /\ g[r] \in Int
  BY <1>7, <1>8, <1>9
<1>11. c * G[e] + c * g[r] = c * (G[e] + g[r])
  BY <1>10
<1>12. Good(s)
  BY <1>10, <1>11
<1> QED  BY <1>3, <1>12

Sum(F, S) == (CHOOSE g : SumOf(g, F, S))[S]

LEMMA SumTimes ==
  ASSUME NEW S, IsFiniteSet(S), NEW F, NEW G, NEW c \in Int,
         \A x \in S : G[x] \in Int /\ F[x] = c * G[x]
  PROVE  Sum(G, S) \in Int /\ Sum(F, S) = c * Sum(G, S)
<1> DEFINE f == CHOOSE h : SumOf(h, F, S)
           g == CHOOSE h : SumOf(h, G, S)
<1>1. SumOf(f, F, S) /\ SumOf(g, G, S)
  BY SumExists
<1> HIDE DEF f, g
<1>2. g[S] \in Int /\ f[S] = c * g[S]
  BY <1>1, SumScaled
<1> QED  BY <1>2 DEF Sum, f, g

LEMMA SumIsInt ==
  ASSUME NEW S, IsFiniteSet(S), NEW G, \A x \in S : G[x] \in Int
  PROVE  Sum(G, S) \in Int
<1>1. PICK c \in Int : TRUE
  OBVIOUS
<1> DEFINE Z == [x \in S |-> c * G[x]]
<1>2. \A x \in S : G[x] \in Int /\ Z[x] = c * G[x]
  OBVIOUS
<1> HIDE DEF Z
<1>3. Sum(G, S) \in Int /\ Sum(Z, S) = c * Sum(G, S)
  BY <1>2, SumTimes
<1> QED  BY <1>3

(* The sums of the model; those of eff_k_from_corr have no name in it.     *)
WeightedBy(a, votes, m, r) ==
  MapThenSumSet(LAMBDA b : a.weight * b.weight * Rho(m, r, a.address, b.address), votes)
Weighted(votes, m, r) == MapThenSumSet(LAMBDA a : WeightedBy(a, votes, m, r), votes)

LEMMA TotalWeightSum ==
  ASSUME NEW votes
  PROVE  TotalWeight(votes) = Sum([v \in votes |-> v.weight], votes)
<1> DEFINE F == [v \in votes |-> v.weight]
           step(g) == [s \in SUBSET votes |->
                         IF s = {} THEN 0
                         ELSE LET x == CHOOSE x \in s : TRUE IN x.weight + g[s \ {x}]]
<1>1. ASSUME NEW g PROVE SumOf(g, F, votes) <=> g = step(g)
  <2>1. \A s \in SUBSET votes : s # {} => F[CHOOSE x \in s : TRUE] = (CHOOSE x \in s : TRUE).weight
    OBVIOUS
  <2> QED  BY <2>1 DEF SumOf
<1>2. TotalWeight(votes) = (CHOOSE g : g = step(g))[votes]
  BY DEF TotalWeight, MapThenSumSet, MapThenFoldSet
<1> HIDE DEF step, F
<1>3. TotalWeight(votes) = Sum(F, votes)
  BY <1>1, <1>2 DEF Sum
<1> QED  BY <1>3 DEF F

LEMMA WeightedBySum ==
  ASSUME NEW a, NEW votes, NEW m, NEW r
  PROVE  WeightedBy(a, votes, m, r) =
           Sum([b \in votes |-> a.weight * b.weight * Rho(m, r, a.address, b.address)], votes)
<1> DEFINE F == [b \in votes |-> a.weight * b.weight * Rho(m, r, a.address, b.address)]
           term(b) == a.weight * b.weight * Rho(m, r, a.address, b.address)
           step(g) == [s \in SUBSET votes |->
                         IF s = {} THEN 0
                         ELSE LET x == CHOOSE x \in s : TRUE IN term(x) + g[s \ {x}]]
<1>1. ASSUME NEW g PROVE SumOf(g, F, votes) <=> g = step(g)
  <2>1. \A s \in SUBSET votes : s # {} => F[CHOOSE x \in s : TRUE] = term(CHOOSE x \in s : TRUE)
    OBVIOUS
  <2> HIDE DEF F, term
  <2> QED  BY <2>1 DEF SumOf
<1>2. WeightedBy(a, votes, m, r) = (CHOOSE g : g = step(g))[votes]
  BY DEF WeightedBy, MapThenSumSet, MapThenFoldSet
<1> HIDE DEF step, F
<1>3. WeightedBy(a, votes, m, r) = Sum(F, votes)
  BY <1>1, <1>2 DEF Sum
<1> QED  BY <1>3 DEF F

LEMMA WeightedSum ==
  ASSUME NEW votes, NEW m, NEW r
  PROVE  Weighted(votes, m, r) = Sum([a \in votes |-> WeightedBy(a, votes, m, r)], votes)
<1> DEFINE F == [a \in votes |-> WeightedBy(a, votes, m, r)]
           step(g) == [s \in SUBSET votes |->
                         IF s = {} THEN 0
                         ELSE LET x == CHOOSE x \in s : TRUE
                              IN  WeightedBy(x, votes, m, r) + g[s \ {x}]]
<1>1. ASSUME NEW g PROVE SumOf(g, F, votes) <=> g = step(g)
  <2>1. \A s \in SUBSET votes : s # {} =>
          F[CHOOSE x \in s : TRUE] = WeightedBy(CHOOSE x \in s : TRUE, votes, m, r)
    OBVIOUS
  <2> HIDE DEF F
  <2> QED  BY <2>1 DEF SumOf
<1>2. Weighted(votes, m, r) = (CHOOSE g : g = step(g))[votes]
  BY DEF Weighted, MapThenSumSet, MapThenFoldSet
<1> HIDE DEF step, F
<1>3. Weighted(votes, m, r) = Sum(F, votes)
  BY <1>1, <1>2 DEF Sum
<1> QED  BY <1>3 DEF F

LEMMA EffKWeighted ==
  ASSUME NEW votes, NEW m, NEW exchange
  PROVE  eff_k_from_corr(votes, m, exchange) =
           IF Cardinality(votes) <= 1 THEN 100 * Cardinality(votes)
           ELSE (100 * 100 * TotalWeight(votes) * TotalWeight(votes))
                  \div Max({Weighted(votes, m, DefaultRho(exchange)), 1})
BY Zenon DEF eff_k_from_corr, Weighted, WeightedBy

LEMMA Hundredfold ==
  ASSUME NEW q \in Nat
  PROVE  (10000 * q) \div Max({100 * q, 1}) \in 0 .. 100
<1>1. CASE q = 0
  <2>1. Max({100 * q, 1}) = 1
    BY <1>1 DEF Max
  <2> QED  BY <1>1, <2>1
<1>2. CASE q # 0
  <2>1. 100 * q \in Nat \ {0} /\ 100 * q >= 1
    BY <1>2
  <2>2. Max({100 * q, 1}) = 100 * q
    BY <2>1 DEF Max
  <2>3. PICK p \in Nat \ {0} : p = 100 * q
    BY <2>1
  <2>4. 10000 * q = 100 * p
    BY <2>3
  <2>5. (100 * p) \div p = 100
    BY <2>3
  <2> QED  BY <2>2, <2>3, <2>4, <2>5
<1> QED  BY <1>1, <1>2

(* Voters that are all fully correlated count for one at most.             *)
LEMMA ClonesCountForOne ==
  ASSUME NEW votes, IsFiniteSet(votes), \A v \in votes : v.weight \in Nat,
         NEW m, NEW exchange,
         \A a, b \in votes : Rho(m, DefaultRho(exchange), a.address, b.address) = 100
  PROVE  eff_k_from_corr(votes, m, exchange) \in 0 .. 100
<1> DEFINE r == DefaultRho(exchange)
           W == [v \in votes |-> v.weight]
           T == TotalWeight(votes)
<1>1. T \in Int
  <2>1. \A v \in votes : W[v] \in Int
    OBVIOUS
  <2>2. Sum(W, votes) \in Int
    BY <2>1, SumIsInt
  <2> QED  BY <2>2, TotalWeightSum DEF W
<1>2. ASSUME NEW a \in votes PROVE WeightedBy(a, votes, m, r) = (100 * T) * a.weight
  <2> DEFINE F == [b \in votes |-> a.weight * b.weight * Rho(m, r, a.address, b.address)]
  <2>1. a.weight \in Int
    OBVIOUS
  <2>2. ASSUME NEW b \in votes PROVE F[b] = (100 * a.weight) * W[b] /\ W[b] \in Int
    <3>1. F[b] = a.weight * b.weight * 100 /\ W[b] = b.weight
      OBVIOUS
    <3>2. b.weight \in Int
      OBVIOUS
    <3> QED  BY <2>1, <3>1, <3>2
  <2>3. 100 * a.weight \in Int
    BY <2>1
  <2>4. WeightedBy(a, votes, m, r) = Sum(F, votes)
    BY WeightedBySum
  <2>5. T = Sum(W, votes)
    BY TotalWeightSum
  <2> HIDE DEF F, W, T, r
  <2>6. Sum(F, votes) = (100 * a.weight) * Sum(W, votes)
    BY <2>2, <2>3, SumTimes
  <2> QED  BY <1>1, <2>1, <2>4, <2>5, <2>6
<1>3. Weighted(votes, m, r) = (100 * T) * T
  <2> DEFINE F == [a \in votes |-> WeightedBy(a, votes, m, r)]
  <2>1. \A a \in votes : W[a] \in Int /\ F[a] = (100 * T) * W[a]
    BY <1>2
  <2>2. Weighted(votes, m, r) = Sum(F, votes)
    BY WeightedSum
  <2>3. T = Sum(W, votes)
    BY TotalWeightSum
  <2>4. 100 * T \in Int
    BY <1>1
  <2> HIDE DEF F, W, T, r
  <2>5. Sum(F, votes) = (100 * T) * Sum(W, votes)
    BY <2>1, <2>4, SumTimes
  <2> QED  BY <2>2, <2>3, <2>5
<1>4. CASE Cardinality(votes) <= 1
  <2>1. Cardinality(votes) \in Nat
    BY FS_CardinalityType
  <2>2. eff_k_from_corr(votes, m, exchange) = 100 * Cardinality(votes)
    BY <1>4, EffKWeighted
  <2> QED  BY <1>4, <2>1, <2>2
<1>5. CASE ~(Cardinality(votes) <= 1)
  <2>1. eff_k_from_corr(votes, m, exchange)
          = (100 * 100 * T * T) \div Max({Weighted(votes, m, r), 1})
    BY <1>5, EffKWeighted
  <2> HIDE DEF T, r
  <2>2. PICK q \in Nat : q = T * T
    BY <1>1
  <2>3. 100 * 100 * T * T = 10000 * q /\ (100 * T) * T = 100 * q
    BY <1>1, <2>2
  <2> QED  BY <1>3, <2>1, <2>2, <2>3, Hundredfold
<1> QED  BY <1>4, <1>5

--------------------------------------------------------------------------
(* The invariant.                                                          *)

LEMMA InitCInv == Init => CInv
<1> SUFFICES ASSUME Init PROVE CInv
  OBVIOUS
<1>1. HandlerInv /\ VolatilityInv /\ MatrixInv /\ CacheInv
  BY DEF Init, CorrelationsInit, HandlerInv, VolatilityInv, MatrixInv, CacheInv,
         NoSignal, NoPairs
<1>2. TimeInv
  BY DEF Init, CorrelationsInit, TimeInv
<1>3. PositionInv
  BY DEF Init, PositionInv
<1> QED  BY <1>1, <1>2, <1>3 DEF CInv

(* What the provider loads today, the detector takes over as it is.        *)
LEMMA HydrateExact ==
  ASSUME TimeInv, NEW fetched, Hydrate(fetched)
  PROVE  MatrixInv'
<1>1. Today \in Nat
  BY CorrelationsAssumption DEF TimeInv, Today
<1>2. DecayFactor(Today) = 100
  BY <1>1 DEF DecayFactor, Never
<1>3. \A rho : Blend(rho, Today) = rho
  BY <1>2 DEF Blend
<1>4. \A p \in DOMAIN fetched : /\ p \in DOMAIN Hydrated(fetched, Today)
                               /\ Hydrated(fetched, Today)[p] = fetched[p]
  BY <1>3 DEF Hydrated
<1> QED  BY <1>4 DEF Hydrate, MatrixInv

LEMMA LoadKeepsMatrix ==
  ASSUME TimeInv, MatrixInv, Startup \/ Correlate
  PROVE  MatrixInv'
<1>1. CASE UNCHANGED <<loaded, matrix>>
  BY <1>1 DEF MatrixInv
<1>2. CASE \E fetched : Hydrate(fetched)
  BY <1>2, HydrateExact
<1>3. UNCHANGED <<loaded, matrix>> \/ \E fetched : Hydrate(fetched)
  BY DEF Startup, Correlate, Step, Store, NextAsset, Prune, Load, Apply, Fail,
         Refresh, Request, Trade, Leave
<1> QED  BY <1>1, <1>2, <1>3

LEMMA CorrelationStep ==
  ASSUME CInv, Startup \/ Correlate, ConsensusIdle
  PROVE  CInv'
<1> USE DEF CInv, ConsensusIdle, marketVars, consensusVars, countVars, bootVars
<1>1. now' = now /\ (phase' = phase \/ (phase = "down" /\ phase' = "boot"))
  BY DEF Startup, Correlate, Step, Store, NextAsset, Prune, Load, Apply, Fail,
         Refresh, Request, Trade, Leave
<1>2. HandlerInv' /\ VolatilityInv'
  BY <1>1 DEF HandlerInv, VolatilityInv
<1>3. TimeInv' /\ CacheInv' /\ PositionInv'
  BY <1>1 DEF TimeInv, CacheInv, PositionInv
<1>4. MatrixInv'
  BY LoadKeepsMatrix
<1> QED  BY <1>2, <1>3, <1>4

(* Once a view has been the market's, it has been for ever after.          *)
LEMMA HeldForEver ==
  ASSUME TimeInv, CacheInv, cache' = cache, now' \in Nat, now <= now',
         DOMAIN lastHeld' = DOMAIN lastHeld,
         \A v \in DOMAIN lastHeld : lastHeld'[v] = lastHeld[v] \/ lastHeld'[v] = now'
  PROVE  CacheInv'
<1> SUFFICES ASSUME cache # NoCache PROVE CacheInv'
  BY DEF CacheInv
<1>1. PICK v \in DOMAIN lastHeld :
        RegimeOf(v) = cache.regime /\ lastHeld[v] # Never /\ cache.at <= lastHeld[v]
  BY DEF CacheInv
<1>2. lastHeld[v] \in 0 .. now /\ now \in Nat
  BY <1>1 DEF TimeInv
<1>3. lastHeld'[v] # Never /\ lastHeld[v] <= lastHeld'[v] /\ lastHeld'[v] \in Int
  BY <1>1, <1>2 DEF Never
<1>4. cache.at \in Int /\ cache.at <= lastHeld'[v]
  BY <1>1, <1>2, <1>3 DEF CacheInv
<1> QED  BY <1>1, <1>3, <1>4 DEF CacheInv

(* The regime that is answered held, or was cached, within the life of the *)
(* cache; and what is cached is true of a view.                            *)
LEMMA RegimeDetected ==
  ASSUME TimeInv, CacheInv, now' = now, view' = view,
         NEW regime, NEW readable \in BOOLEAN, detect_regime(regime, readable)
  PROVE  /\ TimeInv' /\ CacheInv'
         /\ \E v \in DOMAIN lastHeld' :
              /\ RegimeOf(v) = regime
              /\ lastHeld'[v] # Never /\ now - lastHeld'[v] <= REGIME_CACHE_TTL_SECONDS
<1>1. CASE Fresh
  <2>1. regime = cache.regime /\ UNCHANGED <<cache, lastHeld>>
    BY <1>1 DEF detect_regime
  <2>2. TimeInv' /\ CacheInv'
    BY <2>1 DEF TimeInv, CacheInv
  <2>3. PICK v \in DOMAIN lastHeld :
          RegimeOf(v) = cache.regime /\ lastHeld[v] # Never /\ cache.at <= lastHeld[v]
    BY <1>1 DEF Fresh, CacheInv
  <2>4. /\ lastHeld[v] \in 0 .. now /\ now \in Nat /\ cache.at \in Int
        /\ now - cache.at <= REGIME_CACHE_TTL_SECONDS
    BY <1>1, <2>3 DEF Fresh, TimeInv, CacheInv
  <2>5. now - lastHeld[v] <= REGIME_CACHE_TTL_SECONDS
    BY <2>3, <2>4, MarketDataAssumption
  <2> QED  BY <2>1, <2>2, <2>3, <2>5
<1>2. CASE ~Fresh
  <2> DEFINE seen == IF readable THEN view ELSE NoCandles
  <2>1. /\ regime = RegimeOf(seen) /\ cache' = [regime |-> regime, at |-> now]
        /\ lastHeld' = [lastHeld EXCEPT ![seen] = now]
    BY <1>2 DEF detect_regime
  <2>2. seen \in DOMAIN lastHeld /\ now \in Nat
    BY DEF TimeInv
  <2> HIDE DEF seen
  <2>3. DOMAIN lastHeld' = DOMAIN lastHeld /\ lastHeld'[seen] = now
    BY <2>1, <2>2
  <2>4. TimeInv'
    BY <2>1, <2>2 DEF TimeInv
  <2>5. RegimeOf(seen) = cache'.regime /\ cache'.at = now
    BY <2>1
  <2>6. CacheInv'
    BY <2>2, <2>3, <2>5 DEF CacheInv, Never
  <2>7. now - lastHeld'[seen] <= REGIME_CACHE_TTL_SECONDS
    BY <2>2, <2>3, MarketDataAssumption
  <2> QED  BY <2>1, <2>2, <2>3, <2>4, <2>6, <2>7 DEF Never
<1> QED  BY <1>1, <1>2

LEMMA SubscribeStep ==
  ASSUME CInv, Subscribe PROVE CInv'
<1> USE DEF CInv
<1>1. PICK marks \in Marks, regime \in Regime, readable \in BOOLEAN, q \in Quotes :
        detect_regime(regime, readable) /\ atr' = update_atr(marks, regime)
  BY DEF Subscribe
<1>2. UNCHANGED <<now, loaded, matrix, view, handler>> /\ phase = "boot"
  BY DEF Subscribe, Ready, corrVars
<1>3. TimeInv' /\ CacheInv'
  BY <1>1, <1>2, RegimeDetected
<1>4. HandlerInv'
  BY <1>2 DEF HandlerInv
<1>5. VolatilityInv'
  <2>1. SUFFICES ASSUME ATR_STRICT_MODE, atr'.valid
                 PROVE  atr'.source \in {"db", "calculated", "realized_vol"}
    BY DEF VolatilityInv
  <2>2. /\ atr'.source = ManagerATR(marks).source
        /\ ManagerATR(marks).source # "fallback_hardcoded"
    BY <1>1, <2>1 DEF update_atr, should_block_gate
  <2>3. ProviderATR(marks).source \in {"db", "calculated", "realized_vol", "fallback_hardcoded"}
    BY DEF ProviderATR, Measured
  <2> QED  BY <2>2, <2>3 DEF ManagerATR, Measured
<1>6. MatrixInv'
  BY <1>2 DEF MatrixInv
<1>7. PositionInv'
  BY ConsensusAssumption DEF Subscribe, Bootstrap, PositionInv
<1> QED  BY <1>3, <1>4, <1>5, <1>6, <1>7

LEMMA DieStep ==
  ASSUME CInv, Die PROVE CInv'
<1> USE DEF CInv, Die, Crash
<1>1. HandlerInv' /\ VolatilityInv' /\ MatrixInv' /\ CacheInv'
  BY DEF HandlerInv, VolatilityInv, MatrixInv, CacheInv, NoSignal, NoPairs
<1>2. TimeInv' /\ PositionInv'
  BY DEF TimeInv, PositionInv, marketVars
<1> QED  BY <1>1, <1>2

LEMMA TimeStep ==
  ASSUME CInv, TimePasses PROVE CInv'
<1> USE DEF CInv
<1>1. /\ now' = now + TickSeconds /\ lastHeld' = [lastHeld EXCEPT ![view] = now']
      /\ UNCHANGED <<phase, loaded, matrix, view, position, cache, handler, atr>>
  BY DEF TimePasses, Tick, corrVars, consensusVars, bootVars
<1>2. now' \in Nat /\ now <= now' /\ now \in Nat
  BY <1>1, CorrelationsAssumption DEF TimeInv
<1>3. TimeInv'
  BY <1>1, <1>2 DEF TimeInv
<1>4. CacheInv'
  BY <1>1, <1>2, HeldForEver
<1>5. HandlerInv' /\ VolatilityInv' /\ MatrixInv' /\ PositionInv'
  BY <1>1 DEF HandlerInv, VolatilityInv, MatrixInv, PositionInv
<1> QED  BY <1>3, <1>4, <1>5

LEMMA MarketStep ==
  ASSUME CInv, MarketMoves PROVE CInv'
<1> USE DEF CInv
<1>1. PICK v \in Views : view' = v /\ lastHeld' = [lastHeld EXCEPT ![v] = now]
  BY DEF MarketMoves
<1>2. UNCHANGED <<now, phase, loaded, matrix, position, cache, handler, atr>>
  BY DEF MarketMoves, correlationsVars, corrVars, consensusVars, bootVars
<1>3. TimeInv'
  BY <1>1, <1>2 DEF TimeInv
<1>4. CacheInv'
  <2>1. now \in Nat
    BY DEF TimeInv
  <2> QED  BY <1>1, <1>2, <2>1, HeldForEver
<1>5. HandlerInv' /\ VolatilityInv' /\ MatrixInv' /\ PositionInv'
  BY <1>2 DEF HandlerInv, VolatilityInv, MatrixInv, PositionInv
<1> QED  BY <1>3, <1>4, <1>5

(* What the tracker makes of a fill is no episode, or one with a time.     *)
LEMMA AfterFillTyped ==
  ASSUME PositionInv, NEW t \in Trader, NEW price \in Price, NEW ts \in Nat,
         NEW episode \in AfterFill(t, price, ts)
  PROVE  episode \in {NoPosition} \cup Episodes(Nat)
<1>1. position[t] \in {NoPosition} \cup Episodes(Nat)
  BY DEF PositionInv
<1>2. CASE \E d \in {"long", "short"} : episode = [direction |-> d, price |-> price, ts |-> ts]
  BY <1>2 DEF Episodes
<1>3. CASE episode = NoPosition
  BY <1>3
<1>4. CASE /\ position[t] # NoPosition
           /\ \E vwap \in Price : episode = [position[t] EXCEPT !.price = vwap]
  BY <1>1, <1>4 DEF Episodes
<1> QED  BY <1>2, <1>3, <1>4 DEF AfterFill

(* A fill opens, resizes or closes the episode of its trader; the handler  *)
(* starts only while the process is up and its volatility valid.           *)
LEMMA FillStep ==
  ASSUME CInv, NEW t \in Trader, Fill(t) PROVE CInv'
<1> USE DEF CInv
<1>1. PICK price \in Price : \E episode \in AfterFill(t, price, now) :
        /\ position' = [position EXCEPT ![t] = episode]
        /\ \E votes \in {EpisodeVotes([position EXCEPT ![t] = episode])} :
             handler' = IF Passes(votes, price) THEN Signal(votes) ELSE NoSignal
  BY DEF Fill
<1>2. PICK episode \in AfterFill(t, price, now) :
        /\ position' = [position EXCEPT ![t] = episode]
        /\ \E votes : handler' = IF Passes(votes, price) THEN Signal(votes) ELSE NoSignal
  BY <1>1
<1>3. UNCHANGED <<now, phase, loaded, matrix, view, lastHeld, cache, atr>> /\ phase = "up"
  BY DEF Fill, correlationsVars, corrVars, marketVars, bootVars
<1>4. HandlerInv'
  <2> PICK votes : handler' = IF Passes(votes, price) THEN Signal(votes) ELSE NoSignal
    BY <1>2
  <2>1. CASE Passes(votes, price)
    BY <1>3, <2>1 DEF HandlerInv, Passes
  <2>2. CASE ~Passes(votes, price)
    BY <2>2 DEF HandlerInv, NoSignal
  <2> QED  BY <2>1, <2>2
<1>5. PositionInv'
  <2>1. now \in Nat
    BY DEF TimeInv
  <2>2. episode \in {NoPosition} \cup Episodes(Nat)
    BY <1>2, <2>1, AfterFillTyped
  <2> QED  BY <1>2, <2>2 DEF PositionInv
<1>6. TimeInv' /\ CacheInv' /\ VolatilityInv' /\ MatrixInv'
  BY <1>3 DEF TimeInv, CacheInv, VolatilityInv, MatrixInv
<1> QED  BY <1>4, <1>5, <1>6

LEMMA ReconcileStep ==
  ASSUME CInv, NEW t \in Trader, Reconcile(t) PROVE CInv'
<1> USE DEF CInv
<1>1. UNCHANGED <<now, phase, loaded, matrix, view, lastHeld, cache, handler, atr>>
  BY DEF Reconcile, correlationsVars, corrVars, marketVars, bootVars
<1>2. PositionInv'
  <2>1. PICK price \in Price, ts \in Times : \E episode \in AfterFill(t, price, ts) :
          position' = [position EXCEPT ![t] = episode]
    BY DEF Reconcile
  <2>2. PICK episode \in AfterFill(t, price, ts) : position' = [position EXCEPT ![t] = episode]
    BY <2>1
  <2>3. ts \in Nat
    BY DEF Times, TimeInv
  <2>4. episode \in {NoPosition} \cup Episodes(Nat)
    BY <2>2, <2>3, AfterFillTyped
  <2> QED  BY <2>2, <2>4 DEF PositionInv
<1>3. TimeInv' /\ CacheInv' /\ VolatilityInv' /\ MatrixInv' /\ HandlerInv'
  BY <1>1 DEF TimeInv, CacheInv, VolatilityInv, MatrixInv, HandlerInv
<1> QED  BY <1>2, <1>3

LEMMA CheckRiskStep ==
  ASSUME CInv, CheckRisk PROVE CInv'
<1> USE DEF CInv
<1>1. PICK regime \in Regime, readable \in BOOLEAN : detect_regime(regime, readable)
  BY DEF CheckRisk
<1>2. UNCHANGED <<now, phase, loaded, matrix, view, position, atr>> /\ handler.pc # "idle"
  BY DEF CheckRisk, correlationsVars, corrVars, bootVars
<1>3. TimeInv' /\ CacheInv'
  BY <1>1, <1>2, RegimeDetected
<1>4. HandlerInv' /\ VolatilityInv' /\ MatrixInv' /\ PositionInv'
  BY <1>2 DEF HandlerInv, VolatilityInv, MatrixInv, PositionInv
<1> QED  BY <1>3, <1>4

LEMMA SignalStep ==
  ASSUME CInv, LogSignal \/ handle_consensus_signal PROVE CInv'
<1> USE DEF CInv
<1>1. /\ UNCHANGED <<now, phase, loaded, matrix, view, lastHeld, position, cache, atr>>
      /\ handler.pc # "idle"
  BY DEF LogSignal, handle_consensus_signal, correlationsVars, corrVars, marketVars, bootVars
<1>2. TimeInv' /\ CacheInv' /\ VolatilityInv' /\ MatrixInv' /\ HandlerInv' /\ PositionInv'
  BY <1>1 DEF TimeInv, CacheInv, VolatilityInv, MatrixInv, HandlerInv, PositionInv
<1> QED  BY <1>2

(* The invariant holds in every state of every behaviour.                  *)
THEOREM ConsensusInvariance == Spec => []CInv
<1>1. ASSUME CInv, [Next]_vars PROVE CInv'
  <2>1. CASE (Startup \/ Correlate) /\ ConsensusIdle
    BY <1>1, <2>1, CorrelationStep
  <2>2. CASE Subscribe
    BY <1>1, <2>2, SubscribeStep
  <2>3. CASE Die
    BY <1>1, <2>3, DieStep
  <2>4. CASE TimePasses
    BY <1>1, <2>4, TimeStep
  <2>5. CASE MarketMoves
    BY <1>1, <2>5, MarketStep
  <2>6. ASSUME NEW t \in Trader, Fill(t) PROVE CInv'
    BY <1>1, <2>6, FillStep
  <2>7. ASSUME NEW t \in Trader, Reconcile(t) PROVE CInv'
    BY <1>1, <2>7, ReconcileStep
  <2>8. CASE CheckRisk
    BY <1>1, <2>8, CheckRiskStep
  <2>9. CASE LogSignal \/ handle_consensus_signal
    BY <1>1, <2>9, SignalStep
  <2>10. CASE UNCHANGED vars
    BY <1>1, <2>10
       DEF vars, correlationsVars, corrVars, marketVars, consensusVars, countVars, bootVars,
           CInv, TimeInv, CacheInv, VolatilityInv, MatrixInv, HandlerInv, PositionInv
  <2> QED  BY <1>1, <2>1, <2>2, <2>3, <2>4, <2>5, <2>6, <2>7, <2>8, <2>9, <2>10 DEF Next
<1> QED  BY InitCInv, <1>1, PTL DEF Spec

(* In strict mode no signal rests on a stop that was guessed, over         *)
(* restarts that read other data.                                          *)
THEOREM DataBehindEverySignal == Spec => []NoSignalOnGuessedVolatility
<1>1. CInv => NoSignalOnGuessedVolatility
  BY DEF CInv, HandlerInv, VolatilityInv, NoSignalOnGuessedVolatility
<1> QED  BY <1>1, ConsensusInvariance, PTL

(* A signal is sure enough for the regime of the market as it was at some  *)
(* time within the life of the cache.                                      *)
THEOREM SureEnough == Spec => RegimeRespected
<1> DEFINE Sure ==
      (handler.pc = "regime" /\ handler'.pc = "log") =>
         \E v \in DOMAIN lastHeld' :
           /\ lastHeld'[v] # Never /\ now - lastHeld'[v] <= REGIME_CACHE_TTL_SECONDS
           /\ handler.p >= get_regime_adjusted_confidence(RegimeOf(v))
<1>1. ASSUME CInv, [Next]_vars PROVE [Sure]_vars
  <2>1. SUFFICES ASSUME handler.pc = "regime", handler'.pc = "log" PROVE Sure
    BY DEF vars
  <2>2. CheckRisk
    <3>1. handler' # handler /\ handler # NoSignal /\ handler' # NoSignal
      BY <2>1 DEF NoSignal
    <3>2. ~ UNCHANGED consensusVars /\ ~ UNCHANGED vars
      BY <3>1 DEF consensusVars, vars
    <3>3. ~ConsensusIdle /\ ~TimePasses /\ ~MarketMoves
      BY <3>2 DEF ConsensusIdle, TimePasses, MarketMoves
    <3>4. ~Subscribe /\ ~Die
      BY <3>1 DEF Subscribe, Die
    <3>5. \A t \in Trader : ~Fill(t) /\ ~Reconcile(t)
      BY <3>1 DEF Fill, Reconcile
    <3>6. ~LogSignal /\ ~handle_consensus_signal
      BY <2>1 DEF LogSignal, handle_consensus_signal
    <3> QED  BY <1>1, <3>2, <3>3, <3>4, <3>5, <3>6 DEF Next
  <2>3. PICK regime \in Regime, readable \in BOOLEAN :
          /\ detect_regime(regime, readable)
          /\ handler' = IF PassesRisk(regime) THEN [handler EXCEPT !.pc = "log"] ELSE NoSignal
    BY <2>2 DEF CheckRisk
  <2>4. now' = now /\ view' = view
    BY <2>2 DEF CheckRisk, correlationsVars
  <2>5. handler.p >= get_regime_adjusted_confidence(regime)
    BY <2>1, <2>3 DEF PassesRisk, NoSignal
  <2> QED  BY <1>1, <2>3, <2>4, <2>5, RegimeDetected DEF CInv
<1> QED  BY <1>1, ConsensusInvariance, PTL DEF Spec, RegimeRespected

--------------------------------------------------------------------------
(* Where a signal comes from.                                              *)

LEMMA SignalFromFill ==
  ASSUME CInv, [Next]_vars, handler.pc = "idle", handler'.pc = "regime"
  PROVE  \E votes :
           /\ votes = EpisodeVotes(position') /\ Passes(votes, mid') /\ handler' = Signal(votes)
<1>1. handler' # handler /\ handler' # NoSignal
  BY DEF NoSignal
<1>2. ~ UNCHANGED consensusVars /\ ~ UNCHANGED vars
  BY <1>1 DEF consensusVars, vars
<1>3. ~ConsensusIdle /\ ~TimePasses /\ ~MarketMoves /\ ~Subscribe /\ ~Die
  BY <1>1, <1>2 DEF ConsensusIdle, TimePasses, MarketMoves, Subscribe, Die
<1>4. ~CheckRisk /\ ~LogSignal /\ ~handle_consensus_signal
  BY DEF CheckRisk, LogSignal, handle_consensus_signal
<1>5. \A t \in Trader : ~Reconcile(t)
  BY <1>1 DEF Reconcile
<1>6. PICK t \in Trader : Fill(t)
  BY <1>2, <1>3, <1>4, <1>5 DEF Next
<1>7. \E price \in Price : \E episode \in AfterFill(t, price, now) :
        /\ mid' = price /\ position' = [position EXCEPT ![t] = episode]
        /\ \E votes \in {EpisodeVotes([position EXCEPT ![t] = episode])} :
             handler' = IF Passes(votes, price) THEN Signal(votes) ELSE NoSignal
  BY <1>6 DEF Fill
<1> QED  BY <1>1, <1>7

LEMMA VotesTyped ==
  ASSUME NEW open \in [Trader -> {NoPosition} \cup Episodes(Nat)]
  PROVE  /\ IsFiniteSet(EpisodeVotes(open))
         /\ \A v \in EpisodeVotes(open) :
              /\ v.weight \in Nat /\ v.ts \in Nat
              /\ v.direction \in {"long", "short"}
<1> DEFINE U == {u \in Trader : open[u] # NoPosition}
           vote(t) == [address |-> t, direction |-> open[t].direction, price |-> open[t].price,
                       weight |-> calculate_vote_weight(Size * open[t].price), ts |-> open[t].ts]
           votes == {vote(t) : t \in U}
<1>1. IsFiniteSet(votes)
  <2>1. IsFiniteSet(U)
    BY ConsensusAssumption, FS_Subset
  <2> DEFINE f == [t \in U |-> vote(t)]
  <2>2. f \in Surjection(U, votes)
    BY DEF Surjection
  <2> HIDE DEF U, vote, votes, f
  <2> QED  BY <2>1, <2>2, FS_Surjection
<1>2. ASSUME NEW t \in U
      PROVE  /\ vote(t).weight \in Nat /\ vote(t).ts \in Nat
             /\ vote(t).direction \in {"long", "short"}
  <2>1. open[t] \in Episodes(Nat)
    OBVIOUS
  <2>2. /\ open[t].price \in Price /\ open[t].ts \in Nat
        /\ open[t].direction \in {"long", "short"}
    BY <2>1 DEF Episodes
  <2>3. LogWeight(Size * open[t].price) \in Nat
    BY <2>2, ConsensusAssumption
  <2>4. Min({LogWeight(Size * open[t].price), 100}) \in Nat
    BY <2>3 DEF Min
  <2>5. calculate_vote_weight(Size * open[t].price) \in Nat
    BY <2>4 DEF calculate_vote_weight
  <2> QED  BY <2>2, <2>5
<1> QED  BY <1>1, <1>2 DEF EpisodeVotes

(* Clones never signal: voters whose last known correlations are all       *)
(* complete count for one, and one is not enough, once the gate asks for   *)
(* more than one independent voter.                                        *)
THEOREM ClonesStaySilent ==
  ASSUME CONSENSUS_MIN_EFFECTIVE_K > 100
  PROVE  Spec => ClonesNeverSignal
<1>1. ASSUME CInv, CInv', [Next]_vars PROVE [SignalRaised => ~Clones(handler'.voters)]_vars
  <2>1. SUFFICES ASSUME SignalRaised, Clones(handler'.voters) PROVE FALSE
    OBVIOUS
  <2>2. PICK votes : /\ votes = EpisodeVotes(position') /\ Passes(votes, mid')
                     /\ handler' = Signal(votes)
    BY <1>1, <2>1, SignalFromFill DEF SignalRaised
  <2> DEFINE agreeing == Agreeing(votes)
  <2>3. /\ IsFiniteSet(agreeing) /\ \A v \in agreeing : v.weight \in Nat
    <3>1. IsFiniteSet(votes) /\ \A v \in votes : v.weight \in Nat
      BY <1>1, <2>2, VotesTyped DEF CInv, PositionInv
    <3>2. agreeing \subseteq votes
      BY DEF Agreeing, Side
    <3> QED  BY <3>1, <3>2, FS_Subset
  <2>4. handler'.voters = {v.address : v \in agreeing}
    BY <2>2 DEF Signal, Addresses
  <2>5. ASSUME NEW a \in agreeing, NEW b \in agreeing
        PROVE  Rho(matrix, DefaultRho(TargetExchange), a.address, b.address) = 100
    <3>1. CASE a.address = b.address
      BY <3>1 DEF Rho
    <3>2. CASE a.address # b.address
      <4>1. {a.address, b.address} \in DOMAIN loaded /\ loaded[{a.address, b.address}] = 100
        BY <2>1, <2>4, <3>2 DEF Clones
      <4>2. {a.address, b.address} \in DOMAIN matrix /\ matrix[{a.address, b.address}] = 100
        BY <1>1, <4>1 DEF CInv, MatrixInv
      <4>3. Clamp(0, 100, 100) = 100
        BY DEF Clamp, Max, Min
      <4> QED  BY <3>2, <4>2, <4>3 DEF Rho
    <3> QED  BY <3>1, <3>2
  <2>6. Signal(votes).k = EffK(agreeing) /\ Signal(votes).k >= CONSENSUS_MIN_EFFECTIVE_K
    BY <2>2 DEF Signal, Passes
  <2> HIDE DEF agreeing
  <2>7. EffK(agreeing) \in 0 .. 100
    BY <2>3, <2>5, ClonesCountForOne DEF EffK
  <2> QED  BY <2>6, <2>7, ConsensusAssumption
<1> QED  BY <1>1, ConsensusInvariance, PTL DEF Spec, ClonesNeverSignal
=============================================================================
