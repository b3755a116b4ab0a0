---------------------------- MODULE Correlations ----------------------------
(***************************************************************************)
(* The pairwise correlations of traders in hl-decide: the daily job that   *)
(* computes and stores them, the provider that loads them and the matrix   *)
(* of the consensus detector they end up in.                               *)
(*                                                                         *)
(* The job runs at start-up when there are no rows, periodically, and on   *)
(* request; runs overlap, write their rows one by one, and may fail at any *)
(* step.  A pair is a set of two traders: every key of the code is the     *)
(* sorted pair.  Correlations are in hundredths.                           *)
(***************************************************************************)
EXTENDS ConsensusMath

CONSTANTS
  Trader,
  DayLength,                \* seconds from one midnight to the next
  CORR_MIN_COMMON_BUCKETS, CORR_LOOKBACK_DAYS,
  Decay(_),                 \* 100 * 2^(-age / CORR_DECAY_HALFLIFE_DAYS)
  Postures,                 \* what the fills of the two assets may show
  TickSeconds, MaxTime, MaxPostures, MaxLeaves, MaxFaults, MaxRequests   \* bounds

Asset == {"BTC", "ETH"}
Job == {"boot", "refresh", "request"}
Never == -1
Idle == [pc |-> "idle"]

\* posture[asset][trader]: the direction, 1 or -1, per 5-minute bucket
ASSUME CorrelationsAssumption ==
  /\ DayLength \in Nat \ {0} /\ CORR_MIN_COMMON_BUCKETS \in Nat \ {0}
  /\ CORR_LOOKBACK_DAYS \in Nat
  /\ \A p \in Postures, a \in Asset : DOMAIN p[a] = Trader
  /\ TickSeconds \in Nat \ {0}

VARIABLES
  now,         \* seconds
  phase,       \* of the process: down, boot or up
  signs,       \* the posture episode_fills shows of the lookback
  active,      \* alpha_pool_addresses with is_active
  rows,        \* trader_corr
  loaded,      \* CorrelationProvider.correlations
  loadedDate,  \* CorrelationProvider._loaded_date
  matrix,      \* ConsensusDetector.correlation_matrix
  jobs,        \* jobs[j]: a run of the job
  postures, faults, requests   \* counters of the bounds

corrVars == <<signs, active, rows, loaded, loadedDate, matrix, jobs>>
boundVars == <<postures, faults, requests>>

Pairs == {{a, b} : a, b \in Trader} \ {{a} : a \in Trader}
Today == now \div DayLength

NoPairs == [p \in {} |-> 0]

CorrelationsTypeOK ==
  /\ phase \in {"down", "boot", "up"}
  /\ signs \in Postures /\ now \in 0 .. MaxTime /\ active \subseteq Trader
  /\ rows \subseteq [date : Nat, asset : Asset, pair : Pairs, rho : 0 .. 100]
  /\ DOMAIN loaded \subseteq Pairs /\ loadedDate \in {Never} \cup Nat
  /\ DOMAIN matrix \subseteq Pairs /\ \A p \in DOMAIN matrix : matrix[p] \in 0 .. 100
  /\ DOMAIN jobs = Job /\ \A j \in Job : jobs[j].pc \in {"idle", "store", "load", "apply"}

CorrelationsInit ==
  /\ phase = "down"
  /\ now = 0 /\ signs \in Postures /\ active = Trader
  /\ rows = {} /\ loaded = NoPairs /\ loadedDate = Never /\ matrix = NoPairs
  /\ jobs = [j \in Job |-> Idle]
  /\ postures = 0 /\ faults = 0 /\ requests = 0

--------------------------------------------------------------------------
\* The computation

(* (concordant - discordant) / common, not below zero; zero when the       *)
(* common buckets are too few.                                             *)
compute_phi_correlation(a, b) ==
  LET common == DOMAIN a \cap DOMAIN b
      concordant == Cardinality({k \in common : a[k] = b[k]})
  IN  IF Cardinality(common) < CORR_MIN_COMMON_BUCKETS THEN 0
      ELSE Max({0, (100 * (2 * concordant - Cardinality(common))) \div Cardinality(common)})

\* build_sign_vectors: the active traders that have fills.
Vectors(asset) == {t \in active : DOMAIN signs[asset][t] # {}}

compute_all_correlations(asset) ==
  IF Cardinality(active) < 2 THEN {}
  ELSE {[pair |-> {c[1], c[2]},
         rho |-> compute_phi_correlation(signs[asset][c[1]], signs[asset][c[2]])] :
        c \in {d \in Vectors(asset) \X Vectors(asset) : d[1] # d[2]}}

--------------------------------------------------------------------------
\* run_daily_correlation_job and what its callers do with its result

\* The job reads the pool and the fills of one asset and starts to store.
Run(j, asset, date, total) ==
  LET computed == compute_all_correlations(asset)
  IN  jobs' = [jobs EXCEPT ![j] = [pc |-> "store", asset |-> asset, date |-> date,
                                   left |-> computed, total |-> total + Cardinality(computed)]]

\* Slip: ON CONFLICT DO NOTHING.
StoreIfAbsent(j) ==
  /\ jobs[j].pc = "store"
  /\ jobs[j].left # {}
  /\ LET c == CHOOSE c \in jobs[j].left : TRUE IN
       /\ rows' = IF \E r \in rows : /\ r.date = jobs[j].date /\ r.asset = jobs[j].asset
                                     /\ r.pair = c.pair
                  THEN rows
                  ELSE rows \cup {[date |-> jobs[j].date, asset |-> jobs[j].asset,
                                   pair |-> c.pair, rho |-> c.rho]}
       /\ jobs' = [jobs EXCEPT ![j].left = @ \ {c}]
  /\ UNCHANGED <<now, phase, signs, active, loaded, loadedDate, matrix, boundVars>>

\* store_correlations: one row, committed on its own, in a fixed order.
Store(j) ==
  /\ jobs[j].pc = "store"
  /\ jobs[j].left # {}
  /\ LET c == CHOOSE c \in jobs[j].left : TRUE IN
       /\ rows' = {r \in rows : r.date # jobs[j].date \/ r.asset # jobs[j].asset
                                \/ r.pair # c.pair}
                  \cup {[date |-> jobs[j].date, asset |-> jobs[j].asset,
                         pair |-> c.pair, rho |-> c.rho]}
       /\ jobs' = [jobs EXCEPT ![j].left = @ \ {c}]
  /\ UNCHANGED <<now, phase, signs, active, loaded, loadedDate, matrix, boundVars>>

NextAsset(j) ==
  /\ jobs[j].pc = "store" /\ jobs[j].left = {} /\ jobs[j].asset = "BTC"
  /\ Run(j, "ETH", jobs[j].date, jobs[j].total)
  /\ UNCHANGED <<now, phase, signs, active, rows, loaded, loadedDate, matrix, boundVars>>

\* prune_old_correlations ends the job; a request loads in any case, the
\* other callers only when pairs were computed.
Prune(j) ==
  /\ jobs[j].pc = "store" /\ jobs[j].left = {} /\ jobs[j].asset = "ETH"
  /\ rows' = {r \in rows : r.date >= Today - CORR_LOOKBACK_DAYS}
  /\ jobs' = [jobs EXCEPT ![j] = IF j = "request" \/ jobs[j].total > 0
                                 THEN [pc |-> "load"] ELSE Idle]
  /\ UNCHANGED <<now, phase, signs, active, loaded, loadedDate, matrix, boundVars>>

\* load_correlations: the rows of the latest date; of the rows of a pair, one
\* per asset, whichever comes last.
Latest == {r \in rows : \A q \in rows : q.date <= r.date}
LoadedPairs == {r.pair : r \in Latest}
load_correlations ==
  {f \in [LoadedPairs -> {r.rho : r \in Latest}] :
     \A p \in LoadedPairs : \E r \in Latest : r.pair = p /\ r.rho = f[p]}

\* CorrelationProvider.load: the fetch, then the assignment after the await.
Load(j) ==
  /\ jobs[j].pc = "load"
  /\ \E fetched \in load_correlations :
       jobs' = [jobs EXCEPT ![j] = [pc |-> "apply", fetched |-> fetched]]
  /\ UNCHANGED <<now, phase, signs, active, rows, loaded, loadedDate, matrix, boundVars>>

\* _decay_factor of correlations loaded on a date
DecayFactor(date) ==
  IF date = Never THEN 0 ELSE IF Today <= date THEN 100 ELSE Decay(Today - date)

\* The value hydrate_detector gives a pair.
Blend(rho, date) ==
  LET d == DecayFactor(date)
  IN  IF d >= 99 THEN rho ELSE (rho * d + DEFAULT_CORRELATION * (100 - d)) \div 100

\* Slip: a pair the detector knows keeps its value.
HydrateNew(correlations, date) ==
  [p \in DOMAIN matrix \cup DOMAIN correlations |->
     IF p \in DOMAIN matrix THEN matrix[p] ELSE Blend(correlations[p], date)]

\* hydrate_detector: pairs that were not loaded stay in the matrix.
Hydrated(correlations, date) ==
  [p \in DOMAIN matrix \cup DOMAIN correlations |->
     IF p \in DOMAIN correlations THEN Blend(correlations[p], date) ELSE matrix[p]]

\* The end of load(), which takes today for the date of the rows, and
\* hydrate_detector, which its callers call at once.
Hydrate(fetched) ==
  /\ loaded' = fetched /\ loadedDate' = Today
  /\ matrix' = Hydrated(fetched, Today)

Apply(j) ==
  /\ jobs[j].pc = "apply"
  /\ Hydrate(jobs[j].fetched)
  /\ jobs' = [jobs EXCEPT ![j] = Idle]
  /\ UNCHANGED <<now, phase, signs, active, rows, boundVars>>

\* A failing call ends the run; every caller catches the exception.
Fail(j) ==
  /\ jobs[j].pc \in {"store", "load"} /\ faults < MaxFaults /\ faults' = faults + 1
  /\ jobs' = [jobs EXCEPT ![j] = Idle]
  /\ UNCHANGED <<now, phase, signs, active, rows, loaded, loadedDate, matrix, postures, requests>>

Step(j) == Store(j) \/ NextAsset(j) \/ Prune(j) \/ Load(j) \/ Apply(j)

--------------------------------------------------------------------------
\* The runs begin; the traders trade; the pool changes; the process dies.

\* periodic_correlation_refresh_task, when its sleep is over
Refresh ==
  /\ phase = "up" /\ jobs["refresh"] = Idle
  /\ Run("refresh", "BTC", Today, 0)
  /\ UNCHANGED <<now, phase, signs, active, rows, loaded, loadedDate, matrix, boundVars>>

\* POST /correlation/compute
Request ==
  /\ phase = "up" /\ jobs["request"] = Idle
  /\ requests < MaxRequests /\ requests' = requests + 1
  /\ Run("request", "BTC", Today, 0)
  /\ UNCHANGED <<now, phase, signs, active, rows, loaded, loadedDate, matrix, postures, faults>>

\* lifespan: the rows are loaded; without rows the job computes them.
Startup ==
  /\ phase = "down" /\ phase' = "boot"
  /\ \/ /\ rows # {} /\ \E fetched \in load_correlations : Hydrate(fetched)
        /\ UNCHANGED jobs
     \/ /\ rows = {} /\ Run("boot", "BTC", Today, 0)
        /\ loadedDate' = Today /\ UNCHANGED <<loaded, matrix>>
  /\ UNCHANGED <<now, signs, active, rows, boundVars>>

\* The rest of lifespan.
Ready ==
  /\ phase = "boot" /\ jobs["boot"] = Idle /\ phase' = "up"
  /\ UNCHANGED <<now, corrVars, boundVars>>

Crash ==
  /\ phase # "down" /\ faults < MaxFaults /\ faults' = faults + 1
  /\ phase' = "down"
  /\ loaded' = NoPairs /\ loadedDate' = Never /\ matrix' = NoPairs
  /\ jobs' = [j \in Job |-> Idle]
  /\ UNCHANGED <<now, signs, active, rows, postures, requests>>

Tick ==
  /\ now < MaxTime /\ now' = now + TickSeconds
  /\ UNCHANGED <<phase, corrVars, boundVars>>

\* The fills of the lookback come to show other directions.
Trade ==
  /\ postures < MaxPostures /\ postures' = postures + 1
  /\ signs' \in Postures \ {signs}
  /\ UNCHANGED <<now, phase, active, rows, loaded, loadedDate, matrix, jobs, faults, requests>>

\* hl-sage deactivates a trader of the pool.
Leave(t) ==
  /\ t \in active /\ Cardinality(Trader \ active) < MaxLeaves
  /\ active' = active \ {t}
  /\ UNCHANGED <<now, phase, signs, rows, loaded, loadedDate, matrix, jobs, boundVars>>

Correlate ==
  \/ \E j \in Job : Step(j) \/ Fail(j)
  \/ Refresh \/ Request \/ Trade
  \/ \E t \in Trader : Leave(t)

CorrelationsNext == Startup \/ Ready \/ Crash \/ Tick \/ Correlate

correlationsVars == <<now, phase, corrVars, boundVars>>

\* The process is restarted, finishes its start-up, and its periodic task
\* keeps running the job.
CorrelationsSpec ==
  /\ CorrelationsInit /\ [][CorrelationsNext]_correlationsVars
  /\ WF_correlationsVars(Startup) /\ WF_correlationsVars(Ready)
  /\ WF_correlationsVars(Refresh)
  /\ \A j \in Job : WF_correlationsVars(Step(j))

\* Once the traders stop changing their ways, the detector comes to know the
\* correlation of every pair of the pool, as one of the two assets shows it:
\* failing, overlapping and repeated runs and restarts notwithstanding.
Settled ==
  \A a, b \in active : a # b =>
    \A asset \in Asset :
      {a, b} \subseteq Vectors(asset) =>
        /\ {a, b} \in DOMAIN matrix
        /\ \E other \in {x \in Asset : {a, b} \subseteq Vectors(x)} :
             matrix[{a, b}] = compute_phi_correlation(signs[other][a], signs[other][b])
RefreshReachesDetector == <>[]Settled
=============================================================================
