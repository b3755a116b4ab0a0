---------------------------- MODULE ShadowLedger ----------------------------
(***************************************************************************)
(* The Shadow Ledger of hl-sage: a snapshot of every trader it has known,  *)
(* one row per trader and date, so that later analysis is not misled by    *)
(* those who disappeared.                                                  *)
(*                                                                         *)
(* create_daily_snapshot runs once a day and on request, for any date;     *)
(* runs overlap and write row by row.  Meanwhile traders enter and leave   *)
(* the pool, gain, lose, trade and close episodes.                         *)
(* The Thompson draw that ranks the qualified is any order of them.        *)
(***************************************************************************)
EXTENDS Integers, FiniteSets, SequencesExt

CONSTANTS
  Trader, Pinned,
  PValue(_),          \* the p-value of a set of episodes, percent: the t-test itself is left out
  R,                  \* r_clamped an episode may close with, hundredths
  Account,            \* account values
  SNAPSHOT_MIN_EPISODES, SNAPSHOT_FDR_ALPHA,  \* alpha: percent
  SNAPSHOT_MIN_AVG_R_NET, CostR,              \* hundredths
  SelectionSize,      \* how many are selected
  DEATH_ACCOUNT_FLOOR, DEATH_DRAWDOWN_PCT,    \* percent
  MaxDate, MaxEvents  \* bounds: days; episodes, changes, requests and failures together

Job == {"daily", "request"}
Idle == [pc |-> "idle"]
NoP == -1
\* What hl_events shows of a trader: recent trades, a liquidation in a day.
Trading == {"trading", "otherAssets", "inactive", "liquidated"}

\* An episode as position_signals shows it.
Episodes(ts) == [trader : ts, r : R, date : 1 .. MaxDate, id : 0 .. MaxEvents - 1]

ASSUME ShadowLedgerAssumption ==
  /\ IsFiniteSet(Trader) /\ Pinned \subseteq Trader /\ Account \subseteq Nat
  /\ SNAPSHOT_MIN_EPISODES \in Nat \ {0} /\ SNAPSHOT_FDR_ALPHA \in Nat
  /\ DEATH_DRAWDOWN_PCT \in 0 .. 100
  /\ MaxDate \in Nat \ {0} /\ MaxEvents \in Nat
  /\ \A t \in Trader : \A es \in SUBSET Episodes({t}) : PValue(es) \in Nat

VARIABLES
  today,
  due,       \* the daily snapshot of today has not been begun
  pool,      \* active rows of alpha_pool_addresses
  account,   \* their account_value
  trading,   \* what hl_events shows of each trader
  closed,    \* closed episodes of position_signals, by the date they closed
  rows,      \* trader_snapshots, by date and trader
  jobs,
  runs,      \* history: the dates written by one run, not ahead of time, without a failure
  before,    \* history: the dates complete when the run of a date began
  known,     \* history: what was closed when a run of a date read a trader's
  events     \* counter of the bound

worldVars == <<pool, account, trading>>
vars == <<today, due, worldVars, closed, rows, jobs, runs, before, known, events>>

Init ==
  /\ today = 1 /\ due = TRUE /\ pool \in SUBSET Trader
  /\ account \in [Trader -> Account] /\ trading = [t \in Trader |-> "trading"]
  /\ closed = {} /\ rows = [k \in {} |-> 0]
  /\ jobs = [j \in Job |-> Idle]
  /\ runs = [d \in 1 .. MaxDate |-> "none"] /\ before = [d \in 1 .. MaxDate |-> {}]
  /\ known = [d \in 1 .. MaxDate |-> [t \in Trader |-> {}]]
  /\ events = 0

\* What is not part of a snapshot is bounded.
Event == events < MaxEvents /\ events' = events + 1

\* f with the entry of x inserted or replaced.
Put(f, x, v) == [y \in DOMAIN f \cup {x} |-> IF y = x THEN v ELSE f[y]]

RowsOf(t) == {k \in DOMAIN rows : k[2] = t}

--------------------------------------------------------------------------
\* A run of create_daily_snapshot

\* Slip: only the traders of today's pool.
UniverseNow(d) == pool \cup Pinned

\* The active pool, whoever had a row that was no death, and the pinned.
Universe(d) ==
  pool \cup Pinned
    \cup {t \in Trader : \E k \in RowsOf(t) : k[1] < d /\ rows[k].event # "death"}

\* The queries a run opens with, taken together.
Begin(j, d) ==
  /\ jobs[j] = Idle
  /\ jobs' = [jobs EXCEPT ![j] = [pc |-> "assess", date |-> d, left |-> Universe(d),
                                  pooled |-> pool, values |-> account,
                                  snapshots |-> [t \in {} |-> 0]]]
  /\ runs' = [runs EXCEPT ![d] = IF @ = "none" /\ d <= today THEN "open" ELSE "mixed"]
  /\ before' = [before EXCEPT ![d] = {e \in 1 .. MaxDate : runs[e] = "complete"}]
  /\ UNCHANGED <<today, worldVars, closed, rows, known>>

\* periodic_daily_snapshot: once a day; a failed one is not repeated.
Daily ==
  /\ due /\ due' = FALSE
  /\ Begin("daily", today) /\ UNCHANGED events

\* POST /snapshots/create
Request ==
  /\ Event
  /\ \E d \in 1 .. MaxDate : Begin("request", d)
  /\ UNCHANGED due

\* get_trader_r_values
ClosedBefore(t, d) == {e \in closed : e.trader = t /\ e.date < d}

detect_death_events(t, current, peak) ==
  \/ current <= 0 \/ current < DEATH_ACCOUNT_FLOOR
  \/ 100 * current < (100 - DEATH_DRAWDOWN_PCT) * peak
  \/ trading[t] = "liquidated"

detect_censor_events(t) == trading[t] \in {"otherAssets", "inactive"}

avg_r_net(es) == MapThenSumSet(LAMBDA e : e.r, es) \div Cardinality(es) - CostR

\* The row of one trader, before the selection.  A trader outside the pool has
\* an account value of zero; the peak is that of all its rows, of any date.
Snapshot(j, t) ==
  LET es      == ClosedBefore(t, jobs[j].date)
      enough  == Cardinality(es) >= SNAPSHOT_MIN_EPISODES
      current == IF t \in jobs[j].pooled THEN jobs[j].values[t] ELSE 0
      peak    == Max({current} \cup {rows[k].account : k \in RowsOf(t)})
  IN  [account |-> current,
       quality |-> t \in jobs[j].pooled /\ enough,
       p |-> IF enough THEN PValue(es) ELSE NoP,
       profitable |-> es # {} /\ avg_r_net(es) >= SNAPSHOT_MIN_AVG_R_NET,
       event |-> IF detect_death_events(t, current, peak) THEN "death"
                 ELSE IF detect_censor_events(t) THEN "censored" ELSE "active",
       fdr |-> FALSE, selected |-> FALSE]

Assess(j) ==
  /\ jobs[j].pc = "assess"
  /\ \E t \in jobs[j].left :
       LET w == jobs[j]
       IN  /\ jobs' = [jobs EXCEPT ![j] = [w EXCEPT !.left = w.left \ {t},
                                            !.snapshots = Put(w.snapshots, t, Snapshot(j, t))]]
           /\ known' = [known EXCEPT ![w.date][t] = closed]
  /\ UNCHANGED <<today, due, worldVars, closed, rows, runs, before, events>>

\* The traders of p by their p-value, equal ones in any order.
Sorted(p) ==
  CHOOSE q \in [1 .. Cardinality(DOMAIN p) -> DOMAIN p] :
    IsInjective(q) /\ \A h, i \in DOMAIN q : h < i => p[q[h]] <= p[q[i]]

\* Slip: stops at the first that fails.
SelectUntilFailure(p) ==
  LET n == Cardinality(DOMAIN p)
      passes(i) == p[Sorted(p)[i]] * n <= i * SNAPSHOT_FDR_ALPHA
  IN  {Sorted(p)[i] : i \in {k \in 1 .. n : \A h \in 1 .. k : passes(h)}}

\* The first k* traders by p-value, k* the last i with p_i <= (i / n) * alpha.
benjamini_hochberg_select(p) ==
  LET n == Cardinality(DOMAIN p)
      k_star == Max({0} \cup {i \in 1 .. n : p[Sorted(p)[i]] * n <= i * SNAPSHOT_FDR_ALPHA})
  IN  {Sorted(p)[i] : i \in 1 .. k_star}

\* The qualification and the selection, with no await among them.
Select(j) ==
  /\ jobs[j].pc = "assess" /\ jobs[j].left = {}
  /\ LET s      == jobs[j].snapshots
         tested == {t \in DOMAIN s : s[t].p # NoP}
         fdr    == benjamini_hochberg_select([t \in tested |-> s[t].p])
         fit    == {t \in fdr : s[t].quality /\ s[t].profitable /\ s[t].event = "active"}
     IN  \E chosen \in SUBSET fit :
           /\ Cardinality(chosen) = Min({SelectionSize, Cardinality(fit)})
           /\ jobs' = [jobs EXCEPT ![j] =
                [pc |-> "persist", date |-> @.date,
                 snapshots |-> [t \in DOMAIN s |-> [s[t] EXCEPT !.fdr = t \in fdr,
                                                                !.selected = t \in chosen]]]]
  /\ UNCHANGED <<today, due, worldVars, closed, rows, runs, before, known, events>>

\* One row, inserted or replaced; a row that cannot be written is skipped.
Persist(j) ==
  /\ jobs[j].pc = "persist"
  /\ \E t \in DOMAIN jobs[j].snapshots, ok \in BOOLEAN :
       /\ IF ok THEN UNCHANGED events ELSE Event
       /\ rows' = IF ok THEN Put(rows, <<jobs[j].date, t>>, jobs[j].snapshots[t]) ELSE rows
       /\ runs' = IF ok THEN runs ELSE [runs EXCEPT ![jobs[j].date] = "mixed"]
       /\ jobs' = [jobs EXCEPT ![j].snapshots =
                     [u \in DOMAIN @ \ {t} |-> @[u]]]
  /\ UNCHANGED <<today, due, worldVars, closed, before, known>>

End(j) ==
  /\ jobs[j].pc = "persist" /\ DOMAIN jobs[j].snapshots = {}
  /\ jobs' = [jobs EXCEPT ![j] = Idle]
  /\ runs' = [runs EXCEPT ![jobs[j].date] = IF @ = "open" THEN "complete" ELSE @]
  /\ UNCHANGED <<today, due, worldVars, closed, rows, before, known, events>>

\* The process dies, or a query of a run fails.
Break(j) ==
  /\ jobs[j] # Idle /\ Event
  /\ jobs' = [jobs EXCEPT ![j] = Idle]
  /\ runs' = [runs EXCEPT ![jobs[j].date] = "mixed"]
  /\ UNCHANGED <<today, due, worldVars, closed, rows, before, known>>

--------------------------------------------------------------------------
\* The world the snapshots are of

NextDay ==
  /\ today < MaxDate /\ today' = today + 1 /\ due' = TRUE
  /\ UNCHANGED <<worldVars, closed, rows, jobs, runs, before, known, events>>

\* The closing of an episode is recorded: the day it closes, or later with the
\* date of the fill, which the reconciliation replays or the backfill adds.
Close ==
  /\ Event
  /\ \E t \in Trader, r \in R, d \in 1 .. today :
       closed' = closed \cup {[trader |-> t, r |-> r, date |-> d, id |-> events]}
  /\ UNCHANGED <<today, due, worldVars, rows, jobs, runs, before, known>>

Move ==
  /\ Event
  /\ \E t \in Trader :
       \/ pool' = (pool \cup {t}) \ (pool \cap {t}) /\ UNCHANGED <<account, trading>>
       \/ \E a \in Account \ {account[t]} :
            account' = [account EXCEPT ![t] = a] /\ UNCHANGED <<pool, trading>>
       \/ \E s \in Trading \ {trading[t]} :
            trading' = [trading EXCEPT ![t] = s] /\ UNCHANGED <<pool, account>>
  /\ UNCHANGED <<today, due, closed, rows, jobs, runs, before, known>>

Next ==
  \/ Daily \/ Request \/ NextDay \/ Close \/ Move
  \/ \E j \in Job : Assess(j) \/ Select(j) \/ Persist(j) \/ End(j) \/ Break(j)

Spec == Init /\ [][Next]_vars

--------------------------------------------------------------------------
Row(d, t) == <<d, t>> \in DOMAIN rows

\* Nobody drops out of sight: a trader with a row that is no death has a row on
\* every later date, whether it left the pool or not (snapshot.py:5-6), among
\* the dates written by one run each, one after the other.
NoSurvivorshipBias ==
  \A d \in 1 .. MaxDate, t \in Trader :
    runs[d] = "complete" =>
      \A e \in before[d] :
        (e < d /\ runs[e] = "complete" /\ Row(e, t) /\ rows[<<e, t>>].event # "death")
          => Row(d, t)

\* The qualified of a date are the largest set of traders whose p-values are
\* all at most its share of alpha.  The p-values are those of the episodes
\* closed before the date, however late the run is: all that were recorded when
\* it read the trader's, and none of the date itself or after it.  An episode
\* recorded later with a date before is not in it, and the row is not redone.
FDRControlled ==
  \A d \in {e \in 1 .. MaxDate : runs[e] = "complete"} :
    LET reference(t) == {e \in known[d][t] : e.trader = t /\ e.date < d}
        tested == {t \in Trader : Row(d, t) /\ Cardinality(reference(t)) >= SNAPSHOT_MIN_EPISODES}
        controlled(S) == \A t \in S :
          PValue(reference(t)) * Cardinality(tested) <= Cardinality(S) * SNAPSHOT_FDR_ALPHA
        qualified == {t \in Trader : Row(d, t) /\ rows[<<d, t>>].fdr}
    IN  /\ qualified \subseteq tested /\ controlled(qualified)
        /\ \A S \in SUBSET tested : controlled(S) => Cardinality(S) <= Cardinality(qualified)
=============================================================================
