----------------------------- MODULE AlphaPool -----------------------------
(***************************************************************************)
(* The Alpha Pool of hl-sage: the traders the system follows, refreshed    *)
(* from the leaderboard of Hyperliquid.                                    *)
(*                                                                         *)
(* A refresh is begun by the start of the process on an empty table, by    *)
(* the periodic task once the pool is a day old, and by POST requests.     *)
(* Refreshes may overlap; they share the fills cache and is_running with   *)
(* each other, and the cache with the periodic fill sync.  A second task   *)
(* keeps the subscriptions of hl-stream to the best traders of the pool.   *)
(* A step lasts from one await to the next.                                *)
(***************************************************************************)
EXTENDS Integers, FiniteSets, FiniteSetsExt, Sequences

CONSTANTS
  Trader,
  Request,            \* POST /alpha-pool/refresh
  RequestLimit,       \* their limit
  ALPHA_POOL_DEFAULT_SIZE,
  BANDIT_SELECT_K,
  CandidatesPerPlace, \* candidates collected per place of the pool (15)
  PollLimit,          \* traders the fill sync reads from the table (50)
  Boards,             \* leaderboards: [row, pnl, kind] of each trader, pnl 0 if it
                      \* is not on it or fails a filter that needs no call
  InitialFills,       \* fills of each trader on the venue
  HistoryLength,      \* fills the venue shows of a trader (external)
  Transaction(_, _),  \* hash of the n-th fill of a trader; fills may share one
  Posteriors,         \* trader_performance: nig_m of each trader
  MaxSlots,           \* websocket slots hl-stream has left for the pool
  MaxFills, MaxEvents  \* bounds: fills, and failures and changes together

Task == {"init", "periodic"} \cup Request
NoPerformance == [t \in {} |-> 0]
NoFills == [t \in {} |-> 0]
None == [pc |-> "none"]
\* lifespan starts the tasks; the first looks at the table after five seconds.
StartedTasks == [t \in Task |-> IF t = "init" THEN [pc |-> "wait"] ELSE None]

ASSUME AlphaPoolAssumption ==
  /\ \A b \in Boards, t \in Trader :
       b[t].row \in Nat /\ b[t].pnl \in Nat /\ b[t].kind \in {"clean", "hft", "subaccounts"}
  /\ \A p \in Posteriors : DOMAIN p = Trader
  /\ ALPHA_POOL_DEFAULT_SIZE \in Nat \ {0} /\ BANDIT_SELECT_K \in Nat \ {0}
  /\ {"init", "periodic"} \cap Request = {}

VARIABLES
  pool,        \* alpha_pool_addresses: status absent, active or inactive; pnl_30d
  recent,      \* its rows by last_refreshed, the latest first
  performance, \* trader_performance
  isRunning,   \* _refresh_state.is_running
  tasks,       \* the refresh each task is at work on
  cache,       \* _fills_cache: how many fills a trader had when they were read
  board,       \* leaderboard of the venue
  venue,       \* number of fills of each trader on the venue
  stored,      \* hashes of the trades in hl_events
  subscribed,  \* hl-stream: registered for the source alpha-pool
  websocket,   \* hl-stream: those of them with a websocket
  posted, events  \* requests made, counter of the bound

rowVars == <<pool, recent, performance>>
memoryVars == <<isRunning, tasks, cache>>
venueVars == <<board, venue>>
streamVars == <<subscribed, websocket>>
boundVars == <<posted, events>>
vars == <<rowVars, memoryVars, venueVars, stored, streamVars, boundVars>>

Hashes(t, fills) == {Transaction(t, n) : n \in fills}

TypeOK ==
  /\ isRunning \in BOOLEAN
  /\ \A t \in Trader : pool[t].status \in {"absent", "active", "inactive"}
  /\ {recent[i] : i \in DOMAIN recent} = {t \in Trader : pool[t].status # "absent"}
  /\ stored \subseteq UNION {Hashes(t, 1 .. venue[t]) : t \in Trader}
  /\ \A t \in Task : tasks[t].pc \in {"none", "wait", "created", "fetch", "analyze", "save",
                                      "deactivate", "backfill", "notify"}
  /\ \A t \in DOMAIN cache : cache[t] <= venue[t]
  /\ websocket \subseteq subscribed /\ Cardinality(websocket) <= MaxSlots

Active == {t \in Trader : pool[t].status = "active"}

Init ==
  /\ isRunning = FALSE
  /\ pool = [t \in Trader |-> [status |-> "absent", pnl |-> 0]] /\ recent = <<>>
  /\ performance = NoPerformance
  /\ tasks = StartedTasks /\ cache = NoFills
  /\ board \in Boards /\ venue = InitialFills /\ stored = {}
  /\ subscribed = {} /\ websocket = {}
  /\ posted = {} /\ events = 0

\* A call of the venue or the database answers, or an event is spent.
Answers(ok) ==
  /\ ok \/ events < MaxEvents
  /\ events' = events + (IF ok THEN 0 ELSE 1)

--------------------------------------------------------------------------
\* The ways a refresh begins

Begun(limit) == [pc |-> "fetch", limit |-> limit, batch |-> {}, new |-> {}]

\* auto_refresh_alpha_pool_if_empty: looks at the table and not at is_running;
\* when it cannot read the table it reports a failure of the refresh.
AutoRefresh ==
  /\ tasks["init"].pc = "wait"
  /\ \E ok \in BOOLEAN, empty \in {\A t \in Trader : pool[t].status = "absent"} :
       /\ Answers(ok)
       /\ isRunning' = IF ~ok THEN FALSE ELSE IF empty THEN TRUE ELSE isRunning
       /\ tasks' = [tasks EXCEPT !["init"] =
                      IF ok /\ empty THEN Begun(ALPHA_POOL_DEFAULT_SIZE) ELSE None]
  /\ UNCHANGED <<rowVars, cache, venueVars, stored, streamVars, posted>>

\* periodic_alpha_pool_refresh, whose first look comes two minutes later.  The
\* pool may always have become a day old.
Periodic ==
  /\ tasks["init"].pc # "wait" /\ tasks["periodic"] = None
  /\ ~isRunning /\ isRunning' = TRUE
  /\ tasks' = [tasks EXCEPT !["periodic"] = Begun(ALPHA_POOL_DEFAULT_SIZE)]
  /\ UNCHANGED <<rowVars, cache, venueVars, stored, streamVars, boundVars>>

\* refresh_alpha_pool: the task it creates sets is_running when it runs.
Post(r) ==
  /\ r \notin posted /\ posted' = posted \cup {r}
  /\ ~isRunning
  /\ tasks' = [tasks EXCEPT ![r] = [pc |-> "created"]]
  /\ UNCHANGED <<rowVars, isRunning, cache, venueVars, stored, streamVars, events>>

Start(r) ==
  /\ tasks[r].pc = "created"
  /\ isRunning' = TRUE
  /\ tasks' = [tasks EXCEPT ![r] = Begun(RequestLimit)]
  /\ UNCHANGED <<rowVars, cache, venueVars, stored, streamVars, boundVars>>

--------------------------------------------------------------------------
\* The refresh: _do_refresh_alpha_pool in _background_refresh_task

\* Slip: a refresh that fails leaves is_running set.
AbortRunning(t) ==
  /\ cache' = NoFills /\ isRunning' = isRunning
  /\ tasks' = [tasks EXCEPT ![t] = None]

\* An exception empties the cache and ends the refresh.
Abort(t) ==
  /\ cache' = NoFills /\ isRunning' = FALSE
  /\ tasks' = [tasks EXCEPT ![t] = None]

\* The candidates pass the filters that need no calls; they are collected in
\* the order of the leaderboard, until there are enough of them.
Candidates(limit) ==
  LET passing == {c \in Trader : board[c].pnl > 0}
  IN  {c \in passing : Cardinality({d \in passing : board[d].row < board[c].row})
                          < limit * CandidatesPerPlace}

\* The leaderboard, whose candidates are then taken by their pnl.
Fetch(t) ==
  /\ tasks[t].pc = "fetch"
  /\ \E ok \in BOOLEAN, found \in {Candidates(tasks[t].limit)} :
       /\ Answers(ok)
       /\ IF ok /\ found # {}
          THEN /\ tasks' = [tasks EXCEPT ![t] =
                              [pc |-> "analyze", limit |-> @.limit, batch |-> {}, new |-> {},
                               listed |-> [c \in found |-> board[c].pnl]]]
               /\ UNCHANGED <<cache, isRunning>>
          ELSE Abort(t)
  /\ UNCHANGED <<rowVars, venueVars, stored, streamVars, posted>>

Caching(c) == [d \in DOMAIN cache \cup {c} |-> IF d = c THEN venue[c] ELSE cache[d]]

Best(listed) == {c \in DOMAIN listed : \A d \in DOMAIN listed : listed[d] <= listed[c]}

\* The batch is complete, or the candidates are exhausted; an empty batch is an
\* error.
Analyzed(t, batch, listed) ==
  IF Cardinality(batch) < tasks[t].limit /\ DOMAIN listed # {}
  THEN /\ tasks' = [tasks EXCEPT ![t].batch = batch, ![t].listed = listed]
       /\ UNCHANGED isRunning
  ELSE IF batch # {}
  THEN /\ tasks' = [tasks EXCEPT ![t] =
                      [pc |-> "save", batch |-> batch, new |-> {}, left |-> batch]]
       /\ UNCHANGED isRunning
  ELSE isRunning' = FALSE /\ tasks' = [tasks EXCEPT ![t] = None]

\* The fills of the next candidate are cached and analysed, then its
\* subaccounts are looked up; a failure of the first call skips it, one of the
\* second counts as having none.
Analyze(t) ==
  /\ tasks[t].pc = "analyze"
  /\ \E c \in Best(tasks[t].listed), fetched, known \in BOOLEAN :
       LET passes == /\ fetched
                     /\ board[c].kind # "hft"
                     /\ ~known \/ board[c].kind # "subaccounts"
                     /\ venue[c] > 0
           batch  == tasks[t].batch \cup
                       IF passes THEN {[trader |-> c, pnl |-> tasks[t].listed[c]]} ELSE {}
           listed == [d \in DOMAIN tasks[t].listed \ {c} |-> tasks[t].listed[d]]
       IN  /\ Answers(fetched /\ known)
           /\ Analyzed(t, batch, listed)
           /\ cache' = IF batch = {} /\ DOMAIN listed = {} THEN NoFills
                       ELSE IF fetched THEN Caching(c) ELSE cache
  /\ UNCHANGED <<rowVars, venueVars, stored, streamVars, posted>>

\* Slip: the upsert does not set is_active.
UpsertedKeepStatus(old, pnl) ==
  [status |-> IF old.status = "absent" THEN "active" ELSE old.status, pnl |-> pnl]

Upserted(old, pnl) == [status |-> "active", pnl |-> pnl]

\* The row of one trader; a failing statement ends the refresh.
Save(t) ==
  /\ tasks[t].pc = "save" /\ tasks[t].left # {}
  /\ \E ok \in BOOLEAN, c \in tasks[t].left :
       /\ \A d \in tasks[t].left : d.pnl <= c.pnl
       /\ Answers(ok)
       /\ IF ok
          THEN /\ pool' = [pool EXCEPT ![c.trader] = Upserted(@, c.pnl)]
               /\ recent' = <<c.trader>> \o SelectSeq(recent, LAMBDA d : d # c.trader)
               /\ tasks' = [tasks EXCEPT ![t].left = @ \ {c},
                    ![t].new = IF pool[c.trader].status = "absent" THEN @ \cup {c.trader} ELSE @]
               /\ UNCHANGED <<cache, isRunning>>
          ELSE Abort(t) /\ UNCHANGED <<pool, recent>>
  /\ UNCHANGED <<performance, venueVars, stored, streamVars, posted>>

\* The others are deactivated, in one statement.
Deactivate(t) ==
  /\ tasks[t].pc = "save" /\ tasks[t].left = {}
  /\ \E ok \in BOOLEAN :
       /\ Answers(ok)
       /\ IF ok
          THEN /\ pool' = [c \in Trader |->
                    IF c \notin {b.trader : b \in tasks[t].batch} /\ pool[c].status = "active"
                    THEN [pool[c] EXCEPT !.status = "inactive"] ELSE pool[c]]
               /\ tasks' = [tasks EXCEPT ![t] = [pc |-> "backfill", new |-> @.new,
                                                  found |-> @.new # {}]]
               /\ UNCHANGED <<cache, isRunning>>
          ELSE Abort(t) /\ UNCHANGED pool
  /\ UNCHANGED <<recent, performance, venueVars, stored, streamVars, posted>>

\* The fills the venue shows of a trader that has made n.
History(n) == Max({1, n - HistoryLength + 1}) .. n

\* backfill_one: the fills come from the cache when it has them, and are
\* cached when they are fetched; a failing fetch is passed over, and so is a
\* failing insert of a fill.  A fill whose hash is stored is not inserted: of
\* the fills of one transaction there is one.  What is inserted is published
\* to hl-decide as well.
backfill_one(c) ==
  \E fetched, inserted \in BOOLEAN :
    /\ Answers(fetched /\ inserted)
    /\ c \in DOMAIN cache => fetched
    /\ IF fetched
       THEN LET n == IF c \in DOMAIN cache THEN cache[c] ELSE venue[c]
                hashes == Hashes(c, History(n))
            IN  /\ \E some \in IF inserted THEN {hashes} ELSE SUBSET hashes :
                     stored' = stored \cup some
                /\ cache' = IF c \in DOMAIN cache THEN cache ELSE Caching(c)
       ELSE UNCHANGED <<stored, cache>>

Backfill(t) ==
  /\ tasks[t].pc = "backfill"
  /\ \E c \in tasks[t].new :
       /\ backfill_one(c)
       /\ tasks' = [tasks EXCEPT ![t].new = @ \ {c}]
  /\ UNCHANGED <<rowVars, isRunning, venueVars, streamVars, posted>>

Clear(t) ==
  /\ tasks[t].pc = "backfill" /\ tasks[t].new = {}
  /\ cache' = NoFills
  /\ tasks' = [tasks EXCEPT ![t] = [pc |-> "notify", found |-> @.found]]
  /\ UNCHANGED <<rowVars, isRunning, venueVars, stored, streamVars, boundVars>>

\* hl-decide was told to reconcile, or could not be.  Without new traders the
\* result names a variable that was never set, and the refresh ends as failed.
Finish(t) ==
  /\ tasks[t].pc = "notify"
  /\ IF tasks[t].found
     THEN isRunning' = FALSE /\ tasks' = [tasks EXCEPT ![t] = None] /\ UNCHANGED cache
     ELSE Abort(t)
  /\ UNCHANGED <<rowVars, venueVars, stored, streamVars, boundVars>>

Refresh(t) ==
  \/ Fetch(t) \/ Analyze(t) \/ Save(t) \/ Deactivate(t)
  \/ Backfill(t) \/ Clear(t) \/ Finish(t)

--------------------------------------------------------------------------
\* The fill sync and the subscription sync

\* The active traders that were refreshed last.
LastRefreshed ==
  LET rows == SelectSeq(recent, LAMBDA t : t \in Active)
  IN  {rows[i] : i \in 1 .. Min({PollLimit, Len(rows)})}


\* Those of them hl-stream knows without a websocket.
Polled == (LastRefreshed \cap subscribed) \ websocket

\* periodic_alpha_pool_fill_sync, one trader at a time; a trader that stops being
\* followed between the query and its turn is polled as by a request.
FillSync(c) ==
  /\ c \in Polled /\ backfill_one(c)
  /\ UNCHANGED <<rowVars, isRunning, tasks, venueVars, streamVars, posted>>

\* POST /alpha-pool/backfill of one or of all traders
BackfillRequest(c) ==
  /\ pool[c].status # "absent"
  /\ backfill_one(c)
  /\ UNCHANGED <<rowVars, isRunning, tasks, venueVars, streamVars, posted>>

\* Slip: inactive rows compete.
RankedAll == {t \in Trader : pool[t].status # "absent"}

\* The rows the sync ranks: by the posterior mean, or by pnl while nobody has
\* a posterior.
Ranked == Active

Score(t) == IF performance = NoPerformance THEN pool[t].pnl ELSE performance[t]

\* The first BANDIT_SELECT_K, ties in any order.
Selected ==
  {S \in SUBSET Ranked :
     /\ Cardinality(S) = Min({BANDIT_SELECT_K, Cardinality(Ranked)})
     /\ \A s \in S, t \in Ranked \ S : Score(t) <= Score(s)}

\* sync_alpha_pool_subscriptions; an empty pool keeps its subscriptions.
\* hl-stream gives websockets to those the other sources leave slots for.
SyncSubscriptions ==
  /\ Active # {}
  /\ \E ok \in BOOLEAN, selected \in Selected :
       /\ Answers(ok)
       /\ IF ok
          THEN /\ subscribed' = selected
               /\ websocket' \in IF subscribed = selected THEN {websocket}
                                 ELSE {w \in SUBSET selected : Cardinality(w) <= MaxSlots}
          ELSE UNCHANGED streamVars
  /\ UNCHANGED <<rowVars, memoryVars, venueVars, stored, posted>>

--------------------------------------------------------------------------
\* The rest of the world

\* The process dies and starts again.
Restart ==
  /\ events < MaxEvents /\ events' = events + 1
  /\ isRunning' = FALSE /\ tasks' = StartedTasks
  /\ cache' = NoFills
  /\ UNCHANGED <<rowVars, venueVars, stored, streamVars, posted>>

\* hl-stream forgets its registrations.
StreamRestart ==
  /\ events < MaxEvents /\ events' = events + 1
  /\ subscribed' = {} /\ websocket' = {}
  /\ UNCHANGED <<rowVars, memoryVars, venueVars, stored, posted>>

\* A trader trades; hl-stream stores what it is streamed, once per hash.
Trade(t) ==
  /\ MapThenSumSet(LAMBDA c : venue[c] - InitialFills[c], Trader) < MaxFills
  /\ venue' = [venue EXCEPT ![t] = @ + 1]
  /\ stored' = IF t \in websocket THEN stored \cup Hashes(t, {venue[t] + 1}) ELSE stored
  /\ UNCHANGED <<rowVars, memoryVars, board, streamVars, boundVars>>

Change ==
  /\ events < MaxEvents /\ events' = events + 1
  /\ \/ board' \in Boards \ {board} /\ UNCHANGED performance
     \/ performance' \in Posteriors \ {performance} /\ UNCHANGED board
  /\ UNCHANGED <<pool, recent, memoryVars, venue, stored, streamVars, posted>>

Next ==
  \/ AutoRefresh \/ Periodic \/ Restart \/ StreamRestart
  \/ \E r \in Request : Post(r) \/ Start(r)
  \/ \E t \in Task : Refresh(t)
  \/ SyncSubscriptions
  \/ \E c \in Trader : FillSync(c) \/ BackfillRequest(c) \/ Trade(c)
  \/ Change

(* The timers of the process go on, its tasks come to their next await, and *)
(* hl-stream answers in the end.                                            *)
Fairness ==
  /\ WF_vars(AutoRefresh) /\ WF_vars(Periodic)
  /\ \A r \in Request : WF_vars(Start(r))
  /\ \A t \in Task : WF_vars(Refresh(t))
  /\ \A c \in Trader : WF_vars(FillSync(c))
  /\ WF_vars(SyncSubscriptions)

Spec == Init /\ [][Next]_vars /\ Fairness

--------------------------------------------------------------------------
\* What a refresh of the default size may end up with: the best of those
\* candidates that stand the looks at their fills and subaccounts.
Clean == {t \in Candidates(ALPHA_POOL_DEFAULT_SIZE) : board[t].kind = "clean" /\ venue[t] > 0}
Qualified ==
  {S \in SUBSET Clean :
     /\ Cardinality(S) = Min({ALPHA_POOL_DEFAULT_SIZE, Cardinality(Clean)})
     /\ \A s \in S, t \in Clean \ S : board[t].pnl <= board[s].pnl}

\* Once the leaderboard rests the pool comes to hold the best of its candidates
\* and nobody else, whatever refreshes overlapped, failed or were cut short
\* before, and however many traders the requests among them asked for; without
\* a clean candidate the pool stays.
PoolFollowsBoard == <>[](Clean # {} => Active \in Qualified)

\* hl-stream comes to follow the best of the pool by the scores of hl-sage; of
\* a pool that two refreshes emptied between them it keeps what it has.
FollowsBest ==
  /\ subscribed \subseteq Active
  /\ Cardinality(subscribed) = Min({BANDIT_SELECT_K, Cardinality(Active)})
  /\ \A s \in subscribed, t \in Active \ subscribed : Score(t) <= Score(s)
SubscriptionsFollow == <>[](Active # {} => FollowsBest)

=============================================================================
