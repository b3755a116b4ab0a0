------------------------------ MODULE Episodes ------------------------------
(***************************************************************************)
(* How the fills of one trader in one asset become positions and outcomes. *)
(*                                                                         *)
(* hl-stream stores each fill of the exchange in hl_events and publishes   *)
(* it on c.fills.v1.  hl-decide feeds the fills, from the subject and from *)
(* reconciliations that read hl_events, to one in-memory EpisodeTracker;   *)
(* opened and closed episodes become rows of position_signals, and every   *)
(* closed row updates the trader's posterior once (positions_closed).      *)
(*                                                                         *)
(* Tasks are asyncio tasks: a step is the code between two awaits of a     *)
(* database call.  Prices, P&L and the posterior's numbers are left out.   *)
(* Sizes are numbers of units; that the code adds them up as floats shows  *)
(* where a position returns to zero (Residue).                             *)
(***************************************************************************)
EXTENDS Integers, Sequences, FiniteSets, SequencesExt, FiniteSetsExt

CONSTANTS
    Scheduled,    \* the reconciliation the process runs itself: at startup,
                  \* then periodically
    Requests,     \* reconciliations POST /reconcile may run beside it
    Sizes,        \* sizes a fill can have
    MaxPosition,  \* bound: largest position the trader takes
    MaxTrades,    \* bound: fills of the exchange
    MaxPartials,  \* bound: fills that share the transaction of the one before
    MaxRepeats,   \* bound: fills that come from a second source
    MaxRestarts,  \* bound: crashes of hl-decide
    MaxFailures   \* bound: failing database or NATS calls

ASSUME EpisodesAssumption ==
    /\ Scheduled \notin Requests
    /\ "live" \notin Requests \cup {Scheduled}
    /\ IsFiniteSet(Requests)
    /\ Sizes \subseteq Nat \ {0}
    /\ {MaxPosition, MaxTrades, MaxPartials, MaxRepeats,
        MaxRestarts, MaxFailures} \subseteq Nat

VARIABLES
    trades,    \* the exchange's fills in order: [tx, size (signed), start]
    stored,    \* hl_events: the trades that are rows, one for a transaction
    outbox,    \* stored by hl-stream and about to be published
    repeated,  \* history: fills that came from a second source
    mode,      \* hl-decide: "down", "boot" (startup's reconciliation), "up"
    queue,     \* queue[t]: the fills task t has still to handle
    task,      \* task[t]: where t stands in handle_fill_via_episodes
    open,      \* EpisodeTracker.open_episodes of this trader and asset
    marked,    \* episode_fill_ids
    signals,   \* position_signals, in insertion order
    opened,    \* trader_performance.positions_opened
    credited,  \* trader_performance.positions_closed: posterior updates
    booked,    \* history: fills process_fill has seen, in that order, and
               \* whether the sum was exact
    raced,     \* history: fills one task read while another still held them
    restarts,  \* counters of the last two bounds
    failures,
    cut        \* history: fills that were claimed and never processed

stream  == <<trades, stored, outbox, repeated>>
tracker == <<open, booked>>
tables  == <<signals, opened, credited>>
faults  == <<restarts, failures, cut>>
vars == <<stream, mode, queue, task, tracker, marked, tables, raced, faults>>

Reconcilers == Requests \cup {Scheduled}
Tasks == Reconcilers \cup {"live"}
None == [kind |-> "none"]
Abs(n) == IF n < 0 THEN -n ELSE n

Position == IF trades = <<>> THEN 0 ELSE Last(trades).start + Last(trades).size

-----------------------------------------------------------------------------
\* EpisodeTracker: pure functions of the open episode and a fill.

NewEpisode(fill, position) ==
    [dir |-> IF position > 0 THEN "long" ELSE "short", size |-> Abs(position),
     first |-> fill.at, entries |-> 1, exited |-> 0, summed |-> FALSE]

\* prev_position: the entry size less what the exit fills have taken off.
NetPosition(ep) ==
    IF ep = None THEN 0
    ELSE (IF ep.dir = "long" THEN ep.size ELSE -ep.size) + ep.exited

\* Slip: a position that returns to zero has not crossed.
CrossesStrictly(prev, new) == (prev > 0 /\ new < 0) \/ (prev < 0 /\ new > 0)

Crosses(prev, new) == (prev > 0 /\ new <= 0) \/ (prev < 0 /\ new >= 0)

\* Slip: a flip only closes.
close_episodeOnly(fill, new) == None

\* _close_episode: the open episode that remains; a flip starts a new one.
close_episode(fill, new) ==
    IF new # 0 THEN [NewEpisode(fill, new) EXCEPT !.summed = TRUE] ELSE None

\* Floats: 0.1 + 0.2 - 0.3 is not zero.  A position that was summed up may
\* return to a residue on its own side of zero, which is no crossing and, being
\* below 1e-9, no reduction either; x - x is zero.
Residue(ep, fill) == ep # None /\ ep.summed /\ NetPosition(ep) + fill.size = 0

process_fill(ep, fill, exact) ==
    LET prev == NetPosition(ep)
        new  == prev + fill.size
    IN  CASE prev = 0 -> [open |-> [NewEpisode(fill, new) EXCEPT !.summed = ep # None],
                          closed |-> None]
          [] prev # 0 /\ ~exact -> [open |-> ep, closed |-> None]
          [] exact /\ Crosses(prev, new) -> [open |-> close_episode(fill, new), closed |-> ep]
          [] prev # 0 /\ exact /\ ~Crosses(prev, new) /\ Abs(new) > Abs(prev) ->
                [open |-> [ep EXCEPT !.entries = @ + 1, !.size = Abs(new), !.summed = TRUE],
                 closed |-> None]
          [] OTHER -> [open |-> [ep EXCEPT !.exited = @ + fill.size, !.summed = TRUE],
                       closed |-> None]

-----------------------------------------------------------------------------
\* hl-stream

Tx(i) == trades[i].tx

\* The side a reconciliation derives from the action label of the row: what
\* is not labelled "Close" counts as opening, so a "Decrease Long" is a buy.
Labelled(trade) ==
    LET after == trade.start + trade.size
        isLong == trade.start > 0 \/ (trade.start = 0 /\ trade.size > 0)
        isClose == trade.start # 0 /\ after = 0
    IN  IF isLong # isClose THEN Abs(trade.size) ELSE -Abs(trade.size)

liveFill(i) == [at |-> i, size |-> trades[i].size]
rowFill(i)  == [at |-> i, size |-> Labelled(trades[i])]

\* The side hl-sage publishes: a buy is what opens or increases a long.
backfillFill(i) ==
    [at |-> i, size |-> IF trades[i].start >= 0 /\ trades[i].size > 0
                        THEN trades[i].size ELSE -Abs(trades[i].size)]

\* insertTradeIfNew keeps one row for a transaction, with its latest fill.
insertTradeIfNew(rows, i, tx) ==
    {j \in rows : Tx(j) # tx} \cup {i}

\* A fill arrives in hl-stream: stored (an error is swallowed), then pushed.
onUserEvents(size, sameTx, stores) ==
    LET i == Len(trades) + 1
        tx == IF sameTx THEN Last(trades).tx ELSE i
    IN  /\ Len(trades) < MaxTrades
        /\ Abs(Position + size) <= MaxPosition
        /\ sameTx => /\ trades # <<>>
                     /\ Cardinality({j \in DOMAIN trades : Tx(j) # j}) < MaxPartials
        /\ stores \/ failures < MaxFailures
        /\ trades' = Append(trades, [tx |-> tx, size |-> size, start |-> Position])
        /\ stored' = IF stores THEN insertTradeIfNew(stored, i, tx) ELSE stored
        /\ outbox' = Append(outbox, i)
        /\ failures' = IF stores THEN failures ELSE failures + 1
        /\ UNCHANGED <<repeated, mode, queue, task, tracker, marked, tables, raced, restarts, cut>>

\* A trader on two connections, as overlapping refreshes leave it, has every
\* fill reported twice: onTrade is called whatever insertTradeIfNew found.
ArrivesAgain(i, stores) ==
    /\ i \notin repeated /\ Cardinality(repeated) < MaxRepeats
    /\ stores \/ failures < MaxFailures
    /\ repeated' = repeated \cup {i}
    /\ stored' = IF stores THEN insertTradeIfNew(stored, i, Tx(i)) ELSE stored
    /\ outbox' = Append(outbox, i)
    /\ failures' = IF stores THEN failures ELSE failures + 1
    /\ UNCHANGED <<trades, mode, queue, task, tracker, marked, tables, raced, restarts, cut>>

Delivered(fill, sent) ==
    IF sent /\ mode = "up" THEN [queue EXCEPT !["live"] = Append(@, fill)] ELSE queue

\* backfill_one of hl-sage: a fill whose transaction has no row is stored, and
\* published by hl-sage as well.
Backfill(i, sent) ==
    /\ \A j \in stored : Tx(j) # Tx(i)
    /\ i \notin repeated /\ Cardinality(repeated) < MaxRepeats
    /\ sent \/ failures < MaxFailures
    /\ repeated' = repeated \cup {i}
    /\ stored' = stored \cup {i}
    /\ queue' = Delivered(backfillFill(i), sent)
    /\ failures' = IF sent THEN failures ELSE failures + 1
    /\ UNCHANGED <<trades, outbox, mode, task, tracker, marked, tables, raced, restarts, cut>>

\* publishFillFromEvent: at most once.  A core NATS subscription keeps
\* nothing for a subscriber that is not there, and an error is swallowed.
Publish(sent) ==
    /\ outbox # <<>>
    /\ sent \/ failures < MaxFailures
    /\ outbox' = Tail(outbox)
    /\ queue' = Delivered(liveFill(Head(outbox)), sent)
    /\ failures' = IF sent THEN failures ELSE failures + 1
    /\ UNCHANGED <<trades, stored, repeated, mode, task, tracker, marked, tables, raced,
                   restarts, cut>>

-----------------------------------------------------------------------------
\* handle_fill_via_episodes, for the live subscription and for each row of a
\* reconciliation

Idle == [pc |-> "idle", fill |-> None, ep |-> None, row |-> 0]
Working(t) == task[t].pc # "idle" \/ queue[t] # <<>>

\* The call returns: a reconciliation then marks the row once more.
Returned(t) == [Idle EXCEPT !.pc = IF t = "live" THEN "idle" ELSE "rowDone",
                            !.fill = IF t = "live" THEN None ELSE task[t].fill]

\* Slip: only reconciled fills are marked.
MarkReconciled(t) ==
    /\ task[t].pc = "idle"
    /\ queue[t] # <<>>
    /\ marked' = IF t = "live" THEN marked ELSE marked \cup {Tx(Head(queue[t]).at)}
    /\ task' = [task EXCEPT ![t] = [@ EXCEPT !.pc = "marked", !.fill = Head(queue[t])]]
    /\ queue' = [queue EXCEPT ![t] = Tail(@)]
    /\ UNCHANGED <<stream, mode, tracker, tables, raced, faults>>

\* The fill's id goes to episode_fill_ids first.  Whether it was there is
\* not looked at.
Mark(t) ==
    /\ task[t].pc = "idle"
    /\ queue[t] # <<>>
    /\ marked' = marked \cup {Tx(Head(queue[t]).at)}
    /\ task' = [task EXCEPT ![t] = [@ EXCEPT !.pc = "marked", !.fill = Head(queue[t])]]
    /\ queue' = [queue EXCEPT ![t] = Tail(@)]
    /\ UNCHANGED <<stream, mode, tracker, tables, raced, faults>>

\* The synchronous part: the tracker, and what has to be persisted.
Process(t, exact) ==
    LET result == process_fill(open, task[t].fill, exact)
        next == CASE result.closed # None ->
                        [task[t] EXCEPT !.pc = "select", !.ep = result.closed]
                  [] result.closed = None /\ result.open.entries = 1 ->
                        [task[t] EXCEPT !.pc = "insert", !.ep = result.open]
                  [] OTHER -> Returned(t)
    IN  /\ task[t].pc = "marked"
        /\ exact \/ Residue(open, task[t].fill)
        /\ open' = result.open
        /\ booked' = Append(booked, [task |-> t, fill |-> task[t].fill, exact |-> exact])
        /\ task' = [task EXCEPT ![t] = next]
        /\ UNCHANGED <<stream, mode, queue, marked, tables, raced, faults>>

\* persist_open_episode: INSERT ... ON CONFLICT (entry_fill_id) DO NOTHING,
InsertSignal(t) ==
    LET ep == task[t].ep
        known == \E k \in DOMAIN signals : Tx(signals[k].first) = Tx(ep.first)
    IN  /\ task[t].pc = "insert"
        /\ signals' = IF known THEN signals
                      ELSE Append(signals, [dir |-> ep.dir, first |-> ep.first,
                                            status |-> "open", exit |-> 0])
        /\ task' = [task EXCEPT ![t].pc = "count"]
        /\ UNCHANGED <<stream, mode, queue, tracker, marked, opened, credited, raced, faults>>

\* then positions_opened + 1, whether a row was inserted or not.
CountOpened(t) ==
    /\ task[t].pc = "count"
    /\ opened' = opened + 1
    /\ task' = [task EXCEPT ![t] = Returned(t)]
    /\ UNCHANGED <<stream, mode, queue, tracker, marked, signals, credited, raced, faults>>

\* persist_closed_episode: the newest open row of the episode's direction,
SelectSignal(t) ==
    LET rows == {k \in DOMAIN signals : signals[k].status = "open"
                                        /\ signals[k].dir = task[t].ep.dir}
        newest == CHOOSE k \in rows : \A m \in rows : signals[m].first <= signals[k].first
    IN  /\ task[t].pc = "select"
        /\ task' = [task EXCEPT ![t] = IF rows = {} THEN Returned(t)
                                       ELSE [@ EXCEPT !.pc = "update", !.row = newest]]
        /\ UNCHANGED <<stream, mode, queue, tracker, marked, tables, raced, faults>>

\* Slip: only outcomes of long positions go on to the posterior.
UpdateSignalOnly(t) ==
    /\ task[t].pc = "update"
    /\ signals' = [signals EXCEPT ![task[t].row] =
                     [@ EXCEPT !.status = "closed", !.exit = task[t].fill.at]]
    /\ task' = [task EXCEPT ![t] = IF @.ep.dir = "long" THEN [@ EXCEPT !.pc = "credit"]
                                   ELSE Returned(t)]
    /\ UNCHANGED <<stream, mode, queue, tracker, marked, opened, credited, raced, faults>>

\* is closed by its id, whatever its status is by now,
UpdateSignal(t) ==
    /\ task[t].pc = "update"
    /\ signals' = [signals EXCEPT ![task[t].row] =
                     [@ EXCEPT !.status = "closed", !.exit = task[t].fill.at]]
    /\ task' = [task EXCEPT ![t].pc = "credit"]
    /\ UNCHANGED <<stream, mode, queue, tracker, marked, opened, credited, raced, faults>>

\* and update_trader_performance moves the posterior.
update_trader_performance(t) ==
    /\ task[t].pc = "credit"
    /\ credited' = credited + 1
    /\ task' = [task EXCEPT ![t] = Returned(t)]
    /\ UNCHANGED <<stream, mode, queue, tracker, marked, signals, opened, raced, faults>>

\* Any database call may fail; every error is swallowed and the call returns.
\* A failing mark has taken the fill off the queue all the same.
DatabaseFails(t) ==
    /\ failures < MaxFailures
    /\ failures' = failures + 1
    /\ \/ /\ task[t].pc = "idle"
          /\ queue[t] # <<>>
          /\ queue' = [queue EXCEPT ![t] = Tail(@)]
          /\ task' = [task EXCEPT ![t] = [Idle EXCEPT
                        !.pc = IF t = "live" THEN "idle" ELSE "rowDone",
                        !.fill = IF t = "live" THEN None ELSE Head(queue[t])]]
       \/ /\ task[t].pc \in {"insert", "count", "select", "update", "credit"}
          /\ task' = [task EXCEPT ![t] = Returned(t)]
          /\ UNCHANGED queue
       \/ /\ task[t].pc = "rowDone"
          /\ task' = [task EXCEPT ![t] = Idle]
          /\ UNCHANGED queue
    /\ UNCHANGED <<stream, mode, tracker, marked, tables, raced, restarts, cut>>

-----------------------------------------------------------------------------
\* reconcile_historical_fills

\* The rows that are not marked, in the order of their time.  (force=true,
\* which takes the marked ones too, is left out: it books twice on request.)
historicalFills ==
    LET rows == {i \in stored : Tx(i) \notin marked}
    IN  [k \in 1..Cardinality(rows) |->
           CHOOSE i \in rows : Cardinality({j \in rows : j <= i}) = k]

Held(t) == {queue[t][k].at : k \in DOMAIN queue[t]}
              \cup (IF task[t].fill = None THEN {} ELSE {task[t].fill.at})

\* The fills that are not with r: another task or hl-stream still holds them.
Elsewhere(r) == (UNION {Held(t) : t \in Tasks \ {r}}) \cup ToSet(outbox)

\* One query; what it returned is worked off without looking again.
ReadHistory(r) ==
    LET rows == historicalFills
    IN  /\ queue' = [queue EXCEPT ![r] = [k \in DOMAIN rows |-> rowFill(rows[k])]]
        /\ raced' = raced \cup (ToSet(rows) \cap Elsewhere(r))

\* Slip: the periodic task does not survive the first one.
ReconcileOnRequest(r) ==
    /\ mode = "up"
    /\ r # Scheduled
    /\ ~Working(r)
    /\ ReadHistory(r)
    /\ UNCHANGED <<stream, mode, task, tracker, marked, tables, faults>>

\* periodic_reconciliation_task and POST /reconcile.
Reconcile(r) ==
    /\ mode = "up"
    /\ ~Working(r)
    /\ ReadHistory(r)
    /\ UNCHANGED <<stream, mode, task, tracker, marked, tables, faults>>

BookedFills == {booked[k].fill.at : k \in DOMAIN booked}

\* The end of a row's handling in a reconciliation, which is reached also when
\* the first mark has failed and the fill was not processed.
MarkRow(r) ==
    /\ task[r].pc = "rowDone"
    /\ marked' = marked \cup {Tx(task[r].fill.at)}
    /\ cut' = cut \cup ({task[r].fill.at} \ BookedFills)
    /\ task' = [task EXCEPT ![r] = Idle]
    /\ UNCHANGED <<stream, mode, queue, tracker, tables, raced, restarts, failures>>

-----------------------------------------------------------------------------
\* The process

\* lifespan: bootstrap_from_historical_fills is awaited; if its query fails
\* startup goes on without it,
Start ==
    /\ mode = "down"
    /\ mode' = "boot"
    /\ \/ /\ ReadHistory(Scheduled)
          /\ UNCHANGED failures
       \/ /\ failures < MaxFailures
          /\ failures' = failures + 1
          /\ UNCHANGED <<queue, raced>>
    /\ UNCHANGED <<stream, task, tracker, marked, tables, restarts, cut>>

\* and only then c.fills.v1 is subscribed to.
Subscribe ==
    /\ mode = "boot"
    /\ ~Working(Scheduled)
    /\ mode' = "up"
    /\ UNCHANGED <<stream, queue, task, tracker, marked, tables, raced, faults>>

\* The process dies: episodes and undelivered messages go with it.
\* restore_state brings back scores and fills, never episodes.
Crash ==
    /\ mode # "down"
    /\ restarts < MaxRestarts
    /\ restarts' = restarts + 1
    /\ mode' = "down"
    /\ queue' = [t \in Tasks |-> <<>>]
    /\ task' = [t \in Tasks |-> Idle]
    /\ open' = None
    /\ cut' = cut \cup {task[t].fill.at : t \in {u \in Tasks : task[u].pc = "marked"}}
    /\ UNCHANGED <<stream, marked, tables, booked, raced, failures>>

Init ==
    /\ trades = <<>> /\ stored = {} /\ outbox = <<>> /\ repeated = {}
    /\ mode = "down"
    /\ queue = [t \in Tasks |-> <<>>]
    /\ task = [t \in Tasks |-> Idle]
    /\ open = None
    /\ marked = {}
    /\ signals = <<>>
    /\ opened = 0 /\ credited = 0
    /\ booked = <<>> /\ cut = {} /\ raced = {}
    /\ restarts = 0 /\ failures = 0

Exchange == \E n \in Sizes, sameTx, stores \in BOOLEAN :
               onUserEvents(n, sameTx, stores) \/ onUserEvents(-n, sameTx, stores)

SecondSource == \E i \in DOMAIN trades, ok \in BOOLEAN : ArrivesAgain(i, ok) \/ Backfill(i, ok)

Step(t) == \/ Mark(t) \/ \E exact \in BOOLEAN : Process(t, exact)
           \/ InsertSignal(t) \/ CountOpened(t)
           \/ SelectSignal(t) \/ UpdateSignal(t) \/ update_trader_performance(t)
           \/ MarkRow(t)

Next ==
    \/ Exchange \/ SecondSource
    \/ \E sent \in BOOLEAN : Publish(sent)
    \/ \E t \in Tasks : Step(t) \/ DatabaseFails(t)
    \/ \E r \in Reconcilers : Reconcile(r)
    \/ Start \/ Subscribe \/ Crash

Spec == Init /\ [][Next]_vars

\* The event loop runs every task, the container is restarted, the periodic
\* reconciliation never stops; the exchange and the faults owe nothing.
FairSpec ==
    /\ Spec
    /\ \A t \in Tasks : WF_vars(Step(t))
    /\ WF_vars(Start) /\ WF_vars(Subscribe)
    /\ WF_vars(Reconcile(Scheduled))

-----------------------------------------------------------------------------
\* Properties

TypeOK ==
    /\ \A i \in DOMAIN trades :
          /\ DOMAIN trades[i] = {"tx", "size", "start"}
          /\ Abs(trades[i].size) \in Sizes
          /\ Tx(i) \in 1..i
    /\ stored \subseteq DOMAIN trades
    /\ \A i, j \in stored : Tx(i) = Tx(j) => i = j
    /\ mode \in {"down", "boot", "up"}
    /\ mode = "down" => \A t \in Tasks : ~Working(t)
    /\ mode = "boot" => \A t \in Tasks \ {Scheduled} : ~Working(t)
    /\ \A t \in Tasks : task[t].pc \in {"idle", "marked", "insert", "count", "select",
                                        "update", "credit", "rowDone"}
    /\ marked \subseteq {Tx(i) : i \in DOMAIN trades}
    /\ {opened, credited} \subseteq Nat
    /\ raced \cup repeated \cup cut \subseteq DOMAIN trades

\* A fill goes through the tracker a second time only if a reconciliation read
\* its row while another task still held it, or if it came from two sources:
\* two connections, or hl-stream and a backfill.  Marking before processing
\* rules out every other way, crashes and failures included.
BookedOnceUnlessRaced ==
    \A i \in DOMAIN trades \ (raced \cup repeated) :
        Cardinality({k \in DOMAIN booked : booked[k].fill.at = i}) <= 1

\* What the documentation of the reconciliation promises of episode_fill_ids,
\* and TLC refutes: no fill is booked twice, with one source for each fill.
NoDoubleBooking ==
    \A i \in DOMAIN trades \ repeated :
        Cardinality({k \in DOMAIN booked : booked[k].fill.at = i}) <= 1

\* A row is closed without the outcome reaching the posterior only if a crash
\* or a failing call came between the two: each loses what its tasks held.
ClosedRowsCredited ==
    LET closed == {k \in DOMAIN signals : signals[k].status = "closed"}
        inFlight == {t \in Tasks : task[t].pc = "credit"}
    IN  Cardinality(closed) <= credited + Cardinality(inFlight) + failures
                               + restarts * Cardinality(Tasks)

\* What the rows of position_signals should be, from the trades alone.
Sign(n) == CASE n > 0 -> 1 [] n = 0 -> 0 [] OTHER -> -1
After(i) == trades[i].start + trades[i].size
Opens(i) == After(i) # 0 /\ Sign(trades[i].start) # Sign(After(i))
Reduces(i) == After(i) # 0 /\ Abs(After(i)) < Abs(trades[i].start)
Increases(i) == trades[i].start # 0 /\ Abs(After(i)) > Abs(trades[i].start)

ExitOf(i, n) ==
    LET ends == {j \in i..n : Sign(After(j)) # Sign(After(i))}
    IN  IF ends = {} THEN 0 ELSE Min(ends)

PositionsOf(n) ==
    {[dir |-> IF After(i) > 0 THEN "long" ELSE "short", first |-> i,
      status |-> IF ExitOf(i, n) = 0 THEN "open" ELSE "closed",
      exit |-> ExitOf(i, n)] : i \in {j \in 1..n : Opens(j)}}

\* Positions change hands through zero, are not built up again once reduced,
\* and do not open in the transaction another one opened in.
PlainHistory(n) ==
    /\ \A i \in 1..n : Opens(i) => trades[i].start = 0
    /\ \A i, j \in 1..n : i < j /\ Reduces(i) /\ Increases(j)
                              => \E k \in i..j : After(k) = 0
    /\ \A i, j \in 1..n : Opens(i) /\ Opens(j) /\ Tx(i) = Tx(j) => i = j

\* The live subscription has booked every fill so far, in one process life and
\* without a residue: what sums leave over is the subject of FlatIsClosed.
LiveInOrder ==
    /\ restarts = 0
    /\ Len(booked) <= Len(trades)
    /\ booked = [k \in DOMAIN booked |->
                    [task |-> "live", fill |-> liveFill(k), exact |-> TRUE]]

AtRest == \A t \in Tasks : ~Working(t)

RowsArePositions ==
    /\ ToSet(signals) = PositionsOf(Len(booked))
    /\ IsInjective(signals)
    /\ credited = Cardinality({p \in PositionsOf(Len(booked)) : p.status = "closed"})

\* Without restarts, failures, reconciled fills and residues, the table holds
\* exactly the positions of a plain history and every closed one has been credited.
PlainPositionsRecorded ==
    AtRest /\ LiveInOrder /\ failures = 0 /\ PlainHistory(Len(booked)) => RowsArePositions

\* As long as every fill comes live and in order, and no reduced position is
\* built up again, the votes rest on the trader's real position, flips too.
TrackerFollowsPosition ==
    LET n == Len(booked)
    IN  LiveInOrder /\ n > 0
        /\ (\A i, j \in 1..n : i < j /\ Reduces(i) /\ Increases(j)
                => \E k \in i..j : Sign(After(k)) # Sign(After(i)))
        => NetPosition(open) = After(n)

\* What the module documentation of episode.py promises, and TLC refutes: the
\* episode of a plain history ends when the position is back at zero.
FlatIsClosed ==
    LET n == Len(booked)
    IN  /\ n > 0 /\ n <= Len(trades) /\ restarts = 0
        /\ \A k \in 1..n : booked[k].task = "live" /\ booked[k].fill = liveFill(k)
        /\ PlainHistory(n) /\ After(n) = 0
        => open = None

\* A stored fill is processed in the end, by the live message or by a later
\* reconciliation, whatever was lost or failed; a fill of its transaction may
\* stand for it (they have one id), and only a claim that was cut off before
\* the tracker had the fill, by a crash or a failing statement, ends without.
StoredFillsEndProcessed ==
    \A i \in 1..MaxTrades :
        (i \in stored) ~>
            (i \in DOMAIN trades
             /\ \E j \in DOMAIN trades : Tx(j) = Tx(i) /\ j \in BookedFills \cup cut)

\* What the documentation of the periodic reconciliation promises, and TLC
\* refutes: fills missed through downtime are caught up with, all of them.
MissedFillsAreCaught ==
    \A i \in 1..MaxTrades : (i \in stored) ~> (i \in BookedFills)
=============================================================================
