-------------------------- MODULE RealtimeTracker --------------------------
(***************************************************************************)
(* The realtime tracker of hl-stream: it follows the watchlist with        *)
(* subscriptions on a pool of WebSocket connections and with positions     *)
(* read over HTTP.                                                         *)
(*                                                                         *)
(* refresh is called by the timer, by API handlers and whenever the        *)
(* watchlist changes; its activations overlap and have no lock.  A step    *)
(* lasts from one await to the next (an await of nothing lets no event in).*)
(* Users and handlers of a slot are set and deleted together and are one.  *)
(* What a fill becomes is in Episodes; here it causes a look at the        *)
(* position.  There is one symbol.                                         *)
(***************************************************************************)
EXTENDS Integers, Sequences, FiniteSets, FiniteSetsExt

CONSTANTS
  Addr,
  Watched,            \* the watchlist at the start
  Observed,           \* those whose positions are looked at: one look bears on no other trader
  MAX_USERS_PER_WS,
  Refresh,            \* activations of refresh that may overlap
  MaxChanges, MaxMoves, MaxFaults  \* bounds: of the watchlist, of positions, of failures

ASSUME TrackerAssumption ==
  /\ IsFiniteSet(Addr) /\ Watched \subseteq Addr /\ Observed \subseteq Addr
  /\ MAX_USERS_PER_WS \in Nat \ {0}
  /\ MaxChanges \in Nat /\ MaxMoves \in Nat /\ MaxFaults \in Nat

Absent == -1   \* not in subs
NoSlot == 0    \* in subs without a slot
Unknown == [n |-> 0, size |-> 0]   \* no snapshot, no row

\* A connection that opens after its timeout has been given up, but is not
\* closed: opening, it makes its slot ready, and nothing listens to what it
\* says or to its closing.
Slot == [users : SUBSET Addr,
         unheard : SUBSET Addr,            \* users confirmed on such a connection
         ready : BOOLEAN,
         heard : BOOLEAN,                  \* there is an open connection that is listened to
         ws : {"gone", "heard", "deaf"},   \* the one new users subscribe on; "gone": closed
         late : Nat]                       \* connections that are over time and may open yet
NewSlot == [users |-> {}, unheard |-> {}, ready |-> FALSE, heard |-> FALSE, ws |-> "gone",
            late |-> 0]
IdleRefresh == [pc |-> "idle"]

VARIABLES
  watchlist,  \* getAddresses()
  position,   \* of each trader at the venue: [n, size], n counts its changes
  subs,       \* subs[a]: Absent, NoSlot or the index of its slot
  slots,      \* wsPool: sequence of Slot records
  refreshes,  \* the local state of each activation
  reconnects, \* activations of reconnectWsSlot: records [slot, pc, users]
  snapshots,  \* snapshots[a]: the position it shows
  row,        \* hl_current_positions[a]
  primes,     \* calls of performPrime in flight: [address, pc, seen]
  changes, moves, faults

socketVars == <<subs, slots, refreshes, reconnects>>
primeVars == <<snapshots, row, primes>>
boundVars == <<changes, moves, faults>>
vars == <<watchlist, position, socketVars, primeVars, boundVars>>

Init ==
  /\ watchlist = Watched
  /\ position = [a \in Addr |-> [n |-> 1, size |-> 1]]
  /\ subs = [a \in Addr |-> Absent] /\ slots = <<>>
  /\ refreshes = [r \in Refresh |-> IdleRefresh] /\ reconnects = {}
  /\ snapshots = [a \in Addr |-> Unknown] /\ row = [a \in Addr |-> Unknown]
  /\ primes = {}
  /\ changes = 0 /\ moves = 0 /\ faults = 0

Fault == faults < MaxFaults /\ faults' = faults + 1

-----------------------------------------------------------------------------
\* Positions over HTTP

CallsFor(a) == {p \in primes : p.address = a}

\* Slip: a call in flight is not looked for.
primeFromHttpAgain(a) == primes \cup {[address |-> b, pc |-> "asked"] : b \in {a} \cap Observed}

\* One call of performPrime per address at a time.
primeFromHttp(a) ==
  primes \cup {[address |-> b, pc |-> "asked"] : b \in {b \in {a} \cap Observed : CallsFor(b) = {}}}

\* The venue takes the position down for the answer, or the call fails.
Answer(a) ==
  /\ \E p \in CallsFor(a), ok \in BOOLEAN :
       /\ p.pc = "asked"
       /\ primes' = (primes \ {p}) \cup
            (IF ok THEN {[address |-> a, pc |-> "answered", seen |-> position[a]]} ELSE {})
       /\ IF ok THEN UNCHANGED faults ELSE Fault
  /\ UNCHANGED <<watchlist, position, socketVars, snapshots, row, changes, moves>>

\* Slip: a closed position, not being in the answer, is not news.
OnlyOpen(a, seen) == seen.size # 0

\* A closed position is not in the answer; it is news only to who has a
\* snapshot of it open.
News(a, seen) == seen.size # 0 \/ snapshots[a].size # 0

\* performPrime after the call.
Apply(a) ==
  /\ \E p \in CallsFor(a) :
       /\ p.pc = "answered"
       /\ snapshots' = IF News(a, p.seen) THEN [snapshots EXCEPT ![a] = p.seen] ELSE snapshots
       /\ primes' = (primes \ {p}) \cup
            (IF News(a, p.seen) THEN {[p EXCEPT !.pc = "storing"]} ELSE {})
  /\ UNCHANGED <<watchlist, position, socketVars, row, boundVars>>

\* upsertCurrentPosition: an error is caught; a closed position has no row.
Store(a) ==
  /\ \E p \in CallsFor(a), ok \in BOOLEAN :
       /\ p.pc = "storing" /\ primes' = primes \ {p}
       /\ IF ok
          THEN /\ row' = [row EXCEPT ![a] = p.seen] /\ UNCHANGED faults
          ELSE Fault /\ UNCHANGED row
  /\ UNCHANGED <<watchlist, position, socketVars, snapshots, changes, moves>>

\* ensureFreshSnapshots asks for snapshots[a], but they are kept by address
\* and symbol: there never is one, and every address is primed.
ensureFreshSnapshots(a) ==
  /\ a \in watchlist
  /\ primes' = primeFromHttp(a)
  /\ UNCHANGED <<watchlist, position, socketVars, snapshots, row, boundVars>>

\* A fill of a user of an open connection.
UserEvents(a) ==
  /\ \E i \in DOMAIN slots : slots[i].heard /\ a \in slots[i].users
  /\ primes' = primeFromHttp(a)
  /\ UNCHANGED <<watchlist, position, socketVars, snapshots, row, boundVars>>

-----------------------------------------------------------------------------
\* refresh

Without(slot, gone) == [slot EXCEPT !.users = @ \ gone, !.unheard = @ \ gone]
releaseFromWsSlot(gone) ==
  [i \in DOMAIN slots |-> Without(slots[i], {a \in gone : subs[a] = i})]

\* Slip: an address without a slot is not removed.
RemovedStreaming == {a \in Addr \ watchlist : subs[a] \notin {Absent, NoSlot}}

Removed == {a \in Addr \ watchlist : subs[a] # Absent}

\* The addresses that are new go to WebSockets, as many as one connection
\* takes; the rest is added without one at the end.
BeginRefresh(r) ==
  LET new == {a \in watchlist : subs[a] = Absent}
  IN  /\ refreshes[r] = IdleRefresh
      /\ Removed # {} \/ new # {}
      /\ slots' = releaseFromWsSlot(Removed)
      /\ subs' = [a \in Addr |-> IF a \in Removed THEN Absent ELSE subs[a]]
      /\ \E ws \in SUBSET new :
           /\ Cardinality(ws) = Min({MAX_USERS_PER_WS, Cardinality(new)})
           /\ refreshes' = [refreshes EXCEPT ![r] =
                IF new = {} THEN IdleRefresh
                ELSE [pc |-> "next", todo |-> ws, polling |-> new \ ws]]
      /\ UNCHANGED <<watchlist, position, reconnects, primeVars, boundVars>>

WithCapacity == {i \in DOMAIN slots :
  slots[i].ready /\ Cardinality(slots[i].users) < MAX_USERS_PER_WS}

\* What becomes of a subscription sent over slot i.
Sent(i) == CASE slots[i].ws = "heard" -> "confirm"
             [] slots[i].ws = "deaf" -> "deaf"
             [] OTHER -> "lost"

\* getAvailableWsSlot: the first slot with room, or a new connection, which
\* is in the pool before it is open.
getAvailableWsSlot(r) ==
  /\ refreshes[r].pc = "next"
  /\ \E a \in refreshes[r].todo :
       LET now == [refreshes[r] EXCEPT !.todo = @ \ {a}]
           waiting(pc, i) ==
             [pc |-> pc, address |-> a, slot |-> i, todo |-> now.todo, polling |-> now.polling]
       IN  IF WithCapacity # {}
           THEN /\ refreshes' = [refreshes EXCEPT
                     ![r] = waiting(Sent(Min(WithCapacity)), Min(WithCapacity))]
                /\ UNCHANGED slots
           ELSE /\ slots' = Append(slots, NewSlot)
                /\ refreshes' = [refreshes EXCEPT ![r] = waiting("connect", Len(slots) + 1)]
  /\ UNCHANGED <<watchlist, position, subs, reconnects, primeVars, boundVars>>

\* The rest of refresh once an address has been dealt with.
NextAddress(r, newSubs) ==
  LET done == refreshes[r].todo = {}
  IN  /\ subs' = [a \in Addr |-> IF done /\ a \in refreshes[r].polling THEN NoSlot ELSE newSubs[a]]
      /\ refreshes' = [refreshes EXCEPT ![r] =
           IF done THEN IdleRefresh
           ELSE [pc |-> "next", todo |-> @.todo, polling |-> @.polling]]

Opened(i) == [slots EXCEPT ![i].ready = TRUE, ![i].heard = TRUE, ![i].ws = "heard"]

\* Waiting for slot i is given up: the connection has failed, or is over time.
GivenUp(i) == {slots, [slots EXCEPT ![i].late = @ + 1]}

\* The new connection opens, or does not in time: then the address goes
\* without, and the slot stays in the pool.
Connect(r) ==
  /\ refreshes[r].pc = "connect"
  /\ \/ /\ slots' = Opened(refreshes[r].slot)
        /\ refreshes' = [refreshes EXCEPT ![r].pc = "confirm"]
        /\ UNCHANGED <<subs, primes, faults>>
     \/ /\ Fault
        /\ NextAddress(r, [subs EXCEPT ![refreshes[r].address] = NoSlot])
        /\ primes' = primeFromHttp(refreshes[r].address)
        /\ slots' \in GivenUp(refreshes[r].slot)
  /\ UNCHANGED <<watchlist, position, reconnects, snapshots, row, changes, moves>>

\* subscribeAddress hears from the venue, or does not: the connection has
\* been lost meanwhile, the limit has been reached or five seconds are over.
subscribeAddress(r) ==
  LET a == refreshes[r].address
      i == refreshes[r].slot
  IN  /\ \/ /\ refreshes[r].pc \in {"confirm", "deaf"}
            /\ slots' = [slots EXCEPT
                 ![i].users = @ \cup {a},
                 ![i].unheard = IF refreshes[r].pc = "deaf" THEN @ \cup {a} ELSE @ \ {a}]
            /\ NextAddress(r, [subs EXCEPT ![a] = i])
            /\ UNCHANGED faults
         \/ /\ \/ refreshes[r].pc = "lost"
               \/ refreshes[r].pc \in {"confirm", "deaf"} /\ faults < MaxFaults
            /\ faults' = faults + (IF refreshes[r].pc = "lost" THEN 0 ELSE 1)
            /\ NextAddress(r, [subs EXCEPT ![a] = NoSlot])
            /\ UNCHANGED slots
      /\ primes' = primeFromHttp(a)
      /\ UNCHANGED <<watchlist, position, reconnects, snapshots, row, changes, moves>>

-----------------------------------------------------------------------------
\* Connections

\* Slip: the users stay in the slot.
ClosedKeepingUsers(i) ==
  [slots EXCEPT ![i].ready = FALSE, ![i].heard = FALSE,
                ![i].ws = IF @ = "heard" THEN "gone" ELSE @]

Closed(i) ==
  [slots EXCEPT ![i].users = {}, ![i].unheard = {}, ![i].ready = FALSE, ![i].heard = FALSE,
                ![i].ws = IF @ = "heard" THEN "gone" ELSE @]

\* Who waits on slot i for an answer gets none.
LostBy(i, pc) ==
  [r \in Refresh |->
     IF refreshes[r].pc = pc /\ refreshes[r].slot = i
     THEN [refreshes[r] EXCEPT !.pc = "lost"] ELSE refreshes[r]]

\* An open connection closes; reconnectWsSlot takes the users over, if there
\* are any.
Close(i) ==
  /\ slots[i].heard /\ Fault
  /\ slots' = Closed(i)
  /\ refreshes' = LostBy(i, "confirm")
  /\ reconnects' =
       {IF c.slot = i /\ c.pc = "resubscribe" THEN [c EXCEPT !.pc = "lost"] ELSE c :
          c \in reconnects}
       \cup (IF slots[i].users = {} THEN {}
             ELSE {[slot |-> i, pc |-> "connect", users |-> slots[i].users]})
  /\ UNCHANGED <<watchlist, position, subs, primeVars, changes, moves>>

\* A connection that had been given up opens after all.
LateOpen(i) ==
  /\ slots[i].late > 0
  /\ slots' = [slots EXCEPT ![i].late = @ - 1, ![i].ready = TRUE, ![i].ws = "deaf"]
  /\ UNCHANGED <<watchlist, position, subs, refreshes, reconnects, primeVars, boundVars>>

\* When it closes its slot stays ready.
DeafClose(i) ==
  /\ slots[i].ws = "deaf" /\ Fault
  /\ slots' = [slots EXCEPT ![i].ws = "gone"]
  /\ refreshes' = LostBy(i, "deaf")
  /\ UNCHANGED <<watchlist, position, subs, reconnects, primeVars, changes, moves>>

Instead(c, d) == (reconnects \ {c}) \cup {d}

\* Two seconds later the new connection opens, or does not in time.
Reconnect(c) ==
  /\ c.pc = "connect"
  /\ \/ /\ slots' = Opened(c.slot)
        /\ reconnects' = Instead(c, [c EXCEPT !.pc = "resubscribe"])
        /\ UNCHANGED faults
     \/ /\ Fault
        /\ slots' \in GivenUp(c.slot)
        /\ reconnects' = Instead(c, [c EXCEPT !.pc = "retry"])
  /\ UNCHANGED <<watchlist, position, subs, refreshes, primeVars, changes, moves>>

\* Ten seconds later the users are put back and taken again, with those who
\* have come meanwhile.
Retry(c) ==
  /\ c.pc = "retry"
  /\ reconnects' =
       Instead(c, [c EXCEPT !.pc = "connect", !.users = @ \cup slots[c.slot].users])
  /\ slots' = [slots EXCEPT ![c.slot].users = {}, ![c.slot].unheard = {}]
  /\ UNCHANGED <<watchlist, position, subs, refreshes, primeVars, boundVars>>

\* One user after the other, whether still watched or not; one that is not
\* confirmed is given up, and so is the rest when the connection is lost.
Resubscribe(c) ==
  /\ c.pc \in {"resubscribe", "lost"} /\ c.users # {}
  /\ \E a \in c.users, ok \in BOOLEAN :
       /\ reconnects' = Instead(c, [c EXCEPT !.users = @ \ {a}])
       /\ IF ok
          THEN /\ c.pc = "resubscribe"
               /\ slots' = [slots EXCEPT ![c.slot].users = @ \cup {a},
                                         ![c.slot].unheard = @ \ {a}]
               /\ subs' = [subs EXCEPT ![a] = IF @ = Absent THEN @ ELSE c.slot]
               /\ UNCHANGED faults
          ELSE /\ (c.pc = "lost" \/ faults < MaxFaults)
               /\ faults' = faults + (IF c.pc = "lost" THEN 0 ELSE 1)
               /\ UNCHANGED <<slots, subs>>
  /\ UNCHANGED <<watchlist, position, refreshes, primeVars, changes, moves>>

Reconnected(c) ==
  /\ c.pc \in {"resubscribe", "lost"} /\ c.users = {}
  /\ reconnects' = reconnects \ {c}
  /\ UNCHANGED <<watchlist, position, subs, slots, refreshes, primeVars, boundVars>>

Restart ==
  /\ Fault
  /\ subs' = [a \in Addr |-> Absent] /\ slots' = <<>>
  /\ refreshes' = [r \in Refresh |-> IdleRefresh] /\ reconnects' = {}
  /\ snapshots' = [a \in Addr |-> Unknown] /\ primes' = {}
  /\ UNCHANGED <<watchlist, position, row, changes, moves>>

-----------------------------------------------------------------------------
\* The subscription manager and the venue

Change ==
  /\ changes < MaxChanges /\ changes' = changes + 1
  /\ watchlist' \in (SUBSET Addr) \ {watchlist}
  /\ UNCHANGED <<position, socketVars, primeVars, moves, faults>>

Move(a) ==
  /\ moves < MaxMoves /\ moves' = moves + 1
  /\ \E size \in {0, 1} \ {position[a].size} :
       position' = [position EXCEPT ![a] = [n |-> @.n + 1, size |-> size]]
  /\ UNCHANGED <<watchlist, socketVars, primeVars, changes, faults>>

PrimeStep(a) == Answer(a) \/ Apply(a) \/ Store(a)
ReconnectStep(c) == Reconnect(c) \/ Retry(c) \/ Resubscribe(c) \/ Reconnected(c)
RefreshStep(r) == BeginRefresh(r) \/ getAvailableWsSlot(r) \/ Connect(r) \/ subscribeAddress(r)

Next ==
  \/ \E a \in Observed : PrimeStep(a) \/ ensureFreshSnapshots(a) \/ UserEvents(a) \/ Move(a)
  \/ \E r \in Refresh : RefreshStep(r)
  \/ \E i \in DOMAIN slots : Close(i) \/ LateOpen(i) \/ DeafClose(i)
  \/ \E c \in reconnects : ReconnectStep(c)
  \/ Restart \/ Change

\* The timers go on, and every call comes to an end.
Fairness ==
  /\ \A a \in Observed : WF_vars(PrimeStep(a)) /\ WF_vars(ensureFreshSnapshots(a))
  /\ \A r \in Refresh : WF_vars(RefreshStep(r))
  /\ WF_vars(\E c \in reconnects : ReconnectStep(c))

Spec == Init /\ [][Next]_vars /\ Fairness

-----------------------------------------------------------------------------
TypeOK ==
  /\ watchlist \subseteq Addr
  /\ \A a \in Addr : subs[a] \in {Absent, NoSlot} \cup DOMAIN slots
  /\ slots \in Seq(Slot)
  /\ \A c \in reconnects : c.slot \in DOMAIN slots /\ c.users \subseteq Addr
  /\ \A p \in primes : p.address \in Addr /\ p.pc \in {"asked", "answered", "storing"}

\* Who counts as a user of a slot is on an open connection that is listened
\* to: nobody would reconnect it otherwise, and it would be streamed by
\* nothing.  Those are excepted who subscribed on one that opened too late.
UsersAreConnected ==
  \A i \in DOMAIN slots : slots[i].users \subseteq slots[i].unheard \/ slots[i].heard

\* getAvailableWsSlot "ensures the WebSocket is connected": who counts as a
\* user of a slot is on an open connection, then.  Not so after a connection
\* that opened too late has closed.
NobodyOnClosed ==
  \A i \in DOMAIN slots : slots[i].users # {} => slots[i].heard \/ slots[i].ws = "deaf"

\* The addresses tracked come to be those of the watchlist, although a refresh
\* may work through a list that is no longer true.
WatchlistFollowed == <>[]({a \in Addr : subs[a] # Absent} = watchlist)

\* Neither a snapshot nor a row goes back to an older position, whatever the
\* order in which looks at a position were begun and answered; only a restart
\* forgets the snapshots, all of them.
PositionsNeverRegress ==
  [][\A a \in Addr :
       /\ row'[a].n >= row[a].n
       /\ snapshots'[a].n >= snapshots[a].n \/ snapshots' = [b \in Addr |-> Unknown]]_vars

\* Once the market rests every watched position is shown as it is, and stored
\* as it is if it is open.  A closed one may keep its row for good, but only
\* after a failure: who has deleted it in vain, or has been restarted, does
\* not know that there is something to delete.
Shown(a) == snapshots[a].size = position[a].size
Stored(a) == row[a].size = position[a].size \/ (position[a].size = 0 /\ faults > 0)
PositionsFollowVenue == <>[](\A a \in watchlist \cap Observed : Shown(a) /\ Stored(a))
=============================================================================
