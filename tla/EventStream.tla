---------------------------- MODULE EventStream ----------------------------
(***************************************************************************)
(* The event stream of hl-stream: the bounded EventQueue of ts-lib and the *)
(* browser clients that configureWebSocket serves from it.                 *)
(*                                                                         *)
(* The queue numbers events from 1 and forgets the oldest ones beyond its  *)
(* capacity.  Every client has a cursor (lastSeq) kept by the server: it   *)
(* is 0 at connection, a "since" message sets it, and the broadcast timer  *)
(* moves it past what it sends.  Handlers of the Node event loop have no   *)
(* await here, so each one is a single step for all the clients it walks.  *)
(***************************************************************************)
EXTENDS Naturals, Sequences

CONSTANTS
  Client,          \* browser connections
  Capacity,        \* events the queue retains
  BroadcastLimit,  \* events one broadcast sends to a client
  BatchLimit,      \* events one answer to a "since" message holds
  MaxSeq           \* bound: events pushed between two restarts

ASSUME StreamAssumption ==
  /\ Capacity \in Nat \ {0}
  /\ BroadcastLimit \in Nat \ {0}
  /\ BatchLimit \in Nat \ {0}
  /\ MaxSeq \in Nat

VARIABLES
  buffer,    \* sequence numbers of the retained events, oldest first
  nextSeq,   \* number the next event gets
  clients,   \* the set of registered clients
  open,      \* open[c]: the socket of c is in readyState OPEN
  alive,     \* alive[c]: c answered the last ping
  lastSeq,   \* lastSeq[c]: server-side cursor
  asked,     \* asked[c]: where the delivery to c started (history)
  log        \* log[c]: numbers sent to c since then (history)

queueVars  == <<buffer, nextSeq>>
clientVars == <<clients, open, alive, lastSeq, asked, log>>
vars       == <<buffer, nextSeq, clients, open, alive, lastSeq, asked, log>>

latestSeq == nextSeq - 1

(* buffer.findIndex(e => e.seq > s) and the slice of at most limit events  *)
(* that starts there.                                                      *)
firstAfter(s) ==
  CHOOSE i \in 1 .. Len(buffer) :
    buffer[i] > s /\ \A j \in 1 .. (i - 1) : buffer[j] <= s

(* Slip: the cursor is looked up by equality, so a cursor whose event was  *)
(* evicted finds nothing.                                                  *)
listSinceExact(s, limit) ==
  LET first == IF s = 0 THEN 1 ELSE CHOOSE i \in 1 .. Len(buffer) + 1 :
                 i > 1 /\ buffer[i - 1] = s
      last  == first + limit - 1
  IN  IF s # 0 /\ \A i \in 1 .. Len(buffer) : buffer[i] # s
        THEN <<>>
        ELSE SubSeq(buffer, first, IF last < Len(buffer) THEN last ELSE Len(buffer))

(* Slip: seq >= sinceSeq.                                                  *)
listSinceInclusive(s, limit) ==
  LET from == SelectSeq(buffer, LAMBDA e : e >= s)
  IN  SubSeq(from, 1, IF limit < Len(from) THEN limit ELSE Len(from))

listSince(s, limit) ==
  LET first == firstAfter(s)
      last  == first + limit - 1
  IN  IF \A i \in 1 .. Len(buffer) : buffer[i] <= s
        THEN <<>>
        ELSE SubSeq(buffer, first, IF last < Len(buffer) THEN last ELSE Len(buffer))

Init ==
  /\ buffer = <<>>
  /\ nextSeq = 1
  /\ clients = {}
  /\ open = [c \in Client |-> FALSE]
  /\ alive = [c \in Client |-> FALSE]
  /\ lastSeq = [c \in Client |-> 0]
  /\ asked = [c \in Client |-> 0]
  /\ log = [c \in Client |-> <<>>]

(* Slip: the capacity is compared before the event is appended.            *)
pushEvictLate ==
  /\ nextSeq <= MaxSeq
  /\ nextSeq' = nextSeq + 1
  /\ buffer' = IF Len(buffer) <= Capacity
                 THEN Append(buffer, nextSeq)
                 ELSE Append(Tail(buffer), nextSeq)
  /\ UNCHANGED clientVars

(* EventQueue.push: number, append, evict beyond the capacity.             *)
push ==
  /\ nextSeq <= MaxSeq
  /\ nextSeq' = nextSeq + 1
  /\ buffer' = IF Len(buffer) < Capacity
                 THEN Append(buffer, nextSeq)
                 ELSE Append(Tail(buffer), nextSeq)
  /\ UNCHANGED clientVars

(* wss.on('connection'): a fresh cursor at 0, so the broadcast replays     *)
(* everything the queue still holds.                                       *)
Connect(c) ==
  /\ ~open[c] /\ c \notin clients
  /\ clients' = clients \cup {c}
  /\ open' = [open EXCEPT ![c] = TRUE]
  /\ alive' = [alive EXCEPT ![c] = TRUE]
  /\ lastSeq' = [lastSeq EXCEPT ![c] = 0]
  /\ asked' = [asked EXCEPT ![c] = 0]
  /\ log' = [log EXCEPT ![c] = <<>>]
  /\ UNCHANGED queueVars

(* ws.on('message') with a numeric "since": the cursor jumps there, back   *)
(* or forward, and the answer is the batch after it.  send does not throw  *)
(* on a socket that has just received a message.                           *)
OnSince(c, since) ==
  LET events == listSince(since, BatchLimit) IN
  /\ open[c]
  /\ asked' = [asked EXCEPT ![c] = since]
  /\ log' = [log EXCEPT ![c] = events]
  /\ lastSeq' = [lastSeq EXCEPT ![c] =
                   IF events = <<>> THEN since ELSE events[Len(events)]]
  /\ UNCHANGED <<clients, open, alive, queueVars>>

(* Slip: the cursor jumps to latestSeq() instead of the last event sent.   *)
broadcastToLatest(failing) ==
  LET served(c) == c \in clients /\ open[c] /\ listSince(lastSeq[c], BroadcastLimit) # <<>>
      events(c) == listSince(lastSeq[c], BroadcastLimit)
  IN
  /\ clients # {}
  /\ clients' = {c \in clients : open[c]} \ {c \in failing : served(c)}
  /\ lastSeq' = [c \in Client |-> IF served(c) THEN latestSeq ELSE lastSeq[c]]
  /\ log' = [c \in Client |->
               IF served(c) /\ c \notin failing THEN log[c] \o events(c) ELSE log[c]]
  /\ UNCHANGED <<open, alive, asked, queueVars>>

(* The broadcast timer: every client whose socket is open gets the next    *)
(* slice, one that is not is dropped.  A send that throws (the clients in  *)
(* failing) drops its client after the cursor has moved.                   *)
broadcast(failing) ==
  LET served(c) == c \in clients /\ open[c] /\ listSince(lastSeq[c], BroadcastLimit) # <<>>
      events(c) == listSince(lastSeq[c], BroadcastLimit)
  IN
  /\ clients # {}
  /\ clients' = {c \in clients : open[c]} \ {c \in failing : served(c)}
  /\ lastSeq' = [c \in Client |->
                   IF served(c) THEN events(c)[Len(events(c))] ELSE lastSeq[c]]
  /\ log' = [c \in Client |->
               IF served(c) /\ c \notin failing THEN log[c] \o events(c) ELSE log[c]]
  /\ UNCHANGED <<open, alive, asked, queueVars>>

(* The price timer has a new BTC or ETH price to send: it too drops the    *)
(* clients that are not open.  The prices themselves are not modelled.     *)
broadcastPrices ==
  /\ clients # {}
  /\ clients' = {c \in clients : open[c]}
  /\ UNCHANGED <<open, alive, lastSeq, asked, log, queueVars>>

(* Slip: the flag is not cleared before the ping.                          *)
pingClientsKeepFlag(failing) ==
  /\ clients' = {c \in clients : alive[c]} \ failing
  /\ open' = [c \in Client |-> open[c] /\ ~(c \in clients /\ ~alive[c])]
  /\ UNCHANGED <<alive, lastSeq, asked, log, queueVars>>

(* The ping timer: a client that missed the previous ping is terminated,   *)
(* the others have to answer before the next one.  A ping that throws      *)
(* forgets its client.                                                     *)
pingClients(failing) ==
  /\ clients' = {c \in clients : alive[c]} \ failing
  /\ open' = [c \in Client |-> open[c] /\ ~(c \in clients /\ ~alive[c])]
  /\ alive' = [c \in Client |-> IF c \in clients THEN FALSE ELSE alive[c]]
  /\ UNCHANGED <<lastSeq, asked, log, queueVars>>

(* ws.on('pong') *)
OnPong(c) ==
  /\ open[c] /\ ~alive[c]
  /\ alive' = [alive EXCEPT ![c] = TRUE]
  /\ UNCHANGED <<clients, open, lastSeq, asked, log, queueVars>>

(* The socket leaves OPEN some time before its 'close' event runs.         *)
Closing(c) ==
  /\ open[c]
  /\ open' = [open EXCEPT ![c] = FALSE]
  /\ UNCHANGED <<clients, alive, lastSeq, asked, log, queueVars>>

(* ws.on('close') and ws.on('error') *)
OnClose(c) ==
  /\ c \in clients /\ ~open[c]
  /\ clients' = clients \ {c}
  /\ UNCHANGED <<open, alive, lastSeq, asked, log, queueVars>>

(* hl-stream restarts: the queue is a process variable, numbering starts   *)
(* again at 1 and every socket is gone.                                    *)
Restart ==
  /\ buffer' = <<>>
  /\ nextSeq' = 1
  /\ clients' = {}
  /\ open' = [c \in Client |-> FALSE]
  /\ UNCHANGED <<alive, lastSeq, asked, log>>

Next ==
  \/ push
  \/ \E c \in Client : Connect(c)
  \/ \E c \in Client, since \in 0 .. MaxSeq : OnSince(c, since)
  \/ \E failing \in SUBSET Client : broadcast(failing)
  \/ broadcastPrices
  \/ \E failing \in SUBSET Client : pingClients(failing)
  \/ \E c \in Client : OnPong(c)
  \/ \E c \in Client : Closing(c)
  \/ \E c \in Client : OnClose(c)
  \/ Restart

Spec == Init /\ [][Next]_vars

(* The two setInterval timers keep firing, and not every one of their      *)
(* sends throws; clients and events need not come.                         *)
Fairness ==
  /\ WF_vars(broadcast({}))
  /\ WF_vars(pingClients({}))

FairSpec == Spec /\ Fairness

-----------------------------------------------------------------------------
TypeOK ==
  /\ buffer \in Seq(Nat)
  /\ nextSeq \in Nat \ {0}
  /\ clients \subseteq Client
  /\ open \in [Client -> BOOLEAN]
  /\ alive \in [Client -> BOOLEAN]
  /\ lastSeq \in [Client -> Nat]
  /\ asked \in [Client -> Nat]
  /\ log \in [Client -> Seq(Nat)]

(* The queue holds the latest events, without a hole and never more than   *)
(* its capacity: what listSince's cursor arithmetic stands on.             *)
BufferIsLatestRun ==
  /\ Len(buffer) <= Capacity
  /\ \A i \in 1 .. Len(buffer) : buffer[i] = latestSeq - Len(buffer) + i

(* A connected client is sent the events after the point it asked for in   *)
(* order and none of them twice, whatever the mixture of "since" answers   *)
(* and broadcasts.                                                         *)
InOrderOnce ==
  \A c \in Client :
    /\ \A i, j \in 1 .. Len(log[c]) : i < j => log[c][i] < log[c][j]
    /\ \A i \in 1 .. Len(log[c]) : asked[c] < log[c][i]

(* An event between the start of the delivery and the cursor of a          *)
(* registered client was sent to it unless the queue has evicted it: the   *)
(* cursor never skips an event that could still be sent.                   *)
LossOnlyByEviction ==
  \A c \in clients : \A s \in (asked[c] + 1) .. lastSeq[c] :
    \/ \E i \in 1 .. Len(log[c]) : log[c][i] = s
    \/ s <= latestSeq - Len(buffer)

(* A client that stays registered answers pings again and again: a silent  *)
(* peer does not occupy the client set for ever.                           *)
SilentClientLeaves ==
  \A c \in Client : <>[](c \in clients) => []<><<OnPong(c)>>_vars

(* A client that stays registered with an open socket, and stops moving    *)
(* its cursor back, catches up with the queue.                             *)
CatchesUp ==
  \A c \in Client :
    (<>[](c \in clients /\ open[c]) /\ <>[][lastSeq'[c] >= lastSeq[c]]_vars)
      => <>[](lastSeq[c] >= latestSeq)
=============================================================================
