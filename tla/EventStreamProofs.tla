------------------------- MODULE EventStreamProofs -------------------------
(***************************************************************************)
(* Proofs about EventStream for every number of clients, capacity, slice   *)
(* limit and bound on the numbering.  Everything rests on two facts: the   *)
(* buffer is the run of the latest numbers, so findIndex-and-slice is an   *)
(* interval just above the cursor, and nothing sent to a client lies above *)
(* its cursor.                                                             *)
(***************************************************************************)
EXTENDS EventStream, TLAPS

(* The part of the inductive invariant that ties the cursor to the log: it *)
(* never trails what was sent nor the point the delivery started from.     *)
CursorCoversLog ==
  \A c \in Client :
    /\ asked[c] <= lastSeq[c]
    /\ \A i \in 1 .. Len(log[c]) : log[c][i] <= lastSeq[c]

IInv ==
  /\ TypeOK
  /\ BufferIsLatestRun
  /\ Len(buffer) <= latestSeq
  /\ CursorCoversLog
  /\ InOrderOnce

(* If some retained number is above s, firstAfter finds the first one.     *)
LEMMA FirstAfterExists ==
  ASSUME TypeOK, BufferIsLatestRun, Len(buffer) <= latestSeq,
         NEW s \in Nat, \E i \in 1 .. Len(buffer) : buffer[i] > s
  PROVE  /\ firstAfter(s) \in 1 .. Len(buffer)
         /\ buffer[firstAfter(s)] > s
         /\ \A j \in 1 .. (firstAfter(s) - 1) : buffer[j] <= s
<1>1. PICK k \in 1 .. Len(buffer) : buffer[k] > s
  OBVIOUS
<1>2. Len(buffer) \in Nat /\ latestSeq \in Nat
  BY DEF TypeOK, latestSeq
<1> DEFINE low == latestSeq - Len(buffer)
           w   == IF s <= low THEN 1 ELSE s - low + 1
<1>3. low \in Nat /\ \A i \in 1 .. Len(buffer) : buffer[i] = low + i
  BY <1>2 DEF BufferIsLatestRun
<1>4. w \in 1 .. Len(buffer)
  BY <1>1, <1>2, <1>3
<1>5. buffer[w] > s
  BY <1>3, <1>4
<1>6. \A j \in 1 .. (w - 1) : buffer[j] <= s
  BY <1>3, <1>4, <1>2
<1> QED
  BY <1>4, <1>5, <1>6 DEF firstAfter

(* What a slice contains: increasing numbers above the cursor, and every   *)
(* number from the cursor to its end that the queue still holds.           *)
LEMMA ListSince ==
  ASSUME TypeOK, BufferIsLatestRun, Len(buffer) <= latestSeq,
         NEW s \in Nat, NEW limit \in Nat \ {0}
  PROVE  LET ev == listSince(s, limit) IN
         /\ ev \in Seq(Nat)
         /\ \A i \in 1 .. Len(ev) : ev[i] > s
         /\ \A i, j \in 1 .. Len(ev) : i < j => ev[i] < ev[j]
         /\ ev # <<>> =>
              \A t \in Nat : s < t /\ t <= ev[Len(ev)] =>
                 \/ \E i \in 1 .. Len(ev) : ev[i] = t
                 \/ t <= latestSeq - Len(buffer)
<1> DEFINE ev == listSince(s, limit)
<1>1. CASE \A i \in 1 .. Len(buffer) : buffer[i] <= s
  <2>1. ev = <<>>
    BY <1>1 DEF listSince
  <2> QED
    BY <2>1
<1>2. CASE ~ \A i \in 1 .. Len(buffer) : buffer[i] <= s
  <2> DEFINE low   == latestSeq - Len(buffer)
             first == firstAfter(s)
             end   == IF first + limit - 1 < Len(buffer)
                        THEN first + limit - 1 ELSE Len(buffer)
  <2>1. Len(buffer) \in Nat /\ latestSeq \in Nat /\ buffer \in Seq(Nat)
    BY DEF TypeOK, latestSeq
  <2>2. low \in Nat /\ \A i \in 1 .. Len(buffer) : buffer[i] = low + i
    BY <2>1 DEF BufferIsLatestRun
  <2>3. \E i \in 1 .. Len(buffer) : buffer[i] > s
    BY <1>2, <2>1, <2>2
  <2>4. /\ first \in 1 .. Len(buffer)
        /\ buffer[first] > s
        /\ \A j \in 1 .. (first - 1) : buffer[j] <= s
    BY <2>3, FirstAfterExists
  <2>5. ev = SubSeq(buffer, first, end)
    BY <1>2 DEF listSince
  <2> HIDE DEF first, ev
  <2>6. end \in first .. Len(buffer)
    BY <2>1, <2>4
  <2> HIDE DEF end
  <2>7. /\ ev \in Seq(Nat)
        /\ Len(ev) = end - first + 1
        /\ \A i \in 1 .. Len(ev) : ev[i] = buffer[first + i - 1]
    BY <2>1, <2>4, <2>5, <2>6
  <2>8. \A i \in 1 .. Len(ev) : ev[i] = low + (first + i - 1)
    BY <2>1, <2>2, <2>4, <2>6, <2>7
  <2>9. low + first > s
    BY <2>2, <2>4
  <2>10. \A i \in 1 .. Len(ev) : ev[i] > s
    BY <2>1, <2>2, <2>4, <2>8, <2>9
  <2>11. \A i, j \in 1 .. Len(ev) : i < j => ev[i] < ev[j]
    BY <2>1, <2>2, <2>4, <2>8
  <2>12. ASSUME NEW t \in Nat, s < t, t <= ev[Len(ev)], t > low
         PROVE  \E i \in 1 .. Len(ev) : ev[i] = t
    <3>1. Len(ev) \in 1 .. Len(ev)
      BY <2>4, <2>6, <2>7
    <3>2. t <= low + end
      BY <2>1, <2>2, <2>4, <2>6, <2>7, <2>8, <2>12, <3>1
    <3>3. t >= low + first
      <4>1. CASE first = 1
        BY <2>2, <2>12, <4>1
      <4>2. CASE first # 1
        <5>1. buffer[first - 1] <= s
          BY <2>4, <4>2
        <5>2. first - 1 \in 1 .. Len(buffer)
          BY <2>1, <2>4, <4>2
        <5>3. buffer[first - 1] = low + (first - 1)
          BY <2>2, <5>2
        <5> QED
          BY <2>2, <2>4, <2>12, <5>1, <5>3
      <4> QED
        BY <4>1, <4>2
    <3> DEFINE i == t - low - first + 1
    <3>4. i \in 1 .. Len(ev)
      BY <2>2, <2>4, <2>6, <2>7, <3>2, <3>3
    <3>5. ev[i] = t
      BY <2>2, <2>4, <2>8, <3>4
    <3> QED
      BY <3>4, <3>5
  <2> QED
    BY <2>2, <2>7, <2>10, <2>11, <2>12 DEF ev
<1> QED
  BY <1>1, <1>2

-----------------------------------------------------------------------------
LEMMA InitInv == StreamAssumption /\ Init => IInv
BY DEF StreamAssumption, Init, IInv, TypeOK, BufferIsLatestRun, latestSeq,
       CursorCoversLog, InOrderOnce

(* An answer to "since": the log restarts with the slice.                  *)
LEMMA OnSinceInv ==
  ASSUME StreamAssumption, IInv, NEW c \in Client, NEW since \in 0 .. MaxSeq,
         OnSince(c, since)
  PROVE  IInv'
<1> DEFINE ev == listSince(since, BatchLimit)
<1>1. since \in Nat /\ BatchLimit \in Nat \ {0}
  BY DEF StreamAssumption
<1>2. /\ ev \in Seq(Nat)
      /\ \A i \in 1 .. Len(ev) : ev[i] > since
      /\ \A i, j \in 1 .. Len(ev) : i < j => ev[i] < ev[j]
  BY <1>1, ListSince DEF IInv
<1> HIDE DEF ev
<1>3. /\ asked' = [asked EXCEPT ![c] = since]
      /\ log' = [log EXCEPT ![c] = ev]
      /\ lastSeq' = [lastSeq EXCEPT ![c] = IF ev = <<>> THEN since ELSE ev[Len(ev)]]
      /\ UNCHANGED <<clients, open, alive, buffer, nextSeq>>
  BY DEF OnSince, queueVars, ev
<1>4. ev # <<>> => Len(ev) \in 1 .. Len(ev) /\ ev[Len(ev)] \in Nat
  BY <1>2
<1>5. TypeOK'
  BY <1>1, <1>2, <1>3, <1>4 DEF IInv, TypeOK
<1>6. (BufferIsLatestRun /\ Len(buffer) <= latestSeq)'
  BY <1>3 DEF IInv, BufferIsLatestRun, latestSeq
<1>7. lastSeq'[c] >= since /\ \A i \in 1 .. Len(ev) : ev[i] <= lastSeq'[c]
  <2>1. lastSeq'[c] = IF ev = <<>> THEN since ELSE ev[Len(ev)]
    BY <1>3 DEF IInv, TypeOK
  <2>2. CASE ev = <<>>
    BY <1>1, <2>1, <2>2
  <2>3. CASE ev # <<>>
    <3>1. ev[Len(ev)] > since
      BY <1>2, <1>4, <2>3
    <3>2. \A i \in 1 .. Len(ev) : ev[i] \in Nat /\ ev[i] <= ev[Len(ev)]
      BY <1>2, <1>4, <2>3
    <3> QED
      BY <1>1, <1>4, <2>1, <2>3, <3>1, <3>2
  <2> QED
    BY <2>2, <2>3
<1>8. CursorCoversLog'
  BY <1>3, <1>7 DEF IInv, TypeOK, CursorCoversLog
<1>9. InOrderOnce'
  BY <1>2, <1>3 DEF IInv, TypeOK, InOrderOnce
<1> QED
  BY <1>5, <1>6, <1>8, <1>9 DEF IInv

(* A broadcast: the slice goes behind what the log holds already.          *)
LEMMA BroadcastInv ==
  ASSUME StreamAssumption, IInv, NEW failing \in SUBSET Client, broadcast(failing)
  PROVE  IInv'
<1> DEFINE ev(c) == listSince(lastSeq[c], BroadcastLimit)
           served(c) == c \in clients /\ open[c] /\ ev(c) # <<>>
<1>1. /\ clients' \subseteq Client
      /\ lastSeq' = [c \in Client |-> IF served(c) THEN ev(c)[Len(ev(c))] ELSE lastSeq[c]]
      /\ log' = [c \in Client |-> IF served(c) /\ c \notin failing
                                    THEN log[c] \o ev(c) ELSE log[c]]
      /\ UNCHANGED <<open, alive, asked, buffer, nextSeq>>
  BY DEF broadcast, queueVars, IInv, TypeOK
<1>2. ASSUME NEW c \in Client
      PROVE  /\ ev(c) \in Seq(Nat)
             /\ \A i \in 1 .. Len(ev(c)) : ev(c)[i] > lastSeq[c]
             /\ \A i, j \in 1 .. Len(ev(c)) : i < j => ev(c)[i] < ev(c)[j]
  <2>1. lastSeq[c] \in Nat /\ BroadcastLimit \in Nat \ {0}
    BY DEF StreamAssumption, IInv, TypeOK
  <2> QED
    BY <2>1, ListSince DEF IInv
<1> HIDE DEF ev
<1>3. ASSUME NEW c \in Client, ev(c) # <<>>
      PROVE  /\ Len(ev(c)) \in 1 .. Len(ev(c))
             /\ ev(c)[Len(ev(c))] \in Nat
             /\ ev(c)[Len(ev(c))] > lastSeq[c]
             /\ \A i \in 1 .. Len(ev(c)) : ev(c)[i] \in Nat /\ ev(c)[i] <= ev(c)[Len(ev(c))]
  <2>1. ev(c) \in Seq(Nat) /\ Len(ev(c)) \in 1 .. Len(ev(c))
    BY <1>2, <1>3
  <2> QED
    BY <1>2, <2>1
<1>4. TypeOK'
  <2>1. lastSeq' \in [Client -> Nat]
    BY <1>1, <1>3 DEF IInv, TypeOK
  <2>2. log' \in [Client -> Seq(Nat)]
    BY <1>1, <1>2 DEF IInv, TypeOK
  <2> QED
    BY <1>1, <2>1, <2>2 DEF IInv, TypeOK
<1>5. (BufferIsLatestRun /\ Len(buffer) <= latestSeq)'
  BY <1>1 DEF IInv, BufferIsLatestRun, latestSeq
<1>6. ASSUME NEW c \in Client
      PROVE  /\ asked'[c] <= lastSeq'[c]
             /\ \A i \in 1 .. Len(log'[c]) : log'[c][i] <= lastSeq'[c]
             /\ \A i, j \in 1 .. Len(log'[c]) : i < j => log'[c][i] < log'[c][j]
             /\ \A i \in 1 .. Len(log'[c]) : asked'[c] < log'[c][i]
  <2>1. /\ log[c] \in Seq(Nat) /\ lastSeq[c] \in Nat /\ asked[c] \in Nat
        /\ asked'[c] = asked[c]
        /\ asked[c] <= lastSeq[c]
        /\ \A i \in 1 .. Len(log[c]) : log[c][i] <= lastSeq[c]
        /\ \A i, j \in 1 .. Len(log[c]) : i < j => log[c][i] < log[c][j]
        /\ \A i \in 1 .. Len(log[c]) : asked[c] < log[c][i]
    BY <1>1 DEF IInv, TypeOK, CursorCoversLog, InOrderOnce
  <2>2. CASE ~ served(c)
    <3>1. lastSeq'[c] = lastSeq[c] /\ log'[c] = log[c]
      BY <1>1, <2>2
    <3> QED
      BY <2>1, <3>1
  <2>3. CASE served(c) /\ c \in failing
    <3>1. lastSeq'[c] = ev(c)[Len(ev(c))] /\ log'[c] = log[c]
      BY <1>1, <2>3
    <3>2. \A i \in 1 .. Len(log[c]) : log[c][i] \in Nat
      BY <2>1
    <3>3. lastSeq'[c] \in Nat /\ lastSeq'[c] > lastSeq[c]
      BY <1>3, <2>3, <3>1
    <3>4. asked'[c] <= lastSeq'[c]
      BY <2>1, <3>3
    <3>5. \A i \in 1 .. Len(log[c]) : log[c][i] <= lastSeq'[c]
      BY <2>1, <3>2, <3>3
    <3>6. log'[c] = log[c]
      BY <3>1
    <3> HIDE DEF served
    <3>7. \A i \in 1 .. Len(log'[c]) : log'[c][i] <= lastSeq'[c]
      BY <3>5, <3>6
    <3>8. /\ \A i, j \in 1 .. Len(log'[c]) : i < j => log'[c][i] < log'[c][j]
          /\ \A i \in 1 .. Len(log'[c]) : asked'[c] < log'[c][i]
      BY <2>1, <3>6
    <3> QED
      BY <3>4, <3>7, <3>8
  <2>4. CASE served(c) /\ c \notin failing
    <3>1. lastSeq'[c] = ev(c)[Len(ev(c))] /\ log'[c] = log[c] \o ev(c)
      BY <1>1, <2>4
    <3> DEFINE n == Len(log[c])
               m == Len(ev(c))
    <3>2. /\ n \in Nat /\ m \in Nat
          /\ Len(log'[c]) = n + m
          /\ \A i \in 1 .. (n + m) :
                log'[c][i] = IF i <= n THEN log[c][i] ELSE ev(c)[i - n]
      BY <1>2, <2>1, <3>1
    <3>3. \A i \in 1 .. n : log[c][i] \in Nat /\ log[c][i] <= lastSeq[c]
      BY <2>1
    <3>4. \A i \in 1 .. m : ev(c)[i] \in Nat /\ ev(c)[i] > lastSeq[c]
      BY <1>2
    <3>5. /\ lastSeq'[c] \in Nat /\ lastSeq'[c] > lastSeq[c]
          /\ \A i \in 1 .. m : ev(c)[i] <= lastSeq'[c]
      BY <1>3, <2>4, <3>1
    <3> HIDE DEF n, m
    <3>6. \A i \in 1 .. (n + m) : i > n => (i - n) \in 1 .. m
      BY <3>2
    <3>7. \A i \in 1 .. (n + m) : log'[c][i] <= lastSeq'[c] /\ asked[c] < log'[c][i]
      <4> TAKE i \in 1 .. (n + m)
      <4>1. CASE i <= n
        <5>1. i \in 1 .. n /\ log'[c][i] = log[c][i]
          BY <3>2, <4>1
        <5> QED
          BY <2>1, <3>3, <3>5, <5>1 DEF n
      <4>2. CASE i > n
        <5>1. (i - n) \in 1 .. m /\ log'[c][i] = ev(c)[i - n]
          BY <3>2, <3>6, <4>2
        <5> QED
          BY <2>1, <3>4, <3>5, <5>1
      <4> QED
        BY <3>2, <4>1, <4>2
    <3>8. \A i, j \in 1 .. (n + m) : i < j => log'[c][i] < log'[c][j]
      <4> SUFFICES ASSUME NEW i \in 1 .. (n + m), NEW j \in 1 .. (n + m), i < j
                   PROVE  log'[c][i] < log'[c][j]
        OBVIOUS
      <4>1. CASE j <= n
        <5>1. i \in 1 .. n /\ j \in 1 .. n /\ log'[c][i] = log[c][i] /\ log'[c][j] = log[c][j]
          BY <3>2, <4>1
        <5> QED
          BY <2>1, <5>1 DEF n
      <4>2. CASE i <= n /\ j > n
        <5>1. /\ i \in 1 .. n /\ log'[c][i] = log[c][i]
              /\ (j - n) \in 1 .. m /\ log'[c][j] = ev(c)[j - n]
          BY <3>2, <3>6, <4>2
        <5> QED
          BY <2>1, <3>3, <3>4, <5>1
      <4>3. CASE i > n
        <5>1. /\ (i - n) \in 1 .. m /\ log'[c][i] = ev(c)[i - n]
              /\ (j - n) \in 1 .. m /\ log'[c][j] = ev(c)[j - n]
              /\ i - n < j - n
          BY <3>2, <3>6, <4>3
        <5> QED
          BY <1>2, <5>1 DEF m
      <4> QED
        BY <3>2, <4>1, <4>2, <4>3
    <3>9. asked'[c] = asked[c] /\ asked'[c] <= lastSeq'[c]
      BY <2>1, <3>5
    <3>10. 1 .. Len(log'[c]) = 1 .. (n + m)
      BY <3>2
    <3> QED
      BY <3>7, <3>8, <3>9, <3>10
  <2> QED
    BY <2>2, <2>3, <2>4
<1> QED
  BY <1>4, <1>5, <1>6 DEF IInv, CursorCoversLog, InOrderOnce

LEMMA PushInv ==
  ASSUME StreamAssumption, IInv, push
  PROVE  IInv'
<1>1. /\ buffer \in Seq(Nat) /\ nextSeq \in Nat \ {0} /\ Capacity \in Nat \ {0}
      /\ nextSeq' = nextSeq + 1
      /\ UNCHANGED <<clients, open, alive, lastSeq, asked, log>>
  BY DEF push, clientVars, IInv, TypeOK, StreamAssumption
<1>2. /\ Len(buffer) <= Capacity
      /\ Len(buffer) <= nextSeq - 1
      /\ \A i \in 1 .. Len(buffer) : buffer[i] = nextSeq - 1 - Len(buffer) + i
  BY DEF IInv, BufferIsLatestRun, latestSeq
<1>3. /\ buffer' \in Seq(Nat)
      /\ Len(buffer') <= Capacity
      /\ Len(buffer') <= nextSeq' - 1
      /\ \A i \in 1 .. Len(buffer') : buffer'[i] = nextSeq' - 1 - Len(buffer') + i
  <2>1. CASE Len(buffer) < Capacity
    <3>1. buffer' = Append(buffer, nextSeq)
      BY <2>1 DEF push
    <3> QED
      BY <1>1, <1>2, <2>1, <3>1
  <2>2. CASE ~(Len(buffer) < Capacity)
    <3>1. buffer' = Append(Tail(buffer), nextSeq)
      BY <2>2 DEF push
    <3>2. buffer # <<>> /\ Len(buffer) = Capacity
      BY <1>1, <1>2, <2>2
    <3>3. /\ Tail(buffer) \in Seq(Nat)
          /\ Len(Tail(buffer)) = Len(buffer) - 1
          /\ \A i \in 1 .. (Len(buffer) - 1) : Tail(buffer)[i] = buffer[i + 1]
      BY <1>1, <3>2
    <3>4. Len(buffer') = Len(buffer) /\ buffer' \in Seq(Nat)
      BY <1>1, <3>1, <3>2, <3>3
    <3>5. ASSUME NEW i \in 1 .. Len(buffer)
          PROVE  buffer'[i] = nextSeq - Len(buffer) + i
      <4>1. CASE i = Len(buffer)
        <5>1. buffer'[i] = nextSeq
          BY <1>1, <3>1, <3>2, <3>3, <4>1
        <5> QED
          BY <1>1, <4>1, <5>1
      <4>2. CASE i # Len(buffer)
        <5>1. i \in 1 .. (Len(buffer) - 1) /\ i + 1 \in 1 .. Len(buffer)
          BY <1>1, <4>2
        <5>2. buffer'[i] = buffer[i + 1]
          BY <1>1, <3>1, <3>3, <5>1
        <5>3. buffer[i + 1] = nextSeq - 1 - Len(buffer) + (i + 1)
          BY <1>2, <5>1
        <5> QED
          BY <1>1, <5>2, <5>3
      <4> QED
        BY <4>1, <4>2
    <3> QED
      BY <1>1, <1>2, <3>4, <3>5
  <2> QED
    BY <2>1, <2>2
<1>4. TypeOK'
  BY <1>1, <1>3 DEF IInv, TypeOK
<1>5. (BufferIsLatestRun /\ Len(buffer) <= latestSeq)'
  BY <1>3 DEF BufferIsLatestRun, latestSeq
<1>6. CursorCoversLog' /\ InOrderOnce'
  BY <1>1 DEF IInv, CursorCoversLog, InOrderOnce
<1> QED
  BY <1>4, <1>5, <1>6 DEF IInv

(* The handlers that touch neither the buffer's order nor what was sent.   *)
LEMMA ConnectionInv ==
  ASSUME StreamAssumption, IInv,
         \/ \E c \in Client : Connect(c) \/ OnPong(c) \/ Closing(c) \/ OnClose(c)
         \/ broadcastPrices
         \/ \E failing \in SUBSET Client : pingClients(failing)
         \/ Restart
         \/ UNCHANGED vars
  PROVE  IInv'
<1>1. ASSUME NEW c \in Client, Connect(c)
      PROVE  IInv'
  BY <1>1 DEF Connect, queueVars, IInv, TypeOK, BufferIsLatestRun, latestSeq,
              CursorCoversLog, InOrderOnce
<1>2. ASSUME NEW c \in Client, OnPong(c) \/ Closing(c) \/ OnClose(c)
      PROVE  IInv'
  BY <1>2 DEF OnPong, Closing, OnClose, queueVars, IInv, TypeOK, BufferIsLatestRun,
              latestSeq, CursorCoversLog, InOrderOnce
<1>3. ASSUME NEW failing \in SUBSET Client, pingClients(failing)
      PROVE  IInv'
  BY <1>3 DEF pingClients, queueVars, IInv, TypeOK, BufferIsLatestRun, latestSeq,
              CursorCoversLog, InOrderOnce
<1>4. CASE Restart
  BY <1>4 DEF Restart, StreamAssumption, IInv, TypeOK, BufferIsLatestRun, latestSeq,
              CursorCoversLog, InOrderOnce
<1>5. CASE UNCHANGED vars
  BY <1>5 DEF vars, IInv, TypeOK, BufferIsLatestRun, latestSeq, CursorCoversLog, InOrderOnce
<1>6. CASE broadcastPrices
  BY <1>6 DEF broadcastPrices, queueVars, IInv, TypeOK, BufferIsLatestRun, latestSeq,
              CursorCoversLog, InOrderOnce
<1> QED
  BY <1>1, <1>2, <1>3, <1>4, <1>5, <1>6

(* IInv is inductive: the buffer stays the latest run under push, and a    *)
(* cursor moves only over numbers that were sent or evicted.               *)
THEOREM Invariance == Spec => []IInv
<1>1. Init => IInv
  BY InitInv, StreamAssumption
<1>2. IInv /\ [Next]_vars => IInv'
  BY PushInv, OnSinceInv, BroadcastInv, ConnectionInv, StreamAssumption DEF Next
<1> QED
  BY <1>1, <1>2, PTL DEF Spec

(* For every capacity: the queue holds exactly the latest events.          *)
THEOREM BufferCorrect == Spec => []BufferIsLatestRun
<1>1. IInv => BufferIsLatestRun
  BY DEF IInv
<1> QED
  BY <1>1, Invariance, PTL

(* For every number of clients and every slice limit: "since" answers and  *)
(* broadcasts together deliver in order and at most once.                  *)
THEOREM DeliveryInOrderOnce == Spec => []InOrderOnce
<1>1. IInv => InOrderOnce
  BY DEF IInv
<1> QED
  BY <1>1, Invariance, PTL

-----------------------------------------------------------------------------
(* LossOnlyByEviction for one client, so that a step can be argued about   *)
(* client by client.                                                       *)
Covered(c) ==
  \A s \in (asked[c] + 1) .. lastSeq[c] :
    \/ \E i \in 1 .. Len(log[c]) : log[c][i] = s
    \/ s <= latestSeq - Len(buffer)

(* A handler that keeps the cursor and the log of c cannot uncover it as   *)
(* long as the queue only evicts.                                          *)
LEMMA CoveredKept ==
  ASSUME IInv, NEW c \in Client, Covered(c),
         asked'[c] = asked[c], lastSeq'[c] = lastSeq[c], log'[c] = log[c],
         (latestSeq - Len(buffer))' \in Nat,
         latestSeq - Len(buffer) <= (latestSeq - Len(buffer))'
  PROVE  Covered(c)'
<1>1. asked[c] \in Nat /\ lastSeq[c] \in Nat /\ latestSeq - Len(buffer) \in Nat
  BY DEF IInv, TypeOK, latestSeq
<1> DEFINE low == latestSeq - Len(buffer)
<1>2. \A s \in (asked[c] + 1) .. lastSeq[c] :
        (\E i \in 1 .. Len(log[c]) : log[c][i] = s) \/ s <= low
  BY DEF Covered
<1>3. low \in Nat /\ low' \in Nat /\ low <= low'
  BY <1>1
<1> HIDE DEF low
<1>4. \A s \in (asked'[c] + 1) .. lastSeq'[c] :
        (\E i \in 1 .. Len(log'[c]) : log'[c][i] = s) \/ s <= low'
  BY <1>1, <1>2, <1>3
<1> QED
  BY <1>4 DEF Covered, low

LEMMA CoveredPush ==
  ASSUME StreamAssumption, IInv, NEW c \in Client, Covered(c), push
  PROVE  Covered(c)'
<1>1. IInv'
  BY PushInv
<1>2. /\ buffer \in Seq(Nat) /\ nextSeq \in Nat \ {0} /\ nextSeq' = nextSeq + 1
      /\ UNCHANGED <<clients, open, alive, lastSeq, asked, log>>
      /\ Len(buffer) <= nextSeq - 1 /\ Len(buffer) <= Capacity /\ Capacity \in Nat \ {0}
  BY DEF push, clientVars, IInv, TypeOK, latestSeq, StreamAssumption, BufferIsLatestRun
<1>3. Len(buffer') <= Len(buffer) + 1 /\ Len(buffer') \in Nat
  <2>1. CASE Len(buffer) < Capacity
    BY <1>2, <2>1 DEF push
  <2>2. CASE ~(Len(buffer) < Capacity)
    <3>1. buffer # <<>> /\ buffer' = Append(Tail(buffer), nextSeq)
      BY <1>2, <2>2 DEF push
    <3> QED
      BY <1>2, <3>1
  <2> QED
    BY <2>1, <2>2
<1>4. Len(buffer') <= nextSeq' - 1
  BY <1>1 DEF IInv, latestSeq
<1> QED
  BY <1>2, <1>3, <1>4, CoveredKept DEF latestSeq

LEMMA CoveredOnSince ==
  ASSUME StreamAssumption, IInv, NEW d \in Client, NEW since \in 0 .. MaxSeq,
         OnSince(d, since), NEW c \in Client, Covered(c)
  PROVE  Covered(c)'
<1> DEFINE ev == listSince(since, BatchLimit)
<1>1. /\ asked' = [asked EXCEPT ![d] = since]
      /\ log' = [log EXCEPT ![d] = ev]
      /\ lastSeq' = [lastSeq EXCEPT ![d] = IF ev = <<>> THEN since ELSE ev[Len(ev)]]
      /\ UNCHANGED <<clients, open, alive, buffer, nextSeq>>
  BY DEF OnSince, queueVars
<1>2. since \in Nat /\ BatchLimit \in Nat \ {0}
  BY DEF StreamAssumption
<1>3. latestSeq - Len(buffer) \in Nat /\ (latestSeq - Len(buffer))' = latestSeq - Len(buffer)
  BY <1>1 DEF IInv, TypeOK, latestSeq
<1>4. /\ ev \in Seq(Nat)
      /\ ev # <<>> =>
           \A t \in Nat : since < t /\ t <= ev[Len(ev)] =>
              \/ \E i \in 1 .. Len(ev) : ev[i] = t
              \/ t <= latestSeq - Len(buffer)
  BY <1>2, ListSince DEF IInv
<1> HIDE DEF ev
<1>5. CASE c # d
  BY <1>1, <1>3, <1>5, CoveredKept DEF IInv, TypeOK
<1>6. CASE c = d
  <2>1. /\ asked'[c] = since /\ log'[c] = ev
        /\ lastSeq'[c] = IF ev = <<>> THEN since ELSE ev[Len(ev)]
    BY <1>1, <1>6 DEF IInv, TypeOK
  <2>2. CASE ev = <<>>
    BY <1>2, <2>1, <2>2 DEF Covered
  <2>3. CASE ev # <<>>
    <3>1. ev[Len(ev)] \in Nat
      BY <1>4, <2>3
    <3>2. \A t \in (since + 1) .. ev[Len(ev)] : t \in Nat /\ since < t /\ t <= ev[Len(ev)]
      BY <1>2, <3>1
    <3>3. \A t \in (since + 1) .. ev[Len(ev)] :
            (\E i \in 1 .. Len(ev) : ev[i] = t) \/ t <= latestSeq - Len(buffer)
      BY <1>4, <2>3, <3>2
    <3>4. lastSeq'[c] = ev[Len(ev)]
      BY <2>1, <2>3
    <3> QED
      BY <1>3, <2>1, <3>3, <3>4 DEF Covered
  <2> QED
    BY <2>2, <2>3
<1> QED
  BY <1>5, <1>6

LEMMA CoveredBroadcast ==
  ASSUME StreamAssumption, IInv, NEW failing \in SUBSET Client, broadcast(failing),
         NEW c \in clients', Covered(c)
  PROVE  Covered(c)'
<1> DEFINE ev == listSince(lastSeq[c], BroadcastLimit)
           served == c \in clients /\ open[c] /\ ev # <<>>
<1>1. /\ c \in Client
      /\ served => c \notin failing
      /\ asked' = asked
      /\ lastSeq'[c] = IF served THEN ev[Len(ev)] ELSE lastSeq[c]
      /\ log'[c] = IF served /\ c \notin failing THEN log[c] \o ev ELSE log[c]
      /\ UNCHANGED <<open, alive, buffer, nextSeq>>
  BY DEF broadcast, queueVars, IInv, TypeOK
<1>2. lastSeq[c] \in Nat /\ BroadcastLimit \in Nat \ {0} /\ asked[c] \in Nat
  BY <1>1 DEF StreamAssumption, IInv, TypeOK
<1>3. latestSeq - Len(buffer) \in Nat /\ (latestSeq - Len(buffer))' = latestSeq - Len(buffer)
  BY <1>1 DEF IInv, TypeOK, latestSeq
<1>4. /\ ev \in Seq(Nat)
      /\ ev # <<>> =>
           \A t \in Nat : lastSeq[c] < t /\ t <= ev[Len(ev)] =>
              \/ \E i \in 1 .. Len(ev) : ev[i] = t
              \/ t <= latestSeq - Len(buffer)
  BY <1>2, ListSince DEF IInv
<1> HIDE DEF ev
<1>5. CASE ~ served
  <2>1. lastSeq'[c] = lastSeq[c] /\ log'[c] = log[c] /\ asked'[c] = asked[c]
    BY <1>1, <1>5
  <2> QED
    BY <1>1, <1>3, <2>1, CoveredKept
<1>6. CASE served
  <2>1. lastSeq'[c] = ev[Len(ev)] /\ log'[c] = log[c] \o ev /\ asked'[c] = asked[c]
    BY <1>1, <1>6
  <2>2. ev[Len(ev)] \in Nat /\ ev # <<>>
    BY <1>4, <1>6
  <2>3. log[c] \in Seq(Nat)
    BY <1>1 DEF IInv, TypeOK
  <2>4. \A i \in 1 .. Len(log[c]) : i \in 1 .. Len(log'[c]) /\ log'[c][i] = log[c][i]
    BY <1>4, <2>1, <2>3
  <2>5. \A i \in 1 .. Len(ev) :
          Len(log[c]) + i \in 1 .. Len(log'[c]) /\ log'[c][Len(log[c]) + i] = ev[i]
    BY <1>4, <2>1, <2>3
  <2>6. ASSUME NEW s \in (asked[c] + 1) .. ev[Len(ev)]
        PROVE  (\E i \in 1 .. Len(log'[c]) : log'[c][i] = s) \/ s <= latestSeq - Len(buffer)
    <3>1. CASE s <= lastSeq[c]
      <4>1. s \in (asked[c] + 1) .. lastSeq[c]
        BY <1>2, <2>2, <3>1
      <4>2. (\E i \in 1 .. Len(log[c]) : log[c][i] = s) \/ s <= latestSeq - Len(buffer)
        BY <4>1 DEF Covered
      <4> QED
        BY <2>4, <4>2
    <3>2. CASE lastSeq[c] < s
      <4>1. s \in Nat /\ s <= ev[Len(ev)]
        BY <1>2, <2>2
      <4>2. (\E i \in 1 .. Len(ev) : ev[i] = s) \/ s <= latestSeq - Len(buffer)
        BY <1>4, <2>2, <3>2, <4>1
      <4> QED
        BY <2>5, <4>2
    <3> QED
      BY <1>2, <2>2, <3>1, <3>2
  <2> QED
    BY <1>3, <2>1, <2>6 DEF Covered
<1> QED
  BY <1>5, <1>6

(* For every capacity and limit: an event below the cursor of a registered *)
(* client was sent to it or has been evicted.                              *)
THEOREM NoAvoidableLoss == Spec => []LossOnlyByEviction
<1>1. LossOnlyByEviction <=> \A c \in clients : Covered(c)
  BY DEF LossOnlyByEviction, Covered
<1>2. Init => LossOnlyByEviction
  BY DEF Init, LossOnlyByEviction
<1>3. ASSUME IInv, LossOnlyByEviction, [Next]_vars
      PROVE  LossOnlyByEviction'
  <2> DEFINE kept(c) == asked'[c] = asked[c] /\ lastSeq'[c] = lastSeq[c] /\ log'[c] = log[c]
  <2>1. LossOnlyByEviction' <=> \A c \in clients' : Covered(c)'
    BY DEF LossOnlyByEviction, Covered
  <2>2. clients \subseteq Client /\ \A c \in clients : Covered(c)
    BY <1>1, <1>3 DEF IInv, TypeOK
  <2>3. latestSeq - Len(buffer) \in Nat
    BY <1>3 DEF IInv, TypeOK, latestSeq
  <2>4. ASSUME NEW c \in clients, kept(c), UNCHANGED queueVars
        PROVE  Covered(c)'
    <3>1. (latestSeq - Len(buffer))' = latestSeq - Len(buffer)
      BY <2>4 DEF queueVars, latestSeq
    <3> QED
      BY <1>3, <2>2, <2>3, <2>4, <3>1, CoveredKept
  <2>5. CASE push
    <3>1. clients' = clients
      BY <2>5 DEF push, clientVars
    <3> QED
      BY <1>3, <2>1, <2>2, <2>5, <3>1, CoveredPush, StreamAssumption
  <2>6. ASSUME NEW d \in Client, Connect(d)
        PROVE  \A c \in clients' : Covered(c)'
    <3> TAKE c \in clients'
    <3>1. CASE c = d
      <4>1. asked'[c] = 0 /\ lastSeq'[c] = 0
        BY <1>3, <2>6, <3>1 DEF Connect, IInv, TypeOK
      <4> QED
        BY <4>1 DEF Covered
    <3>2. CASE c # d
      <4>1. c \in clients /\ kept(c) /\ UNCHANGED queueVars
        BY <1>3, <2>6, <3>2 DEF Connect, IInv, TypeOK
      <4> QED
        BY <2>4, <4>1
    <3> QED
      BY <3>1, <3>2
  <2>7. ASSUME NEW d \in Client, NEW since \in 0 .. MaxSeq, OnSince(d, since)
        PROVE  \A c \in clients' : Covered(c)'
    <3>1. clients' = clients
      BY <2>7 DEF OnSince
    <3> QED
      BY <1>3, <2>2, <2>7, <3>1, CoveredOnSince, StreamAssumption
  <2>8. ASSUME NEW failing \in SUBSET Client, broadcast(failing)
        PROVE  \A c \in clients' : Covered(c)'
    <3>1. clients' \subseteq clients
      BY <2>8 DEF broadcast
    <3> QED
      BY <1>3, <2>2, <2>8, <3>1, CoveredBroadcast, StreamAssumption
  <2>9. ASSUME NEW failing \in SUBSET Client, pingClients(failing)
        PROVE  \A c \in clients' : Covered(c)'
    <3>1. clients' \subseteq clients /\ UNCHANGED queueVars /\ \A c \in clients : kept(c)
      BY <2>9 DEF pingClients
    <3> QED
      BY <2>4, <3>1
  <2>10. ASSUME NEW d \in Client, OnPong(d) \/ Closing(d) \/ OnClose(d)
         PROVE  \A c \in clients' : Covered(c)'
    <3>1. clients' \subseteq clients /\ UNCHANGED queueVars /\ \A c \in clients : kept(c)
      BY <2>10 DEF OnPong, Closing, OnClose
    <3> QED
      BY <2>4, <3>1
  <2>11. CASE Restart
    BY <2>1, <2>11 DEF Restart
  <2>12. CASE UNCHANGED vars
    <3>1. clients' = clients /\ UNCHANGED queueVars /\ \A c \in clients : kept(c)
      BY <2>12 DEF vars, queueVars
    <3> QED
      BY <2>1, <2>4, <3>1
  <2>13. CASE broadcastPrices
    <3>1. clients' \subseteq clients /\ UNCHANGED queueVars /\ \A c \in clients : kept(c)
      BY <2>13 DEF broadcastPrices
    <3> QED
      BY <2>1, <2>4, <3>1
  <2> QED
    BY <1>3, <2>1, <2>5, <2>6, <2>7, <2>8, <2>9, <2>10, <2>11, <2>12, <2>13 DEF Next
<1> QED
  BY <1>2, <1>3, Invariance, PTL DEF Spec
=============================================================================
