--------------------------- MODULE EpisodesProofs ---------------------------
(***************************************************************************)
(* Proofs about Episodes, for every set of reconciliations, every history  *)
(* of fills and every interleaving, crash and failure: a fill is booked at *)
(* most once unless a reconciliation raced or it came from two sources, a  *)
(* closed row whose outcome is lost was lost to a crash or a failing call, *)
(* and as long as the fills come live and in order, and no residue is left *)
(* of a sum, the tracker follows the trader's position and the table holds *)
(* exactly the positions of a plain history.                               *)
(*                                                                         *)
(* None of the four is inductive.  The first rests on a count of places: a *)
(* fill of one source that no reconciliation raced for is either still to  *)
(* be published, or queued, or in hand, or booked, and in only one place   *)
(* of these, and from the moment it is in hand its transaction is marked   *)
(* (OnePlace).  The                                                        *)
(* tracker follows because of what the open episode remembers: something   *)
(* has been taken off it only if a fill has reduced the position since it  *)
(* was opened (Remembers).  The table holds the positions less what the    *)
(* live task has still to write (Written): the row of an episode it has    *)
(* opened, or the exit of the one row that is open, which is that of the   *)
(* position the trader has left.                                           *)
(***************************************************************************)
EXTENDS Episodes, FiniteSetTheorems, WellFoundedInduction, TLAPS

Direction == {"long", "short"}
Fill == [at : Nat \ {0}, size : Int]
Episode == [dir : Direction, size : Nat, first : Nat \ {0}, entries : Nat, exited : Int,
            summed : BOOLEAN]
Booking == [task : Tasks, fill : Fill, exact : BOOLEAN]
Trade == [tx : Nat, size : Int \ {0}, start : Int]
Row == [dir : Direction, first : Nat \ {0}, status : {"open", "closed"}, exit : Nat]
Stage == {"idle", "marked", "insert", "count", "select", "update", "credit", "rowDone"}
Work == [pc : Stage,
         fill : Fill \cup {None}, ep : Episode \cup {None}, row : Nat]

Known(fill) == fill.at \in DOMAIN trades

(* A task that has come to stage p, with a fill, an episode or a row.      *)
WithFill(w, p, f) == [w EXCEPT !.pc = p, !.fill = f]
WithEpisode(w, p, e) == [w EXCEPT !.pc = p, !.ep = e]
WithRow(w, p, r) == [w EXCEPT !.pc = p, !.row = r]
Fresh(fill, n, summed) == [NewEpisode(fill, n) EXCEPT !.summed = summed]
Increased(ep, size) == [ep EXCEPT !.entries = @ + 1, !.size = size, !.summed = TRUE]
Reduced(ep, size) == [ep EXCEPT !.exited = @ + size, !.summed = TRUE]
Closing(row, at) == [row EXCEPT !.status = "closed", !.exit = at]

TaskTypes ==
  \A t \in Tasks :
    /\ task[t].pc # "idle" => task[t].fill \in Fill /\ Known(task[t].fill)
    /\ task[t].pc \in {"insert", "select", "update"} => task[t].ep \in Episode
    /\ task[t].pc = "update" => task[t].row \in DOMAIN signals
    /\ \A k \in DOMAIN queue[t] : Known(queue[t][k])

Types ==
  /\ trades \in Seq(Trade)
  /\ stored \subseteq DOMAIN trades
  /\ outbox \in Seq(Nat) /\ ToSet(outbox) \subseteq DOMAIN trades
  /\ mode \in {"down", "boot", "up"}
  /\ queue \in [Tasks -> Seq(Fill)] /\ task \in [Tasks -> Work]
  /\ open \in Episode \cup {None}
  /\ signals \in Seq(Row)
  /\ {opened, credited, restarts, failures} \subseteq Nat
  /\ booked \in Seq(Booking)
  /\ \A k \in DOMAIN booked : Known(booked[k].fill)
  /\ mode = "down" => \A t \in Tasks : ~Working(t)
  /\ TaskTypes

(* The places a fill can be in.                                            *)
Outboxed(i) == {k \in DOMAIN outbox : outbox[k] = i}
Queued(i) == {p \in Tasks \X (Nat \ {0}) :
                p[2] \in DOMAIN queue[p[1]] /\ queue[p[1]][p[2]].at = i}
InHand(i) == {t \in Tasks : task[t].pc = "marked" /\ task[t].fill.at = i}
Booked(i) == {k \in DOMAIN booked : booked[k].fill.at = i}

AtMostOne(S) == \A x, y \in S : x = y
OnePlace(i) ==
  /\ AtMostOne(Outboxed(i)) /\ AtMostOne(Queued(i))
  /\ AtMostOne(InHand(i)) /\ AtMostOne(Booked(i))
  /\ Outboxed(i) = {} \/ (Queued(i) = {} /\ InHand(i) = {} /\ Booked(i) = {})
  /\ Queued(i) = {} \/ (InHand(i) = {} /\ Booked(i) = {})
  /\ InHand(i) = {} \/ Booked(i) = {}

Placed(i) ==
  /\ OnePlace(i)
  /\ InHand(i) # {} \/ Booked(i) # {} => Tx(i) \in marked

PlaceInv == \A i \in DOMAIN trades \ (raced \cup repeated) : Placed(i)

(* Each fill starts from the position the one before has left.             *)
Chained ==
  \A i \in DOMAIN trades : trades[i].start = IF i = 1 THEN 0 ELSE After(i - 1)

NeverRebuilt(n) ==
  \A i, j \in 1..n : i < j /\ Reduces(i) /\ Increases(j)
                       => \E k \in i..j : Sign(After(k)) # Sign(After(i))

(* What the open episode remembers of the first n fills.                   *)
Remembers(ep, n) ==
  /\ n = 0 => ep = None
  /\ n > 0 => NetPosition(ep) = After(n)
  /\ ep # None =>
       /\ n > 0 /\ After(n) # 0 /\ (ep.dir = "long" <=> After(n) > 0)
       /\ ep.exited # 0 =>
            \E i \in 1..n : Reduces(i) /\ \A k \in i..n : Sign(After(k)) = Sign(After(i))

TrackerInv == LiveInOrder /\ NeverRebuilt(Len(booked)) => Remembers(open, Len(booked))

EpInv == Types /\ PlaceInv /\ ClosedRowsCredited /\ Chained /\ TrackerInv
-----------------------------------------------------------------------------
LEMMA Constants ==
  /\ IsFiniteSet(Tasks) /\ Cardinality(Tasks) \in Nat
  /\ "live" \in Tasks /\ Scheduled \in Tasks /\ Reconcilers \subseteq Tasks
  /\ "live" \notin Reconcilers
<1>1. IsFiniteSet(Requests \cup {Scheduled})
  BY EpisodesAssumption, FS_AddElement
<1>2. IsFiniteSet((Requests \cup {Scheduled}) \cup {"live"})
  BY <1>1, FS_AddElement
<1> QED  BY <1>2, FS_CardinalityType, EpisodesAssumption DEF Tasks, Reconcilers

LEMMA NoneIsNone ==
  /\ None \notin Fill /\ None \notin Episode
  /\ Idle \in Work /\ Idle.pc = "idle" /\ Idle.fill = None
<1>1. \A f \in Fill : DOMAIN f = {"at", "size"}
  BY DEF Fill
<1>2. \A e \in Episode : DOMAIN e = {"dir", "size", "first", "entries", "exited", "summed"}
  BY DEF Episode
<1>3. DOMAIN None = {"kind"} /\ "kind" \notin {"at", "size"}
      /\ "kind" \notin {"dir", "size", "first", "entries", "exited", "summed"}
  BY DEF None
<1>4. None \notin Fill /\ None \notin Episode
  BY <1>1, <1>2, <1>3
<1>5. Idle \in Work /\ Idle.pc = "idle" /\ Idle.fill = None
  BY DEF Idle, Work, Stage
<1> QED  BY <1>4, <1>5

LEMMA FillsTyped ==
  ASSUME Types, NEW i \in DOMAIN trades
  PROVE  /\ liveFill(i) \in Fill /\ Known(liveFill(i)) /\ liveFill(i).at = i
         /\ rowFill(i) \in Fill /\ Known(rowFill(i)) /\ rowFill(i).at = i
         /\ i \in Nat \ {0} /\ Tx(i) \in Nat
<1>1. i \in Nat \ {0} /\ trades[i] \in Trade
  BY DEF Types
<1>2. trades[i].size \in Int /\ trades[i].start \in Int /\ trades[i].tx \in Nat
  BY <1>1 DEF Trade
<1>3. Labelled(trades[i]) \in Int
  BY <1>2 DEF Labelled, Abs
<1> QED  BY <1>1, <1>2, <1>3 DEF liveFill, rowFill, Fill, Known, Tx

(* The rows a reconciliation reads: every stored fill that is not marked,  *)
(* once.                                                                   *)
LEMMA HistoryListed ==
  ASSUME Types
  PROVE  LET H == {i \in stored : Tx(i) \notin marked}
         IN  /\ historicalFills \in Seq(H) /\ ToSet(historicalFills) = H
             /\ \A k, m \in DOMAIN historicalFills :
                  historicalFills[k] = historicalFills[m] => k = m
<1> DEFINE H == {i \in stored : Tx(i) \notin marked}
           n == Cardinality(H)
           B(i) == {j \in H : j <= i}
           f == [i \in H |-> Cardinality(B(i))]
<1>1. H \subseteq Nat /\ IsFiniteSet(H) /\ n \in Nat
  <2>1. stored \subseteq 1 .. Len(trades) /\ Len(trades) \in Nat
    BY DEF Types
  <2>2. IsFiniteSet(1 .. Len(trades))
    BY <2>1, FS_Interval
  <2>3. H \in SUBSET (1 .. Len(trades))
    BY <2>1
  <2>4. IsFiniteSet(H) /\ n \in Nat
    BY <2>2, <2>3, FS_Subset, FS_CardinalityType
  <2> QED  BY <2>1, <2>3, <2>4
<1>2. \A i \in H : f[i] \in 1 .. n
  <2> SUFFICES ASSUME NEW i \in H PROVE f[i] \in 1 .. n
    OBVIOUS
  <2>1. B(i) \in SUBSET H /\ i \in B(i)
    BY <1>1
  <2>2. IsFiniteSet(B(i)) /\ Cardinality(B(i)) <= n /\ Cardinality(B(i)) \in Nat
    BY <1>1, <2>1, FS_Subset, FS_CardinalityType
  <2>3. Cardinality(B(i)) # 0
    BY <2>1, <2>2, FS_EmptySet
  <2> QED  BY <1>1, <2>2, <2>3
<1>3. \A i, j \in H : i < j => f[i] < f[j]
  <2> SUFFICES ASSUME NEW i \in H, NEW j \in H, i < j PROVE f[i] < f[j]
    OBVIOUS
  <2>1. B(i) \in SUBSET B(j) /\ j \in B(j) /\ j \notin B(i)
    BY <1>1
  <2>2. IsFiniteSet(B(j))
    BY <1>1, FS_Subset
  <2>3. Cardinality(B(i)) <= Cardinality(B(j)) /\ Cardinality(B(i)) # Cardinality(B(j))
    BY <2>1, <2>2, FS_Subset
  <2>4. f[i] \in Nat /\ f[j] \in Nat /\ f[i] = Cardinality(B(i)) /\ f[j] = Cardinality(B(j))
    <3>1. \A k \in 1 .. n : k \in Nat
      BY <1>1
    <3>2. f[i] = Cardinality(B(i)) /\ f[j] = Cardinality(B(j))
      OBVIOUS
    <3> HIDE DEF f, n, H, B
    <3> QED  BY <1>2, <3>1, <3>2
  <2> HIDE DEF f, B
  <2> QED  BY <2>3, <2>4
<1>4. \A i, j \in H : f[i] = f[j] => i = j
  <2> SUFFICES ASSUME NEW i \in H, NEW j \in H, i # j PROVE f[i] # f[j]
    OBVIOUS
  <2>1. f[i] \in Nat /\ f[j] \in Nat
    BY <1>1, <1>2
  <2>2. i < j \/ j < i
    BY <1>1
  <2> HIDE DEF f
  <2> QED  BY <1>3, <2>1, <2>2
<1>5. \A k \in 1 .. n : \E i \in H : f[i] = k
  <2>1. IsFiniteSet(1 .. n) /\ Cardinality(1 .. n) = n
    BY <1>1, FS_Interval
  <2>2. f \in Injection(H, 1 .. n)
    BY <1>2, <1>4 DEF Injection, IsInjective
  <2>3. f \in Surjection(H, 1 .. n)
    BY <1>1, <2>1, <2>2, FS_Injection
  <2> QED  BY <2>3 DEF Surjection
<1>6. historicalFills = [k \in 1 .. n |-> historicalFills[k]]
      /\ \A k \in 1 .. n : historicalFills[k] = CHOOSE i \in H : Cardinality(B(i)) = k
  BY DEF historicalFills
<1>7. \A k \in 1 .. n : historicalFills[k] \in H /\ f[historicalFills[k]] = k
  <2> SUFFICES ASSUME NEW k \in 1 .. n
               PROVE  historicalFills[k] \in H /\ Cardinality(B(historicalFills[k])) = k
    OBVIOUS
  <2>1. \E i \in H : Cardinality(B(i)) = k
    BY <1>5
  <2> HIDE DEF B, H
  <2> QED  BY <1>6, <2>1
<1> HIDE DEF f, n, H
<1>8. historicalFills \in Seq(H) /\ DOMAIN historicalFills = 1 .. n
  BY <1>1, <1>6, <1>7
<1>9. \A i \in H : f[i] \in 1 .. n /\ historicalFills[f[i]] = i
  <2> SUFFICES ASSUME NEW i \in H
               PROVE  f[i] \in 1 .. n /\ historicalFills[f[i]] = i
    OBVIOUS
  <2>1. f[i] \in 1 .. n
    BY <1>2
  <2> QED  BY <1>4, <1>7, <2>1
<1>10. ToSet(historicalFills) = H
  BY <1>7, <1>8, <1>9 DEF ToSet
<1>11. \A k, m \in DOMAIN historicalFills :
         historicalFills[k] = historicalFills[m] => k = m
  BY <1>7, <1>8
<1> QED  BY <1>8, <1>10, <1>11 DEF H

-----------------------------------------------------------------------------
(* Types                                                                   *)
LEMMA ReturnedTyped ==
  ASSUME Types, NEW t \in Tasks, task[t].pc # "idle"
  PROVE  /\ Returned(t) \in Work /\ Returned(t).pc \in {"idle", "rowDone"}
         /\ Returned(t).pc # "idle" => Returned(t).fill \in Fill /\ Known(Returned(t).fill)
<1>1. task[t].fill \in Fill /\ Known(task[t].fill)
  BY DEF Types, TaskTypes
<1> QED  BY <1>1 DEF Returned, Idle, Work, Stage

LEMMA TailKnown ==
  ASSUME Types, NEW t \in Tasks, queue[t] # <<>>
  PROVE  /\ Head(queue[t]) \in Fill /\ Known(Head(queue[t]))
         /\ Tail(queue[t]) \in Seq(Fill) /\ Len(Tail(queue[t])) = Len(queue[t]) - 1
         /\ DOMAIN queue[t] = 1 .. Len(queue[t]) /\ Len(queue[t]) \in Nat \ {0}
         /\ DOMAIN Tail(queue[t]) = 1 .. (Len(queue[t]) - 1)
         /\ \A k \in 1 .. (Len(queue[t]) - 1) : Tail(queue[t])[k] = queue[t][k + 1]
<1>1. queue[t] \in Seq(Fill)
  BY DEF Types
<1>2. \A k \in DOMAIN queue[t] : Known(queue[t][k])
  BY DEF Types, TaskTypes
<1>3. Len(queue[t]) \in Nat \ {0} /\ DOMAIN queue[t] = 1 .. Len(queue[t])
  BY <1>1
<1>4. Head(queue[t]) = queue[t][1] /\ 1 \in DOMAIN queue[t]
  BY <1>1, <1>3
<1>5. Head(queue[t]) \in Fill
  BY <1>1, <1>3, <1>4
<1>6. /\ Tail(queue[t]) \in Seq(Fill) /\ Len(Tail(queue[t])) = Len(queue[t]) - 1
      /\ DOMAIN Tail(queue[t]) = 1 .. (Len(queue[t]) - 1)
      /\ \A k \in 1 .. (Len(queue[t]) - 1) : Tail(queue[t])[k] = queue[t][k + 1]
  BY <1>1, <1>3
<1> QED  BY <1>2, <1>3, <1>4, <1>5, <1>6

(* A task that makes a step, taking a fill off its queue or not.           *)
LEMMA TaskStep ==
  ASSUME Types, NEW t \in Tasks, NEW w \in Work,
         task' = [task EXCEPT ![t] = w],
         w.pc # "idle" => w.fill \in Fill /\ Known(w.fill),
         w.pc \in {"insert", "select", "update"} => w.ep \in Episode,
         w.pc = "update" => w.row \in DOMAIN signals,
         UNCHANGED trades, DOMAIN signals \subseteq DOMAIN signals',
         queue' = queue \/ (queue[t] # <<>> /\ queue' = [queue EXCEPT ![t] = Tail(queue[t])])
  PROVE  task' \in [Tasks -> Work] /\ queue' \in [Tasks -> Seq(Fill)] /\ TaskTypes'
<1>1. task' \in [Tasks -> Work] /\ \A u \in Tasks : task'[u] = IF u = t THEN w ELSE task[u]
  BY DEF Types
<1>2. /\ queue' \in [Tasks -> Seq(Fill)]
      /\ \A u \in Tasks : \A k \in DOMAIN queue'[u] : Known(queue'[u][k])
  <2>1. CASE queue' = queue
    BY <2>1 DEF Types, TaskTypes
  <2>2. CASE queue[t] # <<>> /\ queue' = [queue EXCEPT ![t] = Tail(queue[t])]
    <3>1. /\ Tail(queue[t]) \in Seq(Fill) /\ DOMAIN queue[t] = 1 .. Len(queue[t])
          /\ DOMAIN Tail(queue[t]) = 1 .. (Len(queue[t]) - 1) /\ Len(queue[t]) \in Nat \ {0}
          /\ \A k \in 1 .. (Len(queue[t]) - 1) : Tail(queue[t])[k] = queue[t][k + 1]
      BY <2>2, TailKnown
    <3>2. queue' \in [Tasks -> Seq(Fill)]
      BY <2>2, <3>1 DEF Types
    <3>3. ASSUME NEW u \in Tasks, NEW k \in DOMAIN queue'[u] PROVE Known(queue'[u][k])
      <4>1. CASE u = t
        <5>1. queue'[u] = Tail(queue[t]) /\ k \in 1 .. (Len(queue[t]) - 1)
          BY <2>2, <3>1, <4>1 DEF Types
        <5>2. queue'[u][k] = queue[t][k + 1] /\ k + 1 \in DOMAIN queue[t]
          BY <3>1, <5>1
        <5> QED  BY <5>2 DEF Types, TaskTypes
      <4>2. CASE u # t
        BY <2>2, <4>2 DEF Types, TaskTypes
      <4> QED  BY <4>1, <4>2
    <3> QED  BY <3>2, <3>3
  <2> QED  BY <2>1, <2>2
<1>3. ASSUME NEW u \in Tasks
      PROVE  /\ task'[u].pc # "idle" => task'[u].fill \in Fill /\ Known(task'[u].fill)
             /\ task'[u].pc \in {"insert", "select", "update"} => task'[u].ep \in Episode
             /\ task'[u].pc = "update" => task'[u].row \in DOMAIN signals'
  <2>1. CASE u = t
    BY <1>1, <2>1
  <2>2. CASE u # t
    <3>1. task'[u] = task[u]
      BY <1>1, <2>2
    <3> QED  BY <3>1 DEF Types, TaskTypes
  <2> QED  BY <2>1, <2>2
<1>4. TaskTypes'
  BY <1>2, <1>3 DEF TaskTypes, Known
<1> QED  BY <1>1, <1>2, <1>4

LEMMA FreshTyped ==
  ASSUME NEW fill \in Fill, NEW n \in Int, NEW summed \in BOOLEAN
  PROVE  /\ Fresh(fill, n, summed) \in Episode
         /\ Fresh(fill, n, summed).dir = IF n > 0 THEN "long" ELSE "short"
         /\ Fresh(fill, n, summed).size = Abs(n) /\ Fresh(fill, n, summed).exited = 0
         /\ Fresh(fill, n, summed).first = fill.at /\ Fresh(fill, n, summed).entries = 1
<1>1. Fresh(fill, n, summed) =
        [dir |-> IF n > 0 THEN "long" ELSE "short", size |-> Abs(n),
         first |-> fill.at, entries |-> 1, exited |-> 0, summed |-> summed]
  BY DEF Fresh, NewEpisode
<1>2. Abs(n) \in Nat
  BY DEF Abs
<1> QED  BY <1>1, <1>2 DEF Episode, Direction, Fill

(* What a fill that increases or reduces the position leaves of the episode. *)
LEMMA ChangedTyped ==
  ASSUME NEW ep \in Episode, NEW size \in Nat, NEW taken \in Int
  PROVE  /\ Increased(ep, size) \in Episode /\ Reduced(ep, taken) \in Episode
         /\ Increased(ep, size).dir = ep.dir /\ Increased(ep, size).first = ep.first
         /\ Increased(ep, size).size = size /\ Increased(ep, size).exited = ep.exited
         /\ Reduced(ep, taken).dir = ep.dir /\ Reduced(ep, taken).first = ep.first
         /\ Reduced(ep, taken).size = ep.size
         /\ Reduced(ep, taken).exited = ep.exited + taken
<1>1. \A e \in Episode :
        /\ [e EXCEPT !.entries = @ + 1] \in Episode
        /\ [e EXCEPT !.entries = @ + 1].dir = e.dir /\ [e EXCEPT !.entries = @ + 1].first = e.first
        /\ [e EXCEPT !.entries = @ + 1].exited = e.exited
  BY DEF Episode
<1>2. \A e \in Episode :
        /\ [e EXCEPT !.size = size] \in Episode /\ [e EXCEPT !.size = size].size = size
        /\ [e EXCEPT !.size = size].dir = e.dir /\ [e EXCEPT !.size = size].first = e.first
        /\ [e EXCEPT !.size = size].exited = e.exited
  BY DEF Episode
<1>3. \A e \in Episode :
        /\ [e EXCEPT !.exited = @ + taken] \in Episode
        /\ [e EXCEPT !.exited = @ + taken].dir = e.dir
        /\ [e EXCEPT !.exited = @ + taken].first = e.first
        /\ [e EXCEPT !.exited = @ + taken].size = e.size
        /\ [e EXCEPT !.exited = @ + taken].exited = e.exited + taken
  BY DEF Episode
<1>4. \A e \in Episode :
        /\ [e EXCEPT !.summed = TRUE] \in Episode /\ [e EXCEPT !.summed = TRUE].dir = e.dir
        /\ [e EXCEPT !.summed = TRUE].first = e.first
        /\ [e EXCEPT !.summed = TRUE].size = e.size
        /\ [e EXCEPT !.summed = TRUE].exited = e.exited
  BY DEF Episode
<1>5. PICK e1 \in Episode : e1 = [ep EXCEPT !.entries = @ + 1]
  BY <1>1
<1>6. PICK e2 \in Episode : e2 = [e1 EXCEPT !.size = size]
  BY <1>2
<1>7. PICK e3 \in Episode : e3 = [ep EXCEPT !.exited = @ + taken]
  BY <1>3
<1>8. Increased(ep, size) = [e2 EXCEPT !.summed = TRUE]
  BY <1>5, <1>6 DEF Episode, Increased
<1>9. Reduced(ep, taken) = [e3 EXCEPT !.summed = TRUE]
  BY <1>7 DEF Episode, Reduced
<1>10. /\ e1.dir = ep.dir /\ e1.first = ep.first /\ e1.exited = ep.exited
       /\ e2.dir = e1.dir /\ e2.first = e1.first /\ e2.exited = e1.exited /\ e2.size = size
       /\ e3.dir = ep.dir /\ e3.first = ep.first /\ e3.size = ep.size
       /\ e3.exited = ep.exited + taken
  BY <1>1, <1>2, <1>3, <1>5, <1>6, <1>7
<1> QED  BY <1>4, <1>8, <1>9, <1>10

LEMMA NetTyped ==
  ASSUME NEW ep \in Episode \cup {None}
  PROVE  NetPosition(ep) \in Int /\ (NetPosition(ep) # 0 => ep \in Episode)
BY DEF NetPosition, Episode

(* What process_fill makes of an episode, by the net position it has.      *)
MadeOf(ep, fill, exact, prev, new, result) ==
  /\ prev = 0 => result = [open |-> Fresh(fill, new, ep # None), closed |-> None]
  /\ prev # 0 /\ ~exact => result = [open |-> ep, closed |-> None]
  /\ prev # 0 /\ exact /\ Crosses(prev, new) =>
       result = [open |-> IF new # 0 THEN Fresh(fill, new, TRUE) ELSE None, closed |-> ep]
  /\ prev # 0 /\ exact /\ ~Crosses(prev, new) /\ Abs(new) > Abs(prev) =>
       result = [open |-> Increased(ep, Abs(new)), closed |-> None]
  /\ prev # 0 /\ exact /\ ~Crosses(prev, new) /\ ~(Abs(new) > Abs(prev)) =>
       result = [open |-> Reduced(ep, fill.size), closed |-> None]

LEMMA ProcessCases ==
  ASSUME NEW ep, NEW fill, NEW exact \in BOOLEAN
  PROVE  MadeOf(ep, fill, exact, NetPosition(ep), NetPosition(ep) + fill.size,
                process_fill(ep, fill, exact))
<1>1. NetPosition(ep) = 0 => ~Crosses(NetPosition(ep), NetPosition(ep) + fill.size)
  BY DEF Crosses
<1> QED  BY <1>1 DEF MadeOf, process_fill, close_episode, Fresh, Increased, Reduced

LEMMA ProcessTyped ==
  ASSUME NEW ep \in Episode \cup {None}, NEW fill \in Fill, NEW exact \in BOOLEAN
  PROVE  /\ process_fill(ep, fill, exact).open \in Episode \cup {None}
         /\ process_fill(ep, fill, exact).closed \in Episode \cup {None}
         /\ process_fill(ep, fill, exact).closed = None
              => process_fill(ep, fill, exact).open \in Episode
<1>1. PICK prev \in Int : prev = NetPosition(ep) /\ (prev # 0 => ep \in Episode)
  BY NetTyped
<1>2. PICK size \in Int : size = fill.size
  BY DEF Fill
<1>3. PICK new \in Int : new = prev + fill.size
  BY <1>1, <1>2
<1>4. \A summed \in BOOLEAN : Fresh(fill, new, summed) \in Episode
  BY <1>3, FreshTyped
<1>5. Abs(new) \in Nat
  BY <1>3 DEF Abs
<1>6. ep \in Episode => Increased(ep, Abs(new)) \in Episode /\ Reduced(ep, fill.size) \in Episode
  BY <1>2, <1>5, ChangedTyped
<1>7. (ep # None) \in BOOLEAN /\ None \notin Episode
  BY NoneIsNone
<1>8. PICK result : result = process_fill(ep, fill, exact)
  OBVIOUS
<1>9. MadeOf(ep, fill, exact, prev, new, result)
  BY <1>1, <1>3, <1>8, ProcessCases
<1>10. PICK fresh \in Episode : fresh = Fresh(fill, new, ep # None)
  BY <1>4, <1>7
<1>11. CASE prev = 0
  BY <1>8, <1>9, <1>10, <1>11 DEF MadeOf
<1>12. CASE prev # 0 /\ ~exact
  BY <1>1, <1>8, <1>9, <1>12 DEF MadeOf
<1>13. CASE prev # 0 /\ exact /\ Crosses(prev, new)
  <2>1. Fresh(fill, new, TRUE) \in Episode
    BY <1>4
  <2>2. result = [open |-> IF new # 0 THEN Fresh(fill, new, TRUE) ELSE None, closed |-> ep]
    BY <1>9, <1>13, Zenon DEF MadeOf
  <2>3. result.closed = ep /\ ep # None
    BY <1>1, <1>7, <1>13, <2>2
  <2>4. result.open \in Episode \cup {None}
    BY <2>1, <2>2
  <2> QED  BY <1>8, <2>3, <2>4
<1>14. CASE prev # 0 /\ exact /\ ~Crosses(prev, new)
  <2>1. result \in {[open |-> Increased(ep, Abs(new)), closed |-> None],
                    [open |-> Reduced(ep, fill.size), closed |-> None]}
    <3>1. \/ result = [open |-> Increased(ep, Abs(new)), closed |-> None]
          \/ result = [open |-> Reduced(ep, fill.size), closed |-> None]
      BY <1>9, <1>14, Zenon DEF MadeOf
    <3> QED  BY <3>1
  <2>2. result.closed = None /\ result.open \in Episode
    BY <1>1, <1>6, <1>14, <2>1
  <2> QED  BY <1>8, <2>2
<1> QED  BY <1>11, <1>12, <1>13, <1>14

LEMMA TypesExchange == ASSUME Types, Exchange PROVE Types'
<1>1. PICK size \in Sizes \cup {-n : n \in Sizes}, sameTx \in BOOLEAN, stores \in BOOLEAN :
        onUserEvents(size, sameTx, stores)
  BY DEF Exchange
<1> DEFINE i == Len(trades) + 1
           tx == IF sameTx THEN Last(trades).tx ELSE i
           trade == [tx |-> tx, size |-> size, start |-> Position]
<1>2. size \in Int \ {0}
  BY EpisodesAssumption
<1>3. Len(trades) \in Nat /\ DOMAIN trades = 1 .. Len(trades)
  BY DEF Types
<1>4. trades # <<>> => Last(trades) \in Trade
  BY <1>3 DEF Types, Last
<1>5. trade \in Trade
  <2>1. Position \in Int
    BY <1>4 DEF Position, Trade
  <2>2. tx \in Nat
    BY <1>1, <1>3, <1>4 DEF onUserEvents, Trade
  <2> QED  BY <1>2, <2>1, <2>2 DEF Trade
<1>6. trades' = Append(trades, trade) /\ outbox' = Append(outbox, i)
  BY <1>1 DEF onUserEvents
<1>7. trades' \in Seq(Trade) /\ DOMAIN trades' = 1 .. i /\ DOMAIN trades \subseteq DOMAIN trades'
  BY <1>3, <1>5, <1>6 DEF Types
<1>8. stored' \subseteq DOMAIN trades'
  <2>1. stored' \subseteq stored \cup {i}
    BY <1>1 DEF onUserEvents, insertTradeIfNew
  <2> QED  BY <1>3, <1>7, <2>1 DEF Types
<1>9. outbox' \in Seq(Nat) /\ ToSet(outbox') \subseteq DOMAIN trades'
  <2>1. outbox \in Seq(Nat) /\ i \in Nat /\ Len(outbox) \in Nat
    BY <1>3 DEF Types
  <2>2. /\ outbox' \in Seq(Nat) /\ DOMAIN outbox' = 1 .. (Len(outbox) + 1)
        /\ DOMAIN outbox = 1 .. Len(outbox)
        /\ \A k \in 1 .. (Len(outbox) + 1) :
             outbox'[k] = IF k = Len(outbox) + 1 THEN i ELSE outbox[k]
    BY <1>6, <2>1
  <2>3. ToSet(outbox') \subseteq ToSet(outbox) \cup {i}
    BY <2>1, <2>2 DEF ToSet
  <2> QED  BY <1>3, <1>7, <2>2, <2>3 DEF Types
<1>10. /\ UNCHANGED <<mode, queue, task, open, booked, signals, opened, credited, restarts>>
       /\ failures' \in Nat
  BY <1>1 DEF onUserEvents, tracker, tables, Types
<1>11. \A f : Known(f) => Known(f)'
  BY <1>7 DEF Known
<1>12. (\A k \in DOMAIN booked : Known(booked[k].fill))'
       /\ (mode = "down" => \A t \in Tasks : ~Working(t))' /\ TaskTypes'
  BY <1>7, <1>10 DEF Types, TaskTypes, Working, Known
<1> HIDE DEF trade
<1> QED  BY <1>7, <1>8, <1>9, <1>10, <1>12 DEF Types

LEMMA StageTyped ==
  ASSUME NEW w \in Work, NEW p \in Stage
  PROVE  /\ [w EXCEPT !.pc = p] \in Work /\ [w EXCEPT !.pc = p].pc = p
         /\ [w EXCEPT !.pc = p].fill = w.fill /\ [w EXCEPT !.pc = p].ep = w.ep
BY DEF Work

LEMMA FillTyped ==
  ASSUME NEW w \in Work, NEW p \in Stage, NEW f \in Fill \cup {None}
  PROVE  /\ WithFill(w, p, f) \in Work
         /\ WithFill(w, p, f).pc = p
         /\ WithFill(w, p, f).fill = f
<1>1. [w EXCEPT !.pc = p] \in Work
  BY DEF Work
<1>2. \A v \in Work : [v EXCEPT !.fill = f] \in Work
  BY DEF Work
<1>3. WithFill(w, p, f) = [[w EXCEPT !.pc = p] EXCEPT !.fill = f]
  BY DEF Work, WithFill
<1>4. /\ WithFill(w, p, f).pc = p
      /\ WithFill(w, p, f).fill = f
  BY DEF Work, WithFill
<1> QED  BY <1>1, <1>2, <1>3, <1>4

LEMMA EpisodeTyped ==
  ASSUME NEW w \in Work, NEW p \in Stage, NEW e \in Episode \cup {None}
  PROVE  /\ WithEpisode(w, p, e) \in Work
         /\ WithEpisode(w, p, e).pc = p
         /\ WithEpisode(w, p, e).ep = e
         /\ WithEpisode(w, p, e).fill = w.fill
<1>1. [w EXCEPT !.pc = p] \in Work
  BY DEF Work
<1>2. \A v \in Work : [v EXCEPT !.ep = e] \in Work
  BY DEF Work
<1>3. WithEpisode(w, p, e) = [[w EXCEPT !.pc = p] EXCEPT !.ep = e]
  BY DEF Work, WithEpisode
<1>4. /\ WithEpisode(w, p, e).pc = p
      /\ WithEpisode(w, p, e).ep = e
      /\ WithEpisode(w, p, e).fill = w.fill
  BY DEF Work, WithEpisode
<1> QED  BY <1>1, <1>2, <1>3, <1>4

LEMMA RowTyped ==
  ASSUME NEW w \in Work, NEW p \in Stage, NEW r \in Nat
  PROVE  /\ WithRow(w, p, r) \in Work
         /\ WithRow(w, p, r).pc = p
         /\ WithRow(w, p, r).row = r
         /\ WithRow(w, p, r).fill = w.fill
         /\ WithRow(w, p, r).ep = w.ep
<1>1. [w EXCEPT !.pc = p] \in Work
  BY DEF Work
<1>2. \A v \in Work : [v EXCEPT !.row = r] \in Work
  BY DEF Work
<1>3. WithRow(w, p, r) = [[w EXCEPT !.pc = p] EXCEPT !.row = r]
  BY DEF Work, WithRow
<1>4. /\ WithRow(w, p, r).pc = p
      /\ WithRow(w, p, r).row = r
      /\ WithRow(w, p, r).fill = w.fill
      /\ WithRow(w, p, r).ep = w.ep
  BY DEF Work, WithRow
<1> QED  BY <1>1, <1>2, <1>3, <1>4

LEMMA RowClosed ==
  ASSUME NEW row \in Row, NEW at \in Nat
  PROVE  /\ Closing(row, at) \in Row /\ Closing(row, at).status = "closed"
         /\ Closing(row, at).exit = at /\ Closing(row, at).dir = row.dir
         /\ Closing(row, at).first = row.first
<1>1. [row EXCEPT !.status = "closed"] \in Row
  BY DEF Row
<1>2. \A r \in Row : [r EXCEPT !.exit = at] \in Row
  BY DEF Row
<1>3. Closing(row, at) = [[row EXCEPT !.status = "closed"] EXCEPT !.exit = at]
  BY DEF Row, Closing
<1>4. /\ Closing(row, at).status = "closed"
      /\ Closing(row, at).exit = at /\ Closing(row, at).dir = row.dir
      /\ Closing(row, at).first = row.first
  BY DEF Row, Closing
<1> QED  BY <1>1, <1>2, <1>3, <1>4

(* A set of natural numbers has a least member.                            *)
LEMMA LeastMember ==
  ASSUME NEW S \in SUBSET Nat, S # {}
  PROVE  \E x \in S : \A y \in S : x <= y
<1> DEFINE R == {ss \in Nat \X Nat : ss[1] < ss[2]}
<1>1. IsWellFoundedOn(R, Nat)
  BY NatLessThanWellFounded DEF OpToRel
<1> HIDE DEF R
<1>2. PICK x \in S : \A y \in S : ~(<<y, x>> \in R)
  BY <1>1, WFMin
<1>3. ASSUME NEW y \in S PROVE x <= y
  <2>1. <<y, x>> \in R <=> y < x
    BY DEF R
  <2> QED  BY <1>2, <2>1
<1> QED  BY <1>3

(* Of finitely many rows one is the newest.                                *)
LEMMA NewestRow ==
  ASSUME Types, NEW R \in SUBSET DOMAIN signals, R # {}
  PROVE  \E k \in R : \A m \in R : signals[m].first <= signals[k].first
<1> DEFINE B(k) == {m \in R : signals[k].first < signals[m].first}
           newer(k) == Cardinality(B(k))
<1>1. IsFiniteSet(R)
  <2>1. DOMAIN signals = 1 .. Len(signals) /\ Len(signals) \in Nat
    BY DEF Types
  <2>2. IsFiniteSet(1 .. Len(signals))
    BY <2>1, FS_Interval
  <2> QED  BY <2>1, <2>2, FS_Subset
<1>2. \A k \in R : signals[k].first \in Nat
  <2>1. \A k \in R : signals[k] \in Row
    BY DEF Types
  <2> QED  BY <2>1 DEF Row
<1>3. \A k \in R : IsFiniteSet(B(k)) /\ newer(k) \in Nat
  BY <1>1, FS_Subset, FS_CardinalityType
<1>4. PICK k \in R : \A m \in R : newer(k) <= newer(m)
  <2>1. {newer(k) : k \in R} \in SUBSET Nat /\ {newer(k) : k \in R} # {}
    BY <1>3
  <2>2. PICK x \in {newer(k) : k \in R} : \A y \in {newer(k) : k \in R} : x <= y
    BY <2>1, LeastMember
  <2> HIDE DEF newer
  <2> QED  BY <2>2
<1>5. ASSUME NEW m \in R, ~(signals[m].first <= signals[k].first) PROVE FALSE
  <2>1. B(m) \in SUBSET B(k) /\ m \in B(k) /\ m \notin B(m)
    BY <1>2, <1>5
  <2>2. newer(m) <= newer(k) /\ newer(m) # newer(k)
    BY <1>3, <2>1, FS_Subset
  <2>3. newer(k) <= newer(m) /\ newer(m) \in Nat /\ newer(k) \in Nat
    BY <1>3, <1>4
  <2> HIDE DEF newer
  <2> QED  BY <2>2, <2>3
<1> QED  BY <1>5

(* What a step of one task leaves alone.                                   *)
LEMMA TypesKeptByTask ==
  ASSUME Types, NEW t \in Tasks, Working(t),
         UNCHANGED <<stream, mode>>,
         open' \in Episode \cup {None}, signals' \in Seq(Row),
         {opened', credited', restarts', failures'} \subseteq Nat,
         booked' \in Seq(Booking),
         \A k \in DOMAIN booked' : Known(booked'[k].fill),
         task' \in [Tasks -> Work], queue' \in [Tasks -> Seq(Fill)], TaskTypes'
  PROVE  Types'
<1>1. mode # "down"
  BY DEF Types
<1>2. UNCHANGED <<trades, stored, outbox, mode>>
  BY DEF stream
<1>3. (\A k \in DOMAIN booked : Known(booked[k].fill))'
  BY <1>2 DEF Known
<1>4. {opened, credited, restarts, failures}' \subseteq Nat
  OBVIOUS
<1> QED  BY <1>1, <1>2, <1>3, <1>4 DEF Types

LEMMA TypesMark == ASSUME Types, NEW t \in Tasks, Mark(t) PROVE Types'
<1> DEFINE w == WithFill(task[t], "marked", Head(queue[t]))
<1>1. /\ queue[t] # <<>> /\ task' = [task EXCEPT ![t] = w]
      /\ queue' = [queue EXCEPT ![t] = Tail(queue[t])]
      /\ UNCHANGED <<stream, mode, tracker, tables, raced, faults>>
  BY DEF Mark, WithFill
<1>2. Head(queue[t]) \in Fill /\ Known(Head(queue[t]))
  BY <1>1, TailKnown
<1>3. w \in Work /\ w.pc = "marked" /\ w.fill = Head(queue[t])
  <2>1. task[t] \in Work /\ "marked" \in Stage
    BY DEF Types, Stage
  <2> QED  BY <1>2, <2>1, FillTyped
<1> HIDE DEF w
<1>4. task' \in [Tasks -> Work] /\ queue' \in [Tasks -> Seq(Fill)] /\ TaskTypes'
  BY <1>1, <1>2, <1>3, TaskStep DEF stream, tables
<1>5. Working(t)
  BY <1>1 DEF Working
<1> QED  BY <1>1, <1>4, <1>5, TypesKeptByTask DEF tracker, tables, faults, stream, Types, Known

(* Where the tracker leaves a task.                                        *)
LEMMA ProcessedTask ==
  ASSUME Types, NEW t \in Tasks, NEW exact \in BOOLEAN, Process(t, exact)
  PROVE  \E w \in Work :
           /\ task' = [task EXCEPT ![t] = w] /\ w.pc \in {"select", "insert", "idle", "rowDone"}
           /\ w.pc # "idle" => w.fill \in Fill /\ Known(w.fill)
           /\ w.pc \in {"insert", "select"} => w.ep \in Episode
<1> DEFINE result == process_fill(open, task[t].fill, exact)
           w == CASE result.closed # None ->
                        WithEpisode(task[t], "select", result.closed)
                  [] result.closed = None /\ result.open.entries = 1 ->
                        WithEpisode(task[t], "insert", result.open)
                  [] OTHER -> Returned(t)
<1>1. /\ task[t].pc = "marked" /\ open' = result.open
      /\ booked' = Append(booked, [task |-> t, fill |-> task[t].fill, exact |-> exact])
      /\ task' = [task EXCEPT ![t] = w]
      /\ UNCHANGED <<stream, mode, queue, marked, tables, raced, faults>>
  BY DEF Process, WithEpisode
<1>2. task[t].fill \in Fill /\ Known(task[t].fill) /\ task[t] \in Work
  BY <1>1 DEF Types, TaskTypes
<1>3. /\ result.open \in Episode \cup {None} /\ result.closed \in Episode \cup {None}
      /\ result.closed = None => result.open \in Episode
  BY <1>2, ProcessTyped DEF Types
<1>4. /\ Returned(t) \in Work /\ Returned(t).pc \in {"idle", "rowDone"}
      /\ Returned(t).pc # "idle" => Returned(t).fill \in Fill /\ Known(Returned(t).fill)
  BY <1>1, ReturnedTyped
<1> HIDE DEF result
<1>5. /\ w \in Work /\ (w.pc # "idle" => w.fill \in Fill /\ Known(w.fill))
      /\ w.pc \in {"insert", "select"} => w.ep \in Episode
      /\ w.pc \in {"select", "insert", "idle", "rowDone"}
  <2>1. "select" \in Stage /\ "insert" \in Stage
    BY DEF Stage
  <2>2. CASE result.closed # None
    <3>1. w = WithEpisode(task[t], "select", result.closed)
      BY <2>2
    <3>2. w \in Work /\ w.pc = "select" /\ w.ep = result.closed /\ w.fill = task[t].fill
      BY <1>2, <1>3, <2>1, <3>1, EpisodeTyped
    <3> QED  BY <1>2, <1>3, <2>2, <3>2
  <2>3. CASE result.closed = None /\ result.open.entries = 1
    <3>1. w = WithEpisode(task[t], "insert", result.open)
      BY <2>3
    <3>2. w \in Work /\ w.pc = "insert" /\ w.ep = result.open /\ w.fill = task[t].fill
      BY <1>2, <1>3, <2>1, <3>1, EpisodeTyped
    <3> QED  BY <1>2, <1>3, <2>3, <3>2
  <2>4. CASE result.closed = None /\ result.open.entries # 1
    <3>1. w = Returned(t)
      BY <2>4
    <3> QED  BY <1>4, <3>1
  <2> QED  BY <2>2, <2>3, <2>4
<1> HIDE DEF w
<1> QED  BY <1>1, <1>5

LEMMA TypesProcess ==
  ASSUME Types, NEW t \in Tasks, NEW exact \in BOOLEAN, Process(t, exact)
  PROVE  Types'
<1>1. /\ task[t].pc = "marked" /\ open' = process_fill(open, task[t].fill, exact).open
      /\ booked' = Append(booked, [task |-> t, fill |-> task[t].fill, exact |-> exact])
      /\ UNCHANGED <<stream, mode, queue, marked, tables, raced, faults>>
  BY DEF Process
<1>2. task[t].fill \in Fill /\ Known(task[t].fill)
  BY <1>1 DEF Types, TaskTypes
<1>3. open' \in Episode \cup {None}
  BY <1>1, <1>2, ProcessTyped DEF Types
<1>4. PICK w \in Work :
        /\ task' = [task EXCEPT ![t] = w] /\ w.pc \in {"select", "insert", "idle", "rowDone"}
        /\ w.pc # "idle" => w.fill \in Fill /\ Known(w.fill)
        /\ w.pc \in {"insert", "select"} => w.ep \in Episode
  BY ProcessedTask
<1>6. task' \in [Tasks -> Work] /\ queue' \in [Tasks -> Seq(Fill)] /\ TaskTypes'
  BY <1>1, <1>4, TaskStep DEF stream, tables
<1>7. Working(t)
  BY <1>1 DEF Working
<1>8. /\ booked' \in Seq(Booking)
      /\ \A k \in DOMAIN booked' : Known(booked'[k].fill)
  <2> DEFINE b == [task |-> t, fill |-> task[t].fill, exact |-> exact]
  <2>1. /\ b \in Booking /\ b.fill = task[t].fill
        /\ booked \in Seq(Booking)
    BY <1>2 DEF Types, Booking
  <2> HIDE DEF b
  <2>2. /\ Append(booked, b) \in Seq(Booking)
        /\ DOMAIN Append(booked, b) = 1 .. (Len(booked) + 1) /\ Len(booked) \in Nat
        /\ DOMAIN booked = 1 .. Len(booked)
        /\ \A k \in 1 .. (Len(booked) + 1) :
             Append(booked, b)[k] = IF k = Len(booked) + 1 THEN b ELSE booked[k]
    BY <2>1
  <2>3. booked' = Append(booked, b)
    BY <1>1 DEF b
  <2>4. ASSUME NEW k \in DOMAIN booked' PROVE Known(booked'[k].fill)
    <3>1. CASE k = Len(booked) + 1
      BY <1>2, <2>1, <2>2, <2>3, <3>1
    <3>2. CASE k # Len(booked) + 1
      <4>1. k \in DOMAIN booked /\ booked'[k] = booked[k]
        BY <2>2, <2>3, <3>2
      <4> QED  BY <4>1 DEF Types
    <3> QED  BY <3>1, <3>2
  <2> QED  BY <2>2, <2>3, <2>4
<1> QED  BY <1>1, <1>3, <1>6, <1>7, <1>8, TypesKeptByTask DEF tables, faults, Types

LEMMA TypesInsert == ASSUME Types, NEW t \in Tasks, InsertSignal(t) PROVE Types'
<1> DEFINE w == [task[t] EXCEPT !.pc = "count"]
           ep == task[t].ep
           r == [dir |-> ep.dir, first |-> ep.first, status |-> "open", exit |-> 0]
<1>1. /\ task[t].pc = "insert" /\ signals' \in {signals, Append(signals, r)}
      /\ task' = [task EXCEPT ![t] = w]
      /\ UNCHANGED <<stream, mode, queue, tracker, marked, opened, credited, raced, faults>>
  BY DEF InsertSignal
<1>2. task[t].fill \in Fill /\ Known(task[t].fill) /\ ep \in Episode /\ task[t] \in Work
  BY <1>1 DEF Types, TaskTypes
<1>3. w \in Work /\ w.pc = "count" /\ w.fill = task[t].fill
  <2>1. "count" \in Stage
    BY DEF Stage
  <2> QED  BY <1>2, <2>1, StageTyped
<1>4. r \in Row
  BY <1>2 DEF Row, Episode
<1> HIDE DEF w, r
<1>5. signals' \in Seq(Row) /\ DOMAIN signals \subseteq DOMAIN signals'
  <2>1. CASE signals' = signals
    BY <2>1 DEF Types
  <2>2. CASE signals' = Append(signals, r)
    <3>1. signals \in Seq(Row)
      BY DEF Types
    <3> QED  BY <1>4, <2>2, <3>1
  <2> QED  BY <1>1, <2>1, <2>2
<1>6. task' \in [Tasks -> Work] /\ queue' \in [Tasks -> Seq(Fill)] /\ TaskTypes'
  BY <1>1, <1>2, <1>3, <1>5, TaskStep DEF stream
<1>7. Working(t)
  BY <1>1 DEF Working
<1> QED  BY <1>1, <1>5, <1>6, <1>7, TypesKeptByTask DEF tracker, faults, Types

LEMMA TypesCount == ASSUME Types, NEW t \in Tasks, CountOpened(t) PROVE Types'
<1>1. /\ task[t].pc = "count" /\ opened' = opened + 1
      /\ task' = [task EXCEPT ![t] = Returned(t)]
      /\ UNCHANGED <<stream, mode, queue, tracker, marked, signals, credited, raced, faults>>
  BY DEF CountOpened
<1>2. /\ Returned(t) \in Work /\ Returned(t).pc \in {"idle", "rowDone"}
      /\ Returned(t).pc # "idle" => Returned(t).fill \in Fill /\ Known(Returned(t).fill)
  BY <1>1, ReturnedTyped
<1>3. task' \in [Tasks -> Work] /\ queue' \in [Tasks -> Seq(Fill)] /\ TaskTypes'
  BY <1>1, <1>2, TaskStep DEF stream
<1>4. Working(t)
  BY <1>1 DEF Working
<1>5. {opened', credited', restarts', failures'} \subseteq Nat
  BY <1>1 DEF faults, Types
<1> QED  BY <1>1, <1>3, <1>4, <1>5, TypesKeptByTask DEF tracker, Types

LEMMA TypesSelect == ASSUME Types, NEW t \in Tasks, SelectSignal(t) PROVE Types'
<1> DEFINE rows == {k \in DOMAIN signals : signals[k].status = "open"
                                           /\ signals[k].dir = task[t].ep.dir}
           newest == CHOOSE k \in rows : \A m \in rows : signals[m].first <= signals[k].first
           w == IF rows = {} THEN Returned(t) ELSE WithRow(task[t], "update", newest)
<1>1. /\ task[t].pc = "select" /\ task' = [task EXCEPT ![t] = w]
      /\ UNCHANGED <<stream, mode, queue, tracker, marked, tables, raced, faults>>
  BY DEF SelectSignal, WithRow
<1>2. /\ Returned(t) \in Work /\ Returned(t).pc \in {"idle", "rowDone"}
      /\ Returned(t).pc # "idle" => Returned(t).fill \in Fill /\ Known(Returned(t).fill)
  BY <1>1, ReturnedTyped
<1>3. task[t].fill \in Fill /\ Known(task[t].fill) /\ task[t].ep \in Episode /\ task[t] \in Work
  BY <1>1 DEF Types, TaskTypes
<1>4. rows # {} => newest \in DOMAIN signals /\ newest \in Nat
  <2>1. DOMAIN signals = 1 .. Len(signals)
    BY DEF Types
  <2>2. rows # {} => \E k \in rows : \A m \in rows : signals[m].first <= signals[k].first
    BY NewestRow
  <2> HIDE DEF rows
  <2>3. rows # {} => newest \in rows
    BY <2>2
  <2> QED  BY <2>1, <2>3 DEF rows
<1> HIDE DEF newest
<1>5. /\ w \in Work /\ (w.pc # "idle" => w.fill \in Fill /\ Known(w.fill))
      /\ w.pc \in {"insert", "select", "update"} => w.ep \in Episode
      /\ w.pc = "update" => w.row \in DOMAIN signals
  <2>1. CASE rows = {}
    BY <1>2, <2>1
  <2>2. CASE rows # {}
    <3>1. "update" \in Stage
      BY DEF Stage
    <3>2. w = WithRow(task[t], "update", newest)
      BY <2>2
    <3>3. w \in Work /\ w.row = newest /\ w.fill = task[t].fill /\ w.ep = task[t].ep
      BY <1>3, <1>4, <2>2, <3>1, <3>2, RowTyped
    <3> QED  BY <1>3, <1>4, <2>2, <3>3
  <2> QED  BY <2>1, <2>2
<1> HIDE DEF w
<1>6. task' \in [Tasks -> Work] /\ queue' \in [Tasks -> Seq(Fill)] /\ TaskTypes'
  BY <1>1, <1>5, TaskStep DEF stream, tables
<1>7. Working(t)
  BY <1>1 DEF Working
<1> QED  BY <1>1, <1>6, <1>7, TypesKeptByTask DEF tracker, tables, faults, Types

LEMMA TypesUpdate == ASSUME Types, NEW t \in Tasks, UpdateSignal(t) PROVE Types'
<1> DEFINE w == [task[t] EXCEPT !.pc = "credit"]
<1>1. /\ task[t].pc = "update" /\ task' = [task EXCEPT ![t] = w]
      /\ signals' = [signals EXCEPT ![task[t].row] =
                       [@ EXCEPT !.status = "closed", !.exit = task[t].fill.at]]
      /\ UNCHANGED <<stream, mode, queue, tracker, marked, opened, credited, raced, faults>>
  BY DEF UpdateSignal
<1>2. /\ task[t].fill \in Fill /\ Known(task[t].fill) /\ task[t] \in Work
      /\ task[t].row \in DOMAIN signals
  BY <1>1 DEF Types, TaskTypes
<1>3. w \in Work /\ w.pc = "credit" /\ w.fill = task[t].fill
  <2>1. "credit" \in Stage
    BY DEF Stage
  <2> QED  BY <1>2, <2>1, StageTyped
<1> HIDE DEF w
<1>4. signals' \in Seq(Row) /\ DOMAIN signals = DOMAIN signals'
  <2>1. signals[task[t].row] \in Row /\ task[t].fill.at \in Nat
    BY <1>2 DEF Types, Fill
  <2>2. [signals[task[t].row] EXCEPT !.status = "closed", !.exit = task[t].fill.at] \in Row
    BY <2>1, RowClosed DEF Closing
  <2> QED  BY <1>1, <1>2, <2>2 DEF Types
<1>5. task' \in [Tasks -> Work] /\ queue' \in [Tasks -> Seq(Fill)] /\ TaskTypes'
  BY <1>1, <1>2, <1>3, <1>4, TaskStep DEF stream
<1>6. Working(t)
  BY <1>1 DEF Working
<1> QED  BY <1>1, <1>4, <1>5, <1>6, TypesKeptByTask DEF tracker, faults, Types

LEMMA TypesCredit == ASSUME Types, NEW t \in Tasks, update_trader_performance(t) PROVE Types'
<1>1. /\ task[t].pc = "credit" /\ credited' = credited + 1
      /\ task' = [task EXCEPT ![t] = Returned(t)]
      /\ UNCHANGED <<stream, mode, queue, tracker, marked, signals, opened, raced, faults>>
  BY DEF update_trader_performance
<1>2. /\ Returned(t) \in Work /\ Returned(t).pc \in {"idle", "rowDone"}
      /\ Returned(t).pc # "idle" => Returned(t).fill \in Fill /\ Known(Returned(t).fill)
  BY <1>1, ReturnedTyped
<1>3. task' \in [Tasks -> Work] /\ queue' \in [Tasks -> Seq(Fill)] /\ TaskTypes'
  BY <1>1, <1>2, TaskStep DEF stream
<1>4. Working(t)
  BY <1>1 DEF Working
<1>5. {opened', credited', restarts', failures'} \subseteq Nat
  BY <1>1 DEF faults, Types
<1> QED  BY <1>1, <1>3, <1>4, <1>5, TypesKeptByTask DEF tracker, Types

LEMMA TypesMarkRow == ASSUME Types, NEW t \in Tasks, MarkRow(t) PROVE Types'
<1>1. /\ task[t].pc = "rowDone" /\ task' = [task EXCEPT ![t] = Idle]
      /\ UNCHANGED <<stream, mode, queue, tracker, tables, raced, restarts, failures>>
  BY DEF MarkRow
<1>2. task' \in [Tasks -> Work] /\ queue' \in [Tasks -> Seq(Fill)] /\ TaskTypes'
  BY <1>1, NoneIsNone, TaskStep DEF stream, tables
<1>3. Working(t)
  BY <1>1 DEF Working
<1> QED  BY <1>1, <1>2, <1>3, TypesKeptByTask DEF tracker, tables, faults, Types

(* A failing call: the fill is off the queue, or the task is where the     *)
(* call returned to.                                                       *)
LEMMA FailureIsAStep ==
  ASSUME Types, NEW t \in Tasks, DatabaseFails(t)
  PROVE  \E w \in Work :
           /\ task' = [task EXCEPT ![t] = w] /\ w.pc \in {"idle", "rowDone"}
           /\ w.pc # "idle" => w.fill \in Fill /\ Known(w.fill)
           /\ queue' = queue \/ (queue[t] # <<>> /\ queue' = [queue EXCEPT ![t] = Tail(queue[t])])
           /\ Working(t) /\ task[t].pc # "marked" /\ failures' = failures + 1
           /\ task[t].pc = "credit" => queue' = queue
<1>1. CASE /\ task[t].pc = "idle" /\ queue[t] # <<>>
           /\ queue' = [queue EXCEPT ![t] = Tail(@)]
           /\ task' = [task EXCEPT ![t] = [Idle EXCEPT
                         !.pc = IF t = "live" THEN "idle" ELSE "rowDone",
                         !.fill = IF t = "live" THEN None ELSE Head(queue[t])]]
  <2> DEFINE p == IF t = "live" THEN "idle" ELSE "rowDone"
             f == IF t = "live" THEN None ELSE Head(queue[t])
  <2>1. Head(queue[t]) \in Fill /\ Known(Head(queue[t]))
    BY <1>1, TailKnown
  <2>2. p \in Stage /\ f \in Fill \cup {None} /\ Idle \in Work
    BY <2>1, NoneIsNone DEF Stage
  <2> HIDE DEF p, f
  <2>3. WithFill(Idle, p, f) \in Work /\ WithFill(Idle, p, f).pc = p
        /\ WithFill(Idle, p, f).fill = f
    BY <2>2, FillTyped
  <2>4. task' = [task EXCEPT ![t] = WithFill(Idle, p, f)]
    BY <1>1 DEF WithFill, p, f
  <2>5. p \in {"idle", "rowDone"} /\ (p # "idle" => f \in Fill /\ Known(f))
    BY <2>1 DEF p, f
  <2>6. failures' = failures + 1 /\ Working(t)
    BY <1>1 DEF DatabaseFails, Working
  <2> QED  BY <1>1, <2>3, <2>4, <2>5, <2>6
<1>2. CASE /\ task[t].pc \in {"insert", "count", "select", "update", "credit"}
           /\ task' = [task EXCEPT ![t] = Returned(t)]
           /\ UNCHANGED queue
  BY <1>2, ReturnedTyped DEF DatabaseFails, Working
<1>3. CASE /\ task[t].pc = "rowDone" /\ task' = [task EXCEPT ![t] = Idle]
           /\ UNCHANGED queue
  BY <1>3, NoneIsNone DEF DatabaseFails, Working
<1> QED  BY <1>1, <1>2, <1>3 DEF DatabaseFails

LEMMA TypesFailure == ASSUME Types, NEW t \in Tasks, DatabaseFails(t) PROVE Types'
<1>1. PICK w \in Work :
           /\ task' = [task EXCEPT ![t] = w] /\ w.pc \in {"idle", "rowDone"}
           /\ w.pc # "idle" => w.fill \in Fill /\ Known(w.fill)
           /\ queue' = queue \/ (queue[t] # <<>> /\ queue' = [queue EXCEPT ![t] = Tail(queue[t])])
           /\ Working(t) /\ failures' = failures + 1
  BY FailureIsAStep
<1>2. UNCHANGED <<stream, mode, tracker, marked, tables, raced, restarts>>
  BY DEF DatabaseFails
<1>3. task' \in [Tasks -> Work] /\ queue' \in [Tasks -> Seq(Fill)] /\ TaskTypes'
  BY <1>1, <1>2, TaskStep DEF stream, tables
<1>4. {opened', credited', restarts', failures'} \subseteq Nat
  BY <1>1, <1>2 DEF tables, Types
<1> QED  BY <1>1, <1>2, <1>3, <1>4, TypesKeptByTask DEF tracker, tables, Types

(* The queue of a reconciliation that has read the history.                *)
LEMMA HistoryQueued ==
  ASSUME Types, NEW r \in Tasks, ReadHistory(r)
  PROVE  /\ queue' \in [Tasks -> Seq(Fill)]
         /\ \A u \in Tasks \ {r} : queue'[u] = queue[u]
         /\ DOMAIN queue'[r] = DOMAIN historicalFills
         /\ \A k \in DOMAIN queue'[r] : /\ queue'[r][k].at = historicalFills[k]
                                        /\ Known(queue'[r][k])
<1> DEFINE q == [k \in DOMAIN historicalFills |-> rowFill(historicalFills[k])]
           H == {i \in stored : Tx(i) \notin marked}
<1>1. historicalFills \in Seq(H)
  BY HistoryListed
<1>2. \A k \in DOMAIN historicalFills : historicalFills[k] \in DOMAIN trades
  <2>1. H \subseteq DOMAIN trades
    BY DEF Types
  <2> HIDE DEF H
  <2> QED  BY <1>1, <2>1
<1>3. \A k \in DOMAIN historicalFills :
        /\ rowFill(historicalFills[k]) \in Fill /\ Known(rowFill(historicalFills[k]))
        /\ rowFill(historicalFills[k]).at = historicalFills[k]
  BY <1>2, FillsTyped
<1>4. q \in Seq(Fill) /\ DOMAIN q = DOMAIN historicalFills
  <2>1. DOMAIN historicalFills = 1 .. Len(historicalFills) /\ Len(historicalFills) \in Nat
    BY <1>1
  <2>2. \A k \in 1 .. Len(historicalFills) : q[k] \in Fill
    BY <1>3, <2>1
  <2> QED  BY <2>1, <2>2
<1>5. queue' = [queue EXCEPT ![r] = q]
  BY DEF ReadHistory
<1>6. \A k \in DOMAIN q : q[k].at = historicalFills[k] /\ Known(q[k])
  BY <1>3
<1> HIDE DEF q
<1> QED  BY <1>4, <1>5, <1>6 DEF Types

LEMMA TypesRead ==
  ASSUME Types, NEW r \in Reconcilers, ReadHistory(r), mode' \in {"boot", "up"},
         UNCHANGED <<stream, task, tracker, tables>>,
         {restarts', failures'} \subseteq Nat
  PROVE  Types'
<1>1. r \in Tasks
  BY Constants
<1>2. /\ queue' \in [Tasks -> Seq(Fill)]
      /\ \A u \in Tasks \ {r} : queue'[u] = queue[u]
      /\ \A k \in DOMAIN queue'[r] : Known(queue'[r][k])
  BY <1>1, HistoryQueued
<1>3. UNCHANGED <<trades, stored, outbox, task, open, booked, signals, opened, credited>>
  BY DEF stream, tracker, tables
<1>4. \A u \in Tasks : \A k \in DOMAIN queue'[u] : Known(queue'[u][k])
  BY <1>2 DEF Types, TaskTypes
<1>5. TaskTypes'
  BY <1>3, <1>4 DEF Types, TaskTypes, Known
<1>6. (\A k \in DOMAIN booked : Known(booked[k].fill))'
  BY <1>3 DEF Known, Types
<1>7. mode' # "down"
  OBVIOUS
<1>8. {opened, credited, restarts, failures}' \subseteq Nat
  BY <1>3 DEF Types
<1> QED  BY <1>2, <1>3, <1>5, <1>6, <1>7, <1>8 DEF Types

(* What a message on c.fills.v1 does to the queues.                        *)
LEMMA DeliveredTyped ==
  ASSUME Types, NEW f \in Fill, Known(f), NEW sent \in BOOLEAN
  PROVE  /\ Delivered(f, sent) \in [Tasks -> Seq(Fill)]
         /\ \A u \in Tasks : \A k \in DOMAIN Delivered(f, sent)[u] :
              Known(Delivered(f, sent)[u][k])
         /\ mode # "up" => Delivered(f, sent) = queue
<1>1. PICK q : q = Delivered(f, sent)
  OBVIOUS
<1>2. q \in {queue, [queue EXCEPT !["live"] = Append(@, f)]} /\ (mode # "up" => q = queue)
  BY <1>1 DEF Delivered
<1>3. \A u \in Tasks : \A k \in DOMAIN queue[u] : Known(queue[u][k])
  BY DEF Types, TaskTypes
<1>4. CASE q = queue
  BY <1>1, <1>3, <1>4 DEF Types
<1>5. CASE q = [queue EXCEPT !["live"] = Append(@, f)]
  <2>1. queue["live"] \in Seq(Fill)
    BY Constants DEF Types
  <2>2. /\ Append(queue["live"], f) \in Seq(Fill)
        /\ \A k \in DOMAIN Append(queue["live"], f) :
             \/ Append(queue["live"], f)[k] = f
             \/ k \in DOMAIN queue["live"] /\ Append(queue["live"], f)[k] = queue["live"][k]
    BY <2>1
  <2>3. /\ q \in [Tasks -> Seq(Fill)]
        /\ \A u \in Tasks : q[u] = IF u = "live" THEN Append(queue["live"], f) ELSE queue[u]
    BY <1>5, <2>2, Constants DEF Types
  <2>4. \A u \in Tasks : \A k \in DOMAIN q[u] : Known(q[u][k])
    BY <1>3, <2>2, <2>3, Constants
  <2> QED  BY <1>1, <1>2, <2>3, <2>4
<1> QED  BY <1>2, <1>4, <1>5

(* A step that only moves fills about between hl-stream and the queues.    *)
LEMMA TypesMoved ==
  ASSUME Types, UNCHANGED <<trades, mode, task, open, booked, signals, opened, credited, restarts>>,
         stored' \subseteq DOMAIN trades, failures' \in Nat,
         outbox' \in Seq(Nat), ToSet(outbox') \subseteq DOMAIN trades,
         NEW f \in Fill, Known(f), NEW sent \in BOOLEAN, queue' \in {queue, Delivered(f, sent)}
  PROVE  Types'
<1>1. /\ queue' \in [Tasks -> Seq(Fill)] /\ (mode # "up" => queue' = queue)
      /\ \A u \in Tasks : \A k \in DOMAIN queue'[u] : Known(queue'[u][k])
  <2>1. CASE queue' = queue
    BY <2>1 DEF Types, TaskTypes
  <2>2. CASE queue' = Delivered(f, sent)
    BY <2>2, DeliveredTyped
  <2> QED  BY <2>1, <2>2
<1>2. TaskTypes'
  BY <1>1 DEF Types, TaskTypes, Known
<1>3. (mode = "down" => \A t \in Tasks : ~Working(t))'
  BY <1>1 DEF Types, Working
<1>4. (\A k \in DOMAIN booked : Known(booked[k].fill))'
  BY DEF Known, Types
<1>5. {opened, credited, restarts, failures}' \subseteq Nat
  BY DEF Types
<1> QED  BY <1>1, <1>2, <1>3, <1>4, <1>5 DEF Types

LEMMA TypesPublish == ASSUME Types, NEW sent \in BOOLEAN, Publish(sent) PROVE Types'
<1>1. /\ outbox # <<>> /\ outbox' = Tail(outbox)
      /\ UNCHANGED <<trades, stored, mode, task, open, booked, signals, opened, credited,
                     restarts>>
      /\ failures' \in Nat /\ queue' = Delivered(liveFill(Head(outbox)), sent)
  BY DEF Publish, tracker, tables, Types
<1>2. /\ outbox \in Seq(Nat) /\ outbox' \in Seq(Nat) /\ ToSet(outbox') \subseteq ToSet(outbox)
      /\ Head(outbox) \in ToSet(outbox)
  BY <1>1 DEF Types, ToSet
<1>3. liveFill(Head(outbox)) \in Fill /\ Known(liveFill(Head(outbox)))
  <2>1. Head(outbox) \in DOMAIN trades
    BY <1>2 DEF Types
  <2> QED  BY <2>1, FillsTyped
<1>4. stored' \subseteq DOMAIN trades /\ ToSet(outbox') \subseteq DOMAIN trades
  BY <1>1, <1>2 DEF Types
<1> QED  BY <1>1, <1>2, <1>3, <1>4, TypesMoved

(* A fill from a second source: it is known already.                       *)
LEMMA SecondStep ==
  ASSUME Types, SecondSource
  PROVE  \E i \in DOMAIN trades, sent \in BOOLEAN :
           /\ UNCHANGED <<trades, mode, task, open, booked, marked, signals, opened, credited,
                          raced, restarts>>
           /\ repeated' = repeated \cup {i} /\ stored' \subseteq stored \cup {i}
           /\ failures' \in {failures, failures + 1}
           /\ outbox' \in {outbox, Append(outbox, i)}
           /\ \E f \in Fill : f.at = i /\ Known(f) /\ queue' \in {queue, Delivered(f, sent)}
<1>1. PICK i \in DOMAIN trades, sent \in BOOLEAN : ArrivesAgain(i, sent) \/ Backfill(i, sent)
  BY DEF SecondSource
<1>2. liveFill(i) \in Fill /\ Known(liveFill(i)) /\ liveFill(i).at = i
  BY FillsTyped
<1>3. backfillFill(i) \in Fill /\ Known(backfillFill(i)) /\ backfillFill(i).at = i
  <2>1. trades[i] \in Trade /\ i \in Nat \ {0}
    BY FillsTyped DEF Types
  <2>2. trades[i].size \in Int
    BY <2>1 DEF Trade
  <2> QED  BY <2>1, <2>2 DEF backfillFill, Fill, Known, Abs
<1>4. CASE ArrivesAgain(i, sent)
  <2>1. /\ UNCHANGED <<trades, mode, queue, task, open, booked, marked, signals, opened, credited,
                       raced, restarts>>
        /\ repeated' = repeated \cup {i} /\ stored' \subseteq stored \cup {i}
        /\ failures' \in {failures, failures + 1} /\ outbox' = Append(outbox, i)
    BY <1>4 DEF ArrivesAgain, insertTradeIfNew, tracker, tables
  <2> QED  BY <1>2, <2>1
<1>5. CASE Backfill(i, sent)
  <2>1. /\ UNCHANGED <<trades, mode, outbox, task, open, booked, marked, signals, opened, credited,
                       raced, restarts>>
        /\ repeated' = repeated \cup {i} /\ stored' \subseteq stored \cup {i}
        /\ failures' \in {failures, failures + 1} /\ queue' = Delivered(backfillFill(i), sent)
    BY <1>5 DEF Backfill, tracker, tables
  <2> QED  BY <1>3, <2>1
<1> QED  BY <1>1, <1>4, <1>5

LEMMA TypesSecond == ASSUME Types, SecondSource PROVE Types'
<1>1. PICK i \in DOMAIN trades, sent \in BOOLEAN :
           /\ UNCHANGED <<trades, mode, task, open, booked, marked, signals, opened, credited,
                          raced, restarts>>
           /\ repeated' = repeated \cup {i} /\ stored' \subseteq stored \cup {i}
           /\ failures' \in {failures, failures + 1}
           /\ outbox' \in {outbox, Append(outbox, i)}
           /\ \E f \in Fill : f.at = i /\ Known(f) /\ queue' \in {queue, Delivered(f, sent)}
  BY SecondStep
<1>2. PICK f \in Fill : f.at = i /\ Known(f) /\ queue' \in {queue, Delivered(f, sent)}
  BY <1>1
<1>3. outbox \in Seq(Nat) /\ ToSet(outbox) \subseteq DOMAIN trades /\ i \in Nat
  BY FillsTyped DEF Types
<1>4. Append(outbox, i) \in Seq(Nat) /\ ToSet(Append(outbox, i)) \subseteq ToSet(outbox) \cup {i}
  <2>1. /\ Append(outbox, i) \in Seq(Nat)
        /\ \A k \in DOMAIN Append(outbox, i) :
             Append(outbox, i)[k] = i \/ (k \in DOMAIN outbox /\ Append(outbox, i)[k] = outbox[k])
    BY <1>3
  <2> QED  BY <2>1 DEF ToSet
<1>5. outbox' \in Seq(Nat) /\ ToSet(outbox') \subseteq DOMAIN trades
  BY <1>1, <1>3, <1>4
<1>6. stored' \subseteq DOMAIN trades /\ failures' \in Nat
  BY <1>1 DEF Types
<1> QED  BY <1>1, <1>2, <1>5, <1>6, TypesMoved

LEMMA TypesCrash == ASSUME Types, Crash PROVE Types'
<1>1. /\ mode' = "down" /\ restarts' = restarts + 1
      /\ queue' = [t \in Tasks |-> <<>>] /\ task' = [t \in Tasks |-> Idle] /\ open' = None
      /\ UNCHANGED <<trades, stored, outbox, signals, opened, credited, booked, failures>>
  BY DEF Crash, stream, tables
<1>2. task' \in [Tasks -> Work] /\ queue' \in [Tasks -> Seq(Fill)]
      /\ \A t \in Tasks : task'[t].pc = "idle" /\ queue'[t] = <<>>
  BY <1>1, NoneIsNone
<1>3. TaskTypes'
  BY <1>2 DEF TaskTypes
<1>4. (mode = "down" => \A t \in Tasks : ~Working(t))'
  BY <1>2 DEF Working
<1>5. (\A k \in DOMAIN booked : Known(booked[k].fill))'
  BY <1>1 DEF Known, Types
<1>6. {opened, credited, restarts, failures}' \subseteq Nat
  BY <1>1 DEF Types
<1> QED  BY <1>1, <1>2, <1>3, <1>4, <1>5, <1>6 DEF Types

(* What makes a step: an action of a task, of a reconciliation, of the     *)
(* stream or of the process.                                               *)
LEMMA StepCases ==
  ASSUME [Next]_vars
  PROVE  \/ UNCHANGED vars
         \/ Exchange
         \/ SecondSource
         \/ \E sent \in BOOLEAN : Publish(sent)
         \/ \E t \in Tasks : Mark(t)
         \/ \E t \in Tasks, exact \in BOOLEAN : Process(t, exact)
         \/ \E t \in Tasks : InsertSignal(t)
         \/ \E t \in Tasks : CountOpened(t)
         \/ \E t \in Tasks : SelectSignal(t)
         \/ \E t \in Tasks : UpdateSignal(t)
         \/ \E t \in Tasks : update_trader_performance(t)
         \/ \E t \in Tasks : MarkRow(t)
         \/ \E t \in Tasks : DatabaseFails(t)
         \/ \E r \in Reconcilers : Reconcile(r)
         \/ Start
         \/ Subscribe
         \/ Crash
BY Zenon DEF Next, Step

LEMMA TypesInit == Init => Types
<1> SUFFICES ASSUME Init PROVE Types
  OBVIOUS
<1>1. task \in [Tasks -> Work] /\ queue \in [Tasks -> Seq(Fill)]
      /\ \A t \in Tasks : task[t].pc = "idle" /\ queue[t] = <<>>
  BY NoneIsNone DEF Init
<1>2. TaskTypes /\ \A t \in Tasks : ~Working(t)
  BY <1>1 DEF TaskTypes, Working
<1>3. trades = <<>> /\ outbox = <<>> /\ booked = <<>> /\ signals = <<>> /\ ToSet(outbox) = {}
  BY DEF Init, ToSet
<1> QED  BY <1>1, <1>2, <1>3 DEF Init, Types

LEMMA TypesKept == ASSUME Types, [Next]_vars PROVE Types'
<1>1. CASE UNCHANGED vars
  BY <1>1 DEF vars, stream, tracker, tables, faults, Types, TaskTypes, Known, Working
<1>2. CASE \E r \in Reconcilers : Reconcile(r)
  <2>1. PICK r \in Reconcilers : Reconcile(r)
    BY <1>2
  <2>2. mode' = "up" /\ {restarts', failures'} \subseteq Nat
    BY <2>1 DEF Reconcile, faults, Types
  <2> QED  BY <2>1, <2>2, TypesRead DEF Reconcile
<1>3. CASE Start
  <2>1. /\ mode' = "boot" /\ UNCHANGED <<stream, task, tracker, marked, tables, restarts>>
        /\ failures' \in Nat
    BY <1>3 DEF Start, Types
  <2>2. CASE ReadHistory(Scheduled)
    <3>1. Scheduled \in Reconcilers /\ {restarts', failures'} \subseteq Nat
      BY <2>1 DEF Reconcilers, Types
    <3> QED  BY <2>1, <2>2, <3>1, TypesRead
  <2>3. CASE UNCHANGED <<queue, raced>>
    BY <2>1, <2>3 DEF stream, tracker, tables, Types, TaskTypes, Known
  <2> QED  BY <1>3, <2>2, <2>3 DEF Start
<1>4. CASE Subscribe
  <2>1. mode' = "up" /\ UNCHANGED <<stream, queue, task, tracker, tables, faults>>
    BY <1>4 DEF Subscribe
  <2> QED  BY <2>1 DEF stream, tracker, tables, faults, Types, TaskTypes, Known
<1> QED  BY <1>1, <1>2, <1>3, <1>4, StepCases, TypesExchange, TypesSecond, TypesPublish,
            TypesMark, TypesProcess, TypesInsert, TypesCount, TypesSelect, TypesUpdate, TypesCredit,
            TypesMarkRow, TypesFailure, TypesCrash

-----------------------------------------------------------------------------
(* Places                                                                  *)
NoMore(S, T) == (S = {} => T = {}) /\ (AtMostOne(S) => AtMostOne(T))

LEMMA SmallerIsNoMore ==
  ASSUME NEW S, NEW T, T \subseteq S
  PROVE  NoMore(S, T)
BY DEF NoMore, AtMostOne

LEMMA PlacesShrink ==
  ASSUME NEW i, Placed(i), Tx(i)' = Tx(i), marked \subseteq marked',
         NoMore(Outboxed(i), Outboxed(i)'), NoMore(Queued(i), Queued(i)'),
         NoMore(InHand(i), InHand(i)'), NoMore(Booked(i), Booked(i)')
  PROVE  Placed(i)'
<1>1. OnePlace(i) /\ (InHand(i) # {} \/ Booked(i) # {} => Tx(i) \in marked)
  BY DEF Placed
<1> DEFINE O == Outboxed(i)
           Q == Queued(i)
           H == InHand(i)
           B == Booked(i)
<1>3. /\ NoMore(O, O') /\ NoMore(Q, Q') /\ NoMore(H, H') /\ NoMore(B, B')
  OBVIOUS
<1>4. /\ AtMostOne(O) /\ AtMostOne(Q) /\ AtMostOne(H) /\ AtMostOne(B)
      /\ O = {} \/ (Q = {} /\ H = {} /\ B = {})
      /\ Q = {} \/ (H = {} /\ B = {})
      /\ H = {} \/ B = {}
  BY <1>1 DEF OnePlace
<1> HIDE DEF O, Q, H, B
<1>5. /\ AtMostOne(O') /\ AtMostOne(Q') /\ AtMostOne(H') /\ AtMostOne(B')
      /\ O' = {} \/ (Q' = {} /\ H' = {} /\ B' = {})
      /\ Q' = {} \/ (H' = {} /\ B' = {})
      /\ H' = {} \/ B' = {}
  BY <1>3, <1>4 DEF NoMore
<1>6. OnePlace(i)'
  BY <1>5 DEF OnePlace, O, Q, H, B, AtMostOne
<1>7. H' # {} \/ B' # {} => H # {} \/ B # {}
  BY <1>3 DEF NoMore
<1> QED  BY <1>1, <1>6, <1>7 DEF H, B, Placed

LEMMA SamePlaces ==
  /\ UNCHANGED outbox => \A i : Outboxed(i)' = Outboxed(i)
  /\ UNCHANGED queue => \A i : Queued(i)' = Queued(i)
  /\ UNCHANGED task => \A i : InHand(i)' = InHand(i)
  /\ UNCHANGED booked => \A i : Booked(i)' = Booked(i)
BY DEF Outboxed, Queued, InHand, Booked

LEMMA OutboxTail ==
  ASSUME Types, outbox # <<>>, outbox' = Tail(outbox), NEW i
  PROVE  /\ NoMore(Outboxed(i), Outboxed(i)')
         /\ i = Head(outbox) /\ AtMostOne(Outboxed(i)) => Outboxed(i)' = {}
         /\ i = Head(outbox) => Outboxed(i) # {}
<1>1. outbox \in Seq(Nat)
  BY DEF Types
<1>2. /\ DOMAIN outbox = 1 .. Len(outbox) /\ Len(outbox) \in Nat \ {0}
      /\ DOMAIN outbox' = 1 .. (Len(outbox) - 1) /\ Head(outbox) = outbox[1]
      /\ \A k \in 1 .. (Len(outbox) - 1) : outbox'[k] = outbox[k + 1]
  BY <1>1
<1>3. \A k \in Outboxed(i)' : k \in Nat \ {0} /\ k + 1 \in Outboxed(i)
  BY <1>2 DEF Outboxed
<1>4. i = Head(outbox) => 1 \in Outboxed(i)
  BY <1>2 DEF Outboxed
<1> QED  BY <1>3, <1>4 DEF NoMore, AtMostOne

LEMMA QueueTail ==
  ASSUME Types, NEW t \in Tasks, queue[t] # <<>>,
         queue' = [queue EXCEPT ![t] = Tail(queue[t])], NEW i
  PROVE  /\ NoMore(Queued(i), Queued(i)')
         /\ i = Head(queue[t]).at /\ AtMostOne(Queued(i)) => Queued(i)' = {}
         /\ i = Head(queue[t]).at => Queued(i) # {}
<1>1. /\ DOMAIN queue[t] = 1 .. Len(queue[t]) /\ Len(queue[t]) \in Nat \ {0}
      /\ DOMAIN Tail(queue[t]) = 1 .. (Len(queue[t]) - 1)
      /\ \A k \in 1 .. (Len(queue[t]) - 1) : Tail(queue[t])[k] = queue[t][k + 1]
  BY TailKnown
<1>2. Head(queue[t]) = queue[t][1]
  BY DEF Types
<1>3. \A u \in Tasks : queue'[u] = IF u = t THEN Tail(queue[t]) ELSE queue[u]
  BY DEF Types
<1>4. ASSUME NEW u \in Tasks, NEW k \in Nat \ {0}, <<u, k>> \in Queued(i)'
      PROVE  <<u, IF u = t THEN k + 1 ELSE k>> \in Queued(i)
  <2>1. k \in DOMAIN queue'[u] /\ queue'[u][k].at = i
    BY <1>4 DEF Queued
  <2>2. CASE u = t
    <3>1. k \in 1 .. (Len(queue[t]) - 1) /\ queue[t][k + 1].at = i
      BY <1>1, <1>3, <2>1, <2>2
    <3>2. k + 1 \in DOMAIN queue[t] /\ k + 1 \in Nat \ {0}
      BY <1>1, <3>1
    <3> QED  BY <2>2, <3>1, <3>2 DEF Queued
  <2>3. CASE u # t
    BY <1>3, <2>1, <2>3 DEF Queued
  <2> QED  BY <2>2, <2>3
<1>5. i = Head(queue[t]).at => <<t, 1>> \in Queued(i)
  BY <1>1, <1>2 DEF Queued
<1>6. \A p \in Queued(i)' : \E u \in Tasks, k \in Nat \ {0} : p = <<u, k>>
  BY DEF Queued
<1>7. Queued(i) = {} => Queued(i)' = {}
  BY <1>4, <1>6
<1>8. ASSUME AtMostOne(Queued(i)) PROVE AtMostOne(Queued(i)')
  <2> SUFFICES ASSUME NEW p \in Queued(i)', NEW q \in Queued(i)' PROVE p = q
    BY DEF AtMostOne
  <2>1. PICK u \in Tasks, k \in Nat \ {0} : p = <<u, k>>
    BY <1>6
  <2>2. PICK v \in Tasks, m \in Nat \ {0} : q = <<v, m>>
    BY <1>6
  <2>3. <<u, IF u = t THEN k + 1 ELSE k>> = <<v, IF v = t THEN m + 1 ELSE m>>
    BY <1>4, <1>8, <2>1, <2>2 DEF AtMostOne
  <2> QED  BY <2>1, <2>2, <2>3
<1>9. ASSUME i = Head(queue[t]).at, AtMostOne(Queued(i)), NEW p \in Queued(i)' PROVE FALSE
  <2>1. PICK u \in Tasks, k \in Nat \ {0} : p = <<u, k>>
    BY <1>6
  <2>2. <<u, IF u = t THEN k + 1 ELSE k>> = <<t, 1>>
    BY <1>4, <1>5, <1>9, <2>1 DEF AtMostOne
  <2> QED  BY <2>2
<1> QED  BY <1>5, <1>7, <1>8, <1>9 DEF NoMore

(* A task that is not given a fill.                                        *)
LEMMA HandsShrink ==
  ASSUME Types, NEW t \in Tasks, NEW w \in Work, w.pc # "marked",
         task' = [task EXCEPT ![t] = w], NEW i
  PROVE  /\ InHand(i)' = InHand(i) \ {t}
         /\ NoMore(InHand(i), InHand(i)')
<1>1. \A u \in Tasks : task'[u] = IF u = t THEN w ELSE task[u]
  BY DEF Types
<1>2. InHand(i)' = InHand(i) \ {t}
  BY <1>1 DEF InHand
<1> QED  BY <1>2, SmallerIsNoMore

LEMMA PlacesExchange == ASSUME Types, PlaceInv, Exchange PROVE PlaceInv'
<1>1. PICK size \in Sizes \cup {-n : n \in Sizes}, sameTx \in BOOLEAN, stores \in BOOLEAN :
        onUserEvents(size, sameTx, stores)
  BY DEF Exchange
<1> DEFINE new == Len(trades) + 1
<1>2. /\ outbox' = Append(outbox, new)
      /\ UNCHANGED <<repeated, queue, task, booked, marked, raced>>
      /\ \E trade : trades' = Append(trades, trade)
  BY <1>1 DEF onUserEvents, tracker
<1>3. /\ DOMAIN trades = 1 .. Len(trades) /\ Len(trades) \in Nat
      /\ DOMAIN trades' = 1 .. new
      /\ \A i \in DOMAIN trades : Tx(i)' = Tx(i)
  <2>1. PICK trade : trades' = Append(trades, trade)
    BY <1>2
  <2>2. trades \in Seq(Trade)
    BY DEF Types
  <2> QED  BY <2>1, <2>2 DEF Tx
<1>4. /\ DOMAIN outbox = 1 .. Len(outbox) /\ Len(outbox) \in Nat
      /\ DOMAIN outbox' = 1 .. (Len(outbox) + 1)
      /\ \A k \in 1 .. (Len(outbox) + 1) :
           outbox'[k] = IF k = Len(outbox) + 1 THEN new ELSE outbox[k]
      /\ \A k \in DOMAIN outbox : outbox[k] \in DOMAIN trades
  <2>1. outbox \in Seq(Nat) /\ ToSet(outbox) \subseteq DOMAIN trades
    BY DEF Types
  <2> QED  BY <1>2, <2>1 DEF ToSet
<1>5. ASSUME NEW i \in DOMAIN trades \ (raced \cup repeated) PROVE Placed(i)'
  <2>1. Outboxed(i)' = Outboxed(i)
    BY <1>3, <1>4 DEF Outboxed
  <2>2. Queued(i)' = Queued(i) /\ InHand(i)' = InHand(i) /\ Booked(i)' = Booked(i)
    BY <1>2, SamePlaces
  <2>3. Placed(i)
    BY DEF PlaceInv
  <2> QED  BY <1>2, <1>3, <2>1, <2>2, <2>3, PlacesShrink DEF NoMore
<1>6. ASSUME NEW i \in DOMAIN trades', i \notin DOMAIN trades PROVE Placed(i)'
  <2>1. i = new
    BY <1>3, <1>6
  <2>2. \A k \in DOMAIN outbox' : outbox'[k] = i <=> k = Len(outbox) + 1
    BY <1>4, <1>6, <2>1
  <2>3. AtMostOne(Outboxed(i)')
    BY <2>2 DEF Outboxed, AtMostOne
  <2>4. Queued(i)' = {} /\ InHand(i)' = {} /\ Booked(i)' = {}
    <3>1. Queued(i) = {}
      BY <1>6 DEF Types, TaskTypes, Known, Queued
    <3>2. InHand(i) = {}
      BY <1>6 DEF Types, TaskTypes, Known, InHand
    <3>3. Booked(i) = {}
      BY <1>6 DEF Types, Known, Booked
    <3> QED  BY <1>2, <3>1, <3>2, <3>3, SamePlaces
  <2> QED  BY <2>3, <2>4 DEF Placed, OnePlace, AtMostOne
<1>7. (DOMAIN trades)' = DOMAIN trades'
  OBVIOUS
<1> HIDE DEF new
<1> QED  BY <1>2, <1>5, <1>6, <1>7 DEF PlaceInv

(* A message puts its fill, and no other, in one more place.               *)
LEMMA DeliveredPlaces ==
  ASSUME Types, NEW f \in Fill, NEW sent \in BOOLEAN, queue' = Delivered(f, sent), NEW i
  PROVE  \E last : Queued(i)' \subseteq Queued(i) \cup (IF i = f.at THEN {last} ELSE {})
<1>1. CASE queue' = queue
  <2>1. Queued(i)' = Queued(i)
    BY <1>1, SamePlaces
  <2> QED  BY <2>1
<1>2. CASE queue' = [queue EXCEPT !["live"] = Append(@, f)]
  <2> DEFINE last == <<"live", Len(queue["live"]) + 1>>
  <2>1. /\ DOMAIN queue["live"] = 1 .. Len(queue["live"]) /\ Len(queue["live"]) \in Nat
        /\ DOMAIN Append(queue["live"], f) = 1 .. (Len(queue["live"]) + 1)
        /\ \A k \in 1 .. (Len(queue["live"]) + 1) :
             Append(queue["live"], f)[k] = IF k = Len(queue["live"]) + 1 THEN f
                                           ELSE queue["live"][k]
    <3>1. queue["live"] \in Seq(Fill)
      BY Constants DEF Types
    <3> QED  BY <3>1
  <2>2. \A u \in Tasks : queue'[u] = IF u = "live" THEN Append(queue["live"], f) ELSE queue[u]
    BY <1>2 DEF Types
  <2>3. ASSUME NEW u \in Tasks, NEW k \in Nat \ {0}
        PROVE  <<u, k>> \in Queued(i)' =>
                 <<u, k>> \in Queued(i) \/ (i = f.at /\ <<u, k>> = last)
    <3>1. CASE u = "live"
      <4>1. queue'[u] = Append(queue["live"], f)
        BY <2>2, <3>1
      <4>2. <<u, k>> \in Queued(i)' =>
              k \in 1 .. (Len(queue["live"]) + 1) /\ Append(queue["live"], f)[k].at = i
        BY <2>1, <4>1 DEF Queued
      <4>3. k \in DOMAIN queue["live"] /\ queue["live"][k].at = i => <<u, k>> \in Queued(i)
        BY <3>1 DEF Queued
      <4> QED  BY <2>1, <3>1, <4>2, <4>3
    <3>2. CASE u # "live"
      BY <2>2, <3>2 DEF Queued
    <3> QED  BY <3>1, <3>2
  <2>4. \A p \in Queued(i)' : \E u \in Tasks, k \in Nat \ {0} : p = <<u, k>>
    BY DEF Queued
  <2>5. Queued(i)' \subseteq Queued(i) \cup (IF i = f.at THEN {last} ELSE {})
    BY <2>3, <2>4
  <2> QED  BY <2>5
<1> QED  BY <1>1, <1>2 DEF Delivered

LEMMA PlacesPublish ==
  ASSUME Types, PlaceInv, NEW sent \in BOOLEAN, Publish(sent)
  PROVE  PlaceInv'
<1> DEFINE moved == Head(outbox)
           f == liveFill(moved)
<1>1. /\ outbox # <<>> /\ outbox' = Tail(outbox)
      /\ UNCHANGED <<trades, repeated, task, booked, marked, raced>>
      /\ queue' = Delivered(f, sent)
  BY DEF Publish, tracker
<1>2. f.at = moved /\ f \in Fill
  <2>1. moved \in DOMAIN trades
    BY <1>1 DEF Types, ToSet
  <2> QED  BY <2>1, FillsTyped
<1> HIDE DEF f
<1>3. ASSUME NEW i \in DOMAIN trades \ (raced \cup repeated) PROVE Placed(i)'
  <2>1. Placed(i) /\ Tx(i)' = Tx(i) /\ InHand(i)' = InHand(i) /\ Booked(i)' = Booked(i)
    BY <1>1, SamePlaces DEF PlaceInv, Tx
  <2>2. NoMore(Outboxed(i), Outboxed(i)')
    BY <1>1, OutboxTail
  <2>3. PICK last : Queued(i)' \subseteq Queued(i) \cup (IF i = f.at THEN {last} ELSE {})
    BY <1>1, <1>2, DeliveredPlaces
  <2>4. CASE i = moved
    <3>1. Outboxed(i) # {} /\ (AtMostOne(Outboxed(i)) => Outboxed(i)' = {})
      BY <1>1, <2>4, OutboxTail
    <3>2. Outboxed(i)' = {} /\ Queued(i) = {} /\ InHand(i) = {} /\ Booked(i) = {}
      BY <2>1, <3>1 DEF Placed, OnePlace
    <3>3. Queued(i)' \subseteq {last}
      BY <1>2, <2>3, <2>4, <3>2
    <3> QED  BY <2>1, <3>2, <3>3 DEF Placed, OnePlace, AtMostOne
  <2>5. CASE i # moved
    <3>1. Queued(i)' \subseteq Queued(i)
      BY <1>2, <2>3, <2>5
    <3> QED  BY <1>1, <2>1, <2>2, <3>1, PlacesShrink, SmallerIsNoMore DEF NoMore
  <2> QED  BY <2>4, <2>5
<1> QED  BY <1>1, <1>3 DEF PlaceInv

(* A fill that comes again is no longer one of those with one place.       *)
LEMMA PlacesSecond == ASSUME Types, PlaceInv, SecondSource PROVE PlaceInv'
<1>1. PICK i \in DOMAIN trades, sent \in BOOLEAN :
           /\ UNCHANGED <<trades, mode, task, open, booked, marked, signals, opened, credited,
                          raced, restarts>>
           /\ repeated' = repeated \cup {i} /\ stored' \subseteq stored \cup {i}
           /\ failures' \in {failures, failures + 1}
           /\ outbox' \in {outbox, Append(outbox, i)}
           /\ \E f \in Fill : f.at = i /\ Known(f) /\ queue' \in {queue, Delivered(f, sent)}
  BY SecondStep
<1>2. PICK f \in Fill : f.at = i /\ queue' \in {queue, Delivered(f, sent)}
  BY <1>1
<1>3. ASSUME NEW j \in DOMAIN trades \ (raced \cup repeated'), j # i PROVE Placed(j)'
  <2>1. Placed(j) /\ Tx(j)' = Tx(j) /\ InHand(j)' = InHand(j) /\ Booked(j)' = Booked(j)
    BY <1>1, SamePlaces DEF PlaceInv, Tx
  <2>2. Outboxed(j)' = Outboxed(j)
    <3>1. CASE outbox' = outbox
      BY <3>1, SamePlaces
    <3>2. CASE outbox' = Append(outbox, i)
      <4>1. outbox \in Seq(Nat) /\ i \in Nat
        BY FillsTyped DEF Types
      <4>2. /\ DOMAIN outbox = 1 .. Len(outbox) /\ Len(outbox) \in Nat
            /\ DOMAIN outbox' = 1 .. (Len(outbox) + 1)
            /\ \A k \in 1 .. (Len(outbox) + 1) :
                 outbox'[k] = IF k = Len(outbox) + 1 THEN i ELSE outbox[k]
        BY <3>2, <4>1
      <4> QED  BY <1>3, <4>2 DEF Outboxed
    <3> QED  BY <1>1, <3>1, <3>2
  <2>3. Queued(j)' \subseteq Queued(j)
    <3>1. CASE queue' = queue
      BY <3>1, SamePlaces
    <3>2. CASE queue' = Delivered(f, sent)
      <4>1. PICK last : Queued(j)' \subseteq Queued(j) \cup (IF j = f.at THEN {last} ELSE {})
        BY <3>2, DeliveredPlaces
      <4> QED  BY <1>2, <1>3, <4>1
    <3> QED  BY <1>2, <3>1, <3>2
  <2> QED  BY <1>1, <2>1, <2>2, <2>3, PlacesShrink, SmallerIsNoMore DEF NoMore
<1> QED  BY <1>1, <1>3 DEF PlaceInv

LEMMA PlacesMark ==
  ASSUME Types, PlaceInv, NEW t \in Tasks, Mark(t)
  PROVE  PlaceInv'
<1> DEFINE f == Head(queue[t])
           w == WithFill(task[t], "marked", f)
<1>1. /\ task[t].pc = "idle" /\ queue[t] # <<>> /\ task' = [task EXCEPT ![t] = w]
      /\ queue' = [queue EXCEPT ![t] = Tail(queue[t])]
      /\ marked' = marked \cup {Tx(f.at)}
      /\ UNCHANGED <<trades, outbox, repeated, booked, raced>>
  BY DEF Mark, WithFill, stream, tracker
<1>2. w.pc = "marked" /\ w.fill = f
  <2>1. f \in Fill /\ task[t] \in Work /\ "marked" \in Stage
    BY <1>1, TailKnown DEF Types, Stage
  <2> HIDE DEF f
  <2> QED  BY <2>1, FillTyped
<1> HIDE DEF w
<1>3. \A u \in Tasks : task'[u] = IF u = t THEN w ELSE task[u]
  BY <1>1 DEF Types
<1>4. ASSUME NEW i \in DOMAIN trades \ (raced \cup repeated) PROVE Placed(i)'
  <2>1. /\ Placed(i) /\ Tx(i)' = Tx(i)
        /\ Outboxed(i)' = Outboxed(i) /\ Booked(i)' = Booked(i)
    BY <1>1, SamePlaces DEF PlaceInv, Tx
  <2>2. CASE i = f.at
    <3>1. Queued(i) # {} /\ (AtMostOne(Queued(i)) => Queued(i)' = {})
      BY <1>1, <2>2, QueueTail
    <3>2. Outboxed(i) = {} /\ Queued(i)' = {} /\ InHand(i) = {} /\ Booked(i) = {}
      BY <2>1, <3>1 DEF Placed, OnePlace
    <3>3. InHand(i)' \subseteq {t}
      BY <1>3, <3>2 DEF InHand
    <3>4. Tx(i)' \in marked'
      BY <1>1, <2>1, <2>2
    <3> QED  BY <2>1, <3>2, <3>3, <3>4 DEF Placed, OnePlace, AtMostOne
  <2>3. CASE i # f.at
    <3>1. NoMore(Queued(i), Queued(i)')
      BY <1>1, QueueTail
    <3>2. InHand(i)' \subseteq InHand(i)
      BY <1>2, <1>3, <2>3 DEF InHand
    <3> QED  BY <1>1, <2>1, <3>1, <3>2, PlacesShrink, SmallerIsNoMore DEF NoMore
  <2> QED  BY <2>2, <2>3
<1> QED  BY <1>1, <1>4 DEF PlaceInv

LEMMA PlacesProcess ==
  ASSUME Types, PlaceInv, NEW t \in Tasks, NEW exact \in BOOLEAN, Process(t, exact)
  PROVE  PlaceInv'
<1> DEFINE f == task[t].fill
           b == [task |-> t, fill |-> f, exact |-> exact]
<1>1. /\ task[t].pc = "marked" /\ booked' = Append(booked, b)
      /\ UNCHANGED <<trades, outbox, repeated, queue, marked, raced>>
  BY DEF Process, stream
<1>2. PICK w \in Work : task' = [task EXCEPT ![t] = w] /\ w.pc # "marked"
  BY ProcessedTask
<1>3. b.fill = f /\ b \in Booking
  BY <1>1 DEF Types, TaskTypes, Booking
<1> HIDE DEF b
<1>4. /\ DOMAIN booked = 1 .. Len(booked) /\ Len(booked) \in Nat
      /\ DOMAIN booked' = 1 .. (Len(booked) + 1)
      /\ \A k \in 1 .. (Len(booked) + 1) :
           booked'[k] = IF k = Len(booked) + 1 THEN b ELSE booked[k]
  <2>1. booked \in Seq(Booking)
    BY DEF Types
  <2> QED  BY <1>1, <1>3, <2>1
<1>5. ASSUME NEW i \in DOMAIN trades \ (raced \cup repeated) PROVE Placed(i)'
  <2>1. /\ Placed(i) /\ Tx(i)' = Tx(i)
        /\ Outboxed(i)' = Outboxed(i) /\ Queued(i)' = Queued(i)
    BY <1>1, SamePlaces DEF PlaceInv, Tx
  <2>2. InHand(i)' = InHand(i) \ {t} /\ NoMore(InHand(i), InHand(i)')
    BY <1>2, HandsShrink
  <2>3. CASE i = f.at
    <3>1. t \in InHand(i)
      BY <1>1, <2>3 DEF InHand
    <3>2. Outboxed(i) = {} /\ Queued(i) = {} /\ Booked(i) = {} /\ Tx(i) \in marked
      BY <2>1, <3>1 DEF Placed, OnePlace
    <3>3. InHand(i)' = {}
      BY <2>1, <2>2, <3>1 DEF Placed, OnePlace, AtMostOne
    <3>4. Booked(i)' \subseteq {Len(booked) + 1}
      BY <1>4, <3>2 DEF Booked
    <3>5. AtMostOne(Booked(i)')
      BY <3>4 DEF AtMostOne
    <3> QED  BY <1>1, <2>1, <3>2, <3>3, <3>5 DEF Placed, OnePlace, AtMostOne
  <2>4. CASE i # f.at
    <3>1. Booked(i)' \subseteq Booked(i)
      BY <1>3, <1>4, <2>4 DEF Booked
    <3> QED  BY <1>1, <2>1, <2>2, <3>1, PlacesShrink, SmallerIsNoMore DEF NoMore
  <2> QED  BY <2>3, <2>4
<1> QED  BY <1>1, <1>5 DEF PlaceInv

LEMMA PlacesRead ==
  ASSUME Types, PlaceInv, NEW r \in Tasks, ~Working(r), ReadHistory(r),
         UNCHANGED <<trades, outbox, repeated, task, booked, marked>>
  PROVE  PlaceInv'
<1> DEFINE H == {i \in stored : Tx(i) \notin marked}
<1>1. /\ ToSet(historicalFills) = H
      /\ \A k, m \in DOMAIN historicalFills : historicalFills[k] = historicalFills[m] => k = m
  BY HistoryListed
<1>2. raced' = raced \cup (H \cap Elsewhere(r))
  <2>1. raced' = raced \cup (ToSet(historicalFills) \cap Elsewhere(r))
    BY DEF ReadHistory
  <2> HIDE DEF H
  <2> QED  BY <1>1, <2>1
<1>3. /\ \A u \in Tasks \ {r} : queue'[u] = queue[u]
      /\ DOMAIN queue'[r] = DOMAIN historicalFills
      /\ \A k \in DOMAIN queue'[r] : queue'[r][k].at = historicalFills[k]
  BY HistoryQueued
<1>4. queue[r] = <<>> /\ task[r].pc = "idle"
  BY DEF Working
<1>5. ASSUME NEW i \in DOMAIN trades \ (raced' \cup repeated) PROVE Placed(i)'
  <2>1. /\ Placed(i) /\ Tx(i)' = Tx(i)
        /\ Outboxed(i)' = Outboxed(i) /\ InHand(i)' = InHand(i) /\ Booked(i)' = Booked(i)
    BY <1>2, SamePlaces DEF PlaceInv, Tx
  <2>2. \A p \in Queued(i)' : \E u \in Tasks, k \in Nat \ {0} :
          p = <<u, k>> /\ k \in DOMAIN queue'[u] /\ queue'[u][k].at = i
    BY DEF Queued
  <2>3. CASE i \in H
    <3>1. i \notin ToSet(outbox) /\ \A u \in Tasks \ {r} : i \notin Held(u)
      <4>1. ToSet(outbox) \subseteq Elsewhere(r)
            /\ \A u \in Tasks \ {r} : Held(u) \subseteq Elsewhere(r)
        <5>2. ASSUME NEW u \in Tasks \ {r} PROVE Held(u) \subseteq Elsewhere(r)
          <6>1. Held(u) \subseteq UNION {Held(t) : t \in Tasks \ {r}}
            BY Zenon
          <6> QED  BY <6>1 DEF Elsewhere
        <5>3. ToSet(outbox) \subseteq Elsewhere(r)
          BY DEF Elsewhere
        <5> QED  BY <5>2, <5>3
      <4> QED  BY <1>2, <2>3, <4>1
    <3>2. Outboxed(i) = {}
      BY <3>1 DEF Outboxed, ToSet
    <3>3. \A u \in Tasks : ~\E k \in DOMAIN queue[u] : queue[u][k].at = i
      <4> SUFFICES ASSUME NEW u \in Tasks, NEW k \in DOMAIN queue[u], queue[u][k].at = i
                   PROVE  FALSE
        OBVIOUS
      <4>1. u # r
        BY <1>4
      <4>2. i \in Held(u)
        BY DEF Held
      <4> QED  BY <3>1, <4>1, <4>2
    <3>4. Queued(i) = {}
      BY <3>3 DEF Queued
    <3>5. InHand(i) = {}
      <4> SUFFICES ASSUME NEW u \in Tasks, task[u].pc = "marked", task[u].fill.at = i
                   PROVE  FALSE
        BY DEF InHand
      <4>1. u # r /\ task[u].fill # None
        BY <1>4, NoneIsNone DEF Types, TaskTypes
      <4>2. i \in Held(u)
        BY <4>1 DEF Held
      <4> QED  BY <3>1, <4>1, <4>2
    <3>6. Booked(i) = {}
      BY <2>1, <2>3 DEF Placed
    <3>7. AtMostOne(Queued(i)')
      <4> SUFFICES ASSUME NEW p \in Queued(i)', NEW q \in Queued(i)' PROVE p = q
        BY DEF AtMostOne
      <4>1. PICK u \in Tasks, k \in Nat \ {0} :
              p = <<u, k>> /\ k \in DOMAIN queue'[u] /\ queue'[u][k].at = i
        BY <2>2
      <4>2. PICK v \in Tasks, m \in Nat \ {0} :
              q = <<v, m>> /\ m \in DOMAIN queue'[v] /\ queue'[v][m].at = i
        BY <2>2
      <4>3. u = r /\ v = r
        BY <1>3, <3>3, <4>1, <4>2
      <4>4. historicalFills[k] = i /\ historicalFills[m] = i
            /\ k \in DOMAIN historicalFills /\ m \in DOMAIN historicalFills
        BY <1>3, <4>1, <4>2, <4>3
      <4>5. k = m
        BY <1>1, <4>4
      <4> QED  BY <4>1, <4>2, <4>3, <4>5
    <3> QED  BY <2>1, <3>2, <3>5, <3>6, <3>7 DEF Placed, OnePlace
  <2>4. CASE i \notin H
    <3>1. \A k \in DOMAIN historicalFills : historicalFills[k] # i
      BY <1>1, <2>4 DEF ToSet
    <3>2. Queued(i)' \subseteq Queued(i)
      <4> SUFFICES ASSUME NEW p \in Queued(i)' PROVE p \in Queued(i)
        OBVIOUS
      <4>1. PICK u \in Tasks, k \in Nat \ {0} :
              p = <<u, k>> /\ k \in DOMAIN queue'[u] /\ queue'[u][k].at = i
        BY <2>2
      <4>2. u # r
        BY <1>3, <3>1, <4>1
      <4>3. queue'[u] = queue[u]
        BY <1>3, <4>2
      <4> QED  BY <4>1, <4>3 DEF Queued
    <3> QED  BY <2>1, <3>2, PlacesShrink, SmallerIsNoMore DEF NoMore
  <2> QED  BY <2>3, <2>4
<1> QED  BY <1>5 DEF PlaceInv

(* The other steps of a task: it works on with the fill it has, or lets    *)
(* it go.                                                                  *)
LEMMA PlacesOther ==
  ASSUME Types, PlaceInv, NEW t \in Tasks, NEW w \in Work, w.pc # "marked",
         task' = [task EXCEPT ![t] = w], UNCHANGED <<trades, outbox, repeated, booked, raced>>,
         marked \subseteq marked',
         queue' = queue \/ (queue[t] # <<>> /\ queue' = [queue EXCEPT ![t] = Tail(queue[t])])
  PROVE  PlaceInv'
<1>1. ASSUME NEW i \in DOMAIN trades \ (raced \cup repeated) PROVE Placed(i)'
  <2>1. /\ Placed(i) /\ Tx(i)' = Tx(i)
        /\ Outboxed(i)' = Outboxed(i) /\ Booked(i)' = Booked(i)
    BY SamePlaces DEF PlaceInv, Tx
  <2>2. NoMore(InHand(i), InHand(i)')
    BY HandsShrink
  <2>3. NoMore(Queued(i), Queued(i)')
    <3>1. CASE queue' = queue
      <4>1. Queued(i)' = Queued(i)
        BY <3>1, SamePlaces
      <4> QED  BY <4>1 DEF NoMore
    <3>2. CASE queue[t] # <<>> /\ queue' = [queue EXCEPT ![t] = Tail(queue[t])]
      BY <3>2, QueueTail
    <3> QED  BY <3>1, <3>2
  <2> QED  BY <2>1, <2>2, <2>3, PlacesShrink DEF NoMore
<1> QED  BY <1>1 DEF PlaceInv

(* The database calls that move no outcome, and the end of a row.          *)
LEMMA QuietStep ==
  ASSUME Types, NEW t \in Tasks,
         InsertSignal(t) \/ CountOpened(t) \/ SelectSignal(t) \/ MarkRow(t)
  PROVE  /\ \E w \in Work : task' = [task EXCEPT ![t] = w] /\ w.pc \notin {"marked", "credit"}
         /\ task[t].pc \notin {"marked", "credit"} /\ Working(t) /\ marked \subseteq marked'
         /\ UNCHANGED <<stream, mode, queue, tracker, credited, raced, restarts, failures>>
         /\ \/ signals' = signals
            \/ \E row \in Row : row.status = "open" /\ signals' = Append(signals, row)
<1>1. ASSUME task[t].pc # "idle"
      PROVE  Returned(t) \in Work /\ Returned(t).pc \notin {"marked", "credit"}
  BY <1>1, ReturnedTyped
<1>2. CASE InsertSignal(t)
  <2> DEFINE w == [task[t] EXCEPT !.pc = "count"]
             ep == task[t].ep
             row == [dir |-> ep.dir, first |-> ep.first, status |-> "open", exit |-> 0]
  <2>1. /\ task[t].pc = "insert" /\ task' = [task EXCEPT ![t] = w]
        /\ signals' \in {signals, Append(signals, row)}
        /\ UNCHANGED <<stream, mode, queue, tracker, marked, credited, raced, faults>>
    BY <1>2 DEF InsertSignal
  <2>2. task[t] \in Work /\ ep \in Episode
    BY <2>1 DEF Types, TaskTypes
  <2>3. row \in Row /\ row.status = "open"
    BY <2>2 DEF Row, Episode
  <2>4. w \in Work /\ w.pc = "count"
    <3>1. "count" \in Stage
      BY DEF Stage
    <3> QED  BY <2>2, <3>1, StageTyped
  <2>5. Working(t)
    BY <2>1 DEF Working
  <2> HIDE DEF w, row
  <2> QED  BY <2>1, <2>3, <2>4, <2>5 DEF faults
<1>3. CASE CountOpened(t)
  <2>1. /\ task[t].pc = "count" /\ task' = [task EXCEPT ![t] = Returned(t)]
        /\ UNCHANGED <<stream, mode, queue, tracker, marked, signals, credited, raced, faults>>
    BY <1>3 DEF CountOpened
  <2> QED  BY <1>1, <2>1 DEF Working, faults
<1>4. CASE SelectSignal(t)
  <2> DEFINE rows == {k \in DOMAIN signals : signals[k].status = "open"
                                             /\ signals[k].dir = task[t].ep.dir}
             newest == CHOOSE k \in rows :
                         \A m \in rows : signals[m].first <= signals[k].first
  <2>1. /\ task[t].pc = "select"
        /\ task' = [task EXCEPT ![t] = IF rows = {} THEN Returned(t)
                                       ELSE WithRow(task[t], "update", newest)]
        /\ UNCHANGED <<stream, mode, queue, tracker, marked, tables, raced, faults>>
    BY <1>4 DEF SelectSignal, WithRow
  <2>2. rows # {} => newest \in Nat
    <3>1. DOMAIN signals = 1 .. Len(signals)
      BY DEF Types
    <3>2. rows # {} => \E k \in rows : \A m \in rows : signals[m].first <= signals[k].first
      BY NewestRow
    <3> HIDE DEF rows
    <3>3. rows # {} => newest \in rows
      BY <3>2
    <3> QED  BY <3>1, <3>3 DEF rows
  <2> HIDE DEF newest
  <2>3. rows # {} => /\ WithRow(task[t], "update", newest) \in Work
                     /\ WithRow(task[t], "update", newest).pc = "update"
    <3>1. "update" \in Stage /\ task[t] \in Work
      BY DEF Stage, Types
    <3> QED  BY <2>2, <3>1, RowTyped
  <2> HIDE DEF rows
  <2> QED  BY <1>1, <2>1, <2>3 DEF tables, Working, faults
<1>5. CASE MarkRow(t)
  <2>1. /\ task[t].pc = "rowDone" /\ task' = [task EXCEPT ![t] = Idle]
        /\ marked \subseteq marked'
        /\ UNCHANGED <<stream, mode, queue, tracker, tables, raced, restarts, failures>>
    BY <1>5 DEF MarkRow
  <2> QED  BY <2>1, NoneIsNone DEF tables, Working
<1> QED  BY <1>2, <1>3, <1>4, <1>5

(* The outcome goes in hand with the row, and out of hand with the credit. *)
LEMMA OutcomeStep ==
  ASSUME Types, NEW t \in Tasks
  PROVE  /\ UpdateSignal(t) =>
              /\ \E w \in Work : task' = [task EXCEPT ![t] = w] /\ w.pc = "credit"
              /\ task[t].pc = "update"
              /\ UNCHANGED <<stream, mode, queue, tracker, marked, credited, raced, faults>>
         /\ update_trader_performance(t) =>
              /\ \E w \in Work : task' = [task EXCEPT ![t] = w] /\ w.pc \in {"idle", "rowDone"}
              /\ task[t].pc = "credit" /\ credited' = credited + 1
              /\ UNCHANGED <<stream, mode, queue, tracker, marked, signals, raced, faults>>
<1>1. ASSUME UpdateSignal(t)
      PROVE  /\ \E w \in Work : task' = [task EXCEPT ![t] = w] /\ w.pc = "credit"
             /\ task[t].pc = "update"
             /\ UNCHANGED <<stream, mode, queue, tracker, marked, credited, raced, faults>>
  <2>1. "credit" \in Stage /\ task[t] \in Work
    BY DEF Stage, Types
  <2> QED  BY <1>1, <2>1, StageTyped DEF UpdateSignal
<1>2. ASSUME update_trader_performance(t)
      PROVE  /\ \E w \in Work : task' = [task EXCEPT ![t] = w] /\ w.pc \in {"idle", "rowDone"}
             /\ task[t].pc = "credit" /\ credited' = credited + 1
             /\ UNCHANGED <<stream, mode, queue, tracker, marked, signals, raced, faults>>
  BY <1>2, ReturnedTyped DEF update_trader_performance
<1> QED  BY <1>1, <1>2

LEMMA PlacesKept ==
  ASSUME Types, PlaceInv, [Next]_vars
  PROVE  PlaceInv'
<1>1. CASE UNCHANGED vars
  <2>1. UNCHANGED <<trades, outbox, repeated, queue, task, booked, marked, raced>>
    BY <1>1 DEF vars, stream, tracker
  <2>2. \A i : Outboxed(i)' = Outboxed(i) /\ Queued(i)' = Queued(i)
               /\ InHand(i)' = InHand(i) /\ Booked(i)' = Booked(i) /\ Tx(i)' = Tx(i)
    BY <2>1, SamePlaces DEF Tx
  <2>3. \A i \in DOMAIN trades \ (raced \cup repeated) : Placed(i)'
    BY <2>1, <2>2, PlacesShrink DEF PlaceInv, NoMore
  <2> QED  BY <2>1, <2>3 DEF PlaceInv
<1>2. CASE \E t \in Tasks : InsertSignal(t) \/ CountOpened(t) \/ SelectSignal(t) \/ MarkRow(t)
  <2>1. PICK t \in Tasks : InsertSignal(t) \/ CountOpened(t) \/ SelectSignal(t) \/ MarkRow(t)
    BY <1>2
  <2>2. /\ \E w \in Work : task' = [task EXCEPT ![t] = w] /\ w.pc # "marked"
        /\ marked \subseteq marked' /\ UNCHANGED <<trades, outbox, repeated, queue, booked, raced>>
    BY <2>1, QuietStep DEF stream, tracker
  <2> QED  BY <2>2, PlacesOther
<1>3. CASE \E t \in Tasks : UpdateSignal(t) \/ update_trader_performance(t)
  <2>1. PICK t \in Tasks : UpdateSignal(t) \/ update_trader_performance(t)
    BY <1>3
  <2>2. /\ \E w \in Work : task' = [task EXCEPT ![t] = w] /\ w.pc # "marked"
        /\ UNCHANGED <<trades, outbox, repeated, queue, booked, marked, raced>>
    BY <2>1, OutcomeStep DEF stream, tracker
  <2> QED  BY <2>2, PlacesOther
<1>4. CASE \E t \in Tasks : DatabaseFails(t)
  <2>1. PICK t \in Tasks : DatabaseFails(t)
    BY <1>4
  <2>2. PICK w \in Work :
          /\ task' = [task EXCEPT ![t] = w] /\ w.pc \in {"idle", "rowDone"}
          /\ queue' = queue \/ (queue[t] # <<>> /\ queue' = [queue EXCEPT ![t] = Tail(queue[t])])
    BY <2>1, FailureIsAStep
  <2>3. UNCHANGED <<trades, outbox, repeated, booked, marked, raced>>
    BY <2>1 DEF DatabaseFails, stream, tracker
  <2> QED  BY <2>2, <2>3, PlacesOther
<1>5. CASE \E r \in Reconcilers : Reconcile(r)
  <2>1. PICK r \in Reconcilers : Reconcile(r)
    BY <1>5
  <2>2. r \in Tasks /\ ~Working(r) /\ ReadHistory(r)
        /\ UNCHANGED <<trades, outbox, repeated, task, booked, marked>>
    BY <2>1, Constants DEF Reconcile, stream, tracker
  <2> QED  BY <2>2, PlacesRead
<1>6. CASE Start
  <2>1. Scheduled \in Tasks /\ ~Working(Scheduled)
        /\ UNCHANGED <<trades, outbox, repeated, task, booked, marked>>
    BY <1>6, Constants DEF Start, Types, stream, tracker
  <2>2. CASE ReadHistory(Scheduled)
    BY <2>1, <2>2, PlacesRead
  <2>3. CASE UNCHANGED <<queue, raced>>
    <3>1. \A i : Outboxed(i)' = Outboxed(i) /\ Queued(i)' = Queued(i)
                 /\ InHand(i)' = InHand(i) /\ Booked(i)' = Booked(i) /\ Tx(i)' = Tx(i)
      BY <2>1, <2>3, SamePlaces DEF Tx
    <3>2. \A i \in DOMAIN trades \ (raced \cup repeated) : Placed(i)'
      BY <2>1, <3>1, PlacesShrink DEF PlaceInv, NoMore
    <3> QED  BY <2>1, <2>3, <3>2 DEF PlaceInv
  <2> QED  BY <1>6, <2>2, <2>3 DEF Start
<1>7. CASE Subscribe
  <2>1. UNCHANGED <<trades, outbox, repeated, queue, task, booked, marked, raced>>
    BY <1>7 DEF Subscribe, stream, tracker
  <2>2. \A i : Outboxed(i)' = Outboxed(i) /\ Queued(i)' = Queued(i)
               /\ InHand(i)' = InHand(i) /\ Booked(i)' = Booked(i) /\ Tx(i)' = Tx(i)
    BY <2>1, SamePlaces DEF Tx
  <2>3. \A i \in DOMAIN trades \ (raced \cup repeated) : Placed(i)'
    BY <2>1, <2>2, PlacesShrink DEF PlaceInv, NoMore
  <2> QED  BY <2>1, <2>3 DEF PlaceInv
<1>8. CASE Crash
  <2>1. /\ queue' = [t \in Tasks |-> <<>>] /\ task' = [t \in Tasks |-> Idle]
        /\ UNCHANGED <<trades, outbox, repeated, booked, marked, raced>>
    BY <1>8 DEF Crash, stream
  <2>2. \A i : Queued(i)' = {} /\ InHand(i)' = {}
    BY <2>1, NoneIsNone DEF Queued, InHand
  <2>3. \A i : Outboxed(i)' = Outboxed(i) /\ Booked(i)' = Booked(i) /\ Tx(i)' = Tx(i)
    BY <2>1, SamePlaces DEF Tx
  <2>4. \A S : NoMore(S, {}) /\ NoMore(S, S)
    BY DEF NoMore, AtMostOne
  <2>5. \A i \in DOMAIN trades \ (raced \cup repeated) : Placed(i)'
    BY <2>1, <2>2, <2>3, <2>4, PlacesShrink DEF PlaceInv
  <2> QED  BY <2>1, <2>5 DEF PlaceInv
<1> QED  BY <1>1, <1>2, <1>3, <1>4, <1>5, <1>6, <1>7, <1>8, StepCases, PlacesExchange,
            PlacesSecond, PlacesPublish, PlacesMark, PlacesProcess

-----------------------------------------------------------------------------
(* Outcomes                                                                *)
Closed == {k \in DOMAIN signals : signals[k].status = "closed"}
InFlight == {t \in Tasks : task[t].pc = "credit"}

LEMMA OutcomesFinite ==
  ASSUME Types
  PROVE  /\ IsFiniteSet(Closed) /\ Cardinality(Closed) \in Nat
         /\ IsFiniteSet(InFlight) /\ Cardinality(InFlight) \in Nat
         /\ Cardinality(InFlight) <= Cardinality(Tasks)
<1>1. Closed \in SUBSET (1 .. Len(signals)) /\ Len(signals) \in Nat
  <2>1. DOMAIN signals = 1 .. Len(signals) /\ Len(signals) \in Nat
    BY DEF Types
  <2> QED  BY <2>1 DEF Closed
<1>2. IsFiniteSet(Closed)
  <2>1. IsFiniteSet(1 .. Len(signals))
    BY <1>1, FS_Interval
  <2> QED  BY <1>1, <2>1, FS_Subset
<1>3. InFlight \in SUBSET Tasks
  BY DEF InFlight
<1>4. IsFiniteSet(InFlight) /\ Cardinality(InFlight) <= Cardinality(Tasks)
  BY <1>3, Constants, FS_Subset
<1> QED  BY <1>2, <1>4, FS_CardinalityType

LEMMA CreditedMeans ==
  ClosedRowsCredited <=>
    Cardinality(Closed) <= credited + Cardinality(InFlight) + failures
                           + restarts * Cardinality(Tasks)
BY DEF ClosedRowsCredited, Closed, InFlight

(* What is in flight after a step of one task.                             *)
LEMMA FlightStep ==
  ASSUME Types, NEW t \in Tasks, NEW w \in Work, task' = [task EXCEPT ![t] = w]
  PROVE  InFlight' = IF w.pc = "credit" THEN InFlight \cup {t} ELSE InFlight \ {t}
<1>1. \A u \in Tasks : task'[u] = IF u = t THEN w ELSE task[u]
  BY DEF Types
<1> QED  BY <1>1 DEF InFlight

LEMMA OutcomesKept ==
  ASSUME Types, Types', ClosedRowsCredited, [Next]_vars
  PROVE  ClosedRowsCredited'
<1> DEFINE c == Cardinality(Closed)
           f == Cardinality(InFlight)
           n == Cardinality(Tasks)
<1>1. /\ {c, f, n, credited, failures, restarts} \subseteq Nat /\ f <= n
      /\ IsFiniteSet(Closed) /\ IsFiniteSet(InFlight)
      /\ c <= credited + f + failures + restarts * n
  BY OutcomesFinite, Constants, CreditedMeans DEF Types
<1>2. {c', f', credited', failures', restarts'} \subseteq Nat
  <2>1. (IsFiniteSet(Closed) /\ Cardinality(Closed) \in Nat
         /\ IsFiniteSet(InFlight) /\ Cardinality(InFlight) \in Nat
         /\ Cardinality(InFlight) <= Cardinality(Tasks))'
    BY OutcomesFinite, PTL
  <2> QED  BY <2>1 DEF Types
<1>3. n' = n
  OBVIOUS
<1>4. c' <= credited' + f' + failures' + restarts' * n => ClosedRowsCredited'
  <2>1. ClosedRowsCredited' <=>
          (Cardinality(Closed) <= credited + Cardinality(InFlight) + failures
                                   + restarts * Cardinality(Tasks))'
    BY CreditedMeans, PTL
  <2> QED  BY <2>1
<1>5. restarts * n \in Nat /\ (restarts + 1) * n = restarts * n + n
  BY <1>1
<1>6. Cardinality({}) = 0 /\ \A S, x : IsFiniteSet(S) =>
        /\ Cardinality(S \cup {x}) = IF x \in S THEN Cardinality(S) ELSE Cardinality(S) + 1
        /\ Cardinality(S \ {x}) = IF x \in S THEN Cardinality(S) - 1 ELSE Cardinality(S)
  BY FS_EmptySet, FS_AddElement, FS_RemoveElement
<1> HIDE DEF c, f, n
<1>10. ASSUME c' = c, f' = f, credited' = credited, failures <= failures', restarts' = restarts
       PROVE  ClosedRowsCredited'
  BY <1>1, <1>2, <1>4, <1>5, <1>10
<1>11. UNCHANGED signals => c' = c
  BY DEF c, Closed
<1>12. UNCHANGED task => f' = f
  BY DEF f, InFlight
<1>13. CASE UNCHANGED vars
  <2>1. UNCHANGED <<signals, task, credited, failures, restarts>>
    BY <1>13 DEF vars, tables, faults
  <2> QED  BY <1>1, <1>10, <1>11, <1>12, <2>1
<1>14. CASE Exchange \/ SecondSource \/ \E sent \in BOOLEAN : Publish(sent)
  <2>1. UNCHANGED <<signals, task, credited, restarts>> /\ failures <= failures'
    <3>1. failures \in Nat
      BY <1>1
    <3>2. ASSUME NEW size \in Int, NEW sameTx, NEW stores, onUserEvents(size, sameTx, stores)
          PROVE  /\ UNCHANGED <<signals, task, credited, restarts>>
                 /\ failures' \in {failures, failures + 1}
      BY <3>2 DEF onUserEvents, tables
    <3>3. ASSUME NEW sent, Publish(sent)
          PROVE  /\ UNCHANGED <<signals, task, credited, restarts>>
                 /\ failures' \in {failures, failures + 1}
      BY <3>3 DEF Publish, tables
    <3>4. \A n1 \in Sizes : n1 \in Int /\ -n1 \in Int
      BY EpisodesAssumption
    <3>5. SecondSource => /\ UNCHANGED <<signals, task, credited, restarts>>
                          /\ failures' \in {failures, failures + 1}
      BY SecondStep
    <3>6. /\ UNCHANGED <<signals, task, credited, restarts>>
          /\ failures' \in {failures, failures + 1}
      BY <1>14, <3>2, <3>3, <3>4, <3>5 DEF Exchange
    <3> QED  BY <3>1, <3>6
  <2> QED  BY <1>10, <1>11, <1>12, <2>1
<1>15. CASE (\E r \in Reconcilers : Reconcile(r)) \/ Start \/ Subscribe
  <2>1. UNCHANGED <<signals, task, credited, restarts>> /\ failures <= failures'
    BY <1>1, <1>15 DEF Reconcile, Start, Subscribe, tables, faults
  <2> QED  BY <1>10, <1>11, <1>12, <2>1
<1>16. ASSUME NEW t \in Tasks, Mark(t) PROVE ClosedRowsCredited'
  <2>1. /\ UNCHANGED <<signals, credited, failures, restarts>> /\ task[t].pc = "idle"
        /\ task' = [task EXCEPT ![t] = WithFill(task[t], "marked", Head(queue[t]))]
        /\ queue[t] # <<>>
    BY <1>16 DEF Mark, WithFill, tables, faults
  <2>2. Head(queue[t]) \in Fill /\ task[t] \in Work /\ "marked" \in Stage
    BY <2>1, TailKnown DEF Types, Stage
  <2>3. InFlight' = InFlight \ {t} /\ t \notin InFlight
    BY <2>1, <2>2, FillTyped, FlightStep DEF InFlight
  <2>4. f' = f
    BY <2>3 DEF f
  <2> QED  BY <1>1, <1>10, <1>11, <2>1, <2>4
<1>17. ASSUME NEW t \in Tasks, NEW exact \in BOOLEAN, Process(t, exact) PROVE ClosedRowsCredited'
  <2>1. UNCHANGED <<signals, credited, failures, restarts>> /\ task[t].pc = "marked"
    BY <1>17 DEF Process, tables, faults
  <2>2. PICK w \in Work : task' = [task EXCEPT ![t] = w] /\ w.pc # "credit"
    BY <1>17, ProcessedTask
  <2>3. InFlight' = InFlight \ {t} /\ t \notin InFlight
    BY <2>1, <2>2, FlightStep DEF InFlight
  <2>4. f' = f
    BY <2>3 DEF f
  <2> QED  BY <1>1, <1>10, <1>11, <2>1, <2>4
<1>18. ASSUME NEW t \in Tasks,
              InsertSignal(t) \/ CountOpened(t) \/ SelectSignal(t) \/ MarkRow(t)
       PROVE  ClosedRowsCredited'
  <2>1. /\ UNCHANGED <<credited, failures, restarts>> /\ task[t].pc # "credit"
        /\ \/ signals' = signals
           \/ \E row \in Row : row.status = "open" /\ signals' = Append(signals, row)
    BY <1>18, QuietStep DEF faults
  <2>2. PICK w \in Work : task' = [task EXCEPT ![t] = w] /\ w.pc # "credit"
    BY <1>18, QuietStep
  <2>3. InFlight' = InFlight \ {t} /\ t \notin InFlight
    BY <2>1, <2>2, FlightStep DEF InFlight
  <2>4. f' = f
    BY <2>3 DEF f
  <2>5. ASSUME NEW row \in Row, row.status = "open", signals' = Append(signals, row)
        PROVE  Closed' = Closed
    <3>1. signals \in Seq(Row)
      BY DEF Types
    <3>2. /\ DOMAIN signals = 1 .. Len(signals) /\ Len(signals) \in Nat
          /\ DOMAIN signals' = 1 .. (Len(signals) + 1)
          /\ \A k \in 1 .. (Len(signals) + 1) :
               signals'[k] = IF k = Len(signals) + 1 THEN row ELSE signals[k]
      BY <2>5, <3>1
    <3> QED  BY <2>5, <3>2 DEF Closed
  <2>6. c' = c
    BY <1>11, <2>1, <2>5 DEF c
  <2> QED  BY <1>1, <1>10, <2>1, <2>4, <2>6
<1>19. ASSUME NEW t \in Tasks, UpdateSignal(t) PROVE ClosedRowsCredited'
  <2>1. task[t].pc = "update" /\ UNCHANGED <<credited, failures, restarts>>
    BY <1>19, OutcomeStep DEF faults
  <2>2. PICK w \in Work : task' = [task EXCEPT ![t] = w] /\ w.pc = "credit"
    BY <1>19, OutcomeStep
  <2>3. InFlight' = InFlight \cup {t} /\ t \notin InFlight
    BY <2>1, <2>2, FlightStep DEF InFlight
  <2>4. f' = f + 1
    BY <1>1, <1>6, <2>3 DEF f
  <2>5. Closed' \subseteq Closed \cup {task[t].row}
    <3>1. task[t].row \in DOMAIN signals
      BY <2>1 DEF Types, TaskTypes
    <3>2. /\ DOMAIN signals' = DOMAIN signals
          /\ \A k \in DOMAIN signals : k # task[t].row => signals'[k] = signals[k]
      BY <1>19 DEF UpdateSignal, Types
    <3> QED  BY <3>2 DEF Closed
  <2>6. c' <= c + 1
    <3>1. IsFiniteSet(Closed \cup {task[t].row})
      BY <1>1, FS_AddElement
    <3>2. Cardinality(Closed') <= Cardinality(Closed \cup {task[t].row})
      BY <2>5, <3>1, FS_Subset
    <3>3. Cardinality(Closed \cup {task[t].row}) \in {c, c + 1} /\ c \in Nat
      BY <1>1, <1>6 DEF c
    <3>4. Cardinality(Closed') = c' /\ c' \in Nat
      BY <1>2 DEF c
    <3> QED  BY <3>2, <3>3, <3>4
  <2> QED  BY <1>1, <1>2, <1>4, <1>5, <2>1, <2>4, <2>6
<1>20. ASSUME NEW t \in Tasks, update_trader_performance(t) PROVE ClosedRowsCredited'
  <2>1. /\ task[t].pc = "credit" /\ credited' = credited + 1
        /\ UNCHANGED <<signals, failures, restarts>>
    BY <1>20, OutcomeStep DEF faults
  <2>2. PICK w \in Work : task' = [task EXCEPT ![t] = w] /\ w.pc # "credit"
    BY <1>20, OutcomeStep
  <2>3. InFlight' = InFlight \ {t} /\ t \in InFlight
    BY <2>1, <2>2, FlightStep DEF InFlight
  <2>4. f' = f - 1
    BY <1>1, <1>6, <2>3 DEF f
  <2> QED  BY <1>1, <1>2, <1>4, <1>5, <1>11, <2>1, <2>4
<1>21. ASSUME NEW t \in Tasks, DatabaseFails(t) PROVE ClosedRowsCredited'
  <2>1. failures' = failures + 1 /\ UNCHANGED <<signals, credited, restarts>>
    BY <1>21 DEF DatabaseFails, tables
  <2>2. PICK w \in Work : task' = [task EXCEPT ![t] = w] /\ w.pc # "credit"
    BY <1>21, FailureIsAStep
  <2>3. InFlight' = InFlight \ {t}
    BY <2>2, FlightStep
  <2>4. f' \in {f - 1, f}
    BY <1>1, <1>6, <2>3 DEF f
  <2> QED  BY <1>1, <1>2, <1>4, <1>5, <1>11, <2>1, <2>4
<1>22. CASE Crash
  <2>1. /\ restarts' = restarts + 1 /\ task' = [t \in Tasks |-> Idle]
        /\ UNCHANGED <<signals, credited, failures>>
    BY <1>22 DEF Crash, tables
  <2>2. InFlight' = {}
    BY <2>1, NoneIsNone DEF InFlight
  <2>3. f' = 0
    BY <1>6, <2>2 DEF f
  <2> QED  BY <1>1, <1>2, <1>4, <1>5, <1>11, <2>1, <2>3
<1> QED  BY <1>13, <1>14, <1>15, <1>16, <1>17, <1>18, <1>19, <1>20, <1>21, <1>22, StepCases

-----------------------------------------------------------------------------
(* The tracker                                                             *)
LEMMA ChainedKept ==
  ASSUME Types, Chained, [Next]_vars
  PROVE  Chained'
<1>1. CASE UNCHANGED trades
  BY <1>1 DEF Chained, After
<1>2. CASE Exchange
  <2>1. PICK size \in Sizes \cup {-n : n \in Sizes}, sameTx \in BOOLEAN, stores \in BOOLEAN :
          onUserEvents(size, sameTx, stores)
    BY <1>2 DEF Exchange
  <2>2. PICK trade : trades' = Append(trades, trade) /\ trade.start = Position
    BY <2>1 DEF onUserEvents
  <2>3. trades \in Seq(Trade)
    BY DEF Types
  <2>4. /\ DOMAIN trades = 1 .. Len(trades) /\ Len(trades) \in Nat
        /\ DOMAIN trades' = 1 .. (Len(trades) + 1)
        /\ \A k \in 1 .. (Len(trades) + 1) :
             trades'[k] = IF k = Len(trades) + 1 THEN trade ELSE trades[k]
    BY <2>2, <2>3
  <2>5. Position = IF Len(trades) = 0 THEN 0 ELSE After(Len(trades))
    BY <2>3 DEF Position, After, Last
  <2>6. ASSUME NEW i \in 1 .. (Len(trades) + 1)
        PROVE  trades'[i].start = IF i = 1 THEN 0
                                  ELSE trades'[i - 1].start + trades'[i - 1].size
    <3>1. i # 1 => trades'[i - 1] = trades[i - 1]
      BY <2>4
    <3>2. CASE i = Len(trades) + 1
      <4>1. trades'[i].start = Position /\ i - 1 = Len(trades)
        BY <2>2, <2>4, <3>2
      <4> QED  BY <2>4, <2>5, <3>1, <4>1 DEF After
    <3>3. CASE i # Len(trades) + 1
      <4>1. i \in DOMAIN trades /\ trades'[i] = trades[i]
        BY <2>4, <3>3
      <4> QED  BY <3>1, <4>1 DEF Chained, After
    <3> QED  BY <3>2, <3>3
  <2> QED  BY <2>4, <2>6 DEF Chained, After
<1>3. SecondSource => UNCHANGED trades
  BY SecondStep
<1>4. UNCHANGED trades \/ Exchange
  BY <1>3, StepCases DEF vars, stream, Publish, Mark, Process, InsertSignal, CountOpened,
       SelectSignal, UpdateSignal, update_trader_performance, MarkRow, DatabaseFails,
       Reconcile, Start, Subscribe, Crash
<1> QED  BY <1>1, <1>2, <1>4

LEMMA AfterTyped ==
  ASSUME Types, NEW i \in DOMAIN trades
  PROVE  /\ After(i) \in Int /\ trades[i].start \in Int /\ trades[i].size \in Int \ {0}
         /\ After(i) = trades[i].start + trades[i].size /\ liveFill(i).size = trades[i].size
<1>1. trades[i] \in Trade
  BY DEF Types
<1> QED  BY <1>1 DEF Trade, After, liveFill

LEMMA SignsDiffer ==
  ASSUME NEW m \in Int, NEW n \in Int
  PROVE  Sign(m) = Sign(n) <=> (m > 0 <=> n > 0) /\ (m < 0 <=> n < 0)
BY DEF Sign

(* The tracker's next fill, if it is the trader's next fill.               *)
LEMMA TrackerStep ==
  ASSUME Types, Chained, NEW n \in Nat, n + 1 \in DOMAIN trades,
         NeverRebuilt(n + 1), Remembers(open, n)
  PROVE  Remembers(process_fill(open, liveFill(n + 1), TRUE).open, n + 1)
<1> DEFINE fill == liveFill(n + 1)
           prev == NetPosition(open)
           new == prev + fill.size
           ep == process_fill(open, fill, TRUE).open
<1>1. /\ fill \in Fill /\ fill.size \in Int \ {0} /\ prev \in Int
      /\ (prev # 0 => open \in Episode) /\ new \in Int /\ new # prev
  <2>1. fill \in Fill /\ fill.size \in Int \ {0}
    BY FillsTyped, AfterTyped
  <2>2. prev \in Int /\ (prev # 0 => open \in Episode)
    BY NetTyped DEF Types
  <2> HIDE DEF fill, prev
  <2> QED  BY <2>1, <2>2
<1>2. prev = trades[n + 1].start /\ new = After(n + 1)
  <2>1. prev = IF n = 0 THEN 0 ELSE After(n)
    BY DEF Remembers, NetPosition
  <2>2. trades[n + 1].start = IF n = 0 THEN 0 ELSE After(n)
    BY DEF Chained
  <2> QED  BY <2>1, <2>2, AfterTyped
<1>3. n > 0 => prev = After(n) /\ n \in DOMAIN trades
  <2>1. DOMAIN trades = 1 .. Len(trades) /\ Len(trades) \in Nat
    BY DEF Types
  <2> QED  BY <2>1 DEF Remembers
<1> SUFFICES Remembers(ep, n + 1)
  OBVIOUS
<1>10. PICK result : /\ MadeOf(open, fill, TRUE, prev, new, result)
                     /\ result.open = ep
  BY ProcessCases
<1> HIDE DEF fill, prev, new, ep
<1>9. /\ prev = 0 => ep = Fresh(fill, new, open # None)
      /\ prev # 0 /\ Crosses(prev, new) =>
           ep = IF new # 0 THEN Fresh(fill, new, TRUE) ELSE None
      /\ prev # 0 /\ ~Crosses(prev, new) /\ Abs(new) > Abs(prev) =>
           ep = Increased(open, Abs(new))
      /\ prev # 0 /\ ~Crosses(prev, new) /\ ~(Abs(new) > Abs(prev)) =>
           ep = Reduced(open, fill.size)
  <2>1. /\ prev = 0 => result = [open |-> Fresh(fill, new, open # None), closed |-> None]
        /\ prev # 0 /\ Crosses(prev, new) =>
             result = [open |-> IF new # 0 THEN Fresh(fill, new, TRUE) ELSE None, closed |-> open]
        /\ prev # 0 /\ ~Crosses(prev, new) /\ Abs(new) > Abs(prev) =>
             result = [open |-> Increased(open, Abs(new)), closed |-> None]
        /\ prev # 0 /\ ~Crosses(prev, new) /\ ~(Abs(new) > Abs(prev)) =>
             result = [open |-> Reduced(open, fill.size), closed |-> None]
    BY <1>10, Zenon DEF MadeOf
  <2>2. \A x, y : [open |-> x, closed |-> y].open = x
    OBVIOUS
  <2>3. \A x, y : result = [open |-> x, closed |-> y] => ep = x
    BY <1>10, <2>2
  <2> QED  BY <2>1, <2>3, Zenon
<1>4. ASSUME new # 0, NEW summed \in BOOLEAN
      PROVE  /\ Fresh(fill, new, summed) # None /\ Fresh(fill, new, summed).exited = 0
             /\ NetPosition(Fresh(fill, new, summed)) = new
             /\ Fresh(fill, new, summed).dir = "long" <=> new > 0
  <2>1. PICK fresh \in Episode : fresh = Fresh(fill, new, summed)
    BY <1>1, FreshTyped
  <2>2. /\ fresh.dir = IF new > 0 THEN "long" ELSE "short"
        /\ fresh.size = Abs(new) /\ fresh.exited = 0 /\ fresh # None
    BY <1>1, <2>1, FreshTyped, NoneIsNone
  <2>3. NetPosition(fresh) = new
    BY <1>1, <1>4, <2>2 DEF NetPosition, Abs
  <2> QED  BY <2>1, <2>2, <2>3
<1>5. ASSUME NEW summed \in BOOLEAN, ep = IF new # 0 THEN Fresh(fill, new, summed) ELSE None
      PROVE  Remembers(ep, n + 1)
  <2>1. CASE new = 0
    BY <1>1, <1>2, <1>5, <2>1 DEF Remembers, NetPosition
  <2>2. CASE new # 0
    <3>1. /\ ep # None /\ ep.exited = 0 /\ NetPosition(ep) = new
          /\ ep.dir = "long" <=> new > 0
      BY <1>4, <1>5, <2>2
    <3> QED  BY <1>1, <1>2, <2>2, <3>1 DEF Remembers
  <2> QED  BY <2>1, <2>2
<1>6. CASE prev = 0
  <2>1. new # 0 /\ (open # None) \in BOOLEAN
    BY <1>1, <1>6
  <2>2. ep = Fresh(fill, new, open # None)
    BY <1>6, <1>9
  <2> QED  BY <1>5, <2>1, <2>2
<1>7. CASE prev # 0 /\ Crosses(prev, new)
  BY <1>5, <1>7, <1>9
<1>8. CASE prev # 0 /\ ~Crosses(prev, new)
  <2>1. open \in Episode /\ open # None /\ (new > 0 <=> prev > 0) /\ new # 0
        /\ Sign(new) = Sign(prev) /\ n > 0
    <3>1. open \in Episode /\ open # None
      BY <1>1, <1>8, NoneIsNone
    <3>2. (new > 0 <=> prev > 0) /\ (new < 0 <=> prev < 0) /\ new # 0
      BY <1>1, <1>8 DEF Crosses
    <3> QED  BY <1>1, <3>1, <3>2, SignsDiffer DEF Remembers
  <2>2. open.dir = "long" <=> new > 0
    BY <1>3, <2>1 DEF Remembers
  <2>3. prev = (IF open.dir = "long" THEN open.size ELSE -open.size) + open.exited
    BY <2>1 DEF NetPosition, prev
  <2>4. open.size \in Nat /\ open.exited \in Int
    BY <2>1 DEF Episode
  <2>5. CASE Abs(new) > Abs(prev)
    <3>1. ep = Increased(open, Abs(new))
      BY <1>8, <1>9, <2>5
    <3>2. ep.dir = open.dir /\ ep.size = Abs(new) /\ ep.exited = open.exited /\ ep # None
      <4>1. Abs(new) \in Nat
        BY <1>1 DEF Abs
      <4> QED  BY <2>1, <3>1, <4>1, ChangedTyped, NoneIsNone
    <3>3. open.exited = 0
      <4> SUFFICES ASSUME open.exited # 0 PROVE FALSE
        OBVIOUS
      <4>1. PICK i \in 1 .. n :
              Reduces(i) /\ \A k \in i .. n : Sign(After(k)) = Sign(After(i))
        BY <2>1 DEF Remembers
      <4>2. Increases(n + 1) /\ i < n + 1 /\ i \in 1 .. (n + 1) /\ n + 1 \in 1 .. (n + 1)
        BY <1>2, <1>8, <2>5 DEF Increases
      <4>3. PICK k \in i .. (n + 1) : Sign(After(k)) # Sign(After(i))
        BY <4>1, <4>2 DEF NeverRebuilt
      <4>4. k = n + 1
        BY <4>1, <4>3
      <4>5. Sign(After(n + 1)) = Sign(After(n)) /\ Sign(After(n)) = Sign(After(i))
        BY <1>2, <1>3, <2>1, <4>1
      <4> QED  BY <4>3, <4>4, <4>5
    <3>4. NetPosition(ep) = new
      BY <1>1, <2>2, <3>2, <3>3 DEF NetPosition, Abs
    <3> QED  BY <1>2, <2>1, <2>2, <3>2, <3>3, <3>4 DEF Remembers
  <2>6. CASE ~(Abs(new) > Abs(prev))
    <3>1. ep = Reduced(open, fill.size)
      BY <1>8, <1>9, <2>6
    <3>2. ep.dir = open.dir /\ ep.size = open.size /\ ep.exited = open.exited + fill.size
          /\ ep # None
      BY <1>1, <2>1, <3>1, ChangedTyped, NoneIsNone
    <3>3. NetPosition(ep) = new
      <4>1. NetPosition(ep) = (IF open.dir = "long" THEN open.size ELSE -open.size)
                              + (open.exited + fill.size)
        BY <3>2 DEF NetPosition
      <4>2. new = prev + fill.size
        BY DEF new
      <4> QED  BY <1>1, <2>3, <2>4, <4>1, <4>2
    <3>4. Reduces(n + 1)
      BY <1>1, <1>2, <2>1, <2>6 DEF Reduces, Abs
    <3>5. \A k \in (n + 1) .. (n + 1) : Sign(After(k)) = Sign(After(n + 1))
      <4>1. \A k \in (n + 1) .. (n + 1) : k = n + 1
        OBVIOUS
      <4> QED  BY <4>1
    <3>6. n + 1 \in 1 .. (n + 1)
      OBVIOUS
    <3> QED  BY <1>2, <2>1, <2>2, <3>2, <3>3, <3>4, <3>5, <3>6 DEF Remembers
  <2> QED  BY <2>5, <2>6
<1> QED  BY <1>6, <1>7, <1>8

LiveBooking(k) == [task |-> "live", fill |-> liveFill(k), exact |-> TRUE]
LiveFirst(n) == \A k \in 1 .. n : booked[k] = LiveBooking(k)

LEMMA LiveMeans ==
  ASSUME Types
  PROVE  /\ LiveInOrder <=> /\ restarts = 0 /\ Len(booked) <= Len(trades)
                            /\ LiveFirst(Len(booked))
         /\ LiveFirst(Len(booked)) => \A k \in 1 .. Len(booked) : booked[k].fill.at = k
<1>1. DOMAIN booked = 1 .. Len(booked) /\ booked = [k \in DOMAIN booked |-> booked[k]]
  BY DEF Types
<1> DEFINE g == [k \in DOMAIN booked |->
                   [task |-> "live", fill |-> liveFill(k), exact |-> TRUE]]
<1>2. booked = g <=> \A k \in DOMAIN booked : booked[k] = LiveBooking(k)
  BY <1>1 DEF LiveBooking
<1>3. LiveInOrder <=> restarts = 0 /\ Len(booked) <= Len(trades) /\ LiveFirst(Len(booked))
  BY <1>1, <1>2 DEF LiveInOrder, LiveFirst
<1>4. LiveFirst(Len(booked)) => \A k \in 1 .. Len(booked) : booked[k].fill.at = k
  <2> SUFFICES ASSUME LiveFirst(Len(booked)), NEW k \in 1 .. Len(booked)
               PROVE  booked[k].fill.at = k
    OBVIOUS
  <2>1. booked[k] = LiveBooking(k)
    BY DEF LiveFirst
  <2> QED  BY <2>1 DEF LiveBooking, liveFill
<1> QED  BY <1>3, <1>4

(* Live fills come in order, so the exchange knows each one that is booked *)
(* and what it does next does not change the past.                         *)
LEMMA SamePast ==
  ASSUME Types, NEW n \in Nat, n <= Len(trades), Len(trades) <= Len(trades'),
         \A i \in DOMAIN trades : trades'[i] = trades[i]
  PROVE  /\ NeverRebuilt(n)' => NeverRebuilt(n)
         /\ \A ep : Remembers(ep, n) => Remembers(ep, n)'
         /\ \A k \in 1 .. n : liveFill(k)' = liveFill(k)
<1>1. DOMAIN trades = 1 .. Len(trades) /\ Len(trades) \in Nat
  BY DEF Types
<1>2. \A i \in 1 .. n : trades'[i] = trades[i]
  BY <1>1
<1>3. \A i \in 1 .. n : /\ After(i)' = After(i) /\ Reduces(i)' = Reduces(i)
                        /\ Increases(i)' = Increases(i) /\ liveFill(i)' = liveFill(i)
  BY <1>2, Zenon DEF After, Reduces, Increases, liveFill
<1>4. NeverRebuilt(n)' => NeverRebuilt(n)
  <2>1. \A i, j \in 1 .. n : \A k \in i .. j : k \in 1 .. n
    OBVIOUS
  <2> QED  BY <1>3, <2>1 DEF NeverRebuilt
<1>5. ASSUME NEW ep, Remembers(ep, n) PROVE Remembers(ep, n)'
  <2>1. n > 0 => After(n)' = After(n)
    BY <1>3
  <2>2. \A i \in 1 .. n : \A k \in i .. n : k \in 1 .. n
    OBVIOUS
  <2>3. \A i \in 1 .. n :
          Reduces(i) /\ (\A k \in i .. n : Sign(After(k)) = Sign(After(i)))
            => Reduces(i)' /\ (\A k \in i .. n : Sign(After(k))' = Sign(After(i))')
    BY <1>3, <2>2 DEF Sign
  <2> QED  BY <1>5, <2>1, <2>3 DEF Remembers
<1> QED  BY <1>3, <1>4, <1>5

LEMMA TrackerExchange ==
  ASSUME Types, Types', TrackerInv, Exchange
  PROVE  TrackerInv'
<1>1. /\ UNCHANGED <<open, booked, restarts>>
      /\ \E trade : trades' = Append(trades, trade)
  BY DEF Exchange, onUserEvents, tracker
<1>2. /\ DOMAIN trades = 1 .. Len(trades) /\ Len(trades) \in Nat /\ Len(trades) <= Len(trades')
      /\ \A i \in DOMAIN trades : trades'[i] = trades[i]
  <2>1. trades \in Seq(Trade)
    BY DEF Types
  <2> QED  BY <1>1, <2>1
<1>3. PICK n \in Nat : n = Len(booked) /\ n = Len(booked') /\ DOMAIN booked = 1 .. n
  BY <1>1 DEF Types
<1> SUFFICES ASSUME LiveInOrder', NeverRebuilt(n)' PROVE Remembers(open, n)'
  BY <1>3 DEF TrackerInv
<1>4. restarts = 0 /\ LiveFirst(n)' /\ \A k \in 1 .. n : booked[k].fill.at = k
  <2>1. (/\ LiveInOrder <=> /\ restarts = 0 /\ Len(booked) <= Len(trades)
                            /\ LiveFirst(Len(booked))
         /\ LiveFirst(Len(booked)) => \A k \in 1 .. Len(booked) : booked[k].fill.at = k)'
    BY LiveMeans, PTL
  <2> QED  BY <1>1, <1>3, <2>1
<1>5. n <= Len(trades)
  <2>1. CASE n = 0
    BY <1>2, <2>1
  <2>2. CASE n > 0
    <3>1. n \in DOMAIN booked
      BY <1>3, <2>2
    <3>2. booked[n].fill.at \in DOMAIN trades
      BY <3>1 DEF Types, Known
    <3> QED  BY <1>2, <1>3, <1>4, <3>1, <3>2
  <2> QED  BY <1>3, <2>1, <2>2
<1>6. /\ NeverRebuilt(n)' => NeverRebuilt(n)
      /\ \A k \in 1 .. n : liveFill(k)' = liveFill(k)
  BY <1>2, <1>3, <1>5, SamePast
<1>7. LiveInOrder
  <2>1. LiveFirst(n)
    BY <1>1, <1>4, <1>6 DEF LiveFirst, LiveBooking
  <2> QED  BY <1>3, <1>4, <1>5, <2>1, LiveMeans
<1>8. Remembers(open, n)
  BY <1>3, <1>6, <1>7 DEF TrackerInv
<1>9. PICK ep : ep = open
  OBVIOUS
<1>10. Remembers(ep, n)'
  BY <1>2, <1>3, <1>5, <1>8, <1>9, SamePast
<1> QED  BY <1>1, <1>9, <1>10 DEF Remembers

LEMMA TrackerProcess ==
  ASSUME Types, Types', Chained, TrackerInv,
         NEW t \in Tasks, NEW exact \in BOOLEAN, Process(t, exact)
  PROVE  TrackerInv'
<1> DEFINE b == [task |-> t, fill |-> task[t].fill, exact |-> exact]
<1>1. /\ open' = process_fill(open, b.fill, exact).open /\ booked' = Append(booked, b)
      /\ UNCHANGED <<trades, restarts>> /\ b \in Booking
  BY DEF Process, stream, faults, Types, TaskTypes, Booking
<1> HIDE DEF b
<1>2. PICK n \in Nat : n = Len(booked)
  BY DEF Types
<1>3. /\ Len(booked') = n + 1 /\ booked'[n + 1] = b
      /\ \A k \in 1 .. n : booked'[k] = booked[k]
  <2>1. booked \in Seq(Booking)
    BY DEF Types
  <2> QED  BY <1>1, <1>2, <2>1
<1> SUFFICES ASSUME LiveInOrder', NeverRebuilt(n + 1)' PROVE Remembers(open, n + 1)'
  BY <1>3 DEF TrackerInv
<1>4. restarts = 0 /\ n + 1 <= Len(trades) /\ LiveFirst(n + 1)'
  <2>1. (LiveInOrder <=> restarts = 0 /\ Len(booked) <= Len(trades)
                         /\ LiveFirst(Len(booked)))'
    BY LiveMeans, PTL
  <2> QED  BY <1>1, <1>3, <2>1
<1>5. \A k \in 1 .. (n + 1) : booked'[k] = LiveBooking(k)
  BY <1>1, <1>4 DEF LiveFirst, LiveBooking, liveFill
<1>6. b.fill = liveFill(n + 1) /\ exact = TRUE
  <2>1. n + 1 \in 1 .. (n + 1)
    OBVIOUS
  <2>2. b.fill = liveFill(n + 1) /\ b.exact = TRUE
    BY <1>3, <1>5, <2>1 DEF LiveBooking
  <2> QED  BY <2>2 DEF b
<1>7. LiveInOrder
  <2>1. LiveFirst(n)
    <3>1. \A k \in 1 .. n : k \in 1 .. (n + 1)
      OBVIOUS
    <3> QED  BY <1>3, <1>5, <3>1 DEF LiveFirst
  <2>2. n <= Len(trades)
    BY <1>4 DEF Types
  <2> QED  BY <1>2, <1>4, <2>1, <2>2, LiveMeans
<1>8. NeverRebuilt(n + 1) /\ NeverRebuilt(n)
  <2>1. NeverRebuilt(n + 1)
    BY <1>1 DEF NeverRebuilt, After, Reduces, Increases
  <2>2. \A i \in 1 .. n : i \in 1 .. (n + 1)
    OBVIOUS
  <2> QED  BY <2>1, <2>2 DEF NeverRebuilt
<1>9. Remembers(open, n)
  BY <1>2, <1>7, <1>8 DEF TrackerInv
<1>10. n + 1 \in DOMAIN trades
  BY <1>4 DEF Types
<1>11. Remembers(process_fill(open, liveFill(n + 1), TRUE).open, n + 1)
  BY <1>8, <1>9, <1>10, TrackerStep
<1>12. PICK ep : ep = process_fill(open, liveFill(n + 1), TRUE).open
  OBVIOUS
<1>13. Remembers(ep, n + 1) /\ open' = ep
  BY <1>1, <1>6, <1>11, <1>12
<1> QED  BY <1>1, <1>13 DEF Remembers, After, Reduces

LEMMA TrackerKept ==
  ASSUME Types, Types', Chained, TrackerInv, [Next]_vars
  PROVE  TrackerInv'
<1>1. CASE UNCHANGED <<trades, open, booked, restarts>>
  BY <1>1 DEF TrackerInv, LiveInOrder, NeverRebuilt, Remembers, After, Reduces, Increases, liveFill
<1>2. CASE Crash
  <2>1. restarts' # 0
    BY <1>2 DEF Crash, Types
  <2> QED  BY <2>1 DEF TrackerInv, LiveInOrder
<1>3. ASSUME NEW t \in Tasks,
             InsertSignal(t) \/ CountOpened(t) \/ SelectSignal(t) \/ MarkRow(t)
             \/ UpdateSignal(t) \/ update_trader_performance(t)
             \/ Mark(t) \/ DatabaseFails(t)
      PROVE  UNCHANGED <<trades, open, booked, restarts>>
  <2>1. CASE InsertSignal(t) \/ CountOpened(t) \/ SelectSignal(t) \/ MarkRow(t)
    BY <2>1, QuietStep DEF stream, tracker, faults
  <2>2. CASE UpdateSignal(t) \/ update_trader_performance(t)
    BY <2>2, OutcomeStep DEF stream, tracker, faults
  <2>3. CASE Mark(t)
    BY <2>3 DEF Mark, stream, tracker, faults
  <2>4. CASE DatabaseFails(t)
    BY <2>4 DEF DatabaseFails, stream, tracker
  <2> QED  BY <1>3, <2>1, <2>2, <2>3, <2>4
<1>4. CASE UNCHANGED vars \/ (\E sent \in BOOLEAN : Publish(sent))
           \/ (\E r \in Reconcilers : Reconcile(r)) \/ Start \/ Subscribe
  <2>1. UNCHANGED <<trades, open, booked, restarts>>
    BY <1>4 DEF vars, stream, tracker, faults, Publish, Reconcile, Start, Subscribe
  <2> QED  BY <1>1, <2>1
<1>5. CASE SecondSource
  BY <1>1, <1>5, SecondStep
<1> QED  BY <1>1, <1>2, <1>3, <1>4, <1>5, StepCases, TrackerExchange, TrackerProcess

-----------------------------------------------------------------------------
(* The invariant: what holds of the places, the rows and the tracker holds *)
(* in every reachable state.                                               *)
THEOREM EpisodesInvariance == Spec => []EpInv
<1>1. Init => EpInv
  <2> SUFFICES ASSUME Init PROVE EpInv
    OBVIOUS
  <2>1. Types
    BY TypesInit
  <2>2. trades = <<>> /\ booked = <<>> /\ signals = <<>> /\ open = None
        /\ credited = 0 /\ failures = 0 /\ restarts = 0
    BY DEF Init
  <2>3. PlaceInv /\ Chained
    BY <2>2 DEF PlaceInv, Chained
  <2>4. ClosedRowsCredited
    <3>1. Closed = {}
      BY <2>2 DEF Closed
    <3>2. Cardinality(Closed) = 0
      BY <3>1, FS_EmptySet
    <3>3. Cardinality(InFlight) \in Nat /\ Cardinality(Tasks) \in Nat
      BY <2>1, OutcomesFinite, Constants
    <3>4. restarts * Cardinality(Tasks) = 0
      BY <2>2, <3>3
    <3> QED  BY <2>2, <3>2, <3>3, <3>4, CreditedMeans
  <2>5. TrackerInv
    BY <2>2 DEF TrackerInv, Remembers
  <2> QED  BY <2>1, <2>3, <2>4, <2>5 DEF EpInv
<1>2. EpInv /\ [Next]_vars => EpInv'
  <2> SUFFICES ASSUME EpInv, [Next]_vars PROVE EpInv'
    OBVIOUS
  <2>1. Types /\ PlaceInv /\ ClosedRowsCredited /\ Chained /\ TrackerInv
    BY DEF EpInv
  <2>2. Types'
    BY <2>1, TypesKept
  <2> QED  BY <2>1, <2>2, PlacesKept, OutcomesKept, ChainedKept, TrackerKept DEF EpInv
<1> QED  BY <1>1, <1>2, PTL DEF Spec

(* A fill goes through process_fill a second time only if a reconciliation *)
(* read its row while another task or hl-stream still held it, or if it    *)
(* came from two connections or from hl-stream and a backfill: the mark in *)
(* episode_fill_ids, set before the tracker is asked, rules out the rest.  *)
THEOREM BookedOnce == Spec => []BookedOnceUnlessRaced
<1>1. EpInv => BookedOnceUnlessRaced
  <2> SUFFICES ASSUME EpInv, NEW i \in DOMAIN trades \ (raced \cup repeated)
               PROVE  Cardinality(Booked(i)) <= 1
    BY DEF BookedOnceUnlessRaced, Booked
  <2>1. AtMostOne(Booked(i))
    BY DEF EpInv, PlaceInv, Placed, OnePlace
  <2>2. CASE Booked(i) = {}
    <3>1. Cardinality(Booked(i)) = 0
      BY <2>2, FS_EmptySet
    <3> QED  BY <3>1
  <2>3. CASE Booked(i) # {}
    <3>1. PICK k : k \in Booked(i)
      BY <2>3
    <3>2. Booked(i) = {k}
      BY <2>1, <3>1 DEF AtMostOne
    <3>3. Cardinality(Booked(i)) = 1
      BY <3>2, FS_Singleton
    <3> QED  BY <3>3
  <2> QED  BY <2>2, <2>3
<1> QED  BY <1>1, EpisodesInvariance, PTL

(* persist_closed_episode closes a row and then moves the posterior: an    *)
(* outcome is missing there only if a crash or a failing call came between.*)
THEOREM OutcomesCredited == Spec => []ClosedRowsCredited
<1>1. EpInv => ClosedRowsCredited
  BY DEF EpInv
<1> QED  BY <1>1, EpisodesInvariance, PTL

(* Fed live and in order, the tracker's net position is the trader's, over *)
(* flips too, as long as no reduced position is built up again and no sum  *)
(* of floats leaves a residue where a position returns to zero.            *)
THEOREM TrackerFollows == Spec => []TrackerFollowsPosition
<1>1. EpInv => TrackerFollowsPosition
  BY DEF EpInv, TrackerInv, NeverRebuilt, Remembers, TrackerFollowsPosition
<1> QED  BY <1>1, EpisodesInvariance, PTL

-----------------------------------------------------------------------------
(* What position_signals holds.                                            *)
RowOf(i, n) ==
  [dir |-> IF After(i) > 0 THEN "long" ELSE "short", first |-> i,
   status |-> IF ExitOf(i, n) = 0 THEN "open" ELSE "closed", exit |-> ExitOf(i, n)]
ClosedOf(n) == {p \in PositionsOf(n) : p.status = "closed"}

(* A table that holds the rows of P, each once.                            *)
Holds(s, P) == ToSet(s) = P /\ IsInjective(s)

Opener(ep, n) ==
  ep.first \in 1 .. n /\ Opens(ep.first) /\ (ep.dir = "long" <=> After(ep.first) > 0)

(* What the table s and the count c of credited outcomes are after n fills, *)
(* less what the live task w has still to write.                            *)
Written(w, s, c, n) ==
  /\ w.pc # "rowDone"
  /\ w.pc \in {"idle", "marked", "count"} =>
       Holds(s, PositionsOf(n)) /\ c = Cardinality(ClosedOf(n))
  /\ w.pc = "insert" =>
       /\ Opener(w.ep, n) /\ c = Cardinality(ClosedOf(n))
       /\ Holds(s, IF w.ep.first = n THEN PositionsOf(n - 1) ELSE PositionsOf(n))
  /\ w.pc \in {"select", "update"} =>
       /\ n > 1 /\ After(n) = 0 /\ w.fill.at = n /\ (w.ep.dir = "long" <=> After(n - 1) > 0)
       /\ Holds(s, PositionsOf(n - 1)) /\ c = Cardinality(ClosedOf(n - 1))
  /\ w.pc = "update" => s[w.row].status = "open"
  /\ w.pc = "credit" =>
       Holds(s, PositionsOf(n)) /\ c + 1 = Cardinality(ClosedOf(n))

TableAt(n) ==
  /\ \A r \in Reconcilers : task[r].pc \in {"idle", "marked"}
  /\ open # None => Opener(open, n)
  /\ Written(task["live"], signals, credited, n)

TableInv ==
  LiveInOrder /\ failures = 0 /\ PlainHistory(Len(booked)) => TableAt(Len(booked))

-----------------------------------------------------------------------------
(* The positions of the first n fills: at most one is open, and a fill     *)
(* opens one, closes the open one, or leaves them as they are.             *)

LEMMA LeastIsMin ==
  ASSUME NEW S \in SUBSET Nat, NEW m \in S, \A y \in S : m <= y
  PROVE  Min(S) = m
<1>1. /\ Min(S) \in S /\ \A y \in S : Min(S) <= y
  BY DEF Min
<1>2. PICK x \in S : x = Min(S)
  BY <1>1
<1>3. x \in Nat /\ m \in Nat /\ x <= m /\ m <= x
  BY <1>1, <1>2
<1>4. x = m
  BY <1>3
<1> QED  BY <1>2, <1>4

(* All fills from i to n leave a position on the side of fill i.           *)
SameSide(i, n) == \A j \in i .. n : Sign(After(j)) = Sign(After(i))
Ends(i, n) == {j \in i .. n : Sign(After(j)) # Sign(After(i))}

LEMMA ExitMeans ==
  ASSUME NEW n \in Nat, NEW i \in 1 .. n
  PROVE  /\ ExitOf(i, n) = 0 <=> SameSide(i, n)
         /\ ExitOf(i, n) # 0 => /\ ExitOf(i, n) \in i .. n
                                /\ ExitOf(i, n) \in Ends(i, n)
                                /\ \A j \in Ends(i, n) : ExitOf(i, n) <= j
<1>1. Ends(i, n) \in SUBSET Nat /\ \A j \in Ends(i, n) : j \in i .. n /\ j # 0
  BY DEF Ends
<1>2. ExitOf(i, n) = IF Ends(i, n) = {} THEN 0 ELSE Min(Ends(i, n))
  BY DEF ExitOf, Ends
<1>3. Ends(i, n) = {} <=> SameSide(i, n)
  BY DEF Ends, SameSide
<1>4. CASE Ends(i, n) = {}
  BY <1>2, <1>3, <1>4
<1>5. CASE Ends(i, n) # {}
  <2>1. PICK m \in Ends(i, n) : \A j \in Ends(i, n) : m <= j
    BY <1>1, <1>5, LeastMember
  <2>2. ExitOf(i, n) = m
    BY <1>1, <1>2, <1>5, <2>1, LeastIsMin
  <2> QED  BY <1>1, <1>3, <1>5, <2>1, <2>2
<1> QED  BY <1>4, <1>5

LEMMA ExitLater ==
  ASSUME NEW n \in Nat, NEW i \in 1 .. n
  PROVE  ExitOf(i, n + 1) = IF ExitOf(i, n) # 0 THEN ExitOf(i, n)
                            ELSE IF Sign(After(n + 1)) = Sign(After(i)) THEN 0 ELSE n + 1
<1>1. n + 1 \in Nat /\ i \in 1 .. (n + 1)
  OBVIOUS
<1>2. \A j : j \in i .. (n + 1) <=> j \in i .. n \/ j = n + 1
  OBVIOUS
<1>3. CASE ExitOf(i, n) # 0
  <2>1. /\ ExitOf(i, n) \in i .. n /\ ExitOf(i, n) \in Ends(i, n)
        /\ \A j \in Ends(i, n) : ExitOf(i, n) <= j
    BY <1>3, ExitMeans
  <2>2. ExitOf(i, n) \in Ends(i, n + 1) /\ \A j \in Ends(i, n + 1) : ExitOf(i, n) <= j
    BY <1>2, <2>1 DEF Ends
  <2>3. Ends(i, n + 1) # {} /\ Ends(i, n + 1) \in SUBSET Nat
    BY <2>2 DEF Ends
  <2>4. ExitOf(i, n + 1) = Min(Ends(i, n + 1))
    BY <2>3 DEF ExitOf, Ends
  <2>5. ExitOf(i, n + 1) = ExitOf(i, n)
    BY <2>2, <2>3, <2>4, LeastIsMin
  <2> QED  BY <1>3, <2>5
<1>4. CASE ExitOf(i, n) = 0
  <2>1. SameSide(i, n)
    BY <1>4, ExitMeans
  <2>2. CASE Sign(After(n + 1)) = Sign(After(i))
    <3>1. SameSide(i, n + 1)
      BY <1>2, <2>1, <2>2 DEF SameSide
    <3> QED  BY <1>1, <1>4, <2>2, <3>1, ExitMeans
  <2>3. CASE Sign(After(n + 1)) # Sign(After(i))
    <3>1. Ends(i, n + 1) = {n + 1}
      BY <1>2, <2>1, <2>3 DEF SameSide, Ends
    <3>2. ExitOf(i, n + 1) = Min({n + 1})
      BY <3>1 DEF ExitOf, Ends
    <3>3. Min({n + 1}) = n + 1
      BY LeastIsMin
    <3> QED  BY <1>4, <2>3, <3>2, <3>3
  <2> QED  BY <2>2, <2>3
<1> QED  BY <1>3, <1>4

LEMMA ExitNow ==
  ASSUME NEW n \in Nat \ {0}
  PROVE  ExitOf(n, n) = 0
<1>1. SameSide(n, n) /\ n \in 1 .. n
  BY DEF SameSide
<1> QED  BY <1>1, ExitMeans

LEMMA PositionsAre ==
  ASSUME NEW n
  PROVE  PositionsOf(n) = {RowOf(i, n) : i \in {j \in 1 .. n : Opens(j)}}
BY Zenon DEF PositionsOf, RowOf

LEMMA RowFields ==
  ASSUME NEW i, NEW n
  PROVE  /\ RowOf(i, n).first = i /\ RowOf(i, n).exit = ExitOf(i, n)
         /\ RowOf(i, n).dir = IF After(i) > 0 THEN "long" ELSE "short"
         /\ RowOf(i, n).status = IF ExitOf(i, n) = 0 THEN "open" ELSE "closed"
BY DEF RowOf

(* The side of a position that opens and does not end.                     *)
LEMMA StillOpen ==
  ASSUME Types, NEW n \in Nat, n <= Len(trades), NEW i \in 1 .. n, Opens(i), ExitOf(i, n) = 0
  PROVE  /\ SameSide(i, n) /\ Sign(After(n)) = Sign(After(i))
         /\ After(n) # 0 /\ (After(i) > 0 <=> After(n) > 0)
<1>1. SameSide(i, n)
  BY ExitMeans
<1>2. n \in i .. n /\ i \in DOMAIN trades /\ n \in DOMAIN trades
  BY DEF Types
<1>3. Sign(After(n)) = Sign(After(i))
  BY <1>1, <1>2 DEF SameSide
<1>4. After(i) \in Int /\ After(n) \in Int /\ After(i) # 0
  BY <1>2, AfterTyped DEF Opens
<1> QED  BY <1>1, <1>3, <1>4, SignsDiffer

LEMMA OneOpen ==
  ASSUME Types, Chained, NEW n \in Nat, n <= Len(trades),
         NEW i \in 1 .. n, NEW j \in 1 .. n, Opens(i), Opens(j),
         ExitOf(i, n) = 0, ExitOf(j, n) = 0
  PROVE  i = j
<1>1. SameSide(i, n) /\ SameSide(j, n)
  BY ExitMeans
<1>2. ASSUME NEW a \in 1 .. n, NEW b \in 1 .. n, a < b, SameSide(a, n), Opens(b)
      PROVE  FALSE
  <2>1. b \in a .. n /\ b - 1 \in a .. n /\ b # 1 /\ b \in DOMAIN trades
    BY <1>2 DEF Types
  <2>2. Sign(After(b)) = Sign(After(a)) /\ Sign(After(b - 1)) = Sign(After(a))
    BY <1>2, <2>1 DEF SameSide
  <2>3. trades[b].start = After(b - 1)
    BY <2>1 DEF Chained
  <2> QED  BY <1>2, <2>2, <2>3 DEF Opens
<1>3. i < j \/ j < i \/ i = j
  OBVIOUS
<1> QED  BY <1>1, <1>2, <1>3

LEMMA SomeOpen ==
  ASSUME Types, Chained, NEW n \in DOMAIN trades, After(n) # 0
  PROVE  \E i \in 1 .. n : Opens(i) /\ ExitOf(i, n) = 0
<1>0. n \in Nat \ {0} /\ n <= Len(trades) /\ Len(trades) \in Nat /\ DOMAIN trades = 1 .. Len(trades)
  BY DEF Types
<1> DEFINE S == {i \in 1 .. n : SameSide(i, n)}
<1>1. n \in S /\ S \in SUBSET Nat
  BY <1>0 DEF SameSide
<1>2. PICK i \in S : \A j \in S : i <= j
  BY <1>1, LeastMember
<1>3. i \in 1 .. n /\ SameSide(i, n) /\ i \in DOMAIN trades /\ n \in i .. n
  BY <1>0, <1>2
<1>4. Sign(After(n)) = Sign(After(i)) /\ After(i) \in Int /\ After(n) \in Int
  BY <1>3, AfterTyped DEF SameSide
<1>5. After(i) # 0
  BY <1>4 DEF Sign
<1>6. Sign(trades[i].start) # Sign(After(i))
  <2>1. CASE i = 1
    <3>1. trades[i].start = 0
      BY <1>3, <2>1 DEF Chained
    <3> QED  BY <1>4, <1>5, <3>1 DEF Sign
  <2>2. CASE i # 1
    <3>1. i - 1 \in 1 .. n /\ i - 1 \notin S
      BY <1>0, <1>2, <1>3, <2>2
    <3>2. PICK j \in (i - 1) .. n : Sign(After(j)) # Sign(After(i - 1))
      BY <3>1 DEF SameSide
    <3>3. CASE j = i - 1
      BY <3>2, <3>3
    <3>4. CASE j # i - 1
      <4>1. j \in i .. n
        BY <1>3, <3>2, <3>4
      <4>2. Sign(After(j)) = Sign(After(i)) /\ trades[i].start = After(i - 1)
        BY <1>3, <2>2, <4>1 DEF SameSide, Chained
      <4> QED  BY <3>2, <4>2
    <3> QED  BY <3>3, <3>4
  <2> QED  BY <2>1, <2>2
<1>7. ExitOf(i, n) = 0
  BY <1>0, <1>3, ExitMeans
<1> QED  BY <1>3, <1>5, <1>6, <1>7 DEF Opens

LEMMA PositionsFinite ==
  ASSUME NEW n \in Nat
  PROVE  IsFiniteSet(PositionsOf(n)) /\ IsFiniteSet(ClosedOf(n)) /\ Cardinality(ClosedOf(n)) \in Nat
<1> DEFINE U == {j \in 1 .. n : Opens(j)}
           f == [i \in U |-> RowOf(i, n)]
<1>1. IsFiniteSet(U)
  <2>1. IsFiniteSet(1 .. n) /\ U \in SUBSET (1 .. n)
    BY FS_Interval
  <2> QED  BY <2>1, FS_Subset
<1>2. f \in Surjection(U, PositionsOf(n))
  <2>1. PositionsOf(n) = {RowOf(i, n) : i \in U}
    BY PositionsAre
  <2> HIDE DEF U
  <2> QED  BY <2>1 DEF Surjection
<1> HIDE DEF U, f
<1>3. IsFiniteSet(PositionsOf(n))
  BY <1>1, <1>2, FS_Surjection
<1> QED  BY <1>3, FS_Subset, FS_CardinalityType DEF ClosedOf

LEMMA RowOpens ==
  ASSUME NEW n, NEW p \in PositionsOf(n)
  PROVE  p = RowOf(p.first, n) /\ p.first \in 1 .. n /\ Opens(p.first)
<1>1. PICK i \in {j \in 1 .. n : Opens(j)} : p = RowOf(i, n)
  BY PositionsAre
<1>2. p.first = i
  BY <1>1, RowFields
<1> QED  BY <1>1, <1>2

LEMMA PositionsNext ==
  ASSUME NEW n \in Nat, NEW q,
         \A p : p \in q <=> \/ \E i \in 1 .. n : Opens(i) /\ p = RowOf(i, n + 1)
                            \/ Opens(n + 1) /\ p = RowOf(n + 1, n + 1)
  PROVE  PositionsOf(n + 1) = q
<1>1. \A i : i \in 1 .. (n + 1) <=> i \in 1 .. n \/ i = n + 1
  OBVIOUS
<1>2. PositionsOf(n + 1) = {RowOf(i, n + 1) : i \in {j \in 1 .. (n + 1) : Opens(j)}}
  BY PositionsAre
<1> QED  BY <1>1, <1>2

LEMMA PositionsOpened ==
  ASSUME Types, Chained, NEW n \in Nat, n + 1 \in DOMAIN trades,
         Opens(n + 1), trades[n + 1].start = 0
  PROVE  /\ PositionsOf(n + 1) = PositionsOf(n) \cup {RowOf(n + 1, n + 1)}
         /\ ClosedOf(n + 1) = ClosedOf(n)
<1>1. n <= Len(trades) /\ Len(trades) \in Nat
  BY DEF Types
<1>2. ASSUME NEW i \in 1 .. n, Opens(i) PROVE RowOf(i, n + 1) = RowOf(i, n)
  <2>1. ExitOf(i, n) # 0
    <3> SUFFICES ASSUME ExitOf(i, n) = 0 PROVE FALSE
      OBVIOUS
    <3>1. After(n) # 0
      BY <1>1, <1>2, StillOpen
    <3>2. trades[n + 1].start = After(n)
      BY DEF Chained
    <3> QED  BY <3>1, <3>2
  <2>2. ExitOf(i, n + 1) = ExitOf(i, n)
    BY <2>1, ExitLater
  <2> QED  BY <2>2 DEF RowOf
<1>3. PositionsOf(n + 1) = PositionsOf(n) \cup {RowOf(n + 1, n + 1)}
  <2> DEFINE q == PositionsOf(n) \cup {RowOf(n + 1, n + 1)}
  <2>1. \A p : p \in q <=> \/ \E i \in 1 .. n : Opens(i) /\ p = RowOf(i, n + 1)
                           \/ Opens(n + 1) /\ p = RowOf(n + 1, n + 1)
    BY <1>2, PositionsAre
  <2> HIDE DEF q
  <2>2. PositionsOf(n + 1) = q
    BY <2>1, PositionsNext
  <2> QED  BY <2>2 DEF q
<1>4. RowOf(n + 1, n + 1).status = "open"
  BY RowFields, ExitNow
<1> QED  BY <1>3, <1>4 DEF ClosedOf

LEMMA PositionsKept ==
  ASSUME Types, Chained, NEW n \in Nat, n + 1 \in DOMAIN trades,
         ~Opens(n + 1), After(n + 1) # 0
  PROVE  PositionsOf(n + 1) = PositionsOf(n) /\ ClosedOf(n + 1) = ClosedOf(n)
<1>1. n <= Len(trades) /\ Len(trades) \in Nat
  BY DEF Types
<1>2. Sign(trades[n + 1].start) = Sign(After(n + 1))
  BY DEF Opens
<1>3. ASSUME NEW i \in 1 .. n, Opens(i) PROVE RowOf(i, n + 1) = RowOf(i, n)
  <2>1. ExitOf(i, n) = 0 => Sign(After(n + 1)) = Sign(After(i))
    <3> SUFFICES ASSUME ExitOf(i, n) = 0 PROVE Sign(After(n + 1)) = Sign(After(i))
      OBVIOUS
    <3>1. Sign(After(n)) = Sign(After(i))
      BY <1>1, <1>3, StillOpen
    <3>2. trades[n + 1].start = After(n)
      BY DEF Chained
    <3> QED  BY <1>2, <3>1, <3>2
  <2>2. ExitOf(i, n + 1) = ExitOf(i, n)
    BY <2>1, ExitLater
  <2> QED  BY <2>2 DEF RowOf
<1>4. PositionsOf(n + 1) = PositionsOf(n)
  <2> DEFINE q == PositionsOf(n)
  <2>1. \A p : p \in q <=> \/ \E i \in 1 .. n : Opens(i) /\ p = RowOf(i, n + 1)
                           \/ Opens(n + 1) /\ p = RowOf(n + 1, n + 1)
    BY <1>3, PositionsAre
  <2> HIDE DEF q
  <2>2. PositionsOf(n + 1) = q
    BY <2>1, PositionsNext
  <2> QED  BY <2>2 DEF q
<1> QED  BY <1>4 DEF ClosedOf

(* The row of the position that is open after n fills.                     *)
OpenRow(old, n) ==
  /\ old \in PositionsOf(n) /\ old.status = "open"
  /\ old.dir = IF After(n) > 0 THEN "long" ELSE "short"
  /\ \A p \in PositionsOf(n) : p.status = "open" => p = old

LEMMA OpenRowExists ==
  ASSUME Types, Chained, NEW n \in DOMAIN trades, After(n) # 0
  PROVE  \E i \in 1 .. n : Opens(i) /\ ExitOf(i, n) = 0 /\ OpenRow(RowOf(i, n), n)
<1>1. n \in Nat /\ n <= Len(trades)
  BY DEF Types
<1>2. PICK i \in 1 .. n : Opens(i) /\ ExitOf(i, n) = 0
  BY SomeOpen
<1>3. RowOf(i, n) \in PositionsOf(n) /\ RowOf(i, n).status = "open"
  BY <1>2, PositionsAre, RowFields
<1>4. RowOf(i, n).dir = IF After(n) > 0 THEN "long" ELSE "short"
  <2>1. After(i) > 0 <=> After(n) > 0
    BY <1>1, <1>2, StillOpen
  <2> QED  BY <2>1, RowFields
<1>5. ASSUME NEW p \in PositionsOf(n), p.status = "open" PROVE p = RowOf(i, n)
  <2>1. p = RowOf(p.first, n) /\ p.first \in 1 .. n /\ Opens(p.first)
    BY RowOpens
  <2>2. ExitOf(p.first, n) = 0
    BY <1>5, <2>1, RowFields
  <2>3. p.first = i
    BY <1>1, <1>2, <2>1, <2>2, OneOpen
  <2> QED  BY <2>1, <2>3
<1> QED  BY <1>2, <1>3, <1>4, <1>5 DEF OpenRow

LEMMA PositionsClosed ==
  ASSUME Types, Chained, NEW n \in Nat, n + 1 \in DOMAIN trades, After(n + 1) = 0,
         NEW old, n > 0, OpenRow(old, n), After(n) # 0
  PROVE  /\ PositionsOf(n + 1) = (PositionsOf(n) \ {old}) \cup {Closing(old, n + 1)}
         /\ Cardinality(ClosedOf(n + 1)) = Cardinality(ClosedOf(n)) + 1
<1>1. n <= Len(trades) /\ Len(trades) \in Nat /\ n \in DOMAIN trades
  BY DEF Types
<1>2. PICK i \in 1 .. n : Opens(i) /\ ExitOf(i, n) = 0 /\ old = RowOf(i, n)
  <2>1. PICK i \in 1 .. n : Opens(i) /\ ExitOf(i, n) = 0 /\ OpenRow(RowOf(i, n), n)
    BY <1>1, OpenRowExists
  <2> QED  BY <2>1 DEF OpenRow
<1>3. ~Opens(n + 1)
  BY DEF Opens
<1>4. RowOf(i, n + 1) = Closing(old, n + 1)
  <2>1. Sign(After(i)) # Sign(After(n + 1))
    <3>1. After(i) # 0 /\ After(i) \in Int
      BY <1>1, <1>2, AfterTyped DEF Opens, Types
    <3> QED  BY <3>1, SignsDiffer DEF Sign
  <2>2. ExitOf(i, n + 1) = n + 1 /\ n + 1 # 0
    BY <1>2, <2>1, ExitLater
  <2>3. RowOf(i, n + 1) = [dir |-> old.dir, first |-> i, status |-> "closed", exit |-> n + 1]
    BY <1>2, <2>2, RowFields DEF RowOf
  <2>4. old = [dir |-> old.dir, first |-> i, status |-> "open", exit |-> 0]
    BY <1>2, RowFields DEF RowOf
  <2>5. old \in Row
    <3>1. old.dir \in Direction
      BY <1>2, RowFields DEF Direction
    <3> HIDE DEF Direction
    <3> QED  BY <2>4, <3>1 DEF Row
  <2>6. /\ Closing(old, n + 1) \in Row /\ Closing(old, n + 1).status = "closed"
        /\ Closing(old, n + 1).exit = n + 1 /\ Closing(old, n + 1).dir = old.dir
        /\ Closing(old, n + 1).first = i
    <3>1. n + 1 \in Nat /\ old.first = i
      BY <1>2, RowFields
    <3> QED  BY <2>5, <3>1, RowClosed
  <2>7. PICK row \in Row : row = Closing(old, n + 1)
    BY <2>6
  <2>8. row = [dir |-> old.dir, first |-> i, status |-> "closed", exit |-> n + 1]
    BY <2>6, <2>7 DEF Row
  <2> QED  BY <2>3, <2>7, <2>8
<1>5. ASSUME NEW j \in 1 .. n, Opens(j), j # i PROVE RowOf(j, n + 1) = RowOf(j, n)
  <2>1. ExitOf(j, n) # 0
    BY <1>1, <1>2, <1>5, OneOpen
  <2>2. ExitOf(j, n + 1) = ExitOf(j, n)
    BY <2>1, ExitLater
  <2> QED  BY <2>2 DEF RowOf
<1>6. PositionsOf(n + 1) = (PositionsOf(n) \ {old}) \cup {Closing(old, n + 1)}
  <2> DEFINE q == (PositionsOf(n) \ {old}) \cup {Closing(old, n + 1)}
  <2>1. ASSUME NEW j \in 1 .. n, j # i PROVE RowOf(j, n) # old
    BY <1>2, <2>1, RowFields
  <2>2. \A p : p \in q <=> \E j \in 1 .. n : Opens(j) /\ p = RowOf(j, n + 1)
    <3>1. \A p : p \in PositionsOf(n) <=> \E j \in 1 .. n : Opens(j) /\ p = RowOf(j, n)
      BY PositionsAre
    <3> QED  BY <1>2, <1>4, <1>5, <2>1, <3>1
  <2> HIDE DEF q
  <2>3. PositionsOf(n + 1) = q
    BY <1>3, <2>2, PositionsNext
  <2> QED  BY <2>3 DEF q
<1>7. Closing(old, n + 1).status = "closed" /\ old.status = "open"
  BY <1>4, <1>2, RowFields DEF OpenRow, Closing, RowOf
<1>8. ClosedOf(n + 1) = ClosedOf(n) \cup {Closing(old, n + 1)}
  BY <1>6, <1>7 DEF ClosedOf
<1>9. Closing(old, n + 1) \notin ClosedOf(n)
  <2> SUFFICES ASSUME Closing(old, n + 1) \in PositionsOf(n) PROVE FALSE
    BY DEF ClosedOf
  <2>1. Closing(old, n + 1).first = i /\ old.first = i
    BY <1>2, <1>4, RowFields
  <2>2. Closing(old, n + 1) = RowOf(i, n)
    BY <2>1, RowOpens
  <2> QED  BY <1>2, <1>7, <2>2
<1>10. Cardinality(ClosedOf(n + 1)) = Cardinality(ClosedOf(n)) + 1
  <2>1. IsFiniteSet(ClosedOf(n))
    BY PositionsFinite
  <2> QED  BY <1>8, <1>9, <2>1, FS_AddElement
<1> QED  BY <1>6, <1>10

-----------------------------------------------------------------------------
(* The steps of the live task over the table.                              *)

LEMMA RowOfOther ==
  ASSUME NEW n, NEW p \in PositionsOf(n), NEW q \in PositionsOf(n), p.first = q.first
  PROVE  p = q
BY RowOpens

LEMMA RowInserted ==
  ASSUME Types, Chained, NEW n \in Nat, n <= Len(trades), PlainHistory(n),
         NEW w \in Work, NEW s \in Seq(Row), NEW c, Written(w, s, c, n), w.pc = "insert",
         NEW v, v.pc = "count",
         NEW r, r = [dir |-> w.ep.dir, first |-> w.ep.first, status |-> "open", exit |-> 0],
         w.ep \in Episode,
         NEW s2, s2 = IF \E k \in DOMAIN s : Tx(s[k].first) = Tx(w.ep.first)
                      THEN s ELSE Append(s, r)
  PROVE  Written(v, s2, c, n)
<1> DEFINE first == w.ep.first
<1>1. /\ Opener(w.ep, n) /\ c = Cardinality(ClosedOf(n)) /\ first \in 1 .. n /\ Opens(first)
      /\ Holds(s, IF first = n THEN PositionsOf(n - 1) ELSE PositionsOf(n))
  BY DEF Written, Opener
<1> SUFFICES Holds(s2, PositionsOf(n))
  BY <1>1 DEF Written
<1>2. CASE first = n
  <2>1. n \in DOMAIN trades /\ n - 1 \in Nat /\ (n - 1) + 1 = n
    BY <1>1, <1>2 DEF Types
  <2>2. Holds(s, PositionsOf(n - 1))
    BY <1>1, <1>2
  <2>3. trades[n].start = 0
    BY <1>1, <1>2 DEF PlainHistory
  <2>4. PICK m \in Nat : m = n - 1
    BY <2>1
  <2>5. PositionsOf(n) = PositionsOf(m) \cup {RowOf(n, n)}
    <3>1. m + 1 = n
      BY <2>1, <2>4
    <3> QED  BY <1>1, <1>2, <2>1, <2>3, <3>1, PositionsOpened
  <2>6. r = RowOf(n, n)
    <3>1. ExitOf(n, n) = 0
      BY <1>1, <1>2, ExitNow
    <3>2. w.ep.dir = IF After(n) > 0 THEN "long" ELSE "short"
      BY <1>1, <1>2 DEF Opener, Episode, Direction
    <3> QED  BY <1>2, <3>1, <3>2 DEF RowOf
  <2>7. ASSUME NEW k \in DOMAIN s
        PROVE  s[k].first \in 1 .. m /\ Opens(s[k].first) /\ s[k] \in PositionsOf(m)
    <3>1. s[k] \in PositionsOf(m)
      BY <2>2, <2>4 DEF Holds, ToSet
    <3> QED  BY <3>1, RowOpens
  <2>8. ASSUME NEW k \in DOMAIN s PROVE Tx(s[k].first) # Tx(first) /\ s[k].first # n
    <3>1. s[k].first \in 1 .. n /\ s[k].first # n
      BY <2>4, <2>7
    <3> QED  BY <1>1, <1>2, <2>7, <3>1 DEF PlainHistory
  <2>9. s2 = Append(s, r)
    BY <2>8
  <2>10. r.first = n
    BY <1>2
  <2>11. /\ DOMAIN s = 1 .. Len(s) /\ Len(s) \in Nat /\ DOMAIN s2 = 1 .. (Len(s) + 1)
         /\ \A k \in 1 .. (Len(s) + 1) : s2[k] = IF k = Len(s) + 1 THEN r ELSE s[k]
    BY <2>9
  <2>12. ToSet(s2) = ToSet(s) \cup {r}
    BY <2>11 DEF ToSet
  <2>13. IsInjective(s2)
    <3> SUFFICES ASSUME NEW a \in DOMAIN s2, NEW b \in DOMAIN s2, s2[a] = s2[b] PROVE a = b
      BY DEF IsInjective
    <3>1. \A x, y \in DOMAIN s : s[x] = s[y] => x = y
      BY <2>2 DEF Holds, IsInjective
    <3>2. \A k \in DOMAIN s : s[k] # r
      BY <2>8, <2>10
    <3> QED  BY <2>11, <3>1, <3>2
  <2> QED  BY <2>2, <2>4, <2>5, <2>6, <2>12, <2>13 DEF Holds
<1>3. CASE first # n
  <2>1. Holds(s, PositionsOf(n))
    BY <1>1, <1>3
  <2>2. RowOf(first, n) \in PositionsOf(n) /\ RowOf(first, n).first = first
    BY <1>1, PositionsAre, RowFields
  <2>3. PICK k \in DOMAIN s : s[k] = RowOf(first, n)
    BY <2>1, <2>2 DEF Holds, ToSet
  <2>4. s2 = s
    BY <2>2, <2>3
  <2> QED  BY <2>1, <2>4
<1> QED  BY <1>2, <1>3

(* A fill that brings the position back to zero finds one open row, that   *)
(* of the position it closes.                                              *)
LEMMA RowToClose ==
  ASSUME Types, Chained, NEW n \in Nat, n <= Len(trades),
         NEW w \in Work, NEW s \in Seq(Row), NEW c, Written(w, s, c, n),
         w.pc \in {"select", "update"}
  PROVE  /\ n - 1 \in DOMAIN trades /\ After(n - 1) # 0
         /\ \E k \in DOMAIN s : s[k].status = "open" /\ OpenRow(s[k], n - 1)
         /\ \A k \in DOMAIN s : s[k].status = "open" => OpenRow(s[k], n - 1)
<1>1. n > 1 /\ After(n) = 0 /\ Holds(s, PositionsOf(n - 1))
  BY DEF Written
<1>2. n - 1 \in DOMAIN trades /\ n \in DOMAIN trades /\ n # 1
  BY <1>1 DEF Types
<1>3. After(n - 1) # 0
  <2>1. trades[n].start = After(n - 1)
    BY <1>2 DEF Chained
  <2> QED  BY <1>1, <1>2, <2>1, AfterTyped
<1>4. PICK m : m = n - 1
  OBVIOUS
<1>5. PICK i \in 1 .. m : OpenRow(RowOf(i, m), m)
  BY <1>2, <1>3, <1>4, OpenRowExists
<1>6. PICK old : old = RowOf(i, m) /\ OpenRow(old, m)
  BY <1>5
<1>7. ToSet(s) = PositionsOf(m)
  BY <1>1, <1>4 DEF Holds
<1>8. \E k \in DOMAIN s : s[k] = old
  BY <1>6, <1>7 DEF OpenRow, ToSet
<1>9. ASSUME NEW k \in DOMAIN s, s[k].status = "open" PROVE s[k] = old
  <2>1. s[k] \in PositionsOf(m)
    BY <1>7 DEF ToSet
  <2> QED  BY <1>6, <1>9, <2>1 DEF OpenRow
<1>10. old.status = "open"
  BY <1>6 DEF OpenRow
<1> QED  BY <1>2, <1>3, <1>4, <1>6, <1>8, <1>9, <1>10

LEMMA RowSelected ==
  ASSUME Types, Chained, NEW n \in Nat, n <= Len(trades),
         NEW w \in Work, NEW s \in Seq(Row), NEW c, Written(w, s, c, n), w.pc = "select",
         w.ep \in Episode
  PROVE  \E k \in DOMAIN s : s[k].status = "open" /\ s[k].dir = w.ep.dir
<1>1. PICK k \in DOMAIN s : s[k].status = "open" /\ OpenRow(s[k], n - 1)
  BY RowToClose
<1>2. s[k].dir = IF After(n - 1) > 0 THEN "long" ELSE "short"
  BY <1>1 DEF OpenRow
<1>3. w.ep.dir = "long" <=> After(n - 1) > 0
  BY DEF Written
<1>4. w.ep.dir \in {"long", "short"}
  BY DEF Episode, Direction
<1> QED  BY <1>1, <1>2, <1>3, <1>4

LEMMA RowUpdated ==
  ASSUME Types, Chained, NEW n \in Nat, n <= Len(trades),
         NEW w \in Work, NEW s \in Seq(Row), NEW c, Written(w, s, c, n), w.pc = "update",
         w.row \in DOMAIN s, NEW v, v.pc = "credit",
         NEW s2, s2 = [s EXCEPT ![w.row] = Closing(s[w.row], n)]
  PROVE  Written(v, s2, c, n)
<1> DEFINE old == s[w.row]
<1>1. /\ n > 1 /\ After(n) = 0 /\ Holds(s, PositionsOf(n - 1)) /\ old.status = "open"
      /\ c = Cardinality(ClosedOf(n - 1))
  BY DEF Written
<1>2. OpenRow(old, n - 1) /\ n - 1 \in DOMAIN trades /\ After(n - 1) # 0
  BY <1>1, RowToClose
<1>3. PICK m \in Nat : m = n - 1 /\ m + 1 = n /\ m > 0
  BY <1>1
<1>4. n \in DOMAIN trades
  BY <1>1 DEF Types
<1> DEFINE new == Closing(old, n)
<1>5. /\ PositionsOf(n) = (PositionsOf(m) \ {old}) \cup {new}
      /\ Cardinality(ClosedOf(n)) = Cardinality(ClosedOf(m)) + 1
  <2>1. m + 1 \in DOMAIN trades /\ After(m + 1) = 0 /\ OpenRow(old, m) /\ After(m) # 0
    BY <1>1, <1>2, <1>3, <1>4
  <2> HIDE DEF old
  <2>2. /\ PositionsOf(m + 1) = (PositionsOf(m) \ {old}) \cup {Closing(old, m + 1)}
        /\ Cardinality(ClosedOf(m + 1)) = Cardinality(ClosedOf(m)) + 1
    BY <1>3, <2>1, PositionsClosed
  <2> QED  BY <1>3, <2>2
<1>6. ToSet(s) = PositionsOf(m) /\ \A x, y \in DOMAIN s : s[x] = s[y] => x = y
  BY <1>1, <1>3 DEF Holds, IsInjective
<1>7. new.first = old.first /\ old \in PositionsOf(m)
  <2>1. old \in Row
    OBVIOUS
  <2> QED  BY <1>2, <1>3, <2>1, RowClosed DEF OpenRow
<1>8. DOMAIN s2 = DOMAIN s /\ \A k \in DOMAIN s : s2[k] = IF k = w.row THEN new ELSE s[k]
  OBVIOUS
<1>9. ASSUME NEW k \in DOMAIN s, k # w.row PROVE s[k] # new /\ s[k] # old /\ s[k] \in PositionsOf(m)
  <2>1. s[k] \in PositionsOf(m) /\ s[k] # old
    BY <1>6, <1>9 DEF ToSet
  <2>2. s[k].first # old.first
    BY <1>7, <2>1, RowOfOther
  <2> QED  BY <1>7, <2>1, <2>2
<1> HIDE DEF old, new
<1>10. ToSet(s2) = PositionsOf(n)
  <2>1. \A p \in PositionsOf(m) : p # old => \E k \in DOMAIN s : k # w.row /\ s[k] = p
    BY <1>6 DEF ToSet, old
  <2> QED  BY <1>5, <1>8, <1>9, <2>1 DEF ToSet
<1>11. IsInjective(s2)
  BY <1>6, <1>8, <1>9 DEF IsInjective
<1>12. c + 1 = Cardinality(ClosedOf(n))
  BY <1>1, <1>3, <1>5
<1> QED  BY <1>10, <1>11, <1>12 DEF Written, Holds

(* What the tracker makes of the trader's next fill, and the row or rows   *)
(* the live task has then to write.                                        *)
PlainResult(closed, ep, n) ==
  \/ /\ closed = None /\ ep \in Episode /\ Opener(ep, n + 1)
     /\ ep.first = n + 1 /\ ep.entries = 1
     /\ ClosedOf(n + 1) = ClosedOf(n)
  \/ /\ closed = None /\ ep \in Episode /\ Opener(ep, n + 1)
     /\ ep.first # n + 1
     /\ PositionsOf(n + 1) = PositionsOf(n) /\ ClosedOf(n + 1) = ClosedOf(n)
  \/ /\ closed # None /\ closed = open /\ ep = None
     /\ n > 0 /\ After(n + 1) = 0 /\ (open.dir = "long" <=> After(n) > 0)

LEMMA PlainFill ==
  ASSUME Types, Chained, NEW n \in Nat, n + 1 \in DOMAIN trades, PlainHistory(n + 1),
         Remembers(open, n), open # None => Opener(open, n)
  PROVE  LET result == process_fill(open, liveFill(n + 1), TRUE)
         IN  PlainResult(result.closed, result.open, n)
<1> DEFINE fill == liveFill(n + 1)
           prev == NetPosition(open)
           new == prev + fill.size
           result == process_fill(open, fill, TRUE)
<1>1. /\ fill \in Fill /\ fill.size \in Int \ {0} /\ fill.at = n + 1 /\ prev \in Int /\ new \in Int
      /\ prev # 0 => open \in Episode
  <2>1. fill \in Fill /\ fill.size = trades[n + 1].size /\ fill.at = n + 1
    BY FillsTyped DEF liveFill
  <2>2. fill.size \in Int \ {0}
    BY <2>1, AfterTyped
  <2>3. open \in Episode \cup {None}
    BY DEF Types
  <2>4. prev \in Int /\ (prev # 0 => open \in Episode)
    BY <2>3, NetTyped
  <2> QED  BY <2>1, <2>2, <2>4
<1>2. prev = trades[n + 1].start /\ new = After(n + 1) /\ (n > 0 => prev = After(n))
  <2>1. prev = IF n = 0 THEN 0 ELSE After(n)
    BY DEF Remembers, NetPosition
  <2>2. trades[n + 1].start = IF n = 0 THEN 0 ELSE After(n)
    BY DEF Chained
  <2>3. fill.size = trades[n + 1].size
    BY DEF liveFill
  <2>4. After(n + 1) = trades[n + 1].start + trades[n + 1].size
    BY DEF After
  <2> QED  BY <2>1, <2>2, <2>3, <2>4
<1>3. Opens(n + 1) => prev = 0
  <2>1. n + 1 \in 1 .. (n + 1)
    OBVIOUS
  <2> QED  BY <1>2, <2>1 DEF PlainHistory
<1>4. prev # 0 => n > 0 /\ open \in Episode /\ open # None /\ Opener(open, n)
  BY <1>1, NoneIsNone DEF Remembers, NetPosition
<1>10. MadeOf(open, fill, TRUE, prev, new, result)
  BY ProcessCases
<1> HIDE DEF result, prev, new
<1>8. /\ prev = 0 => result = [open |-> Fresh(fill, new, open # None), closed |-> None]
      /\ prev # 0 /\ Crosses(prev, new) =>
           result = [open |-> IF new # 0 THEN Fresh(fill, new, TRUE) ELSE None, closed |-> open]
      /\ prev # 0 /\ ~Crosses(prev, new) =>
           result \in {[open |-> Increased(open, Abs(new)), closed |-> None],
                       [open |-> Reduced(open, fill.size), closed |-> None]}
  BY <1>10 DEF MadeOf
<1> SUFFICES PlainResult(result.closed, result.open, n)
  BY DEF fill, result
<1> HIDE DEF fill
<1>5. CASE prev = 0
  <2>1. ~Crosses(prev, new) /\ new # 0
    <3>1. new = prev + fill.size
      BY DEF new
    <3> QED  BY <1>1, <1>5, <3>1 DEF Crosses
  <2>2. result = [open |-> Fresh(fill, new, open # None), closed |-> None]
    BY <1>5, <1>8
  <2>3. PICK ep \in Episode : ep = Fresh(fill, new, open # None)
    BY <1>1, FreshTyped
  <2>4. ep.dir = (IF new > 0 THEN "long" ELSE "short") /\ ep.first = n + 1 /\ ep.entries = 1
    BY <1>1, <2>3, FreshTyped
  <2>5. Opens(n + 1) /\ trades[n + 1].start = 0
    <3>1. Sign(prev) # Sign(new)
      BY <1>1, <1>5, <2>1 DEF Sign
    <3> QED  BY <1>2, <1>5, <2>1, <3>1 DEF Opens
  <2>6. Opener(ep, n + 1)
    <3>1. n + 1 \in 1 .. (n + 1)
      OBVIOUS
    <3> QED  BY <1>2, <2>4, <2>5, <3>1 DEF Opener
  <2>7. ClosedOf(n + 1) = ClosedOf(n)
    BY <2>5, PositionsOpened
  <2>8. result.closed = None /\ result.open = ep
    BY <2>2, <2>3
  <2> QED  BY <2>4, <2>6, <2>7, <2>8 DEF PlainResult
<1>6. CASE prev # 0 /\ Crosses(prev, new)
  <2>1. new = 0
    <3> SUFFICES ASSUME new # 0 PROVE FALSE
      OBVIOUS
    <3>1. Sign(prev) # Sign(new)
      BY <1>1, <1>6 DEF Crosses, Sign
    <3> QED  BY <1>2, <1>3, <1>6, <3>1 DEF Opens
  <2>3. result.open = None /\ result.closed = open
    BY <1>6, <1>8, <2>1
  <2>4. open.dir = "long" <=> After(n) > 0
    BY <1>4, <1>6 DEF Remembers
  <2> QED  BY <1>2, <1>4, <1>6, <2>1, <2>3, <2>4 DEF PlainResult
<1>7. CASE prev # 0 /\ ~Crosses(prev, new)
  <2>1. ~Opens(n + 1) /\ After(n + 1) # 0
    BY <1>1, <1>2, <1>3, <1>7 DEF Crosses
  <2>2. PositionsOf(n + 1) = PositionsOf(n) /\ ClosedOf(n + 1) = ClosedOf(n)
    BY <2>1, PositionsKept
  <2>3. Abs(new) \in Nat
    BY <1>1 DEF Abs
  <2>4. result.closed = None /\ result.open.first = open.first /\ result.open.dir = open.dir
    <3>1. /\ Increased(open, Abs(new)).first = open.first
          /\ Increased(open, Abs(new)).dir = open.dir
          /\ Reduced(open, fill.size).first = open.first
          /\ Reduced(open, fill.size).dir = open.dir
      BY <1>1, <1>4, <1>7, <2>3, ChangedTyped
    <3> QED  BY <1>7, <1>8, <3>1
  <2>5. result.open \in Episode
    <3>1. open \in Episode \cup {None}
      BY DEF Types
    <3> QED  BY <1>1, <2>4, <3>1, ProcessTyped DEF result
  <2>6. Opener(open, n) /\ open.first # n + 1 /\ open.first \in 1 .. (n + 1)
    BY <1>4, <1>7 DEF Opener
  <2>7. PICK ep \in Episode : ep = result.open
    BY <2>5
  <2>8. Opener(ep, n + 1) /\ ep.first # n + 1
    BY <2>4, <2>6, <2>7 DEF Opener
  <2> QED  BY <2>2, <2>4, <2>7, <2>8 DEF PlainResult
<1> QED  BY <1>5, <1>6, <1>7

(* Where the tracker leaves the live task, and that this is what remains   *)
(* to be written.                                                          *)
LEMMA FillWritten ==
  ASSUME Types, Chained, NEW n \in Nat, n + 1 \in DOMAIN trades, PlainHistory(n + 1),
         Remembers(open, n), open # None => Opener(open, n),
         NEW w \in Work, w.fill = liveFill(n + 1), w.pc = "marked",
         NEW s, NEW c, Written(w, s, c, n),
         NEW closed, NEW ep, PlainResult(closed, ep, n),
         NEW back, back.pc = "idle",
         NEW v, v = CASE closed # None -> WithEpisode(w, "select", closed)
                      [] closed = None /\ ep.entries = 1 -> WithEpisode(w, "insert", ep)
                      [] OTHER -> back
  PROVE  Written(v, s, c, n + 1) /\ (ep # None => Opener(ep, n + 1))
<1>1. Holds(s, PositionsOf(n)) /\ c = Cardinality(ClosedOf(n))
  BY DEF Written
<1>2. back.pc = "idle"
  OBVIOUS
<1>3. "select" \in Stage /\ "insert" \in Stage /\ (n + 1) - 1 = n
  BY DEF Stage
<1>4. w.fill.at = n + 1
  BY DEF liveFill
<1>5. CASE closed = None /\ ep \in Episode /\ Opener(ep, n + 1) /\ ep.first = n + 1
           /\ ep.entries = 1 /\ ClosedOf(n + 1) = ClosedOf(n)
  <2>1. v = WithEpisode(w, "insert", ep)
    BY <1>5
  <2>2. v.pc = "insert" /\ v.ep = ep
    BY <1>3, <1>5, <2>1, EpisodeTyped
  <2> QED  BY <1>1, <1>3, <1>5, <2>2 DEF Written
<1>6. CASE closed = None /\ ep \in Episode /\ Opener(ep, n + 1) /\ ep.first # n + 1
           /\ PositionsOf(n + 1) = PositionsOf(n) /\ ClosedOf(n + 1) = ClosedOf(n)
  <2>1. CASE ep.entries = 1
    <3>1. v = WithEpisode(w, "insert", ep)
      BY <1>6, <2>1
    <3>2. v.pc = "insert" /\ v.ep = ep
      BY <1>3, <1>6, <3>1, EpisodeTyped
    <3> QED  BY <1>1, <1>6, <3>2 DEF Written
  <2>2. CASE ep.entries # 1
    <3>1. v.pc = "idle"
      BY <1>2, <1>6, <2>2
    <3> QED  BY <1>1, <1>6, <3>1 DEF Written
  <2> QED  BY <2>1, <2>2
<1>7. CASE closed # None /\ closed = open /\ ep = None
           /\ n > 0 /\ After(n + 1) = 0 /\ (open.dir = "long" <=> After(n) > 0)
  <2>1. v = WithEpisode(w, "select", closed)
    BY <1>7
  <2>2. closed \in Episode \cup {None}
    BY <1>7 DEF Types
  <2>3. v.pc = "select" /\ v.ep = closed /\ v.fill = w.fill
    BY <1>3, <2>1, <2>2, EpisodeTyped
  <2> QED  BY <1>1, <1>3, <1>4, <1>7, <2>3 DEF Written
<1>8. \/ /\ closed = None /\ ep \in Episode /\ Opener(ep, n + 1)
         /\ ep.first = n + 1 /\ ep.entries = 1
         /\ ClosedOf(n + 1) = ClosedOf(n)
      \/ /\ closed = None /\ ep \in Episode /\ Opener(ep, n + 1)
         /\ ep.first # n + 1
         /\ PositionsOf(n + 1) = PositionsOf(n) /\ ClosedOf(n + 1) = ClosedOf(n)
      \/ /\ closed # None /\ closed = open /\ ep = None
         /\ n > 0 /\ After(n + 1) = 0 /\ (open.dir = "long" <=> After(n) > 0)
  BY DEF PlainResult
<1> QED  BY <1>5, <1>6, <1>7, <1>8

-----------------------------------------------------------------------------
(* What the exchange does next leaves the positions of the past alone.     *)
LEMMA SamePositions ==
  ASSUME Types, NEW n \in Nat, n <= Len(trades), Len(trades) <= Len(trades'),
         \A i \in DOMAIN trades : trades'[i] = trades[i]
  PROVE  /\ PlainHistory(n)' => PlainHistory(n)
         /\ PositionsOf(n)' = PositionsOf(n) /\ ClosedOf(n)' = ClosedOf(n)
         /\ \A i \in 1 .. n : After(i)' = After(i) /\ (Opens(i)' <=> Opens(i))
<1>1. DOMAIN trades = 1 .. Len(trades) /\ Len(trades) \in Nat
  BY DEF Types
<1>2. \A i \in 1 .. n : trades'[i] = trades[i]
  BY <1>1
<1>3. \A i \in 1 .. n : After(i)' = After(i)
  BY <1>2 DEF After
<1>4. \A i \in 1 .. n : /\ Opens(i)' <=> Opens(i)
                        /\ Reduces(i)' <=> Reduces(i)
                        /\ Increases(i)' <=> Increases(i)
                        /\ Tx(i)' = Tx(i)
  BY <1>2, <1>3 DEF Opens, Reduces, Increases, Tx
<1>5. PlainHistory(n)' => PlainHistory(n)
  <2>1. \A i, j \in 1 .. n : \A k \in i .. j : k \in 1 .. n
    OBVIOUS
  <2> QED  BY <1>2, <1>3, <1>4, <2>1 DEF PlainHistory
<1>6. ASSUME NEW i \in 1 .. n PROVE ExitOf(i, n)' = ExitOf(i, n)
  <2>1. \A j \in i .. n : Sign(After(j))' = Sign(After(j)) /\ Sign(After(i))' = Sign(After(i))
    BY <1>3 DEF Sign
  <2>2. Ends(i, n)' = Ends(i, n)
    BY <2>1 DEF Ends
  <2> QED  BY <2>2 DEF ExitOf, Ends
<1>7. \A i \in 1 .. n : RowOf(i, n)' = RowOf(i, n)
  BY <1>3, <1>6 DEF RowOf
<1>8. PositionsOf(n)' = PositionsOf(n)
  <2>1. PositionsOf(n) = {RowOf(i, n) : i \in {j \in 1 .. n : Opens(j)}}
    BY PositionsAre
  <2>2. (PositionsOf(n) = {RowOf(i, n) : i \in {j \in 1 .. n : Opens(j)}})'
    BY PositionsAre, PTL
  <2>3. PositionsOf(n)' = {RowOf(i, n)' : i \in {j \in 1 .. n : Opens(j)'}}
    BY <2>2
  <2> QED  BY <1>4, <1>7, <2>1, <2>3
<1> QED  BY <1>3, <1>4, <1>5, <1>8 DEF ClosedOf

LEMMA PlainIsNeverRebuilt ==
  ASSUME Types, NEW n \in Nat, n <= Len(trades), PlainHistory(n)
  PROVE  NeverRebuilt(n)
<1> SUFFICES ASSUME NEW i \in 1 .. n, NEW j \in 1 .. n, i < j, Reduces(i), Increases(j)
             PROVE  \E k \in i .. j : Sign(After(k)) # Sign(After(i))
  BY DEF NeverRebuilt
<1>1. PICK k \in i .. j : After(k) = 0
  BY DEF PlainHistory
<1>2. After(i) # 0 /\ i \in DOMAIN trades
  BY DEF Reduces, Types
<1>3. After(i) \in Int
  BY <1>2, AfterTyped
<1> QED  BY <1>1, <1>2, <1>3 DEF Sign

(* The table after a step that leaves the exchange's past alone.           *)
LEMMA TableLater ==
  ASSUME Types, NEW n \in Nat, n <= Len(trades), Len(trades) <= Len(trades'),
         \A i \in DOMAIN trades : trades'[i] = trades[i],
         \A r \in Reconcilers : task'[r].pc \in {"idle", "marked"},
         NEW ep, open' = ep, ep # None => Opener(ep, n),
         NEW w, task'["live"] = w, NEW s, signals' = s, NEW c, credited' = c,
         Written(w, s, c, n)
  PROVE  TableAt(n)'
<1>1. /\ PositionsOf(n)' = PositionsOf(n) /\ ClosedOf(n)' = ClosedOf(n)
      /\ \A i \in 1 .. n : After(i)' = After(i) /\ (Opens(i)' <=> Opens(i))
  BY SamePositions
<1>2. ASSUME n > 0
      PROVE  /\ n \in 1 .. n /\ (n > 1 => n - 1 \in 1 .. n)
             /\ PositionsOf(n - 1)' = PositionsOf(n - 1) /\ ClosedOf(n - 1)' = ClosedOf(n - 1)
  <2>1. PICK m \in Nat : m = n - 1 /\ m <= Len(trades)
    BY <1>2 DEF Types
  <2>2. PositionsOf(m)' = PositionsOf(m) /\ ClosedOf(m)' = ClosedOf(m)
    BY <2>1, SamePositions
  <2>3. PositionsOf(n - 1)' = PositionsOf(n - 1) /\ ClosedOf(n - 1)' = ClosedOf(n - 1)
    BY <2>1, <2>2 DEF PositionsOf, ClosedOf
  <2> QED  BY <1>2, <2>3
<1>3. ASSUME NEW e, Opener(e, n) PROVE Opener(e, n)'
  BY <1>1, <1>3 DEF Opener
<1>4. Written(w, s, c, n)'
  <2>1. w.pc \in {"idle", "marked", "count", "credit"} => Written(w, s, c, n)'
    BY <1>1 DEF Written
  <2>2. w.pc = "insert" => Written(w, s, c, n)'
    <3> SUFFICES ASSUME w.pc = "insert" PROVE Written(w, s, c, n)'
      OBVIOUS
    <3>1. Opener(w.ep, n) /\ Opener(w.ep, n)' /\ n > 0
      BY <1>3 DEF Written, Opener
    <3> QED  BY <1>1, <1>2, <3>1 DEF Written
  <2>3. w.pc \in {"select", "update"} => Written(w, s, c, n)'
    BY <1>1, <1>2 DEF Written
  <2>4. w.pc \notin {"idle", "marked", "count", "credit", "insert", "select", "update"}
          => Written(w, s, c, n)'
    BY DEF Written
  <2> QED  BY <2>1, <2>2, <2>3, <2>4
<1> QED  BY <1>3, <1>4 DEF TableAt, Opener, Written

LEMMA TableGuard ==
  ASSUME Types, Types', TableInv, UNCHANGED <<booked, restarts>>,
         Len(trades) <= Len(trades'), \A i \in DOMAIN trades : trades'[i] = trades[i],
         failures' = 0 => failures = 0,
         NEW n \in Nat, n = Len(booked), LiveInOrder', failures' = 0, PlainHistory(n)'
  PROVE  n <= Len(trades) /\ TableAt(n)
<1>1. DOMAIN trades = 1 .. Len(trades) /\ Len(trades) \in Nat /\ DOMAIN booked = 1 .. n
      /\ n = Len(booked')
  BY DEF Types
<1>2. restarts = 0 /\ LiveFirst(n)' /\ \A k \in 1 .. n : booked[k].fill.at = k
  <2>1. (/\ LiveInOrder <=> /\ restarts = 0 /\ Len(booked) <= Len(trades)
                            /\ LiveFirst(Len(booked))
         /\ LiveFirst(Len(booked)) => \A k \in 1 .. Len(booked) : booked[k].fill.at = k)'
    BY LiveMeans, PTL
  <2> QED  BY <1>1, <2>1
<1>3. n <= Len(trades)
  <2>1. CASE n = 0
    BY <1>1, <2>1
  <2>2. CASE n > 0
    <3>1. n \in DOMAIN booked
      BY <1>1, <2>2
    <3>2. booked[n].fill.at \in DOMAIN trades
      BY <3>1 DEF Types, Known
    <3> QED  BY <1>1, <1>2, <3>1, <3>2
  <2> QED  BY <2>1, <2>2
<1>4. PlainHistory(n)
  BY <1>3, SamePositions
<1>5. \A k \in 1 .. n : liveFill(k)' = liveFill(k)
  BY <1>3, SamePast
<1>6. LiveInOrder
  <2>1. LiveFirst(n)
    BY <1>2, <1>5 DEF LiveFirst, LiveBooking
  <2> QED  BY <1>2, <1>3, <2>1, LiveMeans
<1> QED  BY <1>3, <1>4, <1>6 DEF TableInv

(* A step that touches neither tracker nor table.                          *)
LEMMA TableAlone ==
  ASSUME Types, Types', TableInv, UNCHANGED <<open, booked, signals, credited, restarts>>,
         Len(trades) <= Len(trades'), \A i \in DOMAIN trades : trades'[i] = trades[i],
         failures' = 0 => failures = 0,
         \A r \in Reconcilers : task[r].pc \in {"idle", "marked"}
                                  => task'[r].pc \in {"idle", "marked"},
         \/ task'["live"] = task["live"]
         \/ task["live"].pc \in {"idle", "marked", "count"}
            /\ task'["live"].pc \in {"idle", "marked", "count"}
  PROVE  TableInv'
<1>1. PICK n \in Nat : n = Len(booked) /\ n = Len(booked')
  BY DEF Types
<1> SUFFICES ASSUME LiveInOrder', failures' = 0, PlainHistory(n)' PROVE TableAt(n)'
  BY <1>1 DEF TableInv
<1>2. n <= Len(trades) /\ TableAt(n)
  BY <1>1, TableGuard
<1>3. PICK w : task'["live"] = w
  OBVIOUS
<1>4. Written(w, signals, credited, n)
  <2>1. Written(task["live"], signals, credited, n)
    BY <1>2 DEF TableAt
  <2>2. CASE w = task["live"]
    BY <2>1, <2>2
  <2>3. CASE task["live"].pc \in {"idle", "marked", "count"} /\ w.pc \in {"idle", "marked", "count"}
    BY <2>1, <2>3 DEF Written
  <2> QED  BY <1>3, <2>2, <2>3
<1>5. /\ open # None => Opener(open, n)
      /\ \A r \in Reconcilers : task'[r].pc \in {"idle", "marked"}
  BY <1>2 DEF TableAt
<1> QED  BY <1>2, <1>3, <1>4, <1>5, TableLater

LEMMA TableProcess ==
  ASSUME Types, Types', Chained, TrackerInv, TableInv,
         NEW t \in Tasks, NEW exact \in BOOLEAN, Process(t, exact)
  PROVE  TableInv'
<1> DEFINE b == [task |-> t, fill |-> task[t].fill, exact |-> exact]
<1>1. /\ booked' = Append(booked, b) /\ task[t].pc = "marked"
      /\ UNCHANGED <<trades, signals, credited, restarts, failures>>
      /\ b \in Booking
  BY DEF Process, stream, faults, tables, Types, TaskTypes, Booking
<1>2. b.task = t /\ b.fill = task[t].fill /\ b.exact = exact
  OBVIOUS
<1> HIDE DEF b
<1>3. PICK n \in Nat : n = Len(booked)
  BY DEF Types
<1>4. /\ Len(booked') = n + 1 /\ booked'[n + 1] = b
      /\ \A k \in 1 .. n : booked'[k] = booked[k]
  <2>1. booked \in Seq(Booking)
    BY DEF Types
  <2> QED  BY <1>1, <1>3, <2>1
<1> SUFFICES ASSUME LiveInOrder', failures' = 0, PlainHistory(n + 1)' PROVE TableAt(n + 1)'
  BY <1>4 DEF TableInv
<1>5. restarts = 0 /\ failures = 0 /\ n + 1 <= Len(trades) /\ LiveFirst(n + 1)'
  <2>1. (LiveInOrder <=> restarts = 0 /\ Len(booked) <= Len(trades)
                         /\ LiveFirst(Len(booked)))'
    BY LiveMeans, PTL
  <2> QED  BY <1>1, <1>4, <2>1
<1>6. \A k \in 1 .. (n + 1) : booked'[k] = LiveBooking(k)
  BY <1>1, <1>5 DEF LiveFirst, LiveBooking, liveFill
<1>7. t = "live" /\ task["live"].fill = liveFill(n + 1) /\ exact = TRUE
  <2>1. n + 1 \in 1 .. (n + 1)
    OBVIOUS
  <2>2. b = [task |-> "live", fill |-> liveFill(n + 1), exact |-> TRUE]
    BY <1>4, <1>6, <2>1 DEF LiveBooking
  <2> QED  BY <1>2, <2>2
<1>8. LiveInOrder
  <2>1. LiveFirst(n)
    <3>1. \A k \in 1 .. n : k \in 1 .. (n + 1)
      OBVIOUS
    <3> QED  BY <1>4, <1>6, <3>1 DEF LiveFirst
  <2>2. n <= Len(trades)
    BY <1>5 DEF Types
  <2> QED  BY <1>3, <1>5, <2>1, <2>2, LiveMeans
<1>9. PlainHistory(n + 1) /\ PlainHistory(n)
  <2>1. PlainHistory(n + 1)
    BY <1>1 DEF PlainHistory, After, Opens, Reduces, Increases, Tx
  <2>2. \A i \in 1 .. n : i \in 1 .. (n + 1)
    OBVIOUS
  <2> QED  BY <2>1, <2>2 DEF PlainHistory
<1>10. n + 1 \in DOMAIN trades /\ n <= Len(trades)
  BY <1>5 DEF Types
<1>11. Remembers(open, n)
  <2>1. NeverRebuilt(n)
    BY <1>9, <1>10, PlainIsNeverRebuilt
  <2> QED  BY <1>3, <1>8, <2>1 DEF TrackerInv
<1>12. TableAt(n)
  BY <1>3, <1>5, <1>8, <1>9 DEF TableInv
<1>13. PICK w \in Work : w = task["live"] /\ w.pc = "marked" /\ w.fill = liveFill(n + 1)
  BY <1>1, <1>7 DEF Types
<1>14. PICK closed : closed = process_fill(open, liveFill(n + 1), TRUE).closed
  OBVIOUS
<1>15. PICK ep : ep = process_fill(open, liveFill(n + 1), TRUE).open
  OBVIOUS
<1>24. PlainResult(closed, ep, n)
  <2>1. open # None => Opener(open, n)
    BY <1>12 DEF TableAt
  <2> QED  BY <1>9, <1>10, <1>11, <1>14, <1>15, <2>1, PlainFill
<1>16. PICK back : back = Returned("live") /\ back.pc = "idle"
  <2>1. Returned("live").pc = "idle"
    BY DEF Returned, Idle
  <2> QED  BY <2>1
<1>17. PICK v : v = CASE closed # None -> WithEpisode(w, "select", closed)
                      [] closed = None /\ ep.entries = 1 -> WithEpisode(w, "insert", ep)
                      [] OTHER -> back
  OBVIOUS
<1>18. open' = ep /\ task' = [task EXCEPT !["live"] = v]
  <2>1. LET result == process_fill(open, task[t].fill, exact)
        IN  /\ open' = result.open
            /\ task' = [task EXCEPT ![t] =
                          CASE result.closed # None ->
                                 WithEpisode(task[t], "select", result.closed)
                            [] result.closed = None /\ result.open.entries = 1 ->
                                 WithEpisode(task[t], "insert", result.open)
                            [] OTHER -> Returned(t)]
    BY DEF Process, WithEpisode
  <2> QED  BY <1>7, <1>13, <1>14, <1>15, <1>16, <1>17, <2>1
<1>19. /\ Written(w, signals, credited, n)
       /\ open # None => Opener(open, n)
  BY <1>12, <1>13 DEF TableAt
<1>20. Written(v, signals, credited, n + 1) /\ (ep # None => Opener(ep, n + 1))
  BY <1>9, <1>10, <1>11, <1>13, <1>16, <1>17, <1>19, <1>24, FillWritten
<1>21. /\ task'["live"] = v
       /\ \A r \in Reconcilers : task'[r].pc \in {"idle", "marked"}
  BY <1>12, <1>18, Constants DEF TableAt, Types
<1>22. n + 1 \in Nat /\ n + 1 <= Len(trades) /\ Len(trades) <= Len(trades')
       /\ \A i \in DOMAIN trades : trades'[i] = trades[i]
  BY <1>1, <1>5 DEF Types
<1>23. signals' = signals /\ credited' = credited
  BY <1>1
<1> QED  BY <1>18, <1>20, <1>21, <1>22, <1>23, TableLater

LEMMA TableWrites ==
  ASSUME Types, Types', Chained, TableInv,
         InsertSignal("live") \/ SelectSignal("live") \/ UpdateSignal("live")
         \/ update_trader_performance("live")
  PROVE  TableInv'
<1> DEFINE w == task["live"]
<1>1. w \in Work /\ "live" \in Tasks
  BY Constants DEF Types
<1>2. UNCHANGED <<trades, open, booked, restarts, failures>>
  BY DEF InsertSignal, SelectSignal, UpdateSignal, update_trader_performance,
       stream, tracker, faults
<1>3. PICK n \in Nat : n = Len(booked) /\ n = Len(booked')
  <2>1. Len(booked) \in Nat
    BY DEF Types
  <2> QED  BY <1>2, <2>1
<1> SUFFICES ASSUME LiveInOrder', failures' = 0, PlainHistory(n)' PROVE TableAt(n)'
  BY <1>3 DEF TableInv
<1>4. Len(trades) <= Len(trades') /\ \A i \in DOMAIN trades : trades'[i] = trades[i]
  BY <1>2 DEF Types
<1>5. n <= Len(trades) /\ TableAt(n)
  BY <1>2, <1>3, <1>4, TableGuard
<1>6. PlainHistory(n)
  BY <1>4, <1>5, SamePositions
<1>7. /\ Written(w, signals, credited, n) /\ (open # None => Opener(open, n))
      /\ \A r \in Reconcilers : task[r].pc \in {"idle", "marked"}
  BY <1>5 DEF TableAt
<1>8. ASSUME NEW v, task' = [task EXCEPT !["live"] = v], Written(v, signals', credited', n)
      PROVE  TableAt(n)'
  <2>1. /\ task'["live"] = v
        /\ \A r \in Reconcilers : task'[r].pc \in {"idle", "marked"}
    BY <1>7, <1>8, Constants DEF Types
  <2>2. PICK s : signals' = s
    OBVIOUS
  <2>3. PICK c : credited' = c
    OBVIOUS
  <2>4. Written(v, s, c, n)
    BY <1>8, <2>2, <2>3
  <2>5. PICK ep : ep = open /\ open' = ep
    BY <1>2
  <2>6. ep # None => Opener(ep, n)
    BY <1>7, <2>5
  <2> QED  BY <1>4, <1>5, <2>1, <2>2, <2>3, <2>4, <2>5, <2>6, TableLater
<1>9. PICK s \in Seq(Row) : s = signals
  BY DEF Types
<1>10. PICK c \in Nat : c = credited
  BY DEF Types
<1>11. Written(w, s, c, n)
  BY <1>7, <1>9, <1>10
<1>12. CASE InsertSignal("live")
  <2> DEFINE r == [dir |-> w.ep.dir, first |-> w.ep.first, status |-> "open", exit |-> 0]
  <2>1. /\ w.pc = "insert" /\ task' = [task EXCEPT !["live"] = [w EXCEPT !.pc = "count"]]
        /\ signals' = IF \E k \in DOMAIN s : Tx(s[k].first) = Tx(w.ep.first)
                      THEN s ELSE Append(s, r)
        /\ credited' = c
    BY <1>9, <1>10, <1>12 DEF InsertSignal
  <2>2. PICK v : v = [w EXCEPT !.pc = "count"] /\ v.pc = "count"
    <3>1. "count" \in Stage
      BY DEF Stage
    <3> QED  BY <1>1, <3>1, StageTyped
  <2>3. w.ep \in Episode
    BY <1>1, <2>1 DEF Types, TaskTypes
  <2>4. PICK row : row = r
    OBVIOUS
  <2>5. PICK s2 : s2 = IF \E k \in DOMAIN s : Tx(s[k].first) = Tx(w.ep.first)
                       THEN s ELSE Append(s, row)
    OBVIOUS
  <2> HIDE DEF w
  <2>6. Written(v, s2, c, n)
    BY <1>1, <1>5, <1>6, <1>11, <2>1, <2>2, <2>3, <2>4, <2>5, RowInserted
  <2>7. signals' = s2
    BY <2>1, <2>4, <2>5
  <2> QED  BY <1>8, <2>1, <2>2, <2>6, <2>7
<1>13. CASE SelectSignal("live")
  <2> DEFINE rows == {k \in DOMAIN s : s[k].status = "open" /\ s[k].dir = w.ep.dir}
             newest == CHOOSE k \in rows : \A m \in rows : s[m].first <= s[k].first
  <2>1. /\ w.pc = "select"
        /\ task' = [task EXCEPT !["live"] = IF rows = {} THEN Returned("live")
                                            ELSE WithRow(w, "update", newest)]
        /\ signals' = s /\ credited' = c
    BY <1>9, <1>10, <1>13 DEF SelectSignal, tables, WithRow
  <2>2. w.ep \in Episode
    BY <1>1, <2>1 DEF Types, TaskTypes
  <2>3. rows # {}
    <3> HIDE DEF w
    <3>1. \E k \in DOMAIN s : s[k].status = "open" /\ s[k].dir = w.ep.dir
      BY <1>1, <1>5, <1>11, <2>1, <2>2, RowSelected
    <3> QED  BY <3>1
  <2>4. newest \in rows
    <3>1. rows \in SUBSET DOMAIN signals
      BY <1>9
    <3> HIDE DEF rows
    <3>2. \E k \in rows : \A m \in rows : s[m].first <= s[k].first
      BY <1>9, <2>3, <3>1, NewestRow
    <3> QED  BY <3>2
  <2>5. PICK k \in DOMAIN s : k = newest /\ s[k].status = "open" /\ k \in Nat
    BY <2>4
  <2>6. PICK v : v = WithRow(w, "update", k)
    OBVIOUS
  <2>7. v.pc = "update" /\ v.row = k /\ v.fill = w.fill /\ v.ep = w.ep
    <3>1. "update" \in Stage
      BY DEF Stage
    <3>2. k \in Nat /\ v = WithRow(w, "update", k)
      BY <2>5, <2>6
    <3> HIDE DEF w, rows, newest
    <3> QED  BY <1>1, <3>1, <3>2, RowTyped
  <2>8. Written(v, s, c, n)
    BY <1>11, <2>1, <2>5, <2>7 DEF Written
  <2>9. task' = [task EXCEPT !["live"] = v]
    BY <2>1, <2>3, <2>5, <2>6
  <2> HIDE DEF w, rows, newest
  <2> QED  BY <1>8, <2>1, <2>8, <2>9
<1>14. CASE UpdateSignal("live")
  <2>1. /\ w.pc = "update" /\ task' = [task EXCEPT !["live"] = [w EXCEPT !.pc = "credit"]]
        /\ signals' = [s EXCEPT ![w.row] = Closing(s[w.row], w.fill.at)]
        /\ credited' = c
    BY <1>9, <1>10, <1>14 DEF UpdateSignal, Closing
  <2>2. PICK v : v = [w EXCEPT !.pc = "credit"] /\ v.pc = "credit"
    <3>1. "credit" \in Stage
      BY DEF Stage
    <3> QED  BY <1>1, <3>1, StageTyped
  <2>3. w.row \in DOMAIN s
    BY <1>1, <1>9, <2>1 DEF Types, TaskTypes
  <2>4. w.fill.at = n
    BY <1>11, <2>1 DEF Written
  <2>5. PICK s2 : s2 = [s EXCEPT ![w.row] = Closing(s[w.row], n)]
    OBVIOUS
  <2> HIDE DEF w
  <2>6. Written(v, s2, c, n)
    BY <1>1, <1>5, <1>11, <2>1, <2>2, <2>3, <2>5, RowUpdated
  <2>7. signals' = s2
    BY <2>1, <2>4, <2>5
  <2> QED  BY <1>8, <2>1, <2>2, <2>6, <2>7
<1>15. CASE update_trader_performance("live")
  <2>1. /\ w.pc = "credit" /\ task' = [task EXCEPT !["live"] = Returned("live")]
        /\ signals' = s /\ credited' = c + 1
    BY <1>9, <1>10, <1>15 DEF update_trader_performance
  <2>2. PICK v : v = Returned("live") /\ v.pc = "idle"
    <3>1. Returned("live").pc = "idle"
      BY DEF Returned, Idle
    <3> QED  BY <3>1
  <2>3. Written(v, s, c + 1, n)
    BY <1>11, <2>1, <2>2 DEF Written
  <2> QED  BY <1>8, <2>1, <2>2, <2>3
<1> QED  BY <1>12, <1>13, <1>14, <1>15

LEMMA TableKept ==
  ASSUME Types, Types', Chained, TrackerInv, TableInv, [Next]_vars
  PROVE  TableInv'
<1>1. Len(trades) \in Nat /\ failures \in Nat /\ restarts \in Nat
  BY DEF Types
<1>2. CASE Exchange
  <2>1. /\ UNCHANGED <<task, open, booked, signals, credited, restarts>>
        /\ \E trade : trades' = Append(trades, trade)
        /\ failures' \in {failures, failures + 1}
    BY <1>2 DEF Exchange, onUserEvents, tracker, tables
  <2>2. Len(trades) <= Len(trades') /\ \A i \in DOMAIN trades : trades'[i] = trades[i]
    <3>1. trades \in Seq(Trade)
      BY DEF Types
    <3> QED  BY <2>1, <3>1
  <2>3. failures' = 0 => failures = 0
    BY <1>1, <2>1
  <2> QED  BY <2>1, <2>2, <2>3, TableAlone
<1>3. CASE UNCHANGED vars \/ (\E sent \in BOOLEAN : Publish(sent)) \/ SecondSource
           \/ (\E r \in Reconcilers : Reconcile(r)) \/ Start \/ Subscribe
  <2>1. /\ UNCHANGED <<trades, task, open, booked, signals, credited, restarts>>
        /\ failures' \in {failures, failures + 1}
    BY <1>3, SecondStep DEF vars, stream, tracker, tables, faults, Publish, Reconcile, Start,
         Subscribe
  <2>2. Len(trades) <= Len(trades') /\ (failures' = 0 => failures = 0)
    BY <1>1, <2>1
  <2> QED  BY <2>1, <2>2, TableAlone
<1>4. CASE Crash
  <2>1. restarts' # 0
    BY <1>1, <1>4 DEF Crash
  <2> QED  BY <2>1 DEF TableInv, LiveInOrder
<1>5. ASSUME NEW t \in Tasks, DatabaseFails(t) PROVE TableInv'
  <2>1. failures' # 0
    BY <1>1, <1>5 DEF DatabaseFails
  <2> QED  BY <2>1 DEF TableInv
<1>6. ASSUME NEW t \in Tasks, Mark(t) \/ CountOpened(t) \/ MarkRow(t) \/ InsertSignal(t)
             \/ SelectSignal(t) \/ UpdateSignal(t) \/ update_trader_performance(t)
      PROVE  TableInv'
  <2>1. CASE Mark(t)
    <3>1. /\ UNCHANGED <<trades, open, booked, signals, credited, restarts, failures>>
          /\ task[t].pc = "idle"
          /\ task' = [task EXCEPT ![t] = WithFill(task[t], "marked", Head(queue[t]))]
          /\ queue[t] # <<>>
      BY <2>1 DEF Mark, WithFill, stream, tracker, tables, faults
    <3>2. WithFill(task[t], "marked", Head(queue[t])).pc = "marked"
      <4>1. "marked" \in Stage /\ task[t] \in Work /\ Head(queue[t]) \in Fill
        BY <3>1, TailKnown DEF Stage, Types
      <4> QED  BY <4>1, FillTyped
    <3>3. PICK w : task' = [task EXCEPT ![t] = w] /\ w.pc = "marked"
      BY <3>1, <3>2
    <3>4. \A u \in Tasks : task'[u] = IF u = t THEN w ELSE task[u]
      BY <3>3 DEF Types
    <3>5. /\ \A r \in Reconcilers : task[r].pc \in {"idle", "marked"}
                                       => task'[r].pc \in {"idle", "marked"}
          /\ \/ task'["live"] = task["live"]
             \/ task["live"].pc \in {"idle", "marked", "count"}
                /\ task'["live"].pc \in {"idle", "marked", "count"}
      BY <3>1, <3>3, <3>4, Constants
    <3>6. Len(trades) <= Len(trades')
      BY <1>1, <3>1
    <3> QED  BY <3>1, <3>5, <3>6, TableAlone
  <2>2. CASE t = "live" /\ CountOpened(t)
    <3>1. /\ UNCHANGED <<trades, open, booked, signals, credited, restarts, failures>>
          /\ task[t].pc = "count" /\ task' = [task EXCEPT ![t] = Returned(t)]
      BY <2>2 DEF CountOpened, stream, tracker, faults
    <3>2. Returned(t).pc = "idle"
      BY <2>2 DEF Returned, Idle
    <3>3. \A u \in Tasks : task'[u] = IF u = t THEN Returned(t) ELSE task[u]
      BY <3>1 DEF Types
    <3>4. /\ \A r \in Reconcilers : task[r].pc \in {"idle", "marked"}
                                       => task'[r].pc \in {"idle", "marked"}
          /\ task["live"].pc \in {"idle", "marked", "count"}
          /\ task'["live"].pc \in {"idle", "marked", "count"}
      BY <2>2, <3>1, <3>2, <3>3, Constants
    <3>5. Len(trades) <= Len(trades')
      BY <1>1, <3>1
    <3> QED  BY <3>1, <3>4, <3>5, TableAlone
  <2>3. CASE t = "live" /\ (InsertSignal(t) \/ SelectSignal(t) \/ UpdateSignal(t)
                            \/ update_trader_performance(t))
    BY <2>3, TableWrites
  <2>4. CASE ~Mark(t) /\ (t = "live" => MarkRow(t))
    <3>1. /\ UNCHANGED <<trades, booked, restarts, failures>>
          /\ task[t].pc \notin {"idle", "marked"}
          /\ t = "live" => task[t].pc = "rowDone"
      BY <1>6, <2>4 DEF CountOpened, MarkRow, InsertSignal, SelectSignal, UpdateSignal,
           update_trader_performance, stream, tracker, faults
    <3>2. PICK n \in Nat : n = Len(booked) /\ n = Len(booked')
      BY <3>1 DEF Types
    <3> SUFFICES ASSUME LiveInOrder', failures' = 0, PlainHistory(n)' PROVE FALSE
      BY <3>2 DEF TableInv
    <3>3. Len(trades) <= Len(trades')
      BY <1>1, <3>1
    <3>4. TableAt(n)
      BY <3>1, <3>2, <3>3, TableGuard
    <3>5. t \in Reconcilers \/ t = "live"
      BY DEF Tasks
    <3> QED  BY <3>1, <3>4, <3>5 DEF TableAt, Written
  <2> QED  BY <1>6, <2>1, <2>2, <2>3, <2>4
<1> QED  BY <1>2, <1>3, <1>4, <1>5, <1>6, StepCases, TableProcess

THEOREM TableInvariance == Spec => [](EpInv /\ TableInv)
<1>1. Init => TableInv
  <2> SUFFICES ASSUME Init PROVE TableAt(0)
    BY DEF Init, TableInv
  <2>1. /\ \A t \in Tasks : task[t].pc = "idle"
        /\ open = None /\ signals = <<>> /\ credited = 0
    BY NoneIsNone DEF Init
  <2>2. PositionsOf(0) = {} /\ ClosedOf(0) = {}
    <3>1. PositionsOf(0) = {}
      BY PositionsAre
    <3> QED  BY <3>1 DEF ClosedOf
  <2>3. ToSet(signals) = {} /\ IsInjective(signals)
    BY <2>1 DEF ToSet, IsInjective
  <2>4. Cardinality(ClosedOf(0)) = 0
    BY <2>2, FS_EmptySet
  <2> QED  BY <2>1, <2>2, <2>3, <2>4, Constants DEF TableAt, Written, Holds
<1>2. EpInv /\ EpInv' /\ TableInv /\ [Next]_vars => TableInv'
  BY TableKept DEF EpInv
<1> QED  BY <1>1, <1>2, EpisodesInvariance, PTL DEF Spec

(* Without restarts, failures, reconciled fills and residues of floats,    *)
(* position_signals holds exactly the positions of a plain history, each   *)
(* once, and the outcome of every closed one has reached the posterior.    *)
THEOREM PlainRecorded == Spec => []PlainPositionsRecorded
<1>1. EpInv /\ TableInv => PlainPositionsRecorded
  <2> SUFFICES ASSUME EpInv, TableInv, AtRest, LiveInOrder, failures = 0,
                      PlainHistory(Len(booked))
               PROVE  RowsArePositions
    BY DEF PlainPositionsRecorded
  <2>1. task["live"].pc = "idle"
    BY Constants DEF AtRest, Working
  <2>2. Written(task["live"], signals, credited, Len(booked))
    BY DEF TableInv, TableAt
  <2> QED  BY <2>1, <2>2 DEF Written, Holds, RowsArePositions, ClosedOf
<1> QED  BY <1>1, TableInvariance, PTL
=============================================================================
