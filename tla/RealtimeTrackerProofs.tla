----------------------- MODULE RealtimeTrackerProofs -----------------------
(***************************************************************************)
(* Proofs about RealtimeTracker, for every set of addresses, every number  *)
(* of overlapping refreshes and every bound: who counts as a user of a     *)
(* slot is on an open connection that is listened to, unless it came there *)
(* over one that opened too late, and neither a snapshot nor a row of a    *)
(* position goes back to an older one.                                     *)
(*                                                                         *)
(* The first needs that whoever is about to add a user to a slot has not   *)
(* missed the closing of the connection (AwaitedHeard); the second that    *)
(* there is one look at a position at a time, which has not been overtaken *)
(* (LooksFresh).                                                           *)
(***************************************************************************)
EXTENDS RealtimeTracker, FiniteSetTheorems, WellFoundedInduction, TLAPS

SubsOf(n) == {Absent, NoSlot} \cup 1 .. n
Lists == [pc : {"next"}, todo : SUBSET Addr, polling : SUBSET Addr]
Waiting(n) == [pc : {"connect", "confirm", "deaf", "lost"}, address : Addr, slot : 1 .. n,
               todo : SUBSET Addr, polling : SUBSET Addr]
RefreshesOf(n) == {IdleRefresh} \cup Lists \cup Waiting(n)
ReconnectsOf(n) == [slot : 1 .. n, pc : {"connect", "retry", "resubscribe", "lost"},
                    users : SUBSET Addr]

SocketTypes ==
  /\ watchlist \subseteq Addr
  /\ slots \in Seq(Slot)
  /\ subs \in [Addr -> SubsOf(Len(slots))]
  /\ refreshes \in [Refresh -> RefreshesOf(Len(slots))]
  /\ reconnects \subseteq ReconnectsOf(Len(slots))

(* Who waits on a connection for a user to be confirmed, one that is       *)
(* listened to, waits on an open one.                                      *)
AwaitedHeard ==
  /\ \A r \in Refresh : refreshes[r].pc = "confirm" => slots[refreshes[r].slot].heard
  /\ \A c \in reconnects : c.pc = "resubscribe" => slots[c.slot].heard

(* The connection new users subscribe on is open if it is listened to.     *)
ListenedTo == \A i \in DOMAIN slots : slots[i].ws = "heard" => slots[i].heard

SocketInv == SocketTypes /\ AwaitedHeard /\ ListenedTo /\ UsersAreConnected

Looked == [n : Nat, size : {0, 1}]

PositionTypes ==
  /\ position \in [Addr -> Looked]
  /\ snapshots \in [Addr -> Looked] /\ row \in [Addr -> Looked]
  /\ \A p \in primes : /\ p.address \in Addr /\ p.pc \in {"asked", "answered", "storing"}
                       /\ p.pc # "asked" => p.seen \in Looked

OneLook == \A p, q \in primes : p.address = q.address => p = q

(* What is shown, stored or about to be is not newer than the position,    *)
(* and what is about to be is not older than what it replaces.             *)
LooksFresh ==
  /\ \A a \in Addr : snapshots[a].n <= position[a].n /\ row[a].n <= position[a].n
  /\ \A p \in primes : p.pc # "asked" =>
       /\ row[p.address].n <= p.seen.n /\ p.seen.n <= position[p.address].n
       /\ p.pc = "answered" => snapshots[p.address].n <= p.seen.n

PositionInv == PositionTypes /\ OneLook /\ LooksFresh

LEMMA TInit == Init => SocketInv /\ PositionInv
<1> SUFFICES ASSUME Init PROVE SocketInv /\ PositionInv
  OBVIOUS
<1>1. /\ slots \in Seq(Slot) /\ Len(slots) = 0 /\ DOMAIN slots = {}
      /\ watchlist \subseteq Addr
  BY TrackerAssumption DEF Init
<1>2. refreshes \in [Refresh -> {IdleRefresh}] /\ IdleRefresh.pc = "idle"
  BY DEF Init, IdleRefresh
<1>3. SocketInv
  BY <1>1, <1>2 DEF Init, SocketInv, SocketTypes, AwaitedHeard, UsersAreConnected,
       ListenedTo, SubsOf, RefreshesOf
<1>4. PositionInv
  BY DEF Init, PositionInv, PositionTypes, OneLook, LooksFresh, Looked, Unknown
<1> QED  BY <1>3, <1>4

LEMMA LeastOf ==
  ASSUME NEW S \in SUBSET Nat, S # {}
  PROVE  Min(S) \in S
<1> DEFINE R == {ss \in Nat \X Nat : ss[1] < ss[2]}
<1>1. IsWellFoundedOn(R, Nat)
  BY NatLessThanWellFounded DEF OpToRel
<1> HIDE DEF R
<1>2. PICK x \in S : \A y \in S : ~(<<y, x>> \in R)
  BY <1>1, WFMin
<1>3. ASSUME NEW y \in S PROVE x <= y
  <2>1. <<y, x>> \in R <=> y < x
    BY DEF R
  <2> QED  BY <1>2, <2>1
<1> QED  BY <1>3 DEF Min

(* Replacing a slot.                                                       *)
LEMMA SlotSet ==
  ASSUME NEW ss \in Seq(Slot), NEW i \in DOMAIN ss, NEW v \in Slot
  PROVE  LET new == [ss EXCEPT ![i] = v]
         IN  /\ new \in Seq(Slot) /\ Len(new) = Len(ss) /\ DOMAIN new = DOMAIN ss
             /\ new[i] = v /\ \A j \in DOMAIN ss \ {i} : new[j] = ss[j]
OBVIOUS

LEMMA SlotAppended ==
  ASSUME NEW ss \in Seq(Slot), NEW v \in Slot
  PROVE  LET new == Append(ss, v)
         IN  /\ new \in Seq(Slot) /\ Len(new) = Len(ss) + 1
             /\ new[Len(ss) + 1] = v /\ \A j \in DOMAIN ss : new[j] = ss[j]
OBVIOUS

(* With more slots everything keeps its type.                              *)
LEMMA MoreSlots ==
  ASSUME NEW n \in Nat, NEW m \in Nat, n <= m
  PROVE  /\ SubsOf(n) \subseteq SubsOf(m) /\ RefreshesOf(n) \subseteq RefreshesOf(m)
         /\ ReconnectsOf(n) \subseteq ReconnectsOf(m)
<1>1. 1 .. n \subseteq 1 .. m
  OBVIOUS
<1>2. Waiting(n) \subseteq Waiting(m) /\ ReconnectsOf(n) \subseteq ReconnectsOf(m)
  BY <1>1 DEF Waiting, ReconnectsOf
<1> QED  BY <1>1, <1>2 DEF SubsOf, RefreshesOf

LEMMA RefreshKinds ==
  ASSUME SocketTypes, NEW r \in Refresh
  PROVE  /\ refreshes[r].pc = "next" => refreshes[r] \in Lists
         /\ refreshes[r].pc \in {"connect", "confirm", "deaf", "lost"} =>
              /\ refreshes[r] \in Waiting(Len(slots))
              /\ refreshes[r].slot \in DOMAIN slots /\ slots[refreshes[r].slot] \in Slot
         /\ refreshes[r] \in RefreshesOf(Len(slots))
<1>1. refreshes[r] \in RefreshesOf(Len(slots))
  BY DEF SocketTypes
<1>2. /\ refreshes[r].pc = "next" => refreshes[r] \in Lists
      /\ refreshes[r].pc \in {"connect", "confirm", "deaf", "lost"} =>
           refreshes[r] \in Waiting(Len(slots))
  BY <1>1 DEF RefreshesOf, Lists, Waiting, IdleRefresh
<1> QED  BY <1>1, <1>2 DEF Waiting, SocketTypes

LEMMA NextAddressTypes ==
  ASSUME SocketTypes, NEW r \in Refresh, refreshes[r] \in Waiting(Len(slots)),
         NEW newSubs \in [Addr -> SubsOf(Len(slots))], NextAddress(r, newSubs)
  PROVE  /\ subs' \in [Addr -> SubsOf(Len(slots))]
         /\ refreshes' \in [Refresh -> RefreshesOf(Len(slots))]
         /\ refreshes'[r].pc # "confirm"
         /\ \A q \in Refresh \ {r} : refreshes'[q] = refreshes[q]
<1>1. [pc |-> "next", todo |-> refreshes[r].todo, polling |-> refreshes[r].polling] \in Lists
  BY DEF Waiting, Lists
<1>2. NoSlot \in SubsOf(Len(slots))
  BY DEF SubsOf
<1> DEFINE next == IF refreshes[r].todo = {} THEN IdleRefresh
                   ELSE [pc |-> "next", todo |-> refreshes[r].todo,
                         polling |-> refreshes[r].polling]
<1>3. next \in RefreshesOf(Len(slots)) /\ next.pc # "confirm"
  BY <1>1 DEF RefreshesOf, IdleRefresh
<1>4. refreshes' = [refreshes EXCEPT ![r] = next]
  BY DEF NextAddress
<1> HIDE DEF next
<1>5. subs' \in [Addr -> SubsOf(Len(slots))]
  BY <1>2 DEF NextAddress
<1> QED  BY <1>3, <1>4, <1>5 DEF SocketTypes

(* What a step that only adds users to open slots or opens slots, and      *)
(* tells nobody to wait on a closed one, has to keep.                      *)
LEMMA SocketsKept ==
  ASSUME SocketInv, UNCHANGED <<slots, refreshes, reconnects, subs>>, watchlist' \subseteq Addr
  PROVE  SocketInv'
BY DEF SocketInv, SocketTypes, AwaitedHeard, UsersAreConnected, ListenedTo

LEMMA BeginKept ==
  ASSUME SocketInv, NEW r \in Refresh, BeginRefresh(r)
  PROVE  SocketInv'
<1>1. /\ slots \in Seq(Slot) /\ watchlist \subseteq Addr /\ Len(slots) \in Nat
      /\ subs \in [Addr -> SubsOf(Len(slots))]
      /\ refreshes \in [Refresh -> RefreshesOf(Len(slots))]
  BY DEF SocketInv, SocketTypes
<1>2. slots' = releaseFromWsSlot(Removed)
  BY DEF BeginRefresh
<1>3. /\ slots' \in Seq(Slot) /\ Len(slots') = Len(slots) /\ DOMAIN slots' = DOMAIN slots
      /\ \A i \in DOMAIN slots :
           /\ slots'[i].heard = slots[i].heard /\ slots'[i].ws = slots[i].ws
           /\ slots[i].users \subseteq slots[i].unheard =>
                slots'[i].users \subseteq slots'[i].unheard
  <2> DEFINE gone(i) == {a \in Removed : subs[a] = i}
  <2>1. slots' = [i \in 1 .. Len(slots) |-> Without(slots[i], gone(i))]
    BY <1>1, <1>2 DEF releaseFromWsSlot
  <2> HIDE DEF gone
  <2>2. \A i \in 1 .. Len(slots) : slots[i] \in Slot
    BY <1>1
  <2>3. \A i \in 1 .. Len(slots) :
          /\ Without(slots[i], gone(i)) \in Slot
          /\ Without(slots[i], gone(i)).heard = slots[i].heard
          /\ Without(slots[i], gone(i)).ws = slots[i].ws
          /\ Without(slots[i], gone(i)).users = slots[i].users \ gone(i)
          /\ Without(slots[i], gone(i)).unheard = slots[i].unheard \ gone(i)
    BY <2>2 DEF Slot, Without
  <2>4. \A i \in 1 .. Len(slots) : slots'[i] = Without(slots[i], gone(i))
    BY <2>1
  <2>5. \A i \in 1 .. Len(slots) :
          /\ slots'[i] \in Slot
          /\ slots'[i].heard = slots[i].heard /\ slots'[i].ws = slots[i].ws
          /\ slots'[i].users = slots[i].users \ gone(i)
          /\ slots'[i].unheard = slots[i].unheard \ gone(i)
    BY <2>3, <2>4
  <2>6. slots' \in Seq(Slot) /\ Len(slots') = Len(slots)
    BY <1>1, <2>1, <2>5
  <2> QED  BY <1>1, <2>1, <2>5, <2>6
<1>4. subs' \in [Addr -> SubsOf(Len(slots))]
  BY <1>1 DEF BeginRefresh, SubsOf
<1>5. \E x \in RefreshesOf(Len(slots)) :
        x.pc # "confirm" /\ refreshes' = [refreshes EXCEPT ![r] = x]
  <2>1. PICK ws \in SUBSET {a \in watchlist : subs[a] = Absent} :
          refreshes' = [refreshes EXCEPT ![r] =
            IF {a \in watchlist : subs[a] = Absent} = {} THEN IdleRefresh
            ELSE [pc |-> "next", todo |-> ws,
                  polling |-> {a \in watchlist : subs[a] = Absent} \ ws]]
    BY DEF BeginRefresh
  <2>2. [pc |-> "next", todo |-> ws, polling |-> {a \in watchlist : subs[a] = Absent} \ ws]
          \in Lists
    BY <1>1 DEF Lists
  <2>3. \A l \in Lists : l \in RefreshesOf(Len(slots)) /\ l.pc # "confirm"
    BY DEF RefreshesOf, Lists
  <2>4. IdleRefresh \in RefreshesOf(Len(slots)) /\ IdleRefresh.pc # "confirm"
    BY DEF RefreshesOf, IdleRefresh
  <2> QED  BY <2>1, <2>2, <2>3, <2>4
<1>6. UNCHANGED <<watchlist, reconnects>>
  BY DEF BeginRefresh
<1>7. SocketTypes'
  BY <1>1, <1>3, <1>4, <1>5, <1>6 DEF SocketInv, SocketTypes
<1>8. AwaitedHeard'
  <2>1. \A q \in Refresh : refreshes'[q].pc = "confirm" => /\ refreshes[q].pc = "confirm"
                                                         /\ refreshes'[q] = refreshes[q]
    BY <1>1, <1>5
  <2>2. \A q \in Refresh : refreshes[q].pc = "confirm" => refreshes[q].slot \in DOMAIN slots
    BY RefreshKinds DEF SocketInv
  <2>3. \A c \in reconnects : c.slot \in DOMAIN slots
    BY <1>1 DEF SocketInv, SocketTypes, ReconnectsOf
  <2> QED  BY <1>3, <1>6, <2>1, <2>2, <2>3 DEF SocketInv, AwaitedHeard
<1>9. UsersAreConnected' /\ ListenedTo'
  BY <1>3 DEF SocketInv, UsersAreConnected, ListenedTo
<1> QED  BY <1>7, <1>8, <1>9 DEF SocketInv

LEMMA GetSlotKept ==
  ASSUME SocketInv, NEW r \in Refresh, getAvailableWsSlot(r)
  PROVE  SocketInv'
<1>1. /\ slots \in Seq(Slot) /\ Len(slots) \in Nat /\ DOMAIN slots = 1 .. Len(slots)
      /\ subs \in [Addr -> SubsOf(Len(slots))]
      /\ refreshes \in [Refresh -> RefreshesOf(Len(slots))]
      /\ reconnects \subseteq ReconnectsOf(Len(slots))
  BY DEF SocketInv, SocketTypes
<1>2. refreshes[r] \in Lists
  BY RefreshKinds DEF SocketInv, getAvailableWsSlot
<1>3. UNCHANGED <<watchlist, subs, reconnects>>
  BY DEF getAvailableWsSlot
<1> DEFINE waiting(a, pc, i) ==
      [pc |-> pc, address |-> a, slot |-> i, todo |-> refreshes[r].todo \ {a},
       polling |-> refreshes[r].polling]
<1>4. \A a \in refreshes[r].todo, pc \in {"connect", "confirm", "deaf", "lost"}, n \in Nat :
        \A i \in 1 .. n : /\ waiting(a, pc, i) \in RefreshesOf(n)
                         /\ waiting(a, pc, i).pc = pc /\ waiting(a, pc, i).slot = i
  BY <1>2 DEF RefreshesOf, Waiting, Lists
<1>5. PICK a \in refreshes[r].todo :
        \/ /\ WithCapacity # {} /\ slots' = slots
           /\ refreshes' = [refreshes EXCEPT
                ![r] = waiting(a, Sent(Min(WithCapacity)), Min(WithCapacity))]
        \/ /\ slots' = Append(slots, NewSlot)
           /\ refreshes' = [refreshes EXCEPT ![r] = waiting(a, "connect", Len(slots) + 1)]
  BY <1>2 DEF getAvailableWsSlot, Lists
<1> HIDE DEF waiting
<1>6. CASE /\ WithCapacity # {} /\ slots' = slots
           /\ refreshes' = [refreshes EXCEPT
                ![r] = waiting(a, Sent(Min(WithCapacity)), Min(WithCapacity))]
  <2>1. Min(WithCapacity) \in WithCapacity
    <3>1. IsFiniteSet(1 .. Len(slots)) /\ WithCapacity \subseteq 1 .. Len(slots)
      BY <1>1, FS_Interval DEF WithCapacity
    <3>2. IsFiniteSet(WithCapacity)
      BY <3>1, FS_Subset
    <3> QED  BY <1>1, <1>6, <3>1, <3>2, LeastOf
  <2>2. /\ Min(WithCapacity) \in 1 .. Len(slots)
        /\ Sent(Min(WithCapacity)) \in {"confirm", "deaf", "lost"}
        /\ Sent(Min(WithCapacity)) = "confirm" => slots[Min(WithCapacity)].heard
    <3>1. Min(WithCapacity) \in 1 .. Len(slots)
      BY <1>1, <2>1 DEF WithCapacity
    <3>2. slots[Min(WithCapacity)].ws = "heard" => slots[Min(WithCapacity)].heard
      BY <1>1, <3>1 DEF SocketInv, ListenedTo
    <3> QED  BY <3>1, <3>2 DEF Sent
  <2>3. SocketTypes'
    BY <1>1, <1>3, <1>4, <1>6, <2>2 DEF SocketInv, SocketTypes
  <2>4. AwaitedHeard'
    BY <1>1, <1>3, <1>4, <1>6, <2>2 DEF SocketInv, AwaitedHeard
  <2> QED  BY <1>6, <2>3, <2>4 DEF SocketInv, UsersAreConnected, ListenedTo
<1>7. CASE /\ slots' = Append(slots, NewSlot)
           /\ refreshes' = [refreshes EXCEPT ![r] = waiting(a, "connect", Len(slots) + 1)]
  <2>1. NewSlot \in Slot /\ NewSlot.users = {} /\ NewSlot.ws = "gone"
    BY DEF Slot, NewSlot
  <2>2. /\ slots' \in Seq(Slot) /\ Len(slots') = Len(slots) + 1
        /\ DOMAIN slots' = 1 .. Len(slots) + 1
        /\ slots'[Len(slots) + 1].users = {} /\ slots'[Len(slots) + 1].ws = "gone"
        /\ \A j \in 1 .. Len(slots) : slots'[j] = slots[j]
    BY <1>1, <1>7, <2>1, SlotAppended
  <2>3. /\ subs \in [Addr -> SubsOf(Len(slots'))]
        /\ refreshes \in [Refresh -> RefreshesOf(Len(slots'))]
        /\ reconnects \subseteq ReconnectsOf(Len(slots'))
    BY <1>1, <2>2, MoreSlots, Len(slots) + 1 \in Nat, Len(slots) <= Len(slots) + 1
  <2>4. Len(slots) + 1 \in 1 .. Len(slots')
    BY <1>1, <2>2
  <2>5. waiting(a, "connect", Len(slots) + 1) \in RefreshesOf(Len(slots'))
          /\ waiting(a, "connect", Len(slots) + 1).pc # "confirm"
    BY <1>1, <1>4, <2>2, <2>4
  <2>6. SocketTypes'
    BY <1>3, <1>7, <2>2, <2>3, <2>5 DEF SocketInv, SocketTypes
  <2>7. AwaitedHeard'
    <3>1. \A q \in Refresh : refreshes[q].pc = "confirm" =>
            refreshes[q].slot \in 1 .. Len(slots)
      BY <1>1, RefreshKinds DEF SocketInv
    <3>2. \A c \in reconnects : c.slot \in 1 .. Len(slots)
      BY <1>1 DEF ReconnectsOf
    <3> QED  BY <1>1, <1>3, <1>7, <2>2, <2>5, <3>1, <3>2 DEF SocketInv, AwaitedHeard
  <2>8. UsersAreConnected' /\ ListenedTo'
    <3> SUFFICES ASSUME NEW i \in DOMAIN slots'
                 PROVE  /\ slots'[i].users \subseteq slots'[i].unheard \/ slots'[i].heard
                        /\ slots'[i].ws = "heard" => slots'[i].heard
      BY DEF UsersAreConnected, ListenedTo
    <3>1. CASE i = Len(slots) + 1
      BY <2>2, <3>1
    <3>2. CASE i \in 1 .. Len(slots)
      BY <1>1, <2>2, <3>2 DEF SocketInv, UsersAreConnected, ListenedTo
    <3> QED  BY <1>1, <2>2, <3>1, <3>2
  <2> QED  BY <2>6, <2>7, <2>8 DEF SocketInv
<1> QED  BY <1>5, <1>6, <1>7

(* A slot that keeps its open connection, if it had one, and has no users  *)
(* but with one, or too late: nobody is told to wait on a closed one.      *)
LEMMA SlotKept ==
  ASSUME SocketInv, NEW i \in DOMAIN slots, NEW v \in Slot,
         slots[i].heard => v.heard,
         v.users \subseteq v.unheard \/ v.heard,
         v.ws = "heard" => v.heard,
         slots' = [slots EXCEPT ![i] = v],
         watchlist' \subseteq Addr,
         subs' \in [Addr -> SubsOf(Len(slots))],
         refreshes' \in [Refresh -> RefreshesOf(Len(slots))],
         reconnects' \subseteq ReconnectsOf(Len(slots)),
         \A q \in Refresh : refreshes'[q].pc = "confirm" =>
           \/ refreshes'[q] = refreshes[q]
           \/ refreshes'[q].slot = i /\ v.heard,
         \A c \in reconnects' : c.pc = "resubscribe" =>
           \/ \E b \in reconnects : b.pc = c.pc /\ b.slot = c.slot
           \/ c.slot = i /\ v.heard
  PROVE  SocketInv'
<1>1. /\ slots \in Seq(Slot) /\ DOMAIN slots = 1 .. Len(slots)
      /\ refreshes \in [Refresh -> RefreshesOf(Len(slots))]
      /\ reconnects \subseteq ReconnectsOf(Len(slots))
  BY DEF SocketInv, SocketTypes
<1>2. /\ slots' \in Seq(Slot) /\ Len(slots') = Len(slots) /\ DOMAIN slots' = DOMAIN slots
      /\ slots'[i] = v /\ \A j \in DOMAIN slots \ {i} : slots'[j] = slots[j]
  BY <1>1, SlotSet
<1>3. SocketTypes'
  BY <1>2 DEF SocketTypes
<1>4. \A j \in DOMAIN slots : slots[j].heard => slots'[j].heard
  BY <1>2
<1>5. \A q \in Refresh : refreshes'[q].pc = "confirm" => slots'[refreshes'[q].slot].heard
  <2> SUFFICES ASSUME NEW q \in Refresh, refreshes'[q].pc = "confirm"
               PROVE  slots'[refreshes'[q].slot].heard
    OBVIOUS
  <2>1. CASE refreshes'[q].slot = i /\ v.heard
    BY <1>2, <2>1
  <2>2. CASE refreshes'[q] = refreshes[q]
    <3>1. refreshes[q].slot \in DOMAIN slots /\ slots[refreshes[q].slot].heard
      BY <2>2, RefreshKinds DEF SocketInv, AwaitedHeard
    <3> QED  BY <1>4, <2>2, <3>1
  <2> QED  BY <2>1, <2>2
<1>6. \A c \in reconnects' : c.pc = "resubscribe" => slots'[c.slot].heard
  <2>1. \A b \in reconnects : b.pc = "resubscribe" =>
          b.slot \in DOMAIN slots /\ slots[b.slot].heard
    BY <1>1 DEF SocketInv, AwaitedHeard, ReconnectsOf
  <2> QED  BY <1>2, <1>4, <2>1
<1>7. UsersAreConnected' /\ ListenedTo'
  BY <1>2 DEF SocketInv, UsersAreConnected, ListenedTo
<1> QED  BY <1>3, <1>5, <1>6, <1>7 DEF SocketInv, AwaitedHeard

(* Waiting for a connection is given up: at most one more may open late.   *)
LEMMA GivenUpSlot ==
  ASSUME SocketInv, NEW i \in DOMAIN slots, slots' \in GivenUp(i)
  PROVE  \E v \in Slot : /\ slots' = [slots EXCEPT ![i] = v]
                        /\ v.heard = slots[i].heard /\ v.ws = slots[i].ws
                        /\ v.users = slots[i].users /\ v.unheard = slots[i].unheard
<1>1. slots[i] \in Slot /\ slots \in Seq(Slot)
  BY DEF SocketInv, SocketTypes
<1>2. CASE slots' = slots
  <2>1. slots = [slots EXCEPT ![i] = slots[i]]
    BY <1>1
  <2> QED  BY <1>1, <1>2, <2>1
<1>3. CASE slots' = [slots EXCEPT ![i].late = @ + 1]
  <2> DEFINE v == [slots[i] EXCEPT !.late = @ + 1]
  <2>1. v \in Slot /\ v.heard = slots[i].heard /\ v.ws = slots[i].ws
        /\ v.users = slots[i].users /\ v.unheard = slots[i].unheard
    BY <1>1 DEF Slot
  <2>2. slots' = [slots EXCEPT ![i] = v]
    BY <1>3
  <2> QED  BY <2>1, <2>2
<1> QED  BY <1>2, <1>3 DEF GivenUp

LEMMA ConnectKept ==
  ASSUME SocketInv, NEW r \in Refresh, Connect(r)
  PROVE  SocketInv'
<1> DEFINE i == refreshes[r].slot
<1>1. /\ slots \in Seq(Slot) /\ subs \in [Addr -> SubsOf(Len(slots))]
      /\ refreshes \in [Refresh -> RefreshesOf(Len(slots))]
      /\ reconnects \subseteq ReconnectsOf(Len(slots)) /\ watchlist \subseteq Addr
  BY DEF SocketInv, SocketTypes
<1>2. /\ refreshes[r] \in Waiting(Len(slots)) /\ i \in DOMAIN slots /\ slots[i] \in Slot
      /\ UNCHANGED <<watchlist, reconnects>>
  BY RefreshKinds DEF SocketInv, Connect
<1>3. CASE /\ slots' = Opened(i)
           /\ refreshes' = [refreshes EXCEPT ![r].pc = "confirm"]
           /\ UNCHANGED subs
  <2> DEFINE v == [slots[i] EXCEPT !.ready = TRUE, !.heard = TRUE, !.ws = "heard"]
  <2>1. v \in Slot /\ v.heard /\ slots' = [slots EXCEPT ![i] = v]
    BY <1>2, <1>3 DEF Slot, Opened
  <2> DEFINE w == [refreshes[r] EXCEPT !.pc = "confirm"]
  <2>2. w \in Waiting(Len(slots)) /\ w.slot = i /\ refreshes' = [refreshes EXCEPT ![r] = w]
    BY <1>2, <1>3 DEF Waiting
  <2> HIDE DEF v, w
  <2>3. /\ refreshes' \in [Refresh -> RefreshesOf(Len(slots))]
        /\ refreshes'[r].slot = i /\ \A q \in Refresh \ {r} : refreshes'[q] = refreshes[q]
    BY <1>1, <2>2 DEF RefreshesOf
  <2> HIDE DEF i
  <2> QED  BY <1>1, <1>2, <1>3, <2>1, <2>3, SlotKept
<1>4. CASE /\ NextAddress(r, [subs EXCEPT ![refreshes[r].address] = NoSlot])
           /\ slots' \in GivenUp(i)
  <2>1. PICK v \in Slot : /\ slots' = [slots EXCEPT ![i] = v]
                          /\ v.heard = slots[i].heard /\ v.ws = slots[i].ws
                          /\ v.users = slots[i].users /\ v.unheard = slots[i].unheard
    BY <1>2, <1>4, GivenUpSlot
  <2>2. [subs EXCEPT ![refreshes[r].address] = NoSlot] \in [Addr -> SubsOf(Len(slots))]
    BY <1>1 DEF SubsOf
  <2>3. /\ subs' \in [Addr -> SubsOf(Len(slots))]
        /\ refreshes' \in [Refresh -> RefreshesOf(Len(slots))]
        /\ refreshes'[r].pc # "confirm"
        /\ \A q \in Refresh \ {r} : refreshes'[q] = refreshes[q]
    BY <1>2, <1>4, <2>2, NextAddressTypes DEF SocketInv
  <2>4. /\ v.users \subseteq v.unheard \/ v.heard
        /\ v.ws = "heard" => v.heard
    BY <1>2, <2>1 DEF SocketInv, UsersAreConnected, ListenedTo
  <2> HIDE DEF i
  <2> QED  BY <1>1, <1>2, <2>1, <2>3, <2>4, SlotKept
<1> QED  BY <1>3, <1>4 DEF Connect

LEMMA SubscribeKept ==
  ASSUME SocketInv, NEW r \in Refresh, subscribeAddress(r)
  PROVE  SocketInv'
<1> DEFINE i == refreshes[r].slot
           a == refreshes[r].address
<1>1. /\ slots \in Seq(Slot) /\ subs \in [Addr -> SubsOf(Len(slots))]
      /\ refreshes \in [Refresh -> RefreshesOf(Len(slots))]
      /\ reconnects \subseteq ReconnectsOf(Len(slots)) /\ watchlist \subseteq Addr
  BY DEF SocketInv, SocketTypes
<1>2. /\ refreshes[r].pc \in {"confirm", "deaf", "lost"}
      /\ UNCHANGED <<watchlist, reconnects>>
  BY DEF subscribeAddress
<1>3. /\ refreshes[r] \in Waiting(Len(slots)) /\ i \in DOMAIN slots /\ slots[i] \in Slot
      /\ a \in Addr
  BY <1>2, RefreshKinds DEF SocketInv, Waiting
<1>4. CASE /\ refreshes[r].pc \in {"confirm", "deaf"}
           /\ slots' = [slots EXCEPT
                ![i].users = @ \cup {a},
                ![i].unheard = IF refreshes[r].pc = "deaf" THEN @ \cup {a} ELSE @ \ {a}]
           /\ NextAddress(r, [subs EXCEPT ![a] = i])
  <2> DEFINE u == IF refreshes[r].pc = "deaf" THEN slots[i].unheard \cup {a}
                                              ELSE slots[i].unheard \ {a}
             v == [slots[i] EXCEPT !.users = @ \cup {a}, !.unheard = u]
  <2>1. /\ v \in Slot /\ slots' = [slots EXCEPT ![i] = v] /\ v.heard = slots[i].heard
        /\ v.ws = slots[i].ws /\ v.users = slots[i].users \cup {a} /\ v.unheard = u
    BY <1>3, <1>4 DEF Slot
  <2>2. v.users \subseteq v.unheard \/ v.heard
    <3>1. CASE refreshes[r].pc = "confirm"
      BY <2>1, <3>1 DEF SocketInv, AwaitedHeard
    <3>2. CASE refreshes[r].pc = "deaf"
      BY <1>3, <2>1, <3>2 DEF SocketInv, UsersAreConnected
    <3> QED  BY <1>4, <3>1, <3>2
  <2>3. v.ws = "heard" => v.heard
    BY <1>3, <2>1 DEF SocketInv, ListenedTo
  <2>4. [subs EXCEPT ![a] = i] \in [Addr -> SubsOf(Len(slots))]
    BY <1>1, <1>3 DEF SubsOf
  <2>5. /\ subs' \in [Addr -> SubsOf(Len(slots))]
        /\ refreshes' \in [Refresh -> RefreshesOf(Len(slots))]
        /\ refreshes'[r].pc # "confirm"
        /\ \A q \in Refresh \ {r} : refreshes'[q] = refreshes[q]
    BY <1>3, <1>4, <2>4, NextAddressTypes DEF SocketInv
  <2> HIDE DEF u, v, i, a
  <2> QED  BY <1>1, <1>2, <1>3, <2>1, <2>2, <2>3, <2>5, SlotKept
<1>5. CASE NextAddress(r, [subs EXCEPT ![a] = NoSlot]) /\ UNCHANGED slots
  <2>1. [subs EXCEPT ![a] = NoSlot] \in [Addr -> SubsOf(Len(slots))]
    BY <1>1 DEF SubsOf
  <2>2. /\ subs' \in [Addr -> SubsOf(Len(slots))]
        /\ refreshes' \in [Refresh -> RefreshesOf(Len(slots))]
        /\ refreshes'[r].pc # "confirm"
        /\ \A q \in Refresh \ {r} : refreshes'[q] = refreshes[q]
    BY <1>3, <1>5, <2>1, NextAddressTypes DEF SocketInv
  <2> QED
    BY <1>1, <1>2, <1>5, <2>2
    DEF SocketInv, SocketTypes, AwaitedHeard, UsersAreConnected, ListenedTo
<1> QED  BY <1>4, <1>5 DEF subscribeAddress

LEMMA CloseKept ==
  ASSUME SocketInv, NEW i \in DOMAIN slots, Close(i)
  PROVE  SocketInv'
<1>1. /\ slots \in Seq(Slot) /\ DOMAIN slots = 1 .. Len(slots)
      /\ subs \in [Addr -> SubsOf(Len(slots))]
      /\ refreshes \in [Refresh -> RefreshesOf(Len(slots))]
      /\ reconnects \subseteq ReconnectsOf(Len(slots)) /\ watchlist \subseteq Addr
  BY DEF SocketInv, SocketTypes
<1> DEFINE v == [slots[i] EXCEPT !.users = {}, !.unheard = {}, !.ready = FALSE, !.heard = FALSE,
                                 !.ws = IF @ = "heard" THEN "gone" ELSE @]
<1>2. v \in Slot /\ v.users = {} /\ v.ws # "heard"
  <2>1. slots[i] \in Slot
    BY <1>1
  <2>2. CASE slots[i].ws = "heard"
    BY <2>1, <2>2 DEF Slot
  <2>3. CASE slots[i].ws # "heard"
    BY <2>1, <2>3 DEF Slot
  <2> QED  BY <2>2, <2>3
<1>3. /\ slots' \in Seq(Slot) /\ Len(slots') = Len(slots) /\ DOMAIN slots' = DOMAIN slots
      /\ slots'[i].users = {} /\ slots'[i].ws # "heard"
      /\ \A j \in DOMAIN slots \ {i} : slots'[j] = slots[j]
  <2>1. slots' = [slots EXCEPT ![i] = v]
    BY <1>1 DEF Close, Closed, Slot
  <2> HIDE DEF v
  <2> QED  BY <1>1, <1>2, <2>1, SlotSet
<1> HIDE DEF v
<1>4. \A q \in Refresh :
        /\ refreshes'[q] \in RefreshesOf(Len(slots))
        /\ refreshes'[q].pc = "confirm" =>
             refreshes'[q] = refreshes[q] /\ refreshes[q].slot # i
  <2> SUFFICES ASSUME NEW q \in Refresh
               PROVE  /\ refreshes'[q] \in RefreshesOf(Len(slots))
                      /\ refreshes'[q].pc = "confirm" =>
                           refreshes'[q] = refreshes[q] /\ refreshes[q].slot # i
    OBVIOUS
  <2>1. refreshes'[q] = IF refreshes[q].pc = "confirm" /\ refreshes[q].slot = i
                        THEN [refreshes[q] EXCEPT !.pc = "lost"] ELSE refreshes[q]
    BY DEF Close, LostBy
  <2>2. CASE refreshes[q].pc = "confirm" /\ refreshes[q].slot = i
    <3>1. refreshes[q] \in Waiting(Len(slots))
      BY <2>2, RefreshKinds DEF SocketInv
    <3>2. refreshes'[q] \in Waiting(Len(slots)) /\ refreshes'[q].pc = "lost"
      BY <2>1, <2>2, <3>1 DEF Waiting
    <3> QED  BY <3>2 DEF RefreshesOf
  <2>3. CASE ~(refreshes[q].pc = "confirm" /\ refreshes[q].slot = i)
    BY <1>1, <2>1, <2>3
  <2> QED  BY <2>2, <2>3
<1>5. \A c \in reconnects' :
        /\ c \in ReconnectsOf(Len(slots))
        /\ c.pc = "resubscribe" => c \in reconnects /\ c.slot # i
  <2>1. [slot |-> i, pc |-> "connect", users |-> slots[i].users] \in ReconnectsOf(Len(slots))
    <3>1. slots[i] \in Slot /\ i \in 1 .. Len(slots)
      BY <1>1
    <3>2. slots[i].users \in SUBSET Addr
      BY <3>1 DEF Slot
    <3> QED  BY <3>1, <3>2 DEF ReconnectsOf
  <2>2. ASSUME NEW c \in reconnects'
        PROVE  \/ c = [slot |-> i, pc |-> "connect", users |-> slots[i].users]
               \/ \E b \in reconnects : c = IF b.slot = i /\ b.pc = "resubscribe"
                                            THEN [b EXCEPT !.pc = "lost"] ELSE b
    BY <2>2 DEF Close
  <2>3. ASSUME NEW b \in reconnects, b.slot = i, b.pc = "resubscribe"
        PROVE  /\ [b EXCEPT !.pc = "lost"] \in ReconnectsOf(Len(slots))
               /\ [b EXCEPT !.pc = "lost"].pc = "lost"
    BY <1>1, <2>3 DEF ReconnectsOf
  <2> SUFFICES ASSUME NEW c \in reconnects'
               PROVE  /\ c \in ReconnectsOf(Len(slots))
                      /\ c.pc = "resubscribe" => c \in reconnects /\ c.slot # i
    OBVIOUS
  <2>4. CASE c = [slot |-> i, pc |-> "connect", users |-> slots[i].users]
    BY <2>1, <2>4
  <2>5. CASE \E b \in reconnects : c = IF b.slot = i /\ b.pc = "resubscribe"
                                       THEN [b EXCEPT !.pc = "lost"] ELSE b
    BY <1>1, <2>3, <2>5
  <2> QED  BY <2>2, <2>4, <2>5
<1>6. UNCHANGED <<watchlist, subs>>
  BY DEF Close
<1>7. SocketTypes'
  <2>1. refreshes' \in [Refresh -> RefreshesOf(Len(slots))]
    <3>1. DOMAIN refreshes' = Refresh /\ refreshes' = [q \in Refresh |-> refreshes'[q]]
      BY DEF Close, LostBy
    <3> QED  BY <1>4, <3>1
  <2> QED  BY <1>1, <1>3, <1>5, <1>6, <2>1 DEF SocketTypes
<1>8. AwaitedHeard'
  <2>1. \A q \in Refresh : refreshes[q].pc = "confirm" => refreshes[q].slot \in DOMAIN slots
    BY RefreshKinds DEF SocketInv
  <2>2. \A c \in reconnects : c.slot \in DOMAIN slots
    BY <1>1 DEF ReconnectsOf
  <2> QED  BY <1>3, <1>4, <1>5, <2>1, <2>2 DEF SocketInv, AwaitedHeard
<1>9. UsersAreConnected' /\ ListenedTo'
  BY <1>3 DEF SocketInv, UsersAreConnected, ListenedTo
<1> QED  BY <1>7, <1>8, <1>9 DEF SocketInv

(* A connection that opens too late, and closes.                           *)
LEMMA LateKept ==
  ASSUME SocketInv, NEW i \in DOMAIN slots, LateOpen(i) \/ DeafClose(i)
  PROVE  SocketInv'
<1>1. /\ slots \in Seq(Slot) /\ slots[i] \in Slot /\ subs \in [Addr -> SubsOf(Len(slots))]
      /\ refreshes \in [Refresh -> RefreshesOf(Len(slots))]
      /\ reconnects \subseteq ReconnectsOf(Len(slots)) /\ watchlist \subseteq Addr
  BY DEF SocketInv, SocketTypes
<1>2. slots[i].users \subseteq slots[i].unheard \/ slots[i].heard
  BY DEF SocketInv, UsersAreConnected
<1>3. CASE LateOpen(i)
  <2> DEFINE v == [slots[i] EXCEPT !.late = @ - 1, !.ready = TRUE, !.ws = "deaf"]
  <2>1. /\ v \in Slot /\ slots' = [slots EXCEPT ![i] = v] /\ v.ws = "deaf"
        /\ v.heard = slots[i].heard /\ v.users = slots[i].users
        /\ v.unheard = slots[i].unheard
    <3>1. slots[i].late \in Nat /\ slots[i].late > 0
      BY <1>1, <1>3 DEF LateOpen, Slot
    <3>2. slots[i].late - 1 \in Nat
      BY <3>1
    <3>3. slots' = [slots EXCEPT ![i] = v]
      BY <1>3 DEF LateOpen
    <3>4. v.late = slots[i].late - 1 /\ v \in [users : SUBSET Addr, unheard : SUBSET Addr,
            ready : BOOLEAN, heard : BOOLEAN, ws : {"gone", "heard", "deaf"}, late : Nat]
      BY <1>1, <3>2 DEF Slot
    <3> QED  BY <1>1, <3>3, <3>4 DEF Slot
  <2>2. UNCHANGED <<watchlist, subs, refreshes, reconnects>>
    BY <1>3 DEF LateOpen
  <2> HIDE DEF v
  <2> QED  BY <1>1, <1>2, <2>1, <2>2, SlotKept
<1>4. CASE DeafClose(i)
  <2> DEFINE v == [slots[i] EXCEPT !.ws = "gone"]
  <2>1. /\ v \in Slot /\ slots' = [slots EXCEPT ![i] = v] /\ v.ws = "gone"
        /\ v.heard = slots[i].heard /\ v.users = slots[i].users
        /\ v.unheard = slots[i].unheard
    BY <1>1, <1>4 DEF DeafClose, Slot
  <2>2. \A q \in Refresh : /\ refreshes'[q] \in RefreshesOf(Len(slots))
                           /\ refreshes'[q].pc = "confirm" => refreshes'[q] = refreshes[q]
    <3> SUFFICES ASSUME NEW q \in Refresh
                 PROVE  /\ refreshes'[q] \in RefreshesOf(Len(slots))
                        /\ refreshes'[q].pc = "confirm" => refreshes'[q] = refreshes[q]
      OBVIOUS
    <3>1. refreshes'[q] = IF refreshes[q].pc = "deaf" /\ refreshes[q].slot = i
                          THEN [refreshes[q] EXCEPT !.pc = "lost"] ELSE refreshes[q]
      BY <1>4 DEF DeafClose, LostBy
    <3>2. CASE refreshes[q].pc = "deaf" /\ refreshes[q].slot = i
      <4>1. refreshes[q] \in Waiting(Len(slots))
        BY <3>2, RefreshKinds DEF SocketInv
      <4>2. refreshes'[q] \in Waiting(Len(slots)) /\ refreshes'[q].pc = "lost"
        BY <3>1, <3>2, <4>1 DEF Waiting
      <4> QED  BY <4>2 DEF RefreshesOf
    <3>3. CASE ~(refreshes[q].pc = "deaf" /\ refreshes[q].slot = i)
      BY <1>1, <3>1, <3>3
    <3> QED  BY <3>2, <3>3
  <2>3. refreshes' \in [Refresh -> RefreshesOf(Len(slots))]
    <3>1. refreshes' = [q \in Refresh |-> refreshes'[q]]
      BY <1>4 DEF DeafClose, LostBy
    <3> QED  BY <2>2, <3>1
  <2>4. UNCHANGED <<watchlist, subs, reconnects>>
    BY <1>4 DEF DeafClose
  <2> HIDE DEF v
  <2> QED  BY <1>1, <1>2, <2>1, <2>2, <2>3, <2>4, SlotKept
<1> QED  BY <1>3, <1>4

LEMMA ReconnectKept ==
  ASSUME SocketInv, NEW c \in reconnects, ReconnectStep(c)
  PROVE  SocketInv'
<1>1. /\ slots \in Seq(Slot) /\ DOMAIN slots = 1 .. Len(slots)
      /\ subs \in [Addr -> SubsOf(Len(slots))]
      /\ refreshes \in [Refresh -> RefreshesOf(Len(slots))]
      /\ reconnects \subseteq ReconnectsOf(Len(slots)) /\ watchlist \subseteq Addr
  BY DEF SocketInv, SocketTypes
<1>2. /\ c.slot \in DOMAIN slots /\ slots[c.slot] \in Slot /\ c.users \subseteq Addr
      /\ c \in ReconnectsOf(Len(slots))
  BY <1>1 DEF ReconnectsOf
<1>3. slots[c.slot].users \subseteq slots[c.slot].unheard \/ slots[c.slot].heard
  BY <1>2 DEF SocketInv, UsersAreConnected
<1>4. slots[c.slot].ws = "heard" => slots[c.slot].heard
  BY <1>2 DEF SocketInv, ListenedTo
<1>5. ASSUME Reconnect(c) PROVE SocketInv'
  <2>1. UNCHANGED <<watchlist, subs, refreshes>>
    BY <1>5 DEF Reconnect
  <2>2. CASE /\ slots' = Opened(c.slot)
             /\ reconnects' = Instead(c, [c EXCEPT !.pc = "resubscribe"])
    <3> DEFINE v == [slots[c.slot] EXCEPT !.ready = TRUE, !.heard = TRUE, !.ws = "heard"]
               d == [c EXCEPT !.pc = "resubscribe"]
    <3>1. v \in Slot /\ v.heard /\ slots' = [slots EXCEPT ![c.slot] = v]
      BY <1>2, <2>2 DEF Slot, Opened
    <3>2. d \in ReconnectsOf(Len(slots)) /\ d.slot = c.slot
      BY <1>2 DEF ReconnectsOf
    <3>3. reconnects' = (reconnects \ {c}) \cup {d}
      BY <2>2 DEF Instead
    <3> HIDE DEF v, d
    <3> QED  BY <1>1, <1>2, <2>1, <3>1, <3>2, <3>3, SlotKept
  <2>3. CASE /\ slots' \in GivenUp(c.slot)
             /\ reconnects' = Instead(c, [c EXCEPT !.pc = "retry"])
    <3> DEFINE d == [c EXCEPT !.pc = "retry"]
    <3>1. PICK v \in Slot : /\ slots' = [slots EXCEPT ![c.slot] = v]
                            /\ v.heard = slots[c.slot].heard /\ v.ws = slots[c.slot].ws
                            /\ v.users = slots[c.slot].users
                            /\ v.unheard = slots[c.slot].unheard
      BY <1>2, <2>3, GivenUpSlot
    <3>2. d \in ReconnectsOf(Len(slots)) /\ d.pc = "retry"
      BY <1>2 DEF ReconnectsOf
    <3>3. reconnects' = (reconnects \ {c}) \cup {d}
      BY <2>3 DEF Instead
    <3> HIDE DEF d
    <3> QED  BY <1>1, <1>2, <1>3, <1>4, <2>1, <3>1, <3>2, <3>3, SlotKept
  <2> QED  BY <1>5, <2>2, <2>3 DEF Reconnect
<1>6. ASSUME Retry(c) PROVE SocketInv'
  <2> DEFINE v == [slots[c.slot] EXCEPT !.users = {}, !.unheard = {}]
             d == [c EXCEPT !.pc = "connect", !.users = @ \cup slots[c.slot].users]
  <2>1. /\ v \in Slot /\ slots' = [slots EXCEPT ![c.slot] = v] /\ v.users = {}
        /\ v.heard = slots[c.slot].heard /\ v.ws = slots[c.slot].ws
    BY <1>2, <1>6 DEF Retry, Slot
  <2>2. d \in ReconnectsOf(Len(slots)) /\ d.pc = "connect"
    <3>1. slots[c.slot].users \subseteq Addr
      BY <1>2 DEF Slot
    <3> QED  BY <1>2, <3>1 DEF ReconnectsOf
  <2>3. reconnects' = (reconnects \ {c}) \cup {d}
    BY <1>6 DEF Retry, Instead
  <2>4. UNCHANGED <<watchlist, subs, refreshes>>
    BY <1>6 DEF Retry
  <2> HIDE DEF v, d
  <2> QED  BY <1>1, <1>2, <1>4, <2>1, <2>2, <2>3, <2>4, SlotKept
<1>7. ASSUME Resubscribe(c) PROVE SocketInv'
  <2>1. PICK a \in c.users :
          /\ reconnects' = Instead(c, [c EXCEPT !.users = @ \ {a}])
          /\ \/ /\ c.pc = "resubscribe"
                /\ slots' = [slots EXCEPT ![c.slot].users = @ \cup {a},
                                          ![c.slot].unheard = @ \ {a}]
                /\ subs' = [subs EXCEPT ![a] = IF @ = Absent THEN @ ELSE c.slot]
             \/ UNCHANGED <<slots, subs>>
    BY <1>7 DEF Resubscribe
  <2> DEFINE d == [c EXCEPT !.users = @ \ {a}]
  <2>2. d \in ReconnectsOf(Len(slots)) /\ d.slot = c.slot /\ d.pc = c.pc
    BY <1>2 DEF ReconnectsOf
  <2>3. reconnects' = (reconnects \ {c}) \cup {d}
    BY <2>1 DEF Instead
  <2>4. UNCHANGED <<watchlist, refreshes>>
    BY <1>7 DEF Resubscribe
  <2> HIDE DEF d
  <2>5. CASE /\ c.pc = "resubscribe"
             /\ slots' = [slots EXCEPT ![c.slot].users = @ \cup {a},
                                       ![c.slot].unheard = @ \ {a}]
             /\ subs' = [subs EXCEPT ![a] = IF @ = Absent THEN @ ELSE c.slot]
    <3> DEFINE v == [slots[c.slot] EXCEPT !.users = @ \cup {a}, !.unheard = @ \ {a}]
    <3>1. v \in Slot /\ v.heard = slots[c.slot].heard /\ slots' = [slots EXCEPT ![c.slot] = v]
      BY <1>2, <2>5 DEF Slot
    <3>2. slots[c.slot].heard
      BY <2>5 DEF SocketInv, AwaitedHeard
    <3>3. subs' \in [Addr -> SubsOf(Len(slots))]
      BY <1>1, <1>2, <2>5 DEF SubsOf
    <3> HIDE DEF v
    <3> QED  BY <1>1, <1>2, <2>2, <2>3, <2>4, <3>1, <3>2, <3>3, SlotKept
  <2>6. CASE UNCHANGED <<slots, subs>>
    BY <1>1, <2>2, <2>3, <2>4, <2>6
    DEF SocketInv, SocketTypes, AwaitedHeard, UsersAreConnected, ListenedTo
  <2> QED  BY <2>1, <2>5, <2>6
<1>8. ASSUME Reconnected(c) PROVE SocketInv'
  BY <1>1, <1>8
  DEF Reconnected, SocketInv, SocketTypes, AwaitedHeard, UsersAreConnected, ListenedTo
<1> QED  BY <1>5, <1>6, <1>7, <1>8 DEF ReconnectStep

LEMMA RestartKept == ASSUME Restart, watchlist \subseteq Addr PROVE SocketInv'
<1>1. slots' \in Seq(Slot) /\ Len(slots') = 0 /\ DOMAIN slots' = {}
  BY DEF Restart
<1>2. refreshes' \in [Refresh -> {IdleRefresh}] /\ IdleRefresh.pc = "idle"
  BY DEF Restart, IdleRefresh
<1> QED  BY <1>1, <1>2 DEF Restart, SocketInv, SocketTypes, AwaitedHeard, UsersAreConnected,
              ListenedTo, SubsOf, RefreshesOf

LEMMA SocketNext == SocketInv /\ [Next]_vars => SocketInv'
<1> SUFFICES ASSUME SocketInv, [Next]_vars PROVE SocketInv'
  OBVIOUS
<1>1. watchlist \subseteq Addr
  BY DEF SocketInv, SocketTypes
<1>2. ASSUME UNCHANGED socketVars, watchlist' \subseteq Addr PROVE SocketInv'
  BY <1>2, SocketsKept DEF socketVars
<1>3. ASSUME NEW a \in Observed,
             PrimeStep(a) \/ ensureFreshSnapshots(a) \/ UserEvents(a) \/ Move(a)
      PROVE  SocketInv'
  BY <1>1, <1>2, <1>3 DEF PrimeStep, Answer, Apply, Store, ensureFreshSnapshots, UserEvents, Move
<1>4. ASSUME NEW r \in Refresh, RefreshStep(r) PROVE SocketInv'
  BY <1>4, BeginKept, GetSlotKept, ConnectKept, SubscribeKept DEF RefreshStep
<1>5. CASE Restart
  BY <1>1, <1>5, RestartKept
<1>6. CASE Change
  BY <1>2, <1>6 DEF Change
<1>7. CASE UNCHANGED vars
  BY <1>1, <1>2, <1>7 DEF vars
<1> QED  BY <1>3, <1>4, <1>5, <1>6, <1>7, CloseKept, LateKept, ReconnectKept DEF Next

(* primeFromHttp begins at most one look, at a position nobody looks at.   *)
LEMMA PrimeKept ==
  ASSUME PositionInv, NEW a \in Addr, primes' = primeFromHttp(a),
         UNCHANGED <<position, snapshots, row>>
  PROVE  PositionInv'
<1>1. \/ primes' = primes
      \/ /\ CallsFor(a) = {}
         /\ primes' = primes \cup {[address |-> a, pc |-> "asked"]}
  BY DEF primeFromHttp
<1>2. CASE primes' = primes
  BY <1>2 DEF PositionInv, PositionTypes, OneLook, LooksFresh
<1>3. CASE /\ CallsFor(a) = {}
           /\ primes' = primes \cup {[address |-> a, pc |-> "asked"]}
  <2>1. \A p \in primes : p.address # a
    BY <1>3 DEF CallsFor
  <2>2. \A p \in primes' : p \in primes \/ (p.address = a /\ p.pc = "asked")
    BY <1>3
  <2>3. OneLook'
    BY <1>3, <2>1 DEF PositionInv, OneLook
  <2>4. PositionTypes'
    BY <2>2 DEF PositionInv, PositionTypes
  <2>5. LooksFresh'
    BY <2>2 DEF PositionInv, LooksFresh
  <2> QED  BY <2>3, <2>4, <2>5 DEF PositionInv
<1> QED  BY <1>1, <1>2, <1>3

(* A look moves on, or is dropped: there are no more looks than before.    *)
LEMMA OneLookKept ==
  ASSUME OneLook, NEW p \in primes, NEW S, primes' = (primes \ {p}) \cup S,
         \A q, r \in S : q = r, \A q \in S : q.address = p.address
  PROVE  OneLook'
BY DEF OneLook

LEMMA AnswerKept ==
  ASSUME PositionInv, NEW a \in Addr, Answer(a)
  PROVE  PositionInv'
<1>1. PICK p \in CallsFor(a), ok \in BOOLEAN :
        /\ p.pc = "asked"
        /\ primes' = (primes \ {p}) \cup
             (IF ok THEN {[address |-> a, pc |-> "answered", seen |-> position[a]]} ELSE {})
  BY DEF Answer
<1>2. p \in primes /\ p.address = a /\ UNCHANGED <<position, snapshots, row>>
  BY <1>1 DEF CallsFor, Answer
<1> DEFINE new == IF ok THEN {[address |-> a, pc |-> "answered", seen |-> position[a]]} ELSE {}
<1>3. \A q \in new : q.address = a /\ q.pc = "answered" /\ q.seen = position[a]
  OBVIOUS
<1>4. \A q, r \in new : q = r
  OBVIOUS
<1>5. primes' = (primes \ {p}) \cup new
  BY <1>1
<1> HIDE DEF new
<1>6. OneLook'
  BY <1>2, <1>3, <1>4, <1>5, OneLookKept DEF PositionInv
<1>7. \A q \in primes' : q \in primes \/ q \in new
  BY <1>5
<1>8. PositionTypes'
  BY <1>2, <1>3, <1>7 DEF PositionInv, PositionTypes
<1>9. LooksFresh'
  BY <1>2, <1>3, <1>7 DEF PositionInv, PositionTypes, LooksFresh, Looked
<1> QED  BY <1>6, <1>8, <1>9 DEF PositionInv

LEMMA ApplyKept ==
  ASSUME PositionInv, NEW a \in Addr, Apply(a)
  PROVE  /\ PositionInv'
         /\ \A b \in Addr : snapshots'[b].n >= snapshots[b].n
         /\ row' = row
<1>1. PICK p \in CallsFor(a) :
        /\ p.pc = "answered"
        /\ snapshots' = IF News(a, p.seen) THEN [snapshots EXCEPT ![a] = p.seen] ELSE snapshots
        /\ primes' = (primes \ {p}) \cup
             (IF News(a, p.seen) THEN {[p EXCEPT !.pc = "storing"]} ELSE {})
  BY DEF Apply
<1>2. p \in primes /\ p.address = a /\ UNCHANGED <<position, row>>
  BY <1>1 DEF CallsFor, Apply
<1>3. /\ p.seen \in Looked /\ row[a].n <= p.seen.n /\ p.seen.n <= position[a].n
      /\ snapshots[a].n <= p.seen.n
  BY <1>1, <1>2 DEF PositionInv, PositionTypes, LooksFresh
<1> DEFINE q == [p EXCEPT !.pc = "storing"]
<1>4. q.address = a /\ q.pc = "storing" /\ q.seen = p.seen
  BY <1>1, <1>2
<1>5. \/ snapshots' = snapshots /\ primes' = primes \ {p}
      \/ snapshots' = [snapshots EXCEPT ![a] = p.seen] /\ primes' = (primes \ {p}) \cup {q}
  BY <1>1
<1> HIDE DEF q
<1>6. \A r \in primes' : (r \in primes /\ r.address # a) \/ r = q
  BY <1>2, <1>5 DEF PositionInv, OneLook
<1>7. OneLook'
  BY <1>2, <1>4, <1>5 DEF PositionInv, OneLook
<1>8. /\ snapshots' \in [Addr -> Looked] /\ snapshots'[a] \in {snapshots[a], p.seen}
      /\ \A b \in Addr \ {a} : snapshots'[b] = snapshots[b]
  BY <1>3, <1>5 DEF PositionInv, PositionTypes
<1>9. PositionTypes'
  BY <1>2, <1>3, <1>4, <1>6, <1>8 DEF PositionInv, PositionTypes
<1>10. LooksFresh'
  <2>1. \A b \in Addr : snapshots'[b].n <= position[b].n /\ row[b].n <= position[b].n
    BY <1>3, <1>8 DEF PositionInv, LooksFresh
  <2>2. \A r \in primes' : r.pc # "asked" =>
          /\ row[r.address].n <= r.seen.n /\ r.seen.n <= position[r.address].n
          /\ r.pc = "answered" => snapshots'[r.address].n <= r.seen.n
    BY <1>3, <1>4, <1>6, <1>8 DEF PositionInv, PositionTypes, LooksFresh
  <2> QED  BY <1>2, <2>1, <2>2 DEF LooksFresh
<1>11. \A b \in Addr : snapshots'[b].n >= snapshots[b].n
  BY <1>3, <1>8 DEF PositionInv, PositionTypes, Looked
<1> QED  BY <1>2, <1>7, <1>9, <1>10, <1>11 DEF PositionInv

LEMMA StoreKept ==
  ASSUME PositionInv, NEW a \in Addr, Store(a)
  PROVE  /\ PositionInv'
         /\ \A b \in Addr : row'[b].n >= row[b].n
         /\ snapshots' = snapshots
<1>1. PICK p \in CallsFor(a) :
        /\ p.pc = "storing" /\ primes' = primes \ {p}
        /\ row' = row \/ row' = [row EXCEPT ![a] = p.seen]
  BY DEF Store
<1>2. p \in primes /\ p.address = a /\ UNCHANGED <<position, snapshots>>
  BY <1>1 DEF CallsFor, Store
<1>3. p.seen \in Looked /\ row[a].n <= p.seen.n /\ p.seen.n <= position[a].n
  BY <1>1, <1>2 DEF PositionInv, PositionTypes, LooksFresh
<1>4. \A r \in primes' : r \in primes /\ r.address # a
  BY <1>1, <1>2 DEF PositionInv, OneLook
<1>5. OneLook'
  BY <1>1 DEF PositionInv, OneLook
<1>6. /\ row' \in [Addr -> Looked] /\ row'[a] \in {row[a], p.seen}
      /\ \A b \in Addr \ {a} : row'[b] = row[b]
  BY <1>1, <1>3 DEF PositionInv, PositionTypes
<1>7. PositionTypes'
  BY <1>2, <1>4, <1>6 DEF PositionInv, PositionTypes
<1>8. LooksFresh'
  <2>1. \A b \in Addr : snapshots[b].n <= position[b].n /\ row'[b].n <= position[b].n
    BY <1>3, <1>6 DEF PositionInv, LooksFresh
  <2>2. \A r \in primes' : r.pc # "asked" =>
          /\ row'[r.address].n <= r.seen.n /\ r.seen.n <= position[r.address].n
          /\ r.pc = "answered" => snapshots[r.address].n <= r.seen.n
    BY <1>4, <1>6 DEF PositionInv, PositionTypes, LooksFresh
  <2> QED  BY <1>2, <2>1, <2>2 DEF LooksFresh
<1>9. \A b \in Addr : row'[b].n >= row[b].n
  BY <1>3, <1>6 DEF PositionInv, PositionTypes, Looked
<1> QED  BY <1>2, <1>5, <1>7, <1>8, <1>9 DEF PositionInv

LEMMA MoveKept ==
  ASSUME PositionInv, NEW a \in Addr, Move(a)
  PROVE  PositionInv'
<1>1. PICK size \in {0, 1} : position' = [position EXCEPT ![a] = [n |-> @.n + 1, size |-> size]]
  BY DEF Move
<1>2. UNCHANGED <<snapshots, row, primes>>
  BY DEF Move, primeVars
<1>3. position' \in [Addr -> Looked] /\ \A b \in Addr : position[b].n <= position'[b].n
  BY <1>1 DEF PositionInv, PositionTypes, Looked
<1>4. PositionTypes' /\ OneLook'
  BY <1>2, <1>3 DEF PositionInv, PositionTypes, OneLook
<1>5. LooksFresh'
  <2>1. \A b \in Addr : snapshots[b].n <= position'[b].n /\ row[b].n <= position'[b].n
    BY <1>3 DEF PositionInv, PositionTypes, LooksFresh, Looked
  <2>2. \A p \in primes : p.pc # "asked" => p.seen.n <= position'[p.address].n
    BY <1>3 DEF PositionInv, PositionTypes, LooksFresh, Looked
  <2> QED  BY <1>2, <2>1, <2>2 DEF PositionInv, LooksFresh
<1> QED  BY <1>4, <1>5 DEF PositionInv

LEMMA ForgottenKept ==
  ASSUME PositionInv, Restart
  PROVE  PositionInv'
<1>1. /\ primes' = {} /\ snapshots' = [b \in Addr |-> Unknown]
      /\ UNCHANGED <<position, row>>
  BY DEF Restart
<1>2. Unknown \in Looked /\ Unknown.n = 0
  BY DEF Unknown, Looked
<1> HIDE DEF Unknown
<1> QED  BY <1>1, <1>2 DEF PositionInv, PositionTypes, OneLook, LooksFresh, Looked

(* A step keeps the invariant and takes no snapshot and no row back; only  *)
(* a restart takes the snapshots, all of them.                             *)
NeverBack ==
  \A a \in Addr :
    /\ row'[a].n >= row[a].n
    /\ snapshots'[a].n >= snapshots[a].n \/ snapshots' = [b \in Addr |-> Unknown]

LEMMA PositionNext ==
  SocketInv /\ PositionInv /\ [Next]_vars => PositionInv' /\ NeverBack
<1> SUFFICES ASSUME SocketInv, PositionInv, [Next]_vars PROVE PositionInv' /\ NeverBack
  OBVIOUS
<1>1. Observed \subseteq Addr
  BY TrackerAssumption
<1>2. \A a \in Addr : row[a].n \in Nat /\ snapshots[a].n \in Nat
  BY DEF PositionInv, PositionTypes, Looked
<1>3. ASSUME UNCHANGED <<snapshots, row>> PROVE NeverBack
  BY <1>2, <1>3 DEF NeverBack
<1>4. ASSUME NEW a \in Observed,
             PrimeStep(a) \/ ensureFreshSnapshots(a) \/ UserEvents(a) \/ Move(a)
      PROVE  PositionInv' /\ NeverBack
  <2>1. a \in Addr
    BY <1>1
  <2>2. CASE Answer(a)
    BY <1>3, <2>1, <2>2, AnswerKept DEF Answer
  <2>3. CASE Apply(a)
    BY <1>2, <2>1, <2>3, ApplyKept DEF NeverBack
  <2>4. CASE Store(a)
    BY <1>2, <2>1, <2>4, StoreKept DEF NeverBack
  <2>5. CASE ensureFreshSnapshots(a) \/ UserEvents(a)
    BY <1>3, <2>1, <2>5, PrimeKept DEF ensureFreshSnapshots, UserEvents
  <2>6. CASE Move(a)
    BY <1>3, <2>1, <2>6, MoveKept DEF Move, primeVars
  <2> QED  BY <1>4, <2>2, <2>3, <2>4, <2>5, <2>6 DEF PrimeStep
<1>5. ASSUME UNCHANGED <<position, snapshots, row, primes>> PROVE PositionInv' /\ NeverBack
  BY <1>3, <1>5 DEF PositionInv, PositionTypes, OneLook, LooksFresh
<1>6. ASSUME NEW r \in Refresh, RefreshStep(r) PROVE PositionInv' /\ NeverBack
  <2>1. refreshes[r].pc \in {"connect", "confirm", "deaf", "lost"} => refreshes[r].address \in Addr
    BY RefreshKinds DEF SocketInv, Waiting
  <2>2. CASE BeginRefresh(r) \/ getAvailableWsSlot(r)
    BY <1>5, <2>2 DEF BeginRefresh, getAvailableWsSlot, primeVars
  <2>3. CASE Connect(r)
    BY <1>3, <1>5, <2>1, <2>3, PrimeKept DEF Connect
  <2>4. CASE subscribeAddress(r)
    <3>1. refreshes[r].pc \in {"confirm", "deaf", "lost"}
      BY <2>4 DEF subscribeAddress
    <3>2. primes' = primeFromHttp(refreshes[r].address) /\ UNCHANGED <<position, snapshots, row>>
      BY <2>4 DEF subscribeAddress
    <3> QED  BY <1>3, <2>1, <3>1, <3>2, PrimeKept
  <2> QED  BY <1>6, <2>2, <2>3, <2>4 DEF RefreshStep
<1>7. ASSUME NEW i \in DOMAIN slots, Close(i) \/ LateOpen(i) \/ DeafClose(i)
      PROVE  PositionInv' /\ NeverBack
  BY <1>5, <1>7 DEF Close, LateOpen, DeafClose, primeVars
<1>8. ASSUME NEW c \in reconnects, ReconnectStep(c) PROVE PositionInv' /\ NeverBack
  BY <1>5, <1>8 DEF ReconnectStep, Reconnect, Retry, Resubscribe, Reconnected, primeVars
<1>9. CASE Restart
  BY <1>2, <1>9, ForgottenKept DEF NeverBack, Restart
<1>10. CASE Change
  BY <1>5, <1>10 DEF Change, primeVars
<1>11. CASE UNCHANGED vars
  BY <1>5, <1>11 DEF vars, primeVars
<1> QED  BY <1>4, <1>6, <1>7, <1>8, <1>9, <1>10, <1>11 DEF Next

(* The inductive invariants hold in every reachable state.                 *)
THEOREM TrackerInvariance == Spec => [](SocketInv /\ PositionInv)
<1>1. SocketInv /\ PositionInv /\ [Next]_vars => (SocketInv /\ PositionInv)'
  BY SocketNext, PositionNext
<1> QED  BY <1>1, TInit, PTL DEF Spec

(* Who counts as a user of a slot is on an open connection that is         *)
(* listened to, however refreshes, reconnections, late openings and        *)
(* closings interleave, unless it subscribed on one that opened too late.  *)
THEOREM UsersConnected == Spec => []UsersAreConnected
<1>1. SocketInv => UsersAreConnected
  BY DEF SocketInv
<1> QED  BY <1>1, TrackerInvariance, PTL

(* Neither a snapshot nor a row goes back to an older position: as there   *)
(* is one call of performPrime per address, none is overtaken.             *)
THEOREM NoOlderPosition == Spec => PositionsNeverRegress
<1>1. SocketInv /\ PositionInv /\ [Next]_vars => [NeverBack]_vars
  BY PositionNext
<1> QED  BY <1>1, TrackerInvariance, PTL DEF Spec, PositionsNeverRegress, NeverBack
=============================================================================
