------------------------ MODULE SubscriptionManager ------------------------
(***************************************************************************)
(* The SubscriptionManager of ts-lib: which of the watched addresses get   *)
(* one of the few WebSocket slots and which are polled.                    *)
(*                                                                         *)
(* An address is registered by one or more sources.  The Map that holds    *)
(* the entries remembers insertion order, and every operation ends in      *)
(* reassignMethods, which deals the slots out anew: first to pinned        *)
(* addresses, then to those the user promoted, then to the others by the   *)
(* priority of their sources, keeping a slot free for every address the    *)
(* user demoted.  Operations run to completion before their first await,   *)
(* so each one is a single step.                                           *)
(***************************************************************************)
EXTENDS Integers, FiniteSets

CONSTANTS
  Addr,      \* normalised addresses
  Source,    \* names of registering sources, "pinned" among them
  MaxSlots   \* the largest number of slots the service is given

ASSUME AddrFinite == IsFiniteSet(Addr)
ASSUME SlotsAssumption == MaxSlots \in Nat

VARIABLES
  sources,          \* sources[a]: who registered a; {} for no entry
  earlier,          \* <<a, b>>: a comes before b in the Map
  method,           \* method[a]: "none", "polling" or "websocket"
  manualPolling,    \* manualPolling[a]: the user demoted a
  manualWebsocket,  \* manualWebsocket[a]: the user promoted a
  maxWebSocketSlots

managerVars == <<sources, earlier, method, manualPolling, manualWebsocket, maxWebSocketSlots>>

(* The list of addresses of a request, repetitions taken out.              *)
Lists ==
  {l \in UNION {[1 .. n -> Addr] : n \in 0 .. Cardinality(Addr)} :
     \A i, j \in DOMAIN l : l[i] = l[j] => i = j}
Entries(l) == {l[i] : i \in DOMAIN l}

Least(m, n) == IF m < n THEN m ELSE n
NonNegative(n) == IF n > 0 THEN n ELSE 0

registered == {a \in Addr : sources[a] # {}}
WithMethod(m) == {a \in Addr : method[a] = m}

Priority(s) ==
  IF s = "pinned" THEN 0 ELSE IF s = "legacy" THEN 1 ELSE IF s = "alpha-pool" THEN 2 ELSE 100

(* The best (smallest) priority among the sources of an entry.             *)
getEntryPriority(src) ==
  CHOOSE p \in {0, 1, 2, 100} :
    /\ \E s \in src : Priority(s) = p
    /\ \A s \in src : Priority(s) >= p

(* The first k of S in the order rel.                                      *)
FirstOf(rel, S, k) == {a \in S : Cardinality({b \in S : <<b, a>> \in rel}) < k}

(* Slip: the sort by priority is forgotten.                                *)
byPriorityUnsorted(rel, src) == rel

(* The order of a stable sort by priority.                                 *)
byPriority(rel, src) ==
  {p \in Addr \X Addr :
     \/ getEntryPriority(src[p[1]]) < getEntryPriority(src[p[2]])
     \/ getEntryPriority(src[p[1]]) = getEntryPriority(src[p[2]]) /\ p \in rel}

(* The four categories of reassignMethods.                                 *)
Pinned(src) == {a \in Addr : "pinned" \in src[a]}
Unpinned(src) == {a \in Addr : src[a] # {} /\ "pinned" \notin src[a]}
Demoted(src, mp) == {a \in Unpinned(src) : mp[a]}
Promoted(src, mp, mw) == {a \in Unpinned(src) : ~mp[a] /\ mw[a]}
AutoAssigned(src, mp, mw) == {a \in Unpinned(src) : ~mp[a] /\ ~mw[a]}

ReservedSlots(src, mp, mw) ==
  NonNegative(Cardinality(Demoted(src, mp)) - Cardinality(Promoted(src, mp, mw)))

(* Slots used by pinned entries, then by promoted ones.                    *)
SlotsForPinned(src, max) == Least(Cardinality(Pinned(src)), max)
SlotsForManualWs(src, mp, mw, max) ==
  Least(Cardinality(Promoted(src, mp, mw)), max - SlotsForPinned(src, max))

(* Slip: the slots of demoted addresses are given away.                    *)
SlotsForAutoNoReserve(src, mp, mw, max) ==
  NonNegative(max - SlotsForPinned(src, max) - SlotsForManualWs(src, mp, mw, max))

(* Slip: the promoted addresses are not subtracted.                        *)
SlotsForAutoIgnoringPromoted(src, mp, mw, max) ==
  NonNegative(max - SlotsForPinned(src, max) - ReservedSlots(src, mp, mw))

SlotsForAuto(src, mp, mw, max) ==
  NonNegative(max - SlotsForPinned(src, max) - SlotsForManualWs(src, mp, mw, max)
                  - ReservedSlots(src, mp, mw))

(* The addresses that end up with a WebSocket.                             *)
Streamed(src, rel, mp, mw, max) ==
  FirstOf(rel, Pinned(src), max)
    \cup FirstOf(rel, Promoted(src, mp, mw), max - SlotsForPinned(src, max))
    \cup FirstOf(byPriority(rel, src), AutoAssigned(src, mp, mw), SlotsForAuto(src, mp, mw, max))

(* reassignMethods, at the end of an operation that leaves the sources     *)
(* src, the Map order rel, the flags mp and mw and max slots.  A promoted  *)
(* address without a slot loses its flag.                                  *)
reassignMethods(src, rel, mp, mw, max) ==
  LET ws == Streamed(src, rel, mp, mw, max) IN
  /\ sources' = src
  /\ earlier' = rel
  /\ manualPolling' = mp
  /\ manualWebsocket' = [a \in Addr |-> mw[a] /\ (a \in Promoted(src, mp, mw) => a \in ws)]
  /\ method' = [a \in Addr |-> IF a \in ws THEN "websocket"
                               ELSE IF src[a] # {} THEN "polling" ELSE "none"]
  /\ maxWebSocketSlots' = max

-----------------------------------------------------------------------------
Init ==
  /\ sources = [a \in Addr |-> {}]
  /\ earlier = {}
  /\ method = [a \in Addr |-> "none"]
  /\ manualPolling = [a \in Addr |-> FALSE]
  /\ manualWebsocket = [a \in Addr |-> FALSE]
  /\ maxWebSocketSlots \in 0 .. MaxSlots

(* Deleting an entry loses its flags with it; new entries come last, in    *)
(* the order of the list l.                                                *)
UpdateEntries(src, l) ==
  LET kept  == {a \in registered : src[a] # {}}
      added == {a \in Addr \ registered : src[a] # {}}
      rel   == {p \in earlier : p[1] \in kept /\ p[2] \in kept}
                 \cup (kept \X added)
                 \cup {p \in added \X added : \E i, j \in DOMAIN l :
                         i < j /\ l[i] = p[1] /\ l[j] = p[2]}
  IN  reassignMethods(src, rel,
                      [a \in Addr |-> manualPolling[a] /\ a \in kept],
                      [a \in Addr |-> manualWebsocket[a] /\ a \in kept],
                      maxWebSocketSlots)

register(s, l) ==
  UpdateEntries([a \in Addr |-> IF a \in Entries(l) THEN sources[a] \cup {s} ELSE sources[a]], l)

unregister(s, l) ==
  UpdateEntries([a \in Addr |-> IF a \in Entries(l) THEN sources[a] \ {s} ELSE sources[a]], l)

replaceForSource(s, l) ==
  UpdateEntries([a \in Addr |-> IF a \in Entries(l) THEN sources[a] \cup {s}
                                                    ELSE sources[a] \ {s}], l)

getAddressesForSource(s) ==
  CHOOSE l \in Lists :
    /\ Entries(l) = {a \in Addr : s \in sources[a]}
    /\ \A i, j \in DOMAIN l : i < j => <<l[i], l[j]>> \in earlier

(* Refused for pinned and unknown addresses; whether the address uses a    *)
(* WebSocket at present is not looked at.                                  *)
demoteToPolling(a) ==
  /\ a \in registered
  /\ "pinned" \notin sources[a]
  /\ reassignMethods(sources, earlier,
                     [manualPolling EXCEPT ![a] = TRUE],
                     [manualWebsocket EXCEPT ![a] = FALSE],
                     maxWebSocketSlots)

(* Refused for unknown addresses and when no slot is free.                 *)
promoteToWebsocket(a) ==
  /\ a \in registered
  /\ Cardinality(WithMethod("websocket")) < maxWebSocketSlots
  /\ reassignMethods(sources, earlier,
                     [manualPolling EXCEPT ![a] = FALSE],
                     [manualWebsocket EXCEPT ![a] = TRUE],
                     maxWebSocketSlots)

clearManualOverride(a) ==
  /\ a \in registered
  /\ reassignMethods(sources, earlier,
                     [manualPolling EXCEPT ![a] = FALSE],
                     [manualWebsocket EXCEPT ![a] = FALSE],
                     maxWebSocketSlots)

(* Slip: the new limit is stored and the methods are left as they were.    *)
setMaxWithoutReassign(max) ==
  /\ maxWebSocketSlots' = max
  /\ UNCHANGED <<sources, earlier, method, manualPolling, manualWebsocket>>

setMaxWebSocketSlots(max) ==
  reassignMethods(sources, earlier, manualPolling, manualWebsocket, max)

clear ==
  /\ sources' = [a \in Addr |-> {}]
  /\ earlier' = {}
  /\ method' = [a \in Addr |-> "none"]
  /\ manualPolling' = [a \in Addr |-> FALSE]
  /\ manualWebsocket' = [a \in Addr |-> FALSE]
  /\ UNCHANGED maxWebSocketSlots

Next ==
  \/ \E s \in Source, l \in Lists : register(s, l)
  \/ \E s \in Source, l \in Lists : unregister(s, l)
  \/ \E s \in Source, l \in Lists : replaceForSource(s, l)
  \/ \E a \in Addr : demoteToPolling(a)
  \/ \E a \in Addr : promoteToWebsocket(a)
  \/ \E a \in Addr : clearManualOverride(a)
  \/ \E max \in 0 .. MaxSlots : setMaxWebSocketSlots(max)
  \/ clear

Spec == Init /\ [][Next]_managerVars

-----------------------------------------------------------------------------
TypeOK ==
  /\ sources \in [Addr -> SUBSET Source]
  /\ earlier \subseteq registered \X registered
  /\ method \in [Addr -> {"none", "polling", "websocket"}]
  /\ manualPolling \in [Addr -> BOOLEAN]
  /\ manualWebsocket \in [Addr -> BOOLEAN]
  /\ maxWebSocketSlots \in 0 .. MaxSlots

(* The slots are never oversubscribed, whatever mixture of registrations,  *)
(* overrides and limit changes reassignMethods has gone through.           *)
SlotsRespected == Cardinality(WithMethod("websocket")) <= maxWebSocketSlots

(* Who goes without: a pinned address only if pinned addresses hold all    *)
(* the slots; of the addresses without an override (reassignMethods'       *)
(* autoEntries) none is passed over for one of lower priority, and none    *)
(* for one of its own priority that came later.                            *)
NoPriorityInversion ==
  \A a \in WithMethod("polling"), b \in WithMethod("websocket") :
    /\ a \in Pinned(sources) => b \in Pinned(sources)
    /\ {a, b} \subseteq AutoAssigned(sources, manualPolling, manualWebsocket) =>
         LET pa == getEntryPriority(sources[a])
             pb == getEntryPriority(sources[b])
         IN  pb < pa \/ (pb = pa /\ <<b, a>> \in earlier)

(* A slot the user freed by a demotion stays empty until the user fills    *)
(* it: of the slots that pinned and promoted addresses leave, the          *)
(* automatic assignment spares one for each demotion not yet offset by a   *)
(* promotion.                                                              *)
DemotedSlotsStayFree ==
  LET used(S) == Cardinality(S \cap WithMethod("websocket"))
      left    == maxWebSocketSlots - used(Pinned(sources))
                   - used(Promoted(sources, manualPolling, manualWebsocket))
      owed    == Cardinality(Demoted(sources, manualPolling))
                   - Cardinality(Promoted(sources, manualPolling, manualWebsocket))
  IN  maxWebSocketSlots - used(Addr) >= Least(owed, left)

(* The methods in force are those a further reassignMethods would choose,  *)
(* so a watchlist refresh that changes nothing moves no address.           *)
Settled ==
  WithMethod("websocket") =
    Streamed(sources, earlier, manualPolling, manualWebsocket, maxWebSocketSlots)
=============================================================================
