--------------------- MODULE SubscriptionManagerProofs ---------------------
(***************************************************************************)
(* Proofs about SubscriptionManager and about Watchlist, hl-stream's use   *)
(* of it.  Of the manager, for every finite set of addresses, every set of *)
(* sources and every limit: the WebSocket slots are never oversubscribed,  *)
(* they are dealt by priority, a demoted slot stays free, and the          *)
(* assignment is settled.                                                  *)
(*                                                                         *)
(* The inductive invariant IInv adds to the types that the Map order is a  *)
(* strict total order on the registered addresses: without it two          *)
(* addresses could have the same rank, and "the first k of a category"     *)
(* could be more than k.  MethodsDealt says that the methods in force are  *)
(* those reassignMethods deals from the present Map: the other promises    *)
(* are properties of a deal, whatever call led to it.                      *)
(*                                                                         *)
(* The last section: hl-stream drives the manager only through its         *)
(* operations, so what is proved of the manager holds in hl-stream, for    *)
(* every number of overlapping refreshes and of API calls; and a refresh   *)
(* touches the registrations of no other source.  The answers a refresh carries over its awaits are  *)
(* lists of addresses; for the answer that a failed fetch takes from the   *)
(* manager itself this needs that the Map order is strict.                 *)
(***************************************************************************)
EXTENDS Watchlist, FiniteSetTheorems, TLAPS

StrictOrder(rel, S) ==
  /\ \A a \in S : <<a, a>> \notin rel
  /\ \A a, b, c \in S : <<a, b>> \in rel /\ <<b, c>> \in rel => <<a, c>> \in rel
  /\ \A a, b \in S : a # b => <<a, b>> \in rel \/ <<b, a>> \in rel

IInv == TypeOK /\ StrictOrder(earlier, registered) /\ SlotsRespected

(* The first k members of a strict order are at most k: their ranks are    *)
(* different and lie in 0 .. k - 1.                                        *)
LEMMA FirstOfBound ==
  ASSUME NEW rel, NEW S, IsFiniteSet(S), StrictOrder(rel, S), NEW k \in Nat
  PROVE  /\ IsFiniteSet(FirstOf(rel, S, k))
         /\ Cardinality(FirstOf(rel, S, k)) <= k
         /\ Cardinality(FirstOf(rel, S, k)) <= Cardinality(S)
<1> DEFINE B(a) == {b \in S : <<b, a>> \in rel}
           T == FirstOf(rel, S, k)
           f == [a \in T |-> Cardinality(B(a))]
<1>1. \A a \in S : IsFiniteSet(B(a)) /\ Cardinality(B(a)) \in Nat
  BY FS_Subset, FS_CardinalityType
<1>2. \A a \in T : f[a] \in 0 .. (k - 1)
  BY <1>1 DEF FirstOf
<1>3. ASSUME NEW a \in S, NEW c \in S, <<a, c>> \in rel
      PROVE  Cardinality(B(a)) < Cardinality(B(c))
  <2>1. B(a) \subseteq B(c) /\ a \in B(c) /\ a \notin B(a)
    BY <1>3 DEF StrictOrder
  <2>2. Cardinality(B(a)) <= Cardinality(B(c)) /\ Cardinality(B(a)) # Cardinality(B(c))
    BY <2>1, <1>1, FS_Subset
  <2> QED  BY <2>2, <1>1
<1>4. \A a, c \in T : f[a] = f[c] => a = c
  <2> SUFFICES ASSUME NEW a \in T, NEW c \in T, a # c
               PROVE  f[a] # f[c]
    OBVIOUS
  <2>1. a \in S /\ c \in S
    BY DEF FirstOf
  <2>2. Cardinality(B(a)) < Cardinality(B(c)) \/ Cardinality(B(c)) < Cardinality(B(a))
    BY <2>1, <1>3 DEF StrictOrder
  <2> QED  BY <2>1, <2>2, <1>1
<1>5. f \in Injection(T, 0 .. (k - 1))
  BY <1>2, <1>4 DEF Injection, IsInjective
<1>6. IsFiniteSet(0 .. (k - 1)) /\ Cardinality(0 .. (k - 1)) = k
  BY FS_Interval
<1>7. T \subseteq S
  BY DEF FirstOf
<1> QED  BY <1>5, <1>6, <1>7, FS_Injection, FS_Subset

LEMMA PriorityType ==
  ASSUME NEW src, src # {}
  PROVE  getEntryPriority(src) \in Nat
<1>1. \A s \in src : Priority(s) \in {0, 1, 2, 100}
  BY DEF Priority
<1>2. \E p \in {0, 1, 2, 100} : /\ \E s \in src : Priority(s) = p
                               /\ \A s \in src : Priority(s) >= p
  <2>1. CASE \E s \in src : Priority(s) = 0
    BY <2>1, <1>1
  <2>2. CASE ~(\E s \in src : Priority(s) = 0) /\ (\E s \in src : Priority(s) = 1)
    BY <2>2, <1>1
  <2>3. CASE (\A s \in src : Priority(s) \notin {0, 1}) /\ (\E s \in src : Priority(s) = 2)
    BY <2>3, <1>1
  <2>4. CASE \A s \in src : Priority(s) \notin {0, 1, 2}
    BY <2>4, <1>1
  <2> QED  BY <2>1, <2>2, <2>3, <2>4
<1>3. getEntryPriority(src) \in {0, 1, 2, 100}
  BY <1>2 DEF getEntryPriority
<1> QED  BY <1>3

(* A stable sort by priority is a strict order where the order it refines  *)
(* is one.                                                                 *)
LEMMA ByPriorityOrder ==
  ASSUME NEW rel, NEW src \in [Addr -> SUBSET Source], NEW S \in SUBSET Addr,
         \A a \in S : src[a] # {}, StrictOrder(rel, S)
  PROVE  StrictOrder(byPriority(rel, src), S)
<1> DEFINE p(a) == getEntryPriority(src[a])
<1>1. \A a \in S : p(a) \in Nat
  BY PriorityType
<1>2. \A a, b \in S : <<a, b>> \in byPriority(rel, src) <=>
                        p(a) < p(b) \/ (p(a) = p(b) /\ <<a, b>> \in rel)
  BY DEF byPriority
<1> HIDE DEF p
<1>3. ASSUME NEW a \in S PROVE <<a, a>> \notin byPriority(rel, src)
  <2>1. <<a, a>> \notin rel /\ p(a) \in Nat
    BY <1>1 DEF StrictOrder
  <2>2. <<a, a>> \in byPriority(rel, src) => p(a) < p(a) \/ <<a, a>> \in rel
    BY <1>2
  <2> QED  BY <2>1, <2>2
<1>4. \A a, b, c \in S : <<a, b>> \in byPriority(rel, src) /\ <<b, c>> \in byPriority(rel, src)
                           => <<a, c>> \in byPriority(rel, src)
  BY <1>1, <1>2 DEF StrictOrder
<1>5. ASSUME NEW a \in S, NEW b \in S, a # b
      PROVE  <<a, b>> \in byPriority(rel, src) \/ <<b, a>> \in byPriority(rel, src)
  <2>1. <<a, b>> \in rel \/ <<b, a>> \in rel
    BY <1>5 DEF StrictOrder
  <2>2. p(a) < p(b) \/ p(b) < p(a) \/ p(a) = p(b)
    BY <1>1
  <2> QED  BY <2>1, <2>2, <1>2
<1> QED  BY <1>3, <1>4, <1>5 DEF StrictOrder

(* reassignMethods deals out at most max slots.                            *)
LEMMA StreamedBound ==
  ASSUME NEW rel, NEW src \in [Addr -> SUBSET Source], NEW mp, NEW mw, NEW max \in Nat,
         StrictOrder(rel, {a \in Addr : src[a] # {}})
  PROVE  /\ Streamed(src, rel, mp, mw, max) \subseteq {a \in Addr : src[a] # {}}
         /\ Cardinality(Streamed(src, rel, mp, mw, max)) <= max
<1> DEFINE P == Pinned(src)
           W == Promoted(src, mp, mw)
           A == AutoAssigned(src, mp, mw)
           D == Demoted(src, mp)
           sp == SlotsForPinned(src, max)
           sw == SlotsForManualWs(src, mp, mw, max)
           sa == SlotsForAuto(src, mp, mw, max)
           FP == FirstOf(rel, P, max)
           FW == FirstOf(rel, W, max - sp)
           FA == FirstOf(byPriority(rel, src), A, sa)
<1>1. /\ P \subseteq Addr /\ W \subseteq Addr /\ A \subseteq Addr /\ D \subseteq Addr
      /\ \A a \in P \cup W \cup A : src[a] # {}
  BY DEF Pinned, Unpinned, Promoted, AutoAssigned, Demoted
<1>2. /\ IsFiniteSet(P) /\ IsFiniteSet(W) /\ IsFiniteSet(A) /\ IsFiniteSet(D)
      /\ Cardinality(P) \in Nat /\ Cardinality(W) \in Nat
      /\ Cardinality(A) \in Nat /\ Cardinality(D) \in Nat
  BY <1>1, AddrFinite, FS_Subset, FS_CardinalityType
<1>3. StrictOrder(rel, P) /\ StrictOrder(rel, W) /\ StrictOrder(rel, A)
  <2>1. \A S \in SUBSET {a \in Addr : src[a] # {}} : StrictOrder(rel, S)
    BY DEF StrictOrder
  <2> QED  BY <1>1, <2>1
<1>4. StrictOrder(byPriority(rel, src), A)
  BY <1>1, <1>3, ByPriorityOrder
<1>5. sp \in Nat /\ sp <= max /\ (sp = max \/ sp = Cardinality(P))
  BY <1>2 DEF SlotsForPinned, Least
<1>6. sw \in Nat /\ sw <= max - sp /\ (sw = max - sp \/ sw = Cardinality(W))
  BY <1>2, <1>5 DEF SlotsForManualWs, Least
<1>7. ReservedSlots(src, mp, mw) \in Nat
  BY <1>2 DEF ReservedSlots, NonNegative
<1>8. sa \in Nat /\ sp + sw + sa <= max
  BY <1>5, <1>6, <1>7 DEF SlotsForAuto, NonNegative
<1>9. IsFiniteSet(FP) /\ Cardinality(FP) <= sp
  <2>1. /\ IsFiniteSet(FP) /\ Cardinality(FP) <= max /\ Cardinality(FP) <= Cardinality(P)
    BY <1>2, <1>3, FirstOfBound
  <2> QED  BY <2>1, <1>5
<1>10. IsFiniteSet(FW) /\ Cardinality(FW) <= sw
  <2>1. max - sp \in Nat
    BY <1>5
  <2>2. /\ IsFiniteSet(FW) /\ Cardinality(FW) <= max - sp /\ Cardinality(FW) <= Cardinality(W)
    BY <1>2, <1>3, <2>1, FirstOfBound
  <2> QED  BY <2>2, <1>6
<1>11. IsFiniteSet(FA) /\ Cardinality(FA) <= sa
  BY <1>2, <1>4, <1>8, FirstOfBound
<1>12. /\ IsFiniteSet(FP \cup FW \cup FA)
       /\ Cardinality(FP \cup FW \cup FA) <= Cardinality(FP) + Cardinality(FW) + Cardinality(FA)
  <2>1. /\ IsFiniteSet(FP \cup FW)
        /\ Cardinality(FP \cup FW) = Cardinality(FP) + Cardinality(FW) - Cardinality(FP \cap FW)
    BY <1>9, <1>10, FS_Union
  <2>2. /\ IsFiniteSet((FP \cup FW) \cup FA)
        /\ Cardinality((FP \cup FW) \cup FA)
             = Cardinality(FP \cup FW) + Cardinality(FA) - Cardinality((FP \cup FW) \cap FA)
    BY <1>11, <2>1, FS_Union
  <2>3. /\ IsFiniteSet(FP \cap FW) /\ IsFiniteSet((FP \cup FW) \cap FA)
    BY <1>9, <1>11, FS_Intersection
  <2>4. /\ Cardinality(FP \cap FW) \in Nat /\ Cardinality((FP \cup FW) \cap FA) \in Nat
        /\ Cardinality(FP) \in Nat /\ Cardinality(FW) \in Nat /\ Cardinality(FA) \in Nat
        /\ Cardinality(FP \cup FW) \in Nat
    BY <1>9, <1>10, <1>11, <2>1, <2>3, FS_CardinalityType
  <2> HIDE DEF FP, FW, FA
  <2> QED  BY <2>1, <2>2, <2>4
<1>13. /\ Cardinality(FP) \in Nat /\ Cardinality(FW) \in Nat /\ Cardinality(FA) \in Nat
       /\ Cardinality(FP \cup FW \cup FA) \in Nat
  BY <1>9, <1>10, <1>11, <1>12, FS_CardinalityType
<1>14. Streamed(src, rel, mp, mw, max) = FP \cup FW \cup FA
  BY DEF Streamed
<1>15. FP \subseteq P /\ FW \subseteq W /\ FA \subseteq A
  BY DEF FirstOf
<1>16. Cardinality(FP \cup FW \cup FA) <= max
  <2> HIDE DEF FP, FW, FA, sp, sw, sa
  <2> QED  BY <1>5, <1>6, <1>8, <1>9, <1>10, <1>11, <1>12, <1>13
<1> QED  BY <1>1, <1>14, <1>15, <1>16

(* An operation that ends in reassignMethods with a strict order on the    *)
(* addresses it leaves registered establishes the invariant.               *)
LEMMA ReassignInv ==
  ASSUME NEW src \in [Addr -> SUBSET Source], NEW rel,
         NEW mp \in [Addr -> BOOLEAN], NEW mw \in [Addr -> BOOLEAN], NEW max \in 0 .. MaxSlots,
         rel \subseteq {a \in Addr : src[a] # {}} \X {a \in Addr : src[a] # {}},
         StrictOrder(rel, {a \in Addr : src[a] # {}}),
         reassignMethods(src, rel, mp, mw, max)
  PROVE  IInv'
<1> DEFINE ws == Streamed(src, rel, mp, mw, max)
<1>1. max \in Nat
  BY SlotsAssumption
<1>2. ws \subseteq {a \in Addr : src[a] # {}} /\ Cardinality(ws) <= max
  BY <1>1, StreamedBound
<1>3. registered' = {a \in Addr : src[a] # {}}
  BY DEF reassignMethods, registered
<1>4. TypeOK'
  <2>1. manualWebsocket' \in [Addr -> BOOLEAN]
    BY Zenon DEF reassignMethods
  <2>2. method' \in [Addr -> {"none", "polling", "websocket"}]
    BY DEF reassignMethods
  <2> QED  BY <1>3, <2>1, <2>2 DEF TypeOK, reassignMethods
<1>5. WithMethod("websocket")' = ws
  <2>1. \A a \in Addr : method'[a] = "websocket" <=> a \in ws
    BY DEF reassignMethods
  <2> QED  BY <1>2, <2>1 DEF WithMethod
<1>6. StrictOrder(earlier, registered)' /\ SlotsRespected'
  BY <1>2, <1>3, <1>5 DEF reassignMethods, SlotsRespected, StrictOrder
<1> QED  BY <1>4, <1>6 DEF IInv

(* Additions at the end and deletions keep the Map order strict.           *)
LEMMA UpdateEntriesInv ==
  ASSUME IInv, NEW src \in [Addr -> SUBSET Source], NEW l \in Lists,
         \A a \in Addr \ registered : src[a] # {} => a \in Entries(l),
         UpdateEntries(src, l)
  PROVE  IInv'
<1> DEFINE kept  == {a \in registered : src[a] # {}}
           added == {a \in Addr \ registered : src[a] # {}}
           new   == {p \in added \X added : \E i, j \in DOMAIN l :
                       i < j /\ l[i] = p[1] /\ l[j] = p[2]}
           rel   == {p \in earlier : p[1] \in kept /\ p[2] \in kept}
                      \cup (kept \X added) \cup new
           all   == {a \in Addr : src[a] # {}}
<1>1. all = kept \cup added /\ kept \cap added = {}
  BY DEF registered
<1>2. DOMAIN l \in SUBSET Nat /\ \A i, j \in DOMAIN l : l[i] = l[j] => i = j
  BY DEF Lists
<1>3. \A a, b \in added : <<a, b>> \in new <=>
                            \E i, j \in DOMAIN l : i < j /\ l[i] = a /\ l[j] = b
  OBVIOUS
<1>4. StrictOrder(new, added)
  <2>1. \A a \in added : <<a, a>> \notin new
    BY <1>2, <1>3
  <2>2. ASSUME NEW a \in added, NEW b \in added, NEW c \in added,
               <<a, b>> \in new, <<b, c>> \in new
        PROVE  <<a, c>> \in new
    <3>1. PICK i \in DOMAIN l, j \in DOMAIN l : i < j /\ l[i] = a /\ l[j] = b
      BY <1>3, <2>2
    <3>2. PICK m \in DOMAIN l, n \in DOMAIN l : m < n /\ l[m] = b /\ l[n] = c
      BY <1>3, <2>2
    <3>3. m = j /\ i < n
      BY <3>1, <3>2, <1>2
    <3> QED  BY <3>1, <3>2, <3>3, <1>3
  <2>3. ASSUME NEW a \in added, NEW b \in added, a # b
        PROVE  <<a, b>> \in new \/ <<b, a>> \in new
    <3>1. PICK i \in DOMAIN l : l[i] = a
      BY DEF Entries
    <3>2. PICK j \in DOMAIN l : l[j] = b
      BY DEF Entries
    <3>3. i < j \/ j < i
      BY <3>1, <3>2, <1>2, <2>3
    <3> QED  BY <3>1, <3>2, <3>3, <1>3
  <2> QED  BY <2>1, <2>2, <2>3 DEF StrictOrder
<1>5. StrictOrder(earlier, kept) /\ earlier \subseteq registered \X registered
  BY DEF IInv, TypeOK, StrictOrder
<1>6. /\ \A a, b \in kept : <<a, b>> \in rel <=> <<a, b>> \in earlier
      /\ \A a \in kept, b \in added : <<a, b>> \in rel /\ <<b, a>> \notin rel
      /\ \A a, b \in added : <<a, b>> \in rel <=> <<a, b>> \in new
  <2>1. \A a \in kept : a \notin added /\ a \in registered
    BY <1>1
  <2>2. \A b \in added : b \notin registered
    OBVIOUS
  <2> QED  BY <2>1, <2>2, <1>5
<1>7. rel \subseteq all \X all
  BY <1>1, <1>5
<1>8. StrictOrder(rel, all)
  <2> HIDE DEF rel, new, kept, added, all
  <2>1. \A a \in all : <<a, a>> \notin rel
    BY <1>1, <1>4, <1>5, <1>6 DEF StrictOrder
  <2>2. \A a, b, c \in all : <<a, b>> \in rel /\ <<b, c>> \in rel => <<a, c>> \in rel
    <3> SUFFICES ASSUME NEW a \in all, NEW b \in all, NEW c \in all,
                        <<a, b>> \in rel, <<b, c>> \in rel
                 PROVE  <<a, c>> \in rel
      OBVIOUS
    <3>1. CASE a \in kept /\ c \in added
      BY <3>1, <1>6
    <3>2. CASE a \in kept /\ c \in kept
      BY <3>2, <1>1, <1>5, <1>6 DEF StrictOrder
    <3>3. CASE a \in added
      BY <3>3, <1>1, <1>4, <1>6 DEF StrictOrder
    <3> QED  BY <3>1, <3>2, <3>3, <1>1
  <2>3. \A a, b \in all : a # b => <<a, b>> \in rel \/ <<b, a>> \in rel
    BY <1>1, <1>4, <1>5, <1>6 DEF StrictOrder
  <2> QED  BY <2>1, <2>2, <2>3 DEF StrictOrder
<1>9. reassignMethods(src, rel, [a \in Addr |-> manualPolling[a] /\ a \in kept],
                      [a \in Addr |-> manualWebsocket[a] /\ a \in kept], maxWebSocketSlots)
  BY Zenon DEF UpdateEntries
<1>10. /\ [a \in Addr |-> manualPolling[a] /\ a \in kept] \in [Addr -> BOOLEAN]
       /\ [a \in Addr |-> manualWebsocket[a] /\ a \in kept] \in [Addr -> BOOLEAN]
  BY Zenon DEF IInv, TypeOK
<1>11. maxWebSocketSlots \in 0 .. MaxSlots
  BY DEF IInv, TypeOK
<1> HIDE DEF rel, kept
<1> QED  BY <1>7, <1>8, <1>9, <1>10, <1>11, ReassignInv

LEMMA InitInv == Init => IInv
<1> SUFFICES ASSUME Init PROVE IInv
  OBVIOUS
<1>1. registered = {} /\ WithMethod("websocket") = {}
  BY DEF Init, registered, WithMethod
<1>2. TypeOK
  BY <1>1 DEF Init, TypeOK
<1>3. SlotsRespected
  BY <1>1, <1>2, FS_EmptySet, SlotsAssumption DEF TypeOK, SlotsRespected
<1> QED  BY <1>1, <1>2, <1>3 DEF IInv, StrictOrder

LEMMA NextInv == IInv /\ [Next]_managerVars => IInv'
<1> SUFFICES ASSUME IInv, [Next]_managerVars PROVE IInv'
  OBVIOUS
<1> USE DEF IInv, TypeOK
<1>1. ASSUME NEW s \in Source, NEW l \in Lists, register(s, l)
      PROVE  IInv'
  <2> DEFINE src == [a \in Addr |-> IF a \in Entries(l) THEN sources[a] \cup {s} ELSE sources[a]]
  <2>1. src \in [Addr -> SUBSET Source]
    OBVIOUS
  <2>2. \A a \in Addr \ registered : src[a] # {} => a \in Entries(l)
    BY DEF registered
  <2>3. UpdateEntries(src, l)
    BY <1>1 DEF register
  <2> HIDE DEF src
  <2> QED  BY <2>1, <2>2, <2>3, UpdateEntriesInv
<1>2. ASSUME NEW s \in Source, NEW l \in Lists, unregister(s, l)
      PROVE  IInv'
  <2> DEFINE src == [a \in Addr |-> IF a \in Entries(l) THEN sources[a] \ {s} ELSE sources[a]]
  <2>1. src \in [Addr -> SUBSET Source]
    OBVIOUS
  <2>2. \A a \in Addr \ registered : src[a] # {} => a \in Entries(l)
    BY DEF registered
  <2>3. UpdateEntries(src, l)
    BY <1>2 DEF unregister
  <2> HIDE DEF src
  <2> QED  BY <2>1, <2>2, <2>3, UpdateEntriesInv
<1>3. ASSUME NEW s \in Source, NEW l \in Lists, replaceForSource(s, l)
      PROVE  IInv'
  <2> DEFINE src == [a \in Addr |-> IF a \in Entries(l) THEN sources[a] \cup {s}
                                                        ELSE sources[a] \ {s}]
  <2>1. src \in [Addr -> SUBSET Source]
    OBVIOUS
  <2>2. \A a \in Addr \ registered : src[a] # {} => a \in Entries(l)
    BY DEF registered
  <2>3. UpdateEntries(src, l)
    BY <1>3 DEF replaceForSource
  <2> HIDE DEF src
  <2> QED  BY <2>1, <2>2, <2>3, UpdateEntriesInv
<1>4. \A mp, mw \in [Addr -> BOOLEAN], max \in 0 .. MaxSlots :
        reassignMethods(sources, earlier, mp, mw, max) => IInv'
  <2>1. /\ earlier \subseteq {a \in Addr : sources[a] # {}} \X {a \in Addr : sources[a] # {}}
        /\ StrictOrder(earlier, {a \in Addr : sources[a] # {}})
    BY DEF registered
  <2>2. sources \in [Addr -> SUBSET Source]
    OBVIOUS
  <2> QED  BY <2>1, <2>2, ReassignInv
<1>5. \A a \in Addr, x \in BOOLEAN : /\ [manualPolling EXCEPT ![a] = x] \in [Addr -> BOOLEAN]
                                     /\ [manualWebsocket EXCEPT ![a] = x] \in [Addr -> BOOLEAN]
  OBVIOUS
<1>6. maxWebSocketSlots \in 0 .. MaxSlots /\ manualPolling \in [Addr -> BOOLEAN]
        /\ manualWebsocket \in [Addr -> BOOLEAN]
  OBVIOUS
<1>7. ASSUME NEW a \in Addr, demoteToPolling(a)
      PROVE  IInv'
  BY <1>4, <1>5, <1>6, <1>7 DEF demoteToPolling
<1>8. ASSUME NEW a \in Addr, promoteToWebsocket(a)
      PROVE  IInv'
  BY <1>4, <1>5, <1>6, <1>8 DEF promoteToWebsocket
<1>9. ASSUME NEW a \in Addr, clearManualOverride(a)
      PROVE  IInv'
  BY <1>4, <1>5, <1>6, <1>9 DEF clearManualOverride
<1>10. ASSUME NEW max \in 0 .. MaxSlots, setMaxWebSocketSlots(max)
       PROVE  IInv'
  BY <1>4, <1>6, <1>10 DEF setMaxWebSocketSlots
<1>11. ASSUME clear
       PROVE  IInv'
  <2>1. registered' = {} /\ WithMethod("websocket")' = {}
    BY <1>11 DEF clear, registered, WithMethod
  <2>2. TypeOK'
    BY <1>11, <2>1 DEF clear
  <2>3. SlotsRespected'
    BY <2>1, <2>2, FS_EmptySet, SlotsAssumption DEF SlotsRespected
  <2> QED  BY <2>1, <2>2, <2>3 DEF StrictOrder
<1>12. ASSUME UNCHANGED managerVars
       PROVE  IInv'
  BY <1>12 DEF managerVars, StrictOrder, registered, SlotsRespected, WithMethod
<1> QED  BY <1>1, <1>2, <1>3, <1>7, <1>8, <1>9, <1>10, <1>11, <1>12 DEF Next

(* The state of the manager has its type and its order is strict, for      *)
(* every sequence of operations.                                           *)
THEOREM Invariance == Spec => []IInv
<1> QED  BY InitInv, NextInv, PTL DEF Spec

(* No sequence of registrations, overrides and limit changes gives out     *)
(* more WebSocket slots than there are.                                    *)
THEOREM NeverOversubscribed == Spec => []SlotsRespected
<1>1. IInv => SlotsRespected
  BY DEF IInv
<1> QED  BY <1>1, Invariance, PTL

-----------------------------------------------------------------------------
(* The number of predecessors numbers the members of a finite strict       *)
(* order 0, 1, ...                                                         *)
LEMMA Ranks ==
  ASSUME NEW rel, NEW S, IsFiniteSet(S), StrictOrder(rel, S)
  PROVE  \E f \in [S -> 0 .. (Cardinality(S) - 1)] :
           /\ \A a \in S : f[a] = Cardinality({b \in S : <<b, a>> \in rel})
           /\ \A a, c \in S : <<a, c>> \in rel => f[a] < f[c]
           /\ \A a, c \in S : f[a] = f[c] => a = c
           /\ \A i \in 0 .. (Cardinality(S) - 1) : \E a \in S : f[a] = i
<1> DEFINE B(a) == {b \in S : <<b, a>> \in rel}
           n == Cardinality(S)
           f == [a \in S |-> Cardinality(B(a))]
<1>1. n \in Nat
  BY FS_CardinalityType
<1>2. \A a \in S : IsFiniteSet(B(a)) /\ f[a] \in Nat /\ f[a] < n
  <2> SUFFICES ASSUME NEW a \in S
               PROVE  IsFiniteSet(B(a)) /\ f[a] \in Nat /\ f[a] < n
    OBVIOUS
  <2>1. B(a) \in SUBSET S /\ a \in S /\ a \notin B(a)
    BY DEF StrictOrder
  <2>2. IsFiniteSet(B(a)) /\ Cardinality(B(a)) <= n /\ Cardinality(B(a)) # n
    BY <2>1, FS_Subset
  <2> QED  BY <1>1, <2>2, FS_CardinalityType
<1>3. ASSUME NEW a \in S, NEW c \in S, <<a, c>> \in rel
      PROVE  f[a] < f[c]
  <2>1. B(a) \in SUBSET B(c) /\ a \in B(c) /\ a \notin B(a)
    BY <1>3 DEF StrictOrder
  <2>2. Cardinality(B(a)) <= Cardinality(B(c)) /\ Cardinality(B(a)) # Cardinality(B(c))
    BY <2>1, <1>2, FS_Subset
  <2>3. f[a] = Cardinality(B(a)) /\ f[c] = Cardinality(B(c)) /\ f[a] \in Nat /\ f[c] \in Nat
    BY <1>2
  <2> HIDE DEF f, B
  <2> QED  BY <2>2, <2>3
<1>4. f \in [S -> 0 .. (n - 1)]
  BY <1>1, <1>2
<1>5. \A a, c \in S : f[a] = f[c] => a = c
  <2> SUFFICES ASSUME NEW a \in S, NEW c \in S, a # c PROVE f[a] # f[c]
    OBVIOUS
  <2>1. f[a] \in Nat /\ f[c] \in Nat
    BY <1>2
  <2>2. <<a, c>> \in rel \/ <<c, a>> \in rel
    BY DEF StrictOrder
  <2> HIDE DEF f
  <2> QED  BY <1>3, <2>1, <2>2
<1>6. f \in Surjection(S, 0 .. (n - 1))
  <2>1. \A m \in Nat : IsFiniteSet(0 .. (m - 1)) /\ Cardinality(0 .. (m - 1)) = m
    BY FS_Interval
  <2>2. IsFiniteSet(0 .. (n - 1)) /\ Cardinality(0 .. (n - 1)) = n
    BY <1>1, <2>1
  <2>3. f \in Injection(S, 0 .. (n - 1))
    BY <1>4, <1>5 DEF Injection, IsInjective
  <2> QED  BY <2>2, <2>3, FS_Injection
<1>7. \A i \in 0 .. (n - 1) : \E a \in S : f[a] = i
  BY <1>6 DEF Surjection
<1>8. \A a \in S : f[a] = Cardinality(B(a))
  OBVIOUS
<1> HIDE DEF f
<1> QED  BY <1>3, <1>4, <1>5, <1>7, <1>8

(* The first k of a strict order are exactly k if there are that many.     *)
LEMMA FirstOfCount ==
  ASSUME NEW rel, NEW S, IsFiniteSet(S), StrictOrder(rel, S), NEW k \in Nat
  PROVE  Cardinality(FirstOf(rel, S, k)) = Least(Cardinality(S), k)
<1> DEFINE n == Cardinality(S)
           T == FirstOf(rel, S, k)
<1>1. n \in Nat /\ IsFiniteSet(T) /\ Cardinality(T) \in Nat
        /\ Cardinality(T) <= k /\ Cardinality(T) <= n
  BY FirstOfBound, FS_CardinalityType
<1>2. PICK f \in [S -> 0 .. (n - 1)] :
        /\ \A a \in S : f[a] = Cardinality({b \in S : <<b, a>> \in rel})
        /\ \A i \in 0 .. (n - 1) : \E a \in S : f[a] = i
  BY Ranks
<1>3. \A a \in S : a \in T <=> f[a] < k
  BY <1>2 DEF FirstOf
<1>4. T \subseteq S
  BY DEF FirstOf
<1> HIDE DEF T
<1>5. CASE n <= k
  <2>1. T = S
    BY <1>1, <1>3, <1>4, <1>5
  <2> QED  BY <2>1, <1>1, <1>5 DEF Least, T
<1>6. CASE k < n
  <2> DEFINE g == [i \in 0 .. (k - 1) |-> CHOOSE a \in S : f[a] = i]
  <2>1. \A i \in 0 .. (k - 1) : g[i] \in S /\ f[g[i]] = i
    <3>1. \A i \in 0 .. (k - 1) : \E a \in S : f[a] = i
      BY <1>1, <1>2, <1>6
    <3> QED  BY <3>1
  <2> HIDE DEF g
  <2>2. \A i \in 0 .. (k - 1) : g[i] \in T
    BY <1>3, <2>1
  <2>3. \A i, j \in 0 .. (k - 1) : g[i] = g[j] => i = j
    BY <2>1
  <2>4. g \in Injection(0 .. (k - 1), T)
    <3>1. g \in [0 .. (k - 1) -> T]
      BY <2>2 DEF g
    <3> QED  BY <2>3, <3>1 DEF Injection, IsInjective
  <2>5. Cardinality(0 .. (k - 1)) = k
    BY FS_Interval
  <2>6. k <= Cardinality(T)
    BY <1>1, <2>4, <2>5, FS_Injection
  <2> QED  BY <1>1, <1>6, <2>6 DEF Least, T
<1> QED  BY <1>1, <1>5, <1>6

(* An address outside the first k has k of its set before it, and every    *)
(* one of the first k among them.                                          *)
LEMMA FirstOfOrder ==
  ASSUME NEW rel, NEW S, IsFiniteSet(S), StrictOrder(rel, S), NEW k \in Nat
  PROVE  /\ \A a \in S \ FirstOf(rel, S, k) : k < Cardinality(S)
         /\ \A a \in S \ FirstOf(rel, S, k), b \in FirstOf(rel, S, k) : <<b, a>> \in rel
<1> DEFINE n == Cardinality(S)
           T == FirstOf(rel, S, k)
<1>1. n \in Nat
  BY FS_CardinalityType
<1>2. PICK f \in [S -> 0 .. (n - 1)] :
        /\ \A a \in S : f[a] = Cardinality({b \in S : <<b, a>> \in rel})
        /\ \A a, c \in S : <<a, c>> \in rel => f[a] < f[c]
  BY Ranks
<1>3. T \subseteq S /\ \A a \in S : a \in T <=> f[a] < k
  BY <1>2 DEF FirstOf
<1> HIDE DEF T, n
<1>4. \A a \in S \ T : k < n
  BY <1>1, <1>3
<1>5. ASSUME NEW a \in S \ T, NEW b \in T
      PROVE  <<b, a>> \in rel
  <2>1. a \in S /\ b \in S /\ a # b /\ ~(f[a] < k) /\ f[b] < k
    BY <1>3
  <2>2. f[a] \in Nat /\ f[b] \in Nat
    BY <1>1, <2>1
  <2>3. ~(f[a] < f[b])
    BY <2>1, <2>2
  <2> QED  BY <1>2, <2>1, <2>3 DEF StrictOrder
<1> QED  BY <1>4, <1>5 DEF T, n

(* The addresses that are registered where the sources are src.            *)
Watched(src) == {a \in Addr : src[a] # {}}

(* The categories are finite, disjoint and strictly ordered.               *)
LEMMA Categories ==
  ASSUME NEW rel, NEW src \in [Addr -> SUBSET Source], NEW mp, NEW mw,
         StrictOrder(rel, Watched(src))
  PROVE  /\ \A S \in {Pinned(src), Promoted(src, mp, mw), Demoted(src, mp)} :
              IsFiniteSet(S) /\ Cardinality(S) \in Nat /\ StrictOrder(rel, S)
         /\ IsFiniteSet(AutoAssigned(src, mp, mw))
         /\ Cardinality(AutoAssigned(src, mp, mw)) \in Nat
         /\ StrictOrder(byPriority(rel, src), AutoAssigned(src, mp, mw))
         /\ Pinned(src) \cap Promoted(src, mp, mw) = {}
         /\ Pinned(src) \cap AutoAssigned(src, mp, mw) = {}
         /\ Promoted(src, mp, mw) \cap AutoAssigned(src, mp, mw) = {}
<1> DEFINE all == {a \in Addr : src[a] # {}}
<1> USE DEF Watched
<1>1. \A S \in SUBSET all : /\ IsFiniteSet(S) /\ Cardinality(S) \in Nat
                             /\ S \in SUBSET Addr /\ StrictOrder(rel, S)
  <2>1. \A S \in SUBSET all : S \in SUBSET Addr /\ StrictOrder(rel, S)
    BY DEF StrictOrder
  <2> QED  BY <2>1, AddrFinite, FS_Subset, FS_CardinalityType
<1>2. /\ Pinned(src) \in SUBSET all
      /\ Promoted(src, mp, mw) \in SUBSET all
      /\ AutoAssigned(src, mp, mw) \in SUBSET all
      /\ Demoted(src, mp) \in SUBSET all
  BY DEF Pinned, Unpinned, Promoted, AutoAssigned, Demoted
<1>3. StrictOrder(byPriority(rel, src), AutoAssigned(src, mp, mw))
  BY <1>1, <1>2, ByPriorityOrder
<1>4. /\ Pinned(src) \cap Promoted(src, mp, mw) = {}
      /\ Pinned(src) \cap AutoAssigned(src, mp, mw) = {}
      /\ Promoted(src, mp, mw) \cap AutoAssigned(src, mp, mw) = {}
  BY DEF Pinned, Unpinned, Promoted, AutoAssigned
<1> QED  BY <1>1, <1>2, <1>3, <1>4

(* The flags that reassignMethods takes away are those of promoted         *)
(* addresses without a slot: dealing again with the flags it leaves comes  *)
(* to the same addresses.  If a promoted address had to go without, the    *)
(* pinned and the promoted ones hold all the slots, so making it an        *)
(* automatic one hands it nothing.                                         *)
FlagsKept(mw2, src, rel, mp, mw, max) ==
  /\ mw2 \in [Addr -> BOOLEAN]
  /\ \A a \in Addr :
       mw2[a] <=> /\ mw[a]
                  /\ a \in Promoted(src, mp, mw) => a \in Streamed(src, rel, mp, mw, max)

LEMMA StreamedFixpoint ==
  ASSUME NEW rel, NEW src \in [Addr -> SUBSET Source], NEW mp \in [Addr -> BOOLEAN],
         NEW mw \in [Addr -> BOOLEAN], NEW mw2, NEW max \in Nat,
         StrictOrder(rel, Watched(src)),
         FlagsKept(mw2, src, rel, mp, mw, max)
  PROVE  Streamed(src, rel, mp, mw2, max) = Streamed(src, rel, mp, mw, max)
<1> DEFINE P  == Pinned(src)
           W  == Promoted(src, mp, mw)
           W2 == Promoted(src, mp, mw2)
           A  == AutoAssigned(src, mp, mw)
           A2 == AutoAssigned(src, mp, mw2)
           k  == max - SlotsForPinned(src, max)
           FW == FirstOf(rel, W, k)
           by == byPriority(rel, src)
<1>1. /\ IsFiniteSet(P) /\ Cardinality(P) \in Nat
      /\ IsFiniteSet(W) /\ Cardinality(W) \in Nat /\ StrictOrder(rel, W)
      /\ IsFiniteSet(A) /\ P \cap W = {} /\ W \cap A = {}
  BY Categories
<1>2. /\ IsFiniteSet(W2) /\ Cardinality(W2) \in Nat
      /\ Cardinality(Demoted(src, mp)) \in Nat
  BY Categories
<1>3. k \in Nat
  BY <1>1 DEF SlotsForPinned, Least
<1>4. FW \subseteq W
  BY DEF FirstOf
<1>5. W2 = FW
  <2>1. \A a \in W : a \in Streamed(src, rel, mp, mw, max) <=> a \in FW
    <3>1. /\ FirstOf(rel, P, max) \subseteq P
          /\ FirstOf(by, A, SlotsForAuto(src, mp, mw, max)) \subseteq A
      BY DEF FirstOf
    <3> QED  BY <1>1, <3>1 DEF Streamed
  <2>2. \A a \in Addr : a \in W2 <=> a \in Unpinned(src) /\ ~mp[a] /\ mw2[a]
    BY DEF Promoted, Unpinned
  <2>3. \A a \in Addr : a \in W <=> a \in Unpinned(src) /\ ~mp[a] /\ mw[a]
    BY DEF Promoted, Unpinned
  <2>4. W2 \subseteq Addr /\ W \subseteq Addr
    BY DEF Promoted, Unpinned
  <2> HIDE DEF W, W2, FW
  <2>5. \A a \in Addr : mw2[a] <=> mw[a] /\ (a \in W => a \in Streamed(src, rel, mp, mw, max))
    BY Zenon DEF W, FlagsKept
  <2>6. \A a \in Addr : a \in W2 <=> a \in W /\ a \in Streamed(src, rel, mp, mw, max)
    BY Zenon, <2>2, <2>3, <2>5
  <2> QED  BY <1>4, <2>1, <2>4, <2>6
<1>6. CASE FW = W
  <2>1. A2 = A
    <3>1. \A a \in Unpinned(src) : ~mp[a] => (mw2[a] <=> mw[a])
      BY <1>5, <1>6 DEF Promoted
    <3> QED  BY <3>1 DEF AutoAssigned
  <2>2. W2 = W
    BY <1>5, <1>6
  <2> HIDE DEF W, W2, A, A2
  <2>3. ReservedSlots(src, mp, mw2) = ReservedSlots(src, mp, mw)
    BY <2>2 DEF ReservedSlots, W, W2
  <2>4. SlotsForManualWs(src, mp, mw2, max) = SlotsForManualWs(src, mp, mw, max)
    BY <2>2 DEF SlotsForManualWs, W, W2
  <2>5. SlotsForAuto(src, mp, mw2, max) = SlotsForAuto(src, mp, mw, max)
    BY <2>3, <2>4 DEF SlotsForAuto
  <2> QED  BY <2>1, <2>2, <2>5 DEF Streamed, W, W2, A, A2
<1>7. CASE FW # W
  <2>1. k < Cardinality(W)
    <3>1. PICK a \in W : a \notin FW
      BY <1>4, <1>7
    <3> QED  BY <1>1, <1>3, <3>1, FirstOfOrder
  <2>2. Cardinality(W2) = k
    <3>1. Cardinality(FW) = Least(Cardinality(W), k)
      BY <1>1, <1>3, FirstOfCount
    <3> QED  BY <1>1, <1>3, <1>5, <2>1, <3>1 DEF Least
  <2>3. SlotsForManualWs(src, mp, mw, max) = k /\ SlotsForManualWs(src, mp, mw2, max) = k
    BY <1>1, <1>3, <2>1, <2>2 DEF SlotsForManualWs, Least
  <2>4. ReservedSlots(src, mp, mw) \in Nat /\ ReservedSlots(src, mp, mw2) \in Nat
    BY <1>1, <1>2 DEF ReservedSlots, NonNegative
  <2>5. SlotsForPinned(src, max) \in Nat
    BY <1>1 DEF SlotsForPinned, Least
  <2>6. SlotsForAuto(src, mp, mw, max) = 0 /\ SlotsForAuto(src, mp, mw2, max) = 0
    BY <2>3, <2>4, <2>5 DEF SlotsForAuto, NonNegative
  <2>7. \A r, S : IsFiniteSet(S) => FirstOf(r, S, 0) = {}
    <3> SUFFICES ASSUME NEW r, NEW S, IsFiniteSet(S)
                 PROVE  FirstOf(r, S, 0) = {}
      OBVIOUS
    <3>1. \A a \in S : {b \in S : <<b, a>> \in r} \in SUBSET S
      OBVIOUS
    <3>2. \A a \in S : Cardinality({b \in S : <<b, a>> \in r}) \in Nat
      BY <3>1, FS_Subset, FS_CardinalityType
    <3> QED  BY <3>2 DEF FirstOf
  <2>8. FirstOf(by, A, 0) = {} /\ FirstOf(by, A2, 0) = {}
    <3>1. IsFiniteSet(A2)
      BY Categories
    <3> QED  BY <1>1, <2>7, <3>1
  <2>9. FirstOf(rel, FW, k) = FW
    <3>1. \A a \in FW : Cardinality({b \in FW : <<b, a>> \in rel}) < k
      <4> SUFFICES ASSUME NEW a \in FW
                   PROVE  Cardinality({b \in FW : <<b, a>> \in rel}) < k
        OBVIOUS
      <4>1. {b \in W : <<b, a>> \in rel} \in SUBSET W
        OBVIOUS
      <4>2. /\ IsFiniteSet({b \in W : <<b, a>> \in rel})
            /\ Cardinality({b \in W : <<b, a>> \in rel}) \in Nat
            /\ Cardinality({b \in W : <<b, a>> \in rel}) < k
        BY <1>1, <4>1, FS_Subset, FS_CardinalityType DEF FirstOf
      <4>3. {b \in FW : <<b, a>> \in rel} \in SUBSET {b \in W : <<b, a>> \in rel}
        BY <1>4
      <4>4. /\ IsFiniteSet({b \in FW : <<b, a>> \in rel})
            /\ Cardinality({b \in FW : <<b, a>> \in rel})
                 <= Cardinality({b \in W : <<b, a>> \in rel})
        BY <4>2, <4>3, FS_Subset
      <4>5. Cardinality({b \in FW : <<b, a>> \in rel}) \in Nat
        BY <4>4, FS_CardinalityType
      <4> HIDE DEF FW, W
      <4> QED  BY <1>3, <4>2, <4>4, <4>5
    <3> HIDE DEF FW
    <3> QED  BY <3>1 DEF FirstOf
  <2>10. /\ Streamed(src, rel, mp, mw, max) = FirstOf(rel, P, max) \cup FW
         /\ Streamed(src, rel, mp, mw2, max) = FirstOf(rel, P, max) \cup FirstOf(rel, W2, k)
    BY <2>6, <2>8 DEF Streamed
  <2> QED  BY <1>5, <2>9, <2>10
<1> QED  BY <1>6, <1>7

(* The methods are those that reassignMethods would choose.                *)
MethodsDealt ==
  method = [a \in Addr |->
              IF a \in Streamed(sources, earlier, manualPolling, manualWebsocket, maxWebSocketSlots)
              THEN "websocket"
              ELSE IF sources[a] # {} THEN "polling" ELSE "none"]

LEMMA ReassignDeals ==
  ASSUME NEW src, NEW rel, NEW mp, NEW mw \in [Addr -> BOOLEAN], NEW max,
         reassignMethods(src, rel, mp, mw, max), IInv'
  PROVE  MethodsDealt'
<1>1. /\ src = sources' /\ rel = earlier' /\ mp = manualPolling' /\ max = maxWebSocketSlots'
      /\ src \in [Addr -> SUBSET Source] /\ mp \in [Addr -> BOOLEAN]
      /\ max \in Nat /\ StrictOrder(rel, Watched(src))
  BY SlotsAssumption DEF reassignMethods, IInv, TypeOK, registered, Watched
<1>2. FlagsKept(manualWebsocket', src, rel, mp, mw, max)
  BY Zenon DEF reassignMethods, FlagsKept
<1>3. Streamed(src, rel, mp, manualWebsocket', max) = Streamed(src, rel, mp, mw, max)
  BY <1>1, <1>2, StreamedFixpoint
<1>4. method' = [a \in Addr |-> IF a \in Streamed(src, rel, mp, mw, max) THEN "websocket"
                                ELSE IF src[a] # {} THEN "polling" ELSE "none"]
  BY DEF reassignMethods
<1> QED  BY <1>1, <1>3, <1>4 DEF MethodsDealt

(* Nobody is registered: nobody has a slot.                                *)
LEMMA NobodyStreamed ==
  ASSUME NEW src, \A a \in Addr : src[a] = {}, NEW rel, NEW mp, NEW mw, NEW max
  PROVE  Streamed(src, rel, mp, mw, max) = {}
<1>1. /\ Pinned(src) = {} /\ Promoted(src, mp, mw) = {} /\ AutoAssigned(src, mp, mw) = {}
  BY DEF Pinned, Unpinned, Promoted, AutoAssigned
<1>2. \A r, k : FirstOf(r, {}, k) = {}
  BY DEF FirstOf
<1> QED  BY <1>1, <1>2 DEF Streamed

LEMMA InitDeals == Init => MethodsDealt
<1> SUFFICES ASSUME Init PROVE MethodsDealt
  OBVIOUS
<1>1. /\ \A a \in Addr : sources[a] = {}
      /\ method = [a \in Addr |-> "none"]
  BY DEF Init
<1>2. Streamed(sources, earlier, manualPolling, manualWebsocket, maxWebSocketSlots) = {}
  BY <1>1, NobodyStreamed
<1> QED  BY <1>1, <1>2 DEF MethodsDealt

LEMMA NextDeals == IInv /\ MethodsDealt /\ [Next]_managerVars => MethodsDealt'
<1> SUFFICES ASSUME IInv, MethodsDealt, [Next]_managerVars PROVE MethodsDealt'
  OBVIOUS
<1>1. IInv'
  BY NextInv
<1>2. manualWebsocket \in [Addr -> BOOLEAN]
  BY DEF IInv, TypeOK
<1>3. ASSUME NEW src, NEW l, UpdateEntries(src, l)
      PROVE  MethodsDealt'
  <2> DEFINE kept == {a \in registered : src[a] # {}}
             mw   == [a \in Addr |-> manualWebsocket[a] /\ a \in kept]
  <2>1. mw \in [Addr -> BOOLEAN]
    BY <1>2, Zenon
  <2>2. \E rel, mp : reassignMethods(src, rel, mp, mw, maxWebSocketSlots)
    BY <1>3, Zenon DEF UpdateEntries
  <2> HIDE DEF mw
  <2> QED  BY <1>1, <2>1, <2>2, ReassignDeals
<1>4. ASSUME NEW s \in Source, NEW l \in Lists,
             register(s, l) \/ unregister(s, l) \/ replaceForSource(s, l)
      PROVE  MethodsDealt'
  BY <1>3, <1>4 DEF register, unregister, replaceForSource
<1>5. ASSUME NEW a \in Addr,
             demoteToPolling(a) \/ promoteToWebsocket(a) \/ clearManualOverride(a)
      PROVE  MethodsDealt'
  <2>1. \E mp, mw : /\ mw \in [Addr -> BOOLEAN]
                    /\ reassignMethods(sources, earlier, mp, mw, maxWebSocketSlots)
    <3>1. \A x \in BOOLEAN : [manualWebsocket EXCEPT ![a] = x] \in [Addr -> BOOLEAN]
      BY <1>2
    <3> QED  BY <1>5, <3>1 DEF demoteToPolling, promoteToWebsocket, clearManualOverride
  <2> QED  BY <1>1, <2>1, ReassignDeals
<1>6. ASSUME NEW max \in 0 .. MaxSlots, setMaxWebSocketSlots(max)
      PROVE  MethodsDealt'
  BY <1>1, <1>2, <1>6, ReassignDeals DEF setMaxWebSocketSlots
<1>7. ASSUME clear
      PROVE  MethodsDealt'
  <2>1. \A a \in Addr : sources'[a] = {}
    BY <1>7 DEF clear
  <2>2. Streamed(sources', earlier', manualPolling', manualWebsocket', maxWebSocketSlots') = {}
    BY <2>1, NobodyStreamed
  <2>3. method' = [a \in Addr |-> "none"]
    BY <1>7 DEF clear
  <2> QED  BY <2>1, <2>2, <2>3 DEF MethodsDealt
<1>8. ASSUME UNCHANGED managerVars
      PROVE  MethodsDealt'
  BY <1>8 DEF MethodsDealt, managerVars
<1> QED  BY <1>4, <1>5, <1>6, <1>7, <1>8 DEF Next
(* The inductive invariant: IInv, and the methods in force are dealt from  *)
(* the present sources, order, flags and limit.                            *)
LEMMA DealtInvariance == Spec => [](IInv /\ MethodsDealt)
<1> QED  BY InitInv, InitDeals, NextInv, NextDeals, PTL DEF Spec

LEMMA StreamedState ==
  ASSUME IInv, MethodsDealt
  PROVE  /\ StrictOrder(earlier, Watched(sources))
         /\ sources \in [Addr -> SUBSET Source] /\ maxWebSocketSlots \in Nat
         /\ WithMethod("websocket") =
              Streamed(sources, earlier, manualPolling, manualWebsocket, maxWebSocketSlots)
         /\ WithMethod("polling") =
              Watched(sources) \ WithMethod("websocket")
<1> DEFINE ws == Streamed(sources, earlier, manualPolling, manualWebsocket, maxWebSocketSlots)
<1>1. /\ StrictOrder(earlier, Watched(sources))
      /\ sources \in [Addr -> SUBSET Source] /\ maxWebSocketSlots \in Nat
  BY SlotsAssumption DEF IInv, TypeOK, registered, Watched
<1>2. ws \subseteq Watched(sources)
  BY <1>1, StreamedBound DEF Watched
<1>3. \A a \in Addr : /\ method[a] = "websocket" <=> a \in ws
                      /\ method[a] = "polling" <=> a \notin ws /\ sources[a] # {}
  <2> HIDE DEF ws
  <2>1. method = [a \in Addr |-> IF a \in ws THEN "websocket"
                                 ELSE IF sources[a] # {} THEN "polling" ELSE "none"]
    BY DEF MethodsDealt, ws
  <2> QED  BY <2>1
<1> HIDE DEF ws
<1>4. WithMethod("websocket") = ws
  BY <1>2, <1>3 DEF WithMethod, Watched
<1>5. WithMethod("polling") = Watched(sources) \ ws
  BY <1>2, <1>3 DEF WithMethod, Watched
<1> QED  BY <1>1, <1>4, <1>5 DEF ws

(* A refresh that changes nothing moves no address, whatever the sequence  *)
(* of operations was.                                                      *)
THEOREM AlwaysSettled == Spec => []Settled
<1>1. IInv /\ MethodsDealt => Settled
  BY StreamedState DEF Settled
<1> QED  BY <1>1, DealtInvariance, PTL

(* The three parts of a dealing, and their sizes.                          *)
PinnedPart(src, rel, max) == FirstOf(rel, Pinned(src), max)
ManualPart(src, rel, mp, mw, max) ==
  FirstOf(rel, Promoted(src, mp, mw), max - SlotsForPinned(src, max))
AutoPart(src, rel, mp, mw, max) ==
  FirstOf(byPriority(rel, src), AutoAssigned(src, mp, mw), SlotsForAuto(src, mp, mw, max))

LEMMA StreamedParts ==
  ASSUME NEW rel, NEW src \in [Addr -> SUBSET Source], NEW mp, NEW mw, NEW max \in Nat,
         StrictOrder(rel, Watched(src))
  PROVE  /\ Streamed(src, rel, mp, mw, max) =
              PinnedPart(src, rel, max) \cup ManualPart(src, rel, mp, mw, max)
                \cup AutoPart(src, rel, mp, mw, max)
         /\ PinnedPart(src, rel, max) \subseteq Pinned(src)
         /\ ManualPart(src, rel, mp, mw, max) \subseteq Promoted(src, mp, mw)
         /\ AutoPart(src, rel, mp, mw, max) \subseteq AutoAssigned(src, mp, mw)
         /\ IsFiniteSet(PinnedPart(src, rel, max))
         /\ Cardinality(PinnedPart(src, rel, max)) = SlotsForPinned(src, max)
         /\ IsFiniteSet(ManualPart(src, rel, mp, mw, max))
         /\ Cardinality(ManualPart(src, rel, mp, mw, max)) = SlotsForManualWs(src, mp, mw, max)
         /\ IsFiniteSet(AutoPart(src, rel, mp, mw, max))
         /\ Cardinality(AutoPart(src, rel, mp, mw, max)) <= SlotsForAuto(src, mp, mw, max)
         /\ SlotsForPinned(src, max) \in 0 .. max
         /\ SlotsForManualWs(src, mp, mw, max) \in 0 .. (max - SlotsForPinned(src, max))
         /\ SlotsForAuto(src, mp, mw, max) \in Nat
         /\ ReservedSlots(src, mp, mw) \in Nat
<1> DEFINE P == Pinned(src)
           W == Promoted(src, mp, mw)
           A == AutoAssigned(src, mp, mw)
           sp == SlotsForPinned(src, max)
           sw == SlotsForManualWs(src, mp, mw, max)
           sa == SlotsForAuto(src, mp, mw, max)
           FP == PinnedPart(src, rel, max)
           FW == ManualPart(src, rel, mp, mw, max)
           FA == AutoPart(src, rel, mp, mw, max)
<1>1. /\ IsFiniteSet(P) /\ Cardinality(P) \in Nat /\ StrictOrder(rel, P)
      /\ IsFiniteSet(W) /\ Cardinality(W) \in Nat /\ StrictOrder(rel, W)
      /\ IsFiniteSet(A) /\ StrictOrder(byPriority(rel, src), A)
      /\ Cardinality(Demoted(src, mp)) \in Nat
  BY Categories
<1>2. sp \in 0 .. max
  BY <1>1 DEF SlotsForPinned, Least
<1>3. sw \in 0 .. (max - sp)
  BY <1>1, <1>2 DEF SlotsForManualWs, Least
<1>4. ReservedSlots(src, mp, mw) \in Nat
  BY <1>1 DEF ReservedSlots, NonNegative
<1>5. sa \in Nat
  BY <1>2, <1>3, <1>4 DEF SlotsForAuto, NonNegative
<1>6. IsFiniteSet(FP) /\ Cardinality(FP) = sp
  BY <1>1, FirstOfBound, FirstOfCount DEF SlotsForPinned, PinnedPart
<1>7. IsFiniteSet(FW) /\ Cardinality(FW) = sw
  <2>1. max - sp \in Nat
    BY <1>2
  <2> QED  BY <1>1, <2>1, FirstOfBound, FirstOfCount DEF SlotsForManualWs, ManualPart
<1>8. IsFiniteSet(FA) /\ Cardinality(FA) <= sa
  BY <1>1, <1>5, FirstOfBound DEF AutoPart
<1>9. FP \subseteq P /\ FW \subseteq W /\ FA \subseteq A
  BY DEF FirstOf, PinnedPart, ManualPart, AutoPart
<1>10. Streamed(src, rel, mp, mw, max) = FP \cup FW \cup FA
  BY DEF Streamed, PinnedPart, ManualPart, AutoPart
<1> QED  BY <1>2, <1>3, <1>4, <1>5, <1>6, <1>7, <1>8, <1>9, <1>10

(* Nobody is polled while somebody of a lower priority has a slot.         *)
LEMMA DealtByPriority ==
  ASSUME IInv, MethodsDealt
  PROVE  NoPriorityInversion
<1> DEFINE src == sources
           rel == earlier
           mp  == manualPolling
           mw  == manualWebsocket
           max == maxWebSocketSlots
           P   == Pinned(src)
           W   == Promoted(src, mp, mw)
           A   == AutoAssigned(src, mp, mw)
           FP  == PinnedPart(src, rel, max)
           FW  == ManualPart(src, rel, mp, mw, max)
           FA  == AutoPart(src, rel, mp, mw, max)
<1>1. /\ StrictOrder(rel, Watched(src))
      /\ src \in [Addr -> SUBSET Source] /\ max \in Nat
      /\ WithMethod("websocket") = Streamed(src, rel, mp, mw, max)
      /\ \A a \in WithMethod("polling") : a \in Addr /\ a \notin Streamed(src, rel, mp, mw, max)
  BY StreamedState DEF Watched
<1>2. /\ Streamed(src, rel, mp, mw, max) = FP \cup FW \cup FA
      /\ FP \subseteq P /\ FW \subseteq W /\ FA \subseteq A
      /\ IsFiniteSet(FW) /\ Cardinality(FW) = SlotsForManualWs(src, mp, mw, max)
      /\ IsFiniteSet(FA) /\ Cardinality(FA) <= SlotsForAuto(src, mp, mw, max)
      /\ SlotsForPinned(src, max) \in 0 .. max
      /\ SlotsForManualWs(src, mp, mw, max) \in 0 .. (max - SlotsForPinned(src, max))
      /\ SlotsForAuto(src, mp, mw, max) \in Nat
      /\ ReservedSlots(src, mp, mw) \in Nat
  BY <1>1, StreamedParts
<1>3. /\ IsFiniteSet(P) /\ Cardinality(P) \in Nat /\ StrictOrder(rel, P)
      /\ IsFiniteSet(A) /\ StrictOrder(byPriority(rel, src), A)
      /\ P \cap W = {} /\ P \cap A = {} /\ W \cap A = {}
  BY <1>1, Categories
<1> SUFFICES ASSUME NEW a \in WithMethod("polling"), NEW b \in WithMethod("websocket")
             PROVE  /\ a \in P => b \in P
                    /\ {a, b} \subseteq A =>
                         \/ getEntryPriority(src[b]) < getEntryPriority(src[a])
                         \/ /\ getEntryPriority(src[b]) = getEntryPriority(src[a])
                            /\ <<b, a>> \in rel
  BY DEF NoPriorityInversion
<1>4. a \notin FP /\ a \notin FA /\ (b \in FP \/ b \in FW \/ b \in FA)
  BY <1>1, <1>2
<1> HIDE DEF P, W, A, FP, FW, FA
<1>5. ASSUME a \in P PROVE b \in P
  <2>1. max < Cardinality(P)
    BY <1>1, <1>3, <1>4, <1>5, FirstOfOrder DEF FP, PinnedPart, P
  <2>2. SlotsForPinned(src, max) = max
    BY <1>1, <1>3, <2>1 DEF SlotsForPinned, Least, P
  <2>3. /\ SlotsForManualWs(src, mp, mw, max) = 0
        /\ SlotsForAuto(src, mp, mw, max) = 0
    BY <1>1, <1>2, <2>2 DEF SlotsForAuto, NonNegative
  <2>4. FW = {} /\ FA = {}
    BY <1>2, <2>3, FS_EmptySet, FS_CardinalityType
  <2> QED  BY <1>2, <1>4, <2>4
<1>6. ASSUME a \in A, b \in A
      PROVE  \/ getEntryPriority(src[b]) < getEntryPriority(src[a])
             \/ /\ getEntryPriority(src[b]) = getEntryPriority(src[a])
                /\ <<b, a>> \in rel
  <2>1. b \in FA
    BY <1>2, <1>3, <1>4, <1>6
  <2>2. <<b, a>> \in byPriority(rel, src)
    BY <1>2, <1>3, <1>4, <1>6, <2>1, FirstOfOrder DEF FA, AutoPart, A
  <2> QED  BY <2>2 DEF byPriority
<1> QED  BY <1>5, <1>6

THEOREM NeverInverted == Spec => []NoPriorityInversion
<1>1. IInv /\ MethodsDealt => NoPriorityInversion
  BY DealtByPriority
<1> QED  BY <1>1, DealtInvariance, PTL

(* The automatic assignment leaves a slot for each demotion that no        *)
(* promotion has offset, as far as pinned and promoted addresses leave     *)
(* any.                                                                    *)
LEMMA DealtReserve ==
  ASSUME IInv, MethodsDealt
  PROVE  DemotedSlotsStayFree
<1> DEFINE src == sources
           rel == earlier
           mp  == manualPolling
           mw  == manualWebsocket
           max == maxWebSocketSlots
           P   == Pinned(src)
           W   == Promoted(src, mp, mw)
           A   == AutoAssigned(src, mp, mw)
           D   == Demoted(src, mp)
           sp  == SlotsForPinned(src, max)
           sw  == SlotsForManualWs(src, mp, mw, max)
           sa  == SlotsForAuto(src, mp, mw, max)
           FP  == PinnedPart(src, rel, max)
           FW  == ManualPart(src, rel, mp, mw, max)
           FA  == AutoPart(src, rel, mp, mw, max)
           ws  == WithMethod("websocket")
<1>1. /\ StrictOrder(rel, Watched(src))
      /\ src \in [Addr -> SUBSET Source] /\ max \in Nat
      /\ ws = Streamed(src, rel, mp, mw, max)
  BY StreamedState
<1>2. /\ Streamed(src, rel, mp, mw, max) = FP \cup FW \cup FA
      /\ FP \subseteq P /\ FW \subseteq W /\ FA \subseteq A
      /\ IsFiniteSet(FP) /\ Cardinality(FP) = sp
      /\ IsFiniteSet(FW) /\ Cardinality(FW) = sw
      /\ IsFiniteSet(FA) /\ Cardinality(FA) <= sa
      /\ sp \in 0 .. max /\ sw \in 0 .. (max - sp) /\ sa \in Nat
      /\ ReservedSlots(src, mp, mw) \in Nat
  BY <1>1, StreamedParts
<1>3. /\ Cardinality(W) \in Nat /\ Cardinality(D) \in Nat
      /\ P \cap W = {} /\ P \cap A = {} /\ W \cap A = {}
  BY <1>1, Categories
<1>4. ws \subseteq Addr
  BY DEF WithMethod
<1> HIDE DEF P, W, A, FP, FW, FA, D, ws, sp, sw, sa
<1>5. P \cap ws = FP /\ W \cap ws = FW /\ Addr \cap ws = ws
  BY <1>1, <1>2, <1>3, <1>4
<1>6. Cardinality(ws) <= sp + sw + sa
  <2>1. FP \cap FW = {} /\ (FP \cup FW) \cap FA = {}
    BY <1>2, <1>3
  <2>2. IsFiniteSet(FP \cup FW) /\ Cardinality(FP \cup FW) = sp + sw
    <3>1. /\ IsFiniteSet(FP \cup FW)
          /\ Cardinality(FP \cup FW) = Cardinality(FP) + Cardinality(FW) - Cardinality(FP \cap FW)
      BY <1>2, FS_Union
    <3> QED  BY <1>2, <2>1, <3>1, FS_EmptySet
  <2>3. Cardinality(ws) = sp + sw + Cardinality(FA)
    <3>0. ws = (FP \cup FW) \cup FA
      BY <1>1, <1>2
    <3>1. Cardinality((FP \cup FW) \cup FA)
            = Cardinality(FP \cup FW) + Cardinality(FA) - Cardinality((FP \cup FW) \cap FA)
      BY <1>2, <2>2, FS_Union
    <3>2. Cardinality(FA) \in Nat
      BY <1>2, FS_CardinalityType
    <3>4. Cardinality((FP \cup FW) \cap FA) = 0
      BY <2>1, FS_EmptySet
    <3> HIDE DEF max
    <3> QED  BY <1>2, <2>2, <3>0, <3>1, <3>2, <3>4
  <2>4. Cardinality(FA) \in Nat
    BY <1>2, FS_CardinalityType
  <2> QED  BY <1>1, <1>2, <2>3, <2>4
<1>7. Cardinality(ws) \in Nat
  <2>1. IsFiniteSet(ws)
    BY <1>4, AddrFinite, FS_Subset
  <2> QED  BY <2>1, FS_CardinalityType
<1>8. sa = NonNegative(max - sp - sw - ReservedSlots(src, mp, mw))
  BY DEF SlotsForAuto, sa, sp, sw
<1>9. ReservedSlots(src, mp, mw) = NonNegative(Cardinality(D) - Cardinality(W))
  BY DEF ReservedSlots, D, W
<1>10. max - Cardinality(ws) >= Least(Cardinality(D) - Cardinality(W), max - sp - sw)
  <2> HIDE DEF max, src, mp, mw
  <2>1. max \in Nat /\ Cardinality(W) \in Nat /\ Cardinality(D) \in Nat
    BY <1>1, <1>3
  <2> QED  BY <1>2, <1>6, <1>7, <1>8, <1>9, <2>1 DEF NonNegative, Least
<1>11. max - Cardinality(Addr \cap ws)
         >= Least(Cardinality(D) - Cardinality(W),
                  max - Cardinality(P \cap ws) - Cardinality(W \cap ws))
  BY <1>2, <1>5, <1>10
<1> QED  BY <1>11 DEF DemotedSlotsStayFree, P, W, D, ws

THEOREM DemotionsHonoured == Spec => []DemotedSlotsStayFree
<1>1. IInv /\ MethodsDealt => DemotedSlotsStayFree
  BY DealtReserve
<1> QED  BY <1>1, DealtInvariance, PTL

(* getAddressesForSource finds its list: the registered addresses of a     *)
(* source, finitely many, in the order of the Map.                         *)
LEMMA SourceListed ==
  ASSUME IInv, NEW s
  PROVE  /\ getAddressesForSource(s) \in Lists
         /\ Entries(getAddressesForSource(s)) = {a \in Addr : s \in sources[a]}
<1> DEFINE S == {a \in Addr : s \in sources[a]}
           n == Cardinality(S)
<1>1. IsFiniteSet(S) /\ n \in Nat /\ n <= Cardinality(Addr) /\ Cardinality(Addr) \in Nat
  BY AddrFinite, FS_Subset, FS_CardinalityType
<1>2. StrictOrder(earlier, S)
  <2>1. S \subseteq registered
    BY DEF registered
  <2> QED  BY <2>1 DEF IInv, StrictOrder
<1>0. S \subseteq Addr
  OBVIOUS
<1> HIDE DEF S
<1>3. PICK f \in [S -> 0 .. (n - 1)] :
        /\ \A a, c \in S : <<a, c>> \in earlier => f[a] < f[c]
        /\ \A a, c \in S : f[a] = f[c] => a = c
        /\ \A i \in 0 .. (n - 1) : \E a \in S : f[a] = i
  BY <1>1, <1>2, Ranks
<1> HIDE DEF n
<1> DEFINE l == [i \in 1 .. n |-> CHOOSE a \in S : f[a] = i - 1]
<1>4. \A i \in 1 .. n : l[i] \in S /\ f[l[i]] = i - 1
  <2>1. \A i \in 1 .. n : \E a \in S : f[a] = i - 1
    BY <1>1, <1>3
  <2> QED  BY <2>1
<1>5. l \in [1 .. n -> Addr]
  BY <1>0, <1>4
<1>6. DOMAIN l = 1 .. n
  OBVIOUS
<1> HIDE DEF l
<1>7. \A i, j \in 1 .. n : l[i] = l[j] => i = j
  BY <1>1, <1>4
<1>8. \A i, j \in 1 .. n : i < j => <<l[i], l[j]>> \in earlier
  <2> SUFFICES ASSUME NEW i \in 1 .. n, NEW j \in 1 .. n, i < j
               PROVE  <<l[i], l[j]>> \in earlier
    OBVIOUS
  <2>1. l[i] \in S /\ l[j] \in S /\ f[l[i]] = i - 1 /\ f[l[j]] = j - 1
    BY <1>4
  <2>2. l[i] # l[j] /\ <<l[j], l[i]>> \notin earlier
    BY <1>1, <1>3, <2>1
  <2> QED  BY <1>2, <2>1, <2>2 DEF StrictOrder
<1>9. l \in Lists
  BY <1>1, <1>5, <1>6, <1>7 DEF Lists
<1>10. Entries(l) = S
  <2>1. \A a \in S : \E i \in 1 .. n : l[i] = a
    <3> SUFFICES ASSUME NEW a \in S PROVE \E i \in 1 .. n : l[i] = a
      OBVIOUS
    <3>1. f[a] + 1 \in 1 .. n
      BY <1>1
    <3>2. l[f[a] + 1] \in S /\ f[l[f[a] + 1]] = f[a]
      BY <1>1, <1>4, <3>1
    <3>3. l[f[a] + 1] = a
      BY <1>3, <3>2
    <3> QED  BY <3>1, <3>3
  <2> QED  BY <1>4, <1>6, <2>1 DEF Entries
<1>11. \E m \in Lists : /\ Entries(m) = {a \in Addr : s \in sources[a]}
                        /\ \A i, j \in DOMAIN m : i < j => <<m[i], m[j]>> \in earlier
  BY <1>6, <1>8, <1>9, <1>10 DEF S
<1> QED  BY <1>11 DEF getAddressesForSource

-----------------------------------------------------------------------------
(* hl-stream's watchlist: the lists a refresh carries, and the manager.    *)

Answers == {<<>>} \cup {<<l>> : l \in Lists}

WInv ==
  /\ IInv
  /\ MethodsDealt
  /\ scoutPins \in Lists
  /\ scoutSelected \in Lists
  /\ scoutAddresses \in Lists
  /\ pc \in [Refresh -> {"idle", "fetching", "legacy"}]
  /\ gotPins \in [Refresh -> Answers]
  /\ gotLegacy \in [Refresh -> Answers]
  /\ \A r \in Refresh : pc[r] = "legacy" => gotLegacy[r] # <<>>
  /\ calls \in Nat

(* The two lists a refresh writes are lists.                               *)
LEMMA AnswerType ==
  ASSUME NEW g \in Answers, g # <<>>
  PROVE  g[1] \in Lists
BY DEF Answers

(* Every step of hl-stream is one operation of the manager or none.        *)
LEMMA StepsManage == WInv /\ [StreamNext]_vars => [Next]_managerVars
<1> SUFFICES ASSUME WInv, [StreamNext]_vars
             PROVE  Next \/ UNCHANGED managerVars
  OBVIOUS
<1>1. ASSUME NEW s \in Source, NEW l \in Lists, replaceForSource(s, l)
      PROVE  Next
  BY <1>1 DEF Next
<1>2. ASSUME NEW r \in Refresh, replacePinned(r)
      PROVE  Next
  <2>1. gotPins[r] \in Answers /\ gotPins[r] # <<>>
    BY <1>2 DEF WInv, replacePinned
  <2>2. gotPins[r][1] \in Lists
    BY <2>1, AnswerType
  <2> QED  BY <1>1, <1>2, <2>2, SourceAssumption DEF replacePinned
<1>3. ASSUME NEW r \in Refresh, replaceLegacy(r)
      PROVE  Next
  <2>1. gotLegacy[r] \in Answers /\ gotLegacy[r] # <<>>
    BY <1>3 DEF WInv, replaceLegacy
  <2>2. gotLegacy[r][1] \in Lists
    BY <2>1, AnswerType
  <2> QED  BY <1>1, <1>3, <2>2, SourceAssumption DEF replaceLegacy
<1>4. ASSUME ApiCall
      PROVE  Next
  BY <1>4, SourceAssumption DEF ApiCall, Next
<1>5. ASSUME NEW r \in Refresh,
             StartRefresh(r) \/ fetchPinnedAddresses(r) \/ fetchLegacyAddresses(r)
      PROVE  UNCHANGED managerVars
  BY <1>5 DEF StartRefresh, fetchPinnedAddresses, fetchLegacyAddresses,
              fetchSelected, fetchAddresses, managerVars
<1>6. ASSUME NEW l, ScoutPins(l) \/ ScoutSelects(l)
      PROVE  UNCHANGED managerVars
  BY <1>6 DEF ScoutPins, ScoutSelects, managerVars
<1>7. ASSUME UNCHANGED vars
      PROVE  UNCHANGED managerVars
  BY <1>7 DEF vars, managerVars
<1> QED  BY <1>2, <1>3, <1>4, <1>5, <1>6, <1>7 DEF StreamNext

LEMMA WInit == StreamInit => WInv
<1> SUFFICES ASSUME StreamInit PROVE WInv
  OBVIOUS
<1>1. IInv /\ MethodsDealt
  BY InitInv, InitDeals DEF StreamInit
<1> QED  BY <1>1 DEF StreamInit, WInv, Answers

LEMMA WNext == WInv /\ [StreamNext]_vars => WInv'
<1> SUFFICES ASSUME WInv, [StreamNext]_vars PROVE WInv'
  OBVIOUS
<1>1. (IInv /\ MethodsDealt)'
  <2>1. [Next]_managerVars
    BY StepsManage
  <2> QED  BY <2>1, NextInv, NextDeals DEF WInv
<1> DEFINE Carried ==
      /\ {scoutPins, scoutSelected, scoutAddresses} \subseteq Lists
      /\ pc \in [Refresh -> {"idle", "fetching", "legacy"}]
      /\ gotPins \in [Refresh -> Answers] /\ gotLegacy \in [Refresh -> Answers]
      /\ \A r \in Refresh : pc[r] = "legacy" => gotLegacy[r] # <<>>
      /\ calls \in Nat
<1>2. Carried
  BY DEF WInv
<1>3. <<>> \in Answers /\ \A l \in Lists : <<l>> \in Answers /\ <<l>> # <<>>
  BY DEF Answers
<1>4. ASSUME NEW l \in Lists, ScoutPins(l) \/ ScoutSelects(l)
      PROVE  Carried'
  BY <1>2, <1>4 DEF ScoutPins, ScoutSelects, refreshVars
<1>5. ASSUME NEW r \in Refresh, StartRefresh(r)
      PROVE  Carried'
  BY <1>2, <1>5 DEF StartRefresh, scoutVars
<1>6. ASSUME NEW r \in Refresh, fetchPinnedAddresses(r)
      PROVE  Carried'
  <2>1. <<>> \in Lists
    <3>1. Cardinality(Addr) \in Nat
      BY AddrFinite, FS_CardinalityType
    <3>2. 0 \in 0 .. Cardinality(Addr) /\ <<>> \in [1 .. 0 -> Addr]
      BY <3>1
    <3> QED  BY <3>2 DEF Lists
  <2> QED  BY <1>2, <1>3, <1>6, <2>1 DEF fetchPinnedAddresses, scoutVars
<1>7. ASSUME NEW r \in Refresh, fetchLegacyAddresses(r)
      PROVE  Carried'
  <2>1. getAddressesForSource("legacy") \in Lists
    BY SourceListed DEF WInv
  <2> QED
    BY <1>2, <1>3, <1>7, <2>1 DEF fetchLegacyAddresses, fetchSelected, fetchAddresses, scoutVars
<1>8. ASSUME NEW r \in Refresh, replacePinned(r)
      PROVE  Carried'
  BY <1>2, <1>8 DEF replacePinned, scoutVars
<1>9. ASSUME NEW r \in Refresh, replaceLegacy(r)
      PROVE  Carried'
  BY <1>2, <1>3, <1>9 DEF replaceLegacy, scoutVars
<1>10. ASSUME ApiCall
       PROVE  Carried'
  BY <1>2, <1>10 DEF ApiCall, scoutVars, refreshVars
<1>11. ASSUME UNCHANGED vars
       PROVE  Carried'
  BY <1>2, <1>11 DEF vars, scoutVars, refreshVars
<1>12. Carried'
  BY <1>4, <1>5, <1>6, <1>7, <1>8, <1>9, <1>10, <1>11 DEF StreamNext
<1> QED  BY <1>1, <1>12 DEF WInv

(* The lists carried over the awaits are lists, and the manager's          *)
(* invariant holds in hl-stream.                                           *)
THEOREM WInvariance == StreamSpec => []WInv
<1> QED  BY WInit, WNext, PTL DEF StreamSpec

(* What the manager promises holds in hl-stream: no slot is given out      *)
(* twice, nobody is passed over, and a refresh that changes nothing moves  *)
(* nobody.                                                                 *)
THEOREM ManagerPromises ==
  StreamSpec => [](SlotsRespected /\ NoPriorityInversion /\ DemotedSlotsStayFree /\ Settled)
<1>1. WInv => SlotsRespected /\ NoPriorityInversion /\ DemotedSlotsStayFree /\ Settled
  BY DealtByPriority, DealtReserve, StreamedState DEF WInv, IInv, Settled
<1> QED  BY <1>1, WInvariance, PTL

(* A refresh changes only pinned and legacy registrations.                 *)
THEOREM RefreshTouchesOwn == StreamSpec => OthersUntouched
<1> DEFINE OthersKept == \A s \in ApiSource \ {"pinned", "legacy"} :
                           {a \in Addr : s \in sources'[a]} = Listed(s)
<1>1. ASSUME NEW s \in {"pinned", "legacy"}, NEW l, replaceForSource(s, l)
      PROVE  OthersKept
  <2>1. sources' = [a \in Addr |-> IF a \in Entries(l) THEN sources[a] \cup {s}
                                                               ELSE sources[a] \ {s}]
    BY <1>1, Zenon DEF replaceForSource, UpdateEntries, reassignMethods
  <2> QED  BY <2>1 DEF Listed
<1>2. ASSUME UNCHANGED sources
      PROVE  OthersKept
  BY <1>2 DEF Listed
<1>3. ASSUME WInv, [StreamNext]_vars
      PROVE  OthersKept \/ calls' # calls
  <2>1. ASSUME NEW r \in Refresh, replacePinned(r)
        PROVE  OthersKept
    BY <1>1, <2>1 DEF replacePinned
  <2>2. ASSUME NEW r \in Refresh, replaceLegacy(r)
        PROVE  OthersKept
    BY <1>1, <2>2 DEF replaceLegacy
  <2>3. ASSUME ApiCall
        PROVE  calls' # calls
    BY <1>3, <2>3 DEF ApiCall, WInv
  <2>4. ASSUME NEW r \in Refresh,
               StartRefresh(r) \/ fetchPinnedAddresses(r) \/ fetchLegacyAddresses(r)
        PROVE  UNCHANGED sources
    BY <2>4 DEF StartRefresh, fetchPinnedAddresses, fetchLegacyAddresses, fetchSelected,
                fetchAddresses, managerVars
  <2>5. ASSUME NEW l, ScoutPins(l) \/ ScoutSelects(l)
        PROVE  UNCHANGED sources
    BY <2>5 DEF ScoutPins, ScoutSelects, managerVars
  <2>6. ASSUME UNCHANGED vars
        PROVE  UNCHANGED sources
    BY <2>6 DEF vars, managerVars
  <2> HIDE DEF OthersKept
  <2> QED  BY <1>2, <1>3, <2>1, <2>2, <2>3, <2>4, <2>5, <2>6 DEF StreamNext
<1> QED  BY <1>3, WInvariance, PTL DEF StreamSpec, OthersUntouched
=============================================================================
