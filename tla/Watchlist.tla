----------------------------- MODULE Watchlist -----------------------------
(***************************************************************************)
(* The watchlist of hl-stream: refreshWatchlist copies the pinned and the  *)
(* selected accounts of hl-scout into the SubscriptionManager while other  *)
(* services register addresses over the API and the user promotes and      *)
(* demotes them.                                                           *)
(*                                                                         *)
(* refreshWatchlist runs on a timer and from several handlers; nothing     *)
(* keeps two of them apart.  It awaits the answers of hl-scout, and then   *)
(* onChanged after it has replaced the pinned addresses.  Between awaits   *)
(* each call to the manager is one step.  The state and the                *)
(* operations of the manager are those of SubscriptionManager; Init, Next  *)
(* and Spec are its own, StreamInit, StreamNext and StreamSpec hl-stream's.*)
(***************************************************************************)
EXTENDS SubscriptionManager, Sequences

CONSTANTS
  ApiSource,    \* sources that register over the API
  Refresh,      \* concurrent activations of refreshWatchlist
  MaxChanges,   \* bound: changes of hl-scout's lists
  MaxFailures,  \* bound: fetches that fail
  MaxCalls      \* bound: API calls and overrides

ASSUME SourceAssumption == ApiSource \cup {"pinned", "legacy"} \subseteq Source

VARIABLES
  scoutPins,      \* what /pinned-accounts of hl-scout returns
  scoutSelected,  \* what /leaderboard/selected returns
  scoutAddresses, \* what /addresses returns
  up,             \* main has passed its first refreshWatchlist
  pc,             \* pc[r]: "idle", "fetching" or, before the last step, "legacy"
  falling,        \* falling[r]: /leaderboard/selected gave nothing, /addresses is asked
  gotPins,        \* gotPins[r], gotLegacy[r]: <<>> or <<answer>>
  gotLegacy,
  changes, failures, calls

scoutVars == <<scoutPins, scoutSelected, scoutAddresses>>
refreshVars == <<pc, falling, gotPins, gotLegacy>>
vars == <<managerVars, scoutVars, up, refreshVars, changes, failures, calls>>

StreamInit ==
  /\ Init
  /\ maxWebSocketSlots = MaxSlots
  /\ scoutPins \in Lists
  /\ scoutSelected \in Lists
  /\ scoutAddresses \in Lists
  /\ up = FALSE
  /\ pc = [r \in Refresh |-> "idle"]
  /\ falling = [r \in Refresh |-> FALSE]
  /\ gotPins = [r \in Refresh |-> <<>>]
  /\ gotLegacy = [r \in Refresh |-> <<>>]
  /\ changes = 0 /\ failures = 0 /\ calls = 0

(* hl-scout, external: the user pins or unpins, or the selection changes.  *)
ScoutPins(l) ==
  /\ changes < MaxChanges /\ changes' = changes + 1
  /\ scoutPins' = l
  /\ UNCHANGED <<managerVars, scoutSelected, scoutAddresses, up, refreshVars, failures, calls>>

ScoutSelects(l) ==
  /\ changes < MaxChanges /\ changes' = changes + 1
  /\ \/ scoutSelected' = l /\ UNCHANGED scoutAddresses
     \/ scoutAddresses' = l /\ UNCHANGED scoutSelected
  /\ UNCHANGED <<managerVars, scoutPins, up, refreshVars, failures, calls>>

(* main awaits the first refresh before anything else can start one.       *)
StartRefresh(r) ==
  /\ pc[r] = "idle"
  /\ up \/ \A q \in Refresh : pc[q] = "idle"
  /\ pc' = [pc EXCEPT ![r] = "fetching"]
  /\ UNCHANGED <<managerVars, scoutVars, up, falling, gotPins, gotLegacy, changes, failures,
                 calls>>

(* A failed fetch counts as an empty list.                                 *)
fetchPinnedAddresses(r) ==
  /\ pc[r] = "fetching" /\ gotPins[r] = <<>>
  /\ \/ /\ gotPins' = [gotPins EXCEPT ![r] = <<scoutPins>>]
        /\ UNCHANGED failures
     \/ /\ failures < MaxFailures /\ failures' = failures + 1
        /\ gotPins' = [gotPins EXCEPT ![r] = <<<<>>>>]
  /\ UNCHANGED <<managerVars, scoutVars, up, pc, falling, gotLegacy, changes, calls>>

Fail == failures < MaxFailures /\ failures' = failures + 1

(* The first request of fetchLegacyAddresses: when it fails or its list is *)
(* empty, /addresses is asked.                                             *)
fetchSelected(r) ==
  /\ pc[r] = "fetching" /\ gotLegacy[r] = <<>> /\ ~falling[r]
  /\ \/ /\ scoutSelected # <<>>
        /\ gotLegacy' = [gotLegacy EXCEPT ![r] = <<scoutSelected>>]
        /\ UNCHANGED <<falling, failures>>
     \/ /\ IF scoutSelected = <<>> THEN UNCHANGED failures ELSE Fail
        /\ falling' = [falling EXCEPT ![r] = TRUE]
        /\ UNCHANGED gotLegacy
  /\ UNCHANGED <<managerVars, scoutVars, up, pc, gotPins, changes, calls>>

(* The second: when it fails too the answer is what is registered by then. *)
fetchAddresses(r) ==
  /\ falling[r]
  /\ falling' = [falling EXCEPT ![r] = FALSE]
  /\ \/ /\ gotLegacy' = [gotLegacy EXCEPT ![r] = <<scoutAddresses>>]
        /\ UNCHANGED failures
     \/ /\ Fail
        /\ gotLegacy' = [gotLegacy EXCEPT ![r] = <<getAddressesForSource("legacy")>>]
  /\ UNCHANGED <<managerVars, scoutVars, up, pc, gotPins, changes, calls>>

fetchLegacyAddresses(r) == fetchSelected(r) \/ fetchAddresses(r)

(* Slip: what hl-scout no longer lists stays registered.                   *)
replacePinnedByRegister(r) ==
  /\ pc[r] = "fetching" /\ gotPins[r] # <<>> /\ gotLegacy[r] # <<>>
  /\ register("pinned", gotPins[r][1])
  /\ pc' = [pc EXCEPT ![r] = "legacy"]
  /\ UNCHANGED <<scoutVars, up, falling, gotPins, gotLegacy, changes, failures, calls>>

(* Promise.all is satisfied; the call then awaits onChanged.               *)
replacePinned(r) ==
  /\ pc[r] = "fetching" /\ gotPins[r] # <<>> /\ gotLegacy[r] # <<>>
  /\ replaceForSource("pinned", gotPins[r][1])
  /\ pc' = [pc EXCEPT ![r] = "legacy"]
  /\ UNCHANGED <<scoutVars, up, falling, gotPins, gotLegacy, changes, failures, calls>>

(* Slip: an address that is not listed is deleted with all its sources.    *)
replaceLegacyDropsOthers(r) ==
  /\ pc[r] = "legacy"
  /\ UpdateEntries([a \in Addr |-> IF a \in Entries(gotLegacy[r][1])
                                             THEN sources[a] \cup {"legacy"} ELSE {}],
                           gotLegacy[r][1])
  /\ pc' = [pc EXCEPT ![r] = "idle"]
  /\ gotPins' = [gotPins EXCEPT ![r] = <<>>]
  /\ gotLegacy' = [gotLegacy EXCEPT ![r] = <<>>]
  /\ up' = TRUE
  /\ UNCHANGED <<scoutVars, falling, changes, failures, calls>>

replaceLegacy(r) ==
  /\ pc[r] = "legacy"
  /\ replaceForSource("legacy", gotLegacy[r][1])
  /\ pc' = [pc EXCEPT ![r] = "idle"]
  /\ gotPins' = [gotPins EXCEPT ![r] = <<>>]
  /\ gotLegacy' = [gotLegacy EXCEPT ![r] = <<>>]
  /\ up' = TRUE
  /\ UNCHANGED <<scoutVars, falling, changes, failures, calls>>

(* The /subscriptions handlers; hl-sage uses them for the alpha pool.      *)
ApiCall ==
  /\ up
  /\ calls < MaxCalls /\ calls' = calls + 1
  /\ \/ \E s \in ApiSource, l \in Lists : register(s, l)
     \/ \E s \in ApiSource, l \in Lists : unregister(s, l)
     \/ \E s \in ApiSource, l \in Lists : replaceForSource(s, l)
     \/ \E a \in Addr : demoteToPolling(a)
     \/ \E a \in Addr : promoteToWebsocket(a)
  /\ UNCHANGED <<scoutVars, up, refreshVars, changes, failures>>

StreamNext ==
  \/ \E l \in Lists : ScoutPins(l)
  \/ \E l \in Lists : ScoutSelects(l)
  \/ \E r \in Refresh : StartRefresh(r)
  \/ \E r \in Refresh : fetchPinnedAddresses(r)
  \/ \E r \in Refresh : fetchLegacyAddresses(r)
  \/ \E r \in Refresh : replacePinned(r)
  \/ \E r \in Refresh : replaceLegacy(r)
  \/ ApiCall

StreamSpec == StreamInit /\ [][StreamNext]_vars

(* The 60 s timer starts refreshes for ever, and a refresh ends: fetches   *)
(* are answered or fail.                                                    *)
Fairness ==
  \A r \in Refresh :
    /\ WF_vars(StartRefresh(r))
    /\ WF_vars(fetchPinnedAddresses(r))
    /\ WF_vars(fetchLegacyAddresses(r))
    /\ WF_vars(replacePinned(r))
    /\ WF_vars(replaceLegacy(r))

FairSpec == StreamSpec /\ Fairness

-----------------------------------------------------------------------------
StreamTypeOK ==
  /\ TypeOK
  /\ {scoutPins, scoutSelected, scoutAddresses} \subseteq Lists
  /\ pc \in [Refresh -> {"idle", "fetching", "legacy"}]
  /\ falling \in [Refresh -> BOOLEAN]
  /\ \A r \in Refresh :
       /\ {gotPins[r], gotLegacy[r]} \subseteq {<<>>} \cup {<<l>> : l \in Lists}
       /\ pc[r] = "legacy" => Len(gotLegacy[r]) = 1

Listed(s) == {a \in Addr : s \in sources[a]}

(* Whatever two overlapping refreshes and failed fetches do, once hl-scout *)
(* and the network are quiet the manager's pinned and legacy addresses     *)
(* come to be hl-scout's (of /addresses where nothing is selected) and     *)
(* remain so.                                                              *)
FollowsScout ==
  <>[](/\ Listed("pinned") = Entries(scoutPins)
       /\ Listed("legacy") = Entries(IF scoutSelected # <<>> THEN scoutSelected
                                                             ELSE scoutAddresses))

(* Only the API changes what the other sources have registered: the two    *)
(* steps of a refresh, however late, keep every alpha-pool address.        *)
OthersUntouched ==
  [][(\A s \in ApiSource \ {"pinned", "legacy"} :
        {a \in Addr : s \in sources'[a]} = Listed(s)) \/ calls' # calls]_vars
=============================================================================
