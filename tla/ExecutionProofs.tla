-------------------------- MODULE ExecutionProofs --------------------------
(***************************************************************************)
(* Proofs about Execution, for every set of symbols and account values,    *)
(* every configuration of limits, every history of signals, market moves,  *)
(* faults and crashes: the executor implements TradingHalt, a loss of the  *)
(* day is remembered over restarts, a venue whose names are those of the   *)
(* signals stays within its limits, and the log tells the truth.           *)
(*                                                                         *)
(* An execution takes several steps, so that each of the four needs what   *)
(* its earlier steps have made sure of and nothing in between can undo:    *)
(* a job that is ordered finds the switch off (HaltInv), the memory of the *)
(* process agrees with the row of the day (MemoryInv), and the names told  *)
(* to the circuit breaker cover what the venue still holds (LimitInv).     *)
(***************************************************************************)
EXTENDS Execution, FiniteSetTheorems, TLAPS

Day == [date : Int, equity : Int]

(* Once an account has been read the job is a record of what was read.     *)
AccountRead ==
  job = [pc |-> job.pc, venue |-> job.venue, symbol |-> job.symbol, kelly |-> job.kelly,
         value |-> job.value, exposure |-> job.exposure, blind |-> job.blind]

JobTypes ==
  /\ job.pc \in {"idle", "read", "check", "order", "log"}
  /\ job.pc # "idle" => running
  /\ job.pc \in {"read", "check", "order"} => job.venue \in Venue /\ job.symbol \in Symbol
  /\ job.pc \in {"check", "order"} =>
       AccountRead /\ job.value \in Int /\ job.blind \in BOOLEAN

Types ==
  /\ now \in Nat /\ triggered_at \in {Never} \cup 0 .. now
  /\ daily \in Day /\ row \in Day /\ opening \in Day /\ missedDay \in Int
  /\ held \in [Venue -> [Symbol -> Nat]] /\ equity \in [Venue -> Equity]
  /\ byExchange \in [Venue -> SUBSET (Symbol \X {"", "USDT", "-PERP"})]
  /\ orders \in Nat /\ faults \in Nat
  /\ JobTypes

(* An order is sent with the switch off: nothing but the check of the same *)
(* execution sets it.                                                      *)
HaltInv == job.pc = "order" => triggered_at = Never

(* The row is that of the first check of the day that reached the          *)
(* database, and the equity in memory is the row's, unless a check of the  *)
(* day has missed the database.                                            *)
MemoryInv ==
  /\ row = opening
  /\ daily.date <= Today /\ row.date <= Today /\ missedDay <= Today
  /\ daily.date = Today /\ missedDay # Today =>
       row.date = Today /\ daily.equity = row.equity

(* What an execution that has read the positions of Hyperliquid goes by:   *)
(* first they are among the names it reported, then there is room.         *)
LimitInv ==
  /\ job.pc = "check" /\ Account = HL /\ ~job.blind =>
       \A s \in HeldSymbols(HL) : Name(s, "") \in byExchange[job.venue]
  /\ job.pc = "order" /\ Account = HL /\ ~job.blind =>
       /\ held[HL][job.symbol] = 0
       /\ Cardinality(HeldSymbols(HL)) < MAX_CONCURRENT_POSITIONS

EInv == Types /\ HaltInv /\ MemoryInv /\ LimitInv /\ WithinLimits /\ LogTellsTruth

-----------------------------------------------------------------------------
LEMMA TodayType == ASSUME now \in Nat PROVE Today \in Nat
BY GovernorAssumption DEF Today

LEMMA TodayAdvances ==
  ASSUME now \in Nat, now' = now + 1
  PROVE  Today' \in Nat /\ Today <= Today'
BY GovernorAssumption DEF Today

LEMMA ThreeFinite == ASSUME NEW x, NEW y, NEW z PROVE IsFiniteSet({x, y, z})
<1>1. IsFiniteSet({x})
  BY FS_Singleton
<1>2. IsFiniteSet({x} \cup {y})
  BY <1>1, FS_AddElement
<1>3. IsFiniteSet(({x} \cup {y}) \cup {z})
  BY <1>2, FS_AddElement
<1>4. ({x} \cup {y}) \cup {z} = {x, y, z}
  OBVIOUS
<1> QED  BY <1>3, <1>4

LEMMA VenueFinite == IsFiniteSet(Venue)
<1>1. IsFiniteSet({"hyperliquid", "bybit", "aster"})
  BY ThreeFinite
<1> QED  BY <1>1, ExecutionAssumption, FS_Subset

LEMMA HeldFinite ==
  IsFiniteSet(HeldSymbols(HL)) /\ Cardinality(HeldSymbols(HL)) \in Nat
BY ExecutionAssumption, FS_Subset, FS_CardinalityType DEF HeldSymbols

LEMMA HeldTyped == ASSUME Types, NEW s \in Symbol PROVE held[HL][s] \in Nat
BY ExecutionAssumption DEF Types

(* The names a venue last reported are counted among all positions.        *)
LEMMA CountCovers ==
  ASSUME Types, NEW v \in Venue,
         \A s \in HeldSymbols(HL) : Name(s, "") \in byExchange[v]
  PROVE  Cardinality(HeldSymbols(HL)) <= PositionCount /\ PositionCount \in Nat
<1> DEFINE all == UNION {{w} \X byExchange[w] : w \in Venue}
           f == [s \in HeldSymbols(HL) |-> <<v, Name(s, "")>>]
<1>1. IsFiniteSet(all)
  <2>1. IsFiniteSet({"", "USDT", "-PERP"})
    BY ThreeFinite
  <2>2. IsFiniteSet(Symbol)
    BY ExecutionAssumption
  <2>3. IsFiniteSet(Venue \X (Symbol \X {"", "USDT", "-PERP"}))
    <3>1. IsFiniteSet(Symbol \X {"", "USDT", "-PERP"})
      BY <2>1, <2>2, FS_Product
    <3> QED  BY <3>1, VenueFinite, FS_Product
  <2>4. all \in SUBSET (Venue \X (Symbol \X {"", "USDT", "-PERP"}))
    <3> SUFFICES ASSUME NEW w \in Venue
                 PROVE  {w} \X byExchange[w] \subseteq Venue \X (Symbol \X {"", "USDT", "-PERP"})
      OBVIOUS
    <3>1. byExchange[w] \subseteq Symbol \X {"", "USDT", "-PERP"}
      BY DEF Types
    <3>2. \A A, B, C, D : A \subseteq B /\ C \subseteq D => A \X C \subseteq B \X D
      OBVIOUS
    <3>3. {w} \subseteq Venue
      OBVIOUS
    <3> QED  BY <3>1, <3>2, <3>3, Zenon
  <2> QED  BY <2>3, <2>4, FS_Subset
<1>2. f \in [HeldSymbols(HL) -> all]
  <2> SUFFICES ASSUME NEW s \in HeldSymbols(HL) PROVE <<v, Name(s, "")>> \in all
    OBVIOUS
  <2>1. <<v, Name(s, "")>> \in {v} \X byExchange[v]
    OBVIOUS
  <2> QED  BY <2>1
<1>3. \A s, t \in HeldSymbols(HL) : f[s] = f[t] => s = t
  BY DEF Name
<1>4. f \in Injection(HeldSymbols(HL), all)
  BY <1>2, <1>3 DEF Injection, IsInjective
<1> HIDE DEF f, all
<1>5. Cardinality(HeldSymbols(HL)) <= Cardinality(all) /\ Cardinality(all) \in Nat
  BY <1>1, <1>4, FS_Injection, FS_CardinalityType
<1> QED  BY <1>5 DEF all, PositionCount

(* A name the circuit breaker does not find in any venue is not in this.   *)
LEMMA NoneFound ==
  ASSUME Types, NEW v \in Venue, NEW name, SymbolCount(name) = 0
  PROVE  name \notin byExchange[v]
<1> DEFINE S == {w \in Venue : name \in byExchange[w]}
<1>1. IsFiniteSet(S)
  BY VenueFinite, FS_Subset
<1>2. S = {}
  BY <1>1, FS_EmptySet DEF SymbolCount
<1> QED  BY <1>2

LEMMA SourcesAreVenues ==
  ASSUME Types, job.pc \in {"read", "check", "order"}
  PROVE  Sources \subseteq Venue /\ Account \in Venue /\ (job.venue \notin registered => Account = HL)
BY ExecutionAssumption DEF Types, JobTypes, Sources, Account, Managed

LEMMA EInit == Init => EInv
<1> SUFFICES ASSUME Init PROVE EInv
  OBVIOUS
<1>1. job.pc = "idle"
  BY DEF Init, NoJob
<1>2. Today \in Nat /\ now = 0
  BY GovernorAssumption DEF Init, Today
<1>3. Types
  BY <1>1, ExecutionAssumption DEF Init, Types, JobTypes, Day, NoDay, Never
<1>4. MemoryInv
  BY <1>2 DEF Init, MemoryInv, NoDay, Never
<1>5. WithinLimits
  <2>1. HeldSymbols(HL) = {}
    BY ExecutionAssumption DEF Init, HeldSymbols
  <2> QED  BY <2>1, FS_EmptySet, ExecutionAssumption, GovernorAssumption
           DEF Init, WithinLimits, HeldSymbols
<1> QED  BY <1>1, <1>3, <1>4, <1>5 DEF EInv, HaltInv, LimitInv, LogTellsTruth

-----------------------------------------------------------------------------
LEMMA CallsCount ==
  ASSUME faults \in Nat, NEW ok, Calls(ok)
  PROVE  faults' \in Nat /\ faults <= faults' /\ (~ok => faults' > 0)
BY DEF Calls

LEMMA TodayKept == ASSUME now' = now PROVE Today' = Today
BY DEF Today

(* Which account a job is about is the same as long as the job and the     *)
(* registered venues are.                                                  *)
LEMMA AccountKept ==
  ASSUME UNCHANGED registered, job'.venue = job.venue
  PROVE  Account' = Account
BY DEF Account, Managed

(* A step that leaves the executor alone: accounts may change, positions   *)
(* may be closed.                                                          *)
LEMMA AsideKept ==
  ASSUME EInv,
         UNCHANGED <<governorVars, running, registered, job, orders, blind, opening, missedDay>>,
         held' \in [Venue -> [Symbol -> Nat]], equity' \in [Venue -> Equity],
         \A s \in Symbol : held'[HL][s] <= held[HL][s],
         faults' \in Nat, faults <= faults'
  PROVE  EInv'
<1> USE DEF governorVars, memory
<1>1. Types' /\ HaltInv'
  BY DEF EInv, Types, JobTypes, AccountRead, HaltInv
<1>2. MemoryInv'
  BY TodayKept DEF EInv, MemoryInv
<1>3. /\ \A s \in Symbol : held[HL][s] \in Nat /\ held'[HL][s] \in Nat
      /\ MAX_CONCURRENT_POSITIONS \in Nat /\ faults \in Nat
  BY ExecutionAssumption, GovernorAssumption DEF EInv, Types
<1>4. HeldSymbols(HL)' \in SUBSET HeldSymbols(HL)
  BY <1>3 DEF HeldSymbols
<1>5. /\ Cardinality(HeldSymbols(HL)') <= Cardinality(HeldSymbols(HL))
      /\ Cardinality(HeldSymbols(HL)) \in Nat /\ Cardinality(HeldSymbols(HL)') \in Nat
  BY <1>4, HeldFinite, FS_Subset, FS_CardinalityType
<1>6. Account' = Account
  BY AccountKept
<1>7. LimitInv'
  <2>1. job.pc = "order" => job.symbol \in Symbol
    BY DEF EInv, Types, JobTypes
  <2>2. job.pc = "order" /\ held[HL][job.symbol] = 0 => held'[HL][job.symbol] = 0
    BY <1>3, <2>1
  <2>3. LimitInv /\ UNCHANGED <<job, byExchange>>
    BY DEF EInv
  <2>4. \A s \in HeldSymbols(HL)' : s \in HeldSymbols(HL)
    BY <1>4
  <2>5. Cardinality(HeldSymbols(HL)) < MAX_CONCURRENT_POSITIONS
          => Cardinality(HeldSymbols(HL)') < MAX_CONCURRENT_POSITIONS
    BY <1>3, <1>5
  <2> HIDE DEF HeldSymbols, Account
  <2> QED  BY <1>6, <2>2, <2>3, <2>4, <2>5 DEF LimitInv
<1>8. WithinLimits'
  <2>1. \A s \in Symbol : held[HL][s] <= 1 => held'[HL][s] <= 1
    BY <1>3
  <2> QED  BY <1>3, <1>5, <2>1 DEF EInv, WithinLimits
<1>9. LogTellsTruth'
  BY <1>3 DEF EInv, LogTellsTruth
<1> QED  BY <1>1, <1>2, <1>7, <1>8, <1>9 DEF EInv

(* A step that only takes the job where nothing is promised of it.         *)
LEMMA JobTurns ==
  ASSUME EInv,
         UNCHANGED <<now, triggered_at, daily, row, opening, missedDay, held, equity, orders,
                     blind>>,
         byExchange' \in [Venue -> SUBSET (Symbol \X {"", "USDT", "-PERP"})],
         job'.pc \in {"idle", "read", "log"},
         job'.pc # "idle" => running',
         job'.pc = "read" => job'.venue \in Venue /\ job'.symbol \in Symbol,
         job'.pc = "log" => job'.status = "rejected" /\ ~job'.sent,
         faults' \in Nat
  PROVE  EInv'
<1>1. Types' /\ HaltInv' /\ LimitInv' /\ LogTellsTruth'
  BY DEF EInv, Types, JobTypes, HaltInv, LimitInv, LogTellsTruth
<1>2. MemoryInv'
  BY TodayKept DEF EInv, MemoryInv
<1>3. WithinLimits'
  BY DEF EInv, WithinLimits, HeldSymbols
<1> QED  BY <1>1, <1>2, <1>3 DEF EInv

LEMMA StartupKept == ASSUME EInv, Startup PROVE EInv'
<1>1. job.pc = "idle"
  BY DEF EInv, Types, JobTypes, Startup
<1>2. faults \in Nat
  BY DEF EInv, Types
<1>3. faults' \in Nat
  BY <1>2, CallsCount DEF Startup
<1> QED  BY <1>1, <1>3, JobTurns DEF Startup, governorVars, memory, venueVars, historyVars,
              EInv, Types

LEMMA CrashKept == ASSUME EInv, Crash PROVE EInv'
<1> USE DEF memory, venueVars
<1>1. /\ job'.pc = "idle" /\ triggered_at' = Never /\ daily' = NoDay
      /\ byExchange' = [v \in Venue |-> {}]
      /\ UNCHANGED <<now, row, held, equity, orders, blind, opening, missedDay>>
  BY DEF Crash, MemoryReset, NoJob
<1>2. faults' \in Nat
  BY CallsCount DEF Crash, EInv, Types
<1>3. Types'
  <2>1. byExchange' \in [Venue -> SUBSET (Symbol \X {"", "USDT", "-PERP"})]
    BY <1>1
  <2>2. NoDay \in Day
    BY DEF Day, NoDay, Never
  <2>3. JobTypes'
    BY <1>1 DEF JobTypes
  <2> QED  BY <1>1, <1>2, <2>1, <2>2, <2>3 DEF EInv, Types
<1>4. MemoryInv'
  <2>1. Today' = Today /\ Today \in Nat
    BY <1>1, TodayKept, TodayType DEF EInv, Types
  <2> QED  BY <1>1, <2>1 DEF EInv, MemoryInv, NoDay, Never
<1>5. WithinLimits'
  BY <1>1 DEF EInv, WithinLimits, HeldSymbols
<1> QED  BY <1>1, <1>3, <1>4, <1>5 DEF EInv, HaltInv, LimitInv, LogTellsTruth

(* A new day makes the equity in memory that of an older day.              *)
LEMMA TickKept == ASSUME EInv, Tick PROVE EInv'
<1> USE DEF memory, processVars, venueVars, historyVars, countVars
<1>1. /\ now' = now + 1 /\ now \in Nat
      /\ UNCHANGED <<triggered_at, daily, byExchange, row, running, registered, job, held, equity,
                     orders, blind, opening, missedDay, faults>>
  BY DEF Tick, EInv, Types
<1>2. Types'
  <2>1. triggered_at \in {Never} \cup 0 .. now
    BY DEF EInv, Types
  <2>2. now' \in Nat /\ triggered_at' \in {Never} \cup 0 .. now'
    BY <1>1, <2>1 DEF Never
  <2>3. JobTypes'
    BY <1>1 DEF EInv, Types, JobTypes, AccountRead
  <2> QED  BY <1>1, <2>2, <2>3 DEF EInv, Types
<1>3. MemoryInv'
  <2>1. Today \in Nat /\ Today' \in Nat /\ Today <= Today'
    BY <1>1, TodayType, TodayAdvances
  <2>2. daily.date \in Int /\ row.date \in Int /\ missedDay \in Int
    BY DEF EInv, Types, Day
  <2> QED  BY <1>1, <2>1, <2>2 DEF EInv, MemoryInv
<1>4. LimitInv' /\ WithinLimits'
  <2>1. Account' = Account
    BY <1>1, AccountKept
  <2> QED  BY <1>1, <2>1 DEF EInv, LimitInv, WithinLimits, HeldSymbols
<1> QED  BY <1>1, <1>2, <1>3, <1>4 DEF EInv, HaltInv, LogTellsTruth

LEMMA SignalKept ==
  ASSUME EInv, NEW v \in Venue, NEW s \in Symbol, NEW kelly \in BOOLEAN, Signal(v, s, kelly)
  PROVE  EInv'
BY JobTurns DEF Signal, governorVars, memory, processVars, venueVars, historyVars, EInv, Types

LEMMA MarketKept == ASSUME EInv, NEW v \in Venue, Market(v) PROVE EInv'
<1>1. PICK e \in Equity : equity' = [equity EXCEPT ![v] = e]
  BY DEF Market
<1>2. /\ equity' \in [Venue -> Equity] /\ faults \in Nat /\ held \in [Venue -> [Symbol -> Nat]]
      /\ \A s \in Symbol : held[HL][s] \in Nat
  BY <1>1, ExecutionAssumption DEF EInv, Types
<1>3. \A s \in Symbol : held[HL][s] <= held[HL][s]
  BY <1>2
<1> QED  BY <1>2, <1>3, AsideKept DEF Market, processVars, historyVars

LEMMA ClosedKept ==
  ASSUME EInv, NEW v \in Venue, NEW s \in Symbol, Closed(v, s)
  PROVE  EInv'
<1>1. held' = [held EXCEPT ![v][s] = 0] /\ UNCHANGED <<equity, faults>>
  BY DEF Closed, countVars
<1>2. /\ equity' \in [Venue -> Equity] /\ faults \in Nat /\ held \in [Venue -> [Symbol -> Nat]]
      /\ HL \in Venue
  BY <1>1, ExecutionAssumption DEF EInv, Types
<1>3. held' \in [Venue -> [Symbol -> Nat]] /\ \A t \in Symbol : held'[HL][t] <= held[HL][t]
  BY <1>1, <1>2
<1> QED  BY <1>1, <1>2, <1>3, AsideKept DEF Closed, processVars, historyVars

LEMMA PositionsTyped ==
  ASSUME NEW v \in Venue, NEW S \in SUBSET Symbol, NEW up \in BOOLEAN
  PROVE  Positions(v, S, up) \in SUBSET (Symbol \X {"", "USDT", "-PERP"})
<1>1. v \in {"hyperliquid", "bybit", "aster"}
  BY ExecutionAssumption
<1>2. \A suffix \in {"", "USDT", "-PERP"} :
        {Name(s, suffix) : s \in S} \in SUBSET (Symbol \X {"", "USDT", "-PERP"})
  <2> SUFFICES ASSUME NEW suffix \in {"", "USDT", "-PERP"}, NEW s \in S
               PROVE  Name(s, suffix) \in Symbol \X {"", "USDT", "-PERP"}
    OBVIOUS
  <2>1. s \in Symbol
    OBVIOUS
  <2> QED  BY <2>1 DEF Name
<1>3. \E suffix \in {"", "USDT", "-PERP"} :
        Positions(v, S, up) \in {{Name(s, suffix) : s \in S}, {}}
  BY <1>1 DEF Positions, HyperliquidPositions, BybitPositions, AsterPositions
<1> QED  BY <1>2, <1>3

LEMMA ReadKept == ASSUME EInv, ReadAccount PROVE EInv'
<1>1. /\ job.pc = "read" /\ running /\ job.venue \in Venue /\ job.symbol \in Symbol
      /\ UNCHANGED <<now, triggered_at, daily, row, running, registered, held, equity, orders,
                     blind, opening, missedDay>>
  BY DEF ReadAccount, venueVars, historyVars, EInv, Types, JobTypes
<1>2. faults' \in Nat
  BY CallsCount DEF ReadAccount, NoAccount, EInv, Types
<1>3. ASSUME NEW src \in Sources, NEW readable \in BOOLEAN, ~is_kill_switch_active,
             UpdatePositions(job.venue, AccountState(src, readable).names),
             job' = [pc |-> "check", venue |-> job.venue, symbol |-> job.symbol,
                     kelly |-> job.kelly, value |-> AccountState(src, readable).value,
                     exposure |-> AccountState(src, readable).exposure,
                     blind |-> ~readable \/ src # Account]
      PROVE  EInv'
  <2>1. src \in Venue
    BY <1>1, <1>3, SourcesAreVenues DEF EInv
  <2> DEFINE names == Positions(src, HeldSymbols(src), readable)
  <2>2. names \in SUBSET (Symbol \X {"", "USDT", "-PERP"})
    BY <2>1, PositionsTyped DEF HeldSymbols
  <2>3. byExchange' = [byExchange EXCEPT ![job.venue] = names]
    BY <1>3 DEF UpdatePositions, AccountState
  <2>4. equity[src] \in Int
    <3>1. equity[src] \in Equity
      BY <2>1 DEF EInv, Types
    <3>2. Equity \subseteq Nat \ {0}
      BY ExecutionAssumption, Zenon
    <3>3. equity[src] \in Nat
      BY <3>1, <3>2, Zenon
    <3> QED  BY <3>3
  <2>5. /\ job'.pc = "check" /\ job'.venue = job.venue /\ job'.symbol = job.symbol
        /\ job'.value = equity[src] /\ job'.blind = (~readable \/ src # Account)
        /\ AccountRead'
    BY <1>3 DEF AccountState, AccountRead
  <2>6. JobTypes'
    <3>1. job'.blind \in BOOLEAN
      BY <2>5, Zenon
    <3> QED  BY <1>1, <2>4, <2>5, <3>1 DEF JobTypes
  <2>7. Types'
    <3>1. byExchange' \in [Venue -> SUBSET (Symbol \X {"", "USDT", "-PERP"})]
      BY <1>1, <2>2, <2>3 DEF EInv, Types
    <3> QED  BY <1>1, <1>2, <2>6, <3>1 DEF EInv, Types
  <2>8. LimitInv'
    <3>1. Account' = Account
      BY <1>1, <2>5, AccountKept
    <3>2. ASSUME Account = HL, ~job'.blind
          PROVE  \A s \in HeldSymbols(HL) : Name(s, "") \in byExchange'[job'.venue]
      <4>1. src = HL /\ readable
        BY <2>5, <3>2
      <4>2. names = {Name(s, "") : s \in HeldSymbols(HL)}
        BY <4>1 DEF Positions, HyperliquidPositions, HL
      <4>3. byExchange'[job'.venue] = names
        BY <1>1, <2>3, <2>5 DEF EInv, Types
      <4> QED  BY <4>2, <4>3
    <3>3. HeldSymbols(HL)' = HeldSymbols(HL)
      BY <1>1 DEF HeldSymbols
    <3> HIDE DEF Account, HeldSymbols
    <3> QED  BY <2>5, <3>1, <3>2, <3>3 DEF LimitInv
  <2>9. MemoryInv'
    BY <1>1, TodayKept DEF EInv, MemoryInv
  <2>10. WithinLimits'
    BY <1>1 DEF EInv, WithinLimits, HeldSymbols
  <2> QED  BY <2>5, <2>7, <2>8, <2>9, <2>10 DEF EInv, HaltInv, LogTellsTruth
<1>4. ASSUME Reject,
             byExchange' \in [Venue -> SUBSET (Symbol \X {"", "USDT", "-PERP"})]
      PROVE  EInv'
  BY <1>1, <1>2, <1>4, JobTurns DEF Reject
<1>5. byExchange \in [Venue -> SUBSET (Symbol \X {"", "USDT", "-PERP"})]
  BY DEF EInv, Types
<1>6. \/ Reject /\ UNCHANGED byExchange
      \/ \E src \in Sources, readable \in BOOLEAN :
           /\ ~is_kill_switch_active
           /\ UpdatePositions(job.venue, AccountState(src, readable).names)
           /\ job' = [pc |-> "check", venue |-> job.venue, symbol |-> job.symbol,
                      kelly |-> job.kelly, value |-> AccountState(src, readable).value,
                      exposure |-> AccountState(src, readable).exposure,
                      blind |-> ~readable \/ src # Account]
  BY DEF ReadAccount
<1> QED  BY <1>3, <1>4, <1>5, <1>6

LEMMA LogKept == ASSUME EInv, LogExecution PROVE EInv'
BY JobTurns DEF LogExecution, NoJob, governorVars, memory, processVars, venueVars, historyVars,
                countVars, EInv, Types, JobTypes

LEMMA SimulateKept == ASSUME EInv, Simulate PROVE EInv'
<1>1. /\ job'.pc = "log" /\ job'.status = "simulated" /\ ~job'.sent /\ running
      /\ UNCHANGED <<governorVars, running, held, equity, orders, blind, opening, missedDay, faults>>
  BY DEF Simulate, processVars, venueVars, historyVars, countVars, EInv, Types, JobTypes
<1>2. Types' /\ HaltInv' /\ LimitInv' /\ LogTellsTruth'
  BY <1>1 DEF EInv, Types, JobTypes, HaltInv, LimitInv, LogTellsTruth, governorVars, memory
<1>3. MemoryInv'
  BY <1>1, TodayKept DEF EInv, MemoryInv, governorVars, memory
<1>4. WithinLimits'
  BY <1>1 DEF EInv, WithinLimits, HeldSymbols
<1> QED  BY <1>2, <1>3, <1>4 DEF EInv

-----------------------------------------------------------------------------
(* Who reports a fill with a price has executed the order.                 *)
LEMMA PricedMeansExecuted ==
  ASSUME job.venue \in Venue, NEW o \in Outcomes, StatusOf(o) = "filled"
  PROVE  o.executed
<1>1. job.venue \in {"hyperliquid", "bybit", "aster"}
  BY ExecutionAssumption
<1> DEFINE plain == {Filled, Refused, Lost} \cup Untold
<1>2. \A q \in plain : q.success /\ q.priced => q.executed
  BY DEF Filled, Refused, Lost, Untold, Outcome
<1>3. \A q \in plain : /\ [q EXCEPT !.guarded = q.executed].success = q.success
                       /\ [q EXCEPT !.guarded = q.executed].priced = q.priced
                       /\ [q EXCEPT !.guarded = q.executed].executed = q.executed
  BY DEF Filled, Refused, Lost, Untold, Outcome
<1>4. o \in plain \/ \E q \in plain : o = [q EXCEPT !.guarded = q.executed]
  BY <1>1 DEF Outcomes, LegacyOpen, OpenPosition, HyperliquidOpen, BybitOpen, AsterOpen,
              HyperliquidAnswer, AsterAnswer, AsterRequest, BybitOrder, BybitStatus, WithStop
<1>5. o.success /\ o.priced
  BY DEF StatusOf
<1> HIDE DEF plain
<1> QED  BY <1>2, <1>3, <1>4, <1>5

(* PlaceOrder: the order adds one to a position that was not there, in a   *)
(* venue with room, or the venue's positions were not read.                *)
LEMMA PlaceKept == ASSUME EInv, PlaceOrder PROVE EInv'
<1>1. /\ job.pc = "order" /\ job.venue \in Venue /\ job.symbol \in Symbol /\ running
      /\ job.blind \in BOOLEAN /\ faults \in Nat /\ orders' = orders + 1 /\ orders \in Nat
      /\ UNCHANGED <<governorVars, registered, running, equity, opening, missedDay>>
  BY DEF PlaceOrder, processVars, EInv, Types, JobTypes
<1>2. PICK o \in Outcomes, saved \in BOOLEAN :
        /\ Calls(o \in {Filled, Refused} \cup WithStop({Filled}) /\ saved)
        /\ held' = [held EXCEPT ![Account][job.symbol] = @ + (IF o.executed THEN 1 ELSE 0)]
        /\ job' = [pc |-> "log", status |-> StatusOf(o), sent |-> TRUE, told |-> o,
                   watched |-> StatusOf(o) = "filled" /\ saved]
  BY DEF PlaceOrder
<1>3. faults' \in Nat /\ (~saved => faults' > 0)
  BY <1>1, <1>2, CallsCount
<1>4. /\ job'.pc = "log" /\ job'.status = StatusOf(o) /\ job'.sent /\ job'.told = o
      /\ job'.watched = (StatusOf(o) = "filled" /\ saved)
  BY <1>2
<1>5. LogTellsTruth'
  <2>1. StatusOf(o) \in {"filled", "failed"}
    BY DEF StatusOf
  <2>2. StatusOf(o) = "filled" => o.executed
    BY <1>1, PricedMeansExecuted
  <2> QED  BY <1>3, <1>4, <2>1, <2>2 DEF LogTellsTruth
<1>6. Account \in Venue /\ HL \in Venue
  BY <1>1, SourcesAreVenues, ExecutionAssumption DEF EInv
<1> DEFINE add == IF o.executed THEN 1 ELSE 0
<1>7. /\ held \in [Venue -> [Symbol -> Nat]] /\ held' \in [Venue -> [Symbol -> Nat]]
      /\ Account # HL => held'[HL] = held[HL]
      /\ Account = HL => /\ held'[HL][job.symbol] = held[HL][job.symbol] + add
                         /\ \A s \in Symbol \ {job.symbol} : held'[HL][s] = held[HL][s]
  <2>1. held \in [Venue -> [Symbol -> Nat]] /\ add \in Nat
    BY DEF EInv, Types
  <2>2. held' = [held EXCEPT ![Account][job.symbol] = @ + add]
    BY <1>2
  <2>3. held[Account][job.symbol] + add \in Nat
    BY <1>1, <1>6, <2>1
  <2> HIDE DEF add, Account
  <2>4. held' \in [Venue -> [Symbol -> Nat]]
    BY <1>1, <1>6, <2>1, <2>2, <2>3
  <2> QED  BY <1>1, <1>6, <2>1, <2>2, <2>4
<1>8. Types' /\ HaltInv' /\ LimitInv'
  <2>1. JobTypes'
    BY <1>1, <1>4 DEF JobTypes
  <2>2. orders' \in Nat
    BY <1>1
  <2>3. Types'
    BY <1>1, <1>3, <1>7, <2>1, <2>2 DEF EInv, Types, governorVars, memory
  <2> QED  BY <1>4, <2>3 DEF HaltInv, LimitInv
<1>9. MemoryInv'
  BY <1>1, TodayKept DEF EInv, MemoryInv, governorVars, memory
<1>10. WithinLimits'
  <2>1. blind' = IF job.blind THEN blind \cup {Account} ELSE blind
    BY DEF PlaceOrder
  <2>2. CASE Account # HL
    BY <1>7, <2>1, <2>2 DEF EInv, WithinLimits, HeldSymbols
  <2>3. CASE Account = HL /\ job.blind
    BY <2>1, <2>3 DEF WithinLimits
  <2>4. CASE Account = HL /\ ~job.blind
    <3>1. /\ held[HL][job.symbol] = 0
          /\ Cardinality(HeldSymbols(HL)) < MAX_CONCURRENT_POSITIONS
      BY <1>1, <2>4 DEF EInv, LimitInv
    <3>2. HeldSymbols(HL)' \in SUBSET (HeldSymbols(HL) \cup {job.symbol})
      BY <1>7, <2>4 DEF HeldSymbols
    <3>3. Cardinality(HeldSymbols(HL)') <= MAX_CONCURRENT_POSITIONS
      <4>1. /\ IsFiniteSet(HeldSymbols(HL) \cup {job.symbol})
            /\ Cardinality(HeldSymbols(HL) \cup {job.symbol}) <= Cardinality(HeldSymbols(HL)) + 1
        BY HeldFinite, FS_AddElement
      <4>2. IsFiniteSet(HeldSymbols(HL)')
              /\ Cardinality(HeldSymbols(HL)') <= Cardinality(HeldSymbols(HL) \cup {job.symbol})
        BY <3>2, <4>1, FS_Subset
      <4>3. Cardinality(HeldSymbols(HL)') \in Nat
              /\ Cardinality(HeldSymbols(HL) \cup {job.symbol}) \in Nat
        BY <4>1, <4>2, FS_CardinalityType
      <4>4. MAX_CONCURRENT_POSITIONS \in Nat
        BY GovernorAssumption
      <4> QED  BY <3>1, <4>1, <4>2, <4>3, <4>4, HeldFinite
    <3>4. HL \notin blind => \A s \in Symbol : held'[HL][s] <= 1
      <4>1. add \in {0, 1}
        OBVIOUS
      <4>2. HL \notin blind => \A s \in Symbol : held[HL][s] <= 1
        BY DEF EInv, WithinLimits
      <4>3. held'[HL][job.symbol] <= 1
        BY <1>7, <2>4, <3>1, <4>1
      <4> QED  BY <1>7, <2>4, <4>2, <4>3
    <3> QED  BY <2>1, <2>4, <3>3, <3>4 DEF WithinLimits
  <2> QED  BY <1>1, <2>2, <2>3, <2>4
<1> QED  BY <1>5, <1>8, <1>9, <1>10 DEF EInv

-----------------------------------------------------------------------------
(* What the checks of the governor leave: an active switch lets nothing    *)
(* pass and is left as it is; otherwise the day begins if it has not, and  *)
(* the switch is set or clear.                                             *)
Start(dbOK) == StartingEquity(job.value, DailyPnl(job.value, dbOK))
Down(dbOK) == EquityAllowed(job.value) /\ DrawdownHit(Start(dbOK), DailyPnl(job.value, dbOK))
Passed == CircuitClosed(Name(job.symbol, "")) /\ job' = [job EXCEPT !.pc = "order"]

LEMMA Checked ==
  ASSUME NEW size, NEW dbOK \in BOOLEAN, CheckRisk(size, dbOK)
  PROVE  /\ row' = RowAfter(job.value, dbOK)
         /\ opening' = IF dbOK /\ opening.date # Today
                       THEN [date |-> Today, equity |-> job.value] ELSE opening
         /\ missedDay' = IF dbOK THEN missedDay ELSE Today
         /\ \/ is_kill_switch_active /\ UNCHANGED <<triggered_at, daily>> /\ Reject
            \/ /\ ~is_kill_switch_active
               /\ daily' = [date |-> Today, equity |-> Start(dbOK)]
               /\ triggered_at' = IF Down(dbOK) THEN now ELSE Never
               /\ \/ Reject
                  \/ ~Down(dbOK) /\ EquityAllowed(job.value) /\ Passed
<1> DEFINE check == RunAllChecks(job.value, job.exposure, size, DailyPnl(job.value, dbOK))
<1>1. /\ triggered_at' = check.triggered_at /\ daily' = check.daily
      /\ row' = RowAfter(job.value, dbOK)
      /\ opening' = IF dbOK /\ opening.date # Today
                    THEN [date |-> Today, equity |-> job.value] ELSE opening
      /\ missedDay' = IF dbOK THEN missedDay ELSE Today
      /\ IF check.allowed /\ CircuitClosed(Name(job.symbol, ""))
         THEN job' = [job EXCEPT !.pc = "order"] ELSE Reject
  BY DEF CheckRisk
<1>2. CASE is_kill_switch_active
  <2>1. ~check.allowed /\ check.triggered_at = triggered_at /\ check.daily = daily
    BY <1>2 DEF RunAllChecks
  <2> QED  BY <1>1, <1>2, <2>1
<1>3. CASE ~is_kill_switch_active
  <2>1. /\ check.allowed => EquityAllowed(job.value) /\ ~Down(dbOK)
        /\ check.triggered_at = IF Down(dbOK) THEN now ELSE Never
        /\ check.daily = [date |-> Today, equity |-> Start(dbOK)]
    BY <1>3 DEF RunAllChecks, SwitchAfterCheck, Start, Down
  <2> HIDE DEF check
  <2> QED  BY <1>1, <1>3, <2>1 DEF Passed
<1> QED  BY <1>2, <1>3

(* A step of Validate rejects, raises or checks.                           *)
LEMMA Validated ==
  ASSUME EInv, Validate
  PROVE  /\ job.pc = "check"
         /\ UNCHANGED <<now, byExchange, processVars, venueVars, orders, blind, boots>>
         /\ faults' \in Nat
         /\ \/ UNCHANGED riskVars /\ (Reject \/ job' = NoJob)
            \/ \E size \in Sizes, dbOK \in BOOLEAN : CheckRisk(size, dbOK)
<1>1. faults \in Nat
  BY DEF EInv, Types
<1>2. faults' \in Nat
  BY <1>1, CallsCount DEF Validate, NoPrice
<1> QED  BY <1>2 DEF Validate

(* The memory of the day after a check.                                    *)
LEMMA MemoryKept ==
  ASSUME EInv, job.pc = "check", NEW size, NEW dbOK \in BOOLEAN, CheckRisk(size, dbOK),
         now' = now
  PROVE  /\ MemoryInv' /\ daily' \in Day /\ row' \in Day /\ opening' \in Day
         /\ missedDay' \in Int
<1>1. Today' = Today /\ Today \in Nat
  BY TodayKept, TodayType DEF EInv, Types
<1>2. job.value \in Int
  BY DEF EInv, Types, JobTypes
<1>3. /\ daily \in Day /\ row \in Day /\ row = opening /\ missedDay \in Int
      /\ daily.date \in Int /\ daily.equity \in Int /\ row.date \in Int /\ row.equity \in Int
  BY DEF EInv, Types, MemoryInv, Day
<1>4. /\ row' = IF dbOK /\ row.date # Today
                THEN [date |-> Today, equity |-> job.value] ELSE row
      /\ opening' = row' /\ missedDay' = IF dbOK THEN missedDay ELSE Today
  BY <1>3, Checked DEF RowAfter
<1>5. row' \in Day /\ opening' \in Day /\ missedDay' \in Int
  BY <1>1, <1>2, <1>3, <1>4 DEF Day
<1>6. dbOK /\ missedDay # Today => row'.date = Today
  BY <1>4
<1>7. DailyPnl(job.value, dbOK) = IF dbOK /\ row.date = Today THEN job.value - row.equity ELSE 0
  BY DEF DailyPnl
<1>8. Start(dbOK) = IF daily.date = Today THEN daily.equity
                    ELSE job.value - DailyPnl(job.value, dbOK)
  BY DEF Start, StartingEquity
<1>9. Start(dbOK) \in Int
  BY <1>2, <1>3, <1>7, <1>8
<1>10. dbOK /\ missedDay # Today => Start(dbOK) = row'.equity
  <2>1. CASE row.date = Today
    BY <1>2, <1>3, <1>4, <1>7, <1>8, <2>1 DEF EInv, MemoryInv
  <2>2. CASE row.date # Today
    BY <1>2, <1>3, <1>4, <1>7, <1>8, <2>2 DEF EInv, MemoryInv
  <2> QED  BY <2>1, <2>2
<1>11. daily' = daily \/ daily' = [date |-> Today, equity |-> Start(dbOK)]
  BY Checked
<1>12. daily' \in Day
  BY <1>1, <1>3, <1>9, <1>11 DEF Day
<1>13. /\ daily.date <= Today /\ row.date <= Today /\ missedDay <= Today
       /\ daily.date = Today /\ missedDay # Today =>
            row.date = Today /\ daily.equity = row.equity
  BY DEF EInv, MemoryInv
<1>14. MemoryInv'
  <2>1. daily'.date <= Today /\ row'.date <= Today /\ missedDay' <= Today
    BY <1>1, <1>3, <1>4, <1>11, <1>13
  <2>2. ASSUME daily'.date = Today, missedDay' # Today
        PROVE  row'.date = Today /\ daily'.equity = row'.equity
    <3>1. dbOK /\ missedDay # Today
      BY <1>4, <2>2
    <3>2. CASE daily' = daily
      BY <1>4, <1>13, <2>2, <3>1, <3>2
    <3>3. CASE daily' = [date |-> Today, equity |-> Start(dbOK)]
      BY <1>6, <1>10, <3>1, <3>3
    <3> QED  BY <1>11, <3>2, <3>3
  <2> QED  BY <1>1, <1>4, <2>1, <2>2 DEF MemoryInv
<1> QED  BY <1>5, <1>12, <1>14

LEMMA ValidateKept == ASSUME EInv, Validate PROVE EInv'
<1> USE DEF processVars, venueVars
<1>1. /\ job.pc = "check" /\ running /\ job.venue \in Venue /\ job.symbol \in Symbol
      /\ UNCHANGED <<now, byExchange, running, registered, held, equity, orders, blind>>
      /\ faults' \in Nat
  BY Validated DEF EInv, Types, JobTypes
<1>2. ASSUME UNCHANGED riskVars, Reject \/ job' = NoJob PROVE EInv'
  <2>1. UNCHANGED <<triggered_at, daily, row, opening, missedDay>>
    BY <1>2 DEF riskVars
  <2>2. byExchange' \in [Venue -> SUBSET (Symbol \X {"", "USDT", "-PERP"})] /\ running'
    BY <1>1 DEF EInv, Types
  <2>3. \/ job'.pc = "idle"
        \/ job'.pc = "log" /\ job'.status = "rejected" /\ ~job'.sent
    BY <1>2 DEF Reject, NoJob
  <2> QED  BY <1>1, <2>1, <2>2, <2>3, JobTurns
<1>3. ASSUME NEW size \in Sizes, NEW dbOK \in BOOLEAN, CheckRisk(size, dbOK) PROVE EInv'
  <2>1. MemoryInv' /\ daily' \in Day /\ row' \in Day /\ opening' \in Day /\ missedDay' \in Int
    BY <1>1, <1>3, MemoryKept
  <2>2. triggered_at' \in {Never} \cup 0 .. now /\ now \in Nat
    <3>1. now \in Nat /\ triggered_at \in {Never} \cup 0 .. now
      BY DEF EInv, Types
    <3>2. triggered_at' \in {triggered_at, now, Never}
      BY <1>3, Checked
    <3> QED  BY <3>1, <3>2
  <2>3. WithinLimits'
    BY <1>1 DEF EInv, WithinLimits, HeldSymbols
  <2>4. CASE Reject
    <3>1. job'.pc = "log" /\ job'.status = "rejected" /\ ~job'.sent
      BY <2>4 DEF Reject
    <3>2. Types'
      BY <1>1, <2>1, <2>2, <3>1 DEF EInv, Types, JobTypes
    <3> QED  BY <2>1, <2>3, <3>1, <3>2 DEF EInv, HaltInv, LimitInv, LogTellsTruth
  <2>5. CASE ~Reject
    <3>1. ~is_kill_switch_active /\ ~Down(dbOK) /\ triggered_at' = Never /\ Passed
      BY <1>3, <2>5, Checked
    <3>2. /\ job' = [pc |-> "order", venue |-> job.venue, symbol |-> job.symbol,
                     kelly |-> job.kelly, value |-> job.value, exposure |-> job.exposure,
                     blind |-> job.blind]
          /\ job.value \in Int /\ job.blind \in BOOLEAN
      <4>1. AccountRead /\ job.value \in Int /\ job.blind \in BOOLEAN
        BY <1>1 DEF EInv, Types, JobTypes
      <4> QED  BY <3>1, <4>1 DEF Passed, AccountRead
    <3>3. /\ job'.pc = "order" /\ job'.venue = job.venue /\ job'.symbol = job.symbol
          /\ job'.value = job.value /\ job'.blind = job.blind /\ AccountRead'
      BY <3>2 DEF AccountRead
    <3>4. JobTypes'
      BY <1>1, <3>2, <3>3 DEF JobTypes
    <3>5. Types'
      BY <1>1, <2>1, <2>2, <3>4 DEF EInv, Types
    <3>6. LimitInv'
      <4>1. Account' = Account /\ HeldSymbols(HL)' = HeldSymbols(HL)
        BY <1>1, <3>3, AccountKept DEF HeldSymbols
      <4>2. ASSUME Account = HL, ~job.blind
            PROVE  /\ held[HL][job.symbol] = 0
                   /\ Cardinality(HeldSymbols(HL)) < MAX_CONCURRENT_POSITIONS
        <5>1. \A s \in HeldSymbols(HL) : Name(s, "") \in byExchange[job.venue]
          BY <1>1, <4>2 DEF EInv, LimitInv
        <5>2. PositionCount < MAX_CONCURRENT_POSITIONS /\ SymbolCount(Name(job.symbol, "")) = 0
          BY <3>1 DEF Passed, CircuitClosed, ConcurrentAllowed, SymbolAllowed
        <5>3. job.symbol \notin HeldSymbols(HL)
          BY <1>1, <5>1, <5>2, NoneFound DEF EInv
        <5>4. held[HL][job.symbol] = 0
          <6>1. held[HL][job.symbol] \in Nat
            BY <1>1, HeldTyped DEF EInv
          <6> QED  BY <1>1, <5>3, <6>1 DEF HeldSymbols
        <5>5. Cardinality(HeldSymbols(HL)) <= PositionCount /\ PositionCount \in Nat
          BY <1>1, <5>1, CountCovers DEF EInv
        <5>6. MAX_CONCURRENT_POSITIONS \in Nat
          BY GovernorAssumption
        <5>7. Cardinality(HeldSymbols(HL)) \in Nat
          BY HeldFinite
        <5>8. Cardinality(HeldSymbols(HL)) < MAX_CONCURRENT_POSITIONS
          <6>1. \A a, b, c \in Nat : a <= b /\ b < c => a < c
            OBVIOUS
          <6>2. PositionCount < MAX_CONCURRENT_POSITIONS
            BY <5>2
          <6> QED  BY <5>5, <5>6, <5>7, <6>1, <6>2, Zenon
        <5> QED  BY <5>4, <5>8
      <4> HIDE DEF Account, HeldSymbols
      <4> QED  BY <1>1, <3>3, <4>1, <4>2 DEF LimitInv
    <3> QED  BY <2>1, <2>3, <3>1, <3>3, <3>5, <3>6 DEF EInv, HaltInv, LogTellsTruth
  <2> QED  BY <2>4, <2>5
<1> QED  BY <1>2, <1>3, Validated

LEMMA ENext == EInv /\ [Next]_vars => EInv'
<1> SUFFICES ASSUME EInv, [Next]_vars PROVE EInv'
  OBVIOUS
<1>1. CASE UNCHANGED vars
  <2>1. /\ UNCHANGED <<governorVars, running, registered, job, held, equity, orders, blind,
                       opening, missedDay, faults>>
    BY <1>1 DEF vars, processVars, venueVars, historyVars, countVars
  <2>2. /\ equity' \in [Venue -> Equity] /\ held' \in [Venue -> [Symbol -> Nat]]
        /\ faults \in Nat
    BY <2>1 DEF EInv, Types
  <2>3. \A s \in Symbol : held'[HL][s] <= held[HL][s]
    BY <2>1, HeldTyped DEF EInv
  <2> QED  BY <2>1, <2>2, <2>3, AsideKept
<1> QED  BY <1>1, StartupKept, CrashKept, TickKept, MarketKept, ClosedKept, SignalKept,
            ReadKept, ValidateKept, PlaceKept, SimulateKept, LogKept DEF Next

(* The inductive invariant holds in every reachable state.                 *)
THEOREM ExecutionInvariance == Spec => []EInv
BY EInit, ENext, PTL DEF Spec

(* Hyperliquid holds at most one order per symbol and                      *)
(* MAX_CONCURRENT_POSITIONS positions, as long as no order was sent there  *)
(* while its positions were unread.                                        *)
THEOREM LimitsHold == Spec => []WithinLimits
<1>1. EInv => WithinLimits
  BY DEF EInv
<1> QED  BY <1>1, ExecutionInvariance, PTL

(* A "filled" order was executed and its stop registered unless the row    *)
(* could not be written; nothing was sent for the others.                  *)
THEOREM LogIsTrue == Spec => []LogTellsTruth
<1>1. EInv => LogTellsTruth
  BY DEF EInv
<1> QED  BY <1>1, ExecutionInvariance, PTL

(* No order passes the checks on an account value below the first one of   *)
(* the day by the drawdown limit, over restarts, unless the database       *)
(* failed that day: the loss is measured from the row, or from what memory *)
(* has of it, and these agree.                                             *)
THEOREM LossIsRemembered == Spec => LossRemembered
<1> DEFINE A == (job.pc = "check" /\ job'.pc = "order" /\ missedDay' # Today)
                  => ~DrawdownHit(opening'.equity, job.value - opening'.equity)
<1>1. ASSUME EInv, [Next]_vars PROVE A
  <2> SUFFICES ASSUME job.pc = "check", job'.pc = "order", missedDay' # Today
               PROVE  ~DrawdownHit(opening'.equity, job.value - opening'.equity)
    OBVIOUS
  <2>1. Validate
    <3>1. job' # job
      OBVIOUS
    <3>2. ~(ReadAccount \/ PlaceOrder \/ Simulate \/ LogExecution)
      BY DEF ReadAccount, PlaceOrder, Simulate, LogExecution
    <3>3. ~(Startup \/ Tick \/ UNCHANGED vars \/ \E v \in Venue : Market(v))
      BY <3>1 DEF Startup, Tick, vars, Market
    <3>4. ~Crash
      <4>1. Crash => job' = NoJob
        BY DEF Crash
      <4>2. NoJob.pc = "idle"
        BY DEF NoJob
      <4>3. job'.pc = "order"
        OBVIOUS
      <4> QED  BY <4>1, <4>2, <4>3
    <3>5. ~\E v \in Venue, s \in Symbol : Closed(v, s)
      BY <3>1 DEF Closed
    <3>6. ~\E v \in Venue, s \in Symbol, kelly \in BOOLEAN : Signal(v, s, kelly)
      BY DEF Signal
    <3> QED  BY <1>1, <3>2, <3>3, <3>4, <3>5, <3>6 DEF Next
  <2>2. PICK size \in Sizes, dbOK \in BOOLEAN : CheckRisk(size, dbOK)
    BY <1>1, <2>1, Validated DEF Reject, NoJob
  <2>3. ~Down(dbOK) /\ EquityAllowed(job.value) /\ dbOK /\ missedDay # Today
    BY <2>2, Checked DEF Reject
  <2>4. ~DrawdownHit(Start(dbOK), DailyPnl(job.value, dbOK))
    BY <2>3 DEF Down
  <2>5. /\ job.value \in Int /\ row = opening /\ row.date \in Int /\ row.equity \in Int
        /\ daily.equity \in Int
        /\ daily.date = Today => row.date = Today /\ daily.equity = row.equity
    BY <1>1, <2>3 DEF EInv, Types, JobTypes, MemoryInv, Day
  <2>6. CASE row.date = Today
    <3>1. opening' = row /\ DailyPnl(job.value, dbOK) = job.value - row.equity
      BY <2>2, <2>3, <2>5, <2>6, Checked DEF DailyPnl
    <3>2. Start(dbOK) = row.equity
      <4>1. Start(dbOK) = IF daily.date = Today THEN daily.equity
                          ELSE job.value - DailyPnl(job.value, dbOK)
        BY DEF Start, StartingEquity
      <4>2. job.value - (job.value - row.equity) = row.equity
        BY <2>5
      <4> QED  BY <2>5, <3>1, <4>1, <4>2
    <3> QED  BY <2>4, <3>1, <3>2
  <2>7. CASE row.date # Today
    <3>1. opening'.equity = job.value
      <4>1. opening' = [date |-> Today, equity |-> job.value]
        BY <2>2, <2>3, <2>5, <2>7, Checked
      <4> QED  BY <4>1
    <3> QED  BY <2>5, <3>1 DEF DrawdownHit
  <2> QED  BY <2>6, <2>7
<1> QED  BY <1>1, ExecutionInvariance, PTL DEF Spec, LossRemembered

-----------------------------------------------------------------------------
(* Every step of the executor is a step of TradingHalt or none: only the   *)
(* governor's check halts, and an order finds no halt.                     *)
LEMMA HaltStep == EInv /\ [Next]_vars => [Halt!Next]_(Halt!vars)
<1> SUFFICES ASSUME EInv, [Next]_vars PROVE [Halt!Next]_(Halt!vars)
  OBVIOUS
<1> DEFINE until == IF triggered_at # Never /\ now < triggered_at + KILL_SWITCH_COOLDOWN
                    THEN triggered_at + KILL_SWITCH_COOLDOWN ELSE 0
<1> USE DEF processVars, venueVars, historyVars, countVars, memory
<1>1. /\ now \in Nat /\ triggered_at \in {Never} \cup 0 .. now
      /\ KILL_SWITCH_COOLDOWN \in Nat \ {0} /\ orders \in Nat
  BY GovernorAssumption DEF EInv, Types
<1>2. ASSUME UNCHANGED <<now, triggered_at, orders, boots>> PROVE [Halt!Next]_(Halt!vars)
  BY <1>2 DEF Halt!vars
<1>3. CASE Crash
  BY <1>3 DEF Crash, MemoryReset, Halt!Next, Halt!Restart
<1>4. CASE Tick
  <2>1. now' = now + 1 /\ UNCHANGED <<triggered_at, orders, boots>>
    BY <1>4 DEF Tick
  <2>2. until' = IF now' < until THEN until ELSE 0
    BY <1>1, <2>1 DEF Never
  <2> QED  BY <2>1, <2>2 DEF Halt!Next, Halt!Advance
<1>5. CASE Validate
  <2>1. UNCHANGED <<now, orders, boots>>
    BY <1>5, Validated
  <2>2. CASE UNCHANGED triggered_at
    BY <1>2, <2>1, <2>2
  <2>3. CASE ~UNCHANGED triggered_at
    <3>1. PICK size \in Sizes, dbOK \in BOOLEAN : CheckRisk(size, dbOK)
      BY <1>5, <2>3, Validated DEF riskVars
    <3>2. ~is_kill_switch_active /\ triggered_at' \in {now, Never}
      BY <2>3, <3>1, Checked
    <3>3. until = 0
      BY <1>1, <3>2 DEF is_kill_switch_active, Never
    <3>4. until' = 0 \/ until' = now + KILL_SWITCH_COOLDOWN
      BY <1>1, <2>1, <3>2 DEF Never
    <3> QED  BY <2>1, <3>3, <3>4 DEF Halt!Next, Halt!Halt, Halt!vars
  <2> QED  BY <2>2, <2>3
<1>6. CASE PlaceOrder
  <2>1. triggered_at = Never /\ orders' = orders + 1 /\ UNCHANGED <<now, triggered_at, boots>>
    BY <1>6 DEF PlaceOrder, EInv, HaltInv, governorVars
  <2> QED  BY <2>1 DEF Halt!Next, Halt!Order
<1>7. CASE \/ Startup \/ ReadAccount \/ Simulate \/ LogExecution \/ UNCHANGED vars
           \/ \E v \in Venue : Market(v)
           \/ \E v \in Venue, s \in Symbol : Closed(v, s)
           \/ \E v \in Venue, s \in Symbol, kelly \in BOOLEAN : Signal(v, s, kelly)
  BY <1>2, <1>7 DEF Startup, ReadAccount, Simulate, LogExecution, vars, Market, Closed, Signal,
                    governorVars
<1> QED  BY <1>3, <1>4, <1>5, <1>6, <1>7 DEF Next

(* The executor keeps the promise of the kill switch: the second look, the *)
(* one that sets it, comes before every order.                             *)
THEOREM ImplementsHalt == Spec => KillSwitchHolds
<1>1. Init => Halt!Init
  BY DEF Init, Halt!Init, Never
<1> QED  BY <1>1, HaltStep, ExecutionInvariance, PTL DEF Spec, KillSwitchHolds, Halt!Spec
=============================================================================
