---------------------------- MODULE AutoplayProofs --------------------------
(***************************************************************************)
(* Proofs about what plays without a person: the adapter that asks an LLM  *)
(* for its seat's move (Adapter), and the scripts that play a person's     *)
(* seat to test a server, with the console that runs them (MCPlaytests).   *)
(*                                                                         *)
(* The adapter comes first: for every number of concurrent requests,       *)
(* games, limits and prices, what the cost guard lets through beyond a     *)
(* limit is what was under way; and for every text a model may write, of   *)
(* any number of objects and groups, a placement that leaves is readable.  *)
(*                                                                         *)
(* The playtests come behind it: a script acts in its own turn, what       *)
(* passes was earned, and the console shows and keeps what its runs came   *)
(* to.                                                                     *)
(***************************************************************************)
EXTENDS Adapter, MCPlaytests, FiniteSetTheorems, SequenceTheorems, WellFoundedInduction, TLAPS

-----------------------------------------------------------------------------
(* One total in Redis, by day or by hour.  Up to now the limit holds but    *)
(* for the slack; what n requests under way may still add, all at the       *)
(* current day or hour, is counted in; later ones are empty.                *)

WithinLimit(total, now, limit, n, slack) ==
    \A p \in DOMAIN total :
        /\ p < now => total[p] <= limit - 1 + slack
        /\ p = now => total[p] + n * MaxCost <= limit - 1 + slack
        /\ p > now => total[p] = 0

LEMMA Products ==
    ASSUME NEW k \in Nat, NEW n \in Nat, NEW m \in Nat
    PROVE  /\ k * m \in Nat /\ (k + 1) * m = k * m + m
           /\ k <= n => k * m <= n * m
<1>1. k * m \in Nat /\ n * m \in Nat /\ (k + 1) * m = k * m + m  OBVIOUS
<1>2. ASSUME k <= n  PROVE k * m <= n * m
  <2>1. (n - k) * m >= 0  BY <1>2
  <2>2. (n - k) * m = n * m - k * m  OBVIOUS
  <2> QED  BY <1>1, <2>1, <2>2
<1> QED  BY <1>1, <1>2

LEMMA FewerUnderWay ==
    ASSUME NEW P \in SUBSET Nat, NEW total \in [P -> Nat], NEW now \in Nat, NEW limit \in Nat \ {0},
           NEW n \in Nat, NEW k \in Nat, NEW slack \in Nat,
           k <= n, WithinLimit(total, now, limit, n, slack)
    PROVE  WithinLimit(total, now, limit, k, slack)
<1>1. k * MaxCost <= n * MaxCost /\ k * MaxCost \in Nat /\ n * MaxCost \in Nat
  BY Products, BoundsAssumption
<1> QED  BY <1>1 DEF WithinLimit

\* The read of the guard finds the total below the limit.
LEMMA LetInByTheRead ==
    ASSUME NEW P \in SUBSET Nat, NEW total \in [P -> Nat], NEW now \in P, NEW limit \in Nat \ {0},
           NEW n \in Nat, NEW k \in Nat, NEW slack \in Nat,
           total[now] < limit, k * MaxCost <= slack, WithinLimit(total, now, limit, n, slack)
    PROVE  WithinLimit(total, now, limit, k, slack)
<1>1. k * MaxCost \in Nat  BY Products, BoundsAssumption
<1> QED  BY <1>1 DEF WithinLimit

\* The read fails, and one more request is let in.
LEMMA LetInUnseen ==
    ASSUME NEW P \in SUBSET Nat, NEW total \in [P -> Nat], NEW now \in Nat, NEW limit \in Nat \ {0},
           NEW n \in Nat, NEW slack \in Nat, WithinLimit(total, now, limit, n, slack)
    PROVE  WithinLimit(total, now, limit, n + 1, slack + MaxCost)
<1>1. (n + 1) * MaxCost = n * MaxCost + MaxCost /\ n * MaxCost \in Nat /\ MaxCost \in Nat
  BY Products, BoundsAssumption
<1> QED  BY <1>1 DEF WithinLimit

\* An answer is charged.
LEMMA OneCharged ==
    ASSUME NEW P \in SUBSET Nat, NEW total \in [P -> Nat], NEW now \in P, NEW limit \in Nat \ {0},
           NEW n \in Nat, NEW slack \in Nat, NEW cost \in Nat, cost <= MaxCost,
           WithinLimit(total, now, limit, n + 1, slack)
    PROVE  WithinLimit([total EXCEPT ![now] = @ + cost], now, limit, n, slack)
<1>1. (n + 1) * MaxCost = n * MaxCost + MaxCost /\ n * MaxCost \in Nat /\ MaxCost \in Nat
  BY Products, BoundsAssumption
<1> QED  BY <1>1 DEF WithinLimit

\* The clock goes on: what is under way falls on the next day or hour.
LEMMA LaterCharged ==
    ASSUME NEW P \in SUBSET Nat, NEW total \in [P -> Nat], NEW now \in Nat, NEW limit \in Nat \ {0},
           NEW n \in Nat, NEW slack \in Nat, NEW later \in Nat, now <= later,
           n * MaxCost <= slack, WithinLimit(total, now, limit, n, slack)
    PROVE  WithinLimit(total, later, limit, n, slack)
<1>1. n * MaxCost \in Nat  BY Products, BoundsAssumption
<1> QED  BY <1>1 DEF WithinLimit

-----------------------------------------------------------------------------
(* The invariant. *)

Request == [pc : {"daily", "hourly", "validate", "asking"}, model : Models, game : Games,
            left : Int]

TypeInv ==
    /\ call \in [Slots -> Request \cup {Idle}]
    /\ daily \in [Days -> Nat]
    /\ hourly \in [Games \X Hours -> Nat]
    /\ hour \in Hours /\ blind \in Nat

\* The requests that may still be billed, past the read of the day's total
\* and past the read of their game's hour.
Underway(s) == call[s] # Idle /\ call[s].model \notin FreeModels
PastDay     == {s \in Slots : Underway(s) /\ call[s].pc \in {"hourly", "validate", "asking"}}
PastHour(g) == {s \in Slots : /\ Underway(s) /\ call[s].game = g
                              /\ call[s].pc \in {"validate", "asking"}}

Slack       == (Cardinality(Slots) + blind) * MaxCost
HoursOf(g)  == [h \in Hours |-> hourly[<<g, h>>]]

DayKept     == WithinLimit(daily, Day(hour), DailyLimit, Cardinality(PastDay), Slack)
HourKept(g) == WithinLimit(HoursOf(g), hour, HourlyLimit, Cardinality(PastHour(g)), Slack)

\* Only who may be billed is asked about at the guard.
GuardsThePaid == \A s \in Slots : call[s].pc \in {"daily", "hourly"} => Underway(s)

AdapterInv == TypeInv /\ GuardsThePaid /\ DayKept /\ \A g \in Games : HourKept(g)

LEMMA Clock ==
    /\ Hours \in SUBSET Nat /\ Days \in SUBSET Nat
    /\ \A h \in Hours : Day(h) \in Days
    /\ \A h, k \in Hours : h <= k => Day(h) <= Day(k)
<1>1. \A h \in Nat : Day(h) \in Nat  BY BoundsAssumption DEF Day
<1>2. ASSUME NEW h \in Nat, NEW k \in Nat, h <= k  PROVE Day(h) <= Day(k)
  BY <1>2, BoundsAssumption DEF Day
<1> QED  BY <1>1, <1>2, BoundsAssumption DEF Hours, Days

LEMMA CountedSlots ==
    ASSUME NEW T \in SUBSET Slots, blind \in Nat
    PROVE  /\ IsFiniteSet(T) /\ Cardinality(T) \in Nat /\ Cardinality(T) * MaxCost \in Nat
           /\ Slack \in Nat /\ Cardinality(T) * MaxCost <= Slack
           /\ \A U \in SUBSET T : Cardinality(U) <= Cardinality(T)
           /\ \A s \in T : Cardinality(T \ {s}) + 1 = Cardinality(T)
           /\ \A s : Cardinality(T \cup {s}) <= Cardinality(T) + 1
<1>1. IsFiniteSet(T) /\ Cardinality(T) <= Cardinality(Slots)  BY SlotsAssumption, FS_Subset
<1>2. Cardinality(T) \in Nat /\ Cardinality(Slots) \in Nat
  BY <1>1, SlotsAssumption, FS_CardinalityType
<1>3. Cardinality(T) * MaxCost \in Nat /\ Slack \in Nat /\ Cardinality(T) * MaxCost <= Slack
  <2> DEFINE c == Cardinality(T)
             n == Cardinality(Slots) + blind
  <2>1. c \in Nat /\ n \in Nat /\ c <= n /\ MaxCost \in Nat  BY <1>1, <1>2, BoundsAssumption
  <2>2. Slack = n * MaxCost  BY DEF Slack
  <2> HIDE DEF c, n
  <2>3. c * MaxCost \in Nat /\ n * MaxCost \in Nat /\ c * MaxCost <= n * MaxCost
    BY <2>1, Products
  <2> QED  BY <2>2, <2>3 DEF c
<1>4. \A U \in SUBSET T : Cardinality(U) <= Cardinality(T)  BY <1>1, FS_Subset
<1>5. ASSUME NEW s \in T  PROVE Cardinality(T \ {s}) + 1 = Cardinality(T)
  <2>1. Cardinality(T \ {s}) = Cardinality(T) - 1  BY <1>1, FS_RemoveElement
  <2> QED  BY <1>2, <2>1
<1>6. \A s : Cardinality(T \cup {s}) <= Cardinality(T) + 1
  BY <1>1, <1>2, FS_AddElement
<1> QED  BY <1>1, <1>2, <1>3, <1>4, <1>5, <1>6

-----------------------------------------------------------------------------
(* What a step does to the two totals. *)

LEMMA Bounded ==
    ASSUME AdapterInv
    PROVE  /\ Days \in SUBSET Nat /\ daily \in [Days -> Nat] /\ Day(hour) \in Days
           /\ Day(hour) \in Nat /\ Hours \in SUBSET Nat /\ hour \in Hours /\ hour \in Nat
           /\ blind \in Nat /\ Slack \in Nat
           /\ \A g \in Games : HoursOf(g) \in [Hours -> Nat]
<1>1. /\ Days \in SUBSET Nat /\ daily \in [Days -> Nat] /\ Day(hour) \in Days
      /\ Hours \in SUBSET Nat /\ hour \in Hours /\ blind \in Nat
      /\ \A g \in Games : HoursOf(g) \in [Hours -> Nat]
  BY Clock DEF AdapterInv, TypeInv, HoursOf
<1>2. Slack \in Nat  BY <1>1, CountedSlots
<1> QED  BY <1>1, <1>2

\* Nobody is let in, nothing is charged.
LEMMA DayUncharged ==
    ASSUME AdapterInv, UNCHANGED <<daily, hour, blind>>, PastDay' \subseteq PastDay
    PROVE  DayKept'
<1>1. /\ Cardinality(PastDay) \in Nat /\ Cardinality(PastDay') \in Nat
      /\ Cardinality(PastDay') <= Cardinality(PastDay)
  <2>1. PastDay \in SUBSET Slots /\ PastDay' \in SUBSET PastDay /\ PastDay' \in SUBSET Slots
    BY DEF PastDay
  <2> QED  BY <2>1, Bounded, CountedSlots
<1>2. WithinLimit(daily, Day(hour), DailyLimit, Cardinality(PastDay'), Slack)
  BY <1>1, Bounded, FewerUnderWay, LimitsAssumption DEF AdapterInv, DayKept
<1> QED  BY <1>2 DEF DayKept, Day, Slack

LEMMA HourUncharged ==
    ASSUME AdapterInv, NEW g \in Games, UNCHANGED <<hour, blind>>, HoursOf(g)' = HoursOf(g),
           PastHour(g)' \subseteq PastHour(g)
    PROVE  HourKept(g)'
<1>1. /\ Cardinality(PastHour(g)) \in Nat /\ Cardinality(PastHour(g)') \in Nat
      /\ Cardinality(PastHour(g)') <= Cardinality(PastHour(g))
  <2>1. /\ PastHour(g) \in SUBSET Slots /\ PastHour(g)' \in SUBSET PastHour(g)
        /\ PastHour(g)' \in SUBSET Slots
    BY DEF PastHour
  <2> QED  BY <2>1, Bounded, CountedSlots
<1>2. WithinLimit(HoursOf(g), hour, HourlyLimit, Cardinality(PastHour(g)'), Slack)
  BY <1>1, Bounded, FewerUnderWay, LimitsAssumption DEF AdapterInv, HourKept
<1> QED  BY <1>2 DEF HourKept, Slack

\* A read that succeeds lets a request in, below the limit.
LEMMA DayRead ==
    ASSUME AdapterInv, UNCHANGED <<daily, hour, blind>>, ~DailyLimitExceeded
    PROVE  DayKept'
<1>1. PastDay \in SUBSET Slots /\ PastDay' \in SUBSET Slots  BY DEF PastDay
<1>2. /\ Cardinality(PastDay) \in Nat /\ Cardinality(PastDay') \in Nat
      /\ Cardinality(PastDay') * MaxCost <= Slack
  BY <1>1, Bounded, CountedSlots
<1>3. daily[Day(hour)] < DailyLimit
  BY Bounded, LimitsAssumption DEF DailyLimitExceeded
<1>4. WithinLimit(daily, Day(hour), DailyLimit, Cardinality(PastDay'), Slack)
  BY <1>2, <1>3, Bounded, LetInByTheRead, LimitsAssumption DEF AdapterInv, DayKept
<1> QED  BY <1>4 DEF DayKept, Day, Slack

LEMMA HourRead ==
    ASSUME AdapterInv, NEW g \in Games, UNCHANGED <<hour, blind>>, HoursOf(g)' = HoursOf(g),
           ~HourlyLimitExceeded(g)
    PROVE  HourKept(g)'
<1>1. PastHour(g) \in SUBSET Slots /\ PastHour(g)' \in SUBSET Slots  BY DEF PastHour
<1>2. /\ Cardinality(PastHour(g)) \in Nat /\ Cardinality(PastHour(g)') \in Nat
      /\ Cardinality(PastHour(g)') * MaxCost <= Slack
  BY <1>1, Bounded, CountedSlots
<1>3. HoursOf(g)[hour] < HourlyLimit
  <2>1. HoursOf(g)[hour] = hourly[<<g, hour>>] /\ HoursOf(g)[hour] \in Nat
    BY Bounded DEF HoursOf
  <2> QED  BY <2>1, LimitsAssumption DEF HourlyLimitExceeded
<1>4. WithinLimit(HoursOf(g), hour, HourlyLimit, Cardinality(PastHour(g)'), Slack)
  BY <1>2, <1>3, Bounded, LetInByTheRead, LimitsAssumption DEF AdapterInv, HourKept
<1> QED  BY <1>4 DEF HourKept, Slack

\* A read that fails lets one in: the slack grows with it.
LEMMA DayUnseen ==
    ASSUME AdapterInv, UNCHANGED <<daily, hour>>, blind' = blind + 1, NEW s,
           PastDay' \subseteq PastDay \cup {s}
    PROVE  DayKept'
<1>1. PastDay \in SUBSET Slots /\ PastDay' \in SUBSET Slots  BY DEF PastDay
<1>2. /\ Cardinality(PastDay) \in Nat /\ Cardinality(PastDay') \in Nat
      /\ Cardinality(PastDay') <= Cardinality(PastDay) + 1
  <2>1. IsFiniteSet(PastDay \cup {s}) /\ Cardinality(PastDay \cup {s}) <= Cardinality(PastDay) + 1
        /\ Cardinality(PastDay) \in Nat
    BY <1>1, Bounded, CountedSlots, FS_AddElement
  <2>2. Cardinality(PastDay \cup {s}) \in Nat  BY <2>1, FS_CardinalityType
  <2>3. Cardinality(PastDay') <= Cardinality(PastDay \cup {s})  BY <2>1, FS_Subset
  <2>4. Cardinality(PastDay') \in Nat  BY <1>1, Bounded, CountedSlots
  <2> QED  BY <2>1, <2>2, <2>3, <2>4
<1>3. Slack' = Slack + MaxCost /\ Slack' \in Nat
  <2>1. Cardinality(Slots) \in Nat  BY SlotsAssumption, FS_CardinalityType
  <2> DEFINE n == Cardinality(Slots) + blind
  <2>2. n \in Nat /\ Slack = n * MaxCost /\ Slack' = (n + 1) * MaxCost
    BY <2>1, Bounded DEF Slack
  <2> HIDE DEF n
  <2> QED  BY <2>2, Products, Bounded, BoundsAssumption
<1>4. WithinLimit(daily, Day(hour), DailyLimit, Cardinality(PastDay) + 1, Slack + MaxCost)
  BY <1>2, Bounded, LetInUnseen, LimitsAssumption DEF AdapterInv, DayKept
<1>5. Cardinality(PastDay) + 1 \in Nat /\ Slack + MaxCost \in Nat  BY <1>2, <1>3
<1>6. WithinLimit(daily, Day(hour), DailyLimit, Cardinality(PastDay'), Slack + MaxCost)
  BY <1>2, <1>4, <1>5, Bounded, FewerUnderWay, LimitsAssumption
<1> QED  BY <1>3, <1>6 DEF DayKept, Day

LEMMA HourUnseen ==
    ASSUME AdapterInv, NEW g \in Games, UNCHANGED hour, blind' = blind + 1,
           HoursOf(g)' = HoursOf(g), NEW s, PastHour(g)' \subseteq PastHour(g) \cup {s}
    PROVE  HourKept(g)'
<1>1. PastHour(g) \in SUBSET Slots /\ PastHour(g)' \in SUBSET Slots  BY DEF PastHour
<1>2. /\ Cardinality(PastHour(g)) \in Nat /\ Cardinality(PastHour(g)') \in Nat
      /\ Cardinality(PastHour(g)') <= Cardinality(PastHour(g)) + 1
  <2>1. /\ IsFiniteSet(PastHour(g) \cup {s})
        /\ Cardinality(PastHour(g) \cup {s}) <= Cardinality(PastHour(g)) + 1
        /\ Cardinality(PastHour(g)) \in Nat
    BY <1>1, Bounded, CountedSlots, FS_AddElement
  <2>2. Cardinality(PastHour(g) \cup {s}) \in Nat  BY <2>1, FS_CardinalityType
  <2>3. Cardinality(PastHour(g)') <= Cardinality(PastHour(g) \cup {s})  BY <2>1, FS_Subset
  <2>4. Cardinality(PastHour(g)') \in Nat  BY <1>1, Bounded, CountedSlots
  <2> QED  BY <2>1, <2>2, <2>3, <2>4
<1>3. Slack' = Slack + MaxCost /\ Slack' \in Nat
  <2>1. Cardinality(Slots) \in Nat  BY SlotsAssumption, FS_CardinalityType
  <2> DEFINE n == Cardinality(Slots) + blind
  <2>2. n \in Nat /\ Slack = n * MaxCost /\ Slack' = (n + 1) * MaxCost
    BY <2>1, Bounded DEF Slack
  <2> HIDE DEF n
  <2> QED  BY <2>2, Products, Bounded, BoundsAssumption
<1>4. WithinLimit(HoursOf(g), hour, HourlyLimit, Cardinality(PastHour(g)) + 1, Slack + MaxCost)
  BY <1>2, Bounded, LetInUnseen, LimitsAssumption DEF AdapterInv, HourKept
<1>5. Cardinality(PastHour(g)) + 1 \in Nat /\ Slack + MaxCost \in Nat  BY <1>2, <1>3
<1>6. WithinLimit(HoursOf(g), hour, HourlyLimit, Cardinality(PastHour(g)'), Slack + MaxCost)
  BY <1>2, <1>4, <1>5, Bounded, FewerUnderWay, LimitsAssumption
<1> QED  BY <1>3, <1>6 DEF HourKept

\* The answer of a request that is billed.
LEMMA DayCharged ==
    ASSUME AdapterInv, UNCHANGED <<hour, blind>>, NEW s \in PastDay, PastDay' = PastDay \ {s},
           NEW cost \in Nat, cost <= MaxCost, RecordCost(Day(hour), cost)
    PROVE  DayKept'
<1>1. PastDay \in SUBSET Slots /\ PastDay' \in SUBSET Slots  BY DEF PastDay
<1>2. Cardinality(PastDay') \in Nat /\ Cardinality(PastDay) = Cardinality(PastDay') + 1
  BY <1>1, Bounded, CountedSlots
<1>3. WithinLimit([daily EXCEPT ![Day(hour)] = @ + cost], Day(hour), DailyLimit, Cardinality(PastDay'),
           Slack)
  BY <1>2, Bounded, OneCharged, LimitsAssumption DEF AdapterInv, DayKept
<1> QED  BY <1>3 DEF DayKept, RecordCost, Day, Slack

LEMMA HourCharged ==
    ASSUME AdapterInv, NEW g \in Games, UNCHANGED <<hour, blind>>, NEW s \in PastHour(g),
           PastHour(g)' = PastHour(g) \ {s},
           NEW cost \in Nat, cost <= MaxCost, RecordUserCost(g, hour, cost)
    PROVE  HourKept(g)'
<1>1. PastHour(g) \in SUBSET Slots /\ PastHour(g)' \in SUBSET Slots  BY DEF PastHour
<1>2. Cardinality(PastHour(g)') \in Nat /\ Cardinality(PastHour(g)) = Cardinality(PastHour(g)') + 1
  BY <1>1, Bounded, CountedSlots
<1>3. WithinLimit([HoursOf(g) EXCEPT ![hour] = @ + cost], hour, HourlyLimit, Cardinality(PastHour(g)'),
           Slack)
  BY <1>2, Bounded, OneCharged, LimitsAssumption DEF AdapterInv, HourKept
<1>4. HoursOf(g)' = [HoursOf(g) EXCEPT ![hour] = @ + cost]
  BY Bounded DEF RecordUserCost, HoursOf, AdapterInv, TypeInv
<1> QED  BY <1>3, <1>4 DEF HourKept, Slack

-----------------------------------------------------------------------------
(* The actions. *)

\* A step that leaves every other request alone.
LEMMA OthersStay ==
    ASSUME NEW s \in Slots, \A t \in Slots \ {s} : call'[t] = call[t]
    PROVE  /\ PastDay' \subseteq PastDay \cup {s} /\ PastDay \subseteq PastDay' \cup {s}
           /\ \A g : /\ PastHour(g)' \subseteq PastHour(g) \cup {s}
                     /\ PastHour(g) \subseteq PastHour(g)' \cup {s}
BY DEF PastDay, PastHour, Underway

\* A slot that serves a request.
LEMMA Serving ==
    ASSUME TypeInv, NEW s \in Slots, call[s].pc # "idle"
    PROVE  /\ call[s] \in Request /\ call[s] # Idle
           /\ call[s].pc \in {"daily", "hourly", "validate", "asking"}
           /\ call[s].model \in Models /\ call[s].game \in Games /\ call[s].left \in Int
BY DEF TypeInv, Request, Idle

\* What one request becomes.
LEMMA SlotBecomes ==
    ASSUME TypeInv, NEW s \in Slots, NEW r \in Request \cup {Idle},
           call' = [call EXCEPT ![s] = r], UNCHANGED <<daily, hourly, hour>>, blind' \in Nat
    PROVE  /\ TypeInv' /\ call'[s] = r /\ \A t \in Slots \ {s} : call'[t] = call[t]
BY DEF TypeInv

LEMMA ReceivePreserves ==
    ASSUME AdapterInv, NEW s \in Slots, NEW m \in Models, NEW g \in Games, NEW n \in 1 .. MaxRetries,
           Receive(s, m, g, n)
    PROVE  AdapterInv'
<1> DEFINE r == [pc |-> IF m \in FreeModels THEN "validate" ELSE "daily", model |-> m,
                 game |-> g, left |-> n]
<1>1. r \in Request /\ call' = [call EXCEPT ![s] = r] /\ UNCHANGED <<daily, hourly, hour, blind>>
  BY BoundsAssumption DEF Receive, Request
<1>2. TypeInv' /\ call'[s] = r /\ \A t \in Slots \ {s} : call'[t] = call[t]
  BY <1>1, SlotBecomes DEF AdapterInv, TypeInv
<1>3. r # Idle /\ r.model = m /\ (m \notin FreeModels => r.pc = "daily")
      /\ (m \in FreeModels => r.pc = "validate")
  BY DEF Idle
<1>4. GuardsThePaid'
  BY <1>2, <1>3 DEF GuardsThePaid, AdapterInv, Underway
<1>5. s \notin PastDay' /\ \A h : s \notin PastHour(h)'
  BY <1>2, <1>3 DEF PastDay, PastHour, Underway
<1>6. PastDay' \subseteq PastDay /\ \A h : PastHour(h)' \subseteq PastHour(h)
  BY <1>2, <1>5, OthersStay
<1>7. DayKept'  BY <1>1, <1>6, DayUncharged
<1>8. \A h \in Games : HourKept(h)'
  <2> TAKE h \in Games
  <2>1. HoursOf(h)' = HoursOf(h)  BY <1>1 DEF HoursOf
  <2> QED  BY <1>1, <1>6, <2>1, HourUncharged
<1> QED  BY <1>2, <1>4, <1>7, <1>8 DEF AdapterInv

\* A request that is refused, or has been answered at no cost.
LEMMA Leaving ==
    ASSUME AdapterInv, NEW s \in Slots, call' = [call EXCEPT ![s] = Idle],
           UNCHANGED <<daily, hourly, hour, blind>>
    PROVE  AdapterInv'
<1>1. TypeInv' /\ call'[s] = Idle /\ \A t \in Slots \ {s} : call'[t] = call[t]
  BY SlotBecomes DEF AdapterInv, TypeInv
<1>2. GuardsThePaid'
  BY <1>1 DEF GuardsThePaid, AdapterInv, Underway, Idle
<1>3. s \notin PastDay' /\ \A h : s \notin PastHour(h)'
  BY <1>1 DEF PastDay, PastHour, Underway
<1>4. PastDay' \subseteq PastDay /\ \A h : PastHour(h)' \subseteq PastHour(h)
  BY <1>1, <1>3, OthersStay
<1>5. DayKept'  BY <1>4, DayUncharged
<1>6. \A h \in Games : HourKept(h)'
  <2> TAKE h \in Games
  <2>1. HoursOf(h)' = HoursOf(h)  BY DEF HoursOf
  <2> QED  BY <1>4, <2>1, HourUncharged
<1> QED  BY <1>1, <1>2, <1>5, <1>6 DEF AdapterInv

\* A request that goes on to another stage.
LEMMA GoesOn ==
    ASSUME AdapterInv, NEW s \in Slots, call[s].pc # "idle",
           NEW next \in {"hourly", "validate", "asking"}, GoOn(s, next),
           next = "hourly" => Underway(s), UNCHANGED <<daily, hourly, hour>>, blind' \in Nat
    PROVE  /\ TypeInv' /\ GuardsThePaid' /\ \A t \in Slots \ {s} : call'[t] = call[t]
           /\ call'[s] # Idle /\ call'[s].pc = next /\ call'[s].game = call[s].game
           /\ call'[s].model = call[s].model
           /\ \A h \in Games : HoursOf(h)' = HoursOf(h)
<1> DEFINE r == [call[s] EXCEPT !.pc = next]
<1>1. /\ r \in Request /\ r.pc = next /\ r.game = call[s].game /\ r.model = call[s].model
      /\ r # Idle
  BY Serving DEF Request, AdapterInv, Idle
<1>2. call' = [call EXCEPT ![s] = r]  BY DEF GoOn
<1> HIDE DEF r
<1>3. TypeInv' /\ call'[s] = r /\ \A t \in Slots \ {s} : call'[t] = call[t]
  BY <1>1, <1>2, SlotBecomes DEF AdapterInv
<1>4. GuardsThePaid'
  BY <1>1, <1>3 DEF GuardsThePaid, AdapterInv, Underway
<1>5. \A h \in Games : HoursOf(h)' = HoursOf(h)  BY DEF HoursOf
<1> QED  BY <1>1, <1>3, <1>4, <1>5

LEMMA CheckDailyPreserves ==
    ASSUME AdapterInv, NEW s \in Slots, CheckDaily(s)
    PROVE  AdapterInv'
<1>1. CASE DailyLimitExceeded  BY <1>1, Leaving DEF CheckDaily, Refuse
<1>2. CASE ~DailyLimitExceeded
  <2>1. /\ GoOn(s, "hourly") /\ call[s].pc # "idle" /\ Underway(s)
        /\ UNCHANGED <<daily, hourly, hour, blind>> /\ blind' \in Nat
    BY <1>2 DEF CheckDaily, AdapterInv, GuardsThePaid, TypeInv
  <2>2. /\ TypeInv' /\ GuardsThePaid' /\ \A t \in Slots \ {s} : call'[t] = call[t]
        /\ call'[s].pc = "hourly" /\ \A h \in Games : HoursOf(h)' = HoursOf(h)
    BY <2>1, GoesOn
  <2>3. DayKept'  BY <1>2, <2>1, DayRead
  <2>4. \A h \in Games : HourKept(h)'
    <3> TAKE h \in Games
    <3>1. s \notin PastHour(h)'  BY <2>2 DEF PastHour
    <3>2. PastHour(h)' \subseteq PastHour(h)  BY <2>2, <3>1, OthersStay
    <3> QED  BY <2>1, <2>2, <3>2, HourUncharged
  <2> QED  BY <2>2, <2>3, <2>4 DEF AdapterInv
<1> QED  BY <1>1, <1>2

LEMMA CheckHourlyPreserves ==
    ASSUME AdapterInv, NEW s \in Slots, CheckHourly(s)
    PROVE  AdapterInv'
<1>1. CASE HourlyLimitExceeded(call[s].game)  BY <1>1, Leaving DEF CheckHourly, Refuse
<1>2. CASE ~HourlyLimitExceeded(call[s].game)
  <2>1. /\ GoOn(s, "validate") /\ call[s].pc = "hourly" /\ Underway(s)
        /\ UNCHANGED <<daily, hourly, hour, blind>> /\ blind' \in Nat
    BY <1>2 DEF CheckHourly, AdapterInv, GuardsThePaid, TypeInv
  <2>2. /\ TypeInv' /\ GuardsThePaid' /\ \A t \in Slots \ {s} : call'[t] = call[t]
        /\ call'[s].game = call[s].game /\ \A h \in Games : HoursOf(h)' = HoursOf(h)
    BY <2>1, GoesOn
  <2>3. DayKept'
    <3>1. s \in PastDay  BY <2>1 DEF PastDay
    <3>2. PastDay' \subseteq PastDay  BY <2>2, <3>1, OthersStay
    <3> QED  BY <2>1, <3>2, DayUncharged
  <2>4. \A h \in Games : HourKept(h)'
    <3> TAKE h \in Games
    <3>1. CASE h = call[s].game  BY <1>2, <2>1, <2>2, <3>1, HourRead
    <3>2. CASE h # call[s].game
      <4>1. s \notin PastHour(h)'  BY <2>2, <3>2 DEF PastHour
      <4>2. PastHour(h)' \subseteq PastHour(h)  BY <2>2, <4>1, OthersStay
      <4> QED  BY <2>1, <2>2, <4>2, HourUncharged
    <3> QED  BY <3>1, <3>2
  <2> QED  BY <2>2, <2>3, <2>4 DEF AdapterInv
<1> QED  BY <1>1, <1>2

LEMMA CheckFailsPreserves ==
    ASSUME AdapterInv, NEW s \in Slots, CheckFails(s)
    PROVE  AdapterInv'
<1>1. PICK next \in {"hourly", "validate"} : GoOn(s, next)  BY DEF CheckFails
<1>2. /\ call[s].pc # "idle" /\ Underway(s)
      /\ UNCHANGED <<daily, hourly, hour>> /\ blind' = blind + 1 /\ blind' \in Nat
  BY DEF CheckFails, AdapterInv, GuardsThePaid, TypeInv
<1>3. /\ TypeInv' /\ GuardsThePaid' /\ \A t \in Slots \ {s} : call'[t] = call[t]
      /\ \A h \in Games : HoursOf(h)' = HoursOf(h)
  BY <1>1, <1>2, GoesOn
<1>4. /\ PastDay' \subseteq PastDay \cup {s}
      /\ \A h \in Games : PastHour(h)' \subseteq PastHour(h) \cup {s}
  BY <1>3, OthersStay
<1>5. DayKept'  BY <1>2, <1>4, DayUnseen
<1>6. \A h \in Games : HourKept(h)'  BY <1>2, <1>3, <1>4, HourUnseen
<1> QED  BY <1>3, <1>5, <1>6 DEF AdapterInv

LEMMA LargerOfTwo ==
    ASSUME NEW a \in Int, NEW b \in Int
    PROVE  Max({a, b}) \in Int
<1>1. \E x \in {a, b} : \A y \in {a, b} : x >= y
  <2>1. CASE a >= b  BY <2>1
  <2>2. CASE b >= a  BY <2>2
  <2> QED  BY <2>1, <2>2
<1>2. Max({a, b}) \in {a, b}  BY <1>1 DEF Max
<1> QED  BY <1>2

\* A stage at which a request counts for both totals is followed by another,
\* with as many attempts as it may be.
LEMMA Advancing ==
    ASSUME AdapterInv, NEW s \in Slots, call[s].pc \in {"validate", "asking"}, NEW left \in Int,
           call' = [call EXCEPT ![s].pc = "asking", ![s].left = left],
           UNCHANGED <<daily, hourly, hour, blind>>
    PROVE  AdapterInv'
<1> DEFINE r == [call[s] EXCEPT !.pc = "asking", !.left = left]
<1>1. /\ r \in Request /\ r.pc = "asking" /\ r.game = call[s].game /\ r.model = call[s].model
      /\ r # Idle /\ call[s] # Idle
  BY Serving DEF Request, AdapterInv, Idle
<1>2. call' = [call EXCEPT ![s] = r]  OBVIOUS
<1> HIDE DEF r
<1>3. TypeInv' /\ call'[s] = r /\ \A t \in Slots \ {s} : call'[t] = call[t]
  BY <1>1, <1>2, SlotBecomes DEF AdapterInv, TypeInv
<1>4. GuardsThePaid'
  BY <1>1, <1>3 DEF GuardsThePaid, AdapterInv, Underway
<1>5. /\ s \in PastDay' => s \in PastDay
      /\ \A h : s \in PastHour(h)' => s \in PastHour(h)
  BY <1>1, <1>3 DEF PastDay, PastHour, Underway
<1>6. PastDay' \subseteq PastDay /\ \A h : PastHour(h)' \subseteq PastHour(h)
  BY <1>3, <1>5, OthersStay
<1>7. DayKept'  BY <1>6, DayUncharged
<1>8. \A h \in Games : HourKept(h)'
  <2> TAKE h \in Games
  <2>1. HoursOf(h)' = HoursOf(h)  BY DEF HoursOf
  <2> QED  BY <1>6, <2>1, HourUncharged
<1> QED  BY <1>3, <1>4, <1>7, <1>8 DEF AdapterInv

LEMMA ValidatePreserves ==
    ASSUME AdapterInv, NEW s \in Slots, NEW ok \in BOOLEAN, Validate(s, ok)
    PROVE  AdapterInv'
<1>1. CASE ~ok  BY <1>1, Leaving DEF Validate, Refuse
<1>2. CASE ok
  <2>1. PICK left \in Int : left = IF call[s].model = "ollama" THEN OllamaRetriesOf(call[s].left)
                                   ELSE call[s].left
    <3>1. call[s].left \in Int  BY Serving DEF Validate, AdapterInv
    <3>2. OllamaRetriesOf(call[s].left) \in Int
      BY <3>1, LargerOfTwo, BoundsAssumption DEF OllamaRetriesOf
    <3> QED  BY <3>1, <3>2
  <2>2. call' = [call EXCEPT ![s].pc = "asking", ![s].left = left]
    BY <1>2, <2>1, Serving DEF Validate, AdapterInv, TypeInv, Request
  <2> QED  BY <2>2, Advancing DEF Validate
<1> QED  BY <1>1, <1>2

LEMMA AttemptFailsPreserves ==
    ASSUME AdapterInv, NEW s \in Slots, AttemptFails(s)
    PROVE  AdapterInv'
<1>1. call[s] \in Request /\ call[s].left - 1 \in Int /\ call[s].pc = "asking"
  BY Serving DEF AttemptFails, AdapterInv
<1>2. call' = [call EXCEPT ![s].pc = "asking", ![s].left = call[s].left - 1]
  BY <1>1 DEF AttemptFails, AdapterInv, TypeInv, Request
<1> QED  BY <1>1, <1>2, Advancing DEF AttemptFails

\* The answer leaves: a request that may be billed has passed both reads, and
\* what it costs was counted in; the others cost nothing.
LEMMA SettlePreserves ==
    ASSUME AdapterInv, NEW s \in Slots, call[s].pc = "asking", NEW a, NEW cost \in Costs,
           NEW lost \in Lost, call[s].model \in FreeModels => cost = 0,
           Settle(s, a, cost, lost), UNCHANGED <<hour, blind>>
    PROVE  AdapterInv'
<1> DEFINE g == call[s].game
<1>1. cost \in Nat /\ cost <= MaxCost /\ 0 <= MaxCost  BY BoundsAssumption DEF Costs
<1>2. call[s] # Idle /\ g \in Games  BY Serving DEF AdapterInv
<1>3. /\ daily' \in [Days -> Nat] /\ hourly' \in [Games \X Hours -> Nat]
      /\ (daily' = daily \/ RecordCost(Day(hour), cost))
      /\ (hourly' = hourly \/ RecordUserCost(g, hour, cost))
  <2>1. /\ daily \in [Days -> Nat] /\ hourly \in [Games \X Hours -> Nat]
        /\ Day(hour) \in Days /\ <<g, hour>> \in Games \X Hours
    BY <1>2, Bounded DEF AdapterInv, TypeInv
  <2>2. /\ daily' = daily \/ RecordCost(Day(hour), cost)
        /\ hourly' = hourly \/ RecordUserCost(g, hour, cost)
    BY DEF Settle
  <2>3. daily' \in [Days -> Nat]  BY <1>1, <2>1, <2>2 DEF RecordCost
  <2>4. hourly' \in [Games \X Hours -> Nat]
    <3>1. hourly[<<g, hour>>] + cost \in Nat  BY <1>1, <2>1
    <3>2. [hourly EXCEPT ![<<g, hour>>] = @ + cost] \in [Games \X Hours -> Nat]
      BY <2>1, <3>1
    <3> QED  BY <2>1, <2>2, <3>2 DEF RecordUserCost
  <2> QED  BY <2>2, <2>3, <2>4
<1>4. /\ TypeInv' /\ call'[s] = Idle /\ \A t \in Slots \ {s} : call'[t] = call[t]
  BY <1>3 DEF Settle, AdapterInv, TypeInv
<1>5. GuardsThePaid'
  BY <1>4 DEF GuardsThePaid, AdapterInv, Underway, Idle
<1>6. s \notin PastDay' /\ \A h : s \notin PastHour(h)'
  BY <1>4 DEF PastDay, PastHour, Underway
<1>7. /\ PastDay' = PastDay \ {s} /\ PastDay' \subseteq PastDay
      /\ \A h \in Games : PastHour(h)' = PastHour(h) \ {s} /\ PastHour(h)' \subseteq PastHour(h)
  BY <1>4, <1>6, OthersStay
<1>8. DayKept'
  <2>1. CASE daily' = daily  BY <1>7, <2>1, DayUncharged
  <2>2. CASE RecordCost(Day(hour), cost) /\ call[s].model \notin FreeModels
    <3>1. s \in PastDay  BY <1>2, <2>2 DEF PastDay, Underway
    <3> QED  BY <1>1, <1>7, <2>2, <3>1, DayCharged
  <2>3. CASE RecordCost(Day(hour), cost) /\ call[s].model \in FreeModels
    <3>1. daily' = daily  BY <2>3, Bounded DEF RecordCost
    <3> QED  BY <1>7, <3>1, DayUncharged
  <2> QED  BY <1>3, <2>1, <2>2, <2>3
<1>9. ASSUME NEW h \in Games  PROVE HourKept(h)'
  <2>1. CASE hourly' = hourly
    <3>1. HoursOf(h)' = HoursOf(h)  BY <2>1 DEF HoursOf
    <3> QED  BY <1>7, <3>1, HourUncharged
  <2>2. CASE RecordUserCost(g, hour, cost) /\ call[s].model \notin FreeModels /\ h = g
    <3>1. s \in PastHour(h)  BY <1>2, <2>2 DEF PastHour, Underway
    <3>2. PastHour(h)' = PastHour(h) \ {s}  BY <1>7
    <3>3. RecordUserCost(h, hour, cost)  BY <2>2
    <3> QED  BY <1>1, <3>1, <3>2, <3>3, HourCharged
  <2>3. CASE /\ RecordUserCost(g, hour, cost)
             /\ call[s].model \in FreeModels \/ h # g
    <3>1. HoursOf(h)' = HoursOf(h)
      <4>1. ASSUME NEW k \in Hours  PROVE hourly'[<<h, k>>] = hourly[<<h, k>>]
        <5>1. CASE h # g
          <6>1. <<h, k>> # <<g, hour>>  BY <5>1
          <6> QED  BY <2>3, <6>1 DEF RecordUserCost, AdapterInv, TypeInv
        <5>2. CASE h = g
          <6>1. cost = 0  BY <2>3, <5>2
          <6>2. hourly \in [Games \X Hours -> Nat]  BY DEF AdapterInv, TypeInv
          <6>3. hourly[<<h, k>>] \in Nat  BY <6>2
          <6> QED  BY <2>3, <6>1, <6>2, <6>3 DEF RecordUserCost
        <5> QED  BY <5>1, <5>2
      <4> QED  BY <4>1 DEF HoursOf
    <3> QED  BY <1>7, <3>1, HourUncharged
  <2> QED  BY <1>3, <2>1, <2>2, <2>3
<1> QED  BY <1>4, <1>5, <1>8, <1>9 DEF AdapterInv

LEMMA NextHourPreserves ==
    ASSUME AdapterInv, NextHour
    PROVE  AdapterInv'
<1>1. /\ UNCHANGED <<call, daily, hourly, blind>> /\ hour' \in Hours /\ hour < hour'
      /\ hour' \in Nat
  BY BoundsAssumption DEF NextHour, AdapterInv, TypeInv, Hours
<1>2. TypeInv' /\ GuardsThePaid'
  BY <1>1 DEF AdapterInv, TypeInv, GuardsThePaid, Underway
<1>3. DayKept'
  <2>1. Day(hour)' \in Nat /\ Day(hour) <= Day(hour)'
    <3>1. hour \in Hours /\ hour \in Nat  BY Bounded
    <3>2. Day(hour') \in Days /\ Days \in SUBSET Nat  BY <1>1, Clock
    <3>3. hour <= hour'  BY <1>1, <3>1
    <3>4. Day(hour) <= Day(hour')  BY <1>1, <3>1, <3>3, Clock
    <3> QED  BY <3>2, <3>4 DEF Day
  <2>2. PastDay \in SUBSET Slots /\ PastDay' = PastDay  BY <1>1 DEF PastDay, Underway
  <2>3. /\ Cardinality(PastDay) \in Nat /\ Cardinality(PastDay) * MaxCost <= Slack
    BY <2>2, Bounded, CountedSlots
  <2>4. WithinLimit(daily, Day(hour)', DailyLimit, Cardinality(PastDay), Slack)
    BY <2>1, <2>3, Bounded, LaterCharged, LimitsAssumption DEF AdapterInv, DayKept
  <2> QED  BY <1>1, <2>2, <2>4 DEF DayKept, Slack
<1>4. ASSUME NEW g \in Games  PROVE HourKept(g)'
  <2>1. PastHour(g) \in SUBSET Slots /\ PastHour(g)' = PastHour(g) /\ HoursOf(g)' = HoursOf(g)
    BY <1>1 DEF PastHour, Underway, HoursOf
  <2>2. /\ Cardinality(PastHour(g)) \in Nat /\ Cardinality(PastHour(g)) * MaxCost <= Slack
    BY <2>1, Bounded, CountedSlots
  <2>3. hour <= hour'  BY <1>1, Bounded
  <2>4. WithinLimit(HoursOf(g), hour', HourlyLimit, Cardinality(PastHour(g)), Slack)
    BY <1>1, <2>2, <2>3, Bounded, LaterCharged, LimitsAssumption DEF AdapterInv, HourKept
  <2> QED  BY <1>1, <2>1, <2>4 DEF HourKept, Slack
<1> QED  BY <1>2, <1>3, <1>4 DEF AdapterInv

\* A step that touches none of this: a stutter, or a new minute.
LEMMA AdapterStutters ==
    ASSUME AdapterInv, UNCHANGED <<call, daily, hourly, hour, blind>>
    PROVE  AdapterInv'
BY DEF AdapterInv, TypeInv, GuardsThePaid, Underway, DayKept, HourKept, HoursOf, PastDay, PastHour,
       Slack, Day, WithinLimit

LEMMA AdapterStarts == Init => AdapterInv
<1> SUFFICES ASSUME Init PROVE AdapterInv  OBVIOUS
<1>1. TypeInv /\ GuardsThePaid
  BY BoundsAssumption DEF Init, TypeInv, GuardsThePaid, Idle, Hours
<1>2. PastDay = {} /\ \A g \in Games : PastHour(g) = {}
  BY DEF Init, PastDay, PastHour, Underway
<1>3. Slack \in Nat  BY <1>1, CountedSlots DEF TypeInv
<1>4. Cardinality({}) = 0 /\ 0 * MaxCost = 0  BY FS_EmptySet, BoundsAssumption
<1>5. DayKept
  BY <1>2, <1>3, <1>4, Clock, LimitsAssumption DEF DayKept, WithinLimit, Init
<1>6. ASSUME NEW g \in Games  PROVE HourKept(g)
  <2>1. /\ hour = 0 /\ DOMAIN HoursOf(g) = Hours
        /\ \A h \in Hours : HoursOf(g)[h] = 0
    BY DEF Init, HoursOf
  <2>2. Cardinality(PastHour(g)) * MaxCost = 0  BY <1>2, <1>4
  <2>3. Hours \in SUBSET Nat /\ HourlyLimit - 1 + Slack >= 0
    BY <1>3, Clock, LimitsAssumption
  <2>4. ASSUME NEW h \in Hours
        PROVE  /\ h < hour => HoursOf(g)[h] <= HourlyLimit - 1 + Slack
               /\ h = hour => HoursOf(g)[h] + Cardinality(PastHour(g)) * MaxCost
                                  <= HourlyLimit - 1 + Slack
               /\ h > hour => HoursOf(g)[h] = 0
    <3>1. HoursOf(g)[h] = 0  BY <2>1
    <3> QED  BY <2>2, <2>3, <3>1
  <2> QED  BY <2>1, <2>4 DEF HourKept, WithinLimit
<1> QED  BY <1>1, <1>5, <1>6 DEF AdapterInv

LEMMA AdapterSteps ==
    ASSUME AdapterInv, [Next]_vars
    PROVE  AdapterInv'
<1>1. ASSUME NEW s \in Slots, NEW m \in Models, NEW g \in Games, NEW n \in 1 .. MaxRetries,
             Receive(s, m, g, n)
      PROVE  AdapterInv'
  BY <1>1, ReceivePreserves
<1>2. ASSUME NEW s \in Slots, Serve(s)  PROVE AdapterInv'
  <2>1. CASE CheckDaily(s)  BY <2>1, CheckDailyPreserves
  <2>2. CASE CheckHourly(s)  BY <2>2, CheckHourlyPreserves
  <2>3. CASE CheckFails(s)  BY <2>3, CheckFailsPreserves
  <2>4. ASSUME NEW ok \in BOOLEAN, Validate(s, ok)  PROVE AdapterInv'
    BY <2>4, ValidatePreserves
  <2>5. ASSUME NEW a \in AllReadings, NEW c \in Costs, NEW l \in Lost, AttemptSucceeds(s, a, c, l)
        PROVE  AdapterInv'
    BY <2>5, SettlePreserves DEF AttemptSucceeds
  <2>6. CASE AttemptFails(s)  BY <2>6, AttemptFailsPreserves
  <2>7. ASSUME NEW l \in Lost, ForcedDraw(s, l)  PROVE AdapterInv'
    <3>1. 0 \in Costs  BY BoundsAssumption DEF Costs
    <3> QED  BY <2>7, <3>1, SettlePreserves DEF ForcedDraw
  <2> QED  BY <1>2, <2>1, <2>2, <2>3, <2>4, <2>5, <2>6, <2>7 DEF Serve
<1>3. CASE NextMinute \/ UNCHANGED vars
  BY <1>3, AdapterStutters DEF NextMinute, vars
<1>4. CASE NextHour  BY <1>4, NextHourPreserves
<1> QED  BY <1>1, <1>2, <1>3, <1>4 DEF Next

THEOREM AdapterInvariant == Spec => []AdapterInv
BY AdapterStarts, AdapterSteps, PTL DEF Spec

\* However many requests the cost guard lets in at the same time, on however
\* many days and for however many games, a limit is overrun by no more than
\* one answer for each slot and for each read that Redis failed
\* (CostLimitGuard.canActivate, CostTrackingService.recordCost).
THEOREM OverrunCorrect == Spec => []OverrunIsWhatWasUnderWay
<1>1. ASSUME AdapterInv  PROVE OverrunIsWhatWasUnderWay
  <2>1. ASSUME NEW P \in SUBSET Nat, NEW total \in [P -> Nat], NEW now \in Nat,
               NEW limit \in Nat \ {0}, NEW n \in Nat, WithinLimit(total, now, limit, n, Slack)
        PROVE  \A p \in P : total[p] <= limit - 1 + Slack
    <3>1. n * MaxCost \in Nat  BY Products, BoundsAssumption
    <3> QED  BY <1>1, <2>1, <3>1, Bounded DEF WithinLimit
  <2>2. \A d \in Days : daily[d] <= DailyLimit - 1 + Slack
    <3>1. PastDay \in SUBSET Slots  BY DEF PastDay
    <3>2. Cardinality(PastDay) \in Nat  BY <1>1, <3>1, Bounded, CountedSlots
    <3> QED  BY <1>1, <2>1, <3>2, Bounded, LimitsAssumption DEF AdapterInv, DayKept
  <2>3. ASSUME NEW g \in Games, NEW h \in Hours
        PROVE  hourly[<<g, h>>] <= HourlyLimit - 1 + Slack
    <3>1. PastHour(g) \in SUBSET Slots  BY DEF PastHour
    <3>2. Cardinality(PastHour(g)) \in Nat  BY <1>1, <3>1, Bounded, CountedSlots
    <3>3. HoursOf(g)[h] <= HourlyLimit - 1 + Slack
      BY <1>1, <2>1, <3>2, Bounded, LimitsAssumption DEF AdapterInv, HourKept
    <3> QED  BY <3>3 DEF HoursOf
  <2> QED  BY <2>2, <2>3 DEF OverrunIsWhatWasUnderWay, Slack
<1> QED  BY <1>1, AdapterInvariant, PTL

-----------------------------------------------------------------------------
(* What is read out of a text, of any number of objects and groups.        *)

Group     == [n : Nat, ok : BOOLEAN]
AnyObject == [action : {"draw", "place", "think", "broken"}, groups : Seq(Group),
              rack : {"ok", "bad", "none", "no list"}]
AnyText   == Seq(AnyObject)

Readable(a) == /\ a.groups # <<>>
               /\ \A i \in 1 .. Len(a.groups) : a.groups[i].n >= 3 /\ a.groups[i].ok
               /\ a.rack # "no list" => a.rack \in {"none", "ok"}

\* The first index with a property, if there is one.
LEMMA FirstIndex ==
    ASSUME NEW n \in Nat, NEW I \in SUBSET (1 .. n), I # {}
    PROVE  Min(I) \in I
<1>1. I \subseteq Nat  OBVIOUS
<1>2. \E i \in I : \A j \in I : ~(<<j, i>> \in OpToRel(<, Nat))
  BY <1>1, NatLessThanWellFounded, WFMin
<1>3. PICK i \in I : \A j \in I : ~(<<j, i>> \in OpToRel(<, Nat))  BY <1>2
<1>4. \A j \in I : <<j, i>> \in OpToRel(<, Nat) <=> j < i  BY <1>1 DEF OpToRel
<1>5. \A j \in I : ~(j < i)  BY <1>3, <1>4, Zenon
<1>6. \A j \in I : i <= j  BY <1>1, <1>5
<1> QED  BY <1>6 DEF Min

\* A placement is what is left when no group is short and no code is bad.
LEMMA ParsedGroups ==
    ASSUME NEW gs \in Seq(Group), ParseGroups(gs) = "place"
    PROVE  \A i \in 1 .. Len(gs) : gs[i].n >= 3 /\ gs[i].ok
<1> DEFINE short == {i \in 1 .. Len(gs) : gs[i].n < 3}
           bad   == {i \in 1 .. Len(gs) : ~gs[i].ok}
<1>1. Len(gs) \in Nat /\ \A i \in 1 .. Len(gs) : gs[i] \in Group  OBVIOUS
<1>2. short # {} => Min(short) \in 1 .. Len(gs)  BY <1>1, FirstIndex
<1>3. bad # {} => Min(bad) \in 1 .. Len(gs)  BY <1>1, FirstIndex
<1>4. /\ SelectInSeq(gs, LAMBDA g : g.n < 3) = IF short # {} THEN Min(short) ELSE 0
      /\ SelectInSeq(gs, LAMBDA g : ~g.ok) = IF bad # {} THEN Min(bad) ELSE 0
  BY DEF SelectInSeq
<1> HIDE DEF short, bad
<1>5. bad = {} /\ short = {}
  BY <1>1, <1>2, <1>3, <1>4 DEF ParseGroups
<1> QED  BY <1>1, <1>5 DEF short, bad, Group

LEMMA ObjectsOfTexts ==
    /\ Object("think", <<>>, "none") \in AnyObject
    /\ \A text \in AnyText : Greedy(text) \in AnyObject
<1>1. <<>> \in Seq(Group)  OBVIOUS
<1>2. Object("think", <<>>, "none") \in AnyObject /\ Broken \in AnyObject
  BY <1>1 DEF Object, Broken, AnyObject
<1>3. ASSUME NEW text \in AnyText  PROVE Greedy(text) \in AnyObject
  <2>1. Len(text) = 1 => text[1] \in AnyObject  BY DEF AnyText
  <2> QED  BY <1>2, <2>1 DEF Greedy
<1> QED  BY <1>2, <1>3

LEMMA ParsedIsReadable ==
    ASSUME NEW text \in AnyText, Parse(text).action = "place"
    PROVE  Readable(Parse(text))
<1> DEFINE o == Greedy(text)
<1>1. o \in AnyObject  BY ObjectsOfTexts
<1> HIDE DEF o
<1>2. ParseGroups(o.groups) = "place" /\ o.groups # <<>> /\ o.rack # "bad"
      /\ Parse(text) = [action |-> "place", groups |-> o.groups, rack |-> o.rack]
  BY DEF Parse, o
<1>3. \A i \in 1 .. Len(o.groups) : o.groups[i].n >= 3 /\ o.groups[i].ok
  BY <1>1, <1>2, ParsedGroups DEF AnyObject
<1>4. o.rack \in {"ok", "none", "no list"}  BY <1>1, <1>2 DEF AnyObject
<1>5. PICK a : a = Parse(text)  OBVIOUS
<1>6. a.groups = o.groups /\ a.rack = o.rack  BY <1>2, <1>5
<1>7. Readable(a)  BY <1>2, <1>3, <1>4, <1>6 DEF Readable
<1> QED  BY <1>5, <1>7

\* Whichever text the adapter of a model takes, it is made of objects that
\* the model wrote.
LEMMA ContentIsText ==
    ASSUME NEW m \in Models, NEW c \in AnyText, NEW t \in AnyText
    PROVE  ContentOf(m, c, t) \in AnyText
<1>1. \A x \in AnyText : Greedy(x) \in AnyObject  BY ObjectsOfTexts
<1>2. LastMove(t) # 0 => Reverse(t)[LastMove(t)] \in AnyObject
  <2> DEFINE I == {i \in 1 .. Len(Reverse(t)) : IsMove(Reverse(t)[i])}
  <2>1. LastMove(t) = IF I # {} THEN Min(I) ELSE 0  BY DEF LastMove, SelectInSeq
  <2>2. Reverse(t) \in Seq(AnyObject) /\ Len(Reverse(t)) \in Nat
    BY DEF AnyText, Reverse
  <2>3. I # {} => Min(I) \in 1 .. Len(Reverse(t))  BY <2>2, FirstIndex
  <2> QED  BY <2>1, <2>2, <2>3
<1>3. BestJson(c, t) \in AnyText
  BY <1>1, <1>2 DEF BestJson, AnyText
<1>4. OllamaContent(c, t) \in AnyText
  BY <1>1 DEF OllamaContent, AnyText
<1> QED  BY <1>3, <1>4 DEF ContentOf, ClaudeContent, OpenAiContent, Models

LEMMA TextsAreTexts == Texts \subseteq AnyText
<1>1. Objects \subseteq AnyObject
  <2>1. Good \in Group /\ Misspelt \in Group /\ Short \in Group
    BY DEF Good, Misspelt, Short, Group
  <2>2. /\ <<>> \in Seq(Group) /\ <<Good>> \in Seq(Group) /\ <<Good, Misspelt>> \in Seq(Group)
        /\ <<Short, Misspelt>> \in Seq(Group) /\ <<Good, Good>> \in Seq(Group)
    BY <2>1
  <2>3. \A action \in {"draw", "place", "think", "broken"}, groups \in Seq(Group),
          rack \in {"ok", "bad", "none", "no list"} :
           Object(action, groups, rack) \in AnyObject
    BY DEF Object, AnyObject
  <2> QED  BY <2>2, <2>3 DEF Objects, Broken
<1>2. <<>> \in AnyText /\ \A o \in AnyObject : <<o>> \in AnyText  BY DEF AnyText
<1>3. \A o, p \in AnyObject : <<o, p>> \in AnyText  BY DEF AnyText
<1> QED  BY <1>1, <1>2, <1>3, ObjectsOfTexts DEF Texts

\* A placement that leaves the adapter has groups, each of three tiles or more
\* and without a misspelt code, and a tilesFromRack without one whenever it is a
\* list, as the game server needs it to be; whatever texts of any length the
\* model answered with (ParsedIsReadable, ContentIsText) and whatever the retries
\* and the guards did before (ResponseParserService.parse).
THEOREM PlacementCorrect == Spec => []PlacementIsReadable
<1>1. Init => PlacementIsReadable  BY DEF Init, NoAnswer, PlacementIsReadable
<1>2. ASSUME NEW a \in AllReadings, a.action = "place"  PROVE Readable(a)
  <2>1. PICK m \in Models : a \in Readings[m]  BY DEF AllReadings
  <2>2. PICK c \in Texts, t \in Texts : a = Parse(ContentOf(m, c, t))  BY <2>1 DEF Readings
  <2>3. ContentOf(m, c, t) \in AnyText  BY TextsAreTexts, ContentIsText
  <2> QED  BY <1>2, <2>2, <2>3, ParsedIsReadable
<1>3. ASSUME PlacementIsReadable, [Next]_vars  PROVE PlacementIsReadable'
  <2>1. \/ Silent \/ answer' = [action |-> "forced"] \/ answer' = answer
        \/ \E a \in AllReadings : answer' = a
    BY <1>3 DEF Next, Serve, Receive, CheckDaily, CheckHourly, CheckFails, Validate, AttemptSucceeds,
       AttemptFails, ForcedDraw, NextMinute, NextHour, Settle, vars
  <2>2. CASE Silent  BY <2>2 DEF Silent, NoAnswer, PlacementIsReadable
  <2>3. CASE answer' = [action |-> "forced"]  BY <2>3 DEF PlacementIsReadable
  <2>4. CASE answer' = answer  BY <1>3, <2>4 DEF PlacementIsReadable, Decodes
  <2>5. ASSUME NEW a \in AllReadings, answer' = a  PROVE PlacementIsReadable'
    BY <1>2, <2>5 DEF PlacementIsReadable, Readable, Decodes
  <2> QED  BY <2>1, <2>2, <2>3, <2>4, <2>5
<1> QED  BY <1>1, <1>3, PTL DEF Spec

-----------------------------------------------------------------------------
(* Whose turn a script takes it to be *)

\* What the server says, and what of it names a seat.
Types    == {"AUTH_OK", "GAME_STATE", "TURN_START", "TURN_END", "TILE_DRAWN", "ERROR", "GAME_OVER"}
Said     == [type : Types, seat : Int]
Names(m) == m.type \in {"GAME_STATE", "TURN_START", "TURN_END"}

\* The start of a turn comes right behind what names its seat, unless the
\* script has read that; and the state of the game is the first to name one.
Ordered(box, seen) ==
    \A i \in 1 .. Len(box) :
        /\ box[i].type = "GAME_STATE" =>
              seen = Unseated /\ \A j \in 1 .. i - 1 : ~ Names(box[j])
        /\ box[i].type = "TURN_START" =>
              \/ i = 1 /\ seen = box[i].seat
              \/ /\ i > 1 /\ box[i - 1].seat = box[i].seat
                 /\ box[i - 1].type \in {"GAME_STATE", "TURN_END"}

\* What was said last, read or not, names that seat.
LastNamed(box, seen, seat) ==
    \/ seen = seat /\ \A i \in 1 .. Len(box) : ~ Names(box[i])
    \/ \E i \in 1 .. Len(box) :
          /\ Names(box[i]) /\ box[i].seat = seat
          /\ \A j \in i + 1 .. Len(box) : ~ Names(box[j])

Told == /\ Ordered(inbox, view.seat)
        /\ LastNamed(inbox, view.seat, game.seat)

ScriptTypes ==
    /\ inbox \in Seq(Said)
    /\ game.seat \in Int /\ "seat" \in DOMAIN game
    /\ ~ connected => inbox = <<>>
    /\ pc = "setup" => ~ connected /\ outbox = <<>> /\ view.seat = Unseated

ScriptInv == ScriptTypes /\ (connected => Told)

\* Two or four seats.
LEMMA SeatsCount == Cardinality(Seats) \in {2, 4}
<1>1. Cardinality(0 .. 3) = (IF 0 > 3 THEN 0 ELSE 3 - 0 + 1)  BY FS_Interval, 0 \in Int, 3 \in Int
<1>2. Cardinality(0 .. 1) = (IF 0 > 1 THEN 0 ELSE 1 - 0 + 1)  BY FS_Interval, 0 \in Int, 1 \in Int
<1> QED  BY <1>1, <1>2 DEF Seats

\* Before the game there is nothing said.
LEMMA ScriptStarts == MCInit => ScriptInv
  BY DEF MCInit, ScriptInit, ScriptInv, ScriptTypes, Unseated, Seats

\* Messages that name no seat come behind the others.
LEMMA SaysNothing ==
    ASSUME NEW box \in Seq(Said), NEW seen, NEW seat, NEW m \in Said, ~ Names(m),
           Ordered(box, seen), LastNamed(box, seen, seat)
    PROVE  /\ Append(box, m) \in Seq(Said)
           /\ Ordered(Append(box, m), seen) /\ LastNamed(Append(box, m), seen, seat)
<1> DEFINE new == Append(box, m)
<1>1. /\ new \in Seq(Said) /\ Len(box) \in Nat /\ Len(new) = Len(box) + 1
      /\ \A i \in 1 .. Len(box) : new[i] = box[i]
      /\ new[Len(box) + 1] = m
  OBVIOUS
<1> HIDE DEF new
<1>2. Ordered(new, seen)  BY <1>1 DEF Ordered, Names
<1>3. LastNamed(new, seen, seat)  BY <1>1 DEF LastNamed
<1> QED  BY <1>1, <1>2, <1>3 DEF new

\* The end of a turn names the next seat, its start names it again.
LEMMA SaysTurn ==
    ASSUME NEW box \in Seq(Said), NEW seen, NEW old, NEW seat \in Int,
           Ordered(box, seen), LastNamed(box, seen, old)
    PROVE  LET new == box \o <<Message("TURN_END", seat), Message("TURN_START", seat)>>
           IN  new \in Seq(Said) /\ Ordered(new, seen) /\ LastNamed(new, seen, seat)
<1> DEFINE end == Message("TURN_END", seat)
           start == Message("TURN_START", seat)
           new == box \o <<end, start>>
<1>1. end \in Said /\ start \in Said  BY DEF Message, Said, Types
<1>2. end.type = "TURN_END" /\ end.seat = seat /\ start.type = "TURN_START" /\ start.seat = seat
  BY DEF Message
<1> HIDE DEF end, start
<1>3. /\ new \in Seq(Said) /\ Len(box) \in Nat /\ Len(new) = Len(box) + 2
      /\ \A i \in 1 .. Len(box) : new[i] = box[i]
      /\ new[Len(box) + 1] = end /\ new[Len(box) + 2] = start
  BY <1>1
<1> HIDE DEF new
<1>4. Ordered(new, seen)
  <2> SUFFICES ASSUME NEW i \in 1 .. Len(new)
               PROVE  /\ new[i].type = "GAME_STATE" =>
                            seen = Unseated /\ \A j \in 1 .. i - 1 : ~ Names(new[j])
                      /\ new[i].type = "TURN_START" =>
                            \/ i = 1 /\ seen = new[i].seat
                            \/ /\ i > 1 /\ new[i - 1].seat = new[i].seat
                               /\ new[i - 1].type \in {"GAME_STATE", "TURN_END"}
    BY DEF Ordered
  <2>1. CASE i \in 1 .. Len(box)
    <3>1. i > 1 => i - 1 \in 1 .. Len(box)  BY <1>3, <2>1
    <3> QED  BY <1>3, <2>1, <3>1 DEF Ordered
  <2>2. CASE i = Len(box) + 1  BY <1>2, <1>3, <2>2
  <2>3. CASE i = Len(box) + 2
    <3>1. i > 1 /\ i - 1 = Len(box) + 1  BY <1>3, <2>3
    <3> QED  BY <1>2, <1>3, <2>3, <3>1
  <2> QED  BY <1>3, <2>1, <2>2, <2>3
<1>5. LastNamed(new, seen, seat)
  <2>1. Len(box) + 2 \in 1 .. Len(new) /\ \A j \in (Len(box) + 2) + 1 .. Len(new) : FALSE
    BY <1>3
  <2>2. Names(new[Len(box) + 2]) /\ new[Len(box) + 2].seat = seat  BY <1>2, <1>3 DEF Names
  <2> QED  BY <2>1, <2>2 DEF LastNamed
<1> QED  BY <1>3, <1>4, <1>5 DEF new, end, start

\* The script reads the first message.
LEMMA Reads ==
    ASSUME NEW box \in Seq(Said), box # <<>>, NEW seen, NEW seat,
           Ordered(box, seen), LastNamed(box, seen, seat)
    PROVE  LET after == IF Names(box[1]) THEN box[1].seat ELSE seen
           IN  Ordered(Tail(box), after) /\ LastNamed(Tail(box), after, seat)
<1> DEFINE new == Tail(box)
           after == IF Names(box[1]) THEN box[1].seat ELSE seen
<1>1. /\ Len(box) \in Nat \ {0} /\ Len(new) = Len(box) - 1
      /\ \A i \in 1 .. Len(new) : new[i] = box[i + 1] /\ i + 1 \in 1 .. Len(box)
  OBVIOUS
<1>2. 1 \in 1 .. Len(box) /\ (Names(box[1]) => after = box[1].seat)
      /\ (~ Names(box[1]) => after = seen)
  BY <1>1
<1> HIDE DEF new, after
<1>3. Ordered(new, after)
  <2> SUFFICES ASSUME NEW i \in 1 .. Len(new)
               PROVE  /\ new[i].type = "GAME_STATE" =>
                            after = Unseated /\ \A j \in 1 .. i - 1 : ~ Names(new[j])
                      /\ new[i].type = "TURN_START" =>
                            \/ i = 1 /\ after = new[i].seat
                            \/ /\ i > 1 /\ new[i - 1].seat = new[i].seat
                               /\ new[i - 1].type \in {"GAME_STATE", "TURN_END"}
    BY DEF Ordered
  <2>1. new[i] = box[i + 1] /\ i + 1 \in 1 .. Len(box) /\ i + 1 > 1 /\ (i + 1) - 1 = i
    BY <1>1
  <2>2. ASSUME new[i].type = "GAME_STATE"
        PROVE  after = Unseated /\ \A j \in 1 .. i - 1 : ~ Names(new[j])
    <3>1. seen = Unseated /\ \A j \in 1 .. i : ~ Names(box[j])
      BY <2>1, <2>2 DEF Ordered
    <3>2. \A j \in 1 .. i - 1 : new[j] = box[j + 1] /\ j + 1 \in 1 .. i
      BY <1>1
    <3>3. 1 \in 1 .. i  OBVIOUS
    <3> QED  BY <1>2, <3>1, <3>2, <3>3
  <2>3. ASSUME new[i].type = "TURN_START"
        PROVE  \/ i = 1 /\ after = new[i].seat
               \/ /\ i > 1 /\ new[i - 1].seat = new[i].seat
                  /\ new[i - 1].type \in {"GAME_STATE", "TURN_END"}
    <3>1. box[i].seat = new[i].seat /\ box[i].type \in {"GAME_STATE", "TURN_END"}
      BY <2>1, <2>3 DEF Ordered
    <3>2. CASE i = 1  BY <1>2, <3>1, <3>2 DEF Names
    <3>3. CASE i # 1
      <4>1. i > 1 /\ i - 1 \in 1 .. Len(new) /\ (i - 1) + 1 = i  BY <1>1, <3>3
      <4>2. new[i - 1] = box[i]  BY <1>1, <4>1
      <4> QED  BY <3>1, <4>1, <4>2
    <3> QED  BY <3>2, <3>3
  <2> QED  BY <2>2, <2>3
<1>4. LastNamed(new, after, seat)
  <2>1. CASE seen = seat /\ \A i \in 1 .. Len(box) : ~ Names(box[i])
    BY <1>1, <1>2, <2>1 DEF LastNamed
  <2>2. ASSUME NEW i \in 1 .. Len(box), Names(box[i]), box[i].seat = seat,
               \A j \in i + 1 .. Len(box) : ~ Names(box[j])
        PROVE  LastNamed(new, after, seat)
    <3>1. CASE i = 1
      <4>1. \A j \in 1 .. Len(new) : ~ Names(new[j])  BY <1>1, <2>2, <3>1
      <4>2. after = seat  BY <1>2, <2>2, <3>1
      <4> QED  BY <4>1, <4>2 DEF LastNamed
    <3>2. CASE i # 1
      <4>1. i - 1 \in 1 .. Len(new) /\ new[i - 1] = box[i]
        <5>1. i - 1 \in 1 .. Len(new) /\ (i - 1) + 1 = i  BY <1>1, <3>2
        <5> QED  BY <1>1, <5>1
      <4>2. \A j \in (i - 1) + 1 .. Len(new) : ~ Names(new[j])  BY <1>1, <2>2
      <4> QED  BY <2>2, <4>1, <4>2 DEF LastNamed
    <3> QED  BY <3>1, <3>2
  <2> QED  BY <2>1, <2>2 DEF LastNamed
<1> QED  BY <1>3, <1>4 DEF new, after

\* What a step of the script alone leaves as it is.
LEMMA ScriptLeaves ==
    ASSUME Script
    PROVE  /\ pc' # "setup"
           /\ Connect \/ UNCHANGED <<game, inbox, connected, view>>
<1>1. CASE SetUp
  BY <1>1 DEF SetUp, Connect, Authenticated, SeesGame, SetupFails, FirstTurnKnown,
      TheyPlayFirst, TheyPlayedFirst, TheyNeverPlay, Await, Goto, Quiet, server,
      Fail, Finish
<1>2. CASE \/ StopPlaying \/ TheirTurn \/ TheyAnswer \/ TheyDoNotAnswer \/ TurnCounted
  BY <1>2 DEF StopPlaying, TheirTurn, TheyAnswer, TheyDoNotAnswer, TurnCounted,
      CountTurn, Await, Goto, Quiet, server
<1>3. CASE Draw \/ Confirm \/ Verdict \/ NoVerdict \/ DrawnAndEnded
  BY <1>3 DEF Draw, Confirm, Verdict, NoVerdict, DrawnAndEnded, OverOr, Send,
      Await, Goto, Quiet, server, Fail, Finish
<1>4. CASE Refusal
  BY <1>4 DEF Refusal, Invalid, AfterRefusal, DrawnAfterRefusal, RoundAfterRefusal,
      FakeTiles, FakeTilesAnswered, SendFails, Send, Await, Goto, Quiet, server,
      Fail, Finish
<1>5. CASE Report
  BY <1>5 DEF Report, Finish, Quiet, server
<1> QED  BY <1>1, <1>2, <1>3, <1>4, <1>5 DEF Script, Play

\* One message more, as the broadcasts write it.
LEMMA OneMore ==
    ASSUME NEW box \in Seq(Said), NEW m
    PROVE  box \o <<m>> = Append(box, m)
  OBVIOUS

\* A turn that ends, or a game: what everybody is told names the new seat.
LEMMA TurnEndsTold ==
    ASSUME ScriptInv, pc # "setup", pc' = pc, UNCHANGED <<connected, view>>,
           NEW before \in {<<>>, <<Message("TILE_DRAWN", Unseated)>>},
           NEW ends, NEW surplus, NEW rack, TurnEnds(before, ends, surplus, rack)
    PROVE  ScriptInv'
<1> USE DEF ScriptInv, ScriptTypes, Told
<1>1. NextSeat \in Int  BY SeatsCount DEF NextSeat
<1>2. game'.seat = (IF ends THEN game.seat ELSE NextSeat) /\ "seat" \in DOMAIN game'
  BY DEF TurnEnds
<1>3. /\ Message("TILE_DRAWN", Unseated) \in Said
      /\ ~ Names(Message("TILE_DRAWN", Unseated))
      /\ Message("GAME_OVER", Unseated) \in Said
      /\ ~ Names(Message("GAME_OVER", Unseated))
  BY DEF Message, Said, Types, Names, Unseated
<1>4. CASE ~ connected
  BY <1>1, <1>2, <1>4 DEF TurnEnds, Broadcast
<1>5. CASE connected /\ ends
  <2>1. inbox' = Append(inbox, Message("GAME_OVER", Unseated))
    <3>1. inbox' = inbox \o <<Message("GAME_OVER", Unseated)>>
      BY <1>5 DEF TurnEnds, Broadcast
    <3> QED  BY <3>1, OneMore
  <2>2. game'.seat = game.seat  BY <1>2, <1>5
  <2> QED  BY <1>2, <1>3, <1>5, <2>1, <2>2, SaysNothing
<1>6. CASE connected /\ ~ ends
  <2> DEFINE said == inbox \o before
             turn == <<Message("TURN_END", NextSeat), Message("TURN_START", NextSeat)>>
  <2>1. said = inbox \/ said = Append(inbox, Message("TILE_DRAWN", Unseated))
    <3>1. inbox \o <<>> = inbox  BY ConcatEmptySeq
    <3> QED  BY <3>1, OneMore
  <2>2. said \in Seq(Said) /\ Ordered(said, view.seat) /\ LastNamed(said, view.seat, game.seat)
    BY <1>3, <1>6, <2>1, SaysNothing
  <2>3. inbox' = said \o turn
    <3>1. inbox' = inbox \o (before \o turn)
      BY <1>6 DEF TurnEnds, Broadcast, TurnPasses
    <3>2. Message("TURN_END", NextSeat) \in Said /\ Message("TURN_START", NextSeat) \in Said
      BY <1>1 DEF Message, Said, Types
    <3>3. turn \in Seq(Said)
      <4> HIDE DEF ScriptInv, ScriptTypes, Told
      <4> QED  BY <3>2
    <3>4. before \in Seq(Said) /\ inbox \in Seq(Said)
      <4>1. inbox \in Seq(Said)  OBVIOUS
      <4> HIDE DEF ScriptInv, ScriptTypes, Told
      <4>2. <<>> \in Seq(Said) /\ <<Message("TILE_DRAWN", Unseated)>> \in Seq(Said)  BY <1>3
      <4> QED  BY <4>1, <4>2
    <3>5. inbox' = (inbox \o before) \o turn
      <4> HIDE DEF turn, ScriptInv, ScriptTypes, Told
      <4> QED  BY <3>1, <3>3, <3>4, ConcatAssociative
    <3> QED  BY <3>5
  <2>4. game'.seat = NextSeat  BY <1>2, <1>6
  <2> HIDE DEF said
  <2>5. /\ said \o turn \in Seq(Said) /\ Ordered(said \o turn, view.seat)
        /\ LastNamed(said \o turn, view.seat, NextSeat)
    BY <1>1, <2>2, SaysTurn
  <2> QED  BY <1>1, <1>2, <1>6, <2>3, <2>4, <2>5
<1> QED  BY <1>4, <1>5, <1>6

\* Every step of the server, the network and the script keeps what was told true.
LEMMA ScriptSteps ==
    ASSUME ScriptInv, [ScriptNext]_playtest
    PROVE  ScriptInv'
<1> USE DEF ScriptInv, ScriptTypes
<1>1. CASE LLMPlays
  <2>1. PICK before \in {<<>>, <<Message("TILE_DRAWN", Unseated)>>},
             ends \in BOOLEAN, invents \in BOOLEAN :
            TurnEnds(before, ends, invents, game.rack)
    BY <1>1 DEF LLMPlays
  <2>2. UNCHANGED <<pc, outbox, connected, view>>  BY <1>1 DEF LLMPlays, client
  <2>3. CASE pc # "setup"  BY <2>1, <2>2, <2>3, TurnEndsTold
  <2>4. CASE pc = "setup"
    <3>1. inbox' = inbox  BY <2>1, <2>2, <2>4 DEF TurnEnds, Broadcast
    <3>2. game'.seat \in Int /\ "seat" \in DOMAIN game'
      <4>1. NextSeat \in Int  BY SeatsCount DEF NextSeat
      <4> QED  BY <2>1, <4>1 DEF TurnEnds
    <3> QED  BY <2>2, <2>4, <3>1, <3>2
  <2> QED  BY <2>3, <2>4
<1>2. CASE ServerHandles
  <2>1. UNCHANGED <<pc, connected, view>>  BY <1>2 DEF ServerHandles, client
  <2>2. CASE Broadcast(<<Message("ERROR", Unseated)>>) /\ UNCHANGED game
    <3>1. Message("ERROR", Unseated) \in Said /\ ~ Names(Message("ERROR", Unseated))
      BY DEF Message, Said, Types, Names, Unseated
    <3>2. inbox' = IF connected THEN Append(inbox, Message("ERROR", Unseated)) ELSE inbox
      BY <2>2, OneMore DEF Broadcast
    <3>3. pc # "setup"  BY <1>2 DEF ServerHandles
    <3> QED  BY <2>1, <2>2, <3>1, <3>2, <3>3, SaysNothing DEF Told
  <2>3. ASSUME NEW before \in {<<>>, <<Message("TILE_DRAWN", Unseated)>>},
               NEW ends \in BOOLEAN, NEW rack, TurnEnds(before, ends, FALSE, rack)
        PROVE  ScriptInv'
    BY <1>2, <2>1, <2>3, TurnEndsTold DEF ServerHandles
  <2>4. CASE ~ (game.over \/ game.seat # Me)
    <3> DEFINE m == Head(outbox)
               before == IF m = "draw" THEN <<Message("TILE_DRAWN", Unseated)>> ELSE <<>>
               rack == game.rack + IF m = "illegal" THEN 3 ELSE 1
    <3>1. PICK ends \in BOOLEAN : TurnEnds(before, ends, FALSE, rack)
      BY <1>2, <2>4 DEF ServerHandles
    <3>2. before \in {<<>>, <<Message("TILE_DRAWN", Unseated)>>}  OBVIOUS
    <3> HIDE DEF before, rack
    <3> QED  BY <2>3, <3>1, <3>2
  <2> QED  BY <1>2, <2>2, <2>4 DEF ServerHandles
<1>3. CASE ConnectionDrops
  BY <1>3 DEF ConnectionDrops, client
<1>4. CASE Deliver
  <2>1. inbox # <<>> /\ connected /\ pc # "setup"  BY <1>4 DEF Deliver
  <2>2. /\ inbox' = Tail(inbox) /\ UNCHANGED <<game, outbox, connected, pc>>
        /\ view'.seat = IF Names(inbox[1]) THEN inbox[1].seat ELSE view.seat
    BY <1>4 DEF Deliver, ProcessMessage, SeatAfter, Names
  <2>3. Tail(inbox) \in Seq(Said)  BY <2>1
  <2> QED  BY <2>1, <2>2, <2>3, Reads DEF Told
<1>5. CASE Script
  <2>1. CASE Connect
    <3>1. /\ inbox' = <<Message("AUTH_OK", Unseated), Message("GAME_STATE", game.seat),
                        Message("TURN_START", game.seat)>>
          /\ view' = view /\ game' = game /\ connected' = TRUE
          /\ view.seat = Unseated /\ pc' # "setup"
      BY <1>5, <2>1 DEF Connect, Quiet, Await
    <3>2. inbox' \in Seq(Said)
      BY <3>1 DEF Message, Said, Types, Unseated
    <3>3. Ordered(inbox', view.seat) /\ LastNamed(inbox', view.seat, game.seat)
      BY <3>1 DEF Ordered, LastNamed, Names, Message
    <3> QED  BY <3>1, <3>2, <3>3 DEF Told
  <2>2. CASE ~ Connect
    BY <1>5, <2>2, ScriptLeaves DEF Told
  <2> QED  BY <2>1, <2>2
<1>6. CASE UNCHANGED playtest
  BY <1>6 DEF playtest, server, client, Told
<1> QED  BY <1>1, <1>2, <1>3, <1>4, <1>5, <1>6 DEF ScriptNext

\* The console leaves the script alone.
LEMMA ScriptStands ==
    ASSUME ScriptInv, [MCNext]_all
    PROVE  ScriptInv'
<1>1. CASE Scripted(ScriptNext)  BY <1>1, ScriptSteps DEF Scripted
<1>2. CASE UNCHANGED playtest  BY <1>2, ScriptSteps
<1> QED  BY <1>1, <1>2 DEF MCNext, all

\* The inductive invariant of a script: at every moment, for every scenario and
\* every behavior of the server and the network, the last message that names a
\* seat, read or on its way, names the one at turn (processMessage).
THEOREM ScriptInvariance == MCSpec => []ScriptInv
<1>1. ScriptInv /\ [MCNext]_all => ScriptInv'  BY ScriptStands
<1> QED  BY <1>1, ScriptStarts, PTL DEF MCSpec

\* A script that takes itself to be at turn is, or the end of its turn is on the
\* way to it: behind a TURN_START of another seat, which PlaysInItsTurn does not
\* count, there is always the TURN_END that named it first.
THEOREM ScriptKnowsItsTurn == MCSpec => []PlaysInItsTurn
<1>1. ScriptInv => PlaysInItsTurn
  <2> SUFFICES ASSUME ScriptInv, view.seat = Me, game.seat # Me, connected
               PROVE  \E i \in 1 .. Len(inbox) : inbox[i].type = "TURN_END" /\ inbox[i].seat # Me
    BY DEF PlaysInItsTurn
  <2>1. Ordered(inbox, view.seat) /\ LastNamed(inbox, view.seat, game.seat)
    BY DEF ScriptInv, Told
  <2>2. \A i \in 1 .. Len(inbox) : inbox[i].type # "GAME_STATE"
    BY <2>1 DEF Ordered, Me, Unseated
  <2>3. PICK i \in 1 .. Len(inbox) : Names(inbox[i]) /\ inbox[i].seat = game.seat
    BY <2>1 DEF LastNamed
  <2>4. CASE inbox[i].type = "TURN_END"  BY <2>3, <2>4
  <2>5. CASE inbox[i].type = "TURN_START"
    <3>1. i > 1 /\ inbox[i - 1].seat = game.seat /\ inbox[i - 1].type \in {"GAME_STATE", "TURN_END"}
      BY <2>1, <2>3, <2>5 DEF Ordered
    <3>2. i - 1 \in 1 .. Len(inbox)  BY <2>3, <3>1 DEF ScriptInv, ScriptTypes
    <3> QED  BY <2>2, <3>1, <3>2
  <2> QED  BY <2>2, <2>3, <2>4, <2>5 DEF Names
<1> QED  BY <1>1, ScriptInvariance, PTL

-----------------------------------------------------------------------------
(* What a pass is worth *)

\* Nobody refuses a move by INVALID_MOVE, so S3 never sees its refusal.
NothingRefused == (pc = "refusal" => ~ woken) /\ "refused" \notin checks

\* No message of the list answers the wait for a refusal.
LEMMA RefusalNotKept == Kept("refusal") = {} /\ WaitsFor("refusal") = {"INVALID_MOVE"}
<1>1. WaitsFor("refusal") = {"INVALID_MOVE"}  BY Zenon DEF WaitsFor
<1> QED  BY <1>1 DEF Kept, Waited

\* What AfterRefusal notes of the refusal is that the wait for it was answered.
LEMMA RefusalUnseen ==
    ASSUME AfterRefusal, ~ woken
    PROVE  "refused" \notin checks'
<1>1. (CASE "refused" = "refused" -> woken
         [] "refused" = "restored" -> game.rack = move.rack
         [] "refused" = "still_mine" -> game.seat = Me) = woken
  BY Zenon
<1> QED  BY <1>1, Zenon DEF AfterRefusal

\* No step wakes the script by a refusal.
LEMMA NothingRefusedStands ==
    ASSUME NothingRefused, ScriptInv, [ScriptNext]_playtest
    PROVE  NothingRefused'
<1> USE DEF NothingRefused
<1>1. \A ok : "refused" \notin Seen(ok)  BY DEF Seen
<1>2. ASSUME NEW p, Await(p)  PROVE pc' = "refusal" => ~ woken'
  BY <1>2, RefusalNotKept DEF Await
<1>3. ASSUME NEW p, Goto(p)  PROVE ~ woken'
  BY <1>3 DEF Goto
<1>4. ASSUME Fail  PROVE NothingRefused'
  BY <1>4 DEF Fail, Finish
<1>5. ASSUME NEW p, OverOr(p)  PROVE pc' = "refusal" => ~ woken'
  BY <1>2, <1>3, <1>5 DEF OverOr
<1>6. CASE LLMPlays \/ ServerHandles \/ ConnectionDrops \/ UNCHANGED playtest
  <2>1. UNCHANGED <<pc, woken, checks>>
    <3>1. CASE LLMPlays  BY <3>1 DEF LLMPlays, report
    <3>2. CASE ServerHandles  BY <3>2 DEF ServerHandles, report
    <3>3. CASE ConnectionDrops  BY <3>3 DEF ConnectionDrops, report
    <3>4. CASE UNCHANGED playtest  BY <3>4 DEF playtest, report
    <3> QED  BY <1>6, <3>1, <3>2, <3>3, <3>4
  <2> QED  BY <2>1
<1>7. CASE Deliver
  <2>1. Head(inbox) \in Said  BY <1>7 DEF Deliver, ScriptInv, ScriptTypes
  <2>2. Head(inbox).type # "INVALID_MOVE"  BY <2>1 DEF Said, Types
  <2> QED  BY <1>7, <2>2, RefusalNotKept DEF Deliver, report
<1>8. CASE SetUp
  <2>1. CASE SeesGame  BY <1>1, <1>2, <2>1 DEF SeesGame, FirstCount
  <2>2. CASE \/ Connect \/ Authenticated \/ FirstTurnKnown
             \/ TheyPlayFirst \/ TheyPlayedFirst
    BY <1>2, <1>3, <2>2
    DEF Connect, Authenticated, FirstTurnKnown, TheyPlayFirst, TheyPlayedFirst, report
  <2> QED  BY <1>4, <1>8, <2>1, <2>2 DEF SetUp, SetupFails, TheyNeverPlay
<1>9. CASE Play
  <2>1. CASE StopPlaying  BY <1>3, <2>1 DEF StopPlaying
  <2>2. CASE TurnCounted  BY <1>1, <1>3, <2>2 DEF TurnCounted, CountTurn
  <2>3. CASE TheirTurn \/ TheyAnswer \/ TheyDoNotAnswer \/ Draw \/ Confirm
    BY <1>2, <1>3, <2>3
    DEF TheirTurn, TheyAnswer, TheyDoNotAnswer, Draw, Confirm, report
  <2>4. CASE Verdict \/ DrawnAndEnded
    BY <1>2, <1>5, <2>4 DEF Verdict, DrawnAndEnded, report
  <2> QED  BY <1>4, <1>9, <2>1, <2>2, <2>3, <2>4 DEF Play, NoVerdict
<1>10. CASE Refusal
  <2>1. CASE AfterRefusal
    <3>1. ~ woken  BY <2>1 DEF AfterRefusal, Passes, Resumes, TimesOut
    <3> QED  BY <1>2, <2>1, <3>1, RefusalUnseen DEF AfterRefusal
  <2>2. CASE Invalid \/ RoundAfterRefusal \/ FakeTiles \/ FakeTilesAnswered
    BY <1>2, <1>3, <2>2
    DEF Invalid, RoundAfterRefusal, FakeTiles, FakeTilesAnswered, report
  <2>3. CASE DrawnAfterRefusal  BY <1>2, <1>3, <2>3 DEF DrawnAfterRefusal
  <2> QED  BY <1>4, <1>10, <2>1, <2>2, <2>3 DEF Refusal, SendFails
<1>11. CASE Report  BY <1>11 DEF Report, Finish
<1> QED  BY <1>6, <1>7, <1>8, <1>9, <1>10, <1>11 DEF ScriptNext, Script

\* A verdict is given at the end only, and a failure is no pass.
LEMMA VerdictAtTheEnd ==
    ASSUME [ScriptNext]_playtest, ~ Report, status' # status
    PROVE  status' = "FAIL"
<1>1. ~ (LLMPlays \/ ServerHandles \/ ConnectionDrops \/ Deliver \/ UNCHANGED playtest)
  BY DEF LLMPlays, ServerHandles, ConnectionDrops, Deliver, report, playtest
<1>2. CASE SetUp
  BY <1>2 DEF SetUp, Connect, Authenticated, SeesGame, SetupFails, FirstTurnKnown,
      TheyPlayFirst, TheyPlayedFirst, TheyNeverPlay, report, Fail, Finish
<1>3. CASE Play
  BY <1>3 DEF Play, StopPlaying, TheirTurn, TheyAnswer, TheyDoNotAnswer, TurnCounted,
      Draw, Confirm, Verdict, NoVerdict, DrawnAndEnded, report, Fail, Finish
<1>4. CASE Refusal
  BY <1>4 DEF Refusal, Invalid, AfterRefusal, DrawnAfterRefusal, RoundAfterRefusal,
      FakeTiles, FakeTilesAnswered, SendFails, report, Fail, Finish
<1> QED  BY <1>1, <1>2, <1>3, <1>4 DEF ScriptNext, Script

\* A script that passes has seen what it claims, and S3 cannot pass.
LEMMA PassedIsEarned ==
    ASSUME NothingRefused, NEW counted, Passed(counted)
    PROVE  /\ scenario # "S3"
           /\ scenario \in {"S4", "S5"} => ~ game.surplus
<1>1. scenario # "S3"
  <2> SUFFICES ASSUME scenario = "S3"  PROVE FALSE
    OBVIOUS
  <2>1. PassedS3  BY Zenon DEF Passed
  <2> QED  BY <2>1 DEF PassedS3, NothingRefused
<1>2. ASSUME scenario = "S4"  PROVE ~ game.surplus
  <2>1. PassedS4(counted)  BY <1>2, Zenon DEF Passed
  <2> QED  BY <2>1 DEF PassedS4, Seen
<1>3. ASSUME scenario = "S5"  PROVE ~ game.surplus
  <2>1. PassedS5(counted)  BY <1>3, Zenon DEF Passed
  <2> QED  BY <2>1 DEF PassedS5, Seen
<1> QED  BY <1>1, <1>2, <1>3

\* A script that passes has seen what it claims: no S4 or S5 passes over a tile
\* too many, and S3, whose refusal the server never sends, does not pass at all
\* (the report of runS3, runS4 and runS5).
THEOREM PassesAreEarned == MCSpec => PassIsEarned
<1>1. MCInit => NothingRefused  BY DEF MCInit, ScriptInit, NothingRefused
<1>2. NothingRefused /\ ScriptInv /\ [MCNext]_all => NothingRefused'
  BY NothingRefusedStands DEF MCNext, all, Scripted
<1>3. NothingRefused /\ [ScriptNext]_playtest =>
        [status' = "PASS" /\ status # "PASS" =>
            /\ scenario # "S3"
            /\ scenario \in {"S4", "S5"} => ~ game.surplus]_playtest
  <2> SUFFICES ASSUME NothingRefused, [ScriptNext]_playtest, status' = "PASS", status # "PASS"
               PROVE  /\ scenario # "S3"
                      /\ scenario \in {"S4", "S5"} => ~ game.surplus
    OBVIOUS
  <2>1. Report  BY VerdictAtTheEnd
  <2>2. PICK counted \in BOOLEAN :
            Finish(IF Passed(counted) THEN "PASS"
                   ELSE IF scenario = "S5" /\ PartlyS5(counted) THEN "PARTIAL" ELSE "FAIL")
    BY <2>1 DEF Report
  <2>3. Passed(counted)  BY <2>2 DEF Finish
  <2> QED  BY <2>3, PassedIsEarned
<1>4. [MCNext]_all => [ScriptNext]_playtest  BY DEF MCNext, all, Scripted
<1> QED  BY <1>1, <1>2, <1>3, <1>4, ScriptInvariance, PTL DEF MCSpec, PassIsEarned

-----------------------------------------------------------------------------
(* The console: its runs and their history *)

\* The latest of what was written down, the last one first.
Room(n)       == IF n > MAX_HISTORY THEN MAX_HISTORY ELSE n
Latest(done) == [i \in 1 .. Room(Len(done)) |-> done[Len(done) + 1 - i]]

\* Writing a run down makes of the latest the latest again.
LEMMA ExtendedIsLatest ==
    ASSUME NEW done \in Seq(Runs), NEW r \in Runs
    PROVE  Extended(Latest(done), r) = Latest(Append(done, r))
<1> DEFINE old == Latest(done)
           full == <<r>> \o old
           more == Append(done, r)
<1>1. /\ Len(done) \in Nat /\ Room(Len(done)) \in Nat
      /\ old \in Seq(Runs) /\ Len(old) = Room(Len(done))
  BY ConsoleAssumption DEF Room, Latest
<1>2. /\ Len(more) = Len(done) + 1 /\ more[Len(done) + 1] = r
      /\ \A i \in 1 .. Len(done) : more[i] = done[i]
  OBVIOUS
<1>3. \A i \in 1 .. Len(old) : old[i] = done[Len(done) + 1 - i]
  BY <1>1 DEF Latest
<1> HIDE DEF old, more
<1>4. /\ full \in Seq(Runs) /\ Len(full) = Len(old) + 1 /\ full[1] = r
      /\ \A i \in 1 .. Len(old) : full[i + 1] = old[i]
  BY <1>1
<1> DEFINE n == IF Len(full) > MAX_HISTORY THEN MAX_HISTORY ELSE Len(full)
<1>5. n = Room(Len(more)) /\ n \in Nat /\ n <= Len(full)
  BY <1>1, <1>2, <1>4, ConsoleAssumption DEF Room
<1> HIDE DEF full
<1>6. ASSUME NEW i \in 1 .. n  PROVE full[i] = more[Len(more) + 1 - i]
  <2>1. CASE i = 1  BY <1>1, <1>2, <1>4, <2>1
  <2>2. CASE i # 1
    <3>1. i - 1 \in 1 .. Len(old) /\ (i - 1) + 1 = i  BY <1>1, <1>4, <1>5, <2>2
    <3>2. full[i] = done[Len(done) + 1 - (i - 1)]  BY <1>3, <1>4, <3>1
    <3>3. Len(more) + 1 - i = Len(done) + 1 - (i - 1) /\ Len(more) + 1 - i \in 1 .. Len(done)
      BY <1>1, <1>2, <1>5, <3>1, <2>2, ConsoleAssumption DEF Room
    <3> QED  BY <1>2, <3>2, <3>3
  <2> QED  BY <2>1, <2>2
<1>7. SubSeq(full, 1, n) = [i \in 1 .. n |-> full[i]]
  <2>1. SubSeq(full, 1, n) = [i \in 1 .. (1 + n - 1) |-> full[i + 1 - 1]]
    BY <1>4, <1>5 
  <2> QED  BY <1>4, <1>5, <2>1
<1>8. SubSeq(full, 1, n) = [i \in 1 .. Room(Len(more)) |-> more[Len(more) + 1 - i]]
  BY <1>5, <1>6, <1>7
<1>9. Extended(old, r) = SubSeq(full, 1, n)
  BY DEF Extended, full, n
<1> QED  BY <1>8, <1>9 DEF Latest, old, more

\* A run, and what its route has come to.
RunNumbers == Runs \cup {NoRun}
RunRecord  ==
    [at : {"none", "asked", "ran", "read", "torn", "answered"}, tab : Tabs \cup {"none"},
     scenario : ScenarioIds \cup {"none"}, status : {"none", "ERROR", "PASS", "FAIL"},
     entries : Seq(Runs)]
TabRecord ==
    [scenario : ScenarioIds, running : RunNumbers, result : RunNumbers, error : BOOLEAN]

ConsoleTypes ==
    /\ page \in [Tabs -> TabRecord] /\ route \in [Runs -> RunRecord]
    /\ file \in Seq(Runs) /\ recorded \in Seq(Runs)
    /\ torn \in BOOLEAN /\ overlapped \in BOOLEAN

Judged(run) ==
    /\ run.at \in {"ran", "read", "torn"} => run.status \in {"PASS", "FAIL"}
    /\ run.at = "answered" => run.status \in {"ERROR", "PASS", "FAIL"}

\* Runs are numbered as they start, and end with a verdict or an error.
RunsInOrder ==
    \A r \in Runs :
        /\ Judged(route[r])
        /\ route[r] # NotYet => \A q \in Runs : q < r => route[q] # NotYet

\* What a tab waits for, or shows, is the last run it started.
LastOf(t, r) == \A q \in Started(t) : q <= r
TabsInOrder ==
    \A t \in Tabs :
        /\ page[t].running # NoRun =>
              page[t].result = NoRun /\ ~ page[t].error /\ LastOf(t, page[t].running)
        /\ page[t].result # NoRun =>
              /\ ~ page[t].error /\ LastOf(t, page[t].result)
              /\ route[page[t].result].at = "answered"
              /\ route[page[t].result].status \in {"PASS", "FAIL"}

\* One route at a time has the history open; what it read, or what the file
\* holds, are the latest runs written down.
OneAtHistory ==
    /\ \A q, r \in Runs : AtHistory(q) /\ AtHistory(r) => q = r
    /\ torn <=> \E r \in Runs : route[r].at = "torn"
HistoryIsLatest ==
    /\ ~ torn => file = Latest(recorded)
    /\ \A r \in Runs : AtHistory(r) => route[r].entries = Latest(recorded)

ConsoleInv ==
    /\ ConsoleTypes /\ RunsInOrder /\ TabsInOrder
    /\ ~ overlapped => OneAtHistory /\ HistoryIsLatest

\* A run that has not started is nowhere and of no tab.
LEMMA NotYetIsARun ==
    /\ NotYet \in RunRecord /\ Judged(NotYet)
    /\ NotYet.at = "none" /\ NotYet.tab = "none"
<1>1. <<>> \in Seq(Runs)  OBVIOUS
<1> QED  BY <1>1 DEF NotYet, RunRecord, Judged

\* The console begins with no run and an empty file.
LEMMA ConsoleStarts ==
    ASSUME ConsoleInit
    PROVE  ConsoleInv
<1> USE DEF ConsoleInit
<1>1. PICK s \in ScenarioIds :
          page = [t \in Tabs |-> [scenario |-> s, running |-> NoRun, result |-> NoRun,
                                  error |-> FALSE]]
  BY DEF NoRun
<1>2. \A r \in Runs : route[r] = NotYet  OBVIOUS
<1>3. ConsoleTypes
  <2>1. page \in [Tabs -> TabRecord]  BY <1>1 DEF TabRecord, RunNumbers
  <2>2. route \in [Runs -> RunRecord]  BY NotYetIsARun
  <2>3. <<>> \in Seq(Runs)  OBVIOUS
  <2>4. file = <<>> /\ recorded = <<>> /\ torn = FALSE /\ overlapped = FALSE  OBVIOUS
  <2> HIDE DEF ConsoleInit
  <2> QED  BY <2>1, <2>2, <2>3, <2>4 DEF ConsoleTypes
<1>4. RunsInOrder  BY <1>2, NotYetIsARun DEF RunsInOrder
<1>5. TabsInOrder  BY <1>1 DEF TabsInOrder
<1>6. OneAtHistory  BY <1>2, NotYetIsARun DEF OneAtHistory, AtHistory
<1>7. HistoryIsLatest
  <2>1. Latest(<<>>) = <<>>
    <3>1. Len(<<>>) = 0 /\ Room(0) = 0  BY ConsoleAssumption DEF Room
    <3>2. Latest(<<>>) = [i \in 1 .. 0 |-> <<>>[Len(<<>>) + 1 - i]]  BY <3>1 DEF Latest
    <3> QED  BY <3>2
  <2> QED  BY <1>2, <2>1, NotYetIsARun DEF HistoryIsLatest, AtHistory
<1> QED  BY <1>3, <1>4, <1>5, <1>6, <1>7 DEF ConsoleInv

\* A route goes on: the runs and the tabs stay in order.
LEMMA RunGoes ==
    ASSUME ConsoleTypes, RunsInOrder, TabsInOrder, NEW r \in Runs, NEW next \in RunRecord,
           route[r].at \notin {"none", "answered"}, Goes(r, next), UNCHANGED page,
           Judged(next), next.at # "none", next.tab = route[r].tab
    PROVE  /\ route' \in [Runs -> RunRecord] /\ RunsInOrder' /\ TabsInOrder'
           /\ route'[r] = next /\ \A q \in Runs : q # r => route'[q] = route[q]
<1>1. /\ route' \in [Runs -> RunRecord] /\ route'[r] = next
      /\ \A q \in Runs : q # r => route'[q] = route[q]
  BY DEF Goes, ConsoleTypes
<1>2. \A q \in Runs : route'[q] # NotYet <=> route[q] # NotYet
  BY <1>1, NotYetIsARun
<1>3. RunsInOrder'  BY <1>1, <1>2 DEF RunsInOrder, Judged
<1>4. TabsInOrder'
  <2>1. \A t \in Tabs : Started(t)' = Started(t)  BY <1>1 DEF Started
  <2>2. \A t \in Tabs : page[t].result # NoRun => page[t].result \in Runs /\ page[t].result # r
    BY DEF ConsoleTypes, TabRecord, RunNumbers, TabsInOrder
  <2> QED  BY <1>1, <2>1, <2>2 DEF TabsInOrder, LastOf
<1> QED  BY <1>1, <1>3, <1>4

\* Each step of a route, from the scenario looked up to the history written.
LEMMA RouteKeeps ==
    ASSUME ConsoleInv, NEW r \in Runs, Route(r)
    PROVE  ConsoleInv'
<1> USE DEF ConsoleInv
<1>1. route[r] \in RunRecord /\ Judged(route[r])  BY DEF ConsoleTypes, RunsInOrder
<1>2. CASE RefuseUnknown(r) \/ Runner(r)
  <2>1. PICK next \in RunRecord :
            /\ Goes(r, next) /\ next.tab = route[r].tab /\ Judged(next)
            /\ next.at \in {"answered", "ran"}
    <3>1. ASSUME NEW at \in {"answered", "ran"}, NEW s \in {"ERROR", "PASS", "FAIL"},
                 at = "ran" => s # "ERROR",
                 Goes(r, [route[r] EXCEPT !.at = at, !.status = s])
          PROVE  \E next \in RunRecord :
                    /\ Goes(r, next) /\ next.tab = route[r].tab /\ Judged(next)
                    /\ next.at \in {"answered", "ran"}
      <4> DEFINE next == [route[r] EXCEPT !.at = at, !.status = s]
      <4>1. next \in RunRecord /\ next.tab = route[r].tab /\ next.at = at /\ next.status = s
        BY <1>1 DEF RunRecord
      <4>2. Goes(r, next)  BY <3>1
      <4> HIDE DEF next
      <4>3. Judged(next)  BY <3>1, <4>1 DEF Judged
      <4> QED  BY <4>1, <4>2, <4>3
    <3>2. CASE Fails(r)  BY <3>1, <3>2 DEF Fails
    <3>3. ASSUME NEW s \in {"PASS", "FAIL"},
                 Goes(r, [route[r] EXCEPT !.at = "ran", !.status = s])
          PROVE  \E next \in RunRecord :
                    /\ Goes(r, next) /\ next.tab = route[r].tab /\ Judged(next)
                    /\ next.at \in {"answered", "ran"}
      BY <3>1, <3>3
    <3> QED  BY <1>2, <3>2, <3>3 DEF RefuseUnknown, Runner
  <2>2. route[r].at = "asked" /\ UNCHANGED <<page, file, torn, recorded, overlapped>>
    BY <1>2 DEF RefuseUnknown, Runner, history
  <2>3. /\ route' \in [Runs -> RunRecord] /\ RunsInOrder' /\ TabsInOrder'
        /\ route'[r].at \in {"answered", "ran"} /\ \A q \in Runs : q # r => route'[q] = route[q]
    BY <2>1, <2>2, RunGoes
  <2>4. \A q \in Runs :
            /\ AtHistory(q)' <=> AtHistory(q)
            /\ route'[q].at = "torn" <=> route[q].at = "torn"
            /\ AtHistory(q) => route'[q] = route[q]
    BY <2>2, <2>3 DEF AtHistory
  <2>5. OneAtHistory => OneAtHistory'  BY <2>2, <2>4 DEF OneAtHistory
  <2>6. HistoryIsLatest => HistoryIsLatest'  BY <2>2, <2>4 DEF HistoryIsLatest
  <2> QED  BY <2>2, <2>3, <2>5, <2>6 DEF ConsoleTypes
<1>3. CASE ReadHistory(r)
  <2> DEFINE read == IF torn THEN <<>> ELSE file
             next == [route[r] EXCEPT !.at = "read", !.entries = read]
  <2>1. read \in Seq(Runs)  BY DEF ConsoleTypes
  <2>2. /\ next \in RunRecord /\ next.tab = route[r].tab /\ next.at = "read"
        /\ Judged(next) /\ next.entries = read
    BY <1>1, <1>3, <2>1 DEF RunRecord, Judged, ReadHistory
  <2>3. Goes(r, next) /\ route[r].at = "ran" /\ UNCHANGED <<page, file, torn, recorded>>
        /\ overlapped' = (overlapped \/ \E q \in Runs : AtHistory(q))
    BY <1>3 DEF ReadHistory
  <2> HIDE DEF read, next
  <2>4. /\ route' \in [Runs -> RunRecord] /\ RunsInOrder' /\ TabsInOrder'
        /\ route'[r] = next /\ \A q \in Runs : q # r => route'[q] = route[q]
    BY <2>2, <2>3, RunGoes
  <2>5. ASSUME ~ overlapped'  PROVE OneAtHistory' /\ HistoryIsLatest'
    <3>1. ~ overlapped /\ \A q \in Runs : ~ AtHistory(q)  BY <2>3, <2>5
    <3>2. ~ torn /\ file = Latest(recorded)
      BY <3>1 DEF OneAtHistory, HistoryIsLatest, AtHistory
    <3>3. \A q \in Runs : AtHistory(q)' => q = r  BY <2>4, <3>1 DEF AtHistory
    <3>4. ~ torn' /\ \A q \in Runs : route'[q].at # "torn"
      BY <2>2, <2>3, <2>4, <3>1, <3>2 DEF AtHistory
    <3>5. next.entries = file  BY <2>2, <3>2 DEF read
    <3> QED  BY <2>3, <2>4, <3>2, <3>3, <3>4, <3>5 DEF OneAtHistory, HistoryIsLatest
  <2>6. overlapped' \in BOOLEAN  BY <2>3 DEF ConsoleTypes
  <2> QED  BY <2>3, <2>4, <2>5, <2>6 DEF ConsoleTypes
<1>4. CASE WriteBegins(r)
  <2> DEFINE next == [route[r] EXCEPT !.at = "torn"]
  <2>1. /\ next \in RunRecord /\ next.tab = route[r].tab /\ next.at = "torn"
        /\ Judged(next) /\ next.entries = route[r].entries
    BY <1>1, <1>4 DEF RunRecord, Judged, WriteBegins
  <2>2. Goes(r, next) /\ route[r].at = "read" /\ UNCHANGED <<page, recorded, overlapped>>
        /\ file' = <<>> /\ torn' = TRUE
    BY <1>4 DEF WriteBegins
  <2> HIDE DEF next
  <2>3. /\ route' \in [Runs -> RunRecord] /\ RunsInOrder' /\ TabsInOrder'
        /\ route'[r] = next /\ \A q \in Runs : q # r => route'[q] = route[q]
    BY <2>1, <2>2, RunGoes
  <2>4. \A q \in Runs :
            (AtHistory(q)' <=> AtHistory(q)) /\ route'[q].entries = route[q].entries
    BY <2>1, <2>2, <2>3 DEF AtHistory
  <2>5. OneAtHistory => OneAtHistory'  BY <2>1, <2>2, <2>3, <2>4 DEF OneAtHistory
  <2>6. HistoryIsLatest => HistoryIsLatest'  BY <2>2, <2>4 DEF HistoryIsLatest
  <2> QED  BY <2>2, <2>3, <2>5, <2>6 DEF ConsoleTypes
<1>5. CASE WriteEnds(r)
  <2> DEFINE next == [route[r] EXCEPT !.at = "answered", !.entries = <<>>]
  <2>1. next \in RunRecord /\ next.tab = route[r].tab /\ next.at = "answered" /\ Judged(next)
    <3>1. <<>> \in Seq(Runs)  OBVIOUS
    <3> QED  BY <1>1, <1>5, <3>1 DEF RunRecord, Judged, WriteEnds
  <2>2. Goes(r, next) /\ route[r].at = "torn" /\ UNCHANGED <<page, overlapped>>
        /\ file' = Extended(route[r].entries, r) /\ torn' = FALSE
        /\ recorded' = Append(recorded, r)
    BY <1>5 DEF WriteEnds
  <2> HIDE DEF next
  <2>3. /\ route' \in [Runs -> RunRecord] /\ RunsInOrder' /\ TabsInOrder'
        /\ route'[r] = next /\ \A q \in Runs : q # r => route'[q] = route[q]
    BY <2>1, <2>2, RunGoes
  <2>4. recorded' \in Seq(Runs) /\ file' \in Seq(Runs)
    <3>1. recorded' \in Seq(Runs)  BY <2>2 DEF ConsoleTypes
    <3>2. file' \in Seq(Runs)
      <4> DEFINE full == <<r>> \o route[r].entries
      <4>1. full \in Seq(Runs) /\ Len(full) \in Nat  BY <1>1 DEF RunRecord
      <4>2. ASSUME NEW n \in Nat, n <= Len(full)  PROVE SubSeq(full, 1, n) \in Seq(Runs)
        BY <4>1, <4>2
      <4>3. file' = SubSeq(full, 1, IF Len(full) > MAX_HISTORY THEN MAX_HISTORY ELSE Len(full))
        BY <2>2 DEF Extended
      <4> HIDE DEF full
      <4> QED  BY <4>1, <4>2, <4>3, ConsoleAssumption
    <3> QED  BY <3>1, <3>2
  <2>5. ASSUME ~ overlapped  PROVE OneAtHistory' /\ HistoryIsLatest'
    <3>1. route[r].entries = Latest(recorded) /\ \A q \in Runs : AtHistory(q) => q = r
      BY <2>2, <2>5 DEF OneAtHistory, HistoryIsLatest, AtHistory
    <3>2. \A q \in Runs : ~ AtHistory(q)'  BY <2>1, <2>3, <3>1 DEF AtHistory
    <3>3. file' = Latest(recorded')
      BY <2>2, <3>1, ExtendedIsLatest DEF ConsoleTypes
    <3> QED  BY <2>2, <3>2, <3>3 DEF OneAtHistory, HistoryIsLatest, AtHistory
  <2> QED  BY <2>2, <2>3, <2>4, <2>5 DEF ConsoleTypes
<1> QED  BY <1>2, <1>3, <1>4, <1>5 DEF Route

\* A step of a tab that starts no run.
LEMMA TabMoves ==
    ASSUME ConsoleInv, NEW t \in Tabs, NEW p \in TabRecord, Becomes(t, p),
           UNCHANGED <<route, history>>,
           p.running # NoRun =>
              p.running = page[t].running /\ p.result = NoRun /\ ~ p.error,
           p.result # NoRun =>
              /\ ~ p.error /\ LastOf(t, p.result) /\ route[p.result].at = "answered"
              /\ route[p.result].status \in {"PASS", "FAIL"}
    PROVE  ConsoleInv'
<1>1. /\ page' \in [Tabs -> TabRecord] /\ page'[t] = p
      /\ \A u \in Tabs : u # t => page'[u] = page[u]
  BY DEF Becomes, ConsoleInv, ConsoleTypes
<1>2. UNCHANGED <<route, file, torn, recorded, overlapped>>  BY DEF history
<1>3. \A u \in Tabs : \A r : LastOf(u, r)' <=> LastOf(u, r)  BY <1>2 DEF LastOf, Started
<1>4. TabsInOrder'  BY <1>1, <1>2, <1>3 DEF ConsoleInv, TabsInOrder
<1>5. ConsoleTypes' /\ RunsInOrder'
  BY <1>1, <1>2 DEF ConsoleInv, ConsoleTypes, RunsInOrder
<1>6. ~ overlapped' => OneAtHistory' /\ HistoryIsLatest'
  BY <1>2 DEF ConsoleInv, OneAtHistory, HistoryIsLatest, AtHistory
<1> QED  BY <1>4, <1>5, <1>6 DEF ConsoleInv

\* A choice, a lost connection and an answer.
LEMMA TabKeeps ==
    ASSUME ConsoleInv, NEW t \in Tabs, Choose(t) \/ RunLost(t) \/ RunAnswered(t)
    PROVE  ConsoleInv'
<1>1. page[t] \in TabRecord  BY DEF ConsoleInv, ConsoleTypes
<1>2. /\ page[t].running # NoRun =>
           page[t].result = NoRun /\ ~ page[t].error /\ LastOf(t, page[t].running)
      /\ page[t].result # NoRun =>
           /\ ~ page[t].error /\ LastOf(t, page[t].result)
           /\ route[page[t].result].at = "answered"
           /\ route[page[t].result].status \in {"PASS", "FAIL"}
  BY DEF ConsoleInv, TabsInOrder
<1>3. CASE Choose(t)
  <2>1. PICK s \in ScenarioIds : Becomes(t, Cleared([page[t] EXCEPT !.scenario = s]))
    BY <1>3 DEF Choose
  <2> DEFINE p == Cleared([page[t] EXCEPT !.scenario = s])
  <2>2. p \in TabRecord /\ p.running = page[t].running /\ p.result = NoRun /\ ~ p.error
    BY <1>1 DEF TabRecord, Cleared, NoRun, RunNumbers
  <2>3. Becomes(t, p) /\ UNCHANGED <<route, history>>  BY <1>3, <2>1 DEF Choose
  <2> HIDE DEF p
  <2> QED  BY <2>2, <2>3, TabMoves
<1>4. ASSUME NEW p \in TabRecord, Becomes(t, p), UNCHANGED <<route, history>>,
             p.running = NoRun, p.result = NoRun
      PROVE  ConsoleInv'
  BY <1>4, TabMoves
<1>5. CASE RunLost(t)
  <2> DEFINE p == [page[t] EXCEPT !.running = NoRun, !.error = TRUE]
  <2>1. Becomes(t, p) /\ page[t].running # NoRun /\ UNCHANGED <<route, history>>
    BY <1>5 DEF RunLost, NoRun
  <2>2. p \in TabRecord /\ p.running = NoRun /\ p.result = NoRun
    BY <1>1, <1>2, <2>1 DEF TabRecord, RunNumbers
  <2> HIDE DEF p
  <2> QED  BY <1>4, <2>1, <2>2
<1>6. CASE RunAnswered(t)
  <2> DEFINE r == page[t].running
  <2>1. r # NoRun /\ r \in Runs /\ route[r].at = "answered" /\ UNCHANGED <<route, history>>
    BY <1>1, <1>6 DEF RunAnswered, NoRun, TabRecord, RunNumbers
  <2>2. route[r].status \in {"ERROR", "PASS", "FAIL"}
    BY <2>1 DEF ConsoleInv, RunsInOrder, Judged
  <2>3. CASE route[r].status = "ERROR"
    <3> DEFINE p == [page[t] EXCEPT !.running = NoRun, !.error = TRUE]
    <3>1. Becomes(t, p)  BY <1>6, <2>3 DEF RunAnswered, NoRun
    <3>2. p \in TabRecord /\ p.running = NoRun /\ p.result = NoRun
      BY <1>1, <1>2, <2>1 DEF TabRecord, RunNumbers
    <3> HIDE DEF p
    <3> QED  BY <1>4, <2>1, <3>1, <3>2
  <2>4. CASE route[r].status # "ERROR"
    <3> DEFINE p == [page[t] EXCEPT !.running = NoRun, !.result = r]
    <3>1. Becomes(t, p)  BY <1>6, <2>4 DEF RunAnswered, NoRun
    <3>2. p \in TabRecord /\ p.running = NoRun /\ p.result = r /\ ~ p.error
      BY <1>1, <1>2, <2>1 DEF TabRecord, RunNumbers
    <3>3. LastOf(t, r)  BY <1>2, <2>1
    <3> HIDE DEF p, r
    <3> QED  BY <2>1, <2>2, <2>4, <3>1, <3>2, <3>3, TabMoves
  <2> QED  BY <2>3, <2>4
<1> QED  BY <1>3, <1>5, <1>6

\* A run that starts has the highest number there is.
LEMMA StartKeeps ==
    ASSUME ConsoleInv, NEW t \in Tabs, HandleRun(t)
    PROVE  ConsoleInv'
<1>1. PICK r \in Runs :
          /\ page[t].running = NoRun
          /\ route[r] = NotYet /\ \A q \in Runs : q < r => route[q] # NotYet
          /\ Becomes(t, [Begun(page[t]) EXCEPT !.running = r])
          /\ route' = [route EXCEPT ![r] = [NotYet EXCEPT !.at = "asked", !.tab = t,
                                                            !.scenario = page[t].scenario]]
          /\ UNCHANGED history
  BY DEF HandleRun, CanRun, NoRun
<1>2. Runs \in SUBSET (Nat \ {0}) /\ NoRun = 0
  BY ConsoleAssumption DEF Runs, NoRun
<1>3. UNCHANGED <<file, torn, recorded, overlapped>>  BY <1>1 DEF history
<1> DEFINE p == [Begun(page[t]) EXCEPT !.running = r]
           run == [NotYet EXCEPT !.at = "asked", !.tab = t, !.scenario = page[t].scenario]
<1>4. p \in TabRecord /\ p.running = r /\ p.result = NoRun /\ ~ p.error
  <2>1. page[t] \in TabRecord  BY DEF ConsoleInv, ConsoleTypes
  <2> QED  BY <2>1 DEF TabRecord, Begun, Cleared, NoRun, RunNumbers
<1>5. run \in RunRecord /\ run.at = "asked" /\ run.tab = t
  <2>1. page[t].scenario \in ScenarioIds  BY DEF ConsoleInv, ConsoleTypes, TabRecord
  <2>2. <<>> \in Seq(Runs)  OBVIOUS
  <2> QED  BY <2>1, <2>2 DEF NotYet, RunRecord
<1>6. page' = [page EXCEPT ![t] = p] /\ route' = [route EXCEPT ![r] = run]
  BY <1>1 DEF Becomes
<1> HIDE DEF p, run
<1>7. /\ page' \in [Tabs -> TabRecord] /\ page'[t] = p
      /\ \A u \in Tabs : u # t => page'[u] = page[u]
      /\ route' \in [Runs -> RunRecord] /\ route'[r] = run
      /\ \A q \in Runs : q # r => route'[q] = route[q]
  BY <1>4, <1>5, <1>6 DEF ConsoleInv, ConsoleTypes
<1>8. RunsInOrder'
  <2>1. \A q \in Runs : Judged(route[q])  BY DEF ConsoleInv, RunsInOrder
  <2>2. Judged(run) /\ run # NotYet  BY <1>5, NotYetIsARun DEF Judged
  <2>3. \A q \in Runs : route[q] # NotYet => ~ (r < q)
    BY <1>1 DEF ConsoleInv, RunsInOrder
  <2>4. ASSUME NEW q \in Runs, route'[q] # NotYet, NEW o \in Runs, o < q
        PROVE  route'[o] # NotYet
    <3>1. CASE o = r  BY <1>7, <2>2, <3>1
    <3>2. CASE o # r
      <4>1. route'[o] = route[o]  BY <1>7, <3>2
      <4>2. CASE q = r  BY <1>1, <2>4, <4>1, <4>2
      <4>3. CASE q # r
        <5>1. route[q] # NotYet  BY <1>7, <2>4, <4>3
        <5> QED  BY <2>4, <4>1, <5>1 DEF ConsoleInv, RunsInOrder
      <4> QED  BY <4>2, <4>3
    <3> QED  BY <3>1, <3>2
  <2>5. \A q \in Runs : Judged(route'[q])  BY <1>7, <2>1, <2>2
  <2> QED  BY <2>4, <2>5 DEF RunsInOrder, Judged
<1>9. TabsInOrder'
  <2>1. \A u \in Tabs : u # t => Started(u)' = Started(u)
    BY <1>1, <1>5, <1>7, NotYetIsARun, ConsoleAssumption DEF Started
  <2>2. \A q \in Started(t)' : q <= r
    <3> SUFFICES ASSUME NEW q \in Runs, route'[q].tab = t, q # r  PROVE q <= r
      BY <1>2 DEF Started
    <3>1. route[q] # NotYet  BY <1>7, NotYetIsARun, ConsoleAssumption
    <3>2. ~ (r < q)  BY <1>1, <3>1 DEF ConsoleInv, RunsInOrder
    <3> QED  BY <1>2, <3>2
  <2>3. \A u \in Tabs : page[u].result # NoRun =>
            page[u].result # r /\ page[u].result \in Runs
    BY <1>1, NotYetIsARun DEF ConsoleInv, ConsoleTypes, TabsInOrder, TabRecord, RunNumbers
  <2>4. ASSUME NEW u \in Tabs, u # t
        PROVE  /\ page'[u].running # NoRun =>
                    /\ page'[u].result = NoRun /\ ~ page'[u].error
                    /\ \A q \in Started(u)' : q <= page'[u].running
               /\ page'[u].result # NoRun =>
                    /\ ~ page'[u].error /\ (\A q \in Started(u)' : q <= page'[u].result)
                    /\ route'[page'[u].result].at = "answered"
                    /\ route'[page'[u].result].status \in {"PASS", "FAIL"}
    <3>1. page'[u] = page[u] /\ Started(u)' = Started(u)  BY <1>7, <2>1, <2>4
    <3>2. page[u].result # NoRun => route'[page[u].result] = route[page[u].result]
      BY <1>7, <2>3
    <3> QED  BY <3>1, <3>2 DEF ConsoleInv, TabsInOrder, LastOf
  <2>5. /\ page'[t].running # NoRun =>
             /\ page'[t].result = NoRun /\ ~ page'[t].error
             /\ \A q \in Started(t)' : q <= page'[t].running
        /\ page'[t].result = NoRun
    BY <1>4, <1>7, <2>2 DEF LastOf
  <2> QED  BY <2>4, <2>5 DEF TabsInOrder, LastOf
<1>10. ~ overlapped' => OneAtHistory' /\ HistoryIsLatest'
  <2>1. \A q \in Runs :
            /\ AtHistory(q)' <=> AtHistory(q)
            /\ route'[q].at = "torn" <=> route[q].at = "torn"
            /\ AtHistory(q) => route'[q] = route[q]
    BY <1>1, <1>5, <1>7, NotYetIsARun DEF AtHistory
  <2>2. OneAtHistory => OneAtHistory'  BY <1>3, <2>1 DEF OneAtHistory
  <2>3. HistoryIsLatest => HistoryIsLatest'  BY <1>3, <2>1 DEF HistoryIsLatest
  <2> QED  BY <1>3, <2>2, <2>3 DEF ConsoleInv
<1>11. ConsoleTypes'  BY <1>3, <1>7 DEF ConsoleInv, ConsoleTypes
<1> QED  BY <1>8, <1>9, <1>10, <1>11 DEF ConsoleInv

\* Every step keeps the console in order; those of a script leave it alone.
LEMMA ConsoleSteps ==
    ASSUME ConsoleInv, [MCNext]_all
    PROVE  ConsoleInv'
<1>1. CASE ConsoleNext
  <2>1. CASE ScenariosChange
    BY <2>1 DEF ScenariosChange, history, ConsoleInv, ConsoleTypes, RunsInOrder,
        TabsInOrder, LastOf, Started, OneAtHistory, HistoryIsLatest, AtHistory
  <2> QED  BY <1>1, <2>1, TabKeeps, StartKeeps, RouteKeeps DEF ConsoleNext
<1>2. CASE UNCHANGED console
  BY <1>2 DEF console, history, ConsoleInv, ConsoleTypes, RunsInOrder, TabsInOrder,
      LastOf, Started, OneAtHistory, HistoryIsLatest, AtHistory
<1> QED  BY <1>1, <1>2 DEF MCNext, Scripted, all

\* What the panel says of a result, and of a run.
LEMMA PanelOfAResult ==
    ASSUME NEW t, ResultPanel(t) = "result"
    PROVE  page[t].result # NoRun
BY DEF ResultPanel, NoRun

\* A run without a result is shown as running.
LEMMA PanelOfARun ==
    ASSUME NEW t, page[t].running # NoRun, page[t].result = NoRun, ~ page[t].error
    PROVE  ResultPanel(t) = "running"
BY DEF ResultPanel, NoRun

\* The inductive invariant of the console, for any number of tabs, scenarios and
\* runs and any length of the history: tabs wait for, or show, the last run they
\* started, and unless routes have overlapped the one at the history holds what
\* the file held (handleRun, appendHistory).
THEOREM ConsoleInvariance == MCSpec => []ConsoleInv
<1>1. MCInit => ConsoleInv  BY ConsoleStarts DEF MCInit
<1>2. ConsoleInv /\ [MCNext]_all => ConsoleInv'  BY ConsoleSteps
<1> QED  BY <1>1, <1>2, PTL DEF MCSpec

\* A tab shows the outcome of the last run it started and no other, and runs whose
\* routes did not meet at the file are all in it, the latest first
\* (ResultPanel, appendHistory).
THEOREM ReportsKept == MCSpec => []ReportsAreKept
<1>1. ConsoleInv => ShownIsTheLastRun
  <2> SUFFICES ASSUME ConsoleInv, NEW t \in Tabs
               PROVE  /\ page[t].running # NoRun => ResultPanel(t) = "running"
                      /\ ResultPanel(t) = "result" =>
                            /\ route[page[t].result].status \in {"PASS", "FAIL"}
                            /\ \A r \in Started(t) : r <= page[t].result
    BY DEF ShownIsTheLastRun, NoRun
  <2> QED  BY PanelOfAResult, PanelOfARun DEF ConsoleInv, TabsInOrder, LastOf
<1>2. ConsoleInv => ApartRunsAreRecorded
  <2> SUFFICES ASSUME ConsoleInv, ~ overlapped, ~ torn
               PROVE  /\ Len(file) = Room(Len(recorded))
                      /\ \A i \in DOMAIN file : file[i] = recorded[Len(recorded) + 1 - i]
    BY DEF ApartRunsAreRecorded, Room
  <2>1. file = Latest(recorded) /\ Len(recorded) \in Nat
    BY DEF ConsoleInv, ConsoleTypes, HistoryIsLatest
  <2>2. Room(Len(recorded)) \in Nat  BY <2>1, ConsoleAssumption DEF Room
  <2> QED  BY <2>1, <2>2 DEF Latest
<1>3. ConsoleInv => ReportsAreKept  BY <1>1, <1>2 DEF ReportsAreKept
<1> QED  BY <1>3, ConsoleInvariance, PTL

=============================================================================
