------------------------------ MODULE Adapter ------------------------------
(***************************************************************************)
(* The AI adapter: POST /move from its guards to the recorded cost.        *)
(*                                                                         *)
(* A request passes the throttle, the token guard and the two reads of the *)
(* cost guard, then asks a model up to maxRetries times; the first answer  *)
(* that parses is returned, a forced draw otherwise.  The cost of what was *)
(* returned is added to the day's and to the game's hour after that, so    *)
(* requests that were let in together are charged together.  Redis may     *)
(* fail at every read (the guard lets the request in) and at every record  *)
(* (the cost is lost).  A caller that hangs up is not noticed: its request  *)
(* runs on, and a second one of the same game may be under way.            *)
(*                                                                         *)
(* Left out: the wording of prompts, HTTP headers, and DashScope, which    *)
(* MoveService does not offer.                                             *)
(***************************************************************************)
EXTENDS Integers, Sequences, FiniteSets, SequencesExt, FiniteSetsExt

CONSTANTS
    Slots,          \* concurrent requests of the HTTP server
    Games,
    DailyLimit,     \* dailyCostLimitUsd, in units of cost
    HourlyLimit,    \* hourlyUserCostLimitUsd
    MaxCost,        \* bound: what one LLM call may bill
    MaxRetries,     \* the largest maxRetries of a request
    OllamaRetries,  \* OllamaAdapter.MIN_RETRIES
    RateLimit,      \* requests of one caller in a minute
    LastHour,       \* bound on the clock, in hours
    HoursPerDay,
    MaxBlind        \* bound: reads of the guard that Redis may fail

ASSUME SlotsAssumption  == IsFiniteSet(Slots)
ASSUME LimitsAssumption == DailyLimit \in Nat \ {0} /\ HourlyLimit \in Nat \ {0}
ASSUME BoundsAssumption == /\ MaxCost \in Nat /\ MaxRetries \in Nat /\ OllamaRetries \in Nat
                           /\ LastHour \in Nat /\ HoursPerDay \in Nat \ {0}

VARIABLES
    call,       \* [Slots -> the request a slot serves]
    daily,      \* quota:daily:<day>, total_cost_usd
    hourly,     \* quota:hourly:<game>:<hour>
    hits,       \* the throttle's counter of this minute
    hour,       \* the wall clock
    answer,     \* the answer that leaves in this step, if one does
    blind       \* ghost: how many reads of the guard failed

vars == <<call, daily, hourly, hits, hour, answer, blind>>

Models == {"openai", "claude", "deepseek", "ollama"}
FreeModels == {"ollama"}
Hours == 0 .. LastHour
Day(h) == h \div HoursPerDay
Days == {Day(h) : h \in Hours}

Idle == [pc |-> "idle"]
NoAnswer == [action |-> "none"]
Silent == answer' = NoAnswer

-----------------------------------------------------------------------------
(* What an LLM writes.  A JSON object is its action, its groups (how many  *)
(* tiles, all codes good?) and its tilesFromRack: none, a list of good     *)
(* codes, one with a bad code, or "no list", a string or a number where    *)
(* the list should be.  A text is the sequence of the objects in it,       *)
(* "broken" for one that JSON.parse refuses.                               *)

Object(action, groups, rack) == [action |-> action, groups |-> groups, rack |-> rack]
Good == [n |-> 3, ok |-> TRUE]
Short == [n |-> 2, ok |-> TRUE]
Misspelt == [n |-> 3, ok |-> FALSE]

Broken == Object("broken", <<>>, "none")
Objects ==
    { Object("draw", <<>>, "none"), Object("think", <<>>, "none"), Broken,
      Object("place", <<>>, "ok"), Object("place", <<Good>>, "none"),
      Object("place", <<Good, Misspelt>>, "ok"), Object("place", <<Short, Misspelt>>, "ok"),
      Object("place", <<Good>>, "bad"), Object("place", <<Good>>, "no list"),
      Object("place", <<Good, Good>>, "ok") }

Texts == {<<>>} \cup {<<o>> : o \in Objects}
           \cup {<<Object("think", <<>>, "none"), o>> : o \in Objects}

IsMove(o) == o.action \in {"draw", "place"}

\* From the first brace to the last: one object, or none that parses.
Greedy(text) == IF Len(text) = 1 THEN text[1] ELSE Broken

\* The last object that is a move: reasoning ends with its conclusion.
LastMove(text) == SelectInSeq(Reverse(text), IsMove)

\* DeepSeek thinking: the content if it parses at all, else the last move of
\* the reasoning, else the content as it is.
BestJson(content, reasoning) ==
    IF Greedy(content) # Broken THEN <<Greedy(content)>>
    ELSE IF LastMove(reasoning) # 0 THEN <<Reverse(reasoning)[LastMove(reasoning)]>>
    ELSE content

\* Ollama: the thinking counts only when the content is empty.
OllamaContent(content, thinking) ==
    IF content = <<>> /\ thinking # <<>> THEN <<Greedy(thinking)>> ELSE content

\* Claude and OpenAI: the text alone.
ClaudeContent(content, thinking) == content
OpenAiContent(content, thinking) == content

ContentOf(model, content, thinking) ==
    CASE model = "deepseek" -> BestJson(content, thinking)
      [] model = "ollama"   -> OllamaContent(content, thinking)
      [] model = "claude"   -> ClaudeContent(content, thinking)
      [] model = "openai"   -> OpenAiContent(content, thinking)

\* Mutant: only the first group's size and codes are looked at.
ParseGroupsFirstOnly(gs) ==
    IF gs[1].n < 3 THEN "draw" ELSE IF ~gs[1].ok THEN "error" ELSE "place"

\* A bad code is an error unless a short group made the move a draw before.
ParseGroups(gs) ==
    LET firstShort == SelectInSeq(gs, LAMBDA g : g.n < 3)
        firstBad   == SelectInSeq(gs, LAMBDA g : ~g.ok)
    IN  IF firstShort # 0 /\ (firstBad = 0 \/ firstShort <= firstBad) THEN "draw"
        ELSE IF firstBad # 0 THEN "error"
        ELSE "place"

\* The answer a text parses to, "error" when the attempt failed.  The codes of
\* tilesFromRack are looked at when it is a list; what is none goes out as it is.
Parse(text) ==
    LET o == Greedy(text)
    IN  IF ~IsMove(o) THEN [action |-> "error"]
        ELSE IF o.action = "draw" \/ o.groups = <<>> THEN [action |-> "draw"]
        ELSE IF ParseGroups(o.groups) # "place" THEN [action |-> ParseGroups(o.groups)]
        ELSE IF o.rack = "bad" THEN [action |-> "error"]
        ELSE [action |-> "place", groups |-> o.groups, rack |-> o.rack]

\* All that an answer can be read as, per model.
Readings == [m \in Models |-> {Parse(ContentOf(m, c, t)) : c \in Texts, t \in Texts}]
AllReadings == UNION {Readings[m] : m \in Models}

-----------------------------------------------------------------------------
(* Counters in Redis *)

RecordCost(d, cost) == daily' = [daily EXCEPT ![d] = @ + cost]
RecordUserCost(g, h, cost) == hourly' = [hourly EXCEPT ![<<g, h>>] = @ + cost]

\* Mutant: > for >=.
DailyLimitExceededStrictly == daily[Day(hour)] > DailyLimit

DailyLimitExceeded == daily[Day(hour)] >= DailyLimit
HourlyLimitExceeded(g) == hourly[<<g, hour>>] >= HourlyLimit

-----------------------------------------------------------------------------
Init ==
    /\ call = [s \in Slots |-> Idle]
    /\ daily = [d \in Days |-> 0]
    /\ hourly = [x \in Games \X Hours |-> 0]
    /\ hits = 0
    /\ hour = 0
    /\ answer = NoAnswer
    /\ blind = 0

\* RateLimitGuard: every request of the minute counts, whoever's game it is,
\* because the game server is one caller; one that is over the limit gets 429.
CanActivate == hits < RateLimit /\ hits' = hits + 1

\* A request behind the throttle.
Receive(s, m, g, n) ==
    /\ call[s].pc = "idle"
    /\ CanActivate
    /\ call' = [call EXCEPT ![s] =
          [pc |-> IF m \in FreeModels THEN "validate" ELSE "daily", model |-> m, game |-> g,
           left |-> n]]
    /\ Silent /\ UNCHANGED <<daily, hourly, hour, blind>>

GoOn(s, pc) == call' = [call EXCEPT ![s].pc = pc]
Refuse(s) == call' = [call EXCEPT ![s] = Idle]

\* CostLimitGuard, first read: the day's total.
CheckDaily(s) ==
    /\ call[s].pc = "daily"
    /\ IF DailyLimitExceeded THEN Refuse(s) ELSE GoOn(s, "hourly")
    /\ Silent /\ UNCHANGED <<daily, hourly, hits, hour, blind>>

\* Second read, after an await: the game's total of this hour.
CheckHourly(s) ==
    /\ call[s].pc = "hourly"
    /\ IF HourlyLimitExceeded(call[s].game) THEN Refuse(s) ELSE GoOn(s, "validate")
    /\ Silent /\ UNCHANGED <<daily, hourly, hits, hour, blind>>

\* Either read fails: the guard lets the request through.
CheckFails(s) ==
    /\ call[s].pc \in {"daily", "hourly"}
    /\ blind < MaxBlind
    /\ blind' = blind + 1
    /\ GoOn(s, IF call[s].pc = "daily" THEN "hourly" ELSE "validate")
    /\ Silent /\ UNCHANGED <<daily, hourly, hits, hour>>

\* Ollama's adapter raises maxRetries to its own minimum.
OllamaRetriesOf(n) == Max({n, OllamaRetries})

\* The ValidationPipe runs behind the guards; then the adapter is chosen.
Validate(s, wellFormed) ==
    /\ call[s].pc = "validate"
    /\ IF wellFormed
       THEN call' = [call EXCEPT ![s].pc = "asking",
                ![s].left = IF call[s].model = "ollama" THEN OllamaRetriesOf(@) ELSE @]
       ELSE Refuse(s)
    /\ Silent /\ UNCHANGED <<daily, hourly, hits, hour, blind>>

\* The response leaves; its cost goes to Redis in the same tick, to the day of
\* the answer and to the game's hour, each for itself (the metrics are left
\* out).
Settle(s, a, cost, lost) ==
    /\ answer' = a
    /\ call' = [call EXCEPT ![s] = Idle]
    /\ IF "cost" \in lost THEN UNCHANGED daily ELSE RecordCost(Day(hour), cost)
    /\ IF "user" \in lost THEN UNCHANGED hourly ELSE RecordUserCost(call[s].game, hour, cost)

\* An attempt whose text parses ends the request and is what it costs.
AttemptSucceeds(s, a, cost, lost) ==
    /\ call[s].pc = "asking"
    /\ call[s].left > 0
    /\ a \in Readings[call[s].model]
    /\ a.action # "error"
    /\ call[s].model \in FreeModels => cost = 0
    /\ Settle(s, a, cost, lost)
    /\ UNCHANGED <<hits, hour, blind>>

\* Mutant: the attempt is not counted.
AttemptFailsUncounted(s) ==
    /\ call[s].pc = "asking"
    /\ call[s].left > 0
    /\ Silent /\ UNCHANGED <<call, daily, hourly, hits, hour, blind>>

\* A text that does not parse, an HTTP error or the attempt's own timeout:
\* its tokens are charged to nothing.
AttemptFails(s) ==
    /\ call[s].pc = "asking"
    /\ call[s].left > 0
    /\ call' = [call EXCEPT ![s].left = @ - 1]
    /\ Silent /\ UNCHANGED <<daily, hourly, hits, hour, blind>>

\* All attempts failed: a forced draw of no tokens.
ForcedDraw(s, lost) ==
    /\ call[s].pc = "asking"
    /\ call[s].left = 0
    /\ Settle(s, [action |-> "forced"], 0, lost)
    /\ UNCHANGED <<hits, hour, blind>>

NextMinute ==
    /\ hits > 0
    /\ hits' = 0
    /\ Silent /\ UNCHANGED <<call, daily, hourly, hour, blind>>

NextHour ==
    /\ hour < LastHour
    /\ hour' = hour + 1
    /\ hits' = 0
    /\ Silent /\ UNCHANGED <<call, daily, hourly, blind>>

Costs == 0 .. MaxCost
Lost == SUBSET {"cost", "user"}

Serve(s) ==
    \/ CheckDaily(s)
    \/ CheckHourly(s)
    \/ CheckFails(s)
    \/ \E ok \in BOOLEAN : Validate(s, ok)
    \/ \E a \in AllReadings, c \in Costs, l \in Lost : AttemptSucceeds(s, a, c, l)
    \/ AttemptFails(s)
    \/ \E l \in Lost : ForcedDraw(s, l)

Next ==
    \/ \E s \in Slots :
          \/ \E m \in Models, g \in Games, n \in 1 .. MaxRetries : Receive(s, m, g, n)
          \/ Serve(s)
    \/ NextMinute
    \/ NextHour

\* An awaited promise settles: Redis answers or fails, and axios has a
\* timeout of its own, so a request that is being served goes on.
Fairness == \A s \in Slots : WF_vars(Serve(s))

Spec == Init /\ [][Next]_vars /\ Fairness

-----------------------------------------------------------------------------
(* Properties *)

\* The cost guard reads, the answer is charged long after: requests that were
\* let in together may overrun a limit together.  The overrun is at most one
\* answer for each request under way and for each read Redis failed, for the
\* day and for a game's hour, whatever day the answers come on.
OverrunIsWhatWasUnderWay ==
    LET slack == (Cardinality(Slots) + blind) * MaxCost
    IN  /\ \A d \in Days : daily[d] <= DailyLimit - 1 + slack
        /\ \A x \in Games \X Hours : hourly[x] <= HourlyLimit - 1 + slack

\* The game server decodes the answer into lists of strings; one that does not
\* fit is an error there, and the game gets a forced draw (AI_ERROR).
Decodes(a) == a.action = "place" => a.rack # "no list"

\* Whatever a model writes, in its content or in its reasoning, a placement the
\* game server can decode has groups, each of three tiles or more, and no code in
\* them or in tilesFromRack is misspelt.  The groups of one it cannot decode are
\* no worse: only what stands for tilesFromRack was not looked at.
PlacementIsReadable ==
    answer.action = "place" =>
        /\ answer.groups # <<>>
        /\ \A i \in 1 .. Len(answer.groups) : answer.groups[i].n >= 3 /\ answer.groups[i].ok
        /\ Decodes(answer) => answer.rack \in {"none", "ok"}

\* A request that was received ends, whatever the model and Redis do: it is
\* refused, answered, or given a forced draw.
EveryRequestEnds == \A s \in Slots : call[s].pc # "idle" ~> call[s].pc = "idle"

=============================================================================
