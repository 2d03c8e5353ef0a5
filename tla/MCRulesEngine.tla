--------------------------- MODULE MCRulesEngine ---------------------------
(***************************************************************************)
(* The copies of the rules of the game against each other.  The engine is  *)
(* compared with the rules as the documents state them: a set is legal     *)
(* when the jokers can be given identities that make it one.  The client's *)
(* checks, the practice mode's, the hints of the prompts and the planned   *)
(* moves of the ai-adapter are compared with the engine, which judges what *)
(* they let through, and so are the racks of the benchmark; the verdicts   *)
(* of the trials are compared with each other.  TLC builds every set of    *)
(* tiles (every rack) of each universe, one tile at a time, and every      *)
(* course of a trial, one answer at a time.                                *)
(***************************************************************************)
EXTENDS OllamaPlanner, PromptTools, Trials

C == INSTANCE PracticeRules     \* the client's rules, the practice mode's among them
B == INSTANCE PlaytestSets

CONSTANTS
    Universes,       \* the universes of this run
    MaxGroupTiles,   \* bound on the sets built from the group universe
    MaxRackTiles,    \* bound on the racks built from the rack universe
    MaxRepeats       \* bound on the repetitions of a trial

VARIABLES
    universe,
    tiles,     \* the set or the rack built so far
    answers    \* the answers of the trial so far, in the order of the calls

\* One whole color with both jokers, a second copy and a foreign tile: every
\* run there is, and every way to spoil one.
RunUniverse ==
    {NumberTile("R", n, "a") : n \in 1 .. MaxNumber}
      \cup {JokerTile(1), JokerTile(2), NumberTile("R", 7, "b"), NumberTile("B", 8, "a")}

\* Two numbers, four colors, two copies, both jokers: groups.
GroupUniverse ==
    {NumberTile(c, n, k) : c \in Color, n \in {6, 13}, k \in {"a", "b"}}
      \cup {JokerTile(1), JokerTile(2)}

\* Tiles that lengthen, split and complete the sets of the tables below, take
\* a joker's place, and make runs and groups of their own.
RackUniverse ==
    {NumberTile("R", n, "b") : n \in {2, 3, 7, 8, 10}}
      \cup {NumberTile("K", n, "b") : n \in {8, 10, 12, 13}}
      \cup {NumberTile("Y", 8, "b"), NumberTile("Y", 10, "b"), JokerTile(2)}

Tables ==
    {<<>>,
     <<{NumberTile("R", n, "a") : n \in 4 .. 6},
       {NumberTile(c, 10, "a") : c \in {"B", "Y", "K"}}>>,
     <<{NumberTile("K", n, "a") : n \in 4 .. 9},
       {NumberTile("R", 8, "a"), NumberTile("B", 8, "a"), JokerTile(1)}>>}

\* A run whose last tile makes a group with tiles of the rack.
LongRun == <<{NumberTile("K", n, "a") : n \in 5 .. 8}>>

Universe ==
    CASE universe = "run"   -> RunUniverse
      [] universe = "group" -> GroupUniverse
      [] universe = "rack"  -> RackUniverse

\* An answer, and the variants that are asked in turn.
Text(json, placed, mentioned) ==
    [json |-> json, move |-> [tiles |-> placed, mentions |-> mentioned]]
NoAnswer == [answered |-> FALSE, latency |-> 1]
Thinks(n) == [answered |-> TRUE, latency |-> 10, thought |-> n]
GptAnswers ==
    {NoAnswer, Thinks(10) @@ [content |-> Text("broken", 2, 1)]}
      \cup {Thinks(n) @@ [content |-> Text("whole", k, m)] :
               n \in {0, 7, 10}, k \in {0, 2}, m \in {0, 1}}
DeepseekAnswers ==
    {NoAnswer,
     Thinks(10) @@ [content |-> Text("whole", 2, 0), reasoning |-> Text("none", 0, 0)],
     Thinks(7) @@ [content |-> Text("none", 0, 0), reasoning |-> Text("whole", 2, 0)],
     Thinks(7) @@ [content |-> Text("broken", 0, 0), reasoning |-> Text("whole", 2, 0)],
     [Thinks(7) EXCEPT !.latency = 13]
        @@ [content |-> Text("whole", 1, 0), reasoning |-> Text("none", 0, 0)]}
FirstMelds(rack) ==
    LET legal == {g \in SUBSET rack : SetType(g) # "invalid"}
    IN  {UNION S : S \in {M \in SUBSET legal : Disjoint(M) /\ MapThenSumSet(SetScore, M) >= 30}}
MeldsOfScenario == [i \in DOMAIN Scenarios |-> FirstMelds(Scenarios[i].myTiles)]
BenchAnswers(i, variant) ==
    {[action |-> "draw"]}
      \cup {[action |-> "place", tiles |-> m] : m \in MeldsOfScenario[i]}
      \cup (IF variant = 2 THEN {[action |-> "other"],
                                 [action |-> "place", tiles |-> Scenarios[i].myTiles]} ELSE {})


\* Prompts of three texts: a line more, a line twice, lines that change places.
Line(chars, tells) == [length |-> chars, blank |-> chars = 0, decides |-> tells]
Prompt(system, user) == [system |-> system, user |-> user, retry |-> <<Line(3, TRUE)>>]
Prompts ==
    {Prompt(text, <<Line(6, FALSE)>>) :
        text \in {<<Line(5, TRUE)>>, <<Line(5, TRUE), Line(4, FALSE)>>,
                  <<Line(4, FALSE), Line(5, TRUE)>>,
                  <<Line(5, TRUE), Line(5, TRUE), Line(0, FALSE)>>}}
      \cup {Prompt(<<Line(5, TRUE)>>, <<Line(2, TRUE)>>)}

Variants == IF universe \in {"deepseek", "prompts"} THEN 3 ELSE 2
Turn     == 1 + (Len(answers) % Variants)
Round    == 1 + (Len(answers) \div Variants)

Init ==
    /\ universe \in Universes
    /\ tiles = {}
    /\ answers = <<>>

AddTile ==
    /\ universe \in {"run", "group", "rack"}
    /\ universe = "group" => Cardinality(tiles) < MaxGroupTiles
    /\ universe = "rack" => Cardinality(tiles) < MaxRackTiles
    /\ \E t \in Universe \ tiles : tiles' = tiles \cup {t}
    /\ UNCHANGED <<universe, answers>>

\* A trial ends with a whole round.
AddAnswer ==
    /\ universe \in {"gpt", "deepseek", "bench", "prompts"}
    /\ Round <= IF universe = "bench" THEN Len(Scenarios) ELSE MaxRepeats
    /\ \E a \in CASE universe = "gpt"      -> GptAnswers
                   [] universe = "deepseek" -> DeepseekAnswers
                   [] universe = "prompts"  -> Prompts
                   [] universe = "bench"    -> BenchAnswers(Round, Turn) :
           answers' = Append(answers, a)
    /\ UNCHANGED <<universe, tiles>>

Next == AddTile \/ AddAnswer
Spec == Init /\ [][Next]_<<universe, tiles, answers>>

-----------------------------------------------------------------------------
(* The reference: readings of a set, a number for every place of it. *)

\* A group reading gives the jokers the missing colors of the one number.
GroupReadings(g) ==
    { n \in 1 .. MaxNumber :
        /\ Cardinality(g) \in {3, 4}
        /\ Plain(g) # {}
        /\ \A t \in Plain(g) : t.number = n
        /\ \A t, u \in Plain(g) : t.color = u.color => t = u }

\* A run reading is a first number such that the plain tiles of one color
\* sit on different places of the run, all of them between 1 and 13.
RunReadings(g) ==
    { s \in 1 .. MaxNumber :
        /\ Cardinality(g) >= 3
        /\ s + Cardinality(g) - 1 <= MaxNumber
        /\ Plain(g) # {}
        /\ \A t \in Plain(g) : t.number \in s .. s + Cardinality(g) - 1
        /\ \A t, u \in Plain(g) : t.color = u.color /\ (t.number = u.number => t = u) }

RunValue(g, s) == Cardinality(g) * s + (Cardinality(g) * (Cardinality(g) - 1)) \div 2

\* V-01, V-02, V-14, V-15: the engine accepts exactly the sets with a legal
\* reading, over all placements of the jokers (ValidateTileSet).
AcceptsExactlyLegalSets ==
    SetType(tiles) # "invalid" <=> (GroupReadings(tiles) # {} \/ RunReadings(tiles) # {})

\* V-04: what a set is credited with at the first meld is the value of one of
\* its legal readings, and of the best one when it is read as a run; jokers
\* never score a place the run does not have (groupScore, runScore).
ScoreIsBestReadingOfItsType ==
    /\ SetType(tiles) = "group" =>
          \E n \in GroupReadings(tiles) : SetScore(tiles) = n * Cardinality(tiles)
    /\ SetType(tiles) = "run" =>
          /\ \E s \in RunReadings(tiles) : SetScore(tiles) = RunValue(tiles, s)
          /\ \A s \in RunReadings(tiles) : SetScore(tiles) >= RunValue(tiles, s)

-----------------------------------------------------------------------------
(* The other copies of the rules *)

Code(t) == <<t.color, t.number, t.copy>>
Coded(g) == Listed({Code(t) : t \in g})
IsLegal(g) == SetType(g) # "invalid"

\* The client never holds back a set the server would take (the pre-check of
\* CONFIRM, the label of a pending block) and names it alike; the practice mode accepts what the
\* server accepts; and the board a prompt describes is classified as the
\* server reads it (confirmValidator, GameBoard, practice-engine, tile-utils).
CopiesAgreeWithTheServer ==
    universe # "rack" =>
        /\ IsLegal(tiles) =>
              /\ C!GroupError(Coded(tiles)) = "ok"
              /\ C!ClassifySetType(Coded(tiles)) = SetType(tiles)
              /\ C!ValidatePendingBlock(Coded(tiles)) \in {"valid-group", "valid-run"}
              /\ ClassifyGroup(tiles) \in
                    {IF SetType(tiles) = "group" THEN "set" ELSE "run", "unknown"}
        /\ C!IsSet(Coded(tiles)) <=> IsLegal(tiles)

\* The groups of the table that light up for a tile are exactly those that
\* stay sets with it (from twelve tiles on the client takes spare jokers for
\* both ends at once, and a fourteenth tile for a fitting one); a joker can be taken
\* from a set exactly when some tile keeps it one, and what is left is a set (mergeCompatibility, jokerSwap).
ClientOffersLegalMoves ==
    universe # "rack" /\ IsLegal(tiles) =>
        \A t \in Universe \ tiles :
            /\ Cardinality(tiles) < 12 =>
                  (C!ComputeValidMergeGroups(Code(t), <<[id |-> 1, tiles |-> Coded(tiles)]>>) = {1}
                     <=> IsLegal(tiles \cup {t}))
            /\ LET swap == C!TryJokerSwap(Coded(tiles), Code(t))
                   kept == {j \in Jokers(tiles) : IsLegal((tiles \ {j}) \cup {t})}
               IN  /\ swap.ok <=> kept # {} /\ ~IsJoker(t)
                   /\ swap.ok => \E j \in kept : swap.joker = Code(j)

\* A move a small model is told to copy lays tiles of its rack, and the server
\* takes it (v9-ollama-place in every case; v8 once it has melded, and for
\* the first meld on an empty table and without jokers, which it overrates).
PlannedMovesAreAccepted ==
    universe = "rack" =>
        \A table \in Tables, melded, endgame \in BOOLEAN :
            \A m \in V9Moves(table, tiles, melded, endgame)
                  \cup (IF melded \/ (table = <<>> /\ Jokers(tiles) = {})
                        THEN V8Moves(table, tiles, melded) ELSE {}) :
                m.action = "place" =>
                    /\ m.fromRack \subseteq tiles
                    /\ TilesOn(m.table) = TilesOn(table) \cup m.fromRack
                    /\ ValidateTurnConfirm(table, m.table, m.fromRack, melded, {})

\* What the playtest script lays out is legal: a first meld of disjoint sets
\* of thirty points, a set with its joker, the same set with the tile that
\* stands for the joker, and a run whose last tile went to a group (findInitialMeld,
\* findSetWithJoker, findReplacementForJoker, findRearrangement).
PlaytestSetsAreLegal ==
    universe = "rack" =>
        /\ \A m \in B!InitialMelds(tiles) :
              /\ \A i \in DOMAIN m : m[i] \subseteq tiles /\ IsLegal(m[i])
              /\ \A i, j \in DOMAIN m : i # j => m[i] \cap m[j] = {}
              /\ FoldSeq(LAMBDA g, sum : sum + SetScore(g), 0, m) >= 30
        /\ \A j \in Jokers(tiles) : \A g \in B!SetsWithJoker(tiles, j) :
              /\ IsLegal(Range(g))
              /\ \A i \in {k \in 1 .. 3 : g[k] = j} :
                    \A t \in B!ReplacementsForJoker(g, i, Universe) :
                        IsLegal(Range([g EXCEPT ![i] = t]))
        /\ \A table \in Tables \cup {LongRun} :
              LET laid == [k \in DOMAIN table |->
                              SetToSortSeq(table[k], LAMBDA t, u : t.number < u.number)]
              IN  \A r \in B!Rearrangements(laid, tiles) :
                      ValidateTurnConfirm(table, [k \in DOMAIN r.table |-> Range(r.table[k])],
                                          r.fromRack, TRUE, {})

Settings(registry) ==
    LET ids == {NotSet, "misspelt"} \cup registry.registered
    IN  [legacy : BOOLEAN, global : ids, model : ids]

\* Whatever the environment says, a model is asked with something registered,
\* with what its own setting names before what the global one names, and with
\* its default only when neither says anything.
SettingsAreFollowed ==
    \A registry \in {PromptsOf("openai"), PromptsOf("dashscope"), Shapers} : \A env \in Settings(registry) :
        LET used == Resolve(registry, env, NotSet)
        IN  /\ used \in registry.registered
            /\ env.model \in registry.registered => used = env.model
            /\ (env.model = NotSet /\ env.global \in registry.registered) => used = env.global
            /\ used = registry.builtin /\ used # registry.fallback =>
                   used \in {env.model, env.global} \/ GlobalId(env) = NotSet
            /\ \A asked \in registry.registered : Resolve(registry, env, asked) = asked

\* A pair with a number missing between its tiles, put to a run of the board.
GappedMerge(h) == h.kind = "pair-to-board-run-merge" /\ Gap(h.tiles \cap tiles) = 2

\* What a hint puts together is a set for the server, with a joker the rack
\* has, and for no more points than the server gives (JokerHinterShaper,
\* PairWarmupShaper).  There is one kind of wrong hint and no other: a pair
\* with a gap is offered for a run of the board, and that is never a set.  The
\* hint of the practice mode is true of the hand (getHint).
HintsAreSets ==
    universe = "rack" =>
        /\ \A table \in Tables, melded \in BOOLEAN :
              \A h \in UNION (JokerHints(tiles, ToSet(table))
                              \cup PairHints(tiles, ToSet(table), melded)) :
                  \A j \in IF h.joker THEN Jokers(tiles) ELSE {{}} :
                      LET g == IF h.joker THEN h.tiles \cup {j} ELSE h.tiles
                      IN  IF GappedMerge(h) THEN ~IsLegal(g)
                          ELSE IsLegal(g) /\ h.score <= SetScore(g)
        /\ LET hand == Coded(Plain(tiles))
               legal == {g \in SUBSET Plain(tiles) : IsLegal(g)}
           IN  /\ C!GetHint(<<>>, hand) = "group" => \E g \in legal : SetType(g) = "group"
               /\ C!GetHint(<<>>, hand) = "run" => \E g \in legal : SetType(g) = "run"
               /\ C!GetHint(<<>>, hand) = "drag" => legal = {}

-----------------------------------------------------------------------------
(* The verdicts of the trials *)

Calls(k, Call(_)) ==
    LET runs == RunsOf(answers, Variants, k) IN [i \in DOMAIN runs |-> Call(runs[i])]
AsIs(a) == a
WholeRounds == answers # <<>> /\ Len(answers) % Variants = 0
SameRuns(a, b) == \E p \in Permutations(DOMAIN a) : \A i \in DOMAIN a : a[i] = b[p[i]]
AtLeastAsGood(r, old) ==
    r.ok /\ r.latency <= old.latency /\ r.tokens <= old.tokens /\ r.tiles >= old.tiles

\* Two answers never show that each prompt is followed better than the other,
\* and the same answers to both show nothing; an answer of v4.1 that is as
\* fast, as short and lays as many tiles does not cost it its promotion, nor
\* makes a failure of it; a small model that lays a first meld whenever there
\* is one passes the benchmark, and one that only draws does not
\* (decideVerdict, decideVerdictMulti, decideV41Verdict, SCENARIOS and main
\* of the benchmark).  Two variants that are compared as identical are so in
\* every row with a third, what is added one way is removed the other, and
\* the tokens of a row are those of its cells but for the rounding (ab-eval).
VerdictsAreFair ==
    /\ universe = "gpt" /\ WholeRounds =>
          LET v2 == Calls(1, CallOpenAi)  v4 == Calls(2, CallOpenAi)
              report == GptReport(v2, v4)
          IN  /\ report.advice = "switch to v4" => GptReport(v4, v2).advice # "switch to v4"
              /\ SameRuns(v2, v4) => report.verdict \in {"V4_IGNORED", "INCONCLUSIVE"}
    /\ universe = "deepseek" /\ WholeRounds =>
          LET v2 == Calls(1, CallDeepseek)  v4 == Calls(2, CallDeepseek)
              v41 == Calls(3, CallDeepseek)
              verdict == DeepseekReport(v2, v4, v41).verdict
          IN  \A a \in DeepseekAnswers :
                  LET better == [v41 EXCEPT ![Len(v41)] = CallDeepseek(a)]
                      after  == DeepseekReport(v2, v4, better).verdict
                  IN  Last(v41).ok /\ AtLeastAsGood(CallDeepseek(a), Last(v41)) =>
                          /\ verdict = "V4_1_PASS" => after = "V4_1_PASS"
                          /\ after = "V4_1_FAIL" => verdict = "V4_1_FAIL"
    /\ universe = "bench" /\ Len(answers) = 2 * Len(Scenarios) =>
          LET v2 == Calls(1, AsIs)  v7 == Calls(2, AsIs)
              Draws(i) == v7[i].action = "draw"
              Melds(i) == v7[i].action = "place" /\ v7[i].tiles \in MeldsOfScenario[i]
          IN  /\ (\A i \in DOMAIN v7 : IF MeldsOfScenario[i] = {} THEN Draws(i) ELSE Melds(i))
                    => Passed(v2, v7) /\ DrawCorrect(v7) = 1
              /\ (\A i \in DOMAIN v7 : Draws(i)) => ~Passed(v2, v7)
    /\ universe = "prompts" /\ WholeRounds =>
          LET built == [k \in 1 .. 3 |-> Calls(k, AsIs)]
              rows == Rows(built)
              back == Rows(<<built[3], built[2], built[1]>>)[<<1, 3>>]
          IN  /\ rows[<<2, 3>>].identical => rows[<<1, 2>>] = rows[<<1, 3>>]
              /\ rows[<<1, 3>>].systemAdded = back.systemRemoved
              /\ rows[<<1, 3>>].decisionAdded = back.decisionRemoved
              /\ Conclusions(rows).identical # 2
              /\ Conclusions(rows).identical = 3 => Conclusions(rows).maxImpact = 0
              /\ \A i \in DOMAIN built[1] :
                    ComparePair(built[1][i], built[2][i]).tokenDelta
                      - (TotalTokens(built[2][i]) - TotalTokens(built[1][i])) \in -2 .. 2

-----------------------------------------------------------------------------
(* The properties of the run *)

\* The server's rules are those of the game: it takes exactly the legal sets,
\* and values each for the most it can be read as (ValidateTileSet, runScore).
EngineKeepsTheRules == AcceptsExactlyLegalSets /\ ScoreIsBestReadingOfItsType

\* Every copy of the rules on the client decides as the server does, and the
\* moves the board offers are those that leave legal sets.
ClientKeepsTheRules == CopiesAgreeWithTheServer /\ ClientOffersLegalMoves

\* What the planner of the small models and the playtest script compute by
\* themselves is taken by the server.
PlansKeepTheRules == PlannedMovesAreAccepted /\ PlaytestSetsAreLegal

\* What a prompt tells a model is true of its rack, but for the one kind of
\* wrong hint, and the prompt is the one the settings name.
PromptsAreTrue == HintsAreSets /\ SettingsAreFollowed

=============================================================================
