------------------------------- MODULE Trials -------------------------------
(***************************************************************************)
(* The trials of the prompts, and what they conclude: v2 against v4 on     *)
(* GPT, v2, v4 and v4.1 on DeepSeek (scripts/verify-*-empirical.ts), v2    *)
(* against v7 on a small local model (bench-ollama-v7-meld.ts), any        *)
(* prompts line by line (ab-eval.ts).                                      *)
(*                                                                         *)
(* A trial asks the variants in turn about one position, N times each.  An *)
(* answer is what came over the line: nothing, or texts in which there may *)
(* be a whole JSON object, a broken one, or none.  Means, deviations and   *)
(* effect sizes are ratios of integers here, compared without rounding.    *)
(***************************************************************************)
EXTENDS RulesEngine, SequencesExt

\* A move of which nothing can be read.
Unread == [tiles |-> 0, mentions |-> 0]

\* JSON.parse of a text, analyzeMove of its result.
AnalyzeMove(text) == IF text.json = "whole" THEN text.move ELSE Unread

Result(a, text, tokens) ==
    [ok |-> a.answered, latency |-> a.latency, tokens |-> IF a.answered THEN tokens ELSE 0,
     tiles |-> IF a.answered THEN AnalyzeMove(text).tiles ELSE 0,
     mentions |-> IF a.answered THEN AnalyzeMove(text).mentions ELSE 0]

\* callOpenAi: the thought is known by the tokens the usage reports.
CallOpenAi(a) == Result(a, a.content, a.thought)

\* callDeepseek: the first block of braces of the content, or of the thought
\* when the content has none; a broken block is not looked past.  The tokens
\* are the length of the thought.
CallDeepseek(a) ==
    Result(a, IF a.content.json # "none" THEN a.content ELSE a.reasoning, a.thought)

\* main: the variants are called in turn, and their answers kept apart.
RunsOf(answers, variants, k) ==
    [i \in 1 .. Len(answers) \div variants |-> answers[(i - 1) * variants + k]]

Answered(runs) == SelectSeq(runs, LAMBDA r : r.ok)
Total(s) == FoldSeq(LAMBDA x, sum : sum + x, 0, s)

\* computeStats of one quantity: the mean is sum / n, and the variance
\* spread / (n * (n - 1)).
Stats(runs, field) ==
    LET ok == Answered(runs)
        samples == [i \in DOMAIN ok |-> ok[i][field]]
    IN  [n |-> Len(ok), sum |-> Total(samples),
         spread |-> Len(ok) * Total([i \in DOMAIN samples |-> samples[i] * samples[i]])
                      - Total(samples) * Total(samples)]

\* Cohen's d of b over a, the pooled deviation 1 when it is 0, is p/q or more.
EffectAtLeast(a, b, p, q) ==
    LET diff == b.sum * a.n - a.sum * b.n
        scale == a.n * b.n
        free(s) == s.n * Max({1, s.n - 1})
        var == a.spread * free(b) + b.spread * free(a)
    IN  /\ diff > 0
        /\ IF var = 0 THEN q * diff >= p * scale
           ELSE q * q * diff * diff * 2 * free(a) * free(b) >= p * p * var * scale * scale

MeanAtMost(a, b, p, q) == q * a.sum * b.n <= p * b.sum * a.n

-----------------------------------------------------------------------------
(* v2 against v4 on GPT *)

\* decideVerdict: one answer each, three signals.
DecideVerdict(v2, v4) ==
    LET base    == Max({1, v2.tokens})
        noField == v2.tokens = 0 /\ v4.tokens = 0
        more    == ~noField /\ 10 * v4.tokens >= 13 * base
        less    == ~noField /\ 10 * v4.tokens <= 7 * base
        One(b)  == IF b THEN 1 ELSE 0
        honored == 2 * One(more) + One(v4.tiles > v2.tiles) + One(v4.mentions > v2.mentions)
        ignored == One(~more /\ ~less) + One(v4.tiles < v2.tiles)
                     + One(v4.mentions = v2.mentions)
    IN  IF ~v2.ok \/ ~v4.ok THEN "INCONCLUSIVE"
        ELSE IF honored >= ignored + 2 THEN "V4_HONORED"
        ELSE IF ignored >= honored + 2 THEN "V4_IGNORED" ELSE "V4_MIXED"

\* Mutant: an effect in one quantity of the two is enough.
DecideVerdictMultiEither(v2, v4) ==
    LET t2 == Stats(v2, "tokens")  t4 == Stats(v4, "tokens")
        p2 == Stats(v2, "tiles")   p4 == Stats(v4, "tiles")
    IN  IF t2.n = 0 \/ t4.n = 0 THEN "INCONCLUSIVE"
        ELSE IF EffectAtLeast(t2, t4, 1, 2) \/ EffectAtLeast(p2, p4, 3, 10)
        THEN "V4_HONORED" ELSE "V4_IGNORED"

\* decideVerdictMulti: the effect sizes of the thought and of the tiles.
DecideVerdictMulti(v2, v4) ==
    LET t2 == Stats(v2, "tokens")  t4 == Stats(v4, "tokens")
        p2 == Stats(v2, "tiles")   p4 == Stats(v4, "tiles")
        small == /\ ~EffectAtLeast(t2, t4, 1, 2) /\ ~EffectAtLeast(t4, t2, 1, 2)
                 /\ ~EffectAtLeast(p2, p4, 1, 2) /\ ~EffectAtLeast(p4, p2, 1, 2)
    IN  IF t2.n = 0 \/ t4.n = 0 THEN "INCONCLUSIVE"
        ELSE IF small THEN "V4_IGNORED"
        ELSE IF EffectAtLeast(t2, t4, 1, 2) /\ EffectAtLeast(p2, p4, 3, 10) THEN "V4_HONORED"
        ELSE IF EffectAtLeast(t4, t2, 1, 2) \/ EffectAtLeast(p4, p2, 3, 10) THEN "V4_IGNORED"
        ELSE "V4_MIXED"

GptVerdict(v2Runs, v4Runs) ==
    IF Len(v2Runs) > 1 THEN DecideVerdictMulti(v2Runs, v4Runs)
    ELSE DecideVerdict(Last(v2Runs), Last(v4Runs))

GptAdvice(verdict) ==
    CASE verdict = "V4_HONORED" -> "switch to v4"
      [] verdict = "V4_IGNORED" -> "keep v2"
      [] verdict = "V4_MIXED"   -> "repeat with more fixtures"
      [] OTHER                  -> "run again"

\* renderReport: the verdict of all runs beside the numbers of the last one.
GptReport(v2Runs, v4Runs) ==
    LET verdict == GptVerdict(v2Runs, v4Runs)
    IN  [verdict |-> verdict, shown |-> <<Last(v2Runs), Last(v4Runs)>>,
         advice |-> GptAdvice(verdict)]

-----------------------------------------------------------------------------
(* v2, v4 and v4.1 on DeepSeek *)

\* As many tiles as v2 but half a one.
TilesHeld(p, p2) == 2 * p.sum * p2.n >= 2 * p2.sum * p.n - p.n * p2.n

\* C: the thought is a fifth shorter than v4's; when v4 shows none, no more
\* than a tenth longer than v2's.
ThoughtIsShorter(t41, t4, t2) ==
    IF t4.sum > 0 THEN MeanAtMost(t41, t4, 8, 10)
    ELSE MeanAtMost(t41, t2, 11, 10) \/ t41.sum <= t41.n

DecideV41Verdict(v2, v4, v41) ==
    LET l2 == Stats(v2, "latency") l4 == Stats(v4, "latency") l41 == Stats(v41, "latency")
        p2 == Stats(v2, "tiles")   p4 == Stats(v4, "tiles")   p41 == Stats(v41, "tiles")
        A == MeanAtMost(l41, l2, 12, 10)
        B == TilesHeld(p41, p2)
        C == ThoughtIsShorter(Stats(v41, "tokens"), Stats(v4, "tokens"), Stats(v2, "tokens"))
        v4Regressed == ~MeanAtMost(l4, l2, 12, 10) \/ ~TilesHeld(p4, p2)
    IN  IF l2.n = 0 \/ l4.n = 0 \/ l41.n = 0 THEN "INCONCLUSIVE"
        ELSE IF A /\ B /\ C THEN "V4_1_PASS"
        ELSE IF ~A THEN "V4_1_FAIL"
        ELSE IF C /\ ~B THEN "V4_1_PARTIAL"
        ELSE IF ~v4Regressed THEN "V4_1_NEUTRAL" ELSE "V4_1_PARTIAL"

DeepseekAdvice(verdict) ==
    CASE verdict = "V4_1_PASS"    -> "promote v4.1"
      [] verdict = "V4_1_FAIL"    -> "isolate another variable"
      [] verdict = "V4_1_PARTIAL" -> "enlarge N"
      [] verdict = "V4_1_NEUTRAL" -> "measure again in round 7"
      [] OTHER                    -> "run again"

DeepseekReport(v2Runs, v4Runs, v41Runs) ==
    LET verdict == DecideV41Verdict(v2Runs, v4Runs, v41Runs)
    IN  [verdict |-> verdict, shown |-> <<Last(v2Runs), Last(v4Runs), Last(v41Runs)>>,
         advice |-> DeepseekAdvice(verdict)]

-----------------------------------------------------------------------------
(* v2 against v7 on the local model *)

Rack(tiles) == {NumberTile(p[1], p[2], p[3]) : p \in tiles}

\* SCENARIOS: racks, and whether thirty points can be laid from them.
Scenarios ==
    << [myTiles |-> Rack({<<"R",10,"a">>, <<"B",10,"a">>, <<"K",10,"a">>, <<"R",5,"a">>,
                          <<"B",7,"b">>, <<"Y",2,"a">>, <<"Y",3,"a">>, <<"K",4,"a">>}),
        expectedMeldable |-> TRUE],
       [myTiles |-> Rack({<<"R",8,"a">>, <<"R",9,"a">>, <<"R",10,"a">>, <<"R",11,"a">>,
                          <<"B",2,"a">>, <<"K",4,"a">>, <<"Y",1,"a">>, <<"K",3,"a">>}),
        expectedMeldable |-> TRUE],
       [myTiles |-> Rack({<<"R",7,"a">>, <<"B",7,"a">>, <<"K",7,"a">>, <<"B",3,"a">>,
                          <<"B",4,"a">>, <<"B",5,"a">>, <<"Y",1,"a">>, <<"K",2,"a">>}),
        expectedMeldable |-> TRUE],
       [myTiles |-> Rack({<<"R",11,"a">>, <<"B",11,"a">>, <<"Y",11,"a">>, <<"R",2,"a">>,
                          <<"B",4,"a">>, <<"K",5,"b">>, <<"Y",6,"a">>, <<"K",8,"a">>}),
        expectedMeldable |-> TRUE],
       [myTiles |-> Rack({<<"R",5,"a">>, <<"B",3,"a">>, <<"K",9,"a">>, <<"Y",1,"a">>,
                          <<"R",2,"b">>, <<"B",8,"b">>, <<"K",11,"a">>, <<"Y",13,"a">>}),
        expectedMeldable |-> FALSE] >>

\* A joker counts nothing.
TileNumber(t) == IF IsJoker(t) THEN 0 ELSE t.number

\* parseMove: the points are the numbers of the tiles named, whatever they
\* make; what cannot be read, or did not come, is neither placed nor drawn.
ParseMove(a) ==
    [action |-> a.action,
     totalPoints |-> IF a.action = "place" THEN MapThenSumSet(TileNumber, a.tiles) ELSE 0]

MeldCount(r) ==
    Cardinality({i \in DOMAIN r : /\ Scenarios[i].expectedMeldable
                                  /\ ParseMove(r[i]).action = "place"
                                  /\ ParseMove(r[i]).totalPoints >= 30})

DrawCorrect(r) ==
    Cardinality({i \in DOMAIN r : /\ ~Scenarios[i].expectedMeldable
                                  /\ ParseMove(r[i]).action = "draw"})

Passed(v2, v7) == MeldCount(v7) >= 1 /\ MeldCount(v7) >= MeldCount(v2)

-----------------------------------------------------------------------------
(* Any prompts against each other, without a model (ab-eval.ts) *)

\* textStats: the characters, line ends among them, in fours.
Size(text) == Total([i \in DOMAIN text |-> text[i].length]) + Len(text) - 1
Tokens(chars) == (chars + 3) \div 4

\* evalCell: three texts, each rounded up.
TotalTokens(p) == Tokens(Size(p.system)) + Tokens(Size(p.user)) + Tokens(Size(p.retry))

\* lineDiff: the lines of one text that are nowhere in the other, blank ones left
\* out; where a line is, and how often, does not count.
LineDiff(a, b) ==
    LET New(text, old) == SelectSeq(text, LAMBDA l : l \notin ToSet(old) /\ ~l.blank)
    IN  [added |-> New(b, a), removed |-> New(a, b)]

\* decisionImpactScore: those of them that tell the model what to do.
DecisionImpact(diff) ==
    [added |-> Len(SelectSeq(diff.added, LAMBDA l : l.decides)),
     removed |-> Len(SelectSeq(diff.removed, LAMBDA l : l.decides))]

ComparePair(a, b) ==
    LET Chars(p) == Size(p.system) + Size(p.user) + Size(p.retry)
    IN  [system |-> LineDiff(a.system, b.system), user |-> LineDiff(a.user, b.user),
         impact |-> DecisionImpact(LineDiff(a.system, b.system)),
         tokenDelta |-> Tokens(Chars(b)) - Tokens(Chars(a)), identical |-> a = b]

\* summarizePairs: the seeds of a pair of variants on one row.
SummarizePairs(pairs) ==
    LET Sum(F(_)) == Total([i \in DOMAIN pairs |-> F(pairs[i])])
    IN  [identical |-> \A i \in DOMAIN pairs : pairs[i].identical,
         systemAdded |-> Sum(LAMBDA p : Len(p.system.added)),
         systemRemoved |-> Sum(LAMBDA p : Len(p.system.removed)),
         userAdded |-> Sum(LAMBDA p : Len(p.user.added)),
         userRemoved |-> Sum(LAMBDA p : Len(p.user.removed)),
         decisionAdded |-> Sum(LAMBDA p : p.impact.added),
         decisionRemoved |-> Sum(LAMBDA p : p.impact.removed),
         avgTokenDelta |-> (2 * Sum(LAMBDA p : p.tokenDelta) + Len(pairs)) \div (2 * Len(pairs))]

\* main: every two variants, a prompt of each for every seed.
Rows(built) ==
    [p \in {q \in (DOMAIN built) \X (DOMAIN built) : q[1] < q[2]} |->
        SummarizePairs([i \in DOMAIN built[p[1]] |-> ComparePair(built[p[1]][i], built[p[2]][i])])]

\* The conclusions of renderMarkdown.
Conclusions(rows) ==
    [identical |-> Cardinality({p \in DOMAIN rows : rows[p].identical}),
     maxImpact |-> Max({0} \cup {rows[p].decisionAdded + rows[p].decisionRemoved :
                                    p \in DOMAIN rows})]

=============================================================================
