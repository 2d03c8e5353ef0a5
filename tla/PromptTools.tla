---------------------------- MODULE PromptTools ----------------------------
(***************************************************************************)
(* What the prompts of the ai-adapter tell a model about its tiles         *)
(* (prompt/tile-utils.ts, prompt/shapers): which groups of the board are   *)
(* sets and runs, and the hints the two context shapers compute from them. *)
(*                                                                         *)
(* A rack and a group are sets of tiles, a board is a set of groups.  A    *)
(* hint is [kind, tiles, joker, score, confidence]: the tiles it puts       *)
(* together, whether with a joker (the code always names JK1), and the     *)
(* confidence in hundredths.  Where the code takes the first of several    *)
(* tiles or pairs of the rack, any of them may be it.                      *)
(***************************************************************************)
EXTENDS RulesEngine

\* isSet and isRun: the second asks that the numbers span the whole group.
IsSet(g) ==
    /\ Cardinality(g) \in {3, 4}
    /\ Cardinality(Numbers(g)) = 1
    /\ Cardinality(Colors(g)) = Cardinality(Plain(g))

IsRun(g) ==
    /\ Cardinality(g) >= 3
    /\ Cardinality(Colors(g)) = 1
    /\ Max(Numbers(g)) - Min(Numbers(g)) + 1 = Cardinality(g)

\* classifyGroups.
ClassifyGroup(g) == IF IsSet(g) THEN "set" ELSE IF IsRun(g) THEN "run" ELSE "unknown"

RunRange(g) == [min |-> Min(Numbers(g)), max |-> Max(Numbers(g))]

\* The hints with the highest confidence, at most n; ties go one way.
TopHints(hints, n) ==
    {H \in SUBSET hints :
        /\ Cardinality(H) = Min({n, Cardinality(hints)})
        /\ \A h \in H, o \in hints \ H : h.confidence >= o.confidence}

-----------------------------------------------------------------------------
(* Which prompt and which shaper a model is asked with (PromptRegistry,    *)
(* ShaperRegistry): a registry is [builtin, registered, fallback], the     *)
(* environment [legacy, global, model], NotSet where it says nothing.      *)

NotSet == "not set"

DefaultForModel(model) == IF model \in {"deepseek-reasoner", "dashscope"} THEN "v3" ELSE "v2"

PromptsOf(model) ==
    [builtin |-> DefaultForModel(model), fallback |-> "v2",
     registered |-> {"v2", "v2-zh", "v3", "v3-tuned", "v4", "v4.1", "v5", "v7-ollama-meld",
                     "v8-ollama-place", "v9-ollama-place", "character-ko"}]

Shapers ==
    [builtin |-> "passthrough", fallback |-> "passthrough",
     registered |-> {"passthrough", "joker-hinter", "pair-warmup"}]

\* loadEnvironmentOverrides: USE_V2_PROMPT, unless PROMPT_VARIANT says more.
GlobalId(env) ==
    IF env.global # NotSet THEN env.global ELSE IF env.legacy THEN "v2" ELSE NotSet

\* resolveVariantId, resolveShaperId, and what the diagnostics show.
ActiveId(registry, env) ==
    CASE env.model # NotSet -> env.model
      [] env.model = NotSet /\ GlobalId(env) # NotSet -> GlobalId(env)
      [] OTHER -> registry.builtin

\* resolve: what the code asks for first; a name nobody registered is not an
\* error, and stands for the fallback, not for what the model has by default.
Resolve(registry, env, asked) ==
    LET id == IF asked # NotSet THEN asked ELSE ActiveId(registry, env)
    IN  IF id \in registry.registered THEN id ELSE registry.fallback

-----------------------------------------------------------------------------
(* JokerHinterShaper: sets of three that a joker completes                 *)

\* findSetCandidates: two colors of a number.
FindSetCandidates(rack) ==
    {[kind |-> "joker-set-3", tiles |-> pair, joker |-> TRUE,
      score |-> 3 * Min(Numbers(pair)),
      confidence |-> IF 3 * Min(Numbers(pair)) >= 10 THEN 90 ELSE 70]
       : pair \in {p \in kSubset(2, Plain(rack)) :
                     Cardinality(Numbers(p)) = 1 /\ Cardinality(Colors(p)) = 2}}

\* Neighbors of one color in the order of the numbers.
Neighbors(rack) ==
    {p \in kSubset(2, Plain(rack)) :
        /\ Cardinality(Colors(p)) = 1 /\ Cardinality(Numbers(p)) = 2
        /\ \A t \in Plain(rack) : t.color \in Colors(p) =>
              t.number <= Min(Numbers(p)) \/ t.number >= Max(Numbers(p))}
Gap(p) == Max(Numbers(p)) - Min(Numbers(p))

\* Mutant: the joker may stand before 1 and after 13.
FindRunCandidatesPastTheEnds(rack) ==
    UNION {LET lo == Min(Numbers(p))
           IN  {[kind |-> "joker-run-3", tiles |-> p, joker |-> TRUE,
                 score |-> 3 * (s + 1), confidence |-> 85]
                  : s \in IF Gap(p) = 2 THEN {lo} ELSE {lo - 1, lo}}
             : p \in {q \in Neighbors(rack) : Gap(q) \in {1, 2}}}

\* findRunCandidates: the joker before, behind or between two neighbors.
FindRunCandidates(rack) ==
    UNION {LET lo == Min(Numbers(p))
               starts == IF Gap(p) = 2 THEN {lo}
                         ELSE {s \in {lo - 1, lo} : s >= 1 /\ s + 2 <= MaxNumber}
           IN  {[kind |-> "joker-run-3", tiles |-> p, joker |-> TRUE,
                 score |-> 3 * (s + 1), confidence |-> IF Gap(p) = 2 THEN 95 ELSE 85]
                  : s \in starts}
             : p \in {q \in Neighbors(rack) : Gap(q) \in {1, 2}}}

\* findBoardExtensions: the joker at an end of a run of three.
FindBoardExtensions(board) ==
    UNION {LET r == RunRange(g)
           IN  {[kind |-> "joker-run-extension", tiles |-> g, joker |-> TRUE,
                 score |-> 4 * s + 6, confidence |-> 60]
                  : s \in {n \in {r.min - 1, r.min} : n >= 1 /\ n + 3 <= MaxNumber}}
             : g \in {h \in board : ClassifyGroup(h) = "run" /\ Cardinality(h) = 3}}

\* reshape: at most three hints.
JokerHints(rack, board) ==
    IF Jokers(rack) = {} THEN {{}}
    ELSE TopHints(FindSetCandidates(rack) \cup FindRunCandidates(rack)
                    \cup FindBoardExtensions(board), 3)

-----------------------------------------------------------------------------
(* PairWarmupShaper: what a pair of the rack is good for                   *)

\* extractColorPairs and extractNumberPairs.
ExtractColorPairs(rack) == {p \in Neighbors(rack) : Gap(p) \in {1, 2}}
ExtractNumberPairs(rack) ==
    {p \in kSubset(2, Plain(rack)) :
        Cardinality(Numbers(p)) = 1 /\ Cardinality(Colors(p)) = 2}

\* matchBoardSets: one tile of the pair joins a set of the board.
MatchBoardSets(rack, board) ==
    UNION {UNION {{[kind |-> "pair-to-board-set", tiles |-> g \cup {t}, joker |-> FALSE,
                    score |-> t.number, confidence |-> 90]
                     : t \in {u \in p : u.color \notin Colors(g)}}
                    : g \in {h \in board : /\ ClassifyGroup(h) = "set"
                                           /\ Numbers(h) = Numbers(p)
                                           /\ Cardinality(h) < 4}}
             : p \in ExtractNumberPairs(rack)}

\* matchBoardRuns: the pair is put before or behind a run of the board.  Only
\* the side that joins is looked at, so a pair with a gap is offered as well.
MatchBoardRuns(rack, board) ==
    UNION {{[kind |-> "pair-to-board-run-merge", tiles |-> g \cup p, joker |-> FALSE,
             score |-> Min(Numbers(p)) + Max(Numbers(p)), confidence |-> 95]
              : g \in {h \in board : /\ ClassifyGroup(h) = "run"
                                     /\ Colors(h) = Colors(p)
                                     /\ \/ Max(Numbers(p)) + 1 = RunRange(h).min
                                        \/ Min(Numbers(p)) - 1 = RunRange(h).max}}
             : p \in ExtractColorPairs(rack)}

\* findSelfCompleteRuns: the third tile of a run is in the rack too.
FindSelfCompleteRuns(rack) ==
    UNION {{[kind |-> "pair-self-complete-run", tiles |-> p \cup {t}, joker |-> FALSE,
             score |-> Min(Numbers(p)) + Max(Numbers(p)) + t.number, confidence |-> 85]
              : t \in {u \in Plain(rack) :
                    /\ u.color \in Colors(p)
                    /\ IF Gap(p) = 2 THEN u.number = Min(Numbers(p)) + 1
                       ELSE u.number \in {Min(Numbers(p)) - 1, Max(Numbers(p)) + 1}}}
             : p \in ExtractColorPairs(rack)}

\* applyInitialMeldPenalty.
Penalized(h, melded) ==
    IF melded \/ h.score >= 30 THEN h
    ELSE [h EXCEPT !.confidence = Max({0, @ - 30})]

\* reshape: at most two hints.
PairHints(rack, board, melded) ==
    IF Cardinality(Plain(rack)) < 2 THEN {{}}
    ELSE TopHints({Penalized(h, melded) : h \in MatchBoardSets(rack, board)
                     \cup MatchBoardRuns(rack, board) \cup FindSelfCompleteRuns(rack)}, 2)

=============================================================================
