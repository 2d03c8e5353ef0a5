--------------------------- MODULE OllamaPlanner ---------------------------
(***************************************************************************)
(* The moves the ai-adapter computes for a small model, which then only    *)
(* copies them: the prompts v8-ollama-place and v9-ollama-place, and the   *)
(* bot of the playtests has helpers of the same kind.                      *)
(*                                                                         *)
(* A rack is a set of tiles; its order, which the code's "first found"     *)
(* depends on, appears as two choices: first, the copies of the rack that  *)
(* come before their twins, and joker, the joker that comes first.  An     *)
(* operator that stops at what it finds first returns the set of what it   *)
(* may find.  The order of the tiles in a set does not matter to anyone.   *)
(***************************************************************************)
EXTENDS RulesEngine, SequencesExt, TLC

Draw == [action |-> "draw"]
Place(table, fromRack) == [action |-> "place", table |-> table, fromRack |-> fromRack]

\* The elements of a set in some order.
Listed(S) == FoldSet(LAMBDA x, list : Append(list, x), <<>>, S)

\* For every color and number of the rack, one copy of it.
Firsts(rack) ==
    {H \in SUBSET Plain(rack) :
        /\ \A t \in Plain(rack) : \E u \in H : u.color = t.color /\ u.number = t.number
        /\ \A t, u \in H : t.color = u.color /\ t.number = u.number => t = u}

Disjoint(sets) == \A a, b \in sets : a # b => a \cap b = {}
OfNumber(H, n) == {t \in H : t.number = n}
OfColor(H, c) == {t \in H : t.color = c}
Segment(H, c, lo, hi) == {t \in OfColor(H, c) : t.number \in lo .. hi}
Full(H, c, lo, hi) == Cardinality(Segment(H, c, lo, hi)) = hi - lo + 1

-----------------------------------------------------------------------------
(* Candidate sets of a rack *)

\* findValidGroups: three of the colors held, all four, or jokers for the rest.
FindValidGroups(H, js, joker) ==
    UNION {LET held == OfNumber(H, n)
           IN  CASE Cardinality(held) >= 3 ->
                       {g \in SUBSET held : Cardinality(g) \in {3, 4}}
                 [] Cardinality(held) = 2 /\ js # {} -> {held \cup {joker}}
                 [] Cardinality(held) = 1 /\ Cardinality(js) >= 2 -> {held \cup js}
                 [] OTHER -> {}
             : n \in 1 .. MaxNumber}

\* v8 findValidRuns, v9 findPureRuns: three or more in a row.
FindPureRuns(H) ==
    {Segment(H, q[1], q[2], q[3]) : q \in
        {p \in Color \X (1 .. MaxNumber) \X (1 .. MaxNumber) :
            p[3] >= p[2] + 2 /\ Full(H, p[1], p[2], p[3])}}

\* v8 has no runs with jokers.
CandidatesV8(H, js, joker) == FindValidGroups(H, js, joker) \cup FindPureRuns(H)

\* Mutant: the joker is put into a gap of two as well.
JokerRunsAnyGap(H, joker) ==
    {Segment(H, q[1], q[2], q[2] + q[3]) \cup {joker} : q \in
        {p \in Color \X (1 .. MaxNumber - 2) \X {2, 3} :
            /\ Cardinality(Segment(H, p[1], p[2], p[2] + p[3])) = 2
            /\ Segment(H, p[1], p[2] + 1, p[2] + p[3] - 1) = {}}}

\* One joker: in a gap of one, or at an end of a whole segment of two or more.
JokerRuns(H, joker) ==
    {Segment(H, q[1], q[2], q[2] + 2) \cup {joker} : q \in
        {p \in Color \X (1 .. MaxNumber - 2) :
            /\ Cardinality(Segment(H, p[1], p[2], p[2] + 2)) = 2
            /\ Segment(H, p[1], p[2] + 1, p[2] + 1) = {}}}
    \cup
    {Segment(H, q[1], q[2], q[3]) \cup {joker} : q \in
        {p \in Color \X (1 .. MaxNumber) \X (1 .. MaxNumber) :
            /\ p[3] > p[2] /\ Full(H, p[1], p[2], p[3])
            /\ Segment(H, p[1], p[2] - 1, p[2] - 1) = {}
            /\ Segment(H, p[1], p[3] + 1, p[3] + 1) = {}
            /\ p[2] > 1 \/ p[3] < MaxNumber}}

FindValidRunsV9(H, js, joker) ==
    FindPureRuns(H) \cup (IF js = {} THEN {} ELSE JokerRuns(H, joker))

CandidatesV9(H, js, joker) ==
    FindValidGroups(H, js, joker) \cup FindValidRunsV9(H, js, joker)

-----------------------------------------------------------------------------
(* Scores *)

\* v8 scoreSet: a joker is thirty points.
ScoreSet(g) == MapThenSumSet(LAMBDA t : IF IsJoker(t) THEN 30 ELSE t.number, g)

\* v9 scoreSetWithJoker: the server's groupScore and runScore once more (the
\* average of an undecided set is left out, no candidate is one).
ScoreSetWithJoker(g) ==
    LET ns     == Numbers(g)
        spare  == Max({0, Cardinality(Jokers(g)) - (Max(ns) - Min(ns) + 1 - Cardinality(Plain(g)))})
        before == Max({0, spare - Min({spare, MaxNumber - Max(ns)})})
        start  == Max({1, Min(ns) - before})
    IN  CASE Plain(g) = {} -> 0
          [] Plain(g) # {} /\ Cardinality(ns) = 1 -> Cardinality(g) * Min(ns)
          [] OTHER -> MapThenSumSet(LAMBDA i : start + i, 0 .. Cardinality(g) - 1)

ScoreOf(sets) == MapThenSumSet(ScoreSetWithJoker, sets)

-----------------------------------------------------------------------------
(* The initial meld *)

\* v8 findMeldFor30: the smallest set of thirty, else any two, else any three.
FindMeldFor30(H, js, joker) ==
    LET all    == CandidatesV8(H, js, joker)
        enough == {S \in UNION {kSubset(k, all) : k \in 1 .. 3} :
                      Disjoint(S) /\ MapThenSumSet(ScoreSet, S) >= 30}
        single == {S \in enough : Cardinality(S) = 1}
        least  == {S \in single : \A R \in single :
                      Cardinality(UNION S) <= Cardinality(UNION R)}
    IN  IF single # {}
        THEN {S \in least : \A R \in least : MapThenSumSet(ScoreSet, S) >= MapThenSumSet(ScoreSet, R)}
        ELSE {S \in enough : \A R \in enough : Cardinality(S) <= Cardinality(R)}

\* The order of the search: the longest first, then the highest score.
SearchOrder(all) ==
    SortSeq(Listed(all), LAMBDA a, b :
        \/ Cardinality(a) > Cardinality(b)
        \/ Cardinality(a) = Cardinality(b) /\ ScoreSetWithJoker(a) > ScoreSetWithJoker(b))

\* estimateMax: what the candidates after the i-th give when they are taken
\* one by one while they are disjoint.
EstimateMax(order, i) ==
    FoldLeft(LAMBDA acc, c :
                 IF c \cap acc.used # {} THEN acc
                 ELSE [used |-> acc.used \cup c, score |-> acc.score + ScoreSetWithJoker(c)],
             [used |-> {}, score |-> 0],
             SubSeq(order, i + 1, Len(order))).score

\* Disjoint families of at most five candidates, their first one unpruned.
Families(order) ==
    LET from[i \in 1 .. Len(order) + 1] ==
            IF i > Len(order) THEN {{}}
            ELSE from[i + 1] \cup
                 {S \cup {order[i]} : S \in {R \in from[i + 1] :
                      Cardinality(R) < 5 /\ \A r \in R : r \cap order[i] = {}}}
    IN  UNION {{S \cup {order[i]} : S \in {R \in from[i + 1] :
                      Cardinality(R) < 5 /\ \A r \in R : r \cap order[i] = {}}}
                 : i \in {k \in 1 .. Len(order) :
                      ScoreSetWithJoker(order[k]) + EstimateMax(order, k) >= 30}}

\* v9 findOptimalInitialMeld: most tiles, then most points (its timeout of
\* half a second is left out).
FindOptimalInitialMeld(H, js, joker) ==
    LET enough == {S \in Families(SearchOrder(CandidatesV9(H, js, joker))) : ScoreOf(S) >= 30}
        better(S, R) ==
            \/ Cardinality(UNION S) > Cardinality(UNION R)
            \/ Cardinality(UNION S) = Cardinality(UNION R) /\ ScoreOf(S) > ScoreOf(R)
    IN  {S \in enough : \A R \in enough : ~better(R, S)}

-----------------------------------------------------------------------------
(* After the initial meld.  A table is a sequence of sets of tiles. *)

\* v9 findNewRackSets: the longest candidates first, at most four.
FindNewRackSets(H, js, joker) ==
    LET all == CandidatesV9(H, js, joker)
        open(S) == {c \in all : c \cap UNION S = {}}
        longest(S) == {c \in open(S) : \A d \in open(S) : Cardinality(c) >= Cardinality(d)}
        taken[k \in 0 .. 4] ==
            IF k = 0 THEN {{}}
            ELSE UNION {IF open(S) = {} THEN {S} ELSE {S \cup {c} : c \in longest(S)}
                          : S \in taken[k - 1]}
    IN  taken[4]

IsPlainGroup(g) == Cardinality(Numbers(g)) = 1 /\ Cardinality(Colors(g)) = Cardinality(Plain(g))
IsOneColor(g) == Cardinality(Colors(g)) = 1 /\ Cardinality(Plain(g)) >= 2

\* v8 findTableExtension: one tile for the first group that takes one.  The
\* jokers of a run are not looked at.
FindTableExtension(table, rack) ==
    LET fits(g) ==
            IF IsPlainGroup(g) /\ Cardinality(g) < 4
            THEN {t \in Plain(rack) : t.number \in Numbers(g) /\ t.color \notin Colors(g)}
            ELSE IF IsOneColor(g)
            THEN {t \in Plain(rack) : t.color \in Colors(g)
                                      /\ t.number \in {Max(Numbers(g)) + 1, Min(Numbers(g)) - 1}}
            ELSE {}
        at == SelectInSeq(table, LAMBDA g : fits(g) # {})
    IN  IF at = 0 THEN {} ELSE {[at |-> at, tile |-> t] : t \in fits(table[at])}

\* The tiles of the rack that lengthen a run upwards and downwards from hand.
Upwards(hand, c, n) ==
    {t \in OfColor(hand, c) : t.number > n /\ \A m \in n + 1 .. t.number :
        \E u \in OfColor(hand, c) : u.number = m}
Downwards(hand, c, n) ==
    {t \in OfColor(hand, c) : t.number < n /\ \A m \in t.number .. n - 1 :
        \E u \in OfColor(hand, c) : u.number = m}

\* What findAllExtensions adds to one group from hand, one copy of each tile.
ExtensionOf(g, hand) ==
    CASE Jokers(g) # {} -> {}
      [] Jokers(g) = {} /\ IsPlainGroup(g) ->
            IF Cardinality(g) < 4
            THEN {t \in hand : t.number \in Numbers(g) /\ t.color \notin Colors(g)}
            ELSE {}
      [] Jokers(g) = {} /\ IsOneColor(g) /\ ~IsPlainGroup(g) ->
            LET c == CHOOSE c \in Colors(g) : TRUE
            IN  Upwards(hand, c, Max(Numbers(g))) \cup Downwards(hand, c, Min(Numbers(g)))
      [] OTHER -> {}

\* v9 findAllExtensions: group after group, a tile used once.
FindAllExtensions(table, rack) ==
    LET after[i \in 0 .. Len(table)] ==
            IF i = 0 THEN {[table |-> table, used |-> {}]}
            ELSE UNION {{[table |-> [m.table EXCEPT ![i] = @ \cup ExtensionOf(@, H)],
                          used |-> m.used \cup ExtensionOf(table[i], H)]
                           : H \in Firsts(rack \ m.used)} : m \in after[i - 1]}
    IN  {m \in after[Len(table)] : m.used # {}}

\* v9 findRunSplits: a run of six or more without a joker is cut in two, and a
\* tile put to an end of it (there is no gap at the cut of a legal run).
FindRunSplits(table, rack) ==
    LET long(g) == Jokers(g) = {} /\ Cardinality(Colors(g)) = 1 /\ Cardinality(g) >= 6
        ends(g) == {t \in Plain(rack) : t.color \in Colors(g)
                                        /\ t.number \in {Min(Numbers(g)) - 1, Max(Numbers(g)) + 1}}
        at == SelectInSeq(table, LAMBDA g : long(g) /\ ends(g) # {})
        cut == Min(Numbers(table[at])) + 3
        low(t) == {u \in table[at] \cup {t} : u.number < cut}
        high(t) == {u \in table[at] \cup {t} : u.number >= cut}
    IN  IF at = 0 THEN {}
        ELSE {[table |-> SubSeq(table, 1, at - 1) \o <<low(t), high(t)>>
                            \o SubSeq(table, at + 1, Len(table)),
               used |-> {t}] : t \in ends(table[at])}

\* tryMakeSetWithJoker: a candidate with the joker; when the rack has another,
\* that one comes first.
TryMakeSetWithJoker(joker, rack) ==
    UNION {LET js == Jokers(rack) \cup {joker}
               head == IF Jokers(rack) = {} THEN joker ELSE CHOOSE j \in Jokers(rack) : TRUE
           IN  {g \in CandidatesV9(H, js, head) : joker \in g}
             : H \in Firsts(rack)}

\* Mutant: the recovered joker need not be used again.
FindJokerExchangeKept(table, rack) ==
    UNION {{[table |-> [table EXCEPT ![i] = (@ \ {p[1]}) \cup {p[2]}], used |-> {p[2]}]
              : p \in {q \in Jokers(table[i]) \X Plain(rack) :
                    /\ IsPlainGroup(table[i])
                    /\ q[2].number \in Numbers(table[i]) /\ q[2].color \notin Colors(table[i])}}
             : i \in 1 .. Len(table)}

\* v9 findJokerExchange: the joker of a group is replaced by a missing color if
\* the rack has a set to put it in.
FindJokerExchange(table, rack) ==
    UNION {UNION {{[table |-> Append([table EXCEPT ![i] = (@ \ {p[1]}) \cup {p[2]}], s),
                    used |-> {p[2]} \cup (s \ {p[1]})]
                     : s \in TryMakeSetWithJoker(p[1], rack \ {p[2]})}
              : p \in {q \in Jokers(table[i]) \X Plain(rack) :
                    /\ IsPlainGroup(table[i])
                    /\ q[2].number \in Numbers(table[i]) /\ q[2].color \notin Colors(table[i])}}
             : i \in 1 .. Len(table)}

\* v9 findOptimalPostMeldMove: of five strategies the one that lays most tiles.
FindOptimalPostMeldMove(table, rack, endgame) ==
    LET new == {S \in UNION {UNION {FindNewRackSets(H, Jokers(rack), j)
                                      : j \in IF Jokers(rack) = {} THEN {JokerTile(1)} ELSE Jokers(rack)}
                               : H \in Firsts(rack)} : S # {}}
        ext == FindAllExtensions(table, rack)
        laid    == {Place(table \o Listed(S), UNION S) : S \in new}
        grown   == {Place(m.table, m.used) : m \in ext}
        both    == {Place(p[1].table \o Listed(p[2]), p[1].used \cup UNION p[2])
                      : p \in {q \in ext \X new : q[1].used \cap UNION q[2] = {}}}
        split   == IF endgame \/ laid \cup grown = {}
                   THEN {Place(m.table, m.used) : m \in FindRunSplits(table, rack)} ELSE {}
        swapped == IF endgame
                   THEN {Place(m.table, m.used) : m \in FindJokerExchange(table, rack)}
                   ELSE {}
        all == laid \cup grown \cup both \cup split \cup swapped
    IN  {m \in all : \A o \in all : Cardinality(m.fromRack) >= Cardinality(o.fromRack)}

-----------------------------------------------------------------------------
(* The prompts: the move the model is told to copy *)

FirstJokers(rack) == IF Jokers(rack) = {} THEN {JokerTile(1)} ELSE Jokers(rack)

OrDraw(moves) == IF moves = {} THEN {Draw} ELSE moves

\* buildV8OllamaPlaceUserPrompt.
V8Moves(table, rack, melded) ==
    IF ~melded
    THEN OrDraw(UNION {UNION {{Place(Listed(S), UNION S) : S \in FindMeldFor30(H, Jokers(rack), j)}
                                : j \in FirstJokers(rack)} : H \in Firsts(rack)})
    ELSE OrDraw({Place([table EXCEPT ![e.at] = @ \cup {e.tile}], {e.tile})
                   : e \in FindTableExtension(table, rack)})

\* buildV9OllamaPlaceUserPrompt.
V9Moves(table, rack, melded, endgame) ==
    IF ~melded
    THEN OrDraw(UNION {UNION {{Place(table \o Listed(S), UNION S)
                                 : S \in FindOptimalInitialMeld(H, Jokers(rack), j)}
                                : j \in FirstJokers(rack)} : H \in Firsts(rack)})
    ELSE OrDraw(FindOptimalPostMeldMove(table, rack, endgame))

=============================================================================
