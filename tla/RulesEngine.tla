---------------------------- MODULE RulesEngine ----------------------------
(***************************************************************************)
(* The pure rules of game-server's engine package: what is a group, a run, *)
(* a valid set on the table, and what it scores (group.go, run.go,         *)
(* validator.go).  The engine is given a slice of tiles; every test it     *)
(* makes sorts or counts it, so a set of tiles is enough.                  *)
(*                                                                         *)
(* A tile is [color, number, copy]; the two jokers have color "JK".        *)
(***************************************************************************)
EXTENDS Integers, FiniteSets, FiniteSetsExt

Color     == {"R", "B", "Y", "K"}
MaxNumber == 13

NumberTile(c, n, k) == [color |-> c, number |-> n, copy |-> k]
JokerTile(k)        == [color |-> "JK", number |-> 0, copy |-> k]

IsJoker(t)  == t.color = "JK"
Jokers(g)   == {t \in g : IsJoker(t)}
Plain(g)    == g \ Jokers(g)
Numbers(g)  == {t.number : t \in Plain(g)}
Colors(g)   == {t.color : t \in Plain(g)}

\* ValidateGroup: 3 or 4 tiles, one number, no color twice, not only jokers.
ValidateGroup(g) ==
    /\ Cardinality(g) \in 3 .. 4
    /\ Cardinality(Numbers(g)) = 1
    /\ Cardinality(Colors(g)) = Cardinality(Plain(g))

\* Mutant of RunBounds: the start is not moved up to 1.
RunBoundsBelowOne(g) ==
    LET start == Min(Numbers(g)) - Cardinality(Jokers(g))
    IN  /\ Max(Numbers(g)) - Min(Numbers(g)) + 1 <= Cardinality(g)
        /\ start + Cardinality(g) - 1 <= MaxNumber

\* checkRunBounds: the plain tiles span no more than the run, and the run
\* that puts every joker first, moved up to start at 1, ends by 13.
RunBounds(g) ==
    LET span  == Max(Numbers(g)) - Min(Numbers(g)) + 1
        start == Max({1, Min(Numbers(g)) - Cardinality(Jokers(g))})
    IN  span <= Cardinality(g) /\ start + Cardinality(g) - 1 <= MaxNumber

\* ValidateRun: one color, no number twice, bounds, not only jokers.
ValidateRun(g) ==
    /\ Cardinality(g) >= 3
    /\ Cardinality(Colors(g)) = 1
    /\ Cardinality(Numbers(g)) = Cardinality(Plain(g))
    /\ RunBounds(g)

\* ValidateTileSet: the group reading is tried first.
SetType(g) ==
    CASE Cardinality(g) >= 3 /\ ValidateGroup(g) -> "group"
      [] OTHER -> IF ValidateRun(g) THEN "run" ELSE "invalid"

\* groupScore: a joker counts for the number of the group.
GroupScore(g) == Cardinality(g) * Min(Numbers(g))

\* Mutant of RunScore: every joker left over goes before the lowest tile.
RunScoreJokersFirst(g) ==
    LET lo        == Min(Numbers(g))
        gaps      == (Max(Numbers(g)) - lo + 1) - Cardinality(Plain(g))
        start     == Max({1, lo - (Cardinality(Jokers(g)) - gaps)})
    IN  MapThenSumSet(LAMBDA i : start + i, 0 .. Cardinality(g) - 1)

\* runScore: jokers fill the gaps, then go after the highest tile, then, past
\* 13, before the lowest.
RunScore(g) ==
    LET lo        == Min(Numbers(g))
        hi        == Max(Numbers(g))
        gaps      == (hi - lo + 1) - Cardinality(Plain(g))
        remaining == Max({0, Cardinality(Jokers(g)) - gaps})
        after     == IF hi + remaining > MaxNumber THEN MaxNumber - hi ELSE remaining
        start     == Max({1, lo - (remaining - after)})
    IN  MapThenSumSet(LAMBDA i : start + i, 0 .. Cardinality(g) - 1)

\* The score validateInitialMeld adds for a set on the table.
SetScore(g) ==
    CASE SetType(g) = "group" -> GroupScore(g)
      [] SetType(g) = "run"   -> RunScore(g)
      [] OTHER                -> 0

\* tileScore of the service: what a tile left in a rack is worth.
TileScoreOf(t) == IF IsJoker(t) THEN 30 ELSE t.number

-----------------------------------------------------------------------------
(* The validator of a turn.  A table is a sequence of sets of tiles; laid   *)
(* are the tiles that left the rack.                                        *)

CountOf(t, table) == Cardinality({i \in DOMAIN table : t \in table[i]})
TilesOn(table) == UNION {table[i] : i \in DOMAIN table}
CountTableTiles(table) == MapThenSumSet(LAMBDA i : Cardinality(table[i]), DOMAIN table)

\* validateInitialMeld: nothing of the table is touched, and the sets that are
\* wholly from the rack score thirty.
ValidateInitialMeld(before, after, laid) ==
    /\ \A t \in TilesOn(before) : CountOf(t, after) >= CountOf(t, before)
    /\ laid # {}
    /\ MapThenSumSet(LAMBDA i : SetScore(after[i]),
                     {i \in DOMAIN after : after[i] \subseteq laid}) >= 30

\* validateTileConservation: no tile leaves the table but a returned joker.
ValidateTileConservation(before, after, returned) ==
    \A t \in TilesOn(before) :
        CountOf(t, after) >= CountOf(t, before) - (IF t \in returned THEN 1 ELSE 0)

\* ValidateTurnConfirm; returned are the jokers the player says he took back.
ValidateTurnConfirm(before, after, laid, melded, returned) ==
    /\ \A i \in DOMAIN after : SetType(after[i]) # "invalid"
    /\ CountTableTiles(after) > CountTableTiles(before)
    /\ melded \/ ValidateInitialMeld(before, after, laid)
    /\ returned \subseteq TilesOn(after)
    /\ ValidateTileConservation(before, after, returned)

=============================================================================
