--------------------------- MODULE PracticeRules ---------------------------
(***************************************************************************)
(* The rules of the practice mode (frontend/src/lib/practice), which is    *)
(* played in the browser alone: what is a set, when a stage is cleared,    *)
(* and which hint is given.  It is the third copy of the game's rules, and *)
(* nothing compares it with the server's.                                  *)
(***************************************************************************)
EXTENDS ClientRules

ValidateGroup(ts) ==
    /\ Len(ts) \in {3, 4}
    /\ Regular(ts) # {}
    /\ OneNumber(ts) /\ NoColorTwice(ts)

\* Mutant of ValidateRun: the jokers at the ends are not kept inside 1 .. 13.
ValidateRunAnywhere(ts) ==
    /\ Len(ts) >= 3
    /\ Regular(ts) # {}
    /\ OneColor(ts) /\ NoNumberTwice(ts)
    /\ Span(Numbers(ts)) <= Len(ts)

ValidateRun(ts) ==
    /\ Len(ts) >= 3
    /\ Regular(ts) # {}
    /\ OneColor(ts) /\ NoNumberTwice(ts)
    /\ LET gaps == Span(Numbers(ts)) - Cardinality(Regular(ts))
           possibleStart == Max({1, Min(Numbers(ts)) - (JokerCount(ts) - gaps)})
       IN  /\ Span(Numbers(ts)) <= Len(ts)
           /\ gaps <= JokerCount(ts)
           /\ possibleStart + Len(ts) - 1 <= MAX_NUMBER

\* The declared type of a group only picks the wording of its error.
IsSet(ts) == ValidateGroup(ts) \/ ValidateRun(ts)

\* validateBoard: the ids of the groups in error.
ValidateBoard(groups) == {g.id : g \in {h \in ToSet(groups) : ~IsSet(h.tiles)}}

CalculateScore(groups) == ComputePendingScore([i \in 1 .. Len(groups) |-> groups[i].tiles])

\* isStageClear, the goals of the six stages.
IsStageClear(groups, goal) ==
    LET sets == {i \in 1 .. Len(groups) : IsSet(groups[i].tiles)}
    IN  CASE goal = "group"  -> \E i \in sets : ValidateGroup(groups[i].tiles)
          [] goal = "run"    -> \E i \in sets : ValidateRun(groups[i].tiles)
          [] goal = "joker"  -> \E i \in sets : JokerCount(groups[i].tiles) > 0
          [] goal = "multi"  -> /\ \E i \in sets : ValidateGroup(groups[i].tiles)
                                /\ \E i \in sets : ValidateRun(groups[i].tiles)
          [] goal = "master" -> MapThenSumSet(LAMBDA i : Len(groups[i].tiles), sets) >= 12

\* Three numbers of one color in a row.
RunInHand(hand) ==
    \E c \in Colors(hand), n \in Numbers(hand) :
        \A k \in 0 .. 2 : \E i \in Regular(hand) : hand[i][1] = c /\ hand[i][2] = n + k

GroupInHand(hand) ==
    \E n \in Numbers(hand) :
        Cardinality({hand[i][1] : i \in {j \in Regular(hand) : hand[j][2] = n}}) >= 3

\* getHint: the error of the board, then what the hand has to offer.
GetHint(board, hand) ==
    IF ValidateBoard(board) # {} THEN "error"
    ELSE IF JokerCount(hand) > 0 THEN "joker"
    ELSE IF GroupInHand(hand) THEN "group"
    ELSE IF RunInHand(hand) THEN "run"
    ELSE "drag"

\* The board's own decision where a tile dropped on the empty part of it goes.
ShouldCreateNewPracticeGroup(force, t, last) ==
    \/ force
    \/ /\ Regular(last) # {} /\ ~IsJoker(t)
       /\ \/ OneNumber(last) /\ ~OneColor(last) /\ (Numbers(last) # {t[2]} \/ Len(last) >= 4)
          \/ OneColor(last) /\ ~OneNumber(last) /\ Colors(last) # {t[1]}

=============================================================================
