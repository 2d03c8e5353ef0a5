---------------------------- MODULE ClientRules ----------------------------
(***************************************************************************)
(* The pure rules of the browser client (frontend/src/lib): which tile     *)
(* fits which group, when a tile may take a joker's place, and what        *)
(* confirming a turn checks before anything is sent.  They are the         *)
(* client's own reading of the game's rules; the server's is RulesEngine.  *)
(*                                                                         *)
(* A tile is <<color, number, copy>>, a joker <<"JK", 0, copy>>; a group    *)
(* is a sequence of tiles in the order of the screen.  Its "type" is left  *)
(* out: it is recomputed from the tiles at every change.                   *)
(***************************************************************************)
EXTENDS Integers, Sequences, FiniteSets, SequencesExt, FiniteSetsExt

MAX_GROUP_SIZE == 4
MAX_NUMBER == 13

IsJoker(t) == t[1] = "JK"
\* The places of the regular tiles, their numbers and colors.
Regular(ts) == {i \in 1 .. Len(ts) : ~IsJoker(ts[i])}
JokerCount(ts) == Len(ts) - Cardinality(Regular(ts))
Numbers(ts) == {ts[i][2] : i \in Regular(ts)}
Colors(ts) == {ts[i][1] : i \in Regular(ts)}
OneNumber(ts) == Cardinality(Numbers(ts)) = 1
OneColor(ts) == Cardinality(Colors(ts)) = 1
NoNumberTwice(ts) == Cardinality(Numbers(ts)) = Cardinality(Regular(ts))
NoColorTwice(ts) == Cardinality(Colors(ts)) = Cardinality(Regular(ts))
Span(ns) == Max(ns) - Min(ns) + 1

\* tileClassify: the label of a group.
ClassifySetType(ts) == IF Regular(ts) # {} /\ OneNumber(ts) THEN "group" ELSE "run"

\* The drag handler's own copy: one color first, "group" when neither.
HookClassifySetType(ts) ==
    IF Cardinality(Regular(ts)) < 2 \/ OneColor(ts) THEN "run" ELSE "group"

-----------------------------------------------------------------------------
(* Which tile fits which group *)

\* One regular tile says nothing yet; else the label, if the tiles bear it out.
ClassifyKind(ts) ==
    IF Cardinality(Regular(ts)) < 2 THEN "unknown"
    ELSE IF HookClassifySetType(ts) = "run" THEN "run"
    ELSE IF OneNumber(ts) THEN "group"
    ELSE "unknown"

IsCompatibleAsGroup(t, ts) ==
    /\ Len(ts) < MAX_GROUP_SIZE
    /\ IsJoker(t) \/ Regular(ts) = {} \/
          (Numbers(ts) = {t[2]} /\ t[1] \notin Colors(ts))

\* Mutant: the jokers are not asked to fill the gaps.
IsCompatibleAsRunAnyGap(t, ts) ==
    \/ Regular(ts) = {}
    \/ /\ OneColor(ts)
       /\ IsJoker(t) \/ (Colors(ts) = {t[1]} /\ t[2] \notin Numbers(ts))

\* Jokers left over after the gaps are filled stretch the run at both ends.
IsCompatibleAsRun(t, ts) ==
    \/ Regular(ts) = {}
    \/ /\ OneColor(ts)
       /\ LET ns      == Numbers(ts)
              surplus == Max({0, JokerCount(ts) - (Span(ns) - Cardinality(Regular(ts)))})
              all     == ns \cup {t[2]}
          IN  IF IsJoker(t)
              THEN \/ Max({1, Min(ns) - surplus}) > 1
                   \/ Min({MAX_NUMBER, Max(ns) + surplus}) < MAX_NUMBER
              ELSE /\ Colors(ts) = {t[1]}
                   /\ t[2] \notin ns
                   /\ Span(all) - (Cardinality(Regular(ts)) + 1) \in 0 .. JokerCount(ts)

IsCompatibleWithGroup(t, ts) ==
    /\ ~Contains(ts, t)
    /\ \/ ClassifyKind(ts) \in {"group", "unknown"} /\ IsCompatibleAsGroup(t, ts)
       \/ ClassifyKind(ts) \in {"run", "unknown"} /\ IsCompatibleAsRun(t, ts)

\* The ids of the groups a dragged tile lights up.
ComputeValidMergeGroups(t, groups) ==
    {g.id : g \in {h \in ToSet(groups) : IsCompatibleWithGroup(t, h.tiles)}}

\* A tile dropped on the board goes to a group of its own, not to the last
\* pending group (the same decision in the reducer and in the hook).
ShouldCreateNewGroup(force, t, last) ==
    LET ns == Numbers(last)
        beside(n, m) == n - m \in {-1, 1}
    IN  \/ force
        \/ /\ Regular(last) # {} /\ ~IsJoker(t)
           /\ CASE OneNumber(last) /\ OneColor(last) ->
                       /\ ns # {t[2]}
                       /\ Colors(last) # {t[1]} \/ ~beside(t[2], Min(ns))
                [] OneNumber(last) /\ ~OneColor(last) ->
                       ns # {t[2]} \/ t[1] \in Colors(last) \/ Len(last) >= 4
                [] OneColor(last) /\ ~OneNumber(last) ->
                       \/ Colors(last) # {t[1]}
                       \/ ~NoNumberTwice(last) \/ t[2] \in ns
                       \/ Span(ns \cup {t[2]}) # Cardinality(Regular(last)) + 1
                [] OTHER -> TRUE

-----------------------------------------------------------------------------
(* Taking a joker's place.  Both return the group after the swap and the   *)
(* joker, or NoSwap.                                                       *)

NoSwap == [ok |-> FALSE]
Swapped(ts, i, t) == [ok |-> TRUE, tiles |-> [ts EXCEPT ![i] = t], joker |-> ts[i]]

IsValidSetAfterSwap(ts) ==
    /\ Len(ts) >= 3
    /\ Regular(ts) # {}
    /\ \/ Len(ts) <= 4 /\ OneNumber(ts) /\ NoColorTwice(ts)
       \/ OneColor(ts) /\ NoNumberTwice(ts) /\ Len(ts) >= Span(Numbers(ts))

\* Mutant: the swapped group is not looked at.
TryJokerSwapBlindly(ts, t) ==
    LET at == SelectInSeq(ts, IsJoker)
    IN  IF IsJoker(t) \/ at = 0 THEN NoSwap ELSE Swapped(ts, at, t)

\* lib/jokerSwap: JK1, then JK2, the first whose place keeps the group a set.
TryJokerSwap(ts, t) ==
    LET fits(k) == {i \in 1 .. Len(ts) : ts[i] = <<"JK", 0, k>>
                                         /\ IsValidSetAfterSwap([ts EXCEPT ![i] = t])}
        first   == {k \in 1 .. 2 : fits(k) # {}}
    IN  IF IsJoker(t) \/ first = {} THEN NoSwap
        ELSE Swapped(ts, Min(fits(Min(first))), t)

\* The drag handler's own copy: the first joker on the screen; a missing color
\* of the group's number, or a number in a gap or next to an end of the run.
HookTryJokerSwap(ts, t) ==
    LET at == SelectInSeq(ts, IsJoker)
        ns == Numbers(ts)
        gap == {n \in Min(ns) .. Max(ns) : n \notin ns}
        ends == {Min(ns) - 1, Max(ns) + 1} \cap 1 .. MAX_NUMBER
    IN  IF ~IsJoker(t) /\ at # 0 /\ Regular(ts) # {} /\
           \/ OneNumber(ts) /\ ~OneColor(ts) /\ ns = {t[2]} /\ t[1] \notin Colors(ts)
           \/ OneColor(ts) /\ ~OneNumber(ts) /\ Colors(ts) = {t[1]} /\ t[2] \in gap \cup ends
        THEN Swapped(ts, at, t)
        ELSE NoSwap

-----------------------------------------------------------------------------
(* The checks before a turn is sent *)

CheckSetSize(ts) == Len(ts) >= 3
CheckGroupColorDuplicate(ts) == NoColorTwice(ts)

CheckRunSequence(ts) ==
    Regular(ts) = {} \/ (NoNumberTwice(ts) /\ Span(Numbers(ts)) <= Len(ts))

\* "ok", or the error code of the first check that fails.
CheckSetValidity(ts) ==
    CASE Regular(ts) = {} -> "ok"
      [] Regular(ts) # {} /\ OneNumber(ts) ->
            IF CheckGroupColorDuplicate(ts) THEN "ok" ELSE "ERR_GROUP_COLOR_DUP"
      [] ~OneNumber(ts) /\ OneColor(ts) ->
            IF CheckRunSequence(ts) THEN "ok" ELSE "ERR_RUN_SEQUENCE"
      [] OTHER -> "ERR_INVALID_SET"

GroupError(ts) == IF CheckSetSize(ts) THEN CheckSetValidity(ts) ELSE "ERR_SET_SIZE"

ScoreTile(t) == IF IsJoker(t) THEN 30 ELSE t[2]
ComputePendingScore(sets) ==
    FoldLeft(LAMBDA a, ts : a + FoldLeft(LAMBDA b, t : b + ScoreTile(t), 0, ts), 0, sets)

ComputeTilesAdded(before, now) == Max({0, before - now})

\* validateTurnPreCheck: sets is the pending groups in order.
ValidateTurnPreCheck(sets, melded, score, added) ==
    LET bad == SelectInSeq(sets, LAMBDA ts : GroupError(ts) # "ok")
    IN  CASE added < 1 -> "ERR_NO_RACK_TILE"
          [] ~(added < 1) /\ ~melded /\ score < 30 -> "ERR_INITIAL_MELD_SCORE"
          [] OTHER -> IF bad = 0 THEN "ok" ELSE GroupError(sets[bad])

\* canConfirmTurn: the conditions of the button, sizes only.
CanConfirmTurn(sets, melded, recovered, added) ==
    /\ ~(added < 1)
    /\ sets # <<>>
    /\ \A i \in 1 .. Len(sets) : CheckSetSize(sets[i])
    /\ recovered = {}
    /\ melded \/ ~(ComputePendingScore(sets) < 30)

\* GameBoard: the label of a pending block while it is built.
ValidatePendingBlock(ts) ==
    CASE Len(ts) < 3 \/ Regular(ts) = {} -> "partial"
      [] Len(ts) >= 3 /\ Regular(ts) # {} /\ OneNumber(ts) ->
            IF NoColorTwice(ts) /\ Len(ts) <= 4 THEN "valid-group" ELSE "invalid"
      [] Len(ts) >= 3 /\ ~OneNumber(ts) /\ OneColor(ts) ->
            IF NoNumberTwice(ts) /\ Span(Numbers(ts)) <= Len(ts) THEN "valid-run" ELSE "invalid"
      [] OTHER -> "invalid"

TilesOf(groups) == FlattenSeq([i \in 1 .. Len(groups) |-> groups[i].tiles])
DetectDuplicateTileCodes(groups) ==
    LET ts == TilesOf(groups)
    IN  {ts[i] : i \in {j \in 1 .. Len(ts) : \E k \in 1 .. j - 1 : ts[k] = ts[j]}}

\* invariantValidator: INV-G1 and INV-G3.
GroupIdUnique(groups) ==
    \A i, j \in 1 .. Len(groups) : groups[i].id = groups[j].id => i = j
NoEmptyGroup(groups) == \A i \in 1 .. Len(groups) : groups[i].tiles # <<>>

=============================================================================
