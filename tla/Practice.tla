------------------------------ MODULE Practice ------------------------------
(***************************************************************************)
(* The practice mode of the browser: the list of stages, the board of one  *)
(* stage and the result that is kept in localStorage (PracticeClient,      *)
(* StagePlayClient, PracticeBoard).  It is played without a server; what   *)
(* it reports to one is written and never read, and left out.              *)
(*                                                                         *)
(* Only the tiles of the rack can be dragged, to a group, to the empty     *)
(* part of the board, or back to the rack.  A group's type label picks the *)
(* wording of an error and is left out, and so are the hints and the       *)
(* tutorial.                                                               *)
(***************************************************************************)
EXTENDS PracticeRules, Lists, Bags

CONSTANTS
    Stages,     \* the stages' configurations: a sequence of [hand, goal]
    MaxDrops    \* bound: drops on one board between two resets

VARIABLES
    stage,      \* the stage on the screen, 0 for the list of stages
    hand,       \* the rack, a bag of tiles
    groups,     \* the board: a sequence of [id, tiles]
    forceNew,   \* the next tile on the board opens a group
    cleared,    \* the result screen is up
    completed,  \* localStorage: the stages completed
    best,       \* localStorage: their best scores
    dropped     \* the bound's counter

\* The tiles of a stage count for something: a joker, or a number.
ASSUME PracticeAssumption ==
    /\ Stages \in Seq([hand : SUBSET (STRING \X Nat \X Nat), goal : STRING])
    /\ \A n \in 1 .. Len(Stages) : \A t \in Stages[n].hand : IsJoker(t) \/ t[2] \in 1 .. MAX_NUMBER

practice == <<stage, hand, groups, forceNew, cleared, completed, best, dropped>>
board == <<hand, groups, forceNew, dropped>>
progress == <<completed, best>>

STAGE_NUMBERS == 1 .. Len(Stages)
Config == Stages[stage]

-----------------------------------------------------------------------------
(* The list of stages *)

UnlockedStages == {1} \cup {n \in STAGE_NUMBERS : n - 1 \in completed}

\* A board is mounted: the stage's hand in the rack, nothing laid out.
Mount(n) ==
    /\ stage' = n
    /\ hand' = IF n = 0 THEN EmptyBag ELSE SetToBag(Stages[n].hand)
    /\ groups' = <<>> /\ forceNew' = FALSE /\ cleared' = FALSE /\ dropped' = 0
    /\ UNCHANGED progress

Select(n) == stage = 0 /\ n \in UnlockedStages /\ Mount(n)

\* The address of a stage: the page looks at the number, not at the locks.
Visit(n) == Mount(n)

\* StageSelector's counterpart: the arrow, or the result's "list" button.
BackToList == stage # 0 /\ Mount(0)

-----------------------------------------------------------------------------
(* The board of a stage *)

Playing == stage # 0 /\ ~cleared

Lay(t, next) ==
    /\ groups' = next
    /\ hand' = hand (-) SetToBag({t})
    /\ dropped' = dropped + 1
    /\ UNCHANGED <<stage, cleared, progress>>

Appended(i, t) == [groups EXCEPT ![i].tiles = Append(@, t)]

DropOnGroup(t, i) ==
    /\ Lay(t, Appended(i, t))
    /\ UNCHANGED forceNew

\* An id that is in no use: Date.now().
NewGroupId == Max({0} \cup {groups[i].id : i \in 1 .. Len(groups)}) + 1

DropOnBoard(t) ==
    IF groups # <<>> /\ ~ShouldCreateNewPracticeGroup(forceNew, t, Last(groups).tiles)
    THEN Lay(t, Appended(Len(groups), t)) /\ UNCHANGED forceNew
    ELSE /\ Lay(t, Append(groups, [id |-> NewGroupId, tiles |-> <<t>>]))
         /\ forceNew' = FALSE

\* Mutant: the groups that hold it go, with all their tiles.
WithoutItsGroups(t) == Keeping(groups, {g \in ToSet(groups) : t \notin ToSet(g.tiles)})

\* Every copy of the tile leaves the board; groups left empty go.
Without(t) ==
    LET left == [i \in 1 .. Len(groups) |->
                    [groups[i] EXCEPT !.tiles = Keeping(@, ToSet(@) \ {t})]]
    IN  Keeping(left, {g \in ToSet(left) : g.tiles # <<>>})

\* The handler for a tile that comes from the board.  Only the rack's tiles
\* can be dragged: the rack gets a second copy of its own tile.
DropOnRack(t) ==
    /\ groups' = Without(t)
    /\ hand' = hand (+) SetToBag({t})
    /\ dropped' = dropped + 1
    /\ UNCHANGED <<stage, cleared, forceNew, progress>>

\* handleDragEnd: one tile of the rack, dropped somewhere.
Drop(t) ==
    /\ Playing /\ dropped < MaxDrops
    /\ \/ \E i \in 1 .. Len(groups) : DropOnGroup(t, i)
       \/ DropOnBoard(t)
       \/ DropOnRack(t)

ToggleForceNew ==
    /\ Playing /\ groups # <<>>
    /\ forceNew' = ~forceNew
    /\ UNCHANGED <<stage, hand, groups, dropped, cleared, progress>>

\* Mutant: what is on the board stays there.
HandleResetKeepingBoard ==
    /\ Playing
    /\ hand' = SetToBag(Config.hand) /\ forceNew' = FALSE /\ dropped' = 0
    /\ UNCHANGED <<stage, groups, cleared, progress>>

HandleReset ==
    /\ Playing
    /\ hand' = SetToBag(Config.hand) /\ groups' = <<>> /\ forceNew' = FALSE /\ dropped' = 0
    /\ UNCHANGED <<stage, cleared, progress>>

\* Mutant: the last score is kept, not the best.
SaveLastScore(score) == [best EXCEPT ![stage] = score]

SaveBestScore(score) == [best EXCEPT ![stage] = Max({@, score})]

\* The button is on when the whole board is valid and the goal is reached.
HandleConfirm ==
    /\ Playing
    /\ IsStageClear(groups, Config.goal) /\ groups # <<>>
    /\ ValidateBoard(groups) = {}
    /\ cleared' = TRUE
    /\ best' = SaveBestScore(CalculateScore(groups))
    /\ completed' = completed \cup {stage}
    /\ UNCHANGED <<stage, board>>

-----------------------------------------------------------------------------
(* The result screen *)

HandleRetry == cleared /\ Mount(stage)
HandleNextStage == cleared /\ stage + 1 \in STAGE_NUMBERS /\ Mount(stage + 1)
HandleRestartAll == cleared /\ stage = Len(Stages) /\ Mount(1)

-----------------------------------------------------------------------------
PracticeInit ==
    /\ stage = 0 /\ hand = EmptyBag /\ groups = <<>> /\ forceNew = FALSE
    /\ cleared = FALSE /\ dropped = 0
    /\ completed = {} /\ best = [n \in STAGE_NUMBERS |-> 0]

PracticeNext ==
    \/ \E n \in STAGE_NUMBERS : Select(n) \/ Visit(n)
    \/ BackToList
    \/ \E t \in BagToSet(hand) : Drop(t)
    \/ ToggleForceNew \/ HandleReset \/ HandleConfirm
    \/ HandleRetry \/ HandleNextStage \/ HandleRestartAll

PracticeSpec == PracticeInit /\ [][PracticeNext]_practice

-----------------------------------------------------------------------------
(* Properties *)

OnBoard(t) == \E i \in 1 .. Len(groups) : t \in ToSet(groups[i].tiles)

(* Whatever is dropped where, and however often the board is reset, every  *)
(* tile of the stage is in the rack or on the board: two state updates,    *)
(* each of which may find nothing to do, move a tile between the two.      *)
StageTilesSurvive ==
    stage # 0 => \A t \in Config.hand : BagIn(t, hand) \/ OnBoard(t)

(* After a reset, by its button or by a new mount, no tile of the stage is *)
(* both in the rack and on the board.                                      *)
ResetIsClean == dropped = 0 /\ ~cleared => \A t \in BagToSet(hand) : ~OnBoard(t)

(* What localStorage holds only grows: a stage once completed stays        *)
(* completed, whatever is played in which order, a worse result never      *)
(* replaces a better one, and a stage has a score iff it is completed.     *)
ProgressIsKept ==
    [][ /\ completed \subseteq completed'
        /\ \A n \in STAGE_NUMBERS : best[n] <= best'[n] /\ (n \in completed' <=> best'[n] > 0)
      ]_progress

(* The practice mode keeps what it is given and what is achieved.          *)
PracticeIsKept == [](StageTilesSurvive /\ ResetIsClean) /\ ProgressIsKept

=============================================================================
