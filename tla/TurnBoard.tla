----------------------------- MODULE TurnBoard -----------------------------
(***************************************************************************)
(* What a player's draft of a turn promises, whatever the gestures: tiles  *)
(* move between the rack and the table, one at a time, a joker of the      *)
(* table may be taken for a tile, and a reset puts everything back.        *)
(*                                                                         *)
(* One drop makes a tile.  A tile that came off the table in this turn may *)
(* be in the air when a reset puts it back there: the drop lays it all the *)
(* same, and it is on the table twice.                                     *)
(***************************************************************************)
EXTENDS Integers

CONSTANTS Tiles, Jokers   \* Jokers: those of the tiles that may be taken

VARIABLES
    rack,        \* [Tiles -> Nat], copies in the rack
    table,       \* [Tiles -> Nat], copies on the table
    startRack,   \* the tiles the turn started with
    startTable

vars == <<rack, table, startRack, startTable>>

Ones(S) == [t \in Tiles |-> IF t \in S THEN 1 ELSE 0]
More(f, t) == [f EXCEPT ![t] = @ + 1]
Less(f, t) == [f EXCEPT ![t] = @ - 1]

Begun == rack = Ones(startRack) /\ table = Ones(startTable)

Init ==
    /\ startRack \in SUBSET Tiles
    /\ startTable \in SUBSET Tiles
    /\ Begun

\* A tile of the rack goes to the table.
Lay(t) == rack[t] > 0 /\ rack' = Less(rack, t) /\ table' = More(table, t)

\* A tile of the table goes to the rack.
TakeBack(t) == table[t] > 0 /\ table' = Less(table, t) /\ rack' = More(rack, t)

\* A tile of the rack goes to the place of a joker, which goes to the rack.
Swap(t, j) ==
    /\ rack[t] > 0 /\ table[j] > 0 /\ t # j
    /\ table' = More(Less(table, j), t)
    /\ rack' = More(Less(rack, t), j)

Reset == rack' = Ones(startRack) /\ table' = Ones(startTable)

\* The tile in the air is on the table, the rack has none, and all is as the
\* turn started: there was a reset after the tile was picked up.
Overtaken(t) == Begun /\ t \in startTable \ startRack

LayAgain(t) == Overtaken(t) /\ table' = More(table, t) /\ UNCHANGED rack

SwapAgain(t, j) ==
    /\ Overtaken(t) /\ table[j] > 0 /\ t # j
    /\ table' = More(Less(table, j), t)
    /\ rack' = More(rack, j)

\* The tiles a step moves: one, or two when a joker is taken.
Moved == {t \in Tiles : table'[t] # table[t]}

InTurn ==
    /\ UNCHANGED <<startRack, startTable>>
    /\ \/ Reset
       \/ \E t \in Moved :
             \/ Lay(t) \/ TakeBack(t) \/ LayAgain(t)
             \/ \E j \in Jokers : Swap(t, j) \/ SwapAgain(t, j)

NewTurn ==
    /\ startRack' \in SUBSET Tiles
    /\ startTable' \in SUBSET Tiles
    /\ rack' = Ones(startRack') /\ table' = Ones(startTable')

Next == InTurn \/ NewTurn
Spec == Init /\ [][Next]_vars

-----------------------------------------------------------------------------
\* Counts are counts.
TypeOK == rack \in [Tiles -> Nat] /\ table \in [Tiles -> Nat]

\* There are as many of each tile as the turn started with, but for at most one
\* tile of the table, of which a drop that a reset overtook made a second.
Given(t) == Ones(startRack)[t] + Ones(startTable)[t]
Made(x, t) == IF t = x THEN 1 ELSE 0
TilesAreKept ==
    \/ \A t \in Tiles : rack[t] + table[t] = Given(t)
    \/ \E x \in startTable \ startRack :
          \A t \in Tiles : rack[t] + table[t] = Given(t) + Made(x, t)

=============================================================================
