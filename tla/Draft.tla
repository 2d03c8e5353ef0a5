------------------------------- MODULE Draft -------------------------------
(***************************************************************************)
(* The draft of one player's turn in the browser: drag and drop, undo,     *)
(* confirm, and what the server's answers and the toast do to it           *)
(* (useDragHandlers, pendingStore, dragStateStore, useTurnActions,         *)
(* useGameSync, and the handlers of GameClient).                           *)
(*                                                                         *)
(* A drag lasts: between its start and its drop the toast may roll the     *)
(* draft back, the server may refuse a turn, and the turn may pass.        *)
(*                                                                         *)
(* The handlers are the hook's, which the page runs; dragEndReducer, its   *)
(* tested twin, is modelled beside it.  Left out: a group's type label,    *)
(* the phase of the turn (turnStateStore: written here, read nowhere), the *)
(* order of the rack, the overlay, the lock on the confirm button (Browser *)
(* has it), and the toast's wording: a text that replaces another may or   *)
(* may not be the same.                                                    *)
(***************************************************************************)
EXTENDS ClientRules, Bags

CONSTANT
    Starts   \* the turns there are: [groups, rack, melded] and two bounds,
             \* maxDrops since the last reset and maxGroups on the board

TilesAt(s) == s.rack \cup ToSet(TilesOf(s.groups))

VARIABLES
    start,   \* what the turn started from
    board,   \* the draft: [groups, pending, rack, recovered]
    drag,    \* the tile in the air and where it was taken, or NoDrag
    force,   \* forceNewGroup, the "new group" toggle
    toast,   \* an error text is shown (lastError)
    mine,    \* whose turn it is
    drops    \* the bound's counter

vars == <<start, board, drag, force, toast, mine, drops>>

Rack == <<"rack">>
Board == <<"board">>
NewZone == <<"new">>
Zones == {Rack, Board, NewZone}
PendingId(k) == <<"pending", k>>
IsPendingId(id) == id[1] = "pending"

NoDrag == [kind |-> "none"]

\* A turn starts with every tile in one place, and with groups of the server,
\* which lets no "pending-" id in (convertToSetOnTable); ids are their own.
ASSUME StartsAssumption ==
    \A s \in Starts :
        /\ s.groups \in Seq([id : {s.groups[i].id : i \in 1 .. Len(s.groups)},
                             tiles : Seq(ToSet(TilesOf(s.groups)))])
        /\ GroupIdUnique(s.groups) /\ NoEmptyGroup(s.groups)
        /\ \A g, h \in ToSet(s.groups) : \A i \in 1 .. Len(g.tiles), j \in 1 .. Len(h.tiles) :
              g.tiles[i] = h.tiles[j] => g = h /\ i = j
        /\ \A g \in ToSet(s.groups) : ~IsPendingId(g.id)
        /\ s.rack \cap ToSet(TilesOf(s.groups)) = {}

-----------------------------------------------------------------------------
(* Drafts *)

Ids(groups) == {groups[i].id : i \in 1 .. Len(groups)}
Has(b, id) == id \in Ids(b.groups)
TilesIn(b, id) == b.groups[SelectInSeq(b.groups, LAMBDA g : g.id = id)].tiles
IsPending(b, id) == id \in b.pending

\* saveTurnStartSnapshot, and what reset and rollback go back to.
FreshDraft(s) ==
    [groups |-> s.groups, pending |-> {}, rack |-> SetToBag(s.rack), recovered |-> {}]

\* A group id that is in no use: Date.now() and a sequence number.
FreshId(b) ==
    PendingId(CHOOSE k \in 1 .. Len(b.groups) + 1 :
                 /\ ~Has(b, PendingId(k))
                 /\ \A j \in 1 .. k - 1 : Has(b, PendingId(j)))

NonEmpty(groups) ==
    FlattenSeq([i \in 1 .. Len(groups) |->
                   IF groups[i].tiles = <<>> THEN <<>> ELSE <<groups[i]>>])

\* applyMutation: groups left empty go.
Store(groups, pending, rack, recovered) ==
    [groups |-> NonEmpty(groups), pending |-> pending, rack |-> rack, recovered |-> recovered]

\* Mutant: the tile stays in the rack.
RemoveFirstOccurrenceNot(rack, t) == rack

RemoveFirstOccurrence(rack, t) == rack (-) SetToBag({t})

WithTiles(groups, id, ts) ==
    [i \in 1 .. Len(groups) |->
        IF groups[i].id = id THEN [groups[i] EXCEPT !.tiles = ts] ELSE groups[i]]

\* The ids that still name a group.
Living(ids, groups) == ids \cap Ids(NonEmpty(groups))

\* A tile leaves the rack for a group, old or new; a recovered joker is placed.
Append2(b, id, t) ==
    Store(WithTiles(b.groups, id, Append(TilesIn(b, id), t)), b.pending \cup {id},
          RemoveFirstOccurrence(b.rack, t), b.recovered \ {t})
OpenGroup(b, t) ==
    Store(Append(b.groups, [id |-> FreshId(b), tiles |-> <<t>>]), b.pending \cup {FreshId(b)},
          RemoveFirstOccurrence(b.rack, t), b.recovered \ {t})

\* The outcome of a drop: the draft, what the phase machine is told, a toast.
Done(b) == [board |-> b, event |-> "DROP_OK", says |-> FALSE]
Ignored(b) == [board |-> b, event |-> "none", says |-> FALSE]
Refused(b) == [board |-> b, event |-> "DRAG_CANCEL", says |-> FALSE]

\* Appends are guarded against a tile that is already on the board.
Guarded(b, next) ==
    IF DetectDuplicateTileCodes(next.groups) = {} THEN Done(next)
    ELSE [board |-> b, event |-> "DRAG_CANCEL", says |-> TRUE]

-----------------------------------------------------------------------------
(* handleDragEnd, one operator for each place a tile may be dropped        *)

AtSource(b, d) ==
    Has(b, d.group) /\ d.index <= Len(TilesIn(b, d.group)) /\ TilesIn(b, d.group)[d.index] = d.tile
Taken(b, d) == WithTiles(b.groups, d.group, RemoveAt(TilesIn(b, d.group), d.index))

\* A server group that is back to what it was at the turn's start.
Restored(b, id) ==
    /\ ~IsPendingId(id)
    /\ \E i \in 1 .. Len(start.groups) :
          start.groups[i].id = id /\ start.groups[i].tiles = TilesIn(b, id)

\* Only a pending group gives tiles back; the recovered jokers stay as they are.
TableToRack(b, d) ==
    IF ~IsPending(b, d.group) \/ ~AtSource(b, d) THEN Ignored(b)
    ELSE LET next == Store(Taken(b, d), Living(b.pending, Taken(b, d)),
                           b.rack (+) SetToBag({d.tile}), b.recovered)
         IN  Done([next EXCEPT !.pending = {id \in @ : ~Restored(next, id)}])

\* The reducer's split: a tile of the table opens a group of its own.
SplitToNewGroup(b, d, melded) ==
    IF ~AtSource(b, d) \/ (~IsPending(b, d.group) /\ ~melded) THEN Refused(b)
    ELSE LET groups == Append(Taken(b, d), [id |-> FreshId(b), tiles |-> <<d.tile>>])
             next   == Store(groups, Living(b.pending \cup {d.group, FreshId(b)}, groups),
                             b.rack, b.recovered)
         IN  IF DetectDuplicateTileCodes(next.groups) = {} THEN Done(next) ELSE Refused(b)

\* Mutant: an unmelded player may rearrange.
TableToTableUnmelded(b, d, over, melded) ==
    IF ~Has(b, over) \/ over = d.group \/ ~AtSource(b, d) THEN Ignored(b)
    ELSE LET groups == WithTiles(Taken(b, d), over, Append(TilesIn(b, over), d.tile))
         IN  Done(Store(groups, Living(b.pending \cup {d.group, over}, groups), b.rack, b.recovered))

\* Mutant: the group the tile leaves is not marked.
TableToTableSourceUnmarked(b, d, over, melded) ==
    IF ~melded \/ ~Has(b, over) \/ over = d.group \/ ~AtSource(b, d) THEN Ignored(b)
    ELSE LET groups == WithTiles(Taken(b, d), over, Append(TilesIn(b, over), d.tile))
         IN  Done(Store(groups, Living(b.pending \cup {over}, groups), b.rack, b.recovered))

\* No question of whether the tile fits: both groups become pending.
TableToTable(b, d, over, melded) ==
    IF ~melded \/ ~Has(b, over) \/ over = d.group \/ ~AtSource(b, d) THEN Ignored(b)
    ELSE LET groups == WithTiles(Taken(b, d), over, Append(TilesIn(b, over), d.tile))
         IN  Done(Store(groups, Living(b.pending \cup {d.group, over}, groups), b.rack, b.recovered))

MaySwap(b, over, melded) == Has(b, over) /\ (IsPending(b, over) \/ melded)

JokerSwapDrop(b, over, t) ==
    LET swap == HookTryJokerSwap(TilesIn(b, over), t)
    IN  Done(Store(WithTiles(b.groups, over, swap.tiles), b.pending \cup {over},
                   RemoveFirstOccurrence(b.rack, t) (+) SetToBag({swap.joker}),
                   b.recovered \cup {swap.joker}))

PendingDrop(b, over, t) ==
    IF IsCompatibleWithGroup(t, TilesIn(b, over)) THEN Guarded(b, Append2(b, over, t))
    ELSE Done(OpenGroup(b, t))

\* Before the first meld a server group takes nothing: a group of its own.
ServerDropBeforeMeld(b, t) == Done(OpenGroup(b, t))

ServerDropAfterMeld(b, over, t) ==
    IF IsCompatibleWithGroup(t, TilesIn(b, over)) THEN Guarded(b, Append2(b, over, t))
    ELSE Done(OpenGroup(b, t))

LastPending(b) == SelectLastInSeq(b.groups, LAMBDA g : IsPending(b, g.id) /\ IsPendingId(g.id))

\* The free board: to the last group that was opened, unless the tile asks for
\* a new one and does not fit; the toggle too gives way to a tile that fits.
BoardAppends(b, t, f) ==
    LastPending(b) # 0 /\
        LET last == b.groups[LastPending(b)].tiles
        IN  ~ShouldCreateNewGroup(f, t, last) \/ IsCompatibleWithGroup(t, last)
BoardDrop(b, t, f) ==
    IF BoardAppends(b, t, f) THEN Done(Append2(b, b.groups[LastPending(b)].id, t))
    ELSE Done(OpenGroup(b, t))

NewGroupDrop(b, t) == Done(OpenGroup(b, t))

\* A rack tile dropped on the rack: its code is fetched from a pending group.
RackToRack(b, t) ==
    LET from == SelectInSeq(b.groups, LAMBDA g : IsPending(b, g.id) /\ Contains(g.tiles, t))
        groups == WithTiles(b.groups, b.groups[from].id, RemoveFirst(b.groups[from].tiles, t))
    IN  IF from = 0 THEN Ignored(b)
        ELSE Done(Store(groups, Living(b.pending, groups), b.rack (+) SetToBag({t}), b.recovered))

\* Where the drop goes, in the order of the handler's branches.
TableDrop(b, d, over, melded) ==
    CASE ~Has(b, d.group) -> Ignored(b)
      [] Has(b, d.group) /\ over = Rack -> TableToRack(b, d)
      [] Has(b, d.group) /\ over \in {Board, NewZone} -> SplitToNewGroup(b, d, melded)
      [] OTHER -> TableToTable(b, d, over, melded)

RackDrop(b, t, over, f, melded) ==
    CASE over = Board -> BoardDrop(b, t, f)
      [] over = NewZone -> NewGroupDrop(b, t)
      [] over = Rack -> RackToRack(b, t)
      [] OTHER ->
            IF MaySwap(b, over, melded) /\ HookTryJokerSwap(TilesIn(b, over), t).ok
            THEN JokerSwapDrop(b, over, t)
            ELSE IF IsPending(b, over) THEN PendingDrop(b, over, t)
            ELSE IF melded THEN ServerDropAfterMeld(b, over, t)
            ELSE ServerDropBeforeMeld(b, t)

DropResult(b, d, over, f, melded) ==
    IF d.kind = "table" THEN TableDrop(b, d, over, melded)
    ELSE RackDrop(b, d.tile, over, f, melded)

\* The toggle goes off when it was on and the drop opened a group on the board.
ForceAfter(b, d, over, f) ==
    f /\ ~(d.kind = "rack" /\ over = Board /\ ~BoardAppends(b, d.tile, f))

-----------------------------------------------------------------------------
(* dragEndReducer: the same drop as a pure function                        *)

RejectWith(b) == [board |-> b, rejected |-> TRUE]
GuardedReduction(b, next) ==
    IF DetectDuplicateTileCodes(next.groups) = {}
    THEN [board |-> next, rejected |-> FALSE] ELSE RejectWith(b)

\* A tile comes back to the rack; with the last pending group go all groups
\* (nextTableGroups null, which applyMutation stores as none).
ReduceReturn(b, groups, t) ==
    LET left == Living(b.pending, groups)
        rack == b.rack (+) SetToBag({t})
    IN  [board |-> IF left # {} THEN Store(groups, left, rack, b.recovered)
                   ELSE Store(<<>>, {}, rack, b.recovered),
         rejected |-> FALSE]

ReduceTableToRack(b, d) ==
    IF ~IsPending(b, d.group) \/ ~AtSource(b, d) THEN RejectWith(b)
    ELSE ReduceReturn(b, Taken(b, d), d.tile)

ReduceTableToTable(b, d, over, melded) ==
    IF ~melded \/ ~Has(b, over) \/ over = d.group \/ ~AtSource(b, d)
       \/ ~IsCompatibleWithGroup(d.tile, TilesIn(b, over))
    THEN RejectWith(b)
    ELSE GuardedReduction(b, TableToTable(b, d, over, melded).board)

ReduceSplit(b, d, melded) ==
    LET out == SplitToNewGroup(b, d, melded)
    IN  [board |-> out.board, rejected |-> out.event # "DROP_OK"]

ReduceRackToRack(b, t) ==
    LET from == SelectInSeq(b.groups, LAMBDA g : IsPending(b, g.id) /\ Contains(g.tiles, t))
    IN  IF from = 0 THEN RejectWith(b)
        ELSE ReduceReturn(b, WithTiles(b.groups, b.groups[from].id,
                                       RemoveFirst(b.groups[from].tiles, t)), t)

\* Mutant: the joker does not come back to the rack.
ReduceJokerSwapLosingIt(b, over, t) ==
    LET swap == TryJokerSwap(TilesIn(b, over), t)
    IN  GuardedReduction(b,
            Store(WithTiles(b.groups, over, swap.tiles), b.pending \cup {over},
                  RemoveFirstOccurrence(b.rack, t), b.recovered \cup {swap.joker}))

ReduceJokerSwap(b, over, t) ==
    LET swap == TryJokerSwap(TilesIn(b, over), t)
    IN  GuardedReduction(b,
            Store(WithTiles(b.groups, over, swap.tiles), b.pending \cup {over},
                  RemoveFirstOccurrence(b.rack, t) (+) SetToBag({swap.joker}),
                  b.recovered \cup {swap.joker}))

ReducePendingDrop(b, over, t) ==
    GuardedReduction(b, IF IsCompatibleWithGroup(t, TilesIn(b, over))
                        THEN Append2(b, over, t) ELSE OpenGroup(b, t))

ReduceServerDrop(b, over, t, melded) ==
    GuardedReduction(b, IF melded /\ IsCompatibleWithGroup(t, TilesIn(b, over))
                        THEN Append2(b, over, t) ELSE OpenGroup(b, t))

ReduceBoardDrop(b, t, f) ==
    LET last == LastPending(b)
    IN  GuardedReduction(b,
            IF last # 0 /\ ~ShouldCreateNewGroup(f, t, b.groups[last].tiles)
            THEN Append2(b, b.groups[last].id, t) ELSE OpenGroup(b, t))

ReduceNewGroupDrop(b, t) == GuardedReduction(b, OpenGroup(b, t))

DragEndReducer(b, d, over, f, melded) ==
    CASE d.kind = "table" /\ ~Has(b, d.group) -> RejectWith(b)
      [] d.kind = "table" /\ Has(b, d.group) /\ over = Rack -> ReduceTableToRack(b, d)
      [] d.kind = "table" /\ Has(b, d.group) /\ over \in {Board, NewZone} ->
            ReduceSplit(b, d, melded)
      [] d.kind = "table" /\ Has(b, d.group) /\ over \notin Zones ->
            ReduceTableToTable(b, d, over, melded)
      [] d.kind = "rack" /\ over = Rack -> ReduceRackToRack(b, d.tile)
      [] d.kind = "rack" /\ over = Board -> ReduceBoardDrop(b, d.tile, f)
      [] d.kind = "rack" /\ over = NewZone -> ReduceNewGroupDrop(b, d.tile)
      [] OTHER ->
            IF MaySwap(b, over, melded) /\ TryJokerSwap(TilesIn(b, over), d.tile).ok
            THEN ReduceJokerSwap(b, over, d.tile)
            ELSE IF IsPending(b, over) THEN ReducePendingDrop(b, over, d.tile)
            ELSE ReduceServerDrop(b, over, d.tile, melded)

-----------------------------------------------------------------------------
Init ==
    /\ start \in Starts
    /\ board = FreshDraft(start)
    /\ drag = NoDrag
    /\ force = FALSE
    /\ toast = FALSE
    /\ mine = TRUE
    /\ drops = 0

\* setLastError.  A text that was not there rolls the draft back: useGameSync
\* takes any text for the server's refusal.  The same text again does nothing.
Says ==
    /\ toast' = TRUE
    /\ board' = FreshDraft(start) \/ (toast /\ UNCHANGED board)

Counted(changed) ==
    /\ drops' = IF board'.pending = {} THEN 0 ELSE drops + (IF changed THEN 1 ELSE 0)
    /\ drops' <= start.maxDrops /\ Len(board'.groups) <= start.maxGroups

Sources(b) ==
    {[kind |-> "rack", tile |-> t] : t \in BagToSet(b.rack)} \cup
    UNION {{[kind |-> "table", tile |-> b.groups[i].tiles[j], group |-> b.groups[i].id, index |-> j]
              : j \in 1 .. Len(b.groups[i].tiles)} : i \in 1 .. Len(b.groups)}

DragStart(d) ==
    /\ mine /\ drag = NoDrag
    /\ d \in Sources(board)
    /\ drag' = d
    /\ UNCHANGED <<start, board, force, toast, mine, drops>>

DragCancel ==
    /\ drag # NoDrag
    /\ drag' = NoDrag
    /\ UNCHANGED <<start, board, force, toast, mine, drops>>

\* A drop on no target at all: only a toast.
DropNowhere ==
    /\ drag # NoDrag /\ mine
    /\ drag' = NoDrag
    /\ Says
    /\ Counted(FALSE)
    /\ UNCHANGED <<start, force, mine>>

\* A drop after the turn has passed.
DropOutOfTurn ==
    /\ drag # NoDrag /\ ~mine
    /\ drag' = NoDrag
    /\ UNCHANGED <<start, board, force, toast, mine, drops>>

Drop(over) ==
    /\ drag # NoDrag /\ mine
    /\ over \in Zones \cup Ids(board.groups)
    /\ LET out == DropResult(board, drag, over, force, start.melded)
       IN  /\ IF out.says THEN Says ELSE board' = out.board /\ UNCHANGED toast
           /\ Counted(out.board # board)
    /\ force' = ForceAfter(board, drag, over, force)
    /\ drag' = NoDrag
    /\ UNCHANGED <<start, mine>>

ToggleForce ==
    /\ mine /\ drag = NoDrag
    /\ force' = ~force
    /\ UNCHANGED <<start, board, drag, toast, mine, drops>>

\* GameClient's undo: RESET_TURN goes out, the draft is the turn's start again.
Undo ==
    /\ mine /\ drag = NoDrag /\ board.pending # {}
    /\ board' = FreshDraft(start)
    /\ force' = FALSE
    /\ drops' = 0
    /\ UNCHANGED <<start, drag, toast, mine>>

PendingSets(b) ==
    FlattenSeq([i \in 1 .. Len(b.groups) |->
                   IF IsPending(b, b.groups[i].id) THEN <<b.groups[i].tiles>> ELSE <<>>])
TilesAdded(b) == ComputeTilesAdded(Cardinality(start.rack), BagCardinality(b.rack))
Unplaced(b) == b.recovered \cap BagToSet(b.rack) # {}

\* Mutant: the last line of defence against a tile on the board twice is gone.
MayBeSentUnguarded(b) ==
    LET sets == PendingSets(b)
    IN  /\ ~Unplaced(b) /\ sets # <<>>
        /\ ValidateTurnPreCheck(sets, start.melded, ComputePendingScore(sets), TilesAdded(b)) = "ok"

\* What handleConfirm asks before PLACE_TILES and CONFIRM_TURN go out.
MayBeSent(b) ==
    LET sets == PendingSets(b)
    IN  /\ ~Unplaced(b) /\ sets # <<>>
        /\ ValidateTurnPreCheck(sets, start.melded, ComputePendingScore(sets), TilesAdded(b)) = "ok"
        /\ DetectDuplicateTileCodes(b.groups) = {}

\* tilesFromRack of PLACE_TILES; the groups beside it are the board's.
TilesFromRack(b) == start.rack \ BagToSet(b.rack)

\* A draft that may not be sent is only objected to, and sending changes nothing
\* until the server answers.
Confirm ==
    /\ mine /\ drag = NoDrag
    /\ ~MayBeSent(board)
    /\ Says
    /\ drops' = IF board'.pending = {} THEN 0 ELSE drops
    /\ UNCHANGED <<start, drag, force, mine>>

\* INVALID_MOVE, or any other error of the server or of the connection.
ServerError ==
    /\ Says
    /\ drops' = IF board'.pending = {} THEN 0 ELSE drops
    /\ UNCHANGED <<start, drag, force, mine>>

\* The toast clears itself after some seconds.
ToastFades ==
    /\ toast
    /\ toast' = FALSE
    /\ UNCHANGED <<start, board, drag, force, mine, drops>>

\* The turn is accepted, drawn, passed or timed out, here or elsewhere.  Other
\* tiles come only while none is in the air (the turns of MC are not one game).
TurnPasses(s) ==
    /\ drag = NoDrag \/ s = start
    /\ start' = s
    /\ board' = FreshDraft(s)
    /\ mine' = ~mine
    /\ drops' = 0
    /\ UNCHANGED <<drag, force, toast>>

Next ==
    \/ \E d \in Sources(board) : DragStart(d)
    \/ DragCancel
    \/ DropNowhere
    \/ DropOutOfTurn
    \/ \E over \in Zones \cup Ids(board.groups) : Drop(over)
    \/ ToggleForce
    \/ Undo
    \/ Confirm
    \/ ServerError
    \/ ToastFades
    \/ \E s \in Starts : TurnPasses(s)

Spec == Init /\ [][Next]_vars

-----------------------------------------------------------------------------
(* Properties *)

\* Only pending groups are checked before a turn is sent, so a group without
\* the mark must be one of the turn's start, tile for tile: whatever was
\* dragged, swapped, split, returned or rolled back in between.
UnmarkedGroupsAreUntouched ==
    \A g \in ToSet(board.groups) : g.id \notin board.pending => g \in ToSet(start.groups)

\* V-13a: before the first meld no drag sequence changes a group of the table.
UnmeldedLeavesTheTable ==
    ~start.melded => \A g \in ToSet(start.groups) : g \in ToSet(board.groups)

\* The marks are to be trusted: what is sent for checking, the pending groups,
\* is all that changed, and before the first meld the table did not.  A mark
\* names one group, which has tiles (INV-G1, INV-G3 of invariantValidator).
OnlyMarkedGroupsChange ==
    /\ UnmarkedGroupsAreUntouched
    /\ UnmeldedLeavesTheTable
    /\ GroupIdUnique(board.groups) /\ NoEmptyGroup(board.groups)

\* A draft that may be sent has each tile once, although a rollback in the
\* middle of a drag lets a tile be dropped a second time; and its new tiles are
\* exactly the tilesFromRack beside it (handleConfirm's two last steps).  It is
\* a draft turnUtils, which no component asks, would confirm (canConfirmTurn).
SentIsExact ==
    MayBeSent(board) =>
        /\ DetectDuplicateTileCodes(board.groups) = {}
        /\ ToSet(TilesOf(board.groups)) \ ToSet(TilesOf(start.groups)) = TilesFromRack(board)
        /\ CanConfirmTurn(PendingSets(board), start.melded, board.recovered, TilesAdded(board))

\* The copies of a tile in the rack and on the board, where a place is the id
\* of a group, which names one, and an index.
Copies(t, rack) == IF BagIn(t, rack) THEN rack[t] ELSE 0
Places(G, t) == UNION {{g.id} \X {j \in 1 .. Len(g.tiles) : g.tiles[j] = t} : g \in G}
Count(groups, t) == Cardinality(Places(ToSet(groups), t))
MoveTiles == UNION {TilesAt(s) : s \in Starts}
MoveJokers == {t \in MoveTiles : IsJoker(t)}

TB == INSTANCE TurnBoard WITH
        Tiles <- MoveTiles,
        Jokers <- MoveJokers,
        rack <- [t \in MoveTiles |-> Copies(t, board.rack)],
        table <- [t \in MoveTiles |-> Count(board.groups, t)],
        startRack <- start.rack,
        startTable <- ToSet(TilesOf(start.groups))

\* The hook's copy of the joker swap and the library's come to the same: the
\* hook takes the first joker of the group, the library JK1 first, and the hook
\* puts a tile in a joker's place that belongs beyond the end of the run.
SwapAlike(b, d, over) ==
    (d.kind = "rack" /\ MaySwap(b, over, start.melded)) =>
        HookTryJokerSwap(TilesIn(b, over), d.tile) = TryJokerSwap(TilesIn(b, over), d.tile)

\* dragEndReducer, which the unit tests exercise in the handler's place, moves
\* the tiles the handler moves whenever both accept a drop and see the same
\* joker swap, although they may lay them into different groups.
ReducerMovesTheSame ==
    drag # NoDrag /\ mine =>
        \A over \in Zones \cup Ids(board.groups) :
            LET out == DropResult(board, drag, over, force, start.melded).board
                red == DragEndReducer(board, drag, over, force, start.melded)
            IN  ~red.rejected /\ out # board /\ SwapAlike(board, drag, over) =>
                    /\ red.board.rack = out.rack
                    /\ red.board.pending # {} =>
                          \A t \in TilesAt(start) :
                              Count(red.board.groups, t) = Count(out.groups, t)

\* The draft implements TurnBoard: no gesture, rollback or swap loses a tile, and
\* only one makes one, against INV-G2 of invariantValidator: a tile that came off
\* the table in this turn is dropped after a rollback has put it back there.  And
\* wherever a tile hangs over the board, the reducer would have moved the tiles
\* the handler moves.
MovesTilesOnly == TB!Spec /\ [][ReducerMovesTheSame]_vars
=============================================================================
