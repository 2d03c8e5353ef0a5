------------------------- MODULE GameServiceProofs -------------------------
(***************************************************************************)
(* Proofs about GameService for every number of players, every deck, every *)
(* set of melds, every turn limit and every answer an LLM may give.        *)
(*                                                                         *)
(* One inductive invariant carries them: the type invariant, the two facts *)
(* about whose turn it is, the fact about the snapshots, and the turn      *)
(* limit.  The end of a turn is common to five actions, so what it         *)
(* establishes is proved once, in the lemmas about AdvanceToNextTurn.      *)
(* Two parts at the end strengthen it: with the places of the tiles, and   *)
(* with the passes counted since the pile ran out.                         *)
(***************************************************************************)
EXTENDS GameService, FiniteSetTheorems, SequenceTheorems, WellFoundedInduction, TLAPS

(***************************************************************************)
(* A nonempty set of numbers of steps has a smallest one.                  *)
(***************************************************************************)
LEMMA SmallestStep ==
    ASSUME NEW T \in SUBSET Nat, T # {}
    PROVE  \E i \in T : \A j \in T : i <= j
<1>1. \E i \in T : \A j \in T : ~ (<<j, i>> \in OpToRel(<, Nat))
  BY NatLessThanWellFounded, WFMin
<1>2. PICK i \in T : \A j \in T : ~ (<<j, i>> \in OpToRel(<, Nat))
  BY <1>1
<1>3. \A j \in T : <<j, i>> \in OpToRel(<, Nat) <=> j < i
  BY DEF OpToRel
<1>4. \A j \in T : ~ (j < i)
  BY <1>2, <1>3, Zenon
<1> QED  BY <1>4

(***************************************************************************)
(* Going round the table from one seat reaches every seat within N steps.  *)
(***************************************************************************)
LEMMA SeatReached ==
    ASSUME NEW s \in Seat, NEW t \in Seat
    PROVE  \E i \in 1 .. N : (s + i) % N = t
<1>1. CASE t > s
  <2>1. t - s \in 1 .. N /\ (s + (t - s)) % N = t  BY <1>1, PlayersAssumption DEF Seat
  <2> QED  BY <2>1
<1>2. CASE t <= s
  <2>1. t - s + N \in 1 .. N  BY <1>2, PlayersAssumption DEF Seat
  <2>2. (s + (t - s + N)) % N = t  BY <1>2, PlayersAssumption DEF Seat
  <2> QED  BY <2>1, <2>2
<1> QED  BY <1>1, <1>2 DEF Seat

-----------------------------------------------------------------------------
(* The helpers of the service. *)

(***************************************************************************)
(* advanceTurn returns a seat, and one that has not forfeited whenever     *)
(* there is one.                                                           *)
(***************************************************************************)
LEMMA AdvanceTurnIsActive ==
    ASSUME NEW s \in Seat, NEW c \in [Seat -> {"ACTIVE", "DISCONNECTED", "FORFEITED"}]
    PROVE  /\ AdvanceTurn(s, c) \in Seat
           /\ ActiveSeats(c) # {} => c[AdvanceTurn(s, c)] # "FORFEITED"
<1> DEFINE steps == {i \in 1 .. N : c[(s + i) % N] # "FORFEITED"}
<1>1. CASE steps = {}
  <2>1. AdvanceTurn(s, c) = s  BY <1>1 DEF AdvanceTurn
  <2>2. \A t \in Seat : c[t] = "FORFEITED"
    <3>1. TAKE t \in Seat
    <3>2. PICK i \in 1 .. N : (s + i) % N = t  BY SeatReached
    <3> QED  BY <1>1, <3>2
  <2> QED  BY <2>1, <2>2 DEF ActiveSeats
<1>2. CASE steps # {}
  <2>1. steps \in SUBSET Nat  BY PlayersAssumption
  <2>2. \E i \in steps : \A j \in steps : i <= j  BY <1>2, <2>1, SmallestStep
  <2>3. PICK i \in steps : AdvanceTurn(s, c) = (s + i) % N
    BY <1>2, <2>2 DEF AdvanceTurn
  <2>4. (s + i) % N \in Seat  BY <2>3, PlayersAssumption DEF Seat
  <2> QED  BY <2>3, <2>4
<1> QED  BY <1>1, <1>2

(***************************************************************************)
(* The comparison of racks names one of the seats it compares, or nobody.  *)
(***************************************************************************)
LEMMA LowestRackIsASeat ==
    ASSUME NEW racks
    PROVE  StalemateWinner(racks) \in Seat \cup {NoSeat}
BY DEF StalemateWinner, LowestRack

(***************************************************************************)
(* The seats that have not forfeited are counted by a natural number, all  *)
(* of them when nobody has, and more of them when nobody else forfeits.    *)
(***************************************************************************)
LEMMA ActiveSeatsCount ==
    ASSUME NEW c, NEW d, ActiveSeats(c) \subseteq ActiveSeats(d)
    PROVE  /\ Cardinality(ActiveSeats(c)) \in Nat
           /\ Cardinality(ActiveSeats(d)) \in Nat
           /\ Cardinality(ActiveSeats(c)) <= Cardinality(ActiveSeats(d))
<1>1. IsFiniteSet(Seat)  BY FS_Interval, PlayersAssumption DEF Seat
<1>2. ActiveSeats(d) \subseteq Seat  BY DEF ActiveSeats
<1>3. IsFiniteSet(ActiveSeats(d)) /\ IsFiniteSet(ActiveSeats(c))
  BY <1>1, <1>2, FS_Subset
<1> QED  BY <1>3, FS_Subset, FS_CardinalityType

LEMMA EverySeatCounts ==
    ASSUME NEW c, \A s \in Seat : c[s] # "FORFEITED"
    PROVE  Cardinality(ActiveSeats(c)) >= 2
<1>1. ActiveSeats(c) = 0 .. N - 1  BY DEF ActiveSeats, Seat
<1>2. Cardinality(0 .. N - 1) = N  BY FS_Interval, PlayersAssumption
<1> QED  BY <1>1, <1>2, PlayersAssumption

(***************************************************************************)
(* The position a turn is judged from is a position.                       *)
(***************************************************************************)
LEMMA TurnBaseIsAPosition ==
    ASSUME TypeOK, NEW s \in Seat
    PROVE  TurnBase(s) \in Position
BY DEF TypeOK, TurnBase, Stored, Position

(***************************************************************************)
(* What a player confirms is a request: a browser's message is the one on  *)
(* its way, an LLM's answer an honest one or one of AIAnswers.             *)
(***************************************************************************)
LEMMA HonestRequestsAreRequests ==
    ASSUME NEW p \in Position
    PROVE  HonestRequests(p) \subseteq Request
<1> SUFFICES ASSUME NEW r \in HonestRequests(p)  PROVE r \in Request
  OBVIOUS
<1>1. PICK g \in SUBSET Group, j \in SUBSET (Joker \cap TilesOf(p.table)) :
         r = [groups |-> g, fromRack |-> TilesOf(g) \ TilesOf(p.table), jokers |-> j]
  BY DEF HonestRequests
<1>2. g \in SUBSET (SUBSET Tile) /\ TilesOf(g) \subseteq Tile
  BY TilesAssumption DEF TilesOf
<1>3. j \subseteq Tile  BY TilesAssumption
<1> QED  BY <1>1, <1>2, <1>3 DEF Request

LEMMA ConfirmsAreRequests ==
    ASSUME TypeOK, NEW s \in Seat
    PROVE  ConfirmsOf(s) \subseteq Request
<1>1. base \in Position /\ inFlight[s] \in Request \cup {NoRequest}  BY DEF TypeOK
<1>2. HonestRequests(base) \subseteq Request  BY <1>1, HonestRequestsAreRequests
<1> QED  BY <1>1, <1>2, AnswersAssumption DEF ConfirmsOf

-----------------------------------------------------------------------------
(* The inductive invariant and the end of a turn. *)

(***************************************************************************)
(* None of the last three conjuncts is inductive alone: that nobody else's *)
(* snapshot survives is what makes the next turn start from the stored     *)
(* state, and all of them need the types of what they count and compare.   *)
(***************************************************************************)
Inv == TypeOK /\ TurnHolderIsActive /\ SnapshotIsTurnStart /\ TurnLimitHolds

LEMMA AdvanceKeepsTypes ==
    ASSUME TypeOK, AdvanceToNextTurn,
           conn' \in [Seat -> {"ACTIVE", "DISCONNECTED", "FORFEITED"}],
           rack' \in [Seat -> SUBSET Tile], table' \in SUBSET (SUBSET Tile)
    PROVE  /\ status' \in {"PLAYING", "FINISHED", "DELETED"}
           /\ currentSeat' \in Seat
           /\ turnCount' \in Nat
           /\ isStalemate' \in BOOLEAN
           /\ winner' \in Seat \cup {NoSeat}
           /\ ending' \in {"none", "win", "pass", "limit", "forfeit"}
           /\ turnStart' \in Position /\ base' \in Position
<1>1. currentSeat' \in Seat
  BY AdvanceTurnIsActive DEF AdvanceToNextTurn, TypeOK
<1>2. turnCount' \in Nat  BY DEF AdvanceToNextTurn, TypeOK
<1>3. turnStart' \in Position /\ base' \in Position
  BY <1>1 DEF AdvanceToNextTurn, BeginTurn, Position
<1>4. CASE UNCHANGED <<status, isStalemate, winner, ending>>
  BY <1>1, <1>2, <1>3, <1>4 DEF TypeOK
<1>5. CASE FinishStalemate("limit")
  <2>1. winner' \in Seat \cup {NoSeat}
    BY <1>5, LowestRackIsASeat DEF FinishStalemate
  <2> QED  BY <1>1, <1>2, <1>3, <1>5, <2>1 DEF FinishStalemate
<1> QED  BY <1>4, <1>5 DEF AdvanceToNextTurn

(***************************************************************************)
(* A turn that ends drops the snapshot of its seat and with it the last    *)
(* one there was, and hands over to an active seat below the limit.        *)
(***************************************************************************)
LEMMA AdvanceStartsTurn ==
    ASSUME Inv, AdvanceToNextTurn, DropSnapshot(currentSeat),
           conn' \in [Seat -> {"ACTIVE", "DISCONNECTED", "FORFEITED"}],
           status = "PLAYING" => Cardinality(ActiveSeats(conn')) >= 2
    PROVE  TurnHolderIsActive' /\ SnapshotIsTurnStart' /\ TurnLimitHolds'
<1>1. status' = "PLAYING" => status = "PLAYING"  BY DEF AdvanceToNextTurn, FinishStalemate
<1>2. currentSeat \in Seat /\ currentSeat' \in Seat
  BY AdvanceTurnIsActive DEF AdvanceToNextTurn, Inv, TypeOK
<1>3. TurnHolderIsActive'
  <2> SUFFICES ASSUME status' = "PLAYING"  PROVE TurnHolderIsActive'
    BY DEF TurnHolderIsActive
  <2>1. Cardinality(ActiveSeats(conn')) >= 2  BY <1>1
  <2>2. ActiveSeats(conn') # {}  BY <2>1, FS_EmptySet
  <2>3. conn'[currentSeat'] # "FORFEITED"
    BY <1>2, <2>2, AdvanceTurnIsActive DEF AdvanceToNextTurn
  <2> QED  BY <2>1, <2>3 DEF TurnHolderIsActive
<1>4. SnapshotIsTurnStart'
  <2>1. \A s \in Seat : snapshot'[s] = NoSnapshot
    BY <1>2 DEF Inv, TypeOK, SnapshotIsTurnStart, DropSnapshot
  <2>2. turnStart' = [rack |-> rack'[currentSeat'], table |-> table']
    BY DEF AdvanceToNextTurn, BeginTurn
  <2> QED  BY <1>2, <2>1, <2>2 DEF SnapshotIsTurnStart, TurnBase, Stored
<1>5. TurnLimitHolds'
  BY <1>1, LimitsAssumption DEF AdvanceToNextTurn, FinishStalemate, TurnLimitHolds, Inv, TypeOK
<1> QED  BY <1>3, <1>4, <1>5

(***************************************************************************)
(* A turn that ends the game stays with its seat, from what is stored.     *)
(***************************************************************************)
LEMMA LastTurnStarts ==
    ASSUME Inv, DropSnapshot(currentSeat), BeginTurn(currentSeat), UNCHANGED currentSeat
    PROVE  SnapshotIsTurnStart'
<1>1. currentSeat \in Seat  BY DEF Inv, TypeOK
<1>2. \A s \in Seat : snapshot'[s] = NoSnapshot
  BY <1>1 DEF Inv, TypeOK, SnapshotIsTurnStart, DropSnapshot
<1>3. turnStart' = [rack |-> rack'[currentSeat], table |-> table']
  BY DEF BeginTurn
<1> QED  BY <1>1, <1>2, <1>3 DEF SnapshotIsTurnStart, TurnBase, Stored

(***************************************************************************)
(* The three facts about a turn survive a step that leaves the turn, its   *)
(* starting position and the count of turns alone and forfeits nobody.     *)
(***************************************************************************)
LEMMA TurnGoesOn ==
    ASSUME Inv,
           status' \in {status, "FINISHED", "DELETED"}, UNCHANGED <<currentSeat, turnCount, turnStart>>,
           ActiveSeats(conn) \subseteq ActiveSeats(conn'),
           \A s \in Seat : TurnBase(s)' = TurnBase(s),
           \A s \in Seat \ {currentSeat} : snapshot'[s] = snapshot[s]
    PROVE  TurnHolderIsActive' /\ SnapshotIsTurnStart' /\ TurnLimitHolds'
<1>1. /\ status' = "PLAYING" => status = "PLAYING"
      /\ currentSeat \in Seat
  BY DEF Inv, TypeOK
<1>2. TurnHolderIsActive'
  <2> SUFFICES ASSUME status' = "PLAYING"  PROVE TurnHolderIsActive'
    BY DEF TurnHolderIsActive
  <2>1. currentSeat \in ActiveSeats(conn)
    BY <1>1 DEF Inv, TurnHolderIsActive, ActiveSeats
  <2>2. conn'[currentSeat'] # "FORFEITED"  BY <2>1 DEF ActiveSeats
  <2>3. Cardinality(ActiveSeats(conn)) >= 2  BY <1>1 DEF Inv, TurnHolderIsActive
  <2>4. Cardinality(ActiveSeats(conn')) >= 2  BY <2>3, ActiveSeatsCount
  <2> QED  BY <2>2, <2>4 DEF TurnHolderIsActive
<1>3. SnapshotIsTurnStart'
  BY <1>1 DEF Inv, SnapshotIsTurnStart
<1>4. TurnLimitHolds'
  BY <1>1 DEF Inv, TurnLimitHolds
<1> QED  BY <1>2, <1>3, <1>4

-----------------------------------------------------------------------------
(* Every step keeps the invariant. *)

LEMMA InitEstablishesInv == Init => Inv
<1> SUFFICES ASSUME Init PROVE Inv
  OBVIOUS
<1>1. 0 \in Seat  BY PlayersAssumption DEF Seat
<1>2. rack \in [Seat -> SUBSET Tile] /\ drawPile \in Seq(Tile)
  BY DealsAssumption DEF Init, Deal
<1>3. TypeOK
  BY <1>1, <1>2 DEF Init, TypeOK, Position
<1>4. TurnHolderIsActive
  BY <1>1, EverySeatCounts DEF Init, TurnHolderIsActive
<1>5. SnapshotIsTurnStart
  BY <1>1 DEF Init, SnapshotIsTurnStart, TurnBase, Stored
<1>6. TurnLimitHolds  BY LimitsAssumption DEF Init, TurnLimitHolds
<1> QED  BY <1>3, <1>4, <1>5, <1>6 DEF Inv

LEMMA PlaceTilesKeepsInv ==
    ASSUME Inv, NEW s \in Seat, PlaceTiles(s), trusted' = trusted
    PROVE  Inv'
<1>1. TurnBase(s) \in Position  BY TurnBaseIsAPosition DEF Inv
<1>2. PICK r \in BrowserRequests(base) :
         /\ inFlight' = [inFlight EXCEPT ![s] = r]
         /\ IF r.fromRack \subseteq TilesOf(r.groups) /\ r.fromRack \subseteq rack[s]
            THEN /\ rack' = [rack EXCEPT ![s] = @ \ r.fromRack]
                 /\ table' = r.groups
            ELSE UNCHANGED <<rack, table>>
  BY DEF PlaceTiles
<1>3. r \in Request
  BY <1>2, HonestRequestsAreRequests DEF BrowserRequests, Inv, TypeOK
<1>4. rack' \in [Seat -> SUBSET Tile] /\ table' \in SUBSET (SUBSET Tile)
  BY <1>2, <1>3 DEF Inv, TypeOK, Request
<1>5. snapshot' \in [Seat -> Position \cup {NoSnapshot}]
  BY <1>1 DEF PlaceTiles, Inv, TypeOK
<1>6. inFlight' \in [Seat -> Request \cup {NoRequest}]
  BY <1>2, <1>3 DEF Inv, TypeOK
<1>7. TypeOK'
  BY <1>4, <1>5, <1>6 DEF PlaceTiles, history, Inv, TypeOK
<1>8. TurnHolderIsActive' /\ TurnLimitHolds'
  BY DEF PlaceTiles, history, Inv, TurnHolderIsActive, TurnLimitHolds
<1>9. SnapshotIsTurnStart'
  <2>1. s = currentSeat  BY DEF PlaceTiles, OnTurn
  <2>2. snapshot'[s] = TurnBase(s) /\ \A t \in Seat \ {s} : snapshot'[t] = snapshot[t]
    BY DEF PlaceTiles, Inv, TypeOK
  <2>3. TurnBase(s)' = TurnBase(s)
    BY <1>1, <2>1, <2>2, NoneAssumption DEF TurnBase
  <2> QED
    BY <2>1, <2>2, <2>3 DEF PlaceTiles, history, Inv, SnapshotIsTurnStart, TurnBase
<1> QED  BY <1>7, <1>8, <1>9 DEF Inv

LEMMA ConfirmAcceptedKeepsInv ==
    ASSUME Inv, NEW s \in Seat, ConfirmAccepted(s), trusted' = trusted
    PROVE  Inv'
<1>1. PICK r \in ConfirmsOf(s) :
         /\ table' = r.groups
         /\ rack' = [rack EXCEPT ![s] = RackAfter(s, r)]
         /\ melded' = [melded EXCEPT ![s] = @ \/ r.fromRack # {}]
  BY DEF ConfirmAccepted
<1>2. r \in Request  BY ConfirmsAreRequests DEF Inv
<1>3. RackAfter(s, r) \in SUBSET Tile
  BY <1>2, TurnBaseIsAPosition DEF RackAfter, Inv, TypeOK, Position
<1>4. rack' \in [Seat -> SUBSET Tile] /\ table' \in SUBSET (SUBSET Tile)
  BY <1>1, <1>2, <1>3 DEF Inv, TypeOK, Request
<1>5. melded' \in [Seat -> BOOLEAN]
  <2>1. (melded[s] \/ r.fromRack # {}) \in BOOLEAN  OBVIOUS
  <2> QED  BY <1>1, <2>1 DEF Inv, TypeOK
<1>6. /\ snapshot' \in [Seat -> Position \cup {NoSnapshot}]
      /\ inFlight' \in [Seat -> Request \cup {NoRequest}]
      /\ passCount' \in Nat /\ passers' \in SUBSET Seat
  BY DEF ConfirmAccepted, DropSnapshot, Received, ResetPasses, Inv, TypeOK
<1>7. CASE rack'[s] = {}
  <2>1. /\ status' = "FINISHED" /\ winner' = s /\ ending' = "win" /\ BeginTurn(s)
        /\ UNCHANGED <<currentSeat, turnCount, isStalemate>>
    BY <1>7 DEF ConfirmAccepted
  <2>2. turnStart' \in Position /\ base' \in Position
    BY <1>4, <2>1 DEF BeginTurn, Position
  <2>3. TypeOK'
    BY <1>4, <1>5, <1>6, <2>1, <2>2 DEF ConfirmAccepted, Inv, TypeOK
  <2>4. SnapshotIsTurnStart'
    BY <2>1, LastTurnStarts DEF ConfirmAccepted, OnTurn
  <2> QED
    BY <2>1, <2>3, <2>4 DEF Inv, TurnHolderIsActive, TurnLimitHolds
<1>8. CASE rack'[s] # {}
  <2>1. AdvanceToNextTurn  BY <1>8 DEF ConfirmAccepted
  <2>2. TypeOK'
    BY <1>4, <1>5, <1>6, <2>1, AdvanceKeepsTypes DEF ConfirmAccepted, Inv, TypeOK
  <2>3. TurnHolderIsActive' /\ SnapshotIsTurnStart' /\ TurnLimitHolds'
    BY <2>1, AdvanceStartsTurn DEF ConfirmAccepted, OnTurn, Inv, TypeOK, TurnHolderIsActive
  <2> QED  BY <2>2, <2>3 DEF Inv
<1> QED  BY <1>7, <1>8

LEMMA ConfirmPenalisedKeepsInv ==
    ASSUME Inv, NEW s \in Seat, ConfirmPenalised(s), trusted' = trusted
    PROVE  Inv'
<1> DEFINE n == IF PenaltyCount > Len(drawPile) THEN Len(drawPile) ELSE PenaltyCount
<1>1. /\ rack' = [rack EXCEPT ![s] = TurnBase(s).rack \cup {drawPile[i] : i \in 1 .. n}]
      /\ drawPile' = SubSeq(drawPile, n + 1, Len(drawPile))
  BY DEF ConfirmPenalised
<1>2. drawPile \in Seq(Tile) /\ n \in Nat /\ n <= Len(drawPile)
  BY LimitsAssumption, LenProperties DEF Inv, TypeOK
<1>3. {drawPile[i] : i \in 1 .. n} \subseteq Tile
  BY <1>2, ElementOfSeq
<1>4. drawPile' \in Seq(Tile)
  BY <1>1, <1>2, SubSeqProperties
<1>5. TurnBase(s) \in Position  BY TurnBaseIsAPosition DEF Inv
<1>6. rack' \in [Seat -> SUBSET Tile] /\ table' \in SUBSET (SUBSET Tile)
  BY <1>1, <1>3, <1>5 DEF ConfirmPenalised, Inv, TypeOK, Position
<1>7. /\ snapshot' \in [Seat -> Position \cup {NoSnapshot}]
      /\ inFlight' \in [Seat -> Request \cup {NoRequest}]
      /\ passCount' \in Nat /\ passers' \in SUBSET Seat
  BY DEF ConfirmPenalised, DropSnapshot, Received, ResetPasses, Inv, TypeOK
<1>8. TypeOK'
  BY <1>4, <1>6, <1>7, AdvanceKeepsTypes DEF ConfirmPenalised, Inv, TypeOK
<1>9. TurnHolderIsActive' /\ SnapshotIsTurnStart' /\ TurnLimitHolds'
  BY AdvanceStartsTurn DEF ConfirmPenalised, OnTurn, Inv, TypeOK, TurnHolderIsActive
<1> QED  BY <1>8, <1>9 DEF Inv

(***************************************************************************)
(* The two draws, of DRAW_TILE and of the timeout, share their effect.     *)
(***************************************************************************)
LEMMA DrawKeepsInv ==
    ASSUME Inv, Draw(currentSeat), UNCHANGED <<inFlight, trusted>>,
           expiring' \in Seat \cup {NoSeat}
    PROVE  Inv'
<1> DEFINE s == currentSeat
<1>1. s \in Seat  BY DEF Inv, TypeOK
<1>2. CASE DrawFromPile(s)
  <2>1. drawPile \in Seq(Tile) /\ drawPile # <<>>  BY <1>2 DEF DrawFromPile, Inv, TypeOK
  <2>2. Head(drawPile) \in Tile /\ drawPile' \in Seq(Tile)
    BY <1>2, <2>1, HeadTailProperties DEF DrawFromPile
  <2>3. rack' \in [Seat -> SUBSET Tile] /\ table' \in SUBSET (SUBSET Tile)
    BY <1>2, <2>2 DEF DrawFromPile, Inv, TypeOK
  <2>4. /\ snapshot' \in [Seat -> Position \cup {NoSnapshot}]
        /\ passCount' \in Nat /\ passers' \in SUBSET Seat
    BY <1>2 DEF DrawFromPile, DropSnapshot, ResetPasses, Inv, TypeOK
  <2>5. TypeOK'
    BY <1>2, <2>2, <2>3, <2>4, AdvanceKeepsTypes DEF DrawFromPile, Draw, Inv, TypeOK
  <2>6. TurnHolderIsActive' /\ SnapshotIsTurnStart' /\ TurnLimitHolds'
    BY <1>2, AdvanceStartsTurn DEF DrawFromPile, Inv, TypeOK, TurnHolderIsActive
  <2> QED  BY <2>5, <2>6 DEF Inv
<1>3. CASE Pass(s)
  <2>1. /\ rack' \in [Seat -> SUBSET Tile] /\ table' \in SUBSET (SUBSET Tile)
        /\ drawPile' \in Seq(Tile) /\ melded' = melded /\ conn' = conn /\ leavers' = leavers
        /\ snapshot' \in [Seat -> Position \cup {NoSnapshot}]
        /\ passCount' \in Nat /\ passers' \in SUBSET Seat
    BY <1>1, <1>3 DEF Pass, Draw, DropSnapshot, Inv, TypeOK
  <2>2. CASE AdvanceToNextTurn
    <3>1. TypeOK'
      BY <2>1, <2>2, AdvanceKeepsTypes DEF Inv, TypeOK
    <3>2. TurnHolderIsActive' /\ SnapshotIsTurnStart' /\ TurnLimitHolds'
      BY <1>3, <2>1, <2>2, AdvanceStartsTurn DEF Pass, Inv, TypeOK, TurnHolderIsActive
    <3> QED  BY <3>1, <3>2 DEF Inv
  <2>3. CASE FinishStalemate("pass") /\ BeginTurn(s) /\ UNCHANGED <<currentSeat, turnCount>>
    <3>1. winner' \in Seat \cup {NoSeat}
      BY <2>3, LowestRackIsASeat DEF FinishStalemate
    <3>2. turnStart' \in Position /\ base' \in Position
      BY <1>1, <2>1, <2>3 DEF BeginTurn, Position
    <3>3. TypeOK'
      BY <2>1, <2>3, <3>1, <3>2 DEF FinishStalemate, Inv, TypeOK
    <3>4. SnapshotIsTurnStart'
      BY <1>3, <2>3, LastTurnStarts DEF Pass
    <3> QED
      BY <2>3, <3>3, <3>4
      DEF FinishStalemate, Inv, TurnHolderIsActive, TurnLimitHolds
  <2> QED  BY <1>3, <2>2, <2>3 DEF Pass
<1> QED  BY <1>2, <1>3 DEF Draw


(***************************************************************************)
(* A rollback, by RESET_TURN or by the first half of a timeout, trades the *)
(* snapshot for the stored state and so leaves the start of the turn.      *)
(***************************************************************************)
LEMMA RestoreKeepsInv ==
    ASSUME Inv, NEW s \in Seat, s = currentSeat, Restore(s),
           base' \in Position, expiring' \in Seat \cup {NoSeat}, trusted' = trusted
    PROVE  Inv'
<1>1. s \in Seat /\ TurnBase(s) \in Position
  BY TurnBaseIsAPosition DEF Inv, TypeOK
<1>2. rack' = [rack EXCEPT ![s] = TurnBase(s).rack] /\ table' = TurnBase(s).table
      /\ snapshot' = [snapshot EXCEPT ![s] = NoSnapshot]
  BY DEF Restore, DropSnapshot
<1>3. TypeOK'
  BY <1>1, <1>2 DEF Restore, history, Inv, TypeOK, Position
<1>4. TurnHolderIsActive' /\ TurnLimitHolds'
  BY DEF Restore, history, Inv, TurnHolderIsActive, TurnLimitHolds
<1>5. SnapshotIsTurnStart'
  <2>1. rack'[s] = TurnBase(s).rack /\ snapshot'[s] = NoSnapshot
    BY <1>1, <1>2 DEF Inv, TypeOK
  <2>2. TurnBase(s) = [rack |-> TurnBase(s).rack, table |-> TurnBase(s).table]
    BY <1>1 DEF Position
  <2>3. TurnBase(s)' = TurnBase(s)
    BY <1>2, <2>1, <2>2 DEF TurnBase, Stored
  <2>4. \A t \in Seat \ {s} : snapshot'[t] = snapshot[t]
    BY <1>2 DEF Inv, TypeOK
  <2> QED
    BY <2>3, <2>4 DEF Restore, history, Inv, SnapshotIsTurnStart, TurnBase
<1> QED  BY <1>3, <1>4, <1>5 DEF Inv

LEMMA ForfeitPlayerKeepsInv ==
    ASSUME Inv, NEW s \in Seat, ForfeitPlayer(s), trusted' = trusted
    PROVE  Inv'
<1>1. /\ conn' \in [Seat -> {"ACTIVE", "DISCONNECTED", "FORFEITED"}]
      /\ \A t \in Seat \ {s} : conn'[t] = conn[t]
      /\ rack' = rack /\ table' = table /\ drawPile' = drawPile /\ melded' = melded
      /\ passCount' = passCount /\ passers' = passers /\ expiring' = expiring
      /\ inFlight' = inFlight /\ leavers' \in SUBSET Seat
  BY DEF ForfeitPlayer, Inv, TypeOK
<1>2. Cardinality(ActiveSeats(conn')) \in Nat  BY ActiveSeatsCount
<1>3. CASE Cardinality(ActiveSeats(conn')) <= 1
  <2>1. /\ status' = "FINISHED" /\ ending' = "forfeit"
        /\ winner' = IF ActiveSeats(conn') = {} THEN NoSeat
                     ELSE CHOOSE t \in ActiveSeats(conn') : TRUE
        /\ UNCHANGED <<currentSeat, turnCount, isStalemate, snapshot, base, turnStart>>
    BY <1>3 DEF ForfeitPlayer
  <2>2. winner' \in Seat \cup {NoSeat}
    BY <2>1 DEF ActiveSeats
  <2>3. TypeOK'
    BY <1>1, <2>1, <2>2 DEF Inv, TypeOK
  <2>4. SnapshotIsTurnStart'
    BY <1>1, <2>1 DEF Inv, SnapshotIsTurnStart, TurnBase, Stored
  <2> QED
    BY <2>1, <2>3, <2>4 DEF Inv, TurnHolderIsActive, TurnLimitHolds
<1>4. CASE Cardinality(ActiveSeats(conn')) >= 2 /\ currentSeat = s
  <2>1. DropSnapshot(s) /\ AdvanceToNextTurn
    BY <1>2, <1>4 DEF ForfeitPlayer
  <2>2. snapshot' \in [Seat -> Position \cup {NoSnapshot}]
    BY <2>1 DEF DropSnapshot, Inv, TypeOK
  <2>3. TypeOK'
    BY <1>1, <2>1, <2>2, AdvanceKeepsTypes DEF Inv, TypeOK
  <2>4. TurnHolderIsActive' /\ SnapshotIsTurnStart' /\ TurnLimitHolds'
    BY <1>1, <1>4, <2>1, AdvanceStartsTurn DEF Inv
  <2> QED  BY <2>3, <2>4 DEF Inv
<1>5. CASE Cardinality(ActiveSeats(conn')) >= 2 /\ currentSeat # s
  <2>1. UNCHANGED <<status, currentSeat, turnCount, isStalemate, winner, ending,
                    snapshot, base, turnStart>>
    BY <1>2, <1>5 DEF ForfeitPlayer
  <2>2. TypeOK'
    BY <1>1, <2>1 DEF Inv, TypeOK
  <2>3. TurnHolderIsActive'
    BY <1>1, <1>5, <2>1 DEF Inv, TypeOK, TurnHolderIsActive
  <2>4. SnapshotIsTurnStart' /\ TurnLimitHolds'
    BY <1>1, <2>1 DEF Inv, SnapshotIsTurnStart, TurnBase, Stored, TurnLimitHolds
  <2> QED  BY <2>2, <2>3, <2>4 DEF Inv
<1> QED  BY <1>2, <1>3, <1>4, <1>5

LEMMA NextKeepsInv ==
    ASSUME Inv, [Next]_vars
    PROVE  Inv'
<1> trusted' = trusted  BY DEF Next, vars
<1>1. ASSUME NEW s \in Seat, PlaceTiles(s)  PROVE Inv'
  BY <1>1, PlaceTilesKeepsInv
<1>2. ASSUME NEW s \in Seat, ConfirmAccepted(s)  PROVE Inv'
  BY <1>2, ConfirmAcceptedKeepsInv
<1>3. ASSUME NEW s \in Seat, ConfirmPenalised(s)  PROVE Inv'
  BY <1>3, ConfirmPenalisedKeepsInv
<1>4. ASSUME NEW s \in Seat, ConfirmRefusedAI(s)  PROVE Inv'
  <2>1. Restore(s) /\ s = currentSeat /\ UNCHANGED <<base, expiring>>
    BY <1>4 DEF ConfirmRefusedAI, Restore, OnTurn
  <2>2. base' \in Position /\ expiring' \in Seat \cup {NoSeat}
    BY <2>1 DEF Inv, TypeOK
  <2> QED  BY <2>1, <2>2, RestoreKeepsInv
<1>5. ASSUME NEW s \in Seat, ConfirmRejected(s) \/ LoseConfirm(s)  PROVE Inv'
  <2>1. /\ UNCHANGED <<game, snapshot, expiring, base, history>>
        /\ inFlight' \in [Seat -> Request \cup {NoRequest}]
    BY <1>5 DEF ConfirmRejected, LoseConfirm, Received, Inv, TypeOK
  <2>2. TypeOK'  BY <2>1 DEF game, history, Inv, TypeOK
  <2>3. TurnHolderIsActive' /\ SnapshotIsTurnStart' /\ TurnLimitHolds'
    BY <2>1, TurnGoesOn DEF game, history, TurnBase, Stored
  <2> QED  BY <2>2, <2>3 DEF Inv
<1>6. ASSUME NEW s \in Seat, DrawTile(s)  PROVE Inv'
  <2>1. s = currentSeat /\ Draw(s) /\ UNCHANGED inFlight /\ expiring' \in Seat \cup {NoSeat}
    BY <1>6 DEF DrawTile, OnTurn, Inv, TypeOK
  <2> QED  BY <2>1, DrawKeepsInv
<1>7. ASSUME NEW s \in Seat, ResetTurn(s)  PROVE Inv'
  <2>1. s = currentSeat /\ Restore(s) /\ base' = TurnBase(s) /\ expiring' = expiring
    BY <1>7 DEF ResetTurn, OnTurn
  <2>2. base' \in Position /\ expiring' \in Seat \cup {NoSeat}
    BY <2>1, TurnBaseIsAPosition DEF Inv, TypeOK
  <2> QED  BY <2>1, <2>2, RestoreKeepsInv
<1>8. ASSUME NEW s \in Seat, TimeoutReset(s)  PROVE Inv'
  <2>1. /\ s = currentSeat /\ Restore(s) /\ base' \in Position
        /\ expiring' \in Seat \cup {NoSeat}
    BY <1>8 DEF TimeoutReset, OnTurn, Inv, TypeOK
  <2> QED  BY <2>1, RestoreKeepsInv
<1>9. ASSUME NEW s \in Seat, ForfeitPlayer(s)  PROVE Inv'
  BY <1>9, ForfeitPlayerKeepsInv
<1>10. ASSUME NEW s \in Seat, Disconnect(s) \/ Reconnect(s)  PROVE Inv'
  <2>1. /\ conn' \in [Seat -> {"ACTIVE", "DISCONNECTED", "FORFEITED"}]
        /\ ActiveSeats(conn) \subseteq ActiveSeats(conn')
    BY <1>10 DEF Disconnect, Reconnect, ActiveSeats, Inv, TypeOK
  <2>2. /\ UNCHANGED <<status, currentSeat, drawPile, table, rack, melded, passCount,
                       turnCount, isStalemate, snapshot, expiring, history>>
        /\ inFlight' \in [Seat -> Request \cup {NoRequest}]
        /\ base' \in {base, Stored(s)}
    BY <1>10 DEF Disconnect, Reconnect, Received, Inv, TypeOK
  <2> base' \in Position
    BY <2>2 DEF Stored, Position, Inv, TypeOK
  <2>3. TypeOK'  BY <2>1, <2>2 DEF history, Inv, TypeOK
  <2>4. TurnHolderIsActive' /\ SnapshotIsTurnStart' /\ TurnLimitHolds'
    BY <2>1, <2>2, TurnGoesOn DEF history, TurnBase, Stored
  <2> QED  BY <2>3, <2>4 DEF Inv
<1>11. ASSUME TimeoutDraw  PROVE Inv'
  <2>1. expiring' \in Seat \cup {NoSeat} /\ UNCHANGED inFlight
    BY <1>11 DEF TimeoutDraw
  <2>2. CASE OnTurn(expiring) /\ Draw(expiring)
    BY <2>1, <2>2, DrawKeepsInv DEF OnTurn
  <2>3. CASE UNCHANGED <<game, snapshot, base, history>>
    <3>1. TypeOK'  BY <2>1, <2>3 DEF game, history, Inv, TypeOK
    <3>2. TurnHolderIsActive' /\ SnapshotIsTurnStart' /\ TurnLimitHolds'
      BY <2>3, TurnGoesOn DEF game, history, TurnBase, Stored
    <3> QED  BY <3>1, <3>2 DEF Inv
  <2> QED  BY <1>11, <2>2, <2>3 DEF TimeoutDraw
<1>12. ASSUME DeleteGameState  PROVE Inv'
  <2>1. TypeOK'  BY <1>12 DEF DeleteGameState, history, Inv, TypeOK
  <2> QED
    BY <1>12, <2>1
    DEF DeleteGameState, history, Inv, TurnHolderIsActive, SnapshotIsTurnStart, TurnLimitHolds,
        TurnBase, Stored
<1>13. CASE UNCHANGED vars
  <2>1. TypeOK'  BY <1>13 DEF vars, game, history, Inv, TypeOK
  <2>2. TurnHolderIsActive' /\ SnapshotIsTurnStart' /\ TurnLimitHolds'
    BY <1>13, TurnGoesOn DEF vars, game, history, TurnBase, Stored
  <2> QED  BY <2>1, <2>2 DEF Inv
<1> QED
  BY <1>1, <1>2, <1>3, <1>4, <1>5, <1>6, <1>7, <1>8, <1>9, <1>10, <1>11, <1>12, <1>13
  DEF Next, ServiceCall

-----------------------------------------------------------------------------
(* The theorems. *)

(***************************************************************************)
(* The invariant holds in every reachable state.                           *)
(***************************************************************************)
THEOREM Invariance == Spec => []Inv
<1>1. Init => Inv  BY InitEstablishesInv
<1>2. Inv /\ [Next]_vars => Inv'  BY NextKeepsInv
<1> QED  BY <1>1, <1>2, PTL DEF Spec

(***************************************************************************)
(* The stored game keeps the shape of GameStateRedis whatever is asked of  *)
(* the service, in whatever order.                                         *)
(***************************************************************************)
THEOREM TypeCorrect == Spec => []TypeOK
<1>1. Inv => TypeOK  BY DEF Inv
<1> QED  BY <1>1, Invariance, PTL

(***************************************************************************)
(* A game in progress waits for a player who has not forfeited, and has at *)
(* least two of them (advanceTurn, ForfeitPlayer, SetPlayerStatus).        *)
(***************************************************************************)
THEOREM TurnHolderCorrect == Spec => []TurnHolderIsActive
<1>1. Inv => TurnHolderIsActive  BY DEF Inv
<1> QED  BY <1>1, Invariance, PTL

(***************************************************************************)
(* Every validation and every rollback starts from the position the turn   *)
(* began with, for every deck and every answer of an LLM (V-18).           *)
(***************************************************************************)
THEOREM SnapshotCorrect == Spec => []SnapshotIsTurnStart
<1>1. Inv => SnapshotIsTurnStart  BY DEF Inv
<1> QED  BY <1>1, Invariance, PTL

(***************************************************************************)
(* No game goes on at or beyond its turn limit (checkTurnLimit).           *)
(***************************************************************************)
THEOREM TurnLimitCorrect == Spec => []TurnLimitHolds
<1>1. Inv => TurnLimitHolds  BY DEF Inv
<1> QED  BY <1>1, Invariance, PTL

(***************************************************************************)
(* An invalid confirm of a human puts the board and the rack back to the   *)
(* start of the turn, up to the penalty drawn, and hands that board to the *)
(* next player (V-20).                                                     *)
(***************************************************************************)
LEMMA PenaltyStep ==
    ASSUME Inv, NEW s \in Seat, ConfirmPenalised(s), status = "PLAYING"
    PROVE  /\ table' = turnStart.table
           /\ turnStart.rack \subseteq rack'[s]
           /\ rack'[s] \subseteq turnStart.rack \cup Range(drawPile)
           /\ turnStart' = [rack |-> rack'[currentSeat'], table |-> turnStart.table]
<1> DEFINE n == IF PenaltyCount > Len(drawPile) THEN Len(drawPile) ELSE PenaltyCount
<1>1. TurnBase(s) = turnStart
  BY DEF ConfirmPenalised, OnTurn, Inv, SnapshotIsTurnStart
<1>2. table' = turnStart.table
  BY <1>1 DEF ConfirmPenalised
<1>3. rack'[s] = turnStart.rack \cup {drawPile[i] : i \in 1 .. n}
  BY <1>1 DEF ConfirmPenalised, Inv, TypeOK
<1>4. {drawPile[i] : i \in 1 .. n} \subseteq Range(drawPile)
  <2>1. drawPile \in Seq(Tile) /\ n \in Nat /\ n <= Len(drawPile)
    BY LimitsAssumption, LenProperties DEF Inv, TypeOK
  <2>2. \A i \in 1 .. n : i \in DOMAIN drawPile
    BY <2>1, LenProperties
  <2> QED  BY <2>2 DEF Range
<1>5. turnStart' = [rack |-> rack'[currentSeat'], table |-> table']
  BY DEF ConfirmPenalised, AdvanceToNextTurn, BeginTurn
<1> QED  BY <1>2, <1>3, <1>4, <1>5

THEOREM PenaltyCorrect == Spec => PenaltyRollsBack
<1>1. Inv => \A s \in Seat :
               ConfirmPenalised(s) /\ status = "PLAYING" =>
                   /\ table' = turnStart.table
                   /\ turnStart.rack \subseteq rack'[s]
                   /\ rack'[s] \subseteq turnStart.rack \cup Range(drawPile)
                   /\ turnStart' = [rack |-> rack'[currentSeat'], table |-> turnStart.table]
  BY PenaltyStep
<1> QED  BY <1>1, Invariance, PTL DEF PenaltyRollsBack

-----------------------------------------------------------------------------
(* Where the tiles of a game are, for every deck, every number of players, *)
(* every set of melds and every answer of an LLM: a tile played stays on   *)
(* the table, and with callers that can be trusted every tile of the deck  *)
(* is always in exactly one place.                                         *)

(***************************************************************************)
(* Sets with at most one element, which is what every count of             *)
(* TileConservation is a count of.                                         *)
(***************************************************************************)
LEMMA AtMostOne ==
    ASSUME NEW S, \A x, y \in S : x = y
    PROVE  Cardinality(S) = IF S = {} THEN 0 ELSE 1
<1>1. CASE S = {}  BY <1>1, FS_EmptySet
<1>2. CASE S # {}
  <2>1. PICK x \in S : TRUE  BY <1>2
  <2>2. S = {x}  BY <2>1
  <2> QED  BY <1>2, <2>2, FS_Singleton
<1> QED  BY <1>1, <1>2

LEMMA ExactlyOne ==
    ASSUME NEW S, IsFiniteSet(S)
    PROVE  /\ Cardinality(S) \in Nat
           /\ Cardinality(S) = 0 => S = {}
           /\ Cardinality(S) = 1 => S # {} /\ \A x, y \in S : x = y
<1>1. Cardinality(S) = 0 => S = {}  BY FS_EmptySet
<1>2. Cardinality(S) = 1 => \E x : S = {x}  BY FS_Singleton
<1> QED  BY <1>1, <1>2, FS_CardinalityType

-----------------------------------------------------------------------------
(* V-06: a tile of the table stays on it. *)

(***************************************************************************)
(* A set of groups of a finite deck counts a tile at least once exactly    *)
(* when the tile is in one of the groups.                                  *)
(***************************************************************************)
LEMMA FreqCounts ==
    ASSUME NEW groups \in SUBSET (SUBSET Tile), NEW t
    PROVE  /\ Freq(groups, t) \in Nat
           /\ Freq(groups, t) >= 1 <=> t \in TilesOf(groups)
<1>1. IsFiniteSet({g \in groups : t \in g})
  <2>1. IsFiniteSet(SUBSET Tile)  BY FS_SUBSET, TilesAssumption
  <2>2. {g \in groups : t \in g} \subseteq SUBSET Tile  OBVIOUS
  <2> QED  BY <2>1, <2>2, FS_Subset
<1>2. Freq(groups, t) \in Nat /\ (Freq(groups, t) = 0 <=> {g \in groups : t \in g} = {})
  BY <1>1, FS_CardinalityType, FS_EmptySet DEF Freq
<1>3. {g \in groups : t \in g} = {} <=> t \notin TilesOf(groups)
  BY DEF TilesOf
<1> QED  BY <1>2, <1>3

(***************************************************************************)
(* The verdict of a confirm: no tile of the board it started from is gone. *)
(* Recovered jokers may be counted one less, and are on the board by V-07. *)
(***************************************************************************)
LEMMA ValidTurnKeepsTiles ==
    ASSUME NEW before \in Position, NEW after \in Position, NEW m, NEW jokers,
           ValidTurn(before, after, m, jokers)
    PROVE  TilesOf(before.table) \subseteq TilesOf(after.table)
<1> SUFFICES ASSUME NEW t \in TilesOf(before.table)
             PROVE  t \in TilesOf(after.table)
  OBVIOUS
<1>1. CASE t \in jokers
  BY <1>1 DEF ValidTurn
<1>2. CASE t \notin jokers
  <2>1. Freq(after.table, t) >= Freq(before.table, t) - (IF t \in jokers THEN 1 ELSE 0)
    BY DEF ValidTurn
  <2>2. before.table \in SUBSET (SUBSET Tile) /\ after.table \in SUBSET (SUBSET Tile)
    BY DEF Position
  <2>3. Freq(before.table, t) \in Nat /\ Freq(before.table, t) >= 1
    BY <2>2, FreqCounts
  <2>4. Freq(after.table, t) >= 1
    BY <1>2, <2>1, <2>2, <2>3, FreqCounts
  <2> QED  BY <2>2, <2>4, FreqCounts
<1> QED  BY <1>1, <1>2

(***************************************************************************)
(* The tiles the turn began with are on the table throughout it, and on    *)
(* the board the player to move drafts on.                                 *)
(***************************************************************************)
PlayedStay ==
    /\ TilesOf(turnStart.table) \subseteq TilesOf(table)
    /\ TilesOf(turnStart.table) \subseteq TilesOf(base.table)

TilesInv == Inv /\ PlayedStay

(***************************************************************************)
(* A turn that begins takes the stored board for its start.                *)
(***************************************************************************)
LEMMA BegunTurnStays ==
    ASSUME BeginTurn(currentSeat')
    PROVE  PlayedStay'
BY DEF BeginTurn, PlayedStay

(***************************************************************************)
(* The tiles confirmed by the player to move include those of its turn's   *)
(* start.                                                                  *)
(***************************************************************************)
LEMMA ConfirmKeepsTiles ==
    ASSUME Inv, NEW s \in Seat, ConfirmAccepted(s)
    PROVE  TilesOf(turnStart.table) \subseteq TilesOf(table')
<1>1. PICK r \in ConfirmsOf(s) : Verdict(s, r) /\ table' = r.groups
  BY DEF ConfirmAccepted
<1>2. r \in Request  BY ConfirmsAreRequests DEF Inv
<1>3. TurnBase(s) = turnStart /\ TurnBase(s) \in Position
  BY TurnBaseIsAPosition DEF ConfirmAccepted, OnTurn, Inv, SnapshotIsTurnStart
<1>4. [rack |-> RackAfter(s, r), table |-> r.groups] \in Position
  BY <1>2, <1>3 DEF RackAfter, Inv, TypeOK, Position, Request
<1> QED
  BY <1>1, <1>3, <1>4, ValidTurnKeepsTiles DEF Verdict

LEMMA TilesStayInTurn ==
    ASSUME TilesInv, [Next]_vars
    PROVE  /\ PlayedStay'
           /\ turnCount' # turnCount => TilesOf(turnStart.table) \subseteq TilesOf(table')
<1> DEFINE Stays == TilesOf(turnStart.table) \subseteq TilesOf(table')
<1> USE DEF TilesInv
<1>1. ASSUME NEW s \in Seat, PlaceTiles(s)  PROVE PlayedStay' /\ turnCount' = turnCount
  <2>1. PICK r \in BrowserRequests(base) : table' \in {table, r.groups}
    BY <1>1 DEF PlaceTiles
  <2>2. TilesOf(base.table) \subseteq TilesOf(r.groups)
    BY DEF BrowserRequests, HonestRequests
  <2> QED  BY <1>1, <2>1, <2>2 DEF PlaceTiles, history, PlayedStay
<1>2. ASSUME NEW s \in Seat, ConfirmAccepted(s)  PROVE PlayedStay' /\ Stays
  <2>1. BeginTurn(currentSeat')
    BY <1>2 DEF ConfirmAccepted, AdvanceToNextTurn, OnTurn
  <2> QED  BY <1>2, <2>1, BegunTurnStays, ConfirmKeepsTiles
<1>3. ASSUME NEW s \in Seat, ConfirmPenalised(s)  PROVE PlayedStay' /\ Stays
  <2>1. BeginTurn(currentSeat')  BY <1>3 DEF ConfirmPenalised, AdvanceToNextTurn
  <2>2. table' = turnStart.table
    BY <1>3 DEF ConfirmPenalised, OnTurn, Inv, SnapshotIsTurnStart
  <2> QED  BY <2>1, <2>2, BegunTurnStays
<1>4. ASSUME NEW s \in Seat, ConfirmRefusedAI(s)  PROVE PlayedStay' /\ turnCount' = turnCount
  BY <1>4 DEF ConfirmRefusedAI, OnTurn, history, Inv, SnapshotIsTurnStart, PlayedStay
<1>5. ASSUME NEW s \in Seat, ConfirmRejected(s) \/ LoseConfirm(s)
      PROVE  PlayedStay' /\ turnCount' = turnCount
  BY <1>5 DEF ConfirmRejected, LoseConfirm, game, history, PlayedStay
<1>6. ASSUME NEW s \in Seat, s = currentSeat, Draw(s)  PROVE PlayedStay' /\ Stays
  <2>1. table' = table  BY <1>6 DEF Draw, DrawFromPile, Pass
  <2>2. BeginTurn(currentSeat')
    BY <1>6 DEF Draw, DrawFromPile, Pass, AdvanceToNextTurn
  <2> QED  BY <2>1, <2>2, BegunTurnStays DEF PlayedStay
<1>7. ASSUME NEW s \in Seat, ResetTurn(s)  PROVE PlayedStay' /\ turnCount' = turnCount
  BY <1>7 DEF ResetTurn, Restore, OnTurn, history, Inv, SnapshotIsTurnStart, PlayedStay
<1>8. ASSUME NEW s \in Seat, TimeoutReset(s)  PROVE PlayedStay' /\ turnCount' = turnCount
  BY <1>8 DEF TimeoutReset, Restore, OnTurn, history, Inv, SnapshotIsTurnStart, PlayedStay
<1>9. ASSUME NEW s \in Seat, ForfeitPlayer(s)  PROVE PlayedStay' /\ Stays
  <2>1. table' = table  BY <1>9 DEF ForfeitPlayer
  <2>2. CASE BeginTurn(currentSeat')
    BY <2>1, <2>2, BegunTurnStays DEF PlayedStay
  <2>3. CASE UNCHANGED <<base, turnStart>>
    BY <2>1, <2>3 DEF PlayedStay
  <2> QED  BY <1>9, <2>2, <2>3 DEF ForfeitPlayer, AdvanceToNextTurn
<1>10. ASSUME NEW s \in Seat, Disconnect(s) \/ Reconnect(s)
       PROVE  PlayedStay' /\ turnCount' = turnCount
  <2>1. base' \in {base, Stored(s)} /\ UNCHANGED <<table, turnStart, turnCount>>
    BY <1>10 DEF Disconnect, Reconnect, history
  <2> QED  BY <2>1 DEF PlayedStay, Stored
<1>11. ASSUME TimeoutDraw  PROVE PlayedStay' /\ (turnCount' # turnCount => Stays)
  <2>1. CASE OnTurn(expiring) /\ Draw(expiring)
    <3>1. expiring = currentSeat /\ expiring \in Seat  BY <2>1 DEF OnTurn, Inv, TypeOK
    <3> QED  BY <1>6, <2>1, <3>1
  <2>2. CASE UNCHANGED <<game, snapshot, base, history>>
    BY <2>2 DEF game, history, PlayedStay
  <2> QED  BY <1>11, <2>1, <2>2 DEF TimeoutDraw
<1>12. ASSUME NEW s \in Seat, DrawTile(s)  PROVE PlayedStay' /\ Stays
  BY <1>6, <1>12 DEF DrawTile, OnTurn
<1>13. ASSUME DeleteGameState \/ UNCHANGED vars  PROVE PlayedStay' /\ turnCount' = turnCount
  BY <1>13 DEF DeleteGameState, vars, game, history, PlayedStay
<1> QED
  BY <1>1, <1>2, <1>3, <1>4, <1>5, <1>7, <1>8, <1>9, <1>10, <1>11, <1>12, <1>13
  DEF Next, ServiceCall

(***************************************************************************)
(* A tile that lay on the table when a turn ended is never taken off it by *)
(* a later turn, however that turn ends: the claim of V-06 for the whole   *)
(* game, for honest and dishonest callers alike.                           *)
(***************************************************************************)
THEOREM PlayedTilesCorrect == Spec => PlayedTilesStay
<1>1. Init => TilesInv
  BY InitEstablishesInv DEF Init, TilesInv, PlayedStay
<1>2. TilesInv /\ [Next]_vars => TilesInv'
  BY NextKeepsInv, TilesStayInTurn DEF TilesInv
<1>3. TilesInv /\ [Next]_vars =>
        [turnCount' # turnCount => TilesOf(turnStart.table) \subseteq TilesOf(table')]_vars
  BY TilesStayInTurn
<1> QED  BY <1>1, <1>2, <1>3, PTL DEF Spec, PlayedTilesStay

-----------------------------------------------------------------------------
(* D-05, D-06: every tile in exactly one place. *)

(***************************************************************************)
(* The places hold every tile once, said without counting: groups that     *)
(* share no tile, racks that share none, a pile that lists none twice, and *)
(* no tile in two kinds of places.                                         *)
(***************************************************************************)
Apart(groups) == \A g, h \in groups : g # h => g \cap h = {}

OnceEach(board, racks, pile) ==
    /\ Apart(board)
    /\ \A s, u \in Seat : s # u => racks[s] \cap racks[u] = {}
    /\ \A s \in Seat : racks[s] \cap (TilesOf(board) \cup Range(pile)) = {}
    /\ TilesOf(board) \cap Range(pile) = {}
    /\ IsInjective(pile)
    /\ \A t \in Tile : t \in TilesOf(board) \cup Range(pile) \/ \E s \in Seat : t \in racks[s]

(***************************************************************************)
(* Said so, the counts of TileConservation are one in all, ...             *)
(***************************************************************************)
LEMMA OnceEachCounts ==
    ASSUME NEW board, NEW racks, NEW pile, OnceEach(board, racks, pile), NEW t \in Tile
    PROVE  Freq(board, t) + Cardinality({s \in Seat : t \in racks[s]})
             + Cardinality({i \in DOMAIN pile : pile[i] = t}) = 1
<1> DEFINE onBoard == {g \in board : t \in g}
           inRack  == {s \in Seat : t \in racks[s]}
           inPile  == {i \in DOMAIN pile : pile[i] = t}
<1>1. \A g, h \in onBoard : g = h  BY DEF OnceEach, Apart
<1>2. \A s, u \in inRack : s = u  BY DEF OnceEach
<1>3. \A i, j \in inPile : i = j  BY DEF OnceEach, IsInjective
<1>4. onBoard = {} <=> t \notin TilesOf(board)  BY DEF TilesOf
<1>5. inPile = {} <=> t \notin Range(pile)  BY DEF Range
<1>6. \/ onBoard # {} /\ inRack = {} /\ inPile = {}
      \/ onBoard = {} /\ inRack # {} /\ inPile = {}
      \/ onBoard = {} /\ inRack = {} /\ inPile # {}
  BY <1>4, <1>5 DEF OnceEach
<1>7. /\ Cardinality(onBoard) = IF onBoard = {} THEN 0 ELSE 1
      /\ Cardinality(inRack) = IF inRack = {} THEN 0 ELSE 1
      /\ Cardinality(inPile) = IF inPile = {} THEN 0 ELSE 1
  BY <1>1, <1>2, <1>3, AtMostOne
<1> HIDE DEF onBoard, inRack, inPile
<1>8. Cardinality(onBoard) + Cardinality(inRack) + Cardinality(inPile) = 1
  BY <1>6, <1>7
<1> QED  BY <1>8 DEF Freq, onBoard, inRack, inPile

(***************************************************************************)
(* ... and a dealt deck is so.                                             *)
(***************************************************************************)
LEMMA DealIsOnceEach ==
    ASSUME NEW d \in Deal, DealtOnce(d)
    PROVE  OnceEach({}, d.hands, d.pile)
<1>1. d.hands \in [Seat -> SUBSET Tile] /\ d.pile \in Seq(Tile)  BY DEF Deal
<1> DEFINE inRack(t) == {s \in Seat : t \in d.hands[s]}
           inPile(t) == {i \in DOMAIN d.pile : d.pile[i] = t}
<1>2. IsFiniteSet(Seat) /\ IsFiniteSet(DOMAIN d.pile)
  <2>1. DOMAIN d.pile = 1 .. Len(d.pile) /\ Len(d.pile) \in Nat  BY <1>1, LenProperties
  <2> QED  BY <2>1, FS_Interval, PlayersAssumption DEF Seat
<1>3. ASSUME NEW t \in Tile
      PROVE  /\ inRack(t) = {} \/ inPile(t) = {}
             /\ inRack(t) # {} \/ inPile(t) # {}
             /\ \A s, u \in inRack(t) : s = u
             /\ \A i, j \in inPile(t) : i = j
  <2>1. IsFiniteSet(inRack(t)) /\ IsFiniteSet(inPile(t))
    <3>1. inRack(t) \subseteq Seat /\ inPile(t) \subseteq DOMAIN d.pile  OBVIOUS
    <3> QED  BY <1>2, <3>1, FS_Subset
  <2>2. Cardinality(inRack(t)) + Cardinality(inPile(t)) = 1
    BY DEF DealtOnce
  <2> HIDE DEF inRack, inPile
  <2>3. Cardinality(inRack(t)) \in Nat /\ Cardinality(inPile(t)) \in Nat
    BY <2>1, ExactlyOne
  <2>4. CASE Cardinality(inRack(t)) = 0 /\ Cardinality(inPile(t)) = 1
    <3>1. inRack(t) = {}  BY <2>1, <2>4, ExactlyOne
    <3>2. inPile(t) # {} /\ \A i, j \in inPile(t) : i = j  BY <2>1, <2>4, ExactlyOne
    <3> QED  BY <3>1, <3>2
  <2>5. CASE Cardinality(inRack(t)) = 1 /\ Cardinality(inPile(t)) = 0
    <3>1. inPile(t) = {}  BY <2>1, <2>5, ExactlyOne
    <3>2. inRack(t) # {} /\ \A s, u \in inRack(t) : s = u  BY <2>1, <2>5, ExactlyOne
    <3> QED  BY <3>1, <3>2
  <2> QED  BY <2>2, <2>3, <2>4, <2>5
<1>4. \A i \in DOMAIN d.pile : d.pile[i] \in Tile  BY <1>1, ElementOfSeq, LenProperties
<1>5. IsInjective(d.pile)  BY <1>3, <1>4 DEF IsInjective
<1>6. \A s, u \in Seat : s # u => d.hands[s] \cap d.hands[u] = {}
  BY <1>1, <1>3
<1>7. \A s \in Seat : d.hands[s] \cap Range(d.pile) = {}
  BY <1>1, <1>3 DEF Range
<1>8. \A t \in Tile : t \in Range(d.pile) \/ \E s \in Seat : t \in d.hands[s]
  BY <1>3 DEF Range
<1> QED  BY <1>5, <1>6, <1>7, <1>8 DEF OnceEach, Apart, TilesOf

(***************************************************************************)
(* Tiles of one rack laid out, with all of the board, in groups that share *)
(* none.                                                                   *)
(***************************************************************************)
LEMMA LayingOutKeepsOnce ==
    ASSUME NEW board, NEW racks \in [Seat -> SUBSET Tile], NEW pile,
           OnceEach(board, racks, pile),
           NEW s \in Seat, NEW laid \in SUBSET racks[s], NEW groups,
           Apart(groups), TilesOf(groups) = TilesOf(board) \cup laid
    PROVE  OnceEach(groups, [racks EXCEPT ![s] = @ \ laid], pile)
<1> DEFINE after == [racks EXCEPT ![s] = @ \ laid]
<1>1. after[s] = racks[s] \ laid /\ \A u \in Seat \ {s} : after[u] = racks[u]
  OBVIOUS
<1> HIDE DEF after
<1>2. \A u \in Seat : after[u] \subseteq racks[u]  BY <1>1
<1>3. \A u, v \in Seat : u # v => after[u] \cap after[v] = {}
  BY <1>2 DEF OnceEach
<1>4. \A u \in Seat : after[u] \cap (TilesOf(groups) \cup Range(pile)) = {}
  BY <1>1 DEF OnceEach
<1>5. TilesOf(groups) \cap Range(pile) = {}  BY DEF OnceEach
<1>6. \A t \in Tile : t \in TilesOf(groups) \cup Range(pile) \/ \E u \in Seat : t \in after[u]
  BY <1>1 DEF OnceEach
<1> QED  BY <1>3, <1>4, <1>5, <1>6 DEF OnceEach, after

(***************************************************************************)
(* Tiles taken from the front of the pile into one rack.                   *)
(***************************************************************************)
LEMMA DrawingKeepsOnce ==
    ASSUME NEW board, NEW racks \in [Seat -> SUBSET Tile], NEW pile \in Seq(Tile),
           OnceEach(board, racks, pile), NEW s \in Seat, NEW n \in 0 .. Len(pile)
    PROVE  OnceEach(board, [racks EXCEPT ![s] = @ \cup {pile[i] : i \in 1 .. n}],
                    SubSeq(pile, n + 1, Len(pile)))
<1> DEFINE after == [racks EXCEPT ![s] = @ \cup {pile[i] : i \in 1 .. n}]
           rest  == SubSeq(pile, n + 1, Len(pile))
<1>1. DOMAIN pile = 1 .. Len(pile) /\ Len(pile) \in Nat  BY LenProperties
<1>2. /\ DOMAIN rest = 1 .. Len(pile) - n
      /\ \A i \in 1 .. Len(pile) - n : rest[i] = pile[n + i]
  <2> \A i \in n + 1 .. Len(pile) : pile[i] \in Tile  BY <1>1, ElementOfSeq
  <2> n + 1 \in Int /\ Len(pile) \in Int  BY <1>1
  <2>1. /\ rest \in Seq(Tile)
        /\ Len(rest) = IF n + 1 <= Len(pile) THEN Len(pile) - (n + 1) + 1 ELSE 0
        /\ \A i \in 1 .. Len(pile) - (n + 1) + 1 : rest[i] = pile[n + 1 + i - 1]
    BY SubSeqProperties
  <2>2. DOMAIN rest = 1 .. Len(rest)  BY <2>1, LenProperties
  <2> HIDE DEF rest
  <2>3. Len(rest) = Len(pile) - n
    <3>1. Len(rest) = IF n + 1 <= Len(pile) THEN Len(pile) - (n + 1) + 1 ELSE 0  BY <2>1
    <3>2. n \in 0 .. Len(pile) /\ Len(pile) \in Nat  BY <1>1
    <3>3. CASE n + 1 <= Len(pile)  BY <3>1, <3>2, <3>3
    <3>4. CASE n = Len(pile)  BY <3>1, <3>2, <3>4
    <3> QED  BY <3>2, <3>3, <3>4
  <2>4. \A i \in 1 .. Len(pile) - n : i \in 1 .. Len(pile) - (n + 1) + 1 /\ n + 1 + i - 1 = n + i
    BY <1>1
  <2> QED  BY <2>1, <2>2, <2>3, <2>4
<1>3. after[s] = racks[s] \cup {pile[i] : i \in 1 .. n}
      /\ \A u \in Seat \ {s} : after[u] = racks[u]
  OBVIOUS
<1> HIDE DEF after, rest
<1>4. Range(pile) = {pile[i] : i \in 1 .. Len(pile)}  BY <1>1 DEF Range
<1>5. Range(rest) = {pile[i] : i \in n + 1 .. Len(pile)}
  <2>1. Range(rest) = {pile[n + i] : i \in 1 .. Len(pile) - n}  BY <1>2 DEF Range
  <2>2. ASSUME NEW i \in 1 .. Len(pile) - n  PROVE n + i \in n + 1 .. Len(pile)
    BY <1>1
  <2>3. ASSUME NEW i \in n + 1 .. Len(pile)
        PROVE  i - n \in 1 .. Len(pile) - n /\ n + (i - n) = i
    BY <1>1
  <2> QED  BY <2>1, <2>2, <2>3
<1>6. Range(pile) = {pile[i] : i \in 1 .. n} \cup Range(rest)
  BY <1>1, <1>4, <1>5
<1>7. {pile[i] : i \in 1 .. n} \cap Range(rest) = {}
  BY <1>1, <1>5 DEF OnceEach, IsInjective
<1>8. IsInjective(rest)
  BY <1>1, <1>2 DEF OnceEach, IsInjective
<1>9. \A u, v \in Seat : u # v => after[u] \cap after[v] = {}
  BY <1>3, <1>6 DEF OnceEach
<1>10. \A u \in Seat : after[u] \cap (TilesOf(board) \cup Range(rest)) = {}
  BY <1>3, <1>6, <1>7 DEF OnceEach
<1>11. TilesOf(board) \cap Range(rest) = {}  BY <1>6 DEF OnceEach
<1>12. \A t \in Tile : t \in TilesOf(board) \cup Range(rest) \/ \E u \in Seat : t \in after[u]
  BY <1>3, <1>6 DEF OnceEach
<1> QED  BY <1>8, <1>9, <1>10, <1>11, <1>12 DEF OnceEach, after, rest

(***************************************************************************)
(* A request whose groups share no tile and hold what it takes from a rack *)
(* and nothing that was neither there nor on the board.                    *)
(***************************************************************************)
DraftedOn(r, tiles) ==
    /\ r.fromRack \subseteq TilesOf(r.groups)
    /\ TilesOf(r.groups) \subseteq tiles \cup r.fromRack
    /\ Apart(r.groups)

LEMMA HonestRequestsAreDrafted ==
    ASSUME NEW from \in Position, Apart(from.table), NEW r \in HonestRequests(from)
    PROVE  /\ DraftedOn(r, TilesOf(from.table))
           /\ TilesOf(from.table) \subseteq TilesOf(r.groups)
           /\ r.fromRack \subseteq from.rack
<1>1. PICK g \in SUBSET Group, j \in SUBSET (Joker \cap TilesOf(from.table)) :
         /\ r = [groups |-> g, fromRack |-> TilesOf(g) \ TilesOf(from.table), jokers |-> j]
         /\ TilesOf(from.table) \subseteq TilesOf(g)
         /\ TilesOf(g) \subseteq TilesOf(from.table) \cup from.rack
         /\ \A t \in TilesOf(g) :
               Freq(g, t) = IF t \in TilesOf(from.table) THEN Freq(from.table, t) ELSE 1
  BY DEF HonestRequests
<1>2. Apart(g)
  <2> SUFFICES ASSUME NEW x \in g, NEW y \in g, NEW t \in x \cap y  PROVE x = y
    BY DEF Apart
  <2> DEFINE there == {h \in g : t \in h}
  <2>1. t \in TilesOf(g)  BY DEF TilesOf
  <2>2. ASSUME t \in TilesOf(from.table)  PROVE Freq(from.table, t) = 1
    <3> DEFINE before == {h \in from.table : t \in h}
    <3>1. \A h, k \in before : h = k  BY DEF Apart
    <3>2. before # {}  BY <2>2 DEF TilesOf
    <3>3. Cardinality(before) = 1  BY <3>1, <3>2, AtMostOne
    <3> QED  BY <3>3 DEF Freq
  <2>3. Freq(g, t) = 1  BY <1>1, <2>1, <2>2
  <2>4. Cardinality(there) = 1  BY <2>3 DEF Freq
  <2>5. IsFiniteSet(there)
    <3>1. IsFiniteSet(SUBSET Tile)  BY FS_SUBSET, TilesAssumption
    <3>2. there \subseteq SUBSET Tile  BY TilesAssumption
    <3> QED  BY <3>1, <3>2, FS_Subset
  <2>6. \A h, k \in there : h = k  BY <2>4, <2>5, ExactlyOne
  <2> QED  BY <2>6
<1>3. r.groups = g /\ r.fromRack = TilesOf(g) \ TilesOf(from.table)  BY <1>1
<1> QED  BY <1>1, <1>2, <1>3 DEF DraftedOn

(***************************************************************************)
(* With callers that can be trusted: the places as they are, and as they   *)
(* were when the turn began, hold every tile once; whoever drafts, drafts  *)
(* on the start of the turn; and a placement not yet confirmed has its     *)
(* confirm behind it, which the service will accept or roll back.  Without *)
(* the last two a confirm, or the end of a turn between a place and its    *)
(* confirm, would be free to lose or to double a tile.                     *)
(***************************************************************************)
RolledBack == [rack EXCEPT ![currentSeat] = turnStart.rack]

Places ==
    /\ OnceEach(table, rack, drawPile)
    /\ OnceEach(turnStart.table, RolledBack, drawPile)
    /\ base = turnStart
    /\ \A s \in AISeat : inFlight[s] = NoRequest
    /\ \A s \in Seat : inFlight[s] # NoRequest =>
          inFlight[s].fromRack # {} /\ DraftedOn(inFlight[s], TilesOf(turnStart.table))
    /\ snapshot[currentSeat] # NoSnapshot /\ status # "DELETED" =>
          /\ inFlight[currentSeat] # NoRequest
          /\ inFlight[currentSeat].fromRack \subseteq turnStart.rack

PlacesInv == TilesInv /\ (trusted => Places)

LEMMA PlacesAtInit == Init => PlacesInv
<1> SUFFICES ASSUME Init  PROVE PlacesInv
  OBVIOUS
<1>0. TilesInv  BY InitEstablishesInv DEF Init, TilesInv, PlayedStay
<1>1. PICK d \in Deals : rack = d.hands /\ drawPile = d.pile  BY DEF Init
<1>2. d \in Deal /\ OnceEach({}, d.hands, d.pile)
  BY DealsAssumption, DealIsOnceEach
<1>3. 0 \in Seat /\ AISeat \subseteq Seat  BY PlayersAssumption DEF Seat
<1>4. RolledBack = rack
  BY <1>1, <1>2, <1>3 DEF Init, RolledBack, Deal
<1>5. Places  BY <1>1, <1>2, <1>3, <1>4 DEF Init, Places
<1> QED  BY <1>0, <1>5 DEF PlacesInv

(***************************************************************************)
(* What a turn that begins asks of the turn that ends.                     *)
(***************************************************************************)
LEMMA BegunTurnPlaces ==
    ASSUME PlacesInv, Places, BeginTurn(currentSeat'), currentSeat' \in Seat,
           DropSnapshot(currentSeat),
           rack' \in [Seat -> SUBSET Tile], OnceEach(table', rack', drawPile'),
           TilesOf(turnStart.table) \subseteq TilesOf(table'),
           \A s \in Seat : inFlight'[s] \in {inFlight[s], NoRequest}
    PROVE  Places'
<1> currentSeat \in Seat /\ AISeat \subseteq Seat
  BY PlayersAssumption DEF PlacesInv, TilesInv, Inv, TypeOK
<1>1. turnStart' = [rack |-> rack'[currentSeat'], table |-> table'] /\ base' = turnStart'
  BY DEF BeginTurn
<1>2. RolledBack' = rack'
  BY <1>1 DEF RolledBack
<1>3. snapshot'[currentSeat'] = NoSnapshot
  BY DEF DropSnapshot, PlacesInv, TilesInv, Inv, TypeOK, SnapshotIsTurnStart
<1>4. \A s \in AISeat : inFlight'[s] = NoRequest
  BY DEF Places
<1>5. ASSUME NEW s \in Seat, inFlight'[s] # NoRequest
      PROVE  inFlight'[s].fromRack # {} /\ DraftedOn(inFlight'[s], TilesOf(turnStart'.table))
  BY <1>1, <1>5 DEF Places, DraftedOn
<1> QED  BY <1>1, <1>2, <1>3, <1>4, <1>5 DEF Places

(***************************************************************************)
(* A placement lays out what the player drafted on the start of its turn.  *)
(***************************************************************************)
LEMMA PlaceTilesPlaces ==
    ASSUME PlacesInv, Places, NEW s \in Seat, PlaceTiles(s)
    PROVE  Places'
<1>1. /\ s = currentSeat /\ s \notin AISeat /\ inFlight[s] = NoRequest
      /\ status # "DELETED" /\ status' = status /\ turnStart' = turnStart /\ base' = base
      /\ currentSeat' = currentSeat /\ drawPile' = drawPile
  BY DEF PlaceTiles, OnTurn, Idle, history
<1>2. snapshot[s] = NoSnapshot  BY <1>1 DEF Places
<1>3. turnStart = Stored(s) /\ turnStart \in Position /\ base = turnStart
  BY <1>1, <1>2 DEF Places, PlacesInv, TilesInv, Inv, TypeOK, SnapshotIsTurnStart, TurnBase
<1>4. PICK r \in BrowserRequests(base) :
         /\ inFlight' = [inFlight EXCEPT ![s] = r]
         /\ r.fromRack \subseteq TilesOf(r.groups) /\ r.fromRack \subseteq rack[s] =>
               rack' = [rack EXCEPT ![s] = @ \ r.fromRack] /\ table' = r.groups
  BY DEF PlaceTiles
<1>5. /\ r.fromRack # {} /\ DraftedOn(r, TilesOf(turnStart.table))
      /\ TilesOf(turnStart.table) \subseteq TilesOf(r.groups)
      /\ r.fromRack \subseteq turnStart.rack
  BY <1>3, HonestRequestsAreDrafted DEF BrowserRequests, Places, OnceEach
<1>6. rack[s] = turnStart.rack /\ table = turnStart.table  BY <1>3 DEF Stored
<1>7. rack' = [rack EXCEPT ![s] = @ \ r.fromRack] /\ table' = r.groups
  BY <1>4, <1>5, <1>6 DEF DraftedOn
<1>8. OnceEach(table', rack', drawPile')
  <2>1. rack \in [Seat -> SUBSET Tile]  BY DEF PlacesInv, TilesInv, Inv, TypeOK
  <2>2. TilesOf(r.groups) = TilesOf(table) \cup r.fromRack /\ Apart(r.groups)
    BY <1>5, <1>6 DEF DraftedOn
  <2> QED  BY <1>1, <1>5, <1>6, <1>7, <2>1, <2>2, LayingOutKeepsOnce DEF Places
<1>9. RolledBack' = RolledBack
  BY <1>1, <1>7 DEF RolledBack, PlacesInv, TilesInv, Inv, TypeOK
<1>10. inFlight'[s] = r /\ \A u \in Seat \ {s} : inFlight'[u] = inFlight[u]
  BY <1>4 DEF PlacesInv, TilesInv, Inv, TypeOK
<1>11. \A u \in AISeat : inFlight'[u] = NoRequest
  BY <1>1, <1>10, PlayersAssumption DEF Places
<1>12. r # NoRequest
  BY <1>3, HonestRequestsAreRequests, NoneAssumption DEF BrowserRequests
<1> QED  BY <1>1, <1>5, <1>8, <1>9, <1>10, <1>11, <1>12 DEF Places

(***************************************************************************)
(* What a confirm leaves on the table and in the racks.                    *)
(***************************************************************************)
LEMMA ConfirmedPlaces ==
    ASSUME PlacesInv, Places, trusted, NEW s \in Seat, ConfirmAccepted(s)
    PROVE  OnceEach(table', rack', drawPile')
<1>1. PICK r \in ConfirmsOf(s) :
         /\ r.fromRack \subseteq TurnBase(s).rack
         /\ table' = r.groups /\ rack' = [rack EXCEPT ![s] = RackAfter(s, r)]
  BY DEF ConfirmAccepted, Examined
<1>2. /\ s = currentSeat /\ status # "DELETED" /\ drawPile' = drawPile
      /\ TurnBase(s) = turnStart /\ turnStart \in Position
      /\ rack \in [Seat -> SUBSET Tile]
  BY DEF ConfirmAccepted, OnTurn, PlacesInv, TilesInv, Inv, TypeOK, SnapshotIsTurnStart
<1>3. TilesOf(turnStart.table) \subseteq TilesOf(r.groups)
  BY <1>1, ConfirmKeepsTiles DEF PlacesInv, TilesInv
<1>4. DraftedOn(r, TilesOf(turnStart.table)) /\ RackAfter(s, r) = turnStart.rack \ r.fromRack
  <2>1. CASE s \in AISeat
    <3>1. r \in HonestRequests(turnStart)
      BY <1>1, <2>1 DEF ConfirmsOf, Places
    <3>2. DraftedOn(r, TilesOf(turnStart.table))
      BY <1>2, <3>1, HonestRequestsAreDrafted DEF Places, OnceEach
    <3>3. rack[s] = turnStart.rack
      BY <1>2, <2>1 DEF Places, TurnBase, Stored
    <3> QED  BY <1>2, <3>2, <3>3 DEF RackAfter
  <2>2. CASE s \notin AISeat
    <3>1. r = inFlight[s] /\ inFlight[s] # NoRequest
      BY <1>1, <2>2 DEF ConfirmsOf
    <3> QED  BY <1>2, <3>1 DEF Places, RackAfter
  <2> QED  BY <2>1, <2>2
<1>5. RolledBack \in [Seat -> SUBSET Tile] /\ RolledBack[s] = turnStart.rack
      /\ \A u \in Seat \ {s} : RolledBack[u] = rack[u]
  BY <1>2 DEF RolledBack, Position
<1>6. rack' = [RolledBack EXCEPT ![s] = @ \ r.fromRack]
  BY <1>1, <1>2, <1>4, <1>5 DEF RolledBack
<1>7. TilesOf(r.groups) = TilesOf(turnStart.table) \cup r.fromRack /\ Apart(r.groups)
  BY <1>3, <1>4 DEF DraftedOn
<1>8. r.fromRack \in SUBSET RolledBack[s]  BY <1>1, <1>2, <1>5
<1>9. OnceEach(turnStart.table, RolledBack, drawPile)  BY DEF Places
<1>10. OnceEach(r.groups, [RolledBack EXCEPT ![s] = @ \ r.fromRack], drawPile)
  BY <1>5, <1>7, <1>8, <1>9, LayingOutKeepsOnce
<1> QED  BY <1>1, <1>2, <1>6, <1>10

LEMMA ConfirmAcceptedPlaces ==
    ASSUME PlacesInv, Places, trusted, NEW s \in Seat, ConfirmAccepted(s), Inv'
    PROVE  Places'
<1>1. OnceEach(table', rack', drawPile')  BY ConfirmedPlaces
<1>2. TilesOf(turnStart.table) \subseteq TilesOf(table')
  BY ConfirmKeepsTiles DEF PlacesInv, TilesInv
<1>3. BeginTurn(currentSeat') /\ DropSnapshot(currentSeat)
  BY DEF ConfirmAccepted, AdvanceToNextTurn, OnTurn
<1>4. \A u \in Seat : inFlight'[u] \in {inFlight[u], NoRequest}
  BY DEF ConfirmAccepted, Received, PlacesInv, TilesInv, Inv, TypeOK
<1>5. currentSeat' \in Seat /\ rack' \in [Seat -> SUBSET Tile]
  BY DEF Inv, TypeOK
<1> QED  BY <1>1, <1>2, <1>3, <1>4, <1>5, BegunTurnPlaces

(***************************************************************************)
(* The penalty is drawn on top of the start of the turn.                   *)
(***************************************************************************)
LEMMA ConfirmPenalisedPlaces ==
    ASSUME PlacesInv, Places, NEW s \in Seat, ConfirmPenalised(s), Inv'
    PROVE  Places'
<1> DEFINE n == IF PenaltyCount > Len(drawPile) THEN Len(drawPile) ELSE PenaltyCount
<1>1. /\ rack' = [rack EXCEPT ![s] = turnStart.rack \cup {drawPile[i] : i \in 1 .. n}]
      /\ drawPile' = SubSeq(drawPile, n + 1, Len(drawPile))
      /\ table' = turnStart.table
      /\ s = currentSeat
  BY DEF ConfirmPenalised, OnTurn, PlacesInv, TilesInv, Inv, SnapshotIsTurnStart
<1>2. /\ drawPile \in Seq(Tile) /\ rack \in [Seat -> SUBSET Tile] /\ turnStart \in Position
  BY DEF PlacesInv, TilesInv, Inv, TypeOK
<1>3. n \in 0 .. Len(drawPile)
  BY <1>2, LimitsAssumption, LenProperties
<1>4. RolledBack \in [Seat -> SUBSET Tile] /\ RolledBack[s] = turnStart.rack
  BY <1>1, <1>2 DEF RolledBack, Position
<1>5. rack' = [RolledBack EXCEPT ![s] = @ \cup {drawPile[i] : i \in 1 .. n}]
  BY <1>1, <1>2, <1>4 DEF RolledBack
<1>6. OnceEach(turnStart.table, RolledBack, drawPile)  BY DEF Places
<1> HIDE DEF n
<1>7. OnceEach(table', rack', drawPile')
  <2>1. OnceEach(turnStart.table, [RolledBack EXCEPT ![s] = @ \cup {drawPile[i] : i \in 1 .. n}],
                 SubSeq(drawPile, n + 1, Len(drawPile)))
    BY <1>2, <1>3, <1>4, <1>6, DrawingKeepsOnce
  <2> QED  BY <1>1, <1>5, <2>1
<1>8. BeginTurn(currentSeat') /\ DropSnapshot(currentSeat)
  BY <1>1 DEF ConfirmPenalised, AdvanceToNextTurn
<1>9. \A u \in Seat : inFlight'[u] \in {inFlight[u], NoRequest}
  BY DEF ConfirmPenalised, Received, PlacesInv, TilesInv, Inv, TypeOK
<1>10. currentSeat' \in Seat /\ rack' \in [Seat -> SUBSET Tile]
  BY DEF Inv, TypeOK
<1> QED  BY <1>1, <1>7, <1>8, <1>9, <1>10, BegunTurnPlaces

(***************************************************************************)
(* A draw makes what lies on the table final, confirmed or not.            *)
(***************************************************************************)
LEMMA DrawPlaces ==
    ASSUME PlacesInv, Places, Draw(currentSeat), UNCHANGED inFlight, Inv'
    PROVE  Places'
<1> DEFINE s == currentSeat
<1>1. /\ drawPile \in Seq(Tile) /\ rack \in [Seat -> SUBSET Tile] /\ s \in Seat
      /\ OnceEach(table, rack, drawPile)
  BY DEF Places, PlacesInv, TilesInv, Inv, TypeOK
<1>2. OnceEach(table', rack', drawPile')
  <2>1. CASE Pass(s)
    BY <1>1, <2>1 DEF Pass
  <2>2. CASE DrawFromPile(s)
    <3>1. /\ drawPile # <<>> /\ table' = table
          /\ rack' = [rack EXCEPT ![s] = @ \cup {Head(drawPile)}] /\ drawPile' = Tail(drawPile)
      BY <2>2 DEF DrawFromPile
    <3>2. 1 \in 0 .. Len(drawPile)
      BY <1>1, <3>1, EmptySeq, LenProperties
    <3>3. drawPile' = SubSeq(drawPile, 1 + 1, Len(drawPile))
      BY <1>1, <3>1, TailIsSubSeq
    <3>4. {drawPile[i] : i \in 1 .. 1} = {Head(drawPile)}
      <4>1. Head(drawPile) = drawPile[1]  BY <1>1, <3>1
      <4>2. 1 .. 1 = {1}  OBVIOUS
      <4> QED  BY <4>1, <4>2
    <3>5. OnceEach(table, [rack EXCEPT ![s] = @ \cup {drawPile[i] : i \in 1 .. 1}],
                   SubSeq(drawPile, 1 + 1, Len(drawPile)))
      BY <1>1, <3>2, DrawingKeepsOnce
    <3> QED  BY <3>1, <3>3, <3>4, <3>5
  <2> QED  BY <2>1, <2>2 DEF Draw
<1>3. TilesOf(turnStart.table) \subseteq TilesOf(table')
  BY DEF PlacesInv, TilesInv, PlayedStay, Draw, DrawFromPile, Pass
<1>4. BeginTurn(currentSeat') /\ DropSnapshot(currentSeat)
  BY DEF Draw, DrawFromPile, Pass, AdvanceToNextTurn
<1>5. \A u \in Seat : inFlight'[u] \in {inFlight[u], NoRequest}
  BY DEF PlacesInv, TilesInv, Inv, TypeOK
<1>6. currentSeat' \in Seat /\ rack' \in [Seat -> SUBSET Tile]
  BY DEF Inv, TypeOK
<1> QED  BY <1>2, <1>3, <1>4, <1>5, <1>6, BegunTurnPlaces

(***************************************************************************)
(* A rollback gives the places of the start of the turn.                   *)
(***************************************************************************)
LEMMA RestorePlaces ==
    ASSUME PlacesInv, Places, Restore(currentSeat), base' \in {base, TurnBase(currentSeat)}
    PROVE  Places'
<1> DEFINE s == currentSeat
<1>1. /\ TurnBase(s) = turnStart /\ base = turnStart /\ s \in Seat
      /\ rack \in [Seat -> SUBSET Tile] /\ snapshot \in [Seat -> Position \cup {NoSnapshot}]
  BY DEF Places, PlacesInv, TilesInv, Inv, TypeOK, SnapshotIsTurnStart
<1>2. /\ rack' = [rack EXCEPT ![s] = turnStart.rack] /\ table' = turnStart.table
      /\ snapshot'[s] = NoSnapshot
      /\ UNCHANGED <<currentSeat, turnStart, drawPile, inFlight, status>>
  BY <1>1 DEF Restore, DropSnapshot, history
<1>3. rack' = RolledBack /\ RolledBack' = RolledBack
  BY <1>1, <1>2 DEF RolledBack
<1>4. base' = turnStart'  BY <1>1, <1>2
<1> QED  BY <1>1, <1>2, <1>3, <1>4 DEF Places

LEMMA ForfeitPlayerPlaces ==
    ASSUME PlacesInv, Places, NEW s \in Seat, ForfeitPlayer(s), Inv'
    PROVE  Places'
<1>1. /\ UNCHANGED <<rack, table, drawPile, inFlight>>
      /\ OnceEach(table, rack, drawPile)
  BY DEF ForfeitPlayer, Places
<1>2. CASE DropSnapshot(currentSeat) /\ AdvanceToNextTurn
  <2>1. BeginTurn(currentSeat') /\ currentSeat' \in Seat /\ rack' \in [Seat -> SUBSET Tile]
    BY <1>2 DEF AdvanceToNextTurn, Inv, TypeOK
  <2>2. TilesOf(turnStart.table) \subseteq TilesOf(table')
    BY <1>1 DEF PlacesInv, TilesInv, PlayedStay
  <2> QED  BY <1>1, <1>2, <2>1, <2>2, BegunTurnPlaces
<1>3. CASE UNCHANGED <<currentSeat, snapshot, base, turnStart>>
  BY <1>1, <1>3 DEF ForfeitPlayer, Places, RolledBack
<1> QED  BY <1>2, <1>3 DEF ForfeitPlayer

LEMMA NextKeepsPlaces ==
    ASSUME PlacesInv, Places, trusted, [Next]_vars, Inv'
    PROVE  Places'
<1>0. /\ Inv /\ currentSeat \in Seat
      /\ inFlight \in [Seat -> Request \cup {NoRequest}]
      /\ rack \in [Seat -> SUBSET Tile]
      /\ TurnBase(currentSeat) = turnStart
  BY DEF PlacesInv, TilesInv, Inv, TypeOK, SnapshotIsTurnStart
<1>1. ASSUME NEW s \in Seat, PlaceTiles(s)  PROVE Places'
  BY <1>1, PlaceTilesPlaces
<1>2. ASSUME NEW s \in Seat, ConfirmAccepted(s)  PROVE Places'
  BY <1>2, ConfirmAcceptedPlaces
<1>3. ASSUME NEW s \in Seat, ConfirmPenalised(s)  PROVE Places'
  BY <1>3, ConfirmPenalisedPlaces
<1>4. ASSUME NEW s \in Seat, ConfirmRefusedAI(s) \/ ResetTurn(s) \/ TimeoutReset(s)
      PROVE  Places'
  <2>1. s = currentSeat
    BY <1>4 DEF ConfirmRefusedAI, ResetTurn, TimeoutReset, OnTurn
  <2>2. Restore(s) /\ base' \in {base, TurnBase(s)}
    BY <1>4 DEF ConfirmRefusedAI, ResetTurn, TimeoutReset, Restore
  <2> QED  BY <2>1, <2>2, RestorePlaces
<1>5. ASSUME NEW s \in Seat, ConfirmRejected(s)  PROVE Places'
  <2>1. /\ UNCHANGED <<game, snapshot, expiring, base, history>>
        /\ inFlight'[s] = NoRequest /\ \A u \in Seat \ {s} : inFlight'[u] = inFlight[u]
    BY <1>0, <1>5 DEF ConfirmRejected, Received
  <2>2. snapshot[currentSeat] # NoSnapshot /\ status # "DELETED" => s # currentSeat
    BY <1>0, <1>5 DEF ConfirmRejected, Examined, ConfirmsOf, Places
  <2>3. RolledBack' = RolledBack  BY <2>1 DEF RolledBack, game, history
  <2>4. \A u \in Seat : inFlight'[u] # NoRequest => inFlight'[u] = inFlight[u]
    BY <2>1
  <2>5. \A u \in AISeat : inFlight'[u] = NoRequest
    BY <2>1, <2>4, PlayersAssumption DEF Places
  <2> QED  BY <1>0, <2>1, <2>2, <2>3, <2>4, <2>5 DEF Places, game, history
<1>6. ASSUME NEW s \in Seat, LoseConfirm(s)  PROVE Places'
  BY <1>6 DEF LoseConfirm
<1>7. ASSUME NEW s \in Seat, DrawTile(s)  PROVE Places'
  BY <1>7, DrawPlaces DEF DrawTile, OnTurn
<1>8. ASSUME NEW s \in Seat, ForfeitPlayer(s)  PROVE Places'
  BY <1>8, ForfeitPlayerPlaces
<1>9. ASSUME NEW s \in Seat, Disconnect(s)  PROVE Places'
  BY <1>9 DEF Disconnect, history, Places, RolledBack
<1>10. ASSUME NEW s \in Seat, Reconnect(s)  PROVE Places'
  <2>1. /\ UNCHANGED <<status, currentSeat, drawPile, table, rack, snapshot, history>>
        /\ inFlight'[s] = NoRequest /\ \A u \in Seat \ {s} : inFlight'[u] = inFlight[u]
    BY <1>0, <1>10 DEF Reconnect, Received
  <2>2. s = currentSeat => snapshot[s] = NoSnapshot
    BY <1>10 DEF Reconnect
  <2>3. base' = turnStart
    BY <1>0, <1>10, <2>2 DEF Reconnect, TurnBase, Places
  <2>4. RolledBack' = RolledBack /\ turnStart' = turnStart  BY <2>1 DEF RolledBack, history
  <2>5. \A u \in Seat : inFlight'[u] # NoRequest => inFlight'[u] = inFlight[u]
    BY <2>1
  <2>6. \A u \in AISeat : inFlight'[u] = NoRequest
    BY <2>1, <2>5, PlayersAssumption DEF Places
  <2> QED  BY <1>0, <2>1, <2>2, <2>3, <2>4, <2>5, <2>6 DEF Places
<1>11. ASSUME TimeoutDraw  PROVE Places'
  <2>1. CASE OnTurn(expiring) /\ Draw(expiring)
    BY <1>11, <2>1, DrawPlaces DEF OnTurn, TimeoutDraw
  <2>2. CASE UNCHANGED <<game, snapshot, base, history>>
    BY <1>11, <2>2 DEF TimeoutDraw, game, history, Places, RolledBack
  <2> QED  BY <1>11, <2>1, <2>2 DEF TimeoutDraw
<1>12. ASSUME DeleteGameState \/ UNCHANGED vars  PROVE Places'
  BY <1>12 DEF DeleteGameState, vars, game, history, Places, RolledBack
<1> QED
  BY <1>1, <1>2, <1>3, <1>4, <1>5, <1>6, <1>7, <1>8, <1>9, <1>10, <1>11, <1>12
  DEF Next, ServiceCall

(***************************************************************************)
(* With callers that can be trusted no tile of the deck is ever lost,      *)
(* doubled, or in two places, whatever the order of places, confirms,      *)
(* draws, timeouts, rollbacks, forfeits and reconnections (D-05, D-06).    *)
(***************************************************************************)
THEOREM TilesConserved == Spec => []TilesAreConserved
<1>1. Init => PlacesInv  BY PlacesAtInit
<1>2. PlacesInv /\ [Next]_vars => PlacesInv'
  <2> SUFFICES ASSUME PlacesInv, [Next]_vars  PROVE PlacesInv'
    OBVIOUS
  <2>1. TilesInv'
    BY NextKeepsInv, TilesStayInTurn DEF PlacesInv, TilesInv
  <2>2. trusted' => trusted  BY DEF Next, vars
  <2> QED  BY <2>1, <2>2, NextKeepsPlaces DEF PlacesInv, TilesInv
<1>3. PlacesInv => TilesAreConserved
  BY OnceEachCounts DEF PlacesInv, Places, TilesAreConserved, TileConservation
<1> QED  BY <1>1, <1>2, <1>3, PTL DEF Spec

-----------------------------------------------------------------------------
(* The end of a game: the passes that lead to it are counted from when the *)
(* pile ran out, and whoever the handler names as the winner is the one    *)
(* the service recorded.                                                   *)
(*                                                                         *)
(* The score of a rack comes first.  RackScore folds over a set, picking   *)
(* its tiles one by one: a recursive function on the subsets of the rack,  *)
(* of which the definition only says that it is CHOSEN to satisfy its      *)
(* equation.  That such a function exists, and that its values are natural *)
(* numbers, is proved by taking the smallest size of a subset for which it *)
(* fails.                                                                  *)

Picked(s)      == CHOOSE t \in s : TRUE
ScoreOf(f, s)  == IF s = {} THEN 0 ELSE TileScore[Picked(s)] + f[s \ {Picked(s)}]
Scores(f, T)   == f = [s \in SUBSET T |-> ScoreOf(f, s)]

LEMMA RackScoreFolds ==
    ASSUME NEW T
    PROVE  RackScore(T) = (CHOOSE f : Scores(f, T))[T]
BY DEF RackScore, MapThenSumSet, MapThenFoldSet, Scores, ScoreOf, Picked

\* The tile picked leaves a subset with one tile less.
LEMMA PickedLeavesOneLess ==
    ASSUME NEW T \in SUBSET Tile, NEW s \in SUBSET T, s # {}
    PROVE  /\ Picked(s) \in s /\ s \ {Picked(s)} \in SUBSET T
           /\ Cardinality(s) \in Nat \ {0}
           /\ Cardinality(s \ {Picked(s)}) = Cardinality(s) - 1
<1>1. Picked(s) \in s  BY DEF Picked
<1>2. IsFiniteSet(s)  BY TilesAssumption, FS_Subset
<1>3. Cardinality(s) \in Nat /\ Cardinality(s) # 0  BY <1>2, FS_CardinalityType, FS_EmptySet
<1>4. Cardinality(s \ {Picked(s)}) = Cardinality(s) - 1  BY <1>1, <1>2, FS_RemoveElement
<1> QED  BY <1>1, <1>3, <1>4

\* A function that satisfies the equation on the subsets of up to n tiles.
ScoresUpTo(f, T, n) ==
    /\ f \in [SUBSET T -> Nat]
    /\ \A s \in SUBSET T : Cardinality(s) <= n => f[s] = ScoreOf(f, s)

LEMMA ScoresExtend ==
    ASSUME NEW T \in SUBSET Tile, NEW n \in Nat, NEW f, ScoresUpTo(f, T, n)
    PROVE  \E g : ScoresUpTo(g, T, n + 1)
<1> DEFINE g == [s \in SUBSET T |-> IF Cardinality(s) <= n THEN f[s] ELSE ScoreOf(f, s)]
<1>1. ASSUME NEW s \in SUBSET T  PROVE ScoreOf(f, s) \in Nat
  <2>1. CASE s = {}  BY <2>1 DEF ScoreOf
  <2>2. CASE s # {}
    <3>1. Picked(s) \in Tile /\ s \ {Picked(s)} \in SUBSET T  BY <2>2, PickedLeavesOneLess
    <3>2. TileScore[Picked(s)] \in Nat /\ f[s \ {Picked(s)}] \in Nat
      BY <3>1, ScoresAssumption DEF ScoresUpTo
    <3> QED  BY <2>2, <3>2 DEF ScoreOf
  <2> QED  BY <2>1, <2>2
<1>2. g \in [SUBSET T -> Nat]
  BY <1>1 DEF ScoresUpTo
<1>3. ASSUME NEW s \in SUBSET T, Cardinality(s) <= n + 1
      PROVE  g[s] = ScoreOf(g, s)
  <2>1. g[s] = ScoreOf(f, s)  BY DEF ScoresUpTo
  <2>2. CASE s = {}  BY <2>1, <2>2 DEF ScoreOf
  <2>3. CASE s # {}
    <3>1. /\ s \ {Picked(s)} \in SUBSET T
          /\ Cardinality(s \ {Picked(s)}) = Cardinality(s) - 1
          /\ Cardinality(s) \in Nat
      BY <2>3, PickedLeavesOneLess
    <3>2. Cardinality(s \ {Picked(s)}) <= n  BY <1>3, <3>1
    <3>3. g[s \ {Picked(s)}] = f[s \ {Picked(s)}]  BY <3>1, <3>2
    <3> QED  BY <2>1, <2>3, <3>3 DEF ScoreOf
  <2> QED  BY <2>2, <2>3
<1> HIDE DEF g
<1> QED  BY <1>2, <1>3 DEF ScoresUpTo

LEMMA ScoresExist ==
    ASSUME NEW T \in SUBSET Tile
    PROVE  \E f : Scores(f, T)
<1> DEFINE missing == {n \in Nat : \A f : ~ ScoresUpTo(f, T, n)}
<1>1. missing = {}
  <2> SUFFICES ASSUME missing # {}  PROVE FALSE
    OBVIOUS
  <2>1. PICK n \in missing : \A m \in missing : n <= m
    BY SmallestStep
  <2>2. CASE n = 0
    <3> DEFINE f == [s \in SUBSET T |-> 0]
    <3>1. \A s \in SUBSET T : Cardinality(s) <= 0 => f[s] = ScoreOf(f, s)
      BY PickedLeavesOneLess DEF ScoreOf
    <3>2. ScoresUpTo(f, T, 0)  BY <3>1 DEF ScoresUpTo
    <3> QED  BY <2>1, <2>2, <3>2
  <2>3. CASE n # 0
    <3>1. n - 1 \in Nat /\ (n - 1) + 1 = n /\ ~ (n <= n - 1)  BY <2>1, <2>3
    <3>2. n - 1 \notin missing  BY <2>1, <3>1
    <3>3. PICK f : ScoresUpTo(f, T, n - 1)  BY <3>1, <3>2
    <3>4. \E g : ScoresUpTo(g, T, n)  BY <3>1, <3>3, ScoresExtend
    <3> QED  BY <2>1, <3>4
  <2> QED  BY <2>2, <2>3
<1>2. IsFiniteSet(T) /\ Cardinality(T) \in Nat
  BY TilesAssumption, FS_Subset, FS_CardinalityType
<1>3. PICK f : ScoresUpTo(f, T, Cardinality(T))  BY <1>1, <1>2
<1>4. \A s \in SUBSET T : Cardinality(s) <= Cardinality(T)  BY <1>2, FS_Subset
<1>5. f \in [SUBSET T -> Nat] /\ \A s \in SUBSET T : f[s] = ScoreOf(f, s)
  BY <1>3, <1>4 DEF ScoresUpTo
<1>6. f = [s \in SUBSET T |-> ScoreOf(f, s)]  BY <1>5
<1> QED  BY <1>6 DEF Scores

(***************************************************************************)
(* The score of a rack is a natural number, and an empty rack scores 0.    *)
(***************************************************************************)
LEMMA RackScoreIsNat ==
    ASSUME NEW T \in SUBSET Tile
    PROVE  RackScore(T) \in Nat /\ (T = {} => RackScore(T) = 0)
<1>1. PICK f : Scores(f, T) /\ RackScore(T) = f[T]
  <2>1. Scores((CHOOSE f : Scores(f, T)), T)  BY ScoresExist
  <2> QED  BY <2>1, RackScoreFolds
<1>2. \A s \in SUBSET T : f[s] = ScoreOf(f, s)  BY <1>1 DEF Scores
<1> DEFINE bad == {n \in Nat : \E s \in SUBSET T : Cardinality(s) = n /\ f[s] \notin Nat}
<1>3. bad = {}
  <2> SUFFICES ASSUME bad # {}  PROVE FALSE
    OBVIOUS
  <2>1. PICK n \in bad : \A m \in bad : n <= m
    BY SmallestStep
  <2>2. PICK s \in SUBSET T : Cardinality(s) = n /\ f[s] \notin Nat  BY <2>1
  <2>3. s # {}  BY <1>2, <2>2 DEF ScoreOf
  <2> DEFINE rest == s \ {Picked(s)}
  <2>4. Picked(s) \in Tile /\ rest \in SUBSET T /\ n # 0 /\ Cardinality(rest) = n - 1
    BY <2>2, <2>3, PickedLeavesOneLess
  <2>5. n - 1 \in Nat /\ ~ (n <= n - 1)  BY <2>1, <2>4
  <2>6. f[rest] \in Nat  BY <2>1, <2>4, <2>5
  <2>7. f[s] = TileScore[Picked(s)] + f[rest]  BY <1>2, <2>3 DEF ScoreOf
  <2>8. TileScore[Picked(s)] \in Nat  BY <2>4, ScoresAssumption
  <2> HIDE DEF rest
  <2>9. f[s] \in Nat  BY <2>6, <2>7, <2>8
  <2> QED  BY <2>2, <2>9
<1>4. IsFiniteSet(T) /\ Cardinality(T) \in Nat
  BY TilesAssumption, FS_Subset, FS_CardinalityType
<1>5. f[T] \in Nat  BY <1>3, <1>4
<1> QED  BY <1>1, <1>2, <1>5 DEF ScoreOf

-----------------------------------------------------------------------------
(* The two endings that name a winner, in a game nobody has left. *)

(***************************************************************************)
(* With nobody forfeited the turn goes to the neighbour, and every seat    *)
(* counts.                                                                 *)
(***************************************************************************)
NobodyForfeited(c) == \A s \in Seat : c[s] # "FORFEITED"

LEMMA NeighbourIsNext ==
    ASSUME NEW c, NobodyForfeited(c), NEW s \in Seat
    PROVE  AdvanceTurn(s, c) = IF s + 1 = N THEN 0 ELSE s + 1
<1> DEFINE steps == {i \in 1 .. N : c[(s + i) % N] # "FORFEITED"}
<1>1. \A i \in 1 .. N : (s + i) % N \in Seat
  BY PlayersAssumption DEF Seat
<1>2. steps = 1 .. N  BY <1>1 DEF NobodyForfeited
<1>3. 1 \in steps /\ \A j \in steps : 1 <= j  BY <1>2, PlayersAssumption
<1>4. (CHOOSE i \in steps : \A j \in steps : i <= j) = 1
  <2>1. \A i \in steps : (\A j \in steps : i <= j) => i = 1
    BY <1>2, <1>3
  <2> HIDE DEF steps
  <2> QED  BY <1>3, <2>1
<1>5. AdvanceTurn(s, c) = (s + 1) % N
  BY <1>3, <1>4 DEF AdvanceTurn
<1>6. s \in 0 .. N - 1 /\ N \in Nat /\ N >= 2  BY PlayersAssumption DEF Seat
<1>7. CASE s + 1 = N
  <2>1. N % N = 0  BY <1>6
  <2> QED  BY <1>5, <1>7, <2>1
<1>8. CASE s + 1 # N
  <2>1. s + 1 \in 0 .. N - 1  BY <1>6, <1>8
  <2>2. (s + 1) % N = s + 1  BY <1>6, <2>1
  <2> QED  BY <1>5, <1>8, <2>2
<1> QED  BY <1>7, <1>8

LEMMA EverySeatIsActive ==
    ASSUME NEW c, NobodyForfeited(c)
    PROVE  ActiveSeats(c) = Seat /\ Cardinality(ActiveSeats(c)) = N
<1>1. ActiveSeats(c) = Seat  BY DEF ActiveSeats, NobodyForfeited
<1>2. Cardinality(0 .. N - 1) = N  BY FS_Interval, PlayersAssumption
<1> QED  BY <1>1, <1>2 DEF Seat

(***************************************************************************)
(* How many turns ago a seat last moved, in a game nobody has left; the    *)
(* seats that passed are then those that moved within passCount turns.     *)
(***************************************************************************)
Back(s) == IF s < currentSeat THEN currentSeat - s ELSE currentSeat - s + N

PassesCounted ==
    leavers = {} =>
        /\ NobodyForfeited(conn)
        /\ status = "PLAYING" =>
              /\ passCount < N
              /\ \A s \in Seat : s \in passers <=> Back(s) <= passCount

EndingInv ==
    /\ Inv
    /\ status = "PLAYING" => ending = "none"
    /\ PassesCounted

(***************************************************************************)
(* A turn that goes on to the next after a pass, or after anything else.   *)
(***************************************************************************)
LEMMA PassCounts ==
    ASSUME EndingInv, status = "PLAYING", leavers = {}, AdvanceToNextTurn, conn' = conn,
           \/ passCount' = 0 /\ passers' = {}
           \/ /\ passCount' = passCount + 1 /\ passCount + 1 < N
              /\ passers' = passers \cup {currentSeat}
    PROVE  /\ passCount' < N
           /\ \A s \in Seat : s \in passers' <=> Back(s)' <= passCount'
<1>1. /\ currentSeat \in 0 .. N - 1 /\ N \in Nat /\ N >= 2
      /\ passCount \in Nat /\ NobodyForfeited(conn)
  BY PlayersAssumption DEF EndingInv, Inv, TypeOK, PassesCounted, Seat
<1>2. currentSeat' = IF currentSeat + 1 = N THEN 0 ELSE currentSeat + 1
  BY <1>1, NeighbourIsNext DEF AdvanceToNextTurn, Seat
<1>3. ASSUME NEW s \in Seat
      PROVE  /\ Back(s)' \in Nat \ {0} /\ Back(s) \in Nat \ {0}
             /\ Back(s)' = IF s = currentSeat THEN 1 ELSE Back(s) + 1
  BY <1>1, <1>2 DEF Back, Seat
<1>4. \A s \in Seat : s \in passers <=> Back(s) <= passCount
  BY DEF EndingInv, PassesCounted
<1>5. CASE passCount' = 0 /\ passers' = {}
  BY <1>1, <1>3, <1>5
<1>6. CASE /\ passCount' = passCount + 1 /\ passCount + 1 < N
           /\ passers' = passers \cup {currentSeat}
  <2> SUFFICES ASSUME NEW s \in Seat
               PROVE  s \in passers' <=> Back(s)' <= passCount'
    BY <1>6
  <2>1. CASE s = currentSeat  BY <1>1, <1>3, <1>6, <2>1
  <2>2. CASE s # currentSeat
    <3>1. s \in passers' <=> Back(s) <= passCount  BY <1>4, <1>6, <2>2
    <3> QED  BY <1>1, <1>3, <1>6, <2>2, <3>1
  <2> QED  BY <2>1, <2>2
<1> QED  BY <1>5, <1>6

(***************************************************************************)
(* Every step counts the passes, and a stalemate by passes is everybody's. *)
(***************************************************************************)
WholeRound ==
    status = "PLAYING" /\ ending' = "pass" =>
        /\ drawPile = <<>>
        /\ ActiveSeats(conn) \subseteq passers' \/ leavers # {}

LEMMA EndedTurnCounts ==
    ASSUME EndingInv, AdvanceToNextTurn, conn' = conn, ResetPasses, leavers' = leavers
    PROVE  (status' = "PLAYING" => ending' = "none") /\ PassesCounted' /\ WholeRound
<1>1. \/ UNCHANGED <<status, ending>>
      \/ status' = "FINISHED" /\ ending' = "limit"
  BY DEF AdvanceToNextTurn, FinishStalemate
<1>2. ASSUME leavers = {}, status' = "PLAYING"
      PROVE  passCount' < N /\ \A s \in Seat : s \in passers' <=> Back(s)' <= passCount'
  BY <1>1, <1>2, PassCounts DEF ResetPasses
<1> QED
  BY <1>1, <1>2 DEF EndingInv, PassesCounted, NobodyForfeited, WholeRound

LEMMA DrawCounts ==
    ASSUME EndingInv, Draw(currentSeat)
    PROVE  (status' = "PLAYING" => ending' = "none") /\ PassesCounted' /\ WholeRound
<1>1. CASE DrawFromPile(currentSeat)
  BY <1>1, EndedTurnCounts DEF DrawFromPile, Draw
<1>2. CASE Pass(currentSeat)
  <2>1. /\ passCount' = passCount + 1 /\ passers' = passers \cup {currentSeat}
        /\ UNCHANGED <<conn, leavers>> /\ drawPile = <<>>
        /\ passCount \in Nat /\ currentSeat \in 0 .. N - 1 /\ N \in Nat
    BY <1>2, PlayersAssumption DEF Pass, Draw, EndingInv, Inv, TypeOK, Seat
  <2>2. leavers = {} => NobodyForfeited(conn) /\ NobodyForfeited(conn')
                        /\ ActiveSeats(conn) = Seat /\ Cardinality(ActiveSeats(conn)) = N
    BY <2>1, EverySeatIsActive DEF EndingInv, PassesCounted
  <2>3. CASE FinishStalemate("pass") /\ passCount + 1 >= Cardinality(ActiveSeats(conn))
    <3>1. status' = "FINISHED" /\ ending' = "pass"  BY <2>3 DEF FinishStalemate
    <3>2. ASSUME status = "PLAYING", leavers = {}, NEW s \in Seat
          PROVE  s \in passers'
      <4>1. passCount + 1 >= N  BY <2>2, <2>3, <3>2
      <4>2. s \in passers <=> Back(s) <= passCount
        BY <3>2 DEF EndingInv, PassesCounted
      <4>3. s = currentSeat \/ Back(s) <= N - 1
        BY <2>1 DEF Back, Seat
      <4>4. Back(s) \in Int  BY <2>1 DEF Back, Seat
      <4> QED  BY <2>1, <4>1, <4>2, <4>3, <4>4
    <3> QED  BY <2>1, <2>2, <3>1, <3>2 DEF PassesCounted, WholeRound
  <2>4. CASE AdvanceToNextTurn /\ ~ (passCount + 1 >= Cardinality(ActiveSeats(conn)))
    <3>1. \/ UNCHANGED <<status, ending>>
          \/ status' = "FINISHED" /\ ending' = "limit"
      BY <2>4 DEF AdvanceToNextTurn, FinishStalemate
    <3>2. ASSUME leavers = {}, status' = "PLAYING"
          PROVE  passCount' < N /\ \A s \in Seat : s \in passers' <=> Back(s)' <= passCount'
      <4>1. passCount + 1 < N  BY <2>1, <2>2, <2>4, <3>2
      <4> QED  BY <2>1, <2>4, <3>1, <3>2, <4>1, PassCounts
    <3> QED
      BY <2>1, <2>2, <3>1, <3>2 DEF EndingInv, PassesCounted, WholeRound
  <2> QED  BY <1>2, <2>3, <2>4 DEF Pass
<1> QED  BY <1>1, <1>2 DEF Draw

LEMMA NextCounts ==
    ASSUME EndingInv, [Next]_vars
    PROVE  (status' = "PLAYING" => ending' = "none") /\ PassesCounted' /\ WholeRound
<1> DEFINE Goal == (status' = "PLAYING" => ending' = "none") /\ PassesCounted' /\ WholeRound
<1>1. ASSUME UNCHANGED <<status, ending, conn, leavers, passCount, passers, currentSeat>>
      PROVE  Goal
  BY <1>1 DEF EndingInv, PassesCounted, NobodyForfeited, Back, WholeRound
<1>2. ASSUME NEW s \in Seat,
             \/ PlaceTiles(s) \/ ConfirmRefusedAI(s) \/ ConfirmRejected(s) \/ LoseConfirm(s)
             \/ ResetTurn(s) \/ TimeoutReset(s)
      PROVE  Goal
  BY <1>1, <1>2 DEF PlaceTiles, ConfirmRefusedAI, ConfirmRejected, LoseConfirm,
                    ResetTurn, TimeoutReset, Restore, game, history
<1>3. ASSUME NEW s \in Seat, ConfirmAccepted(s)  PROVE Goal
  <2>1. CASE AdvanceToNextTurn
    BY <1>3, <2>1, EndedTurnCounts DEF ConfirmAccepted
  <2>2. CASE status' = "FINISHED" /\ ending' = "win"
    BY <1>3, <2>2 DEF ConfirmAccepted, EndingInv, PassesCounted, NobodyForfeited, WholeRound
  <2> QED  BY <1>3, <2>1, <2>2 DEF ConfirmAccepted
<1>4. ASSUME NEW s \in Seat, ConfirmPenalised(s)  PROVE Goal
  BY <1>4, EndedTurnCounts DEF ConfirmPenalised
<1>5. ASSUME NEW s \in Seat, DrawTile(s)  PROVE Goal
  BY <1>5, DrawCounts DEF DrawTile, OnTurn
<1>6. ASSUME NEW s \in Seat, ForfeitPlayer(s)  PROVE Goal
  <2>1. leavers' # {}  BY <1>6 DEF ForfeitPlayer
  <2>2. \/ UNCHANGED <<status, ending>>
        \/ status' = "FINISHED" /\ ending' \in {"limit", "forfeit"}
    BY <1>6 DEF ForfeitPlayer, AdvanceToNextTurn, FinishStalemate
  <2> QED  BY <2>1, <2>2 DEF EndingInv, PassesCounted, WholeRound
<1>7. ASSUME NEW s \in Seat, Disconnect(s) \/ Reconnect(s)  PROVE Goal
  <2>1. /\ UNCHANGED <<status, ending, leavers, passCount, passers, currentSeat>>
        /\ NobodyForfeited(conn) => NobodyForfeited(conn')
    BY <1>7 DEF Disconnect, Reconnect, history, NobodyForfeited, EndingInv, Inv, TypeOK
  <2> QED  BY <2>1 DEF EndingInv, PassesCounted, Back, WholeRound
<1>8. ASSUME TimeoutDraw  PROVE Goal
  <2>1. CASE OnTurn(expiring) /\ Draw(expiring)
    BY <2>1, DrawCounts DEF OnTurn
  <2>2. CASE UNCHANGED <<game, snapshot, base, history>>
    BY <1>1, <2>2 DEF game, history
  <2> QED  BY <1>8, <2>1, <2>2 DEF TimeoutDraw
<1>9. ASSUME DeleteGameState  PROVE Goal
  BY <1>9 DEF DeleteGameState, history, EndingInv, PassesCounted, NobodyForfeited, WholeRound
<1>10. ASSUME UNCHANGED vars  PROVE Goal
  BY <1>1, <1>10 DEF vars, game, history
<1> QED
  BY <1>2, <1>3, <1>4, <1>5, <1>6, <1>7, <1>8, <1>9, <1>10 DEF Next, ServiceCall

(***************************************************************************)
(* An empty rack among full ones is the strict minimum of any comparison.  *)
(***************************************************************************)
LEMMA EmptyRackIsLowest ==
    ASSUME NEW racks \in [Seat -> SUBSET Tile], NEW c \in Seat, racks[c] = {},
           \A s \in Seat \ {c} : racks[s] # {}
    PROVE  LowestRack(Seat, racks) = c
<1> DEFINE beats(s, t) == \/ RackScore(racks[s]) < RackScore(racks[t])
                          \/ /\ RackScore(racks[s]) = RackScore(racks[t])
                             /\ Cardinality(racks[s]) < Cardinality(racks[t])
           best == {s \in Seat : \A t \in Seat \ {s} : beats(s, t)}
<1>1. /\ RackScore(racks[c]) = 0 /\ Cardinality(racks[c]) = 0
      /\ \A s \in Seat \ {c} : /\ RackScore(racks[s]) \in Nat
                               /\ Cardinality(racks[s]) \in Nat \ {0}
  <2>1. ASSUME NEW s \in Seat \ {c}
        PROVE  RackScore(racks[s]) \in Nat /\ Cardinality(racks[s]) \in Nat \ {0}
    <3>1. racks[s] \in SUBSET Tile /\ racks[s] # {}  OBVIOUS
    <3>2. IsFiniteSet(racks[s])  BY <3>1, TilesAssumption, FS_Subset
    <3> QED  BY <3>1, <3>2, RackScoreIsNat, FS_CardinalityType, FS_EmptySet
  <2>2. RackScore(racks[c]) = 0 /\ Cardinality(racks[c]) = 0
    BY RackScoreIsNat, FS_EmptySet
  <2> QED  BY <2>1, <2>2
<1>2. \A t \in Seat \ {c} : beats(c, t) /\ ~ beats(t, c)
  BY <1>1
<1> HIDE DEF beats
<1>3. best = {c}  BY <1>2
<1>4. (CHOOSE s \in best : TRUE) = c  BY <1>3
<1> QED  BY <1>3, <1>4 DEF LowestRack, beats

(***************************************************************************)
(* The handler, reading the stored state, names the winner the service did.*)
(***************************************************************************)
LEMMA HandlerAgrees ==
    ASSUME NEW c \in Seat, rack' \in [Seat -> SUBSET Tile],
           \A s \in Seat \ {c} : rack'[s] # {},
           \/ winner' = c /\ rack'[c] = {}
           \/ /\ isStalemate' = TRUE /\ winner' = StalemateWinner(rack')
              /\ NobodyForfeited(conn')
    PROVE  ResolveWinner' = winner'
<1> DEFINE empty == {s \in Seat : rack'[s] = {}}
<1>1. CASE rack'[c] = {}
  <2>1. empty = {c}  BY <1>1
  <2>2. (CHOOSE s \in empty : \A t \in empty : s <= t) = c
    <3>1. c <= c  BY PlayersAssumption DEF Seat
    <3> QED  BY <2>1, <3>1
  <2>3. ResolveWinner' = c  BY <2>1, <2>2 DEF ResolveWinner
  <2>4. winner' = c  BY <1>1, EmptyRackIsLowest DEF StalemateWinner
  <2> QED  BY <2>3, <2>4
<1>2. CASE rack'[c] # {}
  <2>1. empty = {}  BY <1>2
  <2>2. ActiveSeats(conn') = Seat  BY <1>2, EverySeatIsActive
  <2>3. ResolveWinner' = LowestRack(ActiveSeats(conn'), rack')
    BY <1>2, <2>1 DEF ResolveWinner
  <2> QED  BY <1>2, <2>2, <2>3 DEF StalemateWinner
<1> QED  BY <1>1, <1>2

Agreement ==
    /\ status = "PLAYING" /\ status' = "FINISHED" /\ leavers' = {}
    /\ \A s \in Seat \ {currentSeat} : rack[s] # {}
    => ResolveWinner' = winner'

LEMMA NextAgrees ==
    ASSUME EndingInv, [Next]_vars, Inv'
    PROVE  Agreement
<1> SUFFICES ASSUME status = "PLAYING", status' = "FINISHED", leavers' = {},
                    \A s \in Seat \ {currentSeat} : rack[s] # {}
             PROVE  ResolveWinner' = winner'
  BY DEF Agreement
<1>1. /\ currentSeat \in Seat /\ rack \in [Seat -> SUBSET Tile]
      /\ rack' \in [Seat -> SUBSET Tile]
      /\ leavers = {} => NobodyForfeited(conn)
  BY DEF EndingInv, PassesCounted, Inv, TypeOK
<1>2. ASSUME NEW why, FinishStalemate(why), UNCHANGED <<conn, leavers>>,
             \A s \in Seat \ {currentSeat} : rack'[s] = rack[s]
      PROVE  ResolveWinner' = winner'
  BY <1>1, <1>2, HandlerAgrees DEF FinishStalemate
<1>3. ASSUME AdvanceToNextTurn, UNCHANGED <<conn, leavers>>,
             \A s \in Seat \ {currentSeat} : rack'[s] = rack[s]
      PROVE  ResolveWinner' = winner'
  <2>1. FinishStalemate("limit")  BY <1>3 DEF AdvanceToNextTurn
  <2> QED  BY <1>2, <1>3, <2>1
<1>4. ASSUME NEW s \in Seat, ConfirmAccepted(s)  PROVE ResolveWinner' = winner'
  <2>1. /\ s = currentSeat /\ UNCHANGED <<conn, leavers>>
        /\ \A u \in Seat \ {currentSeat} : rack'[u] = rack[u]
    BY <1>1, <1>4 DEF ConfirmAccepted, OnTurn
  <2>2. CASE rack'[s] = {} /\ winner' = s
    BY <1>1, <2>1, <2>2, HandlerAgrees
  <2>3. CASE AdvanceToNextTurn
    BY <1>3, <2>1, <2>3
  <2> QED  BY <1>4, <2>2, <2>3 DEF ConfirmAccepted
<1>5. ASSUME NEW s \in Seat, ConfirmPenalised(s)  PROVE ResolveWinner' = winner'
  <2>1. /\ s = currentSeat /\ UNCHANGED <<conn, leavers>> /\ AdvanceToNextTurn
        /\ \A u \in Seat \ {currentSeat} : rack'[u] = rack[u]
    BY <1>1, <1>5 DEF ConfirmPenalised, OnTurn
  <2> QED  BY <1>3, <2>1
<1>6. ASSUME Draw(currentSeat)  PROVE ResolveWinner' = winner'
  <2>1. /\ UNCHANGED <<conn, leavers>>
        /\ \A u \in Seat \ {currentSeat} : rack'[u] = rack[u]
    BY <1>1, <1>6 DEF Draw, DrawFromPile, Pass
  <2>2. AdvanceToNextTurn \/ FinishStalemate("pass")
    BY <1>6 DEF Draw, DrawFromPile, Pass
  <2> QED  BY <1>2, <1>3, <2>1, <2>2
<1>7. ASSUME NEW s \in Seat, DrawTile(s)  PROVE ResolveWinner' = winner'
  BY <1>6, <1>7 DEF DrawTile, OnTurn
<1>8. ASSUME TimeoutDraw  PROVE ResolveWinner' = winner'
  BY <1>6, <1>8 DEF TimeoutDraw, OnTurn, game
<1>9. ASSUME NEW s \in Seat, ForfeitPlayer(s)  PROVE FALSE
  BY <1>9 DEF ForfeitPlayer
<1>10. ASSUME NEW s \in Seat,
              \/ PlaceTiles(s) \/ ConfirmRefusedAI(s) \/ ConfirmRejected(s) \/ LoseConfirm(s)
              \/ ResetTurn(s) \/ TimeoutReset(s) \/ Disconnect(s) \/ Reconnect(s)
       PROVE  FALSE
  BY <1>10 DEF PlaceTiles, ConfirmRefusedAI, ConfirmRejected, LoseConfirm, ResetTurn,
               TimeoutReset, Restore, Disconnect, Reconnect, game
<1>11. ASSUME DeleteGameState \/ UNCHANGED vars  PROVE FALSE
  BY <1>11 DEF DeleteGameState, vars, game
<1> QED
  BY <1>4, <1>5, <1>7, <1>8, <1>9, <1>10, <1>11 DEF Next, ServiceCall

(***************************************************************************)
(* A stalemate by passes comes with an empty pile and after a pass of      *)
(* everybody, and when play ends the game the service and the handler name *)
(* the same winner, for every number of players, scores and deck           *)
(* (ConsecutivePassCount, finishGameStalemate, resolveWinnerFromState).    *)
(***************************************************************************)
THEOREM EndingsCorrect == Spec => EndingsAreFair
<1>1. Init => EndingInv
  <2> SUFFICES ASSUME Init  PROVE EndingInv
    OBVIOUS
  <2>1. /\ status = "PLAYING" /\ ending = "none" /\ currentSeat = 0 /\ passCount = 0
        /\ passers = {} /\ NobodyForfeited(conn)
    BY DEF Init, NobodyForfeited
  <2>2. N \in Nat /\ N >= 2 /\ \A s \in Seat : Back(s) > 0
    BY <2>1, PlayersAssumption DEF Back, Seat
  <2>3. \A s \in Seat : ~ (Back(s) <= 0)
    BY <2>1, PlayersAssumption DEF Back, Seat
  <2> QED  BY <2>1, <2>2, <2>3, InitEstablishesInv DEF EndingInv, PassesCounted
<1>2. EndingInv /\ [Next]_vars => EndingInv'
  BY NextKeepsInv, NextCounts DEF EndingInv
<1>3. EndingInv /\ [Next]_vars => [WholeRound]_vars /\ [Agreement]_vars
  BY NextKeepsInv, NextCounts, NextAgrees DEF EndingInv
<1>4. Spec => [][WholeRound]_vars /\ [][Agreement]_vars
  BY <1>1, <1>2, <1>3, PTL DEF Spec
<1> QED
  BY <1>4 DEF EndingsAreFair, StalemateIsAWholeRound, WinnerIsAgreedOn, WholeRound, Agreement

=============================================================================
