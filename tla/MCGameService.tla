--------------------------- MODULE MCGameService ---------------------------
(***************************************************************************)
(* A three-player instance of GameService: one LLM (seat 0) and two        *)
(* browsers (seats 1 and 2), nine tiles with real faces, whose melds and   *)
(* scores the RulesEngine computes.                                        *)
(***************************************************************************)
EXTENDS GameService, TLC

Rules == INSTANCE RulesEngine

MCN == 3
MCAISeat == {0}

Face ==
    "R10" :> Rules!NumberTile("R", 10, "a") @@ "B10" :> Rules!NumberTile("B", 10, "a") @@
    "K10" :> Rules!NumberTile("K", 10, "a") @@ "R11" :> Rules!NumberTile("R", 11, "a") @@
    "R12" :> Rules!NumberTile("R", 12, "a") @@ "R13" :> Rules!NumberTile("R", 13, "a") @@
    "B9"  :> Rules!NumberTile("B", 9, "a")  @@ "K2"  :> Rules!NumberTile("K", 2, "a")  @@
    "JK1" :> Rules!JokerTile(1)

MCTile  == DOMAIN Face
MCJoker == {"JK1"}
Faces(g) == {Face[t] : t \in g}

\* The groups laid out in requests: melds that share tiles, so that there is
\* something to rearrange and a joker to win back, and one that is no meld.
MCGroup == { {"R10", "B10", "K10"}, {"B10", "K10", "JK1"}, {"R11", "R12", "R13"},
             {"R10", "R11", "R12", "R13"}, {"R10", "B10"} }
MCMeld      == {g \in MCGroup : Rules!SetType(Faces(g)) # "invalid"}
MCMeldScore == [g \in MCMeld |-> Rules!SetScore(Faces(g))]
MCTileScore == [t \in MCTile |-> Rules!TileScoreOf(Face[t])]

Hands(a, b, c) == 0 :> a @@ 1 :> b @@ 2 :> c

\* A game with a tile to draw, in which the LLM is two turns from winning by
\* rearranging the board around its joker; and one with an empty pile.
DealLong  == [hands |-> Hands({"R11", "R12", "R13", "JK1"}, {"R10", "B10", "K10"}, {"B9"}),
              pile  |-> <<"K2">>]
DealShort == [hands |-> Hands({"R11", "R12", "R13", "B9"}, {"R10", "B10", "K10"},
                              {"JK1", "K2"}),
              pile  |-> <<>>]
MCDeals == {DealLong, DealShort}

\* What an LLM makes up: a meld beside the tiles it does play; the same with
\* an empty tilesFromRack; a tile taken from the rack that is nowhere on the
\* table; a larger board that has lost the old one.
MCAIAnswers ==
    { [groups |-> {{"R11", "R12", "R13"}, {"R10", "B10", "K10"}},
       fromRack |-> {"R11", "R12", "R13"}, jokers |-> {}],
      [groups |-> {{"R11", "R12", "R13"}, {"R10", "B10", "K10"}},
       fromRack |-> {}, jokers |-> {"JK1"}],
      [groups |-> {{"R11", "R12", "R13"}}, fromRack |-> {"R11", "R12", "R13", "B9"},
       jokers |-> {}],
      [groups |-> {{"R10", "B10", "K10"}, {"B10", "K10", "JK1"}},
       fromRack |-> {}, jokers |-> {}] }

=============================================================================
