------------------------------ MODULE MCDraft ------------------------------
(***************************************************************************)
(* A few turns: with and without the first meld, a joker on the table, two *)
(* groups to rearrange.                                                    *)
(***************************************************************************)
EXTENDS Draft

JK == <<"JK", 0, 1>>
N(c, n) == <<c, n, 1>>
Server(k, ts) == [id |-> <<"server", k>>, tiles |-> ts]
JokerRun == Server(1, <<N("R", 4), JK, N("R", 6)>>)

\* A joker to recover, a tile to lay beside it, and one the hook takes it for
\* although it belongs beyond the run's end.
Recover ==
    [groups |-> <<JokerRun>>, melded |-> TRUE,
     rack |-> {N("R", 5), N("R", 7), N("B", 9)},
     maxDrops |-> 3, maxGroups |-> 2]

\* A run whose end fits a group once the run has been made longer.
Rearrange ==
    [groups |-> <<Server(1, <<N("R", 5), N("R", 6), N("R", 7)>>),
                  Server(2, <<N("B", 7), N("K", 7), N("Y", 7)>>)>>,
     rack |-> {N("R", 4)}, melded |-> TRUE, maxDrops |-> 2, maxGroups |-> 3]

\* Before the first meld, with exactly thirty points in the rack.
FirstMeld ==
    [groups |-> <<JokerRun>>, rack |-> {N("R", 10), N("B", 10), N("K", 10)}, melded |-> FALSE,
     maxDrops |-> 3, maxGroups |-> 4]

Turns == {Recover, Rearrange, FirstMeld}
=============================================================================
