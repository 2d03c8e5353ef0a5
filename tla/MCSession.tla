----------------------------- MODULE MCSession -----------------------------
(***************************************************************************)
(* Four connections of one player, interchangeable.                        *)
(***************************************************************************)
EXTENDS Session, TLC

Symmetry == Permutations(Conn)

=============================================================================
