---------------------------- MODULE PlaytestSets ----------------------------
(***************************************************************************)
(* The sets that the playtest script S4 finds in its rack and lays out     *)
(* (playtest-s4.mjs).  A rack is a set of tiles, a group of the table a    *)
(* sequence, in the order the script or an LLM laid it.  Where the order   *)
(* of the rack decides between two copies or two colors, every choice is   *)
(* in the result: a finder returns the set of all it may return.           *)
(***************************************************************************)
EXTENDS RulesEngine, SequencesExt

\* Mutant of RunsInRack: any next but one will do.
RunsInRackAnyThird(rack) ==
    {g \in kSubset(3, Plain(rack)) :
        /\ Cardinality(Colors(g)) = 1
        /\ Cardinality(Numbers(g)) = 3
        /\ Min(Numbers(g)) + 1 \in Numbers(g)}

\* findRunInRack: three in a row of a color's sorted tiles, the lowest such of
\* the color; a second copy of the middle one hides it.
RunsInRack(rack) ==
    LET triples == {g \in kSubset(3, Plain(rack)) :
                       /\ Cardinality(Colors(g)) = 1
                       /\ Numbers(g) = Min(Numbers(g)) .. Min(Numbers(g)) + 2
                       /\ ~ \E t \in Plain(rack) \ g :
                             t.color \in Colors(g) /\ t.number = Min(Numbers(g)) + 1}
    IN  {g \in triples : \A h \in triples :
            Colors(h) = Colors(g) => Min(Numbers(g)) <= Min(Numbers(h))}

\* findGroupInRack: all colors of the lowest number that has three.
GroupsInRack(rack) ==
    LET many == {n \in Numbers(rack) : Cardinality(Colors({t \in rack : t.number = n})) >= 3}
    IN  IF many = {} THEN {}
        ELSE LET same == {t \in Plain(rack) : t.number = Min(many)}
             IN  {g \in kSubset(Cardinality(Colors(same)), same) : Colors(g) = Colors(same)}

Value(g) == MapThenSumSet(LAMBDA t : t.number, g)
Total(m) == FoldSeq(LAMBDA g, sum : sum + Value(g), 0, m)

\* One attempt of findInitialMeld: a group before a run.
Attempts(rack) == IF GroupsInRack(rack) # {} THEN GroupsInRack(rack) ELSE RunsInRack(rack)

\* findInitialMeld: at most three sets, until they have thirty points.
InitialMelds(rack) ==
    LET one == {<<g>> : g \in Attempts(rack)}
        More(m) == IF Total(m) >= 30 THEN {m}
                   ELSE LET left == Attempts(rack \ UNION Range(m))
                        IN  IF left = {} THEN {m} ELSE {Append(m, g) : g \in left}
        two == UNION {More(m) : m \in one}
    IN  {m \in UNION {More(m) : m \in two} : Total(m) >= 30}

-----------------------------------------------------------------------------
(* Jokers *)

\* Two tiles of a color that lie side by side in its sorted tiles and leave
\* room for one, the lowest such of the color.
PairsForJoker(rack) ==
    LET pairs == {p \in kSubset(2, Plain(rack)) :
                     /\ Cardinality(Colors(p)) = 1
                     /\ \/ Max(Numbers(p)) = Min(Numbers(p)) + 1
                        \/ /\ Max(Numbers(p)) = Min(Numbers(p)) + 2
                           /\ ~ \E t \in Plain(rack) :
                                 t.color \in Colors(p) /\ t.number = Min(Numbers(p)) + 1}
    IN  {p \in pairs : \A q \in pairs : Colors(q) = Colors(p) => Min(Numbers(p)) <= Min(Numbers(q))}

\* findSetWithJoker: the joker goes between such a pair, behind it, or before
\* it at the end; without a pair, to two colors of a number.
SetsWithJoker(rack, joker) ==
    LET low(p) == CHOOSE t \in p : t.number = Min(Numbers(p))
        high(p) == CHOOSE t \in p : t.number = Max(Numbers(p))
        Run(p) == CASE high(p).number = low(p).number + 2 -> <<low(p), joker, high(p)>>
                    [] high(p).number = MaxNumber -> <<joker, low(p), high(p)>>
                    [] OTHER -> <<low(p), high(p), joker>>
    IN  IF PairsForJoker(rack) # {} THEN {Run(p) : p \in PairsForJoker(rack)}
        ELSE {<<p[1], p[2], joker>> : p \in
                {q \in Plain(rack) \X Plain(rack) :
                    q[1].color # q[2].color /\ q[1].number = q[2].number}}

\* findReplacementForJoker: the tiles that stand for the joker at place i.
ReplacementsForJoker(group, i, rack) ==
    LET rest == Range(RemoveAt(group, i))
        color == (CHOOSE t \in rest : TRUE).color
        missing ==
            CASE i = 1 -> Min(Numbers(rest)) - 1
              [] i = Len(group) -> Max(Numbers(rest)) + 1
              [] OTHER ->
                   LET gaps == {n \in Numbers(rest) : n + 1 \notin Numbers(rest)
                                                      /\ n < Max(Numbers(rest))}
                   IN  IF gaps # {} THEN Min(gaps) + 1
                       ELSE Min(Numbers(rest)) + i - 1
    IN  CASE Jokers(rest) # {} \/ Cardinality(rest) < 2 -> {}
          [] Cardinality(Colors(rest)) = 1 /\ Cardinality(Numbers(rest)) > 1 ->
               {t \in Plain(rack) : t.color = color /\ t.number = missing}
          [] Cardinality(Colors(rest)) > 1 /\ Cardinality(Numbers(rest)) = 1 ->
               {t \in Plain(rack) : t.number \in Numbers(rest) /\ t.color \notin Colors(rest)}
          [] OTHER -> {}

-----------------------------------------------------------------------------
(* findRearrangement: the last tile of a run of four or more makes a group *)
(* with two tiles of the rack.                                             *)

Rearrangements(table, rack) ==
    UNION {LET g == table[k]
               last == g[Len(g)]
           IN  IF Len(g) < 4 \/ Cardinality(Colors(Range(g))) # 1 \/ IsJoker(last) THEN {}
               ELSE {[table |-> Append([table EXCEPT ![k] = Front(g)], <<last>> \o SetToSeq(p)),
                      fromRack |-> p]
                       : p \in {q \in kSubset(2, Plain(rack)) :
                                   /\ Numbers(q) = {last.number}
                                   /\ last.color \notin Colors(q)
                                   /\ Cardinality(Colors(q)) = 2}}
           : k \in DOMAIN table}

=============================================================================
