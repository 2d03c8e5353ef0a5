---------------------------- MODULE DraftProofs ----------------------------
(***************************************************************************)
(* What holds of the draft of a turn, for any turns that start with every  *)
(* tile in one place: the marks are to be trusted, what is sent is what    *)
(* was laid, and the draft implements TurnBoard, which loses no tile.      *)
(*                                                                         *)
(* The module goes from sequences (FlattenSeq, ids, the removal of a tile) *)
(* to the places of a tile on a board and its copies in a bag, then to     *)
(* what each drop of Draft does to both, and ends with the invariant.      *)
(***************************************************************************)
EXTENDS Draft, FiniteSetTheorems, SequenceTheorems, WellFoundedInduction, TLAPS

-----------------------------------------------------------------------------
(* Sequences: what FlattenSeq, and so NonEmpty and TilesOf, keep.  Their    *)
(* recursive function is only CHOSEN to satisfy its equation; that there is *)
(* one is shown by taking the shortest prefix that has none.                *)

\* A set of natural numbers that is not empty has a smallest member.
LEMMA SmallestOf ==
    ASSUME NEW T \in SUBSET Nat, T # {}
    PROVE  \E i \in T : \A j \in T : i <= j
<1>1. PICK i \in T : \A j \in T : ~ (<<j, i>> \in OpToRel(<, Nat))
  BY NatLessThanWellFounded, WFMin
<1>2. \A j \in T : <<j, i>> \in OpToRel(<, Nat) <=> j < i
  BY DEF OpToRel
<1>3. \A j \in T : ~ (j < i)
  BY <1>1, <1>2, Zenon
<1> QED  BY <1>3

Flattens(f, ss, n) == f = [i \in 1 .. n |-> IF i = 1 THEN ss[i] ELSE f[i - 1] \o ss[i]]

\* A flattened prefix extends to the next one ...
LEMMA FlattenStep ==
    ASSUME NEW n \in Nat, NEW ss, NEW f, Flattens(f, ss, n)
    PROVE  \E g : Flattens(g, ss, n + 1)
<1> DEFINE g == [i \in 1 .. n + 1 |-> IF i = 1 THEN ss[i]
                                      ELSE IF i <= n THEN f[i] ELSE f[n] \o ss[i]]
<1>1. ASSUME NEW i \in 1 .. n + 1
      PROVE  g[i] = IF i = 1 THEN ss[i] ELSE g[i - 1] \o ss[i]
  <2>1. CASE i = 1  BY <2>1
  <2>2. CASE i # 1 /\ i <= n
    <3>1. i \in 1 .. n /\ i - 1 \in 1 .. n + 1 /\ i - 1 \in 1 .. n  BY <2>2
    <3>2. f[i] = f[i - 1] \o ss[i]  BY <2>2, <3>1 DEF Flattens
    <3>3. g[i - 1] = f[i - 1]
      <4>1. CASE i - 1 = 1
        <5>1. f[i - 1] = ss[i - 1]  BY <3>1, <4>1 DEF Flattens
        <5> QED  BY <3>1, <4>1, <5>1
      <4>2. CASE i - 1 # 1  BY <3>1, <4>2
      <4> QED  BY <4>1, <4>2
    <3> QED  BY <2>2, <3>1, <3>2, <3>3
  <2>3. CASE i # 1 /\ ~(i <= n)
    <3>1. i = n + 1 /\ n \in 1 .. n + 1 /\ n \in 1 .. n  BY <2>3
    <3>2. g[n] = f[n]
      <4>1. CASE n = 1
        <5>1. f[n] = ss[n]  BY <3>1, <4>1 DEF Flattens
        <5> QED  BY <3>1, <4>1, <5>1
      <4>2. CASE n # 1  BY <3>1, <4>2
      <4> QED  BY <4>1, <4>2
    <3>3. i - 1 = n  BY <3>1
    <3>4. g[i] = f[n] \o ss[i]  BY <2>3
    <3> QED  BY <2>3, <3>2, <3>3, <3>4
  <2> QED  BY <2>1, <2>2, <2>3
<1>2. g = [i \in 1 .. n + 1 |-> g[i]]  OBVIOUS
<1> HIDE DEF g
<1>3. g = [i \in 1 .. n + 1 |-> IF i = 1 THEN ss[i] ELSE g[i - 1] \o ss[i]]
  BY <1>1, <1>2
<1> QED  BY <1>3 DEF Flattens

\* ... so that every prefix has one.
LEMMA FlattenExists ==
    ASSUME NEW n \in Nat, NEW ss
    PROVE  \E f : Flattens(f, ss, n)
<1> DEFINE bad == {k \in Nat : ~ \E f : Flattens(f, ss, k)}
<1> SUFFICES ASSUME bad # {}  PROVE FALSE  OBVIOUS
<1>1. PICK k \in bad : \A j \in bad : k <= j  BY SmallestOf
<1>2. CASE k = 0
  <2> DEFINE e == [i \in 1 .. 0 |-> i]
  <2>1. e = [i \in 1 .. 0 |-> IF i = 1 THEN ss[i] ELSE e[i - 1] \o ss[i]]  OBVIOUS
  <2>2. Flattens(e, ss, 0)  BY <2>1 DEF Flattens
  <2> QED  BY <1>1, <1>2, <2>2
<1>3. CASE k # 0
  <2>1. k - 1 \in Nat /\ ~(k <= k - 1) /\ (k - 1) + 1 = k  BY <1>1, <1>3
  <2>2. PICK f : Flattens(f, ss, k - 1)  BY <1>1, <2>1
  <2>3. \E g : Flattens(g, ss, (k - 1) + 1)  BY <2>1, <2>2, FlattenStep
  <2> QED  BY <1>1, <2>1, <2>3
<1> QED  BY <1>2, <1>3

\* FlattenSeq(ss) is the last value of a function that flattens the prefixes.
LEMMA FlattenIsLast ==
    ASSUME NEW S, NEW ss \in Seq(S), ss # <<>>
    PROVE  \E f : Flattens(f, ss, Len(ss)) /\ FlattenSeq(ss) = f[Len(ss)]
<1>1. Len(ss) \in Nat /\ Len(ss) # 0  OBVIOUS
<1> DEFINE f == CHOOSE f : f = [i \in 1 .. Len(ss) |-> IF i = 1 THEN ss[i]
                                                       ELSE f[i - 1] \o ss[i]]
<1>2. \E g : g = [i \in 1 .. Len(ss) |-> IF i = 1 THEN ss[i] ELSE g[i - 1] \o ss[i]]
  BY <1>1, FlattenExists DEF Flattens
<1>3. f = [i \in 1 .. Len(ss) |-> IF i = 1 THEN ss[i] ELSE f[i - 1] \o ss[i]]
  BY <1>2
<1>4. FlattenSeq(ss) = f[Len(ss)]  BY <1>1 DEF FlattenSeq
<1> QED  BY <1>3, <1>4 DEF Flattens

\* A concatenation has the members of both.
LEMMA ConcatMembers ==
    ASSUME NEW S, NEW s \in Seq(S), NEW t \in Seq(S)
    PROVE  s \o t \in Seq(S) /\ ToSet(s \o t) = ToSet(s) \cup ToSet(t)
<1>1. s \o t \in Seq(S)  BY ConcatProperties
<1>2. Range(s \o t) = Range(s) \cup Range(t)  BY RangeConcatenation
<1> QED  BY <1>1, <1>2 DEF Range, ToSet

FlattenedTo(f, ss, S, k) ==
    f[k] \in Seq(S) /\ \A x : x \in ToSet(f[k]) <=> \E i \in 1 .. k : x \in ToSet(ss[i])

\* The value for a prefix has the members of its sequences.
LEMMA FlattenMembers ==
    ASSUME NEW S, NEW ss \in Seq(Seq(S)), NEW f, Flattens(f, ss, Len(ss))
    PROVE  \A k \in 1 .. Len(ss) : FlattenedTo(f, ss, S, k)
<1> DEFINE bad == {k \in 1 .. Len(ss) : ~FlattenedTo(f, ss, S, k)}
<1> SUFFICES ASSUME bad # {}  PROVE FALSE  OBVIOUS
<1>1. bad \subseteq Nat  OBVIOUS
<1>2. PICK k \in bad : \A j \in bad : k <= j  BY <1>1, SmallestOf
<1>3. k \in 1 .. Len(ss) /\ ~FlattenedTo(f, ss, S, k)  BY <1>2
<1>4. f[k] = IF k = 1 THEN ss[k] ELSE f[k - 1] \o ss[k]  BY <1>3 DEF Flattens
<1>5. ss[k] \in Seq(S)  BY <1>3
<1>6. CASE k = 1
  <2> QED  BY <1>3, <1>4, <1>5, <1>6 DEF FlattenedTo
<1>7. CASE k # 1
  <2>1. PICK m \in 1 .. Len(ss) : k = m + 1 /\ m = k - 1 /\ ~(k <= m)  BY <1>3, <1>7
  <2>2. FlattenedTo(f, ss, S, m)  BY <1>2, <2>1
  <2>3. f[k] = f[m] \o ss[k]  BY <1>4, <1>7, <2>1
  <2>4. f[k] \in Seq(S) /\ ToSet(f[k]) = ToSet(f[m]) \cup ToSet(ss[k])
    BY <1>5, <2>2, <2>3, ConcatMembers DEF FlattenedTo
  <2>5. 1 .. k = 1 .. m \cup {k}  BY <2>1
  <2>6. \A x : x \in ToSet(f[k]) <=> \E i \in 1 .. k : x \in ToSet(ss[i])
    BY <2>2, <2>4, <2>5 DEF FlattenedTo
  <2> QED  BY <1>3, <2>4, <2>6 DEF FlattenedTo
<1> QED  BY <1>6, <1>7

\* FlattenSeq has the members of all the sequences.
LEMMA FlattenProperties ==
    ASSUME NEW S, NEW ss \in Seq(Seq(S))
    PROVE  /\ FlattenSeq(ss) \in Seq(S)
           /\ \A x : x \in ToSet(FlattenSeq(ss)) <=> \E i \in 1 .. Len(ss) : x \in ToSet(ss[i])
<1>1. CASE ss = <<>>
  <2>1. Len(ss) = 0  BY <1>1
  <2>2. FlattenSeq(ss) = <<>>  BY <1>1, <2>1 DEF FlattenSeq
  <2>3. ToSet(<<>>) = {}  BY DEF ToSet
  <2> QED  BY <2>1, <2>2, <2>3
<1>2. CASE ss # <<>>
  <2>1. PICK f : Flattens(f, ss, Len(ss)) /\ FlattenSeq(ss) = f[Len(ss)]
    BY <1>2, FlattenIsLast
  <2>2. Len(ss) \in 1 .. Len(ss)  BY <1>2
  <2>3. FlattenedTo(f, ss, S, Len(ss))  BY <2>1, <2>2, FlattenMembers
  <2> QED  BY <2>1, <2>3 DEF FlattenedTo
<1> QED  BY <1>1, <1>2

-----------------------------------------------------------------------------
(* Groups: a sequence of records with an id and tiles, seen as the set of   *)
(* its groups, which their ids tell apart.                                  *)

GroupsOver(I, T) == [id : I, tiles : Seq(T)]
Distinct(groups, I, T) == groups \in Seq(GroupsOver(I, T)) /\ GroupIdUnique(groups)

\* The one group with an id has tiles ts now.
Replaced(G, g, ts) == (G \ {g}) \cup {[id |-> g.id, tiles |-> ts]}
Kept(G) == {g \in G : g.tiles # <<>>}

Singles(groups) ==
    [i \in 1 .. Len(groups) |-> IF groups[i].tiles = <<>> THEN <<>> ELSE <<groups[i]>>]

\* What NonEmpty flattens: each group with tiles, alone.
LEMMA SinglesMembers ==
    ASSUME NEW S, NEW groups \in Seq(S)
    PROVE  /\ Singles(groups) \in Seq(Seq(S)) /\ Len(Singles(groups)) = Len(groups)
           /\ \A i \in 1 .. Len(groups) : \A g :
                 g \in ToSet(Singles(groups)[i]) <=> g = groups[i] /\ g.tiles # <<>>
<1>1. ASSUME NEW i \in 1 .. Len(groups)  PROVE Singles(groups)[i] \in Seq(S)
  BY DEF Singles
<1>2. ASSUME NEW i \in 1 .. Len(groups), NEW g
      PROVE  g \in ToSet(Singles(groups)[i]) <=> g = groups[i] /\ g.tiles # <<>>
  <2>1. CASE groups[i].tiles = <<>>
    <3>1. Singles(groups)[i] = <<>>  BY <2>1 DEF Singles
    <3>2. ToSet(<<>>) = {}  BY DEF ToSet
    <3> QED  BY <2>1, <3>1, <3>2
  <2>2. CASE groups[i].tiles # <<>>
    <3>1. Singles(groups)[i] = <<groups[i]>>  BY <2>2 DEF Singles
    <3>2. ToSet(<<groups[i]>>) = {groups[i]}  BY DEF ToSet
    <3> QED  BY <2>2, <3>1, <3>2
  <2> QED  BY <2>1, <2>2
<1>3. Len(groups) \in Nat  OBVIOUS
<1>4. Singles(groups) \in [1 .. Len(groups) -> Seq(S)]  BY <1>1 DEF Singles
<1> QED  BY <1>2, <1>3, <1>4

\* Ids stay unique in what is flattened so far.
LEMMA PrefixUnique ==
    ASSUME NEW I, NEW T, NEW groups, Distinct(groups, I, T),
           NEW f, Flattens(f, Singles(groups), Len(groups)),
           \A k \in 1 .. Len(groups) :
              FlattenedTo(f, Singles(groups), GroupsOver(I, T), k)
    PROVE  \A k \in 1 .. Len(groups) : GroupIdUnique(f[k])
<1> DEFINE R == GroupsOver(I, T)
           bad == {k \in 1 .. Len(groups) : ~GroupIdUnique(f[k])}
<1> SUFFICES ASSUME bad # {}  PROVE FALSE  OBVIOUS
<1>0. groups \in Seq(R) /\ GroupIdUnique(groups)  BY DEF Distinct
<1>1. bad \subseteq Nat  OBVIOUS
<1>2. PICK k \in bad : \A j \in bad : k <= j  BY <1>1, SmallestOf
<1>3. k \in 1 .. Len(groups) /\ ~GroupIdUnique(f[k])  BY <1>2
<1>4. f[k] = IF k = 1 THEN Singles(groups)[k] ELSE f[k - 1] \o Singles(groups)[k]
  BY <1>3 DEF Flattens
<1>5. Singles(groups)[k] = IF groups[k].tiles = <<>> THEN <<>> ELSE <<groups[k]>>
  BY <1>3 DEF Singles
<1>6. CASE k = 1
  BY <1>3, <1>4, <1>5, <1>6 DEF GroupIdUnique
<1>7. CASE k # 1
  <2>1. PICK m \in 1 .. Len(groups) : k = m + 1 /\ m = k - 1 /\ ~(k <= m)
    BY <1>0, <1>3, <1>7
  <2>2. PICK h : h = f[m]  OBVIOUS
  <2>3. h \in Seq(R) /\ GroupIdUnique(h)  BY <1>2, <2>1, <2>2 DEF FlattenedTo
  <2>4. \A g \in ToSet(h) : g.id # groups[k].id
    <3> SUFFICES ASSUME NEW g \in ToSet(h)  PROVE g.id # groups[k].id  OBVIOUS
    <3>1. PICK i \in 1 .. m : g \in ToSet(Singles(groups)[i])
      BY <2>1, <2>2 DEF FlattenedTo
    <3>2. i \in 1 .. Len(groups) /\ i # k  BY <1>0, <2>1
    <3>3. g = groups[i]  BY <1>0, <3>1, <3>2, SinglesMembers
    <3> QED  BY <1>0, <1>3, <3>2, <3>3 DEF GroupIdUnique
  <2>5. CASE groups[k].tiles = <<>>
    <3>1. f[k] = h \o <<>>  BY <1>4, <1>5, <1>7, <2>1, <2>2, <2>5
    <3>2. f[k] = h  BY <2>3, <3>1, ConcatEmptySeq
    <3> QED  BY <1>3, <2>3, <3>2
  <2>6. CASE groups[k].tiles # <<>>
    <3>1. f[k] = h \o <<groups[k]>>  BY <1>4, <1>5, <1>7, <2>1, <2>2, <2>6
    <3>2. groups[k] \in R  BY <1>0, <1>3
    <3>3. f[k] = Append(h, groups[k])  BY <2>3, <3>1, <3>2, AppendIsConcat
    <3>4. Len(f[k]) = Len(h) + 1 /\ Len(h) \in Nat
          /\ \A i \in 1 .. Len(h) : f[k][i] = h[i] /\ h[i] \in ToSet(h)
          /\ f[k][Len(h) + 1] = groups[k]
      BY <2>3, <3>2, <3>3, AppendProperties DEF ToSet
    <3>5. ASSUME NEW i \in 1 .. Len(h) + 1, NEW j \in 1 .. Len(h) + 1,
                 f[k][i].id = f[k][j].id
          PROVE  i = j
      <4>1. CASE i <= Len(h) /\ j <= Len(h)
        <5>1. i \in 1 .. Len(h) /\ j \in 1 .. Len(h)  BY <4>1, <3>4
        <5> QED  BY <2>3, <3>4, <3>5, <5>1 DEF GroupIdUnique
      <4>2. CASE i <= Len(h) /\ ~(j <= Len(h))
        <5>1. i \in 1 .. Len(h) /\ j = Len(h) + 1  BY <4>2, <3>4
        <5> QED  BY <2>4, <3>4, <3>5, <5>1
      <4>3. CASE ~(i <= Len(h)) /\ j <= Len(h)
        <5>1. j \in 1 .. Len(h) /\ i = Len(h) + 1  BY <4>3, <3>4
        <5> QED  BY <2>4, <3>4, <3>5, <5>1
      <4>4. CASE ~(i <= Len(h)) /\ ~(j <= Len(h))  BY <4>4, <3>4
      <4> QED  BY <4>1, <4>2, <4>3, <4>4
    <3> QED  BY <1>3, <3>4, <3>5 DEF GroupIdUnique
  <2> QED  BY <2>5, <2>6
<1> QED  BY <1>6, <1>7

\* applyMutation's filter: what is left has tiles, and each id names one group.
LEMMA NonEmptyProperties ==
    ASSUME NEW I, NEW T, NEW groups, Distinct(groups, I, T)
    PROVE  /\ Distinct(NonEmpty(groups), I, T) /\ NoEmptyGroup(NonEmpty(groups))
           /\ ToSet(NonEmpty(groups)) = Kept(ToSet(groups))
<1> DEFINE R == GroupsOver(I, T)
<1>0. groups \in Seq(R) /\ GroupIdUnique(groups)  BY DEF Distinct
<1>1. NonEmpty(groups) = FlattenSeq(Singles(groups))  BY DEF NonEmpty, Singles
<1>2. /\ Singles(groups) \in Seq(Seq(R)) /\ Len(Singles(groups)) = Len(groups)
      /\ \A i \in 1 .. Len(groups) : \A g :
            g \in ToSet(Singles(groups)[i]) <=> g = groups[i] /\ g.tiles # <<>>
  BY <1>0, SinglesMembers
<1> HIDE DEF R
<1>3. /\ NonEmpty(groups) \in Seq(R)
      /\ \A g : g \in ToSet(NonEmpty(groups))
                  <=> \E i \in 1 .. Len(groups) : g \in ToSet(Singles(groups)[i])
  <2>1. /\ FlattenSeq(Singles(groups)) \in Seq(R)
        /\ \A x : x \in ToSet(FlattenSeq(Singles(groups)))
                    <=> \E i \in 1 .. Len(Singles(groups)) : x \in ToSet(Singles(groups)[i])
    BY <1>2, FlattenProperties
  <2> QED  BY <1>1, <1>2, <2>1
<1>4. ToSet(NonEmpty(groups)) = Kept(ToSet(groups))
  <2>1. \A g : g \in ToSet(groups) <=> \E i \in 1 .. Len(groups) : g = groups[i]
    BY <1>0 DEF ToSet
  <2>2. \A g : g \in ToSet(NonEmpty(groups)) <=> g \in Kept(ToSet(groups))
    BY <1>2, <1>3, <2>1 DEF Kept
  <2> QED  BY <2>2
<1>5. NoEmptyGroup(NonEmpty(groups))
  <2>1. \A i \in 1 .. Len(NonEmpty(groups)) : NonEmpty(groups)[i] \in ToSet(NonEmpty(groups))
    BY <1>3 DEF ToSet
  <2> QED  BY <1>4, <2>1 DEF NoEmptyGroup, Kept
<1>6. GroupIdUnique(NonEmpty(groups))
  <2>1. CASE groups = <<>>
    <3>1. Singles(groups) = <<>> /\ Len(Singles(groups)) = 0  BY <1>2, <2>1
    <3>2. NonEmpty(groups) = <<>>  BY <1>1, <3>1 DEF FlattenSeq
    <3> QED  BY <3>2 DEF GroupIdUnique
  <2>2. CASE groups # <<>>
    <3>1. Len(groups) \in 1 .. Len(groups)  BY <1>0, <2>2
    <3>2. Singles(groups) # <<>>  BY <1>2, <3>1
    <3>3. PICK f : Flattens(f, Singles(groups), Len(groups))
                   /\ NonEmpty(groups) = f[Len(groups)]
      BY <1>1, <1>2, <3>2, FlattenIsLast
    <3>4. \A k \in 1 .. Len(groups) : FlattenedTo(f, Singles(groups), R, k)
      BY <1>2, <3>3, FlattenMembers
    <3> QED  BY <3>1, <3>3, <3>4, PrefixUnique DEF R
  <2> QED  BY <2>1, <2>2
<1> QED  BY <1>3, <1>4, <1>5, <1>6 DEF Distinct, R

\* The tiles of the groups, in whatever order they lie.
LEMMA TilesOfProperties ==
    ASSUME NEW I, NEW T, NEW groups \in Seq(GroupsOver(I, T))
    PROVE  /\ TilesOf(groups) \in Seq(T)
           /\ \A t : t \in ToSet(TilesOf(groups))
                       <=> \E g \in ToSet(groups) : \E j \in 1 .. Len(g.tiles) : g.tiles[j] = t
<1> DEFINE ss == [i \in 1 .. Len(groups) |-> groups[i].tiles]
<1>1. Len(groups) \in Nat /\ \A i \in 1 .. Len(groups) : groups[i].tiles \in Seq(T)
  <2>1. \A i \in 1 .. Len(groups) : groups[i] \in GroupsOver(I, T)  OBVIOUS
  <2> QED  BY <2>1 DEF GroupsOver
<1>2. ss \in Seq(Seq(T)) /\ Len(ss) = Len(groups)
      /\ \A i \in 1 .. Len(groups) : ss[i] = groups[i].tiles
  BY <1>1
<1>3. TilesOf(groups) = FlattenSeq(ss)  BY DEF TilesOf
<1> HIDE DEF ss
<1>4. /\ TilesOf(groups) \in Seq(T)
      /\ \A t : t \in ToSet(TilesOf(groups)) <=> \E i \in 1 .. Len(groups) : t \in ToSet(ss[i])
  BY <1>2, <1>3, FlattenProperties
<1>5. \A i \in 1 .. Len(groups) : \A t :
         t \in ToSet(ss[i]) <=> \E j \in 1 .. Len(groups[i].tiles) : groups[i].tiles[j] = t
  <2> SUFFICES ASSUME NEW i \in 1 .. Len(groups)
               PROVE  \A t : t \in ToSet(ss[i])
                        <=> \E j \in 1 .. Len(groups[i].tiles) : groups[i].tiles[j] = t
    OBVIOUS
  <2>1. PICK q \in Seq(T) : q = groups[i].tiles /\ q = ss[i]  BY <1>1, <1>2
  <2>2. \A t : t \in ToSet(q) <=> \E j \in 1 .. Len(q) : q[j] = t  BY DEF ToSet
  <2> QED  BY <2>1, <2>2
<1>6. \A g : g \in ToSet(groups) <=> \E i \in 1 .. Len(groups) : g = groups[i]
  BY DEF ToSet
<1>7. ASSUME NEW t
      PROVE  t \in ToSet(TilesOf(groups))
                 <=> \E g \in ToSet(groups) : \E j \in 1 .. Len(g.tiles) : g.tiles[j] = t
  <2>1. t \in ToSet(TilesOf(groups)) <=> \E i \in 1 .. Len(groups) : t \in ToSet(ss[i])
    BY <1>2, <1>4
  <2>2. \A i \in 1 .. Len(groups) :
           t \in ToSet(ss[i]) <=> \E j \in 1 .. Len(groups[i].tiles) : groups[i].tiles[j] = t
    BY <1>5
  <2>3. ASSUME NEW i \in 1 .. Len(groups), t \in ToSet(ss[i])
        PROVE  \E g \in ToSet(groups) : \E j \in 1 .. Len(g.tiles) : g.tiles[j] = t
    <3>1. groups[i] \in ToSet(groups)  BY <1>6
    <3>2. PICK j \in 1 .. Len(groups[i].tiles) : groups[i].tiles[j] = t  BY <2>2, <2>3
    <3> QED  BY <3>1, <3>2
  <2>4. ASSUME NEW g \in ToSet(groups), NEW j \in 1 .. Len(g.tiles), g.tiles[j] = t
        PROVE  \E i \in 1 .. Len(groups) : t \in ToSet(ss[i])
    <3>1. PICK i \in 1 .. Len(groups) : g = groups[i]  BY <1>6
    <3> QED  BY <2>2, <2>4, <3>1
  <2> QED  BY <2>1, <2>3, <2>4
<1> QED  BY <1>4, <1>7

Apart(G) == \A g, h \in G : g.id = h.id => g = h

\* Groups with ids of their own are a finite set that their ids tell apart.
LEMMA DistinctGroups ==
    ASSUME NEW I, NEW T, NEW groups, Distinct(groups, I, T)
    PROVE  /\ ToSet(groups) \subseteq GroupsOver(I, T) /\ Apart(ToSet(groups))
           /\ \A id : id \in Ids(groups) <=> \E g \in ToSet(groups) : g.id = id
           /\ IsFiniteSet(ToSet(groups))
<1>1. groups \in Seq(GroupsOver(I, T)) /\ Len(groups) \in Nat /\ DOMAIN groups = 1 .. Len(groups)
  BY LenProperties DEF Distinct
<1>2. ToSet(groups) \subseteq GroupsOver(I, T)  BY <1>1 DEF ToSet
<1>3. Apart(ToSet(groups))  BY <1>1 DEF ToSet, Apart, Distinct, GroupIdUnique
<1>4. \A id : id \in Ids(groups) <=> \E g \in ToSet(groups) : g.id = id
  BY <1>1 DEF ToSet, Ids
<1>5. groups \in Surjection(1 .. Len(groups), ToSet(groups))
  BY <1>1 DEF Surjection, ToSet
<1>6. IsFiniteSet(1 .. Len(groups))  BY <1>1, FS_Interval
<1>7. IsFiniteSet(ToSet(groups))  BY <1>5, <1>6, FS_Surjection
<1> QED  BY <1>2, <1>3, <1>4, <1>7

\* An id finds its group.
LEMMA TilesInGroup ==
    ASSUME NEW I, NEW T, NEW b, Distinct(b.groups, I, T), NEW g \in ToSet(b.groups)
    PROVE  TilesIn(b, g.id) = g.tiles
<1>1. PICK q : q = b.groups  OBVIOUS
<1>2. q \in Seq(GroupsOver(I, T)) /\ GroupIdUnique(q)  BY <1>1 DEF Distinct
<1>3. PICK i \in 1 .. Len(q) : g = q[i]  BY <1>1, <1>2 DEF ToSet
<1>4. {k \in 1 .. Len(q) : q[k].id = g.id} = {i}  BY <1>2, <1>3 DEF GroupIdUnique
<1>5. SelectInSeq(q, LAMBDA h : h.id = g.id) = i
  <2>1. i \in Int  BY <1>2, <1>3
  <2>2. Min({i}) = i  BY <2>1 DEF Min
  <2> QED  BY <1>4, <2>2 DEF SelectInSeq
<1> QED  BY <1>1, <1>3, <1>5 DEF TilesIn

\* WithTiles changes the group of that id, and no other.
LEMMA WithTilesProperties ==
    ASSUME NEW I, NEW T, NEW groups, Distinct(groups, I, T),
           NEW g \in ToSet(groups), NEW ts \in Seq(T)
    PROVE  /\ Distinct(WithTiles(groups, g.id, ts), I, T)
           /\ ToSet(WithTiles(groups, g.id, ts)) = Replaced(ToSet(groups), g, ts)
<1>1. groups \in Seq(GroupsOver(I, T)) /\ Len(groups) \in Nat /\ DOMAIN groups = 1 .. Len(groups)
      /\ GroupIdUnique(groups)
  BY LenProperties DEF Distinct
<1>2. PICK k \in 1 .. Len(groups) : g = groups[k]  BY <1>1 DEF ToSet
<1>3. PICK w : w = WithTiles(groups, g.id, ts)  OBVIOUS
<1>4. DOMAIN w = 1 .. Len(groups)
      /\ \A i \in 1 .. Len(groups) :
            w[i] = IF i = k THEN [id |-> g.id, tiles |-> ts] ELSE groups[i]
  <2>1. w = [i \in 1 .. Len(groups) |->
               IF groups[i].id = g.id THEN [groups[i] EXCEPT !.tiles = ts] ELSE groups[i]]
    BY <1>3 DEF WithTiles
  <2>2. \A i \in 1 .. Len(groups) : groups[i].id = g.id <=> i = k
    BY <1>1, <1>2 DEF GroupIdUnique
  <2>3. [g EXCEPT !.tiles = ts] = [id |-> g.id, tiles |-> ts]
    <3>1. g \in GroupsOver(I, T)  BY <1>1, <1>2
    <3> QED  BY <3>1 DEF GroupsOver
  <2> QED  BY <1>2, <2>1, <2>2, <2>3
<1>5. [id |-> g.id, tiles |-> ts] \in GroupsOver(I, T)
  <2>1. g \in GroupsOver(I, T)  BY <1>1, <1>2
  <2> QED  BY <2>1 DEF GroupsOver
<1>6. \A i \in 1 .. Len(groups) : w[i] \in GroupsOver(I, T) /\ w[i].id = groups[i].id
  BY <1>1, <1>2, <1>4, <1>5
<1>7. w \in Seq(GroupsOver(I, T)) /\ Len(w) = Len(groups)
  <2>1. w = [i \in 1 .. Len(groups) |-> w[i]]  BY <1>3, <1>4 DEF WithTiles
  <2>2. w \in [1 .. Len(groups) -> GroupsOver(I, T)]  BY <1>6, <2>1
  <2> QED  BY <1>1, <2>2
<1>8. GroupIdUnique(w)  BY <1>1, <1>6, <1>7 DEF GroupIdUnique
<1>9. ToSet(w) = Replaced(ToSet(groups), g, ts)
  <2>1. \A h : h \in ToSet(w) <=> \E i \in 1 .. Len(groups) : h = w[i]
    BY <1>4 DEF ToSet
  <2>2. \A h : h \in ToSet(groups) <=> \E i \in 1 .. Len(groups) : h = groups[i]
    BY <1>1 DEF ToSet
  <2>3. \A i \in 1 .. Len(groups) : groups[i] = g <=> i = k
    BY <1>1, <1>2 DEF GroupIdUnique
  <2>4. ASSUME NEW h \in ToSet(w)  PROVE h \in Replaced(ToSet(groups), g, ts)
    BY <1>4, <2>1, <2>2, <2>3, <2>4 DEF Replaced
  <2>5. ASSUME NEW h \in Replaced(ToSet(groups), g, ts)  PROVE h \in ToSet(w)
    <3>1. CASE h = [id |-> g.id, tiles |-> ts]  BY <1>2, <1>4, <2>1, <3>1
    <3>2. CASE h \in ToSet(groups) \ {g}
      <4>1. PICK i \in 1 .. Len(groups) : h = groups[i]  BY <2>2, <3>2
      <4>2. i # k  BY <1>2, <3>2, <4>1
      <4> QED  BY <1>4, <2>1, <4>1, <4>2
    <3> QED  BY <2>5, <3>1, <3>2 DEF Replaced
  <2> QED  BY <2>4, <2>5
<1> QED  BY <1>3, <1>7, <1>8, <1>9 DEF Distinct

\* A group with an id of its own may be added.
LEMMA AppendGroup ==
    ASSUME NEW I, NEW T, NEW groups, Distinct(groups, I, T),
           NEW g \in GroupsOver(I, T), g.id \notin Ids(groups)
    PROVE  /\ Distinct(Append(groups, g), I, T)
           /\ ToSet(Append(groups, g)) = ToSet(groups) \cup {g}
<1>1. groups \in Seq(GroupsOver(I, T)) /\ Len(groups) \in Nat /\ DOMAIN groups = 1 .. Len(groups)
      /\ GroupIdUnique(groups)
  BY LenProperties DEF Distinct
<1>2. PICK w : w = Append(groups, g)  OBVIOUS
<1>3. /\ w \in Seq(GroupsOver(I, T)) /\ Len(w) = Len(groups) + 1
      /\ DOMAIN w = 1 .. Len(groups) + 1
      /\ \A i \in 1 .. Len(groups) : w[i] = groups[i]
      /\ w[Len(groups) + 1] = g
  BY <1>1, <1>2, AppendProperties, LenProperties
<1>4. \A i \in 1 .. Len(groups) : groups[i].id # g.id  BY DEF Ids
<1>5. \A i \in 1 .. Len(groups) + 1 : i \in 1 .. Len(groups) \/ i = Len(groups) + 1
  BY <1>1
<1>6. GroupIdUnique(w)  BY <1>1, <1>3, <1>4, <1>5 DEF GroupIdUnique
<1>7. ToSet(w) = ToSet(groups) \cup {g}
  <2>1. \A i \in 1 .. Len(groups) : i \in 1 .. Len(groups) + 1  BY <1>1
  <2>2. Len(groups) + 1 \in 1 .. Len(groups) + 1  BY <1>1
  <2> QED  BY <1>1, <1>3, <1>5, <2>1, <2>2 DEF ToSet
<1> QED  BY <1>2, <1>3, <1>6, <1>7 DEF Distinct

-----------------------------------------------------------------------------
(* Where the copies of a tile lie, and what each change of the groups does  *)
(* to their number.                                                         *)

\* A place is the id of a group that has the tile, and the tile's index.
LEMMA PlacesMembers ==
    ASSUME NEW G, NEW t
    PROVE  /\ \A p \in Places(G, t) : \E g \in G : \E j \in 1 .. Len(g.tiles) :
                 g.tiles[j] = t /\ p = <<g.id, j>>
           /\ \A g \in G : \A j \in 1 .. Len(g.tiles) : g.tiles[j] = t => <<g.id, j>> \in Places(G, t)
BY DEF Places

\* A tile has finitely many places.
LEMMA PlacesFinite ==
    ASSUME NEW I, NEW T, NEW G \in SUBSET GroupsOver(I, T), IsFiniteSet(G), NEW t
    PROVE  IsFiniteSet(Places(G, t))
<1> DEFINE P(g) == {g.id} \X {j \in 1 .. Len(g.tiles) : g.tiles[j] = t}
           f == [g \in G |-> P(g)]
           Ps == {P(g) : g \in G}
<1>1. f \in Surjection(G, Ps)  BY DEF Surjection
<1>2. IsFiniteSet(Ps)  BY <1>1, FS_Surjection
<1>3. ASSUME NEW g \in G  PROVE IsFiniteSet(P(g))
  <2>1. Len(g.tiles) \in Int  BY DEF GroupsOver
  <2>2. IsFiniteSet(1 .. Len(g.tiles))  BY <2>1, FS_Interval
  <2>3. IsFiniteSet({j \in 1 .. Len(g.tiles) : g.tiles[j] = t})  BY <2>2, FS_Subset
  <2>4. IsFiniteSet({g.id})  BY FS_Singleton
  <2> QED  BY <2>3, <2>4, FS_Product
<1>4. \A Q \in Ps : IsFiniteSet(Q)  BY <1>3
<1>5. Places(G, t) = UNION Ps  BY DEF Places
<1> HIDE DEF Ps
<1> QED  BY <1>2, <1>4, <1>5, FS_UNION

\* What applyMutation drops holds no tile.
LEMMA PlacesKept ==
    ASSUME NEW I, NEW T, NEW G \in SUBSET GroupsOver(I, T), NEW t
    PROVE  Places(Kept(G), t) = Places(G, t)
<1>1. ASSUME NEW g \in G, NEW j \in 1 .. Len(g.tiles)  PROVE g \in Kept(G)
  <2>1. g.tiles \in Seq(T)  BY DEF GroupsOver
  <2>2. g.tiles # <<>>  BY <2>1
  <2> QED  BY <2>2 DEF Kept
<1>2. ASSUME NEW p \in Places(G, t)  PROVE p \in Places(Kept(G), t)
  <2>0. PICK g \in G : \E j \in 1 .. Len(g.tiles) : g.tiles[j] = t /\ p = <<g.id, j>>
    BY PlacesMembers
  <2>1. PICK j \in 1 .. Len(g.tiles) : g.tiles[j] = t /\ p = <<g.id, j>>  BY <2>0
  <2> QED  BY <1>1, <2>1, PlacesMembers
<1>3. ASSUME NEW p \in Places(Kept(G), t)  PROVE p \in Places(G, t)
  <2>0. PICK g \in Kept(G) : \E j \in 1 .. Len(g.tiles) : g.tiles[j] = t /\ p = <<g.id, j>>
    BY PlacesMembers
  <2>1. PICK j \in 1 .. Len(g.tiles) : g.tiles[j] = t /\ p = <<g.id, j>>  BY <2>0
  <2>2. g \in G  BY DEF Kept
  <2> QED  BY <2>1, <2>2, PlacesMembers
<1> QED  BY <1>2, <1>3

\* Replacing a group's tiles leaves the other groups' places alone.
LEMMA PlacesReplaced ==
    ASSUME NEW G, NEW g \in G, Apart(G), NEW ts, NEW t, NEW p
    PROVE  p \in Places(Replaced(G, g, ts), t)
             <=> \/ p \in Places(G, t) /\ p[1] # g.id
                 \/ \E j \in 1 .. Len(ts) : ts[j] = t /\ p = <<g.id, j>>
<1> DEFINE n == [id |-> g.id, tiles |-> ts]
<1>1. n \in Replaced(G, g, ts) /\ n.id = g.id /\ n.tiles = ts  BY DEF Replaced
<1>2. ASSUME p \in Places(Replaced(G, g, ts), t)
      PROVE  \/ p \in Places(G, t) /\ p[1] # g.id
             \/ \E j \in 1 .. Len(ts) : ts[j] = t /\ p = <<g.id, j>>
  <2>0. PICK h \in Replaced(G, g, ts) : \E j \in 1 .. Len(h.tiles) : h.tiles[j] = t /\ p = <<h.id, j>>
    BY <1>2, PlacesMembers
  <2>1. PICK j \in 1 .. Len(h.tiles) : h.tiles[j] = t /\ p = <<h.id, j>>  BY <2>0
  <2>2. CASE h = n  BY <1>1, <2>1, <2>2
  <2>3. CASE h \in G /\ h # g
    <3>1. h.id # g.id  BY <2>3 DEF Apart
    <3> QED  BY <2>1, <2>3, <3>1, PlacesMembers
  <2> QED  BY <2>2, <2>3 DEF Replaced
<1>3. ASSUME p \in Places(G, t), p[1] # g.id  PROVE p \in Places(Replaced(G, g, ts), t)
  <2>0. PICK h \in G : \E j \in 1 .. Len(h.tiles) : h.tiles[j] = t /\ p = <<h.id, j>>
    BY <1>3, PlacesMembers
  <2>1. PICK j \in 1 .. Len(h.tiles) : h.tiles[j] = t /\ p = <<h.id, j>>  BY <2>0
  <2>2. h \in Replaced(G, g, ts)  BY <1>3, <2>1 DEF Replaced
  <2> QED  BY <2>1, <2>2, PlacesMembers
<1>4. ASSUME NEW j \in 1 .. Len(ts), ts[j] = t, p = <<g.id, j>>
      PROVE  p \in Places(Replaced(G, g, ts), t)
  BY <1>1, <1>4, PlacesMembers
<1> QED  BY <1>2, <1>3, <1>4

\* The places in one group are the ones that bear its id.
LEMMA PlacesOfGroup ==
    ASSUME NEW G, NEW g \in G, Apart(G), NEW t, NEW p
    PROVE  (p \in Places(G, t) /\ p[1] = g.id)
             <=> \E j \in 1 .. Len(g.tiles) : g.tiles[j] = t /\ p = <<g.id, j>>
<1>1. ASSUME p \in Places(G, t), p[1] = g.id
      PROVE  \E j \in 1 .. Len(g.tiles) : g.tiles[j] = t /\ p = <<g.id, j>>
  <2>0. PICK h \in G : \E j \in 1 .. Len(h.tiles) : h.tiles[j] = t /\ p = <<h.id, j>>
    BY <1>1, PlacesMembers
  <2>1. PICK j \in 1 .. Len(h.tiles) : h.tiles[j] = t /\ p = <<h.id, j>>  BY <2>0
  <2>2. h = g  BY <1>1, <2>1 DEF Apart
  <2> QED  BY <2>1, <2>2
<1>2. ASSUME NEW j \in 1 .. Len(g.tiles), g.tiles[j] = t, p = <<g.id, j>>
      PROVE  p \in Places(G, t) /\ p[1] = g.id
  BY <1>2, PlacesMembers
<1> QED  BY <1>1, <1>2

Is(t, u) == IF t = u THEN 1 ELSE 0
Number(G, t) == Cardinality(Places(G, t))

\* A tile at a group's end.
LEMMA NumberAppended ==
    ASSUME NEW I, NEW T, NEW G \in SUBSET GroupsOver(I, T), IsFiniteSet(G), Apart(G),
           NEW g \in G, NEW t \in T, NEW u
    PROVE  Number(Replaced(G, g, Append(g.tiles, t)), u) = Number(G, u) + Is(t, u)
<1>1. PICK q \in Seq(T) : q = g.tiles  BY DEF GroupsOver
<1>2. PICK w : w = Append(q, t)  OBVIOUS
<1>3. /\ Len(q) \in Nat /\ Len(w) = Len(q) + 1
      /\ \A j \in 1 .. Len(q) : w[j] = q[j]
      /\ w[Len(q) + 1] = t
  BY <1>2, AppendProperties
<1> DEFINE P == Places(G, u)
           new == <<g.id, Len(q) + 1>>
<1>4. IsFiniteSet(P)  BY PlacesFinite
<1>5. new \notin P
  <2>1. new[1] = g.id  OBVIOUS
  <2>2. ~ \E j \in 1 .. Len(q) : new = <<g.id, j>>  BY <1>3
  <2> QED  BY <1>1, <2>1, <2>2, PlacesOfGroup
<1>6. \A p : (\E j \in 1 .. Len(w) : w[j] = u /\ p = <<g.id, j>>)
             <=> (\E j \in 1 .. Len(q) : q[j] = u /\ p = <<g.id, j>>) \/ (u = t /\ p = new)
  <2> SUFFICES ASSUME NEW p
               PROVE  (\E j \in 1 .. Len(w) : w[j] = u /\ p = <<g.id, j>>)
                      <=> (\E j \in 1 .. Len(q) : q[j] = u /\ p = <<g.id, j>>) \/ (u = t /\ p = new)
    OBVIOUS
  <2>1. ASSUME NEW j \in 1 .. Len(w), w[j] = u, p = <<g.id, j>>
        PROVE  (\E k \in 1 .. Len(q) : q[k] = u /\ p = <<g.id, k>>) \/ (u = t /\ p = new)
    <3>1. CASE j = Len(q) + 1  BY <1>3, <2>1, <3>1
    <3>2. CASE j # Len(q) + 1
      <4>1. j \in 1 .. Len(q)  BY <1>3, <3>2
      <4> QED  BY <1>3, <2>1, <4>1
    <3> QED  BY <3>1, <3>2
  <2>2. ASSUME NEW j \in 1 .. Len(q), q[j] = u, p = <<g.id, j>>
        PROVE  \E k \in 1 .. Len(w) : w[k] = u /\ p = <<g.id, k>>
    <3>1. j \in 1 .. Len(w)  BY <1>3
    <3> QED  BY <1>3, <2>2, <3>1
  <2>3. ASSUME u = t, p = new
        PROVE  \E k \in 1 .. Len(w) : w[k] = u /\ p = <<g.id, k>>
    <3>1. Len(q) + 1 \in 1 .. Len(w)  BY <1>3
    <3> QED  BY <1>3, <2>3, <3>1
  <2> QED  BY <2>1, <2>2, <2>3
<1>7. \A p : p \in Places(Replaced(G, g, w), u) <=> p \in P \/ (u = t /\ p = new)
  <2> SUFFICES ASSUME NEW p
               PROVE  p \in Places(Replaced(G, g, w), u) <=> p \in P \/ (u = t /\ p = new)
    OBVIOUS
  <2> HIDE DEF P, new
  <2>1. p \in Places(Replaced(G, g, w), u)
          <=> \/ p \in P /\ p[1] # g.id
              \/ \E j \in 1 .. Len(w) : w[j] = u /\ p = <<g.id, j>>
    BY PlacesReplaced DEF P
  <2>2. (p \in P /\ p[1] = g.id) <=> \E j \in 1 .. Len(q) : q[j] = u /\ p = <<g.id, j>>
    BY <1>1, PlacesOfGroup DEF P
  <2> QED  BY <1>6, <2>1, <2>2
<1>8. CASE u = t
  <2>1. Places(Replaced(G, g, w), u) = P \cup {new}  BY <1>7, <1>8
  <2>2. Cardinality(P \cup {new}) = Cardinality(P) + 1  BY <1>4, <1>5, FS_AddElement
  <2> QED  BY <1>1, <1>2, <1>8, <2>1, <2>2 DEF Number, Is
<1>9. CASE u # t
  <2>1. Places(Replaced(G, g, w), u) = P  BY <1>7, <1>9
  <2>2. Cardinality(P) \in Nat  BY <1>4, FS_CardinalityType
  <2> QED  BY <1>1, <1>2, <1>9, <2>1, <2>2 DEF Number, Is
<1> QED  BY <1>8, <1>9

\* A tile in a group of its own.
LEMMA NumberOpened ==
    ASSUME NEW I, NEW T, NEW G \in SUBSET GroupsOver(I, T), IsFiniteSet(G),
           NEW n, \A g \in G : g.id # n.id, NEW t, n.tiles = <<t>>, NEW u
    PROVE  Number(G \cup {n}, u) = Number(G, u) + Is(t, u)
<1> DEFINE P == Places(G, u)
           new == <<n.id, 1>>
<1>1. IsFiniteSet(P)  BY PlacesFinite
<1>2. new \notin P
  <2> SUFFICES ASSUME new \in P  PROVE FALSE  OBVIOUS
  <2>1. PICK g \in G : \E j \in 1 .. Len(g.tiles) : g.tiles[j] = u /\ new = <<g.id, j>>
    BY PlacesMembers
  <2>2. g.id = n.id  BY <2>1
  <2> QED  BY <2>2
<1>3. \A p : p \in Places(G \cup {n}, u) <=> p \in P \/ (u = t /\ p = new)
  <2>0. Len(n.tiles) = 1 /\ n.tiles[1] = t /\ n \in G \cup {n}  OBVIOUS
  <2>1. ASSUME NEW p \in Places(G \cup {n}, u)  PROVE p \in P \/ (u = t /\ p = new)
    <3>1. PICK g \in G \cup {n} : \E j \in 1 .. Len(g.tiles) : g.tiles[j] = u /\ p = <<g.id, j>>
      BY PlacesMembers
    <3>2. CASE g \in G  BY <3>1, <3>2, PlacesMembers
    <3>3. CASE g = n  BY <2>0, <3>1, <3>3
    <3> QED  BY <3>1, <3>2, <3>3
  <2>2. ASSUME NEW p \in P  PROVE p \in Places(G \cup {n}, u)
    <3>1. PICK g \in G : \E j \in 1 .. Len(g.tiles) : g.tiles[j] = u /\ p = <<g.id, j>>
      BY PlacesMembers
    <3> QED  BY <3>1, PlacesMembers
  <2>3. ASSUME u = t  PROVE new \in Places(G \cup {n}, u)
    <3>1. 1 \in 1 .. Len(n.tiles)  BY <2>0
    <3> QED  BY <2>0, <2>3, <3>1, PlacesMembers
  <2> QED  BY <2>1, <2>2, <2>3
<1>4. CASE u = t
  <2>1. Places(G \cup {n}, u) = P \cup {new}  BY <1>3, <1>4
  <2>2. Cardinality(P \cup {new}) = Cardinality(P) + 1  BY <1>1, <1>2, FS_AddElement
  <2> QED  BY <1>4, <2>1, <2>2 DEF Number, Is
<1>5. CASE u # t
  <2>1. Places(G \cup {n}, u) = P  BY <1>3, <1>5
  <2>2. Cardinality(P) \in Nat  BY <1>1, FS_CardinalityType
  <2> QED  BY <1>5, <2>1, <2>2 DEF Number, Is
<1> QED  BY <1>4, <1>5

\* A tile in the place of another.
LEMMA NumberSwapped ==
    ASSUME NEW I, NEW T, NEW G \in SUBSET GroupsOver(I, T), IsFiniteSet(G), Apart(G),
           NEW g \in G, NEW i \in 1 .. Len(g.tiles), NEW t \in T, g.tiles[i] # t, NEW u
    PROVE  /\ Number(Replaced(G, g, [g.tiles EXCEPT ![i] = t]), u)
                = Number(G, u) + Is(t, u) - Is(g.tiles[i], u)
           /\ Number(G, g.tiles[i]) > 0
<1>1. PICK q \in Seq(T) : q = g.tiles  BY DEF GroupsOver
<1>2. PICK w : w = [q EXCEPT ![i] = t]  OBVIOUS
<1>3. /\ Len(q) \in Nat /\ Len(w) = Len(q) /\ i \in 1 .. Len(q)
      /\ \A j \in 1 .. Len(q) : w[j] = IF j = i THEN t ELSE q[j]
  BY <1>1, <1>2, ExceptSeq
<1> DEFINE P == Places(G, u)
           at == <<g.id, i>>
<1>4. IsFiniteSet(P)  BY PlacesFinite
<1>5. at \in P <=> q[i] = u
  <2>1. at[1] = g.id  OBVIOUS
  <2>2. (\E j \in 1 .. Len(q) : q[j] = u /\ at = <<g.id, j>>) <=> q[i] = u  BY <1>3
  <2> QED  BY <1>1, <2>1, <2>2, PlacesOfGroup
<1>6. \A p : p \in Places(Replaced(G, g, w), u) <=> (p \in P /\ p # at) \/ (u = t /\ p = at)
  <2> SUFFICES ASSUME NEW p
               PROVE  p \in Places(Replaced(G, g, w), u)
                        <=> (p \in P /\ p # at) \/ (u = t /\ p = at)
    OBVIOUS
  <2>0. (\E j \in 1 .. Len(w) : w[j] = u /\ p = <<g.id, j>>)
          <=> ((\E j \in 1 .. Len(q) : q[j] = u /\ p = <<g.id, j>>) /\ p # at) \/ (u = t /\ p = at)
    BY <1>3
  <2>1. at[1] = g.id  OBVIOUS
  <2> HIDE DEF P, at
  <2>2. p \in Places(Replaced(G, g, w), u)
          <=> \/ p \in P /\ p[1] # g.id
              \/ \E j \in 1 .. Len(w) : w[j] = u /\ p = <<g.id, j>>
    BY PlacesReplaced DEF P
  <2>3. (p \in P /\ p[1] = g.id) <=> \E j \in 1 .. Len(q) : q[j] = u /\ p = <<g.id, j>>
    BY <1>1, PlacesOfGroup DEF P
  <2> QED  BY <2>0, <2>1, <2>2, <2>3
<1>7. Cardinality(P) \in Nat  BY <1>4, FS_CardinalityType
<1>8. Cardinality(P \ {at}) = Cardinality(P) - Is(q[i], u) /\ IsFiniteSet(P \ {at})
  <2>1. IsFiniteSet(P \ {at})
        /\ Cardinality(P \ {at}) = IF at \in P THEN Cardinality(P) - 1 ELSE Cardinality(P)
    BY <1>4, FS_RemoveElement
  <2>2. CASE q[i] = u  BY <1>5, <2>1, <2>2 DEF Is
  <2>3. CASE q[i] # u  BY <1>5, <1>7, <2>1, <2>3 DEF Is
  <2> QED  BY <2>2, <2>3
<1>9. Number(Replaced(G, g, w), u) = Number(G, u) + Is(t, u) - Is(q[i], u)
  <2>1. CASE u = t
    <3>1. Places(Replaced(G, g, w), u) = P \cup {at}  BY <1>6, <2>1
    <3>2. q[i] # u  BY <1>1, <2>1
    <3>3. at \notin P  BY <1>5, <3>2
    <3>4. Cardinality(P \cup {at}) = Cardinality(P) + 1  BY <1>4, <3>3, FS_AddElement
    <3> QED  BY <1>7, <2>1, <3>1, <3>2, <3>4 DEF Number, Is
  <2>2. CASE u # t
    <3>1. Places(Replaced(G, g, w), u) = P \ {at}  BY <1>6, <2>2
    <3> QED  BY <1>7, <1>8, <2>2, <3>1 DEF Number, Is
  <2> QED  BY <2>1, <2>2
<1>10. Number(G, g.tiles[i]) > 0
  <2> DEFINE Q == Places(G, g.tiles[i])
  <2>1. <<g.id, i>> \in Q  BY PlacesMembers
  <2>2. IsFiniteSet(Q)  BY PlacesFinite
  <2> HIDE DEF Q
  <2>3. Cardinality(Q) # 0  BY <2>1, <2>2, FS_EmptySet
  <2>4. Cardinality(Q) \in Nat  BY <2>2, FS_CardinalityType
  <2> QED  BY <2>3, <2>4 DEF Number, Q
<1> QED  BY <1>1, <1>2, <1>9, <1>10

\* RemoveAt closes the gap.
LEMMA RemoveAtProperties ==
    ASSUME NEW T, NEW q \in Seq(T), NEW i \in 1 .. Len(q)
    PROVE  /\ RemoveAt(q, i) \in Seq(T) /\ Len(RemoveAt(q, i)) = Len(q) - 1
           /\ \A j \in 1 .. Len(q) - 1 : RemoveAt(q, i)[j] = IF j < i THEN q[j] ELSE q[j + 1]
<1>1. Len(q) \in Nat /\ i \in Nat /\ i >= 1 /\ i <= Len(q)  OBVIOUS
<1>2. PICK a : a = SubSeq(q, 1, i - 1)  OBVIOUS
<1>3. PICK c : c = SubSeq(q, i + 1, Len(q))  OBVIOUS
<1>4. /\ a \in Seq(T) /\ Len(a) = i - 1
      /\ \A j \in 1 .. i - 1 : a[j] = q[j]
  <2>1. \A j \in 1 .. i - 1 : q[j] \in T  BY <1>1
  <2>2. 1 \in Int /\ i - 1 \in Int  BY <1>1
  <2>3. /\ a \in Seq(T) /\ Len(a) = IF 1 <= i - 1 THEN (i - 1) - 1 + 1 ELSE 0
        /\ \A j \in 1 .. (i - 1) - 1 + 1 : a[j] = q[1 + j - 1]
    BY <1>2, <2>1, <2>2, SubSeqProperties
  <2> QED  BY <1>1, <2>3
<1>5. /\ c \in Seq(T) /\ Len(c) = Len(q) - i
      /\ \A j \in 1 .. Len(q) - i : c[j] = q[i + j]
  <2>1. \A j \in i + 1 .. Len(q) : q[j] \in T  BY <1>1
  <2>2. i + 1 \in Int /\ Len(q) \in Int  BY <1>1
  <2>3. /\ c \in Seq(T) /\ Len(c) = IF i + 1 <= Len(q) THEN Len(q) - (i + 1) + 1 ELSE 0
        /\ \A j \in 1 .. Len(q) - (i + 1) + 1 : c[j] = q[i + 1 + j - 1]
    BY <1>3, <2>1, <2>2, SubSeqProperties
  <2> QED  BY <1>1, <2>3
<1>6. PICK r : r = a \o c  OBVIOUS
<1>7. /\ r \in Seq(T) /\ Len(r) = Len(q) - 1
      /\ \A j \in 1 .. Len(q) - 1 : r[j] = IF j <= i - 1 THEN a[j] ELSE c[j - (i - 1)]
  <2>1. /\ r \in Seq(T) /\ Len(r) = Len(a) + Len(c)
        /\ \A j \in 1 .. Len(a) + Len(c) : r[j] = IF j <= Len(a) THEN a[j] ELSE c[j - Len(a)]
    BY <1>4, <1>5, <1>6, ConcatProperties
  <2>2. Len(a) + Len(c) = Len(q) - 1  BY <1>1, <1>4, <1>5
  <2> QED  BY <1>4, <2>1, <2>2
<1>8. ASSUME NEW j \in 1 .. Len(q) - 1
      PROVE  r[j] = IF j < i THEN q[j] ELSE q[j + 1]
  <2>1. CASE j < i
    <3>1. j \in 1 .. i - 1 /\ j <= i - 1  BY <1>1, <2>1
    <3> QED  BY <1>4, <1>7, <2>1, <3>1
  <2>2. CASE ~(j < i)
    <3>1. ~(j <= i - 1)  BY <1>1, <2>2
    <3>2. PICK k : k = j - (i - 1)  OBVIOUS
    <3>3. k \in 1 .. Len(q) - i /\ i + k = j + 1  BY <1>1, <2>2, <3>2
    <3>4. r[j] = c[k]  BY <1>7, <3>1, <3>2
    <3>5. c[k] = q[i + k]  BY <1>5, <3>3
    <3> QED  BY <2>2, <3>3, <3>4, <3>5
  <2> QED  BY <2>1, <2>2
<1> QED  BY <1>2, <1>3, <1>6, <1>7, <1>8 DEF RemoveAt

\* A tile taken from a group: the places after it move up by one.
LEMMA NumberRemoved ==
    ASSUME NEW I, NEW T, NEW G \in SUBSET GroupsOver(I, T), IsFiniteSet(G), Apart(G),
           NEW g \in G, NEW i \in 1 .. Len(g.tiles), NEW u
    PROVE  /\ Number(Replaced(G, g, RemoveAt(g.tiles, i)), u) = Number(G, u) - Is(g.tiles[i], u)
           /\ Number(G, g.tiles[i]) > 0
<1>1. PICK q \in Seq(T) : q = g.tiles  BY DEF GroupsOver
<1>2. PICK w : w = RemoveAt(q, i)  OBVIOUS
<1>3. /\ Len(q) \in Nat /\ i \in 1 .. Len(q) /\ i \in Nat
      /\ w \in Seq(T) /\ Len(w) = Len(q) - 1
      /\ \A j \in 1 .. Len(q) - 1 : w[j] = IF j < i THEN q[j] ELSE q[j + 1]
  <2>1. i \in 1 .. Len(q)  BY <1>1
  <2> QED  BY <1>2, <2>1, RemoveAtProperties
<1> DEFINE P == Places(G, u)
           at == <<g.id, i>>
           W == Places(Replaced(G, g, w), u)
           f == [p \in W |-> IF p[1] = g.id /\ p[2] >= i THEN <<g.id, p[2] + 1>> ELSE p]
<1>4. IsFiniteSet(P)  BY PlacesFinite
<1>5. at \in P <=> q[i] = u
  <2>1. at[1] = g.id  OBVIOUS
  <2>2. (\E j \in 1 .. Len(q) : q[j] = u /\ at = <<g.id, j>>) <=> q[i] = u  BY <1>3
  <2> QED  BY <1>1, <2>1, <2>2, PlacesOfGroup
<1>6. \A p : p \in W <=> \/ p \in P /\ p[1] # g.id
                         \/ \E j \in 1 .. Len(w) : w[j] = u /\ p = <<g.id, j>>
  BY PlacesReplaced
<1>7. \A p : (p \in P /\ p[1] = g.id) <=> \E j \in 1 .. Len(q) : q[j] = u /\ p = <<g.id, j>>
  BY <1>1, PlacesOfGroup
<1> HIDE DEF P, W
<1>8. ASSUME NEW j \in 1 .. Len(w), w[j] = u
      PROVE  \E k \in 1 .. Len(q) :
                /\ (j >= i => k = j + 1) /\ (j < i => k = j)
                /\ q[k] = u /\ k # i /\ f[<<g.id, j>>] = <<g.id, k>>
  <2>1. <<g.id, j>> \in W  BY <1>6, <1>8
  <2>2. f[<<g.id, j>>] = IF j >= i THEN <<g.id, j + 1>> ELSE <<g.id, j>>  BY <2>1
  <2> HIDE DEF f
  <2>3. j \in 1 .. Len(q) - 1 /\ j \in Nat  BY <1>3
  <2>4. CASE j >= i
    <3>1. j + 1 \in 1 .. Len(q) /\ ~(j < i) /\ j + 1 # i  BY <1>3, <2>3, <2>4
    <3>2. q[j + 1] = u  BY <1>3, <1>8, <2>3, <3>1
    <3> QED  BY <2>2, <2>4, <3>1, <3>2
  <2>5. CASE ~(j >= i)
    <3>1. j \in 1 .. Len(q) /\ j < i /\ j # i  BY <1>3, <2>3, <2>5
    <3>2. q[j] = u  BY <1>3, <1>8, <2>3, <3>1
    <3> QED  BY <2>2, <2>5, <3>1, <3>2
  <2> QED  BY <2>4, <2>5
<1>9. \A p \in W : p[1] # g.id => f[p] = p  OBVIOUS
<1>10. f \in Bijection(W, P \ {at})
  <2> HIDE DEF f
  <2>1. ASSUME NEW p \in W  PROVE f[p] \in P \ {at}
    <3>1. CASE p[1] # g.id  BY <1>6, <1>9, <3>1
    <3>2. CASE p[1] = g.id
      <4>1. PICK j \in 1 .. Len(w) : w[j] = u /\ p = <<g.id, j>>  BY <1>6, <3>2
      <4>2. PICK k : k \in 1 .. Len(q) /\ q[k] = u /\ k # i /\ f[p] = <<g.id, k>>
        BY <1>8, <4>1
      <4> QED  BY <1>7, <4>2
    <3> QED  BY <3>1, <3>2
  <2>2. ASSUME NEW p \in W, NEW r \in W, f[p] = f[r]  PROVE p = r
    <3>1. CASE p[1] # g.id /\ r[1] # g.id  BY <1>9, <2>2, <3>1
    <3>2. CASE p[1] = g.id /\ r[1] # g.id
      <4>1. PICK j \in 1 .. Len(w) : w[j] = u /\ p = <<g.id, j>>  BY <1>6, <3>2
      <4>2. f[p][1] = g.id  BY <1>8, <4>1
      <4> QED  BY <1>9, <2>2, <3>2, <4>2
    <3>3. CASE p[1] # g.id /\ r[1] = g.id
      <4>1. PICK j \in 1 .. Len(w) : w[j] = u /\ r = <<g.id, j>>  BY <1>6, <3>3
      <4>2. f[r][1] = g.id  BY <1>8, <4>1
      <4> QED  BY <1>9, <2>2, <3>3, <4>2
    <3>4. CASE p[1] = g.id /\ r[1] = g.id
      <4>1. PICK j \in 1 .. Len(w) : w[j] = u /\ p = <<g.id, j>>  BY <1>6, <3>4
      <4>2. PICK k \in 1 .. Len(w) : w[k] = u /\ r = <<g.id, k>>  BY <1>6, <3>4
      <4>3. PICK x \in 1 .. Len(q) :
               (j >= i => x = j + 1) /\ (j < i => x = j) /\ f[p] = <<g.id, x>>
        BY <1>8, <4>1
      <4>4. PICK y \in 1 .. Len(q) :
               (k >= i => y = k + 1) /\ (k < i => y = k) /\ f[r] = <<g.id, y>>
        BY <1>8, <4>2
      <4>5. x = y
        <5>1. <<g.id, x>> = <<g.id, y>>  BY <2>2, <4>3, <4>4, Zenon
        <5> QED  BY <5>1
      <4>6. j = k  BY <1>3, <4>3, <4>4, <4>5
      <4> QED  BY <4>1, <4>2, <4>6
    <3> QED  BY <3>1, <3>2, <3>3, <3>4
  <2>3. ASSUME NEW r \in P \ {at}  PROVE \E p \in W : f[p] = r
    <3>1. CASE r[1] # g.id  BY <1>6, <1>9, <3>1
    <3>2. CASE r[1] = g.id
      <4>1. PICK k \in 1 .. Len(q) : q[k] = u /\ r = <<g.id, k>>  BY <1>7, <3>2
      <4>2. k # i  BY <4>1
      <4>3. PICK j : j = IF k > i THEN k - 1 ELSE k  OBVIOUS
      <4>4. j \in 1 .. Len(w) /\ w[j] = u  BY <1>3, <4>1, <4>2, <4>3
      <4>5. PICK x \in 1 .. Len(q) :
               (j >= i => x = j + 1) /\ (j < i => x = j) /\ f[<<g.id, j>>] = <<g.id, x>>
        BY <1>8, <4>4
      <4>6. x = k  BY <1>3, <4>2, <4>3, <4>5
      <4>7. <<g.id, j>> \in W  BY <1>6, <4>4
      <4> QED  BY <4>1, <4>5, <4>6, <4>7
    <3> QED  BY <3>1, <3>2
  <2>4. f = [p \in W |-> f[p]]  BY DEF f
  <2>5. f \in [W -> P \ {at}]
    <3>1. [p \in W |-> f[p]] \in [W -> P \ {at}]  BY <2>1
    <3> QED  BY <2>4, <3>1
  <2>6. f \in Injection(W, P \ {at})
    <3>1. \A p, r \in W : f[p] = f[r] => p = r  BY <2>2
    <3> QED  BY <2>5, <3>1 DEF Injection, IsInjective
  <2>7. f \in Surjection(W, P \ {at})  BY <2>3, <2>5 DEF Surjection
  <2> QED  BY <2>6, <2>7 DEF Bijection
<1>11. IsFiniteSet(P \ {at}) /\ Cardinality(P \ {at}) = Cardinality(P) - Is(q[i], u)
  <2>1. Cardinality(P) \in Nat  BY <1>4, FS_CardinalityType
  <2>2. IsFiniteSet(P \ {at})
        /\ Cardinality(P \ {at}) = IF at \in P THEN Cardinality(P) - 1 ELSE Cardinality(P)
    BY <1>4, FS_RemoveElement
  <2>3. CASE q[i] = u  BY <1>5, <2>2, <2>3 DEF Is
  <2>4. CASE q[i] # u  BY <1>5, <2>1, <2>2, <2>4 DEF Is
  <2> QED  BY <2>3, <2>4
<1>12. Cardinality(W) = Cardinality(P \ {at})
  <2>1. ExistsBijection(W, P \ {at})  BY <1>10 DEF ExistsBijection
  <2>2. f \in Injection(W, P \ {at}) /\ f \in Surjection(W, P \ {at})
    BY <1>10 DEF Bijection
  <2> QED  BY <1>11, <2>2, FS_Injection
<1>13. Number(G, g.tiles[i]) > 0
  <2> DEFINE Q == Places(G, g.tiles[i])
  <2>1. <<g.id, i>> \in Q  BY PlacesMembers
  <2>2. IsFiniteSet(Q)  BY PlacesFinite
  <2> HIDE DEF Q
  <2>3. Cardinality(Q) # 0  BY <2>1, <2>2, FS_EmptySet
  <2>4. Cardinality(Q) \in Nat  BY <2>2, FS_CardinalityType
  <2> QED  BY <2>3, <2>4 DEF Number, Q
<1> QED  BY <1>1, <1>2, <1>11, <1>12, <1>13 DEF Number, P, W

-----------------------------------------------------------------------------
(* The rack and the ids of new groups *)

\* A bag has a natural number of copies of each tile.
LEMMA CopiesNat ==
    ASSUME NEW B, IsABag(B), NEW t
    PROVE  Copies(t, B) \in Nat /\ (t \in BagToSet(B) <=> Copies(t, B) > 0)
BY DEF IsABag, BagToSet, BagIn, Copies

\* The bag of a set has one copy of each member.
LEMMA CopiesBegun ==
    ASSUME NEW S, NEW t
    PROVE  /\ IsABag(SetToBag(S)) /\ BagToSet(SetToBag(S)) = S
           /\ Copies(t, SetToBag(S)) = IF t \in S THEN 1 ELSE 0
BY DEF IsABag, BagToSet, BagIn, SetToBag, Copies

Fewer(n) == IF n = 0 THEN 0 ELSE n - 1

\* Taking a tile out of a bag that may not have it.
LEMMA CopiesLess ==
    ASSUME NEW B, IsABag(B), NEW t
    PROVE  /\ IsABag(B (-) SetToBag({t})) /\ BagToSet(B (-) SetToBag({t})) \subseteq BagToSet(B)
           /\ Copies(t, B (-) SetToBag({t})) = Fewer(Copies(t, B))
           /\ \A u : u # t => Copies(u, B (-) SetToBag({t})) = Copies(u, B)
<1>1. PICK R : R = [e \in DOMAIN B |-> IF e = t THEN B[e] - 1 ELSE B[e]]  OBVIOUS
<1>2. PICK N : N = [e \in {d \in DOMAIN R : R[d] > 0} |-> R[e]]  OBVIOUS
<1>3. B (-) SetToBag({t}) = N
  <2>1. SetToBag({t}) = [e \in {t} |-> 1]  BY DEF SetToBag
  <2>2. R = [e \in DOMAIN B |-> IF e \in DOMAIN SetToBag({t}) THEN B[e] - SetToBag({t})[e]
                                ELSE B[e]]
    BY <1>1, <2>1
  <2> QED  BY <1>2, <2>2 DEF (-)
<1>4. \A e \in DOMAIN B : B[e] \in Nat /\ B[e] > 0  BY DEF IsABag
<1>5. \A e \in DOMAIN B : R[e] \in Nat  BY <1>1, <1>4
<1>6. \A e : e \in DOMAIN N <=> e \in DOMAIN B /\ (e = t => B[e] > 1)  BY <1>1, <1>2, <1>4
<1>7. \A e \in DOMAIN N : N[e] = R[e]  BY <1>2
<1>8. IsABag(N)
  <2>1. \A e \in DOMAIN N : N[e] \in {n \in Nat : n > 0}  BY <1>1, <1>2, <1>5
  <2>2. N = [e \in DOMAIN N |-> N[e]]  BY <1>2
  <2> QED  BY <2>1, <2>2 DEF IsABag
<1>9. BagToSet(N) \subseteq BagToSet(B)  BY <1>6 DEF BagToSet
<1>10. Copies(t, N) = Fewer(Copies(t, B))
  BY <1>1, <1>4, <1>6, <1>7 DEF Copies, BagIn, BagToSet, Fewer
<1>11. \A u : u # t => Copies(u, N) = Copies(u, B)
  BY <1>1, <1>6, <1>7 DEF Copies, BagIn, BagToSet
<1> QED  BY <1>3, <1>8, <1>9, <1>10, <1>11

\* Putting a tile into a bag.
LEMMA CopiesMore ==
    ASSUME NEW B, IsABag(B), NEW t
    PROVE  /\ IsABag(B (+) SetToBag({t})) /\ BagToSet(B (+) SetToBag({t})) = BagToSet(B) \cup {t}
           /\ Copies(t, B (+) SetToBag({t})) = Copies(t, B) + 1
           /\ \A u : u # t => Copies(u, B (+) SetToBag({t})) = Copies(u, B)
<1>1. PICK N : N = [e \in DOMAIN B \cup {t} |->
                      (IF e \in DOMAIN B THEN B[e] ELSE 0) + (IF e = t THEN 1 ELSE 0)]
  OBVIOUS
<1>2. B (+) SetToBag({t}) = N
  <2>1. SetToBag({t}) = [e \in {t} |-> 1]  BY DEF SetToBag
  <2>2. DOMAIN SetToBag({t}) = {t} /\ SetToBag({t})[t] = 1  BY <2>1
  <2>3. N = [e \in DOMAIN B \cup DOMAIN SetToBag({t}) |->
               (IF e \in DOMAIN B THEN B[e] ELSE 0)
                 + (IF e \in DOMAIN SetToBag({t}) THEN SetToBag({t})[e] ELSE 0)]
    BY <1>1, <2>2
  <2> QED  BY <2>3 DEF (+)
<1>3. \A e \in DOMAIN B : B[e] \in Nat /\ B[e] > 0  BY DEF IsABag
<1>4. DOMAIN N = DOMAIN B \cup {t}  BY <1>1
<1>5. \A e \in DOMAIN N : N[e] \in {n \in Nat : n > 0}  BY <1>1, <1>3, <1>4
<1>6. IsABag(N)
  <2>1. N = [e \in DOMAIN N |-> N[e]]  BY <1>1
  <2> QED  BY <1>5, <2>1 DEF IsABag
<1>7. Copies(t, N) = Copies(t, B) + 1  BY <1>1, <1>3, <1>4 DEF Copies, BagIn, BagToSet
<1>8. \A u : u # t => Copies(u, N) = Copies(u, B)
  BY <1>1, <1>3, <1>4 DEF Copies, BagIn, BagToSet
<1> QED  BY <1>2, <1>4, <1>6, <1>7, <1>8 DEF BagToSet

\* Among one more pending ids than there are groups one names none of them.
LEMMA FreshIdProperties ==
    ASSUME NEW b, NEW S, b.groups \in Seq(S)
    PROVE  \E k \in Nat : FreshId(b) = PendingId(k) /\ ~Has(b, FreshId(b))
<1>1. PICK n \in Nat : n = Len(b.groups)  OBVIOUS
<1> DEFINE free == {k \in 1 .. n + 1 : ~Has(b, PendingId(k))}
<1>2. free # {}
  <2> SUFFICES ASSUME free = {}  PROVE FALSE  OBVIOUS
  <2>1. \A k \in 1 .. n + 1 : \E i \in 1 .. n : b.groups[i].id = PendingId(k)
    BY <1>1 DEF Has, Ids
  <2> DEFINE f == [k \in 1 .. n + 1 |-> CHOOSE i \in 1 .. n : b.groups[i].id = PendingId(k)]
  <2>2. \A k \in 1 .. n + 1 : f[k] \in 1 .. n /\ b.groups[f[k]].id = PendingId(k)  BY <2>1
  <2>3. f \in [1 .. n + 1 -> 1 .. n]  BY <2>2
  <2>4. IsFiniteSet(1 .. n + 1) /\ Cardinality(1 .. n + 1) = n + 1
        /\ IsFiniteSet(1 .. n) /\ Cardinality(1 .. n) = n
    BY FS_Interval
  <2>5. Cardinality(1 .. n) < Cardinality(1 .. n + 1)  BY <2>4
  <2> HIDE DEF f
  <2>6. \E x, y \in 1 .. n + 1 : x # y /\ f[x] = f[y]
    <3>1. PICK X : X = 1 .. n + 1  OBVIOUS
    <3>2. PICK Y : Y = 1 .. n  OBVIOUS
    <3>3. IsFiniteSet(X) /\ IsFiniteSet(Y) /\ Cardinality(Y) < Cardinality(X) /\ f \in [X -> Y]
      BY <2>3, <2>4, <2>5, <3>1, <3>2
    <3>4. \E x, y \in X : x # y /\ f[x] = f[y]  BY <3>3, FS_PigeonHole
    <3> QED  BY <3>1, <3>4
  <2>7. PICK x \in 1 .. n + 1, y \in 1 .. n + 1 : x # y /\ f[x] = f[y]  BY <2>6
  <2>8. PendingId(x) = PendingId(y)  BY <2>2, <2>7
  <2> QED  BY <2>7, <2>8 DEF PendingId
<1>3. free \subseteq Nat  OBVIOUS
<1>4. PICK k \in free : \A j \in free : k <= j  BY <1>2, <1>3, SmallestOf
<1>5. \A j \in 1 .. k - 1 : Has(b, PendingId(j))
  <2> SUFFICES ASSUME NEW j \in 1 .. k - 1, ~Has(b, PendingId(j))  PROVE FALSE  OBVIOUS
  <2>1. k \in 1 .. n + 1  BY <1>4
  <2>2. j \in 1 .. n + 1 /\ ~(k <= j)  BY <2>1
  <2> QED  BY <1>4, <2>2
<1> DEFINE first(i) == ~Has(b, PendingId(i)) /\ \A j \in 1 .. i - 1 : Has(b, PendingId(j))
<1>6. k \in 1 .. Len(b.groups) + 1 /\ first(k)  BY <1>1, <1>4, <1>5
<1>7. PICK c : c = CHOOSE i \in 1 .. Len(b.groups) + 1 : first(i)  OBVIOUS
<1>8. c \in 1 .. Len(b.groups) + 1 /\ ~Has(b, PendingId(c))  BY <1>6, <1>7
<1>9. FreshId(b) = PendingId(c)  BY <1>7 DEF FreshId
<1>10. c \in Nat  BY <1>1, <1>8
<1> QED  BY <1>8, <1>9, <1>10

-----------------------------------------------------------------------------
(* The invariant.  A draft is well made; its marks are to be trusted; each  *)
(* tile of the player's hand is in one place; and a tile in the air that is *)
(* of the hand is still in it.                                              *)

AllIds(s) == Ids(s.groups) \cup {PendingId(k) : k \in Nat}

WellMade(s, b) ==
    /\ Distinct(b.groups, AllIds(s), TilesAt(s)) /\ NoEmptyGroup(b.groups)
    /\ IsABag(b.rack) /\ BagToSet(b.rack) \subseteq TilesAt(s)
    /\ \A j \in b.recovered : IsJoker(j) /\ j \in BagToSet(b.rack)

Marked(s, b) ==
    /\ \A g \in ToSet(b.groups) : g.id \notin b.pending => g \in ToSet(s.groups)
    /\ ~s.melded => /\ \A g \in ToSet(s.groups) : g \in ToSet(b.groups)
                    /\ \A id \in b.pending : IsPendingId(id)

HeldOnce(s, b) == \A t \in s.rack : Copies(t, b.rack) + Count(b.groups, t) = 1

\* A tile in the air that was taken from the rack is still in it, unless the draft
\* was put back since and the tile is one of the table.
InHand(s, b, t) == BagIn(t, b.rack) \/ (b = FreshDraft(s) /\ t \notin s.rack)

DragOK(s, b, d) ==
    \/ d = NoDrag
    \/ /\ d.kind = "rack" /\ d.tile \in TilesAt(s) /\ InHand(s, b, d.tile)
    \/ /\ d.kind = "table" /\ d.tile \in TilesAt(s) /\ d.index \in Nat \ {0}

DraftInv ==
    /\ start \in Starts
    /\ WellMade(start, board) /\ Marked(start, board) /\ HeldOnce(start, board)
    /\ DragOK(start, board, drag)

\* The assumption on the turns, in the terms of the invariant.
LEMMA StartFacts ==
    ASSUME NEW s \in Starts
    PROVE  /\ Distinct(s.groups, AllIds(s), TilesAt(s)) /\ NoEmptyGroup(s.groups)
           /\ \A g \in ToSet(s.groups) : ~IsPendingId(g.id)
           /\ \A g, h \in ToSet(s.groups) : \A i \in 1 .. Len(g.tiles), j \in 1 .. Len(h.tiles) :
                 g.tiles[i] = h.tiles[j] => g = h /\ i = j
           /\ s.rack \cap ToSet(TilesOf(s.groups)) = {}
           /\ \A t : t \in ToSet(TilesOf(s.groups))
                <=> \E g \in ToSet(s.groups) : \E j \in 1 .. Len(g.tiles) : g.tiles[j] = t
<1> DEFINE I0 == {s.groups[i].id : i \in 1 .. Len(s.groups)}
           T0 == ToSet(TilesOf(s.groups))
<1>1. /\ s.groups \in Seq(GroupsOver(I0, T0))
      /\ GroupIdUnique(s.groups) /\ NoEmptyGroup(s.groups)
      /\ \A g, h \in ToSet(s.groups) : \A i \in 1 .. Len(g.tiles), j \in 1 .. Len(h.tiles) :
            g.tiles[i] = h.tiles[j] => g = h /\ i = j
      /\ \A g \in ToSet(s.groups) : ~IsPendingId(g.id)
      /\ s.rack \cap T0 = {}
  BY StartsAssumption DEF GroupsOver
<1>2. GroupsOver(I0, T0) \subseteq GroupsOver(AllIds(s), TilesAt(s))
  <2>1. I0 \subseteq AllIds(s)  BY DEF AllIds, Ids
  <2>2. T0 \subseteq TilesAt(s)  BY DEF TilesAt
  <2> HIDE DEF I0, T0
  <2>3. Seq(T0) \subseteq Seq(TilesAt(s))  BY <2>2
  <2> QED  BY <2>1, <2>3 DEF GroupsOver
<1>3. Distinct(s.groups, AllIds(s), TilesAt(s))
  <2>1. s.groups \in Seq(GroupsOver(AllIds(s), TilesAt(s)))  BY <1>1, <1>2, SeqMonotonic
  <2> QED  BY <1>1, <2>1 DEF Distinct
<1>4. \A t : t \in T0 <=> \E g \in ToSet(s.groups) : \E j \in 1 .. Len(g.tiles) : g.tiles[j] = t
  <2>1. s.groups \in Seq(GroupsOver(I0, T0))  BY <1>1
  <2> QED  BY <2>1, TilesOfProperties
<1> QED  BY <1>1, <1>3, <1>4

\* Each tile of the table lies in one place when the turn starts.
LEMMA CountBegun ==
    ASSUME NEW s \in Starts, NEW t
    PROVE  Count(s.groups, t) = IF t \in ToSet(TilesOf(s.groups)) THEN 1 ELSE 0
<1> DEFINE G == ToSet(s.groups)
<1>1. CASE t \in ToSet(TilesOf(s.groups))
  <2>1. PICK g \in G : \E j \in 1 .. Len(g.tiles) : g.tiles[j] = t  BY <1>1, StartFacts
  <2>2. PICK j \in 1 .. Len(g.tiles) : g.tiles[j] = t  BY <2>1
  <2>3. ASSUME NEW p \in Places(G, t)  PROVE p = <<g.id, j>>
    <3>1. PICK h \in G : \E i \in 1 .. Len(h.tiles) : h.tiles[i] = t /\ p = <<h.id, i>>
      BY PlacesMembers
    <3>2. PICK i \in 1 .. Len(h.tiles) : h.tiles[i] = t /\ p = <<h.id, i>>  BY <3>1
    <3>3. h = g /\ i = j  BY <2>2, <3>2, StartFacts
    <3> QED  BY <3>2, <3>3
  <2>4. <<g.id, j>> \in Places(G, t)  BY <2>2, PlacesMembers
  <2>5. Places(G, t) = {<<g.id, j>>}  BY <2>3, <2>4
  <2>6. Cardinality({<<g.id, j>>}) = 1  BY FS_Singleton
  <2> QED  BY <1>1, <2>5, <2>6 DEF Count
<1>2. CASE t \notin ToSet(TilesOf(s.groups))
  <2>1. Places(G, t) = {}
    <3> SUFFICES ASSUME NEW p \in Places(G, t)  PROVE FALSE  OBVIOUS
    <3>1. PICK h \in G : \E i \in 1 .. Len(h.tiles) : h.tiles[i] = t /\ p = <<h.id, i>>
      BY PlacesMembers
    <3> QED  BY <1>2, <3>1, StartFacts
  <2> QED  BY <1>2, <2>1, FS_EmptySet DEF Count
<1> QED  BY <1>1, <1>2

\* Where a turn starts, and where undo and a rollback go back to.
LEMMA FreshDraftOK ==
    ASSUME NEW s \in Starts
    PROVE  WellMade(s, FreshDraft(s)) /\ Marked(s, FreshDraft(s)) /\ HeldOnce(s, FreshDraft(s))
<1>1. PICK b : b = FreshDraft(s)  OBVIOUS
<1>2. /\ b.groups = s.groups /\ b.pending = {} /\ b.rack = SetToBag(s.rack)
      /\ b.recovered = {}
  BY <1>1 DEF FreshDraft
<1>3. WellMade(s, b)
  <2>1. Distinct(b.groups, AllIds(s), TilesAt(s)) /\ NoEmptyGroup(b.groups)
    BY <1>2, StartFacts
  <2>2. IsABag(b.rack) /\ BagToSet(b.rack) = s.rack  BY <1>2, CopiesBegun
  <2> QED  BY <1>2, <2>1, <2>2 DEF WellMade, TilesAt
<1>4. Marked(s, b)  BY <1>2 DEF Marked
<1>5. HeldOnce(s, b)
  <2> SUFFICES ASSUME NEW t \in s.rack  PROVE Copies(t, b.rack) + Count(b.groups, t) = 1
    BY DEF HeldOnce
  <2>1. Copies(t, b.rack) = 1  BY <1>2, CopiesBegun
  <2>2. t \notin ToSet(TilesOf(s.groups))  BY StartFacts
  <2>3. Count(b.groups, t) = 0  BY <1>2, <2>2, CountBegun
  <2> QED  BY <2>1, <2>3
<1> QED  BY <1>1, <1>3, <1>4, <1>5

\* What has to be seen of a change to trust the marks after it.
LEMMA StillMarked ==
    ASSUME NEW s \in Starts, NEW b, Marked(s, b), NEW n,
           \A h \in ToSet(n.groups) : h.id \notin n.pending =>
              h \in ToSet(s.groups) \/ (h \in ToSet(b.groups) /\ h.id \notin b.pending),
           s.melded \/ \A h \in ToSet(b.groups) : ~IsPendingId(h.id) => h \in ToSet(n.groups),
           s.melded \/ \A id \in n.pending : id \in b.pending \/ IsPendingId(id)
    PROVE  Marked(s, n)
BY StartFacts DEF Marked

\* The effects of a drop on the tiles.
Laid(b, n, t) ==
    /\ n.rack = b.rack (-) SetToBag({t})
    /\ \A u : Count(n.groups, u) = Count(b.groups, u) + Is(t, u)
Returned(b, n, t) ==
    /\ n.rack = b.rack (+) SetToBag({t})
    /\ Count(b.groups, t) > 0
    /\ \A u : Count(n.groups, u) = Count(b.groups, u) - Is(t, u)
TakenFor(b, n, t, j) ==
    /\ n.rack = (b.rack (-) SetToBag({t})) (+) SetToBag({j})
    /\ ~IsJoker(t) /\ IsJoker(j) /\ Count(b.groups, j) > 0
    /\ \A u : Count(n.groups, u) = Count(b.groups, u) + Is(t, u) - Is(j, u)
Rearranged(b, n) ==
    /\ n.rack = b.rack
    /\ \A u : Count(n.groups, u) = Count(b.groups, u)

\* What is stored of a board: the groups with tiles, and so every place.
LEMMA StoredGroups ==
    ASSUME NEW I, NEW T, NEW groups, Distinct(groups, I, T)
    PROVE  /\ Distinct(NonEmpty(groups), I, T) /\ NoEmptyGroup(NonEmpty(groups))
           /\ ToSet(NonEmpty(groups)) = Kept(ToSet(groups))
           /\ \A u : Count(NonEmpty(groups), u) = Number(ToSet(groups), u)
<1>1. ToSet(groups) \subseteq GroupsOver(I, T)  BY DistinctGroups
<1>2. /\ Distinct(NonEmpty(groups), I, T) /\ NoEmptyGroup(NonEmpty(groups))
      /\ ToSet(NonEmpty(groups)) = Kept(ToSet(groups))
  BY NonEmptyProperties
<1>3. ASSUME NEW u  PROVE Count(NonEmpty(groups), u) = Number(ToSet(groups), u)
  BY <1>1, <1>2, PlacesKept DEF Count, Number
<1> QED  BY <1>2, <1>3

\* A count is a number, and the board's set of groups determines it.
LEMMA CountNat ==
    ASSUME NEW I, NEW T, NEW groups, Distinct(groups, I, T), NEW u
    PROVE  Count(groups, u) \in Nat /\ Count(groups, u) = Number(ToSet(groups), u)
BY DistinctGroups, PlacesFinite, FS_CardinalityType DEF Count, Number

-----------------------------------------------------------------------------
(* What each drop does to the draft *)

\* The rack without a tile: a bag still, with every joker that is to be placed.
LEMMA RackGives ==
    ASSUME NEW s, NEW b, WellMade(s, b), NEW t
    PROVE  /\ IsABag(RemoveFirstOccurrence(b.rack, t))
           /\ BagToSet(RemoveFirstOccurrence(b.rack, t)) \subseteq TilesAt(s)
           /\ \A j \in b.recovered \ {t} :
                 IsJoker(j) /\ j \in BagToSet(RemoveFirstOccurrence(b.rack, t))
<1>1. IsABag(b.rack) /\ BagToSet(b.rack) \subseteq TilesAt(s)  BY DEF WellMade
<1>2. PICK B : B = RemoveFirstOccurrence(b.rack, t)  OBVIOUS
<1>3. B = b.rack (-) SetToBag({t})  BY <1>2 DEF RemoveFirstOccurrence
<1>4. /\ IsABag(B) /\ BagToSet(B) \subseteq BagToSet(b.rack)
      /\ \A u : u # t => Copies(u, B) = Copies(u, b.rack)
  BY <1>1, <1>3, CopiesLess
<1>5. ASSUME NEW j \in b.recovered \ {t}  PROVE IsJoker(j) /\ j \in BagToSet(B)
  <2>1. IsJoker(j) /\ j \in BagToSet(b.rack) /\ j # t  BY DEF WellMade
  <2>2. Copies(j, b.rack) > 0  BY <1>1, <2>1, CopiesNat
  <2>3. Copies(j, B) > 0  BY <1>4, <2>1, <2>2
  <2> QED  BY <1>4, <2>1, <2>3, CopiesNat
<1> QED  BY <1>1, <1>2, <1>4, <1>5

\* What is used of a well made draft.
LEMMA BoardFacts ==
    ASSUME NEW s, NEW b, WellMade(s, b)
    PROVE  /\ Distinct(b.groups, AllIds(s), TilesAt(s))
           /\ ToSet(b.groups) \subseteq GroupsOver(AllIds(s), TilesAt(s))
           /\ Apart(ToSet(b.groups)) /\ IsFiniteSet(ToSet(b.groups))
           /\ \A h \in ToSet(b.groups) : h.tiles # <<>> /\ h.tiles \in Seq(TilesAt(s))
           /\ \A id : Has(b, id) <=> \E g \in ToSet(b.groups) : g.id = id
           /\ \A g \in ToSet(b.groups) : TilesIn(b, g.id) = g.tiles
<1>1. Distinct(b.groups, AllIds(s), TilesAt(s)) /\ NoEmptyGroup(b.groups)  BY DEF WellMade
<1>2. /\ ToSet(b.groups) \subseteq GroupsOver(AllIds(s), TilesAt(s))
      /\ Apart(ToSet(b.groups)) /\ IsFiniteSet(ToSet(b.groups))
      /\ \A id : Has(b, id) <=> \E g \in ToSet(b.groups) : g.id = id
  BY <1>1, DistinctGroups DEF Has
<1>3. \A h \in ToSet(b.groups) : h.tiles # <<>>
  <2>1. b.groups \in Seq(GroupsOver(AllIds(s), TilesAt(s)))  BY <1>1 DEF Distinct
  <2> QED  BY <1>1, <2>1 DEF NoEmptyGroup, ToSet
<1>4. \A h \in ToSet(b.groups) : h.tiles \in Seq(TilesAt(s))  BY <1>2 DEF GroupsOver
<1>5. \A g \in ToSet(b.groups) : TilesIn(b, g.id) = g.tiles  BY <1>1, TilesInGroup
<1> QED  BY <1>1, <1>2, <1>3, <1>4, <1>5

\* The groups of a draft whose group g has other tiles now.
LEMMA GroupStored ==
    ASSUME NEW s, NEW b, WellMade(s, b), NEW g \in ToSet(b.groups), NEW ts \in Seq(TilesAt(s)),
           NEW w, w = WithTiles(b.groups, g.id, ts)
    PROVE  /\ Distinct(w, AllIds(s), TilesAt(s)) /\ ToSet(w) = Replaced(ToSet(b.groups), g, ts)
           /\ Distinct(NonEmpty(w), AllIds(s), TilesAt(s)) /\ NoEmptyGroup(NonEmpty(w))
           /\ ToSet(NonEmpty(w)) = Kept(Replaced(ToSet(b.groups), g, ts))
           /\ \A u : Count(NonEmpty(w), u) = Number(Replaced(ToSet(b.groups), g, ts), u)
<1>1. Distinct(w, AllIds(s), TilesAt(s)) /\ ToSet(w) = Replaced(ToSet(b.groups), g, ts)
  BY BoardFacts, WithTilesProperties
<1>2. /\ Distinct(NonEmpty(w), AllIds(s), TilesAt(s)) /\ NoEmptyGroup(NonEmpty(w))
      /\ ToSet(NonEmpty(w)) = Kept(ToSet(w))
      /\ \A u : Count(NonEmpty(w), u) = Number(ToSet(w), u)
  BY <1>1, StoredGroups
<1> QED  BY <1>1, <1>2

\* A group that may be changed carries the mark afterwards.
LEMMA MarkedReplaced ==
    ASSUME NEW s \in Starts, NEW b, Marked(s, b), NEW g \in ToSet(b.groups), NEW ts,
           s.melded \/ g.id \in b.pending,
           \A h \in ToSet(b.groups) : h.tiles # <<>>,
           NEW n, ToSet(n.groups) = Kept(Replaced(ToSet(b.groups), g, ts)),
           n.pending = b.pending \cup {g.id}
    PROVE  Marked(s, n)
<1>1. ~s.melded => IsPendingId(g.id)  BY DEF Marked
<1>2. ASSUME NEW h \in ToSet(n.groups), h.id \notin n.pending
      PROVE  h \in ToSet(b.groups) /\ h.id \notin b.pending
  BY <1>2 DEF Kept, Replaced
<1>3. ASSUME ~s.melded, NEW h \in ToSet(b.groups), ~IsPendingId(h.id)
      PROVE  h \in ToSet(n.groups)
  BY <1>1, <1>3 DEF Kept, Replaced
<1>4. s.melded \/ \A id \in n.pending : id \in b.pending \/ IsPendingId(id)  BY <1>1
<1> QED  BY <1>2, <1>3, <1>4, StillMarked

\* A tile is laid to a group that may be changed.
LEMMA Append2OK ==
    ASSUME NEW s \in Starts, NEW b, WellMade(s, b), Marked(s, b),
           NEW id, Has(b, id), s.melded \/ id \in b.pending, NEW t \in TilesAt(s)
    PROVE  /\ WellMade(s, Append2(b, id, t)) /\ Marked(s, Append2(b, id, t))
           /\ Laid(b, Append2(b, id, t), t)
<1> DEFINE G == ToSet(b.groups)
<1>1. PICK g \in G : g.id = id  BY BoardFacts
<1>2. TilesIn(b, id) = g.tiles /\ g.tiles \in Seq(TilesAt(s))  BY <1>1, BoardFacts
<1>3. PICK ts : ts = Append(g.tiles, t)  OBVIOUS
<1>4. ts \in Seq(TilesAt(s))  BY <1>2, <1>3
<1>5. PICK w : w = WithTiles(b.groups, g.id, ts)  OBVIOUS
<1>6. PICK n : n = Append2(b, id, t)  OBVIOUS
<1>7. /\ n.groups = NonEmpty(w) /\ n.pending = b.pending \cup {g.id}
      /\ n.rack = RemoveFirstOccurrence(b.rack, t) /\ n.recovered = b.recovered \ {t}
  BY <1>1, <1>2, <1>3, <1>5, <1>6 DEF Append2, Store
<1>8. /\ Distinct(n.groups, AllIds(s), TilesAt(s)) /\ NoEmptyGroup(n.groups)
      /\ ToSet(n.groups) = Kept(Replaced(G, g, ts))
      /\ \A u : Count(n.groups, u) = Number(Replaced(G, g, ts), u)
  BY <1>4, <1>5, <1>7, GroupStored
<1>9. WellMade(s, n)  BY <1>7, <1>8, RackGives DEF WellMade
<1>10. Marked(s, n)
  <2>1. \A h \in G : h.tiles # <<>>  BY BoardFacts
  <2> QED  BY <1>1, <1>7, <1>8, <2>1, MarkedReplaced
<1>11. Laid(b, n, t)
  <2>1. G \in SUBSET GroupsOver(AllIds(s), TilesAt(s)) /\ IsFiniteSet(G) /\ Apart(G)
    BY BoardFacts
  <2>2. \A u : Count(b.groups, u) = Number(G, u)  BY BoardFacts, CountNat
  <2> HIDE DEF G
  <2>3. ASSUME NEW u  PROVE Count(n.groups, u) = Count(b.groups, u) + Is(t, u)
    <3>1. Number(Replaced(G, g, Append(g.tiles, t)), u) = Number(G, u) + Is(t, u)
      BY <2>1, NumberAppended
    <3> QED  BY <1>3, <1>8, <2>2, <3>1
  <2> QED  BY <1>7, <2>3 DEF Laid, RemoveFirstOccurrence
<1> QED  BY <1>6, <1>9, <1>10, <1>11

\* A tile opens a group.
LEMMA OpenGroupOK ==
    ASSUME NEW s \in Starts, NEW b, WellMade(s, b), Marked(s, b), NEW t \in TilesAt(s)
    PROVE  /\ WellMade(s, OpenGroup(b, t)) /\ Marked(s, OpenGroup(b, t))
           /\ Laid(b, OpenGroup(b, t), t)
<1> DEFINE G == ToSet(b.groups)
<1>1. PICK id : id = FreshId(b)  OBVIOUS
<1>2. id \in AllIds(s) /\ IsPendingId(id) /\ ~Has(b, id)
  <2>1. b.groups \in Seq(GroupsOver(AllIds(s), TilesAt(s)))  BY BoardFacts DEF Distinct
  <2>2. PICK k \in Nat : id = PendingId(k) /\ ~Has(b, id)  BY <1>1, <2>1, FreshIdProperties
  <2> QED  BY <2>2 DEF AllIds, IsPendingId, PendingId
<1>3. PICK g : g = [id |-> id, tiles |-> <<t>>]  OBVIOUS
<1>4. g \in GroupsOver(AllIds(s), TilesAt(s)) /\ g.id = id /\ g.tiles # <<>>
  BY <1>2, <1>3 DEF GroupsOver
<1>5. PICK w : w = Append(b.groups, g)  OBVIOUS
<1>6. Distinct(w, AllIds(s), TilesAt(s)) /\ ToSet(w) = G \cup {g}
  BY <1>2, <1>4, <1>5, BoardFacts, AppendGroup DEF Has
<1>7. PICK n : n = OpenGroup(b, t)  OBVIOUS
<1>8. /\ n.groups = NonEmpty(w) /\ n.pending = b.pending \cup {id}
      /\ n.rack = RemoveFirstOccurrence(b.rack, t) /\ n.recovered = b.recovered \ {t}
  BY <1>1, <1>3, <1>5, <1>7 DEF OpenGroup, Store
<1>9. /\ Distinct(n.groups, AllIds(s), TilesAt(s)) /\ NoEmptyGroup(n.groups)
      /\ ToSet(n.groups) = Kept(G \cup {g})
      /\ \A u : Count(n.groups, u) = Number(G \cup {g}, u)
  <2>1. /\ Distinct(NonEmpty(w), AllIds(s), TilesAt(s)) /\ NoEmptyGroup(NonEmpty(w))
        /\ ToSet(NonEmpty(w)) = Kept(ToSet(w))
        /\ \A u : Count(NonEmpty(w), u) = Number(ToSet(w), u)
    BY <1>6, StoredGroups
  <2> QED  BY <1>6, <1>8, <2>1
<1>10. WellMade(s, n)  BY <1>8, <1>9, RackGives DEF WellMade
<1>11. Marked(s, n)
  <2>1. \A h \in ToSet(n.groups) : h.id \notin n.pending => h \in G /\ h.id \notin b.pending
    BY <1>4, <1>8, <1>9 DEF Kept
  <2>2. \A h \in G : h \in ToSet(n.groups)  BY <1>9, BoardFacts DEF Kept
  <2> QED  BY <1>2, <1>8, <2>1, <2>2, StillMarked
<1>12. Laid(b, n, t)
  <2>1. /\ G \in SUBSET GroupsOver(AllIds(s), TilesAt(s)) /\ IsFiniteSet(G)
        /\ \A h \in G : h.id # id
    BY <1>2, BoardFacts
  <2>2. \A u : Count(b.groups, u) = Number(G, u)  BY BoardFacts, CountNat
  <2> HIDE DEF G
  <2>3. ASSUME NEW u  PROVE Count(n.groups, u) = Count(b.groups, u) + Is(t, u)
    <3>1. g.tiles = <<t>> /\ \A h \in G : h.id # g.id  BY <1>3, <2>1
    <3>2. Number(G \cup {g}, u) = Number(G, u) + Is(t, u)  BY <2>1, <3>1, NumberOpened
    <3> QED  BY <1>9, <2>2, <3>2
  <2> QED  BY <1>8, <2>3 DEF Laid, RemoveFirstOccurrence
<1> QED  BY <1>7, <1>10, <1>11, <1>12

\* Where a tile of the table was taken, when it is still there.
LEMMA TakenFacts ==
    ASSUME NEW s, NEW b, WellMade(s, b), NEW d, d.index \in Nat \ {0}, AtSource(b, d)
    PROVE  \E g \in ToSet(b.groups) :
              /\ g.id = d.group /\ d.index \in 1 .. Len(g.tiles) /\ g.tiles[d.index] = d.tile
              /\ RemoveAt(g.tiles, d.index) \in Seq(TilesAt(s))
              /\ Taken(b, d) = WithTiles(b.groups, g.id, RemoveAt(g.tiles, d.index))
              /\ d.tile \in TilesAt(s)
<1>1. PICK g \in ToSet(b.groups) : g.id = d.group  BY BoardFacts DEF AtSource
<1>2. TilesIn(b, d.group) = g.tiles /\ g.tiles \in Seq(TilesAt(s))  BY <1>1, BoardFacts
<1>3. d.index <= Len(g.tiles) /\ g.tiles[d.index] = d.tile  BY <1>2 DEF AtSource
<1>4. d.index \in 1 .. Len(g.tiles)  BY <1>2, <1>3
<1>5. RemoveAt(g.tiles, d.index) \in Seq(TilesAt(s))  BY <1>2, <1>4, RemoveAtProperties
<1>6. Taken(b, d) = WithTiles(b.groups, g.id, RemoveAt(g.tiles, d.index))
  BY <1>1, <1>2 DEF Taken
<1>7. d.tile \in TilesAt(s)  BY <1>2, <1>3, <1>4
<1> QED  BY <1>1, <1>3, <1>4, <1>5, <1>6, <1>7

\* Only what is laid in this turn is given back.
LEMMA GivenBack ==
    ASSUME NEW s \in Starts, NEW b, WellMade(s, b), Marked(s, b),
           NEW g \in ToSet(b.groups), g.id \in b.pending,
           NEW i \in 1 .. Len(g.tiles), NEW n,
           n.groups = NonEmpty(WithTiles(b.groups, g.id, RemoveAt(g.tiles, i))),
           n.rack = b.rack (+) SetToBag({g.tiles[i]}), n.recovered = b.recovered,
           n.pending \subseteq b.pending,
           \A h \in ToSet(n.groups) : h.id \in b.pending \ n.pending => h \in ToSet(s.groups)
    PROVE  WellMade(s, n) /\ Marked(s, n) /\ Returned(b, n, g.tiles[i])
<1> DEFINE G == ToSet(b.groups)
<1>1. g.tiles \in Seq(TilesAt(s))  BY BoardFacts
<1>2. PICK ts : ts = RemoveAt(g.tiles, i)  OBVIOUS
<1>3. ts \in Seq(TilesAt(s)) /\ g.tiles[i] \in TilesAt(s)  BY <1>1, <1>2, RemoveAtProperties
<1>4. /\ Distinct(n.groups, AllIds(s), TilesAt(s)) /\ NoEmptyGroup(n.groups)
      /\ ToSet(n.groups) = Kept(Replaced(G, g, ts))
      /\ \A u : Count(n.groups, u) = Number(Replaced(G, g, ts), u)
  BY <1>2, <1>3, GroupStored
<1>5. WellMade(s, n)
  <2>1. IsABag(b.rack) /\ BagToSet(b.rack) \subseteq TilesAt(s)  BY DEF WellMade
  <2>2. IsABag(n.rack) /\ BagToSet(n.rack) = BagToSet(b.rack) \cup {g.tiles[i]}
    <3>1. PICK t : t = g.tiles[i]  OBVIOUS
    <3>2. /\ IsABag(b.rack (+) SetToBag({t}))
          /\ BagToSet(b.rack (+) SetToBag({t})) = BagToSet(b.rack) \cup {t}
      BY <2>1, CopiesMore
    <3> QED  BY <3>1, <3>2
  <2> QED  BY <1>3, <1>4, <2>1, <2>2 DEF WellMade
<1>6. Marked(s, n)
  <2>1. \A h \in ToSet(n.groups) : h.id \notin n.pending =>
           h \in ToSet(s.groups) \/ (h \in G /\ h.id \notin b.pending)
    BY <1>4 DEF Kept, Replaced
  <2>2. ASSUME ~s.melded, NEW h \in G, ~IsPendingId(h.id)  PROVE h \in ToSet(n.groups)
    <3>1. IsPendingId(g.id)  BY <2>2 DEF Marked
    <3>2. h \in Replaced(G, g, ts)  BY <2>2, <3>1 DEF Replaced
    <3> QED  BY <1>4, <3>2, BoardFacts DEF Kept
  <2> QED  BY <2>1, <2>2, StillMarked
<1>7. Returned(b, n, g.tiles[i])
  <2>1. G \in SUBSET GroupsOver(AllIds(s), TilesAt(s)) /\ IsFiniteSet(G) /\ Apart(G)
    BY BoardFacts
  <2>2. \A u : Count(b.groups, u) = Number(G, u)  BY BoardFacts, CountNat
  <2> HIDE DEF G
  <2>3. \A u : /\ Number(Replaced(G, g, RemoveAt(g.tiles, i)), u) = Number(G, u) - Is(g.tiles[i], u)
               /\ Number(G, g.tiles[i]) > 0
    BY <2>1, NumberRemoved DEF G
  <2> QED  BY <1>2, <1>4, <2>2, <2>3 DEF Returned
<1> QED  BY <1>5, <1>6, <1>7

Sound(s, b) == WellMade(s, b) /\ Marked(s, b)

\* From the table to the rack.
LEMMA TableToRackOK ==
    ASSUME start \in Starts, NEW b, Sound(start, b), NEW d, d.index \in Nat \ {0}
    PROVE  LET n == TableToRack(b, d).board
           IN  n = b \/ (Sound(start, n) /\ Returned(b, n, d.tile))
<1>1. CASE ~IsPending(b, d.group) \/ ~AtSource(b, d)
  BY <1>1 DEF TableToRack, Ignored
<1>2. CASE IsPending(b, d.group) /\ AtSource(b, d)
  <2>1. PICK g \in ToSet(b.groups) :
              /\ g.id = d.group /\ d.index \in 1 .. Len(g.tiles) /\ g.tiles[d.index] = d.tile
              /\ RemoveAt(g.tiles, d.index) \in Seq(TilesAt(start))
              /\ Taken(b, d) = WithTiles(b.groups, g.id, RemoveAt(g.tiles, d.index))
    BY <1>2, TakenFacts DEF Sound
  <2>2. PICK w : w = Taken(b, d)  OBVIOUS
  <2>3. PICK m : m = Store(w, Living(b.pending, w), b.rack (+) SetToBag({d.tile}), b.recovered)
    OBVIOUS
  <2>4. PICK n : n = [m EXCEPT !.pending = {id \in @ : ~Restored(m, id)}]  OBVIOUS
  <2>5. TableToRack(b, d).board = n  BY <1>2, <2>2, <2>3, <2>4 DEF TableToRack, Done
  <2>6. /\ m.groups = NonEmpty(w)
        /\ n.groups = NonEmpty(w) /\ n.rack = b.rack (+) SetToBag({d.tile})
        /\ n.recovered = b.recovered
        /\ \A id : id \in n.pending
                     <=> id \in b.pending /\ id \in Ids(NonEmpty(w)) /\ ~Restored(m, id)
    BY <2>3, <2>4 DEF Store, Living
  <2>7. Distinct(NonEmpty(w), AllIds(start), TilesAt(start))  BY <2>1, <2>2, GroupStored DEF Sound
  <2>8. ASSUME NEW h \in ToSet(n.groups), h.id \in b.pending \ n.pending
        PROVE  h \in ToSet(start.groups)
    <3>1. h.id \in Ids(NonEmpty(w))  BY <2>6, <2>7, DistinctGroups
    <3>2. Restored(m, h.id)  BY <2>6, <2>8, <3>1
    <3>3. TilesIn(m, h.id) = h.tiles  BY <2>6, <2>7, TilesInGroup
    <3>4. PICK i \in 1 .. Len(start.groups) :
             start.groups[i].id = h.id /\ start.groups[i].tiles = h.tiles
      BY <3>2, <3>3 DEF Restored
    <3>5. start.groups[i] \in ToSet(start.groups)
          /\ start.groups[i] \in GroupsOver(AllIds(start), TilesAt(start))
      <4>1. start.groups \in Seq(GroupsOver(AllIds(start), TilesAt(start)))
        BY StartFacts DEF Distinct
      <4> QED  BY <4>1 DEF ToSet
    <3>6. h \in GroupsOver(AllIds(start), TilesAt(start))  BY <2>6, <2>7, DistinctGroups
    <3>7. h = start.groups[i]  BY <3>4, <3>5, <3>6 DEF GroupsOver
    <3> QED  BY <3>5, <3>7
  <2>9. n.pending \subseteq b.pending  BY <2>6
  <2>10. WellMade(start, b) /\ Marked(start, b) /\ g.id \in b.pending
    BY <1>2, <2>1 DEF Sound, IsPending
  <2>11. n.groups = NonEmpty(WithTiles(b.groups, g.id, RemoveAt(g.tiles, d.index)))
         /\ n.rack = b.rack (+) SetToBag({g.tiles[d.index]})
    BY <2>1, <2>2, <2>6
  <2>12. WellMade(start, n) /\ Marked(start, n) /\ Returned(b, n, g.tiles[d.index])
    BY <2>1, <2>6, <2>8, <2>9, <2>10, <2>11, GivenBack
  <2> QED  BY <2>1, <2>5, <2>12 DEF Sound
<1> QED  BY <1>1, <1>2

\* From the table to a group of its own.
LEMMA SplitOK ==
    ASSUME NEW s \in Starts, NEW b, Sound(s, b), NEW d, d.index \in Nat \ {0}
    PROVE  LET n == SplitToNewGroup(b, d, s.melded).board
           IN  n = b \/ (Sound(s, n) /\ Rearranged(b, n))
<1> DEFINE G == ToSet(b.groups)
<1>1. CASE ~AtSource(b, d) \/ (~IsPending(b, d.group) /\ ~s.melded)
  BY <1>1 DEF SplitToNewGroup, Refused
<1>2. CASE AtSource(b, d) /\ (IsPending(b, d.group) \/ s.melded)
  <2>0. WellMade(s, b) /\ Marked(s, b)  BY DEF Sound
  <2>1. PICK g \in ToSet(b.groups) :
              /\ g.id = d.group /\ d.index \in 1 .. Len(g.tiles) /\ g.tiles[d.index] = d.tile
              /\ RemoveAt(g.tiles, d.index) \in Seq(TilesAt(s))
              /\ Taken(b, d) = WithTiles(b.groups, g.id, RemoveAt(g.tiles, d.index))
              /\ d.tile \in TilesAt(s)
    BY <1>2, <2>0, TakenFacts
  <2>2. PICK ts : ts = RemoveAt(g.tiles, d.index)  OBVIOUS
  <2>3. PICK w : w = Taken(b, d)  OBVIOUS
  <2>4. Distinct(w, AllIds(s), TilesAt(s)) /\ ToSet(w) = Replaced(G, g, ts)
    BY <2>0, <2>1, <2>2, <2>3, GroupStored
  <2>5. PICK f : f = [id |-> FreshId(b), tiles |-> <<d.tile>>]  OBVIOUS
  <2>6. f.id = FreshId(b) /\ f.id \in AllIds(s) /\ IsPendingId(f.id) /\ ~Has(b, f.id)
    <3>1. b.groups \in Seq(GroupsOver(AllIds(s), TilesAt(s)))  BY <2>0, BoardFacts DEF Distinct
    <3>2. PICK k \in Nat : FreshId(b) = PendingId(k) /\ ~Has(b, FreshId(b))
      BY <3>1, FreshIdProperties
    <3> QED  BY <2>5, <3>2 DEF AllIds, IsPendingId, PendingId
  <2>7. f \in GroupsOver(AllIds(s), TilesAt(s)) /\ f.tiles = <<d.tile>> /\ f.tiles # <<>>
    BY <2>1, <2>5, <2>6 DEF GroupsOver
  <2>8. \A h \in G : h.id # f.id  BY <2>0, <2>6, BoardFacts
  <2>9. \A h \in ToSet(w) : h.id # f.id  BY <2>1, <2>4, <2>8 DEF Replaced
  <2>10. f.id \notin Ids(w)  BY <2>4, <2>9, DistinctGroups
  <2>11. PICK a : a = Append(w, f)  OBVIOUS
  <2>12. Distinct(a, AllIds(s), TilesAt(s)) /\ ToSet(a) = ToSet(w) \cup {f}
    BY <2>4, <2>7, <2>10, <2>11, AppendGroup
  <2>13. PICK n : n = Store(a, Living(b.pending \cup {d.group, f.id}, a), b.rack, b.recovered)
    OBVIOUS
  <2>14. SplitToNewGroup(b, d, s.melded).board \in {b, n}
    BY <1>2, <2>3, <2>5, <2>6, <2>11, <2>13 DEF SplitToNewGroup, Done, Refused
  <2>15. /\ n.groups = NonEmpty(a) /\ n.rack = b.rack /\ n.recovered = b.recovered
         /\ \A id : id \in n.pending
                      <=> id \in b.pending \cup {g.id, f.id} /\ id \in Ids(NonEmpty(a))
    BY <2>1, <2>13 DEF Store, Living
  <2>16. /\ Distinct(n.groups, AllIds(s), TilesAt(s)) /\ NoEmptyGroup(n.groups)
         /\ ToSet(n.groups) = Kept(Replaced(G, g, ts) \cup {f})
         /\ \A u : Count(n.groups, u) = Number(Replaced(G, g, ts) \cup {f}, u)
    <3>1. /\ Distinct(NonEmpty(a), AllIds(s), TilesAt(s)) /\ NoEmptyGroup(NonEmpty(a))
          /\ ToSet(NonEmpty(a)) = Kept(ToSet(a))
          /\ \A u : Count(NonEmpty(a), u) = Number(ToSet(a), u)
      BY <2>12, StoredGroups
    <3> QED  BY <2>4, <2>12, <2>15, <3>1
  <2>17. WellMade(s, n)  BY <2>0, <2>15, <2>16 DEF WellMade
  <2>18. Marked(s, n)
    <3>1. \A h \in ToSet(n.groups) : h.id \notin n.pending => h \in G /\ h.id \notin b.pending
      <4>1. \A h \in ToSet(n.groups) : h.id \in Ids(NonEmpty(a))
        BY <2>15, <2>16, DistinctGroups
      <4> QED  BY <2>15, <2>16, <4>1 DEF Kept, Replaced
    <3>2. ~s.melded => IsPendingId(g.id)  BY <1>2, <2>0, <2>1 DEF Marked, IsPending
    <3>3. ASSUME ~s.melded, NEW h \in G, ~IsPendingId(h.id)  PROVE h \in ToSet(n.groups)
      <4>1. h \in Replaced(G, g, ts)  BY <3>2, <3>3 DEF Replaced
      <4> QED  BY <2>0, <2>16, <4>1, BoardFacts DEF Kept
    <3>4. s.melded \/ \A id \in n.pending : id \in b.pending \/ IsPendingId(id)
      BY <2>6, <2>15, <3>2
    <3> QED  BY <2>0, <3>1, <3>3, <3>4, StillMarked
  <2>19. Rearranged(b, n)
    <3>1. /\ G \in SUBSET GroupsOver(AllIds(s), TilesAt(s)) /\ IsFiniteSet(G) /\ Apart(G)
          /\ \A u : Count(b.groups, u) = Number(G, u)
      BY <2>0, BoardFacts, CountNat
    <3>2. PICK H : H = Replaced(G, g, ts)  OBVIOUS
    <3>3. H \in SUBSET GroupsOver(AllIds(s), TilesAt(s)) /\ IsFiniteSet(H)
          /\ \A h \in H : h.id # f.id
      BY <2>4, <2>9, <3>2, DistinctGroups
    <3> HIDE DEF G
    <3>4. ASSUME NEW u  PROVE Count(n.groups, u) = Count(b.groups, u)
      <4>1. Number(Replaced(G, g, RemoveAt(g.tiles, d.index)), u)
              = Number(G, u) - Is(g.tiles[d.index], u)
        BY <2>1, <3>1, NumberRemoved DEF G
      <4>2. Number(H \cup {f}, u) = Number(H, u) + Is(d.tile, u)
        BY <2>7, <3>3, NumberOpened
      <4>3. Number(G, u) \in Nat /\ Is(d.tile, u) \in Nat
        BY <2>0, <3>1, BoardFacts, CountNat DEF Is
      <4>4. Count(n.groups, u) = Number(H \cup {f}, u)  BY <2>16, <3>2 DEF G
      <4>5. Count(b.groups, u) = Number(G, u)  BY <3>1
      <4>6. Number(H, u) = Number(G, u) - Is(d.tile, u)  BY <2>1, <2>2, <3>2, <4>1
      <4> QED  BY <4>2, <4>3, <4>4, <4>5, <4>6
    <3> QED  BY <2>15, <3>4 DEF Rearranged
  <2> QED  BY <2>14, <2>17, <2>18, <2>19 DEF Sound
<1> QED  BY <1>1, <1>2

\* From one group to another.
LEMMA TableToTableOK ==
    ASSUME NEW s \in Starts, NEW b, Sound(s, b), NEW d, d.index \in Nat \ {0}, NEW over
    PROVE  LET n == TableToTable(b, d, over, s.melded).board
           IN  n = b \/ (Sound(s, n) /\ Rearranged(b, n))
<1> DEFINE G == ToSet(b.groups)
<1>1. CASE ~s.melded \/ ~Has(b, over) \/ over = d.group \/ ~AtSource(b, d)
  BY <1>1 DEF TableToTable, Ignored
<1>2. CASE s.melded /\ Has(b, over) /\ over # d.group /\ AtSource(b, d)
  <2>0. WellMade(s, b) /\ Marked(s, b)  BY DEF Sound
  <2>1. PICK g \in ToSet(b.groups) :
              /\ g.id = d.group /\ d.index \in 1 .. Len(g.tiles) /\ g.tiles[d.index] = d.tile
              /\ RemoveAt(g.tiles, d.index) \in Seq(TilesAt(s))
              /\ Taken(b, d) = WithTiles(b.groups, g.id, RemoveAt(g.tiles, d.index))
              /\ d.tile \in TilesAt(s)
    BY <1>2, <2>0, TakenFacts
  <2>2. PICK ts : ts = RemoveAt(g.tiles, d.index)  OBVIOUS
  <2>3. PICK w : w = Taken(b, d)  OBVIOUS
  <2>4. Distinct(w, AllIds(s), TilesAt(s)) /\ ToSet(w) = Replaced(G, g, ts)
    BY <2>0, <2>1, <2>2, <2>3, GroupStored
  <2>5. PICK h \in G : h.id = over  BY <1>2, <2>0, BoardFacts
  <2>6. TilesIn(b, over) = h.tiles /\ h.tiles \in Seq(TilesAt(s))  BY <2>0, <2>5, BoardFacts
  <2>7. h # g /\ h \in ToSet(w)  BY <1>2, <2>1, <2>4, <2>5 DEF Replaced
  <2>8. PICK hs : hs = Append(h.tiles, d.tile)  OBVIOUS
  <2>9. hs \in Seq(TilesAt(s))  BY <2>1, <2>6, <2>8
  <2>10. PICK a : a = WithTiles(w, h.id, hs)  OBVIOUS
  <2>11. Distinct(a, AllIds(s), TilesAt(s)) /\ ToSet(a) = Replaced(ToSet(w), h, hs)
    BY <2>4, <2>7, <2>9, <2>10, WithTilesProperties
  <2>12. PICK n : n = Store(a, Living(b.pending \cup {d.group, over}, a), b.rack, b.recovered)
    OBVIOUS
  <2>13. TableToTable(b, d, over, s.melded).board = n
    BY <1>2, <2>3, <2>5, <2>6, <2>8, <2>10, <2>12 DEF TableToTable, Done
  <2>14. /\ n.groups = NonEmpty(a) /\ n.rack = b.rack /\ n.recovered = b.recovered
         /\ \A id : id \in n.pending
                      <=> id \in b.pending \cup {g.id, h.id} /\ id \in Ids(NonEmpty(a))
    BY <2>1, <2>5, <2>12 DEF Store, Living
  <2>15. /\ Distinct(n.groups, AllIds(s), TilesAt(s)) /\ NoEmptyGroup(n.groups)
         /\ ToSet(n.groups) = Kept(ToSet(a))
         /\ \A u : Count(n.groups, u) = Number(ToSet(a), u)
    BY <2>11, <2>14, StoredGroups
  <2>16. WellMade(s, n)  BY <2>0, <2>14, <2>15 DEF WellMade
  <2>17. Marked(s, n)
    <3>1. \A k \in ToSet(n.groups) : k.id \notin n.pending => k \in G /\ k.id \notin b.pending
      <4>1. \A k \in ToSet(n.groups) : k.id \in Ids(NonEmpty(a))
        BY <2>14, <2>15, DistinctGroups
      <4> QED  BY <2>4, <2>11, <2>14, <2>15, <4>1 DEF Kept, Replaced
    <3> QED  BY <1>2, <2>0, <3>1, StillMarked
  <2>18. Rearranged(b, n)
    <3>1. /\ G \in SUBSET GroupsOver(AllIds(s), TilesAt(s)) /\ IsFiniteSet(G) /\ Apart(G)
          /\ \A u : Count(b.groups, u) = Number(G, u)
      BY <2>0, BoardFacts, CountNat
    <3>2. PICK H : H = ToSet(w)  OBVIOUS
    <3>3. /\ H \in SUBSET GroupsOver(AllIds(s), TilesAt(s)) /\ IsFiniteSet(H) /\ Apart(H)
          /\ h \in H
      BY <2>4, <2>7, <3>2, DistinctGroups
    <3> HIDE DEF G
    <3>4. ASSUME NEW u  PROVE Count(n.groups, u) = Count(b.groups, u)
      <4>1. Number(Replaced(G, g, RemoveAt(g.tiles, d.index)), u)
              = Number(G, u) - Is(g.tiles[d.index], u)
        BY <2>1, <3>1, NumberRemoved DEF G
      <4>2. Number(Replaced(H, h, Append(h.tiles, d.tile)), u) = Number(H, u) + Is(d.tile, u)
        BY <2>1, <3>3, NumberAppended
      <4>3. Number(G, u) \in Nat /\ Is(d.tile, u) \in Nat
        BY <2>0, <3>1, BoardFacts, CountNat DEF Is
      <4>4. Count(n.groups, u) = Number(H, u) + Is(d.tile, u)
        BY <2>8, <2>11, <2>15, <3>2, <4>2
      <4>5. Count(b.groups, u) = Number(G, u)  BY <3>1
      <4>6. Number(H, u) = Number(G, u) - Is(d.tile, u)  BY <2>1, <2>2, <2>4, <3>2, <4>1 DEF G
      <4> QED  BY <4>3, <4>4, <4>5, <4>6
    <3> QED  BY <2>14, <3>4 DEF Rearranged
  <2> QED  BY <2>13, <2>16, <2>17, <2>18 DEF Sound
<1> QED  BY <1>1, <1>2

\* The hook's swap puts the tile where a joker was.
LEMMA SwapFacts ==
    ASSUME NEW T, NEW ts \in Seq(T), NEW t, HookTryJokerSwap(ts, t).ok
    PROVE  /\ ~IsJoker(t)
           /\ \E i \in 1 .. Len(ts) :
                 IsJoker(ts[i]) /\ HookTryJokerSwap(ts, t) = Swapped(ts, i, t)
<1>1. PICK at : at = SelectInSeq(ts, IsJoker)  OBVIOUS
<1>2. PICK swap : swap = HookTryJokerSwap(ts, t)  OBVIOUS
<1>3. swap # NoSwap  BY <1>2 DEF NoSwap
<1>4. ~IsJoker(t) /\ at # 0 /\ swap = Swapped(ts, at, t)
  BY <1>1, <1>2, <1>3 DEF HookTryJokerSwap
<1>5. at \in 1 .. Len(ts) /\ IsJoker(ts[at])
  <2> DEFINE J == {i \in 1 .. Len(ts) : IsJoker(ts[i])}
  <2>1. J # {} /\ at = Min(J)  BY <1>1, <1>4 DEF SelectInSeq
  <2>2. J \subseteq Nat  OBVIOUS
  <2>3. \E i \in J : \A j \in J : i <= j  BY <2>1, <2>2, SmallestOf
  <2>4. at \in J  BY <2>1, <2>3 DEF Min
  <2> QED  BY <2>4
<1> QED  BY <1>2, <1>4, <1>5

\* A joker of the table for a tile of the rack.
LEMMA JokerSwapDropOK ==
    ASSUME NEW s \in Starts, NEW b, Sound(s, b), NEW over, MaySwap(b, over, s.melded),
           NEW t \in TilesAt(s), HookTryJokerSwap(TilesIn(b, over), t).ok
    PROVE  LET n == JokerSwapDrop(b, over, t).board
           IN  Sound(s, n) /\ \E j \in TilesAt(s) : TakenFor(b, n, t, j)
<1> DEFINE G == ToSet(b.groups)
<1>0. WellMade(s, b) /\ Marked(s, b)  BY DEF Sound
<1>1. PICK g \in G : g.id = over  BY <1>0, BoardFacts DEF MaySwap
<1>2. TilesIn(b, over) = g.tiles /\ g.tiles \in Seq(TilesAt(s))  BY <1>0, <1>1, BoardFacts
<1>3. PICK i \in 1 .. Len(g.tiles) :
         IsJoker(g.tiles[i]) /\ HookTryJokerSwap(g.tiles, t) = Swapped(g.tiles, i, t)
  BY <1>2, SwapFacts
<1>4. ~IsJoker(t)  BY <1>2, SwapFacts
<1>5. PICK j : j = g.tiles[i]  OBVIOUS
<1>6. j \in TilesAt(s) /\ j # t /\ IsJoker(j)  BY <1>2, <1>3, <1>4, <1>5
<1>7. PICK ts : ts = [g.tiles EXCEPT ![i] = t]  OBVIOUS
<1>8. ts \in Seq(TilesAt(s))  BY <1>2, <1>7
<1>9. PICK w : w = WithTiles(b.groups, g.id, ts)  OBVIOUS
<1>10. PICK n : n = JokerSwapDrop(b, over, t).board  OBVIOUS
<1>11. PICK R : R = RemoveFirstOccurrence(b.rack, t)  OBVIOUS
<1>12. /\ n.groups = NonEmpty(w) /\ n.pending = b.pending \cup {g.id}
       /\ n.rack = R (+) SetToBag({j}) /\ n.recovered = b.recovered \cup {j}
  <2>1. PICK swap : swap = HookTryJokerSwap(TilesIn(b, over), t)  OBVIOUS
  <2>2. swap.tiles = ts /\ swap.joker = j
    <3>1. swap = Swapped(g.tiles, i, t)  BY <1>2, <1>3, <2>1
    <3>2. swap = [ok |-> TRUE, tiles |-> [g.tiles EXCEPT ![i] = t], joker |-> g.tiles[i]]
      BY <3>1, Zenon DEF Swapped
    <3> QED  BY <1>5, <1>7, <3>2
  <2>3. n = Store(WithTiles(b.groups, over, swap.tiles), b.pending \cup {over},
                  RemoveFirstOccurrence(b.rack, t) (+) SetToBag({swap.joker}),
                  b.recovered \cup {swap.joker})
    BY <1>10, <2>1 DEF JokerSwapDrop, Done
  <2> QED  BY <1>1, <1>9, <1>11, <2>2, <2>3 DEF Store
<1>13. /\ Distinct(n.groups, AllIds(s), TilesAt(s)) /\ NoEmptyGroup(n.groups)
       /\ ToSet(n.groups) = Kept(Replaced(G, g, ts))
       /\ \A u : Count(n.groups, u) = Number(Replaced(G, g, ts), u)
  BY <1>0, <1>8, <1>9, <1>12, GroupStored
<1>14. WellMade(s, n)
  <2>1. /\ IsABag(R) /\ BagToSet(R) \subseteq TilesAt(s)
        /\ \A k \in b.recovered \ {t} : IsJoker(k) /\ k \in BagToSet(R)
    BY <1>0, <1>11, RackGives
  <2>2. \A k \in b.recovered : IsJoker(k) /\ k # t  BY <1>0, <1>4 DEF WellMade
  <2>3. IsABag(n.rack) /\ BagToSet(n.rack) = BagToSet(R) \cup {j}
    <3>1. /\ IsABag(R (+) SetToBag({j}))
          /\ BagToSet(R (+) SetToBag({j})) = BagToSet(R) \cup {j}
      BY <2>1, CopiesMore
    <3> QED  BY <1>12, <3>1
  <2> QED  BY <1>6, <1>12, <1>13, <2>1, <2>2, <2>3 DEF WellMade
<1>15. Marked(s, n)
  <2>1. \A h \in G : h.tiles # <<>>  BY <1>0, BoardFacts
  <2>2. s.melded \/ g.id \in b.pending  BY <1>1 DEF MaySwap, IsPending
  <2> QED  BY <1>0, <1>12, <1>13, <2>1, <2>2, MarkedReplaced
<1>16. TakenFor(b, n, t, j)
  <2>1. /\ G \in SUBSET GroupsOver(AllIds(s), TilesAt(s)) /\ IsFiniteSet(G) /\ Apart(G)
        /\ \A u : Count(b.groups, u) = Number(G, u)
    BY <1>0, BoardFacts, CountNat
  <2> HIDE DEF G
  <2>2. g.tiles[i] # t  BY <1>5, <1>6
  <2>3. ASSUME NEW u
        PROVE  /\ Number(Replaced(G, g, [g.tiles EXCEPT ![i] = t]), u)
                    = Number(G, u) + Is(t, u) - Is(g.tiles[i], u)
               /\ Number(G, g.tiles[i]) > 0
    BY <1>3, <2>1, <2>2, NumberSwapped DEF G
  <2>4. \A u : Count(n.groups, u) = Count(b.groups, u) + Is(t, u) - Is(j, u)
    BY <1>5, <1>7, <1>13, <2>1, <2>3 DEF G
  <2>5. Count(b.groups, j) > 0  BY <1>5, <2>1, <2>3
  <2> QED  BY <1>4, <1>6, <1>11, <1>12, <2>4, <2>5 DEF TakenFor, RemoveFirstOccurrence
<1> QED  BY <1>6, <1>10, <1>14, <1>15, <1>16 DEF Sound

\* RemoveFirst takes out one tile that is there.
LEMMA RemoveFirstFacts ==
    ASSUME NEW T, NEW ts \in Seq(T), NEW t, Contains(ts, t)
    PROVE  \E i \in 1 .. Len(ts) : ts[i] = t /\ RemoveFirst(ts, t) = RemoveAt(ts, i)
<1>1. \E i \in 1 .. Len(ts) : ts[i] = t  BY DEF Contains
<1> DEFINE J == {i \in 1 .. Len(ts) : ts[i] = t}
<1>2. J # {} /\ J \subseteq Nat  BY <1>1
<1>3. PICK at : at = SelectInSeq(ts, LAMBDA v : v = t)  OBVIOUS
<1>4. at = Min(J)  BY <1>2, <1>3 DEF SelectInSeq
<1>5. \E i \in J : \A j \in J : i <= j  BY <1>2, SmallestOf
<1>6. at \in J  BY <1>4, <1>5 DEF Min
<1>7. RemoveFirst(ts, t) = RemoveAt(ts, at)  BY <1>1, <1>3 DEF RemoveFirst
<1> QED  BY <1>6, <1>7

\* The group a rack tile is fetched from, and what is left of it.
FromIndex(b, t) ==
    SelectInSeq(b.groups, LAMBDA g : IsPending(b, g.id) /\ Contains(g.tiles, t))

\* The group a rack tile is fetched from.
LEMMA FromFacts ==
    ASSUME NEW s, NEW b, WellMade(s, b), NEW t, FromIndex(b, t) # 0
    PROVE  \E g \in ToSet(b.groups) :
              /\ g = b.groups[FromIndex(b, t)] /\ g.id \in b.pending
              /\ \E i \in 1 .. Len(g.tiles) :
                    g.tiles[i] = t /\ RemoveFirst(g.tiles, t) = RemoveAt(g.tiles, i)
<1>1. PICK q : q = b.groups  OBVIOUS
<1>2. q \in Seq(GroupsOver(AllIds(s), TilesAt(s)))  BY <1>1, BoardFacts DEF Distinct
<1> DEFINE J == {i \in 1 .. Len(q) : IsPending(b, q[i].id) /\ Contains(q[i].tiles, t)}
<1>3. PICK from : from = FromIndex(b, t)  OBVIOUS
<1>4. J # {} /\ from = Min(J)  BY <1>1, <1>3 DEF FromIndex, SelectInSeq
<1>5. J \subseteq Nat  BY <1>2
<1>6. \E i \in J : \A j \in J : i <= j  BY <1>4, <1>5, SmallestOf
<1>7. from \in J  BY <1>4, <1>6 DEF Min
<1>8. PICK g : g = q[from]  OBVIOUS
<1>9. from \in 1 .. Len(q) /\ g.id \in b.pending /\ Contains(g.tiles, t)
  BY <1>7, <1>8 DEF IsPending
<1>10. g \in ToSet(q)  BY <1>2, <1>8, <1>9 DEF ToSet
<1>11. g.tiles \in Seq(TilesAt(s))  BY <1>1, <1>10, BoardFacts
<1>12. \E i \in 1 .. Len(g.tiles) :
          g.tiles[i] = t /\ RemoveFirst(g.tiles, t) = RemoveAt(g.tiles, i)
  BY <1>9, <1>11, RemoveFirstFacts
<1> QED  BY <1>1, <1>3, <1>8, <1>9, <1>10, <1>12

\* A rack tile dropped on the rack fetches its code from the board.
LEMMA RackToRackOK ==
    ASSUME NEW s \in Starts, NEW b, Sound(s, b), NEW t
    PROVE  LET n == RackToRack(b, t).board
           IN  n = b \/ (Sound(s, n) /\ Returned(b, n, t))
<1>0. WellMade(s, b) /\ Marked(s, b)  BY DEF Sound
<1>1. PICK from : from = FromIndex(b, t)  OBVIOUS
<1>2. CASE from = 0  BY <1>1, <1>2 DEF RackToRack, Ignored, FromIndex
<1>3. CASE from # 0
  <2>1. PICK g \in ToSet(b.groups) :
              /\ g = b.groups[from] /\ g.id \in b.pending
              /\ \E i \in 1 .. Len(g.tiles) :
                    g.tiles[i] = t /\ RemoveFirst(g.tiles, t) = RemoveAt(g.tiles, i)
    BY <1>0, <1>1, <1>3, FromFacts
  <2>2. PICK i \in 1 .. Len(g.tiles) :
           g.tiles[i] = t /\ RemoveFirst(g.tiles, t) = RemoveAt(g.tiles, i)
    BY <2>1
  <2>3. PICK w : w = WithTiles(b.groups, g.id, RemoveAt(g.tiles, i))  OBVIOUS
  <2>4. PICK n : n = RackToRack(b, t).board  OBVIOUS
  <2>5. n = Store(w, Living(b.pending, w), b.rack (+) SetToBag({t}), b.recovered)
    BY <1>1, <1>3, <2>1, <2>2, <2>3, <2>4 DEF RackToRack, Done, FromIndex
  <2>6. /\ n.groups = NonEmpty(w) /\ n.rack = b.rack (+) SetToBag({t})
        /\ n.recovered = b.recovered
        /\ \A id : id \in n.pending <=> id \in b.pending /\ id \in Ids(NonEmpty(w))
    BY <2>5 DEF Store, Living
  <2>7. Distinct(NonEmpty(w), AllIds(s), TilesAt(s))
    <3>1. g.tiles \in Seq(TilesAt(s))  BY <1>0, BoardFacts
    <3>2. RemoveAt(g.tiles, i) \in Seq(TilesAt(s))  BY <3>1, RemoveAtProperties
    <3> QED  BY <1>0, <2>3, <3>2, GroupStored
  <2>8. \A h \in ToSet(n.groups) : h.id \in Ids(NonEmpty(w))  BY <2>6, <2>7, DistinctGroups
  <2>9. \A h \in ToSet(n.groups) : h.id \in b.pending \ n.pending => h \in ToSet(s.groups)
    BY <2>6, <2>8
  <2>10. /\ n.pending \subseteq b.pending
         /\ n.groups = NonEmpty(WithTiles(b.groups, g.id, RemoveAt(g.tiles, i)))
         /\ n.rack = b.rack (+) SetToBag({g.tiles[i]})
    BY <2>2, <2>3, <2>6
  <2>11. WellMade(s, n) /\ Marked(s, n) /\ Returned(b, n, g.tiles[i])
    BY <1>0, <2>1, <2>6, <2>9, <2>10, GivenBack
  <2> QED  BY <2>2, <2>4, <2>11 DEF Sound
<1> QED  BY <1>2, <1>3

-----------------------------------------------------------------------------
(* Every drop *)

Moves(s, b, n, d) ==
    \/ Rearranged(b, n)
    \/ Returned(b, n, d.tile)
    \/ d.kind = "rack" /\ Laid(b, n, d.tile)
    \/ d.kind = "rack" /\ \E j \in TilesAt(s) : TakenFor(b, n, d.tile, j)

Moved(s, b, n, d) == n = b \/ (Sound(s, n) /\ Moves(s, b, n, d))

\* A bounded set of numbers that is not empty has a largest member.
LEMMA LargestOf ==
    ASSUME NEW n \in Nat, NEW J \in SUBSET (1 .. n), J # {}
    PROVE  \E i \in J : \A j \in J : j <= i
<1> DEFINE K == {n - j : j \in J}
<1>0. \A j \in J : n - j \in Nat  OBVIOUS
<1>1. K \subseteq Nat /\ K # {}  BY <1>0
<1>2. PICK k \in K : \A m \in K : k <= m  BY <1>1, SmallestOf
<1>3. PICK i \in J : k = n - i  OBVIOUS
<1>4. \A j \in J : n - j \in K /\ j \in Nat /\ j <= n  OBVIOUS
<1>5. \A j \in J : k <= n - j  BY <1>2, <1>4
<1>6. \A j \in J : j <= i  BY <1>3, <1>4, <1>5
<1> QED  BY <1>6

\* The last group that was opened is on the board and pending.
LEMMA LastPendingFacts ==
    ASSUME NEW s, NEW b, WellMade(s, b), LastPending(b) # 0
    PROVE  LET g == b.groups[LastPending(b)]
           IN  Has(b, g.id) /\ g.id \in b.pending
<1>1. PICK q : q = b.groups  OBVIOUS
<1>2. q \in Seq(GroupsOver(AllIds(s), TilesAt(s))) /\ Len(q) \in Nat
  BY <1>1, BoardFacts DEF Distinct
<1> DEFINE J == {i \in 1 .. Len(q) : IsPending(b, q[i].id) /\ IsPendingId(q[i].id)}
<1>3. PICK last : last = LastPending(b)  OBVIOUS
<1>4. J # {} /\ last = Max(J)  BY <1>1, <1>3 DEF LastPending, SelectLastInSeq
<1>5. \E i \in J : \A j \in J : j <= i  BY <1>2, <1>4, LargestOf
<1>6. last \in J  BY <1>4, <1>5 DEF Max
<1>7. last \in 1 .. Len(q) /\ q[last].id \in b.pending  BY <1>6 DEF IsPending
<1>8. Has(b, q[last].id)  BY <1>1, <1>7 DEF Has, Ids
<1> QED  BY <1>1, <1>3, <1>7, <1>8

\* A guarded append is done or is not.
LEMMA GuardedBoard ==
    ASSUME NEW b, NEW n  PROVE Guarded(b, n).board \in {b, n}
BY DEF Guarded, Done

\* The three zones are three.
LEMMA ZonesDiffer == Rack # Board /\ Rack # NewZone /\ Board # NewZone
BY DEF Rack, Board, NewZone

\* Every drop of a table tile ...
LEMMA TableDropOK ==
    ASSUME start \in Starts, NEW b, Sound(start, b), NEW d, d.index \in Nat \ {0}, NEW over
    PROVE  Moved(start, b, TableDrop(b, d, over, start.melded).board, d)
<1>1. CASE ~Has(b, d.group)  BY <1>1 DEF TableDrop, Ignored, Moved
<1>2. CASE Has(b, d.group) /\ over = Rack
  <2>1. TableDrop(b, d, over, start.melded) = TableToRack(b, d)
    BY <1>2, ZonesDiffer DEF TableDrop
  <2>2. PICK n : n = TableToRack(b, d).board  OBVIOUS
  <2>3. n = b \/ (Sound(start, n) /\ Returned(b, n, d.tile))  BY <2>2, TableToRackOK
  <2> QED  BY <2>1, <2>2, <2>3 DEF Moved, Moves
<1>3. CASE Has(b, d.group) /\ over # Rack /\ over \in {Board, NewZone}
  <2>1. TableDrop(b, d, over, start.melded) = SplitToNewGroup(b, d, start.melded)
    BY <1>3 DEF TableDrop
  <2>2. PICK n : n = SplitToNewGroup(b, d, start.melded).board  OBVIOUS
  <2>3. n = b \/ (Sound(start, n) /\ Rearranged(b, n))  BY <2>2, SplitOK
  <2> QED  BY <2>1, <2>2, <2>3 DEF Moved, Moves
<1>4. CASE Has(b, d.group) /\ over # Rack /\ over \notin {Board, NewZone}
  <2>1. TableDrop(b, d, over, start.melded) = TableToTable(b, d, over, start.melded)
    BY <1>4 DEF TableDrop
  <2>2. PICK n : n = TableToTable(b, d, over, start.melded).board  OBVIOUS
  <2>3. n = b \/ (Sound(start, n) /\ Rearranged(b, n))  BY <2>2, TableToTableOK
  <2> QED  BY <2>1, <2>2, <2>3 DEF Moved, Moves
<1> QED  BY <1>1, <1>2, <1>3, <1>4

\* ... every drop of a rack tile ...
LEMMA RackDropOK ==
    ASSUME start \in Starts, NEW b, Sound(start, b),
           NEW d, d.kind = "rack", d.tile \in TilesAt(start),
           NEW over \in Zones \cup Ids(b.groups), NEW f
    PROVE  Moved(start, b, RackDrop(b, d.tile, over, f, start.melded).board, d)
<1>0. WellMade(start, b) /\ Marked(start, b)  BY DEF Sound
<1>1. PICK t \in TilesAt(start) : t = d.tile  OBVIOUS
<1> DEFINE Good(n) == Sound(start, n) /\ Laid(b, n, t)
<1>2. Good(OpenGroup(b, t))  BY <1>0, OpenGroupOK DEF Sound
<1>3. ASSUME NEW id, Has(b, id), start.melded \/ id \in b.pending
      PROVE  Good(Append2(b, id, t))
  BY <1>0, <1>3, Append2OK DEF Sound
<1>4. ASSUME NEW n, n = b \/ Good(n)  PROVE Moved(start, b, n, d)
  BY <1>1, <1>4 DEF Moved, Moves
<1> HIDE DEF Good
<1>5. CASE over = Board
  <2>1. RackDrop(b, t, over, f, start.melded) = BoardDrop(b, t, f)
    BY <1>5, ZonesDiffer DEF RackDrop
  <2>2. CASE BoardAppends(b, t, f)
    <3>1. LastPending(b) # 0  BY <2>2 DEF BoardAppends
    <3>2. PICK id : id = b.groups[LastPending(b)].id  OBVIOUS
    <3>3. Has(b, id) /\ id \in b.pending  BY <1>0, <3>1, <3>2, LastPendingFacts
    <3>4. BoardDrop(b, t, f).board = Append2(b, id, t)  BY <2>2, <3>2 DEF BoardDrop, Done
    <3> QED  BY <1>1, <1>3, <1>4, <2>1, <3>3, <3>4
  <2>3. CASE ~BoardAppends(b, t, f)
    <3>1. BoardDrop(b, t, f).board = OpenGroup(b, t)  BY <2>3 DEF BoardDrop, Done
    <3> QED  BY <1>1, <1>2, <1>4, <2>1, <3>1
  <2> QED  BY <2>2, <2>3
<1>6. CASE over = NewZone
  <2>1. over # Board /\ over # Rack  BY <1>6, ZonesDiffer
  <2>2. RackDrop(b, t, over, f, start.melded).board = OpenGroup(b, t)
    BY <1>6, <2>1 DEF RackDrop, NewGroupDrop, Done
  <2> QED  BY <1>1, <1>2, <1>4, <2>2
<1>7. CASE over = Rack
  <2>1. over # Board /\ over # NewZone  BY <1>7, ZonesDiffer
  <2>2. RackDrop(b, t, over, f, start.melded) = RackToRack(b, t)
    BY <1>7, <2>1 DEF RackDrop
  <2>3. PICK n : n = RackToRack(b, t).board  OBVIOUS
  <2>4. n = b \/ (Sound(start, n) /\ Returned(b, n, t))  BY <2>3, RackToRackOK
  <2> QED  BY <1>1, <2>2, <2>3, <2>4 DEF Moved, Moves
<1>8. CASE over \notin Zones
  <2>0. over # Board /\ over # NewZone /\ over # Rack /\ Has(b, over)
    BY <1>8 DEF Zones, Has
  <2>1. CASE MaySwap(b, over, start.melded) /\ HookTryJokerSwap(TilesIn(b, over), t).ok
    <3>1. RackDrop(b, t, over, f, start.melded) = JokerSwapDrop(b, over, t)
      BY <2>0, <2>1 DEF RackDrop
    <3>2. PICK n : n = JokerSwapDrop(b, over, t).board  OBVIOUS
    <3>3. Sound(start, n) /\ \E j \in TilesAt(start) : TakenFor(b, n, t, j)
      BY <2>1, <3>2, JokerSwapDropOK
    <3> QED  BY <1>1, <3>1, <3>2, <3>3 DEF Moved, Moves
  <2>2. CASE ~(MaySwap(b, over, start.melded) /\ HookTryJokerSwap(TilesIn(b, over), t).ok)
    <3>0. PICK n : n = RackDrop(b, t, over, f, start.melded).board  OBVIOUS
    <3>1. CASE IsPending(b, over)
      <4>1. n = PendingDrop(b, over, t).board  BY <2>0, <2>2, <3>0, <3>1 DEF RackDrop
      <4>2. Good(Append2(b, over, t))  BY <1>3, <2>0, <3>1 DEF IsPending
      <4>3. n \in {b, Append2(b, over, t), OpenGroup(b, t)}
        BY <4>1, GuardedBoard DEF PendingDrop, Done
      <4> QED  BY <1>1, <1>2, <1>4, <3>0, <4>2, <4>3
    <3>2. CASE ~IsPending(b, over) /\ start.melded
      <4>1. n = ServerDropAfterMeld(b, over, t).board  BY <2>0, <2>2, <3>0, <3>2 DEF RackDrop
      <4>2. Good(Append2(b, over, t))  BY <1>3, <2>0, <3>2
      <4>3. n \in {b, Append2(b, over, t), OpenGroup(b, t)}
        BY <4>1, GuardedBoard DEF ServerDropAfterMeld, Done
      <4> QED  BY <1>1, <1>2, <1>4, <3>0, <4>2, <4>3
    <3>3. CASE ~IsPending(b, over) /\ ~start.melded
      <4>1. n = OpenGroup(b, t)
        BY <2>0, <2>2, <3>0, <3>3 DEF RackDrop, ServerDropBeforeMeld, Done
      <4> QED  BY <1>1, <1>2, <1>4, <3>0, <4>1
    <3> QED  BY <3>1, <3>2, <3>3
  <2> QED  BY <2>1, <2>2
<1> QED  BY <1>5, <1>6, <1>7, <1>8 DEF Zones

\* ... and so every drop.
LEMMA DropOK ==
    ASSUME start \in Starts, NEW b, Sound(start, b),
           NEW d, d # NoDrag, DragOK(start, b, d),
           NEW over \in Zones \cup Ids(b.groups), NEW f
    PROVE  Moved(start, b, DropResult(b, d, over, f, start.melded).board, d)
<1>1. CASE d.kind = "rack" /\ d.tile \in TilesAt(start)
  <2>1. d.kind # "table"  BY <1>1
  <2>2. DropResult(b, d, over, f, start.melded) = RackDrop(b, d.tile, over, f, start.melded)
    BY <2>1 DEF DropResult
  <2> QED  BY <1>1, <2>2, RackDropOK
<1>2. CASE d.kind = "table" /\ d.index \in Nat \ {0}
  <2>1. DropResult(b, d, over, f, start.melded) = TableDrop(b, d, over, start.melded)
    BY <1>2 DEF DropResult
  <2> QED  BY <1>2, <2>1, TableDropOK
<1> QED  BY <1>1, <1>2 DEF DragOK

\* A tile of the hand that is laid was there to be laid, and one that comes back
\* was on the board.
LEMMA HeldAfter ==
    ASSUME NEW s, NEW b, WellMade(s, b), HeldOnce(s, b), NEW n, WellMade(s, n),
           NEW d, d # NoDrag, DragOK(s, b, d), Moves(s, b, n, d)
    PROVE  HeldOnce(s, n)
<1> SUFFICES ASSUME NEW t \in s.rack  PROVE Copies(t, n.rack) + Count(n.groups, t) = 1
  BY DEF HeldOnce
<1>1. PICK x : x = d.tile  OBVIOUS
<1>2. PICK c \in Nat : c = Copies(t, b.rack)  BY CopiesNat DEF WellMade
<1>3. PICK m \in Nat : m = Count(b.groups, t)  BY BoardFacts, CountNat
<1>4. c + m = 1  BY <1>2, <1>3 DEF HeldOnce
<1>5. IsABag(b.rack)  BY DEF WellMade
<1>6. CASE Rearranged(b, n)  BY <1>2, <1>3, <1>4, <1>6 DEF Rearranged
<1>7. CASE Returned(b, n, x)
  <2>1. Count(n.groups, t) = m - Is(x, t) /\ Count(b.groups, x) > 0  BY <1>3, <1>7 DEF Returned
  <2>2. n.rack = b.rack (+) SetToBag({x})  BY <1>7 DEF Returned
  <2>3. Copies(x, b.rack (+) SetToBag({x})) = Copies(x, b.rack) + 1
        /\ \A u : u # x => Copies(u, b.rack (+) SetToBag({x})) = Copies(u, b.rack)
    BY <1>5, CopiesMore
  <2>4. CASE t = x  BY <1>2, <1>3, <1>4, <2>1, <2>2, <2>3, <2>4 DEF Is
  <2>5. CASE t # x  BY <1>2, <1>3, <1>4, <2>1, <2>2, <2>3, <2>5 DEF Is
  <2> QED  BY <2>4, <2>5
<1>8. CASE d.kind = "rack" /\ Laid(b, n, x)
  <2>1. Count(n.groups, t) = m + Is(x, t)  BY <1>3, <1>8 DEF Laid
  <2>2. n.rack = b.rack (-) SetToBag({x})  BY <1>8 DEF Laid
  <2>3. Copies(x, b.rack (-) SetToBag({x})) = Fewer(Copies(x, b.rack))
        /\ \A u : u # x => Copies(u, b.rack (-) SetToBag({x})) = Copies(u, b.rack)
    BY <1>5, CopiesLess
  <2>4. CASE t = x
    <3>1. BagIn(t, b.rack)  BY <1>1, <1>8, <2>4 DEF DragOK, InHand, NoDrag
    <3>2. c > 0  BY <1>2, <1>5, <3>1, CopiesNat DEF BagIn
    <3> QED  BY <1>2, <1>4, <2>1, <2>2, <2>3, <2>4, <3>2 DEF Is, Fewer
  <2>5. CASE t # x  BY <1>2, <1>4, <2>1, <2>2, <2>3, <2>5 DEF Is
  <2> QED  BY <2>4, <2>5
<1>9. ASSUME d.kind = "rack", NEW j \in TilesAt(s), TakenFor(b, n, x, j)
      PROVE  Copies(t, n.rack) + Count(n.groups, t) = 1
  <2>1. /\ Count(n.groups, t) = m + Is(x, t) - Is(j, t)
        /\ Count(b.groups, j) > 0 /\ x # j
    BY <1>3, <1>9 DEF TakenFor
  <2>2. PICK R : R = b.rack (-) SetToBag({x})  OBVIOUS
  <2>3. IsABag(R) /\ Copies(x, R) = Fewer(Copies(x, b.rack))
        /\ \A u : u # x => Copies(u, R) = Copies(u, b.rack)
    BY <1>5, <2>2, CopiesLess
  <2>4. n.rack = R (+) SetToBag({j})  BY <1>9, <2>2 DEF TakenFor
  <2>5. Copies(j, R (+) SetToBag({j})) = Copies(j, R) + 1
        /\ \A u : u # j => Copies(u, R (+) SetToBag({j})) = Copies(u, R)
    BY <2>3, CopiesMore
  <2>6. CASE t = x
    <3>1. BagIn(t, b.rack)  BY <1>1, <1>9, <2>6 DEF DragOK, InHand, NoDrag
    <3>2. c > 0  BY <1>2, <1>5, <3>1, CopiesNat DEF BagIn
    <3>3. Copies(t, n.rack) = Fewer(c)  BY <1>2, <2>1, <2>3, <2>4, <2>5, <2>6
    <3>4. Count(n.groups, t) = m + 1  BY <2>1, <2>6 DEF Is
    <3> QED  BY <1>2, <1>3, <1>4, <3>2, <3>3, <3>4 DEF Fewer
  <2>7. CASE t = j
    <3>1. Copies(t, n.rack) = c + 1  BY <1>2, <2>1, <2>3, <2>4, <2>5, <2>7
    <3>2. Count(n.groups, t) = m - 1 /\ m > 0  BY <1>3, <2>1, <2>7 DEF Is
    <3> QED  BY <1>2, <1>3, <1>4, <3>1, <3>2
  <2>8. CASE t # x /\ t # j
    <3>1. Copies(t, n.rack) = c  BY <1>2, <2>3, <2>4, <2>5, <2>8
    <3>2. Count(n.groups, t) = m  BY <1>3, <2>1, <2>8 DEF Is
    <3> QED  BY <1>4, <3>1, <3>2
  <2> QED  BY <2>6, <2>7, <2>8
<1> QED  BY <1>1, <1>6, <1>7, <1>8, <1>9 DEF Moves

-----------------------------------------------------------------------------
(* The invariant is inductive *)

OK(s, b) == WellMade(s, b) /\ Marked(s, b) /\ HeldOnce(s, b)

\* A tile can be taken where one is.
LEMMA SourceOK ==
    ASSUME NEW s, NEW b, WellMade(s, b), NEW d \in Sources(b)
    PROVE  DragOK(s, b, d)
<1>1. \/ \E t \in BagToSet(b.rack) : d = [kind |-> "rack", tile |-> t]
      \/ \E i \in 1 .. Len(b.groups) : \E j \in 1 .. Len(b.groups[i].tiles) :
            d = [kind |-> "table", tile |-> b.groups[i].tiles[j],
                 group |-> b.groups[i].id, index |-> j]
  BY Zenon DEF Sources
<1>2. ASSUME NEW t \in BagToSet(b.rack), d = [kind |-> "rack", tile |-> t]
      PROVE  DragOK(s, b, d)
  BY <1>2 DEF DragOK, InHand, WellMade, BagIn
<1>3. ASSUME NEW i \in 1 .. Len(b.groups), NEW j \in 1 .. Len(b.groups[i].tiles),
             d = [kind |-> "table", tile |-> b.groups[i].tiles[j],
                  group |-> b.groups[i].id, index |-> j]
      PROVE  DragOK(s, b, d)
  <2>1. PICK g : g = b.groups[i]  OBVIOUS
  <2>2. b.groups \in Seq(GroupsOver(AllIds(s), TilesAt(s)))  BY BoardFacts DEF Distinct
  <2>3. g \in ToSet(b.groups) /\ g.tiles \in Seq(TilesAt(s))
    <3>1. g \in ToSet(b.groups)  BY <2>1, <2>2 DEF ToSet
    <3> QED  BY <3>1, BoardFacts
  <2>4. g.tiles[j] \in TilesAt(s) /\ j \in Nat \ {0}  BY <2>1, <2>3
  <2> QED  BY <1>3, <2>1, <2>4 DEF DragOK
<1> QED  BY <1>1, <1>2, <1>3

\* A tile of the hand that is in the air when the draft is rolled back is in the
\* rack again as well; one of the table is not.
LEMMA FreshDragOK ==
    ASSUME NEW s \in Starts, NEW b, NEW d, DragOK(s, b, d)
    PROVE  DragOK(s, FreshDraft(s), d)
<1>1. FreshDraft(s).rack = SetToBag(s.rack)  BY DEF FreshDraft
<1>2. \A t \in s.rack : BagIn(t, SetToBag(s.rack))  BY DEF BagIn, BagToSet, SetToBag
<1>3. \A t : InHand(s, FreshDraft(s), t)  BY <1>1, <1>2 DEF InHand
<1> QED  BY <1>3 DEF DragOK

\* A drop keeps the draft.
LEMMA DropKeeps ==
    ASSUME DraftInv, drag # NoDrag, NEW over \in Zones \cup Ids(board.groups), NEW f
    PROVE  OK(start, DropResult(board, drag, over, f, start.melded).board)
<1>1. PICK n : n = DropResult(board, drag, over, f, start.melded).board  OBVIOUS
<1>2. PICK b : b = board  OBVIOUS
<1>3. Sound(start, b) /\ HeldOnce(start, b) /\ DragOK(start, b, drag) /\ start \in Starts
  BY <1>2 DEF DraftInv, Sound
<1>4. n = DropResult(b, drag, over, f, start.melded).board /\ over \in Zones \cup Ids(b.groups)
  BY <1>1, <1>2
<1>5. Moved(start, b, n, drag)  BY <1>3, <1>4, DropOK
<1>6. CASE n = b  BY <1>1, <1>3, <1>6 DEF OK, Sound
<1>7. CASE Sound(start, n) /\ Moves(start, b, n, drag)
  <2>1. HeldOnce(start, n)  BY <1>3, <1>7, HeldAfter DEF Sound
  <2> QED  BY <1>1, <1>7, <2>1 DEF OK, Sound
<1> QED  BY <1>5, <1>6, <1>7 DEF Moved

\* So does a toast, which may roll it back.
LEMMA SaysKeeps ==
    ASSUME DraftInv, Says, start' = start
    PROVE  OK(start', board') /\ start' \in Starts /\ DragOK(start', board', drag)
<1>1. /\ start \in Starts /\ OK(start, board) /\ DragOK(start, board, drag)
      /\ OK(start, FreshDraft(start)) /\ DragOK(start, FreshDraft(start), drag)
  BY FreshDraftOK, FreshDragOK DEF DraftInv, OK
<1> QED  BY <1>1 DEF Says

\* Every step keeps the invariant.
LEMMA DraftInvNext == DraftInv /\ [Next]_vars => DraftInv'
<1> SUFFICES ASSUME DraftInv, [Next]_vars  PROVE DraftInv'
  OBVIOUS
<1>1. start \in Starts /\ OK(start, board) /\ DragOK(start, board, drag)
  BY DEF DraftInv, OK
<1>2. SUFFICES start' \in Starts /\ OK(start', board') /\ DragOK(start', board', drag')
  BY DEF DraftInv, OK, WellMade, Marked, HeldOnce, DragOK, InHand, FreshDraft
<1>3. DragOK(start', board', NoDrag)  BY DEF DragOK
<1>4. ASSUME NEW d \in Sources(board), DragStart(d)
      PROVE  start' \in Starts /\ OK(start', board') /\ DragOK(start', board', drag')
  <2>1. DragOK(start, board, d)  BY <1>1, SourceOK DEF OK
  <2> QED  BY <1>1, <1>4, <2>1 DEF DragStart
<1>5. CASE DragCancel  BY <1>1, <1>3, <1>5 DEF DragCancel
<1>6. CASE DropNowhere  BY <1>1, <1>3, <1>6, SaysKeeps DEF DropNowhere
<1>7. CASE DropOutOfTurn  BY <1>1, <1>3, <1>7 DEF DropOutOfTurn
<1>8. ASSUME NEW over \in Zones \cup Ids(board.groups), Drop(over)
      PROVE  start' \in Starts /\ OK(start', board') /\ DragOK(start', board', drag')
  <2>1. PICK out : out = DropResult(board, drag, over, force, start.melded)  OBVIOUS
  <2>2. /\ start' = start /\ drag' = NoDrag /\ drag # NoDrag
        /\ IF out.says THEN Says ELSE board' = out.board
    BY <1>8, <2>1 DEF Drop
  <2>3. OK(start, out.board)  BY <2>1, <2>2, DropKeeps
  <2> QED  BY <1>1, <1>3, <2>2, <2>3, SaysKeeps
<1>9. CASE ToggleForce  BY <1>1, <1>9 DEF ToggleForce
<1>10. CASE Undo
  <2>1. OK(start, FreshDraft(start))  BY <1>1, FreshDraftOK DEF OK
  <2> QED  BY <1>1, <1>3, <1>10, <2>1 DEF Undo
<1>11. CASE Confirm
  <2>1. start' = start /\ drag' = drag /\ Says  BY <1>11 DEF Confirm
  <2> QED  BY <2>1, SaysKeeps
<1>12. CASE ServerError
  <2>1. start' = start /\ drag' = drag /\ Says  BY <1>12 DEF ServerError
  <2> QED  BY <2>1, SaysKeeps
<1>13. CASE ToastFades  BY <1>1, <1>13 DEF ToastFades
<1>14. ASSUME NEW s \in Starts, TurnPasses(s)
       PROVE  start' \in Starts /\ OK(start', board') /\ DragOK(start', board', drag')
  <2>1. /\ start' = s /\ board' = FreshDraft(s) /\ drag' = drag
        /\ drag = NoDrag \/ s = start
    BY <1>14 DEF TurnPasses
  <2>2. OK(s, FreshDraft(s))  BY FreshDraftOK DEF OK
  <2>3. CASE drag = NoDrag  BY <1>3, <2>1, <2>2, <2>3
  <2>4. CASE s = start
    <3>1. DragOK(start, FreshDraft(start), drag)  BY <1>1, FreshDragOK
    <3> QED  BY <2>1, <2>2, <2>4, <3>1
  <2> QED  BY <2>1, <2>3, <2>4
<1>15. CASE UNCHANGED vars  BY <1>1, <1>15 DEF vars
<1> QED
  BY <1>1, <1>4, <1>5, <1>6, <1>7, <1>8, <1>9, <1>10, <1>11, <1>12, <1>13, <1>14, <1>15
  DEF Next

\* The draft of a turn, its marks, the hand and the tile in the air, for any
\* turns that start with each tile in one place.
THEOREM DraftInvariance == Spec => []DraftInv
<1>1. Init => DraftInv
  <2> SUFFICES ASSUME Init  PROVE DraftInv  OBVIOUS
  <2>1. start \in Starts /\ board = FreshDraft(start) /\ drag = NoDrag  BY DEF Init
  <2>2. OK(start, board)  BY <2>1, FreshDraftOK DEF OK
  <2> QED  BY <2>1, <2>2 DEF DraftInv, OK, DragOK
<1> QED  BY <1>1, DraftInvNext, PTL DEF Spec

\* The marks of a draft are to be trusted: a group that is not checked before a
\* turn is sent is one of the turn's start, and before the first meld the table
\* is as it was.
THEOREM MarksCorrect == Spec => []OnlyMarkedGroupsChange
<1>1. DraftInv => OnlyMarkedGroupsChange
  <2> SUFFICES ASSUME DraftInv  PROVE OnlyMarkedGroupsChange  OBVIOUS
  <2>1. Marked(start, board) /\ GroupIdUnique(board.groups) /\ NoEmptyGroup(board.groups)
    BY DEF DraftInv, WellMade, Distinct
  <2> QED  BY <2>1
       DEF OnlyMarkedGroupsChange, UnmarkedGroupsAreUntouched, UnmeldedLeavesTheTable, Marked
<1> QED  BY <1>1, DraftInvariance, PTL

-----------------------------------------------------------------------------
(* The draft implements TurnBoard *)

InRack(b) == [t \in MoveTiles |-> Copies(t, b.rack)]
OnTable(b) == [t \in MoveTiles |-> Count(b.groups, t)]

\* What a drop is to TurnBoard, of a turn that started with R and S.
Overtook(R, S, r, m, t) == r = TB!Ones(R) /\ m = TB!Ones(S) /\ t \in S \ R
Step(R, S, r, m, rn, mn) ==
    \/ rn = r /\ mn = m
    \/ \E t \in MoveTiles :
          /\ mn[t] # m[t]
          /\ \/ r[t] > 0 /\ rn = TB!Less(r, t) /\ mn = TB!More(m, t)
             \/ m[t] > 0 /\ mn = TB!Less(m, t) /\ rn = TB!More(r, t)
             \/ Overtook(R, S, r, m, t) /\ mn = TB!More(m, t) /\ rn = r
             \/ \E j \in MoveJokers :
                   /\ m[j] > 0 /\ t # j
                   /\ mn = TB!More(TB!Less(m, j), t)
                   /\ \/ r[t] > 0 /\ rn = TB!More(TB!Less(r, t), j)
                      \/ Overtook(R, S, r, m, t) /\ rn = TB!More(r, j)

StartTable(s) == ToSet(TilesOf(s.groups))

\* The tiles of a turn are among those that move.
LEMMA TilesMove == \A s \in Starts : \A t \in TilesAt(s) : t \in MoveTiles
BY DEF MoveTiles

\* The two functions TurnBoard is given are what it expects.
LEMMA CountsAreCounts ==
    ASSUME NEW s, NEW b, WellMade(s, b)
    PROVE  /\ InRack(b) \in [MoveTiles -> Nat] /\ OnTable(b) \in [MoveTiles -> Nat]
           /\ \A t \in MoveTiles : InRack(b)[t] = Copies(t, b.rack)
                                   /\ OnTable(b)[t] = Count(b.groups, t)
<1>1. \A t : Copies(t, b.rack) \in Nat  BY CopiesNat DEF WellMade
<1>2. \A t : Count(b.groups, t) \in Nat  BY BoardFacts, CountNat
<1> QED  BY <1>1, <1>2 DEF InRack, OnTable

\* A fresh draft is one of TurnBoard's beginnings.
LEMMA FreshCounts ==
    ASSUME NEW s \in Starts
    PROVE  /\ InRack(FreshDraft(s)) = TB!Ones(s.rack)
           /\ OnTable(FreshDraft(s)) = TB!Ones(ToSet(TilesOf(s.groups)))
           /\ s.rack \in SUBSET MoveTiles /\ ToSet(TilesOf(s.groups)) \in SUBSET MoveTiles
<1>1. FreshDraft(s).rack = SetToBag(s.rack) /\ FreshDraft(s).groups = s.groups
  BY DEF FreshDraft
<1>2. \A t : Copies(t, SetToBag(s.rack)) = IF t \in s.rack THEN 1 ELSE 0  BY CopiesBegun
<1>3. \A t : Count(s.groups, t) = IF t \in ToSet(TilesOf(s.groups)) THEN 1 ELSE 0
  BY CountBegun
<1>4. InRack(FreshDraft(s)) = TB!Ones(s.rack)  BY <1>1, <1>2 DEF InRack, TB!Ones
<1>5. OnTable(FreshDraft(s)) = TB!Ones(ToSet(TilesOf(s.groups)))
  BY <1>1, <1>3 DEF OnTable, TB!Ones
<1>6. s.rack \subseteq MoveTiles /\ ToSet(TilesOf(s.groups)) \subseteq MoveTiles
  BY TilesMove DEF TilesAt
<1> QED  BY <1>4, <1>5, <1>6

\* A tile from the rack that the rack does not have was overtaken by a reset.
LEMMA NotInRack ==
    ASSUME NEW s \in Starts, NEW b, WellMade(s, b), NEW t \in TilesAt(s), InHand(s, b, t)
    PROVE  \/ InRack(b)[t] > 0
           \/ InRack(b)[t] = 0 /\ Overtook(s.rack, StartTable(s), InRack(b), OnTable(b), t)
<1>0. t \in MoveTiles  BY TilesMove
<1>1. InRack(b)[t] = Copies(t, b.rack)  BY <1>0, CountsAreCounts
<1>2. CASE BagIn(t, b.rack)
  <2>1. Copies(t, b.rack) > 0  BY <1>2, CopiesNat DEF WellMade, BagIn
  <2> QED  BY <1>1, <2>1
<1>3. CASE b = FreshDraft(s) /\ t \notin s.rack
  <2>1. InRack(b) = TB!Ones(s.rack) /\ OnTable(b) = TB!Ones(StartTable(s))
    BY <1>3, FreshCounts DEF StartTable
  <2>2. InRack(b)[t] = 0  BY <1>0, <1>3, <2>1 DEF TB!Ones
  <2>3. t \in StartTable(s) \ s.rack  BY <1>3 DEF TilesAt, StartTable
  <2> QED  BY <2>1, <2>2, <2>3 DEF Overtook
<1> QED  BY <1>2, <1>3 DEF InHand

\* A tile laid is TurnBoard's Lay, or LayAgain ...
LEMMA LaidStep ==
    ASSUME NEW s \in Starts, NEW b, WellMade(s, b), NEW n, WellMade(s, n),
           NEW t \in TilesAt(s), InHand(s, b, t), Laid(b, n, t)
    PROVE  Step(s.rack, StartTable(s), InRack(b), OnTable(b), InRack(n), OnTable(n))
<1>1. PICK r, m, rn, mn :
         r = InRack(b) /\ m = OnTable(b) /\ rn = InRack(n) /\ mn = OnTable(n)
  OBVIOUS
<1>2. /\ r \in [MoveTiles -> Nat] /\ m \in [MoveTiles -> Nat]
      /\ rn \in [MoveTiles -> Nat] /\ mn \in [MoveTiles -> Nat]
      /\ \A u \in MoveTiles : r[u] = Copies(u, b.rack) /\ m[u] = Count(b.groups, u)
      /\ \A u \in MoveTiles : rn[u] = Copies(u, n.rack) /\ mn[u] = Count(n.groups, u)
  BY <1>1, CountsAreCounts
<1>3. \A u \in MoveTiles : mn[u] = m[u] + (IF t = u THEN 1 ELSE 0)
  BY <1>2 DEF Laid, Is
<1>4. \A u \in MoveTiles : rn[u] = IF u = t THEN (IF r[t] = 0 THEN 0 ELSE r[t] - 1) ELSE r[u]
  <2>1. /\ Copies(t, n.rack) = Fewer(Copies(t, b.rack))
        /\ \A u : u # t => Copies(u, n.rack) = Copies(u, b.rack)
    BY CopiesLess DEF Laid, WellMade
  <2> QED  BY <1>2, <2>1 DEF Fewer
<1>0. t \in MoveTiles  BY TilesMove
<1>5. mn = TB!More(m, t)  BY <1>0, <1>2, <1>3 DEF TB!More
<1>6. r[t] > 0 => rn = TB!Less(r, t)  BY <1>0, <1>2, <1>4 DEF TB!Less
<1>7. r[t] = 0 => rn = r  BY <1>0, <1>2, <1>4
<1>8. mn[t] # m[t]  BY <1>0, <1>2, <1>3
<1>9. r[t] > 0 \/ (r[t] = 0 /\ Overtook(s.rack, StartTable(s), r, m, t))  BY <1>1, NotInRack
<1> QED  BY <1>0, <1>1, <1>5, <1>6, <1>7, <1>8, <1>9 DEF Step

\* ... one given back is its TakeBack ...
LEMMA ReturnedStep ==
    ASSUME NEW s, NEW b, WellMade(s, b), NEW n, WellMade(s, n),
           NEW t \in MoveTiles, Returned(b, n, t)
    PROVE  Step(s.rack, StartTable(s), InRack(b), OnTable(b), InRack(n), OnTable(n))
<1>1. PICK r, m, rn, mn :
         r = InRack(b) /\ m = OnTable(b) /\ rn = InRack(n) /\ mn = OnTable(n)
  OBVIOUS
<1>2. /\ r \in [MoveTiles -> Nat] /\ m \in [MoveTiles -> Nat]
      /\ rn \in [MoveTiles -> Nat] /\ mn \in [MoveTiles -> Nat]
      /\ \A u \in MoveTiles : r[u] = Copies(u, b.rack) /\ m[u] = Count(b.groups, u)
      /\ \A u \in MoveTiles : rn[u] = Copies(u, n.rack) /\ mn[u] = Count(n.groups, u)
  BY <1>1, CountsAreCounts
<1>3. m[t] > 0 /\ \A u \in MoveTiles : mn[u] = m[u] - (IF t = u THEN 1 ELSE 0)
  BY <1>2 DEF Returned, Is
<1>4. \A u \in MoveTiles : rn[u] = IF u = t THEN r[t] + 1 ELSE r[u]
  <2>1. /\ Copies(t, n.rack) = Copies(t, b.rack) + 1
        /\ \A u : u # t => Copies(u, n.rack) = Copies(u, b.rack)
    BY CopiesMore DEF Returned, WellMade
  <2> QED  BY <1>2, <2>1
<1>5. mn = TB!Less(m, t)  BY <1>2, <1>3 DEF TB!Less
<1>6. rn = TB!More(r, t)  BY <1>2, <1>4 DEF TB!More
<1>7. mn[t] # m[t]  BY <1>2, <1>3
<1> QED  BY <1>1, <1>3, <1>5, <1>6, <1>7 DEF Step

\* ... and a joker taken its Swap, or SwapAgain ...
LEMMA TakenStep ==
    ASSUME NEW s \in Starts, NEW b, WellMade(s, b), NEW n, WellMade(s, n),
           NEW t \in TilesAt(s), InHand(s, b, t), NEW j \in MoveTiles, TakenFor(b, n, t, j)
    PROVE  Step(s.rack, StartTable(s), InRack(b), OnTable(b), InRack(n), OnTable(n))
<1>1. PICK r, m, rn, mn :
         r = InRack(b) /\ m = OnTable(b) /\ rn = InRack(n) /\ mn = OnTable(n)
  OBVIOUS
<1>2. /\ r \in [MoveTiles -> Nat] /\ m \in [MoveTiles -> Nat]
      /\ rn \in [MoveTiles -> Nat] /\ mn \in [MoveTiles -> Nat]
      /\ \A u \in MoveTiles : r[u] = Copies(u, b.rack) /\ m[u] = Count(b.groups, u)
      /\ \A u \in MoveTiles : rn[u] = Copies(u, n.rack) /\ mn[u] = Count(n.groups, u)
  BY <1>1, CountsAreCounts
<1>0. t \in MoveTiles /\ t # j /\ j \in MoveJokers  BY TilesMove DEF TakenFor, MoveJokers
<1>3. m[j] > 0 /\ \A u \in MoveTiles :
         mn[u] = m[u] + (IF t = u THEN 1 ELSE 0) - (IF j = u THEN 1 ELSE 0)
  BY <1>2 DEF TakenFor, Is
<1>4. \A u \in MoveTiles :
         rn[u] = IF u = j THEN r[j] + 1
                 ELSE IF u = t THEN (IF r[t] = 0 THEN 0 ELSE r[t] - 1) ELSE r[u]
  <2>1. PICK R : R = b.rack (-) SetToBag({t})  OBVIOUS
  <2>2. /\ IsABag(R) /\ Copies(t, R) = Fewer(Copies(t, b.rack))
        /\ \A u : u # t => Copies(u, R) = Copies(u, b.rack)
    BY <2>1, CopiesLess DEF WellMade
  <2>3. n.rack = R (+) SetToBag({j})  BY <2>1 DEF TakenFor
  <2>4. /\ Copies(j, n.rack) = Copies(j, R) + 1
        /\ \A u : u # j => Copies(u, n.rack) = Copies(u, R)
    <3>1. /\ Copies(j, R (+) SetToBag({j})) = Copies(j, R) + 1
          /\ \A u : u # j => Copies(u, R (+) SetToBag({j})) = Copies(u, R)
      BY <2>2, CopiesMore
    <3> QED  BY <2>3, <3>1
  <2> QED  BY <1>0, <1>2, <2>2, <2>4 DEF Fewer
<1>5. mn = TB!More(TB!Less(m, j), t)
  <2>1. PICK l : l = TB!Less(m, j)  OBVIOUS
  <2>2. l \in [MoveTiles -> Nat] /\ \A u \in MoveTiles : l[u] = IF u = j THEN m[j] - 1 ELSE m[u]
    BY <1>2, <1>3, <2>1 DEF TB!Less
  <2>3. mn = TB!More(l, t)  BY <1>0, <1>2, <1>3, <2>2 DEF TB!More
  <2> QED  BY <2>1, <2>3
<1>6. r[t] > 0 => rn = TB!More(TB!Less(r, t), j)
  <2> SUFFICES ASSUME r[t] > 0  PROVE rn = TB!More(TB!Less(r, t), j)  OBVIOUS
  <2>1. PICK l : l = TB!Less(r, t)  OBVIOUS
  <2>2. /\ l \in [MoveTiles -> Nat]
        /\ \A u \in MoveTiles : l[u] = IF u = t THEN r[t] - 1 ELSE r[u]
    BY <1>0, <1>2, <2>1 DEF TB!Less
  <2>3. rn = TB!More(l, j)  BY <1>0, <1>2, <1>4, <2>2 DEF TB!More
  <2> QED  BY <2>1, <2>3
<1>7. r[t] = 0 => rn = TB!More(r, j)  BY <1>0, <1>2, <1>4 DEF TB!More
<1>8. mn[t] # m[t]  BY <1>0, <1>2, <1>3
<1>9. r[t] > 0 \/ (r[t] = 0 /\ Overtook(s.rack, StartTable(s), r, m, t))  BY <1>1, NotInRack
<1> QED  BY <1>0, <1>1, <1>3, <1>5, <1>6, <1>7, <1>8, <1>9 DEF Step

\* ... so that every drop is one of its moves.
LEMMA MovesStep ==
    ASSUME NEW s \in Starts, NEW b, WellMade(s, b), NEW n, WellMade(s, n),
           NEW d, d.tile \in TilesAt(s), d.kind = "rack" => InHand(s, b, d.tile),
           Moves(s, b, n, d)
    PROVE  Step(s.rack, StartTable(s), InRack(b), OnTable(b), InRack(n), OnTable(n))
<1>0. d.tile \in MoveTiles /\ \A j \in TilesAt(s) : j \in MoveTiles  BY TilesMove
<1>1. CASE Rearranged(b, n)  BY <1>1 DEF Rearranged, InRack, OnTable, Step
<1>2. CASE Returned(b, n, d.tile)  BY <1>0, <1>2, ReturnedStep
<1>3. CASE d.kind = "rack" /\ Laid(b, n, d.tile)  BY <1>0, <1>3, LaidStep
<1>4. ASSUME d.kind = "rack", NEW j \in TilesAt(s), TakenFor(b, n, d.tile, j)
      PROVE  Step(s.rack, StartTable(s), InRack(b), OnTable(b), InRack(n), OnTable(n))
  BY <1>0, <1>4, TakenStep
<1> QED  BY <1>1, <1>2, <1>3, <1>4 DEF Moves

\* A step of the draft, seen as a change of the counts.
TBNext ==
    \/ /\ UNCHANGED <<start.rack, ToSet(TilesOf(start.groups))>>
       /\ \/ Step(start.rack, StartTable(start),
                  InRack(board), OnTable(board), InRack(board)', OnTable(board)')
          \/ board' = FreshDraft(start)
    \/ start' \in Starts /\ board' = FreshDraft(start')

\* Every step of the draft is a move, a reset or a new turn ...
LEMMA EveryStep == DraftInv /\ [Next]_vars => TBNext
<1> SUFFICES ASSUME DraftInv, [Next]_vars  PROVE TBNext
  OBVIOUS
<1>1. CASE UNCHANGED <<start, board>>  BY <1>1 DEF TBNext, Step, InRack, OnTable
<1>2. CASE start' = start /\ board' = FreshDraft(start)  BY <1>2 DEF TBNext
<1>3. CASE start' = start /\ Says  BY <1>1, <1>2, <1>3 DEF Says
<1>4. ASSUME NEW over \in Zones \cup Ids(board.groups), Drop(over)  PROVE TBNext
  <2>1. PICK out : out = DropResult(board, drag, over, force, start.melded)  OBVIOUS
  <2>2. /\ start' = start /\ drag # NoDrag
        /\ IF out.says THEN Says ELSE board' = out.board
    BY <1>4, <2>1 DEF Drop
  <2>3. CASE out.says  BY <1>3, <2>2, <2>3
  <2>4. CASE ~out.says
    <3>1. PICK b : b = board  OBVIOUS
    <3>2. PICK n : n = out.board  OBVIOUS
    <3>3. /\ Sound(start, b) /\ DragOK(start, b, drag) /\ start \in Starts
          /\ n = DropResult(b, drag, over, force, start.melded).board
          /\ over \in Zones \cup Ids(b.groups)
      BY <2>1, <3>1, <3>2 DEF DraftInv, Sound
    <3>4. Moved(start, b, n, drag)  BY <2>2, <3>3, DropOK
    <3>5. board' = n  BY <2>2, <2>4, <3>2
    <3>6. CASE n = b  BY <1>1, <2>2, <3>1, <3>5, <3>6
    <3>7. CASE n # b
      <4>1. Sound(start, n) /\ Moves(start, b, n, drag)  BY <3>4, <3>7 DEF Moved
      <4>2. drag.tile \in TilesAt(start) /\ (drag.kind = "rack" => InHand(start, b, drag.tile))
        BY <2>2, <3>3 DEF DragOK
      <4>3. Step(start.rack, StartTable(start), InRack(b), OnTable(b), InRack(n), OnTable(n))
        BY <3>3, <4>1, <4>2, MovesStep DEF Sound
      <4>4. InRack(board)' = InRack(n) /\ OnTable(board)' = OnTable(n)
        BY <3>5 DEF InRack, OnTable
      <4> QED  BY <2>2, <3>1, <4>3, <4>4 DEF TBNext
    <3> QED  BY <3>6, <3>7
  <2> QED  BY <2>3, <2>4
<1>5. ASSUME NEW s \in Starts, TurnPasses(s)  PROVE TBNext
  BY <1>5 DEF TurnPasses, TBNext
<1>6. ASSUME NEW d \in Sources(board), DragStart(d)  PROVE TBNext
  BY <1>1, <1>6 DEF DragStart
<1>7. CASE DragCancel \/ DropOutOfTurn \/ ToggleForce \/ ToastFades
  BY <1>1, <1>7 DEF DragCancel, DropOutOfTurn, ToggleForce, ToastFades
<1>8. CASE DropNowhere \/ Confirm \/ ServerError
  BY <1>3, <1>8 DEF DropNowhere, Confirm, ServerError
<1>9. CASE Undo  BY <1>2, <1>9 DEF Undo
<1>10. CASE UNCHANGED vars  BY <1>1, <1>10 DEF vars
<1> QED  BY <1>4, <1>5, <1>6, <1>7, <1>8, <1>9, <1>10 DEF Next

\* ... and each of these a step of TurnBoard.
LEMMA TBNextIsTBStep == DraftInv /\ TBNext => [TB!Next]_(TB!vars)
<1> SUFFICES ASSUME DraftInv, TBNext  PROVE [TB!Next]_(TB!vars)
  OBVIOUS
<1>1. /\ [t \in MoveTiles |-> Copies(t, board.rack)] = InRack(board)
      /\ [t \in MoveTiles |-> Count(board.groups, t)] = OnTable(board)
      /\ [t \in MoveTiles |-> Copies(t, board.rack)]' = InRack(board)'
      /\ [t \in MoveTiles |-> Count(board.groups, t)]' = OnTable(board)'
  BY DEF InRack, OnTable
<1>2. CASE /\ UNCHANGED <<start.rack, ToSet(TilesOf(start.groups))>>
           /\ Step(start.rack, StartTable(start),
                   InRack(board), OnTable(board), InRack(board)', OnTable(board)')
  <2>1. CASE InRack(board)' = InRack(board) /\ OnTable(board)' = OnTable(board)
    BY <1>1, <1>2, <2>1 DEF TB!vars
  <2>2. CASE ~(InRack(board)' = InRack(board) /\ OnTable(board)' = OnTable(board))
    BY <1>1, <1>2, <2>2
    DEF Step, Overtook, StartTable, TB!Next, TB!InTurn, TB!Moved, TB!Lay, TB!TakeBack, TB!Swap,
        TB!LayAgain, TB!SwapAgain, TB!Overtaken, TB!Begun
  <2> QED  BY <2>1, <2>2
<1>3. CASE /\ UNCHANGED <<start.rack, ToSet(TilesOf(start.groups))>>
           /\ board' = FreshDraft(start)
  <2>1. InRack(board)' = TB!Ones(start.rack)
        /\ OnTable(board)' = TB!Ones(ToSet(TilesOf(start.groups)))
    BY <1>3, FreshCounts DEF DraftInv, InRack, OnTable
  <2> QED  BY <1>1, <1>3, <2>1 DEF TB!Next, TB!InTurn, TB!Reset
<1>4. CASE start' \in Starts /\ board' = FreshDraft(start')
  <2>1. PICK s \in Starts : s = start'  BY <1>4
  <2>2. /\ InRack(board)' = TB!Ones(s.rack)
        /\ OnTable(board)' = TB!Ones(ToSet(TilesOf(s.groups)))
        /\ s.rack \in SUBSET MoveTiles /\ ToSet(TilesOf(s.groups)) \in SUBSET MoveTiles
    BY <1>4, <2>1, FreshCounts DEF InRack, OnTable
  <2>3. start.rack' = s.rack /\ ToSet(TilesOf(start.groups))' = ToSet(TilesOf(s.groups))
    BY <2>1
  <2> QED  BY <1>1, <2>2, <2>3 DEF TB!Next, TB!NewTurn
<1> QED  BY <1>2, <1>3, <1>4 DEF TBNext

\* No gesture, rollback, undo or turn of the draft does anything to the tiles
\* that TurnBoard does not allow.
THEOREM ImplementsTurnBoard == Spec => TB!Spec
<1>1. Init => TB!Init
  <2> SUFFICES ASSUME Init  PROVE TB!Init  OBVIOUS
  <2>1. start \in Starts /\ board = FreshDraft(start)  BY DEF Init
  <2> QED  BY <2>1, FreshCounts DEF TB!Init, TB!Begun, InRack, OnTable
<1>2. DraftInv /\ [Next]_vars => [TB!Next]_(TB!vars)  BY EveryStep, TBNextIsTBStep
<1> QED  BY <1>1, <1>2, DraftInvariance, PTL DEF Spec, TB!Spec

-----------------------------------------------------------------------------
(* What TurnBoard keeps *)

Total(R, S, t) == (IF t \in R THEN 1 ELSE 0) + (IF t \in S THEN 1 ELSE 0)
Exact(R, S, r, m) == \A t \in MoveTiles : r[t] + m[t] = Total(R, S, t)
OneMore(R, S, r, m, x) == \A t \in MoveTiles : r[t] + m[t] = Total(R, S, t) + TB!Made(x, t)
AllKept(R, S, r, m) == Exact(R, S, r, m) \/ \E x \in S \ R : OneMore(R, S, r, m, x)
Counts == [MoveTiles -> Nat]

\* A move leaves the sum of the two counts of every tile; a drop that a reset
\* overtook adds one to that of the tile that was in the air.
LEMMA StepSums ==
    ASSUME NEW R, NEW S, NEW r \in Counts, NEW m \in Counts, NEW rn, NEW mn,
           Step(R, S, r, m, rn, mn)
    PROVE  /\ rn \in Counts /\ mn \in Counts
           /\ \/ \A u \in MoveTiles : rn[u] + mn[u] = r[u] + m[u]
              \/ \E t \in MoveTiles : /\ Overtook(R, S, r, m, t)
                                     /\ \A u \in MoveTiles :
                                           rn[u] + mn[u] = r[u] + m[u] + TB!Made(t, u)
<1> USE DEF Counts
<1>1. CASE rn = r /\ mn = m  BY <1>1
<1>2. ASSUME NEW t \in MoveTiles, r[t] > 0, rn = TB!Less(r, t), mn = TB!More(m, t)
      PROVE  /\ rn \in Counts /\ mn \in Counts
             /\ \A u \in MoveTiles : rn[u] + mn[u] = r[u] + m[u]
  BY <1>2 DEF TB!Less, TB!More
<1>3. ASSUME NEW t \in MoveTiles, m[t] > 0, mn = TB!Less(m, t), rn = TB!More(r, t)
      PROVE  /\ rn \in Counts /\ mn \in Counts
             /\ \A u \in MoveTiles : rn[u] + mn[u] = r[u] + m[u]
  BY <1>3 DEF TB!Less, TB!More
<1>4. ASSUME NEW t \in MoveTiles, mn = TB!More(m, t), rn = r
      PROVE  /\ rn \in Counts /\ mn \in Counts
             /\ \A u \in MoveTiles : rn[u] + mn[u] = r[u] + m[u] + TB!Made(t, u)
  BY <1>4 DEF TB!More, TB!Made
<1>5. ASSUME NEW t \in MoveTiles, NEW j \in MoveJokers, m[j] > 0, t # j,
             mn = TB!More(TB!Less(m, j), t)
      PROVE  /\ j \in MoveTiles /\ mn \in Counts
             /\ \A u \in MoveTiles : mn[u] = m[u] + TB!Made(t, u) - TB!Made(j, u)
  <2>1. j \in MoveTiles  BY DEF MoveJokers
  <2>2. PICK l : l = TB!Less(m, j)  OBVIOUS
  <2>3. l \in Counts /\ \A u \in MoveTiles : l[u] = IF u = j THEN m[j] - 1 ELSE m[u]
    BY <1>5, <2>1, <2>2 DEF TB!Less
  <2>4. mn \in Counts /\ \A u \in MoveTiles : mn[u] = IF u = t THEN l[t] + 1 ELSE l[u]
    BY <1>5, <2>2, <2>3 DEF TB!More
  <2> QED  BY <1>5, <2>1, <2>3, <2>4 DEF TB!Made
<1>6. ASSUME NEW t \in MoveTiles, NEW j \in MoveJokers, m[j] > 0, t # j,
             mn = TB!More(TB!Less(m, j), t), r[t] > 0, rn = TB!More(TB!Less(r, t), j)
      PROVE  /\ rn \in Counts /\ mn \in Counts
             /\ \A u \in MoveTiles : rn[u] + mn[u] = r[u] + m[u]
  <2>1. /\ j \in MoveTiles /\ mn \in Counts
        /\ \A u \in MoveTiles : mn[u] = m[u] + TB!Made(t, u) - TB!Made(j, u)
    BY <1>5, <1>6
  <2>2. PICK k : k = TB!Less(r, t)  OBVIOUS
  <2>3. k \in Counts /\ \A u \in MoveTiles : k[u] = IF u = t THEN r[t] - 1 ELSE r[u]
    BY <1>6, <2>2 DEF TB!Less
  <2>4. rn \in Counts /\ \A u \in MoveTiles : rn[u] = IF u = j THEN k[j] + 1 ELSE k[u]
    BY <1>6, <2>1, <2>2, <2>3 DEF TB!More
  <2> QED  BY <1>6, <2>1, <2>3, <2>4 DEF TB!Made
<1>7. ASSUME NEW t \in MoveTiles, NEW j \in MoveJokers, m[j] > 0, t # j,
             mn = TB!More(TB!Less(m, j), t), rn = TB!More(r, j)
      PROVE  /\ rn \in Counts /\ mn \in Counts
             /\ \A u \in MoveTiles : rn[u] + mn[u] = r[u] + m[u] + TB!Made(t, u)
  <2>1. /\ j \in MoveTiles /\ mn \in Counts
        /\ \A u \in MoveTiles : mn[u] = m[u] + TB!Made(t, u) - TB!Made(j, u)
    BY <1>5, <1>7
  <2>2. rn \in Counts /\ \A u \in MoveTiles : rn[u] = IF u = j THEN r[j] + 1 ELSE r[u]
    BY <1>7, <2>1 DEF TB!More
  <2> QED  BY <1>7, <2>1, <2>2 DEF TB!Made
<1> QED  BY <1>1, <1>2, <1>3, <1>4, <1>6, <1>7 DEF Step

\* Where a turn starts each of its tiles is where it was given.
LEMMA StartHasAll ==
    ASSUME NEW R \in SUBSET MoveTiles, NEW S \in SUBSET MoveTiles
    PROVE  /\ TB!Ones(R) \in Counts /\ TB!Ones(S) \in Counts
           /\ Exact(R, S, TB!Ones(R), TB!Ones(S))
BY DEF TB!Ones, Exact, Total, Counts

\* So that a step leaves the tiles as many as they are, or makes the one.
LEMMA StepKeeps ==
    ASSUME NEW R \in SUBSET MoveTiles, NEW S \in SUBSET MoveTiles,
           NEW r \in Counts, NEW m \in Counts, NEW rn, NEW mn,
           Step(R, S, r, m, rn, mn), AllKept(R, S, r, m)
    PROVE  rn \in Counts /\ mn \in Counts /\ AllKept(R, S, rn, mn)
<1>1. rn \in Counts /\ mn \in Counts  BY StepSums
<1>2. CASE \A u \in MoveTiles : rn[u] + mn[u] = r[u] + m[u]
  BY <1>1, <1>2 DEF AllKept, Exact, OneMore
<1>3. ASSUME NEW t \in MoveTiles, Overtook(R, S, r, m, t),
             \A u \in MoveTiles : rn[u] + mn[u] = r[u] + m[u] + TB!Made(t, u)
      PROVE  AllKept(R, S, rn, mn)
  <2>1. Exact(R, S, r, m) /\ t \in S \ R  BY <1>3, StartHasAll DEF Overtook
  <2>2. OneMore(R, S, rn, mn, t)  BY <1>3, <2>1 DEF Exact, OneMore
  <2> QED  BY <2>1, <2>2 DEF AllKept
<1>4. \/ \A u \in MoveTiles : rn[u] + mn[u] = r[u] + m[u]
      \/ \E t \in MoveTiles : /\ Overtook(R, S, r, m, t)
                             /\ \A u \in MoveTiles :
                                   rn[u] + mn[u] = r[u] + m[u] + TB!Made(t, u)
  BY StepSums
<1> QED  BY <1>1, <1>2, <1>3, <1>4

TBInv ==
    /\ TB!TypeOK /\ TB!TilesAreKept
    /\ start.rack \in SUBSET MoveTiles /\ ToSet(TilesOf(start.groups)) \in SUBSET MoveTiles

\* TurnBoard's own invariant, in the terms of the counts.
LEMMA KeptInCounts ==
    ASSUME NEW R \in SUBSET MoveTiles, NEW S \in SUBSET MoveTiles, NEW t \in MoveTiles
    PROVE  TB!Ones(R)[t] + TB!Ones(S)[t] = Total(R, S, t)
BY DEF TB!Ones, Total

\* TurnBoard's own invariant is inductive.
LEMMA TBInvNext == TBInv /\ [TB!Next]_(TB!vars) => TBInv'
<1> SUFFICES ASSUME TBInv, [TB!Next]_(TB!vars)  PROVE TBInv'
  OBVIOUS
<1>1. PICK r, m, R, S :
         /\ r = [t \in MoveTiles |-> Copies(t, board.rack)]
         /\ m = [t \in MoveTiles |-> Count(board.groups, t)]
         /\ R = start.rack /\ S = ToSet(TilesOf(start.groups))
  OBVIOUS
<1>2. PICK rn, mn, Rn, Sn :
         /\ rn = [t \in MoveTiles |-> Copies(t, board.rack)]'
         /\ mn = [t \in MoveTiles |-> Count(board.groups, t)]'
         /\ Rn = start.rack' /\ Sn = ToSet(TilesOf(start.groups))'
  OBVIOUS
<1>3. /\ r \in Counts /\ m \in Counts /\ R \in SUBSET MoveTiles /\ S \in SUBSET MoveTiles
  BY <1>1 DEF TBInv, TB!TypeOK, Counts
<1>4. AllKept(R, S, r, m)
  <2>1. \A t \in MoveTiles : TB!Given(t) = Total(R, S, t)
    BY <1>1, <1>3, KeptInCounts DEF TB!Given
  <2> QED  BY <1>1, <2>1 DEF TBInv, TB!TilesAreKept, AllKept, Exact, OneMore
<1>5. SUFFICES /\ rn \in Counts /\ mn \in Counts
               /\ Rn \in SUBSET MoveTiles /\ Sn \in SUBSET MoveTiles /\ AllKept(Rn, Sn, rn, mn)
  <2>1. \A t \in MoveTiles : TB!Given(t)' = TB!Ones(Rn)[t] + TB!Ones(Sn)[t]
    BY <1>2 DEF TB!Given, TB!Ones
  <2>2. \A t \in MoveTiles : TB!Given(t)' = Total(Rn, Sn, t)
    BY <1>5, <2>1, KeptInCounts
  <2>3. TB!TilesAreKept'
    BY <1>2, <1>5, <2>2 DEF TB!TilesAreKept, TB!Made, AllKept, Exact, OneMore
  <2> QED  BY <1>2, <1>5, <2>3 DEF TBInv, TB!TypeOK, Counts
<1>6. CASE Rn = R /\ Sn = S /\ Step(R, S, r, m, rn, mn)  BY <1>3, <1>4, <1>6, StepKeeps
<1>7. CASE /\ Rn \in SUBSET MoveTiles /\ Sn \in SUBSET MoveTiles
           /\ rn = TB!Ones(Rn) /\ mn = TB!Ones(Sn)
  BY <1>7, StartHasAll DEF AllKept
<1>8. CASE TB!InTurn
  <2>1. Rn = R /\ Sn = S  BY <1>1, <1>2, <1>8 DEF TB!InTurn
  <2>2. CASE TB!Reset  BY <1>1, <1>2, <1>3, <1>7, <2>1, <2>2 DEF TB!Reset
  <2>3. CASE ~TB!Reset
    <3>1. Step(R, S, r, m, rn, mn)
      BY <1>1, <1>2, <1>8, <2>3
      DEF TB!InTurn, TB!Moved, TB!Lay, TB!TakeBack, TB!Swap, TB!LayAgain, TB!SwapAgain,
          TB!Overtaken, TB!Begun, Step, Overtook
    <3> QED  BY <1>6, <2>1, <3>1
  <2> QED  BY <2>2, <2>3
<1>9. CASE TB!NewTurn  BY <1>2, <1>7, <1>9 DEF TB!NewTurn
<1>10. CASE UNCHANGED TB!vars
  <2>1. Rn = R /\ Sn = S /\ rn = r /\ mn = m  BY <1>1, <1>2, <1>10 DEF TB!vars
  <2> QED  BY <1>6, <2>1 DEF Step
<1> QED  BY <1>8, <1>9, <1>10 DEF TB!Next

\* Whatever the player drags and however often the draft is put back, no tile of
\* the turn disappears, and at most one, of the table, is there once too often:
\* the safety of pendingStore.applyMutation and of the rollbacks, of everything
\* that does what TurnBoard allows.
THEOREM TilesSurvive == TB!Spec => []TB!TilesAreKept
<1>1. TB!Init => TBInv
  <2> SUFFICES ASSUME TB!Init  PROVE TBInv  OBVIOUS
  <2>1. PICK R, S : R = start.rack /\ S = ToSet(TilesOf(start.groups))  OBVIOUS
  <2>2. R \in SUBSET MoveTiles /\ S \in SUBSET MoveTiles  BY <2>1 DEF TB!Init
  <2>3. /\ [t \in MoveTiles |-> Copies(t, board.rack)] = TB!Ones(R)
        /\ [t \in MoveTiles |-> Count(board.groups, t)] = TB!Ones(S)
    BY <2>1 DEF TB!Init, TB!Begun
  <2>4. TB!TypeOK  BY <2>2, <2>3, StartHasAll DEF TB!TypeOK, Counts
  <2>5. TB!TilesAreKept  BY <2>1, <2>3 DEF TB!TilesAreKept, TB!Given
  <2> QED  BY <2>1, <2>2, <2>4, <2>5 DEF TBInv
<1>2. TBInv => TB!TilesAreKept  BY DEF TBInv
<1> QED  BY <1>1, <1>2, TBInvNext, PTL DEF TB!Spec

\* The browser's draft, which does what TurnBoard allows, keeps its tiles too.
THEOREM DraftKeepsTiles == Spec => []TB!TilesAreKept
BY ImplementsTurnBoard, TilesSurvive, PTL

-----------------------------------------------------------------------------
(* The reducer moves the tiles the handler moves *)

Alike(out, red) ==
    /\ red.rack = out.rack
    /\ red.pending # {} => \A t : Count(red.groups, t) = Count(out.groups, t)

\* Two ways to lay the same tile are alike.
LEMMA LaidAlike ==
    ASSUME NEW b, NEW n, NEW m, NEW t, Laid(b, n, t), Laid(b, m, t)
    PROVE  Alike(n, m)
BY DEF Laid, Alike

\* What the guarded reduction does not reject it stores.
LEMMA Reduced ==
    ASSUME NEW b, NEW n, ~GuardedReduction(b, n).rejected
    PROVE  GuardedReduction(b, n).board = n
BY DEF GuardedReduction, RejectWith

\* Giving back: only the marks may differ, or nothing is left of the board.
LEMMA ReturnAlike ==
    ASSUME NEW b, NEW w, NEW t, NEW n, n.groups = NonEmpty(w), n.rack = b.rack (+) SetToBag({t})
    PROVE  ~ReduceReturn(b, w, t).rejected /\ Alike(n, ReduceReturn(b, w, t).board)
<1>1. PICK left : left = Living(b.pending, w)  OBVIOUS
<1>2. PICK red : red = ReduceReturn(b, w, t)  OBVIOUS
<1>3. ~red.rejected  BY <1>2 DEF ReduceReturn
<1>4. CASE left # {}
  <2>1. red.board = Store(w, left, b.rack (+) SetToBag({t}), b.recovered)
    BY <1>1, <1>2, <1>4 DEF ReduceReturn
  <2> QED  BY <1>2, <1>3, <2>1 DEF Store, Alike
<1>5. CASE left = {}
  <2>1. red.board = Store(<<>>, {}, b.rack (+) SetToBag({t}), b.recovered)
    BY <1>1, <1>2, <1>5 DEF ReduceReturn
  <2> QED  BY <1>2, <1>3, <2>1 DEF Store, Alike
<1> QED  BY <1>4, <1>5

\* A table tile: the reducer splits as the hook does, merges less, and gives
\* back alike.
LEMMA TableAlike ==
    ASSUME NEW b, NEW d, d.kind = "table", NEW over, NEW f, NEW melded,
           ~DragEndReducer(b, d, over, f, melded).rejected
    PROVE  Alike(TableDrop(b, d, over, melded).board, DragEndReducer(b, d, over, f, melded).board)
<1> DEFINE red == DragEndReducer(b, d, over, f, melded)
<1>0. d.kind # "rack"  OBVIOUS
<1>1. CASE ~Has(b, d.group)
  <2>1. red = RejectWith(b)  BY <1>0, <1>1 DEF DragEndReducer
  <2> QED  BY <2>1 DEF RejectWith
<1>2. CASE Has(b, d.group) /\ over = Rack
  <2>1. over \notin {Board, NewZone} /\ over \in Zones  BY <1>2, ZonesDiffer DEF Zones
  <2>2. red = ReduceTableToRack(b, d)  BY <1>0, <1>2, <2>1 DEF DragEndReducer
  <2>3. IsPending(b, d.group) /\ AtSource(b, d)  BY <2>2 DEF ReduceTableToRack, RejectWith
  <2>4. red = ReduceReturn(b, Taken(b, d), d.tile)  BY <2>2, <2>3 DEF ReduceTableToRack
  <2>5. PICK n : n = TableToRack(b, d).board  OBVIOUS
  <2>6. n.groups = NonEmpty(Taken(b, d)) /\ n.rack = b.rack (+) SetToBag({d.tile})
    BY <2>3, <2>5 DEF TableToRack, Done, Store
  <2>7. TableDrop(b, d, over, melded) = TableToRack(b, d)  BY <1>2, <2>1 DEF TableDrop
  <2>8. Alike(n, ReduceReturn(b, Taken(b, d), d.tile).board)  BY <2>6, ReturnAlike
  <2> QED  BY <2>4, <2>5, <2>7, <2>8
<1>3. CASE Has(b, d.group) /\ over \in {Board, NewZone}
  <2>1. over # Rack /\ over \in Zones  BY <1>3, ZonesDiffer DEF Zones
  <2>2. red = ReduceSplit(b, d, melded)  BY <1>0, <1>3, <2>1 DEF DragEndReducer
  <2>3. TableDrop(b, d, over, melded) = SplitToNewGroup(b, d, melded)
    BY <1>3, <2>1 DEF TableDrop
  <2>4. red.board = SplitToNewGroup(b, d, melded).board  BY <2>2 DEF ReduceSplit
  <2> QED  BY <2>3, <2>4 DEF Alike
<1>4. CASE Has(b, d.group) /\ over \notin Zones
  <2>1. over # Rack /\ over \notin {Board, NewZone}  BY <1>4 DEF Zones
  <2>2. red = ReduceTableToTable(b, d, over, melded)  BY <1>0, <1>4, <2>1 DEF DragEndReducer
  <2>3. TableDrop(b, d, over, melded) = TableToTable(b, d, over, melded)
    BY <1>4, <2>1 DEF TableDrop
  <2>4. PICK n : n = TableToTable(b, d, over, melded).board  OBVIOUS
  <2>5. red = GuardedReduction(b, n)  BY <2>2, <2>4 DEF ReduceTableToTable, RejectWith
  <2>6. red.board = n  BY <2>5, Reduced
  <2> QED  BY <2>3, <2>4, <2>6 DEF Alike
<1> QED  BY <1>1, <1>2, <1>3, <1>4 DEF Zones

\* A rack tile: the two may lay it into different groups.
LEMMA RackAlike ==
    ASSUME start \in Starts, NEW b, Sound(start, b),
           NEW d, d.kind = "rack", d.tile \in TilesAt(start),
           NEW over \in Zones \cup Ids(b.groups), NEW f, SwapAlike(b, d, over),
           RackDrop(b, d.tile, over, f, start.melded).board # b,
           ~DragEndReducer(b, d, over, f, start.melded).rejected
    PROVE  Alike(RackDrop(b, d.tile, over, f, start.melded).board,
                 DragEndReducer(b, d, over, f, start.melded).board)
<1>0. WellMade(start, b) /\ Marked(start, b)  BY DEF Sound
<1>1. PICK t \in TilesAt(start) : t = d.tile  OBVIOUS
<1>2. PICK n : n = RackDrop(b, t, over, f, start.melded).board  OBVIOUS
<1>3. PICK red : red = DragEndReducer(b, d, over, f, start.melded)  OBVIOUS
<1>4. n # b /\ ~red.rejected  BY <1>1, <1>2, <1>3
<1>5. SUFFICES Alike(n, red.board)  BY <1>1, <1>2, <1>3
<1>6. d.kind # "table"  OBVIOUS
<1>7. Laid(b, OpenGroup(b, t), t)  BY <1>0, OpenGroupOK
<1>8. ASSUME NEW id, Has(b, id), id \in b.pending  PROVE Laid(b, Append2(b, id, t), t)
  BY <1>0, <1>8, Append2OK
<1>9. CASE over = Board
  <2>1. over # Rack /\ over # NewZone  BY <1>9, ZonesDiffer
  <2>2. n = BoardDrop(b, t, f).board /\ red = ReduceBoardDrop(b, t, f)
    BY <1>1, <1>2, <1>3, <1>6, <1>9, <2>1 DEF RackDrop, DragEndReducer, Zones
  <2>3. PICK id : id = b.groups[LastPending(b)].id  OBVIOUS
  <2>4. LastPending(b) # 0 => Laid(b, Append2(b, id, t), t)
    BY <1>0, <1>8, <2>3, LastPendingFacts
  <2>5. Laid(b, n, t)
    BY <1>7, <2>2, <2>3, <2>4 DEF BoardDrop, BoardAppends, Done
  <2>6. PICK m : m = IF LastPending(b) # 0
                        /\ ~ShouldCreateNewGroup(f, t, b.groups[LastPending(b)].tiles)
                     THEN Append2(b, id, t) ELSE OpenGroup(b, t)
    OBVIOUS
  <2>7. Laid(b, m, t)  BY <1>7, <2>4, <2>6
  <2>8. red = GuardedReduction(b, m)  BY <2>2, <2>3, <2>6 DEF ReduceBoardDrop
  <2>9. red.board = m  BY <1>4, <2>8, Reduced
  <2> QED  BY <2>5, <2>7, <2>9, LaidAlike
<1>10. CASE over = NewZone
  <2>1. over # Board /\ over # Rack  BY <1>10, ZonesDiffer
  <2>2. n = OpenGroup(b, t) /\ red = GuardedReduction(b, OpenGroup(b, t))
    BY <1>1, <1>2, <1>3, <1>6, <1>10, <2>1
    DEF RackDrop, DragEndReducer, Zones, NewGroupDrop, ReduceNewGroupDrop, Done
  <2>3. red.board = n  BY <1>4, <2>2, Reduced
  <2> QED  BY <2>3 DEF Alike
<1>11. CASE over = Rack
  <2>1. over # Board /\ over # NewZone  BY <1>11, ZonesDiffer
  <2>2. n = RackToRack(b, t).board /\ red = ReduceRackToRack(b, t)
    BY <1>1, <1>2, <1>3, <1>6, <1>11, <2>1 DEF RackDrop, DragEndReducer, Zones
  <2>3. PICK from : from = FromIndex(b, t)  OBVIOUS
  <2>4. from # 0
    BY <1>4, <2>2, <2>3 DEF RackToRack, FromIndex, Ignored
  <2>5. PICK w : w = WithTiles(b.groups, b.groups[from].id, RemoveFirst(b.groups[from].tiles, t))
    OBVIOUS
  <2>6. n = Store(w, Living(b.pending, w), b.rack (+) SetToBag({t}), b.recovered)
    BY <2>2, <2>3, <2>4, <2>5 DEF RackToRack, FromIndex, Done
  <2>7. red = ReduceReturn(b, w, t)
    BY <2>2, <2>3, <2>4, <2>5 DEF ReduceRackToRack, FromIndex
  <2>8. n.groups = NonEmpty(w) /\ n.rack = b.rack (+) SetToBag({t})  BY <2>6 DEF Store
  <2> QED  BY <2>7, <2>8, ReturnAlike
<1>12. CASE over \notin Zones
  <2>0. over # Board /\ over # NewZone /\ over # Rack  BY <1>12 DEF Zones
  <2>1. MaySwap(b, over, start.melded) =>
           HookTryJokerSwap(TilesIn(b, over), t) = TryJokerSwap(TilesIn(b, over), t)
    BY <1>1 DEF SwapAlike
  <2>2. CASE MaySwap(b, over, start.melded) /\ HookTryJokerSwap(TilesIn(b, over), t).ok
    <3>1. n = JokerSwapDrop(b, over, t).board /\ red = ReduceJokerSwap(b, over, t)
      BY <1>1, <1>2, <1>3, <1>6, <2>0, <2>1, <2>2, <1>12 DEF RackDrop, DragEndReducer
    <3>2. PICK sw : sw = HookTryJokerSwap(TilesIn(b, over), t) /\ sw = TryJokerSwap(TilesIn(b, over), t)
      BY <2>1, <2>2
    <3>3. n = Store(WithTiles(b.groups, over, sw.tiles), b.pending \cup {over},
                    RemoveFirstOccurrence(b.rack, t) (+) SetToBag({sw.joker}),
                    b.recovered \cup {sw.joker})
      BY <3>1, <3>2 DEF JokerSwapDrop, Done
    <3>4. red = GuardedReduction(b, n)  BY <3>1, <3>2, <3>3 DEF ReduceJokerSwap
    <3>5. red.board = n  BY <1>4, <3>4, Reduced
    <3> QED  BY <3>5 DEF Alike
  <2>3. CASE ~(MaySwap(b, over, start.melded) /\ HookTryJokerSwap(TilesIn(b, over), t).ok)
    <3>1. PICK m : m = IF (IsPending(b, over) \/ start.melded)
                          /\ IsCompatibleWithGroup(t, TilesIn(b, over))
                       THEN Append2(b, over, t) ELSE OpenGroup(b, t)
      OBVIOUS
    <3>2. red = GuardedReduction(b, m)
      <4>1. red = IF IsPending(b, over) THEN ReducePendingDrop(b, over, t)
                  ELSE ReduceServerDrop(b, over, t, start.melded)
        BY <1>1, <1>3, <1>6, <2>0, <2>1, <2>3, <1>12 DEF DragEndReducer
      <4> QED  BY <3>1, <4>1 DEF ReducePendingDrop, ReduceServerDrop
    <3>3. n = m
      <4>1. n = (IF IsPending(b, over) THEN PendingDrop(b, over, t)
                 ELSE IF start.melded THEN ServerDropAfterMeld(b, over, t)
                 ELSE ServerDropBeforeMeld(b, t)).board
        BY <1>2, <2>0, <2>3 DEF RackDrop
      <4> QED  BY <1>4, <3>1, <4>1, GuardedBoard
               DEF PendingDrop, ServerDropAfterMeld, ServerDropBeforeMeld, Done
    <3>4. red.board = n  BY <1>4, <3>2, <3>3, Reduced
    <3> QED  BY <3>4 DEF Alike
  <2> QED  BY <2>2, <2>3
<1> QED  BY <1>9, <1>10, <1>11, <1>12 DEF Zones

\* Wherever a tile hangs over the board of a draft that can be reached, the
\* reducer and the handler, when both accept the drop, move the same tiles.
THEOREM ReducerCorrect == Spec => []ReducerMovesTheSame
<1>1. DraftInv => ReducerMovesTheSame
  <2> SUFFICES ASSUME DraftInv, drag # NoDrag, NEW over \in Zones \cup Ids(board.groups),
                      DropResult(board, drag, over, force, start.melded).board # board,
                      ~DragEndReducer(board, drag, over, force, start.melded).rejected,
                      SwapAlike(board, drag, over)
               PROVE  Alike(DropResult(board, drag, over, force, start.melded).board,
                            DragEndReducer(board, drag, over, force, start.melded).board)
    BY DEF ReducerMovesTheSame, Alike
  <2>1. /\ start \in Starts /\ Sound(start, board) /\ drag.tile \in TilesAt(start)
        /\ drag.kind = "rack" \/ drag.kind = "table"
    BY DEF DraftInv, Sound, DragOK
  <2>2. CASE drag.kind = "table"  BY <2>2, TableAlike DEF DropResult
  <2>3. CASE drag.kind = "rack"
    <3>1. DropResult(board, drag, over, force, start.melded)
            = RackDrop(board, drag.tile, over, force, start.melded)
      BY <2>3 DEF DropResult
    <3> QED  BY <2>1, <2>3, <3>1, RackAlike
  <2> QED  BY <2>1, <2>2, <2>3
<1> QED  BY <1>1, DraftInvariance, PTL

\* The draft implements TurnBoard, and the reducer that is tested in the
\* handler's place moves the tiles the handler moves.
THEOREM MovesCorrect == Spec => MovesTilesOnly
<1>1. Spec => [][ReducerMovesTheSame]_vars  BY ReducerCorrect, PTL
<1> QED  BY <1>1, ImplementsTurnBoard DEF MovesTilesOnly

-----------------------------------------------------------------------------
(* What is sent *)

\* The tiles of the pending groups, as a sequence of sequences of tiles.
LEMMA PendingSetsType ==
    ASSUME NEW s, NEW b, WellMade(s, b)
    PROVE  PendingSets(b) \in Seq(Seq(TilesAt(s)))
<1>1. PICK q : q = b.groups  OBVIOUS
<1>2. q \in Seq(GroupsOver(AllIds(s), TilesAt(s))) /\ Len(q) \in Nat
  BY <1>1, BoardFacts DEF Distinct
<1>3. PICK T : T = Seq(TilesAt(s))  OBVIOUS
<1>4. PICK ss : ss = [i \in 1 .. Len(q) |-> IF IsPending(b, q[i].id) THEN <<q[i].tiles>> ELSE <<>>]
  OBVIOUS
<1>5. \A i \in 1 .. Len(q) : q[i].tiles \in T
  <2>1. \A i \in 1 .. Len(q) : q[i] \in GroupsOver(AllIds(s), TilesAt(s))  BY <1>2
  <2> QED  BY <1>3, <2>1 DEF GroupsOver
<1>6. ss \in Seq(Seq(T))
  <2>1. ASSUME NEW i \in 1 .. Len(q)  PROVE ss[i] \in Seq(T)
    BY <1>4, <1>5, <2>1
  <2> QED  BY <1>2, <1>4, <2>1
<1>7. FlattenSeq(ss) \in Seq(T)  BY <1>6, FlattenProperties
<1> QED  BY <1>1, <1>3, <1>4, <1>7 DEF PendingSets

FirstBad(sets) == SelectInSeq(sets, LAMBDA ts : GroupError(ts) # "ok")

\* A group too small is an error, and the first error is what the check returns.
LEMMA CheckedSets ==
    ASSUME NEW S, NEW sets \in Seq(S), NEW melded, NEW score, NEW added,
           ValidateTurnPreCheck(sets, melded, score, added) = "ok"
    PROVE  /\ ~(added < 1) /\ (melded \/ ~(score < 30))
           /\ \A i \in 1 .. Len(sets) : CheckSetSize(sets[i])
<1> DEFINE I == {i \in 1 .. Len(sets) : GroupError(sets[i]) # "ok"}
<1>1. PICK bad : bad = FirstBad(sets)  OBVIOUS
<1>2. bad = IF I # {} THEN Min(I) ELSE 0  BY <1>1 DEF FirstBad, SelectInSeq
<1>3. /\ ~(added < 1) /\ (melded \/ ~(score < 30))
      /\ IF bad = 0 THEN TRUE ELSE GroupError(sets[bad]) = "ok"
  BY <1>1 DEF ValidateTurnPreCheck, FirstBad
<1>4. I = {}
  <2> SUFFICES ASSUME I # {}  PROVE FALSE  OBVIOUS
  <2>1. I \subseteq Nat  OBVIOUS
  <2>2. \E i \in I : \A j \in I : i <= j  BY <2>1, SmallestOf
  <2>3. bad \in I  BY <1>2, <2>2 DEF Min
  <2> QED  BY <1>3, <2>3
<1>5. ASSUME NEW i \in 1 .. Len(sets)  PROVE CheckSetSize(sets[i])
  <2>1. GroupError(sets[i]) = "ok"  BY <1>4
  <2> QED  BY <2>1 DEF GroupError
<1> QED  BY <1>3, <1>5

\* A tile lies on the board when it has a place there.
LEMMA OnBoard ==
    ASSUME NEW s, NEW b, WellMade(s, b), NEW t
    PROVE  t \in ToSet(TilesOf(b.groups)) <=> Count(b.groups, t) > 0
<1>1. PICK G : G = ToSet(b.groups)  OBVIOUS
<1>2. /\ b.groups \in Seq(GroupsOver(AllIds(s), TilesAt(s)))
      /\ G \subseteq GroupsOver(AllIds(s), TilesAt(s)) /\ IsFiniteSet(G)
  BY <1>1, BoardFacts DEF Distinct
<1>3. t \in ToSet(TilesOf(b.groups)) <=> \E g \in G : \E j \in 1 .. Len(g.tiles) : g.tiles[j] = t
  BY <1>1, <1>2, TilesOfProperties
<1>4. PICK P : P = Places(G, t)  OBVIOUS
<1>5. IsFiniteSet(P)  BY <1>2, <1>4, PlacesFinite
<1>6. P # {} <=> \E g \in G : \E j \in 1 .. Len(g.tiles) : g.tiles[j] = t
  <2>1. \A p : p \in P
           <=> \E g \in G : \E j \in 1 .. Len(g.tiles) : g.tiles[j] = t /\ p = <<g.id, j>>
    BY <1>4, PlacesMembers
  <2>2. ASSUME NEW g \in G, NEW j \in 1 .. Len(g.tiles), g.tiles[j] = t  PROVE P # {}
    <3>1. <<g.id, j>> \in P  BY <2>1, <2>2
    <3> QED  BY <3>1
  <2>3. ASSUME NEW p \in P
        PROVE  \E g \in G : \E j \in 1 .. Len(g.tiles) : g.tiles[j] = t
    BY <2>1
  <2> QED  BY <2>2, <2>3
<1>7. Cardinality(P) \in Nat /\ (Cardinality(P) = 0 <=> P = {})
  BY <1>5, FS_CardinalityType, FS_EmptySet
<1>8. Count(b.groups, t) = Cardinality(P)  BY <1>1, <1>4 DEF Count
<1> QED  BY <1>3, <1>6, <1>7, <1>8

\* A turn that goes out lays down exactly the tiles it names, each once, and the
\* other check of the code would have let it out too.
THEOREM SentCorrect == Spec => []SentIsExact
<1>1. DraftInv => SentIsExact
  <2> SUFFICES ASSUME DraftInv, MayBeSent(board)
               PROVE  /\ DetectDuplicateTileCodes(board.groups) = {}
                      /\ ToSet(TilesOf(board.groups)) \ ToSet(TilesOf(start.groups))
                            = TilesFromRack(board)
                      /\ CanConfirmTurn(PendingSets(board), start.melded, board.recovered,
                                        TilesAdded(board))
    BY DEF SentIsExact
  <2>1. start \in Starts /\ WellMade(start, board) /\ HeldOnce(start, board)  BY DEF DraftInv
  <2>2. DetectDuplicateTileCodes(board.groups) = {}  BY DEF MayBeSent
  <2>3. IsABag(board.rack)  BY <2>1 DEF WellMade
  <2>4. ASSUME NEW t
        PROVE  t \in ToSet(TilesOf(board.groups)) /\ t \notin ToSet(TilesOf(start.groups))
                 <=> t \in start.rack /\ t \notin BagToSet(board.rack)
    <3>1. t \in ToSet(TilesOf(board.groups)) <=> Count(board.groups, t) > 0  BY <2>1, OnBoard
    <3>2. t \in BagToSet(board.rack) <=> Copies(t, board.rack) > 0  BY <2>3, CopiesNat
    <3>3. Count(board.groups, t) \in Nat /\ Copies(t, board.rack) \in Nat
      BY <2>1, <2>3, BoardFacts, CountNat, CopiesNat
    <3>4. t \in start.rack => Copies(t, board.rack) + Count(board.groups, t) = 1
      BY <2>1 DEF HeldOnce
    <3>5. t \in start.rack => t \notin ToSet(TilesOf(start.groups))  BY <2>1, StartFacts
    <3>6. t \in ToSet(TilesOf(board.groups)) =>
             t \in start.rack \/ t \in ToSet(TilesOf(start.groups))
      <4>1. board.groups \in Seq(GroupsOver(AllIds(start), TilesAt(start)))
        BY <2>1, BoardFacts DEF Distinct
      <4>2. TilesOf(board.groups) \in Seq(TilesAt(start))  BY <4>1, TilesOfProperties
      <4>3. \A u \in ToSet(TilesOf(board.groups)) : u \in TilesAt(start)  BY <4>2 DEF ToSet
      <4> QED  BY <4>3 DEF TilesAt
    <3> QED  BY <3>1, <3>2, <3>3, <3>4, <3>5, <3>6
  <2>5. ToSet(TilesOf(board.groups)) \ ToSet(TilesOf(start.groups)) = TilesFromRack(board)
    BY <2>4 DEF TilesFromRack
  <2>6. board.recovered = {}
    <3>1. \A j \in board.recovered : j \in BagToSet(board.rack)  BY <2>1 DEF WellMade
    <3> QED  BY <3>1 DEF MayBeSent, Unplaced
  <2>7. PICK sets : sets = PendingSets(board)  OBVIOUS
  <2>8. sets \in Seq(Seq(TilesAt(start)))  BY <2>1, <2>7, PendingSetsType
  <2>9. /\ sets # <<>>
        /\ ValidateTurnPreCheck(sets, start.melded, ComputePendingScore(sets), TilesAdded(board))
             = "ok"
    BY <2>7 DEF MayBeSent
  <2>10. /\ ~(TilesAdded(board) < 1)
         /\ start.melded \/ ~(ComputePendingScore(sets) < 30)
         /\ \A i \in 1 .. Len(sets) : CheckSetSize(sets[i])
    BY <2>8, <2>9, CheckedSets
  <2>11. CanConfirmTurn(sets, start.melded, board.recovered, TilesAdded(board))
    BY <2>6, <2>9, <2>10 DEF CanConfirmTurn
  <2> QED  BY <2>2, <2>5, <2>7, <2>11
<1> QED  BY <1>1, DraftInvariance, PTL

=============================================================================
