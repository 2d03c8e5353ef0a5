---------------------------- MODULE RulesProofs ----------------------------
(***************************************************************************)
(* Proofs about the rules of the game for every finite set of tiles: the   *)
(* engine takes a set exactly when the jokers can be read so that it is a  *)
(* group or a run, and a run is scored for the best of its readings; and   *)
(* the copies of the rules on the client decide as the engine does.  The   *)
(* run of MCRulesEngine looks at the sets of its universes; the lemmas     *)
(* here do not speak of a universe.                                        *)
(*                                                                         *)
(* The engine decides by counting: as many colors (numbers) as plain       *)
(* tiles, a span no wider than the set, a start that leaves room up to 13. *)
(* The reference speaks of places.  What joins them is that a map onto a   *)
(* finite set of the same size is one to one, and that distinct numbers    *)
(* of an interval are at most as many as its length.                       *)
(*                                                                         *)
(* The client has a sequence where the engine has a set.  The sequence     *)
(* codes the set when it has the code of each of its tiles once; then the  *)
(* counts are the same on both sides, and the tests of both can be said of *)
(* the tiles themselves (GroupLike, RunLike), where they are compared.     *)
(***************************************************************************)
EXTENDS MCRulesEngine, FiniteSetTheorems, SequenceTheorems, TLAPS

\* What the engine is given: finitely many tiles, the plain ones numbered 1 to 13.
TileSet(g) == IsFiniteSet(g) /\ \A t \in Plain(g) : t.number \in 1 .. MaxNumber

-----------------------------------------------------------------------------
(* Smallest and largest numbers *)

(***************************************************************************)
(* A nonempty set of natural numbers has a smallest one.                   *)
(***************************************************************************)
LEMMA SmallestNumber ==
    ASSUME NEW S \in SUBSET Nat, S # {}
    PROVE  \E i \in S : \A j \in S : i <= j
<1>1. PICK i \in S : \A j \in S : ~ (<<j, i>> \in OpToRel(<, Nat))
  BY NatLessThanWellFounded, WFMin
<1>2. \A j \in S : <<j, i>> \in OpToRel(<, Nat) <=> j < i
  BY DEF OpToRel
<1>3. \A j \in S : ~ (j < i)
  BY <1>1, <1>2, Zenon
<1> QED  BY <1>3

(***************************************************************************)
(* A nonempty set of natural numbers that has a bound has a largest one:   *)
(* the smallest of its bounds.                                             *)
(***************************************************************************)
LEMMA LargestNumber ==
    ASSUME NEW S \in SUBSET Nat, S # {}, NEW n \in Nat, \A i \in S : i <= n
    PROVE  \E i \in S : \A j \in S : j <= i
<1> DEFINE bounds == {m \in Nat : \A i \in S : i <= m}
<1>1. n \in bounds  OBVIOUS
<1>2. PICK m \in bounds : \A k \in bounds : m <= k
  <2> HIDE DEF bounds
  <2>1. bounds \in SUBSET Nat  BY DEF bounds
  <2> QED  BY <1>1, <2>1, SmallestNumber
<1>3. m \in S
  <2> SUFFICES ASSUME m \notin S  PROVE FALSE
    OBVIOUS
  <2>1. \A i \in S : i < m  BY <1>2
  <2>2. PICK i \in S : i < m  BY <2>1
  <2>3. m \in Nat /\ m - 1 \in Nat  BY <1>2, <2>2
  <2>4. m - 1 \in bounds  BY <2>1, <2>3
  <2> QED  BY <1>2, <2>3, <2>4
<1> QED  BY <1>2, <1>3

(***************************************************************************)
(* Min and Max of the numbers of a set are its smallest and largest one.   *)
(***************************************************************************)
LEMMA MinAndMax ==
    ASSUME NEW S \in SUBSET (1 .. MaxNumber), S # {}
    PROVE  /\ Min(S) \in S /\ \A i \in S : Min(S) <= i
           /\ Max(S) \in S /\ \A i \in S : i <= Max(S)
<1>1. S \in SUBSET Nat /\ \A i \in S : i <= 13  BY DEF MaxNumber
<1>2. \E i \in S : \A j \in S : i <= j  BY <1>1, SmallestNumber
<1>3. \E i \in S : \A j \in S : i >= j  BY <1>1, LargestNumber
<1>4. Min(S) \in S /\ \A i \in S : Min(S) <= i  BY <1>2 DEF Min
<1>5. Max(S) \in S /\ \A i \in S : Max(S) >= i  BY <1>3 DEF Max
<1> QED  BY <1>1, <1>4, <1>5

(***************************************************************************)
(* The larger of two numbers, as RunBounds and RunScore take it.           *)
(***************************************************************************)
LEMMA LargerOfTwo ==
    ASSUME NEW a \in Int, NEW b \in Int
    PROVE  Max({a, b}) = IF a >= b THEN a ELSE b
<1> DEFINE larger == IF a >= b THEN a ELSE b
<1>1. larger \in {a, b} /\ \A y \in {a, b} : larger >= y  OBVIOUS
<1>2. \A x \in {a, b} : (\A y \in {a, b} : x >= y) => x = larger  OBVIOUS
<1>3. (CHOOSE x \in {a, b} : \A y \in {a, b} : x >= y) = larger
  <2> HIDE DEF larger
  <2> QED  BY <1>1, <1>2
<1> QED  BY <1>3 DEF Max

-----------------------------------------------------------------------------
(* What the counts say *)

(***************************************************************************)
(* A set is its plain tiles and its jokers.                                *)
(***************************************************************************)
LEMMA PlainAndJokers ==
    ASSUME NEW g, IsFiniteSet(g)
    PROVE  /\ IsFiniteSet(Plain(g))
           /\ Cardinality(g) \in Nat /\ Cardinality(Plain(g)) \in Nat
           /\ Cardinality(Jokers(g)) \in Nat
           /\ Cardinality(g) = Cardinality(Plain(g)) + Cardinality(Jokers(g))
<1>1. Jokers(g) \in SUBSET g /\ g \cap Jokers(g) = Jokers(g)  BY DEF Jokers
<1>2. IsFiniteSet(Jokers(g)) /\ IsFiniteSet(Plain(g))
  BY <1>1, FS_Subset, FS_Difference DEF Plain
<1>3. Cardinality(Plain(g)) = Cardinality(g) - Cardinality(Jokers(g))
  BY <1>1, FS_Difference DEF Plain
<1>4. Cardinality(g) \in Nat /\ Cardinality(Plain(g)) \in Nat /\ Cardinality(Jokers(g)) \in Nat
  BY <1>2, FS_CardinalityType
<1> QED  BY <1>2, <1>3, <1>4

(***************************************************************************)
(* There are as many numbers as plain tiles exactly when no two tiles have *)
(* the same one, and the same for the colors: the duplicate checks of      *)
(* ValidateRun and ValidateGroup.                                          *)
(***************************************************************************)
LEMMA CountsTellDuplicates ==
    ASSUME NEW g, IsFiniteSet(g)
    PROVE  /\ IsFiniteSet(Numbers(g)) /\ IsFiniteSet(Colors(g))
           /\ Cardinality(Numbers(g)) = Cardinality(Plain(g))
                <=> \A t, u \in Plain(g) : t.number = u.number => t = u
           /\ Cardinality(Colors(g)) = Cardinality(Plain(g))
                <=> \A t, u \in Plain(g) : t.color = u.color => t = u
<1>1. IsFiniteSet(Plain(g))  BY PlainAndJokers
<1>2. /\ IsFiniteSet(Numbers(g))
      /\ Cardinality(Numbers(g)) = Cardinality(Plain(g))
           <=> \A t, u \in Plain(g) : t.number = u.number => t = u
  <2> DEFINE f == [t \in Plain(g) |-> t.number]
  <2>1. f \in Surjection(Plain(g), Numbers(g))  BY DEF Surjection, Numbers
  <2>2. /\ IsFiniteSet(Numbers(g))
        /\ Cardinality(Numbers(g)) = Cardinality(Plain(g)) <=> f \in Injection(Plain(g), Numbers(g))
    BY <1>1, <2>1, FS_Surjection
  <2>3. f \in Injection(Plain(g), Numbers(g))
          <=> \A t, u \in Plain(g) : t.number = u.number => t = u
    BY DEF Injection, IsInjective, Numbers
  <2> QED  BY <2>2, <2>3
<1>3. /\ IsFiniteSet(Colors(g))
      /\ Cardinality(Colors(g)) = Cardinality(Plain(g))
           <=> \A t, u \in Plain(g) : t.color = u.color => t = u
  <2> DEFINE f == [t \in Plain(g) |-> t.color]
  <2>1. f \in Surjection(Plain(g), Colors(g))  BY DEF Surjection, Colors
  <2>2. /\ IsFiniteSet(Colors(g))
        /\ Cardinality(Colors(g)) = Cardinality(Plain(g)) <=> f \in Injection(Plain(g), Colors(g))
    BY <1>1, <2>1, FS_Surjection
  <2>3. f \in Injection(Plain(g), Colors(g))
          <=> \A t, u \in Plain(g) : t.color = u.color => t = u
    BY DEF Injection, IsInjective, Colors
  <2> QED  BY <2>2, <2>3
<1> QED  BY <1>2, <1>3

(***************************************************************************)
(* One number (one color) is counted exactly when there are plain tiles    *)
(* and all of them have it.                                                *)
(***************************************************************************)
LEMMA CountsTellUniform ==
    ASSUME NEW g, IsFiniteSet(g)
    PROVE  /\ Cardinality(Numbers(g)) = 1
                <=> Plain(g) # {} /\ \A t, u \in Plain(g) : t.number = u.number
           /\ Cardinality(Colors(g)) = 1
                <=> Plain(g) # {} /\ \A t, u \in Plain(g) : t.color = u.color
<1>1. IsFiniteSet(Numbers(g)) /\ IsFiniteSet(Colors(g))  BY CountsTellDuplicates
<1>2. (\E x : Numbers(g) = {x}) <=> Plain(g) # {} /\ \A t, u \in Plain(g) : t.number = u.number
  BY DEF Numbers
<1>3. (\E x : Colors(g) = {x}) <=> Plain(g) # {} /\ \A t, u \in Plain(g) : t.color = u.color
  BY DEF Colors
<1> QED  BY <1>1, <1>2, <1>3, FS_Singleton

-----------------------------------------------------------------------------
(* Groups *)

(***************************************************************************)
(* A set passes ValidateGroup exactly when it can be read as a group, and  *)
(* then its only reading is the one number of its plain tiles, which is    *)
(* the one GroupScore multiplies.                                          *)
(***************************************************************************)
LEMMA GroupsHaveReadings ==
    ASSUME NEW g, TileSet(g)
    PROVE  /\ ValidateGroup(g) <=> GroupReadings(g) # {}
           /\ ValidateGroup(g) => Min(Numbers(g)) \in GroupReadings(g)
<1>1. IsFiniteSet(g) /\ Cardinality(g) \in Nat  BY PlainAndJokers DEF TileSet
<1>2. /\ Cardinality(Numbers(g)) = 1
           <=> Plain(g) # {} /\ \A t, u \in Plain(g) : t.number = u.number
      /\ Cardinality(Colors(g)) = Cardinality(Plain(g))
           <=> \A t, u \in Plain(g) : t.color = u.color => t = u
  BY <1>1, CountsTellUniform, CountsTellDuplicates
<1>3. Numbers(g) \in SUBSET (1 .. MaxNumber)  BY DEF TileSet, Numbers
<1>4. ASSUME ValidateGroup(g)  PROVE Min(Numbers(g)) \in GroupReadings(g)
  <2>1. Plain(g) # {} /\ \A t, u \in Plain(g) : t.number = u.number
    BY <1>2, <1>4 DEF ValidateGroup
  <2>2. Numbers(g) # {}  BY <2>1 DEF Numbers
  <2>3. Min(Numbers(g)) \in Numbers(g)  BY <1>3, <2>2, MinAndMax
  <2>4. \A t \in Plain(g) : t.number = Min(Numbers(g))  BY <2>1, <2>3 DEF Numbers
  <2>5. Cardinality(g) \in {3, 4}  BY <1>1, <1>4 DEF ValidateGroup
  <2> QED  BY <1>2, <1>3, <1>4, <2>1, <2>3, <2>4, <2>5 DEF GroupReadings, ValidateGroup
<1>5. ASSUME NEW n \in GroupReadings(g)  PROVE ValidateGroup(g)
  <2>1. /\ Cardinality(g) \in {3, 4} /\ Plain(g) # {}
        /\ \A t \in Plain(g) : t.number = n
        /\ \A t, u \in Plain(g) : t.color = u.color => t = u
    BY <1>5 DEF GroupReadings
  <2> QED  BY <1>2, <2>1 DEF ValidateGroup
<1> QED  BY <1>4, <1>5

-----------------------------------------------------------------------------
(* Runs *)

(***************************************************************************)
(* The numbers of a set that passes the first checks of ValidateRun: its   *)
(* smallest and largest ones are on the board of the game, and there are   *)
(* no more plain tiles than places from the one to the other.              *)
(***************************************************************************)
LEMMA SpanOfDistinct ==
    ASSUME NEW g, TileSet(g), Plain(g) # {},
           \A t, u \in Plain(g) : t.number = u.number => t = u
    PROVE  /\ Min(Numbers(g)) \in 1 .. MaxNumber /\ Max(Numbers(g)) \in 1 .. MaxNumber
           /\ Min(Numbers(g)) \in Numbers(g) /\ Max(Numbers(g)) \in Numbers(g)
           /\ \A t \in Plain(g) : Min(Numbers(g)) <= t.number /\ t.number <= Max(Numbers(g))
           /\ Cardinality(Plain(g)) <= Max(Numbers(g)) - Min(Numbers(g)) + 1
<1> DEFINE lo == Min(Numbers(g))
           hi == Max(Numbers(g))
<1>1. Numbers(g) \in SUBSET (1 .. MaxNumber) /\ Numbers(g) # {}  BY DEF TileSet, Numbers
<1>2. /\ lo \in Numbers(g) /\ \A i \in Numbers(g) : lo <= i
      /\ hi \in Numbers(g) /\ \A i \in Numbers(g) : i <= hi
  BY <1>1, MinAndMax
<1>3. \A t \in Plain(g) : t.number \in Numbers(g)  BY DEF Numbers
<1>4. lo \in 1 .. 13 /\ hi \in 1 .. 13 /\ lo <= hi  BY <1>1, <1>2 DEF MaxNumber
<1> HIDE DEF lo, hi
<1>5. Numbers(g) \in SUBSET (lo .. hi)  BY <1>1, <1>2, <1>4 DEF MaxNumber
<1>6. IsFiniteSet(lo .. hi) /\ Cardinality(lo .. hi) = hi - lo + 1  BY <1>4, FS_Interval
<1>7. Cardinality(Numbers(g)) <= hi - lo + 1
  <2>1. Cardinality(Numbers(g)) <= Cardinality(lo .. hi)  BY <1>5, <1>6, FS_Subset
  <2> QED  BY <1>6, <2>1
<1>8. Cardinality(Numbers(g)) = Cardinality(Plain(g))
  BY CountsTellDuplicates DEF TileSet
<1> QED  BY <1>2, <1>3, <1>4, <1>7, <1>8 DEF lo, hi, MaxNumber

\* The first number of the best reading: as low as the lowest plain tile, or
\* as low as a run of that length has to start.
BestStart(g) ==
    IF Min(Numbers(g)) <= MaxNumber + 1 - Cardinality(g)
    THEN Min(Numbers(g)) ELSE MaxNumber + 1 - Cardinality(g)

\* What ValidateRun says in terms of the tiles.
LooksLikeRun(g) ==
    /\ Cardinality(g) >= 3
    /\ Plain(g) # {}
    /\ \A t, u \in Plain(g) : t.color = u.color /\ (t.number = u.number => t = u)

(***************************************************************************)
(* The counts of ValidateRun say that the plain tiles have one color and   *)
(* distinct numbers.                                                       *)
(***************************************************************************)
LEMMA RunIsSeen ==
    ASSUME NEW g, TileSet(g)
    PROVE  ValidateRun(g) <=> LooksLikeRun(g) /\ RunBounds(g)
<1>1. IsFiniteSet(g)  BY DEF TileSet
<1>2. /\ Cardinality(Colors(g)) = 1
           <=> Plain(g) # {} /\ \A t, u \in Plain(g) : t.color = u.color
      /\ Cardinality(Numbers(g)) = Cardinality(Plain(g))
           <=> \A t, u \in Plain(g) : t.number = u.number => t = u
  BY <1>1, CountsTellUniform, CountsTellDuplicates
<1> QED  BY <1>2 DEF ValidateRun, LooksLikeRun

(***************************************************************************)
(* RunBounds is exactly that some first number fits: when it holds the     *)
(* best start is a reading, and when there is a reading it holds.  Every   *)
(* reading starts at the best start or below.                              *)
(***************************************************************************)
LEMMA BoundsAreReadings ==
    ASSUME NEW g, TileSet(g), LooksLikeRun(g)
    PROVE  /\ RunBounds(g) => BestStart(g) \in RunReadings(g)
           /\ RunReadings(g) # {} => RunBounds(g)
           /\ \A s \in RunReadings(g) : s <= BestStart(g)
<1> DEFINE lo == Min(Numbers(g))
           hi == Max(Numbers(g))
           n == Cardinality(g)
           p == Cardinality(Plain(g))
           j == Cardinality(Jokers(g))
<1>1. n \in Nat /\ p \in Nat /\ j \in Nat /\ n = p + j /\ n >= 3
  BY PlainAndJokers DEF TileSet, LooksLikeRun
<1>2. /\ lo \in 1 .. 13 /\ hi \in 1 .. 13
      /\ \A t \in Plain(g) : t.number \in 1 .. 13 /\ lo <= t.number /\ t.number <= hi
      /\ p <= hi - lo + 1
  BY SpanOfDistinct DEF LooksLikeRun, MaxNumber, TileSet
<1>3. lo \in Numbers(g) /\ hi \in Numbers(g)
  BY SpanOfDistinct DEF LooksLikeRun
<1>4. Max({1, lo - j}) = IF 1 >= lo - j THEN 1 ELSE lo - j
  BY <1>1, <1>2, LargerOfTwo
<1>5. RunBounds(g) <=> /\ hi - lo + 1 <= n
                       /\ (IF 1 >= lo - j THEN 1 ELSE lo - j) + n - 1 <= 13
  BY <1>4 DEF RunBounds, MaxNumber
<1>6. BestStart(g) = IF lo <= 14 - n THEN lo ELSE 14 - n
  BY <1>1, <1>2 DEF BestStart, MaxNumber
<1>7. \A s : s \in RunReadings(g) <=>
                /\ s \in 1 .. 13 /\ s + n - 1 <= 13
                /\ \A t \in Plain(g) : t.number \in s .. s + n - 1
  BY <1>1 DEF RunReadings, LooksLikeRun, MaxNumber
<1>8. PICK t \in Plain(g), u \in Plain(g) : t.number = lo /\ u.number = hi
  BY <1>3 DEF Numbers
<1> HIDE DEF lo, hi, n, p, j
<1>9. ASSUME RunBounds(g)  PROVE BestStart(g) \in RunReadings(g)
  <2> DEFINE s == IF lo <= 14 - n THEN lo ELSE 14 - n
  <2>1. s \in 1 .. 13 /\ s + n - 1 <= 13 /\ s <= lo /\ hi <= s + n - 1
    BY <1>1, <1>2, <1>5, <1>9
  <2> HIDE DEF s
  <2>2. \A v \in Plain(g) : v.number \in s .. s + n - 1
    BY <1>1, <1>2, <2>1
  <2>3. s \in RunReadings(g)  BY <1>7, <2>1, <2>2
  <2> QED  BY <1>6, <2>3 DEF s
<1>10. ASSUME NEW s \in RunReadings(g)  PROVE RunBounds(g) /\ s <= BestStart(g)
  <2>1. s \in 1 .. 13 /\ s + n - 1 <= 13 /\ lo \in s .. s + n - 1 /\ hi \in s .. s + n - 1
    BY <1>7, <1>8, <1>10
  <2> QED  BY <1>1, <1>2, <1>5, <1>6, <2>1
<1> QED  BY <1>9, <1>10

(***************************************************************************)
(* A set passes ValidateRun exactly when it can be read as a run.          *)
(***************************************************************************)
LEMMA RunsHaveReadings ==
    ASSUME NEW g, TileSet(g)
    PROVE  /\ ValidateRun(g) <=> RunReadings(g) # {}
           /\ ValidateRun(g) => /\ BestStart(g) \in RunReadings(g)
                                /\ \A s \in RunReadings(g) : s <= BestStart(g)
<1>1. ValidateRun(g) <=> LooksLikeRun(g) /\ RunBounds(g)  BY RunIsSeen
<1>2. RunReadings(g) # {} => LooksLikeRun(g)  BY DEF RunReadings, LooksLikeRun
<1> QED  BY <1>1, <1>2, BoundsAreReadings

(***************************************************************************)
(* The engine accepts exactly the sets with a legal reading.               *)
(***************************************************************************)
LEMMA AcceptedIsLegal ==
    ASSUME NEW g, TileSet(g)
    PROVE  SetType(g) # "invalid" <=> (GroupReadings(g) # {} \/ RunReadings(g) # {})
<1>1. ValidateGroup(g) => Cardinality(g) >= 3
  BY PlainAndJokers DEF ValidateGroup, TileSet
<1>2. SetType(g) # "invalid" <=> ValidateGroup(g) \/ ValidateRun(g)
  BY <1>1, Zenon DEF SetType
<1> QED  BY <1>2, GroupsHaveReadings, RunsHaveReadings

-----------------------------------------------------------------------------
(* The score of a run.  RunScore folds over the places of the run, picking *)
(* them one by one: a recursive function on the sets of places, of which   *)
(* the definition only says that it is CHOSEN to satisfy its equation.     *)
(* That such a function exists, that it gives the same whichever place is  *)
(* taken first, and what it gives, is proved by taking the smallest size   *)
(* for which it fails.                                                     *)

PickedPlace(s)   == CHOOSE i \in s : TRUE
SumOf(f, a, s)   == IF s = {} THEN 0 ELSE (a + PickedPlace(s)) + f[s \ {PickedPlace(s)}]
Sums(f, a, T)    == f = [s \in SUBSET T |-> SumOf(f, a, s)]

\* The sum of the numbers of a run of n tiles that starts at a.
SumFrom(a, n) == MapThenSumSet(LAMBDA i : a + i, 0 .. n - 1)

\* The fold is such a function, at all the places.
LEMMA SumFolds ==
    ASSUME NEW a, NEW n
    PROVE  SumFrom(a, n) = (CHOOSE f : Sums(f, a, 0 .. n - 1))[0 .. n - 1]
BY DEF SumFrom, MapThenSumSet, MapThenFoldSet, Sums, SumOf, PickedPlace

\* The place picked leaves a set with one place less.
LEMMA PlaceLeavesOneLess ==
    ASSUME NEW T \in SUBSET Nat, IsFiniteSet(T), NEW s \in SUBSET T
    PROVE  /\ IsFiniteSet(s) /\ Cardinality(s) \in Nat
           /\ Cardinality(s) = 0 <=> s = {}
           /\ s # {} => PickedPlace(s) \in s
           /\ \A i \in s : /\ s \ {i} \in SUBSET T
                           /\ Cardinality(s \ {i}) = Cardinality(s) - 1
<1>1. IsFiniteSet(s)  BY FS_Subset
<1>2. Cardinality(s) \in Nat /\ (Cardinality(s) = 0 <=> s = {})
  BY <1>1, FS_CardinalityType, FS_EmptySet
<1>3. \A i \in s : Cardinality(s \ {i}) = Cardinality(s) - 1
  BY <1>1, FS_RemoveElement
<1> QED  BY <1>1, <1>2, <1>3 DEF PickedPlace

\* The same of a subset of given places.
LEMMA PickLeavesOneLess ==
    ASSUME NEW T \in SUBSET Nat, IsFiniteSet(T), NEW s \in SUBSET T, s # {}
    PROVE  /\ PickedPlace(s) \in Nat /\ s \ {PickedPlace(s)} \in SUBSET T
           /\ Cardinality(s \ {PickedPlace(s)}) = Cardinality(s) - 1
           /\ Cardinality(s) \in Nat
<1>1. PickedPlace(s) \in s  BY PlaceLeavesOneLess
<1> DEFINE i == PickedPlace(s)
<1> HIDE DEF i
<1>2. i \in s  BY <1>1 DEF i
<1>3. /\ i \in Nat /\ s \ {i} \in SUBSET T /\ Cardinality(s \ {i}) = Cardinality(s) - 1
      /\ Cardinality(s) \in Nat
  BY <1>2, PlaceLeavesOneLess
<1> QED  BY <1>3 DEF i

\* A function that satisfies the equation on the sets of up to n places.
SumsUpTo(f, a, T, n) ==
    /\ f \in [SUBSET T -> Nat]
    /\ \A s \in SUBSET T : Cardinality(s) <= n => f[s] = SumOf(f, a, s)

\* It can be had for sets of one place more.
LEMMA SumsExtend ==
    ASSUME NEW a \in Nat, NEW T \in SUBSET Nat, IsFiniteSet(T), NEW n \in Nat,
           NEW f, SumsUpTo(f, a, T, n)
    PROVE  \E h : SumsUpTo(h, a, T, n + 1)
<1> DEFINE h == [s \in SUBSET T |-> IF Cardinality(s) <= n THEN f[s] ELSE SumOf(f, a, s)]
<1>1. ASSUME NEW s \in SUBSET T  PROVE SumOf(f, a, s) \in Nat
  <2>1. CASE s = {}  BY <2>1 DEF SumOf
  <2>2. CASE s # {}
    <3>1. PickedPlace(s) \in Nat /\ s \ {PickedPlace(s)} \in SUBSET T
      BY <2>2, PickLeavesOneLess
    <3>2. f[s \ {PickedPlace(s)}] \in Nat  BY <3>1 DEF SumsUpTo
    <3> QED  BY <2>2, <3>1, <3>2 DEF SumOf
  <2> QED  BY <2>1, <2>2
<1>2. h \in [SUBSET T -> Nat]
  BY <1>1 DEF SumsUpTo
<1>3. ASSUME NEW s \in SUBSET T, Cardinality(s) <= n + 1
      PROVE  h[s] = SumOf(h, a, s)
  <2>1. h[s] = SumOf(f, a, s)  BY DEF SumsUpTo
  <2>2. CASE s = {}  BY <2>1, <2>2 DEF SumOf
  <2>3. CASE s # {}
    <3>1. /\ s \ {PickedPlace(s)} \in SUBSET T
          /\ Cardinality(s \ {PickedPlace(s)}) = Cardinality(s) - 1
          /\ Cardinality(s) \in Nat
      BY <2>3, PickLeavesOneLess
    <3>2. Cardinality(s \ {PickedPlace(s)}) <= n  BY <1>3, <3>1
    <3>3. h[s \ {PickedPlace(s)}] = f[s \ {PickedPlace(s)}]  BY <3>1, <3>2
    <3> QED  BY <2>1, <2>3, <3>3 DEF SumOf
  <2> QED  BY <2>2, <2>3
<1> HIDE DEF h
<1> QED  BY <1>2, <1>3 DEF SumsUpTo

\* So it can be had for all of them.
LEMMA SumsExist ==
    ASSUME NEW a \in Nat, NEW T \in SUBSET Nat, IsFiniteSet(T)
    PROVE  \E f : Sums(f, a, T)
<1> DEFINE missing == {n \in Nat : \A f : ~ SumsUpTo(f, a, T, n)}
<1>1. missing = {}
  <2> SUFFICES ASSUME missing # {}  PROVE FALSE
    OBVIOUS
  <2>1. PICK n \in missing : \A m \in missing : n <= m
    BY SmallestNumber
  <2>2. CASE n = 0
    <3> DEFINE f == [s \in SUBSET T |-> 0]
    <3>1. \A s \in SUBSET T : Cardinality(s) <= 0 => f[s] = SumOf(f, a, s)
      BY PlaceLeavesOneLess, PickLeavesOneLess DEF SumOf
    <3>2. SumsUpTo(f, a, T, 0)  BY <3>1 DEF SumsUpTo
    <3> QED  BY <2>1, <2>2, <3>2
  <2>3. CASE n # 0
    <3>1. n - 1 \in Nat /\ (n - 1) + 1 = n /\ ~ (n <= n - 1)  BY <2>1, <2>3
    <3>2. n - 1 \notin missing  BY <2>1, <3>1
    <3>3. PICK f : SumsUpTo(f, a, T, n - 1)  BY <3>1, <3>2
    <3>4. \E h : SumsUpTo(h, a, T, n)  BY <3>1, <3>3, SumsExtend
    <3> QED  BY <2>1, <3>4
  <2> QED  BY <2>2, <2>3
<1>2. Cardinality(T) \in Nat  BY FS_CardinalityType
<1>3. PICK f : SumsUpTo(f, a, T, Cardinality(T))  BY <1>1, <1>2
<1>4. \A s \in SUBSET T : Cardinality(s) <= Cardinality(T)  BY FS_Subset
<1>5. f \in [SUBSET T -> Nat] /\ \A s \in SUBSET T : f[s] = SumOf(f, a, s)
  BY <1>3, <1>4 DEF SumsUpTo
<1>6. f = [s \in SUBSET T |-> SumOf(f, a, s)]  BY <1>5
<1> QED  BY <1>6 DEF Sums

(***************************************************************************)
(* Every function that satisfies the equation has natural numbers.         *)
(***************************************************************************)
LEMMA SumsAreNumbers ==
    ASSUME NEW a \in Nat, NEW T \in SUBSET Nat, IsFiniteSet(T), NEW f, Sums(f, a, T)
    PROVE  f \in [SUBSET T -> Nat]
<1> DEFINE bad == {n \in Nat : \E s \in SUBSET T : Cardinality(s) = n /\ f[s] \notin Nat}
<1>1. \A s \in SUBSET T : f[s] = SumOf(f, a, s)  BY DEF Sums
<1>2. bad = {}
  <2> SUFFICES ASSUME bad # {}  PROVE FALSE
    OBVIOUS
  <2>1. PICK n \in bad : \A m \in bad : n <= m
    BY SmallestNumber
  <2>2. PICK s \in SUBSET T : Cardinality(s) = n /\ f[s] \notin Nat  BY <2>1
  <2>3. s # {}  BY <1>1, <2>2 DEF SumOf
  <2> DEFINE k == PickedPlace(s)
  <2>4. k \in s /\ f[s] = (a + k) + f[s \ {k}]
    BY <1>1, <2>3 DEF SumOf, PickedPlace
  <2> HIDE DEF k
  <2>5. s \ {k} \in SUBSET T /\ n # 0 /\ Cardinality(s \ {k}) = n - 1
    BY <2>2, <2>3, <2>4, PlaceLeavesOneLess
  <2>6. n - 1 \in Nat /\ ~ (n <= n - 1)  BY <2>1, <2>5
  <2>7. f[s \ {k}] \in Nat /\ k \in Nat  BY <2>1, <2>4, <2>5, <2>6
  <2>8. f[s] \in Nat  BY <2>4, <2>7
  <2> QED  BY <2>2, <2>8
<1>3. \A s \in SUBSET T : Cardinality(s) \in Nat  BY PlaceLeavesOneLess
<1>4. \A s \in SUBSET T : f[s] \in Nat  BY <1>2, <1>3
<1> QED  BY <1>4 DEF Sums

(***************************************************************************)
(* Whichever place is taken first, the sum is its number and the rest.     *)
(***************************************************************************)
LEMMA AnyPlaceFirst ==
    ASSUME NEW a \in Nat, NEW T \in SUBSET Nat, IsFiniteSet(T),
           NEW f \in [SUBSET T -> Nat], Sums(f, a, T)
    PROVE  \A s \in SUBSET T : \A i \in s : f[s] = (a + i) + f[s \ {i}]
<1> DEFINE fails(s) == \E i \in s : f[s] # (a + i) + f[s \ {i}]
           bad == {n \in Nat : \E s \in SUBSET T : Cardinality(s) = n /\ fails(s)}
<1>1. \A s \in SUBSET T : s # {} =>
          f[s] = (a + PickedPlace(s)) + f[s \ {PickedPlace(s)}]
  BY DEF Sums, SumOf
<1>2. bad = {}
  <2> SUFFICES ASSUME bad # {}  PROVE FALSE
    OBVIOUS
  <2>1. PICK n \in bad : \A m \in bad : n <= m
    <3> HIDE DEF bad
    <3>1. bad \in SUBSET Nat  BY DEF bad
    <3> QED  BY <3>1, SmallestNumber
  <2>2. PICK s \in SUBSET T : Cardinality(s) = n /\ fails(s)  BY <2>1
  <2>3. PICK i \in s : f[s] # (a + i) + f[s \ {i}]  BY <2>2
  <2> DEFINE k == PickedPlace(s)
  <2>4. /\ k \in s /\ n # 0
        /\ s \ {i} \in SUBSET T /\ Cardinality(s \ {i}) = n - 1
        /\ s \ {k} \in SUBSET T /\ Cardinality(s \ {k}) = n - 1
    <3>1. k \in s  BY <2>3 DEF PickedPlace
    <3>2. s # {} /\ Cardinality(s) # 0  BY <2>3, PlaceLeavesOneLess
    <3> HIDE DEF k
    <3> QED  BY <2>2, <2>3, <3>1, <3>2, PlaceLeavesOneLess
  <2>5. f[s] = (a + k) + f[s \ {k}]  BY <1>1, <2>3
  <2>6. i # k  BY <2>3, <2>5
  <2> HIDE DEF k
  <2>7. n - 1 \in Nat /\ ~ (n <= n - 1)  BY <2>1, <2>4
  <2>8. n - 1 \notin bad  BY <2>1, <2>7
  <2>9. ~ fails(s \ {i}) /\ ~ fails(s \ {k})  BY <2>4, <2>7, <2>8
  <2>10. /\ f[s \ {i}] = (a + k) + f[(s \ {i}) \ {k}]
         /\ f[s \ {k}] = (a + i) + f[(s \ {k}) \ {i}]
    BY <2>3, <2>4, <2>6, <2>9
  <2>11. (s \ {i}) \ {k} = (s \ {k}) \ {i} /\ (s \ {k}) \ {i} \in SUBSET T
    BY <2>4
  <2> DEFINE rest == f[(s \ {k}) \ {i}]
  <2>12. rest \in Nat /\ i \in Nat /\ k \in Nat
    BY <2>3, <2>4, <2>11
  <2>13. f[s] = (a + k) + ((a + i) + rest) /\ f[s \ {i}] = (a + k) + rest
    BY <2>5, <2>10, <2>11
  <2> HIDE DEF rest
  <2>14. f[s] = (a + i) + f[s \ {i}]  BY <2>12, <2>13
  <2> QED  BY <2>3, <2>14
<1>3. \A s \in SUBSET T : Cardinality(s) \in Nat  BY PlaceLeavesOneLess
<1> QED  BY <1>2, <1>3

\* The sum of the numbers below n.
Triangle(n) == (n * (n - 1)) \div 2

\* One number more.
LEMMA TriangleGrows ==
    ASSUME NEW n \in Nat
    PROVE  Triangle(n) \in Nat /\ Triangle(n + 1) = Triangle(n) + n
<1> DEFINE b == n * (n - 1)
<1>1. b \in Nat
  <2>1. CASE n = 0  BY <2>1
  <2>2. CASE n # 0  BY <2>2
  <2> QED  BY <2>1, <2>2
<1>2. (n + 1) * ((n + 1) - 1) = b + 2 * n  OBVIOUS
<1> HIDE DEF b
<1>3. (b + 2 * n) \div 2 = b \div 2 + n /\ b \div 2 \in Nat  BY <1>1
<1> QED  BY <1>2, <1>3 DEF Triangle, b

(***************************************************************************)
(* The sum of a run is that of an arithmetic progression: what RunValue    *)
(* says of a reading.                                                      *)
(***************************************************************************)
LEMMA SumIsValue ==
    ASSUME NEW a \in Nat, NEW n \in Nat
    PROVE  SumFrom(a, n) = n * a + Triangle(n)
<1> DEFINE T == 0 .. n - 1
<1>1. T \in SUBSET Nat /\ IsFiniteSet(T)  BY FS_Interval
<1> HIDE DEF T
<1>2. PICK f : Sums(f, a, T) /\ SumFrom(a, n) = f[T]
  <2>1. Sums((CHOOSE f : Sums(f, a, T)), a, T)  BY <1>1, SumsExist
  <2> QED  BY <2>1, SumFolds DEF T
<1>3. f \in [SUBSET T -> Nat] /\ \A s \in SUBSET T : \A i \in s : f[s] = (a + i) + f[s \ {i}]
  <2>1. f \in [SUBSET T -> Nat]  BY <1>1, <1>2, SumsAreNumbers
  <2> QED  BY <1>1, <1>2, <2>1, AnyPlaceFirst
<1>4. \A k \in Nat : k <= n => 0 .. k - 1 \in SUBSET T /\ f[0 .. k - 1] \in Nat
  <2>1. \A k \in Nat : k <= n => 0 .. k - 1 \in SUBSET T  BY DEF T
  <2> QED  BY <1>3, <2>1
<1> DEFINE bad == {k \in Nat : k <= n /\ f[0 .. k - 1] # k * a + Triangle(k)}
<1>5. 0 \notin bad
  <2>1. {} \in SUBSET T /\ f[{}] = 0  BY <1>2 DEF Sums, SumOf
  <2>2. 0 .. 0 - 1 = {} /\ 0 * a = 0 /\ Triangle(0) = 0  BY DEF Triangle
  <2> QED  BY <2>1, <2>2
<1>6. ASSUME NEW k \in Nat, k + 1 \in bad  PROVE k \in bad
  <2>1. k <= n /\ k + 1 <= n  BY <1>6
  <2>2. 0 .. (k + 1) - 1 \in SUBSET T /\ k \in 0 .. (k + 1) - 1  BY <1>4, <2>1
  <2>3. (0 .. (k + 1) - 1) \ {k} = 0 .. k - 1  OBVIOUS
  <2>4. f[0 .. (k + 1) - 1] = (a + k) + f[0 .. k - 1]  BY <1>3, <2>2, <2>3
  <2>5. (k + 1) * a = k * a + a /\ k * a \in Nat  OBVIOUS
  <2>6. Triangle(k) \in Nat /\ Triangle(k + 1) = Triangle(k) + k  BY TriangleGrows
  <2>7. f[0 .. (k + 1) - 1] # (k + 1) * a + Triangle(k + 1)  BY <1>6
  <2> DEFINE product == k * a
             before == f[0 .. k - 1]
  <2>8. (a + k) + before # (product + a) + (Triangle(k) + k) /\ before \in Nat /\ product \in Nat
    BY <1>4, <2>1, <2>4, <2>5, <2>6, <2>7
  <2> HIDE DEF product, before
  <2>9. before # product + Triangle(k)  BY <2>6, <2>8
  <2> QED  BY <2>1, <2>9 DEF product, before
<1>7. bad = {}
  <2> SUFFICES ASSUME bad # {}  PROVE FALSE
    OBVIOUS
  <2>1. bad \in SUBSET Nat  OBVIOUS
  <2> HIDE DEF bad
  <2>2. PICK k \in bad : \A m \in bad : k <= m  BY <2>1, SmallestNumber
  <2>3. k - 1 \in Nat /\ (k - 1) + 1 = k /\ ~ (k <= k - 1)  BY <1>5, <2>1, <2>2
  <2> QED  BY <1>6, <2>2, <2>3
<1>8. f[0 .. n - 1] = n * a + Triangle(n)  BY <1>7
<1> QED  BY <1>2, <1>8 DEF T

(***************************************************************************)
(* A run that passes is scored from its best start: the jokers fill the    *)
(* gaps, then go behind the highest tile, and only past 13 in front.       *)
(***************************************************************************)
LEMMA RunScoreIsBest ==
    ASSUME NEW g, TileSet(g), ValidateRun(g)
    PROVE  RunScore(g) = RunValue(g, BestStart(g))
<1> DEFINE lo == Min(Numbers(g))
           hi == Max(Numbers(g))
           n == Cardinality(g)
           p == Cardinality(Plain(g))
           j == Cardinality(Jokers(g))
           remaining == Max({0, j - ((hi - lo + 1) - p)})
           after == IF hi + remaining > MaxNumber THEN MaxNumber - hi ELSE remaining
           start == Max({1, lo - (remaining - after)})
<1>1. LooksLikeRun(g) /\ RunBounds(g) /\ BestStart(g) \in RunReadings(g)
  BY RunIsSeen, RunsHaveReadings
<1>2. n \in Nat /\ p \in Nat /\ j \in Nat /\ n = p + j /\ n >= 3
  BY <1>1, PlainAndJokers DEF TileSet, LooksLikeRun
<1>3. lo \in 1 .. 13 /\ hi \in 1 .. 13 /\ p <= hi - lo + 1
  BY <1>1, SpanOfDistinct DEF LooksLikeRun, MaxNumber
<1>4. hi - lo + 1 <= n  BY <1>1 DEF RunBounds
<1>5. BestStart(g) = (IF lo <= 14 - n THEN lo ELSE 14 - n) /\ BestStart(g) \in 1 .. 13
  BY <1>1, <1>2, <1>3 DEF BestStart, MaxNumber, RunReadings
<1>6. remaining = n - (hi - lo + 1)
  <2> HIDE DEF lo, hi, n, p, j
  <2>1. 0 \in Int /\ j - ((hi - lo + 1) - p) \in Int  BY <1>2, <1>3
  <2>2. remaining = IF 0 >= j - ((hi - lo + 1) - p) THEN 0 ELSE j - ((hi - lo + 1) - p)
    BY <2>1, LargerOfTwo
  <2> HIDE DEF remaining
  <2> QED  BY <1>2, <1>3, <1>4, <2>2
<1>7. start = BestStart(g)
  <2> HIDE DEF lo, hi, n, p, j, remaining
  <2>1. after = IF hi + remaining > 13 THEN 13 - hi ELSE remaining  BY DEF MaxNumber
  <2> HIDE DEF after
  <2>2. lo - (remaining - after) \in Int  BY <1>2, <1>3, <1>6, <2>1
  <2>3. start = IF 1 >= lo - (remaining - after) THEN 1 ELSE lo - (remaining - after)
    BY <2>2, LargerOfTwo
  <2> HIDE DEF start
  <2> QED  BY <1>2, <1>3, <1>4, <1>5, <1>6, <2>1, <2>3
<1>8. RunScore(g) = SumFrom(start, n)  BY DEF RunScore, SumFrom
<1>9. RunScore(g) = SumFrom(BestStart(g), n)  BY <1>7, <1>8
<1>10. BestStart(g) \in Nat  BY <1>5
<1>11. SumFrom(BestStart(g), n) = n * BestStart(g) + Triangle(n)
  BY <1>2, <1>10, SumIsValue
<1> QED  BY <1>9, <1>11 DEF RunValue, Triangle

(***************************************************************************)
(* The score of a set is the value of a reading, of the best one for a run.*)
(***************************************************************************)
LEMMA ScoreIsBest ==
    ASSUME NEW g, TileSet(g)
    PROVE  /\ SetType(g) = "group" =>
                 \E n \in GroupReadings(g) : SetScore(g) = n * Cardinality(g)
           /\ SetType(g) = "run" =>
                 /\ \E s \in RunReadings(g) : SetScore(g) = RunValue(g, s)
                 /\ \A s \in RunReadings(g) : SetScore(g) >= RunValue(g, s)
<1>1. ASSUME SetType(g) = "group"
      PROVE  \E n \in GroupReadings(g) : SetScore(g) = n * Cardinality(g)
  <2>1. ValidateGroup(g)  BY <1>1, Zenon DEF SetType
  <2>2. SetScore(g) = GroupScore(g)  BY <1>1, Zenon DEF SetScore
  <2>3. Min(Numbers(g)) \in GroupReadings(g)  BY <2>1, GroupsHaveReadings
  <2>4. Cardinality(g) \in Nat /\ Min(Numbers(g)) \in Nat
    BY <2>3, PlainAndJokers DEF TileSet, GroupReadings, MaxNumber
  <2>5. GroupScore(g) = Min(Numbers(g)) * Cardinality(g)  BY <2>4 DEF GroupScore
  <2> QED  BY <2>2, <2>3, <2>5
<1>2. ASSUME SetType(g) = "run"
      PROVE  /\ \E s \in RunReadings(g) : SetScore(g) = RunValue(g, s)
             /\ \A s \in RunReadings(g) : SetScore(g) >= RunValue(g, s)
  <2>1. ValidateRun(g)  BY <1>2, Zenon DEF SetType
  <2>2. SetScore(g) = RunScore(g)  BY <1>2 DEF SetScore
  <2>3. SetScore(g) = RunValue(g, BestStart(g))  BY <2>1, <2>2, RunScoreIsBest
  <2>4. BestStart(g) \in RunReadings(g) /\ \A s \in RunReadings(g) : s <= BestStart(g)
    BY <2>1, RunsHaveReadings
  <2>5. ASSUME NEW s \in RunReadings(g)  PROVE RunValue(g, BestStart(g)) >= RunValue(g, s)
    <3> DEFINE n == Cardinality(g)
               b == BestStart(g)
    <3>1. s \in Nat /\ b \in Nat /\ n \in Nat /\ s <= b
      BY <2>4, PlainAndJokers DEF TileSet, RunReadings, MaxNumber
    <3> HIDE DEF n, b
    <3>2. n * s \in Nat /\ n * b \in Nat /\ n * s <= n * b  BY <3>1
    <3>3. Triangle(n) \in Nat  BY <3>1, TriangleGrows
    <3>4. n * b + Triangle(n) >= n * s + Triangle(n)  BY <3>2, <3>3
    <3> QED  BY <3>4 DEF RunValue, Triangle, n, b
  <2> QED  BY <2>3, <2>4, <2>5
<1> QED  BY <1>1, <1>2

-----------------------------------------------------------------------------
(* A set listed as a sequence.  Listed folds over the set, picking its      *)
(* members one by one; what it returns is shown as for RunScore, by taking  *)
(* the smallest subset for which it fails.                                  *)

Picked(s)      == CHOOSE x \in s : TRUE
ListOf(f, s)   == IF s = {} THEN <<>> ELSE Append(f[s \ {Picked(s)}], Picked(s))
Listings(f, T) == f = [s \in SUBSET T |-> ListOf(f, s)]

\* The fold is such a function, at the whole set.
LEMMA ListedFolds ==
    ASSUME NEW T
    PROVE  Listed(T) = (CHOOSE f : Listings(f, T))[T]
BY DEF Listed, FoldSet, MapThenFoldSet, Listings, ListOf, Picked

\* The member picked leaves a subset with one member less.
LEMMA MemberLeavesOneLess ==
    ASSUME NEW T, IsFiniteSet(T), NEW s \in SUBSET T, s # {}
    PROVE  /\ Picked(s) \in s /\ s \ {Picked(s)} \in SUBSET T
           /\ Cardinality(s) \in Nat \ {0}
           /\ Cardinality(s \ {Picked(s)}) = Cardinality(s) - 1
<1>1. Picked(s) \in s  BY DEF Picked
<1>2. IsFiniteSet(s)  BY FS_Subset
<1>3. Cardinality(s) \in Nat /\ Cardinality(s) # 0  BY <1>2, FS_CardinalityType, FS_EmptySet
<1>4. Cardinality(s \ {Picked(s)}) = Cardinality(s) - 1  BY <1>1, <1>2, FS_RemoveElement
<1> QED  BY <1>1, <1>3, <1>4

\* A function that lists the subsets of up to n members.
ListsUpTo(f, T, n) ==
    /\ f \in [SUBSET T -> Seq(T)]
    /\ \A s \in SUBSET T : Cardinality(s) <= n => f[s] = ListOf(f, s)

\* It can be had for subsets of one member more.
LEMMA ListsExtend ==
    ASSUME NEW T, IsFiniteSet(T), NEW n \in Nat, NEW f, ListsUpTo(f, T, n)
    PROVE  \E h : ListsUpTo(h, T, n + 1)
<1> DEFINE h == [s \in SUBSET T |-> IF Cardinality(s) <= n THEN f[s] ELSE ListOf(f, s)]
<1>1. ASSUME NEW s \in SUBSET T  PROVE ListOf(f, s) \in Seq(T)
  <2>1. CASE s = {}  BY <2>1 DEF ListOf
  <2>2. CASE s # {}
    <3>1. Picked(s) \in T /\ s \ {Picked(s)} \in SUBSET T  BY <2>2, MemberLeavesOneLess
    <3>2. f[s \ {Picked(s)}] \in Seq(T)  BY <3>1 DEF ListsUpTo
    <3> QED  BY <2>2, <3>1, <3>2 DEF ListOf
  <2> QED  BY <2>1, <2>2
<1>2. h \in [SUBSET T -> Seq(T)]
  BY <1>1 DEF ListsUpTo
<1>3. ASSUME NEW s \in SUBSET T, Cardinality(s) <= n + 1
      PROVE  h[s] = ListOf(h, s)
  <2>1. h[s] = ListOf(f, s)  BY DEF ListsUpTo
  <2>2. CASE s = {}  BY <2>1, <2>2 DEF ListOf
  <2>3. CASE s # {}
    <3>1. /\ s \ {Picked(s)} \in SUBSET T
          /\ Cardinality(s \ {Picked(s)}) = Cardinality(s) - 1
          /\ Cardinality(s) \in Nat
      BY <2>3, MemberLeavesOneLess
    <3>2. Cardinality(s \ {Picked(s)}) <= n  BY <1>3, <3>1
    <3>3. h[s \ {Picked(s)}] = f[s \ {Picked(s)}]  BY <3>1, <3>2
    <3> QED  BY <2>1, <2>3, <3>3 DEF ListOf
  <2> QED  BY <2>2, <2>3
<1> HIDE DEF h
<1> QED  BY <1>2, <1>3 DEF ListsUpTo

\* So it can be had for all of them.
LEMMA ListingsExist ==
    ASSUME NEW T, IsFiniteSet(T)
    PROVE  \E f : Listings(f, T)
<1> DEFINE missing == {n \in Nat : \A f : ~ ListsUpTo(f, T, n)}
<1>1. missing = {}
  <2> SUFFICES ASSUME missing # {}  PROVE FALSE
    OBVIOUS
  <2>1. PICK n \in missing : \A m \in missing : n <= m
    BY SmallestNumber
  <2>2. CASE n = 0
    <3> DEFINE f == [s \in SUBSET T |-> <<>>]
    <3>1. \A s \in SUBSET T : Cardinality(s) <= 0 => f[s] = ListOf(f, s)
      <4>1. \A s \in SUBSET T : s # {} => Cardinality(s) \in Nat \ {0}  BY MemberLeavesOneLess
      <4> QED  BY <4>1 DEF ListOf
    <3>2. <<>> \in Seq(T)  OBVIOUS
    <3>3. ListsUpTo(f, T, 0)  BY <3>1, <3>2 DEF ListsUpTo
    <3> QED  BY <2>1, <2>2, <3>3
  <2>3. CASE n # 0
    <3>1. n - 1 \in Nat /\ (n - 1) + 1 = n /\ ~ (n <= n - 1)  BY <2>1, <2>3
    <3>2. n - 1 \notin missing  BY <2>1, <3>1
    <3>3. PICK f : ListsUpTo(f, T, n - 1)  BY <3>1, <3>2
    <3>4. \E h : ListsUpTo(h, T, n)  BY <3>1, <3>3, ListsExtend
    <3> QED  BY <2>1, <3>4
  <2> QED  BY <2>2, <2>3
<1>2. Cardinality(T) \in Nat  BY FS_CardinalityType
<1>3. PICK f : ListsUpTo(f, T, Cardinality(T))  BY <1>1, <1>2
<1>4. \A s \in SUBSET T : Cardinality(s) <= Cardinality(T)  BY FS_Subset
<1>5. f \in [SUBSET T -> Seq(T)] /\ \A s \in SUBSET T : f[s] = ListOf(f, s)
  BY <1>3, <1>4 DEF ListsUpTo
<1>6. f = [s \in SUBSET T |-> ListOf(f, s)]  BY <1>5
<1> QED  BY <1>6 DEF Listings

\* Each member once: the places of q and the members of s are one to one.
Enumerates(q, s) == q \in Seq(s) /\ q \in Bijection(1 .. Len(q), s)

\* A list of all members but one, and that one, are a list of them all.
LEMMA AppendEnumerates ==
    ASSUME NEW s, NEW x \in s, NEW q, Enumerates(q, s \ {x})
    PROVE  Enumerates(Append(q, x), s)
<1> DEFINE r == Append(q, x)
<1>1. /\ q \in Seq(s \ {x}) /\ Len(q) \in Nat
      /\ \A i \in 1 .. Len(q) : q[i] \in s \ {x}
      /\ \A i, j \in 1 .. Len(q) : q[i] = q[j] => i = j
      /\ \A y \in s \ {x} : \E i \in 1 .. Len(q) : q[i] = y
  BY DEF Enumerates, Bijection, Injection, Surjection, IsInjective
<1>2. q \in Seq(s)  BY <1>1
<1>3. /\ r \in Seq(s) /\ Len(r) = Len(q) + 1 /\ r[Len(q) + 1] = x
      /\ \A i \in 1 .. Len(q) : r[i] = q[i]
  BY <1>2
<1> HIDE DEF r
<1>4. r \in [1 .. Len(r) -> s]  BY <1>3
<1>5. \A i, j \in 1 .. Len(r) : r[i] = r[j] => i = j
  BY <1>1, <1>3
<1>6. \A y \in s : \E i \in 1 .. Len(r) : r[i] = y
  <2> SUFFICES ASSUME NEW y \in s  PROVE \E i \in 1 .. Len(r) : r[i] = y
    OBVIOUS
  <2>1. CASE y = x
    <3>1. Len(q) + 1 \in 1 .. Len(r) /\ r[Len(q) + 1] = y  BY <1>1, <1>3, <2>1
    <3> QED  BY <3>1
  <2>2. CASE y # x
    <3>1. PICK i \in 1 .. Len(q) : q[i] = y  BY <1>1, <2>2
    <3>2. i \in 1 .. Len(r) /\ r[i] = y  BY <1>1, <1>3, <3>1
    <3> QED  BY <3>2
  <2> QED  BY <2>1, <2>2
<1>7. r \in Bijection(1 .. Len(r), s)
  BY <1>4, <1>5, <1>6 DEF Bijection, Injection, Surjection, IsInjective
<1> QED  BY <1>3, <1>7 DEF Enumerates, r

(***************************************************************************)
(* Listed(T) has every member of T once.                                   *)
(***************************************************************************)
LEMMA ListedEnumerates ==
    ASSUME NEW T, IsFiniteSet(T)
    PROVE  Enumerates(Listed(T), T)
<1>1. PICK f : Listings(f, T) /\ Listed(T) = f[T]
  <2>1. Listings((CHOOSE f : Listings(f, T)), T)  BY ListingsExist
  <2> QED  BY <2>1, ListedFolds
<1>2. \A s \in SUBSET T : f[s] = ListOf(f, s)  BY <1>1 DEF Listings
<1> DEFINE bad == {n \in Nat : \E s \in SUBSET T : Cardinality(s) = n /\ ~Enumerates(f[s], s)}
<1>3. bad = {}
  <2> SUFFICES ASSUME bad # {}  PROVE FALSE
    OBVIOUS
  <2>1. PICK n \in bad : \A m \in bad : n <= m
    <3>1. bad \in SUBSET Nat  OBVIOUS
    <3> HIDE DEF bad
    <3> QED  BY <3>1, SmallestNumber
  <2>2. PICK s \in SUBSET T : Cardinality(s) = n /\ ~Enumerates(f[s], s)  BY <2>1
  <2>3. s # {}
    <3> SUFFICES ASSUME s = {}  PROVE FALSE
      OBVIOUS
    <3>1. f[s] = <<>>  BY <1>2 DEF ListOf
    <3>2. <<>> \in Seq({}) /\ Len(<<>>) = 0 /\ 1 .. 0 = {}  OBVIOUS
    <3>3. <<>> \in Bijection(1 .. 0, {})
      BY <3>2 DEF Bijection, Injection, Surjection, IsInjective
    <3> QED  BY <2>2, <3>1, <3>2, <3>3 DEF Enumerates
  <2> DEFINE x == Picked(s)
  <2>4. /\ x \in s /\ f[s] = Append(f[s \ {x}], x)
        /\ s \ {x} \in SUBSET T /\ n \in Nat \ {0} /\ Cardinality(s \ {x}) = n - 1
    BY <1>2, <2>2, <2>3, MemberLeavesOneLess DEF ListOf
  <2> HIDE DEF x
  <2>5. n - 1 \in Nat /\ ~ (n <= n - 1)  BY <2>4
  <2>6. n - 1 \notin bad  BY <2>1, <2>5
  <2>7. Enumerates(f[s \ {x}], s \ {x})  BY <2>4, <2>5, <2>6
  <2> QED  BY <2>2, <2>4, <2>7, AppendEnumerates
<1>4. Cardinality(T) \in Nat  BY FS_CardinalityType
<1>5. Enumerates(f[T], T)  BY <1>3, <1>4
<1> QED  BY <1>1, <1>5
-----------------------------------------------------------------------------
(* A set of tiles on the client: a sequence of codes. *)

\* The tiles of the game, and how the client writes them.
GameTiles ==
    {NumberTile(c, n, k) : c \in Color, n \in 1 .. MaxNumber, k \in {"a", "b"}}
      \cup {JokerTile(k) : k \in 1 .. 2}
Codes == {Code(t) : t \in GameTiles}

\* The client's library is the server's.
LEMMA SameNumbers ==
    ASSUME NEW S
    PROVE  C!Cardinality(S) = Cardinality(S) /\ C!Min(S) = Min(S) /\ C!Max(S) = Max(S)
BY DEF C!Cardinality, Cardinality, C!Min, Min, C!Max, Max

\* The sequence has the code of each tile of the set once.
IsCodeOf(ts, g) ==
    /\ ts \in Seq(Codes)
    /\ \E e \in Bijection(1 .. Len(ts), g) : \A i \in 1 .. Len(ts) : ts[i] = Code(e[i])

(***************************************************************************)
(* A code tells the tile it stands for, and whether it is a joker.         *)
(***************************************************************************)
LEMMA CodeTells ==
    ASSUME NEW t \in GameTiles
    PROVE  /\ C!IsJoker(Code(t)) <=> IsJoker(t)
           /\ Code(t)[1] = t.color /\ Code(t)[2] = t.number
           /\ \A u \in GameTiles : Code(t) = Code(u) => t = u
           /\ IsJoker(t) => t \in {JokerTile(1), JokerTile(2)}
           /\ ~IsJoker(t) => t.number \in 1 .. MaxNumber
<1>1. \A u \in GameTiles :
         /\ u = [color |-> u.color, number |-> u.number, copy |-> u.copy]
         /\ IsJoker(u) => u \in {JokerTile(1), JokerTile(2)}
         /\ ~IsJoker(u) => u.number \in 1 .. MaxNumber
  BY DEF GameTiles, NumberTile, JokerTile, IsJoker, Color
<1> QED  BY <1>1 DEF Code, C!IsJoker, IsJoker

(***************************************************************************)
(* A finite set of tiles of the game is one the engine can be given, with  *)
(* two jokers at most.                                                     *)
(***************************************************************************)
LEMMA TilesOfTheGame ==
    ASSUME NEW g \in SUBSET GameTiles, IsFiniteSet(g)
    PROVE  TileSet(g) /\ Cardinality(Jokers(g)) \in 0 .. 2
<1>1. \A t \in Plain(g) : t.number \in 1 .. MaxNumber  BY CodeTells DEF Plain, Jokers
<1>2. Jokers(g) \in SUBSET {JokerTile(1), JokerTile(2)}  BY CodeTells DEF Jokers
<1>3. IsFiniteSet({JokerTile(1), JokerTile(2)}) /\ Cardinality({JokerTile(1), JokerTile(2)}) <= 2
  <2>1. \A x : IsFiniteSet({x}) /\ Cardinality({x}) = 1  BY FS_Singleton
  <2>2. ASSUME NEW x, NEW y  PROVE IsFiniteSet({x, y}) /\ Cardinality({x, y}) <= 2
    <3> DEFINE one == {x}
    <3>1. IsFiniteSet(one) /\ Cardinality(one) = 1 /\ {x, y} = one \cup {y}  BY <2>1
    <3> HIDE DEF one
    <3>2. /\ IsFiniteSet(one \cup {y})
          /\ Cardinality(one \cup {y}) = IF y \in one THEN Cardinality(one) ELSE Cardinality(one) + 1
      BY <3>1, FS_AddElement
    <3>3. IsFiniteSet(one \cup {y}) /\ Cardinality(one \cup {y}) <= 2  BY <3>1, <3>2
    <3> QED  BY <3>1, <3>3
  <2> QED  BY <2>2
<1>4. Cardinality(Jokers(g)) <= 2 /\ Cardinality(Jokers(g)) \in Nat
  BY <1>2, <1>3, FS_Subset, FS_CardinalityType
<1> QED  BY <1>1, <1>4 DEF TileSet

(***************************************************************************)
(* What MCRulesEngine gives the client is the set's code.                  *)
(***************************************************************************)
LEMMA CodedIsCode ==
    ASSUME NEW g \in SUBSET GameTiles, IsFiniteSet(g)
    PROVE  IsCodeOf(Coded(g), g)
<1> DEFINE codes == {Code(t) : t \in g}
           f == [t \in g |-> Code(t)]
           q == Coded(g)
<1>1. f \in Bijection(g, codes)
  BY CodeTells DEF Bijection, Injection, Surjection, IsInjective
<1>2. IsFiniteSet(codes)  BY <1>1, FS_Bijection DEF ExistsBijection
<1>3. Enumerates(q, codes)  BY <1>2, ListedEnumerates DEF Coded
<1> HIDE DEF q
<1>4. /\ q \in Seq(codes) /\ \A i \in 1 .. Len(q) : q[i] \in codes
      /\ \A i, j \in 1 .. Len(q) : q[i] = q[j] => i = j
      /\ \A c \in codes : \E i \in 1 .. Len(q) : q[i] = c
  BY <1>3 DEF Enumerates, Bijection, Injection, Surjection, IsInjective
<1> DEFINE e == [i \in 1 .. Len(q) |-> CHOOSE t \in g : Code(t) = q[i]]
<1>5. \A i \in 1 .. Len(q) : e[i] \in g /\ Code(e[i]) = q[i]
  BY <1>4
<1>6. \A i, j \in 1 .. Len(q) : e[i] = e[j] => i = j
  BY <1>4, <1>5
<1>7. \A t \in g : \E i \in 1 .. Len(q) : e[i] = t
  <2> SUFFICES ASSUME NEW t \in g  PROVE \E i \in 1 .. Len(q) : e[i] = t
    OBVIOUS
  <2>1. PICK i \in 1 .. Len(q) : q[i] = Code(t)  BY <1>4
  <2>2. e[i] = t  BY <1>5, <2>1, CodeTells
  <2> QED  BY <2>2
<1>8. e \in [1 .. Len(q) -> g]  BY <1>5
<1>9. e \in Bijection(1 .. Len(q), g)
  <2> HIDE DEF e
  <2> QED  BY <1>6, <1>7, <1>8 DEF Bijection, Injection, Surjection, IsInjective
<1>10. q \in Seq(Codes)
  <2>1. codes \in SUBSET Codes  BY DEF Codes
  <2> HIDE DEF codes
  <2> QED  BY <1>4, <2>1
<1> QED  BY <1>5, <1>9, <1>10 DEF IsCodeOf, q

(***************************************************************************)
(* What the client reads off a sequence is what the server reads off the   *)
(* set.                                                                    *)
(***************************************************************************)
LEMMA ClientSees ==
    ASSUME NEW g \in SUBSET GameTiles, IsFiniteSet(g), NEW ts, IsCodeOf(ts, g)
    PROVE  /\ Len(ts) = Cardinality(g)
           /\ Cardinality(C!Regular(ts)) = Cardinality(Plain(g))
           /\ C!Regular(ts) = {} <=> Plain(g) = {}
           /\ C!JokerCount(ts) = Cardinality(Jokers(g))
           /\ C!Numbers(ts) = Numbers(g)
           /\ C!Colors(ts) = Colors(g)
<1>1. PICK e \in Bijection(1 .. Len(ts), g) : \A i \in 1 .. Len(ts) : ts[i] = Code(e[i])
  BY DEF IsCodeOf
<1>2. Len(ts) \in Nat  BY DEF IsCodeOf
<1>3. /\ e \in [1 .. Len(ts) -> g]
      /\ \A i, j \in 1 .. Len(ts) : e[i] = e[j] => i = j
      /\ \A t \in g : \E i \in 1 .. Len(ts) : e[i] = t
  BY <1>1 DEF Bijection, Injection, Surjection, IsInjective
<1>4. Len(ts) = Cardinality(g)
  <2>1. IsFiniteSet(1 .. Len(ts)) /\ Cardinality(1 .. Len(ts)) = Len(ts)  BY <1>2, FS_Interval
  <2> QED  BY <1>1, <2>1, FS_Bijection DEF ExistsBijection
<1>5. \A i \in 1 .. Len(ts) :
         /\ e[i] \in g
         /\ i \in C!Regular(ts) <=> e[i] \in Plain(g)
         /\ ts[i][1] = e[i].color /\ ts[i][2] = e[i].number
  BY <1>1, <1>3, CodeTells DEF C!Regular, Plain, Jokers
<1>6. C!Regular(ts) \in SUBSET (1 .. Len(ts))  BY DEF C!Regular
<1>7. Cardinality(C!Regular(ts)) = Cardinality(Plain(g))
  <2> DEFINE f == [i \in C!Regular(ts) |-> e[i]]
  <2>1. f \in [C!Regular(ts) -> Plain(g)]  BY <1>5, <1>6
  <2>2. \A t \in Plain(g) : \E i \in C!Regular(ts) : f[i] = t
    BY <1>3, <1>5, <1>6 DEF Plain
  <2>3. f \in Bijection(C!Regular(ts), Plain(g))
    BY <1>3, <1>6, <2>1, <2>2 DEF Bijection, Injection, Surjection, IsInjective
  <2>4. IsFiniteSet(C!Regular(ts))
    <3>1. IsFiniteSet(1 .. Len(ts))  BY <1>2, FS_Interval
    <3> QED  BY <1>6, <3>1, FS_Subset
  <2> QED  BY <2>3, <2>4, FS_Bijection DEF ExistsBijection
<1>8. C!Regular(ts) = {} <=> Plain(g) = {}
  BY <1>3, <1>5, <1>6 DEF Plain
<1>9. C!Numbers(ts) = Numbers(g) /\ C!Colors(ts) = Colors(g)
  <2>1. \A t \in Plain(g) : \E i \in C!Regular(ts) : e[i] = t  BY <1>3, <1>5, <1>6 DEF Plain
  <2> QED  BY <1>5, <1>6, <2>1 DEF C!Numbers, C!Colors, Numbers, Colors
<1>10. C!JokerCount(ts) = Cardinality(Jokers(g))
  BY <1>4, <1>7, PlainAndJokers, SameNumbers DEF C!JokerCount
<1> QED  BY <1>4, <1>7, <1>8, <1>9, <1>10
-----------------------------------------------------------------------------
(* Legal sets, in terms of the tiles. *)

GroupLike(g) ==
    /\ Cardinality(g) \in {3, 4} /\ Plain(g) # {}
    /\ \A t, u \in Plain(g) : t.number = u.number /\ (t.color = u.color => t = u)

RunLike(g) ==
    /\ LooksLikeRun(g) /\ Cardinality(g) <= 13
    /\ \A t, u \in Plain(g) : t.number - u.number < Cardinality(g)

(***************************************************************************)
(* The smaller of two numbers.                                             *)
(***************************************************************************)
LEMMA SmallerOfTwo ==
    ASSUME NEW a \in Int, NEW b \in Int
    PROVE  Min({a, b}) = IF a <= b THEN a ELSE b
<1> DEFINE smaller == IF a <= b THEN a ELSE b
<1>1. smaller \in {a, b} /\ \A y \in {a, b} : smaller <= y  OBVIOUS
<1>2. \A x \in {a, b} : (\A y \in {a, b} : x <= y) => x = smaller  OBVIOUS
<1>3. (CHOOSE x \in {a, b} : \A y \in {a, b} : x <= y) = smaller
  <2> HIDE DEF smaller
  <2> QED  BY <1>1, <1>2
<1> QED  BY <1>3 DEF Min

(***************************************************************************)
(* What a span of numbers says of any two of them.                         *)
(***************************************************************************)
LEMMA SpanOfTwo ==
    ASSUME NEW S \in SUBSET (1 .. 13), S # {}
    PROVE  /\ Min(S) \in S /\ Max(S) \in S /\ \A a \in S : Min(S) <= a /\ a <= Max(S)
           /\ C!Span(S) = Max(S) - Min(S) + 1
           /\ \A n \in Nat : C!Span(S) <= n <=> \A a, b \in S : a - b < n
<1>1. Min(S) \in S /\ Max(S) \in S /\ \A a \in S : Min(S) <= a /\ a <= Max(S)
  BY MinAndMax DEF MaxNumber
<1>2. C!Span(S) = Max(S) - Min(S) + 1  BY SameNumbers DEF C!Span
<1> DEFINE lo == Min(S)
           hi == Max(S)
<1>3. lo \in 1 .. 13 /\ hi \in 1 .. 13  BY <1>1
<1>4. \A n \in Nat : hi - lo + 1 <= n <=> \A a, b \in S : a - b < n
  <2> HIDE DEF lo, hi
  <2> TAKE n \in Nat
  <2>1. ASSUME hi - lo + 1 <= n, NEW a \in S, NEW b \in S  PROVE a - b < n
    <3>1. a \in 1 .. 13 /\ b \in 1 .. 13 /\ lo <= b /\ a <= hi  BY <1>1 DEF lo, hi
    <3> QED  BY <1>3, <2>1, <3>1
  <2>2. ASSUME \A a, b \in S : a - b < n  PROVE hi - lo + 1 <= n
    <3>1. hi - lo < n  BY <1>1, <2>2 DEF lo, hi
    <3> QED  BY <1>3, <3>1
  <2> QED  BY <2>1, <2>2
<1> QED  BY <1>1, <1>2, <1>4

(***************************************************************************)
(* The server's tests, said of the tiles.                                  *)
(***************************************************************************)
LEMMA LegalSeen ==
    ASSUME NEW g, TileSet(g)
    PROVE  /\ ValidateGroup(g) <=> GroupLike(g)
           /\ ValidateRun(g) <=> RunLike(g)
           /\ SetType(g) = IF GroupLike(g) THEN "group" ELSE IF RunLike(g) THEN "run" ELSE "invalid"
<1>1. ValidateGroup(g) <=> GroupLike(g)
  <2>1. IsFiniteSet(g) /\ Cardinality(g) \in Nat  BY PlainAndJokers DEF TileSet
  <2> QED  BY <2>1, CountsTellUniform, CountsTellDuplicates DEF ValidateGroup, GroupLike
<1>2. ValidateRun(g) <=> RunLike(g)
  <2>1. ValidateRun(g) <=> LooksLikeRun(g) /\ RunBounds(g)  BY RunIsSeen
  <2>2. ASSUME LooksLikeRun(g)
        PROVE  RunBounds(g) <=> /\ Cardinality(g) <= 13
                                /\ \A t, u \in Plain(g) : t.number - u.number < Cardinality(g)
    <3> DEFINE lo == Min(Numbers(g))
               hi == Max(Numbers(g))
               n == Cardinality(g)
               p == Cardinality(Plain(g))
               j == Cardinality(Jokers(g))
    <3>1. n \in Nat /\ p \in Nat /\ j \in Nat /\ n = p + j /\ n >= 3
      BY <2>2, PlainAndJokers DEF TileSet, LooksLikeRun
    <3>2. lo \in 1 .. 13 /\ hi \in 1 .. 13 /\ p <= hi - lo + 1
      BY <2>2, SpanOfDistinct DEF LooksLikeRun, MaxNumber
    <3>3. Max({1, lo - j}) = IF 1 >= lo - j THEN 1 ELSE lo - j
      BY <3>1, <3>2, LargerOfTwo
    <3>4. RunBounds(g) <=> /\ hi - lo + 1 <= n
                           /\ (IF 1 >= lo - j THEN 1 ELSE lo - j) + n - 1 <= 13
      BY <3>3 DEF RunBounds, MaxNumber
    <3>5. Numbers(g) \in SUBSET (1 .. 13) /\ Numbers(g) # {}
      BY <2>2 DEF TileSet, Numbers, LooksLikeRun, MaxNumber
    <3>6. hi - lo + 1 <= n <=> \A a, b \in Numbers(g) : a - b < n
      BY <3>1, <3>5, SpanOfTwo
    <3>7. (\A a, b \in Numbers(g) : a - b < n) <=> \A t, u \in Plain(g) : t.number - u.number < n
      BY DEF Numbers
    <3> HIDE DEF lo, hi, n, p, j
    <3>8. RunBounds(g) <=> hi - lo + 1 <= n /\ n <= 13  BY <3>1, <3>2, <3>4
    <3> QED  BY <3>6, <3>7, <3>8 DEF n
  <2> QED  BY <2>1, <2>2 DEF RunLike
<1>3. ValidateGroup(g) => Cardinality(g) >= 3
  BY PlainAndJokers DEF ValidateGroup, TileSet
<1>4. SetType(g) = IF ValidateGroup(g) THEN "group" ELSE IF ValidateRun(g) THEN "run" ELSE "invalid"
  BY <1>3, Zenon DEF SetType
<1> QED  BY <1>1, <1>2, <1>4, Zenon

(***************************************************************************)
(* The client's tests, said of the tiles.                                  *)
(***************************************************************************)
LEMMA ClientCounts ==
    ASSUME NEW g \in SUBSET GameTiles, IsFiniteSet(g), NEW ts, IsCodeOf(ts, g)
    PROVE  /\ C!OneNumber(ts) <=> Plain(g) # {} /\ \A t, u \in Plain(g) : t.number = u.number
           /\ C!OneColor(ts) <=> Plain(g) # {} /\ \A t, u \in Plain(g) : t.color = u.color
           /\ C!NoNumberTwice(ts) <=> \A t, u \in Plain(g) : t.number = u.number => t = u
           /\ C!NoColorTwice(ts) <=> \A t, u \in Plain(g) : t.color = u.color => t = u
           /\ Plain(g) # {} =>
                (C!Span(C!Numbers(ts)) <= Len(ts)
                   <=> \A t, u \in Plain(g) : t.number - u.number < Cardinality(g))
<1>1. /\ Len(ts) = Cardinality(g) /\ Cardinality(C!Regular(ts)) = Cardinality(Plain(g))
      /\ C!Numbers(ts) = Numbers(g) /\ C!Colors(ts) = Colors(g)
  BY ClientSees
<1>2. /\ C!OneNumber(ts) <=> Cardinality(Numbers(g)) = 1
      /\ C!OneColor(ts) <=> Cardinality(Colors(g)) = 1
      /\ C!NoNumberTwice(ts) <=> Cardinality(Numbers(g)) = Cardinality(Plain(g))
      /\ C!NoColorTwice(ts) <=> Cardinality(Colors(g)) = Cardinality(Plain(g))
  BY <1>1, SameNumbers DEF C!OneNumber, C!OneColor, C!NoNumberTwice, C!NoColorTwice
<1>3. ASSUME Plain(g) # {}
      PROVE  C!Span(Numbers(g)) <= Cardinality(g)
                <=> \A t, u \in Plain(g) : t.number - u.number < Cardinality(g)
  <2>1. Cardinality(g) \in Nat  BY PlainAndJokers
  <2>2. Numbers(g) \in SUBSET (1 .. 13) /\ Numbers(g) # {}
    BY <1>3, TilesOfTheGame DEF TileSet, Numbers, MaxNumber
  <2>3. C!Span(Numbers(g)) <= Cardinality(g) <=> \A a, b \in Numbers(g) : a - b < Cardinality(g)
    BY <2>1, <2>2, SpanOfTwo
  <2> QED  BY <2>3 DEF Numbers
<1> QED  BY <1>1, <1>2, <1>3, CountsTellUniform, CountsTellDuplicates
(***************************************************************************)
(* A run that is no group has two numbers: one tile with two jokers is     *)
(* read as a group, and there is no third joker.                           *)
(***************************************************************************)
LEMMA RunHasTwoNumbers ==
    ASSUME NEW g \in SUBSET GameTiles, IsFiniteSet(g), RunLike(g), ~GroupLike(g)
    PROVE  \E t, u \in Plain(g) : t.number # u.number
<1> SUFFICES ASSUME \A t, u \in Plain(g) : t.number = u.number  PROVE FALSE
  OBVIOUS
<1>1. \A t, u \in Plain(g) : t = u  BY DEF RunLike, LooksLikeRun
<1>2. PICK t \in Plain(g) : Plain(g) = {t}
  <2>1. PICK t \in Plain(g) : TRUE  BY DEF RunLike, LooksLikeRun
  <2> QED  BY <1>1, <2>1
<1>3. Cardinality(Plain(g)) = 1  BY <1>2, FS_Singleton
<1>4. Cardinality(g) = 3
  BY <1>3, PlainAndJokers, TilesOfTheGame DEF RunLike, LooksLikeRun
<1> QED  BY <1>1, <1>2, <1>4 DEF GroupLike

-----------------------------------------------------------------------------
(* The copies agree. *)

(***************************************************************************)
(* The practice mode takes what the server takes.  It stretches a run      *)
(* upwards with the jokers the gaps leave over, the server with all of     *)
(* them from further down: either way it fits if it is no longer than 13.  *)
(***************************************************************************)
LEMMA PracticeAgrees ==
    ASSUME NEW g \in SUBSET GameTiles, IsFiniteSet(g), NEW ts, IsCodeOf(ts, g)
    PROVE  C!IsSet(ts) <=> GroupLike(g) \/ RunLike(g)
<1> DEFINE n == Cardinality(g)
           p == Cardinality(Plain(g))
           j == Cardinality(Jokers(g))
           lo == Min(Numbers(g))
           hi == Max(Numbers(g))
<1>1. /\ Len(ts) = n /\ Cardinality(C!Regular(ts)) = p /\ C!JokerCount(ts) = j
      /\ C!Regular(ts) = {} <=> Plain(g) = {}
      /\ C!Numbers(ts) = Numbers(g)
  BY ClientSees
<1>2. n \in Nat /\ p \in Nat /\ j \in Nat /\ n = p + j  BY PlainAndJokers
<1>3. C!ValidateGroup(ts) <=> GroupLike(g)
  BY <1>1, ClientCounts DEF C!ValidateGroup, GroupLike
<1>4. C!ValidateRun(ts) <=> RunLike(g)
  <2>1. CASE ~LooksLikeRun(g)
    BY <1>1, <2>1, ClientCounts DEF C!ValidateRun, RunLike, LooksLikeRun
  <2>2. CASE LooksLikeRun(g)
    <3>1. Numbers(g) \in SUBSET (1 .. 13) /\ Numbers(g) # {}
      BY <2>2, TilesOfTheGame DEF TileSet, Numbers, LooksLikeRun, MaxNumber
    <3>2. lo \in 1 .. 13 /\ hi \in 1 .. 13 /\ C!Span(Numbers(g)) = hi - lo + 1
      BY <3>1, SpanOfTwo
    <3>3. p <= hi - lo + 1
      BY <2>2, TilesOfTheGame, SpanOfDistinct DEF LooksLikeRun
    <3>4. C!Span(C!Numbers(ts)) <= Len(ts)
             <=> \A t, u \in Plain(g) : t.number - u.number < n
      BY <2>2, ClientCounts DEF LooksLikeRun
    <3>5. C!ValidateRun(ts) <=>
             LET gaps == (hi - lo + 1) - p
                 start == Max({1, lo - (j - gaps)})
             IN  hi - lo + 1 <= n /\ gaps <= j /\ start + n - 1 <= 13
      <4>1. C!OneColor(ts) /\ C!NoNumberTwice(ts) /\ C!Regular(ts) # {} /\ Len(ts) >= 3
        BY <1>1, <2>2, ClientCounts DEF LooksLikeRun
      <4>2. /\ C!Cardinality(C!Regular(ts)) = p /\ C!Span(C!Numbers(ts)) = hi - lo + 1
            /\ C!Min(C!Numbers(ts)) = lo
        BY <1>1, <3>2, SameNumbers
      <4>3. C!ValidateRun(ts) <=>
             LET gaps == (hi - lo + 1) - p
                 start == C!Max({1, lo - (j - gaps)})
             IN  hi - lo + 1 <= n /\ gaps <= j /\ start + n - 1 <= 13
        <5> HIDE DEF lo, hi, n, p, j
        <5> QED  BY <1>1, <4>1, <4>2 DEF C!ValidateRun, C!MAX_NUMBER
      <4>4. C!Max({1, lo - (j - ((hi - lo + 1) - p))}) = Max({1, lo - (j - ((hi - lo + 1) - p))})
        BY SameNumbers
      <4> HIDE DEF lo, hi, n, p, j
      <4> QED  BY <4>3, <4>4
    <3>6. RunLike(g) <=> n <= 13 /\ hi - lo + 1 <= n
      BY <1>1, <2>2, <3>2, <3>4 DEF RunLike
    <3> HIDE DEF lo, hi, n, p, j
    <3>7. Max({1, lo - (j - ((hi - lo + 1) - p))})
             = IF 1 >= lo - (j - ((hi - lo + 1) - p)) THEN 1 ELSE lo - (j - ((hi - lo + 1) - p))
      BY <1>2, <3>2, LargerOfTwo
    <3> QED  BY <1>2, <3>2, <3>3, <3>5, <3>6, <3>7
  <2> QED  BY <2>1, <2>2
<1> QED  BY <1>3, <1>4 DEF C!IsSet

(***************************************************************************)
(* The checks before a confirm hold no legal set back and give it its      *)
(* name, and so does the label of a pending block.                         *)
(***************************************************************************)
LEMMA ConfirmAgrees ==
    ASSUME NEW g \in SUBSET GameTiles, IsFiniteSet(g), NEW ts, IsCodeOf(ts, g),
           GroupLike(g) \/ RunLike(g)
    PROVE  /\ C!GroupError(ts) = "ok"
           /\ C!ClassifySetType(ts) = IF GroupLike(g) THEN "group" ELSE "run"
           /\ C!ValidatePendingBlock(ts) = IF GroupLike(g) THEN "valid-group" ELSE "valid-run"
<1>1. /\ Len(ts) = Cardinality(g) /\ Cardinality(g) \in Nat
      /\ C!Regular(ts) = {} <=> Plain(g) = {}
  BY ClientSees, PlainAndJokers
<1>2. Plain(g) # {} /\ C!Regular(ts) # {} /\ Len(ts) >= 3
  BY <1>1 DEF GroupLike, RunLike, LooksLikeRun
<1>3. CASE GroupLike(g)
  <2>1. C!OneNumber(ts) /\ C!NoColorTwice(ts) /\ Len(ts) <= 4
    BY <1>1, <1>3, ClientCounts DEF GroupLike
  <2> QED  BY <1>2, <1>3, <2>1
    DEF C!GroupError, C!CheckSetSize, C!CheckSetValidity, C!CheckGroupColorDuplicate,
        C!ClassifySetType, C!ValidatePendingBlock
<1>4. CASE ~GroupLike(g)
  <2>1. /\ ~C!OneNumber(ts) /\ C!OneColor(ts) /\ C!NoNumberTwice(ts)
        /\ C!Span(C!Numbers(ts)) <= Len(ts)
    BY <1>2, <1>4, RunHasTwoNumbers, ClientCounts DEF RunLike, LooksLikeRun
  <2> QED  BY <1>2, <1>4, <2>1
    DEF C!GroupError, C!CheckSetSize, C!CheckSetValidity, C!CheckRunSequence,
        C!ClassifySetType, C!ValidatePendingBlock
<1> QED  BY <1>3, <1>4
-----------------------------------------------------------------------------
(* The tiles that fit. *)

\* A tile more.
LEMMA OneTileMore ==
    ASSUME NEW g \in SUBSET GameTiles, IsFiniteSet(g), NEW t \in GameTiles \ g
    PROVE  /\ g \cup {t} \in SUBSET GameTiles /\ IsFiniteSet(g \cup {t})
           /\ Cardinality(g) \in Nat /\ Cardinality(g \cup {t}) = Cardinality(g) + 1
           /\ Plain(g \cup {t}) = IF IsJoker(t) THEN Plain(g) ELSE Plain(g) \cup {t}
           /\ IsJoker(t) => Cardinality(Jokers(g)) <= 1
<1>1. IsFiniteSet(g \cup {t}) /\ Cardinality(g \cup {t}) = Cardinality(g) + 1
  BY FS_AddElement
<1>2. Cardinality(g) \in Nat  BY FS_CardinalityType
<1>3. ASSUME IsJoker(t)  PROVE Cardinality(Jokers(g)) <= 1
  <2>1. Jokers(g \cup {t}) = Jokers(g) \cup {t} /\ t \notin Jokers(g)  BY <1>3 DEF Jokers
  <2>2. IsFiniteSet(Jokers(g))  BY FS_Subset DEF Jokers
  <2>3. Cardinality(Jokers(g) \cup {t}) = Cardinality(Jokers(g)) + 1  BY <2>1, <2>2, FS_AddElement
  <2>4. Cardinality(Jokers(g \cup {t})) \in 0 .. 2 /\ Cardinality(Jokers(g)) \in Nat
    BY <1>1, TilesOfTheGame, PlainAndJokers
  <2> DEFINE c == Cardinality(Jokers(g))
  <2>5. c + 1 \in 0 .. 2 /\ c \in Nat  BY <2>1, <2>3, <2>4
  <2> HIDE DEF c
  <2>6. c <= 1  BY <2>5
  <2> QED  BY <2>6 DEF c
<1>4. Plain(g \cup {t}) = IF IsJoker(t) THEN Plain(g) ELSE Plain(g) \cup {t}
  BY DEF Plain, Jokers
<1> QED  BY <1>1, <1>2, <1>3, <1>4

(***************************************************************************)
(* A tile is let into a group exactly when it stays one.                   *)
(***************************************************************************)
LEMMA MergedAsGroup ==
    ASSUME NEW g \in SUBSET GameTiles, IsFiniteSet(g), NEW ts, IsCodeOf(ts, g), GroupLike(g),
           NEW t \in GameTiles \ g
    PROVE  C!IsCompatibleAsGroup(Code(t), ts) <=> GroupLike(g \cup {t})
<1>1. /\ Len(ts) = Cardinality(g) /\ C!Regular(ts) # {}
      /\ C!Numbers(ts) = Numbers(g) /\ C!Colors(ts) = Colors(g)
  BY ClientSees DEF GroupLike
<1>2. /\ C!IsJoker(Code(t)) <=> IsJoker(t)
      /\ Code(t)[1] = t.color /\ Code(t)[2] = t.number
  BY CodeTells
<1>3. C!IsCompatibleAsGroup(Code(t), ts)
         <=> Cardinality(g) < 4 /\ (IsJoker(t) \/ (Numbers(g) = {t.number} /\ t.color \notin Colors(g)))
  BY <1>1, <1>2 DEF C!IsCompatibleAsGroup, C!MAX_GROUP_SIZE
<1>4. Numbers(g) = {t.number} <=> \A u \in Plain(g) : u.number = t.number
  BY DEF Numbers, GroupLike
<1>5. t.color \notin Colors(g) <=> \A u \in Plain(g) : u.color # t.color
  BY DEF Colors
<1>6. /\ Cardinality(g) \in Nat /\ Cardinality(g \cup {t}) = Cardinality(g) + 1
      /\ Plain(g \cup {t}) = IF IsJoker(t) THEN Plain(g) ELSE Plain(g) \cup {t}
  BY OneTileMore
<1>7. Cardinality(g) \in {3, 4} /\ Plain(g) # {} /\ t \notin Plain(g)  BY DEF GroupLike, Plain
<1>8. (Cardinality(g) < 4) <=> Cardinality(g \cup {t}) \in {3, 4}  BY <1>6, <1>7
<1>9. CASE IsJoker(t)  BY <1>3, <1>6, <1>7, <1>8, <1>9 DEF GroupLike
<1>10. CASE ~IsJoker(t)
  <2>1. (\A u, v \in Plain(g \cup {t}) : u.number = v.number /\ (u.color = v.color => u = v))
           <=> \A u \in Plain(g) : u.number = t.number /\ u.color # t.color
    BY <1>6, <1>7, <1>10 DEF GroupLike
  <2>2. Plain(g \cup {t}) # {}  BY <1>6, <1>10
  <2> QED  BY <1>3, <1>4, <1>5, <1>8, <1>10, <2>1, <2>2 DEF GroupLike
<1> QED  BY <1>9, <1>10

(***************************************************************************)
(* A tile is let into a run of less than twelve tiles exactly when it      *)
(* stays one: a number that the jokers reach, or a joker, for which there  *)
(* is a place at an end.                                                   *)
(***************************************************************************)
LEMMA MergedAsRun ==
    ASSUME NEW g \in SUBSET GameTiles, IsFiniteSet(g), NEW ts, IsCodeOf(ts, g), RunLike(g),
           Cardinality(g) < 12, NEW t \in GameTiles \ g
    PROVE  C!IsCompatibleAsRun(Code(t), ts) <=> RunLike(g \cup {t})
<1> DEFINE n == Cardinality(g)
           p == Cardinality(Plain(g))
           j == Cardinality(Jokers(g))
           lo == Min(Numbers(g))
           hi == Max(Numbers(g))
           h == g \cup {t}
<1>1. /\ Len(ts) = n /\ Cardinality(C!Regular(ts)) = p /\ C!JokerCount(ts) = j
      /\ C!Regular(ts) # {} /\ C!Numbers(ts) = Numbers(g) /\ C!Colors(ts) = Colors(g)
  BY ClientSees DEF RunLike, LooksLikeRun
<1>2. /\ C!IsJoker(Code(t)) <=> IsJoker(t)
      /\ Code(t)[1] = t.color /\ Code(t)[2] = t.number
  BY CodeTells
<1>3. /\ h \in SUBSET GameTiles /\ IsFiniteSet(h) /\ Cardinality(h) = n + 1
      /\ Plain(h) = IF IsJoker(t) THEN Plain(g) ELSE Plain(g) \cup {t}
      /\ IsJoker(t) => j <= 1
  BY OneTileMore
<1>4. n \in Nat /\ p \in Nat /\ j \in Nat /\ n = p + j /\ n < 12 /\ n >= 3
  BY PlainAndJokers DEF RunLike, LooksLikeRun
<1>5. Numbers(g) \in SUBSET (1 .. 13) /\ Numbers(g) # {}
  BY TilesOfTheGame DEF TileSet, Numbers, RunLike, LooksLikeRun, MaxNumber
<1>6. lo \in 1 .. 13 /\ hi \in 1 .. 13 /\ C!Span(Numbers(g)) = hi - lo + 1
  BY <1>5, SpanOfTwo
<1>7. p <= hi - lo + 1 /\ hi - lo + 1 <= n
  <2>1. p <= hi - lo + 1  BY TilesOfTheGame, SpanOfDistinct DEF RunLike, LooksLikeRun
  <2>2. C!Span(C!Numbers(ts)) <= Len(ts)  BY ClientCounts DEF RunLike, LooksLikeRun
  <2> QED  BY <1>1, <1>6, <2>1, <2>2
<1>8. C!OneColor(ts)  BY ClientCounts DEF RunLike, LooksLikeRun
<1>9. CASE IsJoker(t)
  <2>1. RunLike(h)
    <3>1. \A u \in Plain(g) : u.number \in 1 .. 13  BY TilesOfTheGame DEF TileSet, MaxNumber
    <3>2. \A u, v \in Plain(g) : u.number - v.number < n  BY DEF RunLike
    <3>3. Plain(h) = Plain(g) /\ LooksLikeRun(g)  BY <1>3, <1>9 DEF RunLike
    <3> HIDE DEF n, h
    <3>4. Cardinality(h) >= 3 /\ Cardinality(h) <= 13  BY <1>3, <1>4
    <3>5. \A u, v \in Plain(g) : u.number - v.number < n + 1  BY <1>4, <3>1, <3>2
    <3> QED  BY <1>3, <3>3, <3>4, <3>5 DEF RunLike, LooksLikeRun
  <2> DEFINE surplus == Max({0, j - ((hi - lo + 1) - p)})
  <2>2. C!IsCompatibleAsRun(Code(t), ts)
           <=> Max({1, lo - surplus}) > 1 \/ Min({13, hi + surplus}) < 13
    <3>1. /\ C!Cardinality(C!Regular(ts)) = p /\ C!Span(C!Numbers(ts)) = hi - lo + 1
          /\ C!Min(C!Numbers(ts)) = lo /\ C!Max(C!Numbers(ts)) = hi
      BY <1>1, <1>6, SameNumbers
    <3>2. \A S : C!Max(S) = Max(S) /\ C!Min(S) = Min(S)  BY SameNumbers
    <3> HIDE DEF lo, hi, n, p, j
    <3>3. C!IsCompatibleAsRun(Code(t), ts)
             <=> LET s == C!Max({0, j - ((hi - lo + 1) - p)})
                 IN  C!Max({1, lo - s}) > 1 \/ C!Min({13, hi + s}) < 13
      BY <1>1, <1>2, <1>8, <1>9, <3>1 DEF C!IsCompatibleAsRun, C!MAX_NUMBER
    <3> QED  BY <3>2, <3>3
  <2>3. surplus = n - (hi - lo + 1)
    <3> HIDE DEF lo, hi, n, p, j
    <3>1. surplus = IF 0 >= j - ((hi - lo + 1) - p) THEN 0 ELSE j - ((hi - lo + 1) - p)
      BY <1>4, <1>6, LargerOfTwo
    <3> HIDE DEF surplus
    <3> QED  BY <1>4, <1>6, <1>7, <3>1
  <2>4. Max({1, lo - surplus}) > 1 \/ Min({13, hi + surplus}) < 13
    <3> HIDE DEF lo, hi, n, p, j, surplus
    <3>1. Max({1, lo - surplus}) = IF 1 >= lo - surplus THEN 1 ELSE lo - surplus
      BY <1>4, <1>6, <2>3, LargerOfTwo
    <3>2. Min({13, hi + surplus}) = IF 13 <= hi + surplus THEN 13 ELSE hi + surplus
      BY <1>4, <1>6, <2>3, SmallerOfTwo
    <3> QED  BY <1>3, <1>4, <1>6, <1>7, <1>9, <2>3, <3>1, <3>2 DEF j
  <2> QED  BY <2>1, <2>2, <2>4
<1>10. CASE ~IsJoker(t)
  <2> DEFINE all == Numbers(g) \cup {t.number}
  <2>1. Numbers(h) = all /\ Plain(h) = Plain(g) \cup {t} /\ t \notin Plain(g)
    BY <1>3, <1>10 DEF Numbers, Plain
  <2>2. C!IsCompatibleAsRun(Code(t), ts)
           <=> /\ Colors(g) = {t.color} /\ t.number \notin Numbers(g)
               /\ C!Span(all) - (p + 1) \in 0 .. j
    BY <1>1, <1>2, <1>8, <1>10, SameNumbers DEF C!IsCompatibleAsRun
  <2>3. Colors(g) = {t.color} <=> \A u \in Plain(g) : u.color = t.color
    BY DEF Colors, RunLike, LooksLikeRun
  <2>4. t.number \notin Numbers(g) <=> \A u \in Plain(g) : u.number # t.number
    BY DEF Numbers
  <2>5. LooksLikeRun(h) <=> Colors(g) = {t.color} /\ t.number \notin Numbers(g)
    <3>1. Cardinality(h) >= 3 /\ Plain(h) # {}
      <4>1. Plain(h) # {}  BY <2>1
      <4> HIDE DEF n, h
      <4>2. Cardinality(h) >= 3  BY <1>3, <1>4
      <4> QED  BY <4>1, <4>2
    <3>2. (\A u, v \in Plain(h) : u.color = v.color /\ (u.number = v.number => u = v))
             <=> \A u \in Plain(g) : u.color = t.color /\ u.number # t.number
      BY <2>1 DEF RunLike, LooksLikeRun
    <3> QED  BY <2>3, <2>4, <3>1, <3>2 DEF LooksLikeRun
  <2>6. ASSUME LooksLikeRun(h)
        PROVE  RunLike(h) <=> C!Span(all) - (p + 1) \in 0 .. j
    <3>1. TileSet(h)  BY <1>3, TilesOfTheGame
    <3>2. all \in SUBSET (1 .. 13) /\ all # {}
      BY <2>1, <3>1 DEF TileSet, Numbers, MaxNumber
    <3>3. C!Span(all) = Max(all) - Min(all) + 1 /\ Min(all) \in 1 .. 13 /\ Max(all) \in 1 .. 13
      BY <3>2, SpanOfTwo
    <3>4. Cardinality(Plain(h)) <= Max(Numbers(h)) - Min(Numbers(h)) + 1
      BY <2>6, <3>1, SpanOfDistinct DEF LooksLikeRun
    <3>5. Cardinality(Plain(h)) = p + 1
      <4>1. IsFiniteSet(Plain(g))  BY PlainAndJokers
      <4> QED  BY <2>1, <4>1, FS_AddElement
    <3>6. C!Span(all) <= n + 1 <=> \A a, b \in all : a - b < n + 1
      <4>1. n + 1 \in Nat  BY <1>4
      <4> DEFINE m == n + 1
      <4> HIDE DEF all, m
      <4>2. C!Span(all) <= m <=> \A a, b \in all : a - b < m  BY <3>2, <4>1, SpanOfTwo DEF m
      <4> QED  BY <4>2 DEF m
    <3>7. (\A a, b \in all : a - b < n + 1) <=> \A u, v \in Plain(h) : u.number - v.number < n + 1
      BY <2>1 DEF Numbers
    <3>8. RunLike(h) <=> C!Span(all) <= n + 1
      <4>1. Cardinality(h) <= 13  BY <1>3, <1>4
      <4> QED  BY <1>3, <2>6, <3>6, <3>7, <4>1 DEF RunLike
    <3> DEFINE span == C!Span(all)
    <3>9. span \in Int /\ p + 1 <= span  BY <2>1, <3>3, <3>4, <3>5
    <3> HIDE DEF n, p, j, span, all
    <3>10. span <= n + 1 <=> span - (p + 1) \in 0 .. j  BY <1>4, <3>9
    <3> QED  BY <3>8, <3>10 DEF span
  <2>7. RunLike(h) => LooksLikeRun(h)  BY DEF RunLike
  <2> HIDE DEF all, p, j
  <2> QED  BY <2>2, <2>5, <2>6, <2>7
<1> QED  BY <1>9, <1>10

(***************************************************************************)
(* The tile lights a legal set up exactly when the set stays one with it,  *)
(* up to eleven tiles.                                                     *)
(***************************************************************************)
LEMMA MergeAgrees ==
    ASSUME NEW g \in SUBSET GameTiles, IsFiniteSet(g), NEW ts, IsCodeOf(ts, g),
           GroupLike(g) \/ RunLike(g), Cardinality(g) < 12, NEW t \in GameTiles \ g
    PROVE  C!IsCompatibleWithGroup(Code(t), ts) <=> GroupLike(g \cup {t}) \/ RunLike(g \cup {t})
<1> DEFINE p == Cardinality(Plain(g))
<1>1. p \in Nat /\ Plain(g) # {} /\ C!Cardinality(C!Regular(ts)) = p
  BY ClientSees, SameNumbers, PlainAndJokers DEF GroupLike, RunLike, LooksLikeRun
<1>2. ~C!Contains(ts, Code(t))
  <2>1. PICK e \in Bijection(1 .. Len(ts), g) : \A i \in 1 .. Len(ts) : ts[i] = Code(e[i])
    BY DEF IsCodeOf
  <2>2. \A i \in 1 .. Len(ts) : e[i] \in g  BY <2>1 DEF Bijection, Injection
  <2>3. \A i \in 1 .. Len(ts) : ts[i] # Code(t)  BY <2>1, <2>2, CodeTells
  <2> QED  BY <2>3 DEF C!Contains
<1>3. Plain(g) \in SUBSET Plain(g \cup {t})  BY DEF Plain, Jokers
<1>4. CASE p < 2
  <2>1. p = 1  BY <1>1, <1>4, PlainAndJokers, FS_EmptySet
  <2>2. \A u, v \in Plain(g) : u = v
    <3>1. IsFiniteSet(Plain(g))  BY PlainAndJokers
    <3>2. \E u : Plain(g) = {u}  BY <2>1, <3>1, FS_Singleton
    <3> QED  BY <3>2
  <2>3. Cardinality(g) = 3
    BY <2>1, PlainAndJokers, TilesOfTheGame DEF GroupLike, RunLike, LooksLikeRun
  <2>4. GroupLike(g) /\ RunLike(g)
    <3>1. \A u \in Plain(g) : u.number \in 1 .. 13  BY TilesOfTheGame DEF TileSet, MaxNumber
    <3>2. \A u, v \in Plain(g) : u.number - v.number = 0  BY <2>2, <3>1
    <3> QED  BY <1>1, <2>2, <2>3, <3>2 DEF GroupLike, RunLike, LooksLikeRun
  <2>5. C!ClassifyKind(ts) = "unknown"  BY <1>1, <1>4 DEF C!ClassifyKind
  <2> QED  BY <1>2, <2>4, <2>5, MergedAsGroup, MergedAsRun DEF C!IsCompatibleWithGroup
<1>5. CASE ~(p < 2) /\ GroupLike(g)
  <2>1. PICK u \in Plain(g), v \in Plain(g) : u.color # v.color
    <3> SUFFICES ASSUME \A u, v \in Plain(g) : u = v  PROVE FALSE
      BY <1>5 DEF GroupLike
    <3>1. PICK u \in Plain(g) : Plain(g) = {u}  BY <1>1
    <3>2. p = 1  BY <3>1, FS_Singleton
    <3> QED  BY <1>5, <3>2
  <2>2. ~C!OneColor(ts) /\ C!OneNumber(ts)
    BY <1>5, <2>1, ClientCounts DEF GroupLike
  <2>3. C!ClassifyKind(ts) = "group"
    BY <1>1, <1>5, <2>2 DEF C!ClassifyKind, C!HookClassifySetType
  <2>4. ~RunLike(g \cup {t})  BY <1>3, <2>1 DEF RunLike, LooksLikeRun
  <2> QED  BY <1>2, <1>5, <2>3, <2>4, MergedAsGroup DEF C!IsCompatibleWithGroup
<1>6. CASE ~(p < 2) /\ ~GroupLike(g)
  <2>1. PICK u \in Plain(g), v \in Plain(g) : u.number # v.number
    BY <1>6, RunHasTwoNumbers
  <2>2. C!OneColor(ts)  BY <1>6, ClientCounts DEF RunLike, LooksLikeRun
  <2>3. C!ClassifyKind(ts) = "run"
    BY <1>1, <1>6, <2>2 DEF C!ClassifyKind, C!HookClassifySetType
  <2>4. ~GroupLike(g \cup {t})  BY <1>3, <2>1 DEF GroupLike
  <2> QED  BY <1>2, <1>6, <2>3, <2>4, MergedAsRun DEF C!IsCompatibleWithGroup
<1> QED  BY <1>4, <1>5, <1>6
-----------------------------------------------------------------------------
(* The joker that can be taken. *)

(***************************************************************************)
(* A tile in a joker's place: the set with the one for the other.          *)
(***************************************************************************)
LEMMA SwappedIsCode ==
    ASSUME NEW g \in SUBSET GameTiles, NEW ts, NEW e \in Bijection(1 .. Len(ts), g),
           ts \in Seq(Codes), \A k \in 1 .. Len(ts) : ts[k] = Code(e[k]),
           NEW i \in 1 .. Len(ts), NEW t \in GameTiles \ g
    PROVE  IsCodeOf([ts EXCEPT ![i] = Code(t)], (g \ {e[i]}) \cup {t})
<1> DEFINE us == [ts EXCEPT ![i] = Code(t)]
           d == [e EXCEPT ![i] = t]
           h == (g \ {e[i]}) \cup {t}
<1>1. Code(t) \in Codes  BY DEF Codes
<1>2. us \in Seq(Codes) /\ Len(us) = Len(ts)
  <2> HIDE DEF Codes
  <2> QED  BY <1>1
<1>3. \A k \in 1 .. Len(ts) : us[k] = Code(d[k])
  BY DEF Bijection, Injection
<1>4. /\ e \in [1 .. Len(ts) -> g]
      /\ \A k, m \in 1 .. Len(ts) : e[k] = e[m] => k = m
      /\ \A u \in g : \E k \in 1 .. Len(ts) : e[k] = u
  BY DEF Bijection, Injection, Surjection, IsInjective
<1>5. d \in [1 .. Len(ts) -> h]
  <2>1. \A k \in 1 .. Len(ts) : d[k] \in h  BY <1>4
  <2> QED  BY <1>4, <2>1
<1>6. \A k, m \in 1 .. Len(ts) : d[k] = d[m] => k = m  BY <1>4
<1>7. \A u \in h : \E k \in 1 .. Len(ts) : d[k] = u
  <2> SUFFICES ASSUME NEW u \in h  PROVE \E k \in 1 .. Len(ts) : d[k] = u
    OBVIOUS
  <2>1. CASE u = t  BY <1>4, <2>1
  <2>2. CASE u # t
    <3>1. PICK k \in 1 .. Len(ts) : e[k] = u  BY <1>4, <2>2
    <3>2. d[k] = u  BY <1>4, <2>2, <3>1
    <3> QED  BY <3>2
  <2> QED  BY <2>1, <2>2
<1> HIDE DEF d, us, h
<1>8. d \in Bijection(1 .. Len(ts), h)
  BY <1>5, <1>6, <1>7 DEF Bijection, Injection, Surjection, IsInjective
<1>9. IsCodeOf(us, h)  BY <1>2, <1>3, <1>8 DEF IsCodeOf
<1> QED  BY <1>9 DEF us, h

\* What is asked of a set after the swap, for sets that are not too long.
LEMMA SwapTest ==
    ASSUME NEW g \in SUBSET GameTiles, IsFiniteSet(g), Cardinality(g) <= 13,
           NEW ts, IsCodeOf(ts, g)
    PROVE  C!IsValidSetAfterSwap(ts) <=> GroupLike(g) \/ RunLike(g)
<1>1. /\ Len(ts) = Cardinality(g) /\ Cardinality(g) \in Nat
      /\ C!Regular(ts) = {} <=> Plain(g) = {}
  BY ClientSees, PlainAndJokers
<1>2. CASE Plain(g) = {}
  BY <1>1, <1>2 DEF C!IsValidSetAfterSwap, GroupLike, RunLike, LooksLikeRun
<1>3. CASE Plain(g) # {}
  <2>1. /\ C!OneNumber(ts) <=> \A t, u \in Plain(g) : t.number = u.number
        /\ C!OneColor(ts) <=> \A t, u \in Plain(g) : t.color = u.color
        /\ C!NoNumberTwice(ts) <=> \A t, u \in Plain(g) : t.number = u.number => t = u
        /\ C!NoColorTwice(ts) <=> \A t, u \in Plain(g) : t.color = u.color => t = u
        /\ C!Span(C!Numbers(ts)) <= Len(ts)
             <=> \A t, u \in Plain(g) : t.number - u.number < Cardinality(g)
    BY <1>3, ClientCounts
  <2>2. Len(ts) >= C!Span(C!Numbers(ts)) <=> C!Span(C!Numbers(ts)) <= Len(ts)
    OBVIOUS
  <2> QED  BY <1>1, <1>3, <2>1, <2>2 DEF C!IsValidSetAfterSwap, GroupLike, RunLike, LooksLikeRun
<1> QED  BY <1>2, <1>3

(***************************************************************************)
(* A joker can be taken for a tile exactly when there is one in whose      *)
(* place the tile keeps the set legal, and such a joker is the one taken.  *)
(***************************************************************************)
LEMMA SwapAgrees ==
    ASSUME NEW g \in SUBSET GameTiles, IsFiniteSet(g), NEW ts, IsCodeOf(ts, g),
           GroupLike(g) \/ RunLike(g), NEW t \in GameTiles \ g
    PROVE  LET swap == C!TryJokerSwap(ts, Code(t))
               kept == {j \in Jokers(g) : \/ GroupLike((g \ {j}) \cup {t})
                                          \/ RunLike((g \ {j}) \cup {t})}
           IN  /\ swap.ok <=> kept # {} /\ ~IsJoker(t)
               /\ swap.ok => \E j \in kept : swap.joker = Code(j)
<1> DEFINE With(j) == (g \ {j}) \cup {t}
           kept == {j \in Jokers(g) : GroupLike(With(j)) \/ RunLike(With(j))}
           fits(k) == {i \in 1 .. Len(ts) : /\ ts[i] = <<"JK", 0, k>>
                                            /\ C!IsValidSetAfterSwap([ts EXCEPT ![i] = Code(t)])}
           first == {k \in 1 .. 2 : fits(k) # {}}
           swap == C!TryJokerSwap(ts, Code(t))
<1>1. PICK e \in Bijection(1 .. Len(ts), g) : \A i \in 1 .. Len(ts) : ts[i] = Code(e[i])
  BY DEF IsCodeOf
<1>2. ts \in Seq(Codes)  BY DEF IsCodeOf
<1>3. /\ \A i \in 1 .. Len(ts) : e[i] \in g
      /\ \A u \in g : \E i \in 1 .. Len(ts) : e[i] = u
  BY <1>1 DEF Bijection, Injection, Surjection
<1>4. Len(ts) \in 0 .. 13 /\ Cardinality(g) <= 13
  <2>1. Len(ts) = Cardinality(g) /\ Len(ts) \in Nat  BY ClientSees
  <2>2. Cardinality(g) <= 13
    <3>1. CASE GroupLike(g)  BY <2>1, <3>1 DEF GroupLike
    <3>2. CASE RunLike(g)  BY <2>1, <3>2, PlainAndJokers DEF RunLike
    <3> QED  BY <3>1, <3>2
  <2> QED  BY <2>1, <2>2
<1>5. ASSUME NEW i \in 1 .. Len(ts)
      PROVE  C!IsValidSetAfterSwap([ts EXCEPT ![i] = Code(t)])
                <=> GroupLike(With(e[i])) \/ RunLike(With(e[i]))
  <2>1. IsCodeOf([ts EXCEPT ![i] = Code(t)], With(e[i]))  BY <1>1, <1>2, SwappedIsCode
  <2>2. With(e[i]) \in SUBSET GameTiles /\ IsFiniteSet(With(e[i])) /\ Cardinality(With(e[i])) <= 13
    <3>1. e[i] \in g /\ t \notin g \ {e[i]}  BY <1>3
    <3>2. IsFiniteSet(g \ {e[i]}) /\ Cardinality(g \ {e[i]}) = Cardinality(g) - 1
      BY <3>1, FS_RemoveElement
    <3>3. IsFiniteSet(With(e[i])) /\ Cardinality(With(e[i])) = Cardinality(g \ {e[i]}) + 1
      BY <3>1, <3>2, FS_AddElement
    <3> QED  BY <1>4, <3>2, <3>3, FS_CardinalityType
  <2> QED  BY <2>1, <2>2, SwapTest
<1>6. \A k \in 1 .. 2 : JokerTile(k) \in GameTiles /\ Code(JokerTile(k)) = <<"JK", 0, k>>
                        /\ IsJoker(JokerTile(k))
  BY DEF GameTiles, Code, JokerTile, IsJoker
<1>7. \A k \in 1 .. 2 : \A i \in 1 .. Len(ts) :
         ts[i] = <<"JK", 0, k>> <=> e[i] = JokerTile(k)
  BY <1>1, <1>3, <1>6, CodeTells
<1>8. \A k \in 1 .. 2 : \A i \in fits(k) :
         /\ i \in 1 .. Len(ts) /\ e[i] = JokerTile(k) /\ JokerTile(k) \in kept
         /\ ts[i] = Code(JokerTile(k))
  BY <1>3, <1>5, <1>6, <1>7 DEF Jokers
<1>9. \A j \in kept : \E k \in 1 .. 2 : j = JokerTile(k) /\ fits(k) # {}
  <2> SUFFICES ASSUME NEW j \in kept  PROVE \E k \in 1 .. 2 : j = JokerTile(k) /\ fits(k) # {}
    OBVIOUS
  <2>1. PICK k \in 1 .. 2 : j = JokerTile(k)  BY CodeTells DEF Jokers
  <2>2. PICK i \in 1 .. Len(ts) : e[i] = j  BY <1>3 DEF Jokers
  <2>3. i \in fits(k)  BY <1>5, <1>7, <2>1, <2>2
  <2> QED  BY <2>1, <2>3
<1>10. C!IsJoker(Code(t)) <=> IsJoker(t)  BY CodeTells
<1>11. swap = IF IsJoker(t) \/ first = {} THEN [ok |-> FALSE]
              ELSE [ok |-> TRUE, tiles |-> [ts EXCEPT ![C!Min(fits(C!Min(first)))] = Code(t)],
                    joker |-> ts[C!Min(fits(C!Min(first)))]]
  BY <1>10 DEF C!TryJokerSwap, C!NoSwap, C!Swapped
<1> HIDE DEF kept, fits, swap
<1>12. first = {} <=> kept = {}  BY <1>8, <1>9
<1>13. CASE IsJoker(t) \/ first = {}
  <2>1. ~swap.ok  BY <1>11, <1>13
  <2> QED  BY <1>12, <1>13, <2>1 DEF kept, swap
<1>14. CASE ~(IsJoker(t) \/ first = {})
  <2>1. Min(first) \in first
    <3>1. first \in SUBSET (1 .. 13) /\ first # {}  BY <1>14
    <3> QED  BY <3>1, SpanOfTwo
  <2> DEFINE k == Min(first)
  <2>2. k \in 1 .. 2 /\ fits(k) # {}  BY <2>1
  <2> HIDE DEF k
  <2>3. Min(fits(k)) \in fits(k)
    <3>1. fits(k) \in SUBSET (1 .. 13) /\ fits(k) # {}  BY <1>4, <2>2 DEF fits
    <3> QED  BY <3>1, SpanOfTwo
  <2>4. swap.ok /\ swap.joker = ts[Min(fits(k))]
    BY <1>11, <1>14, SameNumbers DEF k
  <2>5. JokerTile(k) \in kept /\ swap.joker = Code(JokerTile(k))
    BY <1>8, <2>2, <2>3, <2>4
  <2> QED  BY <1>14, <2>4, <2>5 DEF kept, swap
<1> QED  BY <1>13, <1>14

-----------------------------------------------------------------------------
(* The properties of the client *)

(***************************************************************************)
(* A set is legal when it is like a group or like a run.                   *)
(***************************************************************************)
LEMMA LegalIsAlike ==
    ASSUME NEW g \in SUBSET GameTiles, IsFiniteSet(g)
    PROVE  /\ IsLegal(g) <=> GroupLike(g) \/ RunLike(g)
           /\ SetType(g) = IF GroupLike(g) THEN "group" ELSE IF RunLike(g) THEN "run" ELSE "invalid"
<1>1. SetType(g) = IF GroupLike(g) THEN "group" ELSE IF RunLike(g) THEN "run" ELSE "invalid"
  BY TilesOfTheGame, LegalSeen
<1> QED  BY <1>1 DEF IsLegal

(***************************************************************************)
(* A prompt classifies a legal set of the board as the server does, or     *)
(* does not know it: it calls a set exactly what the server calls a group. *)
(***************************************************************************)
LEMMA PromptAgrees ==
    ASSUME NEW g \in SUBSET GameTiles, IsFiniteSet(g)
    PROVE  ClassifyGroup(g) \in {IF SetType(g) = "group" THEN "set" ELSE "run", "unknown"}
<1>1. TileSet(g)  BY TilesOfTheGame
<1>2. Numbers(g) = {} <=> Plain(g) = {}  BY DEF Numbers
<1>3. Cardinality(Numbers(g)) = 1 => Plain(g) # {}  BY <1>2, FS_EmptySet
<1>4. IsSet(g) <=> ValidateGroup(g)  BY <1>3 DEF IsSet, ValidateGroup
<1>5. ValidateGroup(g) <=> SetType(g) = "group"  BY <1>1, LegalSeen
<1> QED  BY <1>4, <1>5 DEF ClassifyGroup

(***************************************************************************)
(* Every copy of the rules agrees on the set that is built.                *)
(***************************************************************************)
LEMMA CopiesAgree ==
    ASSUME tiles \in SUBSET GameTiles, IsFiniteSet(tiles)
    PROVE  CopiesAgreeWithTheServer
<1>1. IsCodeOf(Coded(tiles), tiles)  BY CodedIsCode
<1>2. /\ IsLegal(tiles) <=> GroupLike(tiles) \/ RunLike(tiles)
      /\ SetType(tiles) = IF GroupLike(tiles) THEN "group"
                          ELSE IF RunLike(tiles) THEN "run" ELSE "invalid"
  BY LegalIsAlike
<1>3. C!IsSet(Coded(tiles)) <=> IsLegal(tiles)  BY <1>1, <1>2, PracticeAgrees
<1>4. ASSUME IsLegal(tiles)
      PROVE  /\ C!GroupError(Coded(tiles)) = "ok"
             /\ C!ClassifySetType(Coded(tiles)) = SetType(tiles)
             /\ C!ValidatePendingBlock(Coded(tiles)) \in {"valid-group", "valid-run"}
  <2>1. /\ C!GroupError(Coded(tiles)) = "ok"
        /\ C!ClassifySetType(Coded(tiles)) = IF GroupLike(tiles) THEN "group" ELSE "run"
        /\ C!ValidatePendingBlock(Coded(tiles))
              = IF GroupLike(tiles) THEN "valid-group" ELSE "valid-run"
    BY <1>1, <1>2, <1>4, ConfirmAgrees
  <2> QED  BY <1>2, <1>4, <2>1
<1> QED  BY <1>3, <1>4, PromptAgrees DEF CopiesAgreeWithTheServer

(***************************************************************************)
(* The universes are made of tiles of the game.                            *)
(***************************************************************************)
LEMMA UniversesAreOfTheGame ==
    ASSUME universe \in {"run", "group", "rack"}
    PROVE  Universe \in SUBSET GameTiles
<1>1. RunUniverse \in SUBSET GameTiles
  BY SMTT(30) DEF RunUniverse, GameTiles, Color, MaxNumber
<1>2. GroupUniverse \in SUBSET GameTiles
  BY SMTT(30) DEF GroupUniverse, GameTiles, Color, MaxNumber
<1>3. RackUniverse \in SUBSET GameTiles
  BY SMTT(30) DEF RackUniverse, GameTiles, Color, MaxNumber
<1> QED  BY <1>1, <1>2, <1>3 DEF Universe

(***************************************************************************)
(* What the board offers for a tile leaves legal sets: the group that      *)
(* lights up, and the joker it can take the place of.                      *)
(***************************************************************************)
LEMMA OffersAreLegal ==
    ASSUME tiles \in SUBSET GameTiles, IsFiniteSet(tiles),
           tiles = {} \/ universe \in {"run", "group", "rack"}
    PROVE  ClientOffersLegalMoves
<1> SUFFICES ASSUME IsLegal(tiles), NEW t \in Universe \ tiles
             PROVE  /\ Cardinality(tiles) < 12 =>
                          (C!ComputeValidMergeGroups(Code(t), <<[id |-> 1, tiles |-> Coded(tiles)]>>) = {1}
                             <=> IsLegal(tiles \cup {t}))
                    /\ LET swap == C!TryJokerSwap(Coded(tiles), Code(t))
                           kept == {j \in Jokers(tiles) : IsLegal((tiles \ {j}) \cup {t})}
                       IN  /\ swap.ok <=> kept # {} /\ ~IsJoker(t)
                           /\ swap.ok => \E j \in kept : swap.joker = Code(j)
  BY DEF ClientOffersLegalMoves
<1>1. GroupLike(tiles) \/ RunLike(tiles)  BY LegalIsAlike
<1>2. tiles # {}
  <2>1. GroupLike(tiles) \/ RunLike(tiles) => Plain(tiles) # {}
    BY DEF GroupLike, RunLike, LooksLikeRun
  <2> QED  BY <1>1, <2>1 DEF Plain
<1>3. t \in GameTiles \ tiles  BY <1>2, UniversesAreOfTheGame
<1>4. IsCodeOf(Coded(tiles), tiles)  BY CodedIsCode
<1>5. ASSUME Cardinality(tiles) < 12
      PROVE  C!ComputeValidMergeGroups(Code(t), <<[id |-> 1, tiles |-> Coded(tiles)]>>) = {1}
                <=> IsLegal(tiles \cup {t})
  <2> DEFINE group == [id |-> 1, tiles |-> Coded(tiles)]
             fits == C!IsCompatibleWithGroup(Code(t), Coded(tiles))
  <2>1. C!ToSet(<<group>>) = {group} /\ group.id = 1 /\ group.tiles = Coded(tiles)
    BY DEF C!ToSet
  <2>2. C!ComputeValidMergeGroups(Code(t), <<group>>) = IF fits THEN {1} ELSE {}
    <3> HIDE DEF group
    <3>1. C!ComputeValidMergeGroups(Code(t), <<group>>)
             = {g.id : g \in {h \in {group} : C!IsCompatibleWithGroup(Code(t), h.tiles)}}
      BY <2>1 DEF C!ComputeValidMergeGroups
    <3> QED  BY <2>1, <3>1
  <2>3. fits <=> GroupLike(tiles \cup {t}) \/ RunLike(tiles \cup {t})
    BY <1>1, <1>3, <1>4, <1>5, MergeAgrees
  <2>4. IsLegal(tiles \cup {t}) <=> GroupLike(tiles \cup {t}) \/ RunLike(tiles \cup {t})
    BY <1>3, OneTileMore, LegalIsAlike
  <2> QED  BY <2>2, <2>3, <2>4
<1>6. {j \in Jokers(tiles) : IsLegal((tiles \ {j}) \cup {t})}
        = {j \in Jokers(tiles) : GroupLike((tiles \ {j}) \cup {t}) \/ RunLike((tiles \ {j}) \cup {t})}
  <2> SUFFICES ASSUME NEW j
               PROVE  IsLegal((tiles \ {j}) \cup {t})
                         <=> GroupLike((tiles \ {j}) \cup {t}) \/ RunLike((tiles \ {j}) \cup {t})
    OBVIOUS
  <2>1. IsFiniteSet((tiles \ {j}) \cup {t})  BY FS_RemoveElement, FS_AddElement
  <2>2. (tiles \ {j}) \cup {t} \in SUBSET GameTiles  BY <1>3
  <2> QED  BY <2>1, <2>2, LegalIsAlike
<1> QED  BY <1>1, <1>3, <1>4, <1>5, <1>6, SwapAgrees

-----------------------------------------------------------------------------
(* The state machine that builds the sets *)

\* The set built so far is of tiles of the game, and there is one only in the
\* universes of tiles.
SetsInv ==
    /\ tiles \in SUBSET GameTiles /\ IsFiniteSet(tiles)
    /\ tiles = {} \/ universe \in {"run", "group", "rack"}

(***************************************************************************)
(* The sets that are built, of the universes of any run and of any size,   *)
(* are finite sets of tiles of the game.                                   *)
(***************************************************************************)
LEMMA SetsInvariance == Spec => []SetsInv
<1>1. Init => SetsInv
  BY FS_EmptySet DEF Init, SetsInv
<1>2. SetsInv /\ [Next]_<<universe, tiles, answers>> => SetsInv'
  <2> SUFFICES ASSUME SetsInv, [Next]_<<universe, tiles, answers>>  PROVE SetsInv'
    OBVIOUS
  <2>1. CASE AddTile
    <3>1. PICK t \in Universe \ tiles : tiles' = tiles \cup {t}  BY <2>1 DEF AddTile
    <3>2. universe' = universe /\ universe \in {"run", "group", "rack"}  BY <2>1 DEF AddTile
    <3>3. tiles' \in SUBSET GameTiles  BY <3>1, <3>2, UniversesAreOfTheGame DEF SetsInv
    <3>4. IsFiniteSet(tiles')  BY <3>1, FS_AddElement DEF SetsInv
    <3> QED  BY <3>2, <3>3, <3>4 DEF SetsInv
  <2>2. CASE AddAnswer
    BY <2>2 DEF AddAnswer, SetsInv
  <2>3. CASE UNCHANGED <<universe, tiles, answers>>
    BY <2>3 DEF SetsInv
  <2> QED  BY <2>1, <2>2, <2>3 DEF Next
<1> QED  BY <1>1, <1>2, PTL DEF Spec

(***************************************************************************)
(* The server's rules are those of the game: over every set that is built  *)
(* the engine takes exactly the sets with a legal reading, and values each *)
(* for a reading it has, a run for the best one (ValidateTileSet,          *)
(* groupScore, runScore).                                                  *)
(***************************************************************************)
THEOREM EngineIsCorrect == Spec => []EngineKeepsTheRules
<1>1. SetsInv => EngineKeepsTheRules
  <2> SUFFICES ASSUME SetsInv  PROVE EngineKeepsTheRules
    OBVIOUS
  <2>1. TileSet(tiles)  BY TilesOfTheGame DEF SetsInv
  <2> QED  BY <2>1, AcceptedIsLegal, ScoreIsBest
              DEF EngineKeepsTheRules, AcceptsExactlyLegalSets, ScoreIsBestReadingOfItsType
<1> QED  BY <1>1, SetsInvariance, PTL

(***************************************************************************)
(* The copies of the rules on the client are the server's: over every set  *)
(* that is built, nothing legal is held back before a confirm or named     *)
(* otherwise, the practice mode takes exactly the legal sets, a prompt     *)
(* calls them what they are, and the groups that light up for a tile and   *)
(* the jokers it can replace are those that leave legal sets               *)
(* (confirmValidator, practice-engine, mergeCompatibility, jokerSwap).     *)
(***************************************************************************)
THEOREM ClientIsCorrect == Spec => []ClientKeepsTheRules
<1>1. SetsInv => ClientKeepsTheRules
  BY CopiesAgree, OffersAreLegal DEF SetsInv, ClientKeepsTheRules
<1> QED  BY <1>1, SetsInvariance, PTL

=============================================================================
