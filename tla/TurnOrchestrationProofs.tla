---------------------- MODULE TurnOrchestrationProofs ----------------------
(***************************************************************************)
(* Proofs about TurnOrchestration, for every number of players, every mix  *)
(* of people and LLMs, every limit and every number of restarts: that a    *)
(* limit excludes, that a game that is over leaves no timer, and that a    *)
(* game in progress always has somebody who will end its turn.             *)
(***************************************************************************)
EXTENDS TurnOrchestration, FiniteSetTheorems, SequenceTheorems, WellFoundedInduction, TLAPS

-----------------------------------------------------------------------------
(* The steps a handler still has to do. *)

\* Before the next turn is announced; announced, its timer not armed; the game
\* over, its timer not cancelled; cancelled, the game not deleted; the rest.
Announcing == { <<"announce", "arm">>, <<"announce", "arm", "close">>,
                <<"announce", "arm", "clear">>, <<"clear", "announce", "arm">> }
Arming     == { <<"arm">>, <<"arm", "close">>, <<"arm", "clear">> }
Ending     == { <<"cancel", "cleanup">>, <<"cancel", "cleanup", "close">>,
                <<"cancel", "cleanup", "clear">>, <<"clear", "cancel", "cleanup">> }
Deleting   == { <<"cleanup">>, <<"cleanup", "close">>, <<"cleanup", "clear">> }
Resting    == { <<>>, <<"close">>, <<"clear">> }

\* The handler of LEAVE, which closes the socket last, and the one of an
\* absence at its limit, which clears the entry last.
Closing   == { <<"announce", "arm", "close">>, <<"arm", "close">>, <<"close">>,
               <<"cancel", "cleanup", "close">>, <<"cleanup", "close">> }
ClearLast == { <<"announce", "arm", "clear">>, <<"arm", "clear">>, <<"clear">>,
               <<"cancel", "cleanup", "clear">>, <<"cleanup", "clear">> }

Plans == Announcing \cup Arming \cup Ending \cup Deleting \cup Resting

LEMMA HeadsAndTails ==
    /\ \A a : Head(<<a>>) = a /\ Tail(<<a>>) = <<>>
    /\ \A a, b : Head(<<a, b>>) = a /\ Tail(<<a, b>>) = <<b>>
    /\ \A a, b, c : Head(<<a, b, c>>) = a /\ Tail(<<a, b, c>>) = <<b, c>>
OBVIOUS

(***************************************************************************)
(* Which step leads from which of them to which.                           *)
(***************************************************************************)
LEMMA StepsInOrder ==
    ASSUME todo \in Plans, NEW step, Doing(step)
    PROVE  /\ step = "announce" => todo \in Announcing /\ todo' \in Arming
           /\ step = "arm" => todo \in Arming /\ todo' \in Resting
           /\ step = "cancel" => todo \in Ending /\ todo' \in Deleting
           /\ step = "cleanup" => todo \in Deleting /\ todo' \in Resting
           /\ step = "close" => todo \in Resting \cap Closing /\ todo' = <<>>
           /\ step = "clear" => \/ todo \in Resting \cap ClearLast /\ todo' = <<>>
                                \/ todo \in Announcing /\ todo' = <<"announce", "arm">>
                                \/ todo \in Ending /\ todo' = <<"cancel", "cleanup">>
           /\ todo' \in Closing => todo \in Closing
           /\ todo' \in ClearLast => todo \in ClearLast
<1> USE HeadsAndTails DEF Announcing, Arming, Ending, Deleting, Resting, Closing, ClearLast, Doing
<1>1. CASE todo = <<"announce", "arm">>  BY <1>1
<1>2. CASE todo = <<"announce", "arm", "close">>  BY <1>2
<1>3. CASE todo = <<"announce", "arm", "clear">>  BY <1>3
<1>4. CASE todo = <<"clear", "announce", "arm">>  BY <1>4
<1>5. CASE todo = <<"arm">>  BY <1>5
<1>6. CASE todo = <<"arm", "close">>  BY <1>6
<1>7. CASE todo = <<"arm", "clear">>  BY <1>7
<1>8. CASE todo = <<"cancel", "cleanup">>  BY <1>8
<1>9. CASE todo = <<"cancel", "cleanup", "close">>  BY <1>9
<1>10. CASE todo = <<"cancel", "cleanup", "clear">>  BY <1>10
<1>11. CASE todo = <<"clear", "cancel", "cleanup">>  BY <1>11
<1>12. CASE todo = <<"cleanup">>  BY <1>12
<1>13. CASE todo = <<"cleanup", "close">>  BY <1>13
<1>14. CASE todo = <<"cleanup", "clear">>  BY <1>14
<1>15. CASE todo = <<"close">>  BY <1>15
<1>16. CASE todo = <<"clear">>  BY <1>16
<1>17. CASE todo = <<>>  BY <1>17
<1> QED
  BY <1>1, <1>2, <1>3, <1>4, <1>5, <1>6, <1>7, <1>8, <1>9, <1>10, <1>11, <1>12, <1>13, <1>14, <1>15, <1>16, <1>17 DEF Plans

(***************************************************************************)
(* The plan of a handler that has just made its service call.              *)
(***************************************************************************)
LEMMA Concatenations ==
    /\ \A a, b : <<>> \o <<a, b>> \o <<>> = <<a, b>>
    /\ \A a, b, c : <<>> \o <<a, b>> \o <<c>> = <<a, b, c>>
    /\ \A a, b, c : <<c>> \o <<a, b>> \o <<>> = <<c, a, b>>
<1> SUFFICES ASSUME NEW a, NEW b, NEW c
             PROVE  /\ <<>> \o <<a, b>> \o <<>> = <<a, b>>
                    /\ <<>> \o <<a, b>> \o <<c>> = <<a, b, c>>
                    /\ <<c>> \o <<a, b>> \o <<>> = <<c, a, b>>
  OBVIOUS
<1> DEFINE S == {a, b, c}
<1>1. /\ <<a, b>> \in Seq(S) /\ <<c>> \in Seq(S)
      /\ <<a, b, c>> \in Seq(S) /\ <<c, a, b>> \in Seq(S)
  OBVIOUS
<1>2. <<a, b>> \o <<c>> = <<a, b, c>>
  <2>1. /\ <<a, b>> \o <<c>> \in Seq(S) /\ Len(<<a, b>> \o <<c>>) = 3
        /\ \A i \in 1 .. 3 : (<<a, b>> \o <<c>>)[i] = IF i <= 2 THEN <<a, b>>[i] ELSE <<c>>[i - 2]
    BY <1>1, ConcatProperties
  <2>2. \A i \in 1 .. 3 : (<<a, b>> \o <<c>>)[i] = <<a, b, c>>[i]
    BY <2>1
  <2> QED  BY <1>1, <2>1, <2>2, SeqEqual
<1>3. <<c>> \o <<a, b>> = <<c, a, b>>
  <2>1. /\ <<c>> \o <<a, b>> \in Seq(S) /\ Len(<<c>> \o <<a, b>>) = 3
        /\ \A i \in 1 .. 3 : (<<c>> \o <<a, b>>)[i] = IF i <= 1 THEN <<c>>[i] ELSE <<a, b>>[i - 1]
    BY <1>1, ConcatProperties
  <2>2. \A i \in 1 .. 3 : (<<c>> \o <<a, b>>)[i] = <<c, a, b>>[i]
    BY <2>1
  <2> QED  BY <1>1, <2>1, <2>2, SeqEqual
<1> QED  BY <1>1, <1>2, <1>3, ConcatEmptySeq

LEMMA ContinuePlans ==
    ASSUME NEW before, NEW after, NEW who, Continue(before, after, who),
           \/ before = <<>> /\ after \in { <<>>, <<"close">>, <<"clear">> }
           \/ before = <<"clear">> /\ after = <<>>
    PROVE  /\ status' = "PLAYING" => todo' \in Announcing
           /\ status' # "PLAYING" => todo' \in Ending
           /\ todo' \in Closing => after = <<"close">>
           /\ todo' \in ClearLast => after = <<"clear">>
           /\ next' = current' /\ actor' = who
<1> USE Concatenations DEF Announcing, Ending, Closing, ClearLast
<1>1. next' = current' /\ actor' = who  BY DEF Continue
<1>2. CASE before = <<>> /\ after = <<>>
  <2>1. todo' = IF status' = "PLAYING" THEN <<"announce", "arm">> ELSE <<"cancel", "cleanup">>
    BY <1>2 DEF Continue
  <2> QED  BY <1>1, <1>2, <2>1
<1>3. CASE before = <<>> /\ after = <<"close">>
  <2>1. todo' = IF status' = "PLAYING" THEN <<"announce", "arm", "close">>
                                       ELSE <<"cancel", "cleanup", "close">>
    BY <1>3 DEF Continue
  <2> QED  BY <1>1, <1>3, <2>1
<1>4. CASE before = <<>> /\ after = <<"clear">>
  <2>1. todo' = IF status' = "PLAYING" THEN <<"announce", "arm", "clear">>
                                       ELSE <<"cancel", "cleanup", "clear">>
    BY <1>4 DEF Continue
  <2> QED  BY <1>1, <1>4, <2>1
<1>5. CASE before = <<"clear">> /\ after = <<>>
  <2>1. todo' = IF status' = "PLAYING" THEN <<"clear", "announce", "arm">>
                                       ELSE <<"clear", "cancel", "cleanup">>
    BY <1>5 DEF Continue
  <2> QED  BY <1>1, <1>5, <2>1
<1> QED  BY <1>2, <1>3, <1>4, <1>5

-----------------------------------------------------------------------------
(* Seats, goroutines and timers. *)

LEMMA SmallestOf ==
    ASSUME NEW T \in SUBSET Nat, T # {}
    PROVE  \E i \in T : \A j \in T : i <= j
<1>1. PICK i \in T : \A j \in T : ~ (<<j, i>> \in OpToRel(<, Nat))
  BY NatLessThanWellFounded, WFMin
<1>2. \A j \in T : <<j, i>> \in OpToRel(<, Nat) <=> j < i
  BY DEF OpToRel
<1>3. \A j \in T : ~ (j < i)
  BY <1>1, <1>2, Zenon
<1> QED  BY <1>3

LEMMA NextActiveIsASeat ==
    ASSUME NEW s \in Seat, NEW c
    PROVE  NextActive(s, c) \in Seat
<1> DEFINE steps == {i \in 1 .. N : c[(s + i) % N] # "FORFEITED"}
<1>1. CASE steps = {}  BY <1>1 DEF NextActive
<1>2. CASE steps # {}
  <2>1. steps \in SUBSET Nat  BY SeatsAssumption
  <2>2. \E i \in steps : \A j \in steps : i <= j  BY <1>2, <2>1, SmallestOf
  <2>3. PICK i \in steps : NextActive(s, c) = (s + i) % N
    BY <1>2, <2>2 DEF NextActive
  <2> QED  BY <2>3, SeatsAssumption DEF Seat
<1> QED  BY <1>1, <1>2

(***************************************************************************)
(* A goroutine that is spawned, and one that returns.                      *)
(***************************************************************************)
LEMMA SpawnedIsIn ==
    ASSUME NEW B, IsABag(B), NEW x
    PROVE  /\ IsABag(B (+) SetToBag({x}))
           /\ \A e : BagIn(e, B (+) SetToBag({x})) <=> BagIn(e, B) \/ e = x
BY DEF IsABag, SetToBag, BagIn, BagToSet, (+)

LEMMA ReturnedIsOut ==
    ASSUME NEW B, IsABag(B), NEW x
    PROVE  /\ IsABag(B (-) SetToBag({x}))
           /\ \A e : BagIn(e, B (-) SetToBag({x})) => BagIn(e, B)
           /\ \A e : e # x /\ BagIn(e, B) => BagIn(e, B (-) SetToBag({x}))
<1> DEFINE left == [e \in DOMAIN B |-> IF e \in DOMAIN SetToBag({x}) THEN B[e] - SetToBag({x})[e]
                                                                     ELSE B[e]]
<1>1. B \in [DOMAIN B -> {n \in Nat : n > 0}]  BY DEF IsABag
<1>2. \A e \in DOMAIN B : left[e] \in Int /\ (e # x => left[e] = B[e])
  BY <1>1 DEF SetToBag
<1>3. B (-) SetToBag({x}) = [e \in {d \in DOMAIN B : left[d] > 0} |-> left[e]]
  BY DEF (-)
<1> HIDE DEF left
<1> QED  BY <1>1, <1>2, <1>3 DEF IsABag, BagIn, BagToSet

-----------------------------------------------------------------------------
(* The inductive invariant. *)

TypeInv ==
    /\ status \in {"PLAYING", "FINISHED", "DELETED"}
    /\ current \in Seat /\ turn \in Nat
    /\ conn \in [Seat -> {"ACTIVE", "DISCONNECTED", "FORFEITED"}]
    /\ absent \in [Seat -> Nat] /\ forced \in [Seat -> Nat]
    /\ timers \in [TimerId -> Timer \cup {None}]
    /\ entry \in Entry \cup {None}
    /\ IsABag(ai)
    /\ next \in Seat /\ actor \in Seat
    /\ online \in SUBSET Human /\ grace \in SUBSET Seat
    /\ redisTimer \in Seat \cup {None}
    /\ restarts \in Nat /\ unattended \in BOOLEAN

\* What is left to do fits the status of the game, which nobody has to clean up
\* if it ended over REST; the timer is cancelled before the game is deleted.
Phases ==
    \/ todo \in Announcing \cup Arming /\ status = "PLAYING"
    \/ todo \in Ending /\ status = "FINISHED"
    \/ todo \in Deleting /\ status = "FINISHED" /\ entry = None
    \/ todo \in Resting /\ status # "DELETED"
    \/ todo \in Resting /\ status = "DELETED" /\ entry = None

\* Who is online is not counted absent; who is at a limit is out of the game.
LimitsKept ==
    \A s \in Seat :
        absent[s] >= AbsentLimit \/ forced[s] >= ForceDrawLimit => conn[s] = "FORFEITED"

Counted ==
    /\ todo \in Closing => actor \in online
    /\ \A s \in Seat : conn[s] = "DISCONNECTED" => s \in Human \ online
    /\ \A s \in online : absent[s] = 0
    /\ \A s \in Human : forced[s] = 0
    /\ status = "PLAYING" => LimitsKept

\* Only the goroutine of the seat to move can be on its way to be started, and
\* only once its turn is announced; one timer at a time has run out.
Spawned(s) == BagIn([seat |-> s, pc |-> "spawned"], ai)
Expired(i) == timers[i] # None /\ timers[i].pc = "expired"

OneAtATime ==
    /\ next = current
    /\ \A s \in Seat : Spawned(s) =>
          s = current /\ s \in AISeat /\ todo \in Arming \cup Resting
    /\ \A i, j \in TimerId : Expired(i) /\ Expired(j) => i = j

OrchInv == TypeInv /\ Phases /\ Counted /\ OneAtATime

(***************************************************************************)
(* Timers that are stopped and armed.                                      *)
(***************************************************************************)
LEMMA StoppedTimers ==
    ASSUME TypeInv
    PROVE  /\ Stopped \in [TimerId -> Timer \cup {None}]
           /\ \A i \in TimerId : Stopped[i] \in {timers[i], None}
BY DEF Stopped, TypeInv, Timer, Entry

LEMMA StartedTimer ==
    ASSUME TypeInv, NEW seat \in Seat, StartTimer(seat)
    PROVE  /\ timers' \in [TimerId -> Timer \cup {None}]
           /\ entry' \in Entry /\ entry'.seat = seat /\ redisTimer' = seat
           /\ timers'[entry'.id] = [seat |-> seat, gen |-> entry'.gen, pc |-> "armed"]
           /\ \A i \in TimerId : i # entry'.id => timers'[i] \in {timers[i], None}
<1> DEFINE gen == IF entry = None THEN 1 ELSE entry.gen + 1
           free == {i \in TimerId : Stopped[i] = None}
           id == CHOOSE i \in TimerId :
                    Stopped[i] = None /\ \A j \in TimerId : Stopped[j] = None => i <= j
<1>1. id \in TimerId
  <2>1. free \in SUBSET Nat /\ free # {}  BY LimitsAssumption DEF StartTimer
  <2>2. \E i \in free : \A j \in free : i <= j  BY <2>1, SmallestOf
  <2>3. \E i \in TimerId : Stopped[i] = None /\ \A j \in TimerId : Stopped[j] = None => i <= j
    BY <2>2
  <2> QED  BY <2>3
<1>2. gen \in Nat  BY DEF TypeInv, Entry
<1>3. /\ timers' = [Stopped EXCEPT ![id] = [seat |-> seat, gen |-> gen, pc |-> "armed"]]
      /\ entry' = [id |-> id, seat |-> seat, gen |-> gen] /\ redisTimer' = seat
  BY DEF StartTimer
<1> HIDE DEF id, gen, free
<1> QED  BY <1>1, <1>2, <1>3, StoppedTimers DEF Timer, Entry

(***************************************************************************)
(* What the three ways a service call moves the game leave behind.         *)
(***************************************************************************)
LEMMA EndedTurn ==
    ASSUME TypeInv, NEW s \in Seat, TurnEnds(s)
    PROVE  /\ status' \in {"PLAYING", "FINISHED"} /\ current' \in Seat /\ turn' \in Nat
           /\ status = "PLAYING" /\ current = s
BY NextActiveIsASeat DEF TurnEnds, TypeInv

LEMMA Forfeited ==
    ASSUME TypeInv, NEW s \in Seat, NEW cur \in Seat, NEW t \in Nat, Forfeits(s, cur, t)
    PROVE  /\ status' \in {"PLAYING", "FINISHED"} /\ current' \in Seat /\ turn' \in Nat
           /\ conn' = [conn EXCEPT ![s] = "FORFEITED"]
BY NextActiveIsASeat DEF Forfeits

(***************************************************************************)
(* Initially, and after every step.                                        *)
(***************************************************************************)
LEMMA OrchInit == Init => OrchInv
<1> SUFFICES ASSUME Init  PROVE OrchInv
  OBVIOUS
<1>1. 0 \in Seat  BY SeatsAssumption DEF Seat
<1>2. IsABag(ai) /\ \A e : ~ BagIn(e, ai)
  BY DEF Init, IsABag, EmptyBag, SetToBag, BagIn, BagToSet
<1>3. TypeInv  BY <1>1, <1>2 DEF Init, TypeInv, Human
<1>4. Phases  BY DEF Init, Phases, Announcing
<1>5. Counted  BY LimitsAssumption DEF Init, Counted, LimitsKept, Closing, Human
<1>6. OneAtATime  BY <1>2, NoneAssumption DEF Init, OneAtATime, Spawned, Expired
<1> QED  BY <1>3, <1>4, <1>5, <1>6 DEF OrchInv

LEMMA WhenSettled ==
    ASSUME OrchInv, Settled
    PROVE  /\ todo = <<>> /\ todo \in Resting /\ todo \notin Closing /\ todo \notin ClearLast
           /\ todo \notin Announcing \cup Arming \cup Ending \cup Deleting
           /\ \A s \in Seat : ~ Spawned(s)
BY DEF OrchInv, TypeInv, Phases, Settled, Spawned, Announcing, Arming, Ending, Deleting, Resting,
       Closing, ClearLast

\* A call that moves the game, whoever makes it, between two steps of the others.
LEMMA HandedOver ==
    ASSUME OrchInv, Settled, NEW before, NEW after, NEW who \in Seat, Continue(before, after, who),
           \/ before = <<>> /\ after \in { <<>>, <<"close">>, <<"clear">> }
           \/ before = <<"clear">> /\ after = <<>>,
           status' \in {"PLAYING", "FINISHED"}, current' \in Seat,
           \A s \in Seat : Spawned(s)' => Spawned(s),
           \A i \in TimerId : timers'[i] \in {timers[i], None}
    PROVE  /\ Phases' /\ OneAtATime'
           /\ todo' \in Closing => after = <<"close">>
           /\ next' \in Seat /\ actor' = who
<1>1. Phases'  BY ContinuePlans DEF Phases
<1>2. \A s \in Seat : ~ Spawned(s)'  BY WhenSettled
<1>3. \A i, j \in TimerId : Expired(i)' /\ Expired(j)' => i = j
  BY DEF OrchInv, OneAtATime, Expired
<1> QED  BY <1>1, <1>2, <1>3, ContinuePlans DEF OneAtATime

(***************************************************************************)
(* The steps after a call.                                                 *)
(***************************************************************************)
LEMMA AnnounceKeeps ==
    ASSUME OrchInv, Announce
    PROVE  OrchInv'
<1>1. todo \in Announcing /\ todo' \in Arming /\ (todo' \in Closing => todo \in Closing)
  BY StepsInOrder DEF Announce, OrchInv, Phases, Plans
<1>2. status = "PLAYING"
  BY <1>1 DEF OrchInv, Phases, Announcing, Arming, Ending, Deleting, Resting
<1>3. \A s \in Seat : ~ Spawned(s)
  BY <1>1 DEF OrchInv, OneAtATime, Announcing, Arming, Resting
<1>4. IsABag(ai') /\ \A s \in Seat : Spawned(s)' => s = current /\ s \in AISeat
  <2>1. CASE next \in AISeat
    <3>1. IsABag(ai) /\ ai' = ai (+) SetToBag({[seat |-> next, pc |-> "spawned"]})
      BY <2>1 DEF Announce, OrchInv, TypeInv
    <3>2. IsABag(ai') /\ \A e : BagIn(e, ai') <=> BagIn(e, ai) \/ e = [seat |-> next, pc |-> "spawned"]
      BY <3>1, SpawnedIsIn
    <3>3. \A s \in Seat : Spawned(s)' => s = next
      BY <1>3, <3>2 DEF Spawned
    <3> QED  BY <2>1, <3>2, <3>3 DEF OrchInv, OneAtATime
  <2>2. CASE next \notin AISeat
    BY <1>3, <2>2 DEF Announce, OrchInv, TypeInv, Spawned
  <2> QED  BY <2>1, <2>2
<1>5. TypeInv'  BY <1>4 DEF Announce, game, history, OrchInv, TypeInv
<1>6. Phases'  BY <1>1, <1>2 DEF Announce, game, Phases
<1>7. Counted'  BY <1>1 DEF Announce, game, OrchInv, Counted, LimitsKept
<1>8. OneAtATime'
  BY <1>1, <1>4 DEF Announce, game, OrchInv, OneAtATime, Expired
<1> QED  BY <1>5, <1>6, <1>7, <1>8 DEF OrchInv

LEMMA ArmKeeps ==
    ASSUME OrchInv, Arm
    PROVE  OrchInv'
<1>1. todo \in Arming /\ todo' \in Resting /\ (todo' \in Closing => todo \in Closing)
  BY StepsInOrder DEF Arm, OrchInv, Phases, Plans
<1>2. status = "PLAYING"
  BY <1>1 DEF OrchInv, Phases, Announcing, Arming, Ending, Deleting, Resting
<1>3. next \in Seat /\ TypeInv  BY DEF OrchInv, TypeInv
<1>4. TypeInv'  BY <1>3, StartedTimer DEF Arm, game, history, TypeInv
<1>5. Phases'  BY <1>1, <1>2 DEF Arm, game, Phases
<1>6. Counted'  BY <1>1 DEF Arm, game, OrchInv, Counted, LimitsKept
<1>7. \A i \in TimerId : Expired(i)' => Expired(i)
  <2>1. timers'[entry'.id] = [seat |-> next, gen |-> entry'.gen, pc |-> "armed"]
    BY <1>3, StartedTimer DEF Arm
  <2>2. \A i \in TimerId : i # entry'.id => timers'[i] \in {timers[i], None}
    BY <1>3, StartedTimer DEF Arm
  <2> QED  BY <2>1, <2>2 DEF Expired
<1>8. OneAtATime'
  BY <1>1, <1>7 DEF Arm, game, OrchInv, OneAtATime, Spawned
<1> QED  BY <1>4, <1>5, <1>6, <1>8 DEF OrchInv

LEMMA CancelledTimer ==
    ASSUME TypeInv, OneAtATime, CancelTimer
    PROVE  /\ timers' \in [TimerId -> Timer \cup {None}] /\ entry' = None /\ redisTimer' = None
           /\ \A i \in TimerId : timers'[i] \in {timers[i], None}
           /\ \A i, j \in TimerId : Expired(i)' /\ Expired(j)' => i = j
BY StoppedTimers DEF CancelTimer, OneAtATime, Expired

LEMMA CancelKeeps ==
    ASSUME OrchInv, Cancel
    PROVE  OrchInv'
<1>1. todo \in Ending /\ todo' \in Deleting /\ (todo' \in Closing => todo \in Closing)
  BY StepsInOrder DEF Cancel, OrchInv, Phases, Plans
<1>2. status = "FINISHED"
  BY <1>1 DEF OrchInv, Phases, Announcing, Arming, Ending, Deleting, Resting
<1>3. TypeInv'  BY CancelledTimer DEF Cancel, game, history, OrchInv, TypeInv
<1>4. Phases'  BY <1>1, <1>2, CancelledTimer DEF Cancel, game, OrchInv, Phases
<1>5. Counted'  BY <1>1 DEF Cancel, game, OrchInv, Counted, LimitsKept
<1>6. \A s \in Seat : ~ Spawned(s)
  BY <1>1 DEF OrchInv, OneAtATime, Ending, Arming, Resting
<1>7. OneAtATime'
  BY <1>6, CancelledTimer DEF Cancel, game, OrchInv, OneAtATime, Spawned
<1> QED  BY <1>3, <1>4, <1>5, <1>7 DEF OrchInv

LEMMA CleanupKeeps ==
    ASSUME OrchInv, Cleanup
    PROVE  OrchInv'
<1>1. todo \in Deleting /\ todo' \in Resting /\ (todo' \in Closing => todo \in Closing)
  BY StepsInOrder DEF Cleanup, OrchInv, Phases, Plans
<1>2. entry = None
  BY <1>1 DEF OrchInv, Phases, Announcing, Arming, Ending, Deleting, Resting
<1>3. TypeInv'  BY DEF Cleanup, history, OrchInv, TypeInv
<1>4. Phases'  BY <1>1, <1>2 DEF Cleanup, Phases
<1>5. Counted'  BY <1>1 DEF Cleanup, OrchInv, Counted, LimitsKept
<1>6. OneAtATime'
  BY <1>1 DEF Cleanup, OrchInv, OneAtATime, Spawned, Expired
<1> QED  BY <1>3, <1>4, <1>5, <1>6 DEF OrchInv

LEMMA ClearKeeps ==
    ASSUME OrchInv, Clear
    PROVE  OrchInv'
<1>1. /\ \/ todo \in Resting \cap ClearLast /\ todo' = <<>>
         \/ todo \in Announcing /\ todo' = <<"announce", "arm">>
         \/ todo \in Ending /\ todo' = <<"cancel", "cleanup">>
      /\ todo' \in Closing => todo \in Closing
  BY StepsInOrder DEF Clear, OrchInv, Phases, Plans
<1>2. TypeInv'  BY DEF Clear, game, history, OrchInv, TypeInv
<1>3. Phases'
  <2>1. CASE todo \in Resting /\ todo' = <<>>
    BY <2>1 DEF Clear, game, OrchInv, Phases, Announcing, Arming, Ending, Deleting, Resting
  <2>2. CASE todo \in Announcing /\ todo' = <<"announce", "arm">>
    BY <2>2 DEF Clear, game, OrchInv, Phases, Announcing, Arming, Ending, Deleting, Resting
  <2>3. CASE todo \in Ending /\ todo' = <<"cancel", "cleanup">>
    BY <2>3 DEF Clear, game, OrchInv, Phases, Announcing, Arming, Ending, Deleting, Resting
  <2> QED  BY <1>1, <2>1, <2>2, <2>3
<1>4. Counted'  BY <1>1 DEF Clear, game, OrchInv, Counted, LimitsKept
<1>5. \A s \in Seat : Spawned(s) => todo' \in Resting
  BY <1>1 DEF OrchInv, OneAtATime, Announcing, Arming, Ending, Resting
<1>6. OneAtATime'
  BY <1>5 DEF Clear, game, OrchInv, OneAtATime, Spawned, Expired
<1> QED  BY <1>2, <1>3, <1>4, <1>6 DEF OrchInv

\* A connection that is lost leaves the counters as they are.
LEMMA DroppedSeat ==
    ASSUME OrchInv, NEW s \in online, Dropped(s), UNCHANGED <<status, absent, forced>>
    PROVE  /\ conn' \in [Seat -> {"ACTIVE", "DISCONNECTED", "FORFEITED"}]
           /\ online' \in SUBSET Human /\ grace' \in SUBSET Seat
           /\ \A t \in Seat : conn'[t] = "DISCONNECTED" => t \in Human \ online'
           /\ \A t \in online' : absent'[t] = 0
           /\ \A t \in Human : forced'[t] = 0
           /\ status' = "PLAYING" => LimitsKept'
<1>1. s \in Human /\ s \in Seat  BY DEF OrchInv, TypeInv, Human
<1>2. absent[s] = 0 /\ forced[s] = 0  BY <1>1 DEF OrchInv, Counted, LimitsKept
<1>3. conn' = conn \/ conn' = [conn EXCEPT ![s] = "DISCONNECTED"]  BY DEF Dropped
<1> QED  BY <1>1, <1>2, <1>3, LimitsAssumption DEF OrchInv, TypeInv, Counted, LimitsKept, Dropped, Human

LEMMA CloseKeeps ==
    ASSUME OrchInv, Close
    PROVE  OrchInv'
<1>1. todo \in Resting \cap Closing /\ todo' = <<>>
  BY StepsInOrder DEF Close, OrchInv, Phases, Plans
<1>2. actor \in online  BY <1>1 DEF OrchInv, Counted, LimitsKept
<1>3. TypeInv'  BY <1>2, DroppedSeat DEF Close, history, OrchInv, TypeInv
<1>4. Phases'
  BY <1>1 DEF Close, OrchInv, Phases, Announcing, Arming, Ending, Deleting, Resting
<1>5. Counted'  BY <1>1, <1>2, DroppedSeat DEF Close, Counted, LimitsKept, Closing
<1>6. OneAtATime'
  BY <1>1 DEF Close, OrchInv, OneAtATime, Spawned, Expired, Resting
<1> QED  BY <1>3, <1>4, <1>5, <1>6 DEF OrchInv

(***************************************************************************)
(* The LLM's goroutine.                                                    *)
(***************************************************************************)

\* A goroutine that has returned; one that now waits for its answer.
LEMMA GoneGoroutine ==
    ASSUME IsABag(ai), NEW s \in Seat, AIDone(s)
    PROVE  /\ IsABag(ai')
           /\ \A t \in Seat : Spawned(t)' => Spawned(t)
           /\ \A t \in Seat \ {s} : Thinks(t) => Thinks(t)'
<1>1. ai' = ai (-) SetToBag({[seat |-> s, pc |-> "thinking"]})  BY DEF AIDone
<1>2. /\ IsABag(ai')
      /\ \A e : BagIn(e, ai') => BagIn(e, ai)
      /\ \A e : e # [seat |-> s, pc |-> "thinking"] /\ BagIn(e, ai) => BagIn(e, ai')
  BY <1>1, ReturnedIsOut
<1> QED  BY <1>2 DEF Spawned, Thinks

LEMMA StartedGoroutine ==
    ASSUME IsABag(ai), NEW s \in Seat,
           ai' = (ai (-) SetToBag({[seat |-> s, pc |-> "spawned"]}))
                    (+) SetToBag({[seat |-> s, pc |-> "thinking"]})
    PROVE  /\ IsABag(ai') /\ Thinks(s)'
           /\ \A t \in Seat : Spawned(t)' => Spawned(t)
           /\ \A t \in Seat \ {s} : Spawned(t) => Spawned(t)'
           /\ \A t \in Seat : Thinks(t) => Thinks(t)'
<1> DEFINE B == ai (-) SetToBag({[seat |-> s, pc |-> "spawned"]})
<1>1. /\ IsABag(B)
      /\ \A e : BagIn(e, B) => BagIn(e, ai)
      /\ \A e : e # [seat |-> s, pc |-> "spawned"] /\ BagIn(e, ai) => BagIn(e, B)
  BY ReturnedIsOut
<1> HIDE DEF B
<1>2. ai' = B (+) SetToBag({[seat |-> s, pc |-> "thinking"]})  BY DEF B
<1>3. /\ IsABag(ai')
      /\ \A e : BagIn(e, ai') <=> BagIn(e, B) \/ e = [seat |-> s, pc |-> "thinking"]
  <2> DEFINE x == [seat |-> s, pc |-> "thinking"]
  <2>1. /\ IsABag(B (+) SetToBag({x}))
        /\ \A e : BagIn(e, B (+) SetToBag({x})) <=> BagIn(e, B) \/ e = x
    <3> HIDE DEF x
    <3> QED  BY <1>1, SpawnedIsIn
  <2> QED  BY <1>2, <2>1
<1> QED  BY <1>1, <1>3 DEF Spawned, Thinks

LEMMA AIStartKeeps ==
    ASSUME OrchInv, NEW s \in AISeat, AIStart(s)
    PROVE  OrchInv'
<1>1. s \in Seat /\ IsABag(ai)  BY SeatsAssumption DEF OrchInv, TypeInv
<1>2. IsABag(ai') /\ \A t \in Seat : Spawned(t)' => Spawned(t)
  BY <1>1, StartedGoroutine DEF AIStart
<1>3. TypeInv'  BY <1>2, CancelledTimer DEF AIStart, game, history, OrchInv, TypeInv
<1>4. Phases'  BY CancelledTimer DEF AIStart, game, OrchInv, Phases
<1>5. Counted'  BY DEF AIStart, game, OrchInv, Counted, LimitsKept
<1>6. OneAtATime'  BY <1>2, CancelledTimer DEF AIStart, game, OrchInv, OneAtATime
<1> QED  BY <1>3, <1>4, <1>5, <1>6 DEF OrchInv

LEMMA AIPlaysKeeps ==
    ASSUME OrchInv, NEW s \in AISeat, AIPlays(s)
    PROVE  OrchInv'
<1>1. s \in Seat /\ s \notin Human /\ TypeInv /\ Settled /\ Continue(<<>>, <<>>, s)
  BY SeatsAssumption DEF OrchInv, Human, AIPlays
<1>2. /\ status' \in {"PLAYING", "FINISHED"} /\ current' \in Seat /\ turn' \in Nat
      /\ status = "PLAYING" /\ current = s
  BY <1>1, EndedTurn DEF AIPlays
<1>3. IsABag(ai') /\ \A t \in Seat : Spawned(t)' => Spawned(t)
  BY <1>1, GoneGoroutine DEF AIPlays, TypeInv
<1>4. /\ Phases' /\ OneAtATime' /\ todo' \notin Closing /\ next' \in Seat /\ actor' = s
  <2>1. \A i \in TimerId : timers'[i] \in {timers[i], None}  BY DEF AIPlays
  <2> QED  BY <1>1, <1>2, <1>3, <2>1, HandedOver
<1>5. forced' \in [Seat -> Nat] /\ \A t \in Seat : forced'[t] = 0 \/ forced'[t] = forced[t]
  BY <1>1 DEF AIPlays, TypeInv
<1>6. TypeInv'  BY <1>1, <1>2, <1>3, <1>4, <1>5 DEF AIPlays, history, TypeInv
<1>7. Counted'
  BY <1>2, <1>4, <1>5, LimitsAssumption DEF AIPlays, OrchInv, TypeInv, Counted, LimitsKept, Human
<1> QED  BY <1>4, <1>6, <1>7 DEF OrchInv

\* The forced draw that counts up to a limit no higher than the code's.
LEMMA ForcedDrawn ==
    ASSUME OrchInv, NEW s \in AISeat, ForcedDraw(s, ForceDrawLimit)
    PROVE  /\ status' \in {"PLAYING", "FINISHED"} /\ current' \in Seat /\ turn' \in Nat
           /\ status = "PLAYING" /\ current = s
           /\ conn' \in {conn, [conn EXCEPT ![s] = "FORFEITED"]}
           /\ forced' \in [Seat -> Nat]
           /\ \A t \in Seat \ {s} : forced'[t] = forced[t]
           /\ forced'[s] >= ForceDrawLimit => conn'[s] = "FORFEITED"
<1>1. s \in Seat /\ TypeInv  BY SeatsAssumption DEF OrchInv
<1>2. CASE TurnEnds(s) /\ UNCHANGED <<conn, forced>>
  BY <1>1, <1>2, EndedTurn DEF OrchInv, TypeInv, Counted, LimitsKept
<1>3. CASE status = "PLAYING" /\ current = s /\ CountForcedDraw(s, ForceDrawLimit)
  <2>1. /\ forced' \in [Seat -> Nat] /\ forced'[s] = forced[s] + 1
        /\ \A t \in Seat \ {s} : forced'[t] = forced[t]
    BY <1>1, <1>3 DEF CountForcedDraw, TypeInv
  <2>2. NextActive(s, conn) \in Seat /\ turn + 1 \in Nat
    BY <1>1, NextActiveIsASeat DEF TypeInv
  <2>3. CASE forced[s] + 1 >= ForceDrawLimit
    <3>1. Forfeits(s, NextActive(s, conn), turn + 1)  BY <1>3, <2>3 DEF CountForcedDraw
    <3>2. /\ status' \in {"PLAYING", "FINISHED"} /\ current' \in Seat /\ turn' \in Nat
          /\ conn' = [conn EXCEPT ![s] = "FORFEITED"]
      BY <1>1, <2>2, <3>1, Forfeited
    <3> QED  BY <1>1, <1>3, <2>1, <3>2 DEF TypeInv
  <2>4. CASE ~ (forced[s] + 1 >= ForceDrawLimit)
    BY <1>1, <1>3, <2>1, <2>2, <2>4 DEF CountForcedDraw, TypeInv
  <2> QED  BY <2>3, <2>4
<1> QED  BY <1>2, <1>3 DEF ForcedDraw

LEMMA AIForcedKeeps ==
    ASSUME OrchInv, NEW s \in AISeat, AIForced(s)
    PROVE  OrchInv'
<1>1. /\ s \in Seat /\ s \notin Human /\ TypeInv /\ Settled /\ Continue(<<>>, <<>>, s)
      /\ ForcedDraw(s, ForceDrawLimit)
  BY SeatsAssumption DEF OrchInv, Human, AIForced, ForcedDraw
<1>2. /\ status' \in {"PLAYING", "FINISHED"} /\ current' \in Seat /\ turn' \in Nat
      /\ status = "PLAYING"
      /\ conn' \in {conn, [conn EXCEPT ![s] = "FORFEITED"]}
      /\ forced' \in [Seat -> Nat]
      /\ \A t \in Seat \ {s} : forced'[t] = forced[t]
      /\ forced'[s] >= ForceDrawLimit => conn'[s] = "FORFEITED"
  BY <1>1, ForcedDrawn
<1>3. IsABag(ai') /\ \A t \in Seat : Spawned(t)' => Spawned(t)
  BY <1>1, GoneGoroutine DEF ForcedDraw, TypeInv
<1>4. /\ Phases' /\ OneAtATime' /\ todo' \notin Closing /\ next' \in Seat /\ actor' = s
  <2>1. \A i \in TimerId : timers'[i] \in {timers[i], None}  BY <1>1 DEF ForcedDraw
  <2>2. status' \in {"PLAYING", "FINISHED"} /\ current' \in Seat  BY <1>2
  <2>3. \A t \in Seat : Spawned(t)' => Spawned(t)  BY <1>3
  <2> QED  BY <1>1, <2>1, <2>2, <2>3, HandedOver
<1>5. TypeInv'  BY <1>1, <1>2, <1>3, <1>4 DEF ForcedDraw, TypeInv
<1>6. Counted'
  <2>1. \A t \in Seat : conn'[t] = "DISCONNECTED" => t \in Human \ online
    BY <1>1, <1>2 DEF OrchInv, TypeInv, Counted, LimitsKept
  <2>2. \A t \in Seat \ {s} : absent[t] >= AbsentLimit \/ forced'[t] >= ForceDrawLimit
                                 => conn'[t] = "FORFEITED"
    BY <1>1, <1>2 DEF OrchInv, TypeInv, Counted, LimitsKept
  <2>3. absent[s] >= AbsentLimit \/ forced'[s] >= ForceDrawLimit => conn'[s] = "FORFEITED"
    BY <1>1, <1>2 DEF OrchInv, TypeInv, Counted, LimitsKept
  <2>4. \A t \in Human : forced'[t] = 0
    BY <1>1, <1>2 DEF OrchInv, Counted, LimitsKept, Human
  <2> QED  BY <1>1, <1>4, <2>1, <2>2, <2>3, <2>4 DEF ForcedDraw, OrchInv, Counted, LimitsKept
<1> QED  BY <1>4, <1>5, <1>6 DEF OrchInv

LEMMA AIReturnsKeeps ==
    ASSUME OrchInv, NEW s \in AISeat, AITooLate(s) \/ AIDeadline(s)
    PROVE  OrchInv'
<1>1. s \in Seat /\ IsABag(ai)  BY SeatsAssumption DEF OrchInv, TypeInv
<1>2. IsABag(ai') /\ \A t \in Seat : Spawned(t)' => Spawned(t)
  BY <1>1, GoneGoroutine DEF AITooLate, AIDeadline
<1>3. TypeInv'  BY <1>2 DEF AITooLate, AIDeadline, game, history, OrchInv, TypeInv
<1>4. Phases'  BY DEF AITooLate, AIDeadline, game, OrchInv, Phases
<1>5. Counted'  BY DEF AITooLate, AIDeadline, game, OrchInv, Counted, LimitsKept
<1>6. OneAtATime'
  BY <1>2 DEF AITooLate, AIDeadline, game, OrchInv, OneAtATime, Expired
<1> QED  BY <1>3, <1>4, <1>5, <1>6 DEF OrchInv

(***************************************************************************)
(* Browsers.                                                               *)
(***************************************************************************)
LEMMA HumanEndsTurnKeeps ==
    ASSUME OrchInv, NEW s \in Human, HumanEndsTurn(s)
    PROVE  OrchInv'
<1>1. s \in Seat /\ TypeInv /\ Settled /\ Continue(<<>>, <<>>, s)
  BY DEF OrchInv, Human, HumanEndsTurn
<1>2. /\ status' \in {"PLAYING", "FINISHED"} /\ current' \in Seat /\ turn' \in Nat
      /\ status = "PLAYING"
  BY <1>1, EndedTurn DEF HumanEndsTurn
<1>3. /\ Phases' /\ OneAtATime' /\ todo' \notin Closing /\ next' \in Seat /\ actor' = s
  <2>1. \A i \in TimerId : timers'[i] \in {timers[i], None}  BY DEF HumanEndsTurn
  <2>2. \A t \in Seat : Spawned(t)' => Spawned(t)  BY DEF HumanEndsTurn, Spawned
  <2> QED  BY <1>1, <1>2, <2>1, <2>2, HandedOver
<1>4. TypeInv'  BY <1>1, <1>2, <1>3 DEF HumanEndsTurn, history, TypeInv
<1>5. Counted'  BY <1>2, <1>3 DEF HumanEndsTurn, OrchInv, Counted, LimitsKept
<1> QED  BY <1>3, <1>4, <1>5 DEF OrchInv

\* A turn ended over REST: nobody has anything left to do.
LEMMA RestEndsTurnKeeps ==
    ASSUME OrchInv, NEW s \in Seat, RestEndsTurn(s)
    PROVE  OrchInv'
<1>1. TypeInv /\ Settled /\ TurnEnds(s) /\ todo' = todo /\ timers' = timers /\ ai' = ai
  BY DEF OrchInv, RestEndsTurn
<1>2. /\ status' \in {"PLAYING", "FINISHED"} /\ current' \in Seat /\ turn' \in Nat
      /\ status = "PLAYING"
  BY <1>1, EndedTurn
<1>3. todo \in Resting /\ todo \notin Closing /\ \A t \in Seat : ~ Spawned(t)
  BY <1>1, WhenSettled
<1>4. TypeInv'  BY <1>1, <1>2 DEF RestEndsTurn, TypeInv
<1>5. Phases'  BY <1>1, <1>2, <1>3 DEF Phases
<1>6. Counted'  BY <1>1, <1>2, <1>3 DEF RestEndsTurn, OrchInv, Counted, LimitsKept
<1>7. OneAtATime'  BY <1>1, <1>3 DEF RestEndsTurn, OrchInv, OneAtATime, Spawned, Expired
<1> QED  BY <1>4, <1>5, <1>6, <1>7 DEF OrchInv

\* A player excluded by a call that changes no counter.
LEMMA ExcludedSeat ==
    ASSUME OrchInv, status = "PLAYING", NEW s \in Seat, conn' = [conn EXCEPT ![s] = "FORFEITED"],
           UNCHANGED <<absent, forced, online>>, todo' \in Closing => s \in online, actor' = s
    PROVE  Counted'
BY DEF OrchInv, TypeInv, Counted, LimitsKept

LEMMA LeaveKeeps ==
    ASSUME OrchInv, NEW s \in Human, Leave(s)
    PROVE  OrchInv'
<1>1. /\ s \in Seat /\ s \in online /\ TypeInv /\ Settled /\ current \in Seat /\ turn \in Nat
      /\ Forfeits(s, current, turn) /\ Continue(<<>>, <<"close">>, s)
  BY DEF OrchInv, TypeInv, Human, Leave
<1>2. /\ status' \in {"PLAYING", "FINISHED"} /\ current' \in Seat /\ turn' \in Nat
      /\ conn' = [conn EXCEPT ![s] = "FORFEITED"]
  BY <1>1, Forfeited
<1>3. Phases' /\ OneAtATime' /\ next' \in Seat /\ actor' = s
  <2>1. \A i \in TimerId : timers'[i] \in {timers[i], None}  BY DEF Leave
  <2>2. \A t \in Seat : Spawned(t)' => Spawned(t)  BY DEF Leave, Spawned
  <2> QED  BY <1>1, <1>2, <2>1, <2>2, HandedOver
<1>4. TypeInv'  BY <1>1, <1>2, <1>3 DEF Leave, TypeInv
<1>5. Counted'  BY <1>1, <1>2, <1>3, ExcludedSeat DEF Leave
<1> QED  BY <1>3, <1>4, <1>5 DEF OrchInv

LEMMA DisconnectKeeps ==
    ASSUME OrchInv, NEW s \in Human, Disconnect(s)
    PROVE  OrchInv'
<1>1. s \in online /\ todo \notin Closing
  BY WhenSettled DEF Disconnect
<1>2. TypeInv'  BY <1>1, DroppedSeat DEF Disconnect, history, OrchInv, TypeInv
<1>3. Phases'  BY DEF Disconnect, OrchInv, Phases
<1>4. Counted'  BY <1>1, DroppedSeat DEF Disconnect, Counted, LimitsKept
<1>5. OneAtATime'  BY DEF Disconnect, OrchInv, OneAtATime, Spawned, Expired
<1> QED  BY <1>2, <1>3, <1>4, <1>5 DEF OrchInv

\* HandleWS arms the timer again only when Redis has a key and the map no entry.
LEMMA RestoredTimer ==
    ASSUME TypeInv, NEW s, Reconnect(s)
    PROVE  /\ timers' \in [TimerId -> Timer \cup {None}]
           /\ entry' \in Entry \cup {None} /\ redisTimer' \in Seat \cup {None}
           /\ \A i \in TimerId : Expired(i)' => Expired(i)
           /\ entry # None => UNCHANGED <<timers, entry>>
<1>1. CASE entry = None /\ redisTimer # None
  <2>1. redisTimer \in Seat /\ StartTimer(redisTimer)  BY <1>1 DEF Reconnect, TypeInv
  <2>2. /\ timers' \in [TimerId -> Timer \cup {None}]
        /\ entry' \in Entry /\ redisTimer' \in Seat
        /\ timers'[entry'.id] = [seat |-> redisTimer, gen |-> entry'.gen, pc |-> "armed"]
        /\ \A i \in TimerId : i # entry'.id => timers'[i] \in {timers[i], None}
    BY <2>1, StartedTimer
  <2>3. \A i \in TimerId : Expired(i)' => Expired(i)
    BY <2>2 DEF Expired
  <2> QED  BY <1>1, <2>2, <2>3
<1>2. CASE ~ (entry = None /\ redisTimer # None)
  BY <1>2 DEF Reconnect, TypeInv, Expired
<1> QED  BY <1>1, <1>2

LEMMA ReconnectKeeps ==
    ASSUME OrchInv, NEW s \in Human, Reconnect(s)
    PROVE  OrchInv'
<1>1. s \in Seat /\ TypeInv  BY DEF OrchInv, Human
<1>2. /\ timers' \in [TimerId -> Timer \cup {None}]
      /\ entry' \in Entry \cup {None} /\ redisTimer' \in Seat \cup {None}
      /\ \A i \in TimerId : Expired(i)' => Expired(i)
  BY <1>1, RestoredTimer
<1>3. TypeInv'  BY <1>1, <1>2 DEF Reconnect, history, TypeInv
<1>4. status = "PLAYING" /\ todo = <<>> /\ todo \in Resting /\ todo \notin Closing
  BY WhenSettled DEF Reconnect
<1>5. Phases'  BY <1>4 DEF Reconnect, Phases
<1>6. Counted'
  <2>1. forced[s] = 0  BY DEF OrchInv, Counted, LimitsKept
  <2>2. /\ conn' = [conn EXCEPT ![s] = "ACTIVE"] /\ absent' = [absent EXCEPT ![s] = 0]
        /\ online' = online \cup {s} /\ UNCHANGED <<forced, todo>>
    BY DEF Reconnect
  <2> QED  BY <1>1, <1>4, <2>1, <2>2, LimitsAssumption DEF OrchInv, TypeInv, Counted, LimitsKept
<1>7. OneAtATime'  BY <1>2 DEF Reconnect, OrchInv, OneAtATime, Spawned
<1> QED  BY <1>3, <1>5, <1>6, <1>7 DEF OrchInv

LEMMA GraceExpiresKeeps ==
    ASSUME OrchInv, NEW s \in Seat, GraceExpires(s)
    PROVE  OrchInv'
<1>1. TypeInv /\ Settled /\ current \in Seat /\ turn \in Nat
  BY DEF OrchInv, TypeInv, GraceExpires
<1>2. CASE status = "PLAYING"
  <2>1. Forfeits(s, current, turn) /\ Continue(<<>>, <<>>, s)
    BY <1>2 DEF GraceExpires
  <2>2. /\ status' \in {"PLAYING", "FINISHED"} /\ current' \in Seat /\ turn' \in Nat
        /\ conn' = [conn EXCEPT ![s] = "FORFEITED"]
    BY <1>1, <2>1, Forfeited
  <2>3. Phases' /\ OneAtATime' /\ next' \in Seat /\ actor' = s /\ todo' \notin Closing
    <3>1. \A i \in TimerId : timers'[i] \in {timers[i], None}  BY DEF GraceExpires
    <3>2. \A t \in Seat : Spawned(t)' => Spawned(t)  BY DEF GraceExpires, Spawned
    <3> QED  BY <1>1, <2>1, <2>2, <3>1, <3>2, HandedOver
  <2>4. TypeInv'  BY <1>1, <2>2, <2>3 DEF GraceExpires, TypeInv
  <2>5. Counted'  BY <1>2, <2>2, <2>3, ExcludedSeat DEF GraceExpires
  <2> QED  BY <2>3, <2>4, <2>5 DEF OrchInv
<1>3. CASE status # "PLAYING"
  <2>1. UNCHANGED <<status, current, turn, conn, leavers, todo, next, actor>>
    BY <1>3 DEF GraceExpires
  <2>2. TypeInv'  BY <1>1, <2>1 DEF GraceExpires, TypeInv
  <2>3. Phases'  BY <2>1 DEF GraceExpires, OrchInv, Phases
  <2>4. Counted'  BY <2>1 DEF GraceExpires, OrchInv, Counted, LimitsKept
  <2>5. OneAtATime'  BY <2>1 DEF GraceExpires, OrchInv, OneAtATime, Spawned, Expired
  <2> QED  BY <2>2, <2>3, <2>4, <2>5 DEF OrchInv
<1> QED  BY <1>2, <1>3

(***************************************************************************)
(* The turn timer, the restart and the expiry of the key in Redis.         *)
(***************************************************************************)
LEMMA ExpireKeeps ==
    ASSUME OrchInv, NEW i \in TimerId, Expire(i)
    PROVE  OrchInv'
<1>1. timers[i] \in Timer  BY DEF Expire, OrchInv, TypeInv
<1>2. /\ timers' \in [TimerId -> Timer \cup {None}]
      /\ \A j \in TimerId : Expired(j)' => j = i \/ Expired(j)
  BY <1>1 DEF Expire, OrchInv, TypeInv, Timer, Expired
<1>3. \A j \in TimerId : ~ Expired(j)  BY DEF Expire, Expired
<1>4. TypeInv'  BY <1>2 DEF Expire, game, history, OrchInv, TypeInv
<1>5. Phases'  BY DEF Expire, game, OrchInv, Phases
<1>6. Counted'  BY DEF Expire, game, OrchInv, Counted, LimitsKept
<1>7. OneAtATime'  BY <1>2, <1>3 DEF Expire, game, OrchInv, OneAtATime, Spawned
<1> QED  BY <1>4, <1>5, <1>6, <1>7 DEF OrchInv

\* The player's absence counted, the turn still to be ended.
LEMMA CountedAbsent ==
    ASSUME OrchInv, NEW s \in Seat, CountAbsent(s)
    PROVE  /\ absent' \in [Seat -> Nat]
           /\ \A t \in Seat \ {s} : absent'[t] = absent[t]
           /\ absent' # absent => conn[s] = "DISCONNECTED" /\ absent'[s] = absent[s] + 1
           /\ \A t \in online : absent'[t] = 0
BY DEF CountAbsent, OrchInv, TypeInv, Counted, LimitsKept

LEMMA TimeoutKeeps ==
    ASSUME OrchInv, NEW i \in TimerId, Timeout(i)
    PROVE  OrchInv'
<1> DEFINE s == timers[i].seat
<1>1. timers[i] \in Timer  BY DEF Timeout, OrchInv, TypeInv
<1>2. s \in Seat /\ TypeInv /\ Settled /\ CountAbsent(s) /\ current \in Seat /\ turn \in Nat
  BY <1>1 DEF Timer, Timeout, OrchInv, TypeInv
<1> HIDE DEF s
<1>3. /\ absent' \in [Seat -> Nat]
      /\ \A t \in Seat \ {s} : absent'[t] = absent[t]
      /\ absent' # absent => conn[s] = "DISCONNECTED" /\ absent'[s] = absent[s] + 1
      /\ \A t \in online : absent'[t] = 0
  BY <1>2, CountedAbsent
<1>4. /\ timers' \in [TimerId -> Timer \cup {None}]
      /\ \A j \in TimerId : timers'[j] \in {timers[j], None}
      /\ UNCHANGED <<forced, entry, ai, online, grace, redisTimer, restarts, unattended>>
  BY DEF Timeout, OrchInv, TypeInv
<1>5. \A t \in Seat : Spawned(t)' => Spawned(t)  BY <1>4 DEF Spawned
\* What the counters look like, unless the seat has reached its limit.
<1>6. ASSUME absent' = absent \/ absent'[s] < AbsentLimit, conn' = conn, todo' \notin Closing,
             status' = "PLAYING" => status = "PLAYING"
      PROVE  Counted'
  <2>1. \A t \in Seat : absent'[t] >= AbsentLimit => absent[t] >= AbsentLimit
    <3>1. CASE absent' = absent  BY <3>1
    <3>2. CASE absent'[s] < AbsentLimit
      BY <1>2, <1>3, <3>2, LimitsAssumption DEF OrchInv, TypeInv
    <3> QED  BY <1>6, <3>1, <3>2
  <2>2. /\ UNCHANGED <<forced, online>> /\ conn' = conn /\ todo' \notin Closing
        /\ \A t \in online : absent'[t] = 0
    BY <1>3, <1>4, <1>6
  <2> QED  BY <1>6, <2>1, <2>2 DEF OrchInv, Counted, LimitsKept
<1>7. CASE /\ absent' # absent /\ absent'[s] >= AbsentLimit
           /\ status = "PLAYING" /\ Forfeits(s, current, turn) /\ Continue(<<>>, <<"clear">>, s)
  <2>1. /\ status' \in {"PLAYING", "FINISHED"} /\ current' \in Seat /\ turn' \in Nat
        /\ conn' = [conn EXCEPT ![s] = "FORFEITED"]
    BY <1>2, <1>7, Forfeited
  <2>2. Phases' /\ OneAtATime' /\ next' \in Seat /\ actor' = s /\ todo' \notin Closing
    BY <1>2, <1>4, <1>5, <1>7, <2>1, HandedOver
  <2>3. TypeInv'  BY <1>2, <1>3, <1>4, <2>1, <2>2 DEF TypeInv
  <2>4. Counted'
    BY <1>2, <1>3, <1>4, <1>7, <2>1, <2>2 DEF OrchInv, TypeInv, Counted, LimitsKept
  <2> QED  BY <2>2, <2>3, <2>4 DEF OrchInv
<1>8. CASE /\ absent' = absent \/ absent'[s] < AbsentLimit
           /\ TurnEnds(s) /\ Continue(<<"clear">>, <<>>, s)
           /\ UNCHANGED <<conn, leavers>>
  <2>1. /\ status' \in {"PLAYING", "FINISHED"} /\ current' \in Seat /\ turn' \in Nat
        /\ status = "PLAYING"
    BY <1>2, <1>8, EndedTurn
  <2>2. Phases' /\ OneAtATime' /\ next' \in Seat /\ actor' = s /\ todo' \notin Closing
    BY <1>2, <1>4, <1>5, <1>8, <2>1, HandedOver
  <2>3. TypeInv'  BY <1>2, <1>3, <1>4, <1>8, <2>1, <2>2 DEF TypeInv
  <2>4. Counted'  BY <1>6, <1>8, <2>1, <2>2
  <2> QED  BY <2>2, <2>3, <2>4 DEF OrchInv
<1>9. CASE /\ absent' = absent \/ absent'[s] < AbsentLimit
           /\ UNCHANGED <<status, current, turn, conn, leavers, todo, next, actor>>
  <2>1. TypeInv'  BY <1>2, <1>3, <1>4, <1>9 DEF TypeInv
  <2>2. Phases'  BY <1>4, <1>9 DEF OrchInv, Phases
  <2>3. Counted'  BY <1>2, <1>6, <1>9, WhenSettled
  <2>4. OneAtATime'  BY <1>4, <1>5, <1>9 DEF OrchInv, OneAtATime, Expired
  <2> QED  BY <2>1, <2>2, <2>3, <2>4 DEF OrchInv
\* Nobody is excluded from a game that ended over REST; its entry is cleared.
<1>10. CASE /\ absent' # absent /\ status # "PLAYING" /\ todo' = <<"clear">>
            /\ UNCHANGED <<status, current, turn, conn, leavers, next, actor>>
  <2>1. todo = <<>> /\ todo \in Resting /\ todo' \in Resting /\ todo' \notin Closing
    BY <1>2, <1>10, WhenSettled, HeadsAndTails DEF Resting, Closing
  <2>2. TypeInv'  BY <1>2, <1>3, <1>4, <1>10 DEF TypeInv
  <2>3. status # "DELETED"  BY <1>2, <1>10 DEF CountAbsent
  <2>4. Phases'  BY <1>10, <2>1, <2>3 DEF OrchInv, TypeInv, Phases
  <2>5. Counted'  BY <1>3, <1>4, <1>10, <2>1 DEF OrchInv, Counted
  <2>6. OneAtATime'  BY <1>4, <1>5, <1>10, <2>1 DEF OrchInv, OneAtATime, Expired
  <2> QED  BY <2>2, <2>4, <2>5, <2>6 DEF OrchInv
<1> QED  BY <1>7, <1>8, <1>9, <1>10 DEF Timeout, s

LEMMA RestartKeeps ==
    ASSUME OrchInv, Restart
    PROVE  OrchInv'
<1>1. /\ UNCHANGED <<game, next, actor, redisTimer, leavers, unattended>>
      /\ restarts' = restarts + 1 /\ timers' = [i \in TimerId |-> None] /\ entry' = None
      /\ ai' = EmptyBag /\ todo' = <<>> /\ online' = {} /\ grace' = {} /\ status = "PLAYING"
  BY DEF Restart
<1>2. IsABag(ai') /\ \A s \in Seat : ~ Spawned(s)'
  BY <1>1 DEF IsABag, EmptyBag, SetToBag, Spawned, BagIn, BagToSet
<1>3. TypeInv'  BY <1>1, <1>2 DEF game, OrchInv, TypeInv
<1>4. Phases'  BY <1>1 DEF game, Phases, Resting
<1>5. Counted'  BY <1>1 DEF game, OrchInv, Counted, LimitsKept, Closing
<1>6. OneAtATime'  BY <1>1, <1>2 DEF game, OrchInv, OneAtATime, Expired
<1> QED  BY <1>3, <1>4, <1>5, <1>6 DEF OrchInv

LEMMA UntouchedKeeps ==
    ASSUME OrchInv, RedisKeyExpires \/ UNCHANGED vars
    PROVE  OrchInv'
<1>1. /\ UNCHANGED <<game, process, history>>
      /\ redisTimer' \in Seat \cup {None}
  BY DEF RedisKeyExpires, vars, OrchInv, TypeInv
<1>2. TypeInv'  BY <1>1 DEF game, process, history, OrchInv, TypeInv
<1>3. Phases'  BY <1>1 DEF game, process, OrchInv, Phases
<1>4. Counted'  BY <1>1 DEF game, process, OrchInv, Counted, LimitsKept
<1>5. OneAtATime'  BY <1>1 DEF game, process, OrchInv, OneAtATime, Spawned, Expired
<1> QED  BY <1>2, <1>3, <1>4, <1>5 DEF OrchInv

LEMMA OrchNext == OrchInv /\ [Next]_vars => OrchInv'
<1> SUFFICES ASSUME OrchInv, [Next]_vars  PROVE OrchInv'
  OBVIOUS
<1>1. CASE Steps
  BY <1>1, AnnounceKeeps, ArmKeeps, CancelKeeps, CleanupKeeps, ClearKeeps, CloseKeeps DEF Steps
<1>2. ASSUME NEW s \in AISeat, AIPlays(s) \/ AIForced(s) \/ AITooLate(s) \/ AIDeadline(s)
      PROVE  OrchInv'
  BY <1>2, AIPlaysKeeps, AIForcedKeeps, AIReturnsKeeps
<1>3. ASSUME NEW s \in AISeat, AIStart(s)  PROVE OrchInv'
  BY <1>3, AIStartKeeps
<1>4. ASSUME NEW s \in Human, HumanEndsTurn(s) \/ Leave(s) \/ Disconnect(s) \/ Reconnect(s)
      PROVE  OrchInv'
  BY <1>4, HumanEndsTurnKeeps, LeaveKeeps, DisconnectKeeps, ReconnectKeeps
<1>5. ASSUME NEW s \in Seat, GraceExpires(s) \/ RestEndsTurn(s)  PROVE OrchInv'
  BY <1>5, GraceExpiresKeeps, RestEndsTurnKeeps
<1>6. ASSUME NEW i \in TimerId, Expire(i) \/ Timeout(i)  PROVE OrchInv'
  BY <1>6, ExpireKeeps, TimeoutKeeps
<1>7. CASE Restart  BY <1>7, RestartKeeps
<1>8. CASE RedisKeyExpires \/ UNCHANGED vars  BY <1>8, UntouchedKeeps
<1> QED  BY <1>1, <1>2, <1>3, <1>4, <1>5, <1>6, <1>7, <1>8 DEF Next, AIAnswers

(***************************************************************************)
(* The orchestration keeps its invariant: the phases of a handler fit the  *)
(* status of the game, whoever is at a limit is out, one goroutine at most *)
(* is being started and one timer at most has run out (WSHandler).         *)
(***************************************************************************)
THEOREM OrchestrationInvariant == Spec => []OrchInv
BY OrchInit, OrchNext, PTL DEF Spec

\* Whoever reaches a limit is out of the game by the time anybody else can act
\* (incrementForceDrawCounter, checkAbsentTurnAndForfeit).
THEOREM LimitsCorrect == Spec => []LimitsExclude
<1>1. OrchInv => LimitsExclude
  BY LimitsAssumption DEF OrchInv, TypeInv, Counted, LimitsKept, LimitsExclude, ActiveSeats
<1> QED  BY <1>1, OrchestrationInvariant, PTL

\* A game that is over leaves no timer that could still act on it
\* (cancelTurnTimer before cleanupGame, at each of the ways a game ends).
THEOREM NoTimerCorrect == Spec => []NoTimerAfterTheGame
<1>1. OrchInv => NoTimerAfterTheGame
  BY DEF OrchInv, Phases, NoTimerAfterTheGame
<1> QED  BY <1>1, OrchestrationInvariant, PTL

-----------------------------------------------------------------------------
(* Who drives a game in progress. *)

\* While nothing has taken a goroutine away: who is disconnected has a grace
\* timer; who is at the last absence but one does not reach it by the timer
\* that has run out, so no handler clears the entry of the next turn; and,
\* once the turn is announced, the LLM's goroutine is on its way or, once the
\* timer is armed, the person's timer is still the entry's.
GraceRuns  == \A s \in Seat : conn[s] = "DISCONNECTED" => s \in grace
NotTheLast == \A i \in TimerId : Expired(i) /\ conn[timers[i].seat] = "DISCONNECTED" =>
                  absent[timers[i].seat] + 1 < AbsentLimit
Armed      == /\ entry # None
              /\ entry.seat = current
              /\ timers[entry.id] # None
              /\ timers[entry.id].seat = current
              /\ timers[entry.id].gen = entry.gen
AIDriven    == current \in AISeat /\ todo \notin Announcing => Spawned(current) \/ Thinks(current)
HumanDriven == current \in Human /\ todo \notin Announcing \cup Arming => Armed

Driven ==
    Undisturbed /\ status = "PLAYING" =>
        GraceRuns /\ NotTheLast /\ todo \notin ClearLast /\ AIDriven /\ HumanDriven

DrivenInv == OrchInv /\ Driven

\* A new turn is yet to be announced, so nobody has to drive it yet.
LEMMA NewTurn ==
    ASSUME NEW before, NEW after, NEW who, Continue(before, after, who),
           \/ before = <<>> /\ after \in { <<>>, <<"close">> }
           \/ before = <<"clear">> /\ after = <<>>,
           status' = "PLAYING"
    PROVE  AIDriven' /\ HumanDriven' /\ todo' \notin ClearLast
<1>1. todo' \in Announcing /\ (todo' \in ClearLast => after = <<"clear">>)
  BY ContinuePlans
<1>2. after # <<"clear">>
  BY HeadsAndTails
<1> QED  BY <1>1, <1>2 DEF AIDriven, HumanDriven

\* Nobody is newly disconnected, no grace timer of who is has ended, no other
\* timer has run out, and the absences of who is disconnected are as they were.
LEMMA NobodyDropped ==
    ASSUME OrchInv, GraceRuns, NotTheLast,
           \A s \in Seat : conn'[s] = "DISCONNECTED" =>
               conn[s] = "DISCONNECTED" /\ (s \in grace => s \in grace') /\ absent'[s] = absent[s],
           \A i \in TimerId : Expired(i)' => timers[i] # None /\ timers'[i] = timers[i]
    PROVE  GraceRuns' /\ NotTheLast'
<1>1. GraceRuns'  BY DEF GraceRuns
<1>2. NotTheLast'
  <2> SUFFICES ASSUME NEW i \in TimerId, Expired(i)', conn'[timers'[i].seat] = "DISCONNECTED"
               PROVE  absent'[timers'[i].seat] + 1 < AbsentLimit
    BY DEF NotTheLast
  <2>1. timers[i] # None /\ timers'[i] = timers[i] /\ Expired(i)
    BY DEF Expired
  <2>2. timers[i].seat \in Seat  BY <2>1 DEF OrchInv, TypeInv, Timer
  <2> QED  BY <2>1, <2>2 DEF NotTheLast
<1> QED  BY <1>1, <1>2

\* The same when a person online is dropped: no absence of hers was counted.
LEMMA SomebodyDropped ==
    ASSUME OrchInv, AbsentLimit >= 2, GraceRuns, NotTheLast, NEW s \in online, Dropped(s),
           UNCHANGED <<absent, timers>>
    PROVE  GraceRuns' /\ NotTheLast'
<1>1. absent[s] + 1 < AbsentLimit
  BY LimitsAssumption DEF OrchInv, Counted, LimitsKept
<1>2. \A t \in Seat \ {s} : conn'[t] = conn[t]
  BY DEF Dropped, OrchInv, TypeInv
<1>3. GraceRuns'  BY <1>2 DEF GraceRuns, Dropped
<1>4. NotTheLast'
  <2> SUFFICES ASSUME NEW i \in TimerId, Expired(i)', conn'[timers'[i].seat] = "DISCONNECTED"
               PROVE  absent'[timers'[i].seat] + 1 < AbsentLimit
    BY DEF NotTheLast
  <2>1. Expired(i) /\ timers[i].seat \in Seat  BY DEF Expired, OrchInv, TypeInv, Timer
  <2> QED  BY <1>1, <1>2, <2>1 DEF NotTheLast
<1> QED  BY <1>3, <1>4

(***************************************************************************)
(* The steps of a handler.                                                 *)
(***************************************************************************)
LEMMA StepsAreDriven ==
    ASSUME DrivenInv, AbsentLimit >= 2, Steps, Undisturbed', status' = "PLAYING"
    PROVE  GraceRuns' /\ NotTheLast' /\ todo' \notin ClearLast /\ AIDriven' /\ HumanDriven'
<1>1. /\ Undisturbed /\ status = "PLAYING" /\ todo \in Plans
      /\ todo \in Announcing \cup Arming \cup Resting
  BY DEF DrivenInv, OrchInv, Phases, Plans, Steps, Announce, Arm, Cancel, Cleanup, Clear, Close,
         game, history, Undisturbed
<1>2. GraceRuns /\ NotTheLast /\ todo \notin ClearLast /\ AIDriven /\ HumanDriven /\ OrchInv
  BY <1>1 DEF DrivenInv, Driven
<1>3. todo' \notin ClearLast
  BY <1>1, <1>2, StepsInOrder DEF Steps, Announce, Arm, Cancel, Cleanup, Clear, Close
<1>4. CASE Announce
  <2>1. todo' \in Arming  BY <1>1, <1>4, StepsInOrder DEF Announce
  <2>2. GraceRuns' /\ NotTheLast'
    BY <1>2, <1>4, NobodyDropped DEF Announce, game, Expired
  <2>3. AIDriven'
    <3> SUFFICES ASSUME current' \in AISeat  PROVE Spawned(current)'
      BY DEF AIDriven
    <3>1. /\ next = current /\ current' = current /\ IsABag(ai)
          /\ ai' = ai (+) SetToBag({[seat |-> next, pc |-> "spawned"]})
      BY <1>2, <1>4 DEF Announce, game, OrchInv, TypeInv, OneAtATime
    <3>2. \A e : BagIn(e, ai') <=> BagIn(e, ai) \/ e = [seat |-> next, pc |-> "spawned"]
      BY <3>1, SpawnedIsIn
    <3> QED  BY <3>1, <3>2 DEF Spawned
  <2> QED  BY <1>3, <2>1, <2>2, <2>3 DEF HumanDriven
<1>5. CASE Arm
  <2>1. todo \in Arming  BY <1>1, <1>5, StepsInOrder DEF Arm
  <2>2. next = current /\ next \in Seat /\ TypeInv /\ StartTimer(next)
    BY <1>2, <1>5 DEF OrchInv, TypeInv, OneAtATime, Arm
  <2>3. /\ entry' \in Entry /\ entry'.seat = next
        /\ timers'[entry'.id] = [seat |-> next, gen |-> entry'.gen, pc |-> "armed"]
        /\ \A i \in TimerId : i # entry'.id => timers'[i] \in {timers[i], None}
    BY <2>2, StartedTimer
  <2>4. GraceRuns' /\ NotTheLast'
    <3>1. \A i \in TimerId : Expired(i)' => timers[i] # None /\ timers'[i] = timers[i]
      BY <2>3 DEF Expired
    <3> QED  BY <1>2, <1>5, <3>1, NobodyDropped DEF Arm, game
  <2>5. Armed'
    <3>1. timers'[entry'.id] \in Timer  BY <2>2, <2>3 DEF Timer, Entry
    <3> QED  BY <1>5, <2>2, <2>3, <3>1, NoneAssumption DEF Arm, game, Armed
  <2>6. AIDriven'
    BY <1>2, <1>5, <2>1 DEF Arm, game, AIDriven, Spawned, Thinks, Announcing, Arming
  <2> QED  BY <1>3, <2>4, <2>5, <2>6 DEF HumanDriven
<1>6. CASE Cancel \/ Cleanup
  BY <1>1, <1>6, StepsInOrder DEF Cancel, Cleanup, Announcing, Arming, Resting, Ending, Deleting
<1>7. CASE Clear
  <2>1. todo' \in Announcing
    BY <1>1, <1>2, <1>7, StepsInOrder DEF Clear, Announcing, Arming, Resting, Ending
  <2>2. GraceRuns' /\ NotTheLast'
    BY <1>2, <1>7, NobodyDropped DEF Clear, game, Expired
  <2> QED  BY <1>3, <2>1, <2>2 DEF AIDriven, HumanDriven
<1>8. CASE Close
  <2>1. todo \in Resting \cap Closing /\ actor \in online
    BY <1>1, <1>2, <1>8, StepsInOrder DEF Close, OrchInv, Counted, LimitsKept
  <2>2. GraceRuns' /\ NotTheLast'
    BY <1>2, <1>8, <2>1, SomebodyDropped DEF Close
  <2>3. todo \notin Announcing \cup Arming
    BY <2>1 DEF Announcing, Arming, Resting
  <2>4. AIDriven' /\ HumanDriven'
    BY <1>2, <1>8, <2>3 DEF Close, AIDriven, HumanDriven, Armed, Spawned, Thinks
  <2> QED  BY <1>3, <2>2, <2>4
<1> QED  BY <1>4, <1>5, <1>6, <1>7, <1>8 DEF Steps

(***************************************************************************)
(* The LLM's goroutine.                                                    *)
(***************************************************************************)
LEMMA AIStartIsDriven ==
    ASSUME DrivenInv, NEW s \in AISeat, AIStart(s), Undisturbed', status' = "PLAYING"
    PROVE  GraceRuns' /\ NotTheLast' /\ todo' \notin ClearLast /\ AIDriven' /\ HumanDriven'
<1>1. /\ Undisturbed /\ status = "PLAYING" /\ UNCHANGED <<game, todo, grace>> /\ s \in Seat
  BY SeatsAssumption DEF AIStart, game, history, Undisturbed
<1>2. GraceRuns /\ NotTheLast /\ todo \notin ClearLast /\ AIDriven /\ HumanDriven /\ OrchInv
  BY <1>1 DEF DrivenInv, Driven
<1>3. Spawned(s) /\ s = current /\ s \notin Human
  BY <1>1, <1>2 DEF AIStart, OrchInv, OneAtATime, Spawned, Human
<1>4. Thinks(s)'
  BY <1>1, <1>2, StartedGoroutine DEF AIStart, OrchInv, TypeInv
<1>5. \A i \in TimerId : timers'[i] \in {timers[i], None}
  BY <1>2, CancelledTimer DEF AIStart, OrchInv
<1>6. GraceRuns' /\ NotTheLast'
  <2>1. \A i \in TimerId : Expired(i)' => timers[i] # None /\ timers'[i] = timers[i]
    BY <1>5 DEF Expired
  <2> QED  BY <1>1, <1>2, <2>1, NobodyDropped DEF game
<1> QED  BY <1>1, <1>2, <1>3, <1>4, <1>6 DEF game, AIDriven, HumanDriven, Thinks

LEMMA AIAnswersAreDriven ==
    ASSUME DrivenInv, NEW s \in AISeat, AIPlays(s) \/ AIForced(s) \/ AITooLate(s) \/ AIDeadline(s),
           Undisturbed', status' = "PLAYING"
    PROVE  GraceRuns' /\ NotTheLast' /\ todo' \notin ClearLast /\ AIDriven' /\ HumanDriven'
<1>1. s \in Seat  BY SeatsAssumption
<1>2. ~ AIDeadline(s)  BY DEF AIDeadline, Undisturbed
<1>3. Undisturbed /\ status = "PLAYING" /\ OrchInv
  <2>1. UNCHANGED <<restarts, unattended>>
    BY <1>2 DEF AIPlays, AIForced, ForcedDraw, AITooLate, history
  <2>2. CASE AIPlays(s)  BY <2>1, <2>2 DEF AIPlays, TurnEnds, Undisturbed, DrivenInv
  <2>3. CASE AIForced(s)
    BY <2>1, <2>3, ForcedDrawn DEF AIForced, Undisturbed, DrivenInv
  <2>4. CASE AITooLate(s)  BY <2>1, <2>4 DEF AITooLate, game, Undisturbed, DrivenInv
  <2> QED  BY <1>2, <2>2, <2>3, <2>4
<1>4. GraceRuns /\ NotTheLast /\ todo \notin ClearLast /\ AIDriven /\ HumanDriven
  BY <1>3 DEF DrivenInv, Driven
<1>5. CASE AIPlays(s)
  <2>1. GraceRuns' /\ NotTheLast'
    BY <1>3, <1>4, <1>5, NobodyDropped DEF AIPlays, Expired
  <2> QED  BY <1>5, <2>1, NewTurn DEF AIPlays
<1>6. CASE AIForced(s)
  <2>1. ForcedDraw(s, ForceDrawLimit)  BY <1>6 DEF AIForced
  <2>2. conn' \in {conn, [conn EXCEPT ![s] = "FORFEITED"]}
    BY <1>3, <2>1, ForcedDrawn
  <2>3. GraceRuns' /\ NotTheLast'
    <3>1. \A t \in Seat : conn'[t] = "DISCONNECTED" => conn[t] = "DISCONNECTED"
      BY <1>3, <2>2 DEF OrchInv, TypeInv
    <3>2. UNCHANGED <<absent, grace, timers>>  BY <2>1 DEF ForcedDraw
    <3> QED  BY <1>3, <1>4, <3>1, <3>2, NobodyDropped DEF Expired
  <2> QED  BY <2>1, <2>3, NewTurn DEF ForcedDraw
<1>7. CASE AITooLate(s)
  <2>1. s # current /\ UNCHANGED <<game, timers, entry, todo, grace>>
    BY <1>3, <1>7 DEF AITooLate
  <2>2. GraceRuns' /\ NotTheLast'
    BY <1>3, <1>4, <2>1, NobodyDropped DEF game, Expired
  <2>3. AIDriven'
    <3>1. Settled /\ IsABag(ai) /\ AIDone(s) /\ current \in Seat
      BY <1>3, <1>7 DEF AITooLate, OrchInv, TypeInv
    <3>2. Thinks(current) => Thinks(current)'
      BY <1>1, <2>1, <3>1, GoneGoroutine DEF game, Thinks
    <3>3. ~ Spawned(current)  BY <1>3, <3>1, WhenSettled
    <3> QED  BY <1>4, <2>1, <3>2, <3>3 DEF game, AIDriven
  <2> QED  BY <1>4, <2>1, <2>2, <2>3 DEF game, HumanDriven, Armed
<1> QED  BY <1>2, <1>5, <1>6, <1>7

(***************************************************************************)
(* Browsers, grace periods.                                                *)
(***************************************************************************)
LEMMA BrowsersAreDriven ==
    ASSUME DrivenInv, AbsentLimit >= 2, NEW s \in Human,
           HumanEndsTurn(s) \/ Leave(s) \/ Disconnect(s) \/ Reconnect(s),
           Undisturbed', status' = "PLAYING"
    PROVE  GraceRuns' /\ NotTheLast' /\ todo' \notin ClearLast /\ AIDriven' /\ HumanDriven'
<1>1. s \in Seat  BY DEF Human
<1>2. Undisturbed /\ status = "PLAYING" /\ OrchInv
  BY DEF HumanEndsTurn, TurnEnds, Leave, Disconnect, Reconnect, history, Undisturbed, DrivenInv
<1>3. GraceRuns /\ NotTheLast /\ todo \notin ClearLast /\ AIDriven /\ HumanDriven
  BY <1>2 DEF DrivenInv, Driven
<1>4. CASE HumanEndsTurn(s)
  <2>1. GraceRuns' /\ NotTheLast'
    BY <1>2, <1>3, <1>4, NobodyDropped DEF HumanEndsTurn, Expired
  <2> QED  BY <1>4, <2>1, NewTurn DEF HumanEndsTurn
<1>5. CASE Leave(s)
  <2>1. GraceRuns' /\ NotTheLast'
    <3>1. \A t \in Seat : conn'[t] = "DISCONNECTED" => conn[t] = "DISCONNECTED"
      BY <1>2, <1>5 DEF Leave, Forfeits, OrchInv, TypeInv
    <3>2. UNCHANGED <<absent, grace, timers>>  BY <1>5 DEF Leave
    <3> QED  BY <1>2, <1>3, <3>1, <3>2, NobodyDropped DEF Expired
  <2> QED  BY <1>5, <2>1, NewTurn DEF Leave
<1>6. CASE Disconnect(s)
  <2>1. GraceRuns' /\ NotTheLast'
    BY <1>2, <1>3, <1>6, SomebodyDropped DEF Disconnect
  <2> QED
    BY <1>3, <1>6, <2>1 DEF Disconnect, AIDriven, HumanDriven, Armed, Spawned, Thinks
<1>7. CASE Reconnect(s)
  <2>1. /\ conn' = [conn EXCEPT ![s] = "ACTIVE"] /\ absent' = [absent EXCEPT ![s] = 0]
        /\ grace' = grace \ {s} /\ UNCHANGED <<status, current, ai, todo>>
    BY <1>7 DEF Reconnect
  <2>2. /\ \A i \in TimerId : Expired(i)' => Expired(i)
        /\ entry # None => UNCHANGED <<timers, entry>>
    BY <1>2, <1>7, RestoredTimer DEF OrchInv
  <2>3. \A i \in TimerId : Expired(i)' => timers[i] # None /\ timers'[i] = timers[i]
    <3>1. CASE entry = None /\ redisTimer # None
      <4>1. redisTimer \in Seat /\ StartTimer(redisTimer) /\ TypeInv
        BY <1>2, <1>7, <3>1 DEF Reconnect, OrchInv, TypeInv
      <4>2. /\ timers'[entry'.id] = [seat |-> redisTimer, gen |-> entry'.gen, pc |-> "armed"]
            /\ \A i \in TimerId : i # entry'.id => timers'[i] \in {timers[i], None}
        BY <4>1, StartedTimer
      <4> QED  BY <4>2 DEF Expired
    <3>2. CASE UNCHANGED timers  BY <3>2 DEF Expired
    <3> QED  BY <1>7, <3>1, <3>2 DEF Reconnect
  <2>4. GraceRuns' /\ NotTheLast'
    <3>1. \A t \in Seat : conn'[t] = "DISCONNECTED" =>
             conn[t] = "DISCONNECTED" /\ (t \in grace => t \in grace') /\ absent'[t] = absent[t]
      BY <1>1, <1>2, <2>1 DEF OrchInv, TypeInv
    <3> QED  BY <1>2, <1>3, <2>3, <3>1, NobodyDropped
  <2>5. AIDriven'  BY <1>3, <2>1 DEF AIDriven, Spawned, Thinks
  <2>6. HumanDriven'
    <3> SUFFICES ASSUME current' \in Human  PROVE Armed'
      BY DEF HumanDriven
    <3>1. todo \notin Announcing \cup Arming /\ current \in Human
      BY <1>2, <1>7, <2>1, WhenSettled DEF Reconnect
    <3>2. Armed  BY <1>3, <3>1 DEF HumanDriven
    <3> QED  BY <2>1, <2>2, <3>2 DEF Armed
  <2> QED  BY <1>3, <2>1, <2>4, <2>5, <2>6
<1> QED  BY <1>4, <1>5, <1>6, <1>7

LEMMA GraceIsDriven ==
    ASSUME DrivenInv, NEW s \in Seat, GraceExpires(s), Undisturbed', status' = "PLAYING"
    PROVE  GraceRuns' /\ NotTheLast' /\ todo' \notin ClearLast /\ AIDriven' /\ HumanDriven'
<1>1. /\ Undisturbed /\ status = "PLAYING" /\ OrchInv
      /\ Forfeits(s, current, turn) /\ Continue(<<>>, <<>>, s)
  BY DEF GraceExpires, Undisturbed, DrivenInv
<1>2. GraceRuns /\ NotTheLast  BY <1>1 DEF DrivenInv, Driven
<1>3. GraceRuns' /\ NotTheLast'
  <2>1. \A t \in Seat : conn'[t] = "DISCONNECTED" => conn[t] = "DISCONNECTED" /\ t # s
    BY <1>1 DEF Forfeits, OrchInv, TypeInv
  <2>2. grace' = grace \ {s} /\ UNCHANGED <<absent, timers>>  BY DEF GraceExpires
  <2> QED  BY <1>1, <1>2, <2>1, <2>2, NobodyDropped DEF Expired
<1> QED  BY <1>1, <1>3, NewTurn

(***************************************************************************)
(* The turn timer.                                                         *)
(***************************************************************************)
LEMMA ExpireIsDriven ==
    ASSUME DrivenInv, NEW i \in TimerId, Expire(i), Undisturbed', status' = "PLAYING"
    PROVE  GraceRuns' /\ NotTheLast' /\ todo' \notin ClearLast /\ AIDriven' /\ HumanDriven'
<1>1. /\ Undisturbed /\ status = "PLAYING" /\ OrchInv
      /\ UNCHANGED <<game, entry, ai, todo, grace>>
  BY DEF Expire, game, history, Undisturbed, DrivenInv
<1>2. GraceRuns /\ NotTheLast /\ todo \notin ClearLast /\ AIDriven /\ HumanDriven
  BY <1>1 DEF DrivenInv, Driven
<1>3. timers[i] \in Timer /\ timers \in [TimerId -> Timer \cup {None}]
  BY <1>1 DEF Expire, OrchInv, TypeInv
<1>4. /\ \A j \in TimerId \ {i} : timers'[j] = timers[j]
      /\ entry = None \/ entry.gen # timers[i].gen => timers'[i] = None
      /\ ~ (entry = None \/ entry.gen # timers[i].gen) =>
             timers'[i] = [timers[i] EXCEPT !.pc = "expired"]
      /\ \A j \in TimerId : ~ Expired(j)
      /\ ~ GraceComesFirst(timers[i].seat)
  BY <1>3 DEF Expire, Expired
<1>5. GraceRuns'  BY <1>1, <1>2 DEF game, GraceRuns
<1>6. NotTheLast'
  <2> SUFFICES ASSUME NEW j \in TimerId, Expired(j)', conn'[timers'[j].seat] = "DISCONNECTED"
               PROVE  absent'[timers'[j].seat] + 1 < AbsentLimit
    BY DEF NotTheLast
  <2>1. j = i /\ timers'[i] # None  BY <1>4 DEF Expired
  <2>2. timers'[i].seat = timers[i].seat /\ timers[i].seat \in Seat
    BY <1>3, <1>4, <2>1 DEF Timer
  <2>3. timers[i].seat \in grace  BY <1>1, <1>2, <2>1, <2>2 DEF game, GraceRuns
  <2> QED
    BY <1>1, <1>4, <2>1, <2>2, <2>3, LimitsAssumption DEF game, GraceComesFirst, OrchInv, TypeInv
<1>7. AIDriven'  BY <1>1, <1>2 DEF game, AIDriven, Spawned, Thinks
<1>8. HumanDriven'
  <2> SUFFICES ASSUME Armed  PROVE Armed'
    BY <1>1, <1>2 DEF game, HumanDriven
  <2>1. entry.id \in TimerId  BY <1>1 DEF Armed, OrchInv, TypeInv, Entry
  <2>2. CASE entry.id = i
    <3>1. timers'[i] = [timers[i] EXCEPT !.pc = "expired"]
      BY <1>4, <2>2 DEF Armed
    <3>2. timers'[i] \in Timer /\ timers'[i].seat = timers[i].seat /\ timers'[i].gen = timers[i].gen
      BY <1>3, <3>1 DEF Timer
    <3> QED  BY <1>1, <2>2, <3>2, NoneAssumption DEF game, Armed
  <2>3. CASE entry.id # i
    BY <1>1, <1>4, <2>1, <2>3 DEF game, Armed
  <2> QED  BY <2>2, <2>3
<1> QED  BY <1>1, <1>2, <1>5, <1>6, <1>7, <1>8

LEMMA TimeoutIsDriven ==
    ASSUME DrivenInv, NEW i \in TimerId, Timeout(i), Undisturbed', status' = "PLAYING"
    PROVE  GraceRuns' /\ NotTheLast' /\ todo' \notin ClearLast /\ AIDriven' /\ HumanDriven'
<1> DEFINE s == timers[i].seat
<1>1. /\ OrchInv /\ Settled /\ Expired(i) /\ timers[i] \in Timer
      /\ timers' = [timers EXCEPT ![i] = None]
      /\ UNCHANGED <<forced, entry, ai, online, grace, redisTimer, restarts, unattended>>
  BY DEF Timeout, Expired, OrchInv, TypeInv, DrivenInv
<1>2. s \in Seat /\ CountAbsent(s)  BY <1>1 DEF Timer, Timeout
<1>3. status = "PLAYING"
  BY DEF Timeout, Forfeits, TurnEnds, Continue, DrivenInv, OrchInv, TypeInv, CountAbsent, Settled,
         Phases, Announcing, Arming, Ending, Deleting, Resting
<1>4. Undisturbed  BY <1>1 DEF Undisturbed
<1>5. GraceRuns /\ NotTheLast /\ todo \notin ClearLast /\ AIDriven /\ HumanDriven
  BY <1>3, <1>4 DEF DrivenInv, Driven
<1>6. /\ \A t \in Seat \ {s} : absent'[t] = absent[t]
      /\ absent' # absent => conn[s] = "DISCONNECTED" /\ absent'[s] = absent[s] + 1
  BY <1>1, <1>2, CountedAbsent
<1>7. ~ (absent' # absent /\ absent'[s] >= AbsentLimit)
  <2>1. absent' # absent => absent[s] + 1 < AbsentLimit
    BY <1>1, <1>5, <1>6 DEF NotTheLast
  <2>2. absent[s] \in Nat  BY <1>1, <1>2 DEF OrchInv, TypeInv
  <2> QED  BY <1>6, <2>1, <2>2, LimitsAssumption
\* The timer that had run out was the only one.
<1>8. \A j \in TimerId : ~ Expired(j)'
  BY <1>1 DEF Expired, OrchInv, TypeInv, OneAtATime
<1>9. conn' = conn
  BY <1>7 DEF Timeout, s
<1>10. GraceRuns' /\ NotTheLast'
  BY <1>1, <1>5, <1>8, <1>9 DEF GraceRuns, NotTheLast
<1>11. CASE TurnEnds(s) /\ Continue(<<"clear">>, <<>>, s)
  BY <1>10, <1>11, NewTurn
<1>12. CASE /\ status # "PLAYING" \/ current # s
            /\ UNCHANGED <<status, current, turn, conn, leavers, todo, next, actor>>
  <2>1. AIDriven'  BY <1>1, <1>5, <1>12 DEF AIDriven, Spawned, Thinks
  <2>2. HumanDriven'
    <3> SUFFICES ASSUME Armed  PROVE Armed'
      BY <1>5, <1>12 DEF HumanDriven
    <3>1. entry.id # i  BY <1>3, <1>12 DEF Armed
    <3>2. timers'[entry.id] = timers[entry.id]  BY <1>1, <3>1 DEF OrchInv, TypeInv
    <3> QED  BY <1>1, <1>12, <3>2 DEF Armed
  <2> QED  BY <1>5, <1>10, <1>12, <2>1, <2>2
<1> QED  BY <1>7, <1>11, <1>12 DEF Timeout, s

LEMMA DrivenInit == Init => Driven
BY SeatsAssumption, NoneAssumption
DEF Init, Driven, GraceRuns, NotTheLast, Expired, AIDriven, HumanDriven, ClearLast, Announcing

LEMMA DrivenNext ==
    ASSUME AbsentLimit >= 2
    PROVE  DrivenInv /\ [Next]_vars => DrivenInv'
<1> SUFFICES ASSUME DrivenInv, [Next]_vars, Undisturbed', status' = "PLAYING"
             PROVE  GraceRuns' /\ NotTheLast' /\ todo' \notin ClearLast /\ AIDriven' /\ HumanDriven'
  BY OrchNext DEF DrivenInv, Driven
<1>1. CASE Steps  BY <1>1, StepsAreDriven
<1>2. ASSUME NEW s \in AISeat, AIPlays(s) \/ AIForced(s) \/ AITooLate(s) \/ AIDeadline(s)
      PROVE  GraceRuns' /\ NotTheLast' /\ todo' \notin ClearLast /\ AIDriven' /\ HumanDriven'
  BY <1>2, AIAnswersAreDriven
<1>3. ASSUME NEW s \in AISeat, AIStart(s)
      PROVE  GraceRuns' /\ NotTheLast' /\ todo' \notin ClearLast /\ AIDriven' /\ HumanDriven'
  BY <1>3, AIStartIsDriven
<1>4. ASSUME NEW s \in Human, HumanEndsTurn(s) \/ Leave(s) \/ Disconnect(s) \/ Reconnect(s)
      PROVE  GraceRuns' /\ NotTheLast' /\ todo' \notin ClearLast /\ AIDriven' /\ HumanDriven'
  BY <1>4, BrowsersAreDriven
<1>5. ASSUME NEW s \in Seat, GraceExpires(s) \/ RestEndsTurn(s)
      PROVE  GraceRuns' /\ NotTheLast' /\ todo' \notin ClearLast /\ AIDriven' /\ HumanDriven'
  BY <1>5, GraceIsDriven DEF RestEndsTurn, Undisturbed
<1>6. ASSUME NEW i \in TimerId, Expire(i) \/ Timeout(i)
      PROVE  GraceRuns' /\ NotTheLast' /\ todo' \notin ClearLast /\ AIDriven' /\ HumanDriven'
  BY <1>6, ExpireIsDriven, TimeoutIsDriven
<1>7. ~ Restart
  BY DEF Restart, Undisturbed, DrivenInv, OrchInv, TypeInv
<1>8. CASE RedisKeyExpires \/ UNCHANGED vars
  <2>1. UNCHANGED <<game, process, history>>  BY <1>8 DEF RedisKeyExpires, vars
  <2> QED
    BY <2>1 DEF DrivenInv, Driven, Undisturbed, GraceRuns, NotTheLast, Expired, AIDriven, HumanDriven,
                Armed, Spawned, Thinks, game, process, history
<1> QED  BY <1>1, <1>2, <1>3, <1>4, <1>5, <1>6, <1>7, <1>8 DEF Next, AIAnswers

(***************************************************************************)
(* Between two events a game in progress has somebody who will end its     *)
(* turn, for every number of players and LLMs, provided that one absence   *)
(* does not exclude (the code's limit is 3): with a limit of 1 the player  *)
(* whose connection is lost while its timer's goroutine runs is forfeited  *)
(* by that goroutine, which then deletes the timer of the next turn        *)
(* (startTurnTimer, handleAITurn, checkAbsentTurnAndForfeit).              *)
(***************************************************************************)
THEOREM DrivenCorrect ==
    ASSUME AbsentLimit >= 2
    PROVE  Spec => []TurnIsDriven
<1>1. Init => DrivenInv  BY OrchInit, DrivenInit DEF DrivenInv
<1>2. DrivenInv /\ [Next]_vars => DrivenInv'  BY DrivenNext
<1>3. DrivenInv => TurnIsDriven
  <2> SUFFICES ASSUME DrivenInv, status = "PLAYING", Settled, Undisturbed
               PROVE  \/ current \in AISeat /\ Thinks(current)
                      \/ current \in Human /\ Armed
    BY DEF TurnIsDriven, Armed
  <2>1. AIDriven /\ HumanDriven /\ OrchInv  BY DEF DrivenInv, Driven
  <2>2. current \in Seat  BY <2>1 DEF OrchInv, TypeInv
  <2> QED  BY <2>1, <2>2, WhenSettled DEF AIDriven, HumanDriven, Human
<1> QED  BY <1>1, <1>2, <1>3, PTL DEF Spec

=============================================================================
