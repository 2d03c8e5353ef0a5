--------------------------- MODULE PagesProofs ---------------------------
(***************************************************************************)
(* Proofs about the pages: the game's page, for every number of people and *)
(* LLMs, every length of a turn and of the grace (what it shows of the     *)
(* players, the clock and the end is so on the server); the limits on what *)
(* a browser sends; the rankings, for every ladder and size of a page; and *)
(* the practice mode, for every list of stages.                            *)
(***************************************************************************)
EXTENDS GamePage, MCPages, FiniteSetTheorems, SequenceTheorems, WellFoundedInduction, TLAPS

-----------------------------------------------------------------------------
(* The game's page: the invariant. *)

Statuses == {"ACTIVE", "DISCONNECTED", "FORFEITED"}
Shown    == {"CONNECTED", "DISCONNECTED", "FORFEITED"}
Winners  == Seats \cup {Nobody}

Messages ==
    [type : {"TURN_END"}, next : Seats]
    \cup [type : {"TURN_START", "AI_THINKING", "PLAYER_DISCONNECTED", "PLAYER_JOIN"},
          seat : Seats]
    \cup [type : {"PLAYER_FORFEITED"}, seat : Seats, active : Nat]
    \cup [type : {"GAME_STATE"}, seat : Seats, until : Nat, connected : [Seats -> BOOLEAN]]
    \cup [type : {"GAME_OVER"}, endType : {"NORMAL", "STALEMATE", "FORFEIT"}, winner : Winners]

Games == [current : Seats, until : Nat, deadline : Nat, turns : Nat, over : BOOLEAN,
          winner : Winners]
PageStates == [current : Winners, players : [Seats -> Shown], countdown : [Seats -> Int],
          remaining : Nat, isAITurn : BOOLEAN, thinking : Winners, ended : BOOLEAN,
          endReason : {"none", "opponent_forfeit", "game_over"},
          result : {<<>>} \cup Messages]

TypeInv ==
    /\ time \in Nat
    /\ srv \in Games
    /\ status \in [Seats -> Statuses]
    /\ grace \in [Humans -> Int]
    /\ conn \in {"none", "served", "registered"}
    /\ missed \in BOOLEAN
    /\ inbox \in Seq(Messages)
    /\ page \in PageStates

\* A game goes on while somebody is in it, and no timer is set further ahead
\* than its length.
GameGoesOn ==
    /\ ~srv.over => InPlay(status) # {}
    /\ srv.deadline <= time + TurnTicks
    /\ \A s \in Humans :
          (~srv.over /\ status[s] = "DISCONNECTED") => grace[s] <= time + GraceTicks

\* Whatever announces an end is said after it.
SaysTheEnd(m) ==
    m.type = "GAME_OVER" \/ (m.type = "PLAYER_FORFEITED" /\ LastOne(m.active))
EndsAreReal ==
    /\ \A i \in 1 .. Len(inbox) : SaysTheEnd(inbox[i]) => srv.over
    /\ (page.ended \/ page.result # <<>>) => srv.over

\* A seat that is away is shown so, or will be by a message on its way; only
\* the state of the game shows a seat as present, and the state comes first.
SaysPresent(m, s) == m.type = "GAME_STATE" /\ m.connected[s]
SaysAbsent(m, s) ==
    \/ m.type \in {"PLAYER_DISCONNECTED", "PLAYER_FORFEITED"} /\ m.seat = s
    \/ m.type = "GAME_STATE" /\ ~m.connected[s]
AbsentAt(i, s) ==
    /\ IF i = 0 THEN page.players[s] # "CONNECTED" ELSE SaysAbsent(inbox[i], s)
    /\ \A j \in i + 1 .. Len(inbox) : ~SaysPresent(inbox[j], s)
AbsentAreTold ==
    (conn # "none" /\ ~missed) =>
        \A s \in Humans : status[s] # "ACTIVE" => \E i \in 0 .. Len(inbox) : AbsentAt(i, s)

\* A countdown that was started has not less to go than the grace timer.
CountdownsAreLong ==
    ~srv.over =>
        \A s \in Humans \ {Viewer} :
            (s \in saw /\ status[s] = "DISCONNECTED") =>
                page.countdown[s] = NoCountdown \/ page.countdown[s] >= Left(grace[s])

\* In a person's turn the clock runs with time enough, or a message on its way
\* will start it; nothing behind that stops it or sets it to less.
Timed == /\ ~srv.over /\ srv.current \in Humans
         /\ srv.until = srv.deadline /\ Left(srv.deadline) > 0
Runs == ~EffectiveAI(page) /\ page.remaining >= Left(srv.deadline)
StartsClock(m) == m.type = "TURN_START" /\ m.seat \in Humans
Harmless(m) ==
    m.type \notin {"AI_THINKING", "GAME_STATE"} /\ (m.type = "TURN_START" => m.seat \in Humans)
RunsFrom(i) ==
    /\ IF i = 0 THEN Runs ELSE StartsClock(inbox[i])
    /\ \A j \in i + 1 .. Len(inbox) : Harmless(inbox[j])
ClockRuns ==
    (conn # "none" /\ ~missed /\ Timed) => \E i \in 0 .. Len(inbox) : RunsFrom(i)

PageInv ==
    /\ TypeInv /\ GameGoesOn /\ EndsAreReal /\ AbsentAreTold
    /\ CountdownsAreLong /\ ClockRuns

-----------------------------------------------------------------------------
(* Seats. *)

LEMMA SeatsFacts ==
    /\ IsFiniteSet(Seats) /\ Cardinality(Seats) \in Nat \ {0}
    /\ Seats = 0 .. Cardinality(Seats) - 1
    /\ Viewer \in Seats /\ Humans \subseteq Seats /\ LLMs \subseteq Seats
<1>1. /\ IsFiniteSet(Seats) /\ Seats = 0 .. Cardinality(Seats) - 1
      /\ Viewer \in Seats /\ Humans \subseteq Seats /\ LLMs \subseteq Seats
  BY SeatsAssumption DEF Seats
<1>2. Cardinality(Seats) \in Nat  BY <1>1, FS_CardinalityType
<1>3. Cardinality(Seats) # 0  BY <1>1, <1>2
<1> QED  BY <1>1, <1>2, <1>3

LEMMA SmallestOf ==
    ASSUME NEW T \in SUBSET Nat, T # {}
    PROVE  \E i \in T : \A j \in T : i <= j
<1>1. PICK i \in T : \A j \in T : ~ (<<j, i>> \in OpToRel(<, Nat))
  BY NatLessThanWellFounded, WFMin
<1>2. \A j \in T : <<j, i>> \in OpToRel(<, Nat) <=> j < i
  BY DEF OpToRel
<1>3. \A j \in T : ~ (j < i)
  BY <1>1, <1>2, Zenon
<1> QED  BY <1>3

\* Going round the table reaches every seat.
LEMMA SeatReached ==
    ASSUME NEW n \in Nat \ {0}, NEW s \in 0 .. n - 1, NEW t \in 0 .. n - 1
    PROVE  \E i \in 1 .. n : (s + i) % n = t
<1>1. CASE t > s
  <2>1. t - s \in 1 .. n /\ (s + (t - s)) % n = t  BY <1>1
  <2> QED  BY <2>1
<1>2. CASE t <= s
  <2>1. t - s + n \in 1 .. n  BY <1>2
  <2>2. (s + (t - s + n)) % n = t  BY <1>2
  <2> QED  BY <2>1, <2>2
<1> QED  BY <1>1, <1>2

\* The turn goes to somebody in play.
LEMMA TurnGoesToAPlayer ==
    ASSUME NEW s \in Seats, NEW st \in [Seats -> Statuses], InPlay(st) # {}
    PROVE  AfterTurnOf(s, st) \in InPlay(st)
<1> PICK n \in Nat \ {0} : n = Cardinality(Seats) /\ Seats = 0 .. n - 1  BY SeatsFacts
<1> DEFINE steps == {i \in 1 .. n : (s + i) % n \in InPlay(st)}
<1>1. steps # {}
  <2> PICK t \in Seats : t \in InPlay(st)  BY DEF InPlay
  <2>1. s \in 0 .. n - 1 /\ t \in 0 .. n - 1  OBVIOUS
  <2>2. PICK i \in 1 .. n : (s + i) % n = t  BY <2>1, SeatReached
  <2> QED  BY <2>2
<1>2. steps \in SUBSET Nat  OBVIOUS
<1>3. PICK i \in steps : \A j \in steps : i <= j  BY <1>1, <1>2, SmallestOf
<1>4. i \in 1 .. n /\ (s + i) % n \in InPlay(st)
      /\ \A j \in 1 .. (i - 1) : (s + j) % n \notin InPlay(st)
  <2>1. \A j \in 1 .. (i - 1) : j \in 1 .. n /\ ~(i <= j)  BY <1>3
  <2> QED  BY <1>3, <2>1
<1> DEFINE turn == CHOOSE k \in 1 .. n :
                       /\ (s + k) % n \in InPlay(st)
                       /\ \A j \in 1 .. (k - 1) : (s + j) % n \notin InPlay(st)
<1>5. (s + turn) % n \in InPlay(st)  BY <1>4
<1>6. AfterTurnOf(s, st) = (s + turn) % n  BY DEF AfterTurnOf
<1> QED  BY <1>5, <1>6

-----------------------------------------------------------------------------
(* What the server says. *)

LEMMA Said ==
    ASSUME TypeInv, NEW msgs \in Seq(Messages), Broadcast(msgs), conn' = conn
    PROVE  /\ inbox' \in Seq(Messages) /\ missed' \in BOOLEAN
           /\ \A i \in 1 .. Len(inbox') :
                 \/ i \in 1 .. Len(inbox) /\ inbox'[i] = inbox[i]
                 \/ \E k \in 1 .. Len(msgs) : inbox'[i] = msgs[k]
           /\ (conn' # "none" /\ ~missed') =>
                 /\ ~missed /\ conn # "none" /\ Len(inbox') = Len(inbox) + Len(msgs)
                 /\ \A i \in 1 .. Len(inbox) : inbox'[i] = inbox[i]
                 /\ \A k \in 1 .. Len(msgs) : inbox'[Len(inbox) + k] = msgs[k]
<1>1. inbox \in Seq(Messages) /\ Len(inbox) \in Nat /\ Len(msgs) \in Nat  BY DEF TypeInv
<1>2. /\ inbox \o msgs \in Seq(Messages)
      /\ Len(inbox \o msgs) = Len(inbox) + Len(msgs)
      /\ \A i \in 1 .. Len(inbox) : (inbox \o msgs)[i] = inbox[i]
      /\ \A k \in 1 .. Len(msgs) : (inbox \o msgs)[Len(inbox) + k] = msgs[k]
  <2>1. /\ inbox \o msgs \in Seq(Messages)
        /\ Len(inbox \o msgs) = Len(inbox) + Len(msgs)
        /\ \A i \in 1 .. Len(inbox) + Len(msgs) :
              (inbox \o msgs)[i] = IF i <= Len(inbox) THEN inbox[i] ELSE msgs[i - Len(inbox)]
    BY <1>1, ConcatProperties
  <2>2. ASSUME NEW k \in 1 .. Len(msgs)
        PROVE  (inbox \o msgs)[Len(inbox) + k] = msgs[k]
    <3>1. /\ Len(inbox) + k \in 1 .. Len(inbox) + Len(msgs) /\ ~(Len(inbox) + k <= Len(inbox))
          /\ (Len(inbox) + k) - Len(inbox) = k
      BY <1>1
    <3> QED  BY <2>1, <3>1
  <2>3. \A i \in 1 .. Len(inbox) : i \in 1 .. Len(inbox) + Len(msgs) /\ i <= Len(inbox)
    BY <1>1
  <2> QED  BY <2>1, <2>2, <2>3
<1>3. \A i \in 1 .. Len(inbox) + Len(msgs) :
         i \in 1 .. Len(inbox) \/ \E k \in 1 .. Len(msgs) : i = Len(inbox) + k
  <2> SUFFICES ASSUME NEW i \in 1 .. Len(inbox) + Len(msgs), i \notin 1 .. Len(inbox)
               PROVE  \E k \in 1 .. Len(msgs) : i = Len(inbox) + k
    OBVIOUS
  <2>1. i - Len(inbox) \in 1 .. Len(msgs) /\ i = Len(inbox) + (i - Len(inbox))  BY <1>1
  <2> QED  BY <2>1
<1>4. missed' \in BOOLEAN /\ (~missed' => ~missed /\ conn # "served")
      /\ (conn = "registered" => inbox' = inbox \o msgs)
      /\ (conn # "registered" => inbox' = inbox)
  BY DEF Broadcast, TypeInv
<1>5. conn \in {"none", "served", "registered"}  BY DEF TypeInv
<1>6. CASE conn = "registered"
  <2>1. inbox' = inbox \o msgs  BY <1>4, <1>6
  <2>2. \A i \in 1 .. Len(inbox') :
           \/ i \in 1 .. Len(inbox) /\ inbox'[i] = inbox[i]
           \/ \E k \in 1 .. Len(msgs) : inbox'[i] = msgs[k]
    BY <1>2, <1>3, <2>1
  <2> QED  BY <1>2, <1>4, <1>6, <2>1, <2>2
<1>7. CASE conn # "registered"  BY <1>1, <1>4, <1>5, <1>7
<1> QED  BY <1>6, <1>7

\* A step of the server that leaves the page and the time alone.
LEMMA ServerSays ==
    ASSUME PageInv, NEW msgs \in Seq(Messages), Broadcast(msgs), UNCHANGED <<time, conn, page>>,
           srv' \in Games, status' \in [Seats -> Statuses], grace' \in [Humans -> Int],
           GameGoesOn', srv.over => srv'.over,
           \A k \in 1 .. Len(msgs) : SaysTheEnd(msgs[k]) => srv'.over,
           \A k \in 1 .. Len(msgs) : msgs[k].type # "GAME_STATE",
           \A s \in Humans : status'[s] # "ACTIVE" =>
               status[s] # "ACTIVE" \/ \E k \in 1 .. Len(msgs) : SaysAbsent(msgs[k], s),
           \A s \in Humans \ {Viewer} : (~srv'.over /\ s \in saw' /\ status'[s] = "DISCONNECTED") =>
               s \in saw /\ status[s] = "DISCONNECTED" /\ grace'[s] = grace[s],
           Timed' =>
               \/ Timed /\ srv'.deadline = srv.deadline
                        /\ \A k \in 1 .. Len(msgs) : Harmless(msgs[k])
               \/ \E k \in 1 .. Len(msgs) :
                     StartsClock(msgs[k]) /\ \A l \in k + 1 .. Len(msgs) : Harmless(msgs[l])
    PROVE  PageInv'
<1> PICK n : n = Len(inbox)  OBVIOUS
<1> PICK p : p = Len(msgs)  OBVIOUS
<1>1. TypeInv  BY DEF PageInv
<1>2. n \in Nat /\ p \in Nat  BY <1>1 DEF TypeInv
<1>3. /\ inbox' \in Seq(Messages) /\ missed' \in BOOLEAN
      /\ \A i \in 1 .. Len(inbox') :
            \/ i \in 1 .. n /\ inbox'[i] = inbox[i]
            \/ \E k \in 1 .. p : inbox'[i] = msgs[k]
      /\ (conn' # "none" /\ ~missed') =>
            /\ ~missed /\ conn # "none" /\ Len(inbox') = n + p
            /\ \A i \in 1 .. n : inbox'[i] = inbox[i]
            /\ \A k \in 1 .. p : inbox'[n + k] = msgs[k]
  BY <1>1, Said
<1>4. TypeInv'  BY <1>1, <1>3 DEF TypeInv
<1>5. EndsAreReal'
  BY <1>3 DEF PageInv, EndsAreReal, SaysTheEnd, LastOne
<1>6. ASSUME NEW j \in 1 .. n + p  PROVE j \in 1 .. n \/ \E k \in 1 .. p : j = n + k
  <2>1. j \notin 1 .. n => j - n \in 1 .. p /\ j = n + (j - n)  BY <1>2
  <2> QED  BY <2>1
<1>7. AbsentAreTold'
  <2> SUFFICES ASSUME conn' # "none", ~missed', NEW s \in Humans, status'[s] # "ACTIVE"
               PROVE  \E i \in 0 .. Len(inbox') : AbsentAt(i, s)'
    BY DEF AbsentAreTold
  <2>1. /\ ~missed /\ conn # "none" /\ Len(inbox') = n + p
        /\ \A i \in 1 .. n : inbox'[i] = inbox[i]
        /\ \A k \in 1 .. p : inbox'[n + k] = msgs[k]
    BY <1>3
  <2>2. \A k \in 1 .. p : ~SaysPresent(msgs[k], s)  BY DEF SaysPresent
  <2>3. CASE status[s] # "ACTIVE"
    <3> PICK i \in 0 .. n : AbsentAt(i, s)  BY <2>1, <2>3 DEF PageInv, AbsentAreTold
    <3>1. i \in 0 .. Len(inbox')  BY <1>2, <2>1
    <3>2. IF i = 0 THEN page'.players[s] # "CONNECTED" ELSE SaysAbsent(inbox'[i], s)
      BY <2>1 DEF AbsentAt
    <3>3. ASSUME NEW j \in i + 1 .. Len(inbox')  PROVE ~SaysPresent(inbox'[j], s)
      <4>1. j \in 1 .. n + p /\ j \in 1 .. Len(inbox')  BY <1>2, <2>1
      <4>2. CASE j \in 1 .. n
        <5>1. j \in i + 1 .. n  BY <1>2, <4>2
        <5> QED  BY <2>1, <4>2, <5>1 DEF AbsentAt
      <4>3. CASE \E k \in 1 .. p : j = n + k  BY <2>1, <2>2, <4>3
      <4> QED  BY <1>6, <4>1, <4>2, <4>3
    <3> QED  BY <3>1, <3>2, <3>3 DEF AbsentAt, SaysAbsent, SaysPresent
  <2>4. CASE \E k \in 1 .. p : SaysAbsent(msgs[k], s)
    <3> PICK k \in 1 .. p : SaysAbsent(msgs[k], s)  BY <2>4
    <3> PICK i : i = n + k  OBVIOUS
    <3>1. i \in 0 .. Len(inbox') /\ i # 0 /\ SaysAbsent(inbox'[i], s)  BY <1>2, <2>1
    <3>2. ASSUME NEW j \in i + 1 .. Len(inbox')  PROVE ~SaysPresent(inbox'[j], s)
      <4>1. j \in 1 .. n + p /\ j \notin 1 .. n  BY <1>2, <2>1
      <4> QED  BY <1>6, <2>1, <2>2, <4>1
    <3> QED  BY <3>1, <3>2 DEF AbsentAt, SaysAbsent, SaysPresent
  <2> QED  BY <2>3, <2>4
<1>8. CountdownsAreLong'
  BY DEF PageInv, CountdownsAreLong, Left
<1>9. ClockRuns'
  <2> SUFFICES ASSUME conn' # "none", ~missed', Timed'
               PROVE  \E i \in 0 .. Len(inbox') : RunsFrom(i)'
    BY DEF ClockRuns
  <2>1. /\ ~missed /\ conn # "none" /\ Len(inbox') = n + p
        /\ \A i \in 1 .. n : inbox'[i] = inbox[i]
        /\ \A k \in 1 .. p : inbox'[n + k] = msgs[k]
    BY <1>3
  <2>2. CASE Timed /\ srv'.deadline = srv.deadline /\ \A k \in 1 .. p : Harmless(msgs[k])
    <3> PICK i \in 0 .. n : RunsFrom(i)  BY <2>1, <2>2 DEF PageInv, ClockRuns
    <3>1. i \in 0 .. Len(inbox')  BY <1>2, <2>1
    <3>2. IF i = 0 THEN Runs' ELSE StartsClock(inbox'[i])
      BY <2>1, <2>2 DEF RunsFrom, Runs, EffectiveAI, Left
    <3>3. ASSUME NEW j \in i + 1 .. Len(inbox')  PROVE Harmless(inbox'[j])
      <4>1. j \in 1 .. n + p /\ j \in 1 .. Len(inbox')  BY <1>2, <2>1
      <4>2. CASE j \in 1 .. n
        <5>1. j \in i + 1 .. n  BY <1>2, <4>2
        <5> QED  BY <2>1, <4>2, <5>1 DEF RunsFrom
      <4>3. CASE \E k \in 1 .. p : j = n + k  BY <2>1, <2>2, <4>3
      <4> QED  BY <1>6, <4>1, <4>2, <4>3
    <3> QED  BY <3>1, <3>2, <3>3 DEF RunsFrom, StartsClock, Harmless
  <2>3. CASE \E k \in 1 .. p :
                StartsClock(msgs[k]) /\ \A l \in k + 1 .. p : Harmless(msgs[l])
    <3> PICK k \in 1 .. p : StartsClock(msgs[k]) /\ \A l \in k + 1 .. p : Harmless(msgs[l])
      BY <2>3
    <3> PICK i : i = n + k  OBVIOUS
    <3>1. i \in 0 .. Len(inbox') /\ i # 0 /\ StartsClock(inbox'[i])  BY <1>2, <2>1
    <3>2. ASSUME NEW j \in i + 1 .. Len(inbox')  PROVE Harmless(inbox'[j])
      <4>1. j \in 1 .. n + p /\ j \notin 1 .. n  BY <1>2, <2>1
      <4> PICK l \in 1 .. p : j = n + l  BY <1>6, <4>1
      <4>2. l \in k + 1 .. p  BY <1>2, <2>1
      <4> QED  BY <2>1, <4>2
    <3> QED  BY <3>1, <3>2 DEF RunsFrom, StartsClock, Harmless
  <2> QED  BY <2>2, <2>3
<1> QED  BY <1>4, <1>5, <1>7, <1>8, <1>9 DEF PageInv

-----------------------------------------------------------------------------
(* The steps of the server. *)

LEMMA TwoMessages ==
    ASSUME NEW a \in Messages, NEW b \in Messages
    PROVE  /\ <<a, b>> \in Seq(Messages) /\ Len(<<a, b>>) = 2
           /\ <<a, b>>[1] = a /\ <<a, b>>[2] = b
           /\ \A k \in 1 .. Len(<<a, b>>) : k = 1 \/ k = 2
OBVIOUS

\* A message that ends neither the game nor the clock's time nor anybody's
\* absence.
LEMMA OneMessage ==
    ASSUME NEW a \in Messages
    PROVE  /\ <<a>> \in Seq(Messages) /\ Len(<<a>>) = 1 /\ <<a>>[1] = a
           /\ \A k \in 1 .. Len(<<a>>) : k = 1
OBVIOUS

LEMMA TurnStartIsAMessage ==
    ASSUME NEW s \in Seats
    PROVE  /\ TurnStart(s) \in Messages /\ TurnStart(s).type = "TURN_START"
           /\ TurnStart(s).seat = s
BY DEF TurnStart, Messages

LEMMA GameOverIsAMessage ==
    ASSUME NEW t \in {"NORMAL", "STALEMATE", "FORFEIT"}, NEW w \in Winners
    PROVE  GameOver(t, w) \in Messages /\ GameOver(t, w).type = "GAME_OVER"
BY DEF GameOver, Messages

LEMMA StartedTurn ==
    ASSUME TypeInv, NEW s \in Seats
    PROVE  /\ Starts(s) \in Games /\ Starts(s).over = srv.over /\ Starts(s).current = s
           /\ Starts(s).deadline = time + TurnTicks
<1>1. time + TurnTicks \in Nat /\ srv \in Games /\ srv.turns + 1 \in Nat
  BY TicksAssumption DEF TypeInv, Games
<1> QED  BY <1>1 DEF Games, Starts

LEMMA TurnEndsKeeps ==
    ASSUME PageInv, TurnEnds
    PROVE  PageInv'
<1>1. TypeInv /\ GameGoesOn  BY DEF PageInv
<1> PICK next : next = AfterTurnOf(srv.current, status)  OBVIOUS
<1> PICK a : a = [type |-> "TURN_END", next |-> next]  OBVIOUS
<1> PICK b : b = TurnStart(next)  OBVIOUS
<1>2. /\ ~srv.over /\ srv' = Starts(next) /\ Broadcast(<<a, b>>)
      /\ UNCHANGED <<time, status, grace, conn, saw, page>>
  BY DEF TurnEnds, Quiet
<1>3. next \in Seats
  BY <1>1, <1>2, TurnGoesToAPlayer DEF TypeInv, Games, GameGoesOn, InPlay
<1>4. /\ srv' \in Games /\ ~srv'.over /\ srv'.current = next /\ srv'.deadline = time + TurnTicks
  BY <1>1, <1>2, <1>3, StartedTurn
<1>5. a \in Messages /\ a.type = "TURN_END"  BY <1>3 DEF Messages
<1>6. b \in Messages /\ b.type = "TURN_START" /\ b.seat = next  BY <1>3, TurnStartIsAMessage
<1> PICK msgs : msgs = <<a, b>>  OBVIOUS
<1>7. /\ msgs \in Seq(Messages) /\ Len(msgs) = 2 /\ msgs[1] = a /\ msgs[2] = b
      /\ \A k \in 1 .. Len(msgs) : k = 1 \/ k = 2
  BY <1>5, <1>6, TwoMessages
<1>8. Broadcast(msgs) /\ UNCHANGED <<time, conn, page>>  BY <1>2
<1>9. /\ status' \in [Seats -> Statuses] /\ grace' \in [Humans -> Int]
      /\ srv.over => srv'.over
  BY <1>1, <1>2 DEF TypeInv
<1>10. GameGoesOn'
  BY <1>1, <1>2, <1>4, TicksAssumption DEF GameGoesOn, InPlay, TypeInv
<1>11. /\ \A k \in 1 .. Len(msgs) : SaysTheEnd(msgs[k]) => srv'.over
       /\ \A k \in 1 .. Len(msgs) : msgs[k].type # "GAME_STATE"
  BY <1>5, <1>6, <1>7 DEF SaysTheEnd
<1>12. \A s \in Humans : status'[s] # "ACTIVE" =>
           status[s] # "ACTIVE" \/ \E k \in 1 .. Len(msgs) : SaysAbsent(msgs[k], s)
  BY <1>2
<1>13. \A s \in Humans \ {Viewer} : (~srv'.over /\ s \in saw' /\ status'[s] = "DISCONNECTED") =>
           s \in saw /\ status[s] = "DISCONNECTED" /\ grace'[s] = grace[s]
  BY <1>2
<1>14. Timed' =>
           \/ Timed /\ srv'.deadline = srv.deadline
                    /\ \A k \in 1 .. Len(msgs) : Harmless(msgs[k])
           \/ \E k \in 1 .. Len(msgs) :
                 StartsClock(msgs[k]) /\ \A l \in k + 1 .. Len(msgs) : Harmless(msgs[l])
  BY <1>4, <1>6, <1>7 DEF Timed, StartsClock
<1> QED  BY <1>4, <1>7, <1>8, <1>9, <1>10, <1>11, <1>12, <1>13, <1>14, ServerSays

LEMMA GameEndsKeeps ==
    ASSUME PageInv, GameEnds
    PROVE  PageInv'
<1>1. TypeInv /\ GameGoesOn  BY DEF PageInv
<1> PICK winner \in InPlay(status) \cup {Nobody} :
        LET endType == IF winner = srv.current THEN "NORMAL" ELSE "STALEMATE"
        IN  /\ srv' = [srv EXCEPT !.over = TRUE, !.winner = winner]
            /\ Broadcast(<<GameOver(endType, winner)>>)
  BY DEF GameEnds
<1> PICK endType \in {"NORMAL", "STALEMATE", "FORFEIT"} :
        endType = IF winner = srv.current THEN "NORMAL" ELSE "STALEMATE"
  OBVIOUS
<1> PICK a : a = GameOver(endType, winner)  OBVIOUS
<1> PICK msgs : msgs = <<a>>  OBVIOUS
<1>2. /\ srv' = [srv EXCEPT !.over = TRUE, !.winner = winner] /\ Broadcast(msgs)
      /\ UNCHANGED <<time, status, grace, conn, saw, page>>
  BY DEF GameEnds
<1>3. winner \in Winners  BY DEF InPlay, Winners
<1>4. srv' \in Games /\ srv'.over /\ srv'.deadline = srv.deadline
  BY <1>1, <1>2, <1>3 DEF TypeInv, Games
<1>5. a \in Messages /\ a.type = "GAME_OVER"  BY <1>3, GameOverIsAMessage
<1>6. /\ msgs \in Seq(Messages) /\ Len(msgs) = 1 /\ msgs[1] = a
      /\ \A k \in 1 .. Len(msgs) : k = 1
  BY <1>5, OneMessage
<1>7. /\ status' \in [Seats -> Statuses] /\ grace' \in [Humans -> Int]
      /\ srv.over => srv'.over /\ UNCHANGED <<time, conn, page>>
  BY <1>1, <1>2, <1>4 DEF TypeInv
<1>8. GameGoesOn'  BY <1>1, <1>2, <1>4 DEF GameGoesOn
<1>9. /\ \A k \in 1 .. Len(msgs) : SaysTheEnd(msgs[k]) => srv'.over
      /\ \A k \in 1 .. Len(msgs) : msgs[k].type # "GAME_STATE"
  BY <1>4, <1>5, <1>6
<1>10. /\ \A s \in Humans : status'[s] # "ACTIVE" =>
              status[s] # "ACTIVE" \/ \E k \in 1 .. Len(msgs) : SaysAbsent(msgs[k], s)
       /\ \A s \in Humans \ {Viewer} : (~srv'.over /\ s \in saw' /\ status'[s] = "DISCONNECTED") =>
              s \in saw /\ status[s] = "DISCONNECTED" /\ grace'[s] = grace[s]
  BY <1>2
<1>11. ~Timed'  BY <1>4 DEF Timed
<1> QED  BY <1>2, <1>4, <1>6, <1>7, <1>8, <1>9, <1>10, <1>11, ServerSays

\* Whoever forfeits is no more in play; the last one left wins.
LEMMA ForfeitKeeps ==
    ASSUME PageInv, NEW s \in Seats, ~srv.over, Forfeit(s), UNCHANGED <<time, conn, saw, page>>,
           grace' \in [Humans -> Int], \A u \in Humans \ {s} : grace'[u] = grace[u]
    PROVE  PageInv'
<1>1. TypeInv /\ GameGoesOn  BY DEF PageInv
<1> PICK st : st = [status EXCEPT ![s] = "FORFEITED"]  OBVIOUS
<1> PICK c : c = Cardinality(InPlay(st))  OBVIOUS
<1> PICK a : a = [type |-> "PLAYER_FORFEITED", seat |-> s, active |-> c]  OBVIOUS
<1>2. /\ status' = st
      /\ IF c <= 1
         THEN LET winner == IF InPlay(st) = {} THEN Nobody ELSE CHOOSE w \in InPlay(st) : TRUE
              IN  /\ srv' = [srv EXCEPT !.over = TRUE, !.winner = winner]
                  /\ Broadcast(<<a, GameOver("FORFEIT", winner)>>)
         ELSE /\ srv' = IF srv.current = s THEN Starts(AfterTurnOf(s, st))
                        ELSE [srv EXCEPT !.deadline = time + TurnTicks]
              /\ Broadcast(<<a, TurnStart(srv'.current)>>)
  BY DEF Forfeit
<1>3. /\ st \in [Seats -> Statuses] /\ st[s] = "FORFEITED"
      /\ \A u \in Seats \ {s} : st[u] = status[u]
  BY <1>1 DEF TypeInv, Statuses
<1>4. InPlay(st) \subseteq Seats  BY DEF InPlay
<1>5. c \in Nat /\ (c > 1 => InPlay(st) # {})
  <2>1. IsFiniteSet(InPlay(st))  BY <1>4, SeatsFacts, FS_Subset
  <2>2. c \in Nat  BY <2>1, FS_CardinalityType
  <2>3. CASE InPlay(st) = {}
    <3>1. c = 0  BY <2>3, FS_EmptySet
    <3> QED  BY <2>2, <3>1
  <2>4. CASE InPlay(st) # {}  BY <2>2, <2>4
  <2> QED  BY <2>3, <2>4
<1>6. a \in Messages /\ a.type = "PLAYER_FORFEITED" /\ a.seat = s /\ a.active = c
  BY <1>5 DEF Messages
<1>7. ASSUME NEW b \in Messages, NEW over \in BOOLEAN, Broadcast(<<a, b>>), srv' \in Games,
             srv'.over = over, c <= 1 => over, ~over => InPlay(st) # {},
             srv'.deadline <= time + TurnTicks,
             \/ b.type = "GAME_OVER" /\ over
             \/ b.type = "TURN_START" /\ b.seat = srv'.current
      PROVE  PageInv'
  <2> PICK msgs : msgs = <<a, b>>  OBVIOUS
  <2>1. /\ msgs \in Seq(Messages) /\ Len(msgs) = 2 /\ msgs[1] = a /\ msgs[2] = b
        /\ \A k \in 1 .. Len(msgs) : k = 1 \/ k = 2
    BY <1>6, <1>7, TwoMessages
  <2>2. Broadcast(msgs) /\ UNCHANGED <<time, conn, page>> /\ srv' \in Games  BY <1>7
  <2>3. /\ status' \in [Seats -> Statuses] /\ grace' \in [Humans -> Int]
        /\ srv.over => srv'.over
    BY <1>2, <1>3
  <2>4. GameGoesOn'
    BY <1>1, <1>2, <1>3, <1>7, SeatsFacts DEF GameGoesOn, InPlay
  <2>5. /\ \A k \in 1 .. Len(msgs) : SaysTheEnd(msgs[k]) => srv'.over
        /\ \A k \in 1 .. Len(msgs) : msgs[k].type # "GAME_STATE"
    BY <1>6, <1>7, <2>1 DEF SaysTheEnd, LastOne
  <2>6. \A u \in Humans : status'[u] # "ACTIVE" =>
            status[u] # "ACTIVE" \/ \E k \in 1 .. Len(msgs) : SaysAbsent(msgs[k], u)
    <3>1. SaysAbsent(msgs[1], s) /\ 1 \in 1 .. Len(msgs)  BY <1>6, <2>1 DEF SaysAbsent
    <3>2. Humans \subseteq Seats  BY SeatsFacts
    <3> QED  BY <1>2, <1>3, <3>1, <3>2
  <2>7. \A u \in Humans \ {Viewer} : (~srv'.over /\ u \in saw' /\ status'[u] = "DISCONNECTED") =>
            u \in saw /\ status[u] = "DISCONNECTED" /\ grace'[u] = grace[u]
    BY <1>2, <1>3, SeatsFacts
  <2>8. Timed' =>
            \/ Timed /\ srv'.deadline = srv.deadline
                     /\ \A k \in 1 .. Len(msgs) : Harmless(msgs[k])
            \/ \E k \in 1 .. Len(msgs) :
                  StartsClock(msgs[k]) /\ \A l \in k + 1 .. Len(msgs) : Harmless(msgs[l])
    BY <1>7, <2>1 DEF Timed, StartsClock
  <2> QED  BY <2>1, <2>2, <2>3, <2>4, <2>5, <2>6, <2>7, <2>8, ServerSays
<1>8. CASE c <= 1
  <2> PICK winner : winner = IF InPlay(st) = {} THEN Nobody ELSE CHOOSE w \in InPlay(st) : TRUE
    OBVIOUS
  <2>1. winner \in Winners  BY <1>4 DEF Winners
  <2>2. srv' = [srv EXCEPT !.over = TRUE, !.winner = winner]
        /\ Broadcast(<<a, GameOver("FORFEIT", winner)>>)
    BY <1>2, <1>8
  <2>3. srv' \in Games /\ srv'.over = TRUE /\ srv'.deadline <= time + TurnTicks
    BY <1>1, <2>1, <2>2 DEF TypeInv, Games, GameGoesOn
  <2>4. GameOver("FORFEIT", winner) \in Messages /\ GameOver("FORFEIT", winner).type = "GAME_OVER"
    BY <2>1, GameOverIsAMessage
  <2> PICK b : b = GameOver("FORFEIT", winner)  OBVIOUS
  <2>5. b \in Messages /\ b.type = "GAME_OVER" /\ Broadcast(<<a, b>>)  BY <2>2, <2>4
  <2> PICK over \in BOOLEAN : over = TRUE  OBVIOUS
  <2>6. srv'.over = over /\ (c <= 1 => over) /\ (~over => InPlay(st) # {})  BY <2>3
  <2>7. \/ b.type = "GAME_OVER" /\ over
        \/ b.type = "TURN_START" /\ b.seat = srv'.current
    BY <2>5
  <2> QED  BY <1>7, <2>3, <2>5, <2>6, <2>7
<1>9. CASE ~(c <= 1)
  <2>1. InPlay(st) # {}
    <3>1. c > 1  BY <1>5, <1>9
    <3> QED  BY <1>5, <3>1
  <2>2. Broadcast(<<a, TurnStart(srv'.current)>>)  BY <1>2, <1>9
  <2>3. srv' \in Games /\ srv'.over = FALSE /\ srv'.deadline <= time + TurnTicks
    <3>1. CASE srv.current = s
      <4>1. AfterTurnOf(s, st) \in Seats  BY <1>3, <1>4, <2>1, TurnGoesToAPlayer
      <4>2. srv' = Starts(AfterTurnOf(s, st))  BY <1>2, <1>9, <3>1
      <4>3. srv' \in Games /\ srv'.over = srv.over /\ srv'.deadline = time + TurnTicks
        BY <1>1, <4>1, <4>2, StartedTurn
      <4> QED  BY <1>1, <4>3, TicksAssumption DEF TypeInv, Games
    <3>2. CASE srv.current # s
      <4>1. srv' = [srv EXCEPT !.deadline = time + TurnTicks]  BY <1>2, <1>9, <3>2
      <4>2. time + TurnTicks \in Nat /\ srv \in Games  BY <1>1, TicksAssumption DEF TypeInv
      <4> QED  BY <4>1, <4>2 DEF Games
    <3> QED  BY <3>1, <3>2
  <2>4. srv'.current \in Seats  BY <2>3 DEF Games
  <2>5. /\ TurnStart(srv'.current) \in Messages /\ TurnStart(srv'.current).type = "TURN_START"
        /\ TurnStart(srv'.current).seat = srv'.current
    BY <2>4, TurnStartIsAMessage
  <2> QED  BY <1>7, <1>9, <2>1, <2>2, <2>3, <2>5
<1> QED  BY <1>8, <1>9

LEMMA PlayersForfeit ==
    ASSUME PageInv, LLMExcluded \/ \E s \in Humans : Leaves(s) \/ GraceRunsOut(s)
    PROVE  PageInv'
<1>1. grace \in [Humans -> Int] /\ Never \in Int
  BY TicksAssumption DEF PageInv, TypeInv, Never
<1>2. CASE LLMExcluded
  <2> PICK s \in LLMs : Forfeit(s)  BY <1>2 DEF LLMExcluded
  <2>1. /\ s \in Seats /\ ~srv.over /\ UNCHANGED <<time, conn, saw, page>> /\ grace' = grace
    BY <1>2, SeatsFacts DEF LLMExcluded, Quiet
  <2> QED  BY <1>1, <2>1, ForfeitKeeps
<1>3. ASSUME NEW s \in Humans, Leaves(s)  PROVE PageInv'
  <2>1. /\ s \in Seats /\ ~srv.over /\ Forfeit(s) /\ UNCHANGED <<time, conn, saw, page>>
        /\ grace' = grace
    BY <1>3, SeatsFacts DEF Leaves, Quiet
  <2> QED  BY <1>1, <2>1, ForfeitKeeps
<1>4. ASSUME NEW s \in Humans, GraceRunsOut(s)  PROVE PageInv'
  <2>1. /\ s \in Seats /\ ~srv.over /\ Forfeit(s) /\ UNCHANGED <<time, conn, saw, page>>
        /\ grace' = [grace EXCEPT ![s] = Never]
    BY <1>4, SeatsFacts DEF GraceRunsOut, Quiet
  <2>2. grace' \in [Humans -> Int] /\ \A u \in Humans \ {s} : grace'[u] = grace[u]
    BY <1>1, <2>1
  <2> QED  BY <2>1, <2>2, ForfeitKeeps
<1> QED  BY <1>2, <1>3, <1>4

LEMMA ThinkKeeps ==
    ASSUME PageInv, Think
    PROVE  PageInv'
<1>1. TypeInv /\ GameGoesOn  BY DEF PageInv
<1> PICK a : a = [type |-> "AI_THINKING", seat |-> srv.current]  OBVIOUS
<1> PICK msgs : msgs = <<a>>  OBVIOUS
<1>2. /\ srv.current \in LLMs /\ Broadcast(msgs)
      /\ UNCHANGED <<time, srv, status, grace, conn, saw, page>>
  BY DEF Think
<1>3. a \in Messages /\ a.type = "AI_THINKING"  BY <1>2, SeatsFacts DEF Messages
<1>4. /\ msgs \in Seq(Messages) /\ Len(msgs) = 1 /\ msgs[1] = a
      /\ \A k \in 1 .. Len(msgs) : k = 1
  BY <1>3, OneMessage
<1>5. /\ srv' \in Games /\ status' \in [Seats -> Statuses] /\ grace' \in [Humans -> Int]
      /\ GameGoesOn' /\ UNCHANGED <<time, conn, page>> /\ (srv.over => srv'.over)
  BY <1>1, <1>2 DEF TypeInv, GameGoesOn, InPlay
<1>6. /\ \A k \in 1 .. Len(msgs) : SaysTheEnd(msgs[k]) => srv'.over
      /\ \A k \in 1 .. Len(msgs) : msgs[k].type # "GAME_STATE"
  BY <1>3, <1>4 DEF SaysTheEnd
<1>7. /\ \A s \in Humans : status'[s] # "ACTIVE" =>
             status[s] # "ACTIVE" \/ \E k \in 1 .. Len(msgs) : SaysAbsent(msgs[k], s)
      /\ \A s \in Humans \ {Viewer} : (~srv'.over /\ s \in saw' /\ status'[s] = "DISCONNECTED") =>
             s \in saw /\ status[s] = "DISCONNECTED" /\ grace'[s] = grace[s]
  BY <1>2
<1>8. ~Timed'  BY <1>2, SeatsAssumption DEF Timed
<1> QED  BY <1>2, <1>4, <1>5, <1>6, <1>7, <1>8, ServerSays

\* Somebody comes or goes and the others are told.
LEMMA StatusKeeps ==
    ASSUME PageInv, NEW s \in Humans \ {Viewer}, NEW st \in {"ACTIVE", "DISCONNECTED"},
           NEW a \in Messages, a.type \in {"PLAYER_DISCONNECTED", "PLAYER_JOIN"}, a.seat = s,
           NEW g \in Int, Broadcast(<<a>>),
           status' = [status EXCEPT ![s] = st], grace' = [grace EXCEPT ![s] = g],
           UNCHANGED <<time, srv, conn, page>>, saw' \subseteq saw,
           st = "DISCONNECTED" =>
               a.type = "PLAYER_DISCONNECTED" /\ s \notin saw' /\ g = time + GraceTicks
    PROVE  PageInv'
<1>1. TypeInv /\ GameGoesOn /\ s \in Seats  BY SeatsFacts DEF PageInv
<1> PICK msgs : msgs = <<a>>  OBVIOUS
<1>2. /\ msgs \in Seq(Messages) /\ Len(msgs) = 1 /\ msgs[1] = a /\ Broadcast(msgs)
      /\ \A k \in 1 .. Len(msgs) : k = 1
  BY OneMessage
<1>3. /\ srv' \in Games /\ status' \in [Seats -> Statuses] /\ grace' \in [Humans -> Int]
      /\ status'[s] = st /\ grace'[s] = g
      /\ \A u \in Seats \ {s} : status'[u] = status[u]
      /\ \A u \in Humans \ {s} : grace'[u] = grace[u]
  BY <1>1 DEF TypeInv, Statuses
<1>4. GameGoesOn'
  <2>1. s \in InPlay(status)'  BY <1>1, <1>3 DEF InPlay
  <2>2. srv'.deadline <= time' + TurnTicks  BY <1>1 DEF GameGoesOn
  <2>3. ASSUME NEW u \in Humans, ~srv'.over, status'[u] = "DISCONNECTED"
        PROVE  grace'[u] <= time' + GraceTicks
    <3>1. CASE u = s
      <4>1. grace'[u] = time + GraceTicks  BY <1>3, <2>3, <3>1
      <4> QED  BY <1>1, <4>1, TicksAssumption DEF TypeInv
    <3>2. CASE u # s
      <4>1. u \in Seats \ {s}  BY <3>2, SeatsFacts
      <4>2. status[u] = "DISCONNECTED" /\ grace'[u] = grace[u]  BY <1>3, <2>3, <3>2, <4>1
      <4> QED  BY <1>1, <2>3, <4>2 DEF GameGoesOn
    <3> QED  BY <3>1, <3>2
  <2> QED  BY <2>1, <2>2, <2>3 DEF GameGoesOn
<1>5. /\ \A k \in 1 .. Len(msgs) : SaysTheEnd(msgs[k]) => srv'.over
      /\ \A k \in 1 .. Len(msgs) : msgs[k].type # "GAME_STATE"
      /\ \A k \in 1 .. Len(msgs) : Harmless(msgs[k])
  BY <1>2 DEF SaysTheEnd, Harmless
<1>6. \A u \in Humans : status'[u] # "ACTIVE" =>
          status[u] # "ACTIVE" \/ \E k \in 1 .. Len(msgs) : SaysAbsent(msgs[k], u)
  <2> TAKE u \in Humans
  <2>1. CASE u = s
    <3>1. status'[u] # "ACTIVE" => SaysAbsent(msgs[1], u)  BY <1>2, <1>3, <2>1 DEF SaysAbsent
    <3>2. 1 \in 1 .. Len(msgs)  BY <1>2
    <3> QED  BY <3>1, <3>2
  <2>2. CASE u # s  BY <1>3, <2>2, SeatsFacts
  <2> QED  BY <2>1, <2>2
<1>7. \A u \in Humans \ {Viewer} : (~srv'.over /\ u \in saw' /\ status'[u] = "DISCONNECTED") =>
          u \in saw /\ status[u] = "DISCONNECTED" /\ grace'[u] = grace[u]
  <2> TAKE u \in Humans \ {Viewer}
  <2>1. u # s => u \in Seats \ {s} /\ u \in Humans \ {s}  BY SeatsFacts
  <2> QED  BY <1>3, <2>1
<1>8. Timed' => Timed /\ srv'.deadline = srv.deadline  BY DEF Timed, Left
<1>9. srv.over => srv'.over  OBVIOUS
<1> QED  BY <1>2, <1>3, <1>4, <1>5, <1>6, <1>7, <1>8, <1>9, ServerSays

LEMMA ComeAndGo ==
    ASSUME PageInv, NEW s \in Humans \ {Viewer}, Disconnects(s) \/ Returns(s)
    PROVE  PageInv'
<1>1. TypeInv /\ s \in Seats  BY SeatsFacts DEF PageInv
<1>2. CASE Disconnects(s)
  <2> PICK a : a = [type |-> "PLAYER_DISCONNECTED", seat |-> s]  OBVIOUS
  <2> PICK g : g = time + GraceTicks  OBVIOUS
  <2>1. a \in Messages  BY <1>1 DEF Messages
  <2>2. g \in Int  BY <1>1, TicksAssumption DEF TypeInv
  <2>3. /\ status' = [status EXCEPT ![s] = "DISCONNECTED"] /\ grace' = [grace EXCEPT ![s] = g]
        /\ Broadcast(<<a>>) /\ saw' = saw \ {s} /\ UNCHANGED <<time, srv, conn, page>>
    BY <1>2 DEF Disconnects, Goes
  <2> QED  BY <2>1, <2>2, <2>3, StatusKeeps
<1>3. CASE Returns(s)
  <2> PICK a : a = [type |-> "PLAYER_JOIN", seat |-> s]  OBVIOUS
  <2>1. a \in Messages  BY <1>1 DEF Messages
  <2>2. Never \in Int  BY TicksAssumption DEF Never
  <2>3. /\ status' = [status EXCEPT ![s] = "ACTIVE"] /\ grace' = [grace EXCEPT ![s] = Never]
        /\ Broadcast(<<a>>) /\ saw' = saw /\ UNCHANGED <<time, srv, conn, page>>
    BY <1>3 DEF Returns
  <2> QED  BY <2>1, <2>2, <2>3, StatusKeeps
<1> QED  BY <1>2, <1>3

-----------------------------------------------------------------------------
(* The viewer's connection, the messages it brings, and time. *)

LEMMA ViewerGoes ==
    ASSUME PageInv, Disconnects(Viewer)
    PROVE  PageInv'
<1>1. TypeInv /\ Viewer \in Humans /\ Viewer \in Seats
  BY SeatsFacts, SeatsAssumption DEF PageInv
<1>2. /\ status' = [status EXCEPT ![Viewer] = "DISCONNECTED"]
      /\ grace' = [grace EXCEPT ![Viewer] = time + GraceTicks]
      /\ conn' = "none" /\ inbox' = <<>> /\ missed' = FALSE
      /\ UNCHANGED <<time, srv, saw, page>>
  BY DEF Disconnects, Goes
<1>3. time + GraceTicks \in Int  BY <1>1, TicksAssumption DEF TypeInv
<1>4. /\ status' \in [Seats -> Statuses] /\ grace' \in [Humans -> Int]
      /\ status'[Viewer] = "DISCONNECTED" /\ grace'[Viewer] = time + GraceTicks
      /\ \A u \in Seats \ {Viewer} : status'[u] = status[u]
      /\ \A u \in Humans \ {Viewer} : grace'[u] = grace[u]
  BY <1>1, <1>2, <1>3 DEF TypeInv, Statuses
<1>5. TypeInv'
  <2>1. <<>> \in Seq(Messages)  OBVIOUS
  <2> QED  BY <1>1, <1>2, <1>4, <2>1 DEF TypeInv
<1>6. GameGoesOn'
  <2>1. Viewer \in InPlay(status)'  BY <1>1, <1>4 DEF InPlay
  <2>2. ASSUME NEW u \in Humans, ~srv'.over, status'[u] = "DISCONNECTED"
        PROVE  grace'[u] <= time' + GraceTicks
    <3>1. CASE u = Viewer  BY <1>2, <1>3, <1>4, <3>1
    <3>2. CASE u # Viewer
      <4>1. u \in Seats \ {Viewer}  BY <3>2, SeatsFacts
      <4>2. status[u] = "DISCONNECTED" /\ grace'[u] = grace[u]  BY <1>4, <2>2, <3>2, <4>1
      <4> QED  BY <1>2, <2>2, <4>2 DEF PageInv, GameGoesOn
    <3> QED  BY <3>1, <3>2
  <2> QED  BY <1>2, <2>1, <2>2 DEF PageInv, GameGoesOn
<1>7. EndsAreReal'  BY <1>2 DEF PageInv, EndsAreReal
<1>8. CountdownsAreLong'
  <2>1. \A u \in Humans \ {Viewer} : u \in Seats \ {Viewer}  BY SeatsFacts
  <2> QED  BY <1>2, <1>4, <2>1 DEF PageInv, CountdownsAreLong, Left
<1>9. AbsentAreTold' /\ ClockRuns'  BY <1>2 DEF AbsentAreTold, ClockRuns
<1> QED  BY <1>5, <1>6, <1>7, <1>8, <1>9 DEF PageInv

LEMMA ServeKeeps ==
    ASSUME PageInv, Serve
    PROVE  PageInv'
<1>1. TypeInv  BY DEF PageInv
<1> PICK a : a = [type |-> "GAME_STATE", seat |-> srv.current, until |-> srv.until,
                  connected |-> [s \in Seats |-> status[s] = "ACTIVE"]]
  OBVIOUS
<1> PICK b : b = TurnStart(srv.current)  OBVIOUS
<1>2. /\ conn' = "served" /\ missed' = FALSE
      /\ inbox' = <<a>> \o (IF Left(srv.until) > 0 THEN <<b>> ELSE <<>>)
      /\ UNCHANGED <<time, srv, status, grace, saw, page>>
  BY DEF Serve
<1>3. /\ a \in Messages /\ a.type = "GAME_STATE"
      /\ \A s \in Seats : a.connected[s] = (status[s] = "ACTIVE")
  BY <1>1 DEF TypeInv, Games, Messages
<1>4. b \in Messages /\ b.type = "TURN_START" /\ b.seat = srv.current
  BY <1>1, TurnStartIsAMessage DEF TypeInv, Games
<1>5. /\ inbox' \in Seq(Messages) /\ inbox'[1] = a /\ Len(inbox') \in {1, 2}
      /\ Len(inbox') = 2 => inbox'[2] = b
      /\ Left(srv.until) > 0 => Len(inbox') = 2
  <2>1. CASE Left(srv.until) > 0
    <3>1. inbox' = <<a>> \o <<b>>  BY <1>2, <2>1
    <3>2. <<a>> \in Seq(Messages) /\ <<b>> \in Seq(Messages)  BY <1>3, <1>4
    <3>3. /\ Len(<<a>>) = 1 /\ Len(<<b>>) = 1 /\ <<a>>[1] = a /\ <<b>>[1] = b
      OBVIOUS
    <3>4. /\ inbox' \in Seq(Messages) /\ Len(inbox') = 2
          /\ \A i \in 1 .. 2 : inbox'[i] = IF i <= 1 THEN <<a>>[i] ELSE <<b>>[i - 1]
      BY <3>1, <3>2, <3>3, ConcatProperties
    <3>5. inbox'[1] = a /\ inbox'[2] = b  BY <3>3, <3>4
    <3> QED  BY <3>4, <3>5
  <2>2. CASE ~(Left(srv.until) > 0)
    <3>1. inbox' = <<a>>  BY <1>2, <2>2
    <3> QED  BY <1>3, <2>2, <3>1, OneMessage
  <2> QED  BY <2>1, <2>2
<1>6. \A i \in 1 .. Len(inbox') : i = 1 \/ (i = 2 /\ Len(inbox') = 2)
  <2>1. CASE Len(inbox') = 1  BY <2>1
  <2>2. CASE Len(inbox') = 2  BY <2>2
  <2> QED  BY <1>5, <2>1, <2>2
<1>7. TypeInv'  BY <1>1, <1>2, <1>5 DEF TypeInv
<1>8. GameGoesOn'  BY <1>2 DEF PageInv, GameGoesOn
<1>9. EndsAreReal'
  BY <1>2, <1>3, <1>4, <1>5, <1>6 DEF PageInv, EndsAreReal, SaysTheEnd
<1>10. AbsentAreTold'
  <2> SUFFICES ASSUME NEW s \in Humans, status'[s] # "ACTIVE"
               PROVE  \E i \in 0 .. Len(inbox') : AbsentAt(i, s)'
    BY DEF AbsentAreTold
  <2>1. SaysAbsent(inbox'[1], s)  BY <1>2, <1>3, <1>5, SeatsFacts DEF SaysAbsent
  <2>2. \A j \in 1 + 1 .. Len(inbox') : ~SaysPresent(inbox'[j], s)
    BY <1>4, <1>5, <1>6 DEF SaysPresent
  <2>3. AbsentAt(1, s)'  BY <2>1, <2>2 DEF AbsentAt, SaysAbsent, SaysPresent
  <2>4. 1 \in 0 .. Len(inbox')  BY <1>5
  <2> QED  BY <2>3, <2>4
<1>11. CountdownsAreLong'  BY <1>2 DEF PageInv, CountdownsAreLong, Left
<1>12. ClockRuns'
  <2> SUFFICES ASSUME Timed'  PROVE \E i \in 0 .. Len(inbox') : RunsFrom(i)'
    BY DEF ClockRuns
  <2>1. Left(srv.until) > 0 /\ srv.current \in Humans  BY <1>2 DEF Timed, Left
  <2>2. StartsClock(inbox'[2]) /\ Len(inbox') = 2  BY <1>4, <1>5, <2>1 DEF StartsClock
  <2>3. RunsFrom(2)'  BY <2>2 DEF RunsFrom, StartsClock
  <2>4. 2 \in 0 .. Len(inbox')  BY <2>2
  <2> QED  BY <2>3, <2>4
<1> QED  BY <1>7, <1>8, <1>9, <1>10, <1>11, <1>12 DEF PageInv

LEMMA RegisterKeeps ==
    ASSUME PageInv, Register
    PROVE  PageInv'
<1>1. TypeInv /\ Viewer \in Humans /\ Viewer \in Seats
  BY SeatsFacts, SeatsAssumption DEF PageInv
<1>2. /\ conn = "served" /\ conn' = "registered"
      /\ grace' = [grace EXCEPT ![Viewer] = Never]
      /\ status' = IF srv.over THEN status ELSE [status EXCEPT ![Viewer] = "ACTIVE"]
      /\ UNCHANGED <<time, srv, missed, saw, inbox, page>>
  BY DEF Register
<1>3. Never \in Int  BY TicksAssumption DEF Never
<1>4. /\ status' \in [Seats -> Statuses] /\ grace' \in [Humans -> Int]
      /\ ~srv.over => status'[Viewer] = "ACTIVE"
      /\ \A u \in Seats \ {Viewer} : status'[u] = status[u]
      /\ \A u \in Seats : status'[u] # "ACTIVE" => status[u] # "ACTIVE"
      /\ \A u \in Humans \ {Viewer} : grace'[u] = grace[u]
  BY <1>1, <1>2, <1>3 DEF TypeInv, Statuses
<1>5. TypeInv'  BY <1>1, <1>2, <1>4 DEF TypeInv
<1>6. \A u \in Humans : u \in Seats /\ (u # Viewer => u \in Seats \ {Viewer})  BY SeatsFacts
<1>7. GameGoesOn'
  <2>1. ~srv.over => Viewer \in InPlay(status)'  BY <1>1, <1>4 DEF InPlay
  <2> QED  BY <1>2, <1>4, <1>6, <2>1 DEF PageInv, GameGoesOn
<1>8. EndsAreReal'  BY <1>2 DEF PageInv, EndsAreReal
<1>9. CountdownsAreLong'  BY <1>2, <1>4, <1>6 DEF PageInv, CountdownsAreLong, Left
<1>10. AbsentAreTold'
  BY <1>2, <1>4, <1>6 DEF PageInv, AbsentAreTold, AbsentAt, SaysAbsent, SaysPresent
<1>11. ClockRuns'
  <2>1. Timed' => Timed  BY <1>2 DEF Timed, Left
  <2>2. \A i \in 0 .. Len(inbox) : RunsFrom(i) => RunsFrom(i)'
    BY <1>2 DEF RunsFrom, Runs, EffectiveAI, Left, StartsClock, Harmless
  <2> QED  BY <1>2, <2>1, <2>2 DEF PageInv, ClockRuns
<1> QED  BY <1>5, <1>7, <1>8, <1>9, <1>10, <1>11 DEF PageInv

LEMMA Kinds ==
    ASSUME NEW m \in Messages
    PROVE  /\ m.type \in {"GAME_STATE", "TURN_START", "TURN_END", "AI_THINKING", "GAME_OVER",
                          "PLAYER_DISCONNECTED", "PLAYER_FORFEITED", "PLAYER_JOIN"}
           /\ m.type = "TURN_END" => m.next \in Seats
           /\ m.type \in {"TURN_START", "AI_THINKING", "PLAYER_DISCONNECTED", "PLAYER_JOIN",
                           "PLAYER_FORFEITED", "GAME_STATE"} => m.seat \in Seats
           /\ m.type = "GAME_STATE" => m.until \in Nat /\ m.connected \in [Seats -> BOOLEAN]
BY DEF Messages

LEMMA LeftIsNat ==
    ASSUME NEW t \in Int, time \in Nat
    PROVE  Left(t) \in Nat
BY DEF Left

\* What reading a message does to the page.
LEMMA PageRead ==
    ASSUME PageInv, NEW m \in Messages, inbox # <<>>, m = Head(inbox), Deliver
    PROVE  /\ page' \in PageStates
           /\ \A s \in Seats :
                 (SaysAbsent(m, s) \/ (page.players[s] # "CONNECTED" /\ ~SaysPresent(m, s)))
                     => page'.players[s] # "CONNECTED"
           /\ (page'.ended \/ page'.result # <<>>) =>
                 SaysTheEnd(m) \/ page.ended \/ page.result # <<>>
           /\ (Timed /\ (StartsClock(m) \/ (Runs /\ Harmless(m)))) =>
                 ~EffectiveAI(page)' /\ page'.remaining >= Left(srv.deadline)
           /\ saw' = IF m.type = "PLAYER_DISCONNECTED" THEN saw \cup {m.seat} ELSE saw
           /\ \A s \in Seats :
                 page'.countdown[s] =
                     IF m.type = "PLAYER_DISCONNECTED" /\ m.seat = s THEN GraceTicks
                     ELSE IF m.type = "PLAYER_FORFEITED" /\ m.seat = s THEN NoCountdown
                     ELSE page.countdown[s]
<1>1. /\ TypeInv /\ page \in PageStates /\ time \in Nat /\ srv \in Games
      /\ srv.deadline <= time + TurnTicks
  BY DEF PageInv, TypeInv, GameGoesOn
<1>2. TurnTicks \in Nat /\ GraceTicks \in Nat  BY TicksAssumption
<1>3. saw' = IF m.type = "PLAYER_DISCONNECTED" THEN saw \cup {m.seat} ELSE saw
  BY DEF Deliver
<1>4. Left(srv.deadline) <= TurnTicks  BY <1>1, <1>2 DEF Left, Games
<1>5. CASE m.type = "GAME_STATE"
  <2> PICK f : f = [s \in Seats |-> IF m.connected[s] THEN "CONNECTED" ELSE "DISCONNECTED"]
    OBVIOUS
  <2>1. page' = [page EXCEPT !.current = m.seat, !.players = f, !.remaining = Left(m.until)]
    BY <1>1, <1>5 DEF Deliver, OnGameState, Clock, PageStates
  <2>2. f \in [Seats -> Shown] /\ m.seat \in Winners /\ Left(m.until) \in Nat
    <3>1. m.seat \in Seats /\ m.until \in Nat  BY <1>5, Kinds
    <3>2. f \in [Seats -> Shown]  BY DEF Shown
    <3>3. Left(m.until) \in Nat  BY <1>1, <3>1, LeftIsNat
    <3> QED  BY <3>1, <3>2, <3>3 DEF Winners
  <2>3. page' \in PageStates  BY <1>1, <2>1, <2>2 DEF PageStates
  <2>4. /\ page'.players = f /\ page'.ended = page.ended /\ page'.result = page.result
        /\ page'.countdown = page.countdown
    BY <1>1, <2>1 DEF PageStates
  <2>5. \A s \in Seats : f[s] = IF m.connected[s] THEN "CONNECTED" ELSE "DISCONNECTED"
    OBVIOUS
  <2> QED  BY <1>3, <1>5, <2>3, <2>4, <2>5 DEF SaysAbsent, SaysPresent, StartsClock, Harmless
<1>6. CASE m.type = "TURN_START"
  <2>1. page' = [page EXCEPT !.thinking = Nobody, !.isAITurn = (m.seat \in LLMs),
                             !.current = m.seat, !.remaining = TurnTicks]
    BY <1>1, <1>6 DEF Deliver, OnTurnStart, Clock, PageStates
  <2>2. page' \in PageStates
    <3>1. m.seat \in Winners /\ (m.seat \in LLMs) \in BOOLEAN /\ Nobody \in Winners
      BY <1>6, Kinds DEF Winners
    <3> QED  BY <1>1, <1>2, <2>1, <3>1 DEF PageStates
  <2>3. /\ page'.players = page.players /\ page'.ended = page.ended
        /\ page'.result = page.result /\ page'.countdown = page.countdown
        /\ page'.thinking = Nobody /\ page'.isAITurn = (m.seat \in LLMs)
        /\ page'.remaining = TurnTicks
    BY <1>1, <2>1 DEF PageStates
  <2>4. m.seat \in Humans => ~EffectiveAI(page)'  BY <2>3, SeatsAssumption DEF EffectiveAI
  <2>5. page'.remaining >= Left(srv.deadline)  BY <1>1, <1>2, <1>4, <2>3, LeftIsNat DEF Games
  <2> QED  BY <1>3, <1>6, <2>2, <2>3, <2>4, <2>5 DEF SaysAbsent, SaysPresent, StartsClock, Harmless
<1>7. CASE m.type = "TURN_END"
  <2>1. page' = [page EXCEPT !.current = m.next, !.thinking = Nobody, !.isAITurn = FALSE]
    BY <1>7 DEF Deliver, OnTurnEnd
  <2>2. page' \in PageStates  BY <1>1, <1>7, <2>1, Kinds DEF PageStates, Winners
  <2>3. /\ page'.players = page.players /\ page'.ended = page.ended
        /\ page'.result = page.result /\ page'.countdown = page.countdown
        /\ page'.thinking = Nobody /\ page'.isAITurn = FALSE /\ page'.remaining = page.remaining
    BY <1>1, <2>1 DEF PageStates
  <2> QED  BY <1>3, <1>7, <2>2, <2>3 DEF SaysAbsent, SaysPresent, StartsClock, Harmless, Runs,
                                         EffectiveAI
<1>8. CASE m.type = "AI_THINKING"
  <2>1. page' = [page EXCEPT !.thinking = m.seat, !.isAITurn = TRUE]
    BY <1>8 DEF Deliver, OnAIThinking
  <2>2. page' \in PageStates  BY <1>1, <1>8, <2>1, Kinds DEF PageStates, Winners
  <2>3. /\ page'.players = page.players /\ page'.ended = page.ended
        /\ page'.result = page.result /\ page'.countdown = page.countdown
    BY <1>1, <2>1 DEF PageStates
  <2> QED  BY <1>3, <1>8, <2>2, <2>3 DEF SaysAbsent, SaysPresent, StartsClock, Harmless
<1>9. CASE m.type = "PLAYER_DISCONNECTED"
  <2> PICK c : c = [page.countdown EXCEPT ![m.seat] = GraceTicks]  OBVIOUS
  <2> PICK f : f = [page.players EXCEPT ![m.seat] = "DISCONNECTED"]  OBVIOUS
  <2>1. page' = [page EXCEPT !.countdown = c, !.players = f]
    BY <1>1, <1>9 DEF Deliver, OnPlayerDisconnected, AddDisconnectedPlayer, PageStates
  <2>2. m.seat \in Seats /\ f \in [Seats -> Shown] /\ c \in [Seats -> Int]
    BY <1>1, <1>2, <1>9, Kinds DEF PageStates, Shown
  <2>3. page' \in PageStates  BY <1>1, <2>1, <2>2 DEF PageStates
  <2>4. /\ page'.players = f /\ page'.ended = page.ended
        /\ page'.result = page.result /\ page'.countdown = c
        /\ page'.thinking = page.thinking /\ page'.isAITurn = page.isAITurn
        /\ page'.remaining = page.remaining
    BY <1>1, <2>1 DEF PageStates
  <2>5. \A s \in Seats : /\ f[s] = IF s = m.seat THEN "DISCONNECTED" ELSE page.players[s]
                         /\ c[s] = IF s = m.seat THEN GraceTicks ELSE page.countdown[s]
    BY <1>1 DEF PageStates
  <2> QED  BY <1>3, <1>9, <2>2, <2>3, <2>4, <2>5 DEF SaysAbsent, SaysPresent, StartsClock,
                                                   Harmless, Runs, EffectiveAI
<1>10. CASE m.type = "PLAYER_FORFEITED"
  <2> PICK c : c = [page.countdown EXCEPT ![m.seat] = NoCountdown]  OBVIOUS
  <2> PICK f : f = [page.players EXCEPT ![m.seat] = "FORFEITED"]  OBVIOUS
  <2> PICK r : r = IF LastOne(m.active) THEN "opponent_forfeit" ELSE page.endReason  OBVIOUS
  <2>1. page' = [page EXCEPT !.countdown = c, !.players = f,
                             !.ended = page.ended \/ LastOne(m.active), !.endReason = r]
    BY <1>1, <1>10 DEF Deliver, OnPlayerForfeited, RemoveDisconnectedPlayer, PageStates
  <2>2. /\ m.seat \in Seats /\ f \in [Seats -> Shown] /\ c \in [Seats -> Int]
        /\ r \in {"none", "opponent_forfeit", "game_over"}
        /\ (page.ended \/ LastOne(m.active)) \in BOOLEAN
    BY <1>1, <1>10, Kinds DEF PageStates, Shown, NoCountdown, LastOne
  <2>3. page' \in PageStates  BY <1>1, <2>1, <2>2 DEF PageStates
  <2>4. /\ page'.players = f /\ page'.ended = (page.ended \/ LastOne(m.active))
        /\ page'.result = page.result /\ page'.countdown = c
        /\ page'.thinking = page.thinking /\ page'.isAITurn = page.isAITurn
        /\ page'.remaining = page.remaining
    BY <1>1, <2>1 DEF PageStates
  <2>5. \A s \in Seats : /\ f[s] = IF s = m.seat THEN "FORFEITED" ELSE page.players[s]
                         /\ c[s] = IF s = m.seat THEN NoCountdown ELSE page.countdown[s]
    BY <1>1 DEF PageStates
  <2>6. (page'.ended \/ page'.result # <<>>) =>
            SaysTheEnd(m) \/ page.ended \/ page.result # <<>>
    BY <1>10, <2>4 DEF SaysTheEnd
  <2> QED  BY <1>3, <1>10, <2>2, <2>3, <2>4, <2>5, <2>6 DEF SaysAbsent, SaysPresent, StartsClock,
                                                    Harmless, Runs, EffectiveAI
<1>11. CASE m.type = "PLAYER_JOIN"
  <2>1. page' = page  BY <1>11 DEF Deliver
  <2> QED  BY <1>1, <1>3, <1>11, <2>1 DEF SaysAbsent, SaysPresent, StartsClock, Harmless, Runs,
                                         EffectiveAI
<1>12. CASE m.type = "GAME_OVER"
  <2>1. page' = [page EXCEPT !.result = m, !.ended = TRUE, !.endReason = "game_over"]
    BY <1>12 DEF Deliver, OnGameOver
  <2>2. page' \in PageStates  BY <1>1, <2>1 DEF PageStates
  <2>3. /\ page'.players = page.players /\ page'.countdown = page.countdown
        /\ page'.thinking = page.thinking /\ page'.isAITurn = page.isAITurn
        /\ page'.remaining = page.remaining
    BY <1>1, <2>1 DEF PageStates
  <2> QED  BY <1>3, <1>12, <2>2, <2>3 DEF SaysAbsent, SaysPresent, SaysTheEnd, StartsClock,
                                          Harmless, Runs, EffectiveAI
<1> QED  BY <1>5, <1>6, <1>7, <1>8, <1>9, <1>10, <1>11, <1>12, Kinds

LEMMA DeliverKeeps ==
    ASSUME PageInv, Deliver
    PROVE  PageInv'
<1> PICK n : n = Len(inbox)  OBVIOUS
<1>1. TypeInv /\ inbox \in Seq(Messages) /\ inbox # <<>> /\ inbox' = Tail(inbox)
  BY DEF PageInv, TypeInv, Deliver
<1> PICK m \in Messages : m = Head(inbox) /\ m = inbox[1]  BY <1>1
<1>2. /\ n \in Nat /\ n > 0 /\ inbox' \in Seq(Messages) /\ Len(inbox') = n - 1
      /\ \A i \in 1 .. n - 1 : inbox'[i] = inbox[i + 1]
  BY <1>1, HeadTailProperties
<1>3. UNCHANGED <<time, srv, status, grace, conn, missed>>  BY DEF Deliver
<1>4. /\ page' \in PageStates
      /\ \A s \in Seats :
            (SaysAbsent(m, s) \/ (page.players[s] # "CONNECTED" /\ ~SaysPresent(m, s)))
                => page'.players[s] # "CONNECTED"
      /\ (page'.ended \/ page'.result # <<>>) =>
            SaysTheEnd(m) \/ page.ended \/ page.result # <<>>
      /\ (Timed /\ (StartsClock(m) \/ (Runs /\ Harmless(m)))) =>
            ~EffectiveAI(page)' /\ page'.remaining >= Left(srv.deadline)
      /\ saw' = IF m.type = "PLAYER_DISCONNECTED" THEN saw \cup {m.seat} ELSE saw
      /\ \A s \in Seats :
            page'.countdown[s] =
                IF m.type = "PLAYER_DISCONNECTED" /\ m.seat = s THEN GraceTicks
                ELSE IF m.type = "PLAYER_FORFEITED" /\ m.seat = s THEN NoCountdown
                ELSE page.countdown[s]
  BY <1>1, PageRead
<1>5. TypeInv'  BY <1>1, <1>2, <1>3, <1>4 DEF TypeInv
<1>6. GameGoesOn'  BY <1>3 DEF PageInv, GameGoesOn, InPlay
<1>7. EndsAreReal'
  <2>1. 1 \in 1 .. n /\ \A i \in 1 .. n - 1 : i + 1 \in 1 .. n  BY <1>2
  <2>2. SaysTheEnd(m) => srv.over  BY <2>1 DEF PageInv, EndsAreReal
  <2>3. \A i \in 1 .. Len(inbox') : SaysTheEnd(inbox'[i]) => srv'.over
    BY <1>2, <1>3, <2>1 DEF PageInv, EndsAreReal
  <2>4. (page'.ended \/ page'.result # <<>>) => srv'.over
    BY <1>3, <1>4, <2>2 DEF PageInv, EndsAreReal
  <2> QED  BY <2>3, <2>4 DEF EndsAreReal, SaysTheEnd, LastOne
\* Message i, or the page if i is 0, is message i - 1 afterwards, or the page.
<1>8. AbsentAreTold'
  <2> SUFFICES ASSUME conn' # "none", ~missed', NEW s \in Humans, status'[s] # "ACTIVE"
               PROVE  \E i \in 0 .. Len(inbox') : AbsentAt(i, s)'
    BY DEF AbsentAreTold
  <2> PICK i \in 0 .. n : AbsentAt(i, s)  BY <1>3 DEF PageInv, AbsentAreTold
  <2>1. s \in Seats  BY SeatsFacts
  <2>2. \A j \in i + 1 .. n : ~SaysPresent(inbox[j], s)  BY DEF AbsentAt
  <2>3. CASE i \in {0, 1}
    <3>1. page'.players[s] # "CONNECTED"
      <4>1. CASE i = 1  BY <1>4, <2>1, <4>1 DEF AbsentAt
      <4>2. CASE i = 0
        <5>1. 1 \in i + 1 .. n  BY <1>2, <4>2
        <5> QED  BY <1>4, <2>1, <2>2, <4>2, <5>1 DEF AbsentAt
      <4> QED  BY <2>3, <4>1, <4>2
    <3>2. ASSUME NEW j \in 0 + 1 .. Len(inbox')  PROVE ~SaysPresent(inbox'[j], s)
      <4>1. j \in 1 .. n - 1 /\ j + 1 \in i + 1 .. n  BY <1>2, <2>3
      <4> QED  BY <1>2, <2>2, <4>1
    <3>3. AbsentAt(0, s)'  BY <3>1, <3>2 DEF AbsentAt, SaysPresent
    <3>4. 0 \in 0 .. Len(inbox')  BY <1>2
    <3> QED  BY <3>3, <3>4
  <2>4. CASE i \notin {0, 1}
    <3> PICK k : k = i - 1  OBVIOUS
    <3>1. k \in 1 .. n - 1 /\ k + 1 = i /\ k # 0  BY <1>2, <2>4
    <3>2. SaysAbsent(inbox'[k], s)  BY <1>2, <2>4, <3>1 DEF AbsentAt
    <3>3. ASSUME NEW j \in k + 1 .. Len(inbox')  PROVE ~SaysPresent(inbox'[j], s)
      <4>1. j \in 1 .. n - 1 /\ j + 1 \in i + 1 .. n  BY <1>2, <3>1
      <4> QED  BY <1>2, <2>2, <4>1
    <3>4. AbsentAt(k, s)'  BY <3>1, <3>2, <3>3 DEF AbsentAt, SaysAbsent, SaysPresent
    <3>5. k \in 0 .. Len(inbox')  BY <1>2, <3>1
    <3> QED  BY <3>4, <3>5
  <2> QED  BY <2>3, <2>4
<1>9. CountdownsAreLong'
  <2> SUFFICES ASSUME ~srv.over, NEW s \in Humans \ {Viewer}, s \in saw',
                      status[s] = "DISCONNECTED"
               PROVE  page'.countdown[s] = NoCountdown \/ page'.countdown[s] >= Left(grace[s])
    BY <1>3 DEF CountdownsAreLong, Left
  <2>1. s \in Seats  BY SeatsFacts
  <2>2. CASE m.type = "PLAYER_DISCONNECTED" /\ m.seat = s
    <3>1. page'.countdown[s] = GraceTicks  BY <1>4, <2>1, <2>2
    <3>2. grace[s] <= time + GraceTicks /\ grace[s] \in Int /\ time \in Nat /\ GraceTicks \in Nat
      BY <1>1, TicksAssumption DEF PageInv, GameGoesOn, TypeInv
    <3>3. Left(grace[s]) <= GraceTicks /\ Left(grace[s]) \in Nat  BY <3>2 DEF Left
    <3> QED  BY <3>1, <3>2, <3>3
  <2>3. CASE m.type = "PLAYER_FORFEITED" /\ m.seat = s  BY <1>4, <2>1, <2>3
  <2>4. CASE ~(m.type \in {"PLAYER_DISCONNECTED", "PLAYER_FORFEITED"} /\ m.seat = s)
    <3>1. s \in saw /\ page'.countdown[s] = page.countdown[s]  BY <1>4, <2>1, <2>4
    <3> QED  BY <3>1 DEF PageInv, CountdownsAreLong
  <2> QED  BY <2>2, <2>3, <2>4
<1>10. ClockRuns'
  <2> SUFFICES ASSUME conn' # "none", ~missed', Timed'
               PROVE  \E i \in 0 .. Len(inbox') : RunsFrom(i)'
    BY DEF ClockRuns
  <2>1. Timed  BY <1>3 DEF Timed, Left
  <2> PICK i \in 0 .. n : RunsFrom(i)  BY <1>3, <2>1 DEF PageInv, ClockRuns
  <2>2. \A j \in i + 1 .. n : Harmless(inbox[j])  BY DEF RunsFrom
  <2>3. CASE i \in {0, 1}
    <3>1. Runs'
      <4>1. StartsClock(m) \/ (Runs /\ Harmless(m))
        <5>1. CASE i = 1  BY <5>1 DEF RunsFrom
        <5>2. CASE i = 0
          <6>1. 1 \in i + 1 .. n  BY <1>2, <5>2
          <6> QED  BY <2>2, <5>2, <6>1 DEF RunsFrom
        <5> QED  BY <2>3, <5>1, <5>2
      <4> QED  BY <1>3, <1>4, <2>1, <4>1 DEF Runs, Left, EffectiveAI
    <3>2. ASSUME NEW j \in 0 + 1 .. Len(inbox')  PROVE Harmless(inbox'[j])
      <4>1. j \in 1 .. n - 1 /\ j + 1 \in i + 1 .. n  BY <1>2, <2>3
      <4> QED  BY <1>2, <2>2, <4>1
    <3>3. RunsFrom(0)'  BY <3>1, <3>2 DEF RunsFrom, Harmless
    <3>4. 0 \in 0 .. Len(inbox')  BY <1>2
    <3> QED  BY <3>3, <3>4
  <2>4. CASE i \notin {0, 1}
    <3> PICK k : k = i - 1  OBVIOUS
    <3>1. k \in 1 .. n - 1 /\ k + 1 = i /\ k # 0  BY <1>2, <2>4
    <3>2. StartsClock(inbox'[k])  BY <1>2, <2>4, <3>1 DEF RunsFrom
    <3>3. ASSUME NEW j \in k + 1 .. Len(inbox')  PROVE Harmless(inbox'[j])
      <4>1. j \in 1 .. n - 1 /\ j + 1 \in i + 1 .. n  BY <1>2, <3>1
      <4> QED  BY <1>2, <2>2, <4>1
    <3>4. RunsFrom(k)'  BY <3>1, <3>2, <3>3 DEF RunsFrom, StartsClock, Harmless
    <3>5. k \in 0 .. Len(inbox')  BY <1>2, <3>1
    <3> QED  BY <3>4, <3>5
  <2> QED  BY <2>3, <2>4
<1> QED  BY <1>5, <1>6, <1>7, <1>8, <1>9, <1>10 DEF PageInv

LEMMA TickKeeps ==
    ASSUME PageInv, Tick
    PROVE  PageInv'
<1>1. /\ TypeInv /\ page \in PageStates /\ time \in Nat /\ time' = time + 1 /\ srv \in Games
      /\ srv.deadline <= time + TurnTicks /\ grace \in [Humans -> Int]
  BY DEF PageInv, TypeInv, GameGoesOn, Tick
<1>2. TurnTicks \in Nat /\ GraceTicks \in Nat  BY TicksAssumption
<1>3. /\ UNCHANGED <<srv, status, grace, conn, missed, saw, inbox>>
      /\ ~srv.over /\ \A s \in Humans : grace[s] > time
  BY DEF Tick
<1> PICK r : r = IF EffectiveAI(page) \/ page.remaining = 0 THEN page.remaining
                 ELSE page.remaining - 1
  OBVIOUS
<1> PICK c : c = [s \in Seats |-> IF page.countdown[s] > 0 THEN page.countdown[s] - 1
                                  ELSE page.countdown[s]]
  OBVIOUS
<1>4. page' = [page EXCEPT !.remaining = r, !.countdown = c]
  BY <1>1 DEF Tick, PageTick, PageStates
<1>5. r \in Nat /\ c \in [Seats -> Int]  BY <1>1 DEF PageStates
<1>6. page' \in PageStates  BY <1>1, <1>4, <1>5 DEF PageStates
<1>7. /\ page'.players = page.players /\ page'.ended = page.ended /\ page'.result = page.result
      /\ page'.thinking = page.thinking /\ page'.isAITurn = page.isAITurn
      /\ page'.remaining = r /\ page'.countdown = c
  BY <1>1, <1>4 DEF PageStates
<1>8. TypeInv'  BY <1>1, <1>3, <1>6 DEF TypeInv
<1>9. GameGoesOn'  BY <1>1, <1>2, <1>3 DEF PageInv, GameGoesOn, InPlay, Games
<1>10. EndsAreReal'  BY <1>3, <1>7 DEF PageInv, EndsAreReal, SaysTheEnd, LastOne
<1>11. AbsentAreTold'
  BY <1>3, <1>7 DEF PageInv, AbsentAreTold, AbsentAt, SaysAbsent, SaysPresent
\* Whoever is away has a tick left, so that the countdown has one too.
<1>12. CountdownsAreLong'
  <2> SUFFICES ASSUME NEW s \in Humans \ {Viewer}, s \in saw, status[s] = "DISCONNECTED"
               PROVE  c[s] = NoCountdown \/ c[s] >= Left(grace[s])'
    BY <1>3, <1>7 DEF CountdownsAreLong
  <2>1. s \in Seats /\ c[s] = IF page.countdown[s] > 0 THEN page.countdown[s] - 1
                              ELSE page.countdown[s]
    BY SeatsFacts
  <2>2. page.countdown[s] = NoCountdown \/ page.countdown[s] >= Left(grace[s])
    BY <1>3 DEF PageInv, CountdownsAreLong
  <2>3. grace[s] \in Int /\ grace[s] > time /\ page.countdown[s] \in Int
    BY <1>1, <1>3, <2>1 DEF PageStates
  <2>4. Left(grace[s]) = grace[s] - time  BY <2>3 DEF Left
  <2>5. Left(grace[s])' = grace[s] - (time + 1)  BY <1>1, <1>3, <2>3 DEF Left
  <2> QED  BY <1>1, <2>1, <2>2, <2>3, <2>4, <2>5 DEF NoCountdown
<1>13. ClockRuns'
  <2> SUFFICES ASSUME conn' # "none", ~missed', Timed'
               PROVE  \E i \in 0 .. Len(inbox') : RunsFrom(i)'
    BY DEF ClockRuns
  <2>1. /\ Timed /\ Left(srv.deadline) = srv.deadline - time
        /\ Left(srv.deadline)' = srv.deadline - (time + 1) /\ srv.deadline - (time + 1) > 0
    BY <1>1, <1>3 DEF Timed, Left, Games
  <2> PICK i \in 0 .. Len(inbox) : RunsFrom(i)  BY <1>3, <2>1 DEF PageInv, ClockRuns
  <2>2. Runs => Runs'
    <3> SUFFICES ASSUME Runs  PROVE Runs'  OBVIOUS
    <3>1. ~EffectiveAI(page)'  BY <1>7 DEF Runs, EffectiveAI
    <3>2. r = page.remaining - 1 \/ page.remaining = 0  BY DEF Runs
    <3>3. page.remaining \in Nat /\ page.remaining >= srv.deadline - time /\ srv.deadline \in Nat
      BY <1>1, <2>1 DEF Runs, PageStates, Games
    <3>4. page'.remaining >= srv.deadline - (time + 1)  BY <1>1, <1>7, <2>1, <3>2, <3>3
    <3> QED  BY <1>3, <2>1, <3>1, <3>4 DEF Runs
  <2> QED  BY <1>3, <2>2 DEF RunsFrom, StartsClock, Harmless
<1> QED  BY <1>8, <1>9, <1>10, <1>11, <1>12, <1>13 DEF PageInv

LEMMA StutterKeeps ==
    ASSUME PageInv, UNCHANGED vars
    PROVE  PageInv'
BY DEF vars, PageInv, TypeInv, GameGoesOn, InPlay, EndsAreReal, SaysTheEnd, LastOne, AbsentAreTold,
       AbsentAt, SaysAbsent, SaysPresent, CountdownsAreLong, Left, ClockRuns, Timed, RunsFrom,
       Runs, EffectiveAI, StartsClock, Harmless

LEMMA InitHolds ==
    ASSUME Init
    PROVE  PageInv
<1>1. /\ TurnTicks \in Nat /\ GraceTicks \in Nat /\ MaxTime \in Nat /\ 0 \in Seats /\ Seats # {}
  BY TicksAssumption, SeatsFacts
<1>2. time = 0 /\ conn = "none" /\ missed = FALSE /\ saw = {} /\ inbox = <<>>
  BY DEF Init
<1>3. srv = [current |-> 0, until |-> TurnTicks, deadline |-> TurnTicks, turns |-> 0,
             over |-> FALSE, winner |-> Nobody]
  BY DEF Init
<1>4. srv \in Games  BY <1>1, <1>3 DEF Games, Winners
<1>5. status \in [Seats -> Statuses] /\ \A s \in Seats : status[s] = "ACTIVE"
  BY DEF Init, Statuses
<1>6. grace \in [Humans -> Int]  BY <1>1 DEF Init, Never
<1> PICK f : f = [s \in Seats |-> "CONNECTED"]  OBVIOUS
<1> PICK c : c = [s \in Seats |-> NoCountdown]  OBVIOUS
<1>7. page = [current |-> Nobody, players |-> f, countdown |-> c,
              remaining |-> 0, isAITurn |-> FALSE, thinking |-> Nobody,
              ended |-> FALSE, endReason |-> "none", result |-> <<>>]
  BY DEF Init
<1>8. f \in [Seats -> Shown] /\ c \in [Seats -> Int] /\ Nobody \in Winners
  BY DEF Shown, NoCountdown, Winners
<1>9. page \in PageStates  BY <1>7, <1>8 DEF PageStates
<1>10. TypeInv
  <2>1. inbox \in Seq(Messages)  BY <1>2
  <2>2. time \in Nat /\ missed \in BOOLEAN /\ conn \in {"none", "served", "registered"}  BY <1>2
  <2> QED  BY <1>4, <1>5, <1>6, <1>9, <2>1, <2>2 DEF TypeInv
<1>11. GameGoesOn  BY <1>1, <1>2, <1>3, <1>5, SeatsFacts DEF GameGoesOn, InPlay
<1>12. EndsAreReal  BY <1>2, <1>7 DEF EndsAreReal
<1>13. AbsentAreTold /\ CountdownsAreLong /\ ClockRuns
  BY <1>2 DEF AbsentAreTold, CountdownsAreLong, ClockRuns
<1> QED  BY <1>10, <1>11, <1>12, <1>13 DEF PageInv

LEMMA NextKeeps ==
    ASSUME PageInv, [Next]_vars
    PROVE  PageInv'
<1>1. CASE TurnEnds  BY <1>1, TurnEndsKeeps
<1>2. CASE GameEnds  BY <1>2, GameEndsKeeps
<1>3. CASE LLMExcluded \/ \E s \in Humans : Leaves(s) \/ GraceRunsOut(s)  BY <1>3, PlayersForfeit
<1>4. CASE Think  BY <1>4, ThinkKeeps
<1>5. CASE \E s \in Humans : Disconnects(s) \/ Returns(s)
  <2> PICK s \in Humans : Disconnects(s) \/ Returns(s)  BY <1>5
  <2>1. CASE s = Viewer
    <3>1. ~Returns(s)  BY <2>1 DEF Returns
    <3> QED  BY <2>1, <3>1, ViewerGoes
  <2>2. CASE s # Viewer
    <3>1. s \in Humans \ {Viewer}  BY <2>2
    <3> QED  BY <3>1, ComeAndGo
  <2> QED  BY <2>1, <2>2
<1>6. CASE Serve  BY <1>6, ServeKeeps
<1>7. CASE Register  BY <1>7, RegisterKeeps
<1>8. CASE Deliver  BY <1>8, DeliverKeeps
<1>9. CASE Tick  BY <1>9, TickKeeps
<1>10. CASE UNCHANGED vars  BY <1>10, StutterKeeps
<1> QED  BY <1>1, <1>2, <1>3, <1>4, <1>5, <1>6, <1>7, <1>8, <1>9, <1>10 DEF Next

-----------------------------------------------------------------------------
(* The theorems. *)

\* Every state of the page, the game and the messages between them is one of
\* the invariant's.
THEOREM PageInvariance == Spec => []PageInv
<1>1. Init => PageInv  BY InitHolds
<1>2. PageInv /\ [Next]_vars => PageInv'  BY NextKeeps
<1> QED  BY <1>1, <1>2, PTL DEF Spec

LEMMA InvMeansTrue ==
    ASSUME PageInv
    PROVE  PageIsTrue
<1>1. TypeInv /\ page \in PageStates /\ status \in [Seats -> Statuses]  BY DEF PageInv, TypeInv
<1>2. Settled => /\ conn # "none" /\ ~missed /\ Len(inbox) = 0
  BY DEF Settled
<1>3. AbsenceIsShown
  <2> SUFFICES ASSUME Settled, ~srv.over, NEW s \in Humans
               PROVE  /\ Card(s) = "connected" => status[s] = "ACTIVE"
                      /\ (s \in saw /\ status[s] = "DISCONNECTED" /\ Countdown(s) # NoCountdown) =>
                            Countdown(s) >= Left(grace[s])
    BY DEF AbsenceIsShown
  <2>1. s \in Seats /\ page.players[s] \in Shown  BY <1>1, SeatsFacts DEF PageStates
  <2>2. status[s] # "ACTIVE" => page.players[s] # "CONNECTED"
    <3> SUFFICES ASSUME status[s] # "ACTIVE"  PROVE page.players[s] # "CONNECTED"  OBVIOUS
    <3> PICK i \in 0 .. Len(inbox) : AbsentAt(i, s)  BY <1>2 DEF PageInv, AbsentAreTold
    <3>1. i = 0  BY <1>2
    <3> QED  BY <3>1 DEF AbsentAt
  <2>3. Card(s) = "connected" => page.players[s] = "CONNECTED"  BY <2>1 DEF Card, Shown
  <2>4. (s \in saw /\ status[s] = "DISCONNECTED" /\ Countdown(s) # NoCountdown) =>
            Countdown(s) >= Left(grace[s])
    BY DEF Countdown, PageInv, CountdownsAreLong
  <2> QED  BY <2>2, <2>3, <2>4
<1>4. ClockIsNotShort
  <2> SUFFICES ASSUME Settled, Timed  PROVE Runs
    BY DEF ClockIsNotShort, Timed, Runs
  <2> PICK i \in 0 .. Len(inbox) : RunsFrom(i)  BY <1>2 DEF PageInv, ClockRuns
  <2>1. i = 0  BY <1>2
  <2> QED  BY <2>1 DEF RunsFrom
<1>5. EndIsReal  BY DEF EndIsReal, Screen, PageInv, EndsAreReal
<1> QED  BY <1>3, <1>4, <1>5 DEF PageIsTrue

\* With every message read, nobody who is away is shown as present, the
\* countdowns and the clock have not less to go than the server's timers, and
\* the page leaves the board only when the game is over: players, gameStore and
\* useTurnTimer against handleDisconnect, forfeitAndBroadcast and HandleWS.
THEOREM PageCorrect == Spec => []PageIsTrue
<1>1. PageInv => PageIsTrue  BY InvMeansTrue
<1> QED  BY <1>1, PageInvariance, PTL

-----------------------------------------------------------------------------
(* The limits *)

\* What the warning is about: the page's count of violations and the socket's.
CountsExist ==
    /\ "stage" \in DOMAIN store /\ store.stage \in 0 .. 2
    /\ {"types", "global", "left", "violations", "allowed"} \subseteq DOMAIN limiter
    /\ limiter.violations \in Nat /\ notes \in Nat

\* Of an open socket's violations the page has counted as many, or will when it
\* has read what is on its way, unless it has counted two and stopped.
PageCountsAlong ==
    socket = "open" =>
        /\ limiter.violations <= 2
        /\ store.stage < 2 => limiter.violations <= store.stage + notes

LimitInv == CountsExist /\ PageCountsAlong

(***************************************************************************)
(* A message adds at most one violation to the count of a socket (Check).  *)
(***************************************************************************)
LEMMA CheckCounts ==
    ASSUME CountsExist, NEW t
    PROVE  /\ {"types", "global", "left", "violations", "allowed"} \subseteq DOMAIN Check(limiter, t)
           /\ Check(limiter, t).violations \in Nat
           /\ Check(limiter, t).violations <= limiter.violations + 1
<1> DEFINE Whole(l) == /\ {"types", "global", "left", "violations", "allowed"} \subseteq DOMAIN l
                       /\ l.violations = limiter.violations
           w == IF limiter.left > 0 THEN limiter
                ELSE [limiter EXCEPT !.types = NewLimiter.types, !.global = 0, !.left = Window]
           c == [w EXCEPT !.global = @ + 1, !.types[t] = @ + 1]
           o == [w EXCEPT !.global = @ + 1]
<1>1. Whole(w)
  BY DEF CountsExist
<1>2. Whole(c) /\ Whole(o)
  BY <1>1
<1>3. \A l : Whole(l) =>
         /\ {"types", "global", "left", "violations", "allowed"} \subseteq DOMAIN Violated(l)
         /\ Violated(l).violations = limiter.violations + 1
  BY DEF Violated
<1>4. \A l : Whole(l) =>
         /\ {"types", "global", "left", "violations", "allowed"} \subseteq DOMAIN Allowed(l)
         /\ Allowed(l).violations \in Nat
         /\ Allowed(l).violations <= limiter.violations
  BY DEF Allowed, CountsExist
<1>5. Check(limiter, t) \in {Violated(o), Violated(c), Allowed(c)}
  BY DEF Check
<1> HIDE DEF w, c, o, Whole
<1> QED  BY <1>2, <1>3, <1>4, <1>5 DEF CountsExist

(***************************************************************************)
(* The page counts along with the socket: a note is on its way for every   *)
(* violation, and what the page forgets it forgets with the socket.        *)
(***************************************************************************)
LEMMA LimitsStep ==
    ASSUME LimitInv, [LimitsNext]_limits
    PROVE  LimitInv'
<1> USE DEF LimitInv, CountsExist, PageCountsAlong, ws, http
<1>1. ASSUME NEW f \in Fetches, Ask(f) \/ Incr(f) \/ Expire(f) \/ Decide(f) \/ Resend(f)
      PROVE  LimitInv'
  BY <1>1 DEF Ask, Incr, Expire, Decide, Resend
<1>2. ASSUME NEW f \in Fetches, Refused(f) \/ Succeeds(f) \/ Throws(f)
      PROVE  LimitInv'
  BY <1>2 DEF Refused, Succeeds, Throws, SetStore, StartCooldown
<1>3. ASSUME NEW t \in Types, Send(t) PROVE LimitInv'
  BY <1>3, CheckCounts DEF Send
<1>4. CASE OnRateLimited
  <2>1. store'.stage = IF store.stage + 1 < 2 THEN store.stage + 1 ELSE 2
    BY <1>4 DEF OnRateLimited, SetStore, Min
  <2> QED  BY <1>4, <2>1 DEF OnRateLimited, SetStore
<1>5. CASE ThrottleEnds \/ Dismiss \/ UNCHANGED limits
  BY <1>5 DEF ThrottleEnds, Dismiss, SetStore, limits
<1>6. CASE Reconnect \/ Unmount
  BY <1>6 DEF Reconnect, Unmount, SetStore, StoreReset, NewLimiter
<1>7. CASE SecondPasses
  BY <1>7 DEF SecondPasses, CooldownSecond
<1> QED  BY <1>1, <1>2, <1>3, <1>4, <1>5, <1>6, <1>7 DEF LimitsNext, Requests

(***************************************************************************)
(* At the start nothing has been counted on either side.                   *)
(***************************************************************************)
LEMMA LimitsStart == LimitsInit => LimitInv
  BY DEF LimitsInit, StoreReset, NewLimiter, LimitInv, CountsExist, PageCountsAlong

(***************************************************************************)
(* The inductive invariant of RateLimit, for every limit, window and       *)
(* number of calls and messages.                                           *)
(***************************************************************************)
THEOREM LimitsInvariance == LimitsSpec => []LimitInv
<1>1. LimitInv /\ [LimitsNext]_limits => LimitInv'
  BY LimitsStep
<1> QED  BY <1>1, LimitsStart, PTL DEF LimitsSpec

(***************************************************************************)
(* Nobody is cut off without a warning: when two violations are counted    *)
(* and no notice is on its way any more, so that the next violation closes *)
(* the socket, the page shows the second warning (RATE_LIMITED, stage 2 of *)
(* the toast), for every limit and every number of messages.               *)
(***************************************************************************)
THEOREM WarningComesFirst == LimitsSpec => []WarnedBeforeClosed
<1>1. Toast.orange = (store.stage = 2)
  BY Zenon DEF Toast
<1>2. LimitInv => WarnedBeforeClosed
  <2>1. CASE store.stage = 2
    BY <1>1, <2>1, Zenon DEF WarnedBeforeClosed
  <2>2. CASE store.stage # 2
    BY <2>2 DEF LimitInv, CountsExist, PageCountsAlong, WarnedBeforeClosed
  <2> QED  BY <2>1, <2>2
<1> QED  BY <1>2, LimitsInvariance, PTL

-----------------------------------------------------------------------------
(* Sequences: what FlattenSeq, and so filter (Keeping), makes of them.  The *)
(* recursive function of FlattenSeq is only CHOSEN to satisfy its equation; *)
(* that there is one is shown by taking the shortest prefix that has none.  *)

Flattens(f, ss, n) == f = [i \in 1 .. n |-> IF i = 1 THEN ss[i] ELSE f[i - 1] \o ss[i]]

\* A flattened prefix extends to the next one ...
LEMMA FlattenStep ==
    ASSUME NEW n \in Nat, NEW ss, NEW f, Flattens(f, ss, n)
    PROVE  \E g : Flattens(g, ss, n + 1)
<1> DEFINE g == [i \in 1 .. n + 1 |-> IF i = 1 THEN ss[i]
                                      ELSE IF i <= n THEN f[i] ELSE f[n] \o ss[i]]
<1>1. ASSUME NEW i \in 1 .. n + 1
      PROVE  g[i] = IF i = 1 THEN ss[i] ELSE g[i - 1] \o ss[i]
  <2>1. CASE i = 1  BY <2>1
  <2>2. CASE i # 1 /\ i <= n
    <3>1. i \in 1 .. n /\ i - 1 \in 1 .. n + 1 /\ i - 1 \in 1 .. n  BY <2>2
    <3>2. f[i] = f[i - 1] \o ss[i]  BY <2>2, <3>1 DEF Flattens
    <3>3. g[i - 1] = f[i - 1]
      <4>1. CASE i - 1 = 1
        <5>1. f[i - 1] = ss[i - 1]  BY <3>1, <4>1 DEF Flattens
        <5> QED  BY <3>1, <4>1, <5>1
      <4>2. CASE i - 1 # 1  BY <3>1, <4>2
      <4> QED  BY <4>1, <4>2
    <3> QED  BY <2>2, <3>1, <3>2, <3>3
  <2>3. CASE i # 1 /\ ~(i <= n)
    <3>1. i = n + 1 /\ n \in 1 .. n + 1 /\ n \in 1 .. n  BY <2>3
    <3>2. g[n] = f[n]
      <4>1. CASE n = 1
        <5>1. f[n] = ss[n]  BY <3>1, <4>1 DEF Flattens
        <5> QED  BY <3>1, <4>1, <5>1
      <4>2. CASE n # 1  BY <3>1, <4>2
      <4> QED  BY <4>1, <4>2
    <3>3. i - 1 = n  BY <3>1
    <3>4. g[i] = f[n] \o ss[i]  BY <2>3
    <3> QED  BY <2>3, <3>2, <3>3, <3>4
  <2> QED  BY <2>1, <2>2, <2>3
<1>2. g = [i \in 1 .. n + 1 |-> g[i]]  OBVIOUS
<1> HIDE DEF g
<1>3. g = [i \in 1 .. n + 1 |-> IF i = 1 THEN ss[i] ELSE g[i - 1] \o ss[i]]
  BY <1>1, <1>2
<1> QED  BY <1>3 DEF Flattens

\* ... so that every prefix has one.
LEMMA FlattenExists ==
    ASSUME NEW n \in Nat, NEW ss
    PROVE  \E f : Flattens(f, ss, n)
<1> DEFINE bad == {k \in Nat : ~ \E f : Flattens(f, ss, k)}
<1> SUFFICES ASSUME bad # {}  PROVE FALSE  OBVIOUS
<1>1. PICK k \in bad : \A j \in bad : k <= j  BY SmallestOf
<1>2. CASE k = 0
  <2> DEFINE e == [i \in 1 .. 0 |-> i]
  <2>1. e = [i \in 1 .. 0 |-> IF i = 1 THEN ss[i] ELSE e[i - 1] \o ss[i]]  OBVIOUS
  <2>2. Flattens(e, ss, 0)  BY <2>1 DEF Flattens
  <2> QED  BY <1>1, <1>2, <2>2
<1>3. CASE k # 0
  <2>1. k - 1 \in Nat /\ ~(k <= k - 1) /\ (k - 1) + 1 = k  BY <1>1, <1>3
  <2>2. PICK f : Flattens(f, ss, k - 1)  BY <1>1, <2>1
  <2>3. \E g : Flattens(g, ss, (k - 1) + 1)  BY <2>1, <2>2, FlattenStep
  <2> QED  BY <1>1, <2>1, <2>3
<1> QED  BY <1>2, <1>3

\* FlattenSeq(ss) is the last value of a function that flattens the prefixes.
LEMMA FlattenIsLast ==
    ASSUME NEW S, NEW ss \in Seq(S), ss # <<>>
    PROVE  \E f : Flattens(f, ss, Len(ss)) /\ FlattenSeq(ss) = f[Len(ss)]
<1>1. Len(ss) \in Nat /\ Len(ss) # 0  OBVIOUS
<1> DEFINE f == CHOOSE f : f = [i \in 1 .. Len(ss) |-> IF i = 1 THEN ss[i]
                                                       ELSE f[i - 1] \o ss[i]]
<1>2. \E g : g = [i \in 1 .. Len(ss) |-> IF i = 1 THEN ss[i] ELSE g[i - 1] \o ss[i]]
  BY <1>1, FlattenExists DEF Flattens
<1>3. f = [i \in 1 .. Len(ss) |-> IF i = 1 THEN ss[i] ELSE f[i - 1] \o ss[i]]
  BY <1>2
<1>4. FlattenSeq(ss) = f[Len(ss)]  BY <1>1 DEF FlattenSeq
<1> QED  BY <1>3, <1>4 DEF Flattens

\* A concatenation has the members of both.
LEMMA ConcatMembers ==
    ASSUME NEW S, NEW s \in Seq(S), NEW t \in Seq(S)
    PROVE  s \o t \in Seq(S) /\ ToSet(s \o t) = ToSet(s) \cup ToSet(t)
<1>1. s \o t \in Seq(S)  BY ConcatProperties
<1>2. Range(s \o t) = Range(s) \cup Range(t)  BY RangeConcatenation
<1> QED  BY <1>1, <1>2 DEF Range, ToSet

FlattenedTo(f, ss, S, k) ==
    f[k] \in Seq(S) /\ \A x : x \in ToSet(f[k]) <=> \E i \in 1 .. k : x \in ToSet(ss[i])

\* The value for a prefix has the members of its sequences.
LEMMA FlattenMembers ==
    ASSUME NEW S, NEW ss \in Seq(Seq(S)), NEW f, Flattens(f, ss, Len(ss))
    PROVE  \A k \in 1 .. Len(ss) : FlattenedTo(f, ss, S, k)
<1> DEFINE bad == {k \in 1 .. Len(ss) : ~FlattenedTo(f, ss, S, k)}
<1> SUFFICES ASSUME bad # {}  PROVE FALSE  OBVIOUS
<1>1. bad \subseteq Nat  OBVIOUS
<1>2. PICK k \in bad : \A j \in bad : k <= j  BY <1>1, SmallestOf
<1>3. k \in 1 .. Len(ss) /\ ~FlattenedTo(f, ss, S, k)  BY <1>2
<1>4. f[k] = IF k = 1 THEN ss[k] ELSE f[k - 1] \o ss[k]  BY <1>3 DEF Flattens
<1>5. ss[k] \in Seq(S)  BY <1>3
<1>6. CASE k = 1
  <2> QED  BY <1>3, <1>4, <1>5, <1>6 DEF FlattenedTo
<1>7. CASE k # 1
  <2>1. PICK m \in 1 .. Len(ss) : k = m + 1 /\ m = k - 1 /\ ~(k <= m)  BY <1>3, <1>7
  <2>2. FlattenedTo(f, ss, S, m)  BY <1>2, <2>1
  <2>3. f[k] = f[m] \o ss[k]  BY <1>4, <1>7, <2>1
  <2>4. f[k] \in Seq(S) /\ ToSet(f[k]) = ToSet(f[m]) \cup ToSet(ss[k])
    BY <1>5, <2>2, <2>3, ConcatMembers DEF FlattenedTo
  <2>5. 1 .. k = 1 .. m \cup {k}  BY <2>1
  <2>6. \A x : x \in ToSet(f[k]) <=> \E i \in 1 .. k : x \in ToSet(ss[i])
    BY <2>2, <2>4, <2>5 DEF FlattenedTo
  <2> QED  BY <1>3, <2>4, <2>6 DEF FlattenedTo
<1> QED  BY <1>6, <1>7

\* FlattenSeq has the members of all the sequences.
LEMMA FlattenProperties ==
    ASSUME NEW S, NEW ss \in Seq(Seq(S))
    PROVE  /\ FlattenSeq(ss) \in Seq(S)
           /\ \A x : x \in ToSet(FlattenSeq(ss)) <=> \E i \in 1 .. Len(ss) : x \in ToSet(ss[i])
<1>1. CASE ss = <<>>
  <2>1. Len(ss) = 0  BY <1>1
  <2>2. FlattenSeq(ss) = <<>>  BY <1>1, <2>1 DEF FlattenSeq
  <2>3. ToSet(<<>>) = {}  BY DEF ToSet
  <2> QED  BY <2>1, <2>2, <2>3
<1>2. CASE ss # <<>>
  <2>1. PICK f : Flattens(f, ss, Len(ss)) /\ FlattenSeq(ss) = f[Len(ss)]
    BY <1>2, FlattenIsLast
  <2>2. Len(ss) \in 1 .. Len(ss)  BY <1>2
  <2>3. FlattenedTo(f, ss, S, Len(ss))  BY <2>1, <2>2, FlattenMembers
  <2> QED  BY <2>1, <2>3 DEF FlattenedTo
<1> QED  BY <1>1, <1>2

\* What filter keeps.
LEMMA KeepingProperties ==
    ASSUME NEW T, NEW s \in Seq(T), NEW S
    PROVE  Keeping(s, S) \in Seq(T) /\ ToSet(Keeping(s, S)) = ToSet(s) \cap S
<1> DEFINE ss == [i \in 1 .. Len(s) |-> IF s[i] \in S THEN <<s[i]>> ELSE <<>>]
<1>1. Len(s) \in Nat /\ \A i \in 1 .. Len(s) : s[i] \in T  OBVIOUS
<1>2. \A i \in 1 .. Len(s) : ss[i] \in Seq(T)  BY <1>1
<1>3. ss \in Seq(Seq(T)) /\ Len(ss) = Len(s)  BY <1>1, <1>2
<1>4. \A i \in 1 .. Len(s) : \A x : x \in ToSet(ss[i]) <=> x = s[i] /\ x \in S
  <2> SUFFICES ASSUME NEW i \in 1 .. Len(s), NEW x
               PROVE  x \in ToSet(ss[i]) <=> x = s[i] /\ x \in S
    OBVIOUS
  <2>1. ToSet(<<>>) = {} /\ ToSet(<<s[i]>>) = {s[i]}  BY DEF ToSet
  <2> QED  BY <2>1
<1>5. Keeping(s, S) = FlattenSeq(ss)  BY DEF Keeping
<1> HIDE DEF ss
<1>6. /\ FlattenSeq(ss) \in Seq(T)
      /\ \A x : x \in ToSet(FlattenSeq(ss)) <=> \E i \in 1 .. Len(ss) : x \in ToSet(ss[i])
  BY <1>3, FlattenProperties
<1>7. \A x : x \in ToSet(s) <=> \E i \in 1 .. Len(s) : x = s[i]  BY DEF ToSet
<1>8. \A x : x \in ToSet(Keeping(s, S)) <=> x \in ToSet(s) \cap S
  BY <1>3, <1>4, <1>5, <1>6, <1>7
<1> QED  BY <1>5, <1>6, <1>8

-----------------------------------------------------------------------------
(* Rankings: pages of a list. *)

\* Two neighbouring stretches make one.
LEMMA StretchesMeet ==
    ASSUME NEW T, NEW s \in Seq(T), NEW a \in 0 .. Len(s), NEW b \in a .. Len(s)
    PROVE  SubSeq(s, 1, a) \o SubSeq(s, a + 1, b) = SubSeq(s, 1, b)
<1>1. Len(s) \in Nat /\ a \in Nat /\ b \in Nat /\ a <= b /\ b <= Len(s)  OBVIOUS
<1>2. /\ SubSeq(s, 1, a) \in Seq(T) /\ Len(SubSeq(s, 1, a)) = a
      /\ \A i \in 1 .. a : SubSeq(s, 1, a)[i] = s[i]
  BY <1>1
<1>3. /\ SubSeq(s, a + 1, b) \in Seq(T) /\ Len(SubSeq(s, a + 1, b)) = b - a
      /\ \A i \in 1 .. b - a : SubSeq(s, a + 1, b)[i] = s[a + i]
  BY <1>1
<1>4. /\ SubSeq(s, 1, b) \in Seq(T) /\ Len(SubSeq(s, 1, b)) = b
      /\ \A i \in 1 .. b : SubSeq(s, 1, b)[i] = s[i]
  BY <1>1
<1> PICK p \in Seq(T), q \in Seq(T), r \in Seq(T) :
        p = SubSeq(s, 1, a) /\ q = SubSeq(s, a + 1, b) /\ r = SubSeq(s, 1, b)
  BY <1>2, <1>3, <1>4
<1>5. /\ p \o q \in Seq(T) /\ Len(p \o q) = a + (b - a)
      /\ \A i \in 1 .. a + (b - a) : (p \o q)[i] = IF i <= a THEN p[i] ELSE q[i - a]
  BY <1>2, <1>3, ConcatProperties
<1>6. a + (b - a) = b  BY <1>1
<1>7. ASSUME NEW i \in 1 .. b  PROVE (p \o q)[i] = r[i]
  <2>1. CASE i <= a  BY <1>1, <1>2, <1>4, <1>5, <1>6, <2>1
  <2>2. CASE ~(i <= a)
    <3>1. i - a \in 1 .. b - a /\ a + (i - a) = i  BY <1>1, <2>2
    <3>2. q[i - a] = s[a + (i - a)]  BY <1>3, <3>1
    <3> QED  BY <1>4, <1>5, <1>6, <2>2, <3>1, <3>2
  <2> QED  BY <2>1, <2>2
<1> QED  BY <1>4, <1>5, <1>6, <1>7, SeqEqual

\* How many pages there are.
LEMMA PagesCount ==
    ASSUME NEW t \in Nat
    PROVE  /\ Pages(t) \in Nat /\ Pages(t) * Limit \in Nat /\ t <= Pages(t) * Limit
           /\ (Pages(t) = 0) = (t = 0)
           /\ \A k \in Nat : (k < Pages(t)) = (k * Limit < t) /\ k * Limit \in Nat
<1>1. Limit \in Nat /\ Limit > 0  BY RankingsAssumption
<1> PICK L \in Nat : L = Limit /\ L > 0  BY <1>1
<1> DEFINE q == (t + L - 1) \div L
<1>2. Pages(t) = q  BY DEF Pages
<1>3. q \in Nat /\ q * L \in Nat /\ q * L <= t + L - 1 /\ t + L - 1 < q * L + L  OBVIOUS
<1> HIDE DEF q
<1>4. ASSUME NEW k \in Nat  PROVE (k < q) = (k * L < t) /\ k * L \in Nat
  <2>1. k * L \in Nat  OBVIOUS
  <2>2. CASE k < q
    <3>1. PICK d \in Nat : q = k + 1 + d  BY <1>3, <2>2
    <3>2. q * L = k * L + L + d * L /\ d * L \in Nat  BY <3>1
    <3> QED  BY <1>3, <2>1, <2>2, <3>2
  <2>3. CASE ~(k < q)
    <3>1. PICK d \in Nat : k = q + d  BY <1>3, <2>3
    <3>2. k * L = q * L + d * L /\ d * L \in Nat  BY <1>3, <3>1
    <3> QED  BY <1>3, <2>1, <2>3, <3>2
  <2> QED  BY <2>2, <2>3
<1>5. (0 < q) = (0 * L < t)  BY <1>4
<1>6. 0 * L = 0  OBVIOUS
<1> QED  BY <1>2, <1>3, <1>4, <1>5, <1>6

\* The page after the first offset entries.
LEMMA PageProperties ==
    ASSUME NEW T, NEW E \in Seq(T), NEW offset \in Nat, offset < Len(E)
    PROVE  LET to == IF offset + Limit < Len(E) THEN offset + Limit ELSE Len(E)
           IN  /\ PageOf(E, offset) = SubSeq(E, offset + 1, to)
               /\ PageOf(E, offset) \in Seq(T) /\ Len(PageOf(E, offset)) = to - offset
               /\ to \in offset + 1 .. Len(E)
<1> DEFINE to == IF offset + Limit < Len(E) THEN offset + Limit ELSE Len(E)
<1>1. Limit \in Nat /\ Limit > 0 /\ Len(E) \in Nat  BY RankingsAssumption
<1>2. to \in offset + 1 .. Len(E)  BY <1>1
<1>3. PageOf(E, offset) = SubSeq(E, offset + 1, to)  BY DEF PageOf
<1> HIDE DEF to
<1>4. SubSeq(E, offset + 1, to) \in Seq(T) /\ Len(SubSeq(E, offset + 1, to)) = to - offset
  BY <1>1, <1>2
<1> QED  BY <1>2, <1>3, <1>4 DEF to

\* All the pages, one after the other, are the entries.
LEMMA PagesHaveAll ==
    ASSUME NEW T, NEW E \in Seq(T)
    PROVE  FlattenSeq([k \in 1 .. Pages(Len(E)) |-> PageOf(E, (k - 1) * Limit)]) = E
<1> DEFINE n == Pages(Len(E))
           ss == [k \in 1 .. n |-> PageOf(E, (k - 1) * Limit)]
           end(k) == IF k * Limit < Len(E) THEN k * Limit ELSE Len(E)
<1>1. /\ Len(E) \in Nat /\ n \in Nat /\ n * Limit \in Nat /\ Len(E) <= n * Limit
      /\ (n = 0) = (Len(E) = 0)
      /\ \A k \in Nat : (k < n) = (k * Limit < Len(E)) /\ k * Limit \in Nat
  <2>1. Len(E) \in Nat  OBVIOUS
  <2> QED  BY <2>1, PagesCount
<1>2. Limit \in Nat /\ Limit > 0  BY RankingsAssumption
<1> HIDE DEF n
<1>3. ASSUME NEW k \in 1 .. n
      PROVE  /\ ss[k] \in Seq(T) /\ ss[k] = SubSeq(E, end(k - 1) + 1, end(k))
             /\ end(k - 1) = (k - 1) * Limit /\ end(k) \in end(k - 1) + 1 .. Len(E)
  <2>1. k - 1 \in Nat /\ k - 1 < n /\ k \in Nat  BY <1>1
  <2>2. (k - 1) * Limit < Len(E) /\ (k - 1) * Limit \in Nat /\ k * Limit \in Nat
    BY <1>1, <2>1
  <2>3. (k - 1) * Limit + Limit = k * Limit
    <3>1. PICK j \in Nat : k = j + 1 /\ j = k - 1  BY <2>1
    <3> QED  BY <1>2, <3>1
  <2> PICK o \in Nat : o = (k - 1) * Limit  BY <2>2
  <2>4. /\ PageOf(E, o) = SubSeq(E, o + 1, IF o + Limit < Len(E) THEN o + Limit ELSE Len(E))
        /\ PageOf(E, o) \in Seq(T)
        /\ (IF o + Limit < Len(E) THEN o + Limit ELSE Len(E)) \in o + 1 .. Len(E)
    BY <2>2, PageProperties
  <2> QED  BY <2>2, <2>3, <2>4
<1>4. ss \in Seq(Seq(T)) /\ Len(ss) = n
  <2>1. \A k \in 1 .. n : ss[k] \in Seq(T)  BY <1>3
  <2>2. DOMAIN ss = 1 .. n  OBVIOUS
  <2>3. ss = [k \in 1 .. n |-> ss[k]]  OBVIOUS
  <2> HIDE DEF ss
  <2>4. ss \in [1 .. n -> Seq(T)]  BY <2>1, <2>3
  <2> QED  BY <1>1, <2>4
<1>5. CASE n = 0
  <2>1. FlattenSeq(ss) = ss  BY <1>4, <1>5 DEF FlattenSeq
  <2>2. ss = <<>> /\ E = <<>>  BY <1>1, <1>4, <1>5
  <2> QED  BY <2>1, <2>2 DEF n
<1>6. CASE n # 0
  <2> HIDE DEF ss
  <2>1. ss # <<>> /\ n \in 1 .. n  BY <1>1, <1>4, <1>6
  <2>2. PICK f : Flattens(f, ss, n) /\ FlattenSeq(ss) = f[n]
    BY <1>4, <2>1, FlattenIsLast
  <2> DEFINE bad == {k \in 1 .. n : f[k] # SubSeq(E, 1, end(k))}
  <2>3. bad = {}
    <3> SUFFICES ASSUME bad # {}  PROVE FALSE  OBVIOUS
    <3>1. bad \subseteq Nat  OBVIOUS
    <3>2. PICK k \in bad : \A j \in bad : k <= j  BY <3>1, SmallestOf
    <3>3. k \in 1 .. n /\ f[k] # SubSeq(E, 1, end(k))  BY <3>2
    <3>4. f[k] = IF k = 1 THEN ss[k] ELSE f[k - 1] \o ss[k]  BY <2>2, <3>3 DEF Flattens
    <3>5. /\ ss[k] = SubSeq(E, end(k - 1) + 1, end(k))
          /\ end(k - 1) = (k - 1) * Limit /\ end(k) \in end(k - 1) + 1 .. Len(E)
      BY <1>3, <3>3
    <3>6. (k - 1) * Limit \in Nat
      <4>1. k - 1 \in Nat  BY <3>3
      <4> QED  BY <1>1, <4>1
    <3>7. CASE k = 1
      <4>1. 1 - 1 = 0 /\ 0 * Limit = 0  BY <1>2
      <4>2. end(k - 1) + 1 = 1  BY <3>5, <3>7, <4>1
      <4> QED  BY <3>3, <3>4, <3>5, <3>7, <4>2
    <3>8. CASE k # 1
      <4>1. k - 1 \in 1 .. n /\ ~(k <= k - 1)  BY <1>1, <3>3, <3>8
      <4>2. k - 1 \notin bad  BY <3>2, <4>1
      <4>3. f[k - 1] = SubSeq(E, 1, end(k - 1))  BY <4>1, <4>2
      <4>4. end(k - 1) \in 0 .. Len(E) /\ end(k) \in end(k - 1) .. Len(E)
        <5>1. \A x, y, l \in Nat : y \in x + 1 .. l => x \in 0 .. l /\ y \in x .. l  OBVIOUS
        <5>2. end(k - 1) \in Nat  BY <3>5, <3>6
        <5>3. end(k) \in Nat  BY <1>1, <3>5, <5>2
        <5> HIDE DEF end
        <5> QED  BY <1>1, <3>5, <5>1, <5>2, <5>3
      <4> HIDE DEF end
      <4>5. f[k] = SubSeq(E, 1, end(k - 1)) \o SubSeq(E, end(k - 1) + 1, end(k))
        BY <3>4, <3>5, <3>8, <4>3
      <4>6. f[k] = SubSeq(E, 1, end(k))  BY <4>4, <4>5, StretchesMeet
      <4> QED  BY <3>3, <4>6
    <3> QED  BY <3>7, <3>8
  <2>4. f[n] = SubSeq(E, 1, end(n))  BY <2>1, <2>3
  <2>5. end(n) = Len(E)  BY <1>1
  <2>6. SubSeq(E, 1, Len(E)) = E  OBVIOUS
  <2> QED  BY <2>2, <2>4, <2>5, <2>6 DEF ss, n
<1> QED  BY <1>5, <1>6

-----------------------------------------------------------------------------
(* Rankings: the invariant. *)

Leaderboards ==
    [at : {"rankings"}, filter : Filters, offset : Nat, loading : BOOLEAN,
     response : {Nothing} \cup [of : Filters, offset : Nat, total : Nat, rows : Seq(Tiers)]]
Profiles == [at : {"profile"}, rating : BOOLEAN, history : BOOLEAN, loading : BOOLEAN]
Panels == [at : {"panel"}, entries : Seq(Tiers), tier : Filters, page : Nat]

RankingsTypes ==
    /\ ladder \in Seq(Tiers) /\ asked \in Nat
    /\ \/ shown \in Leaderboards /\ requests \subseteq [id : Nat, of : Filters, offset : Nat]
       \/ shown \in Profiles /\ requests \subseteq [id : Nat, token : BOOLEAN]
       \/ shown \in Panels /\ requests = {}

\* Requests are numbered as they are asked.
RequestsAreNumbered ==
    /\ \A q \in requests : q.id \in 1 .. asked
    /\ \A q, r \in requests : q.id = r.id => q = r

\* While the answers come in order, the last request is under way or answered,
\* and it is for what is chosen.
LastIsForChoice ==
    (shown \in Leaderboards /\ inOrder) =>
        \/ \E q \in requests :
               q.id = asked /\ q.of = shown.filter /\ q.offset = shown.offset
        \/ /\ requests = {} /\ shown.response # Nothing /\ ~shown.loading
           /\ shown.response.of = shown.filter /\ shown.response.offset = shown.offset

PanelPageExists ==
    shown \in Panels => shown.page = 0 \/ shown.page * Limit < Len(Entries)

RankingsInv == RankingsTypes /\ RequestsAreNumbered /\ LastIsForChoice /\ PanelPageExists

\* The three pages are told apart by their names.
LEMMA OnePage ==
    ASSUME RankingsTypes
    PROVE  /\ (shown \in Leaderboards) = (shown.at = "rankings")
           /\ (shown \in Profiles) = (shown.at = "profile")
           /\ (shown \in Panels) = (shown.at = "panel")
           /\ shown \in Leaderboards => requests \subseteq [id : Nat, of : Filters, offset : Nat]
           /\ shown \in Profiles => requests \subseteq [id : Nat, token : BOOLEAN]
           /\ shown \in Panels => requests = {}
BY DEF RankingsTypes, Leaderboards, Profiles, Panels

\* The entries of a tier.
LEMMA FilteredType ==
    ASSUME NEW s \in Seq(Tiers), NEW f
    PROVE  Filtered(s, f) \in Seq(Tiers)
BY KeepingProperties DEF Filtered

\* An answer has the tab and the page that were asked for.
LEMMA AnswerType ==
    ASSUME RankingsTypes, NEW r \in [id : Nat, of : Filters, offset : Nat]
    PROVE  /\ Respond(r) \in [of : Filters, offset : Nat, total : Nat, rows : Seq(Tiers)]
           /\ Respond(r).of = r.of /\ Respond(r).offset = r.offset /\ Respond(r) # Nothing
<1>1. PICK E \in Seq(Tiers) : E = Filtered(ladder, r.of)
  BY FilteredType DEF RankingsTypes
<1>2. Len(E) \in Nat /\ r.offset \in Nat /\ r.of \in Filters /\ Limit \in Nat
  BY RankingsAssumption
<1>3. PageOf(E, r.offset) \in Seq(Tiers)
  <2> DEFINE to == IF r.offset + Limit < Len(E) THEN r.offset + Limit ELSE Len(E)
  <2>1. r.offset + 1 \in Nat /\ r.offset + 1 >= 1 /\ to \in Nat /\ to <= Len(E)  BY <1>2
  <2>2. PageOf(E, r.offset) = SubSeq(E, r.offset + 1, to)  BY DEF PageOf
  <2> HIDE DEF to
  <2>3. SubSeq(E, r.offset + 1, to) \in Seq(Tiers)  BY <1>2, <2>1
  <2> QED  BY <2>2, <2>3
<1>4. Respond(r) = [of |-> r.of, offset |-> r.offset, total |-> Len(E), rows |-> PageOf(E, r.offset)]
  BY <1>1 DEF Respond
<1>5. Respond(r) \in [of : Filters, offset : Nat, total : Nat, rows : Seq(Tiers)]
      /\ Respond(r).of = r.of /\ Respond(r).offset = r.offset
  BY <1>2, <1>3, <1>4
<1>6. Respond(r) # Nothing
  <2>1. "offset" \in DOMAIN Respond(r) /\ "offset" \notin DOMAIN Nothing  BY <1>4 DEF Nothing
  <2> QED  BY <2>1
<1> QED  BY <1>5, <1>6

\* A load of the leaderboard asks for what is chosen.
LEMMA LoadAsks ==
    ASSUME RankingsInv, UNCHANGED <<ladder, inOrder>>, shown \in Leaderboards,
           NEW p \in Leaderboards, LoadRankings(p)
    PROVE  RankingsInv'
<1>1. /\ shown' = [p EXCEPT !.loading = TRUE] /\ asked' = asked + 1
      /\ requests' = requests \cup {[id |-> asked + 1, of |-> p.filter, offset |-> p.offset]}
  BY DEF LoadRankings, Asks
<1> PICK q : q = [id |-> asked + 1, of |-> p.filter, offset |-> p.offset]  OBVIOUS
<1>2. shown' \in Leaderboards /\ shown'.filter = p.filter /\ shown'.offset = p.offset
      /\ shown' \notin Panels
  BY <1>1 DEF Leaderboards, Panels
<1>3. asked \in Nat /\ requests \subseteq [id : Nat, of : Filters, offset : Nat]
  BY OnePage DEF RankingsInv, RankingsTypes
<1>4. q \in [id : Nat, of : Filters, offset : Nat] /\ q.id = asked + 1
      /\ q.of = p.filter /\ q.offset = p.offset
  BY <1>3 DEF Leaderboards
<1>5. RankingsTypes'  BY <1>1, <1>2, <1>3, <1>4 DEF RankingsInv, RankingsTypes
<1>6. RequestsAreNumbered'
  BY <1>1, <1>3, <1>4 DEF RankingsInv, RequestsAreNumbered
<1>7. LastIsForChoice'  BY <1>1, <1>2, <1>4 DEF LastIsForChoice
<1>8. PanelPageExists'  BY <1>2 DEF PanelPageExists
<1> QED  BY <1>5, <1>6, <1>7, <1>8 DEF RankingsInv

\* A tab, a page or the refresh button.
LEMMA ChoiceKeeps ==
    ASSUME RankingsInv, Refresh \/ Paginate \/ \E f \in Filters : HandleFilterChange(f)
    PROVE  RankingsInv'
<1>1. shown \in Leaderboards /\ UNCHANGED <<ladder, inOrder>>
  BY OnePage DEF Refresh, Paginate, HandleFilterChange, OnRankings, RankingsInv
<1>2. CASE Refresh  BY <1>1, <1>2, LoadAsks DEF Refresh
<1>3. ASSUME NEW f \in Filters, NEW o \in Nat, Show(f, o)  PROVE RankingsInv'
  <2> PICK p : p = [shown EXCEPT !.filter = f, !.offset = o]  OBVIOUS
  <2>1. p \in Leaderboards  BY <1>1 DEF Leaderboards
  <2>2. CASE p # shown  BY <1>1, <1>3, <2>1, <2>2, LoadAsks DEF Show
  <2>3. CASE p = shown
    <3>1. UNCHANGED <<ladder, inOrder, shown, asked, requests>>  BY <1>1, <1>3, <2>3 DEF Show
    <3> QED
      BY <3>1 DEF RankingsInv, RankingsTypes, RequestsAreNumbered, LastIsForChoice,
         PanelPageExists, Entries
  <2> QED  BY <2>2, <2>3
<1>4. CASE \E f \in Filters : HandleFilterChange(f)
  BY <1>3, <1>4 DEF HandleFilterChange
<1>5. CASE Paginate
  <2>1. /\ shown.response.offset \in Nat /\ shown.filter \in Filters /\ Limit \in Nat
        /\ \/ Show(shown.filter, IF shown.response.offset > Limit
                                 THEN shown.response.offset - Limit ELSE 0)
           \/ Show(shown.filter, shown.response.offset + Limit)
    BY <1>1, <1>5, RankingsAssumption DEF Paginate, Leaderboards
  <2> QED  BY <1>3, <2>1
<1> QED  BY <1>2, <1>4, <1>5

\* An answer, or the news that there is none.
LEMMA AnswerKeeps ==
    ASSUME RankingsInv, RankingsAnswered
    PROVE  RankingsInv'
<1>1. shown \in Leaderboards /\ UNCHANGED <<ladder, asked>>
      /\ requests \subseteq [id : Nat, of : Filters, offset : Nat] /\ asked \in Nat
  BY OnePage DEF RankingsAnswered, RankingsInv, RankingsTypes
<1>2. PICK r \in requests, ok \in BOOLEAN :
          /\ requests' = requests \ {r} /\ shown' = Receive(shown, r, ok)
          /\ inOrder' = (inOrder /\ ok /\ \A q \in requests : r.id <= q.id)
  BY DEF RankingsAnswered
<1>3. r \in [id : Nat, of : Filters, offset : Nat]  BY <1>1, <1>2
<1>4. /\ Respond(r) \in [of : Filters, offset : Nat, total : Nat, rows : Seq(Tiers)]
      /\ Respond(r).of = r.of /\ Respond(r).offset = r.offset /\ Respond(r) # Nothing
  BY <1>3, AnswerType DEF RankingsInv
<1>5. /\ shown' \in Leaderboards /\ shown' \notin Panels
      /\ shown'.filter = shown.filter /\ shown'.offset = shown.offset /\ ~shown'.loading
      /\ ok => shown'.response = Respond(r)
  BY <1>1, <1>2, <1>4 DEF Receive, Leaderboards, Panels
<1>6. RankingsTypes'  BY <1>1, <1>2, <1>5 DEF RankingsInv, RankingsTypes
<1>7. RequestsAreNumbered'  BY <1>1, <1>2 DEF RankingsInv, RequestsAreNumbered
<1>8. LastIsForChoice'
  <2> SUFFICES ASSUME inOrder'
               PROVE  \/ \E q \in requests' :
                            q.id = asked' /\ q.of = shown'.filter /\ q.offset = shown'.offset
                      \/ /\ requests' = {} /\ shown'.response # Nothing /\ ~shown'.loading
                         /\ shown'.response.of = shown'.filter
                         /\ shown'.response.offset = shown'.offset
    BY DEF LastIsForChoice
  <2>1. inOrder /\ ok /\ \A q \in requests : r.id <= q.id  BY <1>2
  <2>2. PICK q \in requests : q.id = asked /\ q.of = shown.filter /\ q.offset = shown.offset
    BY <1>1, <1>2, <2>1 DEF RankingsInv, LastIsForChoice
  <2>3. CASE q = r
    <3>1. \A x \in requests : x = r
      <4> SUFFICES ASSUME NEW x \in requests  PROVE x = r  OBVIOUS
      <4>1. x.id \in 1 .. asked /\ r.id <= x.id /\ r.id = asked
        BY <1>2, <2>1, <2>2, <2>3 DEF RankingsInv, RequestsAreNumbered
      <4>2. x.id = r.id  BY <1>1, <4>1
      <4> QED  BY <1>2, <4>2 DEF RankingsInv, RequestsAreNumbered
    <3>2. requests' = {}  BY <1>2, <3>1
    <3> QED  BY <1>4, <1>5, <2>1, <2>2, <2>3, <3>2
  <2>4. CASE q # r  BY <1>1, <1>2, <1>5, <2>2, <2>4
  <2> QED  BY <2>3, <2>4
<1>9. PanelPageExists'  BY <1>5 DEF PanelPageExists
<1> QED  BY <1>6, <1>7, <1>8, <1>9 DEF RankingsInv

\* A page that is opened starts with one request.
LEMMA OpeningKeeps ==
    ASSUME RankingsInv, OpenProfile \/ BackToRankings
    PROVE  RankingsInv'
<1>1. ladder' = ladder /\ asked' = 1 /\ inOrder' = TRUE
  BY DEF OpenProfile, BackToRankings, Opened
<1>2. CASE OpenProfile
  <2>1. shown' = Profile /\ requests' = {[id |-> 1, token |-> session = "known"]}
    BY <1>2 DEF OpenProfile, Opened
  <2>2. shown' \in Profiles /\ shown' \notin Leaderboards /\ shown' \notin Panels
    BY <2>1 DEF Profile, Profiles, Leaderboards, Panels
  <2>3. PICK b \in BOOLEAN : requests' = {[id |-> 1, token |-> b]}  BY <2>1
  <2>4. RankingsTypes'  BY <1>1, <2>2, <2>3 DEF RankingsInv, RankingsTypes
  <2>5. RequestsAreNumbered'  BY <1>1, <2>3 DEF RequestsAreNumbered
  <2> QED  BY <2>2, <2>4, <2>5 DEF RankingsInv, LastIsForChoice, PanelPageExists
<1>3. CASE BackToRankings
  <2>1. shown' = Rankings /\ requests' = {[id |-> 1, of |-> All, offset |-> 0]}
    BY <1>3 DEF BackToRankings, Opened
  <2>2. shown' \in Leaderboards /\ shown' \notin Panels /\ All \in Filters
        /\ shown'.filter = All /\ shown'.offset = 0
    BY <2>1 DEF Rankings, Leaderboards, Panels, Filters
  <2>3. RankingsTypes'  BY <1>1, <2>1, <2>2 DEF RankingsInv, RankingsTypes
  <2>4. RequestsAreNumbered'  BY <1>1, <2>1 DEF RequestsAreNumbered
  <2>5. LastIsForChoice'  BY <1>1, <2>1, <2>2 DEF LastIsForChoice
  <2> QED  BY <2>2, <2>3, <2>4, <2>5 DEF RankingsInv, PanelPageExists
<1> QED  BY <1>2, <1>3

\* The profile's requests and answers are no concern of the leaderboard's.
LEMMA ProfileKeeps ==
    ASSUME RankingsInv, SessionArrives \/ ProfileAnswered
    PROVE  RankingsInv'
<1>1. CASE shown.at # "profile"
  <2>1. UNCHANGED <<ladder, shown, asked, requests, inOrder>>
    BY <1>1 DEF SessionArrives, ProfileAnswered
  <2> QED
    BY <2>1 DEF RankingsInv, RankingsTypes, RequestsAreNumbered, LastIsForChoice,
       PanelPageExists, Entries
<1>2. CASE shown.at = "profile"
  <2>1. shown \in Profiles /\ ladder' = ladder /\ asked \in Nat
        /\ requests \subseteq [id : Nat, token : BOOLEAN]
    BY <1>2, OnePage DEF SessionArrives, ProfileAnswered, RankingsInv, RankingsTypes
  <2>2. CASE SessionArrives
    <3>0. PICK q : q = [id |-> asked + 1, token |-> session' = "known"]  OBVIOUS
    <3>1. /\ shown' = [shown EXCEPT !.loading = TRUE] /\ asked' = asked + 1
          /\ requests' = requests \cup {q} /\ q.id = asked + 1
          /\ q \in [id : Nat, token : BOOLEAN]
      <4>1. q.id = asked + 1 /\ q \in [id : Nat, token : BOOLEAN]  BY <2>1, <3>0
      <4>2. LoadProfile(shown, session')  BY <1>2, <2>2 DEF SessionArrives
      <4> QED  BY <3>0, <4>1, <4>2 DEF LoadProfile, Asks
    <3>2. shown' \in Profiles /\ shown' \notin Leaderboards /\ shown' \notin Panels
      BY <2>1, <3>1 DEF Profiles, Leaderboards, Panels
    <3>3. RankingsTypes'  BY <2>1, <3>1, <3>2 DEF RankingsInv, RankingsTypes
    <3>4. RequestsAreNumbered'  BY <2>1, <3>1 DEF RankingsInv, RequestsAreNumbered
    <3> QED  BY <3>2, <3>3, <3>4 DEF RankingsInv, LastIsForChoice, PanelPageExists
  <2>3. CASE ProfileAnswered
    <3>1. PICK r \in requests, rated \in BOOLEAN, told \in BOOLEAN :
              requests' = requests \ {r} /\ shown' = Settle(shown, rated, told)
      BY <2>3 DEF ProfileAnswered
    <3>2. shown' \in Profiles /\ shown' \notin Leaderboards /\ shown' \notin Panels
      BY <2>1, <3>1 DEF Settle, Profiles, Leaderboards, Panels
    <3>3. asked' = asked  BY <2>3 DEF ProfileAnswered
    <3>4. RankingsTypes'  BY <2>1, <3>1, <3>2, <3>3 DEF RankingsInv, RankingsTypes
    <3>5. RequestsAreNumbered'  BY <3>1, <3>3 DEF RankingsInv, RequestsAreNumbered
    <3> QED  BY <3>2, <3>4, <3>5 DEF RankingsInv, LastIsForChoice, PanelPageExists
  <2> QED  BY <2>2, <2>3
<1> QED  BY <1>1, <1>2

\* The panel turns to pages that exist.
LEMMA PanelKeeps ==
    ASSUME RankingsInv, OperatePanel
    PROVE  RankingsInv'
<1>1. shown \in Panels /\ requests = {} /\ UNCHANGED <<ladder, asked, requests, inOrder>>
  BY OnePage DEF OperatePanel, OnPanel, RankingsInv
<1>2. /\ shown.page \in Nat /\ shown.entries \in Seq(Tiers) /\ Entries \in Seq(Tiers)
      /\ Len(Entries) \in Nat
  BY <1>1, FilteredType DEF Panels, Entries
<1>3. Limit \in Nat /\ Limit > 0  BY RankingsAssumption
<1>4. CASE \E tier \in Filters : shown' = HandleTierChange(shown, tier)
  <2> PICK tier \in Filters : shown' = [shown EXCEPT !.tier = tier, !.page = 0]
    BY <1>4 DEF HandleTierChange
  <2>1. shown' \in Panels /\ shown' \notin Leaderboards /\ shown'.page = 0
    BY <1>1 DEF Panels, Leaderboards
  <2> QED
    BY <1>1, <2>1 DEF RankingsInv, RankingsTypes, RequestsAreNumbered, LastIsForChoice,
       PanelPageExists
<1>5. ASSUME NEW k \in Nat, k * Limit < Len(Entries), shown' = [shown EXCEPT !.page = k]
      PROVE  RankingsInv'
  <2>1. shown' \in Panels /\ shown' \notin Leaderboards /\ shown'.page = k
        /\ shown'.entries = shown.entries /\ shown'.tier = shown.tier
    BY <1>1, <1>5 DEF Panels, Leaderboards
  <2>2. Entries' = Entries  BY <2>1 DEF Entries
  <2> QED
    BY <1>1, <1>5, <2>1, <2>2 DEF RankingsInv, RankingsTypes, RequestsAreNumbered,
       LastIsForChoice, PanelPageExists
<1>6. CASE Footer.back /\ shown' = HandlePrev
  <2>0. shown.page > 0  BY <1>6 DEF Footer
  <2>1. shown.page > 0 /\ shown.page * Limit < Len(Entries)
    BY <1>1, <1>2, <2>0 DEF RankingsInv, PanelPageExists
  <2>2. PICK k \in Nat : shown.page = k + 1 /\ k = shown.page - 1  BY <1>2, <2>1
  <2>3. k * Limit \in Nat /\ shown.page * Limit = k * Limit + Limit  BY <1>3, <2>2
  <2>4. shown' = [shown EXCEPT !.page = k]  BY <1>1, <1>6, <2>1, <2>2 DEF HandlePrev, Panels
  <2> QED  BY <1>2, <1>3, <1>5, <2>1, <2>3, <2>4
<1>7. CASE Footer.on /\ shown' = HandleNext
  <2>1. PICK k \in Nat : k = shown.page + 1  BY <1>2
  <2>2. k < Pages(Len(Entries))  BY <1>7, <2>1 DEF Footer
  <2>3. k * Limit < Len(Entries)  BY <1>2, <2>2, PagesCount
  <2>4. shown' = [shown EXCEPT !.page = k]  BY <1>1, <1>7, <2>1, <2>2 DEF HandleNext, Panels
  <2> QED  BY <1>5, <2>3, <2>4
<1> QED  BY <1>4, <1>6, <1>7 DEF OperatePanel

LEMMA PromoteKeeps ==
    ASSUME RankingsInv, Promote
    PROVE  RankingsInv'
<1>1. UNCHANGED <<shown, asked, requests, inOrder>>  BY DEF Promote
<1>2. ladder' \in Seq(Tiers)
  <2> PICK i \in DOMAIN ladder, t \in Tiers : ladder' = [ladder EXCEPT ![i] = t]
    BY DEF Promote
  <2>1. ladder \in Seq(Tiers)  BY DEF RankingsInv, RankingsTypes
  <2> QED  BY <2>1
<1> QED
  BY <1>1, <1>2 DEF RankingsInv, RankingsTypes, RequestsAreNumbered, LastIsForChoice,
     PanelPageExists, Entries

LEMMA RankingsStart ==
    ASSUME RankingsInit
    PROVE  RankingsInv
<1>1. ladder \in Seq(Tiers) /\ asked \in Nat /\ All \in Filters
  BY RankingsAssumption DEF RankingsInit, Filters
<1>2. CASE shown = Rankings /\ asked = 1 /\ requests = {[id |-> 1, of |-> All, offset |-> 0]}
  <2>1. shown \in Leaderboards /\ shown \notin Panels /\ shown.filter = All /\ shown.offset = 0
    BY <1>1, <1>2 DEF Rankings, Leaderboards, Panels
  <2>2. RankingsTypes  BY <1>1, <1>2, <2>1 DEF RankingsTypes
  <2>3. RequestsAreNumbered  BY <1>2 DEF RequestsAreNumbered
  <2>4. LastIsForChoice  BY <1>2, <2>1 DEF LastIsForChoice
  <2> QED  BY <2>1, <2>2, <2>3, <2>4 DEF RankingsInv, PanelPageExists
<1>3. CASE /\ shown = [at |-> "panel", entries |-> ladder, tier |-> All, page |-> 0]
           /\ asked = 0 /\ requests = {}
  <2>1. shown \in Panels /\ shown \notin Leaderboards /\ shown.page = 0
    BY <1>1, <1>3 DEF Leaderboards, Panels
  <2> QED
    BY <1>1, <1>3, <2>1 DEF RankingsInv, RankingsTypes, RequestsAreNumbered, LastIsForChoice,
       PanelPageExists
<1> QED  BY <1>2, <1>3 DEF RankingsInit

LEMMA RankingsStep ==
    ASSUME RankingsInv, [RankingsNext]_rankings
    PROVE  RankingsInv'
<1>1. CASE Refresh \/ Paginate \/ \E f \in Filters : HandleFilterChange(f)
  BY <1>1, ChoiceKeeps
<1>2. CASE RankingsAnswered  BY <1>2, AnswerKeeps
<1>3. CASE SessionArrives \/ ProfileAnswered  BY <1>3, ProfileKeeps
<1>4. CASE OperatePanel  BY <1>4, PanelKeeps
<1>5. CASE OpenProfile \/ BackToRankings  BY <1>5, OpeningKeeps
<1>6. CASE Promote  BY <1>6, PromoteKeeps
<1>7. CASE UNCHANGED rankings
  BY <1>7 DEF rankings, RankingsInv, RankingsTypes, RequestsAreNumbered, LastIsForChoice,
     PanelPageExists, Entries
<1> QED  BY <1>1, <1>2, <1>3, <1>4, <1>5, <1>6, <1>7 DEF RankingsNext

\* Every state of the ranking pages is one of the invariant's.
THEOREM RankingsInvariance == RankingsSpec => []RankingsInv
<1>1. RankingsInit => RankingsInv  BY RankingsStart
<1>2. RankingsInv /\ [RankingsNext]_rankings => RankingsInv'  BY RankingsStep
<1> QED  BY <1>1, <1>2, PTL DEF RankingsSpec

LEMMA PanelShowsPage ==
    ASSUME RankingsInv, shown \in Panels
    PROVE  /\ PagedEntries = <<>> => Entries = <<>>
           /\ Entries # <<>> => Len(PagedEntries) = Footer.to - Footer.from + 1
           /\ Footer.on <=> Footer.to < Len(Entries)
<1> PICK E \in Seq(Tiers) : E = Entries
  BY FilteredType DEF Panels, Entries
<1> PICK k \in Nat : k = shown.page  BY DEF Panels
<1>1. Limit \in Nat /\ Limit > 0 /\ Len(E) \in Nat /\ k * Limit \in Nat /\ (k + 1) * Limit \in Nat
      /\ (k + 1) * Limit = k * Limit + Limit /\ k + 1 \in Nat
  BY RankingsAssumption
<1>0. PICK o \in Nat, m \in Nat : o = k * Limit /\ m = (k + 1) * Limit /\ m = o + Limit  BY <1>1
<1>2. k = 0 \/ o < Len(E)  BY <1>0 DEF RankingsInv, PanelPageExists
<1>3. /\ Footer.from = o + 1 /\ Footer.to = IF m < Len(E) THEN m ELSE Len(E)
      /\ Footer.on = (k + 1 < Pages(Len(E)))
  BY <1>0 DEF Footer
<1>4. Footer.on = (m < Len(E))
  <2>1. (k + 1 < Pages(Len(E))) = ((k + 1) * Limit < Len(E))  BY <1>1, PagesCount
  <2> QED  BY <1>3, <1>0, <2>1
<1>5. Footer.on <=> Footer.to < Len(E)
  <2>1. CASE m < Len(E)  BY <1>1, <1>3, <1>4, <2>1
  <2>2. CASE ~(m < Len(E))
    <3>1. Footer.to = Len(E) /\ ~Footer.on  BY <1>3, <1>4, <2>2
    <3> QED  BY <1>1, <3>1
  <2> QED  BY <2>1, <2>2
<1>6. ASSUME E # <<>>
      PROVE  PagedEntries # <<>> /\ Len(PagedEntries) = Footer.to - Footer.from + 1
  <2>1. Len(E) > 0  BY <1>1, <1>6
  <2>2. 0 * Limit = 0  BY <1>1
  <2>3. o < Len(E)  BY <1>2, <1>0, <2>1, <2>2
  <2>0. PICK to : to = IF o + Limit < Len(E) THEN o + Limit ELSE Len(E)  OBVIOUS
  <2>4. /\ PageOf(E, o) \in Seq(Tiers) /\ Len(PageOf(E, o)) = to - o /\ to \in o + 1 .. Len(E)
    BY <2>3, <2>0, PageProperties
  <2>5. PagedEntries = PageOf(E, o) /\ Footer.to = to
    BY <1>3, <1>0, <2>0 DEF PagedEntries
  <2>6. to - o > 0 /\ to - o = to - (o + 1) + 1  BY <1>1, <2>4
  <2>7. PagedEntries # <<>>
    <3>1. Len(<<>>) = 0  OBVIOUS
    <3> QED  BY <2>4, <2>5, <2>6, <3>1
  <2> QED  BY <1>3, <2>4, <2>5, <2>6, <2>7
<1> QED  BY <1>5, <1>6

\* When the requests of the leaderboard were answered in their order, it shows
\* the tab and the page that are chosen; the panel's page exists, its footer
\* counts what is above it, and its pages have every entry: RankingsClient and
\* EloRankingPanel, for every ladder, page size and number of requests.
THEOREM ChoiceIsShown == RankingsSpec => []ChosenPageIsShown
<1>1. RankingsInv => ChosenPageIsShown
  <2> SUFFICES ASSUME RankingsInv  PROVE ChosenPageIsShown  OBVIOUS
  <2>1. ASSUME shown.at = "rankings", requests = {}, inOrder
        PROVE  /\ shown.response.of = shown.filter /\ shown.response.offset = shown.offset
               /\ Body \notin {"wheel", "blank"}
    <3>1. /\ shown.response # Nothing /\ ~shown.loading
          /\ shown.response.of = shown.filter /\ shown.response.offset = shown.offset
      BY <2>1, OnePage DEF RankingsInv, LastIsForChoice
    <3> QED  BY <3>1 DEF Body
  <2>2. CASE OnPanel
    <3>1. shown \in Panels  BY <2>2, OnePage DEF OnPanel, RankingsInv
    <3>2. Entries \in Seq(Tiers)  BY <3>1, FilteredType DEF Panels, Entries
    <3> QED  BY <2>1, <2>2, <3>1, <3>2, PanelShowsPage, PagesHaveAll DEF ChosenPageIsShown
  <2>3. CASE ~OnPanel  BY <2>1, <2>3 DEF ChosenPageIsShown
  <2> QED  BY <2>2, <2>3
<1> QED  BY <1>1, RankingsInvariance, PTL

-----------------------------------------------------------------------------
(* Practice: the score of a board. *)

\* A set of numbers with a bound has a largest one.
LEMMA LargestOf ==
    ASSUME NEW s \in SUBSET Nat, s # {}, NEW b \in Nat, \A x \in s : x <= b
    PROVE  Max(s) \in s /\ \A x \in s : x <= Max(s)
<1> DEFINE bounds == {k \in Nat : \A x \in s : x <= k}
<1>1. bounds # {} /\ bounds \in SUBSET Nat  OBVIOUS
<1>2. PICK k \in bounds : \A j \in bounds : k <= j  BY <1>1, SmallestOf
<1>3. k \in Nat /\ \A x \in s : x <= k  BY <1>2
<1>4. k \in s
  <2> SUFFICES ASSUME k \notin s  PROVE FALSE  OBVIOUS
  <2>1. \A x \in s : x < k /\ x \in Nat  BY <1>3
  <2>2. k > 0 /\ k - 1 \in Nat /\ ~(k <= k - 1)
    <3> PICK x \in s : TRUE  OBVIOUS
    <3>1. x < k /\ x \in Nat  BY <2>1
    <3> QED  BY <1>3, <3>1
  <2>3. k - 1 \in bounds  BY <2>1, <2>2
  <2> QED  BY <1>2, <2>2, <2>3
<1> QED  BY <1>3, <1>4 DEF Max

\* What a fold that adds computes, as a function of the set of the places.
AddsUp(f, v, n) ==
    \A s \in SUBSET (1 .. n) : f[s] = IF s = {} THEN 0 ELSE f[s \ {Max(s)}] + v[Max(s)]

LEMMA AddStep ==
    ASSUME NEW n \in Nat, NEW v, NEW f, AddsUp(f, v, n)
    PROVE  \E g : /\ g = [s \in SUBSET (1 .. n + 1) |-> g[s]]
                  /\ AddsUp(g, v, n + 1)
<1> DEFINE g == [s \in SUBSET (1 .. n + 1) |->
                    IF n + 1 \in s THEN f[s \ {n + 1}] + v[n + 1] ELSE f[s]]
<1>1. ASSUME NEW s \in SUBSET (1 .. n + 1)
      PROVE  g[s] = IF s = {} THEN 0 ELSE g[s \ {Max(s)}] + v[Max(s)]
  <2>1. CASE n + 1 \in s
    <3>1. s \in SUBSET Nat /\ n + 1 \in Nat /\ \A x \in s : x <= n + 1  OBVIOUS
    <3>2. Max(s) \in s /\ \A x \in s : x <= Max(s)  BY <2>1, <3>1, LargestOf
    <3>3. Max(s) = n + 1
      <4>1. \A a, b \in Nat : a <= b /\ b <= a => a = b  OBVIOUS
      <4> QED  BY <2>1, <3>1, <3>2, <4>1
    <3>4. s \ {n + 1} \in SUBSET (1 .. n + 1) /\ n + 1 \notin s \ {n + 1}  OBVIOUS
    <3>5. g[s \ {n + 1}] = f[s \ {n + 1}]  BY <3>4
    <3> QED  BY <2>1, <3>3, <3>5
  <2>2. CASE n + 1 \notin s
    <3>1. s \in SUBSET (1 .. n)
      <4>1. \A x \in 1 .. n + 1 : x # n + 1 => x \in 1 .. n  OBVIOUS
      <4> QED  BY <2>2, <4>1
    <3>2. g[s] = f[s] /\ g[s \ {Max(s)}] = f[s \ {Max(s)}]  BY <2>2
    <3> QED  BY <3>1, <3>2 DEF AddsUp
  <2> QED  BY <2>1, <2>2
<1>2. g = [s \in SUBSET (1 .. n + 1) |-> g[s]]  OBVIOUS
<1> HIDE DEF g
<1>3. AddsUp(g, v, n + 1)  BY <1>1 DEF AddsUp
<1> QED  BY <1>2, <1>3

LEMMA AddExists ==
    ASSUME NEW n \in Nat, NEW v
    PROVE  \E f : f = [s \in SUBSET (1 .. n) |-> f[s]] /\ AddsUp(f, v, n)
<1> DEFINE bad == {k \in Nat : ~ \E f : f = [s \in SUBSET (1 .. k) |-> f[s]] /\ AddsUp(f, v, k)}
<1> SUFFICES ASSUME bad # {}  PROVE FALSE  OBVIOUS
<1>1. PICK k \in bad : \A j \in bad : k <= j  BY SmallestOf
<1>2. CASE k = 0
  <2> DEFINE e == [s \in SUBSET (1 .. 0) |-> 0]
  <2>1. 1 .. 0 = {}  OBVIOUS
  <2>2. \A s \in SUBSET (1 .. 0) : s = {} /\ e[s] = 0  BY <2>1
  <2>3. e = [s \in SUBSET (1 .. 0) |-> e[s]]  OBVIOUS
  <2> HIDE DEF e
  <2>4. AddsUp(e, v, 0)  BY <2>2 DEF AddsUp
  <2> QED  BY <1>1, <1>2, <2>3, <2>4
<1>3. CASE k # 0
  <2>1. k - 1 \in Nat /\ ~(k <= k - 1) /\ (k - 1) + 1 = k  BY <1>1, <1>3
  <2>2. PICK f : AddsUp(f, v, k - 1)  BY <1>1, <2>1
  <2>3. \E g : g = [s \in SUBSET (1 .. (k - 1) + 1) |-> g[s]] /\ AddsUp(g, v, (k - 1) + 1)
    BY <2>1, <2>2, AddStep
  <2> QED  BY <1>1, <2>1, <2>3
<1> QED  BY <1>2, <1>3

\* Adding up numbers that are not zero makes one that is not, unless there are
\* none to add.
LEMMA AddsToSome ==
    ASSUME NEW n \in Nat, NEW v, \A i \in 1 .. n : v[i] \in Nat \ {0},
           NEW f, AddsUp(f, v, n)
    PROVE  f[1 .. n] \in Nat /\ (n # 0 => f[1 .. n] > 0)
<1> DEFINE bad == {k \in 0 .. n : ~ (f[1 .. k] \in Nat /\ (k # 0 => f[1 .. k] > 0))}
<1> SUFFICES ASSUME bad # {}  PROVE FALSE  OBVIOUS
<1>1. bad \in SUBSET Nat  OBVIOUS
<1>2. PICK k \in bad : \A j \in bad : k <= j  BY <1>1, SmallestOf
<1>3. k \in 0 .. n /\ 1 .. k \in SUBSET (1 .. n)  BY <1>2
<1>4. f[1 .. k] = IF 1 .. k = {} THEN 0 ELSE f[(1 .. k) \ {Max(1 .. k)}] + v[Max(1 .. k)]
  BY <1>3 DEF AddsUp
<1>5. CASE k = 0
  <2>1. 1 .. k = {}  BY <1>5
  <2> QED  BY <1>2, <1>4, <1>5, <2>1
<1>6. CASE k # 0
  <2>1. k \in 1 .. k /\ k \in 1 .. n /\ 1 .. k \in SUBSET Nat /\ \A x \in 1 .. k : x <= k
    BY <1>3, <1>6
  <2>2. Max(1 .. k) \in 1 .. k /\ \A x \in 1 .. k : x <= Max(1 .. k)
    BY <2>1, LargestOf
  <2>3. Max(1 .. k) = k
    <3>1. \A a, b \in Nat : a <= b /\ b <= a => a = b  OBVIOUS
    <3> QED  BY <2>1, <2>2, <3>1
  <2>4. (1 .. k) \ {k} = 1 .. k - 1 /\ k - 1 \in 0 .. n /\ ~(k <= k - 1)  BY <1>3, <1>6
  <2>5. f[1 .. k - 1] \in Nat  BY <1>2, <2>4
  <2>6. f[1 .. k] = f[1 .. k - 1] + v[k] /\ v[k] \in Nat \ {0}  BY <1>4, <2>1, <2>3, <2>4
  <2> QED  BY <1>2, <2>5, <2>6
<1> QED  BY <1>5, <1>6

TilesScore(ts) == FoldLeft(LAMBDA b, t : b + ScoreTile(t), 0, ts)

\* The tiles of a group ...
LEMMA TilesScoreSome ==
    ASSUME NEW T, \A t \in T : ScoreTile(t) \in Nat \ {0}, NEW ts \in Seq(T)
    PROVE  TilesScore(ts) \in Nat /\ (ts # <<>> => TilesScore(ts) > 0)
<1> DEFINE D == 1 .. Len(ts)
           v == [i \in D |-> ScoreTile(ts[i])]
           Eq(f) == f = [s \in SUBSET D |-> IF s = {} THEN 0
                                            ELSE f[s \ {Max(s)}] + ScoreTile(ts[Max(s)])]
           f == CHOOSE f : Eq(f)
<1>1. Len(ts) \in Nat /\ DOMAIN ts = D /\ \A i \in D : v[i] = ScoreTile(ts[i]) /\ v[i] \in Nat \ {0}
  OBVIOUS
<1>2. TilesScore(ts) = f[D]
  BY <1>1 DEF TilesScore, FoldLeft, MapThenFoldSet
<1>3. \A s \in SUBSET D : s # {} => Max(s) \in D
  <2> SUFFICES ASSUME NEW s \in SUBSET D, s # {}  PROVE Max(s) \in D  OBVIOUS
  <2>1. s \in SUBSET Nat /\ \A x \in s : x <= Len(ts)  BY <1>1
  <2>2. Max(s) \in s  BY <1>1, <2>1, LargestOf
  <2> QED  BY <2>2
<1>4. \E g : Eq(g)
  <2>1. PICK g : g = [s \in SUBSET D |-> g[s]] /\ AddsUp(g, v, Len(ts))  BY <1>1, AddExists
  <2>2. \A s \in SUBSET D : g[s] = IF s = {} THEN 0 ELSE g[s \ {Max(s)}] + ScoreTile(ts[Max(s)])
    BY <1>1, <1>3, <2>1 DEF AddsUp
  <2> QED  BY <2>1, <2>2
<1>5. Eq(f)  BY <1>4
<1> HIDE DEF f
<1>6. AddsUp(f, v, Len(ts))  BY <1>1, <1>3, <1>5 DEF AddsUp
<1>7. f[D] \in Nat /\ (Len(ts) # 0 => f[D] > 0)  BY <1>1, <1>6, AddsToSome
<1> QED  BY <1>2, <1>7

GroupsOver(I, T) == [id : I, tiles : Seq(T)]

\* ... and the groups of a board.
LEMMA BoardScores ==
    ASSUME NEW T, \A t \in T : ScoreTile(t) \in Nat \ {0},
           NEW I, NEW gs \in Seq(GroupsOver(I, T)), gs # <<>>,
           \A i \in 1 .. Len(gs) : gs[i].tiles # <<>>
    PROVE  CalculateScore(gs) \in Nat \ {0}
<1> DEFINE D == 1 .. Len(gs)
           ss == [i \in D |-> gs[i].tiles]
           v == [i \in D |-> TilesScore(ss[i])]
           Eq(f) == f = [s \in SUBSET D |-> IF s = {} THEN 0
                                            ELSE f[s \ {Max(s)}] + TilesScore(ss[Max(s)])]
           f == CHOOSE f : Eq(f)
<1>1. Len(gs) \in Nat /\ Len(gs) # 0 /\ DOMAIN ss = D  OBVIOUS
<1>2. \A i \in D : ss[i] \in Seq(T) /\ ss[i] # <<>>
  <2>1. \A i \in D : gs[i] \in GroupsOver(I, T)  OBVIOUS
  <2> QED  BY <2>1 DEF GroupsOver
<1>3. \A i \in D : v[i] = TilesScore(ss[i]) /\ v[i] \in Nat \ {0}
  <2> SUFFICES ASSUME NEW i \in D  PROVE v[i] = TilesScore(ss[i]) /\ v[i] \in Nat \ {0}
    OBVIOUS
  <2>1. TilesScore(ss[i]) \in Nat /\ TilesScore(ss[i]) > 0  BY <1>2, TilesScoreSome
  <2>2. v[i] = TilesScore(ss[i])  OBVIOUS
  <2> HIDE DEF v, ss
  <2> QED  BY <2>1, <2>2
<1>4. CalculateScore(gs) = f[D]
  BY <1>1 DEF CalculateScore, ComputePendingScore, TilesScore, FoldLeft, MapThenFoldSet
<1> HIDE DEF v, ss
<1>5. \A s \in SUBSET D : s # {} => Max(s) \in D
  <2> SUFFICES ASSUME NEW s \in SUBSET D, s # {}  PROVE Max(s) \in D  OBVIOUS
  <2>1. s \in SUBSET Nat /\ \A x \in s : x <= Len(gs)  BY <1>1
  <2>2. Max(s) \in s  BY <1>1, <2>1, LargestOf
  <2> QED  BY <2>2
<1>6. \E g : Eq(g)
  <2>1. PICK g : g = [s \in SUBSET D |-> g[s]] /\ AddsUp(g, v, Len(gs))  BY <1>1, AddExists
  <2>2. \A s \in SUBSET D : g[s] = IF s = {} THEN 0 ELSE g[s \ {Max(s)}] + TilesScore(ss[Max(s)])
    BY <1>1, <1>3, <1>5, <2>1 DEF AddsUp
  <2> QED  BY <2>1, <2>2
<1>7. Eq(f)  BY <1>6
<1> HIDE DEF f
<1>8. AddsUp(f, v, Len(gs))  BY <1>1, <1>3, <1>5, <1>7 DEF AddsUp
<1>9. f[D] \in Nat /\ (Len(gs) # 0 => f[D] > 0)  BY <1>1, <1>3, <1>8, AddsToSome
<1> QED  BY <1>1, <1>4, <1>9

-----------------------------------------------------------------------------
(* Practice: the invariant. *)

StageTiles == IF stage = 0 THEN {} ELSE Config.hand

\* The rack and the board hold tiles of the stage, and every one of them; a
\* board that nothing was dropped on is empty.
TilesAreOut ==
    /\ stage \in 0 .. Len(Stages) /\ (cleared => stage # 0) /\ dropped \in Nat
    /\ IsABag(hand) /\ BagToSet(hand) \subseteq StageTiles
    /\ \E I : groups \in Seq(GroupsOver(I, StageTiles))
    /\ \A t \in StageTiles : BagIn(t, hand) \/ OnBoard(t)
    /\ dropped = 0 => groups = <<>>

ScoresAreOfCompleted ==
    /\ best \in [STAGE_NUMBERS -> Nat]
    /\ \A n \in STAGE_NUMBERS : n \in completed <=> best[n] > 0

PracticeInv == TilesAreOut /\ ScoresAreOfCompleted

LEMMA StagesFacts ==
    /\ Len(Stages) \in Nat
    /\ \A n \in STAGE_NUMBERS : \A t \in Stages[n].hand : ScoreTile(t) \in Nat \ {0}
<1>1. Len(Stages) \in Nat  BY PracticeAssumption
<1>2. ASSUME NEW n \in STAGE_NUMBERS, NEW t \in Stages[n].hand
      PROVE  ScoreTile(t) \in Nat \ {0}
  <2>1. IsJoker(t) \/ t[2] \in 1 .. MAX_NUMBER
    BY <1>2, PracticeAssumption DEF STAGE_NUMBERS
  <2> QED  BY <2>1 DEF ScoreTile, MAX_NUMBER
<1> QED  BY <1>1, <1>2

\* The bag of a set, and a bag with one tile less or more.
LEMMA BagOfSet ==
    ASSUME NEW S
    PROVE  IsABag(SetToBag(S)) /\ BagToSet(SetToBag(S)) = S
BY DEF IsABag, BagToSet, SetToBag

LEMMA BagLess ==
    ASSUME NEW B, IsABag(B), NEW t
    PROVE  LET M == B (-) SetToBag({t})
           IN  IsABag(M) /\ BagToSet(M) \subseteq BagToSet(B) /\ BagToSet(B) \ {t} \subseteq BagToSet(M)
<1>1. PICK R : R = [e \in DOMAIN B |-> IF e = t THEN B[e] - 1 ELSE B[e]]  OBVIOUS
<1>2. PICK M : M = [e \in {d \in DOMAIN R : R[d] > 0} |-> R[e]]  OBVIOUS
<1>3. B (-) SetToBag({t}) = M
  <2>1. SetToBag({t}) = [e \in {t} |-> 1]  BY DEF SetToBag
  <2>2. R = [e \in DOMAIN B |-> IF e \in DOMAIN SetToBag({t}) THEN B[e] - SetToBag({t})[e]
                                ELSE B[e]]
    BY <1>1, <2>1
  <2> QED  BY <1>2, <2>2 DEF (-)
<1>4. \A e \in DOMAIN B : B[e] \in Nat /\ B[e] > 0  BY DEF IsABag
<1>5. \A e \in DOMAIN B : R[e] \in Nat  BY <1>1, <1>4
<1>6. \A e : e \in DOMAIN M <=> e \in DOMAIN B /\ (e = t => B[e] > 1)  BY <1>1, <1>2, <1>4
<1>7. IsABag(M)
  <2>1. \A e \in DOMAIN M : M[e] \in {n \in Nat : n > 0}  BY <1>1, <1>2, <1>5
  <2>2. M = [e \in DOMAIN M |-> M[e]]  BY <1>2
  <2> QED  BY <2>1, <2>2 DEF IsABag
<1> QED  BY <1>3, <1>6, <1>7 DEF BagToSet

LEMMA BagMore ==
    ASSUME NEW B, IsABag(B), NEW t
    PROVE  IsABag(B (+) SetToBag({t})) /\ BagToSet(B (+) SetToBag({t})) = BagToSet(B) \cup {t}
<1>1. PICK M : M = [e \in DOMAIN B \cup {t} |->
                      (IF e \in DOMAIN B THEN B[e] ELSE 0) + (IF e = t THEN 1 ELSE 0)]
  OBVIOUS
<1>2. B (+) SetToBag({t}) = M
  <2>1. SetToBag({t}) = [e \in {t} |-> 1]  BY DEF SetToBag
  <2>2. DOMAIN SetToBag({t}) = {t} /\ SetToBag({t})[t] = 1  BY <2>1
  <2>3. M = [e \in DOMAIN B \cup DOMAIN SetToBag({t}) |->
               (IF e \in DOMAIN B THEN B[e] ELSE 0)
                 + (IF e \in DOMAIN SetToBag({t}) THEN SetToBag({t})[e] ELSE 0)]
    BY <1>1, <2>2
  <2> QED  BY <2>3 DEF (+)
<1>3. \A e \in DOMAIN B : B[e] \in Nat /\ B[e] > 0  BY DEF IsABag
<1>4. DOMAIN M = DOMAIN B \cup {t}  BY <1>1
<1>5. IsABag(M)
  <2>1. \A e \in DOMAIN M : M[e] \in {n \in Nat : n > 0}  BY <1>1, <1>3, <1>4
  <2>2. M = [e \in DOMAIN M |-> M[e]]  BY <1>1
  <2> QED  BY <2>1, <2>2 DEF IsABag
<1> QED  BY <1>2, <1>4, <1>5 DEF BagToSet

\* A board that is mounted, or reset, has the stage's hand.
LEMMA MountKeeps ==
    ASSUME PracticeInv, NEW n \in 0 .. Len(Stages), Mount(n)
    PROVE  PracticeInv' /\ UNCHANGED progress
<1>1. stage' = n /\ groups' = <<>> /\ cleared' = FALSE /\ dropped' = 0 /\ UNCHANGED progress
      /\ hand' = IF n = 0 THEN EmptyBag ELSE SetToBag(Stages[n].hand)
  BY DEF Mount
<1>2. IsABag(hand') /\ BagToSet(hand') = StageTiles'
  BY <1>1, BagOfSet DEF EmptyBag, StageTiles, Config
<1>3. \E I : groups' \in Seq(GroupsOver(I, StageTiles'))  BY <1>1
<1>4. TilesAreOut'  BY <1>1, <1>2, <1>3 DEF TilesAreOut, BagIn
<1>5. ScoresAreOfCompleted'  BY <1>1 DEF PracticeInv, ScoresAreOfCompleted, progress
<1> QED  BY <1>1, <1>4, <1>5 DEF PracticeInv

\* A drop: the tile is in the rack or on the board after it, and so is whatever
\* lay on the board before.
LEMMA DroppedKeeps ==
    ASSUME PracticeInv, stage # 0, UNCHANGED <<stage, cleared, progress>>, dropped' = dropped + 1,
           NEW t \in BagToSet(hand), IsABag(hand'), BagToSet(hand') \subseteq BagToSet(hand),
           BagToSet(hand) \ {t} \subseteq BagToSet(hand'),
           BagIn(t, hand') \/ OnBoard(t)', \A u : OnBoard(u) => u = t \/ OnBoard(u)',
           \E I : groups' \in Seq(GroupsOver(I, StageTiles))
    PROVE  PracticeInv' /\ UNCHANGED progress
<1>1. StageTiles' = StageTiles /\ stage \in 0 .. Len(Stages) /\ dropped \in Nat
      /\ BagToSet(hand) \subseteq StageTiles
      /\ \A u \in StageTiles : BagIn(u, hand) \/ OnBoard(u)
  BY DEF PracticeInv, TilesAreOut, StageTiles, Config
<1>2. ASSUME NEW u \in StageTiles  PROVE BagIn(u, hand') \/ OnBoard(u)'
  <2>1. CASE u = t  BY <2>1
  <2>2. CASE u # t  BY <1>1, <2>2 DEF BagIn
  <2> QED  BY <2>1, <2>2
<1>3. dropped' \in Nat /\ dropped' # 0  BY <1>1
<1>4. (cleared' => stage' # 0) /\ stage' \in 0 .. Len(Stages)  BY <1>1
<1>5. \A u \in StageTiles : (BagIn(u, hand) \/ OnBoard(u))'  BY <1>2
<1>6. TilesAreOut'  BY <1>1, <1>3, <1>4, <1>5 DEF TilesAreOut
<1>7. ScoresAreOfCompleted'  BY DEF PracticeInv, ScoresAreOfCompleted, progress
<1> QED  BY <1>6, <1>7 DEF PracticeInv

\* A tile goes behind those of a group.
LEMMA DropOnGroupKeeps ==
    ASSUME PracticeInv, stage # 0, NEW t \in BagToSet(hand), NEW i \in 1 .. Len(groups),
           Lay(t, Appended(i, t))
    PROVE  PracticeInv' /\ UNCHANGED progress
<1>1. groups' = Appended(i, t) /\ hand' = hand (-) SetToBag({t}) /\ dropped' = dropped + 1
      /\ UNCHANGED <<stage, cleared, progress>>
  BY DEF Lay
<1>2. PICK I : groups \in Seq(GroupsOver(I, StageTiles))  BY DEF PracticeInv, TilesAreOut
<1>3. IsABag(hand) /\ BagToSet(hand) \subseteq StageTiles  BY DEF PracticeInv, TilesAreOut
<1>4. IsABag(hand') /\ BagToSet(hand') \subseteq BagToSet(hand)
      /\ BagToSet(hand) \ {t} \subseteq BagToSet(hand')
  BY <1>1, <1>3, BagLess
<1>5. \A j \in 1 .. Len(groups) : groups[j] \in GroupsOver(I, StageTiles)  BY <1>2
<1>6. PICK q \in Seq(StageTiles) : q = groups[i].tiles  BY <1>5 DEF GroupsOver
<1>7. t \in StageTiles /\ Append(q, t) \in Seq(StageTiles)
      /\ ToSet(Append(q, t)) = ToSet(q) \cup {t}
  <2>1. t \in StageTiles  BY <1>3
  <2>2. /\ Append(q, t) \in Seq(StageTiles) /\ Len(Append(q, t)) = Len(q) + 1 /\ Len(q) \in Nat
        /\ \A j \in 1 .. Len(q) : Append(q, t)[j] = q[j]
        /\ Append(q, t)[Len(q) + 1] = t
    BY <2>1, AppendProperties
  <2>3. \A x : x \in ToSet(Append(q, t)) <=> x \in ToSet(q) \/ x = t
    <3>1. 1 .. Len(q) + 1 = 1 .. Len(q) \cup {Len(q) + 1}  BY <2>2
    <3> QED  BY <2>2, <3>1 DEF ToSet
  <2> QED  BY <2>1, <2>2, <2>3
<1>8. groups' = [groups EXCEPT ![i].tiles = Append(q, t)]
  BY <1>1, <1>2, <1>6 DEF Appended
<1>9. /\ groups' \in Seq(GroupsOver(I, StageTiles)) /\ Len(groups') = Len(groups)
      /\ groups'[i].tiles = Append(q, t)
      /\ \A j \in 1 .. Len(groups) : j # i => groups'[j] = groups[j]
  <2>1. PICK g : g = [groups[i] EXCEPT !.tiles = Append(q, t)]  OBVIOUS
  <2>2. g \in GroupsOver(I, StageTiles) /\ g.tiles = Append(q, t)
    BY <1>5, <1>7, <2>1 DEF GroupsOver
  <2>3. groups' = [groups EXCEPT ![i] = g]  BY <1>8, <2>1
  <2> QED  BY <1>2, <2>2, <2>3
<1>10. OnBoard(t)'
  <2>1. i \in 1 .. Len(groups') /\ t \in ToSet(groups'[i].tiles)  BY <1>7, <1>9
  <2> QED  BY <2>1 DEF OnBoard
<1>11. \A u : OnBoard(u) => OnBoard(u)'
  <2> SUFFICES ASSUME NEW u, NEW j \in 1 .. Len(groups), u \in ToSet(groups[j].tiles)
               PROVE  OnBoard(u)'
    BY DEF OnBoard
  <2>1. j \in 1 .. Len(groups') /\ u \in ToSet(groups'[j].tiles)
    <3>1. CASE j = i  BY <1>6, <1>7, <1>9, <3>1
    <3>2. CASE j # i  BY <1>9, <3>2
    <3> QED  BY <3>1, <3>2
  <2> QED  BY <2>1 DEF OnBoard
<1> QED  BY <1>1, <1>4, <1>9, <1>10, <1>11, DroppedKeeps

\* A tile opens a group of its own.
LEMMA NewGroupKeeps ==
    ASSUME PracticeInv, stage # 0, NEW t \in BagToSet(hand), NEW id,
           Lay(t, Append(groups, [id |-> id, tiles |-> <<t>>]))
    PROVE  PracticeInv' /\ UNCHANGED progress
<1>1. PICK g : g = [id |-> id, tiles |-> <<t>>]  OBVIOUS
<1>2. groups' = Append(groups, g) /\ hand' = hand (-) SetToBag({t}) /\ dropped' = dropped + 1
      /\ UNCHANGED <<stage, cleared, progress>>
  BY <1>1 DEF Lay
<1>3. IsABag(hand) /\ BagToSet(hand) \subseteq StageTiles  BY DEF PracticeInv, TilesAreOut
<1>4. IsABag(hand') /\ BagToSet(hand') \subseteq BagToSet(hand)
      /\ BagToSet(hand) \ {t} \subseteq BagToSet(hand')
  BY <1>2, <1>3, BagLess
<1>5. PICK I : groups \in Seq(GroupsOver(I, StageTiles))  BY DEF PracticeInv, TilesAreOut
<1>6. PICK J : J = I \cup {id}  OBVIOUS
<1>7. groups \in Seq(GroupsOver(J, StageTiles))
  <2>1. GroupsOver(I, StageTiles) \subseteq GroupsOver(J, StageTiles)  BY <1>6 DEF GroupsOver
  <2>2. \A j \in 1 .. Len(groups) : groups[j] \in GroupsOver(J, StageTiles)
    <3>1. \A j \in 1 .. Len(groups) : groups[j] \in GroupsOver(I, StageTiles)  BY <1>5
    <3> QED  BY <2>1, <3>1
  <2>3. Len(groups) \in Nat /\ groups = [j \in 1 .. Len(groups) |-> groups[j]]  BY <1>5
  <2> QED  BY <2>2, <2>3
<1>8. g \in GroupsOver(J, StageTiles) /\ g.tiles = <<t>>
  <2>1. t \in StageTiles /\ <<t>> \in Seq(StageTiles)  BY <1>3
  <2> QED  BY <1>1, <1>6, <2>1 DEF GroupsOver
<1>9. /\ groups' \in Seq(GroupsOver(J, StageTiles)) /\ Len(groups') = Len(groups) + 1
      /\ Len(groups) \in Nat /\ groups'[Len(groups) + 1] = g
      /\ \A j \in 1 .. Len(groups) : groups'[j] = groups[j]
  BY <1>2, <1>7, <1>8, AppendProperties
<1>10. OnBoard(t)'
  <2>1. Len(groups) + 1 \in 1 .. Len(groups') /\ t \in ToSet(groups'[Len(groups) + 1].tiles)
    BY <1>8, <1>9 DEF ToSet
  <2> QED  BY <2>1 DEF OnBoard
<1>11. \A u : OnBoard(u) => OnBoard(u)'
  <2>1. \A j \in 1 .. Len(groups) : j \in 1 .. Len(groups')  BY <1>9
  <2> QED  BY <1>9, <2>1 DEF OnBoard
<1> QED  BY <1>2, <1>4, <1>9, <1>10, <1>11, DroppedKeeps

\* A tile goes back: only the copies of that tile leave the board.
LEMMA DropOnRackKeeps ==
    ASSUME PracticeInv, stage # 0, NEW t \in BagToSet(hand), DropOnRack(t)
    PROVE  PracticeInv' /\ UNCHANGED progress
<1>1. groups' = Without(t) /\ hand' = hand (+) SetToBag({t}) /\ dropped' = dropped + 1
      /\ UNCHANGED <<stage, cleared, progress>>
  BY DEF DropOnRack
<1>2. IsABag(hand) /\ BagToSet(hand) \subseteq StageTiles  BY DEF PracticeInv, TilesAreOut
<1>3. IsABag(hand') /\ BagToSet(hand') = BagToSet(hand)
  <2>1. IsABag(hand') /\ BagToSet(hand') = BagToSet(hand) \cup {t}  BY <1>1, <1>2, BagMore
  <2> QED  BY <2>1
<1>4. PICK I : groups \in Seq(GroupsOver(I, StageTiles))  BY DEF PracticeInv, TilesAreOut
<1> DEFINE R == GroupsOver(I, StageTiles)
           left == [i \in 1 .. Len(groups) |->
                       [groups[i] EXCEPT !.tiles = Keeping(@, ToSet(@) \ {t})]]
<1>5. ASSUME NEW i \in 1 .. Len(groups)
      PROVE  /\ left[i] \in R
             /\ ToSet(left[i].tiles) = ToSet(groups[i].tiles) \ {t}
  <2>1. PICK q \in Seq(StageTiles) : q = groups[i].tiles
    <3>1. groups[i] \in R  BY <1>4
    <3> QED  BY <3>1 DEF GroupsOver
  <2>2. PICK k : k = Keeping(q, ToSet(q) \ {t})  OBVIOUS
  <2>3. k \in Seq(StageTiles) /\ ToSet(k) = ToSet(q) \ {t}  BY <2>2, KeepingProperties
  <2>4. left[i] = [groups[i] EXCEPT !.tiles = k]  BY <2>1, <2>2
  <2>5. groups[i] \in R  BY <1>4
  <2>6. left[i] \in R /\ left[i].tiles = k  BY <2>3, <2>4, <2>5 DEF GroupsOver
  <2> QED  BY <2>1, <2>3, <2>6
<1>6. left \in Seq(R) /\ Len(left) = Len(groups)
  <2>1. Len(groups) \in Nat /\ left = [i \in 1 .. Len(groups) |-> left[i]]  BY <1>4
  <2> HIDE DEF left
  <2> QED  BY <1>5, <2>1
<1>7. groups' = Keeping(left, {g \in ToSet(left) : g.tiles # <<>>})  BY <1>1 DEF Without
<1> HIDE DEF left, R
<1>8. groups' \in Seq(R) /\ ToSet(groups') = {g \in ToSet(left) : g.tiles # <<>>}
  BY <1>6, <1>7, KeepingProperties
<1>9. ASSUME NEW u, OnBoard(u), u # t  PROVE OnBoard(u)'
  <2>1. PICK i \in 1 .. Len(groups) : u \in ToSet(groups[i].tiles)  BY <1>9 DEF OnBoard
  <2>2. u \in ToSet(left[i].tiles)  BY <1>5, <1>9, <2>1
  <2>3. left[i].tiles # <<>>
    <3>1. ToSet(<<>>) = {}  BY DEF ToSet
    <3> QED  BY <2>2, <3>1
  <2>4. left[i] \in ToSet(left)  BY <1>6, <2>1 DEF ToSet
  <2>5. left[i] \in ToSet(groups')  BY <1>8, <2>3, <2>4
  <2>6. PICK j \in 1 .. Len(groups') : groups'[j] = left[i]  BY <1>8, <2>5 DEF ToSet
  <2> QED  BY <2>2, <2>6 DEF OnBoard
<1>10. \E K : groups' \in Seq(GroupsOver(K, StageTiles))  BY <1>8 DEF R
<1>11. BagIn(t, hand')  BY <1>3 DEF BagIn
<1> QED  BY <1>1, <1>3, <1>9, <1>10, <1>11, DroppedKeeps

LEMMA DropKeeps ==
    ASSUME PracticeInv, NEW t \in BagToSet(hand), Drop(t)
    PROVE  PracticeInv' /\ UNCHANGED progress
<1>1. stage # 0  BY DEF Drop, Playing
<1>2. ASSUME NEW i \in 1 .. Len(groups), DropOnGroup(t, i)
      PROVE  PracticeInv' /\ UNCHANGED progress
  BY <1>1, <1>2, DropOnGroupKeeps DEF DropOnGroup
<1>3. CASE DropOnBoard(t)
  <2>1. CASE groups # <<>> /\ Lay(t, Appended(Len(groups), t))
    <3>1. Len(groups) \in 1 .. Len(groups)  BY <2>1 DEF PracticeInv, TilesAreOut
    <3> QED  BY <1>1, <2>1, <3>1, DropOnGroupKeeps
  <2>2. CASE Lay(t, Append(groups, [id |-> NewGroupId, tiles |-> <<t>>]))
    BY <1>1, <2>2, NewGroupKeeps
  <2> QED  BY <1>3, <2>1, <2>2 DEF DropOnBoard
<1>4. CASE DropOnRack(t)  BY <1>1, <1>4, DropOnRackKeeps
<1> QED  BY <1>2, <1>3, <1>4 DEF Drop

LEMMA LargerOf ==
    ASSUME NEW a \in Nat, NEW b \in Nat
    PROVE  Max({a, b}) = IF a <= b THEN b ELSE a
<1>1. {a, b} \in SUBSET Nat /\ a + b \in Nat /\ \A x \in {a, b} : x <= a + b  OBVIOUS
<1>2. Max({a, b}) \in {a, b} /\ \A x \in {a, b} : x <= Max({a, b})  BY <1>1, LargestOf
<1> QED  BY <1>2

\* A stage is cleared: its score counts, and none is lost.
LEMMA ConfirmKeeps ==
    ASSUME PracticeInv, HandleConfirm
    PROVE  /\ PracticeInv' /\ completed \subseteq completed'
           /\ \A n \in STAGE_NUMBERS : best[n] <= best'[n]
<1>1. /\ stage # 0 /\ groups # <<>> /\ ValidateBoard(groups) = {} /\ cleared' = TRUE
      /\ best' = [best EXCEPT ![stage] = Max({@, CalculateScore(groups)})]
      /\ completed' = completed \cup {stage} /\ UNCHANGED <<stage, hand, groups, dropped>>
  BY DEF HandleConfirm, Playing, SaveBestScore, board
<1>2. TilesAreOut /\ best \in [STAGE_NUMBERS -> Nat]
      /\ \A n \in STAGE_NUMBERS : n \in completed <=> best[n] > 0
  BY DEF PracticeInv, ScoresAreOfCompleted
<1>3. stage \in STAGE_NUMBERS
  BY <1>1, <1>2, StagesFacts DEF TilesAreOut, STAGE_NUMBERS
<1>4. CalculateScore(groups) \in Nat \ {0}
  <2>1. PICK I : groups \in Seq(GroupsOver(I, StageTiles))  BY <1>2 DEF TilesAreOut
  <2>2. \A t \in StageTiles : ScoreTile(t) \in Nat \ {0}
    BY <1>1, <1>3, StagesFacts DEF StageTiles, Config
  <2>3. ASSUME NEW i \in 1 .. Len(groups)  PROVE groups[i].tiles # <<>>
    <3>1. groups[i] \in ToSet(groups)  BY <2>1 DEF ToSet
    <3>2. IsSet(groups[i].tiles)  BY <1>1, <3>1 DEF ValidateBoard
    <3>3. Len(groups[i].tiles) >= 3
      <4>1. \A n : n \in {3, 4} => n >= 3  OBVIOUS
      <4>2. ValidateGroup(groups[i].tiles) \/ ValidateRun(groups[i].tiles)  BY <3>2 DEF IsSet
      <4>3. CASE ValidateGroup(groups[i].tiles)
        <5>1. Len(groups[i].tiles) \in {3, 4}  BY <4>3, Zenon DEF ValidateGroup
        <5> QED  BY <4>1, <5>1
      <4>4. CASE ValidateRun(groups[i].tiles)  BY <4>4, Zenon DEF ValidateRun
      <4> QED  BY <4>2, <4>3, <4>4
    <3>4. Len(<<>>) = 0 /\ ~(0 >= 3)  OBVIOUS
    <3> QED  BY <3>3, <3>4
  <2> QED  BY <1>1, <2>1, <2>2, <2>3, BoardScores
<1>5. PICK b \in Nat : b = Max({best[stage], CalculateScore(groups)}) /\ b > 0 /\ best[stage] <= b
  BY <1>2, <1>3, <1>4, LargerOf
<1>6. best' = [best EXCEPT ![stage] = b]  BY <1>1, <1>5
<1>7. \A n \in STAGE_NUMBERS : best[n] <= best'[n]  BY <1>2, <1>3, <1>5, <1>6
<1>8. ScoresAreOfCompleted'
  <2>1. best' \in [STAGE_NUMBERS -> Nat]  BY <1>2, <1>6
  <2>2. \A n \in STAGE_NUMBERS : n \in completed' <=> best'[n] > 0
    BY <1>1, <1>2, <1>3, <1>5, <1>6
  <2> QED  BY <2>1, <2>2 DEF ScoresAreOfCompleted, STAGE_NUMBERS
<1>9. TilesAreOut'
  BY <1>1, <1>2 DEF TilesAreOut, StageTiles, Config, OnBoard
<1> QED  BY <1>1, <1>7, <1>8, <1>9 DEF PracticeInv

\* One step keeps the invariant and what localStorage holds.
ProgressGrows ==
    completed \subseteq completed' /\ \A n \in STAGE_NUMBERS : best[n] <= best'[n]

LEMMA PracticeStep ==
    ASSUME PracticeInv, [PracticeNext]_practice
    PROVE  PracticeInv' /\ ProgressGrows
<1>0. UNCHANGED progress => ProgressGrows
  BY DEF progress, ProgressGrows, PracticeInv, ScoresAreOfCompleted
<1>1. ASSUME NEW n \in 0 .. Len(Stages), Mount(n)  PROVE PracticeInv' /\ ProgressGrows
  BY <1>0, <1>1, MountKeeps
<1>2. \A n \in STAGE_NUMBERS : n \in 0 .. Len(Stages)  BY StagesFacts DEF STAGE_NUMBERS
<1>3. CASE \E n \in STAGE_NUMBERS : Select(n) \/ Visit(n)
  BY <1>1, <1>2, <1>3 DEF Select, Visit
<1>4. CASE BackToList
  <2>1. 0 \in 0 .. Len(Stages)  BY StagesFacts
  <2> QED  BY <1>1, <1>4, <2>1 DEF BackToList
<1>5. CASE \E t \in BagToSet(hand) : Drop(t)  BY <1>0, <1>5, DropKeeps
<1>6. CASE ToggleForceNew
  BY <1>0, <1>6 DEF ToggleForceNew, PracticeInv, TilesAreOut, ScoresAreOfCompleted, StageTiles,
     Config, OnBoard, progress
<1>7. CASE HandleReset
  <2>1. stage # 0 /\ hand' = SetToBag(Config.hand) /\ groups' = <<>> /\ dropped' = 0
        /\ UNCHANGED <<stage, cleared, progress>>
    BY <1>7 DEF HandleReset, Playing
  <2>2. StageTiles' = Config.hand  BY <2>1 DEF StageTiles, Config
  <2>3. IsABag(hand') /\ BagToSet(hand') = StageTiles'  BY <2>1, <2>2, BagOfSet
  <2>4. TilesAreOut'  BY <2>1, <2>3 DEF PracticeInv, TilesAreOut, BagIn
  <2> QED  BY <1>0, <2>1, <2>4 DEF PracticeInv, ScoresAreOfCompleted, progress
<1>8. CASE HandleConfirm  BY <1>8, ConfirmKeeps DEF ProgressGrows
<1>9. CASE HandleRetry
  <2>1. stage \in 0 .. Len(Stages)  BY DEF PracticeInv, TilesAreOut
  <2> QED  BY <1>1, <1>9, <2>1 DEF HandleRetry
<1>10. CASE HandleNextStage  BY <1>1, <1>2, <1>10 DEF HandleNextStage
<1>11. CASE HandleRestartAll
  <2>1. 1 \in 0 .. Len(Stages)
    BY <1>11, StagesFacts DEF HandleRestartAll, PracticeInv, TilesAreOut
  <2> QED  BY <1>1, <1>11, <2>1 DEF HandleRestartAll
<1>12. CASE UNCHANGED practice
  BY <1>0, <1>12 DEF practice, PracticeInv, TilesAreOut, ScoresAreOfCompleted, StageTiles,
     Config, OnBoard, progress
<1> QED
  BY <1>3, <1>4, <1>5, <1>6, <1>7, <1>8, <1>9, <1>10, <1>11, <1>12 DEF PracticeNext

LEMMA PracticeStart ==
    ASSUME PracticeInit
    PROVE  PracticeInv
<1>1. IsABag(hand) /\ BagToSet(hand) = {}  BY BagOfSet DEF PracticeInit, EmptyBag
<1>2. TilesAreOut
  <2>1. \E I : groups \in Seq(GroupsOver(I, StageTiles))  BY DEF PracticeInit
  <2> QED  BY <1>1, <2>1, StagesFacts DEF PracticeInit, TilesAreOut, StageTiles
<1>3. ScoresAreOfCompleted  BY DEF PracticeInit, ScoresAreOfCompleted
<1> QED  BY <1>2, <1>3 DEF PracticeInv

\* Every state of the practice mode is one of the invariant's.
THEOREM PracticeInvariance == PracticeSpec => []PracticeInv
<1>1. PracticeInit => PracticeInv  BY PracticeStart
<1>2. PracticeInv /\ [PracticeNext]_practice => PracticeInv'  BY PracticeStep
<1> QED  BY <1>1, <1>2, PTL DEF PracticeSpec

\* No tile of a stage is lost between the rack and the board, a reset leaves
\* none of them twice, and what localStorage holds only grows, with a score for
\* each stage that is completed and for no other: PracticeBoard and
\* StagePlayClient, for any stages and however much is dropped.
THEOREM PracticeKeeps == PracticeSpec => PracticeIsKept
<1>1. PracticeInv => StageTilesSurvive /\ ResetIsClean
  BY DEF PracticeInv, TilesAreOut, StageTiles, StageTilesSurvive, ResetIsClean, OnBoard
<1> DEFINE Kept == /\ completed \subseteq completed'
                   /\ \A n \in STAGE_NUMBERS :
                          best[n] <= best'[n] /\ (n \in completed' <=> best'[n] > 0)
<1>2. PracticeInv /\ [PracticeNext]_practice => [Kept]_progress
  <2> SUFFICES ASSUME PracticeInv, [PracticeNext]_practice  PROVE Kept  OBVIOUS
  <2>1. PracticeInv' /\ ProgressGrows  BY PracticeStep
  <2>2. \A n \in STAGE_NUMBERS : n \in completed' <=> best'[n] > 0
    BY <2>1 DEF PracticeInv, ScoresAreOfCompleted, STAGE_NUMBERS
  <2> QED  BY <2>1, <2>2 DEF ProgressGrows
<1> QED
  BY <1>1, <1>2, PracticeInvariance, PTL DEF PracticeSpec, PracticeIsKept, ProgressIsKept

=============================================================================
