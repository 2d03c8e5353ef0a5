-------------------------- MODULE ConnectionProofs --------------------------
(***************************************************************************)
(* Proofs about the connection of a player to a game: the browser's end    *)
(* (Browser) and the server's end (Session), for every value of their      *)
(* constants.                                                              *)
(*                                                                         *)
(* The browser comes first, for every bound on turns, losses, refusals and *)
(* messages on their way: whatever is lost and however often the           *)
(* connection breaks, a browser that missed nothing shows the turn that is *)
(* being played, and its draft starts from that turn's position.           *)
(*                                                                         *)
(* TURN_START carries a turn number and no position, GAME_STATE a position *)
(* and no turn number.  The view is right because what is on its way keeps *)
(* an order: the start of the turn comes right behind its position, and    *)
(* nothing of an earlier turn comes behind a message of this one.          *)
(*                                                                         *)
(* The session comes behind it, for any set of connections: the newest one *)
(* is the one that counts, and nobody is left without a grace timer.       *)
(***************************************************************************)
EXTENDS Browser, Session, SequenceTheorems, TLAPS

-----------------------------------------------------------------------------
(* The invariant. *)

\* The values the variables take.
Seats    == {Me, LLM}
Versions == Seq(Nat)
Places   == [table : Versions, rack : Versions]
Unknown  == <<>>

Messages ==
    [type : {"GAME_STATE"}, seat : Seats, at : Places]
    \cup [type : {"TURN_START"}, seat : Seats, turn : Nat]
    \cup [type : {"TURN_END"}, seat : Seats, turn : Nat, at : Places]
    \cup [type : {"AI_THINKING", "GAME_OVER", "ERROR", "RATE_LIMITED"}]

TypeInv ==
    /\ srv \in [current : Seats, turn : Nat, start : Places, now : Places, half : BOOLEAN,
                late : BOOLEAN, thinking : BOOLEAN, over : BOOLEAN]
    /\ conn \in {"none", "open", "served", "registered"}
    /\ missed \in Nat
    /\ inbox \in Seq(Messages)
    /\ view \in [seat : Seats \cup {Nobody}, turn : Nat, isAI : BOOLEAN,
                 at : Places \cup {Unknown}]
    /\ draft \in [base : Places \cup {Unknown}, placed : BOOLEAN]

\* What a browser asks for.
Requests == [type : {"PLACE_TILES", "DRAW_TILE", "RESET_TURN"}]
                \cup [type : {"CONFIRM_TURN"}, base : Places \cup {Unknown}]
Asked == outbox \in Seq(Requests)

\* A message that names a turn.
NamesTurn(m) == m.type \in {"TURN_START", "TURN_END"}

\* A message of the turn that is being played: the seat it names, the position
\* that turn began with, an LLM that thinks in an LLM's turn.
OfThisTurn(m) ==
    /\ m.type = "GAME_STATE" => /\ m.seat = srv.current
                                /\ ~srv.half => m.at = srv.start
    /\ NamesTurn(m) => m.turn = srv.turn
    /\ m.type = "AI_THINKING" => srv.current = LLM

\* No message and no view is ahead of the game; a message that names this turn
\* tells the truth about it.
NothingAhead ==
    /\ view.turn <= srv.turn
    /\ \A i \in 1 .. Len(inbox) :
          NamesTurn(inbox[i]) =>
              /\ inbox[i].turn <= srv.turn
              /\ inbox[i].turn = srv.turn =>
                     /\ inbox[i].seat = srv.current
                     /\ inbox[i].type = "TURN_END" => inbox[i].at = srv.start

\* Once the browser knows of this turn, or will when it reads message j, what
\* follows is of this turn.
Told(j) == \/ view.turn = srv.turn
           \/ \E i \in 1 .. j - 1 : NamesTurn(inbox[i]) /\ inbox[i].turn = srv.turn
InOrder == \A j \in 1 .. Len(inbox) : Told(j) => OfThisTurn(inbox[j])

\* The start of this turn comes right behind its position, by TURN_END or by
\* GAME_STATE, and right behind its TURN_END comes its start.
StartsAt(m) == /\ m.type \in {"GAME_STATE", "TURN_END"}
               /\ m.seat = srv.current
               /\ ~srv.half => m.at = srv.start
IsStart(m)  == m.type = "TURN_START" /\ m.turn = srv.turn
Paired ==
    \A i \in 1 .. Len(inbox) :
        /\ IsStart(inbox[i]) =>
               IF i = 1 THEN view.seat = srv.current /\ (~srv.half => view.at = srv.start)
               ELSE StartsAt(inbox[i - 1])
        /\ (inbox[i].type = "TURN_END" /\ inbox[i].turn = srv.turn) =>
               i < Len(inbox) /\ IsStart(inbox[i + 1])

\* A draft that belongs to this turn starts from its position.
BaseIsStart ==
    (view.seat = srv.current /\ view.turn = srv.turn /\ ~srv.half) => draft.base = srv.start

\* A connection that missed nothing knows this turn or is about to hear of it.
Shown == view.seat = srv.current /\ view.turn = srv.turn /\ view.isAI = (srv.current = LLM)
Coming == \E i \in 1 .. Len(inbox) : IsStart(inbox[i])
Informed ==
    (conn \in {"served", "registered"} /\ missed = 0 /\ ~srv.over /\ ~srv.late) =>
        Shown \/ Coming

Server ==
    /\ ~srv.half => srv.now = srv.start
    /\ conn \in {"none", "open"} => inbox = <<>>
    /\ status # "connected" => conn = "none"

BrowserInv ==
    TypeInv /\ Server /\ NothingAhead /\ InOrder /\ Paired /\ BaseIsStart /\ Informed

-----------------------------------------------------------------------------
(* Steps of the player and of the socket, by which nobody is told anything. *)

LEMMA Kinds ==
    ASSUME NEW m \in Messages
    PROVE  /\ NamesTurn(m) => m.turn \in Nat /\ m.seat \in Seats
           /\ m.type \in {"GAME_STATE", "TURN_END"} => m.seat \in Seats /\ m.at \in Places
           /\ m.type \in {"GAME_STATE", "TURN_START", "TURN_END", "AI_THINKING", "GAME_OVER",
                          "ERROR", "RATE_LIMITED"}
BY DEF Messages, NamesTurn

LEMMA Received ==
    ASSUME TypeInv
    PROVE  /\ Len(inbox) \in Nat /\ \A i \in 1 .. Len(inbox) : inbox[i] \in Messages
           /\ srv.turn \in Nat /\ srv.current \in Seats /\ srv.start \in Places
           /\ srv.now \in Places /\ view.turn \in Nat
BY DEF TypeInv

LEMMA NothingSaid ==
    ASSUME BrowserInv, UNCHANGED <<srv, missed, inbox, view>>,
           draft' \in [base : Places \cup {Unknown}, placed : BOOLEAN], draft'.base = draft.base,
           \/ conn' = conn
           \/ conn = "none" /\ conn' = "open"
           \/ conn = "served" /\ conn' = "registered",
           status' # "connected" => conn' = "none"
    PROVE  BrowserInv'
<1>1. TypeInv' /\ Server'  BY DEF BrowserInv, TypeInv, Server
<1>2. NothingAhead' /\ InOrder' /\ Paired'
  BY DEF BrowserInv, NothingAhead, InOrder, Paired, Told, OfThisTurn, NamesTurn, IsStart, StartsAt
<1>3. BaseIsStart'  BY DEF BrowserInv, BaseIsStart
<1>4. Informed'  BY DEF BrowserInv, Informed, Shown, Coming, IsStart
<1> QED  BY <1>1, <1>2, <1>3, <1>4 DEF BrowserInv

\* With the connection goes all that is on its way.
LEMMA ConnectionCloses ==
    ASSUME BrowserInv, UNCHANGED <<srv, view>>, conn' = "none", inbox' = <<>>, missed' = 0,
           draft' \in [base : Places \cup {Unknown}, placed : BOOLEAN], draft'.base = draft.base
    PROVE  BrowserInv'
<1>1. TypeInv' /\ Server'  BY DEF BrowserInv, TypeInv, Server
<1>2. NothingAhead' /\ InOrder' /\ Paired'
  BY DEF BrowserInv, NothingAhead, InOrder, Paired
<1>3. BaseIsStart'  BY DEF BrowserInv, BaseIsStart
<1>4. Informed'  BY DEF Informed
<1> QED  BY <1>1, <1>2, <1>3, <1>4 DEF BrowserInv

-----------------------------------------------------------------------------
(* Steps of the server. *)

\* The turn goes on: what changes of the game, and what is said.
GoesOn(s) ==
    /\ s \in [current : Seats, turn : Nat, start : Places, now : Places, half : BOOLEAN,
              late : BOOLEAN, thinking : BOOLEAN, over : BOOLEAN]
    /\ s.current = srv.current /\ s.turn = srv.turn /\ s.start = srv.start
    /\ srv.half => s.half
    /\ ~s.half => s.now = s.start
    /\ srv.over => s.over
    /\ srv.late => s.late

LEMMA TurnGoesOn ==
    ASSUME BrowserInv, GoesOn(srv'), UNCHANGED <<conn, status, view, draft>>,
           missed' \in Nat, missed' = 0 => missed = 0,
           NEW m \in Messages, ~NamesTurn(m), OfThisTurn(m)',
           inbox' = inbox \/ (conn = "registered" /\ inbox' = Append(inbox, m))
    PROVE  BrowserInv'
<1> DEFINE n == Len(inbox)
<1>1. /\ n \in Nat /\ Len(inbox') \in {n, n + 1}
      /\ \A i \in 1 .. n : inbox'[i] = inbox[i]
      /\ Len(inbox') = n + 1 => inbox'[n + 1] = m
      /\ inbox' \in Seq(Messages)
  <2>1. n \in Nat /\ inbox \in Seq(Messages)  BY DEF BrowserInv, TypeInv
  <2>2. CASE inbox' = inbox  BY <2>1, <2>2
  <2>3. CASE inbox' = Append(inbox, m)  BY <2>1, <2>3, AppendProperties
  <2> QED  BY <2>2, <2>3
<1>2. TypeInv' /\ Server'
  BY <1>1 DEF BrowserInv, TypeInv, Server, GoesOn
<1>3. \A i \in 1 .. Len(inbox') : NamesTurn(inbox'[i]) => i \in 1 .. n /\ inbox'[i] = inbox[i]
  BY <1>1
<1>4. NothingAhead'
  BY <1>1, <1>3 DEF BrowserInv, NothingAhead, GoesOn, NamesTurn
<1>5. InOrder'
  <2> SUFFICES ASSUME NEW j \in 1 .. Len(inbox'), Told(j)'  PROVE OfThisTurn(inbox[j])'
    BY DEF InOrder
  <2>1. CASE j = n + 1  BY <1>1, <2>1
  <2>2. CASE j \in 1 .. n
    <3>1. Told(j)
      <4>1. CASE view'.turn = srv'.turn  BY <4>1 DEF Told, GoesOn
      <4>2. CASE view'.turn # srv'.turn
        <5>1. PICK i \in 1 .. j - 1 : NamesTurn(inbox'[i]) /\ inbox'[i].turn = srv'.turn
          BY <4>2 DEF Told, NamesTurn
        <5>2. i \in 1 .. n /\ inbox'[i] = inbox[i]  BY <1>1, <2>2
        <5> QED  BY <5>1, <5>2 DEF Told, GoesOn
      <4> QED  BY <4>1, <4>2
    <3>2. OfThisTurn(inbox[j])  BY <2>2, <3>1 DEF BrowserInv, InOrder
    <3> QED  BY <1>1, <2>2, <3>2 DEF OfThisTurn, NamesTurn, GoesOn
  <2> QED  BY <1>1, <2>1, <2>2
<1>6. Paired'
  <2> SUFFICES ASSUME NEW i \in 1 .. Len(inbox'), NamesTurn(inbox'[i])
               PROVE  /\ IsStart(inbox[i])' =>
                             IF i = 1 THEN (view.seat = srv.current
                                               /\ (~srv.half => view.at = srv.start))'
                             ELSE StartsAt(inbox[i - 1])'
                      /\ (inbox[i].type = "TURN_END" /\ inbox[i].turn = srv.turn)' =>
                             i < Len(inbox') /\ IsStart(inbox[i + 1])'
    BY DEF Paired, NamesTurn, IsStart
  <2>1. i \in 1 .. n /\ inbox'[i] = inbox[i] /\ (i # 1 => inbox'[i - 1] = inbox[i - 1])
    BY <1>1, <1>3
  <2>2. IsStart(inbox[i])' =>
             IF i = 1 THEN (view.seat = srv.current /\ (~srv.half => view.at = srv.start))'
             ELSE StartsAt(inbox[i - 1])'
    BY <2>1 DEF BrowserInv, Paired, IsStart, StartsAt, GoesOn
  <2>3. (inbox[i].type = "TURN_END" /\ inbox[i].turn = srv.turn)' =>
             i < Len(inbox') /\ IsStart(inbox[i + 1])'
    <3>1. (inbox[i].type = "TURN_END" /\ inbox[i].turn = srv.turn)' =>
             i < n /\ IsStart(inbox[i + 1])
      BY <2>1 DEF BrowserInv, Paired, GoesOn
    <3>2. i < n => i + 1 \in 1 .. n  BY <1>1, <2>1
    <3> QED  BY <1>1, <2>1, <3>1, <3>2 DEF IsStart, GoesOn
  <2> QED  BY <2>2, <2>3
<1>7. BaseIsStart'  BY DEF BrowserInv, BaseIsStart, GoesOn
<1>8. Informed'
  <2>1. Shown => Shown'  BY DEF Shown, GoesOn
  <2>2. Coming => Coming'  BY <1>1 DEF Coming, IsStart, GoesOn
  <2> QED  BY <2>1, <2>2 DEF BrowserInv, Informed, GoesOn
<1> QED  BY <1>2, <1>4, <1>5, <1>6, <1>7, <1>8 DEF BrowserInv

\* A turn ends and the next begins: its two messages go to whoever is
\* registered, and are missed by whoever has only been served.
LEMMA TurnPasses ==
    ASSUME BrowserInv, NEW at \in Places,
           srv' = [srv EXCEPT !.current = 1 - @, !.turn = @ + 1, !.start = at, !.now = at,
                              !.half = FALSE, !.late = FALSE, !.thinking = FALSE],
           Broadcast(<<TurnEnd(srv'), TurnStart(srv')>>),
           UNCHANGED <<conn, status, view, draft>>
    PROVE  BrowserInv'
<1> DEFINE n == Len(inbox)
           e == TurnEnd(srv')
           s == TurnStart(srv')
<1>1. /\ srv'.turn = srv.turn + 1 /\ srv'.current \in Seats /\ srv'.start = at /\ ~srv'.half
      /\ srv'.over = srv.over /\ srv'.now = at /\ srv'.turn \in Nat
      /\ srv' \in [current : Seats, turn : Nat, start : Places, now : Places, half : BOOLEAN,
                   late : BOOLEAN, thinking : BOOLEAN, over : BOOLEAN]
  <2>1. srv \in [current : Seats, turn : Nat, start : Places, now : Places, half : BOOLEAN,
                  late : BOOLEAN, thinking : BOOLEAN, over : BOOLEAN]
    BY DEF BrowserInv, TypeInv
  <2>2. 1 - srv.current \in Seats  BY <2>1 DEF Seats, Me, LLM
  <2>3. srv.turn + 1 \in Nat  BY <2>1
  <2> QED  BY <2>1, <2>2, <2>3
<1>2. /\ e \in Messages /\ s \in Messages
      /\ e.type = "TURN_END" /\ s.type = "TURN_START"
      /\ e.turn = srv'.turn /\ s.turn = srv'.turn
      /\ e.seat = srv'.current /\ s.seat = srv'.current
      /\ e.at = srv'.start
  BY <1>1 DEF Messages, TurnEnd, TurnStart
<1>3. n \in Nat /\ inbox \in Seq(Messages) /\ view.turn \in Nat /\ view.turn <= srv.turn
  BY DEF BrowserInv, TypeInv, NothingAhead
<1>4. \A i \in 1 .. n : NamesTurn(inbox[i]) => inbox[i].turn \in Nat /\ inbox[i].turn # srv'.turn
  <2> SUFFICES ASSUME NEW i \in 1 .. n, NamesTurn(inbox[i])
               PROVE  inbox[i].turn \in Nat /\ inbox[i].turn # srv'.turn
    OBVIOUS
  <2>1. inbox[i].turn \in Nat  BY <1>3, Kinds
  <2>2. inbox[i].turn <= srv.turn /\ srv.turn \in Nat  BY DEF BrowserInv, NothingAhead, TypeInv
  <2> QED  BY <1>1, <2>1, <2>2
<1>5. CASE conn # "registered"
  <2>1. inbox' = inbox /\ conn # "registered" /\ (conn = "served" => missed' = missed + 1)
        /\ missed' \in Nat
    BY <1>5 DEF Broadcast, BrowserInv, TypeInv
  <2>2. TypeInv' /\ Server'  BY <1>1, <2>1 DEF BrowserInv, TypeInv, Server
  <2>3. NothingAhead' /\ InOrder' /\ Paired'
    <3>1. \A i \in 1 .. n : NamesTurn(inbox[i]) => inbox[i].turn <= srv.turn
      BY DEF BrowserInv, NothingAhead
    <3>2. srv.turn \in Nat  BY DEF BrowserInv, TypeInv
    <3>3. NothingAhead'
      BY <1>1, <1>3, <1>4, <2>1, <3>1, <3>2 DEF NothingAhead, NamesTurn
    <3>4. InOrder'
      BY <1>1, <1>3, <1>4, <2>1, <3>2 DEF InOrder, Told, NamesTurn
    <3>5. Paired'
      BY <1>1, <1>4, <2>1 DEF Paired, NamesTurn, IsStart
    <3> QED  BY <3>3, <3>4, <3>5
  <2>4. BaseIsStart'
    <3>1. srv.turn \in Nat  BY DEF BrowserInv, TypeInv
    <3> QED  BY <1>1, <1>3, <3>1 DEF BaseIsStart
  <2>5. Informed'  BY <2>1 DEF Informed, BrowserInv, TypeInv
  <2> QED  BY <2>2, <2>3, <2>4, <2>5 DEF BrowserInv
<1>6. CASE conn = "registered"
  <2>1. inbox' = inbox \o <<e, s>> /\ missed' = missed  BY <1>6 DEF Broadcast
  <2>2. /\ inbox' \in Seq(Messages) /\ Len(inbox') = n + 2
        /\ \A i \in 1 .. n : inbox'[i] = inbox[i]
        /\ inbox'[n + 1] = e /\ inbox'[n + 2] = s
    <3>1. /\ <<e, s>> \in Seq(Messages) /\ Len(<<e, s>>) = 2
          /\ <<e, s>>[1] = e /\ <<e, s>>[2] = s
      BY <1>2
    <3> HIDE DEF e, s
    <3> QED  BY <1>3, <2>1, <3>1, ConcatProperties
  <2> HIDE DEF e, s
  <2>3. TypeInv' /\ Server'
    BY <1>1, <1>6, <2>1, <2>2 DEF BrowserInv, TypeInv, Server
  <2>4. \A i \in 1 .. Len(inbox') : i \in 1 .. n \/ i = n + 1 \/ i = n + 2
    BY <1>3, <2>2
  <2>5. srv.turn \in Nat  BY DEF BrowserInv, TypeInv
  <2>6. NothingAhead'
    <3>1. \A i \in 1 .. n : NamesTurn(inbox[i]) => inbox[i].turn <= srv.turn
      BY DEF BrowserInv, NothingAhead
    <3>2. ASSUME NEW i \in 1 .. Len(inbox'), NamesTurn(inbox'[i])
          PROVE  /\ inbox'[i].turn <= srv'.turn
                 /\ inbox'[i].turn = srv'.turn =>
                       /\ inbox'[i].seat = srv'.current
                       /\ inbox'[i].type = "TURN_END" => inbox'[i].at = srv'.start
      <4>1. CASE i \in 1 .. n  BY <1>1, <1>4, <2>2, <2>5, <3>1, <3>2, <4>1
      <4>2. CASE i = n + 1  BY <1>1, <1>2, <2>2, <4>2
      <4>3. CASE i = n + 2  BY <1>1, <1>2, <2>2, <4>3
      <4> QED  BY <2>4, <4>1, <4>2, <4>3
    <3>3. view'.turn <= srv'.turn  BY <1>1, <1>3, <2>5
    <3> QED  BY <3>2, <3>3 DEF NothingAhead, NamesTurn
  <2>7. InOrder'
    <3> SUFFICES ASSUME NEW j \in 1 .. Len(inbox'), Told(j)'  PROVE OfThisTurn(inbox[j])'
      BY DEF InOrder
    <3>1. view'.turn # srv'.turn  BY <1>1, <1>3, <2>5
    <3>2. PICK i \in 1 .. j - 1 : NamesTurn(inbox'[i]) /\ inbox'[i].turn = srv'.turn
      BY <3>1 DEF Told, NamesTurn
    <3>3. i \notin 1 .. n  BY <1>4, <2>2, <3>2
    <3>4. j = n + 2  BY <1>3, <2>2, <2>4, <3>3
    <3> QED  BY <1>2, <2>2, <3>4 DEF OfThisTurn, NamesTurn
  <2>8. Paired'
    <3> SUFFICES ASSUME NEW i \in 1 .. Len(inbox')
                 PROVE  /\ IsStart(inbox[i])' =>
                               IF i = 1 THEN (view.seat = srv.current
                                                 /\ (~srv.half => view.at = srv.start))'
                               ELSE StartsAt(inbox[i - 1])'
                        /\ (inbox[i].type = "TURN_END" /\ inbox[i].turn = srv.turn)' =>
                               i < Len(inbox') /\ IsStart(inbox[i + 1])'
      BY DEF Paired
    <3>1. CASE i \in 1 .. n  BY <1>4, <2>2, <3>1 DEF NamesTurn, IsStart
    <3>2. CASE i = n + 1
      <4>1. i + 1 = n + 2 /\ i < n + 2  BY <1>3, <3>2
      <4>2. IsStart(inbox[i + 1])'  BY <1>2, <2>2, <4>1 DEF IsStart
      <4> QED  BY <1>2, <2>2, <3>2, <4>1, <4>2 DEF IsStart
    <3>3. CASE i = n + 2
      <4>1. i - 1 = n + 1 /\ i # 1  BY <1>3, <3>3
      <4>2. StartsAt(inbox[i - 1])'  BY <1>1, <1>2, <2>2, <4>1 DEF StartsAt
      <4> QED  BY <1>2, <2>2, <3>3, <4>1, <4>2
    <3> QED  BY <2>4, <3>1, <3>2, <3>3
  <2>9. BaseIsStart'  BY <1>1, <1>3, <2>5 DEF BaseIsStart
  <2>10. Coming'
    <3>1. n + 2 \in 1 .. Len(inbox')  BY <1>3, <2>2
    <3>2. inbox'[n + 2].type = "TURN_START" /\ inbox'[n + 2].turn = srv'.turn  BY <1>2, <2>2
    <3>3. \E i \in 1 .. Len(inbox') : inbox'[i].type = "TURN_START" /\ inbox'[i].turn = srv'.turn
      BY <3>1, <3>2
    <3> QED  BY <3>3 DEF Coming, IsStart
  <2>11. Informed'  BY <2>10 DEF Informed
  <2> QED  BY <2>3, <2>6, <2>7, <2>8, <2>9, <2>11 DEF BrowserInv
<1> QED  BY <1>5, <1>6

\* A turn ends in a position, or the game does.
LEMMA TurnEnds ==
    ASSUME BrowserInv, NEW at \in Places, EndTurn(at), UNCHANGED <<conn, status, view, draft>>
    PROVE  BrowserInv'
<1>1. CASE srv.turn = MaxTurns
  <2> DEFINE m == Message("GAME_OVER")
  <2>1. srv' = [srv EXCEPT !.over = TRUE] /\ Broadcast(<<m>>)  BY <1>1 DEF EndTurn
  <2>2. GoesOn(srv')  BY <2>1 DEF GoesOn, BrowserInv, TypeInv, Server
  <2>3. m \in Messages /\ ~NamesTurn(m) /\ OfThisTurn(m)'
    BY DEF Messages, Message, NamesTurn, OfThisTurn
  <2>4. /\ inbox' = inbox \/ (conn = "registered" /\ inbox' = Append(inbox, m))
        /\ missed' \in Nat /\ (missed' = 0 => missed = 0)
    BY <2>1, <2>3 DEF Broadcast, BrowserInv, TypeInv
  <2> HIDE DEF m
  <2> QED  BY <2>2, <2>3, <2>4, TurnGoesOn
<1>2. CASE srv.turn # MaxTurns
  <2>1. /\ srv' = [srv EXCEPT !.current = 1 - @, !.turn = @ + 1, !.start = at, !.now = at,
                              !.half = FALSE, !.late = FALSE, !.thinking = FALSE]
        /\ Broadcast(<<TurnEnd(srv'), TurnStart(srv')>>)
    BY <1>2 DEF EndTurn
  <2> QED  BY <2>1, TurnPasses
<1> QED  BY <1>1, <1>2

\* The state goes to a connection that was just opened, and with it the start
\* of a turn that has time left.
LEMMA StateIsServed ==
    ASSUME BrowserInv, Serve
    PROVE  BrowserInv'
<1> DEFINE g == GameState
           t == TurnStart(srv)
           x == Message("ERROR")
<1>1. /\ conn = "open" /\ conn' = "served" /\ missed' = 0 /\ inbox = <<>>
      /\ UNCHANGED <<srv, status, view, draft>>
      /\ srv.turn \in Nat /\ srv.current \in Seats /\ srv.now \in Places
      /\ (~srv.half => srv.now = srv.start)
      /\ view.turn <= srv.turn
  BY DEF Serve, client, BrowserInv, TypeInv, Server, NothingAhead
<1>2. /\ inbox' \in {<<x>>, <<g>>, <<g, t>>}
      /\ (~srv.over /\ ~srv.late) => inbox' = <<g, t>>
  <2>1. inbox' = CASE srv.over -> Append(inbox, x)
                   [] ~srv.over /\ srv.late -> Append(inbox, g)
                   [] OTHER -> inbox \o <<g, t>>
    BY DEF Serve
  <2>2. Append(inbox, x) = <<x>> /\ Append(inbox, g) = <<g>>  BY <1>1
  <2>3. inbox \o <<g, t>> = <<g, t>>  BY <1>1
  <2> HIDE DEF g, t, x
  <2> QED  BY <1>1, <2>1, <2>2, <2>3 DEF BrowserInv, TypeInv
<1>3. /\ g \in Messages /\ t \in Messages /\ x \in Messages
      /\ g.type = "GAME_STATE" /\ g.seat = srv.current /\ g.at = srv.now
      /\ t.type = "TURN_START" /\ t.seat = srv.current /\ t.turn = srv.turn
      /\ x.type = "ERROR"
  BY <1>1 DEF Messages, GameState, TurnStart, Message
<1> HIDE DEF g, t, x
<1>4. /\ inbox' \in Seq(Messages) /\ Len(inbox') \in {1, 2}
      /\ inbox'[1] \in {x, g}
      /\ Len(inbox') = 2 => inbox'[1] = g /\ inbox'[2] = t
      /\ (~srv.over /\ ~srv.late) => Len(inbox') = 2
  <2>1. CASE inbox' = <<g, t>>  BY <1>3, <2>1
  <2>2. CASE inbox' = <<g>> /\ (srv.over \/ srv.late)  BY <1>3, <2>2
  <2>3. CASE inbox' = <<x>> /\ (srv.over \/ srv.late)  BY <1>3, <2>3
  <2> QED  BY <1>2, <2>1, <2>2, <2>3
<1>5. \A i \in 1 .. Len(inbox') : i = 1 \/ (i = 2 /\ Len(inbox') = 2)
  <2>1. CASE Len(inbox') = 1  BY <2>1
  <2>2. CASE Len(inbox') = 2  BY <2>2
  <2> QED  BY <1>4, <2>1, <2>2
<1>6. TypeInv' /\ Server'  BY <1>1, <1>4 DEF BrowserInv, TypeInv, Server
<1>7. NothingAhead' /\ InOrder'
  BY <1>1, <1>3, <1>4, <1>5 DEF NothingAhead, InOrder, OfThisTurn, NamesTurn
<1>8. Paired'
  BY <1>1, <1>3, <1>4, <1>5 DEF Paired, IsStart, StartsAt
<1>9. BaseIsStart'  BY <1>1 DEF BaseIsStart, BrowserInv
<1>10. Informed'
  <2>1. Len(inbox') = 2 => Coming'  BY <1>1, <1>3, <1>4 DEF Coming, IsStart
  <2> QED  BY <1>1, <1>4, <2>1 DEF Informed
<1> QED  BY <1>6, <1>7, <1>8, <1>9, <1>10 DEF BrowserInv

-----------------------------------------------------------------------------
(* The browser reads a message. *)

Views  == [seat : Seats \cup {Nobody}, turn : Nat, isAI : BOOLEAN, at : Places \cup {Unknown}]
Drafts == [base : Places \cup {Unknown}, placed : BOOLEAN]

LEMMA Synced ==
    ASSUME NEW next \in Views, Sync(next), draft \in Drafts, view \in Views
    PROVE  /\ view' = next /\ draft' \in Drafts
           /\ draft'.base = IF next.seat # view.seat \/ next.turn # view.turn
                            THEN next.at ELSE draft.base
<1>1. [base |-> next.at, placed |-> FALSE] \in Drafts  BY DEF Drafts, Views
<1> QED  BY <1>1 DEF Sync

LEMMA MessageIsRead ==
    ASSUME BrowserInv, Deliver
    PROVE  BrowserInv'
<1> DEFINE n == Len(inbox)
<1> PICK m \in Messages : m = inbox[1] /\ m = Head(inbox)
  BY DEF BrowserInv, TypeInv, Deliver
<1>1. /\ status = "connected" /\ inbox # <<>> /\ inbox' = Tail(inbox)
      /\ UNCHANGED <<srv, conn, missed, status>>
      /\ m.type = "GAME_STATE" => OnGameState(m)
      /\ m.type = "TURN_START" => OnTurnStart(m)
      /\ m.type = "TURN_END" => OnTurnEnd(m)
      /\ m.type = "AI_THINKING" => OnThinking
      /\ m.type = "GAME_OVER" => OnGameOver
      /\ m.type = "ERROR" => UNCHANGED view /\ MayRollBack(confirmBusy)
      /\ m.type = "RATE_LIMITED" => UNCHANGED <<view, draft, confirmBusy>>
  BY Kinds DEF Deliver, server
<1>2. /\ n \in Nat /\ n > 0 /\ inbox' \in Seq(Messages) /\ Len(inbox') = n - 1
      /\ \A i \in 1 .. n - 1 : inbox'[i] = inbox[i + 1]
      /\ \A i \in 1 .. n : inbox[i] \in Messages
  <2>1. inbox \in Seq(Messages)  BY DEF BrowserInv, TypeInv
  <2> QED  BY <1>1, <2>1, HeadTailProperties
<1>3. /\ srv.turn \in Nat /\ srv.current \in Seats /\ srv.start \in Places
      /\ view \in Views /\ draft \in Drafts
  BY DEF BrowserInv, TypeInv, Views, Drafts
\* What the view and the draft become.
<1> DEFINE Follows == draft'.base = IF view'.seat # view.seat \/ view'.turn # view.turn
                                    THEN view'.at ELSE draft.base
<1>12. ASSUME m.type = "GAME_STATE"
       PROVE  /\ view' \in Views /\ draft' \in Drafts /\ Follows
              /\ view'.seat = m.seat /\ view'.turn = view.turn /\ view'.isAI = view.isAI
              /\ view'.at = m.at
  <2>1. m.seat \in Seats /\ m.at \in Places  BY <1>12, Kinds
  <2> PICK next : next = [view EXCEPT !.seat = m.seat, !.at = m.at]  OBVIOUS
  <2>2. /\ next \in Views /\ next.seat = m.seat /\ next.turn = view.turn
        /\ next.isAI = view.isAI /\ next.at = m.at
    BY <1>3, <2>1 DEF Views
  <2>3. Sync(next)  BY <1>1, <1>12 DEF OnGameState
  <2> QED  BY <1>3, <2>2, <2>3, Synced
<1>13. ASSUME m.type = "TURN_START", view.seat # Nobody
       PROVE  /\ view' \in Views /\ draft' \in Drafts /\ Follows
              /\ view'.seat = m.seat /\ view'.turn = m.turn /\ view'.isAI = (m.seat = LLM)
              /\ view'.at = view.at
  <2>1. m.seat \in Seats /\ m.turn \in Nat  BY <1>13, Kinds DEF NamesTurn
  <2> PICK next : next = [view EXCEPT !.seat = m.seat, !.turn = m.turn,
                                      !.isAI = (m.seat = LLM)]
    OBVIOUS
  <2>2. /\ next \in Views /\ next.seat = m.seat /\ next.turn = m.turn
        /\ next.isAI = (m.seat = LLM) /\ next.at = view.at
    BY <1>3, <2>1 DEF Views
  <2>3. Sync(next)  BY <1>1, <1>13 DEF OnTurnStart
  <2> QED  BY <1>3, <2>2, <2>3, Synced
<1>14. ASSUME m.type = "TURN_START", view.seat = Nobody
       PROVE  view' = view /\ draft' = draft
  BY <1>1, <1>14 DEF OnTurnStart
<1>15. ASSUME m.type = "TURN_END"
       PROVE  /\ view' \in Views /\ draft' \in Drafts /\ Follows
              /\ view'.seat = m.seat /\ view'.turn = m.turn /\ view'.at = m.at
  <2>1. m.seat \in Seats /\ m.turn \in Nat /\ m.at \in Places  BY <1>15, Kinds DEF NamesTurn
  <2> PICK next : next = [view EXCEPT !.seat = m.seat, !.turn = m.turn, !.isAI = FALSE,
                                      !.at = m.at]
    OBVIOUS
  <2>2. /\ next \in Views /\ next.seat = m.seat /\ next.turn = m.turn /\ next.at = m.at
    BY <1>3, <2>1 DEF Views
  <2>3. Sync(next)  BY <1>1, <1>15 DEF OnTurnEnd
  <2> QED  BY <1>3, <2>2, <2>3, Synced
<1>16. ASSUME m.type \notin {"GAME_STATE", "TURN_END", "TURN_START"}
       PROVE  /\ view' \in Views /\ draft' \in Drafts
              /\ view'.seat = view.seat /\ view'.turn = view.turn /\ draft'.base = draft.base
  <2>1. CASE m.type = "AI_THINKING"  BY <1>1, <1>3, <2>1 DEF OnThinking, Views
  <2>2. CASE m.type = "GAME_OVER"  BY <1>1, <1>3, <2>2 DEF OnGameOver, Drafts
  <2>3. CASE m.type = "ERROR"  BY <1>1, <1>3, <2>3 DEF MayRollBack, Drafts
  <2>4. CASE m.type = "RATE_LIMITED"  BY <1>1, <1>3, <2>4
  <2> QED  BY <1>16, <2>1, <2>2, <2>3, <2>4, Kinds
<1>4. /\ view' \in Views /\ draft' \in Drafts
      /\ view'.turn = view.turn \/ (NamesTurn(m) /\ view'.turn = m.turn)
      /\ m.type \in {"GAME_STATE", "TURN_END"} => view'.seat = m.seat /\ view'.at = m.at
  BY <1>3, <1>12, <1>13, <1>14, <1>15, <1>16 DEF NamesTurn
\* What the invariant says of the message.
<1>5. /\ NamesTurn(m) => /\ m.turn \in Nat /\ m.turn <= srv.turn
                         /\ m.turn = srv.turn =>
                               /\ m.seat = srv.current
                               /\ m.type = "TURN_END" => m.at = srv.start
      /\ view.turn = srv.turn => OfThisTurn(m)
      /\ IsStart(m) => view.seat = srv.current /\ (~srv.half => view.at = srv.start)
      /\ (m.type = "TURN_END" /\ m.turn = srv.turn) => 1 < n /\ IsStart(inbox[2])
      /\ (n > 1 /\ IsStart(inbox[2])) => StartsAt(m)
      /\ view.turn <= srv.turn
  <2>1. 1 \in 1 .. n /\ (n > 1 => 2 \in 1 .. n)  BY <1>2
  <2>2. NamesTurn(m) => /\ m.turn \in Nat /\ m.turn <= srv.turn
                        /\ m.turn = srv.turn =>
                              /\ m.seat = srv.current
                              /\ m.type = "TURN_END" => m.at = srv.start
    BY <2>1, Kinds DEF BrowserInv, NothingAhead
  <2>3. view.turn = srv.turn => OfThisTurn(m)
    BY <2>1 DEF BrowserInv, InOrder, Told
  <2>4. /\ IsStart(m) => view.seat = srv.current /\ (~srv.half => view.at = srv.start)
        /\ (m.type = "TURN_END" /\ m.turn = srv.turn) => 1 < n /\ IsStart(inbox[2])
        /\ (n > 1 /\ IsStart(inbox[2])) => StartsAt(m)
    BY <2>1 DEF BrowserInv, Paired
  <2> QED  BY <2>2, <2>3, <2>4 DEF BrowserInv, NothingAhead
<1>6. TypeInv' /\ Server'
  BY <1>1, <1>2, <1>4 DEF BrowserInv, TypeInv, Server, Views, Drafts
<1>7. NothingAhead'
  <2>1. view'.turn <= srv'.turn  BY <1>1, <1>4, <1>5
  <2>2. \A i \in 1 .. n - 1 : i + 1 \in 1 .. n  BY <1>2
  <2> QED  BY <1>1, <1>2, <2>1, <2>2 DEF BrowserInv, NothingAhead, NamesTurn
<1>8. InOrder'
  <2> SUFFICES ASSUME NEW j \in 1 .. Len(inbox'), Told(j)'  PROVE OfThisTurn(inbox[j])'
    BY DEF InOrder
  <2>1. j \in 1 .. n - 1 /\ j + 1 \in 1 .. n /\ inbox'[j] = inbox[j + 1]  BY <1>2
  <2>2. Told(j + 1)
    <3>1. CASE view'.turn = srv'.turn
      <4>1. view.turn = srv.turn \/ (NamesTurn(inbox[1]) /\ inbox[1].turn = srv.turn)
        BY <1>1, <1>4, <3>1
      <4>2. 1 \in 1 .. (j + 1) - 1  BY <2>1
      <4> QED  BY <4>1, <4>2 DEF Told
    <3>2. CASE view'.turn # srv'.turn
      <4>1. PICK i \in 1 .. j - 1 : NamesTurn(inbox'[i]) /\ inbox'[i].turn = srv'.turn
        BY <3>2 DEF Told, NamesTurn
      <4>2. i + 1 \in 1 .. (j + 1) - 1 /\ inbox'[i] = inbox[i + 1]  BY <1>2, <2>1
      <4> QED  BY <1>1, <4>1, <4>2 DEF Told
    <3> QED  BY <3>1, <3>2
  <2>3. OfThisTurn(inbox[j + 1])  BY <2>1, <2>2 DEF BrowserInv, InOrder
  <2> QED  BY <1>1, <2>1, <2>3 DEF OfThisTurn, NamesTurn
<1>9. Paired'
  <2> SUFFICES ASSUME NEW i \in 1 .. Len(inbox')
               PROVE  /\ IsStart(inbox[i])' =>
                             IF i = 1 THEN (view.seat = srv.current
                                               /\ (~srv.half => view.at = srv.start))'
                             ELSE StartsAt(inbox[i - 1])'
                      /\ (inbox[i].type = "TURN_END" /\ inbox[i].turn = srv.turn)' =>
                             i < Len(inbox') /\ IsStart(inbox[i + 1])'
    BY DEF Paired
  <2>1. i \in 1 .. n - 1 /\ i + 1 \in 1 .. n /\ i + 1 # 1 /\ (i + 1) - 1 = i
        /\ inbox'[i] = inbox[i + 1]
    BY <1>2
  <2>2. /\ IsStart(inbox[i + 1]) => StartsAt(inbox[i])
        /\ (inbox[i + 1].type = "TURN_END" /\ inbox[i + 1].turn = srv.turn) =>
               i + 1 < n /\ IsStart(inbox[(i + 1) + 1])
    BY <2>1 DEF BrowserInv, Paired
  <2>3. IsStart(inbox[i])' =>
             IF i = 1 THEN (view.seat = srv.current /\ (~srv.half => view.at = srv.start))'
             ELSE StartsAt(inbox[i - 1])'
    <3>1. CASE i = 1
      BY <1>1, <1>4, <1>5, <2>1, <2>2, <3>1 DEF IsStart, StartsAt
    <3>2. CASE i # 1
      <4>1. i - 1 \in 1 .. n - 1 /\ (i - 1) + 1 = i  BY <2>1, <3>2
      <4>2. inbox'[i - 1] = inbox[i]  BY <1>2, <4>1
      <4> QED  BY <1>1, <2>1, <2>2, <3>2, <4>2 DEF IsStart, StartsAt
    <3> QED  BY <3>1, <3>2
  <2>4. (inbox[i].type = "TURN_END" /\ inbox[i].turn = srv.turn)' =>
             i < Len(inbox') /\ IsStart(inbox[i + 1])'
    <3>1. i + 1 < n => i + 1 \in 1 .. n - 1 /\ i < n - 1  BY <1>2, <2>1
    <3> QED  BY <1>1, <1>2, <2>1, <2>2, <3>1 DEF IsStart
  <2> QED  BY <2>3, <2>4
<1>10. BaseIsStart'
  <2> SUFFICES ASSUME view'.seat = srv.current, view'.turn = srv.turn, ~srv.half
               PROVE  draft'.base = srv.start
    BY <1>1 DEF BaseIsStart
  <2>1. (view.seat = srv.current /\ view.turn = srv.turn) => draft.base = srv.start
    BY DEF BrowserInv, BaseIsStart
  <2>2. CASE m.type = "GAME_STATE"
    BY <1>5, <1>12, <2>1, <2>2 DEF OfThisTurn
  <2>3. CASE m.type = "TURN_START"
    BY <1>5, <1>13, <1>14, <2>1, <2>3 DEF IsStart
  <2>4. CASE m.type = "TURN_END"
    BY <1>5, <1>15, <2>1, <2>4 DEF NamesTurn
  <2> QED  BY <1>16, <2>1, <2>2, <2>3, <2>4
<1>11. Informed'
  <2> SUFFICES ASSUME Shown \/ Coming  PROVE Shown' \/ Coming'
    BY <1>1 DEF BrowserInv, Informed
  <2>1. ASSUME NEW i \in 2 .. n, IsStart(inbox[i])  PROVE Coming'
    <3>1. i - 1 \in 1 .. n - 1 /\ (i - 1) + 1 = i  BY <1>2
    <3>2. i - 1 \in 1 .. Len(inbox') /\ inbox'[i - 1] = inbox[i]  BY <1>2, <3>1
    <3> QED  BY <1>1, <2>1, <3>2 DEF Coming, IsStart
  <2>2. CASE IsStart(m)
    <3>1. m.type = "TURN_START" /\ m.turn = srv.turn /\ m.seat = srv.current
          /\ view.seat = srv.current
      BY <1>5, <2>2 DEF IsStart, NamesTurn
    <3>2. view.seat # Nobody  BY <1>3, <3>1 DEF Seats, Nobody, Me, LLM
    <3> QED  BY <1>1, <1>13, <3>1, <3>2 DEF Shown
  <2>3. CASE Shown /\ ~IsStart(m)
    <3>1. OfThisTurn(m)  BY <1>5, <2>3 DEF Shown
    <3>2. CASE m.type = "TURN_END"
      <4>1. IsStart(inbox[2]) /\ 2 \in 2 .. n
        BY <1>2, <1>5, <3>1, <3>2 DEF OfThisTurn, NamesTurn
      <4> QED  BY <2>1, <4>1
    <3>3. CASE m.type = "GAME_STATE"
      BY <1>1, <1>12, <2>3, <3>1, <3>3 DEF Shown, OfThisTurn
    <3>4. CASE m.type = "AI_THINKING"
      BY <1>1, <1>3, <2>3, <3>1, <3>4 DEF OnThinking, Shown, OfThisTurn, Views
    <3>5. CASE m.type \in {"GAME_OVER", "ERROR", "RATE_LIMITED"}
      BY <1>1, <2>3, <3>5 DEF OnGameOver, Shown
    <3>6. m.type # "TURN_START"  BY <2>3, <3>1 DEF IsStart, OfThisTurn, NamesTurn
    <3> QED  BY <3>2, <3>3, <3>4, <3>5, <3>6, Kinds
  <2>4. CASE Coming /\ ~IsStart(m)
    <3>1. PICK i \in 1 .. n : IsStart(inbox[i])  BY <2>4 DEF Coming
    <3>2. i \in 2 .. n  BY <1>2, <2>4, <3>1
    <3> QED  BY <2>1, <3>1, <3>2
  <2> QED  BY <2>2, <2>3, <2>4
<1> QED  BY <1>6, <1>7, <1>8, <1>9, <1>10, <1>11 DEF BrowserInv

-----------------------------------------------------------------------------
(* The steps. *)

LEMMA MadePositions ==
    ASSUME TypeInv
    PROVE  /\ \A table \in {srv.start.table, Made} : Position(table, srv.start.rack) \in Places
           /\ Position(srv.start.table, Made) \in Places
           /\ Position(Made, Made) \in Places
           /\ Position(Provisional(srv.turn), Provisional(srv.turn)) \in Places
<1>1. srv.turn \in Nat /\ srv.start \in Places  BY DEF TypeInv
<1>2. <<srv.turn>> \in Seq(Nat) /\ <<srv.turn, srv.turn>> \in Seq(Nat)  BY <1>1
<1>3. Made \in Versions /\ Provisional(srv.turn) \in Versions
      /\ srv.start.table \in Versions /\ srv.start.rack \in Versions
  BY <1>1, <1>2 DEF Made, Committed, Provisional, Versions, Places
<1> QED  BY <1>3 DEF Places, Position

\* One message more is on its way, or it reaches nobody.
LEMMA OneMessage ==
    ASSUME TypeInv, NEW m \in Messages, Broadcast(<<m>>)
    PROVE  /\ inbox' = inbox \/ (conn = "registered" /\ inbox' = Append(inbox, m))
           /\ missed' \in Nat /\ (missed' = 0 => missed = 0)
BY DEF Broadcast, TypeInv

LEMMA MessageIsReceived ==
    ASSUME BrowserInv, Asked, Receive
    PROVE  BrowserInv'
<1>1. conn = "registered" /\ UNCHANGED <<conn, status, view, draft>>
  BY DEF Receive, client
<1>2. TypeInv  BY DEF BrowserInv
<1>3. ASSUME NEW type \in {"RATE_LIMITED", "ERROR"}, Reply(Message(type)), UNCHANGED srv
      PROVE  BrowserInv'
  <2>1. Message(type) \in Messages /\ ~NamesTurn(Message(type)) /\ OfThisTurn(Message(type))'
    BY <1>3 DEF Messages, Message, NamesTurn, OfThisTurn
  <2>2. GoesOn(srv')  BY <1>3 DEF GoesOn, BrowserInv, TypeInv, Server
  <2>3. /\ inbox' = inbox \/ (conn = "registered" /\ inbox' = Append(inbox, Message(type)))
        /\ missed' \in Nat /\ (missed' = 0 => missed = 0)
    BY <1>1, <1>2, <1>3 DEF Reply, TypeInv
  <2> QED  BY <1>1, <2>1, <2>2, <2>3, TurnGoesOn
<1>4. CASE ReceivePlace
  <2> DEFINE m == Message("ERROR")
  <2>1. m \in Messages /\ ~NamesTurn(m) /\ OfThisTurn(m)'
    BY DEF Messages, Message, NamesTurn, OfThisTurn
  <2>2. GoesOn(srv')
    <3>1. Position(Provisional(srv.turn), Provisional(srv.turn)) \in Places
      BY <1>2, MadePositions
    <3> QED  BY <1>2, <1>4, <3>1 DEF ReceivePlace, GoesOn, TypeInv
  <2>3. /\ inbox' = inbox \/ (conn = "registered" /\ inbox' = Append(inbox, m))
        /\ missed' \in Nat /\ (missed' = 0 => missed = 0)
    BY <1>2, <1>4 DEF ReceivePlace, TypeInv
  <2> HIDE DEF m
  <2> QED  BY <1>1, <2>1, <2>2, <2>3, TurnGoesOn
<1>5. ASSUME NEW m, ReceiveConfirm(m)  PROVE BrowserInv'
  <2>1. Position(srv.start.table, Made) \in Places /\ Position(Made, Made) \in Places
    BY <1>2, MadePositions
  <2>2. EndTurn(Position(Made, Made)) \/ EndTurn(Position(srv.start.table, Made))
    BY <1>5 DEF ReceiveConfirm
  <2> QED  BY <1>1, <2>1, <2>2, TurnEnds
<1>6. CASE ReceiveDraw
  <2>1. Position(srv.start.table, Made) \in Places  BY <1>2, MadePositions
  <2> QED  BY <1>1, <1>6, <2>1, TurnEnds DEF ReceiveDraw
<1>7. CASE ReceiveReset
  <2> PICK m : m = [type |-> "GAME_STATE", seat |-> srv.current, at |-> srv.start]  OBVIOUS
  <2>1. srv' = [srv EXCEPT !.now = srv.start] /\ Reply(m)  BY <1>7 DEF ReceiveReset
  <2>2. m \in Messages /\ ~NamesTurn(m)  BY <1>2 DEF Messages, NamesTurn, TypeInv
  <2>3. OfThisTurn(m)'  BY <1>2, <2>1 DEF OfThisTurn, NamesTurn, TypeInv
  <2>4. GoesOn(srv')  BY <1>2, <2>1 DEF GoesOn, TypeInv
  <2>5. /\ inbox' = inbox \/ (conn = "registered" /\ inbox' = Append(inbox, m))
        /\ missed' \in Nat /\ (missed' = 0 => missed = 0)
    BY <1>1, <1>2, <2>1 DEF Reply, TypeInv
  <2> QED  BY <1>1, <2>2, <2>3, <2>4, <2>5, TurnGoesOn
<1> QED
  <2> PICK m \in Requests : m = Head(outbox)  BY DEF Asked, Receive
  <2>1. \/ Reply(Message("RATE_LIMITED")) /\ UNCHANGED srv
        \/ Reply(Message("ERROR")) /\ UNCHANGED srv
        \/ CASE m.type = "PLACE_TILES" -> ReceivePlace
             [] m.type = "CONFIRM_TURN" -> ReceiveConfirm(m)
             [] m.type = "DRAW_TILE" -> ReceiveDraw
             [] m.type = "RESET_TURN" -> ReceiveReset
    BY DEF Receive
  <2>2. m.type \in {"PLACE_TILES", "CONFIRM_TURN", "DRAW_TILE", "RESET_TURN"}  BY DEF Requests
  <2> QED  BY <1>3, <1>4, <1>5, <1>6, <1>7, <2>1, <2>2

LEMMA ServerSteps ==
    ASSUME BrowserInv, Think \/ LLMEndsTurn \/ TimeIsUp \/ Timeout
    PROVE  BrowserInv'
<1>1. TypeInv  BY DEF BrowserInv
<1>2. CASE Think
  <2> PICK m : m = Message("AI_THINKING")  OBVIOUS
  <2>1. /\ srv' = [srv EXCEPT !.thinking = TRUE] /\ srv.current = LLM
        /\ Broadcast(<<m>>) /\ UNCHANGED <<conn, status, view, draft>>
    BY <1>2 DEF Think, client
  <2>2. m \in Messages /\ ~NamesTurn(m)  BY DEF Messages, Message, NamesTurn
  <2>3. OfThisTurn(m)'  BY <1>1, <2>1 DEF OfThisTurn, NamesTurn, Message, TypeInv
  <2>4. GoesOn(srv')  BY <2>1 DEF GoesOn, BrowserInv, TypeInv, Server
  <2>5. /\ inbox' = inbox \/ (conn = "registered" /\ inbox' = Append(inbox, m))
        /\ missed' \in Nat /\ (missed' = 0 => missed = 0)
    BY <1>1, <2>1, <2>2, OneMessage
  <2> QED  BY <2>1, <2>2, <2>3, <2>4, <2>5, TurnGoesOn
<1>3. CASE LLMEndsTurn
  <2> PICK table \in {srv.start.table, Made} : EndTurn(Position(table, srv.start.rack))
    BY <1>3 DEF LLMEndsTurn
  <2>1. Position(table, srv.start.rack) \in Places  BY <1>1, MadePositions
  <2>2. UNCHANGED <<conn, status, view, draft>>  BY <1>3 DEF LLMEndsTurn, client
  <2> QED  BY <2>1, <2>2, TurnEnds
<1>4. CASE TimeIsUp
  <2> PICK m : m = Message("ERROR")  OBVIOUS
  <2>1. /\ srv' = [srv EXCEPT !.late = TRUE] /\ inbox' = inbox /\ missed' = missed
        /\ UNCHANGED <<conn, status, view, draft>>
    BY <1>4 DEF TimeIsUp, client
  <2>2. m \in Messages /\ ~NamesTurn(m) /\ OfThisTurn(m)'
    BY DEF Messages, Message, NamesTurn, OfThisTurn
  <2>3. GoesOn(srv')  BY <2>1 DEF GoesOn, BrowserInv, TypeInv, Server
  <2>4. missed' \in Nat  BY <1>1, <2>1 DEF TypeInv
  <2> QED  BY <2>1, <2>2, <2>3, <2>4, TurnGoesOn
<1>5. CASE Timeout
  <2>1. Position(srv.start.table, Made) \in Places  BY <1>1, MadePositions
  <2>2. EndTurn(Position(srv.start.table, Made)) /\ UNCHANGED <<conn, status, view, draft>>
    BY <1>5 DEF Timeout, client
  <2> QED  BY <2>1, <2>2, TurnEnds
<1> QED  BY <1>2, <1>3, <1>4, <1>5

LEMMA RollBack ==
    ASSUME TypeInv, NEW busy, MayRollBack(busy)
    PROVE  /\ draft' \in [base : Places \cup {Unknown}, placed : BOOLEAN]
           /\ draft'.base = draft.base
BY DEF MayRollBack, TypeInv

LEMMA ClientSteps ==
    ASSUME BrowserInv,
           \/ Register \/ Connect \/ OnOpen \/ ConnectFails \/ Lose \/ CloseForGood
           \/ CooldownEnds \/ PlaceInDraft \/ Confirm \/ ConfirmRefused \/ Undo \/ Draw
    PROVE  BrowserInv'
<1>1. TypeInv /\ Server  BY DEF BrowserInv
<1>2. CASE Register \/ Connect \/ CooldownEnds \/ Confirm \/ Draw
  <2>1. UNCHANGED <<srv, missed, inbox, view, draft>>
    BY <1>2 DEF Register, Connect, CooldownEnds, Confirm, Draw, server, client
  <2>2. \/ conn' = conn
        \/ conn = "none" /\ conn' = "open"
        \/ conn = "served" /\ conn' = "registered"
    BY <1>2 DEF Register, Connect, CooldownEnds, Confirm, Draw, server
  <2>3. status' # "connected" => conn' = "none"
    BY <1>1, <1>2 DEF Register, Connect, CooldownEnds, Confirm, Draw, server, client, Server
  <2>4. draft' \in [base : Places \cup {Unknown}, placed : BOOLEAN] /\ draft'.base = draft.base
    BY <1>1, <2>1 DEF TypeInv
  <2> QED  BY <2>1, <2>2, <2>3, <2>4, NothingSaid
<1>3. CASE OnOpen
  <2>1. conn = "none" /\ conn' = "open"  BY <1>1, <1>3 DEF OnOpen, Server
  <2>2. UNCHANGED <<srv, missed, inbox, view, draft>> /\ status' = "connected"
    BY <1>3 DEF OnOpen
  <2>3. draft' \in [base : Places \cup {Unknown}, placed : BOOLEAN] /\ draft'.base = draft.base
    BY <1>1, <2>2 DEF TypeInv
  <2> QED  BY <2>1, <2>2, <2>3, NothingSaid
<1>4. CASE PlaceInDraft \/ ConfirmRefused \/ Undo
  <2>1. UNCHANGED <<srv, missed, inbox, view, conn, status>>
    BY <1>4 DEF PlaceInDraft, ConfirmRefused, Undo, server
  <2>2. draft' \in [base : Places \cup {Unknown}, placed : BOOLEAN] /\ draft'.base = draft.base
    BY <1>1, <1>4, RollBack DEF PlaceInDraft, ConfirmRefused, Undo, TypeInv
  <2>3. status' # "connected" => conn' = "none"  BY <1>1, <2>1 DEF Server
  <2> QED  BY <2>1, <2>2, <2>3, NothingSaid
<1>5. CASE ConnectFails \/ Lose \/ CloseForGood
  <2>1. Closed  BY <1>5 DEF ConnectFails, Lose, CloseForGood
  <2>2. draft' \in [base : Places \cup {Unknown}, placed : BOOLEAN] /\ draft'.base = draft.base
    BY <1>1, <2>1, RollBack DEF Closed
  <2>3. /\ UNCHANGED <<srv, view>> /\ conn' = "none" /\ inbox' = <<>> /\ missed' = 0
    BY <2>1 DEF Closed
  <2> QED  BY <2>2, <2>3, ConnectionCloses
<1> QED  BY <1>2, <1>3, <1>4, <1>5

LEMMA NextAsked ==
    ASSUME TypeInv, Asked, Next
    PROVE  Asked'
<1>1. /\ outbox \in Seq(Requests)
      /\ Message("PLACE_TILES") \in Requests /\ Message("RESET_TURN") \in Requests
      /\ Message("DRAW_TILE") \in Requests
      /\ [type |-> "CONFIRM_TURN", base |-> draft.base] \in Requests
  BY DEF Asked, Requests, Message, TypeInv
<1>2. ASSUME NEW ms \in Seq(Requests), ms # <<>>, Send(ms)  PROVE Asked'
  <2>1. Head(ms) \in Requests  BY <1>2
  <2>2. outbox \o ms \in Seq(Requests) /\ Append(outbox, Head(ms)) \in Seq(Requests)
    BY <1>1, <2>1
  <2> QED  BY <1>1, <1>2, <2>2 DEF Send, Asked
<1>3. CASE Confirm
  <2> PICK ms : ms = <<Message("PLACE_TILES"), [type |-> "CONFIRM_TURN", base |-> draft.base]>>
    OBVIOUS
  <2>1. ms \in Seq(Requests) /\ ms # <<>>  BY <1>1
  <2> QED  BY <1>2, <1>3, <2>1 DEF Confirm
<1>4. CASE Undo
  <2> PICK ms : ms = <<Message("RESET_TURN")>>  OBVIOUS
  <2>1. ms \in Seq(Requests) /\ ms # <<>>  BY <1>1
  <2> QED  BY <1>2, <1>4, <2>1 DEF Undo
<1>5. CASE Draw
  <2> PICK ms : ms = <<Message("DRAW_TILE")>>  OBVIOUS
  <2>1. ms \in Seq(Requests) /\ ms # <<>>  BY <1>1
  <2> QED  BY <1>2, <1>5, <2>1 DEF Draw
<1>6. CASE Receive
  <2>1. outbox # <<>> /\ outbox' = Tail(outbox)  BY <1>6 DEF Receive
  <2> QED  BY <1>1, <2>1 DEF Asked
<1>7. CASE ConnectFails \/ Lose \/ CloseForGood
  <2>1. outbox' = <<>>  BY <1>7 DEF ConnectFails, Lose, CloseForGood, Closed
  <2> QED  BY <2>1 DEF Asked
<1>8. CASE \/ Think \/ LLMEndsTurn \/ TimeIsUp \/ Timeout \/ Serve \/ Register \/ Connect
           \/ OnOpen \/ Deliver \/ CooldownEnds \/ PlaceInDraft \/ ConfirmRefused
  <2>1. outbox' = outbox
    BY <1>8 DEF Think, LLMEndsTurn, TimeIsUp, Timeout, Serve, Register, Connect, OnOpen, Deliver,
                CooldownEnds, PlaceInDraft, ConfirmRefused
  <2> QED  BY <2>1 DEF Asked
<1> QED  BY <1>3, <1>4, <1>5, <1>6, <1>7, <1>8 DEF Next

\* The invariant holds in every state.
THEOREM BrowserInvariance == Spec => [](BrowserInv /\ Asked)
<1>1. Init => BrowserInv /\ Asked
  <2> SUFFICES ASSUME Init  PROVE BrowserInv /\ Asked
    OBVIOUS
  <2>1. Asked /\ inbox = <<>> /\ Len(inbox) = 0 /\ conn = "none"  BY DEF Init, Asked
  <2>2. TypeInv
    <3>1. <<0>> \in Seq(Nat)  OBVIOUS
    <3>2. Position(Committed(0), Committed(0)) \in Places
      BY <3>1 DEF Position, Committed, Places, Versions
    <3>3. srv \in [current : Seats, turn : Nat, start : Places, now : Places, half : BOOLEAN,
                   late : BOOLEAN, thinking : BOOLEAN, over : BOOLEAN]
      BY <3>2 DEF Init, Seats
    <3> QED  BY <3>3 DEF Init, TypeInv, NoDraft, Unknown
  <2>3. Server /\ view.turn = 1 /\ srv.turn = 1 /\ view.seat = 9 /\ srv.current = 0
    BY DEF Init, Server, Nobody, Me
  <2>4. NothingAhead /\ InOrder /\ Paired  BY <2>1, <2>3 DEF NothingAhead, InOrder, Paired
  <2>5. BaseIsStart /\ Informed  BY <2>1, <2>3 DEF BaseIsStart, Informed
  <2> QED  BY <2>1, <2>2, <2>3, <2>4, <2>5 DEF BrowserInv
<1>2. BrowserInv /\ Asked /\ [Next]_vars => (BrowserInv /\ Asked)'
  <2> SUFFICES ASSUME BrowserInv, Asked, [Next]_vars  PROVE BrowserInv' /\ Asked'
    OBVIOUS
  <2>1. CASE Next
    <3>1. Asked'  BY <2>1, NextAsked DEF BrowserInv
    <3> QED  BY <2>1, <3>1, ServerSteps, ClientSteps, StateIsServed, MessageIsReceived,
                MessageIsRead DEF Next
  <2>2. CASE UNCHANGED vars
    <3>1. Asked'  BY <2>2 DEF Asked, vars
    <3>2. UNCHANGED <<srv, missed, inbox, view, draft, conn, status>>
      BY <2>2 DEF vars, server, client
    <3>3. /\ draft' \in [base : Places \cup {Unknown}, placed : BOOLEAN]
          /\ draft'.base = draft.base
          /\ status' # "connected" => conn' = "none"
      BY <3>2 DEF BrowserInv, TypeInv, Server
    <3> QED  BY <3>1, <3>2, <3>3, NothingSaid
  <2> QED  BY <2>1, <2>2
<1> QED  BY <1>1, <1>2, PTL DEF Spec

(* However many messages are lost, late, or refused, and whatever becomes  *)
(* of the connection: a settled browser that missed nothing shows the turn *)
(* that is being played, and its draft starts from the position this turn  *)
(* started from.                                                           *)
THEOREM ViewCorrect == Spec => []ViewIsCurrent
<1>1. BrowserInv => ViewIsCurrent
  <2> SUFFICES ASSUME BrowserInv, Settled, missed = 0, ~srv.late, ~srv.half
               PROVE  /\ view.seat = srv.current /\ view.turn = srv.turn
                      /\ view.isAI = (srv.current = LLM)
                      /\ draft.base = srv.start
    BY DEF ViewIsCurrent
  <2>1. ~Coming  BY DEF Settled, Coming
  <2>2. Shown  BY <2>1 DEF BrowserInv, Informed, Settled
  <2> QED  BY <2>2 DEF Shown, BrowserInv, BaseIsStart
<1> QED  BY <1>1, BrowserInvariance, PTL

-----------------------------------------------------------------------------
(* The server's end of the connection: what its properties need to be
   inductive. *)

\* Before the game no connection knows of it, and no status is written.
WaitingIsQuiet ==
    phase = "waiting" => presence = "ACTIVE" /\ served = {} /\ \A c \in Conn : ~ knows[c]

\* The registered connection has not unregistered itself.
HubIsOpen == hub # None => pc[hub] \in {"cancelGrace", "activate", "reading", "unregister"}

\* The player is active on account of a connection in the game that has not
\* yet said its last word.
ActiveHasAConnection ==
    InGame /\ served # {} /\ presence = "ACTIVE" =>
        \E c \in Conn : /\ knows[c]
                        /\ pc[c] \in {"cancelGrace", "activate", "reading", "unregister", "mark"}

SessionInv ==
    /\ TypeOK /\ OpenIsRegistered /\ RunningTimerIsInTheMap
    /\ NobodyIsForgotten /\ WaitingIsQuiet /\ HubIsOpen /\ ActiveHasAConnection

-----------------------------------------------------------------------------
(***************************************************************************)
(* The invariant holds at the start: no connection, no timer.              *)
(***************************************************************************)
LEMMA SessionStarts == SessionInit => SessionInv
  BY NoneAssumption
  DEF SessionInit, SessionInv, TypeOK, OpenIsRegistered, RunningTimerIsInTheMap, NobodyIsForgotten,
      WaitingIsQuiet, HubIsOpen, ActiveHasAConnection, InGame, At, Place, Following

(***************************************************************************)
(* Types are kept by every step.                                           *)
(***************************************************************************)
LEMMA SessionNextKeepsTypes ==
    ASSUME TypeOK, HubIsOpen, [SessionNext]_session
    PROVE  TypeOK'
<1> USE NoneAssumption DEF TypeOK, Place, Following, At, Go, Step
<1>1. ASSUME NEW c \in Conn, Authenticate(c) PROVE TypeOK'
  <2>1. (phase # "waiting") \in BOOLEAN
    OBVIOUS
  <2>2. knows' \in [Conn -> BOOLEAN]
    BY <1>1, <2>1 DEF Authenticate
  <2>3. \A d \in Conn : At(d, "idle")' => ~ knows'[d] /\ d \notin closed'
    BY <1>1 DEF Authenticate
  <2> QED  BY <1>1, <2>2, <2>3 DEF Authenticate
<1>8. ASSUME NEW c \in Conn, RegisterWithHub(c) PROVE TypeOK'
  BY <1>8 DEF RegisterWithHub, HubIsOpen
<1>2. ASSUME NEW c \in Conn, CancelGrace(c) \/ Activate(c) PROVE TypeOK'
  BY <1>2 DEF CancelGrace, Activate, Stop
<1>3. ASSUME NEW c \in Conn, Leave(c) \/ ReadFails(c) \/ Unregister(c) PROVE TypeOK'
  BY <1>3 DEF Leave, ReadFails, Unregister
<1>4. ASSUME NEW c \in Conn, MarkDisconnected(c) \/ StartGrace(c) PROVE TypeOK'
  BY <1>4 DEF MarkDisconnected, StartGrace, Stop
<1>5. ASSUME NEW c \in Conn, GraceRunsOut(c) \/ GraceExpires(c) \/ GraceForfeits(c) PROVE TypeOK'
  BY <1>5 DEF GraceRunsOut, GraceExpires, GraceForfeits
<1>6. CASE NotifyGameStarted
  <2>1. \A c \in Conn : (knows[c] \/ c = hub) \in BOOLEAN
    OBVIOUS
  <2>2. knows' \in [Conn -> BOOLEAN]
    BY <1>6, <2>1 DEF NotifyGameStarted
  <2>3. \A c \in Conn : At(c, "idle")' => ~ knows'[c] /\ c \notin closed'
    BY <1>6 DEF NotifyGameStarted, HubIsOpen
  <2>4. served' \subseteq Conn
    BY <1>6 DEF NotifyGameStarted
  <2> QED  BY <1>6, <2>2, <2>3, <2>4 DEF NotifyGameStarted
<1>7. CASE StartGame \/ Exclude \/ GameOver \/ UNCHANGED session
  BY <1>7 DEF StartGame, Exclude, GameOver, session
<1> QED  BY <1>1, <1>2, <1>3, <1>4, <1>5, <1>6, <1>7, <1>8 DEF SessionNext

(***************************************************************************)
(* An open connection stays registered: a goodbye of another connection    *)
(* leaves the hub alone, and a new connection closes the one it replaces.  *)
(***************************************************************************)
LEMMA SessionNextKeepsOpenRegistered ==
    ASSUME TypeOK, OpenIsRegistered, [SessionNext]_session
    PROVE  OpenIsRegistered'
<1> USE NoneAssumption DEF TypeOK, OpenIsRegistered, Place, Following, At, Go, Step
<1>1. ASSUME NEW c \in Conn, Authenticate(c) \/ RegisterWithHub(c) \/ Unregister(c)
      PROVE  OpenIsRegistered'
  BY <1>1 DEF Authenticate, RegisterWithHub, Unregister
<1>2. ASSUME NEW c \in Conn, CancelGrace(c) \/ Activate(c) \/ Leave(c) \/ ReadFails(c)
      PROVE  OpenIsRegistered'
  BY <1>2 DEF CancelGrace, Activate, Leave, ReadFails
<1>3. ASSUME NEW c \in Conn, \/ MarkDisconnected(c) \/ StartGrace(c)
                             \/ GraceRunsOut(c) \/ GraceExpires(c) \/ GraceForfeits(c)
      PROVE  OpenIsRegistered'
  BY <1>3 DEF MarkDisconnected, StartGrace, GraceRunsOut, GraceExpires, GraceForfeits
<1>4. CASE StartGame \/ NotifyGameStarted \/ Exclude \/ GameOver \/ UNCHANGED session
  BY <1>4 DEF StartGame, NotifyGameStarted, Exclude, GameOver, session
<1> QED  BY <1>1, <1>2, <1>3, <1>4 DEF SessionNext

(***************************************************************************)
(* The hub's connection is between its registration and its goodbye.       *)
(***************************************************************************)
LEMMA SessionNextKeepsHubOpen ==
    ASSUME TypeOK, HubIsOpen, [SessionNext]_session
    PROVE  HubIsOpen'
<1> USE NoneAssumption DEF TypeOK, HubIsOpen, Place, Following, At, Go, Step
<1>1. ASSUME NEW c \in Conn, Authenticate(c) \/ RegisterWithHub(c) \/ Unregister(c)
      PROVE  HubIsOpen'
  BY <1>1 DEF Authenticate, RegisterWithHub, Unregister
<1>2. ASSUME NEW c \in Conn, CancelGrace(c) \/ Activate(c) \/ Leave(c) \/ ReadFails(c)
      PROVE  HubIsOpen'
  BY <1>2 DEF CancelGrace, Activate, Leave, ReadFails
<1>3. ASSUME NEW c \in Conn, \/ MarkDisconnected(c) \/ StartGrace(c)
                             \/ GraceRunsOut(c) \/ GraceExpires(c) \/ GraceForfeits(c)
      PROVE  HubIsOpen'
  BY <1>3 DEF MarkDisconnected, StartGrace, GraceRunsOut, GraceExpires, GraceForfeits
<1>4. CASE StartGame \/ NotifyGameStarted \/ Exclude \/ GameOver \/ UNCHANGED session
  BY <1>4 DEF StartGame, NotifyGameStarted, Exclude, GameOver, session
<1> QED  BY <1>1, <1>2, <1>3, <1>4 DEF SessionNext

(***************************************************************************)
(* The timers that run are the one in the map: whoever removes or replaces *)
(* the entry stops its timer, or is that timer's goroutine; "lateDelete"   *)
(* remembers a goroutine that found another timer's entry.                 *)
(***************************************************************************)
LEMMA SessionNextKeepsTimerInMap ==
    ASSUME TypeOK, RunningTimerIsInTheMap, [SessionNext]_session
    PROVE  RunningTimerIsInTheMap'
<1> USE NoneAssumption DEF TypeOK, RunningTimerIsInTheMap
<1>1. ASSUME NEW c \in Conn, CancelGrace(c) \/ StartGrace(c)
      PROVE  RunningTimerIsInTheMap'
  BY <1>1 DEF CancelGrace, StartGrace, Stop
<1>2. ASSUME NEW c \in Conn, GraceRunsOut(c) \/ GraceExpires(c) \/ GraceForfeits(c)
      PROVE  RunningTimerIsInTheMap'
  BY <1>2 DEF GraceRunsOut, GraceExpires, GraceForfeits
<1>3. ASSUME NEW c \in Conn, \/ Authenticate(c) \/ RegisterWithHub(c) \/ Activate(c) \/ Leave(c)
                             \/ ReadFails(c) \/ Unregister(c) \/ MarkDisconnected(c)
      PROVE  RunningTimerIsInTheMap'
  BY <1>3 DEF Authenticate, RegisterWithHub, Activate, Leave, ReadFails, Unregister, MarkDisconnected
<1>4. CASE StartGame \/ NotifyGameStarted \/ Exclude \/ GameOver \/ UNCHANGED session
  BY <1>4 DEF StartGame, NotifyGameStarted, Exclude, GameOver, session
<1> QED  BY <1>1, <1>2, <1>3, <1>4 DEF SessionNext

-----------------------------------------------------------------------------
(***************************************************************************)
(* Before the game nobody writes a status.                                 *)
(***************************************************************************)
LEMMA SessionNextKeepsWaitingQuiet ==
    ASSUME TypeOK, WaitingIsQuiet, [SessionNext]_session
    PROVE  WaitingIsQuiet'
  BY DEF TypeOK, WaitingIsQuiet, InGame, SessionNext, session,
      Authenticate, RegisterWithHub, CancelGrace, Activate, Leave, ReadFails, Unregister, MarkDisconnected,
      StartGrace, GraceRunsOut, GraceExpires, GraceForfeits, StartGame, NotifyGameStarted, Exclude, GameOver

(***************************************************************************)
(* A disconnected player stays on the way in or out.  The timer a step     *)
(* stops is followed by the ACTIVE of the connection that stopped it, or   *)
(* is replaced by a new one; a timer that has run out forfeits the player. *)
(***************************************************************************)
LEMMA SessionNextForgetsNobody ==
    ASSUME TypeOK, WaitingIsQuiet, NobodyIsForgotten, [SessionNext]_session
    PROVE  NobodyIsForgotten'
<1> USE NoneAssumption DEF TypeOK, NobodyIsForgotten, WaitingIsQuiet, InGame, Following, Place,
                           At, Go, Step
<1>1. ASSUME NEW c \in Conn, Authenticate(c) \/ RegisterWithHub(c)
      PROVE  NobodyIsForgotten'
  BY <1>1 DEF Authenticate, RegisterWithHub
<1>2. ASSUME NEW c \in Conn, CancelGrace(c) PROVE NobodyIsForgotten'
  <2>1. CASE knows[c]
    BY <1>2, <2>1 DEF CancelGrace
  <2>2. CASE ~ knows[c] /\ graceEntry = None
    BY <1>2, <2>2 DEF CancelGrace, Stop
  <2>3. CASE ~ knows[c] /\ graceEntry # None
    BY <1>2, <2>3 DEF CancelGrace
  <2> QED  BY <2>1, <2>2, <2>3
<1>3. ASSUME NEW c \in Conn, Activate(c) \/ Leave(c) PROVE NobodyIsForgotten'
  BY <1>3 DEF Activate, Leave
<1>4. ASSUME NEW c \in Conn, ReadFails(c) \/ Unregister(c) PROVE NobodyIsForgotten'
  BY <1>4 DEF ReadFails, Unregister
<1>5. ASSUME NEW c \in Conn, MarkDisconnected(c) PROVE NobodyIsForgotten'
  BY <1>5 DEF MarkDisconnected
<1>6. ASSUME NEW c \in Conn, StartGrace(c) PROVE NobodyIsForgotten'
  <2>1. CASE knows[c]
    <3>1. grace'[c] = "waiting"
      BY <1>6, <2>1 DEF StartGrace, Stop
    <3> QED  BY <3>1
  <2>2. CASE ~ knows[c]
    BY <1>6, <2>2 DEF StartGrace
  <2> QED  BY <2>1, <2>2
<1>7. ASSUME NEW c \in Conn, GraceRunsOut(c) \/ GraceExpires(c) \/ GraceForfeits(c) PROVE NobodyIsForgotten'
  BY <1>7 DEF GraceRunsOut, GraceExpires, GraceForfeits
<1>8. CASE StartGame \/ NotifyGameStarted \/ Exclude \/ GameOver \/ UNCHANGED session
  BY <1>8 DEF StartGame, NotifyGameStarted, Exclude, GameOver, session
<1> QED  BY <1>1, <1>2, <1>3, <1>4, <1>5, <1>6, <1>7, <1>8 DEF SessionNext

(***************************************************************************)
(* An active player has a connection that has yet to say goodbye.          *)
(***************************************************************************)
LEMMA SessionNextKeepsActiveConnected ==
    ASSUME TypeOK, HubIsOpen, WaitingIsQuiet, ActiveHasAConnection, [SessionNext]_session
    PROVE  ActiveHasAConnection'
<1> USE NoneAssumption DEF TypeOK, ActiveHasAConnection, InGame, Following, Place, At, Go, Step
<1>1. ASSUME NEW c \in Conn, Authenticate(c) \/ RegisterWithHub(c)
      PROVE  ActiveHasAConnection'
  BY <1>1 DEF Authenticate, RegisterWithHub
<1>2. ASSUME NEW c \in Conn, CancelGrace(c) PROVE ActiveHasAConnection'
  BY <1>2 DEF CancelGrace
<1>3. ASSUME NEW c \in Conn, Activate(c) PROVE ActiveHasAConnection'
  <2>1. CASE knows[c]
    BY <1>3, <2>1 DEF Activate
  <2>2. CASE ~ knows[c]
    BY <1>3, <2>2 DEF Activate
  <2> QED  BY <2>1, <2>2
<1>4. ASSUME NEW c \in Conn, Leave(c) \/ ReadFails(c) \/ Unregister(c)
      PROVE  ActiveHasAConnection'
  BY <1>4 DEF Leave, ReadFails, Unregister
<1>5. ASSUME NEW c \in Conn, MarkDisconnected(c) \/ StartGrace(c)
      PROVE  ActiveHasAConnection'
  BY <1>5 DEF MarkDisconnected, StartGrace
<1>6. ASSUME NEW c \in Conn, GraceRunsOut(c) \/ GraceExpires(c) \/ GraceForfeits(c)
      PROVE  ActiveHasAConnection'
  BY <1>6 DEF GraceRunsOut, GraceExpires, GraceForfeits
<1>7. CASE NotifyGameStarted
  BY <1>7 DEF NotifyGameStarted, HubIsOpen
<1>8. CASE StartGame \/ Exclude \/ GameOver \/ UNCHANGED session
  BY <1>8 DEF StartGame, Exclude, GameOver, WaitingIsQuiet, session
<1> QED  BY <1>1, <1>2, <1>3, <1>4, <1>5, <1>6, <1>7, <1>8 DEF SessionNext

-----------------------------------------------------------------------------
(***************************************************************************)
(* The inductive invariant of Session.                                     *)
(***************************************************************************)
THEOREM SessionInvariance == SessionSpec => []SessionInv
<1>1. SessionInit => SessionInv
  BY SessionStarts
<1>2. SessionInv /\ [SessionNext]_session => SessionInv'
  BY SessionNextKeepsTypes, SessionNextKeepsOpenRegistered, SessionNextKeepsHubOpen, SessionNextKeepsTimerInMap,
     SessionNextKeepsWaitingQuiet, SessionNextForgetsNobody, SessionNextKeepsActiveConnected
  DEF SessionInv
<1> QED  BY <1>1, <1>2, PTL DEF SessionSpec

(***************************************************************************)
(* Goroutines, sockets, timers and the hub keep their types.               *)
(***************************************************************************)
THEOREM SessionTypes == SessionSpec => []TypeOK
<1>1. SessionInv => TypeOK
  BY DEF SessionInv
<1> QED  BY <1>1, SessionInvariance, PTL

(***************************************************************************)
(* Unregister's identity test works: an open connection is the registered  *)
(* one, whatever older connections still have to do.                       *)
(***************************************************************************)
THEOREM OpenConnectionsAreRegistered == SessionSpec => []OpenIsRegistered
<1>1. SessionInv => OpenIsRegistered
  BY DEF SessionInv
<1> QED  BY <1>1, SessionInvariance, PTL

(***************************************************************************)
(* At most one grace timer runs, and a reconnection finds it in the map,   *)
(* until a timer that has run out deletes the entry of its successor.      *)
(***************************************************************************)
THEOREM TimersCanBeStopped == SessionSpec => []RunningTimerIsInTheMap
<1>1. SessionInv => RunningTimerIsInTheMap
  BY DEF SessionInv
<1> QED  BY <1>1, SessionInvariance, PTL

(***************************************************************************)
(* No disconnected player is left without a timer or a connection that     *)
(* will change that.                                                       *)
(***************************************************************************)
THEOREM NobodyForgotten == SessionSpec => []NobodyIsForgotten
<1>1. SessionInv => NobodyIsForgotten
  BY DEF SessionInv
<1> QED  BY <1>1, SessionInvariance, PTL

(***************************************************************************)
(* A player who has left all connections is not shown as active.           *)
(***************************************************************************)
THEOREM AbsentAreNotActive == SessionSpec => []AbsentIsNotActive
<1>1. SessionInv => AbsentIsNotActive
  BY DEF SessionInv, TypeOK, ActiveHasAConnection, AbsentIsNotActive
<1> QED  BY <1>1, SessionInvariance, PTL

=============================================================================
