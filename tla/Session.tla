------------------------------ MODULE Session ------------------------------
(***************************************************************************)
(* The connections of one player to the room of one game: the goroutine of *)
(* every connection (HandleWS), the hub's one entry per user (ws_hub.go),  *)
(* and the grace timers of handler/ws_handler.go.                          *)
(*                                                                         *)
(* A browser may open a connection while an older one is still there (a    *)
(* second tab, a network change): the hub closes the old one, whose        *)
(* goroutine notices at its next read and says goodbye on its own time.    *)
(* Every step of a connection's goroutine that takes a lock or calls the   *)
(* service is an action; "pc" is where the goroutine is.                   *)
(***************************************************************************)
EXTENDS Naturals

CONSTANTS
    Conn,   \* the connections the player may open, each of them once
    None    \* no connection, no map entry

ASSUME NoneAssumption == None \notin Conn

VARIABLES
    phase,      \* of the game: "waiting", "starting" (room.GameID set), "started", "over"
    presence,   \* PlayerConnectionStatus in the stored game
    pc,         \* of the goroutine of every connection
    knows,      \* its gameID is set
    closed,     \* connections the server has closed
    hub,        \* the connection registered for the player
    grace,      \* the goroutine of the grace timer a connection started
    graceEntry, \* the connection whose grace timer is in the map
    served,     \* history: connections that were in the game
    blindCancel,\* history: a connection without the game stopped a grace timer
    lateDelete  \* history: a timer that had run out deleted another timer's entry

session == <<phase, presence, pc, knows, closed, hub, grace, graceEntry, served, blindCancel, lateDelete>>

\* The state exists in Redis, so that a status can be written to it.
InGame == phase \in {"starting", "started"}

At(c, step)   == pc[c] = step
Go(c, step)   == pc' = [pc EXCEPT ![c] = step]

\* Mutant of Following: the status is set before the grace timer is stopped.
FollowingLateCancel ==
    [register |-> "activate", activate |-> "cancelGrace", cancelGrace |-> "reading",
     unregister |-> "mark", mark |-> "startGrace", startGrace |-> "gone"]

\* The order of the steps in HandleWS, in ReadPump's deferred calls and in
\* handleDisconnect.
Following ==
    [register |-> "cancelGrace", cancelGrace |-> "activate", activate |-> "reading",
     unregister |-> "mark", mark |-> "startGrace", startGrace |-> "gone"]

Step(c, name) == At(c, name) /\ Go(c, Following[name])

SessionInit ==
    /\ phase = "waiting"
    /\ presence = "ACTIVE"
    /\ pc = [c \in Conn |-> "idle"]
    /\ knows = [c \in Conn |-> FALSE]
    /\ closed = {}
    /\ hub = None
    /\ grace = [c \in Conn |-> "none"]
    /\ graceEntry = None
    /\ served = {} /\ blindCancel = FALSE /\ lateDelete = FALSE

-----------------------------------------------------------------------------
(* A connection's goroutine. *)

\* authenticate: the game is looked up in the room, once.
Authenticate(c) ==
    /\ At(c, "idle") /\ Go(c, "register")
    /\ knows' = [knows EXCEPT ![c] = phase # "waiting"]
    /\ UNCHANGED <<phase, presence, closed, hub, grace, graceEntry, served, blindCancel, lateDelete>>

\* Register: a connection of the same user is closed.
RegisterWithHub(c) ==
    /\ Step(c, "register")
    /\ hub' = c
    /\ closed' = closed \cup ({hub} \ {None})
    /\ UNCHANGED <<phase, presence, knows, grace, graceEntry, served, blindCancel, lateDelete>>

\* What a cancel does to the timer in the map: nothing once it has run out.
Stop(entry) ==
    [c \in Conn |-> IF c = entry /\ grace[c] = "waiting" THEN "none" ELSE grace[c]]

CancelGrace(c) ==
    /\ Step(c, "cancelGrace")
    /\ grace' = Stop(graceEntry)
    /\ graceEntry' = None
    /\ blindCancel' = (blindCancel \/ (graceEntry # None /\ ~ knows[c]))
    /\ UNCHANGED <<phase, presence, knows, closed, hub, served, lateDelete>>

\* SetPlayerStatus(ACTIVE), with no look at the status it replaces.
Activate(c) ==
    /\ Step(c, "activate")
    /\ presence' = IF knows[c] /\ InGame THEN "ACTIVE" ELSE presence
    /\ served' = IF knows[c] THEN served \cup {c} ELSE served
    /\ UNCHANGED <<phase, knows, closed, hub, grace, graceEntry, blindCancel, lateDelete>>

\* LEAVE_GAME: forfeitAndBroadcast, then the socket is closed.  The message may
\* have been read just before a newer connection closed it.
Leave(c) ==
    /\ At(c, "reading")
    /\ presence' = IF knows[c] /\ InGame THEN "FORFEITED" ELSE presence
    /\ closed' = closed \cup {c}
    /\ UNCHANGED <<phase, pc, knows, hub, grace, graceEntry, served, blindCancel, lateDelete>>

\* The read fails: the server has closed the socket, or the network has.
ReadFails(c) ==
    /\ At(c, "reading") /\ Go(c, "unregister")
    /\ UNCHANGED <<phase, presence, knows, closed, hub, grace, graceEntry, served, blindCancel, lateDelete>>

\* Mutant of Unregister: the user's entry is removed, whose ever it is.
UnregisterUser(c) ==
    /\ Step(c, "unregister")
    /\ hub' = None
    /\ UNCHANGED <<phase, presence, knows, closed, grace, graceEntry, served, blindCancel, lateDelete>>

\* Unregister: only the connection that is registered is removed.
Unregister(c) ==
    /\ Step(c, "unregister")
    /\ hub' = IF hub = c THEN None ELSE hub
    /\ UNCHANGED <<phase, presence, knows, closed, grace, graceEntry, served, blindCancel, lateDelete>>

\* Mutant of MarkDisconnected: only for the registered connection, which it no
\* longer is.
MarkIfRegistered(c) ==
    /\ Step(c, "mark")
    /\ presence' = IF knows[c] /\ InGame /\ hub = c THEN "DISCONNECTED" ELSE presence
    /\ UNCHANGED <<phase, knows, closed, hub, grace, graceEntry, served, blindCancel, lateDelete>>

\* handleDisconnect: SetPlayerStatus(DISCONNECTED), whatever the status and
\* whoever is registered by now; nothing for a connection without a game.
MarkDisconnected(c) ==
    /\ Step(c, "mark")
    /\ presence' = IF knows[c] /\ InGame THEN "DISCONNECTED" ELSE presence
    /\ UNCHANGED <<phase, knows, closed, hub, grace, graceEntry, served, blindCancel, lateDelete>>

\* Mutant of StartGrace: the timer in the map is overwritten, not cancelled.
StartGraceBeside(c) ==
    /\ Step(c, "startGrace")
    /\ IF knows[c]
       THEN grace' = [grace EXCEPT ![c] = "waiting"] /\ graceEntry' = c
       ELSE UNCHANGED <<grace, graceEntry>>
    /\ UNCHANGED <<phase, presence, knows, closed, hub, served, blindCancel, lateDelete>>

\* startGraceTimer: in place of the timer in the map.
StartGrace(c) ==
    /\ Step(c, "startGrace")
    /\ IF knows[c]
       THEN grace' = [Stop(graceEntry) EXCEPT ![c] = "waiting"] /\ graceEntry' = c
       ELSE UNCHANGED <<grace, graceEntry>>
    /\ UNCHANGED <<phase, presence, knows, closed, hub, served, blindCancel, lateDelete>>

-----------------------------------------------------------------------------
(* The grace timer's goroutine: its time is up and a cancel comes too late;   *)
(* it takes the lock and deletes the entry under the player's key, whose      *)
(* ever it is by now; then the player is forfeited.                           *)

GraceRunsOut(c) ==
    /\ grace[c] = "waiting"
    /\ grace' = [grace EXCEPT ![c] = "ranOut"]
    /\ UNCHANGED <<phase, presence, pc, knows, closed, hub, graceEntry, served, blindCancel, lateDelete>>

GraceExpires(c) ==
    /\ grace[c] = "ranOut"
    /\ grace' = [grace EXCEPT ![c] = "expired"]
    /\ graceEntry' = None
    /\ lateDelete' = (lateDelete \/ graceEntry \notin {c, None})
    /\ UNCHANGED <<phase, presence, pc, knows, closed, hub, served, blindCancel>>

GraceForfeits(c) ==
    /\ grace[c] = "expired"
    /\ grace' = [grace EXCEPT ![c] = "none"]
    /\ presence' = IF InGame THEN "FORFEITED" ELSE presence
    /\ UNCHANGED <<phase, pc, knows, closed, hub, graceEntry, served, blindCancel, lateDelete>>

-----------------------------------------------------------------------------
(* The game, as far as this player's connections see it. *)

\* StartGame of the room service stores the GameID in the room, ...
StartGame ==
    /\ phase = "waiting" /\ phase' = "starting"
    /\ UNCHANGED <<presence, pc, knows, closed, hub, grace, graceEntry, served, blindCancel, lateDelete>>

\* ... and NotifyGameStarted writes it to the registered connections.
NotifyGameStarted ==
    /\ phase = "starting" /\ phase' = "started"
    /\ knows' = [c \in Conn |-> knows[c] \/ c = hub]
    /\ served' = IF hub = None THEN served ELSE served \cup {hub}
    /\ UNCHANGED <<presence, pc, closed, hub, grace, graceEntry, blindCancel, lateDelete>>

\* checkAbsentTurnAndForfeit: the last of a disconnected player's turns is over.
Exclude ==
    /\ InGame /\ presence = "DISCONNECTED"
    /\ presence' = "FORFEITED"
    /\ UNCHANGED <<phase, pc, knows, closed, hub, grace, graceEntry, served, blindCancel, lateDelete>>

\* The game ends and its state is deleted.
GameOver ==
    /\ phase = "started" /\ phase' = "over"
    /\ UNCHANGED <<presence, pc, knows, closed, hub, grace, graceEntry, served, blindCancel, lateDelete>>

SessionNext ==
    \/ \E c \in Conn :
          \/ Authenticate(c)
          \/ RegisterWithHub(c)
          \/ CancelGrace(c)
          \/ Activate(c)
          \/ Leave(c)
          \/ ReadFails(c)
          \/ Unregister(c)
          \/ MarkDisconnected(c)
          \/ StartGrace(c)
          \/ GraceRunsOut(c)
          \/ GraceExpires(c)
          \/ GraceForfeits(c)
    \/ StartGame
    \/ NotifyGameStarted
    \/ Exclude
    \/ GameOver

SessionSpec == SessionInit /\ [][SessionNext]_session

-----------------------------------------------------------------------------
(* Properties. *)

Place == {"idle", "gone", "reading"} \cup DOMAIN Following

\* Every goroutine is somewhere in HandleWS; a connection that has not been
\* opened has no game and is not closed.
TypeOK ==
    /\ phase \in {"waiting", "starting", "started", "over"}
    /\ presence \in {"ACTIVE", "DISCONNECTED", "FORFEITED"}
    /\ pc \in [Conn -> Place]
    /\ knows \in [Conn -> BOOLEAN]
    /\ closed \subseteq Conn /\ served \subseteq Conn
    /\ hub \in Conn \cup {None}
    /\ grace \in [Conn -> {"none", "waiting", "ranOut", "expired"}]
    /\ graceEntry \in Conn \cup {None} /\ blindCancel \in BOOLEAN /\ lateDelete \in BOOLEAN
    /\ \A c \in Conn : At(c, "idle") => ~ knows[c] /\ c \notin closed

\* A connection the server has not closed and whose reads have not failed gets
\* the room's broadcasts, however late the goodbyes of older connections come
\* (Unregister: "Only removes if the stored connection matches").
OpenIsRegistered ==
    \A c \in Conn :
        pc[c] \in {"cancelGrace", "activate", "reading"} /\ c \notin closed => hub = c

\* A player the game shows as disconnected is on the way back in or out: its
\* grace timer runs or is about to be started, or a new connection is about to
\* make it active.  No order of cancel, status and start loses it
\* (HandleWS against handleDisconnect and startGraceTimer), unless a connection
\* that was authenticated before the game began stops the timer: it does not
\* make the player active.
NobodyIsForgotten ==
    InGame /\ presence = "DISCONNECTED" /\ ~ blindCancel =>
        \E c \in Conn : \/ grace[c] # "none"
                        \/ At(c, "startGrace") /\ knows[c]
                        \/ At(c, "activate") /\ knows[c]

\* A player whose connections are all gone is not shown as active, so that its
\* missed turns are counted: each connection's last word is DISCONNECTED, and
\* it comes after its own ACTIVE (Activate, MarkDisconnected).
AbsentIsNotActive ==
    InGame /\ served # {} /\ (\A c \in Conn : pc[c] \in {"idle", "register", "startGrace", "gone"})
        => presence # "ACTIVE"

\* A grace timer that still runs can be stopped by the next connection: it is
\* the one in the map (startGraceTimer cancels what it replaces), however late
\* a cancel comes.  The one way out of the map without a cancel: a timer that has
\* run out deletes by the player's key, and the entry is by then the timer of a
\* later connection that has come and gone in between.
RunningTimerIsInTheMap ==
    ~ lateDelete => \A c \in Conn : grace[c] = "waiting" => graceEntry = c

=============================================================================
