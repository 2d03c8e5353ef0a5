------------------------------ MODULE RateLimit ------------------------------
(***************************************************************************)
(* The limits on what one user may ask for, on both sides.  The server     *)
(* counts HTTP requests in a key of Redis that expires with its window     *)
(* (middleware/rate_limiter.go) and messages in the memory of each socket  *)
(* (handler/ws_rate_limiter.go); the frontend waits and asks again         *)
(* (lib/api.ts), slows down what it sends (useWebSocket.ts) and says so in *)
(* one toast (rateLimitStore.ts, RateLimitToast.tsx), which every request  *)
(* and the socket share.                                                   *)
(*                                                                         *)
(* A tick is a second.  A timer that is due fires before the next one.     *)
(* Left out: administrators and a server without Redis, neither of which   *)
(* is counted; Redis evicting a key; kinds of message the frontend does    *)
(* not send; a full send buffer; the wording.                              *)
(***************************************************************************)
EXTENDS Integers, FiniteSetsExt

CONSTANTS
    Fetches,       \* apiFetch calls that may be under way together
    MaxRequests,   \* requests of a window
    Window,        \* seconds, of the key and of the socket's counters
    AiCooldown,    \* seconds of the refusal of another game with LLMs
    Types, TypeMax, GlobalMax,  \* messages of a window, of a kind and of all
    DecayThreshold,\* messages in a row that make up for a violation
    ThrottleTicks, \* seconds of slow sending
    MaxInputs      \* bound: calls of apiFetch and messages

VARIABLES
    key,      \* the counter in Redis; no time to live is 0
    fetch,    \* each call
    store,    \* the shared store
    dismiss,  \* seconds until the toast goes, or Off
    throttle, \* seconds of slow sending left, or Off
    mayNotSend,  \* the second of the last throttled message is not over
    socket,
    limiter,  \* the socket's counters
    notes,    \* RATE_LIMITED on their way
    inputs    \* calls of apiFetch and messages so far

http == <<key, fetch>>
ws == <<throttle, mayNotSend, socket, limiter, notes>>
limits == <<http, ws, store, dismiss, inputs>>

Off == -1
MaxRateLimitRetries == 2
Idle == [step |-> "idle", retries |-> 0, wait |-> 0, count |-> 0]
NoKey == [count |-> 0, ttl |-> 0]
NoMessage == [of |-> "none", n |-> 0]
StoreReset == [message |-> NoMessage, cooldown |-> 0, total |-> 0, retrying |-> FALSE, stage |-> 0]

NewLimiter ==
    [types |-> [t \in Types |-> 0], global |-> 0, left |-> Window, violations |-> 0, allowed |-> 0]

Less(n) == IF n > 0 THEN n - 1 ELSE n

-----------------------------------------------------------------------------
(* The toast *)

\* toastDuration: six seconds, eight after a second violation.
ToastDuration(s) == IF s.stage = 2 THEN 2 ELSE 1

\* Mutant: the effect runs again for another message, and for nothing else.
TimerOfMessageOnly(old, new) ==
    IF new.message = NoMessage \/ new.cooldown > 0 THEN Off
    ELSE IF old.message # new.message THEN ToastDuration(new) ELSE dismiss

\* The two effects of RateLimitToast: no timer without a message or while a
\* cooldown runs, a new one whenever what they depend on is another.
ToastTimer(old, new) ==
    IF new.message = NoMessage \/ new.cooldown > 0 THEN Off
    ELSE IF <<old.message, old.cooldown, ToastDuration(old)>>
              # <<new.message, new.cooldown, ToastDuration(new)>>
         THEN IF new.total > 0 THEN 1 ELSE ToastDuration(new)
         ELSE dismiss

SetStore(s) == store' = s /\ dismiss' = ToastTimer(store, s)

StartCooldown(s, sec) == [s EXCEPT !.cooldown = sec, !.total = sec]

\* The interval of startCooldown; the total goes with the last second.
CooldownSecond(s) ==
    [s EXCEPT !.cooldown = Less(@), !.total = IF s.cooldown > 1 THEN @ ELSE 0]

\* What is on the screen: the toast, with a wheel while a cooldown runs, and the
\* badge of slow sending.
Toast ==
    [message |-> store.message, orange |-> store.stage = 2,
     wheel |-> store.message # NoMessage /\ store.total > 0 /\ store.cooldown > 0,
     retrying |-> store.message # NoMessage /\ store.retrying]
Badge == throttle # Off

Dismiss == dismiss = 0 /\ SetStore([store EXCEPT !.message = NoMessage]) /\ UNCHANGED <<http, ws, inputs>>

-----------------------------------------------------------------------------
(* Requests: the middleware *)

Step(f, step) == fetch' = [fetch EXCEPT ![f].step = step]

Ask(f) ==
    /\ fetch[f] = Idle /\ inputs < MaxInputs
    /\ Step(f, "sent") /\ inputs' = inputs + 1
    /\ UNCHANGED <<key, store, dismiss, ws>>

\* INCR, which makes the key when there is none; counts past the limit are one.
\* Without an answer of Redis the request is let through.
Incr(f) ==
    /\ fetch[f].step = "sent"
    /\ \/ LET n == Min({key.count + 1, MaxRequests + 1})
          IN  /\ key' = [key EXCEPT !.count = n]
              /\ fetch' = [fetch EXCEPT ![f].step = "counted", ![f].count = n]
       \/ Step(f, "allowed") /\ UNCHANGED key
    /\ UNCHANGED <<inputs, store, dismiss, ws>>

\* EXPIRE on the first of a window; when it fails the key stays for good.
Expire(f) ==
    /\ fetch[f].step = "counted" /\ fetch[f].count = 1
    /\ Step(f, "allowed")
    /\ key' \in {[key EXCEPT !.ttl = IF key.count > 0 THEN Window ELSE 0], key}
    /\ UNCHANGED <<inputs, store, dismiss, ws>>

\* What is left of the window is asked when the request is refused.
Decide(f) ==
    /\ fetch[f].step = "counted" /\ fetch[f].count > 1
    /\ IF fetch[f].count <= MaxRequests THEN Step(f, "allowed")
       ELSE fetch' = [fetch EXCEPT ![f].step = "refused",
                                   ![f].wait = IF key.ttl > 0 THEN key.ttl ELSE Window]
    /\ UNCHANGED <<key, inputs, store, dismiss, ws>>

-----------------------------------------------------------------------------
(* Requests: apiFetch *)

\* Mutant: each attempt counts as the first.
WaitUncounted(f) == fetch' = [fetch EXCEPT ![f].step = "waiting"]

Wait(f) == fetch' = [fetch EXCEPT ![f].step = "waiting", ![f].retries = @ + 1]

\* 429: the toast with its cooldown, then another attempt or an exception.
Refused(f) ==
    LET f0 == fetch[f]
        toast == StartCooldown([store EXCEPT !.message = [of |-> "http", n |-> f0.wait]], f0.wait)
        again == f0.retries < MaxRateLimitRetries
    IN  /\ f0.step = "refused"
        /\ SetStore([toast EXCEPT !.retrying = again])
        /\ IF again THEN Wait(f) ELSE fetch' = [fetch EXCEPT ![f] = Idle]
        /\ UNCHANGED <<key, inputs, ws>>

Resend(f) ==
    /\ fetch[f].step = "waiting" /\ fetch[f].wait = 0
    /\ Step(f, "sent")
    /\ UNCHANGED <<key, inputs, store, dismiss, ws>>

\* An answer; after it the attempts behind it say that they are over.
Succeeds(f) ==
    /\ fetch[f].step = "allowed"
    /\ fetch' = [fetch EXCEPT ![f] = Idle]
    /\ SetStore([store EXCEPT !.retrying = @ /\ fetch[f].retries = 0])
    /\ UNCHANGED <<key, inputs, ws>>

\* An exception, of the answer or for want of one: the attempts behind it end
\* where they wait.  The refusal of another game with LLMs has its own toast.
Throws(f) ==
    /\ \/ /\ fetch[f].step \in {"sent", "counted", "allowed"}
          /\ UNCHANGED <<store, dismiss>>
       \/ /\ fetch[f].step = "allowed"
          /\ SetStore(StartCooldown([store EXCEPT !.message = [of |-> "ai", n |-> 0]], AiCooldown))
    /\ fetch' = [fetch EXCEPT ![f] = Idle]
    /\ UNCHANGED <<key, inputs, ws>>

-----------------------------------------------------------------------------
(* Messages: the limiter of the socket *)

Violated(l) == [l EXCEPT !.violations = @ + 1, !.allowed = 0]

Allowed(l) ==
    IF l.violations = 0 THEN l
    ELSE IF l.allowed + 1 < DecayThreshold THEN [l EXCEPT !.allowed = @ + 1]
    ELSE [l EXCEPT !.violations = @ - 1, !.allowed = 0]

\* check: the window is renewed by the first message after it; a message past
\* the limit of all is not counted among its kind.
Check(l, t) ==
    LET w == IF l.left > 0 THEN l ELSE [l EXCEPT !.types = NewLimiter.types, !.global = 0, !.left = Window]
        c == [w EXCEPT !.global = @ + 1, !.types[t] = @ + 1]
    IN  IF c.global > GlobalMax THEN Violated([w EXCEPT !.global = @ + 1])
        ELSE IF c.types[t] > TypeMax THEN Violated(c) ELSE Allowed(c)

\* send(), and ReadPump: a message past a limit is answered and not handled, the
\* third one closes the socket over what was on its way.
Send(t) ==
    /\ socket = "open" /\ inputs < MaxInputs /\ ~mayNotSend
    /\ inputs' = inputs + 1
    /\ mayNotSend' = Badge
    /\ limiter' = Check(limiter, t)
    /\ LET refused == limiter'.violations > limiter.violations
           close == refused /\ limiter'.violations >= 3
       IN  /\ socket' = IF close THEN "closed" ELSE "open"
           /\ notes' = IF close THEN 0 ELSE IF refused THEN notes + 1 ELSE notes
    /\ UNCHANGED <<http, store, dismiss, throttle>>

\* RATE_LIMITED: the violations the page counts stop at two, as its messages do.
OnRateLimited ==
    /\ notes > 0 /\ notes' = notes - 1
    /\ LET stage == Min({store.stage + 1, 2})
       IN  SetStore([store EXCEPT !.stage = stage, !.message = [of |-> "ws", n |-> stage]])
    /\ throttle' = ThrottleTicks
    /\ UNCHANGED <<http, mayNotSend, socket, limiter, inputs>>

\* Mutant: with the slow sending the violations are forgotten.
ThrottleEndsForgiven ==
    /\ throttle = 0 /\ throttle' = Off /\ mayNotSend' = FALSE
    /\ SetStore([store EXCEPT !.stage = 0])
    /\ UNCHANGED <<http, socket, limiter, notes, inputs>>

ThrottleEnds ==
    /\ throttle = 0 /\ throttle' = Off /\ mayNotSend' = FALSE
    /\ UNCHANGED <<http, store, dismiss, socket, limiter, notes, inputs>>

\* Closed for the rate or by the network, the socket is opened anew.
Reconnect ==
    /\ socket' = "open" /\ limiter' = NewLimiter /\ notes' = 0
    /\ SetStore([store EXCEPT !.stage = 0])
    /\ UNCHANGED <<http, throttle, mayNotSend, inputs>>

\* The game page goes and takes the toast of any request with it; the next game
\* has a socket of its own.
Unmount ==
    /\ socket = "open"
    /\ SetStore(StoreReset)
    /\ socket' = "closed" /\ notes' = 0 /\ throttle' = Off /\ mayNotSend' = FALSE
    /\ UNCHANGED <<http, limiter, inputs>>

-----------------------------------------------------------------------------
Due == dismiss = 0 \/ throttle = 0 \/ \E f \in Fetches : fetch[f].step = "waiting" /\ fetch[f].wait = 0

Running ==
    \/ dismiss # Off \/ throttle # Off \/ store.cooldown > 0
    \/ key.ttl > 0 \/ limiter.left > 0
    \/ \E f \in Fetches : fetch[f].step = "waiting"

SecondPasses ==
    /\ ~Due /\ Running
    /\ LET s == CooldownSecond(store)
       IN  /\ store' = s
           /\ dismiss' = IF s.cooldown = store.cooldown THEN Less(dismiss) ELSE ToastTimer(store, s)
    /\ key' = IF key.ttl = 1 THEN NoKey ELSE [key EXCEPT !.ttl = Less(@)]
    /\ fetch' = [f \in Fetches |-> [fetch[f] EXCEPT !.wait = IF fetch[f].step = "waiting" THEN Less(@) ELSE @]]
    /\ throttle' = Less(throttle) /\ mayNotSend' = FALSE
    /\ limiter' = [limiter EXCEPT !.left = Less(@)]
    /\ UNCHANGED <<socket, notes, inputs>>

LimitsInit ==
    /\ key = NoKey /\ fetch = [f \in Fetches |-> Idle] /\ inputs = 0
    /\ store = StoreReset /\ dismiss = Off
    /\ throttle = Off /\ mayNotSend = FALSE
    /\ socket = "open" /\ limiter = NewLimiter /\ notes = 0

Requests(f) == Incr(f) \/ Expire(f) \/ Decide(f) \/ Refused(f) \/ Resend(f) \/ Succeeds(f) \/ Throws(f)

LimitsNext ==
    \/ \E f \in Fetches : Ask(f) \/ Requests(f)
    \/ \E t \in Types : Send(t)
    \/ OnRateLimited \/ ThrottleEnds \/ Reconnect \/ Unmount
    \/ Dismiss \/ SecondPasses

(* The server answers, answers arrive, and time passes. *)
LimitsFairness ==
    /\ \A f \in Fetches : WF_limits(Requests(f))
    /\ WF_limits(OnRateLimited) /\ WF_limits(ThrottleEnds) /\ WF_limits(Dismiss) /\ WF_limits(SecondPasses)

LimitsSpec == LimitsInit /\ [][LimitsNext]_limits /\ LimitsFairness

-----------------------------------------------------------------------------
(* Properties *)

(* A player whose next violation closes the socket has been shown the      *)
(* warning of the second one: the page's count, which never comes down, is *)
(* not behind the server's, which five good messages lower.                *)
WarnedBeforeClosed ==
    (socket = "open" /\ limiter.violations = 2 /\ notes = 0) => Toast.orange

(* When the player asks for no more, every call comes to an end, though    *)
(* the key it is counted by may never expire and others use up the window  *)
(* it waits for; the toast they share goes, whoever set it last, and so    *)
(* does the badge of slow sending.                                         *)
LimitsLetGo ==
    <>[](Toast.message = NoMessage /\ ~Toast.wheel /\ ~Badge /\ \A f \in Fetches : fetch[f] = Idle)

=============================================================================
