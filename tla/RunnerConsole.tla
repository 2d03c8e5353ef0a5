--------------------------- MODULE RunnerConsole ----------------------------
(***************************************************************************)
(* The admin's console for seeded playtests: tabs that choose a scenario   *)
(* and a seed and start a run (PlaytestS4Page), the route that runs the    *)
(* script in a process of its own and keeps a history file (route.ts,      *)
(* playtest-s4-server), and the script (playtest-s4-seeded.mjs), which     *)
(* judges one scenario with a harness.                                     *)
(*                                                                         *)
(* A run is a number, a seed a uint64 or not.  The history is a file that  *)
(* is read, extended and written back, and a write empties it first.  Left *)
(* out: times, the clipboard, the lists of recent seeds and of the history *)
(* on the page, and the YAML of a scenario.                                *)
(***************************************************************************)
EXTENDS Integers, Sequences, FiniteSets

CONSTANTS
    Tabs,
    ScenarioIds,
    MAX_HISTORY,
    MaxRuns       \* bound: runs started, over all tabs

ASSUME ConsoleAssumption == "none" \notin Tabs /\ MAX_HISTORY \in Nat /\ MaxRuns \in Nat

VARIABLES
    known,   \* the scenarios there are files for
    page,    \* of a tab: [scenario, running, result, error]
    route,   \* of a run: [at, tab, scenario, status, entries]
    file,    \* the history file: the runs, the latest first
    torn,    \* the file is empty, its new content not yet written
    recorded,  \* runs whose route finished writing them down
    overlapped \* two routes were at the history at once

history == <<file, torn, recorded, overlapped>>
console == <<known, page, route, history>>

Runs == 1 .. MaxRuns
NoRun == 0
Started(t) == {r \in Runs : route[r].tab = t}
NotYet == [at |-> "none", tab |-> "none", scenario |-> "none", status |-> "none", entries |-> <<>>]

ConsoleInit ==
    /\ known = ScenarioIds
    /\ \E s \in ScenarioIds :
          page = [t \in Tabs |-> [scenario |-> s, running |-> NoRun, result |-> NoRun,
                                  error |-> FALSE]]
    /\ route = [r \in Runs |-> NotYet]
    /\ file = <<>> /\ torn = FALSE
    /\ recorded = <<>> /\ overlapped = FALSE

Becomes(t, p) == page' = [page EXCEPT ![t] = p]

-----------------------------------------------------------------------------
(* The page *)

Cleared(p) == [p EXCEPT !.result = NoRun, !.error = FALSE]

\* handleScenarioChange and handleApplyRecent, which also bring a seed, and
\* the seed's own field clear what is shown.
Choose(t) ==
    /\ \E s \in ScenarioIds : Becomes(t, Cleared([page[t] EXCEPT !.scenario = s]))
    /\ UNCHANGED <<known, route, history>>

\* The page and the route ask the same of a seed: hexadecimal of up to 16
\* digits, or decimal below 2^64 (isValidSeedInput, validateSeed).
IsValidSeed(seed) == seed = "uint64"
CanRun(p, seed) == p.running = NoRun /\ IsValidSeed(seed)

\* Mutant of Begun: the outcome before stays on the screen.
BegunOverTheLast(p) == [p EXCEPT !.error = FALSE]
Begun(p) == Cleared(p)

HandleRun(t) ==
    \E r \in Runs, seed \in {"uint64", "other"} :
        /\ CanRun(page[t], seed) /\ route[r] = NotYet /\ \A q \in Runs : q < r => route[q] # NotYet
        /\ Becomes(t, [Begun(page[t]) EXCEPT !.running = r])
        /\ route' = [route EXCEPT ![r] = [NotYet EXCEPT !.at = "asked", !.tab = t,
                                                        !.scenario = page[t].scenario]]
        /\ UNCHANGED <<known, history>>

\* The answer: a result, or an error in its place.
RunAnswered(t) ==
    LET r == page[t].running IN
    /\ r # NoRun /\ route[r].at = "answered"
    /\ Becomes(t, IF route[r].status = "ERROR" THEN [page[t] EXCEPT !.running = NoRun, !.error = TRUE]
                  ELSE [page[t] EXCEPT !.running = NoRun, !.result = r])
    /\ UNCHANGED <<known, route, history>>

\* The connection fails; the route goes on without the page.
RunLost(t) ==
    /\ page[t].running # NoRun
    /\ Becomes(t, [page[t] EXCEPT !.running = NoRun, !.error = TRUE])
    /\ UNCHANGED <<known, route, history>>

\* ResultPanel: what the page shows.
ResultPanel(t) ==
    IF page[t].running # NoRun /\ page[t].result = NoRun THEN "running"
    ELSE IF page[t].error THEN "error"
    ELSE IF page[t].result = NoRun THEN "empty"
    ELSE "result"

-----------------------------------------------------------------------------
(* The route and the script *)

\* The file of a scenario is removed, or put back (loadScenarios reads them
\* for every request).
ScenariosChange ==
    /\ \E s \in ScenarioIds : known' = IF s \in known THEN known \ {s} ELSE known \cup {s}
    /\ UNCHANGED <<page, route, history>>

Goes(r, next) == route' = [route EXCEPT ![r] = next]

\* loadScenarios reads the directory for every request.
Known(r) == route[r].scenario \in known
Fails(r) == Goes(r, [route[r] EXCEPT !.at = "answered", !.status = "ERROR"])

\* A scenario that is gone is refused (the page vouches for the seed).
RefuseUnknown(r) ==
    /\ route[r].at = "asked" /\ ~Known(r)
    /\ Fails(r)
    /\ UNCHANGED <<known, page, history>>

\* The script's verdict is the harness's; without a result in its output
\* (timeout, no build) there is none.
Runner(r) ==
    /\ route[r].at = "asked" /\ Known(r)
    /\ \/ Fails(r)
       \/ \E s \in {"PASS", "FAIL"} : Goes(r, [route[r] EXCEPT !.at = "ran", !.status = s])
    /\ UNCHANGED <<known, page, history>>

AtHistory(r) == route[r].at \in {"read", "torn"}

\* appendHistory reads the file; one that is torn counts as empty.
ReadHistory(r) ==
    /\ route[r].at = "ran"
    /\ Goes(r, [route[r] EXCEPT !.at = "read", !.entries = IF torn THEN <<>> ELSE file])
    /\ overlapped' = (overlapped \/ \E q \in Runs : AtHistory(q))
    /\ UNCHANGED <<known, page, file, torn, recorded>>

WriteBegins(r) ==
    /\ route[r].at = "read"
    /\ Goes(r, [route[r] EXCEPT !.at = "torn"])
    /\ file' = <<>> /\ torn' = TRUE
    /\ UNCHANGED <<known, page, recorded, overlapped>>

\* Mutant of Extended: a full history takes nothing more.
ExtendedWhileRoom(entries, run) ==
    IF Len(entries) = MAX_HISTORY THEN entries ELSE <<run>> \o entries

Extended(entries, run) ==
    LET all == <<run>> \o entries
    IN  SubSeq(all, 1, IF Len(all) > MAX_HISTORY THEN MAX_HISTORY ELSE Len(all))

WriteEnds(r) ==
    /\ route[r].at = "torn"
    /\ Goes(r, [route[r] EXCEPT !.at = "answered", !.entries = <<>>])
    /\ file' = Extended(route[r].entries, r) /\ torn' = FALSE
    /\ recorded' = Append(recorded, r)
    /\ UNCHANGED <<known, page, overlapped>>

-----------------------------------------------------------------------------
Route(r) == RefuseUnknown(r) \/ Runner(r) \/ ReadHistory(r) \/ WriteBegins(r) \/ WriteEnds(r)
ConsoleNext ==
    \/ ScenariosChange
    \/ \E t \in Tabs : Choose(t) \/ HandleRun(t) \/ RunLost(t) \/ RunAnswered(t)
    \/ \E r \in Runs : Route(r)

ConsoleSpec == ConsoleInit /\ [][ConsoleNext]_console

-----------------------------------------------------------------------------
(* Properties *)

\* A tab shows a result when, and only while, it is the one of the last run
\* it started, and that run has one (setResult, ResultPanel).
ShownIsTheLastRun ==
    \A t \in Tabs :
        /\ page[t].running # NoRun => ResultPanel(t) = "running"
        /\ ResultPanel(t) = "result" =>
              /\ route[page[t].result].status \in {"PASS", "FAIL"}
              /\ \A r \in Started(t) : r <= page[t].result

\* As long as no two routes met at the history file, it has the runs in the
\* order in which they were written, the latest ones when there are too many
\* (appendHistory).
ApartRunsAreRecorded ==
    ~overlapped /\ ~torn =>
        /\ Len(file) = IF Len(recorded) > MAX_HISTORY THEN MAX_HISTORY ELSE Len(recorded)
        /\ \A i \in DOMAIN file : file[i] = recorded[Len(recorded) + 1 - i]

\* What a tab of the console shows is the outcome of the last run it started,
\* and the history file has every run of routes that did not overlap
\* (ResultPanel, appendHistory).
ReportsAreKept == ShownIsTheLastRun /\ ApartRunsAreRecorded
=============================================================================
