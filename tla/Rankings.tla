------------------------------ MODULE Rankings ------------------------------
(***************************************************************************)
(* The pages that show the ratings: the leaderboard (RankingsClient), the  *)
(* profile of a player (UserRatingClient) and the panel of the dashboard   *)
(* (EloRankingPanel).  The first two ask the server again at every click   *)
(* and take the answers as they come, whichever request they belong to;    *)
(* the panel cuts up what it was given when it was opened.                 *)
(*                                                                         *)
(* The ladder is the tiers of the rated players, the best one first.  A    *)
(* page that is left forgets its state, and what it asked for is ignored.  *)
(* Left out: the viewer's own rating, the numbers of a row, the chart.     *)
(***************************************************************************)
EXTENDS Lists, FiniteSets

CONSTANTS
    Tiers,
    StartLadder,  \* the tiers of the players, by rating
    Limit,        \* entries to a page
    MaxPromotions,\* bound: players who change tier
    MaxLoads      \* bound: requests of one page

VARIABLES
    ladder,
    promoted,
    session,      \* the viewer's session, as far as next-auth has found out
    shown,        \* the page that is open
    asked,        \* requests of it so far
    requests,     \* those that are under way
    inOrder       \* history: they were all answered, in the order they were asked

ASSUME RankingsAssumption ==
    Limit \in Nat \ {0} /\ StartLadder \in Seq(Tiers) /\ "ALL" \notin Tiers

rankings == <<ladder, promoted, session, shown, asked, requests, inOrder>>

All == "ALL"
Filters == Tiers \cup {All}
Nothing == [of |-> "nothing"]

Pages(total) == (total + Limit - 1) \div Limit
PageOf(entries, offset) ==
    SubSeq(entries, offset + 1, IF offset + Limit < Len(entries) THEN offset + Limit
                                ELSE Len(entries))
Filtered(entries, filter) == Keeping(entries, IF filter = All THEN Tiers ELSE {filter})

-----------------------------------------------------------------------------
(* The leaderboard *)

Asks(p, request) ==
    /\ shown' = [p EXCEPT !.loading = TRUE]
    /\ asked' = asked + 1
    /\ requests' = requests \cup {request}

OnRankings == shown.at = "rankings" /\ asked < MaxLoads

LoadRankings(p) == Asks(p, [id |-> asked + 1, of |-> p.filter, offset |-> p.offset])

\* Mutant: the rankings are loaded when the offset changes, and only then.
ShowIfMoved(filter, offset) ==
    LET p == [shown EXCEPT !.filter = filter, !.offset = offset]
    IN  IF offset # shown.offset THEN LoadRankings(p)
        ELSE shown' = p /\ UNCHANGED <<asked, requests>>

\* The effect runs when loadRankings is another function: when the filter or the
\* offset is another one.
Show(filter, offset) ==
    LET p == [shown EXCEPT !.filter = filter, !.offset = offset]
    IN  IF p # shown THEN LoadRankings(p) ELSE UNCHANGED <<shown, asked, requests>>

HandleFilterChange(filter) ==
    /\ OnRankings
    /\ Show(filter, 0)
    /\ UNCHANGED <<ladder, promoted, session, inOrder>>

Refresh ==
    /\ OnRankings
    /\ LoadRankings(shown)
    /\ UNCHANGED <<ladder, promoted, session, inOrder>>

\* The pager goes by the answer that is shown, and stays while another loads.
Paginate ==
    /\ OnRankings /\ shown.response # Nothing
    /\ LET r == shown.response
       IN  /\ Pages(r.total) > 1
           /\ \/ r.offset > 0 /\ Show(shown.filter, IF r.offset > Limit THEN r.offset - Limit ELSE 0)
              \/ r.offset + Limit < r.total /\ Show(shown.filter, r.offset + Limit)
    /\ UNCHANGED <<ladder, promoted, session, inOrder>>

\* ListRankings, ListRankingsByTier.
Respond(r) ==
    [of |-> r.of, offset |-> r.offset, total |-> Len(Filtered(ladder, r.of)),
     rows |-> PageOf(Filtered(ladder, r.of), r.offset)]

\* Mutant: what comes back without an answer leaves the wheel turning.
ReceiveAnswer(p, r, ok) ==
    IF ok THEN [p EXCEPT !.response = Respond(r), !.loading = FALSE] ELSE p

\* setResponse, and in any case the wheel stops.
Receive(p, r, ok) ==
    [p EXCEPT !.response = IF ok THEN Respond(r) ELSE @, !.loading = FALSE]

\* The table: the wheel, nothing at all, the word that nobody is there, the rows.
Body ==
    IF shown.loading THEN "wheel" ELSE IF shown.response = Nothing THEN "blank"
    ELSE IF shown.response.rows = <<>> THEN "empty" ELSE "rows"

RankingsAnswered ==
    /\ shown.at = "rankings"
    /\ \E r \in requests, ok \in BOOLEAN :
           /\ requests' = requests \ {r}
           /\ shown' = Receive(shown, r, ok)
           /\ inOrder' = (inOrder /\ ok /\ \A q \in requests : r.id <= q.id)
    /\ UNCHANGED <<ladder, promoted, session, asked>>

-----------------------------------------------------------------------------
(* The profile *)

\* The rating is public, the history asks for the token of the session.
LoadProfile(p, s) == Asks(p, [id |-> asked + 1, token |-> s = "known"])

\* The session is found out, and again whenever the window gets the focus.
SessionArrives ==
    /\ session' = "known"
    /\ IF shown.at = "profile" THEN asked < MaxLoads /\ LoadProfile(shown, session')
       ELSE session = "unknown" /\ UNCHANGED <<shown, asked, requests>>
    /\ UNCHANGED <<ladder, promoted, inOrder>>

\* Mutant: a history that does not come is an empty one.
SettleBoth(p, rated, told) ==
    [p EXCEPT !.rating = @ \/ rated, !.history = told, !.loading = FALSE]

\* Promise.allSettled: whatever was fulfilled is taken over.
Settle(p, rated, told) ==
    [p EXCEPT !.rating = @ \/ rated, !.history = @ \/ told, !.loading = FALSE]

ProfileScreen(p) ==
    IF p.loading THEN "wheel" ELSE IF p.rating THEN "profile" ELSE "missing"

ProfileAnswered ==
    /\ shown.at = "profile"
    /\ \E r \in requests, rated, told \in BOOLEAN :
           /\ told => r.token
           /\ requests' = requests \ {r}
           /\ shown' = Settle(shown, rated, told)
    /\ UNCHANGED <<ladder, promoted, session, asked, inOrder>>

-----------------------------------------------------------------------------
(* The panel of the dashboard *)

OnPanel == shown.at = "panel"
Entries == Filtered(shown.entries, shown.tier)

\* Mutant: the page stays when the tier changes.
TierKeepingPage(p, tier) == [p EXCEPT !.tier = tier]

HandleTierChange(p, tier) == [p EXCEPT !.tier = tier, !.page = 0]

HandlePrev == [shown EXCEPT !.page = IF @ > 0 THEN @ - 1 ELSE 0]
HandleNext == [shown EXCEPT !.page = IF @ + 1 < Pages(Len(Entries)) THEN @ + 1 ELSE @]

PagedEntries == PageOf(Entries, shown.page * Limit)

\* LeaderboardTable, below the rows: "from - to of total", and its two buttons.
Footer ==
    LET total == Len(Entries)
    IN  [from |-> shown.page * Limit + 1,
         to |-> IF (shown.page + 1) * Limit < total THEN (shown.page + 1) * Limit ELSE total,
         back |-> shown.page > 0, on |-> shown.page + 1 < Pages(total)]

OperatePanel ==
    /\ OnPanel
    /\ \/ \E tier \in Filters : shown' = HandleTierChange(shown, tier)
       \/ Footer.back /\ shown' = HandlePrev
       \/ Footer.on /\ shown' = HandleNext
    /\ UNCHANGED <<ladder, promoted, session, asked, requests, inOrder>>

-----------------------------------------------------------------------------
Opened(p, request) ==
    /\ shown' = p
    /\ asked' = 1 /\ requests' = {request} /\ inOrder' = TRUE
    /\ UNCHANGED <<ladder, promoted, session>>

Rankings ==
    [at |-> "rankings", filter |-> All, offset |-> 0, response |-> Nothing, loading |-> TRUE]
Profile == [at |-> "profile", rating |-> FALSE, history |-> FALSE, loading |-> TRUE]

\* A click on a row, and the way back.
OpenProfile ==
    /\ shown.at = "rankings" /\ Body = "rows"
    /\ Opened(Profile, [id |-> 1, token |-> session = "known"])

BackToRankings ==
    /\ shown.at = "profile"
    /\ Opened(Rankings, [id |-> 1, of |-> All, offset |-> 0])

\* A game ends, and a player is in another tier.
Promote ==
    /\ promoted < MaxPromotions /\ promoted' = promoted + 1
    /\ \E i \in DOMAIN ladder, t \in Tiers : ladder' = [ladder EXCEPT ![i] = t]
    /\ UNCHANGED <<session, shown, asked, requests, inOrder>>

RankingsInit ==
    /\ ladder = StartLadder /\ promoted = 0 /\ session = "unknown" /\ inOrder = TRUE
    /\ \/ shown = Rankings /\ asked = 1
          /\ requests = {[id |-> 1, of |-> All, offset |-> 0]}
       \/ shown = [at |-> "panel", entries |-> ladder, tier |-> All, page |-> 0]
          /\ asked = 0 /\ requests = {}

RankingsNext ==
    \/ \E f \in Filters : HandleFilterChange(f)
    \/ Refresh \/ Paginate \/ RankingsAnswered
    \/ SessionArrives \/ ProfileAnswered
    \/ OperatePanel
    \/ OpenProfile \/ BackToRankings
    \/ Promote

\* A request comes back, with an answer or without.
RankingsFairness == WF_rankings(RankingsAnswered) /\ WF_rankings(ProfileAnswered)

RankingsSpec == RankingsInit /\ [][RankingsNext]_rankings /\ RankingsFairness

-----------------------------------------------------------------------------
(* Properties *)

(* A leaderboard whose requests were all answered in their order shows the *)
(* tab and the page that are chosen, though the pager goes by an answer    *)
(* that may be of the tab before; the panel's page is one that exists,     *)
(* its footer counts the rows above it, and its pages have every entry.    *)
ChosenPageIsShown ==
    /\ (shown.at = "rankings" /\ requests = {} /\ inOrder) =>
           /\ shown.response.of = shown.filter /\ shown.response.offset = shown.offset
           /\ Body \notin {"wheel", "blank"}
    /\ OnPanel =>
           /\ PagedEntries = <<>> => Entries = <<>>
           /\ Entries # <<>> => Len(PagedEntries) = Footer.to - Footer.from + 1
           /\ Footer.on <=> Footer.to < Len(Entries)
           /\ FlattenSeq([k \in 1 .. Pages(Len(Entries)) |-> PageOf(Entries, (k - 1) * Limit)])
                = Entries

(* The wheel stops, whatever fails and however the answers cross; ...      *)
LoadingEnds ==
    (shown.at \in {"rankings", "profile"} /\ shown.loading) ~>
        ~(shown.at \in {"rankings", "profile"} /\ shown.loading)

(* ... and a late or failed load takes nothing off a profile, the first    *)
(* one without a token among them.                                         *)
ProfileIsKept ==
    [][(shown.at = "profile" /\ shown'.at = "profile") =>
           /\ ProfileScreen(shown) = "profile" => ProfileScreen(shown') # "missing"
           /\ shown.history => shown'.history]_rankings

=============================================================================
