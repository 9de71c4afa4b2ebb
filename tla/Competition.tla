---- MODULE Competition ----
(***************************************************************************)
(* The SOAP competition service: match sessions, the reports of their      *)
(* players, and the statistics credited when a match is finalized.         *)
(*                                                                         *)
(* A request is handled without suspending, so requests do not interleave; *)
(* but every crud function commits by itself, and a request that is cut    *)
(* off (a database error, the end of the process) leaves the commits it    *)
(* has made.  A SubmitReport is therefore a sequence of steps, one per     *)
(* commit, any of which may be the last.                                   *)
(*                                                                         *)
(* Ratings are those of the ladder the match counts for.  The floating     *)
(* point of the rating arithmetic is replaced by twenty-thousandths.       *)
(***************************************************************************)
EXTENDS Integers, Sequences, FiniteSets, FiniteSetsExt

CONSTANTS Matches,    \* the sessions the server may create, csids
          NoMatch,    \* a csid the server never created
          Players,    \* the personas; all play in every match
          MaxReports, \* bound on the reports of a match
          MaxLost,    \* bound on the reports of the unknown csid
          Points,     \* the sum of the players' ratings before their matches
          Ratings,    \* ratings of a player before his matches
          Earlier,    \* rated games before these matches, as many for every player
          Forms,      \* how a report may be: naming its sender by persona id, or not, or unreadable
          Cut,        \* may a request be cut off
          Idle        \* no request is being handled

Csids == Matches \cup {NoMatch}

\* A SubmitReport that is being handled: how far it is, the reports whose senders
\* are still to be updated, and the ratings of the reporters before the match.
Requests == [csid : Csids, persona : Players, final : BOOLEAN,
             at : {"stored", "marked", "counted", "updating", "rating", "finishing"},
             left : SUBSET (1 .. MaxReports), elo : [1 .. MaxReports -> Nat]]

ASSUME CompetitionAssumption ==
  /\ IsFiniteSet(Matches) /\ IsFiniteSet(Players)
  /\ NoMatch \notin Matches
  /\ MaxReports \in Nat /\ MaxLost \in 0 .. MaxReports
  /\ Points \in Nat /\ Earlier \in Nat
  /\ Ratings \subseteq {r \in Nat : r >= 100}
  /\ Forms \subseteq {"named", "unnamed", "unreadable"}
  /\ Cut \in BOOLEAN
  /\ Idle \notin Requests

VARIABLES outcome,  \* what happened in a match: who was on which side, and whether ranked
          session,  \* CompetitionSession: received_reports, finalized, status, or none
          intents,  \* PlayerReportIntent of the newest ccid of a player
          reports,  \* MatchReport rows of a csid, oldest first
          stats,    \* PlayerStats: wins, losses, rated games and the rating
          request,  \* the SubmitReport being handled, and how far it is
          cuts      \* how many requests were cut off while they updated statistics

vars == <<outcome, session, intents, reports, stats, request, cuts>>

Results == {"win", "loss", "disconnect"}

\* What may happen in a match: somebody wins and somebody does not.
Outcomes == {o \in [result : [Players -> Results], ranked : BOOLEAN] :
               \E p, q \in Players : o.result[p] = "win" /\ o.result[q] # "win"}

Created(m) == m \in Matches /\ session[m].status # "none"

Report == [persona : Players, result : {0, 1}, ranked : BOOLEAN]

\* The entries of player_results: the first report of each reporter, by its place
\* among the reports, which is also the order the reporters are updated in.
FirstReports(m) ==
  {n \in DOMAIN reports[m] : \A i \in 1 .. (n - 1) : reports[m][i].persona # reports[m][n].persona}

\* The rows and the request stay well typed, and the received reports of a
\* session never exceed its stored ones.
CompetitionTypeOK ==
  /\ outcome \in [Matches -> Outcomes]
  /\ session \in [Matches -> [status : {"none", "active", "completed"},
                              received : 0 .. MaxReports, finalized : BOOLEAN]]
  /\ intents \in [Matches -> [Players -> {"none", "open", "reported"}]]
  /\ reports \in [Csids -> UNION {[1 .. n -> Report] : n \in 0 .. MaxReports}]
  /\ stats \in [Players -> [wins : Nat, losses : Nat, games : Nat, rating : Nat]]
  /\ \A p \in Players : stats[p].rating >= 100
  /\ \/ request = Idle
     \/ request \in Requests /\ request.left \subseteq FirstReports(request.csid)
  /\ cuts \in Nat
  /\ \A m \in Matches : session[m].received <= Len(reports[m])

\* No rating has been looked up yet.
NoElo == [n \in 1 .. MaxReports |-> 0]

Init ==
  /\ outcome \in [Matches -> Outcomes]
  /\ session = [m \in Matches |-> [status |-> "none", received |-> 0, finalized |-> FALSE]]
  /\ intents = [m \in Matches |-> [p \in Players |-> "none"]]
  /\ reports = [m \in Csids |-> <<>>]
  /\ \E r \in [Players -> Ratings] :
       /\ MapThenSumSet(LAMBDA p : r[p], Players) = Points
       /\ stats = [p \in Players |-> [wins |-> 0, losses |-> 0, games |-> 0, rating |-> r[p]]]
  /\ request = Idle
  /\ cuts = 0

\* handle_create_session
CreateSession(m) ==
  /\ request = Idle
  /\ ~Created(m)
  /\ session' = [session EXCEPT ![m].status = "active"]
  /\ UNCHANGED <<outcome, intents, reports, stats, request, cuts>>

\* handle_set_report_intention of a session that exists: a new ccid each time.
SetReportIntention(m, p) ==
  /\ request = Idle
  /\ Created(m)
  /\ intents' = [intents EXCEPT ![m][p] = "open"]
  /\ UNCHANGED <<outcome, session, reports, stats, request, cuts>>

\* A mutant: only a loss is stored as one.
StoredResultLossOnly(m, p, final, form) == IF outcome[m].result[p] = "loss" THEN 1 ELSE 0

\* The result that is stored for the sender of a report, 0 for a win.  It is the
\* one of the entry that bears the sender's persona id; without such an entry,
\* that of the only entry of a partial report, the opposite of the first stored
\* result when there are two entries, and otherwise a win.  A report that cannot
\* be read is a win.
StoredResult(m, p, final, form) ==
  IF form = "named" \/ (form = "unnamed" /\ ~final)
  THEN IF outcome[m].result[p] = "win" THEN 0 ELSE 1
  ELSE IF final /\ Cardinality(Players) = 2 /\ reports[m] # <<>>
       THEN 1 - reports[m][1].result
       ELSE 0

\* The game type of a report is ranked only when none of its entries is a
\* disconnect; a partial report may lack it.
RankedAs(m, p, final, form) ==
  LET listed == IF final THEN Players ELSE {p}
      all == outcome[m].ranked /\ \A q \in listed : outcome[m].result[q] # "disconnect"
  IN CASE form = "unreadable" -> {FALSE}
       [] form # "unreadable" /\ final -> {all}
       [] OTHER -> {all, FALSE}

\* handle_submit_report parses the report and stores it: its first commit.  A
\* client that set its intention sends the ccid it got, from which the server
\* takes the persona; a report for an unknown csid is stored as well.
Submit(m, p, final, form, ranked) ==
  /\ request = Idle
  /\ m \in Matches => intents[m][p] # "none"
  /\ form = "unreadable" => ~final
  /\ Len(reports[m]) < IF m \in Matches THEN MaxReports ELSE MaxLost
  /\ reports' = [reports EXCEPT ![m] =
       Append(@, [persona |-> p, ranked |-> ranked,
                  result |-> IF m \in Matches THEN StoredResult(m, p, final, form) ELSE 0])]
  /\ request' = [csid |-> m, persona |-> p, final |-> final, at |-> "stored",
                left |-> {}, elo |-> NoElo]
  /\ UNCHANGED <<outcome, session, intents, stats, cuts>>

At(step) == request # Idle /\ request.at = step

\* mark_report_intent_reported
MarkReported ==
  /\ At("stored")
  /\ intents' = IF request.csid \in Matches
                THEN [intents EXCEPT ![request.csid][request.persona] = "reported"]
                ELSE intents
  /\ request' = [request EXCEPT !.at = "marked"]
  /\ UNCHANGED <<outcome, session, reports, stats, cuts>>

\* increment_received_reports, which finds no session for an unknown csid
IncrementReceived ==
  /\ At("marked")
  /\ session' = IF Created(request.csid)
                THEN [session EXCEPT ![request.csid].received = @ + 1]
                ELSE session
  /\ request' = [request EXCEPT !.at = "counted"]
  /\ UNCHANGED <<outcome, intents, reports, stats, cuts>>

\* complete_competition_session, after a report that is not final
CompleteSession ==
  /\ At("counted")
  /\ ~(request.final /\ Created(request.csid))
  /\ session' = IF Created(request.csid)
                THEN [session EXCEPT ![request.csid].status = "completed"]
                ELSE session
  /\ request' = Idle
  /\ UNCHANGED <<outcome, intents, reports, stats, cuts>>

\* finalize_match goes by the highest game type of all reports.
RankedMatch(m) == \E i \in DOMAIN reports[m] : reports[m][i].ranked

\* The ratings before the match: a player's own first report tells in which ladder
\* to look, and 1200 stands for the rating of a report without a ladder.
CurrentElo(m) ==
  [n \in 1 .. MaxReports |-> IF n \in FirstReports(m)
                             THEN IF reports[m][n].ranked THEN stats[reports[m][n].persona].rating ELSE 1200
                             ELSE 0]

\* A mutant: a finalized session is finalized again.
BeginFinalizeAgain ==
  /\ At("counted")
  /\ request.final /\ Created(request.csid)
  /\ LET players == FirstReports(request.csid) IN
     request' = IF Cardinality(players) >= 2
                THEN [request EXCEPT !.at = "updating", !.left = players,
                                     !.elo = CurrentElo(request.csid)]
                ELSE [request EXCEPT !.at = "finishing"]
  /\ UNCHANGED <<outcome, session, intents, reports, stats, cuts>>

\* finalize_match, up to its first update: nothing for a session that is
\* finalized; one reporter alone gets no update.
BeginFinalize ==
  /\ At("counted")
  /\ request.final /\ Created(request.csid)
  /\ LET players == FirstReports(request.csid) IN
     request' = IF session[request.csid].finalized THEN Idle
                ELSE IF Cardinality(players) >= 2
                     THEN [request EXCEPT !.at = "updating", !.left = players,
                                          !.elo = CurrentElo(request.csid)]
                     ELSE [request EXCEPT !.at = "finishing"]
  /\ UNCHANGED <<outcome, session, intents, reports, stats, cuts>>

\* A mutant: the last player is left out.
NextPlayerStops(n) == [request EXCEPT !.left = @ \ {n},
                                      !.at = IF Cardinality(request.left) <= 2 THEN "finishing" ELSE "updating"]

\* The request with the player of report n done.
NextPlayer(n) == [request EXCEPT !.left = @ \ {n},
                                 !.at = IF request.left = {n} THEN "finishing" ELSE "updating"]

\* The report whose player is at hand.
IsNext(n) == \A i \in request.left : n <= i

\* A mutant: a player's rating is updated by the game type of his own report.
UpdateWinLossOwnType ==
  /\ At("updating")
  /\ \E n \in request.left :
       /\ IsNext(n)
       /\ LET report == reports[request.csid][n]
              own == {i \in DOMAIN reports[request.csid] : reports[request.csid][i].persona = report.persona}
          IN /\ stats' = IF report.result = 0
                         THEN [stats EXCEPT ![report.persona].wins = @ + 1]
                         ELSE [stats EXCEPT ![report.persona].losses = @ + 1]
             /\ request' = IF \E i \in own : reports[request.csid][i].ranked
                           THEN [request EXCEPT !.at = "rating"] ELSE NextPlayer(n)
  /\ UNCHANGED <<outcome, session, intents, reports, cuts>>

\* update_player_win_loss for the next player
UpdateWinLoss ==
  /\ At("updating")
  /\ \E n \in request.left :
       /\ IsNext(n)
       /\ LET report == reports[request.csid][n] IN
          stats' = IF report.result = 0
                   THEN [stats EXCEPT ![report.persona].wins = @ + 1]
                   ELSE [stats EXCEPT ![report.persona].losses = @ + 1]
       /\ request' = IF RankedMatch(request.csid) THEN [request EXCEPT !.at = "rating"] ELSE NextPlayer(n)
  /\ UNCHANGED <<outcome, session, intents, reports, cuts>>

\* A score of one, in the units scores are counted in.
One == 20000

\* calculate_expected_score for a difference of ratings: the curve is taken at
\* hundreds and is straight between them, and flat from 800 on.  It is odd but for
\* equal ratings, so that, as in the code, no rating ever changes by a half.
Curve == <<5000, 6401, 7597, 8490, 9091, 9468, 9693, 9825, 9901, 9901>>

Above(gap) ==
  LET d == IF gap > 800 THEN 800 ELSE gap
      i == 1 + (d \div 100)
      score == Curve[i] + ((Curve[i + 1] - Curve[i]) * (d % 100)) \div 100
  IN IF gap = 0 THEN 2 * score ELSE 2 * score + 1

ExpectedScore(rating, opponent) ==
  IF rating >= opponent THEN Above(rating - opponent) ELSE One - Above(opponent - rating)

\* get_k_factor
KFactor(games, rating) ==
  IF rating >= 2400 THEN 10 ELSE IF games < 30 THEN 40 ELSE 20

\* round(), of what is not a half
Rounded(x) == (x + One \div 2) \div One

\* A mutant: the floor of 100 is left out.
NewEloNoFloor(rating, opponent, won, k) ==
  LET score == IF won THEN One ELSE 0
  IN Rounded(One * rating + k * (score - ExpectedScore(rating, opponent)))

\* calculate_new_elo
NewElo(rating, opponent, won, k) ==
  LET score == IF won THEN One ELSE 0
      new == Rounded(One * rating + k * (score - ExpectedScore(rating, opponent)))
  IN IF new > 100 THEN new ELSE 100

\* A mutant: the opponent's rating is looked up when it is needed.
OpponentEloLate(n) ==
  LET rows == reports[request.csid]
      other == {i \in FirstReports(request.csid) : rows[i].result # rows[n].result}
  IN IF other = {} THEN 1200
     ELSE MapThenSumSet(LAMBDA i : stats[rows[i].persona].rating, other) \div Cardinality(other)

\* The average of the ratings of the other side, 1200 if nobody of it has reported.
OpponentElo(n) ==
  LET rows == reports[request.csid]
      other == {i \in FirstReports(request.csid) : rows[i].result # rows[n].result}
  IN IF other = {} THEN 1200
     ELSE MapThenSumSet(LAMBDA i : request.elo[i], other) \div Cardinality(other)

\* update_player_elo for the same player.  No stored result is a disconnect, so that
\* its penalty is never applied.
UpdateElo ==
  /\ At("rating")
  /\ \E n \in request.left :
       /\ IsNext(n)
       /\ LET report == reports[request.csid][n]
              p == report.persona
              k == KFactor(Earlier + stats[p].games, stats[p].rating)
          IN stats' = [stats EXCEPT ![p].games = @ + 1,
                                    ![p].rating = NewElo(@, OpponentElo(n), report.result = 0, k)]
       /\ request' = NextPlayer(n)
  /\ UNCHANGED <<outcome, session, intents, reports, cuts>>

\* The last commit of finalize_match
MarkFinalized ==
  /\ At("finishing")
  /\ session' = [session EXCEPT ![request.csid].finalized = TRUE,
                                ![request.csid].status = "completed"]
  /\ request' = Idle
  /\ UNCHANGED <<outcome, intents, reports, stats, cuts>>

\* The request ends between two commits.
CutOff ==
  /\ Cut
  /\ request # Idle
  /\ request' = Idle
  /\ cuts' = IF request.at \in {"updating", "rating", "finishing"} THEN cuts + 1 ELSE cuts
  /\ UNCHANGED <<outcome, session, intents, reports, stats>>

\* The steps of a request that is being handled.
Handle == \/ MarkReported \/ IncrementReceived \/ CompleteSession
          \/ BeginFinalize \/ UpdateWinLoss \/ UpdateElo \/ MarkFinalized

Next ==
  \/ \E m \in Matches : CreateSession(m)
  \/ \E m \in Matches, p \in Players : SetReportIntention(m, p)
  \/ \E m \in Matches, p \in Players, final \in BOOLEAN, form \in Forms :
       \E ranked \in RankedAs(m, p, final, form) : Submit(m, p, final, form, ranked)
  \/ \E p \in Players, final \in BOOLEAN : Submit(NoMatch, p, final, "named", FALSE)
  \/ Handle
  \/ CutOff

Spec == Init /\ [][Next]_vars

Sent(m, p) == \E i \in DOMAIN reports[m] : reports[m][i].persona = p

\* A match counts for a player once it is finalized, or while it is being so.
Finalizing(m) ==
  \/ session[m].finalized
  \/ request # Idle /\ request.csid = m /\ request.at \in {"updating", "rating", "finishing"}

\* However often a match is reported, a player's statistics hold it once, and only
\* when it was finalized with a report of his (finalize_match:
\* "comp_session.finalized"); a request that was cut off while it counted can make
\* that once more, and no more games are rated than are counted.
CountedOnce ==
  \A p \in Players :
    /\ stats[p].wins + stats[p].losses
         <= Cardinality({m \in Matches : Finalizing(m) /\ Sent(m, p)}) + cuts
    /\ stats[p].games <= stats[p].wins + stats[p].losses

\* The oldest stored report of a match tells the truth.
FirstIsTrue(m) ==
  reports[m] # <<>> =>
    (reports[m][1].result = 0 <=> outcome[m].result[reports[m][1].persona] = "win")

\* As long as the oldest stored report of a match is true, a player has no wins but
\* of matches he won and no losses but of matches he did not win, whether reports
\* are partial or final and, of two players, whether or not they name their sender.
\* (A final report that does not name its sender and comes first is stored as a
\* win; it is counted if its request is cut off before it finalizes the match.)
WinsAreTrue ==
  (\A m \in Matches : FirstIsTrue(m)) =>
    \A p \in Players :
      LET won == {m \in Matches : outcome[m].result[p] = "win"} IN
      /\ stats[p].wins <= Cardinality(won) * (1 + cuts)
      /\ stats[p].losses <= Cardinality(Matches \ won) * (1 + cuts)

\* Between two requests the opponents of a ladder of two have played the same
\* matches: each win of one is a loss of the other, and the same number of games
\* was rated for both, although each sent reports of his own, unless a request was
\* cut off between the two or the oldest report is not true.
OpponentsAgree ==
  request = Idle /\ cuts = 0 /\ (\A m \in Matches : FirstIsTrue(m)) =>
    \A p, q \in Players : p # q => stats[p].wins = stats[q].losses /\ stats[p].games = stats[q].games

\* Under the same conditions what one of them gains in rating the other loses, but
\* for the floor of 100, the K-factor of an elite player and reports whose ladder
\* is missing.  This is of players who have played equally many games (Earlier): a
\* newcomer and a veteran differ in their K-factors, and then in gain and loss.
RatingsMirror ==
  request = Idle /\ cuts = 0 /\ (\A m \in Matches : FirstIsTrue(m)) =>
    \A p, q \in Players : p # q =>
      \/ stats[p].rating + stats[q].rating = Points
      \/ stats[p].rating = 100 \/ stats[q].rating = 100
      \/ stats[p].rating >= 2390 \/ stats[q].rating >= 2390
      \/ \E m \in Matches : \E i \in DOMAIN reports[m] :
           outcome[m].ranked /\ ~reports[m][i].ranked

\* A match with two reporters or more is never marked finalized before it is in the
\* statistics of all of them, even when earlier attempts to finalize it were cut off.
EveryoneIsCounted ==
  [][\A m \in Matches :
       (session'[m].finalized /\ ~session[m].finalized /\ Cardinality(FirstReports(m)) >= 2) =>
         \A p \in Players : Sent(m, p) => stats[p].wins + stats[p].losses >= 1]_vars

\* Once a match is finalized, it is in the statistics of everyone who reported it
\* (competition_service.py:451, "all players have reported").
ReportersAreCounted ==
  request = Idle =>
    \A p \in Players :
      stats[p].wins + stats[p].losses >=
        Cardinality({m \in Matches : session[m].finalized /\ Sent(m, p)})

\* A player who disconnected is stored as such when his match is finalized with a
\* report of his (ELO_AND_RANKINGS.md:49, the disconnect penalty).
DisconnectsAreStored ==
  \A m \in Matches, p \in Players :
    session[m].finalized /\ Sent(m, p) /\ outcome[m].result[p] = "disconnect" =>
      \E i \in DOMAIN reports[m] : reports[m][i].persona = p /\ reports[m][i].result = 3
====
