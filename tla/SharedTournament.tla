-------------------------- MODULE SharedTournament --------------------------
(***************************************************************************)
(* A tournament that several contests share                                *)
(* (app/shared_tournament_service.py).  Its administrators enter teams,    *)
(* matches, two-legged ties, deadlines and results once; every command     *)
(* copies what it writes into the contests linked to the tournament, in    *)
(* the same transaction.                                                   *)
(*                                                                         *)
(* A contest is linked when it is created and stays so: Contests holds the *)
(* contests that are linked, or may come to be.                            *)
(*                                                                         *)
(* Versions.  A request names the version its page showed and is refused   *)
(* when the row has a newer one.  Versions only grow and are only compared *)
(* for equality, so what counts is whether a page is still up to date:     *)
(* page is the one an administrator left open, forgotten (Outdated) as     *)
(* soon as its version is old, since nothing sent from it is accepted any  *)
(* more.  Every request below comes from a page opened in time, by any     *)
(* administrator.  Repeating a request already carried out is answered     *)
(* without writing, and is a stutter here.                                 *)
(***************************************************************************)
EXTENDS FiniteSets, TwoLeggedTie

CONSTANTS
  Contests,    (* contests                                                *)
  Matches,     (* places for shared matches, bounds how many there are    *)
  Ties,        (* places for shared two-legged ties, likewise             *)
  Teams,       (* teams that may be entered                               *)
  Templates,   (* templates the tournament may have                       *)
  Questions,   (* predictions about the whole tournament that are offered:
                  "champion", "swiss_stage"                               *)
  Goals,       (* goals a side may score; maps won, in a series           *)
  ShootoutGoals, (* goals in a penalty shootout                           *)
  WinsRequired, (* maps that win a series                                 *)
  MaxInstant   (* bound: the last instant of the clock                    *)

ASSUME SharedAssumption ==
  /\ Matches \subseteq Nat \ {0} /\ Ties \subseteq Nat \ {0}
  /\ "none" \notin Teams
  /\ Questions \subseteq {"champion", "swiss_stage"}
  /\ Goals \subseteq Nat /\ ShootoutGoals \subseteq Nat
  /\ WinsRequired \in Nat \ {0} /\ MaxInstant \in Nat \ {0}

VARIABLES
  clock,       (* the present                                             *)
  tournament,  (* shared_tournaments, with the list of its teams          *)
  questions,   (* shared_tournament_settings and the Swiss stage's result *)
  matches,     (* shared_matches                                          *)
  ties,        (* shared_two_legged_ties                                  *)
  final,       (* the match of the bracket's final node, 0 before it      *)
  contests,    (* the linked contests, their copies of the questions      *)
  copies,      (* matches of the contests, shared_match_links             *)
  tieCopies,   (* ties of the contests, shared_tie_links                  *)
  page         (* what an administrator's page shows                      *)

rows == <<matches, ties, final>>
local == <<contests, copies, tieCopies>>
vars == <<clock, tournament, questions, rows, local, page>>

-----------------------------------------------------------------------------
(* Data *)

Instants == 1..MaxInstant
NoTime == 0
Times == {NoTime} \cup Instants
League == "champions_league_2026_27"
Series == "the_international_2026"

Results == {NoScore} \cup (Goals \X Goals)
TeamOrNone == Teams \cup {"none"}

(* A selection of the Swiss stage is represented by one team. *)
Question == [enabled : BOOLEAN, deadline : Times, answer : TeamOrNone]
NoQuestion == [enabled |-> FALSE, deadline |-> NoTime, answer |-> "none"]

MatchStatuses == {"scheduled", "started", "finished"}
MatchRow == [status : MatchStatuses \cup {"none"}, tie : {0} \cup Ties,
             leg : 0..2, home : TeamOrNone, away : TeamOrNone, start : Times,
             score : Results, advancing : TeamOrNone]
NoMatch == [status |-> "none", tie |-> 0, leg |-> 0, home |-> "none", away |-> "none",
            start |-> NoTime, score |-> NoScore, advancing |-> "none"]

TieResult == [winner : {"none", "first", "second"},
              method : {"none", "aggregate", "extra_time", "penalties"},
              extra : Results, shootout : {NoScore} \cup (ShootoutGoals \X ShootoutGoals)]
TieRow == [live : BOOLEAN, first : TeamOrNone, second : TeamOrNone, result : TieResult]
NoTie == [live |-> FALSE, first |-> "none", second |-> "none", result |-> Undecided]

(* The row a contest has for a shared match, and for a shared tie. *)
Copy == [status : MatchStatuses \cup {"none"}, start : Times, score : Results,
         advancing : TeamOrNone]
NoCopy == [status |-> "none", start |-> NoTime, score |-> NoScore, advancing |-> "none"]
TieCopy == [held : BOOLEAN, result : TieResult]
NoTieCopy == [held |-> FALSE, result |-> Undecided]

Contest == [state : {"none", "active", "completed"},
            teams : SUBSET Teams, questions : [Questions -> Question],
            picks : [Questions -> TeamOrNone], picked : [Questions -> Times]]
NoContest ==
  [state |-> "none", teams |-> {}, questions |-> [q \in Questions |-> NoQuestion],
   picks |-> [q \in Questions |-> "none"], picked |-> [q \in Questions |-> NoTime]]

Live == {m \in Matches : matches[m].status \in MatchStatuses}
Standalone == {m \in Live : matches[m].tie = 0}
LiveTies == {t \in Ties : ties[t].live}
Legs(t) == {m \in Live : matches[m].tie = t}
Finished(m) == matches[m].status = "finished"
ScoreOfLeg(t, n) ==
  LET m == CHOOSE x \in Legs(t) : matches[x].leg = n IN matches[m].score

Linked == {c \in Contests : contests[c].state \in {"active", "completed"}}
ActiveContests == {c \in Contests : contests[c].state = "active"}
Active == ~tournament.archived

(* A new row takes the first free place; nothing keeps a deleted row's id. *)
FreeMatches == Matches \ Live
FreeTies == Ties \ LiveTies
First(free) == CHOOSE x \in free : \A y \in free : x =< y

(* _get_completed_champions_league_final_winner_id *)
FinalWinner ==
  IF final \in Standalone /\ Finished(final) THEN matches[final].advancing ELSE "none"

-----------------------------------------------------------------------------
(* Pages.  A page of the tournament shows everything but which of the due  *)
(* matches were marked as started.                                         *)

NoPage == [kind |-> "none", id |-> 0, seen |-> <<>>]
ShownTournament ==
  <<tournament, questions, [m \in Live |-> [matches[m] EXCEPT !.status = Finished(m)]],
    [t \in LiveTies |-> ties[t]]>>
Shown(kind, id) ==
  CASE kind = "match" -> matches[id]
    [] kind = "tie" -> ties[id]
    [] kind = "tournament" -> ShownTournament
    [] OTHER -> <<>>
Showable == ({"match"} \X Live) \cup ({"tie"} \X LiveTies) \cup {<<"tournament", 0>>}

OpenPage(row) ==
  /\ page = NoPage
  /\ page' = [kind |-> row[1], id |-> row[2], seen |-> Shown(row[1], row[2])]
  /\ UNCHANGED <<clock, tournament, questions, rows, local>>

(* version = version + 1 of the given rows *)
Outdate(outdated) ==
  page' = IF <<page.kind, page.id>> \in outdated THEN NoPage ELSE page

(* What every command does last, _touch_tournament among it. *)
Touch(outdated) == Outdate(outdated \cup {<<"tournament", 0>>})

-----------------------------------------------------------------------------
(* The match lifecycle (app/match_lifecycle.py): due matches are marked as *)
(* started by a worker everywhere, and in one contest when it is shown.    *)

Due(row) == row.status = "scheduled" /\ row.start =< clock
Begun_Cancels(row) == IF Due(row) THEN [row EXCEPT !.status = "cancelled"] ELSE row

Begun(row) == IF Due(row) THEN [row EXCEPT !.status = "started"] ELSE row
CopiesBegunIn(cs) ==
  [c \in Contests |-> IF c \in cs THEN [m \in Matches |-> Begun(copies[c][m])] ELSE copies[c]]

StartDueMatches ==
  LET due == {m \in Live : Due(matches[m])}
  IN  /\ matches' = [m \in Matches |-> Begun(matches[m])]
      /\ copies' = CopiesBegunIn(ActiveContests)
      /\ Outdate({"match"} \X due)
      /\ UNCHANGED <<clock, tournament, questions, ties, final, contests, tieCopies>>

ShowContest(c) ==
  /\ c \in ActiveContests
  /\ copies' = CopiesBegunIn({c})
  /\ UNCHANGED <<clock, tournament, questions, rows, contests, tieCopies, page>>

-----------------------------------------------------------------------------
(* Teams, matches and ties *)

(* _shared_tournament_teams_locked *)
TeamsLocked ==
  \/ Live # {}
  \/ \E c \in Linked, q \in Questions : contests[c].picks[q] # "none"
  \/ \E q \in Questions : questions[q].answer # "none"

(* A selection of the Swiss stage must fit the teams: all of them stand for
   the 36 of the League. *)
SwissFits(teams) == IF tournament.template = League THEN teams = Teams ELSE teams # {}
SwissEnabled == \E q \in Questions \ {"champion"} : questions[q].enabled

SaveTeams(teams) ==
  /\ Active /\ ~TeamsLocked
  /\ SwissEnabled => SwissFits(teams)
  /\ tournament' = [tournament EXCEPT !.teams = teams]
  /\ contests' = [c \in Contests |->
       IF c \in Linked THEN [contests[c] EXCEPT !.teams = teams] ELSE contests[c]]
  /\ Touch({})
  /\ UNCHANGED <<clock, questions, rows, copies, tieCopies>>

(* The pair meets already.  In the League only pairs of one round count: a
   final is alone in its round, a tie may be in another one. *)
Opponents(home, away) == home # away /\ {home, away} \subseteq tournament.teams
MeetAlready(home, away) ==
  /\ tournament.template # League
  /\ \E m \in Live : {matches[m].home, matches[m].away} = {home, away}

NewLeg(t, n, home, away, start) ==
  [status |-> "scheduled", tie |-> t, leg |-> n, home |-> home, away |-> away,
   start |-> start, score |-> NoScore, advancing |-> "none"]
NewMatch(home, away, start) == NewLeg(0, 0, home, away, start)
CopyOf_Fixture(row) ==
  [status |-> row.status, start |-> row.start, score |-> NoScore, advancing |-> "none"]

CopyOf(row) ==
  [status |-> row.status, start |-> row.start, score |-> row.score, advancing |-> row.advancing]
CopyOfTie(result) == [held |-> TRUE, result |-> result]

CreateMatch(home, away, start) ==
  LET m == First(FreeMatches)
      row == NewMatch(home, away, start)
  IN  /\ Active /\ FreeMatches # {}
      /\ start > clock
      /\ tournament.template = League => Standalone = {}
      /\ Opponents(home, away) /\ ~MeetAlready(home, away)
      /\ matches' = [matches EXCEPT ![m] = row]
      /\ copies' = [c \in Contests |->
           IF c \in ActiveContests THEN [copies[c] EXCEPT ![m] = CopyOf(row)] ELSE copies[c]]
      /\ Touch({})
      /\ UNCHANGED <<clock, tournament, questions, ties, final, contests, tieCopies>>

CreateTie(first, second, start1, start2) ==
  LET t == First(FreeTies)
      m1 == First(FreeMatches)
      m2 == First(FreeMatches \ {m1})
      leg1 == NewLeg(t, 1, first, second, start1)
      leg2 == NewLeg(t, 2, second, first, start2)
  IN  /\ Active /\ FreeTies # {} /\ Cardinality(FreeMatches) > 1
      /\ clock < start1 /\ start1 < start2
      /\ tournament.template # Series
      /\ Opponents(first, second) /\ ~MeetAlready(first, second)
      /\ ties' = [ties EXCEPT ![t] =
           [live |-> TRUE, first |-> first, second |-> second, result |-> Undecided]]
      /\ matches' = [matches EXCEPT ![m1] = leg1, ![m2] = leg2]
      /\ copies' = [c \in Contests |->
           IF c \in ActiveContests
           THEN [copies[c] EXCEPT ![m1] = CopyOf(leg1), ![m2] = CopyOf(leg2)]
           ELSE copies[c]]
      /\ tieCopies' = [c \in Contests |->
           IF c \in ActiveContests
           THEN [tieCopies[c] EXCEPT ![t] = CopyOfTie(Undecided)]
           ELSE tieCopies[c]]
      /\ Touch({})
      /\ UNCHANGED <<clock, tournament, questions, final, contests>>

Holds(c, m) == copies[c][m].status # "none"

(* The other leg must stay on its side. *)
LegsStayInOrder(m, start) ==
  \A x \in Legs(matches[m].tie) \ {m} :
    IF matches[m].leg = 1 THEN start < matches[x].start ELSE matches[x].start < start
StillOpen(row) == row.status = "scheduled" /\ clock < row.start

UpdateStart(m, start) ==
  LET holders == {c \in Contests : Holds(c, m)}
      t == matches[m].tie
  IN  /\ m \in Live /\ Active
      /\ start > clock /\ start # matches[m].start
      /\ StillOpen(matches[m])
      /\ t # 0 => LegsStayInOrder(m, start)
      /\ \A c \in holders : StillOpen(copies[c][m])
      /\ matches' = [matches EXCEPT ![m].start = start]
      /\ copies' = [c \in Contests |->
           IF c \in holders THEN [copies[c] EXCEPT ![m].start = start] ELSE copies[c]]
      /\ Touch({<<"match", m>>, <<"tie", t>>})
      /\ UNCHANGED <<clock, tournament, questions, ties, final, contests, tieCopies>>

(* The bracket binds its final node to the final match
   (mark_bracket_node_materialized). *)
MarkFinal(m) ==
  /\ tournament.template = League /\ Active
  /\ m \in Standalone /\ final = 0
  /\ final' = m
  /\ UNCHANGED <<clock, tournament, questions, matches, ties, local, page>>

DeleteMatch(m) ==
  /\ m \in Standalone /\ Active
  /\ matches' = [matches EXCEPT ![m] = NoMatch]
  /\ copies' = [c \in Contests |-> [copies[c] EXCEPT ![m] = NoCopy]]
  /\ final' = IF final = m THEN 0 ELSE final
  /\ Touch({<<"match", m>>})
  /\ UNCHANGED <<clock, tournament, questions, ties, contests, tieCopies>>

DeleteTie(t) ==
  LET legs == Legs(t)
  IN  /\ t \in LiveTies /\ Active
      /\ ties' = [ties EXCEPT ![t] = NoTie]
      /\ matches' = [m \in Matches |-> IF m \in legs THEN NoMatch ELSE matches[m]]
      /\ copies' = [c \in Contests |->
           [m \in Matches |-> IF m \in legs THEN NoCopy ELSE copies[c][m]]]
      /\ tieCopies' = [c \in Contests |-> [tieCopies[c] EXCEPT ![t] = NoTieCopy]]
      /\ Touch(({"match"} \X legs) \cup {<<"tie", t>>})
      /\ UNCHANGED <<clock, tournament, questions, final, contests>>

-----------------------------------------------------------------------------
(* Results *)

(* _resolve_advancing_team: a series is decided by the maps won, a match of
   football by its score unless that is level. *)
SeriesWinner(row, score) ==
  CASE score[1] = WinsRequired /\ score[2] < WinsRequired -> row.home
    [] score[2] = WinsRequired /\ score[1] < WinsRequired -> row.away
    [] OTHER -> "none"
Advances(row, score, team) ==
  IF tournament.template = Series THEN team # "none" /\ team = SeriesWinner(row, score)
  ELSE /\ team \in {row.home, row.away}
       /\ score[1] > score[2] => team = row.home
       /\ score[1] < score[2] => team = row.away

(* A result is taken once the match began; the League's provider is trusted
   with the time. *)
ResultTaken(row) == row.status = "finished" \/ row.start =< clock \/ tournament.template = League

Decided(row, score, advancing) ==
  [row EXCEPT !.status = "finished", !.score = score, !.advancing = advancing]
CopiesDecided(m, score, advancing) ==
  [c \in Contests |->
     IF Holds(c, m)
     THEN [copies[c] EXCEPT ![m] = Decided(@, score, advancing)] ELSE copies[c]]
TieCopiesDecided(t, result) ==
  [c \in Contests |->
     IF t \in Ties /\ tieCopies[c][t].held
     THEN [tieCopies[c] EXCEPT ![t].result = result] ELSE tieCopies[c]]

SaveMatchResult(m, score, advancing) ==
  LET row == matches[m]
  IN  /\ m \in Standalone /\ Active /\ ResultTaken(row)
      /\ Advances(row, score, advancing)
      /\ <<row.status, row.score, row.advancing>> # <<"finished", score, advancing>>
      /\ matches' = [matches EXCEPT ![m] = Decided(@, score, advancing)]
      /\ copies' = CopiesDecided(m, score, advancing)
      /\ Touch({<<"match", m>>})
      /\ UNCHANGED <<clock, tournament, questions, ties, final, contests, tieCopies>>

(* The result a leg's new score makes of its tie
   (_reconcile_shared_two_legged_tie_after_match_result). *)
ReconciledTie(m, score) ==
  LET t == matches[m].tie
      of(n) == IF matches[m].leg = n THEN score ELSE ScoreOfLeg(t, n)
  IN  Reconciled(of(1), of(2), ties[t].result)

TieOutdated_Not(t, result) == {}

(* The tie's version grows only if the result changes it. *)
TieOutdated(t, result) == IF result = ties[t].result THEN {} ELSE {<<"tie", t>>}

SaveLegResult(m, score) ==
  LET row == matches[m]
      t == row.tie
      result == ReconciledTie(m, score)
  IN  /\ m \in Live \ Standalone /\ Active /\ ResultTaken(row)
      /\ <<row.status, row.score>> # <<"finished", score>>
      /\ matches' = [matches EXCEPT ![m] = Decided(@, score, "none")]
      /\ copies' = CopiesDecided(m, score, "none")
      /\ ties' = [ties EXCEPT ![t].result = result]
      /\ tieCopies' = TieCopiesDecided(t, result)
      /\ Touch({<<"match", m>>} \cup TieOutdated(t, result))
      /\ UNCHANGED <<clock, tournament, questions, final, contests>>

SaveTieResult(t, extra, shootout) ==
  LET leg1 == ScoreOfLeg(t, 1)
      leg2 == ScoreOfLeg(t, 2)
      result == Resolution(leg1, leg2, extra, shootout)
  IN  /\ t \in LiveTies /\ Active
      /\ \A m \in Legs(t) : Finished(m)
      /\ Resolves(leg1, leg2, extra, shootout)
      /\ result # ties[t].result
      /\ ties' = [ties EXCEPT ![t].result = result]
      /\ tieCopies' = TieCopiesDecided(t, result)
      /\ Touch({<<"tie", t>>})
      /\ UNCHANGED <<clock, tournament, questions, matches, final, contests, copies>>

-----------------------------------------------------------------------------
(* Predictions about the whole tournament *)

Passed(deadline) == deadline # NoTime /\ deadline =< clock

DeadlineMayBecome_Reopens(old, new) == new = old \/ new = NoTime \/ new > clock

(* _validate_deadline_change *)
DeadlineMayBecome(old, new) == new = old \/ (~Passed(old) /\ (new = NoTime \/ new > clock))

(* _shared_swiss_settings_locked *)
SwissLocked(q) ==
  questions[q].answer # "none" \/ \E c \in Linked : contests[c].picks[q] # "none"

Asked(q, asked) ==
  /\ questions' = [questions EXCEPT ![q] = asked]
  /\ contests' = [c \in Contests |->
       IF c \in Linked THEN [contests[c] EXCEPT !.questions[q] = asked] ELSE contests[c]]
  /\ Touch({})
  /\ UNCHANGED <<clock, tournament, rows, copies, tieCopies>>

SaveSettings(q, enabled, deadline) ==
  /\ Active
  /\ enabled => deadline # NoTime
  /\ DeadlineMayBecome(questions[q].deadline, deadline)
  /\ Asked(q, [questions[q] EXCEPT !.enabled = enabled, !.deadline = deadline])

SaveChampionSettings(enabled, deadline) ==
  /\ questions["champion"].answer = "none"
  /\ enabled => tournament.teams # {}
  /\ SaveSettings("champion", enabled, deadline)

SaveSwissSettings(enabled, deadline) ==
  /\ enabled => SwissFits(tournament.teams)
  /\ enabled # questions["swiss_stage"].enabled => ~SwissLocked("swiss_stage")
  /\ SaveSettings("swiss_stage", enabled, deadline)

SaveAnswer(q, team) ==
  /\ Active
  /\ questions[q].enabled /\ Passed(questions[q].deadline)
  /\ team \in tournament.teams
  /\ team # questions[q].answer
  /\ Asked(q, [questions[q] EXCEPT !.answer = team])

(* The champion is entered after the last match; it won the League's final. *)
SaveChampionResult(team) ==
  /\ tournament.template = League => team = FinalWinner
  /\ \A m \in Live : Finished(m)
  /\ SaveAnswer("champion", team)

SaveSwissResult(team) == SaveAnswer("swiss_stage", team)

-----------------------------------------------------------------------------
(* The linked contests (app/contest_service.py) *)

AcceptsPicks(c, q) ==
  LET question == contests[c].questions[q]
  IN  /\ c \in ActiveContests
      /\ question.enabled /\ question.deadline # NoTime /\ clock < question.deadline

SavePick(c, q, team) ==
  /\ AcceptsPicks(c, q)
  /\ team \in contests[c].teams /\ team # contests[c].picks[q]
  /\ contests' = [contests EXCEPT ![c].picks[q] = team, ![c].picked[q] = clock]
  /\ UNCHANGED <<clock, tournament, questions, rows, copies, tieCopies, page>>

(* A new contest takes over everything there is (attach_shared_tournament). *)
CreateContest(c) ==
  /\ contests[c].state = "none" /\ Active
  /\ contests' = [contests EXCEPT ![c] =
       [NoContest EXCEPT !.state = "active", !.teams = tournament.teams,
                         !.questions = questions]]
  /\ copies' = [copies EXCEPT ![c] =
       [m \in Matches |-> IF m \in Live THEN CopyOf(matches[m]) ELSE NoCopy]]
  /\ tieCopies' = [tieCopies EXCEPT ![c] =
       [t \in Ties |-> IF t \in LiveTies THEN CopyOfTie(ties[t].result) ELSE NoTieCopy]]
  /\ UNCHANGED <<clock, tournament, questions, rows, page>>

DeleteContest(c) ==
  /\ c \in ActiveContests
  /\ contests' = [contests EXCEPT ![c] = NoContest]
  /\ copies' = [copies EXCEPT ![c] = [m \in Matches |-> NoCopy]]
  /\ tieCopies' = [tieCopies EXCEPT ![c] = [t \in Ties |-> NoTieCopy]]
  /\ UNCHANGED <<clock, tournament, questions, rows, page>>

CopyDecided(c, m) ==
  /\ copies[c][m].status = "finished" /\ copies[c][m].score # NoScore
  /\ IF matches[m].tie = 0 THEN copies[c][m].advancing # "none"
     ELSE tieCopies[c][matches[m].tie].result.winner # "none"
QuestionSettled(question) ==
  question.enabled => Passed(question.deadline) /\ question.answer # "none"

LacksNothing(c) ==
  /\ \A m \in Matches : Holds(c, m) => CopyDecided(c, m)
  /\ \A q \in Questions : QuestionSettled(contests[c].questions[q])

CanComplete(c) == tournament.archived /\ LacksNothing(c)

CompleteContest(c) ==
  /\ c \in ActiveContests /\ CanComplete(c)
  /\ contests' = [contests EXCEPT ![c].state = "completed"]
  /\ UNCHANGED <<clock, tournament, questions, rows, copies, tieCopies, page>>

-----------------------------------------------------------------------------
(* Archiving *)

TiesDecided_LegsOnly == \A t \in LiveTies : \A m \in Legs(t) : Finished(m)

TiesDecided ==
  \A t \in LiveTies : ties[t].result.winner # "none" /\ \A m \in Legs(t) : Finished(m)

ArchiveTournament ==
  /\ Active
  /\ \A m \in Standalone : Finished(m) /\ matches[m].advancing # "none"
  /\ TiesDecided
  /\ tournament.template = League => FinalWinner # "none"
  /\ \A q \in Questions : QuestionSettled(questions[q])
  /\ \A q \in Questions \cap {"champion"} :
       tournament.template = League /\ questions[q].enabled => questions[q].answer = FinalWinner
  /\ tournament' = [tournament EXCEPT !.archived = TRUE]
  /\ Touch({})
  /\ UNCHANGED <<clock, questions, rows, local>>

RestoreTournament_IgnoresCompleted ==
  /\ tournament.archived
  /\ tournament' = [tournament EXCEPT !.archived = FALSE]
  /\ Touch({})
  /\ UNCHANGED <<clock, questions, rows, local>>

RestoreTournament ==
  /\ tournament.archived
  /\ \A c \in Contests : contests[c].state # "completed"
  /\ tournament' = [tournament EXCEPT !.archived = FALSE]
  /\ Touch({})
  /\ UNCHANGED <<clock, questions, rows, local>>

Tick ==
  /\ clock < MaxInstant
  /\ clock' = clock + 1
  /\ UNCHANGED <<tournament, questions, rows, local, page>>

-----------------------------------------------------------------------------
(* create_shared_tournament, and the teams entered *)
Init ==
  /\ clock = 1
  /\ \E template \in Templates :
       tournament = [archived |-> FALSE, template |-> template, teams |-> {}]
  /\ questions = [q \in Questions |-> NoQuestion]
  /\ matches = [m \in Matches |-> NoMatch]
  /\ ties = [t \in Ties |-> NoTie]
  /\ final = 0
  /\ contests = [c \in Contests |-> NoContest]
  /\ copies = [c \in Contests |-> [m \in Matches |-> NoCopy]]
  /\ tieCopies = [c \in Contests |-> [t \in Ties |-> NoTieCopy]]
  /\ page = NoPage

EnterMatch ==
  \E home, away \in Teams, start \in Instants :
    \/ CreateMatch(home, away, start)
    \/ \E start2 \in Instants : CreateTie(home, away, start, start2)
ChangeMatch(m) ==
  \/ DeleteMatch(m) \/ MarkFinal(m)
  \/ \E start \in Instants : UpdateStart(m, start)
  \/ \E score \in Goals \X Goals :
       \/ SaveLegResult(m, score)
       \/ \E team \in Teams : SaveMatchResult(m, score, team)
ChangeTie(t) ==
  \/ DeleteTie(t)
  \/ \E extra \in Results, shootout \in {NoScore} \cup (ShootoutGoals \X ShootoutGoals) :
       SaveTieResult(t, extra, shootout)
AskChampion ==
  /\ "champion" \in Questions
  /\ \/ \E enabled \in BOOLEAN, deadline \in Times : SaveChampionSettings(enabled, deadline)
     \/ \E team \in Teams : SaveChampionResult(team)
AskSwiss ==
  /\ "swiss_stage" \in Questions
  /\ \/ \E enabled \in BOOLEAN, deadline \in Times : SaveSwissSettings(enabled, deadline)
     \/ \E team \in Teams : SaveSwissResult(team)
InContest(c) ==
  \/ CreateContest(c) \/ DeleteContest(c) \/ CompleteContest(c) \/ ShowContest(c)
  \/ \E q \in Questions, team \in Teams : SavePick(c, q, team)

Next ==
  \/ Tick
  \/ StartDueMatches
  \/ EnterMatch
  \/ ArchiveTournament
  \/ RestoreTournament
  \/ \E teams \in SUBSET Teams : SaveTeams(teams)
  \/ \E m \in Matches : ChangeMatch(m)
  \/ \E t \in Ties : ChangeTie(t)
  \/ AskChampion
  \/ AskSwiss
  \/ \E c \in Contests : InContest(c)
  \/ \E row \in Showable : OpenPage(row)

Spec == Init /\ [][Next]_vars

-----------------------------------------------------------------------------
(* Properties *)

(* Every row has its shape. *)
TypeOK ==
  /\ clock \in Instants
  /\ tournament \in [archived : BOOLEAN, template : Templates, teams : SUBSET Teams]
  /\ questions \in [Questions -> Question]
  /\ matches \in [Matches -> MatchRow]
  /\ ties \in [Ties -> TieRow]
  /\ final \in {0} \cup Matches
  /\ contests \in [Contests -> Contest]
  /\ copies \in [Contests -> [Matches -> Copy]]
  /\ tieCopies \in [Contests -> [Ties -> TieCopy]]

(* Every linked contest, completed or not, holds a copy of exactly the
   matches and ties there are, with their times and results; its teams,
   deadlines and answers are the tournament's.  Only the mark that a due
   match has started may come sooner or later. *)
CopiesFollow ==
  \A c \in Linked :
    /\ contests[c].teams = tournament.teams
    /\ contests[c].questions = questions
    /\ \A m \in Matches :
         IF m \in Live
         THEN /\ Holds(c, m)
              /\ copies[c][m].status = "finished" <=> Finished(m)
              /\ [CopyOf(matches[m]) EXCEPT !.status = copies[c][m].status] = copies[c][m]
         ELSE copies[c][m] = NoCopy
    /\ \A t \in Ties : tieCopies[c][t] =
         (IF ties[t].live THEN CopyOfTie(ties[t].result) ELSE NoTieCopy)

(* A tie has its two legs, the first one between its teams first; it is
   undecided, or decided as its legs' scores and the recorded extra time
   say, and on aggregate as soon as that decides it. *)
TieFollowsLegs ==
  \A t \in LiveTies :
    LET result == ties[t].result
        leg1 == ScoreOfLeg(t, 1)
        leg2 == ScoreOfLeg(t, 2)
    IN  /\ \E m1, m2 \in Legs(t) :
             /\ Legs(t) = {m1, m2} /\ matches[m1].leg = 1 /\ matches[m2].leg = 2
             /\ matches[m1].start < matches[m2].start
        /\ result # Undecided =>
             /\ NoScore \notin {leg1, leg2}
             /\ Resolves(leg1, leg2, result.extra, result.shootout)
             /\ result = Resolution(leg1, leg2, result.extra, result.shootout)
        /\ NoScore \notin {leg1, leg2} /\ ~Level(leg1, leg2) => result # Undecided

(* A page that was not outdated shows its row as it is: what is saved from
   it overwrites nothing that its administrator has not seen. *)
PageIsCurrent == page # NoPage => page.seen = Shown(page.kind, page.id)

(* An answer is only known while nobody can still guess: the question is
   closed in the tournament and in every contest. *)
AnsweredIsClosed ==
  /\ \A q \in Questions : questions[q].answer # "none" => Passed(questions[q].deadline)
  /\ \A c \in Contests, q \in Questions :
       contests[c].questions[q].answer # "none" => ~AcceptsPicks(c, q)

(* Once the tournament is archived, nothing is missing that an active contest
   needs to be completed: it does not wait for a result nobody can enter. *)
NoContestStuck == tournament.archived => \A c \in ActiveContests : CanComplete(c)

(* A contest that was completed goes on to lack nothing that completing it
   asked for: whatever is restored, entered, corrected or asked afterwards
   leaves its matches, ties and questions decided. *)
CompletedStaysDecided ==
  \A c \in Contests : contests[c].state = "completed" => LacksNothing(c)

(* What was closed to predictions stays closed, whoever moves a start or a
   deadline in whatever order. *)
ClosedStaysClosed ==
  [][\A c \in Contests :
       /\ \A m \in Matches :
            Holds(c, m) /\ ~StillOpen(copies[c][m]) => ~StillOpen(copies[c][m])'
       /\ \A q \in Questions :
            contests[c].state = "active" /\ Passed(contests[c].questions[q].deadline)
              => ~AcceptsPicks(c, q)']_vars
=============================================================================
