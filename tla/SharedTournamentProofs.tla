----------------------- MODULE SharedTournamentProofs -----------------------
(* What holds of a shared tournament and its copies for any number of
   contests, matches, ties and teams. *)
EXTENDS SharedTournament, FiniteSetTheorems, WellFoundedInduction, TLAPS

(* What the assumption on the constants says. *)
LEMMA Bounds ==
  /\ Matches \subseteq Nat \ {0} /\ Ties \subseteq Nat \ {0}
  /\ Goals \subseteq Nat /\ ShootoutGoals \subseteq Nat
  /\ WinsRequired \in Nat /\ MaxInstant \in Nat \ {0}
BY SharedAssumption

(* A set of numbers that is not empty has a first one. *)
LEMMA FirstIsFree ==
  ASSUME NEW free \in SUBSET Nat, free # {}
  PROVE  First(free) \in free
<1>1. PICK x \in free : \A y \in free : ~(<<y, x>> \in OpToRel(<, Nat))
  BY NatLessThanWellFounded, WFMin
<1>2. \A y \in free : ~(y < x)
  BY <1>1 DEF OpToRel
<1>3. \A y \in free : x =< y
  BY <1>2
<1> QED
  BY <1>3 DEF First

LEMMA TwoAreFree ==
  ASSUME Cardinality(FreeMatches) > 1
  PROVE  /\ First(FreeMatches) \in FreeMatches
         /\ First(FreeMatches \ {First(FreeMatches)}) \in FreeMatches \ {First(FreeMatches)}
<1>1. FreeMatches # {}
  BY FS_EmptySet
<1>2. FreeMatches # {First(FreeMatches)}
  BY FS_Singleton
<1>3. FreeMatches \subseteq Nat
  BY Bounds DEF FreeMatches
<1> QED
  BY <1>1, <1>2, <1>3, FirstIsFree

-----------------------------------------------------------------------------
(* Rows *)

(* A row that is empty, new, begun or decided has its shape. *)
LEMMA NoMatchType == NoMatch \in MatchRow
BY DEF NoMatch, MatchRow, Times, NoTime, Results, TeamOrNone, NoScore

LEMMA NewLegType ==
  ASSUME NEW t \in {0} \cup Ties, NEW n \in 0..2,
         NEW home \in Teams, NEW away \in Teams, NEW start \in Instants
  PROVE  NewLeg(t, n, home, away, start) \in MatchRow
BY DEF NewLeg, MatchRow, MatchStatuses, Times, Results, TeamOrNone

LEMMA NewMatchType ==
  ASSUME NEW home \in Teams, NEW away \in Teams, NEW start \in Instants
  PROVE  NewMatch(home, away, start) \in MatchRow
<1>1. 0 \in 0..2
  OBVIOUS
<1> QED
  BY <1>1, NewLegType DEF NewMatch

LEMMA CopyTypes ==
  /\ NoCopy \in Copy
  /\ NoTieCopy \in TieCopy
  /\ \A row \in MatchRow : CopyOf(row) \in Copy
  /\ \A result \in TieResult : CopyOfTie(result) \in TieCopy
BY DEF NoCopy, Copy, CopyOf, MatchRow, NoTieCopy, TieCopy, CopyOfTie, Undecided, TieResult,
       Times, NoTime, Results, TeamOrNone, NoScore

LEMMA BegunType ==
  /\ \A row \in MatchRow : Begun(row) \in MatchRow
  /\ \A row \in Copy : Begun(row) \in Copy
BY DEF Begun, MatchRow, Copy, MatchStatuses

LEMMA ContestType == NoContest \in Contest
BY DEF NoContest, Contest, NoQuestion, Question, Times, NoTime, TeamOrNone

(* A result that resolves a tie has its shape, and so has what a leg's score
   makes of the result there was. *)
LEMMA ResolutionType ==
  ASSUME NEW leg1, NEW leg2, NEW extra \in Results,
         NEW shootout \in {NoScore} \cup (ShootoutGoals \X ShootoutGoals),
         Resolves(leg1, leg2, extra, shootout)
  PROVE  Resolution(leg1, leg2, extra, shootout) \in TieResult
BY DEF Resolution, Resolves, ByAggregate, ByExtraTime, ByPenalties, Ahead, TieResult

LEMMA ReconciledType ==
  ASSUME NEW leg1, NEW leg2, NEW was \in TieResult
  PROVE  Reconciled(leg1, leg2, was) \in TieResult
<1>1. Undecided \in TieResult
  BY DEF Undecided, TieResult, Results
<1>2. NoScore \in Results /\ was.extra \in Results
      /\ was.shootout \in {NoScore} \cup (ShootoutGoals \X ShootoutGoals)
  BY DEF Results, TieResult
<1>3. ASSUME ~Level(leg1, leg2) PROVE Resolution(leg1, leg2, NoScore, NoScore) \in TieResult
  <2>1. Resolves(leg1, leg2, NoScore, NoScore)
    BY <1>3 DEF Resolves, ByAggregate
  <2> QED
    BY <2>1, <1>2, ResolutionType
<1>4. ASSUME Resolves(leg1, leg2, was.extra, was.shootout)
      PROVE  Resolution(leg1, leg2, was.extra, was.shootout) \in TieResult
  BY <1>4, <1>2, ResolutionType
<1> QED
  BY <1>1, <1>3, <1>4 DEF Reconciled
-----------------------------------------------------------------------------
(* Types *)

LEMMA InitTypes == Init => TypeOK
<1> SUFFICES ASSUME Init PROVE TypeOK
  OBVIOUS
<1>1. 1 \in Instants
  BY Bounds DEF Instants
<1>2. \A q \in Questions : NoQuestion \in Question
  BY DEF NoQuestion, Question, Times, TeamOrNone
<1>3. NoTie \in TieRow
  BY DEF NoTie, TieRow, Undecided, TieResult, Results, TeamOrNone
<1> QED
  BY <1>1, <1>2, <1>3, NoMatchType, CopyTypes, ContestType DEF Init, TypeOK

(* A command on one match, on the copies of it, on one tie *)
LEMMA DecidedType ==
  ASSUME NEW score \in Goals \X Goals, NEW team \in TeamOrNone
  PROVE  /\ \A row \in MatchRow : Decided(row, score, team) \in MatchRow
         /\ \A row \in Copy : Decided(row, score, team) \in Copy
<1>1. score \in Results
  BY DEF Results
<1> QED
  BY <1>1 DEF Decided, MatchRow, Copy, MatchStatuses

LEMMA DecidedTypes ==
  ASSUME TypeOK, NEW m \in Matches, NEW score \in Goals \X Goals, NEW team \in TeamOrNone
  PROVE  CopiesDecided(m, score, team) \in [Contests -> [Matches -> Copy]]
BY DecidedType DEF CopiesDecided, TypeOK

LEMMA TieDecidedTypes ==
  ASSUME TypeOK, NEW t, NEW result \in TieResult
  PROVE  TieCopiesDecided(t, result) \in [Contests -> [Ties -> TieCopy]]
BY DEF TieCopiesDecided, TypeOK, TieCopy

LEMMA BegunInTypes ==
  ASSUME TypeOK, NEW cs
  PROVE  CopiesBegunIn(cs) \in [Contests -> [Matches -> Copy]]
BY BegunType DEF CopiesBegunIn, TypeOK

LEMMA AskedTypes ==
  ASSUME TypeOK, NEW q \in Questions, NEW asked \in Question, Asked(q, asked)
  PROVE  TypeOK'
<1>1. questions' \in [Questions -> Question]
  BY DEF Asked, TypeOK
<1>2. contests' \in [Contests -> Contest]
  BY DEF Asked, TypeOK, Contest
<1> QED
  BY <1>1, <1>2 DEF Asked, TypeOK, rows

LEMMA SettingsTypes ==
  ASSUME TypeOK, NEW q \in Questions, NEW enabled \in BOOLEAN, NEW deadline \in Times,
         SaveSettings(q, enabled, deadline)
  PROVE  TypeOK'
<1>1. [questions[q] EXCEPT !.enabled = enabled, !.deadline = deadline] \in Question
  BY DEF TypeOK, Question
<1> QED
  BY <1>1, AskedTypes DEF SaveSettings

LEMMA AnswerTypes ==
  ASSUME TypeOK, NEW q \in Questions, NEW team \in Teams, SaveAnswer(q, team)
  PROVE  TypeOK'
<1>1. [questions[q] EXCEPT !.answer = team] \in Question
  BY DEF TypeOK, Question, TeamOrNone
<1> QED
  BY <1>1, AskedTypes DEF SaveAnswer

LEMMA CreateMatchTypes ==
  ASSUME TypeOK, NEW home \in Teams, NEW away \in Teams, NEW start \in Instants,
         CreateMatch(home, away, start)
  PROVE  TypeOK'
<1> DEFINE m == First(FreeMatches)
           row == NewMatch(home, away, start)
<1>1. m \in Matches
  BY Bounds, FirstIsFree DEF CreateMatch, FreeMatches
<1>2. row \in MatchRow /\ CopyOf(row) \in Copy
  BY NewMatchType, CopyTypes
<1> HIDE DEF m, row
<1>3. matches' = [matches EXCEPT ![m] = row]
      /\ copies' = [c \in Contests |->
           IF c \in ActiveContests THEN [copies[c] EXCEPT ![m] = CopyOf(row)] ELSE copies[c]]
  BY DEF CreateMatch, m, row
<1>4. matches' \in [Matches -> MatchRow] /\ copies' \in [Contests -> [Matches -> Copy]]
  BY <1>1, <1>2, <1>3 DEF TypeOK
<1> QED
  BY <1>4 DEF CreateMatch, TypeOK

LEMMA CreateTieTypes ==
  ASSUME TypeOK, NEW first \in Teams, NEW second \in Teams,
         NEW start1 \in Instants, NEW start2 \in Instants,
         CreateTie(first, second, start1, start2)
  PROVE  TypeOK'
<1> DEFINE t == First(FreeTies)
           m1 == First(FreeMatches)
           m2 == First(FreeMatches \ {m1})
           leg1 == NewLeg(t, 1, first, second, start1)
           leg2 == NewLeg(t, 2, second, first, start2)
<1>1. t \in Ties
  BY Bounds, FirstIsFree DEF CreateTie, FreeTies
<1>2. m1 \in Matches /\ m2 \in Matches
  BY TwoAreFree DEF CreateTie, FreeMatches
<1>3. leg1 \in MatchRow /\ leg2 \in MatchRow /\ CopyOf(leg1) \in Copy /\ CopyOf(leg2) \in Copy
  <2>1. 1 \in 0..2 /\ 2 \in 0..2
    OBVIOUS
  <2> QED
    BY <1>1, <2>1, NewLegType, CopyTypes
<1>4. Undecided \in TieResult /\ CopyOfTie(Undecided) \in TieCopy
  BY CopyTypes DEF Undecided, TieResult, Results
<1> HIDE DEF t, m1, m2, leg1, leg2
<1>5. /\ ties' = [ties EXCEPT ![t] =
           [live |-> TRUE, first |-> first, second |-> second, result |-> Undecided]]
      /\ matches' = [matches EXCEPT ![m1] = leg1, ![m2] = leg2]
      /\ copies' = [c \in Contests |->
           IF c \in ActiveContests
           THEN [copies[c] EXCEPT ![m1] = CopyOf(leg1), ![m2] = CopyOf(leg2)]
           ELSE copies[c]]
      /\ tieCopies' = [c \in Contests |->
           IF c \in ActiveContests
           THEN [tieCopies[c] EXCEPT ![t] = CopyOfTie(Undecided)]
           ELSE tieCopies[c]]
  BY DEF CreateTie, t, m1, m2, leg1, leg2
<1>6. ties' \in [Ties -> TieRow]
  BY <1>1, <1>4, <1>5 DEF TypeOK, TieRow, TeamOrNone
<1>7. matches' \in [Matches -> MatchRow]
  BY <1>2, <1>3, <1>5 DEF TypeOK
<1>8. copies' \in [Contests -> [Matches -> Copy]]
  BY <1>2, <1>3, <1>5 DEF TypeOK
<1>9. tieCopies' \in [Contests -> [Ties -> TieCopy]]
  BY <1>1, <1>4, <1>5 DEF TypeOK
<1> QED
  BY <1>6, <1>7, <1>8, <1>9 DEF CreateTie, TypeOK

LEMMA UpdateStartTypes ==
  ASSUME TypeOK, NEW m \in Matches, NEW start \in Instants, UpdateStart(m, start)
  PROVE  TypeOK'
<1>1. start \in Times
  BY DEF Times
<1>2. matches' \in [Matches -> MatchRow]
  BY <1>1 DEF UpdateStart, TypeOK, MatchRow
<1>3. ASSUME NEW c \in Contests
      PROVE  [copies[c] EXCEPT ![m].start = start] \in [Matches -> Copy]
  <2>1. copies[c] \in [Matches -> Copy] /\ \A row \in Copy : [row EXCEPT !.start = start] \in Copy
    BY <1>1 DEF TypeOK, Copy
  <2> QED
    BY <2>1
<1>4. copies' \in [Contests -> [Matches -> Copy]]
  BY <1>3 DEF UpdateStart, TypeOK
<1> QED
  BY <1>2, <1>4 DEF UpdateStart, TypeOK

LEMMA DeleteMatchTypes ==
  ASSUME TypeOK, NEW m \in Matches, DeleteMatch(m)
  PROVE  TypeOK'
BY NoMatchType, CopyTypes DEF DeleteMatch, TypeOK

LEMMA DeleteTieTypes ==
  ASSUME TypeOK, NEW t \in Ties, DeleteTie(t)
  PROVE  TypeOK'
<1>1. NoTie \in TieRow
  BY DEF NoTie, TieRow, Undecided, TieResult, Results, TeamOrNone
<1> QED
  BY <1>1, NoMatchType, CopyTypes DEF DeleteTie, TypeOK

LEMMA MatchResultTypes ==
  ASSUME TypeOK, NEW m \in Matches, NEW score \in Goals \X Goals, NEW team \in Teams,
         SaveMatchResult(m, score, team)
  PROVE  TypeOK'
<1>1. team \in TeamOrNone
  BY DEF TeamOrNone
<1> QED
  BY <1>1, DecidedType, DecidedTypes DEF SaveMatchResult, TypeOK

LEMMA LegResultTypes ==
  ASSUME TypeOK, NEW m \in Matches, NEW score \in Goals \X Goals, SaveLegResult(m, score)
  PROVE  TypeOK'
<1> DEFINE t == matches[m].tie
           result == ReconciledTie(m, score)
<1>1. t \in Ties
  BY DEF SaveLegResult, TypeOK, MatchRow, Standalone
<1>2. result \in TieResult
  BY <1>1, ReconciledType DEF ReconciledTie, TypeOK, TieRow
<1>3. "none" \in TeamOrNone
  BY DEF TeamOrNone
<1> HIDE DEF t, result
<1>4. /\ matches' = [matches EXCEPT ![m] = Decided(@, score, "none")]
      /\ copies' = CopiesDecided(m, score, "none")
      /\ ties' = [ties EXCEPT ![t].result = result]
      /\ tieCopies' = TieCopiesDecided(t, result)
  BY DEF SaveLegResult, t, result
<1>5. matches' \in [Matches -> MatchRow] /\ copies' \in [Contests -> [Matches -> Copy]]
  BY <1>3, <1>4, DecidedType, DecidedTypes DEF TypeOK
<1>6. ties' \in [Ties -> TieRow]
  BY <1>1, <1>2, <1>4 DEF TypeOK, TieRow
<1>7. tieCopies' \in [Contests -> [Ties -> TieCopy]]
  BY <1>2, <1>4, TieDecidedTypes
<1> QED
  BY <1>5, <1>6, <1>7 DEF SaveLegResult, TypeOK

LEMMA TieResultTypes ==
  ASSUME TypeOK, NEW t \in Ties, NEW extra \in Results,
         NEW shootout \in {NoScore} \cup (ShootoutGoals \X ShootoutGoals),
         SaveTieResult(t, extra, shootout)
  PROVE  TypeOK'
<1> DEFINE result == Resolution(ScoreOfLeg(t, 1), ScoreOfLeg(t, 2), extra, shootout)
<1>1. result \in TieResult
  BY ResolutionType DEF SaveTieResult
<1> HIDE DEF result
<1>2. ties' = [ties EXCEPT ![t].result = result] /\ tieCopies' = TieCopiesDecided(t, result)
  BY DEF SaveTieResult, result
<1>3. ties' \in [Ties -> TieRow]
  BY <1>1, <1>2 DEF TypeOK, TieRow
<1>4. tieCopies' \in [Contests -> [Ties -> TieCopy]]
  BY <1>1, <1>2, TieDecidedTypes
<1> QED
  BY <1>3, <1>4 DEF SaveTieResult, TypeOK

LEMMA InContestTypes ==
  ASSUME TypeOK, NEW c \in Contests, InContest(c)
  PROVE  TypeOK'
<1>1. CASE CreateContest(c)
  <2>1. contests' \in [Contests -> Contest]
    BY <1>1, ContestType DEF CreateContest, TypeOK, Contest
  <2>2. copies' \in [Contests -> [Matches -> Copy]]
    BY <1>1, CopyTypes DEF CreateContest, TypeOK
  <2>3. tieCopies' \in [Contests -> [Ties -> TieCopy]]
    BY <1>1, CopyTypes DEF CreateContest, TypeOK, TieRow
  <2> QED
    BY <1>1, <2>1, <2>2, <2>3 DEF CreateContest, TypeOK, rows
<1>2. CASE DeleteContest(c)
  BY <1>2, ContestType, CopyTypes DEF DeleteContest, TypeOK, rows
<1>3. CASE CompleteContest(c)
  BY <1>3 DEF CompleteContest, TypeOK, Contest, rows
<1>4. CASE ShowContest(c)
  BY <1>4, BegunInTypes DEF ShowContest, TypeOK, rows
<1>5. ASSUME NEW q \in Questions, NEW team \in Teams, SavePick(c, q, team)
      PROVE  TypeOK'
  <2>1. clock \in Times /\ team \in TeamOrNone
    BY DEF TypeOK, Times, TeamOrNone
  <2>2. /\ [contests[c].picks EXCEPT ![q] = team] \in [Questions -> TeamOrNone]
        /\ [contests[c].picked EXCEPT ![q] = clock] \in [Questions -> Times]
    BY <2>1 DEF TypeOK, Contest
  <2>3. [contests[c] EXCEPT !.picks[q] = team, !.picked[q] = clock] \in Contest
    <3>1. \A row \in Contest : [row EXCEPT !.picks = [contests[c].picks EXCEPT ![q] = team],
                                          !.picked = [contests[c].picked EXCEPT ![q] = clock]]
                                  \in Contest
      BY <2>2 DEF Contest
    <3>2. contests[c] \in Contest
      BY DEF TypeOK
    <3> QED
      BY <3>1, <3>2
  <2>4. contests' \in [Contests -> Contest]
    BY <1>5, <2>3 DEF SavePick, TypeOK
  <2> QED
    BY <1>5, <2>4 DEF SavePick, TypeOK, rows
<1> QED
  BY <1>1, <1>2, <1>3, <1>4, <1>5 DEF InContest

LEMMA NextTypes == TypeOK /\ [Next]_vars => TypeOK'
<1> SUFFICES ASSUME TypeOK, [Next]_vars PROVE TypeOK'
  OBVIOUS
<1>1. CASE Tick
  <2>1. clock' \in Instants
    BY <1>1, Bounds DEF Tick, TypeOK, Instants
  <2> QED
    BY <1>1, <2>1 DEF Tick, TypeOK, rows, local
<1>2. CASE StartDueMatches
  <2>1. matches' \in [Matches -> MatchRow] /\ copies' \in [Contests -> [Matches -> Copy]]
    BY <1>2, BegunType, BegunInTypes DEF StartDueMatches, TypeOK
  <2> QED
    BY <1>2, <2>1 DEF StartDueMatches, TypeOK
<1>3. CASE EnterMatch
  BY <1>3, CreateMatchTypes, CreateTieTypes DEF EnterMatch
<1>4. CASE ArchiveTournament
  BY <1>4 DEF ArchiveTournament, TypeOK, rows, local
<1>5. CASE RestoreTournament
  BY <1>5 DEF RestoreTournament, TypeOK, rows, local
<1>6. ASSUME NEW teams \in SUBSET Teams, SaveTeams(teams) PROVE TypeOK'
  <2>1. \A c \in Contests : [contests[c] EXCEPT !.teams = teams] \in Contest
    BY DEF TypeOK, Contest
  <2>2. contests' \in [Contests -> Contest]
    BY <1>6, <2>1 DEF SaveTeams, TypeOK
  <2>3. tournament' \in [archived : BOOLEAN, template : Templates, teams : SUBSET Teams]
    BY <1>6 DEF SaveTeams, TypeOK
  <2> QED
    BY <1>6, <2>2, <2>3 DEF SaveTeams, TypeOK, rows
<1>7. ASSUME NEW m \in Matches, ChangeMatch(m) PROVE TypeOK'
  <2>1. CASE MarkFinal(m)
    BY <2>1 DEF MarkFinal, TypeOK, local
  <2> QED
    BY <1>7, <2>1, DeleteMatchTypes, UpdateStartTypes, LegResultTypes, MatchResultTypes
    DEF ChangeMatch
<1>8. ASSUME NEW t \in Ties, ChangeTie(t) PROVE TypeOK'
  BY <1>8, DeleteTieTypes, TieResultTypes DEF ChangeTie
<1>9. CASE AskChampion
  BY <1>9, SettingsTypes, AnswerTypes
  DEF AskChampion, SaveChampionSettings, SaveChampionResult
<1>10. CASE AskSwiss
  BY <1>10, SettingsTypes, AnswerTypes DEF AskSwiss, SaveSwissSettings, SaveSwissResult
<1>11. ASSUME NEW c \in Contests, InContest(c) PROVE TypeOK'
  BY <1>11, InContestTypes
<1>12. ASSUME NEW row \in Showable, OpenPage(row) PROVE TypeOK'
  BY <1>12 DEF OpenPage, TypeOK, rows, local
<1>13. CASE UNCHANGED vars
  BY <1>13 DEF vars, TypeOK, rows, local
<1> QED
  BY <1>1, <1>2, <1>3, <1>4, <1>5, <1>6, <1>7, <1>8, <1>9, <1>10, <1>11, <1>12, <1>13 DEF Next

(* Tournaments, matches, ties, contests and copies keep their shape. *)
THEOREM SharedTypes == Spec => []TypeOK
BY InitTypes, NextTypes, PTL DEF Spec

-----------------------------------------------------------------------------
(* Completed contests.  A contest is completed in the archive, and while one
   is, the tournament stays there: no command on it is accepted. *)

CompletedIsArchived ==
  \A c \in Contests : contests[c].state = "completed" => tournament.archived

LEMMA CommandsNeedActive ==
  ASSUME tournament.archived
  PROVE  /\ ~EnterMatch /\ ~ArchiveTournament /\ ~AskChampion /\ ~AskSwiss
         /\ \A teams : ~SaveTeams(teams)
         /\ \A m \in Matches : ~ChangeMatch(m)
         /\ \A t \in Ties : ~ChangeTie(t)
         /\ \A c \in Contests : ~CreateContest(c)
<1>1. ~EnterMatch
  BY DEF EnterMatch, CreateMatch, CreateTie, Active
<1>2. ~ArchiveTournament /\ \A teams : ~SaveTeams(teams)
  BY DEF ArchiveTournament, SaveTeams, Active
<1>3. ~AskChampion /\ ~AskSwiss
  BY DEF AskChampion, SaveChampionSettings, SaveChampionResult, AskSwiss, SaveSwissSettings,
         SaveSwissResult, SaveSettings, SaveAnswer, Active
<1>4. \A m \in Matches : ~ChangeMatch(m)
  BY DEF ChangeMatch, DeleteMatch, MarkFinal, UpdateStart, SaveLegResult, SaveMatchResult, Active
<1>5. \A t \in Ties : ~ChangeTie(t)
  BY DEF ChangeTie, DeleteTie, SaveTieResult, Active
<1>6. \A c \in Contests : ~CreateContest(c)
  BY DEF CreateContest, Active
<1> QED
  BY <1>1, <1>2, <1>3, <1>4, <1>5, <1>6

(* What a step does to a contest that is completed: nothing. *)
LEMMA CompletedStep ==
  ASSUME TypeOK, CompletedIsArchived, [Next]_vars,
         NEW c \in Contests, contests[c].state = "completed"
  PROVE  /\ contests'[c] = contests[c] /\ copies'[c] = copies[c] /\ tieCopies'[c] = tieCopies[c]
         /\ tournament'.archived
<1>1. tournament.archived /\ c \notin ActiveContests
  BY DEF CompletedIsArchived, ActiveContests
<1>2. \A cs : c \notin cs => CopiesBegunIn(cs)[c] = copies[c]
  BY DEF CopiesBegunIn
<1>3. CASE Tick
  BY <1>1, <1>3 DEF Tick, local
<1>4. CASE StartDueMatches
  BY <1>1, <1>2, <1>4 DEF StartDueMatches
<1>5. ~RestoreTournament
  BY DEF RestoreTournament
<1>6. ASSUME NEW d \in Contests, InContest(d)
      PROVE  /\ contests'[c] = contests[c] /\ copies'[c] = copies[c]
             /\ tieCopies'[c] = tieCopies[c] /\ tournament'.archived
  <2>1. CASE DeleteContest(d)
    BY <1>1, <2>1 DEF DeleteContest, TypeOK
  <2>2. CASE CompleteContest(d)
    BY <1>1, <2>2 DEF CompleteContest, TypeOK
  <2>3. CASE ShowContest(d)
    BY <1>1, <1>2, <2>3 DEF ShowContest
  <2>4. ASSUME NEW q \in Questions, NEW team \in Teams, SavePick(d, q, team)
        PROVE  /\ contests'[c] = contests[c] /\ copies'[c] = copies[c]
               /\ tieCopies'[c] = tieCopies[c] /\ tournament'.archived
    BY <1>1, <2>4 DEF SavePick, AcceptsPicks, TypeOK
  <2> QED
    BY <1>1, <1>6, <2>1, <2>2, <2>3, <2>4, CommandsNeedActive DEF InContest
<1>7. ASSUME NEW row \in Showable, OpenPage(row)
      PROVE  /\ contests'[c] = contests[c] /\ copies'[c] = copies[c]
             /\ tieCopies'[c] = tieCopies[c] /\ tournament'.archived
  BY <1>1, <1>7 DEF OpenPage, local
<1>8. CASE UNCHANGED vars
  BY <1>1, <1>8 DEF vars, local
<1> QED
  BY <1>1, <1>3, <1>4, <1>5, <1>6, <1>7, <1>8, CommandsNeedActive DEF Next

(* Only being completed makes a contest completed. *)
LEMMA Completes ==
  ASSUME TypeOK, [Next]_vars, NEW c \in Contests,
         contests[c].state # "completed", contests'[c].state = "completed"
  PROVE  CompleteContest(c)
<1>1. CASE UNCHANGED contests
  BY <1>1
<1>2. ASSUME NEW q, NEW asked, Asked(q, asked) PROVE FALSE
  BY <1>2 DEF Asked, TypeOK, Contest
<1>3. ASSUME NEW teams \in SUBSET Teams, SaveTeams(teams) PROVE FALSE
  BY <1>3 DEF SaveTeams, TypeOK, Contest
<1>4. ASSUME NEW d \in Contests, InContest(d) PROVE CompleteContest(c)
  <2>1. CASE CreateContest(d)
    BY <2>1 DEF CreateContest, TypeOK, NoContest
  <2>2. CASE DeleteContest(d)
    BY <2>2 DEF DeleteContest, TypeOK, NoContest
  <2>3. CASE CompleteContest(d)
    BY <2>3 DEF CompleteContest, TypeOK
  <2>4. CASE ShowContest(d)
    BY <2>4 DEF ShowContest
  <2>5. ASSUME NEW q \in Questions, NEW team \in Teams, SavePick(d, q, team) PROVE FALSE
    BY <2>5 DEF SavePick, TypeOK, Contest
  <2> QED
    BY <1>4, <2>1, <2>2, <2>3, <2>4, <2>5 DEF InContest
<1>5. CASE EnterMatch
  BY <1>1, <1>5 DEF EnterMatch, CreateMatch, CreateTie
<1>6. ASSUME NEW m \in Matches, ChangeMatch(m) PROVE CompleteContest(c)
  BY <1>1, <1>6
  DEF ChangeMatch, DeleteMatch, MarkFinal, UpdateStart, SaveLegResult, SaveMatchResult, local
<1>7. ASSUME NEW t \in Ties, ChangeTie(t) PROVE CompleteContest(c)
  BY <1>1, <1>7 DEF ChangeTie, DeleteTie, SaveTieResult
<1>8. CASE AskChampion
  BY <1>2, <1>8
  DEF AskChampion, SaveChampionSettings, SaveChampionResult, SaveSettings, SaveAnswer
<1>9. CASE AskSwiss
  BY <1>2, <1>9 DEF AskSwiss, SaveSwissSettings, SaveSwissResult, SaveSettings, SaveAnswer
<1>10. CASE Tick \/ StartDueMatches \/ ArchiveTournament \/ RestoreTournament
  BY <1>1, <1>10 DEF Tick, StartDueMatches, ArchiveTournament, RestoreTournament, local
<1>11. ASSUME NEW row \in Showable, OpenPage(row) PROVE CompleteContest(c)
  BY <1>1, <1>11 DEF OpenPage, local
<1>12. CASE UNCHANGED vars
  BY <1>1, <1>12 DEF vars, local
<1> QED
  BY <1>3, <1>4, <1>5, <1>6, <1>7, <1>8, <1>9, <1>10, <1>11, <1>12 DEF Next

LEMMA CompletedPreserved ==
  ASSUME TypeOK, CompletedIsArchived, [Next]_vars
  PROVE  CompletedIsArchived'
<1> SUFFICES ASSUME NEW c \in Contests, contests'[c].state = "completed"
             PROVE  tournament'.archived
  BY DEF CompletedIsArchived
<1>1. CASE contests[c].state = "completed"
  BY <1>1, CompletedStep
<1>2. CASE contests[c].state # "completed"
  <2>1. CompleteContest(c) => tournament'.archived
    BY DEF CompleteContest, CanComplete
  <2>2. CompleteContest(c)
    BY <1>2, Completes
  <2> QED
    BY <2>1, <2>2
<1> QED
  BY <1>1, <1>2

-----------------------------------------------------------------------------
(* The copies.  What a linked contest holds of one match, of the ties and of
   the settings; a contest that is not linked holds nothing. *)

MatchCopied(copy, row) ==
  IF row.status \in MatchStatuses
  THEN /\ copy.status # "none"
       /\ copy.status = "finished" <=> row.status = "finished"
       /\ copy.start = row.start /\ copy.score = row.score /\ copy.advancing = row.advancing
  ELSE copy = NoCopy

MatchesCopied ==
  \A c \in Contests, m \in Matches :
    IF c \in Linked THEN MatchCopied(copies[c][m], matches[m]) ELSE copies[c][m] = NoCopy
TiesCopied ==
  \A c \in Contests, t \in Ties :
    tieCopies[c][t] =
      IF c \in Linked /\ ties[t].live THEN CopyOfTie(ties[t].result) ELSE NoTieCopy
SettingsCopied ==
  \A c \in Linked : contests[c].teams = tournament.teams /\ contests[c].questions = questions

Copied == MatchesCopied /\ TiesCopied /\ SettingsCopied /\ CompletedIsArchived

LEMMA CopiedFollow ==
  ASSUME TypeOK, Copied
  PROVE  CopiesFollow
<1> SUFFICES ASSUME NEW c \in Linked
             PROVE  /\ contests[c].teams = tournament.teams
                    /\ contests[c].questions = questions
                    /\ \A m \in Matches :
                         IF m \in Live
                         THEN /\ Holds(c, m)
                              /\ copies[c][m].status = "finished" <=> Finished(m)
                              /\ [CopyOf(matches[m]) EXCEPT !.status = copies[c][m].status]
                                   = copies[c][m]
                         ELSE copies[c][m] = NoCopy
                    /\ \A t \in Ties : tieCopies[c][t] =
                         (IF ties[t].live THEN CopyOfTie(ties[t].result) ELSE NoTieCopy)
  BY DEF CopiesFollow
<1>1. c \in Contests
  BY DEF Linked
<1>2. \A copy \in Copy, row \in MatchRow :
        MatchCopied(copy, row) /\ row.status \in MatchStatuses =>
          /\ copy.status # "none"
          /\ copy.status = "finished" <=> row.status = "finished"
          /\ [CopyOf(row) EXCEPT !.status = copy.status] = copy
  BY DEF MatchCopied, CopyOf, Copy, MatchRow
<1>3. ASSUME NEW m \in Matches
      PROVE  IF m \in Live
             THEN /\ Holds(c, m)
                  /\ copies[c][m].status = "finished" <=> Finished(m)
                  /\ [CopyOf(matches[m]) EXCEPT !.status = copies[c][m].status] = copies[c][m]
             ELSE copies[c][m] = NoCopy
  <2>1. copies[c][m] \in Copy /\ matches[m] \in MatchRow
    BY <1>1 DEF TypeOK
  <2>2. MatchCopied(copies[c][m], matches[m])
    BY <1>1 DEF Copied, MatchesCopied
  <2>3. m \in Live <=> matches[m].status \in MatchStatuses
    BY DEF Live
  <2>4. CASE m \in Live
    BY <1>2, <2>1, <2>2, <2>3, <2>4 DEF Holds, Finished
  <2>5. CASE m \notin Live
    BY <2>2, <2>3, <2>5 DEF MatchCopied
  <2> QED
    BY <2>4, <2>5
<1> QED
  BY <1>1, <1>3 DEF Copied, TiesCopied, SettingsCopied

LEMMA CopiedInit == Init => Copied
<1> SUFFICES ASSUME Init PROVE Copied
  OBVIOUS
<1>1. Linked = {}
  BY DEF Init, Linked, NoContest
<1>2. MatchesCopied /\ TiesCopied
  BY <1>1 DEF Init, MatchesCopied, TiesCopied
<1> QED
  BY <1>1, <1>2 DEF Init, Copied, SettingsCopied, CompletedIsArchived, NoContest

(* A command finds every linked contest active, and leaves it linked. *)
LEMMA LinkedAreActive ==
  ASSUME Copied, Active
  PROVE  Linked = ActiveContests
BY DEF Copied, CompletedIsArchived, Active, Linked, ActiveContests

LEMMA LinkedKept ==
  ASSUME TypeOK,
         \/ UNCHANGED contests
         \/ \E q \in Questions : \E asked : Asked(q, asked)
         \/ \E teams \in SUBSET Teams : SaveTeams(teams)
  PROVE  Linked' = Linked
<1>1. CASE UNCHANGED contests
  BY <1>1 DEF Linked
<1>2. ASSUME NEW q \in Questions, NEW asked, Asked(q, asked) PROVE Linked' = Linked
  <2>1. \A c \in Contests : contests'[c].state = contests[c].state
    BY <1>2 DEF Asked, TypeOK, Contest
  <2> QED
    BY <2>1 DEF Linked
<1>3. ASSUME NEW teams \in SUBSET Teams, SaveTeams(teams) PROVE Linked' = Linked
  <2>1. \A c \in Contests : contests'[c].state = contests[c].state
    BY <1>3 DEF SaveTeams, TypeOK, Contest
  <2> QED
    BY <2>1 DEF Linked
<1> QED
  BY <1>1, <1>2, <1>3

(* The same change of a match and of its copy keeps the copy a copy. *)
LEMMA CopyChanges ==
  ASSUME NEW copy \in Copy, NEW row \in MatchRow, MatchCopied(copy, row)
  PROVE  /\ MatchCopied(Begun(copy), Begun(row))
         /\ MatchCopied(copy, Begun(row))
         /\ MatchCopied(Begun(copy), row)
         /\ \A score, team : row.status \in MatchStatuses =>
              MatchCopied(Decided(copy, score, team), Decided(row, score, team))
         /\ \A start : row.status \in MatchStatuses =>
              MatchCopied([copy EXCEPT !.start = start], [row EXCEPT !.start = start])
         /\ copy.status # "none" <=> row.status \in MatchStatuses
BY DEF MatchCopied, Begun, Due, Decided, Copy, MatchRow, MatchStatuses, NoCopy

LEMMA FreshCopies ==
  /\ MatchCopied(NoCopy, NoMatch)
  /\ \A row \in MatchRow : row.status \in MatchStatuses => MatchCopied(CopyOf(row), row)
BY DEF MatchCopied, CopyOf, NoMatch, MatchStatuses, NoCopy, MatchRow

(* What is stored of one match, everywhere. *)
LEMMA CopyOfEach ==
  ASSUME TypeOK, Copied, NEW c \in Contests, NEW m \in Matches
  PROVE  /\ copies[c][m] \in Copy /\ matches[m] \in MatchRow
         /\ c \in Linked => MatchCopied(copies[c][m], matches[m])
         /\ c \notin Linked => copies[c][m] = NoCopy
         /\ m \in Live <=> matches[m].status \in MatchStatuses
         /\ Holds(c, m) <=> c \in Linked /\ m \in Live
<1>1. copies[c][m] \in Copy /\ matches[m] \in MatchRow
  BY DEF TypeOK
<1>2. IF c \in Linked THEN MatchCopied(copies[c][m], matches[m]) ELSE copies[c][m] = NoCopy
  BY DEF Copied, MatchesCopied
<1>3. m \in Live <=> matches[m].status \in MatchStatuses
  BY DEF Live
<1>4. c \in Linked => (copies[c][m].status # "none" <=> matches[m].status \in MatchStatuses)
  BY <1>1, <1>2, CopyChanges
<1> QED
  BY <1>1, <1>2, <1>3, <1>4 DEF Holds, NoCopy

(* Every linked contest gets a new row's copy, and no other row changes. *)
LEMMA CreateMatchCopied ==
  ASSUME TypeOK, Copied, NEW home \in Teams, NEW away \in Teams, NEW start \in Instants,
         CreateMatch(home, away, start)
  PROVE  MatchesCopied' /\ TiesCopied'
<1> DEFINE m == First(FreeMatches)
           row == NewMatch(home, away, start)
<1>1. m \in Matches
  BY Bounds, FirstIsFree DEF CreateMatch, FreeMatches
<1>2. row \in MatchRow /\ row.status \in MatchStatuses
  BY NewMatchType DEF NewMatch, NewLeg, MatchStatuses
<1>3. MatchCopied(CopyOf(row), row)
  BY <1>2, FreshCopies
<1> HIDE DEF m, row
<1>4. matches' = [matches EXCEPT ![m] = row]
      /\ copies' = [c \in Contests |->
           IF c \in ActiveContests THEN [copies[c] EXCEPT ![m] = CopyOf(row)] ELSE copies[c]]
  BY DEF CreateMatch, m, row
<1>5. Linked = ActiveContests /\ Linked' = Linked
  BY LinkedAreActive, LinkedKept DEF CreateMatch
<1>6. \A c \in Contests, x \in Matches :
        IF c \in Linked THEN MatchCopied(copies'[c][x], matches'[x]) ELSE copies'[c][x] = NoCopy
  BY <1>1, <1>3, <1>4, <1>5 DEF Copied, MatchesCopied, TypeOK
<1>7. UNCHANGED <<ties, tieCopies>>
  BY DEF CreateMatch
<1> QED
  BY <1>5, <1>6, <1>7 DEF Copied, MatchesCopied, TiesCopied

LEMMA CreateTieCopied ==
  ASSUME TypeOK, Copied, NEW first \in Teams, NEW second \in Teams,
         NEW start1 \in Instants, NEW start2 \in Instants,
         CreateTie(first, second, start1, start2)
  PROVE  MatchesCopied' /\ TiesCopied'
<1> DEFINE t == First(FreeTies)
           m1 == First(FreeMatches)
           m2 == First(FreeMatches \ {m1})
           leg1 == NewLeg(t, 1, first, second, start1)
           leg2 == NewLeg(t, 2, second, first, start2)
           tie == [live |-> TRUE, first |-> first, second |-> second, result |-> Undecided]
<1>1. t \in Ties
  BY Bounds, FirstIsFree DEF CreateTie, FreeTies
<1>2. MatchCopied(CopyOf(leg1), leg1) /\ MatchCopied(CopyOf(leg2), leg2)
  BY DEF MatchCopied, CopyOf, NewLeg, MatchStatuses
<1>3. tie.live /\ tie.result = Undecided
  OBVIOUS
<1> HIDE DEF t, m1, m2, leg1, leg2, tie
<1>4. /\ matches' = [matches EXCEPT ![m1] = leg1, ![m2] = leg2]
      /\ copies' = [c \in Contests |->
           IF c \in ActiveContests
           THEN [copies[c] EXCEPT ![m1] = CopyOf(leg1), ![m2] = CopyOf(leg2)]
           ELSE copies[c]]
  BY DEF CreateTie, m1, m2, leg1, leg2, t
<1>5. /\ ties' = [ties EXCEPT ![t] = tie]
      /\ tieCopies' = [c \in Contests |->
           IF c \in ActiveContests
           THEN [tieCopies[c] EXCEPT ![t] = CopyOfTie(Undecided)]
           ELSE tieCopies[c]]
  BY DEF CreateTie, t, tie
<1>6. Linked = ActiveContests /\ Linked' = Linked
  BY LinkedAreActive, LinkedKept DEF CreateTie
<1>7. \A c \in Contests, x \in Matches :
        IF c \in Linked THEN MatchCopied(copies'[c][x], matches'[x]) ELSE copies'[c][x] = NoCopy
  BY <1>2, <1>4, <1>6 DEF Copied, MatchesCopied, TypeOK
<1>8. \A c \in Contests, x \in Ties :
        tieCopies'[c][x] =
          IF c \in Linked /\ ties'[x].live THEN CopyOfTie(ties'[x].result) ELSE NoTieCopy
  BY <1>1, <1>3, <1>5, <1>6 DEF Copied, TiesCopied, TypeOK
<1> QED
  BY <1>6, <1>7, <1>8 DEF MatchesCopied, TiesCopied

LEMMA UpdateStartCopied ==
  ASSUME TypeOK, Copied, NEW m \in Matches, NEW start \in Instants, UpdateStart(m, start)
  PROVE  MatchesCopied' /\ TiesCopied'
<1>1. Linked' = Linked
  BY LinkedKept DEF UpdateStart
<1>2. ASSUME NEW c \in Contests, NEW x \in Matches
      PROVE  IF c \in Linked THEN MatchCopied(copies'[c][x], matches'[x])
             ELSE copies'[c][x] = NoCopy
  <2>1. copies'[c][x] = IF x = m /\ Holds(c, m) THEN [copies[c][m] EXCEPT !.start = start]
                        ELSE copies[c][x]
    BY DEF UpdateStart, TypeOK
  <2>2. matches'[x] = IF x = m THEN [matches[m] EXCEPT !.start = start] ELSE matches[x]
    BY DEF UpdateStart, TypeOK
  <2>3. matches[m].status \in MatchStatuses
    BY DEF UpdateStart, Live
  <2>4. CASE c \in Linked /\ x = m
    <3>1. copies[c][m] \in Copy /\ matches[m] \in MatchRow /\ Holds(c, m)
          /\ MatchCopied(copies[c][m], matches[m])
      BY <2>3, <2>4, CopyOfEach
    <3>2. MatchCopied([copies[c][m] EXCEPT !.start = start], [matches[m] EXCEPT !.start = start])
      BY <2>3, <3>1, CopyChanges
    <3> QED
      BY <2>1, <2>2, <2>4, <3>1, <3>2
  <2>5. CASE c \notin Linked \/ x # m
    BY <2>1, <2>2, <2>5, CopyOfEach
  <2> QED
    BY <2>4, <2>5
<1>3. UNCHANGED <<ties, tieCopies>>
  BY DEF UpdateStart
<1> QED
  BY <1>1, <1>2, <1>3 DEF Copied, MatchesCopied, TiesCopied

LEMMA DeletedCopied ==
  ASSUME TypeOK, Copied,
         \/ \E m \in Matches : DeleteMatch(m)
         \/ \E t \in Ties : DeleteTie(t)
  PROVE  MatchesCopied' /\ TiesCopied'
<1>1. Linked' = Linked
  BY LinkedKept DEF DeleteMatch, DeleteTie
<1>2. ASSUME NEW m \in Matches, DeleteMatch(m) PROVE MatchesCopied' /\ TiesCopied'
  <2>1. \A c \in Contests, x \in Matches :
          IF c \in Linked THEN MatchCopied(copies'[c][x], matches'[x])
          ELSE copies'[c][x] = NoCopy
    BY <1>2, FreshCopies DEF DeleteMatch, Copied, MatchesCopied, TypeOK
  <2> QED
    BY <1>1, <1>2, <2>1 DEF DeleteMatch, Copied, MatchesCopied, TiesCopied
<1>3. ASSUME NEW t \in Ties, DeleteTie(t) PROVE MatchesCopied' /\ TiesCopied'
  <2>1. \A c \in Contests, x \in Matches :
          IF c \in Linked THEN MatchCopied(copies'[c][x], matches'[x])
          ELSE copies'[c][x] = NoCopy
    BY <1>3, FreshCopies DEF DeleteTie, Copied, MatchesCopied, TypeOK
  <2>2. \A c \in Contests, x \in Ties :
          tieCopies'[c][x] =
            IF c \in Linked /\ ties'[x].live THEN CopyOfTie(ties'[x].result) ELSE NoTieCopy
    BY <1>3 DEF DeleteTie, Copied, TiesCopied, TypeOK, NoTie
  <2> QED
    BY <1>1, <2>1, <2>2 DEF MatchesCopied, TiesCopied
<1> QED
  BY <1>2, <1>3

(* A result reaches every contest that holds the match, which is every linked
   one. *)
LEMMA MatchDecidedCopied ==
  ASSUME TypeOK, Copied, Linked' = Linked,
         NEW m \in Live, NEW score, NEW team,
         matches' = [matches EXCEPT ![m] = Decided(@, score, team)],
         copies' = CopiesDecided(m, score, team)
  PROVE  MatchesCopied'
<1> SUFFICES ASSUME NEW c \in Contests, NEW x \in Matches
             PROVE  IF c \in Linked THEN MatchCopied(copies'[c][x], matches'[x])
                    ELSE copies'[c][x] = NoCopy
  BY DEF MatchesCopied
<1>1. m \in Matches
  BY DEF Live
<1>2. copies'[c][x] = IF x = m /\ Holds(c, m) THEN Decided(copies[c][m], score, team)
                      ELSE copies[c][x]
  BY DEF CopiesDecided, TypeOK
<1>3. matches'[x] = IF x = m THEN Decided(matches[m], score, team) ELSE matches[x]
  BY <1>1 DEF TypeOK
<1> QED
  BY <1>1, <1>2, <1>3, CopyOfEach, CopyChanges

LEMMA TieDecidedCopied ==
  ASSUME TypeOK, Copied, Linked' = Linked, NEW t \in Ties, NEW result,
         ties' = [ties EXCEPT ![t].result = result],
         tieCopies' = TieCopiesDecided(t, result)
  PROVE  TiesCopied'
<1> SUFFICES ASSUME NEW c \in Contests, NEW x \in Ties
             PROVE  tieCopies'[c][x] = IF c \in Linked /\ ties'[x].live
                                       THEN CopyOfTie(ties'[x].result) ELSE NoTieCopy
  BY DEF TiesCopied
<1>1. tieCopies[c][x] = IF c \in Linked /\ ties[x].live
                        THEN CopyOfTie(ties[x].result) ELSE NoTieCopy
  BY DEF Copied, TiesCopied
<1>2. tieCopies[c][x].held <=> c \in Linked /\ ties[x].live
  BY <1>1 DEF CopyOfTie, NoTieCopy, TypeOK, TieRow
<1>3. tieCopies'[c][x] = IF x = t /\ tieCopies[c][x].held
                         THEN [tieCopies[c][x] EXCEPT !.result = result] ELSE tieCopies[c][x]
  BY DEF TieCopiesDecided, TypeOK
<1>4. ties'[x] = IF x = t THEN [ties[x] EXCEPT !.result = result] ELSE ties[x]
  BY DEF TypeOK
<1>5. ties[x] \in TieRow
  BY DEF TypeOK
<1>6. ties'[x].live = ties[x].live /\ (x = t => ties'[x].result = result)
  BY <1>4, <1>5 DEF TieRow
<1> QED
  BY <1>1, <1>2, <1>3, <1>4, <1>6 DEF CopyOfTie

LEMMA ChangeMatchCopied ==
  ASSUME TypeOK, Copied, NEW m \in Matches, ChangeMatch(m)
  PROVE  MatchesCopied' /\ TiesCopied'
<1>1. CASE DeleteMatch(m)
  BY <1>1, DeletedCopied
<1>2. CASE MarkFinal(m)
  BY <1>2 DEF MarkFinal, local, Copied, MatchesCopied, TiesCopied, Linked
<1>3. ASSUME NEW start \in Instants, UpdateStart(m, start)
      PROVE  MatchesCopied' /\ TiesCopied'
  BY <1>3, UpdateStartCopied
<1>4. ASSUME NEW score \in Goals \X Goals, SaveLegResult(m, score)
      PROVE  MatchesCopied' /\ TiesCopied'
  <2> DEFINE t == matches[m].tie
             result == ReconciledTie(m, score)
  <2>1. t \in Ties /\ m \in Live
    BY <1>4 DEF SaveLegResult, TypeOK, MatchRow, Standalone
  <2>2. Linked' = Linked
    BY <1>4, LinkedKept DEF SaveLegResult
  <2> HIDE DEF t, result
  <2>3. /\ matches' = [matches EXCEPT ![m] = Decided(@, score, "none")]
        /\ copies' = CopiesDecided(m, score, "none")
        /\ ties' = [ties EXCEPT ![t].result = result]
        /\ tieCopies' = TieCopiesDecided(t, result)
    BY <1>4 DEF SaveLegResult, t, result
  <2> QED
    BY <2>1, <2>2, <2>3, MatchDecidedCopied, TieDecidedCopied
<1>5. ASSUME NEW score \in Goals \X Goals, NEW team \in Teams, SaveMatchResult(m, score, team)
      PROVE  MatchesCopied' /\ TiesCopied'
  <2>1. m \in Live /\ Linked' = Linked
    BY <1>5, LinkedKept DEF SaveMatchResult, Standalone
  <2>2. MatchesCopied'
    BY <1>5, <2>1, MatchDecidedCopied DEF SaveMatchResult
  <2>3. TiesCopied'
    BY <1>5, <2>1 DEF SaveMatchResult, Copied, TiesCopied
  <2> QED
    BY <2>2, <2>3
<1> QED
  BY <1>1, <1>2, <1>3, <1>4, <1>5 DEF ChangeMatch

LEMMA ChangeTieCopied ==
  ASSUME TypeOK, Copied, NEW t \in Ties, ChangeTie(t)
  PROVE  MatchesCopied' /\ TiesCopied'
<1>1. CASE DeleteTie(t)
  BY <1>1, DeletedCopied
<1>2. ASSUME NEW extra, NEW shootout, SaveTieResult(t, extra, shootout)
      PROVE  MatchesCopied' /\ TiesCopied'
  <2> DEFINE result == Resolution(ScoreOfLeg(t, 1), ScoreOfLeg(t, 2), extra, shootout)
  <2>1. Linked' = Linked
    BY <1>2, LinkedKept DEF SaveTieResult
  <2> HIDE DEF result
  <2>2. ties' = [ties EXCEPT ![t].result = result] /\ tieCopies' = TieCopiesDecided(t, result)
    BY <1>2 DEF SaveTieResult, result
  <2>3. MatchesCopied'
    BY <1>2, <2>1 DEF SaveTieResult, Copied, MatchesCopied
  <2> QED
    BY <2>1, <2>2, <2>3, TieDecidedCopied
<1> QED
  BY <1>1, <1>2 DEF ChangeTie

(* A match begins in the tournament before it does in a contest, or after. *)
LEMMA BegunCopied ==
  ASSUME TypeOK, Copied,
         \/ StartDueMatches
         \/ \E c \in Contests : ShowContest(c)
  PROVE  MatchesCopied' /\ TiesCopied'
<1>1. Linked' = Linked /\ UNCHANGED <<ties, tieCopies>>
  BY LinkedKept DEF StartDueMatches, ShowContest, rows
<1>2. \A cs : \A c \in Contests, m \in Matches :
        CopiesBegunIn(cs)[c][m] = IF c \in cs THEN Begun(copies[c][m]) ELSE copies[c][m]
  BY DEF CopiesBegunIn
<1>3. Begun(NoCopy) = NoCopy
  BY DEF Begun, Due, NoCopy
<1>4. ASSUME NEW cs, copies' = CopiesBegunIn(cs),
             NEW c \in Contests, NEW m \in Matches,
             matches'[m] \in {matches[m], Begun(matches[m])}
      PROVE  IF c \in Linked THEN MatchCopied(copies'[c][m], matches'[m])
             ELSE copies'[c][m] = NoCopy
  <2>1. copies'[c][m] \in {copies[c][m], Begun(copies[c][m])}
    BY <1>2, <1>4
  <2>2. CASE c \in Linked
    <3>1. copies[c][m] \in Copy /\ matches[m] \in MatchRow
          /\ MatchCopied(copies[c][m], matches[m])
      BY <2>2, CopyOfEach
    <3>2. /\ MatchCopied(Begun(copies[c][m]), Begun(matches[m]))
          /\ MatchCopied(copies[c][m], Begun(matches[m]))
          /\ MatchCopied(Begun(copies[c][m]), matches[m])
      BY <3>1, CopyChanges
    <3> QED
      BY <1>4, <2>1, <2>2, <3>1, <3>2
  <2>3. CASE c \notin Linked
    <3>1. copies[c][m] = NoCopy
      BY <2>3, CopyOfEach
    <3> QED
      BY <1>3, <2>1, <2>3, <3>1
  <2> QED
    BY <2>2, <2>3
<1>5. CASE StartDueMatches
  <2>1. \A m \in Matches : matches'[m] = Begun(matches[m])
    BY <1>5 DEF StartDueMatches
  <2>2. copies' = CopiesBegunIn(ActiveContests)
    BY <1>5 DEF StartDueMatches
  <2> QED
    BY <1>1, <1>4, <2>1, <2>2 DEF Copied, MatchesCopied, TiesCopied
<1>6. ASSUME NEW c \in Contests, ShowContest(c) PROVE MatchesCopied' /\ TiesCopied'
  <2>1. copies' = CopiesBegunIn({c}) /\ matches' = matches
    BY <1>6 DEF ShowContest, rows
  <2> QED
    BY <1>1, <1>4, <2>1 DEF Copied, MatchesCopied, TiesCopied
<1> QED
  BY <1>5, <1>6

(* What happens in a contest: it is given everything there is when it is
   created, and everything is taken away when it is deleted. *)
LEMMA InContestCopied ==
  ASSUME TypeOK, Copied, NEW c \in Contests, InContest(c)
  PROVE  MatchesCopied' /\ TiesCopied' /\ SettingsCopied'
<1>1. CASE CreateContest(c)
  <2>1. /\ contests'[c].state = "active"
        /\ contests'[c].teams = tournament.teams /\ contests'[c].questions = questions
        /\ \A d \in Contests \ {c} : contests'[d] = contests[d]
    BY <1>1 DEF CreateContest, TypeOK, NoContest
  <2>2. Linked' = Linked \cup {c}
    BY <2>1 DEF Linked
  <2>3. ASSUME NEW d \in Contests, NEW m \in Matches
        PROVE  IF d \in Linked' THEN MatchCopied(copies'[d][m], matches[m])
               ELSE copies'[d][m] = NoCopy
    <3>1. CASE d = c
      <4>1. copies'[c][m] = IF m \in Live THEN CopyOf(matches[m]) ELSE NoCopy
        BY <1>1 DEF CreateContest, TypeOK
      <4> QED
        BY <2>2, <3>1, <4>1, CopyOfEach, FreshCopies DEF MatchCopied
    <3>2. CASE d # c
      <4>1. copies'[d] = copies[d]
        BY <1>1, <3>2 DEF CreateContest, TypeOK
      <4> QED
        BY <2>2, <3>2, <4>1, CopyOfEach
    <3> QED
      BY <3>1, <3>2
  <2>4. ASSUME NEW d \in Contests, NEW t \in Ties
        PROVE  tieCopies'[d][t] = IF d \in Linked' /\ ties[t].live
                                  THEN CopyOfTie(ties[t].result) ELSE NoTieCopy
    BY <1>1, <2>2 DEF CreateContest, LiveTies, Copied, TiesCopied, TypeOK
  <2>5. UNCHANGED <<tournament, questions, matches, ties>>
    BY <1>1 DEF CreateContest, rows
  <2> QED
    BY <2>1, <2>2, <2>3, <2>4, <2>5
    DEF Copied, MatchesCopied, TiesCopied, SettingsCopied, Linked
<1>2. CASE DeleteContest(c)
  <2>1. contests'[c].state = "none" /\ \A d \in Contests \ {c} : contests'[d] = contests[d]
    BY <1>2 DEF DeleteContest, TypeOK, NoContest
  <2>2. Linked' = Linked \ {c}
    BY <2>1 DEF Linked
  <2>3. \A d \in Contests, m \in Matches :
          copies'[d][m] = IF d = c THEN NoCopy ELSE copies[d][m]
    BY <1>2 DEF DeleteContest, TypeOK
  <2>4. \A d \in Contests, t \in Ties :
          tieCopies'[d][t] = IF d = c THEN NoTieCopy ELSE tieCopies[d][t]
    BY <1>2 DEF DeleteContest, TypeOK
  <2>5. UNCHANGED <<tournament, questions, matches, ties>>
    BY <1>2 DEF DeleteContest, rows
  <2> QED
    BY <2>1, <2>2, <2>3, <2>4, <2>5
    DEF Copied, MatchesCopied, TiesCopied, SettingsCopied, Linked
<1>3. CASE CompleteContest(c) \/ \E q \in Questions, team \in Teams : SavePick(c, q, team)
  <2>1. \A d \in Contests :
          /\ contests'[d].teams = contests[d].teams
          /\ contests'[d].questions = contests[d].questions
          /\ contests'[d].state \in {"active", "completed"}
               <=> contests[d].state \in {"active", "completed"}
    <3>1. \A d \in Contests : contests[d] \in Contest
      BY DEF TypeOK
    <3>2. CASE CompleteContest(c)
      BY <3>2 DEF CompleteContest, ActiveContests, TypeOK, Contest
    <3>3. ASSUME NEW q \in Questions, NEW team \in Teams, SavePick(c, q, team)
          PROVE  \A d \in Contests : /\ contests'[d].teams = contests[d].teams
                                     /\ contests'[d].questions = contests[d].questions
                                     /\ contests'[d].state = contests[d].state
      <4>1. contests' = [contests EXCEPT ![c].picks[q] = team, ![c].picked[q] = clock]
        BY <3>3 DEF SavePick
      <4>2. \A d \in Contests \ {c} : contests'[d] = contests[d]
        BY <4>1 DEF TypeOK
      <4>3. contests'[c] = [contests[c] EXCEPT !.picks[q] = team, !.picked[q] = clock]
        BY <4>1 DEF TypeOK
      <4>4. \A row \in Contest :
              LET picked == [row EXCEPT !.picks[q] = team, !.picked[q] = clock]
              IN  picked.teams = row.teams /\ picked.questions = row.questions
                  /\ picked.state = row.state
        BY DEF Contest
      <4> QED
        BY <3>1, <4>2, <4>3, <4>4
    <3> QED
      BY <1>3, <3>2, <3>3
  <2>2. Linked' = Linked
    BY <2>1 DEF Linked
  <2>3. UNCHANGED <<tournament, questions, matches, ties, copies, tieCopies>>
    BY <1>3 DEF CompleteContest, SavePick, rows
  <2> QED
    BY <2>1, <2>2, <2>3 DEF Copied, MatchesCopied, TiesCopied, SettingsCopied, Linked
<1>4. CASE ShowContest(c)
  BY <1>4, BegunCopied, LinkedKept DEF ShowContest, Copied, SettingsCopied
<1> QED
  BY <1>1, <1>2, <1>3, <1>4 DEF InContest

(* Teams, deadlines and answers. *)
LEMMA SettingsKept ==
  ASSUME TypeOK, Copied,
         \/ \E teams \in SUBSET Teams : SaveTeams(teams)
         \/ \E q \in Questions : \E asked : Asked(q, asked)
  PROVE  MatchesCopied' /\ TiesCopied' /\ SettingsCopied'
<1>1. Linked' = Linked
  BY LinkedKept
<1>2. MatchesCopied' /\ TiesCopied'
  BY <1>1 DEF SaveTeams, Asked, rows, Copied, MatchesCopied, TiesCopied
<1>3. ASSUME NEW teams \in SUBSET Teams, SaveTeams(teams) PROVE SettingsCopied'
  BY <1>1, <1>3 DEF SaveTeams, Copied, SettingsCopied, Linked, TypeOK, Contest
<1>4. ASSUME NEW q \in Questions, NEW asked, Asked(q, asked) PROVE SettingsCopied'
  <2>1. tournament' = tournament /\ questions' = [questions EXCEPT ![q] = asked]
    BY <1>4 DEF Asked
  <2>2. \A c \in Linked : contests'[c] = [contests[c] EXCEPT !.questions[q] = asked]
    BY <1>4 DEF Asked, Linked
  <2>3. \A c \in Linked : contests[c] \in Contest /\ contests[c].teams = tournament.teams
                         /\ contests[c].questions = questions
    BY DEF Copied, SettingsCopied, Linked, TypeOK
  <2>4. \A c \in Linked : contests'[c].teams = tournament'.teams
                         /\ contests'[c].questions = questions'
    <3>1. \A row \in Contest :
            /\ [row EXCEPT !.questions[q] = asked].teams = row.teams
            /\ [row EXCEPT !.questions[q] = asked].questions = [row.questions EXCEPT ![q] = asked]
      BY DEF Contest
    <3> QED
      BY <2>1, <2>2, <2>3, <3>1
  <2> QED
    BY <1>1, <2>4 DEF SettingsCopied
<1> QED
  BY <1>2, <1>3, <1>4

LEMMA NextCopied ==
  ASSUME TypeOK, Copied, [Next]_vars
  PROVE  Copied'
<1> SUFFICES MatchesCopied' /\ TiesCopied' /\ SettingsCopied'
  BY CompletedPreserved DEF Copied
<1>1. ASSUME UNCHANGED <<tournament, questions, contests>> \/ RestoreTournament \/ ArchiveTournament
      PROVE  SettingsCopied'
  <2>1. UNCHANGED <<questions, contests>> /\ tournament'.teams = tournament.teams
    BY <1>1 DEF RestoreTournament, ArchiveTournament, local, TypeOK
  <2> QED
    BY <2>1 DEF Copied, SettingsCopied, Linked
<1>2. ASSUME UNCHANGED <<matches, ties, local>> PROVE MatchesCopied' /\ TiesCopied'
  BY <1>2 DEF local, Copied, MatchesCopied, TiesCopied, Linked
<1>3. CASE Tick
  BY <1>1, <1>2, <1>3 DEF Tick, local, rows
<1>4. CASE StartDueMatches
  BY <1>1, <1>4, BegunCopied DEF StartDueMatches
<1>5. CASE EnterMatch
  <2>1. UNCHANGED <<tournament, questions, contests>>
    BY <1>5 DEF EnterMatch, CreateMatch, CreateTie
  <2>2. MatchesCopied' /\ TiesCopied'
    BY <1>5, CreateMatchCopied, CreateTieCopied DEF EnterMatch
  <2> QED
    BY <1>1, <2>1, <2>2
<1>6. CASE ArchiveTournament \/ RestoreTournament
  BY <1>1, <1>2, <1>6 DEF ArchiveTournament, RestoreTournament, rows
<1>7. ASSUME NEW teams \in SUBSET Teams, SaveTeams(teams)
      PROVE  MatchesCopied' /\ TiesCopied' /\ SettingsCopied'
  BY <1>7, SettingsKept
<1>8. ASSUME NEW m \in Matches, ChangeMatch(m)
      PROVE  MatchesCopied' /\ TiesCopied' /\ SettingsCopied'
  BY <1>1, <1>8, ChangeMatchCopied
  DEF ChangeMatch, DeleteMatch, MarkFinal, UpdateStart, SaveLegResult, SaveMatchResult, local
<1>9. ASSUME NEW t \in Ties, ChangeTie(t)
      PROVE  MatchesCopied' /\ TiesCopied' /\ SettingsCopied'
  BY <1>1, <1>9, ChangeTieCopied DEF ChangeTie, DeleteTie, SaveTieResult
<1>10. CASE AskChampion
  BY <1>10, SettingsKept
  DEF AskChampion, SaveChampionSettings, SaveChampionResult, SaveSettings, SaveAnswer
<1>11. CASE AskSwiss
  BY <1>11, SettingsKept
  DEF AskSwiss, SaveSwissSettings, SaveSwissResult, SaveSettings, SaveAnswer
<1>12. ASSUME NEW c \in Contests, InContest(c)
       PROVE  MatchesCopied' /\ TiesCopied' /\ SettingsCopied'
  BY <1>12, InContestCopied
<1>13. ASSUME NEW row \in Showable, OpenPage(row)
       PROVE  MatchesCopied' /\ TiesCopied' /\ SettingsCopied'
  BY <1>1, <1>2, <1>13 DEF OpenPage, local, rows
<1>14. CASE UNCHANGED vars
  BY <1>1, <1>2, <1>14 DEF vars, local, rows
<1> QED
  BY <1>3, <1>4, <1>5, <1>6, <1>7, <1>8, <1>9, <1>10, <1>11, <1>12, <1>13, <1>14 DEF Next

LEMMA AlwaysCopied == Spec => [](TypeOK /\ Copied)
<1>1. TypeOK /\ Copied /\ [Next]_vars => Copied'
  BY NextCopied
<1> QED
  BY <1>1, CopiedInit, SharedTypes, PTL DEF Spec

(* Every linked contest always holds what the tournament says. *)
THEOREM CopiesAlwaysFollow == Spec => []CopiesFollow
<1>1. TypeOK /\ Copied => CopiesFollow
  BY CopiedFollow
<1> QED
  BY <1>1, AlwaysCopied, PTL

-----------------------------------------------------------------------------
(* What is closed.  Time passes, a deadline that has passed is kept, and an
   answer is entered after it. *)

LEMMA TimePasses ==
  ASSUME TypeOK, [Next]_vars
  PROVE  clock \in Nat /\ clock' \in Nat /\ clock =< clock'
<1>1. clock \in Nat
  BY Bounds DEF TypeOK, Instants
<1>2. clock' \in {clock, clock + 1}
  BY DEF Next, vars, Tick, StartDueMatches, EnterMatch, CreateMatch, CreateTie,
         ArchiveTournament, RestoreTournament, SaveTeams, ChangeMatch, DeleteMatch, MarkFinal,
         UpdateStart, SaveLegResult, SaveMatchResult, ChangeTie, DeleteTie, SaveTieResult,
         AskChampion, SaveChampionSettings, SaveChampionResult, AskSwiss, SaveSwissSettings,
         SaveSwissResult, SaveSettings, SaveAnswer, Asked, InContest, CreateContest,
         DeleteContest, CompleteContest, ShowContest, SavePick, OpenPage
<1> QED
  BY <1>1, <1>2

LEMMA AskedStep ==
  ASSUME TypeOK, NEW p \in Questions, NEW q \in Questions,
         \/ \E enabled \in BOOLEAN, deadline \in Times : SaveSettings(p, enabled, deadline)
         \/ \E team \in Teams : SaveAnswer(p, team)
  PROVE  /\ Passed(questions[q].deadline) => questions'[q].deadline = questions[q].deadline
         /\ questions'[q].answer # questions[q].answer => Passed(questions[q].deadline)
<1>1. \A x \in Questions : questions[x] \in Question
  BY DEF TypeOK
<1>2. ASSUME NEW enabled \in BOOLEAN, NEW deadline \in Times, SaveSettings(p, enabled, deadline)
      PROVE  /\ Passed(questions[q].deadline) => questions'[q].deadline = questions[q].deadline
             /\ questions'[q].answer = questions[q].answer
  BY <1>1, <1>2 DEF SaveSettings, DeadlineMayBecome, Asked, TypeOK, Question
<1>3. ASSUME NEW team \in Teams, SaveAnswer(p, team)
      PROVE  /\ questions'[q].deadline = questions[q].deadline
             /\ questions'[q].answer # questions[q].answer => Passed(questions[q].deadline)
  BY <1>1, <1>3 DEF SaveAnswer, Asked, TypeOK, Question
<1> QED
  BY <1>2, <1>3

LEMMA QuestionStep ==
  ASSUME TypeOK, [Next]_vars, NEW q \in Questions
  PROVE  /\ Passed(questions[q].deadline) => questions'[q].deadline = questions[q].deadline
         /\ questions'[q].answer # questions[q].answer => Passed(questions[q].deadline)
<1>1. CASE AskChampion
  BY <1>1, AskedStep DEF AskChampion, SaveChampionSettings, SaveChampionResult
<1>2. CASE AskSwiss
  BY <1>2, AskedStep DEF AskSwiss, SaveSwissSettings, SaveSwissResult
<1>3. CASE ~AskChampion /\ ~AskSwiss
  <2>1. questions' = questions
    BY <1>3
    DEF Next, vars, Tick, StartDueMatches, EnterMatch, CreateMatch, CreateTie,
        ArchiveTournament, RestoreTournament, SaveTeams, ChangeMatch, DeleteMatch, MarkFinal,
        UpdateStart, SaveLegResult, SaveMatchResult, ChangeTie, DeleteTie, SaveTieResult,
        InContest, CreateContest, DeleteContest, CompleteContest, ShowContest, SavePick, OpenPage
  <2> QED
    BY <2>1
<1> QED
  BY <1>1, <1>2, <1>3

AnswersAreLate == \A q \in Questions : questions[q].answer # "none" => Passed(questions[q].deadline)

LEMMA AnswersStayLate ==
  ASSUME TypeOK, AnswersAreLate, [Next]_vars
  PROVE  AnswersAreLate'
<1> SUFFICES ASSUME NEW q \in Questions, questions'[q].answer # "none"
             PROVE  Passed(questions[q].deadline)'
  BY DEF AnswersAreLate
<1>1. Passed(questions[q].deadline) /\ questions'[q].deadline = questions[q].deadline
  BY QuestionStep DEF AnswersAreLate
<1>2. questions[q].deadline \in Nat
  BY Bounds DEF TypeOK, Question, Times, NoTime, Instants
<1> QED
  BY <1>1, <1>2, TimePasses DEF Passed

(* An answer is only known while nobody can still guess. *)
THEOREM AnswersComeLate == Spec => []AnsweredIsClosed
<1>1. Init => AnswersAreLate
  BY DEF Init, AnswersAreLate, NoQuestion
<1>2. TypeOK /\ AnswersAreLate /\ [Next]_vars => AnswersAreLate'
  BY AnswersStayLate
<1>3. ASSUME TypeOK, Copied, AnswersAreLate PROVE AnsweredIsClosed
  <2> SUFFICES ASSUME NEW c \in Contests, NEW q \in Questions,
                      contests[c].questions[q].answer # "none", AcceptsPicks(c, q)
               PROVE  FALSE
    BY <1>3 DEF AnsweredIsClosed, AnswersAreLate
  <2>1. contests[c].questions = questions
    BY <1>3 DEF AcceptsPicks, ActiveContests, Copied, SettingsCopied, Linked
  <2>2. Passed(questions[q].deadline) /\ clock < questions[q].deadline
    BY <1>3, <2>1 DEF AcceptsPicks, AnswersAreLate
  <2>3. clock \in Nat /\ questions[q].deadline \in Nat
    BY <1>3, Bounds DEF TypeOK, Question, Times, NoTime, Instants
  <2> QED
    BY <2>2, <2>3 DEF Passed
<1>4. TypeOK /\ Copied /\ AnswersAreLate => AnsweredIsClosed
  BY <1>3
<1> QED
  BY <1>1, <1>2, <1>4, AlwaysCopied, PTL DEF Spec

(* What a step may do to a copy: keep it, begin or decide or remove it, or
   move the start of a match that can still be predicted. *)
LEMMA CopyStep ==
  ASSUME TypeOK, Copied, [Next]_vars,
         NEW c \in Contests, NEW m \in Matches, Holds(c, m)
  PROVE  \/ copies'[c][m] = copies[c][m]
         \/ copies'[c][m].status # "scheduled"
         \/ StillOpen(copies[c][m])
<1> DEFINE Allowed == \/ copies'[c][m] = copies[c][m]
                      \/ copies'[c][m].status # "scheduled"
                      \/ StillOpen(copies[c][m])
<1>1. c \in Linked /\ m \in Live
  BY CopyOfEach
<1>2. \A cs : CopiesBegunIn(cs)[c][m] \in {copies[c][m], Begun(copies[c][m])}
  BY DEF CopiesBegunIn
<1>3. \/ Begun(copies[c][m]).status # "scheduled"
      \/ Begun(copies[c][m]) = copies[c][m]
  BY DEF TypeOK, Begun, Copy
<1>4. NoCopy.status # "scheduled"
  BY DEF NoCopy
<1>5. \A score, team : Decided(copies[c][m], score, team).status # "scheduled"
  BY DEF TypeOK, Decided, Copy
<1>6. CASE StartDueMatches
  BY <1>2, <1>3, <1>6 DEF StartDueMatches
<1>7. CASE EnterMatch
  <2>1. m \notin FreeMatches
    BY <1>1 DEF FreeMatches
  <2>2. ASSUME NEW home, NEW away, NEW start, CreateMatch(home, away, start) PROVE Allowed
    <3>1. First(FreeMatches) # m
      BY <2>1, <2>2, Bounds, FirstIsFree DEF CreateMatch, FreeMatches
    <3> QED
      BY <2>2, <3>1 DEF CreateMatch, TypeOK
  <2>3. ASSUME NEW first, NEW second, NEW start1, NEW start2,
               CreateTie(first, second, start1, start2)
        PROVE  Allowed
    <3> DEFINE m1 == First(FreeMatches)
               m2 == First(FreeMatches \ {m1})
    <3>1. m # m1 /\ m # m2
      BY <2>1, <2>3, TwoAreFree DEF CreateTie
    <3> QED
      BY <2>3, <3>1 DEF CreateTie, TypeOK
  <2> QED
    BY <1>7, <2>2, <2>3 DEF EnterMatch
<1>8. ASSUME NEW x \in Matches, ChangeMatch(x) PROVE Allowed
  <2>1. CASE DeleteMatch(x)
    BY <1>4, <2>1 DEF DeleteMatch, TypeOK
  <2>2. CASE MarkFinal(x)
    BY <2>2 DEF MarkFinal, local
  <2>3. ASSUME NEW start, UpdateStart(x, start) PROVE Allowed
    BY <2>3 DEF UpdateStart, TypeOK
  <2>4. ASSUME NEW score, NEW team, copies' = CopiesDecided(x, score, team) PROVE Allowed
    BY <1>5, <2>4 DEF CopiesDecided, TypeOK
  <2> QED
    BY <1>8, <2>1, <2>2, <2>3, <2>4 DEF ChangeMatch, SaveLegResult, SaveMatchResult
<1>9. ASSUME NEW t \in Ties, ChangeTie(t) PROVE Allowed
  BY <1>4, <1>9 DEF ChangeTie, DeleteTie, SaveTieResult
<1>10. ASSUME NEW d \in Contests, InContest(d) PROVE Allowed
  <2>1. CASE CreateContest(d)
    <3>1. d # c
      BY <1>1, <2>1 DEF CreateContest, Linked
    <3> QED
      BY <2>1, <3>1 DEF CreateContest, TypeOK
  <2>2. CASE DeleteContest(d)
    BY <1>4, <2>2 DEF DeleteContest, TypeOK
  <2>3. CASE ShowContest(d)
    BY <1>2, <1>3, <2>3 DEF ShowContest
  <2> QED
    BY <1>10, <2>1, <2>2, <2>3 DEF InContest, CompleteContest, SavePick
<1>11. CASE UNCHANGED copies
  BY <1>11
<1>12. ASSUME NEW p \in Questions, NEW asked, Asked(p, asked) PROVE Allowed
  BY <1>12 DEF Asked
<1>13. CASE AskChampion
  BY <1>12, <1>13
  DEF AskChampion, SaveChampionSettings, SaveChampionResult, SaveSettings, SaveAnswer
<1>14. CASE AskSwiss
  BY <1>12, <1>14 DEF AskSwiss, SaveSwissSettings, SaveSwissResult, SaveSettings, SaveAnswer
<1>15. Tick \/ ArchiveTournament \/ RestoreTournament
       \/ (\E teams \in SUBSET Teams : SaveTeams(teams))
       \/ (\E row \in Showable : OpenPage(row)) \/ UNCHANGED vars
       => UNCHANGED copies
  BY DEF Tick, ArchiveTournament, RestoreTournament, SaveTeams, OpenPage, local, vars
<1> QED
  BY <1>6, <1>7, <1>8, <1>9, <1>10, <1>11, <1>13, <1>14, <1>15 DEF Next

(* What was closed to predictions stays closed. *)
THEOREM ClosedAlwaysStays == Spec => ClosedStaysClosed
<1>1. ASSUME TypeOK, Copied, Copied', [Next]_vars, NEW c \in Contests, NEW m \in Matches,
             Holds(c, m), ~StillOpen(copies[c][m])
      PROVE  ~StillOpen(copies[c][m])'
  <2>1. copies'[c][m] = copies[c][m] \/ copies'[c][m].status # "scheduled"
    BY <1>1, CopyStep
  <2>2. copies[c][m].start \in Nat
    BY <1>1, Bounds DEF TypeOK, Copy, Times, NoTime, Instants
  <2> QED
    BY <1>1, <2>1, <2>2, TimePasses DEF StillOpen
<1>2. ASSUME TypeOK, Copied, Copied', [Next]_vars, NEW c \in Contests, NEW q \in Questions,
             contests[c].state = "active", Passed(contests[c].questions[q].deadline)
      PROVE  ~AcceptsPicks(c, q)'
  <2> SUFFICES ASSUME AcceptsPicks(c, q)' PROVE FALSE
    OBVIOUS
  <2>1. contests[c].questions = questions
    BY <1>2 DEF Copied, SettingsCopied, Linked
  <2>2. contests'[c].questions = questions'
    BY <1>2 DEF Copied, SettingsCopied, Linked, AcceptsPicks, ActiveContests
  <2>3. questions'[q].deadline = questions[q].deadline
    BY <1>2, <2>1, QuestionStep
  <2>4. questions[q].deadline \in Nat /\ questions[q].deadline =< clock
    BY <1>2, <2>1, Bounds DEF Passed, TypeOK, Question, Times, NoTime, Instants
  <2>5. clock' < questions[q].deadline
    BY <2>2, <2>3 DEF AcceptsPicks
  <2> QED
    BY <1>2, <2>4, <2>5, TimePasses
<1>3. TypeOK /\ Copied /\ Copied' /\ [Next]_vars =>
        [\A c \in Contests :
           /\ \A m \in Matches :
                Holds(c, m) /\ ~StillOpen(copies[c][m]) => ~StillOpen(copies[c][m])'
           /\ \A q \in Questions :
                contests[c].state = "active" /\ Passed(contests[c].questions[q].deadline)
                  => ~AcceptsPicks(c, q)']_vars
  BY <1>1, <1>2
<1> QED
  BY <1>3, AlwaysCopied, PTL DEF Spec, ClosedStaysClosed

-----------------------------------------------------------------------------
(* The archive.  A tournament is archived when nothing is left to enter, and
   no command that enters anything is accepted afterwards. *)

RowsSound ==
  \A m \in Live :
    /\ matches[m].tie # 0 => ties[matches[m].tie].live
    /\ Finished(m) => matches[m].score # NoScore

NothingLeft ==
  /\ \A m \in Live : Finished(m)
  /\ \A m \in Standalone : matches[m].advancing # "none"
  /\ \A t \in LiveTies : ties[t].result.winner # "none"
  /\ \A q \in Questions : QuestionSettled(questions[q])
Settled == tournament.archived => NothingLeft

LEMMA NewRowsSound ==
  ASSUME TypeOK, RowsSound, EnterMatch
  PROVE  RowsSound'
<1>1. ASSUME NEW home, NEW away, NEW start, CreateMatch(home, away, start) PROVE RowsSound'
  <2> DEFINE m == First(FreeMatches)
             row == NewMatch(home, away, start)
  <2>1. row.tie = 0 /\ row.status # "finished"
    BY DEF NewMatch, NewLeg
  <2> HIDE DEF m, row
  <2>2. matches' = [matches EXCEPT ![m] = row] /\ ties' = ties
    BY <1>1 DEF CreateMatch, m, row
  <2> QED
    BY <2>1, <2>2 DEF RowsSound, Live, Finished, TypeOK
<1>2. ASSUME NEW first, NEW second, NEW start1, NEW start2,
             CreateTie(first, second, start1, start2)
      PROVE  RowsSound'
  <2> DEFINE t == First(FreeTies)
             m1 == First(FreeMatches)
             m2 == First(FreeMatches \ {m1})
             leg1 == NewLeg(t, 1, first, second, start1)
             leg2 == NewLeg(t, 2, second, first, start2)
             tie == [live |-> TRUE, first |-> first, second |-> second, result |-> Undecided]
  <2>1. t \in Ties
    BY <1>2, Bounds, FirstIsFree DEF CreateTie, FreeTies
  <2>2. leg1.tie = t /\ leg1.status # "finished" /\ leg2.tie = t /\ leg2.status # "finished"
    BY DEF NewLeg
  <2>3. tie.live
    OBVIOUS
  <2> HIDE DEF t, m1, m2, leg1, leg2, tie
  <2>4. matches' = [matches EXCEPT ![m1] = leg1, ![m2] = leg2]
        /\ ties' = [ties EXCEPT ![t] = tie]
    BY <1>2 DEF CreateTie, t, m1, m2, leg1, leg2, tie
  <2>5. ties'[t].live /\ \A x \in Ties : ties[x].live => ties'[x].live
    BY <2>1, <2>3, <2>4 DEF TypeOK
  <2>6. \A m \in Matches : matches'[m] \in {matches[m], leg1, leg2}
    BY <2>4 DEF TypeOK
  <2>7. \A m \in Matches : matches[m].tie \in {0} \cup Ties
    BY DEF TypeOK, MatchRow
  <2> QED
    BY <2>2, <2>5, <2>6, <2>7 DEF RowsSound, Live, Finished
<1> QED
  BY <1>1, <1>2 DEF EnterMatch

(* A change of a row that keeps its tie, and gives it a score if it ends it. *)
LEMMA KeptRowsSound ==
  ASSUME TypeOK, RowsSound,
         \A t \in Ties : ties[t].live => ties'[t].live,
         \A m \in Matches :
           \/ matches'[m] = matches[m]
           \/ matches'[m] = NoMatch
           \/ /\ m \in Live /\ matches'[m].tie = matches[m].tie
              /\ \/ matches'[m].score # NoScore
                 \/ /\ matches'[m].status = "finished" => matches[m].status = "finished"
                    /\ matches'[m].score = matches[m].score
  PROVE  RowsSound'
<1>1. \A m \in Matches : matches[m].tie \in {0} \cup Ties
  BY DEF TypeOK, MatchRow
<1>2. NoMatch.status \notin MatchStatuses
  BY DEF NoMatch, MatchStatuses
<1> QED
  BY <1>1, <1>2 DEF RowsSound, Live, Finished

LEMMA NextRowsSound ==
  ASSUME TypeOK, RowsSound, [Next]_vars
  PROVE  RowsSound'
<1>1. CASE StartDueMatches
  <2>1. UNCHANGED ties /\ \A m \in Matches : matches'[m] = Begun(matches[m])
    BY <1>1 DEF StartDueMatches
  <2>2. \A row \in MatchRow :
          \/ Begun(row) = row
          \/ /\ row.status \in MatchStatuses /\ Begun(row).tie = row.tie
             /\ Begun(row).status # "finished" /\ Begun(row).score = row.score
    BY DEF Begun, Due, MatchRow, MatchStatuses
  <2>3. \A m \in Matches : matches[m] \in MatchRow
    BY DEF TypeOK
  <2> QED
    BY <2>1, <2>2, <2>3, KeptRowsSound DEF Live
<1>2. CASE EnterMatch
  BY <1>2, NewRowsSound
<1>3. ASSUME NEW m \in Matches, ChangeMatch(m) PROVE RowsSound'
  <2>1. ASSUME NEW score \in Goals \X Goals, NEW team,
               m \in Live, matches' = [matches EXCEPT ![m] = Decided(@, score, team)],
               \A t \in Ties : ties[t].live => ties'[t].live
        PROVE  RowsSound'
    <3>1. score # NoScore
      BY DEF NoScore
    <3>2. Decided(matches[m], score, team).tie = matches[m].tie
          /\ Decided(matches[m], score, team).score = score
      BY DEF Decided, TypeOK, MatchRow
    <3>3. \A x \in Matches :
            matches'[x] = IF x = m THEN Decided(matches[m], score, team) ELSE matches[x]
      BY <2>1 DEF TypeOK
    <3> QED
      BY <2>1, <3>1, <3>2, <3>3, KeptRowsSound
  <2>2. CASE DeleteMatch(m)
    BY <2>2, KeptRowsSound DEF DeleteMatch, TypeOK
  <2>3. CASE MarkFinal(m)
    BY <2>3 DEF MarkFinal, RowsSound, Live, Finished
  <2>4. ASSUME NEW start, UpdateStart(m, start) PROVE RowsSound'
    <3>1. \A x \in Matches : matches'[x] = IF x = m THEN [matches[m] EXCEPT !.start = start]
                                           ELSE matches[x]
      BY <2>4 DEF UpdateStart, TypeOK
    <3>2. [matches[m] EXCEPT !.start = start].tie = matches[m].tie
          /\ [matches[m] EXCEPT !.start = start].status = matches[m].status
          /\ [matches[m] EXCEPT !.start = start].score = matches[m].score
      BY DEF TypeOK, MatchRow
    <3> QED
      BY <2>4, <3>1, <3>2, KeptRowsSound DEF UpdateStart
  <2>5. ASSUME NEW score \in Goals \X Goals, SaveLegResult(m, score) PROVE RowsSound'
    <3>1. \A t \in Ties : ties'[t].live = ties[t].live
      BY <2>5 DEF SaveLegResult, TypeOK, TieRow
    <3> QED
      BY <2>1, <2>5, <3>1 DEF SaveLegResult
  <2>6. ASSUME NEW score \in Goals \X Goals, NEW team \in Teams, SaveMatchResult(m, score, team)
        PROVE  RowsSound'
    BY <2>1, <2>6 DEF SaveMatchResult, Standalone
  <2> QED
    BY <1>3, <2>2, <2>3, <2>4, <2>5, <2>6 DEF ChangeMatch
<1>4. ASSUME NEW t \in Ties, ChangeTie(t) PROVE RowsSound'
  <2>1. CASE DeleteTie(t)
    <3>1. \A m \in Matches : matches'[m] = IF m \in Legs(t) THEN NoMatch ELSE matches[m]
      BY <2>1 DEF DeleteTie
    <3>2. \A x \in Ties \ {t} : ties'[x] = ties[x]
      BY <2>1 DEF DeleteTie, TypeOK
    <3>3. NoMatch.status \notin MatchStatuses
      BY DEF NoMatch, MatchStatuses
    <3>4. \A m \in Matches : matches[m].tie \in {0} \cup Ties
      BY DEF TypeOK, MatchRow
    <3> QED
      BY <3>1, <3>2, <3>3, <3>4 DEF RowsSound, Live, Legs, Finished
  <2>2. ASSUME NEW extra, NEW shootout, SaveTieResult(t, extra, shootout) PROVE RowsSound'
    <3>1. UNCHANGED matches /\ \A x \in Ties : ties'[x].live = ties[x].live
      BY <2>2 DEF SaveTieResult, TypeOK, TieRow
    <3> QED
      BY <3>1, KeptRowsSound
  <2> QED
    BY <1>4, <2>1, <2>2 DEF ChangeTie
<1>5. CASE ~StartDueMatches /\ ~EnterMatch /\ (\A m \in Matches : ~ChangeMatch(m))
           /\ (\A t \in Ties : ~ChangeTie(t))
  <2>1. UNCHANGED <<matches, ties>>
    BY <1>5
    DEF Next, vars, rows, Tick, ArchiveTournament, RestoreTournament, SaveTeams, AskChampion,
        SaveChampionSettings, SaveChampionResult, AskSwiss, SaveSwissSettings, SaveSwissResult,
        SaveSettings, SaveAnswer, Asked, InContest, CreateContest, DeleteContest,
        CompleteContest, ShowContest, SavePick, OpenPage
  <2> QED
    BY <2>1 DEF RowsSound, Live, Finished
<1> QED
  BY <1>1, <1>2, <1>3, <1>4, <1>5

(* Archiving asks for the legs of each tie, and for the matches that have no
   tie: together these are all matches. *)
LEMMA ArchiveIsSettled ==
  ASSUME TypeOK, RowsSound, ArchiveTournament
  PROVE  Settled'
<1>1. ASSUME NEW m \in Live PROVE Finished(m)
  <2>1. CASE m \in Standalone
    BY <2>1 DEF ArchiveTournament
  <2>2. CASE m \notin Standalone
    <3>1. matches[m].tie \in LiveTies /\ m \in Legs(matches[m].tie)
      BY <2>2 DEF RowsSound, Standalone, Legs, LiveTies, Live, TypeOK, MatchRow
    <3> QED
      BY <3>1 DEF ArchiveTournament, TiesDecided
  <2> QED
    BY <2>1, <2>2
<1>2. NothingLeft
  BY <1>1 DEF ArchiveTournament, TiesDecided, NothingLeft
<1>3. UNCHANGED <<clock, matches, ties, questions>>
  BY DEF ArchiveTournament, rows
<1> QED
  BY <1>2, <1>3
  DEF Settled, NothingLeft, Live, Standalone, LiveTies, Finished, QuestionSettled, Passed

LEMMA NextSettled ==
  ASSUME TypeOK, RowsSound, Settled, [Next]_vars
  PROVE  Settled'
<1> SUFFICES ASSUME tournament'.archived, ~ArchiveTournament PROVE NothingLeft'
  BY ArchiveIsSettled DEF Settled
<1>1. tournament.archived
  <2>1. CASE RestoreTournament
    BY <2>1 DEF RestoreTournament, TypeOK
  <2>2. ASSUME NEW teams \in SUBSET Teams, SaveTeams(teams) PROVE tournament.archived
    BY <2>2 DEF SaveTeams, TypeOK
  <2>3. CASE ~RestoreTournament /\ \A teams \in SUBSET Teams : ~SaveTeams(teams)
    <3>1. UNCHANGED tournament
      BY <2>3
      DEF Next, vars, Tick, StartDueMatches, EnterMatch, CreateMatch, CreateTie, ChangeMatch,
          DeleteMatch, MarkFinal, UpdateStart, SaveLegResult, SaveMatchResult, ChangeTie,
          DeleteTie, SaveTieResult, AskChampion, SaveChampionSettings, SaveChampionResult,
          AskSwiss, SaveSwissSettings, SaveSwissResult, SaveSettings, SaveAnswer, Asked,
          InContest, CreateContest, DeleteContest, CompleteContest, ShowContest, SavePick,
          OpenPage
    <3> QED
      BY <3>1
  <2> QED
    BY <2>1, <2>2, <2>3
<1>2. NothingLeft
  BY <1>1 DEF Settled
<1>3. UNCHANGED <<ties, questions>> /\ \A m \in Matches : matches'[m] = matches[m]
  <2>1. \A m \in Matches : ~Due(matches[m])
    BY <1>2 DEF NothingLeft, Live, Finished, Due, MatchStatuses
  <2>2. CASE StartDueMatches
    BY <2>1, <2>2 DEF StartDueMatches, Begun
  <2>3. CASE Tick \/ RestoreTournament \/ (\E c \in Contests : InContest(c))
             \/ (\E row \in Showable : OpenPage(row)) \/ UNCHANGED vars
    BY <2>3 DEF Tick, RestoreTournament, InContest, CreateContest, DeleteContest,
                CompleteContest, ShowContest, SavePick, OpenPage, vars, rows
  <2> QED
    BY <1>1, <2>2, <2>3, CommandsNeedActive DEF Next
<1>4. ASSUME NEW deadline, Passed(deadline), deadline \in Nat PROVE Passed(deadline)'
  BY <1>4, TimePasses DEF Passed
<1>5. \A q \in Questions : questions[q].deadline \in Nat
  BY Bounds DEF TypeOK, Question, Times, NoTime, Instants
<1>6. \A q \in Questions : QuestionSettled(questions[q])'
  BY <1>2, <1>3, <1>4, <1>5 DEF NothingLeft, QuestionSettled, Passed
<1>7. Live' = Live /\ Standalone' = Standalone /\ LiveTies' = LiveTies
  BY <1>3 DEF Live, Standalone, LiveTies
<1>8. /\ \A m \in Live : Finished(m)'
      /\ \A m \in Standalone : matches'[m].advancing # "none"
      /\ \A t \in LiveTies : ties'[t].result.winner # "none"
  BY <1>2, <1>3 DEF NothingLeft, Live, Standalone, LiveTies, Finished
<1> QED
  BY <1>6, <1>7, <1>8 DEF NothingLeft

LEMMA AlwaysSettled == Spec => [](TypeOK /\ Copied /\ RowsSound /\ Settled)
<1>1. Init => RowsSound /\ Settled
  BY DEF Init, RowsSound, Settled, Live, NoMatch, MatchStatuses
<1>2. TypeOK /\ RowsSound /\ Settled /\ [Next]_vars => RowsSound' /\ Settled'
  BY NextRowsSound, NextSettled
<1> QED
  BY <1>1, <1>2, AlwaysCopied, PTL DEF Spec

(* In the archive a linked contest lacks nothing, active or completed. *)
LEMMA LinkedLackNothing ==
  ASSUME TypeOK, Copied, RowsSound, Settled, tournament.archived, NEW c \in Linked
  PROVE  LacksNothing(c)
<1>1. c \in Contests /\ NothingLeft
  BY DEF Linked, Settled
<1>2. ASSUME NEW m \in Matches, Holds(c, m) PROVE CopyDecided(c, m)
  <2>1. m \in Live /\ MatchCopied(copies[c][m], matches[m])
    BY <1>1, <1>2, CopyOfEach
  <2>2. Finished(m) /\ matches[m].score # NoScore
    BY <1>1, <2>1 DEF NothingLeft, RowsSound
  <2>3. /\ copies[c][m].status = "finished" /\ copies[c][m].score # NoScore
        /\ copies[c][m].advancing = matches[m].advancing
    BY <2>1, <2>2 DEF MatchCopied, Finished, MatchStatuses
  <2>4. CASE matches[m].tie = 0
    BY <1>1, <2>1, <2>3, <2>4 DEF CopyDecided, NothingLeft, Standalone
  <2>5. CASE matches[m].tie # 0
    <3> DEFINE t == matches[m].tie
    <3>1. t \in LiveTies /\ t \in Ties
      BY <2>1, <2>5 DEF RowsSound, LiveTies, Live, TypeOK, MatchRow
    <3>2. tieCopies[c][t] = CopyOfTie(ties[t].result)
      BY <1>1, <3>1 DEF Copied, TiesCopied, LiveTies
    <3> QED
      BY <1>1, <2>3, <2>5, <3>1, <3>2 DEF CopyDecided, NothingLeft, CopyOfTie
  <2> QED
    BY <2>4, <2>5
<1>3. contests[c].questions = questions
  BY DEF Copied, SettingsCopied
<1> QED
  BY <1>1, <1>2, <1>3 DEF LacksNothing, NothingLeft

(* Once the tournament is archived, nothing is missing that an active contest
   needs to be completed. *)
THEOREM NoContestIsStuck == Spec => []NoContestStuck
<1>1. TypeOK /\ Copied /\ RowsSound /\ Settled => NoContestStuck
  BY LinkedLackNothing DEF NoContestStuck, CanComplete, ActiveContests, Linked
<1> QED
  BY <1>1, AlwaysSettled, PTL

(* What was decided when a contest was completed is decided for good: the
   tournament stays in the archive (CompletedIsArchived), where everything is
   settled, and the contest has copies of it. *)
THEOREM CompletedAreDecided == Spec => []CompletedStaysDecided
<1>1. TypeOK /\ Copied /\ RowsSound /\ Settled => CompletedStaysDecided
  BY LinkedLackNothing DEF CompletedStaysDecided, Copied, CompletedIsArchived, Linked
<1> QED
  BY <1>1, AlwaysSettled, PTL

-----------------------------------------------------------------------------
(* Pages.  A page shows a row there is; a command that changes the row, or
   takes it away, outdates the page. *)

PageOfRow == page # NoPage => <<page.kind, page.id>> \in Showable
PagesSound == PageIsCurrent /\ PageOfRow

LEMMA PageKept ==
  ASSUME TypeOK, PagesSound, NEW outdated, Outdate(outdated),
         \A m \in Live : matches'[m] = matches[m] \/ <<"match", m>> \in outdated,
         \A t \in LiveTies : ties'[t] = ties[t] \/ <<"tie", t>> \in outdated,
         ShownTournament' = ShownTournament \/ <<"tournament", 0>> \in outdated
  PROVE  PagesSound'
<1> SUFFICES ASSUME page' # NoPage
             PROVE  /\ page'.seen = Shown(page.kind, page.id)'
                    /\ (<<page.kind, page.id>> \in Showable)'
  BY DEF PagesSound, PageIsCurrent, PageOfRow
<1>1. page' = page /\ <<page.kind, page.id>> \notin outdated
  BY DEF Outdate
<1>2. page.seen = Shown(page.kind, page.id) /\ <<page.kind, page.id>> \in Showable
  BY <1>1 DEF PagesSound, PageIsCurrent, PageOfRow
<1>3. CASE page.kind = "match" /\ page.id \in Live
  BY <1>1, <1>2, <1>3 DEF Shown, Showable, Live
<1>4. CASE page.kind = "tie" /\ page.id \in LiveTies
  BY <1>1, <1>2, <1>4 DEF Shown, Showable, LiveTies
<1>5. CASE page.kind = "tournament" /\ page.id = 0
  BY <1>1, <1>2, <1>5 DEF Shown, Showable
<1> QED
  BY <1>2, <1>3, <1>4, <1>5 DEF Showable

LEMMA TouchedPage ==
  ASSUME TypeOK, PagesSound, NEW outdated, Touch(outdated),
         \A m \in Live : matches'[m] = matches[m] \/ <<"match", m>> \in outdated,
         \A t \in LiveTies : ties'[t] = ties[t] \/ <<"tie", t>> \in outdated
  PROVE  PagesSound'
BY PageKept DEF Touch

LEMMA BegunPage ==
  ASSUME TypeOK, PagesSound, StartDueMatches
  PROVE  PagesSound'
<1> DEFINE outdated == {"match"} \X {m \in Live : Due(matches[m])}
<1>1. \A m \in Matches : matches'[m] = Begun(matches[m])
  BY DEF StartDueMatches
<1>2. UNCHANGED <<tournament, questions, ties>> /\ Outdate(outdated)
  BY DEF StartDueMatches
<1>3. \A m \in Live : matches'[m] = matches[m] \/ <<"match", m>> \in outdated
  BY <1>1 DEF Begun, Live
<1>4. \A row \in MatchRow :
        /\ Begun(row).status \in MatchStatuses <=> row.status \in MatchStatuses
        /\ [Begun(row) EXCEPT !.status = (Begun(row).status = "finished")]
             = [row EXCEPT !.status = (row.status = "finished")]
  BY DEF Begun, Due, MatchRow, MatchStatuses
<1>5. \A m \in Matches : matches[m] \in MatchRow
  BY DEF TypeOK
<1>6. Live' = Live
  <2>1. ASSUME NEW m \in Matches
        PROVE  matches'[m].status \in MatchStatuses <=> matches[m].status \in MatchStatuses
    <3>1. matches'[m] = Begun(matches[m]) /\ matches[m] \in MatchRow
      BY <1>1, <1>5
    <3>2. Begun(matches[m]).status \in MatchStatuses <=> matches[m].status \in MatchStatuses
      BY <3>1, <1>4
    <3> QED
      BY <3>1, <3>2
  <2> QED
    BY <2>1 DEF Live
<1>7. \A m \in Live : [matches[m] EXCEPT !.status = Finished(m)]'
                        = [matches[m] EXCEPT !.status = Finished(m)]
  BY <1>1, <1>4, <1>5 DEF Live, Finished
<1>8. [m \in Live |-> [matches[m] EXCEPT !.status = Finished(m)]]'
        = [m \in Live |-> [matches[m] EXCEPT !.status = Finished(m)]]
  BY <1>6, <1>7
<1>9. [t \in LiveTies |-> ties[t]]' = [t \in LiveTies |-> ties[t]]
  BY <1>2 DEF LiveTies
<1>10. ShownTournament' = ShownTournament
  BY <1>2, <1>8, <1>9 DEF ShownTournament
<1> HIDE DEF outdated
<1> QED
  BY <1>2, <1>3, <1>10, PageKept

LEMMA NextPage ==
  ASSUME TypeOK, PagesSound, [Next]_vars
  PROVE  PagesSound'
<1>1. ASSUME UNCHANGED <<tournament, questions, matches, ties, page>> PROVE PagesSound'
  <2>1. ShownTournament' = ShownTournament
    BY <1>1 DEF ShownTournament, Live, LiveTies, Finished
  <2>2. Outdate({})
    BY <1>1 DEF Outdate
  <2> QED
    BY <1>1, <2>1, <2>2, PageKept
<1>2. ASSUME UNCHANGED <<matches, ties>>, Touch({}) PROVE PagesSound'
  BY <1>2, TouchedPage
<1>3. CASE Tick \/ UNCHANGED vars \/ (\E c \in Contests : InContest(c))
           \/ (\E m \in Matches : MarkFinal(m))
  BY <1>1, <1>3 DEF Tick, vars, InContest, CreateContest, DeleteContest, CompleteContest,
                    ShowContest, SavePick, MarkFinal, rows
<1>4. CASE ArchiveTournament \/ RestoreTournament \/ AskChampion \/ AskSwiss
           \/ (\E teams \in SUBSET Teams : SaveTeams(teams))
  <2>1. UNCHANGED <<matches, ties>> /\ Touch({})
    BY <1>4 DEF ArchiveTournament, RestoreTournament, SaveTeams, AskChampion, AskSwiss,
                SaveChampionSettings, SaveChampionResult, SaveSwissSettings, SaveSwissResult,
                SaveSettings, SaveAnswer, Asked, rows
  <2> QED
    BY <1>2, <2>1
<1>5. CASE StartDueMatches
  BY <1>5, BegunPage
<1>6. CASE EnterMatch
  <2>1. ASSUME NEW home, NEW away, NEW start, CreateMatch(home, away, start) PROVE PagesSound'
    <3>1. First(FreeMatches) \notin Live
      BY <2>1, Bounds, FirstIsFree DEF CreateMatch, FreeMatches
    <3>2. /\ \A m \in Live : matches'[m] = matches[m]
          /\ \A t \in LiveTies : ties'[t] = ties[t]
          /\ Touch({})
      BY <2>1, <3>1 DEF CreateMatch, TypeOK, Live
    <3> QED
      BY <3>2, TouchedPage
  <2>2. ASSUME NEW first, NEW second, NEW start1, NEW start2,
               CreateTie(first, second, start1, start2)
        PROVE  PagesSound'
    <3> DEFINE m1 == First(FreeMatches)
               m2 == First(FreeMatches \ {m1})
               t == First(FreeTies)
    <3>1. m1 \notin Live /\ m2 \notin Live
      BY <2>2, TwoAreFree DEF CreateTie, FreeMatches
    <3>2. t \notin LiveTies
      BY <2>2, Bounds, FirstIsFree DEF CreateTie, FreeTies
    <3>3. \A m \in Live : matches'[m] = matches[m]
      BY <2>2, <3>1 DEF CreateTie, TypeOK, Live
    <3>4. \A x \in LiveTies : ties'[x] = ties[x]
      BY <2>2, <3>2 DEF CreateTie, TypeOK, LiveTies
    <3>5. Touch({})
      BY <2>2 DEF CreateTie
    <3> QED
      BY <3>3, <3>4, <3>5, TouchedPage
  <2> QED
    BY <1>6, <2>1, <2>2 DEF EnterMatch
<1>7. ASSUME NEW m \in Matches, ChangeMatch(m) PROVE PagesSound'
  <2>1. ASSUME DeleteMatch(m) \/ \E score, team : SaveMatchResult(m, score, team)
        PROVE  PagesSound'
    <3>1. /\ \A x \in Live \ {m} : matches'[x] = matches[x]
          /\ \A t \in LiveTies : ties'[t] = ties[t]
          /\ Touch({<<"match", m>>})
      BY <2>1 DEF DeleteMatch, SaveMatchResult, TypeOK, Live
    <3> QED
      BY <3>1, TouchedPage
  <2>2. ASSUME NEW start, UpdateStart(m, start) PROVE PagesSound'
    <3>1. /\ \A x \in Live \ {m} : matches'[x] = matches[x]
          /\ \A t \in LiveTies : ties'[t] = ties[t]
          /\ Touch({<<"match", m>>, <<"tie", matches[m].tie>>})
      BY <2>2 DEF UpdateStart, TypeOK, Live
    <3> QED
      BY <3>1, TouchedPage
  <2>3. ASSUME NEW score, SaveLegResult(m, score) PROVE PagesSound'
    <3> DEFINE t == matches[m].tie
               result == ReconciledTie(m, score)
    <3>1. \A x \in Live \ {m} : matches'[x] = matches[x]
      BY <2>3 DEF SaveLegResult, TypeOK, Live
    <3> HIDE DEF t, result
    <3>2. ties' = [ties EXCEPT ![t].result = result]
          /\ Touch({<<"match", m>>} \cup TieOutdated(t, result))
      BY <2>3 DEF SaveLegResult, t, result
    <3>3. \A x \in LiveTies : ties'[x] = ties[x] \/ <<"tie", x>> \in TieOutdated(t, result)
      <4> SUFFICES ASSUME NEW x \in LiveTies, ties'[x] # ties[x]
                   PROVE  <<"tie", x>> \in TieOutdated(t, result)
        OBVIOUS
      <4>1. x \in Ties /\ ties[x] \in TieRow
        BY DEF LiveTies, TypeOK
      <4>2. x = t /\ ties'[x] = [ties[t] EXCEPT !.result = result]
        BY <3>2, <4>1 DEF TypeOK
      <4>3. result # ties[t].result
        BY <4>1, <4>2 DEF TieRow
      <4> QED
        BY <4>2, <4>3 DEF TieOutdated
    <3> QED
      BY <3>1, <3>2, <3>3, TouchedPage
  <2> QED
    BY <1>3, <1>7, <2>1, <2>2, <2>3 DEF ChangeMatch
<1>8. ASSUME NEW t \in Ties, ChangeTie(t) PROVE PagesSound'
  <2>1. CASE DeleteTie(t)
    <3>1. /\ \A m \in Live : matches'[m] = matches[m] \/ m \in Legs(t)
          /\ \A x \in LiveTies \ {t} : ties'[x] = ties[x]
          /\ Touch(({"match"} \X Legs(t)) \cup {<<"tie", t>>})
      BY <2>1 DEF DeleteTie, TypeOK, Live, LiveTies
    <3> QED
      BY <3>1, TouchedPage
  <2>2. ASSUME NEW extra, NEW shootout, SaveTieResult(t, extra, shootout) PROVE PagesSound'
    <3>1. /\ UNCHANGED matches
          /\ \A x \in LiveTies \ {t} : ties'[x] = ties[x]
          /\ Touch({<<"tie", t>>})
      BY <2>2 DEF SaveTieResult, TypeOK, LiveTies
    <3> QED
      BY <3>1, TouchedPage
  <2> QED
    BY <1>8, <2>1, <2>2 DEF ChangeTie
<1>9. ASSUME NEW row \in Showable, OpenPage(row) PROVE PagesSound'
  <2>1. UNCHANGED <<tournament, questions, matches, ties>>
    BY <1>9 DEF OpenPage, rows
  <2>2. Showable' = Showable /\ \A kind, id : Shown(kind, id)' = Shown(kind, id)
    BY <2>1 DEF Showable, Shown, ShownTournament, Live, LiveTies, Finished
  <2>3. page' = [kind |-> row[1], id |-> row[2], seen |-> Shown(row[1], row[2])]
    BY <1>9 DEF OpenPage
  <2>4. row = <<row[1], row[2]>>
    BY DEF Showable
  <2> QED
    BY <2>2, <2>3, <2>4 DEF PagesSound, PageIsCurrent, PageOfRow
<1> QED
  BY <1>3, <1>4, <1>5, <1>6, <1>7, <1>8, <1>9 DEF Next

(* A page that was not outdated shows its row as it is. *)
THEOREM PagesAreCurrent == Spec => []PageIsCurrent
<1>1. Init => PagesSound
  BY DEF Init, PagesSound, PageIsCurrent, PageOfRow
<1>2. TypeOK /\ PagesSound /\ [Next]_vars => PagesSound'
  BY NextPage
<1>3. PagesSound => PageIsCurrent
  BY DEF PagesSound
<1> QED
  BY <1>1, <1>2, <1>3, SharedTypes, PTL DEF Spec

-----------------------------------------------------------------------------
(* Ties and their legs.  The property speaks of the score of a leg by its
   number; here the two rows are named, which is what a step changes. *)

ResultFits(leg1, leg2, result) ==
  /\ result # Undecided =>
       /\ NoScore \notin {leg1, leg2}
       /\ Resolves(leg1, leg2, result.extra, result.shootout)
       /\ result = Resolution(leg1, leg2, result.extra, result.shootout)
  /\ NoScore \notin {leg1, leg2} /\ ~Level(leg1, leg2) => result # Undecided

TwoLegs(row1, row2, result) ==
  /\ row1.leg = 1 /\ row2.leg = 2 /\ row1.start < row2.start
  /\ ResultFits(row1.score, row2.score, result)
TieSound(t) ==
  \E m1, m2 \in Matches :
    Legs(t) = {m1, m2} /\ TwoLegs(matches[m1], matches[m2], ties[t].result)
TiesSound == \A t \in LiveTies : TieSound(t)

LEMMA LegScores ==
  ASSUME NEW t, NEW m1, NEW m2, Legs(t) = {m1, m2}, matches[m1].leg = 1, matches[m2].leg = 2
  PROVE  ScoreOfLeg(t, 1) = matches[m1].score /\ ScoreOfLeg(t, 2) = matches[m2].score
<1>1. (CHOOSE x \in Legs(t) : matches[x].leg = 1) = m1
  OBVIOUS
<1>2. (CHOOSE x \in Legs(t) : matches[x].leg = 2) = m2
  OBVIOUS
<1> QED
  BY <1>1, <1>2 DEF ScoreOfLeg

LEMMA SoundFollow == TiesSound => TieFollowsLegs
<1> SUFFICES ASSUME TiesSound, NEW t \in LiveTies
             PROVE  /\ \E m1, m2 \in Legs(t) :
                         /\ Legs(t) = {m1, m2} /\ matches[m1].leg = 1 /\ matches[m2].leg = 2
                         /\ matches[m1].start < matches[m2].start
                    /\ ResultFits(ScoreOfLeg(t, 1), ScoreOfLeg(t, 2), ties[t].result)
  BY DEF TieFollowsLegs, ResultFits
<1>1. PICK m1, m2 \in Matches :
        Legs(t) = {m1, m2} /\ TwoLegs(matches[m1], matches[m2], ties[t].result)
  BY DEF TiesSound, TieSound
<1>2. ScoreOfLeg(t, 1) = matches[m1].score /\ ScoreOfLeg(t, 2) = matches[m2].score
  BY <1>1, LegScores DEF TwoLegs
<1> QED
  BY <1>1, <1>2 DEF TwoLegs

(* What is derived from two scores fits them. *)
LEMMA ResolutionFits ==
  ASSUME NEW leg1, NEW leg2, NEW extra, NEW shootout,
         NoScore \notin {leg1, leg2}, Resolves(leg1, leg2, extra, shootout)
  PROVE  ResultFits(leg1, leg2, Resolution(leg1, leg2, extra, shootout))
<1> DEFINE result == Resolution(leg1, leg2, extra, shootout)
<1>1. result.extra = extra /\ result.shootout = shootout /\ result.winner \in {"first", "second"}
  BY DEF Resolution, Resolves, ByAggregate, ByExtraTime, ByPenalties, Ahead
<1>2. result # Undecided
  BY <1>1 DEF Undecided
<1> QED
  BY <1>1, <1>2 DEF ResultFits

LEMMA UndecidedFits ==
  ASSUME NEW leg1, NEW leg2, NoScore \in {leg1, leg2} \/ Level(leg1, leg2)
  PROVE  ResultFits(leg1, leg2, Undecided)
BY DEF ResultFits

LEMMA ReconciledFits ==
  ASSUME NEW leg1, NEW leg2, NEW was
  PROVE  ResultFits(leg1, leg2, Reconciled(leg1, leg2, was))
<1>1. CASE NoScore \in {leg1, leg2}
  BY <1>1, UndecidedFits DEF Reconciled
<1>2. CASE NoScore \notin {leg1, leg2} /\ ~Level(leg1, leg2)
  <2>1. Resolves(leg1, leg2, NoScore, NoScore)
    BY <1>2 DEF Resolves, ByAggregate
  <2> QED
    BY <1>2, <2>1, ResolutionFits DEF Reconciled
<1>3. CASE NoScore \notin {leg1, leg2} /\ Level(leg1, leg2)
  BY <1>3, ResolutionFits, UndecidedFits DEF Reconciled
<1> QED
  BY <1>1, <1>2, <1>3

(* A step that leaves a tie, and what counts of its legs, as they are. *)
LEMMA TieKept ==
  ASSUME NEW t, TieSound(t), Legs(t)' = Legs(t), ties'[t] = ties[t],
         \A m \in Legs(t) : /\ matches'[m].leg = matches[m].leg
                            /\ matches'[m].start = matches[m].start
                            /\ matches'[m].score = matches[m].score
  PROVE  TieSound(t)'
BY DEF TieSound, TwoLegs

LEMMA TiesKept ==
  ASSUME TiesSound,
         \A t \in Ties : ties'[t].live => ties[t].live /\ ties'[t] = ties[t],
         \A m \in Matches : \/ matches'[m] = matches[m]
                            \/ /\ m \in Live =>
                                    matches[m].tie = 0 \/ ~ties'[matches[m].tie].live
                               /\ m \in Live' => matches'[m].tie = 0,
         0 \notin Ties
  PROVE  TiesSound'
<1> SUFFICES ASSUME NEW t \in Ties, ties'[t].live PROVE TieSound(t)'
  BY DEF TiesSound, LiveTies
<1>1. TieSound(t) /\ ties'[t] = ties[t] /\ t # 0
  BY DEF TiesSound, LiveTies
<1>2. \A m \in Matches : m \in Legs(t) \/ m \in Legs(t)' => matches'[m] = matches[m]
  BY <1>1 DEF Legs
<1>3. Legs(t)' = Legs(t)
  BY <1>2 DEF Legs, Live
<1>4. \A m \in Legs(t) : matches'[m] = matches[m]
  BY <1>2 DEF Legs, Live
<1> QED
  BY <1>1, <1>3, <1>4, TieKept

LEMMA ZeroIsNoTie == 0 \notin Ties
BY Bounds

LEMMA BegunSound ==
  ASSUME TypeOK, TiesSound, StartDueMatches
  PROVE  TiesSound'
<1>1. ASSUME NEW m \in Matches
      PROVE  /\ matches'[m].status \in MatchStatuses <=> matches[m].status \in MatchStatuses
             /\ matches'[m].tie = matches[m].tie /\ matches'[m].leg = matches[m].leg
             /\ matches'[m].start = matches[m].start /\ matches'[m].score = matches[m].score
  <2>1. matches'[m] = Begun(matches[m]) /\ matches[m] \in MatchRow
    BY DEF StartDueMatches, TypeOK
  <2> QED
    BY <2>1 DEF Begun, Due, MatchRow, MatchStatuses
<1>2. ties' = ties
  BY DEF StartDueMatches
<1>3. \A t \in Ties : Legs(t)' = Legs(t)
  BY <1>1 DEF Legs, Live
<1>4. \A t \in Ties : Legs(t) \subseteq Matches
  BY DEF Legs, Live
<1> QED
  BY <1>1, <1>2, <1>3, <1>4, TieKept DEF TiesSound, LiveTies

LEMMA CreatedSound ==
  ASSUME TypeOK, RowsSound, TiesSound, EnterMatch
  PROVE  TiesSound'
<1>1. ASSUME NEW home, NEW away, NEW start, CreateMatch(home, away, start) PROVE TiesSound'
  <2> DEFINE m == First(FreeMatches)
             row == NewMatch(home, away, start)
  <2>1. m \notin Live /\ row.tie = 0
    BY <1>1, Bounds, FirstIsFree DEF CreateMatch, FreeMatches, NewMatch, NewLeg
  <2> HIDE DEF m, row
  <2>2. matches' = [matches EXCEPT ![m] = row] /\ ties' = ties
    BY <1>1 DEF CreateMatch, m, row
  <2>3. \A x \in Matches : matches'[x] = IF x = m THEN row ELSE matches[x]
    BY <2>2 DEF TypeOK
  <2> QED
    BY <2>1, <2>2, <2>3, ZeroIsNoTie, TiesKept
<1>2. ASSUME NEW first, NEW second, NEW start1 \in Instants, NEW start2 \in Instants,
             CreateTie(first, second, start1, start2)
      PROVE  TiesSound'
  <2>1. PICK t \in Ties : t = First(FreeTies) /\ t \notin LiveTies
    BY <1>2, Bounds, FirstIsFree DEF CreateTie, FreeTies
  <2>2. PICK m1 \in Matches, m2 \in Matches :
          /\ m1 = First(FreeMatches) /\ m2 = First(FreeMatches \ {m1})
          /\ m1 \notin Live /\ m2 \notin Live
    BY <1>2, TwoAreFree DEF CreateTie, FreeMatches
  <2>3. m1 # m2
    BY <1>2, <2>2, TwoAreFree DEF CreateTie
  <2> DEFINE leg1 == NewLeg(t, 1, first, second, start1)
             leg2 == NewLeg(t, 2, second, first, start2)
             tie == [live |-> TRUE, first |-> first, second |-> second, result |-> Undecided]
  <2>4. /\ leg1.tie = t /\ leg1.leg = 1 /\ leg1.start = start1 /\ leg1.score = NoScore
        /\ leg2.tie = t /\ leg2.leg = 2 /\ leg2.start = start2 /\ leg2.score = NoScore
        /\ leg1.status \in MatchStatuses /\ leg2.status \in MatchStatuses
        /\ start1 < start2
    BY <1>2 DEF NewLeg, MatchStatuses, CreateTie
  <2>5. tie.result = Undecided
    OBVIOUS
  <2> HIDE DEF leg1, leg2, tie
  <2>6. matches' = [matches EXCEPT ![m1] = leg1, ![m2] = leg2]
        /\ ties' = [ties EXCEPT ![t] = tie]
    BY <1>2, <2>1, <2>2 DEF CreateTie, leg1, leg2, tie
  <2>7. /\ matches'[m1] = leg1 /\ matches'[m2] = leg2
        /\ \A x \in Matches \ {m1, m2} : matches'[x] = matches[x]
        /\ ties'[t] = tie /\ \A x \in Ties \ {t} : ties'[x] = ties[x]
    BY <2>1, <2>2, <2>3, <2>6 DEF TypeOK
  <2>8. Legs(t)' = {m1, m2}
    <3>1. \A x \in Live : matches[x].tie # t
      BY <2>1, ZeroIsNoTie DEF RowsSound, LiveTies
    <3> QED
      BY <2>2, <2>4, <2>7, <3>1 DEF Legs, Live
  <2>9. TieSound(t)'
    BY <2>2, <2>4, <2>5, <2>7, <2>8, UndecidedFits DEF TieSound, TwoLegs
  <2>10. ASSUME NEW x \in Ties \ {t}, ties'[x].live PROVE TieSound(x)'
    <3>1. Legs(x)' = Legs(x) /\ \A m \in Legs(x) : matches'[m] = matches[m]
      BY <2>2, <2>4, <2>7, <2>10 DEF Legs, Live
    <3> QED
      BY <2>7, <2>10, <3>1, TieKept DEF TiesSound, LiveTies
  <2> QED
    BY <2>9, <2>10 DEF TiesSound, LiveTies
<1> QED
  BY <1>1, <1>2 DEF EnterMatch

LEMMA MovedSound ==
  ASSUME TypeOK, RowsSound, TiesSound, NEW m \in Matches, NEW start \in Instants,
         UpdateStart(m, start)
  PROVE  TiesSound'
<1>1. /\ m \in Live /\ ties' = ties
      /\ \A x \in Matches : matches'[x] = IF x = m THEN [matches[m] EXCEPT !.start = start]
                                          ELSE matches[x]
  BY DEF UpdateStart, TypeOK
<1>2. \A x \in Matches :
        /\ matches'[x].status = matches[x].status /\ matches'[x].tie = matches[x].tie
        /\ matches'[x].leg = matches[x].leg /\ matches'[x].score = matches[x].score
  BY <1>1 DEF TypeOK, MatchRow
<1>3. matches'[m].start = start /\ \A x \in Matches \ {m} : matches'[x].start = matches[x].start
  BY <1>1 DEF TypeOK, MatchRow
<1>4. \A t \in Ties : Legs(t)' = Legs(t)
  BY <1>2 DEF Legs, Live
<1> SUFFICES ASSUME NEW t \in LiveTies PROVE TieSound(t)'
  BY <1>1 DEF TiesSound, LiveTies
<1>5. PICK m1, m2 \in Matches :
        Legs(t) = {m1, m2} /\ TwoLegs(matches[m1], matches[m2], ties[t].result)
  BY DEF TiesSound, TieSound
<1>6. m1 # m2
  BY <1>5 DEF TwoLegs
<1>7. matches'[m1].start < matches'[m2].start
  <2>1. CASE m \notin {m1, m2}
    BY <1>3, <1>5, <2>1 DEF TwoLegs
  <2>2. CASE m \in {m1, m2}
    <3>1. matches[m].tie = t /\ t # 0
      BY <1>5, <2>2, ZeroIsNoTie DEF Legs, LiveTies
    <3>2. LegsStayInOrder(m, start)
      BY <3>1 DEF UpdateStart
    <3> QED
      BY <1>3, <1>5, <1>6, <2>2, <3>1, <3>2 DEF LegsStayInOrder, TwoLegs
  <2> QED
    BY <2>1, <2>2
<1>8. TwoLegs(matches'[m1], matches'[m2], ties'[t].result)
  BY <1>1, <1>2, <1>5, <1>7 DEF TwoLegs
<1> QED
  BY <1>4, <1>5, <1>8 DEF TieSound, LiveTies

LEMMA LegDecidedSound ==
  ASSUME TypeOK, RowsSound, TiesSound, NEW m \in Matches, NEW score \in Goals \X Goals,
         SaveLegResult(m, score)
  PROVE  TiesSound'
<1> DEFINE result == ReconciledTie(m, score)
<1>1. PICK t \in Ties : t = matches[m].tie /\ t \in LiveTies /\ m \in Live /\ m \in Legs(t)
  BY DEF SaveLegResult, TypeOK, MatchRow, Standalone, RowsSound, LiveTies, Legs, Live
<1>2. PICK m1, m2 \in Matches :
        Legs(t) = {m1, m2} /\ TwoLegs(matches[m1], matches[m2], ties[t].result)
  BY <1>1 DEF TiesSound, TieSound
<1>3. m1 # m2 /\ m \in {m1, m2}
  BY <1>1, <1>2 DEF TwoLegs
<1>4. ScoreOfLeg(t, 1) = matches[m1].score /\ ScoreOfLeg(t, 2) = matches[m2].score
  BY <1>2, LegScores DEF TwoLegs
<1>5. /\ m = m1 => result = Reconciled(score, matches[m2].score, ties[t].result)
      /\ m = m2 => result = Reconciled(matches[m1].score, score, ties[t].result)
  BY <1>1, <1>2, <1>4 DEF ReconciledTie, TwoLegs
<1> HIDE DEF result
<1>6. /\ matches' = [matches EXCEPT ![m] = Decided(@, score, "none")]
      /\ ties' = [ties EXCEPT ![t].result = result]
  BY <1>1 DEF SaveLegResult, result
<1>7. /\ \A x \in Matches \ {m} : matches'[x] = matches[x]
      /\ matches'[m].status \in MatchStatuses /\ matches'[m].tie = t
      /\ matches'[m].leg = matches[m].leg /\ matches'[m].start = matches[m].start
      /\ matches'[m].score = score
  BY <1>1, <1>6 DEF TypeOK, MatchRow, Decided, MatchStatuses
<1>8. /\ \A x \in Ties \ {t} : ties'[x] = ties[x]
      /\ ties'[t].live /\ ties'[t].result = result
  BY <1>1, <1>6 DEF TypeOK, TieRow, LiveTies
<1>9. \A x \in Ties : Legs(x)' = Legs(x)
  BY <1>1, <1>7 DEF Legs, Live
<1>10. TieSound(t)'
  <2>1. ResultFits(matches'[m1].score, matches'[m2].score, result)
    BY <1>3, <1>5, <1>7, ReconciledFits
  <2>2. /\ matches'[m1].leg = 1 /\ matches'[m2].leg = 2
        /\ matches'[m1].start < matches'[m2].start
    BY <1>2, <1>3, <1>7 DEF TwoLegs
  <2>3. TwoLegs(matches'[m1], matches'[m2], ties'[t].result)
    BY <1>8, <2>1, <2>2 DEF TwoLegs
  <2>4. Legs(t)' = {m1, m2}
    BY <1>1, <1>2, <1>9
  <2> QED
    BY <2>3, <2>4 DEF TieSound
<1>11. ASSUME NEW x \in Ties \ {t}, ties'[x].live PROVE TieSound(x)'
  <2>1. x \in LiveTies /\ m \notin Legs(x)
    BY <1>1, <1>8, <1>11 DEF LiveTies, Legs
  <2>2. \A y \in Legs(x) : matches'[y] = matches[y]
    BY <1>7, <2>1 DEF Legs, Live
  <2> QED
    BY <1>8, <1>9, <2>1, <2>2, TieKept DEF TiesSound
<1> QED
  BY <1>8, <1>10, <1>11 DEF TiesSound, LiveTies

LEMMA TieDecidedSound ==
  ASSUME TypeOK, RowsSound, TiesSound, NEW t \in Ties, NEW extra, NEW shootout,
         SaveTieResult(t, extra, shootout)
  PROVE  TiesSound'
<1> DEFINE result == Resolution(ScoreOfLeg(t, 1), ScoreOfLeg(t, 2), extra, shootout)
<1>1. PICK m1, m2 \in Matches :
        Legs(t) = {m1, m2} /\ TwoLegs(matches[m1], matches[m2], ties[t].result)
  BY DEF SaveTieResult, TiesSound, TieSound
<1>2. ScoreOfLeg(t, 1) = matches[m1].score /\ ScoreOfLeg(t, 2) = matches[m2].score
  BY <1>1, LegScores DEF TwoLegs
<1>3. NoScore \notin {matches[m1].score, matches[m2].score}
  BY <1>1 DEF SaveTieResult, RowsSound, Legs
<1>4. ResultFits(matches[m1].score, matches[m2].score, result)
  BY <1>2, <1>3, ResolutionFits DEF SaveTieResult
<1> HIDE DEF result
<1>5. matches' = matches /\ ties' = [ties EXCEPT ![t].result = result]
  BY DEF SaveTieResult, result
<1>6. /\ \A x \in Ties \ {t} : ties'[x] = ties[x]
      /\ ties'[t].result = result
  BY <1>5 DEF TypeOK, TieRow
<1>7. \A x \in Ties : Legs(x)' = Legs(x)
  BY <1>5 DEF Legs, Live
<1>8. TwoLegs(matches'[m1], matches'[m2], ties'[t].result)
  BY <1>1, <1>4, <1>5, <1>6 DEF TwoLegs
<1>9. TieSound(t)'
  BY <1>1, <1>7, <1>8 DEF TieSound
<1>10. ASSUME NEW x \in Ties \ {t}, ties'[x].live PROVE TieSound(x)'
  <2>1. x \in LiveTies
    BY <1>6, <1>10 DEF LiveTies
  <2> QED
    BY <1>5, <1>6, <1>7, <2>1, TieKept DEF TiesSound
<1> QED
  BY <1>9, <1>10 DEF TiesSound, LiveTies

LEMMA NextSound ==
  ASSUME TypeOK, RowsSound, TiesSound, [Next]_vars
  PROVE  TiesSound'
<1>1. ASSUME UNCHANGED <<matches, ties>> PROVE TiesSound'
  BY <1>1, ZeroIsNoTie, TiesKept
<1>2. CASE StartDueMatches
  BY <1>2, BegunSound
<1>3. CASE EnterMatch
  BY <1>3, CreatedSound
<1>4. ASSUME NEW m \in Matches, ChangeMatch(m) PROVE TiesSound'
  <2>1. ASSUME m \in Standalone, ties' = ties,
               \A x \in Matches \ {m} : matches'[x] = matches[x],
               m \in Live' => matches'[m].tie = 0
        PROVE  TiesSound'
    BY <2>1, ZeroIsNoTie, TiesKept DEF Standalone
  <2>2. CASE DeleteMatch(m)
    BY <2>1, <2>2 DEF DeleteMatch, TypeOK, NoMatch
  <2>3. CASE MarkFinal(m)
    BY <1>1, <2>3 DEF MarkFinal
  <2>4. ASSUME NEW score, NEW team, SaveMatchResult(m, score, team) PROVE TiesSound'
    <3>1. /\ \A x \in Matches \ {m} : matches'[x] = matches[x]
          /\ matches'[m].tie = matches[m].tie
      BY <2>4 DEF SaveMatchResult, TypeOK, MatchRow, Decided
    <3> QED
      BY <2>1, <2>4, <3>1 DEF SaveMatchResult, Standalone
  <2> QED
    BY <1>4, <2>2, <2>3, <2>4, MovedSound, LegDecidedSound DEF ChangeMatch
<1>5. ASSUME NEW t \in Ties, ChangeTie(t) PROVE TiesSound'
  <2>1. CASE DeleteTie(t)
    <3>1. ~ties'[t].live /\ \A x \in Ties \ {t} : ties'[x] = ties[x]
      BY <2>1 DEF DeleteTie, TypeOK, NoTie
    <3>2. \A m \in Matches : matches'[m] = IF m \in Legs(t) THEN NoMatch ELSE matches[m]
      BY <2>1 DEF DeleteTie
    <3>3. \A m \in Matches : \/ matches'[m] = matches[m]
                             \/ matches[m].tie = t /\ matches'[m].tie = 0
      BY <3>2 DEF Legs, NoMatch
    <3> QED
      BY <3>1, <3>3, ZeroIsNoTie, TiesKept
  <2> QED
    BY <1>5, <2>1, TieDecidedSound DEF ChangeTie
<1>6. CASE ~StartDueMatches /\ ~EnterMatch /\ (\A m \in Matches : ~ChangeMatch(m))
           /\ (\A t \in Ties : ~ChangeTie(t))
  <2>1. UNCHANGED <<matches, ties>>
    BY <1>6
    DEF Next, vars, rows, Tick, ArchiveTournament, RestoreTournament, SaveTeams, AskChampion,
        SaveChampionSettings, SaveChampionResult, AskSwiss, SaveSwissSettings, SaveSwissResult,
        SaveSettings, SaveAnswer, Asked, InContest, CreateContest, DeleteContest,
        CompleteContest, ShowContest, SavePick, OpenPage
  <2> QED
    BY <1>1, <2>1
<1> QED
  BY <1>2, <1>3, <1>4, <1>5, <1>6

(* A tie always agrees with its two legs. *)
THEOREM TiesFollowLegs == Spec => []TieFollowsLegs
<1>1. Init => RowsSound /\ TiesSound
  BY DEF Init, RowsSound, TiesSound, Live, LiveTies, NoMatch, NoTie, MatchStatuses
<1>2. TypeOK /\ RowsSound /\ TiesSound /\ [Next]_vars => RowsSound' /\ TiesSound'
  BY NextRowsSound, NextSound
<1> QED
  BY <1>1, <1>2, SoundFollow, SharedTypes, PTL DEF Spec
=============================================================================
