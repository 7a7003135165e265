SYMMETRY Symmetry
SPECIFICATION Spec
CONSTANTS
  Contests = {c1, c2}
  Matches = {1, 2}
  Ties = {1}
  Teams = {A, B}
  Templates = {"champions_league_2026_27", "world_cup_2026", "the_international_2026"}
  Questions = {"champion", "swiss_stage"}
  Goals = {0, 2}
  ShootoutGoals = {3, 4}
  WinsRequired = 2
  MaxInstant = 3
INVARIANT TypeOK
INVARIANT CopiesFollow
INVARIANT TieFollowsLegs
INVARIANT PageIsCurrent
INVARIANT NoContestStuck
INVARIANT AnsweredIsClosed
INVARIANT CompletedStaysDecided
PROPERTY ClosedStaysClosed
CONSTRAINT SwissApart
