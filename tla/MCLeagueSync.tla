---------------------------- MODULE MCLeagueSync ----------------------------
(* LeagueSync with the schedules, scores and decisions of small instances. *)
EXTENDS LeagueSync

TwoSchedules == {<<1, 2>>, <<2, 3>>}
TwoScores == {<<1, 0>>, <<0, 0>>}
OneScore == {<<0, 0>>}
NoDecision == {}
ExtraTime == {<<<<1, 0>>, NoScore>>}
=============================================================================
