---------------------------- MODULE TwoLeggedTie ----------------------------
(***************************************************************************)
(* Who goes through in a football tie of two legs                          *)
(* (app/scoring_service.py, resolve_two_legged_tie_result).  The first leg *)
(* is played at the first team's, the second one at the second team's.  A  *)
(* score is a pair <<home, away>>, <<>> when there is none.                *)
(***************************************************************************)
EXTENDS Integers

NoScore == <<>>
Undecided == [winner |-> "none", method |-> "none", extra |-> NoScore, shootout |-> NoScore]

FirstTotal(leg1, leg2) == leg1[1] + leg2[2]
SecondTotal(leg1, leg2) == leg1[2] + leg2[1]
Level(leg1, leg2) == FirstTotal(leg1, leg2) = SecondTotal(leg1, leg2)

(* The second leg's home side is the second team. *)
Ahead(home, away) == IF home > away THEN "second" ELSE "first"

ByAggregate(leg1, leg2, extra, shootout) ==
  ~Level(leg1, leg2) /\ extra = NoScore /\ shootout = NoScore

ByExtraTime(leg1, leg2, extra, shootout) ==
  /\ Level(leg1, leg2)
  /\ extra # NoScore /\ extra[1] # extra[2]
  /\ shootout = NoScore

ByPenalties(leg1, leg2, extra, shootout) ==
  /\ Level(leg1, leg2)
  /\ extra # NoScore /\ extra[1] = extra[2]
  /\ shootout # NoScore /\ shootout[1] # shootout[2]

Resolves(leg1, leg2, extra, shootout) ==
  \/ ByAggregate(leg1, leg2, extra, shootout)
  \/ ByExtraTime(leg1, leg2, extra, shootout)
  \/ ByPenalties(leg1, leg2, extra, shootout)

(* The result the code derives; anything else raises ValueError. *)
Resolution(leg1, leg2, extra, shootout) ==
  LET decided(side, how) ==
        [winner |-> side, method |-> how, extra |-> extra, shootout |-> shootout]
  IN  CASE ByAggregate(leg1, leg2, extra, shootout) ->
             decided(Ahead(SecondTotal(leg1, leg2), FirstTotal(leg1, leg2)), "aggregate")
        [] ByExtraTime(leg1, leg2, extra, shootout) ->
             decided(Ahead(extra[1], extra[2]), "extra_time")
        [] ByPenalties(leg1, leg2, extra, shootout) ->
             decided(Ahead(shootout[1], shootout[2]), "penalties")

Reconciled_KeepsDecision(leg1, leg2, was) ==
  IF leg1 = NoScore \/ leg2 = NoScore THEN Undecided
  ELSE IF ~Level(leg1, leg2) THEN Resolution(leg1, leg2, NoScore, NoScore)
  ELSE was

(* What a leg's result makes of the tie's: decided on aggregate as soon as
   it can be, otherwise by the extra time that was recorded, if that still
   fits the legs. *)
Reconciled(leg1, leg2, was) ==
  IF leg1 = NoScore \/ leg2 = NoScore THEN Undecided
  ELSE IF ~Level(leg1, leg2) THEN Resolution(leg1, leg2, NoScore, NoScore)
  ELSE IF was.extra # NoScore /\ Resolves(leg1, leg2, was.extra, was.shootout)
       THEN Resolution(leg1, leg2, was.extra, was.shootout)
       ELSE Undecided
=============================================================================
