---------------------------- MODULE LeagueBracket ----------------------------
(***************************************************************************)
(* What the synchronization of the Champions League writes down            *)
(* (app/champions_league_bracket.py, tables of app/database.py), for one   *)
(* round of two-legged ties.  Each row is a record, each transaction on it *)
(* an operator from the row to the row it leaves.                          *)
(*                                                                         *)
(* An external tie is known by its pair of teams; pairs are numbered in    *)
(* the order of their fixtures' ids.  A fixture is <<pair, leg>>.          *)
(***************************************************************************)
EXTENDS FiniteSets, TwoLeggedTie

CONSTANTS
  Pairs,       (* pairs of teams the provider knows of                    *)
  Positions,   (* positions of the round, in the bracket                  *)
  TieIds,      (* bound: ids of shared ties, never used twice             *)
  Statuses,    (* statuses the provider uses                              *)
  Schedules,   (* <<first leg, second leg>>: when the legs may start      *)
  Scores,      (* scores of a leg                                         *)
  Decisions,   (* <<extra time, shootout>> that may decide a level tie    *)
  Syncs,       (* applications of a snapshot under way: the worker's and
                  those asked for by an administrator                     *)
  MaxInstant,  (* bound: the last instant of the clock                    *)
  MaxReports   (* bound: revisions the provider makes                     *)

ASSUME LeagueAssumption ==
  /\ Pairs \subseteq Nat \ {0} /\ Positions \subseteq Nat \ {0} /\ TieIds \subseteq Nat \ {0}
  /\ Syncs \cap {"none", "lost", "expired"} = {}
  /\ \A dates \in Schedules : dates \in Nat \X Nat /\ 0 < dates[1] /\ dates[1] < dates[2]
  /\ {"TIMED", "FINISHED"} \subseteq Statuses
  /\ MaxInstant \in Nat /\ MaxReports \in Nat

Legs == {1, 2}
Instants == 0..MaxInstant
NoDates == <<0, 0>>
Starting == {dates[n] : dates \in Schedules, n \in Legs}
Dates == (Starting \X Starting) \cup {NoDates}

(* A fixture as the provider reports it; rev stands for lastUpdated, which
   changes whenever anything else does. *)
Fixture == [status : Statuses \cup {"none"}, start : Starting \cup {0},
            score : Scores \cup {NoScore},
            decision : Decisions \cup {<<NoScore, NoScore>>}, rev : 0..MaxReports]

(* shared_bracket_nodes *)
NodeStatuses == {"pending", "materialized", "conflict"}
Node == [pair : Pairs \cup {0}, start : Dates, status : NodeStatuses, tie : TieIds \cup {0}]
EmptyNode == [pair |-> 0, start |-> NoDates, status |-> "pending", tie |-> 0]

(* shared_two_legged_ties with its two shared_matches *)
Tie == [state : {"none", "live", "deleted"}, pair : Pairs \cup {0}, pos : Positions \cup {0},
        start : Dates, score : [Legs -> Scores \cup {NoScore}],
        result : [winner : {"none", "first", "second"},
                  method : {"none", "aggregate", "extra_time", "penalties"},
                  extra : {d[1] : d \in Decisions} \cup {NoScore},
                  shootout : {d[2] : d \in Decisions} \cup {NoScore}]]
NoTie == [state |-> "none", pair |-> 0, pos |-> 0, start |-> NoDates,
          score |-> <<NoScore, NoScore>>, result |-> Undecided]

(* shared_fixture_imports; pos is 0 until the fixture was seen *)
Import == [pos : Positions \cup {0}, rev : 0..MaxReports, tie : TieIds \cup {0},
           status : {"pending", "imported", "conflict", "tombstoned"}]
NoImport == [pos |-> 0, rev |-> 0, tie |-> 0, status |-> "pending"]

(* shared_tie_external_links.  A claim is "lost" once its holder stopped
   without using it and "expired" fifteen minutes after it was made. *)
Link == [pos : Positions \cup {0}, tie : TieIds \cup {0},
         claim : Syncs \cup {"none", "lost", "expired"}, tombstoned : BOOLEAN]
NoLink == [pos |-> 0, tie |-> 0, claim |-> "none", tombstoned |-> FALSE]

-----------------------------------------------------------------------------
(* Fixtures seen and imported *)

Tombstoned(row) == row.status = "tombstoned"

(* record_fixture_seen refuses a snapshot older than the one it knows *)
Outdated(row, f) == row.pos # 0 /\ ~Tombstoned(row) /\ f.rev < row.rev

(* record_fixture_seen: the payload changed when the revision did; the
   position is the one of the first sight *)
Seen(row, pos, f) ==
  IF row.pos = 0
  THEN [pos |-> pos, rev |-> f.rev, tie |-> 0, status |-> "pending"]
  ELSE IF Tombstoned(row) THEN row
  ELSE [row EXCEPT !.rev = f.rev,
                   !.status = IF row.pos # pos THEN "conflict"
                              ELSE IF f.rev # row.rev THEN "pending" ELSE @]

(* mark_fixture_imported *)
Importable(row, node, tie, id) ==
  /\ ~Tombstoned(row)
  /\ tie.state = "live" /\ tie.pos = row.pos
  /\ node.tie = id
Imported(row, id) == [row EXCEPT !.tie = id, !.status = "imported"]

(* mark_fixture_conflict *)
Conflicting_Failed(row) == IF Tombstoned(row) THEN row ELSE [row EXCEPT !.status = "failed"]

Conflicting(row) == IF Tombstoned(row) THEN row ELSE [row EXCEPT !.status = "conflict"]

-----------------------------------------------------------------------------
(* Nodes *)

(* _configure_node_in_connection, for a node that shows no tie yet *)
Refuses(node, pair, start) ==
  node.status = "conflict" /\ ~(node.pair = pair /\ node.start = start)
Configured(node, pair, start) ==
  IF Refuses(node, pair, start) THEN node
  ELSE [node EXCEPT !.pair = pair, !.start = start, !.status = "pending"]

(* mark_bracket_node_materialized: the tie must have the node's teams and
   dates, and the node no conflict *)
Materializable(node, tie) ==
  /\ node.status = "pending"
  /\ tie.state = "live" /\ tie.pair = node.pair /\ tie.start = node.start
Materialized(node, id) == [node EXCEPT !.tie = id, !.status = "materialized"]

-----------------------------------------------------------------------------
(* Links and claims *)

Claimable_NeverExpires(link, pos) ==
  link.tombstoned \/ link.pos = 0 \/ (link.pos = pos /\ (link.tie # 0 \/ link.claim = "none"))

(* claim_external_tie_for_materialization: a tombstone or a tie already
   linked is answered, a live claim or another position refused *)
Claimable(link, pos) ==
  \/ link.tombstoned \/ link.pos = 0
  \/ link.pos = pos /\ (link.tie # 0 \/ link.claim \in {"none", "expired"})
Claimed(link, pos, s) ==
  IF link.tombstoned \/ link.tie # 0 THEN link
  ELSE [link EXCEPT !.pos = pos, !.claim = s]

(* record_external_tie_link *)
Linkable(link, id, s) ==
  /\ ~link.tombstoned
  /\ link.tie = id \/ (link.tie = 0 /\ link.claim = s)
Linked(link, id) == [link EXCEPT !.tie = id, !.claim = "none"]

-----------------------------------------------------------------------------
(* What deleting tie id at a position leaves of the rows that know of it, or
   would if the synchronization had come to write it down (triggers on
   shared_two_legged_ties, ON DELETE SET NULL). *)
LinkAfterDelete(link, id, pos) ==
  IF link.tie = id \/ (link.tie = 0 /\ link.pos = pos)
  THEN [link EXCEPT !.tie = 0, !.claim = "none", !.tombstoned = TRUE] ELSE link
ImportAfterDelete(row, id, pos) ==
  IF row.tie = id \/ (row.tie = 0 /\ row.pos = pos)
  THEN [row EXCEPT !.tie = 0, !.status = "tombstoned"] ELSE row
NodeAfterDelete_StaysBound(node, id, here) ==
  IF node.tie = id \/ (node.tie = 0 /\ here) THEN [node EXCEPT !.status = "conflict"] ELSE node
NodeAfterDelete(node, id, here) ==
  IF node.tie = id \/ (node.tie = 0 /\ here)
  THEN [node EXCEPT !.tie = 0, !.status = "conflict"] ELSE node

-----------------------------------------------------------------------------
(* What a reported leg asks of the recorded one (_sync_one_match) *)

Upcoming == {"SCHEDULED", "TIMED"}
InPlay == {"IN_PLAY", "PAUSED", "EXTRA_TIME", "PENALTY_SHOOTOUT"}

Verdict(f, start, score, movable, now) ==
  LET moved == f.start # start
      finished == score # NoScore
  IN  CASE f.status \in Upcoming /\ ~finished /\ ~moved -> "agrees"
        [] /\ f.status = "TIMED" /\ ~finished /\ moved
           /\ movable /\ start > now /\ f.start > now -> "move"
        [] f.status \in InPlay /\ ~finished /\ ~moved -> "agrees"
        [] /\ f.status = "FINISHED" /\ ~moved /\ f.start =< now
           /\ ~finished -> "record"
        [] /\ f.status = "FINISHED" /\ ~moved /\ f.start =< now
           /\ finished /\ score = f.score -> "agrees"
        [] OTHER -> "conflict"

(* _sync_two_legged_tie_result, _resolve_tied_aggregate_provider_result *)
TieVerdict(f1, f2, tie) ==
  LET leg1 == tie.score[1]
      leg2 == tie.score[2]
      extra == f2.decision[1]
      shootout == f2.decision[2]
      decided == /\ f1.decision = <<NoScore, NoScore>> /\ leg1 # NoScore /\ leg2 # NoScore
                 /\ Resolves(leg1, leg2, extra, shootout)
      same == tie.result = Resolution(leg1, leg2, extra, shootout)
  IN  IF ~(f1.status = "FINISHED" /\ f2.status = "FINISHED") THEN "agrees"
      ELSE CASE decided /\ same -> "agrees"
             [] decided /\ ~same /\ tie.result.winner = "none" -> "record"
             [] OTHER -> "conflict"
=============================================================================
