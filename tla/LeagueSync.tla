----------------------------- MODULE LeagueSync -----------------------------
(***************************************************************************)
(* The synchronization of a shared Champions League tournament with        *)
(* football-data.org (app/champions_league_sync.py).  A worker, and        *)
(* administrators who ask for it, fetch what the provider knows and apply  *)
(* it tie by tie, in a sequence of short transactions: meanwhile the       *)
(* provider reports more, administrators correct, move and delete what was *)
(* recorded, and another application may be at work on the same rows.      *)
(*                                                                         *)
(* Every transaction is one action.  A read that the next transaction      *)
(* checks by a version is part of that transaction; fresh holds the rows   *)
(* whose version a sync still has.  Any refused transaction raises and     *)
(* ends the whole application (Leave).                                     *)
(***************************************************************************)
EXTENDS LeagueBracket, Sequences

CONSTANTS
  Worker,       (* the sync of the worker, which comes back for ever      *)
  MaxEvents     (* bound: requests and commands of administrators, and
                   applications that are cut short                        *)

ASSUME SyncAssumption == Worker \in Syncs /\ MaxEvents \in Nat

VARIABLES
  clock,     (* the present                                               *)
  provider,  (* what the provider knows of each fixture                   *)
  enabled,   (* sync_enabled of shared_tournament_external_sources        *)
  nodes,     (* shared_bracket_nodes                                      *)
  ties,      (* shared_two_legged_ties, shared_matches                    *)
  imports,   (* shared_fixture_imports                                    *)
  links,     (* shared_tie_external_links                                 *)
  sync,      (* the local state of each application                       *)
  fresh,     (* the rows each application has the last version of         *)
  reports,   (* how many revisions the provider made                      *)
  events     (* how many of MaxEvents there were                          *)

rows == <<nodes, ties, imports, links>>
world == <<clock, provider, reports, enabled>>
vars == <<world, rows, sync, fresh, events>>

-----------------------------------------------------------------------------
(* Data *)

Unknown == [status |-> "none", start |-> 0, score |-> NoScore,
            decision |-> <<NoScore, NoScore>>, rev |-> 0]
Starts(fixtures) == <<fixtures[1].start, fixtures[2].start>>

(* A tie enters the snapshot once both of its legs are known
   (group_football_data_knockout, _snapshot_entities). *)
Reported(snap) == {p \in Pairs : \A n \in Legs : snap[p][n].status # "none"}

(* current: the generation of the source is still the one it began with *)
Idle == [pc |-> "idle", current |-> FALSE, snap |-> [p \in Pairs |-> <<Unknown, Unknown>>],
         known |-> [p \in Pairs |-> <<NoImport, NoImport>>],
         todo |-> {}, used |-> {}, pair |-> 0, pos |-> 0, now |-> 0, bound |-> 0,
         seen |-> <<NoImport, NoImport>>, tie |-> 0, was |-> NoTie,
         movable |-> <<FALSE, FALSE>>, left |-> <<>>, conflict |-> FALSE]

At(s, pc) == sync[s].pc = pc
Goes(s, state) == sync' = [sync EXCEPT ![s] = state]
GoesTo(s, pc) == Goes(s, [sync[s] EXCEPT !.pc = pc])

(* The versions of these rows changed; application s knows those of kept. *)
LegRows(id) == {"leg"} \X {id} \X Legs
ImportRow(p, n) == <<"import", p, n>>
Outdates(outdated) == fresh' = [x \in Syncs |-> fresh[x] \ outdated]
OutdatesFor(s, outdated, kept) ==
  fresh' = [x \in Syncs |-> IF x = s THEN (fresh[x] \ outdated) \cup kept ELSE fresh[x] \ outdated]

(* The application ends, here or with an exception; a claim it held stays. *)
Abandoned(s) ==
  [p \in Pairs |-> IF links[p].claim = s THEN [links[p] EXCEPT !.claim = "lost"] ELSE links[p]]
Leave(s) ==
  /\ Goes(s, Idle)
  /\ fresh' = [fresh EXCEPT ![s] = {}]
  /\ links' = Abandoned(s)
  /\ UNCHANGED <<world, nodes, ties, imports, events>>

(* On to the next tie of the snapshot, if there is one. *)
Onward(state) == IF state.todo = {} THEN Idle ELSE [state EXCEPT !.pc = "choose"]
Done(state) ==
  Onward([Idle EXCEPT !.current = state.current, !.used = state.used,
                      !.todo = state.todo \ {state.pair},
                      !.snap = [state.snap EXCEPT ![state.pair] = Idle.snap[state.pair]],
                      !.known = state.known])
Forgets(s, outdated) ==
  fresh' = [x \in Syncs |-> IF x = s THEN {} ELSE fresh[x] \ outdated]

-----------------------------------------------------------------------------
(* One application of a snapshot *)

(* list_enabled_targets and the answer of the provider *)
Fetch(s) ==
  /\ At(s, "idle") /\ enabled
  /\ s # Worker => events < MaxEvents
  /\ Goes(s, [Idle EXCEPT !.pc = "read", !.current = TRUE, !.snap = provider])
  /\ events' = IF s = Worker THEN events ELSE events + 1
  /\ UNCHANGED <<world, rows, fresh>>

(* apply_football_data_snapshot, up to its loop: what was imported and is
   not in the snapshot any more is a conflict. *)
Missing(snap) ==
  {f \in Pairs \X Legs : /\ imports[f[1]][f[2]].pos # 0
                         /\ snap[f[1]][f[2]].status = "none"
                         /\ ~Tombstoned(imports[f[1]][f[2]])}
UsedPositions ==
  {imports[p][n].pos : p \in Pairs, n \in Legs} \cup {pos \in Positions : nodes[pos].pair # 0}
Read(s) ==
  LET missing == Missing(sync[s].snap)
      flagged == [p \in Pairs |-> [n \in Legs |->
        IF <<p, n>> \in missing THEN Conflicting(imports[p][n]) ELSE imports[p][n]]]
  IN  /\ At(s, "read") /\ sync[s].current
      /\ imports' = flagged
      /\ Goes(s, Onward([sync[s] EXCEPT !.known = flagged, !.used = UsedPositions,
                                        !.todo = Reported(sync[s].snap)]))
      /\ Outdates({ImportRow(f[1], f[2]) : f \in missing})
      /\ UNCHANGED <<world, nodes, ties, links, events>>

(* The tie whose first leg starts first, then by the fixture's id *)
Earliest(s) ==
  LET start(p) == sync[s].snap[p][1].start
  IN  CHOOSE p \in sync[s].todo : \A q \in sync[s].todo :
        start(p) < start(q) \/ (start(p) = start(q) /\ p =< q)

(* _resolve_entity_position, 0 for none *)
Position(s, p) ==
  LET known == {sync[s].known[p][n].pos : n \in Legs} \ {0}
      same == {pos \in Positions : nodes[pos].pair = p}
      unused == Positions \ sync[s].used
      least(set) == CHOOSE x \in set : \A y \in set : x =< y
  IN  CASE Cardinality(known) > 1 -> 0
        [] Cardinality(known) = 1 -> least(known)
        [] known = {} /\ Cardinality(same) = 1 -> least(same)
        [] known = {} /\ Cardinality(same) # 1 ->
             IF same = {} /\ unused # {} THEN least(unused) ELSE 0

(* The gate before each tie: a snapshot fetched before the source was last
   switched is not applied any further. *)
Stops(s) ==
  (At(s, "read") \/ At(s, "choose")) /\ ~sync[s].current /\ Leave(s)

(* record_fixture_seen for a leg of the tie whose state is chosen; seen is
   what the application knows of the row from then on. *)
SeenLeg(n, chosen) ==
  Seen(imports[chosen.pair][n], chosen.pos, chosen.snap[chosen.pair][n])
SeeLeg(s, n, chosen) ==
  /\ ~Outdated(imports[chosen.pair][n], chosen.snap[chosen.pair][n])
  /\ imports' = [imports EXCEPT ![chosen.pair][n] = SeenLeg(n, chosen)]
  /\ OutdatesFor(s, {ImportRow(chosen.pair, n)}, {ImportRow(chosen.pair, n)})

(* The next tie gets its position and its first leg is recorded. *)
Chosen(s) ==
  LET p == Earliest(s)
      pos == Position(s, p)
  IN  [sync[s] EXCEPT !.pair = p, !.pos = pos, !.now = clock, !.pc = "see",
                      !.used = @ \cup ({pos} \ {0}), !.known[p] = Idle.known[p]]
Skips(s) ==
  Chosen(s).pos = 0 \/ \E n \in Legs : Tombstoned(sync[s].known[Earliest(s)][n])
Skip(s) ==
  /\ At(s, "choose") /\ sync[s].current /\ Skips(s)
  /\ Goes(s, Done(Chosen(s)))
  /\ UNCHANGED <<world, rows, fresh, events>>
Choose(s) ==
  LET chosen == Chosen(s)
  IN  /\ At(s, "choose") /\ sync[s].current /\ ~Skips(s)
      /\ SeeLeg(s, 1, chosen)
      /\ Goes(s, [chosen EXCEPT !.seen[1] = SeenLeg(1, chosen)])
      /\ UNCHANGED <<world, nodes, ties, links, events>>

(* The second leg; a tie with a tombstoned leg is passed over, then
   get_external_tie_link is asked. *)
SeeSecond(s) ==
  LET p == sync[s].pair
      row == SeenLeg(2, sync[s])
      gone == Tombstoned(row) \/ Tombstoned(sync[s].seen[1])
  IN  /\ At(s, "see") /\ SeeLeg(s, 2, sync[s])
      /\ Goes(s, IF gone THEN Done(sync[s])
                 ELSE [sync[s] EXCEPT !.seen[2] = row,
                                      !.pc = IF links[p].tombstoned THEN "flag" ELSE "node"])
      /\ UNCHANGED <<world, nodes, ties, links, events>>
SeeRefused(s) ==
  /\ \/ /\ At(s, "choose") /\ sync[s].current /\ ~Skips(s)
        /\ Outdated(imports[Earliest(s)][1], sync[s].snap[Earliest(s)][1])
     \/ At(s, "see") /\ Outdated(imports[sync[s].pair][2], sync[s].snap[sync[s].pair][2])
  /\ Leave(s)

(* The node of the position is configured unless it shows a tie already,
   and a tie is only created before its legs start (_can_create_entity). *)
Creatable(s) ==
  \A n \in Legs : LET f == sync[s].snap[sync[s].pair][n]
                  IN f.status = "TIMED" /\ f.start > sync[s].now
Configure(s) ==
  LET p == sync[s].pair
      node == nodes[sync[s].pos]
      starts == Starts(sync[s].snap[p])
      goes(pc) == Goes(s, [sync[s] EXCEPT !.pc = pc, !.bound = node.tie, !.now = 0])
  IN  /\ At(s, "node")
      /\ \/ /\ node.tie # 0
            /\ goes(IF node.pair = p THEN "claim" ELSE "flag")
            /\ UNCHANGED nodes
         \/ /\ node.tie = 0
            /\ nodes' = [nodes EXCEPT ![sync[s].pos] = Configured(node, p, starts)]
            /\ goes(IF ~Refuses(node, p, starts) /\ Creatable(s) THEN "claim" ELSE "flag")
      /\ UNCHANGED <<world, ties, imports, links, fresh, events>>

(* _claim_external_tie_for_materialization *)
Claims(s) ==
  LET link == links[sync[s].pair]
  IN  Claimable(link, sync[s].pos) /\ ~link.tombstoned /\ link.tie \in {0, sync[s].bound}
Claim(s) ==
  /\ At(s, "claim") /\ Claims(s)
  /\ links' = [links EXCEPT ![sync[s].pair] = Claimed(@, sync[s].pos, s)]
  /\ GoesTo(s, "tie")
  /\ UNCHANGED <<world, nodes, ties, imports, fresh, events>>
ClaimRefused(s) == At(s, "claim") /\ ~Claims(s) /\ Leave(s)

(* _materialize_entity: the tie at the position, or a new one
   (create_shared_two_legged_tie) *)
Live == {id \in TieIds : ties[id].state = "live"}
TiesAt(pos) == {id \in Live : ties[id].pos = pos}
Unused == {id \in TieIds : ties[id].state = "none"}
Finds(s, id, tie) ==
  /\ Goes(s, [sync[s] EXCEPT !.pc = "bind", !.tie = id, !.was = tie, !.bound = 0])
  /\ OutdatesFor(s, {}, LegRows(id))
FindTie(s) ==
  At(s, "tie") /\ \E id \in TiesAt(sync[s].pos) :
    /\ sync[s].bound \in {0, id} /\ ties[id].pair = sync[s].pair
    /\ Finds(s, id, ties[id])
    /\ UNCHANGED <<world, rows, events>>
Creates_Again(s) ==
  /\ TiesAt(sync[s].pos) = {}
  /\ \A id \in Live : ties[id].pair # sync[s].pair

Creates(s) ==
  /\ TiesAt(sync[s].pos) = {} /\ sync[s].bound = 0
  /\ \A id \in Live : ties[id].pair # sync[s].pair
CreateTie(s) ==
  LET p == sync[s].pair
      id == CHOOSE x \in Unused : \A y \in Unused : x =< y
      tie == [NoTie EXCEPT !.state = "live", !.pair = p, !.pos = sync[s].pos,
                           !.start = Starts(sync[s].snap[p])]
  IN  /\ At(s, "tie") /\ Creates(s) /\ Unused # {}
      /\ ties' = [ties EXCEPT ![id] = tie]
      /\ Finds(s, id, tie)
      /\ UNCHANGED <<world, nodes, imports, links, events>>
WrongTie(s) ==
  /\ At(s, "tie") /\ ~Creates(s)
  /\ ~\E id \in TiesAt(sync[s].pos) : sync[s].bound \in {0, id} /\ ties[id].pair = sync[s].pair
  /\ Leave(s)

(* mark_bracket_node_materialized, unless the node shows a tie by now *)
Binds(s) ==
  LET node == nodes[sync[s].pos] IN node.tie # 0 \/ Materializable(node, ties[sync[s].tie])
BindNode(s) ==
  /\ At(s, "bind") /\ Binds(s)
  /\ nodes' = IF nodes[sync[s].pos].tie # 0 THEN nodes
              ELSE [nodes EXCEPT ![sync[s].pos] = Materialized(@, sync[s].tie)]
  /\ GoesTo(s, "link")
  /\ UNCHANGED <<world, ties, imports, links, fresh, events>>
BindRefused(s) == At(s, "bind") /\ ~Binds(s) /\ Leave(s)

(* What a leg asks for (_sync_one_match), with the leg as it was read *)
LegVerdict(s, n, movable) ==
  LET f == sync[s].snap[sync[s].pair][n]
      was == sync[s].was
  IN  Verdict(f, was.start[n], was.score[n], movable, clock)

(* record_external_tie_link, then _sync_materialized_entity: both legs are
   checked before either is changed; the later one moves first when that
   keeps them in order. *)
Preflighted(s) ==
  LET was == sync[s].was
      movable == [n \in Legs |-> /\ sync[s].seen[n].tie = sync[s].tie
                                 /\ sync[s].seen[n].status = "pending"
                                 /\ was.start[n] = nodes[sync[s].pos].start[n]]
      conflict == \E n \in Legs : LegVerdict(s, n, movable[n]) = "conflict"
  IN  [sync[s] EXCEPT
        !.pc = IF conflict THEN "flag" ELSE "legs",
        !.movable = movable, !.seen = Idle.seen,
        !.left = IF sync[s].snap[sync[s].pair][1].start >= was.start[2] THEN <<2, 1>> ELSE <<1, 2>>]
RecordLink(s) ==
  /\ At(s, "link") /\ Linkable(links[sync[s].pair], sync[s].tie, s)
  /\ links' = [links EXCEPT ![sync[s].pair] = Linked(@, sync[s].tie)]
  /\ Goes(s, Preflighted(s))
  /\ UNCHANGED <<world, nodes, ties, imports, fresh, events>>
LinkRefused(s) ==
  At(s, "link") /\ ~Linkable(links[sync[s].pair], sync[s].tie, s) /\ Leave(s)

(* update_shared_match_start and save_shared_match_result *)
Rescheduled(tie, n, start) == [tie EXCEPT !.start[n] = start]
StaysInOrder(tie, n, start) ==
  IF n = 1 THEN start < tie.start[2] ELSE tie.start[1] < start
CanMove(id, n, start) ==
  /\ ties[id].score[n] = NoScore
  /\ ties[id].start[n] > clock /\ start > clock
  /\ StaysInOrder(ties[id], n, start)
Scored(tie, n, score) ==
  LET scores == [tie.score EXCEPT ![n] = score]
  IN  [tie EXCEPT !.score = scores, !.result = Reconciled(scores[1], scores[2], @)]

Current_Anyway(s, id, n) == ties[id].state = "live"

(* expected_version is the one the leg had when it was read *)
Current(s, id, n) == <<"leg", id, n>> \in fresh[s]

Applies(s, n, verdict) ==
  LET f == sync[s].snap[sync[s].pair][n]
      id == sync[s].tie
  IN  CASE verdict = "move" -> Current(s, id, n) /\ CanMove(id, n, f.start)
        [] verdict = "record" -> Current(s, id, n)
        [] OTHER -> TRUE
ApplyLeg(s) ==
  LET n == Head(sync[s].left)
      id == sync[s].tie
      f == sync[s].snap[sync[s].pair][n]
      verdict == LegVerdict(s, n, sync[s].movable[n])
      applied == [sync[s] EXCEPT !.left = Tail(@), !.conflict = @ \/ verdict = "conflict"]
  IN  /\ At(s, "legs") /\ Applies(s, n, verdict)
      /\ ties' = [ties EXCEPT ![id] =
           CASE verdict = "move" -> Rescheduled(@, n, f.start)
             [] verdict = "record" -> Scored(@, n, f.score)
             [] OTHER -> @]
      /\ Outdates(IF verdict \in {"move", "record"} THEN {<<"leg", id, n>>} ELSE {})
      /\ Goes(s, CASE applied.left # <<>> -> applied
                   [] applied.left = <<>> /\ applied.conflict -> [applied EXCEPT !.pc = "flag"]
                   [] OTHER -> [applied EXCEPT !.pc = "import", !.left = <<1, 2>>,
                                               !.was = NoTie, !.movable = Idle.movable])
      /\ UNCHANGED <<world, nodes, imports, links, events>>
ApplyRefused(s) ==
  /\ At(s, "legs")
  /\ LET n == Head(sync[s].left) IN ~Applies(s, n, LegVerdict(s, n, sync[s].movable[n]))
  /\ Leave(s)

(* mark_fixture_imported for each leg *)
Imports(s) ==
  LET p == sync[s].pair
      n == Head(sync[s].left)
  IN  /\ ImportRow(p, n) \in fresh[s]
      /\ Importable(imports[p][n], nodes[imports[p][n].pos], ties[sync[s].tie], sync[s].tie)
MarkImported(s) ==
  LET p == sync[s].pair
      n == Head(sync[s].left)
  IN  /\ At(s, "import") /\ Imports(s)
      /\ imports' = [imports EXCEPT ![p][n] = Imported(@, sync[s].tie)]
      /\ OutdatesFor(s, {ImportRow(p, n)}, {ImportRow(p, n)})
      /\ Goes(s, [sync[s] EXCEPT !.left = Tail(@), !.pc = IF n = 2 THEN "result" ELSE "import"])
      /\ UNCHANGED <<world, nodes, ties, links, events>>
ImportRefused(s) == At(s, "import") /\ ~Imports(s) /\ Leave(s)

(* _sync_two_legged_tie_result *)
TieResult(s) ==
  LET fixtures == sync[s].snap[sync[s].pair]
      tie == ties[sync[s].tie]
      verdict == IF ~(\A n \in Legs : fixtures[n].status = "FINISHED") THEN "agrees"
                 ELSE IF tie.state # "live" THEN "conflict"
                 ELSE TieVerdict(fixtures[1], fixtures[2], tie)
      decision == fixtures[2].decision
  IN  /\ At(s, "result")
      /\ ties' = IF verdict # "record" THEN ties
                 ELSE [ties EXCEPT ![sync[s].tie].result =
                         Resolution(tie.score[1], tie.score[2], decision[1], decision[2])]
      /\ GoesTo(s, IF verdict = "conflict" THEN "flag" ELSE "mirror")
      /\ UNCHANGED <<world, nodes, imports, links, fresh, events>>

(* _mirror_materialized_node_dates *)
Mirrors(s) ==
  /\ ties[sync[s].tie].state = "live"
  /\ nodes[sync[s].pos].start = ties[sync[s].tie].start \/ nodes[sync[s].pos].tie = sync[s].tie
Mirror(s) ==
  /\ At(s, "mirror") /\ Mirrors(s)
  /\ nodes' = [nodes EXCEPT ![sync[s].pos].start = ties[sync[s].tie].start]
  /\ Goes(s, Done(sync[s]))
  /\ Forgets(s, {})
  /\ UNCHANGED <<world, ties, imports, links, events>>
MirrorRefused(s) == At(s, "mirror") /\ ~Mirrors(s) /\ Leave(s)

(* _mark_imports_conflict: one leg after the other *)
Flaggable(s, n) ==
  Tombstoned(imports[sync[s].pair][n]) \/ ImportRow(sync[s].pair, n) \in fresh[s]
Flag(s) ==
  LET p == sync[s].pair
  IN  /\ At(s, "flag") /\ \A n \in Legs : Flaggable(s, n)
      /\ imports' = [imports EXCEPT ![p] = [n \in Legs |-> Conflicting(@[n])]]
      /\ Forgets(s, {ImportRow(p, n) : n \in Legs})
      /\ Goes(s, Done(sync[s]))
      /\ UNCHANGED <<world, nodes, ties, links, events>>
FlagRefused(s) ==
  LET p == sync[s].pair
  IN  /\ At(s, "flag") /\ \E n \in Legs : ~Flaggable(s, n)
      /\ imports' = IF Flaggable(s, 1) THEN [imports EXCEPT ![p][1] = Conflicting(@)] ELSE imports
      /\ Forgets(s, IF Flaggable(s, 1) THEN {ImportRow(p, 1)} ELSE {})
      /\ Goes(s, Idle)
      /\ links' = Abandoned(s)
      /\ UNCHANGED <<world, nodes, ties, events>>

Refused(s) ==
  \/ SeeRefused(s) \/ ClaimRefused(s) \/ WrongTie(s) \/ BindRefused(s)
  \/ LinkRefused(s) \/ ApplyRefused(s) \/ ImportRefused(s) \/ MirrorRefused(s) \/ FlagRefused(s)
Proceeds(s) ==
  \/ Read(s) \/ Skip(s) \/ Choose(s) \/ SeeSecond(s) \/ Configure(s) \/ Claim(s)
  \/ FindTie(s) \/ CreateTie(s) \/ BindNode(s) \/ RecordLink(s)
  \/ ApplyLeg(s) \/ MarkImported(s) \/ TieResult(s) \/ Mirror(s) \/ Flag(s)
  \/ Stops(s) \/ Refused(s)

(* A transaction finds the database busy, or the process ends. *)
Fails(s) ==
  /\ ~At(s, "idle") /\ events < MaxEvents
  /\ Goes(s, Idle)
  /\ fresh' = [fresh EXCEPT ![s] = {}]
  /\ links' = Abandoned(s)
  /\ events' = events + 1
  /\ UNCHANGED <<world, nodes, ties, imports>>

(* EXTERNAL_TIE_CLAIM_TIMEOUT: an application ends within fifteen minutes,
   or not at all. *)
ClaimExpires(p) ==
  /\ links[p].claim = "lost"
  /\ links' = [links EXCEPT ![p].claim = "expired"]
  /\ UNCHANGED <<world, nodes, ties, imports, sync, fresh, events>>

-----------------------------------------------------------------------------
(* Commands of administrators on what was recorded *)

Command == events < MaxEvents /\ events' = events + 1

(* delete_shared_two_legged_tie and the triggers it fires *)
DeleteTie(id) ==
  LET pos == ties[id].pos
      tombstones == [p \in Pairs |-> [n \in Legs |-> ImportAfterDelete(imports[p][n], id, pos)]]
  IN  /\ id \in Live /\ Command
      /\ ties' = [ties EXCEPT ![id] = [NoTie EXCEPT !.state = "deleted"]]
      /\ links' = [p \in Pairs |-> LinkAfterDelete(links[p], id, pos)]
      /\ imports' = tombstones
      /\ nodes' = [q \in Positions |-> NodeAfterDelete(nodes[q], id, q = pos)]
      /\ Outdates(LegRows(id) \cup
           {ImportRow(f[1], f[2]) : f \in {f \in Pairs \X Legs : tombstones[f[1]][f[2]] # imports[f[1]][f[2]]}})
      /\ UNCHANGED <<world, sync>>

MoveByHand(id, n, start) ==
  /\ id \in Live /\ Command
  /\ start # ties[id].start[n] /\ CanMove(id, n, start)
  /\ ties' = [ties EXCEPT ![id] = Rescheduled(@, n, start)]
  /\ Outdates({<<"leg", id, n>>})
  /\ UNCHANGED <<world, nodes, imports, links, sync>>

ScoreByHand(id, n, score) ==
  /\ id \in Live /\ Command
  /\ ties[id].start[n] =< clock \/ ties[id].score[n] # NoScore
  /\ score # ties[id].score[n]
  /\ ties' = [ties EXCEPT ![id] = Scored(@, n, score)]
  /\ Outdates({<<"leg", id, n>>})
  /\ UNCHANGED <<world, nodes, imports, links, sync>>

(* configure_external_source: a new generation *)
Switch ==
  /\ Command
  /\ enabled' = ~enabled
  /\ sync' = [s \in Syncs |-> [sync[s] EXCEPT !.current = FALSE]]
  /\ UNCHANGED <<clock, provider, reports, rows, fresh>>

-----------------------------------------------------------------------------
(* The provider, and time *)

Report(p, fixtures) ==
  /\ reports < MaxReports
  /\ reports' = reports + 1
  /\ fixtures # provider[p]
  /\ provider' = [provider EXCEPT ![p] = [n \in Legs |->
       IF fixtures[n] = provider[p][n] THEN fixtures[n]
       ELSE [fixtures[n] EXCEPT !.rev = reports + 1]]]
  /\ UNCHANGED <<clock, enabled, rows, sync, fresh, events>>
Publish(p, dates) ==
  /\ p \notin Reported(provider)
  /\ Report(p, [n \in Legs |-> [Unknown EXCEPT !.status = "TIMED", !.start = dates[n]]])
Withdraw(p) == p \in Reported(provider) /\ Report(p, <<Unknown, Unknown>>)
Reschedule(p, dates) ==
  /\ p \in Reported(provider)
  /\ Report(p, [n \in Legs |-> [provider[p][n] EXCEPT !.start = dates[n]]])
Announce(p, n, status) ==
  /\ p \in Reported(provider) /\ status # "FINISHED"
  /\ Report(p, [provider[p] EXCEPT ![n].status = status, ![n].score = NoScore,
                                   ![n].decision = Unknown.decision])
Finish(p, legs, score, decision) ==
  /\ p \in Reported(provider) /\ \A n \in legs : provider[p][n].start =< clock
  /\ decision # Unknown.decision => 2 \in legs
  /\ Report(p, [n \in Legs |->
       IF n \notin legs THEN provider[p][n]
       ELSE [provider[p][n] EXCEPT !.status = "FINISHED", !.score = score,
                                   !.decision = IF n = 2 THEN decision ELSE @]])

(* Matches begin, and are marked so at once (app/match_lifecycle.py): each leg
   that starts now gets a new version, its tie's other leg does not. *)
StartsNow(id, n) == ties[id].start[n] = clock + 1
Tick ==
  /\ clock < MaxInstant
  /\ clock' = clock + 1
  /\ Outdates({row \in UNION {LegRows(id) : id \in Live} : StartsNow(row[2], row[3])})
  /\ UNCHANGED <<provider, reports, enabled, rows, sync, events>>

-----------------------------------------------------------------------------
Init ==
  /\ clock = 0
  /\ provider = Idle.snap
  /\ enabled = TRUE
  /\ nodes = [pos \in Positions |-> EmptyNode]
  /\ ties = [id \in TieIds |-> NoTie]
  /\ imports = Idle.known
  /\ links = [p \in Pairs |-> NoLink]
  /\ sync = [s \in Syncs |-> Idle]
  /\ fresh = [s \in Syncs |-> {}]
  /\ reports = 0 /\ events = 0

ChangeTie(id) ==
  \/ DeleteTie(id)
  \/ \E n \in Legs : \/ \E start \in Starting : MoveByHand(id, n, start)
                     \/ \E score \in Scores : ScoreByHand(id, n, score)
Reports(p) ==
  \/ \E dates \in Schedules : Publish(p, dates) \/ Reschedule(p, dates)
  \/ Withdraw(p)
  \/ \E n \in Legs, status \in Statuses : Announce(p, n, status)
  \/ \E legs \in SUBSET Legs, score \in Scores, decision \in Decisions \cup {Unknown.decision} :
       Finish(p, legs, score, decision)

Next ==
  \/ \E s \in Syncs : Fetch(s) \/ Proceeds(s) \/ Fails(s)
  \/ \E p \in Pairs : ClaimExpires(p) \/ Reports(p)
  \/ \E id \in TieIds : ChangeTie(id)
  \/ Switch
  \/ Tick

Spec == Init /\ [][Next]_vars

(* The worker comes back after every cycle, whatever became of the last one;
   an application goes on until it ends; claims run out.  An application can
   always go on, if only to be refused, so WF_vars(Proceeds(s)) is written
   without ENABLED, which is slow to evaluate. *)
Fairness ==
  /\ WF_vars(Fetch(Worker))
  /\ \A s \in Syncs : []<>At(s, "idle") \/ []<><<Proceeds(s)>>_vars
  /\ \A p \in Pairs : WF_vars(ClaimExpires(p))
FairSpec == Spec /\ Fairness

-----------------------------------------------------------------------------
(* Properties *)

(* Every row has its shape. *)
LeagueTypeOK ==
  /\ clock \in Instants /\ enabled \in BOOLEAN
  /\ provider \in [Pairs -> [Legs -> Fixture]]
  /\ nodes \in [Positions -> Node]
  /\ ties \in [TieIds -> Tie]
  /\ imports \in [Pairs -> [Legs -> Import]]
  /\ links \in [Pairs -> Link]

(* What the bracket, the links and the imports say of a tie agrees: each
   tie they name exists, of the right teams at the right position, and no
   tie is named for two pairs. *)
BoundToOwnTie ==
  /\ \A pos \in Positions : nodes[pos].tie # 0 =>
       /\ nodes[pos].tie \in Live /\ ties[nodes[pos].tie].pos = pos
       /\ nodes[pos].pair = ties[nodes[pos].tie].pair
       /\ nodes[pos].status = "materialized"
  /\ \A p \in Pairs : links[p].tie # 0 =>
       links[p].tie \in Live /\ ties[links[p].tie].pair = p /\ ties[links[p].tie].pos = links[p].pos
  /\ \A p \in Pairs, n \in Legs : imports[p][n].tie # 0 =>
       /\ imports[p][n].tie \in Live
       /\ ties[imports[p][n].tie].pair = p
       /\ nodes[imports[p][n].pos].tie = imports[p][n].tie

(* Deleting the tie of a pair tombstones the pair, even if the tie was not
   written down yet.  No application comes to create it after that; one that
   holds the claim already may. *)
Buried(p) == links[p].tombstoned
Removes(id) == ties[id].state = "live" /\ ties'[id].state # "live"
AboutToCreate(s, p) == At(s, "tie") /\ sync[s].pair = p /\ sync[s].bound = 0
Reappears(p) == \E id \in TieIds : ties'[id].pair = p /\ ties[id].pair # p
DeletedStaysDeleted ==
  [][/\ \A id \in TieIds : Removes(id) => links'[ties[id].pair].tombstoned
     /\ \A p \in Pairs : Buried(p) =>
          /\ Buried(p)'
          /\ \A s \in Syncs : AboutToCreate(s, p)' => AboutToCreate(s, p)
          /\ Reappears(p) => \E s \in Syncs : AboutToCreate(s, p)]_vars

(* The promise of README.md: a deleted pair never comes back. *)
DeletedNeverReturns == [][\A p \in Pairs : Buried(p) => ~Reappears(p)]_vars

(* A synchronization neither changes a result nor moves a match that has
   begun, and records a result only once the match has begun: that is left to
   administrators. *)
ResultsKept ==
  [][\A s \in Syncs : Proceeds(s) =>
       \A id \in Live, n \in Legs :
         LET was == ties[id]
             is == ties'[id]
         IN  /\ is.state = "live"
             /\ was.score[n] # NoScore => is.score[n] = was.score[n]
             /\ was.start[n] =< clock => is.start[n] = was.start[n]
             /\ is.score[n] # was.score[n] => was.start[n] =< clock
             /\ was.result.winner # "none" => is.result = was.result]_vars

(* What the provider reports of a tie is recorded in the end, or flagged for
   an administrator, or the synchronization is off; there is a position for
   every pair.  Spelled out are the two states it does not get out of by
   itself, and that keep it from the ties that come after: a tie was created,
   is not bound to its node, and does not start when the provider says now; or
   two applications with different snapshots gave one position to two pairs. *)
Recorded(p) ==
  \E id \in Live : \A n \in Legs :
    LET f == provider[p][n]
    IN  /\ imports[p][n].status = "imported" /\ imports[p][n].tie = id
        /\ imports[p][n].rev = f.rev /\ ties[id].start[n] = f.start
        /\ ties[id].score[n] = f.score
Flagged(p) == \E n \in Legs : imports[p][n].status \in {"conflict", "tombstoned"}
Settled(p) == ~enabled \/ p \notin Reported(provider) \/ Recorded(p) \/ Flagged(p)
Unbound ==
  \E id \in Live : /\ nodes[ties[id].pos].tie = 0
                   /\ ties[id].start # Starts(provider[ties[id].pair])
Contested ==
  \E p, q \in Pairs : /\ p # q /\ links[p].pos # 0 /\ links[p].pos = links[q].pos
                       /\ nodes[links[p].pos].tie = 0
Stuck == Unbound \/ Contested
EveryReportSettles == \A p \in Pairs : p \in Reported(provider) ~> Settled(p) \/ Stuck
=============================================================================
