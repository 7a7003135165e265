-------------------------- MODULE PublicationOutbox --------------------------
(***************************************************************************)
(* The publication queue of one independent contest: the commands that     *)
(* create and revise rows of contest_publications (app/contest_service.py, *)
(* app/leaderboard_publications.py over app/publication_outbox.py) and the *)
(* worker that drains them (app/publication_worker.py).  What Telegram and *)
(* the delivery code do between a claim and its finish is abstracted to    *)
(* its outcome; module PublicationDelivery opens it up.                    *)
(*                                                                         *)
(* Every command and every database call is synchronous code on the event  *)
(* loop of its process, so a command never runs between a worker's claim   *)
(* and its first await; with several workers (an old and a new process     *)
(* overlapping during a deployment) only SQLite's transactions are atomic. *)
(***************************************************************************)
EXTENDS PublicationRow, FiniteSets

CONSTANTS
  Matches,      (* matches that may exist in the contest                  *)
  Snapshots,    (* leaderboard snapshots an organizer may ask for         *)
  Kinds,        (* deadline-bound predictions: "champion" and/or "swiss"  *)
  MaxRows,      (* bound on the rows of the table                         *)
  MaxRevision,  (* bound on revisions of a row                            *)
  MaxDelay,     (* bound on how far ahead a deadline is set               *)
  MaxBackoff,   (* longest wait before a retry                            *)
  MaxCrashes    (* bound on crashes of worker processes                   *)

ASSUME EntitiesAssumption ==
  Entities = Matches \cup Snapshots \cup {"contest", "gone"}
ASSUME ContestEntityAssumption == {"contest", "gone"} \cap (Matches \cup Snapshots) = {}
ASSUME ProcessesAssumption == IsFiniteSet(Workers)
ASSUME KindsAssumption == Kinds \subseteq {"champion", "swiss"}
ASSUME BoundsAssumption ==
  /\ MaxRows \in Nat \ {0}
  /\ MaxRevision \in Nat
  /\ MaxDelay \in Nat
  /\ MaxBackoff \in Nat
  /\ MaxCrashes \in Nat

VARIABLES
  enabled,  (* contests.match_prediction_publication_enabled, the master switch *)
  contest,  (* "open", "completed" (is_active = 0) or "deleted"           *)
  matches,  (* each match: "absent", "open" or "finished"                 *)
  plan,     (* the settings of each kind of deadline-bound prediction     *)
  rows,     (* contest_publications, by id                                *)
  worker,   (* where each worker is in process_due_contest_publications   *)
  crashes

vars == <<enabled, contest, matches, plan, rows, worker, crashes>>

Ids == 1..MaxRows

NoRow == [RowOf("match_result", "contest", "publish", Never) EXCEPT !.type = "none"]

NoPlan == [on |-> FALSE, deadline |-> Never, locked |-> FALSE, result |-> FALSE]

Plan == [on : BOOLEAN, deadline : Timer, locked : BOOLEAN, result : BOOLEAN]

Idle == [pc |-> "idle", id |-> 1, rev |-> 0, action |-> "withdraw",
         entity |-> "contest"]

WorkerState == [pc : {"idle", "claimed", "prepared", "delivering"}, id : Ids,
                rev : Nat, action : Actions, entity : Entities]

Init ==
  /\ enabled = FALSE
  /\ contest = "open"
  /\ matches = [m \in Matches |-> "absent"]
  /\ plan = [k \in Kinds |-> NoPlan]
  /\ rows = [i \in Ids |-> NoRow]
  /\ worker = [w \in Workers |-> Idle]
  /\ crashes = 0

-----------------------------------------------------------------------------
(* Statements on the table *)

Predictions(k) == IF k = "champion" THEN "champion_predictions" ELSE "swiss_predictions"

Has(rs, type, entity) == \E i \in Ids : rs[i].type = type /\ rs[i].entity = entity

(* The id an INTEGER PRIMARY KEY column gives the next row. *)
IsNextId(rs, i) ==
  /\ \A j \in Ids : j >= i => ~Exists(rs[j])
  /\ i > 1 => Exists(rs[i - 1])

Inserted(rs, row) == [i \in Ids |-> IF IsNextId(rs, i) THEN row ELSE rs[i]]

(* create_publication_if_enabled: INSERT OR IGNORE, with the switch on. *)
Create(rs, on, type, entity, action, at) ==
  IF on /\ ~Has(rs, type, entity)
  THEN Inserted(rs, RowOf(type, entity, action, at))
  ELSE rs

Revise(rs, on, type, entity, action, at) ==
  [i \in Ids |->
     IF on /\ rs[i].type = type /\ rs[i].entity = entity
     THEN Revised(rs[i], action, at) ELSE rs[i]]

(* _champion_predictions_desired_state, _swiss_predictions_desired_state *)
PredictionsState(p) ==
  IF ~p.on \/ p.deadline = Never THEN [action |-> "withdraw", at |-> Never]
  ELSE IF p.deadline > 0 THEN [action |-> "withdraw", at |-> p.deadline]
  ELSE [action |-> "publish", at |-> Never]

(* _champion_desired_state *)
ResultState(p) ==
  IF ~p.result THEN [action |-> "withdraw", at |-> Never] ELSE PredictionsState(p)

(* create_or_revise_champion_predictions_publication and its swiss twin: a
   withdrawal that stays one only moves its reconciliation date. *)
CreateOrRevisePredictions(rs, on, k, p) ==
  LET st == PredictionsState(p)
      type == Predictions(k)
  IN  IF ~Has(rs, type, "contest")
      THEN IF st.action = "withdraw" /\ st.at = Never THEN rs
           ELSE Create(rs, on, type, "contest", st.action, st.at)
      ELSE [i \in Ids |->
              IF ~on \/ rs[i].type # type \/ rs[i].entity # "contest" THEN rs[i]
              ELSE IF rs[i].action # st.action \/ st.action = "publish"
              THEN Revised(rs[i], st.action, st.at)
              ELSE [rs[i] EXCEPT !.reconcile = st.at]]

Rescheduled_ForgetsSwiss(rs, k, p) ==
  LET st == PredictionsState(p)
  IN  IF st.action = "withdraw" /\ st.at # Never /\ k = "champion"
      THEN CreateOrRevisePredictions(rs, TRUE, k, p)
      ELSE rs

(* The enabling half of transition_contest_publications_for_master_switch,
   for one kind: only what is still to be revealed is queued again. *)
Rescheduled(rs, k, p) ==
  LET st == PredictionsState(p)
  IN  IF st.action = "withdraw" /\ st.at # Never
      THEN CreateOrRevisePredictions(rs, TRUE, k, p)
      ELSE rs

-----------------------------------------------------------------------------
(* Commands.  They run on a free event loop while the contest is active. *)

LoopFree == \E w \in Workers : worker[w].pc \in {"idle", "delivering"}

Command ==
  /\ contest = "open"
  /\ LoopFree
  /\ \A i \in Ids : rows[i].desired < MaxRevision

(* A new row of this type and entity, if one is needed, is within MaxRows. *)
RoomFor(type, entity) == Has(rows, type, entity) \/ ~Exists(rows[MaxRows])

(* save_match_prediction_publication_settings *)
SaveMasterSwitch ==
  /\ Command
  /\ LET new == {k \in Kinds : ~Has(rows, Predictions(k), "contest")}
     IN  \/ enabled
         \/ /\ Cardinality(new) <= MaxRows
            /\ \A i \in Ids : i > MaxRows - Cardinality(new) => ~Exists(rows[i])
  /\ enabled' = ~enabled
  /\ LET afterChampion == IF "champion" \in Kinds
                          THEN Rescheduled(rows, "champion", plan["champion"]) ELSE rows
         afterSwiss == IF "swiss" \in Kinds
                       THEN Rescheduled(afterChampion, "swiss", plan["swiss"])
                       ELSE afterChampion
     IN  rows' = IF enabled'
                 THEN afterSwiss
                 ELSE [i \in Ids |->
                         IF Exists(rows[i]) /\ rows[i].type # "leaderboard_snapshot"
                         THEN SwitchedOff(rows[i]) ELSE rows[i]]
  /\ UNCHANGED <<contest, matches, plan, worker, crashes>>

DeadlineMayBecome_Anything(old, new) == old \in Timer /\ new \in Timer

(* _validate_existing_deadline_change, called when the deadline changes *)
DeadlineMayBecome(old, new) ==
  new = old \/ old = Never \/ (old > 0 /\ (new = Never \/ new > 0))

(* save_champion_prediction_settings *)
SaveChampionSettings(on, delay) ==
  LET deadline == IF on THEN delay ELSE Never
      p == [plan["champion"] EXCEPT !.on = on, !.deadline = deadline]
      st == ResultState(p)
  IN  /\ Command
      /\ RoomFor("champion_predictions", "contest")
      /\ ~plan["champion"].result
      /\ DeadlineMayBecome(plan["champion"].deadline, deadline)
      /\ plan' = [plan EXCEPT !["champion"] = p]
      /\ rows' = CreateOrRevisePredictions(
                   Revise(rows, enabled, "champion_result", "contest", st.action, st.at),
                   enabled, "champion", p)
      /\ UNCHANGED <<enabled, contest, matches, worker, crashes>>

(* save_champion_prediction: a participant's choice, while it is open *)
SaveChampionPrediction ==
  LET p == plan["champion"]
      st == ResultState(p)
  IN  /\ Command
      /\ RoomFor("champion_predictions", "contest")
      /\ p.on /\ p.deadline > 0
      /\ rows' = CreateOrRevisePredictions(
                   Revise(rows, enabled, "champion_result", "contest", st.action, st.at),
                   enabled, "champion", p)
      /\ UNCHANGED <<enabled, contest, matches, plan, worker, crashes>>

(* save_contest_champion: recorded, or corrected to another team *)
SaveContestChampion ==
  LET p == [plan["champion"] EXCEPT !.result = TRUE]
      st == ResultState(p)
      create == ~plan["champion"].result
                /\ enabled /\ ~Has(rows, "champion_result", "contest")
  IN  /\ Command
      /\ RoomFor("champion_result", "contest")
      /\ p.on /\ p.deadline = 0
      /\ \A m \in Matches : matches[m] # "open"
      /\ plan' = [plan EXCEPT !["champion"] = p]
      /\ rows' = IF create
                 THEN Create(rows, enabled, "champion_result", "contest", st.action, st.at)
                 ELSE Revise(rows, enabled, "champion_result", "contest", st.action, st.at)
      /\ UNCHANGED <<enabled, contest, matches, worker, crashes>>

(* save_swiss_stage_prediction_settings, limits saying whether the numbers of
   qualifiers change; nothing is queued when nothing changes.  A disabled stage
   may keep its deadline. *)
SaveSwissSettings(on, deadline, limits) ==
  LET p == [plan["swiss"] EXCEPT !.on = on, !.deadline = deadline]
  IN  /\ Command
      /\ RoomFor("swiss_predictions", "contest")
      /\ on => deadline # Never
      /\ DeadlineMayBecome(plan["swiss"].deadline, deadline)
      /\ plan["swiss"].locked => on = plan["swiss"].on /\ ~limits
      /\ limits \/ p # plan["swiss"]
      /\ plan' = [plan EXCEPT !["swiss"] = p]
      /\ rows' = IF enabled THEN CreateOrRevisePredictions(rows, enabled, "swiss", p) ELSE rows
      /\ UNCHANGED <<enabled, contest, matches, worker, crashes>>

(* save_swiss_stage_prediction: the first one locks the stage's settings *)
SaveSwissPrediction ==
  /\ Command
  /\ plan["swiss"].on /\ plan["swiss"].deadline > 0
  /\ plan' = [plan EXCEPT !["swiss"].locked = TRUE]
  /\ UNCHANGED <<enabled, contest, matches, rows, worker, crashes>>

(* save_swiss_stage_result *)
SaveSwissResult ==
  LET first == ~plan["swiss"].result
  IN  /\ Command
      /\ RoomFor("swiss_result", "contest")
      /\ plan["swiss"].on /\ plan["swiss"].deadline = 0
      /\ plan' = [plan EXCEPT !["swiss"].result = TRUE, !["swiss"].locked = TRUE]
      /\ rows' = IF first
                 THEN Create(rows, enabled, "swiss_result", "contest", "publish", Never)
                 ELSE Revise(rows, enabled, "swiss_result", "contest", "publish", Never)
      /\ UNCHANGED <<enabled, contest, matches, worker, crashes>>

(* create_match *)
CreateMatch(m) ==
  /\ Command
  /\ matches[m] = "absent"
  /\ matches' = [matches EXCEPT ![m] = "open"]
  /\ UNCHANGED <<enabled, contest, plan, rows, worker, crashes>>

(* save_match_result: recorded, or corrected to another score *)
SaveMatchResult(m) ==
  /\ Command
  /\ RoomFor("match_result", m)
  /\ matches[m] # "absent"
  /\ matches' = [matches EXCEPT ![m] = "finished"]
  /\ rows' = IF matches[m] = "open"
             THEN Create(rows, enabled, "match_result", m, "publish", Never)
             ELSE Revise(rows, enabled, "match_result", m, "publish", Never)
  /\ UNCHANGED <<enabled, contest, plan, worker, crashes>>

MatchDeleted_ForgetsClaim(r) ==
  IF r.messages = "none" THEN NoRow ELSE Tombstoned(r, enabled)

(* handle_match_publication_deletion: only a row nobody has claimed and
   nothing was sent for may be dropped. *)
MatchDeleted(r) ==
  IF r.messages = "none" /\ r.claim = "none" THEN NoRow ELSE Tombstoned(r, enabled)

(* delete_match; the match's id may be given to a later match *)
DeleteMatch(m) ==
  /\ Command
  /\ matches[m] # "absent"
  /\ matches' = [matches EXCEPT ![m] = "absent"]
  /\ rows' = [i \in Ids |->
                IF rows[i].type = "match_result" /\ rows[i].entity = m
                THEN MatchDeleted(rows[i]) ELSE rows[i]]
  /\ UNCHANGED <<enabled, contest, plan, worker, crashes>>

(* publish_intermediate_leaderboard, which the master switch does not stop *)
PublishLeaderboard(s) ==
  /\ Command
  /\ RoomFor("leaderboard_snapshot", s)
  /\ ~Has(rows, "leaderboard_snapshot", s)
  /\ \/ \E m \in Matches : matches[m] = "finished"
     \/ \E k \in Kinds : plan[k].result
  /\ rows' = Inserted(rows, RowOf("leaderboard_snapshot", s, "publish", Never))
  /\ UNCHANGED <<enabled, contest, matches, plan, worker, crashes>>

(* complete_contest *)
CompleteContest ==
  /\ Command
  /\ RoomFor("contest_completed", "contest")
  /\ \A m \in Matches : matches[m] # "open"
  /\ \A k \in Kinds : plan[k].on => plan[k].deadline = 0 /\ plan[k].result
  /\ contest' = "completed"
  /\ rows' = Create(rows, enabled, "contest_completed", "contest", "publish", Never)
  /\ UNCHANGED <<enabled, matches, plan, worker, crashes>>

(* delete_contest: the rows go with it (ON DELETE CASCADE) *)
DeleteContest ==
  /\ Command
  /\ contest' = "deleted"
  /\ rows' = [i \in Ids |-> NoRow]
  /\ UNCHANGED <<enabled, matches, plan, worker, crashes>>

-----------------------------------------------------------------------------
(* The order of the queue *)

Allowed(r) == r.type = "leaderboard_snapshot" \/ enabled

Finals == {"champion_predictions", "champion_result", "contest_completed"}

Rank(type) ==
  CASE type = "champion_predictions" -> 1
    [] type = "champion_result" -> 2
    [] OTHER -> 3

(* An earlier row that has work to do holds a later one back, except that
   after completion a later final announcement does not hold an earlier one. *)
Holds(q, p) ==
  /\ q < p
  /\ Exists(rows[q])
  /\ Unsettled(rows[q]) \/ ReconcileDue(rows[q])
  /\ Allowed(rows[q])
  /\ ~(/\ contest = "completed"
       /\ rows[q].type \in Finals /\ rows[p].type \in Finals
       /\ Rank(rows[q].type) > Rank(rows[p].type))

(* After completion a final announcement waits for the ones before it. *)
Awaits(p, d) ==
  /\ contest = "completed"
  /\ Unsettled(rows[d]) \/ rows[d].reconcile # Never
  /\ \/ /\ rows[p].type = "champion_result"
        /\ rows[d].type = "champion_predictions"
     \/ /\ rows[p].type = "contest_completed"
        /\ rows[d].type \in {"champion_predictions", "champion_result"}

InTurn_AnyOrder(p) == Exists(rows[p])

InTurn_SkipsBackoff(p) ==
  \A q \in Ids : ~(Holds(q, p) /\ Due(rows[q])) /\ ~Awaits(p, q)

InTurn(p) == \A q \in Ids : ~Holds(q, p) /\ ~Awaits(p, q)

Eligible(i) ==
  /\ Exists(rows[i])
  /\ Due(rows[i])
  /\ Allowed(rows[i])
  /\ Claimable(rows[i])
  /\ InTurn(i)

-----------------------------------------------------------------------------
(* The worker *)

Settle(w, row) ==
  /\ rows' = [rows EXCEPT ![worker[w].id] = row]
  /\ worker' = [worker EXCEPT ![w] = Idle]

Snapshot(i, pc) == [pc |-> pc, id |-> i, rev |-> rows'[i].desired,
                    action |-> rows'[i].action, entity |-> rows'[i].entity]

(* claim_next_publication: the first eligible row *)
Claim(w) ==
  /\ worker[w].pc = "idle"
  /\ \E i \in Ids :
       /\ Eligible(i)
       /\ \A j \in Ids : j < i => ~Eligible(j)
       /\ rows' = [rows EXCEPT ![i] = Claimed(@, w)]
       /\ worker' = [worker EXCEPT ![w] = Snapshot(i, "claimed")]
  /\ UNCHANGED <<enabled, contest, matches, plan, crashes>>

OwnsClaim_IgnoresToken(w) == Exists(rows[worker[w].id])

OwnsClaim(w) == Exists(rows[worker[w].id]) /\ rows[worker[w].id].claim = w

(* _inspect_claim_state *)
ClaimState(w) ==
  LET r == rows[worker[w].id]
  IN  IF ~OwnsClaim(w) THEN "lost"
      ELSE IF /\ r.desired = worker[w].rev
              /\ r.action = worker[w].action
              /\ r.entity = worker[w].entity
              /\ Allowed(r)
      THEN "current" ELSE "stale"

DesiredState(r) ==
  CASE r.type = "champion_predictions" -> PredictionsState(plan["champion"])
    [] r.type = "swiss_predictions" -> PredictionsState(plan["swiss"])
    [] r.type = "champion_result" -> ResultState(plan["champion"])
    [] OTHER -> [action |-> r.action, at |-> Never]

Reconciled_KeepsAction(r) == [r EXCEPT !.reconcile = DesiredState(r).at]

(* The row after a reconciliation whose instant has come *)
Reconciled(r) ==
  LET st == DesiredState(r)
  IN  IF st.action # r.action THEN Revised(r, st.action, st.at)
      ELSE [r EXCEPT !.reconcile = st.at]

(* prepare_scheduled_reconciliation *)
Prepare(w) ==
  LET i == worker[w].id
      r == rows[i]
      untouched == /\ r.desired = worker[w].rev
                   /\ r.action = worker[w].action
                   /\ r.entity = worker[w].entity
  IN  /\ worker[w].pc = "claimed"
      /\ IF ~OwnsClaim(w)
         THEN rows' = rows /\ worker' = [worker EXCEPT ![w] = Idle]
         ELSE IF untouched /\ ReconcileDue(r)
         THEN /\ rows' = [rows EXCEPT ![i] = Reconciled(r)]
              /\ worker' = [worker EXCEPT ![w] = Snapshot(i, "prepared")]
         ELSE rows' = rows /\ worker' = [worker EXCEPT ![w].pc = "prepared"]
      /\ UNCHANGED <<enabled, contest, matches, plan, crashes>>

Outcome(w) == IF worker[w].action = "withdraw" THEN "withdrawn" ELSE "published"

Succeeded(w) == FinishSuccess(rows[worker[w].id], worker[w].rev, Outcome(w))

Failed(w, permanent, wait) ==
  FinishFailure(rows[worker[w].id], worker[w].rev, permanent, wait)

(* Nothing to send: a withdrawal of what was never sent, or a publication
   whose messages already carry the rendered text. *)
NothingToSend(w) ==
  /\ worker[w].pc = "prepared"
  /\ OwnsClaim(w)
  /\ \/ worker[w].action = "withdraw" /\ rows[worker[w].id].messages = "none"
     \/ worker[w].action = "publish" /\ rows[worker[w].id].messages = "shown"
  /\ Settle(w, Succeeded(w))
  /\ UNCHANGED <<enabled, contest, matches, plan, crashes>>

(* prepare_scheduled_reconciliation fails on the database.  The guard on
   attempts bounds the counter: a reconciliation ignores backoff and limit. *)
PreparationFails(w) ==
  /\ worker[w].pc = "claimed"
  /\ OwnsClaim(w)
  /\ rows[worker[w].id].attempts < MaxAttempts
  /\ \E wait \in 0..MaxBackoff : Settle(w, Failed(w, FALSE, wait))
  /\ UNCHANGED <<enabled, contest, matches, plan, crashes>>

(* Rendering or reading the chat fails: a database error is retried, any
   other exception is permanent. *)
RenderingFails(w) ==
  /\ worker[w].pc = "prepared"
  /\ OwnsClaim(w)
  /\ \E permanent \in BOOLEAN, wait \in 0..MaxBackoff :
       Settle(w, Failed(w, permanent, wait))
  /\ UNCHANGED <<enabled, contest, matches, plan, crashes>>

(* The first Telegram call: from here on the worker awaits and commands run. *)
StartDelivery(w) ==
  /\ worker[w].pc = "prepared"
  /\ worker' = [worker EXCEPT ![w].pc = "delivering"]
  /\ UNCHANGED <<enabled, contest, matches, plan, rows, crashes>>

(* What delivering an action may leave of the messages shown so far *)
Delivered(action, messages) ==
  IF action = "publish" THEN {"shown"}
  ELSE CASE messages = "none" -> {"none"}
         [] messages = "retired" -> {"none", "retired"}
         [] OTHER -> {"none", "retired", "shown"}

(* One part sent, edited or removed, or the lease renewed for the next call *)
DeliverPart(w) ==
  LET i == worker[w].id
  IN  /\ worker[w].pc = "delivering"
      /\ ClaimState(w) = "current"
      /\ \E m \in {rows[i].messages} \cup Delivered(worker[w].action, rows[i].messages),
            lease \in {rows[i].lease, LeaseTicks} :
           rows' = [rows EXCEPT ![i].messages = m, ![i].lease = lease]
      /\ UNCHANGED <<enabled, contest, matches, plan, worker, crashes>>

DeliverySucceeds(w) ==
  LET i == worker[w].id
  IN  /\ worker[w].pc = "delivering"
      /\ ClaimState(w) = "current"
      /\ \E m \in Delivered(worker[w].action, rows[i].messages) :
           Settle(w, [Succeeded(w) EXCEPT !.messages = m])
      /\ UNCHANGED <<enabled, contest, matches, plan, crashes>>

(* TemporaryDeliveryError and PermanentDeliveryError are raised only after
   the claim was found current. *)
DeliveryFails(w) ==
  /\ worker[w].pc = "delivering"
  /\ ClaimState(w) = "current"
  /\ \E permanent \in BOOLEAN, wait \in 0..MaxBackoff :
       Settle(w, Failed(w, permanent, wait))
  /\ UNCHANGED <<enabled, contest, matches, plan, crashes>>

(* What undoing a stale edit may leave of them: a message restored to the text
   it had counts as showing, though that text was a placeholder. *)
Undone(action, messages) ==
  {messages} \cup Delivered("withdraw", messages)
    \cup (IF action = "publish" /\ messages = "retired" THEN {"shown"} ELSE {})

(* StalePublicationRevision: the worker settles what it delivered. *)
DeliveryStale(w) ==
  LET i == worker[w].id
  IN  /\ worker[w].pc = "delivering"
      /\ ClaimState(w) = "stale"
      /\ \E m \in Undone(worker[w].action, rows[i].messages) :
           Settle(w, [Succeeded(w) EXCEPT !.messages = m])
      /\ UNCHANGED <<enabled, contest, matches, plan, crashes>>

(* A database call of the delivery raises sqlite3.OperationalError, whatever
   commands ran during its awaits.  (Saving a part: the message is deleted
   again, which awaits, before the error reaches the worker.) *)
SavingFails(w) ==
  /\ worker[w].pc = "delivering"
  /\ OwnsClaim(w)
  /\ \E wait \in 0..MaxBackoff : Settle(w, Failed(w, FALSE, wait))
  /\ UNCHANGED <<enabled, contest, matches, plan, crashes>>

(* ClaimLostError, or a finish that finds its claim gone: nothing is written. *)
ClaimLost(w) ==
  /\ worker[w].pc \in {"prepared", "delivering"}
  /\ ~OwnsClaim(w)
  /\ worker' = [worker EXCEPT ![w] = Idle]
  /\ UNCHANGED <<enabled, contest, matches, plan, rows, crashes>>

(* The process dies and starts again, or the finish itself fails on the
   database: the claim stays until its lease ends. *)
Crash(w) ==
  /\ worker[w].pc # "idle"
  /\ crashes < MaxCrashes
  /\ crashes' = crashes + 1
  /\ worker' = [worker EXCEPT ![w] = Idle]
  /\ UNCHANGED <<enabled, contest, matches, plan, rows>>

(* Time passes for deadlines, backoffs and leases alike. *)
Tick ==
  /\ plan' = [k \in Kinds |-> [plan[k] EXCEPT !.deadline = Sooner(@)]]
  /\ rows' = [i \in Ids |-> Ticked(rows[i])]
  /\ UNCHANGED <<enabled, contest, matches, worker, crashes>>

-----------------------------------------------------------------------------
ChampionNext ==
  /\ "champion" \in Kinds
  /\ \/ \E on \in BOOLEAN, delay \in 0..MaxDelay : SaveChampionSettings(on, delay)
     \/ SaveChampionPrediction
     \/ SaveContestChampion

SwissNext ==
  /\ "swiss" \in Kinds
  /\ \/ \E on, limits \in BOOLEAN, deadline \in {Never} \cup 0..MaxDelay :
          SaveSwissSettings(on, deadline, limits)
     \/ SaveSwissPrediction
     \/ SaveSwissResult

MatchNext ==
  \E m \in Matches : CreateMatch(m) \/ SaveMatchResult(m) \/ DeleteMatch(m)

ContestNext ==
  \/ SaveMasterSwitch
  \/ \E s \in Snapshots : PublishLeaderboard(s)
  \/ CompleteContest
  \/ DeleteContest

(* What a worker does of its own accord *)
WorkerStep(w) ==
  \/ Claim(w)
  \/ Prepare(w)
  \/ NothingToSend(w)
  \/ StartDelivery(w)
  \/ DeliverySucceeds(w)
  \/ DeliveryFails(w)
  \/ DeliveryStale(w)
  \/ ClaimLost(w)

WorkerTrouble(w) ==
  \/ DeliverPart(w)
  \/ PreparationFails(w)
  \/ RenderingFails(w)
  \/ SavingFails(w)
  \/ Crash(w)

Next ==
  \/ ChampionNext
  \/ SwissNext
  \/ MatchNext
  \/ ContestNext
  \/ \E w \in Workers : WorkerStep(w) \/ WorkerTrouble(w)
  \/ Tick

Spec == Init /\ [][Next]_vars

(* The worker loop runs for ever, every Telegram call has a timeout and the
   clock goes on; no command need ever be given. *)
Fairness ==
  /\ \A w \in Workers : WF_vars(WorkerStep(w))
  /\ WF_vars(Tick)

FairSpec == Spec /\ Fairness

-----------------------------------------------------------------------------
(* Invariants *)

(* The types of the variables. *)
TypeOK ==
  /\ enabled \in BOOLEAN
  /\ contest \in {"open", "completed", "deleted"}
  /\ matches \in [Matches -> {"absent", "open", "finished"}]
  /\ plan \in [Kinds -> Plan]
  /\ rows \in [Ids -> Row]
  /\ worker \in [Workers -> WorkerState]
  /\ crashes \in Nat

(* While the master switch is off nothing is left to send: every row it
   governs is settled and has no reconciliation ahead, whatever the worker was
   doing when the switch was turned. *)
DisabledIsSettled ==
  ~enabled => \A i \in Ids :
    Exists(rows[i]) /\ rows[i].type # "leaderboard_snapshot" =>
      rows[i].settled = rows[i].desired /\ rows[i].reconcile = Never

Revealing(r) == r.action = "publish" \/ r.messages = "shown"

(* What participants predicted is not shown, nor queued to be shown, before
   the deadline of the prediction, however often settings, switch and worker
   interleave. *)
NoEarlyReveal ==
  \A i \in Ids, k \in Kinds :
    rows[i].type = Predictions(k) /\ Revealing(rows[i]) => plan[k].deadline = 0

(* With the switch on, a prediction that is still open has its reveal
   scheduled for exactly its deadline, through every change of settings. *)
RevealScheduled ==
  \A k \in Kinds :
    contest = "open" /\ enabled /\ plan[k].on /\ plan[k].deadline > 0 =>
      \E i \in Ids : /\ rows[i].type = Predictions(k)
                    /\ rows[i].action = "withdraw"
                    /\ rows[i].reconcile = plan[k].deadline

(* The chat hears of events in the order they happened: once something was
   sent for a row, every row before it has settled at least once. *)
AnnouncedInOrder ==
  \A i, j \in Ids :
    i < j /\ Exists(rows[i]) /\ Exists(rows[j]) /\ rows[j].messages # "none" =>
      rows[i].settled > 0

(* The end of the contest is announced only after everybody's choice of a
   champion and the champion are settled, with no reveal outstanding. *)
FinalOrder ==
  \A i, j \in Ids :
    /\ rows[j].type = "contest_completed" /\ rows[j].messages # "none"
    /\ rows[i].type \in {"champion_predictions", "champion_result"}
    => ~Unsettled(rows[i]) /\ rows[i].reconcile = Never

HasWork(r) == Exists(r) /\ Allowed(r) /\ (Unsettled(r) \/ ReconcileDue(r))

(* A lone worker keeps its claim to the end of a delivery, though leases run
   out and matches are deleted meanwhile: only deleting the contest takes it. *)
LoneWorkerKeepsClaim ==
  Cardinality(Workers) = 1 /\ contest # "deleted" =>
    \A w \in Workers : worker[w].pc # "idle" => OwnsClaim(w)

-----------------------------------------------------------------------------
(* What a step may never do *)

(* A revision made during a delivery survives it: when the worker lets go of
   the row, the newer revision is still to be delivered. *)
NewerRevisionSurvives ==
  [][\A w \in Workers :
       LET i == worker[w].id
       IN  /\ worker[w].pc # "idle" /\ worker'[w].pc = "idle"
           /\ OwnsClaim(w)
           /\ rows[i].desired > worker[w].rev /\ Unsettled(rows[i])
           => Unsettled(rows'[i])]_vars

Delivering(w, i) == worker[w].pc # "idle" /\ worker[w].id = i /\ rows[i].claim = w

(* A revision becomes settled only by the worker that holds the row's claim
   and read that very revision, or by the switch going off. *)
SettledByItsOwner ==
  [][\A i \in Ids :
       rows'[i].settled > rows[i].settled =>
         \/ enabled /\ ~enabled'
         \/ \E w \in Workers : Delivering(w, i) /\ rows'[i].settled = worker[w].rev]_vars

-----------------------------------------------------------------------------
(* Liveness *)

(* Every revision of a row is in the end settled, unless the row is deleted
   or the switch goes off: no ordering rule, backoff, failure or crash leaves
   it in the queue for ever. *)
EveryRowSettles ==
  \A i \in Ids : HasWork(rows[i]) ~> ~HasWork(rows[i])

(* A reveal whose instant has come is carried out and settled. *)
EveryRevealHappens ==
  \A k \in Kinds, i \in Ids :
    rows[i].type = Predictions(k) /\ ReconcileDue(rows[i]) /\ enabled /\ plan[k].on ~>
      \/ ~enabled \/ ~plan[k].on \/ ~Exists(rows[i])
      \/ rows[i].action = "publish" /\ ~Unsettled(rows[i]) /\ rows[i].reconcile = Never

=============================================================================
