--------------------------- MODULE PublicationRow ---------------------------
(***************************************************************************)
(* One row of table contest_publications and what each statement of        *)
(* app/publication_outbox.py does to it.  A row is the durable intent to   *)
(* have something shown in (or withdrawn from) the chat of a contest:      *)
(* commands raise its desired revision, the worker claims it, delivers the *)
(* revision it read and settles that revision.                             *)
(*                                                                         *)
(* Instants are countdowns: 0 is an instant that has passed, a positive    *)
(* number the ticks left to it, Never is SQL NULL.  The code only ever     *)
(* compares an instant with the present, so nothing is lost.               *)
(***************************************************************************)
EXTENDS Integers

CONSTANTS
  Workers,      (* processes that run the publication worker              *)
  Entities,     (* what a publication is about: a match, a snapshot, ...  *)
  LeaseTicks,   (* length of a claim's lease                              *)
  MaxAttempts   (* PUBLICATION_MAX_ATTEMPTS                               *)

ASSUME WorkersAssumption == "none" \notin Workers
ASSUME LeaseAssumption == LeaseTicks \in Nat \ {0}
ASSUME AttemptsAssumption == MaxAttempts \in Nat \ {0}

-----------------------------------------------------------------------------
(* The row *)

Never == -1
Timer == Nat \cup {Never}

Types == {"match_result", "champion_predictions", "champion_result",
          "swiss_predictions", "swiss_result", "leaderboard_snapshot",
          "contest_completed"}

Actions == {"publish", "withdraw"}

Statuses == {"pending", "published", "withdrawn", "terminal_failed"}

(* What contest_publication_messages holds for the row: no message, only
   messages turned into a placeholder, or some message still showing. *)
Messages == {"none", "retired", "shown"}

Row == [type : Types \cup {"none"}, entity : Entities,
        action : Actions, desired : Nat, settled : Nat, status : Statuses,
        reconcile : Timer, next : Timer, attempts : Nat,
        claim : Workers \cup {"none"}, lease : Timer, messages : Messages]

(* The fields every inserted row starts with; type "none" is no row. *)
RowOf(type, entity, action, reconcile) ==
  [type |-> type, entity |-> entity, action |-> action,
   desired |-> 1, settled |-> 0, status |-> "pending",
   reconcile |-> reconcile, next |-> 0, attempts |-> 0,
   claim |-> "none", lease |-> Never, messages |-> "none"]

Exists(r) == r.type # "none"

Unsettled(r) == r.desired > r.settled

ReconcileDue(r) == r.reconcile = 0

(* Worth claiming now: an unsettled revision whose backoff is over, or a
   scheduled reconciliation whose instant has come. *)
Due(r) == (Unsettled(r) /\ r.next <= 0) \/ ReconcileDue(r)

Claimable_NeverExpires(r) == r.claim = "none"

Claimable(r) == r.claim = "none" \/ r.lease = 0

-----------------------------------------------------------------------------
(* What commands do to a row *)

(* revise_existing_publication: a new revision, due at once; a claim taken
   on the previous revision stays in the row. *)
Revised(r, action, reconcile) ==
  [r EXCEPT !.desired = @ + 1, !.action = action, !.status = "pending",
            !.reconcile = reconcile, !.attempts = 0, !.next = 0]

SwitchedOff_KeepsReconcile(r) ==
  [r EXCEPT !.desired = @ + 1, !.settled = r.desired + 1,
            !.status = IF r.messages = "shown" THEN "published" ELSE "withdrawn",
            !.attempts = 0, !.next = Never]

(* The disabling half of transition_contest_publications_for_master_switch:
   a revision that is born settled, so that nothing is sent any more. *)
SwitchedOff(r) ==
  [r EXCEPT !.desired = @ + 1, !.settled = r.desired + 1,
            !.status = IF r.messages = "shown" THEN "published" ELSE "withdrawn",
            !.reconcile = Never, !.attempts = 0, !.next = Never]

(* handle_match_publication_deletion for a row that must outlive its match:
   entity_id becomes -id, which frees the match's own id. *)
Tombstoned(r, enabled) ==
  IF enabled
  THEN [Revised(r, "withdraw", Never) EXCEPT !.entity = "gone"]
  ELSE [r EXCEPT !.entity = "gone"]

-----------------------------------------------------------------------------
(* What the worker does to a row *)

Claimed(r, w) == [r EXCEPT !.claim = w, !.lease = LeaseTicks]

Larger(m, n) == IF m >= n THEN m ELSE n

Released(r) == [r EXCEPT !.claim = "none", !.lease = Never]

(* Writes the action where its outcome belongs. *)
FinishSuccess_StatusOfAction(r, rev, status) ==
  LET settled == Larger(r.settled, rev)
  IN  [Released(r) EXCEPT
         !.settled = settled,
         !.status = IF r.desired > settled THEN "pending" ELSE r.action,
         !.attempts = IF r.desired > rev THEN @ ELSE 0,
         !.next = IF r.desired > rev THEN @ ELSE Never]

FinishSuccess_SettlesNewest(r, rev, status) ==
  [Released(r) EXCEPT !.settled = r.desired, !.status = status,
                      !.attempts = 0, !.next = Never]

(* finish_publication_success for a delivery of revision rev: a newer
   revision stays unsettled and keeps its own retry state. *)
FinishSuccess(r, rev, status) ==
  LET settled == Larger(r.settled, rev)
  IN  [Released(r) EXCEPT
         !.settled = settled,
         !.status = IF r.desired > settled THEN "pending"
                    ELSE IF r.settled > rev THEN r.status ELSE status,
         !.attempts = IF r.desired > rev THEN @ ELSE 0,
         !.next = IF r.desired > rev THEN @ ELSE Never]

(* finish_publication_failure: the delivery of revision rev is retried after
   wait ticks, or given up on; a newer revision keeps its own retry state. *)
FinishFailure(r, rev, permanent, wait) ==
  LET newer == r.desired > rev
      terminal == permanent \/ r.attempts + 1 >= MaxAttempts
  IN  IF newer
      THEN [Released(r) EXCEPT !.status = "pending"]
      ELSE IF terminal
      THEN [Released(r) EXCEPT !.settled = Larger(@, rev),
                               !.status = "terminal_failed",
                               !.attempts = @ + 1, !.next = Never]
      ELSE [Released(r) EXCEPT !.status = "pending",
                               !.attempts = @ + 1, !.next = wait]

-----------------------------------------------------------------------------
(* Time *)

Sooner(t) == IF t > 0 THEN t - 1 ELSE t

Ticked(r) == [r EXCEPT !.reconcile = Sooner(@), !.next = Sooner(@),
                       !.lease = Sooner(@)]

=============================================================================
