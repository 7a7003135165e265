--------------------------- MODULE ReminderStore ---------------------------
(***************************************************************************)
(* The tables behind the reminders of one contest                          *)
(* (app/prediction_reminder_store.py): an occurrence for each deadline that *)
(* participants must be reminded of - the start of a match, the closing of  *)
(* the Swiss or champion prediction - and deliveries, each of which reminds *)
(* of a batch of occurrences in one or more parts.                         *)
(*                                                                         *)
(* Each operator on s is a transaction, or a statement of one, as a         *)
(* function of the two tables; the worker's coroutine is ReminderWorker.    *)
(* Instants are numbers on one clock.                                      *)
(***************************************************************************)
EXTENDS Integers, FiniteSetsExt

CONSTANTS
  Matches,       (* ids of matches                                        *)
  Deadlines,     (* the kinds of deadline, as numbers too                 *)
  Workers,       (* processes that run the reminder worker                *)
  Leads,         (* lead times an organizer may choose                    *)
  LeaseTicks,    (* REMINDER_CLAIM_SECONDS                                *)
  ManualTicks,   (* MANUAL_REMINDER_EXPIRY_MINUTES                        *)
  MaxAttempts,   (* REMINDER_MAX_ATTEMPTS                                 *)
  MaxParts,      (* bound on the parts of a reminder                      *)
  MaxInstant,    (* bound: the last instant a target may have             *)
  MaxDeliveries, (* bound on deliveries                                   *)
  MaxEdits       (* bound on commands                                      *)

Targets == Matches \cup Deadlines

ASSUME TargetsAssumption == Targets \subseteq Nat /\ Matches \cap Deadlines = {}
ASSUME ReminderWorkersAssumption == "none" \notin Workers
ASSUME ReminderBoundsAssumption ==
  /\ Leads \subseteq Nat
  /\ {MaxInstant, MaxDeliveries, MaxEdits} \subseteq Nat
  /\ {LeaseTicks, ManualTicks, MaxAttempts, MaxParts} \subseteq Nat \ {0}

VARIABLES
  now,       (* the clock                                                 *)
  contest,   (* "active", "completed" or "deleted"                        *)
  settings,  (* contest_prediction_reminder_settings                      *)
  schedule,  (* the start of each match, the deadline of each prediction  *)
  store,     (* occurrences and deliveries                                *)
  edits      (* how many commands there were                              *)

storeVars == <<now, contest, settings, schedule, store, edits>>

-----------------------------------------------------------------------------
(* Data *)

Instants == 1..MaxInstant
None == 0    (* no such match yet, or the prediction is switched off *)
Gone == -1   (* the match was deleted                                *)

(* No target, delivery or lease outlives this instant. *)
Horizon == MaxInstant + (ManualTicks - 1) + (LeaseTicks - 1)

Open(t) == now < schedule[t]

IsLeast(x, S) == x \in S /\ \A y \in S : x <= y

Numbers == 1..MaxParts
Ids == 1..MaxDeliveries

(* The live row of a target: earlier rows are final and nothing reads them.
   A row's schedule_revision never changes, so its id stands for both. *)
Occurrence ==
  [id : Nat, observed : 0..MaxInstant, due : Int,
   status : {"none", "scheduled", "batched", "sent", "expired", "terminal_failed", "unknown"},
   delivery : 0..MaxDeliveries]

NoOccurrence(id) ==
  [id |-> id, observed |-> 0, due |-> 0, status |-> "none", delivery |-> 0]

NewOccurrence(id, at, lead) ==
  [id |-> id, observed |-> at, due |-> at - lead, status |-> "scheduled", delivery |-> 0]

PartStatuses == {"none", "pending", "sending", "sent", "skipped", "terminal_failed", "unknown"}
NoParts == [n \in Numbers |-> "none"]

LiveStatuses == {"pending", "preparing", "sending", "retry"}

Delivery ==
  [source : {"none", "auto", "manual"}, items : SUBSET (Targets \X Nat \X Nat),
   expires : Nat, settings : Nat,
   status : LiveStatuses \cup {"none", "sent", "partial", "cancelled", "expired",
                               "terminal_failed", "unknown"},
   claim : Workers \cup {"none"}, lease : Nat, next : Nat, attempts : Nat,
   parts : [Numbers -> PartStatuses]]

NoDelivery ==
  [source |-> "none", items |-> {}, expires |-> 0, settings |-> 0, status |-> "none",
   claim |-> "none", lease |-> 0, next |-> 0, attempts |-> 0, parts |-> NoParts]

Live(d) == d.status \in LiveStatuses
Has(d, statuses) == \E n \in Numbers : d.parts[n] \in statuses
Becoming(d, from, to) == [n \in Numbers |-> IF d.parts[n] = from THEN to ELSE d.parts[n]]

Batched(s, t, i) == s.occ[t].status = "batched" /\ s.occ[t].delivery = i
SourceOf(s, t) == s.dels[s.occ[t].delivery].source
Held(s, t) == s.occ[t].status = "batched" /\ SourceOf(s, t) = "auto"

Store == [occ : [Targets -> Occurrence], dels : [Ids -> Delivery]]

StoreInit ==
  /\ now = 0
  /\ contest = "active"
  /\ settings \in [enabled : BOOLEAN, lead : Leads, revision : {1}]
  /\ schedule \in [Targets -> {None} \cup Instants]
  /\ store = [occ |-> [t \in Targets |-> NoOccurrence(0)], dels |-> [i \in Ids |-> NoDelivery]]
  /\ edits = 0

-----------------------------------------------------------------------------
(* How a delivery ends, or is put back, with its occurrences *)

Fate(delivery, occurrence, parts) ==
  [delivery |-> delivery, occurrence |-> occurrence, parts |-> parts]

(* Every statement that ends or releases a claim clears it and turns the
   occurrences that are still batched; those "scheduled" are detached. *)
Settled(s, fate) ==
  [occ  |-> [t \in Targets |->
               LET row == s.occ[t]
               IN  IF row.status = "batched" /\ row.delivery \in DOMAIN fate
                   THEN LET status == fate[row.delivery].occurrence
                        IN  [row EXCEPT !.status = status,
                                        !.delivery = IF status = "scheduled" THEN 0 ELSE @]
                   ELSE row],
   dels |-> [i \in Ids |->
               IF i \in DOMAIN fate
               THEN [s.dels[i] EXCEPT !.status = fate[i].delivery, !.parts = fate[i].parts,
                                      !.claim = "none", !.lease = 0, !.next = 0]
               ELSE s.dels[i]]]

Only(i, fate) == [j \in {i} |-> fate]

(* A reminder that certainly was not sent leaves what a manual one covered
   to the automatic ones. *)
IfManual(d, covered, otherwise) == IF d.source = "manual" THEN covered ELSE otherwise

PartialFate(d) == Fate("partial", "sent", Becoming(d, "pending", "skipped"))
AmbiguousFate(d) == Fate("unknown", "unknown", Becoming(d, "sending", "unknown"))

Ambiguous(d) == Has(d, {"sending", "unknown"})
Begun(d) == Has(d, {"sent"}) /\ ~Ambiguous(d)
Whole(d) == \A n \in Numbers : d.parts[n] \in {"none", "sent", "skipped"}

RecoveryFate_Resends(d) ==
  CASE Begun(d) /\ Whole(d) -> Fate("sent", "sent", d.parts)
    [] Begun(d) /\ ~Whole(d) /\ d.expires <= now -> PartialFate(d)
    [] OTHER -> Fate("retry", "batched", Becoming(d, "sending", "pending"))

(* _recover_abandoned_claims for a delivery whose lease has run out *)
RecoveryFate(d) ==
  CASE Ambiguous(d) -> AmbiguousFate(d)
    [] Begun(d) /\ Whole(d) -> Fate("sent", "sent", d.parts)
    [] Begun(d) /\ ~Whole(d) /\ d.expires <= now -> PartialFate(d)
    [] OTHER -> Fate("retry", "batched", d.parts)

Recovered_OnlyPreparing(s) ==
  LET abandoned == {i \in Ids : /\ s.dels[i].claim # "none" /\ s.dels[i].lease <= now
                                /\ s.dels[i].status = "preparing"}
  IN  Settled(s, [i \in abandoned |-> RecoveryFate(s.dels[i])])

Recovered(s) ==
  LET abandoned == {i \in Ids : /\ s.dels[i].claim # "none" /\ s.dels[i].lease <= now
                                /\ s.dels[i].status \in {"preparing", "sending"}}
  IN  Settled(s, [i \in abandoned |-> RecoveryFate(s.dels[i])])

ExpiryFate(d) ==
  IF Has(d, {"sent"}) THEN PartialFate(d)
  ELSE Fate("expired", IfManual(d, "scheduled", "expired"), d.parts)

(* _expire_unclaimed_deliveries *)
Expired(s) ==
  LET overdue == {i \in Ids : /\ s.dels[i].status \in {"pending", "retry"}
                              /\ s.dels[i].claim = "none" /\ s.dels[i].expires <= now}
  IN  Settled(s, [i \in overdue |-> ExpiryFate(s.dels[i])])

StaleFate_Releases(d) ==
  CASE Ambiguous(d) -> AmbiguousFate(d)
    [] OTHER -> Fate("cancelled", "scheduled", d.parts)

(* _settle_stale_claim *)
StaleFate(d) ==
  CASE Ambiguous(d) -> AmbiguousFate(d)
    [] Begun(d) -> IF Has(d, {"pending", "skipped", "terminal_failed"}) THEN PartialFate(d)
                   ELSE Fate("sent", "sent", d.parts)
    [] OTHER -> IF d.expires <= now
                THEN Fate("expired", IfManual(d, "scheduled", "expired"), d.parts)
                ELSE Fate("cancelled", "scheduled", d.parts)

(* _finish_terminal_in_connection *)
TerminalFate(d) ==
  IF Has(d, {"sent"}) THEN Fate("partial", "sent", d.parts)
  ELSE Fate("terminal_failed", IfManual(d, "scheduled", "terminal_failed"), d.parts)

UnknownFate_LeavesBatch(d) == Fate("unknown", "batched", d.parts)

(* finish_prediction_reminder_unknown: covered for good, sent or not *)
UnknownFate(d) ==
  Fate("unknown", IF Has(d, {"sent"}) THEN "sent" ELSE "unknown", d.parts)

SafeToReset_IgnoresSending(d) == Live(d) /\ ~Has(d, {"sent", "unknown"})

SafeToReset(d) == Live(d) /\ ~Has(d, {"sending", "sent", "unknown"})

(* _reset_delivery_if_safe for each of is: those that Telegram may have
   seen a part of are left alone. *)
Resettable(s, is) == {i \in is \cap Ids : SafeToReset(s.dels[i])}

Reset(s, is) ==
  Settled(s, [i \in Resettable(s, is) |-> Fate("cancelled", "scheduled", s.dels[i].parts)])

-----------------------------------------------------------------------------
(* reconcile_prediction_reminder_occurrences, under settings g *)

Over_IgnoresStart(t, g) ==
  \/ contest # "active"
  \/ schedule[t] = Gone
  \/ t \in Deadlines /\ ~g.enabled

Over(t, g) ==
  \/ contest # "active"
  \/ ~Open(t)
  \/ t \in Deadlines /\ ~g.enabled

UnderOtherSettings(s, t, g) ==
  ~g.enabled \/ s.dels[s.occ[t].delivery].settings # g.revision

(* The rows are read before the loop: once a delivery is reset, its other
   occurrences are found to have no live delivery and are left for later. *)
First(s, ts, t) == \A u \in ts : s.occ[u].delivery = s.occ[t].delivery => t <= u

(* A finished row of a deadline gives the deadline up for a new row; one of
   a match stays the match's. *)
Closed(row, t) ==
  IF t \in Matches THEN [row EXCEPT !.status = "expired", !.delivery = 0]
  ELSE NoOccurrence(row.id)

(* _reconcile_existing_occurrences and ..._deadline_occurrences *)
ReconcileExisting(s, ts, g) ==
  LET stirred == {t \in ts : Held(s, t) /\ (Over(t, g) \/ UnderOtherSettings(s, t, g))}
      safe == Resettable(s, {s.occ[t].delivery : t \in stirred})
      reset == Reset(s, safe)
      over == {t \in ts :
                 /\ Over(t, g)
                 /\ \/ s.occ[t].status = "scheduled"
                    \/ s.occ[t].status = "batched" /\ SourceOf(s, t) = "manual"
                    \/ t \in stirred /\ s.occ[t].delivery \in safe /\ First(s, stirred, t)}
  IN  [reset EXCEPT !.occ = [t \in Targets |-> IF t \in over THEN Closed(@[t], t) ELSE @[t]]]

Moved(row, t) == row.observed # schedule[t]

Outdated_IgnoresStart(s, t, g) == s.occ[t].status = "none" \/ Moved(s.occ[t], t)

(* A new lead time rearms only what is not final yet. *)
Outdated(s, t, g) ==
  LET row == s.occ[t]
  IN  /\ Open(t)
      /\ \/ row.status = "none"
         \/ Moved(row, t)
         \/ /\ row.due # schedule[t] - g.lead
            /\ row.status \in {"scheduled", "batched"}

(* A target that moved gets a new row; a manual reminder keeps covering a
   target whose lead time alone changed. *)
Rearmed(row, t, g) ==
  IF row.status = "none" \/ Moved(row, t) THEN NewOccurrence(row.id + 1, schedule[t], g.lead)
  ELSE [row EXCEPT !.due = schedule[t] - g.lead]

(* The loop over the scheduled matches, and _ensure_deadline_occurrence,
   which reads each row afresh *)
Materialize(s, ts, g) ==
  LET outdated == {t \in ts : Outdated(s, t, g)}
      held == {t \in outdated : Held(s, t)}
      safe == Resettable(s, {s.occ[t].delivery : t \in held})
      reset == Reset(s, safe)
      ready == {t \in outdated :
                  t \in held => /\ s.occ[t].delivery \in safe
                                /\ t \in Deadlines \/ First(s, held, t)}
  IN  [reset EXCEPT !.occ = [t \in Targets |-> IF t \in ready THEN Rearmed(@[t], t, g) ELSE @[t]]]

Reconciled(s, g) ==
  LET rid == Expired(Recovered(s))
      old == ReconcileExisting(ReconcileExisting(rid, Matches, g), Deadlines, g)
  IN  IF contest = "active" /\ g.enabled
      THEN Materialize(Materialize(old, Matches, g), Deadlines, g)
      ELSE old

-----------------------------------------------------------------------------
(* claim_next_prediction_reminder_delivery *)

SettingsCurrent(d) == settings.enabled /\ settings.revision = d.settings

(* A reminder part of which was sent is finished whatever the settings. *)
Wanted(d) == d.source = "manual" \/ Has(d, {"sent"}) \/ SettingsCurrent(d)

Waiting(s) ==
  {i \in Ids : LET d == s.dels[i]
               IN  /\ d.status \in {"pending", "retry"} /\ d.claim = "none"
                   /\ d.next <= now /\ now < d.expires
                   /\ contest = "active" /\ Wanted(d)}

Taken(s, i, w) ==
  [s EXCEPT !.dels[i].status = "preparing", !.dels[i].claim = w,
            !.dels[i].lease = now + LeaseTicks]

Scheduled(s, t) ==
  /\ s.occ[t].status = "scheduled"
  /\ s.occ[t].due <= now
  /\ s.occ[t].observed = schedule[t]
  /\ Open(t)

Due(s) ==
  {t \in Targets : /\ Scheduled(s, t)
                   /\ contest = "active" /\ settings.enabled
                   /\ s.occ[t].due = schedule[t] - settings.lead}

Unused(s) == {i \in Ids : s.dels[i].source = "none"}
IsNextId(s, i) == IsLeast(i, Unused(s))

Item(s, t) == <<t, s.occ[t].id, s.occ[t].observed>>

(* A new delivery of what is scheduled in ts *)
Attached(s, i, delivery, ts) ==
  [occ  |-> [t \in Targets |-> IF t \in ts
                               THEN [s.occ[t] EXCEPT !.status = "batched", !.delivery = i]
                               ELSE s.occ[t]],
   dels |-> [s.dels EXCEPT ![i] = [delivery EXCEPT !.items = {Item(s, t) : t \in ts}]]]

(* Everything due at the instant of what is due first makes one batch. *)
BatchTaken(s, i, at, w) ==
  LET batch == {t \in Targets : Scheduled(s, t) /\ s.occ[t].observed = at}
  IN  Attached(s, i,
               [NoDelivery EXCEPT !.source = "auto", !.expires = at,
                                  !.settings = settings.revision, !.status = "preparing",
                                  !.claim = w, !.lease = now + LeaseTicks],
               batch)

Current_IgnoresSchedule(s, i) ==
  LET d == s.dels[i]
  IN  /\ now < d.expires
      /\ contest = "active"
      /\ Wanted(d)

(* _claim_is_current, but for the token and the status: may this delivery
   still go out? *)
Current(s, i) ==
  LET d == s.dels[i]
  IN  /\ now < d.expires
      /\ contest = "active"
      /\ Wanted(d)
      /\ d.source = "auto" =>
           /\ \A item \in d.items :
                item[1] \in Matches =>
                  /\ Batched(s, item[1], i) /\ s.occ[item[1]].id = item[2]
                  /\ schedule[item[1]] = item[3]
           /\ \A t \in Deadlines : Batched(s, t, i) => schedule[t] = s.occ[t].observed
           /\ \E t \in Targets : Batched(s, t, i)

-----------------------------------------------------------------------------
(* Commands *)

Edit == edits < MaxEdits /\ edits' = edits + 1

(* save_tma_prediction_reminder_settings: saves, then reconciles. *)
SaveSettings(enabled, lead) ==
  /\ Edit
  /\ contest = "active"
  /\ settings' = [enabled |-> enabled, lead |-> lead,
                  revision |-> IF enabled = settings.enabled /\ lead = settings.lead
                               THEN settings.revision ELSE settings.revision + 1]
  /\ store' = Reconciled(store, settings')
  /\ UNCHANGED <<now, contest, schedule>>

(* queue_manual_prediction_reminder with a new idempotency key: automatic
   deliveries that cannot have been seen yet give way to the manual one,
   which covers everything within its lead time. *)
QueueManual ==
  LET reconciled == Reconciled(store, settings)
      batched == {t \in Targets : /\ Held(reconciled, t) /\ reconciled.occ[t].due <= now
                                  /\ Open(t) /\ reconciled.occ[t].observed = schedule[t]}
      s == Reset(reconciled, {reconciled.occ[t].delivery : t \in batched})
      covered == {t \in Targets : Scheduled(s, t)}
      cutoffs == {now + ManualTicks} \cup {schedule[t] : t \in covered}
  IN  /\ Edit
      /\ contest = "active"
      /\ \E t \in Targets : Open(t)
      /\ \E i \in Ids, cutoff \in cutoffs :
           /\ IsNextId(s, i)
           /\ IsLeast(cutoff, cutoffs)
           /\ store' = Attached(s, i,
                                [NoDelivery EXCEPT !.source = "manual", !.status = "pending",
                                                   !.expires = cutoff,
                                                   !.settings = settings.revision],
                                covered)
      /\ UNCHANGED <<now, contest, settings, schedule>>

(* A match is created, or a prediction switched on. *)
Announce(t, at) ==
  /\ Edit
  /\ contest = "active"
  /\ schedule[t] = None
  /\ now < at
  /\ schedule' = [schedule EXCEPT ![t] = at]
  /\ UNCHANGED <<now, contest, settings, store>>

(* update_match_start, and a deadline that is moved: only ahead of time *)
Move(t, at) ==
  /\ Edit
  /\ contest = "active"
  /\ Open(t)
  /\ now < at /\ at # schedule[t]
  /\ schedule' = [schedule EXCEPT ![t] = at]
  /\ UNCHANGED <<now, contest, settings, store>>

(* delete_match at any time; a prediction is switched off ahead of time. *)
Drop(t) ==
  /\ Edit
  /\ contest = "active"
  /\ IF t \in Matches THEN schedule[t] \in Instants ELSE Open(t)
  /\ schedule' = [schedule EXCEPT ![t] = IF t \in Matches THEN Gone ELSE None]
  /\ UNCHANGED <<now, contest, settings, store>>

(* complete_contest, when nothing is left to predict *)
CompleteContest ==
  /\ contest = "active"
  /\ \A t \in Targets : ~Open(t)
  /\ contest' = "completed"
  /\ UNCHANGED <<now, settings, schedule, store, edits>>

(* delete_contest: its deliveries and occurrences stay, without it. *)
DeleteContest ==
  /\ Edit
  /\ contest = "active"
  /\ contest' = "deleted"
  /\ schedule' = [t \in Targets |-> Gone]
  /\ UNCHANGED <<now, settings, store>>

StoreCommand ==
  \/ \E enabled \in BOOLEAN, lead \in Leads : SaveSettings(enabled, lead)
  \/ QueueManual
  \/ \E t \in Targets, at \in Instants : Announce(t, at) \/ Move(t, at)
  \/ \E t \in Targets : Drop(t)
  \/ CompleteContest
  \/ DeleteContest

Tick ==
  /\ now < Horizon
  /\ now' = now + 1
  /\ UNCHANGED <<contest, settings, schedule, store, edits>>

=============================================================================
