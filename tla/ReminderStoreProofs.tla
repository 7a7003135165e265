------------------------- MODULE ReminderStoreProofs -------------------------
(* What the statements of ReminderStore do to deliveries and their parts, for
   any number of targets, deliveries and parts. *)
EXTENDS ReminderStore, TLAPS

(* The bounds are naturals and "none" is nobody's name. *)
LEMMA Bounds ==
  /\ MaxInstant \in Nat /\ MaxDeliveries \in Nat /\ MaxEdits \in Nat /\ MaxParts \in Nat
  /\ LeaseTicks \in Nat /\ ManualTicks \in Nat /\ MaxAttempts \in Nat
  /\ Leads \subseteq Nat /\ Targets \subseteq Nat /\ "none" \notin Workers
BY TargetsAssumption, ReminderWorkersAssumption, ReminderBoundsAssumption

-----------------------------------------------------------------------------
(* Deliveries *)

OccurrenceStatuses ==
  {"none", "scheduled", "batched", "sent", "expired", "terminal_failed", "unknown"}

DeliveryStatuses ==
  LiveStatuses \cup {"none", "sent", "partial", "cancelled", "expired",
                     "terminal_failed", "unknown"}

(* Telegram is not being asked, and was not asked without an answer. *)
Calm(parts) == \A n \in Numbers : parts[n] \notin {"sending", "unknown"}

(* A delivery that waits or prepares is calm, and an id that is not in use
   has no parts and no claim. *)
DelOK(d) ==
  /\ d \in Delivery
  /\ d.status \in {"none", "pending", "retry", "preparing"} => Calm(d.parts)
  /\ d.source = "none" =>
       d.status = "none" /\ d.claim = "none" /\ \A n \in Numbers : d.parts[n] = "none"

StoreOK(s) == s \in Store /\ \A i \in Ids : DelOK(s.dels[i])

(* What happens to a part behind the back of the worker that sends it *)
PartStep(from, to) ==
  \/ to = from
  \/ from = "sending" /\ to = "unknown"
  \/ from = "pending" /\ to = "skipped"

(* ... and to a delivery: it loses its claim if anything changes. *)
Tame(d, e) ==
  /\ e.source = d.source
  /\ \A n \in Numbers : PartStep(d.parts[n], e.parts[n])
  /\ e = d \/ e.claim = "none"

AllTame(s, q) == StoreOK(q) /\ \A i \in Ids : Tame(s.dels[i], q.dels[i])

(* Nothing happens, or one thing after another. *)
LEMMA TameSame == ASSUME NEW d PROVE Tame(d, d)
BY DEF Tame, PartStep

LEMMA TameTransitive ==
  ASSUME NEW d, NEW e, NEW f, Tame(d, e), Tame(e, f)
  PROVE  Tame(d, f)
BY DEF Tame, PartStep

LEMMA AllTameSame == ASSUME NEW s, StoreOK(s) PROVE AllTame(s, s)
BY TameSame DEF AllTame

LEMMA AllTameTransitive ==
  ASSUME NEW s, NEW q, NEW r, AllTame(s, q), AllTame(q, r)
  PROVE  AllTame(s, r)
BY TameTransitive DEF AllTame

(* The empty tables *)
LEMMA NoDeliveryOK == DelOK(NoDelivery)
<1>1. NoParts \in [Numbers -> PartStatuses]
  BY DEF NoParts, PartStatuses
<1>2. NoDelivery \in Delivery
  BY <1>1 DEF NoDelivery, Delivery
<1>3. /\ NoDelivery.status = "none" /\ NoDelivery.claim = "none"
      /\ \A n \in Numbers : NoDelivery.parts[n] = "none"
  BY DEF NoDelivery, NoParts
<1> QED
  BY <1>2, <1>3 DEF DelOK, Calm

-----------------------------------------------------------------------------
(* Settling *)

FateOK(f) ==
  /\ f.delivery \in DeliveryStatuses
  /\ f.occurrence \in OccurrenceStatuses
  /\ f.parts \in [Numbers -> PartStatuses]
  /\ f.delivery \in {"none", "pending", "retry", "preparing"} => Calm(f.parts)

TameFate(d, f) == FateOK(f) /\ \A n \in Numbers : PartStep(d.parts[n], f.parts[n])

SettledDelivery(d, f) ==
  [d EXCEPT !.status = f.delivery, !.parts = f.parts, !.claim = "none", !.lease = 0, !.next = 0]

(* The tables keep their types, and each delivery gets what fate says. *)
LEMMA SettledTypes ==
  ASSUME NEW s \in Store, NEW fate, DOMAIN fate \subseteq Ids,
         \A i \in DOMAIN fate : FateOK(fate[i])
  PROVE  /\ Settled(s, fate) \in Store
         /\ \A i \in Ids : Settled(s, fate).dels[i] =
              IF i \in DOMAIN fate THEN SettledDelivery(s.dels[i], fate[i]) ELSE s.dels[i]
<1> DEFINE q == Settled(s, fate)
           occ == [t \in Targets |->
               LET row == s.occ[t]
               IN  IF row.status = "batched" /\ row.delivery \in DOMAIN fate
                   THEN LET status == fate[row.delivery].occurrence
                        IN  [row EXCEPT !.status = status,
                                        !.delivery = IF status = "scheduled" THEN 0 ELSE @]
                   ELSE row]
           dels == [i \in Ids |-> IF i \in DOMAIN fate THEN SettledDelivery(s.dels[i], fate[i])
                                  ELSE s.dels[i]]
<1>1. q = [occ |-> occ, dels |-> dels]
  BY Zenon DEF Settled, SettledDelivery
<1>2. \A t \in Targets : s.occ[t] \in Occurrence
  BY DEF Store
<1>3. \A i \in Ids : s.dels[i] \in Delivery
  BY DEF Store
<1>4. ASSUME NEW t \in Targets PROVE occ[t] \in Occurrence
  <2>1. CASE s.occ[t].status = "batched" /\ s.occ[t].delivery \in DOMAIN fate
    <3>1. occ[t] = [s.occ[t] EXCEPT !.status = fate[s.occ[t].delivery].occurrence,
                                    !.delivery = IF fate[s.occ[t].delivery].occurrence = "scheduled"
                                                 THEN 0 ELSE @]
      BY <2>1
    <3>2. fate[s.occ[t].delivery].occurrence \in OccurrenceStatuses
      BY <2>1 DEF FateOK
    <3>3. 0 \in 0..MaxDeliveries
      BY Bounds
    <3> DEFINE row == s.occ[t]
               status == fate[s.occ[t].delivery].occurrence
               next == IF status = "scheduled" THEN 0 ELSE row.delivery
    <3>4. row \in Occurrence /\ next \in 0..MaxDeliveries
      BY <1>2, <3>3 DEF Occurrence
    <3>5. occ[t] = [row EXCEPT !.status = status, !.delivery = next]
      BY <3>1
    <3> HIDE DEF row, status, next, occ
    <3> QED
      BY <3>2, <3>4, <3>5 DEF Occurrence, OccurrenceStatuses, status
  <2>2. CASE ~(s.occ[t].status = "batched" /\ s.occ[t].delivery \in DOMAIN fate)
    <3>1. occ[t] = s.occ[t]
      BY <2>2
    <3> QED
      BY <1>2, <3>1
  <2> QED
    BY <2>1, <2>2
<1>5. ASSUME NEW i \in Ids PROVE dels[i] \in Delivery
  <2>1. CASE i \in DOMAIN fate
    BY <1>3, <2>1 DEF Delivery, SettledDelivery, FateOK, DeliveryStatuses, LiveStatuses
  <2>2. CASE i \notin DOMAIN fate
    BY <1>3, <2>2
  <2> QED
    BY <2>1, <2>2
<1>6. occ \in [Targets -> Occurrence] /\ dels \in [Ids -> Delivery]
  BY <1>4, <1>5
<1>7. q.dels = dels /\ q \in Store
  <2> HIDE DEF occ, dels
  <2> QED
    BY <1>1, <1>6 DEF Store
<1> QED
  BY <1>7

(* Settling with tame fates is tame. *)
LEMMA SettledTame ==
  ASSUME NEW s, StoreOK(s), NEW fate, DOMAIN fate \subseteq Ids,
         \A i \in DOMAIN fate : s.dels[i].status # "none" /\ TameFate(s.dels[i], fate[i])
  PROVE  AllTame(s, Settled(s, fate))
<1>1. s \in Store /\ \A i \in DOMAIN fate : FateOK(fate[i])
  BY DEF StoreOK, TameFate
<1>2. /\ Settled(s, fate) \in Store
      /\ \A i \in Ids : Settled(s, fate).dels[i] =
           IF i \in DOMAIN fate THEN SettledDelivery(s.dels[i], fate[i]) ELSE s.dels[i]
  BY <1>1, SettledTypes
<1>3. SUFFICES ASSUME NEW i \in Ids
               PROVE  DelOK(Settled(s, fate).dels[i]) /\ Tame(s.dels[i], Settled(s, fate).dels[i])
  BY <1>2 DEF AllTame, StoreOK
<1>4. CASE i \notin DOMAIN fate
  BY <1>2, <1>4, TameSame DEF StoreOK
<1>5. CASE i \in DOMAIN fate
  <2> DEFINE d == s.dels[i]
             e == SettledDelivery(d, fate[i])
  <2>1. DelOK(d) /\ TameFate(d, fate[i])
    BY <1>5 DEF StoreOK
  <2>2. /\ e.status = fate[i].delivery /\ e.parts = fate[i].parts
        /\ e.claim = "none" /\ e.source = d.source
    BY <2>1 DEF SettledDelivery, DelOK, Delivery
  <2>3. Tame(d, e)
    BY <2>1, <2>2 DEF Tame, TameFate
  <2>4. e \in Delivery
    BY <1>2, <1>5 DEF Store
  <2>5. e.source # "none"
    BY <1>5, <2>1, <2>2 DEF DelOK
  <2>6. DelOK(e)
    BY <2>1, <2>2, <2>4, <2>5 DEF DelOK, TameFate, FateOK
  <2> QED
    BY <1>2, <1>5, <2>3, <2>6
<1> QED
  BY <1>4, <1>5

-----------------------------------------------------------------------------
(* The fates are tame *)

(* Parts of one status get another. *)
LEMMA BecomingParts ==
  ASSUME NEW d \in Delivery, NEW from \in PartStatuses, NEW to \in PartStatuses
  PROVE  /\ Becoming(d, from, to) \in [Numbers -> PartStatuses]
         /\ \A n \in Numbers :
              Becoming(d, from, to)[n] = IF d.parts[n] = from THEN to ELSE d.parts[n]
BY DEF Becoming, Delivery

(* A part that was begun may have arrived. *)
LEMMA AmbiguousTame ==
  ASSUME NEW d \in Delivery PROVE TameFate(d, AmbiguousFate(d))
<1>1. "sending" \in PartStatuses /\ "unknown" \in PartStatuses
  BY DEF PartStatuses
<1> QED
  BY <1>1, BecomingParts
     DEF AmbiguousFate, Fate, TameFate, FateOK, PartStep, DeliveryStatuses, OccurrenceStatuses

(* What was not begun when another part was sent is skipped. *)
LEMMA PartialTame ==
  ASSUME NEW d \in Delivery PROVE TameFate(d, PartialFate(d))
<1>1. "pending" \in PartStatuses /\ "skipped" \in PartStatuses
  BY DEF PartStatuses
<1> QED
  BY <1>1, BecomingParts
     DEF PartialFate, Fate, TameFate, FateOK, PartStep, DeliveryStatuses, OccurrenceStatuses

(* The parts stay as they are, in a delivery that ends or is calm. *)
LEMMA SamePartsTame ==
  ASSUME NEW d \in Delivery, NEW status \in DeliveryStatuses, NEW occurrence \in OccurrenceStatuses,
         status \in {"none", "pending", "retry", "preparing"} => Calm(d.parts)
  PROVE  TameFate(d, Fate(status, occurrence, d.parts))
BY DEF Fate, TameFate, FateOK, PartStep, Delivery

(* Calm is the opposite of Ambiguous. *)
LEMMA CalmIsUnambiguous ==
  ASSUME NEW d PROVE Calm(d.parts) <=> ~Ambiguous(d)
BY DEF Calm, Ambiguous, Has

(* _recover_abandoned_claims *)
LEMMA RecoveryTame ==
  ASSUME NEW d \in Delivery PROVE TameFate(d, RecoveryFate(d))
<1>1. CASE Ambiguous(d)
  BY <1>1, AmbiguousTame DEF RecoveryFate, Begun
<1>2. CASE ~Ambiguous(d)
  <2>1. RecoveryFate(d) \in {Fate("sent", "sent", d.parts), PartialFate(d),
                             Fate("retry", "batched", d.parts)}
    BY <1>2 DEF RecoveryFate
  <2>2. TameFate(d, Fate("sent", "sent", d.parts))
    BY SamePartsTame DEF DeliveryStatuses, OccurrenceStatuses
  <2>3. TameFate(d, Fate("retry", "batched", d.parts))
    BY <1>2, SamePartsTame, CalmIsUnambiguous DEF DeliveryStatuses, LiveStatuses, OccurrenceStatuses
  <2> QED
    BY <2>1, <2>2, <2>3, PartialTame
<1> QED
  BY <1>1, <1>2

(* _expire_unclaimed_deliveries *)
LEMMA ExpiryTame ==
  ASSUME NEW d \in Delivery PROVE TameFate(d, ExpiryFate(d))
<1>1. IfManual(d, "scheduled", "expired") \in OccurrenceStatuses
  BY DEF IfManual, OccurrenceStatuses
<1>2. TameFate(d, Fate("expired", IfManual(d, "scheduled", "expired"), d.parts))
  BY <1>1, SamePartsTame DEF DeliveryStatuses
<1> QED
  BY <1>2, PartialTame DEF ExpiryFate

(* _settle_stale_claim *)
LEMMA StaleTame ==
  ASSUME NEW d \in Delivery PROVE TameFate(d, StaleFate(d))
<1>1. IfManual(d, "scheduled", "expired") \in OccurrenceStatuses
  BY DEF IfManual, OccurrenceStatuses
<1>2. /\ TameFate(d, Fate("expired", IfManual(d, "scheduled", "expired"), d.parts))
      /\ TameFate(d, Fate("cancelled", "scheduled", d.parts))
      /\ TameFate(d, Fate("sent", "sent", d.parts))
  BY <1>1, SamePartsTame DEF DeliveryStatuses, OccurrenceStatuses
<1>3. StaleFate(d) \in {AmbiguousFate(d), PartialFate(d), Fate("sent", "sent", d.parts),
                        Fate("expired", IfManual(d, "scheduled", "expired"), d.parts),
                        Fate("cancelled", "scheduled", d.parts)}
  BY DEF StaleFate
<1> QED
  BY <1>2, <1>3, AmbiguousTame, PartialTame

(* The three statements that settle several deliveries at once *)
LEMMA RecoveredTame ==
  ASSUME NEW s, StoreOK(s) PROVE AllTame(s, Recovered(s))
<1> DEFINE abandoned == {i \in Ids : /\ s.dels[i].claim # "none" /\ s.dels[i].lease <= now
                                     /\ s.dels[i].status \in {"preparing", "sending"}}
           fate == [i \in abandoned |-> RecoveryFate(s.dels[i])]
<1>1. \A i \in DOMAIN fate : s.dels[i].status # "none" /\ TameFate(s.dels[i], fate[i])
  BY RecoveryTame DEF StoreOK, DelOK
<1>2. DOMAIN fate \subseteq Ids
  OBVIOUS
<1>3. Recovered(s) = Settled(s, fate)
  BY DEF Recovered
<1> QED
  BY <1>1, <1>2, <1>3, SettledTame

LEMMA ExpiredTame ==
  ASSUME NEW s, StoreOK(s) PROVE AllTame(s, Expired(s))
<1> DEFINE overdue == {i \in Ids : /\ s.dels[i].status \in {"pending", "retry"}
                                   /\ s.dels[i].claim = "none" /\ s.dels[i].expires <= now}
           fate == [i \in overdue |-> ExpiryFate(s.dels[i])]
<1>1. \A i \in DOMAIN fate : s.dels[i].status # "none" /\ TameFate(s.dels[i], fate[i])
  BY ExpiryTame DEF StoreOK, DelOK
<1>2. DOMAIN fate \subseteq Ids
  OBVIOUS
<1>3. Expired(s) = Settled(s, fate)
  BY DEF Expired
<1> QED
  BY <1>1, <1>2, <1>3, SettledTame

LEMMA ResetTame ==
  ASSUME NEW s, StoreOK(s), NEW is
  PROVE  AllTame(s, Reset(s, is))
<1> DEFINE fate == [i \in Resettable(s, is) |-> Fate("cancelled", "scheduled", s.dels[i].parts)]
<1>1. \A i \in DOMAIN fate : s.dels[i].status # "none" /\ TameFate(s.dels[i], fate[i])
  BY SamePartsTame DEF Resettable, SafeToReset, Live, LiveStatuses, StoreOK, DelOK, DeliveryStatuses, OccurrenceStatuses
<1>2. DOMAIN fate \subseteq Ids
  BY DEF Resettable
<1>3. Reset(s, is) = Settled(s, fate)
  BY DEF Reset
<1> QED
  BY <1>1, <1>2, <1>3, SettledTame

-----------------------------------------------------------------------------
(* Reconciliation *)

(* Statements on occurrences leave the deliveries alone. *)
LEMMA OccurrencesTame ==
  ASSUME NEW s, StoreOK(s), NEW occ \in [Targets -> Occurrence]
  PROVE  AllTame(s, [s EXCEPT !.occ = occ])
<1>1. [s EXCEPT !.occ = occ] \in Store /\ [s EXCEPT !.occ = occ].dels = s.dels
  BY DEF StoreOK, Store
<1> QED
  BY <1>1, TameSame DEF AllTame, StoreOK

Scheduling == now \in Nat /\ schedule \in [Targets -> {None, Gone} \cup Instants]

(* An open target has an instant. *)
LEMMA OpenInstant ==
  ASSUME Scheduling, NEW t \in Targets, Open(t)
  PROVE  schedule[t] \in Instants /\ schedule[t] \in 0..MaxInstant
BY Bounds DEF Scheduling, Open, None, Gone, Instants

(* The rows that reconciliation writes *)
LEMMA ClosedType ==
  ASSUME NEW row \in Occurrence, NEW t PROVE Closed(row, t) \in Occurrence
<1>1. 0 \in 0..MaxDeliveries /\ 0 \in 0..MaxInstant /\ 0 \in Int
  BY Bounds
<1>2. NoOccurrence(row.id) \in Occurrence
  BY <1>1 DEF NoOccurrence, Occurrence
<1>3. [row EXCEPT !.status = "expired", !.delivery = 0] \in Occurrence
  BY <1>1 DEF Occurrence
<1> QED
  BY <1>2, <1>3 DEF Closed

LEMMA RearmedType ==
  ASSUME Scheduling, NEW row \in Occurrence, NEW t \in Targets, Open(t),
         NEW g, g.lead \in Nat
  PROVE  Rearmed(row, t, g) \in Occurrence
<1>1. schedule[t] \in 0..MaxInstant
  BY OpenInstant
<1>2. schedule[t] - g.lead \in Int
  BY <1>1, Bounds
<1>3. row.id + 1 \in Nat
  BY DEF Occurrence
<1>4. 0 \in 0..MaxDeliveries
  BY Bounds
<1>5. NewOccurrence(row.id + 1, schedule[t], g.lead) \in Occurrence
  BY <1>1, <1>2, <1>3, <1>4 DEF NewOccurrence, Occurrence
<1>6. [row EXCEPT !.due = schedule[t] - g.lead] \in Occurrence
  BY <1>2 DEF Occurrence
<1> QED
  BY <1>5, <1>6 DEF Rearmed

(* Existing rows are closed or released. *)
LEMMA ReconcileExistingTame ==
  ASSUME NEW s, StoreOK(s), NEW ts, NEW g
  PROVE  AllTame(s, ReconcileExisting(s, ts, g))
<1> DEFINE stirred == {t \in ts : Held(s, t) /\ (Over(t, g) \/ UnderOtherSettings(s, t, g))}
           safe == Resettable(s, {s.occ[t].delivery : t \in stirred})
           reset == Reset(s, safe)
           over == {t \in ts :
                 /\ Over(t, g)
                 /\ \/ s.occ[t].status = "scheduled"
                    \/ s.occ[t].status = "batched" /\ SourceOf(s, t) = "manual"
                    \/ t \in stirred /\ s.occ[t].delivery \in safe /\ First(s, stirred, t)}
           occ == [t \in Targets |-> IF t \in over THEN Closed(reset.occ[t], t) ELSE reset.occ[t]]
<1>1. AllTame(s, reset)
  BY ResetTame
<1> HIDE DEF reset, over
<1>2. \A t \in Targets : reset.occ[t] \in Occurrence
  BY <1>1 DEF AllTame, StoreOK, Store
<1>3. occ \in [Targets -> Occurrence]
  BY <1>2, ClosedType
<1>4. AllTame(reset, [reset EXCEPT !.occ = occ])
  BY <1>1, <1>3, OccurrencesTame DEF AllTame
<1>5. ReconcileExisting(s, ts, g) = [reset EXCEPT !.occ = occ]
  BY DEF ReconcileExisting, reset, over
<1> QED
  BY <1>1, <1>4, <1>5, AllTameTransitive

(* New rows are made for what has none or a stale one. *)
LEMMA MaterializeTame ==
  ASSUME Scheduling, NEW s, StoreOK(s), NEW ts, ts \subseteq Targets, NEW g, g.lead \in Nat
  PROVE  AllTame(s, Materialize(s, ts, g))
<1> DEFINE outdated == {t \in ts : Outdated(s, t, g)}
           held == {t \in outdated : Held(s, t)}
           safe == Resettable(s, {s.occ[t].delivery : t \in held})
           reset == Reset(s, safe)
           ready == {t \in outdated :
                  t \in held => /\ s.occ[t].delivery \in safe
                                /\ t \in Deadlines \/ First(s, held, t)}
           occ == [t \in Targets |-> IF t \in ready THEN Rearmed(reset.occ[t], t, g)
                                     ELSE reset.occ[t]]
<1>1. AllTame(s, reset)
  BY ResetTame
<1>2. \A t \in ready : Open(t)
  BY DEF Outdated
<1> HIDE DEF reset, ready
<1>3. \A t \in Targets : reset.occ[t] \in Occurrence
  BY <1>1 DEF AllTame, StoreOK, Store
<1>4. occ \in [Targets -> Occurrence]
  BY <1>2, <1>3, RearmedType
<1>5. AllTame(reset, [reset EXCEPT !.occ = occ])
  BY <1>1, <1>4, OccurrencesTame DEF AllTame
<1>6. Materialize(s, ts, g) = [reset EXCEPT !.occ = occ]
  BY DEF Materialize, reset, ready
<1> QED
  BY <1>1, <1>5, <1>6, AllTameTransitive

(* reconcile_prediction_reminder_occurrences *)
LEMMA ReconciledTame ==
  ASSUME Scheduling, NEW s, StoreOK(s), NEW g, g.lead \in Nat
  PROVE  AllTame(s, Reconciled(s, g))
<1> DEFINE rid == Expired(Recovered(s))
           one == ReconcileExisting(rid, Matches, g)
           old == ReconcileExisting(one, Deadlines, g)
           half == Materialize(old, Matches, g)
           new == Materialize(half, Deadlines, g)
<1>1. AllTame(s, rid)
  BY RecoveredTame, ExpiredTame, AllTameTransitive DEF AllTame
<1>2. AllTame(rid, one)
  BY <1>1, ReconcileExistingTame DEF AllTame
<1>3. AllTame(one, old)
  BY <1>2, ReconcileExistingTame DEF AllTame
<1>4. Matches \subseteq Targets /\ Deadlines \subseteq Targets
  BY DEF Targets
<1>5. AllTame(old, half)
  BY <1>3, <1>4, MaterializeTame DEF AllTame
<1>6. AllTame(half, new)
  BY <1>4, <1>5, MaterializeTame DEF AllTame
<1>7. AllTame(s, old)
  BY <1>1, <1>2, <1>3, AllTameTransitive
<1>8. AllTame(s, new)
  BY <1>5, <1>6, <1>7, AllTameTransitive
<1>9. Reconciled(s, g) \in {old, new}
  BY DEF Reconciled
<1> QED
  BY <1>7, <1>8, <1>9

-----------------------------------------------------------------------------
(* New deliveries *)

(* A new delivery takes over an id; the others stay as they are. *)
LEMMA AttachedOK ==
  ASSUME NEW s, StoreOK(s), NEW i \in Ids, NEW ts, ts \subseteq Targets,
         NEW d \in Delivery, d.parts = NoParts, d.source # "none"
  PROVE  LET q == Attached(s, i, d, ts)
         IN  /\ StoreOK(q)
             /\ \A j \in Ids : j # i => q.dels[j] = s.dels[j]
             /\ q.dels[i].parts = NoParts
             /\ q.dels[i].claim = d.claim /\ q.dels[i].source = d.source
<1> DEFINE occ == [t \in Targets |-> IF t \in ts
                               THEN [s.occ[t] EXCEPT !.status = "batched", !.delivery = i]
                               ELSE s.occ[t]]
           items == {Item(s, t) : t \in ts}
           new == [d EXCEPT !.items = items]
           dels == [s.dels EXCEPT ![i] = new]
           q == Attached(s, i, d, ts)
<1>1. \A t \in Targets : s.occ[t] \in Occurrence
  BY DEF StoreOK, Store
<1>2. i \in 0..MaxDeliveries
  BY Bounds DEF Ids
<1>3. occ \in [Targets -> Occurrence]
  BY <1>1, <1>2 DEF Occurrence
<1>4. \A t \in ts : Item(s, t) \in Targets \X Nat \X Nat
  BY <1>1, Bounds DEF Item, Occurrence
<1>5. items \in SUBSET (Targets \X Nat \X Nat)
  BY <1>4
<1>6. /\ new \in Delivery /\ new.parts = NoParts
      /\ new.claim = d.claim /\ new.source = d.source
  <2> HIDE DEF items
  <2> QED
    BY <1>5 DEF Delivery
<1>7. s.dels \in [Ids -> Delivery]
  BY DEF StoreOK, Store
<1>8. q = [occ |-> occ, dels |-> dels]
  BY Zenon DEF Attached
<1> HIDE DEF occ, new
<1>9. dels \in [Ids -> Delivery] /\ dels[i] = new /\ \A j \in Ids : j # i => dels[j] = s.dels[j]
  BY <1>6, <1>7
<1>10. q \in Store /\ q.dels = dels
  <2> HIDE DEF dels, q
  <2> QED
    BY <1>3, <1>8, <1>9 DEF Store
<1>11. DelOK(new)
  BY <1>6 DEF DelOK, Calm, NoParts
<1>12. \A j \in Ids : DelOK(dels[j])
  BY <1>9, <1>11 DEF StoreOK
<1> QED
  BY <1>6, <1>9, <1>10, <1>12 DEF StoreOK

=============================================================================
