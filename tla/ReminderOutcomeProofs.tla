------------------------ MODULE ReminderOutcomeProofs ------------------------
(* What deliveries and occurrences of ReminderWorker say of each other and of
   the parts that were sent: statuses are true, no occurrence is stranded or
   reminded of twice, and the worker implements AtMostOnceSending.  For every
   set of workers and targets and any number of deliveries and parts. *)
EXTENDS ReminderWorkerProofs, WellFoundedInduction

-----------------------------------------------------------------------------
(* The inductive invariant, of tables s of which sent was sent *)

Unsent(sent) == \A n \in Numbers : sent[n] = 0

(* What a status says of the parts *)
Told(status, parts, sent) ==
  /\ \A n \in Numbers : parts[n] = "sent" => sent[n] = 1
  /\ status \in LiveStatuses => \A n \in Numbers : parts[n] \notin {"skipped", "terminal_failed"}
  /\ status \in {"pending", "retry", "preparing"} /\ (\E n \in Numbers : parts[n] = "sent") =>
       \E n \in Numbers : parts[n] = "pending"
  /\ status = "sent" => \A n \in Numbers : parts[n] \in {"none", "sent"}
  /\ status \in {"sent", "partial"} => \E n \in Numbers : parts[n] = "sent"
  /\ status \in {"cancelled", "expired", "terminal_failed"} => Unsent(sent)

(* ... and a claim: that a worker prepares the delivery or sends it. *)
Decided(d, sent) ==
  /\ d.claim # "none" <=> d.status \in {"preparing", "sending"}
  /\ Told(d.status, d.parts, sent)

(* A delivery that reminds of its items, or still may *)
Counts(s, sent, i) == Live(s.dels[i]) \/ ~Unsent(sent[i])

(* A batched row is an item of a delivery that is under way. *)
BatchesLive(s) ==
  \A t \in Targets :
    s.occ[t].status = "batched" =>
      /\ s.occ[t].delivery \in Ids
      /\ Live(s.dels[s.occ[t].delivery])
      /\ Item(s, t) \in s.dels[s.occ[t].delivery].items

(* No item is ahead of the row of its target. *)
ItemsPast(s) ==
  \A i \in Ids : \A a \in s.dels[i].items : a[2] <= s.occ[a[1]].id

(* No two deliveries that count share an item, *)
OneEach(s, sent) ==
  \A i, j \in Ids :
    i # j /\ Counts(s, sent, i) /\ Counts(s, sent, j) =>
      s.dels[i].items \cap s.dels[j].items = {}

(* and none has a row that is still scheduled. *)
Fresh(s, sent) ==
  \A t \in Targets, i \in Ids :
    s.occ[t].status = "scheduled" /\ Counts(s, sent, i) => Item(s, t) \notin s.dels[i].items

(* An automatic delivery under way holds all its rows, as they were. *)
AutoHolds(s) ==
  \A i \in Ids :
    Live(s.dels[i]) /\ s.dels[i].source = "auto" =>
      \A a \in s.dels[i].items :
        Batched(s, a[1], i) /\ Item(s, a[1]) = a /\ a[3] = s.dels[i].expires

Consistent(s, sent) ==
  /\ \A i \in Ids : Decided(s.dels[i], sent[i])
  /\ BatchesLive(s)
  /\ ItemsPast(s)
  /\ OneEach(s, sent)
  /\ Fresh(s, sent)
  /\ AutoHolds(s)

Sound(s, sent) ==
  /\ StoreOK(s)
  /\ \A i \in Ids : RowOK(s.dels[i], sent[i])
  /\ Consistent(s, sent)

-----------------------------------------------------------------------------
(* Settling *)

(* A fate that says the truth of a delivery d under way, and gives rows back
   only when nothing of it was sent *)
EndOK(d, sent, f) ==
  /\ Live(d)
  /\ f.delivery \notin {"preparing", "sending"}
  /\ Told(f.delivery, f.parts, sent)
  /\ f.occurrence = "batched" <=> f.delivery \in LiveStatuses
  /\ f.occurrence = "scheduled" => Unsent(sent)

LEMMA SettledRows ==
  ASSUME NEW s \in Store, NEW fate, NEW t \in Targets
  PROVE  LET q == Settled(s, fate)
             row == s.occ[t]
         IN  /\ q.occ[t].id = row.id /\ q.occ[t].observed = row.observed
             /\ IF row.status = "batched" /\ row.delivery \in DOMAIN fate
                THEN /\ q.occ[t].status = fate[row.delivery].occurrence
                     /\ q.occ[t].status # "scheduled" => q.occ[t].delivery = row.delivery
                ELSE q.occ[t] = row
<1> DEFINE row == s.occ[t]
           status == fate[row.delivery].occurrence
           delivery == IF status = "scheduled" THEN 0 ELSE row.delivery
<1>1. row \in Occurrence
  BY DEF Store
<1>2. Settled(s, fate).occ[t] =
        IF row.status = "batched" /\ row.delivery \in DOMAIN fate
        THEN [row EXCEPT !.status = status, !.delivery = delivery] ELSE row
  BY Zenon DEF Settled
<1>3. CASE row.status = "batched" /\ row.delivery \in DOMAIN fate
  <2> DEFINE next == [row EXCEPT !.status = status, !.delivery = delivery]
  <2>1. next.id = row.id /\ next.observed = row.observed /\ next.status = status
        /\ next.delivery = delivery
    <3> HIDE DEF row, status, delivery
    <3> QED
      BY <1>1 DEF Occurrence
  <2> QED
    BY <1>2, <1>3, <2>1
<1>4. CASE ~(row.status = "batched" /\ row.delivery \in DOMAIN fate)
  BY <1>2, <1>4
<1> QED
  BY <1>3, <1>4

LEMMA SettledConsistent ==
  ASSUME NEW s, NEW sent, StoreOK(s), Consistent(s, sent),
         NEW fate, DOMAIN fate \subseteq Ids,
         \A i \in DOMAIN fate : FateOK(fate[i]) /\ EndOK(s.dels[i], sent[i], fate[i])
  PROVE  Consistent(Settled(s, fate), sent)
<1> DEFINE q == Settled(s, fate)
           Touched(t) == s.occ[t].status = "batched" /\ s.occ[t].delivery \in DOMAIN fate
<1>1. s \in Store /\ \A i \in Ids : s.dels[i] \in Delivery
  BY DEF StoreOK, DelOK
<1>2. \A i \in Ids : q.dels[i] =
        IF i \in DOMAIN fate THEN SettledDelivery(s.dels[i], fate[i]) ELSE s.dels[i]
  BY <1>1, SettledTypes
<1>3. ASSUME NEW i \in Ids
      PROVE  /\ q.dels[i].items = s.dels[i].items /\ q.dels[i].source = s.dels[i].source
             /\ q.dels[i].expires = s.dels[i].expires
             /\ i \in DOMAIN fate => /\ q.dels[i].status = fate[i].delivery
                                     /\ q.dels[i].parts = fate[i].parts
                                     /\ q.dels[i].claim = "none"
             /\ i \notin DOMAIN fate => q.dels[i] = s.dels[i]
  BY <1>1, <1>2 DEF SettledDelivery, Delivery
<1>4. ASSUME NEW t \in Targets
      PROVE  /\ q.occ[t].id = s.occ[t].id /\ Item(q, t) = Item(s, t)
             /\ Touched(t) => /\ q.occ[t].status = fate[s.occ[t].delivery].occurrence
                              /\ q.occ[t].status # "scheduled" =>
                                   q.occ[t].delivery = s.occ[t].delivery
             /\ ~Touched(t) => q.occ[t] = s.occ[t]
  BY <1>1, SettledRows DEF Item
<1> HIDE DEF q
<1>5. ASSUME NEW i \in Ids PROVE Live(q.dels[i]) => Live(s.dels[i])
  BY <1>3 DEF EndOK, Live
<1>6. ASSUME NEW i \in Ids PROVE Counts(q, sent, i) => Counts(s, sent, i)
  BY <1>5 DEF Counts
<1>7. ASSUME NEW i \in Ids PROVE Decided(q.dels[i], sent[i])
  BY <1>3 DEF Decided, EndOK, Consistent
<1>8. BatchesLive(q)
  <2> SUFFICES ASSUME NEW t \in Targets, q.occ[t].status = "batched"
               PROVE  /\ q.occ[t].delivery \in Ids
                      /\ Live(q.dels[q.occ[t].delivery])
                      /\ Item(q, t) \in q.dels[q.occ[t].delivery].items
    BY DEF BatchesLive
  <2>1. /\ s.occ[t].status = "batched" /\ q.occ[t].delivery = s.occ[t].delivery
        /\ s.occ[t].delivery \in Ids
        /\ Live(s.dels[s.occ[t].delivery])
        /\ Item(s, t) \in s.dels[s.occ[t].delivery].items
    BY <1>4 DEF Consistent, BatchesLive
  <2>2. Live(q.dels[s.occ[t].delivery])
    BY <1>3, <1>4, <2>1 DEF EndOK, Live
  <2> QED
    BY <1>3, <1>4, <2>1, <2>2
<1>9. ItemsPast(q)
  <2> SUFFICES ASSUME NEW i \in Ids, NEW a \in q.dels[i].items PROVE a[2] <= q.occ[a[1]].id
    BY DEF ItemsPast
  <2>1. a \in s.dels[i].items /\ a[1] \in Targets
    BY <1>1, <1>3 DEF Delivery
  <2> QED
    BY <1>4, <2>1 DEF Consistent, ItemsPast
<1>10. OneEach(q, sent)
  BY <1>3, <1>6 DEF Consistent, OneEach
<1>11. Fresh(q, sent)
  <2> SUFFICES ASSUME NEW t \in Targets, NEW i \in Ids, q.occ[t].status = "scheduled",
                      Counts(q, sent, i), Item(q, t) \in q.dels[i].items
               PROVE  FALSE
    BY DEF Fresh
  <2>1. Item(s, t) \in s.dels[i].items /\ Counts(s, sent, i)
    BY <1>3, <1>4, <1>6
  <2>2. CASE ~Touched(t)
    BY <1>4, <2>1, <2>2 DEF Consistent, Fresh
  <2>3. CASE Touched(t)
    <3> DEFINE k == s.occ[t].delivery
    <3>1. k \in Ids /\ k \in DOMAIN fate /\ fate[k].occurrence = "scheduled"
          /\ Item(s, t) \in s.dels[k].items
      BY <1>4, <2>3 DEF Consistent, BatchesLive
    <3>2. Live(s.dels[k]) /\ ~Counts(q, sent, k)
      BY <1>3, <3>1 DEF EndOK, Counts, Live
    <3>3. i # k /\ Counts(s, sent, k)
      BY <3>2 DEF Counts
    <3> QED
      BY <2>1, <3>1, <3>3 DEF Consistent, OneEach
  <2> QED
    BY <2>2, <2>3
<1>12. AutoHolds(q)
  <2> SUFFICES ASSUME NEW i \in Ids, Live(q.dels[i]), q.dels[i].source = "auto",
                      NEW a \in q.dels[i].items
               PROVE  Batched(q, a[1], i) /\ Item(q, a[1]) = a /\ a[3] = q.dels[i].expires
    BY DEF AutoHolds
  <2>1. a \in s.dels[i].items /\ a[1] \in Targets /\ Live(s.dels[i]) /\ s.dels[i].source = "auto"
    BY <1>1, <1>3, <1>5 DEF Delivery
  <2>2. Batched(s, a[1], i) /\ Item(s, a[1]) = a /\ a[3] = s.dels[i].expires
    BY <2>1 DEF Consistent, AutoHolds
  <2>3. Batched(q, a[1], i)
    BY <1>3, <1>4, <2>1, <2>2 DEF Batched, EndOK, Live
  <2> QED
    BY <1>3, <1>4, <2>1, <2>2, <2>3
<1> QED
  BY <1>7, <1>8, <1>9, <1>10, <1>11, <1>12 DEF Consistent, q

(* Tame statements keep what was sent in step with the parts. *)
LEMMA TameRows ==
  ASSUME NEW s, NEW q, NEW sent, AllTame(s, q), \A i \in Ids : RowOK(s.dels[i], sent[i])
  PROVE  \A i \in Ids : RowOK(q.dels[i], sent[i])
BY DEF AllTame, RowOK, Tame, PartStep

(* ... and settling keeps the tables sound. *)
LEMMA SettledSound ==
  ASSUME NEW s, NEW sent, Sound(s, sent), NEW fate, DOMAIN fate \subseteq Ids,
         \A i \in DOMAIN fate : TameFate(s.dels[i], fate[i]) /\ EndOK(s.dels[i], sent[i], fate[i])
  PROVE  Sound(Settled(s, fate), sent)
<1>1. \A i \in DOMAIN fate : s.dels[i].status # "none" /\ FateOK(fate[i])
  BY DEF EndOK, Live, LiveStatuses, TameFate
<1>2. AllTame(s, Settled(s, fate))
  BY <1>1, SettledTame DEF Sound
<1>3. Consistent(Settled(s, fate), sent)
  BY <1>1, SettledConsistent DEF Sound
<1> QED
  BY <1>2, <1>3, TameRows DEF Sound, AllTame

-----------------------------------------------------------------------------
(* Statements on rows that no automatic delivery holds *)

(* A row is closed, replaced by a later one, or gets another due date. *)
RowStep(row, next) ==
  \/ next = row
  \/ next.id = row.id /\ next.status \notin {"batched", "scheduled"}
  \/ next.id = row.id + 1 /\ next.status = "scheduled"
  \/ /\ next.id = row.id /\ next.observed = row.observed
     /\ next.status = row.status /\ next.delivery = row.delivery

LEMMA RowsSound ==
  ASSUME NEW s, NEW sent, Sound(s, sent), NEW occ \in [Targets -> Occurrence],
         \A t \in Targets : occ[t] = s.occ[t] \/ (~Held(s, t) /\ RowStep(s.occ[t], occ[t]))
  PROVE  Sound([s EXCEPT !.occ = occ], sent)
<1> DEFINE q == [s EXCEPT !.occ = occ]
<1>1. s \in Store /\ \A i \in Ids : s.dels[i] \in Delivery
  BY DEF Sound, StoreOK, DelOK
<1>2. q.occ = occ /\ q.dels = s.dels
  BY <1>1 DEF Store
<1>3. AllTame(s, q)
  BY OccurrencesTame DEF Sound
<1> HIDE DEF q
<1>4. ASSUME NEW t \in Targets
      PROVE  /\ s.occ[t].id \in Nat /\ q.occ[t].id \in Nat /\ s.occ[t].id <= q.occ[t].id
             /\ RowStep(s.occ[t], q.occ[t])
  <2>1. s.occ[t] \in Occurrence /\ q.occ[t] \in Occurrence
    BY <1>1, <1>2 DEF Store
  <2>2. s.occ[t].id \in Nat /\ q.occ[t].id \in Nat
    BY <2>1 DEF Occurrence
  <2>3. RowStep(s.occ[t], q.occ[t])
    BY <1>2 DEF RowStep
  <2> QED
    BY <2>2, <2>3 DEF RowStep
<1>5. ASSUME NEW t \in Targets, q.occ[t].status \in {"batched", "scheduled"},
             q.occ[t].id = s.occ[t].id
      PROVE  Item(q, t) = Item(s, t) /\ q.occ[t].status = s.occ[t].status
             /\ q.occ[t].delivery = s.occ[t].delivery
  BY <1>4, <1>5 DEF RowStep, Item
<1>6. ASSUME NEW i \in Ids, NEW a \in q.dels[i].items
      PROVE  a[1] \in Targets /\ a[2] \in Nat /\ a[2] <= s.occ[a[1]].id
  <2>1. a[1] \in Targets /\ a[2] \in Nat
    BY <1>1, <1>2 DEF Delivery
  <2> QED
    BY <1>2, <2>1 DEF Sound, Consistent, ItemsPast
<1>7. BatchesLive(q)
  <2> SUFFICES ASSUME NEW t \in Targets, q.occ[t].status = "batched"
               PROVE  /\ q.occ[t].delivery \in Ids
                      /\ Live(q.dels[q.occ[t].delivery])
                      /\ Item(q, t) \in q.dels[q.occ[t].delivery].items
    BY DEF BatchesLive
  <2>1. q.occ[t].id = s.occ[t].id
    BY <1>4 DEF RowStep
  <2> QED
    BY <1>2, <1>5, <2>1 DEF Sound, Consistent, BatchesLive
<1>8. ItemsPast(q)
  BY <1>4, <1>6 DEF ItemsPast
<1>9. OneEach(q, sent)
  BY <1>2 DEF Sound, Consistent, OneEach, Counts
<1>10. Fresh(q, sent)
  <2> SUFFICES ASSUME NEW t \in Targets, NEW i \in Ids, q.occ[t].status = "scheduled",
                      Counts(q, sent, i), Item(q, t) \in q.dels[i].items
               PROVE  FALSE
    BY DEF Fresh
  <2>1. q.occ[t].id <= s.occ[t].id
    BY <1>6 DEF Item
  <2>2. q.occ[t].id = s.occ[t].id
    BY <1>4, <2>1
  <2> QED
    BY <1>2, <1>5, <2>2 DEF Sound, Consistent, Fresh, Counts
<1>11. AutoHolds(q)
  <2> SUFFICES ASSUME NEW i \in Ids, Live(q.dels[i]), q.dels[i].source = "auto",
                      NEW a \in q.dels[i].items
               PROVE  Batched(q, a[1], i) /\ Item(q, a[1]) = a /\ a[3] = q.dels[i].expires
    BY DEF AutoHolds
  <2>1. Batched(s, a[1], i) /\ Item(s, a[1]) = a /\ a[3] = s.dels[i].expires
    BY <1>2 DEF Sound, Consistent, AutoHolds
  <2>2. Held(s, a[1])
    BY <1>2, <2>1 DEF Held, SourceOf, Batched
  <2>3. q.occ[a[1]] = s.occ[a[1]]
    BY <1>2, <1>6, <2>2
  <2> QED
    BY <1>2, <2>1, <2>3 DEF Batched, Item
<1>12. \A i \in Ids : Decided(q.dels[i], sent[i])
  BY <1>2 DEF Sound, Consistent
<1> QED
  BY <1>3, <1>7, <1>8, <1>9, <1>10, <1>11, <1>12, TameRows
     DEF Sound, Consistent, AllTame, q

-----------------------------------------------------------------------------
(* A new delivery of rows that are scheduled *)

LEMMA AttachedSound ==
  ASSUME NEW s, NEW sent, Sound(s, sent), NEW i \in Ids, s.dels[i].source = "none",
         NEW ts, ts \subseteq Targets, \A t \in ts : s.occ[t].status = "scheduled",
         NEW d \in Delivery, d.parts = NoParts, d.source # "none", Live(d),
         d.claim # "none" <=> d.status \in {"preparing", "sending"},
         d.source = "auto" => \A t \in ts : s.occ[t].observed = d.expires
  PROVE  Sound(Attached(s, i, d, ts), sent)
<1> DEFINE q == Attached(s, i, d, ts)
           new == [d EXCEPT !.items = {Item(s, t) : t \in ts}]
<1>1. s \in Store /\ \A j \in Ids : s.dels[j] \in Delivery /\ DelOK(s.dels[j])
  BY DEF Sound, StoreOK, DelOK
<1>2. /\ StoreOK(q) /\ \A j \in Ids : j # i => q.dels[j] = s.dels[j]
      /\ q.dels[i].parts = NoParts /\ q.dels[i].claim = d.claim /\ q.dels[i].source = d.source
  BY AttachedOK DEF Sound
<1>3. q.dels[i] = new
  BY <1>1, Zenon DEF Attached, Store
<1>4. /\ new.items = {Item(s, t) : t \in ts} /\ new.status = d.status
      /\ new.expires = d.expires
  <2> DEFINE items == {Item(s, t) : t \in ts}
  <2> HIDE DEF items
  <2>1. [d EXCEPT !.items = items].items = items
        /\ [d EXCEPT !.items = items].status = d.status
        /\ [d EXCEPT !.items = items].expires = d.expires
    BY DEF Delivery
  <2> QED
    BY <2>1 DEF items
<1>5. ASSUME NEW t \in Targets
      PROVE  /\ q.occ[t].id = s.occ[t].id /\ q.occ[t].observed = s.occ[t].observed
             /\ t \in ts => q.occ[t].status = "batched" /\ q.occ[t].delivery = i
             /\ t \notin ts => q.occ[t] = s.occ[t]
  <2>1. q.occ[t] = IF t \in ts THEN [s.occ[t] EXCEPT !.status = "batched", !.delivery = i]
                   ELSE s.occ[t]
    BY Zenon DEF Attached
  <2>2. s.occ[t] \in Occurrence
    BY <1>1 DEF Store
  <2> QED
    BY <2>1, <2>2 DEF Occurrence
<1>6. ASSUME NEW t \in Targets PROVE Item(q, t) = Item(s, t)
  BY <1>5 DEF Item
<1> HIDE DEF q, new
<1>7. \A n \in Numbers : s.dels[i].parts[n] = "none" /\ q.dels[i].parts[n] = "none"
  BY <1>1, <1>2 DEF DelOK, NoParts
<1>8. Unsent(sent[i]) /\ ~Counts(s, sent, i) /\ RowOK(q.dels[i], sent[i])
  <2>1. Unsent(sent[i])
    BY <1>7 DEF Unsent, Sound, RowOK
  <2>2. ~Live(s.dels[i])
    BY <1>1 DEF DelOK, Live, LiveStatuses
  <2> QED
    BY <1>7, <2>1, <2>2 DEF Counts, RowOK, Unsent
<1>9. q.dels[i].items = {Item(s, t) : t \in ts} /\ q.dels[i].expires = d.expires
      /\ q.dels[i].status = d.status /\ Live(q.dels[i])
  BY <1>3, <1>4 DEF Live
<1>10. ASSUME NEW a, a \in q.dels[i].items PROVE \E t \in ts : a = Item(s, t)
  BY <1>9, <1>10
<1>11. ASSUME NEW j \in Ids, j # i, Counts(q, sent, j) PROVE Counts(s, sent, j)
  BY <1>2, <1>11 DEF Counts
<1>12. ASSUME NEW j \in Ids, j # i, Counts(q, sent, j)
       PROVE  q.dels[i].items \cap q.dels[j].items = {}
  BY <1>2, <1>10, <1>11, <1>12 DEF Sound, Consistent, Fresh
<1>13. \A j \in Ids : Decided(q.dels[j], sent[j])
  <2>1. Decided(q.dels[i], sent[i])
    BY <1>2, <1>7, <1>9 DEF Decided, Told, Live, LiveStatuses
  <2>2. ASSUME NEW j \in Ids, j # i PROVE Decided(q.dels[j], sent[j])
    BY <1>2, <2>2 DEF Sound, Consistent
  <2> QED
    BY <2>1, <2>2
<1>14. BatchesLive(q)
  <2> SUFFICES ASSUME NEW t \in Targets, q.occ[t].status = "batched"
               PROVE  /\ q.occ[t].delivery \in Ids
                      /\ Live(q.dels[q.occ[t].delivery])
                      /\ Item(q, t) \in q.dels[q.occ[t].delivery].items
    BY DEF BatchesLive
  <2>1. CASE t \in ts
    BY <1>5, <1>6, <1>9, <2>1
  <2>2. CASE t \notin ts
    <3>1. /\ s.occ[t].delivery \in Ids /\ Live(s.dels[s.occ[t].delivery])
          /\ Item(s, t) \in s.dels[s.occ[t].delivery].items /\ q.occ[t] = s.occ[t]
      BY <1>5, <2>2 DEF Sound, Consistent, BatchesLive
    <3>2. s.occ[t].delivery # i
      BY <1>8, <3>1 DEF Counts
    <3> QED
      BY <1>2, <1>6, <3>1, <3>2
  <2> QED
    BY <2>1, <2>2
<1>15. ItemsPast(q)
  <2> SUFFICES ASSUME NEW j \in Ids, NEW a \in q.dels[j].items PROVE a[2] <= q.occ[a[1]].id
    BY DEF ItemsPast
  <2>1. CASE j = i
    <3>1. PICK t \in ts : a = Item(s, t)
      BY <1>10, <2>1
    <3>2. s.occ[t].id \in Nat
      BY <1>1 DEF Store, Occurrence
    <3> QED
      BY <1>5, <3>1, <3>2 DEF Item
  <2>2. CASE j # i
    <3>1. a \in s.dels[j].items /\ a[1] \in Targets
      BY <1>1, <1>2, <2>2 DEF Delivery
    <3> QED
      BY <1>5, <3>1 DEF Sound, Consistent, ItemsPast
  <2> QED
    BY <2>1, <2>2
<1>16. OneEach(q, sent)
  <2> SUFFICES ASSUME NEW j \in Ids, NEW k \in Ids, j # k, Counts(q, sent, j), Counts(q, sent, k)
               PROVE  q.dels[j].items \cap q.dels[k].items = {}
    BY DEF OneEach
  <2>1. CASE j # i /\ k # i
    BY <1>2, <1>11, <2>1 DEF Sound, Consistent, OneEach
  <2>2. CASE j = i \/ k = i
    BY <1>12, <2>2
  <2> QED
    BY <2>1, <2>2
<1>17. Fresh(q, sent)
  <2> SUFFICES ASSUME NEW t \in Targets, NEW j \in Ids, q.occ[t].status = "scheduled",
                      Counts(q, sent, j), Item(q, t) \in q.dels[j].items
               PROVE  FALSE
    BY DEF Fresh
  <2>1. t \notin ts /\ s.occ[t].status = "scheduled" /\ Item(q, t) = Item(s, t)
    BY <1>5, <1>6
  <2>2. CASE j = i
    <3>1. PICK u \in ts : Item(s, t) = Item(s, u)
      BY <1>10, <2>1, <2>2
    <3> QED
      BY <2>1, <3>1 DEF Item
  <2>3. CASE j # i
    BY <1>2, <1>11, <2>1, <2>3 DEF Sound, Consistent, Fresh
  <2> QED
    BY <2>2, <2>3
<1>18. AutoHolds(q)
  <2> SUFFICES ASSUME NEW j \in Ids, Live(q.dels[j]), q.dels[j].source = "auto",
                      NEW a \in q.dels[j].items
               PROVE  Batched(q, a[1], j) /\ Item(q, a[1]) = a /\ a[3] = q.dels[j].expires
    BY DEF AutoHolds
  <2>1. CASE j = i
    <3>1. PICK t \in ts : a = Item(s, t)
      BY <1>10, <2>1
    <3>2. a[1] = t /\ a[3] = s.occ[t].observed
      BY <3>1 DEF Item
    <3> QED
      BY <1>2, <1>5, <1>6, <1>9, <2>1, <3>1, <3>2 DEF Batched
  <2>2. CASE j # i
    <3>1. a \in s.dels[j].items /\ a[1] \in Targets
      BY <1>1, <1>2, <2>2 DEF Delivery
    <3>2. Batched(s, a[1], j) /\ Item(s, a[1]) = a /\ a[3] = s.dels[j].expires
      BY <1>2, <2>2, <3>1 DEF Sound, Consistent, AutoHolds
    <3>3. a[1] \notin ts
      BY <3>2 DEF Batched
    <3> QED
      BY <1>2, <1>5, <1>6, <2>2, <3>1, <3>2, <3>3 DEF Batched
  <2> QED
    BY <2>1, <2>2
<1>19. ASSUME NEW j \in Ids PROVE RowOK(q.dels[j], sent[j])
  BY <1>2, <1>8 DEF Sound
<1> QED
  BY <1>2, <1>13, <1>14, <1>15, <1>16, <1>17, <1>18, <1>19 DEF Sound, Consistent, q

-----------------------------------------------------------------------------
(* The fates say the truth *)

(* What was neither begun nor sent did not arrive. *)
LEMMA NothingSent ==
  ASSUME NEW d, NEW sent, RowOK(d, sent), Calm(d.parts), ~Has(d, {"sent"})
  PROVE  Unsent(sent)
BY DEF RowOK, Calm, Has, Unsent

(* A delivery under way, in step with what was sent of it *)
UnderWay(d, sent) == DelOK(d) /\ RowOK(d, sent) /\ Decided(d, sent) /\ Live(d)

LEMMA AmbiguousEnd ==
  ASSUME NEW d, NEW sent, UnderWay(d, sent)
  PROVE  EndOK(d, sent, AmbiguousFate(d))
<1>1. d \in Delivery /\ "sending" \in PartStatuses /\ "unknown" \in PartStatuses
  BY DEF UnderWay, DelOK, PartStatuses
<1>2. \A n \in Numbers : Becoming(d, "sending", "unknown")[n] =
                          IF d.parts[n] = "sending" THEN "unknown" ELSE d.parts[n]
  BY <1>1, BecomingParts
<1> QED
  BY <1>2 DEF EndOK, UnderWay, Decided, Told, AmbiguousFate, Fate, LiveStatuses

LEMMA PartialEnd ==
  ASSUME NEW d, NEW sent, UnderWay(d, sent), Has(d, {"sent"})
  PROVE  EndOK(d, sent, PartialFate(d))
<1>1. d \in Delivery /\ "pending" \in PartStatuses /\ "skipped" \in PartStatuses
  BY DEF UnderWay, DelOK, PartStatuses
<1>2. \A n \in Numbers : Becoming(d, "pending", "skipped")[n] =
                          IF d.parts[n] = "pending" THEN "skipped" ELSE d.parts[n]
  BY <1>1, BecomingParts
<1> QED
  BY <1>2 DEF EndOK, UnderWay, Decided, Told, PartialFate, Fate, LiveStatuses, Has

LEMMA SentEnd ==
  ASSUME NEW d, NEW sent, UnderWay(d, sent), Has(d, {"sent"}),
         \A n \in Numbers : d.parts[n] \in {"none", "sent"}
  PROVE  EndOK(d, sent, Fate("sent", "sent", d.parts))
BY DEF EndOK, UnderWay, Decided, Told, Fate, LiveStatuses, Has

(* Of a delivery under way no part was skipped. *)
LEMMA WholeParts ==
  ASSUME NEW d, NEW sent, UnderWay(d, sent), Whole(d)
  PROVE  \A n \in Numbers : d.parts[n] \in {"none", "sent"}
BY DEF UnderWay, Decided, Told, Live, Whole

LEMMA UnsentEnd ==
  ASSUME NEW d, NEW sent, UnderWay(d, sent), Unsent(sent),
         NEW status \in {"cancelled", "expired", "terminal_failed"},
         NEW occurrence \in OccurrenceStatuses \ {"batched"}
  PROVE  EndOK(d, sent, Fate(status, occurrence, d.parts))
BY DEF EndOK, UnderWay, Decided, Told, Fate, LiveStatuses, Unsent

LEMMA RecoveryEnd ==
  ASSUME NEW d, NEW sent, UnderWay(d, sent)
  PROVE  EndOK(d, sent, RecoveryFate(d))
<1>1. CASE Ambiguous(d)
  BY <1>1, AmbiguousEnd DEF RecoveryFate, Begun
<1>2. CASE ~Ambiguous(d) /\ Begun(d) /\ Whole(d)
  BY <1>2, WholeParts, SentEnd DEF RecoveryFate, Begun
<1>3. CASE ~Ambiguous(d) /\ Begun(d) /\ ~Whole(d) /\ d.expires <= now
  BY <1>3, PartialEnd DEF RecoveryFate, Begun
<1>4. CASE ~Ambiguous(d) /\ ~(Begun(d) /\ (Whole(d) \/ d.expires <= now))
  <2>1. RecoveryFate(d) = Fate("retry", "batched", d.parts)
    BY <1>4 DEF RecoveryFate
  <2>2. (\E n \in Numbers : d.parts[n] = "sent") => \E n \in Numbers : d.parts[n] = "pending"
    <3>1. d.parts \in [Numbers -> PartStatuses]
      BY DEF UnderWay, DelOK, Delivery
    <3>2. \A n \in Numbers : d.parts[n] \notin {"skipped", "terminal_failed"}
      BY DEF UnderWay, Decided, Told, Live
    <3> QED
      BY <1>4, <3>1, <3>2 DEF Begun, Whole, Ambiguous, Has, PartStatuses
  <2>3. EndOK(d, sent, Fate("retry", "batched", d.parts))
    BY <2>2 DEF EndOK, UnderWay, Decided, Told, Fate, LiveStatuses, Live
  <2> QED
    BY <2>1, <2>3
<1> QED
  BY <1>1, <1>2, <1>3, <1>4

LEMMA ExpiryEnd ==
  ASSUME NEW d, NEW sent, UnderWay(d, sent), d.status \in {"pending", "retry"}
  PROVE  EndOK(d, sent, ExpiryFate(d))
<1>1. CASE Has(d, {"sent"})
  BY <1>1, PartialEnd DEF ExpiryFate
<1>2. CASE ~Has(d, {"sent"})
  <2>1. Unsent(sent)
    BY <1>2, NothingSent DEF UnderWay, DelOK
  <2>2. IfManual(d, "scheduled", "expired") \in OccurrenceStatuses \ {"batched"}
    BY DEF IfManual, OccurrenceStatuses
  <2> QED
    BY <1>2, <2>1, <2>2, UnsentEnd DEF ExpiryFate
<1> QED
  BY <1>1, <1>2

LEMMA StaleEnd ==
  ASSUME NEW d, NEW sent, UnderWay(d, sent)
  PROVE  EndOK(d, sent, StaleFate(d))
<1>1. CASE Ambiguous(d)
  BY <1>1, AmbiguousEnd DEF StaleFate, Begun
<1>2. CASE Begun(d) /\ Has(d, {"pending", "skipped", "terminal_failed"})
  BY <1>2, PartialEnd DEF StaleFate, Begun
<1>3. CASE Begun(d) /\ ~Has(d, {"pending", "skipped", "terminal_failed"})
  <2>1. \A n \in Numbers : d.parts[n] \in {"none", "sent"}
    <3>1. d.parts \in [Numbers -> PartStatuses]
      BY DEF UnderWay, DelOK, Delivery
    <3> QED
      BY <1>3, <3>1 DEF Begun, Ambiguous, Has, PartStatuses
  <2> QED
    BY <1>3, <2>1, SentEnd DEF StaleFate, Begun
<1>4. CASE ~Ambiguous(d) /\ ~Begun(d)
  <2>1. Unsent(sent)
    BY <1>4, NothingSent, CalmIsUnambiguous DEF UnderWay, Begun
  <2>2. /\ IfManual(d, "scheduled", "expired") \in OccurrenceStatuses \ {"batched"}
        /\ "scheduled" \in OccurrenceStatuses \ {"batched"}
    BY DEF IfManual, OccurrenceStatuses
  <2>3. StaleFate(d) \in {Fate("expired", IfManual(d, "scheduled", "expired"), d.parts),
                          Fate("cancelled", "scheduled", d.parts)}
    BY <1>4 DEF StaleFate
  <2> QED
    BY <2>1, <2>2, <2>3, UnsentEnd
<1> QED
  BY <1>1, <1>2, <1>3, <1>4 DEF Begun

LEMMA ResetEnd ==
  ASSUME NEW d, NEW sent, UnderWay(d, sent), SafeToReset(d)
  PROVE  EndOK(d, sent, Fate("cancelled", "scheduled", d.parts))
<1>1. Unsent(sent)
  BY DEF UnderWay, RowOK, SafeToReset, Has, Unsent
<1> QED
  BY <1>1, UnsentEnd DEF OccurrenceStatuses

-----------------------------------------------------------------------------
(* The statements that settle several deliveries, and reconciliation *)

LEMMA SoundUnderWay ==
  ASSUME NEW s, NEW sent, Sound(s, sent), NEW i \in Ids, Live(s.dels[i])
  PROVE  UnderWay(s.dels[i], sent[i])
BY DEF Sound, StoreOK, Consistent, UnderWay

LEMMA RecoveredSound ==
  ASSUME NEW s, NEW sent, Sound(s, sent) PROVE Sound(Recovered(s), sent)
<1> DEFINE abandoned == {i \in Ids : /\ s.dels[i].claim # "none" /\ s.dels[i].lease <= now
                                     /\ s.dels[i].status \in {"preparing", "sending"}}
           fate == [i \in abandoned |-> RecoveryFate(s.dels[i])]
<1>1. ASSUME NEW i \in abandoned
      PROVE  TameFate(s.dels[i], fate[i]) /\ EndOK(s.dels[i], sent[i], fate[i])
  <2>1. UnderWay(s.dels[i], sent[i])
    BY SoundUnderWay DEF Live, LiveStatuses
  <2> QED
    BY <2>1, RecoveryTame, RecoveryEnd DEF UnderWay, DelOK
<1>2. DOMAIN fate \subseteq Ids /\ DOMAIN fate = abandoned
  OBVIOUS
<1>3. Recovered(s) = Settled(s, fate)
  BY DEF Recovered
<1> HIDE DEF fate, abandoned
<1> QED
  BY <1>1, <1>2, <1>3, SettledSound

LEMMA ExpiredSound ==
  ASSUME NEW s, NEW sent, Sound(s, sent) PROVE Sound(Expired(s), sent)
<1> DEFINE overdue == {i \in Ids : /\ s.dels[i].status \in {"pending", "retry"}
                                   /\ s.dels[i].claim = "none" /\ s.dels[i].expires <= now}
           fate == [i \in overdue |-> ExpiryFate(s.dels[i])]
<1>1. ASSUME NEW i \in overdue
      PROVE  TameFate(s.dels[i], fate[i]) /\ EndOK(s.dels[i], sent[i], fate[i])
  <2>1. UnderWay(s.dels[i], sent[i])
    BY SoundUnderWay DEF Live, LiveStatuses
  <2> QED
    BY <2>1, ExpiryTame, ExpiryEnd DEF UnderWay, DelOK
<1>2. DOMAIN fate \subseteq Ids /\ DOMAIN fate = overdue
  OBVIOUS
<1>3. Expired(s) = Settled(s, fate)
  BY DEF Expired
<1> HIDE DEF fate, overdue
<1> QED
  BY <1>1, <1>2, <1>3, SettledSound

LEMMA ResetSound ==
  ASSUME NEW s, NEW sent, Sound(s, sent), NEW is
  PROVE  Sound(Reset(s, is), sent)
<1> DEFINE safe == Resettable(s, is)
           fate == [i \in safe |-> Fate("cancelled", "scheduled", s.dels[i].parts)]
<1>1. ASSUME NEW i \in safe
      PROVE  TameFate(s.dels[i], fate[i]) /\ EndOK(s.dels[i], sent[i], fate[i])
  <2>1. i \in Ids /\ SafeToReset(s.dels[i])
    BY DEF Resettable
  <2>2. UnderWay(s.dels[i], sent[i])
    BY <2>1, SoundUnderWay DEF SafeToReset
  <2>3. s.dels[i] \in Delivery /\ "cancelled" \in DeliveryStatuses
        /\ "scheduled" \in OccurrenceStatuses
    BY <2>2 DEF UnderWay, DelOK, DeliveryStatuses, OccurrenceStatuses
  <2> QED
    BY <2>1, <2>2, <2>3, SamePartsTame, ResetEnd
<1>2. DOMAIN fate \subseteq Ids /\ DOMAIN fate = safe
  BY DEF Resettable
<1>3. Reset(s, is) = Settled(s, fate)
  BY DEF Reset
<1> HIDE DEF fate, safe
<1> QED
  BY <1>1, <1>2, <1>3, SettledSound

(* After a reset no automatic delivery holds what it did not hold, or held for
   a delivery that was safe to reset. *)
LEMMA ResetReleases ==
  ASSUME NEW s, NEW sent, Sound(s, sent), NEW is, NEW t \in Targets,
         ~Held(s, t) \/ s.occ[t].delivery \in Resettable(s, is)
  PROVE  ~Held(Reset(s, Resettable(s, is)), t)
<1> DEFINE safe == Resettable(s, is)
           fate == [i \in Resettable(s, safe) |-> Fate("cancelled", "scheduled", s.dels[i].parts)]
           q == Reset(s, safe)
<1>1. Resettable(s, safe) = safe
  BY DEF Resettable
<1>2. q = Settled(s, fate) /\ DOMAIN fate = safe
  BY <1>1 DEF Reset
<1>3. \A i \in safe : fate[i].occurrence = "scheduled"
  BY <1>1 DEF Fate
<1>4. \A i \in Ids : q.dels[i].source = s.dels[i].source
  BY ResetTame DEF Sound, AllTame, Tame
<1>5. s \in Store
  BY DEF Sound, StoreOK
<1> HIDE DEF fate
<1>6. IF s.occ[t].status = "batched" /\ s.occ[t].delivery \in safe
      THEN q.occ[t].status = "scheduled" ELSE q.occ[t] = s.occ[t]
  BY <1>2, <1>3, <1>5, SettledRows
<1>7. s.occ[t].status = "batched" => s.occ[t].delivery \in Ids
  BY DEF Sound, Consistent, BatchesLive
<1> HIDE DEF q, safe
<1>8. ~Held(q, t)
  BY <1>4, <1>6, <1>7 DEF Held, SourceOf, safe
<1> QED
  BY <1>8 DEF q, safe

LEMMA ReconcileExistingSound ==
  ASSUME NEW s, NEW sent, Sound(s, sent), NEW ts, NEW g
  PROVE  Sound(ReconcileExisting(s, ts, g), sent)
<1> DEFINE stirred == {t \in ts : Held(s, t) /\ (Over(t, g) \/ UnderOtherSettings(s, t, g))}
           is == {s.occ[t].delivery : t \in stirred}
           safe == Resettable(s, is)
           reset == Reset(s, safe)
           over == {t \in ts :
                 /\ Over(t, g)
                 /\ \/ s.occ[t].status = "scheduled"
                    \/ s.occ[t].status = "batched" /\ SourceOf(s, t) = "manual"
                    \/ t \in stirred /\ s.occ[t].delivery \in safe /\ First(s, stirred, t)}
           occ == [t \in Targets |-> IF t \in over THEN Closed(reset.occ[t], t) ELSE reset.occ[t]]
<1>1. Sound(reset, sent)
  BY ResetSound
<1>2. ASSUME NEW t \in Targets, t \in over PROVE ~Held(reset, t)
  <2>1. ~Held(s, t) \/ s.occ[t].delivery \in safe
    BY <1>2 DEF Held
  <2> HIDE DEF is
  <2> QED
    BY <2>1, ResetReleases
<1>3. ReconcileExisting(s, ts, g) = [reset EXCEPT !.occ = occ]
  BY DEF ReconcileExisting
<1> HIDE DEF over, reset
<1>4. \A t \in Targets : reset.occ[t] \in Occurrence
  BY <1>1 DEF Sound, StoreOK, Store
<1>5. ASSUME NEW row \in Occurrence, NEW t PROVE RowStep(row, Closed(row, t))
  BY <1>5 DEF RowStep, Closed, NoOccurrence, Occurrence
<1>6. occ \in [Targets -> Occurrence]
  BY <1>4, ClosedType
<1>7. \A t \in Targets : occ[t] = reset.occ[t] \/ (~Held(reset, t) /\ RowStep(reset.occ[t], occ[t]))
  BY <1>2, <1>4, <1>5
<1> HIDE DEF occ
<1> QED
  BY <1>1, <1>3, <1>6, <1>7, RowsSound

LEMMA MaterializeSound ==
  ASSUME Scheduling, NEW s, NEW sent, Sound(s, sent), NEW ts, ts \subseteq Targets,
         NEW g, g.lead \in Nat
  PROVE  Sound(Materialize(s, ts, g), sent)
<1> DEFINE outdated == {t \in ts : Outdated(s, t, g)}
           held == {t \in outdated : Held(s, t)}
           is == {s.occ[t].delivery : t \in held}
           safe == Resettable(s, is)
           reset == Reset(s, safe)
           ready == {t \in outdated :
                  t \in held => /\ s.occ[t].delivery \in safe
                                /\ t \in Deadlines \/ First(s, held, t)}
           occ == [t \in Targets |-> IF t \in ready THEN Rearmed(reset.occ[t], t, g)
                                     ELSE reset.occ[t]]
<1>1. Sound(reset, sent)
  BY ResetSound
<1>2. ASSUME NEW t \in ready PROVE ~Held(reset, t) /\ Open(t)
  <2>1. t \in Targets /\ Open(t) /\ (~Held(s, t) \/ s.occ[t].delivery \in safe)
    BY DEF Outdated
  <2> HIDE DEF is
  <2> QED
    BY <2>1, ResetReleases
<1>3. Materialize(s, ts, g) = [reset EXCEPT !.occ = occ]
  BY DEF Materialize
<1> HIDE DEF ready, reset
<1>4. \A t \in Targets : reset.occ[t] \in Occurrence
  BY <1>1 DEF Sound, StoreOK, Store
<1>5. ASSUME NEW row \in Occurrence, NEW t PROVE RowStep(row, Rearmed(row, t, g))
  BY <1>5 DEF RowStep, Rearmed, NewOccurrence, Occurrence
<1>6. occ \in [Targets -> Occurrence]
  BY <1>2, <1>4, RearmedType
<1>7. \A t \in Targets : occ[t] = reset.occ[t] \/ (~Held(reset, t) /\ RowStep(reset.occ[t], occ[t]))
  BY <1>2, <1>4, <1>5
<1> HIDE DEF occ
<1> QED
  BY <1>1, <1>3, <1>6, <1>7, RowsSound

LEMMA ReconciledSound ==
  ASSUME Scheduling, NEW s, NEW sent, Sound(s, sent), NEW g, g.lead \in Nat
  PROVE  Sound(Reconciled(s, g), sent)
<1> DEFINE rid == Expired(Recovered(s))
           one == ReconcileExisting(rid, Matches, g)
           old == ReconcileExisting(one, Deadlines, g)
           half == Materialize(old, Matches, g)
           new == Materialize(half, Deadlines, g)
<1>1. Sound(rid, sent)
  BY RecoveredSound, ExpiredSound
<1>2. Sound(one, sent)
  BY <1>1, ReconcileExistingSound
<1>3. Sound(old, sent)
  BY <1>2, ReconcileExistingSound
<1>4. Matches \subseteq Targets /\ Deadlines \subseteq Targets
  BY DEF Targets
<1>5. Sound(half, sent)
  BY <1>3, <1>4, MaterializeSound
<1>6. Sound(new, sent)
  BY <1>4, <1>5, MaterializeSound
<1>7. Reconciled(s, g) \in {old, new}
  BY DEF Reconciled
<1> QED
  BY <1>3, <1>6, <1>7

-----------------------------------------------------------------------------
(* Workers *)

(* The coroutine l of w goes with its delivery d: it has parts to send, and a
   claim in its hands is at the stage of the coroutine. *)
AtWork(l, w, d) ==
  /\ l.pc \in {"sending", "awaiting"} => l.todo # {}
  /\ d.claim = w =>
       /\ l.pc \in {"preflight", "rendering"} => d.status = "preparing"
       /\ l.pc = "finishing" => Has(d, {"sent"})
  /\ l.pc = "awaiting" /\ Live(d) => d.claim = w

OutcomeInv ==
  /\ IInv
  /\ Consistent(store, sends)
  /\ \A w \in Workers : Busy(worker[w]) => AtWork(worker[w], w, Mine(w))

(* The tables are sound. *)
LEMMA OutcomeSound == OutcomeInv => Sound(store, sends)
BY DEF OutcomeInv, IInv, Sound

(* The part in hand is one of those to send. *)
LEMMA PartInHand ==
  ASSUME NEW w, worker[w].todo \subseteq Numbers, worker[w].todo # {}
  PROVE  Part(w) \in worker[w].todo
<1> DEFINE todo == worker[w].todo
<1>1. todo \subseteq Nat
  BY Bounds DEF Numbers
<1>2. PICK x \in todo : \A y \in todo : ~(<<y, x>> \in OpToRel(<, Nat))
  BY <1>1, NatLessThanWellFounded, WFMin
<1>3. \A y \in todo : ~(y < x)
  BY <1>1, <1>2 DEF OpToRel
<1>4. \A y \in todo : x <= y
  BY <1>1, <1>3
<1> QED
  BY <1>4 DEF Part, Min

(* A worker that awaits asks for a part that is being sent, or was given up as
   unknown. *)
LEMMA PartAsked ==
  ASSUME OutcomeInv, NEW w \in Workers, worker[w].pc = "awaiting"
  PROVE  /\ Part(w) \in Numbers /\ Part(w) \in worker[w].todo
         /\ Mine(w).parts[Part(w)] \in {"sending", "unknown"}
         /\ sends[worker[w].id][Part(w)] = 1
<1>1. /\ Busy(worker[w]) /\ AtWork(worker[w], w, Mine(w)) /\ worker[w].todo \subseteq Numbers
      /\ AskedOK(worker[w], worker[w].id, Mine(w), sends[worker[w].id])
  BY InHand DEF OutcomeInv, Busy
<1>2. Part(w) \in worker[w].todo
  BY <1>1, PartInHand DEF AtWork
<1>3. Asks(worker[w], worker[w].id, Part(w))
  BY DEF Asks, Part
<1> QED
  BY <1>1, <1>2, <1>3 DEF AskedOK

(* A delivery d that v works on becomes e without v. *)
Aside(d, e, v) ==
  e = d \/ (e.claim # v /\ (e.claim \in {"none", d.claim} \/ e.status # "sending"))

LEMMA AsideWorks ==
  ASSUME OutcomeInv, IInv', Consistent(store, sends)', NEW v \in Workers,
         worker'[v] = worker[v], Busy(worker[v]),
         Aside(Mine(v), store'.dels[worker[v].id], v)
  PROVE  AtWork(worker[v], v, Mine(v))'
<1> DEFINE i == worker[v].id
           d == Mine(v)
           e == store'.dels[i]
<1>1. i \in Ids /\ AtWork(worker[v], v, d) /\ d = store.dels[i] /\ Mine(v)' = e
      /\ worker[v].todo \subseteq Numbers
  BY InHand DEF OutcomeInv, Mine
<1>2. Decided(d, sends[i]) /\ Decided(e, sends'[i])
  BY <1>1 DEF OutcomeInv, Consistent
<1>3. ASSUME worker[v].pc = "awaiting", Live(e) PROVE e.status = "sending"
  <2>1. DelOK(e) /\ AskedOK(worker[v], i, e, sends'[i])
    BY <1>1 DEF IInv, StoreOK
  <2>2. Part(v) \in Numbers /\ Asks(worker[v], i, Part(v))
    BY <1>3, PartAsked DEF Asks, Part
  <2>3. ~Calm(e.parts)
    BY <2>1, <2>2 DEF AskedOK, Calm
  <2> QED
    BY <1>3, <2>1, <2>3 DEF DelOK, Live, LiveStatuses
<1> HIDE DEF d, e
<1>4. CASE e = d
  BY <1>1, <1>4
<1>5. CASE e # d
  <2>1. e.claim # v /\ (e.claim \in {"none", d.claim} \/ e.status # "sending")
    BY <1>5 DEF Aside, d, e
  <2>2. ASSUME worker[v].pc = "awaiting", Live(e) PROVE FALSE
    <3>1. e.claim = d.claim /\ d.claim # "none"
      BY <1>2, <1>3, <2>1, <2>2 DEF Decided
    <3>2. Live(d)
      BY <1>2, <3>1 DEF Decided, Live, LiveStatuses
    <3> QED
      BY <1>1, <2>1, <2>2, <3>1, <3>2 DEF AtWork
  <2> QED
    BY <1>1, <2>1, <2>2 DEF AtWork
<1> QED
  BY <1>4, <1>5

(* One worker moves on. *)
LEMMA OneMoves ==
  ASSUME OutcomeInv, IInv', Consistent(store, sends)', NEW w \in Workers, NEW l,
         worker' = [worker EXCEPT ![w] = l],
         Busy(l) => AtWork(l, w, store'.dels[l.id]),
         \A v \in Workers \ {w}, i \in Ids : Aside(store.dels[i], store'.dels[i], v)
  PROVE  OutcomeInv'
<1>1. worker'[w] = l /\ \A v \in Workers \ {w} : worker'[v] = worker[v]
  BY DEF OutcomeInv, IInv, TypeOK
<1>2. ASSUME Busy(worker'[w]) PROVE AtWork(worker[w], w, Mine(w))'
  BY <1>1, <1>2 DEF Mine
<1>3. ASSUME NEW v \in Workers \ {w}, Busy(worker'[v]) PROVE AtWork(worker[v], v, Mine(v))'
  <2>1. Busy(worker[v]) /\ worker'[v] = worker[v]
    BY <1>1, <1>3
  <2>2. worker[v].id \in Ids
    BY <2>1, InHand DEF OutcomeInv
  <2> QED
    BY <2>1, <2>2, AsideWorks DEF Mine
<1> QED
  BY <1>2, <1>3 DEF OutcomeInv

(* Deliveries lose their claims, and workers move only to rest. *)
LEMMA AllRest ==
  ASSUME OutcomeInv, IInv', Consistent(store, sends)',
         \A v \in Workers : worker'[v] = worker[v] \/ ~Busy(worker'[v]),
         \A i \in Ids : store'.dels[i] = store.dels[i] \/ store'.dels[i].claim = "none"
  PROVE  OutcomeInv'
<1>1. ASSUME NEW v \in Workers, Busy(worker'[v]) PROVE AtWork(worker[v], v, Mine(v))'
  <2>1. Busy(worker[v]) /\ worker'[v] = worker[v]
    BY <1>1
  <2>2. worker[v].id \in Ids
    BY <2>1, InHand DEF OutcomeInv
  <2>3. Aside(Mine(v), store'.dels[worker[v].id], v)
    BY <2>2, Bounds DEF Aside, Mine
  <2> QED
    BY <2>1, <2>3, AsideWorks
<1> QED
  BY <1>1 DEF OutcomeInv

-----------------------------------------------------------------------------
(* A worker writes to a delivery *)

Keeps(d, e) == e.items = d.items /\ e.source = d.source /\ e.expires = d.expires

(* Nothing but the progress of deliveries changes, from what was sent to what
   next says. *)
LEMMA ProgressConsistent ==
  ASSUME NEW s, NEW q, NEW sent, NEW next, Consistent(s, sent),
         q.occ = s.occ,
         \A i \in Ids :
           /\ Keeps(s.dels[i], q.dels[i]) /\ (Live(q.dels[i]) <=> Live(s.dels[i]))
           /\ Decided(q.dels[i], next[i])
           /\ Live(s.dels[i]) \/ Unsent(next[i]) \/ ~Unsent(sent[i])
  PROVE  Consistent(q, next)
<1>1. \A t \in Targets, i \in Ids : Item(q, t) = Item(s, t) /\ (Batched(q, t, i) <=> Batched(s, t, i))
  BY DEF Item, Batched
<1>2. \A i \in Ids : Counts(q, next, i) => Counts(s, sent, i)
  BY DEF Counts
<1>3. BatchesLive(q)
  BY <1>1 DEF Consistent, BatchesLive, Keeps
<1>4. ItemsPast(q)
  BY DEF Consistent, ItemsPast, Keeps
<1>5. OneEach(q, next)
  BY <1>2 DEF Consistent, OneEach, Keeps
<1>6. Fresh(q, next)
  BY <1>1, <1>2 DEF Consistent, Fresh, Keeps
<1>7. AutoHolds(q)
  BY DEF Consistent, AutoHolds, Keeps, Item, Batched
<1> QED
  BY <1>3, <1>4, <1>5, <1>6, <1>7 DEF Consistent

(* A worker writes to the delivery in hand, of which x was sent then. *)
LEMMA PutConsistent ==
  ASSUME OutcomeInv, NEW w \in Workers, Busy(worker[w]), NEW e \in Delivery, Put(w, e),
         NEW x, sends' = [sends EXCEPT ![worker[w].id] = x],
         Keeps(Mine(w), e), Live(e) <=> Live(Mine(w)), Decided(e, x),
         Live(Mine(w)) \/ Unsent(x) \/ ~Unsent(sends[worker[w].id])
  PROVE  Consistent(store, sends)'
<1> DEFINE i == worker[w].id
<1>1. i \in Ids /\ StoreOK(store) /\ Mine(w) = store.dels[i]
  BY InHand DEF OutcomeInv, IInv, Mine
<1>2. Changes(store, i, e)
  BY <1>1, PutChanges
<1>3. store'.occ = store.occ
  BY <1>1 DEF Put, StoreOK, Store
<1>4. /\ sends'[i] = x
      /\ \A j \in Ids : j # i => sends'[j] = sends[j] /\ store'.dels[j] = store.dels[j]
  BY <1>1, <1>2 DEF OutcomeInv, IInv, TypeOK, Changes
<1>5. ASSUME NEW j \in Ids
      PROVE  /\ Keeps(store.dels[j], store'.dels[j])
             /\ Live(store'.dels[j]) <=> Live(store.dels[j])
             /\ Decided(store'.dels[j], sends'[j])
             /\ Live(store.dels[j]) \/ Unsent(sends'[j]) \/ ~Unsent(sends[j])
  <2>1. CASE j = i
    BY <1>1, <1>2, <1>4, <2>1 DEF Changes
  <2>2. CASE j # i
    BY <1>4, <2>2 DEF Keeps, OutcomeInv, Consistent
  <2> QED
    BY <2>1, <2>2
<1> QED
  BY <1>3, <1>5, ProgressConsistent DEF OutcomeInv

(* A worker settles the delivery in hand by a fate that says the truth. *)
LEMMA SettleConsistent ==
  ASSUME OutcomeInv, NEW w \in Workers, Busy(worker[w]), NEW f, FateOK(f), SettleMine(w, f),
         Consistent(store, sends'), EndOK(Mine(w), sends'[worker[w].id], f)
  PROVE  Consistent(store, sends)'
<1> DEFINE fate == Only(worker[w].id, f)
<1>1. worker[w].id \in Ids /\ StoreOK(store)
  BY InHand DEF OutcomeInv, IInv
<1>2. DOMAIN fate = {worker[w].id} /\ fate[worker[w].id] = f
  BY DEF Only
<1>3. store' = Settled(store, fate)
  BY DEF SettleMine
<1> HIDE DEF fate
<1>4. Consistent(Settled(store, fate), sends')
  BY <1>1, <1>2, SettledConsistent DEF Mine
<1> QED
  BY <1>3, <1>4

(* The delivery in hand is under way while its claim is the worker's. *)
LEMMA MineUnderWay ==
  ASSUME OutcomeInv, NEW w \in Workers, Busy(worker[w])
  PROVE  /\ Decided(Mine(w), sends[worker[w].id])
         /\ Mine(w).claim = w => UnderWay(Mine(w), sends[worker[w].id])
<1>1. /\ worker[w].id \in Ids /\ DelOK(Mine(w)) /\ RowOK(Mine(w), sends[worker[w].id])
  BY InHand DEF OutcomeInv
<1>2. Decided(Mine(w), sends[worker[w].id])
  BY <1>1 DEF OutcomeInv, Consistent, Mine
<1> QED
  BY <1>1, <1>2, Bounds DEF UnderWay, Decided, Live, LiveStatuses

(* What renewing and sending a part leave alone *)
LEMMA RenewedKeeps ==
  ASSUME NEW d \in Delivery PROVE Keeps(d, Renewed(d))
BY DEF Keeps, Renewed, Delivery

LEMMA WithPartKeeps ==
  ASSUME NEW d \in Delivery, NEW n, NEW status PROVE Keeps(d, WithPart(d, n, status))
BY DEF Keeps, WithPart, Delivery

-----------------------------------------------------------------------------
(* Commands, the clock and claims *)

(* Nothing was sent and nobody is at work. *)
LEMMA InitOutcome == Init => OutcomeInv
<1> SUFFICES ASSUME Init PROVE OutcomeInv
  OBVIOUS
<1>1. store = [occ |-> [t \in Targets |-> NoOccurrence(0)], dels |-> [i \in Ids |-> NoDelivery]]
  BY DEF Init, StoreInit
<1>2. \A t \in Targets : store.occ[t].status = "none"
  BY <1>1 DEF NoOccurrence
<1>3. \A i \in Ids : /\ store.dels[i].items = {} /\ store.dels[i].claim = "none"
                     /\ store.dels[i].status = "none"
                     /\ \A n \in Numbers : store.dels[i].parts[n] = "none"
  BY <1>1 DEF NoDelivery, NoParts
<1>4. Consistent(store, sends)
  BY <1>2, <1>3 DEF Consistent, Decided, Told, LiveStatuses, BatchesLive, ItemsPast, OneEach,
                    Fresh, AutoHolds
<1>5. \A w \in Workers : ~Busy(worker[w])
  BY DEF Init, Idle, Busy
<1> QED
  BY <1>4, <1>5, InitIInv DEF OutcomeInv

(* Steps of workers that go to rest, over sound tables *)
LEMMA TameOutcome ==
  ASSUME OutcomeInv, IInv', AllTame(store, store'), Consistent(store', sends'),
         \A v \in Workers : worker'[v] = worker[v] \/ ~Busy(worker'[v])
  PROVE  OutcomeInv'
BY AllRest DEF AllTame, Tame

LEMMA CommandOutcome ==
  ASSUME OutcomeInv, IInv', StoreCommand, UNCHANGED <<worker, sends, crashes>>
  PROVE  OutcomeInv'
<1>1. Scheduling /\ settings.lead \in Nat /\ Sound(store, sends)
  BY SchedulingOK, OutcomeSound DEF OutcomeInv, IInv
<1>2. ASSUME NEW enabled \in BOOLEAN, NEW lead \in Leads, SaveSettings(enabled, lead)
      PROVE  OutcomeInv'
  <2>1. settings'.lead \in Nat
    BY <1>2, Bounds DEF SaveSettings
  <2>2. Sound(store', sends) /\ AllTame(store, store')
    BY <1>1, <1>2, <2>1, ReconciledSound, ReconciledTame DEF SaveSettings, Sound
  <2> QED
    BY <2>2, TameOutcome DEF Sound
<1>3. CASE QueueManual
  <2> DEFINE reconciled == Reconciled(store, settings)
             batched == {t \in Targets : /\ Held(reconciled, t) /\ reconciled.occ[t].due <= now
                                  /\ Open(t) /\ reconciled.occ[t].observed = schedule[t]}
             s == Reset(reconciled, {reconciled.occ[t].delivery : t \in batched})
             covered == {t \in Targets : Scheduled(s, t)}
             cutoffs == {now + ManualTicks} \cup {schedule[t] : t \in covered}
             manual(cutoff) == [NoDelivery EXCEPT !.source = "manual", !.status = "pending",
                                                   !.expires = cutoff,
                                                   !.settings = settings.revision]
  <2>1. Sound(reconciled, sends) /\ AllTame(store, reconciled)
    BY <1>1, ReconciledSound, ReconciledTame DEF Sound
  <2>2. AllTame(store, s) /\ Sound(s, sends)
    <3>1. AllTame(reconciled, s)
      BY <2>1, ResetTame DEF AllTame
    <3> QED
      BY <2>1, <3>1, AllTameTransitive, ResetSound
  <2>3. cutoffs \subseteq Nat
    <3>1. \A t \in covered : schedule[t] \in Nat
      BY <1>1, OpenInstant, Bounds DEF Scheduled, Instants
    <3>2. now + ManualTicks \in Nat
      BY <1>1, Bounds DEF Scheduling
    <3> HIDE DEF covered
    <3> QED
      BY <3>1, <3>2
  <2>4. PICK i \in Ids, cutoff \in cutoffs :
          IsNextId(s, i) /\ store' = Attached(s, i, manual(cutoff), covered)
    BY <1>3 DEF QueueManual
  <2>5. s.dels[i].source = "none"
    BY <2>4 DEF IsNextId, IsLeast, Unused
  <2>6. /\ manual(cutoff) \in Delivery /\ manual(cutoff).parts = NoParts
        /\ manual(cutoff).claim = "none" /\ manual(cutoff).status = "pending"
        /\ manual(cutoff).source = "manual"
    <3>1. NoDelivery \in Delivery /\ cutoff \in Nat /\ settings.revision \in Nat
      BY <2>3, NoDeliveryOK DEF DelOK, OutcomeInv, IInv, TypeOK
    <3> QED
      BY <3>1 DEF NoDelivery, Delivery, LiveStatuses
  <2>7. covered \subseteq Targets /\ \A t \in covered : s.occ[t].status = "scheduled"
    BY DEF Scheduled
  <2> HIDE DEF s, covered, manual, cutoffs
  <2>8. Sound(store', sends)
    BY <2>2, <2>4, <2>5, <2>6, <2>7, AttachedSound DEF Live, LiveStatuses
  <2>9. store'.dels[i].claim = "none" /\ \A j \in Ids : j # i => store'.dels[j] = s.dels[j]
    BY <2>2, <2>4, <2>6, <2>7, AttachedOK DEF AllTame
  <2>10. \A j \in Ids : store'.dels[j] = store.dels[j] \/ store'.dels[j].claim = "none"
    BY <2>2, <2>9 DEF AllTame, Tame
  <2> QED
    BY <2>8, <2>10, AllRest DEF Sound
<1>4. CASE ~QueueManual /\ ~\E enabled \in BOOLEAN, lead \in Leads : SaveSettings(enabled, lead)
  <2>1. UNCHANGED store
    BY <1>4 DEF StoreCommand, Announce, Move, Drop, CompleteContest, DeleteContest
  <2> QED
    BY <2>1, TameOutcome, AllTameSame DEF OutcomeInv, IInv
<1> QED
  BY <1>2, <1>3, <1>4

(* A worker that leaves its delivery, or stops, has nothing in hand. *)
LEMMA ToRest ==
  ASSUME NEW w, Leave(w) \/ Becomes(w, Idle)
  PROVE  \E l : worker' = [worker EXCEPT ![w] = l] /\ ~Busy(l)
<1> DEFINE claiming == At("claiming", 0, {})
<1>1. ~Busy(claiming) /\ ~Busy(Idle)
  BY DEF Busy, At, Idle
<1>2. worker' = [worker EXCEPT ![w] = claiming] \/ worker' = [worker EXCEPT ![w] = Idle]
  BY DEF Leave, Becomes
<1> HIDE DEF claiming
<1> QED
  BY <1>1, <1>2

LEMMA RestOutcome ==
  ASSUME OutcomeInv, IInv', NEW w \in Workers, Leave(w) \/ Becomes(w, Idle),
         AllTame(store, store'), Consistent(store, sends)'
  PROVE  OutcomeInv'
<1>1. PICK l : worker' = [worker EXCEPT ![w] = l] /\ ~Busy(l)
  BY ToRest
<1>2. \A v \in Workers : worker'[v] = worker[v] \/ ~Busy(worker'[v])
  BY <1>1 DEF OutcomeInv, IInv, TypeOK
<1> QED
  BY <1>2, TameOutcome

LEMMA StartRoundOutcome ==
  ASSUME OutcomeInv, IInv', NEW w \in Workers, StartRound(w) PROVE OutcomeInv'
<1>1. Scheduling /\ settings.lead \in Nat /\ Sound(store, sends)
  BY SchedulingOK, OutcomeSound DEF OutcomeInv, IInv
<1>2. Sound(store', sends') /\ AllTame(store, store')
  BY <1>1, ReconciledSound, ReconciledTame DEF StartRound, Sound
<1> QED
  BY <1>2, RestOutcome DEF StartRound, Leave, Sound

LEMMA CrashOutcome ==
  ASSUME OutcomeInv, IInv', NEW w \in Workers, Crash(w) PROVE OutcomeInv'
BY RestOutcome, AllTameSame DEF Crash, OutcomeInv, IInv

(* What is claimed is taken from tables s that recovery and expiry left. *)
LEMMA ClaimedOutcome ==
  ASSUME OutcomeInv, IInv', NEW w \in Workers, NEW s, AllTame(store, s), NEW i \in Ids,
         Consistent(store, sends)',
         store'.dels[i].claim = w, store'.dels[i].status = "preparing",
         \A j \in Ids : j # i => store'.dels[j] = s.dels[j],
         Becomes(w, At("preflight", i, {}))
  PROVE  OutcomeInv'
<1> DEFINE l == At("preflight", i, {})
<1>1. l.pc = "preflight" /\ l.id = i
  BY DEF At
<1>2. worker' = [worker EXCEPT ![w] = l]
  BY DEF Becomes
<1> HIDE DEF l
<1>3. AtWork(l, w, store'.dels[l.id])
  BY <1>1 DEF AtWork
<1>4. ASSUME NEW v \in Workers \ {w}, NEW j \in Ids PROVE Aside(store.dels[j], store'.dels[j], v)
  <2>1. CASE j = i
    BY <2>1 DEF Aside
  <2>2. CASE j # i
    BY <2>2, Bounds DEF Aside, AllTame, Tame
  <2> QED
    BY <2>1, <2>2
<1> QED
  BY <1>2, <1>3, <1>4, OneMoves

LEMMA ClaimOutcome ==
  ASSUME OutcomeInv, IInv', NEW w \in Workers, Claim(w) PROVE OutcomeInv'
<1> DEFINE s == Expired(Recovered(store))
<1>1. AllTame(store, s) /\ Sound(s, sends)
  BY RidTame, OutcomeSound, RecoveredSound, ExpiredSound DEF OutcomeInv
<1> HIDE DEF s
<1>2. StoreOK(s) /\ s \in Store /\ s.dels \in [Ids -> Delivery] /\ sends' = sends /\ now \in Nat
  BY <1>1, SchedulingOK DEF Sound, StoreOK, Store, Claim, OutcomeInv, IInv, Scheduling
<1>3. ASSUME NEW i \in Waiting(s), store' = Taken(s, i, w), Becomes(w, At("preflight", i, {}))
      PROVE  OutcomeInv'
  <2> DEFINE d == s.dels[i]
             e == [d EXCEPT !.status = "preparing", !.claim = w, !.lease = now + LeaseTicks]
             dels == [s.dels EXCEPT ![i] = e]
  <2>1. i \in Ids /\ d.status \in {"pending", "retry"} /\ d \in Delivery
    BY <1>2, <1>3 DEF Waiting, StoreOK, DelOK
  <2>2. /\ e.status = "preparing" /\ e.claim = w /\ e.parts = d.parts /\ Keeps(d, e)
    BY <2>1 DEF Delivery, Keeps
  <2>3. store' = [s EXCEPT !.dels = dels]
    BY <1>3, <2>1 DEF Taken
  <2> HIDE DEF e
  <2>4. dels[i] = e /\ \A j \in Ids : j # i => dels[j] = s.dels[j]
    BY <1>2, <2>1
  <2> HIDE DEF dels
  <2>5. store'.dels = dels /\ store'.occ = s.occ
    BY <1>2, <2>3 DEF Store
  <2>6. Decided(e, sends[i])
    BY <1>1, <2>1, <2>2, Bounds DEF Sound, Consistent, Decided, Told, LiveStatuses
  <2>7. ASSUME NEW j \in Ids
        PROVE  /\ Keeps(s.dels[j], store'.dels[j])
               /\ Live(store'.dels[j]) <=> Live(s.dels[j])
               /\ Decided(store'.dels[j], sends[j])
    <3>1. CASE j = i
      BY <2>1, <2>2, <2>4, <2>5, <2>6, <3>1 DEF Live, LiveStatuses
    <3>2. CASE j # i
      BY <1>1, <2>4, <2>5, <3>2 DEF Keeps, Sound, Consistent
    <3> QED
      BY <3>1, <3>2
  <2>8. Consistent(store', sends)
    BY <1>1, <2>5, <2>7, ProgressConsistent DEF Sound
  <2> QED
    BY <1>1, <1>2, <1>3, <2>1, <2>2, <2>4, <2>5, <2>8, ClaimedOutcome
<1>4. ASSUME NEW i \in Ids, NEW at \in Instants, IsNextId(s, i),
             store' = BatchTaken(s, i, at, w), Becomes(w, At("preflight", i, {}))
      PROVE  OutcomeInv'
  <2> DEFINE batch == {t \in Targets : Scheduled(s, t) /\ s.occ[t].observed = at}
             new == [NoDelivery EXCEPT !.source = "auto", !.expires = at,
                                  !.settings = settings.revision, !.status = "preparing",
                                  !.claim = w, !.lease = now + LeaseTicks]
  <2>1. /\ new \in Delivery /\ new.parts = NoParts /\ new.source = "auto" /\ new.claim = w
        /\ new.status = "preparing" /\ new.expires = at
    <3>1. now + LeaseTicks \in Nat /\ at \in Nat /\ settings.revision \in Nat
      BY <1>2, <1>4, Bounds DEF Instants, OutcomeInv, IInv, TypeOK
    <3>2. NoDelivery \in Delivery
      BY NoDeliveryOK DEF DelOK
    <3> QED
      BY <3>1, <3>2 DEF NoDelivery, Delivery, LiveStatuses
  <2>2. /\ store' = Attached(s, i, new, batch) /\ batch \subseteq Targets
        /\ \A t \in batch : s.occ[t].status = "scheduled" /\ s.occ[t].observed = at
    BY <1>4 DEF BatchTaken, Scheduled
  <2>3. s.dels[i].source = "none"
    BY <1>4 DEF IsNextId, IsLeast, Unused
  <2> HIDE DEF new, batch
  <2>4. Sound(store', sends)
    BY <1>1, <2>1, <2>2, <2>3, Bounds, AttachedSound DEF Live, LiveStatuses
  <2>5. \A j \in Ids : j # i => store'.dels[j] = s.dels[j]
    BY <1>2, <2>1, <2>2, AttachedOK
  <2>6. store'.dels[i].claim = w
    BY <1>2, <2>1, <2>2, AttachedOK
  <2>7. store'.dels[i].status = "preparing"
    <3> DEFINE items == {Item(s, t) : t \in batch}
    <3>1. store'.dels[i] = [new EXCEPT !.items = items]
      BY <1>2, <2>2, Zenon DEF Attached
    <3> HIDE DEF items
    <3> QED
      BY <2>1, <3>1 DEF Delivery
  <2> QED
    BY <1>1, <1>2, <1>4, <2>4, <2>5, <2>6, <2>7, ClaimedOutcome DEF Sound
<1>5. ASSUME store' = s, Becomes(w, Idle) PROVE OutcomeInv'
  BY <1>1, <1>2, <1>5, RestOutcome DEF Sound
<1> QED
  BY <1>3, <1>4, <1>5 DEF Claim, s

-----------------------------------------------------------------------------
(* How a worker leaves the delivery in hand *)

(* The claim is the worker's, and stays so. *)
LEMMA HolderOutcome ==
  ASSUME OutcomeInv, IInv', NEW w \in Workers, Busy(worker[w]), Mine(w).claim = w,
         NEW e \in Delivery, Put(w, e), e.claim = w, Keeps(Mine(w), e), Live(e),
         NEW x, sends' = [sends EXCEPT ![worker[w].id] = x], Decided(e, x),
         NEW l, Becomes(w, l), Busy(l) => l.id = worker[w].id /\ AtWork(l, w, e)
  PROVE  OutcomeInv'
<1> DEFINE i == worker[w].id
<1>1. i \in Ids /\ StoreOK(store) /\ Mine(w) = store.dels[i] /\ UnderWay(Mine(w), sends[i])
  BY InHand, MineUnderWay DEF OutcomeInv, IInv, Mine
<1>2. Changes(store, i, e)
  BY <1>1, PutChanges
<1>3. Consistent(store, sends)'
  BY <1>1, PutConsistent DEF UnderWay
<1>4. ASSUME NEW v \in Workers \ {w}, NEW j \in Ids PROVE Aside(store.dels[j], store'.dels[j], v)
  <2>1. CASE j = i
    BY <1>1, <1>2, <2>1 DEF Aside, Changes
  <2>2. CASE j # i
    BY <1>2, <2>2 DEF Aside, Changes
  <2> QED
    BY <2>1, <2>2
<1>5. Busy(l) => AtWork(l, w, store'.dels[l.id])
  BY <1>2 DEF Changes
<1> QED
  BY <1>3, <1>4, <1>5, OneMoves DEF Becomes

(* The worker rests; its delivery is e then, and nobody's. *)
LEMMA LeftOutcome ==
  ASSUME OutcomeInv, IInv', NEW w \in Workers, Busy(worker[w]),
         Leave(w) \/ Becomes(w, Idle),
         NEW e, Changes(store, worker[w].id, e), e = Mine(w) \/ e.claim = "none",
         Consistent(store, sends)'
  PROVE  OutcomeInv'
<1>1. PICK l : worker' = [worker EXCEPT ![w] = l] /\ ~Busy(l)
  BY ToRest
<1>2. \A v \in Workers : worker'[v] = worker[v] \/ ~Busy(worker'[v])
  BY <1>1 DEF OutcomeInv, IInv, TypeOK
<1>3. \A i \in Ids : store'.dels[i] = store.dels[i] \/ store'.dels[i].claim = "none"
  BY DEF Changes, Mine
<1> QED
  BY <1>2, <1>3, AllRest

(* Nothing is written. *)
LEMMA UntouchedOutcome ==
  ASSUME OutcomeInv, IInv', NEW w \in Workers, Leave(w) \/ Becomes(w, Idle),
         UNCHANGED store, Consistent(store, sends')
  PROVE  OutcomeInv'
<1>1. Consistent(store, sends)' /\ AllTame(store, store')
  BY AllTameSame DEF OutcomeInv, IInv
<1> QED
  BY <1>1, RestOutcome

(* The delivery is settled by a fate that says the truth. *)
LEMMA EndOutcome ==
  ASSUME OutcomeInv, IInv', NEW w \in Workers, Busy(worker[w]), Mine(w).claim = w,
         Leave(w) \/ Becomes(w, Idle),
         NEW f, FateOK(f), SettleMine(w, f), Consistent(store, sends'),
         EndOK(Mine(w), sends'[worker[w].id], f)
  PROVE  OutcomeInv'
<1>1. Consistent(store, sends)'
  BY SettleConsistent
<1>2. StoreOK(store) /\ worker[w].id \in Ids /\ Mine(w).source # "none"
  BY InHand DEF OutcomeInv, IInv
<1>3. PICK e : Changes(store, worker[w].id, e) /\ e.claim = "none"
  BY <1>2, SettleChanges
<1> QED
  BY <1>1, <1>3, LeftOutcome

(* x was sent of the parts of d, none of which is being sent. *)
Answered(d, x) ==
  /\ d \in Delivery /\ Calm(d.parts) /\ RowOK(d, x)
  /\ \A n \in Numbers : d.parts[n] = "sent" => x[n] = 1

LEMMA TerminalEnd ==
  ASSUME NEW m, Live(m), NEW d, NEW x, Answered(d, x)
  PROVE  FateOK(TerminalFate(d)) /\ EndOK(m, x, TerminalFate(d))
<1>1. d.parts \in [Numbers -> PartStatuses]
  BY DEF Answered, Delivery
<1>2. CASE Has(d, {"sent"})
  BY <1>1, <1>2 DEF Answered, TerminalFate, Fate, FateOK, EndOK, Told, LiveStatuses, Has,
                    DeliveryStatuses, OccurrenceStatuses
<1>3. CASE ~Has(d, {"sent"})
  <2>1. Unsent(x)
    BY <1>3, NothingSent DEF Answered
  <2>2. IfManual(d, "scheduled", "terminal_failed") \in {"scheduled", "terminal_failed"}
    BY DEF IfManual
  <2> QED
    BY <1>1, <1>3, <2>1, <2>2 DEF Answered, TerminalFate, Fate, FateOK, EndOK, Told,
       LiveStatuses, Has, DeliveryStatuses, OccurrenceStatuses
<1> QED
  BY <1>2, <1>3

(* finish_prediction_reminder_terminal by the holder of the claim *)
LEMMA TerminalOutcome ==
  ASSUME OutcomeInv, IInv', NEW w \in Workers, Busy(worker[w]), Leave(w),
         Owns(w, {"preparing", "sending"}), NEW d, FinishTerminal(w, d),
         Consistent(store, sends'), Answered(d, sends'[worker[w].id])
  PROVE  OutcomeInv'
<1>1. Mine(w).claim = w /\ Live(Mine(w)) /\ SettleMine(w, TerminalFate(d))
  BY DEF Owns, Live, LiveStatuses, FinishTerminal
<1> QED
  BY <1>1, TerminalEnd, EndOutcome

(* finish_prediction_reminder_retry: a part still waits, if one was sent. *)
LEMMA RetryOutcome ==
  ASSUME OutcomeInv, IInv', NEW w \in Workers, Busy(worker[w]), Leave(w),
         NEW d, NEW failed, FinishRetry(w, d, failed),
         NEW x, sends' = [sends EXCEPT ![worker[w].id] = x], Consistent(store, sends'),
         Mine(w).claim = w =>
           /\ Answered(d, x) /\ Answered(failed, x) /\ Keeps(Mine(w), d)
           /\ \A n \in Numbers : d.parts[n] \notin {"skipped", "terminal_failed"}
           /\ Has(d, {"sent"}) => Has(d, {"pending"})
  PROVE  OutcomeInv'
<1>1. worker[w].id \in Ids /\ StoreOK(store)
  BY InHand DEF OutcomeInv, IInv
<1>2. sends'[worker[w].id] = x
  BY <1>1 DEF OutcomeInv, IInv, TypeOK
<1>3. CASE Mine(w).claim # w
  BY <1>3, UntouchedOutcome DEF FinishRetry
<1>4. CASE Mine(w).claim = w
  <2>1. Owns(w, {"preparing", "sending"}) /\ UnderWay(Mine(w), sends[worker[w].id])
    BY <1>4, MineUnderWay, Bounds DEF Owns, Decided
  <2>2. PICK delay \in Delays :
          \/ FinishTerminal(w, failed)
          \/ Put(w, [d EXCEPT !.status = "retry", !.attempts = @ + 1, !.next = now + delay,
                              !.claim = "none", !.lease = 0])
    BY <1>4 DEF FinishRetry
  <2>3. CASE FinishTerminal(w, failed)
    BY <1>2, <1>4, <2>1, <2>3, TerminalOutcome
  <2> DEFINE e == [d EXCEPT !.status = "retry", !.attempts = @ + 1, !.next = now + delay,
                            !.claim = "none", !.lease = 0]
  <2>4. CASE Put(w, e)
    <3>1. now + delay \in Nat /\ d \in Delivery /\ d.attempts + 1 \in Nat
      <4>1. now + delay \in Nat
        BY DelaysAssumption, SchedulingOK DEF OutcomeInv, IInv, Scheduling
      <4> QED
        BY <1>4, <4>1 DEF Answered, Delivery
    <3>2. /\ e \in Delivery /\ e.parts = d.parts /\ e.claim = "none" /\ e.status = "retry"
          /\ Keeps(d, e)
      BY <3>1 DEF Delivery, LiveStatuses, Keeps
    <3> HIDE DEF e
    <3>3. Keeps(Mine(w), e) /\ Live(e)
      BY <1>4, <3>2 DEF Keeps, Live, LiveStatuses
    <3>4. Decided(e, x)
      BY <1>4, <3>2 DEF Decided, Told, LiveStatuses, Answered, Has
    <3>5. Consistent(store, sends)'
      BY <2>1, <2>4, <3>2, <3>3, <3>4, PutConsistent DEF UnderWay
    <3>6. Changes(store, worker[w].id, e)
      BY <1>1, <2>4, <3>2, PutChanges
    <3> QED
      BY <3>2, <3>5, <3>6, LeftOutcome
  <2> QED
    BY <2>2, <2>3, <2>4
<1> QED
  BY <1>3, <1>4

-----------------------------------------------------------------------------
(* Up to the first send *)

(* Sends are as they were. *)
LEMMA SendsSame ==
  ASSUME OutcomeInv, NEW w \in Workers, Busy(worker[w]), UNCHANGED sends
  PROVE  /\ sends' = [sends EXCEPT ![worker[w].id] = sends[worker[w].id]]
         /\ Consistent(store, sends')
BY InHand, SameSends DEF OutcomeInv

(* Before anything is being sent, the delivery in hand is as its parts say. *)
LEMMA CalmInHand ==
  ASSUME OutcomeInv, NEW w \in Workers, worker[w].pc \in {"preflight", "rendering"},
         Mine(w).claim = w
  PROVE  LET d == Mine(w)
         IN  /\ Answered(d, sends[worker[w].id]) /\ d.status = "preparing"
             /\ UnderWay(d, sends[worker[w].id])
             /\ \A n \in Numbers : d.parts[n] \notin {"skipped", "terminal_failed"}
             /\ Has(d, {"sent"}) => Has(d, {"pending"})
<1>1. Busy(worker[w])
  BY DEF Busy
<1>2. Mine(w).status = "preparing" /\ UnderWay(Mine(w), sends[worker[w].id])
  BY <1>1, MineUnderWay DEF OutcomeInv, AtWork
<1> QED
  BY <1>2 DEF UnderWay, DelOK, Decided, Told, LiveStatuses, Has, Answered

LEMMA CalmEndOutcome ==
  ASSUME OutcomeInv, IInv', NEW w \in Workers, worker[w].pc \in {"preflight", "rendering"},
         FinishRetry(w, Mine(w), Mine(w)) \/ FinishTerminal(w, Mine(w)),
         Leave(w), UNCHANGED <<environment, sends, crashes>>
  PROVE  OutcomeInv'
<1>1. /\ Busy(worker[w]) /\ worker[w].id \in Ids /\ StoreOK(store)
      /\ Mine(w) \in Delivery /\ Mine(w) = store.dels[worker[w].id]
  BY InHand DEF Busy, OutcomeInv, IInv, DelOK, Mine
<1>2. /\ sends' = [sends EXCEPT ![worker[w].id] = sends[worker[w].id]]
      /\ Consistent(store, sends')
  BY <1>1, SendsSame
<1>3. CASE FinishRetry(w, Mine(w), Mine(w))
  BY <1>1, <1>2, <1>3, CalmInHand, RetryOutcome DEF Keeps
<1>4. CASE FinishTerminal(w, Mine(w)) /\ Owns(w, {"preparing", "sending"})
  BY <1>1, <1>2, <1>4, CalmInHand, TerminalOutcome DEF Owns
<1>5. CASE FinishTerminal(w, Mine(w)) /\ ~Owns(w, {"preparing", "sending"})
  <2>1. Changes(store, worker[w].id, Mine(w)) /\ Put(w, Mine(w))
    BY <1>1, <1>5, PutChanges DEF FinishTerminal
  <2>2. Decided(Mine(w), sends[worker[w].id])
    BY <1>1, MineUnderWay
  <2>3. Keeps(Mine(w), Mine(w)) /\ (Live(Mine(w)) \/ Unsent(sends[worker[w].id])
        \/ ~Unsent(sends[worker[w].id]))
    BY DEF Keeps
  <2>4. Consistent(store, sends)'
    BY <1>1, <1>2, <2>1, <2>2, <2>3, PutConsistent
  <2> QED
    BY <1>1, <2>1, <2>4, LeftOutcome
<1> QED
  BY <1>3, <1>4, <1>5

LEMMA PreflightFailsOutcome ==
  ASSUME OutcomeInv, IInv', NEW w \in Workers, PreflightFails(w) PROVE OutcomeInv'
BY CalmEndOutcome DEF PreflightFails

LEMMA RenderFailsOutcome ==
  ASSUME OutcomeInv, IInv', NEW w \in Workers, RenderFails(w) PROVE OutcomeInv'
BY CalmEndOutcome DEF RenderFails

(* A claim that is found stale is settled, or it was lost already. *)
LEMMA StaleOutcome ==
  ASSUME OutcomeInv, IInv', NEW w \in Workers, Busy(worker[w]),
         UNCHANGED store \/ (Mine(w).claim = w /\ SettleMine(w, StaleFate(Mine(w)))),
         Leave(w), UNCHANGED <<environment, sends, crashes>>
  PROVE  OutcomeInv'
<1>1. CASE UNCHANGED store
  BY <1>1, SendsSame, UntouchedOutcome
<1>2. CASE Mine(w).claim = w /\ SettleMine(w, StaleFate(Mine(w)))
  <2>1. UnderWay(Mine(w), sends[worker[w].id])
    BY <1>2, MineUnderWay
  <2>2. FateOK(StaleFate(Mine(w))) /\ EndOK(Mine(w), sends[worker[w].id], StaleFate(Mine(w)))
    BY <2>1, StaleTame, StaleEnd DEF UnderWay, DelOK, TameFate
  <2>3. Consistent(store, sends')
    BY SendsSame
  <2> QED
    BY <1>2, <2>2, <2>3, EndOutcome
<1> QED
  BY <1>1, <1>2

LEMMA PrepareOutcome ==
  ASSUME OutcomeInv, IInv', NEW w \in Workers, Prepare(w) PROVE OutcomeInv'
<1> DEFINE i == worker[w].id
           d == Mine(w)
           x == sends[i]
<1>1. /\ worker[w].pc = "preflight" /\ Busy(worker[w])
      /\ UNCHANGED <<environment, sends, crashes>>
  BY DEF Prepare, Busy
<1>2. CASE ~Renewable(w)
  BY <1>1, <1>2, StaleOutcome DEF Prepare
<1>3. CASE Renewable(w) /\ ~(d.status = "preparing" /\ Current(store, i))
  <2>1. SettleMine(w, StaleFate(d)) /\ Leave(w)
    BY <1>3 DEF Prepare
  <2> QED
    BY <1>1, <1>3, <2>1, StaleOutcome DEF Renewable, Owns
<1>4. CASE Renewable(w) /\ d.status = "preparing" /\ Current(store, i)
  <2>1. /\ d.claim = w /\ d \in Delivery /\ d.source # "none" /\ DelOK(d) /\ i \in Ids
        /\ UnderWay(d, x) /\ (Has(d, {"sent"}) => Has(d, {"pending"}))
    BY <1>1, <1>4, InHand, CalmInHand DEF Renewable, Owns, DelOK, OutcomeInv
  <2>2. /\ Renewed(d) \in Delivery /\ Renewed(d).claim = w /\ Renewed(d).parts = d.parts
        /\ Keeps(d, Renewed(d)) /\ Renewed(d).status = "preparing"
    BY <1>4, <2>1, RenewedOK, RenewedKeeps DEF OutcomeInv, IInv
  <2>3. sends' = [sends EXCEPT ![i] = x]
    BY <1>1, SendsSame
  <2>4. CASE Has(d, {"sent"})
    <3> DEFINE e == [Renewed(d) EXCEPT !.status = "sending"]
               todo == {n \in Numbers : d.parts[n] = "pending"}
               l == At("sending", i, todo)
    <3>1. Put(w, e) /\ Becomes(w, l)
      BY <1>4, <2>4 DEF Prepare
    <3>2. /\ e \in Delivery /\ e.claim = w /\ e.parts = d.parts /\ e.status = "sending"
          /\ Keeps(d, e)
      BY <2>2 DEF Delivery, LiveStatuses, Keeps
    <3>3. todo # {}
      BY <2>1, <2>4 DEF Has
    <3>4. l.pc = "sending" /\ l.id = i /\ l.todo = todo
      BY DEF At
    <3> HIDE DEF e, l, todo
    <3>5. Decided(e, x) /\ Live(e)
      BY <2>1, <3>2, Bounds DEF UnderWay, Decided, Told, Live, LiveStatuses
    <3>6. AtWork(l, w, e)
      BY <3>3, <3>4 DEF AtWork
    <3> QED
      BY <1>1, <2>1, <2>3, <3>1, <3>2, <3>4, <3>5, <3>6, HolderOutcome
  <2>5. CASE ~Has(d, {"sent"})
    <3> DEFINE e == [Renewed(d) EXCEPT !.parts = NoParts]
               l == At("rendering", i, {})
    <3>1. Put(w, e) /\ Becomes(w, l)
      BY <1>4, <2>5 DEF Prepare
    <3>2. /\ e \in Delivery /\ e.claim = w /\ e.parts = NoParts /\ e.status = "preparing"
          /\ Keeps(d, e)
      BY <2>2 DEF Delivery, Keeps, NoParts, PartStatuses
    <3>3. l.pc = "rendering" /\ l.id = i
      BY DEF At
    <3> HIDE DEF e, l
    <3>4. \A n \in Numbers : e.parts[n] = "none"
      BY <3>2 DEF NoParts
    <3>5. Decided(e, x) /\ Live(e)
      BY <2>1, <3>2, <3>4, Bounds DEF Decided, Told, Live, LiveStatuses
    <3>6. AtWork(l, w, e)
      BY <3>2, <3>3 DEF AtWork
    <3> QED
      BY <1>1, <2>1, <2>3, <3>1, <3>2, <3>3, <3>5, <3>6, HolderOutcome
  <2> QED
    BY <2>4, <2>5
<1> QED
  BY <1>2, <1>3, <1>4

LEMMA StorePartsOutcome ==
  ASSUME OutcomeInv, IInv', NEW w \in Workers, StoreParts(w) PROVE OutcomeInv'
<1> DEFINE i == worker[w].id
           d == Mine(w)
           x == sends[i]
<1>1. /\ worker[w].pc = "rendering" /\ Busy(worker[w])
      /\ UNCHANGED <<environment, sends, crashes>>
  BY DEF StoreParts, Busy
<1>2. CASE UNCHANGED store /\ Leave(w)
  BY <1>1, <1>2, StaleOutcome
<1>3. ASSUME Owns(w, {"preparing"}), NEW k \in Numbers,
             Put(w, [d EXCEPT !.status = "sending",
                              !.parts = [n \in Numbers |-> IF n <= k THEN "pending" ELSE "none"]]),
             Becomes(w, At("sending", i, 1..k))
      PROVE  OutcomeInv'
  <2> DEFINE parts == [n \in Numbers |-> IF n <= k THEN "pending" ELSE "none"]
             e == [d EXCEPT !.status = "sending", !.parts = parts]
             l == At("sending", i, 1..k)
  <2>1. /\ d.claim = w /\ d \in Delivery /\ i \in Ids
    BY <1>1, <1>3, InHand DEF Owns, DelOK, OutcomeInv
  <2>2. sends' = [sends EXCEPT ![i] = x]
    BY <1>1, SendsSame
  <2>3. parts \in [Numbers -> PartStatuses] /\ \A n \in Numbers : parts[n] \in {"pending", "none"}
    BY DEF PartStatuses
  <2> HIDE DEF parts
  <2>4. /\ e \in Delivery /\ e.claim = w /\ e.parts = parts /\ e.status = "sending"
        /\ Keeps(d, e)
    BY <2>1, <2>3 DEF Delivery, LiveStatuses, Keeps
  <2>5. l.pc = "sending" /\ l.id = i /\ l.todo = 1..k /\ 1..k # {}
    BY Bounds DEF At, Numbers
  <2>6. Becomes(w, l) /\ Put(w, e)
    BY <1>3 DEF parts
  <2> HIDE DEF e, l
  <2>7. Decided(e, x) /\ Live(e)
    BY <2>3, <2>4, Bounds DEF Decided, Told, Live, LiveStatuses
  <2>8. AtWork(l, w, e)
    BY <2>5 DEF AtWork
  <2> QED
    BY <1>1, <2>1, <2>2, <2>4, <2>5, <2>6, <2>7, <2>8, HolderOutcome
<1> QED
  BY <1>2, <1>3 DEF StoreParts

-----------------------------------------------------------------------------
(* The parts are sent *)

LEMMA MarkOutcome ==
  ASSUME OutcomeInv, IInv', NEW w \in Workers, Mark(w) PROVE OutcomeInv'
<1> DEFINE i == worker[w].id
           d == Mine(w)
           p == Part(w)
<1>1. /\ worker[w].pc = "sending" /\ Busy(worker[w])
      /\ UNCHANGED <<environment, crashes>>
  BY DEF Mark, Busy
<1>2. CASE ~Renewable(w)
  BY <1>1, <1>2, StaleOutcome DEF Mark
<1>3. CASE Renewable(w) /\ ~(d.status = "sending" /\ Current(store, i))
  <2>1. SettleMine(w, StaleFate(d)) /\ Leave(w) /\ UNCHANGED sends
    BY <1>3 DEF Mark
  <2> QED
    BY <1>1, <1>3, <2>1, StaleOutcome DEF Renewable, Owns
<1>4. CASE Renewable(w) /\ d.status = "sending" /\ Current(store, i)
  <2> DEFINE r == Renewed(d)
  <2>1. /\ d.claim = w /\ d.source # "none" /\ DelOK(d) /\ d \in Delivery
        /\ i \in Ids /\ UnderWay(d, sends[i]) /\ worker[w].todo # {}
        /\ sends[i] \in [Numbers -> Int]
    BY <1>1, <1>4, InHand, MineUnderWay
       DEF Renewable, Owns, OutcomeInv, AtWork, DelOK, IInv, TypeOK
  <2>2. /\ r \in Delivery /\ r.claim = w /\ r.parts = d.parts /\ r.status = "sending"
        /\ Keeps(d, r)
    BY <1>4, <2>1, RenewedOK, RenewedKeeps DEF OutcomeInv, IInv
  <2> HIDE DEF r
  <2>3. ASSUME d.parts[p] = "pending", Put(w, WithPart(r, p, "sending")),
               Becomes(w, At("awaiting", i, worker[w].todo)), Sends(w, 1)
        PROVE  OutcomeInv'
    <3> DEFINE e == WithPart(r, p, "sending")
               l == At("awaiting", i, worker[w].todo)
               x == Counted(sends[i], p, 1)
    <3>1. l.pc = "awaiting" /\ l.id = i /\ l.todo = worker[w].todo
      BY DEF At
    <3>2. /\ e \in Delivery /\ e.claim = w /\ e.status = "sending"
          /\ \A n \in Numbers : e.parts[n] = IF n = p THEN "sending" ELSE d.parts[n]
      BY <2>2, WithPartOK DEF PartStatuses
    <3>3. Keeps(d, e)
      BY <2>2, WithPartKeeps DEF Keeps
    <3>4. \A n \in Numbers : x[n] = IF n = p THEN sends[i][n] + 1 ELSE sends[i][n]
      BY <2>1, CountedOK
    <3>5. sends' = [sends EXCEPT ![i] = x]
      BY <2>3, SendsCounted
    <3>6. Becomes(w, l) /\ Put(w, e)
      BY <2>3
    <3> HIDE DEF e, l, x
    <3>7. Decided(e, x) /\ Live(e)
      BY <2>1, <3>2, <3>4, Bounds DEF UnderWay, Decided, Told, Live, LiveStatuses
    <3>8. AtWork(l, w, e)
      BY <2>1, <3>1, <3>2 DEF AtWork
    <3> QED
      BY <1>1, <2>1, <3>1, <3>2, <3>3, <3>5, <3>6, <3>7, <3>8, HolderOutcome
  <2>4. ASSUME Put(w, r), Leave(w), UNCHANGED sends PROVE OutcomeInv'
    <3> DEFINE l == At("claiming", 0, {})
    <3>1. ~Busy(l) /\ Becomes(w, l)
      BY <2>4 DEF Leave, Busy, At
    <3>2. sends' = [sends EXCEPT ![i] = sends[i]]
      BY <1>1, <2>4, SendsSame
    <3>3. Decided(r, sends[i]) /\ Live(r)
      BY <1>4, <2>1, <2>2 DEF UnderWay, Decided, Live, LiveStatuses
    <3> HIDE DEF l
    <3> QED
      BY <1>1, <2>1, <2>2, <2>4, <3>1, <3>2, <3>3, HolderOutcome
  <2> QED
    BY <1>4, <2>3, <2>4 DEF Mark, r
<1> QED
  BY <1>2, <1>3, <1>4

(* The delivery in hand with another status of the part in hand *)
LEMMA PartBecomesKeeps ==
  ASSUME OutcomeInv, NEW w \in Workers, worker[w].pc = "awaiting", NEW status \in PartStatuses,
         status # "none"
  PROVE  LET d == PartBecomes(w, status)
         IN  /\ Keeps(Mine(w), d) /\ d.status = Mine(w).status
             /\ Mine(w).claim = w => d.parts[Part(w)] = status
<1>1. /\ Mine(w) \in Delivery /\ (Mine(w).claim = w => HeldOK(worker[w], Mine(w)))
      /\ Part(w) \in Numbers /\ Mine(w).parts[Part(w)] \in {"sending", "unknown"}
  BY InHand, PartAsked DEF OutcomeInv, Busy, DelOK
<1>2. Keeps(Mine(w), PartBecomes(w, status))
  BY <1>1, WithPartKeeps DEF PartBecomes, Keeps
<1>3. PartBecomes(w, status).status = Mine(w).status
  BY <1>1, WithPartOK DEF PartBecomes
<1>4. Mine(w).claim = w => PartBecomes(w, status).parts[Part(w)] = status
  BY <1>1, WithPartOK DEF PartBecomes, HeldOK
<1> QED
  BY <1>2, <1>3, <1>4

(* A worker that lost its claim while it awaited tells of its part alone. *)
LEMMA LostOutcome ==
  ASSUME OutcomeInv, IInv', NEW w \in Workers, worker[w].pc = "awaiting",
         ~Owns(w, {"preparing", "sending"}), Leave(w) \/ Becomes(w, Idle),
         NEW status \in {"unknown", "terminal_failed"}, Put(w, PartBecomes(w, status)),
         NEW x, sends' = [sends EXCEPT ![worker[w].id] = x],
         \A n \in Numbers : x[n] = sends[worker[w].id][n] \/ (n = Part(w) /\ x[n] = 0)
  PROVE  OutcomeInv'
<1> DEFINE i == worker[w].id
           d == Mine(w)
           p == Part(w)
           e == PartBecomes(w, status)
<1>1. /\ Busy(worker[w]) /\ i \in Ids /\ StoreOK(store) /\ Decided(d, sends[i])
      /\ AtWork(worker[w], w, d)
  BY InHand, MineUnderWay DEF Busy, OutcomeInv, IInv
<1>2. p \in Numbers /\ d.parts[p] \in {"sending", "unknown"} /\ sends[i][p] = 1
  BY PartAsked
<1>3. /\ e \in Delivery /\ e.claim = d.claim /\ e.status = d.status /\ Keeps(d, e)
      /\ \A n \in Numbers \ {p} : e.parts[n] = d.parts[n]
      /\ e.parts[p] \in {status, "unknown"}
  BY <1>2, PartBecomesOK, PartBecomesKeeps DEF PartStatuses, OutcomeInv, DelOK
<1> HIDE DEF e
<1>4. ~Live(d) /\ d.claim = "none"
  BY <1>1, Bounds DEF AtWork, Owns, Decided, Live, LiveStatuses
<1>5. ~Unsent(sends[i])
  BY <1>2 DEF Unsent
<1>6. Told(e.status, e.parts, x)
  <2>1. ASSUME NEW n \in Numbers, e.parts[n] = "sent" PROVE x[n] = 1
    BY <1>1, <1>3, <2>1 DEF Decided, Told
  <2>2. d.status \notin {"sent", "cancelled", "expired", "terminal_failed"}
    BY <1>1, <1>2, <1>5 DEF Decided, Told
  <2>3. ASSUME d.status = "partial" PROVE \E n \in Numbers : e.parts[n] = "sent"
    BY <1>1, <1>2, <1>3, <2>3 DEF Decided, Told
  <2> QED
    BY <1>3, <1>4, <2>1, <2>2, <2>3 DEF Told, Live, LiveStatuses
<1>7. Decided(e, x) /\ ~Live(e)
  BY <1>1, <1>3, <1>4, <1>6 DEF Decided, Live
<1>8. Consistent(store, sends)'
  BY <1>1, <1>3, <1>4, <1>5, <1>7, PutConsistent DEF e
<1>9. Changes(store, i, e)
  BY <1>1, <1>3, PutChanges DEF e
<1> QED
  BY <1>1, <1>3, <1>4, <1>8, <1>9, LeftOutcome

(* The part may have arrived. *)
LEMMA UnknownOutcome ==
  ASSUME OutcomeInv, IInv', NEW w \in Workers, worker[w].pc = "awaiting", FinishUnknown(w),
         Leave(w) \/ Becomes(w, Idle), UNCHANGED <<environment, sends, crashes>>
  PROVE  OutcomeInv'
<1> DEFINE i == worker[w].id
           e == PartBecomes(w, "unknown")
<1>1. /\ Busy(worker[w]) /\ sends' = [sends EXCEPT ![i] = sends[i]]
      /\ Consistent(store, sends')
  BY SendsSame DEF Busy
<1>2. CASE ~Owns(w, {"preparing", "sending"})
  BY <1>1, <1>2, LostOutcome DEF FinishUnknown
<1>3. CASE Owns(w, {"preparing", "sending"})
  <2>1. /\ Mine(w).claim = w /\ UnderWay(Mine(w), sends[i]) /\ Part(w) \in Numbers
    BY <1>1, <1>3, MineUnderWay, PartAsked DEF Owns
  <2>2. /\ e \in Delivery
        /\ \A n \in Numbers \ {Part(w)} : e.parts[n] = Mine(w).parts[n]
        /\ e.parts[Part(w)] = "unknown"
    BY <2>1, PartBecomesOK DEF PartStatuses, OutcomeInv, DelOK
  <2> HIDE DEF e
  <2>3. FateOK(UnknownFate(e)) /\ EndOK(Mine(w), sends[i], UnknownFate(e))
    <3>1. e.parts \in [Numbers -> PartStatuses]
      BY <2>2 DEF Delivery
    <3>2. \A n \in Numbers : e.parts[n] = "sent" => sends[i][n] = 1
      BY <2>1, <2>2 DEF UnderWay, Decided, Told
    <3> QED
      BY <2>1, <3>1, <3>2 DEF UnderWay, EndOK, Told, UnknownFate, Fate, FateOK, LiveStatuses,
                              DeliveryStatuses, OccurrenceStatuses
  <2>4. SettleMine(w, UnknownFate(e))
    BY <1>3 DEF FinishUnknown, e
  <2> QED
    BY <1>1, <2>1, <2>3, <2>4, EndOutcome
<1> QED
  BY <1>2, <1>3

LEMMA HandleUnknownOutcome ==
  ASSUME OutcomeInv, IInv', NEW w \in Workers, HandleUnknown(w) PROVE OutcomeInv'
BY UnknownOutcome DEF HandleUnknown

LEMMA HandleSentOutcome ==
  ASSUME OutcomeInv, IInv', NEW w \in Workers, HandleSent(w) PROVE OutcomeInv'
<1> DEFINE i == worker[w].id
           d == Mine(w)
           p == Part(w)
           todo == worker[w].todo \ {p}
           pc == IF todo = {} THEN "finishing" ELSE "sending"
<1>1. /\ worker[w].pc = "awaiting" /\ Busy(worker[w])
      /\ UNCHANGED <<environment, sends, crashes>>
  BY DEF HandleSent, Busy
<1>2. CASE FinishUnknown(w) /\ Leave(w)
  BY <1>1, <1>2, UnknownOutcome
<1>3. CASE /\ Owns(w, {"sending"}) /\ d.parts[p] = "sending"
           /\ Put(w, WithPart(d, p, "sent")) /\ Becomes(w, At(pc, i, todo))
  <2> DEFINE e == WithPart(d, p, "sent")
             l == At(pc, i, todo)
             x == sends[i]
  <2>1. /\ d.claim = w /\ d.status = "sending" /\ d \in Delivery /\ UnderWay(d, x)
        /\ p \in Numbers /\ x[p] = 1 /\ sends' = [sends EXCEPT ![i] = x]
    BY <1>1, <1>3, MineUnderWay, PartAsked, SendsSame DEF Owns, UnderWay, DelOK
  <2>2. l.id = i /\ l.todo = todo /\ l.pc = pc
    BY DEF At
  <2>3. /\ e \in Delivery /\ e.claim = w /\ e.status = "sending" /\ Keeps(d, e)
        /\ \A n \in Numbers : e.parts[n] = IF n = p THEN "sent" ELSE d.parts[n]
    BY <2>1, WithPartOK, WithPartKeeps DEF PartStatuses
  <2>4. Becomes(w, l) /\ Put(w, e)
    BY <1>3
  <2> HIDE DEF e, l, todo
  <2>5. Decided(e, x) /\ Live(e)
    BY <2>1, <2>3, Bounds DEF UnderWay, Decided, Told, Live, LiveStatuses
  <2>6. AtWork(l, w, e)
    BY <2>1, <2>2, <2>3 DEF AtWork, Has
  <2> QED
    BY <1>1, <2>1, <2>2, <2>3, <2>4, <2>5, <2>6, HolderOutcome
<1> QED
  BY <1>2, <1>3 DEF HandleSent

(* Telegram refused: the part did not arrive, and is not told to have. *)
LEMMA RefusedConsistent ==
  ASSUME OutcomeInv, NEW w \in Workers, worker[w].pc = "awaiting",
         NEW x, sends' = [sends EXCEPT ![worker[w].id] = x],
         x[Part(w)] = 0, \A n \in Numbers \ {Part(w)} : x[n] = sends[worker[w].id][n]
  PROVE  Consistent(store, sends')
<1> DEFINE i == worker[w].id
<1>1. i \in Ids /\ Decided(Mine(w), sends[i]) /\ Mine(w) = store.dels[i]
  BY InHand, MineUnderWay DEF Busy, OutcomeInv, Mine
<1>2. Part(w) \in Numbers /\ Mine(w).parts[Part(w)] \in {"sending", "unknown"}
  BY PartAsked
<1>3. sends'[i] = x /\ \A j \in Ids : j # i => sends'[j] = sends[j]
  BY <1>1 DEF OutcomeInv, IInv, TypeOK
<1>4. Unsent(sends[i]) => Unsent(x)
  BY DEF Unsent
<1>5. Decided(Mine(w), x)
  BY <1>1, <1>2, <1>4 DEF Decided, Told
<1>6. \A j \in Ids : Keeps(store.dels[j], store.dels[j]) /\ Decided(store.dels[j], sends'[j])
                     /\ (Unsent(sends'[j]) \/ ~Unsent(sends[j]))
  BY <1>1, <1>3, <1>4, <1>5 DEF Keeps, OutcomeInv, Consistent
<1> QED
  BY <1>6, ProgressConsistent DEF OutcomeInv

LEMMA HandleRefusedOutcome ==
  ASSUME OutcomeInv, IInv', NEW w \in Workers, HandleRefused(w) PROVE OutcomeInv'
<1> DEFINE i == worker[w].id
           d == Mine(w)
           p == Part(w)
           again == PartBecomes(w, "pending")
           failed == PartBecomes(w, "terminal_failed")
           x == Counted(sends[i], p, -1)
<1>1. /\ worker[w].pc = "awaiting" /\ Busy(worker[w]) /\ UNCHANGED <<environment, crashes>>
      /\ Leave(w) /\ Sends(w, -1)
      /\ FinishRetry(w, again, failed) \/ FinishTerminal(w, failed)
  BY DEF HandleRefused, Busy
<1>2. /\ i \in Ids /\ p \in Numbers /\ sends[i][p] = 1 /\ sends[i] \in [Numbers -> Int]
      /\ RowOK(d, sends[i])
  BY <1>1, InHand, PartAsked DEF OutcomeInv, IInv, TypeOK
<1>3. sends' = [sends EXCEPT ![i] = x]
  BY <1>1, SendsCounted
<1>4. x[p] = 0 /\ \A n \in Numbers \ {p} : x[n] = sends[i][n]
  BY <1>2, CountedOK
<1> HIDE DEF x
<1>5. Consistent(store, sends') /\ sends'[i] = x
  BY <1>1, <1>2, <1>3, <1>4, RefusedConsistent DEF OutcomeInv, IInv, TypeOK
<1>6. ASSUME NEW status \in {"pending", "terminal_failed"}, d.claim = w
      PROVE  LET e == PartBecomes(w, status)
             IN  /\ Answered(e, x) /\ Keeps(d, e) /\ e.parts[p] = status
                 /\ \A n \in Numbers \ {p} : e.parts[n] = d.parts[n]
  <2> DEFINE e == PartBecomes(w, status)
  <2>1. /\ DelOK(e) /\ Keeps(d, e) /\ e.parts[p] = status /\ Calm(e.parts)
        /\ \A n \in Numbers \ {p} : e.parts[n] = d.parts[n]
    BY <1>1, <1>6, PartBecomesOK, PartBecomesKeeps DEF PartStatuses, OutcomeInv
  <2>2. Decided(d, sends[i])
    BY <1>1, MineUnderWay
  <2> HIDE DEF e
  <2>3. Answered(e, x)
    BY <1>2, <1>4, <1>6, <2>1, <2>2 DEF Answered, DelOK, RowOK, Decided, Told
  <2> QED
    BY <2>1, <2>3 DEF e
<1>7. ASSUME d.claim = w
      PROVE  /\ \A n \in Numbers : again.parts[n] \notin {"skipped", "terminal_failed"}
             /\ Has(again, {"pending"})
  <2>1. UnderWay(d, sends[i])
    BY <1>1, <1>7, MineUnderWay
  <2>2. again.parts[p] = "pending" /\ \A n \in Numbers \ {p} : again.parts[n] = d.parts[n]
    BY <1>6, <1>7
  <2> QED
    BY <1>2, <2>1, <2>2 DEF UnderWay, Live, Decided, Told, Has
<1>8. CASE FinishRetry(w, again, failed)
  <2>1. d.claim = w => Answered(again, x) /\ Answered(failed, x) /\ Keeps(d, again)
    BY <1>6
  <2> HIDE DEF again, failed
  <2> QED
    BY <1>1, <1>3, <1>5, <1>7, <1>8, <2>1, RetryOutcome
<1>9. CASE FinishTerminal(w, failed) /\ Owns(w, {"preparing", "sending"})
  <2>1. Answered(failed, x)
    BY <1>6, <1>9 DEF Owns
  <2> QED
    BY <1>1, <1>5, <1>9, <2>1, TerminalOutcome
<1>10. CASE FinishTerminal(w, failed) /\ ~Owns(w, {"preparing", "sending"})
  <2>1. Put(w, PartBecomes(w, "terminal_failed"))
    BY <1>10 DEF FinishTerminal
  <2>2. \A n \in Numbers : x[n] = sends[i][n] \/ (n = Part(w) /\ x[n] = 0)
    BY <1>4
  <2>3. worker[w].pc = "awaiting" /\ ~Owns(w, {"preparing", "sending"}) /\ Leave(w)
    BY <1>1, <1>10
  <2> HIDE DEF p, again, failed
  <2> QED
    BY <1>3, <2>1, <2>2, <2>3, LostOutcome
<1> QED
  BY <1>1, <1>8, <1>9, <1>10

LEMMA FinishSuccessOutcome ==
  ASSUME OutcomeInv, IInv', NEW w \in Workers, FinishSuccess(w) PROVE OutcomeInv'
<1> DEFINE f == Fate("sent", "sent", Mine(w).parts)
           x == sends[worker[w].id]
<1>1. /\ worker[w].pc = "finishing" /\ Busy(worker[w])
      /\ Leave(w) /\ UNCHANGED <<environment, sends, crashes>>
  BY DEF FinishSuccess, Busy
<1>2. CASE UNCHANGED store
  BY <1>1, <1>2, StaleOutcome
<1>3. CASE Whole(Mine(w)) /\ Owns(w, {"sending"}) /\ SettleMine(w, f)
  <2>1. Mine(w).claim = w /\ UnderWay(Mine(w), x) /\ Has(Mine(w), {"sent"})
    BY <1>1, <1>3, MineUnderWay DEF Owns, OutcomeInv, AtWork
  <2>2. EndOK(Mine(w), x, f)
    BY <1>3, <2>1, WholeParts, SentEnd
  <2>3. FateOK(f)
    BY <2>1, SamePartsTame DEF UnderWay, DelOK, DeliveryStatuses, OccurrenceStatuses, TameFate
  <2>4. Consistent(store, sends') /\ sends' = sends
    BY <1>1, SendsSame
  <2> HIDE DEF f
  <2> QED
    BY <1>1, <1>3, <2>1, <2>2, <2>3, <2>4, EndOutcome
<1> QED
  BY <1>2, <1>3 DEF FinishSuccess

-----------------------------------------------------------------------------
(* The theorems: what tables say *)

LEMMA NextOutcome == OutcomeInv /\ [Next]_vars => OutcomeInv'
<1> SUFFICES ASSUME OutcomeInv, [Next]_vars PROVE OutcomeInv'
  OBVIOUS
<1>1. IInv'
  BY NextIInv DEF OutcomeInv
<1>2. CASE UNCHANGED vars
  <2>1. Consistent(store', sends') /\ AllTame(store, store')
    BY <1>2, AllTameSame DEF vars, OutcomeInv, IInv
  <2> QED
    BY <1>1, <1>2, <2>1, TameOutcome DEF vars
<1>3. CASE Environment
  <2>1. CASE Tick
    <3>1. Consistent(store', sends') /\ AllTame(store, store') /\ UNCHANGED worker
      BY <1>3, <2>1, AllTameSame DEF Environment, Tick, OutcomeInv, IInv
    <3> QED
      BY <1>1, <3>1, TameOutcome
  <2>2. CASE StoreCommand
    BY <1>1, <1>3, <2>2, CommandOutcome DEF Environment
  <2> QED
    BY <1>3, <2>1, <2>2 DEF Environment
<1>4. ASSUME NEW w \in Workers, WorkerStep(w) PROVE OutcomeInv'
  BY <1>1, <1>4, StartRoundOutcome, ClaimOutcome, PreflightFailsOutcome, PrepareOutcome,
     RenderFailsOutcome, StorePartsOutcome, MarkOutcome, HandleSentOutcome,
     HandleRefusedOutcome, HandleUnknownOutcome, FinishSuccessOutcome DEF WorkerStep
<1> QED
  BY <1>1, <1>2, <1>3, <1>4, CrashOutcome DEF Next

(* Every execution satisfies it. *)
LEMMA Outcomes == Spec => []OutcomeInv
<1> QED
  BY InitOutcome, NextOutcome, PTL DEF Spec

(* Something was sent of a delivery if a counter says so. *)
LEMMA SentCounted ==
  ASSUME OutcomeInv, NEW i \in Ids PROVE Sent(i) <=> ~Unsent(sends[i])
BY DEF OutcomeInv, IInv, RowOK, Sent, Unsent

LEMMA OutcomeImplies ==
  OutcomeInv => StatusTellsTruth /\ OneReminderPerOccurrence /\ BatchedIsLive
<1> SUFFICES ASSUME OutcomeInv
             PROVE  StatusTellsTruth /\ OneReminderPerOccurrence /\ BatchedIsLive
  OBVIOUS
<1>1. StatusTellsTruth
  BY SentCounted DEF OutcomeInv, Consistent, Decided, Told, StatusTellsTruth, Has
<1>2. OneReminderPerOccurrence
  BY SentCounted DEF OutcomeInv, Consistent, OneEach, Counts, OneReminderPerOccurrence
<1>3. BatchedIsLive
  BY Bounds DEF OutcomeInv, Consistent, BatchesLive, BatchedIsLive, Ids
<1> QED
  BY <1>1, <1>2, <1>3

(* A delivery that was cancelled, expired or given up was not sent, one that
   is called sent was, and wholly: whatever part failed, whichever worker lost
   its claim meanwhile, and wherever one crashed. *)
THEOREM StatusesAreTrue == Spec => []StatusTellsTruth
<1> QED
  BY Outcomes, OutcomeImplies, PTL

(* Two deliveries that were sent, or may have been, remind of different
   occurrences, be they batches or manual reminders. *)
THEOREM RemindedOnce == Spec => []OneReminderPerOccurrence
<1> QED
  BY Outcomes, OutcomeImplies, PTL

(* Every statement that ends a delivery turns all of its batched rows. *)
THEOREM NoneIsStranded == Spec => []BatchedIsLive
<1> QED
  BY Outcomes, OutcomeImplies, PTL

-----------------------------------------------------------------------------
(* The theorems: what a step does to parts *)

(* An answer, or a change among the statuses of a part that nobody asked for *)
Untold == {"none", "pending", "skipped", "terminal_failed"}
WireStep(from, to) == from = "sending" \/ to = from \/ {from, to} \subseteq Untold

(* No part is asked for, and nothing more was sent. *)
Quiet ==
  \A i \in Ids, n \in Numbers :
    /\ WireStep(store.dels[i].parts[n], store'.dels[i].parts[n])
    /\ sends'[i][n] <= sends[i][n]

(* Telegram is asked for a part. *)
Asking(w) ==
  LET i == worker[w].id
      e == WithPart(Renewed(Mine(w)), Part(w), "sending")
  IN  /\ i \in Ids /\ Part(w) \in Numbers
      /\ Owns(w, {"sending"}) /\ Current(store, i) /\ Mine(w).parts[Part(w)] = "pending"
      /\ Changes(store, i, e)
      /\ e.parts = [Mine(w).parts EXCEPT ![Part(w)] = "sending"]
      /\ \A j \in Ids : j # i => sends'[j] = sends[j]

LEMMA SentNat == ASSUME IInv, NEW i \in Ids, NEW n \in Numbers PROVE sends[i][n] \in Int
BY DEF IInv, TypeOK

(* Settling others' deliveries asks for nothing. *)
LEMMA TameQuiet ==
  ASSUME IInv, AllTame(store, store'), UNCHANGED sends PROVE Quiet
BY SentNat DEF AllTame, Tame, PartStep, Quiet, WireStep, Untold

(* One delivery is written to, over tables s that settling left. *)
LEMMA ChangesQuiet ==
  ASSUME IInv, NEW s, AllTame(store, s), NEW i \in Ids, NEW e, Changes(s, i, e),
         \A n \in Numbers : WireStep(store.dels[i].parts[n], e.parts[n]),
         \A j \in Ids, n \in Numbers : sends'[j][n] <= sends[j][n]
  PROVE  Quiet
BY DEF AllTame, Tame, PartStep, Quiet, WireStep, Untold, Changes

LEMMA MineQuiet ==
  ASSUME IInv, NEW w \in Workers, Busy(worker[w]), NEW e, Changes(store, worker[w].id, e),
         \A n \in Numbers : WireStep(Mine(w).parts[n], e.parts[n]),
         \A j \in Ids, n \in Numbers : sends'[j][n] <= sends[j][n]
  PROVE  Quiet
<1>1. AllTame(store, store) /\ worker[w].id \in Ids
  BY AllTameSame, InHand DEF IInv
<1> QED
  BY <1>1, ChangesQuiet DEF Mine

LEMMA CommandQuiet ==
  ASSUME IInv, StoreCommand, UNCHANGED <<worker, sends, crashes>> PROVE Quiet
<1>1. Scheduling /\ settings.lead \in Nat
  BY SchedulingOK DEF IInv
<1>2. ASSUME NEW enabled \in BOOLEAN, NEW lead \in Leads, SaveSettings(enabled, lead) PROVE Quiet
  <2>1. settings'.lead \in Nat
    BY <1>2, Bounds DEF SaveSettings
  <2> QED
    BY <1>1, <1>2, <2>1, ReconciledTame, TameQuiet DEF SaveSettings, IInv
<1>3. CASE QueueManual
  <2> DEFINE reconciled == Reconciled(store, settings)
             batched == {t \in Targets : /\ Held(reconciled, t) /\ reconciled.occ[t].due <= now
                                  /\ Open(t) /\ reconciled.occ[t].observed = schedule[t]}
             s == Reset(reconciled, {reconciled.occ[t].delivery : t \in batched})
             covered == {t \in Targets : Scheduled(s, t)}
             cutoffs == {now + ManualTicks} \cup {schedule[t] : t \in covered}
             manual(cutoff) == [NoDelivery EXCEPT !.source = "manual", !.status = "pending",
                                                   !.expires = cutoff,
                                                   !.settings = settings.revision]
  <2>1. AllTame(store, s)
    <3>1. AllTame(store, reconciled)
      BY <1>1, ReconciledTame DEF IInv
    <3>2. AllTame(reconciled, s)
      BY <3>1, ResetTame DEF AllTame
    <3> QED
      BY <3>1, <3>2, AllTameTransitive
  <2>2. PICK i \in Ids, cutoff \in cutoffs :
               IsNextId(s, i) /\ store' = Attached(s, i, manual(cutoff), covered)
    BY <1>3 DEF QueueManual
  <2> HIDE DEF covered, cutoffs
  <2>3. manual(cutoff).parts = NoParts
    BY DEF NoDelivery
  <2>4. s.dels[i].source = "none"
    BY <2>2 DEF IsNextId, IsLeast, Unused
  <2>5. \A n \in Numbers : s.dels[i].parts[n] = "none"
    BY <2>1, <2>4 DEF AllTame, StoreOK, DelOK
  <2> HIDE DEF s, manual
  <2>6. s.dels \in [Ids -> Delivery]
    BY <2>1 DEF AllTame, StoreOK, Store
  <2>7. /\ \A j \in Ids : j # i => store'.dels[j] = s.dels[j]
        /\ store'.dels[i].parts = NoParts
    <3> DEFINE items == {Item(s, t) : t \in covered}
               new == [manual(cutoff) EXCEPT !.items = items]
    <3>1. new.parts = manual(cutoff).parts
      BY DEF manual, NoDelivery
    <3>2. store'.dels = [s.dels EXCEPT ![i] = new]
      BY <2>2, Zenon DEF Attached
    <3> HIDE DEF new
    <3> QED
      BY <2>3, <2>6, <3>1, <3>2
  <2>8. ASSUME NEW j \in Ids, NEW n \in Numbers
        PROVE  WireStep(store.dels[j].parts[n], store'.dels[j].parts[n])
    <3>1. Tame(store.dels[j], s.dels[j])
      BY <2>1 DEF AllTame
    <3>2. CASE j = i
      BY <2>5, <2>7, <3>1, <3>2 DEF Tame, PartStep, WireStep, NoParts
    <3>3. CASE j # i
      BY <2>7, <3>1, <3>3 DEF Tame, PartStep, WireStep, Untold
    <3> QED
      BY <3>2, <3>3
  <2> QED
    BY <2>8, SentNat DEF Quiet
<1>4. CASE ~QueueManual /\ ~\E enabled \in BOOLEAN, lead \in Leads : SaveSettings(enabled, lead)
  <2>1. UNCHANGED store
    BY <1>4 DEF StoreCommand, Announce, Move, Drop, CompleteContest, DeleteContest
  <2> QED
    BY <2>1, AllTameSame, TameQuiet DEF IInv
<1> QED
  BY <1>2, <1>3, <1>4

LEMMA SendsStay ==
  ASSUME IInv, UNCHANGED sends
  PROVE  \A j \in Ids, n \in Numbers : sends'[j][n] <= sends[j][n]
BY SentNat

LEMMA ClaimQuiet ==
  ASSUME IInv, NEW w \in Workers, Claim(w) PROVE Quiet
<1> DEFINE s == Expired(Recovered(store))
<1>1. AllTame(store, s) /\ UNCHANGED sends
  BY RidTame DEF Claim
<1> HIDE DEF s
<1>2. /\ StoreOK(s) /\ s \in Store /\ s.dels \in [Ids -> Delivery]
      /\ \A j \in Ids, n \in Numbers : sends'[j][n] <= sends[j][n]
  BY <1>1, SendsStay DEF AllTame, StoreOK, Store
<1>3. ASSUME NEW i \in Waiting(s), store' = Taken(s, i, w) PROVE Quiet
  <2> DEFINE d == s.dels[i]
             e == [d EXCEPT !.status = "preparing", !.claim = w, !.lease = now + LeaseTicks]
             dels == [s.dels EXCEPT ![i] = e]
  <2>1. i \in Ids /\ d \in Delivery
    BY <1>2, <1>3 DEF Waiting
  <2>2. e.parts = d.parts
    BY <2>1 DEF Delivery
  <2>3. store' = [s EXCEPT !.dels = dels]
    BY <1>3, <2>1 DEF Taken
  <2> HIDE DEF e
  <2>4. dels[i] = e /\ \A j \in Ids : j # i => dels[j] = s.dels[j]
    BY <1>2, <2>1
  <2> HIDE DEF dels
  <2>5. store'.dels = dels
    BY <1>2, <2>3 DEF Store
  <2>6. \A j \in Ids : store'.dels[j].parts = s.dels[j].parts
    BY <2>2, <2>4, <2>5
  <2> QED
    BY <1>1, <1>2, <2>6 DEF AllTame, Tame, PartStep, Quiet, WireStep, Untold
<1>4. ASSUME NEW i \in Ids, NEW at \in Instants, IsNextId(s, i), store' = BatchTaken(s, i, at, w)
      PROVE  Quiet
  <2> DEFINE batch == {t \in Targets : Scheduled(s, t) /\ s.occ[t].observed = at}
             new == [NoDelivery EXCEPT !.source = "auto", !.expires = at,
                                  !.settings = settings.revision, !.status = "preparing",
                                  !.claim = w, !.lease = now + LeaseTicks]
             items == {Item(s, t) : t \in batch}
             e == [new EXCEPT !.items = items]
  <2>1. e.parts = NoParts
    BY DEF NoDelivery
  <2>2. store'.dels = [s.dels EXCEPT ![i] = e]
    BY <1>4, Zenon DEF BatchTaken, Attached
  <2> HIDE DEF e
  <2>3. \A j \in Ids : store'.dels[j] = IF j = i THEN e ELSE s.dels[j]
    BY <1>2, <2>2
  <2>4. \A n \in Numbers : s.dels[i].parts[n] = "none"
    BY <1>2, <1>4 DEF IsNextId, IsLeast, Unused, StoreOK, DelOK
  <2>5. \A j \in Ids, n \in Numbers : store'.dels[j].parts[n] = s.dels[j].parts[n]
    BY <2>1, <2>3, <2>4 DEF NoParts
  <2> QED
    BY <1>1, <1>2, <2>5 DEF AllTame, Tame, PartStep, Quiet, WireStep, Untold
<1>5. CASE store' = s
  BY <1>1, <1>5, TameQuiet
<1> QED
  BY <1>3, <1>4, <1>5 DEF Claim, s

(* The delivery in hand ends up with the parts of d. *)
LEMMA OutcomeQuiet ==
  ASSUME IInv, NEW w \in Workers, Busy(worker[w]), NEW d, Outcome(w, d),
         \A n \in Numbers : WireStep(Mine(w).parts[n], d.parts[n]),
         \A j \in Ids, n \in Numbers : sends'[j][n] <= sends[j][n]
  PROVE  Quiet
<1>1. PICK e : /\ Changes(store, worker[w].id, e)
               /\ \A n \in Numbers : e.parts[n] = d.parts[n]
  BY DEF Outcome
<1> QED
  BY <1>1, MineQuiet

LEMMA CalmQuiet ==
  ASSUME IInv, NEW w \in Workers, Busy(worker[w]), worker[w].pc # "awaiting",
         FinishRetry(w, Mine(w), Mine(w)) \/ FinishTerminal(w, Mine(w)), UNCHANGED sends
  PROVE  Quiet
<1>1. DelOK(Mine(w)) /\ Mine(w) \in Delivery
  BY InHand DEF DelOK
<1>2. Mine(w).claim = w => Calm(Mine(w).parts)
  BY InHand DEF HeldOK, Asks, Calm
<1>3. Outcome(w, Mine(w))
  BY <1>1, <1>2, FinishRetryOutcome, FinishTerminalOutcome
<1> QED
  BY <1>3, OutcomeQuiet, SendsStay DEF WireStep

LEMMA StaleQuiet ==
  ASSUME IInv, NEW w \in Workers, Busy(worker[w]), UNCHANGED sends,
         UNCHANGED store \/ (Mine(w).claim = w /\ SettleMine(w, StaleFate(Mine(w))))
  PROVE  Quiet
<1>1. CASE UNCHANGED store
  BY <1>1, AllTameSame, TameQuiet DEF IInv
<1>2. CASE Mine(w).claim = w /\ SettleMine(w, StaleFate(Mine(w)))
  <2>1. Mine(w) \in Delivery /\ Mine(w).source # "none"
    BY <1>2, InHand DEF DelOK
  <2> QED
    BY <1>2, <2>1, StaleTame, SettleTame, TameQuiet
<1> QED
  BY <1>1, <1>2

LEMMA PrepareQuiet ==
  ASSUME IInv, NEW w \in Workers, Prepare(w) PROVE Quiet
<1> DEFINE i == worker[w].id
           d == Mine(w)
<1>1. worker[w].pc = "preflight" /\ Busy(worker[w]) /\ UNCHANGED sends
  BY DEF Prepare, Busy
<1>2. CASE ~Renewable(w)
  BY <1>1, <1>2, StaleQuiet DEF Prepare
<1>3. CASE Renewable(w) /\ ~(d.status = "preparing" /\ Current(store, i))
  BY <1>1, <1>3, StaleQuiet DEF Prepare, Renewable, Owns
<1>4. CASE Renewable(w) /\ d.status = "preparing" /\ Current(store, i)
  <2>1. /\ d.source # "none" /\ DelOK(d) /\ d \in Delivery /\ i \in Ids /\ Calm(d.parts)
        /\ StoreOK(store)
    BY <1>1, <1>4, InHand DEF Renewable, Owns, DelOK, IInv
  <2>2. /\ Renewed(d) \in Delivery /\ Renewed(d).parts = d.parts
    BY <2>1, RenewedOK DEF IInv
  <2>3. CASE Put(w, [Renewed(d) EXCEPT !.status = "sending"])
    <3> DEFINE e == [Renewed(d) EXCEPT !.status = "sending"]
    <3>1. e \in Delivery /\ e.parts = d.parts
      BY <2>2 DEF Delivery, LiveStatuses
    <3> HIDE DEF e
    <3>2. Changes(store, i, e)
      BY <2>1, <2>3, <3>1, PutChanges DEF e
    <3> QED
      BY <1>1, <3>1, <3>2, MineQuiet, SendsStay DEF WireStep
  <2>4. CASE Put(w, [Renewed(d) EXCEPT !.parts = NoParts]) /\ ~Has(d, {"sent"})
    <3> DEFINE e == [Renewed(d) EXCEPT !.parts = NoParts]
    <3>1. e \in Delivery /\ e.parts = NoParts
      BY <2>2 DEF Delivery, NoParts, PartStatuses
    <3> HIDE DEF e
    <3>2. Changes(store, i, e)
      BY <2>1, <2>4, <3>1, PutChanges DEF e
    <3>3. \A n \in Numbers : d.parts[n] \in Untold /\ e.parts[n] = "none"
      BY <2>1, <2>4, <3>1 DEF Calm, Has, Delivery, PartStatuses, NoParts, Untold
    <3> QED
      BY <1>1, <3>2, <3>3, MineQuiet, SendsStay DEF WireStep, Untold
  <2> QED
    BY <1>4, <2>3, <2>4 DEF Prepare
<1> QED
  BY <1>2, <1>3, <1>4

LEMMA StorePartsQuiet ==
  ASSUME IInv, NEW w \in Workers, StoreParts(w) PROVE Quiet
<1> DEFINE i == worker[w].id
           d == Mine(w)
<1>1. worker[w].pc = "rendering" /\ Busy(worker[w]) /\ UNCHANGED sends
  BY DEF StoreParts, Busy
<1>2. CASE UNCHANGED store
  BY <1>1, <1>2, StaleQuiet
<1>3. ASSUME Owns(w, {"preparing"}), NEW k \in Numbers,
             Put(w, [d EXCEPT !.status = "sending",
                              !.parts = [n \in Numbers |-> IF n <= k THEN "pending" ELSE "none"]])
      PROVE  Quiet
  <2> DEFINE parts == [n \in Numbers |-> IF n <= k THEN "pending" ELSE "none"]
             e == [d EXCEPT !.status = "sending", !.parts = parts]
  <2>1. /\ d \in Delivery /\ i \in Ids /\ Calm(d.parts) /\ StoreOK(store)
        /\ \A n \in Numbers : d.parts[n] # "sent"
    BY <1>1, <1>3, InHand DEF Owns, DelOK, IInv, HeldOK
  <2>2. parts \in [Numbers -> PartStatuses] /\ \A n \in Numbers : parts[n] \in {"pending", "none"}
    BY DEF PartStatuses
  <2>3. Put(w, e)
    BY <1>3
  <2> HIDE DEF parts
  <2>4. e \in Delivery /\ e.parts = parts
    BY <2>1, <2>2 DEF Delivery, LiveStatuses
  <2> HIDE DEF e
  <2>5. Changes(store, i, e)
    BY <2>1, <2>3, <2>4, PutChanges
  <2>6. \A n \in Numbers : d.parts[n] \in Untold
    BY <2>1 DEF Calm, Delivery, PartStatuses, Untold
  <2> QED
    BY <1>1, <2>2, <2>4, <2>5, <2>6, MineQuiet, SendsStay DEF WireStep, Untold
<1> QED
  BY <1>2, <1>3 DEF StoreParts

LEMMA MarkAsks ==
  ASSUME OutcomeInv, NEW w \in Workers, Mark(w) PROVE Quiet \/ Asking(w)
<1> DEFINE i == worker[w].id
           d == Mine(w)
           p == Part(w)
<1>1. worker[w].pc = "sending" /\ Busy(worker[w]) /\ IInv
  BY DEF Mark, Busy, OutcomeInv
<1>2. CASE ~Renewable(w)
  BY <1>1, <1>2, StaleQuiet DEF Mark
<1>3. CASE Renewable(w) /\ ~(d.status = "sending" /\ Current(store, i))
  BY <1>1, <1>3, StaleQuiet DEF Mark, Renewable, Owns
<1>4. CASE Renewable(w) /\ d.status = "sending" /\ Current(store, i)
  <2> DEFINE r == Renewed(d)
  <2>1. /\ d.source # "none" /\ DelOK(d) /\ i \in Ids /\ d.claim = w /\ StoreOK(store)
        /\ p \in Numbers /\ sends[i] \in [Numbers -> Int]
    BY <1>1, <1>4, InHand, PartInHand DEF Renewable, Owns, OutcomeInv, AtWork, IInv, TypeOK
  <2>2. r \in Delivery /\ r.parts = d.parts
    BY <1>1, <2>1, RenewedOK DEF IInv
  <2>3. CASE d.parts[p] = "pending" /\ Put(w, WithPart(r, p, "sending")) /\ Sends(w, 1)
    <3> DEFINE e == WithPart(r, p, "sending")
    <3>1. e \in Delivery /\ e.parts = [d.parts EXCEPT ![p] = "sending"]
      BY <2>2, WithPartOK DEF PartStatuses, WithPart, Delivery
    <3> HIDE DEF e
    <3>2. Changes(store, i, e)
      BY <2>1, <2>3, <3>1, PutChanges DEF e
    <3>3. \A j \in Ids : j # i => sends'[j] = sends[j]
      BY <1>1, <2>3, SendsCounted DEF IInv, TypeOK
    <3>4. Owns(w, {"sending"})
      BY <1>4, <2>1 DEF Owns
    <3> QED
      BY <1>4, <2>1, <2>3, <3>1, <3>2, <3>3, <3>4 DEF Asking, e
  <2>4. CASE Put(w, r) /\ UNCHANGED sends
    <3> HIDE DEF r
    <3>1. Changes(store, i, r)
      BY <2>1, <2>2, <2>4, PutChanges
    <3> QED
      BY <1>1, <2>2, <2>4, <3>1, MineQuiet, SendsStay DEF WireStep
  <2> QED
    BY <1>4, <2>3, <2>4 DEF Mark
<1> QED
  BY <1>2, <1>3, <1>4

(* The answer for a part changes no other. *)
LEMMA AnswerQuiet ==
  ASSUME IInv, NEW w \in Workers, worker[w].pc = "awaiting",
         NEW status \in PartStatuses, status # "none"
  PROVE  \A n \in Numbers : WireStep(Mine(w).parts[n], PartBecomes(w, status).parts[n])
<1>1. Mine(w) \in Delivery
  BY InHand DEF Busy, DelOK
<1> QED
  BY <1>1, WithPartOK DEF PartBecomes, WireStep

LEMMA UnknownQuiet ==
  ASSUME IInv, NEW w \in Workers, worker[w].pc = "awaiting", FinishUnknown(w), UNCHANGED sends
  PROVE  Quiet
<1> DEFINE d == PartBecomes(w, "unknown")
<1>1. DelOK(d) /\ d.claim = Mine(w).claim /\ d.source = Mine(w).source /\ Busy(worker[w])
  BY PartBecomesOK DEF PartStatuses, Busy
<1>2. Outcome(w, d)
  <2>1. CASE Owns(w, {"preparing", "sending"})
    <3>1. d.parts \in [Numbers -> PartStatuses]
      BY <1>1 DEF DelOK, Delivery
    <3>2. FateOK(UnknownFate(d)) /\ UnknownFate(d).parts = d.parts
      BY <3>1 DEF UnknownFate, Fate, FateOK, DeliveryStatuses, OccurrenceStatuses
    <3>3. SettleMine(w, UnknownFate(d))
      BY <2>1 DEF FinishUnknown
    <3> HIDE DEF d
    <3> QED
      BY <1>1, <2>1, <3>2, <3>3, SettleOutcome DEF Owns
  <2>2. CASE ~Owns(w, {"preparing", "sending"})
    <3>1. Put(w, d)
      BY <2>2 DEF FinishUnknown
    <3> HIDE DEF d
    <3> QED
      BY <1>1, <3>1, PutOutcome
  <2> QED
    BY <2>1, <2>2
<1>3. \A n \in Numbers : WireStep(Mine(w).parts[n], d.parts[n])
  BY AnswerQuiet DEF PartStatuses
<1> HIDE DEF d
<1> QED
  BY <1>1, <1>2, <1>3, OutcomeQuiet, SendsStay

LEMMA HandleSentQuiet ==
  ASSUME IInv, NEW w \in Workers, HandleSent(w) PROVE Quiet
<1> DEFINE d == Mine(w)
           e == WithPart(d, Part(w), "sent")
<1>1. worker[w].pc = "awaiting" /\ Busy(worker[w]) /\ UNCHANGED sends
  BY DEF HandleSent, Busy
<1>2. CASE FinishUnknown(w)
  BY <1>1, <1>2, UnknownQuiet
<1>3. CASE d.parts[Part(w)] = "sending" /\ Put(w, e)
  <2>1. d \in Delivery /\ worker[w].id \in Ids /\ StoreOK(store)
    BY <1>1, InHand DEF DelOK, IInv
  <2>2. e \in Delivery /\ \A n \in Numbers : WireStep(d.parts[n], e.parts[n])
    BY <1>3, <2>1, WithPartOK DEF PartStatuses, WireStep
  <2> HIDE DEF e
  <2>3. Changes(store, worker[w].id, e)
    BY <1>3, <2>1, <2>2, PutChanges
  <2> QED
    BY <1>1, <2>2, <2>3, MineQuiet, SendsStay
<1> QED
  BY <1>2, <1>3 DEF HandleSent

LEMMA HandleRefusedQuiet ==
  ASSUME IInv, NEW w \in Workers, HandleRefused(w) PROVE Quiet
<1> DEFINE i == worker[w].id
           again == PartBecomes(w, "pending")
           failed == PartBecomes(w, "terminal_failed")
           x == Counted(sends[i], Part(w), -1)
<1>1. /\ worker[w].pc = "awaiting" /\ Busy(worker[w]) /\ Sends(w, -1)
      /\ FinishRetry(w, again, failed) \/ FinishTerminal(w, failed)
  BY DEF HandleRefused, Busy
<1>2. /\ DelOK(again) /\ again \in Delivery /\ again.source = Mine(w).source
      /\ Mine(w).claim = w => Calm(again.parts)
  BY <1>1, PartBecomesOK DEF PartStatuses, DelOK
<1>3. DelOK(failed) /\ failed.claim = Mine(w).claim /\ failed.source = Mine(w).source
  BY <1>1, PartBecomesOK DEF PartStatuses
<1>4. \A n \in Numbers : /\ WireStep(Mine(w).parts[n], again.parts[n])
                         /\ WireStep(Mine(w).parts[n], failed.parts[n])
                         /\ WireStep(Mine(w).parts[n], Mine(w).parts[n])
  BY <1>1, AnswerQuiet DEF PartStatuses, WireStep
<1> HIDE DEF again, failed
<1>5. Outcome(w, Mine(w)) \/ Outcome(w, again) \/ Outcome(w, failed)
  BY <1>1, <1>2, <1>3, FinishRetryOutcome, FinishTerminalOutcome
<1>6. i \in Ids /\ sends[i] \in [Numbers -> Int] /\ sends' = [sends EXCEPT ![i] = x]
  BY <1>1, InHand, SendsCounted DEF IInv, TypeOK
<1>7. \A n \in Numbers : x[n] <= sends[i][n]
  <2>1. \A n \in Numbers : sends[i][n] \in Int
                           /\ x[n] = IF n = Part(w) THEN sends[i][n] - 1 ELSE sends[i][n]
    BY <1>6, CountedOK
  <2> HIDE DEF x
  <2> QED
    BY <2>1
<1> HIDE DEF x
<1>8. \A j \in Ids, n \in Numbers : sends'[j][n] <= sends[j][n]
  BY <1>6, <1>7, SentNat DEF IInv, TypeOK
<1> QED
  BY <1>1, <1>4, <1>5, <1>8, OutcomeQuiet

LEMMA FinishSuccessQuiet ==
  ASSUME IInv, NEW w \in Workers, FinishSuccess(w) PROVE Quiet
<1> DEFINE f == Fate("sent", "sent", Mine(w).parts)
<1>1. worker[w].pc = "finishing" /\ Busy(worker[w]) /\ UNCHANGED sends
  BY DEF FinishSuccess, Busy
<1>2. CASE UNCHANGED store
  BY <1>1, <1>2, StaleQuiet
<1>3. CASE Owns(w, {"sending"}) /\ SettleMine(w, f)
  <2>1. Mine(w).source # "none" /\ Mine(w) \in Delivery
    BY <1>1, <1>3, InHand DEF Owns, DelOK
  <2>2. TameFate(Mine(w), f)
    BY <2>1, SamePartsTame DEF DeliveryStatuses, OccurrenceStatuses
  <2> HIDE DEF f
  <2> QED
    BY <1>1, <1>3, <2>1, <2>2, SettleTame, TameQuiet
<1> QED
  BY <1>2, <1>3 DEF FinishSuccess

(* Only marking a part asks Telegram for it. *)
LEMMA StepAsks ==
  ASSUME OutcomeInv, [Next]_vars PROVE Quiet \/ \E w \in Workers : Asking(w)
<1>1. IInv
  BY DEF OutcomeInv
<1>2. CASE UNCHANGED vars
  BY <1>1, <1>2, AllTameSame, TameQuiet DEF vars, IInv
<1>3. CASE Environment
  <2>1. CASE Tick
    BY <1>1, <1>3, <2>1, AllTameSame, TameQuiet DEF Environment, Tick, IInv
  <2>2. CASE StoreCommand
    BY <1>1, <1>3, <2>2, CommandQuiet DEF Environment
  <2> QED
    BY <1>3, <2>1, <2>2 DEF Environment
<1>4. ASSUME NEW w \in Workers, Crash(w) PROVE Quiet
  BY <1>1, <1>4, AllTameSame, TameQuiet DEF Crash, IInv
<1>5. ASSUME NEW w \in Workers, StartRound(w) PROVE Quiet
  BY <1>1, <1>5, SchedulingOK, ReconciledTame, TameQuiet DEF StartRound, IInv
<1>6. ASSUME NEW w \in Workers, PreflightFails(w) \/ RenderFails(w) PROVE Quiet
  BY <1>1, <1>6, CalmQuiet DEF PreflightFails, RenderFails, Busy
<1>7. ASSUME NEW w \in Workers, HandleUnknown(w) PROVE Quiet
  BY <1>1, <1>7, UnknownQuiet DEF HandleUnknown
<1>8. ASSUME NEW w \in Workers, WorkerStep(w) PROVE Quiet \/ Asking(w)
  BY <1>1, <1>5, <1>6, <1>7, <1>8, ClaimQuiet, PrepareQuiet, StorePartsQuiet, MarkAsks,
     HandleSentQuiet, HandleRefusedQuiet, FinishSuccessQuiet DEF WorkerStep
<1> QED
  BY <1>2, <1>3, <1>4, <1>8 DEF Next

-----------------------------------------------------------------------------
(* The theorems: reminders begin for the present *)

Begins ==
  \A i \in Ids :
    LET d == store.dels[i]
    IN  ~Sent(i) /\ Sent(i)' /\ d.source = "auto" =>
          /\ contest = "active"
          /\ settings.enabled /\ settings.revision = d.settings
          /\ \A item \in d.items : schedule[item[1]] = item[3] /\ now < item[3]

(* Nothing that was not sent comes to be sent quietly. *)
LEMMA QuietBegins ==
  ASSUME OutcomeInv, OutcomeInv', Quiet, NEW i \in Ids, Sent(i)' PROVE Sent(i)
<1>1. PICK n \in Numbers : sends'[i][n] > 0
  BY DEF Sent
<1>2. sends'[i][n] <= sends[i][n]
  BY DEF Quiet
<1>3. sends'[i][n] \in {0, 1} /\ sends[i][n] \in {0, 1}
  BY DEF OutcomeInv, IInv, RowOK
<1> QED
  BY <1>1, <1>2, <1>3 DEF Sent

(* The delivery in hand, of which nothing was sent, is checked against what
   the contest, its settings and its schedule are now. *)
LEMMA AskingBegins ==
  ASSUME OutcomeInv, NEW w \in Workers, Asking(w),
         ~Sent(worker[w].id), Mine(w).source = "auto"
  PROVE  /\ contest = "active"
         /\ settings.enabled /\ settings.revision = Mine(w).settings
         /\ \A a \in Mine(w).items : schedule[a[1]] = a[3] /\ now < a[3]
<1> DEFINE i == worker[w].id
           d == Mine(w)
<1>1. /\ i \in Ids /\ d = store.dels[i] /\ Live(d) /\ d.items \subseteq Targets \X Nat \X Nat
      /\ Decided(d, sends[i])
  BY DEF Asking, Owns, Mine, Live, LiveStatuses, OutcomeInv, Consistent, IInv, StoreOK, DelOK,
         Delivery
<1>2. now < d.expires /\ contest = "active" /\ Wanted(d)
  BY <1>1, Zenon DEF Asking, Current
<1>3. ~Has(d, {"sent"})
  BY <1>1, SentCounted DEF Decided, Told, Has, Unsent
<1>4. settings.enabled /\ settings.revision = d.settings
  BY <1>2, <1>3 DEF Wanted, SettingsCurrent
<1>5. ASSUME NEW a \in d.items PROVE schedule[a[1]] = a[3] /\ now < a[3]
  <2>1. a[1] \in Targets
    BY <1>1
  <2>2. Batched(store, a[1], i) /\ Item(store, a[1]) = a /\ a[3] = d.expires
    BY <1>1 DEF OutcomeInv, Consistent, AutoHolds
  <2>3. a[3] = store.occ[a[1]].observed
    BY <2>2 DEF Item
  <2>4. ASSUME a[1] \in Matches PROVE schedule[a[1]] = a[3]
    BY <1>1, <2>4 DEF Asking, Current
  <2>5. ASSUME a[1] \in Deadlines PROVE schedule[a[1]] = a[3]
    BY <1>1, <2>2, <2>3, <2>5 DEF Asking, Current
  <2> QED
    BY <1>2, <2>1, <2>2, <2>4, <2>5 DEF Targets
<1> QED
  BY <1>2, <1>4, <1>5

LEMMA StepBegins == ASSUME OutcomeInv, OutcomeInv', [Next]_vars PROVE Begins
<1>1. CASE Quiet
  BY <1>1, QuietBegins DEF Begins
<1>2. ASSUME NEW w \in Workers, Asking(w) PROVE Begins
  <2>1. ASSUME NEW i \in Ids, ~Sent(i), Sent(i)' PROVE i = worker[w].id
    BY <1>2, <2>1 DEF Asking, Sent
  <2> QED
    BY <1>2, <2>1, AskingBegins DEF Begins, Mine
<1> QED
  BY <1>1, <1>2, StepAsks

(* The first part of an automatic reminder goes out only while the contest,
   the settings and the instants of the whole batch are what they were when
   the batch was made, and before any of them: the check and the mark are one
   transaction, mark_prediction_reminder_part_sending. *)
THEOREM BegunForThePresent == Spec => BeginsForThePresent
<1>1. OutcomeInv /\ OutcomeInv' /\ [Next]_vars => [Begins]_vars
  BY StepBegins
<1>2. BeginsForThePresent <=> [][Begins]_vars
  BY DEF BeginsForThePresent, Begins
<1> QED
  BY <1>1, <1>2, Outcomes, PTL DEF Spec

-----------------------------------------------------------------------------
(* The theorems: the worker implements AtMostOnceSending *)

Statuses == [p \in Ids \X Numbers |-> Wire(p[1], p[2])]

(* Wire as a function of the status of a part *)
Shown(status) ==
  IF status = "sending" THEN "asked"
  ELSE IF status = "sent" THEN "known"
  ELSE IF status = "unknown" THEN "unknown" ELSE "unsent"

LEMMA WireShown ==
  ASSUME NEW i, NEW n
  PROVE  /\ Wire(i, n) = Shown(store.dels[i].parts[n])
         /\ Wire(i, n)' = Shown(store'.dels[i].parts[n])
<1>1. Wire(i, n) = Shown(store.dels[i].parts[n])
  BY Zenon DEF Wire, Shown
<1>2. Wire(i, n)' = Shown(store'.dels[i].parts[n])
  BY Zenon DEF Wire, Shown
<1> QED
  BY <1>1, <1>2

LEMMA WireStates ==
  ASSUME NEW p \in Ids \X Numbers
  PROVE  /\ p[1] \in Ids /\ p[2] \in Numbers
         /\ Wire(p[1], p[2]) \in Abstract!States /\ Wire(p[1], p[2])' \in Abstract!States
BY WireShown DEF Shown, Abstract!States

LEMMA QuietSettles == ASSUME IInv, IInv', Quiet PROVE Abstract!Settle
<1>1. ASSUME NEW p \in Ids \X Numbers
      PROVE  Abstract!Settles(Wire(p[1], p[2]), Wire(p[1], p[2])')
  <2>1. /\ p[1] \in Ids /\ p[2] \in Numbers
        /\ WireStep(store.dels[p[1]].parts[p[2]], store'.dels[p[1]].parts[p[2]])
    BY WireStates DEF Quiet
  <2>2. Wire(p[1], p[2])' \in Abstract!States
    BY WireStates
  <2> QED
    BY <2>1, <2>2, WireShown DEF WireStep, Untold, Shown, Abstract!Settles
<1>2. Statuses' \in [Ids \X Numbers -> Abstract!States]
  BY WireStates DEF Statuses
<1> QED
  BY <1>1, <1>2 DEF Abstract!Settle, Statuses

LEMMA AskingAsks ==
  ASSUME IInv, IInv', NEW w \in Workers, Asking(w)
  PROVE  \E p \in Ids \X Numbers : Abstract!Ask(p)
<1>0. /\ worker[w].id \in Ids /\ Part(w) \in Numbers
      /\ store.dels[worker[w].id].parts[Part(w)] = "pending"
      /\ \A j \in Ids : j # worker[w].id => store'.dels[j] = store.dels[j]
      /\ store'.dels[worker[w].id].parts =
           [store.dels[worker[w].id].parts EXCEPT ![Part(w)] = "sending"]
      /\ store.dels[worker[w].id].parts \in [Numbers -> PartStatuses]
  BY DEF Asking, Changes, Mine, IInv, StoreOK, DelOK, Delivery
<1>1. PICK i \in Ids, n \in Numbers :
        /\ store.dels[i].parts[n] = "pending"
        /\ \A j \in Ids : j # i => store'.dels[j] = store.dels[j]
        /\ store'.dels[i].parts = [store.dels[i].parts EXCEPT ![n] = "sending"]
        /\ store.dels[i].parts \in [Numbers -> PartStatuses]
  BY <1>0
<1> DEFINE p == <<i, n>>
<1>2. Wire(i, n) = "unsent" /\ Wire(i, n)' = "asked"
  BY <1>1, WireShown DEF Shown
<1>3. ASSUME NEW q \in Ids \X Numbers, q # p PROVE Wire(q[1], q[2])' = Wire(q[1], q[2])
  <2>1. q[1] \in Ids /\ q[2] \in Numbers /\ (q[1] # i \/ q[2] # n)
    BY <1>1, <1>3
  <2>2. store'.dels[q[1]].parts[q[2]] = store.dels[q[1]].parts[q[2]]
    BY <1>1, <2>1
  <2> QED
    BY <2>2, WireShown
<1>4. Statuses[p] = "unsent" /\ Statuses' = [Statuses EXCEPT ![p] = "asked"]
  <2>1. \A q \in Ids \X Numbers :
          /\ Statuses[q] = Wire(q[1], q[2]) /\ Statuses'[q] = Wire(q[1], q[2])'
          /\ q # p => Statuses'[q] = Statuses[q]
    BY <1>3 DEF Statuses
  <2>2. p[1] = i /\ p[2] = n
    OBVIOUS
  <2>3. Statuses[p] = "unsent" /\ Statuses'[p] = "asked"
    BY <1>1, <1>2, <2>1, <2>2
  <2>4. Statuses' = [q \in Ids \X Numbers |-> Statuses'[q]]
    BY DEF Statuses
  <2>5. DOMAIN Statuses = Ids \X Numbers
    BY DEF Statuses
  <2> QED
    BY <2>1, <2>3, <2>4, <2>5
<1> QED
  BY <1>1, <1>4 DEF Abstract!Ask, Statuses

(* Whatever workers, commands, the clock and crashes do: every part is asked
   for only after Telegram refused it or was never asked, and a part that
   Telegram accepted, or may have accepted, is never asked for again. *)
THEOREM SendsImplemented == Spec => SendsAtMostOnce
<1>1. Init => Abstract!Init
  BY DEF Init, StoreInit, NoDelivery, NoParts, Abstract!Init, Wire
<1>2. IInv /\ IInv' /\ OutcomeInv /\ [Next]_vars => [Abstract!Next]_Statuses
  BY StepAsks, QuietSettles, AskingAsks DEF Abstract!Next
<1>3. OutcomeInv => IInv
  BY DEF OutcomeInv
<1>4. SendsAtMostOnce <=> Abstract!Init /\ [][Abstract!Next]_Statuses
  BY DEF SendsAtMostOnce, Abstract!Spec, Statuses
<1> QED
  BY <1>1, <1>2, <1>3, <1>4, Outcomes, PTL DEF Spec

=============================================================================
