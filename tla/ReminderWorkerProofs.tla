------------------------ MODULE ReminderWorkerProofs ------------------------
(* What holds of ReminderWorker for every set of workers and targets and any
   number of deliveries, parts, attempts and crashes: no part is sent twice. *)
EXTENDS ReminderWorker, ReminderStoreProofs

-----------------------------------------------------------------------------
(* The inductive invariant *)

(* A coroutine l has a delivery in hand, or awaits Telegram for a part of it. *)
Busy(l) == l.pc \notin {"idle", "claiming"}
Asks(l, i, n) == l.pc = "awaiting" /\ l.id = i /\ Min(l.todo) = n

(* Only a part that was asked for can have arrived. *)
RowOK(d, sent) ==
  \A n \in Numbers :
    /\ sent[n] \in {0, 1}
    /\ d.parts[n] \notin {"sending", "sent", "unknown"} => sent[n] = 0

(* The part that a worker asks for counts as asked and is not given back. *)
AskedOK(l, i, d, sent) ==
  \A n \in Numbers :
    Asks(l, i, n) => sent[n] = 1 /\ d.parts[n] \in {"sending", "unknown"}

(* With the claim in hand, nothing is being sent but what its worker asks
   for, and nothing was sent of what it renders. *)
HeldOK(l, d) ==
  /\ \A n \in Numbers :
       d.parts[n] \in {"sending", "unknown"} => d.parts[n] = "sending" /\ Asks(l, l.id, n)
  /\ l.pc = "rendering" => \A n \in Numbers : d.parts[n] # "sent"

LocalOK(l, w, s) ==
  Busy(l) => l.id \in Ids /\ (s.dels[l.id].claim = w => HeldOK(l, s.dels[l.id]))

(* No two workers ask for the same part. *)
Apart ==
  \A w, v \in Workers, i \in Ids, n \in Numbers :
    Asks(worker[w], i, n) /\ Asks(worker[v], i, n) => w = v

IInv ==
  /\ TypeOK
  /\ StoreOK(store)
  /\ \A i \in Ids : RowOK(store.dels[i], sends[i])
  /\ \A w \in Workers, i \in Ids : AskedOK(worker[w], i, store.dels[i], sends[i])
  /\ \A w \in Workers : LocalOK(worker[w], w, store)
  /\ Apart

(* The property of the runs follows. *)
LEMMA IInvImplies == IInv => TypeOK /\ NoPartSentTwice
BY DEF IInv, RowOK, NoPartSentTwice

(* Nothing was sent and nobody is at work. *)
LEMMA InitIInv == Init => IInv
<1> SUFFICES ASSUME Init PROVE IInv
  OBVIOUS
<1>1. store = [occ |-> [t \in Targets |-> NoOccurrence(0)], dels |-> [i \in Ids |-> NoDelivery]]
  BY DEF Init, StoreInit
<1>2. NoOccurrence(0) \in Occurrence
  <2>1. 0 \in 0..MaxDeliveries /\ 0 \in 0..MaxInstant /\ 0 \in Int /\ 0 \in Nat
    BY Bounds
  <2> QED
    BY <2>1 DEF NoOccurrence, Occurrence
<1>3. StoreOK(store)
  <2> HIDE DEF NoOccurrence, NoDelivery
  <2> QED
    BY <1>1, <1>2, NoDeliveryOK DEF StoreOK, Store, DelOK
<1>4. worker \in [Workers -> WorkerState] /\ \A w \in Workers : worker[w].pc = "idle"
  <2>1. 0 \in 0..MaxDeliveries
    BY Bounds
  <2> QED
    BY <2>1 DEF Init, Idle, WorkerState
<1>5. 0 \in 0..Horizon /\ 0 \in 0..MaxEdits /\ 0 \in 0..MaxCrashes
  BY Bounds, ReminderBoundsAssumption, DelaysAssumption DEF Horizon
<1>6. sends \in [Ids -> [Numbers -> Int]] /\ \A i \in Ids, n \in Numbers : sends[i][n] = 0
  BY DEF Init
<1>7. TypeOK
  BY <1>3, <1>4, <1>5, <1>6 DEF Init, StoreInit, TypeOK, StoreOK
<1>8. Apart /\ \A w \in Workers, i \in Ids :
        AskedOK(worker[w], i, store.dels[i], sends[i]) /\ LocalOK(worker[w], w, store)
  BY <1>4 DEF Apart, Asks, AskedOK, LocalOK, Busy
<1>9. \A w \in Workers : LocalOK(worker[w], w, store)
  BY <1>4 DEF LocalOK, Busy
<1> QED
  BY <1>3, <1>6, <1>7, <1>8, <1>9 DEF IInv, RowOK

-----------------------------------------------------------------------------
(* Steps that are not a worker's, or touch its deliveries only as others may *)

(* Settling deliveries behind the workers' backs preserves all of it. *)
LEMMA TameStep ==
  ASSUME IInv, TypeOK', AllTame(store, store'), UNCHANGED sends,
         \A w \in Workers : worker'[w] = worker[w] \/ ~Busy(worker'[w])
  PROVE  IInv'
<1>1. ASSUME NEW i \in Ids PROVE Tame(store.dels[i], store'.dels[i])
  BY DEF AllTame
<1>2. ASSUME NEW i \in Ids PROVE RowOK(store.dels[i], sends[i])'
  BY <1>1 DEF IInv, RowOK, Tame, PartStep
<1>3. ASSUME NEW w \in Workers, NEW i \in Ids
      PROVE  AskedOK(worker[w], i, store.dels[i], sends[i])'
  <2>1. AskedOK(worker[w], i, store.dels[i], sends[i])
    BY DEF IInv
  <2> QED
    BY <1>1, <2>1 DEF AskedOK, Asks, Busy, Tame, PartStep
<1>4. ASSUME NEW w \in Workers PROVE LocalOK(worker'[w], w, store')
  <2>1. LocalOK(worker[w], w, store)
    BY DEF IInv
  <2>2. SUFFICES ASSUME worker'[w] = worker[w], Busy(worker[w]),
                        worker[w].id \in Ids => store'.dels[worker[w].id].claim = w
                 PROVE  worker[w].id \in Ids /\ HeldOK(worker[w], store'.dels[worker[w].id])
    BY <2>1 DEF LocalOK
  <2>3. worker[w].id \in Ids
    BY <2>1, <2>2 DEF LocalOK
  <2>4. store'.dels[worker[w].id] = store.dels[worker[w].id]
    BY <1>1, <2>2, <2>3, Bounds DEF Tame
  <2> QED
    BY <2>1, <2>2, <2>3, <2>4 DEF LocalOK
<1>5. Apart'
  BY DEF IInv, Apart, Asks, Busy
<1> QED
  BY <1>2, <1>3, <1>4, <1>5 DEF IInv, AllTame

(* A new delivery gets an id that nobody works on, without parts. *)
LEMMA AttachStep ==
  ASSUME IInv, TypeOK', UNCHANGED <<worker, sends>>,
         NEW s, AllTame(store, s), NEW i \in Ids, s.dels[i].source = "none",
         StoreOK(store'), \A j \in Ids : j # i => store'.dels[j] = s.dels[j],
         store'.dels[i].parts = NoParts, store'.dels[i].claim = "none"
  PROVE  IInv'
<1>1. ASSUME NEW j \in Ids PROVE Tame(store.dels[j], s.dels[j])
  BY DEF AllTame
<1>2. \A n \in Numbers : store.dels[i].parts[n] = "none"
  BY <1>1 DEF IInv, StoreOK, DelOK, Tame
<1>3. \A n \in Numbers : store'.dels[i].parts[n] = "none"
  BY DEF NoParts
<1>5. ASSUME NEW j \in Ids PROVE RowOK(store.dels[j], sends[j])'
  <2>1. CASE j = i
    BY <1>2, <2>1 DEF IInv, RowOK
  <2>2. CASE j # i
    BY <1>1, <2>2 DEF IInv, RowOK, Tame, PartStep
  <2> QED
    BY <2>1, <2>2
<1>6. ASSUME NEW w \in Workers, NEW j \in Ids
      PROVE  AskedOK(worker[w], j, store.dels[j], sends[j])'
  <2>1. AskedOK(worker[w], j, store.dels[j], sends[j])
    BY DEF IInv
  <2>2. CASE j = i
    BY <1>2, <2>1, <2>2 DEF AskedOK, Asks
  <2>3. CASE j # i
    BY <1>1, <2>1, <2>3 DEF AskedOK, Asks, Tame, PartStep
  <2> QED
    BY <2>2, <2>3
<1>7. ASSUME NEW w \in Workers PROVE LocalOK(worker[w], w, store)'
  <2>1. LocalOK(worker[w], w, store)
    BY DEF IInv
  <2>2. SUFFICES ASSUME Busy(worker[w]), store'.dels[worker[w].id].claim = w
                 PROVE  HeldOK(worker[w], store'.dels[worker[w].id])
    BY <2>1 DEF LocalOK
  <2>3. worker[w].id \in Ids /\ worker[w].id # i
    BY <2>1, <2>2, Bounds DEF LocalOK
  <2>4. store'.dels[worker[w].id] = store.dels[worker[w].id]
    BY <1>1, <2>2, <2>3, Bounds DEF Tame
  <2> QED
    BY <2>1, <2>2, <2>4 DEF LocalOK
<1>8. Apart'
  BY DEF IInv, Apart, Asks
<1> QED
  BY <1>5, <1>6, <1>7, <1>8 DEF IInv

(* The types of what commands and the clock change *)
LEMMA SchedulingOK == TypeOK => Scheduling /\ settings.lead \in Nat
<1> SUFFICES ASSUME TypeOK PROVE Scheduling /\ settings.lead \in Nat
  OBVIOUS
<1>1. now \in Nat
  BY Bounds DEF TypeOK
<1>2. settings.lead \in Nat
  BY Bounds DEF TypeOK
<1> QED
  BY <1>1, <1>2 DEF Scheduling, TypeOK

(* Commands are counted within the bound. *)
LEMMA EditsBounded ==
  ASSUME TypeOK, StoreCommand PROVE edits' \in 0..MaxEdits
<1>1. edits' = edits \/ Edit
  BY Zenon DEF StoreCommand, SaveSettings, QueueManual, Announce, Move, Drop, CompleteContest,
               DeleteContest
<1>2. edits \in 0..MaxEdits
  BY DEF TypeOK
<1> QED
  BY <1>1, <1>2, Bounds DEF Edit

LEMMA CommandIInv ==
  ASSUME IInv, StoreCommand, UNCHANGED <<worker, sends, crashes>>
  PROVE  IInv'
<1> USE DEF IInv
<1>1. Scheduling /\ settings.lead \in Nat
  BY SchedulingOK
<1>2. edits' \in 0..MaxEdits
  BY EditsBounded
<1>3. ASSUME NEW enabled \in BOOLEAN, NEW lead \in Leads, SaveSettings(enabled, lead) PROVE IInv'
  <2>1. settings' \in [enabled : BOOLEAN, lead : Leads, revision : Nat] /\ settings'.lead \in Nat
    BY <1>3, Bounds DEF SaveSettings, TypeOK
  <2>2. AllTame(store, store')
    BY <1>1, <1>3, <2>1, ReconciledTame DEF SaveSettings
  <2>3. TypeOK'
    BY <1>2, <1>3, <2>1, <2>2 DEF SaveSettings, TypeOK, AllTame, StoreOK
  <2> QED
    BY <2>2, <2>3, TameStep
<1>4. CASE QueueManual
  <2> DEFINE reconciled == Reconciled(store, settings)
             batched == {t \in Targets : /\ Held(reconciled, t) /\ reconciled.occ[t].due <= now
                                  /\ Open(t) /\ reconciled.occ[t].observed = schedule[t]}
             s == Reset(reconciled, {reconciled.occ[t].delivery : t \in batched})
             covered == {t \in Targets : Scheduled(s, t)}
             cutoffs == {now + ManualTicks} \cup {schedule[t] : t \in covered}
             manual(cutoff) == [NoDelivery EXCEPT !.source = "manual", !.status = "pending",
                                                   !.expires = cutoff,
                                                   !.settings = settings.revision]
  <2>1. AllTame(store, s)
    <3>1. AllTame(store, reconciled)
      BY <1>1, ReconciledTame
    <3>2. AllTame(reconciled, s)
      BY <3>1, ResetTame DEF AllTame
    <3> QED
      BY <3>1, <3>2, AllTameTransitive
  <2>2. cutoffs \subseteq Nat
    <3>1. \A t \in covered : schedule[t] \in Nat
      BY <1>1, OpenInstant, Bounds DEF Scheduled, Instants
    <3>2. now + ManualTicks \in Nat
      BY <1>1, Bounds DEF Scheduling
    <3> HIDE DEF covered
    <3> QED
      BY <3>1, <3>2
  <2>3. PICK i \in Ids, cutoff \in cutoffs :
          /\ IsNextId(s, i)
          /\ store' = Attached(s, i, manual(cutoff), covered)
    BY <1>4 DEF QueueManual
  <2>4. s.dels[i].source = "none"
    BY <2>3 DEF IsNextId, IsLeast, Unused
  <2>5. /\ manual(cutoff) \in Delivery
        /\ manual(cutoff).parts = NoParts /\ manual(cutoff).claim = "none"
        /\ manual(cutoff).source # "none"
    <3>1. NoDelivery \in Delivery /\ cutoff \in Nat /\ settings.revision \in Nat
      BY <2>2, NoDeliveryOK DEF DelOK, TypeOK
    <3> QED
      BY <3>1 DEF NoDelivery, Delivery, LiveStatuses
  <2> HIDE DEF s, covered, manual, cutoffs
  <2>6. covered \subseteq Targets
    BY DEF covered
  <2>7. /\ StoreOK(store') /\ store'.dels[i].parts = NoParts /\ store'.dels[i].claim = "none"
        /\ \A j \in Ids : j # i => store'.dels[j] = s.dels[j]
    BY <2>1, <2>3, <2>5, <2>6, AttachedOK DEF AllTame
  <2>8. TypeOK'
    BY <1>2, <1>4, <2>7 DEF QueueManual, TypeOK, StoreOK
  <2> QED
    BY <2>1, <2>4, <2>7, <2>8, AttachStep
<1>5. CASE ~QueueManual /\ ~\E enabled \in BOOLEAN, lead \in Leads : SaveSettings(enabled, lead)
  <2>1. UNCHANGED <<now, settings, store>>
    BY <1>5 DEF StoreCommand, Announce, Move, Drop, CompleteContest, DeleteContest
  <2>2. schedule' \in [Targets -> {None, Gone} \cup Instants]
    BY <1>5 DEF StoreCommand, Announce, Move, Drop, CompleteContest, DeleteContest, TypeOK
  <2>3. contest' \in {"active", "completed", "deleted"}
    BY <1>5 DEF StoreCommand, Announce, Move, Drop, CompleteContest, DeleteContest, TypeOK
  <2>4. TypeOK'
    BY <1>2, <2>1, <2>2, <2>3 DEF TypeOK
  <2>5. AllTame(store, store')
    BY <2>1, AllTameSame
  <2> QED
    BY <2>4, <2>5, TameStep
<1> QED
  BY <1>3, <1>4, <1>5

LEMMA TickIInv ==
  ASSUME IInv, Tick, UNCHANGED <<worker, sends, crashes>>
  PROVE  IInv'
<1>1. now' \in 0..Horizon
  BY Bounds, ReminderBoundsAssumption DEF IInv, TypeOK, Tick, Horizon
<1>2. TypeOK'
  BY <1>1 DEF IInv, TypeOK, Tick
<1>3. AllTame(store, store')
  BY AllTameSame DEF IInv, Tick
<1> QED
  BY <1>2, <1>3, TameStep DEF Tick

-----------------------------------------------------------------------------
(* Steps of a worker w with the delivery i, over tables s that at most
   settled others: i becomes e and w's coroutine becomes l. *)

Changes(s, i, e) ==
  /\ store' \in Store
  /\ store'.dels[i] = e
  /\ \A j \in Ids : j # i => store'.dels[j] = s.dels[j]

(* x is what was sent of i after the step. *)
LEMMA WorkerStepIInv ==
  ASSUME IInv, TypeOK', NEW s, AllTame(store, s),
         NEW w \in Workers, NEW i \in Ids, NEW e, NEW l \in WorkerState, NEW x,
         Changes(s, i, e), DelOK(e),
         worker' = [worker EXCEPT ![w] = l],
         sends' = [sends EXCEPT ![i] = x],
         RowOK(e, x),
         Busy(l) => l.id = i /\ AskedOK(l, i, e, x) /\ (e.claim = w => HeldOK(l, e)),
         \A v \in Workers \ {w} :
           /\ AskedOK(worker[v], i, e, x)
           /\ Busy(worker[v]) /\ worker[v].id = i /\ e.claim = v => HeldOK(worker[v], e)
           /\ \A n \in Numbers : ~(Asks(l, i, n) /\ Asks(worker[v], i, n))
  PROVE  IInv'
<1>1. /\ worker \in [Workers -> WorkerState] /\ worker'[w] = l
      /\ \A v \in Workers \ {w} : worker'[v] = worker[v]
  BY DEF IInv, TypeOK
<1>2. sends'[i] = x /\ \A j \in Ids : j # i => sends'[j] = sends[j]
  BY DEF IInv, TypeOK
<1>3. store'.dels[i] = e /\ \A j \in Ids : j # i => store'.dels[j] = s.dels[j]
  BY DEF Changes
<1>4. ASSUME NEW j \in Ids PROVE Tame(store.dels[j], s.dels[j]) /\ DelOK(s.dels[j])
  BY DEF AllTame, StoreOK
<1>5. StoreOK(store')
  BY <1>3, <1>4 DEF Changes, StoreOK
<1>6. ASSUME NEW j \in Ids PROVE RowOK(store'.dels[j], sends'[j])
  <2>1. CASE j = i
    BY <1>2, <1>3, <2>1
  <2>2. CASE j # i
    BY <1>2, <1>3, <1>4, <2>2 DEF IInv, RowOK, Tame, PartStep
  <2> QED
    BY <2>1, <2>2
<1>7. ASSUME NEW v \in Workers, NEW j \in Ids
      PROVE  AskedOK(worker'[v], j, store'.dels[j], sends'[j])
  <2>1. CASE j = i /\ v # w
    BY <1>1, <1>2, <1>3, <2>1
  <2>2. CASE j = i /\ v = w
    <3>1. CASE Busy(l)
      BY <1>1, <1>2, <1>3, <2>2, <3>1
    <3>2. CASE ~Busy(l)
      BY <1>1, <2>2, <3>2 DEF AskedOK, Asks, Busy
    <3> QED
      BY <3>1, <3>2
  <2>3. CASE j # i /\ v = w
    BY <1>1, <2>3 DEF AskedOK, Asks, Busy
  <2>4. CASE j # i /\ v # w
    <3>1. AskedOK(worker[v], j, store.dels[j], sends[j])
      BY DEF IInv
    <3> QED
      BY <1>1, <1>2, <1>3, <1>4, <2>4, <3>1 DEF AskedOK, Tame, PartStep
  <2> QED
    BY <2>1, <2>2, <2>3, <2>4
<1>8. ASSUME NEW v \in Workers PROVE LocalOK(worker'[v], v, store')
  <2>1. CASE v = w
    BY <1>1, <1>3, <2>1 DEF LocalOK
  <2>2. CASE v # w
    <3>1. LocalOK(worker[v], v, store) /\ worker'[v] = worker[v]
      BY <1>1, <2>2 DEF IInv
    <3>2. SUFFICES ASSUME Busy(worker[v]), store'.dels[worker[v].id].claim = v
                   PROVE  HeldOK(worker[v], store'.dels[worker[v].id])
      BY <3>1 DEF LocalOK
    <3>3. worker[v].id \in Ids
      BY <3>1, <3>2 DEF LocalOK
    <3>4. CASE worker[v].id = i
      BY <1>3, <2>2, <3>2, <3>4
    <3>5. CASE worker[v].id # i
      <4>1. store'.dels[worker[v].id] = store.dels[worker[v].id]
        BY <1>3, <1>4, <3>2, <3>3, <3>5, Bounds DEF Tame
      <4> QED
        BY <3>1, <3>2, <4>1 DEF LocalOK
    <3> QED
      BY <3>4, <3>5
  <2> QED
    BY <2>1, <2>2
<1>9. Apart'
  <2> SUFFICES ASSUME NEW u \in Workers, NEW v \in Workers, NEW j \in Ids, NEW n \in Numbers,
                      Asks(worker'[u], j, n), Asks(worker'[v], j, n), u # v
               PROVE  FALSE
    BY DEF Apart, Asks
  <2>1. CASE u # w /\ v # w
    BY <1>1, <2>1 DEF IInv, Apart
  <2>2. ASSUME NEW y \in Workers \ {w}, Asks(l, j, n), Asks(worker[y], j, n) PROVE FALSE
    <3>1. j = i
      BY <2>2 DEF Asks, Busy
    <3> QED
      BY <2>2, <3>1
  <2>3. CASE u = w
    BY <1>1, <2>2, <2>3
  <2>4. CASE v = w
    BY <1>1, <2>2, <2>4
  <2> QED
    BY <2>1, <2>3, <2>4
<1> QED
  BY <1>5, <1>6, <1>7, <1>8, <1>9 DEF IInv

-----------------------------------------------------------------------------
(* A worker's step keeps the types. *)

LEMMA WorkerTypes ==
  ASSUME TypeOK, NEW w \in Workers, NEW l \in WorkerState, worker' = [worker EXCEPT ![w] = l],
         UNCHANGED environment, crashes' \in 0..MaxCrashes, store' \in Store,
         sends' \in [Ids -> [Numbers -> Int]]
  PROVE  TypeOK'
BY DEF TypeOK, environment

LEMMA AtType ==
  ASSUME NEW i \in Ids \cup {0}, NEW todo \in SUBSET Numbers,
         NEW pc \in {"idle", "claiming", "preflight", "rendering", "sending", "awaiting",
                     "finishing"}
  PROVE  /\ At(pc, i, todo) \in WorkerState
         /\ At(pc, i, todo).pc = pc /\ At(pc, i, todo).id = i /\ At(pc, i, todo).todo = todo
BY Bounds DEF At, WorkerState, Ids

(* A worker that goes on to another delivery, or stops, having settled some *)
LEMMA RestStep ==
  ASSUME IInv, NEW w \in Workers, Leave(w) \/ Becomes(w, Idle), AllTame(store, store'),
         UNCHANGED <<environment, sends>>, crashes' \in 0..MaxCrashes
  PROVE  IInv'
<1>1. PICK l \in WorkerState : worker' = [worker EXCEPT ![w] = l] /\ ~Busy(l)
  <2>1. Idle = At("idle", 0, {})
    BY DEF Idle, At
  <2>2. /\ At("idle", 0, {}) \in WorkerState /\ At("idle", 0, {}).pc = "idle"
        /\ At("claiming", 0, {}) \in WorkerState /\ At("claiming", 0, {}).pc = "claiming"
    BY AtType
  <2> QED
    BY <2>1, <2>2 DEF Leave, Becomes, Busy
<1>2. TypeOK'
  BY <1>1, WorkerTypes DEF IInv, TypeOK, AllTame, StoreOK
<1>3. \A v \in Workers : worker'[v] = worker[v] \/ ~Busy(worker'[v])
  BY <1>1 DEF IInv, TypeOK
<1> QED
  BY <1>2, <1>3, TameStep

(* The delivery in hand, and what holds of it while the claim is w's *)
LEMMA InHand ==
  ASSUME IInv, NEW w \in Workers, Busy(worker[w])
  PROVE  /\ worker[w].id \in Ids /\ worker[w].todo \subseteq Numbers
         /\ DelOK(Mine(w)) /\ RowOK(Mine(w), sends[worker[w].id])
         /\ AskedOK(worker[w], worker[w].id, Mine(w), sends[worker[w].id])
         /\ Mine(w).claim = w => HeldOK(worker[w], Mine(w)) /\ Mine(w).source # "none"
<1>1. worker[w].id \in Ids /\ (Mine(w).claim = w => HeldOK(worker[w], Mine(w)))
  BY DEF IInv, LocalOK, Mine
<1>2. DelOK(Mine(w)) /\ worker[w].todo \subseteq Numbers
  BY <1>1 DEF IInv, StoreOK, TypeOK, WorkerState, Mine
<1>3. Mine(w).claim = w => Mine(w).source # "none"
  BY <1>2, Bounds DEF DelOK
<1> QED
  BY <1>1, <1>2, <1>3 DEF IInv, Mine

(* One delivery is replaced, or settled. *)
LEMMA PutChanges ==
  ASSUME StoreOK(store), NEW w, worker[w].id \in Ids, NEW e \in Delivery, Put(w, e)
  PROVE  Changes(store, worker[w].id, e)
<1> DEFINE i == worker[w].id
           dels == [store.dels EXCEPT ![i] = e]
<1>1. store.dels \in [Ids -> Delivery]
  BY DEF StoreOK, Store
<1>2. dels \in [Ids -> Delivery] /\ dels[i] = e /\ \A j \in Ids : j # i => dels[j] = store.dels[j]
  BY <1>1
<1>3. store' = [store EXCEPT !.dels = dels]
  BY DEF Put
<1>4. store'.dels = dels /\ store' \in Store
  <2> HIDE DEF dels
  <2> QED
    BY <1>2, <1>3 DEF StoreOK, Store
<1> QED
  BY <1>2, <1>4 DEF Changes

LEMMA SettleChanges ==
  ASSUME StoreOK(store), NEW w, worker[w].id \in Ids, NEW f, FateOK(f), SettleMine(w, f),
         Mine(w).source # "none"
  PROVE  /\ Changes(store, worker[w].id, SettledDelivery(Mine(w), f))
         /\ DelOK(SettledDelivery(Mine(w), f))
         /\ SettledDelivery(Mine(w), f).claim = "none"
         /\ SettledDelivery(Mine(w), f).parts = f.parts
<1> DEFINE i == worker[w].id
           fate == Only(i, f)
           e == SettledDelivery(Mine(w), f)
<1>1. DOMAIN fate = {i} /\ fate[i] = f
  BY DEF Only
<1> HIDE DEF fate
<1>2. store' = Settled(store, fate) /\ store \in Store
  BY DEF SettleMine, StoreOK, fate
<1>3. /\ store' \in Store
      /\ \A j \in Ids : store'.dels[j] =
           IF j \in DOMAIN fate THEN SettledDelivery(store.dels[j], fate[j]) ELSE store.dels[j]
  BY <1>1, <1>2, SettledTypes
<1>4. Changes(store, i, e)
  BY <1>1, <1>3 DEF Changes, Mine
<1>5. Mine(w) \in Delivery
  BY DEF StoreOK, DelOK, Mine
<1>6. /\ e.status = f.delivery /\ e.parts = f.parts /\ e.claim = "none"
      /\ e.source = Mine(w).source
  BY <1>5 DEF SettledDelivery, Delivery
<1>7. e \in Delivery
  BY <1>4 DEF Changes, Store
<1>8. DelOK(e)
  BY <1>6, <1>7 DEF DelOK, FateOK
<1> QED
  BY <1>4, <1>6, <1>8

(* ... and tamely if the fate is tame. *)
LEMMA ChangesTame ==
  ASSUME StoreOK(store), NEW i \in Ids, NEW e, DelOK(e), Changes(store, i, e),
         Tame(store.dels[i], e)
  PROVE  AllTame(store, store')
BY TameSame DEF Changes, AllTame, StoreOK

LEMMA SettleTame ==
  ASSUME IInv, NEW w \in Workers, Busy(worker[w]), NEW f, TameFate(Mine(w), f),
         SettleMine(w, f), Mine(w).source # "none"
  PROVE  AllTame(store, store')
<1> DEFINE e == SettledDelivery(Mine(w), f)
<1>1. StoreOK(store) /\ worker[w].id \in Ids /\ FateOK(f) /\ Mine(w) \in Delivery
  BY InHand DEF IInv, TameFate, DelOK
<1>2. Changes(store, worker[w].id, e) /\ DelOK(e) /\ e.claim = "none" /\ e.parts = f.parts
  BY <1>1, SettleChanges
<1>3. e.source = Mine(w).source
  BY <1>1 DEF SettledDelivery, Delivery
<1> HIDE DEF e
<1>4. Tame(store.dels[worker[w].id], e)
  BY <1>2, <1>3 DEF Tame, TameFate, Mine
<1> QED
  BY <1>1, <1>2, <1>4, ChangesTame

-----------------------------------------------------------------------------
(* The two ways in which a worker changes what it has in hand *)

(* While w holds the claim and awaits nothing, nobody asks for a part of the
   delivery; i becomes e, still w's, and w's coroutine becomes l. *)
LEMMA HolderStep ==
  ASSUME IInv, NEW w \in Workers, Busy(worker[w]), worker[w].pc # "awaiting",
         Mine(w).claim = w,
         NEW e, Changes(store, worker[w].id, e), DelOK(e), e.claim = w,
         NEW l \in WorkerState, Becomes(w, l),
         NEW x \in [Numbers -> Int], sends' = [sends EXCEPT ![worker[w].id] = x],
         UNCHANGED <<environment, crashes>>,
         RowOK(e, x),
         Busy(l) => l.id = worker[w].id /\ AskedOK(l, l.id, e, x) /\ HeldOK(l, e)
  PROVE  IInv'
<1> DEFINE i == worker[w].id
<1>1. /\ i \in Ids /\ DelOK(Mine(w)) /\ Mine(w) = store.dels[i]
      /\ \A n \in Numbers : store.dels[i].parts[n] \notin {"sending", "unknown"}
  BY InHand DEF HeldOK, Asks, Mine
<1>2. AllTame(store, store)
  BY AllTameSame DEF IInv
<1>3. sends' \in [Ids -> [Numbers -> Int]] /\ store' \in Store /\ crashes' \in 0..MaxCrashes
  BY <1>1 DEF IInv, TypeOK, Changes
<1>4. TypeOK'
  BY <1>3, WorkerTypes DEF IInv, Becomes
<1>5. ASSUME NEW v \in Workers \ {w}, NEW n \in Numbers PROVE ~Asks(worker[v], i, n)
  <2>1. AskedOK(worker[v], i, store.dels[i], sends[i])
    BY <1>1 DEF IInv
  <2> QED
    BY <1>1, <2>1 DEF AskedOK
<1>6. ASSUME NEW v \in Workers \ {w} PROVE AskedOK(worker[v], i, e, x)
  BY <1>5 DEF AskedOK
<1>7. worker' = [worker EXCEPT ![w] = l]
  BY DEF Becomes
<1> QED
  BY <1>1, <1>2, <1>4, <1>5, <1>6, <1>7, WorkerStepIInv

(* Only the part in hand got another status, and x is what was sent. *)
PartTold(w, parts, x) ==
  /\ x \in [Numbers -> Int]
  /\ \A n \in Numbers \ {Part(w)} :
       parts[n] = Mine(w).parts[n] /\ x[n] = sends[worker[w].id][n]
  /\ Part(w) \in Numbers =>
       /\ x[Part(w)] \in {0, 1}
       /\ parts[Part(w)] \notin {"sending", "sent", "unknown"} => x[Part(w)] = 0

(* w awaits the answer for a part; the claim may be given up. *)
LEMMA AwaitStep ==
  ASSUME IInv, NEW w \in Workers, worker[w].pc = "awaiting",
         NEW e, Changes(store, worker[w].id, e), DelOK(e), e.claim \in {Mine(w).claim, "none"},
         NEW l \in WorkerState, Becomes(w, l), l.pc \notin {"awaiting", "rendering"},
         NEW x, sends' = [sends EXCEPT ![worker[w].id] = x], PartTold(w, e.parts, x),
         UNCHANGED <<environment, crashes>>,
         Busy(l) => l.id = worker[w].id /\ (e.claim = w => HeldOK(l, e))
  PROVE  IInv'
<1> DEFINE i == worker[w].id
           p == Part(w)
<1>1. /\ i \in Ids /\ DelOK(Mine(w)) /\ Mine(w) = store.dels[i] /\ RowOK(store.dels[i], sends[i])
      /\ AskedOK(worker[w], i, store.dels[i], sends[i])
  BY InHand DEF Busy, Mine
<1>2. AllTame(store, store)
  BY AllTameSame DEF IInv
<1>3. sends' \in [Ids -> [Numbers -> Int]] /\ store' \in Store /\ crashes' \in 0..MaxCrashes
  BY <1>1 DEF IInv, TypeOK, Changes, PartTold
<1>4. TypeOK'
  BY <1>3, WorkerTypes DEF IInv, Becomes
<1>5. Asks(worker[w], i, p) /\ \A n \in Numbers : Asks(worker[w], i, n) => n = p
  BY DEF Asks, Part
<1>6. RowOK(e, x)
  BY <1>1 DEF RowOK, PartTold
<1>7. AskedOK(l, i, e, x)
  BY DEF AskedOK, Asks
<1>8. ASSUME NEW v \in Workers \ {w}, NEW n \in Numbers, Asks(worker[v], i, n) PROVE n # p
  BY <1>1, <1>5, <1>8 DEF IInv, Apart
<1>9. ASSUME NEW v \in Workers \ {w} PROVE AskedOK(worker[v], i, e, x)
  <2>1. AskedOK(worker[v], i, store.dels[i], sends[i])
    BY <1>1 DEF IInv
  <2> QED
    BY <1>1, <1>8, <2>1 DEF AskedOK, PartTold
<1>10. ASSUME NEW v \in Workers \ {w}, Busy(worker[v]), worker[v].id = i, e.claim = v
       PROVE  HeldOK(worker[v], e)
  <2>1. HeldOK(worker[v], store.dels[i])
    BY <1>1, <1>10, InHand, Bounds DEF Mine
  <2>2. p \notin Numbers
    <3>1. SUFFICES ASSUME p \in Numbers PROVE FALSE
      OBVIOUS
    <3>2. store.dels[i].parts[p] \in {"sending", "unknown"}
      BY <1>1, <1>5, <3>1 DEF AskedOK
    <3>3. Asks(worker[v], i, p)
      BY <1>10, <2>1, <3>1, <3>2 DEF HeldOK
    <3> QED
      BY <1>8, <3>1, <3>3
  <2>3. \A n \in Numbers : e.parts[n] = store.dels[i].parts[n]
    BY <1>1, <2>2 DEF PartTold
  <2> QED
    BY <2>1, <2>3 DEF HeldOK
<1>11. \A v \in Workers \ {w}, n \in Numbers : ~(Asks(l, i, n) /\ Asks(worker[v], i, n))
  BY DEF Asks
<1>12. worker' = [worker EXCEPT ![w] = l]
  BY DEF Becomes
<1> QED
  BY <1>1, <1>2, <1>4, <1>6, <1>7, <1>9, <1>10, <1>11, <1>12, WorkerStepIInv

-----------------------------------------------------------------------------
(* How a worker settles the delivery in hand *)

(* The delivery ends up with the parts of d, and in nobody else's hands. *)
Outcome(w, d) ==
  \E e : /\ Changes(store, worker[w].id, e) /\ DelOK(e)
         /\ e.claim \in {Mine(w).claim, "none"} /\ e.source = Mine(w).source
         /\ \A n \in Numbers : e.parts[n] = d.parts[n]
         /\ e = Mine(w) \/ e.claim = "none" \/ e = d

LEMMA SettleOutcome ==
  ASSUME IInv, NEW w \in Workers, Busy(worker[w]), Mine(w).claim = w,
         NEW f, FateOK(f), SettleMine(w, f), NEW d, d.parts = f.parts
  PROVE  Outcome(w, d)
<1>1. Mine(w).source # "none" /\ Mine(w) \in Delivery /\ StoreOK(store) /\ worker[w].id \in Ids
  BY InHand DEF IInv, DelOK
<1>2. SettledDelivery(Mine(w), f).source = Mine(w).source
  BY <1>1 DEF SettledDelivery, Delivery
<1> QED
  BY <1>1, <1>2, SettleChanges DEF Outcome

LEMMA PutOutcome ==
  ASSUME IInv, NEW w \in Workers, Busy(worker[w]), NEW d, DelOK(d), Put(w, d),
         d.claim = Mine(w).claim, d.source = Mine(w).source
  PROVE  Outcome(w, d)
BY InHand, PutChanges DEF IInv, DelOK, Outcome

(* finish_prediction_reminder_terminal *)
LEMMA FinishTerminalOutcome ==
  ASSUME IInv, NEW w \in Workers, Busy(worker[w]), NEW d, DelOK(d), FinishTerminal(w, d),
         d.claim = Mine(w).claim, d.source = Mine(w).source
  PROVE  Outcome(w, d)
<1>1. CASE Owns(w, {"preparing", "sending"})
  <2>1. d.parts \in [Numbers -> PartStatuses]
    BY DEF DelOK, Delivery
  <2>2. FateOK(TerminalFate(d)) /\ TerminalFate(d).parts = d.parts
    BY <2>1 DEF TerminalFate, Fate, FateOK, IfManual, DeliveryStatuses, OccurrenceStatuses
  <2> QED
    BY <1>1, <2>2, SettleOutcome DEF FinishTerminal, Owns
<1>2. CASE ~Owns(w, {"preparing", "sending"})
  BY <1>2, PutOutcome DEF FinishTerminal
<1> QED
  BY <1>1, <1>2

(* finish_prediction_reminder_retry: nothing of what is retried is being sent. *)
LEMMA FinishRetryOutcome ==
  ASSUME IInv, NEW w \in Workers, Busy(worker[w]), NEW d, NEW failed,
         FinishRetry(w, d, failed),
         DelOK(failed), failed.claim = Mine(w).claim, failed.source = Mine(w).source,
         d \in Delivery, d.source = Mine(w).source, Mine(w).claim = w => Calm(d.parts)
  PROVE  Outcome(w, Mine(w)) \/ Outcome(w, d) \/ Outcome(w, failed)
<1>1. DelOK(Mine(w)) /\ StoreOK(store) /\ worker[w].id \in Ids
  BY InHand DEF IInv
<1>2. CASE Mine(w).claim # w
  <2>1. UNCHANGED store
    BY <1>2 DEF FinishRetry
  <2>2. Changes(store, worker[w].id, Mine(w))
    BY <1>1, <2>1 DEF Changes, Mine, StoreOK
  <2> QED
    BY <1>1, <2>2 DEF Outcome
<1>3. CASE Mine(w).claim = w
  <2>1. PICK delay \in Delays :
          \/ FinishTerminal(w, failed)
          \/ Put(w, [d EXCEPT !.status = "retry", !.attempts = @ + 1, !.next = now + delay,
                              !.claim = "none", !.lease = 0])
    BY <1>3 DEF FinishRetry
  <2>2. CASE FinishTerminal(w, failed)
    BY <2>2, FinishTerminalOutcome
  <2> DEFINE e == [d EXCEPT !.status = "retry", !.attempts = @ + 1, !.next = now + delay,
                            !.claim = "none", !.lease = 0]
  <2>3. CASE Put(w, e)
    <3>1. now + delay \in Nat
      BY DelaysAssumption, SchedulingOK DEF IInv, Scheduling
    <3>2. d.attempts + 1 \in Nat
      BY DEF Delivery
    <3>3. /\ e \in Delivery /\ e.parts = d.parts /\ e.claim = "none" /\ e.source = d.source
          /\ e.status = "retry"
      BY <3>1, <3>2 DEF Delivery, LiveStatuses
    <3> HIDE DEF e
    <3>4. Mine(w).source # "none"
      BY <1>3, InHand
    <3>5. DelOK(e)
      BY <1>3, <3>3, <3>4 DEF DelOK
    <3>6. Changes(store, worker[w].id, e)
      BY <1>1, <2>3, <3>3, PutChanges
    <3> QED
      BY <3>3, <3>5, <3>6 DEF Outcome
  <2> QED
    BY <2>1, <2>2, <2>3
<1> QED
  BY <1>2, <1>3

(* A part gets a status. *)
LEMMA WithPartOK ==
  ASSUME NEW d \in Delivery, NEW n, NEW status \in PartStatuses
  PROVE  /\ WithPart(d, n, status) \in Delivery
         /\ WithPart(d, n, status).claim = d.claim
         /\ WithPart(d, n, status).status = d.status
         /\ WithPart(d, n, status).source = d.source
         /\ \A m \in Numbers :
              WithPart(d, n, status).parts[m] = IF m = n THEN status ELSE d.parts[m]
<1> DEFINE parts == [d.parts EXCEPT ![n] = status]
<1>1. /\ parts \in [Numbers -> PartStatuses]
      /\ \A m \in Numbers : parts[m] = IF m = n THEN status ELSE d.parts[m]
  BY DEF Delivery
<1>2. WithPart(d, n, status) = [d EXCEPT !.parts = parts]
  BY DEF WithPart
<1> HIDE DEF parts
<1> QED
  BY <1>1, <1>2 DEF Delivery

(* The part in hand gets another status if it is being sent. *)
LEMMA PartBecomesOK ==
  ASSUME IInv, NEW w \in Workers, worker[w].pc = "awaiting", NEW status \in PartStatuses,
         status # "none"
  PROVE  LET d == PartBecomes(w, status)
         IN  /\ DelOK(d) /\ d.claim = Mine(w).claim /\ d.source = Mine(w).source
             /\ \A n \in Numbers \ {Part(w)} : d.parts[n] = Mine(w).parts[n]
             /\ Part(w) \in Numbers => d.parts[Part(w)] \in {status, "unknown"}
             /\ Mine(w).claim = w /\ status \notin {"sending", "unknown"} => Calm(d.parts)
<1> DEFINE d == PartBecomes(w, status)
           p == Part(w)
<1>1. /\ DelOK(Mine(w)) /\ Mine(w) \in Delivery
      /\ AskedOK(worker[w], worker[w].id, Mine(w), sends[worker[w].id])
      /\ Mine(w).claim = w => HeldOK(worker[w], Mine(w))
  BY InHand DEF Busy, DelOK
<1>2. \A n \in Numbers : Asks(worker[w], worker[w].id, n) <=> n = p
  BY DEF Asks, Part
<1>3. p \in Numbers => Mine(w).parts[p] \in {"sending", "unknown"}
  BY <1>1, <1>2 DEF AskedOK
<1>4. /\ d \in Delivery /\ d.claim = Mine(w).claim /\ d.source = Mine(w).source
      /\ d.status = Mine(w).status
      /\ \A n \in Numbers : d.parts[n] = IF n = p /\ Mine(w).parts[p] = "sending" THEN status
                                         ELSE Mine(w).parts[n]
  BY <1>1, WithPartOK DEF PartBecomes
<1>5. DelOK(d)
  BY <1>1, <1>3, <1>4 DEF DelOK, Calm
<1>6. ASSUME Mine(w).claim = w, status \notin {"sending", "unknown"} PROVE Calm(d.parts)
  BY <1>1, <1>2, <1>4, <1>6 DEF HeldOK, Calm
<1> QED
  BY <1>3, <1>4, <1>5, <1>6

(* Having settled, w goes on; the part in hand may have arrived. *)
LEMMA SettledStep ==
  ASSUME IInv, NEW w \in Workers, worker[w].pc = "awaiting",
         NEW d, Outcome(w, d), Leave(w) \/ Becomes(w, Idle),
         NEW x, sends' = [sends EXCEPT ![worker[w].id] = x], PartTold(w, d.parts, x),
         UNCHANGED <<environment, crashes>>
  PROVE  IInv'
<1>1. PICK l \in WorkerState : Becomes(w, l) /\ ~Busy(l)
  <2>1. Idle = At("idle", 0, {})
    BY DEF Idle, At
  <2>2. /\ At("idle", 0, {}) \in WorkerState /\ At("idle", 0, {}).pc = "idle"
        /\ At("claiming", 0, {}) \in WorkerState /\ At("claiming", 0, {}).pc = "claiming"
    BY AtType
  <2> QED
    BY <2>1, <2>2 DEF Leave, Becomes, Busy
<1>2. PICK e : /\ Changes(store, worker[w].id, e) /\ DelOK(e)
               /\ e.claim \in {Mine(w).claim, "none"}
               /\ \A n \in Numbers : e.parts[n] = d.parts[n]
  BY DEF Outcome
<1>3. l.pc \notin {"awaiting", "rendering"}
  BY <1>1 DEF Busy
<1>4. PartTold(w, e.parts, x)
  BY <1>2 DEF PartTold
<1> QED
  BY <1>1, <1>2, <1>3, <1>4, AwaitStep

-----------------------------------------------------------------------------
(* The actions of a worker *)

(* Nothing is sent by what settles. *)
LEMMA SameSends ==
  ASSUME IInv, NEW i \in Ids, UNCHANGED sends
  PROVE  /\ sends[i] \in [Numbers -> Int]
         /\ sends' = [sends EXCEPT ![i] = sends[i]]
BY DEF IInv, TypeOK

LEMMA CrashBound == TypeOK /\ UNCHANGED crashes => crashes' \in 0..MaxCrashes
BY DEF TypeOK

(* What recovery and expiry leave *)
LEMMA RidTame ==
  ASSUME IInv PROVE AllTame(store, Expired(Recovered(store)))
<1>1. AllTame(store, Recovered(store))
  BY RecoveredTame DEF IInv
<1>2. AllTame(Recovered(store), Expired(Recovered(store)))
  BY <1>1, ExpiredTame DEF AllTame
<1> QED
  BY <1>1, <1>2, AllTameTransitive

LEMMA StartRoundIInv ==
  ASSUME IInv, NEW w \in Workers, StartRound(w) PROVE IInv'
<1>1. AllTame(store, store')
  BY SchedulingOK, ReconciledTame DEF IInv, StartRound
<1>2. crashes' \in 0..MaxCrashes
  BY CrashBound DEF IInv, StartRound
<1> QED
  BY <1>1, <1>2, RestStep DEF StartRound, Leave

LEMMA CrashIInv ==
  ASSUME IInv, NEW w \in Workers, Crash(w) PROVE IInv'
<1>1. AllTame(store, store')
  BY AllTameSame DEF IInv, Crash
<1>2. crashes' \in 0..MaxCrashes
  BY DelaysAssumption DEF IInv, TypeOK, Crash
<1> QED
  BY <1>1, <1>2, RestStep DEF Crash

(* The delivery i of the tables s, of which nothing is being sent, is w's. *)
LEMMA ClaimStep ==
  ASSUME IInv, NEW w \in Workers, NEW s, AllTame(store, s), NEW i \in Ids,
         Calm(s.dels[i].parts), NEW e, Changes(s, i, e), DelOK(e), e.claim = w,
         \A n \in Numbers : e.parts[n] = s.dels[i].parts[n],
         Becomes(w, At("preflight", i, {})), UNCHANGED <<environment, sends, crashes>>
  PROVE  IInv'
<1> DEFINE l == At("preflight", i, {})
           x == sends[i]
<1>1. l \in WorkerState /\ l.pc = "preflight" /\ l.id = i
  BY AtType
<1> HIDE DEF l
<1>2. x \in [Numbers -> Int] /\ sends' = [sends EXCEPT ![i] = x]
  BY SameSends
<1>3. TypeOK'
  <2>1. store' \in Store /\ sends' \in [Ids -> [Numbers -> Int]] /\ crashes' \in 0..MaxCrashes
    BY DEF IInv, TypeOK, Changes
  <2> QED
    BY <1>1, <2>1, WorkerTypes DEF IInv, Becomes, l
<1>4. Tame(store.dels[i], s.dels[i]) /\ RowOK(store.dels[i], x)
  BY DEF AllTame, IInv
<1>5. RowOK(e, x)
  BY <1>4 DEF RowOK, Tame, PartStep
<1>6. AskedOK(l, i, e, x) /\ HeldOK(l, e)
  BY <1>1 DEF AskedOK, Asks, HeldOK, Calm
<1>7. ASSUME NEW v \in Workers PROVE AskedOK(worker[v], i, e, x)
  <2>1. AskedOK(worker[v], i, store.dels[i], x)
    BY DEF IInv
  <2> QED
    BY <1>4, <2>1 DEF AskedOK, Tame, PartStep
<1>8. \A n \in Numbers : ~Asks(l, i, n)
  BY <1>1 DEF Asks
<1>9. worker' = [worker EXCEPT ![w] = l]
  BY DEF Becomes, l
<1> QED
  BY <1>1, <1>2, <1>3, <1>5, <1>6, <1>7, <1>8, <1>9, WorkerStepIInv

LEMMA ClaimIInv ==
  ASSUME IInv, NEW w \in Workers, Claim(w) PROVE IInv'
<1> DEFINE s == Expired(Recovered(store))
<1>1. AllTame(store, s)
  BY RidTame
<1> HIDE DEF s
<1>2. StoreOK(s) /\ s \in Store /\ s.dels \in [Ids -> Delivery]
  BY <1>1 DEF AllTame, StoreOK, Store
<1>3. UNCHANGED <<environment, sends, crashes>> /\ now \in Nat
  BY SchedulingOK DEF Claim, IInv, Scheduling
<1>4. ASSUME NEW i \in Waiting(s), store' = Taken(s, i, w), Becomes(w, At("preflight", i, {}))
      PROVE  IInv'
  <2> DEFINE d == s.dels[i]
             e == [d EXCEPT !.status = "preparing", !.claim = w, !.lease = now + LeaseTicks]
             dels == [s.dels EXCEPT ![i] = e]
  <2>1. i \in Ids /\ d.status \in {"pending", "retry"}
    BY <1>4 DEF Waiting
  <2>2. DelOK(d) /\ d \in Delivery /\ Calm(d.parts) /\ d.source # "none"
    BY <1>2, <2>1 DEF StoreOK, DelOK
  <2>3. /\ e \in Delivery /\ e.claim = w /\ e.parts = d.parts /\ e.status = "preparing"
        /\ e.source = d.source
    <3>1. now + LeaseTicks \in Nat
      BY <1>3, Bounds
    <3> QED
      BY <2>2, <3>1 DEF Delivery, LiveStatuses
  <2>4. store' = [s EXCEPT !.dels = dels]
    BY <1>4, <2>1 DEF Taken
  <2> HIDE DEF e
  <2>5. DelOK(e)
    BY <2>2, <2>3 DEF DelOK
  <2>6. dels \in [Ids -> Delivery] /\ dels[i] = e /\ \A j \in Ids : j # i => dels[j] = s.dels[j]
    BY <1>2, <2>1, <2>3
  <2> HIDE DEF dels
  <2>7. Changes(s, i, e)
    BY <1>2, <2>4, <2>6 DEF Changes, Store
  <2> QED
    BY <1>1, <1>3, <1>4, <2>1, <2>2, <2>3, <2>5, <2>7, ClaimStep
<1>5. ASSUME NEW i \in Ids, NEW at \in Instants, IsNextId(s, i),
             IsLeast(at, {s.occ[t].observed : t \in Due(s)}),
             store' = BatchTaken(s, i, at, w), Becomes(w, At("preflight", i, {}))
      PROVE  IInv'
  <2> DEFINE batch == {t \in Targets : Scheduled(s, t) /\ s.occ[t].observed = at}
             new == [NoDelivery EXCEPT !.source = "auto", !.expires = at,
                                  !.settings = settings.revision, !.status = "preparing",
                                  !.claim = w, !.lease = now + LeaseTicks]
             e == store'.dels[i]
  <2>1. /\ new \in Delivery /\ new.parts = NoParts /\ new.source = "auto" /\ new.claim = w
    <3>1. now + LeaseTicks \in Nat /\ at \in Nat /\ settings.revision \in Nat
      BY <1>3, <1>5, Bounds DEF Instants, IInv, TypeOK
    <3>2. NoDelivery \in Delivery
      BY NoDeliveryOK DEF DelOK
    <3> QED
      BY <3>1, <3>2 DEF NoDelivery, Delivery, LiveStatuses
  <2>2. store' = Attached(s, i, new, batch) /\ batch \subseteq Targets
    BY <1>5 DEF BatchTaken
  <2> HIDE DEF new, batch
  <2>3. /\ StoreOK(store') /\ \A j \in Ids : j # i => store'.dels[j] = s.dels[j]
        /\ e.parts = NoParts /\ e.claim = w
    BY <1>2, <2>1, <2>2, AttachedOK
  <2>4. \A n \in Numbers : s.dels[i].parts[n] = "none"
    BY <1>2, <1>5 DEF IsNextId, IsLeast, Unused, StoreOK, DelOK
  <2>5. /\ Calm(s.dels[i].parts) /\ \A n \in Numbers : e.parts[n] = s.dels[i].parts[n]
    BY <2>3, <2>4 DEF Calm, NoParts
  <2>6. Changes(s, i, e) /\ DelOK(e)
    BY <2>3 DEF Changes, StoreOK
  <2> QED
    BY <1>1, <1>3, <1>5, <2>3, <2>5, <2>6, ClaimStep
<1>6. ASSUME store' = s, Becomes(w, Idle) PROVE IInv'
  BY <1>1, <1>3, <1>6, RestStep, CrashBound DEF IInv
<1> QED
  BY <1>4, <1>5, <1>6 DEF Claim, s

(* Before anything is being sent, what is retried is the delivery as it is. *)
LEMMA CalmOutcome ==
  ASSUME IInv, NEW w \in Workers, Busy(worker[w]), worker[w].pc # "awaiting",
         \/ FinishRetry(w, Mine(w), Mine(w))
         \/ FinishTerminal(w, Mine(w)),
         Leave(w), UNCHANGED <<environment, sends, crashes>>
  PROVE  IInv'
<1>1. /\ DelOK(Mine(w)) /\ Mine(w) \in Delivery
      /\ worker[w].id \in Ids /\ StoreOK(store) /\ Mine(w) = store.dels[worker[w].id]
  BY InHand DEF DelOK, IInv, Mine
<1>2. Mine(w).claim = w => Calm(Mine(w).parts)
  BY InHand DEF HeldOK, Asks, Calm
<1>3. Outcome(w, Mine(w))
  BY <1>1, <1>2, FinishRetryOutcome, FinishTerminalOutcome
<1>4. PICK e : /\ Changes(store, worker[w].id, e) /\ DelOK(e)
               /\ e.source = Mine(w).source
               /\ \A n \in Numbers : e.parts[n] = Mine(w).parts[n]
               /\ e = Mine(w) \/ e.claim = "none"
  BY <1>3 DEF Outcome
<1>5. Tame(store.dels[worker[w].id], e)
  BY <1>1, <1>4 DEF Tame, PartStep
<1>6. AllTame(store, store')
  BY <1>1, <1>4, <1>5, ChangesTame
<1> QED
  BY <1>6, RestStep, CrashBound DEF IInv

LEMMA PreflightFailsIInv ==
  ASSUME IInv, NEW w \in Workers, PreflightFails(w) PROVE IInv'
BY CalmOutcome DEF PreflightFails, Busy

LEMMA RenderFailsIInv ==
  ASSUME IInv, NEW w \in Workers, RenderFails(w) PROVE IInv'
BY CalmOutcome DEF RenderFails, Busy

(* A claim that is found stale is settled, or it was lost already. *)
LEMMA StaleIInv ==
  ASSUME IInv, NEW w \in Workers, Busy(worker[w]),
         UNCHANGED store \/ (Mine(w).claim = w /\ SettleMine(w, StaleFate(Mine(w)))),
         Leave(w), UNCHANGED <<environment, sends, crashes>>
  PROVE  IInv'
<1>1. CASE UNCHANGED store
  <2>1. AllTame(store, store')
    BY <1>1, AllTameSame DEF IInv
  <2> QED
    BY <2>1, RestStep, CrashBound DEF IInv
<1>2. CASE Mine(w).claim = w /\ SettleMine(w, StaleFate(Mine(w)))
  <2>1. Mine(w) \in Delivery /\ Mine(w).source # "none"
    BY <1>2, InHand DEF DelOK
  <2>2. AllTame(store, store')
    BY <1>2, <2>1, StaleTame, SettleTame
  <2> QED
    BY <2>2, RestStep, CrashBound DEF IInv
<1> QED
  BY <1>1, <1>2

(* Renewing keeps all but the lease. *)
LEMMA RenewedOK ==
  ASSUME TypeOK, NEW d, DelOK(d), d.source # "none"
  PROVE  /\ Renewed(d) \in Delivery /\ Renewed(d).claim = d.claim
         /\ Renewed(d).parts = d.parts /\ Renewed(d).status = d.status
         /\ Renewed(d).source = d.source /\ DelOK(Renewed(d))
<1>1. now + LeaseTicks \in Nat
  BY SchedulingOK, Bounds DEF Scheduling
<1>2. /\ Renewed(d) \in Delivery /\ Renewed(d).claim = d.claim
      /\ Renewed(d).parts = d.parts /\ Renewed(d).status = d.status
      /\ Renewed(d).source = d.source
  BY <1>1 DEF DelOK, Renewed, Delivery
<1> QED
  BY <1>2 DEF DelOK

LEMMA PrepareIInv ==
  ASSUME IInv, NEW w \in Workers, Prepare(w) PROVE IInv'
<1> DEFINE i == worker[w].id
           d == Mine(w)
           x == sends[i]
<1>1. /\ worker[w].pc = "preflight" /\ Busy(worker[w])
      /\ UNCHANGED <<environment, sends, crashes>>
  BY DEF Prepare, Busy
<1>2. CASE ~Renewable(w)
  BY <1>1, <1>2, StaleIInv DEF Prepare
<1>3. CASE Renewable(w) /\ ~(d.status = "preparing" /\ Current(store, i))
  <2>1. SettleMine(w, StaleFate(d)) /\ Leave(w)
    BY <1>3 DEF Prepare
  <2> QED
    BY <1>1, <1>3, <2>1, StaleIInv DEF Renewable, Owns
<1>4. CASE Renewable(w) /\ d.status = "preparing"
  <2>1. /\ d.claim = w /\ d \in Delivery /\ d.source # "none" /\ DelOK(d)
        /\ i \in Ids /\ Calm(d.parts) /\ RowOK(d, x)
    BY <1>1, <1>4, InHand DEF Renewable, Owns, DelOK
  <2>2. /\ Renewed(d) \in Delivery /\ Renewed(d).claim = w /\ Renewed(d).parts = d.parts
        /\ Renewed(d).source # "none"
    BY <2>1, RenewedOK DEF IInv
  <2>3. x \in [Numbers -> Int] /\ sends' = [sends EXCEPT ![i] = x]
    BY <1>1, <2>1, SameSends
  <2>4. ASSUME Put(w, [Renewed(d) EXCEPT !.status = "sending"]),
               Becomes(w, At("sending", i, {n \in Numbers : d.parts[n] = "pending"}))
        PROVE  IInv'
    <3> DEFINE e == [Renewed(d) EXCEPT !.status = "sending"]
               l == At("sending", i, {n \in Numbers : d.parts[n] = "pending"})
    <3>1. l \in WorkerState /\ l.pc = "sending" /\ l.id = i
      BY <2>1, AtType
    <3>2. /\ e \in Delivery /\ e.claim = w /\ e.parts = d.parts /\ e.source # "none"
          /\ e.status = "sending"
      BY <2>2 DEF Delivery, LiveStatuses
    <3> HIDE DEF e, l
    <3>3. DelOK(e)
      BY <3>2 DEF DelOK
    <3>4. Changes(store, i, e)
      BY <2>1, <2>4, <3>2, PutChanges DEF IInv, e
    <3>5. RowOK(e, x) /\ AskedOK(l, l.id, e, x) /\ HeldOK(l, e)
      BY <2>1, <3>1, <3>2 DEF RowOK, AskedOK, Asks, HeldOK, Calm
    <3>6. Becomes(w, l)
      BY <2>4 DEF l
    <3> QED
      BY <1>1, <2>1, <2>3, <3>1, <3>2, <3>3, <3>4, <3>5, <3>6, HolderStep
  <2>5. ASSUME Put(w, [Renewed(d) EXCEPT !.parts = NoParts]), ~Has(d, {"sent"}),
               Becomes(w, At("rendering", i, {}))
        PROVE  IInv'
    <3> DEFINE e == [Renewed(d) EXCEPT !.parts = NoParts]
               l == At("rendering", i, {})
    <3>1. l \in WorkerState /\ l.pc = "rendering" /\ l.id = i
      BY <2>1, AtType
    <3>2. /\ e \in Delivery /\ e.claim = w /\ e.parts = NoParts /\ e.source # "none"
      BY <2>2, NoDeliveryOK DEF Delivery, NoParts, PartStatuses
    <3> HIDE DEF e, l
    <3>3. \A n \in Numbers : e.parts[n] = "none"
      BY <3>2 DEF NoParts
    <3>4. DelOK(e)
      BY <3>2, <3>3 DEF DelOK, Calm
    <3>5. Changes(store, i, e)
      BY <2>1, <2>5, <3>2, PutChanges DEF IInv, e
    <3>6. \A n \in Numbers : x[n] = 0
      BY <2>1, <2>5 DEF RowOK, Has, Calm
    <3>7. RowOK(e, x) /\ AskedOK(l, l.id, e, x) /\ HeldOK(l, e)
      BY <3>1, <3>3, <3>6 DEF RowOK, AskedOK, Asks, HeldOK
    <3>8. Becomes(w, l)
      BY <2>5 DEF l
    <3> QED
      BY <1>1, <2>1, <2>3, <3>1, <3>2, <3>4, <3>5, <3>7, <3>8, HolderStep
  <2>6. CASE Current(store, i)
    BY <1>4, <2>4, <2>5, <2>6 DEF Prepare
  <2> QED
    BY <1>3, <1>4, <2>6
<1> QED
  BY <1>2, <1>3, <1>4

LEMMA StorePartsIInv ==
  ASSUME IInv, NEW w \in Workers, StoreParts(w) PROVE IInv'
<1> DEFINE i == worker[w].id
           d == Mine(w)
           x == sends[i]
<1>1. /\ worker[w].pc = "rendering" /\ Busy(worker[w])
      /\ UNCHANGED <<environment, sends, crashes>>
  BY DEF StoreParts, Busy
<1>2. CASE UNCHANGED store /\ Leave(w)
  BY <1>1, <1>2, StaleIInv
<1>3. ASSUME Owns(w, {"preparing"}), NEW k \in Numbers,
             Put(w, [d EXCEPT !.status = "sending",
                              !.parts = [n \in Numbers |-> IF n <= k THEN "pending" ELSE "none"]]),
             Becomes(w, At("sending", i, 1..k))
      PROVE  IInv'
  <2> DEFINE parts == [n \in Numbers |-> IF n <= k THEN "pending" ELSE "none"]
             e == [d EXCEPT !.status = "sending", !.parts = parts]
             todo == 1..k
             l == At("sending", i, todo)
  <2>1. /\ d.claim = w /\ d \in Delivery /\ d.source # "none"
        /\ i \in Ids /\ Calm(d.parts) /\ RowOK(d, x) /\ HeldOK(worker[w], d)
    BY <1>1, <1>3, InHand DEF Owns, DelOK
  <2>2. x \in [Numbers -> Int] /\ sends' = [sends EXCEPT ![i] = x]
    BY <1>1, <2>1, SameSends
  <2>3. l \in WorkerState /\ l.pc = "sending" /\ l.id = i
    <3>1. todo \in SUBSET Numbers
      BY Bounds DEF Numbers
    <3> HIDE DEF todo
    <3> QED
      BY <2>1, <3>1, AtType
  <2>4. parts \in [Numbers -> PartStatuses] /\ \A n \in Numbers : parts[n] \in {"pending", "none"}
    BY DEF PartStatuses
  <2> HIDE DEF parts
  <2>5. /\ e \in Delivery /\ e.claim = w /\ e.parts = parts /\ e.source # "none"
        /\ e.status = "sending"
    BY <2>1, <2>4 DEF Delivery, LiveStatuses
  <2>6. Becomes(w, l) /\ Put(w, e)
    BY <1>3 DEF parts
  <2> HIDE DEF e, l
  <2>7. DelOK(e)
    BY <2>5 DEF DelOK
  <2>8. Changes(store, i, e)
    BY <2>1, <2>5, <2>6, PutChanges DEF IInv
  <2>9. \A n \in Numbers : x[n] = 0
    BY <1>1, <2>1 DEF RowOK, HeldOK, Calm
  <2>10. RowOK(e, x) /\ AskedOK(l, l.id, e, x) /\ HeldOK(l, e)
    BY <2>3, <2>4, <2>5, <2>9 DEF RowOK, AskedOK, Asks, HeldOK
  <2> QED
    BY <1>1, <2>1, <2>2, <2>3, <2>5, <2>6, <2>7, <2>8, <2>10, HolderStep
<1> QED
  BY <1>2, <1>3 DEF StoreParts

(* One counter of a row changes. *)
Counted(row, p, change) == [row EXCEPT ![p] = @ + change]

LEMMA CountedOK ==
  ASSUME NEW row \in [Numbers -> Int], NEW p, NEW change \in Int
  PROVE  /\ Counted(row, p, change) \in [Numbers -> Int]
         /\ \A n \in Numbers :
              Counted(row, p, change)[n] = IF n = p THEN row[n] + change ELSE row[n]
<1> DEFINE g == Counted(row, p, change)
<1>1. /\ g = [n \in Numbers |-> g[n]]
      /\ \A n \in Numbers : g[n] = IF n = p THEN row[n] + change ELSE row[n]
  BY DEF Counted
<1>2. \A n \in Numbers : row[n] + change \in Int
  OBVIOUS
<1> HIDE DEF g
<1>3. \A n \in Numbers : g[n] \in Int
  BY <1>1, <1>2
<1>4. g \in [Numbers -> Int]
  BY <1>1, <1>3
<1> QED
  BY <1>1, <1>4 DEF g

LEMMA SendsCounted ==
  ASSUME NEW w, NEW change
  PROVE  Sends(w, change) => sends' = [sends EXCEPT ![worker[w].id] =
                                         Counted(sends[worker[w].id], Part(w), change)]
BY DEF Sends, Counted

(* The part is marked before Telegram is asked: it was not sent before. *)
LEMMA MarkIInv ==
  ASSUME IInv, NEW w \in Workers, Mark(w) PROVE IInv'
<1> DEFINE i == worker[w].id
           d == Mine(w)
           p == Part(w)
<1>1. /\ worker[w].pc = "sending" /\ Busy(worker[w])
      /\ UNCHANGED <<environment, crashes>>
  BY DEF Mark, Busy
<1>2. CASE ~Renewable(w)
  BY <1>1, <1>2, StaleIInv DEF Mark
<1>3. CASE Renewable(w) /\ ~(d.status = "sending" /\ Current(store, i))
  <2>1. SettleMine(w, StaleFate(d)) /\ Leave(w) /\ UNCHANGED sends
    BY <1>3 DEF Mark
  <2> QED
    BY <1>1, <1>3, <2>1, StaleIInv DEF Renewable, Owns
<1>4. CASE Renewable(w) /\ d.status = "sending" /\ Current(store, i)
  <2> DEFINE r == Renewed(d)
  <2>1. /\ d.claim = w /\ d.source # "none" /\ DelOK(d) /\ HeldOK(worker[w], d)
        /\ i \in Ids /\ RowOK(d, sends[i]) /\ worker[w].todo \in SUBSET Numbers
    BY <1>1, <1>4, InHand DEF Renewable, Owns
  <2>2. /\ DelOK(r) /\ r \in Delivery /\ r.claim = w /\ r.parts = d.parts
        /\ r.status = "sending" /\ r.source # "none"
    BY <1>4, <2>1, RenewedOK DEF IInv
  <2>3. \A n \in Numbers : d.parts[n] \notin {"sending", "unknown"}
    BY <1>1, <2>1 DEF HeldOK, Asks
  <2>4. sends[i] \in [Numbers -> Int]
    BY <2>1 DEF IInv, TypeOK
  <2> HIDE DEF r
  <2>5. ASSUME d.parts[p] = "pending", Put(w, WithPart(r, p, "sending")),
               Becomes(w, At("awaiting", i, worker[w].todo)), Sends(w, 1)
        PROVE  IInv'
    <3> DEFINE e == WithPart(r, p, "sending")
               l == At("awaiting", i, worker[w].todo)
               x == Counted(sends[i], p, 1)
    <3>1. /\ l \in WorkerState /\ l.pc = "awaiting" /\ l.id = i /\ l.todo = worker[w].todo
      BY <2>1, AtType
    <3>2. /\ e \in Delivery /\ e.claim = w /\ e.status = "sending" /\ e.source # "none"
          /\ \A n \in Numbers : e.parts[n] = IF n = p THEN "sending" ELSE d.parts[n]
      BY <2>2, WithPartOK DEF PartStatuses
    <3>3. /\ x \in [Numbers -> Int]
          /\ \A n \in Numbers : x[n] = IF n = p THEN sends[i][n] + 1 ELSE sends[i][n]
      BY <2>4, CountedOK
    <3>4. sends' = [sends EXCEPT ![i] = x]
      BY <2>5, SendsCounted
    <3> HIDE DEF e, l, x
    <3>5. DelOK(e)
      BY <3>2 DEF DelOK
    <3>6. Changes(store, i, e)
      BY <2>1, <2>5, <3>2, PutChanges DEF IInv, e
    <3>7. \A n \in Numbers : Asks(l, i, n) <=> n = p
      BY <3>1 DEF Asks, Part
    <3>8. RowOK(e, x)
      BY <2>1, <2>5, <3>2, <3>3 DEF RowOK
    <3>9. AskedOK(l, i, e, x)
      BY <2>1, <2>5, <3>2, <3>3, <3>7 DEF RowOK, AskedOK
    <3>10. HeldOK(l, e)
      BY <2>3, <3>1, <3>2, <3>7 DEF HeldOK
    <3>11. Becomes(w, l)
      BY <2>5 DEF l
    <3> QED
      BY <1>1, <2>1, <3>1, <3>2, <3>3, <3>4, <3>5, <3>6, <3>8, <3>9, <3>10, <3>11, HolderStep
  <2>6. ASSUME Put(w, r), Leave(w), UNCHANGED sends PROVE IInv'
    <3> DEFINE l == At("claiming", 0, {})
    <3>1. l \in WorkerState /\ ~Busy(l) /\ Becomes(w, l)
      BY <2>6, AtType DEF Leave, Busy
    <3>2. Changes(store, i, r)
      BY <2>1, <2>2, <2>6, PutChanges DEF IInv
    <3>3. RowOK(r, sends[i]) /\ sends' = [sends EXCEPT ![i] = sends[i]]
      BY <2>1, <2>2, <2>6, SameSends DEF RowOK
    <3> QED
      BY <1>1, <2>1, <2>2, <2>4, <3>1, <3>2, <3>3, HolderStep
  <2> QED
    BY <1>4, <2>5, <2>6 DEF Mark, r
<1> QED
  BY <1>2, <1>3, <1>4

-----------------------------------------------------------------------------
(* The answers *)

(* The part may have arrived: it counts as unknown, whoever has the claim. *)
LEMMA UnknownIInv ==
  ASSUME IInv, NEW w \in Workers, worker[w].pc = "awaiting", FinishUnknown(w),
         Leave(w) \/ Becomes(w, Idle), UNCHANGED <<environment, sends, crashes>>
  PROVE  IInv'
<1> DEFINE d == PartBecomes(w, "unknown")
           i == worker[w].id
<1>1. /\ DelOK(d) /\ d.claim = Mine(w).claim /\ d.source = Mine(w).source
      /\ \A n \in Numbers \ {Part(w)} : d.parts[n] = Mine(w).parts[n]
      /\ Part(w) \in Numbers => d.parts[Part(w)] = "unknown"
  BY PartBecomesOK DEF PartStatuses
<1> HIDE DEF d
<1>2. Busy(worker[w]) /\ i \in Ids /\ RowOK(Mine(w), sends[i])
  BY InHand DEF Busy
<1>3. Outcome(w, d)
  <2>1. CASE Owns(w, {"preparing", "sending"})
    <3>1. d.parts \in [Numbers -> PartStatuses]
      BY <1>1 DEF DelOK, Delivery
    <3>2. FateOK(UnknownFate(d)) /\ UnknownFate(d).parts = d.parts
      BY <3>1 DEF UnknownFate, Fate, FateOK, DeliveryStatuses, OccurrenceStatuses
    <3> QED
      BY <1>2, <2>1, <3>2, SettleOutcome DEF FinishUnknown, Owns, d
  <2>2. CASE ~Owns(w, {"preparing", "sending"})
    BY <1>1, <1>2, <2>2, PutOutcome DEF FinishUnknown, d
  <2> QED
    BY <2>1, <2>2
<1>4. sends[i] \in [Numbers -> Int] /\ sends' = [sends EXCEPT ![i] = sends[i]]
  BY <1>2, SameSends
<1>5. PartTold(w, d.parts, sends[i])
  BY <1>1, <1>2, <1>4 DEF PartTold, RowOK
<1> QED
  BY <1>3, <1>4, <1>5, SettledStep

LEMMA HandleUnknownIInv ==
  ASSUME IInv, NEW w \in Workers, HandleUnknown(w) PROVE IInv'
BY UnknownIInv DEF HandleUnknown

LEMMA HandleSentIInv ==
  ASSUME IInv, NEW w \in Workers, HandleSent(w) PROVE IInv'
<1> DEFINE i == worker[w].id
           d == Mine(w)
           p == Part(w)
           todo == worker[w].todo \ {p}
           pc == IF todo = {} THEN "finishing" ELSE "sending"
<1>1. worker[w].pc = "awaiting" /\ UNCHANGED <<environment, sends, crashes>>
  BY DEF HandleSent
<1>2. CASE FinishUnknown(w) /\ Leave(w)
  BY <1>1, <1>2, UnknownIInv
<1>3. CASE /\ Owns(w, {"sending"}) /\ d.parts[p] = "sending"
           /\ Put(w, WithPart(d, p, "sent")) /\ Becomes(w, At(pc, i, todo))
  <2> DEFINE e == WithPart(d, p, "sent")
             l == At(pc, i, todo)
             x == sends[i]
  <2>1. /\ d.claim = w /\ d.status = "sending" /\ d.source # "none" /\ d \in Delivery
        /\ i \in Ids /\ worker[w].todo \subseteq Numbers /\ HeldOK(worker[w], d) /\ RowOK(d, x)
    BY <1>1, <1>3, InHand DEF Busy, Owns, DelOK
  <2>2. l \in WorkerState /\ l.pc \in {"finishing", "sending"} /\ l.id = i
    <3> HIDE DEF todo
    <3>1. todo \in SUBSET Numbers /\ pc \in {"finishing", "sending"}
      BY <2>1 DEF todo
    <3> HIDE DEF pc
    <3> QED
      BY <2>1, <3>1, AtType
  <2>3. /\ e \in Delivery /\ e.claim = w /\ e.status = "sending" /\ e.source # "none"
        /\ \A n \in Numbers : e.parts[n] = IF n = p THEN "sent" ELSE d.parts[n]
    BY <2>1, WithPartOK DEF PartStatuses
  <2>4. Becomes(w, l) /\ Put(w, e)
    BY <1>3
  <2> HIDE DEF e, l
  <2>5. DelOK(e)
    BY <2>3 DEF DelOK
  <2>6. Changes(store, i, e)
    BY <2>1, <2>3, <2>4, PutChanges DEF IInv
  <2>7. \A n \in Numbers : Asks(worker[w], i, n) => n = p
    BY DEF Asks, Part
  <2>8. HeldOK(l, e)
    BY <2>1, <2>2, <2>3, <2>7 DEF HeldOK
  <2>9. x \in [Numbers -> Int] /\ sends' = [sends EXCEPT ![i] = x]
    BY <1>1, <2>1, SameSends
  <2>10. PartTold(w, e.parts, x)
    BY <2>1, <2>3, <2>9 DEF PartTold, RowOK
  <2>11. l.pc \notin {"awaiting", "rendering"} /\ e.claim \in {Mine(w).claim, "none"}
    BY <2>1, <2>2, <2>3
  <2> QED
    BY <1>1, <2>2, <2>4, <2>5, <2>6, <2>8, <2>9, <2>10, <2>11, AwaitStep
<1> QED
  BY <1>2, <1>3 DEF HandleSent

(* Telegram refused: the part did not arrive. *)
LEMMA HandleRefusedIInv ==
  ASSUME IInv, NEW w \in Workers, HandleRefused(w) PROVE IInv'
<1> DEFINE i == worker[w].id
           again == PartBecomes(w, "pending")
           failed == PartBecomes(w, "terminal_failed")
           x == Counted(sends[i], Part(w), -1)
<1>1. /\ worker[w].pc = "awaiting" /\ Busy(worker[w]) /\ UNCHANGED <<environment, crashes>>
      /\ Leave(w) /\ Sends(w, -1)
      /\ FinishRetry(w, again, failed) \/ FinishTerminal(w, failed)
  BY DEF HandleRefused, Busy
<1>2. /\ DelOK(again) /\ again \in Delivery /\ again.source = Mine(w).source
      /\ \A n \in Numbers \ {Part(w)} : again.parts[n] = Mine(w).parts[n]
      /\ Mine(w).claim = w => Calm(again.parts)
  BY <1>1, PartBecomesOK DEF PartStatuses, DelOK
<1>3. /\ DelOK(failed) /\ failed.claim = Mine(w).claim /\ failed.source = Mine(w).source
      /\ \A n \in Numbers \ {Part(w)} : failed.parts[n] = Mine(w).parts[n]
  BY <1>1, PartBecomesOK DEF PartStatuses
<1> HIDE DEF again, failed
<1>4. Outcome(w, Mine(w)) \/ Outcome(w, again) \/ Outcome(w, failed)
  BY <1>1, <1>2, <1>3, FinishRetryOutcome, FinishTerminalOutcome
<1>5. /\ i \in Ids /\ RowOK(Mine(w), sends[i]) /\ AskedOK(worker[w], i, Mine(w), sends[i])
      /\ sends[i] \in [Numbers -> Int]
  BY <1>1, InHand DEF IInv, TypeOK
<1>6. Part(w) \in Numbers => sends[i][Part(w)] = 1
  BY <1>1, <1>5 DEF AskedOK, Asks, Part
<1>7. sends' = [sends EXCEPT ![i] = x]
  BY <1>1, SendsCounted
<1>8. /\ x \in [Numbers -> Int]
      /\ Part(w) \in Numbers => x[Part(w)] = 0
      /\ \A n \in Numbers \ {Part(w)} : x[n] = sends[i][n]
  BY <1>5, <1>6, CountedOK
<1> HIDE DEF x
<1>9. PartTold(w, Mine(w).parts, x) /\ PartTold(w, again.parts, x) /\ PartTold(w, failed.parts, x)
  BY <1>2, <1>3, <1>8 DEF PartTold
<1> QED
  <2>1. UNCHANGED <<environment, crashes>> /\ (Leave(w) \/ Becomes(w, Idle))
    BY <1>1
  <2>2. CASE Outcome(w, Mine(w))
    BY <1>1, <1>7, <1>9, <2>1, <2>2, SettledStep
  <2>3. CASE Outcome(w, again)
    BY <1>1, <1>7, <1>9, <2>1, <2>3, SettledStep
  <2>4. CASE Outcome(w, failed)
    BY <1>1, <1>7, <1>9, <2>1, <2>4, SettledStep
  <2> QED
    BY <1>4, <2>2, <2>3, <2>4

LEMMA FinishSuccessIInv ==
  ASSUME IInv, NEW w \in Workers, FinishSuccess(w) PROVE IInv'
<1>1. /\ worker[w].pc = "finishing" /\ Busy(worker[w])
      /\ Leave(w) /\ UNCHANGED <<environment, sends, crashes>>
  BY DEF FinishSuccess, Busy
<1>2. CASE UNCHANGED store
  BY <1>1, <1>2, StaleIInv
<1>3. CASE Owns(w, {"sending"}) /\ SettleMine(w, Fate("sent", "sent", Mine(w).parts))
  <2>1. Mine(w).source # "none" /\ Mine(w) \in Delivery
    BY <1>1, <1>3, InHand DEF Owns, DelOK
  <2>2. TameFate(Mine(w), Fate("sent", "sent", Mine(w).parts))
    BY <2>1, SamePartsTame DEF DeliveryStatuses, OccurrenceStatuses
  <2>3. AllTame(store, store')
    BY <1>1, <1>3, <2>1, <2>2, SettleTame
  <2> QED
    BY <1>1, <2>3, RestStep, CrashBound DEF IInv
<1> QED
  BY <1>2, <1>3 DEF FinishSuccess

-----------------------------------------------------------------------------
(* The theorems *)

LEMMA NextIInv == IInv /\ [Next]_vars => IInv'
<1>1. ASSUME IInv, UNCHANGED vars PROVE IInv'
  <2>1. TypeOK'
    BY <1>1 DEF IInv, TypeOK, vars
  <2>2. AllTame(store, store')
    BY <1>1, AllTameSame DEF IInv, vars
  <2> QED
    BY <1>1, <2>1, <2>2, TameStep DEF vars
<1>2. ASSUME IInv, Environment PROVE IInv'
  BY <1>2, CommandIInv, TickIInv DEF Environment
<1>3. ASSUME IInv, NEW w \in Workers, WorkerStep(w) PROVE IInv'
  BY <1>3, StartRoundIInv, ClaimIInv, PreflightFailsIInv, PrepareIInv, RenderFailsIInv,
     StorePartsIInv, MarkIInv, HandleSentIInv, HandleRefusedIInv, HandleUnknownIInv,
     FinishSuccessIInv DEF WorkerStep
<1> QED
  BY <1>1, <1>2, <1>3, CrashIInv DEF Next

(* Every execution satisfies the inductive invariant. *)
THEOREM Invariance == Spec => []IInv
<1> QED
  BY InitIInv, NextIInv, PTL DEF Spec

(* The tables, coroutines and counters always have their types. *)
THEOREM ReminderTypes == Spec => []TypeOK
<1> QED
  BY Invariance, IInvImplies, PTL

(* Whatever the number of targets, workers, deliveries and parts, the leases,
   backoffs and bounds: Telegram is never asked twice for a part that it
   accepted or may have accepted. *)
THEOREM NeverSentTwice == Spec => []NoPartSentTwice
<1> QED
  BY Invariance, IInvImplies, PTL

=============================================================================
