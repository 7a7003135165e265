--------------------------- MODULE ReminderWorker ---------------------------
(***************************************************************************)
(* The worker that delivers reminders                                      *)
(* (app/prediction_reminder_worker.py) over the tables of ReminderStore.    *)
(* It awaits Telegram twice: when it looks the chat up before a delivery    *)
(* and when it sends a part.  Each action is one transaction, or what is    *)
(* done with one answer; commands, the synchronization of matches, the      *)
(* clock and other processes come between any two.                          *)
(***************************************************************************)
EXTENDS ReminderStore

CONSTANTS
  Delays,      (* backoffs and Telegram's retry_after                     *)
  MaxCrashes   (* bound on crashes                                        *)

ASSUME DelaysAssumption == Delays \subseteq Nat /\ MaxCrashes \in Nat

VARIABLES
  worker,   (* the coroutine of each worker                               *)
  sends,    (* how often Telegram accepted, or may have accepted, a part  *)
  crashes

vars == <<now, contest, settings, schedule, store, edits, worker, sends, crashes>>
environment == <<now, contest, settings, schedule, edits>>

WorkerState ==
  [pc : {"idle", "claiming", "preflight", "rendering", "sending", "awaiting", "finishing"},
   id : 0..MaxDeliveries, todo : SUBSET Numbers]

Idle == [pc |-> "idle", id |-> 0, todo |-> {}]
At(pc, i, todo) == [pc |-> pc, id |-> i, todo |-> todo]

Init ==
  /\ StoreInit
  /\ worker = [w \in Workers |-> Idle]
  /\ sends = [i \in Ids |-> [n \in Numbers |-> 0]]
  /\ crashes = 0

Becomes(w, local) == worker' = [worker EXCEPT ![w] = local]

Mine(w) == store.dels[worker[w].id]
Part(w) == Min(worker[w].todo)

Owns(w, statuses) == Mine(w).claim = w /\ Mine(w).status \in statuses

(* On to the next delivery of the round *)
Leave(w) == Becomes(w, At("claiming", 0, {}))

Put(w, delivery) == store' = [store EXCEPT !.dels[worker[w].id] = delivery]

-----------------------------------------------------------------------------
(* process_due_prediction_reminders *)

StartRound(w) ==
  /\ worker[w].pc = "idle"
  /\ store' = Reconciled(store, settings)
  /\ Becomes(w, At("claiming", 0, {}))
  /\ UNCHANGED <<environment, sends, crashes>>

(* A delivery that waits goes before a new batch; several that wait are
   taken in any order. *)
Claim(w) ==
  LET s == Expired(Recovered(store))
  IN  /\ worker[w].pc = "claiming"
      /\ \/ \E i \in Waiting(s) :
              /\ store' = Taken(s, i, w)
              /\ Becomes(w, At("preflight", i, {}))
         \/ /\ Waiting(s) = {} /\ Due(s) # {}
            /\ \E i \in Ids, at \in Instants :
                 /\ IsNextId(s, i)
                 /\ IsLeast(at, {s.occ[t].observed : t \in Due(s)})
                 /\ store' = BatchTaken(s, i, at, w)
                 /\ Becomes(w, At("preflight", i, {}))
         \/ /\ Waiting(s) = {} /\ Due(s) = {}
            /\ store' = s
            /\ Becomes(w, Idle)
      /\ UNCHANGED <<environment, sends, crashes>>

-----------------------------------------------------------------------------
(* How the worker settles the delivery it holds *)

SettleMine(w, fate) == store' = Settled(store, Only(worker[w].id, fate))

WithPart(d, n, status) == [d EXCEPT !.parts[n] = status]

(* finish_prediction_reminder_terminal with d as the delivery, and nothing
   but d's parts when the claim is no longer the worker's *)
FinishTerminal(w, d) ==
  IF Owns(w, {"preparing", "sending"}) THEN SettleMine(w, TerminalFate(d)) ELSE Put(w, d)

(* The part in hand, when it still counts as being sent *)
PartBecomes(w, status) ==
  IF Mine(w).parts[Part(w)] = "sending" THEN WithPart(Mine(w), Part(w), status) ELSE Mine(w)

(* finish_prediction_reminder_retry: d is the delivery with the part put
   back, failed the one with the part given up. *)
FinishRetry(w, d, failed) ==
  IF Mine(w).claim # w THEN UNCHANGED store
  ELSE \E delay \in Delays :
         IF d.attempts + 1 >= MaxAttempts \/ now + delay >= d.expires
         THEN FinishTerminal(w, failed)
         ELSE Put(w, [d EXCEPT !.status = "retry", !.attempts = @ + 1, !.next = now + delay,
                               !.claim = "none", !.lease = 0])

FinishUnknown(w) ==
  LET d == PartBecomes(w, "unknown")
  IN  IF Owns(w, {"preparing", "sending"}) THEN SettleMine(w, UnknownFate(d)) ELSE Put(w, d)

-----------------------------------------------------------------------------
(* _process_claimed_delivery, up to its first send *)

PreflightFails(w) ==
  /\ worker[w].pc = "preflight"
  /\ FinishRetry(w, Mine(w), Mine(w)) \/ FinishTerminal(w, Mine(w))
  /\ Leave(w)
  /\ UNCHANGED <<environment, sends, crashes>>

Renewable(w) == Owns(w, {"preparing", "sending"}) /\ now < Mine(w).expires

Renewed(d) == [d EXCEPT !.lease = now + LeaseTicks]

Prepare_RendersAnew(w) ==
  /\ worker[w].pc = "preflight"
  /\ Renewable(w)
  /\ IF Mine(w).status = "preparing" /\ Current(store, worker[w].id)
     THEN /\ Put(w, [Renewed(Mine(w)) EXCEPT !.parts = NoParts])
          /\ Becomes(w, At("rendering", worker[w].id, {}))
     ELSE SettleMine(w, StaleFate(Mine(w))) /\ Leave(w)
  /\ UNCHANGED <<environment, sends, crashes>>

(* The chat is known: the claim is renewed; a delivery that was begun goes on
   with its pending parts, any other is rendered anew. *)
Prepare(w) ==
  LET i == worker[w].id
      d == Mine(w)
  IN  /\ worker[w].pc = "preflight"
      /\ CASE ~Renewable(w) -> UNCHANGED store /\ Leave(w)
           [] Renewable(w) /\ ~(d.status = "preparing" /\ Current(store, i)) ->
                SettleMine(w, StaleFate(d)) /\ Leave(w)
           [] OTHER ->
                IF Has(d, {"sent"})
                THEN /\ Put(w, [Renewed(d) EXCEPT !.status = "sending"])
                     /\ Becomes(w, At("sending", i, {n \in Numbers : d.parts[n] = "pending"}))
                ELSE /\ Put(w, [Renewed(d) EXCEPT !.parts = NoParts])
                     /\ Becomes(w, At("rendering", i, {}))
      /\ UNCHANGED <<environment, sends, crashes>>

(* A manual reminder is about all that is open now. *)
Renderable(w) == Mine(w).source = "manual" => \E t \in Targets : Open(t)

RenderFails(w) ==
  /\ worker[w].pc = "rendering"
  /\ FinishTerminal(w, Mine(w)) \/ FinishRetry(w, Mine(w), Mine(w))
  /\ Leave(w)
  /\ UNCHANGED <<environment, sends, crashes>>

(* store_prediction_reminder_parts; a claim found lost is left as it is. *)
StoreParts(w) ==
  LET i == worker[w].id
  IN  /\ worker[w].pc = "rendering"
      /\ Renderable(w)
      /\ IF Owns(w, {"preparing"}) /\ Current(store, i)
         THEN \E k \in Numbers :
                /\ Put(w, [Mine(w) EXCEPT !.status = "sending",
                                          !.parts = [n \in Numbers |->
                                                       IF n <= k THEN "pending" ELSE "none"]])
                /\ Becomes(w, At("sending", i, 1..k))
         ELSE UNCHANGED store /\ Leave(w)
      /\ UNCHANGED <<environment, sends, crashes>>

-----------------------------------------------------------------------------
(* The loop over the parts *)

Sends(w, change) == sends' = [sends EXCEPT ![worker[w].id][Part(w)] = @ + change]

(* renew_prediction_reminder_claim, mark_prediction_reminder_part_sending,
   and Telegram is asked. *)
Mark(w) ==
  LET i == worker[w].id
      d == Mine(w)
  IN  /\ worker[w].pc = "sending"
      /\ CASE ~Renewable(w) -> UNCHANGED <<store, sends>> /\ Leave(w)
           [] Renewable(w) /\ ~(d.status = "sending" /\ Current(store, i)) ->
                SettleMine(w, StaleFate(d)) /\ Leave(w) /\ UNCHANGED sends
           [] OTHER ->
                IF d.parts[Part(w)] = "pending"
                THEN /\ Put(w, WithPart(Renewed(d), Part(w), "sending"))
                     /\ Becomes(w, At("awaiting", i, worker[w].todo))
                     /\ Sends(w, 1)
                ELSE Put(w, Renewed(d)) /\ Leave(w) /\ UNCHANGED sends
      /\ UNCHANGED <<environment, crashes>>

(* record_prediction_reminder_part_sent *)
HandleSent(w) ==
  LET i == worker[w].id
      todo == worker[w].todo \ {Part(w)}
  IN  /\ worker[w].pc = "awaiting"
      /\ IF Owns(w, {"sending"}) /\ Mine(w).parts[Part(w)] = "sending"
         THEN /\ Put(w, WithPart(Mine(w), Part(w), "sent"))
              /\ Becomes(w, At(IF todo = {} THEN "finishing" ELSE "sending", i, todo))
         ELSE FinishUnknown(w) /\ Leave(w)
      /\ UNCHANGED <<environment, sends, crashes>>

(* Telegram refuses for a while (retry after, migrated chat), or for good. *)
HandleRefused(w) ==
  /\ worker[w].pc = "awaiting"
  /\ \/ FinishRetry(w, PartBecomes(w, "pending"), PartBecomes(w, "terminal_failed"))
     \/ FinishTerminal(w, PartBecomes(w, "terminal_failed"))
  /\ Leave(w)
  /\ Sends(w, -1)
  /\ UNCHANGED <<environment, crashes>>

HandleUnknown_Retries(w) ==
  /\ worker[w].pc = "awaiting"
  /\ FinishRetry(w, PartBecomes(w, "pending"), PartBecomes(w, "terminal_failed"))
  /\ Leave(w)
  /\ UNCHANGED <<environment, sends, crashes>>

(* A timeout, a failing network or server, or anything unexpected: Telegram
   may have accepted the part.  A cancelled worker stops. *)
HandleUnknown(w) ==
  /\ worker[w].pc = "awaiting"
  /\ FinishUnknown(w)
  /\ Leave(w) \/ Becomes(w, Idle)
  /\ UNCHANGED <<environment, sends, crashes>>

FinishSuccess(w) ==
  /\ worker[w].pc = "finishing"
  /\ IF Whole(Mine(w)) /\ Owns(w, {"sending"})
     THEN SettleMine(w, Fate("sent", "sent", Mine(w).parts)) ELSE UNCHANGED store
  /\ Leave(w)
  /\ UNCHANGED <<environment, sends, crashes>>

-----------------------------------------------------------------------------

(* A claim stays with nobody until its lease has run out. *)
Crash(w) ==
  /\ worker[w].pc # "idle"
  /\ crashes < MaxCrashes
  /\ crashes' = crashes + 1
  /\ Becomes(w, Idle)
  /\ UNCHANGED <<environment, store, sends>>

WorkerStep(w) ==
  \/ StartRound(w)
  \/ Claim(w)
  \/ PreflightFails(w)
  \/ Prepare(w)
  \/ RenderFails(w)
  \/ StoreParts(w)
  \/ Mark(w)
  \/ HandleSent(w)
  \/ HandleRefused(w)
  \/ HandleUnknown(w)
  \/ FinishSuccess(w)

Environment == (StoreCommand \/ Tick) /\ UNCHANGED <<worker, sends, crashes>>

Next == Environment \/ \E w \in Workers : WorkerStep(w) \/ Crash(w)

Spec == Init /\ [][Next]_vars

(* Calls are under asyncio.wait_for, the worker polls for ever, time goes on. *)
FairSpec ==
  /\ Spec
  /\ \A w \in Workers : WF_vars(WorkerStep(w))
  /\ WF_vars(Tick /\ UNCHANGED <<worker, sends, crashes>>)

-----------------------------------------------------------------------------
(* The types of the variables: the tables' columns among them. *)
TypeOK ==
  /\ now \in 0..Horizon
  /\ contest \in {"active", "completed", "deleted"}
  /\ settings \in [enabled : BOOLEAN, lead : Leads, revision : Nat]
  /\ schedule \in [Targets -> {None, Gone} \cup Instants]
  /\ store \in Store
  /\ edits \in 0..MaxEdits
  /\ worker \in [Workers -> WorkerState]
  /\ sends \in [Ids -> [Numbers -> Int]]
  /\ crashes \in 0..MaxCrashes

(* A part that Telegram accepted, or may have accepted, is never sent again:
   whatever the lease, the settings, the schedule or a crash did meanwhile. *)
NoPartSentTwice == \A i \in Ids, n \in Numbers : sends[i][n] <= 1

Sent(i) == \E n \in Numbers : sends[i][n] > 0

(* Participants are reminded of an occurrence by at most one delivery,
   whether an automatic batch or a manual reminder that covers it. *)
OneReminderPerOccurrence ==
  \A i, j \in Ids : i # j /\ Sent(i) /\ Sent(j) => store.dels[i].items \cap store.dels[j].items = {}

(* An occurrence in a batch has a delivery that will still decide about it:
   none is stranded by a delivery that ended. *)
BatchedIsLive ==
  \A t \in Targets :
    store.occ[t].status = "batched" =>
      store.occ[t].delivery # 0 /\ Live(store.dels[store.occ[t].delivery])

(* A delivery that says it did not happen did not, and one that says it
   happened has no part that nobody asked Telegram for. *)
StatusTellsTruth ==
  \A i \in Ids :
    LET d == store.dels[i]
    IN  /\ d.status \in {"cancelled", "expired", "terminal_failed"} => ~Sent(i)
        /\ d.status \in {"sent", "partial"} => Has(d, {"sent"})
        /\ d.status = "sent" => \A n \in Numbers : d.parts[n] # "none" => sends[i][n] = 1

(* An automatic reminder begins only for a contest, settings and instants
   that are still what they were when its batch was made. *)
BeginsForThePresent ==
  [][\A i \in Ids :
       LET d == store.dels[i]
       IN  ~Sent(i) /\ Sent(i)' /\ d.source = "auto" =>
             /\ contest = "active"
             /\ settings.enabled /\ settings.revision = d.settings
             /\ \A item \in d.items : schedule[item[1]] = item[3] /\ now < item[3]]_vars

(* Every delivery ends, with or without a crash in the middle. *)
EveryDeliveryEnds ==
  \A i \in Ids : Live(store.dels[i]) ~> ~Live(store.dels[i])

Unfinished(t, n) ==
  store.occ[t].id = n /\ store.occ[t].status \in {"scheduled", "batched"}

(* No occurrence is forgotten: it is reminded of, replaced by the row of a
   new start, or closed at the latest when its target starts; also with the
   reminders switched off, and whatever became of its delivery. *)
EveryOccurrenceEnds ==
  \A t \in Targets, n \in 1..(MaxEdits + 1) :
    Unfinished(t, n) ~> ~Unfinished(t, n)

(* The worker implements AtMostOnceSending, as its tables show it. *)
Wire(i, n) ==
  LET status == store.dels[i].parts[n]
  IN  CASE status = "sending" -> "asked"
        [] status = "sent" -> "known"
        [] status = "unknown" -> "unknown"
        [] OTHER -> "unsent"

Abstract == INSTANCE AtMostOnceSending
              WITH Parcels <- Ids \X Numbers,
                   parcel <- [p \in Ids \X Numbers |-> Wire(p[1], p[2])]

SendsAtMostOnce == Abstract!Spec

(* "A successfully or ambiguously delivered manual reminder covers them": no
   automatic reminder follows for the same instant of a prediction. *)
ManualCoversDeadline ==
  \A i, j \in Ids :
    /\ store.dels[i].source = "manual" /\ Sent(i)
    /\ store.dels[j].source = "auto" /\ Sent(j)
    => ~\E a \in store.dels[i].items, b \in store.dels[j].items :
          a[1] \in Deadlines /\ a[1] = b[1] /\ a[3] = b[3]

=============================================================================
