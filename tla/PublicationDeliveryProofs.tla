---------------------- MODULE PublicationDeliveryProofs ----------------------
(***************************************************************************)
(* What holds of PublicationDelivery for every set of workers, matches,    *)
(* texts and contents and every value of its bounds: its worker is the one *)
(* of PublicationOutbox, only the holder of a claim records parts, no      *)
(* message is left behind in the chat, and what one process that has       *)
(* learned every outcome recorded, published or withdrew is what the chat  *)
(* shows.                                                                  *)
(***************************************************************************)
EXTENDS PublicationDelivery, PublicationOutboxProofs

-----------------------------------------------------------------------------
(* The inductive invariant *)

(* A part whose message says something. *)
Showing(p) == p.msg # 0 /\ p.status # "retired"

Call == [kind : Calls.send \cup Calls.edit \cup Calls.delete \cup {"none"}, msg : 0..MaxMessages,
         text : Texts \cup {Placeholder},
         reply : {"awaited", "ok", "temporary", "bad", "forbidden", "missing"}]

Task == [at : 1..(MaxParts + 1), desired : Contents \cup {<<>>},
         stored : [Numbers -> Part], call : Call]

RecordsOK ==
  /\ parts \in [Ids -> [Numbers -> Part]]
  /\ task \in [Workers -> Task]

WireOK ==
  /\ content \in [Ids -> Contents]
  /\ chat \in [MessageIds -> Texts \cup {Placeholder, "unsent", "gone", "removed"}]
  /\ late \subseteq Call
  /\ unknown \in 0..MaxUnknown

(* Rows summarise their parts, and an id without a row has none. *)
Mirrored ==
  \A i \in Ids : /\ rows[i].messages = Summary(parts[i])
                 /\ ~Exists(rows[i]) => parts[i] = NoParts

(* A row that a worker holds is as the worker read it, or was changed since. *)
AsRead(w) ==
  LET s == worker[w]
      r == rows[s.id]
  IN  s.pc # "idle" /\ OwnsClaim(w) =>
        /\ r.desired >= s.rev
        /\ r.desired = s.rev => r.action = s.action /\ Allowed(r)
        /\ r.entity \in {s.entity, "gone"}

(* It was changed for good. *)
Overtaken(w) ==
  OwnsClaim(w) => \/ rows[worker[w].id].desired > worker[w].rev
                  \/ rows[worker[w].id].entity # worker[w].entity

(* Calls that a coroutine makes only when it was overtaken *)
Undoings == {"undo", "restore", "blank", "retract", "retire"}

(* A call is about the part in hand: one to show, or one that still says
   something; calls that delete what was just sent are about no part. *)
CallOK(w, t) ==
  /\ t.at \in Numbers
  /\ t.call.kind \notin Calls.send \/ t.call.reply = "ok" => t.call.msg # 0
  /\ t.call.kind \in Calls.send \cup {"edit"} => t.at <= Len(t.desired)
  /\ t.call.kind \in {"delete", "neutralize"} => t.at > Len(t.desired)
  /\ t.call.kind \notin Calls.send \cup {"undo", "undoFailed"} =>
       t.stored[t.at].msg # 0 /\ (t.at <= Len(t.desired) \/ Showing(t.stored[t.at]))
  /\ t.call.kind \in Undoings => Overtaken(w)

(* The coroutine's locals t go with the recorded parts ps: those ahead are as
   they were read, those done are shown if they should be. *)
TaskFits(w, t, ps) ==
  /\ worker[w].action = "publish" <=> t.desired # <<>>
  /\ OwnsClaim(w) =>
       \A n \in Numbers : /\ n >= t.at => ps[n] = t.stored[n]
                          /\ n < t.at /\ n <= Len(t.desired) => Showing(ps[n])
  /\ t.call.kind # "none" => CallOK(w, t)

Tasked(w) ==
  IF worker[w].pc = "delivering" THEN TaskFits(w, task[w], PartsOf(w)) ELSE task[w] = NoTask

DeliveryInv ==
  /\ OrderInv
  /\ RecordsOK
  /\ WireOK
  /\ Mirrored
  /\ \A w \in Workers : AsRead(w) /\ Tasked(w)

-----------------------------------------------------------------------------
(* The data *)

LEMMA NumbersFact ==
  /\ MaxParts \in Nat /\ MaxMessages \in Nat /\ MaxUnknown \in Nat
  /\ Numbers \subseteq Nat \ {0} /\ MessageIds \subseteq Nat \ {0}
  /\ \A n \in Numbers : n <= MaxParts /\ n + 1 \in 1..(MaxParts + 1)
BY DeliveryBoundsAssumption DEF Numbers, MessageIds

LEMMA PartTypes ==
  /\ NoPart \in Part /\ NoParts \in [Numbers -> Part]
  /\ \A msg \in 0..MaxMessages, text \in Texts \cup {Placeholder} :
       ActivePart(msg, text) \in Part /\ RetiredPart(msg) \in Part
  /\ \A p \in Part :
       /\ [p EXCEPT !.hash = "stale-edit"] \in Part
       /\ [p EXCEPT !.hash = "terminal-failed", !.status = "terminal_failed"] \in Part
<1>1. \A msg \in 0..MaxMessages, text \in Texts \cup {Placeholder} : ActivePart(msg, text) \in Part
  BY DEF ActivePart, Part
<1>2. ASSUME NEW msg \in 0..MaxMessages PROVE RetiredPart(msg) \in Part
  <2>1. ActivePart(msg, Placeholder) \in Part
    BY <1>1
  <2> QED
    BY <2>1 DEF RetiredPart, Part
<1>3. 0 \in 0..MaxMessages
  BY NumbersFact
<1>4. NoPart \in Part /\ NoParts \in [Numbers -> Part]
  BY <1>3 DEF NoPart, NoParts, Part
<1>5. ASSUME NEW p \in Part
      PROVE  /\ [p EXCEPT !.hash = "stale-edit"] \in Part
             /\ [p EXCEPT !.hash = "terminal-failed", !.status = "terminal_failed"] \in Part
  BY DEF Part
<1> QED
  BY <1>1, <1>2, <1>4, <1>5

LEMMA RetiredPartType == \A msg \in 0..MaxMessages : RetiredPart(msg) \in Part
BY PartTypes

LEMMA ContentsFact ==
  \A c \in Contents \cup {<<>>} :
    /\ Len(c) \in 0..MaxParts
    /\ c # <<>> <=> c \in Contents
    /\ c # <<>> <=> Len(c) > 0
    /\ \A n \in Numbers : n <= Len(c) => c[n] \in Texts
BY ContentsAssumption, NumbersFact

LEMMA NoTaskOK == NoTask \in Task /\ NoCall \in Call /\ NoTask.call.kind = "none"
<1>1. NoCall \in Call
  BY NumbersFact DEF NoCall, Call
<1>2. 1 \in 1..(MaxParts + 1)
  BY NumbersFact
<1> QED
  BY <1>1, <1>2, PartTypes DEF NoTask, Task, NoCall

-----------------------------------------------------------------------------
(* Summaries *)

LEMMA SummaryFact ==
  ASSUME NEW ps
  PROVE  /\ Summary(ps) \in {"none", "retired", "shown"}
         /\ Summary(ps) = "shown" <=> \E n \in Numbers : Showing(ps[n])
         /\ Summary(ps) = "none" <=> \A n \in Numbers : ps[n].msg = 0
BY DEF Summary, Showing

LEMMA SummaryNoParts == Summary(NoParts) = "none"
BY SummaryFact DEF NoParts, NoPart


(* What counts of a part is its message and whether that says anything. *)
LEMMA SummarySame ==
  ASSUME NEW ps, NEW qs,
         \A n \in Numbers : qs[n].msg = ps[n].msg /\ qs[n].status = ps[n].status
  PROVE  Summary(qs) = Summary(ps)
BY DEF Summary

(* One part of a publication that says something is changed, *)
LEMMA SummaryDelivered ==
  ASSUME NEW ps \in [Numbers -> Part], NEW n \in Numbers, NEW p, NEW action \in Actions,
         action = "publish" => Showing(p) \/ \E m \in Numbers : m # n /\ Showing(ps[m]),
         action = "withdraw" => Showing(ps[n])
  PROVE  Summary([ps EXCEPT ![n] = p]) \in Delivered(action, Summary(ps))
<1> DEFINE qs == [ps EXCEPT ![n] = p]
<1>1. qs[n] = p /\ \A m \in Numbers : m # n => qs[m] = ps[m]
  OBVIOUS
<1> HIDE DEF qs
<1>2. CASE action = "publish"
  <2>1. \E m \in Numbers : Showing(qs[m])
    BY <1>1, <1>2
  <2>2. Summary(qs) = "shown"
    BY <2>1, SummaryFact
  <2> QED
    BY <1>2, <2>2 DEF Delivered, qs
<1>3. CASE action = "withdraw"
  <2>1. Summary(ps) = "shown"
    BY <1>3, SummaryFact
  <2> QED
    BY <1>3, <2>1, SummaryFact DEF Delivered, qs
<1> QED
  BY <1>2, <1>3 DEF Actions

(* or the change is undone. *)
LEMMA SummaryUndone ==
  ASSUME NEW ps \in [Numbers -> Part], NEW n \in Numbers, NEW p, NEW action \in Actions,
         ps[n].msg # 0, action = "publish" \/ Showing(ps[n])
  PROVE  Summary([ps EXCEPT ![n] = p]) \in Undone(action, Summary(ps))
<1> DEFINE qs == [ps EXCEPT ![n] = p]
<1>1. qs[n] = p /\ \A m \in Numbers : m # n => qs[m] = ps[m]
  OBVIOUS
<1> HIDE DEF qs
<1>2. Summary(ps) \in {"retired", "shown"}
  BY SummaryFact
<1>3. CASE Summary(ps) = "shown"
  BY <1>3, SummaryFact DEF Undone, Delivered, qs
<1>4. CASE Summary(ps) = "retired"
  <2>1. action = "publish"
    BY <1>4, SummaryFact
  <2> QED
    BY <1>4, <2>1, SummaryFact DEF Undone, Delivered, qs
<1> QED
  BY <1>2, <1>3, <1>4


-----------------------------------------------------------------------------
(* What the coroutine of a delivery does at each stretch *)

Table == <<enabled, contest, matches, plan, crashes>>

(* It asks, or hears from Telegram; *)
Asks(w) ==
  /\ \E t \in Task : TaskFits(w, t, PartsOf(w)) /\ task' = [task EXCEPT ![w] = t]
  /\ UNCHANGED <<rows, worker, parts>>

(* it records a part, or renews its claim; *)
Records(w) ==
  LET i == worker[w].id
  IN  /\ ClaimState(w) = "current"
      /\ \E t \in Task, ps \in [Numbers -> Part], lease \in {rows[i].lease, LeaseTicks} :
           /\ Summary(ps) \in {rows[i].messages} \cup Delivered(worker[w].action, rows[i].messages)
           /\ TaskFits(w, t, ps)
           /\ ps # PartsOf(w) => t # task[w]
           /\ rows' = [rows EXCEPT ![i].messages = Summary(ps), ![i].lease = lease]
           /\ parts' = [parts EXCEPT ![i] = ps]
           /\ task' = [task EXCEPT ![w] = t]
      /\ UNCHANGED worker

(* it is done; *)
Completed(w) ==
  \E ps \in [Numbers -> Part] :
    /\ Leave(w, Succeeded(w), ps)
    /\ ps # PartsOf(w) => Awaiting(w)
    /\ \/ /\ ClaimState(w) = "current"
          /\ Summary(ps) \in Delivered(worker[w].action, ClaimedRow(w).messages)
       \/ /\ ClaimState(w) = "stale"
          /\ Summary(ps) \in Undone(worker[w].action, ClaimedRow(w).messages)

(* it has failed; *)
GaveUp(w) ==
  /\ OwnsClaim(w)
  /\ \E permanent \in BOOLEAN, wait \in 0..MaxBackoff :
       /\ Leave(w, Failed(w, permanent, wait), PartsOf(w))
       /\ ClaimState(w) = "current" \/ ~permanent

(* or its claim was taken. *)
Lost(w) == ~OwnsClaim(w) /\ LeaveLost(w)

Stretch(w) ==
  /\ worker[w].pc = "delivering"
  /\ Asks(w) \/ Records(w) \/ Completed(w) \/ GaveUp(w) \/ Lost(w)

(* What a coroutine may rely on *)
LEMMA InDelivery ==
  ASSUME DeliveryInv, NEW w \in Workers
  PROVE  /\ worker[w] \in WorkerState
         /\ worker[w].id \in Ids /\ worker[w].rev \in Nat /\ worker[w].action \in Actions
         /\ ClaimedRow(w) \in Row
         /\ PartsOf(w) \in [Numbers -> Part]
         /\ task[w] \in Task
         /\ ClaimedRow(w).messages = Summary(PartsOf(w))
         /\ worker[w].pc = "delivering" => TaskFits(w, task[w], PartsOf(w))
<1>1. worker[w] \in WorkerState /\ rows \in [Ids -> Row]
  BY DEF DeliveryInv, OrderInv, IInv, TypeOK
<1>2. worker[w].id \in Ids /\ worker[w].rev \in Nat /\ worker[w].action \in Actions
  BY <1>1 DEF WorkerState
<1> QED
  BY <1>1, <1>2 DEF DeliveryInv, RecordsOK, Mirrored, Tasked, PartsOf, ClaimedRow

LEMMA ClaimStateFact ==
  ASSUME NEW w
  PROVE  /\ ClaimState(w) \in {"lost", "current", "stale"}
         /\ ClaimState(w) = "lost" <=> ~OwnsClaim(w)
BY DEF ClaimState

(* Columns that are written but stay as they are *)
LEMMA SameMessages ==
  ASSUME NEW r \in Row PROVE [r EXCEPT !.messages = r.messages] = r
BY DEF Row

(* Finishing leaves the messages alone. *)
LEMMA FinishKeeps ==
  ASSUME DeliveryInv, NEW w \in Workers
  PROVE  /\ Finished(ClaimedRow(w), Succeeded(w), worker[w].rev)
         /\ \A permanent \in BOOLEAN, wait \in 0..MaxBackoff :
              Finished(ClaimedRow(w), Failed(w, permanent, wait), worker[w].rev)
<1>1. ClaimedRow(w) \in Row /\ worker[w].rev \in Nat /\ 0..MaxBackoff \subseteq Nat
  BY InDelivery
<1>2. Outcome(w) \in Statuses
  BY Members DEF Outcome
<1> QED
  BY <1>1, <1>2, FinishSuccessRow, FinishFailureRow DEF Succeeded, Failed, ClaimedRow


(* Each stretch is a step of the queue's worker, or none. *)
LEMMA StretchNext ==
  ASSUME DeliveryInv, NEW w \in Workers, Stretch(w), UNCHANGED Table
  PROVE  [Next]_vars
<1> DEFINE i == worker[w].id
           r == ClaimedRow(w)
<1>1. /\ worker[w].pc = "delivering" /\ r \in Row /\ r.messages = Summary(PartsOf(w))
      /\ i \in Ids /\ rows \in [Ids -> Row] /\ r = rows[i]
  BY InDelivery DEF Stretch, ClaimedRow, DeliveryInv, OrderInv, IInv, TypeOK
<1>2. CASE Asks(w)
  BY <1>2 DEF Asks, Table, vars
<1>3. CASE Records(w)
  <2>1. PICK ps \in [Numbers -> Part], lease \in {rows[i].lease, LeaseTicks} :
          /\ Summary(ps) \in {rows[i].messages} \cup Delivered(worker[w].action, rows[i].messages)
          /\ rows' = [rows EXCEPT ![i].messages = Summary(ps), ![i].lease = lease]
    BY <1>3 DEF Records
  <2>2. ClaimState(w) = "current" /\ worker' = worker
    BY <1>3 DEF Records
  <2> HIDE DEF r
  <2>3. DeliverPart(w)
    BY <1>1, <2>1, <2>2 DEF DeliverPart, Table
  <2> QED
    BY <2>3 DEF Next, WorkerTrouble
<1>4. CASE Completed(w)
  <2>1. PICK ps :
          /\ Settle(w, [Succeeded(w) EXCEPT !.messages = Summary(ps)])
          /\ \/ /\ ClaimState(w) = "current"
                /\ Summary(ps) \in Delivered(worker[w].action, rows[i].messages)
             \/ /\ ClaimState(w) = "stale"
                /\ Summary(ps) \in Undone(worker[w].action, rows[i].messages)
    BY <1>4 DEF Completed, Leave, ClaimedRow
  <2>2. DeliverySucceeds(w) \/ DeliveryStale(w)
    BY <1>1, <2>1 DEF DeliverySucceeds, DeliveryStale, Table
  <2> QED
    BY <2>2 DEF Next, WorkerStep
<1>5. CASE GaveUp(w)
  <2>1. PICK permanent \in BOOLEAN, wait \in 0..MaxBackoff :
          /\ Settle(w, [Failed(w, permanent, wait) EXCEPT !.messages = Summary(PartsOf(w))])
          /\ ClaimState(w) = "current" \/ ~permanent
    BY <1>5 DEF GaveUp, Leave
  <2>2. Finished(r, Failed(w, permanent, wait), worker[w].rev)
    BY FinishKeeps
  <2>3. [Failed(w, permanent, wait) EXCEPT !.messages = Summary(PartsOf(w))]
          = Failed(w, permanent, wait)
    <3> DEFINE q == Failed(w, permanent, wait)
    <3>1. q \in Row /\ q.messages = Summary(PartsOf(w))
      BY <1>1, <2>2 DEF Finished
    <3> HIDE DEF q
    <3>2. [q EXCEPT !.messages = q.messages] = q
      BY <3>1, SameMessages
    <3> QED
      BY <3>1, <3>2 DEF q
  <2>4. Settle(w, Failed(w, permanent, wait)) /\ OwnsClaim(w)
    BY <1>5, <2>1, <2>3 DEF GaveUp
  <2>5. CASE ClaimState(w) = "current"
    <3>1. DeliveryFails(w)
      BY <1>1, <2>4, <2>5 DEF DeliveryFails, Table
    <3> QED
      BY <3>1 DEF Next, WorkerStep
  <2>6. CASE permanent = FALSE
    <3>1. SavingFails(w)
      BY <1>1, <2>4, <2>6 DEF SavingFails, Table
    <3> QED
      BY <3>1 DEF Next, WorkerTrouble
  <2> QED
    BY <2>1, <2>5, <2>6
<1>6. CASE Lost(w)
  <2>1. ClaimLost(w)
    BY <1>1, <1>6 DEF Lost, LeaveLost, ClaimLost, Table
  <2> QED
    BY <2>1 DEF Next, WorkerStep
<1> QED
  BY <1>2, <1>3, <1>4, <1>5, <1>6 DEF Stretch


-----------------------------------------------------------------------------
(* A coroutine and its row while others move *)

LEMMA StandsBy ==
  ASSUME DeliveryInv, OrderInv', NEW v \in Workers,
         worker'[v] = worker[v], task'[v] = task[v],
         OwnsClaim(v)' =>
           LET i == worker[v].id
           IN  /\ OwnsClaim(v) /\ Carried(rows[i], rows'[i]) /\ parts'[i] = parts[i]
               /\ rows'[i].desired = rows[i].desired /\ Allowed(rows[i]) => Allowed(rows[i])'
  PROVE  AsRead(v)' /\ Tasked(v)'
<1> DEFINE i == worker[v].id
           r == rows[i]
           q == rows'[i]
<1>1. /\ i \in Ids /\ r.desired \in Nat /\ worker[v].rev \in Nat /\ AsRead(v) /\ Tasked(v)
  BY InDelivery DEF DeliveryInv, ClaimedRow, Row
<1>2. q.desired \in Nat
  BY <1>1 DEF OrderInv, IInv, TypeOK, Row
<1>3. ASSUME OwnsClaim(v)'
      PROVE  /\ OwnsClaim(v) /\ Carried(r, q) /\ PartsOf(v)' = PartsOf(v)
             /\ q.desired = r.desired /\ Allowed(r) => Allowed(r)'
  BY <1>3 DEF PartsOf
<1>4. AsRead(v)'
  <2> SUFFICES ASSUME worker[v].pc # "idle", OwnsClaim(v)'
               PROVE  /\ q.desired >= worker[v].rev
                      /\ q.desired = worker[v].rev => q.action = worker[v].action /\ Allowed(r)'
                      /\ q.entity \in {worker[v].entity, "gone"}
    BY DEF AsRead
  <2>1. /\ r.desired >= worker[v].rev
        /\ r.desired = worker[v].rev => r.action = worker[v].action /\ Allowed(r)
        /\ r.entity \in {worker[v].entity, "gone"}
    BY <1>1, <1>3 DEF AsRead
  <2>2. /\ q.desired >= r.desired /\ q.entity \in {r.entity, "gone"}
        /\ q.desired = r.desired => q.action = r.action
    BY <1>3 DEF Carried
  <2> HIDE DEF q
  <2> QED
    BY <1>1, <1>2, <1>3, <2>1, <2>2
<1>5. ASSUME Overtaken(v), worker[v].pc # "idle" PROVE Overtaken(v)'
  <2> SUFFICES ASSUME OwnsClaim(v)'
               PROVE  q.desired > worker[v].rev \/ q.entity # worker[v].entity
    BY DEF Overtaken
  <2>1. OwnsClaim(v) /\ Carried(r, q)
    BY <1>3
  <2>2. r.desired > worker[v].rev \/ (r.entity # worker[v].entity /\ r.entity = "gone")
    BY <1>1, <1>5, <2>1 DEF Overtaken, AsRead
  <2>3. q.desired >= r.desired /\ q.entity \in {r.entity, "gone"}
    BY <2>1 DEF Carried
  <2> HIDE DEF q
  <2> QED
    BY <1>1, <1>2, <2>2, <2>3
<1>6. Tasked(v)'
  <2>1. CASE worker[v].pc # "delivering"
    BY <1>1, <2>1 DEF Tasked
  <2>2. CASE worker[v].pc = "delivering"
    <3>1. TaskFits(v, task[v], PartsOf(v))
      BY <1>1, <2>2 DEF Tasked
    <3>2. CallOK(v, task[v]) => CallOK(v, task[v])'
      BY <1>5, <2>2 DEF CallOK
    <3>3. TaskFits(v, task[v], PartsOf(v))'
      BY <1>3, <3>1, <3>2 DEF TaskFits
    <3> QED
      BY <2>2, <3>3 DEF Tasked
  <2> QED
    BY <2>1, <2>2
<1> QED
  BY <1>4, <1>6


(* What others see of a stretch: one row, its parts and one coroutine change, *)
LEMMA StretchFrame ==
  ASSUME DeliveryInv, NEW w \in Workers, Stretch(w)
  PROVE  LET i == worker[w].id
         IN  \E q \in Row, ps \in [Numbers -> Part], t \in Task, s \in {worker[w], Idle} :
               /\ rows' = [rows EXCEPT ![i] = q]
               /\ parts' = [parts EXCEPT ![i] = ps]
               /\ task' = [task EXCEPT ![w] = t]
               /\ worker' = [worker EXCEPT ![w] = s]
               /\ q # rows[i] \/ ps # parts[i] => OwnsClaim(w)
               /\ q.type = rows[i].type /\ q.claim \in {rows[i].claim, "none"}
               /\ q.messages = Summary(ps)
<1> DEFINE i == worker[w].id
           r == rows[i]
<1>1. /\ i \in Ids /\ r \in Row /\ r = ClaimedRow(w) /\ r.messages = Summary(parts[i])
      /\ parts[i] = PartsOf(w) /\ parts[i] \in [Numbers -> Part] /\ task[w] \in Task
  BY InDelivery DEF ClaimedRow, PartsOf
<1>2. /\ rows = [rows EXCEPT ![i] = r] /\ parts = [parts EXCEPT ![i] = parts[i]]
      /\ worker = [worker EXCEPT ![w] = worker[w]]
  BY DEF DeliveryInv, OrderInv, IInv, TypeOK, RecordsOK
<1>3. CASE Asks(w)
  BY <1>1, <1>2, <1>3 DEF Asks
<1>4. CASE Records(w)
  <2>1. PICK t \in Task, ps \in [Numbers -> Part], lease \in {rows[i].lease, LeaseTicks} :
          /\ rows' = [rows EXCEPT ![i].messages = Summary(ps), ![i].lease = lease]
          /\ parts' = [parts EXCEPT ![i] = ps]
          /\ task' = [task EXCEPT ![w] = t]
    BY <1>4 DEF Records
  <2> DEFINE q == [r EXCEPT !.messages = Summary(ps), !.lease = lease]
  <2>2. lease \in Timer /\ Summary(ps) \in Messages
    BY <1>1, SummaryFact, LeaseAssumption, Members DEF Row, Messages
  <2>3. q \in Row /\ q.type = r.type /\ q.claim = r.claim /\ q.messages = Summary(ps)
    BY <1>1, <2>2 DEF Row
  <2>4. rows' = [rows EXCEPT ![i] = q]
    BY <2>1
  <2>5. OwnsClaim(w) /\ worker' = worker
    BY <1>4, ClaimStateFact DEF Records
  <2> HIDE DEF q
  <2> QED
    BY <1>1, <1>2, <2>1, <2>3, <2>4, <2>5
<1>5. ASSUME NEW f, NEW ps \in [Numbers -> Part], Finished(r, f, worker[w].rev), Leave(w, f, ps),
             OwnsClaim(w)
      PROVE  \E q \in Row, t \in Task, s \in {worker[w], Idle} :
               /\ rows' = [rows EXCEPT ![i] = q]
               /\ parts' = [parts EXCEPT ![i] = ps]
               /\ task' = [task EXCEPT ![w] = t]
               /\ worker' = [worker EXCEPT ![w] = s]
               /\ q.type = rows[i].type /\ q.claim \in {rows[i].claim, "none"}
               /\ q.messages = Summary(ps)
  <2> DEFINE q == [f EXCEPT !.messages = Summary(ps)]
  <2>1. f \in Row /\ f.type = r.type /\ f.claim = "none" /\ Summary(ps) \in Messages
    BY <1>5, SummaryFact DEF Finished, Messages
  <2>2. q \in Row /\ q.type = r.type /\ q.claim = "none" /\ q.messages = Summary(ps)
    BY <2>1 DEF Row
  <2>3. /\ rows' = [rows EXCEPT ![i] = q] /\ worker' = [worker EXCEPT ![w] = Idle]
        /\ parts' = [parts EXCEPT ![i] = ps] /\ task' = [task EXCEPT ![w] = NoTask]
    BY <1>5 DEF Leave, Settle
  <2> HIDE DEF q
  <2> QED
    BY <2>2, <2>3, NoTaskOK
<1>6. CASE Completed(w)
  <2>1. PICK ps \in [Numbers -> Part] :
          Leave(w, Succeeded(w), ps) /\ ClaimState(w) \in {"current", "stale"}
    BY <1>6 DEF Completed
  <2>2. Finished(r, Succeeded(w), worker[w].rev) /\ OwnsClaim(w)
    BY <1>1, <2>1, FinishKeeps, ClaimStateFact
  <2> QED
    BY <1>1, <1>5, <2>1, <2>2
<1>7. CASE GaveUp(w)
  <2>1. PICK permanent \in BOOLEAN, wait \in 0..MaxBackoff :
          Leave(w, Failed(w, permanent, wait), PartsOf(w)) /\ OwnsClaim(w)
    BY <1>7 DEF GaveUp
  <2>2. Finished(r, Failed(w, permanent, wait), worker[w].rev)
    BY <1>1, <2>1, FinishKeeps
  <2> QED
    BY <1>1, <1>5, <2>1, <2>2
<1>8. CASE Lost(w)
  BY <1>1, <1>2, <1>8, NoTaskOK DEF Lost, LeaveLost
<1> QED
  BY <1>3, <1>4, <1>6, <1>7, <1>8 DEF Stretch


(* and the coroutine goes on with what it knows, or is over. *)
LEMMA StretchOwn ==
  ASSUME DeliveryInv, NEW w \in Workers, Stretch(w), UNCHANGED Table
  PROVE  AsRead(w)' /\ Tasked(w)'
<1> DEFINE i == worker[w].id
           r == rows[i]
<1>1. /\ i \in Ids /\ r \in Row /\ parts[i] = PartsOf(w) /\ worker[w].pc = "delivering"
      /\ AsRead(w) /\ rows \in [Ids -> Row] /\ task \in [Workers -> Task]
      /\ worker \in [Workers -> WorkerState] /\ parts \in [Ids -> [Numbers -> Part]]
  BY InDelivery DEF ClaimedRow, PartsOf, Stretch, DeliveryInv, RecordsOK, OrderInv, IInv, TypeOK
<1>2. CASE Asks(w)
  <2>1. PICK t \in Task : TaskFits(w, t, PartsOf(w)) /\ task' = [task EXCEPT ![w] = t]
    BY <1>2 DEF Asks
  <2>2. /\ task'[w] = t /\ rows' = rows /\ worker' = worker /\ parts' = parts
        /\ enabled' = enabled
    BY <1>1, <1>2, <2>1 DEF Asks, Table
  <2>3. AsRead(w)' /\ TaskFits(w, t, PartsOf(w))'
    BY <1>1, <2>1, <2>2
       DEF AsRead, TaskFits, CallOK, Overtaken, OwnsClaim, Allowed, PartsOf
  <2> QED
    BY <1>1, <2>2, <2>3 DEF Tasked
<1>3. CASE Records(w)
  <2>1. PICK t \in Task, ps \in [Numbers -> Part], lease \in {rows[i].lease, LeaseTicks} :
          /\ TaskFits(w, t, ps)
          /\ rows' = [rows EXCEPT ![i].messages = Summary(ps), ![i].lease = lease]
          /\ parts' = [parts EXCEPT ![i] = ps]
          /\ task' = [task EXCEPT ![w] = t]
    BY <1>3 DEF Records
  <2>2. /\ rows'[i] = [r EXCEPT !.messages = Summary(ps), !.lease = lease]
        /\ parts'[i] = ps /\ task'[w] = t /\ worker' = worker /\ enabled' = enabled
    BY <1>1, <1>3, <2>1 DEF Records, Table
  <2>3. /\ rows'[i].type = r.type /\ rows'[i].claim = r.claim /\ rows'[i].action = r.action
        /\ rows'[i].desired = r.desired /\ rows'[i].entity = r.entity
    BY <1>1, <2>2 DEF Row
  <2>4. OwnsClaim(w)' = OwnsClaim(w) /\ Overtaken(w)' = Overtaken(w)
    BY <2>2, <2>3 DEF OwnsClaim, Overtaken, Exists
  <2>5. AsRead(w)'
    BY <1>1, <2>2, <2>3, <2>4 DEF AsRead, Allowed
  <2>6. TaskFits(w, t, ps)'
    BY <2>1, <2>2, <2>4 DEF TaskFits, CallOK
  <2>7. PartsOf(w)' = ps
    BY <2>2 DEF PartsOf
  <2> QED
    BY <1>1, <2>2, <2>5, <2>6, <2>7 DEF Tasked
<1>4. CASE Completed(w) \/ GaveUp(w) \/ Lost(w)
  <2>1. worker' = [worker EXCEPT ![w] = Idle] /\ task' = [task EXCEPT ![w] = NoTask]
    BY <1>4 DEF Completed, GaveUp, Lost, Leave, LeaveLost, Settle
  <2>2. worker'[w] = Idle /\ task'[w] = NoTask
    BY <1>1, <2>1
  <2> QED
    BY <2>2 DEF AsRead, Tasked, Idle
<1> QED
  BY <1>2, <1>3, <1>4 DEF Stretch

LEMMA StretchInv ==
  ASSUME DeliveryInv, NEW w \in Workers, Stretch(w), UNCHANGED Table, WireOK'
  PROVE  DeliveryInv'
<1> DEFINE i == worker[w].id
<1>1. [Next]_vars /\ OrderInv'
  BY StretchNext, NextOrder DEF DeliveryInv
<1>2. PICK q \in Row, ps \in [Numbers -> Part], t \in Task, s \in {worker[w], Idle} :
        /\ rows' = [rows EXCEPT ![i] = q]
        /\ parts' = [parts EXCEPT ![i] = ps]
        /\ task' = [task EXCEPT ![w] = t]
        /\ worker' = [worker EXCEPT ![w] = s]
        /\ q # rows[i] \/ ps # parts[i] => OwnsClaim(w)
        /\ q.type = rows[i].type /\ q.claim \in {rows[i].claim, "none"}
        /\ q.messages = Summary(ps)
  BY StretchFrame
<1>3. /\ i \in Ids /\ rows \in [Ids -> Row] /\ task \in [Workers -> Task]
      /\ worker \in [Workers -> WorkerState] /\ parts \in [Ids -> [Numbers -> Part]]
  BY InDelivery DEF DeliveryInv, RecordsOK, OrderInv, IInv, TypeOK
<1>4. /\ \A j \in Ids : j # i => rows'[j] = rows[j] /\ parts'[j] = parts[j]
      /\ \A v \in Workers : v # w => worker'[v] = worker[v] /\ task'[v] = task[v]
      /\ rows'[i] = q /\ parts'[i] = ps
  BY <1>2, <1>3
<1>5. RecordsOK'
  BY <1>2, <1>3 DEF RecordsOK
<1>6. Mirrored'
  <2>1. ASSUME ~Exists(q) PROVE ps = NoParts
    <3>1. ~Exists(rows[i])
      BY <1>2, <2>1 DEF Exists
    <3>2. ~OwnsClaim(w) /\ parts[i] = NoParts
      BY <1>3, <3>1 DEF OwnsClaim, DeliveryInv, Mirrored
    <3> QED
      BY <1>2, <3>2
  <2> QED
    BY <1>2, <1>4, <2>1 DEF DeliveryInv, Mirrored
<1>7. ASSUME NEW v \in Workers, v # w PROVE AsRead(v)' /\ Tasked(v)'
  <2> DEFINE j == worker[v].id
  <2>1. /\ worker'[v] = worker[v] /\ task'[v] = task[v] /\ j \in Ids /\ rows[j] \in Row
        /\ enabled' = enabled
    BY <1>3, <1>4, <1>7, InDelivery DEF Table
  <2>2. CASE OwnsClaim(w) /\ j = i
    <3>1. rows[i].claim = w /\ q.claim # v
      BY <1>2, <1>7, <2>2, WorkersAssumption DEF OwnsClaim
    <3>2. ~OwnsClaim(v)'
      BY <1>4, <2>1, <2>2, <3>1 DEF OwnsClaim
    <3> QED
      BY <1>1, <2>1, <3>2, StandsBy
  <2>3. CASE ~(OwnsClaim(w) /\ j = i)
    <3>1. rows'[j] = rows[j] /\ parts'[j] = parts[j]
      BY <1>2, <1>4, <2>1, <2>3
    <3>2. OwnsClaim(v)' = OwnsClaim(v) /\ Carried(rows[j], rows'[j]) /\ Allowed(rows[j])' = Allowed(rows[j])
      BY <2>1, <3>1, CarriedSame DEF OwnsClaim, Allowed
    <3> QED
      BY <1>1, <2>1, <3>1, <3>2, StandsBy
  <2> QED
    BY <2>2, <2>3
<1> QED
  BY <1>1, <1>5, <1>6, <1>7, StretchOwn DEF DeliveryInv


-----------------------------------------------------------------------------
(* How a stretch ends *)

LEMMA WireSame ==
  ASSUME DeliveryInv, UNCHANGED <<content, chat, late, unknown>> PROVE WireOK'
BY DEF DeliveryInv, WireOK

(* A claim that is held and not current was overtaken, and stays so. *)
LEMMA OvertakenFact ==
  ASSUME DeliveryInv, NEW w \in Workers, worker[w].pc # "idle"
  PROVE  Overtaken(w) <=> ClaimState(w) # "current"
<1>1. /\ AsRead(w) /\ rows[worker[w].id].desired \in Nat /\ worker[w].rev \in Nat
  BY InDelivery DEF DeliveryInv, ClaimedRow, Row
<1> QED
  BY <1>1 DEF AsRead, Overtaken, ClaimState

(* What is known while a call is awaited *)
LEMMA InCall ==
  ASSUME DeliveryInv, NEW w \in Workers, worker[w].pc = "delivering", Awaiting(w)
  PROVE  LET t == task[w]
             n == t.at
         IN  /\ CallOK(w, t) /\ n \in Numbers /\ t.call \in Call
             /\ OwnsClaim(w) => PartsOf(w)[n] = t.stored[n]
             /\ n <= Len(t.desired) => worker[w].action = "publish"
             /\ worker[w].action = "publish" /\ n > Len(t.desired) /\ OwnsClaim(w) =>
                  1 \in Numbers /\ 1 # n /\ Showing(PartsOf(w)[1])
<1> DEFINE t == task[w]
           n == t.at
<1>1. t \in Task /\ TaskFits(w, t, PartsOf(w)) /\ t.call.kind # "none"
  BY InDelivery DEF Awaiting
<1>2. CallOK(w, t) /\ n \in Numbers /\ n \in Nat \ {0} /\ t.call \in Call
  BY <1>1, NumbersFact DEF TaskFits, CallOK, Task
<1>3. /\ Len(t.desired) \in 0..MaxParts
      /\ worker[w].action = "publish" <=> Len(t.desired) > 0
  BY <1>1, ContentsFact DEF TaskFits, Task
<1>4. ASSUME OwnsClaim(w) PROVE PartsOf(w)[n] = t.stored[n]
  BY <1>1, <1>2, <1>4 DEF TaskFits
<1>5. ASSUME worker[w].action = "publish", n > Len(t.desired), OwnsClaim(w)
      PROVE  1 \in Numbers /\ 1 # n /\ Showing(PartsOf(w)[1])
  <2>1. 1 \in Numbers /\ 1 < n /\ 1 <= Len(t.desired)
    BY <1>2, <1>3, <1>5, NumbersFact DEF Numbers
  <2> QED
    BY <1>1, <1>5, <2>1 DEF TaskFits
<1> QED
  BY <1>2, <1>3, <1>4, <1>5

LEMMA AskStretch ==
  ASSUME DeliveryInv, NEW w \in Workers, worker[w].pc = "delivering",
         NEW c \in Call, task' = [task EXCEPT ![w].call = c], UNCHANGED <<rows, worker, parts>>,
         c.kind = "none" \/ CallOK(w, [task[w] EXCEPT !.call = c])
  PROVE  Stretch(w)
<1> DEFINE t == [task[w] EXCEPT !.call = c]
<1>1. task[w] \in Task /\ TaskFits(w, task[w], PartsOf(w))
  BY InDelivery
<1>2. /\ t \in Task /\ t.desired = task[w].desired /\ t.at = task[w].at
      /\ t.stored = task[w].stored /\ t.call = c
  BY <1>1 DEF Task
<1>3. TaskFits(w, t, PartsOf(w))
  <2> HIDE DEF t
  <2> QED
    BY <1>1, <1>2 DEF TaskFits, t
<1>4. task' = [task EXCEPT ![w] = t]
  OBVIOUS
<1> HIDE DEF t
<1> QED
  BY <1>2, <1>3, <1>4 DEF Stretch, Asks

LEMMA OvertakenStretch ==
  ASSUME DeliveryInv, NEW w \in Workers, worker[w].pc = "delivering",
         NEW ps \in [Numbers -> Part], LeaveOvertaken(w, ps),
         OwnsClaim(w) => \/ ps = PartsOf(w)
                         \/ Awaiting(w) /\ Summary(ps) \in Undone(worker[w].action, Summary(PartsOf(w))),
         ClaimState(w) = "current" => Summary(ps) \in Delivered(worker[w].action, Summary(PartsOf(w)))
  PROVE  Stretch(w)
<1>1. ClaimedRow(w).messages = Summary(PartsOf(w))
  BY InDelivery
<1>2. CASE ~OwnsClaim(w)
  BY <1>2 DEF LeaveOvertaken, Lost, Stretch
<1>3. CASE OwnsClaim(w)
  <2>1. Leave(w, Succeeded(w), ps) /\ ClaimState(w) \in {"current", "stale"}
    BY <1>3, ClaimStateFact DEF LeaveOvertaken
  <2>2. Summary(ps) \in Undone(worker[w].action, Summary(PartsOf(w)))
        /\ (ps # PartsOf(w) => Awaiting(w))
    BY <1>3 DEF Undone
  <2>3. Completed(w)
    BY <1>1, <2>1, <2>2 DEF Completed
  <2> QED
    BY <2>3 DEF Stretch
<1> QED
  BY <1>2, <1>3

LEMMA FailedStretch ==
  ASSUME DeliveryInv, NEW w \in Workers, worker[w].pc = "delivering",
         NEW permanent \in BOOLEAN, LeaveFailed(w, permanent),
         OwnsClaim(w), ClaimState(w) = "current" \/ ~permanent
  PROVE  Stretch(w)
BY DEF LeaveFailed, GaveUp, Stretch


(* The part in hand becomes p. *)
LEMMA WithPart ==
  ASSUME DeliveryInv, NEW w \in Workers, worker[w].pc = "delivering", Awaiting(w), NEW p \in Part
  PROVE  /\ With(w, p) \in [Numbers -> Part]
         /\ With(w, p) = [PartsOf(w) EXCEPT ![task[w].at] = p]
         /\ With(w, p)[task[w].at] = p
         /\ \A n \in Numbers : n # task[w].at => With(w, p)[n] = PartsOf(w)[n]
BY InDelivery, InCall DEF With

(* Only a call that was to undo nothing is undone this way. *)
LEMMA WithUndone ==
  ASSUME DeliveryInv, NEW w \in Workers, worker[w].pc = "delivering", Awaiting(w), OwnsClaim(w),
         task[w].call.kind \notin Calls.send \cup {"undo", "undoFailed"}, NEW p \in Part
  PROVE  Summary(With(w, p)) \in Undone(worker[w].action, Summary(PartsOf(w)))
<1> DEFINE n == task[w].at
<1>1. n \in Numbers /\ PartsOf(w) \in [Numbers -> Part] /\ worker[w].action \in Actions
  BY InDelivery, InCall
<1>2. PartsOf(w)[n].msg # 0 /\ (worker[w].action = "publish" \/ Showing(PartsOf(w)[n]))
  BY InCall DEF CallOK
<1>3. Summary([PartsOf(w) EXCEPT ![n] = p]) \in Undone(worker[w].action, Summary(PartsOf(w)))
  BY <1>1, <1>2, SummaryUndone
<1> QED
  BY <1>3, WithPart

LEMMA DoneStretch ==
  ASSUME DeliveryInv, NEW w \in Workers, worker[w].pc = "delivering", Awaiting(w),
         ClaimState(w) = "current", NEW p \in Part, PartDone(w, With(w, p)),
         task[w].call.kind \in Calls.send \cup {"edit", "delete", "neutralize"},
         task[w].call.kind \in Calls.send \cup {"edit"} => Showing(p)
  PROVE  Stretch(w)
<1> DEFINE t == task[w]
           n == t.at
           i == worker[w].id
           next == [t EXCEPT !.at = n + 1, !.call = NoCall]
           ps == With(w, p)
<1>1. /\ t \in Task /\ i \in Ids /\ rows \in [Ids -> Row] /\ rows[i] \in Row
      /\ ClaimedRow(w).messages = Summary(PartsOf(w)) /\ ClaimedRow(w) = rows[i]
      /\ PartsOf(w) \in [Numbers -> Part] /\ worker[w].action \in Actions
      /\ TaskFits(w, t, PartsOf(w))
  BY InDelivery DEF DeliveryInv, OrderInv, IInv, TypeOK, ClaimedRow
<1>2. OwnsClaim(w)
  BY ClaimStateFact
<1>3. /\ CallOK(w, t) /\ n \in Numbers /\ PartsOf(w)[n] = t.stored[n]
      /\ n <= Len(t.desired) => worker[w].action = "publish"
      /\ worker[w].action = "publish" /\ n > Len(t.desired) =>
           1 \in Numbers /\ 1 # n /\ Showing(PartsOf(w)[1])
  BY <1>2, InCall
<1>4. /\ ps \in [Numbers -> Part] /\ ps = [PartsOf(w) EXCEPT ![n] = p]
      /\ ps[n] = p /\ \A m \in Numbers : m # n => ps[m] = PartsOf(w)[m]
  BY WithPart
<1> HIDE DEF ps
<1>5. Len(t.desired) \in Nat /\ n \in Nat /\ n + 1 \in 1..(MaxParts + 1) /\ Numbers \subseteq Nat
  BY <1>1, <1>3, ContentsFact, NumbersFact DEF Task
<1>6. n <= Len(t.desired) => Showing(p)
  BY <1>3, <1>5 DEF CallOK
<1>7. Summary(ps) \in Delivered(worker[w].action, Summary(PartsOf(w)))
  <2>1. worker[w].action = "publish" => Showing(p) \/ \E m \in Numbers : m # n /\ Showing(PartsOf(w)[m])
    BY <1>3, <1>5, <1>6
  <2>2. worker[w].action = "withdraw" => Showing(PartsOf(w)[n])
    <3> SUFFICES ASSUME worker[w].action = "withdraw" PROVE Showing(PartsOf(w)[n])
      OBVIOUS
    <3>1. n > Len(t.desired)
      BY <1>3, <1>5
    <3> QED
      BY <1>3, <1>5, <3>1 DEF CallOK, Calls
  <2> QED
    BY <1>1, <1>3, <1>4, <2>1, <2>2, SummaryDelivered
<1>8. /\ next \in Task /\ next.at = n + 1 /\ next.call = NoCall /\ next # t
      /\ next.desired = t.desired /\ next.stored = t.stored /\ next.call.kind = "none"
  <2>1. next \in Task
    BY <1>1, <1>5, NoTaskOK DEF Task
  <2>2. /\ next.at = n + 1 /\ next.call = NoCall /\ next.desired = t.desired
        /\ next.stored = t.stored
    BY <1>1 DEF Task
  <2> HIDE DEF next
  <2> QED
    BY <1>5, <2>1, <2>2 DEF NoCall
<1>9. TaskFits(w, next, ps)
  <2>1. ASSUME NEW m \in Numbers
        PROVE  /\ m >= n + 1 => ps[m] = t.stored[m]
               /\ m < n + 1 /\ m <= Len(t.desired) => Showing(ps[m])
    <3>1. CASE m = n
      BY <1>4, <1>5, <1>6, <3>1
    <3>2. CASE m # n
      BY <1>1, <1>2, <1>4, <1>5, <3>2 DEF TaskFits
    <3> QED
      BY <3>1, <3>2
  <2> HIDE DEF next
  <2> QED
    BY <1>1, <1>8, <2>1 DEF TaskFits
<1>10. /\ rows' = [rows EXCEPT ![i].messages = Summary(ps), ![i].lease = rows[i].lease]
       /\ parts' = [parts EXCEPT ![i] = ps]
       /\ task' = [task EXCEPT ![w] = next]
       /\ worker' = worker
  <2>1. [rows[i] EXCEPT !.messages = Summary(ps), !.lease = rows[i].lease]
          = [rows[i] EXCEPT !.messages = Summary(ps)]
    BY <1>1 DEF Row
  <2> QED
    BY <1>1, <2>1 DEF PartDone, ps
<1> HIDE DEF next
<1>11. Records(w)
  BY <1>1, <1>4, <1>7, <1>8, <1>9, <1>10 DEF Records
<1> QED
  BY <1>11 DEF Stretch


(* A call made under a claim renewed for it *)
LEMMA RenewedStretch ==
  ASSUME DeliveryInv, NEW w \in Workers, worker[w].pc = "delivering",
         NEW kind, NEW n \in Numbers, NEW msg, NEW text, AskRenewed(w, kind, n, msg, text),
         NEW c \in Call, c = [kind |-> kind, msg |-> msg, text |-> text, reply |-> "awaited"],
         ClaimState(w) = "current" =>
           TaskFits(w, [task[w] EXCEPT !.at = n, !.call = c], PartsOf(w))
  PROVE  Stretch(w)
<1> DEFINE i == worker[w].id
           t == [task[w] EXCEPT !.at = n, !.call = c]
           ps == PartsOf(w)
<1>1. /\ task[w] \in Task /\ rows[i] \in Row /\ rows[i].messages = Summary(ps)
      /\ rows \in [Ids -> Row] /\ i \in Ids /\ ps \in [Numbers -> Part]
      /\ task \in [Workers -> Task] /\ parts \in [Ids -> [Numbers -> Part]]
  BY InDelivery DEF ClaimedRow, DeliveryInv, OrderInv, IInv, TypeOK, RecordsOK
<1>2. CASE ClaimState(w) = "current"
  <2>1. /\ rows' = [rows EXCEPT ![i].lease = LeaseTicks]
        /\ task' = [Asked(w, kind, msg, text) EXCEPT ![w].at = n]
        /\ worker' = worker /\ parts' = parts
    BY <1>2 DEF AskRenewed
  <2>2. n \in 1..(MaxParts + 1)
    BY DeliveryBoundsAssumption DEF Numbers
  <2>3. t \in Task
    BY <1>1, <2>2 DEF Task
  <2>4. task' = [task EXCEPT ![w] = t]
    <3>1. task'[w] = t
      BY <1>1, <2>1 DEF Asked, Task
    <3> QED
      BY <1>1, <2>1, <3>1 DEF Asked
  <2>5. rows' = [rows EXCEPT ![i].messages = Summary(ps), ![i].lease = LeaseTicks]
    <3>1. [rows[i] EXCEPT !.messages = Summary(ps), !.lease = LeaseTicks]
            = [rows[i] EXCEPT !.lease = LeaseTicks]
      BY <1>1 DEF Row
    <3> QED
      BY <1>1, <2>1, <3>1
  <2>6. parts' = [parts EXCEPT ![i] = ps]
    BY <1>1, <2>1 DEF PartsOf
  <2>7. TaskFits(w, t, ps)
    BY <1>2
  <2> HIDE DEF t, ps
  <2>8. Records(w)
    BY <1>1, <1>2, <2>1, <2>3, <2>4, <2>5, <2>6, <2>7 DEF Records, ps
  <2> QED
    BY <2>8 DEF Stretch
<1>3. CASE ClaimState(w) # "current"
  <2>1. LeaveOvertaken(w, ps)
    BY <1>3 DEF AskRenewed
  <2> QED
    BY <1>1, <1>3, <2>1, OvertakenStretch
<1> QED
  BY <1>2, <1>3

(* The first part that needs a call *)
LEMMA FirstOf ==
  ASSUME NEW S \in SUBSET Nat, S # {}
  PROVE  Min(S) \in S /\ \A m \in S : Min(S) <= m
<1>1. PICK n \in S : \A m \in S : ~(<<m, n>> \in OpToRel(<, Nat))
  BY NatLessThanWellFounded, WFMin
<1>2. \A m \in S : ~(m < n)
  BY <1>1 DEF OpToRel
<1>3. \A m \in S : n =< m
  BY <1>2
<1> QED
  BY <1>3 DEF Min


-----------------------------------------------------------------------------
(* Each action of the coroutine is a stretch. *)

LEMMA NextPartStretch ==
  ASSUME DeliveryInv, NEW w \in Workers, NextPart(w)
  PROVE  Stretch(w) /\ UNCHANGED Table /\ WireOK'
<1> DEFINE t == task[w]
           ps == PartsOf(w)
           todo == {n \in Numbers : n >= t.at /\ ~UpToDate(t, n)}
<1>1. /\ worker[w].pc = "delivering" /\ t.call.kind = "none"
      /\ UNCHANGED <<untouched, chat, late, unknown>>
  BY DEF NextPart, Awaiting
<1>2. UNCHANGED Table /\ WireOK'
  BY <1>1, WireSame DEF untouched, Table
<1>3. /\ t \in Task /\ TaskFits(w, t, ps) /\ ps \in [Numbers -> Part]
      /\ worker[w].action \in Actions
  BY <1>1, InDelivery
<1>4. /\ t.stored \in [Numbers -> Part] /\ Len(t.desired) \in Nat /\ t.at \in Nat \ {0}
      /\ worker[w].action = "publish" <=> Len(t.desired) > 0
      /\ Len(t.desired) <= MaxParts /\ MaxParts \in Nat
      /\ \A n \in Numbers : n <= Len(t.desired) => t.desired[n] \in Texts
  BY <1>3, ContentsFact, NumbersFact DEF Task, TaskFits
<1>5. Numbers \subseteq Nat
  BY NumbersFact
(* What was passed over is shown. *)
<1>6. ASSUME NEW m \in Numbers, m \notin todo, m <= Len(t.desired), OwnsClaim(w)
      PROVE  Showing(ps[m])
  <2>1. CASE m < t.at
    BY <1>3, <1>6, <2>1 DEF TaskFits
  <2>2. CASE m >= t.at
    <3>1. ps[m] = t.stored[m] /\ UpToDate(t, m)
      BY <1>3, <1>6, <2>2 DEF TaskFits
    <3> QED
      BY <1>6, <3>1 DEF UpToDate, Showing
  <2> QED
    BY <1>4, <1>5, <2>1, <2>2
<1>7. CASE todo = {}
  <2>1. LeaveOvertaken(w, ps)
    BY <1>7 DEF NextPart
  <2>2. ASSUME ClaimState(w) = "current"
        PROVE  Summary(ps) \in Delivered(worker[w].action, Summary(ps))
    <3>1. CASE worker[w].action = "publish"
      <4>1. OwnsClaim(w) /\ 1 \in Numbers /\ 1 <= Len(t.desired)
        BY <1>4, <2>2, <3>1, ClaimStateFact DEF Numbers
      <4>2. Showing(ps[1])
        BY <1>6, <1>7, <4>1
      <4> QED
        BY <3>1, <4>1, <4>2, SummaryFact DEF Delivered
    <3>2. CASE worker[w].action = "withdraw"
      BY <3>2, SummaryFact DEF Delivered
    <3> QED
      BY <1>3, <3>1, <3>2 DEF Actions
  <2> QED
    BY <1>1, <1>2, <1>3, <2>1, <2>2, OvertakenStretch
<1>8. CASE todo # {}
  <2> DEFINE n == Min(todo)
             over == n > Len(t.desired)
             kind == IF over THEN "delete" ELSE IF t.stored[n].msg = 0 THEN "send" ELSE "edit"
             text == IF over THEN Placeholder ELSE t.desired[n]
             msg == t.stored[n].msg
             c == [kind |-> kind, msg |-> msg, text |-> text, reply |-> "awaited"]
             u == [t EXCEPT !.at = n, !.call = c]
  <2>1. n \in todo /\ \A m \in todo : n <= m
    BY <1>5, <1>8, FirstOf
  <2>2. AskRenewed(w, kind, n, msg, text)
    BY <1>8 DEF NextPart
  <2> HIDE DEF n
  <2>3. n \in Numbers /\ n >= t.at /\ ~UpToDate(t, n) /\ n \in Nat
    BY <1>5, <2>1
  <2>4. msg \in 0..MaxMessages /\ text \in Texts \cup {Placeholder}
    BY <1>4, <2>3 DEF Part
  <2>5. c \in Call
    BY <2>4 DEF Call, Calls
  <2>6. /\ u.at = n /\ u.call = c /\ u.desired = t.desired /\ u.stored = t.stored
    BY <1>3 DEF Task
  <2>7. CallOK(w, u)
    <3>1. /\ c.kind = kind /\ c.msg = msg /\ c.reply = "awaited"
      OBVIOUS
    <3>2. /\ over => kind = "delete" /\ msg # 0 /\ Showing(t.stored[n])
          /\ ~over => n <= Len(t.desired) /\ (kind = "send" \/ (kind = "edit" /\ msg # 0))
      BY <1>4, <2>3 DEF UpToDate, Showing
    <3> HIDE DEF c, u, over, kind, msg
    <3>3. kind \in Calls.send \/ (kind \in {"edit", "delete"} /\ kind \notin Calls.send)
      BY <3>2 DEF Calls
    <3>4. kind \notin Undoings
      BY <3>2 DEF Undoings
    <3>5. kind \in Calls.send \cup {"edit"} => ~over
      BY <3>2 DEF Calls
    <3>6. kind \in {"delete", "neutralize"} => over
      BY <3>2
    <3>7. kind \notin Calls.send => msg # 0
      BY <3>2 DEF Calls
    <3> QED
      BY <2>3, <2>6, <3>1, <3>2, <3>3, <3>4, <3>5, <3>6, <3>7 DEF CallOK, over, msg
  <2>8. ASSUME ClaimState(w) = "current" PROVE TaskFits(w, u, ps)
    <3>1. OwnsClaim(w)
      BY <2>8, ClaimStateFact
    <3>2. ASSUME NEW m \in Numbers, m < n, m <= Len(t.desired) PROVE Showing(ps[m])
      <4>1. m \notin todo
        BY <1>5, <2>1, <2>3, <3>2
      <4> QED
        BY <1>6, <3>1, <3>2, <4>1
    <3>3. ASSUME NEW m \in Numbers, m >= n PROVE ps[m] = t.stored[m]
      <4>1. m >= t.at
        BY <1>4, <1>5, <2>3, <3>3
      <4> QED
        BY <1>3, <3>1, <4>1 DEF TaskFits
    <3> HIDE DEF u
    <3> QED
      BY <1>3, <2>6, <2>7, <3>2, <3>3 DEF TaskFits
  <2> HIDE DEF c, u, kind, msg, text
  <2>9. Stretch(w)
    BY <1>1, <2>2, <2>3, <2>5, <2>8, RenewedStretch DEF c, u
  <2> QED
    BY <1>2, <2>9
<1> QED
  BY <1>7, <1>8


(* What Telegram does to the chat *)
LEMMA AppliedType ==
  ASSUME DeliveryInv, NEW call \in Call
  PROVE  Applied(call) \in [MessageIds -> Texts \cup {Placeholder, "unsent", "gone", "removed"}]
<1> DEFINE Shown == Texts \cup {Placeholder, "unsent", "gone", "removed"}
<1>1. chat \in [MessageIds -> Shown] /\ call.text \in Shown /\ "gone" \in Shown
  BY DEF DeliveryInv, WireOK, Call
<1> HIDE DEF Shown
<1>2. ASSUME NEW m, NEW text \in Shown PROVE [chat EXCEPT ![m] = text] \in [MessageIds -> Shown]
  BY <1>1
<1>3. CASE call.kind \in Calls.send
  <2> DEFINE m == CHOOSE m \in MessageIds : /\ chat[m] = "unsent"
                                            /\ \A l \in 1..(m - 1) : chat[l] # "unsent"
  <2>1. Applied(call) = [chat EXCEPT ![m] = call.text]
    BY <1>3 DEF Applied
  <2> HIDE DEF m
  <2> QED
    BY <1>1, <1>2, <2>1 DEF Shown
<1>4. CASE call.kind \notin Calls.send
  <2> DEFINE text == IF call.kind \in Calls.edit THEN call.text ELSE "gone"
  <2>1. text \in Shown
    BY <1>1
  <2>2. Applied(call) \in {chat, [chat EXCEPT ![call.msg] = text]}
    BY <1>4 DEF Applied
  <2> HIDE DEF text
  <2> QED
    BY <1>1, <1>2, <2>1, <2>2 DEF Shown
<1> QED
  BY <1>3, <1>4

LEMMA InWire ==
  ASSUME DeliveryInv, NEW w \in Workers, Awaiting(w)
  PROVE  worker[w].pc = "delivering" /\ task[w].call \in Call /\ CallOK(w, task[w])
<1>1. Tasked(w) /\ NoTask.call.kind = "none"
  BY NoTaskOK DEF DeliveryInv
<1>2. worker[w].pc = "delivering"
  BY <1>1 DEF Tasked, Awaiting
<1> QED
  BY <1>2, InCall

LEMMA AnswerStretch ==
  ASSUME DeliveryInv, NEW w \in Workers, Awaiting(w),
         NEW reply \in {"ok", "temporary", "bad", "forbidden", "missing"},
         NEW msg \in 0..MaxMessages, Answer(w, reply, msg),
         msg # task[w].call.msg => task[w].call.kind \in Calls.send,
         reply = "ok" => msg # 0,
         UNCHANGED <<rows, worker, parts>>
  PROVE  Stretch(w)
<1> DEFINE call == task[w].call
           c == [call EXCEPT !.reply = reply, !.msg = msg]
           u == [task[w] EXCEPT !.call = c]
<1>1. /\ worker[w].pc = "delivering" /\ call \in Call /\ CallOK(w, task[w])
      /\ task[w] \in Task /\ task \in [Workers -> Task]
  BY InWire, InDelivery DEF DeliveryInv, RecordsOK
<1>2. c \in Call /\ c.kind = call.kind /\ c.msg = msg /\ c.reply = reply
  BY <1>1 DEF Call
<1>3. task' = [task EXCEPT ![w].call = c]
  <2>1. task'[w] = u
    BY <1>1 DEF Answer, Task, Call
  <2> QED
    BY <1>1, <2>1 DEF Answer
<1>4. /\ u.at = task[w].at /\ u.call = c /\ u.desired = task[w].desired
      /\ u.stored = task[w].stored
  BY <1>1 DEF Task
<1> HIDE DEF c, u
<1>5. CallOK(w, u)
  BY <1>1, <1>2, <1>4 DEF CallOK
<1> QED
  BY <1>1, <1>2, <1>3, <1>5, AskStretch DEF u

LEMMA AcceptsStretch ==
  ASSUME DeliveryInv, NEW w \in Workers, TelegramAccepts(w)
  PROVE  Stretch(w) /\ UNCHANGED Table /\ WireOK'
<1> DEFINE call == task[w].call
<1>1. /\ Awaiting(w) /\ call \in Call /\ CallOK(w, task[w]) /\ chat' = Applied(call)
      /\ UNCHANGED <<vars, content, parts, late, unknown>>
  BY InWire DEF TelegramAccepts
<1>2. UNCHANGED <<Table, rows, worker, parts>>
  BY <1>1 DEF vars, Table
<1>3. WireOK'
  BY <1>1, AppliedType DEF DeliveryInv, WireOK
<1>4. CASE call.kind \in Calls.send
  <2>1. PICK m \in MessageIds : Answer(w, "ok", m)
    BY <1>4 DEF TelegramAccepts
  <2>2. m \in 0..MaxMessages /\ m # 0
    BY NumbersFact DEF MessageIds
  <2> QED
    BY <1>1, <1>2, <1>3, <1>4, <2>1, <2>2, AnswerStretch
<1>5. CASE call.kind \notin Calls.send
  <2>1. Answer(w, "ok", call.msg) /\ call.msg # 0 /\ call.msg \in 0..MaxMessages
    BY <1>1, <1>5 DEF TelegramAccepts, CallOK, Call
  <2> QED
    BY <1>1, <1>2, <1>3, <2>1, AnswerStretch
<1> QED
  BY <1>4, <1>5

LEMMA RefusesStretch ==
  ASSUME DeliveryInv, NEW w \in Workers, TelegramRefuses(w)
  PROVE  Stretch(w) /\ UNCHANGED Table /\ WireOK'
<1> DEFINE call == task[w].call
<1>1. /\ Awaiting(w) /\ call \in Call
      /\ UNCHANGED <<vars, content, parts, chat, late>>
  BY InWire DEF TelegramRefuses
<1>2. UNCHANGED <<Table, rows, worker, parts>>
  BY <1>1 DEF vars, Table
<1>3. unknown' \in 0..MaxUnknown
  BY NumbersFact DEF TelegramRefuses, DeliveryInv, WireOK
<1>4. WireOK'
  BY <1>1, <1>3 DEF DeliveryInv, WireOK
<1>5. PICK reply \in {"temporary", "bad", "forbidden", "missing"} : Answer(w, reply, call.msg)
  BY DEF TelegramRefuses, Refusals
<1>6. call.msg \in 0..MaxMessages
  BY <1>1 DEF Call
<1> QED
  BY <1>1, <1>2, <1>4, <1>5, <1>6, AnswerStretch

LEMMA TimesOutStretch ==
  ASSUME DeliveryInv, NEW w \in Workers, TelegramTimesOut(w)
  PROVE  Stretch(w) /\ UNCHANGED Table /\ WireOK'
<1> DEFINE call == task[w].call
<1>1. /\ Awaiting(w) /\ call \in Call /\ Answer(w, "temporary", call.msg)
      /\ late' = late \cup {call} /\ unknown < MaxUnknown /\ unknown' = unknown + 1
      /\ UNCHANGED <<vars, content, parts, chat>>
  BY InWire DEF TelegramTimesOut
<1>2. UNCHANGED <<Table, rows, worker, parts>>
  BY <1>1 DEF vars, Table
<1>3. unknown' \in 0..MaxUnknown
  BY <1>1, NumbersFact DEF DeliveryInv, WireOK
<1>4. WireOK'
  BY <1>1, <1>3 DEF DeliveryInv, WireOK
<1>5. call.msg \in 0..MaxMessages
  BY <1>1 DEF Call
<1> QED
  BY <1>1, <1>2, <1>4, <1>5, AnswerStretch


(* What is known when an answer is handled *)
LEMMA Heard ==
  ASSUME DeliveryInv, NEW w \in Workers, NEW kinds, Answered(w, kinds),
         kinds \subseteq Calls.send \cup Calls.edit \cup Calls.delete
  PROVE  /\ worker[w].pc = "delivering" /\ Awaiting(w)
         /\ UNCHANGED Table /\ (unknown' \in 0..MaxUnknown => WireOK')
         /\ task[w].call.kind \in kinds
         /\ task[w].call.msg \in 0..MaxMessages /\ task[w].call.text \in Texts \cup {Placeholder}
         /\ task[w].call.reply \in {"ok", "temporary", "bad", "forbidden", "missing"}
         /\ task[w].at \in Numbers
         /\ task[w].call.kind \notin Calls.send \/ task[w].call.reply = "ok" =>
              task[w].call.msg # 0
         /\ task[w].call.kind \in Undoings => ClaimState(w) # "current"
<1>1. /\ worker[w].pc = "delivering" /\ UNCHANGED <<untouched, chat, late>>
      /\ task[w].call.reply # "awaited" /\ task[w].call.kind \in kinds
  BY DEF Answered
<1>2. Awaiting(w)
  BY <1>1 DEF Awaiting, Calls
<1>3. UNCHANGED Table /\ (unknown' \in 0..MaxUnknown => WireOK')
  BY <1>1 DEF untouched, Table, DeliveryInv, WireOK
<1>4. task[w].call \in Call /\ CallOK(w, task[w])
  BY <1>2, InWire
<1>5. task[w].call.kind \in Undoings => ClaimState(w) # "current"
  BY <1>1, <1>4, OvertakenFact DEF CallOK
<1> QED
  BY <1>1, <1>2, <1>3, <1>4, <1>5 DEF Call, CallOK

LEMMA Handled ==
  ASSUME DeliveryInv, NEW w \in Workers, NEW kinds, Handling(w, kinds),
         kinds \subseteq Calls.send \cup Calls.edit \cup Calls.delete
  PROVE  /\ worker[w].pc = "delivering" /\ Awaiting(w)
         /\ UNCHANGED Table /\ WireOK'
         /\ task[w].call.kind \in kinds
         /\ task[w].call.msg \in 0..MaxMessages /\ task[w].call.text \in Texts \cup {Placeholder}
         /\ task[w].call.reply \in {"ok", "temporary", "bad", "forbidden", "missing"}
         /\ task[w].at \in Numbers
         /\ task[w].call.kind \notin Calls.send \/ task[w].call.reply = "ok" =>
              task[w].call.msg # 0
         /\ task[w].call.kind \in Undoings => ClaimState(w) # "current"
<1>1. Answered(w, kinds) /\ unknown' = unknown
  BY DEF Handling
<1>2. unknown' \in 0..MaxUnknown
  BY <1>1 DEF DeliveryInv, WireOK
<1> QED
  BY <1>1, <1>2, Heard

(* It leaves because it was overtaken, recording nothing, *)
LEMMA LeavesSame ==
  ASSUME DeliveryInv, NEW w \in Workers, worker[w].pc = "delivering",
         ClaimState(w) # "current", LeaveOvertaken(w, PartsOf(w))
  PROVE  Stretch(w)
BY InDelivery, OvertakenStretch

(* or what became of the part in hand. *)
LEMMA LeavesWith ==
  ASSUME DeliveryInv, NEW w \in Workers, worker[w].pc = "delivering", Awaiting(w),
         ClaimState(w) # "current", NEW p \in Part, LeaveOvertaken(w, With(w, p)),
         task[w].call.kind \notin Calls.send \cup {"undo", "undoFailed"}
  PROVE  Stretch(w)
<1>1. With(w, p) \in [Numbers -> Part]
  BY WithPart
<1>2. ASSUME OwnsClaim(w)
      PROVE  Summary(With(w, p)) \in Undone(worker[w].action, Summary(PartsOf(w)))
  BY <1>2, WithUndone
<1> QED
  BY <1>1, <1>2, OvertakenStretch

(* A call without a part in the database to be about is made to undo one. *)
LEMMA AsksNext ==
  ASSUME DeliveryInv, NEW w \in Workers, worker[w].pc = "delivering", Awaiting(w),
         NEW kind \in Undoings \cup {"undoFailed"}, NEW msg \in 1..MaxMessages,
         NEW text \in Texts \cup {Placeholder}, Ask(w, kind, msg, text),
         kind # "undoFailed" => ClaimState(w) # "current",
         kind \notin {"undo", "undoFailed"} =>
           task[w].call.kind \notin Calls.send \cup {"undo", "undoFailed"}
  PROVE  Stretch(w)
<1> DEFINE c == [kind |-> kind, msg |-> msg, text |-> text, reply |-> "awaited"]
           u == [task[w] EXCEPT !.call = c]
<1>1. task[w] \in Task /\ CallOK(w, task[w])
  BY InDelivery, InWire
<1>2. msg \in 0..MaxMessages /\ msg # 0
  BY NumbersFact
<1>3. c \in Call /\ c.kind = kind /\ c.msg = msg
  BY <1>2 DEF Call, Calls, Undoings
<1>4. /\ u.at = task[w].at /\ u.call = c /\ u.desired = task[w].desired
      /\ u.stored = task[w].stored
  BY <1>1 DEF Task
<1>5. /\ kind \notin Calls.send \cup {"edit", "delete", "neutralize"}
      /\ kind # "undoFailed" => Overtaken(w)
  BY OvertakenFact DEF Undoings, Calls
<1>6. task' = [task EXCEPT ![w].call = c] /\ UNCHANGED <<rows, worker, parts>>
  BY DEF Ask, Asked
<1> HIDE DEF c, u
<1>7. CallOK(w, u)
  BY <1>1, <1>2, <1>3, <1>4, <1>5 DEF CallOK, Undoings
<1> QED
  BY <1>3, <1>6, <1>7, AskStretch DEF u

LEMMA SendStretch ==
  ASSUME DeliveryInv, NEW w \in Workers, HandleSend(w)
  PROVE  Stretch(w) /\ UNCHANGED Table /\ WireOK'
<1> DEFINE call == task[w].call
           p == ActivePart(call.msg, call.text)
<1>1. Handling(w, Calls.send)
  BY DEF HandleSend
<1>2. /\ worker[w].pc = "delivering" /\ Awaiting(w) /\ UNCHANGED Table /\ WireOK'
      /\ call.kind \in Calls.send
      /\ call.msg \in 0..MaxMessages /\ call.text \in Texts \cup {Placeholder}
      /\ call.reply = "ok" => call.msg # 0 /\ call.msg \in 1..MaxMessages
  BY <1>1, Handled, NumbersFact
<1>3. CASE call.reply # "ok" /\ ClaimState(w) = "current"
  <2>1. LeaveFailed(w, call.reply = "bad") /\ (call.reply = "bad") \in BOOLEAN /\ OwnsClaim(w)
    BY <1>3, ClaimStateFact DEF HandleSend
  <2> QED
    BY <1>2, <1>3, <2>1, FailedStretch
<1>4. CASE call.reply # "ok" /\ ClaimState(w) # "current"
  BY <1>2, <1>4, LeavesSame DEF HandleSend
<1>5. CASE call.reply = "ok" /\ ClaimState(w) # "current"
  BY <1>2, <1>5, AsksNext DEF HandleSend, Undoings
<1>6. CASE call.reply = "ok" /\ ClaimState(w) = "current"
  <2>1. p \in Part /\ Showing(p)
    BY <1>2, <1>6, PartTypes DEF ActivePart, Showing
  <2>2. CASE PartDone(w, With(w, p))
    BY <1>2, <1>6, <2>1, <2>2, DoneStretch
  <2>3. CASE Ask(w, "undoFailed", call.msg, Placeholder)
    BY <1>2, <1>6, <2>3, AsksNext
  <2> QED
    BY <1>6, <2>2, <2>3 DEF HandleSend
<1> QED
  BY <1>2, <1>3, <1>4, <1>5, <1>6

LEMMA UndoEditStretch ==
  ASSUME DeliveryInv, NEW w \in Workers, worker[w].pc = "delivering", Awaiting(w),
         task[w].call.kind \in {"edit", "neutralize"}, ClaimState(w) # "current", UndoEdit(w)
  PROVE  Stretch(w)
<1> DEFINE call == task[w].call
           n == task[w].at
<1>1. /\ task[w] \in Task /\ PartsOf(w) \in [Numbers -> Part] /\ call \in Call
      /\ CallOK(w, task[w]) /\ n \in Numbers
  BY InDelivery, InWire DEF CallOK
<1>2. call.kind \notin Calls.send \cup {"undo", "undoFailed"}
  BY DEF Calls
<1>3. call.msg \in 1..MaxMessages /\ task[w].stored[n].text \in Texts \cup {Placeholder}
  BY <1>1, <1>2, NumbersFact DEF CallOK, Call, Task, Part
<1>4. CASE ~OwnsClaim(w)
  BY <1>4 DEF UndoEdit, Lost, Stretch
<1>5. CASE OwnsClaim(w) /\ ~Allowed(ClaimedRow(w))
  <2>1. Ask(w, "restore", call.msg, task[w].stored[n].text)
    BY <1>5 DEF UndoEdit
  <2> QED
    BY <1>2, <1>3, <2>1, AsksNext DEF Undoings
<1>6. CASE OwnsClaim(w) /\ Allowed(ClaimedRow(w)) /\ ClaimedRow(w).action = "withdraw"
  <2>1. Ask(w, "retract", call.msg, Placeholder)
    BY <1>6 DEF UndoEdit
  <2> QED
    BY <1>2, <1>3, <2>1, AsksNext DEF Undoings
<1>7. CASE OwnsClaim(w) /\ Allowed(ClaimedRow(w)) /\ ClaimedRow(w).action # "withdraw"
  <2>1. LeaveOvertaken(w, With(w, StaleEdit(w)))
    BY <1>7 DEF UndoEdit, LeaveOvertaken
  <2>2. StaleEdit(w) \in Part
    BY <1>1, PartTypes DEF StaleEdit
  <2> QED
    BY <1>2, <2>1, <2>2, LeavesWith
<1> QED
  BY <1>4, <1>5, <1>6, <1>7


(* The call about this part is made again in another form. *)
LEMMA AsksAgain ==
  ASSUME DeliveryInv, NEW w \in Workers, worker[w].pc = "delivering", Awaiting(w),
         ClaimState(w) = "current",
         NEW kind, NEW msg \in 0..MaxMessages, NEW text \in Texts \cup {Placeholder},
         AskRenewed(w, kind, task[w].at, msg, text),
         \/ kind = "resend" /\ task[w].call.kind = "edit"
         \/ kind = "neutralize" /\ task[w].call.kind = "delete" /\ msg # 0
  PROVE  Stretch(w)
<1> DEFINE t == task[w]
           c == [kind |-> kind, msg |-> msg, text |-> text, reply |-> "awaited"]
           u == [t EXCEPT !.at = t.at, !.call = c]
<1>1. t \in Task /\ TaskFits(w, t, PartsOf(w)) /\ CallOK(w, t) /\ t.at \in Numbers
  BY InDelivery, InWire DEF CallOK
<1>2. c \in Call /\ c.kind = kind /\ c.msg = msg /\ c.reply = "awaited"
  BY DEF Call, Calls
<1>3. u.at = t.at /\ u.call = c /\ u.desired = t.desired /\ u.stored = t.stored
  BY <1>1 DEF Task
<1> HIDE DEF c, u
<1>4. CallOK(w, u)
  <2>1. CASE kind = "resend"
    <3>1. t.at <= Len(t.desired)
      BY <1>1, <2>1 DEF CallOK
    <3>2. kind \in Calls.send /\ kind \notin {"delete", "neutralize"} \cup Undoings
      BY <2>1 DEF Calls, Undoings
    <3> QED
      BY <1>1, <1>2, <1>3, <3>1, <3>2 DEF CallOK
  <2>2. CASE kind = "neutralize" /\ t.call.kind = "delete" /\ msg # 0
    <3>1. t.at > Len(t.desired)
      BY <1>1, <2>2 DEF CallOK
    <3>2. /\ kind \notin Calls.send \cup {"edit"} \cup Undoings
          /\ t.call.kind \notin Calls.send \cup {"undo", "undoFailed"}
      BY <2>2 DEF Calls, Undoings
    <3> QED
      BY <1>1, <1>2, <1>3, <2>2, <3>1, <3>2 DEF CallOK
  <2> QED
    BY <2>1, <2>2
<1>5. TaskFits(w, u, PartsOf(w))
  BY <1>1, <1>3, <1>4 DEF TaskFits
<1> QED
  BY <1>1, <1>2, <1>5, RenewedStretch DEF c, u

LEMMA EditStretch ==
  ASSUME DeliveryInv, NEW w \in Workers, HandleEdit(w)
  PROVE  Stretch(w) /\ UNCHANGED Table /\ WireOK'
<1> DEFINE call == task[w].call
           p == ActivePart(call.msg, call.text)
<1>1. Handling(w, {"edit"}) /\ {"edit"} \subseteq Calls.edit /\ "edit" \notin Calls.send
  BY DEF HandleEdit, Calls
<1>2. /\ worker[w].pc = "delivering" /\ Awaiting(w) /\ UNCHANGED Table /\ WireOK'
      /\ call.kind = "edit" /\ call.msg # 0
      /\ call.msg \in 0..MaxMessages /\ call.text \in Texts \cup {Placeholder}
      /\ 0 \in 0..MaxMessages
  BY <1>1, Handled, NumbersFact
<1>3. CASE ClaimState(w) # "current"
  BY <1>2, <1>3, UndoEditStretch DEF HandleEdit
<1>4. CASE ClaimState(w) = "current"
  <2>1. CASE call.reply = "ok"
    <3>1. PartDone(w, With(w, p))
      BY <1>4, <2>1 DEF HandleEdit
    <3>2. p \in Part /\ Showing(p)
      BY <1>2, PartTypes DEF ActivePart, Showing
    <3> QED
      BY <1>2, <1>4, <3>1, <3>2, DoneStretch
  <2>2. CASE call.reply = "missing"
    <3>1. AskRenewed(w, "resend", task[w].at, 0, call.text)
      BY <1>4, <2>2 DEF HandleEdit
    <3> QED
      BY <1>2, <1>4, <3>1, AsksAgain
  <2>3. CASE call.reply \notin {"ok", "missing"}
    <3>1. LeaveFailed(w, call.reply = "bad") /\ (call.reply = "bad") \in BOOLEAN /\ OwnsClaim(w)
      BY <1>4, <2>3, ClaimStateFact DEF HandleEdit
    <3> QED
      BY <1>2, <1>4, <3>1, FailedStretch
  <2> QED
    BY <1>2, <2>1, <2>2, <2>3
<1> QED
  BY <1>2, <1>3, <1>4

LEMMA TerminalFailedPart ==
  ASSUME DeliveryInv, NEW w \in Workers, task[w].at \in Numbers
  PROVE  TerminalFailed(w) \in Part /\ StaleEdit(w) \in Part
<1>1. PartsOf(w)[task[w].at] \in Part
  BY InDelivery
<1> QED
  BY <1>1, PartTypes DEF TerminalFailed, StaleEdit

LEMMA DeleteStretch ==
  ASSUME DeliveryInv, NEW w \in Workers, HandleDelete(w)
  PROVE  Stretch(w) /\ UNCHANGED Table /\ WireOK'
<1> DEFINE call == task[w].call
           deleted == call.reply \in {"ok", "missing"}
<1>1. Handling(w, {"delete"}) /\ {"delete"} \subseteq Calls.delete /\ "delete" \notin Calls.send
  BY DEF HandleDelete, Calls
<1>2. /\ worker[w].pc = "delivering" /\ Awaiting(w) /\ UNCHANGED Table /\ WireOK'
      /\ call.kind = "delete" /\ call.msg # 0 /\ call.msg \in 0..MaxMessages
      /\ call.kind \notin Calls.send \cup {"undo", "undoFailed", "edit"}
      /\ task[w].at \in Numbers
  BY <1>1, Handled
<1>3. NoPart \in Part /\ TerminalFailed(w) \in Part
  BY <1>2, PartTypes, TerminalFailedPart
<1>4. CASE ClaimState(w) # "current" /\ deleted
  <2>1. LeaveOvertaken(w, With(w, NoPart))
    BY <1>4 DEF HandleDelete
  <2> QED
    BY <1>2, <1>3, <1>4, <2>1, LeavesWith
<1>5. CASE ClaimState(w) # "current" /\ ~deleted
  <2>1. LeaveOvertaken(w, PartsOf(w))
    BY <1>5 DEF HandleDelete
  <2> QED
    BY <1>2, <1>5, <2>1, LeavesSame
<1>6. CASE ClaimState(w) = "current"
  <2>1. CASE deleted
    <3>1. PartDone(w, With(w, NoPart))
      BY <1>6, <2>1 DEF HandleDelete
    <3> QED
      BY <1>2, <1>3, <1>6, <3>1, DoneStretch
  <2>2. CASE call.reply = "bad"
    <3>1. AskRenewed(w, "neutralize", task[w].at, call.msg, Placeholder)
      BY <1>6, <2>2 DEF HandleDelete
    <3> QED
      BY <1>2, <1>6, <3>1, AsksAgain
  <2>3. CASE call.reply = "forbidden"
    <3>1. PartDone(w, With(w, TerminalFailed(w)))
      BY <1>6, <2>3 DEF HandleDelete
    <3> QED
      BY <1>2, <1>3, <1>6, <3>1, DoneStretch
  <2>4. CASE call.reply \notin {"ok", "missing", "bad", "forbidden"}
    <3>1. LeaveFailed(w, FALSE) /\ OwnsClaim(w)
      BY <1>6, <2>4, ClaimStateFact DEF HandleDelete
    <3> QED
      BY <1>2, <1>6, <3>1, FailedStretch
  <2> QED
    BY <1>2, <2>1, <2>2, <2>3, <2>4
<1> QED
  BY <1>2, <1>4, <1>5, <1>6

LEMMA NeutralizeStretch ==
  ASSUME DeliveryInv, NEW w \in Workers, HandleNeutralize(w)
  PROVE  Stretch(w) /\ UNCHANGED Table /\ WireOK'
<1> DEFINE call == task[w].call
<1>1. /\ Handling(w, {"neutralize"}) /\ {"neutralize"} \subseteq Calls.edit
      /\ "neutralize" \notin Calls.send
  BY DEF HandleNeutralize, Calls
<1>2. /\ worker[w].pc = "delivering" /\ Awaiting(w) /\ UNCHANGED Table /\ WireOK'
      /\ call.kind = "neutralize" /\ call.kind \notin Calls.send \cup {"edit"}
      /\ call.msg \in 0..MaxMessages
      /\ task[w].at \in Numbers
  BY <1>1, Handled
<1>3. NoPart \in Part /\ TerminalFailed(w) \in Part
  BY <1>2, PartTypes, TerminalFailedPart
<1>4. CASE ClaimState(w) # "current"
  BY <1>2, <1>4, UndoEditStretch DEF HandleNeutralize
<1>5. CASE ClaimState(w) = "current"
  <2>1. ASSUME NEW p \in Part, PartDone(w, With(w, p)) PROVE Stretch(w)
    BY <1>2, <1>5, <2>1, DoneStretch
  <2>2. CASE call.reply = "ok"
    <3>1. PartDone(w, With(w, RetiredPart(call.msg)))
      BY <1>5, <2>2 DEF HandleNeutralize
    <3>2. RetiredPart(call.msg) \in Part
      BY <1>2, RetiredPartType
    <3> QED
      BY <1>2, <1>5, <3>1, <3>2, DoneStretch
  <2>3. CASE call.reply = "missing"
    <3>1. PartDone(w, With(w, NoPart))
      BY <1>5, <2>3 DEF HandleNeutralize
    <3> QED
      BY <1>2, <1>3, <2>1, <3>1
  <2>4. CASE call.reply = "bad"
    <3>1. PartDone(w, With(w, TerminalFailed(w)))
      BY <1>5, <2>4 DEF HandleNeutralize
    <3> QED
      BY <1>2, <1>3, <2>1, <3>1
  <2>5. CASE call.reply \notin {"ok", "missing", "bad"}
    <3>1. LeaveFailed(w, FALSE) /\ OwnsClaim(w)
      BY <1>5, <2>5, ClaimStateFact DEF HandleNeutralize
    <3> QED
      BY <1>2, <1>5, <3>1, FailedStretch
  <2> QED
    BY <2>2, <2>3, <2>4, <2>5
<1> QED
  BY <1>2, <1>4, <1>5


LEMMA UndoStretch ==
  ASSUME DeliveryInv, NEW w \in Workers, HandleUndo(w)
  PROVE  Stretch(w) /\ UNCHANGED Table /\ WireOK'
<1> DEFINE call == task[w].call
<1>1. Handling(w, {"undo", "undoFailed"}) /\ {"undo", "undoFailed"} \subseteq Calls.delete
  BY DEF HandleUndo, Calls
<1>2. /\ worker[w].pc = "delivering" /\ UNCHANGED Table /\ WireOK'
      /\ call.kind = "undo" => ClaimState(w) # "current"
  BY <1>1, Handled DEF Undoings
<1>3. CASE call.kind = "undo" \/ ~OwnsClaim(w)
  <2>1. LeaveOvertaken(w, PartsOf(w)) /\ ClaimState(w) # "current"
    BY <1>2, <1>3, ClaimStateFact DEF HandleUndo
  <2> QED
    BY <1>2, <2>1, LeavesSame
<1>4. CASE ~(call.kind = "undo" \/ ~OwnsClaim(w))
  <2>1. LeaveFailed(w, FALSE) /\ OwnsClaim(w)
    BY <1>4 DEF HandleUndo
  <2> QED
    BY <1>2, <2>1, FailedStretch
<1> QED
  BY <1>2, <1>3, <1>4

(* The undoings of an edit *)
LEMMA Undoing ==
  ASSUME DeliveryInv, NEW w \in Workers, NEW kind \in {"restore", "blank", "retract", "retire"},
         Answered(w, {kind})
  PROVE  /\ worker[w].pc = "delivering" /\ UNCHANGED Table
         /\ unknown' \in 0..MaxUnknown => WireOK'
         /\ Handling(w, {kind}) => WireOK'
         /\ Awaiting(w) /\ ClaimState(w) # "current"
         /\ task[w].call.kind \notin Calls.send \cup {"undo", "undoFailed"}
         /\ task[w].call.msg \in 1..MaxMessages
         /\ LeaveOvertaken(w, PartsOf(w)) => Stretch(w)
         /\ LeaveOvertaken(w, With(w, NoPart)) => Stretch(w)
         /\ LeaveOvertaken(w, With(w, StaleEdit(w))) => Stretch(w)
         /\ LeaveOvertaken(w, With(w, RetiredPart(task[w].call.msg))) => Stretch(w)
         /\ LeaveOvertaken(w, With(w, ActivePart(task[w].call.msg, task[w].call.text))) => Stretch(w)
<1> DEFINE call == task[w].call
<1>1. /\ {kind} \subseteq Calls.edit \cup Calls.delete /\ kind \in Undoings
      /\ kind \notin Calls.send \cup {"undo", "undoFailed"}
  BY DEF Calls, Undoings
<1>2. /\ worker[w].pc = "delivering" /\ Awaiting(w) /\ UNCHANGED Table
      /\ unknown' \in 0..MaxUnknown => WireOK'
      /\ call.kind = kind /\ ClaimState(w) # "current"
      /\ call.msg \in 0..MaxMessages /\ call.msg # 0 /\ call.text \in Texts \cup {Placeholder}
      /\ task[w].at \in Numbers
  BY <1>1, Heard
<1>3. call.msg \in 1..MaxMessages
  BY <1>2, NumbersFact
<1>4. /\ NoPart \in Part /\ StaleEdit(w) \in Part /\ RetiredPart(call.msg) \in Part
      /\ ActivePart(call.msg, call.text) \in Part
  BY <1>2, PartTypes, TerminalFailedPart
<1>5. ASSUME NEW p \in Part, LeaveOvertaken(w, With(w, p)) PROVE Stretch(w)
  BY <1>1, <1>2, <1>5, LeavesWith
<1>6. LeaveOvertaken(w, PartsOf(w)) => Stretch(w)
  BY <1>2, LeavesSame
<1>7. Handling(w, {kind}) => WireOK'
  BY <1>2 DEF Handling, DeliveryInv, WireOK
<1> QED
  BY <1>1, <1>2, <1>3, <1>4, <1>5, <1>6, <1>7

LEMMA RestoreStretch ==
  ASSUME DeliveryInv, NEW w \in Workers, HandleRestore(w)
  PROVE  Stretch(w) /\ UNCHANGED Table /\ WireOK'
<1>1. Handling(w, {"restore"}) /\ Answered(w, {"restore"})
  BY DEF HandleRestore, Handling
<1>2. CASE task[w].call.reply # "ok"
  <2>1. Ask(w, "blank", task[w].call.msg, Placeholder)
    BY <1>2 DEF HandleRestore
  <2> QED
    BY <1>1, <2>1, Undoing, AsksNext DEF Undoings
<1>3. CASE task[w].call.reply = "ok"
  BY <1>1, <1>3, Undoing DEF HandleRestore
<1> QED
  BY <1>2, <1>3

LEMMA BlankStretch ==
  ASSUME DeliveryInv, NEW w \in Workers, HandleBlank(w)
  PROVE  Stretch(w) /\ UNCHANGED Table /\ WireOK'
<1>1. Handling(w, {"blank"}) /\ Answered(w, {"blank"})
  BY DEF HandleBlank, Handling
<1>2. CASE task[w].call.reply = "ok"
  BY <1>1, <1>2, Undoing DEF HandleBlank
<1>3. CASE task[w].call.reply # "ok"
  BY <1>1, <1>3, Undoing DEF HandleBlank
<1> QED
  BY <1>2, <1>3

LEMMA RetractStretch ==
  ASSUME DeliveryInv, NEW w \in Workers, HandleRetract(w)
  PROVE  Stretch(w) /\ UNCHANGED Table /\ WireOK'
<1>1. Answered(w, {"retract"}) /\ unknown' \in 0..MaxUnknown
  BY NumbersFact DEF HandleRetract, DeliveryInv, WireOK
<1>2. CASE task[w].call.reply \in {"ok", "missing"}
  BY <1>1, <1>2, Undoing DEF HandleRetract
<1>3. CASE task[w].call.reply \notin {"ok", "missing"} /\ StaleWithdraw(w)
  <2>1. Ask(w, "retire", task[w].call.msg, Placeholder)
    BY <1>3 DEF HandleRetract
  <2> QED
    BY <1>1, <2>1, Undoing, AsksNext DEF Undoings
<1>4. CASE task[w].call.reply \notin {"ok", "missing"} /\ ~StaleWithdraw(w)
  BY <1>1, <1>4, Undoing DEF HandleRetract
<1> QED
  BY <1>2, <1>3, <1>4

LEMMA RetireStretch ==
  ASSUME DeliveryInv, NEW w \in Workers, HandleRetire(w)
  PROVE  Stretch(w) /\ UNCHANGED Table /\ WireOK'
<1>1. Handling(w, {"retire"}) /\ Answered(w, {"retire"})
  BY DEF HandleRetire, Handling
<1>2. CASE task[w].call.reply # "ok"
  BY <1>1, <1>2, Undoing DEF HandleRetire
<1>3. CASE task[w].call.reply = "ok" /\ StaleWithdraw(w)
  BY <1>1, <1>3, Undoing DEF HandleRetire
<1>4. CASE task[w].call.reply = "ok" /\ ~StaleWithdraw(w)
  BY <1>1, <1>4, Undoing DEF HandleRetire
<1> QED
  BY <1>2, <1>3, <1>4

LEMMA DatabaseFailsStretch ==
  ASSUME DeliveryInv, NEW w \in Workers, DatabaseFails(w)
  PROVE  Stretch(w) /\ UNCHANGED Table /\ WireOK'
<1>1. /\ worker[w].pc = "delivering" /\ OwnsClaim(w) /\ LeaveFailed(w, FALSE)
      /\ unknown < MaxUnknown /\ unknown' = unknown + 1
      /\ UNCHANGED <<untouched, chat, late>>
  BY DEF DatabaseFails
<1>2. unknown' \in 0..MaxUnknown
  BY <1>1, NumbersFact DEF DeliveryInv, WireOK
<1>3. UNCHANGED Table /\ WireOK'
  BY <1>1, <1>2 DEF untouched, Table, DeliveryInv, WireOK
<1> QED
  BY <1>1, <1>3, FailedStretch

(* The coroutine's actions between two awaits, and Telegram's *)
CoroutineStep(w) ==
  \/ NextPart(w) \/ TelegramAccepts(w) \/ TelegramRefuses(w) \/ TelegramTimesOut(w)
  \/ HandleSend(w) \/ HandleEdit(w) \/ HandleDelete(w) \/ HandleNeutralize(w)
  \/ HandleUndo(w) \/ HandleRestore(w) \/ HandleBlank(w) \/ HandleRetract(w)
  \/ HandleRetire(w) \/ DatabaseFails(w)

LEMMA CoroutineStretch ==
  ASSUME DeliveryInv, NEW w \in Workers, CoroutineStep(w)
  PROVE  Stretch(w) /\ UNCHANGED Table /\ WireOK'
BY NextPartStretch, AcceptsStretch, RefusesStretch, TimesOutStretch, SendStretch, EditStretch,
   DeleteStretch, NeutralizeStretch, UndoStretch, RestoreStretch, BlankStretch, RetractStretch,
   RetireStretch, DatabaseFailsStretch DEF CoroutineStep

LEMMA CoroutineInv ==
  ASSUME DeliveryInv, NEW w \in Workers, CoroutineStep(w)
  PROVE  DeliveryInv' /\ [Next]_vars
BY CoroutineStretch, StretchInv, StretchNext


-----------------------------------------------------------------------------
(* The other steps of a worker *)

LEMMA OffStage ==
  ASSUME DeliveryInv, NEW w \in Workers, worker[w].pc # "delivering"
  PROVE  task[w] = NoTask
BY DEF DeliveryInv, Tasked

LEMMA RecordsSame ==
  ASSUME DeliveryInv, UNCHANGED deliveryVars
  PROVE  RecordsOK' /\ WireOK' /\ UNCHANGED <<parts, task>>
BY DEF DeliveryInv, RecordsOK, WireOK, deliveryVars

(* One row changes, with the worker that holds it, and not in what it shows. *)
LEMMA WorkerMoves ==
  ASSUME DeliveryInv, OrderInv', RecordsOK', WireOK', NEW w \in Workers,
         NEW i \in Ids, NEW q, NEW s,
         rows' = [rows EXCEPT ![i] = q], worker' = [worker EXCEPT ![w] = s],
         enabled' = enabled, parts' = parts,
         q.type = rows[i].type, q.messages = rows[i].messages,
         q = rows[i] \/ q.claim \in {w, "none"},
         \A v \in Workers : v # w => task'[v] = task[v],
         AsRead(w)', Tasked(w)'
  PROVE  DeliveryInv'
<1>1. /\ rows \in [Ids -> Row] /\ worker \in [Workers -> WorkerState]
      /\ Mirrored
  BY DEF DeliveryInv, OrderInv, IInv, TypeOK
<1>2. /\ rows'[i] = q /\ \A j \in Ids : j # i => rows'[j] = rows[j]
      /\ \A v \in Workers : v # w => worker'[v] = worker[v]
  BY <1>1
<1>3. Mirrored'
  BY <1>1, <1>2 DEF Mirrored, Exists
<1>4. ASSUME NEW v \in Workers, v # w PROVE AsRead(v)' /\ Tasked(v)'
  <2> DEFINE j == worker[v].id
  <2>1. worker'[v] = worker[v] /\ task'[v] = task[v] /\ j \in Ids /\ rows[j] \in Row
    BY <1>1, <1>2, <1>4, InDelivery
  <2>2. CASE j = i /\ q # rows[i]
    <3>1. ~OwnsClaim(v)'
      BY <1>2, <1>4, <2>1, <2>2, WorkersAssumption DEF OwnsClaim
    <3> QED
      BY <2>1, <3>1, StandsBy
  <2>3. CASE j # i \/ q = rows[i]
    <3>1. rows'[j] = rows[j]
      BY <1>2, <2>1, <2>3
    <3>2. /\ OwnsClaim(v)' = OwnsClaim(v) /\ Carried(rows[j], rows'[j])
          /\ Allowed(rows[j])' = Allowed(rows[j])
      BY <2>1, <3>1, CarriedSame DEF OwnsClaim, Allowed
    <3> QED
      BY <2>1, <3>1, <3>2, StandsBy
  <2> QED
    BY <2>2, <2>3
<1> QED
  BY <1>3, <1>4 DEF DeliveryInv

LEMMA ClaimKeeps ==
  ASSUME DeliveryInv, OrderInv', NEW w \in Workers, DeliveryUnchanged(Claim(w))
  PROVE  DeliveryInv'
<1>1. PICK i \in Ids : /\ worker[w].pc = "idle"
                       /\ rows' = [rows EXCEPT ![i] = Claimed(rows[i], w)]
                       /\ worker' = [worker EXCEPT ![w] = Snapshot(i, "claimed")]
                       /\ Allowed(rows[i])
  BY DEF DeliveryUnchanged, Claim, Eligible
<1> DEFINE r == rows[i]
           q == Claimed(r, w)
           s == Snapshot(i, "claimed")
<1>2. /\ r \in Row /\ rows \in [Ids -> Row] /\ worker \in [Workers -> WorkerState]
      /\ task[w] = NoTask
  BY <1>1, OffStage DEF DeliveryInv, OrderInv, IInv, TypeOK
<1>3. q.type = r.type /\ q.claim = w /\ q.messages = r.messages /\ q.desired \in Nat
  BY <1>2, ClaimKeepsRow DEF Row
<1>4. RecordsOK' /\ WireOK' /\ UNCHANGED <<parts, task>> /\ enabled' = enabled
  BY RecordsSame DEF DeliveryUnchanged, Claim
<1>5. rows'[i] = q /\ worker'[w] = s
  BY <1>1, <1>2
<1>6. /\ s.pc = "claimed" /\ s.id = i /\ s.rev = q.desired /\ s.action = q.action
      /\ s.entity = q.entity
  BY <1>5 DEF Snapshot
<1> HIDE DEF q, s
<1>7. AsRead(w)'
  BY <1>1, <1>3, <1>4, <1>5, <1>6 DEF AsRead, Allowed
<1>8. Tasked(w)'
  BY <1>2, <1>4, <1>5, <1>6 DEF Tasked
<1> QED
  BY <1>1, <1>3, <1>4, <1>7, <1>8, WorkerMoves DEF q, s

(* A worker that keeps what it read, or forgets it *)
LEMMA WorkerGoesOn ==
  ASSUME DeliveryInv, OrderInv', RecordsOK', WireOK', NEW w \in Workers, NEW s,
         rows' = rows, enabled' = enabled, parts' = parts,
         worker' = [worker EXCEPT ![w] = s],
         \A v \in Workers : v # w => task'[v] = task[v],
         s.pc = "idle" \/ /\ worker[w].pc # "idle" /\ s.id = worker[w].id /\ s.rev = worker[w].rev
                          /\ s.action = worker[w].action /\ s.entity = worker[w].entity,
         Tasked(w)'
  PROVE  DeliveryInv'
<1> DEFINE i == worker[w].id
<1>1. /\ rows \in [Ids -> Row] /\ worker \in [Workers -> WorkerState] /\ i \in Ids
      /\ AsRead(w)
  BY InDelivery DEF DeliveryInv, OrderInv, IInv, TypeOK
<1>2. rows' = [rows EXCEPT ![i] = rows[i]] /\ worker'[w] = s
  BY <1>1
<1>3. AsRead(w)'
  BY <1>1, <1>2 DEF AsRead, OwnsClaim, Allowed
<1> QED
  BY <1>1, <1>2, <1>3, WorkerMoves

(* One that fails leaves its row released. *)
LEMMA WorkerFails ==
  ASSUME DeliveryInv, OrderInv', RecordsOK', WireOK', NEW w \in Workers, OwnsClaim(w),
         NEW permanent \in BOOLEAN, NEW wait \in 0..MaxBackoff,
         Settle(w, Failed(w, permanent, wait)), enabled' = enabled, UNCHANGED <<parts, task>>,
         worker[w].pc # "delivering"
  PROVE  DeliveryInv'
<1> DEFINE i == worker[w].id
           q == Failed(w, permanent, wait)
<1>1. /\ worker \in [Workers -> WorkerState] /\ i \in Ids /\ task[w] = NoTask
      /\ Finished(rows[i], q, worker[w].rev)
  BY InDelivery, OffStage, FinishKeeps DEF DeliveryInv, OrderInv, IInv, TypeOK, ClaimedRow
<1>2. rows' = [rows EXCEPT ![i] = q] /\ worker' = [worker EXCEPT ![w] = Idle]
  BY DEF Settle
<1> HIDE DEF q
<1>3. q.type = rows[i].type /\ q.messages = rows[i].messages /\ q.claim = "none"
  BY <1>1 DEF Finished
<1>4. AsRead(w)' /\ Tasked(w)'
  BY <1>1, <1>2 DEF AsRead, Tasked, Idle
<1> QED
  BY <1>1, <1>2, <1>3, <1>4, WorkerMoves

LEMMA PrepareKeeps ==
  ASSUME DeliveryInv, OrderInv', NEW w \in Workers, DeliveryUnchanged(Prepare(w))
  PROVE  DeliveryInv'
<1> DEFINE i == worker[w].id
           r == rows[i]
<1>1. /\ worker[w].pc = "claimed" /\ worker[w] \in WorkerState /\ i \in Ids
      /\ worker \in [Workers -> WorkerState] /\ rows \in [Ids -> Row]
      /\ enabled' = enabled /\ task[w] = NoTask
      /\ RecordsOK' /\ WireOK' /\ UNCHANGED <<parts, task>>
  BY InDelivery, OffStage, RecordsSame
     DEF DeliveryUnchanged, Prepare, DeliveryInv, OrderInv, IInv, TypeOK
<1>2. CASE rows' = rows /\ worker' = [worker EXCEPT ![w] = Idle]
  <2>1. Tasked(w)'
    BY <1>1, <1>2 DEF Tasked, Idle
  <2> QED
    BY <1>1, <1>2, <2>1, WorkerGoesOn, IdleFact
<1>3. CASE rows' = rows /\ worker' = [worker EXCEPT ![w].pc = "prepared"]
  <2> DEFINE s == [worker[w] EXCEPT !.pc = "prepared"]
  <2>1. worker' = [worker EXCEPT ![w] = s] /\ worker'[w] = s
    BY <1>1, <1>3
  <2>2. /\ s.id = worker[w].id /\ s.rev = worker[w].rev /\ s.pc = "prepared"
        /\ s.action = worker[w].action /\ s.entity = worker[w].entity
    BY <1>1 DEF WorkerState
  <2> HIDE DEF s
  <2>3. Tasked(w)'
    BY <1>1, <2>1, <2>2 DEF Tasked
  <2> QED
    BY <1>1, <1>3, <2>1, <2>2, <2>3, WorkerGoesOn
<1>4. CASE /\ OwnsClaim(w) /\ r.desired = worker[w].rev
           /\ rows' = [rows EXCEPT ![i] = Reconciled(r)]
           /\ worker' = [worker EXCEPT ![w] = Snapshot(i, "prepared")]
  <2> DEFINE q == Reconciled(r)
             s == Snapshot(i, "prepared")
  <2>1. r \in Row /\ RowOK(r) /\ Hidden(r, plan) /\ r.claim = w /\ IInv
    BY <1>1, <1>4, OwnerFact DEF DeliveryInv, OrderInv
  <2>2. q \in Row /\ q.type = r.type /\ q.claim = w /\ q.messages = r.messages
    BY <2>1, ReconciledRow
  <2>3. rows'[i] = q /\ worker'[w] = s
    BY <1>1, <1>4
  <2>4. /\ s.pc = "prepared" /\ s.id = i /\ s.rev = q.desired /\ s.action = q.action
        /\ s.entity = q.entity /\ q.desired \in Nat
    BY <2>2, <2>3 DEF Snapshot, Row
  <2>5. Allowed(r)
    BY <1>1, <1>4 DEF DeliveryInv, AsRead
  <2> HIDE DEF q, s
  <2>6. AsRead(w)'
    BY <1>1, <2>2, <2>3, <2>4, <2>5 DEF AsRead, Allowed
  <2>7. Tasked(w)'
    BY <1>1, <2>3, <2>4 DEF Tasked
  <2> QED
    BY <1>1, <1>4, <2>2, <2>6, <2>7, WorkerMoves DEF q, s
<1> QED
  BY <1>2, <1>3, <1>4 DEF DeliveryUnchanged, Prepare


LEMMA BeginKeeps ==
  ASSUME DeliveryInv, OrderInv', NEW w \in Workers, BeginDelivery(w)
  PROVE  DeliveryInv'
<1> DEFINE s == [worker[w] EXCEPT !.pc = "delivering"]
           t == [NoTask EXCEPT !.desired = IF worker[w].action = "publish"
                                         THEN content[worker[w].id] ELSE <<>>,
                               !.stored = PartsOf(w)]
<1>1. /\ worker[w].pc = "prepared" /\ worker[w] \in WorkerState
      /\ worker \in [Workers -> WorkerState] /\ task \in [Workers -> Task]
      /\ parts \in [Ids -> [Numbers -> Part]] /\ PartsOf(w) \in [Numbers -> Part]
      /\ content[worker[w].id] \in Contents /\ task[w] = NoTask
  BY InDelivery, OffStage
     DEF BeginDelivery, StartDelivery, DeliveryInv, RecordsOK, WireOK, OrderInv, IInv, TypeOK
<1>2. /\ rows' = rows /\ enabled' = enabled /\ parts' = parts
      /\ UNCHANGED <<content, chat, late, unknown>>
  BY DEF BeginDelivery, StartDelivery
<1>3. worker' = [worker EXCEPT ![w] = s] /\ worker'[w] = s
  BY <1>1 DEF BeginDelivery, StartDelivery
<1>4. task' = [task EXCEPT ![w] = t] /\ task'[w] = t
  BY <1>1 DEF BeginDelivery, NoTask
<1>5. /\ s.id = worker[w].id /\ s.rev = worker[w].rev /\ s.pc = "delivering"
      /\ s.action = worker[w].action /\ s.entity = worker[w].entity
  BY <1>1 DEF WorkerState
<1>6. /\ t.at = 1 /\ t.call.kind = "none" /\ t.stored = PartsOf(w)
      /\ t.desired = IF worker[w].action = "publish" THEN content[worker[w].id] ELSE <<>>
  BY DEF NoTask, NoCall
<1>7. t \in Task
  BY <1>1, NoTaskOK DEF Task
<1> HIDE DEF s, t
<1>8. worker[w].action = "publish" <=> t.desired # <<>>
  BY <1>1, <1>6, ContentsFact
<1>9. RecordsOK' /\ WireOK'
  BY <1>1, <1>2, <1>4, <1>7 DEF RecordsOK, WireOK, DeliveryInv
<1>10. PartsOf(w)' = PartsOf(w)
  BY <1>2, <1>3, <1>5 DEF PartsOf
<1>11. \A n \in Numbers : ~(n < 1)
  BY NumbersFact
<1>12. Tasked(w)'
  BY <1>3, <1>4, <1>5, <1>6, <1>8, <1>10, <1>11 DEF Tasked, TaskFits
<1> QED
  BY <1>1, <1>2, <1>3, <1>4, <1>5, <1>9, <1>12, WorkerGoesOn

LEMMA LostKeeps ==
  ASSUME DeliveryInv, OrderInv', NEW w \in Workers,
         DeliveryUnchanged(worker[w].pc = "prepared" /\ ClaimLost(w))
  PROVE  DeliveryInv'
<1>1. /\ task[w] = NoTask /\ rows' = rows /\ enabled' = enabled
      /\ worker' = [worker EXCEPT ![w] = Idle] /\ worker \in [Workers -> WorkerState]
      /\ RecordsOK' /\ WireOK' /\ UNCHANGED <<parts, task>>
  BY OffStage, RecordsSame DEF DeliveryUnchanged, ClaimLost, DeliveryInv, OrderInv, IInv, TypeOK
<1>2. Tasked(w)'
  BY <1>1 DEF Tasked, Idle
<1> QED
  BY <1>1, <1>2, IdleFact, WorkerGoesOn

LEMMA FailsKeeps ==
  ASSUME DeliveryInv, OrderInv', NEW w \in Workers,
         DeliveryUnchanged(PreparationFails(w)) \/ DeliveryUnchanged(RenderingFails(w))
  PROVE  DeliveryInv'
<1>1. /\ worker[w].pc \in {"claimed", "prepared"} /\ OwnsClaim(w) /\ enabled' = enabled
      /\ RecordsOK' /\ WireOK' /\ UNCHANGED <<parts, task>>
  BY RecordsSame DEF DeliveryUnchanged, PreparationFails, RenderingFails
<1>2. PICK permanent \in BOOLEAN, wait \in 0..MaxBackoff : Settle(w, Failed(w, permanent, wait))
  BY DEF DeliveryUnchanged, PreparationFails, RenderingFails
<1> QED
  BY <1>1, <1>2, WorkerFails

LEMMA CrashKeeps ==
  ASSUME DeliveryInv, OrderInv', NEW w \in Workers, CrashDelivery(w)
  PROVE  DeliveryInv'
<1>1. /\ rows' = rows /\ enabled' = enabled /\ UNCHANGED <<content, parts, chat>>
      /\ worker' = [worker EXCEPT ![w] = Idle] /\ task' = [task EXCEPT ![w] = NoTask]
  BY DEF CrashDelivery, Crash
<1>2. worker \in [Workers -> WorkerState] /\ task \in [Workers -> Task]
  BY DEF DeliveryInv, RecordsOK, OrderInv, IInv, TypeOK
<1>3. unknown' \in 0..MaxUnknown
  BY NumbersFact DEF CrashDelivery, DeliveryInv, WireOK
<1>4. task[w].call \in Call
  BY InDelivery DEF Task
<1>5. RecordsOK' /\ WireOK'
  BY <1>1, <1>2, <1>3, <1>4, NoTaskOK DEF CrashDelivery, DeliveryInv, RecordsOK, WireOK
<1>6. Tasked(w)'
  BY <1>1, <1>2 DEF Tasked, Idle
<1> QED
  BY <1>1, <1>2, <1>5, <1>6, IdleFact, WorkerGoesOn

-----------------------------------------------------------------------------
(* Steps of others *)

(* Nothing that the workers and the rows show is touched. *)
LEMMA TickKeeps ==
  ASSUME DeliveryInv, OrderInv', DeliveryUnchanged(Tick)
  PROVE  DeliveryInv'
<1>1. /\ rows \in [Ids -> Row] /\ worker' = worker /\ enabled' = enabled
      /\ \A i \in Ids : rows'[i] = Ticked(rows[i])
      /\ RecordsOK' /\ WireOK' /\ UNCHANGED <<parts, task>>
  BY RecordsSame DEF DeliveryUnchanged, Tick, DeliveryInv, OrderInv, IInv, TypeOK
<1>2. ASSUME NEW i \in Ids
      PROVE  /\ Carried(rows[i], rows'[i]) /\ rows'[i].desired = rows[i].desired
             /\ rows'[i].type = rows[i].type /\ rows'[i].messages = rows[i].messages
             /\ rows'[i].claim = rows[i].claim
  <2> DEFINE r == rows[i]
             q == rows'[i]
  <2>1. r \in Row /\ q = Ticked(r)
    BY <1>1
  <2> HIDE DEF r, q
  <2>2. /\ q.type = r.type /\ q.entity = r.entity /\ q.action = r.action
        /\ q.desired = r.desired /\ q.settled = r.settled /\ q.claim = r.claim
        /\ q.messages = r.messages /\ r.settled \in Nat /\ r.desired \in Nat
    BY <2>1, TickedRow DEF Row
  <2> QED
    BY <2>2 DEF Carried, r, q
<1>3. Mirrored'
  BY <1>1, <1>2 DEF DeliveryInv, Mirrored, Exists
<1>4. ASSUME NEW v \in Workers PROVE AsRead(v)' /\ Tasked(v)'
  <2> DEFINE i == worker[v].id
  <2>1. i \in Ids
    BY InDelivery
  <2>2. OwnsClaim(v)' = OwnsClaim(v) /\ Allowed(rows[i])' = Allowed(rows[i])
    BY <1>1, <1>2, <2>1 DEF OwnsClaim, Allowed, Exists
  <2> QED
    BY <1>1, <1>2, <2>1, <2>2, StandsBy
<1> QED
  BY <1>1, <1>3, <1>4 DEF DeliveryInv

(* Telegram and the organizer act on the chat alone. *)
LEMMA ChatKeeps ==
  ASSUME DeliveryInv, LateCall \/ RemovedByHand \/ UNCHANGED allVars
  PROVE  DeliveryInv' /\ UNCHANGED vars
<1>1. UNCHANGED <<vars, content, parts, task, unknown>>
  BY DEF LateCall, RemovedByHand, allVars, vars
<1>2. OrderInv'
  BY <1>1, NextOrder DEF DeliveryInv
<1>3. /\ chat' \in [MessageIds -> Texts \cup {Placeholder, "unsent", "gone", "removed"}]
      /\ late' \subseteq Call
  <2>1. CASE LateCall
    BY <2>1, AppliedType DEF LateCall, DeliveryInv, WireOK
  <2>2. CASE RemovedByHand
    BY <2>2 DEF RemovedByHand, DeliveryInv, WireOK
  <2>3. CASE UNCHANGED allVars
    BY <2>3 DEF allVars, DeliveryInv, WireOK
  <2> QED
    BY <2>1, <2>2, <2>3
<1>4. WireOK' /\ RecordsOK'
  BY <1>1, <1>3 DEF DeliveryInv, WireOK, RecordsOK
<1>5. /\ rows' = rows /\ worker' = worker /\ enabled' = enabled /\ parts' = parts
      /\ task' = task
  BY <1>1 DEF vars
<1>6. Mirrored' /\ \A w \in Workers : AsRead(w)' /\ Tasked(w)'
  BY <1>5 DEF DeliveryInv, Mirrored, AsRead, Tasked, TaskFits, CallOK, Overtaken, OwnsClaim,
              Allowed, PartsOf
<1> QED
  BY <1>1, <1>2, <1>4, <1>6 DEF DeliveryInv


(* Turning the switch off revises every row that it governs. *)
LEMMA SwitchRevises ==
  ASSUME OrderInv, SwissNext \/ MatchNext \/ ContestNext, NEW i \in Ids,
         Exists(rows[i]), rows'[i].type = rows[i].type,
         rows'[i].desired = rows[i].desired, Allowed(rows[i])
  PROVE  Allowed(rows[i])'
<1>1. CASE enabled' = enabled \/ enabled'
  BY <1>1 DEF Allowed
<1>2. CASE SaveMasterSwitch /\ ~enabled'
  <2>1. rows[i] \in Row
    BY DEF OrderInv, IInv, TypeOK
  <2>2. CASE rows[i].type = "leaderboard_snapshot"
    BY <2>2 DEF Allowed
  <2>3. CASE rows[i].type # "leaderboard_snapshot"
    <3>1. rows'[i] = SwitchedOff(rows[i])
      BY <1>2, <2>3 DEF SaveMasterSwitch
    <3>2. rows'[i].desired = rows[i].desired + 1 /\ rows[i].desired \in Nat
      BY <2>1, <3>1, SwitchedOffRow DEF Row
    <3> QED
      BY <3>2
  <2> QED
    BY <2>2, <2>3
<1>3. CASE SwissNext
  BY <1>1, <1>3 DEF SwissNext, SaveSwissSettings, SaveSwissPrediction, SaveSwissResult
<1>4. CASE MatchNext
  BY <1>1, <1>4 DEF MatchNext, CreateMatch, SaveMatchResult, DeleteMatch
<1>5. CASE ContestNext
  BY <1>1, <1>2, <1>5 DEF ContestNext, PublishLeaderboard, CompleteContest, DeleteContest
<1> QED
  BY <1>3, <1>4, <1>5

LEMMA CommandIsNext ==
  ASSUME DeliveryCommand PROVE SwissNext \/ MatchNext \/ ContestNext
BY DEF DeliveryCommand, MatchNext

LEMMA CommandKeeps ==
  ASSUME DeliveryInv, DeliveryCommand
  PROVE  DeliveryInv'
<1>1. /\ SwissNext \/ MatchNext \/ ContestNext
      /\ Cascade /\ UNCHANGED <<chat, task, late, unknown>>
  BY CommandIsNext DEF DeliveryCommand
<1>2. OrderInv /\ OrderInv' /\ Moved
  BY <1>1, CommandsOrder DEF DeliveryInv
<1>3. worker' = worker
  BY <1>1, <1>2, CommandsEffect DEF OrderInv, CommandEffect
<1>4. content' \in [Ids -> Contents]
  BY DEF DeliveryCommand, Rerendered, DeliveryInv, WireOK
<1>5. \A i \in Ids : parts'[i] = IF Exists(rows'[i]) THEN parts[i] ELSE NoParts
  BY <1>1 DEF Cascade
<1>6. RecordsOK' /\ WireOK'
  BY <1>1, <1>4, PartTypes DEF Cascade, DeliveryInv, RecordsOK, WireOK
<1>7. Mirrored'
  <2> SUFFICES ASSUME NEW i \in Ids
               PROVE  rows'[i].messages = Summary(parts'[i])
                      /\ (~Exists(rows'[i]) => parts'[i] = NoParts)
    BY DEF Mirrored
  <2>1. /\ rows[i].messages = Summary(parts[i]) /\ (~Exists(rows[i]) => parts[i] = NoParts)
        /\ Summary(NoParts) = "none"
    BY SummaryNoParts DEF DeliveryInv, Mirrored
  <2>2. CASE Carried(rows[i], rows'[i])
    BY <1>5, <2>1, <2>2 DEF Carried, Exists
  <2>3. CASE ~Exists(rows[i]) /\ Anew(rows'[i])
    BY <1>5, <2>1, <2>3 DEF Anew
  <2>4. CASE rows'[i] = NoRow
    BY <1>5, <2>1, <2>4, NoRowRow DEF Exists
  <2> QED
    BY <1>2, <2>2, <2>3, <2>4 DEF Moved
<1>8. ASSUME NEW v \in Workers PROVE AsRead(v)' /\ Tasked(v)'
  <2> DEFINE i == worker[v].id
  <2>1. i \in Ids /\ worker'[v] = worker[v] /\ task'[v] = task[v]
    BY <1>1, <1>3, InDelivery
  <2>2. ASSUME OwnsClaim(v)'
        PROVE  /\ OwnsClaim(v) /\ Carried(rows[i], rows'[i]) /\ parts'[i] = parts[i]
               /\ rows'[i].desired = rows[i].desired /\ Allowed(rows[i]) => Allowed(rows[i])'
    <3>1. Exists(rows'[i]) /\ rows'[i].claim = v
      BY <2>1, <2>2 DEF OwnsClaim
    <3>2. Carried(rows[i], rows'[i])
      BY <1>2, <2>1, <3>1, NoRowRow, WorkersAssumption DEF Moved, Anew
    <3>3. OwnsClaim(v) /\ Exists(rows[i]) /\ rows'[i].type = rows[i].type
      BY <3>1, <3>2 DEF Carried, OwnsClaim, Exists
    <3> QED
      BY <1>1, <1>2, <1>5, <2>1, <3>1, <3>2, <3>3, SwitchRevises
  <2> QED
    BY <1>2, <2>1, <2>2, StandsBy
<1> QED
  BY <1>2, <1>6, <1>7, <1>8 DEF DeliveryInv

-----------------------------------------------------------------------------
(* The theorems *)

LEMMA DeliveryInitInv == DeliveryInit => DeliveryInv
<1> SUFFICES ASSUME DeliveryInit PROVE DeliveryInv
  OBVIOUS
<1>1. OrderInv
  BY InitOrder DEF DeliveryInit
<1>2. RecordsOK /\ WireOK
  <2>1. RecordsOK
    BY NoTaskOK, PartTypes DEF DeliveryInit, RecordsOK
  <2>2. WireOK
    BY NumbersFact DEF DeliveryInit, WireOK
  <2> QED
    BY <2>1, <2>2
<1>3. Mirrored
  BY SummaryNoParts, NoRowRow DEF DeliveryInit, Init, Mirrored
<1>4. ASSUME NEW w \in Workers PROVE AsRead(w) /\ Tasked(w)
  <2>1. worker[w] = Idle /\ task[w] = NoTask
    BY DEF DeliveryInit, Init
  <2> QED
    BY <2>1 DEF AsRead, Tasked, Idle
<1> QED
  BY <1>1, <1>2, <1>3, <1>4 DEF DeliveryInv

(* Every step preserves the invariant and is a step, or none, of the queue. *)
LEMMA DeliveryNextInv == DeliveryInv /\ [DeliveryNext]_allVars => DeliveryInv' /\ [Next]_vars
<1> SUFFICES ASSUME DeliveryInv, [DeliveryNext]_allVars
             PROVE  DeliveryInv' /\ [Next]_vars
  OBVIOUS
<1>1. [Next]_vars => OrderInv'
  BY NextOrder DEF DeliveryInv
<1>2. CASE DeliveryCommand
  BY <1>2, CommandKeeps, CommandIsNext DEF Next
<1>3. ASSUME NEW w \in Workers, CoroutineStep(w) PROVE DeliveryInv' /\ [Next]_vars
  BY <1>3, CoroutineInv
<1>4. ASSUME NEW w \in Workers, DeliveryUnchanged(Claim(w)) PROVE DeliveryInv' /\ [Next]_vars
  <2>1. [Next]_vars
    BY <1>4 DEF DeliveryUnchanged, Next, WorkerStep
  <2> QED
    BY <1>1, <1>4, <2>1, ClaimKeeps
<1>5. ASSUME NEW w \in Workers, DeliveryUnchanged(Prepare(w)) PROVE DeliveryInv' /\ [Next]_vars
  <2>1. [Next]_vars
    BY <1>5 DEF DeliveryUnchanged, Next, WorkerStep
  <2> QED
    BY <1>1, <1>5, <2>1, PrepareKeeps
<1>6. ASSUME NEW w \in Workers, BeginDelivery(w) PROVE DeliveryInv' /\ [Next]_vars
  <2>1. [Next]_vars
    BY <1>6 DEF BeginDelivery, Next, WorkerStep
  <2> QED
    BY <1>1, <1>6, <2>1, BeginKeeps
<1>7. ASSUME NEW w \in Workers, DeliveryUnchanged(worker[w].pc = "prepared" /\ ClaimLost(w))
      PROVE  DeliveryInv' /\ [Next]_vars
  <2>1. [Next]_vars
    BY <1>7 DEF DeliveryUnchanged, Next, WorkerStep
  <2> QED
    BY <1>1, <1>7, <2>1, LostKeeps
<1>8. ASSUME NEW w \in Workers, CrashDelivery(w) PROVE DeliveryInv' /\ [Next]_vars
  <2>1. [Next]_vars
    BY <1>8 DEF CrashDelivery, Next, WorkerTrouble
  <2> QED
    BY <1>1, <1>8, <2>1, CrashKeeps
<1>9. ASSUME NEW w \in Workers,
             DeliveryUnchanged(PreparationFails(w)) \/ DeliveryUnchanged(RenderingFails(w))
      PROVE  DeliveryInv' /\ [Next]_vars
  <2>1. [Next]_vars
    BY <1>9 DEF DeliveryUnchanged, Next, WorkerTrouble
  <2> QED
    BY <1>1, <1>9, <2>1, FailsKeeps
<1>10. CASE DeliveryUnchanged(Tick)
  <2>1. [Next]_vars
    BY <1>10 DEF DeliveryUnchanged, Next
  <2> QED
    BY <1>1, <1>10, <2>1, TickKeeps
<1>11. CASE LateCall \/ RemovedByHand \/ UNCHANGED allVars
  BY <1>11, ChatKeeps
<1> QED
  BY <1>2, <1>3, <1>4, <1>5, <1>6, <1>7, <1>8, <1>9, <1>10, <1>11
     DEF DeliveryNext, DeliveryStep, DeliveryTrouble, CoroutineStep

LEMMA DeliveryInductive == DeliverySpec => []DeliveryInv
<1>1. DeliveryInit => DeliveryInv
  BY DeliveryInitInv
<1>2. DeliveryInv /\ [DeliveryNext]_allVars => DeliveryInv'
  BY DeliveryNextInv
<1> QED
  BY <1>1, <1>2, PTL DEF DeliverySpec

(* The variables keep their types through every call, answer, undoing and
   command (deliver_publication and its handlers). *)
THEOREM DeliveryTypes == DeliverySpec => []DeliveryTypeOK
<1>1. DeliveryInv => DeliveryTypeOK
  <2> SUFFICES ASSUME DeliveryInv PROVE DeliveryTypeOK
    OBVIOUS
  <2>1. ASSUME NEW w \in Workers
        PROVE  /\ task[w].at \in Nat
               /\ task[w].desired \in Contents \cup {<<>>}
               /\ task[w].stored \in [Numbers -> Part]
               /\ task[w].call.msg \in 0..MaxMessages
    <3>1. task[w] \in Task
      BY DEF DeliveryInv, RecordsOK
    <3> QED
      BY <3>1, NumbersFact DEF Task, Call
  <2> QED
    BY <2>1 DEF DeliveryInv, RecordsOK, WireOK, DeliveryTypeOK
<1> QED
  BY <1>1, DeliveryInductive, PTL

(* The delivery implements the worker of the queue: with its calls, answers and
   undoings hidden, every step of deliver_publication, however commands overtake
   it, is a step of PublicationOutbox or leaves its variables alone. *)
THEOREM DeliveryRefines == DeliverySpec => ImplementsOutbox
<1>1. DeliveryInit => Init
  BY DEF DeliveryInit
<1>2. DeliveryInv /\ [DeliveryNext]_allVars => [Next]_vars
  BY DeliveryNextInv
<1> QED
  BY <1>1, <1>2, DeliveryInductive, PTL DEF DeliverySpec, ImplementsOutbox, Spec


LEMMA StretchRecords ==
  ASSUME DeliveryInv, NEW w \in Workers, Stretch(w), NEW i \in Ids, parts'[i] # parts[i]
  PROVE  Delivering(w, i) /\ task'[w] # task[w]
<1> DEFINE j == worker[w].id
<1>1. /\ worker[w].pc = "delivering" /\ j \in Ids /\ PartsOf(w) = parts[j]
      /\ parts \in [Ids -> [Numbers -> Part]] /\ task \in [Workers -> Task]
  BY InDelivery DEF Stretch, PartsOf, DeliveryInv, RecordsOK
<1>2. ASSUME NEW ps, parts' = [parts EXCEPT ![j] = ps] PROVE i = j /\ ps # PartsOf(w)
  BY <1>1, <1>2
<1>3. CASE Records(w)
  <2>1. PICK t \in Task, ps \in [Numbers -> Part] :
          /\ ps # PartsOf(w) => t # task[w]
          /\ parts' = [parts EXCEPT ![j] = ps]
          /\ task' = [task EXCEPT ![w] = t]
    BY <1>3 DEF Records
  <2>2. OwnsClaim(w)
    BY <1>3, ClaimStateFact DEF Records
  <2> QED
    BY <1>1, <1>2, <2>1, <2>2 DEF OwnsClaim, Delivering
<1>4. CASE Completed(w)
  <2>1. PICK ps \in [Numbers -> Part] :
          /\ Leave(w, Succeeded(w), ps) /\ (ps # PartsOf(w) => Awaiting(w))
          /\ ClaimState(w) \in {"current", "stale"}
    BY <1>4 DEF Completed
  <2>2. parts' = [parts EXCEPT ![j] = ps] /\ task' = [task EXCEPT ![w] = NoTask] /\ OwnsClaim(w)
    BY <2>1, ClaimStateFact DEF Leave
  <2>3. i = j /\ task[w] # NoTask
    BY <1>2, <2>1, <2>2, NoTaskOK DEF Awaiting
  <2> QED
    BY <1>1, <2>2, <2>3 DEF OwnsClaim, Delivering
<1>5. CASE Asks(w)
  BY <1>5 DEF Asks
<1>6. CASE GaveUp(w)
  BY <1>2, <1>6 DEF GaveUp, Leave
<1>7. CASE Lost(w)
  BY <1>7 DEF Lost, LeaveLost
<1> QED
  BY <1>3, <1>4, <1>5, <1>6, <1>7 DEF Stretch

(* What OnlyOwnerRecords says of a step *)
OwnerRecords ==
  \A i \in Ids :
    parts'[i] # parts[i] /\ Exists(rows'[i]) =>
      \E w \in Workers : Delivering(w, i) /\ task'[w] # task[w]

LEMMA NextOwnerRecords == DeliveryInv /\ [DeliveryNext]_allVars => OwnerRecords
<1> SUFFICES ASSUME DeliveryInv, [DeliveryNext]_allVars, NEW i \in Ids,
                    parts'[i] # parts[i], Exists(rows'[i])
             PROVE  \E w \in Workers : Delivering(w, i) /\ task'[w] # task[w]
  BY DEF OwnerRecords
<1>1. ASSUME NEW w \in Workers, CoroutineStep(w)
      PROVE  Delivering(w, i) /\ task'[w] # task[w]
  BY <1>1, CoroutineStretch, StretchRecords
<1>2. CASE DeliveryCommand
  BY <1>2 DEF DeliveryCommand, Cascade
<1>3. CASE UNCHANGED parts
  BY <1>3
<1>4. DeliveryCommand \/ UNCHANGED parts
      \/ \E w \in Workers : CoroutineStep(w)
  BY DEF DeliveryNext, DeliveryStep, DeliveryTrouble, CoroutineStep, DeliveryUnchanged,
         deliveryVars, BeginDelivery, CrashDelivery, LateCall, RemovedByHand, allVars
<1> QED
  BY <1>1, <1>2, <1>3, <1>4

(* Parts of a publication that still exists are recorded by a worker that holds
   its claim, and never twice for one call: with the part recorded the worker
   has moved on (_save_part under the claim, ClaimLostError otherwise). *)
THEOREM OnlyOwnersRecord == DeliverySpec => OnlyOwnerRecords
<1>1. DeliveryInv /\ [DeliveryNext]_allVars => OwnerRecords
  BY NextOwnerRecords
<1> QED
  BY <1>1, DeliveryInductive, PTL DEF DeliverySpec, OnlyOwnerRecords, OwnerRecords

-----------------------------------------------------------------------------
(* What is in the chat: the inductive invariant *)

(* Message m was there and is gone for good. *)
Over(m) == m # 0 /\ chat[m] \in {"gone", "removed"}

Sent(m) == m # 0 => chat[m] # "unsent"

(* A message that a worker read from the database is there still, unless it is
   over. *)
Known(m) == m # 0 => Tracked(m) \/ Over(m)

(* The call is about the message of the part in hand, or about one just sent,
   and what it deleted is over. *)
PartCalls == {"edit", "neutralize", "restore", "blank", "retire", "delete", "retract"}

CallFits(t) ==
  LET c == t.call
      m == t.stored[t.at].msg
  IN  /\ c.kind \in PartCalls => c.msg = m /\ (c.reply = "missing" => Over(m))
      /\ c.kind \in Calls.delete /\ c.reply = "ok" => Over(c.msg)
      /\ c.kind \in Calls.send => /\ m # 0 => Over(m)
                                  /\ IF c.reply = "ok" THEN Sent(c.msg) ELSE c.msg = 0

(* A worker minds the message of its call, unless it failed to take it back. *)
Minds(w, m) ==
  LET c == task[w].call
  IN  /\ Awaiting(w) /\ c.msg = m
      /\ c.kind \in {"undo", "undoFailed"} => c.reply \in {"awaited", "ok"}

Loose == {m \in MessageIds : Visible(m) /\ ~Tracked(m) /\ \A w \in Workers : ~Minds(w, m)}

LateSends == {c \in late : c.kind \in Calls.send}

(* Every loose message, and every one that may still come, is accounted for. *)
Accounted ==
  /\ IsFiniteSet(late)
  /\ Cardinality(Loose) + Cardinality(LateSends) <= unknown

TracksAll ==
  /\ \A i \in Ids, n \in Numbers : Sent(parts[i][n].msg)
  /\ \A w \in Workers, n \in Numbers : Known(task[w].stored[n].msg)
  /\ \A w \in Workers : Awaiting(w) => CallFits(task[w])
  /\ Accounted

TrackInv == DeliveryInv /\ (contest # "deleted" => TracksAll)

-----------------------------------------------------------------------------
(* The account *)

LEMMA LooseFinite == IsFiniteSet(Loose) /\ Cardinality(Loose) \in Nat
<1>1. IsFiniteSet(MessageIds)
  BY NumbersFact, FS_Interval DEF MessageIds
<1> QED
  BY <1>1, FS_Subset, FS_CardinalityType DEF Loose

LEMMA LateFinite == Accounted => IsFiniteSet(LateSends) /\ Cardinality(LateSends) \in Nat
BY FS_Subset, FS_CardinalityType DEF Accounted, LateSends

LEMMA OneMore ==
  ASSUME NEW S, IsFiniteSet(S), NEW x
  PROVE  /\ IsFiniteSet(S \cup {x}) /\ Cardinality(S) \in Nat
         /\ Cardinality(S \cup {x}) \in Nat /\ Cardinality(S \cup {x}) <= Cardinality(S) + 1
<1>1. IsFiniteSet(S \cup {x}) /\ Cardinality(S) \in Nat /\ Cardinality(S \cup {x}) \in Nat
  BY FS_AddElement, FS_CardinalityType
<1>2. Cardinality(S \cup {x}) = Cardinality(S) \/ Cardinality(S \cup {x}) = Cardinality(S) + 1
  BY FS_AddElement
<1> QED
  BY <1>1, <1>2

(* Nothing new, *)
LEMMA AccountSame ==
  ASSUME Accounted, unknown \in Nat, unknown' \in Nat, IsFiniteSet(late'),
         Loose' \subseteq Loose, LateSends' \subseteq LateSends, unknown' >= unknown
  PROVE  Accounted'
<1>1. /\ Cardinality(Loose') <= Cardinality(Loose)
      /\ Cardinality(Loose') \in Nat /\ Cardinality(Loose) \in Nat
  BY LooseFinite, FS_Subset, FS_CardinalityType
<1>2. /\ Cardinality(LateSends') <= Cardinality(LateSends)
      /\ Cardinality(LateSends') \in Nat /\ Cardinality(LateSends) \in Nat
  BY LateFinite, FS_Subset, FS_CardinalityType
<1> QED
  BY <1>1, <1>2 DEF Accounted

(* or something that is counted: a message, *)
LEMMA AccountMessage ==
  ASSUME Accounted, unknown \in Nat, IsFiniteSet(late'), NEW m,
         Loose' \subseteq Loose \cup {m}, LateSends' \subseteq LateSends, unknown' = unknown + 1
  PROVE  Accounted'
<1>1. /\ Cardinality(Loose \cup {m}) <= Cardinality(Loose) + 1
      /\ IsFiniteSet(Loose \cup {m}) /\ Cardinality(Loose \cup {m}) \in Nat
      /\ Cardinality(Loose) \in Nat
  BY LooseFinite, OneMore
<1>2. Cardinality(Loose') <= Cardinality(Loose \cup {m}) /\ Cardinality(Loose') \in Nat
  BY <1>1, FS_Subset, FS_CardinalityType
<1>3. /\ Cardinality(LateSends') <= Cardinality(LateSends)
      /\ Cardinality(LateSends') \in Nat /\ Cardinality(LateSends) \in Nat
  BY LateFinite, FS_Subset, FS_CardinalityType
<1> QED
  BY <1>1, <1>2, <1>3 DEF Accounted

(* a call to come, *)
LEMMA AccountCall ==
  ASSUME Accounted, unknown \in Nat, IsFiniteSet(late'), NEW c,
         Loose' \subseteq Loose, LateSends' \subseteq LateSends \cup {c}, unknown' = unknown + 1
  PROVE  Accounted'
<1>1. /\ Cardinality(LateSends \cup {c}) <= Cardinality(LateSends) + 1
      /\ IsFiniteSet(LateSends \cup {c}) /\ Cardinality(LateSends \cup {c}) \in Nat
      /\ Cardinality(LateSends) \in Nat
  BY LateFinite, OneMore
<1>2. /\ Cardinality(LateSends') <= Cardinality(LateSends \cup {c})
      /\ Cardinality(LateSends') \in Nat
  BY <1>1, FS_Subset, FS_CardinalityType
<1>3. /\ Cardinality(Loose') <= Cardinality(Loose)
      /\ Cardinality(Loose') \in Nat /\ Cardinality(Loose) \in Nat
  BY LooseFinite, FS_Subset, FS_CardinalityType
<1> QED
  BY <1>1, <1>2, <1>3 DEF Accounted

(* or a message instead of the call. *)
LEMMA AccountLate ==
  ASSUME Accounted, unknown \in Nat, IsFiniteSet(late'), NEW c \in LateSends, NEW m,
         Loose' \subseteq Loose \cup {m}, LateSends' = LateSends \ {c}, unknown' = unknown
  PROVE  Accounted'
<1>1. /\ Cardinality(Loose \cup {m}) <= Cardinality(Loose) + 1
      /\ IsFiniteSet(Loose \cup {m}) /\ Cardinality(Loose \cup {m}) \in Nat
      /\ Cardinality(Loose) \in Nat
  BY LooseFinite, OneMore
<1>2. Cardinality(Loose') <= Cardinality(Loose \cup {m}) /\ Cardinality(Loose') \in Nat
  BY <1>1, FS_Subset, FS_CardinalityType
<1>3. /\ Cardinality(LateSends') = Cardinality(LateSends) - 1
      /\ Cardinality(LateSends) \in Nat
  BY LateFinite, FS_RemoveElement
<1> QED
  BY <1>1, <1>2, <1>3 DEF Accounted

-----------------------------------------------------------------------------
(* A stretch of a coroutine, as far as messages go: how it ends, *)

Ends(w) == task' = [task EXCEPT ![w] = NoTask]
Passes(w) == task' = [task EXCEPT ![w].at = @ + 1, ![w].call = NoCall]
AsksFor(w, kind, msg) == \E text : task' = Asked(w, kind, msg, text)

(* and what it records. *)
Puts(w, p) == OwnsClaim(w) /\ parts' = [parts EXCEPT ![worker[w].id] = With(w, p)]

LEMMA Endings ==
  ASSUME DeliveryInv, NEW w \in Workers
  PROVE  /\ LeaveOvertaken(w, PartsOf(w)) => Ends(w) /\ parts' = parts
         /\ \A p : LeaveOvertaken(w, With(w, p)) => Ends(w) /\ (parts' = parts \/ Puts(w, p))
         /\ \A permanent : LeaveFailed(w, permanent) => Ends(w) /\ parts' = parts
         /\ \A p : PartDone(w, With(w, p)) /\ OwnsClaim(w) => Passes(w) /\ Puts(w, p)
         /\ \A kind, msg, text :
              Ask(w, kind, msg, text) => AsksFor(w, kind, msg) /\ parts' = parts
         /\ \A kind, msg, text :
              AskRenewed(w, kind, task[w].at, msg, text) =>
                parts' = parts /\ (Ends(w) \/ AsksFor(w, kind, msg))
<1> DEFINE i == worker[w].id
<1>1. /\ parts \in [Ids -> [Numbers -> Part]] /\ i \in Ids
      /\ task \in [Workers -> Task]
  BY InDelivery DEF DeliveryInv, RecordsOK
<1>2. [parts EXCEPT ![i] = PartsOf(w)] = parts
  BY <1>1 DEF PartsOf
<1>3. LeaveOvertaken(w, PartsOf(w)) => Ends(w) /\ parts' = parts
  BY <1>2 DEF LeaveOvertaken, Leave, LeaveLost, Ends
<1>4. ASSUME NEW p, LeaveOvertaken(w, With(w, p))
      PROVE  Ends(w) /\ (parts' = parts \/ Puts(w, p))
  BY <1>4 DEF LeaveOvertaken, Leave, LeaveLost, Ends, Puts
<1>5. ASSUME NEW permanent, LeaveFailed(w, permanent) PROVE Ends(w) /\ parts' = parts
  BY <1>2, <1>5 DEF LeaveFailed, Leave, Ends
<1>6. ASSUME NEW p, PartDone(w, With(w, p)), OwnsClaim(w) PROVE Passes(w) /\ Puts(w, p)
  BY <1>6 DEF PartDone, Passes, Puts
<1>7. ASSUME NEW kind, NEW msg, NEW text, Ask(w, kind, msg, text)
      PROVE  AsksFor(w, kind, msg) /\ parts' = parts
  BY <1>7 DEF Ask, AsksFor
<1>8. ASSUME NEW kind, NEW msg, NEW text, AskRenewed(w, kind, task[w].at, msg, text)
      PROVE  parts' = parts /\ (Ends(w) \/ AsksFor(w, kind, msg))
  <2>1. CASE ClaimState(w) = "current"
    <3>1. task' = [Asked(w, kind, msg, text) EXCEPT ![w].at = task[w].at] /\ parts' = parts
      BY <1>8, <2>1 DEF AskRenewed
    <3>2. Asked(w, kind, msg, text)[w].at = task[w].at
          /\ Asked(w, kind, msg, text) \in [Workers -> [at : 1..(MaxParts + 1),
               desired : Contents \cup {<<>>}, stored : [Numbers -> Part],
               call : {[kind |-> kind, msg |-> msg, text |-> text, reply |-> "awaited"]} \cup Call]]
      BY <1>1 DEF Asked, Task
    <3>3. task' = Asked(w, kind, msg, text)
      BY <3>1, <3>2
    <3> QED
      BY <3>1, <3>3 DEF AsksFor
  <2>2. CASE ClaimState(w) # "current"
    BY <1>3, <1>8, <2>2 DEF AskRenewed
  <2> QED
    BY <2>1, <2>2
<1> QED
  BY <1>3, <1>4, <1>5, <1>6, <1>7, <1>8

(* The message recorded is the one in hand, which was recorded before or is
   recorded now; none is recorded for one that is over. *)
PutFits(w, p) ==
  LET c == task[w].call
  IN  \/ c.kind \in PartCalls /\ (p.msg = c.msg \/ (p.msg = 0 /\ Over(c.msg)))
      \/ c.kind \in Calls.send /\ c.reply = "ok" /\ p.msg = c.msg

(* The next call is about the same message, or a new one for one that is over. *)
AskFits(w, kind, msg) ==
  LET c == task[w].call
  IN  \/ kind \in PartCalls /\ c.kind \in PartCalls /\ msg = c.msg
      \/ kind \in {"undo", "undoFailed"}
      \/ kind = "resend" /\ msg = 0 /\ c.kind \in PartCalls /\ Over(c.msg)

Turn(w) ==
  /\ parts' = parts \/ \E p \in Part : Puts(w, p) /\ PutFits(w, p)
  /\ Ends(w) \/ Passes(w) \/ \E kind, msg : AsksFor(w, kind, msg) /\ AskFits(w, kind, msg)

(* What is recorded keeps what may still be seen. *)
LEMMA PutTracks ==
  ASSUME DeliveryInv, TracksAll, NEW w \in Workers, worker[w].pc = "delivering", Awaiting(w),
         NEW p \in Part, Puts(w, p), PutFits(w, p)
  PROVE  /\ \A i \in Ids, n \in Numbers : Sent(parts'[i][n].msg)
         /\ \A m : Tracked(m) /\ m # 0 => Tracked(m)' \/ Over(m)
         /\ Tracked(p.msg)'
<1> DEFINE j == worker[w].id
           k == task[w].at
           m0 == task[w].stored[k].msg
<1>1. /\ parts \in [Ids -> [Numbers -> Part]] /\ j \in Ids /\ k \in Numbers
      /\ PartsOf(w)[k] = task[w].stored[k] /\ PartsOf(w) = parts[j]
  BY InDelivery, InCall DEF DeliveryInv, RecordsOK, PartsOf, Puts
<1>2. /\ parts' = [parts EXCEPT ![j] = With(w, p)]
      /\ With(w, p)[k] = p /\ \A n \in Numbers : n # k => With(w, p)[n] = parts[j][n]
  BY <1>1, WithPart DEF Puts
<1>3. /\ parts'[j][k] = p /\ parts[j][k].msg = m0
      /\ \A i \in Ids, n \in Numbers : i # j \/ n # k => parts'[i][n] = parts[i][n]
  BY <1>1, <1>2
<1>4. /\ CallFits(task[w]) /\ \A i \in Ids, n \in Numbers : Sent(parts[i][n].msg)
  BY DEF TracksAll
<1>5. Sent(p.msg) /\ (m0 # 0 => p.msg = m0 \/ Over(m0))
  <2>1. CASE task[w].call.kind \in PartCalls
    <3>1. task[w].call.msg = m0
      BY <1>4, <2>1 DEF CallFits
    <3>2. task[w].call.kind \notin Calls.send
      BY <2>1 DEF PartCalls, Calls
    <3> QED
      BY <1>1, <1>3, <1>4, <3>1, <3>2 DEF PutFits, Sent
  <2>2. CASE task[w].call.kind \notin PartCalls
    BY <1>4, <2>2 DEF PutFits, CallFits
  <2> QED
    BY <2>1, <2>2
<1>6. ASSUME NEW m, Tracked(m), m # 0 PROVE Tracked(m)' \/ Over(m)
  BY <1>1, <1>3, <1>5, <1>6 DEF Tracked
<1>7. Tracked(p.msg)'
  BY <1>1, <1>3 DEF Tracked
<1>8. \A i \in Ids, n \in Numbers : Sent(parts'[i][n].msg)
  BY <1>3, <1>4, <1>5
<1> QED
  BY <1>6, <1>7, <1>8


(* Nothing becomes loose but among these. *)
LEMMA LooseFrom ==
  ASSUME NEW S,
         \A m \in MessageIds : Visible(m)' /\ m \notin S =>
           /\ Visible(m) /\ (Tracked(m) => Tracked(m)')
           /\ \A v \in Workers : Minds(v, m) => Minds(v, m)'
  PROVE  Loose' \subseteq Loose \cup S
BY DEF Loose

(* After a turn every message known is known, and none is loose but, perhaps,
   the one of the call. *)
LEMMA TurnTracks ==
  ASSUME DeliveryInv, TracksAll, NEW w \in Workers, worker[w].pc = "delivering", Awaiting(w),
         chat' = chat, Turn(w), NEW m0, m0 = task[w].call.msg
  PROVE  /\ \A i \in Ids, n \in Numbers : Sent(parts[i][n].msg)'
         /\ \A v \in Workers, n \in Numbers : Known(task[v].stored[n].msg)'
         /\ \A v \in Workers : Awaiting(v)' => CallFits(task[v])'
         /\ Loose' \subseteq Loose \cup {m0}
         /\ task[w].call.kind \in PartCalls => Loose' \subseteq Loose
<1> DEFINE c == task[w].call
           k == task[w].at
<1>1. /\ task \in [Workers -> Task] /\ k \in Numbers /\ CallFits(task[w])
      /\ \A v \in Workers : task[v] \in Task
  BY InCall DEF DeliveryInv, RecordsOK, TracksAll
<1>2. /\ \A i \in Ids, n \in Numbers : Sent(parts'[i][n].msg)
      /\ \A m : Tracked(m) /\ m # 0 => Tracked(m)' \/ Over(m)
  <2>1. CASE parts' = parts
    BY <2>1 DEF TracksAll, Tracked
  <2>2. CASE \E p \in Part : Puts(w, p) /\ PutFits(w, p)
    BY <2>2, PutTracks
  <2> QED
    BY <2>1, <2>2 DEF Turn
<1>3. \A m : (Over(m)' <=> Over(m)) /\ (Sent(m)' <=> Sent(m)) /\ (Visible(m)' <=> Visible(m))
  BY DEF Over, Sent, Visible
<1>4. /\ \A v \in Workers : v # w => task'[v] = task[v]
      /\ \/ task'[w] = NoTask
         \/ task'[w].stored = task[w].stored /\ task'[w].call = NoCall
         \/ \E kind, msg, text :
              /\ AskFits(w, kind, msg) /\ task'[w].at = k /\ task'[w].stored = task[w].stored
              /\ task'[w].call = [kind |-> kind, msg |-> msg, text |-> text, reply |-> "awaited"]
  <2>1. CASE Ends(w)
    BY <1>1, <2>1 DEF Ends
  <2>2. CASE Passes(w)
    BY <1>1, <2>2 DEF Passes, Task
  <2>3. CASE \E kind, msg : AsksFor(w, kind, msg) /\ AskFits(w, kind, msg)
    <3>1. PICK kind, msg, text : task' = Asked(w, kind, msg, text) /\ AskFits(w, kind, msg)
      BY <2>3 DEF AsksFor
    <3> QED
      BY <1>1, <3>1 DEF Asked, Task
  <2> QED
    BY <2>1, <2>2, <2>3 DEF Turn
<1>5. ASSUME NEW v \in Workers, NEW n \in Numbers PROVE Known(task[v].stored[n].msg)'
  <2>1. task'[v] = NoTask \/ task'[v].stored = task[v].stored
    BY <1>4
  <2>2. Known(task[v].stored[n].msg)
    BY DEF TracksAll
  <2>3. NoTask.stored[n].msg = 0
    BY DEF NoTask, NoParts, NoPart
  <2>4. CASE task'[v] = NoTask
    BY <2>3, <2>4 DEF Known
  <2>5. CASE task'[v].stored = task[v].stored
    BY <1>2, <1>3, <2>2, <2>5 DEF Known
  <2> QED
    BY <2>1, <2>4, <2>5
<1>6. ASSUME NEW v \in Workers, Awaiting(v)' PROVE CallFits(task[v])'
  <2>1. CASE v # w
    BY <1>3, <1>4, <1>6, <2>1 DEF CallFits, TracksAll, Awaiting
  <2>2. CASE v = w
    <3>0. task'[w] # NoTask /\ task'[w].call # NoCall
      BY <1>6, <2>2, NoTaskOK DEF Awaiting, NoCall
    <3>1. PICK kind, msg, text :
              /\ AskFits(w, kind, msg) /\ task'[w].at = k /\ task'[w].stored = task[w].stored
              /\ task'[w].call = [kind |-> kind, msg |-> msg, text |-> text, reply |-> "awaited"]
      BY <1>4, <3>0, Zenon
    <3>2. /\ task'[w].call.kind = kind /\ task'[w].call.msg = msg
          /\ task'[w].call.reply = "awaited"
      BY <3>1
    <3>3. c.kind \in PartCalls => c.msg = task[w].stored[k].msg
      BY <1>1 DEF CallFits
    <3>4. /\ kind \in PartCalls => msg = task[w].stored[k].msg
          /\ kind \in Calls.send => msg = 0 /\ Over(task[w].stored[k].msg)
      BY <3>1, <3>3 DEF AskFits, PartCalls, Calls
    <3> QED
      BY <1>3, <2>2, <3>1, <3>2, <3>4 DEF CallFits
  <2> QED
    BY <2>1, <2>2
<1>7. MessageIds \subseteq Nat \ {0} /\ \A m : Visible(m) => ~Over(m)
  BY NumbersFact DEF Visible, Over
<1>8. \A v \in Workers, m \in MessageIds : v # w => (Minds(v, m) <=> Minds(v, m)')
  BY <1>4 DEF Minds, Awaiting
<1>9. \A m : Minds(w, m) => m = m0
  BY DEF Minds
<1>10. Loose' \subseteq Loose \cup {m0}
  <2>1. ASSUME NEW m \in MessageIds, Visible(m)', m \notin {m0}
        PROVE  /\ Visible(m) /\ (Tracked(m) => Tracked(m)')
               /\ \A v \in Workers : Minds(v, m) => Minds(v, m)'
    <3>1. Visible(m) /\ m # 0 /\ ~Over(m)
      BY <1>3, <1>7, <2>1
    <3>2. Tracked(m) => Tracked(m)'
      BY <1>2, <3>1
    <3>3. ASSUME NEW v \in Workers, Minds(v, m) PROVE Minds(v, m)'
      BY <1>8, <1>9, <2>1, <3>3
    <3> QED
      BY <3>1, <3>2, <3>3
  <2> QED
    BY <2>1, LooseFrom
<1>11. ASSUME c.kind \in PartCalls PROVE m0 \notin Loose'
  <2>1. Known(m0)
    BY <1>1, <1>11 DEF CallFits, TracksAll
  <2> QED
    BY <1>2, <1>3, <1>7, <2>1 DEF Known, Loose
<1>12. \A i \in Ids, n \in Numbers : Sent(parts[i][n].msg)'
  BY <1>2 DEF Sent
<1> QED
  BY <1>5, <1>6, <1>10, <1>11, <1>12


LEMMA TurnKeeps ==
  ASSUME DeliveryInv, TracksAll, NEW w \in Workers, worker[w].pc = "delivering", Awaiting(w),
         chat' = chat, late' = late, Turn(w), unknown \in Nat, unknown' \in Nat, unknown' >= unknown,
         NEW m0, m0 = task[w].call.msg,
         \/ task[w].call.kind \in PartCalls
         \/ m0 = 0 \/ Over(m0)
         \/ Tracked(m0)' \/ Minds(w, m0)'
         \/ parts' = parts /\ ~Minds(w, m0)
  PROVE  TracksAll'
<1>1. /\ \A i \in Ids, n \in Numbers : Sent(parts[i][n].msg)'
      /\ \A v \in Workers, n \in Numbers : Known(task[v].stored[n].msg)'
      /\ \A v \in Workers : Awaiting(v)' => CallFits(task[v])'
      /\ Loose' \subseteq Loose \cup {m0}
      /\ task[w].call.kind \in PartCalls => Loose' \subseteq Loose
  BY TurnTracks
<1>2. m0 \in Loose' => task[w].call.kind \in PartCalls \/ m0 \in Loose
  <2> SUFFICES ASSUME m0 \in Loose', task[w].call.kind \notin PartCalls PROVE m0 \in Loose
    OBVIOUS
  <2>1. m0 \in MessageIds /\ m0 # 0 /\ Visible(m0) /\ ~Tracked(m0)' /\ ~Minds(w, m0)'
    BY NumbersFact DEF Loose, Visible
  <2>2. ~Over(m0)
    BY <2>1 DEF Visible, Over
  <2>3. parts' = parts /\ ~Minds(w, m0)
    BY <2>1, <2>2
  <2>4. ~Tracked(m0)
    BY <2>1, <2>3 DEF Tracked
  <2>5. \A v \in Workers : v # w => task'[v] = task[v]
    BY DEF Turn, Ends, Passes, AsksFor, Asked, DeliveryInv, RecordsOK
  <2>6. ASSUME NEW v \in Workers PROVE ~Minds(v, m0)
    <3>1. ~Minds(v, m0)'
      BY DEF Loose
    <3> QED
      BY <2>3, <2>5, <3>1 DEF Minds, Awaiting
  <2> QED
    BY <2>1, <2>4, <2>6 DEF Loose
<1>3. Loose' \subseteq Loose
  BY <1>1, <1>2
<1>4. LateSends' \subseteq LateSends /\ IsFiniteSet(late') /\ Accounted
  BY DEF LateSends, TracksAll, Accounted
<1>5. Accounted'
  BY <1>3, <1>4, AccountSame
<1> QED
  BY <1>1, <1>5 DEF TracksAll

(* How the answer to a call about the part in hand is dealt with *)
LEMMA PartTurns ==
  ASSUME DeliveryInv, TracksAll, NEW w \in Workers, worker[w].pc = "delivering", Awaiting(w),
         task[w].call.kind \in PartCalls
  PROVE  /\ LeaveOvertaken(w, PartsOf(w)) => Turn(w)
         /\ LeaveLost(w) => Turn(w)
         /\ \A permanent : LeaveFailed(w, permanent) => Turn(w)
         /\ \A kind, msg, text :
              /\ \/ kind \in PartCalls /\ msg = task[w].call.msg
                 \/ kind = "resend" /\ msg = 0 /\ Over(task[w].call.msg)
              /\ Ask(w, kind, msg, text) \/ AskRenewed(w, kind, task[w].at, msg, text)
              => Turn(w)
         /\ \A p \in Part :
              /\ LeaveOvertaken(w, With(w, p)) \/ (PartDone(w, With(w, p)) /\ OwnsClaim(w))
              /\ OwnsClaim(w) => PutFits(w, p)
              => Turn(w)
         /\ OwnsClaim(w) => /\ PutFits(w, StaleEdit(w)) /\ PutFits(w, TerminalFailed(w))
                            /\ \A text : PutFits(w, ActivePart(task[w].call.msg, text))
                            /\ PutFits(w, RetiredPart(task[w].call.msg))
                            /\ Over(task[w].call.msg) => PutFits(w, NoPart)
<1> DEFINE call == task[w].call
<1>1. /\ LeaveOvertaken(w, PartsOf(w)) => Turn(w)
      /\ \A permanent : LeaveFailed(w, permanent) => Turn(w)
  BY Endings DEF Turn
<1>2. LeaveLost(w) => Turn(w)
  BY DEF LeaveLost, Turn, Ends
<1>3. ASSUME NEW kind, NEW msg, NEW text,
             \/ kind \in PartCalls /\ msg = call.msg
             \/ kind = "resend" /\ msg = 0 /\ Over(call.msg),
             Ask(w, kind, msg, text) \/ AskRenewed(w, kind, task[w].at, msg, text)
      PROVE  Turn(w)
  <2>1. AskFits(w, kind, msg)
    BY <1>3 DEF AskFits
  <2>2. parts' = parts /\ (Ends(w) \/ AsksFor(w, kind, msg))
    BY <1>3, Endings
  <2> QED
    BY <2>1, <2>2 DEF Turn
<1>4. ASSUME NEW p \in Part,
             LeaveOvertaken(w, With(w, p)) \/ (PartDone(w, With(w, p)) /\ OwnsClaim(w)),
             OwnsClaim(w) => PutFits(w, p)
      PROVE  Turn(w)
  <2>1. /\ Ends(w) \/ Passes(w)
        /\ parts' = parts \/ Puts(w, p)
    BY <1>4, Endings
  <2>2. Puts(w, p) => PutFits(w, p)
    BY <1>4 DEF Puts
  <2> QED
    BY <2>1, <2>2 DEF Turn
<1>5. ASSUME OwnsClaim(w)
      PROVE  /\ PutFits(w, StaleEdit(w)) /\ PutFits(w, TerminalFailed(w))
             /\ \A text : PutFits(w, ActivePart(call.msg, text))
             /\ PutFits(w, RetiredPart(call.msg))
             /\ Over(call.msg) => PutFits(w, NoPart)
  <2>1. PartsOf(w)[task[w].at] = task[w].stored[task[w].at] /\ PartsOf(w)[task[w].at] \in Part
    BY <1>5, InCall, InDelivery
  <2>2. call.msg = task[w].stored[task[w].at].msg
    BY DEF TracksAll, CallFits
  <2>3. StaleEdit(w).msg = call.msg /\ TerminalFailed(w).msg = call.msg
    BY <2>1, <2>2 DEF StaleEdit, TerminalFailed, Part
  <2>4. /\ \A text : ActivePart(call.msg, text).msg = call.msg
        /\ RetiredPart(call.msg).msg = call.msg /\ NoPart.msg = 0
    BY DEF ActivePart, RetiredPart, NoPart
  <2> QED
    BY <2>3, <2>4 DEF PutFits
<1> QED
  BY <1>1, <1>2, <1>3, <1>4, <1>5


(* What an answer about a part is known to mean *)
LEMMA PartHeard ==
  ASSUME DeliveryInv, TracksAll, NEW w \in Workers, NEW kind \in PartCalls, Answered(w, {kind})
  PROVE  /\ worker[w].pc = "delivering" /\ Awaiting(w) /\ chat' = chat /\ late' = late
         /\ task[w].call.kind = kind
         /\ NoPart \in Part /\ StaleEdit(w) \in Part /\ TerminalFailed(w) \in Part
         /\ RetiredPart(task[w].call.msg) \in Part
         /\ ActivePart(task[w].call.msg, task[w].call.text) \in Part
         /\ task[w].call.reply = "missing" => Over(task[w].call.msg)
         /\ kind \in {"delete", "retract"} /\ task[w].call.reply = "ok" => Over(task[w].call.msg)
<1>1. {kind} \subseteq Calls.send \cup Calls.edit \cup Calls.delete
  BY DEF PartCalls, Calls
<1>2. /\ worker[w].pc = "delivering" /\ Awaiting(w) /\ task[w].call.kind = kind
      /\ task[w].call.msg \in 0..MaxMessages /\ task[w].call.text \in Texts \cup {Placeholder}
      /\ task[w].at \in Numbers
  BY <1>1, Heard
<1>3. CallFits(task[w])
  BY <1>2 DEF TracksAll
<1>4. task[w].call.reply = "missing" => Over(task[w].call.msg)
  BY <1>2, <1>3 DEF CallFits
<1>5. kind \in {"delete", "retract"} /\ task[w].call.reply = "ok" => Over(task[w].call.msg)
  BY <1>2, <1>3 DEF CallFits, Calls
<1>6. chat' = chat /\ late' = late
  BY DEF Answered
<1> QED
  BY <1>2, <1>4, <1>5, <1>6, PartTypes, TerminalFailedPart

LEMMA UndoEditTurn ==
  ASSUME DeliveryInv, TracksAll, NEW w \in Workers, NEW kind \in PartCalls, Answered(w, {kind}),
         UndoEdit(w)
  PROVE  Turn(w)
<1> DEFINE call == task[w].call
<1>1. /\ worker[w].pc = "delivering" /\ Awaiting(w) /\ call.kind \in PartCalls
      /\ StaleEdit(w) \in Part
  BY PartHeard
<1>2. "restore" \in PartCalls /\ "retract" \in PartCalls
  BY DEF PartCalls
<1>3. CASE ~OwnsClaim(w)
  BY <1>1, <1>3, PartTurns DEF UndoEdit
<1>4. CASE OwnsClaim(w) /\ ~Allowed(ClaimedRow(w))
  BY <1>1, <1>2, <1>4, PartTurns DEF UndoEdit
<1>5. CASE OwnsClaim(w) /\ Allowed(ClaimedRow(w)) /\ ClaimedRow(w).action = "withdraw"
  BY <1>1, <1>2, <1>5, PartTurns DEF UndoEdit
<1>6. CASE OwnsClaim(w) /\ Allowed(ClaimedRow(w)) /\ ClaimedRow(w).action # "withdraw"
  <2>1. LeaveOvertaken(w, With(w, StaleEdit(w)))
    BY <1>6 DEF UndoEdit, LeaveOvertaken
  <2> QED
    BY <1>1, <1>6, <2>1, PartTurns
<1> QED
  BY <1>3, <1>4, <1>5, <1>6

LEMMA EditTurn ==
  ASSUME DeliveryInv, TracksAll, NEW w \in Workers, HandleEdit(w)
  PROVE  Turn(w)
<1> DEFINE call == task[w].call
<1>1. "edit" \in PartCalls /\ Answered(w, {"edit"})
  BY DEF PartCalls, HandleEdit, Handling
<1>2. /\ worker[w].pc = "delivering" /\ Awaiting(w) /\ call.kind \in PartCalls
      /\ ActivePart(call.msg, call.text) \in Part /\ (call.reply = "missing" => Over(call.msg))
  BY <1>1, PartHeard
<1>3. CASE ClaimState(w) # "current"
  BY <1>1, <1>3, UndoEditTurn DEF HandleEdit
<1>4. CASE ClaimState(w) = "current" /\ call.reply = "ok"
  <2>1. PartDone(w, With(w, ActivePart(call.msg, call.text))) /\ OwnsClaim(w)
    BY <1>4, ClaimStateFact DEF HandleEdit
  <2> QED
    BY <1>2, <2>1, PartTurns
<1>5. CASE ClaimState(w) = "current" /\ call.reply = "missing"
  <2>1. AskRenewed(w, "resend", task[w].at, 0, call.text)
    BY <1>5 DEF HandleEdit
  <2> QED
    BY <1>2, <1>5, <2>1, PartTurns
<1>6. CASE ClaimState(w) = "current" /\ call.reply \notin {"ok", "missing"}
  <2>1. LeaveFailed(w, call.reply = "bad")
    BY <1>6 DEF HandleEdit
  <2> QED
    BY <1>2, <2>1, PartTurns
<1> QED
  BY <1>3, <1>4, <1>5, <1>6

LEMMA DeleteTurn ==
  ASSUME DeliveryInv, TracksAll, NEW w \in Workers, HandleDelete(w)
  PROVE  Turn(w)
<1> DEFINE call == task[w].call
           deleted == call.reply \in {"ok", "missing"}
<1>1. "delete" \in PartCalls /\ "neutralize" \in PartCalls /\ Answered(w, {"delete"})
  BY DEF PartCalls, HandleDelete, Handling
<1>2. /\ worker[w].pc = "delivering" /\ Awaiting(w) /\ call.kind \in PartCalls
      /\ NoPart \in Part /\ TerminalFailed(w) \in Part /\ (deleted => Over(call.msg))
  BY <1>1, PartHeard
<1>3. CASE ClaimState(w) # "current"
  <2>1. LeaveOvertaken(w, IF deleted THEN With(w, NoPart) ELSE PartsOf(w))
    BY <1>3 DEF HandleDelete
  <2>2. CASE deleted
    <3>1. LeaveOvertaken(w, With(w, NoPart))
      BY <2>1, <2>2
    <3> QED
      BY <1>2, <2>2, <3>1, PartTurns
  <2>3. CASE ~deleted
    <3>1. LeaveOvertaken(w, PartsOf(w))
      BY <2>1, <2>3
    <3> QED
      BY <1>2, <3>1, PartTurns
  <2> QED
    BY <2>2, <2>3
<1>4. CASE ClaimState(w) = "current" /\ deleted
  <2>1. PartDone(w, With(w, NoPart)) /\ OwnsClaim(w)
    BY <1>4, ClaimStateFact DEF HandleDelete
  <2> QED
    BY <1>2, <1>4, <2>1, PartTurns
<1>5. CASE ClaimState(w) = "current" /\ call.reply = "bad"
  <2>1. AskRenewed(w, "neutralize", task[w].at, call.msg, Placeholder)
    BY <1>5 DEF HandleDelete
  <2> QED
    BY <1>1, <1>2, <2>1, PartTurns
<1>6. CASE ClaimState(w) = "current" /\ call.reply = "forbidden"
  <2>1. PartDone(w, With(w, TerminalFailed(w))) /\ OwnsClaim(w)
    BY <1>6, ClaimStateFact DEF HandleDelete
  <2> QED
    BY <1>2, <2>1, PartTurns
<1>7. CASE ClaimState(w) = "current" /\ call.reply \notin {"ok", "missing", "bad", "forbidden"}
  <2>1. LeaveFailed(w, FALSE)
    BY <1>7 DEF HandleDelete
  <2> QED
    BY <1>2, <2>1, PartTurns
<1> QED
  BY <1>3, <1>4, <1>5, <1>6, <1>7

LEMMA NeutralizeTurn ==
  ASSUME DeliveryInv, TracksAll, NEW w \in Workers, HandleNeutralize(w)
  PROVE  Turn(w)
<1> DEFINE call == task[w].call
<1>1. "neutralize" \in PartCalls /\ Answered(w, {"neutralize"})
  BY DEF PartCalls, HandleNeutralize, Handling
<1>2. /\ worker[w].pc = "delivering" /\ Awaiting(w) /\ call.kind \in PartCalls
      /\ NoPart \in Part /\ TerminalFailed(w) \in Part /\ RetiredPart(call.msg) \in Part
      /\ call.reply = "missing" => Over(call.msg)
  BY <1>1, PartHeard
<1>3. CASE ClaimState(w) # "current"
  BY <1>1, <1>3, UndoEditTurn DEF HandleNeutralize
<1>4. CASE ClaimState(w) = "current" /\ call.reply = "ok"
  <2>1. PartDone(w, With(w, RetiredPart(call.msg))) /\ OwnsClaim(w)
    BY <1>4, ClaimStateFact DEF HandleNeutralize
  <2> QED
    BY <1>2, <2>1, PartTurns
<1>5. CASE ClaimState(w) = "current" /\ call.reply = "missing"
  <2>1. PartDone(w, With(w, NoPart)) /\ OwnsClaim(w)
    BY <1>5, ClaimStateFact DEF HandleNeutralize
  <2> QED
    BY <1>2, <1>5, <2>1, PartTurns
<1>6. CASE ClaimState(w) = "current" /\ call.reply = "bad"
  <2>1. PartDone(w, With(w, TerminalFailed(w))) /\ OwnsClaim(w)
    BY <1>6, ClaimStateFact DEF HandleNeutralize
  <2> QED
    BY <1>2, <2>1, PartTurns
<1>7. CASE ClaimState(w) = "current" /\ call.reply \notin {"ok", "missing", "bad"}
  <2>1. LeaveFailed(w, FALSE)
    BY <1>7 DEF HandleNeutralize
  <2> QED
    BY <1>2, <2>1, PartTurns
<1> QED
  BY <1>3, <1>4, <1>5, <1>6, <1>7


LEMMA UndoingTurn ==
  ASSUME DeliveryInv, TracksAll, NEW w \in Workers,
         HandleRestore(w) \/ HandleBlank(w) \/ HandleRetract(w) \/ HandleRetire(w)
  PROVE  Turn(w) /\ worker[w].pc = "delivering" /\ Awaiting(w) /\ task[w].call.kind \in PartCalls
         /\ chat' = chat /\ late' = late
<1> DEFINE call == task[w].call
<1>1. PICK kind \in {"restore", "blank", "retract", "retire"} :
        /\ Answered(w, {kind})
        /\ kind = "restore" => HandleRestore(w)
        /\ kind = "blank" => HandleBlank(w)
        /\ kind = "retract" => HandleRetract(w)
        /\ kind = "retire" => HandleRetire(w)
  BY DEF HandleRestore, HandleBlank, HandleRetract, HandleRetire, Handling
<1>2. kind \in PartCalls /\ "blank" \in PartCalls /\ "retire" \in PartCalls
  BY DEF PartCalls
<1>3. /\ worker[w].pc = "delivering" /\ Awaiting(w) /\ call.kind \in PartCalls
      /\ NoPart \in Part /\ StaleEdit(w) \in Part /\ RetiredPart(call.msg) \in Part
      /\ ActivePart(call.msg, call.text) \in Part
      /\ kind = "retract" /\ call.reply \in {"ok", "missing"} => Over(call.msg)
      /\ chat' = chat /\ late' = late
  BY <1>1, <1>2, PartHeard
<1> SUFFICES Turn(w)
  BY <1>3
<1>4. ASSUME NEW p \in Part, LeaveOvertaken(w, With(w, p)), OwnsClaim(w) => PutFits(w, p)
      PROVE  Turn(w)
  BY <1>3, <1>4, PartTurns
<1>5. LeaveOvertaken(w, PartsOf(w)) => Turn(w)
  BY <1>3, PartTurns
<1>6. CASE kind = "restore"
  <2>1. CASE call.reply = "ok"
    <3>1. LeaveOvertaken(w, With(w, ActivePart(call.msg, call.text)))
      BY <1>1, <1>6, <2>1 DEF HandleRestore
    <3> QED
      BY <1>3, <1>4, <3>1, PartTurns
  <2>2. CASE call.reply # "ok"
    <3>1. Ask(w, "blank", call.msg, Placeholder)
      BY <1>1, <1>6, <2>2 DEF HandleRestore
    <3> QED
      BY <1>2, <1>3, <3>1, PartTurns
  <2> QED
    BY <2>1, <2>2
<1>7. CASE kind = "blank"
  <2>1. CASE call.reply = "ok"
    <3>1. LeaveOvertaken(w, With(w, RetiredPart(call.msg)))
      BY <1>1, <1>7, <2>1 DEF HandleBlank
    <3> QED
      BY <1>3, <1>4, <3>1, PartTurns
  <2>2. CASE call.reply # "ok"
    BY <1>1, <1>5, <1>7, <2>2 DEF HandleBlank
  <2> QED
    BY <2>1, <2>2
<1>8. CASE kind = "retract"
  <2>1. CASE call.reply \in {"ok", "missing"}
    <3>1. LeaveOvertaken(w, With(w, NoPart))
      BY <1>1, <1>8, <2>1 DEF HandleRetract
    <3> QED
      BY <1>3, <1>4, <1>8, <2>1, <3>1, PartTurns
  <2>2. CASE call.reply \notin {"ok", "missing"} /\ StaleWithdraw(w)
    <3>1. Ask(w, "retire", call.msg, Placeholder)
      BY <1>1, <1>8, <2>2 DEF HandleRetract
    <3> QED
      BY <1>2, <1>3, <3>1, PartTurns
  <2>3. CASE call.reply \notin {"ok", "missing"} /\ ~StaleWithdraw(w)
    BY <1>1, <1>5, <1>8, <2>3 DEF HandleRetract
  <2> QED
    BY <2>1, <2>2, <2>3
<1>9. CASE kind = "retire"
  <2>1. CASE call.reply # "ok"
    BY <1>1, <1>5, <1>9, <2>1 DEF HandleRetire
  <2>2. CASE call.reply = "ok" /\ StaleWithdraw(w)
    <3>1. LeaveOvertaken(w, With(w, RetiredPart(call.msg)))
      BY <1>1, <1>9, <2>2 DEF HandleRetire
    <3> QED
      BY <1>3, <1>4, <3>1, PartTurns
  <2>3. CASE call.reply = "ok" /\ ~StaleWithdraw(w)
    <3>1. LeaveOvertaken(w, With(w, StaleEdit(w)))
      BY <1>1, <1>9, <2>3 DEF HandleRetire
    <3> QED
      BY <1>3, <1>4, <3>1, PartTurns
  <2> QED
    BY <2>1, <2>2, <2>3
<1> QED
  BY <1>3, <1>6, <1>7, <1>8, <1>9

(* Answers about parts *)
LEMMA PartTracks ==
  ASSUME DeliveryInv, TracksAll, NEW w \in Workers,
         \/ HandleEdit(w) \/ HandleDelete(w) \/ HandleNeutralize(w) \/ HandleRestore(w)
         \/ HandleBlank(w) \/ HandleRetract(w) \/ HandleRetire(w)
  PROVE  TracksAll'
<1>1. unknown \in Nat /\ unknown' \in Nat /\ unknown' >= unknown
  <2>1. unknown \in Nat
    BY NumbersFact DEF DeliveryInv, WireOK
  <2>2. HandleRetract(w) => unknown' \in {unknown, unknown + 1}
    BY DEF HandleRetract
  <2>3. ~HandleRetract(w) => unknown' = unknown
    BY DEF HandleEdit, HandleDelete, HandleNeutralize, HandleRestore, HandleBlank,
           HandleRetire, Handling
  <2> QED
    BY <2>1, <2>2, <2>3
<1>2. /\ Turn(w) /\ worker[w].pc = "delivering" /\ Awaiting(w)
      /\ task[w].call.kind \in PartCalls /\ chat' = chat /\ late' = late
  <2>1. CASE HandleRestore(w) \/ HandleBlank(w) \/ HandleRetract(w) \/ HandleRetire(w)
    BY <2>1, UndoingTurn
  <2>2. CASE HandleEdit(w) \/ HandleDelete(w) \/ HandleNeutralize(w)
    <3>1. PICK kind \in {"edit", "delete", "neutralize"} : Answered(w, {kind})
      BY <2>2 DEF HandleEdit, HandleDelete, HandleNeutralize, Handling
    <3>2. kind \in PartCalls
      BY DEF PartCalls
    <3> QED
      BY <2>2, <3>1, <3>2, PartHeard, EditTurn, DeleteTurn, NeutralizeTurn
  <2> QED
    BY <2>1, <2>2
<1> QED
  BY <1>1, <1>2, TurnKeeps

(* The message just sent is recorded, or taken back. *)
LEMMA SendTracks ==
  ASSUME DeliveryInv, TracksAll, NEW w \in Workers, HandleSend(w)
  PROVE  TracksAll'
<1> DEFINE call == task[w].call
           p == ActivePart(call.msg, call.text)
<1>1. Handling(w, Calls.send) /\ Calls.send \subseteq Calls.send \cup Calls.edit \cup Calls.delete
  BY DEF HandleSend
<1>2. /\ worker[w].pc = "delivering" /\ Awaiting(w) /\ call.kind \in Calls.send
      /\ call.msg \in 0..MaxMessages /\ call.text \in Texts \cup {Placeholder}
      /\ chat' = chat /\ late' = late /\ unknown' = unknown
  BY <1>1, Handled DEF Handling, Answered
<1>3. unknown \in Nat /\ p \in Part /\ p.msg = call.msg
  <2>1. unknown \in Nat
    BY NumbersFact DEF DeliveryInv, WireOK
  <2>2. p \in Part
    BY <1>2, PartTypes
  <2> QED
    BY <2>1, <2>2 DEF ActivePart
<1>4. CallFits(task[w])
  BY <1>2 DEF TracksAll
<1>5. CASE call.reply # "ok"
  <2>1. call.msg = 0
    BY <1>2, <1>4, <1>5 DEF CallFits
  <2>2. LeaveFailed(w, call.reply = "bad") \/ LeaveOvertaken(w, PartsOf(w))
    BY <1>5 DEF HandleSend
  <2>3. Turn(w)
    BY <2>2, Endings DEF Turn
  <2> QED
    BY <1>2, <1>3, <2>1, <2>3, TurnKeeps
<1>6. ASSUME NEW kind \in {"undo", "undoFailed"}, Ask(w, kind, call.msg, Placeholder)
      PROVE  TracksAll'
  <2>1. AsksFor(w, kind, call.msg) /\ parts' = parts /\ AskFits(w, kind, call.msg)
    BY <1>6, Endings DEF AskFits
  <2>2. Turn(w)
    BY <2>1 DEF Turn
  <2>3. task[w] \in Task /\ task \in [Workers -> Task]
    BY DEF DeliveryInv, RecordsOK
  <2>4. /\ task'[w].call = [kind |-> kind, msg |-> call.msg, text |-> Placeholder, reply |-> "awaited"]
    BY <1>6, <2>3 DEF Ask, Asked, Task
  <2>5. ASSUME NEW m0, m0 = call.msg PROVE Minds(w, m0)'
    BY <2>4, <2>5 DEF Minds, Awaiting
  <2> QED
    BY <1>2, <1>3, <2>2, <2>5, TurnKeeps
<1>7. CASE call.reply = "ok" /\ ClaimState(w) # "current"
  BY <1>6, <1>7 DEF HandleSend
<1>8. CASE call.reply = "ok" /\ ClaimState(w) = "current" /\ PartDone(w, With(w, p))
  <2>1. OwnsClaim(w) /\ PutFits(w, p)
    BY <1>2, <1>3, <1>8, ClaimStateFact DEF PutFits
  <2>2. Passes(w) /\ Puts(w, p)
    BY <1>8, <2>1, Endings
  <2>3. Turn(w)
    BY <1>3, <2>1, <2>2 DEF Turn
  <2>4. ASSUME NEW q \in Part, q = p PROVE Tracked(q.msg)'
    BY <1>2, <2>1, <2>2, <2>4, PutTracks
  <2>5. ASSUME NEW m0, m0 = call.msg PROVE Tracked(m0)'
    <3>1. PICK q \in Part : q = p
      BY <1>3
    <3>2. Tracked(q.msg)' /\ q.msg = m0
      BY <1>3, <2>4, <2>5, <3>1
    <3> QED
      BY <3>2 DEF Tracked
  <2> QED
    BY <1>2, <1>3, <2>3, <2>5, TurnKeeps
<1> QED
  BY <1>5, <1>6, <1>7, <1>8 DEF HandleSend

(* The message taken back is gone, or was given up when Telegram refused. *)
LEMMA UndoTracks ==
  ASSUME DeliveryInv, TracksAll, NEW w \in Workers, HandleUndo(w)
  PROVE  TracksAll'
<1> DEFINE call == task[w].call
<1>1. /\ Handling(w, {"undo", "undoFailed"})
      /\ {"undo", "undoFailed"} \subseteq Calls.send \cup Calls.edit \cup Calls.delete
  BY DEF HandleUndo, Calls
<1>2. /\ worker[w].pc = "delivering" /\ Awaiting(w) /\ call.kind \in {"undo", "undoFailed"}
      /\ call.reply # "awaited"
      /\ chat' = chat /\ late' = late /\ unknown' = unknown
  BY <1>1, Handled DEF Handling, Answered
<1>3. unknown \in Nat
  BY NumbersFact DEF DeliveryInv, WireOK
<1>4. LeaveOvertaken(w, PartsOf(w)) \/ LeaveFailed(w, FALSE)
  BY DEF HandleUndo
<1>5. Ends(w) /\ parts' = parts
  BY <1>4, Endings
<1>6. Turn(w)
  BY <1>5 DEF Turn
<1>7. CASE call.reply = "ok"
  <2>1. CallFits(task[w]) /\ call.kind \in Calls.delete
    BY <1>2 DEF TracksAll, Calls
  <2>2. Over(call.msg)
    BY <1>7, <2>1 DEF CallFits
  <2> QED
    BY <1>2, <1>3, <1>6, <2>2, TurnKeeps
<1>8. CASE call.reply # "ok"
  <2>1. \A m : ~Minds(w, m)
    BY <1>2, <1>8 DEF Minds
  <2> QED
    BY <1>2, <1>3, <1>5, <1>6, <2>1, TurnKeeps
<1> QED
  BY <1>7, <1>8


LEMMA UnknownNat == DeliveryInv => unknown \in Nat /\ MessageIds \subseteq Nat \ {0}
BY NumbersFact DEF DeliveryInv, WireOK

LEMMA DatabaseTracks ==
  ASSUME DeliveryInv, TracksAll, NEW w \in Workers, DatabaseFails(w)
  PROVE  TracksAll'
<1>1. /\ worker[w].pc = "delivering" /\ Awaiting(w) /\ LeaveFailed(w, FALSE)
      /\ chat' = chat /\ late' = late /\ unknown' = unknown + 1
  BY DEF DatabaseFails
<1>2. Ends(w) /\ parts' = parts
  BY <1>1, Endings
<1>3. Turn(w)
  BY <1>2 DEF Turn
<1>4. PICK m0 : m0 = task[w].call.msg
  OBVIOUS
<1>5. /\ \A i \in Ids, n \in Numbers : Sent(parts[i][n].msg)'
      /\ \A v \in Workers, n \in Numbers : Known(task[v].stored[n].msg)'
      /\ \A v \in Workers : Awaiting(v)' => CallFits(task[v])'
      /\ Loose' \subseteq Loose \cup {m0}
  BY <1>1, <1>3, <1>4, TurnTracks
<1>6. LateSends' \subseteq LateSends /\ IsFiniteSet(late') /\ Accounted
  BY <1>1 DEF LateSends, TracksAll, Accounted
<1>7. Accounted'
  BY <1>1, <1>5, <1>6, UnknownNat, AccountMessage
<1> QED
  BY <1>5, <1>7 DEF TracksAll

(* A coroutine that is not in a call minds no message. *)
LEMMA TaskTracks ==
  ASSUME DeliveryInv, TracksAll, NEW w \in Workers, ~Awaiting(w),
         UNCHANGED <<parts, chat, late, unknown>>,
         \A v \in Workers : v # w => task'[v] = task[v],
         \A n \in Numbers : Known(task'[w].stored[n].msg),
         Awaiting(w)' => CallFits(task[w])'
  PROVE  TracksAll'
<1>1. \A m : (Over(m)' <=> Over(m)) /\ (Sent(m)' <=> Sent(m)) /\ (Visible(m)' <=> Visible(m))
             /\ (Tracked(m)' <=> Tracked(m))
  BY DEF Over, Sent, Visible, Tracked
<1>2. ASSUME NEW v \in Workers, NEW n \in Numbers PROVE Known(task[v].stored[n].msg)'
  BY <1>1 DEF Known, TracksAll
<1>3. ASSUME NEW v \in Workers, Awaiting(v)' PROVE CallFits(task[v])'
  <2>1. CASE v = w
    BY <1>3, <2>1
  <2>2. CASE v # w
    BY <1>1, <1>3, <2>2 DEF CallFits, TracksAll, Awaiting
  <2> QED
    BY <2>1, <2>2
<1>4. Loose' \subseteq Loose
  <2>1. \A m, v : v \in Workers /\ v # w => (Minds(v, m) <=> Minds(v, m)')
    BY DEF Minds, Awaiting
  <2>2. \A m : ~Minds(w, m)
    BY DEF Minds
  <2> QED
    BY <1>1, <2>1, <2>2 DEF Loose
<1>5. LateSends' \subseteq LateSends /\ IsFiniteSet(late') /\ Accounted
  BY DEF LateSends, TracksAll, Accounted
<1>6. Accounted'
  BY <1>4, <1>5, UnknownNat, AccountSame
<1> QED
  BY <1>1, <1>2, <1>3, <1>6 DEF TracksAll

LEMMA NextPartTracks ==
  ASSUME DeliveryInv, TracksAll, NEW w \in Workers, NextPart(w)
  PROVE  TracksAll'
<1> DEFINE t == task[w]
           todo == {n \in Numbers : n >= t.at /\ ~UpToDate(t, n)}
<1>1. /\ worker[w].pc = "delivering" /\ ~Awaiting(w) /\ UNCHANGED <<chat, late, unknown>>
      /\ task \in [Workers -> Task] /\ t \in Task
  BY DEF NextPart, DeliveryInv, RecordsOK
<1>2. \A n \in Numbers : Known(t.stored[n].msg) /\ Known(NoTask.stored[n].msg)
  BY DEF TracksAll, NoTask, NoParts, NoPart, Known
<1>3. CASE LeaveOvertaken(w, PartsOf(w))
  <2>1. Ends(w) /\ parts' = parts
    BY <1>3, Endings
  <2>2. task'[w] = NoTask /\ \A v \in Workers : v # w => task'[v] = task[v]
    BY <1>1, <2>1 DEF Ends
  <2>3. ~Awaiting(w)'
    BY <2>2, NoTaskOK DEF Awaiting
  <2> QED
    BY <1>1, <1>2, <2>1, <2>2, <2>3, TaskTracks
<1>4. CASE todo # {} /\ ClaimState(w) = "current"
  <2> DEFINE n == Min(todo)
             kind == IF n > Len(t.desired) THEN "delete"
                     ELSE IF t.stored[n].msg = 0 THEN "send" ELSE "edit"
             text == IF n > Len(t.desired) THEN Placeholder ELSE t.desired[n]
             msg == t.stored[n].msg
  <2>1. n \in Numbers
    BY <1>4, NumbersFact, FirstOf
  <2>2. AskRenewed(w, kind, n, msg, text)
    BY <1>4 DEF NextPart
  <2>3. kind \in {"delete", "send", "edit"} /\ (kind = "send" => msg = 0)
    OBVIOUS
  <2> HIDE DEF n, kind, text, msg
  <2>4. task' = [Asked(w, kind, msg, text) EXCEPT ![w].at = n] /\ parts' = parts
    BY <1>4, <2>2 DEF AskRenewed
  <2>5. /\ \A v \in Workers : v # w => task'[v] = task[v]
        /\ task'[w].at = n /\ task'[w].stored = t.stored
        /\ task'[w].call = [kind |-> kind, msg |-> msg, text |-> text, reply |-> "awaited"]
    BY <1>1, <2>4 DEF Asked, Task
  <2>6. task'[w].call.kind = kind /\ task'[w].call.msg = msg /\ task'[w].call.reply = "awaited"
    BY <2>5
  <2>7. CallFits(task[w])'
    BY <2>3, <2>5, <2>6 DEF CallFits, Calls, PartCalls, msg
  <2> QED
    BY <1>1, <1>2, <2>4, <2>5, <2>7, TaskTracks
<1> QED
  BY <1>3, <1>4 DEF NextPart, AskRenewed

LEMMA BeginTracks ==
  ASSUME DeliveryInv, TracksAll, NEW w \in Workers, BeginDelivery(w)
  PROVE  TracksAll'
<1>1. /\ worker[w].pc = "prepared" /\ UNCHANGED <<parts, chat, late, unknown>>
      /\ task \in [Workers -> Task] /\ worker[w].id \in Ids
  BY InDelivery DEF BeginDelivery, StartDelivery, DeliveryInv, RecordsOK
<1>2. task[w] = NoTask
  BY <1>1, OffStage
<1>3. /\ task'[w].stored = PartsOf(w) /\ task'[w].call = NoTask.call
      /\ \A v \in Workers : v # w => task'[v] = task[v]
  BY <1>1, <1>2 DEF BeginDelivery, NoTask
<1>4. ~Awaiting(w) /\ ~Awaiting(w)'
  BY <1>2, <1>3, NoTaskOK DEF Awaiting
<1>5. \A n \in Numbers : Known(task'[w].stored[n].msg)
  BY <1>1, <1>3 DEF Known, Tracked, PartsOf
<1> QED
  BY <1>1, <1>3, <1>4, <1>5, TaskTracks

LEMMA StillTracks ==
  ASSUME DeliveryInv, TracksAll, UNCHANGED deliveryVars
  PROVE  TracksAll'
BY DEF TracksAll, deliveryVars, Sent, Known, Tracked, Over, Awaiting, CallFits, Accounted, Loose,
       LateSends, Visible, Minds

(* A crash forgets the call, and what it was about. *)
LEMMA CrashTracks ==
  ASSUME DeliveryInv, TracksAll, NEW w \in Workers, CrashDelivery(w)
  PROVE  TracksAll'
<1> DEFINE call == task[w].call
<1>1. /\ UNCHANGED <<parts, chat>> /\ task' = [task EXCEPT ![w] = NoTask]
      /\ task \in [Workers -> Task]
  BY DEF CrashDelivery, DeliveryInv, RecordsOK
<1>2. /\ task'[w] = NoTask /\ \A v \in Workers : v # w => task'[v] = task[v]
      /\ ~Awaiting(w)' /\ \A n \in Numbers : Known(NoTask.stored[n].msg)
  BY <1>1, NoTaskOK DEF Awaiting, NoTask, NoParts, NoPart, Known
<1>3. CASE ~Awaiting(w)
  <2>1. UNCHANGED <<late, unknown>>
    BY <1>3 DEF CrashDelivery
  <2> QED
    BY <1>1, <1>2, <1>3, <2>1, TaskTracks
<1>4. CASE Awaiting(w)
  <2>1. /\ worker[w].pc = "delivering" /\ call \in Call
        /\ unknown' = unknown + 1
        /\ late' = IF call.reply = "awaited" THEN late \cup {call} ELSE late
    BY <1>4, InWire DEF CrashDelivery
  <2>2. PICK m0, c0 : m0 = call.msg /\ c0 = call
    OBVIOUS
  <2>3. Ends(w) /\ Turn(w)
    BY <1>1 DEF Ends, Turn
  <2>4. /\ \A i \in Ids, n \in Numbers : Sent(parts[i][n].msg)'
        /\ \A v \in Workers, n \in Numbers : Known(task[v].stored[n].msg)'
        /\ \A v \in Workers : Awaiting(v)' => CallFits(task[v])'
        /\ Loose' \subseteq Loose \cup {m0}
    BY <1>1, <1>4, <2>1, <2>2, <2>3, TurnTracks
  <2>5. Accounted /\ IsFiniteSet(late) /\ IsFiniteSet(late')
    BY <2>1, FS_AddElement DEF TracksAll, Accounted
  <2>6. CASE call.reply = "awaited" /\ call.kind \in Calls.send
    <3>1. CallFits(task[w])
      BY <1>4 DEF TracksAll
    <3>2. m0 = 0 /\ m0 \notin Loose'
      BY <2>2, <2>6, <3>1, UnknownNat DEF CallFits, Loose
    <3>3. Loose' \subseteq Loose /\ LateSends' \subseteq LateSends \cup {c0}
      BY <2>1, <2>2, <2>4, <2>6, <3>2 DEF LateSends
    <3>4. Accounted'
      BY <2>1, <2>5, <3>3, UnknownNat, AccountCall
    <3> QED
      BY <2>4, <3>4 DEF TracksAll
  <2>7. CASE ~(call.reply = "awaited" /\ call.kind \in Calls.send)
    <3>1. LateSends' \subseteq LateSends
      BY <2>1, <2>7 DEF LateSends
    <3>2. Accounted'
      BY <2>1, <2>4, <2>5, <3>1, UnknownNat, AccountMessage
    <3> QED
      BY <2>4, <3>2 DEF TracksAll
  <2> QED
    BY <2>6, <2>7
<1> QED
  BY <1>3, <1>4


-----------------------------------------------------------------------------
(* Telegram and the messages *)

(* What has come stays, or is over; what is over stays so. *)
Onward == \A m \in 0..MaxMessages : Over(m) => Over(m)'
Arrived == \A m \in 0..MaxMessages : Sent(m) => Sent(m)'

(* One message changes, unless nothing does: one that has yet to come if the
   call sends it, one that is seen otherwise. *)
LEMMA AppliedFact ==
  ASSUME DeliveryInv, NEW call \in Call, HasRoom(call)
  PROVE  \/ Applied(call) = chat
         \/ \E m \in MessageIds, x \in Texts \cup {Placeholder, "gone"} :
              /\ Applied(call) = [chat EXCEPT ![m] = x]
              /\ IF call.kind \in Calls.send THEN chat[m] = "unsent"
                 ELSE m = call.msg /\ Visible(m) /\ (call.kind \in Calls.delete => x = "gone")
<1>1. chat = [m \in MessageIds |-> chat[m]] /\ call.text \in Texts \cup {Placeholder}
  BY DEF DeliveryInv, WireOK, Call
<1>2. CASE call.kind \in Calls.send
  <2> DEFINE m1 == CHOOSE m \in MessageIds : /\ chat[m] = "unsent"
                                             /\ \A l \in 1..(m - 1) : chat[l] # "unsent"
             S == {m \in MessageIds : chat[m] = "unsent"}
  <2>1. Applied(call) = [chat EXCEPT ![m1] = call.text]
    BY <1>2 DEF Applied
  <2>2. CASE MessageIds = {}
    BY <1>1, <2>1, <2>2
  <2>3. CASE MessageIds # {}
    <3>1. MaxMessages \in MessageIds /\ MessageIds \subseteq Nat
      BY <2>3, NumbersFact DEF MessageIds
    <3>2. S # {} /\ S \subseteq Nat
      BY <1>2, <3>1 DEF HasRoom
    <3>3. Min(S) \in S /\ \A m \in S : Min(S) <= m
      BY <3>2, FirstOf
    <3>4. PICK m \in MessageIds : chat[m] = "unsent" /\ \A l \in S : m <= l
      BY <3>3
    <3>5. \A l \in 1..(m - 1) : chat[l] # "unsent"
      BY <3>1, <3>4, NumbersFact DEF MessageIds
    <3>6. m1 \in MessageIds /\ chat[m1] = "unsent"
      BY <3>4, <3>5
    <3> HIDE DEF m1
    <3> QED
      BY <1>1, <1>2, <2>1, <3>6
  <2> QED
    BY <2>2, <2>3
<1>3. CASE call.kind \notin Calls.send /\ Visible(call.msg)
  <2> DEFINE x == IF call.kind \in Calls.edit THEN call.text ELSE "gone"
  <2>1. Applied(call) = [chat EXCEPT ![call.msg] = x]
    BY <1>3 DEF Applied
  <2>2. x \in Texts \cup {Placeholder, "gone"} /\ (call.kind \in Calls.delete => x = "gone")
    BY <1>1 DEF Calls
  <2> HIDE DEF x
  <2>3. CASE call.msg \in MessageIds
    BY <1>3, <2>1, <2>2, <2>3
  <2>4. CASE call.msg \notin MessageIds
    BY <1>1, <2>1, <2>4
  <2> QED
    BY <2>3, <2>4
<1>4. CASE call.kind \notin Calls.send /\ ~Visible(call.msg)
  BY <1>4 DEF Applied
<1> QED
  BY <1>2, <1>3, <1>4

LEMMA ChatTexts ==
  \A x \in Texts \cup {Placeholder} : x \notin {"unsent", "gone", "removed"}
BY TextsAssumption DEF Placeholder

(* What a change of one message does *)
LEMMA OneMessage ==
  ASSUME DeliveryInv, NEW m \in MessageIds, NEW x, chat' = [chat EXCEPT ![m] = x],
         x \in Texts \cup {Placeholder, "gone", "removed"},
         chat[m] = "unsent" \/ Visible(m)
  PROVE  /\ Onward /\ Arrived
         /\ \A l \in MessageIds : l # m => (Visible(l)' <=> Visible(l))
         /\ Sent(m)' /\ (x \in {"gone", "removed"} => Over(m)')
<1>1. chat \in [MessageIds -> Texts \cup {Placeholder, "unsent", "gone", "removed"}]
  BY DEF DeliveryInv, WireOK
<1>2. /\ chat'[m] = x /\ \A l \in MessageIds : l # m => chat'[l] = chat[l]
      /\ m # 0 /\ x # "unsent"
      /\ \A l \in 0..MaxMessages : l # 0 => l \in MessageIds
  BY <1>1, NumbersFact, ChatTexts DEF MessageIds
<1>3. Onward
  BY <1>2 DEF Onward, Over, Visible
<1>4. Arrived
  BY <1>2 DEF Arrived, Sent
<1> QED
  BY <1>2, <1>3, <1>4 DEF Visible, Sent, Over


(* What a message means to a worker that Telegram has not answered lasts. *)
LEMMA OnwardTracks ==
  ASSUME DeliveryInv, TracksAll, Onward, Arrived, UNCHANGED parts,
         \A v \in Workers : task'[v].stored = task[v].stored
  PROVE  /\ \A i \in Ids, n \in Numbers : Sent(parts[i][n].msg)'
         /\ \A v \in Workers, n \in Numbers : Known(task[v].stored[n].msg)'
         /\ \A v \in Workers : task'[v] = task[v] /\ Awaiting(v) => CallFits(task[v])'
         /\ \A m : Tracked(m)' <=> Tracked(m)
<1>1. /\ \A i \in Ids, n \in Numbers : parts[i][n].msg \in 0..MaxMessages
      /\ \A v \in Workers, n \in Numbers : task[v].stored[n].msg \in 0..MaxMessages
      /\ \A v \in Workers : Awaiting(v) =>
           task[v].at \in Numbers /\ task[v].call.msg \in 0..MaxMessages
  <2>1. ASSUME NEW i \in Ids, NEW n \in Numbers PROVE parts[i][n].msg \in 0..MaxMessages
    <3>1. parts[i][n] \in Part
      BY DEF DeliveryInv, RecordsOK
    <3> QED
      BY <3>1 DEF Part
  <2>2. ASSUME NEW v \in Workers, NEW n \in Numbers
        PROVE  task[v].stored[n].msg \in 0..MaxMessages
    <3>1. task[v].stored[n] \in Part
      BY DEF DeliveryInv, RecordsOK, Task
    <3> QED
      BY <3>1 DEF Part
  <2>3. ASSUME NEW v \in Workers, Awaiting(v)
        PROVE  task[v].at \in Numbers /\ task[v].call.msg \in 0..MaxMessages
    BY <2>3, InWire, InCall DEF Call
  <2> QED
    BY <2>1, <2>2, <2>3
<1>2. \A m : Tracked(m)' <=> Tracked(m)
  BY DEF Tracked
<1>3. ASSUME NEW i \in Ids, NEW n \in Numbers PROVE Sent(parts[i][n].msg)'
  BY <1>1 DEF Arrived, TracksAll, Sent
<1>4. ASSUME NEW v \in Workers, NEW n \in Numbers PROVE Known(task[v].stored[n].msg)'
  <2>1. Known(task[v].stored[n].msg)
    BY DEF TracksAll
  <2>2. Over(task[v].stored[n].msg) => Over(task[v].stored[n].msg)'
    BY <1>1 DEF Onward, Over
  <2> QED
    BY <1>2, <2>1, <2>2 DEF Known
<1>5. ASSUME NEW v \in Workers, task'[v] = task[v], Awaiting(v) PROVE CallFits(task[v])'
  <2>1. CallFits(task[v])
    BY <1>5 DEF TracksAll
  <2>2. /\ Over(task[v].call.msg) => Over(task[v].call.msg)'
        /\ Over(task[v].stored[task[v].at].msg) => Over(task[v].stored[task[v].at].msg)'
        /\ Sent(task[v].call.msg) => Sent(task[v].call.msg)'
    BY <1>1, <1>5 DEF Onward, Arrived, Over, Sent
  <2> QED
    BY <1>5, <2>1, <2>2 DEF CallFits
<1> QED
  BY <1>2, <1>3, <1>4, <1>5

LEMMA RemovedTracks ==
  ASSUME DeliveryInv, TracksAll, RemovedByHand
  PROVE  TracksAll'
<1>1. PICK m \in MessageIds : Visible(m) /\ chat' = [chat EXCEPT ![m] = "removed"]
  BY DEF RemovedByHand
<1>2. UNCHANGED <<parts, task, late, unknown>>
  BY DEF RemovedByHand
<1>3. /\ Onward /\ Arrived /\ \A l \in MessageIds : l # m => (Visible(l)' <=> Visible(l))
      /\ Over(m)'
  BY <1>1, OneMessage
<1>4. \A l \in MessageIds : Visible(l)' => Visible(l)
  BY <1>1, <1>3
<1>5. /\ \A i \in Ids, n \in Numbers : Sent(parts[i][n].msg)'
      /\ \A v \in Workers, n \in Numbers : Known(task[v].stored[n].msg)'
      /\ \A v \in Workers : Awaiting(v) => CallFits(task[v])'
      /\ \A l : Tracked(l)' <=> Tracked(l)
  BY <1>2, <1>3, OnwardTracks
<1>6. Loose' \subseteq Loose
  BY <1>2, <1>4, <1>5 DEF Loose, Minds, Awaiting
<1>7. LateSends' \subseteq LateSends /\ IsFiniteSet(late') /\ Accounted
  BY <1>2 DEF LateSends, TracksAll, Accounted
<1>8. Accounted'
  BY <1>2, <1>6, <1>7, UnknownNat, AccountSame
<1> QED
  BY <1>2, <1>5, <1>8 DEF TracksAll, Awaiting

LEMMA LateTracks ==
  ASSUME DeliveryInv, TracksAll, LateCall
  PROVE  TracksAll'
<1>1. PICK call \in late : HasRoom(call) /\ chat' = Applied(call) /\ late' = late \ {call}
  BY DEF LateCall
<1>2. UNCHANGED <<parts, task, unknown>> /\ call \in Call
  BY DEF LateCall, DeliveryInv, WireOK
<1>3. Accounted /\ IsFiniteSet(late) /\ IsFiniteSet(late')
  <2>1. Accounted /\ IsFiniteSet(late)
    BY DEF TracksAll, Accounted
  <2> QED
    BY <1>1, <2>1, FS_RemoveElement
<1>4. /\ Onward /\ Arrived
      /\ \/ \A l \in MessageIds : Visible(l)' => Visible(l)
         \/ /\ call.kind \in Calls.send
            /\ \E m \in MessageIds : \A l \in MessageIds : l # m => (Visible(l)' <=> Visible(l))
  <2>1. CASE chat' = chat
    BY <2>1 DEF Onward, Arrived, Over, Sent, Visible
  <2>2. CASE chat' # chat
    <3>1. PICK m \in MessageIds, x \in Texts \cup {Placeholder, "gone"} :
             /\ chat' = [chat EXCEPT ![m] = x]
             /\ IF call.kind \in Calls.send THEN chat[m] = "unsent"
                ELSE m = call.msg /\ Visible(m) /\ (call.kind \in Calls.delete => x = "gone")
      BY <1>1, <1>2, <2>2, AppliedFact
    <3> QED
      BY <3>1, OneMessage
  <2> QED
    BY <2>1, <2>2
<1>5. /\ \A i \in Ids, n \in Numbers : Sent(parts[i][n].msg)'
      /\ \A v \in Workers, n \in Numbers : Known(task[v].stored[n].msg)'
      /\ \A v \in Workers : Awaiting(v) => CallFits(task[v])'
      /\ \A l : Tracked(l)' <=> Tracked(l)
  BY <1>2, <1>4, OnwardTracks
<1>6. CASE \A l \in MessageIds : Visible(l)' => Visible(l)
  <2>1. Loose' \subseteq Loose
    BY <1>2, <1>5, <1>6 DEF Loose, Minds, Awaiting
  <2>2. LateSends' \subseteq LateSends
    BY <1>1 DEF LateSends
  <2>3. Accounted'
    BY <1>2, <1>3, <2>1, <2>2, UnknownNat, AccountSame
  <2> QED
    BY <1>2, <1>5, <2>3 DEF TracksAll, Awaiting
<1>7. CASE call.kind \in Calls.send
           /\ \E m \in MessageIds : \A l \in MessageIds : l # m => (Visible(l)' <=> Visible(l))
  <2>1. PICK m \in MessageIds : \A l \in MessageIds : l # m => (Visible(l)' <=> Visible(l))
    BY <1>7
  <2>2. Loose' \subseteq Loose \cup {m}
    BY <1>2, <1>5, <2>1 DEF Loose, Minds, Awaiting
  <2>3. call \in LateSends /\ LateSends' = LateSends \ {call}
    BY <1>1, <1>7 DEF LateSends
  <2>4. Accounted'
    BY <1>2, <1>3, <2>2, <2>3, UnknownNat, AccountLate
  <2> QED
    BY <1>2, <1>5, <2>4 DEF TracksAll, Awaiting
<1> QED
  BY <1>4, <1>6, <1>7


LEMMA AnswerFact ==
  ASSUME DeliveryInv, NEW w \in Workers, NEW reply, NEW msg, Answer(w, reply, msg)
  PROVE  /\ \A v \in Workers : v # w => task'[v] = task[v]
         /\ task'[w].at = task[w].at /\ \A v \in Workers : task'[v].stored = task[v].stored
         /\ task'[w].call.kind = task[w].call.kind /\ task'[w].call.msg = msg
         /\ task'[w].call.reply = reply
<1>1. task \in [Workers -> Task] /\ task[w] \in Task
  BY DEF DeliveryInv, RecordsOK
<1> QED
  BY <1>1 DEF Answer, Task, Call

(* The account when Telegram answers, as long as nothing comes into sight *)
LEMMA AnswerTracks ==
  ASSUME DeliveryInv, TracksAll, NEW w \in Workers, Awaiting(w), Onward, Arrived, UNCHANGED parts,
         NEW reply, NEW msg, Answer(w, reply, msg), CallFits(task[w])'
  PROVE  /\ \A i \in Ids, n \in Numbers : Sent(parts[i][n].msg)'
         /\ \A v \in Workers, n \in Numbers : Known(task[v].stored[n].msg)'
         /\ \A v \in Workers : Awaiting(v)' => CallFits(task[v])'
         /\ \A m : Tracked(m)' <=> Tracked(m)
         /\ \A m, v : v \in Workers /\ v # w => (Minds(v, m) <=> Minds(v, m)')
<1>1. \A v \in Workers : v # w => task'[v] = task[v]
  BY AnswerFact
<1>2. /\ \A i \in Ids, n \in Numbers : Sent(parts[i][n].msg)'
      /\ \A v \in Workers, n \in Numbers : Known(task[v].stored[n].msg)'
      /\ \A v \in Workers : task'[v] = task[v] /\ Awaiting(v) => CallFits(task[v])'
      /\ \A m : Tracked(m)' <=> Tracked(m)
  BY AnswerFact, OnwardTracks
<1>3. ASSUME NEW v \in Workers, Awaiting(v)' PROVE CallFits(task[v])'
  BY <1>1, <1>2, <1>3 DEF Awaiting
<1>4. \A m, v : v \in Workers /\ v # w => (Minds(v, m) <=> Minds(v, m)')
  BY <1>1 DEF Minds, Awaiting
<1> QED
  BY <1>2, <1>3, <1>4

LEMMA AcceptsTracks ==
  ASSUME DeliveryInv, TracksAll, NEW w \in Workers, TelegramAccepts(w)
  PROVE  TracksAll'
<1> DEFINE call == task[w].call
           k == task[w].at
<1>1. /\ Awaiting(w) /\ call.reply = "awaited" /\ HasRoom(call) /\ chat' = Applied(call)
      /\ call.msg # 0 => Visible(call.msg)
      /\ UNCHANGED <<parts, late, unknown>> /\ call \in Call /\ CallOK(w, task[w])
      /\ CallFits(task[w]) /\ k \in Numbers
  BY InWire, InCall DEF TelegramAccepts, TracksAll
<1>2. \E msg : /\ Answer(w, "ok", msg)
               /\ IF call.kind \in Calls.send THEN msg \in MessageIds /\ chat'[msg] # chat[msg]
                  ELSE msg = call.msg
  BY DEF TelegramAccepts
<1>3. PICK msg : /\ Answer(w, "ok", msg)
                 /\ IF call.kind \in Calls.send THEN msg \in MessageIds /\ chat'[msg] # chat[msg]
                    ELSE msg = call.msg
  BY <1>2
<1>4. /\ task'[w].at = k /\ task'[w].stored = task[w].stored
      /\ task'[w].call.kind = call.kind /\ task'[w].call.msg = msg /\ task'[w].call.reply = "ok"
  BY <1>3, AnswerFact
<1>5. /\ Onward /\ Arrived
      /\ \A l \in MessageIds : l # msg => (Visible(l)' => Visible(l))
      /\ call.kind \notin Calls.send => \A l \in MessageIds : Visible(l)' => Visible(l)
      /\ call.kind \in Calls.send => Sent(msg)'
      /\ call.kind \in Calls.delete => Over(msg)'
  <2>1. CASE chat' = chat
    <3>1. /\ Onward /\ Arrived /\ \A l : Visible(l)' <=> Visible(l)
          /\ call.kind \notin Calls.send
      BY <1>3, <2>1 DEF Onward, Arrived, Over, Sent, Visible
    <3>2. ASSUME call.kind \in Calls.delete PROVE FALSE
      <4>1. Visible(call.msg) /\ call.msg \in MessageIds /\ call.kind \notin Calls.edit
        BY <1>1, <3>1, <3>2 DEF CallOK, Call, MessageIds, Calls
      <4>2. chat' = [chat EXCEPT ![call.msg] = "gone"]
        BY <1>1, <3>1, <4>1 DEF Applied
      <4>3. chat'[call.msg] = "gone"
        BY <4>1, <4>2 DEF DeliveryInv, WireOK
      <4> QED
        BY <2>1, <4>1, <4>3 DEF Visible
    <3> QED
      BY <3>1, <3>2
  <2>2. CASE chat' # chat
    <3>1. PICK m \in MessageIds, x \in Texts \cup {Placeholder, "gone"} :
             /\ chat' = [chat EXCEPT ![m] = x]
             /\ IF call.kind \in Calls.send THEN chat[m] = "unsent"
                ELSE m = call.msg /\ Visible(m) /\ (call.kind \in Calls.delete => x = "gone")
      BY <1>1, <2>2, AppliedFact
    <3>2. m = msg
      <4>1. \A l \in MessageIds : l # m => chat'[l] = chat[l]
        BY <3>1 DEF DeliveryInv, WireOK
      <4> QED
        BY <1>3, <3>1, <4>1
    <3>3. /\ Onward /\ Arrived
          /\ \A l \in MessageIds : l # m => (Visible(l)' <=> Visible(l))
          /\ Sent(m)' /\ (x \in {"gone", "removed"} => Over(m)')
      BY <3>1, OneMessage
    <3>4. call.kind \notin Calls.send => Visible(m)
      BY <3>1
    <3>5. call.kind \in Calls.delete => call.kind \notin Calls.send /\ x = "gone"
      BY <3>1 DEF Calls
    <3> QED
      BY <3>2, <3>3, <3>4, <3>5 DEF Sent, Over
  <2> QED
    BY <2>1, <2>2
<1>6. CallFits(task[w])'
  <2>1. call.kind \in PartCalls => msg = task[w].stored[k].msg /\ call.kind \notin Calls.send
    BY <1>1, <1>3 DEF CallFits, PartCalls, Calls
  <2>2. task[w].stored[k].msg \in 0..MaxMessages
    <3>1. task[w].stored[k] \in Part
      BY <1>1 DEF DeliveryInv, RecordsOK, Task
    <3> QED
      BY <3>1 DEF Part
  <2>3. call.kind \in Calls.send /\ task[w].stored[k].msg # 0 => Over(task[w].stored[k].msg)'
    <3>1. PICK m0 \in 0..MaxMessages : m0 = task[w].stored[k].msg
      BY <2>2
    <3>2. call.kind \in Calls.send /\ m0 # 0 => Over(m0)'
      BY <1>1, <1>5, <3>1 DEF CallFits, Onward
    <3>3. (task[w].stored[k].msg)' = m0
      BY <1>4, <3>1
    <3> QED
      BY <3>1, <3>2, <3>3 DEF Over
  <2> QED
    BY <1>4, <1>5, <2>1, <2>3 DEF CallFits
<1>7. /\ \A i \in Ids, n \in Numbers : Sent(parts[i][n].msg)'
      /\ \A v \in Workers, n \in Numbers : Known(task[v].stored[n].msg)'
      /\ \A v \in Workers : Awaiting(v)' => CallFits(task[v])'
      /\ \A m : Tracked(m)' <=> Tracked(m)
      /\ \A m, v : v \in Workers /\ v # w => (Minds(v, m) <=> Minds(v, m)')
  BY <1>1, <1>3, <1>5, <1>6, AnswerTracks
<1>8. Minds(w, msg)' /\ \A m \in MessageIds : Minds(w, m) => m = msg
  <2>1. Minds(w, msg)'
    BY <1>1, <1>4 DEF Minds, Awaiting
  <2>2. ASSUME NEW m \in MessageIds, Minds(w, m) PROVE m = msg
    <3>1. m = call.msg /\ m # 0
      BY <2>2, NumbersFact DEF Minds
    <3>2. call.kind \notin Calls.send
      BY <1>1, <3>1 DEF CallFits
    <3> QED
      BY <1>3, <3>1, <3>2
  <2> QED
    BY <2>1, <2>2
<1>9. Loose' \subseteq Loose
  <2> SUFFICES ASSUME NEW m \in Loose' PROVE m \in Loose
    OBVIOUS
  <2>1. /\ m \in MessageIds /\ Visible(m)' /\ ~Tracked(m)
        /\ \A v \in Workers : ~Minds(v, m)'
    BY <1>7 DEF Loose
  <2>2. m # msg
    BY <1>8, <2>1
  <2>3. ASSUME NEW v \in Workers PROVE ~Minds(v, m)
    BY <1>7, <1>8, <2>1, <2>2
  <2> QED
    BY <1>5, <2>1, <2>2, <2>3 DEF Loose
<1>10. LateSends' \subseteq LateSends /\ IsFiniteSet(late') /\ Accounted
  BY <1>1 DEF LateSends, TracksAll, Accounted
<1>11. Accounted'
  BY <1>1, <1>9, <1>10, UnknownNat, AccountSame
<1> QED
  BY <1>7, <1>11 DEF TracksAll


LEMMA RefusesTracks ==
  ASSUME DeliveryInv, TracksAll, NEW w \in Workers, TelegramRefuses(w)
  PROVE  TracksAll'
<1> DEFINE call == task[w].call
           k == task[w].at
<1>1. /\ Awaiting(w) /\ call.reply = "awaited" /\ UNCHANGED <<parts, chat, late>>
      /\ unknown' = IF LastResort(call) THEN unknown + 1 ELSE unknown
      /\ call \in Call /\ CallFits(task[w]) /\ k \in Numbers
  BY InWire, InCall DEF TelegramRefuses, TracksAll
<1>2. PICK m0 \in 0..MaxMessages : m0 = call.msg
  BY <1>1 DEF Call
<1>3. PICK reply : /\ Answer(w, reply, m0) /\ reply # "ok" /\ reply # "awaited"
                   /\ reply = "missing" => m0 # 0 /\ ~Visible(m0)
  BY <1>2 DEF TelegramRefuses, Refusals
<1>4. /\ task'[w].at = k /\ task'[w].stored = task[w].stored
      /\ task'[w].call.kind = call.kind /\ task'[w].call.msg = m0 /\ task'[w].call.reply = reply
  BY <1>3, AnswerFact
<1>5. Onward /\ Arrived /\ \A l : (Visible(l)' <=> Visible(l)) /\ (Over(l)' <=> Over(l))
  BY <1>1 DEF Onward, Arrived, Over, Sent, Visible
(* What Telegram does not know any more was there. *)
<1>6. call.kind \in PartCalls /\ reply = "missing" => Over(m0)
  <2> SUFFICES ASSUME call.kind \in PartCalls, reply = "missing" PROVE Over(m0)
    OBVIOUS
  <2>1. Known(m0) /\ m0 # 0 /\ ~Visible(m0)
    BY <1>1, <1>2, <1>3 DEF CallFits, TracksAll
  <2>2. Tracked(m0) => chat[m0] # "unsent"
    BY <2>1 DEF Tracked, TracksAll, Sent
  <2> QED
    BY <2>1, <2>2 DEF Known, Visible, Over
<1>7. CallFits(task[w])'
  <2>1. /\ call.kind \in PartCalls => m0 = task[w].stored[k].msg /\ call.kind \notin Calls.send
        /\ call.kind \in Calls.send => m0 = 0
        /\ call.kind \in Calls.send /\ task[w].stored[k].msg # 0 => Over(task[w].stored[k].msg)
    BY <1>1, <1>2 DEF CallFits, PartCalls, Calls
  <2> QED
    BY <1>3, <1>4, <1>5, <1>6, <2>1 DEF CallFits
<1>8. /\ \A i \in Ids, n \in Numbers : Sent(parts[i][n].msg)'
      /\ \A v \in Workers, n \in Numbers : Known(task[v].stored[n].msg)'
      /\ \A v \in Workers : Awaiting(v)' => CallFits(task[v])'
      /\ \A m : Tracked(m)' <=> Tracked(m)
      /\ \A m, v : v \in Workers /\ v # w => (Minds(v, m) <=> Minds(v, m)')
  BY <1>1, <1>3, <1>5, <1>7, AnswerTracks
<1>9. \A m : Minds(w, m) => m = m0
  BY <1>2 DEF Minds
<1>10. Loose' \subseteq Loose \cup {m0}
  <2> SUFFICES ASSUME NEW m \in Loose', m # m0 PROVE m \in Loose
    OBVIOUS
  <2>1. m \in MessageIds /\ Visible(m) /\ ~Tracked(m) /\ \A v \in Workers : ~Minds(v, m)'
    BY <1>5, <1>8 DEF Loose
  <2>2. ASSUME NEW v \in Workers PROVE ~Minds(v, m)
    BY <1>8, <1>9, <2>1
  <2> QED
    BY <2>1, <2>2 DEF Loose
<1>11. ASSUME ~LastResort(call) PROVE m0 \notin Loose'
  <2> SUFFICES ASSUME m0 \in Loose' PROVE FALSE
    OBVIOUS
  <2>1. Visible(m0) /\ ~Minds(w, m0)'
    BY <1>5 DEF Loose
  <2>2. call.kind \notin {"undo", "undoFailed"}
    BY <1>2, <1>11, <2>1 DEF LastResort
  <2>3. Minds(w, m0)'
    BY <1>1, <1>4, <2>2 DEF Minds, Awaiting
  <2> QED
    BY <2>1, <2>3
<1>12. LateSends' \subseteq LateSends /\ IsFiniteSet(late') /\ Accounted
  BY <1>1 DEF LateSends, TracksAll, Accounted
<1>13. Accounted'
  <2>1. CASE LastResort(call)
    BY <1>1, <1>10, <1>12, <2>1, UnknownNat, AccountMessage
  <2>2. CASE ~LastResort(call)
    BY <1>1, <1>10, <1>11, <1>12, <2>2, UnknownNat, AccountSame
  <2> QED
    BY <2>1, <2>2
<1> QED
  BY <1>8, <1>13 DEF TracksAll

LEMMA TimesOutTracks ==
  ASSUME DeliveryInv, TracksAll, NEW w \in Workers, TelegramTimesOut(w)
  PROVE  TracksAll'
<1> DEFINE call == task[w].call
           k == task[w].at
<1>1. /\ Awaiting(w) /\ call.reply = "awaited" /\ UNCHANGED <<parts, chat>>
      /\ unknown' = unknown + 1 /\ late' = late \cup {call}
      /\ Answer(w, "temporary", call.msg)
      /\ CallFits(task[w]) /\ k \in Numbers
  BY InWire, InCall DEF TelegramTimesOut, TracksAll
<1>2. PICK m0, c0 : m0 = call.msg /\ c0 = call
  OBVIOUS
<1>3. /\ task'[w].at = k /\ task'[w].stored = task[w].stored
      /\ task'[w].call.kind = call.kind /\ task'[w].call.msg = m0
      /\ task'[w].call.reply = "temporary"
  BY <1>1, <1>2, AnswerFact
<1>4. Onward /\ Arrived /\ \A l : (Visible(l)' <=> Visible(l)) /\ (Over(l)' <=> Over(l))
  BY <1>1 DEF Onward, Arrived, Over, Sent, Visible
<1>5. CallFits(task[w])'
  BY <1>1, <1>2, <1>3, <1>4 DEF CallFits
<1>6. /\ \A i \in Ids, n \in Numbers : Sent(parts[i][n].msg)'
      /\ \A v \in Workers, n \in Numbers : Known(task[v].stored[n].msg)'
      /\ \A v \in Workers : Awaiting(v)' => CallFits(task[v])'
      /\ \A m : Tracked(m)' <=> Tracked(m)
      /\ \A m, v : v \in Workers /\ v # w => (Minds(v, m) <=> Minds(v, m)')
  BY <1>1, <1>4, <1>5, AnswerTracks
<1>7. \A m : Minds(w, m) => m = m0
  BY <1>2 DEF Minds
<1>8. Loose' \subseteq Loose \cup {m0}
  <2> SUFFICES ASSUME NEW m \in Loose', m # m0 PROVE m \in Loose
    OBVIOUS
  <2>1. m \in MessageIds /\ Visible(m) /\ ~Tracked(m) /\ \A v \in Workers : ~Minds(v, m)'
    BY <1>4, <1>6 DEF Loose
  <2>2. ASSUME NEW v \in Workers PROVE ~Minds(v, m)
    BY <1>6, <1>7, <2>1
  <2> QED
    BY <2>1, <2>2 DEF Loose
<1>9. Accounted /\ IsFiniteSet(late')
  <2>1. Accounted /\ IsFiniteSet(late)
    BY DEF TracksAll, Accounted
  <2> QED
    BY <1>1, <2>1, FS_AddElement
<1>10. Accounted'
  <2>1. CASE call.kind \in Calls.send
    <3>1. m0 = 0
      BY <1>1, <1>2, <2>1 DEF CallFits
    <3>2. Loose' \subseteq Loose
      BY <1>8, <3>1, UnknownNat DEF Loose
    <3>3. LateSends' \subseteq LateSends \cup {c0}
      BY <1>1, <1>2 DEF LateSends
    <3> QED
      BY <1>1, <1>9, <3>2, <3>3, UnknownNat, AccountCall
  <2>2. CASE call.kind \notin Calls.send
    <3>1. LateSends' \subseteq LateSends
      BY <1>1, <2>2 DEF LateSends
    <3> QED
      BY <1>1, <1>8, <1>9, <3>1, UnknownNat, AccountMessage
  <2> QED
    BY <2>1, <2>2
<1> QED
  BY <1>6, <1>10 DEF TracksAll


-----------------------------------------------------------------------------
(* Commands *)

(* A command drops a row only before anything was sent for it, unless it drops
   them all. *)
LEMMA CommandTracks ==
  ASSUME DeliveryInv, TracksAll, DeliveryCommand, contest' # "deleted"
  PROVE  TracksAll'
<1>1. /\ SwissNext \/ MatchNext \/ ContestNext
      /\ Cascade /\ UNCHANGED <<chat, task, late, unknown>>
  BY CommandIsNext DEF DeliveryCommand
<1>2. OrderInv' /\ Moved
  BY <1>1, CommandsOrder DEF DeliveryInv
<1>3. ASSUME NEW i \in Ids, NEW n \in Numbers PROVE parts'[i][n].msg = parts[i][n].msg
  <2>1. /\ parts'[i] = IF Exists(rows'[i]) THEN parts[i] ELSE NoParts
        /\ rows[i].messages = Summary(parts[i]) /\ (~Exists(rows[i]) => parts[i] = NoParts)
        /\ NoParts[n].msg = 0
    BY <1>1 DEF Cascade, DeliveryInv, Mirrored, NoParts, NoPart
  <2>2. CASE Exists(rows'[i])
    BY <2>1, <2>2
  <2>3. CASE ~Exists(rows'[i]) /\ ~Exists(rows[i])
    BY <2>1, <2>3
  <2>4. CASE ~Exists(rows'[i]) /\ Exists(rows[i])
    <3>1. rows'[i].type # rows[i].type
      BY <2>4 DEF Exists
    <3>2. ~Begun(rows[i])
      BY <1>2, <2>4, <3>1 DEF Moved, Carried
    <3>3. parts[i][n].msg = 0
      BY <2>1, <2>4, <3>2, SummaryFact DEF Begun
    <3> QED
      BY <2>1, <2>4, <3>3
  <2> QED
    BY <2>2, <2>3, <2>4
<1>4. \A m : Tracked(m)' <=> Tracked(m)
  BY <1>3 DEF Tracked
<1> QED
  BY <1>1, <1>3, <1>4
     DEF TracksAll, Sent, Known, Over, Awaiting, CallFits, Accounted, Loose, LateSends, Visible,
         Minds

LEMMA ContestGoesOn ==
  ASSUME [DeliveryNext]_allVars
  PROVE  /\ contest' # "deleted" => contest # "deleted"
         /\ ~DeliveryCommand => contest' = contest
<1>1. DeliveryCommand => contest = "open"
  BY CommandIsNext
     DEF SwissNext, MatchNext, ContestNext, Command, SaveSwissSettings, SaveSwissPrediction,
         SaveSwissResult, CreateMatch, SaveMatchResult, DeleteMatch, SaveMasterSwitch,
         PublishLeaderboard, CompleteContest, DeleteContest
<1>2. ~DeliveryCommand => contest' = contest
  BY DEF DeliveryNext, DeliveryStep, DeliveryTrouble, DeliveryUnchanged, Claim, Prepare,
         BeginDelivery, StartDelivery, NextPart, TelegramAccepts, TelegramRefuses,
         TelegramTimesOut, HandleSend, HandleEdit, HandleDelete, HandleNeutralize, HandleUndo,
         HandleRestore, HandleBlank, HandleRetract, HandleRetire, Handling, Answered, ClaimLost,
         DatabaseFails, CrashDelivery, Crash, PreparationFails, RenderingFails, LateCall,
         RemovedByHand, Tick, vars, allVars, untouched
<1> QED
  BY <1>1, <1>2

LEMMA NextTracks == TrackInv /\ [DeliveryNext]_allVars => TrackInv'
<1> SUFFICES ASSUME TrackInv, [DeliveryNext]_allVars, contest' # "deleted"
             PROVE  TracksAll'
  BY DeliveryNextInv DEF TrackInv
<1>1. DeliveryInv /\ TracksAll
  BY ContestGoesOn DEF TrackInv
<1>2. CASE DeliveryCommand
  BY <1>1, <1>2, CommandTracks
<1>3. ASSUME NEW w \in Workers, CoroutineStep(w) PROVE TracksAll'
  BY <1>1, <1>3, NextPartTracks, AcceptsTracks, RefusesTracks, TimesOutTracks, SendTracks,
     PartTracks, UndoTracks, DatabaseTracks DEF CoroutineStep
<1>4. ASSUME NEW w \in Workers, BeginDelivery(w) \/ CrashDelivery(w) PROVE TracksAll'
  BY <1>1, <1>4, BeginTracks, CrashTracks
<1>5. CASE UNCHANGED deliveryVars
  BY <1>1, <1>5, StillTracks
<1>6. CASE LateCall \/ RemovedByHand
  BY <1>1, <1>6, LateTracks, RemovedTracks
<1>7. \/ DeliveryCommand \/ UNCHANGED deliveryVars \/ LateCall \/ RemovedByHand
      \/ \E w \in Workers : CoroutineStep(w) \/ BeginDelivery(w) \/ CrashDelivery(w)
  BY DEF DeliveryNext, DeliveryStep, DeliveryTrouble, CoroutineStep, DeliveryUnchanged, allVars,
         deliveryVars
<1> QED
  BY <1>2, <1>3, <1>4, <1>5, <1>6, <1>7

LEMMA InitTracks == DeliveryInit => TrackInv
<1> SUFFICES ASSUME DeliveryInit PROVE TracksAll
  BY DeliveryInitInv DEF TrackInv
<1>1. \A i \in Ids, n \in Numbers : parts[i][n].msg = 0
  BY DEF DeliveryInit, NoParts, NoPart
<1>2. \A w \in Workers : task[w] = NoTask
  BY DEF DeliveryInit
<1>3. \A n \in Numbers : NoTask.stored[n].msg = 0
  BY DEF NoTask, NoParts, NoPart
<1>4. \A w \in Workers : ~Awaiting(w)
  BY <1>2, NoTaskOK DEF Awaiting
<1>5. Loose = {} /\ LateSends = {} /\ late = {} /\ unknown = 0
  BY DEF DeliveryInit, Loose, LateSends, Visible
<1>6. Accounted
  BY <1>5, FS_EmptySet DEF Accounted
<1> QED
  BY <1>1, <1>2, <1>3, <1>4, <1>6 DEF TracksAll, Sent, Known

(* No message is left behind in the chat: one that shows, that the database
   does not know of and that no worker is about to record or take back is owed
   to a call whose outcome the program never learned or whose undoing Telegram
   refused, and there are no more of them than such calls, however commands,
   crashes and late answers overtake deliver_publication
   (_compensate_untracked_message, _save_part). *)
THEOREM NothingUntracked == DeliverySpec => []NoUntrackedMessage
<1>1. TrackInv => NoUntrackedMessage
  <2> SUFFICES ASSUME DeliveryInv, TracksAll
               PROVE  Cardinality({m \in MessageIds : Visible(m) /\ ~Tracked(m) /\ ~InHand(m)})
                        <= unknown
    BY DEF TrackInv, NoUntrackedMessage
  <2> DEFINE S == {m \in MessageIds : Visible(m) /\ ~Tracked(m) /\ ~InHand(m)}
  <2>1. S \subseteq Loose
    BY DEF Loose, Minds, InHand
  <2>2. Cardinality(S) \in Nat /\ Cardinality(S) <= Cardinality(Loose)
        /\ Cardinality(Loose) \in Nat
    BY <2>1, LooseFinite, FS_Subset, FS_CardinalityType
  <2>3. Cardinality(LateSends) \in Nat /\ Cardinality(Loose) + Cardinality(LateSends) <= unknown
    BY LateFinite DEF TracksAll, Accounted
  <2> QED
    BY <2>2, <2>3, UnknownNat
<1> QED
  BY <1>1, InitTracks, NextTracks, PTL DEF DeliverySpec

-----------------------------------------------------------------------------
(* What the chat shows: the inductive invariant, for one process that has
   learned every outcome *)

(* A recorded message is there and shows the text it was recorded with, unless
   it was removed by hand or the part is marked. *)
Faithful(p) ==
  p.msg # 0 => /\ chat[p.msg] # "gone"
               /\ p.hash = p.text => chat[p.msg] \in {p.text, "removed"}

(* A part is marked by its hash alone, and a retired one says nothing. *)
Sound(p) ==
  /\ p.hash # p.text => p.hash \in {"stale-edit", "terminal-failed"}
  /\ p.status = "retired" => p.text = Placeholder
  /\ p.hash = "terminal-failed" => p.status = "terminal_failed"

(* Part n is as the coroutine with locals t wants it. *)
Said(p, t, n) ==
  IF n <= Len(t.desired) THEN p.msg # 0 /\ p.hash = t.desired[n]
  ELSE p.msg = 0 \/ p.status # "active"

Reached(c) == chat[c.msg] \in {c.text, "removed"}

(* What a call shows: what it was to show once it succeeded, what was recorded
   as long as it did not. *)
CallShows(w) ==
  LET t == task[w]
      c == t.call
  IN  /\ c.kind \in Calls.send \cup {"edit"} => c.text = t.desired[t.at]
      /\ c.kind \in {"neutralize", "blank", "retire"} => c.text = Placeholder
      /\ c.kind \in Calls.send /\ c.reply = "ok" => ~Tracked(c.msg) /\ Reached(c)
      /\ c.kind \in {"undo", "undoFailed"} => ~Tracked(c.msg)
      /\ c.kind \in {"edit", "neutralize", "delete"} /\ c.reply # "ok" =>
           Faithful(PartsOf(w)[t.at])
      /\ c.kind \in Calls.edit /\ c.reply = "ok" => Reached(c)
      /\ c.kind \in {"blank", "retire"} /\ c.reply \notin {"awaited", "ok"} =>
           chat[c.msg] = "removed"
      /\ c.kind \in PartCalls /\ (c.kind \in Calls.delete => c.reply # "ok") =>
           chat[c.msg] # "gone"

(* No two parts have the same message. *)
Distinct ==
  \A i, j \in Ids, n, k \in Numbers :
    parts[i][n].msg # 0 /\ parts[i][n].msg = parts[j][k].msg => i = j /\ n = k

Calm(w) ==
  /\ late = {}
  /\ Distinct
  /\ \A i \in Ids, n \in Numbers :
       /\ Sound(parts[i][n])
       /\ ~InHand(parts[i][n].msg) => Faithful(parts[i][n])
  /\ Awaiting(w) => CallShows(w)
  /\ worker[w].pc = "delivering" =>
       \A n \in Numbers : n < task[w].at => Said(PartsOf(w)[n], task[w], n)

ShownInv ==
  /\ TrackInv
  /\ contest = "deleted" => \A i \in Ids : ~Exists(rows[i])
  /\ \A w \in Workers :
       Workers = {w} /\ contest # "deleted" /\ unknown = 0 => Calm(w)

-----------------------------------------------------------------------------
(* A call and the parts *)

(* No part but the one in hand has the message of the call. *)
LEMMA HandAlone ==
  ASSUME DeliveryInv, TracksAll, NEW w \in Workers, Calm(w), Awaiting(w), OwnsClaim(w),
         NEW i \in Ids, NEW n \in Numbers, parts[i][n].msg # 0, parts[i][n].msg = task[w].call.msg
  PROVE  task[w].call.kind \in PartCalls /\ i = worker[w].id /\ n = task[w].at
<1> DEFINE c == task[w].call
           k == task[w].at
<1>1. /\ worker[w].pc = "delivering" /\ c \in Call /\ k \in Numbers
      /\ PartsOf(w)[k] = task[w].stored[k] /\ worker[w].id \in Ids
  BY InWire, InCall, InDelivery
<1>2. CallFits(task[w]) /\ CallShows(w)
  BY DEF TracksAll, Calm
<1>3. Tracked(c.msg)
  BY DEF Tracked
<1>4. c.kind \notin {"undo", "undoFailed"}
  BY <1>2, <1>3 DEF CallShows
<1>5. c.kind \notin Calls.send
  BY <1>2, <1>3 DEF CallShows, CallFits
<1>6. c.kind \in PartCalls
  BY <1>1, <1>4, <1>5 DEF Call, Calls, PartCalls, Awaiting
<1>7. parts[worker[w].id][k].msg = c.msg
  BY <1>1, <1>2, <1>6 DEF CallFits, PartsOf
<1> QED
  BY <1>1, <1>6, <1>7 DEF Calm, Distinct

(* Hence every other part is faithful. *)
LEMMA OthersFaithful ==
  ASSUME DeliveryInv, TracksAll, NEW w \in Workers, Workers = {w}, Calm(w), Awaiting(w), OwnsClaim(w),
         NEW i \in Ids, NEW n \in Numbers,
         \/ i # worker[w].id \/ n # task[w].at
         \/ task[w].call.kind \notin PartCalls
         \/ Faithful(PartsOf(w)[task[w].at])
  PROVE  Faithful(parts[i][n])
<1>1. CASE parts[i][n].msg # 0 /\ parts[i][n].msg = task[w].call.msg
  <2>1. task[w].call.kind \in PartCalls /\ i = worker[w].id /\ n = task[w].at
    BY <1>1, HandAlone
  <2> QED
    BY <2>1 DEF PartsOf
<1>2. CASE parts[i][n].msg = 0
  BY <1>2 DEF Faithful
<1>3. CASE parts[i][n].msg # task[w].call.msg
  BY <1>3 DEF Calm, InHand
<1> QED
  BY <1>1, <1>2, <1>3

(* A part is recorded. *)
LEMMA PutShows ==
  ASSUME DeliveryInv, TracksAll, NEW w \in Workers, Workers = {w}, Calm(w), Awaiting(w),
         chat' = chat, NEW p \in Part, Puts(w, p), p.msg \in {0, task[w].call.msg},
         Sound(p), Faithful(p)
  PROVE  /\ Distinct'
         /\ \A i \in Ids, n \in Numbers : Sound(parts'[i][n]) /\ Faithful(parts[i][n])'
<1> DEFINE j == worker[w].id
           k == task[w].at
<1>0. worker[w].pc = "delivering" /\ OwnsClaim(w)
  BY InWire DEF Puts
<1>1. /\ parts \in [Ids -> [Numbers -> Part]] /\ j \in Ids /\ k \in Numbers
      /\ PartsOf(w) = parts[j]
  BY <1>0, InDelivery, InCall DEF DeliveryInv, RecordsOK, PartsOf
<1>2. /\ parts' = [parts EXCEPT ![j] = With(w, p)]
      /\ With(w, p)[k] = p /\ \A n \in Numbers : n # k => With(w, p)[n] = parts[j][n]
  BY <1>0, <1>1, WithPart DEF Puts
<1>3. /\ parts'[j][k] = p
      /\ \A i \in Ids, n \in Numbers : i # j \/ n # k => parts'[i][n] = parts[i][n]
  BY <1>1, <1>2
<1>4. \A i \in Ids, n \in Numbers :
        (i # j \/ n # k) /\ parts[i][n].msg # 0 => parts[i][n].msg # task[w].call.msg
  BY <1>0, HandAlone
<1>5. Distinct'
  <2> SUFFICES ASSUME NEW i1 \in Ids, NEW i2 \in Ids, NEW n1 \in Numbers, NEW n2 \in Numbers,
                      parts'[i1][n1].msg # 0, parts'[i1][n1].msg = parts'[i2][n2].msg
               PROVE  i1 = i2 /\ n1 = n2
    BY DEF Distinct
  <2>1. CASE (i1 # j \/ n1 # k) /\ (i2 # j \/ n2 # k)
    BY <1>3, <2>1 DEF Calm, Distinct
  <2>2. CASE i1 = j /\ n1 = k /\ (i2 # j \/ n2 # k)
    BY <1>3, <1>4, <2>2
  <2>3. CASE (i1 # j \/ n1 # k) /\ i2 = j /\ n2 = k
    BY <1>3, <1>4, <2>3
  <2> QED
    BY <2>1, <2>2, <2>3
<1>6. ASSUME NEW i \in Ids, NEW n \in Numbers
      PROVE  Sound(parts'[i][n]) /\ Faithful(parts[i][n])'
  <2>1. CASE i = j /\ n = k
    BY <1>3, <2>1 DEF Faithful
  <2>2. CASE i # j \/ n # k
    <3>1. Faithful(parts[i][n]) /\ Sound(parts[i][n])
      BY <1>0, <2>2, OthersFaithful DEF Calm
    <3>2. parts'[i][n] = parts[i][n]
      BY <1>3, <2>2
    <3> QED
      BY <3>1, <3>2 DEF Faithful
  <2> QED
    BY <2>1, <2>2
<1> QED
  BY <1>5, <1>6

-----------------------------------------------------------------------------
(* How an answer is dealt with: the part in hand is let go, *)
LetsGo(w) ==
  /\ parts' = parts
  /\ task[w].call.kind \in PartCalls => Faithful(PartsOf(w)[task[w].at])
  /\ Ends(w) \/ task' = Asked(w, "resend", 0, task[w].desired[task[w].at])

(* or recorded, *)
RecordsPart(w, p) ==
  /\ Puts(w, p)
  /\ p.msg \in {0, task[w].call.msg} /\ Sound(p) /\ Faithful(p)
  /\ Ends(w) \/ (Passes(w) /\ Said(p, task[w], task[w].at))

(* or another call is made about it or to take it back. *)
Continues(w, kind, text) ==
  LET c == task[w].call
  IN  /\ parts' = parts /\ task' = Asked(w, kind, c.msg, text)
      /\ \/ kind \in {"undo", "undoFailed"} /\ c.kind \in Calls.send /\ c.reply = "ok"
         \/ /\ kind \in {"neutralize", "restore", "blank", "retract", "retire"}
            /\ c.kind \in PartCalls
            /\ chat[c.msg] # "gone"
            /\ kind \in {"neutralize", "blank", "retire"} => text = Placeholder
            /\ kind = "neutralize" => Faithful(PartsOf(w)[task[w].at])

ShowTurn(w) ==
  \/ LetsGo(w)
  \/ \E p \in Part : RecordsPart(w, p)
  \/ \E kind, text : Continues(w, kind, text)

LEMMA StillAt ==
  ASSUME DeliveryInv, NEW w \in Workers, Stretch(w), worker'[w].pc # "idle"
  PROVE  worker'[w] = worker[w]
<1>1. PICK s \in {worker[w], Idle} : worker' = [worker EXCEPT ![w] = s]
  BY StretchFrame
<1>2. worker \in [Workers -> WorkerState]
  BY DEF DeliveryInv, OrderInv, IInv, TypeOK
<1> QED
  BY <1>1, <1>2 DEF Idle

LEMMA LetsGoCalm ==
  ASSUME DeliveryInv, TracksAll, NEW w \in Workers, Workers = {w}, Calm(w), DeliveryInv',
         Stretch(w), Awaiting(w), OwnsClaim(w), chat' = chat, late' = late, LetsGo(w)
  PROVE  Calm(w)'
<1> DEFINE c == task[w].call
           k == task[w].at
<1>1. /\ worker[w].pc = "delivering" /\ k \in Numbers /\ task \in [Workers -> Task]
      /\ task[w] \in Task /\ Numbers \subseteq Nat \ {0}
  BY InWire, InCall, InDelivery, NumbersFact DEF DeliveryInv, RecordsOK
<1>2. \A i \in Ids, n \in Numbers : Faithful(parts[i][n])
  BY OthersFaithful DEF LetsGo
<1>3. \A i \in Ids, n \in Numbers : Faithful(parts[i][n])' /\ Sound(parts[i][n])'
  BY <1>2 DEF LetsGo, Faithful, Calm, Sound
<1>4. Distinct' /\ late' = {}
  BY DEF Calm, Distinct, LetsGo
<1>5. CASE Ends(w)
  <2>1. task'[w] = NoTask
    BY <1>1, <1>5 DEF Ends
  <2>2. ~Awaiting(w)' /\ \A n \in Numbers : ~(n < task'[w].at)
    BY <1>1, <2>1 DEF Awaiting, NoTask, NoCall
  <2> QED
    BY <1>3, <1>4, <2>2 DEF Calm
<1>6. CASE task' = Asked(w, "resend", 0, task[w].desired[k])
  <2>1. /\ task'[w].at = k /\ task'[w].desired = task[w].desired
        /\ task'[w].call = [kind |-> "resend", msg |-> 0, text |-> task[w].desired[k],
                            reply |-> "awaited"]
    BY <1>1, <1>6 DEF Asked, Task
  <2>2. CallShows(w)'
    BY <2>1 DEF CallShows, Calls, PartCalls
  <2>3. ASSUME worker'[w].pc = "delivering", NEW n \in Numbers, n < task'[w].at
        PROVE  Said(PartsOf(w)[n], task[w], n)'
    <3>1. worker'[w] = worker[w]
      BY <2>3, StillAt
    <3>2. PartsOf(w)'[n] = PartsOf(w)[n]
      BY <3>1 DEF PartsOf, LetsGo
    <3>3. Said(PartsOf(w)[n], task[w], n)
      BY <1>1, <2>1, <2>3 DEF Calm
    <3> QED
      BY <2>1, <3>2, <3>3 DEF Said
  <2> QED
    BY <1>3, <1>4, <2>2, <2>3 DEF Calm
<1> QED
  BY <1>5, <1>6 DEF LetsGo

LEMMA RecordsCalm ==
  ASSUME DeliveryInv, TracksAll, NEW w \in Workers, Workers = {w}, Calm(w), DeliveryInv',
         Stretch(w), Awaiting(w), chat' = chat, late' = late,
         NEW p \in Part, RecordsPart(w, p)
  PROVE  Calm(w)'
<1> DEFINE c == task[w].call
           k == task[w].at
<1>1. /\ worker[w].pc = "delivering" /\ k \in Numbers /\ task \in [Workers -> Task]
      /\ task[w] \in Task /\ Numbers \subseteq Nat \ {0} /\ parts \in [Ids -> [Numbers -> Part]]
      /\ worker[w].id \in Ids
  BY InWire, InCall, InDelivery, NumbersFact DEF DeliveryInv, RecordsOK
<1>2. Distinct' /\ \A i \in Ids, n \in Numbers : Sound(parts'[i][n]) /\ Faithful(parts[i][n])'
  BY PutShows DEF RecordsPart
<1>3. \A i \in Ids, n \in Numbers : Sound(parts[i][n])'
  BY <1>2 DEF Sound
<1>4. late' = {}
  BY DEF Calm
<1>5. CASE Ends(w)
  <2>1. task'[w] = NoTask
    BY <1>1, <1>5 DEF Ends
  <2>2. ~Awaiting(w)' /\ \A n \in Numbers : ~(n < task'[w].at)
    BY <1>1, <2>1 DEF Awaiting, NoTask, NoCall
  <2> QED
    BY <1>2, <1>3, <1>4, <2>2 DEF Calm
<1>6. CASE Passes(w) /\ Said(p, task[w], k)
  <2>1. task'[w].at = k + 1 /\ task'[w].desired = task[w].desired /\ ~Awaiting(w)'
    BY <1>1, <1>6 DEF Passes, Task, Awaiting, NoCall
  <2>2. ASSUME worker'[w].pc = "delivering", NEW n \in Numbers, n < task'[w].at
        PROVE  Said(PartsOf(w)[n], task[w], n)'
    <3>1. worker'[w] = worker[w]
      BY <2>2, StillAt
    <3>2. PartsOf(w)' = With(w, p)
      BY <1>1, <3>1 DEF PartsOf, RecordsPart, Puts
    <3>3. CASE n = k
      <4>1. PartsOf(w)'[n] = p
        BY <1>1, <3>2, <3>3, WithPart
      <4> QED
        BY <1>6, <2>1, <3>3, <4>1 DEF Said
    <3>4. CASE n # k
      <4>1. n < k
        BY <1>1, <2>1, <2>2, <3>4
      <4>2. PartsOf(w)'[n] = PartsOf(w)[n]
        BY <1>1, <3>2, <3>4, WithPart
      <4>3. Said(PartsOf(w)[n], task[w], n)
        BY <1>1, <4>1 DEF Calm
      <4> QED
        BY <2>1, <4>2, <4>3 DEF Said
    <3> QED
      BY <3>3, <3>4
  <2> QED
    BY <1>2, <1>3, <1>4, <2>1, <2>2 DEF Calm
<1> QED
  BY <1>5, <1>6 DEF RecordsPart

LEMMA ContinuesCalm ==
  ASSUME DeliveryInv, TracksAll, NEW w \in Workers, Workers = {w}, Calm(w), DeliveryInv',
         Stretch(w), Awaiting(w), OwnsClaim(w), chat' = chat, late' = late,
         NEW kind, NEW text, Continues(w, kind, text)
  PROVE  Calm(w)'
<1> DEFINE c == task[w].call
           k == task[w].at
<1>1. /\ worker[w].pc = "delivering" /\ k \in Numbers /\ task \in [Workers -> Task]
      /\ task[w] \in Task
  BY InWire, InCall, InDelivery DEF DeliveryInv, RecordsOK
<1>2. /\ task'[w].at = k /\ task'[w].desired = task[w].desired
      /\ task'[w].call = [kind |-> kind, msg |-> c.msg, text |-> text, reply |-> "awaited"]
  BY <1>1 DEF Continues, Asked, Task
<1>3. Awaiting(w)'
  BY <1>2 DEF Awaiting, Continues
<1>4. worker'[w] = worker[w]
  <2>1. task'[w] # NoTask
    BY <1>3 DEF Awaiting, NoTask, NoCall
  <2>2. worker'[w].pc = "delivering"
    BY <2>1 DEF DeliveryInv, Tasked
  <2> QED
    BY <2>2, StillAt
<1>5. PartsOf(w)' = PartsOf(w)
  BY <1>4 DEF PartsOf, Continues
<1>6. ASSUME NEW i \in Ids, NEW n \in Numbers
      PROVE  Sound(parts'[i][n]) /\ (~InHand(parts[i][n].msg)' => Faithful(parts[i][n])')
  <2>1. InHand(parts[i][n].msg) => InHand(parts[i][n].msg)'
    BY <1>2, <1>3 DEF InHand, Continues
  <2> QED
    BY <2>1 DEF Calm, Continues, Faithful
<1>7. CallShows(w)'
  <2>1. CASE kind \in {"undo", "undoFailed"} /\ c.kind \in Calls.send /\ c.reply = "ok"
    <3>1. ~Tracked(c.msg)
      BY <2>1 DEF Calm, CallShows
    <3>2. ~Tracked(task[w].call.msg)'
      BY <1>2, <3>1 DEF Tracked, Continues
    <3> QED
      BY <1>2, <2>1, <3>2 DEF CallShows, Calls, PartCalls
  <2>2. CASE kind \in {"neutralize", "restore", "blank", "retract", "retire"}
    <3>1. /\ chat[c.msg] # "gone"
          /\ kind \in {"neutralize", "blank", "retire"} => text = Placeholder
          /\ kind = "neutralize" => Faithful(PartsOf(w)[k])
      BY <2>2 DEF Continues
    <3>2. kind = "neutralize" => Faithful(PartsOf(w)[task[w].at])'
      BY <1>2, <1>5, <3>1 DEF Faithful
    <3> QED
      BY <1>2, <2>2, <3>1, <3>2 DEF CallShows, Calls, PartCalls
  <2> QED
    BY <2>1, <2>2 DEF Continues
<1>8. \A n \in Numbers : n < task'[w].at => Said(PartsOf(w)[n], task[w], n)'
  BY <1>1, <1>2, <1>5 DEF Calm, Said
<1>9. Distinct' /\ late' = {}
  BY DEF Calm, Distinct, Continues
<1>10. \A i \in Ids, n \in Numbers : Sound(parts[i][n])'
  BY <1>6 DEF Sound
<1> QED
  BY <1>6, <1>7, <1>8, <1>9, <1>10 DEF Calm

LEMMA TurnCalm ==
  ASSUME DeliveryInv, TracksAll, NEW w \in Workers, Workers = {w}, Calm(w), DeliveryInv',
         Stretch(w), Awaiting(w), OwnsClaim(w), chat' = chat, late' = late, ShowTurn(w)
  PROVE  Calm(w)'
BY LetsGoCalm, RecordsCalm, ContinuesCalm DEF ShowTurn

(* What may be recorded *)
LEMMA PartsRecorded ==
  ASSUME NEW msg, NEW text \in Texts \cup {Placeholder}
  PROVE  /\ NoPart.msg = 0 /\ Sound(NoPart) /\ Faithful(NoPart)
         /\ ActivePart(msg, text).msg = msg /\ ActivePart(msg, text).hash = text
         /\ Sound(ActivePart(msg, text))
         /\ chat[msg] \in {text, "removed"} => Faithful(ActivePart(msg, text))
         /\ RetiredPart(msg).msg = msg /\ RetiredPart(msg).status = "retired"
         /\ Sound(RetiredPart(msg))
         /\ chat[msg] \in {Placeholder, "removed"} => Faithful(RetiredPart(msg))
<1>1. /\ text \notin {"terminal-failed", "stale-edit"} /\ text # "gone"
      /\ Placeholder \notin {"terminal-failed", "gone"}
  BY TextsAssumption DEF Placeholder
<1>2. /\ ActivePart(msg, text).msg = msg /\ ActivePart(msg, text).hash = text
      /\ ActivePart(msg, text).text = text /\ ActivePart(msg, text).status = "active"
  BY DEF ActivePart
<1>3. /\ RetiredPart(msg).msg = msg /\ RetiredPart(msg).hash = Placeholder
      /\ RetiredPart(msg).text = Placeholder /\ RetiredPart(msg).status = "retired"
  BY DEF RetiredPart, ActivePart
<1>4. /\ NoPart.msg = 0 /\ NoPart.hash = Placeholder /\ NoPart.text = Placeholder
      /\ NoPart.status = "active"
  BY DEF NoPart
<1>5. Sound(NoPart) /\ Faithful(NoPart)
  BY <1>1, <1>4 DEF Sound, Faithful
<1>6. Sound(ActivePart(msg, text)) /\ Sound(RetiredPart(msg))
  BY <1>1, <1>2, <1>3 DEF Sound
<1>7. /\ chat[msg] \in {text, "removed"} => Faithful(ActivePart(msg, text))
      /\ chat[msg] \in {Placeholder, "removed"} => Faithful(RetiredPart(msg))
  BY <1>1, <1>2, <1>3 DEF Faithful
<1> QED
  BY <1>2, <1>3, <1>4, <1>5, <1>6, <1>7

LEMMA NoPartRecorded == NoPart \in Part /\ NoPart.msg = 0 /\ Sound(NoPart) /\ Faithful(NoPart)
<1>1. Placeholder \in Texts \cup {Placeholder}
  OBVIOUS
<1> QED
  BY <1>1, PartTypes, PartsRecorded

(* What is known of the part in hand *)
LEMMA PartKnown ==
  ASSUME DeliveryInv, TracksAll, NEW w \in Workers, Calm(w), NEW kind \in PartCalls,
         Answered(w, {kind}), OwnsClaim(w)
  PROVE  LET c == task[w].call
         IN  /\ worker[w].pc = "delivering" /\ Awaiting(w) /\ chat' = chat /\ late' = late
             /\ c.kind = kind /\ c.text \in Texts \cup {Placeholder} /\ c.msg # 0
             /\ c.reply \in {"ok", "temporary", "bad", "forbidden", "missing"}
             /\ CallShows(w)
             /\ StaleEdit(w) \in Part /\ StaleEdit(w).msg = c.msg /\ Sound(StaleEdit(w))
             /\ TerminalFailed(w) \in Part /\ TerminalFailed(w).msg = c.msg
             /\ Sound(TerminalFailed(w)) /\ TerminalFailed(w).status # "active"
             /\ chat[c.msg] # "gone" => Faithful(StaleEdit(w)) /\ Faithful(TerminalFailed(w))
             /\ chat[c.msg] = "removed" => Faithful(PartsOf(w)[task[w].at])
<1> DEFINE c == task[w].call
           k == task[w].at
           p == PartsOf(w)[k]
<1>1. {kind} \subseteq Calls.send \cup Calls.edit \cup Calls.delete
  BY DEF PartCalls, Calls
<1>2. /\ worker[w].pc = "delivering" /\ Awaiting(w) /\ c.kind = kind /\ k \in Numbers
      /\ c.text \in Texts \cup {Placeholder}
      /\ c.reply \in {"ok", "temporary", "bad", "forbidden", "missing"}
      /\ c.kind \notin Calls.send => c.msg # 0
  BY <1>1, Heard
<1>3. c.kind \notin Calls.send
  BY <1>2 DEF PartCalls, Calls
<1>4. p = task[w].stored[k] /\ p \in Part /\ worker[w].id \in Ids
  BY <1>2, InCall, InDelivery
<1>5. CallFits(task[w]) /\ CallShows(w)
  BY <1>2 DEF TracksAll, Calm
<1>6. p.msg = c.msg
  BY <1>2, <1>4, <1>5 DEF CallFits
<1>7. Sound(p)
  BY <1>2, <1>4 DEF Calm, PartsOf
<1>8. p.text \notin {"stale-edit", "terminal-failed"}
  BY <1>4, TextsAssumption DEF Part, Placeholder
<1>9. /\ StaleEdit(w) \in Part /\ TerminalFailed(w) \in Part
  BY <1>2, TerminalFailedPart
<1>10. /\ StaleEdit(w).msg = p.msg /\ StaleEdit(w).hash = "stale-edit"
       /\ StaleEdit(w).text = p.text /\ StaleEdit(w).status = p.status
  BY <1>4 DEF StaleEdit, Part
<1>11. /\ TerminalFailed(w).msg = p.msg /\ TerminalFailed(w).hash = "terminal-failed"
       /\ TerminalFailed(w).text = p.text /\ TerminalFailed(w).status = "terminal_failed"
  BY <1>4 DEF TerminalFailed, Part
<1>12. Sound(StaleEdit(w)) /\ Sound(TerminalFailed(w))
  BY <1>7, <1>10, <1>11 DEF Sound
<1>13. chat[c.msg] # "gone" => Faithful(StaleEdit(w)) /\ Faithful(TerminalFailed(w))
  BY <1>6, <1>8, <1>10, <1>11 DEF Faithful
<1>14. chat[c.msg] = "removed" => Faithful(p)
  BY <1>6 DEF Faithful
<1>15. chat' = chat /\ late' = late
  BY DEF Answered
<1> QED
  BY <1>2, <1>3, <1>5, <1>6, <1>9, <1>10, <1>11, <1>12, <1>13, <1>14, <1>15

LEMMA LengthFact == DeliveryInv => \A w \in Workers : Len(task[w].desired) \in Nat
<1> SUFFICES ASSUME DeliveryInv, NEW w \in Workers PROVE Len(task[w].desired) \in Nat
  OBVIOUS
<1>1. task[w].desired \in Contents \cup {<<>>}
  BY InDelivery DEF Task
<1> QED
  BY <1>1, ContentsFact, NumbersFact

(* How each stretch of code ends *)
LEMMA ShowTurns ==
  ASSUME DeliveryInv, NEW w \in Workers, OwnsClaim(w)
  PROVE  LET c == task[w].call
             k == task[w].at
             free == c.kind \in PartCalls => Faithful(PartsOf(w)[k])
         IN  /\ free /\ LeaveOvertaken(w, PartsOf(w)) => ShowTurn(w)
             /\ free => \A permanent : LeaveFailed(w, permanent) => ShowTurn(w)
             /\ \A p \in Part :
                  /\ p.msg \in {0, c.msg} /\ Sound(p) /\ Faithful(p)
                  /\ LeaveOvertaken(w, With(w, p)) \/ (PartDone(w, With(w, p)) /\ Said(p, task[w], k))
                  => ShowTurn(w)
             /\ \A kind, msg, text :
                  AskRenewed(w, kind, k, msg, text) =>
                    parts' = parts /\ (Ends(w) \/ task' = Asked(w, kind, msg, text))
<1> DEFINE c == task[w].call
           k == task[w].at
           free == c.kind \in PartCalls => Faithful(PartsOf(w)[k])
<1>1. free /\ LeaveOvertaken(w, PartsOf(w)) => ShowTurn(w)
  BY Endings DEF ShowTurn, LetsGo
<1>2. ASSUME free, NEW permanent, LeaveFailed(w, permanent) PROVE ShowTurn(w)
  BY <1>2, Endings DEF ShowTurn, LetsGo
<1>3. ASSUME NEW p \in Part, p.msg \in {0, c.msg}, Sound(p), Faithful(p),
             LeaveOvertaken(w, With(w, p)) \/ (PartDone(w, With(w, p)) /\ Said(p, task[w], k))
      PROVE  ShowTurn(w)
  <2>1. CASE LeaveOvertaken(w, With(w, p))
    <3>1. Puts(w, p) /\ Ends(w)
      BY <2>1 DEF LeaveOvertaken, Leave, Puts, Ends
    <3> QED
      BY <1>3, <3>1 DEF ShowTurn, RecordsPart
  <2>2. CASE PartDone(w, With(w, p)) /\ Said(p, task[w], k)
    <3>1. Puts(w, p) /\ Passes(w)
      BY <2>2, Endings
    <3> QED
      BY <1>3, <2>2, <3>1 DEF ShowTurn, RecordsPart
  <2> QED
    BY <1>3, <2>1, <2>2
<1>5. ASSUME NEW kind, NEW msg, NEW text, AskRenewed(w, kind, k, msg, text)
      PROVE  parts' = parts /\ (Ends(w) \/ task' = Asked(w, kind, msg, text))
  <2>1. CASE ClaimState(w) = "current"
    <3>1. task' = [Asked(w, kind, msg, text) EXCEPT ![w].at = k] /\ parts' = parts
      BY <1>5, <2>1 DEF AskRenewed
    <3>2. task \in [Workers -> Task]
      BY DEF DeliveryInv, RecordsOK
    <3>3. Asked(w, kind, msg, text)[w].at = k
          /\ Asked(w, kind, msg, text) \in [Workers -> [at : 1..(MaxParts + 1),
               desired : Contents \cup {<<>>}, stored : [Numbers -> Part],
               call : {[kind |-> kind, msg |-> msg, text |-> text, reply |-> "awaited"]} \cup Call]]
      BY <3>2 DEF Asked, Task
    <3>4. task' = Asked(w, kind, msg, text)
      BY <3>1, <3>3
    <3> QED
      BY <3>1, <3>4
  <2>2. CASE ClaimState(w) # "current"
    BY <1>5, <2>2, Endings DEF AskRenewed
  <2> QED
    BY <2>1, <2>2
<1> QED
  BY <1>1, <1>2, <1>3, <1>5

(* An edit that was overtaken *)
LEMMA UndoEditShows ==
  ASSUME DeliveryInv, TracksAll, NEW w \in Workers, Calm(w), OwnsClaim(w),
         NEW kind \in {"edit", "neutralize"}, Answered(w, {kind}), UndoEdit(w)
  PROVE  ShowTurn(w)
<1> DEFINE c == task[w].call
<1>1. kind \in PartCalls
  BY DEF PartCalls
<1>2. /\ c.kind = kind /\ CallShows(w)
      /\ StaleEdit(w) \in Part /\ StaleEdit(w).msg = c.msg /\ Sound(StaleEdit(w))
      /\ chat[c.msg] # "gone" => Faithful(StaleEdit(w))
  BY <1>1, PartKnown
<1>3. chat[c.msg] # "gone"
  BY <1>2 DEF CallShows, PartCalls, Calls
<1>4. CASE ~Allowed(ClaimedRow(w))
  <2>1. PICK text : Ask(w, "restore", c.msg, text)
    BY <1>4 DEF UndoEdit
  <2>2. Continues(w, "restore", text)
    BY <1>1, <1>2, <1>3, <2>1 DEF Ask, Continues
  <2> QED
    BY <2>2 DEF ShowTurn
<1>5. CASE Allowed(ClaimedRow(w)) /\ ClaimedRow(w).action = "withdraw"
  <2>1. Ask(w, "retract", c.msg, Placeholder)
    BY <1>5 DEF UndoEdit
  <2>2. Continues(w, "retract", Placeholder)
    BY <1>1, <1>2, <1>3, <2>1 DEF Ask, Continues
  <2> QED
    BY <2>2 DEF ShowTurn
<1>6. CASE Allowed(ClaimedRow(w)) /\ ClaimedRow(w).action # "withdraw"
  <2>1. LeaveOvertaken(w, With(w, StaleEdit(w)))
    BY <1>6 DEF UndoEdit, LeaveOvertaken
  <2> QED
    BY <1>2, <1>3, <2>1, ShowTurns
<1> QED
  BY <1>4, <1>5, <1>6

LEMMA EditShows ==
  ASSUME DeliveryInv, TracksAll, NEW w \in Workers, Calm(w), OwnsClaim(w), HandleEdit(w)
  PROVE  ShowTurn(w)
<1> DEFINE c == task[w].call
           k == task[w].at
<1>1. "edit" \in PartCalls /\ Answered(w, {"edit"})
  BY DEF PartCalls, HandleEdit, Handling
<1>2. /\ worker[w].pc = "delivering" /\ Awaiting(w)
      /\ c.kind = "edit" /\ c.text \in Texts \cup {Placeholder} /\ c.msg # 0 /\ CallShows(w)
  BY <1>1, PartKnown
<1>3. CASE ClaimState(w) # "current"
  BY <1>1, <1>3, UndoEditShows DEF HandleEdit
<1>4. CASE ClaimState(w) = "current" /\ c.reply = "ok"
  <2>1. PartDone(w, With(w, ActivePart(c.msg, c.text)))
    BY <1>4 DEF HandleEdit
  <2>2. chat[c.msg] \in {c.text, "removed"} /\ c.text = task[w].desired[k]
    BY <1>2, <1>4 DEF CallShows, Calls, Reached
  <2>3. c.msg \in 0..MaxMessages /\ k <= Len(task[w].desired)
    BY <1>2, InCall DEF CallOK, Call
  <2>4. PICK p \in Part : p = ActivePart(c.msg, c.text)
    BY <1>2, <2>3, PartTypes
  <2>5. p.msg = c.msg /\ p.hash = c.text /\ Sound(p) /\ Faithful(p)
    BY <1>2, <2>2, <2>4, PartsRecorded
  <2>6. Said(p, task[w], k)
    BY <1>2, <2>2, <2>3, <2>5 DEF Said
  <2> QED
    BY <2>1, <2>4, <2>5, <2>6, ShowTurns
<1>5. c.reply # "ok" => Faithful(PartsOf(w)[k])
  BY <1>2 DEF CallShows
<1>6. CASE ClaimState(w) = "current" /\ c.reply = "missing"
  <2>1. AskRenewed(w, "resend", k, 0, c.text)
    BY <1>6 DEF HandleEdit
  <2>2. c.text = task[w].desired[k]
    BY <1>2 DEF CallShows
  <2>3. parts' = parts /\ (Ends(w) \/ task' = Asked(w, "resend", 0, c.text))
    BY <2>1, ShowTurns
  <2> QED
    BY <1>5, <1>6, <2>2, <2>3 DEF ShowTurn, LetsGo
<1>7. CASE ClaimState(w) = "current" /\ c.reply \notin {"ok", "missing"}
  <2>1. LeaveFailed(w, c.reply = "bad")
    BY <1>7 DEF HandleEdit
  <2> QED
    BY <1>5, <1>7, <2>1, ShowTurns
<1> QED
  BY <1>3, <1>4, <1>6, <1>7

LEMMA DeleteShows ==
  ASSUME DeliveryInv, TracksAll, NEW w \in Workers, Calm(w), OwnsClaim(w), HandleDelete(w)
  PROVE  ShowTurn(w)
<1> DEFINE c == task[w].call
           k == task[w].at
           deleted == c.reply \in {"ok", "missing"}
<1>1. "delete" \in PartCalls /\ Answered(w, {"delete"})
  BY DEF PartCalls, HandleDelete, Handling
<1>2. /\ worker[w].pc = "delivering" /\ Awaiting(w)
      /\ c.kind = "delete" /\ c.msg # 0 /\ CallShows(w)
      /\ TerminalFailed(w) \in Part /\ TerminalFailed(w).msg = c.msg /\ Sound(TerminalFailed(w))
      /\ TerminalFailed(w).status # "active"
      /\ chat[c.msg] # "gone" => Faithful(TerminalFailed(w))
  BY <1>1, PartKnown
<1>3. k > Len(task[w].desired) /\ Len(task[w].desired) \in Nat /\ k \in Nat
  <2>1. k > Len(task[w].desired) /\ k \in Numbers
    BY <1>2, InCall DEF CallOK
  <2>2. Len(task[w].desired) \in Nat /\ k \in Nat
    BY <2>1, LengthFact, NumbersFact
  <2> QED
    BY <2>1, <2>2
<1>4. \A p : p.msg = 0 \/ p.status # "active" => Said(p, task[w], k)
  BY <1>3 DEF Said
<1>5. c.reply # "ok" => Faithful(PartsOf(w)[k]) /\ chat[c.msg] # "gone"
  BY <1>2 DEF CallShows, PartCalls, Calls
<1>6. NoPart \in Part /\ NoPart.msg = 0 /\ Sound(NoPart) /\ Faithful(NoPart)
      /\ Said(NoPart, task[w], k)
  <2>1. NoPart \in Part /\ NoPart.msg = 0 /\ Sound(NoPart) /\ Faithful(NoPart)
    BY NoPartRecorded
  <2> QED
    BY <1>4, <2>1
<1>7. CASE deleted
  <2>1. LeaveOvertaken(w, With(w, NoPart)) \/ PartDone(w, With(w, NoPart))
    BY <1>7 DEF HandleDelete
  <2> QED
    BY <1>6, <2>1, ShowTurns
<1>8. CASE ClaimState(w) # "current" /\ ~deleted
  <2>1. LeaveOvertaken(w, PartsOf(w))
    BY <1>8 DEF HandleDelete
  <2> QED
    BY <1>5, <1>8, <2>1, ShowTurns
<1>9. CASE ClaimState(w) = "current" /\ c.reply = "bad"
  <2>1. AskRenewed(w, "neutralize", k, c.msg, Placeholder)
    BY <1>9 DEF HandleDelete
  <2>2. parts' = parts /\ (Ends(w) \/ task' = Asked(w, "neutralize", c.msg, Placeholder))
    BY <2>1, ShowTurns
  <2>3. CASE Ends(w)
    BY <1>5, <1>9, <2>2, <2>3 DEF ShowTurn, LetsGo
  <2>4. CASE task' = Asked(w, "neutralize", c.msg, Placeholder)
    <3>1. Continues(w, "neutralize", Placeholder)
      BY <1>1, <1>2, <1>5, <1>9, <2>2, <2>4 DEF Continues
    <3> QED
      BY <3>1 DEF ShowTurn
  <2> QED
    BY <2>2, <2>3, <2>4
<1>10. CASE ClaimState(w) = "current" /\ c.reply = "forbidden"
  <2>1. PartDone(w, With(w, TerminalFailed(w)))
    BY <1>10 DEF HandleDelete
  <2>2. Said(TerminalFailed(w), task[w], k)
    BY <1>2, <1>4
  <2> QED
    BY <1>2, <1>5, <1>10, <2>1, <2>2, ShowTurns
<1>11. CASE ClaimState(w) = "current" /\ c.reply \notin {"ok", "missing", "bad", "forbidden"}
  <2>1. LeaveFailed(w, FALSE)
    BY <1>11 DEF HandleDelete
  <2> QED
    BY <1>5, <1>11, <2>1, ShowTurns
<1> QED
  BY <1>7, <1>8, <1>9, <1>10, <1>11

LEMMA NeutralizeShows ==
  ASSUME DeliveryInv, TracksAll, NEW w \in Workers, Calm(w), OwnsClaim(w), HandleNeutralize(w)
  PROVE  ShowTurn(w)
<1> DEFINE c == task[w].call
           k == task[w].at
<1>1. "neutralize" \in PartCalls /\ Answered(w, {"neutralize"})
  BY DEF PartCalls, HandleNeutralize, Handling
<1>2. /\ worker[w].pc = "delivering" /\ Awaiting(w)
      /\ c.kind = "neutralize" /\ c.msg # 0 /\ CallShows(w)
      /\ TerminalFailed(w) \in Part /\ TerminalFailed(w).msg = c.msg /\ Sound(TerminalFailed(w))
      /\ TerminalFailed(w).status # "active"
      /\ chat[c.msg] # "gone" => Faithful(TerminalFailed(w))
  BY <1>1, PartKnown
<1>3. k > Len(task[w].desired) /\ Len(task[w].desired) \in Nat /\ k \in Nat
  <2>1. k > Len(task[w].desired) /\ k \in Numbers
    BY <1>2, InCall DEF CallOK
  <2>2. Len(task[w].desired) \in Nat /\ k \in Nat
    BY <2>1, LengthFact, NumbersFact
  <2> QED
    BY <2>1, <2>2
<1>4. \A p : p.msg = 0 \/ p.status # "active" => Said(p, task[w], k)
  BY <1>3 DEF Said
<1>5. chat[c.msg] # "gone" /\ (c.reply # "ok" => Faithful(PartsOf(w)[k]))
  BY <1>2 DEF CallShows, PartCalls, Calls
<1>6. CASE ClaimState(w) # "current"
  BY <1>1, <1>6, UndoEditShows DEF HandleNeutralize
<1>7. CASE ClaimState(w) = "current" /\ c.reply = "ok"
  <2>1. PartDone(w, With(w, RetiredPart(c.msg)))
    BY <1>7 DEF HandleNeutralize
  <2>2. chat[c.msg] \in {Placeholder, "removed"}
    BY <1>2, <1>7 DEF CallShows, Calls, Reached
  <2>3. c.msg \in 0..MaxMessages
    BY <1>2, InCall DEF Call
  <2>4. PICK p \in Part : p = RetiredPart(c.msg)
    BY <2>3, RetiredPartType
  <2>5. p.msg = c.msg /\ p.status = "retired" /\ Sound(p) /\ Faithful(p)
    BY <2>2, <2>4, PartsRecorded
  <2>6. Said(p, task[w], k)
    BY <1>4, <2>5
  <2> QED
    BY <2>1, <2>4, <2>5, <2>6, ShowTurns
<1>8. CASE ClaimState(w) = "current" /\ c.reply = "missing"
  <2>1. PartDone(w, With(w, NoPart))
    BY <1>8 DEF HandleNeutralize
  <2>2. NoPart \in Part /\ NoPart.msg = 0 /\ Sound(NoPart) /\ Faithful(NoPart)
    BY NoPartRecorded
  <2>3. Said(NoPart, task[w], k)
    BY <1>4, <2>2
  <2> QED
    BY <2>1, <2>2, <2>3, ShowTurns
<1>9. CASE ClaimState(w) = "current" /\ c.reply = "bad"
  <2>1. PartDone(w, With(w, TerminalFailed(w)))
    BY <1>9 DEF HandleNeutralize
  <2>2. Said(TerminalFailed(w), task[w], k)
    BY <1>2, <1>4
  <2> QED
    BY <1>2, <1>5, <2>1, <2>2, ShowTurns
<1>10. CASE ClaimState(w) = "current" /\ c.reply \notin {"ok", "missing", "bad"}
  <2>1. LeaveFailed(w, FALSE)
    BY <1>10 DEF HandleNeutralize
  <2> QED
    BY <1>5, <1>10, <2>1, ShowTurns
<1> QED
  BY <1>6, <1>7, <1>8, <1>9, <1>10

LEMMA SendShows ==
  ASSUME DeliveryInv, TracksAll, NEW w \in Workers, Calm(w), OwnsClaim(w), HandleSend(w)
  PROVE  ShowTurn(w)
<1> DEFINE c == task[w].call
           k == task[w].at
<1>1. Handling(w, Calls.send) /\ Calls.send \subseteq Calls.send \cup Calls.edit \cup Calls.delete
  BY DEF HandleSend
<1>2. /\ worker[w].pc = "delivering" /\ Awaiting(w) /\ c.kind \in Calls.send
      /\ c.msg \in 0..MaxMessages /\ c.text \in Texts \cup {Placeholder}
      /\ c.reply = "ok" => c.msg # 0
  BY <1>1, Handled
<1>3. CallFits(task[w]) /\ CallShows(w) /\ k <= Len(task[w].desired)
  BY <1>2, InCall DEF TracksAll, Calm, CallOK
<1>4. c.kind \notin PartCalls
  BY <1>2 DEF PartCalls, Calls
<1>5. CASE c.reply # "ok"
  <2>1. LeaveFailed(w, c.reply = "bad") \/ LeaveOvertaken(w, PartsOf(w))
    BY <1>5 DEF HandleSend
  <2> QED
    BY <1>4, <2>1, ShowTurns
<1>6. ASSUME NEW kind \in {"undo", "undoFailed"}, c.reply = "ok",
             Ask(w, kind, c.msg, Placeholder)
      PROVE  ShowTurn(w)
  BY <1>2, <1>6 DEF Ask, ShowTurn, Continues
<1>7. CASE c.reply = "ok" /\ ClaimState(w) # "current"
  BY <1>6, <1>7 DEF HandleSend
<1>8. CASE c.reply = "ok" /\ ClaimState(w) = "current" /\ PartDone(w, With(w, ActivePart(c.msg, c.text)))
  <2>1. chat[c.msg] \in {c.text, "removed"} /\ c.text = task[w].desired[k]
    BY <1>2, <1>3, <1>8 DEF CallShows, Reached
  <2>2. PICK p \in Part : p = ActivePart(c.msg, c.text)
    BY <1>2, PartTypes
  <2>3. p.msg = c.msg /\ p.hash = c.text /\ Sound(p) /\ Faithful(p)
    BY <1>2, <2>1, <2>2, PartsRecorded
  <2>4. Said(p, task[w], k)
    BY <1>2, <1>3, <1>8, <2>1, <2>3 DEF Said
  <2> QED
    BY <1>8, <2>2, <2>3, <2>4, ShowTurns
<1>9. CASE c.reply = "ok" /\ ClaimState(w) = "current" /\ Ask(w, "undoFailed", c.msg, Placeholder)
  BY <1>6, <1>9
<1> QED
  BY <1>5, <1>7, <1>8, <1>9 DEF HandleSend

LEMMA UndoShows ==
  ASSUME DeliveryInv, TracksAll, NEW w \in Workers, Calm(w), OwnsClaim(w), HandleUndo(w)
  PROVE  ShowTurn(w)
<1>1. task[w].call.kind \in {"undo", "undoFailed"}
  BY DEF HandleUndo, Handling, Answered
<1>2. task[w].call.kind \notin PartCalls
  BY <1>1 DEF PartCalls
<1>3. LeaveOvertaken(w, PartsOf(w)) \/ LeaveFailed(w, FALSE)
  BY DEF HandleUndo
<1> QED
  BY <1>2, <1>3, ShowTurns

(* A refusal that nobody minds is one of a message that was removed. *)
LEMMA RemovedFact ==
  ASSUME DeliveryInv, TracksAll, NEW w \in Workers, Awaiting(w), OwnsClaim(w),
         task[w].call.kind \in PartCalls, ~Visible(task[w].call.msg), chat[task[w].call.msg] # "gone"
  PROVE  chat[task[w].call.msg] = "removed"
<1> DEFINE c == task[w].call
           k == task[w].at
<1>1. /\ worker[w].pc = "delivering" /\ k \in Numbers /\ PartsOf(w)[k] = task[w].stored[k]
      /\ worker[w].id \in Ids /\ c.kind \notin Calls.send \cup {"undo", "undoFailed"}
  BY InWire, InCall, InDelivery DEF PartCalls, Calls
<1>2. c.msg = parts[worker[w].id][k].msg /\ c.msg # 0
  BY <1>1, InWire DEF TracksAll, CallFits, CallOK, PartsOf
<1>3. Sent(c.msg)
  BY <1>1, <1>2 DEF TracksAll
<1> QED
  BY <1>2, <1>3 DEF Sent, Visible

LEMMA RestoreShows ==
  ASSUME DeliveryInv, TracksAll, NEW w \in Workers, Calm(w), OwnsClaim(w),
         HandleRestore(w) \/ HandleBlank(w)
  PROVE  ShowTurn(w)
<1> DEFINE c == task[w].call
<1>1. PICK kind \in {"restore", "blank"} :
        /\ Answered(w, {kind})
        /\ kind = "restore" => HandleRestore(w)
        /\ kind = "blank" => HandleBlank(w)
  BY DEF HandleRestore, HandleBlank, Handling
<1>2. kind \in PartCalls
  BY DEF PartCalls
<1>3. /\ worker[w].pc = "delivering" /\ Awaiting(w)
      /\ c.kind = kind /\ c.msg # 0 /\ CallShows(w)
      /\ c.text \in Texts \cup {Placeholder}
      /\ c.reply \in {"ok", "temporary", "bad", "forbidden", "missing"}
      /\ chat[c.msg] = "removed" => Faithful(PartsOf(w)[task[w].at])
  BY <1>1, <1>2, PartKnown
<1>4. c.msg \in 0..MaxMessages
  BY <1>3, InCall DEF Call
<1>5. chat[c.msg] # "gone" /\ (c.reply = "ok" => chat[c.msg] \in {c.text, "removed"})
  BY <1>3 DEF CallShows, PartCalls, Calls, Reached
<1>6. CASE kind = "restore"
  <2>1. CASE c.reply = "ok"
    <3>1. LeaveOvertaken(w, With(w, ActivePart(c.msg, c.text)))
      BY <1>1, <1>6, <2>1 DEF HandleRestore
    <3>2. PICK p \in Part : p = ActivePart(c.msg, c.text)
      BY <1>3, <1>4, PartTypes
    <3>3. p.msg = c.msg /\ Sound(p) /\ Faithful(p)
      BY <1>3, <1>5, <2>1, <3>2, PartsRecorded
    <3> QED
      BY <3>1, <3>2, <3>3, ShowTurns
  <2>2. CASE c.reply # "ok"
    <3>1. Ask(w, "blank", c.msg, Placeholder)
      BY <1>1, <1>6, <2>2 DEF HandleRestore
    <3>2. Continues(w, "blank", Placeholder)
      BY <1>2, <1>3, <1>5, <3>1 DEF Ask, Continues
    <3> QED
      BY <3>2 DEF ShowTurn
  <2> QED
    BY <2>1, <2>2
<1>7. CASE kind = "blank"
  <2>1. CASE c.reply = "ok"
    <3>1. LeaveOvertaken(w, With(w, RetiredPart(c.msg)))
      BY <1>1, <1>7, <2>1 DEF HandleBlank
    <3>2. PICK p \in Part : p = RetiredPart(c.msg)
      BY <1>4, RetiredPartType
    <3>3. c.text = Placeholder
      BY <1>3, <1>7 DEF CallShows
    <3>4. p.msg = c.msg /\ Sound(p) /\ Faithful(p)
      BY <1>5, <2>1, <3>2, <3>3, PartsRecorded
    <3> QED
      BY <3>1, <3>2, <3>4, ShowTurns
  <2>2. CASE c.reply # "ok"
    <3>1. LeaveOvertaken(w, PartsOf(w))
      BY <1>1, <1>7, <2>2 DEF HandleBlank
    <3>2. chat[c.msg] = "removed"
      BY <1>3, <1>7, <2>2 DEF CallShows
    <3> QED
      BY <1>3, <3>1, <3>2, ShowTurns
  <2> QED
    BY <2>1, <2>2
<1> QED
  BY <1>6, <1>7

LEMMA RetractShows ==
  ASSUME DeliveryInv, TracksAll, NEW w \in Workers, Calm(w), OwnsClaim(w),
         HandleRetract(w), unknown = 0, unknown' = 0
  PROVE  ShowTurn(w)
<1> DEFINE c == task[w].call
           deleted == c.reply \in {"ok", "missing"}
<1>1. "retract" \in PartCalls /\ Answered(w, {"retract"})
  BY DEF PartCalls, HandleRetract
<1>2. /\ worker[w].pc = "delivering" /\ Awaiting(w)
      /\ c.kind = "retract" /\ c.msg # 0 /\ CallShows(w)
      /\ chat[c.msg] = "removed" => Faithful(PartsOf(w)[task[w].at])
  BY <1>1, PartKnown
<1>3. c.reply # "ok" => chat[c.msg] # "gone"
  BY <1>2 DEF CallShows, PartCalls, Calls
<1>4. CASE deleted
  <2>1. LeaveOvertaken(w, With(w, NoPart))
    BY <1>4 DEF HandleRetract
  <2> QED
    BY <2>1, NoPartRecorded, ShowTurns
<1>5. CASE ~deleted /\ StaleWithdraw(w)
  <2>1. Ask(w, "retire", c.msg, Placeholder)
    BY <1>5 DEF HandleRetract
  <2>2. Continues(w, "retire", Placeholder)
    BY <1>1, <1>2, <1>3, <1>5, <2>1 DEF Ask, Continues
  <2> QED
    BY <2>2 DEF ShowTurn
<1>6. CASE ~deleted /\ ~StaleWithdraw(w)
  <2>1. LeaveOvertaken(w, PartsOf(w))
    BY <1>6 DEF HandleRetract
  <2>2. ~Visible(c.msg)
    BY <1>6 DEF HandleRetract
  <2>3. chat[c.msg] = "removed"
    BY <1>1, <1>2, <1>3, <1>6, <2>2, RemovedFact
  <2> QED
    BY <1>2, <2>1, <2>3, ShowTurns
<1> QED
  BY <1>4, <1>5, <1>6

LEMMA RetireShows ==
  ASSUME DeliveryInv, TracksAll, NEW w \in Workers, Calm(w), OwnsClaim(w), HandleRetire(w)
  PROVE  ShowTurn(w)
<1> DEFINE c == task[w].call
<1>1. "retire" \in PartCalls /\ Answered(w, {"retire"})
  BY DEF PartCalls, HandleRetire, Handling
<1>2. /\ worker[w].pc = "delivering" /\ Awaiting(w)
      /\ c.kind = "retire" /\ c.msg # 0 /\ CallShows(w)
      /\ c.reply \in {"ok", "temporary", "bad", "forbidden", "missing"}
      /\ StaleEdit(w) \in Part /\ StaleEdit(w).msg = c.msg /\ Sound(StaleEdit(w))
      /\ chat[c.msg] # "gone" => Faithful(StaleEdit(w))
      /\ chat[c.msg] = "removed" => Faithful(PartsOf(w)[task[w].at])
  BY <1>1, PartKnown
<1>3. /\ chat[c.msg] # "gone"
      /\ c.reply = "ok" => chat[c.msg] \in {Placeholder, "removed"}
      /\ c.reply # "ok" => chat[c.msg] = "removed"
  BY <1>2 DEF CallShows, PartCalls, Calls, Reached
<1>4. CASE c.reply # "ok"
  <2>1. LeaveOvertaken(w, PartsOf(w))
    BY <1>4 DEF HandleRetire
  <2> QED
    BY <1>2, <1>3, <1>4, <2>1, ShowTurns
<1>5. CASE c.reply = "ok" /\ StaleWithdraw(w)
  <2>1. LeaveOvertaken(w, With(w, RetiredPart(c.msg)))
    BY <1>5 DEF HandleRetire
  <2>2. c.msg \in 0..MaxMessages
    BY <1>2, InCall DEF Call
  <2>3. PICK p \in Part : p = RetiredPart(c.msg)
    BY <2>2, RetiredPartType
  <2>4. p.msg = c.msg /\ Sound(p) /\ Faithful(p)
    BY <1>3, <1>5, <2>3, PartsRecorded
  <2> QED
    BY <2>1, <2>3, <2>4, ShowTurns
<1>6. CASE c.reply = "ok" /\ ~StaleWithdraw(w)
  <2>1. LeaveOvertaken(w, With(w, StaleEdit(w)))
    BY <1>6 DEF HandleRetire
  <2> QED
    BY <1>2, <1>3, <2>1, ShowTurns
<1> QED
  BY <1>4, <1>5, <1>6

-----------------------------------------------------------------------------
(* Telegram and the messages shown *)

(* What an accepted call does to its message *)
LEMMA AcceptedFact ==
  ASSUME DeliveryInv, NEW w \in Workers, Awaiting(w), NEW m \in MessageIds, NEW call,
         call = task[w].call, HasRoom(call), chat' = Applied(call),
         IF call.kind \in Calls.send THEN chat'[m] # chat[m] ELSE m = call.msg /\ Visible(m)
  PROVE  /\ \A l \in MessageIds : l # m => chat'[l] = chat[l]
         /\ call.kind \in Calls.send => chat[m] = "unsent"
         /\ chat'[m] = IF call.kind \in Calls.delete THEN "gone" ELSE call.text
<1>1. chat \in [MessageIds -> Texts \cup {Placeholder, "unsent", "gone", "removed"}]
      /\ call \in Call
  BY InWire DEF DeliveryInv, WireOK
<1>2. CASE call.kind \in Calls.send
  <2>1. PICK k \in MessageIds, x \in Texts \cup {Placeholder, "gone"} :
          chat' = [chat EXCEPT ![k] = x] /\ chat[k] = "unsent"
    BY <1>1, <1>2, AppliedFact
  <2>2. k = m
    BY <1>1, <1>2, <2>1
  <2>3. \E l : chat' = [chat EXCEPT ![l] = call.text]
    BY <1>2 DEF Applied
  <2>4. chat'[m] = call.text
    BY <1>1, <1>2, <2>3
  <2>5. call.kind \notin Calls.delete
    BY <1>2 DEF Calls
  <2> QED
    BY <1>1, <1>2, <2>1, <2>2, <2>4, <2>5
<1>3. CASE call.kind \notin Calls.send
  <2>1. chat' = [chat EXCEPT ![m] = IF call.kind \in Calls.edit THEN call.text ELSE "gone"]
    BY <1>3 DEF Applied
  <2>2. call.kind \in Calls.edit <=> call.kind \notin Calls.delete
    BY <1>1, <1>3 DEF Call, Calls, Awaiting
  <2> QED
    BY <1>1, <1>3, <2>1, <2>2
<1> QED
  BY <1>2, <1>3

(* What holds of the parts that are not in hand when only the message of the
   call changes *)
LEMMA ChatCalm ==
  ASSUME DeliveryInv, NEW w \in Workers, Workers = {w}, Calm(w), UNCHANGED <<parts, late>>,
         \A i \in Ids, n \in Numbers :
           parts[i][n].msg # 0 /\ ~InHand(parts[i][n].msg)' =>
             /\ ~InHand(parts[i][n].msg)
             /\ chat'[parts[i][n].msg] \in {chat[parts[i][n].msg], "removed"},
         Awaiting(w)' => CallShows(w)',
         worker'[w].pc = "delivering" =>
           \A n \in Numbers : n < task'[w].at => Said(PartsOf(w)[n], task[w], n)'
  PROVE  Calm(w)'
<1>1. late' = {} /\ Distinct'
  BY DEF Calm, Distinct
<1>2. ASSUME NEW i \in Ids, NEW n \in Numbers
      PROVE  Sound(parts'[i][n]) /\ (~InHand(parts[i][n].msg)' => Faithful(parts[i][n])')
  <2>1. Sound(parts[i][n]) /\ (~InHand(parts[i][n].msg) => Faithful(parts[i][n]))
    BY DEF Calm
  <2> QED
    BY <2>1 DEF Faithful
<1>3. \A i \in Ids, n \in Numbers : Sound(parts[i][n])'
  BY <1>2 DEF Sound
<1> QED
  BY <1>1, <1>2, <1>3 DEF Calm

(* An answer leaves the rest of the coroutine as it is. *)
LEMMA AnswerRest ==
  ASSUME DeliveryInv, NEW w \in Workers, Calm(w), Awaiting(w), NEW reply, NEW msg,
         Answer(w, reply, msg), UNCHANGED <<parts, worker>>
  PROVE  /\ task'[w].at = task[w].at /\ task'[w].desired = task[w].desired
         /\ task'[w].call.kind = task[w].call.kind /\ task'[w].call.text = task[w].call.text
         /\ task'[w].call.msg = msg /\ task'[w].call.reply = reply
         /\ Awaiting(w)' /\ PartsOf(w)' = PartsOf(w)
         /\ \A m : Tracked(m)' <=> Tracked(m)
         /\ \A n \in Numbers : n < task'[w].at => Said(PartsOf(w)[n], task[w], n)'
<1>1. /\ task \in [Workers -> Task] /\ task[w] \in Task /\ worker[w].pc = "delivering"
  BY InWire DEF DeliveryInv, RecordsOK
<1>2. /\ task'[w].at = task[w].at /\ task'[w].desired = task[w].desired
      /\ task'[w].call.kind = task[w].call.kind /\ task'[w].call.text = task[w].call.text
      /\ task'[w].call.msg = msg /\ task'[w].call.reply = reply
  BY <1>1 DEF Answer, Task, Call
<1>3. Awaiting(w)' /\ PartsOf(w)' = PartsOf(w)
  BY <1>2 DEF Awaiting, PartsOf
<1>4. \A m : Tracked(m)' <=> Tracked(m)
  BY DEF Tracked
<1>5. \A n \in Numbers : n < task'[w].at => Said(PartsOf(w)[n], task[w], n)'
  BY <1>1, <1>2, <1>3 DEF Calm, Said
<1> QED
  BY <1>2, <1>3, <1>4, <1>5

LEMMA AcceptsCalm ==
  ASSUME DeliveryInv, TracksAll, NEW w \in Workers, Workers = {w}, Calm(w), TelegramAccepts(w)
  PROVE  Calm(w)'
<1> DEFINE k == task[w].at
<1>0. PICK call : call = task[w].call
  OBVIOUS
<1>1. /\ Awaiting(w) /\ call.reply = "awaited" /\ HasRoom(call) /\ chat' = Applied(call)
      /\ call.msg # 0 => Visible(call.msg)
      /\ UNCHANGED <<parts, late, worker>> /\ call \in Call /\ CallOK(w, task[w])
      /\ CallFits(task[w]) /\ CallShows(w)
  BY <1>0, InWire DEF TelegramAccepts, TracksAll, Calm, vars
<1>2. \E m : /\ Answer(w, "ok", m)
             /\ IF call.kind \in Calls.send THEN m \in MessageIds /\ chat'[m] # chat[m]
                ELSE m = call.msg
  BY <1>0 DEF TelegramAccepts
<1>3. PICK m : /\ Answer(w, "ok", m)
               /\ IF call.kind \in Calls.send THEN m \in MessageIds /\ chat'[m] # chat[m]
                  ELSE m = call.msg
  BY <1>2
<1>4. m \in MessageIds /\ (call.kind \notin Calls.send => Visible(m))
  <2>1. call.kind \notin Calls.send => call.msg \in 1..MaxMessages /\ call.msg # 0
    BY <1>0, <1>1, NumbersFact DEF CallOK, Call
  <2> QED
    BY <1>1, <1>3, <2>1 DEF MessageIds
<1>5. /\ \A l \in MessageIds : l # m => chat'[l] = chat[l]
      /\ call.kind \in Calls.send => chat[m] = "unsent"
      /\ chat'[m] = IF call.kind \in Calls.delete THEN "gone" ELSE call.text
  BY <1>0, <1>1, <1>3, <1>4, AcceptedFact
<1>6. /\ task'[w].at = k /\ task'[w].desired = task[w].desired
      /\ task'[w].call.kind = call.kind /\ task'[w].call.text = call.text
      /\ task'[w].call.msg = m /\ task'[w].call.reply = "ok"
      /\ Awaiting(w)' /\ PartsOf(w)' = PartsOf(w)
      /\ \A l : Tracked(l)' <=> Tracked(l)
      /\ \A n \in Numbers : n < task'[w].at => Said(PartsOf(w)[n], task[w], n)'
  BY <1>0, <1>1, <1>3, AnswerRest
<1>7. call.kind \in Calls.send => ~Tracked(m)
  <2> SUFFICES ASSUME chat[m] = "unsent", NEW i \in Ids, NEW n \in Numbers, parts[i][n].msg = m
               PROVE  FALSE
    BY <1>5 DEF Tracked
  <2>1. Sent(m) /\ m # 0
    BY <1>4, NumbersFact DEF TracksAll
  <2> QED
    BY <2>1 DEF Sent
<1>8. ASSUME NEW i \in Ids, NEW n \in Numbers, parts[i][n].msg # 0, ~InHand(parts[i][n].msg)'
      PROVE  ~InHand(parts[i][n].msg) /\ chat'[parts[i][n].msg] = chat[parts[i][n].msg]
  <2>1. PICK l \in 0..MaxMessages : l = parts[i][n].msg
    BY DEF DeliveryInv, RecordsOK, Part
  <2>2. l # m
    BY <1>1, <1>6, <1>8, <2>1 DEF InHand
  <2>3. l \in MessageIds
    BY <1>8, <2>1, NumbersFact DEF MessageIds
  <2>4. ~(call.msg = l)
    <3>1. call.kind \in Calls.send => call.msg = 0
      BY <1>0, <1>1 DEF CallFits
    <3> QED
      BY <1>3, <1>8, <2>1, <2>2, <3>1
  <2> QED
    BY <1>0, <1>5, <2>1, <2>2, <2>3, <2>4 DEF InHand
<1>9. CallShows(w)'
  <2>1. /\ call.kind \in Calls.send \cup {"edit"} => call.text = task[w].desired[k]
        /\ call.kind \in {"neutralize", "blank", "retire"} => call.text = Placeholder
        /\ call.kind \in {"undo", "undoFailed"} => ~Tracked(call.msg)
    BY <1>0, <1>1 DEF CallShows
  <2>2. call.kind \in {"undo", "undoFailed"} => ~Tracked(m)
    BY <1>3, <2>1 DEF Calls
  <2>3. call.kind \in Calls.send => ~Tracked(m)' /\ chat'[m] = call.text
    BY <1>5, <1>6, <1>7 DEF Calls
  <2>4. call.kind \in Calls.edit => chat'[m] = call.text
    BY <1>5 DEF Calls
  <2>5. call.text # "gone"
    BY <1>1, ChatTexts DEF Call
  <2>6. /\ task'[w].call.kind \in Calls.send => ~Tracked(task[w].call.msg)' /\ Reached(task[w].call)'
        /\ task'[w].call.kind \in Calls.edit => Reached(task[w].call)'
        /\ task'[w].call.kind \in {"undo", "undoFailed"} => ~Tracked(task[w].call.msg)'
    BY <1>6, <2>2, <2>3, <2>4 DEF Reached, Tracked
  <2>7. task'[w].call.kind \in PartCalls /\ ~(task'[w].call.kind \in Calls.delete) =>
          chat'[task'[w].call.msg] # "gone"
    BY <1>6, <2>4, <2>5 DEF PartCalls, Calls
  <2> QED
    BY <1>6, <2>1, <2>6, <2>7 DEF CallShows
<1> QED
  BY <1>1, <1>6, <1>8, <1>9, ChatCalm

LEMMA RefusesCalm ==
  ASSUME DeliveryInv, TracksAll, NEW w \in Workers, Workers = {w}, Calm(w), OwnsClaim(w),
         TelegramRefuses(w), unknown = 0, unknown' = 0
  PROVE  Calm(w)'
<1> DEFINE call == task[w].call
           k == task[w].at
<1>1. /\ Awaiting(w) /\ call.reply = "awaited" /\ UNCHANGED <<parts, late, worker, chat>>
      /\ call \in Call /\ CallShows(w) /\ ~LastResort(call)
  BY InWire DEF TelegramRefuses, Calm, vars
<1>2. PICK reply : Answer(w, reply, call.msg) /\ reply \notin {"ok", "awaited"}
  BY DEF TelegramRefuses, Refusals
<1>3. /\ task'[w].at = k /\ task'[w].desired = task[w].desired
      /\ task'[w].call.kind = call.kind /\ task'[w].call.text = call.text
      /\ task'[w].call.msg = call.msg /\ task'[w].call.reply = reply
      /\ Awaiting(w)' /\ PartsOf(w)' = PartsOf(w)
      /\ \A l : Tracked(l)' <=> Tracked(l)
      /\ \A n \in Numbers : n < task'[w].at => Said(PartsOf(w)[n], task[w], n)'
  BY <1>1, <1>2, AnswerRest
<1>4. \A m : InHand(m)' <=> InHand(m)
  BY <1>1, <1>3 DEF InHand
<1>5. call.kind \in {"blank", "retire"} => chat[call.msg] = "removed"
  <2> SUFFICES ASSUME call.kind \in {"blank", "retire"} PROVE chat[call.msg] = "removed"
    OBVIOUS
  <2>1. ~Visible(call.msg)
    BY <1>1 DEF LastResort
  <2>2. call.kind \in PartCalls /\ chat[call.msg] # "gone"
    BY <1>1 DEF CallShows, PartCalls, Calls
  <2> QED
    BY <1>1, <2>1, <2>2, RemovedFact
<1>6. CallShows(w)'
  <2>1. /\ call.kind \in Calls.send \cup {"edit"} => call.text = task[w].desired[k]
        /\ call.kind \in {"neutralize", "blank", "retire"} => call.text = Placeholder
        /\ call.kind \in {"undo", "undoFailed"} => ~Tracked(call.msg)
        /\ call.kind \in {"edit", "neutralize", "delete"} => Faithful(PartsOf(w)[k])
        /\ call.kind \in PartCalls => chat[call.msg] # "gone"
    BY <1>1 DEF CallShows
  <2>2. task'[w].call.kind \in {"undo", "undoFailed"} => ~Tracked(task[w].call.msg)'
    BY <1>3, <2>1 DEF Tracked
  <2>3. call.kind \in {"edit", "neutralize", "delete"} => Faithful(PartsOf(w)[task[w].at])'
    BY <1>1, <1>3, <2>1 DEF Faithful
  <2> QED
    BY <1>1, <1>2, <1>3, <1>5, <2>1, <2>2, <2>3 DEF CallShows
<1> QED
  BY <1>1, <1>3, <1>4, <1>6, ChatCalm

-----------------------------------------------------------------------------
(* The other steps *)

(* Messages are removed, perhaps, and nothing else happens to them or to a
   worker that is delivering. *)
LEMMA SameCalm ==
  ASSUME DeliveryInv, NEW w \in Workers, Workers = {w}, Calm(w), UNCHANGED <<parts, task, late>>,
         \A l \in MessageIds : chat'[l] \in {chat[l], "removed"},
         worker[w].pc = "delivering" => worker'[w] = worker[w],
         worker[w].pc # "delivering" => worker'[w].pc # "delivering"
  PROVE  Calm(w)'
<1>1. \A m : (InHand(m)' <=> InHand(m)) /\ (Tracked(m)' <=> Tracked(m))
  BY DEF InHand, Awaiting, Tracked
<1>2. ASSUME NEW i \in Ids, NEW n \in Numbers, parts[i][n].msg # 0
      PROVE  chat'[parts[i][n].msg] \in {chat[parts[i][n].msg], "removed"}
  <2>1. PICK l \in 0..MaxMessages : l = parts[i][n].msg
    BY DEF DeliveryInv, RecordsOK, Part
  <2>2. l \in MessageIds
    BY <1>2, <2>1, NumbersFact DEF MessageIds
  <2> QED
    BY <2>1, <2>2
<1>3. ASSUME Awaiting(w)' PROVE CallShows(w)'
  <2> DEFINE c == task[w].call
             k == task[w].at
  <2>1. /\ Awaiting(w) /\ worker[w].pc = "delivering" /\ CallShows(w) /\ k \in Numbers
        /\ PartsOf(w)' = PartsOf(w) /\ worker[w].id \in Ids
        /\ c.kind \notin Calls.send \/ c.reply = "ok" => c.msg # 0
        /\ c.msg \in 0..MaxMessages /\ c.kind \in Calls.send \cup Calls.edit \cup Calls.delete
    BY <1>3, InWire, InDelivery DEF Awaiting, Calm, CallOK, Call, PartsOf
  <2>2. Faithful(PartsOf(w)[k]) => Faithful(PartsOf(w)[k])'
    <3>1. PartsOf(w)[k] = parts[worker[w].id][k] /\ PartsOf(w)'[k] = parts[worker[w].id][k]
      BY <2>1 DEF PartsOf
    <3> QED
      BY <1>2, <2>1, <3>1 DEF Faithful
  <2>3. c.msg # 0 => chat'[c.msg] \in {chat[c.msg], "removed"}
    BY <2>1, NumbersFact DEF MessageIds
  <2>4. Tracked(c.msg)' <=> Tracked(c.msg)
    BY DEF Tracked
  <2>5. Reached(c) /\ c.msg # 0 => Reached(c)'
    BY <2>3 DEF Reached
  <2>6. c.kind \in Calls.edit \cup PartCalls => c.kind \notin Calls.send
    BY DEF Calls, PartCalls
  <2>7. /\ c.kind \in Calls.send \cup {"edit"} => c.text = task[w].desired[k]
        /\ c.kind \in {"neutralize", "blank", "retire"} => c.text = Placeholder
        /\ c.kind \in Calls.send /\ c.reply = "ok" => ~Tracked(c.msg) /\ Reached(c) /\ c.msg # 0
        /\ c.kind \in {"undo", "undoFailed"} => ~Tracked(c.msg)
        /\ c.kind \in {"edit", "neutralize", "delete"} /\ c.reply # "ok" => Faithful(PartsOf(w)[k])
        /\ c.kind \in Calls.edit /\ c.reply = "ok" => Reached(c) /\ c.msg # 0
        /\ c.kind \in {"blank", "retire"} /\ c.reply \notin {"awaited", "ok"} =>
              chat[c.msg] = "removed" /\ c.msg # 0
        /\ c.kind \in PartCalls /\ (c.kind \in Calls.delete => c.reply # "ok") =>
              chat[c.msg] # "gone" /\ c.msg # 0
    BY <2>1, <2>6 DEF CallShows, Calls, PartCalls
  <2>8. task'[w] = task[w]
    OBVIOUS
  <2>9. /\ Tracked(task[w].call.msg)' <=> Tracked(c.msg)
        /\ Reached(c) /\ c.msg # 0 => Reached(task[w].call)'
        /\ Faithful(PartsOf(w)[k]) => Faithful(PartsOf(w)[task[w].at])'
    BY <2>2, <2>4, <2>5, <2>8 DEF Tracked, Reached, Faithful
  <2> QED
    BY <2>3, <2>7, <2>8, <2>9 DEF CallShows
<1>4. ASSUME worker'[w].pc = "delivering", NEW n \in Numbers, n < task'[w].at
      PROVE  Said(PartsOf(w)[n], task[w], n)'
  BY <1>4 DEF Calm, Said, PartsOf
<1> QED
  BY <1>1, <1>2, <1>3, <1>4, ChatCalm

(* A worker that is in no call before or after *)
LEMMA QuietCalm ==
  ASSUME DeliveryInv, NEW w \in Workers, Workers = {w}, Calm(w), UNCHANGED <<parts, chat, late>>,
         ~Awaiting(w), ~Awaiting(w)', \A n \in Numbers : ~(n < task'[w].at)
  PROVE  Calm(w)'
<1>1. \A m : ~InHand(m) /\ ~InHand(m)'
  BY DEF InHand
<1> QED
  BY <1>1, ChatCalm

LEMMA AtStart == \A n \in Numbers : ~(n < NoTask.at) /\ ~(n < 1)
BY NumbersFact DEF NoTask

LEMMA BeginCalm ==
  ASSUME DeliveryInv, NEW w \in Workers, Workers = {w}, Calm(w), BeginDelivery(w)
  PROVE  Calm(w)'
<1>1. /\ worker[w].pc = "prepared" /\ UNCHANGED <<parts, chat, late>>
      /\ task \in [Workers -> Task]
  BY DEF BeginDelivery, StartDelivery, DeliveryInv, RecordsOK
<1>2. task[w] = NoTask
  BY <1>1, OffStage
<1>3. task'[w].at = 1 /\ task'[w].call = NoTask.call
  BY <1>1, <1>2 DEF BeginDelivery, NoTask
<1>4. ~Awaiting(w) /\ ~Awaiting(w)'
  BY <1>2, <1>3, NoTaskOK DEF Awaiting
<1> QED
  BY <1>1, <1>3, <1>4, AtStart, QuietCalm

LEMMA CrashCalm ==
  ASSUME DeliveryInv, NEW w \in Workers, Workers = {w}, Calm(w), CrashDelivery(w),
         unknown = 0, unknown' = 0
  PROVE  Calm(w)'
<1>1. /\ UNCHANGED <<parts, chat>> /\ task' = [task EXCEPT ![w] = NoTask]
      /\ task \in [Workers -> Task]
  BY DEF CrashDelivery, DeliveryInv, RecordsOK
<1>2. task'[w] = NoTask /\ ~Awaiting(w)'
  BY <1>1, NoTaskOK DEF Awaiting
<1>3. ~Awaiting(w)
  <2> SUFFICES ASSUME Awaiting(w) PROVE FALSE
    OBVIOUS
  <2>1. worker[w].pc = "delivering"
    BY InWire
  <2> QED
    BY <2>1 DEF CrashDelivery
<1>4. late' = late
  BY <1>3 DEF CrashDelivery
<1> QED
  BY <1>1, <1>2, <1>3, <1>4, AtStart, QuietCalm

LEMMA NextPartCalm ==
  ASSUME DeliveryInv, TracksAll, NEW w \in Workers, Workers = {w}, Calm(w), OwnsClaim(w),
         NextPart(w)
  PROVE  Calm(w)'
<1> DEFINE t == task[w]
           todo == {n \in Numbers : n >= t.at /\ ~UpToDate(t, n)}
<1>1. /\ worker[w].pc = "delivering" /\ ~Awaiting(w) /\ UNCHANGED <<chat, late>>
      /\ task \in [Workers -> Task] /\ t \in Task /\ worker[w].id \in Ids
      /\ \A n \in Numbers : n >= t.at => PartsOf(w)[n] = t.stored[n]
  BY InDelivery DEF NextPart, DeliveryInv, RecordsOK, TaskFits
<1>2. CASE LeaveOvertaken(w, PartsOf(w))
  <2>1. Ends(w) /\ parts' = parts
    BY <1>2, Endings
  <2>2. task'[w] = NoTask
    BY <1>1, <2>1 DEF Ends
  <2>3. ~Awaiting(w)'
    BY <2>2, NoTaskOK DEF Awaiting
  <2> QED
    BY <1>1, <2>1, <2>2, <2>3, AtStart, QuietCalm
<1>3. CASE todo # {} /\ ClaimState(w) = "current"
  <2> DEFINE kindOf(n) == IF n > Len(t.desired) THEN "delete"
                          ELSE IF t.stored[n].msg = 0 THEN "send" ELSE "edit"
             textOf(n) == IF n > Len(t.desired) THEN Placeholder ELSE t.desired[n]
  <2>1. Min(todo) \in todo /\ \A m \in todo : Min(todo) <= m
    BY <1>3, NumbersFact, FirstOf
  <2>2. PICK n \in Numbers : n = Min(todo)
    BY <2>1
  <2>3. AskRenewed(w, kindOf(n), n, t.stored[n].msg, textOf(n))
    BY <1>3, <2>2 DEF NextPart
  <2>4. n >= t.at /\ \A m \in Numbers : m >= t.at /\ m < n => UpToDate(t, m)
    <3>1. n \in todo /\ \A m \in todo : n <= m
      BY <2>1, <2>2
    <3>2. Numbers \subseteq Nat
      BY NumbersFact
    <3> QED
      BY <3>1, <3>2
  <2>5. PICK kind, text, msg : /\ kind = kindOf(n) /\ text = textOf(n) /\ msg = t.stored[n].msg
    OBVIOUS
  <2>6. /\ kind \in {"delete", "send", "edit"} /\ (kind = "send" => msg = 0)
        /\ kind # "delete" => text = t.desired[n]
    BY <2>5
  <2>7. task' = [Asked(w, kind, msg, text) EXCEPT ![w].at = n] /\ UNCHANGED <<parts, worker>>
    BY <1>3, <2>3, <2>5 DEF AskRenewed
  <2>8. /\ task'[w].at = n /\ task'[w].desired = t.desired
        /\ task'[w].call = [kind |-> kind, msg |-> msg, text |-> text, reply |-> "awaited"]
    BY <1>1, <2>7 DEF Asked, Task
  <2>9. /\ PartsOf(w)' = PartsOf(w) /\ PartsOf(w)[n] = t.stored[n]
        /\ PartsOf(w)[n] = parts[worker[w].id][n]
    BY <1>1, <2>4, <2>7 DEF PartsOf
  <2>10. \A m : ~InHand(m)
    BY <1>1 DEF InHand
  <2>11. Faithful(PartsOf(w)[n])
    BY <1>1, <2>9, <2>10 DEF Calm
  <2>12. Faithful(PartsOf(w)[n])'
    BY <1>1, <2>9, <2>11 DEF Faithful
  <2>13. kind # "send" => msg # 0
    <3>1. n \in Nat /\ Len(t.desired) \in Nat
      BY LengthFact, NumbersFact
    <3>2. ~UpToDate(t, n)
      BY <2>1, <2>2
    <3> QED
      BY <2>5, <3>1, <3>2 DEF UpToDate
  <2>14. kind # "send" => chat[msg] # "gone"
    BY <2>5, <2>9, <2>11, <2>13 DEF Faithful
  <2>15. CallShows(w)'
    BY <1>1, <2>6, <2>8, <2>12, <2>14 DEF CallShows, Calls, PartCalls
  <2>16. ASSUME NEW m \in Numbers, m < n PROVE Said(PartsOf(w)[m], t, m)
    <3>1. m \in Nat /\ Len(t.desired) \in Nat /\ t.at \in Nat /\ n \in Nat
      BY <1>1, LengthFact, NumbersFact DEF Task
    <3>2. CASE m < t.at
      BY <1>1, <3>2 DEF Calm
    <3>3. CASE m >= t.at
      <4>1. UpToDate(t, m) /\ PartsOf(w)[m] = t.stored[m]
        BY <1>1, <2>4, <2>16, <3>3
      <4> QED
        BY <4>1 DEF UpToDate, Said
    <3> QED
      BY <3>1, <3>2, <3>3
  <2>17. \A m \in Numbers : m < task'[w].at => Said(PartsOf(w)[m], task[w], m)'
    BY <2>8, <2>9, <2>16 DEF Said
  <2> QED
    BY <1>1, <2>7, <2>10, <2>15, <2>17, ChatCalm
<1> QED
  BY <1>2, <1>3 DEF NextPart, AskRenewed

(* A command drops only parts that were never sent, and never those of the
   publication that is being delivered. *)
LEMMA CommandCalm ==
  ASSUME DeliveryInv, TracksAll, NEW w \in Workers, Workers = {w}, Calm(w), DeliveryCommand,
         contest' # "deleted"
  PROVE  Calm(w)'
<1>1. /\ SwissNext \/ MatchNext \/ ContestNext
      /\ Cascade /\ UNCHANGED <<chat, task, late, unknown>>
  BY CommandIsNext DEF DeliveryCommand
<1>2. OrderInv' /\ Moved
  BY <1>1, CommandsOrder DEF DeliveryInv
<1>3. worker' = worker
  BY <1>1, CommandsEffect DEF OrderInv, CommandEffect, DeliveryInv
<1>4. \A i \in Ids : parts'[i] = IF Exists(rows'[i]) THEN parts[i] ELSE NoParts
  BY <1>1 DEF Cascade
<1>5. \A n \in Numbers : NoParts[n] = NoPart
  BY DEF NoParts
<1>6. ASSUME NEW i \in Ids, NEW n \in Numbers
      PROVE  \/ parts'[i][n] = parts[i][n]
             \/ parts'[i][n] = NoPart /\ parts[i][n].msg = 0
  <2>1. /\ parts'[i] = IF Exists(rows'[i]) THEN parts[i] ELSE NoParts
        /\ rows[i].messages = Summary(parts[i]) /\ (~Exists(rows[i]) => parts[i] = NoParts)
    BY <1>4 DEF DeliveryInv, Mirrored
  <2>2. CASE Exists(rows'[i])
    BY <2>1, <2>2
  <2>3. CASE ~Exists(rows'[i]) /\ ~Exists(rows[i])
    BY <2>1, <2>3
  <2>4. CASE ~Exists(rows'[i]) /\ Exists(rows[i])
    <3>1. rows'[i].type # rows[i].type
      BY <2>4 DEF Exists
    <3>2. ~Begun(rows[i])
      BY <1>2, <2>4, <3>1 DEF Moved, Carried
    <3>3. parts[i][n].msg = 0
      BY <2>1, <2>4, <3>2, SummaryFact DEF Begun
    <3> QED
      BY <1>5, <2>1, <2>4, <3>3
  <2> QED
    BY <2>2, <2>3, <2>4
<1>7. \A i \in Ids, n \in Numbers : parts'[i][n].msg = parts[i][n].msg
  BY <1>6, NoPartRecorded
<1>8. \A m : (Tracked(m)' <=> Tracked(m)) /\ (InHand(m)' <=> InHand(m))
  BY <1>1, <1>7 DEF Tracked, InHand, Awaiting
<1>9. Distinct'
  BY <1>7 DEF Calm, Distinct
<1>10. ASSUME NEW i \in Ids, NEW n \in Numbers
       PROVE  Sound(parts'[i][n]) /\ (~InHand(parts[i][n].msg)' => Faithful(parts[i][n])')
  <2>1. Sound(parts[i][n]) /\ (~InHand(parts[i][n].msg) => Faithful(parts[i][n]))
    BY DEF Calm
  <2>2. CASE parts'[i][n] = parts[i][n]
    BY <1>1, <1>8, <2>1, <2>2 DEF Faithful
  <2>3. CASE parts'[i][n] = NoPart
    BY <2>3, NoPartRecorded DEF Faithful
  <2> QED
    BY <1>6, <2>2, <2>3
<1>11. \A i \in Ids, n \in Numbers : Sound(parts[i][n])'
  BY <1>10 DEF Sound
<1>12. worker[w].pc = "delivering" => PartsOf(w)' = PartsOf(w)
  <2> SUFFICES ASSUME worker[w].pc = "delivering" PROVE PartsOf(w)' = PartsOf(w)
    OBVIOUS
  <2>1. OwnsClaim(w)'
    BY <1>2, <1>3 DEF OrderInv, Unrobbed
  <2>2. Exists(rows'[worker[w].id]) /\ worker[w].id \in Ids
    BY <1>3, <2>1, InDelivery DEF OwnsClaim
  <2> QED
    BY <1>3, <1>4, <2>2 DEF PartsOf
<1>13. ASSUME Awaiting(w)' PROVE CallShows(w)'
  <2>1. Awaiting(w) /\ CallShows(w) /\ PartsOf(w)' = PartsOf(w)
    BY <1>1, <1>12, <1>13, InWire DEF Awaiting, Calm
  <2>2. /\ Tracked(task[w].call.msg)' <=> Tracked(task[w].call.msg)
        /\ Reached(task[w].call)' <=> Reached(task[w].call)
        /\ Faithful(PartsOf(w)[task[w].at])' <=> Faithful(PartsOf(w)[task[w].at])
    BY <1>1, <1>8, <2>1 DEF Reached, Faithful, Tracked
  <2> QED
    BY <1>1, <2>1, <2>2 DEF CallShows
<1>14. ASSUME worker'[w].pc = "delivering", NEW n \in Numbers, n < task'[w].at
       PROVE  Said(PartsOf(w)[n], task[w], n)'
  BY <1>1, <1>3, <1>12, <1>14 DEF Calm, Said
<1> QED
  BY <1>1, <1>9, <1>10, <1>11, <1>13, <1>14 DEF Calm

(* Steps that start or end no delivery *)
LEMMA OnStage ==
  ASSUME DeliveryInv, NEW w \in Workers,
         \/ Tick \/ Claim(w) \/ Prepare(w) \/ PreparationFails(w) \/ RenderingFails(w)
         \/ worker[w].pc = "prepared" /\ ClaimLost(w)
         \/ worker' = worker
  PROVE  /\ worker[w].pc = "delivering" => worker'[w] = worker[w]
         /\ worker[w].pc # "delivering" => worker'[w].pc # "delivering"
<1>1. worker \in [Workers -> WorkerState] /\ worker[w] \in WorkerState
  BY DEF DeliveryInv, OrderInv, IInv, TypeOK
<1>2. CASE Tick \/ worker' = worker
  BY <1>2 DEF Tick
<1>3. CASE Claim(w)
  BY <1>1, <1>3 DEF Claim, Snapshot
<1>4. CASE PreparationFails(w) \/ RenderingFails(w)
  <2>1. worker[w].pc # "delivering" /\ worker' = [worker EXCEPT ![w] = Idle]
    BY <1>4 DEF PreparationFails, RenderingFails, Settle
  <2> QED
    BY <1>1, <2>1 DEF Idle
<1>5. CASE worker[w].pc = "prepared" /\ ClaimLost(w)
  BY <1>1, <1>5 DEF ClaimLost, Idle
<1>6. CASE Prepare(w)
  <2>1. worker[w].pc = "claimed"
    BY <1>6 DEF Prepare
  <2>2. \/ worker' = [worker EXCEPT ![w] = Idle]
        \/ worker' = [worker EXCEPT ![w] = Snapshot(worker[w].id, "prepared")]
        \/ worker' = [worker EXCEPT ![w].pc = "prepared"]
    BY <1>6 DEF Prepare
  <2> QED
    BY <1>1, <2>1, <2>2 DEF Idle, Snapshot, WorkerState
<1> QED
  BY <1>2, <1>3, <1>4, <1>5, <1>6

(* Steps that leave calls, parts and messages alone *)
LEMMA StillCalm ==
  ASSUME DeliveryInv, NEW w \in Workers, Workers = {w}, Calm(w), UNCHANGED deliveryVars,
         \/ Tick \/ Claim(w) \/ Prepare(w) \/ PreparationFails(w) \/ RenderingFails(w)
         \/ worker[w].pc = "prepared" /\ ClaimLost(w)
         \/ worker' = worker
  PROVE  Calm(w)'
<1>1. /\ worker[w].pc = "delivering" => worker'[w] = worker[w]
      /\ worker[w].pc # "delivering" => worker'[w].pc # "delivering"
  BY OnStage
<1>2. \A l \in MessageIds : chat'[l] \in {chat[l], "removed"}
  BY DEF deliveryVars
<1> QED
  BY <1>1, <1>2, SameCalm DEF deliveryVars

LEMMA RemovedCalm ==
  ASSUME DeliveryInv, NEW w \in Workers, Workers = {w}, Calm(w), RemovedByHand
  PROVE  Calm(w)'
<1>1. /\ UNCHANGED <<parts, task, late, worker>>
      /\ chat \in [MessageIds -> Texts \cup {Placeholder, "unsent", "gone", "removed"}]
  BY DEF RemovedByHand, vars, DeliveryInv, WireOK
<1>2. \A l \in MessageIds : chat'[l] \in {chat[l], "removed"}
  BY <1>1 DEF RemovedByHand
<1> QED
  BY <1>1, <1>2, SameCalm

-----------------------------------------------------------------------------
(* The whole *)

(* The bookkeeping of one process that has learned every outcome *)
LEMMA CoroutineCalm ==
  ASSUME DeliveryInv, TracksAll, NEW w \in Workers, Workers = {w}, Calm(w), CoroutineStep(w),
         contest # "deleted", unknown = 0, unknown' = 0
  PROVE  Calm(w)'
<1>1. DeliveryInv' /\ Stretch(w)
  BY CoroutineInv, CoroutineStretch
<1>2. worker[w].pc = "delivering"
  BY <1>1 DEF Stretch
<1>3. OwnsClaim(w)
  BY <1>2 DEF DeliveryInv, OrderInv, Unrobbed
<1>4. CASE NextPart(w)
  BY <1>3, <1>4, NextPartCalm
<1>5. CASE TelegramAccepts(w) \/ TelegramRefuses(w)
  BY <1>3, <1>5, AcceptsCalm, RefusesCalm
<1>6. CASE TelegramTimesOut(w) \/ DatabaseFails(w)
  BY <1>6 DEF TelegramTimesOut, DatabaseFails
<1>7. CASE \/ HandleSend(w) \/ HandleEdit(w) \/ HandleDelete(w) \/ HandleNeutralize(w)
           \/ HandleUndo(w) \/ HandleRestore(w) \/ HandleBlank(w) \/ HandleRetract(w)
           \/ HandleRetire(w)
  <2>1. ShowTurn(w)
    BY <1>3, <1>7, SendShows, EditShows, DeleteShows, NeutralizeShows, UndoShows, RestoreShows,
       RetractShows, RetireShows
  <2>2. Awaiting(w) /\ chat' = chat /\ late' = late
    BY <1>7 DEF HandleSend, HandleEdit, HandleDelete, HandleNeutralize, HandleUndo, HandleRestore,
                HandleBlank, HandleRetract, HandleRetire, Handling, Answered, Awaiting, Calls
  <2> QED
    BY <1>1, <1>3, <2>1, <2>2, TurnCalm
<1> QED
  BY <1>4, <1>5, <1>6, <1>7 DEF CoroutineStep

(* How many outcomes were not learned never falls. *)
LEMMA UnknownGrows ==
  ASSUME DeliveryInv, [DeliveryNext]_allVars, unknown' = 0
  PROVE  unknown = 0
<1>1. unknown \in Nat
  BY UnknownNat
<1>2. \/ unknown' = unknown
      \/ unknown' = unknown + 1
  BY DEF DeliveryNext, DeliveryCommand, DeliveryStep, DeliveryTrouble, DeliveryUnchanged,
         BeginDelivery, NextPart, TelegramAccepts, TelegramRefuses,
         TelegramTimesOut, HandleSend, HandleEdit, HandleDelete, HandleNeutralize, HandleUndo,
         HandleRestore, HandleBlank, HandleRetract, HandleRetire, Handling,
         DatabaseFails, CrashDelivery, LateCall, RemovedByHand, allVars, deliveryVars
<1> QED
  BY <1>1, <1>2

LEMMA NextCalm ==
  ASSUME DeliveryInv, TracksAll, NEW w \in Workers, Workers = {w}, Calm(w), [DeliveryNext]_allVars,
         contest' # "deleted", unknown' = 0
  PROVE  Calm(w)'
<1>1. contest # "deleted" /\ unknown = 0
  BY ContestGoesOn, UnknownGrows
<1>2. CASE DeliveryCommand
  BY <1>2, CommandCalm
<1>3. CASE CoroutineStep(w)
  BY <1>1, <1>3, CoroutineCalm
<1>4. CASE BeginDelivery(w) \/ CrashDelivery(w)
  BY <1>1, <1>4, BeginCalm, CrashCalm
<1>5. CASE UNCHANGED deliveryVars
           /\ (\/ Tick \/ Claim(w) \/ Prepare(w) \/ PreparationFails(w) \/ RenderingFails(w)
               \/ worker[w].pc = "prepared" /\ ClaimLost(w)
               \/ worker' = worker)
  BY <1>5, StillCalm
<1>6. CASE RemovedByHand
  BY <1>6, RemovedCalm
<1>7. ~LateCall
  BY DEF LateCall, Calm
<1>8. DeliveryStep(w) \/ DeliveryTrouble(w) =>
        \/ CoroutineStep(w) \/ BeginDelivery(w) \/ CrashDelivery(w)
        \/ UNCHANGED deliveryVars
           /\ (\/ Claim(w) \/ Prepare(w) \/ PreparationFails(w) \/ RenderingFails(w)
               \/ worker[w].pc = "prepared" /\ ClaimLost(w))
  BY DEF DeliveryStep, DeliveryTrouble, CoroutineStep, DeliveryUnchanged
<1>9. UNCHANGED allVars => worker' = worker /\ UNCHANGED deliveryVars
  BY DEF allVars, deliveryVars
<1> QED
  BY <1>2, <1>3, <1>4, <1>5, <1>6, <1>7, <1>8, <1>9 DEF DeliveryNext, DeliveryUnchanged

(* The rows of a contest go with it for good. *)
NoRowsLeft == contest = "deleted" => \A i \in Ids : ~Exists(rows[i])

LEMMA RowsGone ==
  ASSUME DeliveryInv, NoRowsLeft, [DeliveryNext]_allVars
  PROVE  NoRowsLeft'
<1> SUFFICES ASSUME contest' = "deleted", NEW i \in Ids PROVE ~Exists(rows'[i])
  BY DEF NoRowsLeft
<1>0. rows \in [Ids -> Row]
  BY DEF DeliveryInv, OrderInv, IInv, TypeOK
<1>1. CASE DeliveryCommand
  <2>1. contest = "open"
    BY <1>1, CommandIsNext
       DEF SwissNext, MatchNext, ContestNext, Command, SaveSwissSettings, SaveSwissPrediction,
           SaveSwissResult, CreateMatch, SaveMatchResult, DeleteMatch, SaveMasterSwitch,
           PublishLeaderboard, CompleteContest, DeleteContest
  <2>2. rows' = [j \in Ids |-> NoRow]
    BY <1>1, <2>1, CommandIsNext
       DEF SwissNext, MatchNext, ContestNext, SaveSwissSettings, SaveSwissPrediction,
           SaveSwissResult, CreateMatch, SaveMatchResult, DeleteMatch, SaveMasterSwitch,
           PublishLeaderboard, CompleteContest, DeleteContest
  <2> QED
    BY <2>2, NoRowRow DEF Exists
<1>2. CASE ~DeliveryCommand
  <2>1. \A j \in Ids : ~Exists(rows[j])
    BY <1>2, ContestGoesOn DEF NoRowsLeft
  <2>2. ASSUME NEW w \in Workers PROVE ~OwnsClaim(w)
    BY <2>1, InDelivery DEF OwnsClaim
  <2>3. ASSUME NEW w \in Workers, CoroutineStep(w) PROVE ~Exists(rows'[i])
    <3>1. PICK q \in Row : rows' = [rows EXCEPT ![worker[w].id] = q] /\ q.type = ClaimedRow(w).type
      BY <2>3, CoroutineStretch, StretchFrame DEF ClaimedRow
    <3> QED
      BY <1>0, <2>1, <3>1 DEF Exists, ClaimedRow
  <2>4. CASE rows' = rows
    BY <2>1, <2>4
  <2>5. CASE Tick
    <3>1. rows'[i] = Ticked(rows[i]) /\ rows[i] \in Row
      BY <1>0, <2>5 DEF Tick
    <3> QED
      BY <2>1, <3>1 DEF Ticked, Row, Exists
  <2>6. ASSUME NEW w \in Workers,
               Claim(w) \/ Prepare(w) \/ PreparationFails(w) \/ RenderingFails(w)
        PROVE  rows' = rows
    BY <2>1, <2>2, <2>6 DEF Claim, Eligible, Prepare, PreparationFails, RenderingFails
  <2>7. \/ rows' = rows \/ Tick
        \/ \E w \in Workers : \/ CoroutineStep(w)
                              \/ Claim(w) \/ Prepare(w) \/ PreparationFails(w) \/ RenderingFails(w)
    BY <1>2 DEF DeliveryNext, DeliveryStep, DeliveryTrouble, CoroutineStep, DeliveryUnchanged,
                BeginDelivery, StartDelivery, CrashDelivery, Crash, ClaimLost, LateCall,
                RemovedByHand, vars, allVars
  <2> QED
    BY <2>3, <2>4, <2>5, <2>6, <2>7
<1> QED
  BY <1>1, <1>2

LEMMA InitShown == DeliveryInit => ShownInv
<1> SUFFICES ASSUME DeliveryInit, NEW w \in Workers PROVE Calm(w)
  BY InitTracks DEF ShownInv, DeliveryInit, Init
<1>1. \A i \in Ids, n \in Numbers : parts[i][n] = NoPart
  BY DEF DeliveryInit, NoParts
<1>2. task[w] = NoTask /\ late = {} /\ worker[w] = Idle
  BY DEF DeliveryInit, Init
<1>3. ~Awaiting(w) /\ worker[w].pc # "delivering"
  BY <1>2, NoTaskOK DEF Awaiting, Idle
<1> QED
  BY <1>1, <1>2, <1>3, NoPartRecorded DEF Calm, Distinct, Sound, Faithful

LEMMA NextShown == ShownInv /\ [DeliveryNext]_allVars => ShownInv'
<1> SUFFICES ASSUME ShownInv, [DeliveryNext]_allVars PROVE ShownInv'
  OBVIOUS
<1>1. TrackInv /\ TrackInv' /\ DeliveryInv
  BY NextTracks DEF ShownInv, TrackInv
<1>2. NoRowsLeft'
  BY <1>1, RowsGone DEF ShownInv, NoRowsLeft
<1>3. ASSUME NEW w \in Workers, Workers = {w}, contest' # "deleted", unknown' = 0 PROVE Calm(w)'
  <2>1. contest # "deleted" /\ unknown = 0
    BY <1>1, <1>3, ContestGoesOn, UnknownGrows
  <2>2. TracksAll /\ Calm(w)
    BY <1>1, <1>3, <2>1 DEF TrackInv, ShownInv
  <2> QED
    BY <1>1, <1>3, <2>2, NextCalm
<1> QED
  BY <1>1, <1>2, <1>3 DEF ShownInv, NoRowsLeft

LEMMA ShownInductive == DeliverySpec => []ShownInv
BY InitShown, NextShown, PTL DEF DeliverySpec

(* One process runs, of a contest with rows, and nothing is unknown to it. *)
LEMMA UndisturbedCalm ==
  ASSUME ShownInv, Undisturbed, contest # "deleted"
  PROVE  \E w \in Workers : Workers = {w} /\ Calm(w)
<1>1. PICK w \in Workers : Workers = {w}
  BY ProcessesAssumption, FS_Singleton DEF Undisturbed
<1> QED
  BY <1>1 DEF ShownInv, Undisturbed

(* While one process runs and has learned the outcome of every call, what the
   database says a message shows is what the chat shows, or an administrator
   has removed it: edits that a command overtakes are undone or marked before
   the coroutine ends (_edit_part, _handle_changed_claim_after_edit,
   _compensate_stale_edit, _retire_extra_part). *)
THEOREM RecordsAreShown == DeliverySpec => []RecordIsShown
<1>1. ShownInv => RecordIsShown
  <2> SUFFICES ASSUME ShownInv, Undisturbed, NEW i \in Ids, NEW n \in Numbers,
                      parts[i][n].msg # 0, parts[i][n].hash = parts[i][n].text,
                      ~InHand(parts[i][n].msg)
               PROVE  chat[parts[i][n].msg] \in {parts[i][n].text, "removed"}
    BY DEF RecordIsShown
  <2>1. CASE contest = "deleted"
    <3>1. parts[i] = NoParts
      BY <2>1 DEF ShownInv, TrackInv, DeliveryInv, Mirrored
    <3> QED
      BY <3>1 DEF NoParts, NoPart
  <2>2. CASE contest # "deleted"
    BY <2>2, UndisturbedCalm DEF Calm, Faithful
  <2> QED
    BY <2>1, <2>2
<1> QED
  BY <1>1, ShownInductive, PTL

-----------------------------------------------------------------------------
(* The end of a delivery *)

(* Steps that keep the claim *)
LEMMA ClaimStays ==
  ASSUME DeliveryInv, NEW w \in Workers, OwnsClaim(w)
  PROVE  LET q == rows'[worker[w].id]
         IN  /\ \A permanent : LeaveFailed(w, permanent) => q.status \in {"pending", "terminal_failed"}
             /\ \A ps : PartDone(w, ps) => q.claim = w
             /\ \A kind, msg, text : Ask(w, kind, msg, text) => q.claim = w
             /\ \A kind, n, msg, text :
                  ClaimState(w) = "current" /\ AskRenewed(w, kind, n, msg, text) => q.claim = w
<1> DEFINE i == worker[w].id
           q == rows'[i]
<1>1. /\ rows \in [Ids -> Row] /\ rows[i] \in Row /\ i \in Ids /\ rows[i].claim = w
  BY InDelivery DEF DeliveryInv, OrderInv, IInv, TypeOK, ClaimedRow, OwnsClaim
<1>2. ASSUME NEW permanent, LeaveFailed(w, permanent)
      PROVE  q.status \in {"pending", "terminal_failed"}
  <2>1. PICK wait \in 0..MaxBackoff :
          rows' = [rows EXCEPT ![i] = [Failed(w, permanent, wait) EXCEPT
                                         !.messages = Summary(PartsOf(w))]]
    BY <1>2 DEF LeaveFailed, Leave, Settle
  <2>2. q = [Failed(w, permanent, wait) EXCEPT !.messages = Summary(PartsOf(w))]
    BY <1>1, <2>1
  <2>3. Failed(w, permanent, wait).status \in {"pending", "terminal_failed"}
    BY <1>1 DEF Failed, FinishFailure, Released, Row
  <2> QED
    BY <2>2, <2>3 DEF Failed, FinishFailure, Released
<1>3. ASSUME NEW ps, PartDone(w, ps) PROVE q.claim = w
  BY <1>1, <1>3 DEF PartDone, Row
<1>4. ASSUME NEW kind, NEW msg, NEW text, Ask(w, kind, msg, text) PROVE q.claim = w
  BY <1>1, <1>4 DEF Ask
<1>5. ASSUME NEW kind, NEW n, NEW msg, NEW text, ClaimState(w) = "current",
             AskRenewed(w, kind, n, msg, text)
      PROVE  q.claim = w
  BY <1>1, <1>5 DEF AskRenewed, Row
<1> QED
  BY <1>2, <1>3, <1>4, <1>5

(* The steps of the coroutine that do not complete a current revision *)
LEMMA CompletesLast ==
  ASSUME DeliveryInv, NEW w \in Workers, Completes(w), CoroutineStep(w)
  PROVE  NextPart(w) /\ \A n \in Numbers : n >= task[w].at => UpToDate(task[w], n)
<1> DEFINE i == worker[w].id
           q == rows'[i]
           call == task[w].call
<1>1. /\ worker[w].pc = "delivering" /\ ClaimState(w) = "current" /\ OwnsClaim(w)
      /\ q.claim = "none" /\ q.status \notin {"pending", "terminal_failed"}
  BY ClaimStateFact DEF Completes, Outcome
<1>2. q.claim # w /\ rows[i].claim # q.claim
  BY <1>1, WorkersAssumption DEF OwnsClaim
<1>3. ~Overtaken(w)
  BY <1>1, OvertakenFact
<1>4. Awaiting(w) => call.kind \notin Undoings
  BY <1>3, InWire DEF CallOK
<1>5. ~(TelegramAccepts(w) \/ TelegramRefuses(w) \/ TelegramTimesOut(w))
  BY <1>2 DEF TelegramAccepts, TelegramRefuses, TelegramTimesOut, vars
<1>6. ~DatabaseFails(w)
  BY <1>1, ClaimStays DEF DatabaseFails
<1>7. ~(HandleRestore(w) \/ HandleBlank(w) \/ HandleRetract(w) \/ HandleRetire(w))
  BY <1>4 DEF HandleRestore, HandleBlank, HandleRetract, HandleRetire, Handling, Answered,
              Awaiting, Undoings
<1>8. ~HandleUndo(w)
  <2> SUFFICES ASSUME HandleUndo(w) PROVE FALSE
    OBVIOUS
  <2>1. call.kind = "undoFailed"
    BY <1>4 DEF HandleUndo, Handling, Answered, Awaiting, Undoings
  <2>2. LeaveFailed(w, FALSE)
    BY <1>1, <2>1 DEF HandleUndo
  <2> QED
    BY <1>1, <2>2, ClaimStays
<1>9. ~HandleSend(w)
  BY <1>1, <1>2, ClaimStays DEF HandleSend
<1>10. ~HandleEdit(w)
  BY <1>1, <1>2, ClaimStays DEF HandleEdit
<1>11. ~HandleDelete(w)
  BY <1>1, <1>2, ClaimStays DEF HandleDelete
<1>12. ~HandleNeutralize(w)
  BY <1>1, <1>2, ClaimStays DEF HandleNeutralize
<1>13. NextPart(w)
  BY <1>5, <1>6, <1>7, <1>8, <1>9, <1>10, <1>11, <1>12 DEF CoroutineStep
<1>14. {n \in Numbers : n >= task[w].at /\ ~UpToDate(task[w], n)} = {}
  BY <1>1, <1>2, <1>13, ClaimStays DEF NextPart
<1> QED
  BY <1>13, <1>14

(* Nothing else completes a revision. *)
LEMMA CompletesByWorker ==
  ASSUME DeliveryInv, NEW w \in Workers, Workers = {w}, Completes(w), [DeliveryNext]_allVars
  PROVE  CoroutineStep(w)
<1> DEFINE i == worker[w].id
           q == rows'[i]
<1>1. /\ worker[w].pc = "delivering" /\ OwnsClaim(w) /\ Exists(rows[i]) /\ rows[i].claim = w
      /\ q.claim = "none" /\ q.status # "pending" /\ w # "none" /\ i \in Ids
      /\ rows \in [Ids -> Row]
  BY ClaimStateFact, WorkersAssumption, InDelivery
     DEF Completes, Outcome, OwnsClaim, DeliveryInv, OrderInv, IInv, TypeOK
<1>2. ~DeliveryCommand
  <2> SUFFICES ASSUME DeliveryCommand PROVE FALSE
    OBVIOUS
  <2>1. Moved
    BY CommandIsNext, CommandsOrder DEF DeliveryInv
  <2>2. rows'[i] = NoRow
    BY <1>1, <2>1 DEF Moved, Carried
  <2> QED
    BY <1>1, <2>2 DEF NoRow, RowOf
<1>3. rows' # rows
  BY <1>1
<1>4. ~Tick
  <2>1. Tick => q = Ticked(rows[i])
    BY <1>1 DEF Tick
  <2> QED
    BY <1>1, <2>1 DEF Ticked, Row
<1>5. ~BeginDelivery(w) /\ ~CrashDelivery(w) /\ ~LateCall /\ ~RemovedByHand /\ ~UNCHANGED allVars
  BY <1>3 DEF BeginDelivery, StartDelivery, CrashDelivery, Crash, LateCall, RemovedByHand, vars,
              allVars
<1>6. ~(Claim(w) \/ Prepare(w) \/ PreparationFails(w) \/ RenderingFails(w))
  BY <1>1 DEF Claim, Prepare, PreparationFails, RenderingFails
<1> QED
  <2>1. DeliveryStep(w) \/ DeliveryTrouble(w)
    BY <1>2, <1>4, <1>5 DEF DeliveryNext, DeliveryUnchanged
  <2>2. ~(worker[w].pc = "prepared")
    BY <1>1
  <2> QED
    BY <1>5, <1>6, <2>1, <2>2 DEF DeliveryStep, DeliveryTrouble, DeliveryUnchanged, CoroutineStep

(* A revision is completed with every part as it should be, and none in hand. *)
LEMMA CompletedShown ==
  ASSUME ShownInv, [DeliveryNext]_allVars, Undisturbed, NEW w \in Workers, Completes(w),
         NEW n \in Numbers
  PROVE  LET p == PartsOf(w)[n]
         IN  Said(p, task[w], n) /\ Sound(p) /\ Faithful(p) /\ p \in Part
<1> DEFINE p == PartsOf(w)[n]
<1>1. DeliveryInv /\ worker[w].pc = "delivering" /\ OwnsClaim(w)
  BY ClaimStateFact DEF ShownInv, TrackInv, Completes
<1>2. contest # "deleted" /\ worker[w].id \in Ids
  BY <1>1, InDelivery DEF ShownInv, OwnsClaim
<1>3. Workers = {w} /\ Calm(w)
  BY <1>2, UndisturbedCalm
<1>4. CoroutineStep(w)
  BY <1>1, <1>3, CompletesByWorker
<1>5. NextPart(w) /\ \A m \in Numbers : m >= task[w].at => UpToDate(task[w], m)
  BY <1>1, <1>4, CompletesLast
<1>6. \A m : ~InHand(m)
  BY <1>3, <1>5 DEF InHand, NextPart
<1>7. p = parts[worker[w].id][n] /\ p \in Part
  BY <1>1, <1>2, InDelivery DEF PartsOf
<1>8. Sound(p) /\ Faithful(p)
  BY <1>2, <1>3, <1>6, <1>7 DEF Calm
<1>9. Said(p, task[w], n)
  <2>1. /\ task[w].at \in Nat /\ n \in Nat
        /\ n >= task[w].at => p = task[w].stored[n]
    BY <1>1, InDelivery, NumbersFact DEF TaskFits, Task
  <2>2. CASE n < task[w].at
    BY <1>1, <1>3, <2>2 DEF Calm
  <2>3. CASE n >= task[w].at
    BY <1>5, <2>1, <2>3 DEF UpToDate, Said
  <2> QED
    BY <2>1, <2>2, <2>3
<1> QED
  BY <1>7, <1>8, <1>9

(* What WithdrawnIsGone says of a step *)
WithdrawalsGone ==
  \A w \in Workers :
    Completes(w) /\ worker[w].action = "withdraw" /\ Undisturbed =>
      \A n \in Numbers :
        LET p == PartsOf(w)[n]
        IN  p.msg # 0 => \/ p.status = "terminal_failed"
                        \/ (p.status = "retired" /\ p.hash = "stale-edit")
                        \/ chat[p.msg] \notin Texts

LEMMA NextWithdraws == ShownInv /\ [DeliveryNext]_allVars => WithdrawalsGone
<1> SUFFICES ASSUME ShownInv, [DeliveryNext]_allVars, Undisturbed, NEW w \in Workers, Completes(w),
                    worker[w].action = "withdraw", NEW n \in Numbers
             PROVE  LET p == PartsOf(w)[n]
                    IN  p.msg # 0 => \/ p.status = "terminal_failed"
                                    \/ (p.status = "retired" /\ p.hash = "stale-edit")
                                    \/ chat[p.msg] \notin Texts
  BY DEF WithdrawalsGone
<1> DEFINE p == PartsOf(w)[n]
<1>1. Said(p, task[w], n) /\ Sound(p) /\ Faithful(p) /\ p \in Part
  BY CompletedShown
<1>2. task[w].desired = <<>>
  BY InDelivery DEF ShownInv, TrackInv, Completes, TaskFits
<1>3. ~(n <= Len(task[w].desired))
  BY <1>2, NumbersFact
<1>4. p.msg = 0 \/ p.status \in {"retired", "terminal_failed"}
  BY <1>1, <1>3 DEF Said, Part
<1>5. CASE p.msg # 0 /\ p.status = "retired" /\ p.hash # "stale-edit"
  <2>1. p.hash = p.text /\ p.text = Placeholder
    BY <1>1, <1>5 DEF Sound
  <2>2. chat[p.msg] \in {Placeholder, "removed"}
    BY <1>1, <1>5, <2>1 DEF Faithful
  <2> QED
    BY <2>2, TextsAssumption
<1> QED
  BY <1>4, <1>5

(* When one process, having learned every outcome, settles a withdrawal, none
   of its messages shows what it said, but for those that Telegram would not
   let go and those whose edit came after they had been retired, which are
   marked (deliver_publication, _retire_extra_part, finish_publication_success). *)
THEOREM WithdrawalsAreGone == DeliverySpec => WithdrawnIsGone
<1>1. ShownInv /\ [DeliveryNext]_allVars => WithdrawalsGone
  BY NextWithdraws
<1> QED
  BY <1>1, ShownInductive, PTL DEF DeliverySpec, WithdrawnIsGone, WithdrawalsGone

-----------------------------------------------------------------------------
(* What a publication announces has happened. *)

Happened ==
  /\ \A i \in Ids : rows[i].type = "match_result" /\ rows[i].entity \in Matches =>
       matches[rows[i].entity] = "finished"
  /\ \A i \in Ids : rows[i].type = "swiss_result" => "swiss" \in Kinds /\ plan["swiss"].result
  /\ "swiss" \in Kinds /\ plan["swiss"].result =>
       plan["swiss"].on /\ plan["swiss"].locked /\ plan["swiss"].deadline = 0

(* Row q is row r, of what it was, or a new one of another type than these. *)
Alike(r, q, types) == (q.type = r.type /\ q.entity = r.entity) \/ q.type \in types

Others == {"champion_predictions", "champion_result", "swiss_predictions",
           "leaderboard_snapshot", "contest_completed", "none"}

(* The statements of the commands *)
LEMMA StatementsAlike ==
  ASSUME NEW rs, AllOK(rs), NEW on, NEW type, NEW entity, NEW action \in Actions, NEW at \in Timer,
         NEW i \in Ids
  PROVE  /\ Alike(rs[i], Create(rs, on, type, entity, action, at)[i], {type})
         /\ Create(rs, on, type, entity, action, at)[i].type # rs[i].type =>
              Create(rs, on, type, entity, action, at)[i].entity = entity
         /\ Alike(rs[i], Revise(rs, on, type, entity, action, at)[i], {})
         /\ Alike(rs[i], Inserted(rs, RowOf(type, entity, action, at))[i], {type})
<1>1. /\ RowOf(type, entity, action, at).type = type /\ RowOf(type, entity, action, at).entity = entity
      /\ rs[i] \in Row
  BY DEF RowOf, AllOK
<1>2. Revised(rs[i], action, at).type = rs[i].type /\ Revised(rs[i], action, at).entity = rs[i].entity
  BY <1>1, RevisedRow
<1> QED
  BY <1>1, <1>2 DEF Alike, Create, Inserted, Revise

LEMMA PredictionsAlike ==
  ASSUME NEW rs, AllOK(rs), NEW on, NEW k \in Kinds, NEW p \in Plan, NEW i \in Ids
  PROVE  Alike(rs[i], CreateOrRevisePredictions(rs, on, k, p)[i], Others)
<1> DEFINE st == PredictionsState(p)
           type == Predictions(k)
           qs == CreateOrRevisePredictions(rs, on, k, p)
<1>1. st.action \in Actions /\ st.at \in Timer /\ type \in Others /\ rs[i] \in Row
  BY PredictionsStateFact DEF Predictions, Others, AllOK
<1>2. CASE ~Has(rs, type, "contest")
  <2>1. qs = rs \/ qs = Create(rs, on, type, "contest", st.action, st.at)
    BY <1>2 DEF CreateOrRevisePredictions
  <2> HIDE DEF qs, st, type
  <2>2. Alike(rs[i], qs[i], {type})
    BY <1>1, <2>1, StatementsAlike DEF Alike
  <2> QED
    BY <1>1, <2>2 DEF Alike, qs
<1>3. CASE Has(rs, type, "contest")
  <2>1. \/ qs[i] = rs[i] \/ qs[i] = Revised(rs[i], st.action, st.at)
        \/ qs[i] = [rs[i] EXCEPT !.reconcile = st.at]
    BY <1>3 DEF CreateOrRevisePredictions
  <2> HIDE DEF qs, st, type
  <2>2. qs[i].type = rs[i].type /\ qs[i].entity = rs[i].entity
    BY <1>1, <2>1, RevisedRow DEF Row
  <2> QED
    BY <2>2 DEF Alike, qs
<1> QED
  BY <1>2, <1>3

(* A step that leaves what has happened alone, and announces nothing new *)
LEMMA SameHappened ==
  ASSUME Happened, UNCHANGED matches,
         "swiss" \in Kinds => plan'["swiss"].result = plan["swiss"].result,
         "swiss" \in Kinds /\ plan["swiss"].result =>
           plan'["swiss"].on /\ plan'["swiss"].locked /\ plan'["swiss"].deadline = 0,
         \A i \in Ids : Alike(rows[i], rows'[i], Others)
  PROVE  Happened'
BY DEF Happened, Alike, Others

LEMMA SwitchHappens ==
  ASSUME OrderInv, IInv', Happened, SaveMasterSwitch PROVE Happened'
<1>1. AllOK(rows) /\ UNCHANGED <<matches, plan>> /\ \A k \in Kinds : plan[k] \in Plan
  BY TableOK DEF OrderInv, SaveMasterSwitch
<1>2. CASE ~enabled'
  <2>1. ASSUME NEW i \in Ids PROVE Alike(rows[i], rows'[i], Others)
    <3>1. rows'[i] = SwitchedOff(rows[i]) \/ rows'[i] = rows[i]
      BY <1>2 DEF SaveMasterSwitch
    <3>2. rows[i] \in Row
      BY <1>1 DEF AllOK
    <3> QED
      BY <3>1, <3>2, SwitchedOffRow DEF Alike
  <2> QED
    BY <1>1, <2>1, SameHappened DEF Happened
<1>3. CASE enabled'
  <2>1. PICK mid : mid = IF "champion" \in Kinds
                         THEN Rescheduled(rows, "champion", plan["champion"]) ELSE rows
    OBVIOUS
  <2>2. rows' = IF "swiss" \in Kinds THEN Rescheduled(mid, "swiss", plan["swiss"]) ELSE mid
    BY <1>3, <2>1 DEF SaveMasterSwitch
  <2>3. AllOK(mid)
    BY <1>1, <2>1, TableOK, RescheduledFollows, AllFollowSame DEF OrderInv, AllFollow
  <2>4. \A i \in Ids : Alike(rows[i], mid[i], Others)
    BY <1>1, <2>1, PredictionsAlike DEF Rescheduled, Alike
  <2>5. \A i \in Ids : Alike(mid[i], rows'[i], Others)
    BY <1>1, <2>2, <2>3, PredictionsAlike DEF Rescheduled, Alike
  <2>6. \A i \in Ids : Alike(rows[i], rows'[i], Others)
    BY <2>4, <2>5 DEF Alike
  <2> QED
    BY <1>1, <2>6, SameHappened DEF Happened
<1> QED
  BY <1>2, <1>3

LEMMA AlikeSame == ASSUME NEW r, NEW types PROVE Alike(r, r, types)
BY DEF Alike

(* save_champion_prediction_settings, save_champion_prediction: the row of the
   result may be revised, that of the predictions created *)
LEMMA ChampionAlike ==
  ASSUME OrderInv, "champion" \in Kinds, NEW p \in Plan, NEW i \in Ids,
         LET st == ResultState(p)
         IN  rows' = CreateOrRevisePredictions(
                       Revise(rows, enabled, "champion_result", "contest", st.action, st.at),
                       enabled, "champion", p)
  PROVE  Alike(rows[i], rows'[i], Others)
<1> DEFINE st == ResultState(p)
           mid == Revise(rows, enabled, "champion_result", "contest", st.action, st.at)
<1>1. AllOK(rows) /\ enabled \in BOOLEAN
  BY TableOK DEF OrderInv
<1>2. st.action \in Actions /\ st.at \in Timer
  BY PredictionsStateFact
<1>3. rows' = CreateOrRevisePredictions(mid, enabled, "champion", p)
  OBVIOUS
<1> HIDE DEF st
<1>4. MayPublish("champion_result", st.action, plan)
  BY PredictionsType DEF MayPublish
<1>5. AllOK(mid)
  BY <1>1, <1>2, <1>4, ReviseFollows DEF AllFollow
<1>6. Alike(rows[i], mid[i], {})
  BY <1>1, <1>2, StatementsAlike
<1> HIDE DEF mid
<1>7. Alike(mid[i], rows'[i], Others)
  BY <1>3, <1>5, PredictionsAlike
<1> QED
  BY <1>6, <1>7 DEF Alike

LEMMA ChampionHappens ==
  ASSUME OrderInv, Happened, ChampionNext PROVE Happened'
<1>1. /\ "champion" \in Kinds /\ UNCHANGED matches /\ AllOK(rows)
      /\ plan \in [Kinds -> Plan]
  BY TableOK DEF ChampionNext, SaveChampionSettings, SaveChampionPrediction, SaveContestChampion,
                 OrderInv, IInv, TypeOK
<1>2. "swiss" \in Kinds => plan'["swiss"] = plan["swiss"]
  <2>1. plan' = plan \/ \E p : plan' = [plan EXCEPT !["champion"] = p]
    BY DEF ChampionNext, SaveChampionSettings, SaveChampionPrediction, SaveContestChampion
  <2> QED
    BY <1>1, <2>1
<1>3. ASSUME NEW i \in Ids PROVE Alike(rows[i], rows'[i], Others)
  <2>1. ASSUME NEW on \in BOOLEAN, NEW delay \in 0..MaxDelay, SaveChampionSettings(on, delay)
        PROVE  Alike(rows[i], rows'[i], Others)
    <3>1. PICK deadline : deadline = IF on THEN delay ELSE Never
      OBVIOUS
    <3>2. deadline \in Timer /\ plan["champion"] \in Plan
      BY <1>1, <3>1, Members, BoundsAssumption
    <3>3. PICK p \in Plan : p = [plan["champion"] EXCEPT !.on = on, !.deadline = deadline]
      BY <3>2 DEF Plan
    <3>4. LET st == ResultState(p)
          IN  rows' = CreateOrRevisePredictions(
                        Revise(rows, enabled, "champion_result", "contest", st.action, st.at),
                        enabled, "champion", p)
      BY <2>1, <3>1, <3>3 DEF SaveChampionSettings
    <3> QED
      BY <1>1, <3>4, ChampionAlike
  <2>2. CASE SaveChampionPrediction
    <3>1. PICK p \in Plan : p = plan["champion"]
      BY <1>1
    <3>2. LET st == ResultState(p)
          IN  rows' = CreateOrRevisePredictions(
                        Revise(rows, enabled, "champion_result", "contest", st.action, st.at),
                        enabled, "champion", p)
      BY <2>2, <3>1 DEF SaveChampionPrediction
    <3> QED
      BY <1>1, <3>2, ChampionAlike
  <2>3. CASE SaveContestChampion
    <3>1. PICK p : p = [plan["champion"] EXCEPT !.result = TRUE]
      OBVIOUS
    <3>2. ResultState(p).action \in Actions /\ ResultState(p).at \in Timer
      <4>1. p \in Plan
        BY <1>1, <3>1 DEF Plan
      <4> QED
        BY <4>1, PredictionsStateFact
    <3>3. PICK action \in Actions, at \in Timer :
            action = ResultState(p).action /\ at = ResultState(p).at
      BY <3>2
    <3>4. \/ rows' = Create(rows, enabled, "champion_result", "contest", action, at)
          \/ rows' = Revise(rows, enabled, "champion_result", "contest", action, at)
      BY <2>3, <3>1, <3>3 DEF SaveContestChampion
    <3>5. Alike(rows[i], rows'[i], {"champion_result"})
      BY <1>1, <3>4, StatementsAlike DEF Alike
    <3> QED
      BY <3>5 DEF Alike, Others
  <2> QED
    BY <2>1, <2>2, <2>3 DEF ChampionNext
<1> QED
  BY <1>1, <1>2, <1>3, SameHappened DEF Happened

LEMMA SwissHappens ==
  ASSUME OrderInv, Happened, SwissNext PROVE Happened'
<1>1. /\ "swiss" \in Kinds /\ UNCHANGED matches /\ AllOK(rows)
      /\ plan \in [Kinds -> Plan] /\ plan["swiss"] \in Plan
  BY TableOK DEF SwissNext, SaveSwissSettings, SaveSwissPrediction, SaveSwissResult, OrderInv,
                 IInv, TypeOK
<1>2. ASSUME NEW on \in BOOLEAN, NEW limits \in BOOLEAN, NEW deadline \in {Never} \cup 0..MaxDelay,
             SaveSwissSettings(on, deadline, limits)
      PROVE  Happened'
  <2>1. deadline \in Timer
    BY Members, BoundsAssumption
  <2>2. PICK p \in Plan : p = [plan["swiss"] EXCEPT !.on = on, !.deadline = deadline]
    BY <1>1, <2>1 DEF Plan
  <2>3. /\ p.result = plan["swiss"].result /\ p.locked = plan["swiss"].locked
        /\ p.on = on /\ p.deadline = deadline
    BY <1>1, <2>2 DEF Plan
  <2>4. plan'["swiss"] = p
    BY <1>1, <1>2, <2>2 DEF SaveSwissSettings
  <2>5. p.result => p.on /\ p.locked /\ p.deadline = 0
    <3>1. plan["swiss"].locked => on = plan["swiss"].on
      BY <1>2 DEF SaveSwissSettings
    <3>2. plan["swiss"].deadline = 0 => deadline = 0
      BY <1>2, Members DEF SaveSwissSettings, DeadlineMayBecome, Never
    <3> QED
      BY <1>1, <2>3, <3>1, <3>2 DEF Happened
  <2>6. ASSUME NEW i \in Ids PROVE Alike(rows[i], rows'[i], Others)
    <3>1. rows' = rows \/ rows' = CreateOrRevisePredictions(rows, enabled, "swiss", p)
      BY <1>2, <2>2 DEF SaveSwissSettings
    <3> QED
      BY <1>1, <3>1, AlikeSame, PredictionsAlike
  <2> QED
    BY <1>1, <2>3, <2>4, <2>5, <2>6, SameHappened
<1>3. CASE SaveSwissPrediction
  <2>1. /\ plan'["swiss"].result = plan["swiss"].result /\ plan'["swiss"].on = plan["swiss"].on
        /\ plan'["swiss"].deadline = plan["swiss"].deadline /\ plan'["swiss"].locked
        /\ rows' = rows
    BY <1>1, <1>3 DEF SaveSwissPrediction, Plan
  <2> QED
    BY <1>1, <2>1, AlikeSame, SameHappened DEF Happened
<1>4. CASE SaveSwissResult
  <2>1. /\ plan'["swiss"].result /\ plan'["swiss"].locked
        /\ plan'["swiss"].on = plan["swiss"].on /\ plan'["swiss"].deadline = plan["swiss"].deadline
        /\ plan["swiss"].on /\ plan["swiss"].deadline = 0
    BY <1>1, <1>4 DEF SaveSwissResult, Plan
  <2>2. ASSUME NEW i \in Ids PROVE Alike(rows[i], rows'[i], {"swiss_result"})
    <3>1. "publish" \in Actions /\ Never \in Timer
      BY Members
    <3>2. \/ rows' = Create(rows, enabled, "swiss_result", "contest", "publish", Never)
          \/ rows' = Revise(rows, enabled, "swiss_result", "contest", "publish", Never)
      BY <1>4 DEF SaveSwissResult
    <3> QED
      BY <1>1, <3>1, <3>2, StatementsAlike DEF Alike
  <2> QED
    BY <1>1, <2>1, <2>2 DEF Happened, Alike
<1> QED
  BY <1>2, <1>3, <1>4 DEF SwissNext

LEMMA MatchHappens ==
  ASSUME OrderInv, Happened, MatchNext PROVE Happened'
<1>1. AllOK(rows) /\ plan' = plan /\ "gone" \notin Matches /\ "gone" \in Entities
      /\ matches \in [Matches -> {"absent", "open", "finished"}] /\ enabled \in BOOLEAN
  BY TableOK, ContestEntityAssumption, EntitiesAssumption
     DEF MatchNext, CreateMatch, SaveMatchResult, DeleteMatch, OrderInv, IInv, TypeOK
<1>2. ASSUME NEW m \in Matches, CreateMatch(m) PROVE Happened'
  BY <1>1, <1>2 DEF CreateMatch, Happened
<1>3. ASSUME NEW m \in Matches, SaveMatchResult(m) PROVE Happened'
  <2>1. ASSUME NEW i \in Ids
        PROVE  \/ rows'[i].type = rows[i].type /\ rows'[i].entity = rows[i].entity
               \/ rows'[i].type = "match_result" /\ rows'[i].entity = m
    <3>1. "publish" \in Actions /\ Never \in Timer
      BY Members
    <3>2. \/ rows' = Create(rows, enabled, "match_result", m, "publish", Never)
          \/ rows' = Revise(rows, enabled, "match_result", m, "publish", Never)
      BY <1>3 DEF SaveMatchResult
    <3>3. /\ RowOf("match_result", m, "publish", Never).type = "match_result"
          /\ RowOf("match_result", m, "publish", Never).entity = m
      BY DEF RowOf
    <3>4. CASE rows' = Create(rows, enabled, "match_result", m, "publish", Never)
      BY <3>3, <3>4 DEF Create, Inserted
    <3>5. CASE rows' = Revise(rows, enabled, "match_result", m, "publish", Never)
      BY <1>1, <3>1, <3>5, StatementsAlike DEF Alike
    <3> QED
      BY <3>2, <3>4, <3>5
  <2>2. matches' = [matches EXCEPT ![m] = "finished"]
    BY <1>3 DEF SaveMatchResult
  <2> QED
    BY <1>1, <2>1, <2>2 DEF Happened
<1>4. ASSUME NEW m \in Matches, DeleteMatch(m) PROVE Happened'
  <2>1. ASSUME NEW i \in Ids
        PROVE  \/ rows'[i].type = "none"
               \/ rows'[i].entity = "gone" /\ rows'[i].type = rows[i].type
               \/ rows'[i] = rows[i] /\ ~(rows[i].type = "match_result" /\ rows[i].entity = m)
    <3>1. rows'[i] = IF rows[i].type = "match_result" /\ rows[i].entity = m
                     THEN MatchDeleted(rows[i]) ELSE rows[i]
      BY <1>4 DEF DeleteMatch
    <3>2. rows[i] \in Row
      BY <1>1 DEF AllOK
    <3> QED
      BY <1>1, <3>1, <3>2, TombstonedRow, NoRowRow DEF MatchDeleted
  <2>2. matches' = [matches EXCEPT ![m] = "absent"]
    BY <1>4 DEF DeleteMatch
  <2> QED
    BY <1>1, <2>1, <2>2 DEF Happened
<1> QED
  BY <1>2, <1>3, <1>4 DEF MatchNext

LEMMA ContestHappens ==
  ASSUME OrderInv, IInv', Happened, ContestNext PROVE Happened'
<1>1. AllOK(rows) /\ "publish" \in Actions /\ Never \in Timer
  BY TableOK, Members DEF OrderInv
<1>2. CASE SaveMasterSwitch
  BY <1>2, SwitchHappens
<1>3. ASSUME NEW i \in Ids, CompleteContest \/ DeleteContest \/ \E s \in Snapshots : PublishLeaderboard(s)
      PROVE  Alike(rows[i], rows'[i], Others)
  <2>1. CASE CompleteContest
    <3>1. Alike(rows[i], rows'[i], {"contest_completed"})
      BY <1>1, <2>1, StatementsAlike DEF CompleteContest
    <3> QED
      BY <3>1 DEF Alike, Others
  <2>2. CASE DeleteContest
    BY <2>2, NoRowRow DEF DeleteContest, Alike, Others
  <2>3. ASSUME NEW s \in Snapshots, PublishLeaderboard(s) PROVE Alike(rows[i], rows'[i], Others)
    <3>1. Alike(rows[i], rows'[i], {"leaderboard_snapshot"})
      BY <1>1, <2>3, StatementsAlike DEF PublishLeaderboard
    <3> QED
      BY <3>1 DEF Alike, Others
  <2> QED
    BY <1>3, <2>1, <2>2, <2>3
<1>4. CompleteContest \/ DeleteContest \/ (\E s \in Snapshots : PublishLeaderboard(s))
        => UNCHANGED <<matches, plan>>
  BY DEF CompleteContest, DeleteContest, PublishLeaderboard
<1> QED
  BY <1>2, <1>3, <1>4, SameHappened DEF ContestNext, Happened

LEMMA NextHappens == OrderInv /\ Happened /\ [Next]_vars => Happened'
<1> SUFFICES ASSUME OrderInv, Happened, [Next]_vars PROVE Happened'
  OBVIOUS
<1>1. IInv /\ IInv' /\ rows \in [Ids -> Row] /\ plan \in [Kinds -> Plan]
  BY NextIInv DEF OrderInv, IInv, TypeOK
<1>2. CASE ChampionNext \/ SwissNext \/ MatchNext \/ ContestNext
  BY <1>1, <1>2, ChampionHappens, SwissHappens, MatchHappens, ContestHappens
<1>3. CASE Tick
  <2>1. /\ \A k \in Kinds : plan'[k] = [plan[k] EXCEPT !.deadline = Sooner(plan[k].deadline)]
        /\ \A i \in Ids : rows'[i] = Ticked(rows[i]) /\ rows[i] \in Row
        /\ matches' = matches
    BY <1>1, <1>3 DEF Tick
  <2>2. "swiss" \in Kinds =>
          /\ plan'["swiss"].result = plan["swiss"].result /\ plan'["swiss"].on = plan["swiss"].on
          /\ plan'["swiss"].locked = plan["swiss"].locked
          /\ plan["swiss"].deadline = 0 => plan'["swiss"].deadline = 0
    <3> SUFFICES ASSUME "swiss" \in Kinds
                 PROVE  /\ plan'["swiss"].result = plan["swiss"].result
                        /\ plan'["swiss"].on = plan["swiss"].on
                        /\ plan'["swiss"].locked = plan["swiss"].locked
                        /\ plan["swiss"].deadline = 0 => plan'["swiss"].deadline = 0
      OBVIOUS
    <3>1. PICK p \in Plan : p = plan["swiss"]
      BY <1>1
    <3>2. PICK at : at = Sooner(p.deadline)
      OBVIOUS
    <3>3. plan'["swiss"] = [p EXCEPT !.deadline = at]
      BY <2>1, <3>1, <3>2
    <3>4. p.deadline = 0 => at = 0
      BY <3>2 DEF Sooner
    <3> QED
      BY <3>1, <3>3, <3>4 DEF Plan
  <2>3. ASSUME NEW i \in Ids PROVE Alike(rows[i], rows'[i], Others)
    <3>1. rows'[i] = Ticked(rows[i]) /\ rows[i] \in Row
      BY <1>1, <1>3 DEF Tick
    <3>2. rows'[i].type = rows[i].type /\ rows'[i].entity = rows[i].entity
      BY <3>1 DEF Ticked, Row
    <3> QED
      BY <3>2 DEF Alike
  <2> QED
    BY <2>1, <2>2, <2>3, SameHappened DEF Happened
<1>4. ASSUME NEW w \in Workers, WorkerStep(w) \/ WorkerTrouble(w) PROVE Happened'
  <2>1. (\E i \in Ids : \E q, s : WorkerEffect(w, i, q, s)) \/ (\E s : WorkerOnly(w, s))
    BY <1>1, <1>4, WorkersEffect
  <2>2. CASE \E s : WorkerOnly(w, s)
    BY <2>2, AlikeSame, SameHappened DEF WorkerOnly, Happened
  <2>3. ASSUME NEW i \in Ids, NEW q, NEW s, WorkerEffect(w, i, q, s) PROVE Happened'
    <3>1. /\ matches' = matches /\ plan' = plan /\ rows' = [rows EXCEPT ![i] = q]
          /\ q.type = rows[i].type /\ q.entity = rows[i].entity
      BY <2>3 DEF WorkerEffect, Advances
    <3>2. \A j \in Ids : Alike(rows[j], rows'[j], Others)
      BY <1>1, <3>1 DEF Alike
    <3> QED
      BY <3>1, <3>2, SameHappened DEF Happened
  <2> QED
    BY <2>1, <2>2, <2>3
<1>5. CASE UNCHANGED vars
  BY <1>5 DEF vars, Happened
<1> QED
  BY <1>2, <1>3, <1>4, <1>5 DEF Next

-----------------------------------------------------------------------------
(* What is delivered is what the data say. *)

(* The revision that is being published was rendered from the data as they are,
   unless it was overtaken. *)
Fresh(w) ==
  /\ worker[w].pc = "delivering" /\ worker[w].action = "publish"
  /\ OwnsClaim(w) /\ rows[worker[w].id].desired = worker[w].rev
  => task[w].desired = content[worker[w].id]

FreshInv ==
  /\ ShownInv
  /\ Happened
  /\ \A w \in Workers : Workers = {w} => Fresh(w)

(* A revised row is another revision. *)
LEMMA RevisedIsNewer ==
  ASSUME NEW r \in Row, NEW action \in Actions, NEW at \in Timer
  PROVE  Revised(r, action, at).desired # r.desired
<1>1. r.desired \in Nat
  BY DEF Row
<1> QED
  BY <1>1, RevisedRow

(* Data of a publication that is being delivered change only with its revision. *)
LEMMA MatchRerenders ==
  ASSUME OrderInv, Happened, NEW m \in Matches, SaveMatchResult(m),
         NEW i \in About("match_result", m), Allowed(rows[i])
  PROVE  rows'[i].desired # rows[i].desired
<1>1. /\ i \in Ids /\ rows[i].type = "match_result" /\ rows[i].entity = m /\ enabled
      /\ "publish" \in Actions /\ Never \in Timer /\ rows[i] \in Row
  BY Members DEF About, Allowed, OrderInv, IInv, TypeOK
<1>2. matches[m] = "finished"
  BY <1>1 DEF Happened
<1>3. rows'[i] = Revised(rows[i], "publish", Never)
  BY <1>1, <1>2 DEF SaveMatchResult, Revise
<1> QED
  BY <1>1, <1>3, RevisedIsNewer

LEMMA SwissRerenders ==
  ASSUME OrderInv, Happened, SwissNext, NEW i \in Ids, Allowed(rows[i]), rows[i].action = "publish",
         rows[i].type = "swiss_predictions" => plan["swiss"].deadline = 0,
         i \in About(IF plan'["swiss"].result THEN "swiss_result" ELSE "swiss_predictions", "contest")
  PROVE  rows'[i].desired # rows[i].desired
<1>1. /\ rows[i].type \in {"swiss_result", "swiss_predictions"} /\ rows[i].entity = "contest" /\ enabled
      /\ "publish" \in Actions /\ Never \in Timer /\ rows[i] \in Row
      /\ "swiss" \in Kinds /\ plan \in [Kinds -> Plan] /\ plan["swiss"] \in Plan
      /\ rows[i].type = IF plan'["swiss"].result THEN "swiss_result" ELSE "swiss_predictions"
  BY Members DEF About, Allowed, OrderInv, IInv, TypeOK, SwissNext
<1>2. ASSUME NEW on \in BOOLEAN, NEW limits \in BOOLEAN, NEW deadline \in {Never} \cup 0..MaxDelay,
             SaveSwissSettings(on, deadline, limits)
      PROVE  rows'[i].desired # rows[i].desired
  <2>1. deadline \in Timer
    BY Members, BoundsAssumption
  <2>2. PICK p \in Plan : p = [plan["swiss"] EXCEPT !.on = on, !.deadline = deadline]
    BY <1>1, <2>1 DEF Plan
  <2>3. /\ p.result = plan["swiss"].result /\ p.locked = plan["swiss"].locked
        /\ p.on = on /\ p.deadline = deadline
        /\ plan'["swiss"] = p
    BY <1>1, <1>2, <2>2 DEF SaveSwissSettings, Plan
  <2>4. plan["swiss"].deadline = 0 => deadline = 0
    BY <1>2, Members DEF SaveSwissSettings, DeadlineMayBecome, Never
  <2>5. CASE p.result
    <3>1. plan["swiss"].on /\ plan["swiss"].locked /\ plan["swiss"].deadline = 0
      BY <1>1, <2>3, <2>5 DEF Happened
    <3>2. on = plan["swiss"].on /\ ~limits /\ deadline = plan["swiss"].deadline
      BY <1>2, <2>4, <3>1 DEF SaveSwissSettings
    <3>3. p = plan["swiss"]
      BY <1>1, <2>2, <3>2 DEF Plan
    <3> QED
      BY <1>2, <2>2, <3>2, <3>3 DEF SaveSwissSettings
  <2>6. CASE ~p.result
    <3>1. rows[i].type = Predictions("swiss") /\ p.deadline = 0
      BY <1>1, <2>3, <2>4, <2>6 DEF Predictions
    <3>2. rows' = CreateOrRevisePredictions(rows, enabled, "swiss", p)
      BY <1>1, <1>2, <2>2 DEF SaveSwissSettings
    <3>3. Has(rows, Predictions("swiss"), "contest")
      BY <1>1, <3>1 DEF Has
    <3>4. PICK action \in Actions, at \in Timer :
            action = PredictionsState(p).action /\ at = PredictionsState(p).at
      BY PredictionsStateFact
    <3>5. action # "publish" => action # rows[i].action
      OBVIOUS
    <3>6. rows'[i] = Revised(rows[i], action, at)
      BY <1>1, <3>1, <3>2, <3>3, <3>4, <3>5 DEF CreateOrRevisePredictions
    <3> QED
      BY <1>1, <3>6, RevisedIsNewer
  <2> QED
    BY <2>5, <2>6
<1>3. CASE SaveSwissPrediction
  <2>1. plan'["swiss"].result = plan["swiss"].result /\ plan["swiss"].deadline > 0
    BY <1>1, <1>3 DEF SaveSwissPrediction, Plan
  <2>2. plan["swiss"].deadline = 0
    BY <1>1, <2>1 DEF Happened
  <2> QED
    BY <2>1, <2>2
<1>4. CASE SaveSwissResult
  <2>1. plan'["swiss"].result
    BY <1>1, <1>4 DEF SaveSwissResult, Plan
  <2>2. rows[i].type = "swiss_result" /\ plan["swiss"].result
    BY <1>1, <2>1 DEF Happened
  <2>3. rows'[i] = Revised(rows[i], "publish", Never)
    BY <1>1, <1>4, <2>2 DEF SaveSwissResult, Revise
  <2> QED
    BY <1>1, <2>3, RevisedIsNewer
<1> QED
  BY <1>2, <1>3, <1>4 DEF SwissNext

LEMMA CommandFresh ==
  ASSUME DeliveryInv, Happened, NEW w \in Workers, Fresh(w), DeliveryCommand
  PROVE  Fresh(w)'
<1> DEFINE i == worker[w].id
           r == rows[i]
<1>1. /\ SwissNext \/ MatchNext \/ ContestNext
      /\ Cascade /\ UNCHANGED <<chat, task, late, unknown>>
  BY CommandIsNext DEF DeliveryCommand
<1>2. OrderInv /\ Moved
  BY <1>1, CommandsOrder DEF DeliveryInv
<1>3. worker' = worker
  BY <1>1, CommandsEffect DEF OrderInv, CommandEffect, DeliveryInv
<1> SUFFICES ASSUME worker[w].pc = "delivering", worker[w].action = "publish",
                    OwnsClaim(w)', rows'[i].desired = worker[w].rev
             PROVE  task[w].desired = content'[i]
  BY <1>1, <1>3 DEF Fresh
<1>4. i \in Ids /\ Exists(rows'[i]) /\ rows'[i].claim = w /\ w # "none"
  BY <1>3, InDelivery, WorkersAssumption DEF OwnsClaim
<1>5. Carried(r, rows'[i])
  BY <1>2, <1>4, NoRowRow DEF Moved, Anew
<1>6. OwnsClaim(w) /\ r.desired = worker[w].rev /\ rows'[i].desired = r.desired
  <2>1. OwnsClaim(w)
    BY <1>4, <1>5 DEF Carried, OwnsClaim, Exists
  <2>2. AsRead(w) /\ r.desired \in Nat /\ worker[w].rev \in Nat
    BY <1>4, InDelivery DEF DeliveryInv, ClaimedRow, Row
  <2>3. r.desired >= worker[w].rev /\ rows'[i].desired >= r.desired
    BY <1>5, <2>1, <2>2 DEF AsRead, Carried
  <2> QED
    BY <2>1, <2>2, <2>3
<1>7. task[w].desired = content[i] /\ r.action = "publish" /\ Allowed(r) /\ Exists(r)
  BY <1>6 DEF Fresh, AsRead, DeliveryInv, OwnsClaim
<1>8. ASSUME NEW ids, Rerendered(ids), i \notin ids PROVE content'[i] = content[i]
  BY <1>4, <1>7, <1>8 DEF Rerendered
<1>9. ASSUME NEW m \in Matches, SaveMatchResult(m), Rerendered(About("match_result", m))
      PROVE  content'[i] = content[i]
  BY <1>2, <1>6, <1>7, <1>8, <1>9, MatchRerenders
<1>10. CASE SwissNext /\ Rerendered(About(IF plan'["swiss"].result THEN "swiss_result"
                                          ELSE "swiss_predictions", "contest"))
  <2>1. r.type = "swiss_predictions" => plan["swiss"].deadline = 0
    <3>1. OwnerOK(worker[w], r, plan)
      BY <1>2, <1>6 DEF OrderInv, IInv, Owns, OwnsClaim
    <3>2. "swiss" \in Kinds /\ Predictions("swiss") = "swiss_predictions"
      BY <1>10 DEF SwissNext, Predictions
    <3> QED
      BY <3>1, <3>2 DEF OwnerOK
  <2> QED
    BY <1>2, <1>4, <1>6, <1>7, <1>8, <1>10, <2>1, SwissRerenders
<1> QED
  BY <1>7, <1>8, <1>9, <1>10 DEF DeliveryCommand

(* The coroutine renders once: its endings and calls leave what it shows. *)
LEMMA RendersOnce ==
  ASSUME task \in [Workers -> Task], NEW w \in Workers
  PROVE  /\ \A row, ps : Leave(w, row, ps) => task'[w].desired = <<>>
         /\ \A ps : LeaveOvertaken(w, ps) => task'[w].desired = <<>>
         /\ \A permanent : LeaveFailed(w, permanent) => task'[w].desired = <<>>
         /\ LeaveLost(w) => task'[w].desired = <<>>
         /\ \A ps : PartDone(w, ps) => task'[w].desired = task[w].desired
         /\ \A kind, msg, text : Ask(w, kind, msg, text) => task'[w].desired = task[w].desired
         /\ \A kind, n, msg, text :
              AskRenewed(w, kind, n, msg, text) => task'[w].desired \in {task[w].desired, <<>>}
         /\ \A reply, msg : Answer(w, reply, msg) => task'[w].desired = task[w].desired
<1>0. NoTask.desired = <<>> /\ task[w] \in Task
  BY DEF NoTask
<1>1. \A row, ps : Leave(w, row, ps) => task'[w].desired = <<>>
  BY <1>0 DEF Leave
<1>2. LeaveLost(w) => task'[w].desired = <<>>
  BY <1>0 DEF LeaveLost
<1>3. \A ps : LeaveOvertaken(w, ps) => task'[w].desired = <<>>
  BY <1>1, <1>2 DEF LeaveOvertaken
<1>4. \A permanent : LeaveFailed(w, permanent) => task'[w].desired = <<>>
  BY <1>1 DEF LeaveFailed
<1>5. \A ps : PartDone(w, ps) => task'[w].desired = task[w].desired
  BY <1>0 DEF PartDone, Task
<1>6. \A kind, msg, text : Ask(w, kind, msg, text) => task'[w].desired = task[w].desired
  BY <1>0 DEF Ask, Asked, Task
<1>7. ASSUME NEW kind, NEW n, NEW msg, NEW text, AskRenewed(w, kind, n, msg, text)
      PROVE  task'[w].desired \in {task[w].desired, <<>>}
  BY <1>0, <1>3, <1>7 DEF AskRenewed, Asked, Task
<1>8. ASSUME NEW reply, NEW msg, Answer(w, reply, msg) PROVE task'[w].desired = task[w].desired
  BY <1>0, <1>8 DEF Answer, Task
<1> QED
  BY <1>1, <1>2, <1>3, <1>4, <1>5, <1>6, <1>7, <1>8

LEMMA CoroutineRenders ==
  ASSUME DeliveryInv, NEW w \in Workers, CoroutineStep(w)
  PROVE  task'[w].desired \in {task[w].desired, <<>>} /\ content' = content
<1>1. task \in [Workers -> Task]
  BY DEF DeliveryInv, RecordsOK
<1>2. CASE NextPart(w)
  BY <1>1, <1>2, RendersOnce DEF NextPart, untouched
<1>3. CASE TelegramAccepts(w) \/ TelegramRefuses(w) \/ TelegramTimesOut(w)
  BY <1>1, <1>3, RendersOnce DEF TelegramAccepts, TelegramRefuses, TelegramTimesOut
<1>4. CASE HandleSend(w) \/ HandleUndo(w) \/ DatabaseFails(w)
  BY <1>1, <1>4, RendersOnce DEF HandleSend, HandleUndo, DatabaseFails, Handling, Answered, untouched
<1>5. CASE HandleEdit(w) \/ HandleNeutralize(w)
  <2>1. UndoEdit(w) => task'[w].desired \in {task[w].desired, <<>>}
    BY <1>1, RendersOnce DEF UndoEdit
  <2> QED
    BY <1>1, <1>5, <2>1, RendersOnce DEF HandleEdit, HandleNeutralize, Handling, Answered, untouched
<1>6. CASE HandleDelete(w)
  BY <1>1, <1>6, RendersOnce DEF HandleDelete, Handling, Answered, untouched
<1>7. CASE HandleRestore(w) \/ HandleBlank(w) \/ HandleRetract(w) \/ HandleRetire(w)
  BY <1>1, <1>7, RendersOnce DEF HandleRestore, HandleBlank, HandleRetract, HandleRetire, Handling,
                                Answered, untouched
<1> QED
  BY <1>2, <1>3, <1>4, <1>5, <1>6, <1>7 DEF CoroutineStep

(* A coroutine goes on with the revision it began. *)
LEMMA CoroutineFresh ==
  ASSUME DeliveryInv, NEW w \in Workers, Fresh(w), CoroutineStep(w)
  PROVE  Fresh(w)'
<1> DEFINE i == worker[w].id
<1>1. DeliveryInv' /\ Stretch(w)
  BY CoroutineInv, CoroutineStretch
<1>2. task'[w].desired \in {task[w].desired, <<>>} /\ content' = content
  BY CoroutineRenders
<1> SUFFICES ASSUME worker'[w].pc = "delivering", worker'[w].action = "publish",
                    OwnsClaim(w)', rows'[worker'[w].id].desired = worker'[w].rev
             PROVE  task'[w].desired = content'[worker'[w].id]
  BY DEF Fresh
<1>3. worker'[w] = worker[w] /\ worker[w].pc = "delivering"
  BY <1>1, StillAt DEF Stretch
<1>4. task'[w].desired = task[w].desired
  <2>1. TaskFits(w, task[w], PartsOf(w))'
    BY <1>1 DEF DeliveryInv, Tasked
  <2> QED
    BY <1>2, <2>1 DEF TaskFits
<1>5. OwnsClaim(w) /\ rows'[i].desired = rows[i].desired
  <2>1. /\ rows \in [Ids -> Row] /\ i \in Ids /\ rows[i] \in Row
        /\ worker \in [Workers -> WorkerState]
    BY InDelivery DEF DeliveryInv, OrderInv, IInv, TypeOK, ClaimedRow
  <2>2. worker' # [worker EXCEPT ![w] = Idle]
    BY <1>3, <2>1 DEF Idle
  <2>3. Asks(w) \/ Records(w)
    BY <1>1, <2>2 DEF Stretch, Completed, GaveUp, Lost, Leave, LeaveLost, Settle
  <2>4. CASE Asks(w)
    BY <1>3, <2>4 DEF Asks, OwnsClaim
  <2>5. CASE Records(w)
    <3>1. OwnsClaim(w)
      BY <2>5, ClaimStateFact DEF Records
    <3>2. rows'[i].desired = rows[i].desired
      BY <2>1, <2>5 DEF Records, Row
    <3> QED
      BY <3>1, <3>2
  <2> QED
    BY <2>3, <2>4, <2>5
<1> QED
  BY <1>2, <1>3, <1>4, <1>5 DEF Fresh

(* A delivery begins with the data as they are. *)
LEMMA BeginFresh ==
  ASSUME DeliveryInv, NEW w \in Workers, BeginDelivery(w)
  PROVE  Fresh(w)'
<1>1. /\ worker \in [Workers -> WorkerState] /\ worker[w] \in WorkerState
      /\ task \in [Workers -> Task] /\ task[w] \in Task
  BY InDelivery DEF DeliveryInv, RecordsOK, OrderInv, IInv, TypeOK
<1>2. /\ worker'[w].id = worker[w].id /\ worker'[w].action = worker[w].action
      /\ content' = content
  BY <1>1 DEF BeginDelivery, StartDelivery, WorkerState
<1>3. worker[w].action = "publish" => task'[w].desired = content[worker[w].id]
  BY <1>1 DEF BeginDelivery, Task
<1> QED
  BY <1>2, <1>3 DEF Fresh

(* Steps that leave the locals and the data alone, and the row but for time *)
LEMMA StillFresh ==
  ASSUME DeliveryInv, NEW w \in Workers, Fresh(w), task' = task, content' = content,
         \/ Tick
         \/ Claim(w) \/ Prepare(w) \/ PreparationFails(w) \/ RenderingFails(w)
         \/ worker[w].pc = "prepared" /\ ClaimLost(w)
         \/ UNCHANGED <<rows, worker>>
  PROVE  Fresh(w)'
<1>1. /\ worker[w].pc = "delivering" => worker'[w] = worker[w]
      /\ worker[w].pc # "delivering" => worker'[w].pc # "delivering"
  BY OnStage
<1>2. CASE worker[w].pc # "delivering"
  BY <1>1, <1>2 DEF Fresh
<1>3. CASE worker[w].pc = "delivering"
  <2> DEFINE i == worker[w].id
  <2>1. i \in Ids /\ rows[i] \in Row /\ worker'[w] = worker[w]
    BY <1>1, <1>3, InDelivery DEF ClaimedRow
  <2>2. rows'[i] = Ticked(rows[i]) \/ rows'[i] = rows[i]
    BY <1>3, <2>1 DEF Tick, Claim, Prepare, PreparationFails, RenderingFails
  <2>3. /\ rows'[i].desired = rows[i].desired /\ rows'[i].claim = rows[i].claim
        /\ rows'[i].type = rows[i].type
    BY <2>1, <2>2 DEF Ticked, Row
  <2> QED
    BY <2>1, <2>3 DEF Fresh, OwnsClaim, Exists
<1> QED
  BY <1>2, <1>3

LEMMA NextFresh == FreshInv /\ [DeliveryNext]_allVars => FreshInv'
<1> SUFFICES ASSUME FreshInv, [DeliveryNext]_allVars PROVE FreshInv'
  OBVIOUS
<1>1. DeliveryInv /\ OrderInv /\ Happened
  BY DEF FreshInv, ShownInv, TrackInv, DeliveryInv
<1>2. ShownInv' /\ Happened'
  <2>1. [Next]_vars
    BY <1>1, DeliveryNextInv
  <2> QED
    BY <1>1, <2>1, NextShown, NextHappens DEF FreshInv
<1>3. ASSUME NEW w \in Workers, Workers = {w} PROVE Fresh(w)'
  <2>1. Fresh(w)
    BY <1>3 DEF FreshInv
  <2>2. CASE DeliveryCommand
    BY <1>1, <2>1, <2>2, CommandFresh
  <2>3. CASE CoroutineStep(w)
    BY <1>1, <2>1, <2>3, CoroutineFresh
  <2>4. CASE BeginDelivery(w)
    BY <1>1, <2>4, BeginFresh
  <2>5. CASE CrashDelivery(w)
    <3>1. worker \in [Workers -> WorkerState]
      BY <1>1 DEF OrderInv, IInv, TypeOK
    <3>2. worker'[w] = Idle
      BY <2>5, <3>1 DEF CrashDelivery, Crash
    <3> QED
      BY <3>2 DEF Fresh, Idle
  <2>6. CASE /\ task' = task /\ content' = content
             /\ \/ Tick \/ Claim(w) \/ Prepare(w) \/ PreparationFails(w) \/ RenderingFails(w)
                \/ worker[w].pc = "prepared" /\ ClaimLost(w)
                \/ UNCHANGED <<rows, worker>>
    BY <1>1, <2>1, <2>6, StillFresh
  <2>7. CASE DeliveryStep(w) \/ DeliveryTrouble(w)
    BY <2>3, <2>4, <2>5, <2>6, <2>7
       DEF DeliveryStep, DeliveryTrouble, CoroutineStep, DeliveryUnchanged, deliveryVars
  <2>8. CASE LateCall \/ RemovedByHand \/ DeliveryUnchanged(Tick) \/ UNCHANGED allVars
    BY <2>6, <2>8 DEF LateCall, RemovedByHand, DeliveryUnchanged, deliveryVars, vars, allVars
  <2> QED
    BY <1>3, <2>2, <2>7, <2>8 DEF DeliveryNext
<1> QED
  BY <1>2, <1>3 DEF FreshInv

LEMMA InitFresh == DeliveryInit => FreshInv
<1> SUFFICES ASSUME DeliveryInit PROVE FreshInv
  OBVIOUS
<1>1. ShownInv
  BY InitShown
<1>2. Happened
  <2>1. \A i \in Ids : rows[i].type = "none"
    BY NoRowRow DEF DeliveryInit, Init, NoRow, RowOf
  <2>2. "swiss" \in Kinds => ~plan["swiss"].result
    BY DEF DeliveryInit, Init, NoPlan
  <2> QED
    BY <2>1, <2>2 DEF Happened
<1>3. \A w \in Workers : Fresh(w)
  BY DEF DeliveryInit, Init, Idle, Fresh
<1> QED
  BY <1>1, <1>2, <1>3 DEF FreshInv

LEMMA FreshInductive == DeliverySpec => []FreshInv
BY InitFresh, NextFresh, PTL DEF DeliverySpec

(* What PublishedIsShown says of a step *)
PublicationsShown ==
  \A w \in Workers :
    Completes(w) /\ worker[w].action = "publish" /\ Undisturbed => ShowsContent(worker[w].id)

LEMMA NextPublishes == FreshInv /\ [DeliveryNext]_allVars => PublicationsShown
<1> SUFFICES ASSUME FreshInv, [DeliveryNext]_allVars, Undisturbed, NEW w \in Workers, Completes(w),
                    worker[w].action = "publish"
             PROVE  ShowsContent(worker[w].id)
  BY DEF PublicationsShown
<1> DEFINE i == worker[w].id
<1>1. /\ ShownInv /\ DeliveryInv /\ worker[w].pc = "delivering" /\ ClaimState(w) = "current"
      /\ OwnsClaim(w) /\ rows[i].desired = worker[w].rev
  BY ClaimStateFact DEF FreshInv, ShownInv, TrackInv, Completes, ClaimState
<1>2. contest # "deleted" /\ i \in Ids /\ content[i] \in Contents
  BY <1>1, InDelivery DEF ShownInv, OwnsClaim, DeliveryInv, WireOK
<1>3. Workers = {w}
  BY <1>1, <1>2, UndisturbedCalm
<1>4. task[w].desired = content[i]
  BY <1>1, <1>3 DEF FreshInv, Fresh
<1> SUFFICES ASSUME NEW n \in Numbers
             PROVE  LET p == parts[i][n]
                    IN  IF n <= Len(content[i])
                        THEN p.msg # 0 /\ chat[p.msg] \in {content[i][n], "removed"}
                        ELSE p.msg = 0 \/ p.status # "active"
  BY DEF ShowsContent
<1>5. PICK p \in Part : p = parts[i][n]
  BY <1>1, <1>2 DEF DeliveryInv, RecordsOK
<1>6. Said(p, task[w], n) /\ Sound(p) /\ Faithful(p)
  BY <1>1, <1>5, CompletedShown DEF PartsOf
<1>7. CASE n <= Len(content[i])
  <2>1. p.msg # 0 /\ p.hash = content[i][n]
    BY <1>4, <1>6, <1>7 DEF Said
  <2>2. content[i][n] \in Texts
    BY <1>2, <1>7, ContentsFact
  <2>3. p.hash = p.text
    BY <1>6, <2>1, <2>2, TextsAssumption DEF Sound
  <2> QED
    BY <1>5, <1>6, <1>7, <2>1, <2>3 DEF Faithful
<1>8. CASE ~(n <= Len(content[i]))
  BY <1>4, <1>5, <1>6, <1>8 DEF Said
<1> QED
  BY <1>7, <1>8

(* When one process, having learned every outcome, settles a publication, each
   message shows what the data say at that moment, or has been removed by hand,
   and no further part is active: a command that changed the data in between has
   made a newer revision, which the worker finds before it settles the old one
   (deliver_publication, _inspect_claim_state, finish_publication_success). *)
THEOREM PublicationsAreShown == DeliverySpec => PublishedIsShown
<1>1. FreshInv /\ [DeliveryNext]_allVars => PublicationsShown
  BY NextPublishes
<1> QED
  BY <1>1, FreshInductive, PTL DEF DeliverySpec, PublishedIsShown, PublicationsShown

=============================================================================
