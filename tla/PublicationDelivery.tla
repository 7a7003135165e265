------------------------- MODULE PublicationDelivery -------------------------
(***************************************************************************)
(* How a claimed publication reaches the chat (app/publication_delivery.py  *)
(* under app/publication_worker.py).  The queue and the commands are those  *)
(* of PublicationOutbox; here a delivery is the sequence of Telegram calls  *)
(* the worker awaits, one for each part that is missing, outdated or too    *)
(* much, with the undoing of calls that a command has overtaken.            *)
(*                                                                         *)
(* Between two awaits the code is synchronous: each action below is one     *)
(* such stretch.  A call takes three steps: the worker asks, Telegram acts  *)
(* and answers, the worker handles the answer; commands, and the organizer  *)
(* deleting messages, happen in between.                                    *)
(***************************************************************************)
EXTENDS PublicationOutbox, Sequences, FiniteSetsExt

CONSTANTS
  Texts,        (* texts of a part                                        *)
  Contents,     (* what a publication may render to: sequences of texts    *)
  MaxParts,     (* bound on their length                                  *)
  MaxMessages,  (* bound on messages sent to the chat                     *)
  MaxUnknown    (* bound on calls whose outcome the program never learns  *)

Placeholder == "placeholder"

ASSUME TextsAssumption ==
  Texts \cap {Placeholder, "stale-edit", "terminal-failed", "unsent", "gone", "removed"} = {}
ASSUME ContentsAssumption ==
  \A c \in Contents : c \in Seq(Texts) /\ Len(c) \in 1..MaxParts
ASSUME DeliveryBoundsAssumption ==
  /\ MaxParts \in Nat
  /\ MaxMessages \in Nat
  /\ MaxUnknown \in Nat

VARIABLES
  content,  (* what the data of each publication renders to now           *)
  parts,    (* contest_publication_messages, by publication and part      *)
  chat,     (* the text each message of the chat shows                    *)
  task,     (* the local variables of each worker's deliver_publication   *)
  late,     (* calls that timed out and that Telegram may still act upon  *)
  unknown   (* how many calls had an outcome the program did not learn, or
               should have been undone and were not *)

deliveryVars == <<content, parts, chat, task, late, unknown>>
allVars == <<enabled, contest, matches, plan, rows, worker, crashes,
             content, parts, chat, task, late, unknown>>
untouched == <<enabled, contest, matches, plan, crashes, content>>

Numbers == 1..MaxParts
MessageIds == 1..MaxMessages

Part == [msg : 0..MaxMessages, text : Texts \cup {Placeholder},
         hash : Texts \cup {Placeholder, "stale-edit", "terminal-failed"},
         status : {"active", "retired", "terminal_failed"}]

(* A part that was never recorded has message 0. *)
NoPart == [msg |-> 0, text |-> Placeholder, hash |-> Placeholder, status |-> "active"]
NoParts == [n \in Numbers |-> NoPart]

ActivePart(msg, text) == [msg |-> msg, text |-> text, hash |-> text, status |-> "active"]
RetiredPart_Withdrawn(msg) == [ActivePart(msg, Placeholder) EXCEPT !.status = "withdrawn"]
RetiredPart(msg) == [ActivePart(msg, Placeholder) EXCEPT !.status = "retired"]

(* What a call is for decides how its answer is handled. *)
Calls == [send |-> {"send", "resend"},
           edit |-> {"edit", "neutralize", "restore", "blank", "retire"},
           delete |-> {"delete", "undo", "undoFailed", "retract"}]

NoCall == [kind |-> "none", msg |-> 0, text |-> Placeholder, reply |-> "awaited"]
NoTask == [at |-> 1, desired |-> <<>>, stored |-> NoParts, call |-> NoCall]

DeliveryInit ==
  /\ Init
  /\ content \in [Ids -> Contents]
  /\ parts = [i \in Ids |-> NoParts]
  /\ chat = [m \in MessageIds |-> "unsent"]
  /\ task = [w \in Workers |-> NoTask]
  /\ late = {}
  /\ unknown = 0

Visible(m) == chat[m] \notin {"unsent", "gone", "removed"}

(* The summary of its parts that a row of PublicationOutbox carries *)
Summary(ps) ==
  IF \E n \in Numbers : ps[n].msg # 0 /\ ps[n].status # "retired" THEN "shown"
  ELSE IF \E n \in Numbers : ps[n].msg # 0 THEN "retired" ELSE "none"

-----------------------------------------------------------------------------
(* Telegram (external) *)

Awaiting(w) == task[w].call.kind # "none"

(* What Telegram does for a call it accepts; a send takes the next id. *)
Applied(call) ==
  IF call.kind \in Calls.send
  THEN LET m == CHOOSE m \in MessageIds : /\ chat[m] = "unsent"
                                          /\ \A l \in 1..(m - 1) : chat[l] # "unsent"
       IN  [chat EXCEPT ![m] = call.text]
  ELSE IF ~Visible(call.msg) THEN chat
  ELSE [chat EXCEPT ![call.msg] = IF call.kind \in Calls.edit THEN call.text ELSE "gone"]

HasRoom(call) == call.kind \in Calls.send => chat[MaxMessages] = "unsent"

(* A refusal is "missing" when Telegram says that the message does not exist;
   "message to delete not found" does not read like that, hence "bad" too. *)
Refusals(call) ==
  {"bad"} \cup (IF call.kind \in Calls.delete THEN {"forbidden"} ELSE {})
          \cup (IF call.msg # 0 /\ ~Visible(call.msg) THEN {"missing"} ELSE {})

Answer(w, reply, msg) ==
  task' = [task EXCEPT ![w].call.reply = reply, ![w].call.msg = msg]

TelegramAccepts(w) ==
  LET call == task[w].call
  IN  /\ Awaiting(w) /\ call.reply = "awaited"
      /\ HasRoom(call)
      /\ call.msg # 0 => Visible(call.msg)
      /\ chat' = Applied(call)
      /\ IF call.kind \in Calls.send
         THEN \E m \in MessageIds : chat'[m] # chat[m] /\ Answer(w, "ok", m)
         ELSE Answer(w, "ok", call.msg)
      /\ UNCHANGED <<vars, content, parts, late, unknown>>

(* Nobody tries again to undo a call: an undoing that is refused leaves the
   chat other than the program meant it. *)
LastResort(call) ==
  /\ call.kind \in {"undo", "undoFailed", "blank", "retire"}
  /\ Visible(call.msg)

TelegramRefuses(w) ==
  LET call == task[w].call
  IN  /\ Awaiting(w) /\ call.reply = "awaited"
      /\ \E reply \in Refusals(call) \cup {"temporary"} : Answer(w, reply, call.msg)
      /\ LastResort(call) => unknown < MaxUnknown
      /\ unknown' = IF LastResort(call) THEN unknown + 1 ELSE unknown
      /\ UNCHANGED <<vars, content, parts, chat, late>>

(* The call times out, or the network fails, and Telegram may act upon it
   before the worker goes on, later, or never. *)
TelegramTimesOut(w) ==
  LET call == task[w].call
  IN  /\ Awaiting(w) /\ call.reply = "awaited"
      /\ unknown < MaxUnknown
      /\ unknown' = unknown + 1
      /\ late' = late \cup {call}
      /\ Answer(w, "temporary", call.msg)
      /\ UNCHANGED <<vars, content, parts, chat>>

LateCall ==
  /\ \E call \in late : /\ HasRoom(call)
                        /\ chat' = Applied(call)
                        /\ late' = late \ {call}
  /\ UNCHANGED <<vars, content, parts, task, unknown>>

(* An administrator of the chat deletes a message of the bot. *)
RemovedByHand ==
  /\ \E m \in MessageIds : Visible(m) /\ chat' = [chat EXCEPT ![m] = "removed"]
  /\ UNCHANGED <<vars, content, parts, task, late, unknown>>

-----------------------------------------------------------------------------
(* The worker *)

ClaimedRow(w) == rows[worker[w].id]
PartsOf(w) == parts[worker[w].id]

(* A stretch of code that ends in the next call, of this kind *)
Asked(w, kind, msg, text) ==
  [task EXCEPT ![w].call = [kind |-> kind, msg |-> msg, text |-> text, reply |-> "awaited"]]

Ask(w, kind, msg, text) ==
  /\ task' = Asked(w, kind, msg, text)
  /\ UNCHANGED <<rows, worker, parts>>

(* One that ends the delivery, leaving the row and its parts like this *)
Leave(w, row, ps) ==
  /\ Settle(w, [row EXCEPT !.messages = Summary(ps)])
  /\ parts' = [parts EXCEPT ![worker[w].id] = ps]
  /\ task' = [task EXCEPT ![w] = NoTask]

(* ClaimLostError: nothing may be written. *)
LeaveLost(w) ==
  /\ worker' = [worker EXCEPT ![w] = Idle]
  /\ task' = [task EXCEPT ![w] = NoTask]
  /\ UNCHANGED <<rows, parts>>

LeaveOvertaken_Always(w, ps) == Leave(w, Succeeded(w), ps)

(* StalePublicationRevision, or ClaimLostError; ps is what the parts become
   as long as the claim is owned. *)
LeaveOvertaken(w, ps) ==
  IF OwnsClaim(w) THEN Leave(w, Succeeded(w), ps) ELSE LeaveLost(w)

(* _raise_classified *)
LeaveFailed(w, permanent) ==
  \E wait \in 0..MaxBackoff : Leave(w, Failed(w, permanent, wait), PartsOf(w))

(* The part is done: on to the next one *)
PartDone(w, ps) ==
  LET i == worker[w].id
  IN  /\ parts' = [parts EXCEPT ![i] = ps]
      /\ rows' = [rows EXCEPT ![i].messages = Summary(ps)]
      /\ task' = [task EXCEPT ![w].at = @ + 1, ![w].call = NoCall]
      /\ UNCHANGED worker

With(w, part) == [PartsOf(w) EXCEPT ![task[w].at] = part]

(* A call made only after _require_renewed_claim *)
AskRenewed(w, kind, n, msg, text) ==
  IF ClaimState(w) = "current"
  THEN /\ rows' = [rows EXCEPT ![worker[w].id].lease = LeaseTicks]
       /\ task' = [Asked(w, kind, msg, text) EXCEPT ![w].at = n]
       /\ UNCHANGED <<worker, parts>>
  ELSE LeaveOvertaken(w, PartsOf(w))

(* deliver_publication up to its first await: what to show is rendered and
   the parts recorded so far are read. *)
BeginDelivery(w) ==
  /\ StartDelivery(w)
  /\ task' = [task EXCEPT ![w].desired = IF worker[w].action = "publish" THEN content[worker[w].id] ELSE <<>>,
                          ![w].stored = PartsOf(w)]
  /\ UNCHANGED <<content, parts, chat, late, unknown>>

UpToDate_KeepsExtras(t, n) ==
  IF n <= Len(t.desired)
  THEN t.stored[n].msg # 0 /\ t.stored[n].status = "active" /\ t.stored[n].hash = t.desired[n]
  ELSE t.desired # <<>> \/ t.stored[n].msg = 0 \/ t.stored[n].status = "retired"

UpToDate(t, n) ==
  IF n <= Len(t.desired)
  THEN t.stored[n].msg # 0 /\ t.stored[n].status = "active" /\ t.stored[n].hash = t.desired[n]
  ELSE t.stored[n].msg = 0 \/ t.stored[n].status = "retired"

(* The loops of deliver_publication: the first part that needs a call, or the
   end, where finish_publication_success settles the revision. *)
NextPart(w) ==
  LET t == task[w]
      todo == {n \in Numbers : n >= t.at /\ ~UpToDate(t, n)}
  IN  /\ worker[w].pc = "delivering"
      /\ ~Awaiting(w)
      /\ IF todo = {}
         THEN LeaveOvertaken(w, PartsOf(w))
         ELSE LET n == Min(todo)
                  kind == IF n > Len(t.desired) THEN "delete"
                          ELSE IF t.stored[n].msg = 0 THEN "send" ELSE "edit"
                  text == IF n > Len(t.desired) THEN Placeholder ELSE t.desired[n]
              IN  AskRenewed(w, kind, n, t.stored[n].msg, text)
      /\ UNCHANGED <<untouched, chat, late, unknown>>

Answered(w, kinds) ==
  /\ worker[w].pc = "delivering"
  /\ task[w].call.kind \in kinds
  /\ task[w].call.reply # "awaited"
  /\ UNCHANGED <<untouched, chat, late>>

Handling(w, kinds) == Answered(w, kinds) /\ UNCHANGED unknown

HandleSend_Trusts(w) ==
  LET call == task[w].call
  IN  /\ Handling(w, Calls.send)
      /\ IF call.reply # "ok"
         THEN IF ClaimState(w) = "current" THEN LeaveFailed(w, call.reply = "bad")
              ELSE LeaveOvertaken(w, PartsOf(w))
         ELSE IF ClaimState(w) # "current" THEN LeaveOvertaken(w, PartsOf(w))
         ELSE PartDone(w, With(w, ActivePart(call.msg, call.text)))

(* _send_new_part and _send_replacement_part after the call: a message sent
   for a claim that has changed, or that cannot be saved, is deleted again. *)
HandleSend(w) ==
  LET call == task[w].call
  IN  /\ Handling(w, Calls.send)
      /\ IF call.reply # "ok"
         THEN IF ClaimState(w) = "current" THEN LeaveFailed(w, call.reply = "bad")
              ELSE LeaveOvertaken(w, PartsOf(w))
         ELSE IF ClaimState(w) # "current" THEN Ask(w, "undo", call.msg, Placeholder)
         ELSE \/ PartDone(w, With(w, ActivePart(call.msg, call.text)))
              \/ Ask(w, "undoFailed", call.msg, Placeholder)

StaleEdit_KeepsHash(w) == PartsOf(w)[task[w].at]

StaleEdit(w) == [PartsOf(w)[task[w].at] EXCEPT !.hash = "stale-edit"]

(* An edit was overtaken: undo it if nothing may be shown any more, have it
   repeated if something else must be shown. *)
UndoEdit(w) ==
  LET call == task[w].call
      previous == task[w].stored[task[w].at].text
  IN  IF ~OwnsClaim(w) THEN LeaveLost(w)
      ELSE IF ~Allowed(ClaimedRow(w)) THEN Ask(w, "restore", call.msg, previous)
      ELSE IF ClaimedRow(w).action = "withdraw" THEN Ask(w, "retract", call.msg, Placeholder)
      ELSE Leave(w, Succeeded(w), With(w, StaleEdit(w)))

(* _edit_part of a part to show, with _handle_changed_claim_after_edit *)
HandleEdit(w) ==
  LET call == task[w].call
  IN  /\ Handling(w, {"edit"})
      /\ IF ClaimState(w) # "current" THEN UndoEdit(w)
         ELSE CASE call.reply = "ok" -> PartDone(w, With(w, ActivePart(call.msg, call.text)))
                [] call.reply = "missing" ->
                     AskRenewed(w, "resend", task[w].at, 0, call.text)
                [] OTHER -> LeaveFailed(w, call.reply = "bad")

TerminalFailed_AsRetired(w) ==
  [PartsOf(w)[task[w].at] EXCEPT !.hash = "terminal-failed", !.status = "retired"]

TerminalFailed(w) ==
  [PartsOf(w)[task[w].at] EXCEPT !.hash = "terminal-failed", !.status = "terminal_failed"]

(* _retire_extra_part *)
HandleDelete(w) ==
  LET call == task[w].call
      deleted == call.reply \in {"ok", "missing"}
  IN  /\ Handling(w, {"delete"})
      /\ IF ClaimState(w) # "current"
         THEN LeaveOvertaken(w, IF deleted THEN With(w, NoPart) ELSE PartsOf(w))
         ELSE CASE deleted -> PartDone(w, With(w, NoPart))
                [] call.reply = "bad" ->
                     AskRenewed(w, "neutralize", task[w].at, call.msg, Placeholder)
                [] call.reply = "forbidden" -> PartDone(w, With(w, TerminalFailed(w)))
                [] OTHER -> LeaveFailed(w, FALSE)

(* _neutralize_part *)
HandleNeutralize(w) ==
  LET call == task[w].call
  IN  /\ Handling(w, {"neutralize"})
      /\ IF ClaimState(w) # "current" THEN UndoEdit(w)
         ELSE CASE call.reply = "ok" -> PartDone(w, With(w, RetiredPart(call.msg)))
                [] call.reply = "missing" -> PartDone(w, With(w, NoPart))
                [] call.reply = "bad" -> PartDone(w, With(w, TerminalFailed(w)))
                [] OTHER -> LeaveFailed(w, FALSE)

(* _compensate_untracked_message: its failure is only logged. *)
HandleUndo(w) ==
  /\ Handling(w, {"undo", "undoFailed"})
  /\ IF task[w].call.kind = "undo" \/ ~OwnsClaim(w)
     THEN LeaveOvertaken(w, PartsOf(w)) ELSE LeaveFailed(w, FALSE)

(* _compensate_disabled_edit: the text that was there, or a placeholder *)
HandleRestore(w) ==
  LET call == task[w].call
  IN  /\ Handling(w, {"restore"})
      /\ IF call.reply # "ok" THEN Ask(w, "blank", call.msg, Placeholder)
         ELSE LeaveOvertaken(w, With(w, ActivePart(call.msg, call.text)))

HandleBlank(w) ==
  LET call == task[w].call
  IN  /\ Handling(w, {"blank"})
      /\ LeaveOvertaken(w, IF call.reply = "ok" THEN With(w, RetiredPart(call.msg))
                           ELSE PartsOf(w))

StaleWithdraw(w) == ClaimState(w) = "stale" /\ ClaimedRow(w).action = "withdraw"

(* _compensate_stale_edit: the message goes, or becomes a placeholder.  If
   nothing is to be withdrawn any more, the refused deletion is the end of it:
   the edited message stays and its part keeps the old hash. *)
HandleRetract(w) ==
  LET call == task[w].call
      deleted == call.reply \in {"ok", "missing"}
      abandoned == ~deleted /\ ~StaleWithdraw(w) /\ OwnsClaim(w) /\ Visible(call.msg)
  IN  /\ Answered(w, {"retract"})
      /\ abandoned => unknown < MaxUnknown
      /\ unknown' = IF abandoned THEN unknown + 1 ELSE unknown
      /\ IF deleted THEN LeaveOvertaken(w, With(w, NoPart))
         ELSE IF StaleWithdraw(w) THEN Ask(w, "retire", call.msg, Placeholder)
         ELSE LeaveOvertaken(w, PartsOf(w))

HandleRetire(w) ==
  LET call == task[w].call
  IN  /\ Handling(w, {"retire"})
      /\ LeaveOvertaken(w, IF call.reply # "ok" THEN PartsOf(w)
                           ELSE IF StaleWithdraw(w) THEN With(w, RetiredPart(call.msg))
                           ELSE With(w, StaleEdit(w)))

(* A database call after an await fails: what Telegram did is not recorded. *)
DatabaseFails(w) ==
  /\ worker[w].pc = "delivering"
  /\ Awaiting(w) /\ task[w].call.reply # "awaited"
  /\ OwnsClaim(w)
  /\ unknown < MaxUnknown
  /\ unknown' = unknown + 1
  /\ LeaveFailed(w, FALSE)
  /\ UNCHANGED <<untouched, chat, late>>

(* A crash loses the answer of the call, which Telegram may still act upon. *)
CrashDelivery(w) ==
  LET call == task[w].call
      lost == worker[w].pc = "delivering" /\ Awaiting(w)
  IN  /\ Crash(w)
      /\ task' = [task EXCEPT ![w] = NoTask]
      /\ lost => unknown < MaxUnknown
      /\ unknown' = IF lost THEN unknown + 1 ELSE unknown
      /\ late' = IF lost /\ call.reply = "awaited" THEN late \cup {call} ELSE late
      /\ UNCHANGED <<content, parts, chat>>

-----------------------------------------------------------------------------
(* Commands run when no worker is between two awaits. *)

LoopIdle == \E w \in Workers : worker[w].pc = "idle" \/ Awaiting(w)

(* The parts of a row go with the row. *)
Cascade == parts' = [i \in Ids |-> IF Exists(rows'[i]) THEN parts[i] ELSE NoParts]

About(type, entity) == {i \in Ids : rows[i].type = type /\ rows[i].entity = entity}

(* The data these publications, and new ones, are rendered from change. *)
Rerendered(ids) ==
  content' \in {c \in [Ids -> Contents] :
                 \A i \in Ids \ ids : c[i] = content[i] \/ (~Exists(rows[i]) /\ Exists(rows'[i]))}

(* Commands of matches, the Swiss stage and the contest.  Those of the champion
   question are left to PublicationOutbox: what they queue is delivered like what
   the Swiss stage queues. *)
DeliveryCommand ==
  /\ LoopIdle
  /\ \/ \E m \in Matches : SaveMatchResult(m) /\ Rerendered(About("match_result", m))
     \/ SwissNext /\ Rerendered(About(IF plan'["swiss"].result THEN "swiss_result"
                                      ELSE "swiss_predictions", "contest"))
     \/ \E m \in Matches : (CreateMatch(m) \/ DeleteMatch(m)) /\ UNCHANGED content
     \/ ContestNext /\ Rerendered({})
  /\ Cascade
  /\ UNCHANGED <<chat, task, late, unknown>>

DeliveryUnchanged(A) == A /\ UNCHANGED deliveryVars

DeliveryStep(w) ==
  \/ DeliveryUnchanged(Claim(w))
  \/ DeliveryUnchanged(Prepare(w))
  \/ BeginDelivery(w)
  \/ NextPart(w)
  \/ TelegramAccepts(w)
  \/ TelegramRefuses(w)
  \/ HandleSend(w)
  \/ HandleEdit(w)
  \/ HandleDelete(w)
  \/ HandleNeutralize(w)
  \/ HandleUndo(w)
  \/ HandleRestore(w)
  \/ HandleBlank(w)
  \/ HandleRetract(w)
  \/ HandleRetire(w)
  \/ DeliveryUnchanged(worker[w].pc = "prepared" /\ ClaimLost(w))

DeliveryTrouble(w) ==
  \/ TelegramTimesOut(w)
  \/ DatabaseFails(w)
  \/ CrashDelivery(w)
  \/ DeliveryUnchanged(PreparationFails(w))
  \/ DeliveryUnchanged(RenderingFails(w))

DeliveryNext ==
  \/ DeliveryCommand
  \/ \E w \in Workers : DeliveryStep(w) \/ DeliveryTrouble(w)
  \/ LateCall
  \/ RemovedByHand
  \/ DeliveryUnchanged(Tick)

DeliverySpec == DeliveryInit /\ [][DeliveryNext]_allVars

-----------------------------------------------------------------------------
(* The types of the variables. *)
DeliveryTypeOK ==
  /\ content \in [Ids -> Contents]
  /\ parts \in [Ids -> [Numbers -> Part]]
  /\ chat \in [MessageIds -> Texts \cup {Placeholder, "unsent", "gone", "removed"}]
  /\ \A w \in Workers :
       /\ task[w].at \in Nat
       /\ task[w].desired \in Contents \cup {<<>>}
       /\ task[w].stored \in [Numbers -> Part]
       /\ task[w].call.msg \in 0..MaxMessages
  /\ unknown \in 0..MaxUnknown

Tracked(m) == \E i \in Ids, n \in Numbers : parts[i][n].msg = m

InHand(m) == \E w \in Workers : Awaiting(w) /\ task[w].call.msg = m

(* A message in the chat that the database does not know of, and that no
   worker is about to record or delete, is owed to a call whose outcome was
   never learned or whose undoing failed: commands overtaking a delivery never
   leave one behind.  (Deleting the contest forgets its messages on purpose.) *)
NoUntrackedMessage ==
  contest # "deleted" =>
    Cardinality({m \in MessageIds : Visible(m) /\ ~Tracked(m) /\ ~InHand(m)}) <= unknown

(* One process runs and has learned every outcome. *)
Undisturbed == Cardinality(Workers) = 1 /\ unknown = 0

(* While nothing is unknown to the one process that runs, a part recorded with
   the hash of its text shows that text, unless it was removed by hand. *)
RecordIsShown ==
  Undisturbed =>
    \A i \in Ids, n \in Numbers :
      LET p == parts[i][n]
      IN  p.msg # 0 /\ p.hash = p.text /\ ~InHand(p.msg) => chat[p.msg] \in {p.text, "removed"}

Completes(w) ==
  /\ worker[w].pc = "delivering"
  /\ ClaimState(w) = "current"
  /\ LET row == rows'[worker[w].id]
     IN  row.claim = "none" /\ row.status = Outcome(w)

ShowsContent(i) ==
  \A n \in Numbers :
    LET p == parts[i][n]
    IN  IF n <= Len(content[i]) THEN p.msg # 0 /\ chat[p.msg] \in {content[i][n], "removed"}
        ELSE p.msg = 0 \/ p.status # "active"

(* When a publication is settled as published, its messages show what its data
   say at that moment, however many commands and deliveries of other revisions
   there were. *)
PublishedIsShown ==
  [][\A w \in Workers :
       Completes(w) /\ worker[w].action = "publish" /\ Undisturbed
         => ShowsContent(worker[w].id)]_allVars

(* When a publication is settled as withdrawn, nothing it said still shows, but
   for parts that Telegram would not let go and parts edited after they had
   been retired, both marked so. *)
WithdrawnIsGone ==
  [][\A w \in Workers :
       Completes(w) /\ worker[w].action = "withdraw" /\ Undisturbed =>
         \A n \in Numbers :
           LET p == PartsOf(w)[n]
           IN  p.msg # 0 => \/ p.status = "terminal_failed"
                           \/ (p.status = "retired" /\ p.hash = "stale-edit")
                           \/ chat[p.msg] \notin Texts]_allVars

(* Only the worker that holds the claim of a publication records parts of it. *)
OnlyOwnerRecords ==
  [][\A i \in Ids :
       parts'[i] # parts[i] /\ Exists(rows'[i]) =>
         \E w \in Workers : Delivering(w, i) /\ task'[w] # task[w]]_allVars

(* A settled publication shows what it was settled as, even after an edit of a
   part that had been retired was overtaken. *)
SettledIsShown ==
  [][\A w \in Workers :
       Completes(w) /\ Cardinality(Workers) = 1 =>
         IF worker[w].action = "publish" THEN ShowsContent(worker[w].id)
         ELSE \A n \in Numbers :
                LET p == PartsOf(w)[n]
                IN  p.msg # 0 /\ p.status # "terminal_failed" => chat[p.msg] \notin Texts]_allVars

(* The queue's view of the worker is right: with its calls, answers and undoings
   hidden, the delivery is a worker of PublicationOutbox. *)
ImplementsOutbox == Spec

=============================================================================
