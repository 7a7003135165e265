# A formal model of «Клевер»

«Клевер» is a Telegram bot with a Mini App for prediction contests: participants
of a chat predict scores of matches, a champion and the outcome of a Swiss stage;
organizers enter results; the bot announces predictions, results and standings in
the chat and reminds those who have not predicted yet.  This directory holds TLA+
modules that model the program, TLC configurations that check them on small
instances, and proofs that TLAPS checks for all instances.

## Inventory

One Python process runs everything (docs/architecture.md, "Runtime"): FastAPI
endpoints whose commands are synchronous code over SQLite (`BEGIN IMMEDIATE`), the
polling of Telegram, and five background workers on the same event loop.  Two
things run beside the loop: the snapshot of the Champions League sync is applied in
a thread, and an old process may overlap with a new one during a deployment.

| Component | State | Operations | What is hard | What makes it correct |
| --- | --- | --- | --- | --- |
| Publication outbox (`publication_outbox.py`, `publication_worker.py`, `leaderboard_publications.py`) | table `contest_publications`: desired and settled revision, action, status, reconciliation date, claim, backoff | create, revise, switch on/off, delete match, claim, reconcile, renew, finish | commands between a claim and its finish, leases, retries, ordering rules, crashes | nothing revealed early or never, nothing lost, order kept, queue never stuck |
| Publication delivery (`publication_delivery.py`) | table `contest_publication_messages`, the chat itself, locals of the coroutine | send, edit, delete, neutralize parts; undo what was overtaken | every await may be overtaken; calls of unknown outcome; undoing may fail | the chat shows what the database says; no message is forgotten; withdrawn text is gone |
| Contest commands (`contest_service.py`) | contests, stages, ties, matches, predictions, results | create, predict, record, correct, delete, complete | deadlines against the clock, locks, what each command queues | predictions only before, results only after; aggregate consistent; completion final |
| Match lifecycle (`match_lifecycle.py`) | `matches.status` | start due matches | runs against commands and readers | a started match is never open again |
| Shared tournaments (`shared_tournament_service.py`) | shared matches, ties, schedule, links; local copies in each contest | create, attach, edit, record, archive, restore | fan-out to all copies, versions, archived and completed contests | copies agree with the shared original; no lost update |
| Champions League bracket and sync (`champions_league_bracket.py`, `champions_league_sync.py`, `football_data_provider.py`) | nodes, external links, import state | fetch, claim a tie, materialize, link, record results | network between transactions; crash after creating and before linking; commands in between | each external tie materialized once; recovery completes; results not overwritten |
| Prediction reminders (`prediction_reminder_store.py`, `prediction_reminders.py`, `prediction_reminder_worker.py`) | settings, occurrences, deliveries, parts, recipients, claims | reconcile, batch, claim, preflight, render, send, finish, recover | schedules that change, unknown outcomes, expired claims | a part of unknown outcome is never sent again; a deadline is reminded of at most once; obsolete ones never |
| Match-start publications, the older pipeline (`match_prediction_publications.py`) | sent parts and published matches | list due, send, save | list read once and awaited through; send and save are two steps | never before the start; at most once but for crashes |
| Scoring (`scoring_service.py`) | none (pure) | points, leaderboard | boundaries of rules | equal to the written rules |
| Access, supermoderators, users (`access_control.py`, `supermoderator_service.py`, `telegram_username_resolver.py`, `user_service.py`) | roles | assign, revoke | usernames that move | a role belongs to the account it was given to |
| Chat migration (`chat_migration_service.py`) | chat ids, migrations | migrate | deliveries in flight with the old id | one destination per chat; idempotent |
| Mini App (`tma/app.js`) | forms, timers, versions | autosave, optimistic edits | save in flight when the value changes or the deadline passes | the last value shown as saved is the saved one |
| API, bot, main, audit, configuration, schema, migrations | little or none | validation, wiring | - | not modelled, see below |

The components call each other as functions and share the database; the workers
learn of commands only through their tables.  `PROJECT.json` lists the hazards line
by line; those of parts still to be modelled say so.

## Plan

1. **Done**: `PublicationRow`, `PublicationOutbox` (queue, commands, worker), the
   proofs of its type invariant and main safety properties, `PublicationDelivery`
   (Telegram calls) and its refinement of the queue.
2. **Done**: `ReminderStore` (occurrences, batches, deliveries and the commands that
   disturb them), `ReminderWorker` (claims, parts, unknown outcomes, recovery), the
   abstract specification `AtMostOnceSending`, which it implements, and the proof that no part
   is sent twice.
3. **Done**: `SharedTournament` with the contests as its copies, `TwoLeggedTie` (who goes through), and
   the proofs of everything its run checks.
4. **Done**: `LeagueBracket` and `LeagueSync`, the synchronization with crashes, commands and a second application
   between its short transactions.
5. **Left**: `Contest` (the matches and predictions of independent contests) with
   `MatchStartPublication`; `Scoring` as operators against a reference definition.
6. **Left**: `ChatMigration`, `Supermoderators`, `Autosave` (Mini App), small machines.
7. **Done**: every safety property, action property and refinement that a passing run checks is proved.  The five liveness
   properties stay with TLC.

## Modules

**`PublicationRow`** is one row of `contest_publications` and what each SQL statement
does to it: `Revised`, `SwitchedOff`, `Tombstoned`, `Claimed`, `FinishSuccess`,
`FinishFailure`.  Instants are countdowns, since the code only compares them with the
present.  `messages` summarises `contest_publication_messages` for the row.

**`PublicationOutbox`** is the table of one independent contest, its commands and the
worker.  Its variables: `enabled` (the master switch), `contest`, `matches`, `plan`
(settings, deadline and result of the champion and Swiss predictions), `rows` (by id)
and `worker` (where each worker is in `process_due_contest_publications`).  Each command is one
transaction and one action, with the statements it makes on the table in their order:
`SaveChampionSettings` for instance revises the result's row and then creates or
revises the predictions' row, as `save_champion_prediction_settings` does.  The worker goes
`idle -> claimed -> prepared -> delivering -> idle`; up to its first Telegram call it
does not await, which is what `LoopFree` says: a command runs only when some process
is not in the middle of such a stretch.  With two workers only transactions are atomic.

Correspondences worth knowing:
- A claim token is fresh for each claim; here it is the worker's name.  That is enough
  because a worker has one claim at a time and forgets it when it goes idle.
- Ids come from SQLite's rowid (largest plus one), hence the order by
  `(first_event_id, id)` is the order of ids.
- A deleted match's row that must live on gets a negative entity id: here `"gone"`.
- `Holds` and `Awaits` are the two `NOT EXISTS` of the claim query.

**`PublicationDelivery`** extends the outbox with the parts of publications, the chat and
the coroutine of each worker.  A call takes three steps (the worker asks, Telegram acts
and answers, the worker handles the answer), so commands fall between any two.  Each
`Handle...` action is the synchronous code after one kind of call: `HandleEdit` is what
`_edit_part` does after its await, with `_handle_changed_claim_after_edit`.  Texts are model
values; `content` is what the data of each publication render to now.  Telegram (accepting,
refusing, timing out, acting late) and the administrator who deletes messages by hand
are external.  Code between two awaits is one action even where it reads and then
writes the claim: nothing can run in between in that process; with two processes this
merges an inspection with the update that follows it, which checks the token again itself.

**`ReminderStore`** holds the tables behind the reminders of one contest.  A *target* is a
match or a deadline (Swiss, champion); both kinds have an occurrence row with the instant that was
observed, the instant it is due and its batch, and they are numbered in the order of their ids.  A delivery
is an automatic batch or a manual reminder.  What the SQL does when a delivery ends or is put back is a
`Fate`: its status, its occurrences' status and its parts.  `RecoveryFate`, `ExpiryFate`, `StaleFate`,
`TerminalFate`, `UnknownFate` are the decisions of the five places that settle one, and
`Settled` writes them.  `Reconciled` is `reconcile_prediction_reminder_occurrences` in the
order of its statements: abandoned claims, overdue deliveries, existing occurrences, then
new ones for matches and deadlines.  Rows read before a loop are stale in it
(`First`); rows of deadlines are read afresh.  Instants are numbers on one clock, because
settings, schedules, leases and expiries are compared with each other and not only with the present.

**`ReminderWorker`** is the coroutine `process_due_prediction_reminders`.  It awaits in two places:
`preflight` (the chat is looked up; the claim may run out meanwhile) and `awaiting` (Telegram has a part).
`Prepare`, `StoreParts` and `Mark` renew or check the claim, look whether the delivery may still
go out (`Current`) and settle it otherwise, as the code does.  `sends` is a ghost: it counts how
often Telegram accepted or may have accepted a part, and a refusal that is known takes one off.
Several deliveries that wait are taken in any order, which abstracts the order by `next_attempt_at`.
With one worker, the claim of the code follows the reconciliation without an await;
here commands may fall between, as the synchronization's thread and a second process can.

**`AtMostOnceSending`** says what a caller of the worker may rely on: a part that was asked for is asked for
again only after a refusal.

**`TwoLeggedTie`** is `resolve_two_legged_tie_result` of `scoring_service.py` and the reconciliation of a tie's result with
those of its legs; the next two modules share it.

**`SharedTournament`** is a tournament with the contests linked to it.  Each command of `shared_tournament_service.py` is
one transaction and one action: it changes the shared rows (`tournament`, `questions`, `matches`, `ties`, `final`) and what the
contests keep of them (`contests`, `copies`, `tieCopies`), in the active contests or in all, as each statement says.  Correspondences
worth knowing:
- A version is a number that is only compared for equality, so the model has none.  `page` is one page an administrator has
  open with what it showed; `Outdate` closes it when its row gets a new version, since the code refuses whatever is sent from it
  afterwards.  `ShownTournament` is what a page of the tournament depends on.
- Matches are marked as started by a worker everywhere (`StartDueMatches`) and by reading in one contest (`ShowContest`),
  so the copies of one match may differ in that for a while.
- A question is a prediction about the whole tournament (champion, Swiss stage); a Swiss selection is represented by one team.

**`LeagueBracket`** has the rows the Champions League synchronization writes (a node of the bracket, a tie with its legs, the import of a
fixture, the link of an external tie), an operator for each statement on them, the triggers that fire when a tie is deleted, and
what a reported leg asks of the recorded one (`Verdict`, `TieVerdict`).

**`LeagueSync`** is `apply_football_data_snapshot` as a sequence of transactions, for the worker and for an application
that an administrator asked for: `Fetch`, `Read`, then for each tie `Choose` and `SeeSecond` (the legs are seen), `Configure`
(the node), `Claim` (the link), `FindTie` or `CreateTie`, `BindNode`, `RecordLink`, `ApplyLeg` for each leg, `MarkImported` for
each leg, `TieResult` and `Mirror`; or `Flag` when something contradicts.  Each has a `...Refused` twin: the code raises and
the rest of the snapshot is not applied.  Reads that the next transaction checks by a version are part of it; `fresh` holds the
rows of which an application still has the last version.  Between any two transactions the provider publishes, moves,
postpones, finishes or withdraws a tie, an administrator deletes it, moves or scores a leg or switches the synchronization, the other
application goes on, or this one is cut short (`Fails`).  A claim is a token and an instant; here it is its holder, `"lost"` once
the holder is gone, and `"expired"` fifteen minutes later.

**`MC...`** modules give the constants their small values; **`...Proofs`** hold theorems.

Definitions named `X_Something` next to a definition `X` are variants with a typical mistake,
kept to show that the properties notice it.

## Runs

| Run | Question | Bounds |
| --- | --- | --- |
| `outbox_contest` | hidden until the deadline, silent when off; final announcements last; a claim survives deletions; every row settles and every reveal happens | 1 match, champion, 3 rows, 2 revisions of each, deadlines up to 2 ticks ahead, lease 2, 2 attempts, 1 crash |
| `outbox_queue` | overlapping processes and lost leases; announcements in order; an open Swiss prediction has its reveal scheduled | 2 workers, 1 match, Swiss stage, 1 snapshot, 2 rows, 2 revisions, lease 1, 1 crash |
| `delivery_parts` | chat, records and settlement agree under overtaking commands | 1 match, Swiss stage, 1 row, 3 revisions, 2 parts, 4 messages |
| `delivery_trouble` | crash, timeout, database error: refinement of the outbox, every row settles | 1 match, 2 revisions, 1 unknown outcome, 1 crash |
| `reminder_two_workers` | nothing that Telegram may have accepted is sent again; recorded statuses are honest; refinement of `AtMostOnceSending` | 2 workers, 1 match, 2 deliveries of 1 or 2 parts, instants 0..2, lead 2, lease 1, 2 attempts, 1 command, 1 crash |
| `reminder_targets` | one reminder per occurrence, no stranded batch, nothing obsolete begins | 1 match and 1 deadline, leads 1 and 2, 2 deliveries of 1 part, 2 commands |
| `reminder_liveness` | every delivery and every occurrence ends | 1 match, 2 deliveries, 1 command, 1 crash |
| `shared_tournament` | copies follow the original, nothing is overwritten unseen, closed stays closed, archiving leaves nothing missing | 2 contests, 2 matches, 1 tie, 2 teams, both questions, all three templates, instants 1..3, goals 0 and 2 |
| `league_sync` | bracket, links and imports agree; the deleted stays deleted; results are kept; every report is recorded or flagged | 1 pair at 1 position, 2 ties one after the other, the worker and 1 other application, 2 schedules, 2 scores, instants 0..2, 2 reports, 1 event (request, command or crash) |
| `reminder_manual_coverage` | *violated*: see findings | 1 deadline, 3 commands |
| `delivery_settled` | *violated*: see findings | 1 match, Swiss stage, 1 row, 5 revisions, 1 part, 1 message, every outcome learned |
| `league_tombstone` | *violated*: see findings | 1 pair, 1 application at a time, 2 events |

Why the bounds suffice: a delivery works on one revision of one row, and what can overtake it is a newer
revision, a switch, a deletion or a lost lease.  Two revisions let it be overtaken once; the three of
`delivery_parts` let the undoing or the retry be overtaken again.  The rules of order compare two rows; the three rows of
`outbox_contest` hold the closing announcements, or some and a match.  A lease can expire under a worker, and with 2
ticks be renewed before.  Deadlines two ticks ahead can be moved to one and back.
Guards that exist only to bound the state space are `MaxRevision` (in `Command`), `RoomFor` and the room that
`SaveMasterSwitch` asks for the rows it may add, `MaxCrashes`,
`MaxMessages` (`HasRoom`), `MaxUnknown`, and the one on attempts in `PreparationFails`.

For the reminders, a lead of 2 ticks and a lease of 1 let a claim run out twice while its delivery is still wanted
(with a lead of 1 it would always have expired first), two deliveries are needed to remind
of one occurrence twice, and two parts to have one sent and one not.  Commands are counted by `MaxEdits`: one
may overtake a delivery, two may change something and change it back.  Nothing happens
after `Horizon`, when all instants, expiries and leases have passed.  `MaxInstant`, `MaxDeliveries` (`Unused`) and
`MaxParts` bound the data.

For shared tournaments two matches are the two legs of a tie, or a final and another match; two contests let one be completed, linked late or
deleted while the other is not.  Three instants are before, at and after a deadline or a start, with one left to move it to.  Two goals
make every result of a leg and every way a tie is decided: ahead, level, level with extra time, level with a shootout.  The Swiss stage is asked about only
in tournaments of one contest and no match (`SwissApart`): its settings and the champion's do not read each other.

For the synchronization one pair at one position is what everything it writes is about; what two pairs share is the list
of positions and the order of the loop.  The safety properties are proved for any number of pairs.  For `EveryReportSettles` an instance too
large to run every time was explored once, without a violation: two pairs, two positions and applications, one schedule (`<<1, 2>>`), one
score, `MaxInstant = 1`, two reports and one event (706,420 states).  `Contested` comes from it.  Both instances have a position for
every pair, which the property assumes.  Two ties let a deleted one be created again.  Two reports make a tie known
and change it once; with one event, each kind of disturbance falls between any two transactions, and the second application is itself an
event, so that it runs against the worker's.  `MaxEvents`, `MaxReports`, `MaxInstant` and `TieIds` exist only to bound the state space.

### What the properties say

- `DisabledIsSettled`, `NoEarlyReveal`, `RevealScheduled`: the switch silences at once, even in
  the middle of a delivery; predictions are never shown or queued to be shown before their deadline;
  and an open prediction always has a reveal waiting for exactly its deadline.
- `AnnouncedInOrder`, `FinalOrder`: once something was sent for a row,
  all rows before it had been settled; the end of the contest is announced last.  That the rules that
  keep this order never block everybody is part of `EveryRowSettles`.
- `LoneWorkerKeepsClaim`, `SettledByItsOwner`, `NewerRevisionSurvives`: the claim
  protocol under revisions, deletions, leases and a second process.
- `NoUntrackedMessage`, `RecordIsShown`, `PublishedIsShown`, `WithdrawnIsGone`, `OnlyOwnerRecords`:
  what the chat shows against what the database believes.  `unknown` counts the calls whose
  outcome the program could not learn, and the edits that it should have undone and could not or did not; the properties are
  about everything else.  `RecordIsShown`, `PublishedIsShown` and `WithdrawnIsGone` are about one process (`Undisturbed`): one that lost
  its claim while Telegram carried out its edit must leave the record alone, which no longer tells what is shown.
  `WithdrawnIsGone` allows parts that were edited back after they had been retired (`"retired"` with the hash `"stale-edit"`); see findings.
- `ImplementsOutbox`: `PublicationDelivery` is a refinement of `PublicationOutbox` under the identity mapping.
- `EveryRowSettles`, `EveryRevealHappens`: every queued row is settled in the end, and predictions are revealed after their deadline.
- `NoPartSentTwice`, `SendsAtMostOnce`, `StatusTellsTruth`: what Telegram saw against what the tables say, through
  late answers, lost leases and recovery.
- `OneReminderPerOccurrence`, `BeginsForThePresent`, `BatchedIsLive`: batches against settings and schedules that
  change; a reminder that has begun goes on, a new one begins only for what still holds.
- `EveryDeliveryEnds`, `EveryOccurrenceEnds`: nothing is left in the middle or forgotten.
- `CopiesFollow`: after any command, every linked contest, completed or not, has exactly the tournament's teams, questions, matches, ties
  and results.
- `CompletedStaysDecided`: a contest that was completed goes on to have every match, tie and question decided, whatever is restored, entered,
  corrected or asked later; the guard on restoring is what it depends on.  It allows corrections to reach a completed contest; whether they should
  is a question on which the texts and the code disagree, see "Corrections after completion".
- `TieFollowsLegs`: a tie's recorded result is the one its legs and its extra time make, whichever was entered or corrected last.
- `PageIsCurrent`: what an administrator may still save was entered in sight of the present rows.
- `NoContestStuck`: an archived tournament, in which nothing can be entered any more, lacks nothing its contests need to be completed.
- `AnsweredIsClosed`, `ClosedStaysClosed`: no answer is known while somebody may still guess, and nothing reopens.
- `BoundToOwnTie`: nodes, links and imports name the same tie, of the right pair and position, through crashes and deletions.
- `DeletedStaysDeleted`: a deletion of a tie always reaches the link of its pair, even one that does not name the tie yet, and tombstones it;
  the tombstone is never taken back; no application comes to the point of creating the pair after that, and only one that was there before
  the deletion can still create it.  The README's stronger promise is `DeletedNeverReturns`, see findings.
- `ResultsKept`: the synchronization, however late, changes no result and moves no leg that has begun.
- `EveryReportSettles`: what the provider reports is recorded or flagged in the end, or the synchronization is off, or the application is
  `Stuck`, see below.

### Fairness

`FairSpec` assumes weak fairness of the worker's own steps and of the clock.  The worker is a
`while True` with a sleep; every Telegram call is under `asyncio.wait_for`, so a started delivery ends;
a failed process is restarted.  No fairness is assumed of commands, of crashes, of particular outcomes or of
partial progress (`WorkerTrouble`), so nothing relies on Telegram ever accepting a call:
attempts are counted and given up.  Fairness is on the disjunction of a worker's steps, not on each:
success is not promised.  The reminder worker is fair in the same way and for the same reasons.

In `LeagueSync` the worker fetches again after every cycle, whatever became of the last one (`run_champions_league_sync_worker` logs
exceptions and sleeps); an application goes on until it ends, if only to be refused; and claims run out.  The second of these is
written as `[]<>At(s, "idle") \/ []<><<Proceeds(s)>>_vars`: a step is always possible, so this is weak fairness without `ENABLED`.
Crashes are bounded by `MaxEvents`, so an application cannot be cut short for ever.  Nothing is assumed of administrators or the provider.

### Findings

- `delivery_settled`: a part whose message could not be deleted became a placeholder and is `retired`.  The publication is to be shown again, the part is
  edited back, and a newer revision overtakes the edit: `_mark_part_stale_with_owned_claim` (src/app/publication_delivery.py:1244-1270) marks the
  hash, so that the newer revision edits again, and leaves the part `retired`.  If what comes next is a withdrawal, `_retire_extra_part` skips
  the part (445-446), and the publication is settled as withdrawn while its text is shown.  The test
  `test_stale_publish_edit_is_reconciled_by_new_revision` (src/tests/test_contest_publications.py:2030) tries only a newer revision that publishes.
- `reminder_manual_coverage`: a manual reminder covers a deadline while it is queued and sent; switching reminders off and on
  meanwhile gives the covered occurrence up and makes a new one, so an automatic reminder of the same deadline follows.
  The occurrence of a match stays covered in the same situation.
- `league_tombstone`: the README says that a deleted imported pair never comes back by itself (src/README.md:312-314).  An application is cut
  short after it created a tie and before it recorded the link; the next one claims the link; now an administrator
  deletes the tie, and the triggers tombstone link and imports.  The application goes on to
  `_materialize_entity`, which looks only for a tie at the position, and creates the pair again.  `mark_bracket_node_materialized` then
  refuses the node, which the deletion left in conflict (src/app/champions_league_bracket.py:1845-1849), and the new tie stays in the tournament at
  that position, with no node and no link.

Two ways to a wrong record are counted in `unknown` and are not stated as findings, because no text of the repository speaks of them:
an edit that times out and reaches the chat, after which data corrected back to the recorded text are settled as published without a call
(src/app/publication_delivery.py:115 compares hashes only); and `_compensate_stale_edit` (719-723), which gives up when Telegram refuses the deletion
and the withdrawal was itself overtaken: the message shows the edited text, its part has the hash of the older one.

The synchronization is not always recoverable either.  docs/architecture.md:134-135 says that it "специально состоит из
восстанавливаемых коротких транзакций вокруг внешнего I/O" (deliberately consists of recoverable short transactions around external I/O);
`EveryReportSettles` has to except two states (`Stuck`) from which it does not recover by itself: an application raises at a tie every time, flags
nothing and does not reach the ties after it.  The sentence promises no such thing of a tie that changes in the middle, or of
two applications at once, so no run states it as a disagreement; the two states are excluded from the property and not caught by it.
- `Unbound`: a tie was created and not bound to its node (a crash in between) and the provider or an administrator then moves a leg.  The
  node is given the new dates, the tie has the old ones, and every later application raises "Даты материализованной фикстуры не совпадают".
- `Contested`: two applications with different snapshots gave one position to two pairs, since each chooses from the positions it
  read as used and the claims come transactions later.  One pair's tie or the node of the other is then in the way of both.
  The run `league_sync` has one pair and cannot show this; it comes from an instance of two (see Bounds).

### Corrections after completion

Two texts say that a result corrected in a shared tournament reaches completed contests.  docs/architecture.md:109-110: "Изменение result обязано
пересчитать каждую локальную копию, включая завершённые конкурсы" (a change of a result must recompute every local copy, those of
completed contests included); and `test_shared_champion_settings_and_corrections_reach_completed_contests`
(src/tests/test_shared_tournaments.py:1428-1528) asserts that a corrected champion is written to one.  The statements that copy results do
so: they select every linked contest, completed or not.  But no command gets that far:
- a linked contest is completed only when its tournament is in the archive (src/app/contest_service.py:1254-1268);
- a tournament in the archive takes no result and no settings (`_get_active_tournament_row`, src/app/shared_tournament_service.py:3705-3711);
- and it is not restored while a linked contest is completed (507-522), which
  `test_shared_tournament_api_rejects_restore_after_linked_contest_completion` (src/tests/test_tma_api.py:2099-2152) asserts in its turn.

So a wrong result that is noticed after the first contest was completed can be corrected neither there nor in the contests that are
still active.  The first test makes its completed contest with `UPDATE contests SET is_active = 0` in an active tournament, a state no command leads to and
`Init` and `Next` do not have.  The lemmas `CommandsNeedActive`, `CompletedStep` and `CompletedPreserved` of `SharedTournamentProofs` prove that
the code never changes a completed contest or its copies; that is a fact about its guards which the two texts contradict, and not a property that is
claimed of the program.  What is checked agrees with either reading: `CopiesFollow` asks that
a change of a result reach every linked contest, completed ones included, and `CompletedStaysDecided` that a completed contest never comes to lack a result.
Which of the two was meant is for the authors to say: to allow such corrections, restoring or correcting in the archive would have to be allowed, and
creating a match would have to copy it to completed contests too (src/app/shared_tournament_service.py:2888 takes active ones).

## Proofs

`PublicationRowProofs` has lemmas about single rows; `PublicationOutboxProofs` proves, for any number of workers,
matches, snapshots, rows and any bounds:

| Theorem | States |
| --- | --- |
| `TypeCorrect` | `Spec => []TypeOK` |
| `SwitchSilences` | `Spec => []DisabledIsSettled` |
| `PredictionsStayHidden` | `Spec => []NoEarlyReveal` |
| `RevisionsSurvive` | `Spec => NewerRevisionSurvives` |
| `OwnersSettle` | `Spec => SettledByItsOwner` |
| `RevealsAreScheduled` | `Spec => []RevealScheduled` |
| `HeardInOrder` | `Spec => []AnnouncedInOrder` |
| `EndAnnouncedLast` | `Spec => []FinalOrder` |
| `LoneClaimKept` | `Spec => []LoneWorkerKeepsClaim` |

The assumptions are the named ones on the constants; `ProcessesAssumption` (finitely many workers) is there for `LoneClaimKept`, where one
worker is counted.  None of the invariants is inductive alone.  `IInv` adds:
- `RowOK`: a settled revision is at most the desired one and a row has a type the contest offers.
- `Quiet`: with the switch off, a governed row is settled, without a date.
- `Hidden`: a row of predictions that publishes or shows has its deadline behind it.
- `OwnerOK`: what a worker read at its claim is consistent with the row it still owns: its revision is at
  most the desired one, and if it is about to publish predictions their deadline has passed.  Without it a
  stale delivery could bring back what a command withdrew: this is where the claim protocol enters.

Commands are handled by a relation `Follows` between a row before and after a statement (types kept, revisions
only grow, quiet and hidden preserved): each statement satisfies it, it is transitive, and each command is a
sequence of statements (`CommandEffect`, `CommandIInv`).  Steps of the worker change one row and one worker (`WorkerIInv`).
The two action properties follow from `IInv` step by step.

The last four theorems rest on `OrderInv`, which adds to `IInv`:
- `InOrder`: of two rows the earlier one was settled before the later one was *begun*, that is claimed or sent.  `AnnouncedInOrder` speaks of
  what was sent only; but a claim is taken in the order of the queue and the message goes out later, so the claim must carry the order.
- `Ranked` and `Staged`: after completion a later final announcement does not hold back an earlier one (`Holds`).  The exception never
  touches an earlier row that is unsettled for the first time, because the rows of the champion come in this order: the result's row is created only
  when the predictions' deadline has passed, the closing row only after everything else.
- `Closing`: once the closing announcement has begun, the champion's rows are settled without a date, and stay so, since no command of a completed contest
  revises them.
- `PlanOK` and `Scheduled`: an open prediction has its row, which withdraws and is dated at the deadline; each command that moves the
  deadline moves the date in the same transaction, and the clock moves both.
- `Unrobbed`: whoever holds a claim holds it while it is the only worker: a row that has begun is never dropped by a command, however many matches are deleted.

What a command does to the table as a whole is `Moves` (rows stay where they are, some revised) or `Grows` (one more row after the last);
each command is one of them, or leaves the table alone, or empties it.  The proof of `Scheduled` failed at first for `SaveMasterSwitch` in tables that have
no room for both predictions: the guard that bounds the table then asked for one free row where the command may add two, and the model
lost a reveal the program would have queued.  The guard now asks for as many rows as the command may add.

`PublicationDeliveryProofs` opens up the worker, for any texts and contents, any number of parts, messages and lost answers:

| Theorem | States |
| --- | --- |
| `DeliveryTypes` | `DeliverySpec => []DeliveryTypeOK` |
| `DeliveryRefines` | `DeliverySpec => ImplementsOutbox`, the refinement of `PublicationOutbox` |
| `OnlyOwnersRecord` | `DeliverySpec => OnlyOwnerRecords` |
| `NothingUntracked` | `DeliverySpec => []NoUntrackedMessage` |
| `RecordsAreShown` | `DeliverySpec => []RecordIsShown` |
| `WithdrawalsAreGone` | `DeliverySpec => WithdrawnIsGone` |
| `PublicationsAreShown` | `DeliverySpec => PublishedIsShown` |

With the refinement, everything proved of the queue holds of the worker that awaits Telegram between its database calls.  It is no
renaming: a step of the queue's worker may leave only certain summaries of the parts behind (`Delivered`, `Undone`), and a success is a step
of `DeliverySucceeds` only if the loop over the parts has left every part shown.  `DeliveryInv` adds to `OrderInv`:
- `Mirrored`: a row's `messages` is the summary of its recorded parts, and an id without a row has none (the foreign key's cascade).
- `AsRead`: a row whose claim is held has either the revision and action that were read, with its switch on, or a newer revision, or was
  made a tombstone.  This is the sense in which a command overtakes a delivery *for good* (`Overtaken`): the switch turned off and on
  again leaves a newer revision, so a delivery that begins to undo a call never finds its claim current again.
- `TaskFits`: the locals of the coroutine go with the table across its awaits: the parts from `at` on are as they were read, those passed over
  are shown if they should be.  `CallOK`: a call is about the part in hand, which exists; a part beyond the content is deleted or neutralised only if it
  still says something; an undoing is under way only in an overtaken delivery.
- The types of what the parts, the tasks, the chat and the late calls hold.

Every action of the coroutine is shown to be a *stretch*, one of five effects (`Asks`, `Records`, `Completed`, `GaveUp`, `Lost`), and the invariant
and the refinement are shown once for stretches (`StretchInv`, `StretchNext`).  `StandsBy` is the other half: a coroutine that awaits
while somebody else moves keeps its invariant if the row whose claim it holds was `Carried` on; each command of the queue is shown to do that (`Moved`).

`NothingUntracked` rests on `TrackInv`, an account of messages.  A message is *loose* if it shows, is not recorded, and no worker *minds* it: a worker
minds the message of the call it awaits, until Telegram refuses to take it back.  Loose messages and timed-out sends that may still arrive are together
never more than `unknown` (`Accounted`): a late send that arrives moves from one to the other, everything else that makes a message loose is counted.
It needs `Known` (what a worker read as a part is still recorded, or is gone from the chat: with two workers the other may have deleted it) and
`CallFits` (the call is about the message of the part in hand, and `send` and `resend` are made only when that part has none that shows).  A
coroutine's stretches are shown to keep it once for all (`Turn`, `TurnKeeps`): what it records is the message of its call.  A command drops a row only
before anything was sent for it, or with the whole contest.

What the messages say rests on `ShownInv`, for one process to which nothing is unknown (`Calm`).  A part whose message is in nobody's hand is
`Faithful`: its message was not deleted, and shows the text of its record or was removed by hand, unless the hash marks the
record as stale (`Sound`); no two parts have the same message (`Distinct`); the parts passed over are as the coroutine wants them (`Said`).  The part in hand may be
anything while its call is under way, so `CallShows` says what the chat shows at each answer: what the call was to show if it succeeded, what
was recorded if an edit did not.  An undoing that is refused leaves nothing (`unknown` counts it), unless the message was removed by hand.
Each handler is shown to be one of three turns (`ShowTurn`): it lets go of a faithful part, records one, or makes another call about the same message.
A revision is completed only by `NextPart` with nothing left to do (`CompletesLast`, `CompletesByWorker`), so every part is then `Said`
and faithful (`CompletedShown`).  For a withdrawal that is `WithdrawnIsGone`.

For a publication it says only that the messages show what was rendered when the delivery began.  `FreshInv` adds that this is what the data say now,
as long as the revision is the one the worker read (`Fresh`): a command that changes what a publication is rendered from, while it is allowed and
to be published, also makes a newer revision of its row (`MatchRerenders`, `SwissRerenders`).  That is not so for every table one can write down, only
for those where what is announced has happened (`Happened`): the match of a row `match_result` is finished, so that entering
its result again revises the row; the Swiss result is recorded if it has a row; and settings behind a recorded Swiss
result cannot be reopened.  TLC checked `Happened` and `Fresh` on the instance of `delivery_parts` before they were proved.

`ReminderStoreProofs` has lemmas about the statements of the reminders' tables; `ReminderWorkerProofs` proves, for any
number of workers, targets, deliveries, parts, attempts and crashes and for any leases and backoffs:

| Theorem | States |
| --- | --- |
| `ReminderTypes` | `Spec => []TypeOK` |
| `NeverSentTwice` | `Spec => []NoPartSentTwice` |

`NoPartSentTwice` follows from an invariant of three relations between the tables, the coroutines and what Telegram saw:
- `RowOK`: what Telegram may have has a part recorded as sending, sent or unknown, and was sent once.
- `AskedOK`: the part that a coroutine awaits stays recorded as sending or unknown, even after the
  coroutine lost its claim.  This is where recovery matters: it may turn "sending" to "unknown" but never back to "pending".
- `LocalOK`: while a worker holds the claim, no part is being sent but the one it awaits itself, and nothing was sent of
  a delivery that it renders anew; so its retry puts back its own part only.

With `StoreOK` (a delivery that waits or prepares has no part of unknown fate) and `Apart` (no two workers await the same part)
it is inductive.  What commands, recovery, expiry and reconciliation do to a delivery is `Tame`: each part stays, or goes
from sending to unknown or from pending to skipped, and the claim is lost if anything changes.  Being transitive,
it is shown once for every statement (`SettledTame`, the fates, `ReconciledTame`), and `TameStep` covers all such steps.  The steps of a
worker with its delivery are `HolderStep` (it has the claim) or `AwaitStep` (it handles an answer, perhaps without it).

`ReminderOutcomeProofs` has what else the runs of the reminders check, over the same invariant:

| Theorem | States |
| --- | --- |
| `StatusesAreTrue` | `Spec => []StatusTellsTruth` |
| `RemindedOnce` | `Spec => []OneReminderPerOccurrence` |
| `NoneIsStranded` | `Spec => []BatchedIsLive` |
| `BegunForThePresent` | `Spec => BeginsForThePresent` |
| `SendsImplemented` | `Spec => SendsAtMostOnce`, the refinement of `AtMostOnceSending` |

- `OutcomeInv` adds to the invariant of `NeverSentTwice`: the status of a delivery tells what became of its parts (`Decided`), each
  batched occurrence is an item of a delivery under way (`BatchesLive`), an automatic delivery under way holds all its occurrences as they were (`AutoHolds`), items are
  never ahead of the rows (`ItemsPast`), no two deliveries that are under way or sent something share an item (`OneEach`) or have one that is
  still scheduled (`Fresh`), and a coroutine with a claim is at the delivery's stage (`AtWork`).
- Everything that puts a delivery back or ends it is shown to leave the tables `Sound`, statement by statement, and reconciliation is their composition.
- `StepAsks`: a step is either the marking of one part as being sent, by a worker that has the claim of a delivery that is still wanted, or `Quiet`, which
  asks Telegram for nothing.
- The refinement maps the recorded status of a part to what a caller may rely on (`Shown`): the marking is the abstract `Ask`, everything quiet is `Settle`.

`SharedTournamentProofs` proves everything that the run `shared_tournament` checks, for any contests, matches, ties, teams, templates, goals and
instants:

| Theorem | States |
| --- | --- |
| `SharedTypes` | `Spec => []TypeOK` |
| `CopiesAlwaysFollow` | `Spec => []CopiesFollow` |
| `CompletedAreDecided` | `Spec => []CompletedStaysDecided` |
| `TiesFollowLegs` | `Spec => []TieFollowsLegs` |
| `PagesAreCurrent` | `Spec => []PageIsCurrent` |
| `NoContestIsStuck` | `Spec => []NoContestStuck` |
| `AnswersComeLate` | `Spec => []AnsweredIsClosed` |
| `ClosedAlwaysStays` | `Spec => ClosedStaysClosed` |

Each rests on an invariant of its own on top of the types:
- `CompletedIsArchived`: a contest is completed only in an archived tournament.  No command of an archived tournament writes, and it
  is restored only while no contest is completed; so no command writes to a completed contest (`CompletedStep`), and the commands that copy into active
  contests only do reach all linked ones.
- `Copied`: matches, ties and settings of each linked contest are the tournament's, with `CompletedIsArchived`.  `CopiesFollow` is it, seen
  from one contest.
- `AnswersAreLate`: an answer has its deadline behind it.  A deadline that passed cannot be changed (`DeadlineMayBecome`), so this stays true.
- `RowsSound` and `Settled`: finished matches have a score, and a match that stands alone has a winner; an archived tournament has everything decided.
  With `Copied`, the contests have it too.
- `PagesSound`: a page shows its row, and shows a row that exists; each command either leaves the row or outdates the page.
- `TiesSound`: a tie has exactly two legs in order and a result that fits them.  It relates four rows, and every command touches at most two: there
  is a lemma for each way a result of a leg, a result of a tie or a start may change them.

`LeagueSyncProofs` proves every safety property of the run `league_sync`, for any pairs, positions, ties, applications, schedules, scores
and bounds:

| Theorem | States |
| --- | --- |
| `LeagueTypes` | `Spec => []LeagueTypeOK` |
| `ResultsAreKept` | `Spec => ResultsKept` |
| `TiesAreBound` | `Spec => []BoundToOwnTie` |
| `DeletionsLast` | `Spec => DeletedStaysDeleted` |

- `TypesOK` adds to the types what an application must have to go on from where it is (`Ready`): a pair, a position, from the binding on a tie.
- `KeptInv` adds `AsRead` (a leg whose version an application still has is as the application read it) and `Sound` (a tie without both scores is
  undecided).  Versions carry the argument: whatever changes a leg outdates what the others have of it.  Nearly every step is `Gentle`
  (versions only lost, the application stays where it is read, the legs are kept); finding and creating a tie are the two that are not.
- `BoundInv` adds `AboutTie` (an application knows a tie of its own pair and position), `ClaimHeld` (the holder of a claim has the
  pair, the position and a live tie that nobody linked, or the claim is gone) and the three ways a row may name a tie: `NodeBound`, `LinkBound`,
  `ImportBound`.  The claim is what makes it inductive: a deletion clears it, and a link is written only under it.  Steps are shown by
  the parts that stand (`NodesStand`, `LinksStand`, ...).
- `BuryInv` adds `Remembered` (the link of a live tie's pair has the tie's position, because the claim wrote it down before the tie was created),
  `OneTieEach` and `Announced`.  So the triggers of a deletion find the link even when it does not name the tie, and that is why a deletion in the
  gap between creating and linking is not forgotten.

Only model-checked: the liveness properties `EveryRowSettles`, `EveryRevealHappens`, `EveryDeliveryEnds`, `EveryOccurrenceEnds` and `EveryReportSettles`, which are out of the
prover's reach.

## Not modelled

- Rendering, escaping and splitting of messages: a publication is a sequence of texts.
- The HTTP layer, authentication, audit, configuration, healthchecks, catalogues, migration scripts: no state
  machine, or one statement per operation.
- What the commands of a shared tournament queue in each linked contest: `SharedTournament` has the copies and not the queue; the queue of one contest is
  `PublicationOutbox`.  Also names, series formats as text, and `resolve_shared_match_external_link`, which nothing calls.
- Independent contests as such (participants, names, their own ties), points and the leaderboard, the older match-start publications, the migration of a
  chat, supermoderators and the autosave of the Mini App: the plan's items 5 and 6.
- Of the Champions League: every round but one, and with it the links between nodes, the propagation of winners, the final and the champion it decides; teams
  that cannot be mapped; ties entered by hand; archiving; the bookkeeping of attempts and errors; a pair of which the provider reports
  one leg or swaps the order.  Matches are marked as started at once, and a holder of a claim that goes on ends within the fifteen minutes.
- Who is mentioned in a reminder (recipients, opt-outs) and its text; the replay of a manual request, which changes
  nothing; several contests at once, whose reminders share nothing but the worker.
- The values of claims, errors and times beyond their comparisons; the 100 publications a poll handles at most (the
  next poll goes on).
