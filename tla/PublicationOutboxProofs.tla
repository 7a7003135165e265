----------------------- MODULE PublicationOutboxProofs -----------------------
(***************************************************************************)
(* What holds of PublicationOutbox for every set of workers, matches and   *)
(* snapshots and every value of its bounds.                                *)
(***************************************************************************)
EXTENDS PublicationOutbox, PublicationRowProofs, FiniteSetTheorems, WellFoundedInduction

(* The ids are the integers 1..MaxRows, of which there is at least one. *)
LEMMA IdsFact == Ids \subseteq Nat /\ 1 \in Ids
BY BoundsAssumption DEF Ids

(* The value of an id that holds no row. *)
LEMMA NoRowRow ==
  /\ NoRow \in Row /\ NoRow.type = "none" /\ NoRow.claim = "none" /\ NoRow.messages = "none"
  /\ NoRow.desired = 1 /\ NoRow.settled = 0
BY EntitiesAssumption, Members DEF NoRow, RowOf, Row, Types

-----------------------------------------------------------------------------
(* The inductive invariant *)

(* A row of a deadline-bound prediction exists only in a contest that has it. *)
Offered(type) ==
  /\ type \in {"champion_predictions", "champion_result"} => "champion" \in Kinds
  /\ type = "swiss_predictions" => "swiss" \in Kinds

RowOK(r) == r \in Row /\ r.settled <= r.desired /\ Offered(r.type)

Quiet(r) ==
  Exists(r) /\ r.type # "leaderboard_snapshot" =>
    r.settled = r.desired /\ r.reconcile = Never

Hidden(r, pl) ==
  \A k \in Kinds : r.type = Predictions(k) /\ Revealing(r) => pl[k].deadline = 0

Owns(s, w, rs) ==
  s.pc # "idle" /\ Exists(rs[s.id]) /\ rs[s.id].claim = w

(* A worker that holds its claim read a revision the row has reached, and
   delivers a prediction only after its deadline. *)
OwnerOK(s, r, pl) ==
  /\ s.rev <= r.desired
  /\ s.action = "publish" => \A k \in Kinds : r.type = Predictions(k) => pl[k].deadline = 0

IInv ==
  /\ TypeOK
  /\ \A i \in Ids : RowOK(rows[i])
  /\ ~enabled => \A i \in Ids : Quiet(rows[i])
  /\ \A i \in Ids : Hidden(rows[i], plan)
  /\ \A w \in Workers :
       Owns(worker[w], w, rows) => OwnerOK(worker[w], rows[worker[w].id], plan)

(* The invariants the runs check are conjuncts of it. *)
LEMMA IInvImplies == IInv => TypeOK /\ DisabledIsSettled /\ NoEarlyReveal
BY DEF IInv, DisabledIsSettled, Quiet, NoEarlyReveal, Hidden

(* The empty table of a new contest. *)
LEMMA InitIInv == Init => IInv
<1> SUFFICES ASSUME Init PROVE IInv
  OBVIOUS
<1>1. NoPlan \in Plan
  BY Members DEF NoPlan, Plan
<1>2. Idle \in WorkerState
  BY IdsFact, EntitiesAssumption, Members DEF Idle, WorkerState
<1>3. TypeOK
  BY <1>1, <1>2, NoRowRow DEF Init, TypeOK
<1>4. \A i \in Ids : rows[i] = NoRow
  BY DEF Init
<1>5. RowOK(NoRow) /\ Quiet(NoRow) /\ Hidden(NoRow, plan)
  BY NoRowRow DEF RowOK, Offered, Quiet, Exists, Hidden, Predictions
<1>6. \A w \in Workers : ~Owns(worker[w], w, rows)
  BY DEF Init, Owns, Idle
<1> QED
  BY <1>3, <1>4, <1>5, <1>6 DEF IInv

-----------------------------------------------------------------------------
(* What a command may do to a row, the switch being on or off after it and
   the settings being pl after it *)

Follows(r, q, on, pl) ==
  /\ RowOK(q)
  /\ \/ q.claim = "none"
     \/ q.claim = r.claim /\ q.type = r.type /\ q.desired >= r.desired
  /\ ~on /\ Quiet(r) => Quiet(q)
  /\ Hidden(r, pl) => Hidden(q, pl)

(* Two commands in a row, or two statements of one. *)
LEMMA FollowsTransitive ==
  ASSUME NEW r, NEW q, NEW s, NEW on, NEW pl,
         r \in Row, Follows(r, q, on, pl), Follows(q, s, on, pl)
  PROVE  Follows(r, s, on, pl)
BY DEF Follows, RowOK, Row

(* A statement that misses the row. *)
LEMMA FollowsSame ==
  ASSUME NEW r, NEW on, NEW pl, RowOK(r)
  PROVE  Follows(r, r, on, pl)
BY DEF Follows, RowOK, Row

(* A deadline that has passed stays passed in every command. *)
DeadlinesStay == \A k \in Kinds : plan[k].deadline = 0 => plan'[k].deadline = 0

-----------------------------------------------------------------------------
(* The statements of the commands, over the whole table *)

AllOK(rs) == rs \in [Ids -> Row] /\ \A i \in Ids : RowOK(rs[i])

(* Only turning the switch off and the worker raise a settled revision. *)
AllFollow(rs, qs, on, pl) ==
  /\ AllOK(qs)
  /\ \A i \in Ids : Follows(rs[i], qs[i], on, pl) /\ qs[i].settled <= rs[i].settled

(* Whether a prediction may be published under the settings pl. *)
MayPublish(type, action, pl) ==
  action = "publish" => \A k \in Kinds : type = Predictions(k) => pl[k].deadline = 0

(* Two statements one after the other. *)
LEMMA AllFollowTransitive ==
  ASSUME NEW rs, NEW qs, NEW ss, NEW on, NEW pl,
         AllOK(rs), AllFollow(rs, qs, on, pl), AllFollow(qs, ss, on, pl)
  PROVE  AllFollow(rs, ss, on, pl)
<1> SUFFICES ASSUME NEW i \in Ids
             PROVE  Follows(rs[i], ss[i], on, pl) /\ ss[i].settled <= rs[i].settled
  BY DEF AllFollow
<1>1. rs[i] \in Row /\ qs[i] \in Row /\ ss[i] \in Row
  BY DEF AllFollow, AllOK
<1>2. Follows(rs[i], ss[i], on, pl)
  BY <1>1, FollowsTransitive DEF AllFollow
<1>3. ss[i].settled <= rs[i].settled
  BY <1>1 DEF AllFollow, Row
<1> QED
  BY <1>2, <1>3

(* A statement that touches no row. *)
LEMMA AllFollowSame ==
  ASSUME NEW rs, NEW on, NEW pl, AllOK(rs)
  PROVE  AllFollow(rs, rs, on, pl)
BY FollowsSame DEF AllFollow, AllOK, RowOK, Row

(* An insert, of a row that is unclaimed, hides what must stay hidden and,
   with the switch off, is not subject to it. *)
LEMMA InsertedFollows ==
  ASSUME NEW rs, NEW row, NEW on, NEW pl, AllOK(rs), RowOK(row),
         row.claim = "none", row.settled = 0, on \/ Quiet(row), Hidden(row, pl)
  PROVE  AllFollow(rs, Inserted(rs, row), on, pl)
<1>1. \A i \in Ids : Follows(rs[i], row, on, pl) /\ row.settled <= rs[i].settled
  BY DEF Follows, AllOK, Row
<1>2. \A i \in Ids : Follows(rs[i], rs[i], on, pl) /\ rs[i].settled <= rs[i].settled
  BY FollowsSame DEF AllOK, Row
<1>3. Inserted(rs, row) \in [Ids -> Row]
  BY DEF Inserted, AllOK, RowOK
<1>4. \A i \in Ids : Inserted(rs, row)[i] = row \/ Inserted(rs, row)[i] = rs[i]
  BY DEF Inserted
<1> QED
  BY <1>1, <1>2, <1>3, <1>4 DEF AllFollow, AllOK, Follows

(* create_publication_if_enabled *)
LEMMA CreateFollows ==
  ASSUME NEW rs, NEW on \in BOOLEAN, NEW pl, NEW type \in Types, NEW entity \in Entities,
         NEW action \in Actions, NEW at \in Timer, AllOK(rs),
         Offered(type), MayPublish(type, action, pl)
  PROVE  AllFollow(rs, Create(rs, on, type, entity, action, at), on, pl)
<1> DEFINE row == RowOf(type, entity, action, at)
<1>1. RowOK(row) /\ row.claim = "none" /\ row.settled = 0 /\ Hidden(row, pl)
  BY RowOfRow DEF RowOK, Offered, Hidden, Revealing, MayPublish
<1>2. CASE on /\ ~Has(rs, type, entity)
  BY <1>1, <1>2, InsertedFollows DEF Create
<1>3. CASE ~(on /\ ~Has(rs, type, entity))
  BY <1>3, AllFollowSame DEF Create
<1> QED
  BY <1>2, <1>3

(* revise_existing_publication, of one row *)
LEMMA RevisedFollows ==
  ASSUME NEW r, NEW pl, NEW action \in Actions, NEW at \in Timer, RowOK(r),
         MayPublish(r.type, action, pl)
  PROVE  /\ Follows(r, Revised(r, action, at), TRUE, pl)
         /\ Revised(r, action, at).settled <= r.settled
<1> DEFINE q == Revised(r, action, at)
<1>1. r \in Row /\ r.desired \in Nat /\ r.settled \in Nat /\ r.settled <= r.desired
  BY DEF RowOK, Row
<1>2. /\ q \in Row /\ q.type = r.type /\ q.action = action
      /\ q.desired = r.desired + 1 /\ q.settled = r.settled
      /\ q.claim = r.claim /\ q.messages = r.messages
  BY <1>1, RevisedRow
<1> HIDE DEF q
<1>3. RowOK(q)
  BY <1>1, <1>2 DEF RowOK, Offered
<1>4. Hidden(r, pl) => Hidden(q, pl)
  BY <1>2 DEF Hidden, Revealing, MayPublish
<1>5. Follows(r, q, TRUE, pl) /\ q.settled <= r.settled
  BY <1>1, <1>2, <1>3, <1>4 DEF Follows
<1> QED
  BY <1>5 DEF q

(* revise_existing_publication, over the table *)
LEMMA ReviseFollows ==
  ASSUME NEW rs, NEW on \in BOOLEAN, NEW pl, NEW type, NEW entity,
         NEW action \in Actions, NEW at \in Timer, AllOK(rs),
         MayPublish(type, action, pl)
  PROVE  AllFollow(rs, Revise(rs, on, type, entity, action, at), on, pl)
<1> DEFINE qs == Revise(rs, on, type, entity, action, at)
<1>1. ASSUME NEW i \in Ids
      PROVE  RowOK(qs[i]) /\ Follows(rs[i], qs[i], on, pl) /\ qs[i].settled <= rs[i].settled
  <2>1. RowOK(rs[i])
    BY DEF AllOK
  <2>2. CASE on /\ rs[i].type = type /\ rs[i].entity = entity
    <3>1. qs[i] = Revised(rs[i], action, at)
      BY <2>2 DEF Revise
    <3>2. MayPublish(rs[i].type, action, pl)
      BY <2>2
    <3>3. Follows(rs[i], qs[i], TRUE, pl) /\ qs[i].settled <= rs[i].settled
      BY <2>1, <3>1, <3>2, RevisedFollows
    <3>4. RowOK(qs[i])
      BY <3>3 DEF Follows
    <3> QED
      BY <2>2, <3>3, <3>4 DEF Follows
  <2>3. CASE ~(on /\ rs[i].type = type /\ rs[i].entity = entity)
    <3>1. qs[i] = rs[i]
      BY <2>3 DEF Revise
    <3> QED
      BY <2>1, <3>1, FollowsSame DEF RowOK, Row
  <2> QED
    BY <2>2, <2>3
<1>2. qs = [i \in Ids |-> qs[i]]
  BY DEF Revise
<1>3. qs \in [Ids -> Row]
  BY <1>1, <1>2 DEF RowOK
<1> QED
  BY <1>1, <1>3 DEF AllFollow, AllOK

(* _champion_predictions_desired_state and its twins: what they ask for is
   well typed, and a publication only after the deadline. *)
LEMMA PredictionsStateFact ==
  ASSUME NEW p \in Plan
  PROVE  /\ PredictionsState(p).action \in Actions /\ PredictionsState(p).at \in Timer
         /\ PredictionsState(p).action = "publish" => p.deadline = 0
         /\ ResultState(p).action \in Actions /\ ResultState(p).at \in Timer
<1>1. p.deadline \in Timer
  BY DEF Plan
<1> QED
  BY <1>1, Members DEF PredictionsState, ResultState, Timer, Never

(* Each kind has a type of its own. *)
LEMMA PredictionsType ==
  ASSUME NEW k \in Kinds
  PROVE  /\ Predictions(k) \in Types /\ Offered(Predictions(k))
         /\ \A kk \in Kinds : Predictions(kk) = Predictions(k) => kk = k
         /\ Predictions(k) # "champion_result"
BY KindsAssumption DEF Predictions, Types, Offered

(* A withdrawal that stays one moves its reconciliation date only. *)
LEMMA RedatedFollows ==
  ASSUME NEW r, NEW pl, NEW at \in Timer, RowOK(r)
  PROVE  /\ Follows(r, [r EXCEPT !.reconcile = at], TRUE, pl)
         /\ [r EXCEPT !.reconcile = at].settled <= r.settled
<1> DEFINE q == [r EXCEPT !.reconcile = at]
<1>1. r \in Row /\ r.desired \in Nat /\ r.settled \in Nat /\ r.settled <= r.desired
  BY DEF RowOK, Row
<1>2. /\ q \in Row /\ q.type = r.type /\ q.action = r.action
      /\ q.desired = r.desired /\ q.settled = r.settled
      /\ q.claim = r.claim /\ q.messages = r.messages
  BY <1>1 DEF Row
<1> HIDE DEF q
<1>3. Follows(r, q, TRUE, pl) /\ q.settled <= r.settled
  BY <1>1, <1>2 DEF Follows, RowOK, Offered, Hidden, Revealing
<1> QED
  BY <1>3 DEF q

(* create_or_revise_champion_predictions_publication and its swiss twin *)
LEMMA PredictionsFollow ==
  ASSUME NEW rs, NEW on \in BOOLEAN, NEW pl, NEW k \in Kinds, pl[k] \in Plan, AllOK(rs)
  PROVE  AllFollow(rs, CreateOrRevisePredictions(rs, on, k, pl[k]), on, pl)
<1> DEFINE st == PredictionsState(pl[k])
           type == Predictions(k)
           qs == CreateOrRevisePredictions(rs, on, k, pl[k])
<1>1. st.action \in Actions /\ st.at \in Timer /\ MayPublish(type, st.action, pl)
  BY PredictionsStateFact, PredictionsType DEF MayPublish
<1>2. type \in Types /\ Offered(type) /\ "contest" \in Entities
  BY PredictionsType, EntitiesAssumption
<1>3. CASE ~Has(rs, type, "contest") /\ st.action = "withdraw" /\ st.at = Never
  BY <1>3, AllFollowSame DEF CreateOrRevisePredictions
<1>4. CASE ~Has(rs, type, "contest") /\ ~(st.action = "withdraw" /\ st.at = Never)
  <2>1. qs = Create(rs, on, type, "contest", st.action, st.at)
    BY <1>4 DEF CreateOrRevisePredictions
  <2> HIDE DEF qs, st, type
  <2>2. AllFollow(rs, Create(rs, on, type, "contest", st.action, st.at), on, pl)
    BY <1>1, <1>2, CreateFollows
  <2>3. AllFollow(rs, qs, on, pl)
    BY <2>1, <2>2
  <2> QED
    BY <2>3 DEF qs
<1>5. CASE Has(rs, type, "contest")
  <2>1. qs = [i \in Ids |->
                IF ~on \/ rs[i].type # type \/ rs[i].entity # "contest" THEN rs[i]
                ELSE IF rs[i].action # st.action \/ st.action = "publish"
                THEN Revised(rs[i], st.action, st.at)
                ELSE [rs[i] EXCEPT !.reconcile = st.at]]
    BY <1>5 DEF CreateOrRevisePredictions
  <2> HIDE DEF qs, st
  <2>2. ASSUME NEW i \in Ids
        PROVE  RowOK(qs[i]) /\ Follows(rs[i], qs[i], on, pl) /\ qs[i].settled <= rs[i].settled
    <3>1. RowOK(rs[i])
      BY DEF AllOK
    <3>2. CASE ~on \/ rs[i].type # type \/ rs[i].entity # "contest"
      <4>1. qs[i] = rs[i]
        BY <2>1, <3>2
      <4> QED
        BY <3>1, <4>1, FollowsSame DEF RowOK, Row
    <3>3. CASE /\ on /\ rs[i].type = type /\ rs[i].entity = "contest"
               /\ rs[i].action # st.action \/ st.action = "publish"
      <4>1. qs[i] = Revised(rs[i], st.action, st.at)
        BY <2>1, <3>3
      <4>2. MayPublish(rs[i].type, st.action, pl)
        BY <1>1, <3>3
      <4>3. Follows(rs[i], qs[i], TRUE, pl) /\ qs[i].settled <= rs[i].settled
        BY <1>1, <3>1, <4>1, <4>2, RevisedFollows
      <4> QED
        BY <3>3, <4>3 DEF Follows
    <3>4. CASE /\ on /\ rs[i].type = type /\ rs[i].entity = "contest"
               /\ ~(rs[i].action # st.action \/ st.action = "publish")
      <4>1. qs[i] = [rs[i] EXCEPT !.reconcile = st.at]
        BY <2>1, <3>4
      <4>2. Follows(rs[i], qs[i], TRUE, pl) /\ qs[i].settled <= rs[i].settled
        BY <1>1, <3>1, <4>1, RedatedFollows
      <4> QED
        BY <3>4, <4>2 DEF Follows
    <3> QED
      BY <3>2, <3>3, <3>4
  <2>3. qs = [i \in Ids |-> qs[i]]
    BY <2>1
  <2>4. qs \in [Ids -> Row]
    BY <2>2, <2>3 DEF RowOK
  <2>5. AllFollow(rs, qs, on, pl)
    BY <2>2, <2>4 DEF AllFollow, AllOK
  <2> QED
    BY <2>5 DEF qs
<1> QED
  BY <1>3, <1>4, <1>5

(* The enabling half of transition_contest_publications_for_master_switch *)
LEMMA RescheduledFollows ==
  ASSUME NEW rs, NEW pl, NEW k \in Kinds, pl[k] \in Plan, AllOK(rs)
  PROVE  AllFollow(rs, Rescheduled(rs, k, pl[k]), TRUE, pl)
BY PredictionsFollow, AllFollowSame DEF Rescheduled

(* Its disabling half, for one row *)
LEMMA SwitchedOffFollows ==
  ASSUME NEW r, NEW pl, RowOK(r)
  PROVE  Follows(r, SwitchedOff(r), FALSE, pl) /\ Quiet(SwitchedOff(r))
<1> DEFINE q == SwitchedOff(r)
<1>1. r \in Row /\ r.desired \in Nat
  BY DEF RowOK, Row
<1>2. /\ q \in Row /\ q.type = r.type /\ q.action = r.action
      /\ q.desired = r.desired + 1 /\ q.settled = r.desired + 1
      /\ q.reconcile = Never /\ q.claim = r.claim /\ q.messages = r.messages
  BY <1>1, SwitchedOffRow
<1> HIDE DEF q
<1>3. Follows(r, q, FALSE, pl) /\ Quiet(q)
  BY <1>1, <1>2 DEF Follows, RowOK, Offered, Hidden, Revealing, Quiet
<1> QED
  BY <1>3 DEF q

(* handle_match_publication_deletion, for one row *)
LEMMA MatchDeletedFollows ==
  ASSUME NEW r, NEW pl, RowOK(r), enabled \in BOOLEAN, r.type = "match_result"
  PROVE  Follows(r, MatchDeleted(r), enabled, pl) /\ MatchDeleted(r).settled <= r.settled
<1>1. r \in Row /\ r.desired \in Nat /\ r.settled \in Nat
  BY DEF RowOK, Row
<1>2. CASE r.messages = "none" /\ r.claim = "none"
  <2>1. MatchDeleted(r) = NoRow
    BY <1>2 DEF MatchDeleted
  <2> QED
    BY <1>1, <2>1, NoRowRow DEF Follows, RowOK, Offered, Quiet, Exists, Hidden, Predictions
<1>3. CASE ~(r.messages = "none" /\ r.claim = "none")
  <2> DEFINE q == Tombstoned(r, enabled)
  <2>1. /\ q \in Row /\ q.type = r.type /\ q.settled = r.settled
        /\ q.claim = r.claim /\ q.messages = r.messages
        /\ q.desired >= r.desired
        /\ ~enabled => q.desired = r.desired /\ q.reconcile = r.reconcile
    BY <1>1, TombstonedRow, EntitiesAssumption
  <2>2. MatchDeleted(r) = q
    BY <1>3 DEF MatchDeleted
  <2>3. q.desired \in Nat
    BY <2>1 DEF Row
  <2> HIDE DEF q
  <2>4. RowOK(q)
    BY <1>1, <2>1, <2>3 DEF RowOK, Offered
  <2>5. Hidden(q, pl)
    BY <2>1 DEF Hidden, Predictions
  <2> QED
    BY <1>1, <2>1, <2>2, <2>4, <2>5 DEF Follows, Quiet, Exists
<1> QED
  BY <1>2, <1>3

-----------------------------------------------------------------------------
(* The commands *)

(* What a command, and a tick of the clock, does: the workers are left alone
   and each row follows its predecessor. *)
CommandEffect ==
  /\ worker' = worker
  /\ TypeOK'
  /\ DeadlinesStay
  /\ \A i \in Ids : Follows(rows[i], rows'[i], enabled', plan')
  /\ IF enabled /\ ~enabled'
     THEN \A i \in Ids : Quiet(rows'[i])
     ELSE \A i \in Ids : rows'[i].settled <= rows[i].settled

(* It preserves the invariant. *)
LEMMA CommandIInv ==
  ASSUME IInv, CommandEffect
  PROVE  IInv'
<1>0. /\ worker' = worker /\ TypeOK' /\ DeadlinesStay
      /\ \A i \in Ids : Follows(rows[i], rows'[i], enabled', plan')
      /\ enabled /\ ~enabled' => \A i \in Ids : Quiet(rows'[i])
  BY DEF CommandEffect
<1>1. \A i \in Ids : RowOK(rows'[i])
  BY <1>0 DEF Follows
<1>2. ~enabled' => \A i \in Ids : Quiet(rows'[i])
  BY <1>0 DEF Follows, IInv
<1>3. \A i \in Ids : Hidden(rows[i], plan')
  BY <1>0 DEF IInv, Hidden, DeadlinesStay
<1>4. \A i \in Ids : Hidden(rows'[i], plan')
  BY <1>0, <1>3 DEF Follows
<1>5. ASSUME NEW w \in Workers, Owns(worker[w], w, rows')
      PROVE  OwnerOK(worker[w], rows'[worker[w].id], plan')
  <2> DEFINE i == worker[w].id
  <2>1. i \in Ids /\ worker[w].rev \in Nat
    BY DEF IInv, TypeOK, WorkerState
  <2>2. rows[i].desired \in Nat /\ rows'[i].desired \in Nat
    BY <2>1, <1>1 DEF IInv, RowOK, Row
  <2>3. rows'[i].claim = rows[i].claim /\ rows'[i].type = rows[i].type
        /\ rows'[i].desired >= rows[i].desired
    BY <1>0, <1>5, <2>1, WorkersAssumption DEF Follows, Owns
  <2>4. Owns(worker[w], w, rows)
    BY <1>5, <2>3 DEF Owns, Exists
  <2>5. OwnerOK(worker[w], rows[i], plan)
    BY <2>4 DEF IInv
  <2> QED
    BY <1>0, <2>1, <2>2, <2>3, <2>5 DEF OwnerOK, DeadlinesStay
<1> QED
  BY <1>0, <1>1, <1>2, <1>4, <1>5 DEF IInv

(* A command that does not turn the switch off has that effect when its
   statements follow one another. *)
LEMMA EffectOfStatements ==
  ASSUME IInv, TypeOK', worker' = worker, DeadlinesStay,
         ~(enabled /\ ~enabled'), AllFollow(rows, rows', enabled', plan')
  PROVE  CommandEffect
BY DEF CommandEffect, AllFollow

(* The table of a state of the invariant is a table of rows, and the settings
   of a kind are settings. *)
LEMMA TableOK ==
  ASSUME IInv
  PROVE  /\ AllOK(rows) /\ enabled \in BOOLEAN
         /\ \A k \in Kinds : plan[k] \in Plan
BY DEF IInv, TypeOK, AllOK

(* save_match_prediction_publication_settings *)
LEMMA SwitchEffect == IInv /\ SaveMasterSwitch => CommandEffect
<1> SUFFICES ASSUME IInv, SaveMasterSwitch
             PROVE  CommandEffect
  OBVIOUS
<1>1. /\ enabled' = ~enabled /\ enabled \in BOOLEAN
      /\ contest' = contest /\ matches' = matches /\ plan' = plan /\ worker' = worker
      /\ crashes' = crashes
  BY TableOK DEF SaveMasterSwitch
<1>2. DeadlinesStay
  BY <1>1 DEF DeadlinesStay
<1>3. CASE enabled'
  <2> DEFINE mid == IF "champion" \in Kinds
                    THEN Rescheduled(rows, "champion", plan["champion"]) ELSE rows
             new == IF "swiss" \in Kinds
                    THEN Rescheduled(mid, "swiss", plan["swiss"]) ELSE mid
  <2>1. rows' = new
    BY <1>3 DEF SaveMasterSwitch
  <2>2. AllFollow(rows, mid, TRUE, plan)
    BY TableOK, RescheduledFollows, AllFollowSame
  <2>3. AllOK(mid)
    BY <2>2 DEF AllFollow
  <2> HIDE DEF mid
  <2>4. AllFollow(mid, new, TRUE, plan)
    BY <2>3, TableOK, RescheduledFollows, AllFollowSame
  <2> HIDE DEF new
  <2>5. AllFollow(rows, new, TRUE, plan)
    BY <2>2, <2>4, TableOK, AllFollowTransitive
  <2>6. AllFollow(rows, rows', enabled', plan')
    BY <1>1, <1>3, <2>1, <2>5
  <2>7. TypeOK'
    BY <1>1, <2>6 DEF IInv, TypeOK, AllFollow, AllOK
  <2> QED
    BY <1>1, <1>2, <1>3, <2>6, <2>7, EffectOfStatements
<1>4. CASE ~enabled'
  <2>1. rows' = [i \in Ids |->
                   IF Exists(rows[i]) /\ rows[i].type # "leaderboard_snapshot"
                   THEN SwitchedOff(rows[i]) ELSE rows[i]]
    BY <1>4 DEF SaveMasterSwitch
  <2>2. ASSUME NEW i \in Ids
        PROVE  Follows(rows[i], rows'[i], FALSE, plan) /\ Quiet(rows'[i]) /\ rows'[i] \in Row
    <3>1. RowOK(rows[i])
      BY DEF IInv
    <3>2. CASE Exists(rows[i]) /\ rows[i].type # "leaderboard_snapshot"
      <4>1. rows'[i] = SwitchedOff(rows[i])
        BY <2>1, <3>2
      <4> QED
        BY <3>1, <4>1, SwitchedOffFollows DEF Follows, RowOK
    <3>3. CASE ~(Exists(rows[i]) /\ rows[i].type # "leaderboard_snapshot")
      <4>1. rows'[i] = rows[i]
        BY <2>1, <3>3
      <4>2. Quiet(rows[i])
        BY <3>3 DEF Quiet
      <4> QED
        BY <3>1, <4>1, <4>2, FollowsSame DEF RowOK
    <3> QED
      BY <3>2, <3>3
  <2>3. rows' \in [Ids -> Row]
    <3>1. rows' = [i \in Ids |-> rows'[i]]
      BY <2>1
    <3> QED
      BY <2>2, <3>1
  <2>4. TypeOK'
    BY <1>1, <2>3 DEF IInv, TypeOK
  <2>5. \A i \in Ids : Follows(rows[i], rows'[i], enabled', plan')
    BY <1>1, <1>4, <2>2
  <2> QED
    BY <1>1, <1>2, <1>4, <2>2, <2>4, <2>5 DEF CommandEffect
<1> QED
  BY <1>1, <1>3, <1>4

(* A change of the settings of one kind that respects passed deadlines. *)
LEMMA PlanChange ==
  ASSUME IInv, NEW k \in Kinds, NEW p \in Plan, plan' = [plan EXCEPT ![k] = p],
         plan[k].deadline = 0 => p.deadline = 0
  PROVE  plan' \in [Kinds -> Plan] /\ plan'[k] = p /\ DeadlinesStay
BY DEF IInv, TypeOK, DeadlinesStay

(* save_champion_prediction_settings *)
LEMMA ChampionSettingsEffect ==
  ASSUME IInv, "champion" \in Kinds, NEW on \in BOOLEAN, NEW delay \in 0..MaxDelay,
         SaveChampionSettings(on, delay)
  PROVE  CommandEffect
<1> DEFINE deadline == IF on THEN delay ELSE Never
           p == [plan["champion"] EXCEPT !.on = on, !.deadline = deadline]
           st == ResultState(p)
           mid == Revise(rows, enabled, "champion_result", "contest", st.action, st.at)
<1>1. deadline \in Timer
  BY Members, BoundsAssumption
<1>2. p \in Plan /\ p.deadline = deadline
  <2> HIDE DEF deadline
  <2> QED
    BY <1>1, TableOK DEF Plan
<1>3. /\ DeadlineMayBecome(plan["champion"].deadline, deadline)
      /\ plan' = [plan EXCEPT !["champion"] = p]
      /\ rows' = CreateOrRevisePredictions(mid, enabled, "champion", p)
      /\ enabled' = enabled /\ contest' = contest /\ matches' = matches
      /\ worker' = worker /\ crashes' = crashes
  BY DEF SaveChampionSettings
<1>4. plan["champion"].deadline = 0 => p.deadline = 0
  BY <1>2, <1>3 DEF DeadlineMayBecome, Never
<1> HIDE DEF p
<1>5. plan' \in [Kinds -> Plan] /\ plan'["champion"] = p /\ DeadlinesStay
  BY <1>2, <1>3, <1>4, PlanChange
<1>6. st.action \in Actions /\ st.at \in Timer
  BY <1>2, PredictionsStateFact
<1>7. MayPublish("champion_result", st.action, plan')
  BY PredictionsType DEF MayPublish
<1> HIDE DEF st
<1>8. AllFollow(rows, mid, enabled, plan')
  BY <1>6, <1>7, TableOK, ReviseFollows
<1>9. AllOK(mid)
  BY <1>8 DEF AllFollow
<1> HIDE DEF mid
<1>10. AllFollow(mid, rows', enabled, plan')
  BY <1>2, <1>3, <1>5, <1>9, TableOK, PredictionsFollow
<1>11. AllFollow(rows, rows', enabled', plan')
  BY <1>3, <1>8, <1>10, TableOK, AllFollowTransitive
<1>12. TypeOK'
  BY <1>3, <1>5, <1>11 DEF IInv, TypeOK, AllFollow, AllOK
<1> QED
  BY <1>3, <1>5, <1>11, <1>12, EffectOfStatements

(* save_champion_prediction *)
LEMMA ChampionPredictionEffect ==
  ASSUME IInv, "champion" \in Kinds, SaveChampionPrediction
  PROVE  CommandEffect
<1> DEFINE p == plan["champion"]
           st == ResultState(p)
           mid == Revise(rows, enabled, "champion_result", "contest", st.action, st.at)
<1>1. /\ rows' = CreateOrRevisePredictions(mid, enabled, "champion", p)
      /\ plan' = plan
      /\ enabled' = enabled /\ contest' = contest /\ matches' = matches
      /\ worker' = worker /\ crashes' = crashes
  BY DEF SaveChampionPrediction
<1>2. p \in Plan
  BY TableOK
<1>3. st.action \in Actions /\ st.at \in Timer
  BY <1>2, PredictionsStateFact
<1>4. MayPublish("champion_result", st.action, plan)
  BY PredictionsType DEF MayPublish
<1> HIDE DEF st
<1>5. AllFollow(rows, mid, enabled, plan)
  BY <1>3, <1>4, TableOK, ReviseFollows
<1>6. AllOK(mid)
  BY <1>5 DEF AllFollow
<1> HIDE DEF mid
<1>7. AllFollow(mid, rows', enabled, plan)
  BY <1>1, <1>2, <1>6, TableOK, PredictionsFollow
<1>8. AllFollow(rows, rows', enabled', plan')
  BY <1>1, <1>5, <1>7, TableOK, AllFollowTransitive
<1>9. TypeOK' /\ DeadlinesStay
  BY <1>1, <1>8 DEF IInv, TypeOK, AllFollow, AllOK, DeadlinesStay
<1> QED
  BY <1>1, <1>8, <1>9, EffectOfStatements

(* save_contest_champion *)
LEMMA ContestChampionEffect ==
  ASSUME IInv, "champion" \in Kinds, SaveContestChampion
  PROVE  CommandEffect
<1> DEFINE p == [plan["champion"] EXCEPT !.result = TRUE]
           st == ResultState(p)
           created == Create(rows, enabled, "champion_result", "contest", st.action, st.at)
           revised == Revise(rows, enabled, "champion_result", "contest", st.action, st.at)
<1>1. /\ rows' \in {created, revised}
      /\ plan' = [plan EXCEPT !["champion"] = p]
      /\ enabled' = enabled /\ contest' = contest /\ matches' = matches
      /\ worker' = worker /\ crashes' = crashes
  BY DEF SaveContestChampion
<1>2. p \in Plan /\ p.deadline = plan["champion"].deadline
  BY TableOK DEF Plan
<1> HIDE DEF p
<1>3. plan' \in [Kinds -> Plan] /\ DeadlinesStay
  BY <1>1, <1>2, PlanChange
<1>4. st.action \in Actions /\ st.at \in Timer
  BY <1>2, PredictionsStateFact
<1>5. MayPublish("champion_result", st.action, plan')
  BY PredictionsType DEF MayPublish
<1>6. "champion_result" \in Types /\ Offered("champion_result") /\ "contest" \in Entities
  BY EntitiesAssumption DEF Types, Offered
<1> HIDE DEF st
<1>7. AllFollow(rows, created, enabled, plan') /\ AllFollow(rows, revised, enabled, plan')
  BY <1>4, <1>5, <1>6, TableOK, CreateFollows, ReviseFollows
<1> HIDE DEF created, revised
<1>8. AllFollow(rows, rows', enabled', plan')
  BY <1>1, <1>7
<1>9. TypeOK'
  BY <1>1, <1>3, <1>8 DEF IInv, TypeOK, AllFollow, AllOK
<1> QED
  BY <1>1, <1>3, <1>8, <1>9, EffectOfStatements

(* save_swiss_stage_prediction_settings *)
LEMMA SwissSettingsEffect ==
  ASSUME IInv, "swiss" \in Kinds, NEW on \in BOOLEAN, NEW limits \in BOOLEAN,
         NEW deadline \in {Never} \cup 0..MaxDelay, SaveSwissSettings(on, deadline, limits)
  PROVE  CommandEffect
<1> DEFINE p == [plan["swiss"] EXCEPT !.on = on, !.deadline = deadline]
           revised == CreateOrRevisePredictions(rows, enabled, "swiss", p)
<1>1. deadline \in Timer
  BY Members, BoundsAssumption
<1>2. p \in Plan /\ p.deadline = deadline
  BY <1>1, TableOK DEF Plan
<1>3. /\ DeadlineMayBecome(plan["swiss"].deadline, deadline)
      /\ plan' = [plan EXCEPT !["swiss"] = p]
      /\ rows' = IF enabled THEN revised ELSE rows
      /\ enabled' = enabled /\ contest' = contest /\ matches' = matches
      /\ worker' = worker /\ crashes' = crashes
  BY DEF SaveSwissSettings
<1>4. plan["swiss"].deadline = 0 => p.deadline = 0
  BY <1>2, <1>3 DEF DeadlineMayBecome, Never
<1> HIDE DEF p
<1>5. plan' \in [Kinds -> Plan] /\ plan'["swiss"] = p /\ DeadlinesStay
  BY <1>2, <1>3, <1>4, PlanChange
<1>6. AllFollow(rows, revised, enabled, plan')
  BY <1>2, <1>5, TableOK, PredictionsFollow
<1> HIDE DEF revised
<1>7. AllFollow(rows, rows', enabled', plan')
  BY <1>3, <1>6, TableOK, AllFollowSame
<1>8. TypeOK'
  BY <1>3, <1>5, <1>7 DEF IInv, TypeOK, AllFollow, AllOK
<1> QED
  BY <1>3, <1>5, <1>7, <1>8, EffectOfStatements

(* save_swiss_stage_prediction *)
LEMMA SwissPredictionEffect ==
  ASSUME IInv, "swiss" \in Kinds, SaveSwissPrediction
  PROVE  CommandEffect
<1> DEFINE p == [plan["swiss"] EXCEPT !.locked = TRUE]
<1>1. p \in Plan /\ p.deadline = plan["swiss"].deadline
  BY TableOK DEF Plan
<1>2. /\ plan' = [plan EXCEPT !["swiss"] = p] /\ rows' = rows
      /\ enabled' = enabled /\ contest' = contest /\ matches' = matches
      /\ worker' = worker /\ crashes' = crashes
  BY DEF SaveSwissPrediction
<1> HIDE DEF p
<1>3. plan' \in [Kinds -> Plan] /\ DeadlinesStay
  BY <1>1, <1>2, PlanChange
<1>4. AllFollow(rows, rows', enabled', plan')
  BY <1>2, TableOK, AllFollowSame
<1>5. TypeOK'
  BY <1>2, <1>3, <1>4 DEF IInv, TypeOK, AllFollow, AllOK
<1> QED
  BY <1>2, <1>3, <1>4, <1>5, EffectOfStatements

(* Statements about types that reveal nobody's prediction. *)
LEMMA OtherTypes ==
  /\ {"swiss_result", "match_result", "contest_completed", "leaderboard_snapshot"} \subseteq Types
  /\ "contest" \in Entities /\ Matches \subseteq Entities /\ Snapshots \subseteq Entities
  /\ \A type \in {"swiss_result", "match_result", "contest_completed", "leaderboard_snapshot"} :
       Offered(type) /\ \A k \in Kinds : type # Predictions(k)
BY EntitiesAssumption DEF Types, Offered, Predictions

(* save_swiss_stage_result *)
LEMMA SwissResultEffect ==
  ASSUME IInv, "swiss" \in Kinds, SaveSwissResult
  PROVE  CommandEffect
<1> DEFINE p == [plan["swiss"] EXCEPT !.result = TRUE, !.locked = TRUE]
           created == Create(rows, enabled, "swiss_result", "contest", "publish", Never)
           revised == Revise(rows, enabled, "swiss_result", "contest", "publish", Never)
<1>1. p \in Plan /\ p.deadline = plan["swiss"].deadline
  BY TableOK DEF Plan
<1>2. /\ rows' \in {created, revised}
      /\ plan' = [plan EXCEPT !["swiss"] = p]
      /\ enabled' = enabled /\ contest' = contest /\ matches' = matches
      /\ worker' = worker /\ crashes' = crashes
  BY DEF SaveSwissResult
<1> HIDE DEF p
<1>3. plan' \in [Kinds -> Plan] /\ DeadlinesStay
  BY <1>1, <1>2, PlanChange
<1>4. MayPublish("swiss_result", "publish", plan')
  BY OtherTypes DEF MayPublish
<1>5. AllFollow(rows, created, enabled, plan') /\ AllFollow(rows, revised, enabled, plan')
  BY <1>4, OtherTypes, Members, TableOK, CreateFollows, ReviseFollows
<1> HIDE DEF created, revised
<1>6. AllFollow(rows, rows', enabled', plan')
  BY <1>2, <1>5
<1>7. TypeOK'
  BY <1>2, <1>3, <1>6 DEF IInv, TypeOK, AllFollow, AllOK
<1> QED
  BY <1>2, <1>3, <1>6, <1>7, EffectOfStatements

(* create_match *)
LEMMA CreateMatchEffect ==
  ASSUME IInv, NEW m \in Matches, CreateMatch(m)
  PROVE  CommandEffect
<1>1. /\ matches' = [matches EXCEPT ![m] = "open"]
      /\ enabled' = enabled /\ contest' = contest /\ plan' = plan /\ rows' = rows
      /\ worker' = worker /\ crashes' = crashes
  BY DEF CreateMatch
<1>2. AllFollow(rows, rows', enabled', plan')
  BY <1>1, TableOK, AllFollowSame
<1>3. TypeOK' /\ DeadlinesStay
  BY <1>1 DEF IInv, TypeOK, DeadlinesStay
<1> QED
  BY <1>1, <1>2, <1>3, EffectOfStatements

(* save_match_result *)
LEMMA MatchResultEffect ==
  ASSUME IInv, NEW m \in Matches, SaveMatchResult(m)
  PROVE  CommandEffect
<1> DEFINE created == Create(rows, enabled, "match_result", m, "publish", Never)
           revised == Revise(rows, enabled, "match_result", m, "publish", Never)
<1>1. /\ matches' = [matches EXCEPT ![m] = "finished"]
      /\ rows' \in {created, revised}
      /\ enabled' = enabled /\ contest' = contest /\ plan' = plan
      /\ worker' = worker /\ crashes' = crashes
  BY DEF SaveMatchResult
<1>2. MayPublish("match_result", "publish", plan)
  BY OtherTypes DEF MayPublish
<1>3. AllFollow(rows, created, enabled, plan) /\ AllFollow(rows, revised, enabled, plan)
  BY <1>2, OtherTypes, Members, TableOK, CreateFollows, ReviseFollows
<1> HIDE DEF created, revised
<1>4. AllFollow(rows, rows', enabled', plan')
  BY <1>1, <1>3
<1>5. TypeOK' /\ DeadlinesStay
  BY <1>1, <1>4 DEF IInv, TypeOK, AllFollow, AllOK, DeadlinesStay
<1> QED
  BY <1>1, <1>4, <1>5, EffectOfStatements

(* delete_match *)
LEMMA DeleteMatchEffect ==
  ASSUME IInv, NEW m \in Matches, DeleteMatch(m)
  PROVE  CommandEffect
<1>1. /\ matches' = [matches EXCEPT ![m] = "absent"]
      /\ rows' = [i \in Ids |->
                    IF rows[i].type = "match_result" /\ rows[i].entity = m
                    THEN MatchDeleted(rows[i]) ELSE rows[i]]
      /\ enabled' = enabled /\ contest' = contest /\ plan' = plan
      /\ worker' = worker /\ crashes' = crashes
  BY DEF DeleteMatch
<1>2. ASSUME NEW i \in Ids
      PROVE  Follows(rows[i], rows'[i], enabled, plan) /\ rows'[i].settled <= rows[i].settled
  <2>1. RowOK(rows[i])
    BY DEF IInv
  <2>2. CASE rows[i].type = "match_result" /\ rows[i].entity = m
    BY <1>1, <2>1, <2>2, TableOK, MatchDeletedFollows
  <2>3. CASE ~(rows[i].type = "match_result" /\ rows[i].entity = m)
    BY <1>1, <2>1, <2>3, FollowsSame DEF RowOK, Row
  <2> QED
    BY <2>2, <2>3
<1>3. \A i \in Ids : RowOK(rows'[i])
  BY <1>2 DEF Follows
<1>4. rows' \in [Ids -> Row]
  <2>1. rows' = [i \in Ids |-> rows'[i]]
    BY <1>1
  <2> QED
    BY <1>3, <2>1 DEF RowOK
<1>5. AllFollow(rows, rows', enabled', plan')
  BY <1>1, <1>2, <1>3, <1>4 DEF AllFollow, AllOK
<1>6. TypeOK' /\ DeadlinesStay
  BY <1>1, <1>4 DEF IInv, TypeOK, DeadlinesStay
<1> QED
  BY <1>1, <1>5, <1>6, EffectOfStatements

(* publish_intermediate_leaderboard *)
LEMMA LeaderboardEffect ==
  ASSUME IInv, NEW s \in Snapshots, PublishLeaderboard(s)
  PROVE  CommandEffect
<1> DEFINE row == RowOf("leaderboard_snapshot", s, "publish", Never)
<1>1. /\ rows' = Inserted(rows, row)
      /\ enabled' = enabled /\ contest' = contest /\ plan' = plan /\ matches' = matches
      /\ worker' = worker /\ crashes' = crashes
  BY DEF PublishLeaderboard
<1>2. /\ row \in Row /\ row.type = "leaderboard_snapshot"
      /\ row.desired = 1 /\ row.settled = 0 /\ row.claim = "none"
  BY OtherTypes, Members, RowOfRow
<1> HIDE DEF row
<1>3. RowOK(row) /\ Quiet(row) /\ Hidden(row, plan)
  BY <1>2, OtherTypes DEF RowOK, Quiet, Hidden
<1>4. AllFollow(rows, rows', enabled', plan')
  BY <1>1, <1>2, <1>3, TableOK, InsertedFollows
<1>5. TypeOK' /\ DeadlinesStay
  BY <1>1, <1>4 DEF IInv, TypeOK, AllFollow, AllOK, DeadlinesStay
<1> QED
  BY <1>1, <1>4, <1>5, EffectOfStatements

(* complete_contest *)
LEMMA CompleteEffect ==
  ASSUME IInv, CompleteContest
  PROVE  CommandEffect
<1> DEFINE created == Create(rows, enabled, "contest_completed", "contest", "publish", Never)
<1>1. /\ rows' = created /\ contest' = "completed"
      /\ enabled' = enabled /\ plan' = plan /\ matches' = matches
      /\ worker' = worker /\ crashes' = crashes
  BY DEF CompleteContest
<1>2. MayPublish("contest_completed", "publish", plan)
  BY OtherTypes DEF MayPublish
<1>3. AllFollow(rows, created, enabled, plan)
  BY <1>2, OtherTypes, Members, TableOK, CreateFollows
<1> HIDE DEF created
<1>4. AllFollow(rows, rows', enabled', plan')
  BY <1>1, <1>3
<1>5. TypeOK' /\ DeadlinesStay
  BY <1>1, <1>4 DEF IInv, TypeOK, AllFollow, AllOK, DeadlinesStay
<1> QED
  BY <1>1, <1>4, <1>5, EffectOfStatements

(* delete_contest *)
LEMMA DeleteContestEffect ==
  ASSUME IInv, DeleteContest
  PROVE  CommandEffect
<1>1. /\ rows' = [i \in Ids |-> NoRow] /\ contest' = "deleted"
      /\ enabled' = enabled /\ plan' = plan /\ matches' = matches
      /\ worker' = worker /\ crashes' = crashes
  BY DEF DeleteContest
<1>2. RowOK(NoRow) /\ Quiet(NoRow) /\ Hidden(NoRow, plan)
  BY NoRowRow DEF RowOK, Offered, Quiet, Exists, Hidden, Predictions
<1>3. \A i \in Ids : rows[i].settled \in Nat
  BY TableOK DEF AllOK, Row
<1>4. AllFollow(rows, rows', enabled', plan')
  BY <1>1, <1>2, <1>3, NoRowRow DEF AllFollow, AllOK, Follows
<1>5. TypeOK' /\ DeadlinesStay
  BY <1>1, <1>4 DEF IInv, TypeOK, AllFollow, AllOK, DeadlinesStay
<1> QED
  BY <1>1, <1>4, <1>5, EffectOfStatements

(* The clock *)
LEMMA TickEffect ==
  ASSUME IInv, Tick
  PROVE  CommandEffect
<1>1. /\ plan' = [k \in Kinds |-> [plan[k] EXCEPT !.deadline = Sooner(@)]]
      /\ rows' = [i \in Ids |-> Ticked(rows[i])]
      /\ enabled' = enabled /\ contest' = contest /\ matches' = matches
      /\ worker' = worker /\ crashes' = crashes
  BY DEF Tick
<1>2. plan' \in [Kinds -> Plan] /\ DeadlinesStay
  <2>1. ASSUME NEW k \in Kinds
        PROVE  /\ [plan[k] EXCEPT !.deadline = Sooner(plan[k].deadline)] \in Plan
               /\ plan[k].deadline = 0 => Sooner(plan[k].deadline) = 0
    <3>1. plan[k] \in Plan /\ plan[k].deadline \in Timer
      BY TableOK DEF Plan
    <3> QED
      BY <3>1, SoonerFact DEF Plan
  <2>2. \A k \in Kinds : plan[k] \in Plan
    BY TableOK
  <2> QED
    BY <1>1, <2>1, <2>2 DEF DeadlinesStay, Plan
<1>3. ASSUME NEW i \in Ids
      PROVE  Follows(rows[i], rows'[i], enabled, plan') /\ rows'[i].settled <= rows[i].settled
  <2> DEFINE r == rows[i]
             q == rows'[i]
  <2>1. RowOK(r) /\ r \in Row /\ r.desired \in Nat /\ r.settled \in Nat
    BY DEF IInv, RowOK, Row
  <2>2. q = Ticked(r)
    BY <1>1
  <2>3. /\ q \in Row /\ q.type = r.type /\ q.action = r.action
        /\ q.desired = r.desired /\ q.settled = r.settled
        /\ q.claim = r.claim /\ q.messages = r.messages
        /\ r.reconcile = Never => q.reconcile = Never
    BY <2>1, <2>2, TickedRow
  <2> HIDE DEF q, r
  <2>4. Follows(r, q, enabled, plan') /\ q.settled <= r.settled
    BY <2>1, <2>3 DEF Follows, RowOK, Quiet, Exists, Hidden, Revealing
  <2> QED
    BY <2>4 DEF q, r
<1>4. \A i \in Ids : RowOK(rows'[i])
  BY <1>3 DEF Follows
<1>5. rows' \in [Ids -> Row]
  <2>1. rows' = [i \in Ids |-> rows'[i]]
    BY <1>1
  <2> QED
    BY <1>4, <2>1 DEF RowOK
<1>6. AllFollow(rows, rows', enabled', plan')
  BY <1>1, <1>3, <1>4, <1>5 DEF AllFollow, AllOK
<1>7. TypeOK'
  BY <1>1, <1>2, <1>5 DEF IInv, TypeOK
<1> QED
  BY <1>1, <1>2, <1>6, <1>7, EffectOfStatements

(* Every command and every tick *)
LEMMA CommandsEffect ==
  ASSUME IInv, ChampionNext \/ SwissNext \/ MatchNext \/ ContestNext \/ Tick
  PROVE  CommandEffect
BY SwitchEffect, ChampionSettingsEffect, ChampionPredictionEffect, ContestChampionEffect,
   SwissSettingsEffect, SwissPredictionEffect, SwissResultEffect, CreateMatchEffect,
   MatchResultEffect, DeleteMatchEffect, LeaderboardEffect, CompleteEffect,
   DeleteContestEffect, TickEffect
   DEF ChampionNext, SwissNext, MatchNext, ContestNext

-----------------------------------------------------------------------------
(* The worker *)

(* A row somebody claimed or sent something for *)
Begun(r) == Exists(r) /\ (r.claim # "none" \/ r.messages # "none")

(* What the order of the queue rests on: row i, claimed in its turn, becomes
   q, which leaves a row at rest at rest. *)
Advances(w, i, q, s) ==
  LET r == rows[i]
  IN  /\ q.type = r.type /\ q.entity = r.entity
      /\ q.settled >= r.settled /\ q.desired >= r.desired
      /\ ~ReconcileDue(r) =>
           q.action = r.action /\ q.reconcile = r.reconcile /\ q.desired = r.desired
      /\ Begun(r) \/ InTurn(i)
      /\ s.pc # "idle" => q.claim = w /\ Exists(q)

(* What a step of worker w does: row i becomes q and the worker goes to s. *)
WorkerEffect(w, i, q, s) ==
  /\ enabled' = enabled /\ contest' = contest /\ matches' = matches /\ plan' = plan
  /\ crashes' \in Nat
  /\ rows' = [rows EXCEPT ![i] = q] /\ worker' = [worker EXCEPT ![w] = s]
  /\ s \in WorkerState /\ RowOK(q) /\ q.claim \in {w, "none"}
  /\ Advances(w, i, q, s)
  /\ ~enabled /\ Quiet(rows[i]) => Quiet(q)
  /\ Hidden(q, plan)
  /\ s.pc # "idle" => s.id = i /\ OwnerOK(s, q, plan)
  /\ \/ q.settled <= rows[i].settled
     \/ Delivering(w, i) /\ q.settled = worker[w].rev
  /\ worker[w].pc # "idle" /\ s.pc = "idle" /\ OwnsClaim(w) =>
       worker[w].id = i /\ (rows[i].desired > worker[w].rev /\ Unsettled(rows[i]) => Unsettled(q))

(* A step of worker w that writes no row. *)
WorkerOnly(w, s) ==
  /\ enabled' = enabled /\ contest' = contest /\ matches' = matches /\ plan' = plan
  /\ crashes' \in Nat
  /\ rows' = rows /\ worker' = [worker EXCEPT ![w] = s] /\ s \in WorkerState
  /\ s.pc # "idle" => /\ worker[w].pc # "idle" /\ s.id = worker[w].id
                      /\ s.rev = worker[w].rev /\ s.action = worker[w].action

(* Either preserves the invariant. *)
LEMMA WorkerIInv ==
  ASSUME IInv, NEW w \in Workers, NEW i \in Ids, NEW q, NEW s, WorkerEffect(w, i, q, s)
  PROVE  IInv'
<1>1. \A j \in Ids : rows'[j] = IF j = i THEN q ELSE rows[j]
  BY DEF IInv, TypeOK, WorkerEffect
<1>2. \A v \in Workers : worker'[v] = IF v = w THEN s ELSE worker[v]
  BY DEF IInv, TypeOK, WorkerEffect
<1>3. TypeOK'
  BY DEF IInv, TypeOK, WorkerEffect, RowOK
<1>4. \A j \in Ids : RowOK(rows'[j])
  BY <1>1 DEF IInv, WorkerEffect
<1>5. ~enabled' => \A j \in Ids : Quiet(rows'[j])
  BY <1>1 DEF IInv, WorkerEffect
<1>6. \A j \in Ids : Hidden(rows'[j], plan')
  BY <1>1 DEF IInv, WorkerEffect
<1>7. ASSUME NEW v \in Workers, Owns(worker'[v], v, rows')
      PROVE  OwnerOK(worker'[v], rows'[worker'[v].id], plan')
  <2>1. CASE v = w
    BY <1>1, <1>2, <1>7, <2>1 DEF WorkerEffect, Owns
  <2>2. CASE v # w
    <3>1. worker'[v] = worker[v] /\ worker[v].id \in Ids
      BY <1>2, <2>2 DEF IInv, TypeOK, WorkerState
    <3>2. worker[v].id # i
      BY <1>1, <1>7, <2>2, <3>1, WorkersAssumption DEF WorkerEffect, Owns
    <3>3. rows'[worker[v].id] = rows[worker[v].id]
      BY <1>1, <3>1, <3>2
    <3>4. Owns(worker[v], v, rows)
      BY <1>7, <3>1, <3>3 DEF Owns
    <3> QED
      BY <3>1, <3>3, <3>4 DEF IInv, WorkerEffect
  <2> QED
    BY <2>1, <2>2
<1> QED
  BY <1>3, <1>4, <1>5, <1>6, <1>7 DEF IInv

(* The same for a step that writes no row. *)
LEMMA WorkerOnlyIInv ==
  ASSUME IInv, NEW w \in Workers, NEW s, WorkerOnly(w, s)
  PROVE  IInv'
<1>1. \A v \in Workers : worker'[v] = IF v = w THEN s ELSE worker[v]
  BY DEF IInv, TypeOK, WorkerOnly
<1>2. TypeOK'
  BY DEF IInv, TypeOK, WorkerOnly
<1>3. ASSUME NEW v \in Workers, Owns(worker'[v], v, rows')
      PROVE  OwnerOK(worker'[v], rows'[worker'[v].id], plan')
  <2>1. /\ worker[v].pc # "idle" /\ worker'[v].id = worker[v].id
        /\ worker'[v].rev = worker[v].rev /\ worker'[v].action = worker[v].action
    BY <1>1, <1>3 DEF WorkerOnly, Owns
  <2>2. Owns(worker[v], v, rows)
    BY <1>3, <2>1 DEF Owns, WorkerOnly
  <2>3. OwnerOK(worker[v], rows[worker[v].id], plan)
    BY <2>2 DEF IInv
  <2> QED
    BY <2>1, <2>3 DEF OwnerOK, WorkerOnly
<1> QED
  BY <1>2, <1>3 DEF IInv, WorkerOnly

(* Where the idle worker is *)
LEMMA IdleFact == Idle \in WorkerState /\ Idle.pc = "idle"
BY IdsFact, EntitiesAssumption, Members DEF Idle, WorkerState

(* A worker that owns its row read a revision of it, of a known action. *)
LEMMA OwnerFact ==
  ASSUME IInv, NEW w \in Workers, worker[w].pc # "idle", OwnsClaim(w)
  PROVE  LET i == worker[w].id
         IN  /\ i \in Ids /\ worker[w].rev \in Nat /\ worker[w].action \in Actions
             /\ rows[i] \in Row /\ RowOK(rows[i]) /\ Exists(rows[i])
             /\ rows[i].claim = w /\ Delivering(w, i)
             /\ rows[i].desired \in Nat /\ rows[i].settled \in Nat
             /\ OwnerOK(worker[w], rows[i], plan) /\ Hidden(rows[i], plan)
             /\ ~enabled => Quiet(rows[i])
<1> DEFINE i == worker[w].id
<1>1. i \in Ids /\ worker[w].rev \in Nat /\ worker[w].action \in Actions
  BY DEF IInv, TypeOK, WorkerState
<1>2. RowOK(rows[i]) /\ rows[i] \in Row /\ rows[i].desired \in Nat /\ rows[i].settled \in Nat
  BY <1>1 DEF IInv, RowOK, Row
<1>3. Exists(rows[i]) /\ rows[i].claim = w /\ Delivering(w, i) /\ Owns(worker[w], w, rows)
  BY DEF OwnsClaim, Delivering, Owns
<1> QED
  BY <1>1, <1>2, <1>3 DEF IInv

(* What ends a delivery: the row finished, with messages that show only what
   showed before or what a publication sent. *)
Ended(w, q) ==
  LET r == rows[worker[w].id]
  IN  /\ q \in Row /\ q.type = r.type /\ q.entity = r.entity
      /\ q.action = r.action /\ q.desired = r.desired
      /\ q.reconcile = r.reconcile /\ q.claim = "none"
      /\ q.settled \in {r.settled, worker[w].rev} /\ q.settled >= r.settled
      /\ q.messages = "shown" => r.messages = "shown" \/ worker[w].action = "publish"

(* A finish, with the messages the delivery left. *)
LEMMA FinishedEnds ==
  ASSUME NEW w, NEW q, NEW m \in Messages, Finished(rows[worker[w].id], q, worker[w].rev),
         m = "shown" => rows[worker[w].id].messages = "shown" \/ worker[w].action = "publish"
  PROVE  Ended(w, [q EXCEPT !.messages = m]) /\ Ended(w, q)
BY DEF Finished, Ended, Row

(* Every way a delivery ends has the effect of a worker's step. *)
LEMMA EndEffect ==
  ASSUME IInv, NEW w \in Workers, worker[w].pc # "idle", OwnsClaim(w), NEW q, Ended(w, q),
         Settle(w, q), UNCHANGED <<enabled, contest, matches, plan, crashes>>
  PROVE  WorkerEffect(w, worker[w].id, q, Idle)
<1> DEFINE i == worker[w].id
           r == rows[i]
<1>1. /\ i \in Ids /\ worker[w].rev \in Nat /\ RowOK(r)
      /\ r.claim = w /\ Delivering(w, i)
      /\ r.desired \in Nat /\ r.settled \in Nat
      /\ OwnerOK(worker[w], r, plan) /\ Hidden(r, plan)
  BY OwnerFact
<1>2. crashes' \in Nat
  BY DEF IInv, TypeOK
<1>3. /\ q \in Row /\ q.type = r.type /\ q.entity = r.entity
      /\ q.action = r.action /\ q.desired = r.desired
      /\ q.reconcile = r.reconcile /\ q.claim = "none"
      /\ q.settled \in {r.settled, worker[w].rev} /\ q.settled >= r.settled
      /\ q.messages = "shown" => r.messages = "shown" \/ worker[w].action = "publish"
  BY DEF Ended
<1>4. rows' = [rows EXCEPT ![i] = q] /\ worker' = [worker EXCEPT ![w] = Idle]
  BY DEF Settle
<1>5. worker[w].rev <= r.desired
  BY <1>1 DEF OwnerOK
<1> HIDE DEF r
<1>6. RowOK(q) /\ (Quiet(r) => Quiet(q))
  BY <1>1, <1>3, <1>5 DEF RowOK, Quiet, Exists
<1>7. Hidden(q, plan)
  BY <1>1, <1>3 DEF Hidden, Revealing, OwnerOK
<1>8. r.desired > worker[w].rev /\ Unsettled(r) => Unsettled(q)
  BY <1>1, <1>3 DEF Unsettled
<1>9. q.settled <= r.settled \/ q.settled = worker[w].rev
  BY <1>1, <1>3
<1>10. Advances(w, i, q, Idle)
  BY <1>1, <1>3, IdleFact, OwnerFact, WorkersAssumption DEF Advances, Begun, r
<1> QED
  BY <1>1, <1>2, <1>3, <1>4, <1>6, <1>7, <1>8, <1>9, <1>10, IdleFact DEF WorkerEffect, r

(* The row after a success or a failure of the delivery *)
LEMMA OutcomeRow ==
  ASSUME IInv, NEW w \in Workers, worker[w].pc # "idle", OwnsClaim(w),
         NEW permanent \in BOOLEAN, NEW wait \in 0..MaxBackoff
  PROVE  LET r == rows[worker[w].id]
         IN  /\ Finished(r, Succeeded(w), worker[w].rev)
             /\ Finished(r, Failed(w, permanent, wait), worker[w].rev)
<1>1. rows[worker[w].id] \in Row /\ worker[w].rev \in Nat
  BY OwnerFact
<1>2. Outcome(w) \in Statuses
  BY Members DEF Outcome
<1>3. wait \in Nat
  BY BoundsAssumption
<1> QED
  BY <1>1, <1>2, <1>3, FinishSuccessRow, FinishFailureRow DEF Succeeded, Failed

(* A finish that leaves the messages alone ends a delivery. *)
LEMMA PlainEnd ==
  ASSUME NEW w, NEW q, Finished(rows[worker[w].id], q, worker[w].rev)
  PROVE  Ended(w, q)
BY DEF Finished, Ended

(* Every way of ending, with or without a call to Telegram *)
EndsDelivery(w) ==
  \/ NothingToSend(w) \/ PreparationFails(w) \/ RenderingFails(w)
  \/ DeliverySucceeds(w) \/ DeliveryFails(w) \/ DeliveryStale(w) \/ SavingFails(w)

(* What a worker that finds its claim current or stale owns. *)
LEMMA StateOwns ==
  ASSUME NEW w, ClaimState(w) \in {"current", "stale"}
  PROVE  OwnsClaim(w)
BY DEF ClaimState

(* What may be left of the messages. *)
LEMMA DeliveredFact ==
  ASSUME NEW action \in Actions, NEW messages \in Messages,
         NEW m \in Delivered(action, messages) \cup Undone(action, messages)
  PROVE  m \in Messages /\ (m = "shown" => messages = "shown" \/ action = "publish")
BY DEF Delivered, Undone, Actions, Messages

(* Every end of a delivery settles the row as Ended says. *)
LEMMA EndsEffect ==
  ASSUME IInv, NEW w \in Workers, EndsDelivery(w)
  PROVE  \E q : WorkerEffect(w, worker[w].id, q, Idle)
<1>1. /\ worker[w].pc # "idle" /\ OwnsClaim(w)
      /\ UNCHANGED <<enabled, contest, matches, plan, crashes>>
  <2>1. CASE NothingToSend(w)
    BY <2>1, StateOwns DEF NothingToSend
  <2>2. CASE PreparationFails(w)
    BY <2>2, StateOwns DEF PreparationFails
  <2>3. CASE RenderingFails(w)
    BY <2>3, StateOwns DEF RenderingFails
  <2>4. CASE DeliverySucceeds(w)
    BY <2>4, StateOwns DEF DeliverySucceeds
  <2>5. CASE DeliveryFails(w)
    BY <2>5, StateOwns DEF DeliveryFails
  <2>6. CASE DeliveryStale(w)
    BY <2>6, StateOwns DEF DeliveryStale
  <2>7. CASE SavingFails(w)
    BY <2>7, StateOwns DEF SavingFails
  <2> QED
    BY <2>1, <2>2, <2>3, <2>4, <2>5, <2>6, <2>7 DEF EndsDelivery
<1>2. worker[w].action \in Actions /\ rows[worker[w].id].messages \in Messages
  BY <1>1, OwnerFact DEF Row
<1>3. 0 \in 0..MaxBackoff
  BY BoundsAssumption
<1>4. ASSUME NEW permanent \in BOOLEAN, NEW wait \in 0..MaxBackoff
      PROVE  Ended(w, Succeeded(w)) /\ Ended(w, Failed(w, permanent, wait))
  BY <1>1, OutcomeRow, PlainEnd
<1>5. ASSUME NEW m \in Delivered(worker[w].action, rows[worker[w].id].messages)
                       \cup Undone(worker[w].action, rows[worker[w].id].messages)
      PROVE  Ended(w, [Succeeded(w) EXCEPT !.messages = m])
  <2>1. m \in Messages
        /\ (m = "shown" => rows[worker[w].id].messages = "shown" \/ worker[w].action = "publish")
    BY <1>2, DeliveredFact
  <2>2. Finished(rows[worker[w].id], Succeeded(w), worker[w].rev)
    BY <1>1, <1>3, OutcomeRow
  <2> QED
    BY <2>1, <2>2, FinishedEnds
<1>6. \E q : Ended(w, q) /\ Settle(w, q)
  <2>1. CASE NothingToSend(w)
    BY <1>3, <1>4, <2>1 DEF NothingToSend
  <2>2. CASE PreparationFails(w)
    BY <1>4, <2>2 DEF PreparationFails
  <2>3. CASE RenderingFails(w)
    BY <1>4, <2>3 DEF RenderingFails
  <2>4. CASE DeliverySucceeds(w)
    BY <1>5, <2>4 DEF DeliverySucceeds
  <2>5. CASE DeliveryFails(w)
    BY <1>4, <2>5 DEF DeliveryFails
  <2>6. CASE DeliveryStale(w)
    BY <1>5, <2>6 DEF DeliveryStale
  <2>7. CASE SavingFails(w)
    BY <1>4, <2>7 DEF SavingFails
  <2> QED
    BY <2>1, <2>2, <2>3, <2>4, <2>5, <2>6, <2>7 DEF EndsDelivery
<1> QED
  BY <1>1, <1>6, EndEffect

(* claim_next_publication *)
LEMMA ClaimEffect ==
  ASSUME IInv, NEW w \in Workers, Claim(w)
  PROVE  \E i \in Ids : \E q, s : WorkerEffect(w, i, q, s)
<1>1. PICK i \in Ids : /\ worker[w].pc = "idle"
                       /\ rows' = [rows EXCEPT ![i] = Claimed(rows[i], w)]
                       /\ worker' = [worker EXCEPT ![w] = Snapshot(i, "claimed")]
                       /\ Exists(rows[i]) /\ InTurn(i)
  BY DEF Claim, Eligible
<1> DEFINE r == rows[i]
           q == Claimed(r, w)
           s == Snapshot(i, "claimed")
<1>2. r \in Row /\ RowOK(r) /\ Hidden(r, plan) /\ (~enabled => Quiet(r))
  BY DEF IInv, RowOK
<1>3. /\ q \in Row /\ q.type = r.type /\ q.entity = r.entity
      /\ q.action = r.action /\ q.desired = r.desired /\ q.settled = r.settled
      /\ q.reconcile = r.reconcile /\ q.claim = w /\ q.messages = r.messages
  BY <1>2, ClaimKeepsRow
<1>4. rows'[i] = q
  BY <1>1 DEF IInv, TypeOK
<1>5. /\ s.pc = "claimed" /\ s.id = i /\ s.rev = q.desired /\ s.action = q.action
      /\ s \in WorkerState
  BY <1>3, <1>4 DEF Snapshot, WorkerState, Row
<1>6. /\ enabled' = enabled /\ contest' = contest /\ matches' = matches /\ plan' = plan
      /\ crashes' \in Nat /\ rows' = [rows EXCEPT ![i] = q] /\ worker' = [worker EXCEPT ![w] = s]
  BY <1>1 DEF Claim, IInv, TypeOK
<1> HIDE DEF q, s
<1>7. RowOK(q) /\ Hidden(q, plan) /\ (Quiet(r) => Quiet(q))
  BY <1>2, <1>3 DEF RowOK, Hidden, Revealing, Quiet, Exists
<1>8. OwnerOK(s, q, plan)
  BY <1>5, <1>7 DEF OwnerOK, Hidden, Revealing, RowOK, Row
<1>9. q.settled <= r.settled
  BY <1>2, <1>3 DEF Row
<1>10. Advances(w, i, q, s)
  BY <1>1, <1>2, <1>3, <1>5 DEF Advances, Exists, Row
<1>11. WorkerEffect(w, i, q, s)
  BY <1>1, <1>3, <1>5, <1>6, <1>7, <1>8, <1>9, <1>10 DEF WorkerEffect
<1> QED
  BY <1>11

(* The state a type asks for: a prediction is published after its deadline. *)
LEMMA DesiredStateFact ==
  ASSUME IInv, NEW r \in Row, RowOK(r)
  PROVE  /\ DesiredState(r).action \in Actions /\ DesiredState(r).at \in Timer
         /\ DesiredState(r).action # r.action => MayPublish(r.type, DesiredState(r).action, plan)
<1> DEFINE st == DesiredState(r)
<1>1. CASE r.type = "champion_predictions"
  <2>1. "champion" \in Kinds /\ plan["champion"] \in Plan
    BY <1>1, TableOK DEF RowOK, Offered
  <2>2. st = PredictionsState(plan["champion"])
    BY <1>1 DEF DesiredState
  <2>3. \A k \in Kinds : r.type = Predictions(k) => k = "champion"
    BY <1>1 DEF Predictions
  <2> HIDE DEF st
  <2>4. st.action \in Actions /\ st.at \in Timer /\ MayPublish(r.type, st.action, plan)
    BY <2>1, <2>2, <2>3, PredictionsStateFact DEF MayPublish
  <2> QED
    BY <2>4 DEF st
<1>2. CASE r.type = "swiss_predictions"
  <2>1. "swiss" \in Kinds /\ plan["swiss"] \in Plan
    BY <1>2, TableOK DEF RowOK, Offered
  <2>2. st = PredictionsState(plan["swiss"])
    BY <1>2 DEF DesiredState
  <2>3. \A k \in Kinds : r.type = Predictions(k) => k = "swiss"
    BY <1>2, KindsAssumption DEF Predictions
  <2> HIDE DEF st
  <2>4. st.action \in Actions /\ st.at \in Timer /\ MayPublish(r.type, st.action, plan)
    BY <2>1, <2>2, <2>3, PredictionsStateFact DEF MayPublish
  <2> QED
    BY <2>4 DEF st
<1>3. CASE r.type = "champion_result"
  <2>1. "champion" \in Kinds /\ plan["champion"] \in Plan
    BY <1>3, TableOK DEF RowOK, Offered
  <2>2. st = ResultState(plan["champion"])
    BY <1>3 DEF DesiredState
  <2>3. \A k \in Kinds : r.type # Predictions(k)
    BY <1>3 DEF Predictions
  <2> HIDE DEF st
  <2>4. st.action \in Actions /\ st.at \in Timer /\ MayPublish(r.type, st.action, plan)
    BY <2>1, <2>2, <2>3, PredictionsStateFact DEF MayPublish
  <2> QED
    BY <2>4 DEF st
<1>4. CASE r.type \notin {"champion_predictions", "swiss_predictions", "champion_result"}
  <2>1. st = [action |-> r.action, at |-> Never]
    BY <1>4 DEF DesiredState
  <2> QED
    BY <2>1, Members DEF Row
<1> QED
  BY <1>1, <1>2, <1>3, <1>4

(* A reconciliation whose instant has come *)
LEMMA ReconciledRow ==
  ASSUME IInv, NEW r \in Row, RowOK(r), Hidden(r, plan)
  PROVE  LET q == Reconciled(r)
         IN  /\ RowOK(q) /\ q \in Row /\ q.type = r.type /\ q.settled = r.settled
             /\ q.claim = r.claim /\ Hidden(q, plan)
             /\ q.entity = r.entity /\ q.desired >= r.desired /\ q.messages = r.messages
<1> DEFINE st == DesiredState(r)
           q == Reconciled(r)
<1>1. /\ st.action \in Actions /\ st.at \in Timer
      /\ st.action # r.action => MayPublish(r.type, st.action, plan)
  BY DesiredStateFact
<1>2. r.desired \in Nat /\ r.settled \in Nat
  BY DEF Row
<1>3. CASE st.action # r.action
  <2>1. q = Revised(r, st.action, st.at)
    BY <1>3 DEF Reconciled
  <2> HIDE DEF st, q
  <2>2. Follows(r, q, TRUE, plan)
    BY <1>1, <1>3, <2>1, RevisedFollows
  <2>3. /\ q \in Row /\ q.type = r.type /\ q.settled = r.settled /\ q.claim = r.claim
        /\ q.entity = r.entity /\ q.desired >= r.desired /\ q.messages = r.messages
    BY <1>1, <1>2, <2>1, RevisedRow
  <2>4. RowOK(q) /\ Hidden(q, plan)
    BY <2>2 DEF Follows
  <2> QED
    BY <2>3, <2>4 DEF q
<1>4. CASE st.action = r.action
  <2>1. q = [r EXCEPT !.reconcile = st.at]
    BY <1>4 DEF Reconciled
  <2> HIDE DEF st, q
  <2>2. Follows(r, q, TRUE, plan)
    BY <1>1, <2>1, RedatedFollows
  <2>3. /\ q \in Row /\ q.type = r.type /\ q.settled = r.settled /\ q.claim = r.claim
        /\ q.entity = r.entity /\ q.desired >= r.desired /\ q.messages = r.messages
    BY <1>1, <1>2, <2>1 DEF Row
  <2>4. RowOK(q) /\ Hidden(q, plan)
    BY <2>2 DEF Follows
  <2> QED
    BY <2>3, <2>4 DEF q
<1> QED
  BY <1>3, <1>4

(* prepare_scheduled_reconciliation *)
LEMMA PrepareEffect ==
  ASSUME IInv, NEW w \in Workers, Prepare(w)
  PROVE  (\E i \in Ids : \E q, s : WorkerEffect(w, i, q, s)) \/ (\E s : WorkerOnly(w, s))
<1> DEFINE i == worker[w].id
           r == rows[i]
<1>1. /\ worker[w].pc = "claimed" /\ worker[w] \in WorkerState
      /\ enabled' = enabled /\ contest' = contest /\ matches' = matches /\ plan' = plan
      /\ crashes' \in Nat
  BY DEF Prepare, IInv, TypeOK
<1>2. CASE rows' = rows /\ worker' = [worker EXCEPT ![w] = Idle]
  <2>1. WorkerOnly(w, Idle)
    BY <1>1, <1>2, IdleFact DEF WorkerOnly
  <2> QED
    BY <2>1
<1>3. CASE rows' = rows /\ worker' = [worker EXCEPT ![w].pc = "prepared"]
  <2> DEFINE s == [worker[w] EXCEPT !.pc = "prepared"]
  <2>1. worker' = [worker EXCEPT ![w] = s]
    BY <1>3 DEF IInv, TypeOK
  <2>2. /\ s \in WorkerState /\ s.id = worker[w].id /\ s.rev = worker[w].rev
        /\ s.action = worker[w].action
    BY <1>1 DEF WorkerState
  <2>3. WorkerOnly(w, s)
    BY <1>1, <1>3, <2>1, <2>2 DEF WorkerOnly
  <2> QED
    BY <2>3
<1>4. CASE /\ OwnsClaim(w) /\ ReconcileDue(r)
           /\ rows' = [rows EXCEPT ![i] = Reconciled(r)]
           /\ worker' = [worker EXCEPT ![w] = Snapshot(i, "prepared")]
  <2> DEFINE q == Reconciled(r)
             s == Snapshot(i, "prepared")
  <2>1. /\ i \in Ids /\ r \in Row /\ RowOK(r) /\ Exists(r) /\ r.claim = w
        /\ r.settled \in Nat /\ Hidden(r, plan) /\ (~enabled => Quiet(r))
    BY <1>1, <1>4, OwnerFact
  <2>2. /\ RowOK(q) /\ q \in Row /\ q.type = r.type /\ q.settled = r.settled
        /\ q.claim = r.claim /\ Hidden(q, plan)
        /\ q.entity = r.entity /\ q.desired >= r.desired
    BY <2>1, ReconciledRow
  <2>3. rows'[i] = q
    BY <1>4, <2>1 DEF IInv, TypeOK
  <2>4. /\ s.pc = "prepared" /\ s.id = i /\ s.rev = q.desired /\ s.action = q.action
        /\ s \in WorkerState
    BY <2>1, <2>2, <2>3 DEF Snapshot, WorkerState, Row
  <2>5. Quiet(r) => Quiet(q)
    BY <1>4, <2>1, <2>2 DEF Quiet, ReconcileDue, Never, Exists
  <2>6. rows' = [rows EXCEPT ![i] = q] /\ worker' = [worker EXCEPT ![w] = s]
    BY <1>4
  <2> HIDE DEF q, s
  <2>7. OwnerOK(s, q, plan)
    BY <2>2, <2>4 DEF OwnerOK, Hidden, Revealing, Row
  <2>8. q.settled <= r.settled
    BY <2>1, <2>2
  <2> HIDE DEF i
  <2>9. Advances(w, i, q, s)
    BY <1>4, <2>1, <2>2, WorkersAssumption DEF Advances, Begun, Exists
  <2>10. WorkerEffect(w, i, q, s)
    BY <1>1, <2>1, <2>2, <2>4, <2>5, <2>6, <2>7, <2>8, <2>9 DEF WorkerEffect
  <2> QED
    BY <2>1, <2>10
<1> QED
  BY <1>2, <1>3, <1>4 DEF Prepare

(* One part of a message, or the lease, changes. *)
LEMMA DeliverPartEffect ==
  ASSUME IInv, NEW w \in Workers, DeliverPart(w)
  PROVE  \E q : WorkerEffect(w, worker[w].id, q, worker[w])
<1> DEFINE i == worker[w].id
           r == rows[i]
<1>1. /\ worker[w].pc = "delivering" /\ worker[w] \in WorkerState /\ OwnsClaim(w)
      /\ enabled' = enabled /\ contest' = contest /\ matches' = matches /\ plan' = plan
      /\ crashes' \in Nat /\ worker' = worker
  BY StateOwns DEF DeliverPart, IInv, TypeOK
<1>2. PICK m \in {r.messages} \cup Delivered(worker[w].action, r.messages),
           lease \in {r.lease, LeaseTicks} :
        rows' = [rows EXCEPT ![i].messages = m, ![i].lease = lease]
  BY DEF DeliverPart
<1> DEFINE q == [r EXCEPT !.messages = m, !.lease = lease]
<1>3. /\ i \in Ids /\ worker[w].action \in Actions /\ r \in Row /\ RowOK(r)
      /\ r.claim = w /\ r.desired \in Nat /\ r.settled \in Nat /\ Exists(r)
      /\ OwnerOK(worker[w], r, plan) /\ Hidden(r, plan)
  BY <1>1, OwnerFact
<1>4. m \in Messages /\ (m = "shown" => r.messages = "shown" \/ worker[w].action = "publish")
  BY <1>2, <1>3, DeliveredFact DEF Row
<1>5. lease \in Timer
  BY <1>2, <1>3, LeaseAssumption, Members DEF Row
<1>6. rows' = [rows EXCEPT ![i] = q]
  BY <1>2, <1>3 DEF IInv, TypeOK
<1>7. /\ q \in Row /\ q.type = r.type /\ q.entity = r.entity
      /\ q.action = r.action /\ q.desired = r.desired
      /\ q.settled = r.settled /\ q.reconcile = r.reconcile /\ q.claim = w /\ q.messages = m
  BY <1>3, <1>4, <1>5 DEF Row
<1>8. worker' = [worker EXCEPT ![w] = worker[w]]
  BY <1>1 DEF IInv, TypeOK
<1> HIDE DEF q, r
<1>9. RowOK(q) /\ (Quiet(r) => Quiet(q)) /\ OwnerOK(worker[w], q, plan) /\ q.settled <= r.settled
  BY <1>3, <1>7 DEF RowOK, Quiet, Exists, OwnerOK
<1>10. Hidden(q, plan)
  BY <1>3, <1>4, <1>7 DEF Hidden, Revealing, OwnerOK
<1>11. Advances(w, i, q, worker[w])
  BY <1>3, <1>7, WorkersAssumption DEF Advances, Begun, Exists, r
<1>12. WorkerEffect(w, i, q, worker[w])
  BY <1>1, <1>6, <1>7, <1>8, <1>9, <1>10, <1>11 DEF WorkerEffect, r
<1> QED
  BY <1>12

(* Steps of the worker that write nothing *)
LEMMA WorkerOnlyEffect ==
  ASSUME IInv, NEW w \in Workers, StartDelivery(w) \/ ClaimLost(w) \/ Crash(w)
  PROVE  \E s : WorkerOnly(w, s)
<1>1. worker[w] \in WorkerState /\ crashes \in Nat
  BY DEF IInv, TypeOK
<1>2. CASE StartDelivery(w)
  <2> DEFINE s == [worker[w] EXCEPT !.pc = "delivering"]
  <2>1. worker' = [worker EXCEPT ![w] = s] /\ worker[w].pc = "prepared"
    BY <1>2 DEF StartDelivery, IInv, TypeOK
  <2>2. /\ s \in WorkerState /\ s.id = worker[w].id /\ s.rev = worker[w].rev
        /\ s.action = worker[w].action
    BY <1>1 DEF WorkerState
  <2>3. WorkerOnly(w, s)
    BY <1>1, <1>2, <2>1, <2>2 DEF WorkerOnly, StartDelivery
  <2> QED
    BY <2>3
<1>3. CASE ClaimLost(w) \/ Crash(w)
  <2>1. WorkerOnly(w, Idle)
    BY <1>1, <1>3, IdleFact DEF WorkerOnly, ClaimLost, Crash
  <2> QED
    BY <2>1
<1> QED
  BY <1>2, <1>3

(* Every step of a worker *)
LEMMA WorkersEffect ==
  ASSUME IInv, NEW w \in Workers, WorkerStep(w) \/ WorkerTrouble(w)
  PROVE  (\E i \in Ids : \E q, s : WorkerEffect(w, i, q, s)) \/ (\E s : WorkerOnly(w, s))
<1>1. worker[w].id \in Ids
  BY DEF IInv, TypeOK, WorkerState
<1>2. CASE EndsDelivery(w)
  BY <1>1, <1>2, EndsEffect
<1>3. CASE Claim(w)
  BY <1>3, ClaimEffect
<1>4. CASE Prepare(w)
  BY <1>4, PrepareEffect
<1>5. CASE DeliverPart(w)
  BY <1>1, <1>5, DeliverPartEffect
<1>6. CASE StartDelivery(w) \/ ClaimLost(w) \/ Crash(w)
  BY <1>6, WorkerOnlyEffect
<1> QED
  BY <1>2, <1>3, <1>4, <1>5, <1>6 DEF WorkerStep, WorkerTrouble, EndsDelivery

-----------------------------------------------------------------------------
(* The theorems *)

(* The invariant is preserved by every step. *)
LEMMA NextIInv == IInv /\ [Next]_vars => IInv'
<1> SUFFICES ASSUME IInv, [Next]_vars
             PROVE  IInv'
  OBVIOUS
<1>1. CASE ChampionNext \/ SwissNext \/ MatchNext \/ ContestNext \/ Tick
  BY <1>1, CommandsEffect, CommandIInv
<1>2. ASSUME NEW w \in Workers, WorkerStep(w) \/ WorkerTrouble(w)
      PROVE  IInv'
  BY <1>2, WorkersEffect, WorkerIInv, WorkerOnlyIInv
<1>3. CASE UNCHANGED vars
  <2>1. AllFollow(rows, rows', enabled', plan') /\ TypeOK' /\ DeadlinesStay
    BY <1>3, TableOK, AllFollowSame DEF vars, IInv, TypeOK, DeadlinesStay
  <2> QED
    BY <1>3, <2>1, EffectOfStatements, CommandIInv DEF vars
<1> QED
  BY <1>1, <1>2, <1>3 DEF Next

(* It holds in every reachable state. *)
LEMMA Inductive == Spec => []IInv
BY InitIInv, NextIInv, PTL DEF Spec

(* The columns and the worker's local variables have their types. *)
THEOREM TypeCorrect == Spec => []TypeOK
BY Inductive, IInvImplies, PTL

(* With the master switch off nothing the switch governs is left to send:
   transition_contest_publications_for_master_switch settles every row, and
   no delivery that was under way when it ran undoes that. *)
THEOREM SwitchSilences == Spec => []DisabledIsSettled
BY Inductive, IInvImplies, PTL

(* What participants predicted is never shown, nor queued to be shown, before
   the deadline of the prediction. *)
THEOREM PredictionsStayHidden == Spec => []NoEarlyReveal
BY Inductive, IInvImplies, PTL

-----------------------------------------------------------------------------
(* What no step does *)

Survives ==
  \A w \in Workers :
    LET i == worker[w].id
    IN  /\ worker[w].pc # "idle" /\ worker'[w].pc = "idle"
        /\ OwnsClaim(w)
        /\ rows[i].desired > worker[w].rev /\ Unsettled(rows[i])
        => Unsettled(rows'[i])

Settling ==
  \A i \in Ids :
    rows'[i].settled > rows[i].settled =>
      \/ enabled /\ ~enabled'
      \/ \E w \in Workers : Delivering(w, i) /\ rows'[i].settled = worker[w].rev

(* A step of one worker does neither. *)
LEMMA WorkerLawful ==
  ASSUME IInv, NEW w \in Workers, NEW i \in Ids, NEW q, NEW s, WorkerEffect(w, i, q, s)
  PROVE  Survives /\ Settling
<1>1. \A j \in Ids : rows'[j] = IF j = i THEN q ELSE rows[j]
  BY DEF IInv, TypeOK, WorkerEffect
<1>2. \A v \in Workers : worker'[v] = IF v = w THEN s ELSE worker[v]
  BY DEF IInv, TypeOK, WorkerEffect
<1>3. Survives
  BY <1>1, <1>2 DEF Survives, WorkerEffect
<1>4. ASSUME NEW j \in Ids, rows'[j].settled > rows[j].settled
      PROVE  Delivering(w, j) /\ rows'[j].settled = worker[w].rev
  <2>1. rows[j].settled \in Nat /\ rows'[j].settled \in Nat
    BY <1>1 DEF IInv, WorkerEffect, RowOK, Row
  <2>2. j = i
    BY <1>1, <1>4, <2>1
  <2>3. ~(q.settled <= rows[i].settled)
    BY <1>1, <1>4, <2>1, <2>2
  <2> QED
    BY <1>1, <2>2, <2>3 DEF WorkerEffect
<1> QED
  BY <1>3, <1>4 DEF Settling

(* Nor does a step that writes no row. *)
LEMMA WorkerOnlyLawful ==
  ASSUME IInv, rows' = rows
  PROVE  Survives /\ Settling
<1>1. \A i \in Ids : rows[i].settled \in Nat
  BY TableOK DEF AllOK, Row
<1> QED
  BY <1>1 DEF Survives, Settling

(* Nor does a command. *)
LEMMA CommandLawful ==
  ASSUME IInv, CommandEffect
  PROVE  Survives /\ Settling
<1>1. \A i \in Ids : rows[i].settled \in Nat /\ rows'[i].settled \in Nat
  BY TableOK DEF CommandEffect, Follows, RowOK, AllOK, Row
<1>2. Survives
  BY DEF CommandEffect, Survives
<1>3. Settling
  BY <1>1, TableOK DEF CommandEffect, Settling
<1> QED
  BY <1>2, <1>3

(* No step does. *)
LEMMA NextLawful == IInv /\ [Next]_vars => Survives /\ Settling
<1> SUFFICES ASSUME IInv, [Next]_vars
             PROVE  Survives /\ Settling
  OBVIOUS
<1>1. CASE ChampionNext \/ SwissNext \/ MatchNext \/ ContestNext \/ Tick
  BY <1>1, CommandsEffect, CommandLawful
<1>2. ASSUME NEW w \in Workers, WorkerStep(w) \/ WorkerTrouble(w)
      PROVE  Survives /\ Settling
  <2>1. (\E i \in Ids : \E q, s : WorkerEffect(w, i, q, s)) \/ (\E s : WorkerOnly(w, s))
    BY <1>2, WorkersEffect
  <2>2. CASE \E i \in Ids : \E q, s : WorkerEffect(w, i, q, s)
    BY <2>2, WorkerLawful
  <2>3. CASE \E s : WorkerOnly(w, s)
    BY <2>3, WorkerOnlyLawful DEF WorkerOnly
  <2> QED
    BY <2>1, <2>2, <2>3
<1>3. CASE UNCHANGED vars
  BY <1>3, WorkerOnlyLawful DEF vars
<1> QED
  BY <1>1, <1>2, <1>3 DEF Next

(* A revision made while an earlier one was being delivered is still to be
   delivered when the worker lets go of the row: the two finishes settle the
   revision that was read, never the newest. *)
THEOREM RevisionsSurvive == Spec => NewerRevisionSurvives
<1>1. IInv /\ [Next]_vars => [Survives]_vars
  BY NextLawful
<1>2. NewerRevisionSurvives <=> [][Survives]_vars
  BY DEF NewerRevisionSurvives, Survives
<1> QED
  BY <1>1, <1>2, Inductive, PTL DEF Spec

(* Only the worker whose token is in the row settles a revision, and it is
   the revision it read; else the switch went off. *)
THEOREM OwnersSettle == Spec => SettledByItsOwner
<1>1. IInv /\ [Next]_vars => [Settling]_vars
  BY NextLawful
<1>2. SettledByItsOwner <=> [][Settling]_vars
  BY DEF SettledByItsOwner, Settling
<1> QED
  BY <1>1, <1>2, Inductive, PTL DEF Spec

-----------------------------------------------------------------------------
(* The order of the queue: the inductive invariant *)

Champions == {"champion_predictions", "champion_result"}

(* A prediction has a deadline while it is offered, and no champion is
   recorded before it. *)
PlanOK(pl) ==
  /\ \A k \in Kinds : pl[k].on => pl[k].deadline # Never
  /\ "champion" \in Kinds /\ pl["champion"].result => pl["champion"].deadline = 0

(* Later announcements of the end have later rows, *)
Ranked(rs) ==
  \A i, j \in Ids :
    {rs[i].type, rs[j].type} \subseteq Finals /\ Rank(rs[i].type) < Rank(rs[j].type) => i < j

(* since each has a row only once what it announces has happened. *)
Staged(rs, pl, c) ==
  /\ \A i \in Ids : rs[i].type = "champion_result" => pl["champion"].result
  /\ \A i \in Ids : rs[i].type = "contest_completed" => c = "completed"
  /\ Ranked(rs)

(* What comes before a row that is begun has settled before, *)
InOrder(rs) ==
  \A i, j \in Ids : i < j /\ Exists(rs[i]) /\ Begun(rs[j]) => rs[i].settled > 0

(* and the champion is settled for good when the end is announced. *)
AtRest(r) == ~Unsettled(r) /\ r.reconcile = Never

Closing(rs) ==
  \A i, j \in Ids :
    rs[j].type = "contest_completed" /\ Begun(rs[j]) /\ rs[i].type \in Champions => AtRest(rs[i])

(* The reveal of kind k is scheduled for the instant at, *)
Reveal(rs, k, at) ==
  \E i \in Ids : /\ rs[i].type = Predictions(k) /\ rs[i].entity = "contest"
                 /\ rs[i].action = "withdraw" /\ rs[i].reconcile = at

(* which is its deadline. *)
ScheduledFor(k) ==
  contest = "open" /\ enabled /\ plan[k].on /\ plan[k].deadline > 0 =>
    Reveal(rows, k, plan[k].deadline)

Scheduled == \A k \in Kinds : ScheduledFor(k)

(* A worker that is alone is not robbed of its claim. *)
Unrobbed ==
  \A w \in Workers :
    Workers = {w} /\ contest # "deleted" /\ worker[w].pc # "idle" => OwnsClaim(w)

OrderInv ==
  /\ IInv
  /\ \A i \in Ids : rows[i].desired > 0
  /\ PlanOK(plan)
  /\ Staged(rows, plan, contest)
  /\ InOrder(rows)
  /\ Closing(rows)
  /\ Scheduled
  /\ Unrobbed

(* What the runs check follows from it. *)
LEMMA OrderInvImplies ==
  OrderInv => FinalOrder /\ LoneWorkerKeepsClaim /\ RevealScheduled /\ AnnouncedInOrder
<1> SUFFICES ASSUME OrderInv
             PROVE  FinalOrder /\ LoneWorkerKeepsClaim /\ RevealScheduled /\ AnnouncedInOrder
  OBVIOUS
<1>1. FinalOrder
  BY DEF OrderInv, Closing, FinalOrder, Begun, Exists, AtRest, Champions
<1>2. LoneWorkerKeepsClaim
  BY ProcessesAssumption, FS_Singleton DEF OrderInv, Unrobbed, LoneWorkerKeepsClaim
<1>3. RevealScheduled
  BY DEF OrderInv, Scheduled, ScheduledFor, Reveal, RevealScheduled
<1>4. AnnouncedInOrder
  BY DEF OrderInv, InOrder, AnnouncedInOrder, Begun
<1> QED
  BY <1>1, <1>2, <1>3, <1>4

(* The empty table of a new contest *)
LEMMA InitOrder == Init => OrderInv
<1> SUFFICES ASSUME Init PROVE OrderInv
  OBVIOUS
<1>1. \A i \in Ids : rows[i] = NoRow /\ rows[i].type = "none" /\ rows[i].desired = 1
  BY NoRowRow DEF Init
<1>2. \A k \in Kinds : ~plan[k].on /\ ~plan[k].result
  BY DEF Init, NoPlan
<1>3. \A i \in Ids : ~Begun(rows[i]) /\ rows[i].type \notin Finals
  BY <1>1 DEF Begun, Exists, Finals
<1>4. Staged(rows, plan, contest) /\ InOrder(rows) /\ Closing(rows)
  BY <1>1, <1>3 DEF Staged, Ranked, InOrder, Closing
<1>5. Scheduled /\ Unrobbed
  BY <1>2 DEF Init, Scheduled, ScheduledFor, Unrobbed, Idle
<1> QED
  BY <1>1, <1>2, <1>4, <1>5, InitIInv DEF OrderInv, PlanOK

-----------------------------------------------------------------------------
(* The order of the queue: the statements of the commands *)

(* A row that stays, *)
Carried(r, q) ==
  /\ q.type = r.type /\ q.claim = r.claim /\ q.messages = r.messages
  /\ q.entity \in {r.entity, "gone"}
  /\ q.settled >= r.settled /\ q.desired >= r.desired
  /\ q.desired = r.desired => q.action = r.action

(* and one that is new *)
Anew(q) == q.claim = "none" /\ q.messages = "none" /\ q.desired > 0

(* The table after an insert or an update: what is new is of one of these
   types and comes last. *)
Grown(rs, qs, types, i) ==
  \/ Carried(rs[i], qs[i])
  \/ Anew(qs[i]) /\ qs[i].type \in types /\ \A j \in Ids : j >= i => ~Exists(rs[j])

Grows(rs, qs, types) == \A i \in Ids : Grown(rs, qs, types, i)

(* No row of these types is touched. *)
Spares(rs, qs, types) == \A i \in Ids : rs[i].type \in types => qs[i] = rs[i]

LEMMA CarriedSame == ASSUME NEW r \in Row PROVE Carried(r, r)
BY DEF Carried, Row

LEMMA CarriedTransitive ==
  ASSUME NEW r \in Row, NEW q \in Row, NEW s \in Row, Carried(r, q), Carried(q, s)
  PROVE  Carried(r, s)
BY DEF Carried, Row

LEMMA GrowsSame ==
  ASSUME NEW rs, AllOK(rs), NEW types PROVE Grows(rs, rs, types)
BY CarriedSame DEF AllOK, Grows, Grown

LEMMA GrowsMore ==
  ASSUME NEW rs, NEW qs, NEW few, NEW types, Grows(rs, qs, few), few \subseteq types
  PROVE  Grows(rs, qs, types)
BY DEF Grows, Grown

LEMMA GrowsTransitive ==
  ASSUME NEW rs, NEW qs, NEW ss, NEW types, AllOK(rs), AllOK(qs), AllOK(ss),
         Grows(rs, qs, types), Grows(qs, ss, types)
  PROVE  Grows(rs, ss, types)
<1>1. \A j \in Ids : ~Exists(qs[j]) => ~Exists(rs[j]) \/ \A m \in Ids : m >= j => ~Exists(rs[m])
  BY DEF Grows, Grown, Carried, Exists
<1>2. \A j \in Ids : ~Exists(qs[j]) => ~Exists(rs[j])
  BY <1>1, IdsFact
<1>3. ASSUME NEW i \in Ids PROVE Grown(rs, ss, types, i)
  <2>1. rs[i] \in Row /\ qs[i] \in Row /\ ss[i] \in Row
    BY DEF AllOK
  <2>2. CASE Carried(qs[i], ss[i])
    <3>1. CASE Carried(rs[i], qs[i])
      BY <2>1, <2>2, <3>1, CarriedTransitive DEF Grown
    <3>2. CASE Anew(qs[i]) /\ qs[i].type \in types /\ \A j \in Ids : j >= i => ~Exists(rs[j])
      <4>1. Anew(ss[i]) /\ ss[i].type = qs[i].type
        BY <2>1, <2>2, <3>2 DEF Anew, Carried, Row
      <4> QED
        BY <3>2, <4>1 DEF Grown
    <3> QED
      BY <3>1, <3>2 DEF Grows, Grown
  <2>3. CASE Anew(ss[i]) /\ ss[i].type \in types /\ \A j \in Ids : j >= i => ~Exists(qs[j])
    BY <1>2, <2>3 DEF Grown
  <2> QED
    BY <2>2, <2>3 DEF Grows, Grown
<1> QED
  BY <1>3 DEF Grows

(* create_publication_if_enabled, with the row given *)
LEMMA InsertedGrows ==
  ASSUME NEW rs, AllOK(rs), NEW row, Anew(row), NEW types, row.type \in types
  PROVE  Grows(rs, Inserted(rs, row), types)
<1> SUFFICES ASSUME NEW i \in Ids PROVE Grown(rs, Inserted(rs, row), types, i)
  BY DEF Grows
<1>1. CASE IsNextId(rs, i)
  BY <1>1 DEF Inserted, IsNextId, Grown
<1>2. CASE ~IsNextId(rs, i)
  BY <1>2, CarriedSame DEF Inserted, AllOK, Grown
<1> QED
  BY <1>1, <1>2

LEMMA InsertedSpares ==
  ASSUME NEW rs, NEW row, NEW types, "none" \notin types
  PROVE  Spares(rs, Inserted(rs, row), types)
BY IdsFact DEF Spares, Inserted, IsNextId, Exists

LEMMA CreateGrows ==
  ASSUME NEW rs, AllOK(rs), NEW on, NEW type \in Types, NEW entity \in Entities,
         NEW action \in Actions, NEW at \in Timer, NEW spared, "none" \notin spared
  PROVE  LET qs == Create(rs, on, type, entity, action, at)
         IN  Grows(rs, qs, {type}) /\ Spares(rs, qs, spared)
<1> DEFINE row == RowOf(type, entity, action, at)
<1>1. Anew(row) /\ row.type = type
  BY RowOfRow DEF Anew
<1> HIDE DEF row
<1>2. CASE on /\ ~Has(rs, type, entity)
  BY <1>1, <1>2, InsertedGrows, InsertedSpares DEF Create, row
<1>3. CASE ~(on /\ ~Has(rs, type, entity))
  BY <1>3, GrowsSame DEF Create, Spares
<1> QED
  BY <1>2, <1>3

LEMMA RevisedCarried ==
  ASSUME NEW r \in Row, NEW action \in Actions, NEW at \in Timer
  PROVE  Carried(r, Revised(r, action, at))
<1>1. r.desired \in Nat /\ r.settled \in Nat
  BY DEF Row
<1> QED
  BY <1>1, RevisedRow DEF Carried

LEMMA ReviseGrows ==
  ASSUME NEW rs, AllOK(rs), NEW on, NEW type, NEW entity,
         NEW action \in Actions, NEW at \in Timer, NEW types, NEW spared, type \notin spared
  PROVE  LET qs == Revise(rs, on, type, entity, action, at)
         IN  Grows(rs, qs, types) /\ Spares(rs, qs, spared)
BY RevisedCarried, CarriedSame DEF Revise, Grows, Grown, Spares, AllOK

(* create_or_revise_champion_predictions_publication and its swiss twin *)
LEMMA PredictionsGrow ==
  ASSUME NEW rs, AllOK(rs), NEW on, NEW k \in Kinds, NEW p \in Plan,
         NEW spared, "none" \notin spared, Predictions(k) \notin spared
  PROVE  LET qs == CreateOrRevisePredictions(rs, on, k, p)
         IN  Grows(rs, qs, {Predictions(k)}) /\ Spares(rs, qs, spared)
<1> DEFINE st == PredictionsState(p)
           type == Predictions(k)
           qs == CreateOrRevisePredictions(rs, on, k, p)
<1>1. st.action \in Actions /\ st.at \in Timer /\ type \in Types /\ "contest" \in Entities
  BY PredictionsStateFact, PredictionsType, EntitiesAssumption
<1>2. CASE ~Has(rs, type, "contest") /\ st.action = "withdraw" /\ st.at = Never
  BY <1>2, GrowsSame DEF CreateOrRevisePredictions, Spares
<1>3. CASE ~Has(rs, type, "contest") /\ ~(st.action = "withdraw" /\ st.at = Never)
  <2>1. qs = Create(rs, on, type, "contest", st.action, st.at)
    BY <1>3 DEF CreateOrRevisePredictions
  <2> HIDE DEF qs, st, type
  <2>2. Grows(rs, qs, {type}) /\ Spares(rs, qs, spared)
    BY <1>1, <2>1, CreateGrows
  <2> QED
    BY <2>2 DEF qs, type
<1>4. CASE Has(rs, type, "contest")
  <2>1. ASSUME NEW i \in Ids
        PROVE  Carried(rs[i], qs[i]) /\ (rs[i].type # type => qs[i] = rs[i])
    <3>1. rs[i] \in Row /\ Carried(rs[i], [rs[i] EXCEPT !.reconcile = st.at])
      BY DEF AllOK, Carried, Row
    <3>2. qs[i] = IF ~on \/ rs[i].type # type \/ rs[i].entity # "contest" THEN rs[i]
                  ELSE IF rs[i].action # st.action \/ st.action = "publish"
                  THEN Revised(rs[i], st.action, st.at)
                  ELSE [rs[i] EXCEPT !.reconcile = st.at]
      BY <1>4 DEF CreateOrRevisePredictions
    <3>3. Carried(rs[i], Revised(rs[i], st.action, st.at)) /\ Carried(rs[i], rs[i])
      BY <1>1, <3>1, RevisedCarried, CarriedSame
    <3> HIDE DEF qs, st, type
    <3> QED
      BY <3>1, <3>2, <3>3
  <2> HIDE DEF qs
  <2>2. Grows(rs, qs, {type}) /\ Spares(rs, qs, spared)
    BY <2>1 DEF Grows, Grown, Spares
  <2> QED
    BY <2>2 DEF qs
<1> QED
  BY <1>2, <1>3, <1>4

(* There is an id for a new row as long as the last one is free. *)
LEMMA NextIdExists ==
  ASSUME NEW rs, ~Exists(rs[MaxRows])
  PROVE  \E i \in Ids : IsNextId(rs, i)
<1> DEFINE free == {i \in Ids : \A j \in Ids : j >= i => ~Exists(rs[j])}
<1>1. MaxRows \in Nat /\ MaxRows \in Ids /\ free \subseteq Nat
  BY BoundsAssumption DEF Ids
<1>2. MaxRows \in free
  BY <1>1 DEF Ids
<1>3. PICK i \in free : \A j \in free : ~(<<j, i>> \in OpToRel(<, Nat))
  BY <1>1, <1>2, NatLessThanWellFounded, WFMin
<1>4. \A j \in free : ~(j < i)
  BY <1>1, <1>3 DEF OpToRel
<1>5. i \in Ids /\ i \in Nat
  BY <1>1, <1>3
<1>6. ASSUME i > 1, ~Exists(rs[i - 1]) PROVE FALSE
  <2>1. i - 1 \in Ids /\ i - 1 < i
    BY <1>1, <1>5, <1>6 DEF Ids
  <2>2. \A j \in Ids : j >= i - 1 => j = i - 1 \/ j >= i
    BY <1>5, IdsFact
  <2>3. i - 1 \in free
    BY <1>3, <1>6, <2>1, <2>2
  <2> QED
    BY <1>4, <2>1, <2>3
<1>7. IsNextId(rs, i)
  BY <1>3, <1>6 DEF IsNextId
<1> QED
  BY <1>5, <1>7

(* A prediction that is offered and open is scheduled to be revealed. *)
LEMMA PredictionsReveal ==
  ASSUME NEW rs, AllOK(rs), NEW k \in Kinds, NEW p \in Plan, p.on, p.deadline > 0,
         Has(rs, Predictions(k), "contest") \/ ~Exists(rs[MaxRows])
  PROVE  Reveal(CreateOrRevisePredictions(rs, TRUE, k, p), k, p.deadline)
<1> DEFINE type == Predictions(k)
           at == p.deadline
           qs == CreateOrRevisePredictions(rs, TRUE, k, p)
<1>1. /\ PredictionsState(p) = [action |-> "withdraw", at |-> at]
      /\ at \in Timer /\ at # Never
  BY DEF PredictionsState, Plan, Never
<1>2. "withdraw" \in Actions /\ type \in Types /\ "contest" \in Entities
  BY Members, PredictionsType, EntitiesAssumption
<1>3. CASE ~Has(rs, type, "contest")
  <2>1. PICK i \in Ids : IsNextId(rs, i)
    BY <1>3, NextIdExists
  <2>2. qs = Inserted(rs, RowOf(type, "contest", "withdraw", at))
    BY <1>1, <1>3 DEF CreateOrRevisePredictions, Create
  <2>3. qs[i] = RowOf(type, "contest", "withdraw", at)
    BY <2>1, <2>2 DEF Inserted
  <2> HIDE DEF qs, at, type
  <2>4. /\ qs[i].type = type /\ qs[i].entity = "contest"
        /\ qs[i].action = "withdraw" /\ qs[i].reconcile = at
    BY <1>1, <1>2, <2>3, RowOfRow
  <2> QED
    BY <2>4 DEF Reveal, qs, at, type
<1>4. CASE Has(rs, type, "contest")
  <2>1. PICK i \in Ids : rs[i].type = type /\ rs[i].entity = "contest"
    BY <1>4 DEF Has
  <2>2. qs[i] = IF rs[i].action # "withdraw"
                THEN Revised(rs[i], "withdraw", at) ELSE [rs[i] EXCEPT !.reconcile = at]
    BY <1>1, <1>4, <2>1 DEF CreateOrRevisePredictions
  <2>3. rs[i] \in Row
    BY DEF AllOK
  <2> HIDE DEF qs, at, type
  <2>4. /\ qs[i].type = type /\ qs[i].entity = "contest"
        /\ qs[i].action = "withdraw" /\ qs[i].reconcile = at
    <3>1. CASE rs[i].action # "withdraw"
      BY <1>1, <1>2, <2>1, <2>2, <2>3, <3>1, RevisedRow
    <3>2. CASE rs[i].action = "withdraw"
      BY <2>1, <2>2, <2>3, <3>2 DEF Row
    <3> QED
      BY <3>1, <3>2
  <2> QED
    BY <2>4 DEF Reveal, qs, at, type
<1> QED
  BY <1>3, <1>4

(* A row that is spared goes on to be revealed. *)
LEMMA SparedReveal ==
  ASSUME NEW rs, NEW qs, NEW types, Spares(rs, qs, types), NEW k, Predictions(k) \in types,
         NEW at, Reveal(rs, k, at)
  PROVE  Reveal(qs, k, at)
BY DEF Spares, Reveal

-----------------------------------------------------------------------------
(* The order of the queue: the commands *)

(* Deleting a match may also drop a row that was not begun. *)
Moves(rs, qs, types) ==
  \A i \in Ids : Grown(rs, qs, types, i) \/ (~Begun(rs[i]) /\ qs[i] = NoRow)

(* What a command does to a table, at its rows: one that stays, one that is
   new, and one that is dropped. *)
Moved ==
  \A i \in Ids :
    \/ Carried(rows[i], rows'[i])
    \/ ~Exists(rows[i]) /\ Anew(rows'[i])
    \/ rows'[i] = NoRow /\ (~Begun(rows[i]) \/ contest' = "deleted")

LEMMA MovesMoved == ASSUME NEW types, Moves(rows, rows', types) PROVE Moved
BY IdsFact DEF Moves, Grown, Moved

(* What has a row now has happened. *)
MayAnnounce(types) ==
  /\ types \subseteq Types
  /\ "champion_predictions" \in types => ~plan["champion"].result
  /\ "champion_result" \in types => plan'["champion"].result
  /\ "contest_completed" \in types => contest' = "completed"
  /\ \A a, b \in types \cap Finals : a = b

(* A command of an open contest preserves the invariant. *)
LEMMA MovesOrder ==
  ASSUME OrderInv, IInv', contest = "open", worker' = worker,
         NEW types, Moves(rows, rows', types), MayAnnounce(types),
         PlanOK(plan'), "champion" \in Kinds /\ plan["champion"].result => plan'["champion"].result,
         Scheduled'
  PROVE  OrderInv' /\ Moved
<1>1. \A i \in Ids : /\ rows[i] \in Row /\ rows[i].desired > 0 /\ RowOK(rows[i])
                     /\ rows'[i] \in Row /\ RowOK(rows'[i])
  BY DEF OrderInv, IInv, RowOK
<1>2. \A i \in Ids : rows'[i].desired > 0
  BY <1>1, NoRowRow DEF Moves, Grown, Carried, Anew, Row
<1>3. ASSUME NEW i \in Ids, Begun(rows'[i]) PROVE Carried(rows[i], rows'[i]) /\ Begun(rows[i])
  <2>1. ~Anew(rows'[i]) /\ rows'[i] # NoRow
    BY <1>3, NoRowRow DEF Begun, Anew, Exists
  <2> QED
    BY <1>3, <2>1 DEF Moves, Grown, Carried, Begun, Exists
<1>4. ASSUME NEW i \in Ids, Exists(rows'[i])
      PROVE  \/ Carried(rows[i], rows'[i]) /\ Exists(rows[i])
             \/ rows'[i].type \in types /\ \A j \in Ids : j >= i => ~Exists(rows[j])
  BY <1>4, NoRowRow DEF Moves, Grown, Carried, Exists
<1>5. InOrder(rows')
  <2> SUFFICES ASSUME NEW i \in Ids, NEW j \in Ids, i < j, Exists(rows'[i]), Begun(rows'[j])
               PROVE  rows'[i].settled > 0
    BY DEF InOrder
  <2>1. Begun(rows[j]) /\ Exists(rows[j]) /\ j >= i
    BY <1>3, IdsFact DEF Begun
  <2>2. Carried(rows[i], rows'[i]) /\ Exists(rows[i])
    BY <1>4, <2>1
  <2>3. rows[i].settled > 0
    BY <2>1, <2>2 DEF OrderInv, InOrder
  <2> QED
    BY <1>1, <2>2, <2>3 DEF Carried, Row
<1>6. Closing(rows')
  <2> SUFFICES ASSUME NEW j \in Ids, rows'[j].type = "contest_completed", Begun(rows'[j])
               PROVE  FALSE
    BY DEF Closing
  <2>1. rows[j].type = "contest_completed"
    BY <1>3 DEF Carried
  <2> QED
    BY <2>1 DEF OrderInv, Staged
<1>7. Unrobbed'
  <2> SUFFICES ASSUME NEW w \in Workers, Workers = {w}, worker[w].pc # "idle"
               PROVE  OwnsClaim(w)'
    BY DEF Unrobbed
  <2> DEFINE i == worker[w].id
  <2>1. i \in Ids
    BY DEF OrderInv, IInv, TypeOK, WorkerState
  <2>2. Exists(rows[i]) /\ rows[i].claim = w /\ Begun(rows[i])
    BY WorkersAssumption DEF OrderInv, Unrobbed, OwnsClaim, Begun
  <2> HIDE DEF i
  <2>3. Carried(rows[i], rows'[i])
    BY <2>1, <2>2, IdsFact DEF Moves, Grown
  <2> QED
    BY <2>2, <2>3 DEF Carried, OwnsClaim, Exists, i
<1>8. Staged(rows', plan', contest')
  <2>1. ASSUME NEW i \in Ids, rows'[i].type = "champion_result" PROVE plan'["champion"].result
    <3>1. CASE rows[i].type = "champion_result"
      <4>1. "champion" \in Kinds /\ plan["champion"].result
        BY <1>1, <3>1 DEF OrderInv, Staged, RowOK, Offered
      <4> QED
        BY <4>1
    <3>2. CASE "champion_result" \in types
      BY <3>2 DEF MayAnnounce
    <3> QED
      BY <1>4, <2>1, <3>1, <3>2 DEF Exists, Carried
  <2>2. ASSUME NEW i \in Ids, rows'[i].type = "contest_completed" PROVE contest' = "completed"
    <3>1. rows[i].type # "contest_completed"
      BY DEF OrderInv, Staged
    <3>2. "contest_completed" \in types
      BY <1>4, <2>2, <3>1 DEF Exists, Carried
    <3> QED
      BY <3>2 DEF MayAnnounce
  <2>3. ASSUME NEW i \in Ids, NEW j \in Ids, {rows'[i].type, rows'[j].type} \subseteq Finals,
               Rank(rows'[i].type) < Rank(rows'[j].type)
        PROVE  i < j
    <3>1. Exists(rows'[i]) /\ Exists(rows'[j])
      BY <2>3 DEF Exists, Finals
    <3>2. CASE Exists(rows[j]) /\ rows[j].type = rows'[j].type
      <4>1. rows[j].type = "champion_result" /\ rows'[i].type = "champion_predictions"
        BY <2>3, <3>2 DEF OrderInv, Staged, Finals, Rank
      <4>2. plan["champion"].result
        BY <4>1 DEF OrderInv, Staged
      <4>3. rows[i].type = rows'[i].type
        BY <1>4, <3>1, <4>1, <4>2 DEF MayAnnounce, Carried
      <4> QED
        BY <2>3, <3>2, <4>3 DEF OrderInv, Staged, Ranked
    <3>3. CASE rows'[j].type \in types /\ \A m \in Ids : m >= j => ~Exists(rows[m])
      <4>1. rows'[i].type \notin types
        <5> SUFFICES ASSUME rows'[i].type \in types PROVE FALSE
          OBVIOUS
        <5>1. rows'[i].type = rows'[j].type
          BY <2>3, <3>3 DEF MayAnnounce
        <5>2. Rank(rows'[i].type) \in Int
          BY DEF Rank
        <5> QED
          BY <2>3, <5>1, <5>2
      <4>2. Exists(rows[i])
        BY <1>4, <3>1, <4>1
      <4> QED
        BY <3>3, <4>2, IdsFact
    <3> QED
      BY <1>4, <3>1, <3>2, <3>3 DEF Carried
  <2> QED
    BY <2>1, <2>2, <2>3 DEF Staged, Ranked
<1> QED
  BY <1>2, <1>5, <1>6, <1>7, <1>8, MovesMoved DEF OrderInv

(* A command that grows the table *)
LEMMA GrowsOrder ==
  ASSUME OrderInv, IInv', contest = "open", worker' = worker,
         NEW types, Grows(rows, rows', types), MayAnnounce(types),
         PlanOK(plan'), "champion" \in Kinds /\ plan["champion"].result => plan'["champion"].result,
         Scheduled'
  PROVE  OrderInv' /\ Moved
BY MovesOrder DEF Grows, Moves

(* What a command of something else leaves scheduled *)
LEMMA SparesScheduled ==
  ASSUME OrderInv, NEW k \in Kinds, contest = "open",
         enabled' = enabled, plan'[k].on = plan[k].on, plan'[k].deadline = plan[k].deadline,
         Spares(rows, rows', {Predictions(k)})
  PROVE  ScheduledFor(k)'
<1>1. ScheduledFor(k) /\ \A at : Reveal(rows, k, at) => Reveal(rows', k, at)
  BY SparedReveal DEF OrderInv, Scheduled
<1> QED
  BY <1>1 DEF ScheduledFor, Reveal

(* A command that has nothing to do with predictions *)
LEMMA PlainOrder ==
  ASSUME OrderInv, IInv', contest = "open", worker' = worker, enabled' = enabled, plan' = plan,
         NEW types, Moves(rows, rows', types), MayAnnounce(types),
         \A k \in Kinds : Spares(rows, rows', {Predictions(k)})
  PROVE  OrderInv' /\ Moved
<1>1. Scheduled'
  BY SparesScheduled DEF Scheduled
<1> QED
  BY <1>1, MovesOrder DEF OrderInv

LEMMA SparesSame == ASSUME NEW rs, NEW types PROVE Spares(rs, rs, types)
BY DEF Spares

LEMMA CreateMatchOrder ==
  ASSUME OrderInv, IInv', NEW m \in Matches, CreateMatch(m) PROVE OrderInv' /\ Moved
<1>1. /\ contest = "open" /\ worker' = worker /\ enabled' = enabled /\ plan' = plan /\ rows' = rows
      /\ AllOK(rows)
  BY TableOK DEF CreateMatch, Command, OrderInv
<1>2. Moves(rows, rows', {}) /\ MayAnnounce({})
  BY <1>1, GrowsSame DEF Grows, Moves, MayAnnounce
<1> QED
  BY <1>1, <1>2, SparesSame, PlainOrder

LEMMA MatchResultOrder ==
  ASSUME OrderInv, IInv', NEW m \in Matches, SaveMatchResult(m) PROVE OrderInv' /\ Moved
<1> DEFINE types == {"match_result"}
<1>1. /\ contest = "open" /\ worker' = worker /\ enabled' = enabled /\ plan' = plan
      /\ AllOK(rows) /\ m \in Entities
  BY TableOK, EntitiesAssumption DEF SaveMatchResult, Command, OrderInv
<1>2. /\ types \subseteq Types /\ "publish" \in Actions /\ Never \in Timer
      /\ MayAnnounce(types)
      /\ \A k \in Kinds : Predictions(k) \notin types /\ "none" # Predictions(k)
  BY Members DEF MayAnnounce, Types, Finals, Predictions
<1>3. Grows(rows, rows', types) /\ \A k \in Kinds : Spares(rows, rows', {Predictions(k)})
  <2> DEFINE created == Create(rows, enabled, "match_result", m, "publish", Never)
             revised == Revise(rows, enabled, "match_result", m, "publish", Never)
  <2>1. rows' = created \/ rows' = revised
    BY DEF SaveMatchResult
  <2>2. \A spared : "none" \notin spared =>
          Grows(rows, created, types) /\ Spares(rows, created, spared)
    BY <1>1, <1>2, CreateGrows DEF types
  <2>3. \A spared : "match_result" \notin spared =>
          Grows(rows, revised, types) /\ Spares(rows, revised, spared)
    BY <1>1, <1>2, ReviseGrows
  <2> HIDE DEF created, revised
  <2>4. "none" \notin {} /\ "match_result" \notin {}
    OBVIOUS
  <2>5. ASSUME NEW k \in Kinds
        PROVE  "none" \notin {Predictions(k)} /\ "match_result" \notin {Predictions(k)}
    BY <1>2
  <2> QED
    BY <2>1, <2>2, <2>3, <2>4, <2>5
<1> HIDE DEF types
<1> QED
  BY <1>1, <1>2, <1>3, PlainOrder DEF Grows, Moves

(* The row of a deleted match stays when it was begun. *)
LEMMA DeleteMatchOrder ==
  ASSUME OrderInv, IInv', NEW m \in Matches, DeleteMatch(m) PROVE OrderInv' /\ Moved
<1>1. /\ contest = "open" /\ worker' = worker /\ enabled' = enabled /\ plan' = plan
      /\ AllOK(rows) /\ "gone" \in Entities /\ enabled \in BOOLEAN
  BY TableOK, EntitiesAssumption DEF DeleteMatch, Command, OrderInv
<1>2. \A i \in Ids : rows'[i] = IF rows[i].type = "match_result" /\ rows[i].entity = m
                                THEN MatchDeleted(rows[i]) ELSE rows[i]
  BY DEF DeleteMatch
<1>3. ASSUME NEW i \in Ids
      PROVE  Carried(rows[i], rows'[i]) \/ (~Begun(rows[i]) /\ rows'[i] = NoRow)
  <2> DEFINE r == rows[i]
  <2>1. r \in Row
    BY <1>1 DEF AllOK
  <2>2. Carried(r, Tombstoned(r, enabled))
    BY <1>1, <2>1, TombstonedRow DEF Carried, Row
  <2>3. CASE r.messages = "none" /\ r.claim = "none"
    BY <1>2, <2>1, <2>3, CarriedSame DEF MatchDeleted, Begun
  <2>4. CASE ~(r.messages = "none" /\ r.claim = "none")
    BY <1>2, <2>1, <2>2, <2>4, CarriedSame DEF MatchDeleted
  <2> QED
    BY <2>3, <2>4
<1>4. Moves(rows, rows', {}) /\ MayAnnounce({})
  BY <1>3 DEF Moves, Grown, MayAnnounce
<1>5. \A k \in Kinds : Spares(rows, rows', {Predictions(k)})
  BY <1>2 DEF Spares, Predictions
<1> QED
  BY <1>1, <1>4, <1>5, PlainOrder

LEMMA LeaderboardOrder ==
  ASSUME OrderInv, IInv', NEW s \in Snapshots, PublishLeaderboard(s) PROVE OrderInv' /\ Moved
<1> DEFINE types == {"leaderboard_snapshot"}
           row == RowOf("leaderboard_snapshot", s, "publish", Never)
<1>1. /\ contest = "open" /\ worker' = worker /\ enabled' = enabled /\ plan' = plan
      /\ AllOK(rows) /\ s \in Entities /\ rows' = Inserted(rows, row)
  BY TableOK, EntitiesAssumption DEF PublishLeaderboard, Command, OrderInv
<1>2. /\ types \subseteq Types /\ "publish" \in Actions /\ Never \in Timer
      /\ MayAnnounce(types)
      /\ \A k \in Kinds : "none" # Predictions(k)
  BY Members DEF MayAnnounce, Types, Finals, Predictions
<1>3. Anew(row) /\ row.type \in types
  BY <1>1, <1>2, RowOfRow DEF Anew
<1> HIDE DEF types, row
<1>4. Grows(rows, rows', types) /\ \A k \in Kinds : Spares(rows, rows', {Predictions(k)})
  BY <1>1, <1>2, <1>3, InsertedGrows, InsertedSpares
<1> QED
  BY <1>1, <1>2, <1>4, PlainOrder DEF Grows, Moves

LEMMA CompleteOrder ==
  ASSUME OrderInv, IInv', CompleteContest PROVE OrderInv' /\ Moved
<1> DEFINE types == {"contest_completed"}
<1>1. /\ contest = "open" /\ worker' = worker /\ plan' = plan /\ contest' = "completed"
      /\ AllOK(rows) /\ "contest" \in Entities
      /\ rows' = Create(rows, enabled, "contest_completed", "contest", "publish", Never)
  BY TableOK, EntitiesAssumption DEF CompleteContest, Command, OrderInv
<1>2. types \subseteq Types /\ "publish" \in Actions /\ Never \in Timer /\ MayAnnounce(types)
  BY <1>1, Members DEF MayAnnounce, Types, Finals
<1>3. Grows(rows, rows', types)
  BY <1>1, <1>2, CreateGrows
<1>4. Scheduled'
  BY <1>1 DEF Scheduled, ScheduledFor
<1> HIDE DEF types
<1> QED
  BY <1>1, <1>2, <1>3, <1>4, GrowsOrder DEF OrderInv

(* Nothing is left of a deleted contest. *)
LEMMA DeleteContestOrder ==
  ASSUME OrderInv, IInv', DeleteContest PROVE OrderInv' /\ Moved
<1>1. /\ contest' = "deleted" /\ plan' = plan
      /\ \A i \in Ids : /\ rows'[i].type = "none" /\ rows'[i].desired = 1
                        /\ ~Exists(rows'[i]) /\ ~Begun(rows'[i])
  BY NoRowRow DEF DeleteContest, Exists, Begun
<1>2. Staged(rows', plan', contest') /\ InOrder(rows') /\ Closing(rows')
  BY <1>1 DEF Staged, Ranked, InOrder, Closing, Finals
<1>3. Scheduled' /\ Unrobbed'
  BY <1>1 DEF Scheduled, ScheduledFor, Unrobbed
<1>4. Moved
  BY DEF DeleteContest, Moved
<1> QED
  BY <1>1, <1>2, <1>3, <1>4 DEF OrderInv

(* The clock goes on for rows and deadlines alike. *)
LEMMA TickOrder ==
  ASSUME OrderInv, IInv', Tick PROVE OrderInv'
<1>1. /\ enabled' = enabled /\ contest' = contest /\ worker' = worker
      /\ \A i \in Ids : rows'[i] = Ticked(rows[i]) /\ rows[i] \in Row
      /\ \A k \in Kinds : plan'[k] = [plan[k] EXCEPT !.deadline = Sooner(plan[k].deadline)]
                          /\ plan[k] \in Plan
  BY TableOK DEF Tick, OrderInv, AllOK
<1>2. \A i \in Ids :
        /\ rows'[i].type = rows[i].type /\ rows'[i].entity = rows[i].entity
        /\ rows'[i].action = rows[i].action /\ rows'[i].desired = rows[i].desired
        /\ rows'[i].settled = rows[i].settled /\ rows'[i].claim = rows[i].claim
        /\ rows'[i].messages = rows[i].messages
        /\ rows'[i].reconcile = Sooner(rows[i].reconcile)
        /\ rows[i].reconcile = Never => rows'[i].reconcile = Never
  <2> SUFFICES ASSUME NEW i \in Ids, NEW r, r = rows[i], NEW q, q = rows'[i]
               PROVE  /\ q.type = r.type /\ q.entity = r.entity
                      /\ q.action = r.action /\ q.desired = r.desired
                      /\ q.settled = r.settled /\ q.claim = r.claim
                      /\ q.messages = r.messages
                      /\ q.reconcile = Sooner(r.reconcile)
                      /\ r.reconcile = Never => q.reconcile = Never
    OBVIOUS
  <2>1. r \in Row /\ q = Ticked(r)
    BY <1>1
  <2>2. q.reconcile = Sooner(r.reconcile)
    BY <2>1 DEF Ticked, Row
  <2> QED
    BY <2>1, <2>2, TickedRow
<1>3. \A i \in Ids : /\ Exists(rows'[i]) = Exists(rows[i]) /\ Begun(rows'[i]) = Begun(rows[i])
                     /\ Unsettled(rows'[i]) = Unsettled(rows[i])
  BY <1>2 DEF Exists, Begun, Unsettled
<1>4. \A k \in Kinds :
        /\ plan'[k].on = plan[k].on /\ plan'[k].result = plan[k].result
        /\ plan'[k].deadline = Sooner(plan[k].deadline) /\ plan[k].deadline \in Timer
  BY <1>1 DEF Plan
<1>5. PlanOK(plan')
  BY <1>4 DEF OrderInv, PlanOK, Sooner, Timer, Never
<1>6. Staged(rows', plan', contest')
  <2>1. \A i \in Ids : rows[i].type = "champion_result" => "champion" \in Kinds
    BY DEF OrderInv, IInv, RowOK, Offered
  <2> QED
    BY <1>1, <1>2, <1>4, <2>1 DEF OrderInv, Staged, Ranked
<1>7. InOrder(rows') /\ Closing(rows')
  BY <1>2, <1>3 DEF OrderInv, InOrder, Closing, AtRest
<1>8. Scheduled'
  <2> SUFFICES ASSUME NEW k \in Kinds, contest' = "open", enabled', plan'[k].on,
                      plan'[k].deadline > 0
               PROVE  Reveal(rows', k, plan'[k].deadline)
    BY DEF Scheduled, ScheduledFor, Reveal
  <2>1. plan[k].deadline > 0
    BY <1>4 DEF Sooner, Timer, Never
  <2>2. Reveal(rows, k, plan[k].deadline)
    BY <1>1, <1>4, <2>1 DEF OrderInv, Scheduled, ScheduledFor
  <2> QED
    BY <1>2, <1>4, <2>2 DEF Reveal
<1>9. Unrobbed'
  BY <1>1, <1>2, <1>3 DEF OrderInv, Unrobbed, OwnsClaim, IInv, TypeOK, WorkerState
<1> QED
  BY <1>2, <1>5, <1>6, <1>7, <1>8, <1>9 DEF OrderInv

-----------------------------------------------------------------------------
(* The order of the queue: the commands about predictions *)

LEMMA NextTableOK == ASSUME IInv' PROVE AllOK(rows')
BY DEF IInv, TypeOK, AllOK

(* The settings of one kind change, and the other kind's reveal is spared. *)
LEMMA PlanOrder ==
  ASSUME OrderInv, IInv', contest = "open", contest' = contest,
         worker' = worker, enabled' = enabled,
         NEW k \in Kinds, NEW p \in Plan, plan' = [plan EXCEPT ![k] = p],
         p.on => p.deadline # Never,
         k = "champion" => (p.result => p.deadline = 0) /\ (plan[k].result => p.result),
         NEW types, Grows(rows, rows', types), MayAnnounce(types),
         enabled /\ p.on /\ p.deadline > 0 => Reveal(rows', k, p.deadline),
         \A kk \in Kinds : kk # k => Spares(rows, rows', {Predictions(kk)})
  PROVE  OrderInv' /\ Moved
<1>1. /\ \A kk \in Kinds : kk # k => plan'[kk] = plan[kk]
      /\ plan'[k] = p
  BY DEF OrderInv, IInv, TypeOK
<1>2. PlanOK(plan')
  BY <1>1 DEF OrderInv, PlanOK
<1>3. ASSUME NEW kk \in Kinds PROVE ScheduledFor(kk)'
  <2>1. CASE kk = k
    BY <1>1, <2>1 DEF ScheduledFor, Reveal
  <2>2. CASE kk # k
    BY <1>1, <2>2, SparesScheduled
  <2> QED
    BY <2>1, <2>2
<1>4. Scheduled'
  BY <1>3 DEF Scheduled
<1>5. "champion" \in Kinds /\ plan["champion"].result => plan'["champion"].result
  BY <1>1
<1> QED
  BY <1>2, <1>4, <1>5, GrowsOrder

(* The champion's two statements: its row is revised, and the row of
   everybody's choice is created, revised or dated anew. *)
LEMMA ChampionStatements ==
  ASSUME OrderInv, IInv', "champion" \in Kinds, NEW p \in Plan,
         RoomFor("champion_predictions", "contest"),
         LET st == ResultState(p)
         IN  rows' = CreateOrRevisePredictions(
                       Revise(rows, enabled, "champion_result", "contest", st.action, st.at),
                       enabled, "champion", p)
  PROVE  /\ Grows(rows, rows', {"champion_predictions"})
         /\ enabled /\ p.on /\ p.deadline > 0 => Reveal(rows', "champion", p.deadline)
         /\ \A k \in Kinds : k # "champion" => Spares(rows, rows', {Predictions(k)})
<1> DEFINE st == ResultState(p)
           mid == Revise(rows, enabled, "champion_result", "contest", st.action, st.at)
<1>1. /\ AllOK(rows) /\ AllOK(rows') /\ enabled \in BOOLEAN
      /\ Predictions("champion") = "champion_predictions"
  BY TableOK, NextTableOK DEF OrderInv, Predictions
<1>2. st.action \in Actions /\ st.at \in Timer
  BY PredictionsStateFact
<1>3. rows' = CreateOrRevisePredictions(mid, enabled, "champion", p)
  OBVIOUS
<1> HIDE DEF st
<1>4. \A types, spared : "champion_result" \notin spared =>
        Grows(rows, mid, types) /\ Spares(rows, mid, spared)
  BY <1>1, <1>2, ReviseGrows
<1>5. MayPublish("champion_result", st.action, plan)
  BY PredictionsType DEF MayPublish
<1>6. AllOK(mid)
  BY <1>1, <1>2, <1>5, ReviseFollows DEF AllFollow
<1>7. Has(mid, "champion_predictions", "contest") \/ ~Exists(mid[MaxRows])
  <2>1. \A i \in Ids : /\ rows[i].type # "champion_result" => mid[i] = rows[i]
                       /\ mid[i].type = rows[i].type
    BY <1>1, <1>2, RevisedRow DEF Revise, AllOK
  <2>2. MaxRows \in Ids
    BY BoundsAssumption DEF Ids
  <2> HIDE DEF mid
  <2> QED
    BY <2>1, <2>2 DEF RoomFor, Has, Exists
<1> HIDE DEF mid
<1>8. \A spared : "none" \notin spared /\ "champion_predictions" \notin spared =>
        Grows(mid, rows', {"champion_predictions"}) /\ Spares(mid, rows', spared)
  BY <1>1, <1>3, <1>6, PredictionsGrow
<1>9. Grows(rows, rows', {"champion_predictions"})
  <2> DEFINE types == {"champion_predictions"}
             spared == {}
  <2>1. "champion_result" \notin spared /\ "none" \notin spared /\ "champion_predictions" \notin spared
    OBVIOUS
  <2>2. \A s : "none" \notin s /\ "champion_predictions" \notin s =>
                Grows(mid, rows', types) /\ Spares(mid, rows', s)
    BY <1>8
  <2> HIDE DEF types, spared
  <2>3. Grows(rows, mid, types) /\ Spares(rows, mid, spared)
    BY <1>4, <2>1
  <2>4. Grows(mid, rows', types) /\ Spares(mid, rows', spared)
    BY <2>1, <2>2
  <2>5. Grows(rows, rows', types)
    BY <1>1, <1>6, <2>3, <2>4, GrowsTransitive
  <2> QED
    BY <2>5 DEF types
<1>10. enabled /\ p.on /\ p.deadline > 0 => Reveal(rows', "champion", p.deadline)
  BY <1>1, <1>3, <1>6, <1>7, PredictionsReveal
<1>11. ASSUME NEW k \in Kinds, k # "champion" PROVE Spares(rows, rows', {Predictions(k)})
  <2>1. Predictions(k) = "swiss_predictions"
    BY <1>11 DEF Predictions
  <2>2. /\ "none" \notin {Predictions(k)} /\ "champion_predictions" \notin {Predictions(k)}
        /\ "champion_result" \notin {Predictions(k)}
    BY <2>1
  <2>3. Spares(rows, mid, {Predictions(k)}) /\ Spares(mid, rows', {Predictions(k)})
    BY <1>4, <1>8, <2>2
  <2> QED
    BY <2>3 DEF Spares
<1> QED
  BY <1>9, <1>10, <1>11

LEMMA ChampionSettingsOrder ==
  ASSUME OrderInv, IInv', "champion" \in Kinds, NEW on \in BOOLEAN, NEW delay \in 0..MaxDelay,
         SaveChampionSettings(on, delay)
  PROVE  OrderInv' /\ Moved
<1> DEFINE deadline == IF on THEN delay ELSE Never
           p == [plan["champion"] EXCEPT !.on = on, !.deadline = deadline]
           st == ResultState(p)
           types == {"champion_predictions"}
<1>1. deadline \in Timer /\ (on => deadline # Never)
  BY Members, BoundsAssumption DEF Never
<1>2. p \in Plan /\ p.deadline = deadline /\ p.on = on /\ p.result = plan["champion"].result
  <2> HIDE DEF deadline
  <2> QED
    BY <1>1, TableOK DEF Plan, OrderInv
<1>3. /\ contest = "open" /\ contest' = contest /\ ~plan["champion"].result
      /\ RoomFor("champion_predictions", "contest")
      /\ plan' = [plan EXCEPT !["champion"] = p]
      /\ rows' = CreateOrRevisePredictions(
                   Revise(rows, enabled, "champion_result", "contest", st.action, st.at),
                   enabled, "champion", p)
      /\ enabled' = enabled /\ worker' = worker
  BY DEF SaveChampionSettings, Command
<1> HIDE DEF p, deadline
<1>4. /\ Grows(rows, rows', types)
      /\ enabled /\ p.on /\ p.deadline > 0 => Reveal(rows', "champion", p.deadline)
      /\ \A k \in Kinds : k # "champion" => Spares(rows, rows', {Predictions(k)})
  BY <1>2, <1>3, ChampionStatements
<1>5. MayAnnounce(types)
  BY <1>3 DEF MayAnnounce, Types
<1> HIDE DEF types, st
<1> QED
  BY <1>1, <1>2, <1>3, <1>4, <1>5, PlanOrder

LEMMA ChampionPredictionOrder ==
  ASSUME OrderInv, IInv', "champion" \in Kinds, SaveChampionPrediction
  PROVE  OrderInv' /\ Moved
<1> DEFINE p == plan["champion"]
           st == ResultState(p)
           types == {"champion_predictions"}
<1>1. p \in Plan /\ (p.on => p.deadline # Never) /\ (p.result => p.deadline = 0)
  BY TableOK DEF OrderInv, PlanOK
<1>2. /\ contest = "open" /\ contest' = contest /\ p.deadline > 0
      /\ RoomFor("champion_predictions", "contest")
      /\ plan' = plan
      /\ rows' = CreateOrRevisePredictions(
                   Revise(rows, enabled, "champion_result", "contest", st.action, st.at),
                   enabled, "champion", p)
      /\ enabled' = enabled /\ worker' = worker
  BY DEF SaveChampionPrediction, Command
<1>3. plan' = [plan EXCEPT !["champion"] = p]
  BY <1>2 DEF OrderInv, IInv, TypeOK
<1>4. ~p.result /\ ~plan["champion"].result
  BY <1>1, <1>2
<1>5. MayAnnounce(types)
  BY <1>4 DEF MayAnnounce, Types
<1>6. /\ Grows(rows, rows', types)
      /\ enabled /\ p.on /\ p.deadline > 0 => Reveal(rows', "champion", p.deadline)
      /\ \A k \in Kinds : k # "champion" => Spares(rows, rows', {Predictions(k)})
  BY <1>1, <1>2, ChampionStatements
<1> HIDE DEF types, st, p
<1> QED
  BY <1>1, <1>2, <1>3, <1>4, <1>5, <1>6, PlanOrder

(* The champion is recorded after the deadline: nothing is left to reveal. *)
LEMMA ContestChampionOrder ==
  ASSUME OrderInv, IInv', "champion" \in Kinds, SaveContestChampion
  PROVE  OrderInv' /\ Moved
<1> DEFINE p == [plan["champion"] EXCEPT !.result = TRUE]
           st == ResultState(p)
           types == {"champion_result"}
           created == Create(rows, enabled, "champion_result", "contest", st.action, st.at)
           revised == Revise(rows, enabled, "champion_result", "contest", st.action, st.at)
<1>1. p \in Plan /\ p.deadline = plan["champion"].deadline /\ p.result
  BY TableOK DEF Plan, OrderInv
<1>2. /\ contest = "open" /\ contest' = contest /\ p.deadline = 0
      /\ plan' = [plan EXCEPT !["champion"] = p]
      /\ rows' \in {created, revised}
      /\ enabled' = enabled /\ worker' = worker
  BY DEF SaveContestChampion, Command
<1> HIDE DEF p
<1>3. /\ AllOK(rows) /\ "contest" \in Entities /\ "champion_result" \in Types
      /\ st.action \in Actions /\ st.at \in Timer
  BY <1>1, TableOK, PredictionsStateFact, EntitiesAssumption DEF OrderInv, Types
<1> HIDE DEF st
<1>4. \A spared : "none" \notin spared /\ "champion_result" \notin spared =>
        /\ Grows(rows, created, types) /\ Spares(rows, created, spared)
        /\ Grows(rows, revised, types) /\ Spares(rows, revised, spared)
  BY <1>3, CreateGrows, ReviseGrows
<1> HIDE DEF created, revised
<1>5. ASSUME NEW k \in Kinds
      PROVE  Grows(rows, rows', types) /\ Spares(rows, rows', {Predictions(k)})
  <2>1. "none" \notin {Predictions(k)} /\ "champion_result" \notin {Predictions(k)}
    BY DEF Predictions
  <2> QED
    BY <1>2, <1>4, <2>1
<1>6. plan'["champion"] = p
  BY <1>2 DEF OrderInv, IInv, TypeOK
<1>7. MayAnnounce(types)
  BY <1>1, <1>3, <1>6 DEF MayAnnounce
<1> HIDE DEF types
<1>8. p.deadline # Never /\ ~(p.deadline > 0)
  BY <1>2 DEF Never
<1> QED
  BY <1>1, <1>2, <1>5, <1>7, <1>8, PlanOrder

LEMMA SwissSettingsOrder ==
  ASSUME OrderInv, IInv', "swiss" \in Kinds, NEW on \in BOOLEAN, NEW limits \in BOOLEAN,
         NEW deadline \in {Never} \cup 0..MaxDelay, SaveSwissSettings(on, deadline, limits)
  PROVE  OrderInv' /\ Moved
<1> DEFINE p == [plan["swiss"] EXCEPT !.on = on, !.deadline = deadline]
           types == {"swiss_predictions"}
           revised == CreateOrRevisePredictions(rows, enabled, "swiss", p)
<1>1. deadline \in Timer
  BY Members, BoundsAssumption
<1>2. p \in Plan /\ p.deadline = deadline /\ p.on = on
  BY <1>1, TableOK DEF Plan, OrderInv
<1>3. /\ contest = "open" /\ contest' = contest /\ (on => deadline # Never)
      /\ RoomFor("swiss_predictions", "contest")
      /\ plan' = [plan EXCEPT !["swiss"] = p]
      /\ rows' = IF enabled THEN revised ELSE rows
      /\ enabled' = enabled /\ worker' = worker
  BY DEF SaveSwissSettings, Command
<1> HIDE DEF p
<1>4. /\ AllOK(rows) /\ AllOK(rows') /\ enabled \in BOOLEAN
      /\ Predictions("swiss") = "swiss_predictions"
  BY TableOK, NextTableOK DEF OrderInv, Predictions
<1>5. \A spared : "none" \notin spared /\ "swiss_predictions" \notin spared =>
        Grows(rows, revised, types) /\ Spares(rows, revised, spared)
  BY <1>2, <1>4, PredictionsGrow
<1>6. Has(rows, "swiss_predictions", "contest") \/ ~Exists(rows[MaxRows])
  BY <1>3 DEF RoomFor
<1>7. enabled /\ p.on /\ p.deadline > 0 => Reveal(rows', "swiss", p.deadline)
  BY <1>2, <1>3, <1>4, <1>6, PredictionsReveal
<1>8. Grows(rows, rows, types) /\ \A spared : Spares(rows, rows, spared)
  BY <1>4, GrowsSame, SparesSame
<1>9. Grows(rows, rows', types)
  <2> DEFINE spared == {}
  <2>1. "none" \notin spared /\ "swiss_predictions" \notin spared
    OBVIOUS
  <2> HIDE DEF spared, types, revised
  <2>2. Grows(rows, revised, types) /\ Spares(rows, revised, spared)
    BY <1>5, <2>1
  <2> QED
    BY <1>3, <1>8, <2>2
<1>10. ASSUME NEW k \in Kinds, k # "swiss" PROVE Spares(rows, rows', {Predictions(k)})
  <2>1. k = "champion"
    BY <1>10, KindsAssumption
  <2>2. "none" \notin {Predictions(k)} /\ "swiss_predictions" \notin {Predictions(k)}
    BY <2>1 DEF Predictions
  <2> HIDE DEF revised
  <2>3. Spares(rows, revised, {Predictions(k)})
    BY <1>5, <2>2
  <2> QED
    BY <1>3, <1>8, <2>3
<1>11. MayAnnounce(types)
  BY DEF MayAnnounce, Types
<1> HIDE DEF types, revised
<1> QED
  BY <1>2, <1>3, <1>7, <1>9, <1>10, <1>11, PlanOrder

LEMMA SwissPredictionOrder ==
  ASSUME OrderInv, IInv', "swiss" \in Kinds, SaveSwissPrediction
  PROVE  OrderInv' /\ Moved
<1> DEFINE p == [plan["swiss"] EXCEPT !.locked = TRUE]
           types == {"swiss_predictions"}
<1>1. /\ p \in Plan /\ p.deadline = plan["swiss"].deadline /\ p.on = plan["swiss"].on
      /\ p.on => p.deadline # Never
  BY TableOK DEF Plan, OrderInv, PlanOK
<1>2. /\ contest = "open" /\ contest' = contest
      /\ plan' = [plan EXCEPT !["swiss"] = p] /\ rows' = rows
      /\ enabled' = enabled /\ worker' = worker
  BY DEF SaveSwissPrediction, Command
<1> HIDE DEF p
<1>3. AllOK(rows)
  BY TableOK DEF OrderInv
<1>4. Grows(rows, rows', types) /\ \A spared : Spares(rows, rows', spared)
  BY <1>2, <1>3, GrowsSame, SparesSame
<1>5. MayAnnounce(types)
  BY DEF MayAnnounce, Types
<1> HIDE DEF types
<1>6. enabled /\ p.on /\ p.deadline > 0 => Reveal(rows', "swiss", p.deadline)
  BY <1>1, <1>2 DEF OrderInv, Scheduled, ScheduledFor, Reveal
<1> QED
  BY <1>1, <1>2, <1>4, <1>5, <1>6, PlanOrder

LEMMA SwissResultOrder ==
  ASSUME OrderInv, IInv', "swiss" \in Kinds, SaveSwissResult
  PROVE  OrderInv' /\ Moved
<1> DEFINE p == [plan["swiss"] EXCEPT !.result = TRUE, !.locked = TRUE]
           types == {"swiss_result"}
           created == Create(rows, enabled, "swiss_result", "contest", "publish", Never)
           revised == Revise(rows, enabled, "swiss_result", "contest", "publish", Never)
<1>1. p \in Plan /\ p.deadline = plan["swiss"].deadline
  BY TableOK DEF Plan, OrderInv
<1>2. /\ contest = "open" /\ contest' = contest /\ p.deadline = 0
      /\ plan' = [plan EXCEPT !["swiss"] = p]
      /\ rows' \in {created, revised}
      /\ enabled' = enabled /\ worker' = worker
  BY <1>1 DEF SaveSwissResult, Command
<1> HIDE DEF p
<1>3. /\ AllOK(rows) /\ "contest" \in Entities /\ "swiss_result" \in Types
      /\ "publish" \in Actions /\ Never \in Timer
  BY TableOK, Members, EntitiesAssumption DEF OrderInv, Types
<1>4. \A spared : "none" \notin spared /\ "swiss_result" \notin spared =>
        /\ Grows(rows, created, types) /\ Spares(rows, created, spared)
        /\ Grows(rows, revised, types) /\ Spares(rows, revised, spared)
  BY <1>3, CreateGrows, ReviseGrows
<1> HIDE DEF created, revised
<1>5. ASSUME NEW k \in Kinds
      PROVE  Grows(rows, rows', types) /\ Spares(rows, rows', {Predictions(k)})
  <2>1. "none" \notin {Predictions(k)} /\ "swiss_result" \notin {Predictions(k)}
    BY DEF Predictions
  <2> QED
    BY <1>2, <1>4, <2>1
<1>6. MayAnnounce(types)
  BY <1>3 DEF MayAnnounce, Finals
<1> HIDE DEF types
<1>7. p.deadline # Never /\ ~(p.deadline > 0)
  BY <1>2 DEF Never
<1> QED
  BY <1>1, <1>2, <1>5, <1>6, <1>7, PlanOrder

(* Queueing one reveal leaves the last id free when the one before it is. *)
LEMMA RoomStays ==
  ASSUME NEW rs, AllOK(rs), NEW k \in Kinds, NEW p \in Plan, ~Exists(rs[MaxRows]),
         Has(rs, Predictions(k), "contest") \/ (MaxRows > 1 /\ ~Exists(rs[MaxRows - 1]))
  PROVE  ~Exists(CreateOrRevisePredictions(rs, TRUE, k, p)[MaxRows])
<1> DEFINE st == PredictionsState(p)
           type == Predictions(k)
           qs == CreateOrRevisePredictions(rs, TRUE, k, p)
<1>1. st.action \in Actions /\ st.at \in Timer /\ MaxRows \in Ids
  BY PredictionsStateFact, BoundsAssumption DEF Ids
<1>2. CASE Has(rs, type, "contest")
  <2>1. /\ rs[MaxRows] \in Row /\ rs[MaxRows].type = "none" /\ type # "none"
    BY <1>1 DEF AllOK, Exists, Predictions
  <2>2. qs[MaxRows] = rs[MaxRows]
    BY <1>1, <1>2, <2>1 DEF CreateOrRevisePredictions
  <2> QED
    BY <2>2
<1>3. CASE ~Has(rs, type, "contest")
  <2>1. ~IsNextId(rs, MaxRows)
    BY <1>3 DEF IsNextId
  <2>2. qs[MaxRows] = rs[MaxRows]
    BY <1>1, <1>3, <2>1 DEF CreateOrRevisePredictions, Create, Inserted
  <2> QED
    BY <2>2
<1> QED
  BY <1>2, <1>3

(* transition_contest_publications_for_master_switch, for one kind *)
LEMMA RescheduledGrows ==
  ASSUME NEW rs, AllOK(rs), NEW k \in Kinds, NEW p \in Plan,
         NEW types, p.deadline > 0 => Predictions(k) \in types,
         NEW spared, "none" \notin spared, Predictions(k) \notin spared
  PROVE  /\ Grows(rs, Rescheduled(rs, k, p), types)
         /\ Spares(rs, Rescheduled(rs, k, p), spared)
<1> DEFINE qs == CreateOrRevisePredictions(rs, TRUE, k, p)
           few == {Predictions(k)}
<1>1. CASE Rescheduled(rs, k, p) = rs
  BY <1>1, GrowsSame, SparesSame
<1>2. CASE Rescheduled(rs, k, p) # rs
  <2>1. Rescheduled(rs, k, p) = qs /\ p.deadline > 0
    BY <1>2 DEF Rescheduled, PredictionsState
  <2>2. Grows(rs, qs, few) /\ Spares(rs, qs, spared)
    BY PredictionsGrow
  <2>3. few \subseteq types
    BY <2>1
  <2> HIDE DEF qs, few
  <2> QED
    BY <2>1, <2>2, <2>3, GrowsMore
<1> QED
  BY <1>1, <1>2

LEMMA RescheduledReveal ==
  ASSUME NEW rs, AllOK(rs), NEW k \in Kinds, NEW p \in Plan, p.on, p.deadline > 0,
         Has(rs, Predictions(k), "contest") \/ ~Exists(rs[MaxRows])
  PROVE  Reveal(Rescheduled(rs, k, p), k, p.deadline)
<1>1. p.deadline # Never
  BY DEF Never, Plan
<1>2. Rescheduled(rs, k, p) = CreateOrRevisePredictions(rs, TRUE, k, p)
  BY <1>1 DEF Rescheduled, PredictionsState
<1> QED
  BY <1>2, PredictionsReveal

LEMMA SwitchOffOrder ==
  ASSUME OrderInv, IInv', SaveMasterSwitch, ~enabled'
  PROVE  OrderInv' /\ Moved
<1>1. /\ contest = "open" /\ plan' = plan /\ worker' = worker
      /\ \A i \in Ids : rows'[i] = IF Exists(rows[i]) /\ rows[i].type # "leaderboard_snapshot"
                                   THEN SwitchedOff(rows[i]) ELSE rows[i]
  BY DEF SaveMasterSwitch, Command
<1>2. ASSUME NEW i \in Ids PROVE Carried(rows[i], rows'[i])
  <2>1. RowOK(rows[i])
    BY DEF OrderInv, IInv
  <2>2. Carried(rows[i], SwitchedOff(rows[i]))
    BY <2>1, SwitchedOffRow DEF Carried, RowOK, Row
  <2> QED
    BY <1>1, <2>1, <2>2, CarriedSame DEF RowOK
<1> DEFINE types == {}
<1>3. Grows(rows, rows', types) /\ MayAnnounce(types)
  BY <1>2 DEF Grows, Grown, MayAnnounce
<1>4. Scheduled'
  BY DEF Scheduled, ScheduledFor
<1>5. PlanOK(plan') /\ ("champion" \in Kinds /\ plan["champion"].result => plan'["champion"].result)
  BY <1>1 DEF OrderInv
<1> HIDE DEF types
<1> QED
  BY <1>1, <1>3, <1>4, <1>5, GrowsOrder

(* The switch goes on: what is still to be revealed is queued again. *)
LEMMA SwitchOnOrder ==
  ASSUME OrderInv, IInv', SaveMasterSwitch, enabled'
  PROVE  OrderInv' /\ Moved
<1> DEFINE mid == IF "champion" \in Kinds
                  THEN Rescheduled(rows, "champion", plan["champion"]) ELSE rows
           new == IF "swiss" \in Kinds
                  THEN Rescheduled(mid, "swiss", plan["swiss"]) ELSE mid
           types == {Predictions(k) : k \in {kk \in Kinds : plan[kk].deadline > 0}}
           missing == {k \in Kinds : ~Has(rows, Predictions(k), "contest")}
<1>1. /\ contest = "open" /\ contest' = contest /\ plan' = plan /\ worker' = worker
      /\ rows' = new
      /\ Cardinality(missing) <= MaxRows
      /\ \A i \in Ids : i > MaxRows - Cardinality(missing) => ~Exists(rows[i])
  BY TableOK DEF SaveMasterSwitch, Command, OrderInv
<1>2. AllOK(rows) /\ AllOK(rows') /\ \A k \in Kinds : plan[k] \in Plan
  BY TableOK, NextTableOK DEF OrderInv
<1>3. AllOK(mid)
  BY <1>2, RescheduledFollows DEF AllFollow
<1>4. ASSUME "champion" \in Kinds
      PROVE  /\ Predictions("champion") = "champion_predictions"
             /\ Grows(rows, mid, types)
             /\ Spares(rows, mid, {"swiss_predictions"})
  <2>1. Predictions("champion") = "champion_predictions"
    BY DEF Predictions
  <2>2. mid = Rescheduled(rows, "champion", plan["champion"])
    BY <1>4
  <2>3. plan["champion"].deadline > 0 => Predictions("champion") \in types
    BY <1>4
  <2>4. "none" \notin {"swiss_predictions"} /\ Predictions("champion") \notin {"swiss_predictions"}
    BY <2>1
  <2> HIDE DEF mid, types
  <2> QED
    BY <1>2, <1>4, <2>1, <2>2, <2>3, <2>4, RescheduledGrows
<1>5. Grows(rows, mid, types) /\ Spares(rows, mid, {"swiss_predictions"})
  <2>1. CASE "champion" \in Kinds
    BY <1>4, <2>1
  <2>2. CASE "champion" \notin Kinds
    BY <1>2, <2>2, GrowsSame, SparesSame
  <2> QED
    BY <2>1, <2>2
<1>6. Grows(mid, rows', types) /\ Spares(mid, rows', {"champion_predictions"})
  <2>1. CASE "swiss" \in Kinds
    <3>1. Predictions("swiss") = "swiss_predictions"
      BY DEF Predictions
    <3>2. rows' = Rescheduled(mid, "swiss", plan["swiss"])
      BY <1>1, <2>1
    <3>3. plan["swiss"].deadline > 0 => Predictions("swiss") \in types
      BY <2>1
    <3>4. /\ "none" \notin {"champion_predictions"}
          /\ Predictions("swiss") \notin {"champion_predictions"}
      BY <3>1
    <3> HIDE DEF mid, types
    <3> QED
      BY <1>2, <1>3, <2>1, <3>2, <3>3, <3>4, RescheduledGrows
  <2>2. CASE "swiss" \notin Kinds
    <3>1. rows' = mid
      BY <1>1, <2>2
    <3> HIDE DEF mid, types
    <3> QED
      BY <1>3, <3>1, GrowsSame, SparesSame
  <2> QED
    BY <2>1, <2>2
<1>7. Grows(rows, rows', types)
  <2> HIDE DEF mid, types
  <2> QED
    BY <1>2, <1>3, <1>5, <1>6, GrowsTransitive
<1>8. MayAnnounce(types)
  <2>1. \A type \in types : \E k \in Kinds : type = Predictions(k) /\ plan[k].deadline > 0
    OBVIOUS
  <2>2. types \subseteq Types
    BY <2>1, PredictionsType
  <2>3. \A type \in types : type \in {"champion_predictions", "swiss_predictions"}
    BY <2>1 DEF Predictions
  <2>4. ASSUME "champion_predictions" \in types PROVE ~plan["champion"].result
    <3>1. PICK k \in Kinds : "champion_predictions" = Predictions(k) /\ plan[k].deadline > 0
      BY <2>1, <2>4
    <3>2. k = "champion"
      BY <3>1 DEF Predictions
    <3> QED
      BY <3>1, <3>2 DEF OrderInv, PlanOK
  <2> HIDE DEF types
  <2> QED
    BY <2>2, <2>3, <2>4 DEF MayAnnounce, Finals
<1>9. MaxRows \in Ids /\ MaxRows \in Nat /\ IsFiniteSet(missing)
      /\ Cardinality(missing) \in Nat
  <2>1. IsFiniteSet({"champion", "swiss"})
    <3>1. IsFiniteSet({"champion"}) /\ {"champion", "swiss"} = {"champion"} \cup {"swiss"}
      BY FS_Singleton
    <3> QED
      BY <3>1, FS_AddElement
  <2>2. IsFiniteSet(missing)
    BY <2>1, FS_Subset, KindsAssumption
  <2> QED
    BY <2>2, BoundsAssumption, FS_CardinalityType DEF Ids
<1>10. ASSUME NEW k \in missing PROVE ~Exists(rows[MaxRows]) /\ Cardinality(missing) > 0
  <2>1. Cardinality(missing) > 0
    BY <1>9, FS_EmptySet
  <2> QED
    BY <1>1, <1>9, <2>1
<1>11. ASSUME "champion" \in Kinds PROVE ScheduledFor("champion")'
  <2> SUFFICES ASSUME plan["champion"].on, plan["champion"].deadline > 0
               PROVE  Reveal(rows', "champion", plan["champion"].deadline)
    BY <1>1 DEF ScheduledFor, Reveal
  <2>1. Has(rows, Predictions("champion"), "contest") \/ ~Exists(rows[MaxRows])
    BY <1>10, <1>11
  <2>2. Reveal(mid, "champion", plan["champion"].deadline)
    BY <1>2, <1>11, <2>1, RescheduledReveal
  <2>3. Predictions("champion") \in {"champion_predictions"}
    BY <1>4, <1>11
  <2> HIDE DEF mid
  <2> QED
    BY <1>6, <2>2, <2>3, SparedReveal
<1>12. ASSUME "swiss" \in Kinds PROVE ScheduledFor("swiss")'
  <2> SUFFICES ASSUME plan["swiss"].on, plan["swiss"].deadline > 0
               PROVE  Reveal(rows', "swiss", plan["swiss"].deadline)
    BY <1>1 DEF ScheduledFor, Reveal
  <2>1. Predictions("swiss") = "swiss_predictions"
    BY DEF Predictions
  <2>2. ASSUME Has(rows, "swiss_predictions", "contest")
        PROVE  Has(mid, "swiss_predictions", "contest")
    <3> HIDE DEF mid
    <3> QED
      BY <1>5, <2>2 DEF Spares, Has
  <2>3. ASSUME ~Has(rows, "swiss_predictions", "contest")
        PROVE  ~Exists(mid[MaxRows])
    <3>1. "swiss" \in missing
      BY <1>12, <2>1, <2>3
    <3>2. ~Exists(rows[MaxRows])
      BY <1>10, <3>1
    <3>3. CASE mid = rows
      <4> HIDE DEF mid
      <4> QED
        BY <3>2, <3>3
    <3>4. CASE mid # rows
      <4>1. /\ "champion" \in Kinds
            /\ mid = CreateOrRevisePredictions(rows, TRUE, "champion", plan["champion"])
        BY <3>4 DEF Rescheduled
      <4>2. ASSUME "champion" \in missing PROVE MaxRows > 1 /\ ~Exists(rows[MaxRows - 1])
        <5>1. missing = {"champion", "swiss"}
          <6>1. missing \subseteq {"champion", "swiss"}
            BY KindsAssumption
          <6> HIDE DEF missing
          <6> QED
            BY <3>1, <4>2, <6>1
        <5>2. Cardinality({"champion", "swiss"}) = 2
          <6>1. Cardinality({"champion"}) = 1 /\ IsFiniteSet({"champion"})
            BY FS_Singleton
          <6>2. "swiss" \notin {"champion"}
            OBVIOUS
          <6>3. Cardinality({"champion"} \cup {"swiss"}) = Cardinality({"champion"}) + 1
            BY <6>1, <6>2, FS_AddElement, Zenon
          <6>4. {"champion"} \cup {"swiss"} = {"champion", "swiss"}
            OBVIOUS
          <6>5. Cardinality({"champion", "swiss"}) = 1 + 1
            BY <6>1, <6>3, <6>4, Zenon
          <6> QED
            BY <6>5
        <5> HIDE DEF missing
        <5>3. Cardinality(missing) = 2
          BY <5>1, <5>2
        <5>4. MaxRows >= 2 /\ MaxRows - 1 \in Ids
          BY <1>1, <1>9, <5>3 DEF Ids
        <5> QED
          BY <1>1, <1>9, <5>3, <5>4
      <4>3. \/ Has(rows, Predictions("champion"), "contest")
            \/ MaxRows > 1 /\ ~Exists(rows[MaxRows - 1])
        BY <4>1, <4>2
      <4> HIDE DEF mid
      <4> QED
        BY <1>2, <3>2, <4>1, <4>3, RoomStays
    <3> QED
      BY <3>3, <3>4
  <2>4. Has(mid, Predictions("swiss"), "contest") \/ ~Exists(mid[MaxRows])
    BY <2>1, <2>2, <2>3
  <2>5. rows' = Rescheduled(mid, "swiss", plan["swiss"])
    BY <1>1, <1>12
  <2> HIDE DEF mid
  <2> QED
    BY <1>2, <1>3, <1>12, <2>4, <2>5, RescheduledReveal
<1>13. Scheduled'
  BY <1>11, <1>12, KindsAssumption DEF Scheduled
<1> HIDE DEF types
<1> QED
  BY <1>1, <1>7, <1>8, <1>13, GrowsOrder DEF OrderInv

-----------------------------------------------------------------------------
(* The order of the queue: the worker *)

(* A row that is claimed in its turn has only settled rows before it: the
   exception for announcements of the end never applies to an earlier row. *)
LEMMA TurnSettles ==
  ASSUME OrderInv, NEW i \in Ids, NEW a \in Ids, InTurn(i), a < i, Exists(rows[a])
  PROVE  rows[a].settled > 0
<1>1. ~Holds(a, i)
  BY DEF InTurn
<1>2. rows[a].desired > 0 /\ rows[a].desired \in Nat /\ rows[a].settled \in Nat
  BY DEF OrderInv, IInv, RowOK, Row
<1>3. CASE ~Unsettled(rows[a])
  BY <1>2, <1>3 DEF Unsettled
<1>4. CASE ~Allowed(rows[a])
  <2>1. Quiet(rows[a])
    BY <1>4 DEF Allowed, OrderInv, IInv
  <2> QED
    BY <1>2, <1>4, <2>1 DEF Quiet, Allowed
<1>5. CASE /\ rows[a].type \in Finals /\ rows[i].type \in Finals
           /\ Rank(rows[a].type) > Rank(rows[i].type)
  <2>1. Rank(rows[a].type) \in Nat /\ Rank(rows[i].type) \in Nat
    BY DEF Rank
  <2>2. i < a
    BY <1>5, <2>1 DEF OrderInv, Staged, Ranked
  <2> QED
    BY <2>2, IdsFact
<1> QED
  BY <1>1, <1>3, <1>4, <1>5 DEF Holds

LEMMA WorkerOrder ==
  ASSUME OrderInv, IInv', NEW w \in Workers, NEW i \in Ids, NEW q, NEW s, WorkerEffect(w, i, q, s)
  PROVE  OrderInv'
<1>1. \A j \in Ids : rows'[j] = IF j = i THEN q ELSE rows[j]
  BY DEF OrderInv, IInv, TypeOK, WorkerEffect
<1>2. \A v \in Workers : worker'[v] = IF v = w THEN s ELSE worker[v]
  BY DEF OrderInv, IInv, TypeOK, WorkerEffect
<1>3. /\ enabled' = enabled /\ contest' = contest /\ plan' = plan
      /\ Advances(w, i, q, s) /\ (s.pc # "idle" => s.id = i)
  BY DEF WorkerEffect
<1>4. ASSUME NEW j \in Ids
      PROVE  /\ rows[j] \in Row /\ rows'[j] \in Row
             /\ rows'[j].type = rows[j].type /\ rows'[j].entity = rows[j].entity
             /\ rows'[j].settled >= rows[j].settled /\ rows'[j].desired >= rows[j].desired
             /\ ~ReconcileDue(rows[j]) =>
                  /\ rows'[j].action = rows[j].action
                  /\ rows'[j].reconcile = rows[j].reconcile
                  /\ rows'[j].desired = rows[j].desired
             /\ Begun(rows'[j]) => Begun(rows[j]) \/ (j = i /\ InTurn(i))
  <2>1. rows[j] \in Row /\ rows'[j] \in Row
    BY DEF OrderInv, IInv, RowOK
  <2>2. CASE j = i
    BY <1>1, <1>3, <2>1, <2>2 DEF Advances
  <2>3. CASE j # i
    BY <1>1, <2>1, <2>3 DEF Row
  <2> QED
    BY <2>2, <2>3
<1>5. \A j \in Ids : /\ rows[j].settled \in Nat /\ rows'[j].settled \in Nat
                     /\ rows[j].desired \in Nat /\ rows'[j].desired \in Nat
  BY <1>4 DEF Row
<1>6. \A j \in Ids : rows'[j].desired > 0
  BY <1>4, <1>5 DEF OrderInv
<1>7. PlanOK(plan') /\ Staged(rows', plan', contest')
  BY <1>3, <1>4 DEF OrderInv, Staged, Ranked
<1>8. InOrder(rows')
  <2> SUFFICES ASSUME NEW a \in Ids, NEW b \in Ids, a < b, Exists(rows'[a]), Begun(rows'[b])
               PROVE  rows'[a].settled > 0
    BY DEF InOrder
  <2>1. Exists(rows[a])
    BY <1>4 DEF Exists
  <2>2. rows[a].settled > 0
    BY <1>4, <2>1, TurnSettles DEF OrderInv, InOrder
  <2> QED
    BY <1>4, <1>5, <2>2
<1>9. Closing(rows')
  <2> SUFFICES ASSUME NEW a \in Ids, NEW b \in Ids, rows'[b].type = "contest_completed",
                      Begun(rows'[b]), rows'[a].type \in Champions
               PROVE  AtRest(rows'[a])
    BY DEF Closing
  <2>1. rows[b].type = "contest_completed" /\ rows[a].type \in Champions /\ contest = "completed"
    BY <1>4 DEF OrderInv, Staged
  <2>2. AtRest(rows[a])
    <3>1. CASE Begun(rows[b])
      BY <2>1, <3>1 DEF OrderInv, Closing
    <3>2. CASE b = i /\ InTurn(i)
      BY <2>1, <3>2 DEF InTurn, Awaits, AtRest, Champions
    <3> QED
      BY <1>4, <3>1, <3>2
  <2>3. ~ReconcileDue(rows[a])
    BY <2>2 DEF AtRest, ReconcileDue, Never
  <2> QED
    BY <1>4, <1>5, <2>2, <2>3 DEF AtRest, Unsettled
<1>10. Scheduled'
  <2> SUFFICES ASSUME NEW k \in Kinds, contest = "open", enabled, plan[k].on, plan[k].deadline > 0
               PROVE  Reveal(rows', k, plan[k].deadline)
    BY <1>3 DEF Scheduled, ScheduledFor, Reveal
  <2>1. PICK j \in Ids : /\ rows[j].type = Predictions(k) /\ rows[j].entity = "contest"
                         /\ rows[j].action = "withdraw" /\ rows[j].reconcile = plan[k].deadline
    BY DEF OrderInv, Scheduled, ScheduledFor, Reveal
  <2>2. ~ReconcileDue(rows[j])
    BY <2>1 DEF ReconcileDue
  <2>3. /\ rows'[j].type = Predictions(k) /\ rows'[j].entity = "contest"
        /\ rows'[j].action = "withdraw" /\ rows'[j].reconcile = plan[k].deadline
    BY <1>4, <2>1, <2>2
  <2> QED
    BY <2>3 DEF Reveal
<1>11. Unrobbed'
  BY <1>1, <1>2, <1>3 DEF Unrobbed, OwnsClaim, Advances
<1> QED
  BY <1>6, <1>7, <1>8, <1>9, <1>10, <1>11 DEF OrderInv

LEMMA WorkerOnlyOrder ==
  ASSUME OrderInv, IInv', NEW w \in Workers, NEW s, WorkerOnly(w, s)
  PROVE  OrderInv'
<1>1. /\ enabled' = enabled /\ contest' = contest /\ plan' = plan /\ rows' = rows
      /\ s.pc # "idle" => worker[w].pc # "idle" /\ s.id = worker[w].id
  BY DEF WorkerOnly
<1>2. \A v \in Workers : worker'[v] = IF v = w THEN s ELSE worker[v]
  BY DEF OrderInv, IInv, TypeOK, WorkerOnly
<1>3. Scheduled'
  BY <1>1 DEF OrderInv, Scheduled, ScheduledFor
<1>4. Unrobbed'
  BY <1>1, <1>2 DEF OrderInv, Unrobbed, OwnsClaim
<1> QED
  BY <1>1, <1>3, <1>4 DEF OrderInv

-----------------------------------------------------------------------------
(* The order of the queue: the theorems *)

LEMMA CommandsOrder ==
  ASSUME OrderInv, ChampionNext \/ SwissNext \/ MatchNext \/ ContestNext
  PROVE  OrderInv' /\ Moved
<1>1. IInv'
  BY NextIInv DEF OrderInv, Next
<1>2. CASE ChampionNext
  BY <1>1, <1>2, ChampionSettingsOrder, ChampionPredictionOrder, ContestChampionOrder
     DEF ChampionNext
<1>3. CASE SwissNext
  BY <1>1, <1>3, SwissSettingsOrder, SwissPredictionOrder, SwissResultOrder DEF SwissNext
<1>4. CASE MatchNext
  BY <1>1, <1>4, CreateMatchOrder, MatchResultOrder, DeleteMatchOrder DEF MatchNext
<1>5. CASE ContestNext
  BY <1>1, <1>5, SwitchOffOrder, SwitchOnOrder, LeaderboardOrder, CompleteOrder,
     DeleteContestOrder DEF ContestNext
<1> QED
  BY <1>2, <1>3, <1>4, <1>5

LEMMA NextOrder == OrderInv /\ [Next]_vars => OrderInv'
<1> SUFFICES ASSUME OrderInv, [Next]_vars
             PROVE  OrderInv'
  OBVIOUS
<1>1. IInv /\ IInv'
  BY NextIInv DEF OrderInv
<1>2. CASE ChampionNext \/ SwissNext \/ MatchNext \/ ContestNext
  BY <1>2, CommandsOrder
<1>6. CASE Tick
  BY <1>1, <1>6, TickOrder
<1>7. ASSUME NEW w \in Workers, WorkerStep(w) \/ WorkerTrouble(w)
      PROVE  OrderInv'
  BY <1>1, <1>7, WorkersEffect, WorkerOrder, WorkerOnlyOrder
<1>8. CASE UNCHANGED vars
  <2>1. Scheduled' /\ Unrobbed'
    BY <1>8 DEF vars, OrderInv, Scheduled, ScheduledFor, Unrobbed, OwnsClaim
  <2> QED
    BY <1>1, <1>8, <2>1 DEF vars, OrderInv
<1> QED
  BY <1>2, <1>6, <1>7, <1>8 DEF Next

LEMMA Ordered == Spec => []OrderInv
BY InitOrder, NextOrder, PTL DEF Spec

(* The end of the contest is announced last: when anything was sent for it,
   everybody's choice of a champion and the champion itself are settled and
   no reveal of them is outstanding (claim_next_publication's second subquery). *)
THEOREM EndAnnouncedLast == Spec => []FinalOrder
BY Ordered, OrderInvImplies, PTL

(* A bot that runs as one process keeps its claim until it finishes, however
   late: only the deletion of the contest takes the row from it. *)
THEOREM LoneClaimKept == Spec => []LoneWorkerKeepsClaim
BY Ordered, OrderInvImplies, PTL

(* While the switch is on, each prediction that is still open has its reveal
   scheduled for exactly its deadline, through every command and every order
   of saving settings, turning the switch and delivering. *)
THEOREM RevealsAreScheduled == Spec => []RevealScheduled
BY Ordered, OrderInvImplies, PTL

(* Once something was sent for a row, each row before it has settled at least
   once (claim_next_publication's first subquery). *)
THEOREM HeardInOrder == Spec => []AnnouncedInOrder
BY Ordered, OrderInvImplies, PTL

=============================================================================
