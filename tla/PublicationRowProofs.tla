------------------------ MODULE PublicationRowProofs ------------------------
(***************************************************************************)
(* What each statement of app/publication_outbox.py makes of a row: the    *)
(* facts the proofs about the queue use instead of the definitions.        *)
(***************************************************************************)
EXTENDS PublicationRow, TLAPS

(* A literal of the code is a value of its column. *)
LEMMA Members ==
  /\ {"pending", "published", "withdrawn", "terminal_failed"} \subseteq Statuses
  /\ {"publish", "withdraw"} \subseteq Actions
  /\ {"none", "retired", "shown"} \subseteq Messages
  /\ Never \in Timer /\ Nat \subseteq Timer /\ Timer \subseteq Int
BY DEF Statuses, Actions, Messages, Timer, Never

-----------------------------------------------------------------------------
(* What each statement makes of a row *)

(* An insert yields a row that has never been delivered or claimed. *)
LEMMA RowOfRow ==
  ASSUME NEW type \in Types \cup {"none"}, NEW entity \in Entities,
         NEW action \in Actions, NEW at \in Timer
  PROVE  LET q == RowOf(type, entity, action, at)
         IN  /\ q \in Row /\ q.type = type /\ q.entity = entity /\ q.action = action
             /\ q.desired = 1 /\ q.settled = 0 /\ q.reconcile = at
             /\ q.claim = "none" /\ q.messages = "none"
BY Members DEF RowOf, Row

(* revise_existing_publication raises the desired revision and nothing else
   of what the delivery of an earlier revision wrote. *)
LEMMA RevisedRow ==
  ASSUME NEW r \in Row, NEW action \in Actions, NEW at \in Timer
  PROVE  LET q == Revised(r, action, at)
         IN  /\ q \in Row /\ q.type = r.type /\ q.entity = r.entity /\ q.action = action
             /\ q.desired = r.desired + 1 /\ q.settled = r.settled /\ q.reconcile = at
             /\ q.claim = r.claim /\ q.messages = r.messages
<1> DEFINE d == r.desired + 1
           q == [r EXCEPT !.desired = d, !.action = action, !.status = "pending",
                          !.reconcile = at, !.attempts = 0, !.next = 0]
<1>1. d \in Nat
  BY DEF Row
<1>2. /\ q \in Row /\ q.type = r.type /\ q.entity = r.entity /\ q.action = action
      /\ q.desired = d /\ q.settled = r.settled /\ q.reconcile = at
      /\ q.claim = r.claim /\ q.messages = r.messages
  <2> HIDE DEF d
  <2> QED
    BY <1>1, Members DEF Row
<1> QED
  BY <1>2 DEF Revised

(* Turning the switch off settles the row at a revision of its own. *)
LEMMA SwitchedOffRow ==
  ASSUME NEW r \in Row
  PROVE  LET q == SwitchedOff(r)
         IN  /\ q \in Row /\ q.type = r.type /\ q.entity = r.entity /\ q.action = r.action
             /\ q.desired = r.desired + 1 /\ q.settled = r.desired + 1
             /\ q.reconcile = Never /\ q.claim = r.claim /\ q.messages = r.messages
<1> DEFINE d == r.desired + 1
           s == IF r.messages = "shown" THEN "published" ELSE "withdrawn"
           q == [r EXCEPT !.desired = d, !.settled = d, !.status = s,
                          !.reconcile = Never, !.attempts = 0, !.next = Never]
<1>1. d \in Nat
  BY DEF Row
<1>2. s \in Statuses
  BY Members
<1>3. /\ q \in Row /\ q.type = r.type /\ q.entity = r.entity /\ q.action = r.action
      /\ q.desired = d /\ q.settled = d
      /\ q.reconcile = Never /\ q.claim = r.claim /\ q.messages = r.messages
  <2> HIDE DEF d, s
  <2> QED
    BY <1>1, <1>2, Members DEF Row
<1> QED
  BY <1>3 DEF SwitchedOff

(* The row of a deleted match keeps its claim and its messages. *)
LEMMA TombstonedRow ==
  ASSUME NEW r \in Row, NEW on \in BOOLEAN, "gone" \in Entities
  PROVE  LET q == Tombstoned(r, on)
         IN  /\ q \in Row /\ q.type = r.type /\ q.settled = r.settled
             /\ q.claim = r.claim /\ q.messages = r.messages
             /\ q.entity = "gone" /\ q.desired >= r.desired
             /\ on => q.desired > r.desired
             /\ ~on => q.desired = r.desired /\ q.reconcile = r.reconcile /\ q.action = r.action
<1>1. CASE on
  <2> DEFINE v == Revised(r, "withdraw", Never)
             q == [v EXCEPT !.entity = "gone"]
  <2>1. /\ v \in Row /\ v.type = r.type /\ v.settled = r.settled
        /\ v.claim = r.claim /\ v.messages = r.messages /\ v.desired = r.desired + 1
    BY RevisedRow, Members
  <2>3. /\ q \in Row /\ q.type = v.type /\ q.settled = v.settled /\ q.entity = "gone"
        /\ q.claim = v.claim /\ q.messages = v.messages /\ q.desired = v.desired
    <3> HIDE DEF v
    <3> QED
      BY <2>1 DEF Row
  <2>4. v.desired >= r.desired /\ v.desired > r.desired
    BY <2>1 DEF Row
  <2>5. Tombstoned(r, on) = q
    BY <1>1 DEF Tombstoned
  <2> QED
    BY <1>1, <2>1, <2>3, <2>4, <2>5
<1>2. CASE ~on
  BY <1>2 DEF Tombstoned, Row
<1> QED
  BY <1>1, <1>2

(* A claim writes the token and the lease only. *)
LEMMA ClaimKeepsRow ==
  ASSUME NEW r \in Row, NEW w \in Workers
  PROVE  LET q == Claimed(r, w)
         IN  /\ q \in Row /\ q.type = r.type /\ q.entity = r.entity
             /\ q.action = r.action /\ q.desired = r.desired /\ q.settled = r.settled
             /\ q.reconcile = r.reconcile /\ q.claim = w /\ q.messages = r.messages
BY LeaseAssumption, Members DEF Claimed, Row

(* What a finish, successful or not, leaves of a row whose delivery was of
   revision rev: only that revision may become settled. *)
Finished(r, q, rev) ==
  /\ q \in Row /\ q.type = r.type /\ q.entity = r.entity
  /\ q.action = r.action /\ q.desired = r.desired
  /\ q.reconcile = r.reconcile /\ q.claim = "none" /\ q.messages = r.messages
  /\ q.settled \in {r.settled, rev} /\ q.settled >= r.settled

(* The columns a finish writes. *)
WithFinish(r, s, status, attempts, next) ==
  [Released(r) EXCEPT !.settled = s, !.status = status, !.attempts = attempts, !.next = next]

(* Whatever a finish writes, with the settled revision not lowered. *)
LEMMA FinishedRow ==
  ASSUME NEW r \in Row, NEW rev \in Nat, NEW s \in Nat, NEW status \in Statuses,
         NEW attempts \in Nat, NEW next \in Timer,
         s \in {r.settled, rev}, s >= r.settled
  PROVE  Finished(r, WithFinish(r, s, status, attempts, next), rev)
BY Members DEF WithFinish, Finished, Released, Row

(* The larger of two naturals. *)
LEMMA LargerFact ==
  ASSUME NEW m \in Nat, NEW n \in Nat
  PROVE  Larger(m, n) \in Nat /\ Larger(m, n) \in {m, n} /\ Larger(m, n) >= m
BY DEF Larger

(* Clearing the claim leaves the delivery's own fields alone. *)
LEMMA ReleasedRow ==
  ASSUME NEW r \in Row
  PROVE  /\ Released(r).attempts = r.attempts /\ Released(r).next = r.next
         /\ Released(r).settled = r.settled /\ Released(r).status = r.status
         /\ Released(r) \in Row
BY Members DEF Released, Row

(* finish_publication_success settles the delivered revision or none. *)
LEMMA FinishSuccessRow ==
  ASSUME NEW r \in Row, NEW rev \in Nat, NEW status \in Statuses
  PROVE  Finished(r, FinishSuccess(r, rev, status), rev)
<1> DEFINE s == Larger(r.settled, rev)
           st == IF r.desired > s THEN "pending"
                 ELSE IF r.settled > rev THEN r.status ELSE status
           a == IF r.desired > rev THEN r.attempts ELSE 0
           n == IF r.desired > rev THEN r.next ELSE Never
<1>1. r.settled \in Nat /\ r.attempts \in Nat /\ r.next \in Timer /\ r.status \in Statuses
  BY DEF Row
<1>2. s \in Nat /\ s \in {r.settled, rev} /\ s >= r.settled
  BY <1>1, LargerFact
<1>3. st \in Statuses /\ a \in Nat /\ n \in Timer
  BY <1>1, Members
<1>4. FinishSuccess(r, rev, status)
        = WithFinish(r, s, st, a, n)
  BY ReleasedRow DEF FinishSuccess, WithFinish
<1> HIDE DEF s, st, a, n
<1> QED
  BY <1>2, <1>3, <1>4, FinishedRow

(* finish_publication_failure settles the revision given up on or none. *)
LEMMA FinishFailureRow ==
  ASSUME NEW r \in Row, NEW rev \in Nat, NEW permanent \in BOOLEAN, NEW wait \in Nat
  PROVE  Finished(r, FinishFailure(r, rev, permanent, wait), rev)
<1> DEFINE terminal == permanent \/ r.attempts + 1 >= MaxAttempts
           a == r.attempts + 1
<1>1. /\ r.settled \in Nat /\ r.attempts \in Nat /\ r.next \in Timer /\ r.status \in Statuses
      /\ wait \in Timer /\ a \in Nat
  BY Members DEF Row
<1>2. CASE r.desired > rev
  <2>1. FinishFailure(r, rev, permanent, wait)
          = WithFinish(r, r.settled, "pending", r.attempts, r.next)
    BY <1>2 DEF FinishFailure, WithFinish, Released, Row
  <2>2. r.settled >= r.settled
    BY <1>1
  <2> QED
    BY <1>1, <2>1, <2>2, Members, FinishedRow
<1>3. CASE ~(r.desired > rev) /\ terminal
  <2> DEFINE s == Larger(r.settled, rev)
  <2>1. FinishFailure(r, rev, permanent, wait)
          = WithFinish(r, s, "terminal_failed", a, Never)
    BY <1>3, ReleasedRow DEF FinishFailure, WithFinish
  <2>2. s \in Nat /\ s \in {r.settled, rev} /\ s >= r.settled
    BY <1>1, LargerFact
  <2> HIDE DEF s, a
  <2> QED
    BY <1>1, <2>1, <2>2, Members, FinishedRow
<1>4. CASE ~(r.desired > rev) /\ ~terminal
  <2>1. FinishFailure(r, rev, permanent, wait)
          = WithFinish(r, r.settled, "pending", a, wait)
    BY <1>4, ReleasedRow DEF FinishFailure, WithFinish, Released, Row
  <2>2. r.settled >= r.settled
    BY <1>1
  <2> HIDE DEF a
  <2> QED
    BY <1>1, <2>1, <2>2, Members, FinishedRow
<1> QED
  BY <1>2, <1>3, <1>4

(* A clock tick moves instants only; one that has passed, or is not set,
   stays as it is. *)
LEMMA SoonerFact ==
  ASSUME NEW t \in Timer
  PROVE  Sooner(t) \in Timer /\ (t = 0 => Sooner(t) = 0) /\ (t = Never => Sooner(t) = Never)
BY DEF Sooner, Timer, Never

(* A tick changes nothing but the instants of the row. *)
LEMMA TickedRow ==
  ASSUME NEW r \in Row
  PROVE  LET q == Ticked(r)
         IN  /\ q \in Row /\ q.type = r.type /\ q.entity = r.entity
             /\ q.action = r.action /\ q.desired = r.desired /\ q.settled = r.settled
             /\ q.claim = r.claim /\ q.messages = r.messages
             /\ r.reconcile = Never => q.reconcile = Never
<1>1. r.reconcile \in Timer /\ r.next \in Timer /\ r.lease \in Timer
  BY DEF Row
<1> QED
  BY <1>1, SoonerFact DEF Ticked, Row

=============================================================================
