-------------------------- MODULE LeagueSyncProofs --------------------------
(* What the synchronization of the Champions League writes down, for any
   number of pairs, positions, ties, applications and any bounds. *)
EXTENDS LeagueSync, FiniteSetTheorems, WellFoundedInduction, TLAPS

LEMMA Bounds ==
  /\ Pairs \subseteq Nat \ {0} /\ Positions \subseteq Nat \ {0} /\ TieIds \subseteq Nat \ {0}
  /\ Starting \subseteq Nat \ {0}
  /\ \A dates \in Schedules : dates \in Starting \X Starting
  /\ MaxInstant \in Nat /\ MaxReports \in Nat /\ Worker \in Syncs
  /\ Syncs \cap {"none", "lost", "expired"} = {}
<1>1. /\ Pairs \subseteq Nat \ {0} /\ Positions \subseteq Nat \ {0} /\ TieIds \subseteq Nat \ {0}
      /\ MaxInstant \in Nat /\ MaxReports \in Nat /\ Worker \in Syncs
      /\ Syncs \cap {"none", "lost", "expired"} = {}
  BY LeagueAssumption, SyncAssumption
<1>2. \A dates \in Schedules : /\ dates = <<dates[1], dates[2]>>
                               /\ dates[1] \in Nat \ {0} /\ dates[2] \in Nat \ {0}
  BY LeagueAssumption
<1>3. \A dates \in Schedules : dates[1] \in Starting /\ dates[2] \in Starting
  BY DEF Starting, Legs
<1>4. Starting \subseteq Nat \ {0}
  BY <1>2 DEF Starting, Legs
<1> QED
  BY <1>1, <1>2, <1>3, <1>4

(* A pair is a function on the two legs, and a change of one leg keeps the other. *)
LEMMA LegPair ==
  ASSUME NEW S, NEW a \in S, NEW b \in S
  PROVE  <<a, b>> \in [Legs -> S]
BY DEF Legs

LEMMA LegPairOf ==
  ASSUME NEW S, NEW f \in [Legs -> S]
  PROVE  f[1] \in S /\ f[2] \in S
BY DEF Legs

LEMMA ChangedPair ==
  ASSUME NEW S, NEW f \in S \X S, NEW n \in Legs, NEW a \in S
  PROVE  [f EXCEPT ![n] = a] \in S \X S
BY DEF Legs

(* A set of numbers that is not empty has a least one. *)
LEMMA LeastOf ==
  ASSUME NEW S \in SUBSET Nat, S # {}
  PROVE  \E x \in S : \A y \in S : x =< y
<1>1. PICK x \in S : \A y \in S : ~(<<y, x>> \in OpToRel(<, Nat))
  BY NatLessThanWellFounded, WFMin
<1>2. \A y \in S : ~(y < x)
  BY <1>1 DEF OpToRel
<1> QED
  BY <1>2

(* Among pairs that have a start, one is the earliest, and the least among
   those. *)
LEMMA EarliestOf ==
  ASSUME NEW S \in SUBSET Nat, S # {}, NEW start, \A p \in S : start[p] \in Nat
  PROVE  \E p \in S : \A q \in S : start[p] < start[q] \/ (start[p] = start[q] /\ p =< q)
<1> DEFINE starts == {start[p] : p \in S}
<1>1. starts \subseteq Nat /\ starts # {}
  OBVIOUS
<1>2. PICK x \in starts : \A y \in starts : x =< y
  <2> HIDE DEF starts
  <2> QED
    BY <1>1, LeastOf
<1> DEFINE first == {q \in S : start[q] = x}
<1>3. first \subseteq Nat /\ first # {}
  OBVIOUS
<1>4. PICK p \in first : \A q \in first : p =< q
  <2> HIDE DEF first
  <2> QED
    BY <1>3, LeastOf
<1>5. p \in S /\ start[p] = x
  OBVIOUS
<1>6. ASSUME NEW q \in S PROVE start[p] < start[q] \/ (start[p] = start[q] /\ p =< q)
  <2>1. x =< start[q] /\ x \in Nat /\ start[q] \in Nat
    BY <1>1, <1>2
  <2>2. CASE start[q] = x
    BY <1>4, <1>5, <2>2
  <2>3. CASE start[q] # x
    BY <1>5, <2>1, <2>3
  <2> QED
    BY <2>2, <2>3
<1> QED
  BY <1>5, <1>6

-----------------------------------------------------------------------------
(* What an application keeps between its transactions *)

FixturePair == {f \in [Legs -> Fixture] : Starts(f) \in Dates}
Lefts == {<<>>, <<1>>, <<2>>, <<1, 2>>, <<2, 1>>}
WithTie == {"bind", "link", "legs", "import", "result", "mirror"}
WithPair == {"see", "node", "claim", "tie", "flag"} \cup WithTie
Local ==
  [pc : {"idle", "read", "choose"} \cup WithPair, current : BOOLEAN,
   snap : [Pairs -> FixturePair], known : [Pairs -> [Legs -> Import]],
   todo : SUBSET Pairs, used : SUBSET (Positions \cup {0}),
   pair : Pairs \cup {0}, pos : Positions \cup {0}, now : Instants, bound : TieIds \cup {0},
   seen : [Legs -> Import], tie : TieIds \cup {0}, was : Tie, movable : [Legs -> BOOLEAN],
   left : Lefts, conflict : BOOLEAN]

(* What it needs to go on from where it is *)
Ready(state) ==
  /\ state.pc = "choose" => state.todo # {}
  /\ state.pc \in WithPair => state.pair \in Pairs /\ state.pos \in Positions
  /\ state.pc \in WithTie => state.tie \in TieIds
  /\ state.pc = "legs" => state.left # <<>>
  /\ state.pc = "import" => state.left \in {<<1, 2>>, <<2>>}

SyncOK == sync \in [Syncs -> Local] /\ \A s \in Syncs : Ready(sync[s])
RowsOK ==
  /\ nodes \in [Positions -> Node]
  /\ ties \in [TieIds -> Tie]
  /\ imports \in [Pairs -> [Legs -> Import]]
  /\ links \in [Pairs -> Link]
WorldOK ==
  /\ clock \in Instants /\ enabled \in BOOLEAN /\ reports \in 0..MaxReports
  /\ provider \in [Pairs -> FixturePair]
FreshOK == DOMAIN fresh = Syncs
TypesOK == WorldOK /\ RowsOK /\ SyncOK /\ FreshOK

LEMMA UnknownType == <<Unknown, Unknown>> \in FixturePair
<1>1. Unknown \in Fixture
  BY Bounds DEF Unknown, Fixture
<1>2. <<Unknown, Unknown>> \in [Legs -> Fixture]
  BY <1>1, LegPair
<1>3. Starts(<<Unknown, Unknown>>) = NoDates
  BY DEF Starts, Unknown, NoDates
<1> QED
  BY <1>2, <1>3 DEF FixturePair, Dates

LEMMA NoRowTypes ==
  /\ NoTie \in Tie /\ NoImport \in Import /\ NoLink \in Link /\ EmptyNode \in Node
  /\ <<NoImport, NoImport>> \in [Legs -> Import]
<1>1. NoImport \in Import
  BY Bounds DEF NoImport, Import
<1>2. <<NoScore, NoScore>> \in [Legs -> Scores \cup {NoScore}]
  BY LegPair
<1>3. NoTie \in Tie
  BY <1>2 DEF NoTie, Tie, Dates, Undecided
<1>4. NoLink \in Link /\ EmptyNode \in Node
  BY DEF NoLink, Link, EmptyNode, Node, NodeStatuses, Dates
<1> QED
  BY <1>1, <1>3, <1>4, LegPair

LEMMA IdleType == Idle \in Local /\ Ready(Idle)
<1>1. <<FALSE, FALSE>> \in [Legs -> BOOLEAN]
  BY LegPair
<1>2. 0 \in Instants
  BY Bounds DEF Instants
<1> QED
  BY <1>1, <1>2, UnknownType, NoRowTypes DEF Idle, Local, Ready, Lefts, WithPair, WithTie

(* Moving on to the next tie, or out. *)
LEMMA OnwardType ==
  ASSUME NEW state \in Local
  PROVE  Onward(state) \in Local /\ Ready(Onward(state))
<1>1. CASE state.todo = {}
  BY <1>1, IdleType DEF Onward
<1>2. CASE state.todo # {}
  BY <1>2 DEF Onward, Local, Ready, WithPair, WithTie
<1> QED
  BY <1>1, <1>2

LEMMA DoneType ==
  ASSUME NEW state \in Local, state.pair \in Pairs
  PROVE  Done(state) \in Local /\ Ready(Done(state))
<1> DEFINE snap == [state.snap EXCEPT ![state.pair] = Idle.snap[state.pair]]
           next == [Idle EXCEPT !.current = state.current, !.used = state.used,
                                !.todo = state.todo \ {state.pair}, !.snap = snap,
                                !.known = state.known]
<1>1. Idle.snap[state.pair] \in FixturePair
  BY UnknownType DEF Idle
<1>2. snap \in [Pairs -> FixturePair]
  BY <1>1 DEF Local
<1>3. next \in Local
  <2> HIDE DEF snap
  <2> QED
    BY <1>2, IdleType DEF Local
<1>4. Done(state) = Onward(next)
  BY DEF Done
<1> HIDE DEF next
<1> QED
  BY <1>3, <1>4, OnwardType

(* An application moves on; the others do not notice. *)
LEMMA GoesType ==
  ASSUME SyncOK, NEW s \in Syncs, NEW state \in Local, Ready(state), Goes(s, state)
  PROVE  SyncOK'
BY DEF Goes, SyncOK

LEMMA AbandonedType ==
  ASSUME RowsOK, NEW s \in Syncs
  PROVE  Abandoned(s) \in [Pairs -> Link]
BY DEF Abandoned, RowsOK, Link

LEMMA LeaveType ==
  ASSUME TypesOK, NEW s \in Syncs, Leave(s)
  PROVE  TypesOK'
<1>1. SyncOK'
  BY IdleType, GoesType DEF Leave, TypesOK
<1>2. links' \in [Pairs -> Link]
  BY AbandonedType DEF Leave, TypesOK
<1> QED
  BY <1>1, <1>2 DEF Leave, TypesOK, WorldOK, RowsOK, FreshOK, world

-----------------------------------------------------------------------------
(* Each transaction leaves a row of the table's shape. *)

LEMMA ImportTypes ==
  ASSUME NEW row \in Import
  PROVE  /\ Conflicting(row) \in Import
         /\ \A pos \in Positions, f \in Fixture : Seen(row, pos, f) \in Import
         /\ \A id \in TieIds : Imported(row, id) \in Import
         /\ \A id, pos : ImportAfterDelete(row, id, pos) \in Import
BY DEF Conflicting, Tombstoned, Seen, Imported, ImportAfterDelete, Import, Fixture

LEMMA NodeTypes ==
  ASSUME NEW node \in Node
  PROVE  /\ \A pair \in Pairs, start \in Dates : Configured(node, pair, start) \in Node
         /\ \A id \in TieIds : Materialized(node, id) \in Node
         /\ \A id, here : NodeAfterDelete(node, id, here) \in Node
BY DEF Configured, Materialized, NodeAfterDelete, Node, NodeStatuses

LEMMA LinkTypes ==
  ASSUME NEW link \in Link
  PROVE  /\ \A pos \in Positions, s \in Syncs : Claimed(link, pos, s) \in Link
         /\ \A id \in TieIds : Linked(link, id) \in Link
         /\ \A id, pos : LinkAfterDelete(link, id, pos) \in Link
         /\ [link EXCEPT !.claim = "expired"] \in Link
BY DEF Claimed, Linked, LinkAfterDelete, Link

Results ==
  [winner : {"none", "first", "second"},
   method : {"none", "aggregate", "extra_time", "penalties"},
   extra : {d[1] : d \in Decisions} \cup {NoScore},
   shootout : {d[2] : d \in Decisions} \cup {NoScore}]

LEMMA ResolutionType ==
  ASSUME NEW leg1, NEW leg2, NEW extra \in {d[1] : d \in Decisions} \cup {NoScore},
         NEW shootout \in {d[2] : d \in Decisions} \cup {NoScore},
         Resolves(leg1, leg2, extra, shootout)
  PROVE  Resolution(leg1, leg2, extra, shootout) \in Results
BY DEF Resolution, Resolves, ByAggregate, ByExtraTime, ByPenalties, Ahead, Results

LEMMA ReconciledType ==
  ASSUME NEW leg1, NEW leg2, NEW was \in Results
  PROVE  Reconciled(leg1, leg2, was) \in Results
<1>1. Undecided \in Results
  BY DEF Undecided, Results
<1>2. was.extra \in {d[1] : d \in Decisions} \cup {NoScore}
      /\ was.shootout \in {d[2] : d \in Decisions} \cup {NoScore}
  BY DEF Results
<1>3. ASSUME ~Level(leg1, leg2) PROVE Resolution(leg1, leg2, NoScore, NoScore) \in Results
  <2>1. Resolves(leg1, leg2, NoScore, NoScore)
    BY <1>3 DEF Resolves, ByAggregate
  <2> QED
    BY <2>1, ResolutionType
<1>4. ASSUME Resolves(leg1, leg2, was.extra, was.shootout)
      PROVE  Resolution(leg1, leg2, was.extra, was.shootout) \in Results
  BY <1>2, <1>4, ResolutionType
<1> QED
  BY <1>1, <1>3, <1>4 DEF Reconciled

LEMMA TieTypes ==
  ASSUME NEW tie \in Tie, NEW n \in Legs
  PROVE  /\ \A start \in Starting : tie.start[n] # 0 => Rescheduled(tie, n, start) \in Tie
         /\ \A score \in Scores \cup {NoScore} : Scored(tie, n, score) \in Tie
         /\ \A result \in Results : [tie EXCEPT !.result = result] \in Tie
<1>1. ASSUME NEW start \in Starting, tie.start[n] # 0 PROVE Rescheduled(tie, n, start) \in Tie
  <2>1. tie.start \in Starting \X Starting
    BY <1>1 DEF Tie, Dates, NoDates, Legs
  <2>2. [tie.start EXCEPT ![n] = start] \in Starting \X Starting
    BY <2>1, ChangedPair
  <2>3. [tie.start EXCEPT ![n] = start] \in Dates
    BY <2>2 DEF Dates
  <2>4. Rescheduled(tie, n, start) = [tie EXCEPT !.start = [tie.start EXCEPT ![n] = start]]
    BY DEF Rescheduled, Tie
  <2> QED
    BY <2>3, <2>4 DEF Tie
<1>2. ASSUME NEW score \in Scores \cup {NoScore} PROVE Scored(tie, n, score) \in Tie
  <2> DEFINE scores == [tie.score EXCEPT ![n] = score]
             result == Reconciled(scores[1], scores[2], tie.result)
  <2>1. scores \in [Legs -> Scores \cup {NoScore}]
    BY DEF Tie
  <2>2. result \in Results
    BY ReconciledType DEF Tie, Results
  <2>3. Scored(tie, n, score) = [tie EXCEPT !.score = scores, !.result = result]
    BY DEF Scored, Tie
  <2> HIDE DEF scores, result
  <2> QED
    BY <2>1, <2>2, <2>3 DEF Tie, Results
<1>3. \A result \in Results : [tie EXCEPT !.result = result] \in Tie
  BY DEF Tie, Results
<1> QED
  BY <1>1, <1>2, <1>3

LEMMA NewTieType ==
  ASSUME NEW p \in Pairs, NEW pos \in Positions, NEW dates \in Dates
  PROVE  [NoTie EXCEPT !.state = "live", !.pair = p, !.pos = pos, !.start = dates] \in Tie
BY NoRowTypes DEF Tie

(* The position of a tie is one of the round's, if it has one. *)
LEMMA LeastIsIn ==
  ASSUME NEW S \in SUBSET Positions, S # {}
  PROVE  (CHOOSE x \in S : \A y \in S : x =< y) \in S
<1>1. S \subseteq Nat
  BY Bounds
<1>2. \E x \in S : \A y \in S : x =< y
  BY <1>1, LeastOf
<1> QED
  BY <1>2

LEMMA PositionType ==
  ASSUME NEW s \in Syncs, sync[s] \in Local, NEW p \in Pairs
  PROVE  Position(s, p) \in Positions \cup {0}
<1> DEFINE known == {sync[s].known[p][n].pos : n \in Legs} \ {0}
           same == {pos \in Positions : nodes[pos].pair = p}
           unused == Positions \ sync[s].used
           least(set) == CHOOSE x \in set : \A y \in set : x =< y
<1>1. known \subseteq Positions
  BY DEF Local, Import
<1>2. same \subseteq Positions /\ unused \subseteq Positions
  OBVIOUS
<1>3. Cardinality({}) = 0
  BY FS_EmptySet
<1>4. /\ known # {} => least(known) \in Positions
      /\ same # {} => least(same) \in Positions
      /\ unused # {} => least(unused) \in Positions
  <2> HIDE DEF known, same, unused
  <2> QED
    BY <1>1, <1>2, LeastIsIn
<1>5. Position(s, p) = CASE Cardinality(known) > 1 -> 0
        [] Cardinality(known) = 1 -> least(known)
        [] known = {} /\ Cardinality(same) = 1 -> least(same)
        [] known = {} /\ Cardinality(same) # 1 ->
             IF same = {} /\ unused # {} THEN least(unused) ELSE 0
  BY DEF Position
<1>6. /\ Cardinality(known) = 1 => known # {}
      /\ Cardinality(same) = 1 => same # {}
  BY <1>3
<1>7. known # {} => Cardinality(known) \in Nat /\ Cardinality(known) > 0
  <2>1. known \subseteq {sync[s].known[p][1].pos} \cup {sync[s].known[p][2].pos}
    BY DEF Legs
  <2>2. IsFiniteSet({sync[s].known[p][1].pos} \cup {sync[s].known[p][2].pos})
    BY FS_Singleton, FS_Union
  <2>3. IsFiniteSet(known)
    BY <2>1, <2>2, FS_Subset
  <2> HIDE DEF known
  <2> QED
    BY <2>3, FS_EmptySet, FS_CardinalityType
<1> HIDE DEF known, same, unused
<1> QED
  BY <1>4, <1>5, <1>6, <1>7

(* The next tie is one of those that are left. *)
LEMMA EarliestType ==
  ASSUME NEW s \in Syncs, sync[s] \in Local, sync[s].todo # {}
  PROVE  Earliest(s) \in sync[s].todo /\ Earliest(s) \in Pairs
<1> DEFINE todo == sync[s].todo
           start == [p \in Pairs |-> sync[s].snap[p][1].start]
<1>1. todo \subseteq Pairs /\ todo \in SUBSET Nat /\ todo # {}
  BY Bounds DEF Local
<1>2. ASSUME NEW p \in Pairs PROVE sync[s].snap[p][1].start \in Nat
  <2>1. sync[s].snap[p] \in [Legs -> Fixture]
    BY DEF Local, FixturePair
  <2>2. sync[s].snap[p][1] \in Fixture
    BY <2>1, LegPairOf
  <2>3. Starting \cup {0} \subseteq Nat
    BY Bounds
  <2> QED
    BY <2>2, <2>3 DEF Fixture
<1>3. \A p \in todo : start[p] \in Nat
  BY <1>1, <1>2
<1>4. \E p \in todo : \A q \in todo : start[p] < start[q] \/ (start[p] = start[q] /\ p =< q)
  <2> HIDE DEF todo, start
  <2> QED
    BY <1>1, <1>3, EarliestOf
<1>5. Earliest(s) = CHOOSE p \in todo : \A q \in todo : start[p] < start[q] \/ (start[p] = start[q] /\ p =< q)
  BY <1>1 DEF Earliest
<1>6. Earliest(s) \in todo
  <2> HIDE DEF todo, start
  <2> QED
    BY <1>4, <1>5
<1> QED
  BY <1>1, <1>6

LEMMA ChosenType ==
  ASSUME TypesOK, NEW s \in Syncs, At(s, "choose")
  PROVE  /\ Chosen(s) \in Local
         /\ Chosen(s).pair = Earliest(s) /\ Chosen(s).pair \in Pairs
         /\ Chosen(s).pos = Position(s, Earliest(s))
         /\ Chosen(s).pc = "see"
         /\ Chosen(s).pos # 0 => Ready(Chosen(s))
<1> DEFINE p == Earliest(s)
           pos == Position(s, p)
           known == [sync[s].known EXCEPT ![p] = Idle.known[p]]
           used == sync[s].used \cup ({pos} \ {0})
<1>1. sync[s] \in Local /\ sync[s].todo # {}
  BY DEF TypesOK, SyncOK, Ready, At
<1>2. p \in Pairs /\ pos \in Positions \cup {0}
  BY <1>1, EarliestType, PositionType
<1>3. known \in [Pairs -> [Legs -> Import]]
  BY <1>1, <1>2, NoRowTypes DEF Idle, Local
<1>4. used \subseteq Positions \cup {0}
  BY <1>1, <1>2 DEF Local
<1>5. clock \in Instants
  BY DEF TypesOK, WorldOK
<1>6. Chosen(s) = [sync[s] EXCEPT !.pair = p, !.pos = pos, !.now = clock, !.pc = "see",
                                  !.used = used, !.known = known]
  BY <1>1 DEF Chosen, Local
<1> HIDE DEF p, pos, known, used
<1>7. /\ Chosen(s) \in Local
      /\ Chosen(s).pair = p /\ Chosen(s).pos = pos /\ Chosen(s).pc = "see"
  BY <1>1, <1>2, <1>3, <1>4, <1>5, <1>6 DEF Local, WithPair
<1>8. pos # 0 => Ready(Chosen(s))
  BY <1>2, <1>7 DEF Ready, WithTie
<1> QED
  BY <1>2, <1>7, <1>8 DEF p, pos

-----------------------------------------------------------------------------
(* The steps of an application *)

LEMMA AtType ==
  ASSUME TypesOK, NEW s \in Syncs
  PROVE  sync[s] \in Local /\ Ready(sync[s])
BY DEF TypesOK, SyncOK

LEMMA FreshType ==
  ASSUME FreshOK
  PROVE  /\ \A set : Outdates(set) => FreshOK'
         /\ \A s, set : Forgets(s, set) => FreshOK'
         /\ \A s, set, kept : OutdatesFor(s, set, kept) => FreshOK'
BY DEF FreshOK, Outdates, Forgets, OutdatesFor

LEMMA WorldKept ==
  ASSUME WorldOK, UNCHANGED world
  PROVE  WorldOK'
BY DEF WorldOK, world

(* A step that changes no table and no world, and moves on. *)
LEMMA RowsKept ==
  ASSUME RowsOK, UNCHANGED rows
  PROVE  RowsOK'
BY DEF RowsOK, rows

LEMMA PcType ==
  ASSUME NEW state \in Local, Ready(state), state.pc \in WithPair,
         NEW pc \in WithPair, pc \in WithTie => state.tie \in TieIds,
         pc \notin {"legs", "import"}
  PROVE  [state EXCEPT !.pc = pc] \in Local /\ Ready([state EXCEPT !.pc = pc])
BY DEF Local, Ready, WithPair, WithTie

LEMMA FetchType ==
  ASSUME TypesOK, NEW s \in Syncs, Fetch(s)
  PROVE  TypesOK'
<1> DEFINE state == [Idle EXCEPT !.pc = "read", !.current = TRUE, !.snap = provider]
<1>1. state \in Local
  BY IdleType DEF TypesOK, WorldOK, Local
<1>2. Ready(state)
  BY <1>1 DEF Ready, Local, Idle, WithPair, WithTie
<1>3. SyncOK'
  <2> HIDE DEF state
  <2>1. Goes(s, state)
    BY DEF Fetch, state
  <2> QED
    BY <1>1, <1>2, <2>1, GoesType DEF TypesOK
<1> QED
  BY <1>3, WorldKept, RowsKept DEF Fetch, TypesOK, FreshOK

LEMMA ReadType ==
  ASSUME TypesOK, NEW s \in Syncs, Read(s)
  PROVE  TypesOK'
<1>1. PICK missing : missing = Missing(sync[s].snap)
  OBVIOUS
<1>2. PICK flagged : flagged = [p \in Pairs |-> [n \in Legs |->
        IF <<p, n>> \in missing THEN Conflicting(imports[p][n]) ELSE imports[p][n]]]
  OBVIOUS
<1>3. flagged \in [Pairs -> [Legs -> Import]]
  <2>1. ASSUME NEW p \in Pairs, NEW n \in Legs
        PROVE  (IF <<p, n>> \in missing THEN Conflicting(imports[p][n]) ELSE imports[p][n]) \in Import
    <3>1. imports[p][n] \in Import
      BY DEF TypesOK, RowsOK
    <3> QED
      BY <3>1, ImportTypes
  <2> QED
    BY <1>2, <2>1
<1>4. PICK state : state = [sync[s] EXCEPT !.known = flagged, !.used = UsedPositions,
                                           !.todo = Reported(sync[s].snap)]
  OBVIOUS
<1>5. UsedPositions \subseteq Positions \cup {0}
  BY DEF UsedPositions, TypesOK, RowsOK, Import
<1>6. state \in Local
  BY <1>3, <1>4, <1>5, AtType DEF Local, Reported
<1>7. imports' = flagged /\ Goes(s, Onward(state))
  BY <1>1, <1>2, <1>4 DEF Read
<1>8. SyncOK'
  BY <1>6, <1>7, OnwardType, GoesType DEF TypesOK
<1>9. RowsOK'
  BY <1>3, <1>7 DEF Read, RowsOK, TypesOK
<1> QED
  BY <1>8, <1>9, FreshType, WorldKept DEF Read, TypesOK

(* A leg seen *)
LEMMA SeeLegType ==
  ASSUME TypesOK, NEW s \in Syncs, NEW n \in Legs, NEW chosen \in Local,
         chosen.pair \in Pairs, chosen.pos \in Positions, SeeLeg(s, n, chosen)
  PROVE  /\ SeenLeg(n, chosen) \in Import
         /\ imports' \in [Pairs -> [Legs -> Import]]
         /\ FreshOK'
<1>1. imports[chosen.pair][n] \in Import /\ imports \in [Pairs -> [Legs -> Import]]
  BY DEF TypesOK, RowsOK
<1>2. chosen.snap[chosen.pair][n] \in Fixture
  BY DEF Local, FixturePair
<1>3. SeenLeg(n, chosen) \in Import
  BY <1>1, <1>2, ImportTypes DEF SeenLeg
<1>4. imports' \in [Pairs -> [Legs -> Import]]
  BY <1>1, <1>3 DEF SeeLeg
<1> QED
  BY <1>3, <1>4, FreshType DEF SeeLeg, TypesOK

LEMMA SeenType ==
  ASSUME NEW state \in Local, Ready(state), NEW n \in Legs, NEW row \in Import, NEW pc \in {"see", "node", "flag"},
         state.pc = "see"
  PROVE  LET next == [state EXCEPT !.seen[n] = row, !.pc = pc]
         IN  next \in Local /\ Ready(next)
<1>1. [state.seen EXCEPT ![n] = row] \in [Legs -> Import]
  BY DEF Local
<1> QED
  BY <1>1 DEF Local, Ready, WithPair, WithTie

LEMMA SkipType ==
  ASSUME TypesOK, NEW s \in Syncs, Skip(s)
  PROVE  TypesOK'
<1>1. Goes(s, Done(Chosen(s))) /\ At(s, "choose")
  BY DEF Skip
<1>2. SyncOK'
  BY <1>1, ChosenType, DoneType, GoesType DEF TypesOK
<1> QED
  BY <1>2, WorldKept, RowsKept DEF Skip, TypesOK, FreshOK

LEMMA ChooseType ==
  ASSUME TypesOK, NEW s \in Syncs, Choose(s)
  PROVE  TypesOK'
<1>1. At(s, "choose") /\ Chosen(s).pos # 0
  BY DEF Choose, Skips
<1>2. /\ Chosen(s) \in Local /\ Chosen(s).pair \in Pairs /\ Chosen(s).pos \in Positions
      /\ Ready(Chosen(s)) /\ Chosen(s).pc = "see"
  BY <1>1, ChosenType DEF Ready, WithPair
<1>3. SeeLeg(s, 1, Chosen(s)) /\ 1 \in Legs
  BY DEF Choose, Legs
<1>4. SeenLeg(1, Chosen(s)) \in Import /\ imports' \in [Pairs -> [Legs -> Import]] /\ FreshOK'
  BY <1>2, <1>3, SeeLegType
<1>5. PICK next : next = [Chosen(s) EXCEPT !.seen[1] = SeenLeg(1, Chosen(s))]
  OBVIOUS
<1>6. next = [Chosen(s) EXCEPT !.seen[1] = SeenLeg(1, Chosen(s)), !.pc = "see"]
  BY <1>2, <1>5 DEF Local
<1>7. next \in Local /\ Ready(next)
  BY <1>2, <1>3, <1>4, <1>6, SeenType
<1>8. SyncOK'
  BY <1>5, <1>7, GoesType DEF Choose, TypesOK
<1> QED
  BY <1>4, <1>8, WorldKept DEF Choose, TypesOK, RowsOK

LEMMA SeeSecondType ==
  ASSUME TypesOK, NEW s \in Syncs, SeeSecond(s)
  PROVE  TypesOK'
<1>1. At(s, "see") /\ SeeLeg(s, 2, sync[s]) /\ 2 \in Legs
  BY DEF SeeSecond, Legs
<1>2. /\ sync[s] \in Local /\ Ready(sync[s]) /\ sync[s].pc = "see"
      /\ sync[s].pair \in Pairs /\ sync[s].pos \in Positions
  BY <1>1, AtType DEF At, Ready, WithPair
<1>3. SeenLeg(2, sync[s]) \in Import /\ imports' \in [Pairs -> [Legs -> Import]] /\ FreshOK'
  BY <1>1, <1>2, SeeLegType
<1>4. PICK pc \in {"node", "flag"} :
        \/ Goes(s, Done(sync[s]))
        \/ Goes(s, [sync[s] EXCEPT !.seen[2] = SeenLeg(2, sync[s]), !.pc = pc])
  <2>1. CASE links[sync[s].pair].tombstoned
    BY <2>1 DEF SeeSecond
  <2>2. CASE ~links[sync[s].pair].tombstoned
    BY <2>2 DEF SeeSecond
  <2> QED
    BY <2>1, <2>2
<1>5. SyncOK'
  <2>1. CASE Goes(s, Done(sync[s]))
    BY <1>2, <2>1, DoneType, GoesType DEF TypesOK
  <2>2. PICK next : next = [sync[s] EXCEPT !.seen[2] = SeenLeg(2, sync[s]), !.pc = pc]
    OBVIOUS
  <2>3. next \in Local /\ Ready(next)
    BY <1>1, <1>2, <1>3, <2>2, SeenType
  <2>4. CASE Goes(s, next)
    BY <2>3, <2>4, GoesType DEF TypesOK
  <2> QED
    BY <1>4, <2>1, <2>2, <2>4
<1> QED
  BY <1>3, <1>5, WorldKept DEF SeeSecond, TypesOK, RowsOK

LEMMA ConfigureType ==
  ASSUME TypesOK, NEW s \in Syncs, Configure(s)
  PROVE  TypesOK'
<1>1. /\ sync[s] \in Local /\ Ready(sync[s]) /\ sync[s].pc = "node"
      /\ sync[s].pair \in Pairs /\ sync[s].pos \in Positions
  BY AtType DEF Configure, At, Ready, WithPair
<1> DEFINE p == sync[s].pair
           node == nodes[sync[s].pos]
           starts == Starts(sync[s].snap[p])
<1>2. node \in Node /\ starts \in Dates
  BY <1>1 DEF TypesOK, RowsOK, Local, FixturePair
<1>3. Configured(node, p, starts) \in Node
  BY <1>1, <1>2, NodeTypes
<1>4. nodes' \in [Positions -> Node]
  BY <1>1, <1>3 DEF Configure, TypesOK, RowsOK
<1>5. PICK pc \in {"claim", "flag"} :
        Goes(s, [sync[s] EXCEPT !.pc = pc, !.bound = node.tie, !.now = 0])
  <2>1. CASE node.tie # 0 /\ node.pair = p
    BY <2>1 DEF Configure
  <2>2. CASE node.tie # 0 /\ node.pair # p
    BY <2>2 DEF Configure
  <2>3. CASE node.tie = 0 /\ ~Refuses(node, p, starts) /\ Creatable(s)
    BY <2>3 DEF Configure
  <2>4. CASE node.tie = 0 /\ ~(~Refuses(node, p, starts) /\ Creatable(s))
    BY <2>4 DEF Configure
  <2> QED
    BY <2>1, <2>2, <2>3, <2>4
<1>6. node.tie \in TieIds \cup {0} /\ 0 \in Instants
  BY <1>2, Bounds DEF Node, Instants
<1> HIDE DEF node, p, starts
<1>7. PICK next : next = [sync[s] EXCEPT !.pc = pc, !.bound = node.tie, !.now = 0]
  OBVIOUS
<1>8. next \in Local
  BY <1>1, <1>6, <1>7 DEF Local, WithPair
<1>9. Ready(next)
  BY <1>1, <1>7 DEF Ready, Local, WithPair, WithTie
<1>10. SyncOK'
  BY <1>5, <1>7, <1>8, <1>9, GoesType DEF TypesOK
<1> QED
  BY <1>4, <1>10, WorldKept DEF Configure, TypesOK, RowsOK, FreshOK

LEMMA ClaimType ==
  ASSUME TypesOK, NEW s \in Syncs, Claim(s)
  PROVE  TypesOK'
<1>1. /\ sync[s] \in Local /\ Ready(sync[s]) /\ sync[s].pc = "claim"
      /\ sync[s].pair \in Pairs /\ sync[s].pos \in Positions
  BY AtType DEF Claim, At, Ready, WithPair
<1>2. Claimed(links[sync[s].pair], sync[s].pos, s) \in Link
  BY <1>1, LinkTypes DEF TypesOK, RowsOK
<1>3. links' \in [Pairs -> Link]
  BY <1>1, <1>2 DEF Claim, TypesOK, RowsOK
<1>4. SyncOK'
  <2>1. PICK next : next = [sync[s] EXCEPT !.pc = "tie"]
    OBVIOUS
  <2>2. next \in Local /\ Ready(next)
    BY <1>1, <2>1, PcType DEF WithPair, WithTie
  <2>3. Goes(s, next)
    BY <2>1 DEF Claim, GoesTo
  <2> QED
    BY <2>2, <2>3, GoesType DEF TypesOK
<1> QED
  BY <1>3, <1>4, WorldKept DEF Claim, TypesOK, RowsOK, FreshOK

LEMMA FindsType ==
  ASSUME TypesOK, NEW s \in Syncs, At(s, "tie"), NEW id \in TieIds, NEW tie \in Tie, Finds(s, id, tie)
  PROVE  SyncOK' /\ FreshOK'
<1>1. /\ sync[s] \in Local /\ Ready(sync[s]) /\ sync[s].pc = "tie"
      /\ sync[s].pair \in Pairs /\ sync[s].pos \in Positions
  BY AtType DEF At, Ready, WithPair
<1>2. PICK next : next = [sync[s] EXCEPT !.pc = "bind", !.tie = id, !.was = tie, !.bound = 0]
  OBVIOUS
<1>3. next \in Local
  BY <1>1, <1>2 DEF Local, WithPair, WithTie
<1>4. Ready(next)
  BY <1>1, <1>2 DEF Ready, Local, WithPair, WithTie
<1>5. Goes(s, next)
  BY <1>2 DEF Finds
<1> QED
  BY <1>3, <1>4, <1>5, GoesType, FreshType DEF Finds, TypesOK

LEMMA FindTieType ==
  ASSUME TypesOK, NEW s \in Syncs, FindTie(s)
  PROVE  TypesOK'
<1>1. At(s, "tie") /\ UNCHANGED <<world, rows, events>>
  BY DEF FindTie
<1>2. PICK id \in TiesAt(sync[s].pos) : Finds(s, id, ties[id])
  BY DEF FindTie
<1>3. id \in TieIds /\ ties[id] \in Tie
  BY <1>2 DEF TiesAt, Live, TypesOK, RowsOK
<1>4. SyncOK' /\ FreshOK'
  BY <1>1, <1>2, <1>3, FindsType
<1> QED
  BY <1>1, <1>4, WorldKept, RowsKept DEF TypesOK

(* The new tie takes the least id that was never used. *)
LEMMA NewId ==
  ASSUME Unused # {}
  PROVE  (CHOOSE x \in Unused : \A y \in Unused : x =< y) \in Unused
<1>1. Unused \in SUBSET Nat
  BY Bounds DEF Unused
<1>2. \E x \in Unused : \A y \in Unused : x =< y
  BY <1>1, LeastOf
<1> QED
  BY <1>2

LEMMA CreateTieType ==
  ASSUME TypesOK, NEW s \in Syncs, CreateTie(s)
  PROVE  TypesOK'
<1>1. /\ sync[s] \in Local /\ At(s, "tie")
      /\ sync[s].pair \in Pairs /\ sync[s].pos \in Positions
  BY AtType DEF CreateTie, At, Ready, WithPair
<1>2. PICK id : id = (CHOOSE x \in Unused : \A y \in Unused : x =< y)
  OBVIOUS
<1>3. id \in TieIds
  BY <1>2, NewId DEF CreateTie, Unused
<1>4. PICK tie : tie = [NoTie EXCEPT !.state = "live", !.pair = sync[s].pair, !.pos = sync[s].pos,
                                     !.start = Starts(sync[s].snap[sync[s].pair])]
  OBVIOUS
<1>5. Starts(sync[s].snap[sync[s].pair]) \in Dates
  BY <1>1 DEF Local, FixturePair
<1>6. tie \in Tie
  BY <1>1, <1>4, <1>5, NewTieType
<1>7. /\ ties' = [ties EXCEPT ![id] = tie] /\ Finds(s, id, tie)
      /\ UNCHANGED <<world, nodes, imports, links, events>>
  BY <1>2, <1>4 DEF CreateTie
<1>8. SyncOK' /\ FreshOK'
  BY <1>1, <1>3, <1>6, <1>7, FindsType
<1>9. RowsOK'
  BY <1>3, <1>6, <1>7 DEF TypesOK, RowsOK
<1> QED
  BY <1>7, <1>8, <1>9, WorldKept DEF TypesOK

LEMMA BindNodeType ==
  ASSUME TypesOK, NEW s \in Syncs, BindNode(s)
  PROVE  TypesOK'
<1>1. /\ sync[s] \in Local /\ Ready(sync[s]) /\ sync[s].pc = "bind"
      /\ sync[s].pair \in Pairs /\ sync[s].pos \in Positions /\ sync[s].tie \in TieIds
  BY AtType DEF BindNode, At, Ready, WithPair, WithTie
<1>2. Materialized(nodes[sync[s].pos], sync[s].tie) \in Node
  BY <1>1, NodeTypes DEF TypesOK, RowsOK
<1>3. nodes' \in [Positions -> Node]
  BY <1>1, <1>2 DEF BindNode, TypesOK, RowsOK
<1>4. SyncOK'
  <2>1. PICK next : next = [sync[s] EXCEPT !.pc = "link"]
    OBVIOUS
  <2>2. next \in Local /\ Ready(next)
    BY <1>1, <2>1, PcType DEF WithPair, WithTie
  <2>3. Goes(s, next)
    BY <2>1 DEF BindNode, GoesTo
  <2> QED
    BY <2>2, <2>3, GoesType DEF TypesOK
<1> QED
  BY <1>3, <1>4, WorldKept DEF BindNode, TypesOK, RowsOK, FreshOK

LEMMA RecordLinkType ==
  ASSUME TypesOK, NEW s \in Syncs, RecordLink(s)
  PROVE  TypesOK'
<1>1. /\ sync[s] \in Local /\ Ready(sync[s]) /\ sync[s].pc = "link"
      /\ sync[s].pair \in Pairs /\ sync[s].pos \in Positions /\ sync[s].tie \in TieIds
  BY AtType DEF RecordLink, At, Ready, WithPair, WithTie
<1>2. Linked(links[sync[s].pair], sync[s].tie) \in Link
  BY <1>1, LinkTypes DEF TypesOK, RowsOK
<1>3. links' \in [Pairs -> Link]
  BY <1>1, <1>2 DEF RecordLink, TypesOK, RowsOK
<1>4. PICK movable : movable = [n \in Legs |->
        /\ sync[s].seen[n].tie = sync[s].tie
        /\ sync[s].seen[n].status = "pending"
        /\ sync[s].was.start[n] = nodes[sync[s].pos].start[n]]
  OBVIOUS
<1>5. movable \in [Legs -> BOOLEAN]
  BY <1>4
<1>6. PICK pc \in {"flag", "legs"}, left \in {<<1, 2>>, <<2, 1>>} :
        Preflighted(s) = [sync[s] EXCEPT !.pc = pc, !.movable = movable, !.seen = Idle.seen, !.left = left]
  <2> DEFINE conflict == \E n \in Legs : LegVerdict(s, n, movable[n]) = "conflict"
             swapped == sync[s].snap[sync[s].pair][1].start >= sync[s].was.start[2]
  <2>1. Preflighted(s) =
          [sync[s] EXCEPT !.pc = IF conflict THEN "flag" ELSE "legs", !.movable = movable, !.seen = Idle.seen,
                          !.left = IF swapped THEN <<2, 1>> ELSE <<1, 2>>]
    BY <1>4 DEF Preflighted
  <2> HIDE DEF conflict, swapped
  <2> QED
    BY <2>1
<1>7. Idle.seen \in [Legs -> Import]
  BY NoRowTypes DEF Idle
<1>8. PICK next : next = Preflighted(s)
  OBVIOUS
<1>9. next \in Local
  <2>1. pc \in {"idle", "read", "choose"} \cup WithPair /\ left \in Lefts
    BY DEF WithPair, WithTie, Lefts
  <2> QED
    BY <1>1, <1>5, <1>6, <1>7, <1>8, <2>1 DEF Local
<1>10. next.pc = pc /\ next.left = left /\ next.pair = sync[s].pair /\ next.pos = sync[s].pos /\ next.tie = sync[s].tie
  BY <1>1, <1>6, <1>8 DEF Local
<1>11. Ready(next)
  BY <1>1, <1>10 DEF Ready, WithPair, WithTie
<1>12. SyncOK'
  BY <1>8, <1>9, <1>11, GoesType DEF RecordLink, TypesOK
<1> QED
  BY <1>3, <1>12, WorldKept DEF RecordLink, TypesOK, RowsOK, FreshOK

(* What is left of the legs *)
LEMMA LeftTypes ==
  ASSUME NEW left \in Lefts, left # <<>>
  PROVE  /\ Head(left) \in Legs /\ Tail(left) \in Lefts
         /\ left = <<1, 2>> => Tail(left) = <<2>> /\ Head(left) = 1
         /\ left = <<2>> => Tail(left) = <<>> /\ Head(left) = 2
<1>1. ASSUME NEW a PROVE Head(<<a>>) = a /\ Tail(<<a>>) = <<>>
  OBVIOUS
<1>2. ASSUME NEW a, NEW b PROVE Head(<<a, b>>) = a /\ Tail(<<a, b>>) = <<b>>
  OBVIOUS
<1>3. CASE left = <<1>>
  BY <1>1, <1>3 DEF Lefts, Legs
<1>4. CASE left = <<2>>
  BY <1>1, <1>4 DEF Lefts, Legs
<1>5. CASE left = <<1, 2>>
  BY <1>2, <1>5 DEF Lefts, Legs
<1>6. CASE left = <<2, 1>>
  BY <1>2, <1>6 DEF Lefts, Legs
<1> QED
  BY <1>3, <1>4, <1>5, <1>6 DEF Lefts

LEMMA MovesType ==
  ASSUME TypesOK, NEW id \in TieIds, NEW n \in Legs, NEW start \in Starting \cup {0}, CanMove(id, n, start)
  PROVE  /\ ties[id] \in Tie /\ start \in Starting
         /\ Rescheduled(ties[id], n, start) \in Tie
<1>1. ties[id] \in Tie /\ clock \in Nat
  BY Bounds DEF TypesOK, RowsOK, WorldOK, Instants
<1>2. ties[id].start[n] # 0 /\ start # 0
  BY <1>1 DEF CanMove
<1> QED
  BY <1>1, <1>2, TieTypes

LEMMA ApplyLegType ==
  ASSUME TypesOK, NEW s \in Syncs, ApplyLeg(s)
  PROVE  TypesOK'
<1>1. /\ sync[s] \in Local /\ Ready(sync[s]) /\ sync[s].pc = "legs" /\ sync[s].left # <<>>
      /\ sync[s].pair \in Pairs /\ sync[s].pos \in Positions /\ sync[s].tie \in TieIds
  BY AtType DEF ApplyLeg, At, Ready, WithPair, WithTie
<1>2. PICK n : n = Head(sync[s].left)
  OBVIOUS
<1>3. PICK f : f = sync[s].snap[sync[s].pair][n]
  OBVIOUS
<1>4. PICK verdict : verdict = LegVerdict(s, n, sync[s].movable[n])
  OBVIOUS
<1>5. n \in Legs /\ Tail(sync[s].left) \in Lefts
  BY <1>1, <1>2, LeftTypes DEF Local
<1>6. f \in Fixture
  BY <1>1, <1>3, <1>5 DEF Local, FixturePair
<1>7. PICK id : id = sync[s].tie
  OBVIOUS
<1>8. id \in TieIds /\ ties[id] \in Tie
  BY <1>1, <1>7 DEF TypesOK, RowsOK
<1>9. PICK tie : tie = CASE verdict = "move" -> Rescheduled(ties[id], n, f.start)
                         [] verdict = "record" -> Scored(ties[id], n, f.score)
                         [] OTHER -> ties[id]
  OBVIOUS
<1>10. tie \in Tie
  <2>1. CASE verdict = "move"
    <3>1. CanMove(id, n, f.start)
      BY <1>2, <1>3, <1>4, <1>7, <2>1 DEF ApplyLeg, Applies
    <3>2. f.start \in Starting \cup {0}
      BY <1>6 DEF Fixture
    <3>3. Rescheduled(ties[id], n, f.start) \in Tie
      BY <1>5, <1>8, <3>1, <3>2, MovesType
    <3> QED
      BY <1>9, <2>1, <3>3
  <2>2. CASE verdict = "record"
    <3>1. f.score \in Scores \cup {NoScore}
      BY <1>6 DEF Fixture
    <3>2. Scored(ties[id], n, f.score) \in Tie
      BY <1>5, <1>8, <3>1, TieTypes
    <3> QED
      BY <1>9, <2>2, <3>2
  <2>3. CASE verdict \notin {"move", "record"}
    BY <1>8, <1>9, <2>3
  <2> QED
    BY <2>1, <2>2, <2>3
<1>11. ties' = [ties EXCEPT ![id] = tie]
  BY <1>2, <1>3, <1>4, <1>7, <1>9 DEF ApplyLeg
<1>12. RowsOK'
  BY <1>8, <1>10, <1>11 DEF ApplyLeg, TypesOK, RowsOK
<1>13. PICK conflict \in BOOLEAN : conflict = (sync[s].conflict \/ verdict = "conflict")
  OBVIOUS
<1>14. PICK applied : applied = [sync[s] EXCEPT !.left = Tail(sync[s].left), !.conflict = conflict]
  OBVIOUS
<1>15. applied \in Local /\ applied.left = Tail(sync[s].left) /\ applied.pc = "legs"
       /\ applied.pair \in Pairs /\ applied.pos \in Positions /\ applied.tie \in TieIds
  BY <1>1, <1>5, <1>14 DEF Local
<1>16. PICK flagged : flagged = [applied EXCEPT !.pc = "flag"]
  OBVIOUS
<1>17. PICK onward : onward = [applied EXCEPT !.pc = "import", !.left = <<1, 2>>,
                                              !.was = NoTie, !.movable = Idle.movable]
  OBVIOUS
<1>18. PICK next : next = CASE applied.left # <<>> -> applied
                            [] applied.left = <<>> /\ applied.conflict -> flagged
                            [] OTHER -> onward
  OBVIOUS
<1>19. Goes(s, next)
  BY <1>2, <1>3, <1>4, <1>13, <1>14, <1>16, <1>17, <1>18 DEF ApplyLeg
<1>20. flagged \in Local /\ Ready(flagged)
  BY <1>15, <1>16 DEF Local, Ready, WithPair, WithTie
<1>21. onward \in Local /\ Ready(onward)
  <2>1. NoTie \in Tie /\ Idle.movable \in [Legs -> BOOLEAN] /\ <<1, 2>> \in Lefts
    BY NoRowTypes, IdleType DEF Local, Lefts
  <2>2. onward \in Local
    BY <1>15, <1>17, <2>1 DEF Local, WithPair, WithTie
  <2>3. /\ onward.pc = "import" /\ onward.left = <<1, 2>> /\ onward.pair = applied.pair
        /\ onward.pos = applied.pos /\ onward.tie = applied.tie
    BY <1>15, <1>17 DEF Local
  <2>4. Ready(onward)
    BY <1>15, <2>3 DEF Ready, WithPair, WithTie
  <2> QED
    BY <2>2, <2>4
<1>22. applied.left # <<>> => Ready(applied)
  BY <1>15 DEF Ready, WithPair, WithTie
<1>23. next \in Local /\ Ready(next)
  BY <1>13, <1>15, <1>18, <1>20, <1>21, <1>22 DEF Local
<1>24. SyncOK'
  BY <1>19, <1>23, GoesType DEF TypesOK
<1>25. FreshOK'
  BY FreshType DEF ApplyLeg, TypesOK
<1> QED
  BY <1>12, <1>24, <1>25, WorldKept DEF ApplyLeg, TypesOK

LEMMA MarkImportedType ==
  ASSUME TypesOK, NEW s \in Syncs, MarkImported(s)
  PROVE  TypesOK'
<1>1. /\ sync[s] \in Local /\ Ready(sync[s]) /\ sync[s].pc = "import" /\ sync[s].left \in {<<1, 2>>, <<2>>}
      /\ sync[s].pair \in Pairs /\ sync[s].pos \in Positions /\ sync[s].tie \in TieIds
  BY AtType DEF MarkImported, At, Ready, WithPair, WithTie
<1>2. PICK n : n = Head(sync[s].left)
  OBVIOUS
<1>3. /\ n \in Legs /\ Tail(sync[s].left) \in Lefts
      /\ n # 2 => Tail(sync[s].left) \in {<<1, 2>>, <<2>>}
  BY <1>1, <1>2, LeftTypes DEF Local
<1>4. imports[sync[s].pair][n] \in Import /\ imports \in [Pairs -> [Legs -> Import]]
  BY <1>1, <1>3 DEF TypesOK, RowsOK
<1>5. Imported(imports[sync[s].pair][n], sync[s].tie) \in Import
  BY <1>1, <1>4, ImportTypes
<1>6. imports' \in [Pairs -> [Legs -> Import]]
  BY <1>1, <1>2, <1>3, <1>4, <1>5 DEF MarkImported
<1>7. PICK pc \in {"result", "import"} : pc = (IF n = 2 THEN "result" ELSE "import")
  OBVIOUS
<1>8. PICK next : next = [sync[s] EXCEPT !.left = Tail(sync[s].left), !.pc = pc]
  OBVIOUS
<1>9. next \in Local
  BY <1>1, <1>3, <1>7, <1>8 DEF Local, WithPair, WithTie
<1>10. next.pc = pc /\ next.left = Tail(sync[s].left) /\ next.pair = sync[s].pair /\ next.pos = sync[s].pos
       /\ next.tie = sync[s].tie
  BY <1>1, <1>8 DEF Local
<1>11. Ready(next)
  BY <1>1, <1>3, <1>7, <1>10 DEF Ready, WithPair, WithTie
<1>12. Goes(s, next)
  BY <1>2, <1>7, <1>8 DEF MarkImported
<1>13. SyncOK'
  BY <1>9, <1>11, <1>12, GoesType DEF TypesOK
<1>14. FreshOK'
  BY FreshType DEF MarkImported, TypesOK
<1> QED
  BY <1>6, <1>13, <1>14, WorldKept DEF MarkImported, TypesOK, RowsOK

LEMMA TieResultType ==
  ASSUME TypesOK, NEW s \in Syncs, TieResult(s)
  PROVE  TypesOK'
<1>1. /\ sync[s] \in Local /\ Ready(sync[s]) /\ sync[s].pc = "result"
      /\ sync[s].pair \in Pairs /\ sync[s].pos \in Positions /\ sync[s].tie \in TieIds
  BY AtType DEF TieResult, At, Ready, WithPair, WithTie
<1>2. PICK f1, f2 : f1 = sync[s].snap[sync[s].pair][1] /\ f2 = sync[s].snap[sync[s].pair][2]
  OBVIOUS
<1>3. PICK tie : tie = ties[sync[s].tie]
  OBVIOUS
<1>4. f1 \in Fixture /\ f2 \in Fixture /\ tie \in Tie
  <2>1. sync[s].snap[sync[s].pair] \in [Legs -> Fixture]
    BY <1>1 DEF Local, FixturePair
  <2> QED
    BY <1>1, <1>2, <1>3, <2>1, LegPairOf DEF TypesOK, RowsOK
<1>5. PICK verdict : verdict =
        (IF ~(\A n \in Legs : sync[s].snap[sync[s].pair][n].status = "FINISHED") THEN "agrees"
         ELSE IF tie.state # "live" THEN "conflict" ELSE TieVerdict(f1, f2, tie))
  OBVIOUS
<1>6. PICK result : result = Resolution(tie.score[1], tie.score[2], f2.decision[1], f2.decision[2])
  OBVIOUS
<1>7. PICK pc \in {"flag", "mirror"} : pc = (IF verdict = "conflict" THEN "flag" ELSE "mirror")
  OBVIOUS
<1>8. /\ ties' = IF verdict # "record" THEN ties ELSE [ties EXCEPT ![sync[s].tie].result = result]
      /\ GoesTo(s, pc)
  BY <1>2, <1>3, <1>5, <1>6, <1>7 DEF TieResult
<1>9. verdict = "record" => result \in Results
  <2>1. SUFFICES ASSUME verdict = "record" PROVE result \in Results
    OBVIOUS
  <2>2. TieVerdict(f1, f2, tie) = "record"
    BY <1>5, <2>1
  <2>3. Resolves(tie.score[1], tie.score[2], f2.decision[1], f2.decision[2])
    BY <2>2 DEF TieVerdict
  <2>4. f2.decision[1] \in {d[1] : d \in Decisions} \cup {NoScore}
        /\ f2.decision[2] \in {d[2] : d \in Decisions} \cup {NoScore}
    BY <1>4 DEF Fixture
  <2> QED
    BY <1>6, <2>3, <2>4, ResolutionType
<1>10. ties' \in [TieIds -> Tie]
  <2>1. verdict = "record" => [tie EXCEPT !.result = result] \in Tie
    BY <1>4, <1>9, TieTypes DEF Legs
  <2>2. verdict = "record" => ties' = [ties EXCEPT ![sync[s].tie] = [tie EXCEPT !.result = result]]
    BY <1>1, <1>3, <1>8 DEF TypesOK, RowsOK
  <2> QED
    BY <1>1, <1>8, <2>1, <2>2 DEF TypesOK, RowsOK
<1>11. SyncOK'
  <2>1. PICK next : next = [sync[s] EXCEPT !.pc = pc]
    OBVIOUS
  <2>2. next \in Local /\ Ready(next)
    BY <1>1, <1>7, <2>1, PcType DEF WithPair, WithTie
  <2>3. Goes(s, next)
    BY <1>8, <2>1 DEF GoesTo
  <2> QED
    BY <2>2, <2>3, GoesType DEF TypesOK
<1> QED
  BY <1>10, <1>11, WorldKept DEF TieResult, TypesOK, RowsOK, FreshOK

LEMMA MirrorType ==
  ASSUME TypesOK, NEW s \in Syncs, Mirror(s)
  PROVE  TypesOK'
<1>1. /\ sync[s] \in Local /\ sync[s].pair \in Pairs /\ sync[s].pos \in Positions /\ sync[s].tie \in TieIds
  BY AtType DEF Mirror, At, Ready, WithPair, WithTie
<1>2. nodes[sync[s].pos] \in Node /\ ties[sync[s].tie].start \in Dates
  BY <1>1 DEF TypesOK, RowsOK, Tie
<1>3. [nodes[sync[s].pos] EXCEPT !.start = ties[sync[s].tie].start] \in Node
  BY <1>2 DEF Node
<1>4. nodes' \in [Positions -> Node]
  BY <1>1, <1>3 DEF Mirror, TypesOK, RowsOK
<1>5. SyncOK'
  BY <1>1, DoneType, GoesType DEF Mirror, TypesOK
<1>6. FreshOK'
  BY FreshType DEF Mirror, TypesOK
<1> QED
  BY <1>4, <1>5, <1>6, WorldKept DEF Mirror, TypesOK, RowsOK

LEMMA FlagType ==
  ASSUME TypesOK, NEW s \in Syncs, Flag(s)
  PROVE  TypesOK'
<1>1. sync[s] \in Local /\ sync[s].pair \in Pairs
  BY AtType DEF Flag, At, Ready, WithPair
<1>2. [n \in Legs |-> Conflicting(imports[sync[s].pair][n])] \in [Legs -> Import]
  BY <1>1, ImportTypes DEF TypesOK, RowsOK
<1>3. imports' \in [Pairs -> [Legs -> Import]]
  BY <1>1, <1>2 DEF Flag, TypesOK, RowsOK
<1>4. SyncOK'
  BY <1>1, DoneType, GoesType DEF Flag, TypesOK
<1>5. FreshOK'
  BY FreshType DEF Flag, TypesOK
<1> QED
  BY <1>3, <1>4, <1>5, WorldKept DEF Flag, TypesOK, RowsOK

LEMMA FlagRefusedType ==
  ASSUME TypesOK, NEW s \in Syncs, FlagRefused(s)
  PROVE  TypesOK'
<1>1. sync[s] \in Local /\ sync[s].pair \in Pairs /\ 1 \in Legs
  BY AtType DEF FlagRefused, At, Ready, WithPair, Legs
<1>2. Conflicting(imports[sync[s].pair][1]) \in Import /\ imports \in [Pairs -> [Legs -> Import]]
  BY <1>1, ImportTypes DEF TypesOK, RowsOK
<1>3. imports' \in [Pairs -> [Legs -> Import]]
  BY <1>1, <1>2 DEF FlagRefused
<1>4. SyncOK'
  BY IdleType, GoesType DEF FlagRefused, TypesOK
<1>5. links' \in [Pairs -> Link]
  BY AbandonedType DEF FlagRefused, TypesOK
<1>6. FreshOK'
  BY FreshType DEF FlagRefused, TypesOK
<1> QED
  BY <1>3, <1>4, <1>5, <1>6, WorldKept DEF FlagRefused, TypesOK, RowsOK

LEMMA RefusedType ==
  ASSUME TypesOK, NEW s \in Syncs, Refused(s) \/ Stops(s)
  PROVE  TypesOK'
<1>1. Leave(s) \/ FlagRefused(s)
  BY DEF Refused, Stops, SeeRefused, ClaimRefused, WrongTie, BindRefused, LinkRefused, ApplyRefused,
         ImportRefused, MirrorRefused
<1> QED
  BY <1>1, LeaveType, FlagRefusedType

LEMMA FailsType ==
  ASSUME TypesOK, NEW s \in Syncs, Fails(s)
  PROVE  TypesOK'
<1>1. SyncOK'
  BY IdleType, GoesType DEF Fails, TypesOK
<1>2. links' \in [Pairs -> Link]
  BY AbandonedType DEF Fails, TypesOK
<1> QED
  BY <1>1, <1>2, WorldKept DEF Fails, TypesOK, RowsOK, FreshOK

LEMMA ProceedsType ==
  ASSUME TypesOK, NEW s \in Syncs, Proceeds(s)
  PROVE  TypesOK'
BY ReadType, SkipType, ChooseType, SeeSecondType, ConfigureType, ClaimType, FindTieType, CreateTieType,
   BindNodeType, RecordLinkType, ApplyLegType, MarkImportedType, TieResultType, MirrorType, FlagType,
   RefusedType DEF Proceeds

-----------------------------------------------------------------------------
(* The steps of the others *)

LEMMA ExpiresType ==
  ASSUME TypesOK, NEW p \in Pairs, ClaimExpires(p)
  PROVE  TypesOK'
<1>1. [links[p] EXCEPT !.claim = "expired"] \in Link
  BY LinkTypes DEF TypesOK, RowsOK
<1> QED
  BY <1>1, WorldKept DEF ClaimExpires, TypesOK, RowsOK, SyncOK, FreshOK

LEMMA DeleteTieType ==
  ASSUME TypesOK, NEW id \in TieIds, DeleteTie(id)
  PROVE  TypesOK'
<1>1. PICK tombstones : tombstones = [p \in Pairs |-> [n \in Legs |-> ImportAfterDelete(imports[p][n], id, ties[id].pos)]]
  OBVIOUS
<1>2. imports' = tombstones /\ tombstones \in [Pairs -> [Legs -> Import]]
  BY <1>1, ImportTypes DEF DeleteTie, TypesOK, RowsOK
<1>3. [NoTie EXCEPT !.state = "deleted"] \in Tie
  BY NoRowTypes DEF Tie
<1>4. ties' \in [TieIds -> Tie]
  BY <1>3 DEF DeleteTie, TypesOK, RowsOK
<1>5. links' \in [Pairs -> Link]
  BY LinkTypes DEF DeleteTie, TypesOK, RowsOK
<1>6. nodes' \in [Positions -> Node]
  BY NodeTypes DEF DeleteTie, TypesOK, RowsOK
<1>7. FreshOK'
  BY FreshType DEF DeleteTie, TypesOK
<1> QED
  BY <1>2, <1>4, <1>5, <1>6, <1>7, WorldKept DEF DeleteTie, TypesOK, RowsOK, SyncOK

LEMMA ByHandType ==
  ASSUME TypesOK, NEW id \in TieIds, NEW n \in Legs,
         \/ \E start \in Starting : MoveByHand(id, n, start)
         \/ \E score \in Scores : ScoreByHand(id, n, score)
  PROVE  TypesOK'
<1>1. ASSUME NEW start \in Starting, MoveByHand(id, n, start) PROVE ties' \in [TieIds -> Tie]
  <2>1. Rescheduled(ties[id], n, start) \in Tie
    BY <1>1, MovesType DEF MoveByHand
  <2> QED
    BY <1>1, <2>1 DEF MoveByHand, TypesOK, RowsOK
<1>2. ASSUME NEW score \in Scores, ScoreByHand(id, n, score) PROVE ties' \in [TieIds -> Tie]
  <2>1. Scored(ties[id], n, score) \in Tie
    BY TieTypes DEF TypesOK, RowsOK
  <2> QED
    BY <1>2, <2>1 DEF ScoreByHand, TypesOK, RowsOK
<1>3. FreshOK'
  BY FreshType DEF MoveByHand, ScoreByHand, TypesOK
<1>4. UNCHANGED <<world, nodes, imports, links, sync>>
  BY DEF MoveByHand, ScoreByHand
<1> QED
  BY <1>1, <1>2, <1>3, <1>4, WorldKept DEF TypesOK, RowsOK, SyncOK

LEMMA SwitchType ==
  ASSUME TypesOK, Switch
  PROVE  TypesOK'
<1>1. ASSUME NEW s \in Syncs
      PROVE  [sync[s] EXCEPT !.current = FALSE] \in Local /\ Ready([sync[s] EXCEPT !.current = FALSE])
  BY AtType DEF Local, Ready
<1>2. SyncOK'
  BY <1>1 DEF Switch, SyncOK
<1> QED
  BY <1>2, RowsKept DEF Switch, TypesOK, WorldOK, FreshOK

LEMMA TickType ==
  ASSUME TypesOK, Tick
  PROVE  TypesOK'
<1>1. clock' \in Instants
  BY Bounds DEF Tick, TypesOK, WorldOK, Instants
<1>2. FreshOK'
  BY FreshType DEF Tick, TypesOK
<1> QED
  BY <1>1, <1>2, RowsKept DEF Tick, TypesOK, WorldOK, SyncOK

LEMMA ReportType ==
  ASSUME TypesOK, NEW p \in Pairs, NEW fixtures \in FixturePair, Report(p, fixtures)
  PROVE  TypesOK'
<1>1. reports + 1 \in 0..MaxReports
  BY Bounds DEF Report, TypesOK, WorldOK
<1>2. PICK reported : reported = [n \in Legs |->
        IF fixtures[n] = provider[p][n] THEN fixtures[n] ELSE [fixtures[n] EXCEPT !.rev = reports + 1]]
  OBVIOUS
<1>3. ASSUME NEW n \in Legs PROVE reported[n] \in Fixture /\ reported[n].start = fixtures[n].start
  <2>1. fixtures[n] \in Fixture
    BY DEF FixturePair
  <2>2. [fixtures[n] EXCEPT !.rev = reports + 1] \in Fixture
        /\ [fixtures[n] EXCEPT !.rev = reports + 1].start = fixtures[n].start
    BY <1>1, <2>1 DEF Fixture
  <2> QED
    BY <1>2, <2>1, <2>2
<1>4. reported \in [Legs -> Fixture]
  BY <1>2, <1>3
<1>5. Starts(reported) = Starts(fixtures)
  BY <1>3 DEF Starts, Legs
<1>6. reported \in FixturePair
  BY <1>4, <1>5 DEF FixturePair
<1>7. provider' = [provider EXCEPT ![p] = reported]
  BY <1>2 DEF Report
<1>8. provider' \in [Pairs -> FixturePair] /\ reports' \in 0..MaxReports
  BY <1>1, <1>6, <1>7 DEF Report, TypesOK, WorldOK
<1> QED
  BY <1>8, RowsKept DEF Report, TypesOK, WorldOK, SyncOK, FreshOK

(* The fixtures of a pair with other dates, or with the dates they had *)
LEMMA OtherDates ==
  ASSUME NEW f \in [Legs -> Fixture], NEW dates \in Schedules
  PROVE  [n \in Legs |-> [f[n] EXCEPT !.start = dates[n]]] \in FixturePair
<1> DEFINE g == [n \in Legs |-> [f[n] EXCEPT !.start = dates[n]]]
<1>1. /\ dates = <<dates[1], dates[2]>>
      /\ dates[1] \in Starting /\ dates[2] \in Starting
  BY Bounds
<1>2. ASSUME NEW n \in Legs PROVE [f[n] EXCEPT !.start = dates[n]] \in Fixture /\ g[n].start = dates[n]
  <2>1. dates[n] \in Starting
    BY <1>1 DEF Legs
  <2> QED
    BY <2>1 DEF Fixture
<1>3. g \in [Legs -> Fixture]
  BY <1>2
<1>4. Starts(g) = dates
  BY <1>1, <1>2 DEF Starts, Legs
<1>5. dates \in Dates
  BY <1>1 DEF Dates
<1> HIDE DEF g
<1>6. g \in FixturePair
  BY <1>3, <1>4, <1>5 DEF FixturePair
<1> QED
  BY <1>6 DEF g

LEMMA SameDates ==
  ASSUME NEW f \in FixturePair, NEW g \in [Legs -> Fixture], \A n \in Legs : g[n].start = f[n].start
  PROVE  g \in FixturePair
BY DEF FixturePair, Starts, Legs

LEMMA ReportsType ==
  ASSUME TypesOK, NEW p \in Pairs, Reports(p)
  PROVE  TypesOK'
<1>1. provider[p] \in FixturePair /\ provider[p] \in [Legs -> Fixture]
  BY DEF TypesOK, WorldOK, FixturePair
<1>2. ASSUME NEW dates \in Schedules, Publish(p, dates) PROVE TypesOK'
  <2>1. PICK f : f = [n \in Legs |-> [Unknown EXCEPT !.status = "TIMED"]]
    OBVIOUS
  <2>2. f \in [Legs -> Fixture]
    <3>1. [Unknown EXCEPT !.status = "TIMED"] \in Fixture
      BY Bounds, LeagueAssumption DEF Unknown, Fixture
    <3> QED
      BY <2>1, <3>1
  <2>3. PICK g : g = [n \in Legs |-> [f[n] EXCEPT !.start = dates[n]]]
    OBVIOUS
  <2>4. g = [n \in Legs |-> [Unknown EXCEPT !.status = "TIMED", !.start = dates[n]]]
    BY <2>1, <2>3
  <2>5. g \in FixturePair
    BY <2>2, <2>3, OtherDates
  <2> QED
    BY <1>2, <2>4, <2>5, ReportType DEF Publish
<1>3. ASSUME NEW dates \in Schedules, Reschedule(p, dates) PROVE TypesOK'
  <2>1. PICK g : g = [n \in Legs |-> [provider[p][n] EXCEPT !.start = dates[n]]]
    OBVIOUS
  <2>2. g \in FixturePair
    BY <1>1, <2>1, OtherDates
  <2> QED
    BY <1>3, <2>1, <2>2, ReportType DEF Reschedule
<1>4. CASE Withdraw(p)
  BY <1>4, UnknownType, ReportType DEF Withdraw
<1>5. ASSUME NEW m \in Legs, NEW status \in Statuses, Announce(p, m, status) PROVE TypesOK'
  <2>1. PICK row : row = [provider[p][m] EXCEPT !.status = status, !.score = NoScore, !.decision = Unknown.decision]
    OBVIOUS
  <2>2. provider[p][m] \in Fixture
    BY <1>1
  <2>3. row \in Fixture /\ row.start = provider[p][m].start
    BY <2>1, <2>2 DEF Fixture, Unknown
  <2>4. PICK g : g = [provider[p] EXCEPT ![m] = row]
    OBVIOUS
  <2>5. g \in FixturePair
    <3>1. g \in [Legs -> Fixture] /\ \A n \in Legs : g[n].start = provider[p][n].start
      BY <1>1, <2>3, <2>4
    <3> QED
      BY <1>1, <3>1, SameDates
  <2>6. g = [provider[p] EXCEPT ![m].status = status, ![m].score = NoScore, ![m].decision = Unknown.decision]
    BY <1>1, <2>1, <2>2, <2>4 DEF Fixture
  <2> QED
    BY <1>5, <2>5, <2>6, ReportType DEF Announce
<1>6. ASSUME NEW legs \in SUBSET Legs, NEW score \in Scores, NEW decision \in Decisions \cup {Unknown.decision},
             Finish(p, legs, score, decision)
      PROVE  TypesOK'
  <2>1. PICK g : g = [n \in Legs |->
          IF n \notin legs THEN provider[p][n]
          ELSE [provider[p][n] EXCEPT !.status = "FINISHED", !.score = score,
                                      !.decision = IF n = 2 THEN decision ELSE @]]
    OBVIOUS
  <2>2. ASSUME NEW n \in Legs PROVE g[n] \in Fixture /\ g[n].start = provider[p][n].start
    <3>1. provider[p][n] \in Fixture /\ "FINISHED" \in Statuses
      BY <1>1, LeagueAssumption
    <3>2. CASE n \notin legs
      BY <2>1, <3>1, <3>2
    <3>3. CASE n \in legs
      <4>1. PICK d : d = (IF n = 2 THEN decision ELSE provider[p][n].decision)
        OBVIOUS
      <4>2. d \in Decisions \cup {<<NoScore, NoScore>>}
        BY <3>1, <4>1 DEF Fixture, Unknown
      <4>3. g[n] = [provider[p][n] EXCEPT !.status = "FINISHED", !.score = score, !.decision = d]
        BY <2>1, <3>1, <3>3, <4>1 DEF Fixture
      <4> QED
        BY <3>1, <4>2, <4>3 DEF Fixture
    <3> QED
      BY <3>2, <3>3
  <2>3. g \in [Legs -> Fixture]
    BY <2>1, <2>2
  <2>4. g \in FixturePair
    BY <1>1, <2>2, <2>3, SameDates
  <2> QED
    BY <1>6, <2>1, <2>4, ReportType DEF Finish
<1> QED
  BY <1>2, <1>3, <1>4, <1>5, <1>6 DEF Reports

LEMMA InitTypes == Init => TypesOK
<1> SUFFICES ASSUME Init PROVE TypesOK
  OBVIOUS
<1>1. WorldOK
  BY Bounds, UnknownType DEF Init, WorldOK, Instants, Idle
<1>2. RowsOK
  BY NoRowTypes DEF Init, RowsOK, Idle
<1>3. SyncOK
  BY IdleType DEF Init, SyncOK
<1> QED
  BY <1>1, <1>2, <1>3 DEF Init, TypesOK, FreshOK

LEMMA NextTypes == TypesOK /\ [Next]_vars => TypesOK'
<1> SUFFICES ASSUME TypesOK, [Next]_vars PROVE TypesOK'
  OBVIOUS
<1>1. CASE UNCHANGED vars
  BY <1>1 DEF vars, rows, world, TypesOK, WorldOK, RowsOK, SyncOK, FreshOK
<1>2. ASSUME NEW s \in Syncs, Fetch(s) \/ Proceeds(s) \/ Fails(s) PROVE TypesOK'
  BY <1>2, FetchType, ProceedsType, FailsType
<1>3. ASSUME NEW p \in Pairs, ClaimExpires(p) \/ Reports(p) PROVE TypesOK'
  BY <1>3, ExpiresType, ReportsType
<1>4. ASSUME NEW id \in TieIds, ChangeTie(id) PROVE TypesOK'
  BY <1>4, DeleteTieType, ByHandType DEF ChangeTie
<1> QED
  BY <1>1, <1>2, <1>3, <1>4, SwitchType, TickType DEF Next

(* Every row the synchronization reads or writes has its shape, whatever is
   interleaved with it (LeagueTypeOK). *)
THEOREM LeagueTypes == Spec => []LeagueTypeOK
<1>1. TypesOK => LeagueTypeOK
  BY DEF TypesOK, WorldOK, RowsOK, LeagueTypeOK, FixturePair
<1> QED
  BY <1>1, InitTypes, NextTypes, PTL DEF Spec

-----------------------------------------------------------------------------
(* Results are kept: an application that still has the last version of a leg
   knows the leg as it is, and a tie without both scores is undecided. *)

Reads == {"bind", "link", "legs"}
LegRow(id, n) == <<"leg", id, n>>
AsRead(s) ==
  sync[s].pc \in Reads =>
    /\ ties[sync[s].tie].state # "none"
    /\ \A n \in Legs : LegRow(sync[s].tie, n) \in fresh[s] =>
         /\ ties[sync[s].tie].score[n] = sync[s].was.score[n]
         /\ ties[sync[s].tie].start[n] = sync[s].was.start[n]
Sound(tie) == (\E n \in Legs : tie.score[n] = NoScore) => tie.result.winner = "none"
KeptInv == TypesOK /\ (\A s \in Syncs : AsRead(s)) /\ (\A id \in TieIds : Sound(ties[id]))

(* What a step may do without disturbing this *)
Fewer ==
  \A x \in Syncs, id \in TieIds, n \in Legs : LegRow(id, n) \in fresh'[x] => LegRow(id, n) \in fresh[x]
Steady ==
  \A x \in Syncs : sync'[x].pc \in Reads =>
    sync[x].pc \in Reads /\ sync'[x].tie = sync[x].tie /\ sync'[x].was = sync[x].was
LegsKept ==
  \A id \in TieIds :
    /\ ties[id].state # "none" => ties'[id].state # "none"
    /\ \A n \in Legs :
         \/ ties'[id].score[n] = ties[id].score[n] /\ ties'[id].start[n] = ties[id].start[n]
         \/ \A x \in Syncs : LegRow(id, n) \notin fresh'[x]
    /\ Sound(ties[id]) => Sound(ties'[id])
Gentle == Fewer /\ Steady /\ LegsKept

LEMMA GentleKeeps ==
  ASSUME KeptInv, Gentle, TypesOK'
  PROVE  KeptInv'
<1>1. ASSUME NEW s \in Syncs PROVE AsRead(s)'
  <2>1. SUFFICES ASSUME sync'[s].pc \in Reads
                 PROVE  /\ ties'[sync'[s].tie].state # "none"
                        /\ \A n \in Legs : LegRow(sync'[s].tie, n) \in fresh'[s] =>
                             /\ ties'[sync'[s].tie].score[n] = sync'[s].was.score[n]
                             /\ ties'[sync'[s].tie].start[n] = sync'[s].was.start[n]
    BY DEF AsRead, LegRow
  <2>2. sync[s].pc \in Reads /\ sync'[s].tie = sync[s].tie /\ sync'[s].was = sync[s].was
    BY <2>1 DEF Gentle, Steady
  <2>3. sync[s].tie \in TieIds
    BY <2>2, AtType DEF Reads, Ready, WithTie, KeptInv
  <2>4. AsRead(s)
    BY DEF KeptInv
  <2> QED
    BY <2>2, <2>3, <2>4 DEF AsRead, Gentle, Fewer, LegsKept
<1>2. \A id \in TieIds : Sound(ties'[id])
  BY DEF KeptInv, Gentle, LegsKept
<1> QED
  BY <1>1, <1>2 DEF KeptInv, Sound

(* How the versions and the place of an application change *)
LEMMA FewerRows ==
  ASSUME FreshOK
  PROVE  /\ \A set : Outdates(set) => Fewer
         /\ \A s, set : Forgets(s, set) => Fewer
         /\ \A s, set, p, n : OutdatesFor(s, set, {ImportRow(p, n)}) => Fewer
         /\ \A s \in Syncs : fresh' = [fresh EXCEPT ![s] = {}] => Fewer
         /\ UNCHANGED fresh => Fewer
<1>1. \A id, m, p, n : LegRow(id, m) # ImportRow(p, n)
  BY DEF LegRow, ImportRow
<1>2. ASSUME NEW s, NEW set, NEW p, NEW n, OutdatesFor(s, set, {ImportRow(p, n)}) PROVE Fewer
  BY <1>1, <1>2 DEF OutdatesFor, Fewer
<1> QED
  BY <1>2 DEF Outdates, Forgets, Fewer, FreshOK

LEMMA SteadyGoes ==
  ASSUME SyncOK, NEW s \in Syncs, NEW state, Goes(s, state),
         \/ state.pc \notin Reads
         \/ sync[s].pc \in Reads /\ state.tie = sync[s].tie /\ state.was = sync[s].was
  PROVE  Steady
BY DEF SyncOK, Goes, Steady

LEMMA SteadySame ==
  ASSUME UNCHANGED sync
  PROVE  Steady
BY DEF Steady

LEMMA OutOfReads ==
  /\ Idle.pc \notin Reads
  /\ \A state : Onward(state).pc \notin Reads \/ state \notin Local
  /\ \A state \in Local : Done(state).pc \notin Reads
<1>1. Idle.pc \notin Reads
  BY DEF Idle, Reads
<1>2. ASSUME NEW state \in Local PROVE Onward(state).pc \notin Reads
  BY <1>1 DEF Onward, Reads, Local
<1>3. ASSUME NEW state \in Local PROVE Done(state).pc \notin Reads
  <2>1. PICK next : next = [Idle EXCEPT !.current = state.current, !.used = state.used,
                      !.todo = state.todo \ {state.pair},
                      !.snap = [state.snap EXCEPT ![state.pair] = Idle.snap[state.pair]],
                      !.known = state.known]
    OBVIOUS
  <2>2. Done(state) = Onward(next)
    BY <2>1 DEF Done
  <2>3. [next EXCEPT !.pc = "choose"].pc = "choose"
    BY <2>1 DEF Idle
  <2> QED
    BY <1>1, <2>2, <2>3 DEF Onward, Reads
<1> QED
  BY <1>1, <1>2, <1>3

LEMMA SameLegs ==
  ASSUME UNCHANGED ties
  PROVE  LegsKept
BY DEF LegsKept

(* An application that ends, or ends with an exception *)
LEMMA LeaveGentle ==
  ASSUME TypesOK, NEW s \in Syncs, Leave(s) \/ FlagRefused(s) \/ Fails(s)
  PROVE  Gentle
<1>1. Goes(s, Idle) /\ UNCHANGED ties
  BY DEF Leave, FlagRefused, Fails
<1>2. Fewer
  BY FewerRows DEF Leave, FlagRefused, Fails, TypesOK
<1> QED
  BY <1>1, <1>2, OutOfReads, SteadyGoes, SameLegs DEF Gentle, TypesOK

(* The steps up to the tie, and those after its legs *)
LEMMA BeforeGentle ==
  ASSUME TypesOK, NEW s \in Syncs,
         Fetch(s) \/ Read(s) \/ Skip(s) \/ Choose(s) \/ SeeSecond(s) \/ Configure(s) \/ Claim(s)
  PROVE  Gentle
<1>1. UNCHANGED ties
  BY DEF Fetch, Read, Skip, Choose, SeeSecond, Configure, Claim, rows
<1>2. Fewer
  BY FewerRows DEF Fetch, Read, Skip, Choose, SeeSecond, SeeLeg, Configure, Claim, TypesOK
<1>3. sync[s] \in Local
  BY AtType
<1>4. PICK state : Goes(s, state) /\ state.pc \notin Reads
  <2>1. CASE Fetch(s)
    <3>1. [Idle EXCEPT !.pc = "read", !.current = TRUE, !.snap = provider].pc \notin Reads
      BY DEF Idle, Reads
    <3> QED
      BY <2>1, <3>1 DEF Fetch
  <2>2. CASE Read(s)
    <3>1. ASSUME NEW next \in Local PROVE Onward(next).pc \notin Reads
      BY OutOfReads
    <3>2. PICK flagged : flagged = [p \in Pairs |-> [n \in Legs |->
            IF <<p, n>> \in Missing(sync[s].snap) THEN Conflicting(imports[p][n]) ELSE imports[p][n]]]
      OBVIOUS
    <3>3. PICK next : next = [sync[s] EXCEPT !.known = flagged, !.used = UsedPositions,
                                             !.todo = Reported(sync[s].snap)]
      OBVIOUS
    <3>4. Goes(s, Onward(next)) /\ sync[s].pc = "read"
      BY <2>2, <3>2, <3>3 DEF Read, At
    <3>5. Onward(next).pc \notin Reads
      BY <1>3, <3>3 DEF Onward, Idle, Local, Reads
    <3> QED
      BY <3>4, <3>5
  <2>3. CASE Skip(s)
    BY <2>3, ChosenType, OutOfReads DEF Skip
  <2>4. CASE Choose(s)
    <3>1. Chosen(s) \in Local /\ Chosen(s).pc = "see"
      BY <2>4, ChosenType DEF Choose
    <3>2. [Chosen(s) EXCEPT !.seen[1] = SeenLeg(1, Chosen(s))].pc = "see"
      BY <3>1 DEF Local
    <3> QED
      BY <2>4, <3>2 DEF Choose, Reads
  <2>5. CASE SeeSecond(s)
    <3>1. PICK pc \in {"node", "flag"} : pc = (IF links[sync[s].pair].tombstoned THEN "flag" ELSE "node")
      OBVIOUS
    <3>2. PICK next : next = [sync[s] EXCEPT !.seen[2] = SeenLeg(2, sync[s]), !.pc = pc]
      OBVIOUS
    <3>3. next.pc = pc
      BY <1>3, <3>2 DEF Local
    <3>4. Goes(s, Done(sync[s])) \/ Goes(s, next)
      BY <2>5, <3>1, <3>2 DEF SeeSecond
    <3>5. Done(sync[s]).pc \notin Reads /\ next.pc \notin Reads
      BY <1>3, <3>1, <3>3, OutOfReads DEF Reads
    <3> QED
      BY <3>4, <3>5
  <2>6. CASE Configure(s)
    <3>1. PICK pc \in {"claim", "flag"} :
            Goes(s, [sync[s] EXCEPT !.pc = pc, !.bound = nodes[sync[s].pos].tie, !.now = 0])
      BY <2>6 DEF Configure
    <3>2. [sync[s] EXCEPT !.pc = pc, !.bound = nodes[sync[s].pos].tie, !.now = 0].pc = pc
      BY <1>3 DEF Local
    <3> QED
      BY <3>1, <3>2 DEF Reads
  <2>7. CASE Claim(s)
    <3>1. [sync[s] EXCEPT !.pc = "tie"].pc = "tie"
      BY <1>3 DEF Local
    <3> QED
      BY <2>7, <3>1 DEF Claim, GoesTo, Reads
  <2> QED
    BY <2>1, <2>2, <2>3, <2>4, <2>5, <2>6, <2>7
<1> QED
  BY <1>1, <1>2, <1>4, SteadyGoes, SameLegs DEF Gentle, TypesOK

LEMMA BindGentle ==
  ASSUME TypesOK, NEW s \in Syncs, BindNode(s) \/ RecordLink(s)
  PROVE  Gentle
<1>1. UNCHANGED <<ties, fresh>>
  BY DEF BindNode, RecordLink
<1>2. sync[s] \in Local /\ sync[s].pc \in Reads
  BY AtType DEF BindNode, RecordLink, At, Reads
<1>3. PICK state : Goes(s, state) /\ state.tie = sync[s].tie /\ state.was = sync[s].was
  <2>1. CASE BindNode(s)
    <3>1. PICK next : next = [sync[s] EXCEPT !.pc = "link"]
      OBVIOUS
    <3>2. next.tie = sync[s].tie /\ next.was = sync[s].was
      BY <1>2, <3>1 DEF Local
    <3> QED
      BY <2>1, <3>1, <3>2 DEF BindNode, GoesTo
  <2>2. CASE RecordLink(s)
    <3>1. PICK next : next = Preflighted(s)
      OBVIOUS
    <3>2. next.tie = sync[s].tie /\ next.was = sync[s].was
      BY <1>2, <3>1 DEF Local, Preflighted
    <3> QED
      BY <2>2, <3>1, <3>2 DEF RecordLink
  <2> QED
    BY <2>1, <2>2
<1> QED
  BY <1>1, <1>2, <1>3, FewerRows, SteadyGoes, SameLegs DEF Gentle, TypesOK

LEMMA AfterGentle ==
  ASSUME TypesOK, NEW s \in Syncs, MarkImported(s) \/ Mirror(s) \/ Flag(s)
  PROVE  Gentle
<1>1. UNCHANGED ties
  BY DEF MarkImported, Mirror, Flag
<1>2. Fewer
  BY FewerRows DEF MarkImported, Mirror, Flag, TypesOK
<1>3. sync[s] \in Local
  BY AtType
<1>4. PICK state : Goes(s, state) /\ state.pc \notin Reads
  <2>1. CASE MarkImported(s)
    <3>1. PICK pc \in {"result", "import"} : pc = (IF Head(sync[s].left) = 2 THEN "result" ELSE "import")
      OBVIOUS
    <3>2. PICK next : next = [sync[s] EXCEPT !.left = Tail(sync[s].left), !.pc = pc]
      OBVIOUS
    <3>3. next.pc = pc
      BY <1>3, <3>2 DEF Local
    <3>4. Goes(s, next)
      BY <2>1, <3>1, <3>2 DEF MarkImported
    <3> QED
      BY <3>3, <3>4 DEF Reads
  <2>2. CASE Mirror(s) \/ Flag(s)
    BY <1>3, <2>2, OutOfReads DEF Mirror, Flag
  <2> QED
    BY <2>1, <2>2
<1> QED
  BY <1>1, <1>2, <1>4, SteadyGoes, SameLegs DEF Gentle, TypesOK

(* What is written to a tie *)
LEMMA RescheduledKeeps ==
  ASSUME NEW tie \in Tie, NEW n \in Legs, NEW start
  PROVE  /\ Rescheduled(tie, n, start).state = tie.state
         /\ Rescheduled(tie, n, start).score = tie.score
         /\ Rescheduled(tie, n, start).result = tie.result
         /\ \A m \in Legs \ {n} : Rescheduled(tie, n, start).start[m] = tie.start[m]
BY DEF Rescheduled, Tie, Dates, NoDates, Legs

LEMMA ScoredKeeps ==
  ASSUME NEW tie \in Tie, NEW n \in Legs, NEW score
  PROVE  /\ Scored(tie, n, score).state = tie.state
         /\ Scored(tie, n, score).start = tie.start
         /\ \A m \in Legs \ {n} : Scored(tie, n, score).score[m] = tie.score[m]
         /\ Sound(Scored(tie, n, score))
<1> DEFINE scores == [tie.score EXCEPT ![n] = score]
           result == Reconciled(scores[1], scores[2], tie.result)
<1>1. Scored(tie, n, score) = [tie EXCEPT !.score = scores, !.result = result]
  BY DEF Scored, Tie
<1>2. \A m \in Legs \ {n} : scores[m] = tie.score[m]
  BY DEF Tie
<1>3. scores[1] = NoScore \/ scores[2] = NoScore => result.winner = "none"
  BY DEF Reconciled, Undecided
<1> HIDE DEF scores, result
<1>4. /\ Scored(tie, n, score).state = tie.state
      /\ Scored(tie, n, score).start = tie.start
      /\ Scored(tie, n, score).score = scores
      /\ Scored(tie, n, score).result = result
  BY <1>1 DEF Tie
<1> QED
  BY <1>2, <1>3, <1>4 DEF Sound, Legs

LEMMA ChangedTie ==
  ASSUME TypesOK, NEW id \in TieIds, NEW n \in Legs, NEW tie,
         ties' = [ties EXCEPT ![id] = tie], Outdates({LegRow(id, n)}),
         \/ \E start : tie = Rescheduled(ties[id], n, start)
         \/ \E score : tie = Scored(ties[id], n, score)
  PROVE  Fewer /\ LegsKept
<1>1. Fewer
  BY FewerRows DEF TypesOK
<1>2. ties[id] \in Tie
  BY DEF TypesOK, RowsOK
<1>3. /\ tie.state = ties[id].state
      /\ \A m \in Legs \ {n} : tie.score[m] = ties[id].score[m] /\ tie.start[m] = ties[id].start[m]
      /\ Sound(ties[id]) => Sound(tie)
  BY <1>2, RescheduledKeeps, ScoredKeeps DEF Sound
<1>4. \A x \in Syncs : LegRow(id, n) \notin fresh'[x]
  BY DEF Outdates
<1>5. \A i \in TieIds : ties'[i] = IF i = id THEN tie ELSE ties[i]
  BY DEF TypesOK, RowsOK
<1> QED
  BY <1>1, <1>3, <1>4, <1>5 DEF LegsKept

(* What the application of a leg does to its tie *)
LEMMA ApplyLegEffect ==
  ASSUME TypesOK, NEW s \in Syncs, ApplyLeg(s)
  PROVE  \E n \in Legs, f \in Fixture, id \in TieIds :
           /\ id = sync[s].tie
           /\ \/ /\ LegRow(id, n) \in fresh[s] /\ CanMove(id, n, f.start)
                 /\ ties' = [ties EXCEPT ![id] = Rescheduled(ties[id], n, f.start)]
                 /\ Outdates({LegRow(id, n)})
              \/ /\ LegRow(id, n) \in fresh[s]
                 /\ sync[s].was.score[n] = NoScore
                 /\ sync[s].was.start[n] = f.start /\ f.start =< clock
                 /\ ties' = [ties EXCEPT ![id] = Scored(ties[id], n, f.score)]
                 /\ Outdates({LegRow(id, n)})
              \/ UNCHANGED ties /\ Outdates({})
<1>1. /\ sync[s] \in Local /\ Ready(sync[s]) /\ sync[s].pc = "legs" /\ sync[s].left # <<>>
      /\ sync[s].pair \in Pairs /\ sync[s].tie \in TieIds
  BY AtType DEF ApplyLeg, At, Ready, WithPair, WithTie
<1>2. PICK n : n = Head(sync[s].left)
  OBVIOUS
<1>3. PICK f : f = sync[s].snap[sync[s].pair][n]
  OBVIOUS
<1>4. PICK verdict : verdict = LegVerdict(s, n, sync[s].movable[n])
  OBVIOUS
<1>5. n \in Legs
  BY <1>1, <1>2, LeftTypes DEF Local
<1>6. f \in Fixture
  BY <1>1, <1>3, <1>5 DEF Local, FixturePair
<1>7. PICK id : id = sync[s].tie
  OBVIOUS
<1>8. id \in TieIds /\ ties \in [TieIds -> Tie]
  BY <1>1, <1>7 DEF TypesOK, RowsOK
<1>9. /\ Applies(s, n, verdict)
      /\ ties' = [ties EXCEPT ![id] =
           CASE verdict = "move" -> Rescheduled(@, n, f.start)
             [] verdict = "record" -> Scored(@, n, f.score)
             [] OTHER -> @]
      /\ Outdates(IF verdict \in {"move", "record"} THEN {LegRow(id, n)} ELSE {})
  BY <1>2, <1>3, <1>4, <1>7 DEF ApplyLeg, LegRow
<1>10. CASE verdict = "move"
  <2>1. LegRow(id, n) \in fresh[s] /\ CanMove(id, n, f.start)
    BY <1>3, <1>7, <1>9, <1>10 DEF Applies, Current, LegRow
  <2>2. ties' = [ties EXCEPT ![id] = Rescheduled(ties[id], n, f.start)]
    BY <1>9, <1>10
  <2>3. Outdates({LegRow(id, n)})
    BY <1>9, <1>10
  <2> QED
    BY <1>5, <1>6, <1>7, <1>8, <2>1, <2>2, <2>3
<1>11. CASE verdict = "record"
  <2>1. LegRow(id, n) \in fresh[s]
    BY <1>3, <1>7, <1>9, <1>11 DEF Applies, Current, LegRow
  <2>2. /\ sync[s].was.score[n] = NoScore
        /\ sync[s].was.start[n] = f.start /\ f.start =< clock
    <3>1. Verdict(f, sync[s].was.start[n], sync[s].was.score[n], sync[s].movable[n], clock) = "record"
      BY <1>3, <1>4, <1>11 DEF LegVerdict
    <3> QED
      BY <3>1 DEF Verdict
  <2>3. ties' = [ties EXCEPT ![id] = Scored(ties[id], n, f.score)]
    BY <1>9, <1>11
  <2>4. Outdates({LegRow(id, n)})
    BY <1>9, <1>11
  <2> QED
    BY <1>5, <1>6, <1>7, <1>8, <2>1, <2>2, <2>3, <2>4
<1>12. CASE verdict \notin {"move", "record"}
  <2>1. ties' = [ties EXCEPT ![id] = ties[id]]
    BY <1>9, <1>12
  <2>2. ties' = ties
    BY <1>8, <2>1
  <2>3. Outdates({})
    BY <1>9, <1>12
  <2> QED
    BY <1>5, <1>6, <1>7, <1>8, <2>2, <2>3
<1> QED
  BY <1>10, <1>11, <1>12

LEMMA ApplyLegGentle ==
  ASSUME TypesOK, NEW s \in Syncs, ApplyLeg(s)
  PROVE  Gentle
<1>1. Fewer /\ LegsKept
  BY ApplyLegEffect, ChangedTie, FewerRows, SameLegs DEF TypesOK
<1>2. sync[s] \in Local /\ sync[s].pc = "legs"
  BY AtType DEF ApplyLeg, At
<1>3. PICK applied : applied = [sync[s] EXCEPT !.left = Tail(@),
        !.conflict = @ \/ LegVerdict(s, Head(sync[s].left), sync[s].movable[Head(sync[s].left)]) = "conflict"]
  OBVIOUS
<1>4. applied.tie = sync[s].tie /\ applied.was = sync[s].was
      /\ [applied EXCEPT !.pc = "flag"].pc = "flag"
      /\ [applied EXCEPT !.pc = "import", !.left = <<1, 2>>, !.was = NoTie, !.movable = Idle.movable].pc = "import"
  BY <1>2, <1>3 DEF Local
<1>5. PICK state : /\ Goes(s, state)
                   /\ state \in {applied, [applied EXCEPT !.pc = "flag"],
                                 [applied EXCEPT !.pc = "import", !.left = <<1, 2>>, !.was = NoTie,
                                                 !.movable = Idle.movable]}
  <2>1. Goes(s, CASE applied.left # <<>> -> applied
                   [] applied.left = <<>> /\ applied.conflict -> [applied EXCEPT !.pc = "flag"]
                   [] OTHER -> [applied EXCEPT !.pc = "import", !.left = <<1, 2>>,
                                               !.was = NoTie, !.movable = Idle.movable])
    BY <1>3 DEF ApplyLeg
  <2> QED
    BY <2>1
<1>6. \/ state.pc \notin Reads
      \/ sync[s].pc \in Reads /\ state.tie = sync[s].tie /\ state.was = sync[s].was
  BY <1>2, <1>4, <1>5 DEF Reads
<1> QED
  BY <1>1, <1>5, <1>6, SteadyGoes DEF Gentle, TypesOK

LEMMA TieResultEffect ==
  ASSUME TypesOK, NEW s \in Syncs, TieResult(s)
  PROVE  \/ UNCHANGED ties
         \/ \E id \in TieIds : \E result :
              /\ ties' = [ties EXCEPT ![id].result = result]
              /\ ties[id].score[1] # NoScore /\ ties[id].score[2] # NoScore
              /\ ties[id].result.winner = "none"
<1>1. /\ sync[s] \in Local /\ sync[s].tie \in TieIds
  BY AtType DEF TieResult, At, Ready, WithPair, WithTie
<1>2. PICK f1, f2 : f1 = sync[s].snap[sync[s].pair][1] /\ f2 = sync[s].snap[sync[s].pair][2]
  OBVIOUS
<1>3. PICK id : id = sync[s].tie
  OBVIOUS
<1>4. PICK verdict : verdict =
        (IF ~(\A n \in Legs : sync[s].snap[sync[s].pair][n].status = "FINISHED") THEN "agrees"
         ELSE IF ties[id].state # "live" THEN "conflict" ELSE TieVerdict(f1, f2, ties[id]))
  OBVIOUS
<1>5. PICK result : result = Resolution(ties[id].score[1], ties[id].score[2], f2.decision[1], f2.decision[2])
  OBVIOUS
<1>6. ties' = IF verdict # "record" THEN ties ELSE [ties EXCEPT ![id].result = result]
  BY <1>2, <1>3, <1>4, <1>5 DEF TieResult
<1>7. CASE verdict = "record"
  <2>1. TieVerdict(f1, f2, ties[id]) = "record"
    BY <1>4, <1>7
  <2>2. /\ ties[id].score[1] # NoScore /\ ties[id].score[2] # NoScore
        /\ ties[id].result.winner = "none"
    BY <2>1 DEF TieVerdict
  <2> QED
    BY <1>1, <1>3, <1>6, <1>7, <2>2
<1> QED
  BY <1>6, <1>7

LEMMA TieResultGentle ==
  ASSUME TypesOK, NEW s \in Syncs, TieResult(s)
  PROVE  Gentle
<1>1. LegsKept
  <2>1. ASSUME NEW id \in TieIds, NEW result,
               ties' = [ties EXCEPT ![id].result = result],
               ties[id].score[1] # NoScore, ties[id].score[2] # NoScore
        PROVE  LegsKept
    <3>1. ties \in [TieIds -> Tie]
      BY DEF TypesOK, RowsOK
    <3>2. \A i \in TieIds : /\ ties'[i].state = ties[i].state /\ ties'[i].score = ties[i].score
                            /\ ties'[i].start = ties[i].start
                            /\ i # id => ties'[i] = ties[i]
      BY <2>1, <3>1 DEF Tie
    <3>3. Sound(ties'[id])
      BY <2>1, <3>2 DEF Sound, Legs
    <3> QED
      BY <3>2, <3>3 DEF LegsKept
  <2> QED
    BY <2>1, TieResultEffect, SameLegs
<1>2. Fewer
  BY FewerRows DEF TieResult, TypesOK
<1>3. PICK pc \in {"flag", "mirror"} : GoesTo(s, pc)
  BY DEF TieResult
<1>4. [sync[s] EXCEPT !.pc = pc].pc = pc
  BY AtType DEF Local
<1>5. Steady
  BY <1>3, <1>4, SteadyGoes DEF GoesTo, Reads, TypesOK
<1> QED
  BY <1>1, <1>2, <1>5 DEF Gentle

(* A tie found, or created, is known as it is. *)
LEMMA FindsKept ==
  ASSUME KeptInv, TypesOK', NEW s \in Syncs, NEW id \in TieIds, NEW tie, Finds(s, id, tie),
         ties'[id] = tie, tie.state # "none", Sound(tie),
         \A i \in TieIds : i # id => ties'[i] = ties[i],
         ties[id].state # "none" => tie = ties[id]
  PROVE  KeptInv'
<1>1. sync[s] \in Local /\ sync \in [Syncs -> Local]
  BY AtType DEF KeptInv, TypesOK, SyncOK
<1>2. PICK next : next = [sync[s] EXCEPT !.pc = "bind", !.tie = id, !.was = tie, !.bound = 0]
  OBVIOUS
<1>3. sync' = [sync EXCEPT ![s] = next] /\ OutdatesFor(s, {}, LegRows(id))
  BY <1>2 DEF Finds, Goes
<1>4. next.tie = id /\ next.was = tie
  BY <1>1, <1>2 DEF Local
<1>5. AsRead(s)'
  BY <1>1, <1>3, <1>4 DEF AsRead
<1>6. ASSUME NEW x \in Syncs, x # s PROVE AsRead(x)'
  <2>1. sync'[x] = sync[x] /\ fresh'[x] = fresh[x]
    BY <1>1, <1>3, <1>6 DEF OutdatesFor
  <2>2. AsRead(x)
    BY DEF KeptInv
  <2>3. sync[x].pc \in Reads => sync[x].tie \in TieIds /\ ties[sync[x].tie].state # "none"
    BY <2>2, AtType DEF Reads, Ready, WithTie, KeptInv, AsRead
  <2>4. sync[x].pc \in Reads => ties'[sync[x].tie] = ties[sync[x].tie]
    BY <2>3
  <2> QED
    BY <2>1, <2>2, <2>4 DEF AsRead, LegRow
<1>7. \A i \in TieIds : Sound(ties'[i])
  BY DEF KeptInv
<1> QED
  BY <1>5, <1>6, <1>7 DEF KeptInv, Sound

LEMMA FindTieKept ==
  ASSUME KeptInv, TypesOK', NEW s \in Syncs, FindTie(s)
  PROVE  KeptInv'
<1>1. UNCHANGED ties
  BY DEF FindTie, rows
<1>2. PICK id \in TiesAt(sync[s].pos) : Finds(s, id, ties[id])
  BY DEF FindTie
<1>3. id \in TieIds /\ ties[id].state # "none" /\ Sound(ties[id])
  BY DEF TiesAt, Live, KeptInv
<1> QED
  BY <1>1, <1>2, <1>3, FindsKept

LEMMA CreateTieKept ==
  ASSUME KeptInv, TypesOK', NEW s \in Syncs, CreateTie(s)
  PROVE  KeptInv'
<1>1. PICK id : id = (CHOOSE x \in Unused : \A y \in Unused : x =< y)
  OBVIOUS
<1>2. id \in TieIds /\ ties[id].state = "none"
  BY <1>1, NewId DEF CreateTie, Unused
<1>3. PICK tie : tie = [NoTie EXCEPT !.state = "live", !.pair = sync[s].pair, !.pos = sync[s].pos,
                                     !.start = Starts(sync[s].snap[sync[s].pair])]
  OBVIOUS
<1>4. tie.state = "live" /\ tie.result = Undecided
  BY <1>3 DEF NoTie
<1>5. Sound(tie)
  BY <1>4 DEF Sound, Undecided
<1>6. ties' = [ties EXCEPT ![id] = tie] /\ Finds(s, id, tie)
  BY <1>1, <1>3 DEF CreateTie
<1>7. ties'[id] = tie /\ \A i \in TieIds : i # id => ties'[i] = ties[i]
  BY <1>2, <1>6 DEF KeptInv, TypesOK, RowsOK
<1> QED
  BY <1>2, <1>4, <1>5, <1>6, <1>7, FindsKept

(* The others *)
LEMMA ByHandGentle ==
  ASSUME TypesOK, NEW id \in TieIds, NEW n \in Legs,
         \/ \E start \in Starting : MoveByHand(id, n, start)
         \/ \E score \in Scores : ScoreByHand(id, n, score)
  PROVE  Gentle
<1>1. Steady
  BY SteadySame DEF MoveByHand, ScoreByHand
<1>2. PICK tie : /\ ties' = [ties EXCEPT ![id] = tie]
                 /\ \/ \E start : tie = Rescheduled(ties[id], n, start)
                    \/ \E score : tie = Scored(ties[id], n, score)
  BY DEF MoveByHand, ScoreByHand
<1>3. Outdates({LegRow(id, n)})
  BY DEF MoveByHand, ScoreByHand, LegRow
<1> QED
  BY <1>1, <1>2, <1>3, ChangedTie DEF Gentle

LEMMA DeleteTieGentle ==
  ASSUME TypesOK, NEW id \in TieIds, DeleteTie(id)
  PROVE  Gentle
<1>1. Steady
  BY SteadySame DEF DeleteTie
<1>2. PICK outdated : LegRows(id) \subseteq outdated /\ Outdates(outdated)
  BY DEF DeleteTie
<1>3. Fewer
  BY <1>2, FewerRows DEF TypesOK
<1>4. \A n \in Legs, x \in Syncs : LegRow(id, n) \notin fresh'[x]
  BY <1>2 DEF Outdates, LegRows, LegRow
<1>5. PICK tie : tie = [NoTie EXCEPT !.state = "deleted"]
  OBVIOUS
<1>6. tie.state = "deleted" /\ Sound(tie)
  BY <1>5 DEF NoTie, Sound, Undecided
<1>7. ties \in [TieIds -> Tie] /\ ties' = [ties EXCEPT ![id] = tie]
  BY <1>5 DEF DeleteTie, TypesOK, RowsOK
<1>8. \A i \in TieIds : ties'[i] = IF i = id THEN tie ELSE ties[i]
  BY <1>7
<1>9. LegsKept
  BY <1>4, <1>6, <1>8 DEF LegsKept
<1> QED
  BY <1>1, <1>3, <1>9 DEF Gentle

LEMMA ReportsKeep ==
  ASSUME NEW p \in Pairs, Reports(p)
  PROVE  UNCHANGED <<ties, fresh, sync>>
<1>1. \A fixtures : Report(p, fixtures) => UNCHANGED <<ties, fresh, sync>>
  BY DEF Report, rows
<1> QED
  BY <1>1 DEF Reports, Publish, Reschedule, Withdraw, Announce, Finish

LEMMA WorldGentle ==
  ASSUME TypesOK, Switch \/ Tick \/ \E p \in Pairs : ClaimExpires(p) \/ Reports(p)
  PROVE  Gentle
<1>1. CASE Switch
  <2>1. \A x \in Syncs : sync[x] \in Local
    BY AtType
  <2>2. \A x \in Syncs : /\ sync'[x].pc = sync[x].pc /\ sync'[x].tie = sync[x].tie
                         /\ sync'[x].was = sync[x].was
    BY <1>1, <2>1 DEF Switch, Local
  <2>3. UNCHANGED <<ties, fresh>>
    BY <1>1 DEF Switch, rows
  <2> QED
    BY <2>2, <2>3, FewerRows, SameLegs DEF Steady, Gentle, TypesOK
<1>2. CASE Tick
  <2>1. UNCHANGED <<ties, sync>>
    BY <1>2 DEF Tick, rows
  <2>2. Fewer
    BY <1>2, FewerRows DEF Tick, TypesOK
  <2> QED
    BY <2>1, <2>2, SteadySame, SameLegs DEF Gentle
<1>3. ASSUME NEW p \in Pairs, ClaimExpires(p) \/ Reports(p) PROVE Gentle
  <2>1. UNCHANGED <<ties, fresh, sync>>
    BY <1>3, ReportsKeep DEF ClaimExpires
  <2> QED
    BY <2>1, FewerRows, SteadySame, SameLegs DEF Gentle, TypesOK
<1> QED
  BY <1>1, <1>2, <1>3

-----------------------------------------------------------------------------

LEMMA InitKept == Init => KeptInv
<1> SUFFICES ASSUME Init PROVE KeptInv
  OBVIOUS
<1>1. \A s \in Syncs : AsRead(s)
  BY DEF Init, AsRead, Idle, Reads
<1>2. Sound(NoTie)
  BY DEF NoTie, Sound, Undecided
<1> QED
  BY <1>1, <1>2, InitTypes DEF Init, KeptInv

LEMMA NextKept == KeptInv /\ [Next]_vars => KeptInv'
<1> SUFFICES ASSUME KeptInv, [Next]_vars PROVE KeptInv'
  OBVIOUS
<1>1. TypesOK /\ TypesOK'
  BY NextTypes DEF KeptInv
<1>2. CASE UNCHANGED vars
  BY <1>1, <1>2, FewerRows, SteadySame, SameLegs, GentleKeeps DEF vars, rows, Gentle, TypesOK
<1>3. ASSUME NEW s \in Syncs, Fetch(s) \/ Proceeds(s) \/ Fails(s) PROVE KeptInv'
  <2>1. CASE FindTie(s)
    BY <1>1, <2>1, FindTieKept
  <2>2. CASE CreateTie(s)
    BY <1>1, <2>2, CreateTieKept
  <2>3. CASE Refused(s) \/ Stops(s)
    <3>1. Leave(s) \/ FlagRefused(s)
      BY <2>3 DEF Refused, Stops, SeeRefused, ClaimRefused, WrongTie, BindRefused, LinkRefused, ApplyRefused,
                  ImportRefused, MirrorRefused
    <3> QED
      BY <1>1, <3>1, LeaveGentle, GentleKeeps
  <2>4. CASE ~(FindTie(s) \/ CreateTie(s) \/ Refused(s) \/ Stops(s))
    BY <1>1, <1>3, <2>4, LeaveGentle, BeforeGentle, BindGentle, ApplyLegGentle, AfterGentle, TieResultGentle,
       GentleKeeps DEF Proceeds
  <2> QED
    BY <2>1, <2>2, <2>3, <2>4
<1>4. ASSUME NEW p \in Pairs, ClaimExpires(p) \/ Reports(p) PROVE KeptInv'
  BY <1>1, <1>4, WorldGentle, GentleKeeps
<1>5. ASSUME NEW id \in TieIds, ChangeTie(id) PROVE KeptInv'
  BY <1>1, <1>5, DeleteTieGentle, ByHandGentle, GentleKeeps DEF ChangeTie
<1>6. CASE Switch \/ Tick
  BY <1>1, <1>6, WorldGentle, GentleKeeps
<1> QED
  BY <1>2, <1>3, <1>4, <1>5, <1>6 DEF Next

(* What ResultsKept says of one leg *)
LegStands(id, n) ==
  /\ ties'[id].state = "live"
  /\ ties[id].score[n] # NoScore => ties'[id].score[n] = ties[id].score[n]
  /\ ties[id].start[n] =< clock => ties'[id].start[n] = ties[id].start[n]
  /\ ties'[id].score[n] # ties[id].score[n] => ties[id].start[n] =< clock
  /\ ties[id].result.winner # "none" => ties'[id].result = ties[id].result

LEMMA SameStands ==
  ASSUME NEW id \in Live, NEW n \in Legs, ties'[id] = ties[id]
  PROVE  LegStands(id, n)
BY DEF LegStands, Live

LEMMA ApplyLegStands ==
  ASSUME KeptInv, NEW s \in Syncs, ApplyLeg(s), NEW i \in Live, NEW m \in Legs
  PROVE  LegStands(i, m)
<1>1. TypesOK /\ i \in TieIds /\ ties \in [TieIds -> Tie] /\ ties[i] \in Tie /\ ties[i].state = "live" /\ Sound(ties[i])
  BY DEF KeptInv, TypesOK, RowsOK, Live
<1>2. PICK n \in Legs, f \in Fixture, id \in TieIds :
        /\ id = sync[s].tie
        /\ \/ /\ LegRow(id, n) \in fresh[s] /\ CanMove(id, n, f.start)
              /\ ties' = [ties EXCEPT ![id] = Rescheduled(ties[id], n, f.start)]
              /\ Outdates({LegRow(id, n)})
           \/ /\ LegRow(id, n) \in fresh[s]
              /\ sync[s].was.score[n] = NoScore
              /\ sync[s].was.start[n] = f.start /\ f.start =< clock
              /\ ties' = [ties EXCEPT ![id] = Scored(ties[id], n, f.score)]
              /\ Outdates({LegRow(id, n)})
           \/ UNCHANGED ties /\ Outdates({})
  BY <1>1, ApplyLegEffect
<1>3. clock \in Nat
  BY <1>1, Bounds DEF TypesOK, WorldOK, Instants
<1>4. CASE i # id
  <2>1. ties'[i] = ties[i]
    BY <1>1, <1>2, <1>4
  <2> QED
    BY <2>1, SameStands
<1>5. CASE i = id /\ CanMove(id, n, f.start) /\ ties' = [ties EXCEPT ![id] = Rescheduled(ties[id], n, f.start)]
  <2>1. ties'[i] = Rescheduled(ties[i], n, f.start)
    BY <1>1, <1>5
  <2>2. /\ ties'[i].state = "live" /\ ties'[i].score = ties[i].score /\ ties'[i].result = ties[i].result
        /\ m # n => ties'[i].start[m] = ties[i].start[m]
    BY <1>1, <2>1, RescheduledKeeps
  <2>3. ties[i].start[n] > clock
    BY <1>5 DEF CanMove
  <2>4. ties[i].start[n] \in Nat
    <3>1. Starting \cup {0} \subseteq Nat
      BY Bounds
    <3>2. ties[i].start \in (Starting \X Starting) \cup {NoDates}
      BY <1>1 DEF Tie, Dates
    <3> QED
      BY <3>1, <3>2 DEF NoDates, Legs
  <2>5. ~(ties[i].start[n] =< clock)
    BY <1>3, <2>3, <2>4
  <2> QED
    BY <2>2, <2>5 DEF LegStands
<1>6. CASE /\ i = id /\ LegRow(id, n) \in fresh[s]
           /\ sync[s].was.score[n] = NoScore
           /\ sync[s].was.start[n] = f.start /\ f.start =< clock
           /\ ties' = [ties EXCEPT ![id] = Scored(ties[id], n, f.score)]
  <2>1. ties'[i] = Scored(ties[i], n, f.score)
    BY <1>1, <1>6
  <2>2. ties[i].score[n] = NoScore /\ ties[i].start[n] =< clock
    <3>1. AsRead(s) /\ sync[s].pc \in Reads
      BY DEF KeptInv, ApplyLeg, At, Reads
    <3> QED
      BY <1>2, <1>6, <3>1 DEF AsRead
  <2>3. /\ ties'[i].state = "live" /\ ties'[i].start = ties[i].start
        /\ m # n => ties'[i].score[m] = ties[i].score[m]
    BY <1>1, <2>1, ScoredKeeps
  <2>4. ties[i].result.winner = "none"
    BY <1>1, <2>2 DEF Sound
  <2> QED
    BY <2>2, <2>3, <2>4 DEF LegStands
<1>7. CASE UNCHANGED ties
  BY <1>7, SameStands
<1> QED
  BY <1>2, <1>4, <1>5, <1>6, <1>7

LEMMA TieResultStands ==
  ASSUME TypesOK, NEW s \in Syncs, TieResult(s), NEW i \in Live, NEW m \in Legs
  PROVE  LegStands(i, m)
<1>1. ASSUME NEW id \in TieIds, NEW result, ties' = [ties EXCEPT ![id].result = result],
             ties[id].result.winner = "none"
      PROVE  LegStands(i, m)
  <2>1. i \in TieIds /\ ties \in [TieIds -> Tie] /\ ties[i] \in Tie /\ ties[i].state = "live"
    BY DEF TypesOK, RowsOK, Live
  <2>2. CASE i # id
    BY <1>1, <2>1, <2>2, SameStands
  <2>3. CASE i = id
    <3>1. ties'[i].state = "live" /\ ties'[i].score = ties[i].score /\ ties'[i].start = ties[i].start
      BY <1>1, <2>1, <2>3 DEF Tie
    <3> QED
      BY <1>1, <2>3, <3>1 DEF LegStands
  <2> QED
    BY <2>2, <2>3
<1>2. CASE UNCHANGED ties
  BY <1>2, SameStands
<1> QED
  BY <1>1, <1>2, TieResultEffect

LEMMA CreateTieStands ==
  ASSUME TypesOK, NEW s \in Syncs, CreateTie(s), NEW i \in Live, NEW m \in Legs
  PROVE  LegStands(i, m)
<1>1. PICK id : id = (CHOOSE x \in Unused : \A y \in Unused : x =< y)
  OBVIOUS
<1>2. id # i
  BY <1>1, NewId DEF CreateTie, Unused, Live
<1>3. \E tie : ties' = [ties EXCEPT ![id] = tie]
  BY <1>1 DEF CreateTie
<1>4. ties'[i] = ties[i]
  BY <1>2, <1>3 DEF TypesOK, RowsOK, Live
<1> QED
  BY <1>4, SameStands

LEMMA ProceedsStands ==
  ASSUME KeptInv, NEW s \in Syncs, Proceeds(s), NEW i \in Live, NEW m \in Legs
  PROVE  LegStands(i, m)
<1>1. CASE ApplyLeg(s)
  BY <1>1, ApplyLegStands
<1>2. CASE TieResult(s)
  BY <1>2, TieResultStands DEF KeptInv
<1>3. CASE CreateTie(s)
  BY <1>3, CreateTieStands DEF KeptInv
<1>4. CASE ~(ApplyLeg(s) \/ TieResult(s) \/ CreateTie(s))
  <2>1. Refused(s) \/ Stops(s) => UNCHANGED ties
    BY DEF Refused, Stops, SeeRefused, ClaimRefused, WrongTie, BindRefused, LinkRefused, ApplyRefused,
           ImportRefused, MirrorRefused, FlagRefused, Leave
  <2>2. FindTie(s) \/ Skip(s) => UNCHANGED ties
    BY DEF FindTie, Skip, rows
  <2>3. Read(s) \/ Choose(s) \/ SeeSecond(s) \/ Configure(s) \/ Claim(s) => UNCHANGED ties
    BY DEF Read, Choose, SeeSecond, Configure, Claim
  <2>4. BindNode(s) \/ RecordLink(s) \/ MarkImported(s) \/ Mirror(s) \/ Flag(s) => UNCHANGED ties
    BY DEF BindNode, RecordLink, MarkImported, Mirror, Flag
  <2>5. UNCHANGED ties
    BY <1>4, <2>1, <2>2, <2>3, <2>4 DEF Proceeds
  <2> QED
    BY <2>5, SameStands
<1> QED
  BY <1>1, <1>2, <1>3, <1>4

(* The synchronization never overwrites a result nor moves a leg that has
   begun, and records a score only for a leg that has, whatever happened since
   it read the leg (ResultsKept). *)
THEOREM ResultsAreKept == Spec => ResultsKept
<1>1. ASSUME KeptInv, [Next]_vars
      PROVE  [\A s \in Syncs : Proceeds(s) =>
                \A id \in Live, n \in Legs :
                  LET was == ties[id]
                      is == ties'[id]
                  IN  /\ is.state = "live"
                      /\ was.score[n] # NoScore => is.score[n] = was.score[n]
                      /\ was.start[n] =< clock => is.start[n] = was.start[n]
                      /\ is.score[n] # was.score[n] => was.start[n] =< clock
                      /\ was.result.winner # "none" => is.result = was.result]_vars
  BY <1>1, ProceedsStands DEF LegStands
<1> QED
  BY <1>1, InitKept, NextKept, PTL DEF Spec, ResultsKept

-----------------------------------------------------------------------------
(* Nodes, links and imports name the same tie: an application knows which tie
   it is about, and who holds a claim has the tie it is about to link. *)

Claiming == {"tie", "bind", "link"}
Same(a, b) == a.state = b.state /\ a.pair = b.pair /\ a.pos = b.pos

AboutTie(s) ==
  sync[s].pc \in WithTie =>
    /\ ties[sync[s].tie].state # "none"
    /\ ties[sync[s].tie].state = "live" =>
         ties[sync[s].tie].pair = sync[s].pair /\ ties[sync[s].tie].pos = sync[s].pos
ClaimHeld(p, s) ==
  links[p].claim = s =>
    /\ sync[s].pc \in Claiming /\ sync[s].pair = p
    /\ links[p].tie = 0 /\ links[p].pos = sync[s].pos
    /\ sync[s].pc # "tie" => ties[sync[s].tie].state = "live"
NodeBound(pos) ==
  nodes[pos].tie # 0 =>
    /\ nodes[pos].tie \in Live /\ ties[nodes[pos].tie].pos = pos
    /\ nodes[pos].pair = ties[nodes[pos].tie].pair
    /\ nodes[pos].status = "materialized"
LinkBound(p) ==
  links[p].tie # 0 =>
    links[p].tie \in Live /\ ties[links[p].tie].pair = p /\ ties[links[p].tie].pos = links[p].pos
ImportBound(p, n) ==
  imports[p][n].tie # 0 =>
    /\ imports[p][n].tie \in Live /\ ties[imports[p][n].tie].pair = p
    /\ imports[p][n].pos \in Positions /\ nodes[imports[p][n].pos].tie = imports[p][n].tie
BoundInv ==
  /\ TypesOK
  /\ \A s \in Syncs : AboutTie(s)
  /\ \A p \in Pairs, s \in Syncs : ClaimHeld(p, s)
  /\ \A pos \in Positions : NodeBound(pos)
  /\ \A p \in Pairs : LinkBound(p)
  /\ \A p \in Pairs, n \in Legs : ImportBound(p, n)

(* Parts of a step that leave it alone *)
TiesSame == \A id \in TieIds : Same(ties'[id], ties[id])
TiesStand == \A id \in TieIds : ties[id].state # "none" => Same(ties'[id], ties[id])
PlacesStand ==
  \A x \in Syncs : sync'[x].pc \in WithTie =>
    /\ sync[x].pc \in WithTie /\ sync'[x].tie = sync[x].tie
    /\ sync'[x].pair = sync[x].pair /\ sync'[x].pos = sync[x].pos
ClaimsStand ==
  \A p \in Pairs, x \in Syncs : links'[p].claim = x =>
    /\ links'[p] = links[p] /\ sync'[x].pc \in Claiming
    /\ sync'[x].pair = sync[x].pair /\ sync'[x].pos = sync[x].pos
    /\ sync'[x].pc # "tie" => sync[x].pc # "tie"
NodesStand ==
  \A pos \in Positions :
    /\ nodes'[pos].tie = nodes[pos].tie
    /\ nodes[pos].tie # 0 => nodes'[pos].pair = nodes[pos].pair /\ nodes'[pos].status = nodes[pos].status
LinksStand ==
  \A p \in Pairs : links'[p].tie # 0 => links'[p].tie = links[p].tie /\ links'[p].pos = links[p].pos
ImportsStand ==
  \A p \in Pairs, n \in Legs :
    imports'[p][n].tie # 0 => imports'[p][n].tie = imports[p][n].tie /\ imports'[p][n].pos = imports[p][n].pos

LEMMA AboutKept ==
  ASSUME BoundInv, TiesStand, PlacesStand
  PROVE  \A x \in Syncs : AboutTie(x)'
<1> SUFFICES ASSUME NEW x \in Syncs, sync'[x].pc \in WithTie
             PROVE  /\ ties'[sync'[x].tie].state # "none"
                    /\ ties'[sync'[x].tie].state = "live" =>
                         ties'[sync'[x].tie].pair = sync'[x].pair /\ ties'[sync'[x].tie].pos = sync'[x].pos
  BY DEF AboutTie
<1>1. /\ sync[x].pc \in WithTie /\ sync'[x].tie = sync[x].tie
      /\ sync'[x].pair = sync[x].pair /\ sync'[x].pos = sync[x].pos
  BY DEF PlacesStand
<1>2. sync[x].tie \in TieIds /\ AboutTie(x)
  BY <1>1, AtType DEF Ready, BoundInv
<1>3. Same(ties'[sync[x].tie], ties[sync[x].tie])
  BY <1>1, <1>2 DEF AboutTie, TiesStand
<1> QED
  BY <1>1, <1>2, <1>3 DEF AboutTie, Same

LEMMA ClaimsKept ==
  ASSUME BoundInv, TiesStand, PlacesStand, ClaimsStand
  PROVE  \A p \in Pairs, x \in Syncs : ClaimHeld(p, x)'
<1> SUFFICES ASSUME NEW p \in Pairs, NEW x \in Syncs, links'[p].claim = x
             PROVE  /\ sync'[x].pc \in Claiming /\ sync'[x].pair = p
                    /\ links'[p].tie = 0 /\ links'[p].pos = sync'[x].pos
                    /\ sync'[x].pc # "tie" => ties'[sync'[x].tie].state = "live"
  BY DEF ClaimHeld
<1>1. /\ links'[p] = links[p] /\ sync'[x].pc \in Claiming
      /\ sync'[x].pair = sync[x].pair /\ sync'[x].pos = sync[x].pos
      /\ sync'[x].pc # "tie" => sync[x].pc # "tie"
  BY DEF ClaimsStand
<1>2. ClaimHeld(p, x) /\ links[p].claim = x
  BY <1>1 DEF BoundInv
<1>3. SUFFICES ASSUME sync'[x].pc # "tie" PROVE ties'[sync'[x].tie].state = "live"
  BY <1>1, <1>2 DEF ClaimHeld
<1>4. ties[sync[x].tie].state = "live" /\ sync'[x].pc \in WithTie
  BY <1>1, <1>2, <1>3 DEF ClaimHeld, Claiming, WithTie
<1>5. sync'[x].tie = sync[x].tie /\ sync[x].pc \in WithTie
  BY <1>4 DEF PlacesStand
<1>6. sync[x].tie \in TieIds
  BY <1>5, AtType DEF Ready, BoundInv
<1> QED
  BY <1>4, <1>5, <1>6 DEF TiesStand, Same

LEMMA StillLive ==
  ASSUME TiesStand, NEW id \in Live
  PROVE  id \in Live' /\ ties'[id].pair = ties[id].pair /\ ties'[id].pos = ties[id].pos
BY DEF TiesStand, Live, Same

LEMMA NodesKept ==
  ASSUME BoundInv, TiesStand, NodesStand
  PROVE  \A pos \in Positions : NodeBound(pos)'
<1> SUFFICES ASSUME NEW pos \in Positions PROVE NodeBound(pos)'
  OBVIOUS
<1>1. NodeBound(pos)
  BY DEF BoundInv
<1>2. /\ nodes'[pos].tie = nodes[pos].tie
      /\ nodes[pos].tie # 0 => nodes'[pos].pair = nodes[pos].pair /\ nodes'[pos].status = nodes[pos].status
  BY DEF NodesStand
<1> QED
  BY <1>1, <1>2, StillLive DEF NodeBound

LEMMA LinksKept ==
  ASSUME BoundInv, TiesStand, LinksStand
  PROVE  \A p \in Pairs : LinkBound(p)'
<1> SUFFICES ASSUME NEW p \in Pairs PROVE LinkBound(p)'
  OBVIOUS
<1>1. LinkBound(p)
  BY DEF BoundInv
<1>2. links'[p].tie # 0 => links'[p].tie = links[p].tie /\ links'[p].pos = links[p].pos
  BY DEF LinksStand
<1> QED
  BY <1>1, <1>2, StillLive DEF LinkBound

LEMMA ImportsKept ==
  ASSUME BoundInv, TiesStand, NodesStand, ImportsStand
  PROVE  \A p \in Pairs, n \in Legs : ImportBound(p, n)'
<1> SUFFICES ASSUME NEW p \in Pairs, NEW n \in Legs PROVE ImportBound(p, n)'
  OBVIOUS
<1>1. ImportBound(p, n)
  BY DEF BoundInv
<1>2. imports'[p][n].tie # 0 => imports'[p][n].tie = imports[p][n].tie /\ imports'[p][n].pos = imports[p][n].pos
  BY DEF ImportsStand
<1>3. \A pos \in Positions : nodes'[pos].tie = nodes[pos].tie
  BY DEF NodesStand
<1> QED
  BY <1>1, <1>2, <1>3, StillLive DEF ImportBound

LEMMA AllStand ==
  ASSUME BoundInv, TypesOK', TiesStand, PlacesStand, ClaimsStand, NodesStand, LinksStand, ImportsStand
  PROVE  BoundInv'
BY AboutKept, ClaimsKept, NodesKept, LinksKept, ImportsKept DEF BoundInv

(* How an application moves on *)
LEMMA OutsideGoes ==
  ASSUME BoundInv, NEW s \in Syncs, NEW state, Goes(s, state), UNCHANGED links, sync[s].pc \notin Claiming,
         \/ state.pc \notin WithTie
         \/ /\ sync[s].pc \in WithTie /\ state.tie = sync[s].tie
            /\ state.pair = sync[s].pair /\ state.pos = sync[s].pos
  PROVE  PlacesStand /\ ClaimsStand
<1>1. sync'[s] = state /\ \A x \in Syncs : x # s => sync'[x] = sync[x]
  BY DEF Goes, BoundInv, TypesOK, SyncOK
<1>2. PlacesStand
  BY <1>1 DEF PlacesStand
<1>3. ASSUME NEW p \in Pairs, NEW x \in Syncs, links'[p].claim = x
      PROVE  sync[x].pc \in Claiming /\ x # s
  BY <1>3 DEF BoundInv, ClaimHeld
<1> QED
  BY <1>1, <1>2, <1>3 DEF ClaimsStand

LEMMA EndingStands ==
  ASSUME BoundInv, NEW s \in Syncs, Goes(s, Idle), links' = Abandoned(s)
  PROVE  PlacesStand /\ ClaimsStand /\ LinksStand
<1>1. sync'[s] = Idle /\ \A x \in Syncs : x # s => sync'[x] = sync[x]
  BY DEF Goes, BoundInv, TypesOK, SyncOK
<1>2. PlacesStand
  BY <1>1 DEF PlacesStand, Idle, WithTie
<1>3. ASSUME NEW p \in Pairs
      PROVE  /\ links'[p].tie = links[p].tie /\ links'[p].pos = links[p].pos
             /\ links[p].claim = s => links'[p].claim = "lost"
             /\ links[p].claim # s => links'[p] = links[p]
  <2>1. links[p] \in Link
    BY DEF BoundInv, TypesOK, RowsOK
  <2> QED
    BY <2>1 DEF Abandoned, Link
<1>4. LinksStand
  BY <1>3 DEF LinksStand
<1>5. ASSUME NEW p \in Pairs, NEW x \in Syncs, links'[p].claim = x
      PROVE  links'[p] = links[p] /\ x # s /\ sync[x].pc \in Claiming
  <2>1. x # "lost"
    BY Bounds
  <2>2. links'[p] = links[p] /\ x # s
    BY <1>3, <1>5, <2>1
  <2>3. ClaimHeld(p, x)
    BY DEF BoundInv
  <2> QED
    BY <1>5, <2>2, <2>3 DEF ClaimHeld
<1> QED
  BY <1>1, <1>2, <1>4, <1>5 DEF ClaimsStand

LEMMA OutOfTie ==
  ASSUME NEW state \in Local
  PROVE  Onward(state).pc \notin WithTie /\ Done(state).pc \notin WithTie
<1>1. Idle.pc \notin WithTie
  BY DEF Idle, WithTie
<1>2. Onward(state).pc \notin WithTie
  BY <1>1 DEF Onward, WithTie, Local
<1>3. PICK next : next = [Idle EXCEPT !.current = state.current, !.used = state.used,
                    !.todo = state.todo \ {state.pair},
                    !.snap = [state.snap EXCEPT ![state.pair] = Idle.snap[state.pair]],
                    !.known = state.known]
  OBVIOUS
<1>4. Done(state) = Onward(next)
  BY <1>3 DEF Done
<1>5. [next EXCEPT !.pc = "choose"].pc = "choose"
  BY <1>3 DEF Idle
<1> QED
  BY <1>1, <1>2, <1>4, <1>5 DEF Onward, WithTie

LEMMA RowsStand ==
  ASSUME BoundInv
  PROVE  /\ UNCHANGED ties => TiesSame /\ TiesStand
         /\ UNCHANGED nodes => NodesStand
         /\ UNCHANGED links => LinksStand
         /\ UNCHANGED imports => ImportsStand
BY DEF TiesSame, TiesStand, Same, NodesStand, LinksStand, ImportsStand

LEMMA ImportRowStands ==
  ASSUME NEW row \in Import
  PROVE  /\ Conflicting(row).tie = row.tie /\ Conflicting(row).pos = row.pos
         /\ \A pos, f : LET seen == Seen(row, pos, f)
                        IN  seen.tie # 0 => seen.tie = row.tie /\ seen.pos = row.pos
BY DEF Conflicting, Seen, Import

LEMMA SeeLegStands ==
  ASSUME BoundInv, NEW s \in Syncs, NEW n \in Legs, NEW chosen, chosen.pair \in Pairs, SeeLeg(s, n, chosen)
  PROVE  ImportsStand
<1>1. imports \in [Pairs -> [Legs -> Import]]
  BY DEF BoundInv, TypesOK, RowsOK
<1>2. PICK p \in Pairs : p = chosen.pair
  OBVIOUS
<1>3. PICK row : row = SeenLeg(n, chosen)
  OBVIOUS
<1>4. imports' = [imports EXCEPT ![p][n] = row]
  BY <1>2, <1>3 DEF SeeLeg
<1>5. row.tie # 0 => row.tie = imports[p][n].tie /\ row.pos = imports[p][n].pos
  BY <1>1, <1>2, <1>3, ImportRowStands DEF SeenLeg
<1> QED
  BY <1>1, <1>4, <1>5 DEF ImportsStand

(* The steps up to the tie *)
LEMMA EndsBound ==
  ASSUME BoundInv, TypesOK', NEW s \in Syncs, Leave(s) \/ FlagRefused(s) \/ Fails(s)
  PROVE  BoundInv'
<1>1. Goes(s, Idle) /\ links' = Abandoned(s) /\ UNCHANGED <<ties, nodes>>
  BY DEF Leave, FlagRefused, Fails
<1>2. ImportsStand
  <2>1. CASE Leave(s) \/ Fails(s)
    BY <2>1, RowsStand DEF Leave, Fails
  <2>2. CASE FlagRefused(s)
    <3>1. /\ imports \in [Pairs -> [Legs -> Import]] /\ sync[s].pair \in Pairs /\ 1 \in Legs
      BY <2>2, AtType DEF BoundInv, TypesOK, RowsOK, FlagRefused, At, Ready, WithPair, Legs
    <3>2. PICK p \in Pairs : p = sync[s].pair
      BY <3>1
    <3>3. \/ UNCHANGED imports
          \/ imports' = [imports EXCEPT ![p][1] = Conflicting(imports[p][1])]
      BY <2>2, <3>1, <3>2 DEF FlagRefused
    <3>4. /\ Conflicting(imports[p][1]).tie = imports[p][1].tie
          /\ Conflicting(imports[p][1]).pos = imports[p][1].pos
      BY <3>1, ImportRowStands
    <3> QED
      BY <3>1, <3>3, <3>4, RowsStand DEF ImportsStand
  <2> QED
    BY <2>1, <2>2
<1> QED
  BY <1>1, <1>2, EndingStands, RowsStand, AllStand

LEMMA ReadBound ==
  ASSUME BoundInv, TypesOK', NEW s \in Syncs, Fetch(s) \/ Read(s) \/ Skip(s)
  PROVE  BoundInv'
<1>1. sync[s] \in Local /\ sync[s].pc \notin Claiming
  BY AtType DEF Fetch, Read, Skip, At, Claiming, BoundInv
<1>2. UNCHANGED <<ties, nodes, links>>
  BY DEF Fetch, Read, Skip, rows
<1>3. CASE Read(s)
  <2>1. PICK flagged : flagged = [p \in Pairs |-> [n \in Legs |->
          IF <<p, n>> \in Missing(sync[s].snap) THEN Conflicting(imports[p][n]) ELSE imports[p][n]]]
    OBVIOUS
  <2>2. PICK next : next = [sync[s] EXCEPT !.known = flagged, !.used = UsedPositions,
                                           !.todo = Reported(sync[s].snap)]
    OBVIOUS
  <2>3. imports' = flagged /\ Goes(s, Onward(next)) /\ sync[s].pc = "read"
    BY <1>3, <2>1, <2>2 DEF Read, At
  <2>4. Onward(next).pc \notin WithTie
    BY <1>1, <2>2, <2>3 DEF Onward, Idle, Local, WithTie
  <2>5. ImportsStand
    <3>1. \A p \in Pairs, n \in Legs : imports[p][n] \in Import
      BY DEF BoundInv, TypesOK, RowsOK
    <3>2. \A p \in Pairs, n \in Legs :
            imports'[p][n] = IF <<p, n>> \in Missing(sync[s].snap) THEN Conflicting(imports[p][n]) ELSE imports[p][n]
      BY <2>1, <2>3
    <3> QED
      BY <3>1, <3>2, ImportRowStands DEF ImportsStand
  <2> QED
    BY <1>1, <1>2, <2>3, <2>4, <2>5, OutsideGoes, RowsStand, AllStand
<1>4. CASE Fetch(s) \/ Skip(s)
  <2>1. PICK state : Goes(s, state) /\ state.pc \notin WithTie
    <3>1. CASE Fetch(s)
      <4>1. [Idle EXCEPT !.pc = "read", !.current = TRUE, !.snap = provider].pc \notin WithTie
        BY DEF Idle, WithTie
      <4> QED
        BY <3>1, <4>1 DEF Fetch
    <3>2. CASE Skip(s)
      BY <3>2, ChosenType, OutOfTie DEF Skip, BoundInv
    <3> QED
      BY <1>4, <3>1, <3>2
  <2>2. ImportsStand
    BY <1>4, RowsStand DEF Fetch, Skip, rows
  <2> QED
    BY <1>1, <1>2, <2>1, <2>2, OutsideGoes, RowsStand, AllStand
<1> QED
  BY <1>3, <1>4

LEMMA SeeBound ==
  ASSUME BoundInv, TypesOK', NEW s \in Syncs, Choose(s) \/ SeeSecond(s)
  PROVE  BoundInv'
<1>1. sync[s] \in Local /\ Ready(sync[s]) /\ sync[s].pc \notin Claiming
  BY AtType DEF Choose, SeeSecond, At, Claiming, BoundInv
<1>2. UNCHANGED <<ties, nodes, links>>
  BY DEF Choose, SeeSecond
<1>3. CASE Choose(s)
  <2>1. Chosen(s) \in Local /\ Chosen(s).pc = "see" /\ Chosen(s).pair \in Pairs
    BY <1>3, ChosenType DEF Choose, BoundInv
  <2>2. [Chosen(s) EXCEPT !.seen[1] = SeenLeg(1, Chosen(s))].pc = "see"
    BY <2>1 DEF Local
  <2>3. ImportsStand
    BY <1>3, <2>1, SeeLegStands DEF Choose, Legs
  <2>4. Goes(s, [Chosen(s) EXCEPT !.seen[1] = SeenLeg(1, Chosen(s))])
    BY <1>3 DEF Choose
  <2>5. PlacesStand /\ ClaimsStand
    BY <1>1, <1>2, <2>2, <2>4, OutsideGoes DEF WithTie
  <2> QED
    BY <1>2, <2>3, <2>5, RowsStand, AllStand
<1>4. CASE SeeSecond(s)
  <2>1. PICK pc \in {"node", "flag"} : pc = (IF links[sync[s].pair].tombstoned THEN "flag" ELSE "node")
    OBVIOUS
  <2>2. PICK next : next = [sync[s] EXCEPT !.seen[2] = SeenLeg(2, sync[s]), !.pc = pc]
    OBVIOUS
  <2>3. next.pc = pc
    BY <1>1, <2>2 DEF Local
  <2>4. Goes(s, Done(sync[s])) \/ Goes(s, next)
    BY <1>4, <2>1, <2>2 DEF SeeSecond
  <2>5. Done(sync[s]).pc \notin WithTie /\ next.pc \notin WithTie
    BY <1>1, <2>1, <2>3, OutOfTie DEF WithTie
  <2>6. PlacesStand /\ ClaimsStand
    BY <1>1, <1>2, <2>4, <2>5, OutsideGoes
  <2>7. ImportsStand
    BY <1>1, <1>4, SeeLegStands DEF SeeSecond, Legs, At, Ready, WithPair
  <2> QED
    BY <1>2, <2>6, <2>7, RowsStand, AllStand
<1> QED
  BY <1>3, <1>4

LEMMA ConfigureBound ==
  ASSUME BoundInv, TypesOK', NEW s \in Syncs, Configure(s)
  PROVE  BoundInv'
<1>1. sync[s] \in Local /\ sync[s].pc \notin Claiming /\ sync[s].pos \in Positions
  BY AtType DEF Configure, At, Claiming, BoundInv, Ready, WithPair
<1>2. UNCHANGED <<ties, imports, links>>
  BY DEF Configure
<1>3. PICK node, p, starts : /\ node = nodes[sync[s].pos] /\ p = sync[s].pair
                             /\ starts = Starts(sync[s].snap[p])
  OBVIOUS
<1>4. NodesStand
  <2>1. \/ UNCHANGED nodes
        \/ node.tie = 0 /\ nodes' = [nodes EXCEPT ![sync[s].pos] = Configured(node, p, starts)]
    BY <1>3 DEF Configure
  <2>2. nodes \in [Positions -> Node] /\ node \in Node
    BY <1>1, <1>3 DEF BoundInv, TypesOK, RowsOK
  <2>3. Configured(node, p, starts).tie = node.tie
    BY <2>2 DEF Configured, Node
  <2> QED
    BY <1>1, <1>3, <2>1, <2>2, <2>3, RowsStand DEF NodesStand
<1>5. PICK pc \in {"claim", "flag"} :
        Goes(s, [sync[s] EXCEPT !.pc = pc, !.bound = nodes[sync[s].pos].tie, !.now = 0])
  BY DEF Configure
<1>6. [sync[s] EXCEPT !.pc = pc, !.bound = nodes[sync[s].pos].tie, !.now = 0].pc = pc
  BY <1>1 DEF Local
<1>7. PlacesStand /\ ClaimsStand
  BY <1>1, <1>2, <1>5, <1>6, OutsideGoes DEF WithTie
<1> QED
  BY <1>2, <1>4, <1>7, RowsStand, AllStand

(* A claim is held by the application that made it. *)
LEMMA ClaimBound ==
  ASSUME BoundInv, TypesOK', NEW s \in Syncs, Claim(s)
  PROVE  BoundInv'
<1>1. sync[s] \in Local /\ sync[s].pc = "claim" /\ sync[s].pos \in Positions /\ sync[s].pair \in Pairs
  BY AtType DEF Claim, At, BoundInv, Ready, WithPair
<1>2. UNCHANGED <<ties, nodes, imports>>
  BY DEF Claim
<1>3. PICK next : next = [sync[s] EXCEPT !.pc = "tie"]
  OBVIOUS
<1>4. next.pc = "tie" /\ next.pair = sync[s].pair /\ next.pos = sync[s].pos
  BY <1>1, <1>3 DEF Local
<1>5. sync'[s] = next /\ \A x \in Syncs : x # s => sync'[x] = sync[x]
  BY <1>3 DEF Claim, GoesTo, Goes, BoundInv, TypesOK, SyncOK
<1>6. PlacesStand
  BY <1>4, <1>5 DEF PlacesStand, WithTie
<1>7. PICK p \in Pairs, link \in Link : p = sync[s].pair /\ link = links[p]
  BY <1>1 DEF BoundInv, TypesOK, RowsOK
<1>8. /\ ~link.tombstoned
      /\ links'[p] = Claimed(link, sync[s].pos, s)
      /\ \A q \in Pairs : q # p => links'[q] = links[q]
  BY <1>7 DEF Claim, Claims, BoundInv, TypesOK, RowsOK
<1>9. \/ link.tie # 0 /\ links'[p] = link
      \/ /\ link.tie = 0 /\ links'[p].tie = 0
         /\ links'[p].pos = sync[s].pos /\ links'[p].claim = s
  BY <1>8 DEF Claimed, Link
<1>10. LinksStand
  BY <1>7, <1>8, <1>9 DEF LinksStand
<1>11. ASSUME NEW q \in Pairs, NEW x \in Syncs PROVE ClaimHeld(q, x)'
  <2>1. SUFFICES ASSUME links'[q].claim = x
                 PROVE  /\ sync'[x].pc \in Claiming /\ sync'[x].pair = q
                        /\ links'[q].tie = 0 /\ links'[q].pos = sync'[x].pos
                        /\ sync'[x].pc # "tie" => ties'[sync'[x].tie].state = "live"
    BY DEF ClaimHeld
  <2>2. ClaimHeld(q, x)
    BY DEF BoundInv
  <2>3. CASE q = p /\ link.tie = 0
    BY <1>4, <1>5, <1>7, <1>9, <2>1, <2>3 DEF Claiming
  <2>4. CASE ~(q = p /\ link.tie = 0)
    <3>1. links'[q] = links[q]
      BY <1>7, <1>8, <1>9, <2>4
    <3>2. x # s
      BY <1>1, <2>1, <2>2, <3>1 DEF ClaimHeld, Claiming
    <3> QED
      BY <1>2, <1>5, <2>1, <2>2, <3>1, <3>2 DEF ClaimHeld
  <2> QED
    BY <2>3, <2>4
<1>12. TiesStand /\ NodesStand /\ ImportsStand
  BY <1>2, RowsStand
<1>13. \A x \in Syncs : AboutTie(x)'
  BY <1>6, <1>12, AboutKept
<1> QED
  BY <1>10, <1>11, <1>12, <1>13, NodesKept, LinksKept, ImportsKept DEF BoundInv

(* The tie, found or created, is at its position and of the pair. *)
LEMMA FindsBound ==
  ASSUME BoundInv, TypesOK', NEW s \in Syncs, At(s, "tie"), NEW id \in TieIds, NEW tie, Finds(s, id, tie),
         TiesStand, ties'[id].state = "live", ties'[id].pair = sync[s].pair, ties'[id].pos = sync[s].pos,
         UNCHANGED <<nodes, imports, links>>
  PROVE  BoundInv'
<1>1. sync[s] \in Local
  BY AtType DEF BoundInv
<1>2. PICK next : next = [sync[s] EXCEPT !.pc = "bind", !.tie = id, !.was = tie, !.bound = 0]
  OBVIOUS
<1>3. next.pc = "bind" /\ next.tie = id /\ next.pair = sync[s].pair /\ next.pos = sync[s].pos
  BY <1>1, <1>2 DEF Local
<1>4. sync'[s] = next /\ \A x \in Syncs : x # s => sync'[x] = sync[x]
  BY <1>2 DEF Finds, Goes, BoundInv, TypesOK, SyncOK
<1>5. ASSUME NEW x \in Syncs, x # s, sync[x].pc \in WithTie
      PROVE  /\ sync[x].tie \in TieIds
             /\ Same(ties'[sync[x].tie], ties[sync[x].tie])
  <2>1. sync[x].tie \in TieIds /\ AboutTie(x)
    BY <1>5, AtType DEF Ready, BoundInv
  <2> QED
    BY <1>5, <2>1 DEF AboutTie, TiesStand
<1>6. ASSUME NEW x \in Syncs PROVE AboutTie(x)'
  <2>1. CASE x = s
    BY <1>3, <1>4, <2>1 DEF AboutTie
  <2>2. CASE x # s
    <3>1. AboutTie(x)
      BY DEF BoundInv
    <3> QED
      BY <1>4, <1>5, <2>2, <3>1 DEF AboutTie, Same
  <2> QED
    BY <2>1, <2>2
<1>7. ASSUME NEW p \in Pairs, NEW x \in Syncs PROVE ClaimHeld(p, x)'
  <2>1. ClaimHeld(p, x)
    BY DEF BoundInv
  <2>2. CASE x = s
    BY <1>3, <1>4, <2>1, <2>2 DEF ClaimHeld, Claiming
  <2>3. CASE x # s
    <3>1. sync[x].pc \in Claiming /\ sync[x].pc # "tie" => sync[x].pc \in WithTie
      BY DEF Claiming, WithTie
    <3> QED
      BY <1>4, <1>5, <2>1, <2>3, <3>1 DEF ClaimHeld, Same
  <2> QED
    BY <2>2, <2>3
<1>8. NodesStand /\ LinksStand /\ ImportsStand
  BY RowsStand
<1> QED
  BY <1>6, <1>7, <1>8, NodesKept, LinksKept, ImportsKept DEF BoundInv

LEMMA FindTieBound ==
  ASSUME BoundInv, TypesOK', NEW s \in Syncs, FindTie(s)
  PROVE  BoundInv'
<1>1. UNCHANGED <<ties, nodes, imports, links>> /\ At(s, "tie")
  BY DEF FindTie, rows
<1>2. PICK id \in TiesAt(sync[s].pos) : ties[id].pair = sync[s].pair /\ Finds(s, id, ties[id])
  BY DEF FindTie
<1>3. id \in TieIds /\ ties[id].state = "live" /\ ties[id].pos = sync[s].pos
  BY DEF TiesAt, Live
<1>4. TiesStand
  BY <1>1, RowsStand
<1> QED
  BY <1>1, <1>2, <1>3, <1>4, FindsBound

LEMMA CreateTieBound ==
  ASSUME BoundInv, TypesOK', NEW s \in Syncs, CreateTie(s)
  PROVE  BoundInv'
<1>1. PICK id : id = (CHOOSE x \in Unused : \A y \in Unused : x =< y)
  OBVIOUS
<1>2. id \in TieIds /\ ties[id].state = "none"
  BY <1>1, NewId DEF CreateTie, Unused
<1>3. PICK tie : tie = [NoTie EXCEPT !.state = "live", !.pair = sync[s].pair, !.pos = sync[s].pos,
                                     !.start = Starts(sync[s].snap[sync[s].pair])]
  OBVIOUS
<1>4. tie.state = "live" /\ tie.pair = sync[s].pair /\ tie.pos = sync[s].pos
  BY <1>3 DEF NoTie
<1>5. /\ ties' = [ties EXCEPT ![id] = tie] /\ Finds(s, id, tie) /\ At(s, "tie")
      /\ UNCHANGED <<nodes, imports, links>>
  BY <1>1, <1>3 DEF CreateTie
<1>6. ties'[id] = tie /\ \A i \in TieIds : i # id => ties'[i] = ties[i]
  BY <1>2, <1>5 DEF BoundInv, TypesOK, RowsOK
<1>7. TiesStand
  BY <1>2, <1>6 DEF TiesStand, Same
<1> QED
  BY <1>2, <1>4, <1>5, <1>6, <1>7, FindsBound

(* A node shows the tie at its position. *)
LEMMA BindNodeBound ==
  ASSUME BoundInv, TypesOK', NEW s \in Syncs, BindNode(s)
  PROVE  BoundInv'
<1>1. /\ sync[s] \in Local /\ sync[s].pc = "bind" /\ sync[s].pos \in Positions /\ sync[s].pair \in Pairs
      /\ sync[s].tie \in TieIds
  BY AtType DEF BindNode, At, BoundInv, Ready, WithPair, WithTie
<1>2. UNCHANGED <<ties, imports, links>>
  BY DEF BindNode
<1>3. PICK next : next = [sync[s] EXCEPT !.pc = "link"]
  OBVIOUS
<1>4. /\ next.pc = "link" /\ next.tie = sync[s].tie
      /\ next.pair = sync[s].pair /\ next.pos = sync[s].pos
  BY <1>1, <1>3 DEF Local
<1>5. sync'[s] = next /\ \A x \in Syncs : x # s => sync'[x] = sync[x]
  BY <1>3 DEF BindNode, GoesTo, Goes, BoundInv, TypesOK, SyncOK
<1>6. PlacesStand
  BY <1>1, <1>4, <1>5 DEF PlacesStand, WithTie
<1>7. ClaimsStand
  <2>1. ASSUME NEW p \in Pairs, NEW x \in Syncs, links'[p].claim = x PROVE sync[x].pc \in Claiming
    BY <1>2, <2>1 DEF BoundInv, ClaimHeld
  <2> QED
    BY <1>1, <1>2, <1>4, <1>5, <2>1 DEF ClaimsStand, Claiming
<1>8. TiesStand /\ LinksStand /\ ImportsStand
  BY <1>2, RowsStand
<1>9. PICK here \in Positions, node \in Node : here = sync[s].pos /\ node = nodes[here]
  BY <1>1 DEF BoundInv, TypesOK, RowsOK
<1>10. CASE node.tie # 0
  <2>1. NodesStand
    BY <1>9, <1>10, RowsStand DEF BindNode
  <2> QED
    BY <1>6, <1>7, <1>8, <2>1, AllStand
<1>11. CASE node.tie = 0
  <2>1. Materializable(node, ties[sync[s].tie])
    BY <1>9, <1>11 DEF BindNode, Binds
  <2>2. /\ nodes'[here] = Materialized(node, sync[s].tie)
        /\ \A pos \in Positions : pos # here => nodes'[pos] = nodes[pos]
    BY <1>9, <1>11 DEF BindNode, BoundInv, TypesOK, RowsOK
  <2>3. /\ nodes'[here].tie = sync[s].tie /\ nodes'[here].status = "materialized"
        /\ nodes'[here].pair = node.pair
    BY <2>2 DEF Materialized, Node
  <2>4. /\ ties[sync[s].tie].state = "live" /\ ties[sync[s].tie].pair = node.pair
        /\ ties[sync[s].tie].pos = here
    <3>1. AboutTie(s)
      BY DEF BoundInv
    <3> QED
      BY <1>1, <1>9, <2>1, <3>1 DEF Materializable, AboutTie, WithTie
  <2>5. ASSUME NEW pos \in Positions PROVE NodeBound(pos)'
    <3>1. CASE pos = here
      BY <1>1, <1>2, <2>3, <2>4, <3>1 DEF NodeBound, Live
    <3>2. CASE pos # here
      <4>1. NodeBound(pos)
        BY DEF BoundInv
      <4> QED
        BY <1>2, <2>2, <3>2, <4>1 DEF NodeBound, Live
    <3> QED
      BY <3>1, <3>2
  <2>6. ASSUME NEW p \in Pairs, NEW n \in Legs PROVE ImportBound(p, n)'
    <3>1. ImportBound(p, n)
      BY DEF BoundInv
    <3> QED
      BY <1>2, <1>9, <1>11, <2>2, <3>1 DEF ImportBound, Live
  <2> QED
    BY <1>6, <1>7, <1>8, <2>5, <2>6, AboutKept, ClaimsKept, LinksKept DEF BoundInv
<1> QED
  BY <1>10, <1>11

(* A link records the tie of the claim. *)
LEMMA RecordLinkBound ==
  ASSUME BoundInv, TypesOK', NEW s \in Syncs, RecordLink(s)
  PROVE  BoundInv'
<1>1. /\ sync[s] \in Local /\ sync[s].pc = "link" /\ sync[s].pos \in Positions /\ sync[s].pair \in Pairs
      /\ sync[s].tie \in TieIds
  BY AtType DEF RecordLink, At, BoundInv, Ready, WithPair, WithTie
<1>2. UNCHANGED <<ties, imports, nodes>>
  BY DEF RecordLink
<1>3. PICK next : next = Preflighted(s)
  OBVIOUS
<1>4. next.tie = sync[s].tie /\ next.pair = sync[s].pair /\ next.pos = sync[s].pos
  BY <1>1, <1>3 DEF Preflighted, Local
<1>5. sync'[s] = next /\ \A x \in Syncs : x # s => sync'[x] = sync[x]
  BY <1>3 DEF RecordLink, Goes, BoundInv, TypesOK, SyncOK
<1>6. PlacesStand
  BY <1>1, <1>4, <1>5 DEF PlacesStand, WithTie
<1>7. TiesStand /\ NodesStand /\ ImportsStand
  BY <1>2, RowsStand
<1>8. PICK p \in Pairs, link \in Link : p = sync[s].pair /\ link = links[p]
  BY <1>1 DEF BoundInv, TypesOK, RowsOK
<1>9. /\ Linkable(link, sync[s].tie, s)
      /\ links'[p] = Linked(link, sync[s].tie)
      /\ \A q \in Pairs : q # p => links'[q] = links[q]
  BY <1>8 DEF RecordLink, BoundInv, TypesOK, RowsOK
<1>10. links'[p].tie = sync[s].tie /\ links'[p].pos = link.pos /\ links'[p].claim = "none"
  BY <1>9 DEF Linked, Link
<1>11. ASSUME NEW q \in Pairs, NEW x \in Syncs, links'[q].claim = x
       PROVE  q # p /\ x # s /\ sync[x].pc \in Claiming
  <2>1. q # p /\ ClaimHeld(q, x)
    BY <1>10, <1>11, Bounds DEF BoundInv
  <2> QED
    BY <1>8, <1>9, <1>11, <2>1 DEF ClaimHeld
<1>12. ClaimsStand
  BY <1>5, <1>9, <1>11 DEF ClaimsStand
<1>13. ASSUME NEW q \in Pairs PROVE LinkBound(q)'
  <2>1. LinkBound(q) /\ LinkBound(p) /\ ClaimHeld(p, s) /\ AboutTie(s)
    BY DEF BoundInv
  <2>2. CASE q # p
    BY <1>2, <1>9, <2>1, <2>2 DEF LinkBound, Live
  <2>3. CASE q = p /\ link.tie = sync[s].tie
    BY <1>1, <1>2, <1>8, <1>10, <2>1, <2>3, Bounds DEF LinkBound, Live
  <2>4. CASE q = p /\ link.claim = s
    BY <1>1, <1>2, <1>8, <1>10, <2>1, <2>4 DEF LinkBound, Live, ClaimHeld, AboutTie, WithTie
  <2> QED
    BY <1>9, <2>2, <2>3, <2>4 DEF Linkable
<1> QED
  BY <1>6, <1>7, <1>12, <1>13, AboutKept, ClaimsKept, NodesKept, ImportsKept DEF BoundInv

(* What is written to a tie leaves it the pair's, at its position. *)
LEMMA SameTie ==
  ASSUME NEW tie \in Tie, NEW n \in Legs, NEW a
  PROVE  /\ Same(Rescheduled(tie, n, a), tie) /\ Same(Scored(tie, n, a), tie)
         /\ Same([tie EXCEPT !.result = a], tie)
<1>1. Same(Rescheduled(tie, n, a), tie)
  BY DEF Rescheduled, Tie, Same
<1>2. PICK scores : scores = [tie.score EXCEPT ![n] = a]
  OBVIOUS
<1>3. PICK result : result = Reconciled(scores[1], scores[2], tie.result)
  OBVIOUS
<1>4. Scored(tie, n, a) = [tie EXCEPT !.score = scores, !.result = result]
  BY <1>2, <1>3 DEF Scored, Tie
<1>5. Same(Scored(tie, n, a), tie)
  BY <1>4 DEF Tie, Same
<1> QED
  BY <1>1, <1>5 DEF Tie, Same

LEMMA ChangedTieStands ==
  ASSUME TypesOK, NEW id \in TieIds, NEW n \in Legs, NEW tie,
         ties' = [ties EXCEPT ![id] = tie],
         \/ \E a : tie = Rescheduled(ties[id], n, a)
         \/ \E a : tie = Scored(ties[id], n, a)
         \/ \E a : tie = [ties[id] EXCEPT !.result = a]
  PROVE  TiesSame /\ TiesStand
<1>1. ties \in [TieIds -> Tie] /\ ties[id] \in Tie
  BY DEF TypesOK, RowsOK
<1>2. Same(tie, ties[id])
  BY <1>1, SameTie
<1>3. \A i \in TieIds : ties'[i] = IF i = id THEN tie ELSE ties[i]
  BY <1>1
<1> QED
  BY <1>2, <1>3 DEF TiesSame, TiesStand, Same

LEMMA WrittenTies ==
  ASSUME TypesOK, NEW s \in Syncs, ApplyLeg(s) \/ TieResult(s)
  PROVE  TiesSame /\ TiesStand
<1>1. UNCHANGED ties => TiesSame /\ TiesStand
  BY DEF TiesSame, TiesStand, Same
<1>2. CASE ApplyLeg(s)
  BY <1>1, <1>2, ApplyLegEffect, ChangedTieStands
<1>3. CASE TieResult(s)
  <2>1. ASSUME NEW id \in TieIds, NEW result, ties' = [ties EXCEPT ![id].result = result]
        PROVE  TiesSame /\ TiesStand
    <3>1. PICK tie : tie = [ties[id] EXCEPT !.result = result]
      OBVIOUS
    <3>2. ties' = [ties EXCEPT ![id] = tie] /\ 1 \in Legs
      BY <2>1, <3>1 DEF Legs
    <3> QED
      BY <3>1, <3>2, ChangedTieStands
  <2> QED
    BY <1>1, <1>3, <2>1, TieResultEffect
<1> QED
  BY <1>2, <1>3

LEMMA ApplyLegBound ==
  ASSUME BoundInv, TypesOK', NEW s \in Syncs, ApplyLeg(s)
  PROVE  BoundInv'
<1>1. sync[s] \in Local /\ sync[s].pc = "legs"
  BY AtType DEF ApplyLeg, At, BoundInv
<1>2. UNCHANGED <<nodes, imports, links>>
  BY DEF ApplyLeg
<1>3. TiesStand
  BY WrittenTies DEF BoundInv
<1>4. PICK applied : applied = [sync[s] EXCEPT !.left = Tail(@),
        !.conflict = @ \/ LegVerdict(s, Head(sync[s].left), sync[s].movable[Head(sync[s].left)]) = "conflict"]
  OBVIOUS
<1>5. PICK flagged : flagged = [applied EXCEPT !.pc = "flag"]
  OBVIOUS
<1>6. PICK onward : onward = [applied EXCEPT !.pc = "import", !.left = <<1, 2>>, !.was = NoTie,
                                             !.movable = Idle.movable]
  OBVIOUS
<1>7. /\ applied.tie = sync[s].tie /\ applied.pair = sync[s].pair /\ applied.pos = sync[s].pos
      /\ flagged.tie = sync[s].tie /\ flagged.pair = sync[s].pair /\ flagged.pos = sync[s].pos
      /\ onward.tie = sync[s].tie /\ onward.pair = sync[s].pair /\ onward.pos = sync[s].pos
  BY <1>1, <1>4, <1>5, <1>6 DEF Local
<1>8. PICK state \in {applied, flagged, onward} : Goes(s, state)
  <2>1. Goes(s, CASE applied.left # <<>> -> applied
                   [] applied.left = <<>> /\ applied.conflict -> flagged
                   [] OTHER -> onward)
    BY <1>4, <1>5, <1>6 DEF ApplyLeg
  <2> QED
    BY <2>1
<1>9. PlacesStand /\ ClaimsStand
  BY <1>1, <1>2, <1>7, <1>8, OutsideGoes DEF Claiming, WithTie
<1> QED
  BY <1>2, <1>3, <1>9, RowsStand, AllStand

LEMMA TieResultBound ==
  ASSUME BoundInv, TypesOK', NEW s \in Syncs, TieResult(s)
  PROVE  BoundInv'
<1>1. sync[s] \in Local /\ sync[s].pc = "result"
  BY AtType DEF TieResult, At, BoundInv
<1>2. UNCHANGED <<nodes, imports, links>>
  BY DEF TieResult
<1>3. TiesStand
  BY WrittenTies DEF BoundInv
<1>4. PICK pc \in {"flag", "mirror"} : GoesTo(s, pc)
  BY DEF TieResult
<1>5. PICK next : next = [sync[s] EXCEPT !.pc = pc]
  OBVIOUS
<1>6. /\ Goes(s, next) /\ next.tie = sync[s].tie /\ next.pair = sync[s].pair /\ next.pos = sync[s].pos
  BY <1>1, <1>4, <1>5 DEF GoesTo, Local
<1>7. PlacesStand /\ ClaimsStand
  BY <1>1, <1>2, <1>6, OutsideGoes DEF Claiming, WithTie
<1> QED
  BY <1>2, <1>3, <1>7, RowsStand, AllStand

LEMMA MirrorBound ==
  ASSUME BoundInv, TypesOK', NEW s \in Syncs, Mirror(s) \/ Flag(s)
  PROVE  BoundInv'
<1>1. sync[s] \in Local /\ sync[s].pc \in {"mirror", "flag"} /\ sync[s].pair \in Pairs
  BY AtType DEF Mirror, Flag, At, BoundInv, Ready, WithPair, WithTie
<1>2. UNCHANGED <<ties, links>> /\ Goes(s, Done(sync[s]))
  BY DEF Mirror, Flag
<1>3. PlacesStand /\ ClaimsStand
  BY <1>1, <1>2, OutOfTie, OutsideGoes DEF Claiming
<1>4. NodesStand /\ ImportsStand
  <2>1. CASE Mirror(s)
    <3>1. PICK start : nodes' = [nodes EXCEPT ![sync[s].pos].start = start]
      BY <2>1 DEF Mirror
    <3>2. \A pos \in Positions : nodes[pos] \in Node
      BY DEF BoundInv, TypesOK, RowsOK
    <3>3. \A pos \in Positions : /\ nodes'[pos].tie = nodes[pos].tie /\ nodes'[pos].pair = nodes[pos].pair
                                 /\ nodes'[pos].status = nodes[pos].status
      BY <3>1, <3>2 DEF Node, BoundInv, TypesOK, RowsOK
    <3> QED
      BY <2>1, <3>3, RowsStand DEF NodesStand, Mirror
  <2>2. CASE Flag(s)
    <3>1. imports \in [Pairs -> [Legs -> Import]]
      BY DEF BoundInv, TypesOK, RowsOK
    <3>2. imports' = [imports EXCEPT ![sync[s].pair] = [n \in Legs |-> Conflicting(imports[sync[s].pair][n])]]
      BY <2>2 DEF Flag
    <3>3. \A p \in Pairs, n \in Legs :
            imports'[p][n] = IF p = sync[s].pair THEN Conflicting(imports[p][n]) ELSE imports[p][n]
      BY <1>1, <3>1, <3>2
    <3>4. \A p \in Pairs, n \in Legs : imports'[p][n].tie = imports[p][n].tie /\ imports'[p][n].pos = imports[p][n].pos
      BY <3>1, <3>3, ImportRowStands
    <3> QED
      BY <2>2, <3>4, RowsStand DEF ImportsStand, Flag
  <2> QED
    BY <2>1, <2>2
<1> QED
  BY <1>2, <1>3, <1>4, RowsStand, AllStand

(* An import is of the tie its node shows. *)
LEMMA MarkImportedBound ==
  ASSUME BoundInv, TypesOK', NEW s \in Syncs, MarkImported(s)
  PROVE  BoundInv'
<1>1. /\ sync[s] \in Local /\ sync[s].pc = "import" /\ sync[s].pair \in Pairs /\ sync[s].pos \in Positions
      /\ sync[s].tie \in TieIds /\ sync[s].left \in {<<1, 2>>, <<2>>}
  BY AtType DEF MarkImported, At, BoundInv, Ready, WithPair, WithTie
<1>2. UNCHANGED <<ties, nodes, links>>
  BY DEF MarkImported
<1>3. PICK n \in Legs : n = Head(sync[s].left)
  BY <1>1, LeftTypes DEF Local
<1>4. PICK pc \in {"result", "import"} : pc = (IF n = 2 THEN "result" ELSE "import")
  OBVIOUS
<1>5. PICK next : next = [sync[s] EXCEPT !.left = Tail(sync[s].left), !.pc = pc]
  OBVIOUS
<1>6. /\ Goes(s, next) /\ next.tie = sync[s].tie /\ next.pair = sync[s].pair /\ next.pos = sync[s].pos
  BY <1>1, <1>3, <1>4, <1>5 DEF MarkImported, Local
<1>7. PlacesStand /\ ClaimsStand
  BY <1>1, <1>2, <1>6, OutsideGoes DEF Claiming, WithTie
<1>8. PICK p \in Pairs, row \in Import : p = sync[s].pair /\ row = imports[p][n]
  BY <1>1 DEF BoundInv, TypesOK, RowsOK
<1>9. Importable(row, nodes[row.pos], ties[sync[s].tie], sync[s].tie)
  BY <1>3, <1>8 DEF MarkImported, Imports
<1>10. /\ imports'[p][n] = Imported(row, sync[s].tie)
       /\ \A q \in Pairs, m \in Legs : <<q, m>> # <<p, n>> => imports'[q][m] = imports[q][m]
  <2>1. imports' = [imports EXCEPT ![p][n] = Imported(imports[p][n], sync[s].tie)]
    BY <1>3, <1>8 DEF MarkImported
  <2>2. imports \in [Pairs -> [Legs -> Import]]
    BY DEF BoundInv, TypesOK, RowsOK
  <2> QED
    BY <1>8, <2>1, <2>2
<1>11. imports'[p][n].tie = sync[s].tie /\ imports'[p][n].pos = row.pos
  BY <1>10 DEF Imported, Import
<1>12. /\ ties[sync[s].tie].state = "live" /\ ties[sync[s].tie].pair = p
       /\ row.pos = sync[s].pos /\ nodes[row.pos].tie = sync[s].tie
  <2>1. AboutTie(s)
    BY DEF BoundInv
  <2> QED
    BY <1>1, <1>8, <1>9, <2>1 DEF Importable, AboutTie, WithTie
<1>13. ASSUME NEW q \in Pairs, NEW m \in Legs PROVE ImportBound(q, m)'
  <2>1. CASE q = p /\ m = n
    BY <1>1, <1>2, <1>11, <1>12, <2>1 DEF ImportBound, Live
  <2>2. CASE ~(q = p /\ m = n)
    <3>1. ImportBound(q, m) /\ imports'[q][m] = imports[q][m]
      BY <1>10, <2>2 DEF BoundInv
    <3> QED
      BY <1>2, <3>1 DEF ImportBound, Live
  <2> QED
    BY <2>1, <2>2
<1>14. TiesStand /\ NodesStand /\ LinksStand
  BY <1>2, RowsStand
<1> QED
  BY <1>7, <1>13, <1>14, AboutKept, ClaimsKept, NodesKept, LinksKept DEF BoundInv

(* A tie is deleted: the triggers take it from every row that names it, and the
   claim of an application that was about to link it. *)
LEMMA DeleteTieBound ==
  ASSUME BoundInv, TypesOK', NEW id \in TieIds, DeleteTie(id)
  PROVE  BoundInv'
<1>1. PICK here, tie : here = ties[id].pos /\ tie = [NoTie EXCEPT !.state = "deleted"]
  OBVIOUS
<1>2. tie.state = "deleted" /\ ties[id].state = "live"
  BY <1>1 DEF NoTie, DeleteTie, Live
<1>3. /\ ties'[id] = tie /\ \A i \in TieIds : i # id => ties'[i] = ties[i]
      /\ UNCHANGED sync
  BY <1>1 DEF DeleteTie, BoundInv, TypesOK, RowsOK
<1>4. \A i \in Live : i # id => i \in Live' /\ ties'[i] = ties[i]
  BY <1>3 DEF Live
<1>5. \A x \in Syncs : AboutTie(x)'
  <2>1. ASSUME NEW x \in Syncs, sync[x].pc \in WithTie
        PROVE  sync[x].tie \in TieIds /\ AboutTie(x)
    BY <2>1, AtType DEF BoundInv, Ready
  <2> QED
    BY <1>2, <1>3, <2>1 DEF AboutTie
<1>6. ASSUME NEW p \in Pairs
      PROVE  \/ links'[p] = links[p] /\ links[p].tie # id /\ ~(links[p].tie = 0 /\ links[p].pos = here)
             \/ links'[p].tie = 0 /\ links'[p].claim = "none"
  <2>1. links[p] \in Link /\ links'[p] = LinkAfterDelete(links[p], id, here)
    BY <1>1 DEF DeleteTie, BoundInv, TypesOK, RowsOK
  <2> QED
    BY <2>1 DEF LinkAfterDelete, Link
<1>7. ASSUME NEW p \in Pairs, NEW x \in Syncs PROVE ClaimHeld(p, x)'
  <2>1. SUFFICES ASSUME links'[p].claim = x
                 PROVE  /\ sync[x].pc \in Claiming /\ sync[x].pair = p
                        /\ links'[p].tie = 0 /\ links'[p].pos = sync[x].pos
                        /\ sync[x].pc # "tie" => ties'[sync[x].tie].state = "live"
    BY <1>3 DEF ClaimHeld
  <2>2. links'[p] = links[p] /\ ~(links[p].tie = 0 /\ links[p].pos = here)
    BY <1>6, <2>1, Bounds
  <2>3. ClaimHeld(p, x) /\ AboutTie(x)
    BY DEF BoundInv
  <2>4. /\ sync[x].pc \in Claiming /\ sync[x].pair = p /\ links[p].tie = 0 /\ links[p].pos = sync[x].pos
        /\ sync[x].pc # "tie" => ties[sync[x].tie].state = "live"
    BY <2>1, <2>2, <2>3 DEF ClaimHeld
  <2>5. ASSUME sync[x].pc # "tie" PROVE sync[x].tie \in TieIds /\ sync[x].tie # id
    <3>1. sync[x].pc \in WithTie
      BY <2>4, <2>5 DEF Claiming, WithTie
    <3>2. ties[sync[x].tie].pos # here
      BY <2>2, <2>3, <2>4, <2>5, <3>1 DEF AboutTie
    <3> QED
      BY <1>1, <3>1, <3>2, AtType DEF BoundInv, Ready
  <2> QED
    BY <1>3, <2>2, <2>4, <2>5
<1>8. \A p \in Pairs : LinkBound(p)'
  BY <1>4, <1>6 DEF BoundInv, LinkBound
<1>9. ASSUME NEW pos \in Positions
      PROVE  \/ nodes'[pos] = nodes[pos] /\ nodes[pos].tie # id
             \/ nodes'[pos].tie = 0 /\ nodes[pos].tie \in {0, id}
  <2>1. nodes[pos] \in Node /\ nodes'[pos] = NodeAfterDelete(nodes[pos], id, pos = here)
    BY <1>1 DEF DeleteTie, BoundInv, TypesOK, RowsOK
  <2> QED
    BY <2>1 DEF NodeAfterDelete, Node
<1>10. \A pos \in Positions : NodeBound(pos)'
  BY <1>4, <1>9 DEF BoundInv, NodeBound
<1>11. ASSUME NEW p \in Pairs, NEW n \in Legs
       PROVE  (imports'[p][n] = imports[p][n] /\ imports[p][n].tie # id) \/ imports'[p][n].tie = 0
  <2>1. imports[p][n] \in Import /\ imports'[p][n] = ImportAfterDelete(imports[p][n], id, here)
    BY <1>1 DEF DeleteTie, BoundInv, TypesOK, RowsOK
  <2> QED
    BY <2>1 DEF ImportAfterDelete, Import
<1>12. ASSUME NEW p \in Pairs, NEW n \in Legs PROVE ImportBound(p, n)'
  <2>1. ImportBound(p, n)
    BY DEF BoundInv
  <2> QED
    BY <1>4, <1>9, <1>11, <2>1 DEF ImportBound
<1> QED
  BY <1>5, <1>7, <1>8, <1>10, <1>12 DEF BoundInv

(* The other commands, the provider and time *)
LEMMA SyncStands ==
  ASSUME BoundInv,
         \A x \in Syncs : /\ sync'[x].pc = sync[x].pc /\ sync'[x].tie = sync[x].tie
                          /\ sync'[x].pair = sync[x].pair /\ sync'[x].pos = sync[x].pos,
         \A p \in Pairs, x \in Syncs : links'[p].claim = x => links'[p] = links[p]
  PROVE  PlacesStand /\ ClaimsStand
<1>1. PlacesStand
  BY DEF PlacesStand
<1>2. ASSUME NEW p \in Pairs, NEW x \in Syncs, links'[p].claim = x PROVE sync[x].pc \in Claiming
  BY <1>2 DEF BoundInv, ClaimHeld
<1> QED
  BY <1>1, <1>2 DEF ClaimsStand

LEMMA ByHandBound ==
  ASSUME BoundInv, TypesOK', NEW id \in TieIds, NEW n \in Legs,
         \/ \E start \in Starting : MoveByHand(id, n, start)
         \/ \E score \in Scores : ScoreByHand(id, n, score)
  PROVE  BoundInv'
<1>1. PICK tie : /\ ties' = [ties EXCEPT ![id] = tie]
                 /\ \/ \E a : tie = Rescheduled(ties[id], n, a)
                    \/ \E a : tie = Scored(ties[id], n, a)
  BY DEF MoveByHand, ScoreByHand
<1>2. TiesStand
  BY <1>1, ChangedTieStands DEF BoundInv
<1>3. UNCHANGED <<nodes, imports, links, sync>>
  BY DEF MoveByHand, ScoreByHand
<1> QED
  BY <1>2, <1>3, SyncStands, RowsStand, AllStand

LEMMA WorldBound ==
  ASSUME BoundInv, TypesOK',
         Switch \/ Tick \/ UNCHANGED vars \/ \E p \in Pairs : ClaimExpires(p) \/ Reports(p)
  PROVE  BoundInv'
<1>1. CASE \E p \in Pairs : ClaimExpires(p)
  <2>1. PICK p \in Pairs : ClaimExpires(p)
    BY <1>1
  <2>2. UNCHANGED <<nodes, ties, imports, sync>>
    BY <2>1 DEF ClaimExpires
  <2>3. ASSUME NEW q \in Pairs
        PROVE  /\ links'[q].tie = links[q].tie /\ links'[q].pos = links[q].pos
               /\ links'[q] = links[q] \/ links'[q].claim = "expired"
    BY <2>1 DEF ClaimExpires, BoundInv, TypesOK, RowsOK, Link
  <2>4. LinksStand
    BY <2>3 DEF LinksStand
  <2>5. \A q \in Pairs, x \in Syncs : links'[q].claim = x => links'[q] = links[q]
    BY <2>3, Bounds
  <2> QED
    BY <2>2, <2>4, <2>5, SyncStands, RowsStand, AllStand
<1>2. CASE ~\E p \in Pairs : ClaimExpires(p)
  <2>1. UNCHANGED <<nodes, ties, imports, links>>
    <3>1. ASSUME NEW p \in Pairs, Reports(p) PROVE UNCHANGED rows
      <4>1. \A fixtures : Report(p, fixtures) => UNCHANGED rows
        BY DEF Report
      <4> QED
        BY <3>1, <4>1 DEF Reports, Publish, Reschedule, Withdraw, Announce, Finish
    <3> QED
      BY <1>2, <3>1 DEF Switch, Tick, vars, rows
  <2>2. \A x \in Syncs : /\ sync'[x].pc = sync[x].pc /\ sync'[x].tie = sync[x].tie
                         /\ sync'[x].pair = sync[x].pair /\ sync'[x].pos = sync[x].pos
    <3>1. CASE Switch
      <4>1. \A x \in Syncs : sync[x] \in Local
        BY AtType DEF BoundInv
      <4> QED
        BY <3>1, <4>1 DEF Switch, Local
    <3>2. CASE ~Switch
      BY <1>2, <3>2, ReportsKeep DEF Tick, vars
    <3> QED
      BY <3>1, <3>2
  <2> QED
    BY <2>1, <2>2, SyncStands, RowsStand, AllStand
<1> QED
  BY <1>1, <1>2

LEMMA InitBound == Init => BoundInv
<1> SUFFICES ASSUME Init PROVE BoundInv
  OBVIOUS
<1>1. \A s \in Syncs : AboutTie(s)
  BY DEF Init, AboutTie, Idle, WithTie
<1>2. \A p \in Pairs, s \in Syncs : ClaimHeld(p, s)
  BY Bounds DEF Init, ClaimHeld, NoLink
<1>3. \A pos \in Positions : NodeBound(pos)
  BY DEF Init, NodeBound, EmptyNode
<1>4. \A p \in Pairs : LinkBound(p)
  BY DEF Init, LinkBound, NoLink
<1>5. \A p \in Pairs, n \in Legs : imports[p][n] = NoImport
  BY DEF Init, Idle, Legs
<1>6. \A p \in Pairs, n \in Legs : ImportBound(p, n)
  BY <1>5 DEF ImportBound, NoImport
<1> QED
  BY <1>1, <1>2, <1>3, <1>4, <1>6, InitTypes DEF BoundInv

LEMMA NextBound == BoundInv /\ [Next]_vars => BoundInv'
<1> SUFFICES ASSUME BoundInv, [Next]_vars PROVE BoundInv'
  OBVIOUS
<1>1. TypesOK'
  BY NextTypes DEF BoundInv
<1>2. CASE UNCHANGED vars
  BY <1>1, <1>2, WorldBound
<1>3. ASSUME NEW s \in Syncs, Fetch(s) \/ Proceeds(s) \/ Fails(s) PROVE BoundInv'
  <2>1. CASE Refused(s) \/ Stops(s)
    <3>1. Leave(s) \/ FlagRefused(s)
      BY <2>1 DEF Refused, Stops, SeeRefused, ClaimRefused, WrongTie, BindRefused, LinkRefused, ApplyRefused,
                  ImportRefused, MirrorRefused
    <3> QED
      BY <1>1, <3>1, EndsBound
  <2>2. CASE ~(Refused(s) \/ Stops(s))
    BY <1>1, <1>3, <2>2, EndsBound, ReadBound, SeeBound, ConfigureBound, ClaimBound, FindTieBound, CreateTieBound,
       BindNodeBound, RecordLinkBound, ApplyLegBound, MarkImportedBound, TieResultBound, MirrorBound DEF Proceeds
  <2> QED
    BY <2>1, <2>2
<1>4. ASSUME NEW p \in Pairs, ClaimExpires(p) \/ Reports(p) PROVE BoundInv'
  BY <1>1, <1>4, WorldBound
<1>5. ASSUME NEW id \in TieIds, ChangeTie(id) PROVE BoundInv'
  BY <1>1, <1>5, DeleteTieBound, ByHandBound DEF ChangeTie
<1>6. CASE Switch \/ Tick
  BY <1>1, <1>6, WorldBound
<1> QED
  BY <1>2, <1>3, <1>4, <1>5, <1>6 DEF Next

(* Nodes, links and imports agree on the tie of a pair, however applications
   interleave with each other and with deletions (BoundToOwnTie). *)
THEOREM TiesAreBound == Spec => []BoundToOwnTie
<1>1. BoundInv => BoundToOwnTie
  BY DEF BoundInv, NodeBound, LinkBound, ImportBound, BoundToOwnTie
<1> QED
  BY <1>1, InitBound, NextBound, PTL DEF Spec

-----------------------------------------------------------------------------
(* A deletion tombstones the pair: a claim wrote the position of the pair down
   before any application came to create its tie. *)

Remembered(id) ==
  ties[id].state = "live" =>
    /\ ties[id].pair \in Pairs /\ ties[id].pos \in Positions
    /\ links[ties[id].pair].pos = ties[id].pos
OneTieEach == \A i, j \in Live : ties[i].pair = ties[j].pair => i = j
Announced(s) == sync[s].pc = "tie" => links[sync[s].pair].pos = sync[s].pos
BuryInv ==
  /\ BoundInv /\ OneTieEach
  /\ \A id \in TieIds : Remembered(id)
  /\ \A s \in Syncs : Announced(s)

LinksCalm ==
  \A p \in Pairs : /\ links[p].pos # 0 => links'[p].pos = links[p].pos
                   /\ links[p].tombstoned => links'[p].tombstoned
StaysAtTie(x) ==
  sync'[x].pc = "tie" =>
    /\ sync[x].pc = "tie" /\ sync'[x].pair = sync[x].pair
    /\ sync'[x].pos = sync[x].pos /\ sync'[x].bound = sync[x].bound

LEMMA AbandonedCalm ==
  ASSUME TypesOK, NEW s \in Syncs, links' = Abandoned(s)
  PROVE  LinksCalm
BY DEF Abandoned, LinksCalm, TypesOK, RowsOK, Link

LEMMA LinksAlwaysCalm ==
  ASSUME TypesOK, [Next]_vars
  PROVE  LinksCalm
<1>1. UNCHANGED links => LinksCalm
  BY DEF LinksCalm
<1>2. \A p \in Pairs : links[p] \in Link
  BY DEF TypesOK, RowsOK
<1>3. ASSUME NEW s \in Syncs, Fetch(s) \/ Proceeds(s) \/ Fails(s) PROVE LinksCalm
  <2>1. /\ sync[s].pc \in WithPair => sync[s].pair \in Pairs /\ sync[s].pos \in Positions
        /\ sync[s].pc \in WithTie => sync[s].tie \in TieIds
    BY AtType DEF Ready
  <2>2. CASE Claim(s)
    <3>1. PICK p \in Pairs, pos \in Positions : p = sync[s].pair /\ pos = sync[s].pos
      BY <2>1, <2>2 DEF Claim, At, WithPair
    <3>2. ~links[p].tombstoned /\ Claimable(links[p], pos)
      BY <2>2, <3>1 DEF Claim, Claims
    <3>3. \A q \in Pairs : links'[q] = IF q = p THEN Claimed(links[p], pos, s) ELSE links[q]
      BY <2>2, <3>1 DEF Claim, TypesOK, RowsOK
    <3>4. links[p].pos # 0 => Claimed(links[p], pos, s).pos = links[p].pos
      BY <1>2, <3>2 DEF Claimable, Claimed, Link
    <3> QED
      BY <3>2, <3>3, <3>4 DEF LinksCalm
  <2>3. CASE RecordLink(s)
    <3>1. PICK p \in Pairs, id \in TieIds : p = sync[s].pair /\ id = sync[s].tie
      BY <2>1, <2>3 DEF RecordLink, At, WithPair, WithTie
    <3>2. \A q \in Pairs : links'[q] = IF q = p THEN Linked(links[p], id) ELSE links[q]
      BY <2>3, <3>1 DEF RecordLink, TypesOK, RowsOK
    <3>3. Linked(links[p], id).pos = links[p].pos /\ Linked(links[p], id).tombstoned = links[p].tombstoned
      BY <1>2 DEF Linked, Link
    <3> QED
      BY <3>2, <3>3 DEF LinksCalm
  <2>4. CASE Refused(s) \/ Stops(s) \/ Fails(s)
    <3>1. links' = Abandoned(s)
      BY <2>4 DEF Refused, Stops, Fails, SeeRefused, ClaimRefused, WrongTie, BindRefused, LinkRefused, ApplyRefused,
                  ImportRefused, MirrorRefused, FlagRefused, Leave
    <3> QED
      BY <3>1, AbandonedCalm
  <2>5. CASE ~(Claim(s) \/ RecordLink(s) \/ Refused(s) \/ Stops(s) \/ Fails(s))
    <3>1. Fetch(s) \/ Skip(s) \/ FindTie(s) => UNCHANGED links
      BY DEF Fetch, Skip, FindTie, rows
    <3>2. Read(s) \/ Choose(s) \/ SeeSecond(s) \/ Configure(s) \/ CreateTie(s) => UNCHANGED links
      BY DEF Read, Choose, SeeSecond, Configure, CreateTie
    <3>3. BindNode(s) \/ ApplyLeg(s) \/ MarkImported(s) \/ TieResult(s) \/ Mirror(s) \/ Flag(s) => UNCHANGED links
      BY DEF BindNode, ApplyLeg, MarkImported, TieResult, Mirror, Flag
    <3> QED
      BY <1>1, <1>3, <2>5, <3>1, <3>2, <3>3 DEF Proceeds
  <2> QED
    BY <2>2, <2>3, <2>4, <2>5
<1>4. ASSUME NEW p \in Pairs, ClaimExpires(p) PROVE LinksCalm
  BY <1>2, <1>4 DEF ClaimExpires, LinksCalm, Link, TypesOK, RowsOK
<1>5. ASSUME NEW p \in Pairs, Reports(p) PROVE LinksCalm
  <2>1. \A fixtures : Report(p, fixtures) => UNCHANGED links
    BY DEF Report, rows
  <2> QED
    BY <1>1, <1>5, <2>1 DEF Reports, Publish, Reschedule, Withdraw, Announce, Finish
<1>6. ASSUME NEW id \in TieIds, ChangeTie(id) PROVE LinksCalm
  <2>1. CASE DeleteTie(id)
    <3>1. \A p \in Pairs : links'[p] = LinkAfterDelete(links[p], id, ties[id].pos)
      BY <2>1 DEF DeleteTie
    <3> QED
      BY <1>2, <3>1 DEF LinkAfterDelete, Link, LinksCalm
  <2>2. CASE ~DeleteTie(id)
    BY <1>1, <1>6, <2>2 DEF ChangeTie, MoveByHand, ScoreByHand
  <2> QED
    BY <2>1, <2>2
<1>7. CASE Switch \/ Tick \/ UNCHANGED vars
  BY <1>1, <1>7 DEF Switch, Tick, rows, vars
<1> QED
  BY <1>3, <1>4, <1>5, <1>6, <1>7 DEF Next

(* Only a claim brings an application to where it creates a tie. *)
LEMMA PcOf ==
  ASSUME NEW state \in Local
  PROVE  /\ Onward(state).pc # "tie" /\ Done(state).pc # "tie"
<1>1. Idle.pc # "tie" /\ Idle.todo = {}
  BY DEF Idle
<1>2. Onward(state).pc # "tie"
  BY <1>1 DEF Onward, Local
<1>3. PICK next : next = [Idle EXCEPT !.current = state.current, !.used = state.used,
                    !.todo = state.todo \ {state.pair},
                    !.snap = [state.snap EXCEPT ![state.pair] = Idle.snap[state.pair]],
                    !.known = state.known]
  OBVIOUS
<1>4. Done(state) = Onward(next) /\ [next EXCEPT !.pc = "choose"].pc = "choose"
  BY <1>3 DEF Done, Idle
<1> QED
  BY <1>1, <1>2, <1>4 DEF Onward

LEMMA GoesElsewhere ==
  ASSUME TypesOK, NEW s \in Syncs, Fetch(s) \/ Proceeds(s) \/ Fails(s), ~Claim(s)
  PROVE  \E state : Goes(s, state) /\ state.pc # "tie"
<1>1. sync[s] \in Local
  BY AtType
<1>2. CASE Refused(s) \/ Stops(s) \/ Fails(s)
  <2>1. Goes(s, Idle)
    BY <1>2 DEF Refused, Stops, Fails, SeeRefused, ClaimRefused, WrongTie, BindRefused, LinkRefused, ApplyRefused,
                ImportRefused, MirrorRefused, FlagRefused, Leave
  <2> QED
    BY <2>1 DEF Idle
<1>3. CASE Fetch(s)
  <2>1. [Idle EXCEPT !.pc = "read", !.current = TRUE, !.snap = provider].pc # "tie"
    BY DEF Idle
  <2> QED
    BY <1>3, <2>1 DEF Fetch
<1>4. CASE Read(s)
  <2>1. PICK flagged : flagged = [p \in Pairs |-> [n \in Legs |->
          IF <<p, n>> \in Missing(sync[s].snap) THEN Conflicting(imports[p][n]) ELSE imports[p][n]]]
    OBVIOUS
  <2>2. PICK next : next = [sync[s] EXCEPT !.known = flagged, !.used = UsedPositions,
                                           !.todo = Reported(sync[s].snap)]
    OBVIOUS
  <2>3. Goes(s, Onward(next)) /\ sync[s].pc = "read"
    BY <1>4, <2>1, <2>2 DEF Read, At
  <2>4. Onward(next).pc # "tie"
    BY <1>1, <2>2, <2>3 DEF Onward, Idle, Local
  <2> QED
    BY <2>3, <2>4
<1>5. CASE Skip(s) \/ Mirror(s) \/ Flag(s)
  BY <1>1, <1>5, ChosenType, PcOf DEF Skip, Mirror, Flag
<1>6. CASE Choose(s)
  <2>1. Chosen(s) \in Local /\ Chosen(s).pc = "see"
    BY <1>6, ChosenType DEF Choose
  <2>2. [Chosen(s) EXCEPT !.seen[1] = SeenLeg(1, Chosen(s))].pc = "see"
    BY <2>1 DEF Local
  <2> QED
    BY <1>6, <2>2 DEF Choose
<1>7. CASE SeeSecond(s)
  <2>1. PICK pc \in {"node", "flag"} : pc = (IF links[sync[s].pair].tombstoned THEN "flag" ELSE "node")
    OBVIOUS
  <2>2. PICK next : next = [sync[s] EXCEPT !.seen[2] = SeenLeg(2, sync[s]), !.pc = pc]
    OBVIOUS
  <2>3. next.pc = pc
    BY <1>1, <2>2 DEF Local
  <2>4. Goes(s, Done(sync[s])) \/ Goes(s, next)
    BY <1>7, <2>1, <2>2 DEF SeeSecond
  <2> QED
    BY <1>1, <2>1, <2>3, <2>4, PcOf
<1>8. CASE Configure(s)
  <2>1. PICK pc \in {"claim", "flag"} :
          Goes(s, [sync[s] EXCEPT !.pc = pc, !.bound = nodes[sync[s].pos].tie, !.now = 0])
    BY <1>8 DEF Configure
  <2>2. [sync[s] EXCEPT !.pc = pc, !.bound = nodes[sync[s].pos].tie, !.now = 0].pc = pc
    BY <1>1 DEF Local
  <2> QED
    BY <2>1, <2>2
<1>9. CASE FindTie(s) \/ CreateTie(s)
  <2>1. PICK id, tie : Goes(s, [sync[s] EXCEPT !.pc = "bind", !.tie = id, !.was = tie, !.bound = 0])
    BY <1>9 DEF FindTie, CreateTie, Finds
  <2>2. [sync[s] EXCEPT !.pc = "bind", !.tie = id, !.was = tie, !.bound = 0].pc = "bind"
    BY <1>1 DEF Local
  <2> QED
    BY <2>1, <2>2
<1>10. CASE BindNode(s) \/ TieResult(s)
  <2>1. PICK pc \in {"link", "flag", "mirror"} : GoesTo(s, pc)
    BY <1>10 DEF BindNode, TieResult
  <2>2. [sync[s] EXCEPT !.pc = pc].pc = pc
    BY <1>1 DEF Local
  <2> QED
    BY <2>1, <2>2 DEF GoesTo
<1>11. CASE RecordLink(s)
  <2>1. Goes(s, Preflighted(s))
    BY <1>11 DEF RecordLink
  <2>2. Preflighted(s).pc # "tie"
    BY <1>1 DEF Preflighted, Local
  <2> QED
    BY <2>1, <2>2
<1>12. CASE ApplyLeg(s)
  <2>1. sync[s].pc = "legs"
    BY <1>12 DEF ApplyLeg, At
  <2>2. PICK applied : applied = [sync[s] EXCEPT !.left = Tail(@),
          !.conflict = @ \/ LegVerdict(s, Head(sync[s].left), sync[s].movable[Head(sync[s].left)]) = "conflict"]
    OBVIOUS
  <2>3. PICK flagged : flagged = [applied EXCEPT !.pc = "flag"]
    OBVIOUS
  <2>4. PICK onward : onward = [applied EXCEPT !.pc = "import", !.left = <<1, 2>>, !.was = NoTie,
                                               !.movable = Idle.movable]
    OBVIOUS
  <2>5. applied.pc = "legs" /\ flagged.pc = "flag" /\ onward.pc = "import"
    BY <1>1, <2>1, <2>2, <2>3, <2>4 DEF Local
  <2>6. Goes(s, CASE applied.left # <<>> -> applied
                   [] applied.left = <<>> /\ applied.conflict -> flagged
                   [] OTHER -> onward)
    BY <1>12, <2>2, <2>3, <2>4 DEF ApplyLeg
  <2> QED
    BY <2>5, <2>6
<1>13. CASE MarkImported(s)
  <2>1. PICK pc \in {"result", "import"} : pc = (IF Head(sync[s].left) = 2 THEN "result" ELSE "import")
    OBVIOUS
  <2>2. PICK next : next = [sync[s] EXCEPT !.left = Tail(sync[s].left), !.pc = pc]
    OBVIOUS
  <2>3. next.pc = pc /\ Goes(s, next)
    BY <1>1, <1>13, <2>1, <2>2 DEF MarkImported, Local
  <2> QED
    BY <2>1, <2>3
<1> QED
  BY <1>2, <1>3, <1>4, <1>5, <1>6, <1>7, <1>8, <1>9, <1>10, <1>11, <1>12, <1>13 DEF Proceeds

LEMMA OthersStay ==
  ASSUME TypesOK, [Next]_vars, NEW x \in Syncs, ~Claim(x)
  PROVE  StaysAtTie(x)
<1>1. sync \in [Syncs -> Local]
  BY DEF TypesOK, SyncOK
<1>2. sync'[x] = sync[x] => StaysAtTie(x)
  BY DEF StaysAtTie
<1>3. ASSUME NEW s \in Syncs, Fetch(s) \/ Proceeds(s) \/ Fails(s) PROVE StaysAtTie(x)
  <2>1. CASE s = x
    <3>1. PICK state : Goes(s, state) /\ state.pc # "tie"
      BY <1>3, <2>1, GoesElsewhere
    <3> QED
      BY <1>1, <2>1, <3>1 DEF Goes, StaysAtTie
  <2>2. CASE s # x
    <3>1. PICK state : Goes(s, state)
      BY <1>3, GoesElsewhere DEF Claim, GoesTo
    <3> QED
      BY <1>1, <1>2, <2>2, <3>1 DEF Goes
  <2> QED
    BY <2>1, <2>2
<1>4. ASSUME NEW p \in Pairs, ClaimExpires(p) \/ Reports(p) PROVE StaysAtTie(x)
  BY <1>2, <1>4, ReportsKeep DEF ClaimExpires
<1>5. ASSUME NEW id \in TieIds, ChangeTie(id) PROVE StaysAtTie(x)
  BY <1>2, <1>5 DEF ChangeTie, DeleteTie, MoveByHand, ScoreByHand
<1>6. CASE Switch
  BY <1>1, <1>6 DEF Switch, StaysAtTie, Local
<1>7. CASE Tick \/ UNCHANGED vars
  BY <1>2, <1>7 DEF Tick, rows, vars
<1> QED
  BY <1>3, <1>4, <1>5, <1>6, <1>7 DEF Next

(* Only creating and deleting change which ties there are. *)
LEMMA OtherTiesSame ==
  ASSUME TypesOK, [Next]_vars, \A s \in Syncs : ~CreateTie(s), \A id \in TieIds : ~DeleteTie(id)
  PROVE  TiesSame
<1>1. UNCHANGED ties => TiesSame
  BY DEF TiesSame, Same
<1>2. ASSUME NEW s \in Syncs, Fetch(s) \/ Proceeds(s) \/ Fails(s) PROVE TiesSame
  <2>1. CASE ApplyLeg(s) \/ TieResult(s)
    BY <2>1, WrittenTies
  <2>2. Refused(s) \/ Stops(s) \/ Fails(s) => UNCHANGED ties
    BY DEF Refused, Stops, Fails, SeeRefused, ClaimRefused, WrongTie, BindRefused, LinkRefused, ApplyRefused,
           ImportRefused, MirrorRefused, FlagRefused, Leave
  <2>3. Fetch(s) \/ FindTie(s) \/ Skip(s) => UNCHANGED ties
    BY DEF Fetch, FindTie, Skip, rows
  <2>4. Read(s) \/ Choose(s) \/ SeeSecond(s) \/ Configure(s) \/ Claim(s) => UNCHANGED ties
    BY DEF Read, Choose, SeeSecond, Configure, Claim
  <2>5. BindNode(s) \/ RecordLink(s) \/ MarkImported(s) \/ Mirror(s) \/ Flag(s) => UNCHANGED ties
    BY DEF BindNode, RecordLink, MarkImported, Mirror, Flag
  <2> QED
    BY <1>1, <1>2, <2>1, <2>2, <2>3, <2>4, <2>5 DEF Proceeds
<1>3. ASSUME NEW p \in Pairs, ClaimExpires(p) \/ Reports(p) PROVE TiesSame
  BY <1>1, <1>3, ReportsKeep DEF ClaimExpires
<1>4. ASSUME NEW id \in TieIds, ChangeTie(id) PROVE TiesSame
  <2>1. PICK n \in Legs : \/ \E start \in Starting : MoveByHand(id, n, start)
                          \/ \E score \in Scores : ScoreByHand(id, n, score)
    BY <1>4 DEF ChangeTie
  <2>2. PICK tie : /\ ties' = [ties EXCEPT ![id] = tie]
                   /\ \/ \E a : tie = Rescheduled(ties[id], n, a)
                      \/ \E a : tie = Scored(ties[id], n, a)
    BY <2>1 DEF MoveByHand, ScoreByHand
  <2> QED
    BY <2>2, ChangedTieStands
<1>5. CASE Switch \/ Tick \/ UNCHANGED vars
  BY <1>1, <1>5 DEF Switch, Tick, rows, vars
<1> QED
  BY <1>2, <1>3, <1>4, <1>5 DEF Next

(* What creating, deleting and claiming do *)
LEMMA CreateTieEffect ==
  ASSUME TypesOK, NEW s \in Syncs, CreateTie(s)
  PROVE  \E id \in TieIds :
           /\ ties[id].state = "none"
           /\ ties'[id].state = "live" /\ ties'[id].pair = sync[s].pair /\ ties'[id].pos = sync[s].pos
           /\ \A i \in TieIds : i # id => ties'[i] = ties[i]
<1>1. PICK id : id = (CHOOSE x \in Unused : \A y \in Unused : x =< y)
  OBVIOUS
<1>2. id \in TieIds /\ ties[id].state = "none"
  BY <1>1, NewId DEF CreateTie, Unused
<1>3. PICK tie : tie = [NoTie EXCEPT !.state = "live", !.pair = sync[s].pair, !.pos = sync[s].pos,
                                     !.start = Starts(sync[s].snap[sync[s].pair])]
  OBVIOUS
<1>4. tie.state = "live" /\ tie.pair = sync[s].pair /\ tie.pos = sync[s].pos
  BY <1>3 DEF NoTie
<1>5. ties' = [ties EXCEPT ![id] = tie]
  BY <1>1, <1>3 DEF CreateTie
<1>6. ties'[id] = tie /\ \A i \in TieIds : i # id => ties'[i] = ties[i]
  BY <1>2, <1>5 DEF TypesOK, RowsOK
<1> QED
  BY <1>2, <1>4, <1>6

LEMMA DeleteTieEffect ==
  ASSUME TypesOK, NEW id \in TieIds, DeleteTie(id)
  PROVE  /\ id \in Live /\ ties'[id].state = "deleted" /\ ties'[id].pair = 0
         /\ \A i \in TieIds : i # id => ties'[i] = ties[i]
         /\ \A p \in Pairs : links'[p] = LinkAfterDelete(links[p], id, ties[id].pos)
<1>1. PICK tie : tie = [NoTie EXCEPT !.state = "deleted"]
  OBVIOUS
<1>2. tie.state = "deleted" /\ tie.pair = 0
  BY <1>1 DEF NoTie
<1>3. ties'[id] = tie /\ \A i \in TieIds : i # id => ties'[i] = ties[i]
  BY <1>1 DEF DeleteTie, TypesOK, RowsOK
<1> QED
  BY <1>2, <1>3 DEF DeleteTie

LEMMA ClaimEffect ==
  ASSUME BuryInv, NEW s \in Syncs, Claim(s)
  PROVE  /\ sync[s].pair \in Pairs /\ ~links[sync[s].pair].tombstoned
         /\ links'[sync[s].pair].pos = sync[s].pos
         /\ sync'[s].pc = "tie" /\ sync'[s].pair = sync[s].pair /\ sync'[s].pos = sync[s].pos
<1>1. /\ sync[s] \in Local /\ sync[s].pos \in Positions /\ sync[s].pair \in Pairs
  BY AtType DEF Claim, At, BuryInv, BoundInv, Ready, WithPair
<1>2. PICK next : next = [sync[s] EXCEPT !.pc = "tie"]
  OBVIOUS
<1>3. next.pc = "tie" /\ next.pair = sync[s].pair /\ next.pos = sync[s].pos /\ sync'[s] = next
  BY <1>1, <1>2 DEF Claim, GoesTo, Goes, BuryInv, BoundInv, TypesOK, SyncOK, Local
<1>4. PICK p \in Pairs, link \in Link : p = sync[s].pair /\ link = links[p]
  BY <1>1 DEF BuryInv, BoundInv, TypesOK, RowsOK
<1>5. /\ ~link.tombstoned /\ Claimable(link, sync[s].pos)
      /\ links'[p] = Claimed(link, sync[s].pos, s)
  BY <1>4 DEF Claim, Claims, BuryInv, BoundInv, TypesOK, RowsOK
<1>6. link.tie # 0 => link.pos # 0
  <2>1. link.tie # 0 => link.tie \in Live /\ ties[link.tie].pos = link.pos
    BY <1>4 DEF BuryInv, BoundInv, LinkBound
  <2>2. link.tie # 0 => ties[link.tie].pos \in Positions
    BY <2>1 DEF BuryInv, Remembered, Live
  <2> QED
    BY <2>1, <2>2, Bounds
<1>7. links'[p].pos = sync[s].pos
  BY <1>5, <1>6 DEF Claimable, Claimed, Link
<1> QED
  BY <1>1, <1>3, <1>4, <1>5, <1>7

LEMMA InitBury == Init => BuryInv
<1> SUFFICES ASSUME Init PROVE BuryInv
  OBVIOUS
<1>1. \A id \in TieIds : ties[id].state = "none"
  BY DEF Init, NoTie
<1>2. \A s \in Syncs : Announced(s)
  BY DEF Init, Announced, Idle
<1> QED
  BY <1>1, <1>2, InitBound DEF BuryInv, OneTieEach, Remembered, Live

LEMMA NextBury == BuryInv /\ [Next]_vars => BuryInv'
<1> SUFFICES ASSUME BuryInv, [Next]_vars PROVE BuryInv'
  OBVIOUS
<1>1. TypesOK /\ BoundInv' /\ LinksCalm
  BY NextBound, LinksAlwaysCalm DEF BuryInv, BoundInv
<1>2. ASSUME NEW s \in Syncs PROVE Announced(s)'
  <2>1. CASE Claim(s)
    BY <2>1, ClaimEffect DEF Announced
  <2>2. CASE ~Claim(s)
    <3>1. SUFFICES ASSUME sync'[s].pc = "tie" PROVE links'[sync'[s].pair].pos = sync'[s].pos
      BY DEF Announced
    <3>2. sync[s].pc = "tie" /\ sync'[s].pair = sync[s].pair /\ sync'[s].pos = sync[s].pos
      BY <1>1, <2>2, <3>1, OthersStay DEF StaysAtTie
    <3>3. sync[s].pair \in Pairs /\ sync[s].pos \in Positions
      BY <1>1, <3>2, AtType DEF Ready, WithPair
    <3>4. links[sync[s].pair].pos = sync[s].pos
      BY <3>2 DEF BuryInv, Announced
    <3> QED
      BY <1>1, <3>2, <3>3, <3>4, Bounds DEF LinksCalm
  <2> QED
    BY <2>1, <2>2
<1>3. ASSUME NEW id \in TieIds, ties[id].state = "live", Same(ties'[id], ties[id]) PROVE Remembered(id)'
  <2>1. ties[id].pair \in Pairs /\ ties[id].pos \in Positions /\ links[ties[id].pair].pos = ties[id].pos
    BY <1>3 DEF BuryInv, Remembered
  <2>2. links'[ties[id].pair].pos = ties[id].pos
    BY <1>1, <2>1, Bounds DEF LinksCalm
  <2> QED
    BY <1>3, <2>1, <2>2 DEF Same, Remembered
<1>4. (\A id \in TieIds : Remembered(id)') /\ OneTieEach'
  <2>1. ASSUME NEW s \in Syncs, CreateTie(s) PROVE (\A id \in TieIds : Remembered(id)') /\ OneTieEach'
    <3>1. PICK id \in TieIds :
            /\ ties[id].state = "none"
            /\ ties'[id].state = "live" /\ ties'[id].pair = sync[s].pair /\ ties'[id].pos = sync[s].pos
            /\ \A i \in TieIds : i # id => ties'[i] = ties[i]
      BY <1>1, <2>1, CreateTieEffect
    <3>2. /\ sync[s].pc = "tie" /\ sync[s].pair \in Pairs /\ sync[s].pos \in Positions
          /\ \A i \in Live : ties[i].pair # sync[s].pair
      BY <1>1, <2>1, AtType DEF CreateTie, Creates, At, Ready, WithPair
    <3>3. links'[sync[s].pair].pos = sync[s].pos
      BY <1>1, <3>2, Bounds DEF BuryInv, Announced, LinksCalm
    <3>4. Remembered(id)'
      BY <3>1, <3>2, <3>3 DEF Remembered
    <3>5. ASSUME NEW i \in TieIds, i # id PROVE Remembered(i)'
      BY <1>3, <3>1, <3>5 DEF Same, Remembered
    <3>6. OneTieEach'
      BY <3>1, <3>2 DEF OneTieEach, Live, BuryInv
    <3> QED
      BY <3>4, <3>5, <3>6
  <2>2. ASSUME NEW id \in TieIds, DeleteTie(id) PROVE (\A i \in TieIds : Remembered(i)') /\ OneTieEach'
    <3>1. ties'[id].state = "deleted" /\ \A i \in TieIds : i # id => ties'[i] = ties[i]
      BY <1>1, <2>2, DeleteTieEffect
    <3>2. ASSUME NEW i \in TieIds PROVE Remembered(i)'
      BY <1>3, <3>1 DEF Same, Remembered
    <3>3. OneTieEach'
      BY <3>1 DEF OneTieEach, Live, BuryInv
    <3> QED
      BY <3>2, <3>3
  <2>3. CASE (\A s \in Syncs : ~CreateTie(s)) /\ (\A id \in TieIds : ~DeleteTie(id))
    <3>1. \A id \in TieIds : Same(ties'[id], ties[id])
      BY <1>1, <2>3, OtherTiesSame DEF TiesSame
    <3>2. ASSUME NEW id \in TieIds PROVE Remembered(id)'
      <4>1. CASE ties[id].state = "live"
        BY <1>3, <3>1, <4>1
      <4>2. CASE ties[id].state # "live"
        BY <3>1, <4>2 DEF Same, Remembered
      <4> QED
        BY <4>1, <4>2
    <3>3. OneTieEach'
      BY <3>1 DEF OneTieEach, Live, Same, BuryInv
    <3> QED
      BY <3>2, <3>3
  <2> QED
    BY <2>1, <2>2, <2>3
<1> QED
  BY <1>1, <1>2, <1>4 DEF BuryInv

(* Deleting a tie tombstones its pair, and keeps applications that have no
   claim yet from creating the pair's tie again (DeletedStaysDeleted). *)
THEOREM DeletionsLast == Spec => DeletedStaysDeleted
<1>1. ASSUME BuryInv, [Next]_vars, NEW id \in TieIds, Removes(id)
      PROVE  links'[ties[id].pair].tombstoned
  <2>1. TypesOK /\ ties[id].state = "live" /\ ties'[id].state # "live"
    BY <1>1 DEF BuryInv, BoundInv, Removes
  <2>2. PICK i \in TieIds : DeleteTie(i)
    <3>1. ASSUME NEW s \in Syncs, CreateTie(s) PROVE FALSE
      BY <2>1, <3>1, CreateTieEffect
    <3>2. TiesSame => FALSE
      BY <2>1 DEF TiesSame, Same
    <3> QED
      BY <1>1, <2>1, <3>1, <3>2, OtherTiesSame
  <2>3. i = id /\ \A p \in Pairs : links'[p] = LinkAfterDelete(links[p], id, ties[id].pos)
    BY <2>1, <2>2, DeleteTieEffect
  <2>4. PICK p \in Pairs : p = ties[id].pair /\ links[p].pos = ties[id].pos
    BY <1>1, <2>1 DEF BuryInv, Remembered
  <2>5. links[p].tie \in {0, id}
    <3>1. LinkBound(p) /\ OneTieEach
      BY <1>1 DEF BuryInv, BoundInv
    <3> QED
      BY <2>1, <2>4, <3>1 DEF LinkBound, OneTieEach, Live
  <2>6. links[p] \in Link
    BY <2>1 DEF TypesOK, RowsOK
  <2> QED
    BY <2>3, <2>4, <2>5, <2>6 DEF LinkAfterDelete, Link
<1>2. ASSUME BuryInv, [Next]_vars, NEW p \in Pairs, Buried(p)
      PROVE  /\ links'[p].tombstoned
             /\ \A s \in Syncs : AboutToCreate(s, p)' => AboutToCreate(s, p)
             /\ Reappears(p) => \E s \in Syncs : AboutToCreate(s, p)
  <2>1. TypesOK /\ LinksCalm
    BY <1>2, LinksAlwaysCalm DEF BuryInv, BoundInv
  <2>2. links[p].tombstoned /\ links'[p].tombstoned
    BY <1>2, <2>1 DEF Buried, LinksCalm
  <2>3. ASSUME NEW s \in Syncs, AboutToCreate(s, p)' PROVE AboutToCreate(s, p)
    <3>1. sync'[s].pc = "tie" /\ sync'[s].pair = p /\ sync'[s].bound = 0
      BY <2>3 DEF AboutToCreate, At
    <3>2. ~Claim(s)
      BY <1>2, <2>2, <3>1, ClaimEffect
    <3> QED
      BY <1>2, <2>1, <3>1, <3>2, OthersStay DEF StaysAtTie, AboutToCreate, At
  <2>4. ASSUME Reappears(p) PROVE \E s \in Syncs : AboutToCreate(s, p)
    <3>1. PICK id \in TieIds : ties'[id].pair = p /\ ties[id].pair # p
      BY <2>4 DEF Reappears
    <3>2. ASSUME NEW s \in Syncs, CreateTie(s) PROVE AboutToCreate(s, p)
      <4>1. At(s, "tie") /\ sync[s].bound = 0
        BY <3>2 DEF CreateTie, Creates
      <4>2. sync[s].pair = p
        BY <2>1, <3>1, <3>2, CreateTieEffect
      <4> QED
        BY <4>1, <4>2 DEF AboutToCreate
    <3>3. ASSUME NEW i \in TieIds, DeleteTie(i) PROVE FALSE
      BY <2>1, <3>1, <3>3, DeleteTieEffect, Bounds
    <3>4. TiesSame => FALSE
      BY <3>1 DEF TiesSame, Same
    <3> QED
      BY <1>2, <2>1, <3>2, <3>3, <3>4, OtherTiesSame
  <2> QED
    BY <2>2, <2>3, <2>4
<1>3. ASSUME BuryInv, [Next]_vars
      PROVE  [/\ \A id \in TieIds : Removes(id) => links'[ties[id].pair].tombstoned
              /\ \A p \in Pairs : Buried(p) =>
                   /\ Buried(p)'
                   /\ \A s \in Syncs : AboutToCreate(s, p)' => AboutToCreate(s, p)
                   /\ Reappears(p) => \E s \in Syncs : AboutToCreate(s, p)]_vars
  BY <1>1, <1>2, <1>3 DEF Buried
<1> QED
  BY <1>3, InitBury, NextBury, PTL DEF Spec, DeletedStaysDeleted
=============================================================================
