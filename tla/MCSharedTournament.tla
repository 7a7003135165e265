------------------------ MODULE MCSharedTournament ------------------------
(* SharedTournament with interchangeable contests and teams.  The Swiss     *)
(* stage is asked about in tournaments of one contest without matches.      *)
EXTENDS SharedTournament, TLC

Symmetry == Permutations(Contests) \cup Permutations(Teams)
SwissApart ==
  \A q \in Questions \ {"champion"} :
    questions[q] # NoQuestion => Live = {} /\ Cardinality(Linked) < 2
=============================================================================
