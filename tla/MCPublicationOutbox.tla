------------------------- MODULE MCPublicationOutbox -------------------------
(* Instances of PublicationOutbox for TLC: model values for matches and
   snapshots, and their symmetry. *)
EXTENDS PublicationOutbox, TLC

Symmetry == Permutations(Matches) \cup Permutations(Workers)

=============================================================================
