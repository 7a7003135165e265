------------------------ MODULE MCPublicationDelivery ------------------------
(* Instances of PublicationDelivery for TLC: a publication of one part, of
   another text, or of two parts. *)
EXTENDS PublicationDelivery, TLC

CONSTANTS a, b

OneOrTwoParts == {<<a>>, <<a, b>>}
TwoTexts == {<<a>>, <<b>>}

Symmetry == Permutations(Workers) \cup Permutations(Texts)

=============================================================================
