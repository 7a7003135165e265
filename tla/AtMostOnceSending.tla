------------------------ MODULE AtMostOnceSending ------------------------
(* What the reminder worker promises of each part it sends: it asks Telegram
   again only when Telegram is known to have refused; a part that Telegram
   accepted, or may have accepted, is never sent again. *)

CONSTANT Parcels
VARIABLE parcel

States == {"unsent", "asked", "known", "unknown"}

Init == parcel = [p \in Parcels |-> "unsent"]

Settles(from, to) ==
  \/ to = from
  \/ from = "asked" /\ to \in States

(* Workers ask one at a time; several parcels may be settled at once. *)
Ask(p) ==
  /\ parcel[p] = "unsent"
  /\ parcel' = [parcel EXCEPT ![p] = "asked"]

Settle ==
  /\ parcel' \in [Parcels -> States]
  /\ \A p \in Parcels : Settles(parcel[p], parcel'[p])

Next == Settle \/ \E p \in Parcels : Ask(p)

Spec == Init /\ [][Next]_parcel

=============================================================================
