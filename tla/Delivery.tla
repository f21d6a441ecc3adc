------------------------------ MODULE Delivery ------------------------------
(***************************************************************************)
(* What durable delivery promises of whatever is handed over under one     *)
(* key, whichever table, worker or process carries it out: once accepted   *)
(* it is kept until something of that key has been shown or it is dropped  *)
(* explicitly; that it was sent is final.  It may be shown more than once, *)
(* even after the verdict.  What was dropped may be handed over again.     *)
(***************************************************************************)
CONSTANT Keys

VARIABLES
  phase,  \* where each key stands
  shown   \* keys of which something has been shown

vars == <<phase, shown>>

Init ==
  /\ phase = [k \in Keys |-> "new"]
  /\ shown = {}

Accept(k) ==
  /\ phase[k] \in {"new", "dropped"}
  /\ phase' = [phase EXCEPT ![k] = "kept"]
  /\ shown' = shown

(* It was shown before it was handed over. *)
AcceptShown(k) ==
  /\ phase[k] \in {"new", "dropped"}
  /\ phase' = [phase EXCEPT ![k] = "sent"]
  /\ shown' = shown \cup {k}

Show(k) ==
  /\ phase[k] # "new"
  /\ shown' = shown \cup {k}
  /\ phase' = phase

Confirm(k) ==
  /\ phase[k] = "kept" /\ k \in shown
  /\ phase' = [phase EXCEPT ![k] = "sent"]
  /\ shown' = shown

Drop(K) ==
  /\ \A k \in K : phase[k] = "kept"
  /\ phase' = [k \in Keys |-> IF k \in K THEN "dropped" ELSE phase[k]]
  /\ shown' = shown

Next ==
  \/ \E k \in Keys : Accept(k) \/ AcceptShown(k) \/ Show(k) \/ Confirm(k)
  \/ \E K \in SUBSET Keys : Drop(K)

Spec == Init /\ [][Next]_vars
=============================================================================
