-------------------------------- MODULE Stage --------------------------------
(***************************************************************************)
(* What the parts of Upkeep share: the scene that is played, how often     *)
(* each kind of thing may still happen in it, and the time.                *)
(***************************************************************************)
EXTENDS Integers, FiniteSets, Sequences

CONSTANTS Scenes, None

ASSUME StageAssumption == \A s \in Scenes : \A k \in DOMAIN s.left : s.left[k] \in Nat

VARIABLES scene, left, now

stage == <<scene, left, now>>

StageInit == scene \in Scenes /\ left = scene.left /\ now = 0

Spend(kind) ==
  /\ kind \in DOMAIN left /\ left[kind] > 0
  /\ left' = [left EXCEPT ![kind] = @ - 1] /\ UNCHANGED <<scene, now>>

(* How often something of this kind has happened. *)
Spent(kind) == scene.left[kind] - left[kind]

(* Time passes. *)
Tick ==
  /\ "tick" \in DOMAIN left /\ left.tick > 0
  /\ left' = [left EXCEPT !.tick = @ - 1] /\ now' = now + 1 /\ UNCHANGED scene

(* The last n of a sequence. *)
Newest(q, n) == SubSeq(q, IF Len(q) > n THEN Len(q) - n + 1 ELSE 1, Len(q))
=============================================================================
