-------------------------- MODULE UpgradeContract --------------------------
(***************************************************************************)
(* What the generation pipeline promises of the installed files: they      *)
(* change only while an upgrade is staged, an upgrade ends with the        *)
(* candidate or with the baseline in place, and a revoked one leaves the   *)
(* baseline as the only scene the next upgrade can return to.              *)
(***************************************************************************)
CONSTANTS
  Scenes,   \* what the managed files can hold, by file
  NoScene   \* no baseline is bound

VARIABLES
  phase,  \* "settled", "staged" or "revoked"
  scene,  \* the installed files
  base,   \* the scene a failed upgrade returns to
  target  \* the scene of the staged candidate

vars == <<phase, scene, base, target>>

Init ==
  /\ phase = "settled"
  /\ scene \in Scenes
  /\ base = NoScene /\ target = NoScene

\* A settled scene becomes the baseline; a revoked upgrade passes its own on.
Stage ==
  /\ phase # "staged" /\ phase' = "staged"
  /\ base' = IF phase = "settled" THEN scene ELSE base
  /\ target' \in Scenes
  /\ UNCHANGED scene

\* One file at a time, to the candidate's content or back to the baseline's.
Write ==
  /\ phase = "staged"
  /\ \E a \in DOMAIN scene, s \in {base, target} : scene' = [scene EXCEPT ![a] = s[a]]
  /\ UNCHANGED <<phase, base, target>>

Settle ==
  /\ phase = "staged" /\ phase' = "settled"
  /\ base' = NoScene /\ target' = NoScene
  /\ UNCHANGED scene

Commit == Settle /\ scene = target

Revert == Settle /\ scene = base

Revoke ==
  /\ phase = "staged" /\ phase' = "revoked"
  /\ target' = NoScene
  /\ UNCHANGED <<scene, base>>

\* An administrator vouches for files of unknown origin as they are.
Adopt ==
  /\ phase = "settled" /\ phase' = "revoked"
  /\ base' = scene
  /\ UNCHANGED <<scene, target>>

Next == Stage \/ Write \/ Commit \/ Revert \/ Revoke \/ Adopt

Spec == Init /\ [][Next]_vars
=============================================================================
