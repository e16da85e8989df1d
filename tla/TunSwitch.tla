----------------------------- MODULE TunSwitch -----------------------------
(***************************************************************************)
(* What a system TUN switch promises the user, without phases, files,      *)
(* processes or recovery: the intent configuration changes only when the   *)
(* user edits it, or when a switch lands its candidate on the very         *)
(* configuration the candidate was built from; a switch is reported as     *)
(* committed only after it landed; a finished switch stays finished; and   *)
(* there is at most one open switch.  TunTransaction implements it.        *)
(***************************************************************************)
EXTENDS Naturals

CONSTANTS Configs, Candidate(_, _), NoSwitch

VARIABLES
  intent,   \* the user's configuration
  switch,   \* the current switch, or NoSwitch
  landed    \* its candidate has been the intent

vars == <<intent, switch, landed>>

InProgress == switch # NoSwitch /\ switch.state = "open"

Init ==
  /\ intent \in Configs
  /\ switch = NoSwitch /\ landed = FALSE

Edited == intent' \in Configs /\ intent'.user = intent.user + 1

Edit == Edited /\ UNCHANGED <<switch, landed>>

\* A switch starts from the user's configuration, perhaps after a pending edit.
Begin ==
  /\ ~InProgress
  /\ intent' = intent \/ Edited
  /\ \E target \in BOOLEAN :
       switch' = [state |-> "open", base |-> intent', cand |-> Candidate(intent', target)]
  /\ landed' = (switch'.cand = intent')

\* The candidate replaces the configuration it was built from, and no other.
Land ==
  /\ InProgress /\ intent \in {switch.base, switch.cand}
  /\ intent' = switch.cand /\ landed' = TRUE
  /\ UNCHANGED switch

Commit ==
  /\ InProgress /\ landed
  /\ switch' = [switch EXCEPT !.state = "committed"]
  /\ UNCHANGED <<intent, landed>>

RollBack ==
  /\ InProgress
  /\ switch' = [switch EXCEPT !.state = "rolledBack"]
  /\ UNCHANGED <<intent, landed>>

\* Archived after its end, or removed by a controlled reset before it.
Forget ==
  /\ switch # NoSwitch /\ switch' = NoSwitch
  /\ UNCHANGED <<intent, landed>>

Next == Edit \/ Begin \/ Land \/ Commit \/ RollBack \/ Forget

Spec == Init /\ [][Next]_vars
=============================================================================
