---------------------------- MODULE RunProtocol ----------------------------
(***************************************************************************)
(* What the callers of one agent rely on: a run is started once, has the   *)
(* agent to itself from its first step to its last, and tells its caller   *)
(* once, while it has it, whether it finished or failed.                   *)
(***************************************************************************)

CONSTANTS Sessions, Nobody

VARIABLES
  runner,   \* the run that has the agent
  status    \* per run, what its caller knows

vars == <<runner, status>>

Init ==
  /\ runner = Nobody
  /\ status = [s \in Sessions |-> "none"]

Start(s) ==
  /\ status[s] = "none"
  /\ status' = [status EXCEPT ![s] = "started"]
  /\ UNCHANGED runner

Begin(s) ==
  /\ runner = Nobody
  /\ status[s] = "started"
  /\ runner' = s
  /\ UNCHANGED status

Tell(s) ==
  /\ runner = s
  /\ status[s] = "started"
  /\ \E t \in {"finished", "failed"} : status' = [status EXCEPT ![s] = t]
  /\ UNCHANGED runner

(* The run is over, or was abandoned by its caller. *)
Leave(s) ==
  /\ runner = s
  /\ runner' = Nobody
  /\ UNCHANGED status

Next == \E s \in Sessions : Start(s) \/ Begin(s) \/ Tell(s) \/ Leave(s)

Spec == Init /\ [][Next]_vars
=============================================================================
