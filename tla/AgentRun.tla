------------------------------ MODULE AgentRun ------------------------------
(***************************************************************************)
(* What the caller of one agent run is promised: citations may be pushed,  *)
(* any number of times, until the answer starts; the result carries the    *)
(* citations that were pushed last; the run ends once, with an answer or   *)
(* without one.                                                            *)
(***************************************************************************)
VARIABLES
  phase,    \* "searching", "answered" or "stopped"
  shown,    \* the citations the client holds
  result    \* the citations of the result

vars == <<phase, shown, result>>

Init == phase = "searching" /\ result = shown

Show == phase = "searching" /\ phase' = phase /\ result' = result

Answer ==
  /\ phase = "searching"
  /\ phase' = "answered"
  /\ result' = shown
  /\ UNCHANGED shown

Stop == phase = "searching" /\ phase' = "stopped" /\ UNCHANGED <<shown, result>>

Next == Show \/ Answer \/ Stop

Spec == Init /\ [][Next]_vars
=============================================================================
