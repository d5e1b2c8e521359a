----------------------------- MODULE IngestTask -----------------------------
(***************************************************************************)
(* What the user is promised of an upload, without steps, jobs or runs: a  *)
(* task that is worked on until its content is whole or it fails, that can *)
(* be retried when it failed, and whose content nobody touches while it    *)
(* does not run.                                                           *)
(***************************************************************************)
VARIABLES
  status,   \* of the task
  whole,    \* its document holds all of the content, once
  spoiled   \* an error was ignored, or the user deleted a document

vars == <<status, whole, spoiled>>

Init == status = "absent" /\ whole = FALSE /\ spoiled = FALSE

Upload == status = "absent" /\ status' = "pending" /\ UNCHANGED <<whole, spoiled>>

(* Also again: the queue may deliver a job anew after a crash. *)
Start == status # "absent" /\ status' = "running" /\ UNCHANGED <<whole, spoiled>>

Work == status = "running" /\ whole' \in BOOLEAN /\ UNCHANGED <<status, spoiled>>

Finish ==
  /\ status = "running"
  /\ whole
  /\ status' = "completed"
  /\ UNCHANGED <<whole, spoiled>>

(* Even once completed: a job delivered anew, after a crash between the last *)
(* write and the acknowledgement, may fail before it starts.                *)
Fail ==
  /\ status \in {"pending", "running", "completed"}
  /\ status' = "failed"
  /\ UNCHANGED <<whole, spoiled>>

Retry == status = "failed" /\ status' = "pending" /\ UNCHANGED <<whole, spoiled>>

Spoil == spoiled' /\ (spoiled \/ UNCHANGED <<status, whole>>)

Next == Upload \/ Start \/ Work \/ Finish \/ Fail \/ Retry \/ Spoil

Spec == Init /\ [][Next]_vars
=============================================================================
