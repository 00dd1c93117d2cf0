----------------------------- MODULE ScheduleRun -----------------------------
(***************************************************************************)
(* What one run of the TaskScheduler promises its caller, without stages,  *)
(* tasks, attempts or Workers: it ends, in one of four ways, and it ends   *)
(* cancelled only if cancel was called during the run. TaskScheduler       *)
(* implements this specification; QueryService relies on it.               *)
(***************************************************************************)

VARIABLES
  status,  \* running, complete, cancelled, failed, unconfirmed
  token    \* cancel was called during the run

vars == <<status, token>>

(* complete: every task has a result; cancelled: the run returned without   *)
(* results; failed: a task ran out of attempts; unconfirmed: the end of a   *)
(* remote attempt could not be confirmed.                                   *)
Outcomes(cancelled) ==
  {"complete", "failed", "unconfirmed"} \cup (IF cancelled THEN {"cancelled"} ELSE {})

Init == status = "running" /\ token = FALSE

Cancel ==
  /\ status = "running"
  /\ token' = TRUE
  /\ UNCHANGED status

End ==
  /\ status = "running"
  /\ status' \in Outcomes(token)
  /\ UNCHANGED token

Next == Cancel \/ End

Spec == Init /\ [][Next]_vars /\ WF_vars(End)
============================================================================
