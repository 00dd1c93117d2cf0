---------------------------- MODULE WorkerAttempt ----------------------------
(***************************************************************************)
(* The lives of attempts on their Workers, as the two sides of the HTTP    *)
(* protocol agree on them. WorkerTasks shows that a Worker keeps to it;    *)
(* TaskScheduler shows that what the Coordinator believes of its remote    *)
(* attempts, and what its calls do to them, stays within it. Attempts are  *)
(* independent of each other; a shutdown or a crash moves many at once.    *)
(***************************************************************************)
CONSTANT Attempts

VARIABLE view
  \* none: not accepted yet          live:  accepted, may still succeed
  \* dying: told to stop             ok:    SUCCEEDED, its output is in the store
  \* dead: terminal, no output left  lost:  no process knows it, or ever will

Views == {"none", "live", "dying", "ok", "dead", "lost"}

Init == view = [a \in Attempts |-> "none"]

(* The one POST that is accepted. *)
Accept(a) == view[a] = "none" /\ view'[a] = "live"

(* A DELETE, or the shutdown of the Worker, reaches a live attempt. From    *)
(* then on it can only end without output.                                  *)
Stop(a)   == view[a] = "live" /\ view'[a] = "dying"
Finish(a) == view[a] = "live" /\ view'[a] = "ok"
Fail(a)   == view[a] \in {"live", "dying"} /\ view'[a] = "dead"

(* The Coordinator deletes the output it had been told of. *)
Remove(a) == view[a] = "ok" /\ view'[a] = "dead"

(* The Worker process ends, or the POST never arrives. *)
Lose(a)   == view'[a] = "lost"

Stay(a)   == view'[a] = view[a]

Next ==
  /\ view' \in [Attempts -> Views]
  /\ \A a \in Attempts :
       Accept(a) \/ Stop(a) \/ Finish(a) \/ Fail(a) \/ Remove(a) \/ Lose(a) \/ Stay(a)

Spec == Init /\ [][Next]_view
==============================================================================
