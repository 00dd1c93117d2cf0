---------------------------- MODULE SharedWorkers ----------------------------
(***************************************************************************)
(* Queries that share the Workers.  Every query has an executor, and with  *)
(* it a scheduler, of its own (coordinator/queries.py); what they share is *)
(* the records of the Workers' task managers.  A record is found by its    *)
(* attempt id, which is made of a stage counter that starts at 0 for every *)
(* query, the id of a plan node, the number of the task and the number of  *)
(* the attempt (coordinator/remote_execution.py): queries whose plans have *)
(* the same shape use the same ids.                                        *)
(*                                                                         *)
(* One task of each of several queries of one shape is followed, from the  *)
(* choice of a Worker to its outcome.  TaskScheduler has the rest of a     *)
(* schedule (slots, cancellation of a query), WorkerTasks the rest         *)
(* of an attempt.                                                          *)
(***************************************************************************)
EXTENDS Naturals, FiniteSets

CONSTANTS Queries, Workers, None,
          Listings,         \* which sets of Workers the registry may list as ACTIVE
          MaxAttempts,      \* RetryPolicy.max_attempts
          MaxRestarts       \* bound: restarts of Workers

ASSUME MaxAttemptsAssumption == MaxAttempts \in Nat \ {0}
ASSUME MaxRestartsAssumption == MaxRestarts \in Nat
ASSUME ListingsAssumption == Listings \subseteq SUBSET Workers
ASSUME NoneIsNothing == None \notin Queries /\ None \notin Workers

Numbers == 0..(MaxAttempts - 1)

VARIABLES
  owner,      \* per Worker and attempt number, the query whose submission the record holds
  state,      \* the state of that record
  pc,         \* where the query's _run_task is
  number,     \* attempts it has given up
  used,       \* the Worker of each attempt it has begun
  reason,     \* why it gave up an attempt
  value,      \* the query whose task produced the result it returned
  disturbed,  \* history: queries that poll a Worker which has restarted since they posted
  restarts    \* restarts so far

records == <<owner, state>>
vars == <<owner, state, pc, number, used, reason, value, disturbed, restarts>>

RecordStates == {"absent", "RUNNING", "CANCELING", "SUCCEEDED", "FAILED", "CANCELED"}
Steps == {"choosing", "posting", "polling", "discarding", "succeeded", "failed"}
Reasons == {"none", "conflict", "canceled", "fault", "unconfirmed", "unavailable"}

Init ==
    /\ owner = [w \in Workers |-> [n \in Numbers |-> None]]
    /\ state = [w \in Workers |-> [n \in Numbers |-> "absent"]]
    /\ pc = [q \in Queries |-> "choosing"]
    /\ number = [q \in Queries |-> 0]
    /\ used = [q \in Queries |-> [n \in Numbers |-> None]]
    /\ reason = [q \in Queries |-> [n \in Numbers |-> "none"]]
    /\ value = [q \in Queries |-> None]
    /\ disturbed = {} /\ restarts = 0

\* The Worker of the current attempt, and what the query finds there under its id.
Here(q) == used[q][number[q]]
Owner(q) == owner[Here(q)][number[q]]
State(q) == state[Here(q)][number[q]]

\* Healthy Workers, those the task has not tried first.
Candidates(q, healthy) ==
    LET fresh == healthy \ {used[q][n] : n \in Numbers}
    IN  IF fresh # {} THEN fresh ELSE healthy

\* _choose_worker among the Workers that are healthy at this moment (leases come and
\* go at any time, and only a choice asks for them), and the attempt with the next
\* number.
Choose(q, healthy, w) ==
    /\ pc[q] = "choosing" /\ w \in Candidates(q, healthy)
    /\ used' = [used EXCEPT ![q][number[q]] = w]
    /\ pc' = [pc EXCEPT ![q] = "posting"]
    /\ UNCHANGED <<records, number, reason, value, disturbed, restarts>>

\* No Worker is healthy: the task fails at once, whatever attempts it has left.
NoWorker(q) ==
    /\ pc[q] = "choosing" /\ {} \in Listings
    /\ pc' = [pc EXCEPT ![q] = "failed"]
    /\ reason' = [reason EXCEPT ![q][number[q]] = "unavailable"]
    /\ UNCHANGED <<records, number, used, value, disturbed, restarts>>

\* Mutant: the content of an existing record is not compared.
AcceptsAny(q) == TRUE

\* WorkerTaskManager.submit answers an attempt id it knows only if the submission
\* is the one it has; submissions of two queries differ in the query id.
Accepts(q) == Owner(q) \in {None, q}

\* POST /api/v1/tasks: a new record, or the one that is there.
Post(q) ==
    /\ pc[q] = "posting" /\ Accepts(q)
    /\ IF Owner(q) = None
       THEN /\ owner' = [owner EXCEPT ![Here(q)][number[q]] = q]
            /\ state' = [state EXCEPT ![Here(q)][number[q]] = "RUNNING"]
       ELSE UNCHANGED records
    /\ pc' = [pc EXCEPT ![q] = "polling"]
    /\ UNCHANGED <<number, used, reason, value, disturbed, restarts>>

\* The attempt has failed for the scheduler.
GiveUp(q, why) ==
    /\ pc' = [pc EXCEPT ![q] = "discarding"]
    /\ reason' = [reason EXCEPT ![q][number[q]] = why]
    /\ UNCHANGED <<records, number, used, value, disturbed, restarts>>

\* 409, which the client takes for the loss of the Worker.
Conflict(q) == pc[q] = "posting" /\ ~Accepts(q) /\ GiveUp(q, "conflict")

\* GET /api/v1/tasks/{attempt_id}: whatever record has the id.
PollResult(q) ==
    /\ pc[q] = "polling" /\ State(q) = "SUCCEEDED"
    /\ value' = [value EXCEPT ![q] = Owner(q)]
    /\ pc' = [pc EXCEPT ![q] = "succeeded"]
    /\ UNCHANGED <<records, number, used, reason, disturbed, restarts>>

\* Mutant: a cancelled attempt is polled again.
PollsOn(q) == pc[q] = "polling" /\ State(q) = "CANCELED" /\ UNCHANGED vars

PollCanceled(q) == pc[q] = "polling" /\ State(q) = "CANCELED" /\ GiveUp(q, "canceled")

\* The task has failed, or the Worker does not know the attempt (404).
PollFailed(q) == pc[q] = "polling" /\ State(q) \in {"FAILED", "absent"} /\ GiveUp(q, "fault")

\* The lease of the Worker or the time of the attempt runs out, or a request fails.
Lose(q) == pc[q] \in {"posting", "polling"} /\ GiveUp(q, "fault")

\* DELETE /api/v1/tasks/{attempt_id} cancels the record with the id, whosever it is,
\* if it is not terminal; the call may also be lost.
AfterDelete(q) ==
    {state, IF State(q) = "RUNNING"
            THEN [state EXCEPT ![Here(q)][number[q]] = "CANCELING"] ELSE state}

\* The time of the attempt runs out and the DELETE is not confirmed: no further
\* attempt is made (CancellationConfirmationError).
Unconfirmed(q) ==
    /\ pc[q] = "polling"
    /\ state' \in AfterDelete(q)
    /\ pc' = [pc EXCEPT ![q] = "failed"]
    /\ reason' = [reason EXCEPT ![q][number[q]] = "unconfirmed"]
    /\ UNCHANGED <<owner, number, used, value, disturbed, restarts>>

\* Mutant: one attempt fewer than the policy allows.
IsLastButOne(n) == n + 2 = MaxAttempts

\* attempt_number + 1 < max_attempts, or not.
IsLastAttempt(n) == n + 1 = MaxAttempts

\* worker.discard: an error of the call is suppressed.  Then the next attempt, or none.
Discard(q) ==
    /\ pc[q] = "discarding"
    /\ state' \in AfterDelete(q)
    /\ pc' = [pc EXCEPT ![q] = IF IsLastAttempt(number[q]) THEN "failed" ELSE "choosing"]
    /\ number' = [number EXCEPT ![q] = IF IsLastAttempt(@) THEN @ ELSE @ + 1]
    /\ disturbed' = disturbed \ {q}
    /\ UNCHANGED <<owner, used, reason, value, restarts>>

\* The task of a record ends; a result that comes after a DELETE is withdrawn.
Finish(w, n) ==
    /\ \/ state[w][n] = "RUNNING" /\ \E s \in {"SUCCEEDED", "FAILED"} :
                                       state' = [state EXCEPT ![w][n] = s]
       \/ state[w][n] = "CANCELING" /\ state' = [state EXCEPT ![w][n] = "CANCELED"]
    /\ UNCHANGED <<owner, pc, number, used, reason, value, disturbed, restarts>>

\* A new process of a Worker knows no attempt.
Restart(w) ==
    /\ restarts < MaxRestarts
    /\ owner' = [owner EXCEPT ![w] = [n \in Numbers |-> None]]
    /\ state' = [state EXCEPT ![w] = [n \in Numbers |-> "absent"]]
    /\ disturbed' = disturbed \cup {q \in Queries : pc[q] = "polling" /\ Here(q) = w}
    /\ restarts' = restarts + 1
    /\ UNCHANGED <<pc, number, used, reason, value>>

Step(q) == \/ NoWorker(q) \/ \E healthy \in Listings : \E w \in healthy : Choose(q, healthy, w)
           \/ Post(q) \/ Conflict(q) \/ PollResult(q) \/ PollCanceled(q) \/ PollFailed(q)
           \/ Discard(q)

Next == \/ \E q \in Queries : Step(q) \/ Lose(q) \/ Unconfirmed(q)
        \/ \E w \in Workers : Restart(w) \/ \E n \in Numbers : Finish(w, n)

\* A scheduler polls until there is an outcome, and a Worker's thread ends.
Fairness == /\ \A q \in Queries : WF_vars(Step(q))
            /\ \A w \in Workers, n \in Numbers : WF_vars(Finish(w, n))

Spec == Init /\ [][Next]_vars /\ Fairness

----------------------------------------------------------------------------
TypeOK ==
    /\ owner \in [Workers -> [Numbers -> Queries \cup {None}]]
    /\ state \in [Workers -> [Numbers -> RecordStates]]
    /\ pc \in [Queries -> Steps]
    /\ number \in [Queries -> Numbers]
    /\ used \in [Queries -> [Numbers -> Workers \cup {None}]]
    /\ reason \in [Queries -> [Numbers -> Reasons]]
    /\ \A q \in Queries : \/ pc[q] = "choosing" \/ Here(q) \in Workers
                          \/ pc[q] = "failed" /\ reason[q][number[q]] = "unavailable"
    /\ value \in [Queries -> Queries \cup {None}]
    /\ disturbed \subseteq Queries /\ restarts \in 0..MaxRestarts

\* A query returns the result of its own task although another may use its attempt
\* ids on the same Worker.  What the Worker compares is the content of a POST, not
\* who polls: when it has restarted since the POST, the record under the id may be
\* another query's, and so may the result.
OwnOutcome == \A q \in Queries : value[q] \in {None, q} \/ q \in disturbed

\* An attempt is refused, or is found cancelled, only where another query used the
\* same number at the same Worker: the retries of one query do not meet each other.
\* And a query fails only when all the attempts it may make have gone that way or
\* to a fault, when it could not be sure that the last one has stopped, or when it
\* found no healthy Worker for the next one, however few attempts it had made
\* (scheduler.py 325-431).
OnlySharingRefuses ==
    \A q \in Queries :
      /\ \A n \in Numbers : reason[q][n] \in {"conflict", "canceled"} =>
           \E other \in Queries \ {q} : used[other][n] = used[q][n]
      /\ pc[q] = "failed" => \/ reason[q][number[q]] \in {"unconfirmed", "unavailable"}
                             \/ \A n \in Numbers : reason[q][n] \in {"conflict", "canceled", "fault"}

\* Every query comes to an outcome, however often the others cancel its attempts
\* and however leases come and go (scheduler.py 314-431).
EveryQueryEnds == \A q \in Queries : <>(pc[q] \in {"succeeded", "failed"})

\* As long as no Worker restarts or loses its lease, no attempt runs out and no task
\* fails, no query fails: an attempt id is unique ("a Task has unique attempts",
\* spec.md).  The code does not satisfy this.
HealthyQueriesSucceed ==
    (/\ Listings = {Workers} /\ restarts = 0
     /\ \A q \in Queries, n \in Numbers : reason[q][n] \in {"none", "conflict", "canceled"})
      => \A q \in Queries : pc[q] # "failed"
=============================================================================
