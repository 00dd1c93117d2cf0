--------------------------- MODULE WorkerRegistry ---------------------------
(***************************************************************************)
(* Worker membership: the Coordinator's in-memory registry of renewable    *)
(* leases (WorkerRegistry), the background agent of every Worker that      *)
(* registers and heartbeats (WorkerAgent), and the network between them.   *)
(*                                                                         *)
(* Time is relative: a record keeps the ticks left of its lease, an agent  *)
(* the ticks until its next turn, so the clock needs no bound. A request   *)
(* whose client gave up may still reach the Coordinator (late); nobody     *)
(* reads its answer. Lease ids are uuids: a new one differs from every id  *)
(* still in use anywhere.                                                  *)
(*                                                                         *)
(* calm marks the end of the faults: from then on no request fails, no     *)
(* process dies, and answers take less than a tick. Requests that were     *)
(* delayed before may still arrive.                                        *)
(***************************************************************************)
EXTENDS Naturals, FiniteSets

CONSTANTS
  Workers,   \* worker ids
  Leases,    \* lease ids
  TTL,       \* lease_ttl_seconds, in ticks
  Beat,      \* heartbeat_interval_seconds, in ticks
  Retry,     \* registration_retry_seconds, in ticks
  Slots,     \* slots of a Worker
  MaxLate,   \* bound: delayed requests per Worker
  None

ASSUME TimesAssumption == TTL \in Nat \ {0} /\ Beat \in Nat \ {0} /\ Retry \in Nat \ {0}
ASSUME SlotsAssumption == Slots \in Nat \ {0}
ASSUME NoneAssumption == None \notin Leases

VARIABLES
  reg,    \* the registry: one record per worker id
  agent,  \* the agents
  up,     \* is the Worker process running?
  late,   \* requests given up by their client that may still arrive
  calm    \* have the faults ended?

vars == <<reg, agent, up, late, calm>>

Ids      == Leases \cup {None}
Pause    == IF Beat > Retry THEN Beat ELSE Retry
Requests == [kind : {"register"}, lease : {None}] \cup [kind : {"heartbeat"}, lease : Leases]
NoCall   == [kind |-> "none", lease |-> None]
NoAnswer == [code |-> "none", lease |-> None]

(* The type invariant: registry records, agents and delayed requests keep   *)
(* their types (registry.py 18-31, agent.py 18-36).                         *)
TypeOK ==
  /\ reg \in [Workers -> [state : {"absent", "ACTIVE", "LOST"}, lease : Ids,
                          left : 0 .. TTL, slots : 0 .. Slots]]
  /\ agent \in [Workers -> [lease : Ids, registered : BOOLEAN, wait : 0 .. Pause,
                            call : Requests \cup {NoCall},
                            answer : [code : {"none", "ok", "rejected"}, lease : Ids]]]
  /\ up \in [Workers -> BOOLEAN]
  /\ late \in [Workers -> SUBSET Requests]
  /\ calm \in BOOLEAN

NoRecord == [state |-> "absent", lease |-> None, left |-> 0, slots |-> 0]
Fresh    == [lease |-> None, registered |-> FALSE, wait |-> 0, call |-> NoCall, answer |-> NoAnswer]

Init ==
  /\ reg   = [w \in Workers |-> NoRecord]
  /\ agent = [w \in Workers |-> Fresh]
  /\ up    = [w \in Workers |-> TRUE]
  /\ late  = [w \in Workers |-> {}]
  /\ calm  = FALSE

(* Lease ids that some record, agent or request still carries. *)
InUse ==
  UNION {{reg[w].lease, agent[w].lease, agent[w].call.lease, agent[w].answer.lease}
         \cup {m.lease : m \in late[w]} : w \in Workers}

(* uuid4: which unused id is drawn makes no difference. *)
NewLease == CHOOSE l \in Leases : l \notin InUse

(* Bound: a registration needs an id to draw. The program never runs out. *)
IdsLeft == \E l \in Leases : l \notin InUse

----------------------------------------------------------------------------
(* The registry's handlers, as functions from a record to a record. *)

(* register: whatever was there is replaced by an ACTIVE record with a new  *)
(* lease.                                                                   *)
Registered(l) == [state |-> "ACTIVE", lease |-> l, left |-> TTL, slots |-> Slots]

(* Mutant of HeartbeatCode: the lease id is not compared. *)
HeartbeatCodeAnyLease(r, l) ==
  IF r.state = "absent" THEN "rejected" ELSE IF r.left = 0 THEN "expired" ELSE "ok"

(* heartbeat: 404 for an unknown worker, 409 for another lease, 409 for an  *)
(* expired one. The 422 for too many slots is out of the agent's reach: it  *)
(* reports its configured slots.                                            *)
HeartbeatCode(r, l) ==
  IF r.state = "absent" \/ r.lease # l THEN "rejected"
  ELSE IF r.left = 0 THEN "expired" ELSE "ok"

(* Mutants of AfterHeartbeat: an expired lease is renewed all the same; the *)
(* expiry is not moved.                                                     *)
AfterHeartbeatRenewsExpired(r, l) ==
  IF HeartbeatCode(r, l) = "rejected" THEN r
  ELSE [r EXCEPT !.state = "ACTIVE", !.left = TTL, !.slots = Slots]

AfterHeartbeatKeepsExpiry(r, l) ==
  CASE HeartbeatCode(r, l) = "ok"       -> [r EXCEPT !.state = "ACTIVE", !.slots = Slots]
    [] HeartbeatCode(r, l) = "expired"  -> [r EXCEPT !.state = "LOST"]
    [] HeartbeatCode(r, l) = "rejected" -> r

(* Only the expired heartbeat and the accepted one change the record; the   *)
(* former leaves the slots as they were.                                    *)
AfterHeartbeat(r, l) ==
  CASE HeartbeatCode(r, l) = "ok"       -> [r EXCEPT !.state = "ACTIVE", !.left = TTL, !.slots = Slots]
    [] HeartbeatCode(r, l) = "expired"  -> [r EXCEPT !.state = "LOST"]
    [] HeartbeatCode(r, l) = "rejected" -> r

(* Mutants of Expired: a lease in its last tick is taken for expired; idle  *)
(* workers are spared.                                                      *)
ExpiredEarly(r) == r.state = "ACTIVE" /\ r.left <= 1
ExpiredIfBusy(r) == r.state = "ACTIVE" /\ r.left = 0 /\ r.slots < Slots

Expired(r) == r.state = "ACTIVE" /\ r.left = 0

(* expire_leases, by the lease monitor and by every health check of the     *)
(* scheduler.                                                               *)
ExpireLeases ==
  /\ \E w \in Workers : Expired(reg[w])
  /\ reg' = [w \in Workers |-> IF Expired(reg[w])
                               THEN [reg[w] EXCEPT !.state = "LOST", !.slots = 0]
                               ELSE reg[w]]
  /\ UNCHANGED <<agent, up, late, calm>>

(* The Coordinator process dies and comes back with an empty registry. *)
RestartCoordinator ==
  /\ ~calm
  /\ reg' = [w \in Workers |-> NoRecord]
  /\ UNCHANGED <<agent, up, late, calm>>

----------------------------------------------------------------------------
(* The agent's loop *)

(* _try_register or _try_heartbeat sends its request. *)
Send(w) ==
  /\ up[w]
  /\ agent[w].wait = 0
  /\ agent[w].call = NoCall
  /\ agent' = [agent EXCEPT ![w].call =
       IF agent[w].lease = None
       THEN [kind |-> "register", lease |-> None]
       ELSE [kind |-> "heartbeat", lease |-> agent[w].lease]]
  /\ UNCHANGED <<reg, up, late, calm>>

(* The Coordinator handles the request the agent is waiting on. *)
Handle(w) ==
  /\ agent[w].call # NoCall
  /\ agent[w].answer = NoAnswer
  /\ \/ /\ agent[w].call.kind = "register"
        /\ IdsLeft
        /\ reg'   = [reg EXCEPT ![w] = Registered(NewLease)]
        /\ agent' = [agent EXCEPT ![w].answer = [code |-> "ok", lease |-> NewLease]]
     \/ /\ agent[w].call.kind = "heartbeat"
        /\ LET l == agent[w].call.lease IN
             /\ reg'   = [reg EXCEPT ![w] = AfterHeartbeat(@, l)]
             /\ agent' = [agent EXCEPT ![w].answer =
                  [code |-> IF HeartbeatCode(reg[w], l) = "ok" THEN "ok" ELSE "rejected",
                   lease |-> None]]
  /\ UNCHANGED <<up, late, calm>>

(* The agent reads its answer: a registration brings the lease, a rejected  *)
(* heartbeat drops it. Either way the next turn is a heartbeat interval off.*)
Receive(w) ==
  /\ agent[w].answer # NoAnswer
  /\ agent' = [agent EXCEPT ![w] =
       [lease      |-> CASE agent[w].call.kind = "register"  -> agent[w].answer.lease
                         [] agent[w].answer.code = "rejected" -> None
                         [] OTHER                             -> agent[w].lease,
        registered |-> agent[w].answer.code = "ok",
        wait       |-> Beat, call |-> NoCall, answer |-> NoAnswer]]
  /\ UNCHANGED <<reg, up, late, calm>>

(* What the network may do with a request its client no longer waits for. *)
Detach(w) ==
  \/ UNCHANGED late
  \/ /\ agent[w].call # NoCall
     /\ agent[w].answer = NoAnswer
     /\ Cardinality(late[w] \cup {agent[w].call}) <= MaxLate
     /\ late' = [late EXCEPT ![w] = @ \cup {agent[w].call}]

(* The request fails for the agent: refused, timed out, or answered with    *)
(* another error. A failed registration clears the registered flag; a       *)
(* failed heartbeat keeps the lease.                                        *)
GiveUp(w) ==
  /\ ~calm
  /\ agent[w].call # NoCall
  /\ agent' = [agent EXCEPT ![w] =
       [lease      |-> agent[w].lease,
        registered |-> agent[w].registered /\ agent[w].call.kind = "heartbeat",
        wait       |-> IF agent[w].lease = None THEN Retry ELSE Beat,
        call |-> NoCall, answer |-> NoAnswer]]
  /\ Detach(w)
  /\ UNCHANGED <<reg, up, calm>>

(* A delayed request reaches the Coordinator after all. *)
HandleLate(w, m) ==
  /\ m \in late[w]
  /\ late' = [late EXCEPT ![w] = @ \ {m}]
  /\ \/ /\ m.kind = "register"
        /\ IdsLeft
        /\ reg' = [reg EXCEPT ![w] = Registered(NewLease)]
     \/ /\ m.kind = "heartbeat"
        /\ reg' = [reg EXCEPT ![w] = AfterHeartbeat(@, m.lease)]
  /\ UNCHANGED <<agent, up, calm>>

(* The Worker stops or crashes; nothing tells the registry. *)
Stop(w) ==
  /\ ~calm
  /\ up[w]
  /\ up' = [up EXCEPT ![w] = FALSE]
  /\ agent' = [agent EXCEPT ![w] = Fresh]
  /\ Detach(w)
  /\ UNCHANGED <<reg, calm>>

StartWorker(w) ==
  /\ ~calm
  /\ ~up[w]
  /\ up' = [up EXCEPT ![w] = TRUE]
  /\ UNCHANGED <<reg, agent, late, calm>>

----------------------------------------------------------------------------
(* Time *)

(* In calm times a turn that is due, and its answer, take less than a tick. *)
Prompt(w) == up[w] => agent[w].wait > 0 /\ agent[w].call = NoCall

Minus1(n) == IF n = 0 THEN 0 ELSE n - 1

Tick ==
  /\ calm => \A w \in Workers : Prompt(w)
  /\ reg'   = [w \in Workers |-> [reg[w] EXCEPT !.left = Minus1(@)]]
  /\ agent' = [w \in Workers |-> [agent[w] EXCEPT !.wait = Minus1(@)]]
  /\ UNCHANGED <<up, late, calm>>

FaultsEnd ==
  /\ ~calm
  /\ calm' = TRUE
  /\ UNCHANGED <<reg, agent, up, late>>

AgentStep(w) == Send(w) \/ Handle(w) \/ Receive(w)

Next ==
  \/ ExpireLeases \/ RestartCoordinator \/ Tick \/ FaultsEnd
  \/ \E w \in Workers : \/ AgentStep(w) \/ GiveUp(w) \/ Stop(w) \/ StartWorker(w)
                        \/ \E m \in late[w] : HandleLate(w, m)

Spec == Init /\ [][Next]_vars

(* The agent's loop, the lease monitor and time go on; nothing is assumed   *)
(* of faults, nor of when a delayed request arrives.                        *)
Fairness ==
  /\ WF_vars(Tick) /\ WF_vars(ExpireLeases)
  /\ \A w \in Workers : WF_vars(AgentStep(w))

FairSpec == Spec /\ Fairness

----------------------------------------------------------------------------
(* PROPERTIES *)

(* A worker declared LOST comes back only with a new lease: a heartbeat     *)
(* that was delayed past the expiry, whichever incarnation sent it, never   *)
(* revives the record (registry.py 54-106).                                 *)
LostNeedsNewLease ==
  [][\A w \in Workers :
       reg[w].state = "LOST" /\ reg'[w].state = "ACTIVE" => reg'[w].lease # reg[w].lease
    ]_vars

(* A lease's time is extended only for the process that holds it now or     *)
(* whose delayed request carries it: once a worker has re-registered, no    *)
(* heartbeat of an earlier lease has any effect (registry.py 54-91).        *)
OldLeaseIsInert ==
  [][\A w \in Workers :
       reg'[w].left > reg[w].left /\ reg'[w].lease = reg[w].lease =>
         \/ agent[w].lease = reg[w].lease
         \/ \E m \in late[w] : m.lease = reg[w].lease
    ]_vars

Healthy(w) == reg[w].state = "ACTIVE" /\ reg[w].left > 0 /\ agent[w].lease = reg[w].lease

(* When the faults end, every running worker gets or keeps a lease and      *)
(* never loses it again, however the registry was lost, the lease had       *)
(* expired or a delayed registration had replaced it (agent.py 38-105).     *)
RunningWorkersStayHealthy ==
  \A w \in Workers : (calm /\ up[w]) ~> []Healthy(w)

(* The agent holds the lease in force, and its next heartbeat, being waited *)
(* for, on its way or already answered, comes before the lease runs out.    *)
InForce(r, a) ==
  /\ r.state = "ACTIVE" /\ r.left > 0
  /\ a.lease = r.lease /\ a.lease # None
  /\ \/ a.call = NoCall /\ a.answer = NoAnswer /\ a.wait < r.left
     \/ a.call.kind = "heartbeat" /\ a.answer = NoAnswer
     \/ a.call.kind = "heartbeat" /\ a.answer.code = "ok" /\ r.left = TTL

Settled(w) == calm /\ up[w] /\ InForce(reg[w], agent[w])

(* Without faults a lease in force stays in force, tick by tick and         *)
(* heartbeat by heartbeat, with a heartbeat interval shorter than the TTL:  *)
(* neither the lease monitor nor a delayed heartbeat, of this or of an      *)
(* earlier lease, ends it; only a delayed registration of the same worker   *)
(* does, which replaces it (registry.py 35-106, agent.py 38-105).           *)
LeaseIsKept ==
  [][\A w \in Workers :
       Settled(w) => \/ Settled(w)'
                     \/ \E m \in late[w] \ late'[w] : m.kind = "register"]_vars

(* When the faults end, a dead worker is out of the registry's ACTIVE list  *)
(* for good, even if a registration it had sent arrives after its death     *)
(* (registry.py 93-106).                                                    *)
DeadWorkersAreLost ==
  \A w \in Workers : (calm /\ ~up[w]) ~> [](reg[w].state # "ACTIVE")
=============================================================================
