------------------------- MODULE WorkerRegistry_proofs -------------------------
(***************************************************************************)
(* Proofs about Worker membership, for any number of Workers, lease ids    *)
(* and delayed requests and for all periods: what the registry does with a *)
(* heartbeat depends on the lease it carries, never on who sent it or when.*)
(***************************************************************************)
EXTENDS WorkerRegistry, TLAPS

Calls   == Requests \cup {NoCall}
Answers == [code : {"none", "ok", "rejected"}, lease : Ids]
Records == [state : {"absent", "ACTIVE", "LOST"}, lease : Ids, left : 0 .. TTL, slots : 0 .. Slots]
Agents  == [lease : Ids, registered : BOOLEAN, wait : 0 .. Pause, call : Calls, answer : Answers]

(* A record is LOST only when its lease has run out. *)
Lapsed(w) == reg[w].state = "LOST" => reg[w].left = 0

(* A heartbeat under way carries the lease the agent holds. *)
Carries(w) == agent[w].call.kind = "heartbeat" => agent[w].call.lease = agent[w].lease

IndInv == TypeOK /\ \A w \in Workers : Lapsed(w) /\ Carries(w)

----------------------------------------------------------------------------
(* What the handlers do to a record *)

LEMMA Types ==
  /\ NoCall \in Calls /\ NoAnswer \in Answers /\ None \in Ids
  /\ Beat \in 0 .. Pause /\ Retry \in 0 .. Pause /\ 0 \in 0 .. Pause /\ 0 \in 0 .. TTL
  /\ TTL \in 0 .. TTL /\ TTL > 0 /\ Slots \in 0 .. Slots /\ 0 \in 0 .. Slots
  /\ NoRecord \in Records /\ Fresh \in Agents
<1>1. NoCall \in Calls /\ NoAnswer \in Answers /\ None \in Ids
  BY DEF Calls, Answers, NoAnswer, Ids
<1>2. /\ Beat \in 0 .. Pause /\ Retry \in 0 .. Pause /\ 0 \in 0 .. Pause /\ 0 \in 0 .. TTL
      /\ TTL \in 0 .. TTL /\ TTL > 0 /\ Slots \in 0 .. Slots /\ 0 \in 0 .. Slots
  BY TimesAssumption, SlotsAssumption DEF Pause
<1>3. NoRecord \in Records
  BY <1>1, <1>2 DEF NoRecord, Records
<1>4. Fresh \in Agents
  <2> HIDE DEF NoCall, NoAnswer
  <2> QED BY <1>1, <1>2 DEF Fresh, Agents
<1> QED BY <1>1, <1>2, <1>3, <1>4

(* A drawn id is one that nobody carries. *)
LEMMA Drawn ==
  ASSUME IdsLeft
  PROVE  NewLease \in Leases /\ NewLease \notin InUse
BY DEF IdsLeft, NewLease

LEMMA RegisteredRecord ==
  ASSUME NEW l \in Leases
  PROVE  /\ Registered(l) \in Records /\ Registered(l).lease = l
         /\ Registered(l).state = "ACTIVE"
BY Types DEF Registered, Records, Ids

(* A heartbeat never changes the lease, lengthens it only when it carries   *)
(* it, and revives no record that is LOST.                                  *)
LEMMA HeartbeatRecord ==
  ASSUME NEW r \in Records, NEW l, r.state = "LOST" => r.left = 0
  PROVE  /\ AfterHeartbeat(r, l) \in Records
         /\ AfterHeartbeat(r, l).lease = r.lease
         /\ AfterHeartbeat(r, l).state = "LOST" => AfterHeartbeat(r, l).left = 0
         /\ r.state = "LOST" => AfterHeartbeat(r, l).state # "ACTIVE"
         /\ AfterHeartbeat(r, l).left > r.left => r.lease = l
<1>1. r.left \in 0 .. TTL /\ r.slots \in 0 .. Slots /\ r.lease \in Ids
  BY DEF Records
<1>2. CASE HeartbeatCode(r, l) = "ok"
  <2>1. r.state # "absent" /\ r.lease = l /\ r.left # 0
    BY <1>2 DEF HeartbeatCode
  <2>2. AfterHeartbeat(r, l) = [state |-> "ACTIVE", lease |-> r.lease, left |-> TTL, slots |-> Slots]
    BY <1>2 DEF AfterHeartbeat, Records
  <2> QED BY <1>1, <2>1, <2>2, Types DEF Records
<1>3. CASE HeartbeatCode(r, l) = "expired"
  <2>1. r.left = 0
    BY <1>3 DEF HeartbeatCode
  <2>2. AfterHeartbeat(r, l) = [state |-> "LOST", lease |-> r.lease, left |-> r.left, slots |-> r.slots]
    BY <1>3 DEF AfterHeartbeat, Records
  <2> QED BY <1>1, <2>1, <2>2 DEF Records
<1>4. CASE HeartbeatCode(r, l) = "rejected"
  <2>1. AfterHeartbeat(r, l) = r
    BY <1>4 DEF AfterHeartbeat
  <2> QED BY <1>1, <2>1 DEF Records
<1> QED BY <1>2, <1>3, <1>4 DEF HeartbeatCode

(* The records and agents of a state that satisfies the invariant. *)
LEMMA Typed ==
  TypeOK <=> /\ reg \in [Workers -> Records] /\ agent \in [Workers -> Agents]
             /\ up \in [Workers -> BOOLEAN] /\ late \in [Workers -> SUBSET Requests]
             /\ calm \in BOOLEAN
BY DEF TypeOK, Records, Agents, Calls, Answers

LEMMA TypedNext ==
  ASSUME reg' \in [Workers -> Records], agent' \in [Workers -> Agents],
         up' \in [Workers -> BOOLEAN], late' \in [Workers -> SUBSET Requests], calm' \in BOOLEAN
  PROVE  TypeOK'
BY DEF TypeOK, Records, Agents, Calls, Answers

(* Ids in use include those of every record. *)
LEMMA UsedByRecord == ASSUME NEW w \in Workers PROVE reg[w].lease \in InUse
BY DEF InUse
----------------------------------------------------------------------------
(* The steps *)

(* Steps that leave the registry alone and change one agent. *)
LEMMA AgentKeeps ==
  ASSUME IndInv, NEW w \in Workers, NEW a \in Agents,
         agent' = [agent EXCEPT ![w] = a], reg' = reg,
         a.call.kind = "heartbeat" => a.call.lease = a.lease,
         up' \in [Workers -> BOOLEAN], late' \in [Workers -> SUBSET Requests], calm' = calm
  PROVE  IndInv'
<1>1. TypeOK
  BY DEF IndInv
<1>2. agent' \in [Workers -> Agents]
  BY <1>1, Typed
<1>3. TypeOK'
  BY <1>1, <1>2, Typed, TypedNext
<1>4. ASSUME NEW v \in Workers PROVE Lapsed(v)' /\ Carries(v)'
  <2>1. Lapsed(v)'
    BY DEF IndInv, Lapsed
  <2>2. CASE v = w
    BY <1>1, <2>1, <2>2, Typed DEF Carries
  <2>3. CASE v # w
    <3>1. agent'[v] = agent[v]
      BY <1>1, <2>3, Typed
    <3> QED BY <2>1, <3>1 DEF IndInv, Carries
  <2> QED BY <2>2, <2>3
<1> QED BY <1>3, <1>4 DEF IndInv

LEMMA SendKeeps == ASSUME IndInv, NEW w \in Workers, Send(w) PROVE IndInv'
<1> DEFINE c == IF agent[w].lease = None THEN [kind |-> "register", lease |-> None]
                                         ELSE [kind |-> "heartbeat", lease |-> agent[w].lease]
           a == [agent[w] EXCEPT !.call = c]
<1>1. TypeOK
  BY DEF IndInv
<1>2. agent[w] \in Agents
  BY <1>1, Typed
<1>3. agent[w].lease \in Ids
  BY <1>2 DEF Agents
<1>4. c \in Calls /\ (c.kind = "heartbeat" => c.lease = agent[w].lease)
  BY <1>3 DEF Calls, Requests, Ids
<1>5. agent' = [agent EXCEPT ![w] = a]
  BY <1>1, Typed DEF Send
<1> HIDE DEF c
<1>6. a \in Agents /\ a.call = c /\ a.lease = agent[w].lease
  <2>1. a = [lease |-> agent[w].lease, registered |-> agent[w].registered, wait |-> agent[w].wait,
             call |-> c, answer |-> agent[w].answer]
    BY <1>2 DEF Agents
  <2> QED BY <1>2, <1>4, <2>1 DEF Agents
<1> HIDE DEF a
<1>7. reg' = reg /\ up' = up /\ late' = late /\ calm' = calm
  BY DEF Send
<1> QED BY <1>1, <1>4, <1>5, <1>6, <1>7, AgentKeeps, Typed

LEMMA ReceiveKeeps == ASSUME IndInv, NEW w \in Workers, Receive(w) PROVE IndInv'
<1>1. TypeOK
  BY DEF IndInv
<1>2. agent[w] \in Agents
  BY <1>1, Typed
<1>3. agent[w].lease \in Ids /\ agent[w].answer.lease \in Ids
  BY <1>2 DEF Agents, Answers
<1> DEFINE l == CASE agent[w].call.kind = "register"  -> agent[w].answer.lease
                  [] agent[w].answer.code = "rejected" -> None
                  [] OTHER                             -> agent[w].lease
           b == agent[w].answer.code = "ok"
           a == [lease |-> l, registered |-> b, wait |-> Beat, call |-> NoCall, answer |-> NoAnswer]
<1>4. l \in Ids
  BY <1>3, Types
<1>5. b \in BOOLEAN
  OBVIOUS
<1>6. agent' = [agent EXCEPT ![w] = a]
  BY DEF Receive
<1> HIDE DEF l, b
<1>7. a \in Agents /\ a.call.kind # "heartbeat"
  <2>1. NoCall.kind # "heartbeat"
    BY DEF NoCall
  <2> HIDE DEF NoCall, NoAnswer
  <2> QED BY <1>4, <1>5, <2>1, Types DEF Agents
<1> HIDE DEF a
<1>8. reg' = reg /\ up' = up /\ late' = late /\ calm' = calm
  BY DEF Receive
<1> QED BY <1>1, <1>6, <1>7, <1>8, AgentKeeps, Typed

(* What the network keeps of a request. *)
LEMMA DetachKeeps ==
  ASSUME TypeOK, NEW w \in Workers, Detach(w)
  PROVE  late' \in [Workers -> SUBSET Requests]
<1>1. agent[w].call \in Calls /\ late \in [Workers -> SUBSET Requests]
  BY Typed DEF Agents
<1>2. CASE late' = late
  BY <1>1, <1>2
<1>3. CASE agent[w].call # NoCall /\ late' = [late EXCEPT ![w] = @ \cup {agent[w].call}]
  BY <1>1, <1>3 DEF Calls
<1> QED BY <1>2, <1>3 DEF Detach

LEMMA GiveUpKeeps == ASSUME IndInv, NEW w \in Workers, GiveUp(w) PROVE IndInv'
<1>1. TypeOK
  BY DEF IndInv
<1>2. agent[w] \in Agents
  BY <1>1, Typed
<1> DEFINE b == agent[w].registered /\ agent[w].call.kind = "heartbeat"
           n == IF agent[w].lease = None THEN Retry ELSE Beat
           a == [lease |-> agent[w].lease, registered |-> b, wait |-> n, call |-> NoCall, answer |-> NoAnswer]
<1>3. b \in BOOLEAN
  OBVIOUS
<1>4. agent[w].lease \in Ids /\ n \in 0 .. Pause
  BY <1>2, Types DEF Agents
<1>5. agent' = [agent EXCEPT ![w] = a]
  BY DEF GiveUp
<1> HIDE DEF b, n
<1>6. a \in Agents /\ a.call.kind # "heartbeat"
  <2>1. NoCall.kind # "heartbeat"
    BY DEF NoCall
  <2> HIDE DEF NoCall, NoAnswer
  <2> QED BY <1>3, <1>4, <2>1, Types DEF Agents
<1> HIDE DEF a
<1>7. late' \in [Workers -> SUBSET Requests]
  BY <1>1, DetachKeeps DEF GiveUp
<1>8. reg' = reg /\ up' = up /\ calm' = calm
  BY DEF GiveUp
<1> QED BY <1>1, <1>5, <1>6, <1>7, <1>8, AgentKeeps, Typed

LEMMA StopKeeps == ASSUME IndInv, NEW w \in Workers, Stop(w) PROVE IndInv'
<1>1. TypeOK
  BY DEF IndInv
<1>2. late' \in [Workers -> SUBSET Requests]
  BY <1>1, DetachKeeps DEF Stop
<1>3. up' \in [Workers -> BOOLEAN] /\ reg' = reg /\ calm' = calm /\ agent' = [agent EXCEPT ![w] = Fresh]
  BY <1>1, Typed DEF Stop
<1>4. Fresh \in Agents /\ Fresh.call.kind # "heartbeat"
  BY Types DEF Fresh, NoCall
<1> HIDE DEF Fresh
<1> QED BY <1>2, <1>3, <1>4, AgentKeeps

(* The registry changes one record. *)
LEMMA RecordKeeps ==
  ASSUME IndInv, NEW w \in Workers, NEW r \in Records, reg' = [reg EXCEPT ![w] = r],
         r.state = "LOST" => r.left = 0,
         agent' \in [Workers -> Agents], \A v \in Workers : Carries(v)',
         up' = up, late' \in [Workers -> SUBSET Requests], calm' = calm
  PROVE  IndInv'
<1>1. TypeOK
  BY DEF IndInv
<1>2. TypeOK'
  BY <1>1, Typed, TypedNext
<1>3. ASSUME NEW v \in Workers PROVE Lapsed(v)'
  <2>1. CASE v = w
    BY <1>1, <2>1, Typed DEF Lapsed
  <2>2. CASE v # w
    <3>1. reg'[v] = reg[v]
      BY <1>1, <2>2, Typed
    <3> QED BY <3>1 DEF IndInv, Lapsed
  <2> QED BY <2>1, <2>2
<1> QED BY <1>2, <1>3 DEF IndInv

(* Answering an agent changes neither its lease nor its call. *)
LEMMA AnswerKeeps ==
  ASSUME IndInv, NEW w \in Workers, NEW x \in Answers,
         agent' = [agent EXCEPT ![w].answer = x]
  PROVE  agent' \in [Workers -> Agents] /\ \A v \in Workers : Carries(v)'
<1>1. agent \in [Workers -> Agents]
  BY Typed DEF IndInv
<1> DEFINE a == [agent[w] EXCEPT !.answer = x]
<1>2. agent' = [agent EXCEPT ![w] = a]
  BY <1>1
<1>3. a \in Agents /\ a.call = agent[w].call /\ a.lease = agent[w].lease
  <2>1. agent[w] \in Agents
    BY <1>1
  <2>2. a = [lease |-> agent[w].lease, registered |-> agent[w].registered, wait |-> agent[w].wait,
             call |-> agent[w].call, answer |-> x]
    BY <2>1 DEF Agents
  <2> QED BY <2>1, <2>2 DEF Agents
<1> HIDE DEF a
<1>4. ASSUME NEW v \in Workers PROVE Carries(v)'
  <2>1. agent'[v].call = agent[v].call /\ agent'[v].lease = agent[v].lease
    BY <1>1, <1>2, <1>3
  <2> QED BY <2>1 DEF IndInv, Carries
<1> QED BY <1>1, <1>2, <1>3, <1>4

LEMMA HandleKeeps == ASSUME IndInv, NEW w \in Workers, Handle(w) PROVE IndInv'
<1>1. TypeOK
  BY DEF IndInv
<1>2. late' \in [Workers -> SUBSET Requests] /\ up' = up /\ calm' = calm
  BY <1>1, Typed DEF Handle
<1>3. CASE agent[w].call.kind = "register"
  <2>1. NewLease \in Leases
    BY <1>3, Drawn DEF Handle
  <2>2. reg' = [reg EXCEPT ![w] = Registered(NewLease)]
    BY <1>3 DEF Handle
  <2>3. agent' = [agent EXCEPT ![w].answer = [code |-> "ok", lease |-> NewLease]]
    BY <1>3 DEF Handle
  <2>4. [code |-> "ok", lease |-> NewLease] \in Answers
    BY <2>1 DEF Answers, Ids
  <2>5. agent' \in [Workers -> Agents] /\ \A v \in Workers : Carries(v)'
    BY <2>3, <2>4, AnswerKeeps
  <2>6. Registered(NewLease) \in Records /\ Registered(NewLease).state # "LOST"
    BY <2>1, RegisteredRecord
  <2> HIDE DEF NewLease
  <2> QED BY <1>2, <2>2, <2>5, <2>6, RecordKeeps
<1>4. CASE agent[w].call.kind = "heartbeat"
  <2> DEFINE l == agent[w].call.lease
             x == [code |-> IF HeartbeatCode(reg[w], l) = "ok" THEN "ok" ELSE "rejected", lease |-> None]
             r == AfterHeartbeat(reg[w], l)
  <2>1. reg[w] \in Records /\ (reg[w].state = "LOST" => reg[w].left = 0)
    BY <1>1, Typed DEF IndInv, Lapsed
  <2>2. r \in Records /\ (r.state = "LOST" => r.left = 0)
    BY <2>1, HeartbeatRecord
  <2>3. reg' = [reg EXCEPT ![w] = r]
    BY <1>1, <1>4, Typed DEF Handle
  <2>4. agent' = [agent EXCEPT ![w].answer = x]
    BY <1>4 DEF Handle
  <2>5. x \in Answers
    BY Types DEF Answers
  <2> HIDE DEF x, r
  <2>6. agent' \in [Workers -> Agents] /\ \A v \in Workers : Carries(v)'
    BY <2>4, <2>5, AnswerKeeps
  <2> QED BY <1>2, <2>2, <2>3, <2>6, RecordKeeps
<1> QED BY <1>3, <1>4 DEF Handle

LEMMA HandleLateKeeps == ASSUME IndInv, NEW w \in Workers, NEW m \in late[w], HandleLate(w, m) PROVE IndInv'
<1>1. TypeOK
  BY DEF IndInv
<1>2. late' \in [Workers -> SUBSET Requests] /\ up' = up /\ calm' = calm
  BY <1>1, Typed DEF HandleLate
<1>3. agent' \in [Workers -> Agents] /\ \A v \in Workers : Carries(v)'
  BY <1>1, Typed DEF HandleLate, IndInv, Carries
<1>4. CASE m.kind = "register"
  <2>1. NewLease \in Leases
    BY <1>4, Drawn DEF HandleLate
  <2>2. reg' = [reg EXCEPT ![w] = Registered(NewLease)]
    BY <1>4 DEF HandleLate
  <2>3. Registered(NewLease) \in Records /\ Registered(NewLease).state # "LOST"
    BY <2>1, RegisteredRecord
  <2> HIDE DEF NewLease
  <2> QED BY <1>2, <1>3, <2>2, <2>3, RecordKeeps
<1>5. CASE m.kind = "heartbeat"
  <2> DEFINE r == AfterHeartbeat(reg[w], m.lease)
  <2>1. reg[w] \in Records /\ (reg[w].state = "LOST" => reg[w].left = 0)
    BY <1>1, Typed DEF IndInv, Lapsed
  <2>2. r \in Records /\ (r.state = "LOST" => r.left = 0)
    BY <2>1, HeartbeatRecord
  <2>3. reg' = [reg EXCEPT ![w] = r]
    BY <1>1, <1>5, Typed DEF HandleLate
  <2> HIDE DEF r
  <2> QED BY <1>2, <1>3, <2>2, <2>3, RecordKeeps
<1> QED BY <1>4, <1>5 DEF HandleLate

LEMMA ExpireLeasesKeeps == ASSUME IndInv, ExpireLeases PROVE IndInv'
<1>1. TypeOK
  BY DEF IndInv
<1>2. ASSUME NEW v \in Workers PROVE reg'[v] \in Records /\ (reg'[v].state = "LOST" => reg'[v].left = 0)
  <2>1. reg[v] \in Records
    BY <1>1, Typed
  <2>2. CASE Expired(reg[v])
    <3>1. reg'[v] = [state |-> "LOST", lease |-> reg[v].lease, left |-> reg[v].left, slots |-> 0]
      BY <2>1, <2>2 DEF ExpireLeases, Records
    <3> QED BY <2>1, <2>2, <3>1, Types DEF Records, Expired
  <2>3. CASE ~Expired(reg[v])
    BY <2>1, <2>3 DEF ExpireLeases, IndInv, Lapsed
  <2> QED BY <2>2, <2>3
<1>3. reg' \in [Workers -> Records]
  BY <1>2 DEF ExpireLeases
<1>4. agent' = agent /\ up' = up /\ late' = late /\ calm' = calm
  BY DEF ExpireLeases
<1>5. TypeOK'
  BY <1>1, <1>3, <1>4, Typed, TypedNext
<1> QED BY <1>2, <1>4, <1>5 DEF IndInv, Lapsed, Carries

LEMMA RestartKeeps == ASSUME IndInv, RestartCoordinator PROVE IndInv'
<1>1. TypeOK
  BY DEF IndInv
<1>2. agent' = agent /\ up' = up /\ late' = late /\ calm' = calm
  BY DEF RestartCoordinator
<1>3. reg' \in [Workers -> Records] /\ \A v \in Workers : reg'[v].state # "LOST"
  BY Types DEF RestartCoordinator, NoRecord
<1>4. TypeOK'
  BY <1>1, <1>2, <1>3, Typed, TypedNext
<1> QED BY <1>2, <1>3, <1>4 DEF IndInv, Lapsed, Carries

LEMMA TickKeeps == ASSUME IndInv, Tick PROVE IndInv'
<1>1. TypeOK
  BY DEF IndInv
<1>2. ASSUME NEW v \in Workers
      PROVE  reg'[v] \in Records /\ reg'[v].state = reg[v].state /\ (reg[v].left = 0 => reg'[v].left = 0)
  <2>1. reg[v] \in Records
    BY <1>1, Typed
  <2>2. reg'[v] = [state |-> reg[v].state, lease |-> reg[v].lease, left |-> Minus1(reg[v].left), slots |-> reg[v].slots]
    BY <2>1 DEF Tick, Records
  <2>3. Minus1(reg[v].left) \in 0 .. TTL
    BY <2>1, TimesAssumption DEF Records, Minus1
  <2> QED BY <2>1, <2>2, <2>3 DEF Records, Minus1
<1>3. ASSUME NEW v \in Workers
      PROVE  agent'[v] \in Agents /\ agent'[v].call = agent[v].call /\ agent'[v].lease = agent[v].lease
  <2>1. agent[v] \in Agents
    BY <1>1, Typed
  <2>2. agent'[v] = [lease |-> agent[v].lease, registered |-> agent[v].registered,
                     wait |-> Minus1(agent[v].wait), call |-> agent[v].call, answer |-> agent[v].answer]
    BY <2>1 DEF Tick, Agents
  <2>3. Minus1(agent[v].wait) \in 0 .. Pause
    BY <2>1, TimesAssumption DEF Agents, Minus1, Pause
  <2> QED BY <2>1, <2>2, <2>3 DEF Agents
<1>4. reg' \in [Workers -> Records] /\ agent' \in [Workers -> Agents]
  BY <1>2, <1>3 DEF Tick
<1>5. TypeOK'
  BY <1>1, <1>4, Typed, TypedNext DEF Tick
<1>6. ASSUME NEW v \in Workers PROVE Lapsed(v)' /\ Carries(v)'
  BY <1>2, <1>3 DEF IndInv, Lapsed, Carries
<1> QED BY <1>5, <1>6 DEF IndInv

LEMMA OthersKeep ==
  ASSUME IndInv, FaultsEnd \/ (\E w \in Workers : StartWorker(w)) \/ UNCHANGED vars PROVE IndInv'
<1>1. TypeOK
  BY DEF IndInv
<1>2. reg' = reg /\ agent' = agent /\ late' = late
  BY DEF FaultsEnd, StartWorker, vars
<1>3. up' \in [Workers -> BOOLEAN] /\ calm' \in BOOLEAN
  BY <1>1, Typed DEF FaultsEnd, StartWorker, vars
<1>4. TypeOK'
  BY <1>1, <1>2, <1>3, Typed, TypedNext
<1> QED BY <1>2, <1>4 DEF IndInv, Lapsed, Carries

----------------------------------------------------------------------------
LEMMA InitInv == Init => IndInv
<1> SUFFICES ASSUME Init PROVE IndInv
  OBVIOUS
<1>1. /\ reg \in [Workers -> Records] /\ agent \in [Workers -> Agents]
      /\ up \in [Workers -> BOOLEAN] /\ late \in [Workers -> SUBSET Requests] /\ calm \in BOOLEAN
  BY Types DEF Init
<1>2. ASSUME NEW w \in Workers PROVE Lapsed(w) /\ Carries(w)
  BY DEF Init, Lapsed, Carries, NoRecord, Fresh, NoCall
<1> QED BY <1>1, <1>2, Typed DEF IndInv

LEMMA NextInv == IndInv /\ [Next]_vars => IndInv'
BY SendKeeps, HandleKeeps, ReceiveKeeps, GiveUpKeeps, StopKeeps, HandleLateKeeps,
   ExpireLeasesKeeps, RestartKeeps, TickKeeps, OthersKeep DEF Next, AgentStep

(* The invariant holds whatever is delayed, lost or restarted. *)
THEOREM Invariance == Spec => []IndInv
BY InitInv, NextInv, PTL DEF Spec

(* Records, agents and delayed requests keep their types. *)
THEOREM TypeCorrect == Spec => []TypeOK
<1>1. IndInv => TypeOK
  BY DEF IndInv
<1> QED BY <1>1, Invariance, PTL

(* What one step may do to the record of a Worker. *)
LEMMA RecordStep ==
  ASSUME IndInv, [Next]_vars, NEW w \in Workers
  PROVE  \/ reg'[w].lease # reg[w].lease
         \/ /\ reg[w].state = "LOST" => reg'[w].state # "ACTIVE"
            /\ reg'[w].left > reg[w].left =>
                 agent[w].lease = reg[w].lease \/ \E m \in late[w] : m.lease = reg[w].lease
<1>1. TypeOK /\ reg[w] \in Records /\ reg[w].left \in Nat
  BY Typed, TimesAssumption DEF IndInv, Records
<1>2. ASSUME reg'[w] = reg[w] PROVE ~(reg'[w].left > reg[w].left) /\ (reg[w].state = "LOST" => reg'[w].state # "ACTIVE")
  BY <1>1, <1>2
<1>3. ASSUME NEW l, reg'[w] = AfterHeartbeat(reg[w], l)
      PROVE  /\ reg[w].state = "LOST" => reg'[w].state # "ACTIVE"
             /\ reg'[w].left > reg[w].left => reg[w].lease = l
  BY <1>1, <1>3, HeartbeatRecord DEF IndInv, Lapsed
<1>4. ASSUME IdsLeft, reg'[w] = Registered(NewLease) PROVE reg'[w].lease # reg[w].lease
  BY <1>4, Drawn, RegisteredRecord, UsedByRecord
<1>5. ASSUME NEW v \in Workers, Handle(v) \/ \E m \in late[v] : HandleLate(v, m), v # w
      PROVE  reg'[w] = reg[w]
  BY <1>1, <1>5, Typed DEF Handle, HandleLate
<1>6. CASE Handle(w)
  <2>1. CASE agent[w].call.kind = "register"
    BY <1>1, <1>4, <1>6, <2>1, Typed DEF Handle
  <2>2. CASE agent[w].call.kind = "heartbeat"
    <3>1. reg'[w] = AfterHeartbeat(reg[w], agent[w].call.lease)
      BY <1>1, <1>6, <2>2, Typed DEF Handle
    <3>2. agent[w].call.lease = agent[w].lease
      BY <2>2 DEF IndInv, Carries
    <3> QED BY <1>3, <3>1, <3>2
  <2> QED BY <1>6, <2>1, <2>2 DEF Handle
<1>7. ASSUME NEW m \in late[w], HandleLate(w, m)
      PROVE  \/ reg'[w].lease # reg[w].lease
             \/ /\ reg[w].state = "LOST" => reg'[w].state # "ACTIVE"
                /\ reg'[w].left > reg[w].left => m.lease = reg[w].lease
  <2>1. CASE m.kind = "register"
    BY <1>1, <1>4, <1>7, <2>1, Typed DEF HandleLate
  <2>2. CASE m.kind = "heartbeat"
    <3>1. reg'[w] = AfterHeartbeat(reg[w], m.lease)
      BY <1>1, <1>7, <2>2, Typed DEF HandleLate
    <3> QED BY <1>3, <3>1
  <2> QED BY <1>7, <2>1, <2>2 DEF HandleLate
<1>8. CASE ExpireLeases
  <2>1. CASE Expired(reg[w])
    <3>1. reg'[w].state = "LOST" /\ reg'[w].left = reg[w].left
      BY <1>1, <1>8, <2>1 DEF ExpireLeases, Records
    <3> QED BY <1>1, <3>1
  <2>2. CASE ~Expired(reg[w])
    BY <1>2, <1>8, <2>2 DEF ExpireLeases
  <2> QED BY <2>1, <2>2
<1>9. CASE RestartCoordinator
  <2>1. reg'[w].state = "absent" /\ reg'[w].left = 0
    BY <1>9 DEF RestartCoordinator, NoRecord
  <2> QED BY <1>1, <2>1
<1>10. CASE Tick
  <2>1. reg'[w].state = reg[w].state /\ reg'[w].left = Minus1(reg[w].left)
    BY <1>1, <1>10 DEF Tick, Records
  <2> QED BY <1>1, <2>1 DEF Minus1
<1>11. CASE UNCHANGED reg
  BY <1>2, <1>11
<1>12. \/ Handle(w) \/ (\E m \in late[w] : HandleLate(w, m))
       \/ (\E v \in Workers \ {w} : Handle(v) \/ \E m \in late[v] : HandleLate(v, m))
       \/ ExpireLeases \/ RestartCoordinator \/ Tick \/ UNCHANGED reg
  BY DEF Next, AgentStep, Send, Receive, GiveUp, Stop, StartWorker, FaultsEnd, vars
<1>13. CASE \E v \in Workers \ {w} : Handle(v) \/ \E m \in late[v] : HandleLate(v, m)
  BY <1>2, <1>5, <1>13
<1> QED BY <1>1, <1>6, <1>7, <1>8, <1>9, <1>10, <1>11, <1>12, <1>13

(* A worker declared LOST comes back only with a new lease, however late    *)
(* its heartbeats arrive (heartbeat and expire_leases of registry.py).      *)
THEOREM LostCorrect == Spec => LostNeedsNewLease
<1>1. IndInv /\ [Next]_vars =>
        [\A w \in Workers : reg[w].state = "LOST" /\ reg'[w].state = "ACTIVE" => reg'[w].lease # reg[w].lease]_vars
  BY RecordStep
<1> QED BY <1>1, Invariance, PTL DEF Spec, LostNeedsNewLease

(* No heartbeat of an earlier lease extends the present one (heartbeat of   *)
(* registry.py).                                                            *)
THEOREM InertCorrect == Spec => OldLeaseIsInert
<1>1. IndInv /\ [Next]_vars =>
        [\A w \in Workers :
           reg'[w].left > reg[w].left /\ reg'[w].lease = reg[w].lease =>
             \/ agent[w].lease = reg[w].lease
             \/ \E m \in late[w] : m.lease = reg[w].lease]_vars
  BY RecordStep
<1> QED BY <1>1, Invariance, PTL DEF Spec, OldLeaseIsInert

----------------------------------------------------------------------------
(* A lease in force stays in force. *)

(* What the handler of a heartbeat does to a record that is in force. *)
LEMMA HeartbeatInForce ==
  ASSUME NEW r \in Records, NEW l, r.state = "ACTIVE", r.left > 0
  PROVE  /\ AfterHeartbeat(r, l).state = "ACTIVE" /\ AfterHeartbeat(r, l).lease = r.lease
         /\ AfterHeartbeat(r, l).left \in {r.left, TTL}
         /\ l = r.lease => HeartbeatCode(r, l) = "ok" /\ AfterHeartbeat(r, l).left = TTL
<1>1. r.left \in 0 .. TTL
  BY DEF Records
<1>2. HeartbeatCode(r, l) = IF r.lease # l THEN "rejected" ELSE "ok"
  BY <1>1, TimesAssumption DEF HeartbeatCode
<1>3. CASE l = r.lease
  <2>1. AfterHeartbeat(r, l) = [state |-> "ACTIVE", lease |-> r.lease, left |-> TTL, slots |-> Slots]
    BY <1>2, <1>3 DEF AfterHeartbeat, Records
  <2> QED BY <1>2, <1>3, <2>1
<1>4. CASE l # r.lease
  <2>1. AfterHeartbeat(r, l) = r
    BY <1>2, <1>4 DEF AfterHeartbeat
  <2> QED BY <1>4, <2>1
<1> QED BY <1>3, <1>4

(* A longer lease serves the agent as well. *)
LEMMA LongerInForce ==
  ASSUME NEW r \in Records, NEW q \in Records, NEW a \in Agents, InForce(r, a),
         q.state = "ACTIVE", q.lease = r.lease, q.left \in {r.left, TTL}
  PROVE  InForce(q, a)
<1>1. r.left \in Nat /\ q.left \in Nat /\ r.left <= TTL /\ a.wait \in Nat
  BY TimesAssumption DEF Records, Agents, Pause
<1>2. q.left >= r.left
  BY <1>1, TimesAssumption
<1> HIDE DEF NoCall, NoAnswer
<1> QED BY <1>1, <1>2, TimesAssumption DEF InForce

LEMMA LeaseStep ==
  ASSUME Beat < TTL, IndInv, [Next]_vars, NEW w \in Workers, Settled(w)
  PROVE  Settled(w)' \/ \E m \in late[w] \ late'[w] : m.kind = "register"
<1>1. TypeOK /\ reg[w] \in Records /\ agent[w] \in Agents
  BY Typed DEF IndInv
<1>2. reg[w].left \in Nat /\ reg[w].left <= TTL /\ agent[w].wait \in Nat
  BY <1>1, TimesAssumption DEF Records, Agents, Pause
<1>3. calm /\ up[w] /\ InForce(reg[w], agent[w])
  BY DEF Settled
<1>4. ASSUME calm' = calm, up' = up, InForce(reg'[w], agent'[w]) PROVE Settled(w)'
  BY <1>3, <1>4 DEF Settled
<1>5. ASSUME reg'[w] = reg[w], agent'[w] = agent[w], calm' = calm, up' = up PROVE Settled(w)'
  BY <1>3, <1>4, <1>5
<1>6. ~RestartCoordinator /\ ~FaultsEnd /\ \A v \in Workers : ~GiveUp(v) /\ ~Stop(v) /\ ~StartWorker(v)
  BY <1>3 DEF RestartCoordinator, FaultsEnd, GiveUp, Stop, StartWorker
<1>7. ASSUME NEW v \in Workers, v # w, AgentStep(v) \/ \E m \in late[v] : HandleLate(v, m) PROVE Settled(w)'
  <2>1. reg'[w] = reg[w] /\ agent'[w] = agent[w] /\ calm' = calm /\ up' = up
    BY <1>1, <1>7, Typed DEF AgentStep, Send, Handle, Receive, HandleLate
  <2> QED BY <1>5, <2>1
<1>8. CASE Send(w)
  <2> DEFINE c == [kind |-> "heartbeat", lease |-> agent[w].lease]
             a == [agent[w] EXCEPT !.call = c]
  <2>1. agent[w].lease # None /\ agent[w].call = NoCall
    BY <1>3, <1>8 DEF InForce, Send
  <2>2. agent' = [agent EXCEPT ![w] = a] /\ reg' = reg /\ calm' = calm /\ up' = up
    BY <1>1, <1>8, <2>1, Typed DEF Send
  <2>3. a = [lease |-> agent[w].lease, registered |-> agent[w].registered, wait |-> agent[w].wait,
             call |-> c, answer |-> agent[w].answer]
    BY <1>1 DEF Agents
  <2>4. agent[w].answer = NoAnswer
    <3>1. NoCall.kind # "heartbeat"
      BY DEF NoCall
    <3> HIDE DEF NoCall, NoAnswer
    <3> QED BY <1>3, <2>1, <3>1 DEF InForce
  <2>5. InForce(reg[w], a)
    <3>1. c.kind = "heartbeat"
      OBVIOUS
    <3> HIDE DEF c, NoCall, NoAnswer
    <3> QED BY <1>3, <2>3, <2>4, <3>1 DEF InForce
  <2> HIDE DEF a
  <2>6. agent'[w] = a
    BY <1>1, <2>2, Typed
  <2> QED BY <1>4, <2>2, <2>5, <2>6
<1>9. CASE Handle(w)
  <2>1. agent[w].call.kind = "heartbeat" /\ agent[w].answer = NoAnswer
    <3> HIDE DEF NoCall, NoAnswer
    <3> QED BY <1>3, <1>9 DEF InForce, Handle
  <2>2. agent[w].call.lease = reg[w].lease
    BY <1>3, <2>1 DEF IndInv, Carries, InForce
  <2> DEFINE r == AfterHeartbeat(reg[w], reg[w].lease)
             x == [code |-> "ok", lease |-> None]
             a == [agent[w] EXCEPT !.answer = x]
  <2>3. /\ r.state = "ACTIVE" /\ r.lease = reg[w].lease /\ r.left = TTL
        /\ HeartbeatCode(reg[w], reg[w].lease) = "ok"
    BY <1>1, <1>3, HeartbeatInForce DEF InForce
  <2>4. reg'[w] = r /\ calm' = calm /\ up' = up
    BY <1>1, <1>9, <2>1, <2>2, Typed DEF Handle
  <2>5. agent' = [agent EXCEPT ![w] = a]
    BY <1>1, <1>9, <2>1, <2>2, <2>3, Typed DEF Handle
  <2>6. a = [lease |-> agent[w].lease, registered |-> agent[w].registered, wait |-> agent[w].wait,
             call |-> agent[w].call, answer |-> x]
    BY <1>1 DEF Agents
  <2>7. agent'[w] = a
    BY <1>1, <2>5, Typed
  <2> HIDE DEF r
  <2>8. InForce(r, a)
    <3>1. x.code = "ok"
      OBVIOUS
    <3> HIDE DEF x, NoCall, NoAnswer
    <3> QED BY <1>3, <2>1, <2>3, <2>6, <3>1, TimesAssumption DEF InForce
  <2> HIDE DEF a
  <2> QED BY <1>4, <2>4, <2>7, <2>8
<1>10. CASE Receive(w)
  <2>1. agent[w].call.kind = "heartbeat" /\ agent[w].answer.code = "ok" /\ reg[w].left = TTL
    <3> HIDE DEF NoCall, NoAnswer
    <3> QED BY <1>3, <1>10 DEF InForce, Receive
  <2> DEFINE b == agent[w].answer.code = "ok"
             a == [lease |-> agent[w].lease, registered |-> b, wait |-> Beat, call |-> NoCall, answer |-> NoAnswer]
  <2>2. agent' = [agent EXCEPT ![w] = a]
    BY <1>10, <2>1 DEF Receive
  <2>3. agent'[w] = a /\ reg' = reg /\ calm' = calm /\ up' = up
    BY <1>1, <1>10, <2>2, Typed DEF Receive
  <2>4. InForce(reg[w], a)
    <3> HIDE DEF b, NoCall, NoAnswer
    <3> QED BY <1>3, <2>1 DEF InForce
  <2> HIDE DEF a
  <2> QED BY <1>4, <2>3, <2>4
<1>11. ASSUME NEW m \in late[w], HandleLate(w, m)
       PROVE  Settled(w)' \/ \E n \in late[w] \ late'[w] : n.kind = "register"
  <2>1. CASE m.kind = "register"
    <3>1. m \notin late'[w]
      BY <1>1, <1>11, Typed DEF HandleLate
    <3> QED BY <2>1, <3>1
  <2>2. CASE m.kind = "heartbeat"
    <3> DEFINE r == AfterHeartbeat(reg[w], m.lease)
    <3>1. reg'[w] = r /\ agent' = agent /\ calm' = calm /\ up' = up
      BY <1>1, <1>11, <2>2, Typed DEF HandleLate
    <3>2. r \in Records
      BY <1>1, HeartbeatRecord DEF IndInv, Lapsed
    <3>3. r.state = "ACTIVE" /\ r.lease = reg[w].lease /\ r.left \in {reg[w].left, TTL}
      BY <1>1, <1>3, HeartbeatInForce DEF InForce
    <3> HIDE DEF r
    <3>4. InForce(r, agent[w])
      BY <1>1, <1>3, <3>2, <3>3, LongerInForce
    <3> QED BY <1>4, <3>1, <3>4
  <2> QED BY <1>11, <2>1, <2>2 DEF HandleLate
<1>12. CASE ExpireLeases
  <2>1. ~Expired(reg[w])
    BY <1>2, <1>3 DEF InForce, Expired
  <2>2. reg'[w] = reg[w] /\ agent' = agent /\ calm' = calm /\ up' = up
    BY <1>12, <2>1 DEF ExpireLeases
  <2> QED BY <1>5, <2>2
<1>13. CASE Tick
  <2>1. agent[w].wait > 0 /\ agent[w].call = NoCall
    BY <1>3, <1>13 DEF Tick, Prompt
  <2>2. agent[w].answer = NoAnswer /\ agent[w].wait < reg[w].left
    <3>1. NoCall.kind # "heartbeat"
      BY DEF NoCall
    <3> HIDE DEF NoCall, NoAnswer
    <3> QED BY <1>3, <2>1, <3>1 DEF InForce
  <2>3. reg'[w] = [state |-> reg[w].state, lease |-> reg[w].lease, left |-> Minus1(reg[w].left), slots |-> reg[w].slots]
    BY <1>1, <1>13 DEF Tick, Records
  <2>4. agent'[w] = [lease |-> agent[w].lease, registered |-> agent[w].registered,
                     wait |-> Minus1(agent[w].wait), call |-> agent[w].call, answer |-> agent[w].answer]
    BY <1>1, <1>13 DEF Tick, Agents
  <2>5. Minus1(reg[w].left) > 0 /\ Minus1(agent[w].wait) < Minus1(reg[w].left)
    BY <1>2, <2>1, <2>2 DEF Minus1
  <2>6. InForce(reg'[w], agent'[w])
    <3> HIDE DEF NoCall, NoAnswer
    <3> QED BY <1>3, <2>1, <2>2, <2>3, <2>4, <2>5 DEF InForce
  <2> QED BY <1>4, <1>13, <2>6 DEF Tick
<1>14. CASE UNCHANGED vars
  BY <1>5, <1>14 DEF vars
<1> QED BY <1>6, <1>7, <1>8, <1>9, <1>10, <1>11, <1>12, <1>13, <1>14 DEF Next, AgentStep

(* If Workers heartbeat more often than leases last, as the defaults of     *)
(* config.py do, then without faults a lease in force is never lost but to  *)
(* a delayed registration (registry.py 35-106, agent.py 38-105): the safety *)
(* part of RunningWorkersStayHealthy.                                       *)
THEOREM LeaseCorrect == ASSUME Beat < TTL PROVE Spec => LeaseIsKept
<1>1. IndInv /\ [Next]_vars =>
        [\A w \in Workers :
           Settled(w) => \/ Settled(w)'
                         \/ \E m \in late[w] \ late'[w] : m.kind = "register"]_vars
  BY LeaseStep
<1> QED BY <1>1, Invariance, PTL DEF Spec, LeaseIsKept

================================================================================
