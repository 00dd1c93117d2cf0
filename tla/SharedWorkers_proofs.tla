------------------------- MODULE SharedWorkers_proofs -------------------------
(***************************************************************************)
(* Proofs about queries that share Workers, for any number of queries,     *)
(* Workers, attempts and restarts.                                         *)
(***************************************************************************)
EXTENDS SharedWorkers, TLAPS

(***************************************************************************)
(* The inductive invariant.                                                *)
(***************************************************************************)

\* A record belongs to a query that began this attempt at this Worker.
RecordsHaveOwners ==
    \A w \in Workers, n \in Numbers :
      /\ owner[w][n] = None <=> state[w][n] = "absent"
      /\ \A o \in Queries : owner[w][n] = o => used[o][n] = w

\* An attempt that is not begun has no Worker, one that is given up has a reason.
AttemptsInOrder ==
    \A q \in Queries, n \in Numbers :
      /\ n > number[q] \/ (n = number[q] /\ pc[q] = "choosing") =>
           used[q][n] = None /\ reason[q][n] = "none"
      /\ n < number[q] => used[q][n] \in Workers
      /\ n < number[q] \/ (n = number[q] /\ pc[q] = "discarding") =>
           reason[q][n] \in {"conflict", "canceled", "fault"}
      /\ pc[q] = "failed" =>
           \/ reason[q][number[q]] \in {"unconfirmed", "unavailable"}
           \/ number[q] + 1 = MaxAttempts /\ reason[q][number[q]] \in {"conflict", "canceled", "fault"}

\* A query polls its own record, unless the Worker has restarted; it has a result
\* only at the end.
PollersOwn ==
    \A q \in Queries :
      /\ pc[q] = "polling" => Owner(q) = q \/ q \in disturbed
      /\ value[q] # None => pc[q] = "succeeded"

\* The query has given up its n-th attempt.
GaveUp(q, n) == n < number[q] \/ (n = number[q] /\ pc[q] \in {"discarding", "failed"})

\* A record is being cancelled because its query gave the attempt up, or because
\* another query used the same number at the same Worker.
CancelsHaveACause ==
    \A w \in Workers, n \in Numbers :
      state[w][n] \in {"CANCELING", "CANCELED"} =>
        \A o \in Queries : owner[w][n] = o =>
          GaveUp(o, n) \/ \E other \in Queries \ {o} : used[other][n] = w

IInv == /\ TypeOK /\ RecordsHaveOwners /\ AttemptsInOrder /\ PollersOwn
        /\ CancelsHaveACause /\ OwnOutcome /\ OnlySharingRefuses

LEMMA InitIInv == Init => IInv
<1> SUFFICES ASSUME Init PROVE IInv
    OBVIOUS
<1> USE MaxAttemptsAssumption, MaxRestartsAssumption, NoneIsNothing DEF Init, Numbers
<1>1. TypeOK
    BY DEF TypeOK, RecordStates, Steps, Reasons
<1>2. RecordsHaveOwners /\ AttemptsInOrder /\ PollersOwn /\ CancelsHaveACause
    BY DEF RecordsHaveOwners, AttemptsInOrder, PollersOwn, CancelsHaveACause
<1>3. OwnOutcome /\ OnlySharingRefuses
    BY DEF OwnOutcome, OnlySharingRefuses
<1> QED BY <1>1, <1>2, <1>3 DEF IInv

LEMMA ChooseKeeps ==
  ASSUME NEW q \in Queries, NEW healthy \in Listings, NEW w \in healthy, IInv, Choose(q, healthy, w)
  PROVE  IInv'
<1>l. w \in Workers
    BY ListingsAssumption
<1>w. \A x \in Workers : x # None
    BY NoneIsNothing
<1>u. /\ owner' = owner /\ state' = state /\ number' = number /\ reason' = reason
      /\ value' = value /\ disturbed' = disturbed /\ restarts' = restarts
      /\ pc[q] = "choosing" /\ pc' = [pc EXCEPT ![q] = "posting"]
      /\ used' = [used EXCEPT ![q][number[q]] = w]
    BY DEF Choose, records
<1>t. TypeOK
    BY DEF IInv
<1>0. used[q][number[q]] = None /\ reason[q][number[q]] = "none" /\ number[q] \in Numbers
    BY <1>u DEF IInv, AttemptsInOrder, TypeOK
<1>n. \A o \in Queries, n \in Numbers : used[o][n] # None => used'[o][n] = used[o][n]
    BY <1>0, <1>u, <1>t, <1>l DEF TypeOK
<1>1. TypeOK'
    BY <1>u, <1>t, <1>l DEF TypeOK, Steps, Reasons, Here
<1>2. RecordsHaveOwners'
    BY <1>n, <1>w, <1>u DEF IInv, RecordsHaveOwners
<1>3. AttemptsInOrder'
    BY <1>u, <1>t, MaxAttemptsAssumption DEF IInv, AttemptsInOrder, TypeOK, Numbers
<1>4. PollersOwn'
    BY <1>u, <1>t DEF IInv, PollersOwn, TypeOK, Owner, Here
<1>5. CancelsHaveACause'
  <2>1. \A o \in Queries, n \in Numbers : GaveUp(o, n) => GaveUp(o, n)'
    BY <1>u, <1>t DEF GaveUp, TypeOK
  <2> QED BY <2>1, <1>n, <1>w, <1>u DEF IInv, CancelsHaveACause
<1>6. OwnOutcome'
    BY <1>u DEF IInv, OwnOutcome
<1>7. OnlySharingRefuses'
  <2>1. ASSUME NEW p \in Queries, NEW n \in Numbers, reason[p][n] \in {"conflict", "canceled"}
        PROVE  \E other \in Queries \ {p} : used'[other][n] = used'[p][n]
    <3>1. PICK other \in Queries \ {p} : used[other][n] = used[p][n]
      BY <2>1 DEF IInv, OnlySharingRefuses
    <3>2. used[p][n] \in Workers
      <4>1. number[p] \in Numbers
        BY <1>t DEF TypeOK
      <4>2. CASE n > number[p] \/ (n = number[p] /\ pc[p] = "choosing")
        BY <2>1, <4>2 DEF IInv, AttemptsInOrder
      <4>3. CASE n < number[p]
        BY <4>3 DEF IInv, AttemptsInOrder
      <4>4. CASE n = number[p] /\ pc[p] # "choosing"
        BY <2>1, <4>4, <1>t DEF TypeOK, Here
      <4> QED BY <4>1, <4>2, <4>3, <4>4, MaxAttemptsAssumption DEF Numbers
    <3> QED BY <3>1, <3>2, <1>n, <1>w
  <2> QED BY <2>1, <1>u, <1>t DEF IInv, OnlySharingRefuses, TypeOK
<1> QED BY <1>1, <1>2, <1>3, <1>4, <1>5, <1>6, <1>7 DEF IInv

LEMMA NoWorkerKeeps == ASSUME NEW q \in Queries, IInv, NoWorker(q) PROVE IInv'
<1>u. /\ owner' = owner /\ state' = state /\ number' = number /\ used' = used
      /\ value' = value /\ disturbed' = disturbed /\ restarts' = restarts
      /\ pc[q] = "choosing" /\ pc' = [pc EXCEPT ![q] = "failed"]
      /\ reason' = [reason EXCEPT ![q][number[q]] = "unavailable"]
    BY DEF NoWorker, records
<1>t. TypeOK
    BY DEF IInv
<1>1. TypeOK'
    BY <1>u, <1>t DEF TypeOK, Steps, Reasons, Here
<1>2. RecordsHaveOwners'
    BY <1>u DEF IInv, RecordsHaveOwners
<1>3. AttemptsInOrder'
    BY <1>u, <1>t, MaxAttemptsAssumption DEF IInv, AttemptsInOrder, TypeOK, Numbers
<1>4. PollersOwn'
    BY <1>u, <1>t DEF IInv, PollersOwn, TypeOK, Owner, Here
<1>5. CancelsHaveACause'
  <2>1. \A o \in Queries, n \in Numbers : GaveUp(o, n) => GaveUp(o, n)'
    BY <1>u, <1>t DEF GaveUp, TypeOK
  <2> QED BY <2>1, <1>u DEF IInv, CancelsHaveACause
<1>6. OwnOutcome'
    BY <1>u DEF IInv, OwnOutcome
<1>7. OnlySharingRefuses'
    BY <1>u, <1>t DEF IInv, OnlySharingRefuses, TypeOK
<1> QED BY <1>1, <1>2, <1>3, <1>4, <1>5, <1>6, <1>7 DEF IInv

LEMMA PostKeeps == ASSUME NEW q \in Queries, IInv, Post(q) PROVE IInv'
<1>u. /\ number' = number /\ used' = used /\ reason' = reason
      /\ value' = value /\ disturbed' = disturbed /\ restarts' = restarts
      /\ pc[q] = "posting" /\ pc' = [pc EXCEPT ![q] = "polling"]
    BY DEF Post
<1>t. TypeOK
    BY DEF IInv
<1>h. Here(q) \in Workers /\ number[q] \in Numbers /\ used[q][number[q]] = Here(q)
    BY <1>t, <1>u DEF TypeOK, Here
<1>o. \/ /\ Owner(q) = None
         /\ owner' = [owner EXCEPT ![Here(q)][number[q]] = q]
         /\ state' = [state EXCEPT ![Here(q)][number[q]] = "RUNNING"]
      \/ Owner(q) = q /\ owner' = owner /\ state' = state
    BY NoneIsNothing DEF Post, Accepts, records
<1>r. /\ owner' \in [Workers -> [Numbers -> Queries \cup {None}]]
      /\ state' \in [Workers -> [Numbers -> RecordStates]]
  <2>1. CASE owner' = owner /\ state' = state
    BY <2>1, <1>t DEF TypeOK
  <2>2. CASE /\ owner' = [owner EXCEPT ![Here(q)][number[q]] = q]
             /\ state' = [state EXCEPT ![Here(q)][number[q]] = "RUNNING"]
    BY <2>2, <1>t, <1>h DEF TypeOK, RecordStates
  <2> QED BY <2>1, <2>2, <1>o
<1>p. \A x \in Workers, n \in Numbers :
        \/ owner'[x][n] = owner[x][n] /\ state'[x][n] = state[x][n]
        \/ /\ x = Here(q) /\ n = number[q]
           /\ owner'[x][n] = q /\ state'[x][n] = "RUNNING"
  <2>1. CASE owner' = owner /\ state' = state
    BY <2>1
  <2>2. CASE /\ owner' = [owner EXCEPT ![Here(q)][number[q]] = q]
             /\ state' = [state EXCEPT ![Here(q)][number[q]] = "RUNNING"]
    BY <2>2, <1>t, <1>h DEF TypeOK
  <2> QED BY <2>1, <2>2, <1>o
<1>1. TypeOK'
    BY <1>u, <1>t, <1>r DEF TypeOK, Steps, Reasons, Here
<1>2. RecordsHaveOwners'
    BY <1>u, <1>p, <1>h, NoneIsNothing DEF IInv, RecordsHaveOwners
<1>3. AttemptsInOrder'
    BY <1>u, <1>t, MaxAttemptsAssumption DEF IInv, AttemptsInOrder, TypeOK, Numbers
<1>4. PollersOwn'
  <2>1. Owner(q)' = q
    BY <1>u, <1>p, <1>o, <1>h, <1>t DEF TypeOK, Owner, Here
  <2>2. ASSUME NEW p \in Queries, p # q, pc[p] = "polling", Owner(p) = p PROVE Owner(p)' = p
    <3>1. Here(p) \in Workers /\ number[p] \in Numbers /\ Here(p)' = Here(p)
      BY <2>2, <1>u, <1>t DEF TypeOK, Here
    <3>2. CASE owner' = owner
      BY <3>2, <2>2, <1>u, <3>1 DEF Owner
    <3>3. CASE Owner(q) = None /\ owner' = [owner EXCEPT ![Here(q)][number[q]] = q]
      <4>1. ~(Here(p) = Here(q) /\ number[p] = number[q])
        BY <2>2, <3>3, NoneIsNothing DEF Owner
      <4> QED BY <4>1, <3>3, <2>2, <3>1, <1>u, <1>h, <1>t DEF TypeOK, Owner
    <3> QED BY <3>2, <3>3, <1>o
  <2> QED BY <2>1, <2>2, <1>u, <1>t DEF IInv, PollersOwn, TypeOK
<1>5. CancelsHaveACause'
  <2>1. \A o \in Queries, n \in Numbers : GaveUp(o, n) => GaveUp(o, n)'
    BY <1>u, <1>t DEF GaveUp, TypeOK
  <2>2. \A x \in Workers, n \in Numbers : state'[x][n] \in {"CANCELING", "CANCELED"} =>
           state'[x][n] = state[x][n] /\ owner'[x][n] = owner[x][n]
    BY <1>p
  <2> QED BY <2>1, <2>2, <1>u DEF IInv, CancelsHaveACause
<1>6. OwnOutcome'
    BY <1>u DEF IInv, OwnOutcome
<1>7. OnlySharingRefuses'
    BY <1>u, <1>t DEF IInv, OnlySharingRefuses, TypeOK
<1> QED BY <1>1, <1>2, <1>3, <1>4, <1>5, <1>6, <1>7 DEF IInv

\* Giving up an attempt keeps the invariant when a refusal or a cancellation has
\* another query behind it.
LEMMA GiveUpKeeps ==
  ASSUME NEW q \in Queries, NEW why \in {"conflict", "canceled", "fault"}, IInv,
         pc[q] \in {"posting", "polling"}, GiveUp(q, why),
         why # "fault" => \E other \in Queries \ {q} : used[other][number[q]] = Here(q)
  PROVE  IInv'
<1>u. /\ owner' = owner /\ state' = state /\ number' = number /\ used' = used
      /\ value' = value /\ disturbed' = disturbed /\ restarts' = restarts
      /\ pc' = [pc EXCEPT ![q] = "discarding"]
      /\ reason' = [reason EXCEPT ![q][number[q]] = why]
    BY DEF GiveUp, records
<1>t. TypeOK
    BY DEF IInv
<1>h. number[q] \in Numbers /\ used[q][number[q]] = Here(q)
    BY <1>t DEF TypeOK, Here
<1>1. TypeOK'
    BY <1>u, <1>t DEF TypeOK, Steps, Reasons, Here
<1>2. RecordsHaveOwners'
    BY <1>u DEF IInv, RecordsHaveOwners
<1>3. AttemptsInOrder'
    BY <1>u, <1>t, MaxAttemptsAssumption DEF IInv, AttemptsInOrder, TypeOK, Numbers
<1>4. PollersOwn'
    BY <1>u, <1>t DEF IInv, PollersOwn, TypeOK, Owner, Here
<1>5. CancelsHaveACause'
  <2>1. \A o \in Queries, n \in Numbers : GaveUp(o, n) => GaveUp(o, n)'
    BY <1>u, <1>t DEF GaveUp, TypeOK
  <2> QED BY <2>1, <1>u DEF IInv, CancelsHaveACause
<1>6. OwnOutcome'
    BY <1>u DEF IInv, OwnOutcome
<1>7. OnlySharingRefuses'
    BY <1>u, <1>t, <1>h DEF IInv, OnlySharingRefuses, TypeOK
<1> QED BY <1>1, <1>2, <1>3, <1>4, <1>5, <1>6, <1>7 DEF IInv

LEMMA ConflictKeeps == ASSUME NEW q \in Queries, IInv, Conflict(q) PROVE IInv'
<1>1. Here(q) \in Workers /\ number[q] \in Numbers /\ Owner(q) \in Queries \ {q}
    BY DEF IInv, TypeOK, Conflict, Accepts, Owner
<1>2. used[Owner(q)][number[q]] = Here(q)
    BY <1>1 DEF IInv, RecordsHaveOwners, Owner
<1> QED BY <1>1, <1>2, GiveUpKeeps DEF Conflict

LEMMA PollCanceledKeeps == ASSUME NEW q \in Queries, IInv, PollCanceled(q) PROVE IInv'
<1>1. Here(q) \in Workers /\ number[q] \in Numbers /\ State(q) = "CANCELED"
      /\ pc[q] = "polling"
    BY DEF IInv, TypeOK, PollCanceled
<1>2. Owner(q) \in Queries
    BY <1>1 DEF IInv, TypeOK, RecordsHaveOwners, Owner, State
<1>3. used[Owner(q)][number[q]] = Here(q)
    BY <1>1, <1>2 DEF IInv, RecordsHaveOwners, Owner
<1>4. \E other \in Queries \ {q} : used[other][number[q]] = Here(q)
  <2>1. CASE Owner(q) # q
    BY <2>1, <1>2, <1>3
  <2>2. CASE Owner(q) = q
    <3>1. ~GaveUp(q, number[q])
      BY <1>1 DEF GaveUp, IInv, TypeOK, Numbers
    <3> QED BY <1>1, <2>2, <3>1 DEF IInv, CancelsHaveACause, Owner, State
  <2> QED BY <2>1, <2>2
<1> QED BY <1>1, <1>4, GiveUpKeeps DEF PollCanceled

LEMMA FaultKeeps ==
  ASSUME NEW q \in Queries, IInv, PollFailed(q) \/ Lose(q) PROVE IInv'
BY GiveUpKeeps DEF PollFailed, Lose

LEMMA PollResultKeeps == ASSUME NEW q \in Queries, IInv, PollResult(q) PROVE IInv'
<1>u. /\ owner' = owner /\ state' = state /\ number' = number /\ used' = used
      /\ reason' = reason /\ disturbed' = disturbed /\ restarts' = restarts
      /\ pc[q] = "polling" /\ State(q) = "SUCCEEDED"
      /\ pc' = [pc EXCEPT ![q] = "succeeded"]
      /\ value' = [value EXCEPT ![q] = Owner(q)]
    BY DEF PollResult, records
<1>t. TypeOK
    BY DEF IInv
<1>h. Owner(q) \in Queries \cup {None}
    BY <1>t, <1>u DEF TypeOK, Owner
<1>1. TypeOK'
    BY <1>u, <1>t, <1>h DEF TypeOK, Steps, Reasons, Here
<1>2. RecordsHaveOwners'
    BY <1>u DEF IInv, RecordsHaveOwners
<1>3. AttemptsInOrder'
    BY <1>u, <1>t, MaxAttemptsAssumption DEF IInv, AttemptsInOrder, TypeOK, Numbers
<1>4. PollersOwn'
    BY <1>u, <1>t DEF IInv, PollersOwn, TypeOK, Owner, Here
<1>5. CancelsHaveACause'
  <2>1. \A o \in Queries, n \in Numbers : GaveUp(o, n) => GaveUp(o, n)'
    BY <1>u, <1>t DEF GaveUp, TypeOK
  <2> QED BY <2>1, <1>u DEF IInv, CancelsHaveACause
<1>6. OwnOutcome'
    BY <1>u, <1>t DEF IInv, OwnOutcome, PollersOwn, TypeOK
<1>7. OnlySharingRefuses'
    BY <1>u, <1>t DEF IInv, OnlySharingRefuses, TypeOK
<1> QED BY <1>1, <1>2, <1>3, <1>4, <1>5, <1>6, <1>7 DEF IInv

LEMMA DiscardKeeps == ASSUME NEW q \in Queries, IInv, Discard(q) PROVE IInv'
<1>u. /\ owner' = owner /\ used' = used /\ reason' = reason
      /\ value' = value /\ disturbed' = disturbed \ {q} /\ restarts' = restarts
      /\ pc[q] = "discarding"
      /\ \/ /\ number[q] + 1 = MaxAttempts
            /\ pc' = [pc EXCEPT ![q] = "failed"] /\ number' = [number EXCEPT ![q] = @]
         \/ /\ number[q] + 1 # MaxAttempts
            /\ pc' = [pc EXCEPT ![q] = "choosing"] /\ number' = [number EXCEPT ![q] = @ + 1]
    BY DEF Discard, IsLastAttempt
<1>t. TypeOK
    BY DEF IInv
<1>h. Here(q) \in Workers /\ number[q] \in Numbers /\ used[q][number[q]] = Here(q)
    BY <1>t, <1>u DEF TypeOK, Here
<1>s. \/ state' = state
      \/ state' = [state EXCEPT ![Here(q)][number[q]] = "CANCELING"] /\ State(q) = "RUNNING"
    BY DEF Discard, AfterDelete
<1>r. state' \in [Workers -> [Numbers -> RecordStates]]
  <2>1. CASE state' = state
    BY <2>1, <1>t DEF TypeOK
  <2>2. CASE state' = [state EXCEPT ![Here(q)][number[q]] = "CANCELING"]
    BY <2>2, <1>t, <1>h DEF TypeOK, RecordStates
  <2> QED BY <2>1, <2>2, <1>s
<1>p. \A x \in Workers, n \in Numbers :
        \/ state'[x][n] = state[x][n]
        \/ x = Here(q) /\ n = number[q] /\ state[x][n] = "RUNNING" /\ state'[x][n] = "CANCELING"
  <2>1. CASE state' = state
    BY <2>1
  <2>2. CASE state' = [state EXCEPT ![Here(q)][number[q]] = "CANCELING"] /\ State(q) = "RUNNING"
    BY <2>2, <1>t, <1>h DEF TypeOK, State
  <2> QED BY <2>1, <2>2, <1>s
<1>n. /\ number' \in [Queries -> Numbers] /\ pc' \in [Queries -> Steps]
      /\ \A o \in Queries : o # q => number'[o] = number[o] /\ pc'[o] = pc[o]
      /\ \/ number'[q] = number[q] /\ pc'[q] = "failed" /\ number[q] + 1 = MaxAttempts
         \/ number'[q] = number[q] + 1 /\ pc'[q] = "choosing"
  <2>1. CASE /\ number[q] + 1 = MaxAttempts
             /\ pc' = [pc EXCEPT ![q] = "failed"] /\ number' = [number EXCEPT ![q] = @]
    BY <2>1, <1>t DEF TypeOK, Steps
  <2>2. CASE /\ number[q] + 1 # MaxAttempts
             /\ pc' = [pc EXCEPT ![q] = "choosing"] /\ number' = [number EXCEPT ![q] = @ + 1]
    <3>1. number[q] + 1 \in Numbers
      BY <2>2, <1>h, MaxAttemptsAssumption DEF Numbers
    <3> QED BY <2>2, <3>1, <1>t DEF TypeOK, Steps
  <2> QED BY <2>1, <2>2, <1>u
<1>1. TypeOK'
  <2>1. ASSUME NEW p \in Queries
        PROVE  \/ pc'[p] = "choosing" \/ Here(p)' \in Workers
               \/ pc'[p] = "failed" /\ reason'[p][number'[p]] = "unavailable"
    <3>1. Here(p)' = used[p][number'[p]] /\ reason'[p][number'[p]] = reason[p][number'[p]]
      BY <1>u DEF Here
    <3>2. CASE p = q
      BY <3>1, <3>2, <1>n, <1>h
    <3>3. CASE p # q
      <4>1. number'[p] = number[p] /\ pc'[p] = pc[p]
        BY <3>3, <1>n
      <4> QED BY <3>1, <4>1, <1>t DEF TypeOK, Here
    <3> QED BY <3>2, <3>3
  <2> QED BY <2>1, <1>u, <1>t, <1>r, <1>n DEF TypeOK
<1>2. RecordsHaveOwners'
    BY <1>u, <1>p DEF IInv, RecordsHaveOwners
<1>3. AttemptsInOrder'
    BY <1>u, <1>n, <1>t, <1>h, MaxAttemptsAssumption DEF IInv, AttemptsInOrder, TypeOK, Numbers
<1>4. PollersOwn'
    BY <1>u, <1>n, <1>t DEF IInv, PollersOwn, TypeOK, Owner, Here
<1>5. CancelsHaveACause'
  <2>1. \A o \in Queries, n \in Numbers : GaveUp(o, n) => GaveUp(o, n)'
    <3>1. ASSUME NEW o \in Queries, NEW n \in Numbers, GaveUp(o, n), o # q PROVE GaveUp(o, n)'
      BY <3>1, <1>n DEF GaveUp
    <3>2. ASSUME NEW n \in Numbers, GaveUp(q, n) PROVE GaveUp(q, n)'
      BY <3>2, <1>n, <1>h, MaxAttemptsAssumption DEF GaveUp, Numbers
    <3> QED BY <3>1, <3>2
  <2>2. GaveUp(q, number[q])
    BY <1>u DEF GaveUp
  <2>3. ASSUME NEW x \in Workers, NEW n \in Numbers, NEW o \in Queries, owner[x][n] = o,
               state'[x][n] \in {"CANCELING", "CANCELED"}
        PROVE  GaveUp(o, n)' \/ \E other \in Queries \ {o} : used[other][n] = x
    <3>1. CASE state'[x][n] = state[x][n]
      BY <2>1, <2>3, <3>1 DEF IInv, CancelsHaveACause
    <3>2. CASE x = Here(q) /\ n = number[q]
      BY <2>1, <2>2, <3>2, <1>h
    <3> QED BY <3>1, <3>2, <1>p
  <2> QED BY <2>3, <1>u DEF CancelsHaveACause
<1>6. OwnOutcome'
    BY <1>u DEF IInv, OwnOutcome, PollersOwn
<1>7. OnlySharingRefuses'
  <2>1. ASSUME NEW p \in Queries, pc'[p] = "failed"
        PROVE  \/ reason'[p][number'[p]] \in {"unconfirmed", "unavailable"}
               \/ \A n \in Numbers : reason'[p][n] \in {"conflict", "canceled", "fault"}
    <3>1. CASE p # q
      BY <2>1, <3>1, <1>u, <1>n DEF IInv, OnlySharingRefuses
    <3>2. CASE p = q
      <4>1. number[q] + 1 = MaxAttempts
        BY <2>1, <3>2, <1>n
      <4> QED BY <4>1, <3>2, <1>u, <1>h, MaxAttemptsAssumption DEF IInv, AttemptsInOrder, Numbers
    <3> QED BY <3>1, <3>2
  <2> QED BY <2>1, <1>u DEF IInv, OnlySharingRefuses
<1> QED BY <1>1, <1>2, <1>3, <1>4, <1>5, <1>6, <1>7 DEF IInv

LEMMA UnconfirmedKeeps == ASSUME NEW q \in Queries, IInv, Unconfirmed(q) PROVE IInv'
<1>u. /\ owner' = owner /\ used' = used /\ number' = number
      /\ value' = value /\ disturbed' = disturbed /\ restarts' = restarts
      /\ pc[q] = "polling" /\ pc' = [pc EXCEPT ![q] = "failed"]
      /\ reason' = [reason EXCEPT ![q][number[q]] = "unconfirmed"]
    BY DEF Unconfirmed
<1>t. TypeOK
    BY DEF IInv
<1>h. Here(q) \in Workers /\ number[q] \in Numbers /\ used[q][number[q]] = Here(q)
    BY <1>t, <1>u DEF TypeOK, Here
<1>s. \/ state' = state
      \/ state' = [state EXCEPT ![Here(q)][number[q]] = "CANCELING"] /\ State(q) = "RUNNING"
    BY DEF Unconfirmed, AfterDelete
<1>r. state' \in [Workers -> [Numbers -> RecordStates]]
  <2>1. CASE state' = state
    BY <2>1, <1>t DEF TypeOK
  <2>2. CASE state' = [state EXCEPT ![Here(q)][number[q]] = "CANCELING"]
    BY <2>2, <1>t, <1>h DEF TypeOK, RecordStates
  <2> QED BY <2>1, <2>2, <1>s
<1>p. \A x \in Workers, n \in Numbers :
        \/ state'[x][n] = state[x][n]
        \/ x = Here(q) /\ n = number[q] /\ state[x][n] = "RUNNING" /\ state'[x][n] = "CANCELING"
  <2>1. CASE state' = state
    BY <2>1
  <2>2. CASE state' = [state EXCEPT ![Here(q)][number[q]] = "CANCELING"] /\ State(q) = "RUNNING"
    BY <2>2, <1>t, <1>h DEF TypeOK, State
  <2> QED BY <2>1, <2>2, <1>s
<1>1. TypeOK'
    BY <1>u, <1>t, <1>r, <1>h DEF TypeOK, Steps, Reasons, Here
<1>2. RecordsHaveOwners'
    BY <1>u, <1>p DEF IInv, RecordsHaveOwners
<1>3. AttemptsInOrder'
    BY <1>u, <1>t, <1>h, MaxAttemptsAssumption DEF IInv, AttemptsInOrder, TypeOK, Numbers
<1>4. PollersOwn'
    BY <1>u, <1>t DEF IInv, PollersOwn, TypeOK, Owner, Here
<1>5. CancelsHaveACause'
  <2>1. \A o \in Queries, n \in Numbers : GaveUp(o, n) => GaveUp(o, n)'
    BY <1>u, <1>t DEF GaveUp, TypeOK
  <2>2. GaveUp(q, number[q])'
    BY <1>u, <1>t DEF GaveUp, TypeOK
  <2>3. ASSUME NEW x \in Workers, NEW n \in Numbers, NEW o \in Queries, owner[x][n] = o,
               state'[x][n] \in {"CANCELING", "CANCELED"}
        PROVE  GaveUp(o, n)' \/ \E other \in Queries \ {o} : used[other][n] = x
    <3>1. CASE state'[x][n] = state[x][n]
      BY <2>1, <2>3, <3>1 DEF IInv, CancelsHaveACause
    <3>2. CASE x = Here(q) /\ n = number[q]
      BY <2>2, <3>2, <1>h, <1>u
    <3> QED BY <3>1, <3>2, <1>p
  <2> QED BY <2>3, <1>u DEF CancelsHaveACause
<1>6. OwnOutcome'
    BY <1>u DEF IInv, OwnOutcome
<1>7. OnlySharingRefuses'
    BY <1>u, <1>h, <1>t DEF IInv, OnlySharingRefuses, TypeOK
<1> QED BY <1>1, <1>2, <1>3, <1>4, <1>5, <1>6, <1>7 DEF IInv

LEMMA FinishKeeps ==
  ASSUME NEW w \in Workers, NEW n \in Numbers, IInv, Finish(w, n) PROVE IInv'
<1>u. /\ owner' = owner /\ pc' = pc /\ number' = number /\ used' = used /\ reason' = reason
      /\ value' = value /\ disturbed' = disturbed /\ restarts' = restarts
    BY DEF Finish
<1>t. TypeOK
    BY DEF IInv
<1>s. PICK s \in {"SUCCEEDED", "FAILED", "CANCELED"} :
        /\ state' = [state EXCEPT ![w][n] = s]
        /\ \/ state[w][n] = "RUNNING" /\ s # "CANCELED"
           \/ state[w][n] = "CANCELING" /\ s = "CANCELED"
    BY DEF Finish
<1>p. \A x \in Workers, m \in Numbers :
        \/ state'[x][m] = state[x][m]
        \/ x = w /\ m = n /\ state'[x][m] = s
    BY <1>s, <1>t DEF TypeOK
<1>1. TypeOK'
    BY <1>u, <1>t, <1>s DEF TypeOK, RecordStates, Here
<1>2. RecordsHaveOwners'
    BY <1>u, <1>p, <1>s DEF IInv, RecordsHaveOwners
<1>3. AttemptsInOrder' /\ PollersOwn' /\ OwnOutcome' /\ OnlySharingRefuses'
    BY <1>u DEF IInv, AttemptsInOrder, PollersOwn, Owner, Here, OwnOutcome, OnlySharingRefuses
<1>4. CancelsHaveACause'
  <2>1. \A x \in Workers, m \in Numbers : state'[x][m] \in {"CANCELING", "CANCELED"} =>
           state[x][m] \in {"CANCELING", "CANCELED"}
    BY <1>p, <1>s
  <2> QED BY <2>1, <1>u DEF IInv, CancelsHaveACause, GaveUp
<1> QED BY <1>1, <1>2, <1>3, <1>4 DEF IInv

LEMMA RestartKeeps == ASSUME NEW w \in Workers, IInv, Restart(w) PROVE IInv'
<1>u. /\ pc' = pc /\ number' = number /\ used' = used /\ reason' = reason /\ value' = value
      /\ owner' = [owner EXCEPT ![w] = [n \in Numbers |-> None]]
      /\ state' = [state EXCEPT ![w] = [n \in Numbers |-> "absent"]]
      /\ disturbed' = disturbed \cup {q \in Queries : pc[q] = "polling" /\ Here(q) = w}
      /\ restarts < MaxRestarts /\ restarts' = restarts + 1
    BY DEF Restart
<1>t. TypeOK
    BY DEF IInv
<1>p. \A x \in Workers, n \in Numbers :
        \/ x # w /\ owner'[x][n] = owner[x][n] /\ state'[x][n] = state[x][n]
        \/ x = w /\ owner'[x][n] = None /\ state'[x][n] = "absent"
    BY <1>u, <1>t DEF TypeOK
<1>1. TypeOK'
    BY <1>u, <1>t, MaxRestartsAssumption DEF TypeOK, RecordStates, Here
<1>2. RecordsHaveOwners'
    BY <1>u, <1>p, NoneIsNothing DEF IInv, RecordsHaveOwners
<1>3. AttemptsInOrder' /\ OwnOutcome' /\ OnlySharingRefuses'
    BY <1>u DEF IInv, AttemptsInOrder, OwnOutcome, OnlySharingRefuses
<1>4. PollersOwn'
  <2>1. \A q \in Queries : Here(q)' = Here(q)
    BY <1>u DEF Here
  <2>2. ASSUME NEW q \in Queries, pc[q] = "polling", Here(q) # w PROVE Owner(q)' = Owner(q)
    BY <2>2, <1>u, <1>t DEF TypeOK, Owner, Here
  <2> QED BY <2>1, <2>2, <1>u DEF IInv, PollersOwn
<1>5. CancelsHaveACause'
    BY <1>u, <1>p DEF IInv, CancelsHaveACause, GaveUp
<1> QED BY <1>1, <1>2, <1>3, <1>4, <1>5 DEF IInv

(***************************************************************************)
(* The theorems.                                                           *)
(***************************************************************************)

LEMMA StepKeeps == IInv /\ [Next]_vars => IInv'
<1> SUFFICES ASSUME IInv, [Next]_vars PROVE IInv'
    OBVIOUS
<1>1. CASE UNCHANGED vars
    BY <1>1 DEF vars, IInv, TypeOK, RecordsHaveOwners, AttemptsInOrder, PollersOwn,
        CancelsHaveACause, GaveUp, OwnOutcome, OnlySharingRefuses, Owner, Here
<1>2. ASSUME NEW q \in Queries, Step(q) \/ Lose(q) \/ Unconfirmed(q) PROVE IInv'
    BY <1>2, ChooseKeeps, NoWorkerKeeps, PostKeeps, ConflictKeeps, PollResultKeeps, PollCanceledKeeps,
       FaultKeeps, DiscardKeeps, UnconfirmedKeeps DEF Step
<1>3. ASSUME NEW w \in Workers, Restart(w) PROVE IInv'
    BY <1>3, RestartKeeps
<1>4. ASSUME NEW w \in Workers, NEW n \in Numbers, Finish(w, n) PROVE IInv'
    BY <1>4, FinishKeeps
<1> QED BY <1>1, <1>2, <1>3, <1>4 DEF Next

\* The variables keep their types, and a query beyond the choice of a Worker has one.
THEOREM SharedTypes == Spec => []TypeOK
<1>1. IInv => TypeOK
    BY DEF IInv
<1> QED BY <1>1, InitIInv, StepKeeps, PTL DEF Spec

\* However many queries share attempt ids, each returns the result of its own task
\* unless the Worker it polls has restarted.
THEOREM ResultsAreOwn == Spec => []OwnOutcome
<1>1. IInv => OwnOutcome
    BY DEF IInv
<1> QED BY <1>1, InitIInv, StepKeeps, PTL DEF Spec

\* A query alone with its attempt ids is never refused and never finds its attempt
\* cancelled, and none gives up before its last attempt, unless it cannot tell
\* whether an earlier one has stopped or finds no healthy Worker for the next.
THEOREM RefusalsComeFromSharing == Spec => []OnlySharingRefuses
<1>1. IInv => OnlySharingRefuses
    BY DEF IInv
<1> QED BY <1>1, InitIInv, StepKeeps, PTL DEF Spec
===============================================================================
