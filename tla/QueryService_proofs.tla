------------------------- MODULE QueryService_proofs -------------------------
(***************************************************************************)
(* The safety properties of QueryService hold for any number of concurrent *)
(* cancel calls and any number of scheduler runs. None of them is          *)
(* inductive alone: what a step may do depends on who has asked to cancel  *)
(* and on what the executor has been told of it (Books).                   *)
(***************************************************************************)
EXTENDS QueryService, TLAPS

(* How the query's state follows the coroutine's position. *)
StateFollowsPc ==
  /\ pc = "none" <=> state = "none"
  /\ pc = "queued" => state = "QUEUED"
  /\ pc = "done" => state \in Terminal
  /\ state = "SUCCEEDED" => rows

(* Scheduler runs are outstanding only while the query runs. *)
RunsLeft ==
  /\ pc \in {"none", "queued", "listing", "planning"} => left = 0
  /\ pc = "running" => left > 0

(* What is known of a request to cancel, and where. *)
Books ==
  /\ requested => pc # "none"
  /\ pc = "running" /\ requested => flagged
  /\ ~requested /\ pc # "done" => error = "none"
  /\ error = "timeout" => requested
  /\ \A c \in Callers : call[c] = "waiting" => requested
  /\ \A c \in Callers : call[c] \in Terminal => state \in Terminal

IndInv ==
  /\ TypeOK /\ StateFollowsPc /\ RunsLeft /\ Books
  /\ ResultsAreWanted /\ TerminalHasStopped /\ ClosedIsSettled

LEMMA InitOK == Init => IndInv
<1> SUFFICES ASSUME Init PROVE IndInv
  OBVIOUS
<1>1. left \in 0 .. MaxRuns
  BY MaxRunsAssumption DEF Init
<1>2. TypeOK
  BY <1>1 DEF Init, TypeOK, States
<1>3. StateFollowsPc /\ RunsLeft
  BY DEF Init, StateFollowsPc, RunsLeft
<1>4. Books
  BY DEF Init, Books, Terminal
<1>5. ResultsAreWanted /\ TerminalHasStopped /\ ClosedIsSettled
  BY DEF Init, ResultsAreWanted, ResultsReady, TerminalHasStopped, ClosedIsSettled, Terminal
<1> QED
  BY <1>2, <1>3, <1>4, <1>5 DEF IndInv

(* Every handler of _run leaves a stopped query without results. *)
LEMMA ConcludeOK ==
  ASSUME IndInv, NEW kind \in {"cancelled", "unconfirmed", "error"}, Conclude(kind),
         pc \notin {"none", "done"},
         left' \in 0 .. MaxRuns, token' \in BOOLEAN, flagged' \in BOOLEAN
  PROVE  IndInv'
<1>1. /\ state' \in {"FAILED", "CANCELED"}
      /\ error' \in {"none", "query", "unconfirmed", "timeout"}
      /\ error' = "timeout" => error = "timeout"
      /\ pc' = "done" /\ executor' = FALSE
      /\ UNCHANGED <<rows, requested, call, closing>>
  BY DEF Conclude, IndInv, TypeOK
<1>2. TypeOK'
  BY <1>1 DEF IndInv, TypeOK, States, Terminal
<1>3. StateFollowsPc' /\ RunsLeft'
  BY <1>1 DEF StateFollowsPc, RunsLeft, Terminal, IndInv
<1>4. Books'
  BY <1>1 DEF Books, Terminal, IndInv
<1>5. ResultsAreWanted' /\ TerminalHasStopped' /\ ClosedIsSettled'
  BY <1>1 DEF ResultsAreWanted, ResultsReady, TerminalHasStopped, ClosedIsSettled, Terminal
<1> QED
  BY <1>2, <1>3, <1>4, <1>5 DEF IndInv

(* A result is recorded only if nobody has asked to cancel; otherwise the   *)
(* query is concluded as cancelled.                                         *)
LEMMA SucceedOK ==
  ASSUME IndInv, Succeed, pc \notin {"none", "done"},
         left' = 0, token' \in BOOLEAN, flagged' \in BOOLEAN
  PROVE  IndInv'
<1>0. left' \in 0 .. MaxRuns
  BY MaxRunsAssumption
<1>1. CASE requested
  <2>1. Conclude("cancelled")
    BY <1>1 DEF Succeed
  <2> QED
    BY <2>1, <1>0, ConcludeOK
<1>2. CASE ~requested
  <2>1. /\ state' = "SUCCEEDED" /\ rows' = TRUE /\ pc' = "done" /\ executor' = FALSE
        /\ UNCHANGED <<error, requested, call, closing>>
    BY <1>2 DEF Succeed
  <2>2. error = "none"
    BY <1>2 DEF IndInv, Books
  <2>3. TypeOK'
    BY <1>0, <2>1 DEF IndInv, TypeOK, States, Terminal
  <2>4. StateFollowsPc' /\ RunsLeft'
    BY <2>1 DEF StateFollowsPc, RunsLeft, Terminal
  <2>5. Books'
    BY <2>1, <2>2 DEF Books, Terminal, IndInv
  <2>6. ResultsAreWanted' /\ TerminalHasStopped' /\ ClosedIsSettled'
    BY <1>2, <2>1, <2>2 DEF ResultsAreWanted, ResultsReady, TerminalHasStopped, ClosedIsSettled, Terminal
  <2> QED
    BY <2>3, <2>4, <2>5, <2>6 DEF IndInv
<1> QED
  BY <1>1, <1>2

LEMMA SubmitOK == IndInv /\ Submit => IndInv'
  BY DEF IndInv, Submit, TypeOK, StateFollowsPc, RunsLeft, Books, ResultsAreWanted, ResultsReady,
         TerminalHasStopped, ClosedIsSettled, Terminal, States

LEMMA BeginOK == IndInv /\ Begin => IndInv'
<1> SUFFICES ASSUME IndInv, Begin PROVE IndInv'
  OBVIOUS
<1>0. /\ pc = "queued" /\ UNCHANGED <<left, token, flagged>>
      /\ left \in 0 .. MaxRuns /\ token \in BOOLEAN /\ flagged \in BOOLEAN
  BY DEF Begin, IndInv, TypeOK
<1>1. CASE Conclude("error")
  BY <1>0, <1>1, ConcludeOK
<1>2. CASE /\ state' = "PLANNING" /\ pc' = "listing"
           /\ UNCHANGED <<error, rows, requested, executor, call, closing>>
  <2>1. TypeOK'
    BY <1>0, <1>2 DEF IndInv, TypeOK, States
  <2>2. StateFollowsPc' /\ RunsLeft'
    BY <1>0, <1>2 DEF IndInv, StateFollowsPc, RunsLeft
  <2>3. Books'
    BY <1>0, <1>2 DEF IndInv, Books, StateFollowsPc, Terminal
  <2>4. ResultsAreWanted' /\ TerminalHasStopped' /\ ClosedIsSettled'
    BY <1>0, <1>2 DEF IndInv, StateFollowsPc, ResultsAreWanted, ResultsReady, TerminalHasStopped,
                      ClosedIsSettled, Terminal
  <2> QED
    BY <2>1, <2>2, <2>3, <2>4 DEF IndInv
<1> QED
  BY <1>1, <1>2 DEF Begin

LEMMA ListedOK == IndInv /\ Listed => IndInv'
<1> SUFFICES ASSUME IndInv, Listed PROVE IndInv'
  OBVIOUS
<1>0. /\ pc = "listing" /\ UNCHANGED <<left, token, flagged>>
      /\ left \in 0 .. MaxRuns /\ token \in BOOLEAN /\ flagged \in BOOLEAN
  BY DEF Listed, IndInv, TypeOK
<1>1. CASE Conclude("error")
  BY <1>0, <1>1, ConcludeOK
<1>2. CASE pc' = "planning" /\ UNCHANGED <<state, error, rows, requested, executor, call, closing>>
  BY <1>0, <1>2 DEF IndInv, TypeOK, StateFollowsPc, RunsLeft, Books, ResultsAreWanted, ResultsReady,
                    TerminalHasStopped, ClosedIsSettled, Terminal, States
<1> QED
  BY <1>1, <1>2 DEF Listed

LEMMA PlannedOK == IndInv /\ Planned => IndInv'
<1> SUFFICES ASSUME IndInv, Planned PROVE IndInv'
  OBVIOUS
<1>0. /\ pc = "planning" /\ left = 0
      /\ left \in 0 .. MaxRuns /\ token \in BOOLEAN /\ flagged \in BOOLEAN
  BY DEF Planned, IndInv, TypeOK, RunsLeft
<1>1. CASE Conclude("error") /\ UNCHANGED <<left, token, flagged>>
  BY <1>0, <1>1, ConcludeOK
<1>2. CASE requested /\ Conclude("cancelled") /\ UNCHANGED <<left, token, flagged>>
  BY <1>0, <1>2, ConcludeOK
<1>3. CASE ~requested /\ Succeed /\ UNCHANGED <<left, token, flagged>>
  BY <1>0, <1>3, SucceedOK
<1>4. ASSUME ~requested, NEW n \in 1 .. MaxRuns,
             left' = n, token' = FALSE, flagged' = FALSE,
             state' = "RUNNING", executor' = TRUE, pc' = "running",
             UNCHANGED <<error, rows, requested, call, closing>>
      PROVE  IndInv'
  <2>0. state \notin Terminal
    BY <1>0, <1>4 DEF IndInv, TerminalHasStopped, Books
  <2>a. left' \in 0 .. MaxRuns
    BY <1>4, MaxRunsAssumption
  <2>1. TypeOK'
    BY <1>4, <2>a DEF IndInv, TypeOK, States
  <2>2. StateFollowsPc' /\ RunsLeft'
    BY <1>0, <1>4, MaxRunsAssumption DEF IndInv, StateFollowsPc, RunsLeft
  <2>3. Books'
    BY <1>0, <1>4, <2>0 DEF IndInv, Books
  <2>4. ResultsAreWanted' /\ TerminalHasStopped'
    BY <1>4 DEF ResultsAreWanted, ResultsReady, TerminalHasStopped, Terminal
  <2>5. ClosedIsSettled'
    BY <1>0, <1>4, <2>0 DEF IndInv, ClosedIsSettled, StateFollowsPc
  <2> QED
    BY <2>1, <2>2, <2>3, <2>4, <2>5 DEF IndInv
<1> QED
  BY <1>1, <1>2, <1>3, <1>4 DEF Planned, RunsOfPlan

LEMMA RunReturnsOK == IndInv /\ RunReturns => IndInv'
<1> SUFFICES ASSUME IndInv, RunReturns PROVE IndInv'
  OBVIOUS
<1>0. /\ pc = "running" /\ left > 0 /\ flagged' = flagged
      /\ left \in 0 .. MaxRuns /\ token \in BOOLEAN /\ flagged \in BOOLEAN
  BY DEF RunReturns, IndInv, TypeOK, RunsLeft
<1>a. left - 1 \in 0 .. MaxRuns
  BY <1>0, MaxRunsAssumption
<1>1. PICK o \in Run!Outcomes(token) :
       \/ /\ o = "complete" /\ ~flagged /\ left > 1
          /\ left' = left - 1 /\ token' = FALSE
          /\ UNCHANGED <<state, error, rows, requested, executor, pc, call, closing>>
       \/ /\ o = "complete" /\ ~flagged /\ left = 1
          /\ left' = 0
          /\ Succeed
          /\ UNCHANGED token
       \/ /\ o = "complete" /\ ~flagged
          /\ left' = left - 1
          /\ Conclude("error")
          /\ UNCHANGED token
       \/ /\ o \in {"complete", "cancelled"} /\ flagged
          /\ Conclude("cancelled")
          /\ UNCHANGED <<left, token>>
       \/ /\ o \in {"failed", "unconfirmed"}
          /\ Conclude(IF o = "failed" THEN "error" ELSE o)
          /\ UNCHANGED <<left, token>>
  BY DEF RunReturns
<1>2. CASE /\ left > 1 /\ left' = left - 1 /\ token' = FALSE
           /\ UNCHANGED <<state, error, rows, requested, executor, pc, call, closing>>
  <2>1. TypeOK'
    BY <1>0, <1>a, <1>2 DEF IndInv, TypeOK
  <2>2. StateFollowsPc' /\ RunsLeft'
    BY <1>0, <1>2 DEF IndInv, StateFollowsPc, RunsLeft
  <2>3. Books'
    BY <1>0, <1>2 DEF IndInv, Books
  <2>4. ResultsAreWanted' /\ TerminalHasStopped' /\ ClosedIsSettled'
    BY <1>0, <1>2 DEF IndInv, ResultsAreWanted, ResultsReady, TerminalHasStopped, ClosedIsSettled
  <2> QED
    BY <2>1, <2>2, <2>3, <2>4 DEF IndInv
<1>3. CASE left' = 0 /\ Succeed /\ UNCHANGED token
  BY <1>0, <1>3, SucceedOK
<1>4. CASE left' = left - 1 /\ Conclude("error") /\ UNCHANGED token
  BY <1>0, <1>a, <1>4, ConcludeOK
<1>5. CASE Conclude("cancelled") /\ UNCHANGED <<left, token>>
  BY <1>0, <1>5, ConcludeOK
<1>6. CASE o = "failed" /\ Conclude("error") /\ UNCHANGED <<left, token>>
  BY <1>0, <1>6, ConcludeOK
<1>7. CASE o = "unconfirmed" /\ Conclude("unconfirmed") /\ UNCHANGED <<left, token>>
  BY <1>0, <1>7, ConcludeOK
<1> QED
  BY <1>1, <1>2, <1>3, <1>4, <1>5, <1>6, <1>7

LEMMA CancelOK == ASSUME IndInv, NEW c \in Callers, Cancel(c) PROVE IndInv'
<1>1. CASE /\ state \in Terminal
           /\ call' = [call EXCEPT ![c] = state] /\ UNCHANGED <<requested, flagged, token>>
           /\ UNCHANGED <<state, error, rows, executor, pc, left, closing>>
  <2>1. TypeOK'
    BY <1>1 DEF IndInv, TypeOK, Terminal
  <2>2. Books'
    BY <1>1 DEF IndInv, Books, TypeOK, Terminal
  <2>3. StateFollowsPc' /\ RunsLeft' /\ ResultsAreWanted' /\ TerminalHasStopped' /\ ClosedIsSettled'
    BY <1>1 DEF IndInv, StateFollowsPc, RunsLeft, ResultsAreWanted, ResultsReady, TerminalHasStopped,
                ClosedIsSettled
  <2> QED
    BY <2>1, <2>2, <2>3 DEF IndInv
<1>2. CASE /\ state \notin Terminal
           /\ call' = [call EXCEPT ![c] = "waiting"] /\ requested' = TRUE
           /\ flagged' = (flagged \/ executor) /\ token' = (token \/ pc = "running")
           /\ UNCHANGED <<state, error, rows, executor, pc, left, closing>>
  <2>1. TypeOK'
    BY <1>2 DEF IndInv, TypeOK
  <2>2. Books'
    <3>1. pc' = "running" => flagged'
      BY <1>2 DEF IndInv, TypeOK
    <3>2. pc' # "none"
      BY <1>2 DEF Cancel, IndInv, StateFollowsPc
    <3>3. \A d \in Callers : call'[d] \in Terminal => state' \in Terminal
      BY <1>2 DEF IndInv, Books, TypeOK, Terminal
    <3> QED
      BY <1>2, <3>1, <3>2, <3>3 DEF Books
  <2>3. StateFollowsPc' /\ RunsLeft' /\ TerminalHasStopped' /\ ClosedIsSettled'
    BY <1>2 DEF IndInv, StateFollowsPc, RunsLeft, TerminalHasStopped, ClosedIsSettled
  <2>4. ResultsAreWanted'
    BY <1>2 DEF ResultsAreWanted, ResultsReady, Terminal
  <2> QED
    BY <2>1, <2>2, <2>3, <2>4 DEF IndInv
<1> QED
  BY <1>1, <1>2 DEF Cancel

LEMMA CancelReturnsOK == ASSUME IndInv, NEW c \in Callers, CancelReturns(c) PROVE IndInv'
<1>1. state \in Terminal
  BY DEF CancelReturns, IndInv, StateFollowsPc
<1>2. TypeOK'
  BY <1>1 DEF CancelReturns, IndInv, TypeOK, Terminal
<1>3. Books'
  BY <1>1 DEF CancelReturns, IndInv, Books, TypeOK, Terminal
<1>4. StateFollowsPc' /\ RunsLeft' /\ ResultsAreWanted' /\ TerminalHasStopped' /\ ClosedIsSettled'
  BY DEF CancelReturns, IndInv, StateFollowsPc, RunsLeft, ResultsAreWanted, ResultsReady,
         TerminalHasStopped, ClosedIsSettled
<1> QED
  BY <1>2, <1>3, <1>4 DEF IndInv

LEMMA CancelTimeoutOK == ASSUME IndInv, NEW c \in Callers, CancelTimeout(c) PROVE IndInv'
<1>0. requested /\ pc # "none" /\ pc # "queued"
  <2>1. requested
    BY DEF CancelTimeout, IndInv, Books
  <2>2. pc # "none"
    BY <2>1 DEF CancelTimeout, IndInv, Books
  <2> QED
    BY <2>1, <2>2 DEF CancelTimeout
<1>1. TypeOK'
  BY DEF CancelTimeout, IndInv, TypeOK, States, Terminal
<1>2. Books'
  BY <1>0 DEF CancelTimeout, IndInv, Books, TypeOK, Terminal
<1>3. StateFollowsPc' /\ RunsLeft'
  BY <1>0 DEF CancelTimeout, IndInv, StateFollowsPc, RunsLeft, Terminal
<1>4. ResultsAreWanted' /\ TerminalHasStopped' /\ ClosedIsSettled'
  BY DEF CancelTimeout, ResultsAreWanted, ResultsReady, TerminalHasStopped, ClosedIsSettled, Terminal
<1> QED
  BY <1>1, <1>2, <1>3, <1>4 DEF IndInv

LEMMA CloseOK == IndInv /\ (Close \/ CloseReturns) => IndInv'
<1> SUFFICES ASSUME IndInv, Close \/ CloseReturns PROVE IndInv'
  OBVIOUS
<1>0. /\ UNCHANGED <<state, error, rows, requested, executor, pc, left, token, flagged, call>>
      /\ closing' \in {"closing", "closed"}
  BY DEF Close, CloseReturns
<1>1. closing' = "closed" => state \in Terminal \cup {"none"}
  BY CallersAssumption DEF Close, CloseReturns, IndInv, StateFollowsPc, Books
<1>2. TypeOK'
  BY <1>0 DEF IndInv, TypeOK
<1>3. StateFollowsPc' /\ RunsLeft' /\ Books' /\ ResultsAreWanted' /\ TerminalHasStopped'
  BY <1>0 DEF IndInv, StateFollowsPc, RunsLeft, Books, ResultsAreWanted, ResultsReady,
              TerminalHasStopped
<1> QED
  BY <1>0, <1>1, <1>2, <1>3 DEF IndInv, ClosedIsSettled

LEMMA StutterOK == IndInv /\ UNCHANGED vars => IndInv'
  BY DEF vars, IndInv, TypeOK, StateFollowsPc, RunsLeft, Books, ResultsAreWanted, ResultsReady,
         TerminalHasStopped, ClosedIsSettled

(* IndInv is an invariant: one lemma per action. *)
THEOREM Invariance == Spec => []IndInv
<1>1. IndInv /\ [Next]_vars => IndInv'
  <2> SUFFICES ASSUME IndInv, [Next]_vars PROVE IndInv'
    OBVIOUS
  <2>1. CASE Submit \/ RunStep \/ Close \/ CloseReturns \/ Over \/ UNCHANGED vars
    BY <2>1, SubmitOK, BeginOK, ListedOK, PlannedOK, RunReturnsOK, CloseOK, StutterOK DEF RunStep, Over
  <2>2. CASE \E c \in Callers : Cancel(c) \/ CancelReturns(c) \/ CancelTimeout(c)
    BY <2>2, CancelOK, CancelReturnsOK, CancelTimeoutOK
  <2> QED
    BY <2>1, <2>2 DEF Next
<1> QED
  BY <1>1, InitOK, PTL DEF Spec

(* No query record, error, coroutine or call is ever of the wrong kind, and *)
(* the executor is kept exactly while the query runs.                       *)
THEOREM TypeCorrect == Spec => []TypeOK
  BY Invariance, PTL DEF IndInv

(* Rows are served only for a query that ran to its end unasked to stop.    *)
THEOREM ResultsCorrect == Spec => []ResultsAreWanted
  BY Invariance, PTL DEF IndInv

(* A terminal state means that the coroutine has ended, but for a cancel    *)
(* call that timed out.                                                     *)
THEOREM TerminalCorrect == Spec => []TerminalHasStopped
  BY Invariance, PTL DEF IndInv

(* A closed service has only terminal queries. *)
THEOREM CloseCorrect == Spec => []ClosedIsSettled
  BY Invariance, PTL DEF IndInv

(* Wherever a request to cancel arrives, no further scheduler run starts.   *)
THEOREM NoRunCorrect == Spec => NoRunAfterCancel
<1>1. IndInv /\ [Next]_vars =>
        [requested => (pc' = "running" => pc = "running" /\ left' = left)]_vars
  <2> SUFFICES ASSUME IndInv, Next, requested, pc' = "running"
               PROVE  pc = "running" /\ left' = left
    OBVIOUS
  <2>1. CASE RunReturns
    <3>1. flagged /\ pc = "running"
      BY <2>1 DEF RunReturns, IndInv, Books
    <3>2. left' = left
      BY <2>1, <3>1 DEF RunReturns, Conclude
    <3> QED
      BY <3>1, <3>2
  <2>2. CASE Begin \/ Listed \/ Planned
    BY <2>2 DEF Begin, Listed, Planned, Succeed, Conclude
  <2>3. CASE Submit \/ Close \/ CloseReturns \/ Over
    BY <2>3 DEF Submit, Close, CloseReturns, Over, vars
  <2>4. CASE \E c \in Callers : Cancel(c) \/ CancelReturns(c) \/ CancelTimeout(c)
    BY <2>4 DEF Cancel, CancelReturns, CancelTimeout
  <2> QED
    BY <2>1, <2>2, <2>3, <2>4 DEF Next, RunStep
<1> QED
  BY <1>1, Invariance, PTL DEF Spec, NoRunAfterCancel

(* What may still become of a terminal query: named for the proof below.    *)
Reopened ==
  requested /\ {state, state'} = {"FAILED", "CANCELED"} /\ error' = "timeout"

(* Outside its own end, the coroutine leaves a terminal state alone; its    *)
(* end can only turn a timed-out FAILED into CANCELED.                      *)
LEMMA ConcludeFinal ==
  ASSUME IndInv, NEW kind \in {"cancelled", "unconfirmed", "error"}, Conclude(kind),
         pc # "done", state \in Terminal, state' # state
  PROVE  Reopened
<1>1. state = "FAILED" /\ error = "timeout" /\ requested
  BY DEF IndInv, TerminalHasStopped, Books
<1>2. state' = "CANCELED" /\ error' = error
  BY <1>1 DEF Conclude
<1> QED
  BY <1>1, <1>2 DEF Reopened

(* A result and a failure of the query's own are never overwritten.         *)
THEOREM FinalityCorrect == Spec => OutcomeIsFinal
<1>1. IndInv /\ [Next]_vars => [(state \in Terminal /\ state' # state) => Reopened]_vars
  <2> SUFFICES ASSUME IndInv, Next, state \in Terminal, state' # state
               PROVE  Reopened
    OBVIOUS
  <2>1. CASE RunReturns
    <3>1. pc = "running" /\ ~(state = "FAILED" /\ ~requested)
      BY <2>1 DEF RunReturns, IndInv, TerminalHasStopped, Books
    <3>2. requested
      BY <3>1 DEF IndInv, TerminalHasStopped
    <3>3. \E kind \in {"cancelled", "unconfirmed", "error"} : Conclude(kind)
      BY <2>1, <3>2 DEF RunReturns, Succeed
    <3> QED
      BY <3>1, <3>3, ConcludeFinal
  <2>2. CASE Begin
    BY <2>2 DEF Begin, IndInv, StateFollowsPc, Terminal
  <2>3. CASE Listed
    BY <2>3, ConcludeFinal DEF Listed
  <2>4. CASE Planned
    <3>1. pc = "planning" /\ requested
      BY <2>4 DEF Planned, IndInv, TerminalHasStopped, Books
    <3>2. \E kind \in {"cancelled", "unconfirmed", "error"} : Conclude(kind)
      BY <2>4, <3>1 DEF Planned
    <3> QED
      BY <3>1, <3>2, ConcludeFinal
  <2>5. CASE Submit \/ Close \/ CloseReturns \/ Over
    BY <2>5 DEF Submit, Close, CloseReturns, Over, vars, Terminal
  <2>6. ASSUME NEW c \in Callers, Cancel(c) \/ CancelReturns(c) \/ CancelTimeout(c)
        PROVE  Reopened
    <3>1. CancelTimeout(c)
      BY <2>6 DEF Cancel, CancelReturns
    <3>2. requested /\ error' = "timeout" /\ state' = "FAILED"
      BY <3>1 DEF CancelTimeout, IndInv, Books
    <3>3. state # "SUCCEEDED"
      BY <3>2 DEF IndInv, ResultsAreWanted, ResultsReady, StateFollowsPc
    <3>4. state = "CANCELED"
      BY <3>2, <3>3 DEF Terminal
    <3> QED
      BY <3>2, <3>4 DEF Reopened
  <2> QED
    BY <2>1, <2>2, <2>3, <2>4, <2>5, <2>6 DEF Next, RunStep
<1> QED
  BY <1>1, Invariance, PTL DEF Spec, OutcomeIsFinal, Reopened
============================================================================
