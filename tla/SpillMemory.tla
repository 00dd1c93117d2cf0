----------------------------- MODULE SpillMemory -----------------------------
(***************************************************************************)
(* Attempts of one query sort in threads of one process. Each charges the  *)
(* rows it keeps to an account of its own, nested in the account of the    *)
(* query, and writes a sorted run to a file of its own directory when the  *)
(* charge is refused (memory.py, _external_sorted_rows of operators.py).   *)
(* The directories are <root>/<query>/<attempt>/attempt-<uuid>; an attempt *)
(* makes them for its first run and removes them, with the parents that    *)
(* are empty then, when it ends. The in-process executor gives all tasks   *)
(* of a query one account; a Worker gives each attempt its own, which is   *)
(* this module with a QueryLimit that never refuses.                       *)
(*                                                                         *)
(* A row is its charge; a run is the number of its rows. reserve and       *)
(* release hold a lock that all accounts of the query share, so each is a  *)
(* step; so is every system call on a directory.                           *)
(***************************************************************************)
EXTENDS Naturals, FiniteSetsExt

CONSTANTS
  Tasks,
  Charges,     \* what a row may be charged
  NRows,       \* rows of an attempt's input
  TaskLimit, QueryLimit

ASSUME TasksAssumption   == IsFiniteSet(Tasks)
ASSUME ChargesAssumption == Charges \subseteq Nat \ {0}
ASSUME LimitsAssumption  == {NRows, TaskLimit, QueryLimit} \subseteq Nat \ {0}

VARIABLES
  pc,        \* where the attempt's thread is
  back,      \* where the current spill_run or cleanup returns to
  input,     \* rows not read yet
  row,       \* charge of the row in hand, 0 when there is none
  rows,      \* len(rows): rows kept in memory
  reserved,  \* what they are charged
  spilled,   \* rows in runs
  account,   \* current_bytes of the attempt's account
  query,     \* current_bytes of the query's account
  queryDir, taskDir, attemptDir,  \* which directories exist
  error      \* why the attempt fails: none, cancelled, disk, directory

memory == <<row, rows, reserved, account, query>>
dirs   == <<queryDir, taskDir, attemptDir>>
vars   == <<pc, back, input, row, rows, reserved, spilled, account, query,
            queryDir, taskDir, attemptDir, error>>

Places ==
  {"read", "reserve", "retry", "spill", "mkAttempt", "mkTask", "mkQuery", "isDir",
   "mkTaskAgain", "mkAttemptAgain", "write", "release", "emit", "finally", "close",
   "rmAttempt", "rmTask", "rmQuery", "done"}

(* The type invariant: rows, charges and directories keep their types, and no   *)
(* counter goes below zero (memory.py 37-44, operators.py 416-418).              *)
TypeOK ==
  /\ pc       \in [Tasks -> Places]
  /\ back     \in [Tasks -> {"retry", "read", "emit", "finally", "done"}]
  /\ input    \in [Tasks -> 0 .. NRows] /\ rows \in [Tasks -> 0 .. NRows]
  /\ spilled  \in [Tasks -> 0 .. NRows]
  /\ row      \in [Tasks -> Charges \cup {0}]
  /\ reserved \in [Tasks -> Nat] /\ account \in [Tasks -> Nat] /\ query \in Nat
  /\ queryDir \in BOOLEAN
  /\ taskDir  \in [Tasks -> BOOLEAN] /\ attemptDir \in [Tasks -> BOOLEAN]
  /\ error    \in [Tasks -> {"none", "cancelled", "disk", "directory"}]

Init ==
  /\ pc         = [t \in Tasks |-> "read"]
  /\ back       = [t \in Tasks |-> "read"]
  /\ input      = [t \in Tasks |-> NRows]
  /\ row        = [t \in Tasks |-> 0]
  /\ rows       = [t \in Tasks |-> 0]
  /\ reserved   = [t \in Tasks |-> 0]
  /\ spilled    = [t \in Tasks |-> 0]
  /\ account    = [t \in Tasks |-> 0]
  /\ query      = 0
  /\ queryDir   = FALSE
  /\ taskDir    = [t \in Tasks |-> FALSE]
  /\ attemptDir = [t \in Tasks |-> FALSE]
  /\ error      = [t \in Tasks |-> "none"]

Goto(t, place) == pc' = [pc EXCEPT ![t] = place]

-----------------------------------------------------------------------------
(* The accounts *)

(* Mutant: only the attempt's own account is asked. *)
FitsOwn(t, size) == account[t] + size <= TaskLimit

(* No account of the chain would exceed its limit. *)
Fits(t, size) ==
  /\ account[t] + size <= TaskLimit
  /\ query + size <= QueryLimit

Reserve(t, size) ==
  /\ account'  = [account EXCEPT ![t] = @ + size]
  /\ reserved' = [reserved EXCEPT ![t] = @ + size]
  /\ query'    = query + size

Release(t, size) ==
  /\ account' = [account EXCEPT ![t] = @ - size]
  /\ query'   = query - size

-----------------------------------------------------------------------------
(* _external_sorted_rows *)

ReadRow(t) ==
  /\ pc[t] = "read"
  /\ input[t] > 0
  /\ \E c \in Charges : row' = [row EXCEPT ![t] = c]
  /\ input' = [input EXCEPT ![t] = @ - 1]
  /\ Goto(t, "reserve")
  /\ UNCHANGED <<back, rows, reserved, spilled, account, query, dirs, error>>

(* After the last row: what is in memory becomes a run too, if there are runs. *)
ReadEnd(t) ==
  /\ pc[t] = "read"
  /\ input[t] = 0
  /\ IF spilled[t] = 0
       THEN Goto(t, "emit") /\ back' = back
       ELSE Goto(t, "spill") /\ back' = [back EXCEPT ![t] = "emit"]
  /\ UNCHANGED <<input, spilled, memory, dirs, error>>

(* try_reserve accepts the charge, at the first or the second attempt. *)
KeepRow(t) ==
  /\ pc[t] \in {"reserve", "retry"}
  /\ Fits(t, row[t])
  /\ Reserve(t, row[t])
  /\ rows' = [rows EXCEPT ![t] = @ + 1]
  /\ row'  = [row EXCEPT ![t] = 0]
  /\ Goto(t, "read")
  /\ UNCHANGED <<back, input, spilled, dirs, error>>

SpillFirst(t) ==
  /\ pc[t] = "reserve"
  /\ ~Fits(t, row[t])
  /\ Goto(t, "spill")
  /\ back' = [back EXCEPT ![t] = "retry"]
  /\ UNCHANGED <<input, spilled, memory, dirs, error>>

(* Mutant: a row that does not fit is tried again and again. *)
SpillAloneNever(t) ==
  /\ pc[t] = "retry"
  /\ ~Fits(t, row[t])
  /\ UNCHANGED vars

(* Mutant: that row is dropped. *)
SpillAloneDrops(t) ==
  /\ pc[t] = "retry"
  /\ ~Fits(t, row[t])
  /\ row'  = [row EXCEPT ![t] = 0]
  /\ Goto(t, "read")
  /\ UNCHANGED <<back, input, rows, reserved, spilled, account, query, dirs, error>>

(* Mutant: what is in memory, nothing, is spilled once more. *)
SpillAloneSpillsAgain(t) ==
  /\ pc[t] = "retry"
  /\ ~Fits(t, row[t])
  /\ Goto(t, "spill")
  /\ back' = [back EXCEPT ![t] = "retry"]
  /\ UNCHANGED <<input, spilled, memory, dirs, error>>

(* Refused again, with nothing of its own in memory: the row is a run by itself. *)
SpillAlone(t) ==
  /\ pc[t] = "retry"
  /\ ~Fits(t, row[t])
  /\ rows' = [rows EXCEPT ![t] = @ + 1]
  /\ row'  = [row EXCEPT ![t] = 0]
  /\ Goto(t, "spill")
  /\ back' = [back EXCEPT ![t] = "read"]
  /\ UNCHANGED <<input, reserved, spilled, account, query, dirs, error>>

(* spill_run *)
Spill(t) ==
  /\ pc[t] = "spill"
  /\ Goto(t, IF rows[t] = 0 THEN back[t] ELSE "mkAttempt")
  /\ UNCHANGED <<back, input, spilled, memory, dirs, error>>

Spilled(t) ==
  /\ pc[t] = "release"
  /\ spilled'  = [spilled EXCEPT ![t] = @ + rows[t]]
  /\ rows'     = [rows EXCEPT ![t] = 0]
  /\ Release(t, reserved[t])
  /\ reserved' = [reserved EXCEPT ![t] = 0]
  /\ Goto(t, back[t])
  /\ UNCHANGED <<back, input, row, dirs, error>>

(* All rows have been merged and handed on. *)
Emit(t) ==
  /\ pc[t] = "emit"
  /\ Goto(t, "finally")
  /\ UNCHANGED <<back, input, spilled, memory, dirs, error>>

(* The query is cancelled: check_cancelled raises, also when two rows are compared. *)
Cancelled(t) ==
  /\ \/ pc[t] \in {"read", "emit"}
     \/ pc[t] = "spill" /\ rows[t] > 1
  /\ Goto(t, "finally")
  /\ error' = [error EXCEPT ![t] = "cancelled"]
  /\ UNCHANGED <<back, input, spilled, memory, dirs>>

Finally(t) ==
  /\ pc[t] = "finally"
  /\ Release(t, reserved[t])
  /\ reserved' = [reserved EXCEPT ![t] = 0]
  /\ Goto(t, "close")
  /\ UNCHANGED <<back, input, row, rows, spilled, dirs, error>>

(* ExecutionContext.close *)
Close(t) ==
  /\ pc[t] = "close"
  /\ Release(t, account[t])
  /\ Goto(t, "rmAttempt")
  /\ back' = [back EXCEPT ![t] = "done"]
  /\ UNCHANGED <<input, row, rows, reserved, spilled, dirs, error>>

-----------------------------------------------------------------------------
(* TempFileManager *)

(* An OSError in write_table: cleanup, then the error reaches the sort. *)
SpillFails(t, why) ==
  /\ Goto(t, "rmAttempt")
  /\ back'  = [back EXCEPT ![t] = "finally"]
  /\ error' = [error EXCEPT ![t] = why]

(* mkdir(parents=True, exist_ok=True): from the attempt's directory up to the   *)
(* one that can be made, then down again, where a missing parent is an error.    *)
MkAttempt(t) ==
  /\ pc[t] = "mkAttempt"
  /\ IF taskDir[t]
       THEN attemptDir' = [attemptDir EXCEPT ![t] = TRUE] /\ Goto(t, "write")
       ELSE attemptDir' = attemptDir /\ Goto(t, "mkTask")
  /\ UNCHANGED <<back, input, spilled, memory, queryDir, taskDir, error>>

MkTask(t) ==
  /\ pc[t] = "mkTask"
  /\ IF queryDir
       THEN taskDir' = [taskDir EXCEPT ![t] = TRUE] /\ Goto(t, "mkAttemptAgain")
       ELSE taskDir' = taskDir /\ Goto(t, "mkQuery")
  /\ UNCHANGED <<back, input, spilled, memory, queryDir, attemptDir, error>>

(* If another attempt has made it, it is looked at once more. *)
MkQuery(t) ==
  /\ pc[t] = "mkQuery"
  /\ queryDir' = TRUE
  /\ Goto(t, IF queryDir THEN "isDir" ELSE "mkTaskAgain")
  /\ UNCHANGED <<back, input, spilled, memory, taskDir, attemptDir, error>>

IsDir(t) ==
  /\ pc[t] = "isDir"
  /\ IF queryDir THEN Goto(t, "mkTaskAgain") /\ UNCHANGED <<back, error>>
                 ELSE SpillFails(t, "directory")
  /\ UNCHANGED <<input, spilled, memory, dirs>>

MkTaskAgain(t) ==
  /\ pc[t] = "mkTaskAgain"
  /\ IF queryDir
       THEN /\ taskDir' = [taskDir EXCEPT ![t] = TRUE]
            /\ Goto(t, "mkAttemptAgain") /\ UNCHANGED <<back, error>>
       ELSE taskDir' = taskDir /\ SpillFails(t, "directory")
  /\ UNCHANGED <<input, spilled, memory, queryDir, attemptDir>>

MkAttemptAgain(t) ==
  /\ pc[t] = "mkAttemptAgain"
  /\ attemptDir' = [attemptDir EXCEPT ![t] = TRUE]
  /\ Goto(t, "write")
  /\ UNCHANGED <<back, input, spilled, memory, queryDir, taskDir, error>>

WriteRun(t) ==
  /\ pc[t] = "write"
  /\ Goto(t, "release")
  /\ UNCHANGED <<back, input, spilled, memory, dirs, error>>

DiskFull(t) ==
  /\ pc[t] = "write"
  /\ SpillFails(t, "disk")
  /\ UNCHANGED <<input, spilled, memory, dirs>>

(* cleanup: rmtree of the attempt's directory, then rmdir of its parents. *)
RmAttempt(t) ==
  /\ pc[t] = "rmAttempt"
  /\ attemptDir' = [attemptDir EXCEPT ![t] = FALSE]
  /\ Goto(t, "rmTask")
  /\ UNCHANGED <<back, input, spilled, memory, queryDir, taskDir, error>>

RmTask(t) ==
  /\ pc[t] = "rmTask"
  /\ taskDir' = [taskDir EXCEPT ![t] = FALSE]
  /\ Goto(t, "rmQuery")
  /\ UNCHANGED <<back, input, spilled, memory, queryDir, attemptDir, error>>

(* Mutant: the query's directory is removed by the attempts that succeed. *)
RmQueryIfOK(t) ==
  /\ pc[t] = "rmQuery"
  /\ queryDir' = (queryDir /\ (error[t] # "none" \/ \E u \in Tasks : taskDir[u]))
  /\ Goto(t, back[t])
  /\ UNCHANGED <<back, input, spilled, memory, taskDir, attemptDir, error>>

(* rmdir fails, silently, on a directory that is not empty. *)
RmQuery(t) ==
  /\ pc[t] = "rmQuery"
  /\ queryDir' = (queryDir /\ \E u \in Tasks : taskDir[u])
  /\ Goto(t, back[t])
  /\ UNCHANGED <<back, input, spilled, memory, taskDir, attemptDir, error>>

Done == (\A t \in Tasks : pc[t] = "done") /\ UNCHANGED vars

Step(t) ==
  \/ ReadRow(t) \/ ReadEnd(t) \/ KeepRow(t) \/ SpillFirst(t) \/ SpillAlone(t)
  \/ Spill(t) \/ Spilled(t) \/ Emit(t) \/ Finally(t) \/ Close(t)
  \/ MkAttempt(t) \/ MkTask(t) \/ MkQuery(t) \/ IsDir(t) \/ MkTaskAgain(t)
  \/ MkAttemptAgain(t) \/ WriteRun(t) \/ DiskFull(t)
  \/ RmAttempt(t) \/ RmTask(t) \/ RmQuery(t)

Next == (\E t \in Tasks : Step(t) \/ Cancelled(t)) \/ Done

Spec == Init /\ [][Next]_vars

(* The operating system runs every thread; nobody has to cancel. *)
FairSpec == Spec /\ \A t \in Tasks : WF_vars(Step(t))

-----------------------------------------------------------------------------
(* The accounts never exceed their limits, and the query's holds exactly what   *)
(* its attempts hold, whichever threads reserve, release and fail in between     *)
(* (memory.py 55-97).                                                            *)
BudgetsHold ==
  /\ query <= QueryLimit
  /\ query = MapThenSumSet(LAMBDA t : account[t], Tasks)
  /\ \A t \in Tasks : account[t] <= TaskLimit

(* A sort that hands on its result hands on every row it has read, from runs    *)
(* and memory together, each once (operators.py 420-482).                        *)
NoRowIsLost ==
  \A t \in Tasks : pc[t] = "emit" => rows[t] + spilled[t] = NRows

(* When all attempts have ended, however they did, nothing is charged to the    *)
(* query and no directory of it is left (operators.py 127-134, memory.py 167-173). *)
NothingIsLeft ==
  (\A t \in Tasks : pc[t] = "done") =>
    /\ query = 0 /\ ~queryDir
    /\ \A t \in Tasks : ~taskDir[t] /\ ~attemptDir[t]

(* Every sort ends: rows that no budget admits, and budgets that other attempts *)
(* use up, make it spill, never wait (operators.py 454-461).                     *)
EverySortEnds == \A t \in Tasks : <>(pc[t] = "done")

(* How far an attempt is from its end. A spill_run lies before the place it     *)
(* returns to, a cleanup too, and a row is worth more than all the places one    *)
(* row can lead through.                                                         *)
SpillRank == [release |-> 1, write |-> 2, mkAttemptAgain |-> 3, mkTaskAgain |-> 4, isDir |-> 5,
              mkQuery |-> 6, mkTask |-> 7, mkAttempt |-> 8, spill |-> 9]
CleanRank == [rmQuery |-> 1, rmTask |-> 2, rmAttempt |-> 3]
PlaceRank == [done |-> 0, close |-> 4, finally |-> 5, emit |-> 9, read |-> 19, retry |-> 29, reserve |-> 39]

Level(place, to) ==
  CASE place \in DOMAIN PlaceRank -> PlaceRank[place]
    [] place \in DOMAIN SpillRank -> PlaceRank[to] + SpillRank[place]
    [] place \in DOMAIN CleanRank -> PlaceRank[to] + CleanRank[place]

Rank(t) == 21 * input[t] + Level(pc[t], back[t])

(* Every step of an attempt brings it nearer to its end, and no step of another *)
(* one sets it back: however the budget is used up and whatever fails, a sort    *)
(* takes at most 21 steps per row and 19 more (operators.py 389-482, memory.py   *)
(* 113-173).                                                                     *)
SortsAdvance ==
  [][\A t \in Tasks : \/ Rank(t)' < Rank(t)
                      \/ pc'[t] = pc[t] /\ Rank(t)' = Rank(t)]_vars

(* Temporary directories are isolated by attempt ("临时目录按 query/task/attempt *)
(* 隔离", docs/architecture.md 118): an attempt fails to spill only if the disk   *)
(* fails, never by what other attempts do (memory.py 142-173).  The code does    *)
(* not satisfy this.                                                             *)
SpillsAreIsolated == \A t \in Tasks : error[t] # "directory"
=============================================================================
