-------------------------- MODULE SpillMemory_proofs --------------------------
(***************************************************************************)
(* Proofs about the memory accounts and spill files, for any number of     *)
(* attempts and rows, all charges and all limits.                          *)
(***************************************************************************)
EXTENDS SpillMemory, FiniteSetTheorems, TLAPS

(* Where an attempt has a sort under way that can still succeed, and where  *)
(* in it a run is written.                                                  *)
Spilling == {"spill", "mkAttempt", "mkTask", "mkQuery", "isDir", "mkTaskAgain",
             "mkAttemptAgain", "write", "release"}
Sorting  == {"read", "reserve", "retry", "emit"} \cup Spilling
Removing == {"rmAttempt", "rmTask", "rmQuery"}

InHand(t) == IF row[t] = 0 THEN 0 ELSE 1

(* Every row is in the input, in hand, in memory or in a run. *)
Rows(t) ==
  pc[t] \in Sorting => input[t] + InHand(t) + rows[t] + spilled[t] = NRows

(* There is a row in hand only while it is being reserved. *)
Hand(t) ==
  /\ pc[t] \in {"read", "emit"} => row[t] = 0
  /\ pc[t] \in {"reserve", "retry"} => row[t] # 0
  /\ pc[t] = "emit" => input[t] = 0
  /\ pc[t] \in Spilling =>
       /\ back[t] \in {"retry", "read", "emit"}
       /\ back[t] = "retry" <=> row[t] # 0
       /\ back[t] = "emit" => input[t] = 0

(* The attempt's account holds what its rows are charged, and nothing after *)
(* the sort.                                                                *)
Charged(t) ==
  /\ account[t] = reserved[t]
  /\ account[t] <= TaskLimit
  /\ pc[t] \in {"close", "done"} => account[t] = 0
  /\ pc[t] \in Removing => back[t] \in {"finally", "done"}
  /\ pc[t] \in Removing /\ back[t] = "done" => account[t] = 0

(* An attempt that has passed its rmdir has no directory. *)
Removed(t) ==
  /\ pc[t] \in {"rmTask", "rmQuery", "done"} => ~attemptDir[t]
  /\ pc[t] \in {"rmQuery", "done"} => ~taskDir[t]

(* The query's directory is there only while some attempt is still to end. *)
Kept == queryDir => \E t \in Tasks : pc[t] # "done"

Total(f) == MapThenSumSet(LAMBDA t : f[t], Tasks)

TaskInv(t) == Rows(t) /\ Hand(t) /\ Charged(t) /\ Removed(t)

IndInv ==
  /\ TypeOK
  /\ query = Total(account) /\ query <= QueryLimit
  /\ Kept
  /\ \A t \in Tasks : TaskInv(t)

-----------------------------------------------------------------------------
(* Sums over the attempts. Induction is by the least counterexample: every  *)
(* non-empty set of natural numbers has a least element.                    *)

LEMMA Least == ASSUME NEW N \in SUBSET Nat, N # {} PROVE \E n \in N : \A m \in N : n <= m
<1> DEFINE R == OpToRel(<, Nat)
<1>1. IsWellFoundedOn(R, Nat)
  BY NatLessThanWellFounded
<1>2. \A x, y \in Nat : <<y, x>> \in R <=> y < x
  BY DEF OpToRel
<1> HIDE DEF R
<1>3. PICK n \in N : \A m \in N : ~(<<m, n>> \in R)
  BY <1>1, WFMin
<1>4. \A m \in N : ~(m < n)
  BY <1>2, <1>3
<1> QED BY <1>4

LEMMA CountUp ==
  ASSUME NEW G \in SUBSET Nat, 0 \in G, \A n \in G : n + 1 \in G
  PROVE  G = Nat
<1> SUFFICES ASSUME Nat \ G # {} PROVE FALSE
  OBVIOUS
<1>1. PICK n \in Nat \ G : \A m \in Nat \ G : n <= m
  BY Least
<1>2. n - 1 \in Nat /\ n - 1 \in G
  BY <1>1
<1> QED BY <1>1, <1>2

(* The element of a set that the sum takes first. *)
Pick(s) == CHOOSE x \in s : TRUE

LEMMA WithoutPick ==
  ASSUME NEW s \in SUBSET Tasks, s # {}
  PROVE  /\ Pick(s) \in s /\ s \ {Pick(s)} \in SUBSET Tasks
         /\ Cardinality(s) \in Nat /\ Cardinality(s \ {Pick(s)}) = Cardinality(s) - 1
         /\ Cardinality(s) > 0
<1>1. Pick(s) \in s
  BY DEF Pick
<1>2. IsFiniteSet(s)
  BY TasksAssumption, FS_Subset
<1>3. Cardinality(s) \in Nat /\ Cardinality(s) # 0
  BY <1>2, FS_CardinalityType, FS_EmptySet
<1>4. Cardinality(s \ {Pick(s)}) = Cardinality(s) - 1
  BY <1>1, <1>2, FS_RemoveElement
<1> QED BY <1>1, <1>3, <1>4

(* What holds of the empty set, and of a set when it holds without its first *)
(* element, holds of all sets of attempts.                                   *)
LEMMA SetsByPick ==
  ASSUME NEW G \in SUBSET (SUBSET Tasks), {} \in G,
         \A s \in SUBSET Tasks : s # {} /\ s \ {Pick(s)} \in G => s \in G
  PROVE  G = SUBSET Tasks
<1> DEFINE Below == {n \in Nat : \A s \in SUBSET Tasks : Cardinality(s) <= n => s \in G}
<1>0. \A s \in SUBSET Tasks : IsFiniteSet(s) /\ Cardinality(s) \in Nat /\ (Cardinality(s) = 0 <=> s = {})
  BY TasksAssumption, FS_Subset, FS_CardinalityType, FS_EmptySet
<1>1. 0 \in Below
  BY <1>0
<1>2. ASSUME NEW n \in Below PROVE n + 1 \in Below
  <2> SUFFICES ASSUME NEW s \in SUBSET Tasks, Cardinality(s) <= n + 1, s # {} PROVE s \in G
    BY <1>0
  <2>1. s \ {Pick(s)} \in SUBSET Tasks /\ Cardinality(s \ {Pick(s)}) <= n
    BY WithoutPick
  <2>2. s \ {Pick(s)} \in G
    BY <2>1
  <2> QED BY <2>2
<1>3. Below = Nat
  <2>1. Below \in SUBSET Nat
    OBVIOUS
  <2> HIDE DEF Below
  <2> QED BY <1>1, <1>2, <2>1, CountUp
<1>4. ASSUME NEW s \in SUBSET Tasks PROVE s \in G
  <2>1. Cardinality(s) \in Below
    BY <1>0, <1>3
  <2> QED BY <1>0, <2>1
<1> QED BY <1>4

(* h sums f over the sets in D. *)
Sums(h, f, D) == \A s \in D : h[s] = IF s = {} THEN 0 ELSE f[Pick(s)] + h[s \ {Pick(s)}]

Small(n) == {s \in SUBSET Tasks : Cardinality(s) <= n}

LEMMA SumsExist ==
  ASSUME NEW f \in [Tasks -> Nat]
  PROVE  \E h \in [SUBSET Tasks -> Nat] : Sums(h, f, SUBSET Tasks)
<1> DEFINE Have == {n \in Nat : \E h \in [Small(n) -> Nat] : Sums(h, f, Small(n))}
<1>0. \A s \in SUBSET Tasks : IsFiniteSet(s) /\ Cardinality(s) \in Nat /\ (Cardinality(s) = 0 <=> s = {})
  BY TasksAssumption, FS_Subset, FS_CardinalityType, FS_EmptySet
<1>1. 0 \in Have
  <2>1. Small(0) = {{}}
    BY <1>0 DEF Small
  <2>2. [s \in {{}} |-> 0] \in [Small(0) -> Nat] /\ Sums([s \in {{}} |-> 0], f, Small(0))
    BY <2>1 DEF Sums
  <2> QED BY <2>2
<1>2. ASSUME NEW n \in Have PROVE n + 1 \in Have
  <2>1. n \in Nat
    OBVIOUS
  <2>2. PICK g \in [Small(n) -> Nat] : Sums(g, f, Small(n))
    OBVIOUS
  <2> DEFINE h == [s \in Small(n + 1) |-> IF s = {} THEN 0 ELSE f[Pick(s)] + g[s \ {Pick(s)}]]
  <2>3. ASSUME NEW s \in Small(n + 1), s # {}
        PROVE  Pick(s) \in Tasks /\ s \ {Pick(s)} \in Small(n) /\ s \ {Pick(s)} \in Small(n + 1)
    BY <2>1, <2>3, WithoutPick DEF Small
  <2>4. h \in [Small(n + 1) -> Nat]
    <3>1. ASSUME NEW s \in Small(n + 1), s # {} PROVE f[Pick(s)] + g[s \ {Pick(s)}] \in Nat
      <4>1. f[Pick(s)] \in Nat /\ g[s \ {Pick(s)}] \in Nat
        BY <2>2, <2>3, <3>1
      <4> QED BY <4>1
    <3> QED BY <3>1
  <2>5. \A s \in Small(n) : s \in Small(n + 1) => h[s] = g[s]
    BY <2>2 DEF Sums
  <2>6. Sums(h, f, Small(n + 1))
    BY <2>3, <2>5 DEF Sums
  <2>7. \E x \in [Small(n + 1) -> Nat] : Sums(x, f, Small(n + 1))
    <3> HIDE DEF h
    <3> QED BY <2>4, <2>6
  <2>8. n + 1 \in Nat
    BY <2>1
  <2> QED BY <2>7, <2>8
<1>3. Have = Nat
  <2>1. Have \in SUBSET Nat
    OBVIOUS
  <2> HIDE DEF Have
  <2> QED BY <1>1, <1>2, <2>1, CountUp
<1>4. Cardinality(Tasks) \in Have /\ Small(Cardinality(Tasks)) = SUBSET Tasks
  BY <1>3, TasksAssumption, FS_CardinalityType, FS_Subset DEF Small
<1> QED BY <1>4

(* MapThenSumSet is such a sum. *)
LEMMA TotalSums ==
  ASSUME NEW f \in [Tasks -> Nat]
  PROVE  \E h \in [SUBSET Tasks -> Nat] : Sums(h, f, SUBSET Tasks) /\ Total(f) = h[Tasks]
<1> DEFINE Body(h) == [s \in SUBSET Tasks |-> IF s = {} THEN 0 ELSE f[Pick(s)] + h[s \ {Pick(s)}]]
           it == CHOOSE h : h = Body(h)
<1>1. \E h : h = Body(h)
  <2>1. PICK h \in [SUBSET Tasks -> Nat] : Sums(h, f, SUBSET Tasks)
    BY SumsExist
  <2>2. h = Body(h)
    BY <2>1 DEF Sums
  <2> QED BY <2>2
<1>2. it = Body(it)
  BY <1>1
<1>3. Total(f) = it[Tasks]
  BY DEF Total, MapThenSumSet, MapThenFoldSet, Pick
<1> HIDE DEF it
<1>4. Sums(it, f, SUBSET Tasks)
  BY <1>2 DEF Sums
<1>5. {s \in SUBSET Tasks : it[s] \in Nat} = SUBSET Tasks
  <2> DEFINE G == {s \in SUBSET Tasks : it[s] \in Nat}
  <2>1. {} \in G
    <3>1. it[{}] = 0
      BY <1>4 DEF Sums
    <3> QED BY <3>1
  <2>2. ASSUME NEW s \in SUBSET Tasks, s # {}, s \ {Pick(s)} \in G PROVE s \in G
    <3>1. it[s] = f[Pick(s)] + it[s \ {Pick(s)}]
      BY <1>4, <2>2 DEF Sums
    <3>2. f[Pick(s)] \in Nat /\ it[s \ {Pick(s)}] \in Nat
      BY <2>2, WithoutPick
    <3> QED BY <3>1, <3>2
  <2>3. G \in SUBSET (SUBSET Tasks)
    OBVIOUS
  <2> HIDE DEF G
  <2>4. G = SUBSET Tasks
    BY <2>1, <2>2, <2>3, SetsByPick
  <2> QED BY <2>4 DEF G
<1>6. it \in [SUBSET Tasks -> Nat]
  BY <1>2, <1>5
<1> QED BY <1>3, <1>4, <1>6

(* A sum changes by what one summand changes. *)
LEMMA TotalChange ==
  ASSUME NEW f \in [Tasks -> Nat], NEW g \in [Tasks -> Nat], NEW t \in Tasks,
         \A u \in Tasks \ {t} : g[u] = f[u]
  PROVE  Total(f) \in Nat /\ Total(g) \in Nat /\ Total(g) + f[t] = Total(f) + g[t]
<1>1. PICK hf \in [SUBSET Tasks -> Nat] : Sums(hf, f, SUBSET Tasks) /\ Total(f) = hf[Tasks]
  BY TotalSums
<1>2. PICK hg \in [SUBSET Tasks -> Nat] : Sums(hg, g, SUBSET Tasks) /\ Total(g) = hg[Tasks]
  BY TotalSums
<1> DEFINE G == {s \in SUBSET Tasks : IF t \in s THEN hg[s] + f[t] = hf[s] + g[t] ELSE hg[s] = hf[s]}
<1>3. {} \in G
  BY <1>1, <1>2 DEF Sums
<1>4. ASSUME NEW s \in SUBSET Tasks, s # {}, s \ {Pick(s)} \in G PROVE s \in G
  <2> DEFINE x == Pick(s)
             r == s \ {Pick(s)}
  <2>1. hf[s] = f[x] + hf[r] /\ hg[s] = g[x] + hg[r]
    BY <1>1, <1>2, <1>4 DEF Sums
  <2>2. x \in s /\ x \in Tasks /\ r \in SUBSET Tasks
    BY <1>4, WithoutPick
  <2>3. hf[r] \in Nat /\ hg[r] \in Nat /\ f[x] \in Nat /\ g[x] \in Nat /\ f[t] \in Nat /\ g[t] \in Nat
    BY <2>2
  <2>4. CASE x = t
    <3>1. t \in s /\ hg[r] = hf[r]
      BY <1>4, <2>2, <2>4
    <3>2. hg[s] + f[t] = hf[s] + g[t]
      BY <2>1, <2>3, <2>4, <3>1
    <3> QED BY <3>1, <3>2
  <2>5. CASE x # t
    <3>1. g[x] = f[x]
      BY <2>2, <2>5
    <3>2. CASE t \in s
      <4>1. t \in r /\ hg[r] + f[t] = hf[r] + g[t]
        BY <1>4, <2>5, <3>2
      <4>2. hg[s] + f[t] = hf[s] + g[t]
        BY <2>1, <2>3, <3>1, <4>1
      <4> QED BY <3>2, <4>2
    <3>3. CASE t \notin s
      BY <1>4, <2>1, <3>1, <3>3
    <3> QED BY <3>2, <3>3
  <2> QED BY <2>4, <2>5
<1>5. G \in SUBSET (SUBSET Tasks)
  OBVIOUS
<1>6. G = SUBSET Tasks
  <2> HIDE DEF G
  <2> QED BY <1>3, <1>4, <1>5, SetsByPick
<1>7. Tasks \in G
  BY <1>6
<1> QED BY <1>1, <1>2, <1>7

(* No summand exceeds the sum. *)
LEMMA TotalAtLeast ==
  ASSUME NEW f \in [Tasks -> Nat], NEW t \in Tasks PROVE f[t] <= Total(f)
<1> DEFINE g == [f EXCEPT ![t] = 0]
<1>1. g \in [Tasks -> Nat] /\ g[t] = 0 /\ \A u \in Tasks \ {t} : g[u] = f[u]
  OBVIOUS
<1> HIDE DEF g
<1>2. Total(f) \in Nat /\ Total(g) \in Nat /\ Total(g) + f[t] = Total(f) + 0
  BY <1>1, TotalChange
<1>3. f[t] \in Nat
  OBVIOUS
<1> QED BY <1>2, <1>3

LEMMA TotalZero ==
  ASSUME NEW f \in [Tasks -> Nat], \A t \in Tasks : f[t] = 0 PROVE Total(f) = 0
<1>1. PICK h \in [SUBSET Tasks -> Nat] : Sums(h, f, SUBSET Tasks) /\ Total(f) = h[Tasks]
  BY TotalSums
<1> DEFINE G == {s \in SUBSET Tasks : h[s] = 0}
<1>2. {} \in G
  BY <1>1 DEF Sums
<1>3. ASSUME NEW s \in SUBSET Tasks, s # {}, s \ {Pick(s)} \in G PROVE s \in G
  <2>1. h[s] = f[Pick(s)] + h[s \ {Pick(s)}]
    BY <1>1, <1>3 DEF Sums
  <2>2. f[Pick(s)] = 0 /\ h[s \ {Pick(s)}] = 0
    BY <1>3, WithoutPick
  <2> QED BY <2>1, <2>2
<1>4. G \in SUBSET (SUBSET Tasks)
  OBVIOUS
<1>5. G = SUBSET Tasks
  <2> HIDE DEF G
  <2> QED BY <1>2, <1>3, <1>4, SetsByPick
<1>6. Tasks \in G
  BY <1>5
<1> QED BY <1>1, <1>6

-----------------------------------------------------------------------------
(* The steps of an attempt *)

(* What a step of another attempt leaves alone. *)
Same(t) ==
  UNCHANGED <<pc[t], back[t], input[t], row[t], rows[t], reserved[t], spilled[t],
              account[t], taskDir[t], attemptDir[t]>>

LEMMA FrameKeeps == ASSUME NEW t \in Tasks, TaskInv(t), Same(t) PROVE TaskInv(t)'
BY DEF TaskInv, Same, Rows, Hand, Charged, Removed, InHand

(* One attempt moves on and every other keeps its state. *)
LEMMA OneAttempt ==
  ASSUME IndInv, NEW t \in Tasks, \A u \in Tasks \ {t} : Same(u),
         TypeOK', TaskInv(t)', Kept', query' = Total(account'), query' <= QueryLimit
  PROVE  IndInv'
<1>1. \A u \in Tasks : TaskInv(u)'
  BY FrameKeeps DEF IndInv
<1> QED BY <1>1 DEF IndInv

(* It does not end, and charges nothing. *)
LEMMA PlainKeeps ==
  ASSUME IndInv, NEW t \in Tasks, \A u \in Tasks \ {t} : Same(u),
         TypeOK', Rows(t)', Hand(t)', Charged(t)', Removed(t)',
         pc'[t] # "done", UNCHANGED <<account, query>>
  PROVE  IndInv'
<1>1. Kept'
  BY DEF Kept
<1>2. query' = Total(account') /\ query' <= QueryLimit
  BY DEF IndInv
<1> QED BY <1>1, <1>2, OneAttempt DEF TaskInv

LEMMA ReadRowKeeps == ASSUME IndInv, NEW t \in Tasks, ReadRow(t) PROVE IndInv'
<1>1. TypeOK /\ Rows(t) /\ Hand(t) /\ Charged(t) /\ Removed(t)
  BY DEF IndInv, TaskInv
<1>2. TypeOK'
  BY <1>1, LimitsAssumption, ChargesAssumption DEF ReadRow, Goto, Release, Reserve, SpillFails, memory, dirs, TypeOK, Places, Rows, Hand, Charged, Removed, InHand, Sorting, Spilling, Removing
<1>3. \A u \in Tasks \ {t} : Same(u)
  BY <1>1 DEF ReadRow, Goto, Release, Reserve, SpillFails, memory, dirs, TypeOK, Places, Same
<1>4. Rows(t)' /\ Hand(t)'
  BY <1>1, LimitsAssumption, ChargesAssumption DEF ReadRow, Goto, Release, Reserve, SpillFails, memory, dirs, TypeOK, Places, Rows, Hand, Charged, Removed, InHand, Sorting, Spilling, Removing
<1>5. Charged(t)' /\ Removed(t)' /\ pc'[t] # "done"
  BY <1>1 DEF ReadRow, Goto, Release, Reserve, SpillFails, memory, dirs, TypeOK, Places, Rows, Hand, Charged, Removed, InHand, Sorting, Spilling, Removing
<1>6. UNCHANGED <<account, query>>
  BY DEF ReadRow, Goto, Release, Reserve, SpillFails, memory, dirs
<1> QED BY <1>2, <1>3, <1>4, <1>5, <1>6, PlainKeeps

LEMMA ReadEndKeeps == ASSUME IndInv, NEW t \in Tasks, ReadEnd(t) PROVE IndInv'
<1>1. TypeOK /\ Rows(t) /\ Hand(t) /\ Charged(t) /\ Removed(t)
  BY DEF IndInv, TaskInv
<1>2. TypeOK'
  BY <1>1, LimitsAssumption, ChargesAssumption DEF ReadEnd, Goto, Release, Reserve, SpillFails, memory, dirs, TypeOK, Places, Rows, Hand, Charged, Removed, InHand, Sorting, Spilling, Removing
<1>3. \A u \in Tasks \ {t} : Same(u)
  BY <1>1 DEF ReadEnd, Goto, Release, Reserve, SpillFails, memory, dirs, TypeOK, Places, Same
<1>4. Rows(t)' /\ Hand(t)'
  BY <1>1, LimitsAssumption, ChargesAssumption DEF ReadEnd, Goto, Release, Reserve, SpillFails, memory, dirs, TypeOK, Places, Rows, Hand, Charged, Removed, InHand, Sorting, Spilling, Removing
<1>5. Charged(t)' /\ Removed(t)' /\ pc'[t] # "done"
  BY <1>1 DEF ReadEnd, Goto, Release, Reserve, SpillFails, memory, dirs, TypeOK, Places, Rows, Hand, Charged, Removed, InHand, Sorting, Spilling, Removing
<1>6. UNCHANGED <<account, query>>
  BY DEF ReadEnd, Goto, Release, Reserve, SpillFails, memory, dirs
<1> QED BY <1>2, <1>3, <1>4, <1>5, <1>6, PlainKeeps

LEMMA SpillFirstKeeps == ASSUME IndInv, NEW t \in Tasks, SpillFirst(t) PROVE IndInv'
<1>1. TypeOK /\ Rows(t) /\ Hand(t) /\ Charged(t) /\ Removed(t)
  BY DEF IndInv, TaskInv
<1>2. TypeOK'
  BY <1>1, LimitsAssumption, ChargesAssumption DEF SpillFirst, Goto, Release, Reserve, SpillFails, memory, dirs, TypeOK, Places, Rows, Hand, Charged, Removed, InHand, Sorting, Spilling, Removing
<1>3. \A u \in Tasks \ {t} : Same(u)
  BY <1>1 DEF SpillFirst, Goto, Release, Reserve, SpillFails, memory, dirs, TypeOK, Places, Same
<1>4. Rows(t)' /\ Hand(t)'
  BY <1>1, LimitsAssumption, ChargesAssumption DEF SpillFirst, Goto, Release, Reserve, SpillFails, memory, dirs, TypeOK, Places, Rows, Hand, Charged, Removed, InHand, Sorting, Spilling, Removing
<1>5. Charged(t)' /\ Removed(t)' /\ pc'[t] # "done"
  BY <1>1 DEF SpillFirst, Goto, Release, Reserve, SpillFails, memory, dirs, TypeOK, Places, Rows, Hand, Charged, Removed, InHand, Sorting, Spilling, Removing
<1>6. UNCHANGED <<account, query>>
  BY DEF SpillFirst, Goto, Release, Reserve, SpillFails, memory, dirs
<1> QED BY <1>2, <1>3, <1>4, <1>5, <1>6, PlainKeeps

LEMMA SpillAloneKeeps == ASSUME IndInv, NEW t \in Tasks, SpillAlone(t) PROVE IndInv'
<1>1. TypeOK /\ Rows(t) /\ Hand(t) /\ Charged(t) /\ Removed(t)
  BY DEF IndInv, TaskInv
<1>2. TypeOK'
  BY <1>1, LimitsAssumption, ChargesAssumption DEF SpillAlone, Goto, Release, Reserve, SpillFails, memory, dirs, TypeOK, Places, Rows, Hand, Charged, Removed, InHand, Sorting, Spilling, Removing
<1>3. \A u \in Tasks \ {t} : Same(u)
  BY <1>1 DEF SpillAlone, Goto, Release, Reserve, SpillFails, memory, dirs, TypeOK, Places, Same
<1>4. Rows(t)' /\ Hand(t)'
  BY <1>1, LimitsAssumption, ChargesAssumption DEF SpillAlone, Goto, Release, Reserve, SpillFails, memory, dirs, TypeOK, Places, Rows, Hand, Charged, Removed, InHand, Sorting, Spilling, Removing
<1>5. Charged(t)' /\ Removed(t)' /\ pc'[t] # "done"
  BY <1>1 DEF SpillAlone, Goto, Release, Reserve, SpillFails, memory, dirs, TypeOK, Places, Rows, Hand, Charged, Removed, InHand, Sorting, Spilling, Removing
<1>6. UNCHANGED <<account, query>>
  BY DEF SpillAlone, Goto, Release, Reserve, SpillFails, memory, dirs
<1> QED BY <1>2, <1>3, <1>4, <1>5, <1>6, PlainKeeps

LEMMA SpillKeeps == ASSUME IndInv, NEW t \in Tasks, Spill(t) PROVE IndInv'
<1>1. TypeOK /\ Rows(t) /\ Hand(t) /\ Charged(t) /\ Removed(t)
  BY DEF IndInv, TaskInv
<1>2. TypeOK'
  BY <1>1, LimitsAssumption, ChargesAssumption DEF Spill, Goto, Release, Reserve, SpillFails, memory, dirs, TypeOK, Places, Rows, Hand, Charged, Removed, InHand, Sorting, Spilling, Removing
<1>3. \A u \in Tasks \ {t} : Same(u)
  BY <1>1 DEF Spill, Goto, Release, Reserve, SpillFails, memory, dirs, TypeOK, Places, Same
<1>4. Rows(t)' /\ Hand(t)'
  BY <1>1, LimitsAssumption, ChargesAssumption DEF Spill, Goto, Release, Reserve, SpillFails, memory, dirs, TypeOK, Places, Rows, Hand, Charged, Removed, InHand, Sorting, Spilling, Removing
<1>5. Charged(t)' /\ Removed(t)' /\ pc'[t] # "done"
  BY <1>1 DEF Spill, Goto, Release, Reserve, SpillFails, memory, dirs, TypeOK, Places, Rows, Hand, Charged, Removed, InHand, Sorting, Spilling, Removing
<1>6. UNCHANGED <<account, query>>
  BY DEF Spill, Goto, Release, Reserve, SpillFails, memory, dirs
<1> QED BY <1>2, <1>3, <1>4, <1>5, <1>6, PlainKeeps

LEMMA EmitKeeps == ASSUME IndInv, NEW t \in Tasks, Emit(t) PROVE IndInv'
<1>1. TypeOK /\ Rows(t) /\ Hand(t) /\ Charged(t) /\ Removed(t)
  BY DEF IndInv, TaskInv
<1>2. TypeOK'
  BY <1>1, LimitsAssumption, ChargesAssumption DEF Emit, Goto, Release, Reserve, SpillFails, memory, dirs, TypeOK, Places, Rows, Hand, Charged, Removed, InHand, Sorting, Spilling, Removing
<1>3. \A u \in Tasks \ {t} : Same(u)
  BY <1>1 DEF Emit, Goto, Release, Reserve, SpillFails, memory, dirs, TypeOK, Places, Same
<1>4. Rows(t)' /\ Hand(t)'
  BY <1>1, LimitsAssumption, ChargesAssumption DEF Emit, Goto, Release, Reserve, SpillFails, memory, dirs, TypeOK, Places, Rows, Hand, Charged, Removed, InHand, Sorting, Spilling, Removing
<1>5. Charged(t)' /\ Removed(t)' /\ pc'[t] # "done"
  BY <1>1 DEF Emit, Goto, Release, Reserve, SpillFails, memory, dirs, TypeOK, Places, Rows, Hand, Charged, Removed, InHand, Sorting, Spilling, Removing
<1>6. UNCHANGED <<account, query>>
  BY DEF Emit, Goto, Release, Reserve, SpillFails, memory, dirs
<1> QED BY <1>2, <1>3, <1>4, <1>5, <1>6, PlainKeeps

LEMMA CancelledKeeps == ASSUME IndInv, NEW t \in Tasks, Cancelled(t) PROVE IndInv'
<1>1. TypeOK /\ Rows(t) /\ Hand(t) /\ Charged(t) /\ Removed(t)
  BY DEF IndInv, TaskInv
<1>2. TypeOK'
  BY <1>1, LimitsAssumption, ChargesAssumption DEF Cancelled, Goto, Release, Reserve, SpillFails, memory, dirs, TypeOK, Places, Rows, Hand, Charged, Removed, InHand, Sorting, Spilling, Removing
<1>3. \A u \in Tasks \ {t} : Same(u)
  BY <1>1 DEF Cancelled, Goto, Release, Reserve, SpillFails, memory, dirs, TypeOK, Places, Same
<1>4. Rows(t)' /\ Hand(t)'
  BY <1>1, LimitsAssumption, ChargesAssumption DEF Cancelled, Goto, Release, Reserve, SpillFails, memory, dirs, TypeOK, Places, Rows, Hand, Charged, Removed, InHand, Sorting, Spilling, Removing
<1>5. Charged(t)' /\ Removed(t)' /\ pc'[t] # "done"
  BY <1>1 DEF Cancelled, Goto, Release, Reserve, SpillFails, memory, dirs, TypeOK, Places, Rows, Hand, Charged, Removed, InHand, Sorting, Spilling, Removing
<1>6. UNCHANGED <<account, query>>
  BY DEF Cancelled, Goto, Release, Reserve, SpillFails, memory, dirs
<1> QED BY <1>2, <1>3, <1>4, <1>5, <1>6, PlainKeeps

LEMMA MkAttemptKeeps == ASSUME IndInv, NEW t \in Tasks, MkAttempt(t) PROVE IndInv'
<1>1. TypeOK /\ Rows(t) /\ Hand(t) /\ Charged(t) /\ Removed(t)
  BY DEF IndInv, TaskInv
<1>2. TypeOK'
  BY <1>1, LimitsAssumption, ChargesAssumption DEF MkAttempt, Goto, Release, Reserve, SpillFails, memory, dirs, TypeOK, Places, Rows, Hand, Charged, Removed, InHand, Sorting, Spilling, Removing
<1>3. \A u \in Tasks \ {t} : Same(u)
  BY <1>1 DEF MkAttempt, Goto, Release, Reserve, SpillFails, memory, dirs, TypeOK, Places, Same
<1>4. Rows(t)' /\ Hand(t)'
  BY <1>1, LimitsAssumption, ChargesAssumption DEF MkAttempt, Goto, Release, Reserve, SpillFails, memory, dirs, TypeOK, Places, Rows, Hand, Charged, Removed, InHand, Sorting, Spilling, Removing
<1>5. Charged(t)' /\ Removed(t)' /\ pc'[t] # "done"
  BY <1>1 DEF MkAttempt, Goto, Release, Reserve, SpillFails, memory, dirs, TypeOK, Places, Rows, Hand, Charged, Removed, InHand, Sorting, Spilling, Removing
<1>6. UNCHANGED <<account, query>>
  BY DEF MkAttempt, Goto, Release, Reserve, SpillFails, memory, dirs
<1> QED BY <1>2, <1>3, <1>4, <1>5, <1>6, PlainKeeps

LEMMA MkTaskKeeps == ASSUME IndInv, NEW t \in Tasks, MkTask(t) PROVE IndInv'
<1>1. TypeOK /\ Rows(t) /\ Hand(t) /\ Charged(t) /\ Removed(t)
  BY DEF IndInv, TaskInv
<1>2. TypeOK'
  BY <1>1, LimitsAssumption, ChargesAssumption DEF MkTask, Goto, Release, Reserve, SpillFails, memory, dirs, TypeOK, Places, Rows, Hand, Charged, Removed, InHand, Sorting, Spilling, Removing
<1>3. \A u \in Tasks \ {t} : Same(u)
  BY <1>1 DEF MkTask, Goto, Release, Reserve, SpillFails, memory, dirs, TypeOK, Places, Same
<1>4. Rows(t)' /\ Hand(t)'
  BY <1>1, LimitsAssumption, ChargesAssumption DEF MkTask, Goto, Release, Reserve, SpillFails, memory, dirs, TypeOK, Places, Rows, Hand, Charged, Removed, InHand, Sorting, Spilling, Removing
<1>5. Charged(t)' /\ Removed(t)' /\ pc'[t] # "done"
  BY <1>1 DEF MkTask, Goto, Release, Reserve, SpillFails, memory, dirs, TypeOK, Places, Rows, Hand, Charged, Removed, InHand, Sorting, Spilling, Removing
<1>6. UNCHANGED <<account, query>>
  BY DEF MkTask, Goto, Release, Reserve, SpillFails, memory, dirs
<1> QED BY <1>2, <1>3, <1>4, <1>5, <1>6, PlainKeeps

LEMMA MkQueryKeeps == ASSUME IndInv, NEW t \in Tasks, MkQuery(t) PROVE IndInv'
<1>1. TypeOK /\ Rows(t) /\ Hand(t) /\ Charged(t) /\ Removed(t)
  BY DEF IndInv, TaskInv
<1>2. TypeOK'
  BY <1>1, LimitsAssumption, ChargesAssumption DEF MkQuery, Goto, Release, Reserve, SpillFails, memory, dirs, TypeOK, Places, Rows, Hand, Charged, Removed, InHand, Sorting, Spilling, Removing
<1>3. \A u \in Tasks \ {t} : Same(u)
  BY <1>1 DEF MkQuery, Goto, Release, Reserve, SpillFails, memory, dirs, TypeOK, Places, Same
<1>4. Rows(t)' /\ Hand(t)'
  BY <1>1, LimitsAssumption, ChargesAssumption DEF MkQuery, Goto, Release, Reserve, SpillFails, memory, dirs, TypeOK, Places, Rows, Hand, Charged, Removed, InHand, Sorting, Spilling, Removing
<1>5. Charged(t)' /\ Removed(t)' /\ pc'[t] # "done"
  BY <1>1 DEF MkQuery, Goto, Release, Reserve, SpillFails, memory, dirs, TypeOK, Places, Rows, Hand, Charged, Removed, InHand, Sorting, Spilling, Removing
<1>6. UNCHANGED <<account, query>>
  BY DEF MkQuery, Goto, Release, Reserve, SpillFails, memory, dirs
<1> QED BY <1>2, <1>3, <1>4, <1>5, <1>6, PlainKeeps

LEMMA IsDirKeeps == ASSUME IndInv, NEW t \in Tasks, IsDir(t) PROVE IndInv'
<1>1. TypeOK /\ Rows(t) /\ Hand(t) /\ Charged(t) /\ Removed(t)
  BY DEF IndInv, TaskInv
<1>2. TypeOK'
  BY <1>1, LimitsAssumption, ChargesAssumption DEF IsDir, Goto, Release, Reserve, SpillFails, memory, dirs, TypeOK, Places, Rows, Hand, Charged, Removed, InHand, Sorting, Spilling, Removing
<1>3. \A u \in Tasks \ {t} : Same(u)
  BY <1>1 DEF IsDir, Goto, Release, Reserve, SpillFails, memory, dirs, TypeOK, Places, Same
<1>4. Rows(t)' /\ Hand(t)'
  BY <1>1, LimitsAssumption, ChargesAssumption DEF IsDir, Goto, Release, Reserve, SpillFails, memory, dirs, TypeOK, Places, Rows, Hand, Charged, Removed, InHand, Sorting, Spilling, Removing
<1>5. Charged(t)' /\ Removed(t)' /\ pc'[t] # "done"
  BY <1>1 DEF IsDir, Goto, Release, Reserve, SpillFails, memory, dirs, TypeOK, Places, Rows, Hand, Charged, Removed, InHand, Sorting, Spilling, Removing
<1>6. UNCHANGED <<account, query>>
  BY DEF IsDir, Goto, Release, Reserve, SpillFails, memory, dirs
<1> QED BY <1>2, <1>3, <1>4, <1>5, <1>6, PlainKeeps

LEMMA MkTaskAgainKeeps == ASSUME IndInv, NEW t \in Tasks, MkTaskAgain(t) PROVE IndInv'
<1>1. TypeOK /\ Rows(t) /\ Hand(t) /\ Charged(t) /\ Removed(t)
  BY DEF IndInv, TaskInv
<1>2. TypeOK'
  BY <1>1, LimitsAssumption, ChargesAssumption DEF MkTaskAgain, Goto, Release, Reserve, SpillFails, memory, dirs, TypeOK, Places, Rows, Hand, Charged, Removed, InHand, Sorting, Spilling, Removing
<1>3. \A u \in Tasks \ {t} : Same(u)
  BY <1>1 DEF MkTaskAgain, Goto, Release, Reserve, SpillFails, memory, dirs, TypeOK, Places, Same
<1>4. Rows(t)' /\ Hand(t)'
  BY <1>1, LimitsAssumption, ChargesAssumption DEF MkTaskAgain, Goto, Release, Reserve, SpillFails, memory, dirs, TypeOK, Places, Rows, Hand, Charged, Removed, InHand, Sorting, Spilling, Removing
<1>5. Charged(t)' /\ Removed(t)' /\ pc'[t] # "done"
  BY <1>1 DEF MkTaskAgain, Goto, Release, Reserve, SpillFails, memory, dirs, TypeOK, Places, Rows, Hand, Charged, Removed, InHand, Sorting, Spilling, Removing
<1>6. UNCHANGED <<account, query>>
  BY DEF MkTaskAgain, Goto, Release, Reserve, SpillFails, memory, dirs
<1> QED BY <1>2, <1>3, <1>4, <1>5, <1>6, PlainKeeps

LEMMA MkAttemptAgainKeeps == ASSUME IndInv, NEW t \in Tasks, MkAttemptAgain(t) PROVE IndInv'
<1>1. TypeOK /\ Rows(t) /\ Hand(t) /\ Charged(t) /\ Removed(t)
  BY DEF IndInv, TaskInv
<1>2. TypeOK'
  BY <1>1, LimitsAssumption, ChargesAssumption DEF MkAttemptAgain, Goto, Release, Reserve, SpillFails, memory, dirs, TypeOK, Places, Rows, Hand, Charged, Removed, InHand, Sorting, Spilling, Removing
<1>3. \A u \in Tasks \ {t} : Same(u)
  BY <1>1 DEF MkAttemptAgain, Goto, Release, Reserve, SpillFails, memory, dirs, TypeOK, Places, Same
<1>4. Rows(t)' /\ Hand(t)'
  BY <1>1, LimitsAssumption, ChargesAssumption DEF MkAttemptAgain, Goto, Release, Reserve, SpillFails, memory, dirs, TypeOK, Places, Rows, Hand, Charged, Removed, InHand, Sorting, Spilling, Removing
<1>5. Charged(t)' /\ Removed(t)' /\ pc'[t] # "done"
  BY <1>1 DEF MkAttemptAgain, Goto, Release, Reserve, SpillFails, memory, dirs, TypeOK, Places, Rows, Hand, Charged, Removed, InHand, Sorting, Spilling, Removing
<1>6. UNCHANGED <<account, query>>
  BY DEF MkAttemptAgain, Goto, Release, Reserve, SpillFails, memory, dirs
<1> QED BY <1>2, <1>3, <1>4, <1>5, <1>6, PlainKeeps

LEMMA WriteRunKeeps == ASSUME IndInv, NEW t \in Tasks, WriteRun(t) PROVE IndInv'
<1>1. TypeOK /\ Rows(t) /\ Hand(t) /\ Charged(t) /\ Removed(t)
  BY DEF IndInv, TaskInv
<1>2. TypeOK'
  BY <1>1, LimitsAssumption, ChargesAssumption DEF WriteRun, Goto, Release, Reserve, SpillFails, memory, dirs, TypeOK, Places, Rows, Hand, Charged, Removed, InHand, Sorting, Spilling, Removing
<1>3. \A u \in Tasks \ {t} : Same(u)
  BY <1>1 DEF WriteRun, Goto, Release, Reserve, SpillFails, memory, dirs, TypeOK, Places, Same
<1>4. Rows(t)' /\ Hand(t)'
  BY <1>1, LimitsAssumption, ChargesAssumption DEF WriteRun, Goto, Release, Reserve, SpillFails, memory, dirs, TypeOK, Places, Rows, Hand, Charged, Removed, InHand, Sorting, Spilling, Removing
<1>5. Charged(t)' /\ Removed(t)' /\ pc'[t] # "done"
  BY <1>1 DEF WriteRun, Goto, Release, Reserve, SpillFails, memory, dirs, TypeOK, Places, Rows, Hand, Charged, Removed, InHand, Sorting, Spilling, Removing
<1>6. UNCHANGED <<account, query>>
  BY DEF WriteRun, Goto, Release, Reserve, SpillFails, memory, dirs
<1> QED BY <1>2, <1>3, <1>4, <1>5, <1>6, PlainKeeps

LEMMA DiskFullKeeps == ASSUME IndInv, NEW t \in Tasks, DiskFull(t) PROVE IndInv'
<1>1. TypeOK /\ Rows(t) /\ Hand(t) /\ Charged(t) /\ Removed(t)
  BY DEF IndInv, TaskInv
<1>2. TypeOK'
  BY <1>1, LimitsAssumption, ChargesAssumption DEF DiskFull, Goto, Release, Reserve, SpillFails, memory, dirs, TypeOK, Places, Rows, Hand, Charged, Removed, InHand, Sorting, Spilling, Removing
<1>3. \A u \in Tasks \ {t} : Same(u)
  BY <1>1 DEF DiskFull, Goto, Release, Reserve, SpillFails, memory, dirs, TypeOK, Places, Same
<1>4. Rows(t)' /\ Hand(t)'
  BY <1>1, LimitsAssumption, ChargesAssumption DEF DiskFull, Goto, Release, Reserve, SpillFails, memory, dirs, TypeOK, Places, Rows, Hand, Charged, Removed, InHand, Sorting, Spilling, Removing
<1>5. Charged(t)' /\ Removed(t)' /\ pc'[t] # "done"
  BY <1>1 DEF DiskFull, Goto, Release, Reserve, SpillFails, memory, dirs, TypeOK, Places, Rows, Hand, Charged, Removed, InHand, Sorting, Spilling, Removing
<1>6. UNCHANGED <<account, query>>
  BY DEF DiskFull, Goto, Release, Reserve, SpillFails, memory, dirs
<1> QED BY <1>2, <1>3, <1>4, <1>5, <1>6, PlainKeeps

LEMMA RmAttemptKeeps == ASSUME IndInv, NEW t \in Tasks, RmAttempt(t) PROVE IndInv'
<1>1. TypeOK /\ Rows(t) /\ Hand(t) /\ Charged(t) /\ Removed(t)
  BY DEF IndInv, TaskInv
<1>2. TypeOK'
  BY <1>1, LimitsAssumption, ChargesAssumption DEF RmAttempt, Goto, Release, Reserve, SpillFails, memory, dirs, TypeOK, Places, Rows, Hand, Charged, Removed, InHand, Sorting, Spilling, Removing
<1>3. \A u \in Tasks \ {t} : Same(u)
  BY <1>1 DEF RmAttempt, Goto, Release, Reserve, SpillFails, memory, dirs, TypeOK, Places, Same
<1>4. Rows(t)' /\ Hand(t)'
  BY <1>1, LimitsAssumption, ChargesAssumption DEF RmAttempt, Goto, Release, Reserve, SpillFails, memory, dirs, TypeOK, Places, Rows, Hand, Charged, Removed, InHand, Sorting, Spilling, Removing
<1>5. Charged(t)' /\ Removed(t)' /\ pc'[t] # "done"
  BY <1>1 DEF RmAttempt, Goto, Release, Reserve, SpillFails, memory, dirs, TypeOK, Places, Rows, Hand, Charged, Removed, InHand, Sorting, Spilling, Removing
<1>6. UNCHANGED <<account, query>>
  BY DEF RmAttempt, Goto, Release, Reserve, SpillFails, memory, dirs
<1> QED BY <1>2, <1>3, <1>4, <1>5, <1>6, PlainKeeps

LEMMA RmTaskKeeps == ASSUME IndInv, NEW t \in Tasks, RmTask(t) PROVE IndInv'
<1>1. TypeOK /\ Rows(t) /\ Hand(t) /\ Charged(t) /\ Removed(t)
  BY DEF IndInv, TaskInv
<1>2. TypeOK'
  BY <1>1, LimitsAssumption, ChargesAssumption DEF RmTask, Goto, Release, Reserve, SpillFails, memory, dirs, TypeOK, Places, Rows, Hand, Charged, Removed, InHand, Sorting, Spilling, Removing
<1>3. \A u \in Tasks \ {t} : Same(u)
  BY <1>1 DEF RmTask, Goto, Release, Reserve, SpillFails, memory, dirs, TypeOK, Places, Same
<1>4. Rows(t)' /\ Hand(t)'
  BY <1>1, LimitsAssumption, ChargesAssumption DEF RmTask, Goto, Release, Reserve, SpillFails, memory, dirs, TypeOK, Places, Rows, Hand, Charged, Removed, InHand, Sorting, Spilling, Removing
<1>5. Charged(t)' /\ Removed(t)' /\ pc'[t] # "done"
  BY <1>1 DEF RmTask, Goto, Release, Reserve, SpillFails, memory, dirs, TypeOK, Places, Rows, Hand, Charged, Removed, InHand, Sorting, Spilling, Removing
<1>6. UNCHANGED <<account, query>>
  BY DEF RmTask, Goto, Release, Reserve, SpillFails, memory, dirs
<1> QED BY <1>2, <1>3, <1>4, <1>5, <1>6, PlainKeeps

-----------------------------------------------------------------------------
(* The steps that charge or release, and the end *)

(* One account changes, and the query's by the same amount. *)
LEMMA ChargeKeeps ==
  ASSUME IndInv, NEW t \in Tasks, \A u \in Tasks \ {t} : Same(u),
         TypeOK', TaskInv(t)', pc'[t] # "done",
         query' + account[t] = query + account'[t], query' <= QueryLimit
  PROVE  IndInv'
<1>1. account \in [Tasks -> Nat] /\ account' \in [Tasks -> Nat] /\ query \in Nat /\ query' \in Nat
  BY DEF IndInv, TypeOK
<1>2. \A u \in Tasks \ {t} : account'[u] = account[u]
  BY DEF Same
<1>3. Total(account) \in Nat /\ Total(account') \in Nat
      /\ Total(account') + account[t] = Total(account) + account'[t]
  BY <1>1, <1>2, TotalChange
<1>4. query = Total(account)
  BY DEF IndInv
<1>5. query' = Total(account')
  <2>1. account[t] \in Nat /\ account'[t] \in Nat
    BY <1>1
  <2> HIDE DEF Total
  <2> QED BY <1>1, <1>3, <1>4, <2>1
<1>6. Kept'
  BY DEF Kept
<1> QED BY <1>5, <1>6, OneAttempt

LEMMA KeepRowKeeps == ASSUME IndInv, NEW t \in Tasks, KeepRow(t) PROVE IndInv'
<1>1. TypeOK /\ Rows(t) /\ Hand(t) /\ Charged(t) /\ Removed(t)
  BY DEF IndInv, TaskInv
<1>2. row[t] \in Nat /\ row[t] # 0 /\ account[t] \in Nat /\ reserved[t] \in Nat /\ query \in Nat
  BY <1>1, ChargesAssumption DEF KeepRow, Hand, TypeOK
<1>3. TypeOK'
  BY <1>1, <1>2, LimitsAssumption DEF KeepRow, Reserve, Goto, dirs, TypeOK, Places, Rows, Hand, Charged, Removed, InHand, Sorting, Spilling, Removing
<1>4. \A u \in Tasks \ {t} : Same(u)
  BY <1>1 DEF KeepRow, Reserve, Goto, dirs, TypeOK, Places, Same
<1>5. Rows(t)' /\ Hand(t)'
  BY <1>1, <1>2, LimitsAssumption DEF KeepRow, Reserve, Goto, dirs, TypeOK, Places, Rows, Hand, Charged, Removed, InHand, Sorting, Spilling, Removing
<1>6. account'[t] = account[t] + row[t] /\ reserved'[t] = reserved[t] + row[t] /\ query' = query + row[t]
  BY <1>1 DEF KeepRow, Reserve, TypeOK
<1>7. pc'[t] = "read"
  BY <1>1 DEF KeepRow, Goto, TypeOK
<1>8. Charged(t)' /\ Removed(t)'
  BY <1>1, <1>6, <1>7 DEF KeepRow, Fits, Charged, Removed, Removing
<1>9. query' <= QueryLimit /\ query' + account[t] = query + account'[t]
  BY <1>2, <1>6 DEF KeepRow, Fits
<1> QED BY <1>3, <1>4, <1>5, <1>7, <1>8, <1>9, ChargeKeeps DEF TaskInv

LEMMA SpilledKeeps == ASSUME IndInv, NEW t \in Tasks, Spilled(t) PROVE IndInv'
<1>1. TypeOK /\ Rows(t) /\ Hand(t) /\ Charged(t) /\ Removed(t) /\ query <= QueryLimit
  BY DEF IndInv, TaskInv
<1>2. account[t] \in Nat /\ query \in Nat /\ reserved[t] = account[t] /\ account[t] <= query
  BY <1>1, TotalAtLeast DEF IndInv, TypeOK, Charged
<1>3. account'[t] = 0 /\ query' = query - account[t]
  BY <1>1, <1>2 DEF Spilled, Release, TypeOK
<1>4. query' \in Nat /\ query' <= QueryLimit /\ query' + account[t] = query + account'[t]
  BY <1>1, <1>2, <1>3, LimitsAssumption
<1>5. TypeOK'
  BY <1>1, <1>2, <1>4, LimitsAssumption DEF Spilled, Release, Goto, dirs, TypeOK, Places, Rows, Hand, Charged, Removed, InHand, Sorting, Spilling, Removing
<1>6. \A u \in Tasks \ {t} : Same(u)
  BY <1>1 DEF Spilled, Release, Goto, dirs, TypeOK, Places, Same
<1>7. Rows(t)' /\ Hand(t)' /\ Removed(t)' /\ pc'[t] # "done"
  BY <1>1, LimitsAssumption DEF Spilled, Release, Goto, dirs, TypeOK, Places, Rows, Hand, Charged, Removed, InHand, Sorting, Spilling, Removing
<1>8. Charged(t)'
  BY <1>1, <1>2, <1>3, LimitsAssumption DEF Spilled, Release, Goto, TypeOK, Places, Charged, Removing, Hand, Spilling
<1> QED BY <1>4, <1>5, <1>6, <1>7, <1>8, ChargeKeeps DEF TaskInv

LEMMA FinallyKeeps == ASSUME IndInv, NEW t \in Tasks, Finally(t) PROVE IndInv'
<1>1. TypeOK /\ Rows(t) /\ Hand(t) /\ Charged(t) /\ Removed(t) /\ query <= QueryLimit
  BY DEF IndInv, TaskInv
<1>2. account[t] \in Nat /\ query \in Nat /\ reserved[t] = account[t] /\ account[t] <= query
  BY <1>1, TotalAtLeast DEF IndInv, TypeOK, Charged
<1>3. account'[t] = 0 /\ query' = query - account[t]
  BY <1>1, <1>2 DEF Finally, Release, TypeOK
<1>4. query' \in Nat /\ query' <= QueryLimit /\ query' + account[t] = query + account'[t]
  BY <1>1, <1>2, <1>3, LimitsAssumption
<1>5. TypeOK'
  BY <1>1, <1>2, <1>4, LimitsAssumption DEF Finally, Release, Goto, dirs, TypeOK, Places, Rows, Hand, Charged, Removed, InHand, Sorting, Spilling, Removing
<1>6. \A u \in Tasks \ {t} : Same(u)
  BY <1>1 DEF Finally, Release, Goto, dirs, TypeOK, Places, Same
<1>7. Rows(t)' /\ Hand(t)' /\ Removed(t)' /\ pc'[t] # "done"
  BY <1>1, LimitsAssumption DEF Finally, Release, Goto, dirs, TypeOK, Places, Rows, Hand, Charged, Removed, InHand, Sorting, Spilling, Removing
<1>8. Charged(t)'
  BY <1>1, <1>2, <1>3, LimitsAssumption DEF Finally, Release, Goto, TypeOK, Places, Charged, Removing, Hand, Spilling
<1> QED BY <1>4, <1>5, <1>6, <1>7, <1>8, ChargeKeeps DEF TaskInv

LEMMA CloseKeeps == ASSUME IndInv, NEW t \in Tasks, Close(t) PROVE IndInv'
<1>1. TypeOK /\ Rows(t) /\ Hand(t) /\ Charged(t) /\ Removed(t) /\ query <= QueryLimit
  BY DEF IndInv, TaskInv
<1>2. account[t] \in Nat /\ query \in Nat /\ reserved[t] = account[t] /\ account[t] <= query
  BY <1>1, TotalAtLeast DEF IndInv, TypeOK, Charged
<1>3. account'[t] = 0 /\ query' = query - account[t]
  BY <1>1, <1>2 DEF Close, Release, TypeOK
<1>4. query' \in Nat /\ query' <= QueryLimit /\ query' + account[t] = query + account'[t]
  BY <1>1, <1>2, <1>3, LimitsAssumption
<1>5. TypeOK'
  BY <1>1, <1>2, <1>4, LimitsAssumption DEF Close, Release, Goto, dirs, TypeOK, Places, Rows, Hand, Charged, Removed, InHand, Sorting, Spilling, Removing
<1>6. \A u \in Tasks \ {t} : Same(u)
  BY <1>1 DEF Close, Release, Goto, dirs, TypeOK, Places, Same
<1>7. Rows(t)' /\ Hand(t)' /\ Removed(t)' /\ pc'[t] # "done"
  BY <1>1, LimitsAssumption DEF Close, Release, Goto, dirs, TypeOK, Places, Rows, Hand, Charged, Removed, InHand, Sorting, Spilling, Removing
<1>8. Charged(t)'
  BY <1>1, <1>2, <1>3, LimitsAssumption DEF Close, Release, Goto, TypeOK, Places, Charged, Removing, Hand, Spilling
<1> QED BY <1>4, <1>5, <1>6, <1>7, <1>8, ChargeKeeps DEF TaskInv

(* The query's directory outlives the attempts that need it: a task's       *)
(* directory in it is that of an attempt still to end.                      *)
LEMMA RmQueryKeeps == ASSUME IndInv, NEW t \in Tasks, RmQuery(t) PROVE IndInv'
<1>1. TypeOK /\ Rows(t) /\ Hand(t) /\ Charged(t) /\ Removed(t)
  BY DEF IndInv, TaskInv
<1>2. TypeOK'
  BY <1>1 DEF RmQuery, Goto, memory, TypeOK, Places, Charged, Removing
<1>3. \A u \in Tasks \ {t} : Same(u)
  BY <1>1 DEF RmQuery, Goto, memory, TypeOK, Places, Same
<1>4. Rows(t)' /\ Hand(t)' /\ Charged(t)' /\ Removed(t)'
  BY <1>1 DEF RmQuery, Goto, memory, TypeOK, Places, Rows, Hand, Charged, Removed, InHand, Sorting, Spilling, Removing
<1>5. ASSUME queryDir' PROVE \E u \in Tasks : pc'[u] # "done"
  <2>1. PICK u \in Tasks : taskDir[u]
    BY <1>5 DEF RmQuery
  <2>2. pc[u] # "done" /\ u # t
    BY <2>1 DEF IndInv, TaskInv, Removed, RmQuery
  <2> QED BY <1>1, <2>2 DEF RmQuery, Goto, TypeOK
<1>6. Kept'
  BY <1>5 DEF Kept
<1>7. query' = Total(account') /\ query' <= QueryLimit
  BY DEF IndInv, RmQuery, memory
<1> QED BY <1>2, <1>3, <1>4, <1>6, <1>7, OneAttempt DEF TaskInv

-----------------------------------------------------------------------------
LEMMA InitInv == Init => IndInv
<1> SUFFICES ASSUME Init PROVE IndInv
  OBVIOUS
<1>1. TypeOK
  <2>1. NRows \in 0 .. NRows /\ 0 \in 0 .. NRows
    BY LimitsAssumption
  <2>2. /\ input \in [Tasks -> 0 .. NRows] /\ rows \in [Tasks -> 0 .. NRows]
        /\ spilled \in [Tasks -> 0 .. NRows] /\ row \in [Tasks -> Charges \cup {0}]
        /\ reserved \in [Tasks -> Nat] /\ account \in [Tasks -> Nat] /\ query \in Nat
    BY <2>1 DEF Init
  <2>3. queryDir \in BOOLEAN /\ taskDir \in [Tasks -> BOOLEAN] /\ attemptDir \in [Tasks -> BOOLEAN]
    BY DEF Init
  <2>4. /\ pc \in [Tasks -> Places]
        /\ back \in [Tasks -> {"retry", "read", "emit", "finally", "done"}]
        /\ error \in [Tasks -> {"none", "cancelled", "disk", "directory"}]
    BY DEF Init, Places
  <2> QED BY <2>2, <2>3, <2>4 DEF TypeOK
<1>2. \A t \in Tasks : TaskInv(t)
  BY LimitsAssumption DEF Init, TaskInv, Rows, Hand, Charged, Removed, InHand, Sorting, Spilling, Removing
<1>3. account \in [Tasks -> Nat] /\ \A t \in Tasks : account[t] = 0
  BY DEF Init
<1>4. query = Total(account)
  BY <1>3, TotalZero DEF Init
<1>5. query <= QueryLimit /\ Kept
  BY LimitsAssumption DEF Init, Kept
<1> QED BY <1>1, <1>2, <1>4, <1>5 DEF IndInv

LEMMA NextInv == IndInv /\ [Next]_vars => IndInv'
<1> SUFFICES ASSUME IndInv, [Next]_vars PROVE IndInv'
  OBVIOUS
<1>1. ASSUME UNCHANGED vars PROVE IndInv'
  BY <1>1 DEF vars, IndInv, TypeOK, Kept, TaskInv, Rows, Hand, Charged, Removed, InHand
<1>2. ASSUME NEW t \in Tasks, Step(t) PROVE IndInv'
  BY <1>2, ReadRowKeeps, ReadEndKeeps, KeepRowKeeps, SpillFirstKeeps, SpillAloneKeeps,
     SpillKeeps, SpilledKeeps, EmitKeeps, FinallyKeeps, CloseKeeps, MkAttemptKeeps,
     MkTaskKeeps, MkQueryKeeps, IsDirKeeps, MkTaskAgainKeeps, MkAttemptAgainKeeps,
     WriteRunKeeps, DiskFullKeeps, RmAttemptKeeps, RmTaskKeeps, RmQueryKeeps DEF Step
<1> QED BY <1>1, <1>2, CancelledKeeps DEF Next, Done

(* The invariant holds of every run of any number of sorts. *)
THEOREM Invariance == Spec => []IndInv
BY InitInv, NextInv, PTL DEF Spec

(* Rows, charges and directories keep their types, and no counter of        *)
(* memory.py or _external_sorted_rows goes below zero.                      *)
THEOREM TypeCorrect == Spec => []TypeOK
<1>1. IndInv => TypeOK
  BY DEF IndInv
<1> QED BY <1>1, Invariance, PTL

(* The accounts of memory.py keep their limits and the query's is the sum   *)
(* of its attempts', whichever threads reserve, release and fail.           *)
THEOREM BudgetsCorrect == Spec => []BudgetsHold
<1>1. IndInv => BudgetsHold
  BY DEF IndInv, TaskInv, Charged, BudgetsHold, Total
<1> QED BY <1>1, Invariance, PTL

(* The external sort hands on every row it has read, each once. *)
THEOREM RowsCorrect == Spec => []NoRowIsLost
<1>1. ASSUME IndInv PROVE NoRowIsLost
  <2> SUFFICES ASSUME NEW t \in Tasks, pc[t] = "emit" PROVE rows[t] + spilled[t] = NRows
    BY DEF NoRowIsLost
  <2>1. input[t] = 0 /\ row[t] = 0 /\ input[t] + InHand(t) + rows[t] + spilled[t] = NRows
    BY <1>1 DEF IndInv, TaskInv, Rows, Hand, Sorting
  <2>2. rows[t] \in Nat /\ spilled[t] \in Nat
    BY <1>1, LimitsAssumption DEF IndInv, TypeOK
  <2> QED BY <2>1, <2>2 DEF InHand
<1> QED BY <1>1, Invariance, PTL

(* When all attempts have ended, however they did, nothing is charged to    *)
(* the query and no directory of it is left.                                *)
THEOREM LeftCorrect == Spec => []NothingIsLeft
<1>1. ASSUME IndInv PROVE NothingIsLeft
  <2> SUFFICES ASSUME \A t \in Tasks : pc[t] = "done"
               PROVE  query = 0 /\ ~queryDir /\ \A t \in Tasks : ~taskDir[t] /\ ~attemptDir[t]
    BY DEF NothingIsLeft
  <2>1. account \in [Tasks -> Nat] /\ \A t \in Tasks : account[t] = 0
    BY <1>1 DEF IndInv, TypeOK, TaskInv, Charged
  <2>2. query = 0
    BY <1>1, <2>1, TotalZero DEF IndInv
  <2>3. ~queryDir /\ \A t \in Tasks : ~taskDir[t] /\ ~attemptDir[t]
    BY <1>1 DEF IndInv, TypeOK, Kept, TaskInv, Removed
  <2> QED BY <2>2, <2>3
<1> QED BY <1>1, Invariance, PTL

-----------------------------------------------------------------------------
(* Every sort is finite. *)

(* The ranks of the places, in numbers. *)
LEMMA Levels ==
  /\ \A b : /\ Level("done", b) = 0 /\ Level("close", b) = 4 /\ Level("finally", b) = 5
            /\ Level("emit", b) = 9 /\ Level("read", b) = 19 /\ Level("retry", b) = 29
            /\ Level("reserve", b) = 39
  /\ \A b \in {"emit", "read", "retry"} :
       /\ Level("release", b) = Level(b, b) + 1        /\ Level("write", b) = Level(b, b) + 2
       /\ Level("mkAttemptAgain", b) = Level(b, b) + 3 /\ Level("mkTaskAgain", b) = Level(b, b) + 4
       /\ Level("isDir", b) = Level(b, b) + 5          /\ Level("mkQuery", b) = Level(b, b) + 6
       /\ Level("mkTask", b) = Level(b, b) + 7         /\ Level("mkAttempt", b) = Level(b, b) + 8
       /\ Level("spill", b) = Level(b, b) + 9
  /\ \A b \in {"done", "finally"} :
       /\ Level("rmQuery", b) = Level(b, b) + 1 /\ Level("rmTask", b) = Level(b, b) + 2
       /\ Level("rmAttempt", b) = Level(b, b) + 3
<1>1. DOMAIN PlaceRank = {"done", "close", "finally", "emit", "read", "retry", "reserve"}
  BY DEF PlaceRank
<1>2. DOMAIN SpillRank = {"release", "write", "mkAttemptAgain", "mkTaskAgain", "isDir", "mkQuery", "mkTask",
                          "mkAttempt", "spill"}
  BY DEF SpillRank
<1>3. DOMAIN CleanRank = {"rmQuery", "rmTask", "rmAttempt"}
  BY DEF CleanRank
<1>4. /\ PlaceRank["done"] = 0 /\ PlaceRank["close"] = 4 /\ PlaceRank["finally"] = 5
      /\ PlaceRank["emit"] = 9 /\ PlaceRank["read"] = 19 /\ PlaceRank["retry"] = 29
      /\ PlaceRank["reserve"] = 39
  BY DEF PlaceRank
<1>5. /\ SpillRank["release"] = 1 /\ SpillRank["write"] = 2 /\ SpillRank["mkAttemptAgain"] = 3
      /\ SpillRank["mkTaskAgain"] = 4 /\ SpillRank["isDir"] = 5 /\ SpillRank["mkQuery"] = 6
      /\ SpillRank["mkTask"] = 7 /\ SpillRank["mkAttempt"] = 8 /\ SpillRank["spill"] = 9
  BY DEF SpillRank
<1>6. CleanRank["rmQuery"] = 1 /\ CleanRank["rmTask"] = 2 /\ CleanRank["rmAttempt"] = 3
  BY DEF CleanRank
<1>7. ASSUME NEW q \in DOMAIN PlaceRank, NEW b PROVE Level(q, b) = PlaceRank[q]
  BY <1>1, <1>2, <1>3 DEF Level
<1>8. ASSUME NEW q \in DOMAIN SpillRank, NEW b PROVE Level(q, b) = PlaceRank[b] + SpillRank[q]
  BY <1>1, <1>2, <1>3 DEF Level
<1>9. ASSUME NEW q \in DOMAIN CleanRank, NEW b PROVE Level(q, b) = PlaceRank[b] + CleanRank[q]
  BY <1>1, <1>2, <1>3 DEF Level
<1>10. \A b : /\ Level("done", b) = 0 /\ Level("close", b) = 4 /\ Level("finally", b) = 5
              /\ Level("emit", b) = 9 /\ Level("read", b) = 19 /\ Level("retry", b) = 29
              /\ Level("reserve", b) = 39
  BY <1>1, <1>4, <1>7
<1>11. \A b \in {"emit", "read", "retry", "done", "finally"} : Level(b, b) = PlaceRank[b]
  BY <1>1, <1>7
<1>12. \A b \in {"emit", "read", "retry"} :
         /\ Level("release", b) = Level(b, b) + 1        /\ Level("write", b) = Level(b, b) + 2
         /\ Level("mkAttemptAgain", b) = Level(b, b) + 3 /\ Level("mkTaskAgain", b) = Level(b, b) + 4
         /\ Level("isDir", b) = Level(b, b) + 5          /\ Level("mkQuery", b) = Level(b, b) + 6
         /\ Level("mkTask", b) = Level(b, b) + 7         /\ Level("mkAttempt", b) = Level(b, b) + 8
         /\ Level("spill", b) = Level(b, b) + 9
  BY <1>2, <1>5, <1>8, <1>11
<1>13. \A b \in {"done", "finally"} :
         /\ Level("rmQuery", b) = Level(b, b) + 1 /\ Level("rmTask", b) = Level(b, b) + 2
         /\ Level("rmAttempt", b) = Level(b, b) + 3
  BY <1>3, <1>6, <1>9, <1>11
<1> QED BY <1>10, <1>12, <1>13

(* A step of an attempt lowers its rank. *)
LEMMA StepLowers == ASSUME IndInv, NEW t \in Tasks, Step(t) \/ Cancelled(t) PROVE Rank(t)' < Rank(t)
<1>0. /\ pc \in [Tasks -> Places] /\ input \in [Tasks -> 0 .. NRows]
      /\ back \in [Tasks -> {"retry", "read", "emit", "finally", "done"}]
      /\ input[t] \in Nat
      /\ pc[t] \in Spilling => back[t] \in {"retry", "read", "emit"}
      /\ pc[t] \in Removing => back[t] \in {"finally", "done"}
  BY LimitsAssumption DEF IndInv, TypeOK, TaskInv, Hand, Charged
<1> DEFINE P == pc'[t]
           B == back'[t]
<1>1. ASSUME input' = input, Level(P, B) < Level(pc[t], back[t]), Level(P, B) \in Nat, Level(pc[t], back[t]) \in Nat
      PROVE  Rank(t)' < Rank(t)
  BY <1>0, <1>1 DEF Rank
<1>2. CASE ReadRow(t)
  <2>1. pc[t] = "read" /\ P = "reserve" /\ input'[t] = input[t] - 1
    BY <1>0, <1>2 DEF ReadRow, Goto
  <2>2. Level(P, B) = 39 /\ Level(pc[t], back[t]) = 19
    BY <2>1, Levels
  <2> QED BY <1>0, <2>1, <2>2 DEF Rank
<1>3. CASE ReadEnd(t)
  <2>1. pc[t] = "read" /\ input' = input /\ (P = "emit" \/ (P = "spill" /\ B = "emit"))
    BY <1>0, <1>3 DEF ReadEnd, Goto
  <2>2. Level(P, B) \in {9, 18} /\ Level(pc[t], back[t]) = 19
    BY <2>1, Levels
  <2> QED BY <1>1, <2>1, <2>2
<1>4. CASE KeepRow(t)
  <2>1. pc[t] \in {"reserve", "retry"} /\ input' = input /\ P = "read"
    BY <1>0, <1>4 DEF KeepRow, Goto
  <2>2. Level(P, B) = 19 /\ Level(pc[t], back[t]) \in {29, 39}
    BY <2>1, Levels
  <2> QED BY <1>1, <2>1, <2>2
<1>5. CASE SpillFirst(t)
  <2>1. pc[t] = "reserve" /\ input' = input /\ P = "spill" /\ B = "retry"
    BY <1>0, <1>5 DEF SpillFirst, Goto
  <2>2. Level(P, B) = 38 /\ Level(pc[t], back[t]) = 39
    BY <2>1, Levels
  <2> QED BY <1>1, <2>1, <2>2
<1>6. CASE SpillAlone(t)
  <2>1. pc[t] = "retry" /\ input' = input /\ P = "spill" /\ B = "read"
    BY <1>0, <1>6 DEF SpillAlone, Goto
  <2>2. Level(P, B) = 28 /\ Level(pc[t], back[t]) = 29
    BY <2>1, Levels
  <2> QED BY <1>1, <2>1, <2>2
<1>7. CASE Emit(t) \/ Finally(t) \/ Close(t)
  <2>1. /\ input' = input
        /\ \/ pc[t] = "emit" /\ P = "finally"
           \/ pc[t] = "finally" /\ P = "close"
           \/ pc[t] = "close" /\ P = "rmAttempt" /\ B = "done"
    BY <1>0, <1>7 DEF Emit, Finally, Close, Goto
  <2>2. Level(P, B) \in Nat /\ Level(pc[t], back[t]) \in Nat /\ Level(P, B) < Level(pc[t], back[t])
    BY <2>1, Levels
  <2> QED BY <1>1, <2>1, <2>2
<1>8. CASE Cancelled(t)
  <2>1. input' = input /\ P = "finally" /\ pc[t] \in {"read", "emit", "spill"}
    BY <1>0, <1>8 DEF Cancelled, Goto
  <2>2. Level(P, B) = 5 /\ Level(pc[t], back[t]) \in {9, 18, 19, 28, 38}
    BY <1>0, <2>1, Levels DEF Spilling
  <2> QED BY <1>1, <2>1, <2>2
<1>9. CASE \/ Spill(t) \/ Spilled(t) \/ MkAttempt(t) \/ MkTask(t) \/ MkQuery(t) \/ MkAttemptAgain(t) \/ WriteRun(t)
           \/ (IsDir(t) /\ B = back[t]) \/ (MkTaskAgain(t) /\ B = back[t])
  <2>1. pc[t] \in Spilling /\ input' = input
    BY <1>9 DEF Spill, Spilled, MkAttempt, MkTask, MkQuery, IsDir, MkTaskAgain, MkAttemptAgain, WriteRun, Spilling
  <2>2. back[t] \in {"retry", "read", "emit"}
    BY <1>0, <2>1
  <2>3. B = back[t]
    BY <1>9 DEF Spill, Spilled, MkAttempt, MkTask, MkQuery, MkAttemptAgain, WriteRun
  <2>4. \/ pc[t] = "spill" /\ P \in {back[t], "mkAttempt"}
        \/ pc[t] = "release" /\ P = back[t]
        \/ pc[t] = "mkAttempt" /\ P \in {"write", "mkTask"}
        \/ pc[t] = "mkTask" /\ P \in {"mkAttemptAgain", "mkQuery"}
        \/ pc[t] = "mkQuery" /\ P \in {"isDir", "mkTaskAgain"}
        \/ pc[t] = "isDir" /\ P = "mkTaskAgain"
        \/ pc[t] = "mkTaskAgain" /\ P = "mkAttemptAgain"
        \/ pc[t] = "mkAttemptAgain" /\ P = "write"
        \/ pc[t] = "write" /\ P = "release"
    BY <1>0, <1>9, <2>2 DEF Spill, Spilled, MkAttempt, MkTask, MkQuery, IsDir, MkTaskAgain, MkAttemptAgain, WriteRun,
       SpillFails, Goto
  <2>5. Level(back[t], back[t]) \in {9, 19, 29}
    BY <2>2, Levels
  <2>6. Level(P, B) \in Nat /\ Level(pc[t], back[t]) \in Nat /\ Level(P, B) < Level(pc[t], back[t])
    BY <2>2, <2>3, <2>4, <2>5, Levels
  <2> QED BY <1>1, <2>1, <2>6
<1>10. CASE DiskFull(t) \/ (IsDir(t) /\ B # back[t]) \/ (MkTaskAgain(t) /\ B # back[t])
  <2>1. P = "rmAttempt" /\ B = "finally" /\ pc[t] \in {"write", "isDir", "mkTaskAgain"} /\ input' = input
    BY <1>0, <1>10 DEF DiskFull, IsDir, MkTaskAgain, SpillFails, Goto
  <2>2. back[t] \in {"retry", "read", "emit"}
    BY <1>0, <2>1 DEF Spilling
  <2>3. Level(back[t], back[t]) \in {9, 19, 29}
    BY <2>2, Levels
  <2>4. Level(P, B) = 8 /\ Level(pc[t], back[t]) \in Nat /\ Level(pc[t], back[t]) > 9
    BY <2>1, <2>2, <2>3, Levels
  <2> QED BY <1>1, <2>1, <2>4
<1>11. CASE RmAttempt(t) \/ RmTask(t) \/ RmQuery(t)
  <2>1. /\ input' = input /\ B = back[t] /\ pc[t] \in Removing
        /\ \/ pc[t] = "rmAttempt" /\ P = "rmTask"
           \/ pc[t] = "rmTask" /\ P = "rmQuery"
           \/ pc[t] = "rmQuery" /\ P = back[t]
    BY <1>0, <1>11 DEF RmAttempt, RmTask, RmQuery, Goto, Removing
  <2>2. back[t] \in {"finally", "done"}
    BY <1>0, <2>1
  <2>3. Level(back[t], back[t]) \in {0, 5}
    BY <2>2, Levels
  <2>4. Level(P, B) \in Nat /\ Level(pc[t], back[t]) \in Nat /\ Level(P, B) < Level(pc[t], back[t])
    BY <2>1, <2>2, <2>3, Levels
  <2> QED BY <1>1, <2>1, <2>4
<1> QED BY <1>2, <1>3, <1>4, <1>5, <1>6, <1>7, <1>8, <1>9, <1>10, <1>11 DEF Step

(* A sort of n rows takes at most 21 n + 19 steps, whatever the other       *)
(* attempts charge or remove: the safety part of EverySortEnds              *)
(* (operators.py 389-482, memory.py 113-173).                               *)
THEOREM SortsCorrect == Spec => SortsAdvance
<1>1. ASSUME IndInv, [Next]_vars, NEW t \in Tasks
      PROVE  Rank(t)' < Rank(t) \/ (pc'[t] = pc[t] /\ Rank(t)' = Rank(t))
  <2>1. ASSUME NEW u \in Tasks, u # t, Step(u) \/ Cancelled(u)
        PROVE  pc'[t] = pc[t] /\ back'[t] = back[t] /\ input'[t] = input[t]
    <3>1. /\ pc \in [Tasks -> Places] /\ input \in [Tasks -> 0 .. NRows]
          /\ back \in [Tasks -> {"retry", "read", "emit", "finally", "done"}]
      BY <1>1 DEF IndInv, TypeOK
    <3> QED BY <2>1, <3>1 DEF Step, Cancelled, ReadRow, ReadEnd, KeepRow, SpillFirst, SpillAlone, Spill, Spilled,
               Emit, Finally, Close, MkAttempt, MkTask, MkQuery, IsDir, MkTaskAgain, MkAttemptAgain, WriteRun,
               DiskFull, RmAttempt, RmTask, RmQuery, SpillFails, Goto
  <2>2. CASE UNCHANGED vars
    BY <2>2 DEF vars, Rank
  <2> QED BY <1>1, <2>1, <2>2, StepLowers DEF Next, Done, Rank
<1>2. IndInv /\ [Next]_vars =>
        [\A t \in Tasks : \/ Rank(t)' < Rank(t)
                          \/ pc'[t] = pc[t] /\ Rank(t)' = Rank(t)]_vars
  BY <1>1
<1> QED BY <1>2, Invariance, PTL DEF Spec, SortsAdvance

==============================================================================
