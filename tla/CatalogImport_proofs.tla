------------------------ MODULE CatalogImport_proofs ------------------------
(***************************************************************************)
(* The properties of CatalogImport hold for any number of tables,          *)
(* locations, imports, partitions and queries. What a step of the import   *)
(* may do to a file depends on who refers to the import in progress:       *)
(* nobody before it has published or committed, nobody again when its      *)
(* rollback deletes (Unlisted, Unpublished). Each part of the invariant    *)
(* holds until the trouble that breaks it has been seen, and seen grows.   *)
(***************************************************************************)
EXTENDS CatalogImport, TLAPS

(* Where the import stands: what it holds and which of its files are complete. *)
Progress ==
  /\ pc # "idle" => /\ cur \in Imports /\ tab \in Tables /\ loc \in Locations
                    /\ prev # cur
  /\ pc = "write" => n < NParts /\ \A p \in Parts : p < n => data[cur][p] = "whole"
  /\ pc \in {"publish", "commit", "readback", "restore"} => Whole(cur)

(* An import id that was never used appears nowhere. *)
Fresh ==
  \A i \in Imports : outcome[i] = "new" =>
    /\ \A t \in Tables : lists[t] # i
    /\ \A l \in Locations : manifest[l] # i
    /\ \A r \in Readers : snap[r] # i
    /\ prev # i

(* A table that does not exist has no partitions. *)
Cascade == \A t \in Tables : at[t] = None => lists[t] = None

(* The catalog lists the import in progress only once it has committed. *)
Unlisted ==
  /\ pc \in {"write", "publish", "commit", "restore", "undo"} =>
       \A t \in Tables : lists[t] # cur
  /\ pc = "readback" => \A t \in Tables : t # tab => lists[t] # cur

(* It is published only at its own location, and not while its files are written *)
(* or deleted.                                                                    *)
Unpublished ==
  /\ pc \in {"write", "publish", "undo"} => \A l \in Locations : manifest[l] # cur
  /\ pc \in {"commit", "readback", "restore"} =>
       \A l \in Locations : l # loc => manifest[l] # cur
  /\ pc # "idle" /\ prev # None => Whole(prev)

(* Queries have found it in the catalog only if it will not be rolled back. *)
Unread ==
  /\ pc \in {"write", "publish", "commit", "restore", "undo"} =>
       \A r \in Readers : snap[r] # cur
  /\ pc # "idle" => at[tab] # None

Base == TypeOK /\ Progress /\ Fresh /\ Cascade
CatalogInv  == /\ "read" \notin seen => Unlisted
               /\ CatalogListsWholeData
ManifestInv == /\ "lost" \notin seen => Unpublished
               /\ ManifestListsWholeData
ReaderInv   == /\ {"redefined", "read"} \cap seen = {} => Unread
               /\ SnapshotsStayReadable

LEMMA TypeStep ==
  ASSUME TypeOK, Progress, [Next]_vars
  PROVE  TypeOK'
<1> USE NPartsAssumption, NoneAssumption
<1>0. ASSUME NEW v, NEW before, NEW after, Raises(v, before, after)
      PROVE  seen' \subseteq {"redefined", "lost", "read"}
  BY <1>0 DEF Raises, TypeOK
<1>1. CASE CreateNamespace
  BY <1>1 DEF CreateNamespace, TypeOK, Progress, catalogVars, frame, Listed, Ended, Parts
<1>2. CASE DeleteNamespace
  BY <1>2 DEF DeleteNamespace, TypeOK, Progress, catalogVars, frame, Listed, Ended, Parts
<1>3. ASSUME NEW t \in Tables, CreateTable(t) PROVE TypeOK'
  BY <1>3 DEF CreateTable, TypeOK, Progress, catalogVars, frame, Listed, Ended, Parts
<1>4. ASSUME NEW t \in Tables, UpdateTable(t) PROVE TypeOK'
  BY <1>4 DEF UpdateTable, TypeOK, Progress, catalogVars, frame, Listed, Ended, Parts
<1>5. ASSUME NEW t \in Tables, DeleteTable(t) PROVE TypeOK'
  BY <1>5 DEF DeleteTable, TypeOK, Progress, catalogVars, frame, Listed, Ended, Parts
<1>6. ASSUME NEW i \in Imports, NEW t \in Tables, ImportStart(i, t) PROVE TypeOK'
  BY <1>6 DEF ImportStart, TypeOK, Progress, catalogVars, frame, Listed, Ended, Parts
<1>7. CASE ImportWrite
  BY <1>7 DEF ImportWrite, TypeOK, Progress, catalogVars, frame, Listed, Ended, Parts
<1>8. CASE ImportWriteFails
  <2>1. seen' \subseteq {"redefined", "lost", "read"}
    BY <1>0, <1>8 DEF ImportWriteFails, TypeOK
  <2> QED
    BY <1>8, <2>1 DEF ImportWriteFails, TypeOK, Progress, catalogVars, frame, Listed, Ended,
      Parts
<1>9. CASE ImportPublish
  BY <1>9 DEF ImportPublish, TypeOK, Progress, catalogVars, frame, Listed, Ended, Parts
<1>10. CASE ImportPublishFails
  <2>1. seen' \subseteq {"redefined", "lost", "read"}
    BY <1>0, <1>10 DEF ImportPublishFails, TypeOK
  <2> QED
    BY <1>10, <2>1 DEF ImportPublishFails, TypeOK, Progress, catalogVars, frame, Listed,
      Ended, Parts
<1>11. CASE ImportCommit
  BY <1>11 DEF ImportCommit, TypeOK, Progress, catalogVars, frame, Listed, Ended, Parts
<1>12. CASE ImportCommitFails
  BY <1>12 DEF ImportCommitFails, TypeOK, Progress, catalogVars, frame, Listed, Ended, Parts
<1>13. CASE ImportReadBack
  BY <1>13 DEF ImportReadBack, Finish, TypeOK, Progress, catalogVars, frame, Listed, Ended,
    Parts
<1>14. CASE ImportReadBackFails
  BY <1>14 DEF ImportReadBackFails, TypeOK, Progress, catalogVars, frame, Listed, Ended, Parts
<1>15. CASE ImportRestore
  BY <1>15 DEF ImportRestore, TypeOK, Progress, catalogVars, frame, Listed, Ended, Parts
<1>16. CASE ImportRestoreFails
  <2>1. seen' \subseteq {"redefined", "lost", "read"}
    BY <1>0, <1>16 DEF ImportRestoreFails, TypeOK
  <2> QED
    BY <1>16, <2>1 DEF ImportRestoreFails, Finish, TypeOK, Progress, catalogVars, frame,
      Listed, Ended, Parts
<1>17. CASE UndoData
  BY <1>17 DEF UndoData, TypeOK, Progress, catalogVars, frame, Listed, Ended, Parts
<1>18. CASE UndoDataFails
  <2>1. seen' \subseteq {"redefined", "lost", "read"}
    BY <1>0, <1>18 DEF UndoDataFails, TypeOK
  <2> QED
    BY <1>18, <2>1 DEF UndoDataFails, Finish, TypeOK, Progress, catalogVars, frame, Listed,
      Ended, Parts
<1>19. CASE UndoDone
  BY <1>19 DEF UndoDone, Finish, TypeOK, Progress, catalogVars, frame, Listed, Ended, Parts
<1>20. CASE Crash
  <2>1. data' \in [Imports -> [Parts -> {"absent", "torn", "whole"}]]
    <3>1. CASE data' = data
      BY <3>1 DEF TypeOK
    <3>2. CASE pc = "write" /\ data' = [data EXCEPT ![cur][n] = "torn"]
      <4>1. cur \in Imports /\ n \in Parts
        BY <3>2 DEF TypeOK, Progress, Parts
      <4> QED
        BY <3>2, <4>1 DEF TypeOK
    <3> QED
      BY <1>20, <3>1, <3>2 DEF Crash
  <2>2. snap' \in [Readers -> Listed]
    BY <1>20 DEF Crash, Listed
  <2> QED
    BY <1>20, <2>1, <2>2 DEF Crash, Finish, TypeOK, Progress, catalogVars, Listed, Ended
<1>21. ASSUME NEW r \in Readers, Snapshot(r) PROVE TypeOK'
  BY <1>21 DEF Snapshot, TypeOK, Progress, catalogVars, frame, Listed, Ended, Parts
<1>22. ASSUME NEW r \in Readers, QueryEnds(r) PROVE TypeOK'
  BY <1>22 DEF QueryEnds, TypeOK, Progress, catalogVars, frame, Listed, Ended, Parts
<1>23. CASE UNCHANGED vars
  BY <1>23 DEF vars, TypeOK, Progress, catalogVars, frame, Listed, Ended, Parts
<1> QED
  BY <1>1, <1>2, <1>3, <1>4, <1>5, <1>6, <1>7, <1>8, <1>9, <1>10, <1>11, <1>12, <1>13, <1>14,
    <1>15, <1>16, <1>17, <1>18, <1>19, <1>20, <1>21, <1>22, <1>23 DEF Next, ImportNext

(* What has been seen is not forgotten, and tables are dropped or moved only by DDL. *)
LEMMA SeenStep ==
  ASSUME TypeOK, [Next]_vars
  PROVE  /\ seen \subseteq seen'
         /\ \A u \in Tables : at[u] # None /\ "redefined" \notin seen' => at'[u] # None
<1>1. CASE UNCHANGED at /\ seen \subseteq seen'
  BY <1>1
<1>2. ASSUME NEW t \in Tables, CreateTable(t)
      PROVE  UNCHANGED seen /\ \A u \in Tables : at[u] # None => at'[u] # None
  BY <1>2 DEF CreateTable, TypeOK
<1>3. ASSUME NEW t \in Tables, UpdateTable(t) \/ DeleteTable(t)
      PROVE  seen \subseteq seen' /\ "redefined" \in seen'
  BY <1>3 DEF UpdateTable, DeleteTable
<1> QED
  BY <1>1, <1>2, <1>3 DEF Next, vars, ImportNext, catalogVars, Raises, CreateNamespace,
    DeleteNamespace, ImportStart, ImportWrite, ImportWriteFails, ImportPublish,
    ImportPublishFails, ImportCommit, ImportCommitFails, ImportReadBack, ImportReadBackFails,
    ImportRestore, ImportRestoreFails, UndoData, UndoDataFails, UndoDone, Crash, Snapshot,
    QueryEnds

(* A step touches no file but those of the import that writes or deletes. *)
LEMMA DataStep ==
  ASSUME TypeOK, Progress, [Next]_vars,
         NEW j \in Imports, ~(pc \in {"write", "undo"} /\ j = cur)
  PROVE  data'[j] = data[j]
<1>1. CASE CreateNamespace
  BY <1>1 DEF CreateNamespace, TypeOK, Progress
<1>2. CASE DeleteNamespace
  BY <1>2 DEF DeleteNamespace, TypeOK, Progress
<1>3. ASSUME NEW t \in Tables, CreateTable(t) PROVE data'[j] = data[j]
  BY <1>3 DEF CreateTable, TypeOK, Progress
<1>4. ASSUME NEW t \in Tables, UpdateTable(t) PROVE data'[j] = data[j]
  BY <1>4 DEF UpdateTable, TypeOK, Progress
<1>5. ASSUME NEW t \in Tables, DeleteTable(t) PROVE data'[j] = data[j]
  BY <1>5 DEF DeleteTable, TypeOK, Progress
<1>6. ASSUME NEW i \in Imports, NEW t \in Tables, ImportStart(i, t) PROVE data'[j] = data[j]
  BY <1>6 DEF ImportStart, TypeOK, Progress
<1>7. CASE ImportWrite
  BY <1>7 DEF ImportWrite, TypeOK, Progress
<1>8. CASE ImportWriteFails
  BY <1>8 DEF ImportWriteFails, Raises, TypeOK, Progress
<1>9. CASE ImportPublish
  BY <1>9 DEF ImportPublish, TypeOK, Progress
<1>10. CASE ImportPublishFails
  BY <1>10 DEF ImportPublishFails, Raises, TypeOK, Progress
<1>11. CASE ImportCommit
  BY <1>11 DEF ImportCommit, TypeOK, Progress
<1>12. CASE ImportCommitFails
  BY <1>12 DEF ImportCommitFails, TypeOK, Progress
<1>13. CASE ImportReadBack
  BY <1>13 DEF ImportReadBack, Finish, TypeOK, Progress
<1>14. CASE ImportReadBackFails
  BY <1>14 DEF ImportReadBackFails, TypeOK, Progress
<1>15. CASE ImportRestore
  BY <1>15 DEF ImportRestore, TypeOK, Progress
<1>16. CASE ImportRestoreFails
  BY <1>16 DEF ImportRestoreFails, Finish, Raises, TypeOK, Progress
<1>17. CASE UndoData
  BY <1>17 DEF UndoData, TypeOK, Progress
<1>18. CASE UndoDataFails
  BY <1>18 DEF UndoDataFails, Finish, Raises, TypeOK, Progress
<1>19. CASE UndoDone
  BY <1>19 DEF UndoDone, Finish, TypeOK, Progress
<1>20. CASE Crash
  BY <1>20 DEF Crash, Finish, TypeOK, Progress
<1>21. ASSUME NEW r \in Readers, Snapshot(r) PROVE data'[j] = data[j]
  BY <1>21 DEF Snapshot, TypeOK, Progress
<1>22. ASSUME NEW r \in Readers, QueryEnds(r) PROVE data'[j] = data[j]
  BY <1>22 DEF QueryEnds, TypeOK, Progress
<1>23. CASE UNCHANGED vars
  BY <1>23 DEF vars, TypeOK, Progress
<1> QED
  BY <1>1, <1>2, <1>3, <1>4, <1>5, <1>6, <1>7, <1>8, <1>9, <1>10, <1>11, <1>12, <1>13, <1>14,
    <1>15, <1>16, <1>17, <1>18, <1>19, <1>20, <1>21, <1>22, <1>23 DEF Next, ImportNext

(* The catalog lists what it did, or the import that has just committed. *)
LEMMA ListsStep ==
  ASSUME TypeOK, Progress, [Next]_vars, NEW u \in Tables
  PROVE  \/ lists'[u] = lists[u]
         \/ lists'[u] = None
         \/ pc = "commit" /\ pc' = "readback" /\ u = tab /\ lists'[u] = cur /\ at[u] # None
<1>1. CASE UNCHANGED lists
  BY <1>1
<1>2. ASSUME NEW t \in Tables, DeleteTable(t)
      PROVE  lists'[u] = lists[u] \/ lists'[u] = None
  BY <1>2 DEF DeleteTable, TypeOK
<1>3. CASE ImportCommit
  BY <1>3 DEF ImportCommit, TypeOK
<1> QED
  BY <1>1, <1>2, <1>3 DEF Next, vars, ImportNext, CreateNamespace, DeleteNamespace,
    CreateTable, UpdateTable, ImportStart, ImportWrite, ImportWriteFails, ImportPublish,
    ImportPublishFails, ImportCommitFails, ImportReadBack, ImportReadBackFails, ImportRestore,
    ImportRestoreFails, UndoData, UndoDataFails, UndoDone, Crash, Snapshot, QueryEnds,
    catalogVars

(* A manifest changes only when the import publishes or restores it. *)
LEMMA ManifestStep ==
  ASSUME TypeOK, Progress, [Next]_vars, NEW m \in Locations
  PROVE  /\ \/ manifest'[m] = manifest[m]
            \/ /\ pc = "publish" /\ m = loc /\ manifest'[m] = cur
               /\ pc' = "commit" \/ "lost" \in seen'
            \/ pc = "restore" /\ m = loc /\ manifest'[m] = prev
         /\ pc = "restore" /\ pc' = "undo" /\ m = loc => manifest'[m] = prev
<1>1. CASE UNCHANGED manifest /\ ~(pc = "restore" /\ pc' = "undo")
  BY <1>1
<1>2. CASE ImportPublish
  BY <1>2 DEF ImportPublish, TypeOK
<1>3. CASE ImportPublishFails
  BY <1>3 DEF ImportPublishFails, Raises, TypeOK
<1>4. CASE ImportRestore
  BY <1>4 DEF ImportRestore, TypeOK
<1>5. CASE ImportRestoreFails
  BY <1>5 DEF ImportRestoreFails, Finish, Raises, TypeOK
<1> QED
  BY <1>1, <1>2, <1>3, <1>4, <1>5
  DEF Next, vars, ImportNext, Finish, catalogVars, CreateNamespace, DeleteNamespace,
    CreateTable, UpdateTable, DeleteTable, ImportStart, ImportWrite, ImportWriteFails,
    ImportCommit, ImportCommitFails, ImportReadBack, ImportReadBackFails, UndoData,
    UndoDataFails, UndoDone, Crash, Snapshot, QueryEnds

(* A query keeps what it has found, or finds what the catalog lists. *)
LEMMA SnapStep ==
  ASSUME TypeOK, [Next]_vars, NEW q \in Readers
  PROVE  \/ snap'[q] = snap[q]
         \/ snap'[q] = None
         \/ /\ \E t \in Tables : lists[t] # None /\ snap'[q] = lists[t]
            /\ UNCHANGED <<pc, cur>>
<1>1. CASE UNCHANGED snap
  BY <1>1
<1>2. ASSUME NEW r \in Readers, Snapshot(r)
      PROVE  \/ snap'[q] = snap[q]
             \/ /\ \E t \in Tables : lists[t] # None /\ snap'[q] = lists[t]
                /\ UNCHANGED <<pc, cur>>
  BY <1>2 DEF Snapshot, TypeOK, frame
<1>3. ASSUME NEW r \in Readers, QueryEnds(r)
      PROVE  snap'[q] = snap[q] \/ snap'[q] = None
  BY <1>3 DEF QueryEnds, TypeOK
<1>4. CASE Crash
  BY <1>4 DEF Crash
<1> QED
  BY <1>1, <1>2, <1>3, <1>4 DEF Next, vars, ImportNext, CreateNamespace, DeleteNamespace,
    CreateTable, UpdateTable, DeleteTable, ImportStart, ImportWrite, ImportWriteFails,
    ImportPublish, ImportPublishFails, ImportCommit, ImportCommitFails, ImportReadBack,
    ImportReadBackFails, ImportRestore, ImportRestoreFails, UndoData, UndoDataFails, UndoDone

(* The order of an import's steps, and what it keeps from one to the next. *)
LEMMA PcStep ==
  ASSUME TypeOK, [Next]_vars
  PROVE  \/ pc' = "idle"
         \/ \E i \in Imports, t \in Tables : ImportStart(i, t)
         \/ /\ pc # "idle" /\ UNCHANGED frame
            /\ pc' = "write"    => pc = "write"
            /\ pc' = "publish"  => pc \in {"publish", "write"}
            /\ pc' = "commit"   => pc \in {"commit", "publish"}
            /\ pc' = "readback" => pc \in {"readback", "commit"}
            /\ pc' = "restore"  => \/ pc \in {"restore", "commit"}
                                   \/ pc = "readback" /\ (at[tab] = None \/ "read" \in seen')
                                      /\ UNCHANGED <<at, lists>>
            /\ pc' = "undo"     => pc \in {"undo", "write", "publish", "restore"}
<1>1. CASE UNCHANGED <<pc, frame>>
  BY <1>1
<1> QED
  BY <1>1 DEF Next, vars, ImportNext, Finish, frame, catalogVars, CreateNamespace,
    DeleteNamespace, CreateTable, UpdateTable, DeleteTable, ImportWrite, ImportWriteFails,
    ImportPublish, ImportPublishFails, ImportCommit, ImportCommitFails, ImportReadBack,
    ImportReadBackFails, ImportRestore, ImportRestoreFails, UndoData, UndoDataFails, UndoDone,
    Crash, Snapshot, QueryEnds

LEMMA ProgressStep ==
  ASSUME TypeOK, Progress, Fresh, [Next]_vars
  PROVE  Progress'
<1> USE NPartsAssumption, NoneAssumption
<1>1. CASE CreateNamespace
  BY <1>1 DEF CreateNamespace, TypeOK, Progress, Fresh, Whole, catalogVars, frame, Listed, Parts
<1>2. CASE DeleteNamespace
  BY <1>2 DEF DeleteNamespace, TypeOK, Progress, Fresh, Whole, catalogVars, frame, Listed, Parts
<1>3. ASSUME NEW t \in Tables, CreateTable(t) PROVE Progress'
  BY <1>3 DEF CreateTable, TypeOK, Progress, Fresh, Whole, catalogVars, frame, Listed, Parts
<1>4. ASSUME NEW t \in Tables, UpdateTable(t) PROVE Progress'
  BY <1>4 DEF UpdateTable, TypeOK, Progress, Fresh, Whole, catalogVars, frame, Listed, Parts
<1>5. ASSUME NEW t \in Tables, DeleteTable(t) PROVE Progress'
  BY <1>5 DEF DeleteTable, TypeOK, Progress, Fresh, Whole, catalogVars, frame, Listed, Parts
<1>6. ASSUME NEW i \in Imports, NEW t \in Tables, ImportStart(i, t) PROVE Progress'
  BY <1>6 DEF ImportStart, TypeOK, Progress, Fresh, Whole, catalogVars, frame, Listed, Parts
<1>7. CASE ImportWrite
  BY <1>7 DEF ImportWrite, TypeOK, Progress, Fresh, Whole, catalogVars, frame, Listed, Parts
<1>8. CASE ImportWriteFails
  BY <1>8 DEF ImportWriteFails, Raises, TypeOK, Progress, Fresh, Whole, catalogVars, frame,
    Listed, Parts
<1>9. CASE ImportPublish
  BY <1>9 DEF ImportPublish, TypeOK, Progress, Fresh, Whole, catalogVars, frame, Listed, Parts
<1>10. CASE ImportPublishFails
  BY <1>10 DEF ImportPublishFails, Raises, TypeOK, Progress, Fresh, Whole, catalogVars, frame,
    Listed, Parts
<1>11. CASE ImportCommit
  BY <1>11 DEF ImportCommit, TypeOK, Progress, Fresh, Whole, catalogVars, frame, Listed, Parts
<1>12. CASE ImportCommitFails
  BY <1>12 DEF ImportCommitFails, TypeOK, Progress, Fresh, Whole, catalogVars, frame, Listed,
    Parts
<1>13. CASE ImportReadBack
  BY <1>13 DEF ImportReadBack, Finish, TypeOK, Progress, Fresh, Whole, catalogVars, frame,
    Listed, Parts
<1>14. CASE ImportReadBackFails
  BY <1>14 DEF ImportReadBackFails, TypeOK, Progress, Fresh, Whole, catalogVars, frame,
    Listed, Parts
<1>15. CASE ImportRestore
  BY <1>15 DEF ImportRestore, TypeOK, Progress, Fresh, Whole, catalogVars, frame, Listed, Parts
<1>16. CASE ImportRestoreFails
  BY <1>16 DEF ImportRestoreFails, Finish, Raises, TypeOK, Progress, Fresh, Whole,
    catalogVars, frame, Listed, Parts
<1>17. CASE UndoData
  BY <1>17 DEF UndoData, TypeOK, Progress, Fresh, Whole, catalogVars, frame, Listed, Parts
<1>18. CASE UndoDataFails
  BY <1>18 DEF UndoDataFails, Finish, Raises, TypeOK, Progress, Fresh, Whole, catalogVars,
    frame, Listed, Parts
<1>19. CASE UndoDone
  BY <1>19 DEF UndoDone, Finish, TypeOK, Progress, Fresh, Whole, catalogVars, frame, Listed,
    Parts
<1>20. CASE Crash
  BY <1>20 DEF Crash, Finish, TypeOK, Progress, Fresh, Whole, catalogVars, frame, Listed, Parts
<1>21. ASSUME NEW r \in Readers, Snapshot(r) PROVE Progress'
  BY <1>21 DEF Snapshot, TypeOK, Progress, Fresh, Whole, catalogVars, frame, Listed, Parts
<1>22. ASSUME NEW r \in Readers, QueryEnds(r) PROVE Progress'
  BY <1>22 DEF QueryEnds, TypeOK, Progress, Fresh, Whole, catalogVars, frame, Listed, Parts
<1>23. CASE UNCHANGED vars
  BY <1>23 DEF vars, TypeOK, Progress, Fresh, Whole, catalogVars, frame, Listed, Parts
<1> QED
  BY <1>1, <1>2, <1>3, <1>4, <1>5, <1>6, <1>7, <1>8, <1>9, <1>10, <1>11, <1>12, <1>13, <1>14,
    <1>15, <1>16, <1>17, <1>18, <1>19, <1>20, <1>21, <1>22, <1>23 DEF Next, ImportNext

LEMMA FreshStep ==
  ASSUME TypeOK, Progress, Fresh, [Next]_vars
  PROVE  Fresh'
<1> SUFFICES ASSUME NEW j \in Imports, outcome'[j] = "new"
             PROVE  /\ \A t \in Tables : lists'[t] # j
                    /\ \A l \in Locations : manifest'[l] # j
                    /\ \A r \in Readers : snap'[r] # j
                    /\ prev' # j
  BY DEF Fresh
<1> USE NoneAssumption
<1>1. outcome[j] = "new"
  BY DEF Next, vars, ImportNext, Finish, TypeOK, Progress, CreateNamespace, DeleteNamespace,
    CreateTable, UpdateTable, DeleteTable, ImportStart, ImportWrite, ImportWriteFails,
    ImportPublish, ImportPublishFails, ImportCommit, ImportCommitFails, ImportReadBack,
    ImportReadBackFails, ImportRestore, ImportRestoreFails, UndoData, UndoDataFails, UndoDone,
    Crash, Snapshot, QueryEnds
<1>2. pc # "idle" => cur # j
  BY <1>1 DEF TypeOK
<1>3. prev # j /\ \A l \in Locations : manifest[l] # j
  BY <1>1 DEF Fresh
<1>4. \A t \in Tables : lists'[t] # j
  BY <1>1, <1>2, ListsStep DEF Fresh
<1>5. \A l \in Locations : manifest'[l] # j
  BY <1>2, <1>3, ManifestStep
<1>6. \A r \in Readers : snap'[r] # j
  BY <1>1, SnapStep DEF Fresh
<1>7. prev' # j
  BY <1>3 DEF Next, vars, ImportNext, Finish, frame, TypeOK, CreateNamespace, DeleteNamespace,
    CreateTable, UpdateTable, DeleteTable, ImportStart, ImportWrite, ImportWriteFails,
    ImportPublish, ImportPublishFails, ImportCommit, ImportCommitFails, ImportReadBack,
    ImportReadBackFails, ImportRestore, ImportRestoreFails, UndoData, UndoDataFails, UndoDone,
    Crash, Snapshot, QueryEnds
<1> QED
  BY <1>4, <1>5, <1>6, <1>7

LEMMA CascadeStep ==
  ASSUME TypeOK, Progress, Cascade, [Next]_vars
  PROVE  Cascade'
<1> SUFFICES ASSUME NEW u \in Tables, at'[u] = None
             PROVE  lists'[u] = None
  BY DEF Cascade
<1>1. CASE UNCHANGED <<at, lists>>
  BY <1>1 DEF Cascade
<1>2. ASSUME NEW t \in Tables, CreateTable(t) \/ UpdateTable(t) PROVE lists'[u] = None
  BY <1>2, NoneAssumption DEF CreateTable, UpdateTable, Cascade, TypeOK
<1>3. ASSUME NEW t \in Tables, DeleteTable(t) PROVE lists'[u] = None
  BY <1>3 DEF DeleteTable, Cascade, TypeOK
<1>4. CASE ImportCommit
  BY <1>4 DEF ImportCommit, Cascade, TypeOK, Progress
<1> QED
  BY <1>1, <1>2, <1>3, <1>4 DEF Next, vars, ImportNext, catalogVars, CreateNamespace,
    DeleteNamespace, ImportStart, ImportWrite, ImportWriteFails, ImportPublish,
    ImportPublishFails, ImportCommitFails, ImportReadBack, ImportReadBackFails, ImportRestore,
    ImportRestoreFails, UndoData, UndoDataFails, UndoDone, Crash, Snapshot, QueryEnds

LEMMA BaseOK == Spec => []Base
<1>1. Init => Base
  <2> SUFFICES ASSUME Init PROVE Base
    OBVIOUS
  <2> USE NPartsAssumption, NoneAssumption
  <2>1. n \in 0 .. NParts /\ k \in 0 .. NParts
    BY DEF Init
  <2>2. data \in [Imports -> [Parts -> {"absent", "torn", "whole"}]]
    BY DEF Init, Nothing
  <2>3. TypeOK
    BY <2>1, <2>2 DEF Init, TypeOK, Listed
  <2>4. Progress /\ Fresh /\ Cascade
    BY DEF Init, Progress, Fresh, Cascade
  <2> QED
    BY <2>3, <2>4 DEF Base
<1>2. Base /\ [Next]_vars => Base'
  BY TypeStep, ProgressStep, FreshStep, CascadeStep DEF Base
<1> QED
  BY <1>1, <1>2, PTL DEF Spec

LEMMA CatalogStep ==
  ASSUME Base, CatalogInv, [Next]_vars
  PROVE  CatalogInv'
<1> SUFFICES ASSUME "read" \notin seen'
             PROVE  Unlisted' /\ \A t \in Tables : lists'[t] # None => Whole(lists[t])'
  BY DEF CatalogInv, CatalogListsWholeData
<1>0. "read" \notin seen
  BY SeenStep DEF Base
<1> USE NoneAssumption, <1>0 DEF Base
<1>1. Unlisted'
  <2>1. CASE pc' = "idle"
    BY <2>1 DEF Unlisted
  <2>2. ASSUME NEW i \in Imports, NEW t \in Tables, ImportStart(i, t) PROVE Unlisted'
    BY <2>2 DEF ImportStart, Unlisted, Fresh, catalogVars
  <2>3. CASE pc # "idle" /\ UNCHANGED frame /\ pc' # "idle"
    <3>1. cur' = cur /\ tab' = tab /\ cur \in Imports
      BY <2>3 DEF frame, Progress
    <3>2. ASSUME NEW u \in Tables, pc' \in {"write", "publish", "commit", "restore", "undo"}
          PROVE  lists'[u] # cur
      <4>1. CASE pc \in {"write", "publish", "commit", "restore", "undo"}
        BY <3>1, <3>2, <4>1, ListsStep DEF CatalogInv, Unlisted
      <4>2. CASE pc = "readback"
        <5>1. at[tab] = None /\ UNCHANGED <<at, lists>>
          BY <2>3, <3>2, <4>2, PcStep DEF ImportStart
        <5> QED
          BY <3>1, <4>2, <5>1 DEF CatalogInv, Unlisted, Cascade
      <4> QED
        BY <2>3, <4>1, <4>2 DEF TypeOK
    <3>3. ASSUME NEW u \in Tables, pc' = "readback", u # tab PROVE lists'[u] # cur
      <4>1. pc \in {"readback", "commit"}
        BY <2>3, <3>3, PcStep DEF ImportStart
      <4> QED
        BY <3>1, <3>3, <4>1, ListsStep DEF CatalogInv, Unlisted
    <3> QED
      BY <3>1, <3>2, <3>3 DEF Unlisted
  <2> QED
    BY <2>1, <2>2, <2>3, PcStep
<1>2. ASSUME NEW u \in Tables, lists'[u] # None PROVE Whole(lists[u])'
  <2>1. CASE lists'[u] = lists[u]
    <3>1. lists[u] \in Imports /\ Whole(lists[u])
      BY <1>2, <2>1 DEF CatalogInv, CatalogListsWholeData, TypeOK, Listed
    <3>2. ~(pc \in {"write", "undo"} /\ lists[u] = cur)
      BY DEF CatalogInv, Unlisted
    <3> QED
      BY <2>1, <3>1, <3>2, DataStep DEF Whole
  <2>2. CASE pc = "commit" /\ lists'[u] = cur
    <3>1. cur \in Imports /\ Whole(cur)
      BY <2>2 DEF Progress
    <3> QED
      BY <2>2, <3>1, DataStep DEF Whole
  <2> QED
    BY <1>2, <2>1, <2>2, ListsStep
<1> QED
  BY <1>1, <1>2

LEMMA ManifestInvStep ==
  ASSUME Base, ManifestInv, [Next]_vars
  PROVE  ManifestInv'
<1> SUFFICES ASSUME "lost" \notin seen'
             PROVE  /\ Unpublished'
                    /\ \A l \in Locations : manifest'[l] # None => Whole(manifest[l])'
  BY DEF ManifestInv, ManifestListsWholeData
<1>0. "lost" \notin seen
  BY SeenStep DEF Base
<1> USE NoneAssumption, <1>0 DEF Base
<1>1. ASSUME NEW m \in Locations, manifest'[m] # None PROVE Whole(manifest[m])'
  <2>1. CASE manifest'[m] = manifest[m]
    <3>1. manifest[m] \in Imports /\ Whole(manifest[m])
      BY <1>1, <2>1 DEF ManifestInv, ManifestListsWholeData, TypeOK, Listed
    <3>2. ~(pc \in {"write", "undo"} /\ manifest[m] = cur)
      BY DEF ManifestInv, Unpublished
    <3> QED
      BY <2>1, <3>1, <3>2, DataStep DEF Whole
  <2>2. CASE pc = "publish" /\ manifest'[m] = cur
    <3>1. cur \in Imports /\ Whole(cur)
      BY <2>2 DEF Progress
    <3> QED
      BY <2>2, <3>1, DataStep DEF Whole
  <2>3. CASE pc = "restore" /\ manifest'[m] = prev
    <3>1. prev \in Imports /\ Whole(prev)
      BY <1>1, <2>3 DEF ManifestInv, Unpublished, TypeOK, Listed
    <3> QED
      BY <2>3, <3>1, DataStep DEF Whole
  <2> QED
    BY <2>1, <2>2, <2>3, ManifestStep
<1>2. Unpublished'
  <2>1. CASE pc' = "idle"
    BY <2>1 DEF Unpublished
  <2>2. ASSUME NEW i \in Imports, NEW t \in Tables, ImportStart(i, t) PROVE Unpublished'
    <3>1. pc' = "write" /\ cur' = i /\ prev' = manifest[at[t]] /\ data' = data
          /\ manifest' = manifest /\ at[t] \in Locations
      BY <2>2 DEF ImportStart, TypeOK
    <3>2. \A l \in Locations : manifest[l] # i
      BY <2>2 DEF ImportStart, Fresh
    <3>3. prev' # None => Whole(prev)'
      BY <3>1 DEF ManifestInv, ManifestListsWholeData, Whole
    <3> QED
      BY <3>1, <3>2, <3>3 DEF Unpublished
  <2>3. CASE pc # "idle" /\ UNCHANGED frame /\ pc' # "idle"
    <3>1. cur' = cur /\ loc' = loc /\ prev' = prev /\ prev # cur /\ cur \in Imports
      BY <2>3 DEF frame, Progress
    <3>2. ASSUME NEW m \in Locations, pc' \in {"write", "publish", "undo"}
          PROVE  manifest'[m] # cur
      <4>1. pc \in {"write", "publish", "undo", "restore"}
        BY <2>3, <3>2, PcStep DEF ImportStart
      <4>2. CASE pc = "restore"
        <5>1. pc' = "undo"
          BY <2>3, <3>2, <4>2, PcStep DEF ImportStart
        <5> QED
          BY <3>1, <4>2, <5>1, ManifestStep DEF ManifestInv, Unpublished
      <4>3. CASE pc \in {"write", "publish", "undo"}
        BY <3>1, <3>2, <4>3, ManifestStep DEF ManifestInv, Unpublished
      <4> QED
        BY <4>1, <4>2, <4>3
    <3>3. ASSUME NEW m \in Locations, m # loc PROVE manifest'[m] # cur
      BY <2>3, <3>1, <3>3, ManifestStep DEF ManifestInv, Unpublished, TypeOK
    <3>4. prev # None => Whole(prev)'
      <4>1. prev # None => prev \in Imports /\ Whole(prev)
        BY <2>3 DEF ManifestInv, Unpublished, TypeOK, Listed
      <4> QED
        BY <3>1, <4>1, DataStep DEF Whole
    <3> QED
      BY <3>1, <3>2, <3>3, <3>4 DEF Unpublished, Whole
  <2> QED
    BY <2>1, <2>2, <2>3, PcStep
<1> QED
  BY <1>1, <1>2

LEMMA ReaderStep ==
  ASSUME Base, CatalogInv, ReaderInv, [Next]_vars
  PROVE  ReaderInv'
<1> SUFFICES ASSUME {"redefined", "read"} \cap seen' = {}
             PROVE  Unread' /\ \A r \in Readers : snap'[r] # None => Whole(snap[r])'
  BY DEF ReaderInv, SnapshotsStayReadable, ScansAreWhole
<1>0. "read" \notin seen' /\ "read" \notin seen /\ {"redefined", "read"} \cap seen = {}
  BY SeenStep DEF Base
<1> USE NoneAssumption, <1>0 DEF Base
<1>1. ASSUME NEW u \in Tables, at[u] # None PROVE at'[u] # None
  BY <1>1, SeenStep
<1>2. Unread'
  <2>1. CASE pc' = "idle"
    BY <2>1 DEF Unread
  <2>2. ASSUME NEW i \in Imports, NEW t \in Tables, ImportStart(i, t) PROVE Unread'
    BY <2>2 DEF ImportStart, Unread, Fresh, catalogVars
  <2>3. CASE pc # "idle" /\ UNCHANGED frame /\ pc' # "idle"
    <3>1. cur' = cur /\ tab' = tab /\ cur \in Imports /\ tab \in Tables
      BY <2>3 DEF frame, Progress
    <3>2. at[tab] # None
      BY <2>3 DEF ReaderInv, Unread
    <3>3. ASSUME NEW q \in Readers, pc' \in {"write", "publish", "commit", "restore", "undo"}
          PROVE  snap'[q] # cur
      <4>1. pc \in {"write", "publish", "commit", "restore", "undo"}
        BY <2>3, <3>2, <3>3, PcStep DEF ImportStart
      <4> QED
        BY <3>1, <4>1, SnapStep DEF CatalogInv, Unlisted, ReaderInv, Unread
    <3> QED
      BY <1>1, <3>1, <3>2, <3>3 DEF Unread
  <2> QED
    BY <2>1, <2>2, <2>3, PcStep
<1>3. ASSUME NEW q \in Readers, snap'[q] # None PROVE Whole(snap[q])'
  <2>1. CASE snap'[q] = snap[q]
    <3>1. snap[q] \in Imports /\ Whole(snap[q])
      BY <1>3, <2>1 DEF ReaderInv, SnapshotsStayReadable, ScansAreWhole, TypeOK, Listed
    <3>2. ~(pc \in {"write", "undo"} /\ snap[q] = cur)
      BY DEF ReaderInv, Unread
    <3> QED
      BY <2>1, <3>1, <3>2, DataStep DEF Whole
  <2>2. ASSUME NEW t \in Tables, lists[t] # None, snap'[q] = lists[t] PROVE Whole(snap[q])'
    <3>1. lists[t] \in Imports /\ Whole(lists[t])
      BY <2>2 DEF CatalogInv, CatalogListsWholeData, TypeOK, Listed
    <3>2. ~(pc \in {"write", "undo"} /\ lists[t] = cur)
      BY DEF CatalogInv, Unlisted
    <3> QED
      BY <2>2, <3>1, <3>2, DataStep DEF Whole
  <2> QED
    BY <1>3, <2>1, <2>2, SnapStep
<1> QED
  BY <1>2, <1>3

LEMMA InitOK == Init => CatalogInv /\ ManifestInv /\ ReaderInv
BY DEF Init, CatalogInv, Unlisted, CatalogListsWholeData, ManifestInv, Unpublished,
       ManifestListsWholeData, ReaderInv, Unread, SnapshotsStayReadable,
       ScansAreWhole

-----------------------------------------------------------------------------
(* Catalog, store and importer keep their types, and the lock is held exactly by *)
(* the import in progress (importer.py 39, 47).                                   *)
THEOREM TypeCorrect == Spec => []TypeOK
<1>1. Base => TypeOK
  BY DEF Base
<1> QED
  BY <1>1, BaseOK, PTL

(* Until the read after a commit has raised, the catalog lists complete          *)
(* files only: through failures of every store call and every transaction, lost   *)
(* answers, crashes and concurrent DDL (importer.py 80-131, repository.py 304-405). *)
THEOREM CatalogIsSound == Spec => []CatalogListsWholeData
<1>1. Init => CatalogInv
  BY InitOK
<1>2. Base /\ CatalogInv /\ [Next]_vars => CatalogInv'
  BY CatalogStep
<1>3. CatalogInv => CatalogListsWholeData
  BY DEF CatalogInv
<1> QED
  BY <1>1, <1>2, <1>3, BaseOK, PTL DEF Spec

(* Until the answer of a store call has been lost, every published               *)
(* manifest lists complete files only, also after a rollback (importer.py 112-131). *)
THEOREM ManifestIsSound == Spec => []ManifestListsWholeData
<1>1. Init => ManifestInv
  BY InitOK
<1>2. Base /\ ManifestInv /\ [Next]_vars => ManifestInv'
  BY ManifestInvStep
<1>3. ManifestInv => ManifestListsWholeData
  BY DEF ManifestInv
<1> QED
  BY <1>1, <1>2, <1>3, BaseOK, PTL DEF Spec

(* Until a table is dropped or moved, the files a query has found in the catalog   *)
(* stay until it ends (queries.py 225, importer.py 122-131).                      *)
THEOREM SnapshotsAreSafe == Spec => []SnapshotsStayReadable
<1>1. Init => CatalogInv /\ ReaderInv
  BY InitOK
<1>2. Base /\ CatalogInv /\ [Next]_vars => CatalogInv'
  BY CatalogStep
<1>3. Base /\ CatalogInv /\ ReaderInv /\ [Next]_vars => ReaderInv'
  BY ReaderStep
<1>4. ReaderInv => SnapshotsStayReadable
  BY DEF ReaderInv
<1> QED
  BY <1>1, <1>2, <1>3, <1>4, BaseOK, PTL DEF Spec

-----------------------------------------------------------------------------
(* While nothing troubles the import, tables are only created. A location    *)
(* without a table has no manifest, and the import knows the one it replaces. *)
Empty == \A l \in Locations : (\A t \in Tables : at[t] # l) => manifest[l] = None

Held ==
  /\ pc # "idle" => at[tab] = loc
  /\ pc \in {"write", "publish", "undo"} => manifest[loc] = prev
  /\ pc \in {"commit", "readback", "restore"} => manifest[loc] = cur

(* Manifest m may stand at the location of table t. *)
Stands(t, m) == m = lists[t] \/ (m # None /\ outcome[m] \in {"stuck", "crashed"})

Alone(t) == at[t] # None /\ \A u \in Tables \ {t} : at[u] # at[t]

(* Of the table being imported, it is the manifest to go back to that may stand. *)
Matched(t) ==
  /\ pc \in {"write", "publish", "commit", "restore", "undo"} /\ t = tab => Stands(t, prev)
  /\ pc = "readback" /\ t = tab => lists[t] = cur
  /\ pc = "idle" \/ t # tab => Stands(t, manifest[at[t]])

FollowInv == seen = {} => Empty /\ Held /\ \A t \in Tables : Alone(t) => Matched(t)

(* The import moves on and changes neither catalog nor manifest. *)
LEMMA MoveFollows ==
  ASSUME Empty, Held, \A t \in Tables : Alone(t) => Matched(t),
         UNCHANGED <<at, lists, manifest, outcome, frame>>,
         \/ pc' = pc
         \/ pc \in {"write", "publish", "undo"} /\ pc' \in {"write", "publish", "undo"}
         \/ pc = "commit" /\ pc' = "restore"
  PROVE  Empty' /\ Held' /\ \A t \in Tables : Alone(t)' => Matched(t)'
<1>1. Empty' /\ Held'
  BY DEF Empty, Held, frame
<1>2. ASSUME NEW t \in Tables, Alone(t)' PROVE Matched(t)'
  <2>1. Matched(t)
    BY <1>2 DEF Alone
  <2> QED BY <2>1 DEF Matched, Stands, frame
<1> QED BY <1>1, <1>2

(* What stood still stands when the import ends: it never was the import in progress. *)
LEMMA FinishFollows ==
  ASSUME Base, Empty, Held, \A t \in Tables : Alone(t) => Matched(t), pc # "idle",
         UNCHANGED <<at, lists, manifest>>, NEW result, Finish(result),
         pc \in {"commit", "restore"} => result \in {"stuck", "crashed"}
  PROVE  Empty' /\ Held' /\ \A t \in Tables : Alone(t)' => Matched(t)'
<1>1. /\ cur \in Imports /\ outcome[cur] = "busy" /\ tab \in Tables /\ prev # cur /\ pc' = "idle"
      /\ outcome'[cur] = result /\ \A i \in Imports \ {cur} : outcome'[i] = outcome[i]
  BY DEF Base, Progress, TypeOK, Finish
<1>2. Empty' /\ Held'
  BY <1>1 DEF Empty, Held
<1>3. ASSUME NEW t \in Tables, NEW m \in Listed, Stands(t, m) PROVE m = lists'[t] \/ (m # None /\ outcome'[m] \in {"stuck", "crashed"})
  BY <1>1, <1>3 DEF Stands, Listed
<1>4. ASSUME NEW t \in Tables, Alone(t)' PROVE Matched(t)'
  <2>1. Matched(t) /\ at[t] \in Locations /\ manifest[at[t]] \in Listed /\ prev \in Listed
    BY <1>4 DEF Alone, Base, TypeOK
  <2>2. SUFFICES Stands(t, manifest[at[t]])'
    BY <1>1 DEF Matched
  <2>3. CASE t # tab
    BY <1>3, <2>1, <2>3 DEF Matched, Stands
  <2>4. CASE t = tab /\ pc \in {"write", "publish", "undo"}
    <3>1. manifest[at[t]] = prev /\ Stands(t, prev)
      BY <1>1, <2>1, <2>4 DEF Held, Matched
    <3> QED BY <1>3, <2>1, <3>1 DEF Stands
  <2>5. CASE t = tab /\ pc = "readback"
    BY <1>1, <2>1, <2>5 DEF Held, Matched, Stands
  <2>6. CASE t = tab /\ pc \in {"commit", "restore"}
    <3>1. manifest[at[t]] = cur /\ outcome'[cur] \in {"stuck", "crashed"} /\ cur # None
      BY <1>1, <2>6, NoneAssumption DEF Held
    <3> QED BY <3>1 DEF Stands
  <2> QED BY <2>3, <2>4, <2>5, <2>6 DEF Base, TypeOK
<1> QED BY <1>2, <1>4

LEMMA StartFollows ==
  ASSUME Base, Empty, Held, \A t \in Tables : Alone(t) => Matched(t),
         NEW i \in Imports, NEW u \in Tables, ImportStart(i, u)
  PROVE  Empty' /\ Held' /\ \A t \in Tables : Alone(t)' => Matched(t)'
<1>1. /\ at' = at /\ lists' = lists /\ manifest' = manifest /\ pc = "idle" /\ pc' = "write"
      /\ cur' = i /\ tab' = u /\ loc' = at[u] /\ prev' = manifest[at[u]]
      /\ outcome[i] = "new" /\ \A j \in Imports \ {i} : outcome'[j] = outcome[j]
  BY DEF ImportStart, catalogVars, Base, TypeOK
<1>2. Empty' /\ Held'
  BY <1>1 DEF Empty, Held
<1>3. ASSUME NEW t \in Tables, Alone(t)' PROVE Matched(t)'
  <2>1. Alone(t) /\ at[t] \in Locations /\ manifest[at[t]] \in Listed
    BY <1>1, <1>3 DEF Alone, Base, TypeOK
  <2>2. Stands(t, manifest[at[t]])
    BY <1>1, <2>1 DEF Matched
  <2>3. Stands(t, manifest[at[t]])'
    BY <1>1, <2>1, <2>2 DEF Stands, Listed
  <2> QED BY <1>1, <2>3 DEF Matched, Stands
<1> QED BY <1>2, <1>3

(* The import publishes, commits or restores. *)
LEMMA PublishFollows ==
  ASSUME Base, Empty, Held, \A t \in Tables : Alone(t) => Matched(t), ImportPublish \/ ImportRestore
  PROVE  Empty' /\ Held' /\ \A t \in Tables : Alone(t)' => Matched(t)'
<1>1. /\ at' = at /\ lists' = lists /\ outcome' = outcome /\ cur' = cur /\ tab' = tab
      /\ loc' = loc /\ prev' = prev /\ tab \in Tables /\ loc \in Locations /\ at[tab] = loc
      /\ \A l \in Locations \ {loc} : manifest'[l] = manifest[l]
      /\ pc \in {"publish", "restore"} /\ pc' \in {"commit", "undo"}
  BY DEF ImportPublish, ImportRestore, catalogVars, frame, Base, Progress, TypeOK, Held
<1>2. Held'
  BY <1>1 DEF ImportPublish, ImportRestore, Held, Base, TypeOK
<1>3. Empty'
  BY <1>1 DEF Empty
<1>4. ASSUME NEW t \in Tables, Alone(t)' PROVE Matched(t)'
  <2>1. Alone(t) /\ Matched(t) /\ at[t] \in Locations
    BY <1>1, <1>4 DEF Alone, Base, TypeOK
  <2>2. CASE t = tab
    BY <1>1, <2>1, <2>2 DEF Matched, Stands
  <2>3. CASE t # tab
    <3>1. at[t] # loc
      BY <1>1, <2>1, <2>3 DEF Alone
    <3> QED BY <1>1, <2>1, <2>3, <3>1 DEF Matched, Stands
  <2> QED BY <2>2, <2>3
<1> QED BY <1>2, <1>3, <1>4

LEMMA CommitFollows ==
  ASSUME Base, Empty, Held, \A t \in Tables : Alone(t) => Matched(t), ImportCommit
  PROVE  Empty' /\ Held' /\ \A t \in Tables : Alone(t)' => Matched(t)'
<1>1. /\ at' = at /\ manifest' = manifest /\ outcome' = outcome /\ cur' = cur /\ tab' = tab
      /\ loc' = loc /\ prev' = prev /\ tab \in Tables /\ pc = "commit" /\ pc' = "readback"
      /\ lists'[tab] = cur /\ \A t \in Tables \ {tab} : lists'[t] = lists[t]
  BY DEF ImportCommit, frame, Base, Progress, TypeOK
<1>2. Empty' /\ Held'
  BY <1>1 DEF Empty, Held
<1>3. ASSUME NEW t \in Tables, Alone(t)' PROVE Matched(t)'
  <2>1. Matched(t)
    BY <1>1, <1>3 DEF Alone
  <2> QED BY <1>1, <2>1 DEF Matched, Stands
<1> QED BY <1>2, <1>3

(* A new table is alone only where there was none, and nothing is listed for it. *)
LEMMA CreateFollows ==
  ASSUME Base, Empty, Held, \A t \in Tables : Alone(t) => Matched(t),
         NEW u \in Tables, CreateTable(u)
  PROVE  Empty' /\ Held' /\ \A t \in Tables : Alone(t)' => Matched(t)'
<1>1. /\ at[u] = None /\ at'[u] \in Locations /\ \A t \in Tables \ {u} : at'[t] = at[t]
      /\ lists' = lists /\ manifest' = manifest /\ outcome' = outcome /\ pc' = pc
      /\ cur' = cur /\ tab' = tab /\ loc' = loc /\ prev' = prev
  BY DEF CreateTable, frame, Base, TypeOK
<1>2. pc # "idle" => tab \in Tables /\ tab # u
  BY <1>1, NoneAssumption DEF Base, Progress, Held
<1>3. Empty'
  BY <1>1, NoneAssumption DEF Empty
<1>4. Held'
  BY <1>1, <1>2 DEF Held, Base, TypeOK
<1>5. ASSUME NEW t \in Tables, Alone(t)' PROVE Matched(t)'
  <2>1. CASE t = u
    <3>1. \A v \in Tables : at[v] # at'[u]
      BY <1>1, <1>5, <2>1, NoneAssumption DEF Alone
    <3>2. manifest[at'[u]] = None /\ lists[u] = None
      BY <1>1, <3>1 DEF Empty, Base, Cascade
    <3> QED BY <1>1, <1>2, <2>1, <3>2 DEF Matched, Stands, Base, TypeOK
  <2>2. CASE t # u
    <3>1. at'[t] = at[t] /\ Alone(t)
      BY <1>1, <1>5, <2>2, NoneAssumption DEF Alone
    <3>2. Matched(t)
      BY <3>1
    <3> QED BY <1>1, <3>1, <3>2 DEF Matched, Stands
  <2> QED BY <2>1, <2>2
<1> QED BY <1>3, <1>4, <1>5

LEMMA FollowStep ==
  ASSUME Base, FollowInv, [Next]_vars
  PROVE  FollowInv'
<1> SUFFICES ASSUME seen' = {} PROVE Empty' /\ Held' /\ \A t \in Tables : Alone(t)' => Matched(t)'
  BY DEF FollowInv
<1>0. Empty /\ Held /\ \A t \in Tables : Alone(t) => Matched(t)
  BY SeenStep DEF Base, FollowInv
<1> DEFINE Goal == Empty' /\ Held' /\ \A t \in Tables : Alone(t)' => Matched(t)'
<1>1. ASSUME \/ CreateNamespace \/ DeleteNamespace \/ ImportWrite \/ ImportWriteFails \/ ImportCommitFails
             \/ UndoData \/ (\E r \in Readers : Snapshot(r) \/ QueryEnds(r)) \/ UNCHANGED vars
      PROVE  Goal
  <2>1. UNCHANGED <<at, lists, manifest, outcome, frame>>
    BY <1>1 DEF CreateNamespace, DeleteNamespace, ImportWrite, ImportWriteFails, ImportCommitFails,
      UndoData, Snapshot, QueryEnds, vars, catalogVars, frame
  <2>2. \/ pc' = pc
        \/ pc \in {"write", "publish", "undo"} /\ pc' \in {"write", "publish", "undo"}
        \/ pc = "commit" /\ pc' = "restore"
    BY <1>1 DEF CreateNamespace, DeleteNamespace, ImportWrite, ImportWriteFails, ImportCommitFails,
      UndoData, Snapshot, QueryEnds, vars
  <2> QED BY <1>0, <2>1, <2>2, MoveFollows
<1>2. ASSUME ImportPublishFails PROVE Goal
  <2>1. manifest' = manifest
    BY <1>2 DEF ImportPublishFails, Raises, Base, TypeOK
  <2>2. UNCHANGED <<at, lists, manifest, outcome, frame>> /\ pc = "publish" /\ pc' = "undo"
    BY <1>2, <2>1 DEF ImportPublishFails, catalogVars
  <2> QED BY <1>0, <2>2, MoveFollows
<1>3. ASSUME ImportRestoreFails \/ UndoDataFails \/ UndoDone \/ ImportReadBack \/ Crash PROVE Goal
  <2>1. manifest' = manifest
    BY <1>3 DEF ImportRestoreFails, UndoDataFails, UndoDone, ImportReadBack, Crash, Raises, Base, TypeOK
  <2>2. UNCHANGED <<at, lists, manifest>> /\ pc # "idle"
    BY <1>3, <2>1 DEF ImportRestoreFails, UndoDataFails, UndoDone, ImportReadBack, Crash, catalogVars
  <2>3. \E result : Finish(result) /\ (pc \in {"commit", "restore"} => result \in {"stuck", "crashed"})
    BY <1>3 DEF ImportRestoreFails, UndoDataFails, UndoDone, ImportReadBack, Crash
  <2> QED BY <1>0, <2>2, <2>3, FinishFollows
<1>4. ~ImportReadBackFails
  <2>1. ASSUME ImportReadBackFails PROVE FALSE
    <3>1. pc = "readback" /\ at[tab] = None
      BY <2>1 DEF ImportReadBackFails
    <3> QED BY <1>0, <3>1, NoneAssumption DEF Held, Base, Progress
  <2> QED BY <2>1
<1>5. \A t \in Tables : ~UpdateTable(t) /\ ~DeleteTable(t)
  BY DEF UpdateTable, DeleteTable
<1> HIDE DEF Goal
<1>6. ASSUME NEW i \in Imports, NEW t \in Tables, ImportStart(i, t) PROVE Goal
  BY <1>0, <1>6, StartFollows DEF Goal
<1>7. ASSUME ImportPublish \/ ImportRestore PROVE Goal
  BY <1>0, <1>7, PublishFollows DEF Goal
<1>8. ASSUME ImportCommit PROVE Goal
  BY <1>0, <1>8, CommitFollows DEF Goal
<1>9. ASSUME NEW t \in Tables, CreateTable(t) PROVE Goal
  BY <1>0, <1>9, CreateFollows DEF Goal
<1>10. Goal
  BY <1>1, <1>2, <1>3, <1>4, <1>5, <1>6, <1>7, <1>8, <1>9 DEF Next, ImportNext
<1> QED BY <1>10 DEF Goal

(* Between imports the manifest at a table's own location is that of the     *)
(* partitions in the catalog, or of an import that was left half way: through *)
(* every failed step and rollback of importer.py, while no table is dropped   *)
(* or moved and no answer is lost.                                            *)
THEOREM ManifestMatchesCatalog == Spec => []ManifestFollowsCatalog
<1>1. Init => FollowInv
  BY DEF Init, FollowInv, Empty, Held, Alone
<1>2. Base /\ FollowInv /\ [Next]_vars => FollowInv'
  BY FollowStep
<1>3. FollowInv => ManifestFollowsCatalog
  BY DEF FollowInv, ManifestFollowsCatalog, Alone, Matched, Stands
<1> QED
  BY <1>1, <1>2, <1>3, BaseOK, PTL DEF Spec

=============================================================================
