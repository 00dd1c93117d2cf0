---------------------------- MODULE CatalogImport ----------------------------
(***************************************************************************)
(* The SQLite catalog and the DataImporter of the Coordinator. An import   *)
(* writes the partition files of a table, publishes the manifest at the    *)
(* table's location, replaces the partitions the catalog lists and, when a *)
(* step raises, takes back what it did. Imports exclude each other by a    *)
(* lock (importer.py 47); DDL and queries run in other threads at any time.*)
(*                                                                         *)
(* An action is one call of the object store or one SQLite transaction. A  *)
(* manifest or a partition list is the import that produced it. The        *)
(* columns, statistics and properties of a table decide no step of the     *)
(* import and are left out; so is PUT on a namespace, which only replaces  *)
(* properties. One namespace stands for all. A history variable, seen,     *)
(* keeps which of three kinds of trouble there has been; the properties    *)
(* say which of them they do not survive.                                  *)
(***************************************************************************)
EXTENDS Naturals

CONSTANTS
  Tables, Locations, Readers,
  Imports,      \* import ids (uuid4)
  NParts,       \* partition_count of a request
  None

ASSUME NPartsAssumption == NParts \in Nat \ {0}
ASSUME NoneAssumption   == None \notin Imports \cup Locations \cup Tables

VARIABLES
  ns,        \* is the namespace in the catalog?
  at,        \* catalog_tables: where a table lives; None when there is no such table
  lists,     \* partitions: the import whose files the catalog lists for a table
  manifest,  \* _manifest.json of a location
  data,      \* the partition files of an import
  outcome,   \* how an import ended
  pc,        \* where the import that holds the lock is
  cur, tab, loc, prev,  \* its import_id, table, table location and previous_manifest
  n,         \* len(written_locations)
  k,         \* files of written_locations the rollback has deleted
  snap,      \* the partition list a running query has taken from the catalog
  seen       \* history: "redefined" when a table has been moved or dropped, "lost" when a
             \* store call has raised after its effect (S3 over HTTP), "read" when the read
             \* after a commit has raised

catalogVars == <<ns, at, lists>>
frame       == <<cur, tab, loc, prev>>
vars == <<ns, at, lists, manifest, data, outcome, pc, cur, tab, loc, prev, n, k, snap, seen>>

Parts   == 0 .. NParts - 1
Listed  == Imports \cup {None}
Ended   == {"ok", "undone", "stuck", "crashed"}
Nothing == [p \in Parts |-> "absent"]
Whole(i) == \A p \in Parts : data[i][p] = "whole"

(* The type invariant: catalog, store and importer keep their types, and the   *)
(* lock is held exactly by the import in progress (importer.py 39, 47).         *)
TypeOK ==
  /\ ns       \in BOOLEAN
  /\ at       \in [Tables -> Locations \cup {None}]
  /\ lists    \in [Tables -> Listed]
  /\ manifest \in [Locations -> Listed]
  /\ data     \in [Imports -> [Parts -> {"absent", "torn", "whole"}]]
  /\ outcome  \in [Imports -> {"new", "busy"} \cup Ended]
  /\ pc       \in {"idle", "write", "publish", "commit", "readback", "restore", "undo"}
  /\ cur      \in Listed /\ tab \in Tables \cup {None}
  /\ loc      \in Locations \cup {None} /\ prev \in Listed
  /\ n        \in 0 .. NParts /\ k \in 0 .. NParts
  /\ snap     \in [Readers -> Listed]
  /\ seen     \subseteq {"redefined", "lost", "read"}
  /\ \A i \in Imports : outcome[i] = "busy" <=> (pc # "idle" /\ cur = i)

Init ==
  /\ ns       = FALSE
  /\ at       = [t \in Tables |-> None]
  /\ lists    = [t \in Tables |-> None]
  /\ manifest = [l \in Locations |-> None]
  /\ data     = [i \in Imports |-> Nothing]
  /\ outcome  = [i \in Imports |-> "new"]
  /\ pc = "idle" /\ cur = None /\ tab = None /\ loc = None /\ prev = None
  /\ n = 0 /\ k = 0
  /\ snap     = [r \in Readers |-> None]
  /\ seen     = {}

-----------------------------------------------------------------------------
(* DDL, each a transaction of a thread of its own *)

CreateNamespace ==
  /\ ~ns
  /\ ns' = TRUE
  /\ UNCHANGED <<at, lists, manifest, data, outcome, pc, frame, n, k, snap, seen>>

(* ON DELETE RESTRICT: a namespace with tables stays. *)
DeleteNamespace ==
  /\ ns
  /\ \A t \in Tables : at[t] = None
  /\ ns' = FALSE
  /\ UNCHANGED <<at, lists, manifest, data, outcome, pc, frame, n, k, snap, seen>>

CreateTable(t) ==
  /\ ns
  /\ at[t] = None
  /\ \E l \in Locations : at' = [at EXCEPT ![t] = l]
  /\ UNCHANGED <<ns, lists, manifest, data, outcome, pc, frame, n, k, snap, seen>>

(* PUT of a table. A request without a location writes back the one read      *)
(* before, by now any location the table has had; the partitions stay.         *)
UpdateTable(t) ==
  /\ at[t] # None
  /\ \E l \in Locations : at' = [at EXCEPT ![t] = l]
  /\ seen' = seen \cup {"redefined"}
  /\ UNCHANGED <<ns, lists, manifest, data, outcome, pc, frame, n, k, snap>>

(* ON DELETE CASCADE: the partitions go with the table, the files do not. *)
DeleteTable(t) ==
  /\ at[t] # None
  /\ at'    = [at EXCEPT ![t] = None]
  /\ lists' = [lists EXCEPT ![t] = None]
  /\ seen'  = seen \cup {"redefined"}
  /\ UNCHANGED <<ns, manifest, data, outcome, pc, frame, n, k, snap>>

-----------------------------------------------------------------------------
(* The import *)

(* Under the lock: the table, the source and the manifest to go back to are read. *)
(* The reads are one step: manifests change under this lock only, and DDL that    *)
(* comes between them finds the import where it is after this step.               *)
ImportStart(i, t) ==
  /\ pc = "idle"
  /\ outcome[i] = "new"
  /\ at[t] # None
  /\ pc'  = "write"
  /\ cur' = i /\ tab' = t /\ loc' = at[t] /\ prev' = manifest[at[t]]
  /\ n' = 0 /\ k' = 0
  /\ outcome' = [outcome EXCEPT ![i] = "busy"]
  /\ UNCHANGED <<catalogVars, manifest, data, snap, seen>>

(* Mutant: the last partition is never written. *)
ImportWriteOneShort ==
  /\ pc = "write"
  /\ data' = [data EXCEPT ![cur][n] = "whole"]
  /\ n'    = n + 1
  /\ pc'   = IF n' >= NParts - 1 THEN "publish" ELSE "write"
  /\ UNCHANGED <<catalogVars, manifest, outcome, frame, k, snap, seen>>

ImportWrite ==
  /\ pc = "write"
  /\ data' = [data EXCEPT ![cur][n] = "whole"]
  /\ n'    = n + 1
  /\ pc'   = IF n' = NParts THEN "publish" ELSE "write"
  /\ UNCHANGED <<catalogVars, manifest, outcome, frame, k, snap, seen>>

(* A store call raises before it has an effect or after: v is what it leaves. *)
Raises(v, before, after) ==
  \/ v = before /\ seen' = seen
  \/ v = after  /\ seen' = seen \cup {"lost"}

(* The exception reaches the handler with manifest_published still FALSE. *)
ImportWriteFails ==
  /\ pc = "write"
  /\ \E d \in {"absent", "torn", "whole"} :
       /\ Raises(d, "absent", "whole") \/ (d = "torn" /\ seen' = seen)
       /\ data' = [data EXCEPT ![cur][n] = d]
  /\ pc' = "undo"
  /\ UNCHANGED <<catalogVars, manifest, outcome, frame, n, k, snap>>

ImportPublish ==
  /\ pc = "publish"
  /\ manifest' = [manifest EXCEPT ![loc] = cur]
  /\ pc' = "commit"
  /\ UNCHANGED <<catalogVars, data, outcome, frame, n, k, snap, seen>>

ImportPublishFails ==
  /\ pc = "publish"
  /\ \E m \in {manifest[loc], cur} :
       Raises(m, manifest[loc], cur) /\ manifest' = [manifest EXCEPT ![loc] = m]
  /\ pc' = "undo"
  /\ UNCHANGED <<catalogVars, data, outcome, frame, n, k, snap>>

(* replace_import_metadata: one transaction. *)
ImportCommit ==
  /\ pc = "commit"
  /\ at[tab] # None
  /\ lists' = [lists EXCEPT ![tab] = cur]
  /\ pc' = "readback"
  /\ UNCHANGED <<ns, at, manifest, data, outcome, frame, n, k, snap, seen>>

(* The table is gone (404, or the foreign key of its partitions) or SQLite      *)
(* fails: nothing is committed.                                                  *)
ImportCommitFails ==
  /\ pc = "commit"
  /\ pc' = "restore"
  /\ UNCHANGED <<catalogVars, manifest, data, outcome, frame, n, k, snap, seen>>

Finish(result) ==
  /\ outcome' = [outcome EXCEPT ![cur] = result]
  /\ pc' = "idle"
  /\ cur' = None /\ tab' = None /\ loc' = None /\ prev' = None

(* Mutant: an import that has succeeded deletes the files it replaces. *)
ImportReadBackCollects ==
  /\ pc = "readback"
  /\ at[tab] # None
  /\ data' = [i \in Imports |-> IF i = prev THEN Nothing ELSE data[i]]
  /\ Finish("ok")
  /\ UNCHANGED <<catalogVars, manifest, n, k, snap, seen>>

(* After the commit, replace_import_metadata reads the table again, outside     *)
(* the transaction. An error here takes the same handler as an error before it. *)
ImportReadBack ==
  /\ pc = "readback"
  /\ at[tab] # None
  /\ Finish("ok")
  /\ UNCHANGED <<catalogVars, manifest, data, n, k, snap, seen>>

ImportReadBackFails ==
  /\ pc = "readback"
  /\ \/ at[tab] = None /\ seen' = seen
     \/ seen' = seen \cup {"read"}
  /\ pc' = "restore"
  /\ UNCHANGED <<catalogVars, manifest, data, outcome, frame, n, k, snap>>

(* Mutant: the handler always deletes the manifest. *)
ImportRestoreDeletes ==
  /\ pc = "restore"
  /\ manifest' = [manifest EXCEPT ![loc] = None]
  /\ pc' = "undo"
  /\ UNCHANGED <<catalogVars, data, outcome, frame, n, k, snap, seen>>

(* The handler: the previous manifest is published again, or the new one        *)
(* deleted when there was none (prev = None).                                    *)
ImportRestore ==
  /\ pc = "restore"
  /\ manifest' = [manifest EXCEPT ![loc] = prev]
  /\ pc' = "undo"
  /\ UNCHANGED <<catalogVars, data, outcome, frame, n, k, snap, seen>>

(* The handler raises before it has deleted a file. *)
ImportRestoreFails ==
  /\ pc = "restore"
  /\ \E m \in {manifest[loc], prev} :
       Raises(m, manifest[loc], prev) /\ manifest' = [manifest EXCEPT ![loc] = m]
  /\ Finish("stuck")
  /\ UNCHANGED <<catalogVars, data, n, k, snap>>

(* written_locations is deleted file by file; an unfinished write is not in it. *)
UndoData ==
  /\ pc = "undo"
  /\ k < n
  /\ data' = [data EXCEPT ![cur][k] = "absent"]
  /\ k'    = k + 1
  /\ UNCHANGED <<catalogVars, manifest, outcome, pc, frame, n, snap, seen>>

UndoDataFails ==
  /\ pc = "undo"
  /\ k < n
  /\ \E d \in {data[cur][k], "absent"} :
       Raises(d, data[cur][k], "absent") /\ data' = [data EXCEPT ![cur][k] = d]
  /\ Finish("stuck")
  /\ UNCHANGED <<catalogVars, manifest, n, k, snap>>

UndoDone ==
  /\ pc = "undo"
  /\ k = n
  /\ Finish("undone")
  /\ UNCHANGED <<catalogVars, manifest, data, n, k, snap, seen>>

-----------------------------------------------------------------------------
(* Death and restart of the Coordinator: catalog and store stay, the import     *)
(* ends where it is, perhaps in the middle of a write, and the queries are gone. *)
Crash ==
  /\ pc # "idle"
  /\ \/ data' = data
     \/ pc = "write" /\ data' = [data EXCEPT ![cur][n] = "torn"]
  /\ Finish("crashed")
  /\ snap' = [r \in Readers |-> None]
  /\ UNCHANGED <<catalogVars, manifest, n, k, seen>>

(* A query takes the catalog's partition list when it is planned and scans the  *)
(* files on the list until it ends.                                              *)
Snapshot(r) ==
  /\ snap[r] = None
  /\ \E t \in Tables : lists[t] # None /\ snap' = [snap EXCEPT ![r] = lists[t]]
  /\ UNCHANGED <<catalogVars, manifest, data, outcome, pc, frame, n, k, seen>>

QueryEnds(r) ==
  /\ snap[r] # None
  /\ snap' = [snap EXCEPT ![r] = None]
  /\ UNCHANGED <<catalogVars, manifest, data, outcome, pc, frame, n, k, seen>>

ImportNext ==
  \/ \E i \in Imports, t \in Tables : ImportStart(i, t)
  \/ ImportWrite   \/ ImportWriteFails   \/ ImportPublish  \/ ImportPublishFails
  \/ ImportCommit  \/ ImportCommitFails  \/ ImportReadBack \/ ImportReadBackFails
  \/ ImportRestore \/ ImportRestoreFails
  \/ UndoData      \/ UndoDataFails      \/ UndoDone

Next ==
  \/ CreateNamespace \/ DeleteNamespace
  \/ \E t \in Tables : CreateTable(t) \/ UpdateTable(t) \/ DeleteTable(t)
  \/ ImportNext
  \/ Crash
  \/ \E r \in Readers : Snapshot(r) \/ QueryEnds(r)

Spec == Init /\ [][Next]_vars

-----------------------------------------------------------------------------
(* The catalog never lists a file that is missing or torn, whatever the store   *)
(* does, wherever the Coordinator dies and while tables are dropped, moved and   *)
(* made again, until the read after a commit has raised (importer.py 80-131,     *)
(* repository.py 304-405).                                                       *)
CatalogListsWholeData ==
  "read" \notin seen => \A t \in Tables : lists[t] # None => Whole(lists[t])

(* Every published manifest lists only complete files, also the one a failed    *)
(* import puts back (importer.py 112-131), until an answer of the store is lost. *)
ManifestListsWholeData ==
  "lost" \notin seen => \A l \in Locations : manifest[l] # None => Whole(manifest[l])

(* Between imports the manifest of a table's own location is that of the        *)
(* partitions in the catalog, unless it belongs to an import that a crash or a   *)
(* failed rollback has left half way (importer.py 103-131).                      *)
ManifestFollowsCatalog ==
  pc = "idle" /\ seen = {} =>
    \A t \in Tables :
      LET l == at[t] IN
      /\ l # None
      /\ \A u \in Tables \ {t} : at[u] # l
      => \/ manifest[l] = lists[t]
         \/ manifest[l] # None /\ outcome[manifest[l]] \in {"stuck", "crashed"}

ScansAreWhole == \A r \in Readers : snap[r] # None => Whole(snap[r])

(* What a query has found in the catalog stays there to be scanned until the    *)
(* query ends, also when the table is imported again or the new import is undone *)
(* (queries.py 225, files.py 40-52), while no table is dropped or moved.         *)
SnapshotsStayReadable == {"redefined", "read"} \cap seen = {} => ScansAreWhole

(* "Immutable files" (importer.py 1): a file the catalog has listed is never     *)
(* deleted under a query, DDL or not.  The code does not satisfy this.           *)
FilesAreImmutable == {"lost", "read"} \cap seen = {} => ScansAreWhole
=============================================================================
