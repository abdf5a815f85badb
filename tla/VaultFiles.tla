----------------------------- MODULE VaultFiles -----------------------------
(***************************************************************************)
(* The files of one knowledge base on disk and their rows (vault_files):   *)
(* API calls of vault/service.py, other programs that edit the same        *)
(* directory, and the full scans of vault/sync.py that bring the rows back *)
(* to what is on disk.                                                     *)
(*                                                                         *)
(* An API call reads row and file without a lock, changes the disk at once *)
(* and its row at commit.  A scan lists the directory, reads one file      *)
(* after another, then the rows, and commits what it has found different:  *)
(* calls may commit in between.  A knowledge base has scans only while it  *)
(* has an index that is building, ready or active.  Every row, tombstones  *)
(* included, has a path of its own (uq_vault_file_path_in_knowledge_base). *)
(***************************************************************************)
EXTENDS Integers, Sequences, FiniteSets, Functions

CONSTANTS
    PathOrder,       \* the paths, in the order a scan walks them
    VaultContents,   \* contents, one hash each
    Inodes,          \* identities the file system may give a file
    VaultCalls,      \* API calls under way at a time
    MaxEdits         \* changes users make, through the API or not

Paths == {PathOrder[i] : i \in DOMAIN PathOrder}
FileIds == DOMAIN PathOrder   \* no two rows share a path
Gone == [content |-> "none", inode |-> 0]

ASSUME VaultAssumption ==
    /\ PathOrder \in Seq(Paths) /\ PathOrder # <<>>
    /\ Inodes \subseteq Nat \ {0} /\ MaxEdits \in Nat
    /\ IsFiniteSet(Inodes) /\ Cardinality(Inodes) > Len(PathOrder)
    /\ VaultContents # {} /\ "none" \notin VaultContents
    /\ \A i, j \in DOMAIN PathOrder : PathOrder[i] = PathOrder[j] => i = j

VARIABLES
    disk,    \* path -> content and inode
    row,     \* file -> its vault_files row
    vcall,   \* API call -> what it does and how far it is
    scan,    \* the scan job the reservation key belongs to, and what it read
    base,    \* the knowledge base: with an index scans may target, or without
    edits    \* changes users made

vaultVars == <<disk, row, vcall, scan, base, edits>>

NoRow == [path |-> "none", hash |-> "none", inode |-> 0, tomb |-> TRUE]
NoVaultCall == [op |-> "none", step |-> "none"]
NoScan == [state |-> "none", todo |-> {}, found |-> {},
           seen |-> [p \in Paths |-> Gone], rows |-> [f \in FileIds |-> NoRow]]

DiskFile == {Gone} \cup [content : VaultContents, inode : Inodes]
VaultRow == {NoRow} \cup [path : Paths, hash : VaultContents,
                          inode : Inodes \cup {0}, tomb : BOOLEAN]
VaultCallRow ==
    {NoVaultCall} \cup
    [op : {"create", "update", "move", "delete"},
     step : {"read", "flushed", "changed"},
     file : FileIds \cup {0}, path : Paths, target : Paths,
     before : VaultContents \cup {"none"}, content : VaultContents]
ScanRow == [state : {"none", "queued", "running", "compared", "ended"},
            todo : SUBSET Paths, found : SUBSET Paths,
            seen : [Paths -> DiskFile], rows : [FileIds -> VaultRow]]

\* A knowledge base that is new, or, so that short runs meet it, one with a
\* history: a file that a scan has recorded, and others that were deleted.
VaultInit ==
    /\ \/ /\ disk = [p \in Paths |-> Gone]
          /\ row = [f \in FileIds |-> NoRow]
       \/ LET c == CHOOSE d \in VaultContents : TRUE
              i == CHOOSE j \in Inodes : TRUE
              k == CHOOSE j \in Inodes \ {i} : TRUE IN
           /\ disk = [[p \in Paths |-> Gone] EXCEPT ![PathOrder[1]] =
                        [content |-> c, inode |-> i]]
           /\ row = [f \in FileIds |->
                       [path |-> PathOrder[f], hash |-> c,
                        inode |-> IF f = 1 THEN i ELSE k, tomb |-> f # 1]]
    /\ vcall = [a \in VaultCalls |-> NoVaultCall]
    /\ scan = NoScan
    /\ base = "bare"
    /\ edits = 0

Exists(f) == row[f] # NoRow
Live(f) == Exists(f) /\ ~row[f].tomb
FreeInodes == Inodes \ {disk[p].inode : p \in Paths}
Edit == base # "deleted" /\ edits < MaxEdits /\ edits' = edits + 1

-----------------------------------------------------------------------------
(* The knowledge base                                                      *)

\* A document's upload makes an index; its builds fail, or a migration's
\* rollback retires the only one.
IndexChanges ==
    /\ \/ base = "bare" /\ base' = "indexed"
       \/ base = "indexed" /\ base' = "bare"
    /\ UNCHANGED <<disk, row, vcall, scan, edits>>

\* Deleted, with its rows and its scan; refused while that is running, and
\* waiting while a call has one of the rows locked.  The directory goes later,
\* and calls under way may still write to it.
DeleteVault ==
    /\ base # "deleted" /\ scan.state \notin {"running", "compared"}
    /\ \A a \in VaultCalls : ~ (vcall[a].op = "delete"
                               /\ vcall[a].step \in {"flushed", "changed"})
    /\ base' = "deleted"
    /\ row' = [f \in FileIds |-> NoRow]
    /\ scan' = NoScan
    /\ UNCHANGED <<disk, vcall, edits>>

-----------------------------------------------------------------------------
(* Other programs                                                          *)

\* Saved as a new file, or written in place.
ExternalWrite(p) ==
    /\ Edit
    /\ \E c \in VaultContents, i \in FreeInodes \cup ({disk[p].inode} \ {0}) :
        disk' = [disk EXCEPT ![p] = [content |-> c, inode |-> i]]
    /\ UNCHANGED <<row, vcall, scan, base>>

ExternalRemove(p) ==
    /\ Edit
    /\ disk[p] # Gone
    /\ disk' = [disk EXCEPT ![p] = Gone]
    /\ UNCHANGED <<row, vcall, scan, base>>

ExternalRename(p, q) ==
    /\ Edit
    /\ p # q /\ disk[p] # Gone
    /\ disk' = [disk EXCEPT ![p] = Gone, ![q] = disk[p]]
    /\ UNCHANGED <<row, vcall, scan, base>>

-----------------------------------------------------------------------------
(* API calls                                                               *)

BeginVaultCall(a, what) ==
    /\ Edit
    /\ vcall[a] = NoVaultCall
    /\ vcall' = [vcall EXCEPT ![a] = what]
    /\ UNCHANGED <<disk, row, scan, base>>

\* create: no live row has the path; the disk is not looked at.
BeginCreate(a) ==
    \E p \in Paths, c \in VaultContents :
        LET old == {f \in FileIds : Exists(f) /\ row[f].path = p} IN
        /\ \A f \in old : row[f].tomb
        /\ BeginVaultCall(a,
             [op |-> "create", step |-> "read",
              file |-> IF old = {} THEN 0 ELSE CHOOSE f \in old : TRUE,
              path |-> p, target |-> p, before |-> "none", content |-> c])

\* read: the file has the hash of its row, and the caller expects that hash.
Readable(f) == Live(f) /\ disk[row[f].path].content = row[f].hash

BeginUpdate(a) ==
    \E f \in FileIds, c \in VaultContents :
        /\ Readable(f)
        /\ BeginVaultCall(a,
             [op |-> "update", step |-> "read", file |-> f,
              path |-> row[f].path, target |-> row[f].path,
              before |-> row[f].hash, content |-> c])

BeginMove(a) ==
    \E f \in FileIds, q \in Paths :
        /\ Readable(f)
        /\ \A g \in FileIds \ {f} : Exists(g) => row[g].path # q
        /\ BeginVaultCall(a,
             [op |-> "move", step |-> "read", file |-> f,
              path |-> row[f].path, target |-> q,
              before |-> row[f].hash, content |-> row[f].hash])

BeginDelete(a) ==
    \E f \in FileIds :
        /\ Readable(f)
        /\ BeginVaultCall(a,
             [op |-> "delete", step |-> "read", file |-> f,
              path |-> row[f].path, target |-> row[f].path,
              before |-> row[f].hash, content |-> row[f].hash])

At(a, op, step) == vcall[a].op = op /\ vcall[a].step = step

\* A delete has written its tombstone, and keeps the row locked to its commit.
RowLocked(f, a) ==
    \E b \in VaultCalls \ {a} :
        /\ vcall[b].op = "delete" /\ vcall[b].file = f
        /\ vcall[b].step \in {"flushed", "changed"}

FlushTombstone(a) ==
    /\ At(a, "delete", "read")
    /\ ~RowLocked(vcall[a].file, a)
    /\ vcall' = [vcall EXCEPT ![a].step = "flushed"]
    /\ UNCHANGED <<disk, row, scan, base, edits>>

\* atomic_write, or os.replace onto a path that is free, or unlink.
ChangeDisk(a) ==
    LET w == vcall[a] IN
    /\ \/ /\ w.op \in {"create", "update"} /\ w.step = "read"
          /\ \E i \in FreeInodes :
               disk' = [disk EXCEPT ![w.path] =
                          [content |-> w.content, inode |-> i]]
       \/ /\ At(a, "move", "read")
          /\ disk[w.path] # Gone /\ disk[w.target] = Gone
          /\ disk' = [disk EXCEPT ![w.path] = Gone, ![w.target] = disk[w.path]]
       \/ /\ At(a, "delete", "flushed")
          /\ disk[w.path] # Gone
          /\ disk' = [disk EXCEPT ![w.path] = Gone]
    /\ vcall' = [vcall EXCEPT ![a].step = "changed"]
    /\ UNCHANGED <<row, scan, base, edits>>

\* The session writes the columns the call has set to another value.
Committed(w) ==
    LET new == CHOOSE f \in FileIds : ~Exists(f) IN
    CASE w.op = "create" /\ w.file = 0 ->
           [row EXCEPT ![new] = [path |-> w.path, hash |-> w.content,
                                 inode |-> 0, tomb |-> FALSE]]
      [] w.op = "create" /\ w.file # 0 ->
           [row EXCEPT ![w.file].hash = w.content, ![w.file].tomb = FALSE]
      [] w.op = "update" ->
           [row EXCEPT ![w.file].hash =
                          IF w.content = w.before THEN @ ELSE w.content]
      [] w.op = "move" -> [row EXCEPT ![w.file].path = w.target]
      [] w.op = "delete" -> [row EXCEPT ![w.file].tomb = TRUE]

OnePathEach(rows) ==
    \A f, g \in FileIds :
        f # g /\ rows[f] # NoRow /\ rows[g] # NoRow => rows[f].path # rows[g].path

PathTaken(p) == \E f \in FileIds : Exists(f) /\ row[f].path = p

CommitVaultCall(a) ==
    LET w == vcall[a] IN
    /\ w.step = "changed" /\ base # "deleted"
    /\ ~RowLocked(w.file, a)
    /\ w.file = 0 => ~PathTaken(w.path)
    /\ OnePathEach(Committed(w))
    /\ row' = Committed(w)
    /\ vcall' = [vcall EXCEPT ![a] = NoVaultCall]
    /\ UNCHANGED <<disk, scan, base, edits>>

\* A refusal, an I/O error, a unique path that is taken, a lost connection: the
\* database rolls back and the disk stays as it is.
AbortVaultCall(a) ==
    /\ vcall[a] # NoVaultCall
    /\ vcall' = [vcall EXCEPT ![a] = NoVaultCall]
    /\ UNCHANGED <<disk, row, scan, base, edits>>

-----------------------------------------------------------------------------
(* Scans                                                                   *)

\* Variant: the reservation of a job that has ended is not released.
RequestScanOnce ==
    /\ base = "indexed"
    /\ scan.state = "none"
    /\ scan' = [NoScan EXCEPT !.state = "queued"]
    /\ UNCHANGED <<disk, row, vcall, base, edits>>

\* enqueue_vault_scan, of a watcher event or of the periodic reconciliation:
\* refused for a knowledge base that is not active (INACTIVE_SCOPE) or has no
\* index (MISSING_INDEX_VERSION); a job that is queued, running or to be retried
\* is reused, and the reservation of one that has ended is released.
RequestScan ==
    /\ base = "indexed"
    /\ scan.state \in {"none", "ended"}
    /\ scan' = [NoScan EXCEPT !.state = "queued"]
    /\ UNCHANGED <<disk, row, vcall, base, edits>>

BeginScan ==
    /\ scan.state = "queued"
    /\ LET listed == {p \in Paths : disk[p] # Gone} IN
       scan' = [NoScan EXCEPT !.state = "running", !.todo = listed]
    /\ UNCHANGED <<disk, row, vcall, base, edits>>

\* The next of the listed paths is read; one that is no file any more is left out.
ScanRead ==
    /\ scan.state = "running"
    /\ \E i \in DOMAIN PathOrder :
         LET p == PathOrder[i] IN
         /\ p \in scan.todo
         /\ \A j \in 1..(i - 1) : PathOrder[j] \notin scan.todo
         /\ scan' = [scan EXCEPT
              !.todo = @ \ {p},
              !.found = IF disk[p] = Gone THEN @ ELSE @ \cup {p},
              !.seen[p] = disk[p]]
    /\ UNCHANGED <<disk, row, vcall, base, edits>>

\* The rows of the knowledge base are read, and not locked.
ReadRows ==
    /\ scan.state = "running" /\ scan.todo = {}
    /\ scan' = [scan EXCEPT !.state = "compared", !.rows = row]
    /\ UNCHANGED <<disk, row, vcall, base, edits>>

\* _detect_changes, between the files and the rows as they were read.
Known(f) == scan.rows[f] # NoRow
WasLive(f) == Known(f) /\ ~scan.rows[f].tomb
Removed == {f \in FileIds : WasLive(f) /\ scan.rows[f].path \notin scan.found}
Added == scan.found \ {scan.rows[f].path : f \in {g \in FileIds : WasLive(g)}}

\* _unique_move_candidate: by identity, or else by content; 0 when there is none.
MoveCandidate(p, left) ==
    LET same == {f \in left : scan.rows[f].inode # 0
                              /\ scan.rows[f].inode = scan.seen[p].inode}
        alike == {f \in left : scan.rows[f].hash = scan.seen[p].content} IN
    CASE Cardinality(same) = 1 -> CHOOSE f \in same : TRUE
      [] Cardinality(same) # 1 /\ Cardinality(alike) = 1 ->
           CHOOSE f \in alike : TRUE
      [] OTHER -> 0

\* The paths in order: an added one takes a row that moved there, or 0, and
\* leaves the rest to those after it.
NoMoves == [p \in Paths |-> 0]
MoveStep(m, p) ==
    IF p \notin Added THEN m
    ELSE [m EXCEPT ![p] = MoveCandidate(p, Removed \ {m[q] : q \in Paths})]

Moves[i \in 0..Len(PathOrder)] ==
    IF i = 0 THEN NoMoves ELSE MoveStep(Moves[i - 1], PathOrder[i])

MovedTo == Moves[Len(PathOrder)]

\* The row of a file at p, as the scan has read it.
ReadAt(p) == [path |-> p, hash |-> scan.seen[p].content,
              inode |-> scan.seen[p].inode, tomb |-> FALSE]

\* The added paths that need a row, and a new row for each of them.
Fresh == {p \in Added : MovedTo[p] = 0
                        /\ \A f \in FileIds : Known(f) => scan.rows[f].path # p}
NewRows == CHOOSE g \in Injection(Fresh, {f \in FileIds : ~Exists(f)}) : TRUE

\* _apply_detected_change for every change, and _refresh_metadata for the rest:
\* what the session makes of a row that it has read.
Wanted(f) ==
    LET was == scan.rows[f]
        to == {p \in Added : MovedTo[p] = f}
        revived == was.path \in Added /\ MovedTo[was.path] = 0 IN
    CASE WasLive(f) /\ was.path \in scan.found -> ReadAt(was.path)
      [] WasLive(f) /\ was.path \notin scan.found /\ to # {} ->
           ReadAt(CHOOSE p \in to : TRUE)
      [] WasLive(f) /\ was.path \notin scan.found /\ to = {} ->
           [was EXCEPT !.tomb = TRUE]
      [] OTHER -> IF revived THEN ReadAt(was.path) ELSE was

\* Its flush writes the columns it has set to another value, over what others
\* have committed since.
Column(now, was, wanted) == IF wanted = was THEN now ELSE wanted
Updated(f) ==
    LET now == row[f]
        was == scan.rows[f]
        wanted == Wanted(f) IN
    [path |-> Column(now.path, was.path, wanted.path),
     hash |-> Column(now.hash, was.hash, wanted.hash),
     inode |-> Column(now.inode, was.inode, wanted.inode),
     tomb |-> Column(now.tomb, was.tomb, wanted.tomb)]

Scanned ==
    LET new == NewRows
        made(f) == {p \in Fresh : new[p] = f} IN
    [f \in FileIds |->
       CASE ~Exists(f) -> IF made(f) = {} THEN NoRow
                          ELSE ReadAt(CHOOSE p \in made(f) : TRUE)
         [] Exists(f) /\ Known(f) -> Updated(f)
         [] OTHER -> row[f]]

\* The flushes and the commit.  What is flushed stays locked until the commit,
\* and whoever waits for it has no row the scan needs: others see one step.
EndScan ==
    /\ scan.state = "compared"
    /\ scan' = [NoScan EXCEPT !.state = "ended"]
    /\ \A p \in Fresh : ~PathTaken(p)
    /\ \E rows \in {Scanned} :
        /\ OnePathEach(rows)
        /\ \A f \in FileIds : rows[f] # row[f] => ~RowLocked(f, "scan")
        /\ row' = rows
    /\ UNCHANGED <<disk, vcall, base, edits>>

\* Nothing is written; the job is tried again or has no attempts left.  (A scan
\* that fails earlier shows nothing else: no one sees what it has read.)
FailScan ==
    /\ scan.state = "compared"
    /\ \E next \in {"queued", "ended"} :
         scan' = [NoScan EXCEPT !.state = next]
    /\ UNCHANGED <<disk, row, vcall, base, edits>>

-----------------------------------------------------------------------------
VaultCallStep(a) ==
    FlushTombstone(a) \/ ChangeDisk(a) \/ CommitVaultCall(a) \/ AbortVaultCall(a)

ScanStep ==
    RequestScan \/ BeginScan \/ ScanRead \/ ReadRows \/ FailScan \/ EndScan

VaultNext ==
    \/ \E p \in Paths :
        \/ ExternalWrite(p) \/ ExternalRemove(p)
        \/ \E q \in Paths : ExternalRename(p, q)
    \/ \E a \in VaultCalls :
        \/ BeginCreate(a) \/ BeginUpdate(a) \/ BeginMove(a) \/ BeginDelete(a)
        \/ VaultCallStep(a)
    \/ ScanStep
    \/ IndexChanges \/ DeleteVault

\* Calls end, and scans are asked for again and again and run.
VaultFairness ==
    /\ WF_vcall(\E a \in VaultCalls : VaultCallStep(a))
    /\ WF_scan(ScanStep)

VaultSpec == VaultInit /\ [][VaultNext]_vaultVars /\ VaultFairness

-----------------------------------------------------------------------------
(* Properties                                                              *)

VaultTypeOK ==
    /\ disk \in [Paths -> DiskFile]
    /\ row \in [FileIds -> VaultRow]
    /\ vcall \in [VaultCalls -> VaultCallRow]
    /\ scan \in ScanRow
    /\ base \in {"bare", "indexed", "deleted"}
    /\ edits \in 0..MaxEdits

\* The rows say of every path what is on disk.
VaultAgrees ==
    \A p \in Paths :
        LET here == {f \in FileIds : Live(f) /\ row[f].path = p} IN
        IF disk[p] = Gone THEN here = {}
        ELSE \E f \in here : row[f].hash = disk[p].content

\* A file was renamed to a path that has a tombstone: the scan would give two
\* rows one path, and fails however often it is tried.
RenamedOntoTombstone ==
    \E f, g \in FileIds :
        /\ Live(f) /\ disk[row[f].path] = Gone
        /\ Exists(g) /\ row[g].tomb /\ disk[row[g].path] # Gone
        /\ \/ row[f].inode = disk[row[g].path].inode
           \/ row[f].hash = disk[row[g].path].content

\* The live rows are exactly the files that a scan has read.
RowsAreFound(rows) ==
    \A p \in Paths :
        LET here == {f \in FileIds : rows[f] # NoRow /\ ~rows[f].tomb
                                     /\ rows[f].path = p} IN
        IF p \in scan.found
        THEN \E f \in here : here = {f} /\ rows[f].hash = scan.seen[p].content
        ELSE here = {}

\* The path PathOrder[n] is the one new path where the identity of row f, gone
\* from its own path, is seen.  A path before it in the walk has not the row's
\* content: it would take the row for a file that moved there with a new
\* identity, as a copy does.
KeepsIdentity(f, n) ==
    LET p == PathOrder[n] IN
    /\ f \in Removed /\ scan.rows[f].inode # 0
    /\ p \in Added /\ scan.seen[p].inode = scan.rows[f].inode
    /\ \A g \in FileIds \ {f} : scan.rows[g].inode # scan.rows[f].inode
    /\ \A q \in Paths \ {p} : scan.seen[q].inode # scan.rows[f].inode
    /\ \A k \in 1..(n - 1) :
         PathOrder[k] \in Added =>
            scan.seen[PathOrder[k]].content # scan.rows[f].hash

\* A scan that commits changes to rows that are still as it read them makes the
\* live ones exactly the files it has found, and, whatever calls have made of
\* other rows meanwhile, a file that moved keeps its row (sync.py:194-246,
\* 359-522).
ScanRecords ==
    scan.state = "compared" /\ scan'.state = "ended" /\ row' # row =>
        /\ scan.rows = row => RowsAreFound(row')
        /\ \A f \in FileIds, n \in DOMAIN PathOrder :
             KeepsIdentity(f, n) /\ scan.rows[f] = row[f] =>
                row'[f].path = PathOrder[n] /\ ~row'[f].tomb

\* Scans record what they have read, and, however calls, other programs and
\* scans overlap and overwrite each other, rows and disk of a knowledge base that
\* has an index from some time on agree for good once users stop, unless a rename
\* hit a tombstone's path; assumed is that a scan which can succeed again and
\* again does not always fail (service.py:203, 257, watcher.py:260).
VaultConverges ==
    /\ [][ScanRecords]_vaultVars
    /\ SF_scan(EndScan) /\ <>[](base = "indexed") =>
          <>[](VaultAgrees \/ RenamedOntoTombstone)
=============================================================================
