--------------------------- MODULE VaultProofs -----------------------------
(***************************************************************************)
(* Proofs about VaultFiles, ChangeSets and VaultMigration, for any number  *)
(* of paths, contents, files, change sets, jobs, notes and manifests.      *)
(*                                                                         *)
(* VaultFiles.  A call has a row, a scan has found the files it saw, and   *)
(* the rows it has read exist while it runs, though others may have        *)
(* changed them (CallsHaveRows, SeenIsFound, ReadRowsExist).  Moves are    *)
(* detected by a recursive function over the walk: MovesDefined shows that *)
(* it exists, and what it has matched after each path (Fits) holds at      *)
(* every number up to the last since the least at which it fails cannot    *)
(* be.                                                                     *)
(*                                                                         *)
(* ChangeSets.  A change set's state is what became of its projection, the *)
(* semantic jobs are those of the files it lists, and a set that has one   *)
(* that failed has failed.                                                 *)
(*                                                                         *)
(* VaultMigration.  The property is about the route alone, and its         *)
(* invariant is about what led to it: a file that a note has at its path   *)
(* has a row, and stays known (FilesHaveRows), a note is deleted only with *)
(* its file (DeletedHadFile), and every note but the late ones has a file  *)
(* from the cutover's check on (CutoverSawAll).  A copy that is not        *)
(* committed yet will give a row to each of its notes that has none        *)
(* (CommitCopy).                                                           *)
(***************************************************************************)
EXTENDS VaultFiles, ChangeSets, VaultMigration, FunctionTheorems, FiniteSetTheorems,
        TLAPS

-----------------------------------------------------------------------------
(* VaultFiles *)

VaultFileRow == [path : Paths, hash : VaultContents, inode : Inodes \cup {0}, tomb : BOOLEAN]

(* A call has a row from its first read on, unless it creates the file: rows *)
(* are deleted with their knowledge base only.                               *)
CallsHaveRows ==
    \A a \in VaultCalls :
        base # "deleted" /\ vcall[a] # NoVaultCall =>
            IF vcall[a].file = 0 THEN vcall[a].op = "create" ELSE Exists(vcall[a].file)

(* A scan has found the paths where it saw a file, and reads none twice. *)
SeenIsFound ==
    /\ \A p \in Paths : p \in scan.found <=> scan.seen[p] # Gone
    /\ scan.todo \cap scan.found = {}

(* The rows that a scan has read have a path each, and exist still. *)
ReadRowsExist ==
    /\ OnePathEach(scan.rows)
    /\ \A f \in FileIds : Known(f) => Exists(f)

VaultInv ==
    /\ VaultTypeOK
    /\ OnePathEach(row)
    /\ CallsHaveRows
    /\ SeenIsFound
    /\ ReadRowsExist

-----------------------------------------------------------------------------
LEMMA PathFacts ==
  /\ DOMAIN PathOrder = 1..Len(PathOrder) /\ Len(PathOrder) \in Nat /\ 1 \in DOMAIN PathOrder
  /\ \A i \in DOMAIN PathOrder : PathOrder[i] \in Paths
  /\ \A p \in Paths : \E i \in DOMAIN PathOrder : PathOrder[i] = p
  /\ 0 \notin FileIds
BY VaultAssumption DEF Paths, FileIds

LEMMA TwoInodes == \A i \in Inodes : \E j \in Inodes : j # i
<1> SUFFICES ASSUME NEW i \in Inodes, \A j \in Inodes : j = i PROVE FALSE
  OBVIOUS
<1>1. Inodes = {i}
  OBVIOUS
<1>2. Cardinality(Inodes) = 1
  BY <1>1, FS_Singleton
<1>3. Len(PathOrder) \in Nat /\ Len(PathOrder) # 0
  BY VaultAssumption
<1> QED
  BY <1>2, <1>3, VaultAssumption

LEMMA NoRowIsNone == NoRow \notin VaultFileRow /\ VaultRow = {NoRow} \cup VaultFileRow
BY VaultAssumption DEF NoRow, VaultFileRow, VaultRow

LEMMA NoCallIsNone ==
  /\ NoVaultCall.step = "none"
  /\ \A w \in VaultCallRow \ {NoVaultCall} :
       /\ w.op \in {"create", "update", "move", "delete"}
       /\ w.step \in {"read", "flushed", "changed"}
       /\ w.file \in FileIds \cup {0} /\ w.path \in Paths /\ w.target \in Paths
       /\ w.before \in VaultContents \cup {"none"} /\ w.content \in VaultContents
BY DEF NoVaultCall, VaultCallRow

(* A scan that has not begun has read nothing. *)
LEMMA NoScanIsEmpty ==
  ASSUME NEW s, NEW state \in {"none", "queued", "running", "ended"},
         s = NoScan \/ s = [NoScan EXCEPT !.state = state]
  PROVE  /\ s \in ScanRow /\ s.todo = {} /\ s.found = {}
         /\ \A p \in Paths : s.seen[p] = Gone
         /\ \A f \in FileIds : s.rows[f] = NoRow
<1> DEFINE seen == [p \in Paths |-> Gone]
           rows == [f \in FileIds |-> NoRow]
<1>1. /\ seen \in [Paths -> DiskFile] /\ \A p \in Paths : seen[p] = Gone
      /\ rows \in [FileIds -> VaultRow] /\ \A f \in FileIds : rows[f] = NoRow
  BY DEF DiskFile, VaultRow
<1>2. PICK st \in {"none", "queued", "running", "ended"} :
        s = [state |-> st, todo |-> {}, found |-> {}, seen |-> seen, rows |-> rows]
  BY DEF NoScan
<1> HIDE DEF seen, rows
<1>3. s \in ScanRow /\ s.todo = {} /\ s.found = {} /\ s.seen = seen /\ s.rows = rows
  BY <1>1, <1>2 DEF ScanRow
<1> QED
  BY <1>1, <1>3

LEMMA NewScan ==
  ASSUME NEW state \in {"none", "queued", "running", "ended"},
         scan' = NoScan \/ scan' = [NoScan EXCEPT !.state = state]
  PROVE  scan' \in ScanRow /\ SeenIsFound' /\ ReadRowsExist'
<1>1. /\ scan' \in ScanRow /\ scan'.todo = {} /\ scan'.found = {}
      /\ \A p \in Paths : scan'.seen[p] = Gone
      /\ \A f \in FileIds : scan'.rows[f] = NoRow
  BY NoScanIsEmpty
<1>2. SeenIsFound'
  BY <1>1 DEF SeenIsFound
<1>3. ReadRowsExist'
  BY <1>1 DEF ReadRowsExist, OnePathEach, Known
<1> QED
  BY <1>1, <1>2, <1>3

LEMMA VaultInitInv == VaultInit => VaultInv
<1> SUFFICES ASSUME VaultInit PROVE VaultInv
  OBVIOUS
<1> USE PathFacts
<1>1. vcall \in [VaultCalls -> VaultCallRow] /\ CallsHaveRows
  BY DEF VaultInit, VaultCallRow, CallsHaveRows
<1>2. scan \in ScanRow /\ SeenIsFound /\ ReadRowsExist
  BY NoScanIsEmpty DEF VaultInit, SeenIsFound, ReadRowsExist, OnePathEach, Known
<1>3. edits \in 0..MaxEdits /\ base \in {"bare", "indexed", "deleted"}
  BY VaultAssumption DEF VaultInit
<1>4. disk \in [Paths -> DiskFile] /\ row \in [FileIds -> VaultRow] /\ OnePathEach(row)
  <2>1. CASE /\ disk = [p \in Paths |-> Gone]
             /\ row = [f \in FileIds |-> NoRow]
    BY <2>1 DEF DiskFile, VaultRow, OnePathEach
  <2>2. CASE LET c == CHOOSE d \in VaultContents : TRUE
                 i == CHOOSE j \in Inodes : TRUE
                 k == CHOOSE j \in Inodes \ {i} : TRUE IN
             /\ disk = [[p \in Paths |-> Gone] EXCEPT ![PathOrder[1]] =
                          [content |-> c, inode |-> i]]
             /\ row = [f \in FileIds |->
                         [path |-> PathOrder[f], hash |-> c,
                          inode |-> IF f = 1 THEN i ELSE k, tomb |-> f # 1]]
    <3> DEFINE c == CHOOSE d \in VaultContents : TRUE
               i == CHOOSE j \in Inodes : TRUE
               k == CHOOSE j \in Inodes \ {i} : TRUE
    <3>1. c \in VaultContents
      BY VaultAssumption
    <3>2. i \in Inodes
      <4>1. Inodes # {}
        BY FS_EmptySet, VaultAssumption
      <4> QED
        BY <4>1
    <3>3. k \in Inodes
      BY <3>2, TwoInodes
    <3> HIDE DEF c, i, k
    <3>4. /\ disk = [[p \in Paths |-> Gone] EXCEPT ![PathOrder[1]] =
                          [content |-> c, inode |-> i]]
          /\ row = [f \in FileIds |->
                         [path |-> PathOrder[f], hash |-> c,
                          inode |-> IF f = 1 THEN i ELSE k, tomb |-> f # 1]]
      BY <2>2 DEF c, i, k
    <3>5. disk \in [Paths -> DiskFile]
      BY <3>1, <3>2, <3>4 DEF DiskFile
    <3>6. \A f \in FileIds : row[f] \in VaultFileRow /\ row[f].path = PathOrder[f]
      BY <3>1, <3>2, <3>3, <3>4 DEF VaultFileRow, FileIds
    <3>7. row \in [FileIds -> VaultRow]
      BY <3>4, <3>6, NoRowIsNone
    <3>8. OnePathEach(row)
      BY <3>6, VaultAssumption DEF OnePathEach, FileIds
    <3> QED
      BY <3>5, <3>7, <3>8
  <2> QED
    BY <2>1, <2>2 DEF VaultInit
<1> QED
  BY <1>1, <1>2, <1>3, <1>4 DEF VaultInv, VaultTypeOK

(* What other programs do, and the reads and refusals of the calls, leave    *)
(* the rows alone.                                                           *)
LEMMA OutsideInv ==
  ASSUME VaultInv, NEW p \in Paths, NEW q \in Paths,
         ExternalWrite(p) \/ ExternalRemove(p) \/ ExternalRename(p, q)
  PROVE  VaultInv'
<1> USE DEF VaultInv
<1>1. /\ UNCHANGED <<row, vcall, scan, base>> /\ edits' \in 0..MaxEdits
  BY VaultAssumption DEF ExternalWrite, ExternalRemove, ExternalRename, Edit, VaultTypeOK
<1>2. disk' \in [Paths -> DiskFile]
  <2>1. CASE ExternalWrite(p)
    <3>1. \A i \in FreeInodes \cup ({disk[p].inode} \ {0}) : i \in Inodes
      BY DEF FreeInodes, VaultTypeOK, DiskFile, Gone
    <3> QED
      BY <2>1, <3>1 DEF ExternalWrite, VaultTypeOK, DiskFile
  <2>2. CASE ExternalRemove(p)
    BY <2>2 DEF ExternalRemove, VaultTypeOK, DiskFile
  <2>3. CASE ExternalRename(p, q)
    BY <2>3 DEF ExternalRename, VaultTypeOK, DiskFile
  <2> QED
    BY <2>1, <2>2, <2>3
<1> QED
  BY <1>1, <1>2 DEF VaultTypeOK, OnePathEach, CallsHaveRows, SeenIsFound, ReadRowsExist,
     Known, Exists

LEMMA BeginVaultInv ==
  ASSUME VaultInv, NEW a \in VaultCalls,
         BeginCreate(a) \/ BeginUpdate(a) \/ BeginMove(a) \/ BeginDelete(a)
  PROVE  VaultInv'
<1> USE DEF VaultInv
<1>1. PICK w \in VaultCallRow :
        /\ BeginVaultCall(a, w)
        /\ IF w.file = 0 THEN w.op = "create" ELSE Exists(w.file)
  <2>1. CASE BeginCreate(a)
    <3>1. PICK p \in Paths, c \in VaultContents :
            LET old == {f \in FileIds : Exists(f) /\ row[f].path = p} IN
            /\ \A f \in old : row[f].tomb
            /\ BeginVaultCall(a,
                 [op |-> "create", step |-> "read",
                  file |-> IF old = {} THEN 0 ELSE CHOOSE f \in old : TRUE,
                  path |-> p, target |-> p, before |-> "none", content |-> c])
      BY <2>1 DEF BeginCreate
    <3> DEFINE old == {f \in FileIds : Exists(f) /\ row[f].path = p}
               file == IF old = {} THEN 0 ELSE CHOOSE f \in old : TRUE
               w == [op |-> "create", step |-> "read", file |-> file,
                     path |-> p, target |-> p, before |-> "none", content |-> c]
    <3>2. file = 0 \/ file \in old
      OBVIOUS
    <3>3. w \in VaultCallRow
      BY <3>2 DEF VaultCallRow
    <3>4. IF w.file = 0 THEN w.op = "create" ELSE Exists(w.file)
      BY <3>2
    <3> QED
      BY <3>1, <3>3, <3>4
  <2>2. CASE BeginUpdate(a) \/ BeginMove(a) \/ BeginDelete(a)
    <3>1. \A f \in FileIds : Readable(f) =>
             Exists(f) /\ row[f].path \in Paths /\ row[f].hash \in VaultContents
      BY NoRowIsNone DEF Readable, Live, Exists, VaultTypeOK, VaultFileRow
    <3>2. ASSUME NEW f \in FileIds, NEW op \in {"update", "move", "delete"}, NEW q \in Paths,
                 NEW c \in VaultContents, Readable(f),
                 BeginVaultCall(a, [op |-> op, step |-> "read", file |-> f,
                                    path |-> row[f].path, target |-> q,
                                    before |-> row[f].hash, content |-> c])
          PROVE  \E w \in VaultCallRow :
                    /\ BeginVaultCall(a, w)
                    /\ IF w.file = 0 THEN w.op = "create" ELSE Exists(w.file)
      <4> DEFINE w == [op |-> op, step |-> "read", file |-> f, path |-> row[f].path,
                       target |-> q, before |-> row[f].hash, content |-> c]
      <4>1. w \in VaultCallRow
        BY <3>1, <3>2 DEF VaultCallRow
      <4> QED
        BY <3>1, <3>2, <4>1, PathFacts
    <3>3. ASSUME BeginUpdate(a)
          PROVE  \E w \in VaultCallRow :
                    /\ BeginVaultCall(a, w)
                    /\ IF w.file = 0 THEN w.op = "create" ELSE Exists(w.file)
      BY <3>1, <3>2, <3>3 DEF BeginUpdate
    <3>4. ASSUME BeginMove(a)
          PROVE  \E w \in VaultCallRow :
                    /\ BeginVaultCall(a, w)
                    /\ IF w.file = 0 THEN w.op = "create" ELSE Exists(w.file)
      BY <3>1, <3>2, <3>4 DEF BeginMove
    <3>5. ASSUME BeginDelete(a)
          PROVE  \E w \in VaultCallRow :
                    /\ BeginVaultCall(a, w)
                    /\ IF w.file = 0 THEN w.op = "create" ELSE Exists(w.file)
      BY <3>1, <3>2, <3>5 DEF BeginDelete
    <3> QED
      BY <2>2, <3>3, <3>4, <3>5
  <2> QED
    BY <2>1, <2>2
<1>2. /\ UNCHANGED <<disk, row, scan, base>> /\ edits' \in 0..MaxEdits
      /\ vcall' = [vcall EXCEPT ![a] = w]
  BY <1>1, VaultAssumption DEF BeginVaultCall, Edit, VaultTypeOK
<1> QED
  BY <1>1, <1>2 DEF VaultTypeOK, OnePathEach, CallsHaveRows, SeenIsFound, ReadRowsExist,
     Known, Exists

LEMMA CommittedRows ==
  ASSUME VaultInv, NEW w \in VaultCallRow \ {NoVaultCall},
         IF w.file = 0 THEN w.op = "create" ELSE Exists(w.file)
  PROVE  /\ Committed(w) \in [FileIds -> VaultRow]
         /\ \A f \in FileIds : Exists(f) => Committed(w)[f] # NoRow
<1> USE DEF VaultInv
<1>1. /\ w.op \in {"create", "update", "move", "delete"} /\ w.file \in FileIds \cup {0}
      /\ w.path \in Paths /\ w.target \in Paths /\ w.content \in VaultContents
  BY NoCallIsNone
<1>2. /\ row \in [FileIds -> VaultRow]
      /\ \A f \in FileIds : Exists(f) => row[f] \in VaultFileRow
  BY NoRowIsNone DEF VaultTypeOK, Exists
<1>3. CASE w.op = "create" /\ w.file = 0
  <2> DEFINE new == CHOOSE f \in FileIds : ~Exists(f)
             r == [path |-> w.path, hash |-> w.content, inode |-> 0, tomb |-> FALSE]
  <2>1. Committed(w) = [row EXCEPT ![new] = r]
    BY <1>3 DEF Committed
  <2>2. r \in VaultFileRow
    BY <1>1 DEF VaultFileRow
  <2> HIDE DEF new, r
  <2> QED
    BY <1>2, <2>1, <2>2, NoRowIsNone DEF Exists
<1>4. CASE w.file # 0
  <2>1. w.file \in FileIds /\ row[w.file] \in VaultFileRow
    BY <1>1, <1>2, <1>4
  <2>2. PICK r \in VaultFileRow : Committed(w) = [row EXCEPT ![w.file] = r]
    <3> DEFINE o == row[w.file]
    <3>1. ASSUME NEW x \in VaultFileRow
          PROVE  /\ \A c \in VaultContents : [x EXCEPT !.hash = c] \in VaultFileRow
                 /\ \A p \in Paths : [x EXCEPT !.path = p] \in VaultFileRow
                 /\ \A b \in BOOLEAN : [x EXCEPT !.tomb = b] \in VaultFileRow
      BY DEF VaultFileRow
    <3>2. o.hash \in VaultContents
      BY <2>1 DEF VaultFileRow
    <3>3. CASE w.op = "create"
      <4> DEFINE x == [o EXCEPT !.hash = w.content]
                 z == [row EXCEPT ![w.file] = x]
      <4>1. Committed(w) = [z EXCEPT ![w.file].tomb = FALSE]
        BY <1>4, <3>3 DEF Committed
      <4>2. x \in VaultFileRow
        BY <1>1, <2>1, <3>1
      <4> HIDE DEF x
      <4>3. z[w.file] = x
        BY <1>2, <2>1
      <4>4. \A r : [z EXCEPT ![w.file] = r] = [row EXCEPT ![w.file] = r]
        BY <1>2, <2>1
      <4> HIDE DEF z
      <4>5. Committed(w) = [z EXCEPT ![w.file] = [x EXCEPT !.tomb = FALSE]]
        BY <4>1, <4>3
      <4> QED
        BY <3>1, <4>2, <4>4, <4>5
    <3>4. CASE w.op = "update"
      <4> DEFINE c == IF w.content = w.before THEN o.hash ELSE w.content
      <4>1. Committed(w) = [row EXCEPT ![w.file] = [o EXCEPT !.hash = c]]
        BY <1>4, <3>4 DEF Committed
      <4>2. c \in VaultContents
        BY <1>1, <3>2
      <4> QED
        BY <2>1, <3>1, <4>1, <4>2
    <3>5. CASE w.op = "move"
      <4>1. Committed(w) = [row EXCEPT ![w.file] = [o EXCEPT !.path = w.target]]
        BY <1>4, <3>5 DEF Committed
      <4> QED
        BY <1>1, <2>1, <3>1, <4>1
    <3>6. CASE w.op = "delete"
      <4>1. Committed(w) = [row EXCEPT ![w.file] = [o EXCEPT !.tomb = TRUE]]
        BY <1>4, <3>6 DEF Committed
      <4> QED
        BY <2>1, <3>1, <4>1
    <3> QED
      BY <1>1, <3>3, <3>4, <3>5, <3>6
  <2> QED
    BY <1>2, <2>1, <2>2, NoRowIsNone DEF Exists
<1> QED
  BY <1>1, <1>3, <1>4

LEMMA CallStepInv ==
  ASSUME VaultInv, NEW a \in VaultCalls, VaultCallStep(a)
  PROVE  VaultInv'
<1> USE DEF VaultInv
<1> DEFINE w == vcall[a]
<1>1. ASSUME w # NoVaultCall
      PROVE  /\ w \in VaultCallRow \ {NoVaultCall}
             /\ base # "deleted" => IF w.file = 0 THEN w.op = "create" ELSE Exists(w.file)
  BY <1>1 DEF VaultTypeOK, CallsHaveRows
<1>2. ASSUME NEW step \in {"flushed", "changed"}, w # NoVaultCall,
             vcall' = [vcall EXCEPT ![a].step = step],
             UNCHANGED <<row, scan, base, edits>>,
             disk' \in [Paths -> DiskFile]
      PROVE  VaultInv'
  <2>1. [w EXCEPT !.step = step] \in VaultCallRow \ {NoVaultCall}
    BY <1>1, <1>2 DEF VaultCallRow, NoVaultCall
  <2>2. vcall' = [vcall EXCEPT ![a] = [w EXCEPT !.step = step]]
    BY <1>2
  <2>3. [w EXCEPT !.step = step].file = w.file /\ [w EXCEPT !.step = step].op = w.op
    BY <1>1, <1>2 DEF VaultCallRow, NoVaultCall
  <2> QED
    BY <1>1, <1>2, <2>1, <2>2, <2>3
       DEF VaultTypeOK, OnePathEach, CallsHaveRows, SeenIsFound, ReadRowsExist, Known, Exists
<1>3. CASE FlushTombstone(a)
  <2>1. w # NoVaultCall
    BY <1>3, NoCallIsNone DEF FlushTombstone, At
  <2> QED
    BY <1>2, <1>3, <2>1 DEF FlushTombstone, VaultTypeOK
<1>4. CASE ChangeDisk(a)
  <2>1. w # NoVaultCall
    BY <1>4, NoCallIsNone DEF ChangeDisk, At
  <2>2. w.path \in Paths /\ w.target \in Paths /\ w.content \in VaultContents
    BY <1>1, <2>1, NoCallIsNone
  <2>3. FreeInodes \subseteq Inodes
    BY DEF FreeInodes
  <2>4. disk' \in [Paths -> DiskFile]
    <3>1. ASSUME NEW i \in FreeInodes,
                 disk' = [disk EXCEPT ![w.path] = [content |-> w.content, inode |-> i]]
          PROVE  disk' \in [Paths -> DiskFile]
      <4>1. [content |-> w.content, inode |-> i] \in DiskFile
        BY <2>2, <2>3 DEF DiskFile
      <4> QED
        BY <2>2, <3>1, <4>1 DEF VaultTypeOK
    <3>2. ASSUME disk' = [disk EXCEPT ![w.path] = Gone, ![w.target] = disk[w.path]]
          PROVE  disk' \in [Paths -> DiskFile]
      BY <2>2, <3>2 DEF VaultTypeOK, DiskFile
    <3>3. ASSUME disk' = [disk EXCEPT ![w.path] = Gone]
          PROVE  disk' \in [Paths -> DiskFile]
      BY <2>2, <3>3 DEF VaultTypeOK, DiskFile
    <3> QED
      BY <1>4, <3>1, <3>2, <3>3 DEF ChangeDisk
  <2> QED
    BY <1>2, <1>4, <2>1, <2>4 DEF ChangeDisk
<1>5. CASE CommitVaultCall(a)
  <2>1. w # NoVaultCall
    BY <1>5, NoCallIsNone DEF CommitVaultCall
  <2>2. /\ row' \in [FileIds -> VaultRow]
        /\ \A f \in FileIds : Exists(f) => row'[f] # NoRow
    BY <1>1, <1>5, <2>1, CommittedRows DEF CommitVaultCall
  <2>3. OnePathEach(row') /\ UNCHANGED <<disk, scan, base, edits>>
        /\ vcall' = [vcall EXCEPT ![a] = NoVaultCall]
    BY <1>5 DEF CommitVaultCall
  <2>4. \A b \in VaultCalls : vcall'[b] # NoVaultCall /\ vcall'[b].file # 0 =>
           vcall'[b].file \in FileIds
    BY <2>3, NoCallIsNone DEF VaultTypeOK
  <2>5. VaultTypeOK' /\ SeenIsFound'
    BY <2>2, <2>3 DEF VaultTypeOK, VaultCallRow, SeenIsFound
  <2>6. CallsHaveRows'
    BY <2>2, <2>3, <2>4 DEF VaultTypeOK, CallsHaveRows, Exists
  <2>7. OnePathEach(row)'
    BY <2>3 DEF OnePathEach
  <2>8. ReadRowsExist'
    BY <2>2, <2>3 DEF ReadRowsExist, OnePathEach, Known, Exists
  <2> QED
    BY <2>5, <2>6, <2>7, <2>8
<1>6. CASE AbortVaultCall(a)
  BY <1>6 DEF AbortVaultCall, VaultTypeOK, VaultCallRow, OnePathEach, CallsHaveRows,
     SeenIsFound, ReadRowsExist, Known, Exists
<1> QED
  BY <1>3, <1>4, <1>5, <1>6 DEF VaultCallStep

(* A scan under way, or one that is asked for, leaves the rows alone. *)
LEMMA ScanningInv ==
  ASSUME VaultInv, RequestScan \/ BeginScan \/ ScanRead \/ ReadRows \/ FailScan
  PROVE  VaultInv'
<1> USE DEF VaultInv
<1>1. UNCHANGED <<disk, row, vcall, base, edits>>
  BY DEF RequestScan, BeginScan, ScanRead, ReadRows, FailScan
<1>2. scan' \in ScanRow /\ SeenIsFound' /\ ReadRowsExist'
  <2>1. CASE RequestScan \/ FailScan
    <3>1. \E state \in {"queued", "ended"} : scan' = [NoScan EXCEPT !.state = state]
      BY <2>1 DEF RequestScan, FailScan
    <3> QED
      BY <3>1, NewScan
  <2>2. CASE BeginScan
    <3> DEFINE listed == {p \in Paths : disk[p] # Gone}
    <3>1. scan' = [state |-> "running", todo |-> listed, found |-> {},
                   seen |-> [p \in Paths |-> Gone], rows |-> [f \in FileIds |-> NoRow]]
      BY <2>2 DEF BeginScan, NoScan
    <3>2. [p \in Paths |-> Gone] \in [Paths -> DiskFile]
          /\ [f \in FileIds |-> NoRow] \in [FileIds -> VaultRow]
      BY DEF DiskFile, VaultRow
    <3>3. scan' \in ScanRow
      BY <3>1, <3>2 DEF ScanRow
    <3>4. SeenIsFound' /\ ReadRowsExist'
      BY <3>1 DEF SeenIsFound, ReadRowsExist, OnePathEach, Known
    <3> QED
      BY <3>3, <3>4
  <2>3. CASE ScanRead
    <3>1. PICK p \in Paths :
            /\ p \in scan.todo
            /\ scan' = [scan EXCEPT
                 !.todo = @ \ {p},
                 !.found = IF disk[p] = Gone THEN @ ELSE @ \cup {p},
                 !.seen[p] = disk[p]]
      BY <2>3, PathFacts DEF ScanRead
    <3>2. scan.todo \subseteq Paths /\ scan.found \subseteq Paths
          /\ scan.seen \in [Paths -> DiskFile] /\ disk[p] \in DiskFile
      BY DEF VaultTypeOK, ScanRow
    <3>3. /\ scan' \in ScanRow
          /\ scan'.todo = scan.todo \ {p}
          /\ scan'.found = IF disk[p] = Gone THEN scan.found ELSE scan.found \cup {p}
          /\ scan'.seen = [scan.seen EXCEPT ![p] = disk[p]]
          /\ scan'.rows = scan.rows
      BY <3>1, <3>2 DEF VaultTypeOK, ScanRow
    <3>4. SeenIsFound'
      BY <3>1, <3>2, <3>3 DEF SeenIsFound
    <3>5. ReadRowsExist'
      BY <1>1, <3>3 DEF ReadRowsExist, OnePathEach, Known, Exists
    <3> QED
      BY <3>3, <3>4, <3>5
  <2>4. CASE ReadRows
    <3>1. scan' = [scan EXCEPT !.state = "compared", !.rows = row]
      BY <2>4 DEF ReadRows
    <3>2. /\ scan' \in ScanRow /\ scan'.rows = row
          /\ scan'.todo = scan.todo /\ scan'.found = scan.found /\ scan'.seen = scan.seen
      BY <3>1 DEF VaultTypeOK, ScanRow
    <3>3. SeenIsFound'
      BY <3>2 DEF SeenIsFound
    <3>4. ReadRowsExist'
      BY <1>1, <3>2 DEF ReadRowsExist, OnePathEach, Known, Exists
    <3> QED
      BY <3>2, <3>3, <3>4
  <2> QED
    BY <2>1, <2>2, <2>3, <2>4
<1> QED
  BY <1>1, <1>2 DEF VaultTypeOK, OnePathEach, CallsHaveRows, Exists

(* Rows and scan go with the knowledge base. *)
LEMMA KnowledgeBaseInv ==
  ASSUME VaultInv, IndexChanges \/ DeleteVault
  PROVE  VaultInv'
<1> USE DEF VaultInv
<1>1. CASE IndexChanges
  BY <1>1 DEF IndexChanges, VaultTypeOK, OnePathEach, CallsHaveRows, SeenIsFound,
     ReadRowsExist, Known, Exists
<1>2. CASE DeleteVault
  <2>1. /\ scan' \in ScanRow /\ SeenIsFound' /\ ReadRowsExist'
    BY <1>2, NewScan DEF DeleteVault
  <2>2. /\ base' = "deleted" /\ row' = [f \in FileIds |-> NoRow]
        /\ UNCHANGED <<disk, vcall, edits>>
    BY <1>2 DEF DeleteVault
  <2>3. row' \in [FileIds -> VaultRow] /\ OnePathEach(row)' /\ CallsHaveRows'
    BY <2>2 DEF VaultRow, OnePathEach, CallsHaveRows
  <2> QED
    BY <2>1, <2>2, <2>3 DEF VaultTypeOK
<1> QED
  BY <1>1, <1>2

-----------------------------------------------------------------------------
(* Move detection                                                          *)

(* A recursive definition over 0..n has the value that its equations say:    *)
(* the least number up to which it had none cannot be.                       *)
LEMMA LeastNatural ==
  ASSUME NEW D \in SUBSET Nat, D # {}
  PROVE  \E n \in D : \A k \in D : n <= k
<1> DEFINE R == {ss \in Nat \X Nat : ss[1] < ss[2]}
<1>1. IsWellFoundedOn(R, Nat)
  BY NatLessThanWellFounded DEF OpToRel
<1>2. PICK n \in D : \A k \in D : ~ (<<k, n>> \in R)
  <2> HIDE DEF R
  <2> QED
    BY <1>1, WFMin
<1>3. \A k \in D : ~ (k < n)
  <2> SUFFICES ASSUME NEW k \in D, k < n PROVE FALSE
    OBVIOUS
  <2>1. <<k, n>> \in R
    OBVIOUS
  <2> QED
    BY <1>2, <2>1
<1>4. n \in Nat /\ \A k \in D : k \in Nat
  OBVIOUS
<1> QED
  BY <1>3, <1>4

LEMMA MovesDefined ==
  /\ Moves[0] = NoMoves
  /\ \A i \in 1..Len(PathOrder) : Moves[i] = MoveStep(Moves[i - 1], PathOrder[i])
<1> DEFINE N == Len(PathOrder)
           Good(g, n) == /\ g[0] = NoMoves
                         /\ \A i \in 1..n : g[i] = MoveStep(g[i - 1], PathOrder[i])
           Bad == {n \in 0..N : ~ \E g : Good(g, n)}
<1>0. N \in Nat
  BY VaultAssumption
<1>1. Bad = {}
  <2> SUFFICES ASSUME Bad # {} PROVE FALSE
    OBVIOUS
  <2>1. Bad \in SUBSET Nat
    BY <1>0
  <2>2. PICK n \in Bad : \A k \in Bad : n <= k
    <3> HIDE DEF Bad
    <3> QED
      BY <2>1, LeastNatural
  <2>3. n \in 0..N /\ ~ \E g : Good(g, n)
    OBVIOUS
  <2>4. n # 0
    <3>1. Good([i \in {0} |-> NoMoves], 0)
      OBVIOUS
    <3> QED
      BY <2>3, <3>1
  <2>5. PICK g : Good(g, n - 1)
    <3>1. n - 1 \in 0..N /\ n - 1 \notin Bad
      <4>1. n - 1 \in 0..N /\ n \in Int /\ n - 1 \in Int /\ ~(n <= n - 1)
        BY <2>3, <2>4, <1>0
      <4> HIDE DEF Bad
      <4> QED
        BY <2>2, <4>1
    <3> QED
      BY <3>1
  <2> DEFINE h == [i \in 0..n |-> IF i = n THEN MoveStep(g[n - 1], PathOrder[n]) ELSE g[i]]
  <2>6. h[0] = NoMoves
    BY <2>3, <2>4, <2>5
  <2>7. ASSUME NEW i \in 1..n PROVE h[i] = MoveStep(h[i - 1], PathOrder[i])
    <3>1. h[i - 1] = g[i - 1]
      BY <2>3, <1>0
    <3>2. CASE i = n
      BY <3>1, <3>2, <2>3, <1>0
    <3>3. CASE i # n
      <4>1. i \in 1..(n - 1) /\ h[i] = g[i]
        BY <3>3, <2>3, <1>0
      <4> QED
        BY <2>5, <3>1, <4>1
    <3> QED
      BY <3>2, <3>3
  <2> QED
    BY <2>3, <2>6, <2>7
<1>2. PICK g : Good(g, N)
  BY <1>0, <1>1
<1> DEFINE Is(f) == f = [i \in 0..N |-> IF i = 0 THEN NoMoves
                                      ELSE MoveStep(f[i - 1], PathOrder[i])]
           f0 == [i \in 0..N |-> g[i]]
<1>3. Is(f0)
  <2>1. ASSUME NEW i \in 0..N
        PROVE  f0[i] = IF i = 0 THEN NoMoves ELSE MoveStep(f0[i - 1], PathOrder[i])
    <3>1. CASE i = 0
      BY <3>1, <1>2
    <3>2. CASE i # 0
      <4>1. i \in 1..N /\ i - 1 \in 0..N /\ f0[i] = g[i] /\ f0[i - 1] = g[i - 1]
        BY <3>2, <1>0
      <4> QED
        BY <1>2, <3>2, <4>1
    <3> QED
      BY <3>1, <3>2
  <2> QED
    BY <2>1
<1>4. Is(Moves)
  <2> HIDE DEF f0
  <2>1. Moves = CHOOSE f : Is(f)
    BY DEF Moves
  <2> HIDE DEF Is
  <2> QED
    BY <1>3, <2>1
<1> QED
  BY <1>0, <1>4

LEMMA UpTo ==
  ASSUME NEW n \in Nat, NEW S, 0 \in S, \A i \in 1..n : i - 1 \in S => i \in S
  PROVE  0..n \subseteq S
<1> SUFFICES ASSUME (0..n) \ S # {} PROVE FALSE
  OBVIOUS
<1>1. PICK i \in (0..n) \ S : \A k \in (0..n) \ S : i <= k
  <2>1. (0..n) \ S \in SUBSET Nat
    OBVIOUS
  <2> QED
    BY <2>1, LeastNatural
<1>2. i # 0 /\ i \in 1..n /\ i - 1 \in 0..n
  OBVIOUS
<1>3. i - 1 \in S
  BY <1>1, <1>2
<1> QED
  BY <1>2, <1>3

LEMMA FilesAreFinite == IsFiniteSet(FileIds) /\ \A S \in SUBSET FileIds : IsFiniteSet(S)
<1>1. IsFiniteSet(1..Len(PathOrder))
  BY PathFacts, FS_Interval
<1>2. IsFiniteSet(FileIds)
  BY <1>1, PathFacts DEF FileIds
<1> QED
  BY <1>2, FS_Subset

(* A candidate is one of the rows that are left, and has the identity or the *)
(* content of the file; a row that alone has its identity is preferred.      *)
LEMMA CandidateFits ==
  ASSUME NEW p \in Paths, NEW left \in SUBSET FileIds
  PROVE  LET c == MoveCandidate(p, left) IN
         /\ c = 0 \/ (/\ c \in left
                      /\ \/ scan.rows[c].inode = scan.seen[p].inode
                         \/ scan.rows[c].hash = scan.seen[p].content)
         /\ \A f \in left :
              (/\ scan.rows[f].inode # 0 /\ scan.rows[f].inode = scan.seen[p].inode
               /\ \A g \in left \ {f} : scan.rows[g].inode # scan.rows[f].inode) => c = f
<1> DEFINE same == {f \in left : scan.rows[f].inode # 0 /\ scan.rows[f].inode = scan.seen[p].inode}
           alike == {f \in left : scan.rows[f].hash = scan.seen[p].content}
           c == MoveCandidate(p, left)
<1>1. IsFiniteSet(same) /\ IsFiniteSet(alike)
  <2>1. same \in SUBSET FileIds /\ alike \in SUBSET FileIds
    OBVIOUS
  <2> QED
    BY <2>1, FilesAreFinite
<1>2. Cardinality(same) = 1 => \E f : same = {f}
  <2> HIDE DEF same
  <2> QED
    BY <1>1, FS_Singleton
<1>3. Cardinality(alike) = 1 => \E f : alike = {f}
  <2> HIDE DEF alike
  <2> QED
    BY <1>1, FS_Singleton
<1>4. c = IF Cardinality(same) = 1 THEN CHOOSE f \in same : TRUE
          ELSE IF Cardinality(alike) = 1 THEN CHOOSE f \in alike : TRUE ELSE 0
  <2> SUFFICES MoveCandidate(p, left) =
               IF Cardinality(same) = 1 THEN CHOOSE f \in same : TRUE
               ELSE IF Cardinality(alike) = 1 THEN CHOOSE f \in alike : TRUE ELSE 0
    OBVIOUS
  <2> QED
    BY DEF MoveCandidate
<1> HIDE DEF c
<1>5. c = 0 \/ c \in same \/ c \in alike
  <2> HIDE DEF same, alike
  <2> QED
    BY <1>2, <1>3, <1>4
<1>6. ASSUME NEW f \in left, scan.rows[f].inode # 0, scan.rows[f].inode = scan.seen[p].inode,
             \A g \in left \ {f} : scan.rows[g].inode # scan.rows[f].inode
      PROVE  c = f
  <2>1. same = {f}
    BY <1>6
  <2>2. Cardinality(same) = 1
    BY <2>1, FS_Singleton
  <2> HIDE DEF same, alike
  <2> QED
    BY <1>4, <2>1, <2>2
<1>7. c = 0 \/ (/\ c \in left
                /\ \/ scan.rows[c].inode = scan.seen[p].inode
                   \/ scan.rows[c].hash = scan.seen[p].content)
  BY <1>5
<1> QED
  BY <1>6, <1>7 DEF c

(* What is decided of the moves at the i-th path: nothing for the paths that *)
(* follow, no row twice, and for a row that keeps its identity its path.     *)
Fits(m, i) ==
    /\ m \in [Paths -> FileIds \cup {0}]
    /\ \A p \in Paths : m[p] # 0 => m[p] \in Removed /\ p \in Added
    /\ \A p, q \in Paths : m[p] # 0 /\ m[p] = m[q] => p = q
    /\ \A j \in DOMAIN PathOrder : j > i => m[PathOrder[j]] = 0
    /\ \A f \in FileIds, n \in DOMAIN PathOrder :
         KeepsIdentity(f, n) =>
            IF n <= i THEN m[PathOrder[n]] = f ELSE \A p \in Paths : m[p] # f

LEMMA MoveStepFits ==
  ASSUME NEW i \in 1..Len(PathOrder), NEW m, Fits(m, i - 1)
  PROVE  Fits(MoveStep(m, PathOrder[i]), i)
<1> DEFINE p == PathOrder[i]
           left == Removed \ {m[q] : q \in Paths}
           c == MoveCandidate(p, left)
<1>0. i \in DOMAIN PathOrder /\ i \in Nat /\ p \in Paths /\ i - 1 < i
      /\ \A j \in DOMAIN PathOrder : j \in Nat
  BY PathFacts
<1>1. CASE p \notin Added
  <2>1. MoveStep(m, p) = m
    BY <1>1 DEF MoveStep
  <2>2. \A j \in DOMAIN PathOrder : j > i => m[PathOrder[j]] = 0
    BY <1>0 DEF Fits
  <2>3. ASSUME NEW f \in FileIds, NEW n \in DOMAIN PathOrder, KeepsIdentity(f, n)
        PROVE  IF n <= i THEN m[PathOrder[n]] = f ELSE \A q \in Paths : m[q] # f
    <3>1. n # i
      BY <1>1, <2>3 DEF KeepsIdentity
    <3>2. n <= i <=> n <= i - 1
      BY <3>1, <1>0
    <3> QED
      BY <2>3, <3>2 DEF Fits
  <2> QED
    BY <2>1, <2>2, <2>3 DEF Fits
<1>2. CASE p \in Added
  <2>1. left \in SUBSET FileIds /\ left \subseteq Removed /\ \A q \in Paths : m[q] \notin left
    BY DEF Removed
  <2>2. /\ c = 0 \/ (/\ c \in left
                     /\ \/ scan.rows[c].inode = scan.seen[p].inode
                        \/ scan.rows[c].hash = scan.seen[p].content)
        /\ \A f \in left :
             (/\ scan.rows[f].inode # 0 /\ scan.rows[f].inode = scan.seen[p].inode
              /\ \A g \in left \ {f} : scan.rows[g].inode # scan.rows[f].inode) => c = f
    <3> HIDE DEF left
    <3> QED
      BY <1>0, <2>1, CandidateFits
  <2>3. MoveStep(m, p) = [m EXCEPT ![p] = c]
    BY <1>2 DEF MoveStep
  <2> HIDE DEF c, left
  <2>4. m \in [Paths -> FileIds \cup {0}] /\ m[p] = 0
    BY <1>0 DEF Fits
  <2> DEFINE k == [m EXCEPT ![p] = c]
  <2>5. k \in [Paths -> FileIds \cup {0}] /\ k[p] = c
        /\ \A q \in Paths : q # p => k[q] = m[q]
    BY <2>1, <2>2, <2>4, <1>0
  <2> HIDE DEF k
  <2>6. \A q \in Paths : k[q] # 0 => k[q] \in Removed /\ q \in Added
    BY <1>2, <2>1, <2>2, <2>5 DEF Fits
  <2>7. \A q, s \in Paths : k[q] # 0 /\ k[q] = k[s] => q = s
    BY <2>1, <2>2, <2>5 DEF Fits
  <2>8. \A j \in DOMAIN PathOrder : j > i => k[PathOrder[j]] = 0
    <3>1. \A j \in DOMAIN PathOrder : j > i => j > i - 1 /\ PathOrder[j] # p /\ PathOrder[j] \in Paths
      BY <1>0, VaultAssumption, PathFacts
    <3> QED
      BY <2>5, <3>1 DEF Fits
  <2>9. ASSUME NEW f \in FileIds, NEW n \in DOMAIN PathOrder, KeepsIdentity(f, n)
        PROVE  IF n <= i THEN k[PathOrder[n]] = f ELSE \A q \in Paths : k[q] # f
    <3>1. n \in Nat /\ PathOrder[n] \in Paths /\ (n # i => PathOrder[n] # p) /\ f # 0
      BY <1>0, VaultAssumption, PathFacts
    <3>2. CASE n < i
      <4>1. n <= i - 1 /\ n <= i
        BY <3>1, <3>2, <1>0
      <4>2. m[PathOrder[n]] = f
        BY <2>9, <4>1 DEF Fits
      <4> QED
        BY <2>5, <3>1, <3>2, <4>1, <4>2
    <3>3. CASE n = i
      <4>1. f \in Removed /\ \A q \in Paths : m[q] # f
        <5>1. ~ (n <= i - 1)
          BY <3>1, <3>3, <1>0
        <5> QED
          BY <2>9, <5>1 DEF Fits, KeepsIdentity, Removed
      <4>2. f \in left
        BY <4>1 DEF left
      <4>3. /\ scan.rows[f].inode # 0 /\ scan.rows[f].inode = scan.seen[p].inode
            /\ \A g \in FileIds \ {f} : scan.rows[g].inode # scan.rows[f].inode
        BY <2>9, <3>3 DEF KeepsIdentity
      <4>4. c = f
        BY <2>1, <2>2, <4>2, <4>3
      <4> QED
        BY <2>5, <3>1, <3>3, <4>4
    <3>4. CASE n > i
      <4>1. ~ (n <= i) /\ ~ (n <= i - 1) /\ i \in 1..(n - 1)
        BY <3>1, <3>4, <1>0
      <4>2. \A q \in Paths : m[q] # f
        BY <2>9, <4>1 DEF Fits
      <4>3. scan.seen[p].content # scan.rows[f].hash
        BY <1>2, <2>9, <4>1 DEF KeepsIdentity
      <4>4. scan.seen[p].inode # scan.rows[f].inode
        BY <2>9, <3>1, <3>4, <1>0 DEF KeepsIdentity
      <4>5. c # f
        BY <2>2, <3>1, <4>3, <4>4
      <4> QED
        BY <2>5, <4>1, <4>2, <4>5
    <3> QED
      BY <3>1, <3>2, <3>3, <3>4, <1>0
  <2>10. Fits(k, i)
    BY <2>5, <2>6, <2>7, <2>8, <2>9 DEF Fits
  <2> QED
    BY <2>3, <2>10 DEF k
<1> QED
  BY <1>1, <1>2

LEMMA MovedToFits == Fits(MovedTo, Len(PathOrder))
<1> DEFINE N == Len(PathOrder)
           S == {i \in 0..N : Fits(Moves[i], i)}
<1>1. N \in Nat /\ N \in 0..N
  BY PathFacts
<1>2. 0 \in S
  <2>1. Moves[0] = NoMoves
    BY MovesDefined
  <2>2. \A n \in DOMAIN PathOrder : ~ (n <= 0)
    BY PathFacts
  <2>3. \A f \in FileIds : f # 0
    BY PathFacts
  <2>4. Fits(NoMoves, 0)
    <3>1. /\ NoMoves \in [Paths -> FileIds \cup {0}]
          /\ \A p \in Paths : NoMoves[p] = 0
      BY DEF NoMoves
    <3> QED
      BY <2>2, <2>3, <3>1, PathFacts DEF Fits
  <2> QED
    BY <1>1, <2>1, <2>4
<1>3. ASSUME NEW i \in 1..N, i - 1 \in S PROVE i \in S
  <2>1. Fits(MoveStep(Moves[i - 1], PathOrder[i]), i)
    BY <1>3, MoveStepFits
  <2>2. Moves[i] = MoveStep(Moves[i - 1], PathOrder[i])
    BY MovesDefined
  <2> QED
    BY <1>1, <2>1, <2>2
<1>4. 0..N \subseteq S
  <2> HIDE DEF S
  <2> QED
    BY <1>1, <1>2, <1>3, UpTo
<1> QED
  BY <1>1, <1>4 DEF MovedTo

-----------------------------------------------------------------------------
(* The rows a scan commits                                                 *)

(* There is a free row for every path that has none: as many paths as rows   *)
(* are taken, since no two rows share one.                                   *)
LEMMA NewRowsAreNew ==
  ASSUME VaultInv, \A p \in Fresh : ~PathTaken(p)
  PROVE  NewRows \in Injection(Fresh, {f \in FileIds : ~Exists(f)})
<1> DEFINE free == {f \in FileIds : ~Exists(f)}
           used == {f \in FileIds : Exists(f)}
           taken == {row[f].path : f \in used}
<1>1. IsFiniteSet(Paths) /\ Cardinality(Paths) = Len(PathOrder)
  <2> DEFINE N == Len(PathOrder)
  <2>1. IsFiniteSet(1..N) /\ Cardinality(1..N) = N
    BY PathFacts, FS_Interval
  <2>2. PathOrder \in Bijection(1..N, Paths)
    <3>1. PathOrder \in [1..N -> Paths]
      BY VaultAssumption
    <3>2. \A i, j \in 1..N : PathOrder[i] = PathOrder[j] => i = j
      BY VaultAssumption, PathFacts
    <3>3. \A p \in Paths : \E i \in 1..N : PathOrder[i] = p
      BY PathFacts
    <3> QED
      BY <3>1, <3>2, <3>3, Fun_IsBij
  <2>3. ExistsBijection(1..N, Paths)
    BY <2>2, Fun_ExistsBij
  <2> QED
    BY <2>1, <2>3, FS_Bijection
<1>2. Cardinality(FileIds) = Len(PathOrder)
  BY PathFacts, FS_Interval DEF FileIds
<1>3. IsFiniteSet(used) /\ IsFiniteSet(free)
  BY FilesAreFinite
<1>4. taken \subseteq Paths
  BY NoRowIsNone DEF VaultInv, VaultTypeOK, Exists, VaultFileRow
<1>5. IsFiniteSet(taken) /\ Cardinality(taken) = Cardinality(used)
  <2> DEFINE g == [f \in used |-> row[f].path]
  <2>1. g \in Bijection(used, taken)
    <3>1. g \in [used -> taken]
      OBVIOUS
    <3>2. \A e, f \in used : g[e] = g[f] => e = f
      BY DEF VaultInv, OnePathEach, Exists
    <3>3. \A p \in taken : \E f \in used : g[f] = p
      OBVIOUS
    <3> HIDE DEF g, used, taken
    <3> QED
      BY <3>1, <3>2, <3>3, Fun_IsBij
  <2> HIDE DEF g, used, taken
  <2>2. ExistsBijection(used, taken)
    BY <2>1, Fun_ExistsBij
  <2> QED
    BY <1>3, <2>2, FS_Bijection
<1>6. Fresh \subseteq Paths \ taken
  <2>1. Added \subseteq Paths
    BY DEF Added, VaultInv, VaultTypeOK, ScanRow
  <2> QED
    BY <2>1 DEF Fresh, PathTaken
<1>7. /\ IsFiniteSet(Paths \ taken)
      /\ Cardinality(Paths \ taken) = Len(PathOrder) - Cardinality(used)
  <2>1. Paths \cap taken = taken
    BY <1>4
  <2> HIDE DEF taken, used
  <2>2. /\ IsFiniteSet(Paths \ taken)
        /\ Cardinality(Paths \ taken) = Cardinality(Paths) - Cardinality(Paths \cap taken)
    BY <1>1, FS_Difference
  <2>3. Cardinality(Paths \cap taken) = Cardinality(used)
    BY <1>5, <2>1
  <2> QED
    BY <1>1, <2>2, <2>3
<1>8. Cardinality(free) = Len(PathOrder) - Cardinality(used)
  <2>1. free = FileIds \ used /\ FileIds \cap used = used
    OBVIOUS
  <2> HIDE DEF free, used
  <2>2. Cardinality(FileIds \ used) = Cardinality(FileIds) - Cardinality(FileIds \cap used)
    BY FilesAreFinite, FS_Difference
  <2>3. Cardinality(FileIds \cap used) = Cardinality(used)
    BY <2>1
  <2>4. Cardinality(free) = Cardinality(FileIds \ used)
    BY <2>1
  <2> QED
    BY <1>2, <2>2, <2>3, <2>4
<1>9. IsFiniteSet(Fresh) /\ Cardinality(Fresh) <= Cardinality(free)
  <2> HIDE DEF free, used, taken
  <2> QED
    BY <1>6, <1>7, <1>8, FS_Subset
<1>10. Injection(Fresh, free) # {}
  <2> DEFINE n == Cardinality(Fresh)
             k == Cardinality(free)
  <2> HIDE DEF free
  <2>1. n \in Nat /\ k \in Nat /\ n <= k
    BY <1>3, <1>9, FS_CardinalityType
  <2>2. PICK g \in Bijection(1..n, Fresh) : TRUE
    BY <1>9, FS_CardinalityType, Fun_ExistsBij
  <2>3. PICK h \in Bijection(1..k, free) : TRUE
    BY <1>3, FS_CardinalityType, Fun_ExistsBij
  <2> HIDE DEF n, k
  <2>4. Inverse(g, 1..n, Fresh) \in Bijection(Fresh, 1..n)
    BY <2>2, Fun_BijInverse
  <2>5. PICK e \in Bijection(Fresh, 1..n) : TRUE
    BY <2>4
  <2>6. e \in Injection(Fresh, 1..k)
    <3>1. e \in [Fresh -> 1..n] /\ \A a, b \in Fresh : e[a] = e[b] => a = b
      BY <2>5, Fun_BijectionProperties
    <3>2. 1..n \subseteq 1..k
      BY <2>1
    <3>3. e \in [Fresh -> 1..k]
      BY <3>1, <3>2
    <3> QED
      BY <3>1, <3>3, Fun_IsInj
  <2>7. h \in Injection(1..k, free)
    BY <2>3, Fun_BijectionProperties
  <2>8. [p \in Fresh |-> h[e[p]]] \in Injection(Fresh, free)
    BY <2>6, <2>7, Fun_InjTransitive
  <2> QED
    BY <2>8
<1> HIDE DEF free
<1>11. NewRows = CHOOSE g \in Injection(Fresh, free) : TRUE
  BY DEF NewRows, free
<1>12. NewRows \in Injection(Fresh, free)
  BY <1>10, <1>11
<1> QED
  BY <1>12 DEF free

LEMMA ReadRow ==
  ASSUME VaultInv, NEW p \in scan.found
  PROVE  /\ ReadAt(p) \in VaultFileRow /\ ReadAt(p).path = p /\ ~ReadAt(p).tomb
         /\ ReadAt(p).hash = scan.seen[p].content
<1>1. p \in Paths /\ scan.seen[p] \in DiskFile \ {Gone}
  BY DEF VaultInv, VaultTypeOK, ScanRow, SeenIsFound
<1>2. scan.seen[p].content \in VaultContents /\ scan.seen[p].inode \in Inodes
  BY <1>1 DEF DiskFile
<1> QED
  BY <1>1, <1>2 DEF ReadAt, VaultFileRow

(* What a scan makes of a row that it has read: the row of a path that it    *)
(* has found, or a tombstone.                                                *)
LEMMA WantedRow ==
  ASSUME VaultInv, NEW f \in FileIds, Known(f)
  PROVE  LET was == scan.rows[f] IN
         /\ Wanted(f) \in VaultFileRow
         /\ (\E p \in scan.found : Wanted(f) = ReadAt(p)) \/ Wanted(f).tomb
         /\ \A p \in Added : MovedTo[p] = f => Wanted(f) = ReadAt(p)
         /\ WasLive(f) /\ was.path \in scan.found => Wanted(f) = ReadAt(was.path)
         /\ ~WasLive(f) /\ was.path \in Added /\ MovedTo[was.path] = 0 =>
              Wanted(f) = ReadAt(was.path)
<1> DEFINE was == scan.rows[f]
           to == {p \in Added : MovedTo[p] = f}
           revived == was.path \in Added /\ MovedTo[was.path] = 0
<1>1. Wanted(f) =
        CASE WasLive(f) /\ was.path \in scan.found -> ReadAt(was.path)
          [] WasLive(f) /\ was.path \notin scan.found /\ to # {} ->
               ReadAt(CHOOSE p \in to : TRUE)
          [] WasLive(f) /\ was.path \notin scan.found /\ to = {} ->
               [was EXCEPT !.tomb = TRUE]
          [] OTHER -> IF revived THEN ReadAt(was.path) ELSE was
  BY DEF Wanted
<1>2. scan.found \subseteq Paths /\ Added \subseteq scan.found
  BY DEF VaultInv, VaultTypeOK, ScanRow, Added
<1>3. /\ \A p, q \in to : p = q
      /\ to # {} => WasLive(f) /\ was.path \notin scan.found
  <2>1. \A p \in to : p \in Paths /\ MovedTo[p] = f /\ f # 0
    BY <1>2, PathFacts
  <2>2. to # {} => f \in Removed
    <3> HIDE DEF to
    <3> QED
      BY <2>1, MovedToFits DEF Fits
  <2>3. \A p, q \in to : p = q
    <3> HIDE DEF to
    <3> QED
      BY <2>1, MovedToFits DEF Fits
  <2> QED
    BY <2>2, <2>3 DEF Removed
<1>4. was \in VaultFileRow
  <2>1. was \in VaultRow /\ was # NoRow
    BY DEF VaultInv, VaultTypeOK, ScanRow, Known
  <2> QED
    BY <2>1, NoRowIsNone
<1>5. \A p \in to : (CHOOSE q \in to : TRUE) = p
  <2> HIDE DEF to
  <2> QED
    BY <1>3
<1>6. \A p \in Added : MovedTo[p] = f => p \in to
  OBVIOUS
<1>7. \A p \in to : p \in scan.found /\ p \in Added
  BY <1>2
<1>8. [was EXCEPT !.tomb = TRUE] \in VaultFileRow /\ [was EXCEPT !.tomb = TRUE].tomb
  <2> HIDE DEF was
  <2> QED
    BY <1>4 DEF VaultFileRow
<1>9. ~WasLive(f) => was.tomb
  <2>1. was.tomb \in BOOLEAN
    <3> HIDE DEF was
    <3> QED
      BY <1>4 DEF VaultFileRow
  <2>2. was.tomb # TRUE => WasLive(f)
    BY <2>1 DEF WasLive
  <2> HIDE DEF was
  <2> QED
    BY <2>1, <2>2
<1>10. revived => was.path \in scan.found
  BY <1>2
<1>11. \A p \in scan.found : ReadAt(p) \in VaultFileRow
  BY ReadRow
<1> HIDE DEF was, to
<1>12. CASE WasLive(f) /\ was.path \in scan.found
  <2>1. Wanted(f) = ReadAt(was.path)
    BY <1>1, <1>12
  <2>2. to = {}
    BY <1>3, <1>12
  <2> QED
    BY <1>6, <1>11, <1>12, <2>1, <2>2 DEF was
<1>13. CASE WasLive(f) /\ was.path \notin scan.found /\ to # {}
  <2>1. Wanted(f) = ReadAt(CHOOSE p \in to : TRUE)
    BY <1>1, <1>13
  <2>2. PICK p \in to : Wanted(f) = ReadAt(p)
    BY <1>13, <2>1, <1>5
  <2>3. \A q \in Added : MovedTo[q] = f => Wanted(f) = ReadAt(q)
    BY <1>3, <1>6, <2>2
  <2> QED
    BY <1>7, <1>11, <1>13, <2>2, <2>3 DEF was
<1>14. CASE WasLive(f) /\ was.path \notin scan.found /\ to = {}
  <2>1. Wanted(f) = [was EXCEPT !.tomb = TRUE]
    BY <1>1, <1>14
  <2> QED
    BY <1>6, <1>8, <1>14, <2>1 DEF was
<1>15. CASE ~WasLive(f) /\ revived
  <2>1. Wanted(f) = ReadAt(was.path)
    BY <1>1, <1>15
  <2>2. to = {}
    BY <1>3, <1>15
  <2> QED
    BY <1>6, <1>10, <1>11, <1>15, <2>1, <2>2 DEF was
<1>16. CASE ~WasLive(f) /\ ~revived
  <2>1. Wanted(f) = was
    BY <1>1, <1>16
  <2>2. to = {}
    BY <1>3, <1>16
  <2> QED
    BY <1>4, <1>6, <1>9, <1>16, <2>1, <2>2 DEF was
<1> QED
  BY <1>12, <1>13, <1>14, <1>15, <1>16

(* The columns that the scan sets, over what the row is now. *)
LEMMA UpdatedRow ==
  ASSUME VaultInv, NEW f \in FileIds, Known(f)
  PROVE  /\ Updated(f) \in VaultFileRow
         /\ row[f] = scan.rows[f] => Updated(f) = Wanted(f)
<1> DEFINE now == row[f]
           was == scan.rows[f]
           wanted == Wanted(f)
<1>1. now \in VaultFileRow
  <2>1. Exists(f) /\ row[f] \in VaultRow
    BY DEF VaultInv, VaultTypeOK, ReadRowsExist
  <2> QED
    BY <2>1, NoRowIsNone DEF Exists
<1>2. wanted \in VaultFileRow
  BY WantedRow
<1>3. Updated(f) = [path |-> Column(now.path, was.path, wanted.path),
                    hash |-> Column(now.hash, was.hash, wanted.hash),
                    inode |-> Column(now.inode, was.inode, wanted.inode),
                    tomb |-> Column(now.tomb, was.tomb, wanted.tomb)]
  BY DEF Updated
<1> HIDE DEF now, was, wanted
<1>4. Updated(f) \in VaultFileRow
  BY <1>1, <1>2, <1>3 DEF Column, VaultFileRow
<1>5. ASSUME now = was PROVE Updated(f) = wanted
  <2>1. Updated(f) = [path |-> wanted.path, hash |-> wanted.hash,
                      inode |-> wanted.inode, tomb |-> wanted.tomb]
    BY <1>3, <1>5 DEF Column
  <2> QED
    BY <1>2, <2>1 DEF VaultFileRow
<1> QED
  BY <1>4, <1>5 DEF now, was, wanted

(* The row that a scan commits for a file. *)
LEMMA ScannedRow ==
  ASSUME VaultInv, \A p \in Fresh : ~PathTaken(p), NEW f \in FileIds
  PROVE  /\ Scanned[f] \in VaultRow
         /\ Exists(f) => Scanned[f] # NoRow
         /\ Known(f) => Scanned[f] = Updated(f)
         /\ ~Exists(f) => \/ Scanned[f] = NoRow
                          \/ \E p \in scan.found : Scanned[f] = ReadAt(p)
         /\ \A p \in Fresh : NewRows[p] = f => Scanned[f] = ReadAt(p)
<1> DEFINE made == {p \in Fresh : NewRows[p] = f}
           first == ReadAt(CHOOSE p \in made : TRUE)
<1>1. Scanned[f] = CASE ~Exists(f) -> IF made = {} THEN NoRow ELSE first
                     [] Exists(f) /\ Known(f) -> Updated(f)
                     [] OTHER -> row[f]
  BY DEF Scanned
<1>2. /\ \A p, q \in made : p = q
      /\ made # {} => ~Exists(f)
      /\ made \subseteq scan.found
  <2>1. NewRows \in [Fresh -> {g \in FileIds : ~Exists(g)}]
        /\ \A p, q \in Fresh : NewRows[p] = NewRows[q] => p = q
    BY NewRowsAreNew, Fun_InjectionProperties
  <2> QED
    BY <2>1 DEF Fresh, Added
<1>3. \A p \in made : first = ReadAt(p)
  <2> SUFFICES ASSUME NEW p \in made PROVE first = ReadAt(p)
    OBVIOUS
  <2>1. (CHOOSE q \in made : TRUE) = p
    <3> HIDE DEF made
    <3> QED
      BY <1>2
  <2> QED
    BY <2>1
<1>4. \A p \in Fresh : NewRows[p] = f => p \in made
  OBVIOUS
<1>5. Known(f) => Exists(f)
  BY DEF VaultInv, ReadRowsExist
<1>6. row[f] \in VaultRow /\ (Exists(f) => row[f] # NoRow)
  BY DEF VaultInv, VaultTypeOK, Exists
<1>7. \A p \in scan.found : ReadAt(p) \in VaultRow
  BY ReadRow, NoRowIsNone
<1>8. NoRow \in VaultRow
  BY NoRowIsNone
<1> HIDE DEF made, first
<1>9. CASE ~Exists(f) /\ made = {}
  <2>1. Scanned[f] = NoRow
    BY <1>1, <1>9
  <2> QED
    BY <1>4, <1>5, <1>8, <1>9, <2>1
<1>10. CASE ~Exists(f) /\ made # {}
  <2>1. PICK p \in made : TRUE
    BY <1>10
  <2>2. Scanned[f] = first
    BY <1>1, <1>10
  <2>3. Scanned[f] = ReadAt(p) /\ p \in scan.found
    BY <1>2, <1>3, <2>1, <2>2
  <2> QED
    BY <1>2, <1>4, <1>5, <1>7, <1>10, <2>1, <2>3
<1>11. CASE Exists(f) /\ Known(f)
  <2>1. Scanned[f] = Updated(f)
    BY <1>1, <1>11
  <2>2. Updated(f) \in VaultRow /\ Updated(f) # NoRow
    BY <1>11, UpdatedRow, NoRowIsNone
  <2> QED
    BY <1>2, <1>4, <1>11, <2>1, <2>2
<1>12. CASE Exists(f) /\ ~Known(f)
  <2>1. Scanned[f] = row[f]
    BY <1>1, <1>12
  <2> QED
    BY <1>2, <1>4, <1>6, <1>12, <2>1
<1> QED
  BY <1>9, <1>10, <1>11, <1>12

(* The rows that a scan commits: those of what it has found, when no one has *)
(* changed the rows it compared; and whoever has changed others, a row that  *)
(* nobody has changed moves with its file.                                   *)
LEMMA ScannedRows ==
  ASSUME VaultInv, \A p \in Fresh : ~PathTaken(p)
  PROVE  /\ Scanned \in [FileIds -> VaultRow]
         /\ scan.rows = row /\ OnePathEach(Scanned) => RowsAreFound(Scanned)
         /\ \A f \in FileIds, n \in DOMAIN PathOrder :
              KeepsIdentity(f, n) /\ scan.rows[f] = row[f] =>
                Scanned[f].path = PathOrder[n] /\ ~Scanned[f].tomb
<1>1. Scanned \in [FileIds -> VaultRow]
  <2>1. \A f \in FileIds : Scanned[f] \in VaultRow
    BY ScannedRow
  <2>2. Scanned = [f \in FileIds |-> Scanned[f]]
    BY DEF Scanned
  <2> QED
    BY <2>1, <2>2
<1>2. Added \subseteq scan.found /\ scan.found \subseteq Paths
  BY DEF Added, VaultInv, VaultTypeOK, ScanRow
<1>3. ASSUME NEW f \in FileIds, Known(f), scan.rows[f] = row[f]
      PROVE  Scanned[f] = Wanted(f)
  BY <1>3, ScannedRow, UpdatedRow
<1>4. ASSUME NEW p \in scan.found, scan.rows = row
      PROVE  \E f \in FileIds : Scanned[f] = ReadAt(p)
  <2>1. CASE p \notin Added
    <3>1. PICK f \in FileIds : WasLive(f) /\ scan.rows[f].path = p
      BY <2>1 DEF Added
    <3>2. Scanned[f] = Wanted(f) /\ Known(f)
      BY <1>3, <1>4, <3>1 DEF WasLive
    <3> QED
      BY <3>1, <3>2, WantedRow
  <2>2. CASE p \in Added /\ MovedTo[p] # 0
    <3>1. MovedTo[p] \in FileIds /\ MovedTo[p] \in Removed
      BY <1>2, <2>2, MovedToFits DEF Fits
    <3>2. Scanned[MovedTo[p]] = Wanted(MovedTo[p]) /\ Known(MovedTo[p])
      BY <1>3, <1>4, <3>1 DEF Removed, WasLive
    <3> QED
      BY <2>2, <3>1, <3>2, WantedRow
  <2>3. CASE p \in Added /\ MovedTo[p] = 0 /\ p \notin Fresh
    <3>1. PICK f \in FileIds : Known(f) /\ scan.rows[f].path = p
      BY <2>3 DEF Fresh
    <3>2. ~WasLive(f)
      BY <2>3, <3>1 DEF Added
    <3>3. Scanned[f] = Wanted(f)
      BY <1>3, <1>4, <3>1
    <3> QED
      BY <2>3, <3>1, <3>2, <3>3, WantedRow
  <2>4. CASE p \in Fresh
    <3>1. NewRows[p] \in FileIds
      BY <2>4, NewRowsAreNew, Fun_InjectionProperties
    <3> QED
      BY <2>4, <3>1, ScannedRow
  <2> QED
    BY <2>1, <2>2, <2>3, <2>4
<1>5. ASSUME NEW g \in FileIds, scan.rows = row, Scanned[g] # NoRow, ~Scanned[g].tomb
      PROVE  \E q \in scan.found : Scanned[g] = ReadAt(q)
  <2>1. CASE ~Exists(g)
    BY <1>5, <2>1, ScannedRow
  <2>2. CASE Exists(g)
    <3>1. Known(g)
      BY <1>5, <2>2 DEF Known, Exists
    <3>2. Scanned[g] = Wanted(g)
      BY <1>3, <1>5, <3>1
    <3> QED
      BY <1>5, <3>1, <3>2, WantedRow
  <2> QED
    BY <2>1, <2>2
<1>6. ASSUME scan.rows = row, OnePathEach(Scanned) PROVE RowsAreFound(Scanned)
  <2>1. ASSUME NEW p \in Paths, p \in scan.found
        PROVE  \E f \in {g \in FileIds : Scanned[g] # NoRow /\ ~Scanned[g].tomb
                                         /\ Scanned[g].path = p} :
                  /\ {g \in FileIds : Scanned[g] # NoRow /\ ~Scanned[g].tomb
                                      /\ Scanned[g].path = p} = {f}
                  /\ Scanned[f].hash = scan.seen[p].content
    <3>1. PICK f \in FileIds : Scanned[f] = ReadAt(p)
      BY <1>4, <1>6, <2>1
    <3>2. /\ Scanned[f] # NoRow /\ ~Scanned[f].tomb /\ Scanned[f].path = p
          /\ Scanned[f].hash = scan.seen[p].content
      BY <2>1, <3>1, ReadRow, NoRowIsNone
    <3>3. \A g \in FileIds : Scanned[g] # NoRow /\ Scanned[g].path = p => g = f
      BY <1>6, <3>2 DEF OnePathEach
    <3>4. {g \in FileIds : Scanned[g] # NoRow /\ ~Scanned[g].tomb
                           /\ Scanned[g].path = p} = {f}
      BY <3>2, <3>3
    <3> QED
      BY <3>2, <3>4
  <2>2. ASSUME NEW p \in Paths, p \notin scan.found
        PROVE  {g \in FileIds : Scanned[g] # NoRow /\ ~Scanned[g].tomb
                                /\ Scanned[g].path = p} = {}
    <3>1. ASSUME NEW g \in FileIds, Scanned[g] # NoRow, ~Scanned[g].tomb, Scanned[g].path = p
          PROVE  FALSE
      <4>1. PICK q \in scan.found : Scanned[g] = ReadAt(q)
        BY <1>5, <1>6, <3>1
      <4> QED
        BY <2>2, <3>1, <4>1, ReadRow
    <3> QED
      BY <3>1
  <2> QED
    BY <2>1, <2>2 DEF RowsAreFound
<1>7. ASSUME NEW f \in FileIds, NEW n \in DOMAIN PathOrder, KeepsIdentity(f, n),
             scan.rows[f] = row[f]
      PROVE  Scanned[f].path = PathOrder[n] /\ ~Scanned[f].tomb
  <2>1. n <= Len(PathOrder)
    BY PathFacts
  <2>2. PathOrder[n] \in Added /\ MovedTo[PathOrder[n]] = f /\ Known(f)
    BY <1>7, <2>1, MovedToFits DEF Fits, KeepsIdentity, Removed, WasLive
  <2>3. Scanned[f] = ReadAt(PathOrder[n])
    BY <1>3, <1>7, <2>2, WantedRow
  <2> QED
    BY <1>2, <2>2, <2>3, ReadRow
<1> QED
  BY <1>1, <1>6, <1>7

LEMMA EndScanInv ==
  ASSUME VaultInv, EndScan
  PROVE  VaultInv' /\ ScanRecords
<1> USE DEF VaultInv
<1>1. /\ \A p \in Fresh : ~PathTaken(p)
      /\ OnePathEach(Scanned) /\ row' = Scanned /\ UNCHANGED <<disk, vcall, base, edits>>
      /\ scan' = [NoScan EXCEPT !.state = "ended"]
  BY DEF EndScan
<1>2. row' \in [FileIds -> VaultRow] /\ OnePathEach(row)'
  BY <1>1, ScannedRows DEF OnePathEach
<1>3. scan' \in ScanRow /\ SeenIsFound' /\ ReadRowsExist'
  BY <1>1, NewScan
<1>4. VaultTypeOK'
  BY <1>1, <1>2, <1>3 DEF VaultTypeOK
<1>5. CallsHaveRows'
  <2>1. \A f \in FileIds : Exists(f) => row'[f] # NoRow
    BY <1>1, ScannedRow
  <2>2. \A a \in VaultCalls : vcall[a] # NoVaultCall /\ vcall[a].file # 0 =>
           vcall[a].file \in FileIds
    BY NoCallIsNone DEF VaultTypeOK
  <2> QED
    BY <1>1, <2>1, <2>2 DEF CallsHaveRows, Exists
<1>6. ScanRecords
  <2>1. scan.rows = row => RowsAreFound(row')
    <3>1. scan.rows = row => RowsAreFound(Scanned)
      BY <1>1, ScannedRows
    <3> QED
      BY <1>1, <3>1 DEF RowsAreFound
  <2> QED
    BY <1>1, <2>1, ScannedRows DEF ScanRecords
<1> QED
  BY <1>2, <1>3, <1>4, <1>5, <1>6

LEMMA VaultNextInv ==
  ASSUME VaultInv, [VaultNext]_vaultVars
  PROVE  VaultInv' /\ [ScanRecords]_vaultVars
<1>1. CASE UNCHANGED vaultVars
  BY <1>1 DEF vaultVars, VaultInv, VaultTypeOK, OnePathEach, CallsHaveRows, SeenIsFound,
     ReadRowsExist, Known, Exists
<1>2. ASSUME NEW p \in Paths, NEW q \in Paths,
             ExternalWrite(p) \/ ExternalRemove(p) \/ ExternalRename(p, q)
      PROVE  VaultInv' /\ ScanRecords
  <2>1. UNCHANGED row
    BY <1>2 DEF ExternalWrite, ExternalRemove, ExternalRename
  <2> QED
    BY <1>2, <2>1, OutsideInv DEF ScanRecords
<1>3. ASSUME NEW a \in VaultCalls,
             BeginCreate(a) \/ BeginUpdate(a) \/ BeginMove(a) \/ BeginDelete(a)
      PROVE  VaultInv' /\ ScanRecords
  <2>1. UNCHANGED row
    BY <1>3 DEF BeginCreate, BeginUpdate, BeginMove, BeginDelete, BeginVaultCall
  <2> QED
    BY <1>3, <2>1, BeginVaultInv DEF ScanRecords
<1>4. ASSUME NEW a \in VaultCalls, VaultCallStep(a)
      PROVE  VaultInv' /\ ScanRecords
  <2>1. UNCHANGED scan
    BY <1>4 DEF VaultCallStep, FlushTombstone, ChangeDisk, CommitVaultCall, AbortVaultCall
  <2> QED
    BY <1>4, <2>1, CallStepInv DEF ScanRecords
<1>5. ASSUME RequestScan \/ BeginScan \/ ScanRead \/ ReadRows \/ FailScan
      PROVE  VaultInv' /\ ScanRecords
  <2>1. UNCHANGED row
    BY <1>5 DEF RequestScan, BeginScan, ScanRead, ReadRows, FailScan
  <2> QED
    BY <1>5, <2>1, ScanningInv DEF ScanRecords
<1>6. ASSUME IndexChanges \/ DeleteVault
      PROVE  VaultInv' /\ ScanRecords
  <2>1. scan'.state # "ended" \/ UNCHANGED scan
    BY <1>6 DEF IndexChanges, DeleteVault, NoScan
  <2> QED
    BY <1>6, <2>1, KnowledgeBaseInv DEF ScanRecords
<1>7. CASE VaultNext
  BY <1>2, <1>3, <1>4, <1>5, <1>6, <1>7, EndScanInv DEF VaultNext, ScanStep
<1> QED
  BY <1>1, <1>7

(* Rows, calls and the scan agree, whatever others write meanwhile. *)
THEOREM VaultInvariant == VaultSpec => []VaultInv
<1>1. VaultInv /\ [VaultNext]_vaultVars => VaultInv'
  BY VaultNextInv
<1> QED
  BY VaultInitInv, <1>1, PTL DEF VaultSpec

(* Rows, files, calls and the scan keep their types; no two rows have one path. *)
THEOREM VaultTypeCorrect == VaultSpec => []VaultTypeOK
<1>1. VaultInv => VaultTypeOK
  BY DEF VaultInv
<1> QED
  BY VaultInvariant, <1>1, PTL

(* _detect_changes and _apply_detected_change: a scan that commits while the *)
(* rows are as it read them makes the live ones exactly the files it has     *)
(* found; and whatever calls have committed since, to other rows, a file     *)
(* that moved keeps its row, for any number of paths, contents and inodes.   *)
THEOREM ScansRecordFiles == VaultSpec => [][ScanRecords]_vaultVars
<1>1. VaultInv /\ [VaultNext]_vaultVars => [ScanRecords]_vaultVars
  BY VaultNextInv
<1> QED
  BY VaultInvariant, <1>1, PTL DEF VaultSpec

-----------------------------------------------------------------------------
(* ChangeSets *)

(* A job that has not failed has an attempt left. *)
JobsHaveTries ==
    \A s \in Sets :
        /\ projectJob[s].state # "failed" => projectJob[s].tries < MaxTries
        /\ \A f \in CsFiles :
             planJob[s][f].state # "failed" => planJob[s][f].tries < MaxTries

(* A change set has its projection job from the scan on, and its state is    *)
(* what has become of that job.                                              *)
ProjectionOfSet ==
    \A s \in Sets :
        /\ csState[s] = "absent" <=> projectJob[s].state = "none"
        /\ csState[s] = "committed" <=> projectJob[s].state = "queued"
        /\ projectJob[s].state = "failed" => csState[s] = "failed"

(* Semantic jobs exist for the files that the projection lists, once it has  *)
(* completed, and for no other.                                              *)
PlansAreListed ==
    \A s \in Sets :
        /\ projectJob[s].state # "completed" => projectJob[s].plans = {}
        /\ \A f \in CsFiles :
             f \in projectJob[s].plans <=> planJob[s][f].state # "none"

(* A semantic job that has failed has failed its set. *)
FailedPlanFails ==
    \A s \in Sets : \A f \in CsFiles :
        planJob[s][f].state = "failed" => csState[s] = "failed"

(* A set that is indexed has no semantic job left to run. *)
IndexedIsComplete ==
    \A s \in Sets : csState[s] = "indexed" => Settled(s)

CsInv ==
    /\ CsTypeOK
    /\ JobsHaveTries
    /\ ProjectionOfSet
    /\ PlansAreListed
    /\ FailedPlanFails
    /\ IndexedIsComplete

-----------------------------------------------------------------------------
LEMMA CsInitInv == CsInit => CsInv
<1> SUFFICES ASSUME CsInit PROVE CsInv
  OBVIOUS
<1>1. CsTypeOK
  BY ChangeSetAssumption
     DEF CsInit, CsTypeOK, FileRow, CsValue, NeverSeen, ProjectJob, PlanJob, JobState
<1>2. JobsHaveTries /\ ProjectionOfSet /\ PlansAreListed
  BY ChangeSetAssumption DEF CsInit, JobsHaveTries, ProjectionOfSet, PlansAreListed
<1>3. FailedPlanFails /\ IndexedIsComplete
  BY DEF CsInit, FailedPlanFails, IndexedIsComplete
<1> QED
  BY <1>1, <1>2, <1>3 DEF CsInv

LEMMA WriteAndScanInv ==
  ASSUME CsInv,
         (\E f \in CsFiles : CsWrite(f)) \/ (\E s \in Sets : CsScan(s))
  PROVE  CsInv' /\ \A s \in Sets : Settled(s) => Settled(s)'
<1> USE DEF CsInv
<1>1. ASSUME NEW f \in CsFiles, CsWrite(f)
      PROVE  CsInv' /\ \A s \in Sets : Settled(s) => Settled(s)'
  <2>1. CsTypeOK'
    BY <1>1, ChangeSetAssumption DEF CsWrite, CsTypeOK
  <2> QED
    BY <1>1, <2>1
       DEF CsWrite, JobsHaveTries, ProjectionOfSet, PlansAreListed, FailedPlanFails,
           IndexedIsComplete, Settled
<1>2. ASSUME NEW s \in Sets, CsScan(s)
      PROVE  CsInv' /\ \A r \in Sets : Settled(r) => Settled(r)'
  <2>1. CsTypeOK'
    <3>1. s \in 0..MaxSets
      BY ChangeSetAssumption DEF Sets
    <3>2. csRow' \in [CsFiles -> FileRow]
      BY <1>2, <3>1 DEF CsScan, CsTypeOK, FileRow
    <3>3. csEntry' \in [Sets -> [CsFiles -> CsValue \cup {"none"}]]
      BY <1>2 DEF CsScan, CsTypeOK
    <3>4. projectJob' = [projectJob EXCEPT ![s] = [projectJob[s] EXCEPT !.state = "queued"]]
      BY <1>2 DEF CsScan, CsTypeOK
    <3>5. [projectJob[s] EXCEPT !.state = "queued"] \in ProjectJob
      <4>1. projectJob[s] \in ProjectJob
        BY DEF CsTypeOK
      <4> HIDE DEF CsInv
      <4> QED
        BY <4>1 DEF ProjectJob, JobState
    <3>6. projectJob' \in [Sets -> ProjectJob]
      BY <3>4, <3>5 DEF CsTypeOK
    <3> QED
      BY <1>2, <3>2, <3>3, <3>6 DEF CsScan, CsTypeOK
  <2>2. /\ \A r \in Sets : r # s => projectJob'[r] = projectJob[r] /\ csState'[r] = csState[r]
        /\ projectJob'[s].state = "queued" /\ projectJob'[s].tries = projectJob[s].tries
        /\ projectJob'[s].plans = projectJob[s].plans
        /\ csState[s] = "absent" /\ csState'[s] = "committed" /\ planJob' = planJob
        /\ projectJob[s].state = "none"
    BY <1>2 DEF CsScan, CsTypeOK, ProjectJob, ProjectionOfSet
  <2>3. JobsHaveTries' /\ ProjectionOfSet' /\ PlansAreListed'
    BY <2>2 DEF JobsHaveTries, ProjectionOfSet, PlansAreListed
  <2>4. FailedPlanFails' /\ IndexedIsComplete' /\ \A r \in Sets : Settled(r) => Settled(r)'
    BY <2>2 DEF FailedPlanFails, IndexedIsComplete, Settled
  <2> QED
    BY <2>1, <2>3, <2>4
<1> QED
  BY <1>1, <1>2

LEMMA ProjectionInv ==
  ASSUME CsInv, NEW s \in Sets, ProjectSet(s) \/ ProjectFails(s)
  PROVE  CsInv' /\ \A r \in Sets : Settled(r) => Settled(r)'
<1> USE DEF CsInv
<1>1. CASE ProjectSet(s)
  <2> DEFINE to == [state |-> "completed", tries |-> projectJob[s].tries,
                    plans |-> Eligible(s)]
             plan(f) == IF f \in Eligible(s)
                        THEN [planJob[s][f] EXCEPT !.state = "queued"]
                        ELSE planJob[s][f]
             now == IF Eligible(s) = {} THEN "indexed" ELSE "indexing"
  <2>1. /\ projectJob' = [projectJob EXCEPT ![s] = to]
        /\ planJob' = [planJob EXCEPT ![s] = [f \in CsFiles |-> plan(f)]]
        /\ csState' = [csState EXCEPT ![s] = now]
        /\ UNCHANGED <<csDisk, csRow, csEntry, csEdits>>
    <3>1. [planJob EXCEPT ![s] =
             [f \in CsFiles |->
                IF f \in Eligible(s) THEN [@[f] EXCEPT !.state = "queued"] ELSE @[f]]]
            = [planJob EXCEPT ![s] = [f \in CsFiles |-> plan(f)]]
      BY DEF CsTypeOK, PlanJob
    <3> QED
      BY <1>1, <3>1 DEF ProjectSet
  <2>2. to \in ProjectJob /\ \A f \in CsFiles : plan(f) \in PlanJob
    <3>1. to \in ProjectJob
      BY DEF CsTypeOK, ProjectJob, JobState, Eligible
    <3>2. ASSUME NEW f \in CsFiles PROVE plan(f) \in PlanJob
      <4>1. planJob[s][f] \in PlanJob
        BY DEF CsTypeOK
      <4>2. [planJob[s][f] EXCEPT !.state = "queued"] \in PlanJob
        BY <4>1 DEF PlanJob, JobState
      <4> QED
        BY <4>1, <4>2
    <3> QED
      BY <3>1, <3>2
  <2>3. /\ projectJob[s].state = "queued" /\ csState[s] = "committed"
        /\ \A f \in CsFiles : planJob[s][f].state = "none"
    BY <1>1 DEF ProjectSet, ProjectionOfSet, PlansAreListed
  <2>4. CsTypeOK'
    BY <2>1, <2>2 DEF CsTypeOK
  <2>5. /\ projectJob'[s] = to /\ csState'[s] = now
        /\ \A f \in CsFiles :
             /\ planJob'[s][f].state = IF f \in Eligible(s) THEN "queued" ELSE "none"
             /\ planJob'[s][f].tries = planJob[s][f].tries
        /\ \A r \in Sets : r # s => /\ projectJob'[r] = projectJob[r]
                                    /\ planJob'[r] = planJob[r]
                                    /\ csState'[r] = csState[r]
    BY <2>1, <2>3 DEF CsTypeOK, PlanJob
  <2>6. Eligible(s) \subseteq CsFiles
    BY DEF Eligible
  <2>7. JobsHaveTries' /\ ProjectionOfSet' /\ PlansAreListed'
    BY <2>3, <2>5, <2>6 DEF JobsHaveTries, ProjectionOfSet, PlansAreListed
  <2>8. FailedPlanFails'
    BY <2>3, <2>5 DEF FailedPlanFails
  <2>9. IndexedIsComplete' /\ \A r \in Sets : Settled(r) => Settled(r)'
    BY <2>3, <2>5, <2>6 DEF IndexedIsComplete, Settled
  <2> QED
    BY <2>4, <2>7, <2>8, <2>9
<1>2. CASE ProjectFails(s)
  <2> DEFINE tries == projectJob[s].tries
             to == [state |-> AfterFailure(tries), tries |-> tries + 1,
                    plans |-> projectJob[s].plans]
             now == IF tries + 1 < MaxTries THEN csState[s] ELSE "failed"
  <2>1. /\ projectJob' = [projectJob EXCEPT ![s] = to]
        /\ csState' = [csState EXCEPT ![s] = now]
        /\ UNCHANGED <<csDisk, csRow, csEntry, planJob, csEdits>>
    BY <1>2 DEF ProjectFails, FailedSet
  <2>2. /\ projectJob[s].state = "queued" /\ csState[s] = "committed"
        /\ tries \in 0..MaxTries /\ tries < MaxTries
        /\ \A f \in CsFiles : planJob[s][f].state = "none"
    BY <1>2 DEF ProjectFails, ProjectionOfSet, PlansAreListed, JobsHaveTries,
       CsTypeOK, ProjectJob
  <2>3. to \in ProjectJob
    BY <2>2, ChangeSetAssumption DEF CsTypeOK, ProjectJob, JobState, AfterFailure
  <2>4. CsTypeOK'
    BY <2>1, <2>2, <2>3 DEF CsTypeOK
  <2>5. /\ projectJob'[s] = to /\ csState'[s] = now /\ planJob' = planJob
        /\ \A r \in Sets : r # s => /\ projectJob'[r] = projectJob[r]
                                    /\ csState'[r] = csState[r]
    BY <2>1 DEF CsTypeOK
  <2>6. JobsHaveTries' /\ ProjectionOfSet' /\ PlansAreListed'
    BY <2>2, <2>5, ChangeSetAssumption
       DEF JobsHaveTries, ProjectionOfSet, PlansAreListed, AfterFailure
  <2>7. FailedPlanFails' /\ IndexedIsComplete' /\ \A r \in Sets : Settled(r) => Settled(r)'
    BY <2>2, <2>5 DEF FailedPlanFails, IndexedIsComplete, Settled
  <2> QED
    BY <2>4, <2>6, <2>7
<1> QED
  BY <1>1, <1>2

(* What the end of a semantic job leaves of the sets' other jobs. *)
LEMMA PlanJobInv ==
  ASSUME CsInv, NEW s \in Sets, NEW f \in CsFiles,
         PlanBegins(s, f) \/ PlanFails(s, f) \/ PlanEnds(s, f)
  PROVE  CsInv' /\ \A r \in Sets : Settled(r) => Settled(r)'
<1> USE DEF CsInv
<1> DEFINE j == planJob[s][f]
<1>1. CASE PlanBegins(s, f)
  <2> DEFINE to == [state |-> "running", tries |-> j.tries, saw |-> csRow[f]]
  <2>1. /\ planJob' = [planJob EXCEPT ![s][f] = to]
        /\ UNCHANGED <<csDisk, csRow, csEntry, csState, projectJob, csEdits>>
    BY <1>1 DEF PlanBegins
  <2>2. j.state = "queued" /\ to \in PlanJob
    BY <1>1 DEF PlanBegins, CsTypeOK, PlanJob, JobState
  <2>3. CsTypeOK'
    BY <2>1, <2>2 DEF CsTypeOK
  <2>4. /\ planJob'[s][f] = to
        /\ \A r \in Sets, g \in CsFiles :
             <<r, g>> # <<s, f>> => planJob'[r][g] = planJob[r][g]
        /\ csState' = csState /\ projectJob' = projectJob
    BY <2>1 DEF CsTypeOK
  <2>5. JobsHaveTries' /\ ProjectionOfSet' /\ PlansAreListed'
    BY <2>2, <2>4 DEF JobsHaveTries, ProjectionOfSet, PlansAreListed
  <2>6. FailedPlanFails'
    BY <2>2, <2>4 DEF FailedPlanFails
  <2>7. f \in projectJob[s].plans /\ \A r \in Sets : projectJob[r].plans \subseteq CsFiles
    BY <2>2 DEF PlansAreListed, CsTypeOK, ProjectJob
  <2>8. \A r \in Sets : Settled(r) => Settled(r)'
    BY <2>2, <2>4, <2>7 DEF Settled
  <2>9. IndexedIsComplete'
    BY <2>4, <2>8 DEF IndexedIsComplete
  <2> QED
    BY <2>3, <2>5, <2>6, <2>8, <2>9
<1>2. CASE PlanFails(s, f)
  <2> DEFINE to == [state |-> AfterFailure(j.tries), tries |-> j.tries + 1,
                    saw |-> NeverSeen]
             now == IF j.tries + 1 < MaxTries THEN csState[s] ELSE "failed"
  <2>1. /\ planJob' = [planJob EXCEPT ![s][f] = to]
        /\ csState' = [csState EXCEPT ![s] = now]
        /\ UNCHANGED <<csDisk, csRow, csEntry, projectJob, csEdits>>
    BY <1>2 DEF PlanFails, FailedSet
  <2>2. /\ j.state \in {"queued", "running"} /\ j.tries \in 0..MaxTries
        /\ j.tries < MaxTries /\ csState[s] # "absent"
        /\ projectJob[s].state = "completed" /\ f \in projectJob[s].plans
        /\ csState[s] # "committed"
    BY <1>2 DEF PlanFails, CsTypeOK, PlanJob, JobsHaveTries, PlansAreListed, ProjectionOfSet
  <2>3. to \in PlanJob
    BY <2>2, ChangeSetAssumption
       DEF CsTypeOK, PlanJob, JobState, AfterFailure, NeverSeen, FileRow, CsValue
  <2>4. CsTypeOK'
    BY <2>1, <2>3 DEF CsTypeOK
  <2>5. /\ planJob'[s][f] = to /\ csState'[s] = now /\ projectJob' = projectJob
        /\ \A r \in Sets, g \in CsFiles :
             <<r, g>> # <<s, f>> => planJob'[r][g] = planJob[r][g]
        /\ \A r \in Sets : r # s => csState'[r] = csState[r]
    BY <2>1 DEF CsTypeOK
  <2>6. JobsHaveTries' /\ ProjectionOfSet' /\ PlansAreListed'
    BY <2>2, <2>5, ChangeSetAssumption
       DEF JobsHaveTries, ProjectionOfSet, PlansAreListed, AfterFailure
  <2>7. FailedPlanFails'
    BY <2>2, <2>5 DEF FailedPlanFails, AfterFailure
  <2>8. csState[s] # "indexed" /\ \A r \in Sets : projectJob[r].plans \subseteq CsFiles
    BY <2>2 DEF IndexedIsComplete, Settled, CsTypeOK, ProjectJob
  <2>9. \A r \in Sets : Settled(r) => Settled(r)'
    BY <2>2, <2>5, <2>8 DEF Settled
  <2>10. IndexedIsComplete'
    BY <2>5, <2>8, <2>9 DEF IndexedIsComplete
  <2> QED
    BY <2>4, <2>6, <2>7, <2>9, <2>10
<1>3. CASE PlanEnds(s, f)
  <2> DEFINE to == [state |-> "completed", tries |-> j.tries, saw |-> NeverSeen]
             now == CASE csState[s] = "failed" -> "failed"
                      [] csState[s] # "failed" /\ (\E g \in projectJob[s].plans :
                            planJob[s][g].state = "failed") -> "failed"
                      [] OTHER -> IF LastOfSet(s, f) THEN "indexed" ELSE "indexing"
  <2>1. /\ planJob' = [planJob EXCEPT ![s][f] = to]
        /\ csState' = [csState EXCEPT ![s] = now]
        /\ UNCHANGED <<csDisk, csRow, csEntry, projectJob, csEdits>>
    BY <1>3 DEF PlanEnds
  <2>2. /\ j.state = "running" /\ j.tries \in 0..MaxTries
        /\ j.tries < MaxTries /\ csState[s] # "absent"
        /\ projectJob[s].state = "completed" /\ f \in projectJob[s].plans
        /\ csState[s] # "committed"
    BY <1>3 DEF PlanEnds, CsTypeOK, PlanJob, JobsHaveTries, PlansAreListed, ProjectionOfSet
  <2>3. to \in PlanJob
    BY <2>2, ChangeSetAssumption
       DEF CsTypeOK, PlanJob, JobState, NeverSeen, FileRow, CsValue
  <2>4. /\ now \in {"failed", "indexed", "indexing"}
        /\ csState[s] = "failed" => now = "failed"
        /\ now = "indexed" => LastOfSet(s, f)
    OBVIOUS
  <2> HIDE DEF now
  <2>5. CsTypeOK'
    BY <2>1, <2>3, <2>4, ChangeSetAssumption
       DEF CsTypeOK, NeverSeen, FileRow, CsValue
  <2>6. /\ planJob'[s][f] = to /\ csState'[s] = now /\ projectJob' = projectJob
        /\ \A r \in Sets, g \in CsFiles :
             <<r, g>> # <<s, f>> => planJob'[r][g] = planJob[r][g]
        /\ \A r \in Sets : r # s => csState'[r] = csState[r]
    BY <2>1 DEF CsTypeOK
  <2>7. JobsHaveTries' /\ ProjectionOfSet' /\ PlansAreListed'
    BY <2>2, <2>4, <2>6 DEF JobsHaveTries, ProjectionOfSet, PlansAreListed
  <2>8. FailedPlanFails'
    BY <2>2, <2>4, <2>6 DEF FailedPlanFails
  <2>9. csState[s] # "indexed" /\ \A r \in Sets : projectJob[r].plans \subseteq CsFiles
    BY <2>2 DEF IndexedIsComplete, Settled, CsTypeOK, ProjectJob
  <2>10. now = "indexed" => \A g \in projectJob'[s].plans : planJob'[s][g].state = "completed"
    BY <2>4, <2>6, <2>9 DEF LastOfSet
  <2>11. \A r \in Sets : Settled(r) => Settled(r)'
    BY <2>4, <2>6, <2>9 DEF Settled
  <2>12. IndexedIsComplete'
    BY <2>6, <2>10, <2>11 DEF IndexedIsComplete, Settled
  <2> QED
    BY <2>5, <2>7, <2>8, <2>11, <2>12
<1> QED
  BY <1>1, <1>2, <1>3

LEMMA CsNextInv ==
  ASSUME CsInv, [CsNext]_csVars
  PROVE  CsInv' /\ \A s \in Sets : Settled(s) => Settled(s)'
<1>1. CASE UNCHANGED csVars
  <2>1. CsInv' /\ \A s \in Sets : Settled(s) <=> Settled(s)'
    BY <1>1 DEF csVars, CsInv, CsTypeOK, JobsHaveTries, ProjectionOfSet, PlansAreListed,
       FailedPlanFails, IndexedIsComplete, Settled
  <2> QED
    BY <2>1
<1>2. CASE CsNext
  BY <1>2, WriteAndScanInv, ProjectionInv, PlanJobInv DEF CsNext, CsJobStep
<1> QED
  BY <1>1, <1>2

(* Change sets, their jobs and the files these list agree at every moment.  *)
THEOREM CsInvariant == CsSpec => []CsInv
<1>1. CsInv /\ [CsNext]_csVars => CsInv'
  BY CsNextInv
<1> QED
  BY CsInitInv, <1>1, PTL DEF CsSpec

(* Change sets and their jobs keep their types. *)
THEOREM CsTypeCorrect == CsSpec => []CsTypeOK
<1>1. CsInv => CsTypeOK
  BY DEF CsInv
<1> QED
  BY CsInvariant, <1>1, PTL

(* A change set says that it is indexed only when every semantic job of it   *)
(* has completed; and no later step, of a job, a scan or a retry, takes a    *)
(* set out of the end it has reached.                                        *)
THEOREM SettledStays ==
  CsSpec => /\ []IndexedIsComplete
            /\ [][\A s \in Sets : Settled(s) => Settled(s)']_csVars
<1>1. CsInv => IndexedIsComplete
  BY DEF CsInv
<1>2. CsInv /\ [CsNext]_csVars => [\A s \in Sets : Settled(s) => Settled(s)']_csVars
  BY CsNextInv
<1> QED
  BY CsInvariant, <1>1, <1>2, PTL DEF CsSpec

-----------------------------------------------------------------------------
(* VaultMigration *)

(* A note that is listed at its path has the row of a file there. *)
FilesHaveRows == \A n \in MigNotes : note[n].file = "path" => migRow[n] # NoMigRow

(* A scan deletes a note with the file at its path. *)
DeletedHadFile == \A n \in MigNotes : note[n].deleted => note[n].file = "path"

(* A transaction that writes no file is one that began under no mirror. *)
CutoverSawAll ==
    route = "vault" \/ command.kind = "cutover" =>
        \A n \in MigNotes \ late : note[n].published => note[n].file # "none"

MigInv ==
    /\ MigTypeOK
    /\ FilesHaveRows
    /\ DeletedHadFile
    /\ CutoverSawAll

-----------------------------------------------------------------------------
LEMMA MigInitInv == MigInit => MigInv
<1> SUFFICES ASSUME MigInit PROVE MigInv
  OBVIOUS
<1>1. MigTypeOK
  BY MigrationAssumption DEF MigInit, MigTypeOK, NoMigRow, MigRow, Note, StateFile
<1>2. FilesHaveRows /\ DeletedHadFile /\ CutoverSawAll
  BY DEF MigInit, FilesHaveRows, DeletedHadFile, CutoverSawAll, NoCommand
<1> QED
  BY <1>1, <1>2 DEF MigInv

LEMMA PublicationInv ==
  ASSUME MigInv, NEW n \in MigNotes,
         PublishBegins(n) \/ PublishCommits(n) \/ PublishAborts(n)
  PROVE  MigInv'
<1> USE DEF MigInv
<1>1. CASE PublishBegins(n)
  BY <1>1 DEF PublishBegins, MigTypeOK, FilesHaveRows, DeletedHadFile, CutoverSawAll,
     Mirrors
<1>2. CASE PublishCommits(n)
  <2>1. MigTypeOK'
    BY <1>2 DEF PublishCommits, MigTypeOK, Note, MigRow
  <2>2. FilesHaveRows'
    BY <1>2 DEF PublishCommits, MigTypeOK, Note, MigRow, FilesHaveRows, NoMigRow
  <2>3. DeletedHadFile'
    BY <1>2 DEF PublishCommits, MigTypeOK, DeletedHadFile
  <2>4. CutoverSawAll'
    BY <1>2 DEF PublishCommits, MigTypeOK, CutoverSawAll
  <2> QED
    BY <2>1, <2>2, <2>3, <2>4
<1>3. CASE PublishAborts(n)
  BY <1>3 DEF PublishAborts, MigTypeOK, FilesHaveRows, DeletedHadFile, CutoverSawAll
<1> QED
  BY <1>1, <1>2, <1>3

LEMMA VaultSideInv ==
  ASSUME MigInv, NEW n \in MigNotes, EditVault(n) \/ ScanVault(n)
  PROVE  MigInv'
<1> USE DEF MigInv
<1>1. CASE EditVault(n)
  BY <1>1, MigrationAssumption
     DEF EditVault, MigTypeOK, FilesHaveRows, DeletedHadFile, CutoverSawAll
<1>2. CASE ScanVault(n)
  <2> DEFINE seen == IF migDisk[n] = "gone"
                     THEN [migRow[n] EXCEPT !.tomb = migRow[n] # NoMigRow]
                     ELSE [hash |-> migDisk[n], tomb |-> FALSE]
             to == IF note[n].file = "path"
                   THEN [note[n] EXCEPT !.deleted = (migDisk[n] = "gone")] ELSE note[n]
  <2>1. /\ migRow' = [migRow EXCEPT ![n] = seen]
        /\ note' = [note EXCEPT ![n] = to]
        /\ UNCHANGED <<migDisk, publishing, manifest, stateFile, command, route,
                       activeIndex, late, migEdits>>
    BY <1>2 DEF ScanVault
  <2>2. seen \in MigRow /\ (migRow[n] # NoMigRow => seen # NoMigRow)
    <3>1. CASE migDisk[n] = "gone"
      <4>1. seen.tomb = (migRow[n] # NoMigRow) /\ seen \in MigRow
        BY <3>1 DEF MigTypeOK, MigRow
      <4> QED
        BY <4>1 DEF NoMigRow
    <3>2. CASE migDisk[n] # "gone"
      <4>1. seen = [hash |-> migDisk[n], tomb |-> FALSE]
        BY <3>2
      <4>2. migDisk[n] \in {"own", "other"}
        BY <3>2 DEF MigTypeOK
      <4> QED
        BY <4>1, <4>2 DEF MigRow, NoMigRow
    <3> QED
      BY <3>1, <3>2
  <2>3. /\ to \in Note
        /\ to.published = note[n].published /\ to.file = note[n].file
        /\ to.deleted => note[n].deleted \/ note[n].file = "path"
    BY DEF MigTypeOK, Note
  <2> HIDE DEF seen, to
  <2>4. MigTypeOK'
    BY <2>1, <2>2, <2>3 DEF MigTypeOK
  <2>5. /\ \A m \in MigNotes \ {n} : note'[m] = note[m] /\ migRow'[m] = migRow[m]
        /\ note'[n] = to /\ migRow'[n] = seen
    BY <2>1 DEF MigTypeOK
  <2>6. FilesHaveRows' /\ DeletedHadFile' /\ CutoverSawAll'
    BY <2>1, <2>2, <2>3, <2>5 DEF FilesHaveRows, DeletedHadFile, CutoverSawAll
  <2> QED
    BY <2>4, <2>6
<1> QED
  BY <1>1, <1>2

LEMMA NewIndexInv ==
  ASSUME MigInv, NewIndex
  PROVE  MigInv'
BY DEF MigInv, NewIndex, MigTypeOK, FilesHaveRows, DeletedHadFile, CutoverSawAll

LEMMA CommandInv ==
  ASSUME MigInv, NEW m \in Manifests,
         \/ Inventory(m) \/ CopyCutOff(m) \/ Copy(m) \/ Verify(m)
         \/ ActivateShadow(m) \/ Cutover(m) \/ MigRollback(m)
  PROVE  MigInv'
<1> USE DEF MigInv, Ready
<1>1. CASE Inventory(m)
  BY <1>1, SMTT(30) DEF Inventory, MigTypeOK, StateFile, Listed, FilesHaveRows,
     DeletedHadFile, CutoverSawAll
<1>2. CASE CopyCutOff(m)
  BY <1>2 DEF CopyCutOff, MigTypeOK, FilesHaveRows, DeletedHadFile, CutoverSawAll
<1>3. CASE Copy(m)
  BY <1>3 DEF Copy, MigTypeOK, StateFile, FilesHaveRows, DeletedHadFile,
     CutoverSawAll, NoCommand
<1>4. CASE Verify(m)
  BY <1>4 DEF Verify, MigTypeOK, StateFile, FilesHaveRows, DeletedHadFile,
     CutoverSawAll
<1>5. CASE ActivateShadow(m)
  BY <1>5 DEF ActivateShadow, InPhase, MigTypeOK, StateFile, FilesHaveRows, DeletedHadFile,
     CutoverSawAll, NoCommand
<1>6. CASE Cutover(m)
  <2>1. \A n \in MigNotes : note[n].published => note[n].file # "none"
    BY <1>6 DEF Cutover, ProjectionCurrent, Listed, DeletedHadFile
  <2>2. UNCHANGED <<note, migRow, late, route>>
    BY <1>6 DEF Cutover
  <2>3. MigTypeOK'
    BY <1>6, SMTT(30) DEF Cutover, InPhase, MigTypeOK, StateFile, NoCommand
  <2> QED
    BY <2>1, <2>2, <2>3 DEF FilesHaveRows, DeletedHadFile, CutoverSawAll
<1>7. CASE MigRollback(m)
  BY <1>7 DEF MigRollback, MigTypeOK, FilesHaveRows, DeletedHadFile,
     CutoverSawAll, NoCommand
<1> QED
  BY <1>1, <1>2, <1>3, <1>4, <1>5, <1>6, <1>7

LEMMA EndInv ==
  ASSUME MigInv,
         CommitCopy \/ CommitRoute \/ CommitRollback \/ PublishState \/ CommandCutOff
  PROVE  MigInv'
<1> USE DEF MigInv
<1>1. CASE CommitCopy
  <2>1. /\ \A n \in MigNotes : /\ note'[n].published => note[n].published
                               /\ note'[n].deleted => note[n].deleted
                               /\ note'[n].file \in {"path", note[n].file}
                               /\ note'[n].file = "path" => migRow'[n] # NoMigRow
        /\ note' \in [MigNotes -> Note] /\ migRow' \in [MigNotes -> MigRow]
    BY <1>1, SMTT(30) DEF CommitCopy, MigTypeOK, Note, MigRow, NoMigRow, FilesHaveRows
  <2>2. /\ command' = NoCommand
        /\ UNCHANGED <<migDisk, publishing, manifest, stateFile, route, activeIndex,
                       late, migEdits>>
    BY <1>1 DEF CommitCopy
  <2>3. MigTypeOK'
    BY <2>1, <2>2 DEF MigTypeOK
  <2>4. FilesHaveRows' /\ DeletedHadFile'
    BY <2>1 DEF FilesHaveRows, DeletedHadFile
  <2>5. route' = "vault" \/ command'.kind = "cutover" => route = "vault"
    BY <2>2 DEF NoCommand
  <2>6. CutoverSawAll'
    BY <2>1, <2>2, <2>5 DEF CutoverSawAll
  <2> QED
    BY <2>3, <2>4, <2>6
<1>2. CASE CommitRoute
  BY <1>2 DEF CommitRoute, MigTypeOK, FilesHaveRows, DeletedHadFile, CutoverSawAll,
     NoCommand
<1>3. CASE CommitRollback
  <2>1. stateFile[command.on].previous \in 0..1
    BY <1>3 DEF CommitRollback, MigTypeOK, StateFile, NoCommand
  <2>2. MigTypeOK'
    BY <1>3, <2>1 DEF CommitRollback, MigTypeOK, NoCommand
  <2> QED
    BY <1>3, <2>2 DEF CommitRollback, FilesHaveRows, DeletedHadFile, CutoverSawAll
<1>4. CASE PublishState
  <2>1. /\ command.on \in Manifests /\ command' = NoCommand
        /\ stateFile' = [stateFile EXCEPT ![command.on] = InPhase(command.on, "legacy")]
        /\ UNCHANGED <<migDisk, migRow, note, publishing, manifest, route,
                       activeIndex, late, migEdits>>
    BY <1>4 DEF PublishState, MigTypeOK, NoCommand
  <2>2. InPhase(command.on, "legacy") \in StateFile
    BY <2>1 DEF InPhase, MigTypeOK, StateFile
  <2>3. MigTypeOK'
    BY <2>1, <2>2 DEF MigTypeOK
  <2> QED
    BY <2>1, <2>3 DEF FilesHaveRows, DeletedHadFile, CutoverSawAll, NoCommand
<1>5. CASE CommandCutOff
  BY <1>5 DEF CommandCutOff, MigTypeOK, FilesHaveRows, DeletedHadFile, CutoverSawAll,
     NoCommand
<1> QED
  BY <1>1, <1>2, <1>3, <1>4, <1>5

-----------------------------------------------------------------------------
LEMMA MigNextInv ==
  ASSUME MigInv, [MigNext]_migVars
  PROVE  MigInv'
<1>1. CASE UNCHANGED migVars
  BY <1>1 DEF migVars, MigInv, MigTypeOK, FilesHaveRows, DeletedHadFile,
     CutoverSawAll
<1> QED
  BY <1>1, PublicationInv, VaultSideInv, NewIndexInv, CommandInv, EndInv DEF MigNext

(* Notes, rows and state files agree, whatever is published, edited, scanned *)
(* and cut off while the commands run.                                       *)
THEOREM MigInvariant == MigSpec => []MigInv
<1>1. MigInv /\ [MigNext]_migVars => MigInv'
  BY MigNextInv
<1> QED
  BY MigInitInv, <1>1, PTL DEF MigSpec

(* The migration's rows, files and state files stay in their types. *)
THEOREM MigTypeCorrect == MigSpec => []MigTypeOK
<1>1. MigInv => MigTypeOK
  BY DEF MigInv
<1> QED
  BY <1>1, MigInvariant, PTL

(* After VaultMigrator.cutover the Vault has every published note, but those  *)
(* that were published past its check without a mirror.                       *)
THEOREM VaultHasEveryNote == MigSpec => []VaultServesEveryNote
<1>1. MigInv => VaultServesEveryNote
  BY DEF MigInv, VaultServesEveryNote, FilesHaveRows, CutoverSawAll
<1> QED
  BY <1>1, MigInvariant, PTL
=============================================================================
