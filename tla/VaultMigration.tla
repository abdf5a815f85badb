--------------------------- MODULE VaultMigration ---------------------------
(***************************************************************************)
(* The move of a knowledge base's published notes from the database to its *)
(* Vault (vault/migration.py and its command line), while notes go on      *)
(* being published (confirm_candidate_batch) and files are edited.         *)
(*                                                                         *)
(* A command works on a manifest, the list of notes at its inventory, and  *)
(* keeps its phase in a state file beside it.  What it does to the         *)
(* database commits when it is over; files and, but for a rollback, the    *)
(* state file are written before that.  The route is the row that tells    *)
(* the API which of the two sources to read.  One operator runs one        *)
(* command at a time, and any of them may be cut off.                      *)
(*                                                                         *)
(* Titles differ, so every note has a path of its own.                     *)
(***************************************************************************)
EXTENDS Naturals, FiniteSets

CONSTANTS
    MigNotes,        \* notes, published or to be published
    Manifests,       \* inventories taken
    MaxMigEdits      \* changes other programs make to files of the Vault

ASSUME MigrationAssumption == MaxMigEdits \in Nat

VARIABLES
    migDisk,      \* note -> file at its path: "gone", its "own" text, "other"
    migRow,       \* note -> vault_files row of its path
    note,         \* note -> published, deleted by a scan, and its file
    publishing,   \* note -> what its open transaction does besides
    manifest,     \* manifest -> taken, and its notes
    stateFile,    \* manifest -> its state file
    command,      \* what the running command is to commit or publish
    route,        \* the phase the route has, or "none"
    activeIndex,  \* the active index version; 0: none
    late,         \* notes published past a cutover's check
    migEdits

migVars == <<migDisk, migRow, note, publishing, manifest, stateFile, command,
             route, activeIndex, late, migEdits>>

NoMigRow == [hash |-> "none", tomb |-> FALSE]
MigRow == [hash : {"none", "own", "other"}, tomb : BOOLEAN]
Note == [published : BOOLEAN, deleted : BOOLEAN, file : {"none", "path", "new"}]
StateFile == [phase : {"inventoried", "copied", "verified", "shadow", "vault",
                       "legacy"},
              verified : BOOLEAN, conflicts : BOOLEAN, previous : 0..1]
NoCommand == [kind |-> "none"]

MigInit ==
    /\ migDisk = [n \in MigNotes |-> "gone"]
    /\ migRow = [n \in MigNotes |-> NoMigRow]
    /\ note = [n \in MigNotes |->
                 [published |-> FALSE, deleted |-> FALSE, file |-> "none"]]
    /\ publishing = [n \in MigNotes |-> "no"]
    /\ manifest = [m \in Manifests |-> [taken |-> FALSE, notes |-> {}]]
    /\ stateFile = [m \in Manifests |->
                      [phase |-> "inventoried", verified |-> FALSE,
                       conflicts |-> FALSE, previous |-> 0]]
    /\ command = NoCommand
    /\ route = "none" /\ activeIndex = 0 /\ late = {} /\ migEdits = 0

-----------------------------------------------------------------------------
(* Publication, scans and other programs                                   *)

Mirrors(phase) == phase \in {"shadow", "vault"}

\* mirror_legacy_published_revision: while the route is a shadow or the Vault,
\* the note's file is written too, at a path that no row has.
PublishBegins(n) ==
    /\ ~note[n].published /\ publishing[n] = "no"
    /\ publishing' = [publishing EXCEPT ![n] =
         IF ~Mirrors(route) THEN "database"
         ELSE IF migRow[n] = NoMigRow THEN "path" ELSE "new"]
    /\ migDisk' = [migDisk EXCEPT ![n] =
         IF Mirrors(route) /\ migRow[n] = NoMigRow THEN "own" ELSE @]
    /\ UNCHANGED <<migRow, note, manifest, stateFile, command, route,
                   activeIndex, late, migEdits>>

PublishCommits(n) ==
    LET how == publishing[n] IN
    /\ how # "no"
    /\ how = "path" => migRow[n] = NoMigRow
    /\ note' = [note EXCEPT ![n] =
         [published |-> TRUE, deleted |-> FALSE,
          file |-> IF how = "database" THEN "none" ELSE how]]
    /\ migRow' = [migRow EXCEPT ![n] =
         IF how = "path" THEN [hash |-> "own", tomb |-> FALSE] ELSE @]
    /\ late' = IF how = "database" /\ (route = "vault" \/ command.kind = "cutover")
               THEN late \cup {n} ELSE late
    /\ publishing' = [publishing EXCEPT ![n] = "no"]
    /\ UNCHANGED <<migDisk, manifest, stateFile, command, route, activeIndex,
                   migEdits>>

PublishAborts(n) ==
    /\ publishing[n] # "no"
    /\ publishing' = [publishing EXCEPT ![n] = "no"]
    /\ UNCHANGED <<migDisk, migRow, note, manifest, stateFile, command, route,
                   activeIndex, late, migEdits>>

EditVault(n) ==
    /\ migEdits < MaxMigEdits
    /\ migEdits' = migEdits + 1
    /\ \E c \in {"gone", "other"} \ {migDisk[n]} :
        migDisk' = [migDisk EXCEPT ![n] = c]
    /\ UNCHANGED <<migRow, note, publishing, manifest, stateFile, command,
                   route, activeIndex, late>>

\* A scan and its projection: a file that is gone takes its note with it.
ScanVault(n) ==
    LET seen == IF migDisk[n] = "gone"
                THEN [migRow[n] EXCEPT !.tomb = migRow[n] # NoMigRow]
                ELSE [hash |-> migDisk[n], tomb |-> FALSE] IN
    /\ migRow[n] # seen
    /\ migRow' = [migRow EXCEPT ![n] = seen]
    /\ note' = [note EXCEPT ![n] =
         IF note[n].file = "path"
         THEN [note[n] EXCEPT !.deleted = (migDisk[n] = "gone")] ELSE note[n]]
    /\ UNCHANGED <<migDisk, publishing, manifest, stateFile, command, route,
                   activeIndex, late, migEdits>>

NewIndex ==
    /\ activeIndex = 0 /\ activeIndex' = 1
    /\ UNCHANGED <<migDisk, migRow, note, publishing, manifest, stateFile,
                   command, route, late, migEdits>>

-----------------------------------------------------------------------------
(* Commands                                                                *)

\* What an inventory lists.
Listed == {n \in MigNotes : note[n].published /\ ~note[n].deleted}

Ready(m) == command = NoCommand /\ manifest[m].taken
InPhase(m, phase) == [stateFile[m] EXCEPT !.phase = phase]
Copied(m) == \A n \in manifest[m].notes : migDisk[n] = "own"
SourceUnchanged(m) == Listed = manifest[m].notes

Inventory(m) ==
    /\ command = NoCommand /\ ~manifest[m].taken
    /\ manifest' = [manifest EXCEPT ![m] = [taken |-> TRUE, notes |-> Listed]]
    /\ stateFile' = [stateFile EXCEPT ![m] =
                       [stateFile[m] EXCEPT !.previous = activeIndex]]
    /\ UNCHANGED <<migDisk, migRow, note, publishing, command, route,
                   activeIndex, late, migEdits>>

\* _preflight_projection: a row, deleted or not, has another text.
Preflight(m) == \A n \in manifest[m].notes : migRow[n].hash # "other"

Writable(m) == {n \in manifest[m].notes : migDisk[n] = "gone"}

\* copy is cut off after some of its files.
CopyCutOff(m) ==
    /\ Ready(m) /\ Preflight(m)
    /\ \E some \in (SUBSET Writable(m)) \ {{}} :
        migDisk' = [n \in MigNotes |-> IF n \in some THEN "own" ELSE migDisk[n]]
    /\ UNCHANGED <<migRow, note, publishing, manifest, stateFile, command,
                   route, activeIndex, late, migEdits>>

\* copy: a file with another text is a conflict, and is left as it is.
Copy(m) ==
    LET clash == {n \in manifest[m].notes : migDisk[n] = "other"} IN
    /\ Ready(m) /\ Preflight(m)
    /\ migDisk' = [n \in MigNotes |->
                     IF n \in Writable(m) THEN "own" ELSE migDisk[n]]
    /\ stateFile' = [stateFile EXCEPT ![m] =
         [phase |-> "copied", verified |-> FALSE, conflicts |-> clash # {},
          previous |-> stateFile[m].previous]]
    /\ command' = [kind |-> "copy", on |-> m,
                   notes |-> manifest[m].notes \ clash]
    /\ UNCHANGED <<migRow, note, publishing, manifest, route, activeIndex,
                   late, migEdits>>

\* verify looks at files and at the notes there are, and not at rows.
Verify(m) ==
    LET ok == Copied(m) /\ SourceUnchanged(m) /\ ~stateFile[m].conflicts IN
    /\ Ready(m)
    /\ stateFile' = [stateFile EXCEPT ![m] =
         [phase |-> IF ok THEN "verified" ELSE "copied", verified |-> ok,
          conflicts |-> stateFile[m].conflicts, previous |-> stateFile[m].previous]]
    /\ UNCHANGED <<migDisk, migRow, note, publishing, manifest, command, route,
                   activeIndex, late, migEdits>>

Verified(m) == stateFile[m].verified /\ ~stateFile[m].conflicts

ActivateShadow(m) ==
    /\ Ready(m) /\ Verified(m)
    /\ SourceUnchanged(m) /\ Copied(m)
    /\ stateFile' = [stateFile EXCEPT ![m] = InPhase(m, "shadow")]
    /\ command' = [kind |-> "shadow", on |-> m]
    /\ UNCHANGED <<migDisk, migRow, note, publishing, manifest, route,
                   activeIndex, late, migEdits>>

\* Variant: the notes of the manifest are looked at, as for the shadow.
ProjectionCurrentOfManifest(m) == SourceUnchanged(m)

\* _assert_shadow_projection_current: every note has a live row with its text.
ProjectionCurrent(m) ==
    \A n \in Listed :
        \/ note[n].file = "new"
        \/ /\ note[n].file = "path"
           /\ migRow[n] = [hash |-> "own", tomb |-> FALSE]
           /\ migDisk[n] = "own"

Cutover(m) ==
    /\ Ready(m) /\ Verified(m) /\ stateFile[m].phase = "shadow"
    /\ ProjectionCurrent(m) /\ Copied(m)
    /\ stateFile' = [stateFile EXCEPT ![m] = InPhase(m, "vault")]
    /\ command' = [kind |-> "cutover", on |-> m]
    /\ UNCHANGED <<migDisk, migRow, note, publishing, manifest, route,
                   activeIndex, late, migEdits>>

MigRollback(m) ==
    /\ Ready(m)
    /\ command' = [kind |-> "rollback", on |-> m]
    /\ UNCHANGED <<migDisk, migRow, note, publishing, manifest, stateFile,
                   route, activeIndex, late, migEdits>>

-----------------------------------------------------------------------------
(* The ends of commands                                                    *)

\* _project_vault_file: a row there is is taken as it is, deleted or not.
CommitCopy ==
    /\ command.kind = "copy"
    /\ migRow' = [n \in MigNotes |->
                    IF n \in command.notes /\ migRow[n] = NoMigRow
                    THEN [hash |-> "own", tomb |-> FALSE] ELSE migRow[n]]
    /\ note' = [n \in MigNotes |->
                  IF n \in command.notes THEN [note[n] EXCEPT !.file = "path"]
                  ELSE note[n]]
    /\ command' = NoCommand
    /\ UNCHANGED <<migDisk, publishing, manifest, stateFile, route, activeIndex,
                   late, migEdits>>

CommitRoute ==
    /\ command.kind \in {"shadow", "cutover"}
    /\ route' = IF command.kind = "shadow" THEN "shadow" ELSE "vault"
    /\ command' = NoCommand
    /\ UNCHANGED <<migDisk, migRow, note, publishing, manifest, stateFile,
                   activeIndex, late, migEdits>>

\* The index of the inventory is active again; the state file comes after.
CommitRollback ==
    /\ command.kind = "rollback"
    /\ route' = "legacy"
    /\ activeIndex' = stateFile[command.on].previous
    /\ command' = [command EXCEPT !.kind = "publish"]
    /\ UNCHANGED <<migDisk, migRow, note, publishing, manifest, stateFile,
                   late, migEdits>>

PublishState ==
    /\ command.kind = "publish"
    /\ stateFile' = [stateFile EXCEPT ![command.on] = InPhase(command.on, "legacy")]
    /\ command' = NoCommand
    /\ UNCHANGED <<migDisk, migRow, note, publishing, manifest, route,
                   activeIndex, late, migEdits>>

\* The process dies or the database refuses: what is not committed is lost.
CommandCutOff ==
    /\ command # NoCommand
    /\ command' = NoCommand
    /\ UNCHANGED <<migDisk, migRow, note, publishing, manifest, stateFile,
                   route, activeIndex, late, migEdits>>

MigNext ==
    \/ \E n \in MigNotes :
        \/ PublishBegins(n) \/ PublishCommits(n) \/ PublishAborts(n)
        \/ EditVault(n) \/ ScanVault(n)
    \/ \E m \in Manifests :
        \/ Inventory(m) \/ CopyCutOff(m) \/ Copy(m) \/ Verify(m)
        \/ ActivateShadow(m) \/ Cutover(m) \/ MigRollback(m)
    \/ NewIndex \/ CommitCopy \/ CommitRoute \/ CommitRollback
    \/ PublishState \/ CommandCutOff

MigSpec == MigInit /\ [][MigNext]_migVars

-----------------------------------------------------------------------------
(* Properties                                                              *)

MigTypeOK ==
    /\ migDisk \in [MigNotes -> {"gone", "own", "other"}]
    /\ migRow \in [MigNotes -> MigRow]
    /\ note \in [MigNotes -> Note]
    /\ publishing \in [MigNotes -> {"no", "database", "path", "new"}]
    /\ manifest \in [Manifests -> [taken : BOOLEAN, notes : SUBSET MigNotes]]
    /\ stateFile \in [Manifests -> StateFile]
    /\ command = NoCommand \/ command.on \in Manifests
    /\ route \in {"none", "shadow", "vault", "legacy"}
    /\ activeIndex \in 0..1
    /\ late \subseteq MigNotes
    /\ migEdits \in 0..MaxMigEdits

\* Once the Vault is what the API reads, every published note has its file's
\* row there, whichever commands were cut off, tried again or run with an older
\* manifest before; except a note that was published, without a mirror, after
\* the cutover's check (migration.py:1021).
VaultServesEveryNote ==
    route = "vault" =>
        \A n \in MigNotes \ late :
            note[n].published => /\ note[n].file # "none"
                                 /\ note[n].file = "path" => migRow[n] # NoMigRow
=============================================================================
