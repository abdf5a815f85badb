--------------------------- MODULE IndexBuildProofs ---------------------------
(***************************************************************************)
(* Proofs about IndexBuild, for any documents, contracts, files and bounds. *)
(* Every step changes the index rows in one of three ways: quietly (rows are  *)
(* added as BUILDING, unfinished ones fail, jobs move), by activating one row, *)
(* or by rolling back to the row of an inventory, also in the middle of an    *)
(* activation.  The lemmas show that all keep the rows sound, and that only   *)
(* a rollback moves the searched index to an older row or to none.            *)
(***************************************************************************)
EXTENDS IndexBuild, SequenceTheorems, TLAPS

ActiveRows(ixs) == {i \in DOMAIN ixs : ixs[i].state = "active"}

(* What always holds of the rows alone. *)
Sound(ixs) ==
    /\ ixs \in Seq(IndexRow)
    /\ \A i, k \in ActiveRows(ixs) : i = k

(* b is a with rows added as BUILDING, unfinished rows failed and jobs moved. *)
Quiet(a, b) ==
    /\ b \in Seq(IndexRow)
    /\ Len(a) <= Len(b)
    /\ \A i \in 1..Len(a) :
          /\ b[i].sig = a[i].sig
          /\ \/ b[i].state = a[i].state
             \/ /\ a[i].state \in {"building", "failed"}
                /\ b[i].state = "failed"
    /\ \A i \in (Len(a) + 1)..Len(b) : b[i].state = "building"

(* b has the rows of a, whatever became of their states. *)
SameRows(a, b) ==
    /\ b \in Seq(IndexRow)
    /\ Len(b) = Len(a)
    /\ \A k \in 1..Len(a) : b[k].sig = a[k].sig

(* Search moves to a newer index, if at all. *)
Forward(a, b) == \A i \in ActiveRows(a) : \E k \in ActiveRows(b) : k >= i

(* The step is one in which a rollback of the migration commits. *)
RollbackCommitting == rollback.begun /\ ~rollback'.begun

-------------------------------------------------------------------------------
(* A quiet change keeps the rows sound and leaves the searched index alone. *)
LEMMA QuietKeepsSound ==
  ASSUME NEW a, NEW b, Sound(a), Quiet(a, b)
  PROVE  Sound(b) /\ ActiveRows(b) = ActiveRows(a)
<1>1. /\ DOMAIN a = 1..Len(a) /\ DOMAIN b = 1..Len(b)
      /\ Len(a) \in Nat /\ Len(b) \in Nat
  BY LenProperties DEF Sound, Quiet
<1>2. ActiveRows(b) = ActiveRows(a)
  BY <1>1 DEF Quiet, ActiveRows
<1> QED
  BY <1>2 DEF Sound, Quiet

(* A function from the places of the rows to rows is a sequence of rows. *)
LEMMA RowsAreSeq ==
  ASSUME NEW n \in Nat, NEW new \in [1..n -> IndexRow]
  PROVE  new \in Seq(IndexRow) /\ Len(new) = n
<1>1. new \in Seq(IndexRow)
  BY SeqDef
<1> DEFINE m == Len(new)
<1>2. DOMAIN new = 1..m /\ m \in Nat
  BY <1>1, LenProperties
<1>3. \A k \in Nat : k \in 1..m <=> k \in 1..n
  BY <1>2
<1> HIDE DEF m
<1>4. m <= n /\ n <= m
  BY <1>2, <1>3
<1>5. m = n
  BY <1>2, <1>4
<1> QED
  BY <1>1, <1>5 DEF m

(* A rollback leaves at most the row of the inventory ACTIVE. *)
LEMMA RolledBackRows ==
  ASSUME NEW ixs, Sound(ixs)
  PROVE  SameRows(ixs, RolledBack(ixs)) /\ Sound(RolledBack(ixs))
<1> DEFINE new == RolledBack(ixs)
<1>1. /\ DOMAIN ixs = 1..Len(ixs) /\ Len(ixs) \in Nat
      /\ \A k \in 1..Len(ixs) : ixs[k] \in IndexRow
  BY LenProperties, ElementOfSeq DEF Sound
<1>2. \A k \in 1..Len(ixs) :
         /\ new[k] \in IndexRow
         /\ new[k].sig = ixs[k].sig
         /\ k # rollback.to => new[k].state # "active"
  BY <1>1 DEF RolledBack, IndexRow, IndexStates
<1>3. new \in [1..Len(ixs) -> IndexRow]
  <2>1. DOMAIN new = 1..Len(ixs) /\ new = [k \in 1..Len(ixs) |-> new[k]]
    BY <1>1 DEF RolledBack
  <2> HIDE DEF new
  <2> QED
    BY <1>2, <2>1
<1> HIDE DEF new
<1>4. new \in Seq(IndexRow) /\ Len(new) = Len(ixs)
  BY <1>1, <1>3, RowsAreSeq
<1>5. DOMAIN new = 1..Len(ixs)
  BY <1>3
<1>6. \A k \in ActiveRows(new) : k = rollback.to
  BY <1>2, <1>5 DEF ActiveRows
<1>7. SameRows(ixs, new) /\ Sound(new)
  BY <1>2, <1>4, <1>6 DEF SameRows, Sound
<1> QED
  BY <1>7 DEF new

-------------------------------------------------------------------------------
(* prepare_index_build returns a row of the signature, adding at most one. *)
LEMMA PrepareProperties ==
  ASSUME NEW ixs \in Seq(IndexRow), NEW sig \in Signature
  PROVE  /\ Quiet(ixs, Prepare(ixs, sig))
         /\ Len(Prepare(ixs, sig)) <= Len(ixs) + 1
         /\ \A i \in 1..Len(ixs) : Prepare(ixs, sig)[i] = ixs[i]
         /\ \A i \in (Len(ixs) + 1)..Len(Prepare(ixs, sig)) : Prepare(ixs, sig)[i].sig = sig
         /\ Target(Prepare(ixs, sig), sig) \in 1..Len(Prepare(ixs, sig))
         /\ Prepare(ixs, sig)[Target(Prepare(ixs, sig), sig)].sig = sig
<1> DEFINE row == [sig |-> sig, state |-> "building", job |-> "none"]
<1>1. /\ DOMAIN ixs = 1..Len(ixs) /\ Len(ixs) \in Nat
      /\ \A i \in 1..Len(ixs) : ixs[i] \in IndexRow
  BY LenProperties, ElementOfSeq
<1>2. row \in IndexRow
  BY DEF IndexRow, IndexStates, JobStates
<1>3. CASE \E i \in DOMAIN ixs : HasSignature(ixs, i, sig)
  <2>1. Prepare(ixs, sig) = ixs
    BY <1>3 DEF Prepare
  <2>2. Target(ixs, sig) \in DOMAIN ixs /\ HasSignature(ixs, Target(ixs, sig), sig)
    BY <1>3 DEF Target
  <2> QED
    BY <1>1, <2>1, <2>2 DEF Quiet, HasSignature
<1>4. CASE ~ \E i \in DOMAIN ixs : HasSignature(ixs, i, sig)
  <2>1. Prepare(ixs, sig) = Append(ixs, row)
    BY <1>4 DEF Prepare
  <2>2. /\ Append(ixs, row) \in Seq(IndexRow)
        /\ Len(Append(ixs, row)) = Len(ixs) + 1
        /\ \A i \in 1..Len(ixs) : Append(ixs, row)[i] = ixs[i]
        /\ Append(ixs, row)[Len(ixs) + 1] = row
        /\ DOMAIN Append(ixs, row) = 1..(Len(ixs) + 1)
    BY <1>1, <1>2
  <2>3. HasSignature(Append(ixs, row), Len(ixs) + 1, sig)
    BY <2>2 DEF HasSignature
  <2>4. /\ Target(Append(ixs, row), sig) \in DOMAIN Append(ixs, row)
        /\ HasSignature(Append(ixs, row), Target(Append(ixs, row), sig), sig)
    BY <1>1, <2>2, <2>3 DEF Target
  <2> QED
    BY <1>1, <2>1, <2>2, <2>4 DEF Quiet, HasSignature
<1> QED
  BY <1>3, <1>4

(* Moving a job between its states, or failing an unfinished row, is quiet. *)
LEMMA EndJobQuiet ==
  ASSUME NEW ixs \in Seq(IndexRow), NEW i \in 1..Len(ixs), NEW end \in JobStates
  PROVE  /\ EndJob(ixs, i, end) \in Seq(IndexRow)
         /\ Len(EndJob(ixs, i, end)) = Len(ixs)
         /\ \A k \in 1..Len(ixs) : /\ EndJob(ixs, i, end)[k].sig = ixs[k].sig
                                   /\ EndJob(ixs, i, end)[k].state = ixs[k].state
         /\ Quiet(ixs, EndJob(ixs, i, end))
<1> DEFINE row == [ixs[i] EXCEPT !.job = end]
<1>1. ixs[i] \in IndexRow
  BY ElementOfSeq
<1>2. row \in IndexRow /\ row.sig = ixs[i].sig /\ row.state = ixs[i].state
  BY <1>1 DEF IndexRow
<1>3. EndJob(ixs, i, end) = [ixs EXCEPT ![i] = row]
  BY DEF EndJob
<1> HIDE DEF row
<1>4. /\ EndJob(ixs, i, end) \in Seq(IndexRow)
      /\ Len(EndJob(ixs, i, end)) = Len(ixs)
      /\ \A k \in 1..Len(ixs) : /\ EndJob(ixs, i, end)[k].sig = ixs[k].sig
                                /\ EndJob(ixs, i, end)[k].state = ixs[k].state
  BY <1>2, <1>3, ExceptSeq
<1>5. Len(ixs) \in Nat
  BY LenProperties
<1> QED
  BY <1>4, <1>5 DEF Quiet

LEMMA FailTargetQuiet ==
  ASSUME NEW ixs \in Seq(IndexRow), NEW i \in 1..Len(ixs)
  PROVE  Quiet(ixs, FailTarget(ixs, i)) /\ Len(FailTarget(ixs, i)) = Len(ixs)
<1> DEFINE row == [ixs[i] EXCEPT !.state = IF @ \in {"active", "retired"} THEN @ ELSE "failed"]
<1>1. ixs[i] \in IndexRow
  BY ElementOfSeq
<1>2. /\ row \in IndexRow
      /\ row.sig = ixs[i].sig
      /\ \/ row.state = ixs[i].state
         \/ ixs[i].state \in {"building", "failed"} /\ row.state = "failed"
  BY <1>1 DEF IndexRow, IndexStates
<1>3. FailTarget(ixs, i) = [ixs EXCEPT ![i] = row]
  BY DEF FailTarget
<1>4. Len(ixs) \in Nat
  BY LenProperties
<1> HIDE DEF row
<1>5. /\ [ixs EXCEPT ![i] = row] \in Seq(IndexRow)
      /\ Len([ixs EXCEPT ![i] = row]) = Len(ixs)
      /\ \A k \in 1..Len(ixs) : [ixs EXCEPT ![i] = row][k] = IF k = i THEN row ELSE ixs[k]
  BY <1>2, ExceptSeq
<1> QED
  BY <1>2, <1>3, <1>4, <1>5 DEF Quiet

(* enqueue_index_build is quiet, and adds only a row of the signature. *)
LEMMA EnqueueQuiet ==
  ASSUME NEW ixs \in Seq(IndexRow), NEW sig \in Signature
  PROVE  /\ Quiet(ixs, Enqueue(ixs, sig))
         /\ \A i \in (Len(ixs) + 1)..Len(Enqueue(ixs, sig)) : Enqueue(ixs, sig)[i].sig = sig
         /\ Len(Enqueue(ixs, sig)) <= Len(ixs) + 1
<1> DEFINE rows == Prepare(ixs, sig)
           t == Target(rows, sig)
           end == IF rows[t].job = "none" THEN "queued" ELSE rows[t].job
<1>1. /\ Quiet(ixs, rows) /\ rows \in Seq(IndexRow) /\ t \in 1..Len(rows)
      /\ \A i \in (Len(ixs) + 1)..Len(rows) : rows[i].sig = sig
      /\ Len(rows) <= Len(ixs) + 1
  BY PrepareProperties DEF Quiet
<1>2. Len(ixs) \in Nat /\ Len(rows) \in Nat
  BY <1>1, LenProperties
<1>3. end \in JobStates
  <2>1. rows[t] \in IndexRow
    BY <1>1, ElementOfSeq
  <2> QED
    BY <2>1 DEF IndexRow, JobStates
<1>4. Enqueue(ixs, sig) = EndJob(rows, t, end)
  BY DEF Enqueue, EndJob
<1> HIDE DEF rows, t, end
<1>5. /\ EndJob(rows, t, end) \in Seq(IndexRow)
      /\ Len(EndJob(rows, t, end)) = Len(rows)
      /\ \A k \in 1..Len(rows) : /\ EndJob(rows, t, end)[k].sig = rows[k].sig
                                 /\ EndJob(rows, t, end)[k].state = rows[k].state
  BY <1>1, <1>3, EndJobQuiet
<1> QED
  BY <1>1, <1>2, <1>4, <1>5, SMTT(30) DEF Quiet

(* What a session writes over a row is the state it wants or the one it finds. *)
LEMMA WrittenStates ==
  ASSUME NEW saw, NEW ixs, NEW k, NEW state
  PROVE  /\ Written(saw, ixs, k, state) \in {state, ixs[k].state}
         /\ saw = ixs => Written(saw, ixs, k, state) = state
BY DEF Written

(* An activation keeps the rows sound, whatever it finds when it writes.  When *)
(* it finds what it has read, search does not move back: either a newer row is *)
(* ACTIVE and remains so, or no ACTIVE row is newer than the one it activates. *)
LEMMA ActivateRows ==
  ASSUME NEW saw \in Seq(IndexRow), NEW ixs, Sound(ixs), Len(saw) = Len(ixs),
         NEW i \in 1..Len(ixs)
  PROVE  /\ SameRows(ixs, Activate(saw, ixs, i))
         /\ Sound(Activate(saw, ixs, i))
         /\ saw = ixs => Forward(ixs, Activate(saw, ixs, i))
<1>1. /\ DOMAIN ixs = 1..Len(ixs) /\ Len(ixs) \in Nat
      /\ DOMAIN saw = 1..Len(ixs) /\ ixs \in Seq(IndexRow)
      /\ \A k \in 1..Len(ixs) : ixs[k] \in IndexRow
  BY LenProperties, ElementOfSeq DEF Sound
<1>2. CASE NewerActive(saw, i)
  <2> DEFINE w == Written(saw, ixs, i, "retired")
             row == [ixs[i] EXCEPT !.state = w]
  <2>1. w \in {"retired", ixs[i].state} /\ (saw = ixs => w = "retired")
    BY WrittenStates
  <2>2. Activate(saw, ixs, i) = [ixs EXCEPT ![i] = row]
    BY <1>2 DEF Activate
  <2> HIDE DEF w
  <2>3. row \in IndexRow /\ row.sig = ixs[i].sig /\ row.state = w
    BY <1>1, <2>1 DEF IndexRow, IndexStates
  <2> HIDE DEF row
  <2> DEFINE new == [ixs EXCEPT ![i] = row]
  <2>4. /\ new \in Seq(IndexRow) /\ Len(new) = Len(ixs)
        /\ \A k \in 1..Len(ixs) : new[k] = IF k = i THEN row ELSE ixs[k]
    BY <1>1, <2>3, ExceptSeq
  <2>5. DOMAIN new = 1..Len(ixs)
    BY <1>1
  <2> HIDE DEF new
  <2>6. SameRows(ixs, new)
    BY <2>3, <2>4 DEF SameRows
  <2>7. ActiveRows(new) \subseteq ActiveRows(ixs)
    BY <1>1, <2>1, <2>3, <2>4, <2>5 DEF ActiveRows
  <2>8. Sound(new)
    BY <2>4, <2>7 DEF Sound
  <2>9. ASSUME saw = ixs PROVE Forward(ixs, new)
    <3>1. PICK k \in DOMAIN ixs : k > i /\ ixs[k].state = "active"
      BY <1>2, <2>9 DEF NewerActive
    <3>2. k \in ActiveRows(ixs) /\ k # i
      BY <1>1, <3>1 DEF ActiveRows
    <3>3. i \notin ActiveRows(ixs)
      BY <3>2 DEF Sound
    <3>4. ActiveRows(ixs) \subseteq ActiveRows(new)
      BY <1>1, <2>4, <2>5, <3>3 DEF ActiveRows
    <3>5. \A m \in ActiveRows(ixs) : m \in Nat
      BY <1>1 DEF ActiveRows
    <3> QED
      BY <3>4, <3>5 DEF Forward
  <2> QED
    BY <2>2, <2>6, <2>8, <2>9 DEF new
<1>3. CASE ~ NewerActive(saw, i)
  <2> DEFINE w == Written(saw, ixs, i, "active")
             new == [k \in DOMAIN ixs |->
                       [ixs[k] EXCEPT !.state = IF k = i THEN w
                                                ELSE IF @ = "active" THEN "retired" ELSE @]]
  <2>1. w \in {"active", ixs[i].state} /\ (saw = ixs => w = "active")
    BY WrittenStates
  <2>2. Activate(saw, ixs, i) = new
    BY <1>3 DEF Activate
  <2> HIDE DEF w
  <2>3. \A k \in 1..Len(ixs) :
           /\ new[k] \in IndexRow
           /\ new[k].sig = ixs[k].sig
           /\ k = i => new[k].state = w
           /\ k # i => new[k].state # "active"
    BY <1>1, <2>1 DEF IndexRow, IndexStates
  <2>4. new \in [1..Len(ixs) -> IndexRow]
    BY <1>1, <2>3
  <2>5. DOMAIN new = 1..Len(ixs)
    BY <1>1
  <2> HIDE DEF new
  <2>6. new \in Seq(IndexRow) /\ Len(new) = Len(ixs)
    BY <1>1, <2>4, RowsAreSeq
  <2>7. SameRows(ixs, new)
    BY <2>3, <2>6 DEF SameRows
  <2>8. ActiveRows(new) \subseteq {i}
    BY <2>3, <2>5 DEF ActiveRows
  <2>9. Sound(new)
    BY <2>6, <2>8 DEF Sound
  <2>10. ASSUME saw = ixs PROVE Forward(ixs, new)
    <3>1. i \in ActiveRows(new)
      BY <1>1, <2>1, <2>3, <2>5, <2>10 DEF ActiveRows
    <3>2. \A k \in ActiveRows(ixs) : k \in Int /\ k <= i
      BY <1>1, <1>3, <2>10 DEF ActiveRows, NewerActive
    <3> QED
      BY <3>1, <3>2 DEF Forward
  <2> QED
    BY <2>2, <2>7, <2>9, <2>10
<1> QED
  BY <1>2, <1>3

-------------------------------------------------------------------------------
(* The inductive invariant: the types and the soundness of the rows. *)
IndInv == TypeOK /\ Sound(indexes)

LEMMA InitIndInv == Init => IndInv
  BY ConstantsAssumption, EmptySeq
  DEF Init, IndInv, TypeOK, Sound, ActiveRows, VersionStates, Snapshots, NoRollback

(* One step: the rows stay well typed and sound, search moves forward unless a  *)
(* rollback commits, no row is taken away and none changes what it was built   *)
(* from.                                                                      *)
StepFacts ==
    /\ Sound(indexes')
    /\ RollbackCommitting \/ Forward(indexes, indexes')
    /\ Len(indexes) <= Len(indexes')
    /\ \A i \in 1..Len(indexes) : indexes'[i].sig = indexes[i].sig

LEMMA QuietStep ==
  ASSUME Sound(indexes), Quiet(indexes, indexes')
  PROVE  StepFacts
<1>1. Sound(indexes') /\ ActiveRows(indexes') = ActiveRows(indexes)
  BY QuietKeepsSound
<1>2. \A i \in ActiveRows(indexes) : i \in Nat
  BY LenProperties DEF Sound, ActiveRows
<1> QED
  BY <1>1, <1>2 DEF StepFacts, Forward, Quiet

(* Activating a row of quietly changed rows, with or without a rollback that    *)
(* commits in between.                                                        *)
LEMMA ActivateStep ==
  ASSUME Sound(indexes), NEW mid, Quiet(indexes, mid), NEW i \in 1..Len(mid),
         NEW found, Found(mid, found), NEW last, last = Activate(mid, found, i),
         Quiet(last, indexes'), Len(last) = Len(indexes')
  PROVE  StepFacts
<1>1. Sound(mid) /\ ActiveRows(mid) = ActiveRows(indexes) /\ mid \in Seq(IndexRow)
  <2>1. Sound(mid) /\ ActiveRows(mid) = ActiveRows(indexes)
    BY QuietKeepsSound
  <2> QED
    BY <2>1 DEF Sound
<1>2. /\ SameRows(mid, found) /\ Sound(found)
      /\ found = mid \/ RollbackCommitting
  <2>1. CASE found = mid
    BY <1>1, <2>1 DEF SameRows
  <2>2. CASE rollback.begun /\ found = RolledBack(mid) /\ rollback' = NoRollback
    <3>1. RollbackCommitting
      BY <2>2 DEF RollbackCommitting, NoRollback
    <3> QED
      BY <1>1, <2>2, <3>1, RolledBackRows
  <2> QED
    BY <2>1, <2>2 DEF Found
<1>3. Len(mid) = Len(found)
  BY <1>2 DEF SameRows
<1>4. i \in 1..Len(found)
  BY <1>3
<1>5. SameRows(found, last) /\ Sound(last) /\ (mid = found => Forward(found, last))
  BY <1>1, <1>2, <1>3, <1>4, ActivateRows
<1>6. Sound(indexes') /\ ActiveRows(indexes') = ActiveRows(last)
  BY <1>5, QuietKeepsSound
<1>7. /\ Len(indexes) \in Nat /\ Len(mid) \in Nat /\ Len(indexes) <= Len(mid)
      /\ Len(last) = Len(mid)
  BY <1>1, <1>2, <1>5, LenProperties DEF Sound, Quiet, SameRows
<1>8. \A k \in 1..Len(indexes) : k \in 1..Len(mid) /\ mid[k].sig = indexes[k].sig
  BY <1>7 DEF Quiet
<1>9. \A k \in 1..Len(mid) : last[k].sig = mid[k].sig
  BY <1>2, <1>3, <1>5 DEF SameRows
<1>10. \A k \in 1..Len(last) : indexes'[k].sig = last[k].sig
  BY DEF Quiet
<1>11. RollbackCommitting \/ Forward(indexes, indexes')
  BY <1>1, <1>2, <1>5, <1>6 DEF Forward
<1>12. \A k \in 1..Len(indexes) : indexes'[k].sig = indexes[k].sig
  BY <1>7, <1>8, <1>9, <1>10
<1> QED
  BY <1>6, <1>7, <1>11, <1>12 DEF StepFacts

(* Composition of two quiet changes. *)
LEMMA QuietQuiet ==
  ASSUME NEW a \in Seq(IndexRow), NEW b, NEW c, Quiet(a, b), Quiet(b, c), Len(a) = Len(b)
  PROVE  Quiet(a, c)
<1>1. Len(a) \in Nat /\ Len(c) \in Nat
  BY LenProperties DEF Quiet
<1> QED
  BY <1>1 DEF Quiet

(* A quiet change after which only jobs move. *)
LEMMA QuietThenJobs ==
  ASSUME NEW a \in Seq(IndexRow), NEW b, NEW c \in Seq(IndexRow), Quiet(a, b),
         Len(c) = Len(b),
         \A k \in 1..Len(b) : c[k].sig = b[k].sig /\ c[k].state = b[k].state
  PROVE  Quiet(a, c)
<1>1. Len(a) \in Nat /\ Len(b) \in Nat
  BY LenProperties DEF Quiet
<1>2. \A k \in 1..Len(a) : k \in 1..Len(b)
  BY <1>1 DEF Quiet
<1>3. \A k \in (Len(a) + 1)..Len(b) : k \in 1..Len(b)
  BY <1>1
<1> QED
  BY <1>1, <1>2, <1>3 DEF Quiet

-------------------------------------------------------------------------------
LEMMA UploadStep ==
  ASSUME IndInv, NEW v \in Versions, Upload(v)
  PROVE  IndInv' /\ StepFacts
<1>1. Quiet(indexes, indexes)
  BY LenProperties DEF IndInv, Sound, Quiet
<1>2. StepFacts
  BY <1>1, QuietStep DEF IndInv, Upload
<1> QED
  BY <1>2 DEF IndInv, StepFacts, TypeOK, Upload, VersionStates, migrationVars

LEMMA ParseFailsStep ==
  ASSUME IndInv, NEW v \in Versions, ParseFails(v)
  PROVE  IndInv' /\ StepFacts
<1>1. Quiet(indexes, indexes)
  BY LenProperties DEF IndInv, Sound, Quiet
<1>2. StepFacts
  BY <1>1, QuietStep DEF IndInv, ParseFails
<1> QED
  BY <1>2 DEF IndInv, StepFacts, TypeOK, ParseFails, VersionStates, migrationVars

(* What the inventories and a rollback point at are rows that exist, and so is  *)
(* what a file records.                                                       *)
LEMMA PlacesStay ==
  ASSUME IndInv, StepFacts, inventoried' = inventoried,
         rollback' \in {rollback, NoRollback}
  PROVE  /\ lastIndex \in [Files -> 0..Len(indexes')]
         /\ (inventoried \in SUBSET (0..Len(indexes)))'
         /\ (rollback \in [begun : BOOLEAN, to : 0..Len(indexes), sawActive : BOOLEAN])'
<1>1. Len(indexes) \in Nat /\ Len(indexes') \in Nat /\ Len(indexes) <= Len(indexes')
  BY LenProperties DEF IndInv, StepFacts, Sound
<1>2. \A n \in 0..Len(indexes) : n \in 0..Len(indexes')
  BY <1>1
<1>3. NoRollback \in [begun : BOOLEAN, to : 0..Len(indexes'), sawActive : BOOLEAN]
  BY <1>1 DEF NoRollback
<1>4. rollback \in [begun : BOOLEAN, to : 0..Len(indexes'), sawActive : BOOLEAN]
  BY <1>2 DEF IndInv, TypeOK
<1> QED
  BY <1>2, <1>3, <1>4 DEF IndInv, TypeOK

LEMMA ParseSucceedsStep ==
  ASSUME IndInv, NEW v \in Versions, ParseSucceeds(v)
  PROVE  IndInv' /\ StepFacts
<1> DEFINE sig == [docs |-> LatestReady(version'), contract |-> contract, snapshot |-> NoHash]
<1>1. sig \in Signature
  BY DEF Signature, Snapshots, LatestReady, IndInv, TypeOK
<1>2. Quiet(indexes, indexes')
  BY <1>1, EnqueueQuiet DEF ParseSucceeds, IndInv, Sound
<1>3. StepFacts
  BY <1>2, QuietStep DEF IndInv
<1>4. version' \in [Versions -> VersionStates]
  BY DEF ParseSucceeds, IndInv, TypeOK, VersionStates
<1> QED
  BY <1>3, <1>4, PlacesStay
  DEF IndInv, StepFacts, Sound, TypeOK, ParseSucceeds, migrationVars

LEMMA RunBuildStep ==
  ASSUME IndInv, NEW i \in DOMAIN indexes, RunBuild(i)
  PROVE  IndInv' /\ StepFacts
<1>1. i \in 1..Len(indexes) /\ indexes \in Seq(IndexRow) /\ Len(indexes) \in Nat
  BY LenProperties DEF IndInv, Sound
<1>2. ASSUME indexes[i].state \in {"active", "retired"}
      PROVE  StepFacts /\ rollback' \in {rollback, NoRollback}
  <2>1. indexes' = EndJob(indexes, i, "completed") /\ rollback' = rollback
    BY <1>2 DEF RunBuild
  <2>2. Quiet(indexes, indexes')
    BY <1>1, <2>1, EndJobQuiet DEF JobStates
  <2> QED
    BY <2>1, <2>2, QuietStep DEF IndInv
<1>3. ASSUME indexes[i].state \notin {"active", "retired"}
      PROVE  StepFacts /\ rollback' \in {rollback, NoRollback}
  <2>1. PICK found : /\ Found(indexes, found)
                     /\ indexes' = EndJob(Activate(indexes, found, i), i, "completed")
    BY <1>3 DEF RunBuild
  <2> DEFINE last == Activate(indexes, found, i)
  <2>2. SameRows(indexes, found) /\ Sound(found)
    BY <1>1, <2>1, RolledBackRows DEF Found, IndInv, SameRows
  <2>3. SameRows(found, last)
    BY <1>1, <2>2, ActivateRows DEF SameRows
  <2>4. last \in Seq(IndexRow) /\ i \in 1..Len(last)
    BY <1>1, <2>2, <2>3 DEF SameRows
  <2>5. indexes' = EndJob(last, i, "completed") /\ last = Activate(indexes, found, i)
    BY <2>1
  <2> HIDE DEF last
  <2>6. Quiet(last, indexes') /\ Len(last) = Len(indexes')
    BY <2>4, <2>5, EndJobQuiet DEF JobStates
  <2>7. Quiet(indexes, indexes)
    BY <1>1 DEF Quiet
  <2>8. StepFacts
    BY <1>1, <2>1, <2>5, <2>6, <2>7, ActivateStep DEF IndInv
  <2> QED
    BY <2>1, <2>8 DEF Found
<1>4. StepFacts /\ rollback' \in {rollback, NoRollback}
  BY <1>2, <1>3
<1>5. inventoried' = inventoried
  BY DEF RunBuild
<1> QED
  BY <1>4, <1>5, PlacesStay DEF IndInv, StepFacts, Sound, TypeOK, RunBuild

LEMMA RetargetBuildStep ==
  ASSUME IndInv, NEW i \in DOMAIN indexes, RetargetBuild(i)
  PROVE  IndInv' /\ StepFacts
<1> DEFINE mid == FailTarget(indexes, i)
           sig == [indexes[i].sig EXCEPT !.contract = contract]
           last == Enqueue(mid, sig)
<1>1. i \in 1..Len(indexes) /\ indexes \in Seq(IndexRow) /\ Len(indexes) \in Nat
  BY LenProperties DEF IndInv, Sound
<1>2. Quiet(indexes, mid) /\ Len(mid) = Len(indexes) /\ mid \in Seq(IndexRow)
  BY <1>1, FailTargetQuiet DEF Quiet
<1>3. sig \in Signature
  <2>1. indexes[i] \in IndexRow
    BY <1>1, ElementOfSeq
  <2> QED
    BY <2>1 DEF IndexRow, Signature, IndInv, TypeOK
<1>4. indexes' = EndJob(last, i, "completed")
  BY DEF RetargetBuild
<1> HIDE DEF mid, sig
<1>5. Quiet(mid, last) /\ last \in Seq(IndexRow)
  <2>1. Quiet(mid, Enqueue(mid, sig))
    BY <1>2, <1>3, EnqueueQuiet
  <2>2. last = Enqueue(mid, sig)
    OBVIOUS
  <2> HIDE DEF last
  <2>3. Quiet(mid, last)
    BY <2>1, <2>2
  <2> QED
    BY <2>3 DEF Quiet
<1> HIDE DEF last
<1>6. Quiet(indexes, last)
  BY <1>1, <1>2, <1>5, QuietQuiet
<1>7. Len(last) \in Nat /\ i \in 1..Len(last)
  BY <1>1, <1>5, <1>6, LenProperties DEF Quiet
<1>8. Quiet(indexes, indexes')
  <2>1. /\ indexes' \in Seq(IndexRow)
        /\ Len(indexes') = Len(last)
        /\ \A k \in 1..Len(last) : /\ indexes'[k].sig = last[k].sig
                                   /\ indexes'[k].state = last[k].state
    <3>1. "completed" \in JobStates
      BY DEF JobStates
    <3> QED
      BY <1>4, <1>5, <1>7, <3>1, EndJobQuiet
  <2> QED
    BY <1>1, <1>6, <2>1, QuietThenJobs
<1>9. StepFacts
  BY <1>8, QuietStep DEF IndInv
<1> QED
  BY <1>9, PlacesStay
  DEF IndInv, StepFacts, Sound, TypeOK, RetargetBuild, migrationVars

LEMMA BuildFailsStep ==
  ASSUME IndInv, NEW i \in DOMAIN indexes, BuildFails(i)
  PROVE  IndInv' /\ StepFacts
<1> DEFINE mid == FailTarget(indexes, i)
<1>1. i \in 1..Len(indexes) /\ indexes \in Seq(IndexRow) /\ Len(indexes) \in Nat
  BY LenProperties DEF IndInv, Sound
<1>2. Quiet(indexes, mid) /\ Len(mid) = Len(indexes) /\ mid \in Seq(IndexRow)
  BY <1>1, FailTargetQuiet DEF Quiet
<1>3. indexes' = EndJob(mid, i, "failed")
  BY DEF BuildFails
<1> HIDE DEF mid
<1>4. Quiet(indexes, indexes')
  <2>1. Quiet(mid, indexes')
    BY <1>1, <1>2, <1>3, EndJobQuiet DEF JobStates
  <2> QED
    BY <1>1, <1>2, <2>1, QuietQuiet
<1>5. StepFacts
  BY <1>4, QuietStep DEF IndInv
<1> QED
  BY <1>5, PlacesStay
  DEF IndInv, StepFacts, Sound, TypeOK, BuildFails, migrationVars

LEMMA ChangeContractStep ==
  ASSUME IndInv, NEW c \in Contracts, ChangeContract(c)
  PROVE  IndInv' /\ StepFacts
<1>1. Quiet(indexes, indexes)
  BY LenProperties DEF IndInv, Sound, Quiet
<1>2. StepFacts
  BY <1>1, QuietStep DEF IndInv, ChangeContract
<1> QED
  BY <1>2, ConstantsAssumption
  DEF IndInv, StepFacts, TypeOK, ChangeContract, migrationVars

LEMMA ScanEditStep ==
  ASSUME IndInv, NEW f \in Files, NEW h \in Hashes, ScanEdit(f, h)
  PROVE  IndInv' /\ StepFacts
<1>1. Quiet(indexes, indexes)
  BY LenProperties DEF IndInv, Sound, Quiet
<1>2. StepFacts
  BY <1>1, QuietStep DEF IndInv, ScanEdit
<1>3. [file |-> f, hash |-> h, docs |-> LatestReady(version)] \in Plan
  BY DEF Plan, LatestReady
<1> QED
  BY <1>2, <1>3, ConstantsAssumption
  DEF IndInv, StepFacts, TypeOK, ScanEdit, Snapshots, migrationVars

LEMMA RunSemanticStep ==
  ASSUME IndInv, NEW p \in plans, RunSemantic(p)
  PROVE  IndInv' /\ StepFacts
<1> DEFINE sig == [docs |-> p.docs, contract |-> contract, snapshot |-> p.hash]
           mid == Prepare(indexes, sig)
           i == Target(mid, sig)
<1>1. indexes \in Seq(IndexRow) /\ Len(indexes) \in Nat
  BY LenProperties DEF IndInv, Sound
<1>2. p \in Plan /\ sig \in Signature
  BY DEF IndInv, TypeOK, Plan, Signature, Snapshots
<1> HIDE DEF sig
<1>3. Quiet(indexes, mid) /\ i \in 1..Len(mid) /\ mid \in Seq(IndexRow)
  <2>1. Quiet(indexes, mid) /\ i \in 1..Len(mid)
    BY <1>1, <1>2, PrepareProperties
  <2> QED
    BY <2>1 DEF Quiet
<1>4. PICK found : Found(mid, found) /\ indexes' = Activate(mid, found, i)
  BY DEF RunSemantic, sig
<1>5. lastIndex' = [lastIndex EXCEPT ![p.file] = i]
  BY DEF RunSemantic, sig
<1> HIDE DEF mid, i
<1>6. Sound(mid)
  BY <1>3, QuietKeepsSound DEF IndInv
<1>7. SameRows(mid, found) /\ Sound(found)
  BY <1>3, <1>4, <1>6, RolledBackRows DEF Found, SameRows
<1>8. SameRows(found, indexes')
  BY <1>3, <1>4, <1>7, ActivateRows DEF SameRows
<1>9. Quiet(indexes', indexes') /\ Len(indexes') = Len(mid)
  BY <1>7, <1>8, LenProperties DEF Quiet, SameRows
<1>10. StepFacts
  BY <1>3, <1>4, <1>9, ActivateStep DEF IndInv
<1>11. rollback' \in {rollback, NoRollback} /\ inventoried' = inventoried
  BY <1>4 DEF Found, RunSemantic
<1>12. lastIndex \in [Files -> 0..Len(indexes')]
  BY <1>10, <1>11, PlacesStay
<1>13. i \in 0..Len(indexes')
  BY <1>3, <1>9
<1>14. (lastIndex \in [Files -> 0..Len(indexes)])'
  BY <1>5, <1>12, <1>13
<1> QED
  BY <1>10, <1>11, <1>14, PlacesStay DEF IndInv, StepFacts, Sound, TypeOK, RunSemantic

LEMMA SemanticFailsStep ==
  ASSUME IndInv, NEW p \in plans, SemanticFails(p)
  PROVE  IndInv' /\ StepFacts
<1>1. Quiet(indexes, indexes)
  BY LenProperties DEF IndInv, Sound, Quiet
<1>2. StepFacts
  BY <1>1, QuietStep DEF IndInv, SemanticFails
<1> QED
  BY <1>2 DEF IndInv, StepFacts, TypeOK, SemanticFails, migrationVars

LEMMA InventoryStep ==
  ASSUME IndInv, Inventory
  PROVE  IndInv' /\ StepFacts
<1>1. Quiet(indexes, indexes)
  BY LenProperties DEF IndInv, Sound, Quiet
<1>2. StepFacts
  BY <1>1, QuietStep DEF IndInv, Inventory
<1>3. Len(indexes) \in Nat /\ Active \subseteq 0..Len(indexes)
  BY LenProperties DEF IndInv, Sound, Active
<1> DEFINE found == CHOOSE i \in Active : TRUE
<1>4. Active # {} => found \in Active
  OBVIOUS
<1> HIDE DEF found
<1>5. (IF Active = {} THEN {0} ELSE {found}) \subseteq 0..Len(indexes)
  BY <1>3, <1>4
<1>6. inventoried' \subseteq 0..Len(indexes)
  BY <1>5 DEF found, IndInv, TypeOK, Inventory
<1> QED
  BY <1>2, <1>6 DEF IndInv, StepFacts, TypeOK, Inventory

LEMMA RollbackReadsStep ==
  ASSUME IndInv, NEW p \in inventoried, RollbackReads(p)
  PROVE  IndInv' /\ StepFacts
<1>1. Quiet(indexes, indexes)
  BY LenProperties DEF IndInv, Sound, Quiet
<1>2. StepFacts
  BY <1>1, QuietStep DEF IndInv, RollbackReads
<1>3. rollbacks' \in 0..MaxRollbacks
  BY ConstantsAssumption DEF IndInv, TypeOK, RollbackReads
<1>4. p \in 0..Len(indexes)
  BY DEF IndInv, TypeOK
<1> QED
  BY <1>2, <1>3, <1>4 DEF IndInv, StepFacts, TypeOK, RollbackReads

LEMMA RollbackCommitsStep ==
  ASSUME IndInv, RollbackCommits
  PROVE  IndInv' /\ StepFacts
<1>1. SameRows(indexes, indexes') /\ Sound(indexes')
  BY RolledBackRows DEF IndInv, RollbackCommits
<1>2. RollbackCommitting
  BY DEF RollbackCommits, RollbackCommitting, NoRollback
<1>3. Len(indexes) \in Nat
  BY LenProperties DEF IndInv, Sound
<1>4. StepFacts
  BY <1>1, <1>2, <1>3 DEF StepFacts, SameRows
<1>5. rollback' \in {rollback, NoRollback} /\ inventoried' = inventoried
  BY DEF RollbackCommits
<1> QED
  BY <1>4, <1>5, PlacesStay DEF IndInv, StepFacts, Sound, TypeOK, RollbackCommits

LEMMA RollbackAbortsStep ==
  ASSUME IndInv, RollbackAborts
  PROVE  IndInv' /\ StepFacts
<1>1. Quiet(indexes, indexes)
  BY LenProperties DEF IndInv, Sound, Quiet
<1>2. StepFacts
  BY <1>1, QuietStep DEF IndInv, RollbackAborts
<1>3. rollback' \in {rollback, NoRollback} /\ inventoried' = inventoried
  BY DEF RollbackAborts
<1> QED
  BY <1>2, <1>3, PlacesStay DEF IndInv, StepFacts, Sound, TypeOK, RollbackAborts

-------------------------------------------------------------------------------
(* Every step keeps the inductive invariant, and only a rollback moves search  *)
(* back.                                                                      *)
LEMMA NextStep ==
  ASSUME IndInv, Next
  PROVE  IndInv' /\ StepFacts
<1>1. ASSUME NEW v \in Versions, Upload(v) \/ ParseSucceeds(v) \/ ParseFails(v)
      PROVE  IndInv' /\ StepFacts
  BY <1>1, UploadStep, ParseSucceedsStep, ParseFailsStep
<1>2. ASSUME NEW i \in DOMAIN indexes, BuildStep(i)
      PROVE  IndInv' /\ StepFacts
  BY <1>2, RunBuildStep, RetargetBuildStep, BuildFailsStep DEF BuildStep
<1>3. ASSUME NEW p \in plans, RunSemantic(p) \/ SemanticFails(p)
      PROVE  IndInv' /\ StepFacts
  BY <1>3, RunSemanticStep, SemanticFailsStep
<1> QED
  BY <1>1, <1>2, <1>3, ChangeContractStep, ScanEditStep, InventoryStep,
     RollbackReadsStep, RollbackCommitsStep, RollbackAbortsStep
  DEF Next

LEMMA StutterStep ==
  ASSUME IndInv, UNCHANGED vars
  PROVE  IndInv' /\ StepFacts
<1>1. Quiet(indexes, indexes)
  BY LenProperties DEF IndInv, Sound, Quiet
<1>2. StepFacts
  BY <1>1, QuietStep DEF IndInv, vars
<1> QED
  BY <1>2 DEF IndInv, StepFacts, TypeOK, vars, migrationVars

(* The index rows are always sound. *)
THEOREM IndInvHolds == Spec => []IndInv
<1>1. IndInv /\ [Next]_vars => IndInv'
  BY NextStep, StutterStep
<1> QED
  BY InitIndInv, <1>1, PTL DEF Spec

(* IndexBuild's state stays within its types: in particular a vault file only  *)
(* records an index that exists.                                             *)
THEOREM TypeCorrect == Spec => []TypeOK
  BY IndInvHolds, PTL DEF IndInv

(* At most one index of the knowledge base is ACTIVE, also when a rollback of   *)
(* the migration commits in the middle of an activation.                      *)
THEOREM AtMostOneActive == Spec => []OneActiveIndex
<1>1. IndInv => OneActiveIndex
  BY DEF IndInv, Sound, OneActiveIndex, Active, ActiveRows
<1> QED
  BY IndInvHolds, <1>1, PTL

(* But for the step in which a rollback of the migration commits, the searched *)
(* index never moves back to an older one and never goes away, under any       *)
(* interleaving of builds, semantic jobs, configuration changes and rollbacks. *)
THEOREM SearchOnlyMovesForward == Spec => ActiveNeverMovesBack
<1>1. IndInv /\ [Next]_vars =>
        [\/ \A i \in Active : \E k \in Active' : k >= i
         \/ rollback.begun /\ ~rollback'.begun]_vars
  <2> SUFFICES ASSUME IndInv, Next
               PROVE  \/ \A i \in Active : \E k \in Active' : k >= i
                      \/ rollback.begun /\ ~rollback'.begun
    OBVIOUS
  <2>1. RollbackCommitting \/ Forward(indexes, indexes')
    BY NextStep DEF StepFacts
  <2> QED
    BY <2>1 DEF Forward, Active, ActiveRows, RollbackCommitting
<1> QED
  BY IndInvHolds, <1>1, PTL DEF Spec, ActiveNeverMovesBack

-------------------------------------------------------------------------------
(* While the configuration stays, no vault file changes and no migration is    *)
(* rolled back, what is searched only gets newer.  A row covers another one when it holds every document of  *)
(* it in the same or a newer version.                                         *)
Covers(E, D) == \A v \in D : \E n \in v[2]..MaxVersions : <<v[1], n>> \in E

UploadsOnly ==
    /\ plans = {}
    /\ ~rollback.begun
    /\ \A i \in DOMAIN indexes : indexes[i].sig.contract = contract

(* Indexes hold READY versions, and a READY version never stops being READY. *)
RowsHoldReady ==
    \A i \in DOMAIN indexes : \A v \in indexes[i].sig.docs :
        v \in Versions /\ version[v] = "ready"

(* _latest_ready_version_ids misses no document. *)
LatestCoversReady ==
    \A v \in Versions : version[v] = "ready" => Covers(LatestReady(version), {v})

LaterRowsCover ==
    \A i, k \in DOMAIN indexes : i < k => Covers(indexes[k].sig.docs, indexes[i].sig.docs)

UploadInv == UploadsOnly /\ RowsHoldReady /\ LatestCoversReady /\ LaterRowsCover

(* A version that becomes READY keeps every READY version covered. *)
LEMMA LatestStep ==
  ASSUME TypeOK, LatestCoversReady, NEW v \in Versions,
         version' = [version EXCEPT ![v] = "ready"]
  PROVE  LatestCoversReady'
<1>1. /\ \A u \in Versions : u = <<u[1], u[2]>> /\ u[1] \in Docs /\ u[2] \in 1..MaxVersions
      /\ MaxVersions \in Nat
  BY ConstantsAssumption DEF Versions
<1>2. \A d \in Docs, n \in 1..MaxVersions : <<d, n>> \in Versions
  BY DEF Versions
<1>3. \A u \in Versions : version'[u] = IF u = v THEN "ready" ELSE version[u]
  BY DEF TypeOK
<1>4. ASSUME NEW u \in Versions, version[u] = "ready"
      PROVE  Covers(LatestReady(version'), {u})
  <2>1. PICK n \in u[2]..MaxVersions : <<u[1], n>> \in LatestReady(version)
    BY <1>4 DEF LatestCoversReady, Covers
  <2>2. n \in 1..MaxVersions /\ u[1] \in Docs
    BY <1>1, <2>1
  <2>3. CASE v[1] = u[1] /\ v[2] > n
    <3>1. \A k \in (v[2] + 1)..MaxVersions : version[<<v[1], k>>] # "ready"
      BY <1>1, <2>1, <2>2, <2>3 DEF LatestReady
    <3>2. \A k \in (v[2] + 1)..MaxVersions : <<v[1], k>> # v /\ <<v[1], k>> \in Versions
      BY <1>1, <1>2
    <3>3. v \in LatestReady(version')
      BY <1>3, <3>1, <3>2 DEF LatestReady
    <3>4. v = <<u[1], v[2]>> /\ v[2] \in u[2]..MaxVersions
      BY <1>1, <2>1, <2>2, <2>3
    <3> QED
      BY <3>3, <3>4 DEF Covers
  <2>4. CASE ~ (v[1] = u[1] /\ v[2] > n)
    <3>1. \A k \in (n + 1)..MaxVersions : <<u[1], k>> # v /\ <<u[1], k>> \in Versions
      BY <1>1, <1>2, <2>2, <2>4
    <3>2. <<u[1], n>> \in LatestReady(version')
      <4>1. /\ <<u[1], n>> \in Versions /\ version[<<u[1], n>>] = "ready"
            /\ \A k \in (n + 1)..MaxVersions : version[<<u[1], k>>] # "ready"
        BY <2>1 DEF LatestReady
      <4> QED
        BY <1>3, <3>1, <4>1 DEF LatestReady
    <3> QED
      BY <2>1, <3>2 DEF Covers
  <2> QED
    BY <2>3, <2>4
<1>5. Covers(LatestReady(version'), {v})
  <2>1. CASE \E k \in (v[2] + 1)..MaxVersions : version[<<v[1], k>>] = "ready"
    <3>1. PICK k \in (v[2] + 1)..MaxVersions : version[<<v[1], k>>] = "ready"
      BY <2>1
    <3>2. <<v[1], k>> \in Versions
      BY <1>1, <1>2
    <3>3. Covers(LatestReady(version'), {<<v[1], k>>})
      BY <1>4, <3>1, <3>2
    <3>4. \A n \in k..MaxVersions : n \in v[2]..MaxVersions
      BY <1>1, <3>1
    <3>5. PICK n \in k..MaxVersions : <<v[1], n>> \in LatestReady(version')
      BY <3>3 DEF Covers
    <3> QED
      BY <3>4, <3>5 DEF Covers
  <2>2. CASE ~ \E k \in (v[2] + 1)..MaxVersions : version[<<v[1], k>>] = "ready"
    <3>1. \A k \in (v[2] + 1)..MaxVersions : <<v[1], k>> # v /\ <<v[1], k>> \in Versions
      BY <1>1, <1>2
    <3>2. v \in LatestReady(version')
      BY <1>3, <2>2, <3>1 DEF LatestReady
    <3>3. v = <<v[1], v[2]>> /\ v[2] \in v[2]..MaxVersions
      BY <1>1
    <3> QED
      BY <3>2, <3>3 DEF Covers
  <2> QED
    BY <2>1, <2>2
<1> QED
  BY <1>3, <1>4, <1>5 DEF LatestCoversReady

(* A step that adds no row and takes no version back from READY. *)
LEMMA SameRowsStep ==
  ASSUME IndInv, StepFacts, UploadInv, Len(indexes') = Len(indexes),
         UNCHANGED <<contract, plans, rollback>>,
         \A v \in Versions : version'[v] = "ready" <=> version[v] = "ready"
  PROVE  UploadInv'
<1>1. /\ DOMAIN indexes' = DOMAIN indexes
      /\ \A i \in DOMAIN indexes : indexes'[i].sig = indexes[i].sig
  BY LenProperties DEF IndInv, StepFacts, Sound
<1>2. UploadsOnly' /\ RowsHoldReady' /\ LaterRowsCover'
  BY <1>1 DEF UploadInv, UploadsOnly, RowsHoldReady, LaterRowsCover
<1>3. \A v \in Versions : \A n \in (v[2] + 1)..MaxVersions : <<v[1], n>> \in Versions
  BY ConstantsAssumption DEF Versions
<1>4. LatestReady(version') = LatestReady(version)
  BY <1>3 DEF LatestReady
<1> QED
  BY <1>2, <1>4 DEF UploadInv, LatestCoversReady

LEMMA UploadInvParse ==
  ASSUME IndInv, UploadInv, NEW v \in Versions, ParseSucceeds(v)
  PROVE  UploadInv'
<1> DEFINE sig == [docs |-> LatestReady(version'), contract |-> contract, snapshot |-> NoHash]
<1>1. sig \in Signature
  BY DEF Signature, Snapshots, LatestReady, IndInv, TypeOK
<1>2. indexes \in Seq(IndexRow) /\ Len(indexes) \in Nat /\ DOMAIN indexes = 1..Len(indexes)
  BY LenProperties DEF IndInv, Sound
<1>3. /\ Quiet(indexes, indexes')
      /\ \A i \in (Len(indexes) + 1)..Len(indexes') : indexes'[i].sig = sig
      /\ Len(indexes') <= Len(indexes) + 1
  BY <1>1, <1>2, EnqueueQuiet DEF ParseSucceeds
<1>4. /\ Len(indexes') \in Nat /\ DOMAIN indexes' = 1..Len(indexes')
      /\ Len(indexes) <= Len(indexes')
      /\ \A i \in DOMAIN indexes : indexes'[i].sig = indexes[i].sig
  BY <1>2, <1>3, LenProperties DEF Quiet
<1>5. \A i \in DOMAIN indexes' : i \in DOMAIN indexes \/ indexes'[i].sig = sig
  BY <1>2, <1>3, <1>4
<1>6. LatestCoversReady'
  BY LatestStep DEF IndInv, UploadInv, ParseSucceeds
<1>7. \A u \in Versions : version[u] = "ready" => version'[u] = "ready"
  BY DEF ParseSucceeds, IndInv, TypeOK
<1>8. RowsHoldReady'
  <2>1. \A u \in LatestReady(version') : u \in Versions /\ version'[u] = "ready"
    BY DEF LatestReady
  <2> QED
    BY <1>4, <1>5, <1>7, <2>1 DEF UploadInv, RowsHoldReady
<1>9. UploadsOnly'
  BY <1>4, <1>5 DEF UploadInv, UploadsOnly, ParseSucceeds, migrationVars
<1>10. ASSUME NEW i \in DOMAIN indexes', NEW k \in DOMAIN indexes', i < k
       PROVE  Covers(indexes'[k].sig.docs, indexes'[i].sig.docs)
  <2>1. i \in DOMAIN indexes
    BY <1>2, <1>3, <1>4, <1>10
  <2>2. CASE k \in DOMAIN indexes
    BY <1>4, <1>10, <2>1, <2>2 DEF UploadInv, LaterRowsCover
  <2>3. CASE indexes'[k].sig = sig
    <3>1. indexes'[k].sig.docs = LatestReady(version')
      BY <2>3
    <3>2. \A u \in indexes'[i].sig.docs : Covers(LatestReady(version'), {u})
      BY <1>6, <1>8 DEF RowsHoldReady, LatestCoversReady
    <3> QED
      BY <3>1, <3>2 DEF Covers
  <2> QED
    BY <1>5, <2>2, <2>3
<1> QED
  BY <1>6, <1>8, <1>9, <1>10 DEF UploadInv, LaterRowsCover

LEMMA UploadInvBuild ==
  ASSUME IndInv, UploadInv, NEW i \in DOMAIN indexes, BuildStep(i)
  PROVE  UploadInv'
<1>1. i \in 1..Len(indexes) /\ indexes \in Seq(IndexRow)
  BY LenProperties DEF IndInv, Sound
<1>2. StepFacts
  BY RunBuildStep, RetargetBuildStep, BuildFailsStep DEF BuildStep
<1>3. CASE RunBuild(i)
  <2>1. \A rows : Found(indexes, rows) => rows = indexes /\ rollback' = rollback
    BY DEF Found, UploadInv, UploadsOnly
  <2>2. PICK mid : /\ mid = indexes \/ mid = Activate(indexes, indexes, i)
                   /\ indexes' = EndJob(mid, i, "completed")
                   /\ rollback' = rollback
    BY <1>3, <2>1 DEF RunBuild
  <2>3. mid \in Seq(IndexRow) /\ Len(mid) = Len(indexes)
    BY <1>1, <2>2, ActivateRows DEF IndInv, SameRows
  <2>4. Len(indexes') = Len(indexes)
    BY <1>1, <2>2, <2>3, EndJobQuiet DEF JobStates
  <2> QED
    BY <1>2, <1>3, <2>2, <2>4, SameRowsStep DEF RunBuild
<1>4. CASE BuildFails(i)
  <2> DEFINE mid == FailTarget(indexes, i)
  <2>1. mid \in Seq(IndexRow) /\ Len(mid) = Len(indexes)
    BY <1>1, FailTargetQuiet DEF Quiet
  <2>2. indexes' = EndJob(mid, i, "failed")
    BY <1>4 DEF BuildFails
  <2> HIDE DEF mid
  <2>3. Len(indexes') = Len(indexes)
    BY <1>1, <2>1, <2>2, EndJobQuiet DEF JobStates
  <2> QED
    BY <1>2, <1>4, <2>3, SameRowsStep DEF BuildFails, migrationVars
<1>5. ~ RetargetBuild(i)
  BY DEF RetargetBuild, UploadInv, UploadsOnly
<1> QED
  BY <1>3, <1>4, <1>5 DEF BuildStep

(* With the bounds at zero, the configuration and the vault stay as they are,   *)
(* and nothing is rolled back.                                                *)
LEMMA UploadInvStep ==
  ASSUME MaxDrifts = 0, MaxEdits = 0, MaxRollbacks = 0, IndInv, UploadInv, [Next]_vars
  PROVE  UploadInv'
<1>1. ASSUME NEW v \in Versions, Upload(v)
      PROVE  UploadInv'
  <2>1. StepFacts
    BY <1>1, UploadStep
  <2>2. \A u \in Versions : version'[u] = "ready" <=> version[u] = "ready"
    BY <1>1 DEF Upload, IndInv, TypeOK
  <2> QED
    BY <1>1, <2>1, <2>2, SameRowsStep DEF Upload, migrationVars
<1>2. ASSUME NEW v \in Versions, ParseFails(v)
      PROVE  UploadInv'
  <2>1. StepFacts
    BY <1>2, ParseFailsStep
  <2>2. \A u \in Versions : version'[u] = "ready" <=> version[u] = "ready"
    BY <1>2 DEF ParseFails, IndInv, TypeOK
  <2> QED
    BY <1>2, <2>1, <2>2, SameRowsStep DEF ParseFails, migrationVars
<1>3. ASSUME NEW c \in Contracts, ChangeContract(c)
      PROVE  FALSE
  BY <1>3, ConstantsAssumption DEF ChangeContract, IndInv, TypeOK
<1>4. ASSUME NEW f \in Files, NEW h \in Hashes, ScanEdit(f, h)
      PROVE  FALSE
  BY <1>4 DEF ScanEdit, IndInv, TypeOK
<1>5. CASE UNCHANGED vars
  <2>1. StepFacts
    BY <1>5, StutterStep
  <2> QED
    BY <1>5, <2>1, SameRowsStep DEF vars, migrationVars
<1>6. plans = {} /\ ~rollback.begun
  BY DEF UploadInv, UploadsOnly
<1>7. CASE Inventory
  <2>1. StepFacts
    BY <1>7, InventoryStep
  <2> QED
    BY <1>7, <2>1, SameRowsStep DEF Inventory
<1>8. ASSUME NEW p \in inventoried, RollbackReads(p)
      PROVE  FALSE
  BY <1>8 DEF RollbackReads, IndInv, TypeOK
<1>9. ~RollbackCommits /\ ~RollbackAborts
  BY <1>6 DEF RollbackCommits, RollbackAborts
<1>10. ASSUME NEW v \in Versions, ParseSucceeds(v)
       PROVE  UploadInv'
  BY <1>10, UploadInvParse
<1>11. ASSUME NEW i \in DOMAIN indexes, BuildStep(i)
       PROVE  UploadInv'
  BY <1>11, UploadInvBuild
<1> QED
  BY <1>1, <1>2, <1>3, <1>4, <1>5, <1>6, <1>7, <1>8, <1>9, <1>10, <1>11 DEF Next

LEMMA InitUploadInv == Init => UploadInv
<1> SUFFICES ASSUME Init PROVE UploadInv
  OBVIOUS
<1>1. DOMAIN indexes = {}
  BY DEF Init
<1> QED
  BY <1>1 DEF Init, NoRollback, UploadInv, UploadsOnly, RowsHoldReady, LatestCoversReady, LaterRowsCover

(* Among uploads alone, for any number of documents and versions: a document   *)
(* that is searchable stays searchable, in the same or a newer version,        *)
(* whatever builds are late, fail or are repeated.  (The run semantic_snapshot  *)
(* shows that vault edits break it; a change of the embedding configuration    *)
(* and a rollback break it too.)                                             *)
THEOREM UploadsKeepSearch ==
  ASSUME MaxDrifts = 0, MaxEdits = 0, MaxRollbacks = 0
  PROVE  Spec => SearchableStaysSearchable
<1>1. IndInv /\ UploadInv /\ [Next]_vars => UploadInv'
  BY UploadInvStep
<1>2. IndInv /\ [Next]_vars => IndInv' /\ StepFacts
  BY NextStep, StutterStep
<1>3. IndInv /\ UploadInv /\ [Next]_vars =>
        [\A v \in Searched : \E n \in v[2]..MaxVersions : <<v[1], n>> \in Searched']_vars
  <2> SUFFICES ASSUME IndInv, UploadInv, Next, NEW v \in Searched
               PROVE  \E n \in v[2]..MaxVersions : <<v[1], n>> \in Searched'
    OBVIOUS
  <2>1. UploadInv' /\ StepFacts
    BY <1>1, <1>2
  <2>2. PICK i \in Active : v \in indexes[i].sig.docs
    BY DEF Searched
  <2>3. PICK k \in Active' : k >= i
    <3>1. ~RollbackCommitting
      BY DEF RollbackCommitting, UploadInv, UploadsOnly
    <3> QED
      BY <2>1, <2>2, <3>1 DEF StepFacts, Forward, Active, ActiveRows
  <2>4. i \in DOMAIN indexes /\ k \in DOMAIN indexes' /\ i \in 1..Len(indexes)
    BY <2>2, <2>3, LenProperties DEF Active, IndInv, Sound
  <2>5. i \in DOMAIN indexes' /\ i \in Nat /\ k \in Nat
    BY <2>1, <2>4, LenProperties DEF StepFacts, IndInv, Sound
  <2>6. v \in indexes'[i].sig.docs
    BY <2>1, <2>2, <2>4 DEF StepFacts
  <2>7. v \in Versions /\ v = <<v[1], v[2]>> /\ v[2] \in v[2]..MaxVersions
    <3>1. v \in Versions
      BY <2>1, <2>5, <2>6 DEF UploadInv, RowsHoldReady
    <3> QED
      BY <3>1, ConstantsAssumption DEF Versions
  <2>8. Covers(indexes'[k].sig.docs, indexes'[i].sig.docs)
    <3>1. CASE k = i
      <4>1. \A u \in indexes'[i].sig.docs : u = <<u[1], u[2]>> /\ u[2] \in u[2]..MaxVersions
        BY <2>1, <2>5, ConstantsAssumption DEF UploadInv, RowsHoldReady, Versions
      <4> QED
        BY <3>1, <4>1 DEF Covers
    <3>2. CASE k > i
      BY <2>1, <2>4, <2>5, <3>2 DEF UploadInv, LaterRowsCover
    <3> QED
      BY <2>3, <2>5, <3>1, <3>2
  <2>9. PICK n \in v[2]..MaxVersions : <<v[1], n>> \in indexes'[k].sig.docs
    BY <2>6, <2>8 DEF Covers
  <2> QED
    BY <2>3, <2>9 DEF Searched
<1> QED
  BY InitIndInv, InitUploadInv, <1>1, <1>2, <1>3, PTL DEF Spec, SearchableStaysSearchable
===============================================================================
