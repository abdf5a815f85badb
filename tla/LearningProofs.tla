-------------------------- MODULE LearningProofs ---------------------------
(***************************************************************************)
(* Proofs about CandidateReview, QuestionBank and Classrooms, for any      *)
(* number of batches, reviewers, versions, keys, submissions, pages, users *)
(* and invites.                                                            *)
(*                                                                         *)
(* CandidateReview.  A batch is published by the confirmation that took it *)
(* out of review (OneDecides), as the tree of what was accepted.           *)
(*                                                                         *)
(* QuestionBank.  What a submission has graded against is still all there  *)
(* is while it has the version's lock (LocksInv); a page ends where its    *)
(* list was when it was read (PagesInv).                                   *)
(*                                                                         *)
(* Classrooms.  An invite's use_count is right because one request at a    *)
(* time is between its check and its commit (InviteLocks), and because a   *)
(* membership row is new (RowsAreNumbered, InsertsAreNew).  A writer keeps *)
(* its role because the membership row it holds changes only without a     *)
(* holder.                                                                 *)
(***************************************************************************)
EXTENDS CandidateReview, QuestionBank, Classrooms, FiniteSetTheorems, TLAPS

-----------------------------------------------------------------------------
(* CandidateReview *)

(* A batch's row, and the job's attempts: one that is processing has some  *)
(* left.  Notes come with the answer, and stay.                            *)
BatchesFormed ==
    /\ batch = [b \in Batches |-> batch[b]]
    /\ accepted = [b \in Batches |-> accepted[b]]
    /\ \A b \in Batches :
         /\ batch[b] = [state |-> batch[b].state, attempts |-> batch[b].attempts,
                        parent |-> batch[b].parent]
         /\ batch[b].state \in BatchStates
         /\ batch[b].attempts \in 0 .. MaxAttempts
         /\ batch[b].state \in {"absent", "processing"} =>
              batch[b].attempts < MaxAttempts

(* A confirmation is of some notes of a batch that was generated. *)
ReviewsFormed ==
    /\ review = [r \in Reviewers |-> review[r]]
    /\ \A r \in Reviewers :
         /\ review[r].st \in {"idle", "asked", "locked"}
         /\ review[r].st # "idle" =>
              /\ review[r] = [st |-> review[r].st, batch |-> review[r].batch,
                              keys |-> review[r].keys]
              /\ review[r].batch \in Batches
              /\ review[r].keys # {}
              /\ batch[review[r].batch].state \in {"needs_review", "confirmed"}
              /\ review[r].keys \subseteq DOMAIN batch[review[r].batch].parent

(* The locks are of one confirmation at a time, and what it has read under *)
(* them still holds.                                                       *)
OneDecides ==
    /\ \A r \in Reviewers : review[r].st = "locked" =>
         Confirmable(review[r].batch, review[r].keys)
    /\ \A r, q \in Reviewers :
         review[r].st = "locked" /\ review[q].st = "locked" => r = q

(* Nothing is accepted or published before the confirmation, and then at   *)
(* least one note.                                                         *)
AcceptedIsConfirmed ==
    \A b \in Batches :
        /\ (batch[b].state = "confirmed") = (accepted[b] # {})
        /\ accepted[b] \subseteq DOMAIN batch[b].parent

(* Generated notes have keys. *)
KeysAreRefs == \A b \in Batches : DOMAIN batch[b].parent \subseteq Refs

(* Published notes are notes of batches. *)
LibraryFormed ==
    \A n \in library : n.batch \in Batches /\ n.key \in accepted[n.batch]

CrInv ==
    /\ BatchesFormed
    /\ ReviewsFormed
    /\ OneDecides
    /\ AcceptedIsConfirmed
    /\ KeysAreRefs
    /\ LibraryFormed
    /\ ReviewPublishesItsTree

-----------------------------------------------------------------------------
LEMMA CrInitInv == CrInit => CrInv
<1> SUFFICES ASSUME CrInit PROVE CrInv
  OBVIOUS
<1>1. BatchesFormed /\ AcceptedIsConfirmed /\ KeysAreRefs
  BY CandidateReviewAssumption
     DEF CrInit, BatchesFormed, NoBatch, BatchStates, AcceptedIsConfirmed, KeysAreRefs
<1>2. ReviewsFormed /\ OneDecides /\ LibraryFormed
  BY DEF CrInit, ReviewsFormed, OneDecides, LibraryFormed
<1>3. ReviewPublishesItsTree
  BY DEF CrInit, ReviewPublishesItsTree, NoBatch
<1> QED
  BY <1>1, <1>2, <1>3 DEF CrInv

(* A row of a batch in the making, x, and that batch alone, becomes y. *)
LEMMA NewBatch ==
  ASSUME NEW b \in Batches, NEW x,
         batch' = [c \in Batches |-> IF c = b THEN x ELSE batch[c]]
  PROVE  /\ batch' = [c \in Batches |-> batch'[c]]
         /\ batch'[b] = x
         /\ \A c \in Batches \ {b} : batch'[c] = batch[c]
OBVIOUS

(* What a step may make of a batch that has not been generated. *)
Makes(x, y) ==
    /\ y = [state |-> y.state, attempts |-> y.attempts, parent |-> y.parent]
    /\ y.state \in {"processing", "needs_review", "failed"}
    /\ y.attempts \in 0 .. MaxAttempts
    /\ y.state = "processing" => y.attempts < MaxAttempts
    /\ DOMAIN y.parent \subseteq Refs

(* An attempt that fails counts, and the last one fails the batch. *)
LEMMA BatchMade ==
  ASSUME CrInv, NEW b \in Batches, CreateBatch(b) \/ GenerateBatch(b)
  PROVE  /\ batch' = [c \in Batches |-> batch'[c]]
         /\ Makes(batch[b], batch'[b])
         /\ \A c \in Batches \ {b} : batch'[c] = batch[c]
<1> DEFINE x == batch[b]
<1>1. /\ x = [state |-> x.state, attempts |-> x.attempts, parent |-> x.parent]
      /\ x.attempts \in 0 .. MaxAttempts /\ MaxAttempts \in Nat
      /\ x.state \in {"absent", "processing"} => x.attempts < MaxAttempts
      /\ DOMAIN x.parent \subseteq Refs
      /\ batch = [c \in Batches |-> batch[c]]
  BY CandidateReviewAssumption DEF CrInv, BatchesFormed, KeysAreRefs
<1>2. CASE CreateBatch(b)
  <2> DEFINE y == [state |-> "processing", attempts |-> x.attempts, parent |-> x.parent]
  <2>1. batch' = [c \in Batches |-> IF c = b THEN y ELSE batch[c]]
    <3>1. y = [x EXCEPT !.state = "processing"]
      BY <1>1
    <3> HIDE DEF y
    <3> QED
      BY <1>1, <1>2, <3>1 DEF CreateBatch
  <2>2. Makes(x, y)
    BY <1>1, <1>2 DEF CreateBatch, Makes
  <2> HIDE DEF y
  <2> QED
    BY <1>1, <2>1, <2>2, NewBatch
<1>3. CASE x.state = "processing" /\ AttemptFails(b)
  <2> DEFINE y == [state |-> IF x.attempts + 1 = MaxAttempts THEN "failed"
                             ELSE "processing",
                   attempts |-> x.attempts + 1, parent |-> x.parent]
  <2>1. batch' = [c \in Batches |-> IF c = b THEN y ELSE batch[c]]
    <3>1. y = [[x EXCEPT !.attempts = x.attempts + 1]
                 EXCEPT !.state = IF x.attempts + 1 = MaxAttempts THEN "failed"
                                  ELSE "processing"]
      <4> DEFINE z == [x EXCEPT !.attempts = x.attempts + 1]
      <4>1. z = [state |-> x.state, attempts |-> x.attempts + 1, parent |-> x.parent]
        BY <1>1
      <4> HIDE DEF z
      <4>2. y = [z EXCEPT !.state = IF x.attempts + 1 = MaxAttempts THEN "failed"
                                    ELSE "processing"]
        BY <4>1
      <4> QED
        BY <4>2 DEF z
    <3>2. /\ batch' = [c \in Batches |-> batch'[c]]
          /\ \A c \in Batches \ {b} : batch'[c] = batch[c]
      BY <1>1, <1>3 DEF AttemptFails
    <3>3. batch'[b] = [[x EXCEPT !.attempts = x.attempts + 1]
                 EXCEPT !.state = IF x.attempts + 1 = MaxAttempts THEN "failed"
                                  ELSE "processing"]
      BY <1>1, <1>3 DEF AttemptFails
    <3> HIDE DEF y
    <3> QED
      BY <3>1, <3>2, <3>3
  <2>2. Makes(x, y)
    BY <1>1, <1>3 DEF Makes
  <2> HIDE DEF y
  <2> QED
    BY <1>1, <2>1, <2>2, NewBatch
<1>4. ASSUME NEW answer \in Answers, x.state = "processing",
             batch' = [batch EXCEPT ![b].state = "needs_review",
                                    ![b].parent = MergedParents(FlattenSeq(answer))]
      PROVE  batch' = [c \in Batches |-> batch'[c]] /\ Makes(x, batch'[b])
             /\ \A c \in Batches \ {b} : batch'[c] = batch[c]
  <2> DEFINE parent == MergedParents(FlattenSeq(answer))
             y == [state |-> "needs_review", attempts |-> x.attempts, parent |-> parent]
  <2>1. DOMAIN parent \subseteq Refs
    BY CandidateReviewAssumption DEF MergedParents, NoteKeys
  <2> HIDE DEF parent
  <2>2. batch' = [c \in Batches |-> IF c = b THEN y ELSE batch[c]]
    <3>1. y = [[x EXCEPT !.state = "needs_review"] EXCEPT !.parent = parent]
      <4> DEFINE z == [x EXCEPT !.state = "needs_review"]
      <4>1. z = [state |-> "needs_review", attempts |-> x.attempts,
                 parent |-> x.parent]
        BY <1>1
      <4> HIDE DEF z
      <4>2. y = [z EXCEPT !.parent = parent]
        BY <4>1
      <4> QED
        BY <4>2 DEF z
    <3>2. /\ batch' = [c \in Batches |-> batch'[c]]
          /\ \A c \in Batches \ {b} : batch'[c] = batch[c]
      BY <1>1, <1>4
    <3>3. batch'[b] = [[x EXCEPT !.state = "needs_review"] EXCEPT !.parent = parent]
      BY <1>1, <1>4 DEF parent
    <3> HIDE DEF y
    <3> QED
      BY <3>1, <3>2, <3>3
  <2>3. Makes(x, y)
    BY <1>1, <1>4, <2>1 DEF Makes
  <2> HIDE DEF y
  <2> QED
    BY <1>1, <2>2, <2>3, NewBatch
<1> QED
  BY <1>2, <1>3, <1>4 DEF GenerateBatch

(* While a batch is made nothing is known of it elsewhere. *)
LEMMA BatchStep ==
  ASSUME CrInv, NEW b \in Batches, CreateBatch(b) \/ GenerateBatch(b)
  PROVE  CrInv'
<1> USE DEF CrInv
<1>1. /\ UNCHANGED <<accepted, library, review>>
      /\ batch[b].state \in {"absent", "processing"}
  BY DEF CreateBatch, GenerateBatch
<1>2. /\ batch' = [c \in Batches |-> batch'[c]]
      /\ Makes(batch[b], batch'[b])
      /\ \A c \in Batches \ {b} : batch'[c] = batch[c]
  BY BatchMade
<1>3. BatchesFormed' /\ KeysAreRefs'
  BY <1>1, <1>2 DEF BatchesFormed, KeysAreRefs, BatchStates, Makes
<1>4. accepted[b] = {} /\ \A r \in Reviewers : review[r].st # "idle" => review[r].batch # b
  BY <1>1 DEF AcceptedIsConfirmed, ReviewsFormed
<1>5. ReviewsFormed' /\ OneDecides'
  BY <1>1, <1>2, <1>4, SMTT(30) DEF ReviewsFormed, OneDecides, Confirmable, Makes
<1>6. AcceptedIsConfirmed' /\ LibraryFormed'
  BY <1>1, <1>2, <1>4 DEF AcceptedIsConfirmed, LibraryFormed, Makes
<1>7. ReviewPublishesItsTree'
  BY <1>1, <1>2 DEF ReviewPublishesItsTree, Makes
<1> QED
  BY <1>3, <1>5, <1>6, <1>7

-----------------------------------------------------------------------------
(* A confirmation that has written nothing: r becomes y, which holds the   *)
(* locks only if it alone does and what it has read under them is so.      *)
LEMMA ReviewStep ==
  ASSUME CrInv, UNCHANGED <<batch, accepted, library>>, NEW r \in Reviewers, NEW y,
         review' = [review EXCEPT ![r] = y],
         y.st \in {"idle", "asked", "locked"},
         y.st # "idle" =>
              /\ y = [st |-> y.st, batch |-> y.batch, keys |-> y.keys]
              /\ y.batch \in Batches /\ y.keys # {}
              /\ batch[y.batch].state \in {"needs_review", "confirmed"}
              /\ y.keys \subseteq DOMAIN batch[y.batch].parent,
         y.st = "locked" =>
              /\ Confirmable(y.batch, y.keys)
              /\ \A q \in Reviewers : review[q].st # "locked"
  PROVE  CrInv'
<1> USE DEF CrInv
<1>1. /\ review' = [q \in Reviewers |-> review'[q]]
      /\ review'[r] = y
      /\ \A q \in Reviewers \ {r} : review'[q] = review[q]
  BY DEF ReviewsFormed
<1>2. BatchesFormed' /\ AcceptedIsConfirmed' /\ KeysAreRefs' /\ LibraryFormed'
      /\ ReviewPublishesItsTree'
  BY DEF BatchesFormed, AcceptedIsConfirmed, KeysAreRefs, LibraryFormed,
     ReviewPublishesItsTree
<1>3. ReviewsFormed'
  BY <1>1 DEF ReviewsFormed
<1>4. OneDecides'
  BY <1>1, SMTT(30) DEF OneDecides, Confirmable
<1> QED
  BY <1>2, <1>3, <1>4

LEMMA AskReviewStep ==
  ASSUME CrInv, NEW r \in Reviewers, AskReview(r)
  PROVE  CrInv'
<1>1. PICK b, keys :
        /\ b \in Batches /\ keys \subseteq DOMAIN batch[b].parent
        /\ batch[b].state \in {"needs_review", "confirmed"}
        /\ keys # {}
        /\ review' = [review EXCEPT ![r] = [st |-> "asked", batch |-> b, keys |-> keys]]
        /\ UNCHANGED <<batch, accepted, library>>
  BY DEF AskReview
<1> DEFINE y == [st |-> "asked", batch |-> b, keys |-> keys]
<1>2. /\ y = [st |-> y.st, batch |-> y.batch, keys |-> y.keys]
      /\ y.st = "asked" /\ y.batch = b /\ y.keys = keys
  OBVIOUS
<1> HIDE DEF y
<1>3. review' = [review EXCEPT ![r] = y]
  BY <1>1 DEF y
<1> QED
  BY <1>1, <1>2, <1>3, ReviewStep

LEMMA DecideStep ==
  ASSUME CrInv, NEW r \in Reviewers, Decide(r)
  PROVE  CrInv'
<1> DEFINE x == review[r]
           ok == Confirmable(x.batch, x.keys)
           y == IF ok THEN [x EXCEPT !.st = "locked"] ELSE [st |-> "idle"]
<1>1. /\ x.st = "asked" /\ \A q \in Reviewers : review[q].st # "locked"
      /\ UNCHANGED <<batch, accepted, library>>
      /\ review' = [review EXCEPT ![r] = y]
  BY DEF Decide
<1>2. /\ x = [st |-> x.st, batch |-> x.batch, keys |-> x.keys]
      /\ x.batch \in Batches /\ x.keys # {}
      /\ batch[x.batch].state \in {"needs_review", "confirmed"}
      /\ x.keys \subseteq DOMAIN batch[x.batch].parent
  BY <1>1 DEF CrInv, ReviewsFormed
<1>3. ok => /\ y = [st |-> y.st, batch |-> y.batch, keys |-> y.keys]
            /\ y.st = "locked" /\ y.batch = x.batch /\ y.keys = x.keys
  BY <1>2
<1>4. ~ok => y.st = "idle"
  OBVIOUS
<1>5. ok => Confirmable(x.batch, x.keys)
  OBVIOUS
<1> HIDE DEF y, ok
<1> QED
  BY <1>1, <1>2, <1>3, <1>4, <1>5, ReviewStep

LEMMA ConfirmAbortsStep ==
  ASSUME CrInv, NEW r \in Reviewers, ConfirmAborts(r)
  PROVE  CrInv'
BY ReviewStep DEF ConfirmAborts

-----------------------------------------------------------------------------
(* What a confirmation publishes of its batch. *)
LEMMA FormalNotes ==
  ASSUME NEW b, NEW keys
  PROVE  /\ \A n \in Formal(b, keys) :
              n.batch = b /\ n.key \in keys /\ n.parent = batch[b].parent[n.key]
         /\ \A k \in keys : \E n \in Formal(b, keys) : n.key = k
<1> DEFINE note(k) == [batch |-> b, key |-> k, parent |-> batch[b].parent[k],
                       title |-> PublishedTitle(b, keys, k)]
<1>1. \A k : /\ note(k).batch = b /\ note(k).key = k
             /\ note(k).parent = batch[b].parent[k]
  OBVIOUS
<1>2. Formal(b, keys) = {note(k) : k \in keys}
  BY DEF Formal
<1> HIDE DEF note
<1> QED
  BY <1>1, <1>2

(* The step of the confirmation that publishes. *)
LEMMA PublishStep ==
  ASSUME CrInv, NEW r \in Reviewers, Publish(r)
  PROVE  CrInv'
<1> USE DEF CrInv
<1> DEFINE b == review[r].batch
           keys == review[r].keys
           new == Formal(b, keys)
<1>1. /\ review[r].st = "locked"
      /\ review' = [review EXCEPT ![r] = [st |-> "idle"]]
  BY DEF Publish
<1>2. /\ b \in Batches /\ keys # {} /\ keys \subseteq DOMAIN batch[b].parent
      /\ Confirmable(b, keys)
  BY <1>1 DEF ReviewsFormed, OneDecides
<1>3. CASE UNCHANGED <<library, accepted, batch>>
  BY <1>1, <1>3, ReviewStep
<1>4. CASE TitlesFree(new) /\ library' = library \cup new
           /\ accepted' = [accepted EXCEPT ![b] = keys]
           /\ batch' = [batch EXCEPT ![b].state = "confirmed"]
  <2>1. /\ review' = [q \in Reviewers |-> review'[q]]
        /\ review'[r] = [st |-> "idle"]
        /\ \A q \in Reviewers \ {r} : review'[q] = review[q]
    BY <1>1 DEF ReviewsFormed
  <2>2. /\ accepted' = [c \in Batches |-> accepted'[c]]
        /\ accepted'[b] = keys
        /\ \A c \in Batches \ {b} : accepted'[c] = accepted[c]
    BY <1>2, <1>4 DEF BatchesFormed
  <2>3. /\ batch' = [c \in Batches |-> batch'[c]]
        /\ batch'[b] = [state |-> "confirmed", attempts |-> batch[b].attempts,
                        parent |-> batch[b].parent]
        /\ \A c \in Batches \ {b} : batch'[c] = batch[c]
    <3>1. /\ batch = [c \in Batches |-> batch[c]]
          /\ batch[b] = [state |-> batch[b].state, attempts |-> batch[b].attempts,
                         parent |-> batch[b].parent]
      BY <1>2 DEF BatchesFormed
    <3> HIDE DEF CrInv
    <3>2. /\ batch' = [c \in Batches |-> batch'[c]]
          /\ batch'[b] = [batch[b] EXCEPT !.state = "confirmed"]
          /\ \A c \in Batches \ {b} : batch'[c] = batch[c]
      BY <1>2, <1>4, <3>1
    <3> HIDE DEF b
    <3> QED
      BY <3>1, <3>2
  <2>4. /\ batch[b].state = "needs_review" /\ accepted[b] = {}
        /\ \A n \in library : n.batch # b
    BY <1>2 DEF Confirmable, AcceptedIsConfirmed, LibraryFormed
  <2>5. BatchesFormed' /\ KeysAreRefs'
    BY <1>2, <2>2, <2>3 DEF BatchesFormed, KeysAreRefs, BatchStates
  <2>6. ReviewsFormed'
    BY <1>2, <2>1, <2>3 DEF ReviewsFormed
  <2>7. OneDecides'
    <3>1. \A q \in Reviewers : review'[q].st # "locked"
      BY <1>1, <2>1 DEF OneDecides
    <3> QED
      BY <3>1 DEF OneDecides
  <2>8. AcceptedIsConfirmed'
    BY <1>2, <2>2, <2>3 DEF AcceptedIsConfirmed
  <2>9. LibraryFormed'
    BY <1>2, <1>4, <2>2, <2>4, FormalNotes DEF LibraryFormed
  <2>10. \A k \in keys : batch[b].parent[k] \in keys \cup {NoRef}
    BY <1>2 DEF Confirmable
  <2> DEFINE before(c) == {n \in library : n.batch = c}
             after(c) == {n \in library' : n.batch = c}
  <2>11. after(b) = new
    BY <1>4, <2>4, FormalNotes
  <2>12. \A c \in Batches \ {b} : after(c) = before(c)
    BY <1>4, FormalNotes
  <2>13. /\ {n.key : n \in new} = keys
         /\ new # {}
         /\ \A n \in new : n.parent \in keys \cup {NoRef}
    BY <1>2, <2>10, FormalNotes
  <2>14. \A n, m \in library' : n.title = m.title => n = m
    BY <1>4 DEF TitlesFree, ReviewPublishesItsTree
  <2> HIDE DEF before, after, b, keys, new
  <2>15. \A c \in Batches \ {b} :
           /\ {n.key : n \in before(c)} = accepted[c]
           /\ (batch[c].state = "confirmed") = (before(c) # {})
           /\ \A n \in before(c) : n.parent \in accepted[c] \cup {NoRef}
    BY DEF ReviewPublishesItsTree, before
  <2>16. \A c \in Batches :
           /\ {n.key : n \in after(c)} = accepted'[c]
           /\ (batch'[c].state = "confirmed") = (after(c) # {})
           /\ \A n \in after(c) : n.parent \in accepted'[c] \cup {NoRef}
    <3> SUFFICES ASSUME NEW c \in Batches
                 PROVE  /\ {n.key : n \in after(c)} = accepted'[c]
                        /\ (batch'[c].state = "confirmed") = (after(c) # {})
                        /\ \A n \in after(c) :
                             n.parent \in accepted'[c] \cup {NoRef}
      OBVIOUS
    <3>1. CASE c = b
      BY <3>1, <2>2, <2>3, <2>11, <2>13
    <3>2. CASE c # b
      BY <3>2, <2>2, <2>3, <2>12, <2>15
    <3> QED
      BY <3>1, <3>2
  <2>17. ReviewPublishesItsTree'
    BY <2>14, <2>16 DEF ReviewPublishesItsTree, after
  <2> QED
    BY <2>5, <2>6, <2>7, <2>8, <2>9, <2>17
<1> QED
  BY <1>3, <1>4 DEF Publish

-----------------------------------------------------------------------------
LEMMA CrStep ==
  ASSUME CrInv, [CrNext]_crVars
  PROVE  CrInv'
<1>1. CASE UNCHANGED crVars
  BY <1>1 DEF crVars, CrInv, BatchesFormed, ReviewsFormed, OneDecides, Confirmable,
     AcceptedIsConfirmed, KeysAreRefs, LibraryFormed, ReviewPublishesItsTree
<1> QED
  BY <1>1, BatchStep, AskReviewStep, DecideStep, PublishStep, ConfirmAbortsStep
     DEF CrNext

(* Batches, confirmations and the library agree at every moment. *)
THEOREM CrInvariant == CrSpec => []CrInv
BY CrInitInv, CrStep, PTL DEF CrSpec

(* Batches, their attempts and the confirmations under way are what the    *)
(* columns of knowledge_candidate_batches allow.                           *)
THEOREM CrTypeCorrect == CrSpec => []CrTypeOK
<1>1. CrInv => CrTypeOK
  BY DEF CrInv, CrTypeOK, BatchesFormed, ReviewsFormed, AcceptedIsConfirmed,
     KeysAreRefs, LibraryFormed
<1> QED
  BY <1>1, CrInvariant, PTL

(* Whichever reviewers confirm a batch, and however often: it is published *)
(* once, as the tree of the accepted notes, under titles of its own.       *)
THEOREM BatchesPublishTheirTree == CrSpec => []ReviewPublishesItsTree
<1>1. CrInv => ReviewPublishesItsTree
  BY DEF CrInv
<1> QED
  BY <1>1, CrInvariant, PTL

-----------------------------------------------------------------------------
(* QuestionBank *)

Distinct(rows) == \A a, b \in rows : a.id = b.id => a = b

(* A row is the answer of its submission; a key has one row; the rows of a *)
(* version are numbered without a number above their count.                *)
RowsInv ==
    /\ IsFiniteSet(assessed)
    /\ \A a \in assessed : submission[a.id].st = "answered"
    /\ Distinct(assessed)
    /\ \A a, b \in assessed : a.version = b.version /\ a.key = b.key => a = b
    /\ \A a \in assessed : /\ a.serial \in Nat
                           /\ a.serial <= Cardinality(Of(a.version))

(* The advisory lock of a version has one holder, and what it has graded   *)
(* against is still all there is.                                          *)
LocksInv ==
    /\ \A c, d \in Submissions :
         /\ submission[c].st \in {"locked", "graded"}
         /\ submission[d].st \in {"locked", "graded"}
         /\ submission[c].asked.version = submission[d].asked.version
         => c = d
    /\ \A c \in Submissions : submission[c].st = "graded" =>
         LET row == submission[c].row
             n   == Cardinality(Of(row.version)) IN
         /\ row.id = c
         /\ row.version = submission[c].asked.version
         /\ row.key = submission[c].asked.key
         /\ row.evidence = Min({Window, n}) + 1
         /\ row.next <= n + 1

(* What was shown is not past the cursor, and what was there at the first  *)
(* page and is still listed was shown or is past it.                       *)
PagesInv ==
    pages.st # "idle" =>
        /\ ~pages.repeated
        /\ pages.first \subseteq assessed /\ pages.shown \subseteq assessed
        /\ pages.last \in assessed
        /\ \A a \in pages.shown :
             a = pages.last \/ ListedBefore(pages.list, a, pages.last)
        /\ \A a \in pages.first \cap RowsOf(pages.list) :
             \/ a \in pages.shown
             \/ pages.st = "reading" /\ PastCursor(pages.list, a, pages.last)

QbInv == QbTypeOK /\ RowsInv /\ LocksInv /\ PagesInv /\ AttemptsFormOneChain
-----------------------------------------------------------------------------
(* Orders of rows                                                          *)

(* A finite set that is totally ordered has a greatest element. *)
LEMMA GreatestElement ==
  ASSUME NEW S, IsFiniteSet(S), S # {}, NEW R,
         \A a, b \in S : a # b => <<a, b>> \in R \/ <<b, a>> \in R,
         \A a, b, c \in S : <<a, b>> \in R /\ <<b, c>> \in R => <<a, c>> \in R
  PROVE  \E m \in S : \A a \in S \ {m} : <<a, m>> \in R
<1> DEFINE Has(s) == \E m \in s : \A a \in s \ {m} : <<a, m>> \in R
           D == {s \in SUBSET S : s # {} /\ ~Has(s)}
<1> SUFFICES ASSUME D # {} PROVE FALSE
  OBVIOUS
<1>1. PICK s \in D : \A t \in D : t \subseteq s => t = s
  <2> HIDE DEF Has
  <2>1. D \subseteq SUBSET S /\ D # {}
    OBVIOUS
  <2> HIDE DEF D
  <2>2. IsWellFoundedOn(StrictSubsetOrdering(S), SUBSET S)
    BY FS_StrictSubsetOrderingWellFounded, FS_FiniteSubsetsOfFinite
  <2>3. PICK s \in D : \A t \in D : ~ (<<t, s>> \in StrictSubsetOrdering(S))
    BY <2>1, <2>2, WFMin
  <2>4. \A t \in D : t \subseteq s => t = s
    BY <2>1, <2>3 DEF StrictSubsetOrdering
  <2> QED
    BY <2>4
<1>2. s \subseteq S /\ s # {} /\ ~Has(s)
  OBVIOUS
<1>3. PICK x \in s : TRUE
  BY <1>2
<1>4. s \ {x} # {}
  <2>1. s \ {x} = {} => s = {x}
    BY <1>3
  <2> QED
    BY <1>2, <2>1
<1>5. Has(s \ {x})
  <2>1. s \ {x} \notin D
    <3>1. s \ {x} \subseteq s /\ s \ {x} # s
      BY <1>3
    <3> HIDE DEF D
    <3> QED
      BY <1>1, <3>1
  <2> QED
    BY <1>2, <1>4, <2>1
<1>6. PICK m \in s \ {x} : \A a \in (s \ {x}) \ {m} : <<a, m>> \in R
  BY <1>5
<1>7. CASE <<x, m>> \in R
  <2>1. \A a \in s \ {m} : <<a, m>> \in R
    BY <1>6, <1>7
  <2> QED
    BY <1>2, <1>6, <2>1
<1>8. CASE <<m, x>> \in R
  <2>1. \A a \in s \ {x} : <<a, x>> \in R
    BY <1>2, <1>3, <1>6, <1>8
  <2> QED
    BY <1>2, <1>3, <2>1
<1> QED
  BY <1>2, <1>3, <1>6, <1>7, <1>8

LEMMA RowFields ==
  \A a \in AssessmentRow : /\ a.id \in Int /\ a.created \in Int /\ a.due \in Int
                           /\ a.id \in Submissions
BY QuestionBankAssumption DEF AssessmentRow, Submissions

(* The order of a list is strict, and total where the ids differ. *)
LEMMA ListOrder ==
  ASSUME NEW list, NEW a \in AssessmentRow, NEW b \in AssessmentRow
  PROVE  /\ ~ListedBefore(list, a, a)
         /\ ~(ListedBefore(list, a, b) /\ ListedBefore(list, b, a))
         /\ a.id # b.id => ListedBefore(list, a, b) \/ ListedBefore(list, b, a)
         /\ \A c \in AssessmentRow :
              ListedBefore(list, a, b) /\ ListedBefore(list, b, c)
                => ListedBefore(list, a, c)
BY RowFields DEF ListedBefore, DueBefore, Earlier

LEMMA EarlierOrder ==
  ASSUME NEW a \in AssessmentRow, NEW b \in AssessmentRow
  PROVE  /\ ~(Earlier(a, b) /\ Earlier(b, a))
         /\ a.id # b.id => Earlier(a, b) \/ Earlier(b, a)
         /\ \A c \in AssessmentRow : Earlier(a, b) /\ Earlier(b, c) => Earlier(a, c)
BY RowFields DEF Earlier

(* The last row of a set in the order of a list. *)
LEMMA LastListed ==
  ASSUME NEW list, NEW rows, rows \subseteq AssessmentRow, IsFiniteSet(rows),
         Distinct(rows), rows # {}
  PROVE  \E m \in rows : \A a \in rows \ {m} : ListedBefore(list, a, m)
<1> DEFINE R == {p \in rows \X rows : ListedBefore(list, p[1], p[2])}
<1>1. \A a, b \in rows : <<a, b>> \in R <=> ListedBefore(list, a, b)
  OBVIOUS
<1> HIDE DEF R
<1>2. \A a, b \in rows : a # b => <<a, b>> \in R \/ <<b, a>> \in R
  BY <1>1, ListOrder DEF Distinct
<1>3. \A a, b, c \in rows : <<a, b>> \in R /\ <<b, c>> \in R => <<a, c>> \in R
  BY <1>1, ListOrder
<1>4. \E m \in rows : \A a \in rows \ {m} : <<a, m>> \in R
  BY <1>2, <1>3, GreatestElement
<1> QED
  BY <1>1, <1>4

LEMMA NewestRow ==
  ASSUME NEW rows, rows \subseteq AssessmentRow, IsFiniteSet(rows),
         Distinct(rows), rows # {}
  PROVE  /\ Newest(rows) \in rows
         /\ \A b \in rows \ {Newest(rows)} : Earlier(b, Newest(rows))
<1> DEFINE R == {p \in rows \X rows : Earlier(p[1], p[2])}
<1>1. \A a, b \in rows : <<a, b>> \in R <=> Earlier(a, b)
  OBVIOUS
<1> HIDE DEF R
<1>2. \A a, b \in rows : a # b => <<a, b>> \in R \/ <<b, a>> \in R
  BY <1>1, EarlierOrder DEF Distinct
<1>3. \A a, b, c \in rows : <<a, b>> \in R /\ <<b, c>> \in R => <<a, c>> \in R
  BY <1>1, EarlierOrder
<1>4. \E m \in rows : \A a \in rows \ {m} : <<a, m>> \in R
  BY <1>2, <1>3, GreatestElement
<1>5. \E m \in rows : \A a \in rows \ {m} : Earlier(a, m)
  BY <1>1, <1>4
<1> QED
  BY <1>5 DEF Newest

LEMMA NewestOnly ==
  ASSUME NEW rows, rows \subseteq AssessmentRow, IsFiniteSet(rows),
         Distinct(rows), NEW a \in rows, \A b \in rows \ {a} : Earlier(b, a)
  PROVE  Newest(rows) = a
<1>1. /\ Newest(rows) \in rows
      /\ \A b \in rows \ {Newest(rows)} : Earlier(b, Newest(rows))
  BY NewestRow
<1> QED
  BY <1>1, EarlierOrder

(* A page of a list is its beginning: rows that are left out come after its *)
(* last row.                                                                *)
LEMMA PageBegins ==
  ASSUME NEW list, NEW rows, rows \subseteq AssessmentRow, IsFiniteSet(rows),
         Distinct(rows), rows # {}
  PROVE  LET page == PageOf(list, rows)
             last == CHOOSE a \in page :
                       \A b \in page \ {a} : ListedBefore(list, b, a)
         IN /\ page \subseteq rows /\ last \in page
            /\ \A b \in page \ {last} : ListedBefore(list, b, last)
            /\ \A a \in rows \ page : ListedBefore(list, last, a)
<1> DEFINE page == PageOf(list, rows)
           last == CHOOSE a \in page : \A b \in page \ {a} : ListedBefore(list, b, a)
           before(a) == {b \in rows : ListedBefore(list, b, a)}
<1>1. page \subseteq rows
  BY DEF PageOf
<1>2. \A a \in rows : IsFiniteSet(before(a)) /\ Cardinality(before(a)) \in Nat
  BY FS_Subset, FS_CardinalityType
<1>3. \A a, b \in rows : /\ a \in page
                         /\ b = a \/ ListedBefore(list, b, a)
                         => b \in page
  <2> SUFFICES ASSUME NEW a \in rows, NEW b \in rows, a \in page,
                      ListedBefore(list, b, a)
               PROVE  b \in page
    OBVIOUS
  <2>1. before(b) \subseteq before(a)
    BY ListOrder
  <2>2. Cardinality(before(b)) <= Cardinality(before(a))
    BY <1>2, <2>1, FS_Subset
  <2>3. Cardinality(before(a)) < PageSize
    BY DEF PageOf
  <2> QED
    BY <1>2, <2>2, <2>3, QuestionBankAssumption DEF PageOf
<1>4. page # {}
  <2> DEFINE back == {p \in rows \X rows : ListedBefore(list, p[2], p[1])}
  <2>1. \A a, b \in rows : <<a, b>> \in back <=> ListedBefore(list, b, a)
    OBVIOUS
  <2> HIDE DEF back
  <2>2. \A a, b \in rows : a # b => <<a, b>> \in back \/ <<b, a>> \in back
    BY <2>1, ListOrder DEF Distinct
  <2>3. \A a, b, c \in rows :
          <<a, b>> \in back /\ <<b, c>> \in back => <<a, c>> \in back
    BY <2>1, ListOrder
  <2>4. PICK m \in rows : \A a \in rows \ {m} : <<a, m>> \in back
    BY <2>2, <2>3, GreatestElement
  <2>5. \A a \in rows \ {m} : ListedBefore(list, m, a)
    BY <2>1, <2>4
  <2>6. before(m) = {}
    BY <2>5, ListOrder
  <2>7. Cardinality(before(m)) = 0
    BY <2>6, FS_EmptySet
  <2>8. m \in page
    BY <2>7, QuestionBankAssumption DEF PageOf
  <2> QED
    BY <2>8
<1>5. last \in page /\ \A b \in page \ {last} : ListedBefore(list, b, last)
  <2>1. page \subseteq AssessmentRow /\ IsFiniteSet(page) /\ Distinct(page)
    BY <1>1, FS_Subset DEF Distinct
  <2> HIDE DEF page
  <2>2. \E m \in page : \A a \in page \ {m} : ListedBefore(list, a, m)
    BY <1>4, <2>1, LastListed
  <2> QED
    BY <2>2
<1> HIDE DEF page, last
<1>6. \A a \in rows \ page : ListedBefore(list, last, a)
  BY <1>1, <1>3, <1>5, ListOrder DEF Distinct
<1> QED
  BY <1>1, <1>5, <1>6 DEF page, last

-----------------------------------------------------------------------------
(* Submissions                                                             *)

LEMMA WindowMin ==
  ASSUME NEW n \in Nat
  PROVE  Min({Window, n}) \in Nat
<1>1. Window \in Nat
  BY QuestionBankAssumption
<1>2. \E m \in {Window, n} : \A k \in {Window, n} : m <= k
  BY <1>1
<1> QED
  BY <1>1, <1>2 DEF Min

LEMMA InitQbInv == QbInit => QbInv
<1> SUFFICES ASSUME QbInit PROVE QbInv
  OBVIOUS
<1>1. QbTypeOK
  <2>1. bank \subseteq QbVersions
    BY QuestionBankAssumption DEF QbInit
  <2>2. generation \in [asking : Nat, queued : Nat]
        /\ generation.asking + generation.queued <= MaxGenerations
    BY QuestionBankAssumption DEF QbInit
  <2>3. today \in 0 .. LastDay
    BY QuestionBankAssumption DEF QbInit
  <2>4. indexed \in BOOLEAN
    BY DEF QbInit
  <2> QED
    BY <2>1, <2>2, <2>3, <2>4 DEF QbInit, QbTypeOK, SubmissionState, PageState
<1>2. assessed = {} /\ pages.st = "idle" /\ \A c \in Submissions : submission[c].st = "new"
  BY DEF QbInit
<1>3. RowsInv /\ LocksInv /\ PagesInv /\ AttemptsFormOneChain
  BY <1>2, FS_EmptySet DEF RowsInv, LocksInv, PagesInv, AttemptsFormOneChain, Distinct
<1> QED
  BY <1>1, <1>3 DEF QbInv

LEMMA RowsQuiet ==
  ASSUME QbInv, UNCHANGED <<assessed, submission>>
  PROVE  RowsInv' /\ LocksInv' /\ AttemptsFormOneChain'
<1>1. RowsInv'
  BY DEF QbInv, RowsInv, Of
<1>2. LocksInv'
  BY DEF QbInv, LocksInv, Of
<1>3. AttemptsFormOneChain'
  BY DEF QbInv, AttemptsFormOneChain, Of, Stored
<1> QED
  BY <1>1, <1>2, <1>3

(* Nothing the invariant is about changes, but the type of what did. *)
LEMMA QbQuiet ==
  ASSUME QbInv, QbTypeOK', UNCHANGED <<assessed, submission, pages>>
  PROVE  QbInv'
<1>1. RowsInv' /\ LocksInv' /\ AttemptsFormOneChain'
  BY RowsQuiet
<1>2. PagesInv'
  BY DEF QbInv, PagesInv, RowsOf, Reviewable, Of, PastCursor
<1> QED
  BY <1>1, <1>2 DEF QbInv

(* Facts of the rows of one version. *)
LEMMA VersionRows ==
  ASSUME QbInv, NEW v
  PROVE  /\ Of(v) \subseteq assessed /\ Of(v) \subseteq AssessmentRow
         /\ IsFiniteSet(Of(v)) /\ Cardinality(Of(v)) \in Nat
         /\ Distinct(Of(v))
<1>1. Of(v) \subseteq assessed
  BY DEF Of
<1> QED
  BY <1>1, FS_Subset, FS_CardinalityType DEF QbInv, QbTypeOK, RowsInv, Distinct

(* The rows of a version, and of a key, among `rows'. *)
RowsIn(rows, v) == {a \in rows : a.version = v}
KeyRowsIn(rows, ask) == {a \in RowsIn(rows, ask.version) : a.key = ask.key}

(* A submission changes its own state only, and no row is added. *)
LEMMA SubmissionMoves ==
  ASSUME QbInv, NEW c \in Submissions, NEW s \in SubmissionState,
         submission' = [submission EXCEPT ![c] = s],
         UNCHANGED <<bank, indexed, generation, assessed, today, pages>>,
         submission[c].st # "answered",
         s.st \in {"locked", "graded"} =>
           /\ \A d \in Submissions \ {c} :
                submission[d].st \in {"locked", "graded"} =>
                  submission[d].asked.version # s.asked.version,
         s.st = "graded" =>
           /\ s.row.id = c
           /\ s.row.version = s.asked.version
           /\ s.row.key = s.asked.key
           /\ s.row.evidence = Min({Window, Cardinality(Of(s.row.version))}) + 1
           /\ s.row.next <= Cardinality(Of(s.row.version)) + 1,
         s.st = "answered" => Stored(s.row) = {s.row}
  PROVE  QbInv'
<1>1. QbTypeOK'
  BY DEF QbInv, QbTypeOK
<1>2. /\ submission'[c] = s
      /\ \A d \in Submissions \ {c} : submission'[d] = submission[d]
  BY DEF QbInv, QbTypeOK
<1>3. RowsInv'
  <2>1. \A a \in assessed : a.id \in Submissions \ {c}
    BY RowFields DEF QbInv, RowsInv, QbTypeOK
  <2> QED
    BY <1>2, <2>1 DEF QbInv, RowsInv, Of
<1>4. LocksInv'
  <2>1. ASSUME NEW d \in Submissions, submission'[d].st = "graded"
        PROVE  /\ submission'[d].row.id = d
               /\ submission'[d].row.version = submission'[d].asked.version
               /\ submission'[d].row.key = submission'[d].asked.key
               /\ submission'[d].row.evidence =
                    Min({Window, Cardinality(Of(submission'[d].row.version))}) + 1
               /\ submission'[d].row.next
                    <= Cardinality(Of(submission'[d].row.version)) + 1
    <3>1. CASE d = c
      BY <1>2, <2>1, <3>1
    <3>2. CASE d # c
      <4>1. submission'[d] = submission[d] /\ submission[d].st = "graded"
        BY <1>2, <2>1, <3>2
      <4> QED
        BY <4>1 DEF QbInv, LocksInv
    <3> QED
      BY <3>1, <3>2
  <2>2. \A d, e \in Submissions :
          /\ submission'[d].st \in {"locked", "graded"}
          /\ submission'[e].st \in {"locked", "graded"}
          /\ submission'[d].asked.version = submission'[e].asked.version
          => d = e
    <3> SUFFICES ASSUME NEW d \in Submissions, NEW e \in Submissions,
                        submission'[d].st \in {"locked", "graded"},
                        submission'[e].st \in {"locked", "graded"},
                        submission'[d].asked.version = submission'[e].asked.version,
                        d # e
                 PROVE  FALSE
      OBVIOUS
    <3>1. CASE d # c /\ e # c
      BY <1>2, <3>1 DEF QbInv, LocksInv
    <3>2. CASE d = c \/ e = c
      BY <1>2, <3>2
    <3> QED
      BY <3>1, <3>2
  <2>3. \A v : Of(v)' = Of(v)
    BY DEF Of
  <2> QED
    BY <2>1, <2>2, <2>3, SMTT(30) DEF LocksInv
<1>5. PagesInv'
  BY DEF QbInv, PagesInv, RowsOf, Reviewable, Of, PastCursor
<1>6. AttemptsFormOneChain'
  <2>1. \A a : KeyRowsIn(assessed', a) = Stored(a)
    BY DEF KeyRowsIn, RowsIn, Of, Stored
  <2>2. ASSUME NEW d \in Submissions, submission'[d].st = "answered", NEW row,
               row = submission'[d].row
        PROVE  Stored(row) = {row}
    <3>1. CASE d = c
      BY <1>2, <2>2, <3>1
    <3>2. CASE d # c
      BY <1>2, <2>2, <3>2 DEF QbInv, AttemptsFormOneChain
    <3> QED
      BY <3>1, <3>2
  <2>3. \A d \in Submissions : submission'[d].st = "answered" =>
          KeyRowsIn(assessed', submission'[d].row) = {submission'[d].row}
    BY <2>1, <2>2
  <2> DEFINE Chained ==
        \A a \in assessed :
          LET before == {b \in Of(a.version) : b.serial < a.serial} IN
          /\ a.evidence = Min({Window, Cardinality(before)}) + 1
          /\ a.next <= Cardinality(before) + 1
      Replayed ==
        \A d \in Submissions : submission[d].st = "answered" =>
          Stored(submission[d].row) = {submission[d].row}
  <2>4. Chained
    BY DEF QbInv, AttemptsFormOneChain
  <2>5. Chained'
    BY <2>4 DEF Of
  <2>6. Replayed'
    BY <2>3 DEF Stored, Of, KeyRowsIn, RowsIn
  <2> HIDE DEF Chained, Replayed
  <2>7. AttemptsFormOneChain' <=> Chained' /\ Replayed'
    BY DEF AttemptsFormOneChain, Chained, Replayed
  <2> QED
    BY <2>5, <2>6, <2>7
<1> QED
  BY <1>1, <1>3, <1>4, <1>5, <1>6 DEF QbInv

LEMMA BeginSubmissionStep ==
  ASSUME QbInv, NEW c \in Submissions, BeginSubmission(c)
  PROVE  QbInv'
<1>1. PICK v \in bank, k \in QbKeys :
        submission' = [submission EXCEPT ![c] =
            [st |-> "begun", asked |-> [version |-> v, key |-> k, start |-> today]]]
  BY DEF BeginSubmission
<1> DEFINE s == [st |-> "begun", asked |-> [version |-> v, key |-> k, start |-> today]]
<1>2. s \in SubmissionState /\ s.st = "begun"
  BY DEF SubmissionState, Asked, QbInv, QbTypeOK
<1>3. submission[c].st = "new"
      /\ UNCHANGED <<bank, indexed, generation, assessed, today, pages>>
  BY DEF BeginSubmission
<1> HIDE DEF s
<1> QED
  BY <1>1, <1>2, <1>3, SubmissionMoves DEF s

LEMMA LockSubmissionStep ==
  ASSUME QbInv, NEW c \in Submissions, LockSubmission(c)
  PROVE  QbInv'
<1> DEFINE s == [st |-> "locked", asked |-> submission[c].asked]
<1>1. s \in SubmissionState /\ s.st = "locked" /\ s.asked = submission[c].asked
  BY DEF SubmissionState, QbInv, QbTypeOK, LockSubmission
<1>2. /\ submission[c].st = "begun"
      /\ submission' = [submission EXCEPT ![c] = s]
      /\ UNCHANGED <<bank, indexed, generation, assessed, today, pages>>
      /\ Holders(submission[c].asked.version) = {}
  BY DEF LockSubmission
<1> HIDE DEF s
<1>3. \A d \in Submissions \ {c} :
        submission[d].st \in {"locked", "graded"} =>
          submission[d].asked.version # s.asked.version
  BY <1>1, <1>2 DEF Holders
<1> QED
  BY <1>1, <1>2, <1>3, SubmissionMoves

LEMMA FailSubmissionStep ==
  ASSUME QbInv, NEW c \in Submissions, FailSubmission(c)
  PROVE  QbInv'
<1> DEFINE s == [st |-> "new"]
<1>1. s \in SubmissionState /\ s.st = "new"
  BY DEF SubmissionState
<1>2. /\ submission[c].st # "answered"
      /\ submission' = [submission EXCEPT ![c] = s]
      /\ UNCHANGED <<bank, indexed, generation, assessed, today, pages>>
  BY DEF FailSubmission
<1> HIDE DEF s
<1> QED
  BY <1>1, <1>2, SubmissionMoves

(* A key has one row at most. *)
LEMMA StoredOne ==
  ASSUME QbInv, NEW ask, NEW a \in Stored(ask)
  PROVE  Stored(a) = {a} /\ a \in AssessmentRow
<1>1. a \in assessed /\ a \in AssessmentRow
  BY DEF QbInv, QbTypeOK, Stored, Of
<1>2. \A b \in assessed : b.version = a.version /\ b.key = a.key => b = a
  BY <1>1 DEF QbInv, RowsInv
<1> QED
  BY <1>1, <1>2 DEF Stored, Of

LEMMA ReplaySubmissionStep ==
  ASSUME QbInv, NEW c \in Submissions, ReplaySubmission(c)
  PROVE  QbInv'
<1> DEFINE ask == submission[c].asked
<1>1. /\ submission[c].st = "locked" /\ ask \in Asked
      /\ UNCHANGED <<bank, indexed, generation, assessed, today, pages>>
  BY DEF ReplaySubmission, QbInv, QbTypeOK, SubmissionState
<1>2. ASSUME NEW a \in Stored(ask),
             submission' = [submission EXCEPT ![c] = [st |-> "answered", row |-> a]]
      PROVE  QbInv'
  <2> DEFINE s == [st |-> "answered", row |-> a]
  <2>1. Stored(a) = {a} /\ a \in AssessmentRow
    BY StoredOne
  <2>2. s \in SubmissionState /\ s.st = "answered" /\ s.row = a
    BY <2>1 DEF SubmissionState
  <2> HIDE DEF s
  <2> QED
    BY <1>1, <1>2, <2>1, <2>2, SubmissionMoves DEF s
<1>3. ASSUME submission' = [submission EXCEPT ![c] = [st |-> "new"]]
      PROVE  QbInv'
  <2> DEFINE s == [st |-> "new"]
  <2>1. s \in SubmissionState /\ s.st = "new"
    BY DEF SubmissionState
  <2> HIDE DEF s
  <2> QED
    BY <1>1, <1>3, <2>1, SubmissionMoves DEF s
<1> QED
  BY <1>2, <1>3 DEF ReplaySubmission

(* What is graded is the next link of the chain. *)
LEMMA GradeSubmissionStep ==
  ASSUME QbInv, NEW c \in Submissions, GradeSubmission(c)
  PROVE  QbInv'
<1>0. PICK score \in QbScores :
        submission' = [submission EXCEPT ![c] =
            [st |-> "graded", asked |-> submission[c].asked,
             row |-> Graded(c, submission[c].asked, score)]]
  BY DEF GradeSubmission
<1> DEFINE ask == submission[c].asked
           prior == Of(ask.version)
           n == Cardinality(prior)
           streak == IF prior = {} THEN 0 ELSE Newest(prior).next
           row == Graded(c, ask, score)
           s == [st |-> "graded", asked |-> ask, row |-> row]
<1>1. /\ submission[c].st = "locked" /\ ask \in Asked
      /\ UNCHANGED <<bank, indexed, generation, assessed, today, pages>>
      /\ submission' = [submission EXCEPT ![c] = s]
  BY <1>0 DEF GradeSubmission, QbInv, QbTypeOK, SubmissionState
<1>2. /\ prior \subseteq assessed /\ prior \subseteq AssessmentRow
      /\ IsFiniteSet(prior) /\ n \in Nat /\ Distinct(prior)
  BY VersionRows
<1>3. streak \in Nat /\ streak <= n
  <2>1. CASE prior = {}
    BY <1>2, <2>1
  <2>2. CASE prior # {}
    <3> DEFINE a == Newest(prior)
               before == {b \in Of(a.version) : b.serial < a.serial}
    <3>1. a \in prior
      BY <1>2, <2>2, NewestRow
    <3> HIDE DEF a
    <3>2. a \in assessed /\ a.version = ask.version /\ a.serial \in Nat /\ a.next \in Nat
      BY <1>2, <3>1 DEF Of, QbInv, RowsInv, AssessmentRow
    <3>3. before \subseteq prior \ {a}
      BY <3>2
    <3>4. IsFiniteSet(prior \ {a}) /\ Cardinality(prior \ {a}) = n - 1
      BY <1>2, <3>1, FS_RemoveElement
    <3>5. Cardinality(before) <= n - 1 /\ Cardinality(before) \in Nat
      BY <3>3, <3>4, FS_Subset, FS_CardinalityType
    <3>6. a.next <= Cardinality(before) + 1
      BY <3>2 DEF QbInv, AttemptsFormOneChain
    <3> QED
      BY <1>2, <2>2, <3>2, <3>5, <3>6 DEF a
  <2> QED
    BY <2>1, <2>2
<1>4. /\ ask.version \in QbVersions /\ ask.key \in QbKeys
      /\ score \in 0 .. FullScore /\ ask.start \in 0 .. LastDay
  BY <1>1, QuestionBankAssumption DEF Asked
<1>5. IntervalDays(score) \in Nat /\ today + IntervalDays(score) \in Nat
  <2>1. IntervalDays(score) \in {1, 3, 7}
    BY DEF IntervalDays
  <2> QED
    BY <2>1, QuestionBankAssumption DEF QbInv, QbTypeOK
<1>6. Min({Window, n}) \in Nat
  BY <1>2, WindowMin
<1>7. row = [id |-> c, version |-> ask.version, key |-> ask.key,
             score |-> score, created |-> ask.start,
             due |-> today + IntervalDays(score),
             evidence |-> Min({Window, n}) + 1,
             next |-> IF score = FullScore THEN streak + 1 ELSE 0,
             serial |-> 0]
  BY DEF Graded
<1> HIDE DEF n, streak
<1>8. row \in AssessmentRow
  BY <1>2, <1>3, <1>4, <1>5, <1>6, <1>7 DEF AssessmentRow
<1>9. /\ row.id = c /\ row.version = ask.version /\ row.key = ask.key
      /\ row.evidence = Min({Window, n}) + 1
      /\ row.next <= n + 1
  BY <1>2, <1>3, <1>7
<1> HIDE DEF row
<1>10. s \in SubmissionState /\ s.st = "graded" /\ s.asked = ask /\ s.row = row
  BY <1>1, <1>8 DEF SubmissionState
<1>11. \A d \in Submissions \ {c} :
         submission[d].st \in {"locked", "graded"} =>
           submission[d].asked.version # ask.version
  BY <1>1 DEF QbInv, LocksInv
<1> HIDE DEF s
<1>12. /\ \A d \in Submissions \ {c} :
            submission[d].st \in {"locked", "graded"} =>
              submission[d].asked.version # s.asked.version
       /\ s.row.id = c /\ s.row.version = s.asked.version
       /\ s.row.key = s.asked.key
       /\ s.row.evidence = Min({Window, Cardinality(Of(s.row.version))}) + 1
       /\ s.row.next <= Cardinality(Of(s.row.version)) + 1
  BY <1>9, <1>10, <1>11 DEF n
<1> QED
  BY <1>1, <1>10, <1>12, SubmissionMoves

(* The graded row is added: it is the next of its version, and what was     *)
(* listed and is still listed was listed before.                            *)
LEMMA NewRowStep ==
  ASSUME QbInv, NEW c \in Submissions, submission[c].st = "graded",
         NEW v, NEW key, NEW n,
         v = submission[c].asked.version, key = submission[c].asked.key,
         n = Cardinality(Of(v)),
         \A a \in assessed : ~(a.version = v /\ a.key = key),
         NEW row \in AssessmentRow,
         row.id = c, row.version = v, row.key = key, row.serial = n + 1,
         row.evidence = Min({Window, n}) + 1, row.next <= n + 1,
         assessed' = assessed \cup {row},
         submission' \in [Submissions -> SubmissionState],
         \A d \in Submissions \ {c} : submission'[d] = submission[d],
         submission'[c].st = "answered", submission'[c].row = row,
         UNCHANGED <<bank, indexed, generation, today, pages>>
  PROVE  QbInv'
<1>1. QbTypeOK'
  BY DEF QbInv, QbTypeOK
<1>2. /\ Of(v) \subseteq assessed /\ Of(v) \subseteq AssessmentRow
      /\ IsFiniteSet(Of(v)) /\ n \in Nat
      /\ \A b \in Of(v) : b.serial \in Nat /\ b.serial <= n
  <2>1. /\ Of(v) \subseteq assessed /\ Of(v) \subseteq AssessmentRow
        /\ IsFiniteSet(Of(v)) /\ n \in Nat
    BY VersionRows
  <2>2. \A b \in Of(v) : b \in assessed /\ b.version = v
    BY DEF Of
  <2>3. \A b \in assessed : b.serial \in Nat /\ b.serial <= Cardinality(Of(b.version))
    BY DEF QbInv, RowsInv
  <2> QED
    BY <2>1, <2>2, <2>3
<1>3. \A a \in assessed : a.id \in Submissions \ {c} /\ a # row
  BY RowFields DEF QbInv, RowsInv, QbTypeOK
<1>4. /\ RowsIn(assessed', v) = Of(v) \cup {row}
      /\ \A w : w # v => RowsIn(assessed', w) = Of(w)
  BY DEF Of, RowsIn
<1>5. Cardinality(RowsIn(assessed', v)) = n + 1 /\ IsFiniteSet(RowsIn(assessed', v))
  <2>1. row \notin Of(v)
    BY <1>2, <1>3
  <2>2. IsFiniteSet(Of(v) \cup {row}) /\ Cardinality(Of(v) \cup {row}) = n + 1
    BY <1>2, <2>1, FS_AddElement
  <2> QED
    BY <1>4, <2>2
<1>6. RowsInv'
  <2>1. IsFiniteSet(assessed')
    BY FS_AddElement DEF QbInv, RowsInv
  <2>2. \A a \in assessed' : submission'[a.id].st = "answered"
    BY <1>3 DEF QbInv, RowsInv
  <2>3. \A a, b \in assessed' : a.id = b.id => a = b
    BY <1>3 DEF QbInv, RowsInv, Distinct
  <2>4. \A a, b \in assessed' : a.version = b.version /\ a.key = b.key => a = b
    BY DEF QbInv, RowsInv
  <2>5. ASSUME NEW a \in assessed'
        PROVE  a.serial \in Nat /\ a.serial <= Cardinality(RowsIn(assessed', a.version))
    <3>1. CASE a = row
      BY <1>2, <1>5, <3>1
    <3>2. CASE a \in assessed /\ a.version = v
      <4>1. a.serial \in Nat /\ a.serial <= n
        BY <3>2 DEF QbInv, RowsInv
      <4> QED
        BY <1>2, <1>5, <3>2, <4>1
    <3>3. CASE a \in assessed /\ a.version # v
      <4>1. RowsIn(assessed', a.version) = Of(a.version)
        BY <1>4, <3>3
      <4> QED
        BY <3>3, <4>1 DEF QbInv, RowsInv
    <3> QED
      BY <3>1, <3>2, <3>3
  <2> QED
    BY <2>1, <2>2, <2>3, <2>4, <2>5 DEF RowsInv, Distinct, Of, RowsIn
<1>7. LocksInv'
  <2>1. \A d \in Submissions : submission'[d].st \in {"locked", "graded"} =>
          /\ d # c /\ submission'[d] = submission[d]
          /\ submission[d].asked.version # v
    BY DEF QbInv, LocksInv
  <2>2. \A d, e \in Submissions :
          /\ submission'[d].st \in {"locked", "graded"}
          /\ submission'[e].st \in {"locked", "graded"}
          /\ submission'[d].asked.version = submission'[e].asked.version
          => d = e
    BY <2>1 DEF QbInv, LocksInv
  <2>3. ASSUME NEW d \in Submissions, submission'[d].st = "graded", NEW r,
               r = submission'[d].row
        PROVE  /\ r.id = d
               /\ r.version = submission'[d].asked.version
               /\ r.key = submission'[d].asked.key
               /\ r.evidence = Min({Window, Cardinality(RowsIn(assessed', r.version))}) + 1
               /\ r.next <= Cardinality(RowsIn(assessed', r.version)) + 1
    <3>1. submission'[d] = submission[d] /\ submission[d].st = "graded"
          /\ submission[d].asked.version # v
      BY <2>1, <2>3
    <3>2. r = submission[d].row /\ r.version = submission[d].asked.version
      <4>1. r = submission[d].row
        BY <2>3, <3>1
      <4>2. submission[d].row.version = submission[d].asked.version
        BY <3>1 DEF QbInv, LocksInv
      <4> QED
        BY <4>1, <4>2
    <3>3. RowsIn(assessed', r.version) = Of(r.version)
      BY <1>4, <3>1, <3>2
    <3>4. /\ r.id = d /\ r.key = submission[d].asked.key
          /\ r.evidence = Min({Window, Cardinality(Of(r.version))}) + 1
          /\ r.next <= Cardinality(Of(r.version)) + 1
      BY <3>1, <3>2 DEF QbInv, LocksInv
    <3> QED
      BY <3>1, <3>2, <3>3, <3>4
  <2>4. \A d \in Submissions : submission'[d].st = "graded" =>
          LET r == submission'[d].row IN
          /\ r.id = d
          /\ r.version = submission'[d].asked.version
          /\ r.key = submission'[d].asked.key
          /\ r.evidence = Min({Window, Cardinality(RowsIn(assessed', r.version))}) + 1
          /\ r.next <= Cardinality(RowsIn(assessed', r.version)) + 1
    BY <2>3
  <2> QED
    BY <2>2, <2>4 DEF LocksInv, Of, RowsIn
<1>8. AttemptsFormOneChain'
  <2>1. ASSUME NEW a \in assessed', NEW before,
               before = {b \in RowsIn(assessed', a.version) : b.serial < a.serial}
        PROVE  /\ a.evidence = Min({Window, Cardinality(before)}) + 1
               /\ a.next <= Cardinality(before) + 1
    <3>1. CASE a = row
      <4>1. before = {b \in Of(v) \cup {row} : b.serial < n + 1}
        BY <1>4, <2>1, <3>1
      <4>2. before = Of(v)
        BY <1>2, <4>1
      <4> QED
        BY <3>1, <4>2
    <3>2. CASE a \in assessed
      <4>1. /\ a.serial \in Nat
            /\ a.version = v => a.serial <= n
        BY <3>2 DEF QbInv, RowsInv
      <4>2. ASSUME a.version = v
            PROVE  before = {b \in Of(v) : b.serial < a.serial}
        <5>1. before = {b \in Of(v) \cup {row} : b.serial < a.serial}
          BY <1>4, <2>1, <4>2
        <5> QED
          BY <1>2, <4>1, <4>2, <5>1
      <4>3. before = {b \in Of(a.version) : b.serial < a.serial}
        BY <1>4, <2>1, <4>2
      <4> QED
        BY <3>2, <4>3 DEF QbInv, AttemptsFormOneChain
    <3> QED
      BY <3>1, <3>2
  <2>2. \A q : /\ q.version = v /\ q.key = key =>
                     KeyRowsIn(assessed', q) = Stored(q) \cup {row}
               /\ ~(q.version = v /\ q.key = key) =>
                     KeyRowsIn(assessed', q) = Stored(q)
    BY DEF KeyRowsIn, RowsIn, Stored, Of
  <2>3. ASSUME NEW d \in Submissions, submission'[d].st = "answered"
        PROVE  KeyRowsIn(assessed', submission'[d].row) = {submission'[d].row}
    <3>1. CASE d = c
      <4>1. Stored(row) = {}
        BY DEF Stored, Of
      <4> QED
        BY <2>2, <3>1, <4>1
    <3>2. CASE d # c
      <4>1. submission'[d] = submission[d]
            /\ Stored(submission[d].row) = {submission[d].row}
        BY <2>3, <3>2 DEF QbInv, AttemptsFormOneChain
      <4>2. ~(submission[d].row.version = v /\ submission[d].row.key = key)
        BY <4>1 DEF Stored, Of
      <4> QED
        BY <2>2, <4>1, <4>2
    <3> QED
      BY <3>1, <3>2
  <2>4. \A a \in assessed' :
          LET before == {b \in RowsIn(assessed', a.version) : b.serial < a.serial} IN
          /\ a.evidence = Min({Window, Cardinality(before)}) + 1
          /\ a.next <= Cardinality(before) + 1
    BY <2>1
  <2> QED
    BY <2>3, <2>4 DEF AttemptsFormOneChain, Of, RowsIn, Stored, KeyRowsIn
<1>9. PagesInv'
  <2>1. ASSUME NEW a \in assessed, a = Newest(RowsIn(assessed', a.version))
        PROVE  a = Newest(Of(a.version))
    <3> DEFINE new == RowsIn(assessed', a.version)
               old == Of(a.version)
    <3>1. /\ old \subseteq AssessmentRow /\ IsFiniteSet(old) /\ Distinct(old)
          /\ a \in old /\ old \subseteq new
      BY <1>4, VersionRows DEF Of
    <3>2. /\ new \subseteq AssessmentRow /\ new \subseteq assessed'
          /\ IsFiniteSet(new)
      <4>1. CASE a.version = v
        BY <1>2, <1>4, <1>5, <4>1
      <4>2. CASE a.version # v
        BY <1>4, <3>1, <4>2 DEF RowsIn
      <4> QED
        BY <4>1, <4>2
    <3>3. Distinct(new) /\ new # {}
      BY <1>6, <3>1, <3>2 DEF RowsInv, Distinct
    <3> HIDE DEF new, old
    <3>4. Newest(new) = a
      BY <2>1 DEF new
    <3>5. \A b \in new \ {a} : Earlier(b, a)
      BY <3>2, <3>3, <3>4, NewestRow
    <3>6. Newest(old) = a
      BY <3>1, <3>5, NewestOnly
    <3> QED
      BY <3>6 DEF old
  <2>2. Reviewable' \cap assessed \subseteq Reviewable
    BY <2>1 DEF Reviewable, Of, RowsIn
  <2>3. \A list : RowsIn(assessed', list) \cap assessed \subseteq Of(list)
    BY <1>3, <1>4
  <2>4. pages.first \subseteq assessed =>
          RowsOf(pages.list)' \cap pages.first \subseteq RowsOf(pages.list)
    BY <2>2, <2>3 DEF RowsOf, Of, RowsIn
  <2> QED
    BY <2>4 DEF QbInv, PagesInv, PastCursor
<1> QED
  BY <1>1, <1>6, <1>7, <1>8, <1>9 DEF QbInv

LEMMA CommitSubmissionStep ==
  ASSUME QbInv, NEW c \in Submissions, CommitSubmission(c)
  PROVE  QbInv'
<1> DEFINE ask == submission[c].asked
           v == ask.version
           n == Cardinality(Of(v))
           old == submission[c].row
           row == [old EXCEPT !.serial = n + 1]
<1>1. /\ submission[c].st = "graded" /\ ask \in Asked /\ old \in AssessmentRow
      /\ UNCHANGED <<bank, indexed, generation, today, pages>>
  BY DEF CommitSubmission, QbInv, QbTypeOK, SubmissionState
<1>2. CASE Stored(ask) = {}
  <2>1. /\ assessed' = assessed \cup {row}
        /\ submission' = [submission EXCEPT ![c] =
                            [st |-> "answered", row |-> row]]
    BY <1>2 DEF CommitSubmission
  <2>2. /\ old.id = c /\ old.version = v /\ old.key = ask.key
        /\ old.evidence = Min({Window, n}) + 1
        /\ old.next <= n + 1
    BY <1>1 DEF QbInv, LocksInv
  <2>3. n \in Nat
    BY VersionRows
  <2>4. \A a \in assessed : ~(a.version = v /\ a.key = ask.key)
    BY <1>2 DEF Stored, Of
  <2> HIDE DEF n, old
  <2>5. row \in AssessmentRow /\ row.serial = n + 1
        /\ row.id = old.id /\ row.version = old.version /\ row.key = old.key
        /\ row.evidence = old.evidence /\ row.next = old.next
    BY <1>1, <2>3 DEF AssessmentRow
  <2> DEFINE s == [st |-> "answered", row |-> row]
  <2> HIDE DEF row
  <2>6. s \in SubmissionState /\ s.st = "answered" /\ s.row = row
    BY <2>5 DEF SubmissionState
  <2> HIDE DEF s
  <2>7. /\ submission' \in [Submissions -> SubmissionState]
        /\ submission'[c] = s
        /\ \A d \in Submissions \ {c} : submission'[d] = submission[d]
    BY <2>1, <2>6 DEF QbInv, QbTypeOK, s
  <2>8. /\ row.id = c /\ row.version = v /\ row.key = ask.key
        /\ row.evidence = Min({Window, n}) + 1 /\ row.next <= n + 1
    BY <2>2, <2>5
  <2>9. assessed' = assessed \cup {row}
    BY <2>1 DEF row
  <2>10. n = Cardinality(Of(v))
    BY DEF n
  <2>11. submission'[c].st = "answered" /\ submission'[c].row = row
    BY <2>6, <2>7
  <2> HIDE DEF row, n
  <2> QED
    BY <1>1, <2>4, <2>5, <2>7, <2>8, <2>9, <2>10, <2>11, NewRowStep
<1>3. CASE Stored(ask) # {}
  <2>1. PICK a \in Stored(ask) :
          submission' = [submission EXCEPT ![c] = [st |-> "answered", row |-> a]]
    BY <1>3 DEF CommitSubmission
  <2>2. assessed' = assessed
    BY <1>3 DEF CommitSubmission
  <2> DEFINE s == [st |-> "answered", row |-> a]
  <2>3. Stored(a) = {a} /\ a \in AssessmentRow
    BY StoredOne
  <2>4. s \in SubmissionState /\ s.st = "answered" /\ s.row = a
    BY <2>3 DEF SubmissionState
  <2> HIDE DEF s
  <2> QED
    BY <1>1, <2>1, <2>2, <2>3, <2>4, SubmissionMoves DEF s
<1> QED
  BY <1>2, <1>3

-----------------------------------------------------------------------------
(* Pages                                                                   *)

LEMMA ListedRows ==
  ASSUME QbInv, NEW list
  PROVE  RowsOf(list) \subseteq assessed
BY DEF RowsOf, Reviewable, Of

(* A page of rows that were not shown, and are after all that were. *)
LEMMA ShowsStep ==
  ASSUME QbInv, NEW list \in {"reviews"} \cup QbVersions, NEW rows, NEW shown, NEW first,
         rows \subseteq RowsOf(list), rows # {},
         shown \subseteq assessed, first \subseteq assessed,
         \A a \in shown : \A b \in rows : ListedBefore(list, a, b),
         \A a \in first \cap RowsOf(list) : a \in shown \/ a \in rows,
         NEW repeated, repeated = FALSE,
         pages' = Shows(list, rows, shown, first, repeated),
         UNCHANGED <<bank, indexed, generation, assessed, submission, today>>
  PROVE  QbInv'
<1> DEFINE page == PageOf(list, rows)
           last == CHOOSE a \in page : \A b \in page \ {a} : ListedBefore(list, b, a)
<1>1. /\ assessed \subseteq AssessmentRow /\ IsFiniteSet(assessed) /\ Distinct(assessed)
      /\ rows \subseteq assessed
  BY ListedRows DEF QbInv, QbTypeOK, RowsInv
<1>2. rows \subseteq AssessmentRow /\ IsFiniteSet(rows) /\ Distinct(rows)
  BY <1>1, FS_Subset DEF Distinct
<1>3. /\ page \subseteq rows /\ last \in page
      /\ \A b \in page \ {last} : ListedBefore(list, b, last)
      /\ \A a \in rows \ page : ListedBefore(list, last, a)
  BY <1>2, PageBegins
<1>4. shown \cap page = {}
  BY <1>1, <1>3, ListOrder
<1> DEFINE st == IF rows = page THEN "done" ELSE "reading"
           seen == shown \cup page
<1>5. pages' = [st |-> st, list |-> list, shown |-> seen, first |-> first, last |-> last,
                repeated |-> FALSE]
  <2>1. (repeated \/ shown \cap page # {}) = FALSE
    BY <1>4
  <2> QED
    BY <2>1 DEF Shows
<1> HIDE DEF page, last, st, seen
<1>6. /\ pages'.st = st
      /\ pages'.list = list /\ pages'.shown = seen
      /\ pages'.first = first /\ pages'.last = last
      /\ pages'.repeated = FALSE
  <2>1. pages'.st = st
    BY <1>5
  <2>2. pages'.list = list
    BY <1>5
  <2>3. pages'.shown = seen
    BY <1>5
  <2>4. pages'.first = first /\ pages'.last = last
    BY <1>5
  <2>5. pages'.repeated = FALSE
    BY <1>5
  <2> QED
    BY <2>1, <2>2, <2>3, <2>4, <2>5
<1>7. pages' \in PageState
  <2>1. /\ st \in {"reading", "done"} /\ seen \in SUBSET AssessmentRow
        /\ first \in SUBSET AssessmentRow /\ last \in AssessmentRow
    BY <1>1, <1>3 DEF st, seen
  <2> QED
    BY <1>5, <2>1 DEF PageState
<1>8. QbTypeOK'
  BY <1>7 DEF QbInv, QbTypeOK
<1>9. RowsInv' /\ LocksInv' /\ AttemptsFormOneChain'
  BY RowsQuiet
<1>10. \A a \in seen : a = last \/ ListedBefore(list, a, last)
  BY <1>3 DEF seen
<1>11. \A a \in first \cap RowsOf(list) :
         \/ a \in seen
         \/ pages'.st = "reading" /\ ListedBefore(list, last, a)
  BY <1>3, <1>6 DEF st, seen
<1>12. RowsOf(list)' = RowsOf(list)
  BY DEF RowsOf, Reviewable, Of
<1>13. PagesInv'
  <2>1. RowsOf(pages.list)' = RowsOf(list)
    BY <1>6, <1>12 DEF RowsOf, Reviewable, Of
  <2>2. seen \subseteq assessed /\ last \in assessed
    BY <1>1, <1>3 DEF seen
  <2> QED
    BY <1>6, <1>10, <1>11, <2>1, <2>2 DEF PagesInv, PastCursor
<1> QED
  BY <1>8, <1>9, <1>13 DEF QbInv

LEMMA FirstPageStep ==
  ASSUME QbInv, FirstPage
  PROVE  QbInv'
<1>1. PICK list \in {"reviews"} \cup QbVersions, repeated \in {FALSE} :
        /\ RowsOf(list) # {}
        /\ pages' = Shows(list, RowsOf(list), {}, RowsOf(list), repeated)
        /\ UNCHANGED <<bank, indexed, generation, assessed, submission, today>>
  BY DEF FirstPage
<1>2. RowsOf(list) \subseteq assessed
  BY ListedRows
<1> DEFINE rows == RowsOf(list)
<1>3. /\ rows \subseteq RowsOf(list) /\ rows # {} /\ rows \subseteq assessed
      /\ \A a \in rows \cap RowsOf(list) : a \in {} \/ a \in rows
      /\ \A a \in {} : \A b \in rows : ListedBefore(list, a, b)
      /\ {} \subseteq assessed
  BY <1>1, <1>2
<1>4. pages' = Shows(list, rows, {}, rows, repeated)
  BY <1>1
<1> HIDE DEF rows
<1> QED
  BY <1>1, <1>3, <1>4, ShowsStep

LEMMA NextPageStep ==
  ASSUME QbInv, NextPage
  PROVE  QbInv'
<1> DEFINE list == pages.list
           rows == {a \in RowsOf(list) : PastCursor(list, a, pages.last)}
<1>1. /\ pages.st = "reading"
      /\ UNCHANGED <<bank, indexed, generation, assessed, submission, today>>
      /\ rows = {} => pages' = [pages EXCEPT !.st = "done"]
      /\ rows # {} => pages' = Shows(list, rows, pages.shown, pages.first, pages.repeated)
  BY DEF NextPage
<1>2. /\ list \in {"reviews"} \cup QbVersions /\ pages.repeated \in BOOLEAN
      /\ pages \in [st : {"reading", "done"}, list : {"reviews"} \cup QbVersions,
                    shown : SUBSET AssessmentRow,
                    first : SUBSET AssessmentRow, last : AssessmentRow,
                    repeated : BOOLEAN]
  BY <1>1 DEF QbInv, QbTypeOK, PageState
<1>3. /\ ~pages.repeated
      /\ pages.first \subseteq assessed /\ pages.shown \subseteq assessed
      /\ \A a \in pages.shown :
           a = pages.last \/ ListedBefore(list, a, pages.last)
      /\ \A a \in pages.first \cap RowsOf(list) :
           a \in pages.shown \/ a \in rows
  BY <1>1 DEF QbInv, PagesInv
<1>4. CASE rows = {}
  <2>1. pages' = [pages EXCEPT !.st = "done"]
    BY <1>1, <1>4
  <2>2. pages' \in PageState
    BY <1>2, <2>1 DEF PageState
  <2>3. /\ pages'.st = "done" /\ pages'.list = list /\ pages'.shown = pages.shown
        /\ pages'.first = pages.first /\ pages'.last = pages.last
        /\ pages'.repeated = pages.repeated
    BY <1>2, <2>1
  <2>4. QbTypeOK'
    BY <1>1, <2>2 DEF QbInv, QbTypeOK
  <2>5. RowsInv' /\ LocksInv' /\ AttemptsFormOneChain'
    BY <1>1, RowsQuiet
  <2>6. RowsOf(pages.list)' = RowsOf(list)
    BY <1>1, <2>3 DEF RowsOf, Reviewable, Of
  <2>7. \A a \in pages.first \cap RowsOf(list) : a \in pages.shown
    BY <1>3, <1>4
  <2> HIDE DEF rows
  <2>8. PagesInv'
    BY <1>1, <2>3, <2>6, <2>7 DEF QbInv, PagesInv
  <2> QED
    BY <2>4, <2>5, <2>8 DEF QbInv
<1>5. CASE rows # {}
  <2>1. pages.repeated = FALSE
    BY <1>2, <1>3
  <2>2. pages' = Shows(list, rows, pages.shown, pages.first, pages.repeated)
    BY <1>1, <1>5
  <2>3. rows \subseteq RowsOf(list) /\ RowsOf(list) \subseteq AssessmentRow
    BY ListedRows DEF QbInv, QbTypeOK
  <2>4. \A a \in pages.shown : \A b \in rows : ListedBefore(list, a, b)
    <3> SUFFICES ASSUME NEW a \in pages.shown, NEW b \in rows
                 PROVE  ListedBefore(list, a, b)
      OBVIOUS
    <3>1. ListedBefore(list, pages.last, b)
      BY DEF PastCursor
    <3>2. a = pages.last \/ ListedBefore(list, a, pages.last)
      BY <1>3
    <3>3. a \in AssessmentRow /\ b \in AssessmentRow /\ pages.last \in AssessmentRow
      BY <1>2, <2>3
    <3> HIDE DEF list, rows
    <3> QED
      BY <3>1, <3>2, <3>3, ListOrder
  <2> HIDE DEF rows
  <2> QED
    BY <1>1, <1>2, <1>3, <1>5, <2>1, <2>2, <2>3, <2>4, ShowsStep
<1> QED
  BY <1>4, <1>5

-----------------------------------------------------------------------------
LEMMA QbQuietSteps ==
  ASSUME QbInv, \/ UNCHANGED qbVars \/ IndexActivates \/ AskGeneration
                \/ QueueGeneration \/ GenerateQuestions \/ DayPasses
                \/ \E v \in QbVersions : CreateQuestion(v)
  PROVE  QbInv'
<1>1. UNCHANGED <<assessed, submission, pages>>
  BY DEF qbVars, IndexActivates, AskGeneration, QueueGeneration, GenerateQuestions,
     DayPasses, CreateQuestion
<1>2. bank' \subseteq QbVersions
  BY DEF QbInv, QbTypeOK, qbVars, IndexActivates, AskGeneration, QueueGeneration,
     GenerateQuestions, Drafts, DayPasses, CreateQuestion
<1>3. indexed' \in BOOLEAN
  BY DEF QbInv, QbTypeOK, qbVars, IndexActivates, AskGeneration, QueueGeneration,
     GenerateQuestions, DayPasses, CreateQuestion
<1>4. today' \in 0 .. LastDay
  BY QuestionBankAssumption
     DEF QbInv, QbTypeOK, qbVars, IndexActivates, AskGeneration, QueueGeneration,
     GenerateQuestions, DayPasses, CreateQuestion
<1>5. /\ generation' \in [asking : Nat, queued : Nat]
      /\ generation'.asking + generation'.queued <= MaxGenerations
  BY QuestionBankAssumption
     DEF QbInv, QbTypeOK, qbVars, IndexActivates, AskGeneration, QueueGeneration,
     GenerateQuestions, DayPasses, CreateQuestion
<1>6. QbTypeOK'
  BY <1>1, <1>2, <1>3, <1>4, <1>5 DEF QbInv, QbTypeOK
<1> QED
  BY <1>1, <1>6, QbQuiet

LEMMA QbNextInv ==
  ASSUME QbInv, [QbNext]_qbVars
  PROVE  QbInv'
BY QbQuietSteps, FirstPageStep, NextPageStep, BeginSubmissionStep, LockSubmissionStep,
   ReplaySubmissionStep, GradeSubmissionStep, CommitSubmissionStep, FailSubmissionStep
   DEF QbNext

(* The assessments of a version are one chain, and a list that is read page *)
(* by page has shown all of it that it should, in every reachable state.    *)
THEOREM QbInvariant == QbSpec => []QbInv
<1>1. QbInv /\ [QbNext]_qbVars => QbInv'
  BY QbNextInv
<1> QED
  BY InitQbInv, <1>1, PTL DEF QbSpec

(* Questions, assessments, submissions and pages keep their types, for any  *)
(* number of learners' submissions, versions and keys.                      *)
THEOREM QbTypeCorrect == QbSpec => []QbTypeOK
<1>1. QbInv => QbTypeOK
  BY DEF QbInv
<1> QED
  BY <1>1, QbInvariant, PTL

(* record_attempt chains the assessments of a version, each to all that were *)
(* committed before it, and answers a key with its one assessment, however   *)
(* many submissions overlap and whatever the window.                         *)
THEOREM AttemptsAreOneChain == QbSpec => []AttemptsFormOneChain
<1>1. QbInv => AttemptsFormOneChain
  BY DEF QbInv
<1> QED
  BY <1>1, QbInvariant, PTL

(* A client that reads a list page by page misses nothing that is still      *)
(* listed and sees nothing twice, whatever is submitted between its pages    *)
(* and whatever the size of a page.                                          *)
THEOREM PagesAreComplete == QbSpec => []PagesShowEveryRow
<1>1. QbInv => PagesShowEveryRow
  BY DEF QbInv, PagesInv, PagesShowEveryRow
<1> QED
  BY <1>1, QbInvariant, PTL

-----------------------------------------------------------------------------
(* Classrooms *)

Holding(c) == room[c].op = "join" /\ room[c].st \in {"locked", "inserted"}

(* A request that holds an invite may still use it, and holds it alone. *)
InviteLocks ==
    \A c \in RoomCalls : Holding(c) =>
        /\ invite[room[c].by].uses < invite[room[c].by].max
        /\ \A d \in RoomCalls \ {c} : Holding(d) => room[d].by # room[c].by

(* A membership that is inserted is the only one of its user. *)
InsertsAreNew ==
    \A c \in RoomCalls : Holding(c) /\ room[c].st = "inserted" =>
        /\ role[room[c].user] = "none"
        /\ \A d \in RoomCalls \ {c} :
             Holding(d) /\ room[d].st = "inserted" => room[d].user # room[c].user

(* Membership rows are numbered per user, and counted once. *)
RowsAreNumbered ==
    \A i \in Invites :
        /\ IsFiniteSet(admitted[i])
        /\ \A u \in People, n \in Nat : <<u, n>> \in admitted[i] => n <= rowOf[u]

(* An invite that is being made is of no use yet, and made once. *)
InvitesBegin ==
    /\ \A i \in Invites : invite[i].state = "absent" =>
         invite[i].uses = 0 /\ invite[i].max = 0 /\ admitted[i] = {}
    /\ \A c \in RoomCalls : room[c].op = "join" => invite[room[c].by].state # "absent"
    /\ \A c \in RoomCalls : room[c].op = "invite" =>
         /\ invite[room[c].by].state = "absent"
         /\ \A d \in RoomCalls \ {c} :
              room[d].op = "invite" => room[d].by # room[c].by

RoomInv ==
    /\ RoomTypeOK
    /\ InviteLocks
    /\ InsertsAreNew
    /\ RowsAreNumbered
    /\ InvitesBegin
    /\ InvitesAdmitWithinLimit
    /\ WritesKeepTheirRole

-----------------------------------------------------------------------------
(* The fields of a transaction, by its kind. *)
LEMMA CallFields ==
  ASSUME NEW w \in RoomState
  PROVE  /\ w.op \in {"idle", "join", "write", "update", "invite"}
         /\ w.op = "join" => /\ w.st \in {"asked", "locked", "inserted"}
                             /\ w.user \in People /\ w.by \in Invites
                             /\ \A st \in {"asked", "locked", "inserted"} :
                                  /\ [w EXCEPT !.st = st] \in RoomState
                                  /\ [w EXCEPT !.st = st].op = "join"
                                  /\ [w EXCEPT !.st = st].st = st
                                  /\ [w EXCEPT !.st = st].by = w.by
                                  /\ [w EXCEPT !.st = st].user = w.user
         /\ w.op = "write" => w.user \in People
         /\ w.op = "update" => /\ w.user \in Members /\ w.row \in Nat
                               /\ w.to \in {"teacher", "student", "none"}
         /\ w.op = "invite" => /\ w.st \in {"allowed", "inserted"}
                               /\ w.by \in Invites /\ w.max \in UseLimits
                               /\ [w EXCEPT !.st = "inserted"] \in RoomState
                               /\ [w EXCEPT !.st = "inserted"].op = "invite"
                               /\ [w EXCEPT !.st = "inserted"].by = w.by
BY DEF RoomState

LEMMA RoomInitInv == RoomInit => RoomInv
<1> SUFFICES ASSUME RoomInit PROVE RoomInv
  OBVIOUS
<1>1. RoomTypeOK
  BY ClassroomsAssumption
     DEF RoomInit, RoomTypeOK, People, Roles, InviteRow, NoInvite, RoomState, Idling
<1>2. InviteLocks /\ InsertsAreNew /\ InvitesBegin /\ WritesKeepTheirRole
  BY DEF RoomInit, InviteLocks, InsertsAreNew, InvitesBegin, WritesKeepTheirRole,
     Writing, Holding, NoInvite, Idling
<1>3. RowsAreNumbered
  BY FS_EmptySet DEF RoomInit, RowsAreNumbered
<1>4. InvitesAdmitWithinLimit
  BY FS_EmptySet, ClassroomsAssumption DEF RoomInit, InvitesAdmitWithinLimit, NoInvite
<1> QED
  BY <1>1, <1>2, <1>3, <1>4 DEF RoomInv

(* Whom and what the transactions under way are about. *)
LEMMA RoomFields ==
  ASSUME room \in [RoomCalls -> RoomState], NEW d \in RoomCalls
  PROVE  /\ room[d].op = "join" => room[d].user \in People /\ room[d].by \in Invites
         /\ room[d].op = "write" => room[d].user \in People
         /\ room[d].op = "invite" => room[d].by \in Invites
<1>1. room[d] \in RoomState
  OBVIOUS
<1> QED
  BY <1>1, CallFields

(* A transaction may become v while no row changes, if what it then holds is *)
(* still in use, new, or held alone. *)
LEMMA RoomChangeInv ==
  ASSUME RoomInv, NEW c \in RoomCalls, NEW v \in RoomState,
         UNCHANGED <<role, rowOf, invite, admitted>>,
         room' = [room EXCEPT ![c] = v],
         v.op = "join" => invite[v.by].state # "absent",
         v.op = "join" /\ v.st \in {"locked", "inserted"} =>
           /\ invite[v.by].uses < invite[v.by].max
           /\ \A d \in RoomCalls \ {c} : Holding(d) => room[d].by # v.by,
         v.op = "join" /\ v.st = "inserted" =>
           /\ role[v.user] = "none"
           /\ \A d \in RoomCalls \ {c} :
                Holding(d) /\ room[d].st = "inserted" => room[d].user # v.user,
         v.op = "invite" =>
           /\ invite[v.by].state = "absent"
           /\ \A d \in RoomCalls \ {c} : room[d].op = "invite" => room[d].by # v.by,
         v.op = "write" => role[v.user] \in Writers
  PROVE  RoomInv'
<1> USE DEF RoomInv
<1>0. room \in [RoomCalls -> RoomState]
  BY DEF RoomTypeOK
<1>1. room'[c] = v /\ \A d \in RoomCalls \ {c} : room'[d] = room[d]
  BY <1>0
<1>2. RoomTypeOK'
  BY <1>0 DEF RoomTypeOK
<1>3. InviteLocks'
  BY <1>1 DEF InviteLocks, Holding
<1>4. InsertsAreNew'
  BY <1>1 DEF InsertsAreNew, Holding
<1>5. RowsAreNumbered' /\ InvitesAdmitWithinLimit'
  BY DEF RowsAreNumbered, InvitesAdmitWithinLimit
<1>6. InvitesBegin'
  BY <1>1 DEF InvitesBegin
<1>7. WritesKeepTheirRole'
  BY <1>1 DEF WritesKeepTheirRole, Writing
<1> QED
  BY <1>2, <1>3, <1>4, <1>5, <1>6, <1>7

(* A request that ends, or is refused, leaves the rows and the others alone. *)
LEMMA EndsInv ==
  ASSUME RoomInv, NEW c \in RoomCalls, Ends(c), UNCHANGED <<role, rowOf, invite, admitted>>
  PROVE  RoomInv'
<1>1. Idling \in RoomState /\ Idling.op = "idle"
  BY DEF Idling, RoomState
<1> QED
  BY <1>1, RoomChangeInv DEF Ends, Becomes

LEMMA AskJoinInv == ASSUME RoomInv, NEW c \in RoomCalls, AskJoin(c) PROVE RoomInv'
<1>1. PICK u \in People, i \in Invites :
        /\ invite[i].state # "absent"
        /\ Becomes(c, [op |-> "join", st |-> "asked", user |-> u, by |-> i])
  BY DEF AskJoin
<1> DEFINE v == [op |-> "join", st |-> "asked", user |-> u, by |-> i]
<1>2. v \in RoomState
  BY DEF RoomState
<1> QED
  BY <1>1, <1>2, RoomChangeInv DEF AskJoin, Becomes

LEMMA LockInviteInv == ASSUME RoomInv, NEW c \in RoomCalls, LockInvite(c) PROVE RoomInv'
<1> DEFINE v == [room[c] EXCEPT !.st = "locked"]
<1>0. room[c] \in RoomState
  BY DEF RoomInv, RoomTypeOK
<1>1. /\ room[c].op = "join" /\ ~InviteHeld(room[c].by)
      /\ UNCHANGED <<role, rowOf, invite, admitted>>
  BY DEF LockInvite
<1>2. CASE Ends(c)
  BY <1>1, <1>2, EndsInv
<1>3. CASE ~Ends(c)
  <2>1. /\ invite[room[c].by].uses < invite[room[c].by].max
        /\ room' = [room EXCEPT ![c] = v]
    BY <1>3 DEF LockInvite, Becomes
  <2>2. /\ v \in RoomState /\ v.op = "join" /\ v.st = "locked"
        /\ v.by = room[c].by
    BY <1>0, <1>1, CallFields
  <2>3. \A d \in RoomCalls \ {c} : Holding(d) => room[d].by # v.by
    BY <1>1, <2>2 DEF InviteHeld, Holding
  <2>4. invite[v.by].state # "absent"
    BY <1>1, <2>2 DEF RoomInv, InvitesBegin
  <2> HIDE DEF v
  <2> QED
    BY <1>1, <2>1, <2>2, <2>3, <2>4, RoomChangeInv
<1> QED
  BY <1>2, <1>3

LEMMA InsertMembershipInv ==
  ASSUME RoomInv, NEW c \in RoomCalls, InsertMembership(c) PROVE RoomInv'
<1> DEFINE v == [room[c] EXCEPT !.st = "inserted"]
<1>0. room[c] \in RoomState
  BY DEF RoomInv, RoomTypeOK
<1>1. /\ room[c].op = "join" /\ room[c].st = "locked"
      /\ UNCHANGED <<role, rowOf, invite, admitted>>
      /\ \A d \in RoomCalls \ {c} :
           room[d].op = "join" /\ room[d].st = "inserted" => room[d].user # room[c].user
  BY DEF InsertMembership
<1>2. CASE Ends(c)
  BY <1>1, <1>2, EndsInv
<1>3. CASE ~Ends(c)
  <2>1. /\ role[room[c].user] = "none"
        /\ room' = [room EXCEPT ![c] = v]
    BY <1>3 DEF InsertMembership, Becomes
  <2>2. /\ v \in RoomState /\ v.op = "join" /\ v.st = "inserted"
        /\ v.by = room[c].by /\ v.user = room[c].user
    BY <1>0, <1>1, CallFields
  <2>3. /\ invite[v.by].uses < invite[v.by].max
        /\ \A d \in RoomCalls \ {c} : Holding(d) => room[d].by # v.by
    BY <1>1, <2>2 DEF RoomInv, InviteLocks, Holding
  <2>4. invite[v.by].state # "absent"
    BY <1>1, <2>2 DEF RoomInv, InvitesBegin
  <2>5. \A d \in RoomCalls \ {c} :
          Holding(d) /\ room[d].st = "inserted" => room[d].user # v.user
    BY <1>1, <2>2 DEF Holding
  <2> HIDE DEF v
  <2> QED
    BY <1>1, <2>1, <2>2, <2>3, <2>4, <2>5, RoomChangeInv
<1> QED
  BY <1>2, <1>3

LEMMA BeginWriteInv == ASSUME RoomInv, NEW c \in RoomCalls, BeginWrite(c) PROVE RoomInv'
<1>1. PICK u \in People : /\ role[u] \in Writers
                          /\ Becomes(c, [op |-> "write", user |-> u])
  BY DEF BeginWrite
<1>2. [op |-> "write", user |-> u] \in RoomState
  BY DEF RoomState
<1> QED
  BY <1>1, <1>2, RoomChangeInv DEF BeginWrite, Becomes

LEMMA ReadMemberInv == ASSUME RoomInv, NEW c \in RoomCalls, ReadMember(c) PROVE RoomInv'
<1>1. PICK u \in Members, to \in {"teacher", "student", "none"} :
        Becomes(c, [op |-> "update", user |-> u, row |-> rowOf[u], to |-> to])
  BY DEF ReadMember
<1>2. rowOf[u] \in Nat
  BY DEF RoomInv, RoomTypeOK, People
<1>3. [op |-> "update", user |-> u, row |-> rowOf[u], to |-> to] \in RoomState
  BY <1>2 DEF RoomState
<1> QED
  BY <1>1, <1>3, RoomChangeInv DEF ReadMember, Becomes

LEMMA AskInviteInv == ASSUME RoomInv, NEW c \in RoomCalls, AskInvite(c) PROVE RoomInv'
<1>1. PICK i \in Invites, m \in UseLimits :
        /\ invite[i].state = "absent"
        /\ \A d \in RoomCalls : room[d].op = "invite" => room[d].by # i
        /\ Becomes(c, [op |-> "invite", st |-> "allowed", by |-> i, max |-> m])
  BY DEF AskInvite
<1>2. [op |-> "invite", st |-> "allowed", by |-> i, max |-> m] \in RoomState
  BY DEF RoomState
<1> QED
  BY <1>1, <1>2, RoomChangeInv DEF AskInvite, Becomes

LEMMA InsertInviteInv == ASSUME RoomInv, NEW c \in RoomCalls, InsertInvite(c) PROVE RoomInv'
<1> DEFINE v == [room[c] EXCEPT !.st = "inserted"]
<1>1. /\ room[c] \in RoomState /\ room[c].op = "invite"
      /\ UNCHANGED <<role, rowOf, invite, admitted>>
      /\ room' = [room EXCEPT ![c] = v]
  BY DEF InsertInvite, Becomes, RoomInv, RoomTypeOK
<1>2. v \in RoomState /\ v.op = "invite" /\ v.by = room[c].by
  BY <1>1, CallFields
<1>3. /\ invite[v.by].state = "absent"
      /\ \A d \in RoomCalls \ {c} : room[d].op = "invite" => room[d].by # v.by
  BY <1>1, <1>2 DEF RoomInv, InvitesBegin
<1> HIDE DEF v
<1> QED
  BY <1>1, <1>2, <1>3, RoomChangeInv

(* The member's row is new, so the invite has admitted one more than before. *)
LEMMA CommitJoinInv == ASSUME RoomInv, NEW c \in RoomCalls, CommitJoin(c) PROVE RoomInv'
<1> DEFINE u == room[c].user
           i == room[c].by
<1> USE DEF RoomInv
<1>0. /\ room[c].op = "join" /\ room[c].st = "inserted" /\ Holding(c)
      /\ room[c] \in RoomState /\ room \in [RoomCalls -> RoomState]
      /\ role \in [People -> Roles \cup {"none"}]
      /\ rowOf \in [People -> Nat] /\ invite \in [Invites -> InviteRow]
      /\ admitted \in [Invites -> SUBSET (People \X Nat)]
  BY DEF CommitJoin, RoomTypeOK, Holding
<1>1. u \in People /\ i \in Invites
  BY <1>0, CallFields
<1>2. /\ role[u] = "none" /\ invite[i].uses < invite[i].max
      /\ invite[i].state # "absent"
      /\ \A d \in RoomCalls \ {c} : Holding(d) =>
           /\ room[d].by # i
           /\ room[d].st = "inserted" => room[d].user # u
  BY <1>0 DEF InviteLocks, InsertsAreNew, InvitesBegin
<1>3. /\ room'[c].op = "idle" /\ \A d \in RoomCalls \ {c} : room'[d] = room[d]
      /\ room' \in [RoomCalls -> RoomState]
  BY <1>0 DEF CommitJoin, Ends, Becomes, Idling, RoomState
<1>4. /\ role' = [role EXCEPT ![u] = "student"]
      /\ rowOf' = [rowOf EXCEPT ![u] = @ + 1]
      /\ invite' = [invite EXCEPT ![i] =
                      [state |-> @.state, uses |-> @.uses + 1, max |-> @.max]]
      /\ admitted' = [admitted EXCEPT ![i] = @ \cup {<<u, rowOf[u] + 1>>}]
  BY DEF CommitJoin
<1> HIDE DEF u, i
<1>5. \A j \in Invites \ {i} : invite'[j] = invite[j] /\ admitted'[j] = admitted[j]
  BY <1>0, <1>4
<1>6. /\ invite[i] \in InviteRow
      /\ invite'[i] = [state |-> invite[i].state, uses |-> invite[i].uses + 1,
                       max |-> invite[i].max]
      /\ admitted'[i] = admitted[i] \cup {<<u, rowOf[u] + 1>>}
      /\ rowOf[u] \in Nat
  BY <1>0, <1>1, <1>4
<1>7. RoomTypeOK'
  <2>1. role' \in [People -> Roles \cup {"none"}] /\ rowOf' \in [People -> Nat]
    BY <1>0, <1>1, <1>4, <1>6 DEF Roles
  <2>2. invite' \in [Invites -> InviteRow]
    BY <1>0, <1>1, <1>4, <1>6 DEF InviteRow
  <2>3. admitted' \in [Invites -> SUBSET (People \X Nat)]
    BY <1>0, <1>1, <1>4, <1>6
  <2> QED
    BY <1>3, <2>1, <2>2, <2>3 DEF RoomTypeOK
<1>8. InviteLocks'
  <2> SUFFICES ASSUME NEW d \in RoomCalls, Holding(d)'
               PROVE  /\ invite'[room'[d].by].uses < invite'[room'[d].by].max
                      /\ \A e \in RoomCalls \ {d} : Holding(e)' => room'[e].by # room'[d].by
    BY DEF InviteLocks
  <2>1. d # c /\ Holding(d) /\ room'[d] = room[d] /\ room[d].by # i
    BY <1>2, <1>3 DEF Holding
  <2>2. room[d].by \in Invites
    BY <1>0, <2>1, RoomFields DEF Holding
  <2> QED
    BY <1>3, <1>5, <2>1, <2>2 DEF InviteLocks, Holding
<1>9. InsertsAreNew'
  <2> SUFFICES ASSUME NEW d \in RoomCalls, Holding(d)', room'[d].st = "inserted"
               PROVE  /\ role'[room'[d].user] = "none"
                      /\ \A e \in RoomCalls \ {d} : Holding(e)' /\ room'[e].st = "inserted"
                           => room'[e].user # room'[d].user
    BY DEF InsertsAreNew
  <2>1. d # c /\ Holding(d) /\ room'[d] = room[d] /\ room[d].user # u
    BY <1>2, <1>3 DEF Holding
  <2>2. room[d].user \in People
    BY <1>0, <2>1, RoomFields DEF Holding
  <2>3. role'[room[d].user] = "none"
    BY <1>0, <1>3, <1>4, <2>1, <2>2 DEF InsertsAreNew
  <2>4. \A e \in RoomCalls \ {d} : Holding(e)' => e # c /\ Holding(e) /\ room'[e] = room[e]
    BY <1>3 DEF Holding
  <2> QED
    BY <1>3, <2>1, <2>3, <2>4 DEF InsertsAreNew
<1>10. RowsAreNumbered'
  <2>1. \A j \in Invites : IsFiniteSet(admitted'[j])
    <3>1. \A j \in Invites : IsFiniteSet(admitted[j])
      BY DEF RowsAreNumbered
    <3>2. IsFiniteSet(admitted[i] \cup {<<u, rowOf[u] + 1>>})
      BY <1>1, <3>1, FS_AddElement
    <3>3. IsFiniteSet(admitted'[i])
      BY <1>6, <3>2
    <3> QED
      BY <1>5, <3>1, <3>3
  <2>2. \A w \in People : rowOf[w] \in Nat /\ rowOf'[w] \in Nat /\ rowOf[w] <= rowOf'[w]
    BY <1>0, <1>1, <1>4
  <2>3. rowOf'[u] = rowOf[u] + 1
    BY <1>0, <1>1, <1>4
  <2>4. ASSUME NEW j \in Invites, NEW w \in People, NEW n \in Nat, <<w, n>> \in admitted'[j]
        PROVE  n <= rowOf'[w]
    <3>1. CASE <<w, n>> \in admitted[j]
      BY <2>2, <3>1 DEF RowsAreNumbered
    <3>2. CASE <<w, n>> \notin admitted[j]
      BY <1>5, <1>6, <2>3, <2>4, <3>2
    <3> QED
      BY <3>1, <3>2
  <2> QED
    BY <2>1, <2>4 DEF RowsAreNumbered
<1>11. InvitesBegin'
  <2>1. \A j \in Invites : (invite'[j].state = "absent") = (invite[j].state = "absent")
    BY <1>5, <1>6
  <2>2. \A j \in Invites : invite'[j].state = "absent" => j # i
    BY <1>2, <2>1
  <2>3. \A d \in RoomCalls : room'[d].op \in {"join", "invite"} =>
          /\ d # c /\ room'[d] = room[d] /\ room[d].by \in Invites
    BY <1>0, <1>3, RoomFields
  <2> QED
    BY <1>5, <2>1, <2>2, <2>3 DEF InvitesBegin
<1>12. InvitesAdmitWithinLimit'
  <2>1. <<u, rowOf[u] + 1>> \notin admitted[i]
    BY <1>1, <1>6 DEF RowsAreNumbered
  <2>2. Cardinality(admitted'[i]) = Cardinality(admitted[i]) + 1
    BY <1>1, <1>6, <2>1, FS_AddElement DEF RowsAreNumbered
  <2>3. /\ Cardinality(admitted'[i]) = invite'[i].uses
        /\ invite'[i].uses <= invite'[i].max
    BY <1>1, <1>2, <1>6, <2>2 DEF InvitesAdmitWithinLimit, InviteRow
  <2> QED
    BY <1>5, <2>3 DEF InvitesAdmitWithinLimit
<1>13. WritesKeepTheirRole'
  <2> SUFFICES ASSUME NEW d \in RoomCalls, room'[d].op = "write"
               PROVE  role'[room'[d].user] \in Writers
    BY DEF WritesKeepTheirRole, Writing
  <2>1. d # c /\ room'[d] = room[d] /\ room[d].user \in People
    BY <1>0, <1>3, RoomFields
  <2>2. role[room[d].user] \in Writers
    BY <2>1 DEF WritesKeepTheirRole, Writing
  <2> QED
    BY <1>0, <1>2, <1>4, <2>1, <2>2 DEF Writers
<1> QED
  BY <1>7, <1>8, <1>9, <1>10, <1>11, <1>12, <1>13

(* A row that a writer holds is not changed, nor is one that is gone. *)
LEMMA ChangeMemberInv == ASSUME RoomInv, NEW c \in RoomCalls, ChangeMember(c) PROVE RoomInv'
<1> DEFINE u == room[c].user
<1> USE DEF RoomInv
<1>0. /\ room[c].op = "update" /\ ~MembershipHeld(u)
      /\ room[c] \in RoomState /\ room \in [RoomCalls -> RoomState]
      /\ role \in [People -> Roles \cup {"none"}]
      /\ UNCHANGED <<rowOf, invite, admitted>>
  BY DEF ChangeMember, RoomTypeOK
<1>1. u \in People /\ room[c].to \in {"teacher", "student", "none"}
  BY <1>0, CallFields DEF People
<1>2. /\ room'[c].op = "idle" /\ \A d \in RoomCalls \ {c} : room'[d] = room[d]
      /\ room' \in [RoomCalls -> RoomState]
  BY <1>0 DEF ChangeMember, Ends, Becomes, Idling, RoomState
<1>3. \/ role' = role
      \/ role[u] # "none" /\ role' = [role EXCEPT ![u] = room[c].to]
  BY DEF ChangeMember
<1> HIDE DEF u
<1>4. \A w \in People \ {u} : role'[w] = role[w]
  BY <1>0, <1>3
<1>5. role[u] = "none" => role'[u] = "none"
  BY <1>3
<1>6. role' \in [People -> Roles \cup {"none"}]
  BY <1>0, <1>1, <1>3 DEF Roles
<1>7. RoomTypeOK'
  BY <1>0, <1>2, <1>6 DEF RoomTypeOK
<1>8. InviteLocks' /\ RowsAreNumbered' /\ InvitesBegin' /\ InvitesAdmitWithinLimit'
  BY <1>0, <1>2 DEF InviteLocks, RowsAreNumbered, InvitesBegin,
     InvitesAdmitWithinLimit, Holding
<1>9. InsertsAreNew'
  <2> SUFFICES ASSUME NEW d \in RoomCalls, Holding(d)', room'[d].st = "inserted"
               PROVE  /\ role'[room'[d].user] = "none"
                      /\ \A e \in RoomCalls \ {d} : Holding(e)' /\ room'[e].st = "inserted"
                           => room'[e].user # room'[d].user
    BY DEF InsertsAreNew
  <2>1. d # c /\ Holding(d) /\ room'[d] = room[d] /\ room[d].user \in People
    BY <1>0, <1>2, RoomFields DEF Holding
  <2>2. role[room[d].user] = "none"
    BY <2>1 DEF InsertsAreNew
  <2>3. role'[room[d].user] = "none"
    BY <1>4, <1>5, <2>1, <2>2
  <2>4. \A e \in RoomCalls \ {d} : Holding(e)' => e # c /\ Holding(e) /\ room'[e] = room[e]
    BY <1>2 DEF Holding
  <2> QED
    BY <2>1, <2>3, <2>4 DEF InsertsAreNew
<1>10. WritesKeepTheirRole'
  <2> SUFFICES ASSUME NEW d \in RoomCalls, room'[d].op = "write"
               PROVE  role'[room'[d].user] \in Writers
    BY DEF WritesKeepTheirRole, Writing
  <2>1. d # c /\ room'[d] = room[d] /\ room[d].op = "write" /\ room[d].user \in People
    BY <1>0, <1>2, RoomFields
  <2>2. room[d].user # u /\ role[room[d].user] \in Writers
    BY <1>0, <2>1 DEF WritesKeepTheirRole, Writing, MembershipHeld, u
  <2> QED
    BY <1>4, <2>1, <2>2
<1> QED
  BY <1>7, <1>8, <1>9, <1>10

(* An invite becomes usable, by requests that have yet to ask for it. *)
LEMMA CommitInviteInv == ASSUME RoomInv, NEW c \in RoomCalls, CommitInvite(c) PROVE RoomInv'
<1> DEFINE i == room[c].by
<1> USE DEF RoomInv
<1>0. /\ room[c].op = "invite" /\ room[c] \in RoomState
      /\ room \in [RoomCalls -> RoomState] /\ invite \in [Invites -> InviteRow]
      /\ UNCHANGED <<role, rowOf, admitted>>
  BY DEF CommitInvite, RoomTypeOK
<1>1. i \in Invites /\ room[c].max \in Nat
  BY <1>0, CallFields, ClassroomsAssumption
<1>2. /\ invite[i].state = "absent" /\ admitted[i] = {}
      /\ \A d \in RoomCalls \ {c} : room[d].op = "invite" => room[d].by # i
      /\ \A d \in RoomCalls : room[d].op = "join" => room[d].by # i
  BY <1>0, <1>1 DEF InvitesBegin
<1>3. /\ room'[c].op = "idle" /\ \A d \in RoomCalls \ {c} : room'[d] = room[d]
      /\ room' \in [RoomCalls -> RoomState]
  BY <1>0 DEF CommitInvite, Ends, Becomes, Idling, RoomState
<1>4. invite' = [invite EXCEPT ![i] = [state |-> "open", uses |-> 0, max |-> room[c].max]]
  BY DEF CommitInvite
<1>5. /\ invite' \in [Invites -> InviteRow]
      /\ \A j \in Invites \ {i} : invite'[j] = invite[j]
      /\ invite'[i].uses = 0 /\ invite'[i].max \in Nat /\ invite'[i].state = "open"
  BY <1>0, <1>1, <1>4 DEF InviteRow
<1> HIDE DEF i
<1>6. RoomTypeOK'
  BY <1>0, <1>3, <1>5 DEF RoomTypeOK
<1>7. \A d \in RoomCalls : room'[d].op \in {"join", "invite"} =>
        /\ d # c /\ room'[d] = room[d] /\ room[d].by \in Invites \ {i}
        /\ invite'[room[d].by] = invite[room[d].by]
  BY <1>0, <1>2, <1>3, <1>5, RoomFields
<1>8. InviteLocks' /\ InsertsAreNew'
  BY <1>0, <1>7 DEF InviteLocks, InsertsAreNew, Holding
<1>9. RowsAreNumbered'
  BY <1>0 DEF RowsAreNumbered
<1>10. InvitesBegin'
  BY <1>0, <1>5, <1>7 DEF InvitesBegin
<1>11. InvitesAdmitWithinLimit'
  <2>1. Cardinality(admitted'[i]) = 0
    BY <1>0, <1>2, FS_EmptySet
  <2>2. \A j \in Invites \ {i} : /\ Cardinality(admitted'[j]) = invite'[j].uses
                                 /\ invite'[j].uses <= invite'[j].max
    BY <1>0, <1>5 DEF InvitesAdmitWithinLimit
  <2> QED
    BY <1>5, <2>1, <2>2 DEF InvitesAdmitWithinLimit
<1>12. WritesKeepTheirRole'
  BY <1>0, <1>3 DEF WritesKeepTheirRole, Writing
<1> QED
  BY <1>6, <1>8, <1>9, <1>10, <1>11, <1>12

LEMMA ExpiresInv == ASSUME RoomInv, NEW i \in Invites, Expires(i) PROVE RoomInv'
<1> USE DEF RoomInv
<1>0. /\ invite[i].state = "open" /\ invite \in [Invites -> InviteRow]
      /\ room \in [RoomCalls -> RoomState]
      /\ UNCHANGED <<role, rowOf, admitted, room>>
  BY DEF Expires, RoomTypeOK
<1>1. invite' = [invite EXCEPT ![i] =
                   [state |-> "expired", uses |-> @.uses, max |-> @.max]]
  BY DEF Expires
<1>2. /\ invite' \in [Invites -> InviteRow]
      /\ \A j \in Invites : /\ invite'[j].uses = invite[j].uses
                            /\ invite'[j].max = invite[j].max
                            /\ (invite'[j].state = "absent") = (invite[j].state = "absent")
  BY <1>0, <1>1 DEF InviteRow
<1>3. \A d \in RoomCalls : room[d].op \in {"join", "invite"} => room[d].by \in Invites
  BY <1>0, RoomFields
<1>4. RoomTypeOK'
  BY <1>0, <1>2 DEF RoomTypeOK
<1>5. InviteLocks' /\ InsertsAreNew'
  BY <1>0, <1>2, <1>3 DEF InviteLocks, InsertsAreNew, Holding
<1>6. RowsAreNumbered' /\ InvitesAdmitWithinLimit'
  BY <1>0, <1>2 DEF RowsAreNumbered, InvitesAdmitWithinLimit
<1>7. InvitesBegin'
  BY <1>0, <1>2, <1>3 DEF InvitesBegin
<1>8. WritesKeepTheirRole'
  BY <1>0 DEF WritesKeepTheirRole, Writing
<1> QED
  BY <1>4, <1>5, <1>6, <1>7, <1>8

LEMMA RoomStepInv == RoomInv /\ [RoomNext]_roomVars => RoomInv'
<1> SUFFICES ASSUME RoomInv, [RoomNext]_roomVars PROVE RoomInv'
  OBVIOUS
<1>1. CASE UNCHANGED roomVars
  BY <1>1 DEF roomVars, RoomInv, RoomTypeOK, InviteLocks, InsertsAreNew, Holding,
     RowsAreNumbered, InvitesBegin, InvitesAdmitWithinLimit, WritesKeepTheirRole, Writing
<1>2. ASSUME NEW i \in Invites, Expires(i) PROVE RoomInv'
  BY <1>2, ExpiresInv
<1>3. ASSUME NEW c \in RoomCalls,
             \/ AskJoin(c) \/ LockInvite(c) \/ InsertMembership(c) \/ CommitJoin(c)
             \/ Abort(c) \/ BeginWrite(c) \/ CommitWrite(c)
             \/ ReadMember(c) \/ ChangeMember(c)
             \/ AskInvite(c) \/ InsertInvite(c) \/ CommitInvite(c)
      PROVE  RoomInv'
  <2>1. CASE AskJoin(c) \/ LockInvite(c) \/ InsertMembership(c) \/ CommitJoin(c)
    BY <2>1, AskJoinInv, LockInviteInv, InsertMembershipInv, CommitJoinInv
  <2>2. CASE Abort(c) \/ CommitWrite(c)
    BY <2>2, EndsInv DEF Abort, CommitWrite
  <2>3. CASE BeginWrite(c) \/ ReadMember(c) \/ ChangeMember(c)
    BY <2>3, BeginWriteInv, ReadMemberInv, ChangeMemberInv
  <2>4. CASE AskInvite(c) \/ InsertInvite(c) \/ CommitInvite(c)
    BY <2>4, AskInviteInv, InsertInviteInv, CommitInviteInv
  <2> QED
    BY <1>3, <2>1, <2>2, <2>3, <2>4
<1> QED
  BY <1>1, <1>2, <1>3 DEF RoomNext

-----------------------------------------------------------------------------
(* The rows of a classroom keep their form, and every part of the invariant *)
(* above holds, whatever joins, writes and changes its users ask for. *)
THEOREM RoomInvariant == RoomSpec => []RoomInv
BY RoomInitInv, RoomStepInv, PTL DEF RoomSpec

(* An invite admits no more than it was made for, and a request that writes *)
(* to the knowledge base keeps the role it was admitted with. *)
THEOREM AdmissionIsKept == RoomSpec => []AdmissionHolds
<1>1. RoomInv => AdmissionHolds
  BY DEF RoomInv, AdmissionHolds
<1> QED
  BY <1>1, RoomInvariant, PTL
=============================================================================
