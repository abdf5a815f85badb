-------------------------- MODULE CandidateReview --------------------------
(***************************************************************************)
(* Knowledge candidates of one knowledge base: batches are generated from  *)
(* the model's answers for the chunks of a document, reviewed by people,   *)
(* and published as notes (knowledge/candidates.py, candidate_service.py,  *)
(* and make_markdown_draft_handler of knowledge/worker.py).                *)
(*                                                                         *)
(* A handler's writes commit with the completion of its job (IngestionQueue*)
(* shows that a stale attempt never writes), so that an attempt is a step. *)
(* A confirmation takes the locks of the knowledge base and of the batch,  *)
(* decides, writes and commits; two of them may be under way.              *)
(* Of a note, its key, its title and its parent are kept.  Term links are  *)
(* text in the published markdown and are left out.                        *)
(***************************************************************************)
EXTENDS Integers, Sequences, FiniteSets, FiniteSetsExt, SequencesExt

CONSTANTS
    Batches,
    Refs,         \* keys, and names by which notes refer to keys
    NoRef,        \* null
    Strip,        \* reference -> it without its kind prefix, or NoRef
    TitleOf,      \* key -> normalized title
    Answers,      \* what the model may answer: one sequence of notes per chunk
    Reviewers,    \* confirmations under way at a time
    MaxAttempts   \* max_attempts of a generation job (6 in the code)

Titles == {TitleOf[k] : k \in Refs}

ASSUME CandidateReviewAssumption ==
    /\ NoRef \notin Refs
    /\ Strip \in [Refs \cup {NoRef} -> Refs \cup {NoRef}] /\ Strip[NoRef] = NoRef
    /\ DOMAIN TitleOf = Refs
    /\ MaxAttempts \in Nat \ {0}
    /\ \A answer \in Answers : \A i \in DOMAIN FlattenSeq(answer) :
         FlattenSeq(answer)[i].key \in Refs

VARIABLES
    batch,     \* batch -> state, attempts of its job, parent of each note
    accepted,  \* batch -> keys whose review_state is ACCEPTED
    library,   \* the published notes
    review     \* reviewer -> the confirmation under way

crVars == <<batch, accepted, library, review>>

BatchStates == {"absent", "processing", "needs_review", "confirmed", "failed"}

CrTypeOK ==
    /\ \A b \in Batches :
         /\ batch[b].state \in BatchStates
         /\ batch[b].attempts \in 0 .. MaxAttempts
         /\ DOMAIN batch[b].parent \subseteq Refs
         /\ accepted[b] \subseteq DOMAIN batch[b].parent
    /\ \A n \in library : n.batch \in Batches /\ n.key \in Refs
    /\ \A r \in Reviewers :
         review[r].st \in {"idle", "asked", "locked"}

NoBatch == [state |-> "absent", attempts |-> 0, parent |-> <<>>]

CrInit ==
    /\ batch = [b \in Batches |-> NoBatch]
    /\ accepted = [b \in Batches |-> {}]
    /\ library = {}
    /\ review = [r \in Reviewers |-> [st |-> "idle"]]

-----------------------------------------------------------------------------
(* merge_knowledge_candidates.  notes is the sequence of all notes of an   *)
(* answer; a note that comes again adds a parent when none was stated.     *)

NoteKeys(notes) == {notes[i].key : i \in DOMAIN notes}

FirstAt(notes, k) == Min({i \in DOMAIN notes : notes[i].key = k})

StatedParent(notes, k) ==
    LET at == {i \in DOMAIN notes : notes[i].key = k /\ notes[i].parent # NoRef}
    IN IF at = {} THEN NoRef ELSE notes[Min(at)].parent

\* The alias index: a key by itself, else by its form without the prefix.
Alias(notes, ref) ==
    LET short == {k \in NoteKeys(notes) : ref # NoRef /\ Strip[k] = ref} IN
    CASE ref \in NoteKeys(notes) -> ref
      [] ref \notin NoteKeys(notes) /\ short # {} ->
            CHOOSE k \in short : \A j \in short : FirstAt(notes, k) <= FirstAt(notes, j)
      [] OTHER -> NoRef

\* _resolve_ref strips prefixes off the reference until an alias is known.
Resolve(notes, ref) ==
    IF Alias(notes, ref) # NoRef THEN Alias(notes, ref)
    ELSE IF Alias(notes, Strip[ref]) # NoRef THEN Alias(notes, Strip[ref])
    ELSE Alias(notes, Strip[Strip[ref]])

\* A parent that cannot be resolved is dropped.
MergedParents(notes) ==
    [k \in NoteKeys(notes) |-> Resolve(notes, StatedParent(notes, k))]

\* Notes can be stored parents first: no set of notes holds all its parents.
Ordered(parent) ==
    \A s \in SUBSET DOMAIN parent :
        s # {} => \E k \in s : parent[k] \notin s

-----------------------------------------------------------------------------

\* create_candidate_generation; the same Idempotency-Key returns the batch.
CreateBatch(b) ==
    /\ batch[b].state = "absent"
    /\ batch' = [batch EXCEPT ![b].state = "processing"]
    /\ UNCHANGED <<accepted, library, review>>

\* Variant: the attempts are compared after the last one.
AttemptFailsLate(b) ==
    batch' = [batch EXCEPT ![b].attempts = @ + 1,
                           ![b].state = IF batch[b].attempts = MaxAttempts
                                        THEN "failed" ELSE @]

\* An attempt fails: the answer was not a candidate set, the provider could
\* not be reached, or the notes have no order of parents.
AttemptFails(b) ==
    batch' = [batch EXCEPT ![b].attempts = @ + 1,
                           ![b].state = IF batch[b].attempts + 1 = MaxAttempts
                                        THEN "failed" ELSE @]

GenerateBatch(b) ==
    /\ batch[b].state = "processing"
    /\ \/ AttemptFails(b)
       \/ \E answer \in Answers :
            LET parent == MergedParents(FlattenSeq(answer)) IN
            IF Ordered(parent)
            THEN batch' = [batch EXCEPT ![b].state = "needs_review",
                                        ![b].parent = parent]
            ELSE AttemptFails(b)
    /\ UNCHANGED <<accepted, library, review>>

AskReview(r) ==
    /\ review[r].st = "idle"
    /\ \E b \in Batches :
         /\ batch[b].state \in {"needs_review", "confirmed"}
         /\ \E keys \in SUBSET DOMAIN batch[b].parent :
              /\ keys # {}
              /\ review' = [review EXCEPT ![r] =
                              [st |-> "asked", batch |-> b, keys |-> keys]]
    /\ UNCHANGED <<batch, accepted, library>>

\* What can be confirmed: notes with their parents, in a batch to be reviewed.
Confirmable(b, keys) ==
    /\ batch[b].state = "needs_review"
    /\ \A k \in keys : batch[b].parent[k] \in keys \cup {NoRef}

\* Variant: neither the knowledge base nor the batch is locked.
DecideUnlocked(r) ==
    /\ review[r].st = "asked"
    /\ review' = [review EXCEPT ![r] =
                    IF Confirmable(review[r].batch, review[r].keys)
                    THEN [@ EXCEPT !.st = "locked"] ELSE [st |-> "idle"]]
    /\ UNCHANGED <<batch, accepted, library>>

\* The rows are locked and read: a confirmed batch is returned as it is, and a
\* selection without a parent is refused.
Decide(r) ==
    /\ review[r].st = "asked"
    /\ \A q \in Reviewers : review[q].st # "locked"
    /\ review' = [review EXCEPT ![r] =
                    IF Confirmable(review[r].batch, review[r].keys)
                    THEN [@ EXCEPT !.st = "locked"] ELSE [st |-> "idle"]]
    /\ UNCHANGED <<batch, accepted, library>>

\* Titles that two accepted notes share are told apart by the title of the
\* parent, or by the ordinal of the note (here its key).
PublishedTitle(b, keys, k) ==
    LET parent == batch[b].parent[k] IN
    IF \A j \in keys \ {k} : TitleOf[j] # TitleOf[k] THEN <<TitleOf[k]>>
    ELSE <<TitleOf[k], IF parent = NoRef THEN k ELSE TitleOf[parent]>>

Formal(b, keys) ==
    {[batch |-> b, key |-> k, parent |-> batch[b].parent[k],
      title |-> PublishedTitle(b, keys, k)] : k \in keys}

\* A title that is taken, in the knowledge base or within the selection,
\* refuses the confirmation as a whole.
TitlesFree(notes) ==
    /\ \A n \in notes, m \in library : n.title # m.title
    /\ \A n, m \in notes : n.title = m.title => n = m

Publish(r) ==
    LET b == review[r].batch
        keys == review[r].keys
    IN /\ review[r].st = "locked"
       /\ IF TitlesFree(Formal(b, keys))
          THEN /\ library' = library \cup Formal(b, keys)
               /\ accepted' = [accepted EXCEPT ![b] = keys]
               /\ batch' = [batch EXCEPT ![b].state = "confirmed"]
          ELSE UNCHANGED <<library, accepted, batch>>
       /\ review' = [review EXCEPT ![r] = [st |-> "idle"]]

\* The request ends before it commits.
ConfirmAborts(r) ==
    /\ review[r].st # "idle"
    /\ review' = [review EXCEPT ![r] = [st |-> "idle"]]
    /\ UNCHANGED <<batch, accepted, library>>

CrNext ==
    \/ \E b \in Batches : CreateBatch(b) \/ GenerateBatch(b)
    \/ \E r \in Reviewers :
         AskReview(r) \/ Decide(r) \/ Publish(r) \/ ConfirmAborts(r)

CrSpec == CrInit /\ [][CrNext]_crVars

-----------------------------------------------------------------------------

(* What a batch published is what its review accepted, once, whichever     *)
(* reviewers confirmed it: the notes of a confirmed batch are its accepted *)
(* keys, each with its parent, so that the links of the hierarchy lead to  *)
(* published notes; no other batch published anything; and no two notes of *)
(* the knowledge base have one title.                                      *)
ReviewPublishesItsTree ==
    /\ \A b \in Batches :
         LET published == {n \in library : n.batch = b} IN
         /\ {n.key : n \in published} = accepted[b]
         /\ (batch[b].state = "confirmed") = (published # {})
         /\ \A n \in published : n.parent \in accepted[b] \cup {NoRef}
    /\ \A n, m \in library : n.title = m.title => n = m
=============================================================================
