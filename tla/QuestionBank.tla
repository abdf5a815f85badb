---------------------------- MODULE QuestionBank ----------------------------
(***************************************************************************)
(* The question bank of one knowledge base and the attempts of one learner *)
(* (question_bank/service.py, assessment.py, generation.py).               *)
(*                                                                         *)
(* Submissions run at the same time.  Each is one transaction: it takes an *)
(* advisory lock for (learner, question version), answers a known          *)
(* Idempotency-Key from the stored row, and otherwise grades the answer    *)
(* and chains it to the earlier assessments.  created_at is the database's *)
(* now(), the time at which the transaction STARTED, so that the order of  *)
(* created_at is not the order of the commits.                             *)
(*                                                                         *)
(* Time is counted in days.  A submission is its own number: it stands for *)
(* the random id of the rows it writes, and is free again as long as it    *)
(* has written none.                                                       *)
(***************************************************************************)
EXTENDS Integers, FiniteSets, FiniteSetsExt

CONSTANTS
    QbVersions,      \* question versions, one per question
    QbKeys,          \* Idempotency-Key values of the learner
    LastSubmission,  \* bound on the submissions that are answered
    QbScores,        \* basis points that answers are graded with
    FullScore,       \* BASIS_POINTS_MAX
    Window,          \* MAX_PRIOR_MASTERY_EVIDENCE
    Legacy,          \* <<version, key>> of attempts older than assessments
    PageSize,        \* limit of a page of review items
    LastDay,         \* bound on the clock
    MaxGenerations   \* bound on generations that are requested or queued

Submissions == 1 .. LastSubmission

ASSUME QuestionBankAssumption ==
    /\ {LastSubmission, LastDay, MaxGenerations} \subseteq Nat
    /\ FullScore \in Nat \ {0} /\ QbScores \subseteq 0 .. FullScore
    /\ Window \in Nat \ {0} /\ PageSize \in Nat \ {0}
    /\ Legacy \subseteq QbVersions \X QbKeys

VARIABLES
    bank,        \* the question versions that exist
    indexed,     \* the knowledge base has an active index with chunks
    generation,  \* requests that found no generation under way, and jobs queued
    assessed,    \* the assessment rows (each with its attempt)
    submission,  \* submission -> its transaction
    today,
    pages        \* a client that reads review items or a history page by page

qbVars == <<bank, indexed, generation, assessed, submission, today, pages>>

AssessmentRow ==
    [id : Submissions, version : QbVersions, key : QbKeys, score : 0 .. FullScore,
     created : 0 .. LastDay, due : Nat, evidence : Nat, next : Nat, serial : Nat]

Asked == [version : QbVersions, key : QbKeys, start : 0 .. LastDay]

\* A submission that ends without an answer has written nothing: it is new again.
SubmissionState ==
    [st : {"new"}]
    \cup [st : {"begun", "locked"}, asked : Asked]
    \cup [st : {"graded"}, asked : Asked, row : AssessmentRow]
    \cup [st : {"answered"}, row : AssessmentRow]

PageState ==
    [st : {"idle"}]
    \cup [st : {"reading", "done"}, list : {"reviews"} \cup QbVersions,
          shown : SUBSET AssessmentRow,
          first : SUBSET AssessmentRow, last : AssessmentRow,
          repeated : BOOLEAN]

QbTypeOK ==
    /\ bank \subseteq QbVersions
    /\ indexed \in BOOLEAN
    /\ generation \in [asking : Nat, queued : Nat]
    /\ generation.asking + generation.queued <= MaxGenerations
    /\ assessed \subseteq AssessmentRow
    /\ submission \in [Submissions -> SubmissionState]
    /\ today \in 0 .. LastDay
    /\ pages \in PageState

\* A bank that has attempts already may have no index any more.
QbInit ==
    /\ bank = {l[1] : l \in Legacy}
    /\ indexed \in {FALSE, Legacy # {}}
    /\ generation = [asking |-> 0, queued |-> 0]
    /\ assessed = {}
    /\ submission = [c \in Submissions |-> [st |-> "new"]]
    /\ today = 0
    /\ pages = [st |-> "idle"]

-----------------------------------------------------------------------------
(* Questions.                                                              *)

\* An index of the knowledge base becomes active (IndexBuild).  Without one no
\* question is made; that it may be lost again is left out.
IndexActivates ==
    /\ ~indexed /\ indexed' = TRUE
    /\ UNCHANGED <<bank, generation, assessed, submission, today, pages>>

\* create_question: a writer cites a chunk of the active index.
CreateQuestion(v) ==
    /\ indexed /\ v \notin bank
    /\ bank' = bank \cup {v}
    /\ UNCHANGED <<indexed, generation, assessed, submission, today, pages>>

\* create_question_generation returns the job that is under way, and makes one
\* when it finds none: two requests may both find none.
AskGeneration ==
    /\ indexed /\ generation.queued = 0
    /\ generation.asking < MaxGenerations
    /\ generation' = [generation EXCEPT !.asking = @ + 1]
    /\ UNCHANGED <<bank, indexed, assessed, submission, today, pages>>

QueueGeneration ==
    /\ generation.asking > 0
    /\ \E queued \in {0, 1} :
         generation' = [asking |-> generation.asking - 1,
                        queued |-> generation.queued + queued]
    /\ UNCHANGED <<bank, indexed, assessed, submission, today, pages>>

\* What an answer of the model is read as: each item that is a question is kept,
\* once and up to the number asked for, and the others are dropped.
Drafts == SUBSET (QbVersions \ bank)

\* A job ends well, and all drafts that could be parsed are written in one
\* transaction; or it fails for good, when none could be.
GenerateQuestions ==
    /\ generation.queued > 0
    /\ generation' = [generation EXCEPT !.queued = @ - 1]
    /\ \E new \in Drafts : bank' = bank \cup new
    /\ UNCHANGED <<indexed, assessed, submission, today, pages>>

-----------------------------------------------------------------------------
(* Submissions: record_attempt.                                            *)

Of(v) == {a \in assessed : a.version = v}

\* ORDER BY created_at, id
Earlier(a, b) == a.created < b.created \/ (a.created = b.created /\ a.id < b.id)

Newest(rows) == CHOOSE a \in rows : \A b \in rows \ {a} : Earlier(b, a)

\* schedule_review
IntervalDays(score) ==
    CASE score = FullScore -> 7
      [] score < FullScore /\ score >= FullScore \div 2 -> 3
      [] OTHER -> 1

NeedsReview(a) == a.score # FullScore

\* A response to a known key; an attempt without assessment cannot be replayed.
Stored(ask) == {a \in Of(ask.version) : a.key = ask.key}

\* assess_answer, compute_mastery_snapshot and the streak, over the Window
\* newest assessments.
Graded(c, ask, score) ==
    LET prior  == Of(ask.version)
        streak == IF prior = {} THEN 0 ELSE Newest(prior).next
    IN [id |-> c, version |-> ask.version, key |-> ask.key,
        score |-> score, created |-> ask.start,
        due |-> today + IntervalDays(score),
        evidence |-> Min({Window, Cardinality(prior)}) + 1,
        next |-> IF score = FullScore THEN streak + 1 ELSE 0,
        serial |-> 0]

BeginSubmission(c) ==
    /\ submission[c].st = "new"
    /\ \E v \in bank, k \in QbKeys :
         submission' = [submission EXCEPT ![c] =
            [st |-> "begun", asked |-> [version |-> v, key |-> k, start |-> today]]]
    /\ UNCHANGED <<bank, indexed, generation, assessed, today, pages>>

\* Transactions that hold the advisory lock of a version, until they end.
Holders(v) == {c \in Submissions : /\ submission[c].st \in {"locked", "graded"}
                                   /\ submission[c].asked.version = v}

\* Variant: two submissions for one question version at a time.
LockUnserialized(c) ==
    /\ submission[c].st = "begun"
    /\ submission' = [submission EXCEPT ![c] =
                        [st |-> "locked", asked |-> submission[c].asked]]
    /\ UNCHANGED <<bank, indexed, generation, assessed, today, pages>>

\* pg_advisory_xact_lock
LockSubmission(c) ==
    /\ submission[c].st = "begun"
    /\ Holders(submission[c].asked.version) = {}
    /\ submission' = [submission EXCEPT ![c] =
                        [st |-> "locked", asked |-> submission[c].asked]]
    /\ UNCHANGED <<bank, indexed, generation, assessed, today, pages>>

\* A known key: the stored assessment, or 409 for an attempt without one.
ReplaySubmission(c) ==
    LET ask == submission[c].asked IN
    /\ submission[c].st = "locked"
    /\ \/ \E a \in Stored(ask) :
            submission' = [submission EXCEPT ![c] =
                             [st |-> "answered", row |-> a]]
       \/ /\ <<ask.version, ask.key>> \in Legacy
          /\ submission' = [submission EXCEPT ![c] = [st |-> "new"]]
    /\ UNCHANGED <<bank, indexed, generation, assessed, today, pages>>

GradeSubmission(c) ==
    LET ask == submission[c].asked IN
    /\ submission[c].st = "locked"
    /\ Stored(ask) = {} /\ <<ask.version, ask.key>> \notin Legacy
    /\ \E score \in QbScores :
         submission' = [submission EXCEPT ![c] =
            [st |-> "graded", asked |-> ask, row |-> Graded(c, ask, score)]]
    /\ UNCHANGED <<bank, indexed, generation, assessed, today, pages>>

\* Commit.  A row with the same key that was committed meanwhile breaks the
\* unique constraint, and the submission answers with that row instead.
CommitSubmission(c) ==
    LET ask == submission[c].asked
        row == [submission[c].row EXCEPT !.serial = Cardinality(Of(ask.version)) + 1]
    IN /\ submission[c].st = "graded"
       /\ IF Stored(ask) = {}
          THEN /\ assessed' = assessed \cup {row}
               /\ submission' = [submission EXCEPT ![c] =
                                   [st |-> "answered", row |-> row]]
          ELSE /\ assessed' = assessed
               /\ \E a \in Stored(ask) :
                    submission' = [submission EXCEPT ![c] =
                                     [st |-> "answered", row |-> a]]
       /\ UNCHANGED <<bank, indexed, generation, today, pages>>

\* The request or its connection ends before the commit; it may be repeated.
FailSubmission(c) ==
    /\ submission[c].st \in {"begun", "locked", "graded"}
    /\ submission' = [submission EXCEPT ![c] = [st |-> "new"]]
    /\ UNCHANGED <<bank, indexed, generation, assessed, today, pages>>

DayPasses ==
    /\ today < LastDay /\ today' = today + 1
    /\ UNCHANGED <<bank, indexed, generation, assessed, submission, pages>>

-----------------------------------------------------------------------------
(* Lists, page by page: list_review_items with scope "all", which begins   *)
(* with what is due first, and list_attempt_history, with the newest.      *)

\* The newest assessment of each version, when it is to be reviewed.
Reviewable == {a \in assessed : NeedsReview(a) /\ a = Newest(Of(a.version))}

RowsOf(list) == IF list = "reviews" THEN Reviewable ELSE Of(list)

\* ORDER BY review_due_at, created_at, id
DueBefore(a, b) == a.due < b.due \/ (a.due = b.due /\ Earlier(a, b))

ListedBefore(list, a, b) ==
    IF list = "reviews" THEN DueBefore(a, b) ELSE Earlier(b, a)

PastCursor(list, a, last) == ListedBefore(list, last, a)

\* The first PageSize of the rows in the list's order.
PageOf(list, rows) ==
    {a \in rows : Cardinality({b \in rows : ListedBefore(list, b, a)}) < PageSize}

Shows(list, rows, shown, first, repeated) ==
    LET page == PageOf(list, rows)
        last == CHOOSE a \in page : \A b \in page \ {a} : ListedBefore(list, b, a)
    IN [st |-> IF rows = page THEN "done" ELSE "reading", list |-> list,
        shown |-> shown \cup page, first |-> first, last |-> last,
        repeated |-> repeated \/ shown \cap page # {}]

FirstPage ==
    /\ pages.st = "idle"
    /\ \E list \in {"reviews"} \cup QbVersions :
         /\ RowsOf(list) # {}
         /\ pages' = Shows(list, RowsOf(list), {}, RowsOf(list), FALSE)
    /\ UNCHANGED <<bank, indexed, generation, assessed, submission, today>>

\* Variant: the page after as many rows as have been shown (an OFFSET).
NextPageByOffset ==
    LET listed == RowsOf(pages.list)
        rows == {a \in listed :
                   Cardinality({b \in listed : ListedBefore(pages.list, b, a)})
                     >= Cardinality(pages.shown)} IN
    /\ pages.st = "reading"
    /\ pages' = IF rows = {} THEN [pages EXCEPT !.st = "done"]
                ELSE Shows(pages.list, rows, pages.shown, pages.first, pages.repeated)
    /\ UNCHANGED <<bank, indexed, generation, assessed, submission, today>>

NextPage ==
    LET rows == {a \in RowsOf(pages.list) : PastCursor(pages.list, a, pages.last)} IN
    /\ pages.st = "reading"
    /\ pages' = IF rows = {} THEN [pages EXCEPT !.st = "done"]
                ELSE Shows(pages.list, rows, pages.shown, pages.first, pages.repeated)
    /\ UNCHANGED <<bank, indexed, generation, assessed, submission, today>>

QbNext ==
    \/ IndexActivates \/ AskGeneration \/ QueueGeneration \/ GenerateQuestions
    \/ DayPasses
    \/ FirstPage \/ NextPage
    \/ \E v \in QbVersions : CreateQuestion(v)
    \/ \E c \in Submissions :
         \/ BeginSubmission(c) \/ LockSubmission(c) \/ ReplaySubmission(c)
         \/ GradeSubmission(c) \/ CommitSubmission(c) \/ FailSubmission(c)

QbSpec == QbInit /\ [][QbNext]_qbVars

-----------------------------------------------------------------------------

(* However submissions overlap, the assessments of a version are a chain:  *)
(* each counts every assessment committed before it, up to the window; its *)
(* streak is no longer than the chain; a key has one assessment, with      *)
(* which every submission of that key was answered.                        *)
AttemptsFormOneChain ==
    /\ \A a \in assessed :
         LET before == {b \in Of(a.version) : b.serial < a.serial} IN
         /\ a.evidence = Min({Window, Cardinality(before)}) + 1
         /\ a.next <= Cardinality(before) + 1
    /\ \A c \in Submissions : submission[c].st = "answered" =>
         Stored(submission[c].row) = {submission[c].row}

(* A client that reads all pages has seen every review item that was open  *)
(* when it began and is open still, or every attempt there was when it     *)
(* began, and nothing twice, whatever was submitted in between.            *)
PagesShowEveryRow ==
    pages.st = "done" =>
        /\ pages.first \cap RowsOf(pages.list) \subseteq pages.shown
        /\ ~pages.repeated
=============================================================================
