------------------------------ MODULE OcrCalls ------------------------------
(***************************************************************************)
(* Selective OCR of a document (knowledge/ocr.py): a loop over its scanned *)
(* pages, each rendered by a process of its own and then piped through     *)
(* another one, tesseract, by two threads.                                 *)
(*                                                                         *)
(* Neither process is trusted to answer, to read, to write or to end; a    *)
(* process that tesseract started may hold its ends of the pipes after it. *)
(* Time is two deadlines, the document's and the call's, that pass at any  *)
(* moment.  Images and texts are counted in chunks.                        *)
(*                                                                         *)
(* The threads of a call may outlive their joins: they have run out before *)
(* the next process starts, since nothing of theirs is shared with it.     *)
(* Windows jobs, which play the part of process groups there, and invalid  *)
(* limits and languages are left out.                                      *)
(***************************************************************************)
EXTENDS Integers, Sequences

CONSTANTS
    LastPage,       \* pages that need OCR: 1 .. LastPage
    MaxOcrPages,    \* max_ocr_pages
    ImageSizes,     \* chunks an image may have
    MaxEvidence,    \* max_total_evidence_bytes
    MaxOutput,      \* max_output_bytes of a call
    MaxText,        \* max_total_text_chars
    MaxGiven,       \* bound: what a child writes in a call
    PipeSize,       \* what a pipe of the system holds
    MessageLimit    \* maxsize of the reader's queue

ASSUME OcrAssumption ==
    /\ {LastPage, MaxOcrPages, MaxEvidence, MaxOutput, MaxText, MaxGiven} \subseteq Nat
    /\ ImageSizes \subseteq Nat \ {0}
    /\ PipeSize \in Nat \ {0} /\ MessageLimit \in Nat \ {0}

VARIABLES
    doc,       \* locals of apply_selective_ocr; ended: its deadline has passed
    results,   \* checkpoints, one per page
    ocr,       \* where the loop is, and the locals of the call it is in
    renderer,  \* the process that renders a page
    child,     \* tesseract, and the pipe ends held by processes it started
    pipe,      \* chunks in the two pipes
    reader,    \* the thread ocr-stdout-reader
    writer     \* the thread ocr-stdin-writer

threadVars == <<reader, writer>>
ocrVars == <<doc, results, ocr, renderer, child, pipe, threadVars>>

Codes == {"disabled", "failed", "timeout", "limit"}

OcrTypeOK ==
    /\ doc.page \in 1 .. LastPage + 1
    /\ doc.limit \in BOOLEAN /\ doc.late \in BOOLEAN
    /\ Len(results) = doc.page - 1
    /\ \A i \in DOMAIN results : results[i].code \in Codes \cup {"none"}
    /\ pipe.in \in 0 .. PipeSize /\ pipe.out \in 0 .. PipeSize
    /\ child.heirs \subseteq {"in", "out"}

\* The locals of render_page, extract_text and _run_tesseract_process.
NoOcrCall == [at |-> "next", late |-> FALSE, stdout |-> 0, eof |-> FALSE,
              stop |-> FALSE, messages |-> <<>>, failure |-> "none"]
EmptyPipes == [in |-> 0, out |-> 0]
NoWriter == [st |-> "none", left |-> 0, failed |-> FALSE]
NoChild == [st |-> "none", code |-> 0, given |-> 0, heirs |-> {}]

OcrAt(where) == [ocr EXCEPT !.at = where]
Failing(code, where) == [ocr EXCEPT !.at = where, !.failure = code]

OcrInit ==
    /\ doc = [page |-> 1, limit |-> FALSE, late |-> FALSE, evidence |-> 0, text |-> 0]
    /\ results = <<>>
    /\ ocr = [NoOcrCall EXCEPT !.at = "idle"]
    /\ renderer = "none"
    /\ child = NoChild
    /\ pipe = EmptyPipes
    /\ reader = "none"
    /\ writer = NoWriter

\* make_parse_document_handler applies OCR to the document it parsed.
OcrBegin ==
    /\ ocr.at = "idle"
    /\ ocr' = OcrAt("next")
    /\ UNCHANGED <<doc, results, renderer, child, pipe, threadVars>>

-----------------------------------------------------------------------------
(* The loop over the pages *)

PageEnds(result, counted) ==
    /\ results' = Append(results, result)
    /\ doc' = [counted EXCEPT !.page = @ + 1]
    /\ ocr' = NoOcrCall

\* A page fails, and with it, when a limit of the document is reached, all
\* pages that follow.
PageFails(code) == PageEnds([code |-> code, text |-> 0], doc)
DocumentEnds == PageEnds([code |-> "limit", text |-> 0], [doc EXCEPT !.limit = TRUE])

TakePage ==
    /\ ocr.at = "next"
    /\ IF doc.page > LastPage THEN ocr' = OcrAt("done") /\ UNCHANGED <<doc, results, renderer>>
       ELSE IF doc.limit \/ doc.page > MaxOcrPages \/ doc.late
       THEN DocumentEnds /\ UNCHANGED renderer
       ELSE /\ ocr' = OcrAt("rendering") /\ renderer' = "running"
            /\ UNCHANGED <<doc, results>>
    /\ UNCHANGED <<child, pipe, threadVars>>

\* _pdfium_render_worker: an image is sent in parts, since it is larger than the
\* pipe; an error, or the end of a process that died, comes at once.  It may stop
\* before it has sent anything, or in the middle of the image.
RenderWorker ==
    /\ \/ renderer = "running" /\ renderer' \in {"sending", "error"}
       \/ renderer = "sending" /\ renderer' \in {"image", "error"}
    /\ UNCHANGED <<doc, results, ocr, child, pipe, threadVars>>

\* poll, which ends when there is something to read or after the call's time;
\* or the process could not be started.
PollRenderer ==
    /\ ocr.at = "rendering"
    /\ \/ renderer # "running" /\ ocr' = OcrAt("receiving")
       \/ renderer = "running" /\ ocr.late /\ ocr' = Failing("timeout", "rendered")
       \/ renderer = "running" /\ ocr' = Failing("failed", "rendered")
    /\ UNCHANGED <<doc, results, renderer, child, pipe, threadVars>>

\* recv, which waits for the whole message without a time limit.  It raises an
\* error when the process has ended before, and an image may be no image.
ReceiveImage ==
    /\ ocr.at = "receiving"
    /\ \/ renderer = "image" /\ ocr' = OcrAt("rendered")
       \/ renderer \in {"image", "error"} /\ ocr' = Failing("failed", "rendered")
    /\ UNCHANGED <<doc, results, renderer, child, pipe, threadVars>>

\* TIMEOUT after the document's deadline is a limit of the document.
CallFailed ==
    IF ocr.failure = "timeout" /\ doc.late THEN DocumentEnds ELSE PageFails(ocr.failure)

\* The renderer's process is joined, terminated or killed; its image is counted.
CountEvidence ==
    /\ ocr.at = "rendered"
    /\ renderer' = "none"
    /\ \/ /\ ocr.failure # "none" /\ CallFailed /\ UNCHANGED threadVars
       \/ /\ ocr.failure = "none"
          /\ \/ doc.late /\ DocumentEnds /\ UNCHANGED threadVars
             \/ ~doc.late /\ PageFails("limit") /\ UNCHANGED threadVars
             \/ \E size \in ImageSizes :
                  /\ ~doc.late
                  /\ IF doc.evidence + size > MaxEvidence
                     THEN DocumentEnds /\ UNCHANGED threadVars
                     ELSE /\ ocr' = [NoOcrCall EXCEPT !.at = "starting"]
                          /\ doc' = [doc EXCEPT !.evidence = @ + size]
                          /\ writer' = [NoWriter EXCEPT !.left = size]
                          /\ UNCHANGED <<results, reader>>
    /\ UNCHANGED <<child, pipe>>

ThreadsEnded == reader \in {"none", "ended"} /\ writer.st \in {"none", "ended"}

\* The text of a call that returned is counted, or its error recorded; the
\* text may be too long or not decodable.
CountText ==
    LET text == doc.text + ocr.stdout IN
    /\ ocr.at = "returned"
    /\ IF ocr.failure # "none" THEN CallFailed
       ELSE IF doc.late THEN DocumentEnds
       ELSE \/ \E code \in {"failed", "limit"} : PageFails(code)
            \/ IF text > MaxText THEN DocumentEnds
               ELSE PageEnds([code |-> "none", text |-> ocr.stdout],
                             [doc EXCEPT !.text = text])
    /\ child' = NoChild /\ pipe' = EmptyPipes
    /\ reader' = "none" /\ writer' = NoWriter
    /\ UNCHANGED renderer

-----------------------------------------------------------------------------
(* _run_tesseract_process *)

\* OCR may be disabled, and Popen or the start of the second thread may fail.
StartChild ==
    /\ ocr.at = "starting"
    /\ \/ /\ \E code \in {"disabled", "failed"} : ocr' = Failing(code, "returned")
          /\ UNCHANGED <<child, threadVars>>
       \/ /\ child' = [NoChild EXCEPT !.st = "running"]
          /\ reader' = "reading"
          /\ \/ writer' = [writer EXCEPT !.st = "writing"] /\ ocr' = OcrAt("reading")
             \/ UNCHANGED writer /\ ocr' = Failing("failed", "stopping")
    /\ UNCHANGED <<doc, results, renderer, pipe>>

Exited == child.st # "running"

\* All output is there when the child has exited and its pipe has ended.
HeardAll == Exited /\ ocr.eof

\* One round of the loop: a message, or none within 0.05 s.
ReadMessage ==
    /\ ocr.at = "reading"
    /\ IF ocr.messages = <<>>
       THEN HeardAll /\ ocr' = OcrAt("waiting")
       ELSE LET rest == [ocr EXCEPT !.messages = Tail(@)] IN
            ocr' = CASE Head(ocr.messages) = "data" ->
                          IF ocr.stdout + 1 > MaxOutput
                          THEN [rest EXCEPT !.at = "stopping", !.failure = "limit"]
                          ELSE [rest EXCEPT !.stdout = @ + 1]
                     [] Head(ocr.messages) = "eof" ->
                          [rest EXCEPT !.eof = TRUE,
                                       !.at = IF Exited THEN "waiting" ELSE @]
                     [] OTHER -> [rest EXCEPT !.at = "stopping", !.failure = "failed"]
    /\ UNCHANGED <<doc, results, renderer, child, pipe, threadVars>>

\* The input must have been written, and the child have ended well.
AwaitWriter ==
    /\ ocr.at = "waiting"
    /\ writer.st = "ended"
    /\ ocr' = IF writer.failed \/ child.code # 0 THEN Failing("failed", "stopping")
              ELSE OcrAt("stopping")
    /\ UNCHANGED <<doc, results, renderer, child, pipe, threadVars>>

CallTimesOut ==
    /\ ocr.at \in {"reading", "waiting"}
    /\ ocr.late
    /\ ocr' = Failing("timeout", "stopping")
    /\ UNCHANGED <<doc, results, renderer, child, pipe, threadVars>>

\* _ProcessBoundary.terminate, stop.set and the close of both pipes: a child
\* that ignores SIGTERM is killed with its group; when it ends at SIGTERM, the
\* processes it started may go on.
StopCall ==
    /\ ocr.at = "stopping"
    /\ \E left \in SUBSET {"in", "out"} :
         /\ child.st = "exited" => left \subseteq child.heirs
         /\ ocr.failure = "none" => left = child.heirs
         /\ child' = [child EXCEPT !.st = IF @ = "running" THEN "killed" ELSE @,
                                   !.heirs = left]
    /\ ocr' = [ocr EXCEPT !.at = "joining", !.stop = TRUE]
    /\ UNCHANGED <<doc, results, renderer, pipe, threadVars>>

\* Variant: the joins have no time limit.
JoinForEver == ThreadsEnded

\* Each thread is waited for at most 0.25 s.
Joined == TRUE

\* _ProcessBoundary.close kills what is left of the group.
CloseCall ==
    /\ ocr.at = "joining"
    /\ Joined
    /\ child' = [child EXCEPT !.heirs = {}]
    /\ ocr' = OcrAt("closed")
    /\ UNCHANGED <<doc, results, renderer, pipe, threadVars>>

\* The result is returned or the error raised; see above for the threads.
ReturnCall ==
    /\ ocr.at = "closed"
    /\ ThreadsEnded
    /\ ocr' = OcrAt("returned")
    /\ UNCHANGED <<doc, results, renderer, child, pipe, threadVars>>

-----------------------------------------------------------------------------
(* The child *)

ChildReads ==
    /\ child.st = "running" /\ pipe.in > 0
    /\ pipe' = [pipe EXCEPT !.in = @ - 1]
    /\ UNCHANGED child

ChildWrites ==
    /\ child.st = "running" /\ pipe.out < PipeSize /\ child.given < MaxGiven
    /\ pipe' = [pipe EXCEPT !.out = @ + 1]
    /\ child' = [child EXCEPT !.given = @ + 1]

ChildExits ==
    /\ child.st = "running"
    /\ \E code \in {0, 1}, heirs \in SUBSET {"in", "out"} :
         child' = [child EXCEPT !.st = "exited", !.code = code, !.heirs = heirs]
    /\ UNCHANGED pipe

ChildStep ==
    /\ ChildReads \/ ChildWrites \/ ChildExits
    /\ UNCHANGED <<doc, results, ocr, renderer, threadVars>>

Held(end) == child.st = "running" \/ end \in child.heirs

-----------------------------------------------------------------------------
(* The threads *)

\* os.read: a chunk, the end, or a closed descriptor; it waits while the pipe
\* is empty and somebody could write to it.
ReaderReads ==
    /\ reader = "reading"
    /\ \/ pipe.out > 0 /\ ~ocr.stop
          /\ reader' = "data" /\ pipe' = [pipe EXCEPT !.out = @ - 1]
       \/ pipe.out = 0 /\ ~Held("out") /\ reader' = "eof" /\ UNCHANGED pipe
       \/ ocr.stop /\ pipe.out > 0 /\ reader' = "error" /\ UNCHANGED pipe
    /\ UNCHANGED <<ocr, writer>>

\* _put_process_message tries until there is room or it is told to stop.
ReaderPuts ==
    /\ reader \in {"data", "eof", "error"}
    /\ IF ocr.stop THEN reader' = "ended" /\ UNCHANGED ocr
       ELSE /\ Len(ocr.messages) < MessageLimit
            /\ ocr' = [ocr EXCEPT !.messages = Append(@, reader)]
            /\ reader' = IF reader = "data" THEN "reading" ELSE "ended"
    /\ UNCHANGED <<pipe, writer>>

\* os.write: it waits while the pipe is full and somebody could read it.
WriterWrites ==
    /\ writer.st = "writing"
    /\ \/ /\ Held("in") /\ ~ocr.stop /\ writer.left > 0 /\ pipe.in < PipeSize
          /\ writer' = [writer EXCEPT !.left = @ - 1]
          /\ pipe' = [pipe EXCEPT !.in = @ + 1]
       \/ /\ writer.left > 0
          /\ ~Held("in") \/ (ocr.stop /\ pipe.in < PipeSize)
          /\ writer' = [writer EXCEPT !.st = "closing", !.failed = TRUE]
          /\ UNCHANGED pipe
       \/ /\ writer.left = 0
          /\ writer' = [writer EXCEPT !.st = "closing"] /\ UNCHANGED pipe
    /\ UNCHANGED <<ocr, reader>>

WriterCloses ==
    /\ writer.st = "closing"
    /\ writer' = [writer EXCEPT !.st = "ended"]
    /\ UNCHANGED <<ocr, pipe, reader>>

ReaderStep == (ReaderReads \/ ReaderPuts) /\ UNCHANGED <<doc, results, renderer, child>>
WriterStep == (WriterWrites \/ WriterCloses) /\ UNCHANGED <<doc, results, renderer, child>>

-----------------------------------------------------------------------------

CallIsLate ==
    /\ ocr.at \in {"rendering", "reading", "waiting"} /\ ~ocr.late
    /\ ocr' = [ocr EXCEPT !.late = TRUE]
    /\ UNCHANGED <<doc, results, renderer, child, pipe, threadVars>>

DocumentIsLate ==
    /\ ocr.at # "idle" /\ ocr.at # "done" /\ ~doc.late
    /\ doc' = [doc EXCEPT !.late = TRUE]
    /\ UNCHANGED <<results, ocr, renderer, child, pipe, threadVars>>

ParentStep ==
    \/ TakePage \/ PollRenderer \/ ReceiveImage \/ CountEvidence \/ StartChild \/ ReadMessage
    \/ AwaitWriter \/ CallTimesOut \/ StopCall \/ CloseCall \/ ReturnCall \/ CountText

OcrNext ==
    \/ OcrBegin \/ ParentStep \/ ReaderStep \/ WriterStep
    \/ RenderWorker \/ ChildStep \/ CallIsLate \/ DocumentIsLate

(* The parent and its threads run and time passes; the processes need not  *)
(* do anything.                                                            *)
OcrFairness ==
    /\ WF_ocrVars(ParentStep) /\ WF_ocrVars(CallIsLate)
    /\ WF_ocrVars(ReaderStep) /\ WF_ocrVars(WriterStep)

OcrSpec == OcrInit /\ [][OcrNext]_ocrVars /\ OcrFairness

-----------------------------------------------------------------------------

(* A text that a call returns is all that a child wrote which ended well   *)
(* and was given the whole image, though two threads, two bounded pipes    *)
(* and a queue lie between; and no process outlives the call.              *)
OcrTextIsWhole ==
    ocr.at \in {"closed", "returned"} =>
        /\ ocr.failure = "none" /\ child.st # "none" =>
             /\ child.code = 0 /\ child.st = "exited"
             /\ ocr.stdout = child.given
             /\ writer.left = 0 /\ ~writer.failed
        /\ child.st # "running" /\ child.heirs = {}

(* Every page of a document gets its checkpoint within the document's      *)
(* limits, and in the end no thread of a call is left behind, whatever     *)
(* tesseract does and unless a renderer stalls in the middle of an image,  *)
(* for which the parent waits past every deadline (ocr.py:879-882).        *)
OcrCallsEnd ==
    /\ [](/\ OcrTextIsWhole
          /\ doc.evidence <= MaxEvidence /\ doc.text <= MaxText
          /\ \A i \in DOMAIN results : results[i].code = "none" => i <= MaxOcrPages)
    /\ \/ <>[](/\ ocr.at \in {"idle", "done"} /\ ThreadsEnded
               /\ ocr.at = "done" => Len(results) = LastPage)
       \/ <>[](ocr.at = "receiving" /\ renderer = "sending")
=============================================================================
