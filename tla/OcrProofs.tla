------------------------------ MODULE OcrProofs ------------------------------
(***************************************************************************)
(* Proofs about OcrCalls.                                                  *)
(*                                                                         *)
(* While a call reads, every chunk that the child has written is counted,  *)
(* queued, in the reader's hand or in the pipe, and an end that is on its  *)
(* way is the end (NoChunkIsLost); with the child's exit, and a writer     *)
(* that ends well only with nothing left (WriterIsHonest), a call that     *)
(* stops without a failure has the whole text (StoppedWhole).              *)
(***************************************************************************)
EXTENDS OcrCalls, SequenceTheorems, TLAPS

-----------------------------------------------------------------------------
Places == {"idle", "next", "rendering", "receiving", "rendered", "starting",
           "reading", "waiting", "stopping", "joining", "closed", "returned", "done"}
Messages == {"data", "eof", "error"}
Heirs == SUBSET {"in", "out"}

OcrDoc == [page : 1 .. LastPage + 1, limit : BOOLEAN, late : BOOLEAN,
           evidence : Nat, text : Nat]
OcrResult == [code : Codes \cup {"none"}, text : Nat]
OcrCall == [at : Places, late : BOOLEAN, stdout : Nat, eof : BOOLEAN, stop : BOOLEAN,
            messages : Seq(Messages), failure : Codes \cup {"none"}]
OcrChild == [st : {"none", "running", "exited", "killed"}, code : {0, 1}, given : Nat,
             heirs : Heirs]
OcrPipes == [in : 0 .. PipeSize, out : 0 .. PipeSize]
OcrWriter == [st : {"none", "writing", "closing", "ended"}, left : Nat, failed : BOOLEAN]

OcrShapes ==
    /\ doc \in OcrDoc
    /\ results \in Seq(OcrResult)
    /\ ocr \in OcrCall
    /\ child \in OcrChild
    /\ pipe \in OcrPipes
    /\ reader \in {"none", "reading", "ended"} \cup Messages
    /\ writer \in OcrWriter

(* A page is taken within the limits, and its checkpoint follows those of    *)
(* the pages before it.                                                      *)
PagesInOrder ==
    /\ Len(results) = doc.page - 1
    /\ doc.evidence <= MaxEvidence /\ doc.text <= MaxText
    /\ \A i \in DOMAIN results : results[i].code = "none" => i <= MaxOcrPages
    /\ ocr.at \notin {"idle", "next", "done"} =>
         doc.page <= LastPage /\ doc.page <= MaxOcrPages

(* Nothing of an earlier call is left when the next one begins. *)
CallIsNew ==
    ocr.at \in {"idle", "next", "rendering", "receiving", "rendered", "starting", "done"} =>
        /\ child = NoChild /\ pipe = EmptyPipes /\ reader = "none"
        /\ writer.st = "none" /\ ~writer.failed
        /\ ocr.stdout = 0 /\ ~ocr.eof /\ ~ocr.stop /\ ocr.messages = <<>>
        /\ ocr.at # "rendered" => ocr.failure = "none"

(* Where the call is tells what child and threads may do. *)
CallUnderWay ==
    /\ ocr.at \in {"reading", "waiting"} => ocr.failure = "none" /\ writer.st # "none"
    /\ ocr.at \in {"reading", "waiting", "stopping"} =>
         ~ocr.stop /\ child.st \in {"running", "exited"} /\ reader # "none"
    /\ ocr.at \in {"joining", "closed"} => child.st \in {"exited", "killed"}
    /\ ocr.at \in {"closed", "returned"} => child.st # "running" /\ child.heirs = {}

(* The writer ends without a failure only with nothing left to write. *)
WriterIsHonest ==
    writer.st \in {"closing", "ended"} /\ ~writer.failed => writer.left = 0

(* What is in the reader's queue: chunks, and after the last the end. *)
Ended(s) == s # <<>> /\ s[Len(s)] # "data"
Queued(s) == \A i \in 1 .. Len(s) - 1 : s[i] = "data"
Chunks(s) == IF Ended(s) THEN Len(s) - 1 ELSE Len(s)
InHand(r) == IF r = "data" THEN 1 ELSE 0

OutClosed == pipe.out = 0 /\ child.st = "exited" /\ "out" \notin child.heirs

(* While a call reads, every chunk the child wrote is counted, queued, in    *)
(* the reader's hand or in the pipe; and an end that is on its way, or has   *)
(* been seen, is the end.                                                    *)
NoChunkIsLost ==
    ocr.at \in {"reading", "waiting"} =>
        /\ child.given = ocr.stdout + Chunks(ocr.messages) + InHand(reader) + pipe.out
        /\ Queued(ocr.messages)
        /\ reader # "error"
        /\ Ended(ocr.messages) => reader = "ended"
        /\ reader = "eof" => OutClosed
        /\ reader = "ended" => OutClosed /\ (ocr.eof \/ Ended(ocr.messages))
        /\ ocr.eof => reader = "ended" /\ ocr.messages = <<>>
        /\ ocr.at = "waiting" => ocr.eof

(* A call that has not failed when it stops has the whole text. *)
StoppedWhole ==
    ocr.at \in {"stopping", "joining", "closed", "returned"} /\ ocr.failure = "none"
    /\ child.st # "none" =>
        /\ child.st = "exited" /\ child.code = 0 /\ ocr.stdout = child.given
        /\ reader = "ended" /\ writer.st = "ended" /\ ~writer.failed

OcrInv ==
    /\ OcrShapes
    /\ PagesInOrder
    /\ CallIsNew
    /\ CallUnderWay
    /\ WriterIsHonest
    /\ NoChunkIsLost
    /\ StoppedWhole

-----------------------------------------------------------------------------
LEMMA OcrInitInv == OcrInit => OcrInv
<1> SUFFICES ASSUME OcrInit PROVE OcrInv
  OBVIOUS
<1>1. ocr = [at |-> "idle", late |-> FALSE, stdout |-> 0, eof |-> FALSE,
             stop |-> FALSE, messages |-> <<>>, failure |-> "none"]
  BY DEF OcrInit, NoOcrCall
<1>2. OcrShapes
  <2>1. <<>> \in Seq(Messages) /\ <<>> \in Seq(OcrResult)
    OBVIOUS
  <2>2. doc \in OcrDoc
    BY OcrAssumption DEF OcrInit, OcrDoc
  <2>3. ocr \in OcrCall
    BY <1>1, <2>1 DEF OcrCall, Places, Codes
  <2>4. child \in OcrChild /\ pipe \in OcrPipes /\ writer \in OcrWriter
    BY OcrAssumption DEF OcrInit, OcrChild, OcrPipes, OcrWriter, Heirs, NoChild,
       EmptyPipes, NoWriter
  <2> QED
    BY <2>1, <2>2, <2>3, <2>4 DEF OcrInit, OcrShapes
<1>3. PagesInOrder
  BY <1>1, OcrAssumption DEF OcrInit, PagesInOrder
<1>4. CallIsNew /\ CallUnderWay /\ WriterIsHonest /\ NoChunkIsLost /\ StoppedWhole
  BY <1>1 DEF OcrInit, CallIsNew, CallUnderWay, WriterIsHonest, NoChunkIsLost,
     StoppedWhole, NoWriter, NoChild
<1> QED
  BY <1>2, <1>3, <1>4 DEF OcrInv

(* What Failing and OcrAt change of a call. *)
LEMMA FailingFields ==
  ASSUME ocr \in OcrCall, NEW code \in Codes, NEW where \in Places
  PROVE  /\ Failing(code, where) \in OcrCall
         /\ Failing(code, where).at = where /\ Failing(code, where).failure = code
         /\ Failing(code, where).late = ocr.late /\ Failing(code, where).stop = ocr.stop
         /\ Failing(code, where).stdout = ocr.stdout /\ Failing(code, where).eof = ocr.eof
         /\ Failing(code, where).messages = ocr.messages
<1> DEFINE x == [ocr EXCEPT !.at = where]
<1>1. /\ x \in OcrCall /\ x.at = where /\ x.late = ocr.late /\ x.stop = ocr.stop
      /\ x.stdout = ocr.stdout /\ x.eof = ocr.eof /\ x.messages = ocr.messages
  BY DEF OcrCall
<1>2. Failing(code, where) = [x EXCEPT !.failure = code]
  BY DEF Failing
<1> HIDE DEF x
<1> DEFINE z == [x EXCEPT !.failure = code]
<1>3. /\ z \in OcrCall /\ z.at = x.at /\ z.failure = code /\ z.late = x.late
      /\ z.stop = x.stop /\ z.stdout = x.stdout /\ z.eof = x.eof /\ z.messages = x.messages
  BY <1>1 DEF OcrCall
<1> HIDE DEF z
<1>4. Failing(code, where) = z
  BY <1>2 DEF z
<1> QED
  BY <1>1, <1>3, <1>4

LEMMA AtFields ==
  ASSUME ocr \in OcrCall, NEW where \in Places
  PROVE  /\ OcrAt(where) \in OcrCall
         /\ OcrAt(where).at = where /\ OcrAt(where).failure = ocr.failure
         /\ OcrAt(where).late = ocr.late /\ OcrAt(where).stop = ocr.stop
         /\ OcrAt(where).stdout = ocr.stdout /\ OcrAt(where).eof = ocr.eof
         /\ OcrAt(where).messages = ocr.messages
BY DEF OcrAt, OcrCall

LEMMA NewCall ==
  /\ NoOcrCall \in OcrCall /\ NoChild \in OcrChild /\ EmptyPipes \in OcrPipes
  /\ NoWriter \in OcrWriter
  /\ NoOcrCall.at = "next" /\ NoOcrCall.failure = "none" /\ NoOcrCall.stdout = 0
  /\ ~NoOcrCall.eof /\ ~NoOcrCall.stop /\ NoOcrCall.messages = <<>>
  /\ NoChild.st = "none" /\ NoChild.heirs = {} /\ NoChild.given = 0
  /\ EmptyPipes.out = 0
  /\ NoWriter.st = "none" /\ ~NoWriter.failed
<1>1. <<>> \in Seq(Messages)
  OBVIOUS
<1> QED
  BY <1>1, OcrAssumption DEF NoOcrCall, NoChild, EmptyPipes, NoWriter, OcrCall, OcrChild,
     OcrPipes, OcrWriter, Places, Codes, Heirs

(* A page ends with its checkpoint, and nothing of its call is left. *)
LEMMA PageEnded ==
  ASSUME OcrInv, NEW r \in OcrResult, NEW d \in OcrDoc, PageEnds(r, d),
         d.page = doc.page, doc.page <= LastPage,
         d.evidence <= MaxEvidence, d.text <= MaxText,
         r.code = "none" => doc.page <= MaxOcrPages,
         child' = NoChild, pipe' = EmptyPipes, reader' = "none",
         writer' \in OcrWriter, writer'.st = "none", ~writer'.failed
  PROVE  OcrInv'
<1> USE DEF OcrInv
<1>1. results' = Append(results, r) /\ doc' = [d EXCEPT !.page = @ + 1] /\ ocr' = NoOcrCall
  BY DEF PageEnds
<1>2. doc.page \in Nat /\ doc.page >= 1
  BY DEF OcrShapes, OcrDoc
<1>3. /\ doc' \in OcrDoc /\ doc'.page = doc.page + 1
      /\ doc'.evidence = d.evidence /\ doc'.text = d.text
  <2>1. doc.page + 1 \in 1 .. LastPage + 1 /\ d.page + 1 = doc.page + 1
    BY <1>2, OcrAssumption
  <2>2. doc' = [d EXCEPT !.page = doc.page + 1]
    BY <1>1
  <2> QED
    BY <2>1, <2>2 DEF OcrDoc
<1>4. /\ results' \in Seq(OcrResult) /\ Len(results') = Len(results) + 1
      /\ \A i \in 1 .. Len(results) : results'[i] = results[i]
      /\ results'[Len(results) + 1] = r
      /\ DOMAIN results' = 1 .. Len(results) + 1 /\ DOMAIN results = 1 .. Len(results)
      /\ Len(results) \in Nat
  BY <1>1 DEF OcrShapes
<1>5. OcrShapes'
  BY <1>1, <1>3, <1>4, NewCall DEF OcrShapes
<1>6. PagesInOrder'
  <2>1. Len(results') = doc'.page - 1
    BY <1>2, <1>3, <1>4 DEF PagesInOrder
  <2>2. ASSUME NEW i \in DOMAIN results', results'[i].code = "none"
        PROVE  i <= MaxOcrPages
    <3>1. CASE i \in 1 .. Len(results)
      BY <1>4, <2>2, <3>1 DEF PagesInOrder
    <3>2. CASE i = Len(results) + 1
      BY <1>2, <1>4, <2>2, <3>2 DEF PagesInOrder
    <3> QED
      BY <1>4, <3>1, <3>2
  <2> QED
    BY <1>1, <1>3, <2>1, <2>2, NewCall DEF PagesInOrder
<1>7. CallIsNew' /\ CallUnderWay' /\ WriterIsHonest' /\ NoChunkIsLost' /\ StoppedWhole'
  BY <1>1, NewCall DEF CallIsNew, CallUnderWay, WriterIsHonest, NoChunkIsLost, StoppedWhole
<1> QED
  BY <1>5, <1>6, <1>7

LEMMA FailedPage ==
  ASSUME OcrInv, doc.page <= LastPage,
         DocumentEnds \/ \E code \in Codes : PageFails(code),
         child' = NoChild, pipe' = EmptyPipes, reader' = "none",
         writer' \in OcrWriter, writer'.st = "none", ~writer'.failed
  PROVE  OcrInv'
<1>1. doc \in OcrDoc /\ doc.evidence <= MaxEvidence /\ doc.text <= MaxText
  BY DEF OcrInv, OcrShapes, PagesInOrder
<1>2. CASE DocumentEnds
  <2> DEFINE d == [doc EXCEPT !.limit = TRUE]
             r == [code |-> "limit", text |-> 0]
  <2>1. d \in OcrDoc /\ d.page = doc.page /\ d.evidence = doc.evidence /\ d.text = doc.text
    BY <1>1 DEF OcrDoc
  <2>2. r \in OcrResult /\ r.code # "none"
    BY DEF OcrResult, Codes
  <2>3. PageEnds(r, d)
    BY <1>2 DEF DocumentEnds
  <2> HIDE DEF d, r
  <2> QED
    BY <1>1, <2>1, <2>2, <2>3, PageEnded
<1>3. ASSUME NEW code \in Codes, PageFails(code) PROVE OcrInv'
  <2> DEFINE r == [code |-> code, text |-> 0]
  <2>1. r \in OcrResult /\ r.code # "none"
    BY DEF OcrResult, Codes
  <2>2. PageEnds(r, doc)
    BY <1>3 DEF PageFails
  <2> HIDE DEF r
  <2> QED
    BY <1>1, <2>1, <2>2, PageEnded
<1> QED
  BY <1>2, <1>3

BeforeCall == {"idle", "next", "rendering", "receiving", "rendered", "starting", "done"}

(* A step of the loop before a call has begun. *)
LEMMA StillNew ==
  ASSUME OcrInv, ocr.at \in BeforeCall, ocr' \in OcrCall, ocr'.at \in BeforeCall,
         ocr'.stdout = 0, ~ocr'.eof, ~ocr'.stop, ocr'.messages = <<>>,
         ocr'.at # "rendered" => ocr'.failure = "none",
         ocr'.at \notin {"idle", "next", "done"} =>
            doc.page <= LastPage /\ doc.page <= MaxOcrPages,
         doc' \in OcrDoc, doc'.page = doc.page,
         doc'.evidence <= MaxEvidence, doc'.text <= MaxText,
         UNCHANGED <<results, child, pipe, reader>>,
         writer' \in OcrWriter, writer'.st = "none", ~writer'.failed
  PROVE  OcrInv'
<1> USE DEF OcrInv, BeforeCall
<1>1. /\ child = NoChild /\ pipe = EmptyPipes /\ reader = "none"
  BY DEF CallIsNew
<1>2. OcrShapes'
  BY DEF OcrShapes
<1>3. PagesInOrder'
  BY DEF PagesInOrder
<1>4. CallIsNew'
  BY <1>1 DEF CallIsNew
<1>5. CallUnderWay' /\ WriterIsHonest' /\ NoChunkIsLost' /\ StoppedWhole'
  BY DEF CallUnderWay, WriterIsHonest, NoChunkIsLost, StoppedWhole
<1> QED
  BY <1>2, <1>3, <1>4, <1>5

LEMMA LoopInv ==
  ASSUME OcrInv,
         OcrBegin \/ TakePage \/ PollRenderer \/ ReceiveImage \/ RenderWorker
  PROVE  OcrInv'
<1> USE DEF OcrInv
<1>1. /\ ocr \in OcrCall /\ doc \in OcrDoc /\ writer \in OcrWriter
      /\ doc.evidence <= MaxEvidence /\ doc.text <= MaxText /\ doc.page \in Nat
  BY DEF OcrShapes, PagesInOrder, OcrDoc
<1>2. ocr.at \in BeforeCall =>
        /\ writer.st = "none" /\ ~writer.failed /\ ocr.stdout = 0 /\ ~ocr.eof /\ ~ocr.stop
        /\ ocr.messages = <<>> /\ (ocr.at # "rendered" => ocr.failure = "none")
        /\ child = NoChild /\ pipe = EmptyPipes /\ reader = "none"
  BY DEF CallIsNew, BeforeCall
<1>3. CASE OcrBegin
  <2>1. ocr.at = "idle" /\ ocr' = OcrAt("next")
        /\ UNCHANGED <<doc, results, child, pipe, reader, writer>>
    BY <1>3 DEF OcrBegin, threadVars
  <2>2. ocr' \in OcrCall /\ ocr'.at = "next" /\ ocr'.failure = ocr.failure
        /\ ocr'.stdout = ocr.stdout /\ ocr'.eof = ocr.eof /\ ocr'.stop = ocr.stop
        /\ ocr'.messages = ocr.messages
    BY <1>1, <2>1, AtFields DEF Places
  <2> QED
    BY <1>1, <1>2, <2>1, <2>2, StillNew DEF BeforeCall
<1>4. CASE TakePage
  <2>1. ocr.at = "next" /\ UNCHANGED <<child, pipe, reader, writer>>
    BY <1>4 DEF TakePage, threadVars
  <2>2. CASE doc.page > LastPage
    <3>1. ocr' = OcrAt("done") /\ UNCHANGED <<doc, results>>
      BY <1>4, <2>2 DEF TakePage
    <3>2. ocr' \in OcrCall /\ ocr'.at = "done" /\ ocr'.failure = ocr.failure
          /\ ocr'.stdout = ocr.stdout /\ ocr'.eof = ocr.eof /\ ocr'.stop = ocr.stop
          /\ ocr'.messages = ocr.messages
      BY <1>1, <3>1, AtFields DEF Places
    <3> QED
      BY <1>1, <1>2, <2>1, <3>1, <3>2, StillNew DEF BeforeCall
  <2>3. CASE ~(doc.page > LastPage) /\ (doc.limit \/ doc.page > MaxOcrPages \/ doc.late)
    <3>1. DocumentEnds
      BY <1>4, <2>3 DEF TakePage
    <3>2. doc.page <= LastPage
      BY <1>1, <2>3, OcrAssumption
    <3> QED
      BY <1>1, <1>2, <2>1, <3>1, <3>2, FailedPage DEF BeforeCall
  <2>4. CASE ~(doc.page > LastPage) /\ ~(doc.limit \/ doc.page > MaxOcrPages \/ doc.late)
    <3>1. ocr' = OcrAt("rendering") /\ UNCHANGED <<doc, results>>
      BY <1>4, <2>4 DEF TakePage
    <3>2. doc.page <= LastPage /\ doc.page <= MaxOcrPages
      BY <1>1, <2>4, OcrAssumption
    <3>3. ocr' \in OcrCall /\ ocr'.at = "rendering" /\ ocr'.failure = ocr.failure
          /\ ocr'.stdout = ocr.stdout /\ ocr'.eof = ocr.eof /\ ocr'.stop = ocr.stop
          /\ ocr'.messages = ocr.messages
      BY <1>1, <3>1, AtFields DEF Places
    <3> QED
      BY <1>1, <1>2, <2>1, <3>1, <3>2, <3>3, StillNew DEF BeforeCall
  <2> QED
    BY <2>2, <2>3, <2>4
<1>5. CASE PollRenderer \/ ReceiveImage
  <2>1. /\ ocr.at \in {"rendering", "receiving"}
        /\ UNCHANGED <<doc, results, child, pipe, reader, writer>>
        /\ \/ ocr' = OcrAt("receiving") \/ ocr' = OcrAt("rendered")
           \/ \E code \in Codes : ocr' = Failing(code, "rendered")
    BY <1>5 DEF PollRenderer, ReceiveImage, threadVars, Codes
  <2>2. ocr' \in OcrCall /\ ocr'.stdout = ocr.stdout /\ ocr'.eof = ocr.eof
        /\ ocr'.stop = ocr.stop /\ ocr'.messages = ocr.messages
        /\ \/ ocr'.at = "receiving" /\ ocr'.failure = ocr.failure
           \/ ocr'.at = "rendered"
    BY <1>1, <2>1, AtFields, FailingFields DEF Places
  <2>3. doc.page <= LastPage /\ doc.page <= MaxOcrPages
    BY <2>1 DEF PagesInOrder
  <2> QED
    BY <1>1, <1>2, <2>1, <2>2, <2>3, StillNew DEF BeforeCall
<1>6. CASE RenderWorker
  BY <1>6 DEF RenderWorker, threadVars, OcrShapes, PagesInOrder, CallIsNew, CallUnderWay,
     WriterIsHonest, NoChunkIsLost, OutClosed, StoppedWhole
<1> QED
  BY <1>3, <1>4, <1>5, <1>6

LEMMA CountInv ==
  ASSUME OcrInv, CountEvidence \/ CountText
  PROVE  OcrInv'
<1> USE DEF OcrInv
<1>1. /\ ocr \in OcrCall /\ doc \in OcrDoc /\ writer \in OcrWriter
      /\ doc.evidence <= MaxEvidence /\ doc.text <= MaxText /\ doc.page \in Nat
      /\ doc.evidence \in Nat /\ doc.text \in Nat
      /\ ocr.failure \in Codes \cup {"none"} /\ ocr.stdout \in Nat
  BY DEF OcrShapes, PagesInOrder, OcrDoc, OcrCall
<1>2. ocr.at \in {"rendered", "returned"}
  BY DEF CountEvidence, CountText
<1>3. doc.page <= LastPage /\ doc.page <= MaxOcrPages
  BY <1>2 DEF PagesInOrder
<1>4. CallFailed /\ ocr.failure # "none" => DocumentEnds \/ \E code \in Codes : PageFails(code)
  BY <1>1 DEF CallFailed
<1>5. CASE CountEvidence
  <2>1. /\ ocr.at = "rendered" /\ UNCHANGED <<child, pipe>>
        /\ child = NoChild /\ pipe = EmptyPipes /\ reader = "none"
        /\ writer.st = "none" /\ ~writer.failed
    BY <1>5 DEF CountEvidence, CallIsNew
  <2>2. CASE UNCHANGED threadVars /\ (DocumentEnds \/ \E code \in Codes : PageFails(code))
    BY <1>1, <1>3, <2>1, <2>2, FailedPage DEF threadVars
  <2>3. ASSUME NEW size \in ImageSizes, ~(doc.evidence + size > MaxEvidence),
               ocr' = [NoOcrCall EXCEPT !.at = "starting"],
               doc' = [doc EXCEPT !.evidence = @ + size],
               writer' = [NoWriter EXCEPT !.left = size],
               UNCHANGED <<results, reader>>
        PROVE  OcrInv'
    <3>1. size \in Nat /\ doc.evidence + size \in Nat /\ doc.evidence + size <= MaxEvidence
      BY <1>1, <2>3, OcrAssumption
    <3>2. ocr' \in OcrCall /\ ocr'.at = "starting" /\ ocr'.failure = "none"
          /\ ocr'.stdout = 0 /\ ~ocr'.eof /\ ~ocr'.stop /\ ocr'.messages = <<>>
      <4>1. ocr' \in OcrCall /\ ocr'.at = "starting" /\ ocr'.failure = NoOcrCall.failure
            /\ ocr'.stdout = NoOcrCall.stdout /\ ocr'.eof = NoOcrCall.eof
            /\ ocr'.stop = NoOcrCall.stop /\ ocr'.messages = NoOcrCall.messages
        BY <2>3, NewCall DEF OcrCall, Places
      <4> QED
        BY <4>1, NewCall
    <3>3. doc' \in OcrDoc /\ doc'.page = doc.page /\ doc'.text = doc.text
          /\ doc'.evidence = doc.evidence + size
      BY <1>1, <2>3, <3>1 DEF OcrDoc
    <3>4. writer' \in OcrWriter /\ writer'.st = "none" /\ ~writer'.failed
      <4>1. writer' \in OcrWriter /\ writer'.st = NoWriter.st /\ writer'.failed = NoWriter.failed
        BY <2>3, <3>1, NewCall DEF OcrWriter
      <4> QED
        BY <4>1, NewCall
    <3> QED
      BY <1>1, <1>3, <2>1, <2>3, <3>1, <3>2, <3>3, <3>4, StillNew DEF BeforeCall
  <2>4. \/ UNCHANGED threadVars /\ (DocumentEnds \/ \E code \in Codes : PageFails(code))
        \/ \E size \in ImageSizes :
             /\ ~(doc.evidence + size > MaxEvidence)
             /\ ocr' = [NoOcrCall EXCEPT !.at = "starting"]
             /\ doc' = [doc EXCEPT !.evidence = @ + size]
             /\ writer' = [NoWriter EXCEPT !.left = size]
             /\ UNCHANGED <<results, reader>>
    BY <1>4, <1>5 DEF CountEvidence, Codes
  <2> QED
    BY <2>2, <2>3, <2>4
<1>6. CASE CountText
  <2>1. child' = NoChild /\ pipe' = EmptyPipes /\ reader' = "none" /\ writer' = NoWriter
    BY <1>6 DEF CountText
  <2>2. CASE DocumentEnds \/ \E code \in Codes : PageFails(code)
    BY <1>3, <2>1, <2>2, NewCall, FailedPage
  <2>3. CASE /\ ~(doc.text + ocr.stdout > MaxText)
             /\ PageEnds([code |-> "none", text |-> ocr.stdout],
                         [doc EXCEPT !.text = doc.text + ocr.stdout])
    <3> DEFINE d == [doc EXCEPT !.text = doc.text + ocr.stdout]
               r == [code |-> "none", text |-> ocr.stdout]
    <3>1. d \in OcrDoc /\ d.page = doc.page /\ d.evidence = doc.evidence
          /\ d.text = doc.text + ocr.stdout
      BY <1>1 DEF OcrDoc
    <3>2. r \in OcrResult
      BY <1>1 DEF OcrResult
    <3>3. d.text <= MaxText
      BY <1>1, <2>3, <3>1, OcrAssumption
    <3>4. PageEnds(r, d)
      BY <2>3
    <3> HIDE DEF d, r
    <3> QED
      BY <1>1, <1>3, <2>1, <3>1, <3>2, <3>3, <3>4, NewCall, PageEnded
  <2>4. \/ DocumentEnds \/ \E code \in Codes : PageFails(code)
        \/ /\ ~(doc.text + ocr.stdout > MaxText)
           /\ PageEnds([code |-> "none", text |-> ocr.stdout],
                       [doc EXCEPT !.text = doc.text + ocr.stdout])
    BY <1>4, <1>6 DEF CountText, Codes
  <2> QED
    BY <2>2, <2>3, <2>4
<1> QED
  BY <1>5, <1>6

-----------------------------------------------------------------------------
LEMMA QueueTail ==
  ASSUME NEW s \in Seq(Messages), s # <<>>, Queued(s)
  PROVE  /\ Tail(s) \in Seq(Messages) /\ Head(s) \in Messages
         /\ Head(s) = "data" =>
              /\ Queued(Tail(s)) /\ (Ended(Tail(s)) <=> Ended(s))
              /\ Chunks(s) = Chunks(Tail(s)) + 1
         /\ Head(s) # "data" => Tail(s) = <<>> /\ Ended(s) /\ Chunks(s) = 0
<1>1. /\ Tail(s) \in Seq(Messages) /\ Head(s) = s[1] /\ Len(s) \in Nat /\ Len(s) >= 1
      /\ Len(Tail(s)) = Len(s) - 1
      /\ \A i \in 1 .. Len(s) - 1 : Tail(s)[i] = s[i + 1]
      /\ \A i \in 1 .. Len(s) : s[i] \in Messages
  OBVIOUS
<1>2. Head(s) \in Messages
  BY <1>1
<1> DEFINE t == Tail(s)
<1>0. t = <<>> <=> Len(t) = 0
  <2>1. \A u \in Seq(Messages) : u = <<>> <=> Len(u) = 0
    OBVIOUS
  <2> QED
    BY <1>1, <2>1
<1>3. CASE Head(s) = "data"
  <2>1. ASSUME NEW i \in 1 .. Len(Tail(s)) - 1 PROVE Tail(s)[i] = "data"
    <3>1. i + 1 \in 1 .. Len(s) - 1 /\ i \in 1 .. Len(s) - 1
      BY <1>1
    <3> QED
      BY <1>1, <3>1 DEF Queued
  <2>2. CASE Len(s) = 1
    <3>1. Tail(s) = <<>> /\ Len(Tail(s)) = 0
      BY <1>0, <1>1, <2>2
    <3> QED
      BY <1>1, <1>3, <2>1, <2>2, <3>1 DEF Queued, Ended, Chunks
  <2>3. CASE Len(s) # 1
    <3>1. Len(s) - 1 \in 1 .. Len(s) - 1
      BY <1>1, <2>3
    <3>2. Tail(s) # <<>>
      BY <1>0, <1>1, <3>1
    <3>3. Tail(s)[Len(Tail(s))] = s[Len(s)]
      <4>1. Tail(s)[Len(s) - 1] = s[Len(s) - 1 + 1] /\ Len(s) - 1 + 1 = Len(s)
        BY <1>1, <3>1
      <4> QED
        BY <1>1, <4>1
    <3> QED
      BY <1>1, <1>3, <2>1, <3>1, <3>2, <3>3 DEF Queued, Ended, Chunks
  <2> QED
    BY <1>1, <1>2, <1>3, <2>2, <2>3
<1>4. CASE Head(s) # "data"
  <2>1. Len(s) = 1
    BY <1>1, <1>4 DEF Queued
  <2>2. Tail(s) = <<>>
    BY <1>0, <1>1, <2>1
  <2> QED
    BY <1>1, <1>2, <1>4, <2>1, <2>2 DEF Ended, Chunks
<1> QED
  BY <1>3, <1>4

LEMMA QueueAppend ==
  ASSUME NEW s \in Seq(Messages), NEW m \in Messages
  PROVE  /\ Append(s, m) \in Seq(Messages)
         /\ Queued(s) /\ ~Ended(s) =>
              /\ Queued(Append(s, m)) /\ (Ended(Append(s, m)) <=> m # "data")
              /\ Chunks(Append(s, m)) = Chunks(s) + InHand(m)
<1> DEFINE t == Append(s, m)
<1>1. /\ t \in Seq(Messages) /\ Len(t) = Len(s) + 1 /\ Len(s) \in Nat
      /\ t[Len(s) + 1] = m /\ \A i \in 1 .. Len(s) : t[i] = s[i]
  OBVIOUS
<1>2. t # <<>>
  BY <1>1
<1> HIDE DEF t
<1>3. ASSUME Queued(s), ~Ended(s)
      PROVE  Queued(t) /\ (Ended(t) <=> m # "data") /\ Chunks(t) = Chunks(s) + InHand(m)
  <2>1. \A i \in 1 .. Len(s) : s[i] = "data"
    <3>1. ASSUME NEW i \in 1 .. Len(s) PROVE s[i] = "data"
      <4>1. CASE i = Len(s)
        BY <1>1, <1>3, <4>1 DEF Ended
      <4>2. CASE i # Len(s)
        BY <1>1, <1>3, <4>2 DEF Queued
      <4> QED
        BY <4>1, <4>2
    <3> QED
      BY <3>1
  <2>2. Queued(t)
    BY <1>1, <2>1 DEF Queued
  <2>3. Ended(t) <=> m # "data"
    BY <1>1, <1>2 DEF Ended
  <2>4. Chunks(t) = Chunks(s) + InHand(m)
    BY <1>1, <1>3, <2>3 DEF Chunks, InHand
  <2> QED
    BY <2>2, <2>3, <2>4
<1> QED
  BY <1>1, <1>3 DEF t

LEMMA StartInv ==
  ASSUME OcrInv, StartChild
  PROVE  OcrInv'
<1> USE DEF OcrInv
<1>1. /\ ocr.at = "starting" /\ UNCHANGED <<doc, results, pipe>>
      /\ ocr \in OcrCall /\ writer \in OcrWriter
      /\ child = NoChild /\ pipe = EmptyPipes /\ reader = "none"
      /\ writer.st = "none" /\ ~writer.failed /\ ocr.stdout = 0 /\ ~ocr.eof /\ ~ocr.stop
      /\ ocr.messages = <<>> /\ ocr.failure = "none"
      /\ doc.page <= LastPage /\ doc.page <= MaxOcrPages
  BY DEF StartChild, OcrShapes, CallIsNew, PagesInOrder
<1>2. ASSUME NEW code \in {"disabled", "failed"}, ocr' = Failing(code, "returned"),
             UNCHANGED <<child, threadVars>>
      PROVE  OcrInv'
  <2>1. /\ ocr' \in OcrCall /\ ocr'.at = "returned" /\ ocr'.failure = code
    BY <1>1, <1>2, FailingFields DEF Codes, Places
  <2>2. OcrShapes'
    BY <1>1, <1>2, <2>1 DEF OcrShapes, threadVars
  <2>3. PagesInOrder' /\ CallIsNew'
    BY <1>1, <2>1 DEF PagesInOrder, CallIsNew
  <2>4. CallUnderWay' /\ WriterIsHonest' /\ NoChunkIsLost' /\ StoppedWhole'
    BY <1>1, <1>2, <2>1, NewCall DEF CallUnderWay, WriterIsHonest, NoChunkIsLost,
       StoppedWhole, threadVars
  <2> QED
    BY <2>2, <2>3, <2>4
<1>3. ASSUME child' = [NoChild EXCEPT !.st = "running"], reader' = "reading",
             \/ writer' = [writer EXCEPT !.st = "writing"] /\ ocr' = OcrAt("reading")
             \/ UNCHANGED writer /\ ocr' = Failing("failed", "stopping")
      PROVE  OcrInv'
  <2>1. child' \in OcrChild /\ child'.st = "running" /\ child'.given = 0
    <3>1. child' \in OcrChild /\ child'.st = "running" /\ child'.given = NoChild.given
      BY <1>3, NewCall DEF OcrChild
    <3> QED
      BY <3>1, NewCall
  <2>2. CASE writer' = [writer EXCEPT !.st = "writing"] /\ ocr' = OcrAt("reading")
    <3>1. /\ ocr' \in OcrCall /\ ocr'.at = "reading" /\ ocr'.failure = "none"
          /\ ocr'.stdout = 0 /\ ~ocr'.eof /\ ~ocr'.stop /\ ocr'.messages = <<>>
      BY <1>1, <2>2, AtFields DEF Places
    <3>2. writer' \in OcrWriter /\ writer'.st = "writing"
      BY <1>1, <2>2 DEF OcrWriter
    <3>3. OcrShapes'
      BY <1>1, <1>3, <2>1, <3>1, <3>2 DEF OcrShapes
    <3>4. PagesInOrder' /\ CallIsNew'
      BY <1>1, <3>1 DEF PagesInOrder, CallIsNew
    <3>5. CallUnderWay' /\ WriterIsHonest' /\ StoppedWhole'
      BY <1>3, <2>1, <3>1, <3>2 DEF CallUnderWay, WriterIsHonest, StoppedWhole
    <3>6. Chunks(ocr'.messages) = 0 /\ Queued(ocr'.messages) /\ ~Ended(ocr'.messages)
      BY <3>1 DEF Chunks, Queued, Ended
    <3>7. pipe'.out = 0 /\ InHand(reader') = 0
      BY <1>1, <1>3, NewCall DEF InHand
    <3>8. NoChunkIsLost'
      BY <1>3, <2>1, <3>1, <3>6, <3>7 DEF NoChunkIsLost
    <3> QED
      BY <3>3, <3>4, <3>5, <3>8
  <2>3. CASE UNCHANGED writer /\ ocr' = Failing("failed", "stopping")
    <3>1. /\ ocr' \in OcrCall /\ ocr'.at = "stopping" /\ ocr'.failure = "failed" /\ ~ocr'.stop
      BY <1>1, <2>3, FailingFields DEF Places, Codes
    <3>2. OcrShapes'
      BY <1>1, <1>3, <2>1, <2>3, <3>1 DEF OcrShapes
    <3>3. PagesInOrder' /\ CallIsNew'
      BY <1>1, <3>1 DEF PagesInOrder, CallIsNew
    <3>4. CallUnderWay' /\ WriterIsHonest' /\ StoppedWhole' /\ NoChunkIsLost'
      BY <1>1, <1>3, <2>1, <2>3, <3>1 DEF CallUnderWay, WriterIsHonest, StoppedWhole,
         NoChunkIsLost
    <3> QED
      BY <3>2, <3>3, <3>4
  <2> QED
    BY <1>3, <2>2, <2>3
<1> QED
  BY <1>2, <1>3 DEF StartChild

(* A step of the call itself that stops it with an error. *)
LEMMA Stopping ==
  ASSUME OcrInv, ocr.at \in {"reading", "waiting"},
         ocr' \in OcrCall, ocr'.at = "stopping", ocr'.failure # "none",
         ocr'.stop = ocr.stop, UNCHANGED <<doc, results, child, pipe, reader, writer>>
  PROVE  OcrInv'
<1> USE DEF OcrInv
<1>1. OcrShapes'
  BY DEF OcrShapes
<1>2. PagesInOrder' /\ CallIsNew'
  BY DEF PagesInOrder, CallIsNew
<1>3. CallUnderWay' /\ WriterIsHonest' /\ NoChunkIsLost' /\ StoppedWhole'
  BY DEF CallUnderWay, WriterIsHonest, NoChunkIsLost, StoppedWhole
<1> QED
  BY <1>1, <1>2, <1>3

(* A step of the call itself that goes on reading or waits for its end. *)
LEMMA Reading ==
  ASSUME OcrInv, ocr.at = "reading",
         ocr' \in OcrCall, ocr'.at \in {"reading", "waiting"},
         ocr'.failure = ocr.failure, ocr'.stop = ocr.stop,
         UNCHANGED <<doc, results, child, pipe, reader, writer>>,
         ocr'.stdout + Chunks(ocr'.messages) = ocr.stdout + Chunks(ocr.messages),
         Queued(ocr'.messages), Ended(ocr'.messages) => reader = "ended",
         reader = "ended" => ocr'.eof \/ Ended(ocr'.messages),
         ocr'.eof => reader = "ended" /\ ocr'.messages = <<>>,
         ocr'.at = "waiting" => ocr'.eof
  PROVE  OcrInv'
<1> USE DEF OcrInv
<1>1. OcrShapes'
  BY DEF OcrShapes
<1>2. PagesInOrder' /\ CallIsNew'
  BY DEF PagesInOrder, CallIsNew
<1>3. CallUnderWay' /\ WriterIsHonest' /\ StoppedWhole'
  BY DEF CallUnderWay, WriterIsHonest, StoppedWhole
<1>4. NoChunkIsLost'
  BY DEF NoChunkIsLost, OutClosed
<1> QED
  BY <1>1, <1>2, <1>3, <1>4

LEMMA ReadInv ==
  ASSUME OcrInv, ReadMessage
  PROVE  OcrInv'
<1> DEFINE q == ocr.messages
<1>1. /\ ocr.at = "reading" /\ ocr \in OcrCall
      /\ UNCHANGED <<doc, results, child, pipe, reader, writer>>
      /\ q \in Seq(Messages) /\ Queued(q) /\ ocr.stdout \in Nat
      /\ Ended(q) => reader = "ended"
      /\ ocr.eof => reader = "ended" /\ q = <<>>
      /\ reader = "ended" => ocr.eof \/ Ended(q)
  BY DEF OcrInv, OcrShapes, OcrCall, ReadMessage, NoChunkIsLost, threadVars
<1>2. CASE q = <<>>
  <2>1. ocr.eof /\ ocr' = OcrAt("waiting")
    BY <1>2 DEF ReadMessage, HeardAll
  <2>2. /\ ocr' \in OcrCall /\ ocr'.at = "waiting" /\ ocr'.failure = ocr.failure
        /\ ocr'.stdout = ocr.stdout /\ ocr'.eof = ocr.eof /\ ocr'.stop = ocr.stop
        /\ ocr'.messages = ocr.messages
    BY <1>1, <2>1, AtFields DEF Places
  <2> QED
    BY <1>1, <2>1, <2>2, Reading
<1>3. CASE q # <<>>
  <2> DEFINE rest == [ocr EXCEPT !.messages = Tail(q)]
             heard == [rest EXCEPT !.stdout = @ + 1]
             over == [rest EXCEPT !.at = "stopping", !.failure = "limit"]
             bad == [rest EXCEPT !.at = "stopping", !.failure = "failed"]
             seen == [rest EXCEPT !.eof = TRUE, !.at = IF Exited THEN "waiting" ELSE @]
  <2>1. /\ Tail(q) \in Seq(Messages) /\ Head(q) \in Messages
        /\ Head(q) = "data" =>
              /\ Queued(Tail(q)) /\ (Ended(Tail(q)) <=> Ended(q))
              /\ Chunks(q) = Chunks(Tail(q)) + 1
        /\ Head(q) # "data" => Tail(q) = <<>> /\ Ended(q) /\ Chunks(q) = 0
    BY <1>1, <1>3, QueueTail
  <2>2. /\ rest \in OcrCall /\ rest.messages = Tail(q) /\ rest.at = ocr.at
        /\ rest.stdout = ocr.stdout /\ rest.eof = ocr.eof /\ rest.stop = ocr.stop
        /\ rest.failure = ocr.failure
    BY <1>1, <2>1 DEF OcrCall
  <2>3. ocr' = CASE Head(q) = "data" -> IF ocr.stdout + 1 > MaxOutput THEN over ELSE heard
                 [] Head(q) = "eof" -> seen
                 [] OTHER -> bad
    BY <1>3 DEF ReadMessage
  <2> HIDE DEF rest
  <2>4. over \in OcrCall /\ over.at = "stopping" /\ over.failure = "limit"
        /\ over.stop = ocr.stop
    <3> DEFINE x == [rest EXCEPT !.at = "stopping"]
    <3>1. x \in OcrCall /\ x.at = "stopping" /\ x.stop = rest.stop
      BY <2>2 DEF OcrCall, Places
    <3>2. over = [x EXCEPT !.failure = "limit"]
      OBVIOUS
    <3> HIDE DEF x
    <3> DEFINE z == [x EXCEPT !.failure = "limit"]
    <3>3. z \in OcrCall /\ z.at = x.at /\ z.stop = x.stop /\ z.failure = "limit"
      BY <3>1 DEF OcrCall, Codes
    <3>4. over = z
      BY <3>2
    <3> HIDE DEF z, over
    <3> QED
      BY <2>2, <3>1, <3>3, <3>4
  <2>5. bad \in OcrCall /\ bad.at = "stopping" /\ bad.failure = "failed"
        /\ bad.stop = ocr.stop
    <3> DEFINE x == [rest EXCEPT !.at = "stopping"]
    <3>1. x \in OcrCall /\ x.at = "stopping" /\ x.stop = rest.stop
      BY <2>2 DEF OcrCall, Places
    <3>2. bad = [x EXCEPT !.failure = "failed"]
      OBVIOUS
    <3> HIDE DEF x
    <3> DEFINE z == [x EXCEPT !.failure = "failed"]
    <3>3. z \in OcrCall /\ z.at = x.at /\ z.stop = x.stop /\ z.failure = "failed"
      BY <3>1 DEF OcrCall, Codes
    <3>4. bad = z
      BY <3>2
    <3> HIDE DEF z, bad
    <3> QED
      BY <2>2, <3>1, <3>3, <3>4
  <2>6. /\ seen \in OcrCall /\ seen.at \in {"reading", "waiting"}
        /\ seen.failure = ocr.failure /\ seen.stop = ocr.stop /\ seen.eof
        /\ seen.stdout = ocr.stdout /\ seen.messages = Tail(q)
    <3> DEFINE x == [rest EXCEPT !.eof = TRUE]
               where == IF Exited THEN "waiting" ELSE "reading"
    <3>1. /\ x \in OcrCall /\ x.at = ocr.at /\ x.stop = ocr.stop /\ x.eof
          /\ x.failure = ocr.failure /\ x.stdout = ocr.stdout /\ x.messages = Tail(q)
      BY <2>2 DEF OcrCall
    <3>2. seen = [x EXCEPT !.at = IF Exited THEN "waiting" ELSE @]
      OBVIOUS
    <3> HIDE DEF x
    <3>3. seen = [x EXCEPT !.at = where]
      BY <1>1, <3>1, <3>2
    <3>4. where \in Places /\ where \in {"reading", "waiting"}
      BY DEF Places
    <3> HIDE DEF where
    <3> DEFINE z == [x EXCEPT !.at = where]
    <3>5. /\ z \in OcrCall /\ z.at = where /\ z.stop = x.stop /\ z.eof = x.eof
          /\ z.failure = x.failure /\ z.stdout = x.stdout /\ z.messages = x.messages
      BY <3>1, <3>4 DEF OcrCall
    <3>6. seen = z
      BY <3>3
    <3> HIDE DEF z, seen
    <3> QED
      BY <3>1, <3>4, <3>5, <3>6
  <2>7. /\ heard \in OcrCall /\ heard.at = ocr.at /\ heard.stop = ocr.stop
        /\ heard.eof = ocr.eof /\ heard.failure = ocr.failure
        /\ heard.stdout = ocr.stdout + 1 /\ heard.messages = Tail(q)
    BY <1>1, <2>2 DEF OcrCall
  <2> HIDE DEF over, bad, seen, heard, q
  <2>8. \/ Head(q) = "data" /\ (ocr' = over \/ ocr' = heard)
        \/ Head(q) # "data" /\ (ocr' = seen \/ ocr' = bad)
    BY <2>3, Zenon
  <2>9. CASE ocr' = over \/ ocr' = bad
    BY <1>1, <2>4, <2>5, <2>9, Stopping DEF Codes
  <2>10. CASE Head(q) = "data" /\ ocr' = heard
    <3>1. Chunks(Tail(q)) \in Int
      <4>1. Len(Tail(q)) \in Nat
        BY <2>1
      <4> QED
        BY <4>1 DEF Chunks
    <3>5. ocr'.messages = Tail(q) /\ ocr'.stdout = ocr.stdout + 1
      BY <2>7, <2>10
    <3>6. Chunks(q) = Chunks(Tail(q)) + 1
      BY <2>1, <2>10
    <3>2. Chunks(q) = Chunks(ocr'.messages) + 1 /\ ocr.stdout \in Int
          /\ Chunks(ocr'.messages) \in Int
      BY <1>1, <3>5, <3>6, <3>1
    <3>3. ocr'.stdout + Chunks(ocr'.messages) = ocr.stdout + Chunks(ocr.messages)
      BY <3>2, <3>5 DEF q
    <3>4. ~ocr.eof
      BY <1>1, <1>3
    <3> QED
      BY <1>1, <2>1, <2>7, <2>10, <3>3, <3>4, Reading DEF q
  <2>11. CASE Head(q) # "data" /\ ocr' = seen
    <3>1. Chunks(<<>>) = 0 /\ Queued(<<>>) /\ ~Ended(<<>>)
      BY DEF Chunks, Queued, Ended
    <3> QED
      BY <1>1, <2>1, <2>6, <2>11, <3>1, Reading DEF q
  <2> QED
    BY <2>8, <2>9, <2>10, <2>11
<1> QED
  BY <1>2, <1>3

(* The rest of a call: it waits for its writer, stops, closes and returns. *)
LEMMA CallInv ==
  ASSUME OcrInv, AwaitWriter \/ CallTimesOut \/ StopCall \/ CloseCall \/ ReturnCall
  PROVE  OcrInv'
<1> USE DEF OcrInv
<1>1. /\ ocr \in OcrCall /\ child \in OcrChild /\ writer \in OcrWriter
      /\ ocr.failure \in Codes \cup {"none"}
  BY DEF OcrShapes, OcrCall
<1>2. CASE AwaitWriter
  <2>1. /\ ocr.at = "waiting" /\ writer.st = "ended"
        /\ UNCHANGED <<doc, results, child, pipe, reader, writer>>
    BY <1>2 DEF AwaitWriter, threadVars
  <2>2. CASE ocr' = Failing("failed", "stopping")
    <3>1. ocr' \in OcrCall /\ ocr'.at = "stopping" /\ ocr'.failure = "failed"
          /\ ocr'.stop = ocr.stop
      BY <1>1, <2>2, FailingFields DEF Codes, Places
    <3> QED
      BY <2>1, <3>1, Stopping
  <2>3. CASE ~writer.failed /\ child.code = 0 /\ ocr' = OcrAt("stopping")
    <3>1. /\ ocr' \in OcrCall /\ ocr'.at = "stopping" /\ ocr'.failure = ocr.failure
          /\ ocr'.stop = ocr.stop /\ ocr'.stdout = ocr.stdout
      BY <1>1, <2>3, AtFields DEF Places
    <3>2. ocr.eof /\ reader = "ended" /\ ocr.messages = <<>>
      BY <2>1 DEF NoChunkIsLost
    <3>3. /\ OutClosed /\ Chunks(ocr.messages) = 0 /\ InHand(reader) = 0
      BY <2>1, <3>2 DEF NoChunkIsLost, Chunks, Ended, InHand
    <3>4. child.given = ocr.stdout /\ child.st = "exited"
      <4>1. child.given = ocr.stdout + Chunks(ocr.messages) + InHand(reader) + pipe.out
        BY <2>1 DEF NoChunkIsLost
      <4>2. child.given = ocr.stdout + 0 + 0 + 0 /\ ocr.stdout \in Nat
        BY <1>1, <3>3, <4>1 DEF OutClosed, OcrCall
      <4> QED
        BY <3>3, <4>2 DEF OutClosed
    <3>5. OcrShapes' /\ PagesInOrder' /\ CallIsNew'
      BY <2>1, <3>1 DEF OcrShapes, PagesInOrder, CallIsNew
    <3>6. CallUnderWay' /\ WriterIsHonest' /\ NoChunkIsLost'
      BY <2>1, <3>1 DEF CallUnderWay, WriterIsHonest, NoChunkIsLost
    <3>7. StoppedWhole'
      BY <2>1, <2>3, <3>1, <3>2, <3>4 DEF StoppedWhole
    <3> QED
      BY <3>5, <3>6, <3>7
  <2> QED
    BY <1>2, <2>2, <2>3 DEF AwaitWriter
<1>3. CASE CallTimesOut
  <2>1. /\ ocr.at \in {"reading", "waiting"} /\ ocr' = Failing("timeout", "stopping")
        /\ UNCHANGED <<doc, results, child, pipe, reader, writer>>
    BY <1>3 DEF CallTimesOut, threadVars
  <2>2. ocr' \in OcrCall /\ ocr'.at = "stopping" /\ ocr'.failure = "timeout"
        /\ ocr'.stop = ocr.stop
    BY <1>1, <2>1, FailingFields DEF Codes, Places
  <2> QED
    BY <2>1, <2>2, Stopping
<1>4. CASE StopCall
  <2>1. PICK left \in SUBSET {"in", "out"} :
           child' = [child EXCEPT !.st = IF @ = "running" THEN "killed" ELSE @, !.heirs = left]
    BY <1>4 DEF StopCall
  <2>2. /\ ocr.at = "stopping" /\ ocr' = [ocr EXCEPT !.at = "joining", !.stop = TRUE]
        /\ UNCHANGED <<doc, results, pipe, reader, writer>>
    BY <1>4 DEF StopCall, threadVars
  <2>3. /\ ocr' \in OcrCall /\ ocr'.at = "joining" /\ ocr'.failure = ocr.failure
        /\ ocr'.stdout = ocr.stdout
    <3> DEFINE x == [ocr EXCEPT !.at = "joining"]
    <3>1. /\ x \in OcrCall /\ x.at = "joining" /\ x.failure = ocr.failure
          /\ x.stdout = ocr.stdout
      BY <1>1 DEF OcrCall, Places
    <3>2. ocr' = [x EXCEPT !.stop = TRUE]
      BY <2>2
    <3> HIDE DEF x
    <3> QED
      BY <3>1, <3>2 DEF OcrCall
  <2>4. /\ child' \in OcrChild /\ child'.st \in {"exited", "killed"}
        /\ child'.given = child.given /\ child'.code = child.code
        /\ child.st = "exited" => child'.st = "exited"
    <3> DEFINE st == IF child.st = "running" THEN "killed" ELSE child.st
               x == [child EXCEPT !.st = st]
    <3>1. child.st \in {"running", "exited"}
      BY <2>2 DEF CallUnderWay
    <3>2. /\ st \in {"exited", "killed"}
          /\ child.st = "exited" => st = "exited"
      BY <3>1
    <3>3. child' = [x EXCEPT !.heirs = left]
      BY <2>1
    <3> HIDE DEF st
    <3>4. x \in OcrChild /\ x.st = st /\ x.given = child.given /\ x.code = child.code
      BY <1>1, <3>2 DEF OcrChild
    <3> HIDE DEF x
    <3>5. /\ child' \in OcrChild /\ child'.st = x.st /\ child'.given = x.given
          /\ child'.code = x.code
      BY <3>3, <3>4 DEF OcrChild, Heirs
    <3> QED
      BY <3>2, <3>4, <3>5
  <2>5. OcrShapes' /\ PagesInOrder' /\ CallIsNew'
    BY <2>2, <2>3, <2>4 DEF OcrShapes, PagesInOrder, CallIsNew
  <2>6. CallUnderWay' /\ WriterIsHonest' /\ NoChunkIsLost'
    BY <2>2, <2>3, <2>4 DEF CallUnderWay, WriterIsHonest, NoChunkIsLost
  <2>7. StoppedWhole'
    <3>1. child.st # "none"
      BY <2>2 DEF CallUnderWay
    <3> QED
      BY <2>2, <2>3, <2>4, <3>1 DEF StoppedWhole
  <2> QED
    BY <2>5, <2>6, <2>7
<1>5. CASE CloseCall
  <2>1. /\ ocr.at = "joining" /\ child' = [child EXCEPT !.heirs = {}] /\ ocr' = OcrAt("closed")
        /\ UNCHANGED <<doc, results, pipe, reader, writer>>
    BY <1>5 DEF CloseCall, threadVars
  <2>2. /\ ocr' \in OcrCall /\ ocr'.at = "closed" /\ ocr'.failure = ocr.failure
        /\ ocr'.stdout = ocr.stdout
    BY <1>1, <2>1, AtFields DEF Places
  <2>3. /\ child' \in OcrChild /\ child'.heirs = {} /\ child'.st = child.st
        /\ child'.given = child.given /\ child'.code = child.code
    BY <1>1, <2>1 DEF OcrChild, Heirs
  <2>4. OcrShapes' /\ PagesInOrder' /\ CallIsNew'
    BY <2>1, <2>2, <2>3 DEF OcrShapes, PagesInOrder, CallIsNew
  <2>5. CallUnderWay' /\ WriterIsHonest' /\ NoChunkIsLost' /\ StoppedWhole'
    BY <2>1, <2>2, <2>3 DEF CallUnderWay, WriterIsHonest, NoChunkIsLost, StoppedWhole
  <2> QED
    BY <2>4, <2>5
<1>6. CASE ReturnCall
  <2>1. /\ ocr.at = "closed" /\ ocr' = OcrAt("returned")
        /\ UNCHANGED <<doc, results, child, pipe, reader, writer>>
    BY <1>6 DEF ReturnCall, threadVars
  <2>2. /\ ocr' \in OcrCall /\ ocr'.at = "returned" /\ ocr'.failure = ocr.failure
        /\ ocr'.stdout = ocr.stdout
    BY <1>1, <2>1, AtFields DEF Places
  <2>3. OcrShapes' /\ PagesInOrder' /\ CallIsNew'
    BY <2>1, <2>2 DEF OcrShapes, PagesInOrder, CallIsNew
  <2>4. CallUnderWay' /\ WriterIsHonest' /\ NoChunkIsLost' /\ StoppedWhole'
    BY <2>1, <2>2 DEF CallUnderWay, WriterIsHonest, NoChunkIsLost, StoppedWhole
  <2> QED
    BY <2>3, <2>4
<1> QED
  BY <1>2, <1>3, <1>4, <1>5, <1>6

LEMMA ChildInv ==
  ASSUME OcrInv, ChildStep
  PROVE  OcrInv'
<1> USE DEF OcrInv
<1>1. /\ child \in OcrChild /\ pipe \in OcrPipes /\ child.st = "running"
      /\ UNCHANGED <<doc, results, ocr, reader, writer>>
  BY DEF OcrShapes, ChildStep, ChildReads, ChildWrites, ChildExits, threadVars
<1>2. ocr.at \in {"reading", "waiting", "stopping", "joining", "closed", "returned"}
  BY <1>1 DEF OcrShapes, OcrCall, Places, CallIsNew, NoChild
<1>3. ~OutClosed
  BY <1>1 DEF OutClosed
<1>4. ~(ocr.at \in {"joining", "closed", "returned"})
  BY <1>1 DEF CallUnderWay
<1>5. ASSUME child' \in OcrChild, pipe' \in OcrPipes, child'.st \in {"running", "exited"},
             ocr.at \in {"reading", "waiting"} => child'.given - pipe'.out = child.given - pipe.out
      PROVE  OcrInv'
  <2>1. OcrShapes' /\ PagesInOrder' /\ CallIsNew' /\ CallUnderWay' /\ WriterIsHonest'
    BY <1>1, <1>2, <1>4, <1>5 DEF OcrShapes, PagesInOrder, CallIsNew, CallUnderWay,
       WriterIsHonest
  <2>2. NoChunkIsLost'
    <3>1. SUFFICES ASSUME ocr.at \in {"reading", "waiting"} PROVE NoChunkIsLost'
      BY <1>1 DEF NoChunkIsLost
    <3>2. /\ ocr.stdout \in Nat /\ Chunks(ocr.messages) \in Int /\ InHand(reader) \in Int
          /\ pipe.out \in Int /\ pipe'.out \in Int /\ child.given \in Int /\ child'.given \in Int
      <4>1. ocr.messages \in Seq(Messages) /\ ocr.stdout \in Nat
        BY DEF OcrShapes, OcrCall
      <4>2. Len(ocr.messages) \in Nat
        BY <4>1
      <4> QED
        BY <1>1, <1>5, <4>1, <4>2, OcrAssumption DEF Chunks, InHand, OcrPipes, OcrChild
    <3>3. child'.given = ocr'.stdout + Chunks(ocr'.messages) + InHand(reader') + pipe'.out
      <4>1. child.given = ocr.stdout + Chunks(ocr.messages) + InHand(reader) + pipe.out
        BY <3>1 DEF NoChunkIsLost
      <4>2. child'.given = ocr.stdout + Chunks(ocr.messages) + InHand(reader) + pipe'.out
        BY <1>5, <3>1, <3>2, <4>1
      <4> QED
        BY <1>1, <4>2
    <3> QED
      BY <1>1, <1>3, <3>1, <3>3 DEF NoChunkIsLost
  <2>3. StoppedWhole'
    BY <1>1, <1>2, <1>4, <1>5 DEF StoppedWhole
  <2> QED
    BY <2>1, <2>2, <2>3
<1>6. CASE ChildReads
  <2>1. child' = child /\ pipe' = [pipe EXCEPT !.in = pipe.in - 1] /\ pipe.in > 0
    BY <1>6 DEF ChildReads
  <2>2. pipe' \in OcrPipes /\ pipe'.out = pipe.out
    BY <1>1, <2>1, OcrAssumption DEF OcrPipes
  <2> QED
    BY <1>1, <1>5, <2>1, <2>2
<1>7. CASE ChildWrites
  <2>1. /\ child' = [child EXCEPT !.given = child.given + 1]
        /\ pipe' = [pipe EXCEPT !.out = pipe.out + 1] /\ pipe.out < PipeSize
    BY <1>7 DEF ChildWrites
  <2>2. pipe' \in OcrPipes /\ pipe'.out = pipe.out + 1 /\ pipe.out \in Int
    BY <1>1, <2>1, OcrAssumption DEF OcrPipes
  <2>3. child' \in OcrChild /\ child'.given = child.given + 1 /\ child'.st = child.st
        /\ child.given \in Int
    BY <1>1, <2>1 DEF OcrChild
  <2> QED
    BY <1>1, <1>5, <2>2, <2>3
<1>8. CASE ChildExits
  <2>1. PICK code \in {0, 1}, heirs \in SUBSET {"in", "out"} :
           child' = [child EXCEPT !.st = "exited", !.code = code, !.heirs = heirs]
    BY <1>8 DEF ChildExits
  <2> DEFINE x == [child EXCEPT !.st = "exited"]
             y == [x EXCEPT !.code = code]
             z == [y EXCEPT !.heirs = heirs]
  <2>2. child' = z /\ pipe' = pipe
    BY <1>8, <2>1 DEF ChildExits
  <2>3. x \in OcrChild /\ x.st = "exited" /\ x.given = child.given
    BY <1>1 DEF OcrChild
  <2> HIDE DEF x
  <2>4. y \in OcrChild /\ y.st = "exited" /\ y.given = child.given
    BY <2>3 DEF OcrChild
  <2> HIDE DEF y
  <2>5. z \in OcrChild /\ z.st = "exited" /\ z.given = child.given
    BY <2>4 DEF OcrChild, Heirs
  <2> HIDE DEF z
  <2> QED
    BY <1>1, <1>5, <2>2, <2>5
<1> QED
  BY <1>6, <1>7, <1>8 DEF ChildStep

LEMMA ReaderInv ==
  ASSUME OcrInv, ReaderStep
  PROVE  OcrInv'
<1> USE DEF OcrInv
<1>1. /\ UNCHANGED <<doc, results, renderer, child, writer>>
      /\ pipe \in OcrPipes /\ ocr \in OcrCall /\ child \in OcrChild
      /\ reader \in {"reading", "data", "eof", "error"}
  BY DEF ReaderStep, ReaderReads, ReaderPuts, OcrShapes
<1>2. ocr.at \in {"reading", "waiting", "stopping", "joining", "closed", "returned"}
  BY <1>1 DEF OcrCall, Places, CallIsNew
<1>3. ocr.messages \in Seq(Messages) /\ ocr.stdout \in Nat /\ Chunks(ocr.messages) \in Int
      /\ pipe.out \in Int /\ child.given \in Int
  <2>1. ocr.messages \in Seq(Messages) /\ ocr.stdout \in Nat
    BY <1>1 DEF OcrCall
  <2>2. Len(ocr.messages) \in Nat
    BY <2>1
  <2> QED
    BY <1>1, <2>1, <2>2, OcrAssumption DEF Chunks, OcrPipes, OcrChild
<1>4. ASSUME pipe' \in OcrPipes, ocr' \in OcrCall,
             ocr'.at = ocr.at, ocr'.failure = ocr.failure, ocr'.stop = ocr.stop,
             ocr'.stdout = ocr.stdout, ocr'.eof = ocr.eof,
             reader' \in {"reading", "data", "eof", "error", "ended"},
             ocr.at \in {"reading", "waiting"} => NoChunkIsLost'
      PROVE  OcrInv'
  <2>1. OcrShapes' /\ PagesInOrder' /\ CallIsNew' /\ CallUnderWay' /\ WriterIsHonest'
    BY <1>1, <1>2, <1>4 DEF OcrShapes, PagesInOrder, CallIsNew, CallUnderWay,
       WriterIsHonest, Messages
  <2>2. NoChunkIsLost'
    BY <1>4 DEF NoChunkIsLost
  <2>3. StoppedWhole'
    BY <1>1, <1>4 DEF StoppedWhole
  <2> QED
    BY <2>1, <2>2, <2>3
<1>5. CASE ReaderReads
  <2>1. UNCHANGED ocr /\ reader = "reading"
    BY <1>5 DEF ReaderReads
  <2>2. CASE pipe.out > 0 /\ reader' = "data" /\ pipe' = [pipe EXCEPT !.out = pipe.out - 1]
    <3>1. pipe' \in OcrPipes /\ pipe'.out = pipe.out - 1
      BY <1>1, <2>2, OcrAssumption DEF OcrPipes
    <3>2. ASSUME ocr.at \in {"reading", "waiting"} PROVE NoChunkIsLost'
      <4>1. child.given = ocr.stdout + Chunks(ocr.messages) + 0 + pipe.out
        BY <2>1, <3>2 DEF NoChunkIsLost, InHand
      <4>2. child.given = ocr.stdout + Chunks(ocr.messages) + 1 + pipe'.out
        BY <1>3, <3>1, <4>1
      <4>3. InHand(reader') = 1 /\ ocr' = ocr /\ child' = child
        BY <1>1, <2>1, <2>2 DEF InHand
      <4>4. child'.given = ocr'.stdout + Chunks(ocr'.messages) + InHand(reader') + pipe'.out
        BY <4>2, <4>3
      <4> QED
        BY <2>1, <2>2, <3>2, <4>3, <4>4 DEF NoChunkIsLost
    <3> QED
      BY <1>1, <1>4, <2>1, <2>2, <3>1, <3>2
  <2>3. CASE pipe.out = 0 /\ ~Held("out") /\ reader' = "eof" /\ UNCHANGED pipe
    <3>1. ASSUME ocr.at \in {"reading", "waiting"} PROVE NoChunkIsLost'
      <4>1. OutClosed'
        BY <1>1, <2>3, <3>1 DEF OutClosed, Held, CallUnderWay
      <4>2. InHand(reader') = 0 /\ InHand(reader) = 0
        BY <2>1, <2>3 DEF InHand
      <4> QED
        BY <1>1, <2>1, <2>3, <3>1, <4>1, <4>2 DEF NoChunkIsLost
    <3> QED
      BY <1>1, <1>4, <2>1, <2>3, <3>1
  <2>4. CASE ocr.stop /\ reader' = "error" /\ UNCHANGED pipe
    <3>1. ocr.at \notin {"reading", "waiting"}
      BY <2>4 DEF CallUnderWay
    <3> QED
      BY <1>1, <1>4, <2>1, <2>4, <3>1
  <2> QED
    BY <1>5, <2>2, <2>3, <2>4 DEF ReaderReads
<1>6. CASE ReaderPuts
  <2>1. UNCHANGED pipe /\ reader \in Messages
    BY <1>6 DEF ReaderPuts, Messages
  <2>2. CASE ocr.stop /\ reader' = "ended" /\ UNCHANGED ocr
    <3>1. ocr.at \notin {"reading", "waiting"}
      BY <2>2 DEF CallUnderWay
    <3> QED
      BY <1>1, <1>4, <2>1, <2>2, <3>1
  <2>3. CASE /\ ocr' = [ocr EXCEPT !.messages = Append(ocr.messages, reader)]
             /\ reader' = IF reader = "data" THEN "reading" ELSE "ended"
    <3>1. /\ Append(ocr.messages, reader) \in Seq(Messages)
          /\ Queued(ocr.messages) /\ ~Ended(ocr.messages) =>
               /\ Queued(Append(ocr.messages, reader))
               /\ Ended(Append(ocr.messages, reader)) <=> reader # "data"
               /\ Chunks(Append(ocr.messages, reader)) = Chunks(ocr.messages) + InHand(reader)
      BY <1>3, <2>1, QueueAppend
    <3>2. /\ ocr' \in OcrCall /\ ocr'.at = ocr.at /\ ocr'.failure = ocr.failure
          /\ ocr'.stop = ocr.stop /\ ocr'.stdout = ocr.stdout /\ ocr'.eof = ocr.eof
          /\ ocr'.messages = Append(ocr.messages, reader)
      BY <1>1, <2>3, <3>1 DEF OcrCall
    <3>3. ASSUME ocr.at \in {"reading", "waiting"} PROVE NoChunkIsLost'
      <4>1. Queued(ocr.messages) /\ ~Ended(ocr.messages) /\ ~ocr.eof
        BY <1>1, <3>3 DEF NoChunkIsLost
      <4>2. /\ Queued(ocr'.messages)
            /\ Ended(ocr'.messages) <=> reader # "data"
            /\ Chunks(ocr'.messages) = Chunks(ocr.messages) + InHand(reader)
        BY <3>1, <3>2, <4>1
      <4>3. InHand(reader) \in Int /\ InHand(reader') = 0
        BY <2>3 DEF InHand
      <4>4. child'.given = ocr'.stdout + Chunks(ocr'.messages) + InHand(reader') + pipe'.out
        <5>1. child.given = ocr.stdout + Chunks(ocr.messages) + InHand(reader) + pipe.out
          BY <3>3 DEF NoChunkIsLost
        <5>2. child.given = ocr.stdout + (Chunks(ocr.messages) + InHand(reader)) + 0 + pipe.out
          BY <1>3, <4>3, <5>1
        <5> QED
          BY <1>1, <2>1, <3>2, <4>2, <4>3, <5>2
      <4>5. reader \in {"data", "eof"}
        BY <2>1, <3>3 DEF NoChunkIsLost, Messages
      <4>6. reader = "eof" => OutClosed'
        BY <1>1, <2>1, <3>3 DEF NoChunkIsLost, OutClosed
      <4> QED
        BY <2>3, <3>2, <4>1, <4>2, <4>4, <4>5, <4>6 DEF NoChunkIsLost
    <3> QED
      BY <1>1, <1>4, <2>1, <2>3, <3>2, <3>3
  <2> QED
    BY <1>6, <2>2, <2>3 DEF ReaderPuts
<1> QED
  BY <1>5, <1>6 DEF ReaderStep

LEMMA WriterInv ==
  ASSUME OcrInv, WriterStep
  PROVE  OcrInv'
<1> USE DEF OcrInv
<1>1. /\ UNCHANGED <<doc, results, ocr, child, reader>>
      /\ pipe \in OcrPipes /\ ocr \in OcrCall /\ writer \in OcrWriter
      /\ writer.st \in {"writing", "closing"}
  BY DEF WriterStep, WriterWrites, WriterCloses, OcrShapes
<1>2. ocr.at \in {"reading", "waiting", "stopping", "joining", "closed", "returned"}
  BY <1>1 DEF OcrCall, Places, CallIsNew
<1>3. ASSUME pipe' \in OcrPipes, pipe'.out = pipe.out, writer' \in OcrWriter,
             writer'.st # "none", WriterIsHonest'
      PROVE  OcrInv'
  <2>1. OcrShapes' /\ PagesInOrder' /\ CallIsNew' /\ CallUnderWay'
    BY <1>1, <1>2, <1>3 DEF OcrShapes, PagesInOrder, CallIsNew, CallUnderWay
  <2>2. NoChunkIsLost' /\ StoppedWhole'
    BY <1>1, <1>3 DEF NoChunkIsLost, OutClosed, StoppedWhole
  <2> QED
    BY <1>3, <2>1, <2>2
<1>4. CASE WriterCloses
  <2>1. writer.st = "closing" /\ writer' = [writer EXCEPT !.st = "ended"] /\ UNCHANGED pipe
    BY <1>4 DEF WriterCloses
  <2>2. writer' \in OcrWriter /\ writer'.st = "ended" /\ writer'.left = writer.left
        /\ writer'.failed = writer.failed
    BY <1>1, <2>1 DEF OcrWriter
  <2> QED
    BY <1>1, <1>3, <2>1, <2>2 DEF WriterIsHonest
<1>5. CASE WriterWrites
  <2>1. writer.st = "writing"
    BY <1>5 DEF WriterWrites
  <2>2. CASE /\ writer.left > 0 /\ pipe.in < PipeSize
             /\ writer' = [writer EXCEPT !.left = writer.left - 1]
             /\ pipe' = [pipe EXCEPT !.in = pipe.in + 1]
    <3>1. writer' \in OcrWriter /\ writer'.st = "writing"
      BY <1>1, <2>1, <2>2 DEF OcrWriter
    <3>2. pipe' \in OcrPipes /\ pipe'.out = pipe.out
      BY <1>1, <2>2, OcrAssumption DEF OcrPipes
    <3> QED
      BY <1>3, <3>1, <3>2 DEF WriterIsHonest
  <2>3. CASE writer' = [writer EXCEPT !.st = "closing", !.failed = TRUE] /\ UNCHANGED pipe
    <3> DEFINE x == [writer EXCEPT !.st = "closing"]
               z == [x EXCEPT !.failed = TRUE]
    <3>1. writer' = z
      BY <2>3
    <3>2. x \in OcrWriter /\ x.st = "closing"
      BY <1>1 DEF OcrWriter
    <3> HIDE DEF x
    <3>3. z \in OcrWriter /\ z.st = "closing" /\ z.failed
      BY <3>2 DEF OcrWriter
    <3> HIDE DEF z
    <3> QED
      BY <1>1, <1>3, <2>3, <3>1, <3>3 DEF WriterIsHonest
  <2>4. CASE writer.left = 0 /\ writer' = [writer EXCEPT !.st = "closing"] /\ UNCHANGED pipe
    <3>1. writer' \in OcrWriter /\ writer'.st = "closing" /\ writer'.left = 0
      BY <1>1, <2>4 DEF OcrWriter
    <3> QED
      BY <1>1, <1>3, <2>4, <3>1 DEF WriterIsHonest
  <2> QED
    BY <1>5, <2>2, <2>3, <2>4 DEF WriterWrites
<1> QED
  BY <1>4, <1>5 DEF WriterStep

LEMMA LateInv ==
  ASSUME OcrInv, CallIsLate \/ DocumentIsLate \/ UNCHANGED ocrVars
  PROVE  OcrInv'
<1> USE DEF OcrInv
<1>1. ocr \in OcrCall /\ doc \in OcrDoc
  BY DEF OcrShapes
<1>2. /\ ocr' \in OcrCall /\ ocr'.at = ocr.at /\ ocr'.failure = ocr.failure
      /\ ocr'.stop = ocr.stop /\ ocr'.stdout = ocr.stdout /\ ocr'.eof = ocr.eof
      /\ ocr'.messages = ocr.messages
  BY <1>1 DEF CallIsLate, DocumentIsLate, ocrVars, OcrCall
<1>3. /\ doc' \in OcrDoc /\ doc'.page = doc.page /\ doc'.evidence = doc.evidence
      /\ doc'.text = doc.text
  BY <1>1 DEF CallIsLate, DocumentIsLate, ocrVars, OcrDoc
<1>4. UNCHANGED <<results, child, pipe, reader, writer>>
  BY DEF CallIsLate, DocumentIsLate, ocrVars, threadVars
<1>5. OcrShapes' /\ PagesInOrder' /\ CallIsNew' /\ CallUnderWay' /\ WriterIsHonest'
  BY <1>2, <1>3, <1>4 DEF OcrShapes, PagesInOrder, CallIsNew, CallUnderWay, WriterIsHonest
<1>6. NoChunkIsLost' /\ StoppedWhole'
  BY <1>2, <1>4 DEF NoChunkIsLost, OutClosed, StoppedWhole
<1> QED
  BY <1>5, <1>6

LEMMA OcrNextInv == OcrInv /\ [OcrNext]_ocrVars => OcrInv'
BY LoopInv, CountInv, StartInv, ReadInv, CallInv, ChildInv, ReaderInv, WriterInv, LateInv
   DEF OcrNext, ParentStep

(* Call, child, pipes and threads agree, in any order of their steps. *)
THEOREM OcrInvariant == OcrSpec => []OcrInv
BY OcrInitInv, OcrNextInv, PTL DEF OcrSpec

LEMMA OcrTyped == OcrInv => OcrTypeOK
<1> SUFFICES ASSUME OcrInv PROVE OcrTypeOK
  OBVIOUS
<1>1. /\ doc \in OcrDoc /\ pipe \in OcrPipes /\ child \in OcrChild
      /\ results \in Seq(OcrResult) /\ Len(results) = doc.page - 1
  BY DEF OcrInv, OcrShapes, PagesInOrder
<1>2. \A i \in DOMAIN results : results[i] \in OcrResult
  BY <1>1
<1> QED
  BY <1>1, <1>2 DEF OcrTypeOK, OcrDoc, OcrPipes, OcrChild, OcrResult, Heirs

(* Document, call, child, pipes and threads keep their types. *)
THEOREM OcrTypeCorrect == OcrSpec => []OcrTypeOK
BY OcrTyped, OcrInvariant, PTL

LEMMA TextIsWhole ==
  ASSUME OcrInv
  PROVE  /\ OcrTextIsWhole
         /\ doc.evidence <= MaxEvidence /\ doc.text <= MaxText
         /\ \A i \in DOMAIN results : results[i].code = "none" => i <= MaxOcrPages
BY DEF OcrInv, PagesInOrder, CallUnderWay, WriterIsHonest, StoppedWhole, OcrTextIsWhole

(* The safety half of OcrCallsEnd: whatever the processes do, the text of a   *)
(* call that returns is whole and no process outlives it, and the documents'  *)
(* limits hold.                                                               *)
THEOREM OcrTextsAreWhole ==
  OcrSpec => [](/\ OcrTextIsWhole
                /\ doc.evidence <= MaxEvidence /\ doc.text <= MaxText
                /\ \A i \in DOMAIN results : results[i].code = "none" => i <= MaxOcrPages)
BY TextIsWhole, OcrInvariant, PTL

=============================================================================
