-------------------------- MODULE AgentEventsProofs --------------------------
(***************************************************************************)
(* Proofs about AgentEvents, for any turns, bounds and transport.  Two facts *)
(* carry them: no posted number is more than one above the cursor, unless the *)
(* runtime restarted with a file that could not be written; and an event is   *)
(* only posted when its predecessor is stored right below its number.  Both   *)
(* stay true of the events of dead executions, because rows are never         *)
(* changed, so a late delivery finds its place or is refused.                 *)
(***************************************************************************)
EXTENDS AgentEvents, SequenceTheorems, TLAPS

(* Row i, and the event that may be stored right after it. *)
Placed(e) ==
    e.type # "turn_started" => /\ e.seq > 1
                               /\ e.seq - 1 <= Len(log)
                               /\ Follows(log[e.seq - 1], e)

(* What has been posted, delivered or not. *)
WireInv ==
    /\ Rows \subseteq posted
    /\ \A e \in posted : (behind \/ e.seq <= registry + 1) /\ Placed(e)

(* The active execution has stored everything before its next event. *)
RunInv ==
    /\ run.sending => run.turn # NoTurn
    /\ run.turn # NoTurn => Placed(Current)

StreamInv == LogIsContiguous /\ CursorTrailsLog /\ TurnsAreWhole /\ WireInv /\ RunInv

(* The browser holds and is sent stored events only. *)
ViewInv ==
    /\ ViewIsPrefix
    /\ \A i \in DOMAIN inbox : inbox[i] \in Rows

IndInv == TypeOK /\ StreamInv /\ AcceptedMeansLogged /\ ViewInv
-------------------------------------------------------------------------------
(* Elements and domains of the three sequences. *)
LEMMA SequenceFacts ==
  ASSUME TypeOK
  PROVE  /\ DOMAIN log = 1..Len(log) /\ Len(log) \in Nat
         /\ DOMAIN view = 1..Len(view) /\ Len(view) \in Nat
         /\ DOMAIN inbox = 1..Len(inbox) /\ Len(inbox) \in Nat
         /\ \A i \in 1..Len(log) : log[i] \in Event
         /\ \A i \in 1..Len(view) : view[i] \in Event
         /\ \A i \in 1..Len(inbox) : inbox[i] \in Event
BY LenProperties, ElementOfSeq DEF TypeOK

(* The event under publication is an event, and its number is the next one. *)
LEMMA CurrentIsEvent ==
  ASSUME TypeOK, run.turn # NoTurn
  PROVE  /\ Current \in Event
         /\ Current.seq = registry + 1 /\ Current.type = run.next
         /\ Current.run = run.id /\ Current.turn = run.turn
BY DEF TypeOK, Run, Event, Current

(* Appending a row leaves the other rows where they are. *)
LEMMA AppendRow ==
  ASSUME TypeOK, NEW e \in Event, log' = Append(log, e)
  PROVE  /\ log' \in Seq(Event)
         /\ Len(log') = Len(log) + 1
         /\ DOMAIN log' = 1..(Len(log) + 1)
         /\ \A i \in 1..Len(log) : log'[i] = log[i]
         /\ log'[Len(log) + 1] = e
         /\ Rows' = Rows \cup {e}
<1>1. log \in Seq(Event) /\ DOMAIN log = 1..Len(log) /\ Len(log) \in Nat
  BY SequenceFacts DEF TypeOK
<1>2. /\ log' \in Seq(Event)
      /\ Len(log') = Len(log) + 1
      /\ \A i \in 1..Len(log) : log'[i] = log[i]
      /\ log'[Len(log) + 1] = e
  BY <1>1, AppendProperties
<1>3. DOMAIN log' = 1..(Len(log) + 1)
  BY <1>1, <1>2, LenProperties
<1>4. Rows' = Rows \cup {e}
  <2>1. ASSUME NEW r \in Rows'
        PROVE  r \in Rows \cup {e}
    <3>1. PICK i \in DOMAIN log' : r = log'[i]
      BY DEF Rows
    <3>2. CASE i = Len(log) + 1
      BY <1>2, <3>1, <3>2
    <3>3. CASE i \in 1..Len(log)
      BY <1>1, <1>2, <3>1, <3>3 DEF Rows
    <3> QED
      BY <1>1, <1>3, <3>2, <3>3
  <2>2. ASSUME NEW r \in Rows
        PROVE  r \in Rows'
    <3>1. PICK i \in DOMAIN log : r = log[i]
      BY DEF Rows
    <3>2. i \in DOMAIN log' /\ r = log'[i]
      BY <1>1, <1>2, <1>3, <3>1
    <3> QED
      BY <3>2 DEF Rows
  <2>3. e \in Rows'
    <3>1. Len(log) + 1 \in DOMAIN log' /\ e = log'[Len(log) + 1]
      BY <1>1, <1>2, <1>3
    <3> QED
      BY <3>1 DEF Rows
  <2> QED
    BY <2>1, <2>2, <2>3
<1> QED
  BY <1>2, <1>3, <1>4

(* In a contiguous log, the row with a number is at that position. *)
LEMMA RowAtItsNumber ==
  ASSUME TypeOK, LogIsContiguous, NEW e \in Rows
  PROVE  e.seq \in 1..Len(log) /\ e = log[e.seq]
BY SequenceFacts DEF LogIsContiguous, Rows
-------------------------------------------------------------------------------
(* A step that leaves the rows, the cursor and the wire alone needs to be      *)
(* looked at for the active execution only.                                   *)
LEMMA StreamKept ==
  ASSUME StreamInv, UNCHANGED <<log, last, registry, saved, behind, posted>>, RunInv'
  PROVE  StreamInv'
BY DEF StreamInv, LogIsContiguous, CursorTrailsLog, TurnsAreWhole, WireInv, Placed, Rows

LEMMA PostKeepsStream ==
  ASSUME IndInv, Post
  PROVE  StreamInv'
<1>1. Current \in Event /\ Current.seq = registry + 1
  BY CurrentIsEvent DEF IndInv, Post
<1>2. Placed(Current)
  BY DEF IndInv, StreamInv, RunInv, Post
<1>3. /\ run'.turn = run.turn /\ Current' = Current
      /\ log' = log /\ last' = last /\ registry' = registry
      /\ saved' = saved /\ behind' = behind
      /\ posted' = posted \cup {Current}
  BY DEF IndInv, TypeOK, Run, Post, Current, logVars, fileVars
<1>4. RunInv'
  BY <1>2, <1>3 DEF RunInv, Placed, Post
<1>5. WireInv'
  <2>1. ASSUME NEW e \in posted'
        PROVE  (behind' \/ e.seq <= registry' + 1) /\ Placed(e)'
    <3>1. (behind \/ e.seq <= registry + 1) /\ Placed(e)
      <4>1. CASE e \in posted
        BY <4>1 DEF IndInv, StreamInv, WireInv
      <4>2. CASE e = Current
        BY <1>1, <1>2, <4>2 DEF IndInv, TypeOK
      <4> QED
        BY <1>3, <2>1, <4>1, <4>2
    <3> QED
      BY <1>3, <3>1 DEF Placed
  <2>2. Rows' \subseteq posted'
    BY <1>3 DEF IndInv, StreamInv, WireInv, Rows
  <2> QED
    BY <2>1, <2>2 DEF WireInv
<1> QED
  BY <1>3, <1>4, <1>5
  DEF IndInv, StreamInv, LogIsContiguous, CursorTrailsLog, TurnsAreWhole

LEMMA AcknowledgedKeepsStream ==
  ASSUME IndInv, Acknowledged
  PROVE  StreamInv'
<1>1. /\ run.turn # NoTurn /\ Current \in Rows /\ registry \in Nat
      /\ Len(log) \in Nat /\ last = Len(log)
  BY SequenceFacts DEF IndInv, StreamInv, RunInv, Acknowledged, TypeOK, LogIsContiguous
<1>2. /\ registry + 1 \in 1..Len(log) /\ log[registry + 1] = Current
      /\ Current.seq = registry + 1 /\ Current.type = run.next /\ Current.run = run.id
  BY <1>1, RowAtItsNumber, CurrentIsEvent DEF IndInv, StreamInv
<1>3. /\ registry' = registry + 1 /\ log' = log /\ last' = last /\ posted' = posted
      /\ behind' = behind /\ saved' \in {saved, registry + 1} /\ saved \in Nat
  BY DEF Acknowledged, Saves, SaveFails, logVars, IndInv, TypeOK
<1>4. CursorTrailsLog'
  <2>1. saved <= registry /\ (behind \/ last <= registry + 1)
    BY DEF IndInv, StreamInv, CursorTrailsLog
  <2> QED
    BY <1>1, <1>2, <1>3, <2>1 DEF CursorTrailsLog
<1>5. WireInv'
  <2>1. ASSUME NEW e \in posted
        PROVE  (behind' \/ e.seq <= registry' + 1) /\ Placed(e)'
    <3>1. e \in Event
      BY DEF IndInv, TypeOK
    <3> QED
      BY <1>1, <1>3, <3>1 DEF IndInv, StreamInv, WireInv, Placed, Event
  <2> QED
    BY <1>3, <2>1 DEF IndInv, StreamInv, WireInv, Rows
<1>6. RunInv'
  <2>1. CASE run' = NoRun
    BY <2>1 DEF RunInv, NoRun
  <2>2. CASE run' # NoRun
    <3>1. PICK type \in Types :
             /\ run' = [run EXCEPT !.next = type, !.sending = FALSE]
             /\ <<run.next, type>> \in {<<"turn_started", "model_text_delta">>,
                  <<"model_text_delta", "completed">>, <<"error", "failed">>,
                  <<"turn_started", "error">>, <<"model_text_delta", "error">>,
                  <<"completed", "error">>}
      <4>1. run.next \in Types
        BY DEF IndInv, TypeOK, Run
      <4>2. CASE Saves
        <5>1. /\ run.next \notin {"completed", "failed"}
              /\ run' = [run EXCEPT !.next = Following(run.next), !.sending = FALSE]
          BY <2>2, <4>2 DEF Saves
        <5>2. run.next \in {"turn_started", "model_text_delta", "error"}
          BY <4>1, <5>1 DEF Types
        <5> QED
          BY <5>1, <5>2 DEF Following, Types
      <4>3. CASE SaveFails
        <5>1. /\ run.next \notin {"error", "failed"}
              /\ run' = [run EXCEPT !.next = "error", !.sending = FALSE]
          BY <2>2, <4>3 DEF SaveFails
        <5> QED
          BY <4>1, <5>1 DEF Types
      <4> QED
        BY <4>2, <4>3 DEF Acknowledged
    <3>2. /\ run'.sending = FALSE /\ run'.turn = run.turn /\ run'.id = run.id
          /\ run'.next = type
      BY <3>1 DEF IndInv, TypeOK, Run
    <3>3. Current'.seq = registry + 2 /\ Current'.run = run.id /\ Current'.type = type
      BY <1>1, <1>3, <3>2 DEF Current
    <3>4. Placed(Current)'
      <4>1. Current'.seq > 1 /\ Current'.seq - 1 <= Len(log') /\ Current'.seq - 1 = registry + 1
        BY <1>1, <1>2, <1>3, <3>3
      <4>2. Follows(log[registry + 1], Current')
        BY <1>2, <3>1, <3>3 DEF Follows
      <4> QED
        BY <1>3, <4>1, <4>2 DEF Placed, Follows
    <3> QED
      BY <3>2, <3>4 DEF RunInv
  <2> QED
    BY <2>1, <2>2
<1> QED
  BY <1>3, <1>4, <1>5, <1>6 DEF IndInv, StreamInv, LogIsContiguous, TurnsAreWhole

(* A new row: its number is the next one, and its predecessor is the last row. *)
LEMMA StoreKeepsStream ==
  ASSUME IndInv, NEW e \in posted, Store(e)
  PROVE  StreamInv'
<1>1. /\ e \in Event /\ e.seq = last + 1 /\ last = Len(log)
      /\ behind \/ e.seq <= registry + 1
      /\ Placed(e)
  BY DEF IndInv, TypeOK, StreamInv, LogIsContiguous, WireInv, Store, Insertable
<1>2. /\ Len(log) \in Nat /\ registry \in Nat /\ DOMAIN log = 1..Len(log)
      /\ posted \subseteq Event
  BY SequenceFacts DEF IndInv, TypeOK
<1>3. /\ last' = e.seq /\ registry' = registry /\ posted' = posted /\ run' = run
      /\ saved' = saved /\ behind' = behind
  BY DEF Store, runtimeVars, fileVars
<1>4. /\ Len(log') = Len(log) + 1
      /\ DOMAIN log' = 1..(Len(log) + 1)
      /\ \A i \in 1..Len(log) : log'[i] = log[i]
      /\ log'[Len(log) + 1] = e
      /\ Rows' = Rows \cup {e}
  BY <1>1, AppendRow DEF IndInv, Store
<1>5. LogIsContiguous'
  BY <1>1, <1>2, <1>3, <1>4 DEF IndInv, StreamInv, LogIsContiguous
<1>6. CursorTrailsLog'
  BY <1>1, <1>2, <1>3 DEF IndInv, StreamInv, CursorTrailsLog
<1>7. TurnsAreWhole'
  <2> SUFFICES ASSUME NEW i \in DOMAIN log', log'[i].type # "turn_started"
               PROVE  i > 1 /\ Follows(log'[i - 1], log'[i])
    BY DEF TurnsAreWhole, Follows
  <2>1. CASE i \in 1..Len(log)
    <3>1. i > 1 /\ Follows(log[i - 1], log[i])
      BY <1>2, <1>4, <2>1 DEF IndInv, StreamInv, TurnsAreWhole
    <3>2. log'[i - 1] = log[i - 1] /\ log'[i] = log[i]
      BY <1>2, <1>4, <2>1, <3>1
    <3> QED
      BY <3>1, <3>2
  <2>2. CASE i = Len(log) + 1
    <3>1. e.seq = i /\ log'[i] = e
      BY <1>1, <1>4, <2>2
    <3>2. i > 1 /\ i - 1 <= Len(log) /\ Follows(log[i - 1], e)
      BY <1>1, <3>1 DEF Placed
    <3>3. log'[i - 1] = log[i - 1]
      BY <1>2, <1>4, <2>2, <3>2
    <3> QED
      BY <3>1, <3>2, <3>3
  <2> QED
    BY <1>2, <1>4, <2>1, <2>2
<1>8. ASSUME NEW f, f.seq \in Nat, Placed(f)
      PROVE  Placed(f)'
  <2> SUFFICES ASSUME f.type # "turn_started"
               PROVE  f.seq > 1 /\ f.seq - 1 <= Len(log') /\ Follows(log'[f.seq - 1], f)
    BY DEF Placed, Follows
  <2>1. f.seq > 1 /\ f.seq - 1 <= Len(log) /\ Follows(log[f.seq - 1], f)
    BY <1>8 DEF Placed
  <2>2. f.seq - 1 \in 1..Len(log)
    BY <1>2, <1>8, <2>1
  <2> QED
    BY <1>2, <1>4, <2>1, <2>2
<1>9. WireInv'
  <2>1. \A f \in posted : f.seq \in Nat
    BY <1>2 DEF Event
  <2>2. \A f \in posted : (behind \/ f.seq <= registry + 1) /\ Placed(f)
    BY DEF IndInv, StreamInv, WireInv
  <2>3. \A f \in posted : Placed(f)'
    BY <1>8, <2>1, <2>2
  <2>4. Rows' \subseteq posted'
    BY <1>3, <1>4 DEF IndInv, StreamInv, WireInv
  <2> QED
    BY <1>3, <2>2, <2>3, <2>4 DEF WireInv
<1>10. RunInv'
  <2>1. CASE run.turn = NoTurn
    BY <1>3, <2>1 DEF IndInv, StreamInv, RunInv
  <2>2. CASE run.turn # NoTurn
    <3>1. Current.seq \in Nat /\ Placed(Current)
      BY <1>2, <2>2, CurrentIsEvent DEF IndInv, StreamInv, RunInv
    <3>2. Current' = Current
      BY <1>3 DEF Current
    <3>3. Placed(Current)'
      BY <1>8, <3>1, <3>2
    <3> QED
      BY <1>3, <2>2, <3>3 DEF IndInv, StreamInv, RunInv
  <2> QED
    BY <2>1, <2>2
<1> QED
  BY <1>5, <1>6, <1>7, <1>9, <1>10 DEF StreamInv

(* An error follows the first event just as the answer does. *)
LEMMA ProviderFailsKeepsStream ==
  ASSUME IndInv, ProviderFails
  PROVE  StreamInv'
<1>1. /\ run.turn # NoTurn /\ run.next = "model_text_delta"
      /\ log' = log /\ last' = last /\ registry' = registry /\ posted' = posted
      /\ saved' = saved /\ behind' = behind
  BY DEF ProviderFails, logVars, fileVars
<1>2. run' = [run EXCEPT !.next = "error"]
  BY DEF ProviderFails
<1>3. /\ run'.turn = run.turn /\ run'.id = run.id /\ run'.next = "error"
      /\ run'.sending = run.sending
  BY <1>2 DEF IndInv, TypeOK, Run
<1>4. Current.seq > 1 /\ Current.seq - 1 <= Len(log) /\ Follows(log[Current.seq - 1], Current)
  BY <1>1, CurrentIsEvent DEF IndInv, StreamInv, RunInv, Placed
<1>5. Current'.seq = Current.seq /\ Current'.run = Current.run /\ Current'.type = "error"
  BY <1>1, <1>3 DEF Current
<1>6. Current.type = "model_text_delta"
  BY <1>1 DEF Current
<1>7. log[Current.seq - 1].run = Current.run /\ log[Current.seq - 1].type = "turn_started"
  BY <1>4, <1>6 DEF Follows
<1>8. Follows(log[Current.seq - 1], Current')
  BY <1>5, <1>7 DEF Follows
<1>9. Placed(Current)'
  BY <1>1, <1>4, <1>5, <1>8 DEF Placed, Follows
<1>10. RunInv'
  BY <1>3, <1>9 DEF IndInv, StreamInv, RunInv
<1> QED
  BY <1>1, <1>10, StreamKept DEF IndInv

(* A restart takes the cursor from the file: it lags only if it is behind. *)
LEMMA CrashKeepsStream ==
  ASSUME IndInv, Crash
  PROVE  StreamInv'
<1>1. /\ log' = log /\ last' = last /\ posted' = posted /\ saved' = saved
      /\ registry' = saved /\ run' = NoRun
      /\ behind' = IF saved = registry THEN behind ELSE TRUE
  BY DEF Crash, logVars
<1>2. saved <= registry /\ registry <= last /\ (behind \/ last <= registry + 1)
  BY DEF IndInv, StreamInv, CursorTrailsLog
<1>3. saved \in Nat /\ registry \in Nat /\ last \in Nat /\ posted \subseteq Event
  BY DEF IndInv, TypeOK
<1>4. CursorTrailsLog'
  BY <1>1, <1>2, <1>3 DEF CursorTrailsLog
<1>5. \A e \in posted : (behind \/ e.seq <= registry + 1) /\ Placed(e)
  BY DEF IndInv, StreamInv, WireInv
<1>6. WireInv'
  BY <1>1, <1>5 DEF IndInv, StreamInv, WireInv, Placed, Rows
<1>7. RunInv'
  BY <1>1 DEF RunInv, NoRun
<1> QED
  BY <1>1, <1>4, <1>6, <1>7 DEF IndInv, StreamInv, LogIsContiguous, TurnsAreWhole

(* The execution ends, or a new one begins with its first event. *)
LEMMA FreshRunIsPlaced ==
  ASSUME run'.next = "turn_started", ~run'.sending
  PROVE  RunInv'
BY DEF RunInv, Placed, Current

LEMMA StreamStep ==
  ASSUME IndInv, [Next]_vars
  PROVE  StreamInv'
<1>1. ASSUME UNCHANGED <<log, last, registry, saved, behind, posted, run>>
      PROVE  StreamInv'
  <2>1. RunInv'
    BY <1>1 DEF IndInv, StreamInv, RunInv, Placed, Current
  <2> QED
    BY <1>1, <2>1, StreamKept DEF IndInv
<1>2. CASE vars' = vars
  BY <1>1, <1>2 DEF vars, logVars, runtimeVars, fileVars
<1>3. CASE BrowserStep
  BY <1>1, <1>3 DEF BrowserStep, Select, Leave, Poll, Connect, Subscribe, Receive, Disconnect,
                    Recover, logVars, runtimeVars, fileVars
<1>4. CASE ApiStep
  <2>1. CASE Stop
    <3>1. UNCHANGED <<log, last, registry, saved, behind, posted>>
      BY <2>1 DEF Stop, logVars, fileVars
    <3>2. /\ run'.turn = run.turn /\ run'.id = run.id /\ run'.next = run.next
          /\ run'.sending = run.sending
      BY <2>1 DEF Stop, IndInv, TypeOK, Run
    <3>3. RunInv'
      BY <3>1, <3>2 DEF IndInv, StreamInv, RunInv, Placed, Current
    <3> QED
      BY <3>1, <3>3, StreamKept DEF IndInv
  <2>2. CASE ~Stop
    BY <1>1, <1>4, <2>2 DEF ApiStep, PostTurn, TurnAccepted, TurnRefused, StopCommits, Archive,
                            DeleteKnowledgeBase, logVars, runtimeVars, fileVars
  <2> QED
    BY <2>1, <2>2
<1>5. CASE CallbackStep
  <2>1. PICK e \in posted : Store(e) \/ DeliverAgain(e)
    BY <1>5 DEF CallbackStep
  <2>2. CASE Store(e)
    BY <2>2, StoreKeepsStream
  <2>3. CASE DeliverAgain(e)
    BY <1>1, <2>3 DEF DeliverAgain, logVars, runtimeVars, fileVars
  <2> QED
    BY <2>1, <2>2, <2>3
<1>6. CASE RuntimeStep
  <2>1. CASE \E t \in Turns : TakeStart(t)
    <3>1. PICK t \in Turns : TakeStart(t)
      BY <2>1
    <3>2. CASE run' = run
      BY <1>1, <3>1, <3>2 DEF TakeStart, logVars, fileVars
    <3>3. CASE run' = [NoRun EXCEPT !.turn = t, !.id = runs + 1]
      <4>1. run'.next = "turn_started" /\ ~run'.sending
        BY <3>3 DEF NoRun
      <4>2. UNCHANGED <<log, last, registry, saved, behind, posted>>
        BY <3>1 DEF TakeStart, logVars, fileVars
      <4> QED
        BY <4>1, <4>2, FreshRunIsPlaced, StreamKept DEF IndInv
    <3> QED
      BY <3>1, <3>2, <3>3 DEF TakeStart
  <2>2. CASE StartFails \/ AbortedRunEnds
    <3>1. run' = NoRun /\ UNCHANGED <<log, last, registry, saved, behind, posted>>
      BY <2>2 DEF StartFails, AbortedRunEnds, logVars, fileVars
    <3>2. run'.next = "turn_started" /\ ~run'.sending
      BY <3>1 DEF NoRun
    <3> QED
      BY <3>1, <3>2, FreshRunIsPlaced, StreamKept DEF IndInv
  <2> QED
    BY <1>6, <2>1, <2>2, PostKeepsStream, ProviderFailsKeepsStream, AcknowledgedKeepsStream,
       CrashKeepsStream
    DEF RuntimeStep, RunStep
<1> QED
  BY <1>2, <1>3, <1>4, <1>5, <1>6 DEF Next
-------------------------------------------------------------------------------
(* An acknowledged start is never forgotten by the log. *)
LEMMA AcceptedStep ==
  ASSUME IndInv, [Next]_vars
  PROVE  AcceptedMeansLogged'
<1>1. ASSUME Rows \subseteq Rows', UNCHANGED request
      PROVE  AcceptedMeansLogged'
  BY <1>1 DEF IndInv, AcceptedMeansLogged
<1>2. ASSUME Rows' = Rows,
             \A t \in Turns : request'[t] \in {"answered", "accepted"} =>
                                request[t] \in {"answered", "accepted"}
      PROVE  AcceptedMeansLogged'
  BY <1>2 DEF IndInv, AcceptedMeansLogged
<1>3. ASSUME UNCHANGED log
      PROVE  Rows' = Rows
  BY <1>3 DEF Rows
<1>4. request \in [Turns -> {"unsent", "calling", "starting", "answered", "rejected",
                             "accepted", "refused"}]
  BY DEF IndInv, TypeOK
<1>5. CASE vars' = vars
  BY <1>1, <1>3, <1>5 DEF vars, apiVars, logVars
<1>6. CASE BrowserStep
  BY <1>1, <1>3, <1>6 DEF BrowserStep, Select, Leave, Poll, Connect, Subscribe, Receive,
                          Disconnect, Recover, logVars, apiVars
<1>7. CASE ApiStep
  <2>1. UNCHANGED log
    BY <1>7 DEF ApiStep, PostTurn, TurnAccepted, TurnRefused, Stop, StopCommits, Archive,
                DeleteKnowledgeBase, logVars
  <2>2. CASE UNCHANGED request
    BY <1>1, <1>3, <2>1, <2>2
  <2>3. CASE \E t \in Turns : PostTurn(t) \/ TurnAccepted(t) \/ TurnRefused(t)
    BY <1>2, <1>3, <1>4, <2>1, <2>3 DEF PostTurn, TurnAccepted, TurnRefused
  <2> QED
    BY <1>7, <2>2, <2>3 DEF ApiStep, Stop, StopCommits, Archive, DeleteKnowledgeBase
<1>8. CASE CallbackStep
  <2>1. PICK e \in posted : Store(e) \/ DeliverAgain(e)
    BY <1>8 DEF CallbackStep
  <2>2. CASE Store(e)
    BY <1>1, <2>2, AppendRow DEF Store, IndInv, TypeOK
  <2>3. CASE DeliverAgain(e)
    BY <1>1, <1>3, <2>3 DEF DeliverAgain, logVars, apiVars
  <2> QED
    BY <2>1, <2>2, <2>3
<1>9. CASE RuntimeStep
  <2>1. UNCHANGED log
    BY <1>9 DEF RuntimeStep, RunStep, TakeStart, StartFails, Post, ProviderFails, AbortedRunEnds,
                Acknowledged, Crash, logVars
  <2>2. CASE UNCHANGED request
    BY <1>1, <1>3, <2>1, <2>2
  <2>3. CASE Acknowledged
    <3>1. run.turn \in Turns /\ Current \in Rows
      BY <2>3 DEF Acknowledged, IndInv, StreamInv, RunInv, TypeOK, Run
    <3>2. CASE run.next = "turn_started"
      <4>1. Current.turn = run.turn /\ Current.type = "turn_started"
        BY <3>2 DEF Current
      <4>2. ASSUME NEW t \in Turns, request'[t] \in {"answered", "accepted"}
            PROVE  \E r \in Rows : r.turn = t /\ r.type = "turn_started"
        <5>1. CASE t = run.turn
          BY <3>1, <4>1, <5>1
        <5>2. CASE t # run.turn
          <6>1. request'[t] = request[t]
            BY <1>4, <2>3, <3>1, <3>2, <5>2 DEF Acknowledged, Saves, SaveFails
          <6> QED
            BY <4>2, <6>1 DEF IndInv, AcceptedMeansLogged
        <5> QED
          BY <5>1, <5>2
      <4> QED
        BY <1>3, <2>1, <4>2 DEF AcceptedMeansLogged
    <3>3. CASE run.next # "turn_started"
      BY <2>2, <2>3, <3>3 DEF Acknowledged, Saves, SaveFails
    <3> QED
      BY <3>2, <3>3
  <2>4. CASE (\E t \in Turns : TakeStart(t)) \/ StartFails \/ Crash
    BY <1>2, <1>3, <1>4, <2>1, <2>4 DEF TakeStart, StartFails, Crash
  <2> QED
    BY <1>9, <2>2, <2>3, <2>4 DEF RuntimeStep, RunStep, Post, ProviderFails, AbortedRunEnds, apiVars
<1> QED
  BY <1>5, <1>6, <1>7, <1>8, <1>9 DEF Next

-------------------------------------------------------------------------------
(* What list_events returns are stored rows, in their places. *)
LEMMA RowsAfterProperties ==
  ASSUME TypeOK, NEW n \in Nat
  PROVE  /\ RowsAfter(n) \in Seq(Event)
         /\ Len(RowsAfter(n)) = IF n < Len(log) THEN Len(log) - n ELSE 0
         /\ DOMAIN RowsAfter(n) = 1..Len(RowsAfter(n))
         /\ \A i \in DOMAIN RowsAfter(n) :
              n + i \in DOMAIN log /\ RowsAfter(n)[i] = log[n + i]
<1>1. log \in Seq(Event) /\ Len(log) \in Nat /\ DOMAIN log = 1..Len(log)
  BY SequenceFacts DEF TypeOK
<1>2. \A i \in (n + 1)..Len(log) : log[i] \in Event
  BY <1>1, SequenceFacts
<1>3. /\ SubSeq(log, n + 1, Len(log)) \in Seq(Event)
      /\ Len(SubSeq(log, n + 1, Len(log))) =
           IF n + 1 <= Len(log) THEN Len(log) - (n + 1) + 1 ELSE 0
      /\ \A i \in 1..(Len(log) - (n + 1) + 1) :
           SubSeq(log, n + 1, Len(log))[i] = log[n + 1 + i - 1]
  BY <1>1, <1>2, SubSeqProperties
<1>4. /\ RowsAfter(n) \in Seq(Event)
      /\ \A i \in 1..(Len(log) - n) : RowsAfter(n)[i] = log[n + i]
  BY <1>1, <1>3 DEF RowsAfter
<1>5. DOMAIN RowsAfter(n) = 1..Len(RowsAfter(n))
  BY <1>4, LenProperties
<1>6. (IF n + 1 <= Len(log) THEN Len(log) - (n + 1) + 1 ELSE 0)
      = (IF n < Len(log) THEN Len(log) - n ELSE 0)
  BY <1>1
<1>7. Len(RowsAfter(n)) = IF n < Len(log) THEN Len(log) - n ELSE 0
  BY <1>3, <1>6 DEF RowsAfter
<1>8. \A i \in 1..Len(RowsAfter(n)) : i \in 1..(Len(log) - n) /\ n + i \in 1..Len(log)
  <2>1. CASE n < Len(log)
    <3>1. Len(RowsAfter(n)) = Len(log) - n
      BY <1>7, <2>1
    <3>2. \A i \in 1..(Len(log) - n) : n + i \in 1..Len(log)
      BY <1>1
    <3> QED
      BY <3>1, <3>2
  <2>2. CASE ~(n < Len(log))
    <3>1. Len(RowsAfter(n)) = 0
      BY <1>7, <2>2
    <3>2. 1..0 = {}
      OBVIOUS
    <3> QED
      BY <3>1, <3>2
  <2> QED
    BY <2>1, <2>2
<1> QED
  BY <1>1, <1>4, <1>5, <1>7, <1>8

(* A prefix of the log, continued with the rows after it, is a prefix. *)
LEMMA PrefixContinued ==
  ASSUME TypeOK, ViewIsPrefix
  PROVE  LET w == view \o RowsAfter(Len(view))
         IN  /\ w \in Seq(Event)
             /\ Len(w) = Len(log)
             /\ \A i \in DOMAIN w : w[i] = log[i]
<1> DEFINE w == view \o RowsAfter(Len(view))
<1>1. /\ view \in Seq(Event) /\ Len(view) \in Nat /\ Len(log) \in Nat
      /\ DOMAIN view = 1..Len(view) /\ Len(view) <= Len(log)
      /\ \A i \in 1..Len(view) : view[i] = log[i]
  BY SequenceFacts DEF TypeOK, ViewIsPrefix
<1>2. /\ RowsAfter(Len(view)) \in Seq(Event)
      /\ Len(RowsAfter(Len(view))) = Len(log) - Len(view)
      /\ \A i \in 1..(Len(log) - Len(view)) : RowsAfter(Len(view))[i] = log[Len(view) + i]
  <2>1. /\ RowsAfter(Len(view)) \in Seq(Event)
        /\ Len(RowsAfter(Len(view))) =
             IF Len(view) < Len(log) THEN Len(log) - Len(view) ELSE 0
        /\ DOMAIN RowsAfter(Len(view)) = 1..Len(RowsAfter(Len(view)))
        /\ \A i \in DOMAIN RowsAfter(Len(view)) : RowsAfter(Len(view))[i] = log[Len(view) + i]
    BY <1>1, RowsAfterProperties
  <2>2. (IF Len(view) < Len(log) THEN Len(log) - Len(view) ELSE 0) = Len(log) - Len(view)
    BY <1>1
  <2> QED
    BY <2>1, <2>2
<1>3. /\ w \in Seq(Event)
      /\ Len(w) = Len(view) + (Len(log) - Len(view))
      /\ \A i \in 1..(Len(view) + (Len(log) - Len(view))) :
            w[i] = IF i <= Len(view) THEN view[i] ELSE RowsAfter(Len(view))[i - Len(view)]
  BY <1>1, <1>2, ConcatProperties
<1>4. DOMAIN w = 1..Len(log)
  BY <1>1, <1>3, LenProperties
<1>5. ASSUME NEW i \in 1..Len(log)
      PROVE  w[i] = log[i]
  <2>1. CASE i <= Len(view)
    BY <1>1, <1>3, <2>1
  <2>2. CASE ~(i <= Len(view))
    <3>1. i - Len(view) \in 1..(Len(log) - Len(view)) /\ Len(view) + (i - Len(view)) = i
      BY <1>1, <2>2
    <3> QED
      BY <1>1, <1>2, <1>3, <2>2, <3>1
  <2> QED
    BY <2>1, <2>2
<1> QED
  BY <1>1, <1>3, <1>4, <1>5

(* A poll is only taken at the cursor of what is shown. *)
LEMMA PollAtView ==
  ASSUME TypeOK, LogIsContiguous, Poll
  PROVE  cursor = Len(view)
<1>1. cursor \in Nat /\ Len(log) \in Nat /\ Len(view) \in Nat /\ DOMAIN log = 1..Len(log)
  BY SequenceFacts DEF TypeOK
<1>2. \E i \in DOMAIN RowsAfter(cursor) : TRUE
  <2>1. Len(RowsAfter(cursor)) \in Nat \ {0}
    BY <1>1, RowsAfterProperties, EmptySeq DEF Poll
  <2>2. DOMAIN RowsAfter(cursor) = 1..Len(RowsAfter(cursor))
    BY <1>1, RowsAfterProperties
  <2> QED
    BY <2>1, <2>2
<1>3. PICK i \in DOMAIN RowsAfter(cursor) : TRUE
  BY <1>2
<1>4. i \in Int
  <2>1. DOMAIN RowsAfter(cursor) = 1..Len(RowsAfter(cursor))
    BY <1>1, RowsAfterProperties
  <2>2. DOMAIN RowsAfter(cursor) \subseteq Int
    BY <2>1
  <2> QED
    BY <1>3, <2>2
<1>5. RowsAfter(cursor)[i] = log[cursor + i] /\ cursor + i \in DOMAIN log
  BY <1>1, <1>3, RowsAfterProperties
<1>6. RowsAfter(cursor)[i].seq = cursor + i
  BY <1>5 DEF LogIsContiguous
<1>7. RowsAfter(cursor)[i].seq = Len(view) + i
  BY <1>3 DEF Poll
<1> QED
  BY <1>1, <1>4, <1>6, <1>7

(* An answer to the browser with nothing in flight. *)
LEMMA EmptyInbox ==
  ASSUME ViewIsPrefix', inbox' = <<>>
  PROVE  ViewInv'
BY DEF ViewInv

LEMMA ReceiveKeepsView ==
  ASSUME IndInv, Receive
  PROVE  ViewInv'
<1>1. /\ inbox \in Seq(Event) /\ inbox # <<>> /\ view \in Seq(Event)
      /\ DOMAIN inbox = 1..Len(inbox) /\ Len(inbox) \in Nat
      /\ DOMAIN view = 1..Len(view) /\ Len(view) \in Nat
      /\ DOMAIN log = 1..Len(log) /\ Len(log) \in Nat
  BY SequenceFacts DEF IndInv, TypeOK, Receive
<1>2. log' = log
  BY DEF Receive, logVars
<1>3. Rows' = Rows
  BY <1>2 DEF Rows
<1>4. CASE LeavesGap(Head(inbox))
  <2>1. view' = view /\ inbox' = <<>>
    BY <1>4 DEF Receive, Close
  <2> QED
    BY <1>2, <2>1, EmptyInbox DEF IndInv, ViewInv, ViewIsPrefix
<1>5. CASE ~LeavesGap(Head(inbox))
  <2> DEFINE e == Head(inbox)
  <2>1. view' = Reduce(e) /\ inbox' = Tail(inbox)
    BY <1>5 DEF Receive
  <2>2. Len(inbox) > 0 /\ e = inbox[1]
    BY <1>1, EmptySeq
  <2>3. e \in Rows /\ e \in Event
    BY <1>1, <2>2, ElementOfSeq DEF IndInv, ViewInv
  <2>4. \A i \in DOMAIN inbox' : inbox'[i] \in Rows'
    <3>1. /\ inbox' \in Seq(Event) /\ Len(inbox') = Len(inbox) - 1
          /\ \A i \in 1..Len(inbox') : inbox'[i] = inbox[i + 1]
      BY <1>1, <2>1, HeadTailProperties
    <3>2. DOMAIN inbox' = 1..(Len(inbox) - 1)
      BY <3>1, LenProperties
    <3>3. ASSUME NEW i \in 1..(Len(inbox) - 1)
          PROVE  inbox'[i] \in Rows
      <4>1. i + 1 \in DOMAIN inbox /\ inbox'[i] = inbox[i + 1]
        BY <1>1, <3>1
      <4> QED
        BY <4>1 DEF IndInv, ViewInv
    <3> QED
      BY <1>3, <3>2, <3>3
  <2>5. ViewIsPrefix'
    <3>1. CASE e \in Seen
      BY <1>2, <2>1, <3>1 DEF Reduce, IndInv, ViewInv, ViewIsPrefix
    <3>2. CASE e \notin Seen
      <4>1. e.seq = Len(view) + 1 /\ view' = Append(view, e)
        BY <1>5, <2>1, <3>2 DEF LeavesGap, Reduce
      <4>2. e.seq \in 1..Len(log) /\ e = log[e.seq]
        BY <2>3, RowAtItsNumber DEF IndInv, StreamInv
      <4>3. /\ view' \in Seq(Event) /\ Len(view') = Len(view) + 1
            /\ \A i \in 1..Len(view) : view'[i] = view[i]
            /\ view'[Len(view) + 1] = e
        BY <1>1, <2>3, <4>1, AppendProperties
      <4>4. DOMAIN view' = 1..(Len(view) + 1)
        BY <4>3, LenProperties
      <4>5. \A i \in 1..Len(view) : view[i] = log[i]
        BY <1>1 DEF IndInv, ViewInv, ViewIsPrefix
      <4>6. ASSUME NEW i \in 1..(Len(view) + 1)
            PROVE  view'[i] = log[i]
        <5>1. CASE i \in 1..Len(view)
          BY <4>3, <4>5, <5>1
        <5>2. CASE i = Len(view) + 1
          BY <4>1, <4>2, <4>3, <5>2
        <5> QED
          BY <1>1, <5>1, <5>2
      <4> QED
        BY <1>1, <1>2, <4>1, <4>2, <4>3, <4>4, <4>6 DEF ViewIsPrefix
    <3> QED
      BY <3>1, <3>2
  <2> QED
    BY <2>4, <2>5 DEF ViewInv
<1> QED
  BY <1>4, <1>5

(* A stored event that is sent to the subscriber, or not. *)
LEMMA BroadcastKeepsView ==
  ASSUME IndInv, NEW e \in Event, e \in Rows', Rows \subseteq Rows',
         Broadcast(e), ViewIsPrefix'
  PROVE  ViewInv'
<1>1. /\ inbox \in Seq(Event) /\ DOMAIN inbox = 1..Len(inbox) /\ Len(inbox) \in Nat
      /\ \A i \in DOMAIN inbox : inbox[i] \in Rows'
  BY SequenceFacts DEF IndInv, TypeOK, ViewInv
<1>2. CASE inbox' = inbox
  BY <1>1, <1>2 DEF ViewInv
<1>3. CASE inbox' = Append(inbox, e)
  <2>1. /\ inbox' \in Seq(Event) /\ Len(inbox') = Len(inbox) + 1
        /\ \A i \in 1..Len(inbox) : inbox'[i] = inbox[i]
        /\ inbox'[Len(inbox) + 1] = e
    BY <1>1, <1>3, AppendProperties
  <2>2. DOMAIN inbox' = 1..(Len(inbox) + 1)
    BY <2>1, LenProperties
  <2>3. ASSUME NEW i \in 1..(Len(inbox) + 1)
        PROVE  inbox'[i] \in Rows'
    <3>1. CASE i \in 1..Len(inbox)
      BY <1>1, <2>1, <3>1
    <3>2. CASE i = Len(inbox) + 1
      BY <2>1, <3>2
    <3> QED
      BY <1>1, <3>1, <3>2
  <2> QED
    BY <2>2, <2>3 DEF ViewInv
<1> QED
  BY <1>2, <1>3 DEF Broadcast

LEMMA ViewStep ==
  ASSUME IndInv, [Next]_vars
  PROVE  ViewInv'
<1>1. ASSUME UNCHANGED <<log, view, inbox>>
      PROVE  ViewInv'
  BY <1>1 DEF IndInv, ViewInv, ViewIsPrefix, Rows
<1>2. ASSUME UNCHANGED <<log, view>>, inbox' = <<>>
      PROVE  ViewInv'
  BY <1>2, EmptyInbox DEF IndInv, ViewInv, ViewIsPrefix
<1>3. CASE vars' = vars
  BY <1>1, <1>3 DEF vars, logVars, browserVars
<1>4. CASE ApiStep
  BY <1>1, <1>4 DEF ApiStep, PostTurn, TurnAccepted, TurnRefused, Stop, StopCommits, Archive,
                    DeleteKnowledgeBase, logVars, browserVars
<1>5. CASE RuntimeStep
  BY <1>1, <1>5 DEF RuntimeStep, RunStep, TakeStart, StartFails, Post, ProviderFails,
                    AbortedRunEnds, Acknowledged, Crash, logVars, browserVars
<1>6. CASE CallbackStep
  <2>1. PICK e \in posted : Store(e) \/ DeliverAgain(e)
    BY <1>6 DEF CallbackStep
  <2>2. e \in Event
    BY DEF IndInv, TypeOK
  <2>3. CASE Store(e)
    <3>1. /\ Len(log') = Len(log) + 1 /\ Rows' = Rows \cup {e}
          /\ \A i \in 1..Len(log) : log'[i] = log[i]
      BY <2>2, <2>3, AppendRow DEF IndInv, Store
    <3>2. view' = view
      BY <2>3 DEF Store
    <3>3. Len(log) \in Nat /\ Len(view) \in Nat /\ DOMAIN view = 1..Len(view)
      BY SequenceFacts DEF IndInv
    <3>4. ViewIsPrefix'
      BY <3>1, <3>2, <3>3 DEF IndInv, ViewInv, ViewIsPrefix
    <3> QED
      BY <2>2, <2>3, <3>1, <3>4, BroadcastKeepsView DEF Store
  <2>4. CASE DeliverAgain(e)
    <3>1. log' = log /\ view' = view /\ e \in Rows
      BY <2>4 DEF DeliverAgain, logVars
    <3>2. ViewIsPrefix' /\ Rows' = Rows
      BY <3>1 DEF IndInv, ViewInv, ViewIsPrefix, Rows
    <3> QED
      BY <2>2, <2>4, <3>1, <3>2, BroadcastKeepsView DEF DeliverAgain
  <2> QED
    BY <2>1, <2>3, <2>4
<1>7. CASE BrowserStep
  <2>1. CASE Select
    <3>1. log' = log /\ view' = RowsAfter(0) /\ inbox' = <<>>
      BY <2>1 DEF Select, Close, OpenAt, logVars
    <3>2. /\ Len(log) \in Nat /\ Len(RowsAfter(0)) = IF 0 < Len(log) THEN Len(log) - 0 ELSE 0
          /\ \A i \in DOMAIN RowsAfter(0) : 0 + i \in DOMAIN log /\ RowsAfter(0)[i] = log[0 + i]
          /\ DOMAIN log = 1..Len(log)
      BY SequenceFacts, RowsAfterProperties DEF IndInv
    <3>3. ViewIsPrefix'
      BY <3>1, <3>2 DEF ViewIsPrefix
    <3> QED
      BY <3>1, <3>3, EmptyInbox
  <2>2. CASE Poll
    <3>1. log' = log /\ view' = view \o RowsAfter(Len(view)) /\ inbox' = inbox
      BY <2>2, PollAtView DEF Poll, logVars, IndInv, StreamInv
    <3>2. Len(log) \in Nat /\ Len(view') = Len(log) /\ \A i \in DOMAIN view' : view'[i] = log[i]
      BY <3>1, PrefixContinued, SequenceFacts DEF IndInv, ViewInv
    <3>3. ViewIsPrefix' /\ Rows' = Rows
      BY <3>1, <3>2 DEF ViewIsPrefix, Rows
    <3> QED
      BY <3>1, <3>3 DEF IndInv, ViewInv
  <2>3. CASE Connect
    <3>1. log' = log /\ view' = view /\ inbox' = RowsAfter(cursor) /\ cursor \in Nat
      BY <2>3 DEF Connect, logVars, IndInv, TypeOK
    <3>2. \A i \in DOMAIN RowsAfter(cursor) :
            cursor + i \in DOMAIN log /\ RowsAfter(cursor)[i] = log[cursor + i]
      BY <3>1, RowsAfterProperties DEF IndInv
    <3>3. \A i \in DOMAIN RowsAfter(cursor) : RowsAfter(cursor)[i] \in Rows
      BY <3>2 DEF Rows
    <3>4. ViewIsPrefix' /\ Rows' = Rows
      BY <3>1 DEF IndInv, ViewInv, ViewIsPrefix, Rows
    <3> QED
      BY <3>1, <3>3, <3>4 DEF ViewInv
  <2>4. CASE Recover
    <3>1. log' = log /\ view' = view \o RowsAfter(Len(view)) /\ inbox' = <<>>
      BY <2>4 DEF Recover, OpenAt, logVars
    <3>2. Len(log) \in Nat /\ Len(view') = Len(log) /\ \A i \in DOMAIN view' : view'[i] = log[i]
      BY <3>1, PrefixContinued, SequenceFacts DEF IndInv, ViewInv
    <3>3. ViewIsPrefix'
      BY <3>1, <3>2 DEF ViewIsPrefix
    <3> QED
      BY <3>1, <3>3, EmptyInbox
  <2>5. CASE Leave \/ Disconnect
    BY <1>2, <2>5 DEF Leave, Disconnect, Close, logVars
  <2>6. CASE Subscribe
    BY <1>1, <2>6 DEF Subscribe, logVars
  <2> QED
    BY <1>7, <2>1, <2>2, <2>3, <2>4, <2>5, <2>6, ReceiveKeepsView DEF BrowserStep
<1> QED
  BY <1>3, <1>4, <1>5, <1>6, <1>7 DEF Next

-------------------------------------------------------------------------------
(* Types, one lemma per process. *)
LEMMA ApiTypes ==
  ASSUME TypeOK, ApiStep
  PROVE  TypeOK'
<1>1. CASE \E t \in Turns : PostTurn(t) \/ TurnAccepted(t) \/ TurnRefused(t)
  <2>1. PICK t \in Turns : PostTurn(t) \/ TurnAccepted(t) \/ TurnRefused(t)
    BY <1>1
  <2>2. CASE PostTurn(t)
    BY <2>2 DEF TypeOK, PostTurn, logVars, runtimeVars, fileVars, browserVars
  <2>3. CASE TurnAccepted(t)
    BY <2>3 DEF TypeOK, TurnAccepted, logVars, runtimeVars, fileVars, browserVars
  <2>4. CASE TurnRefused(t)
    BY <2>4 DEF TypeOK, TurnRefused, SetState, logVars, runtimeVars, fileVars, browserVars
  <2> QED
    BY <2>1, <2>2, <2>3, <2>4
<1>2. CASE Stop
  <2>1. run' \in Run
    BY <1>2 DEF TypeOK, Stop, Run
  <2>2. stopping' = TRUE
    BY <1>2 DEF Stop
  <2> QED
    BY <1>2, <2>1, <2>2 DEF TypeOK, Stop, logVars, fileVars, browserVars
<1>3. CASE StopCommits \/ Archive \/ DeleteKnowledgeBase
  BY <1>3 DEF TypeOK, StopCommits, Archive, DeleteKnowledgeBase, SetState, logVars,
              runtimeVars, fileVars, browserVars
<1> QED
  BY <1>1, <1>2, <1>3 DEF ApiStep

LEMMA RuntimeTypes ==
  ASSUME IndInv, RuntimeStep
  PROVE  TypeOK'
<1> USE DEF IndInv, TypeOK
<1>1. NoRun \in Run
  BY DEF NoRun, Run, Types
<1>2. ASSUME NEW t \in Turns, TakeStart(t)
      PROVE  TypeOK'
  <2>1. run' \in Run /\ runs' \in Nat
    <3>1. ASSUME NEW r \in Run, NEW n \in Nat
          PROVE  [r EXCEPT !.turn = t, !.id = n] \in Run
      <4>1. [r EXCEPT !.turn = t] \in Run
        BY DEF Run
      <4>2. \A q \in Run : [q EXCEPT !.id = n] \in Run
        BY DEF Run
      <4> QED
        BY <4>1, <4>2
    <3>2. runs + 1 \in Nat
      OBVIOUS
    <3>3. [NoRun EXCEPT !.turn = t, !.id = runs + 1] \in Run
      BY <1>1, <3>1, <3>2, Zenon
    <3> QED
      BY <1>2, <3>2, <3>3, Zenon DEF TakeStart
  <2>2. /\ request' \in [Turns -> {"unsent", "calling", "starting", "answered", "rejected",
                                   "accepted", "refused"}]
        /\ started' \subseteq Turns
    BY <1>2 DEF TakeStart
  <2> QED
    BY <1>2, <2>1, <2>2 DEF TakeStart, logVars, fileVars, browserVars
<1>3. CASE StartFails \/ AbortedRunEnds
  BY <1>1, <1>3, SMTT(30) DEF StartFails, AbortedRunEnds, apiVars, logVars, fileVars, browserVars
<1>4. CASE Post
  <2>1. Current \in Event
    BY <1>4, CurrentIsEvent DEF Post
  <2>2. run' \in Run
    BY <1>4 DEF Post, Run
  <2> QED
    BY <1>4, <2>1, <2>2 DEF Post, apiVars, logVars, fileVars, browserVars
<1>5. CASE ProviderFails
  <2>1. run' \in Run
    BY <1>5 DEF ProviderFails, Run, Types
  <2> QED
    BY <1>5, <2>1 DEF ProviderFails, apiVars, logVars, fileVars, browserVars
<1>6. CASE Acknowledged
  <2> DEFINE Requests == [Turns -> {"unsent", "calling", "starting", "answered", "rejected",
                                    "accepted", "refused"}]
  <2>1. CASE Saves
    <3>1. run' \in Run
      <4>1. CASE run.next \in {"completed", "failed"}
        BY <1>1, <2>1, <4>1 DEF Saves
      <4>2. CASE run.next \notin {"completed", "failed"}
        <5>1. run.next \in {"turn_started", "model_text_delta", "error"}
          BY <4>2 DEF Run, Types
        <5>2. Following(run.next) \in Types
          BY <5>1 DEF Following, Types
        <5> QED
          BY <2>1, <4>2, <5>2 DEF Saves, Run
      <4> QED
        BY <4>1, <4>2
    <3>2. request' \in Requests
      BY <2>1 DEF Saves
    <3>3. saved' \in Nat
      BY <2>1 DEF Saves
    <3>4. failing' \in BOOLEAN /\ started' \subseteq Turns
      BY <2>1 DEF Saves
    <3> QED
      BY <1>6, <3>1, <3>2, <3>3, <3>4 DEF Acknowledged, logVars, browserVars
  <2>2. CASE SaveFails
    <3>1. PICK accepted \in BOOLEAN :
             /\ run' = IF accepted /\ ~run.aborted /\ run.next \notin {"error", "failed"}
                       THEN [run EXCEPT !.next = "error", !.sending = FALSE]
                       ELSE NoRun
             /\ started' = IF accepted THEN started ELSE started \ {run.turn}
             /\ request' = IF run.next = "turn_started" /\ request[run.turn] = "starting"
                           THEN [request EXCEPT ![run.turn] =
                                   IF accepted THEN "answered" ELSE "rejected"]
                           ELSE request
      BY <2>2 DEF SaveFails
    <3>2. [run EXCEPT !.next = "error", !.sending = FALSE] \in Run
      BY DEF Run, Types
    <3>3. run' \in Run
      BY <1>1, <3>1, <3>2
    <3>4. started' \subseteq Turns
      BY <3>1
    <3>5. request' \in Requests
      BY <3>1
    <3>6. saved' = saved /\ failing' = TRUE
      BY <2>2 DEF SaveFails
    <3> QED
      BY <1>6, <3>3, <3>4, <3>5, <3>6 DEF Acknowledged, logVars, browserVars
  <2> QED
    BY <1>6, <2>1, <2>2 DEF Acknowledged
<1>7. CASE Crash
  <2>1. run' \in Run
    BY <1>1, <1>7 DEF Crash
  <2>2. behind' \in BOOLEAN
    BY <1>7 DEF Crash
  <2>3. failing' \in BOOLEAN /\ started' \subseteq Turns
    BY <1>7 DEF Crash
  <2>4. registry' \in Nat /\ saved' \in Nat /\ crashes' \in Nat
    BY <1>7 DEF Crash
  <2>5. request' \in [Turns -> {"unsent", "calling", "starting", "answered", "rejected",
                                "accepted", "refused"}]
    BY <1>7 DEF Crash
  <2>6. UNCHANGED <<session, turnState, stopping, logVars, runs, posted, browserVars>>
    BY <1>7 DEF Crash
  <2> QED
    BY <2>1, <2>2, <2>3, <2>4, <2>5, <2>6 DEF logVars, browserVars
<1> QED
  BY <1>2, <1>3, <1>4, <1>5, <1>6, <1>7 DEF RuntimeStep, RunStep

LEMMA CallbackTypes ==
  ASSUME TypeOK, CallbackStep
  PROVE  TypeOK'
<1>1. PICK e \in posted : Store(e) \/ DeliverAgain(e)
  BY DEF CallbackStep
<1>2. e \in Event
  BY DEF TypeOK
<1>3. ASSUME Broadcast(e)
      PROVE  inbox' \in Seq(Event) /\ subscribed' \in BOOLEAN
  <2>1. Append(inbox, e) \in Seq(Event)
    BY <1>2, AppendProperties DEF TypeOK
  <2> QED
    BY <1>3, <2>1 DEF Broadcast, TypeOK
<1>4. CASE Store(e)
  <2>1. log' \in Seq(Event) /\ last' \in Nat
    BY <1>2, <1>4, AppendRow DEF Store, Event
  <2>2. turnState' \in [Turns -> {"none", "running", "completed", "failed"}]
    BY <1>2, <1>4 DEF Store, Derive, TypeOK
  <2>3. session' \in {"running", "waiting_input", "stopped", "failed", "archived",
                     "gone"}
    BY <1>4 DEF Store, Derive, TypeOK
  <2> QED
    BY <1>3, <1>4, <2>1, <2>2, <2>3 DEF Store, TypeOK, runtimeVars, fileVars
<1>5. CASE DeliverAgain(e)
  BY <1>3, <1>5 DEF DeliverAgain, TypeOK, apiVars, logVars, runtimeVars, fileVars
<1> QED
  BY <1>1, <1>4, <1>5

LEMMA BrowserTypes ==
  ASSUME IndInv, BrowserStep
  PROVE  TypeOK'
<1> USE DEF IndInv, TypeOK
<1>1. \A n \in Nat : RowsAfter(n) \in Seq(Event)
  BY RowsAfterProperties
<1>2. <<>> \in Seq(Event)
  BY EmptySeq
<1>3. UNCHANGED <<apiVars, logVars, runtimeVars>>
  BY DEF BrowserStep, Select, Leave, Poll, Connect, Subscribe, Receive, Disconnect, Recover
<1>4. CASE Select
  BY <1>1, <1>2, <1>3, <1>4 DEF Select, Close, OpenAt, apiVars, logVars, runtimeVars, fileVars
<1>5. CASE Leave \/ Disconnect \/ Subscribe
  BY <1>2, <1>3, <1>5 DEF Leave, Disconnect, Subscribe, Close, apiVars, logVars, runtimeVars, fileVars
<1>6. CASE Poll
  <2>1. view' \in Seq(Event)
    BY <1>1, <1>6, ConcatProperties DEF Poll
  <2> QED
    BY <1>3, <1>6, <2>1 DEF Poll, apiVars, logVars, runtimeVars, fileVars
<1>7. CASE Connect
  BY <1>1, <1>3, <1>7 DEF Connect, apiVars, logVars, runtimeVars, fileVars
<1>8. CASE Receive
  <2>1. Head(inbox) \in Event /\ Tail(inbox) \in Seq(Event)
    BY <1>8, HeadTailProperties DEF Receive
  <2>2. Reduce(Head(inbox)) \in Seq(Event)
    BY <2>1, AppendProperties DEF Reduce
  <2>3. Head(inbox).seq \in Nat
    BY <2>1 DEF Event
  <2>4. CASE LeavesGap(Head(inbox))
    BY <1>2, <1>3, <1>8, <2>4 DEF Receive, Close, apiVars, logVars, runtimeVars, fileVars
  <2>5. CASE ~LeavesGap(Head(inbox))
    BY <1>3, <1>8, <2>1, <2>2, <2>3, <2>5 DEF Receive, apiVars, logVars, runtimeVars, fileVars
  <2> QED
    BY <2>4, <2>5
<1>9. CASE Recover
  <2>1. view' \in Seq(Event)
    BY <1>9, PrefixContinued DEF Recover, ViewInv
  <2> QED
    BY <1>2, <1>3, <1>9, <2>1 DEF Recover, OpenAt, apiVars, logVars, runtimeVars, fileVars
<1> QED
  BY <1>4, <1>5, <1>6, <1>7, <1>8, <1>9 DEF BrowserStep
-------------------------------------------------------------------------------
LEMMA InitInductive ==
  ASSUME Init
  PROVE  IndInv
<1>1. log = <<>> /\ Len(log) = 0 /\ DOMAIN log = {} /\ Rows = {}
  BY EmptySeq DEF Init, Rows
<1>2. NoRun \in Run /\ NoRun.turn = NoTurn /\ ~NoRun.sending
  BY DEF NoRun, Run, Types
<1>3. TypeOK
  BY <1>2, EmptySeq DEF Init, TypeOK
<1>4. StreamInv
  BY <1>1, <1>2 DEF Init, StreamInv, LogIsContiguous, CursorTrailsLog, TurnsAreWhole, WireInv,
                    RunInv
<1>5. AcceptedMeansLogged
  BY DEF Init, AcceptedMeansLogged
<1>6. view = <<>> /\ Len(view) = 0 /\ DOMAIN view = {} /\ DOMAIN inbox = {}
  BY EmptySeq DEF Init
<1>7. ViewInv
  BY <1>1, <1>6 DEF ViewInv, ViewIsPrefix
<1> QED
  BY <1>3, <1>4, <1>5, <1>7 DEF IndInv

LEMMA NextInductive ==
  ASSUME IndInv, [Next]_vars
  PROVE  IndInv'
<1>1. TypeOK'
  <2>1. CASE vars' = vars
    BY <2>1 DEF IndInv, TypeOK, vars, apiVars, logVars, runtimeVars, fileVars,
               browserVars
  <2> QED
    BY <2>1, ApiTypes, RuntimeTypes, CallbackTypes, BrowserTypes DEF IndInv, Next
<1> QED
  BY <1>1, StreamStep, AcceptedStep, ViewStep DEF IndInv

(* The log is numbered without a gap, the cursor is at most one behind, every posted   *)
(* event knows its place, starts that were accepted are stored, and the browser holds   *)
(* stored events only: for any turns, crashes, transport and queue limit.              *)
THEOREM IndInvHolds == Spec => []IndInv
<1>1. Init => IndInv
  BY InitInductive
<1>2. IndInv /\ [Next]_vars => IndInv'
  BY NextInductive
<1> QED
  BY <1>1, <1>2, PTL DEF Spec

(* The state of sessions, turns, runtime and browser stays in its types.               *)
THEOREM TypeCorrect == Spec => []TypeOK
<1>1. IndInv => TypeOK
  BY DEF IndInv
<1> QED
  BY <1>1, IndInvHolds, PTL

(* persist_runtime_event keeps the rows numbered 1, 2, 3, ... whatever is delivered     *)
(* late, twice or by a dead execution.                                                *)
THEOREM LogStaysContiguous == Spec => []LogIsContiguous
<1>1. IndInv => LogIsContiguous
  BY DEF IndInv, StreamInv
<1> QED
  BY <1>1, IndInvHolds, PTL

(* The runtime's cursor is that of the last stored event or of the one before, unless  *)
(* it restarted with a file that could not be written; then it is lower.               *)
THEOREM CursorAtMostOneBehind == Spec => []CursorTrailsLog
<1>1. IndInv => CursorTrailsLog
  BY DEF IndInv, StreamInv
<1> QED
  BY <1>1, IndInvHolds, PTL

(* The events of two executions never interleave in the log.                          *)
THEOREM TurnsNeverInterleave == Spec => []TurnsAreWhole
<1>1. IndInv => TurnsAreWhole
  BY DEF IndInv, StreamInv
<1> QED
  BY <1>1, IndInvHolds, PTL

(* A start that was answered with 202 is in the log, also after crashes.               *)
THEOREM AcceptedStartsAreLogged == Spec => []AcceptedMeansLogged
<1>1. IndInv => AcceptedMeansLogged
  BY DEF IndInv
<1> QED
  BY <1>1, IndInvHolds, PTL

(* The browser shows a prefix of the log, over either transport.                       *)
THEOREM BrowserShowsPrefix == Spec => []ViewIsPrefix
<1>1. IndInv => ViewIsPrefix
  BY DEF IndInv, ViewInv
<1> QED
  BY <1>1, IndInvHolds, PTL
=============================================================================
