----------------------------- MODULE AgentEvents -----------------------------
(***************************************************************************)
(* The event stream of one agent session, from the agent runtime that       *)
(* numbers the events (apps/agent-runtime/src/runtime), through the API that *)
(* stores them (apps/api/src/tutor_api/agent), to a browser that shows them   *)
(* (apps/web/src/lib/agent-api.ts, agent-events.ts, agent-panel.tsx).         *)
(*                                                                         *)
(* The runtime posts an event until the API acknowledges that it is stored,  *)
(* then saves its cursor, in memory and in a file, and goes on to the next.   *)
(* The write of the file may fail; the memory is ahead of it then, and every   *)
(* later write of this process fails as well.  A posted event                  *)
(* stays deliverable for ever: late and repeated deliveries are deliveries of *)
(* an element of "posted", a lost one is one that is not taken.  A crash of   *)
(* the runtime loses its memory, not its file; a restart of the API closes    *)
(* the sockets.  The session's rows go with its knowledge base; "log" keeps    *)
(* them as they were, and nothing reads or extends them any more.             *)
(*                                                                         *)
(* turn_started stands for turn_started and the user_message that follows it  *)
(* at once; payloads, sidecars, usage and audit rows are left out.            *)
(***************************************************************************)
EXTENDS Naturals, Sequences

CONSTANTS
    Turns,        \* the user's messages, each with an idempotency key of its own
    NoTurn,       \* the runtime has no active turn
    Transport,    \* how the browser follows: "polling" or "socket"
    QueueLimit,   \* maxsize of a subscriber's queue
    MaxRuns,      \* bound on the executions of turns
    MaxCrashes    \* bound on the crashes of the runtime

ASSUME AgentAssumption ==
    /\ NoTurn \notin Turns
    /\ QueueLimit \in Nat /\ MaxRuns \in Nat /\ MaxCrashes \in Nat

VARIABLES
    session,      \* AgentSession.state, "gone" once the row is deleted
    turnState,    \* AgentTurn.state, "none" before the row exists
    request,      \* request[t]: where post_turn is with turn t
    stopping,     \* the stop handler has called the runtime and not committed
    log,          \* AgentSessionEvent rows in the order they were inserted
    last,         \* AgentSession.last_event_sequence
    registry,     \* the session's sequence in the runtime's memory
    saved,        \* its sequence in the runtime's session file
    failing,      \* a write of the file has failed, and so does every later one
    behind,       \* the runtime has restarted with a file behind its memory
    run,          \* the active execution in the runtime's memory
    started,      \* turns in the runtime's cache of start requests
    runs, crashes,
    posted,       \* events the runtime has posted to the callback
    link,         \* the browser's connection
    inbox,        \* events on their way to the browser over the socket
    subscribed,   \* the socket's queue is in _subscribers
    cursor,       \* the connection's cursor
    view          \* events the browser shows

apiVars == <<session, turnState, request, stopping>>
logVars == <<log, last>>
fileVars == <<saved, failing, behind>>
runtimeVars == <<registry, fileVars, run, started, runs, crashes, posted>>
browserVars == <<link, inbox, subscribed, cursor, view>>
vars == <<apiVars, logVars, runtimeVars, browserVars>>

Types == {"turn_started", "model_text_delta", "completed", "error", "failed"}
Event == [run : Nat, turn : Turns, type : Types, seq : Nat]
Run == [turn : Turns \cup {NoTurn}, id : Nat, next : Types,
        sending : BOOLEAN, aborted : BOOLEAN]

TypeOK ==
    /\ session \in {"running", "waiting_input", "stopped", "failed", "archived",
                   "gone"}
    /\ turnState \in [Turns -> {"none", "running", "completed", "failed"}]
    /\ request \in [Turns -> {"unsent", "calling", "starting", "answered", "rejected",
                              "accepted", "refused"}]
    /\ stopping \in BOOLEAN
    /\ log \in Seq(Event) /\ last \in Nat
    /\ registry \in Nat /\ saved \in Nat /\ failing \in BOOLEAN /\ behind \in BOOLEAN
    /\ run \in Run /\ started \subseteq Turns
    /\ runs \in Nat /\ crashes \in Nat
    /\ posted \subseteq Event
    /\ link \in {"off", "polling", "connecting", "replaying", "live", "recovering"}
    /\ inbox \in Seq(Event) /\ subscribed \in BOOLEAN
    /\ cursor \in Nat /\ view \in Seq(Event)

NoRun == [turn |-> NoTurn, id |-> 0, next |-> "turn_started",
          sending |-> FALSE, aborted |-> FALSE]

Init ==
    /\ session = "waiting_input"
    /\ turnState = [t \in Turns |-> "none"]
    /\ request = [t \in Turns |-> "unsent"]
    /\ stopping = FALSE
    /\ log = <<>> /\ last = 0
    /\ registry = 0 /\ saved = 0 /\ failing = FALSE /\ behind = FALSE
    /\ run = NoRun /\ started = {} /\ runs = 0 /\ crashes = 0
    /\ posted = {}
    /\ link = "off" /\ inbox = <<>> /\ subscribed = FALSE /\ cursor = 0 /\ view = <<>>

Rows == {log[i] : i \in DOMAIN log}
-----------------------------------------------------------------------------
(* The API: turns, stop, archive, and the end of the knowledge base *)

(* delete_knowledge_base: the session, its turns and its events are deleted with  *)
(* it; the runtime is not told.                                                *)
DeleteKnowledgeBase ==
    /\ session # "gone"
    /\ session' = "gone"
    /\ UNCHANGED <<turnState, request, stopping, logVars, runtimeVars, browserVars>>

(* A request under way sets the state of the row, if there still is one.        *)
SetState(state) == session' = IF session = "gone" THEN session ELSE state

(* post_turn, first transaction (prepare_turn): the turn's row is found by its *)
(* idempotency key or inserted.                                               *)
PostTurn(t) ==
    /\ request[t] \in {"unsent", "refused"}
    /\ session \notin {"archived", "gone"}
    /\ session' = "running"
    /\ turnState' = [turnState EXCEPT ![t] = IF @ = "none" THEN "running" ELSE @]
    /\ request' = [request EXCEPT ![t] = "calling"]
    /\ UNCHANGED <<stopping, logVars, runtimeVars, browserVars>>

TurnAccepted(t) ==
    /\ request[t] = "answered"
    /\ request' = [request EXCEPT ![t] = "accepted"]
    /\ UNCHANGED <<session, turnState, stopping, logVars, runtimeVars, browserVars>>

(* The runtime refused, could not be reached, or has not answered in 30 s.     *)
TurnRefused(t) ==
    /\ request[t] \in {"calling", "starting", "answered", "rejected"}
    /\ request' = [request EXCEPT ![t] = "refused"]
    /\ SetState("failed")
    /\ UNCHANGED <<turnState, stopping, logVars, runtimeVars, browserVars>>

(* stop: the runtime knows the session once an event of it was to be posted.   *)
Stop ==
    /\ posted # {}
    /\ session # "gone"
    /\ stopping' = TRUE
    /\ run' = IF run.turn = NoTurn THEN run ELSE [run EXCEPT !.aborted = TRUE]
    /\ UNCHANGED <<session, turnState, request, logVars, registry, fileVars, started,
                   runs, crashes, posted, browserVars>>

StopCommits ==
    /\ stopping
    /\ stopping' = FALSE
    /\ SetState("stopped")
    /\ UNCHANGED <<turnState, request, logVars, runtimeVars, browserVars>>

(* Variant: the archive writes a state the column does not have.                  *)
ArchiveAsDeleted ==
    /\ session # "gone"
    /\ session' = "deleted"
    /\ UNCHANGED <<turnState, request, stopping, logVars, runtimeVars, browserVars>>

Archive ==
    /\ session # "gone"
    /\ session' = "archived"
    /\ UNCHANGED <<turnState, request, stopping, logVars, runtimeVars, browserVars>>
-----------------------------------------------------------------------------
(* The runtime *)

(* Variant: the start request is answered before the first event is stored.        *)
TakeStartAtOnce(t) ==
    /\ request[t] = "calling" /\ run.turn = NoTurn /\ runs < MaxRuns
    /\ request' = [request EXCEPT ![t] = "answered"]
    /\ run' = [NoRun EXCEPT !.turn = t, !.id = runs + 1]
    /\ started' = started \cup {t}
    /\ runs' = runs + 1
    /\ UNCHANGED <<session, turnState, stopping, logVars, registry, fileVars, crashes,
                   posted, browserVars>>

(* POST /v1/sessions/start.  A start request that is sent again carries a new   *)
(* capability, so the cache answers it with idempotency_conflict.               *)
TakeStart(t) ==
    /\ request[t] = "calling"
    /\ IF t \in started \/ run.turn # NoTurn
       THEN /\ request' = [request EXCEPT ![t] = "rejected"]
            /\ UNCHANGED <<run, started, runs>>
       ELSE /\ runs < MaxRuns
            /\ request' = [request EXCEPT ![t] = "starting"]
            /\ run' = [NoRun EXCEPT !.turn = t, !.id = runs + 1]
            /\ started' = started \cup {t}
            /\ runs' = runs + 1
    /\ UNCHANGED <<session, turnState, stopping, logVars, registry, fileVars, crashes,
                   posted, browserVars>>

(* The provider throws before its first event.                                  *)
StartFails ==
    /\ run.turn # NoTurn /\ run.next = "turn_started" /\ ~run.sending
    /\ run' = NoRun
    /\ started' = started \ {run.turn}
    /\ request' = [request EXCEPT ![run.turn] = IF @ = "starting" THEN "rejected" ELSE @]
    /\ UNCHANGED <<session, turnState, stopping, logVars, registry, fileVars, runs,
                   crashes, posted, browserVars>>

(* The event being published: numbered after the cursor in memory.               *)
Current == [run |-> run.id, turn |-> run.turn, type |-> run.next, seq |-> registry + 1]

(* The provider yields its next event (publishSource up to sink.publish).  The   *)
(* answer text comes only from a completion that was not aborted.                *)
Post ==
    /\ run.turn # NoTurn /\ ~run.sending
    /\ run.next = "model_text_delta" => ~run.aborted
    /\ run' = [run EXCEPT !.sending = TRUE]
    /\ posted' = posted \cup {Current}
    /\ UNCHANGED <<apiVars, logVars, registry, fileVars, started, runs, crashes,
                   browserVars>>

(* The completion fails: an error and a failed state are published instead.      *)
ProviderFails ==
    /\ run.turn # NoTurn /\ ~run.sending
    /\ run.next = "model_text_delta" /\ ~run.aborted
    /\ run' = [run EXCEPT !.next = "error"]
    /\ UNCHANGED <<apiVars, logVars, registry, fileVars, started, runs, crashes, posted,
                   browserVars>>

(* Variant: an aborted turn stays in the active map.                               *)
AbortedRunStays == FALSE

(* The completion was aborted: the turn ends without a further event.            *)
AbortedRunEnds ==
    /\ run.turn # NoTurn /\ ~run.sending
    /\ run.next = "model_text_delta" /\ run.aborted
    /\ run' = NoRun
    /\ UNCHANGED <<apiVars, logVars, registry, fileVars, started, runs, crashes, posted,
                   browserVars>>

Following(type) ==
    CASE type = "turn_started" -> "model_text_delta"
      [] type = "model_text_delta" -> "completed"
      [] type = "error" -> "failed"

(* SessionRegistry.upsert, the cursor written to the file: the provider goes on,  *)
(* and after its first event the start request is answered.                      *)
Saves ==
    /\ ~failing
    /\ saved' = registry + 1
    /\ run' = IF run.next \in {"completed", "failed"}
              THEN NoRun
              ELSE [run EXCEPT !.next = Following(@), !.sending = FALSE]
    /\ request' = IF run.next = "turn_started"
                  THEN [request EXCEPT ![run.turn] = IF @ = "starting" THEN "answered" ELSE @]
                  ELSE request
    /\ UNCHANGED <<failing, started>>

(* The write fails, and with it the publication of a stored event.  Before the     *)
(* turn is accepted the start request is refused; later an error is reported, but   *)
(* not of an aborted turn, nor of a report.                                        *)
SaveFails ==
    /\ failing' = TRUE
    /\ \E accepted \in BOOLEAN :
          /\ run.next # "turn_started" => accepted
          /\ run.next = "turn_started" /\ failing => ~accepted
          /\ run' = IF accepted /\ ~run.aborted /\ run.next \notin {"error", "failed"}
                    THEN [run EXCEPT !.next = "error", !.sending = FALSE]
                    ELSE NoRun
          /\ started' = IF accepted THEN started ELSE started \ {run.turn}
          /\ request' = IF run.next = "turn_started" /\ request[run.turn] = "starting"
                        THEN [request EXCEPT ![run.turn] =
                                IF accepted THEN "answered" ELSE "rejected"]
                        ELSE request
    /\ UNCHANGED saved

(* Variant: any answer of the callback counts as an acknowledgement.                *)
AcknowledgedByAnyAnswer ==
    /\ run.sending
    /\ registry' = registry + 1
    /\ Saves \/ SaveFails
    /\ UNCHANGED <<session, turnState, stopping, logVars, behind, runs, crashes, posted,
                   browserVars>>

(* A durable acknowledgement reaches the sink (isDurableAck), and the cursor moves  *)
(* on in memory, whether or not the file can be written.                           *)
Acknowledged ==
    /\ run.sending
    /\ Current \in Rows
    /\ registry' = registry + 1
    /\ Saves \/ SaveFails
    /\ UNCHANGED <<session, turnState, stopping, logVars, behind, runs, crashes, posted,
                   browserVars>>

(* The runtime dies and comes back with its session file.  The API sees a broken  *)
(* connection, which RuntimeClient does not turn into a RuntimeErrorBase: the     *)
(* session keeps its state.                                                      *)
Crash ==
    /\ crashes < MaxCrashes
    /\ crashes' = crashes + 1
    /\ registry' = saved
    /\ failing' = FALSE
    /\ behind' = IF saved = registry THEN behind ELSE TRUE
    /\ run' = NoRun
    /\ started' = {}
    /\ request' = [t \in Turns |->
          IF request[t] \in {"starting", "answered", "rejected"} THEN "refused" ELSE request[t]]
    /\ UNCHANGED <<session, turnState, stopping, logVars, saved, runs, posted, browserVars>>
-----------------------------------------------------------------------------
(* The callback: persist_runtime_event and the subscribers *)

(* Provider events have keys with a fresh uuid; the failure reports of one turn   *)
(* have one key each, in every execution of the turn.                            *)
IdempotencyKey(e) ==
    IF e.type \in {"error", "failed"} THEN <<"turn", e.turn, e.type>>
                                      ELSE <<"run", e.run, e.type>>

(* Variant: the callback trusts the idempotency key and the runtime's numbers.      *)
InsertableByKey(e) == session # "gone" /\ \A r \in Rows : IdempotencyKey(r) # IdempotencyKey(e)

(* persist_runtime_event refuses an event of a session whose row is gone, of a       *)
(* number that is taken or of one that leaves a gap; the sink repeats it.           *)
Insertable(e) ==
    /\ session # "gone"
    /\ \A r \in Rows : IdempotencyKey(r) # IdempotencyKey(e)
    /\ \A r \in Rows : r.seq # e.seq
    /\ e.seq = last + 1

Derive(e) ==
    CASE e.type = "completed" ->
           /\ turnState' = [turnState EXCEPT ![e.turn] = "completed"]
           /\ session' = "waiting_input"
      [] e.type = "failed" ->
           /\ turnState' = [turnState EXCEPT ![e.turn] = "failed"]
           /\ session' = "failed"
      [] OTHER -> UNCHANGED <<turnState, session>>

(* put_nowait into the subscriber's queue; a full queue is dropped.               *)
Broadcast(e) ==
    IF subscribed /\ Len(inbox) < QueueLimit
    THEN inbox' = Append(inbox, e) /\ UNCHANGED subscribed
    ELSE UNCHANGED inbox /\ subscribed' = FALSE

Store(e) ==
    /\ Insertable(e)
    /\ log' = Append(log, e)
    /\ last' = e.seq
    /\ Derive(e)
    /\ Broadcast(e)
    /\ UNCHANGED <<request, stopping, runtimeVars, link, cursor, view>>

(* A stored event delivered again is acknowledged, and broadcast, again.          *)
DeliverAgain(e) ==
    /\ e \in Rows
    /\ session # "gone"
    /\ subscribed
    /\ Broadcast(e)
    /\ UNCHANGED <<apiVars, logVars, runtimeVars, link, cursor, view>>
-----------------------------------------------------------------------------
(* The browser *)

Seen == {view[i] : i \in DOMAIN view}
(* Variant: any event that was not shown yet is shown.                              *)
LeavesNoGap(e) == FALSE

LeavesGap(e) == e \notin Seen /\ e.seq # Len(view) + 1
Reduce(e) == IF e \in Seen THEN view ELSE Append(view, e)

(* The events with a sequence above n, in that order (list_events): the rows after  *)
(* the n-th, as long as the log is contiguous.                                     *)
RowsAfter(n) == SubSeq(log, n + 1, Len(log))

(* openConnection: the cursor starts at the last event shown.                      *)
OpenAt(n) ==
    /\ link' = IF Transport = "polling" THEN "polling" ELSE "connecting"
    /\ cursor' = n
    /\ inbox' = <<>>
    /\ subscribed' = FALSE

Close ==
    /\ inbox' = <<>>
    /\ subscribed' = FALSE
    /\ UNCHANGED cursor

(* replaySession: the page is loaded or the session selected; a session that is   *)
(* failed, stopped or archived is shown without a connection.                      *)
Select ==
    /\ session # "gone"
    /\ view' = RowsAfter(0)
    /\ IF session \in {"failed", "stopped", "archived"}
       THEN link' = "off" /\ Close
       ELSE OpenAt(last)
    /\ UNCHANGED <<apiVars, logVars, runtimeVars>>

(* The session is stopped or archived in this panel, or the panel goes away.       *)
Leave ==
    /\ link # "off"
    /\ link' = "off"
    /\ Close
    /\ UNCHANGED <<apiVars, logVars, runtimeVars, view>>

(* Variant: the poll goes on after the next number.                                 *)
PollSkipsOne ==
    /\ link = "polling" /\ session # "gone"
    /\ RowsAfter(cursor) # <<>>
    /\ \A i \in DOMAIN RowsAfter(cursor) : RowsAfter(cursor)[i].seq = Len(view) + i
    /\ view' = view \o RowsAfter(cursor)
    /\ cursor' = last + 1
    /\ UNCHANGED <<apiVars, logVars, runtimeVars, link, inbox, subscribed>>

(* One poll: the events after the cursor are shown in their order.                 *)
Poll ==
    /\ link = "polling" /\ session # "gone"
    /\ RowsAfter(cursor) # <<>>
    /\ \A i \in DOMAIN RowsAfter(cursor) : RowsAfter(cursor)[i].seq = Len(view) + i
    /\ view' = view \o RowsAfter(cursor)
    /\ cursor' = last
    /\ UNCHANGED <<apiVars, logVars, runtimeVars, link, inbox, subscribed>>

(* websocket_events reads the rows after the cursor, sends them, and subscribes.   *)
Connect ==
    /\ link = "connecting" /\ session # "gone"
    /\ link' = "replaying"
    /\ inbox' = RowsAfter(cursor)
    /\ UNCHANGED <<apiVars, logVars, runtimeVars, subscribed, cursor, view>>

Subscribe ==
    /\ link = "replaying"
    /\ inbox = <<>>
    /\ link' = "live"
    /\ subscribed' = TRUE
    /\ UNCHANGED <<apiVars, logVars, runtimeVars, inbox, cursor, view>>

(* A message reaches the browser: shown if it is the next one, ignored if it is     *)
(* shown already; otherwise the connection is closed and the gap fetched.           *)
Receive ==
    /\ link \in {"replaying", "live"}
    /\ inbox # <<>>
    /\ IF LeavesGap(Head(inbox))
       THEN link' = "recovering" /\ Close /\ UNCHANGED view
       ELSE /\ view' = Reduce(Head(inbox))
            /\ cursor' = Head(inbox).seq
            /\ inbox' = Tail(inbox)
            /\ UNCHANGED <<link, subscribed>>
    /\ UNCHANGED <<apiVars, logVars, runtimeVars>>

(* The socket breaks (network, restart of the API) and is opened again at the      *)
(* connection's cursor.                                                            *)
Disconnect ==
    /\ link \in {"replaying", "live"}
    /\ link' = "connecting"
    /\ Close
    /\ UNCHANGED <<apiVars, logVars, runtimeVars, view>>

(* recoverGap: the events after the last one shown; if they cannot be fetched the    *)
(* panel stays without a connection until the user selects the session again.       *)
Recover ==
    /\ link = "recovering" /\ session # "gone"
    /\ view' = view \o RowsAfter(Len(view))
    /\ OpenAt(last)
    /\ UNCHANGED <<apiVars, logVars, runtimeVars>>
-----------------------------------------------------------------------------
ApiStep == \/ \E t \in Turns : PostTurn(t) \/ TurnAccepted(t) \/ TurnRefused(t)
           \/ Stop \/ StopCommits \/ Archive \/ DeleteKnowledgeBase
RunStep == Post \/ ProviderFails \/ AbortedRunEnds \/ Acknowledged
RuntimeStep == (\E t \in Turns : TakeStart(t)) \/ StartFails \/ RunStep \/ Crash
CallbackStep == \E e \in posted : Store(e) \/ DeliverAgain(e)
BrowserStep == \/ Select \/ Leave \/ Poll \/ Connect \/ Subscribe \/ Receive
               \/ Disconnect \/ Recover

Next == ApiStep \/ RuntimeStep \/ CallbackStep \/ BrowserStep
Spec == Init /\ [][Next]_vars

(* The provider answers or times out, the sink repeats the event it publishes, the  *)
(* callback answers some repetition while it has the session's rows, and an open     *)
(* page polls.                                                                      *)
FairSpec ==
    /\ Spec
    /\ WF_vars(session # "gone" /\ RunStep)
    /\ WF_vars(run.sending /\ Store(Current))
    /\ WF_vars(Poll)
(* Bound of the run over the websocket: states with more rows are checked and not    *)
(* continued.                                                                        *)
ShortLog == Len(log) <= 4
-----------------------------------------------------------------------------
(* The stored rows are numbered 1, 2, 3, ... in the order of their insertion, and   *)
(* last_event_sequence is the last number, whatever the network repeats or delays    *)
(* and whenever the runtime restarts: replays by cursor (list_events) miss nothing.   *)
LogIsContiguous ==
    /\ last = Len(log)
    /\ \A i \in DOMAIN log : log[i].seq = i

(* The runtime's cursor never runs ahead of what the API stored, and lags by at most  *)
(* the one event in flight: what a restart can lose or reuse is that one number.  Only *)
(* a file that could not be written brings it further back.                           *)
CursorTrailsLog == saved <= registry /\ registry <= last /\ (behind \/ last <= registry + 1)

(* A turn's events are stored in the order the provider produced them and without     *)
(* another execution's in between: an event that is not a first one directly follows   *)
(* its predecessor, also when an event of a dead execution arrives late.  An error may  *)
(* follow any event of the provider, the last one included: its number could not be     *)
(* saved.                                                                             *)
Follows(a, b) ==
    /\ a.run = b.run
    /\ <<a.type, b.type>> \in {<<"turn_started", "model_text_delta">>, <<"turn_started", "error">>,
                               <<"model_text_delta", "completed">>, <<"model_text_delta", "error">>,
                               <<"completed", "error">>, <<"error", "failed">>}

TurnsAreWhole ==
    \A i \in DOMAIN log :
        log[i].type # "turn_started" => i > 1 /\ Follows(log[i - 1], log[i])

(* When the runtime answers 202 to a start request, and when the API passes that on,   *)
(* the turn's first event is stored (RuntimeService: acceptedResponse resolves after    *)
(* the first publish).                                                                *)
AcceptedMeansLogged ==
    \A t \in Turns : request[t] \in {"answered", "accepted"} =>
        \E r \in Rows : r.turn = t /\ r.type = "turn_started"

(* What the browser shows is a prefix of the stored events: no gap, no repetition, no   *)
(* reordering, through replays, dropped queues, repeated broadcasts, reconnections at   *)
(* an old cursor, and recoveries (reduceAgentEvents, recoverGap).                       *)
ViewIsPrefix == Len(view) <= Len(log) /\ \A i \in DOMAIN view : view[i] = log[i]

(* While the runtime lives and the session's rows exist, an active turn ends: the       *)
(* sink's loop, which has no limit, is left in the end, also after a stop and when the   *)
(* cursor cannot be saved.                                                             *)
TurnsEndWithoutCrash ==
    run.turn # NoTurn /\ crashes = 0 ~>
        run.turn = NoTurn \/ crashes > 0 \/ session = "gone"

(* The same when the runtime may have been restarted.                                  *)
EveryTurnEnds == run.turn # NoTurn ~> run.turn = NoTurn \/ session = "gone"

(* A page that stays connected shows, again and again, every event stored so far, as    *)
(* long as the session exists.                                                        *)
BrowserCatchesUp == []<>(link = "off" \/ Len(view) = last \/ session = "gone")
=============================================================================
