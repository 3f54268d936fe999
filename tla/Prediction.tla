----------------------------- MODULE Prediction -----------------------------
(***************************************************************************)
(* Prediction requests of one chat: utilBuildChatflow                      *)
(* (utils/buildChatflow.ts) called by the prediction controllers, the pool *)
(* of abort controllers, the map of event-stream clients and, in queue     *)
(* mode, the prediction queue, its workers and the Redis channel that      *)
(* carries their events back to the server.                                *)
(*                                                                         *)
(* Everything is keyed by the chat: the controllers by flow and chat, the  *)
(* clients and the channel by the chat.  Two requests of one chat          *)
(* therefore share one entry of each map, and so does a request with what  *)
(* an earlier one left behind.  The flow itself is reduced to the events   *)
(* it emits, a start and then tokens, and to its end.                      *)
(***************************************************************************)
EXTENDS Integers, FiniteSets, Sequences, SequencesExt

CONSTANTS
    Request,     \* prediction requests of the chat
    Worker,      \* worker processes (queue mode)
    None,        \* no request
    MaxEvents,   \* bound: events one execution emits, at most
    Bounds       \* bounds: [events: emitted by one execution, aborts: abort calls,
                 \* crashes: worker processes that die and locks they lose]

ASSUME PredictionAssumption ==
    /\ None \notin Request
    /\ MaxEvents \in Nat
    /\ Bounds \subseteq [events: 0..MaxEvents, aborts: Nat, crashes: Nat]

VARIABLES       \* the deployment and the calls made to it: never written again
    mode,       \* process.env.MODE
    streaming,  \* per request: whether it asked for an event stream
    bound       \* the bounds of this behaviour

VARIABLES       \* the server
    pc,         \* per request: how far the controller has come
    pool,       \* the run whose controller the server's pool holds for this chat
    client,     \* SSEStreamer: the request whose response is the chat's client
    started,    \* whether that client has been sent a start event
    response,   \* per request: its event stream
    subscribed  \* RedisEventSubscriber: the state of the chat's channel

VARIABLES       \* the queue and its workers
    jobs,       \* jobs that wait; a job that stalls once is taken again
    running,    \* per worker: the requests whose flow it executes
    wpool,      \* per worker: the run its pool holds for this chat
    result,     \* per request: what its job came to
    stalls,     \* per request: how often its job stalled
    abortsDue,  \* per worker: `abort' events not yet handled
    lost,       \* per worker: executions whose job was taken from it
    channel     \* per worker: events published and not yet delivered, oldest first

VARIABLES       \* the executions
    aborted,    \* per request: its signal is aborted
    sent        \* per request: events emitted by its present execution

VARIABLES       \* bounds and history
    aborts, crashes,
    stream,     \* per request: the events written to its response
    overlapped, \* requests that were in progress together with another one, or
                \* with an execution whose worker had lost its lock
    silenced    \* requests whose event stream an abort of speech has ended

calls   == <<mode, streaming, bound>>
server  == <<pc, pool, client, started, response, subscribed>>
queue   == <<jobs, running, wpool, result, stalls, abortsDue, lost, channel>>
history == <<stream, overlapped, silenced>>
vars    == <<calls, server, queue, aborted, sent, aborts, crashes, history>>

\* An event, and the process whose connection to Redis carries it, if any does.
Event == [run: Request, n: 1..MaxEvents, by: Worker \cup {None}]

\* An execution that goes on without the lock on its job: how often the job had
\* stalled when it began, and the events it has emitted.
Lost == [run: Request, try: {0, 1}, n: 0..MaxEvents]

\* The first event of a run is its start event; the others are tokens.
IsStart(e) == e.n = 1

InProgress == {r \in Request : pc[r] \in {"checking", "running", "waiting"}}

\* The requests whose flow the server executes.
Executing == {r \in Request : pc[r] = "running"}

Init ==
    /\ mode \in {"MAIN", "QUEUE"}
    /\ streaming \in [Request -> BOOLEAN]
    /\ bound \in Bounds
    /\ pc = [r \in Request |-> "new"]
    /\ pool = None
    /\ client = None
    /\ started = FALSE
    /\ response = [r \in Request |-> "none"]
    /\ subscribed = "no"
    /\ jobs = {}
    /\ running = [w \in Worker |-> {}]
    /\ wpool = [w \in Worker |-> None]
    /\ result = [r \in Request |-> "none"]
    /\ stalls = [r \in Request |-> 0]
    /\ abortsDue = [w \in Worker |-> 0]
    /\ lost = [w \in Worker |-> {}]
    /\ channel = [w \in Worker |-> <<>>]
    /\ aborted = [r \in Request |-> FALSE]
    /\ sent = [r \in Request |-> 0]
    /\ aborts = 0
    /\ crashes = 0
    /\ stream = [r \in Request |-> <<>>]
    /\ overlapped = {}
    /\ silenced = {}

-----------------------------------------------------------------------------
(* SSEStreamer *)

\* Mutant: the guard against a second start event stops every later event.
MutWriteOnce(e) ==
    IF client = None \/ started
    THEN UNCHANGED <<started, stream>>
    ELSE /\ stream' = [stream EXCEPT ![client] = Append(@, e)]
         /\ started' = (started \/ IsStart(e))

\* An event goes to whichever response is the chat's client, if there is one; a
\* second start event is suppressed.
Write(e) ==
    IF client = None \/ (IsStart(e) /\ started)
    THEN UNCHANGED <<started, stream>>
    ELSE /\ stream' = [stream EXCEPT ![client] = Append(@, e)]
         /\ started' = (started \/ IsStart(e))

\* Mutant: the entry stays.
MutCloseClient ==
    /\ response' = IF client = None
                   THEN response
                   ELSE [response EXCEPT ![client] = "ended"]
    /\ UNCHANGED <<client, started>>

\* The chat's client is sent its last event, ended and forgotten.
CloseClient ==
    /\ response' = IF client = None
                   THEN response
                   ELSE [response EXCEPT ![client] = "ended"]
    /\ client' = None
    /\ started' = FALSE

-----------------------------------------------------------------------------
(* The controllers and utilBuildChatflow                                    *)

\* addClient replaces the client of an earlier request.  subscribe is not
\* awaited, and the channel is asked for once and never given back.
Open(r) ==
    /\ pc[r] = "new"
    /\ pc' = [pc EXCEPT ![r] = "checking"]
    /\ IF streaming[r]
       THEN /\ client' = r
            /\ started' = FALSE
            /\ response' = [response EXCEPT ![r] = "open"]
            /\ subscribed' = IF mode = "QUEUE" /\ subscribed = "no"
                             THEN "asked" ELSE subscribed
       ELSE UNCHANGED <<client, started, response, subscribed>>
    /\ overlapped' = IF InProgress = {} /\ \A w \in Worker : lost[w] = {} THEN overlapped
                     ELSE overlapped \cup InProgress \cup {r}
    /\ UNCHANGED <<calls, pool, queue, aborted, sent, aborts, crashes, stream, silenced>>

\* The signal and the position of an execution end with it.
Forget(r) ==
    /\ aborted' = [aborted EXCEPT ![r] = FALSE]
    /\ sent' = [sent EXCEPT ![r] = 0]

\* Mutant: the `finally' is missing.
MutAnswer(r) ==
    /\ pc' = [pc EXCEPT ![r] = "over"]
    /\ UNCHANGED <<client, started, response>>

\* The end of the controller: `finally' removes the chat's client, whoever it is.
Answer(r) ==
    /\ pc' = [pc EXCEPT ![r] = "over"]
    /\ IF streaming[r] THEN CloseClient ELSE UNCHANGED <<client, started, response>>

\* The flow is not found: thrown before the `try'.
NotFound(r) ==
    /\ pc[r] = "checking"
    /\ Answer(r)
    /\ UNCHANGED <<calls, pool, subscribed, queue, aborted, sent, aborts, crashes, history>>

\* The key is refused: the `catch' removes the chat's controller, although this
\* request has not added one.
Unauthorized(r) ==
    /\ pc[r] = "checking"
    /\ pool' = None
    /\ Answer(r)
    /\ UNCHANGED <<calls, subscribed, queue, aborted, sent, aborts, crashes, history>>

Execute(r) ==
    /\ mode = "MAIN"
    /\ pc[r] = "checking"
    /\ pc' = [pc EXCEPT ![r] = "running"]
    /\ pool' = r
    /\ UNCHANGED <<calls, client, started, response, subscribed, queue, aborted, sent, aborts,
                   crashes, history>>

addJob(r) ==
    /\ mode = "QUEUE"
    /\ pc[r] = "checking"
    /\ pc' = [pc EXCEPT ![r] = "waiting"]
    /\ jobs' = jobs \cup {r}
    /\ UNCHANGED <<calls, pool, client, started, response, subscribed, running, wpool, result,
                   stalls, abortsDue, lost, channel, aborted, sent, aborts, crashes, history>>

\* Mutant: the controller is removed only when the flow has succeeded.
MutFinish(r) ==
    /\ pc[r] = "running"
    /\ pool' \in {None, pool}
    /\ Answer(r)
    /\ Forget(r)
    /\ UNCHANGED <<calls, subscribed, queue, aborts, crashes, history>>

\* executeFlow resolves or throws, by itself or because its signal is aborted:
\* either way the chat's controller is removed, whosever it is.
Finish(r) ==
    /\ pc[r] = "running"
    /\ pool' = None
    /\ Answer(r)
    /\ Forget(r)
    /\ UNCHANGED <<calls, subscribed, queue, aborts, crashes, history>>

\* waitUntilFinished resolves or rejects.  The server's own pool is emptied, not
\* the worker's.
JobOver(r) ==
    /\ pc[r] = "waiting"
    /\ result[r] # "none"
    /\ pool' = None
    /\ Answer(r)
    /\ UNCHANGED <<calls, subscribed, queue, aborted, sent, aborts, crashes, history>>

-----------------------------------------------------------------------------
(* Workers                                                                  *)

\* processJob
TakeJob(w, r) ==
    /\ r \in jobs
    /\ jobs' = jobs \ {r}
    /\ running' = [running EXCEPT ![w] = @ \cup {r}]
    /\ wpool' = [wpool EXCEPT ![w] = r]
    /\ UNCHANGED <<calls, server, result, stalls, abortsDue, lost, channel, aborted, sent, aborts,
                   crashes, history>>

\* executeFlow ends; the worker's controller stays in its pool.
EndJob(w, r) ==
    /\ r \in running[w]
    /\ running' = [running EXCEPT ![w] = @ \ {r}]
    /\ result' = [result EXCEPT ![r] = "ended"]
    /\ Forget(r)
    /\ UNCHANGED <<calls, server, jobs, wpool, stalls, abortsDue, lost, channel, aborts, crashes,
                   history>>

\* Mutant: a job may stall any number of times.
MutStall(S) ==
    /\ jobs' = jobs \cup S
    /\ stalls' = [r \in Request |-> IF r \in S THEN stalls[r] + 1 ELSE stalls[r]]
    /\ aborted' = [r \in Request |-> aborted[r] /\ r \notin S]
    /\ sent' = [r \in Request |-> IF r \in S THEN 0 ELSE sent[r]]
    /\ UNCHANGED result

\* Mutant: stalled jobs are not given out again.
MutStallLoses(S) ==
    /\ aborted' = [r \in Request |-> aborted[r] /\ r \notin S]
    /\ sent' = [r \in Request |-> IF r \in S THEN 0 ELSE sent[r]]
    /\ UNCHANGED <<jobs, stalls, result>>

\* BullMQ gives a stalled job to a worker again, unless it had stalled before.
Stall(S) ==
    LET again == {r \in S : stalls[r] = 0} IN
    /\ jobs' = jobs \cup again
    /\ stalls' = [r \in Request |-> IF r \in again THEN 1 ELSE stalls[r]]
    /\ result' = [r \in Request |-> IF r \in S \ again THEN "failed" ELSE result[r]]
    /\ aborted' = [r \in Request |-> aborted[r] /\ r \notin S]
    /\ sent' = [r \in Request |-> IF r \in S THEN 0 ELSE sent[r]]

\* A worker process dies and restarts with an empty pool. Of the events it has
\* published, those it had not written to its connection are gone.
Crash(w) ==
    /\ crashes < bound.crashes
    /\ running[w] # {} \/ lost[w] # {}
    /\ crashes' = crashes + 1
    /\ Stall(running[w])
    /\ running' = [running EXCEPT ![w] = {}]
    /\ lost' = [lost EXCEPT ![w] = {}]
    /\ wpool' = [wpool EXCEPT ![w] = None]
    /\ abortsDue' = [abortsDue EXCEPT ![w] = 0]
    /\ \E n \in 0..Len(channel[w]) : channel' = [channel EXCEPT ![w] = SubSeq(@, 1, n)]
    /\ UNCHANGED <<calls, server, aborts, history>>

\* A worker that is alive does not renew the lock on a job in time, its event loop
\* being blocked or Redis out of its reach: the job stalls and the execution goes on.
LoseLock(w, r) ==
    /\ crashes < bound.crashes
    /\ r \in running[w]
    /\ crashes' = crashes + 1
    /\ Stall({r})
    /\ running' = [running EXCEPT ![w] = @ \ {r}]
    /\ lost' = [lost EXCEPT ![w] = @ \cup {[run |-> r, try |-> stalls[r], n |-> sent[r]]}]
    /\ overlapped' = overlapped \cup {r}
    /\ UNCHANGED <<calls, server, wpool, abortsDue, channel, aborts, stream, silenced>>

\* BullMQ refuses the result of an execution that does not hold the lock.
EndLost(w, e) ==
    /\ e \in lost[w]
    /\ lost' = [lost EXCEPT ![w] = @ \ {e}]
    /\ UNCHANGED <<calls, server, jobs, running, wpool, result, stalls, abortsDue, channel,
                   aborted, sent, aborts, crashes, history>>

-----------------------------------------------------------------------------
(* Events of a run                                                          *)

\* The server executes the flow: the event is written at once.
Emit(r) ==
    LET e == [run |-> r, n |-> sent[r] + 1, by |-> None] IN
    /\ pc[r] = "running"
    /\ sent[r] < bound.events
    /\ sent' = [sent EXCEPT ![r] = @ + 1]
    /\ Write(e)
    /\ UNCHANGED <<calls, pc, pool, client, response, subscribed, queue, aborted, aborts, crashes,
                   overlapped, silenced>>

\* Mutant: events overtake each other.
MutPublish(w, e) == channel' = [channel EXCEPT ![w] = <<e>> \o @]

\* publish is not awaited: the event is on its way over the connection of its
\* worker, behind those that the worker published before and beside those of others.
Publish(w, e) == channel' = [channel EXCEPT ![w] = Append(@, e)]

\* A worker executes it: the event is published on the chat's channel.
EmitToChannel(w, r) ==
    LET e == [run |-> r, n |-> sent[r] + 1, by |-> w] IN
    /\ r \in running[w]
    /\ sent[r] < bound.events
    /\ sent' = [sent EXCEPT ![r] = @ + 1]
    /\ Publish(w, e)
    /\ UNCHANGED <<calls, server, jobs, running, wpool, result, stalls, abortsDue, lost, aborted,
                   aborts, crashes, history>>

EmitLost(w, e) ==
    /\ e \in lost[w]
    /\ e.n < bound.events
    /\ lost' = [lost EXCEPT ![w] = (@ \ {e}) \cup {[e EXCEPT !.n = @ + 1]}]
    /\ Publish(w, [run |-> e.run, n |-> e.n + 1, by |-> w])
    /\ UNCHANGED <<calls, server, jobs, running, wpool, result, stalls, abortsDue, aborted, sent,
                   aborts, crashes, history>>

\* The subscription asked for by `subscribe' is in place.
SubscriptionReady ==
    /\ subscribed = "asked"
    /\ subscribed' = "yes"
    /\ UNCHANGED <<calls, pc, pool, client, started, response, queue, aborted, sent, aborts, crashes,
                   history>>

\* Redis passes an event on to the subscriptions there are, or to nobody.
handleEvent(w) ==
    /\ channel[w] # <<>>
    /\ channel' = [channel EXCEPT ![w] = Tail(@)]
    /\ IF subscribed = "yes" THEN Write(Head(channel[w])) ELSE UNCHANGED <<started, stream>>
    /\ UNCHANGED <<calls, pc, pool, client, response, subscribed, jobs, running, wpool, result,
                   stalls, abortsDue, lost, aborted, sent, aborts, crashes, overlapped, silenced>>

-----------------------------------------------------------------------------
(* Aborts                                                                   *)

\* AbortControllerPool.abort: the run whose controller is p, if there is one and
\* it is among those the process still executes.
AbortRun(p, S) == aborted' = [r \in Request |-> aborted[r] \/ (r = p /\ r \in S)]

\* abortChatMessage: in queue mode every worker is told.
abortChatMessage ==
    /\ aborts < bound.aborts
    /\ InProgress # {}
    /\ aborts' = aborts + 1
    /\ IF mode = "QUEUE"
       THEN /\ abortsDue' = [w \in Worker |-> abortsDue[w] + 1]
            /\ UNCHANGED <<pool, aborted>>
       ELSE /\ AbortRun(pool, Executing)
            /\ pool' = None
            /\ UNCHANGED abortsDue
    /\ UNCHANGED <<calls, pc, client, started, response, subscribed, jobs, running, wpool, result,
                   stalls, lost, channel, sent, crashes, history>>

\* Mutant: the worker forgets the controller without aborting it.
MutHandleAbort(w) ==
    /\ abortsDue[w] > 0
    /\ abortsDue' = [abortsDue EXCEPT ![w] = @ - 1]
    /\ wpool' = [wpool EXCEPT ![w] = None]
    /\ UNCHANGED <<aborted, calls, server, jobs, running, result, stalls, lost, channel, sent, aborts,
                   crashes, history>>

\* The worker's listener of `abort'.
HandleAbort(w) ==
    /\ abortsDue[w] > 0
    /\ abortsDue' = [abortsDue EXCEPT ![w] = @ - 1]
    /\ AbortRun(wpool[w], running[w])
    /\ wpool' = [wpool EXCEPT ![w] = None]
    /\ UNCHANGED <<calls, server, jobs, running, result, stalls, lost, channel, sent, aborts,
                   crashes, history>>

\* abortTextToSpeech: the chat's run is aborted if the server's pool has it, and
\* the chat's event stream ends in any case.
abortTextToSpeech ==
    /\ aborts < bound.aborts
    /\ InProgress # {}
    /\ aborts' = aborts + 1
    /\ AbortRun(pool, Executing)
    /\ pool' = None
    /\ CloseClient
    /\ silenced' = silenced \cup ({client} \ {None})
    /\ UNCHANGED <<calls, pc, subscribed, queue, sent, crashes, stream, overlapped>>

-----------------------------------------------------------------------------
ServerStep(r) ==
    \/ NotFound(r) \/ Unauthorized(r) \/ Execute(r) \/ addJob(r)
    \/ Emit(r) \/ Finish(r) \/ JobOver(r)

WorkerStep(w) ==
    \/ \E r \in Request : TakeJob(w, r) \/ EmitToChannel(w, r) \/ EndJob(w, r) \/ LoseLock(w, r)
    \/ \E e \in lost[w] : EmitLost(w, e) \/ EndLost(w, e)
    \/ HandleAbort(w)

Delivery == SubscriptionReady \/ \E w \in Worker : handleEvent(w)

Next ==
    \/ \E r \in Request : Open(r) \/ ServerStep(r)
    \/ \E w \in Worker : WorkerStep(w) \/ Crash(w)
    \/ Delivery
    \/ abortChatMessage \/ abortTextToSpeech

Spec == Init /\ [][Next]_vars

-----------------------------------------------------------------------------
(* Properties                                                               *)

ServerTyped ==
    /\ mode \in {"MAIN", "QUEUE"}
    /\ pc \in [Request -> {"new", "checking", "running", "waiting", "over"}]
    /\ pool \in Request \cup {None}
    /\ response \in [Request -> {"none", "open", "ended"}]
    /\ subscribed \in {"no", "asked", "yes"}

ClientTyped == client \in Request \cup {None} /\ started \in BOOLEAN

QueueTyped ==
    /\ jobs \subseteq Request
    /\ running \in [Worker -> SUBSET Request]
    /\ wpool \in [Worker -> Request \cup {None}]
    /\ result \in [Request -> {"none", "ended", "failed"}]
    /\ stalls \in [Request -> {0, 1}]
    /\ lost \in [Worker -> SUBSET Lost]

ExecutionTyped ==
    /\ streaming \in [Request -> BOOLEAN]
    /\ aborted \in [Request -> BOOLEAN]
    /\ overlapped \subseteq Request
    /\ silenced \subseteq Request

BoundsKept ==
    /\ bound \in Bounds
    /\ sent \in [Request -> 0..bound.events]
    /\ aborts \in 0..bound.aborts
    /\ crashes \in 0..bound.crashes
    /\ abortsDue \in [Worker -> 0..aborts]

EventsTyped ==
    /\ channel \in [Worker -> Seq(Event)]
    /\ stream \in [Request -> Seq(Event)]

\* Every variable stays in its type.
TypeOK ==
    /\ ServerTyped /\ ClientTyped /\ QueueTyped
    /\ ExecutionTyped /\ BoundsKept /\ EventsTyped

\* When the server executes the flows itself, the controller in its pool is that
\* of a run under way, however requests of the chat overlap: an abort never goes
\* to a run that is over (in queue mode it does, EndJob leaves the controller).
NoControllerOutlivesItsRun ==
    mode = "MAIN" /\ pool # None => pc[pool] = "running"

\* A run that shared the chat with no other request can be aborted from its first
\* step to its last: until it is, the pool of the process that executes it holds
\* its controller, whatever earlier requests, late aborts and dead workers did.
AbortFindsRun ==
    \A r \in Request \ overlapped : ~aborted[r] =>
        /\ pc[r] = "running" => pool = r
        /\ \A w \in Worker : r \in running[w] => wpool[w] = r

\* The chat's client is a response that has not been ended, so that no event is
\* written after the end: also when requests of the chat overlap and the end of
\* one request, or an abort of speech, ends the response of another.
NoWriteAfterEnd == client # None => response[client] = "open"

\* The event stream of a request that shared the chat with no other is ended when
\* the request is over and not before, unless an abort of speech ended it.
ResponseFollowsRequest ==
    \A r \in Request \ overlapped :
        streaming[r] => (response[r] = "ended" <=> pc[r] = "over" \/ r \in silenced)

\* The events of a request alone in its chat. Executed by the server, its response
\* gets every event of its run, in order, and nothing else. Executed by a worker,
\* events may be missing at either end, and late ones of an earlier request may come
\* first; once its own have begun, late ones can only come from another worker, and
\* its own come in order unless the job was executed twice.
StreamFollowsRun ==
    \A r \in Request \ overlapped :
        /\ mode = "MAIN" /\ streaming[r] /\ r \notin silenced /\ pc[r] = "running" =>
               stream[r] = [i \in 1..sent[r] |-> [run |-> r, n |-> i, by |-> None]]
        /\ \A i, j \in DOMAIN stream[r] : i < j /\ stream[r][i].run = r =>
               /\ stream[r][j].by = stream[r][i].by => stream[r][j].run = r
               /\ stalls[r] = 0 /\ stream[r][j].run = r => stream[r][i].n < stream[r][j].n

\* A request that waits for its job is not forgotten, and no job is executed twice
\* at a time: the job is in the queue, with one worker that has the lock on it, or
\* has its result, and in one of these places only, whichever workers die or lose
\* locks. Beside it goes on at most what has lost the lock.
JobInOnePlace ==
    \A r \in Request :
        /\ pc[r] = "waiting" =>
               r \in jobs \/ (\E w \in Worker : r \in running[w]) \/ result[r] # "none"
        /\ result[r] # "none" => pc[r] \in {"waiting", "over"}
        /\ r \in jobs => pc[r] = "waiting" /\ result[r] = "none"
        /\ \A w \in Worker : r \in running[w] =>
               /\ pc[r] = "waiting" /\ result[r] = "none" /\ r \notin jobs
               /\ \A v \in Worker \ {w} : r \notin running[v]

-----------------------------------------------------------------------------
(* What the safety invariants rest on.                                      *)

\* Either the server executes the flows or the workers do.
ModesApart ==
    /\ mode = "MAIN" => /\ jobs = {}
                        /\ \A w \in Worker : running[w] = {} /\ wpool[w] = None /\ lost[w] = {}
                        /\ \A r \in Request : pc[r] # "waiting"
    /\ mode = "QUEUE" => pool = None /\ \A r \in Request : pc[r] # "running"

\* Two requests in progress together are known to overlap, and so is a request with
\* an execution that lost its lock.
OverlapsKnown ==
    /\ \A r, q \in InProgress : r # q => r \in overlapped
    /\ (\E w \in Worker : lost[w] # {}) => InProgress \subseteq overlapped

\* The chat's client belongs to a request in progress; a request alone in its chat
\* keeps it from its first step to its last, unless speech was aborted.
ClientInProgress ==
    /\ client # None => client \in InProgress /\ streaming[client]
    /\ \A r \in Request :
          /\ pc[r] = "new" => response[r] = "none" /\ r \notin silenced /\ r \notin overlapped
          /\ r \in silenced => response[r] = "ended"
          /\ r \in InProgress /\ streaming[r] /\ r \notin overlapped \cup silenced =>
                 client = r
          /\ pc[r] = "over" /\ streaming[r] /\ r \notin overlapped => response[r] = "ended"

IInv ==
    /\ TypeOK
    /\ ModesApart
    /\ OverlapsKnown
    /\ NoControllerOutlivesItsRun
    /\ JobInOnePlace
    /\ NoWriteAfterEnd
    /\ ClientInProgress
    /\ AbortFindsRun
-----------------------------------------------------------------------------
(* What StreamFollowsRun rests on.                                          *)

\* A request that has not been executed yet has no events.
NoEventYet ==
    \A r \in Request :
        pc[r] \in {"new", "checking"} \/ (r \in jobs /\ stalls[r] = 0) =>
            /\ sent[r] = 0
            /\ \A w \in Worker : \A i \in DOMAIN channel[w] : channel[w][i].run # r
            /\ \A w \in Worker : \A e \in lost[w] : e.run # r
            /\ \A i \in DOMAIN stream[r] : stream[r][i].run # r

\* In main mode nothing goes through the channel, and the start event of a request
\* alone in its chat is not suppressed.
WrittenDirectly ==
    mode = "MAIN" =>
        /\ \A w \in Worker : channel[w] = <<>>
        /\ subscribed = "no"
        /\ \A r \in Request \ (overlapped \cup silenced) :
              streaming[r] /\ pc[r] \in {"new", "checking", "running"} =>
                  /\ stream[r] = [i \in 1..sent[r] |-> [run |-> r, n |-> i, by |-> None]]
                  /\ pc[r] # "new" => (started <=> sent[r] > 0)

\* Every event on a worker's connection is the worker's.
Labelled == \A w \in Worker : \A i \in DOMAIN channel[w] : channel[w][i].by = w

\* An event f behind an event e of r that the same worker sent is of r, and later.
Later(r, e, f) ==
    e.run = r /\ e.by = f.by => f.run = r /\ (stalls[r] = 0 => e.n < f.n)

\* A job that has not stalled has one worker, which sent all events of its run.
SameWorker(r, e, f) == stalls[r] = 0 /\ e.run = r /\ f.run = r => e.by = f.by
SentSoFar(r, e) ==
    stalls[r] = 0 /\ e.run = r =>
        \A w \in Worker : r \in running[w] => e.by = w /\ e.n <= sent[r]

\* What is on its way behind events of a request alone in its chat.
ChannelFollowsRun ==
    \A r \in Request \ overlapped : pc[r] = "waiting" =>
        /\ \A w \in Worker : \A i, j \in DOMAIN channel[w] :
              i < j => Later(r, channel[w][i], channel[w][j])
        /\ \A v, w \in Worker : \A i \in DOMAIN channel[v], j \in DOMAIN channel[w] :
              SameWorker(r, channel[v][i], channel[w][j])
        /\ \A w \in Worker : \A i \in DOMAIN stream[r], j \in DOMAIN channel[w] :
              Later(r, stream[r][i], channel[w][j]) /\ SameWorker(r, stream[r][i], channel[w][j])
        /\ \A w \in Worker : \A i \in DOMAIN channel[w] : SentSoFar(r, channel[w][i])
        /\ \A i \in DOMAIN stream[r] : SentSoFar(r, stream[r][i])

StreamInOrder ==
    \A r \in Request \ overlapped :
        \A i, j \in DOMAIN stream[r] : i < j /\ stream[r][i].run = r =>
            /\ stream[r][j].by = stream[r][i].by => stream[r][j].run = r
            /\ stalls[r] = 0 /\ stream[r][j].run = r => stream[r][i].n < stream[r][j].n

StreamInv == NoEventYet /\ WrittenDirectly /\ Labelled /\ ChannelFollowsRun /\ StreamInOrder
=============================================================================
