-------------------------- MODULE PredictionProofs --------------------------
(* Controllers, clients and jobs of one chat, for any number of requests and  *)
(* workers and any bounds.                                                    *)
EXTENDS Prediction, SequenceTheorems, TLAPS

LEMMA BoundType == TypeOK => bound.events \in 0..MaxEvents /\ bound.aborts \in Nat
BY PredictionAssumption DEF TypeOK, BoundsKept

LEMMA TypeInit == Init => TypeOK
<1> SUFFICES ASSUME Init PROVE TypeOK
  OBVIOUS
<1>1. ServerTyped /\ ClientTyped /\ QueueTyped /\ ExecutionTyped
  BY DEF Init, ServerTyped, ClientTyped, QueueTyped, ExecutionTyped
<1>2. BoundsKept
  BY PredictionAssumption DEF Init, BoundsKept
<1>3. EventsTyped
  BY DEF Init, EventsTyped
<1> QED BY <1>1, <1>2, <1>3 DEF TypeOK

\* The next event of an execution, written or published.
LEMMA NextEvent ==
    ASSUME TypeOK, NEW r \in Request, NEW b \in Worker \cup {None}, sent[r] < bound.events
    PROVE  [run |-> r, n |-> sent[r] + 1, by |-> b] \in Event
<1>1. sent[r] \in Nat /\ sent[r] + 1 \in 1..MaxEvents
  BY BoundType, PredictionAssumption DEF TypeOK, BoundsKept
<1> QED BY <1>1 DEF Event

LEMMA WriteTyped ==
    ASSUME TypeOK, NEW e \in Event, Write(e)
    PROVE  stream' \in [Request -> Seq(Event)]
<1>1. CASE client = None \/ (IsStart(e) /\ started)
  BY <1>1 DEF Write, TypeOK, EventsTyped
<1>2. CASE ~(client = None \/ (IsStart(e) /\ started))
  <2>1. client \in Request /\ stream[client] \in Seq(Event)
    BY <1>2 DEF TypeOK, EventsTyped, ClientTyped
  <2>2. Append(stream[client], e) \in Seq(Event)
    BY <2>1
  <2>3. stream' = [stream EXCEPT ![client] = Append(stream[client], e)]
    BY <1>2 DEF Write
  <2> QED BY <2>1, <2>2, <2>3 DEF TypeOK, EventsTyped
<1> QED BY <1>1, <1>2

LEMMA PublishTyped ==
    ASSUME TypeOK, NEW w \in Worker, NEW e \in Event, Publish(w, e)
    PROVE  channel' \in [Worker -> Seq(Event)]
<1>1. channel \in [Worker -> Seq(Event)] /\ Append(channel[w], e) \in Seq(Event)
  BY DEF TypeOK, EventsTyped
<1> QED BY <1>1 DEF Publish

\* Likewise the next event of an execution that lost its lock.
LEMMA NextLost ==
    ASSUME TypeOK, NEW w \in Worker, NEW e \in lost[w], e.n < bound.events
    PROVE  /\ [run |-> e.run, n |-> e.n + 1, by |-> w] \in Event
           /\ [e EXCEPT !.n = @ + 1] \in Lost
           /\ [e EXCEPT !.n = @ + 1].run = e.run
<1>1. e \in Lost /\ bound.events \in 0..MaxEvents
  BY BoundType DEF TypeOK, QueueTyped
<1>2. e.run \in Request /\ e.n \in Nat /\ e.n + 1 \in 1..MaxEvents
  BY <1>1, PredictionAssumption DEF Lost
<1> QED BY <1>1, <1>2, PredictionAssumption DEF Event, Lost

LEMMA ServerTypeNext == TypeOK /\ [Next]_vars => ServerTyped'
<1> SUFFICES ASSUME TypeOK, [Next]_vars PROVE ServerTyped'
  OBVIOUS
<1> USE DEF calls, server, queue, history, TypeOK, ServerTyped, ClientTyped
<1>1. ASSUME NEW r \in Request, Open(r) PROVE ServerTyped'
  BY <1>1 DEF Open, InProgress
<1>2. ASSUME NEW r \in Request, NotFound(r) PROVE ServerTyped'
  BY <1>2 DEF NotFound, Answer, CloseClient
<1>3. ASSUME NEW r \in Request, Unauthorized(r) PROVE ServerTyped'
  BY <1>3 DEF Unauthorized, Answer, CloseClient
<1>4. ASSUME NEW r \in Request, Execute(r) PROVE ServerTyped'
  BY <1>4 DEF Execute
<1>5. ASSUME NEW r \in Request, addJob(r) PROVE ServerTyped'
  BY <1>5 DEF addJob
<1>6. ASSUME NEW r \in Request, Finish(r) PROVE ServerTyped'
  BY <1>6 DEF Finish, Answer, Forget, CloseClient
<1>7. ASSUME NEW r \in Request, JobOver(r) PROVE ServerTyped'
  BY <1>7 DEF JobOver, Answer, CloseClient
<1>8. ASSUME SubscriptionReady PROVE ServerTyped'
  BY <1>8 DEF SubscriptionReady
<1>9. ASSUME abortChatMessage PROVE ServerTyped'
  BY <1>9 DEF abortChatMessage, AbortRun, Executing
<1>10. ASSUME abortTextToSpeech PROVE ServerTyped'
  BY <1>10 DEF abortTextToSpeech, AbortRun, Executing, CloseClient
<1>11. CASE UNCHANGED <<mode, pc, pool, response, subscribed>>
  BY <1>11
<1> QED
  BY <1>1, <1>2, <1>3, <1>4, <1>5, <1>6, <1>7, <1>8, <1>9, <1>10, <1>11
     DEF Next, ServerStep, WorkerStep, Delivery, vars, LoseLock, EmitLost, EndLost, Emit, TakeJob, EmitToChannel, EndJob,
         HandleAbort, Crash, handleEvent

LEMMA ClientTypeNext == TypeOK /\ [Next]_vars => ClientTyped'
<1> SUFFICES ASSUME TypeOK, [Next]_vars PROVE ClientTyped'
  OBVIOUS
<1> USE DEF calls, server, queue, history, TypeOK, ClientTyped
<1>1. ASSUME NEW r \in Request, Open(r) PROVE ClientTyped'
  BY <1>1 DEF Open, InProgress
<1>2. ASSUME NEW r \in Request, NotFound(r) PROVE ClientTyped'
  BY <1>2 DEF NotFound, Answer, CloseClient
<1>3. ASSUME NEW r \in Request, Unauthorized(r) PROVE ClientTyped'
  BY <1>3 DEF Unauthorized, Answer, CloseClient
<1>4. ASSUME NEW r \in Request, Emit(r) PROVE ClientTyped'
  BY <1>4 DEF Emit, Write, IsStart
<1>5. ASSUME NEW r \in Request, Finish(r) PROVE ClientTyped'
  BY <1>5 DEF Finish, Answer, Forget, CloseClient
<1>6. ASSUME NEW r \in Request, JobOver(r) PROVE ClientTyped'
  BY <1>6 DEF JobOver, Answer, CloseClient
<1>7. ASSUME NEW w \in Worker, handleEvent(w) PROVE ClientTyped'
  BY <1>7 DEF handleEvent, Write, IsStart
<1>8. ASSUME abortTextToSpeech PROVE ClientTyped'
  BY <1>8 DEF abortTextToSpeech, AbortRun, Executing, CloseClient
<1>9. CASE UNCHANGED <<client, started>>
  BY <1>9
<1> QED
  BY <1>1, <1>2, <1>3, <1>4, <1>5, <1>6, <1>7, <1>8, <1>9
     DEF Next, ServerStep, WorkerStep, Delivery, vars, LoseLock, EmitLost, EndLost, Execute, addJob, TakeJob, EmitToChannel,
         EndJob, HandleAbort, Crash, SubscriptionReady, abortChatMessage

LEMMA QueueTypeNext == TypeOK /\ [Next]_vars => QueueTyped'
<1> SUFFICES ASSUME TypeOK, [Next]_vars PROVE QueueTyped'
  OBVIOUS
<1> USE DEF calls, server, queue, history, TypeOK, QueueTyped
<1>1. ASSUME NEW r \in Request, addJob(r) PROVE QueueTyped'
  BY <1>1 DEF addJob
<1>2. ASSUME NEW w \in Worker, NEW r \in Request, TakeJob(w, r) PROVE QueueTyped'
  BY <1>2 DEF TakeJob
<1>3. ASSUME NEW w \in Worker, NEW r \in Request, EndJob(w, r) PROVE QueueTyped'
  BY <1>3 DEF EndJob, Forget
<1>4. ASSUME NEW w \in Worker, HandleAbort(w) PROVE QueueTyped'
  BY <1>4 DEF HandleAbort, AbortRun, Executing
<1>5. ASSUME NEW w \in Worker, Crash(w) PROVE QueueTyped'
  BY <1>5 DEF Crash, Stall
<1>6. CASE UNCHANGED <<jobs, running, wpool, result, stalls, lost>>
  BY <1>6
<1>7. ASSUME NEW w \in Worker, NEW r \in Request, LoseLock(w, r) PROVE QueueTyped'
  <2>1. sent[r] \in 0..MaxEvents /\ stalls[r] \in {0, 1}
    BY BoundType, PredictionAssumption DEF BoundsKept
  <2>2. [run |-> r, try |-> stalls[r], n |-> sent[r]] \in Lost
    BY <2>1 DEF Lost
  <2> QED BY <1>7, <2>2 DEF LoseLock, Stall
<1>8. ASSUME NEW w \in Worker, NEW e \in lost[w], EmitLost(w, e) PROVE QueueTyped'
  BY <1>8, NextLost DEF EmitLost
<1>9. ASSUME NEW w \in Worker, NEW e \in lost[w], EndLost(w, e) PROVE QueueTyped'
  BY <1>9 DEF EndLost
<1> QED
  BY <1>1, <1>2, <1>3, <1>4, <1>5, <1>6, <1>7, <1>8, <1>9
     DEF Next, ServerStep, WorkerStep, Delivery, vars, LoseLock, EmitLost, EndLost, Open, NotFound, Unauthorized, Execute,
         Emit, Finish, JobOver, EmitToChannel, SubscriptionReady, handleEvent, abortChatMessage,
         abortTextToSpeech

LEMMA ExecutionTypeNext == TypeOK /\ [Next]_vars => ExecutionTyped'
<1> SUFFICES ASSUME TypeOK, [Next]_vars PROVE ExecutionTyped'
  OBVIOUS
<1> USE DEF calls, server, queue, history, TypeOK, ExecutionTyped, ClientTyped
<1>1. ASSUME NEW r \in Request, Open(r) PROVE ExecutionTyped'
  BY <1>1 DEF Open, InProgress
<1>2. ASSUME NEW r \in Request, Finish(r) PROVE ExecutionTyped'
  BY <1>2 DEF Finish, Answer, Forget, CloseClient
<1>3. ASSUME NEW w \in Worker, NEW r \in Request, EndJob(w, r) PROVE ExecutionTyped'
  BY <1>3 DEF EndJob, Forget
<1>4. ASSUME NEW w \in Worker, HandleAbort(w) PROVE ExecutionTyped'
  BY <1>4 DEF HandleAbort, AbortRun, Executing
<1>5. ASSUME NEW w \in Worker, Crash(w) PROVE ExecutionTyped'
  BY <1>5 DEF Crash, Stall
<1>6. ASSUME abortChatMessage PROVE ExecutionTyped'
  BY <1>6 DEF abortChatMessage, AbortRun, Executing
<1>7. ASSUME abortTextToSpeech PROVE ExecutionTyped'
  BY <1>7 DEF abortTextToSpeech, AbortRun, Executing, CloseClient
<1>8. CASE UNCHANGED <<streaming, aborted, overlapped, silenced>>
  BY <1>8
<1>9. ASSUME NEW w \in Worker, NEW r \in Request, LoseLock(w, r) PROVE ExecutionTyped'
  BY <1>9 DEF LoseLock, Stall
<1> QED
  BY <1>1, <1>2, <1>3, <1>4, <1>5, <1>6, <1>7, <1>8, <1>9
     DEF Next, ServerStep, WorkerStep, Delivery, vars, LoseLock, EmitLost, EndLost, NotFound, Unauthorized, Execute, addJob,
         Emit, JobOver, TakeJob, EmitToChannel, SubscriptionReady, handleEvent

LEMMA BoundsNext == TypeOK /\ [Next]_vars => BoundsKept'
<1> SUFFICES ASSUME TypeOK, [Next]_vars PROVE BoundsKept'
  OBVIOUS
<1> USE PredictionAssumption DEF calls, server, queue, history, TypeOK, BoundsKept
<1>1. ASSUME NEW r \in Request, Emit(r) PROVE BoundsKept'
  BY <1>1 DEF Emit, Write, IsStart
<1>2. ASSUME NEW r \in Request, Finish(r) PROVE BoundsKept'
  BY <1>2 DEF Finish, Answer, Forget, CloseClient
<1>3. ASSUME NEW w \in Worker, NEW r \in Request, EmitToChannel(w, r) PROVE BoundsKept'
  BY <1>3 DEF EmitToChannel, Publish
<1>4. ASSUME NEW w \in Worker, NEW r \in Request, EndJob(w, r) PROVE BoundsKept'
  BY <1>4 DEF EndJob, Forget
<1>5. ASSUME NEW w \in Worker, HandleAbort(w) PROVE BoundsKept'
  BY <1>5 DEF HandleAbort, AbortRun, Executing
<1>6. ASSUME NEW w \in Worker, Crash(w) PROVE BoundsKept'
  BY <1>6 DEF Crash, Stall
<1>7. ASSUME abortChatMessage PROVE BoundsKept'
  BY <1>7 DEF abortChatMessage, AbortRun, Executing
<1>8. ASSUME abortTextToSpeech PROVE BoundsKept'
  BY <1>8 DEF abortTextToSpeech, AbortRun, Executing, CloseClient
<1>9. CASE UNCHANGED <<bound, sent, aborts, crashes, abortsDue>>
  BY <1>9
<1>10. ASSUME NEW w \in Worker, NEW r \in Request, LoseLock(w, r) PROVE BoundsKept'
  BY <1>10 DEF LoseLock, Stall
<1> QED
  BY <1>1, <1>2, <1>3, <1>4, <1>5, <1>6, <1>7, <1>8, <1>9, <1>10
     DEF Next, ServerStep, WorkerStep, Delivery, vars, LoseLock, EmitLost, EndLost, Open, NotFound, Unauthorized, Execute,
         addJob, JobOver, TakeJob, SubscriptionReady, handleEvent

LEMMA EventsTypeNext == TypeOK /\ [Next]_vars => EventsTyped'
<1> SUFFICES ASSUME TypeOK, [Next]_vars PROVE EventsTyped'
  OBVIOUS
<1> USE DEF calls, server, queue, history, TypeOK, EventsTyped
<1>1. ASSUME NEW r \in Request, Emit(r) PROVE EventsTyped'
  BY <1>1, NextEvent, WriteTyped DEF Emit
<1>2. ASSUME NEW w \in Worker, NEW r \in Request, EmitToChannel(w, r) PROVE EventsTyped'
  BY <1>2, NextEvent, PublishTyped DEF EmitToChannel
<1>3. ASSUME NEW w \in Worker, handleEvent(w) PROVE EventsTyped'
  <2>1. channel[w] \in Seq(Event) /\ channel[w] # <<>>
    BY <1>3 DEF handleEvent
  <2>2. Head(channel[w]) \in Event /\ Tail(channel[w]) \in Seq(Event)
    BY <2>1
  <2>3. stream' \in [Request -> Seq(Event)]
    BY <1>3, <2>2, WriteTyped DEF handleEvent
  <2> QED BY <1>3, <2>2, <2>3 DEF handleEvent
<1>4. CASE UNCHANGED <<channel, stream>>
  BY <1>4
<1>5. ASSUME NEW w \in Worker, NEW e \in lost[w], EmitLost(w, e) PROVE EventsTyped'
  BY <1>5, NextLost, PublishTyped DEF EmitLost
<1>6. ASSUME NEW w \in Worker, Crash(w) PROVE EventsTyped'
  <2>1. PICK n \in 0..Len(channel[w]) : channel' = [channel EXCEPT ![w] = SubSeq(channel[w], 1, n)]
    BY <1>6 DEF Crash
  <2>2. channel[w] \in Seq(Event) /\ n \in Nat /\ n <= Len(channel[w])
    OBVIOUS
  <2>3. SubSeq(channel[w], 1, n) \in Seq(Event)
    BY <2>2, SubSeqProperties
  <2> QED BY <1>6, <2>1, <2>3 DEF Crash
<1> QED
  BY <1>1, <1>2, <1>3, <1>4, <1>5, <1>6
     DEF Next, ServerStep, WorkerStep, Delivery, vars, LoseLock, EmitLost, EndLost, Open, NotFound, Unauthorized, Execute,
         addJob, Finish, JobOver, TakeJob, EndJob, HandleAbort, Crash, SubscriptionReady,
         abortChatMessage, abortTextToSpeech

LEMMA TypeNext == TypeOK /\ [Next]_vars => TypeOK'
BY ServerTypeNext, ClientTypeNext, QueueTypeNext, ExecutionTypeNext, BoundsNext,
   EventsTypeNext DEF TypeOK

\* The entries of the maps, the jobs and the counters keep their types.
THEOREM TypeCorrect == Spec => []TypeOK
BY TypeInit, TypeNext, PTL DEF Spec

-----------------------------------------------------------------------------

LEMMA ModesNext == IInv /\ [Next]_vars => ModesApart'
<1> SUFFICES ASSUME IInv, [Next]_vars PROVE ModesApart'
  OBVIOUS
<1> USE DEF calls, server, queue, history, IInv, TypeOK, ServerTyped, QueueTyped, ModesApart
<1>1. ASSUME NEW r \in Request, Open(r) PROVE ModesApart'
  BY <1>1 DEF Open, InProgress
<1>2. ASSUME NEW r \in Request, NotFound(r) PROVE ModesApart'
  BY <1>2 DEF NotFound, Answer, CloseClient
<1>3. ASSUME NEW r \in Request, Unauthorized(r) PROVE ModesApart'
  BY <1>3 DEF Unauthorized, Answer, CloseClient
<1>4. ASSUME NEW r \in Request, Execute(r) PROVE ModesApart'
  BY <1>4 DEF Execute
<1>5. ASSUME NEW r \in Request, addJob(r) PROVE ModesApart'
  BY <1>5 DEF addJob
<1>6. ASSUME NEW r \in Request, Finish(r) PROVE ModesApart'
  BY <1>6 DEF Finish, Answer, Forget, CloseClient
<1>7. ASSUME NEW r \in Request, JobOver(r) PROVE ModesApart'
  BY <1>7 DEF JobOver, Answer, CloseClient
<1>8. ASSUME NEW w \in Worker, NEW r \in Request, TakeJob(w, r) PROVE ModesApart'
  BY <1>8 DEF TakeJob
<1>9. ASSUME NEW w \in Worker, NEW r \in Request, EndJob(w, r) PROVE ModesApart'
  BY <1>9 DEF EndJob, Forget
<1>10. ASSUME NEW w \in Worker, HandleAbort(w) PROVE ModesApart'
  BY <1>10 DEF HandleAbort, AbortRun, Executing
<1>11. ASSUME NEW w \in Worker, Crash(w) PROVE ModesApart'
  BY <1>11 DEF Crash, Stall
<1>12. ASSUME abortChatMessage PROVE ModesApart'
  BY <1>12 DEF abortChatMessage, AbortRun, Executing
<1>13. ASSUME abortTextToSpeech PROVE ModesApart'
  BY <1>13 DEF abortTextToSpeech, AbortRun, Executing, CloseClient
<1>14. CASE UNCHANGED <<mode, jobs, running, wpool, pc, pool, lost>>
  BY <1>14
<1>15. ASSUME NEW w \in Worker, NEW r \in Request, LoseLock(w, r) PROVE ModesApart'
  BY <1>15 DEF LoseLock, Stall
<1>16. ASSUME NEW w \in Worker, NEW e \in lost[w], EmitLost(w, e) PROVE ModesApart'
  BY <1>16, NextLost DEF EmitLost
<1>17. ASSUME NEW w \in Worker, NEW e \in lost[w], EndLost(w, e) PROVE ModesApart'
  BY <1>17 DEF EndLost
<1> QED
  BY <1>1, <1>2, <1>3, <1>4, <1>5, <1>6, <1>7, <1>8, <1>9, <1>10, <1>11, <1>12, <1>13, <1>14, <1>15, <1>16, <1>17
     DEF Next, ServerStep, WorkerStep, Delivery, vars, LoseLock, EmitLost, EndLost, Emit, EmitToChannel, SubscriptionReady,
         handleEvent

LEMMA OverlapsNext == IInv /\ [Next]_vars => OverlapsKnown'
<1> SUFFICES ASSUME IInv, [Next]_vars PROVE OverlapsKnown'
  OBVIOUS
<1> USE DEF calls, server, queue, history, IInv, TypeOK, ServerTyped, ExecutionTyped, OverlapsKnown, InProgress
<1>1. ASSUME NEW r \in Request, Open(r) PROVE OverlapsKnown'
  BY <1>1 DEF Open, InProgress
<1>2. ASSUME NEW r \in Request, NotFound(r) PROVE OverlapsKnown'
  BY <1>2 DEF NotFound, Answer, CloseClient
<1>3. ASSUME NEW r \in Request, Unauthorized(r) PROVE OverlapsKnown'
  BY <1>3 DEF Unauthorized, Answer, CloseClient
<1>4. ASSUME NEW r \in Request, Execute(r) PROVE OverlapsKnown'
  BY <1>4 DEF Execute
<1>5. ASSUME NEW r \in Request, addJob(r) PROVE OverlapsKnown'
  BY <1>5 DEF addJob
<1>6. ASSUME NEW r \in Request, Finish(r) PROVE OverlapsKnown'
  BY <1>6 DEF Finish, Answer, Forget, CloseClient
<1>7. ASSUME NEW r \in Request, JobOver(r) PROVE OverlapsKnown'
  BY <1>7 DEF JobOver, Answer, CloseClient
<1>8. CASE UNCHANGED <<pc, lost, overlapped>>
  BY <1>8
<1>9. ASSUME NEW w \in Worker, NEW r \in Request, LoseLock(w, r) PROVE OverlapsKnown'
  BY <1>9 DEF LoseLock, Stall, JobInOnePlace
<1>10. ASSUME NEW w \in Worker, NEW e \in lost[w], EmitLost(w, e) PROVE OverlapsKnown'
  BY <1>10, NextLost DEF EmitLost
<1>11. ASSUME NEW w \in Worker, NEW e \in lost[w], EndLost(w, e) PROVE OverlapsKnown'
  BY <1>11 DEF EndLost
<1>12. ASSUME NEW w \in Worker, Crash(w) PROVE OverlapsKnown'
  BY <1>12 DEF Crash
<1> HIDE DEF IInv, TypeOK, OverlapsKnown
<1> QED
  BY <1>1, <1>2, <1>3, <1>4, <1>5, <1>6, <1>7, <1>8, <1>9, <1>10, <1>11, <1>12
     DEF Next, ServerStep, WorkerStep, Delivery, vars, Emit, TakeJob, EmitToChannel, EndJob,
         HandleAbort, SubscriptionReady, handleEvent, abortChatMessage, abortTextToSpeech

LEMMA ControllerNext == IInv /\ [Next]_vars => NoControllerOutlivesItsRun'
<1> SUFFICES ASSUME IInv, [Next]_vars PROVE NoControllerOutlivesItsRun'
  OBVIOUS
<1> USE PredictionAssumption DEF calls, server, queue, history, IInv, TypeOK, ServerTyped, NoControllerOutlivesItsRun, ModesApart
<1>1. ASSUME NEW r \in Request, Open(r) PROVE NoControllerOutlivesItsRun'
  BY <1>1 DEF Open, InProgress
<1>2. ASSUME NEW r \in Request, NotFound(r) PROVE NoControllerOutlivesItsRun'
  BY <1>2 DEF NotFound, Answer, CloseClient
<1>3. ASSUME NEW r \in Request, Unauthorized(r) PROVE NoControllerOutlivesItsRun'
  BY <1>3 DEF Unauthorized, Answer, CloseClient
<1>4. ASSUME NEW r \in Request, Execute(r) PROVE NoControllerOutlivesItsRun'
  BY <1>4 DEF Execute
<1>5. ASSUME NEW r \in Request, addJob(r) PROVE NoControllerOutlivesItsRun'
  BY <1>5 DEF addJob
<1>6. ASSUME NEW r \in Request, Finish(r) PROVE NoControllerOutlivesItsRun'
  BY <1>6 DEF Finish, Answer, Forget, CloseClient
<1>7. ASSUME NEW r \in Request, JobOver(r) PROVE NoControllerOutlivesItsRun'
  BY <1>7 DEF JobOver, Answer, CloseClient
<1>8. ASSUME abortChatMessage PROVE NoControllerOutlivesItsRun'
  BY <1>8 DEF abortChatMessage, AbortRun, Executing
<1>9. ASSUME abortTextToSpeech PROVE NoControllerOutlivesItsRun'
  BY <1>9 DEF abortTextToSpeech, AbortRun, Executing, CloseClient
<1>10. CASE UNCHANGED <<mode, pc, pool>>
  BY <1>10
<1> QED
  BY <1>1, <1>2, <1>3, <1>4, <1>5, <1>6, <1>7, <1>8, <1>9, <1>10
     DEF Next, ServerStep, WorkerStep, Delivery, vars, LoseLock, EmitLost, EndLost, Emit, TakeJob, EmitToChannel, EndJob,
         HandleAbort, Crash, SubscriptionReady, handleEvent

LEMMA JobNext == IInv /\ [Next]_vars => JobInOnePlace'
<1> SUFFICES ASSUME IInv, [Next]_vars PROVE JobInOnePlace'
  OBVIOUS
<1> USE DEF calls, server, queue, history, IInv, TypeOK, ServerTyped, QueueTyped, JobInOnePlace, ModesApart
<1>1. ASSUME NEW r \in Request, Open(r) PROVE JobInOnePlace'
  BY <1>1 DEF Open, InProgress
<1>2. ASSUME NEW r \in Request, NotFound(r) PROVE JobInOnePlace'
  BY <1>2 DEF NotFound, Answer, CloseClient
<1>3. ASSUME NEW r \in Request, Unauthorized(r) PROVE JobInOnePlace'
  BY <1>3 DEF Unauthorized, Answer, CloseClient
<1>4. ASSUME NEW r \in Request, Execute(r) PROVE JobInOnePlace'
  BY <1>4 DEF Execute
<1>5. ASSUME NEW r \in Request, addJob(r) PROVE JobInOnePlace'
  BY <1>5 DEF addJob
<1>6. ASSUME NEW r \in Request, Finish(r) PROVE JobInOnePlace'
  BY <1>6 DEF Finish, Answer, Forget, CloseClient
<1>7. ASSUME NEW r \in Request, JobOver(r) PROVE JobInOnePlace'
  BY <1>7 DEF JobOver, Answer, CloseClient
<1>8. ASSUME NEW w \in Worker, NEW r \in Request, TakeJob(w, r) PROVE JobInOnePlace'
  BY <1>8 DEF TakeJob
<1>9. ASSUME NEW w \in Worker, NEW r \in Request, EndJob(w, r) PROVE JobInOnePlace'
  BY <1>9 DEF EndJob, Forget
<1>10. ASSUME NEW w \in Worker, Crash(w) PROVE JobInOnePlace'
  BY <1>10 DEF Crash, Stall
<1>11. CASE UNCHANGED <<pc, jobs, running, result>>
  BY <1>11
<1>12. ASSUME NEW w \in Worker, NEW r \in Request, LoseLock(w, r) PROVE JobInOnePlace'
  BY <1>12 DEF LoseLock, Stall
<1> QED
  BY <1>1, <1>2, <1>3, <1>4, <1>5, <1>6, <1>7, <1>8, <1>9, <1>10, <1>11, <1>12
     DEF Next, ServerStep, WorkerStep, Delivery, vars, LoseLock, EmitLost, EndLost, Emit, EmitToChannel, HandleAbort,
         SubscriptionReady, handleEvent, abortChatMessage, abortTextToSpeech

LEMMA WriteNext == IInv /\ [Next]_vars => NoWriteAfterEnd'
<1> SUFFICES ASSUME IInv, [Next]_vars PROVE NoWriteAfterEnd'
  OBVIOUS
<1> USE PredictionAssumption DEF calls, server, queue, history, IInv, TypeOK, ServerTyped, ClientTyped, NoWriteAfterEnd
<1>1. ASSUME NEW r \in Request, Open(r) PROVE NoWriteAfterEnd'
  BY <1>1 DEF Open, InProgress
<1>2. ASSUME NEW r \in Request, NotFound(r) PROVE NoWriteAfterEnd'
  BY <1>2 DEF NotFound, Answer, CloseClient
<1>3. ASSUME NEW r \in Request, Unauthorized(r) PROVE NoWriteAfterEnd'
  BY <1>3 DEF Unauthorized, Answer, CloseClient
<1>4. ASSUME NEW r \in Request, Finish(r) PROVE NoWriteAfterEnd'
  BY <1>4 DEF Finish, Answer, Forget, CloseClient
<1>5. ASSUME NEW r \in Request, JobOver(r) PROVE NoWriteAfterEnd'
  BY <1>5 DEF JobOver, Answer, CloseClient
<1>6. ASSUME abortTextToSpeech PROVE NoWriteAfterEnd'
  BY <1>6 DEF abortTextToSpeech, AbortRun, Executing, CloseClient
<1>7. CASE UNCHANGED <<client, response>>
  BY <1>7
<1> QED
  BY <1>1, <1>2, <1>3, <1>4, <1>5, <1>6, <1>7
     DEF Next, ServerStep, WorkerStep, Delivery, vars, LoseLock, EmitLost, EndLost, Execute, addJob, Emit, TakeJob,
         EmitToChannel, EndJob, HandleAbort, Crash, SubscriptionReady, handleEvent,
         abortChatMessage

\* A request is answered: its own stream is ended, or those that overlap it know.
LEMMA Answered ==
    ASSUME IInv, NEW r \in InProgress, Answer(r), UNCHANGED <<streaming, overlapped, silenced>>
    PROVE  ClientInProgress'
<1> USE PredictionAssumption DEF IInv, TypeOK, ServerTyped, ClientTyped, ExecutionTyped,
        ClientInProgress, InProgress
<1>1. pc' = [pc EXCEPT ![r] = "over"] /\ r \in Request
  BY DEF Answer
<1>2. CASE streaming[r]
  <2>1. client' = None /\ \A q \in Request : response'[q] = IF q = client THEN "ended" ELSE response[q]
    BY <1>2 DEF Answer, CloseClient
  <2>2. \A q \in InProgress \ {r} : q \in overlapped
    BY DEF OverlapsKnown
  <2>3. r \notin overlapped => client = r \/ r \in silenced
    BY <1>2
  <2> QED BY <1>1, <1>2, <2>1, <2>2, <2>3
<1>3. CASE ~streaming[r]
  <2>1. UNCHANGED <<client, response>> /\ client # r
    BY <1>3 DEF Answer
  <2> QED BY <1>1, <1>3, <2>1
<1> QED BY <1>2, <1>3

LEMMA ClientNext == IInv /\ [Next]_vars => ClientInProgress'
<1> SUFFICES ASSUME IInv, [Next]_vars PROVE ClientInProgress'
  OBVIOUS
<1> USE PredictionAssumption DEF calls, server, queue, history, IInv, TypeOK, ServerTyped, ClientTyped, ExecutionTyped, OverlapsKnown, ClientInProgress, InProgress
<1>1. ASSUME NEW r \in Request, Open(r) PROVE ClientInProgress'
  BY <1>1 DEF Open, InProgress
<1>2. ASSUME NEW r \in Request, NotFound(r) PROVE ClientInProgress'
  BY <1>2, Answered DEF NotFound, InProgress
<1>3. ASSUME NEW r \in Request, Unauthorized(r) PROVE ClientInProgress'
  BY <1>3, Answered DEF Unauthorized, InProgress
<1>4. ASSUME NEW r \in Request, Execute(r) PROVE ClientInProgress'
  BY <1>4 DEF Execute
<1>5. ASSUME NEW r \in Request, addJob(r) PROVE ClientInProgress'
  BY <1>5 DEF addJob
<1>6. ASSUME NEW r \in Request, Finish(r) PROVE ClientInProgress'
  BY <1>6, Answered DEF Finish, InProgress
<1>7. ASSUME NEW r \in Request, JobOver(r) PROVE ClientInProgress'
  BY <1>7, Answered DEF JobOver, InProgress
<1>8. ASSUME abortTextToSpeech PROVE ClientInProgress'
  BY <1>8 DEF abortTextToSpeech, AbortRun, Executing, CloseClient
<1>9. CASE UNCHANGED <<streaming, pc, client, response, overlapped, silenced>>
  BY <1>9
<1>10. ASSUME NEW w \in Worker, NEW r \in Request, LoseLock(w, r) PROVE ClientInProgress'
  BY <1>10 DEF LoseLock, Stall, JobInOnePlace
<1> HIDE DEF IInv, TypeOK, OverlapsKnown, ClientInProgress
<1> QED
  BY <1>1, <1>2, <1>3, <1>4, <1>5, <1>6, <1>7, <1>8, <1>9, <1>10
     DEF Next, ServerStep, WorkerStep, Delivery, vars, EmitLost, EndLost, Emit, TakeJob, EmitToChannel, EndJob,
         HandleAbort, Crash, SubscriptionReady, handleEvent, abortChatMessage

LEMMA AbortNext == IInv /\ [Next]_vars => AbortFindsRun'
<1> SUFFICES ASSUME IInv, [Next]_vars PROVE AbortFindsRun'
  OBVIOUS
<1> USE PredictionAssumption DEF calls, server, queue, history, IInv, TypeOK, ServerTyped, QueueTyped, ExecutionTyped, OverlapsKnown, InProgress, ModesApart, JobInOnePlace, AbortFindsRun
<1>1. ASSUME NEW r \in Request, Open(r) PROVE AbortFindsRun'
  BY <1>1 DEF Open, InProgress
<1>2. ASSUME NEW r \in Request, NotFound(r) PROVE AbortFindsRun'
  BY <1>2 DEF NotFound, Answer, CloseClient
<1>3. ASSUME NEW r \in Request, Unauthorized(r) PROVE AbortFindsRun'
  BY <1>3 DEF Unauthorized, Answer, CloseClient
<1>4. ASSUME NEW r \in Request, Execute(r) PROVE AbortFindsRun'
  BY <1>4 DEF Execute
<1>5. ASSUME NEW r \in Request, addJob(r) PROVE AbortFindsRun'
  BY <1>5 DEF addJob
<1>6. ASSUME NEW r \in Request, Finish(r) PROVE AbortFindsRun'
  BY <1>6 DEF Finish, Answer, Forget, CloseClient
<1>7. ASSUME NEW r \in Request, JobOver(r) PROVE AbortFindsRun'
  BY <1>7 DEF JobOver, Answer, CloseClient
<1>8. ASSUME NEW w \in Worker, NEW r \in Request, TakeJob(w, r) PROVE AbortFindsRun'
  BY <1>8 DEF TakeJob
<1>9. ASSUME NEW w \in Worker, NEW r \in Request, EndJob(w, r) PROVE AbortFindsRun'
  BY <1>9 DEF EndJob, Forget
<1>10. ASSUME NEW w \in Worker, HandleAbort(w) PROVE AbortFindsRun'
  BY <1>10 DEF HandleAbort, AbortRun, Executing
<1>11. ASSUME NEW w \in Worker, Crash(w) PROVE AbortFindsRun'
  BY <1>11 DEF Crash, Stall
<1>12. ASSUME abortChatMessage PROVE AbortFindsRun'
  <2>1. CASE mode = "QUEUE"
    BY <1>12, <2>1 DEF abortChatMessage
  <2>2. CASE mode = "MAIN"
    <3>1. UNCHANGED <<pc, running, wpool, overlapped>> /\ AbortRun(pool, Executing) /\ pool' = None
      BY <1>12, <2>2 DEF abortChatMessage
    <3>2. \A r \in Request \ overlapped : pc[r] = "running" => aborted'[r]
      BY <3>1 DEF AbortRun, Executing
    <3>3. \A w \in Worker : running[w] = {}
      BY <2>2
    <3> QED BY <3>1, <3>2, <3>3
  <2> QED BY <2>1, <2>2
<1>13. ASSUME abortTextToSpeech PROVE AbortFindsRun'
  BY <1>13 DEF abortTextToSpeech, AbortRun, Executing, CloseClient
<1>14. CASE UNCHANGED <<pc, pool, running, wpool, aborted, overlapped>>
  BY <1>14
<1>15. ASSUME NEW w \in Worker, NEW r \in Request, LoseLock(w, r) PROVE AbortFindsRun'
  BY <1>15 DEF LoseLock, Stall
<1> QED
  BY <1>1, <1>2, <1>3, <1>4, <1>5, <1>6, <1>7, <1>8, <1>9, <1>10, <1>11, <1>12, <1>13, <1>14, <1>15
     DEF Next, ServerStep, WorkerStep, Delivery, vars, LoseLock, EmitLost, EndLost, Emit, EmitToChannel, SubscriptionReady,
         handleEvent

LEMMA InvInit == Init => IInv
<1> SUFFICES ASSUME Init PROVE IInv
  OBVIOUS
<1>1. TypeOK
  BY TypeInit
<1>2. ModesApart /\ JobInOnePlace
  BY DEF Init, ModesApart, JobInOnePlace
<1>3. OverlapsKnown /\ ClientInProgress
  BY DEF Init, OverlapsKnown, ClientInProgress, InProgress
<1>4. NoControllerOutlivesItsRun /\ NoWriteAfterEnd /\ AbortFindsRun
  BY DEF Init, NoControllerOutlivesItsRun, NoWriteAfterEnd, AbortFindsRun
<1> QED BY <1>1, <1>2, <1>3, <1>4 DEF IInv

LEMMA InvNext == IInv /\ [Next]_vars => IInv'
<1> SUFFICES ASSUME IInv, [Next]_vars PROVE IInv'
  OBVIOUS
<1>1. TypeOK'
  BY TypeNext DEF IInv
<1> QED
  BY <1>1, ModesNext, OverlapsNext, ControllerNext, JobNext, WriteNext, ClientNext, AbortNext
  DEF IInv

LEMMA Invariant == Spec => []IInv
BY InvInit, InvNext, PTL DEF Spec

\* In main mode an abort never goes to a run that is over: Finish and the refusal
\* of a request empty the pool whosever controller it holds.
THEOREM ControllerOfRunUnderWay == Spec => []NoControllerOutlivesItsRun
<1>1. IInv => NoControllerOutlivesItsRun
  BY DEF IInv
<1> QED BY <1>1, Invariant, PTL

\* A run that has the chat for itself can be aborted at every moment, in both
\* modes: AbortControllerPool.add replaces whatever earlier runs left.
THEOREM AbortReachesRun == Spec => []AbortFindsRun
<1>1. IInv => AbortFindsRun
  BY DEF IInv
<1> QED BY <1>1, Invariant, PTL

\* SSEStreamer never writes to a response it has ended, however requests overlap.
THEOREM ClientIsOpen == Spec => []NoWriteAfterEnd
<1>1. IInv => NoWriteAfterEnd
  BY DEF IInv
<1> QED BY <1>1, Invariant, PTL

\* The event stream of a request alone in its chat ends with the request.
THEOREM StreamEndsWithRequest == Spec => []ResponseFollowsRequest
<1>1. IInv => ResponseFollowsRequest
  <2> SUFFICES ASSUME IInv, NEW r \in Request \ overlapped, streaming[r]
               PROVE  response[r] = "ended" <=> pc[r] = "over" \/ r \in silenced
    BY DEF ResponseFollowsRequest
  <2> USE DEF IInv, TypeOK, ServerTyped, ClientInProgress, InProgress, NoWriteAfterEnd
  <2>1. CASE pc[r] = "new"
    BY <2>1
  <2>2. CASE r \in InProgress
    BY <2>2, PredictionAssumption
  <2>3. CASE pc[r] = "over"
    BY <2>3
  <2> QED BY <2>1, <2>2, <2>3
<1> QED BY <1>1, Invariant, PTL

\* A job is in one place at a time and a request that waits for it is not forgotten.
THEOREM JobsKept == Spec => []JobInOnePlace
<1>1. IInv => JobInOnePlace
  BY DEF IInv
<1> QED BY <1>1, Invariant, PTL
-----------------------------------------------------------------------------

LEMMA StreamInit == Init => StreamInv
<1> SUFFICES ASSUME Init PROVE StreamInv
  OBVIOUS
<1>1. NoEventYet
  BY DEF Init, NoEventYet
<1>2. WrittenDirectly
  BY DEF Init, WrittenDirectly
<1>3. Labelled /\ ChannelFollowsRun /\ StreamInOrder
  BY DEF Init, Labelled, ChannelFollowsRun, StreamInOrder
<1> QED BY <1>1, <1>2, <1>3 DEF StreamInv

\* An event that is written comes last in the stream of the chat's client.
LEMMA WriteAppends ==
    ASSUME TypeOK, NEW e \in Event, Write(e)
    PROVE  \A q \in Request :
              /\ DOMAIN stream[q] = 1..Len(stream[q]) /\ Len(stream[q]) \in Nat
              /\ \A i \in DOMAIN stream[q] : stream'[q][i] = stream[q][i]
              /\ \/ DOMAIN stream'[q] = DOMAIN stream[q]
                 \/ /\ q = client
                    /\ DOMAIN stream'[q] = 1..(Len(stream[q]) + 1)
                    /\ stream'[q][Len(stream[q]) + 1] = e
<1> TAKE q \in Request
<1>1. stream \in [Request -> Seq(Event)] /\ stream[q] \in Seq(Event)
  BY DEF TypeOK, EventsTyped
<1>2. DOMAIN stream[q] = 1..Len(stream[q]) /\ Len(stream[q]) \in Nat
  BY <1>1
<1>3. CASE stream'[q] = stream[q]
  BY <1>2, <1>3
<1>4. CASE stream'[q] # stream[q]
  <2>1. stream' = [stream EXCEPT ![client] = Append(stream[client], e)] /\ q = client
    BY <1>1, <1>4 DEF Write
  <2>2. stream'[q] = Append(stream[q], e)
    BY <1>1, <2>1
  <2>3. /\ Len(stream'[q]) = Len(stream[q]) + 1
        /\ \A i \in 1..Len(stream[q]) : stream'[q][i] = stream[q][i]
        /\ stream'[q][Len(stream[q]) + 1] = e
        /\ stream'[q] \in Seq(Event)
    BY <1>1, <2>2, AppendProperties
  <2>4. DOMAIN stream'[q] = 1..Len(stream'[q])
    BY <2>3
  <2> QED BY <1>2, <2>1, <2>3, <2>4
<1> QED BY <1>3, <1>4

\* An event that is published comes last among those of its worker.
LEMMA PublishAppends ==
    ASSUME TypeOK, NEW w \in Worker, NEW e \in Event, Publish(w, e)
    PROVE  /\ \A v \in Worker : \A i \in DOMAIN channel[v] :
                 i \in DOMAIN channel'[v] /\ channel'[v][i] = channel[v][i]
           /\ \A v \in Worker : \A j \in DOMAIN channel'[v] :
                 \/ j \in DOMAIN channel[v]
                 \/ v = w /\ channel'[v][j] = e
           /\ \A v \in Worker : \A i, j \in DOMAIN channel'[v] : i < j => i \in DOMAIN channel[v]
<1>1. channel \in [Worker -> Seq(Event)] /\ channel' = [channel EXCEPT ![w] = Append(channel[w], e)]
  BY DEF TypeOK, EventsTyped, Publish
<1>2. /\ channel'[w] = Append(channel[w], e)
      /\ \A v \in Worker \ {w} : channel'[v] = channel[v]
  BY <1>1
<1>3. /\ channel[w] \in Seq(Event) /\ channel'[w] \in Seq(Event)
      /\ Len(channel'[w]) = Len(channel[w]) + 1
      /\ \A i \in 1..Len(channel[w]) : channel'[w][i] = channel[w][i]
      /\ channel'[w][Len(channel[w]) + 1] = e
  BY <1>1, <1>2, AppendProperties
<1>4. /\ DOMAIN channel[w] = 1..Len(channel[w]) /\ Len(channel[w]) \in Nat
      /\ DOMAIN channel'[w] = 1..(Len(channel[w]) + 1)
  BY <1>3
<1>5. \A v \in Worker : DOMAIN channel[v] = 1..Len(channel[v]) /\ Len(channel[v]) \in Nat
  BY <1>1
<1> QED BY <1>2, <1>3, <1>4, <1>5

\* The worker's oldest event leaves the channel and its others move up.
LEMMA Delivered ==
    ASSUME TypeOK, NEW w \in Worker, handleEvent(w)
    PROVE  /\ 1 \in DOMAIN channel[w] /\ channel[w][1] \in Event
           /\ IF subscribed = "yes" THEN Write(channel[w][1]) ELSE UNCHANGED stream
           /\ \A v \in Worker \ {w} : channel'[v] = channel[v]
           /\ \A i \in DOMAIN channel'[w] :
                 /\ i + 1 \in DOMAIN channel[w] /\ 1 < i + 1 /\ i \in Nat
                 /\ channel'[w][i] = channel[w][i + 1]
<1>1. /\ channel \in [Worker -> Seq(Event)] /\ channel[w] # <<>>
      /\ channel' = [channel EXCEPT ![w] = Tail(channel[w])]
  BY DEF TypeOK, EventsTyped, handleEvent
<1>2. channel[w] \in Seq(Event) /\ channel'[w] = Tail(channel[w])
  BY <1>1
<1>3. /\ Head(channel[w]) = channel[w][1] /\ channel'[w] \in Seq(Event)
      /\ Len(channel'[w]) = Len(channel[w]) - 1
      /\ \A i \in 1..(Len(channel[w]) - 1) : channel'[w][i] = channel[w][i + 1]
  BY <1>1, <1>2, HeadTailProperties
<1>4. Len(channel[w]) \in Nat \ {0} /\ DOMAIN channel[w] = 1..Len(channel[w])
  BY <1>1, <1>2
<1>5. DOMAIN channel'[w] = 1..(Len(channel[w]) - 1)
  BY <1>3
<1>6. 1 \in DOMAIN channel[w] /\ channel[w][1] \in Event
  BY <1>2, <1>4
<1>7. IF subscribed = "yes" THEN Write(channel[w][1]) ELSE UNCHANGED stream
  BY <1>3 DEF handleEvent
<1> QED BY <1>1, <1>3, <1>4, <1>5, <1>6, <1>7

\* When a worker dies its latest events may be gone.
LEMMA ChannelCut ==
    ASSUME TypeOK, NEW w \in Worker, Crash(w)
    PROVE  \A v \in Worker : \A i \in DOMAIN channel'[v] :
              i \in DOMAIN channel[v] /\ channel'[v][i] = channel[v][i]
<1>1. PICK n \in 0..Len(channel[w]) : channel' = [channel EXCEPT ![w] = SubSeq(channel[w], 1, n)]
  BY DEF Crash
<1>2. channel \in [Worker -> Seq(Event)] /\ channel[w] \in Seq(Event)
  BY DEF TypeOK, EventsTyped
<1>3. n \in Nat /\ n <= Len(channel[w]) /\ DOMAIN channel[w] = 1..Len(channel[w])
  BY <1>2
<1>4. /\ channel'[w] = SubSeq(channel[w], 1, n)
      /\ \A v \in Worker \ {w} : channel'[v] = channel[v]
  BY <1>1, <1>2
<1>5. channel'[w] = [i \in 1..n |-> channel[w][i]]
  BY <1>2, <1>3, <1>4
<1> QED BY <1>3, <1>4, <1>5

\* A stream gets no event but the one that is written.
LEMMA Written ==
    ASSUME TypeOK, NEW e \in Event, Write(e)
    PROVE  \A q \in Request : \A i \in DOMAIN stream'[q] :
              \/ i \in DOMAIN stream[q] /\ stream'[q][i] = stream[q][i]
              \/ stream'[q][i] = e
BY WriteAppends

LEMMA NoEventNext == IInv /\ NoEventYet /\ [Next]_vars => NoEventYet'
<1> SUFFICES ASSUME IInv, NoEventYet, [Next]_vars PROVE NoEventYet'
  OBVIOUS
<1> USE DEF calls, server, queue, history, IInv, TypeOK, ServerTyped, QueueTyped, BoundsKept
<1>a. ASSUME \A r \in Request :
                pc'[r] \in {"new", "checking"} \/ (r \in jobs' /\ stalls'[r] = 0) =>
                    pc[r] \in {"new", "checking"} \/ (r \in jobs /\ stalls[r] = 0),
             \A r \in Request : pc'[r] \in {"new", "checking"} \/ r \in jobs' =>
                 sent'[r] = sent[r] \/ sent'[r] = 0,
             \A w \in Worker : \A i \in DOMAIN channel'[w] :
                 \E j \in DOMAIN channel[w] : channel'[w][i] = channel[w][j],
             \A w \in Worker : lost'[w] \subseteq lost[w],
             stream' = stream
      PROVE  NoEventYet'
  BY <1>a DEF NoEventYet
<1>1. ASSUME NEW r \in Request, Open(r) PROVE NoEventYet'
  BY <1>a, <1>1 DEF Open
<1>2. ASSUME NEW r \in Request, NotFound(r) PROVE NoEventYet'
  BY <1>a, <1>2 DEF NotFound, Answer
<1>3. ASSUME NEW r \in Request, Unauthorized(r) PROVE NoEventYet'
  BY <1>a, <1>3 DEF Unauthorized, Answer
<1>4. ASSUME NEW r \in Request, Execute(r) PROVE NoEventYet'
  BY <1>a, <1>4 DEF Execute
<1>5. ASSUME NEW r \in Request, addJob(r) PROVE NoEventYet'
  BY <1>a, <1>5 DEF addJob
<1>6. ASSUME NEW r \in Request, Finish(r) PROVE NoEventYet'
  BY <1>a, <1>6 DEF Finish, Answer, Forget
<1>7. ASSUME NEW r \in Request, JobOver(r) PROVE NoEventYet'
  BY <1>a, <1>7 DEF JobOver, Answer
<1>8. ASSUME NEW w \in Worker, NEW r \in Request, TakeJob(w, r) PROVE NoEventYet'
  BY <1>a, <1>8 DEF TakeJob
<1>9. ASSUME NEW w \in Worker, NEW r \in Request, EndJob(w, r) PROVE NoEventYet'
  BY <1>a, <1>9 DEF EndJob, Forget
<1>10. ASSUME NEW w \in Worker, Crash(w) PROVE NoEventYet'
  <2>1. /\ UNCHANGED <<pc, stream>>
        /\ \A r \in Request : r \in jobs' /\ stalls'[r] = 0 => r \in jobs /\ stalls[r] = 0
        /\ \A r \in Request : sent'[r] = sent[r] \/ sent'[r] = 0
        /\ \A v \in Worker : lost'[v] \subseteq lost[v]
    BY <1>10 DEF Crash, Stall
  <2> QED BY <1>a, <1>10, <2>1, ChannelCut
<1>11. ASSUME NEW w \in Worker, NEW r \in Request, LoseLock(w, r) PROVE NoEventYet'
  <2>1. /\ UNCHANGED <<pc, stream, channel>>
        /\ \A q \in Request : q \in jobs' /\ stalls'[q] = 0 => q \in jobs /\ stalls[q] = 0
        /\ \A q \in Request : sent'[q] = sent[q] \/ sent'[q] = 0
        /\ \A v \in Worker : \A e \in lost'[v] : e \in lost[v] \/ e.run = r
    BY <1>11 DEF LoseLock, Stall
  <2>2. pc[r] = "waiting" /\ ~(r \in jobs' /\ stalls'[r] = 0)
    BY <1>11 DEF LoseLock, Stall, JobInOnePlace
  <2> QED BY <2>1, <2>2 DEF NoEventYet
<1>12. ASSUME NEW w \in Worker, NEW e \in lost[w], EndLost(w, e) PROVE NoEventYet'
  <2>1. UNCHANGED <<pc, jobs, stalls, sent, stream, channel>> /\ lost' = [lost EXCEPT ![w] = @ \ {e}]
    BY <1>12 DEF EndLost
  <2>2. \A v \in Worker : lost'[v] \subseteq lost[v]
    BY <2>1
  <2> QED BY <2>1, <2>2 DEF NoEventYet
<1>13. ASSUME NEW r \in Request, Emit(r) PROVE NoEventYet'
  <2> DEFINE e == [run |-> r, n |-> sent[r] + 1, by |-> None]
  <2>1. /\ pc[r] = "running" /\ UNCHANGED <<pc, jobs, stalls, channel, lost>>
        /\ sent' = [sent EXCEPT ![r] = @ + 1] /\ Write(e) /\ e \in Event
    BY <1>13, NextEvent DEF Emit
  <2>2. e.run = r
    OBVIOUS
  <2> HIDE DEF e
  <2>3. \A q \in Request : q # r \/ q \notin jobs
    BY <2>1 DEF ModesApart
  <2>4. ASSUME NEW q \in Request, NEW i \in DOMAIN stream'[q], q # r,
               pc[q] \in {"new", "checking"} \/ (q \in jobs /\ stalls[q] = 0)
        PROVE  stream'[q][i].run # q
    BY <2>1, <2>2, <2>4, Written DEF NoEventYet
  <2>5. \A q \in Request : q # r => sent'[q] = sent[q]
    BY <2>1
  <2> QED BY <2>1, <2>3, <2>4, <2>5 DEF NoEventYet
\* Whatever is published next is of a run that has begun.
<1>14. ASSUME NEW w \in Worker, NEW e \in Event, Publish(w, e),
              pc[e.run] \notin {"new", "checking"}, e.run \notin jobs \/ stalls[e.run] # 0,
              UNCHANGED <<pc, jobs, stalls, stream>>,
              \A q \in Request : q = e.run \/ sent'[q] = sent[q],
              \A v \in Worker : \A f \in lost'[v] : f \in lost[v] \/ f.run = e.run
       PROVE  NoEventYet'
  <2>1. ASSUME NEW q \in Request, NEW v \in Worker, NEW i \in DOMAIN channel'[v],
               pc[q] \in {"new", "checking"} \/ (q \in jobs /\ stalls[q] = 0)
        PROVE  channel'[v][i].run # q
    BY <1>14, <2>1, PublishAppends DEF NoEventYet
  <2> QED BY <1>14, <2>1 DEF NoEventYet
<1>15. ASSUME NEW w \in Worker, NEW r \in Request, EmitToChannel(w, r) PROVE NoEventYet'
  <2>1. PICK e \in Event : e = [run |-> r, n |-> sent[r] + 1, by |-> w] /\ Publish(w, e)
    BY <1>15, NextEvent DEF EmitToChannel
  <2>2. pc[r] = "waiting" /\ r \notin jobs
    BY <1>15 DEF EmitToChannel, JobInOnePlace
  <2>3. UNCHANGED <<pc, jobs, stalls, stream, lost>> /\ sent' = [sent EXCEPT ![r] = @ + 1]
    BY <1>15 DEF EmitToChannel
  <2>4. e.run = r
    BY <2>1
  <2> QED BY <1>14, <2>1, <2>2, <2>3, <2>4
<1>16. ASSUME NEW w \in Worker, NEW f \in lost[w], EmitLost(w, f) PROVE NoEventYet'
  <2>1. PICK e \in Event : e = [run |-> f.run, n |-> f.n + 1, by |-> w] /\ Publish(w, e)
    BY <1>16, NextLost DEF EmitLost
  <2>2. e.run = f.run /\ f.run \in Request
    BY <2>1 DEF Lost
  <2>3. UNCHANGED <<pc, jobs, stalls, stream, sent>>
    BY <1>16 DEF EmitLost
  <2>4. pc[f.run] \notin {"new", "checking"} /\ ~(f.run \in jobs /\ stalls[f.run] = 0)
    BY <2>2 DEF NoEventYet
  <2>5. \A v \in Worker : \A g \in lost'[v] : g \in lost[v] \/ g.run = f.run
    BY <1>16, NextLost DEF EmitLost
  <2> QED BY <1>14, <2>1, <2>2, <2>3, <2>4, <2>5
<1>17. ASSUME NEW w \in Worker, handleEvent(w) PROVE NoEventYet'
  <2>1. UNCHANGED <<pc, jobs, stalls, sent, lost>>
    BY <1>17 DEF handleEvent
  <2>2. ASSUME NEW q \in Request, NEW v \in Worker, NEW i \in DOMAIN channel'[v],
               pc[q] \in {"new", "checking"} \/ (q \in jobs /\ stalls[q] = 0)
        PROVE  channel'[v][i].run # q
    BY <1>17, <2>2, Delivered DEF NoEventYet
  <2>3. ASSUME NEW q \in Request, NEW i \in DOMAIN stream'[q],
               pc[q] \in {"new", "checking"} \/ (q \in jobs /\ stalls[q] = 0)
        PROVE  stream'[q][i].run # q
    <3>1. CASE stream' = stream
      BY <2>3, <3>1 DEF NoEventYet
    <3>2. CASE stream' # stream
      <4>1. PICK e \in Event : e = channel[w][1] /\ Write(e) /\ 1 \in DOMAIN channel[w]
        BY <1>17, <3>2, Delivered
      <4>2. e.run # q
        BY <2>3, <4>1 DEF NoEventYet
      <4> QED BY <2>3, <4>1, <4>2, Written DEF NoEventYet
    <3> QED BY <3>1, <3>2
  <2> QED BY <2>1, <2>2, <2>3 DEF NoEventYet
<1>18. CASE UNCHANGED <<pc, jobs, stalls, sent, channel, stream, lost>>
  BY <1>18 DEF NoEventYet
<1> QED
  BY <1>1, <1>2, <1>3, <1>4, <1>5, <1>6, <1>7, <1>8, <1>9, <1>10, <1>11, <1>12, <1>13, <1>15,
     <1>16, <1>17, <1>18
     DEF Next, ServerStep, WorkerStep, Delivery, vars, HandleAbort, SubscriptionReady,
         abortChatMessage, abortTextToSpeech

LEMMA ModeKept == [Next]_vars => mode' = mode
<1> SUFFICES ASSUME [Next]_vars PROVE mode' = mode
  OBVIOUS
<1>1. CASE UNCHANGED vars
  BY <1>1 DEF vars, calls
<1>2. ASSUME NEW r \in Request, Open(r) \/ ServerStep(r) PROVE mode' = mode
  BY <1>2 DEF Open, ServerStep, calls, NotFound, Unauthorized, Execute, addJob, Emit, Finish,
      JobOver
<1>3. ASSUME NEW w \in Worker, WorkerStep(w) \/ Crash(w) PROVE mode' = mode
  BY <1>3 DEF WorkerStep, calls, TakeJob, EmitToChannel, EndJob, HandleAbort, Crash, LoseLock,
      EmitLost, EndLost
<1>4. CASE Delivery \/ abortChatMessage \/ abortTextToSpeech
  BY <1>4 DEF Delivery, calls, SubscriptionReady, handleEvent, abortChatMessage, abortTextToSpeech
<1> QED BY <1>1, <1>2, <1>3, <1>4 DEF Next

\* In main mode a request alone in its chat is the client whenever its flow emits, and
\* its events are appended one by one, the start event first.
LEMMA DirectNext == IInv /\ NoEventYet /\ WrittenDirectly /\ [Next]_vars => WrittenDirectly'
<1> SUFFICES ASSUME IInv, NoEventYet, WrittenDirectly, [Next]_vars PROVE WrittenDirectly'
  OBVIOUS
<1>0. CASE mode # "MAIN"
  BY <1>0, ModeKept DEF WrittenDirectly
<1> SUFFICES ASSUME mode = "MAIN" PROVE WrittenDirectly'
  BY <1>0
<1>a. /\ subscribed = "no" /\ mode # "QUEUE" /\ jobs = {}
      /\ \A w \in Worker : channel[w] = <<>> /\ running[w] = {} /\ lost[w] = {}
      /\ \A r \in Request : pc[r] # "waiting"
  BY DEF WrittenDirectly, IInv, ModesApart
<1>b. \A r, q \in Request : pc[r] = "new" /\ pc[q] \in {"checking", "running"} => r # q
  OBVIOUS
<1> USE DEF calls, server, queue, history, IInv, TypeOK, ServerTyped, BoundsKept, WrittenDirectly
<1>1. ASSUME NEW q \in Request, Open(q) PROVE WrittenDirectly'
  <2>1. /\ pc[q] = "new" /\ sent[q] = 0
        /\ pc' = [pc EXCEPT ![q] = "checking"]
        /\ UNCHANGED <<mode, streaming, channel, sent, stream, silenced>>
        /\ subscribed' = subscribed
        /\ streaming[q] => started' = FALSE
    BY <1>1, <1>a DEF Open, NoEventYet
  <2>2. ASSUME NEW r \in Request, r # q, r \in InProgress PROVE r \in overlapped'
    BY <1>1, <2>2 DEF Open
  <2>3. overlapped \subseteq overlapped'
    BY <1>1 DEF Open
  <2> QED BY <1>a, <2>1, <2>2, <2>3 DEF InProgress
<1>2. ASSUME NEW q \in InProgress,
             \A r \in Request \ {q} : pc'[r] = pc[r] /\ sent'[r] = sent[r],
             pc'[q] = "over", UNCHANGED <<calls, channel, subscribed, history>>
      PROVE  WrittenDirectly'
  BY <1>2, <1>a DEF OverlapsKnown, InProgress
<1>3. ASSUME NEW q \in Request, NotFound(q) PROVE WrittenDirectly'
  BY <1>2, <1>3 DEF NotFound, Answer, InProgress
<1>4. ASSUME NEW q \in Request, Unauthorized(q) PROVE WrittenDirectly'
  BY <1>2, <1>4 DEF Unauthorized, Answer, InProgress
<1>5. ASSUME NEW q \in Request, Finish(q) PROVE WrittenDirectly'
  BY <1>2, <1>5 DEF Finish, Answer, Forget, InProgress
<1>6. ASSUME NEW q \in Request, Execute(q) PROVE WrittenDirectly'
  BY <1>6, <1>a DEF Execute
<1>7. ASSUME NEW q \in Request, Emit(q) PROVE WrittenDirectly'
  <2> DEFINE e == [run |-> q, n |-> sent[q] + 1, by |-> None]
  <2>1. /\ pc[q] = "running" /\ UNCHANGED <<calls, pc, client, subscribed, channel>>
        /\ UNCHANGED <<overlapped, silenced>>
        /\ sent' = [sent EXCEPT ![q] = @ + 1] /\ Write(e) /\ e \in Event
    BY <1>7, NextEvent DEF Emit
  <2>2. e.n = sent[q] + 1 /\ sent[q] \in Nat
    BY BoundType
  <2>3. ASSUME NEW r \in Request, r # q, r \notin overlapped, pc[r] \in {"new", "checking", "running"}
        PROVE  pc[r] = "new" /\ sent'[r] = sent[r] /\ stream'[r] = stream[r]
    <3>1. pc[r] = "new"
      BY <2>1, <2>3 DEF OverlapsKnown, InProgress
    <3>2. client # r
      BY <3>1, PredictionAssumption DEF ClientInProgress, InProgress
    <3>3. stream'[r] = stream[r]
      BY <2>1, <3>2 DEF Write, ClientTyped, EventsTyped
    <3> QED BY <2>1, <2>3, <3>1, <3>3
  <2>4. ASSUME q \notin overlapped \cup silenced, streaming[q]
        PROVE  /\ stream'[q] = [i \in 1..sent'[q] |-> [run |-> q, n |-> i, by |-> None]]
               /\ started' /\ sent'[q] > 0
    <3>1. client = q /\ client # None
      BY <2>1, <2>4, PredictionAssumption DEF ClientInProgress, InProgress
    <3>a. started <=> sent[q] > 0
      BY <2>1, <2>4
    <3>b. IsStart(e) <=> sent[q] = 0
      BY <2>2 DEF IsStart
    <3>2. ~(IsStart(e) /\ started)
      BY <2>2, <3>a, <3>b
    <3>3. stream' = [stream EXCEPT ![q] = Append(@, e)] /\ started' = (started \/ IsStart(e))
      BY <2>1, <3>1, <3>2 DEF Write
    <3>c. sent[q] = 0 \/ sent[q] > 0
      BY <2>2
    <3>4. started'
      BY Zenon, <3>3, <3>a, <3>b, <3>c
    <3>5. stream[q] = [i \in 1..sent[q] |-> [run |-> q, n |-> i, by |-> None]]
      BY <2>1, <2>4
    <3>6. stream'[q] = Append(stream[q], e) /\ stream[q] \in Seq(Event)
      BY <3>3 DEF EventsTyped
    <3>7. Len(stream[q]) = sent[q]
      BY <2>2, <3>5, <3>6
    <3>8. /\ stream'[q] \in Seq(Event) /\ Len(stream'[q]) = sent[q] + 1
          /\ \A i \in 1..sent[q] : stream'[q][i] = stream[q][i]
          /\ stream'[q][sent[q] + 1] = e
      BY <2>1, <3>6, <3>7, AppendProperties
    <3>9. \A i \in 1..(sent[q] + 1) : stream'[q][i] = [run |-> q, n |-> i, by |-> None]
      BY <2>2, <3>5, <3>8
    <3>d. stream'[q] \in [1..(sent[q] + 1) -> Event]
      BY <3>8, LenProperties
    <3>10. stream'[q] = [i \in 1..(sent[q] + 1) |-> [run |-> q, n |-> i, by |-> None]]
      BY <3>8, <3>9, <3>d
    <3>11. sent'[q] = sent[q] + 1
      BY <2>1
    <3> QED BY <2>2, <3>4, <3>10, <3>11
  <2>5. ASSUME NEW r \in Request \ (overlapped' \cup silenced'), streaming'[r],
               pc'[r] \in {"new", "checking", "running"}
        PROVE  /\ stream'[r] = [i \in 1..sent'[r] |-> [run |-> r, n |-> i, by |-> None]]
               /\ pc'[r] # "new" => (started' <=> sent'[r] > 0)
    <3>1. CASE r = q
      BY <2>1, <2>4, <2>5, <3>1
    <3>2. CASE r # q
      BY <2>1, <2>3, <2>5, <3>2
    <3> QED BY <3>1, <3>2
  <2>6. (\A w \in Worker : channel'[w] = <<>>) /\ subscribed' = "no"
    BY <1>a, <2>1
  <2> QED BY <2>5, <2>6
<1>8. ASSUME abortTextToSpeech PROVE WrittenDirectly'
  <2>1. /\ UNCHANGED <<calls, pc, subscribed, channel, sent, stream, overlapped>>
        /\ silenced' = silenced \cup ({client} \ {None})
    BY <1>8 DEF abortTextToSpeech
  <2>2. \A r \in Request \ (overlapped \cup silenced') : streaming[r] => r \notin InProgress
    BY <2>1, PredictionAssumption DEF ClientInProgress
  <2> QED BY <1>a, <2>1, <2>2 DEF InProgress
<1>9. CASE UNCHANGED <<calls, pc, started, subscribed, channel, sent, stream, overlapped, silenced>>
  BY <1>9, <1>a
<1> QED
  BY <1>a, <1>1, <1>3, <1>4, <1>5, <1>6, <1>7, <1>8, <1>9
     DEF Next, ServerStep, WorkerStep, Delivery, vars, LoseLock, EmitLost, EndLost, addJob, JobOver, TakeJob, EmitToChannel,
         EndJob, Crash, HandleAbort, SubscriptionReady, handleEvent, abortChatMessage

LEMMA LabelledNext == IInv /\ Labelled /\ [Next]_vars => Labelled'
<1> SUFFICES ASSUME IInv, Labelled, [Next]_vars PROVE Labelled'
  OBVIOUS
<1> USE DEF calls, server, queue, history
<1>a. TypeOK
  BY DEF IInv
<1>1. ASSUME NEW w \in Worker, NEW e \in Event, e.by = w, Publish(w, e) PROVE Labelled'
  BY <1>a, <1>1, PublishAppends DEF Labelled
<1>2. ASSUME NEW w \in Worker, NEW r \in Request, EmitToChannel(w, r) PROVE Labelled'
  <2>1. PICK e \in Event : e = [run |-> r, n |-> sent[r] + 1, by |-> w] /\ Publish(w, e)
    BY <1>2, <1>a, NextEvent DEF EmitToChannel
  <2> QED BY <1>1, <2>1
<1>3. ASSUME NEW w \in Worker, NEW f \in lost[w], EmitLost(w, f) PROVE Labelled'
  <2>1. PICK e \in Event : e = [run |-> f.run, n |-> f.n + 1, by |-> w] /\ Publish(w, e)
    BY <1>3, <1>a, NextLost DEF EmitLost
  <2> QED BY <1>1, <2>1
<1>4. ASSUME NEW w \in Worker, handleEvent(w) PROVE Labelled'
  BY <1>a, <1>4, Delivered DEF Labelled
<1>5. ASSUME NEW w \in Worker, Crash(w) PROVE Labelled'
  BY <1>a, <1>5, ChannelCut DEF Labelled
<1>6. CASE UNCHANGED channel
  BY <1>6 DEF Labelled
<1> QED
  BY <1>2, <1>3, <1>4, <1>5, <1>6
     DEF Next, ServerStep, WorkerStep, Delivery, vars, LoseLock, EndLost, Open, NotFound,
         Unauthorized, Execute, addJob, Emit, Finish, JobOver, TakeJob, EndJob, HandleAbort,
         SubscriptionReady, abortChatMessage, abortTextToSpeech

\* A job once stalled stays so, and those that lose the chat for themselves do.
LEMMA HistoryGrows ==
    ASSUME TypeOK, [Next]_vars
    PROVE  overlapped \subseteq overlapped' /\ \A r \in Request : stalls'[r] = 0 => stalls[r] = 0
<1> USE DEF calls, server, queue, history, TypeOK, QueueTyped
<1>1. ASSUME NEW r \in Request, Open(r) \/ ServerStep(r)
      PROVE  overlapped \subseteq overlapped' /\ stalls' = stalls
  BY <1>1 DEF Open, ServerStep, NotFound, Unauthorized, Execute, addJob, Emit, Finish, JobOver
<1>2. ASSUME NEW w \in Worker, WorkerStep(w) \/ Crash(w)
      PROVE  overlapped \subseteq overlapped' /\ \A r \in Request : stalls'[r] = 0 => stalls[r] = 0
  <2>1. ASSUME NEW S, Stall(S) PROVE \A r \in Request : stalls'[r] = 0 => stalls[r] = 0
    BY <2>1 DEF Stall
  <2>2. ASSUME NEW r \in Request, LoseLock(w, r)
        PROVE  overlapped \subseteq overlapped' /\ \A q \in Request : stalls'[q] = 0 => stalls[q] = 0
    BY <2>1, <2>2 DEF LoseLock
  <2>3. CASE Crash(w)
    BY <2>1, <2>3 DEF Crash
  <2>4. CASE UNCHANGED <<overlapped, stalls>>
    BY <2>4
  <2> QED
    BY <1>2, <2>2, <2>3, <2>4
       DEF WorkerStep, TakeJob, EmitToChannel, EndJob, EmitLost, EndLost, HandleAbort
<1>3. CASE UNCHANGED vars \/ Delivery \/ abortChatMessage \/ abortTextToSpeech
  BY <1>3 DEF vars, Delivery, SubscriptionReady, handleEvent, abortChatMessage, abortTextToSpeech
<1> QED BY <1>1, <1>2, <1>3 DEF Next

\* No event is written to the stream of a request alone in its chat that the worker
\* of its own events sent for another run, or that is not later than what is there.
LEMMA OrderNext == IInv /\ StreamInv /\ [Next]_vars => StreamInOrder'
<1> SUFFICES ASSUME IInv, StreamInv, [Next]_vars PROVE StreamInOrder'
  OBVIOUS
<1>0. TypeOK /\ overlapped \subseteq overlapped' /\ \A r \in Request : stalls'[r] = 0 => stalls[r] = 0
  BY HistoryGrows DEF IInv
<1>1. CASE stream' = stream
  BY <1>0, <1>1 DEF StreamInv, StreamInOrder
<1>2. ASSUME NEW e \in Event, Write(e),
             client \in Request \ overlapped =>
                 \A i \in DOMAIN stream[client] : stream[client][i].run = client =>
                     /\ e.by = stream[client][i].by => e.run = client
                     /\ stalls[client] = 0 /\ e.run = client => stream[client][i].n < e.n
      PROVE  StreamInOrder'
  <2> SUFFICES ASSUME NEW r \in Request \ overlapped, NEW i \in DOMAIN stream'[r],
                      NEW j \in DOMAIN stream'[r], i < j, stream'[r][i].run = r
               PROVE  /\ stream'[r][j].by = stream'[r][i].by => stream'[r][j].run = r
                      /\ stalls[r] = 0 /\ stream'[r][j].run = r => stream'[r][i].n < stream'[r][j].n
    BY <1>0 DEF StreamInOrder
  <2>1. /\ DOMAIN stream[r] = 1..Len(stream[r]) /\ Len(stream[r]) \in Nat
        /\ \A k \in DOMAIN stream[r] : stream'[r][k] = stream[r][k]
        /\ \/ DOMAIN stream'[r] = DOMAIN stream[r]
           \/ /\ r = client
              /\ DOMAIN stream'[r] = 1..(Len(stream[r]) + 1)
              /\ stream'[r][Len(stream[r]) + 1] = e
    BY <1>0, <1>2, WriteAppends
  <2>2. CASE j \in DOMAIN stream[r]
    <3>1. i \in DOMAIN stream[r]
      BY <2>1, <2>2
    <3> QED BY <2>1, <2>2, <3>1 DEF StreamInv, StreamInOrder
  <2>3. CASE j \notin DOMAIN stream[r]
    <3>1. r = client /\ j = Len(stream[r]) + 1 /\ stream'[r][j] = e
      BY <2>1, <2>3
    <3>2. i \in DOMAIN stream[r]
      BY <2>1, <3>1
    <3> QED BY <1>2, <2>1, <3>1, <3>2
  <2> QED BY <2>2, <2>3
<1>3. ASSUME NEW q \in Request, Emit(q) PROVE StreamInOrder'
  <2> DEFINE e == [run |-> q, n |-> sent[q] + 1, by |-> None]
  <2>1. pc[q] = "running" /\ Write(e) /\ e \in Event /\ mode = "MAIN"
    BY <1>0, <1>3, NextEvent DEF Emit, IInv, ModesApart, TypeOK, ServerTyped
  <2>2. e.run = q /\ e.n = sent[q] + 1 /\ sent[q] \in Nat
    BY BoundType DEF IInv, TypeOK, BoundsKept
  <2>3. ASSUME client \in Request \ overlapped,
               NEW i \in DOMAIN stream[client], stream[client][i].run = client
        PROVE  e.run = client /\ stream[client][i].n < e.n
    <3>1. client \in InProgress /\ streaming[client] /\ response[client] = "open"
      BY <2>3, PredictionAssumption DEF IInv, ClientInProgress, NoWriteAfterEnd
    <3>2. client = q
      BY <2>1, <2>3, <3>1 DEF IInv, OverlapsKnown, InProgress
    <3>3. client \notin silenced
      BY <3>1, <2>3 DEF IInv, ClientInProgress
    <3>4. stream[q] = [k \in 1..sent[q] |-> [run |-> q, n |-> k, by |-> None]]
      BY <2>1, <2>3, <3>1, <3>2, <3>3 DEF StreamInv, WrittenDirectly
    <3>5. i \in 1..sent[q] /\ stream[q][i].n = i
      BY <2>3, <3>2, <3>4
    <3> QED BY <2>2, <3>2, <3>5
  <2> HIDE DEF e
  <2> QED BY <1>2, <2>1, <2>3
<1>4. ASSUME NEW w \in Worker, handleEvent(w), stream' # stream PROVE StreamInOrder'
  <2>1. PICK e \in Event : e = channel[w][1] /\ 1 \in DOMAIN channel[w] /\ Write(e)
    BY <1>0, <1>4, Delivered
  <2>2. mode = "QUEUE"
    BY <1>0, <1>4 DEF handleEvent, StreamInv, WrittenDirectly, TypeOK, ServerTyped
  <2>3. e.by = w
    BY <2>1 DEF StreamInv, Labelled
  <2>4. ASSUME client \in Request \ overlapped,
               NEW i \in DOMAIN stream[client], stream[client][i].run = client
        PROVE  /\ e.by = stream[client][i].by => e.run = client
               /\ stalls[client] = 0 /\ e.run = client => stream[client][i].n < e.n
    <3>1. client \in InProgress
      BY <2>4, PredictionAssumption DEF IInv, ClientInProgress
    <3>2. pc[client] = "waiting"
      BY <2>2, <2>4, <3>1 DEF InProgress, IInv, ModesApart, StreamInv, NoEventYet
    <3>3. Later(client, stream[client][i], e) /\ SameWorker(client, stream[client][i], e)
      BY <2>1, <2>4, <3>2 DEF StreamInv, ChannelFollowsRun
    <3> QED BY <2>4, <3>3 DEF Later, SameWorker
  <2> QED BY <1>2, <2>1, <2>4
<1> QED
  BY <1>1, <1>3, <1>4
     DEF Next, ServerStep, WorkerStep, Delivery, vars, LoseLock, EmitLost, EndLost, calls, server,
         queue, history, Open, NotFound, Unauthorized, Execute, addJob, Finish, JobOver, TakeJob,
         EmitToChannel, EndJob, Crash, HandleAbort, SubscriptionReady, abortChatMessage,
         abortTextToSpeech

\* A request is answered, or begins: whoever waits beside it is known to overlap.
LEMMA OthersOverlap ==
    ASSUME IInv, NEW q \in Request, NEW r \in Request, r # q, pc[r] = "waiting",
           q \in InProgress
    PROVE  r \in overlapped
BY DEF IInv, OverlapsKnown, InProgress

LEMMA ChannelNext == IInv /\ StreamInv /\ [Next]_vars => ChannelFollowsRun'
<1> SUFFICES ASSUME IInv, StreamInv, [Next]_vars PROVE ChannelFollowsRun'
  OBVIOUS
<1> USE DEF calls, server, queue, history
<1>a. TypeOK /\ pc \in [Request -> {"new", "checking", "running", "waiting", "over"}]
  BY DEF IInv, TypeOK, ServerTyped
<1>b. overlapped \subseteq overlapped' /\ \A r \in Request : stalls'[r] = 0 => stalls[r] = 0
  BY <1>a, HistoryGrows
\* Events stay in order when some are gone, and as far as those of whom they are.
<1>1. ASSUME \A w \in Worker : \A i \in DOMAIN channel'[w] :
                 i \in DOMAIN channel[w] /\ channel'[w][i] = channel[w][i],
             stream' = stream,
             \A r \in Request \ overlapped' : pc'[r] = "waiting" =>
                 /\ pc[r] = "waiting"
                 /\ stalls'[r] = 0 => \A w \in Worker : r \in running'[w] =>
                        r \in running[w] /\ sent'[r] = sent[r]
      PROVE  ChannelFollowsRun'
  BY <1>b, <1>1 DEF StreamInv, ChannelFollowsRun, Later, SameWorker, SentSoFar
<1>2. ASSUME \A r \in Request : pc'[r] = "waiting" => r \in overlapped' PROVE ChannelFollowsRun'
  BY <1>2 DEF ChannelFollowsRun
<1>3. ASSUME NEW q \in Request, q \in InProgress, pc' = [pc EXCEPT ![q] = "over"],
             overlapped' = overlapped
      PROVE  ChannelFollowsRun'
  <2>1. \A r \in Request : pc'[r] = "waiting" => r # q /\ pc[r] = "waiting"
    BY <1>3, <1>a
  <2> QED BY <1>2, <1>3, <2>1, OthersOverlap
<1>4. ASSUME NEW q \in Request, Open(q) PROVE ChannelFollowsRun'
  BY <1>2, <1>4, <1>a DEF Open, InProgress
<1>5. ASSUME NEW q \in Request, NotFound(q) \/ Unauthorized(q) \/ Finish(q) \/ JobOver(q)
      PROVE  ChannelFollowsRun'
  BY <1>3, <1>5 DEF NotFound, Unauthorized, Finish, JobOver, Answer, InProgress
<1>6. ASSUME NEW q \in Request, Execute(q) PROVE ChannelFollowsRun'
  BY <1>1, <1>6, <1>a DEF Execute
<1>7. ASSUME NEW q \in Request, Emit(q) PROVE ChannelFollowsRun'
  <2>1. \A r \in Request : pc'[r] # "waiting"
    BY <1>7 DEF Emit, IInv, ModesApart, TypeOK, ServerTyped
  <2> QED BY <1>2, <2>1
<1>8. ASSUME NEW q \in Request, addJob(q) PROVE ChannelFollowsRun'
  <2>1. /\ pc[q] = "checking" /\ pc' = [pc EXCEPT ![q] = "waiting"]
        /\ UNCHANGED <<channel, stream, overlapped>>
    BY <1>8 DEF addJob
  <2>2. \A r \in Request \ overlapped' : pc'[r] = "waiting" => r = q
    BY <1>a, <2>1, OthersOverlap DEF InProgress
  <2>3. /\ \A w \in Worker : \A i \in DOMAIN channel[w] : channel[w][i].run # q
        /\ \A i \in DOMAIN stream[q] : stream[q][i].run # q
    BY <2>1 DEF StreamInv, NoEventYet
  <2> QED BY <2>1, <2>2, <2>3 DEF ChannelFollowsRun, Later, SameWorker, SentSoFar
<1>9. ASSUME NEW w \in Worker, NEW q \in Request, TakeJob(w, q) PROVE ChannelFollowsRun'
  <2>1. /\ q \in jobs /\ running' = [running EXCEPT ![w] = @ \cup {q}]
        /\ UNCHANGED <<pc, channel, stream, overlapped, stalls, sent>>
    BY <1>9 DEF TakeJob
  <2>2. \A r \in Request \ {q}, v \in Worker : r \in running'[v] => r \in running[v]
    BY <2>1 DEF IInv, TypeOK, QueueTyped
  <2>3. stalls[q] = 0 =>
           /\ \A v \in Worker : \A i \in DOMAIN channel[v] : channel[v][i].run # q
           /\ \A i \in DOMAIN stream[q] : stream[q][i].run # q
    BY <2>1 DEF StreamInv, NoEventYet
  <2> QED BY <2>1, <2>2, <2>3 DEF StreamInv, ChannelFollowsRun, Later, SameWorker, SentSoFar
<1>10. ASSUME NEW w \in Worker, NEW q \in Request, EndJob(w, q) PROVE ChannelFollowsRun'
  <2>1. /\ q \in running[w] /\ running' = [running EXCEPT ![w] = @ \ {q}]
        /\ UNCHANGED <<pc, channel, stream>>
        /\ sent' = [sent EXCEPT ![q] = 0]
    BY <1>10 DEF EndJob, Forget
  <2>2. \A v \in Worker : q \notin running'[v] /\ running'[v] \subseteq running[v]
    BY <2>1 DEF IInv, TypeOK, QueueTyped, JobInOnePlace
  <2>3. \A r \in Request \ {q} : sent'[r] = sent[r]
    BY <2>1, <1>a DEF TypeOK, BoundsKept
  <2> QED BY <1>1, <2>1, <2>2, <2>3
<1>11. ASSUME NEW w \in Worker, NEW S \in SUBSET running[w], Stall(S), UNCHANGED <<pc, stream>>,
              running' = [running EXCEPT ![w] = @ \ S],
              \A v \in Worker : \A i \in DOMAIN channel'[v] :
                  i \in DOMAIN channel[v] /\ channel'[v][i] = channel[v][i]
       PROVE  ChannelFollowsRun'
  <2>1. /\ \A r \in S, v \in Worker : r \notin running'[v]
        /\ \A v \in Worker : running'[v] \subseteq running[v] /\ running[v] \subseteq Request
    BY <1>11 DEF IInv, TypeOK, QueueTyped, JobInOnePlace
  <2>2. \A r \in Request \ S : sent'[r] = sent[r]
    BY <1>11 DEF Stall
  <2> QED BY <1>1, <1>11, <2>1, <2>2
<1>12. ASSUME NEW w \in Worker, Crash(w) PROVE ChannelFollowsRun'
  <2>1. Stall(running[w]) /\ UNCHANGED <<pc, stream>> /\ running' = [running EXCEPT ![w] = {}]
    BY <1>12 DEF Crash
  <2>2. running' = [running EXCEPT ![w] = @ \ running[w]]
    BY <2>1
  <2>3. running[w] \in SUBSET running[w]
    OBVIOUS
  <2> QED BY <1>a, <1>11, <1>12, <2>1, <2>2, <2>3, ChannelCut
<1>13. ASSUME NEW w \in Worker, NEW q \in Request, LoseLock(w, q) PROVE ChannelFollowsRun'
  <2>1. /\ Stall({q}) /\ UNCHANGED <<pc, stream, channel>>
        /\ running' = [running EXCEPT ![w] = @ \ {q}]
        /\ {q} \in SUBSET running[w]
    BY <1>13 DEF LoseLock
  <2> QED BY <1>11, <2>1
<1>14. ASSUME NEW w \in Worker, NEW q \in Request, EmitToChannel(w, q) PROVE ChannelFollowsRun'
  <2>1. PICK e \in Event : e = [run |-> q, n |-> sent[q] + 1, by |-> w] /\ Publish(w, e)
    BY <1>14, <1>a, NextEvent DEF EmitToChannel
  <2>a. e.run = q /\ e.n = sent[q] + 1 /\ e.by = w
    BY <2>1
  <2>2. /\ q \in running[w] /\ sent' = [sent EXCEPT ![q] = @ + 1]
        /\ UNCHANGED <<pc, stream, overlapped, stalls, running>>
    BY <1>14 DEF EmitToChannel
  <2>3. sent[q] \in Nat /\ sent'[q] = sent[q] + 1
    BY <1>a, <2>2, BoundType DEF TypeOK, BoundsKept
  <2>4. /\ \A v \in Worker : \A i \in DOMAIN channel[v] :
              i \in DOMAIN channel'[v] /\ channel'[v][i] = channel[v][i]
        /\ \A v \in Worker : \A j \in DOMAIN channel'[v] :
              j \in DOMAIN channel[v] \/ (v = w /\ channel'[v][j] = e)
        /\ \A v \in Worker : \A i, j \in DOMAIN channel'[v] : i < j => i \in DOMAIN channel[v]
    BY <1>a, <2>1, PublishAppends
  <2>5. pc[q] = "waiting"
    BY <2>2 DEF IInv, JobInOnePlace
  <2>6. ASSUME NEW r \in Request \ overlapped, pc'[r] = "waiting" PROVE r = q
    BY <2>2, <2>5, <2>6, OthersOverlap DEF InProgress
  <2> DEFINE Sent1(f) == stalls[q] = 0 /\ f.run = q => f.by = w /\ f.n <= sent[q] + 1
  <2> SUFFICES ASSUME q \notin overlapped
               PROVE  /\ \A v \in Worker : \A i, j \in DOMAIN channel'[v] :
                            i < j => Later(q, channel'[v][i], channel'[v][j])
                      /\ \A u, v \in Worker : \A i \in DOMAIN channel'[u], j \in DOMAIN channel'[v] :
                            SameWorker(q, channel'[u][i], channel'[v][j])
                      /\ \A v \in Worker : \A i \in DOMAIN stream[q], j \in DOMAIN channel'[v] :
                            /\ Later(q, stream[q][i], channel'[v][j])
                            /\ SameWorker(q, stream[q][i], channel'[v][j])
                      /\ \A v \in Worker : \A i \in DOMAIN channel'[v] : Sent1(channel'[v][i])
                      /\ \A i \in DOMAIN stream[q] : Sent1(stream[q][i])
    <3>1. \A v \in Worker : q \in running[v] => v = w
      BY <2>2 DEF IInv, JobInOnePlace
    <3> QED BY <2>2, <2>3, <2>6, <3>1 DEF ChannelFollowsRun, Later, SameWorker, SentSoFar
  <2>7. /\ \A v \in Worker : \A i, j \in DOMAIN channel[v] :
              i < j => Later(q, channel[v][i], channel[v][j])
        /\ \A u, v \in Worker : \A i \in DOMAIN channel[u], j \in DOMAIN channel[v] :
              SameWorker(q, channel[u][i], channel[v][j])
        /\ \A v \in Worker : \A i \in DOMAIN stream[q], j \in DOMAIN channel[v] :
              Later(q, stream[q][i], channel[v][j]) /\ SameWorker(q, stream[q][i], channel[v][j])
        /\ \A v \in Worker : \A i \in DOMAIN channel[v] : SentSoFar(q, channel[v][i])
        /\ \A i \in DOMAIN stream[q] : SentSoFar(q, stream[q][i])
    BY <2>2, <2>5 DEF StreamInv, ChannelFollowsRun
  <2>8. /\ \A v \in Worker : \A i \in DOMAIN channel[v] : channel[v][i].n \in Nat
        /\ \A i \in DOMAIN stream[q] : stream[q][i].n \in Nat
    <3>1. \A x \in Event : x.n \in Nat
      BY PredictionAssumption DEF Event
    <3>2. channel \in [Worker -> Seq(Event)] /\ stream[q] \in Seq(Event)
      BY <1>a DEF TypeOK, EventsTyped
    <3>3. /\ \A v \in Worker : \A i \in DOMAIN channel[v] : channel[v][i] \in Event
          /\ \A i \in DOMAIN stream[q] : stream[q][i] \in Event
      BY <3>2
    <3> QED BY <3>1, <3>3
  \* What was sent before e, for a job that has not stalled, is its worker's and earlier.
  <2>9. ASSUME NEW f, SentSoFar(q, f), f.n \in Nat
        PROVE  Later(q, f, e) /\ SameWorker(q, f, e) /\ SameWorker(q, e, f) /\ Sent1(f)
    <3>1. stalls[q] = 0 /\ f.run = q => f.by = w /\ f.n <= sent[q]
      BY <2>2, <2>9 DEF SentSoFar
    <3> QED BY <2>a, <2>3, <2>9, <3>1 DEF Later, SameWorker
  <2>10. Sent1(e) /\ SameWorker(q, e, e)
    BY <2>a, <2>3 DEF SameWorker
  <2>11. ASSUME NEW v \in Worker, NEW i \in DOMAIN channel[v]
         PROVE  /\ Later(q, channel[v][i], e) /\ SameWorker(q, channel[v][i], e)
                /\ SameWorker(q, e, channel[v][i]) /\ Sent1(channel[v][i])
    BY <2>7, <2>8, <2>9, <2>11
  <2>12. ASSUME NEW i \in DOMAIN stream[q]
         PROVE  /\ Later(q, stream[q][i], e) /\ SameWorker(q, stream[q][i], e)
                /\ Sent1(stream[q][i])
    BY <2>7, <2>8, <2>9, <2>12
  <2> HIDE DEF Sent1
  <2>13. \A v \in Worker : \A i, j \in DOMAIN channel'[v] :
            i < j => Later(q, channel'[v][i], channel'[v][j])
    BY <2>4, <2>7, <2>11
  <2>14. \A u, v \in Worker : \A i \in DOMAIN channel'[u], j \in DOMAIN channel'[v] :
            SameWorker(q, channel'[u][i], channel'[v][j])
    BY <2>4, <2>7, <2>10, <2>11
  <2>15. \A v \in Worker : \A i \in DOMAIN stream[q], j \in DOMAIN channel'[v] :
            Later(q, stream[q][i], channel'[v][j]) /\ SameWorker(q, stream[q][i], channel'[v][j])
    BY <2>4, <2>7, <2>12
  <2>16. \A v \in Worker : \A i \in DOMAIN channel'[v] : Sent1(channel'[v][i])
    BY <2>4, <2>10, <2>11
  <2> QED BY <2>12, <2>13, <2>14, <2>15, <2>16
<1>15. ASSUME NEW w \in Worker, handleEvent(w) PROVE ChannelFollowsRun'
  <2>1. UNCHANGED <<pc, overlapped, stalls, running, sent>>
    BY <1>15 DEF handleEvent
  <2> DEFINE e == channel[w][1]
  <2>2. 1 \in DOMAIN channel[w] /\ e \in Event
    BY <1>a, <1>15, Delivered
  \* Whatever is on its way was so before, each behind e if e was its worker's.
  <2>3. \A v \in Worker : \A j \in DOMAIN channel'[v] :
           \E k \in DOMAIN channel[v] : /\ channel'[v][j] = channel[v][k]
                                        /\ v = w => k = j + 1 /\ 1 < k /\ j \in Nat
                                        /\ v # w => k = j
    <3> SUFFICES ASSUME NEW v \in Worker, NEW j \in DOMAIN channel'[v]
                 PROVE  \E k \in DOMAIN channel[v] : /\ channel'[v][j] = channel[v][k]
                                                     /\ v = w => k = j + 1 /\ 1 < k /\ j \in Nat
                                                     /\ v # w => k = j
      OBVIOUS
    <3> QED BY <1>a, <1>15, Delivered
  <2>4. ASSUME NEW r \in Request, NEW i \in DOMAIN stream'[r]
        PROVE  (i \in DOMAIN stream[r] /\ stream'[r][i] = stream[r][i]) \/ stream'[r][i] = e
    <3>1. CASE subscribed = "yes"
      BY <1>a, <1>15, <2>2, <2>4, <3>1, Delivered, Written
    <3>2. CASE subscribed # "yes"
      BY <1>a, <1>15, <2>4, <3>2, Delivered
    <3> QED BY <3>1, <3>2
  <2> SUFFICES ASSUME NEW r \in Request \ overlapped, pc[r] = "waiting"
               PROVE  /\ \A v \in Worker : \A i, j \in DOMAIN channel'[v] :
                            i < j => Later(r, channel'[v][i], channel'[v][j])
                      /\ \A u, v \in Worker : \A i \in DOMAIN channel'[u], j \in DOMAIN channel'[v] :
                            SameWorker(r, channel'[u][i], channel'[v][j])
                      /\ \A v \in Worker : \A i \in DOMAIN stream'[r], j \in DOMAIN channel'[v] :
                            /\ Later(r, stream'[r][i], channel'[v][j])
                            /\ SameWorker(r, stream'[r][i], channel'[v][j])
                      /\ \A v \in Worker : \A i \in DOMAIN channel'[v] : SentSoFar(r, channel'[v][i])
                      /\ \A i \in DOMAIN stream'[r] : SentSoFar(r, stream'[r][i])
    BY <2>1 DEF ChannelFollowsRun, Later, SameWorker, SentSoFar
  <2>5. /\ \A v \in Worker : \A i, j \in DOMAIN channel[v] :
              i < j => Later(r, channel[v][i], channel[v][j])
        /\ \A u, v \in Worker : \A i \in DOMAIN channel[u], j \in DOMAIN channel[v] :
              SameWorker(r, channel[u][i], channel[v][j])
        /\ \A v \in Worker : \A i \in DOMAIN stream[r], j \in DOMAIN channel[v] :
              Later(r, stream[r][i], channel[v][j]) /\ SameWorker(r, stream[r][i], channel[v][j])
        /\ \A v \in Worker : \A i \in DOMAIN channel[v] : SentSoFar(r, channel[v][i])
        /\ \A i \in DOMAIN stream[r] : SentSoFar(r, stream[r][i])
    BY DEF StreamInv, ChannelFollowsRun
  <2>6. ASSUME NEW v \in Worker, NEW i \in DOMAIN channel'[v], NEW j \in DOMAIN channel'[v], i < j
        PROVE  Later(r, channel'[v][i], channel'[v][j])
    <3>1. PICK k \in DOMAIN channel[v] : /\ channel'[v][i] = channel[v][k]
                                         /\ v = w => k = i + 1 /\ i \in Nat
                                         /\ v # w => k = i
      BY <2>3
    <3>2. PICK m \in DOMAIN channel[v] : /\ channel'[v][j] = channel[v][m]
                                         /\ v = w => m = j + 1 /\ j \in Nat
                                         /\ v # w => m = j
      BY <2>3
    <3>3. k < m
      BY <2>6, <3>1, <3>2
    <3> QED BY <2>5, <3>1, <3>2, <3>3
  <2>7. ASSUME NEW u \in Worker, NEW v \in Worker, NEW i \in DOMAIN channel'[u],
               NEW j \in DOMAIN channel'[v]
        PROVE  SameWorker(r, channel'[u][i], channel'[v][j])
    <3>1. PICK k \in DOMAIN channel[u] : channel'[u][i] = channel[u][k]
      BY <2>3
    <3>2. PICK m \in DOMAIN channel[v] : channel'[v][j] = channel[v][m]
      BY <2>3
    <3> QED BY <2>5, <3>1, <3>2
  \* The event delivered is before all others of its worker and may be any other's.
  <2>8. ASSUME NEW v \in Worker, NEW j \in DOMAIN channel'[v]
        PROVE  Later(r, e, channel'[v][j]) /\ SameWorker(r, e, channel'[v][j])
    <3>1. PICK k \in DOMAIN channel[v] : /\ channel'[v][j] = channel[v][k]
                                         /\ v = w => 1 < k
      BY <2>3
    <3>2. SameWorker(r, e, channel[v][k])
      BY <2>2, <2>5
    <3>3. CASE v = w
      BY <2>2, <2>5, <3>1, <3>2, <3>3
    <3>4. CASE v # w
      <4>1. e.by = w /\ channel[v][k].by = v
        BY <2>2 DEF StreamInv, Labelled
      <4> QED BY <3>1, <3>2, <3>4, <4>1 DEF Later
    <3> QED BY <3>3, <3>4
  <2>9. ASSUME NEW v \in Worker, NEW i \in DOMAIN stream'[r], NEW j \in DOMAIN channel'[v]
        PROVE  Later(r, stream'[r][i], channel'[v][j]) /\ SameWorker(r, stream'[r][i], channel'[v][j])
    <3>1. CASE i \in DOMAIN stream[r] /\ stream'[r][i] = stream[r][i]
      <4>1. PICK k \in DOMAIN channel[v] : channel'[v][j] = channel[v][k]
        BY <2>3
      <4> QED BY <2>5, <3>1, <4>1
    <3>2. CASE stream'[r][i] = e
      BY <2>8, <3>2
    <3> QED BY <2>4, <3>1, <3>2
  <2>10. ASSUME NEW v \in Worker, NEW i \in DOMAIN channel'[v] PROVE SentSoFar(r, channel'[v][i])
    <3>1. PICK k \in DOMAIN channel[v] : channel'[v][i] = channel[v][k]
      BY <2>3
    <3> QED BY <2>5, <3>1
  <2>11. ASSUME NEW i \in DOMAIN stream'[r] PROVE SentSoFar(r, stream'[r][i])
    BY <2>2, <2>4, <2>5
  <2> QED BY <2>6, <2>7, <2>9, <2>10, <2>11
\* An execution without its lock shares the chat with whoever is in progress.
<1>16. ASSUME NEW w \in Worker, NEW f \in lost[w], EmitLost(w, f) PROVE ChannelFollowsRun'
  <2>1. UNCHANGED <<pc, overlapped>>
    BY <1>16 DEF EmitLost
  <2> QED BY <1>2, <2>1 DEF IInv, OverlapsKnown, InProgress
<1>17. CASE UNCHANGED <<pc, running, channel, sent, stream>>
  BY <1>1, <1>17
<1> QED
  BY <1>4, <1>5, <1>6, <1>7, <1>8, <1>9, <1>10, <1>12, <1>13, <1>14, <1>15, <1>16, <1>17
     DEF Next, ServerStep, WorkerStep, Delivery, vars, EndLost, HandleAbort, SubscriptionReady,
         abortChatMessage, abortTextToSpeech

LEMMA StreamNext == IInv /\ StreamInv /\ [Next]_vars => StreamInv'
BY NoEventNext, DirectNext, LabelledNext, ChannelNext, OrderNext DEF StreamInv

\* The event stream of a request alone in its chat is that of its own run: whole
\* and in order when the server executes it; when a worker does, in order, and once
\* it has begun with nothing of other runs that the same worker published.
THEOREM StreamFollows == Spec => []StreamFollowsRun
<1>1. StreamInv => StreamFollowsRun
  BY DEF StreamInv, WrittenDirectly, StreamInOrder, StreamFollowsRun
<1>2. Init => IInv /\ StreamInv
  BY InvInit, StreamInit
<1>3. (IInv /\ StreamInv) /\ [Next]_vars => (IInv /\ StreamInv)'
  BY InvNext, StreamNext
<1> QED BY <1>1, <1>2, <1>3, PTL DEF Spec
=============================================================================
