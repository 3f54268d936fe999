-------------------------- MODULE AgentToolsProofs --------------------------
(* Approvals, rejections and tokens of an agent's tool calls, for any tools,  *)
(* requests and bounds.                                                       *)
EXTENDS AgentTools, TLAPS

LEMMA UserMessageTyped == UserMessage \in Message
BY ToolAssumption DEF UserMessage, Message, NoResponse

LEMMA AssistantTyped == ASSUME NEW b \in Response PROVE Assistant(b) \in Message
BY ToolAssumption DEF Assistant, Message, Response

LEMMA ToolMessageTyped ==
    ASSUME NEW b \in 0..MaxResponses, NEW j \in 0..MaxCalls PROVE ToolMessage(b, j) \in Message
BY DEF ToolMessage, Message

LEMMA NamesTyped ==
    ASSUME NEW names \in NonEmpty PROVE names \in Seq(Name) /\ Len(names) \in 1..MaxCalls
<1>1. PICK n \in 1..MaxCalls : names \in [1..n -> Name]
  BY DEF NonEmpty
<1>2. n \in Nat
  BY ToolAssumption
<1>3. names \in Seq(Name) /\ Len(names) = n
  BY <1>1, <1>2
<1> QED BY <1>3

LEMMA FinalTyped ==
    ASSUME NEW ms \in Seq(Message), ms # <<>>
    PROVE  Final(ms) \in Message /\ Final(ms).of \in 0..MaxResponses
<1>1. Len(ms) \in 1..Len(ms)
  OBVIOUS
<1>2. Final(ms) \in Message
  BY <1>1 DEF Final
<1> QED BY <1>2 DEF Message

\* The call a request is about to handle.
LEMMA CalledTyped ==
    ASSUME TypeOK, NEW r \in Request, Handles(r)
    PROVE  /\ response[r] \in Response /\ response[r] \in 1..responses
           /\ index[r] \in 1..Len(calls[response[r]])
           /\ index[r] \in 1..MaxCalls
           /\ <<response[r], index[r]>> \in Call
           /\ Called(r) \in Name
<1> USE ToolAssumption DEF TypeOK, ModelTyped, LocalTyped, StepsTyped, Handles, Response
<1>1. response[r] \in 1..responses /\ response[r] \in Response
  OBVIOUS
<1>2. Len(calls[response[r]]) \in Nat /\ Len(calls[response[r]]) <= MaxCalls /\ calls[response[r]] \in Seq(Name)
  BY <1>1
<1>3. index[r] \in 1..Len(calls[response[r]]) /\ index[r] \in 1..MaxCalls
  BY <1>2
<1> QED BY <1>1, <1>2, <1>3 DEF Call, Called

LEMMA RowNext == IInv /\ [Next]_vars => RowTyped'
<1> SUFFICES ASSUME IInv, [Next]_vars PROVE RowTyped'
  OBVIOUS
<1> USE ToolAssumption DEF row, model, control, request, local, tokens, history, IInv, TypeOK, StepsTyped, RowTyped, ControlTyped, LocalTyped
<1>1. ASSUME NEW r \in Request, Ask(r) PROVE RowTyped'
  BY <1>1 DEF Ask, Goes
<1>2. ASSUME NEW r \in Request, MarkInProgress(r) PROVE RowTyped'
  BY <1>2 DEF MarkInProgress, Goes
<1>3. ASSUME NEW r \in Request, Save(r) PROVE RowTyped'
  BY <1>3 DEF Save, Goes
<1>4. CASE UNCHANGED row
  BY <1>4
<1> QED
  BY <1>1, <1>2, <1>3, <1>4
     DEF Next, Execution, run, ToolCalls, vars, ReadExecution, Refuse, Crash, ModelAnswers,
         ModelCalls, ModelFails, Resume, ResumeWithoutCalls, SkipCall, AskApproval, RunTool,
         ToolFails, RejectCall, ReturnDirect, AskAgain

LEMMA ModelNext == IInv /\ [Next]_vars => ModelTyped'
<1> SUFFICES ASSUME IInv, [Next]_vars PROVE ModelTyped'
  OBVIOUS
<1> USE ToolAssumption DEF row, model, control, request, local, tokens, history, IInv, TypeOK, StepsTyped, ModelTyped
<1>1. ASSUME NEW r \in Request, NEW names \in NonEmpty, ModelCalls(r, names) PROVE ModelTyped'
  BY <1>1, NamesTyped DEF ModelCalls, Response
<1>2. CASE UNCHANGED model
  BY <1>2
<1> QED
  BY <1>1, <1>2
     DEF Next, Execution, run, ToolCalls, vars, Ask, ReadExecution, Refuse, MarkInProgress,
         Save, Crash, ModelAnswers, ModelFails, Resume, ResumeWithoutCalls, SkipCall,
         AskApproval, RunTool, ToolFails, RejectCall, ReturnDirect, AskAgain

LEMMA ControlNext == IInv /\ [Next]_vars => ControlTyped'
<1> SUFFICES ASSUME IInv, [Next]_vars PROVE ControlTyped'
  OBVIOUS
<1> USE ToolAssumption DEF row, model, control, request, local, tokens, history, IInv, TypeOK, StepsTyped, ControlTyped, RowTyped
<1>1. ASSUME NEW r \in Request, Ask(r) PROVE ControlTyped'
  BY <1>1 DEF Ask, Goes
<1>2. ASSUME NEW r \in Request, NEW a \in {"proceed", "reject"}, ReadExecution(r, a) PROVE ControlTyped'
  BY <1>2 DEF ReadExecution, Resumable, Goes
<1>3. ASSUME NEW r \in Request, Refuse(r) PROVE ControlTyped'
  BY <1>3 DEF Refuse, Goes
<1>4. ASSUME NEW r \in Request, MarkInProgress(r) PROVE ControlTyped'
  BY <1>4 DEF MarkInProgress, Goes
<1>5. ASSUME NEW r \in Request, Save(r) PROVE ControlTyped'
  BY <1>5 DEF Save, Goes
<1>6. ASSUME NEW r \in Request, Crash(r) PROVE ControlTyped'
  BY <1>6 DEF Crash
<1>7. ASSUME NEW r \in Request, ModelAnswers(r) PROVE ControlTyped'
  BY <1>7 DEF ModelAnswers, Ends, Counted
<1>8. ASSUME NEW r \in Request, NEW names \in NonEmpty, ModelCalls(r, names) PROVE ControlTyped'
  BY <1>8 DEF ModelCalls, Goes, Counted
<1>9. ASSUME NEW r \in Request, ModelFails(r) PROVE ControlTyped'
  BY <1>9 DEF ModelFails, Fails, Ends
<1>10. ASSUME NEW r \in Request, Resume(r) PROVE ControlTyped'
  BY <1>10 DEF Resume, Goes
<1>11. ASSUME NEW r \in Request, ResumeWithoutCalls(r) PROVE ControlTyped'
  BY <1>11 DEF ResumeWithoutCalls, Ends
<1>12. ASSUME NEW r \in Request, AskApproval(r) PROVE ControlTyped'
  BY <1>12 DEF AskApproval, Handles, Called, Ends
<1>13. ASSUME NEW r \in Request, ToolFails(r) PROVE ControlTyped'
  BY <1>13 DEF ToolFails, MayRun, Handles, Called, Runs, Fails, Ends
<1>14. ASSUME NEW r \in Request, ReturnDirect(r) PROVE ControlTyped'
  BY <1>14 DEF ReturnDirect, CallsHandled, Ends
<1>15. ASSUME NEW r \in Request, AskAgain(r) PROVE ControlTyped'
  BY <1>15 DEF AskAgain, CallsHandled
<1>16. CASE UNCHANGED <<pc, outcome, answer, checkpoint>>
  BY <1>16
<1> QED
  BY <1>1, <1>2, <1>3, <1>4, <1>5, <1>6, <1>7, <1>8, <1>9, <1>10, <1>11, <1>12, <1>13, <1>14,
      <1>15, <1>16
     DEF Next, Execution, run, ToolCalls, vars, SkipCall, RunTool, RejectCall

LEMMA LocalNext == IInv /\ [Next]_vars => LocalTyped'
<1> SUFFICES ASSUME IInv, [Next]_vars PROVE LocalTyped'
  OBVIOUS
<1> USE ToolAssumption DEF row, model, control, request, local, tokens, history, IInv, TypeOK, StepsTyped, LocalTyped, ModelTyped, ControlTyped, QuestionsKnown, CallsKnown, EndsWithResponse, NoResponse
<1>1. ASSUME NEW r \in Request, Ask(r) PROVE LocalTyped'
  BY <1>1, UserMessageTyped DEF Ask
<1>2. ASSUME NEW r \in Request, NEW names \in NonEmpty, ModelCalls(r, names) PROVE LocalTyped'
  <2>1. responses + 1 \in Response /\ Assistant(responses + 1) \in Message
    BY <1>2, AssistantTyped DEF ModelCalls
  <2>2. Append(messages[r], Assistant(responses + 1)) \in Seq(Message)
    BY <2>1
  <2>3. responses + 1 \in 0..MaxResponses
    BY <2>1 DEF Response
  <2> QED BY <1>2, <2>2, <2>3 DEF ModelCalls
<1>3. ASSUME NEW r \in Request, Resume(r) PROVE LocalTyped'
  BY <1>3, FinalTyped DEF Resume, Goes
<1>4. ASSUME NEW r \in Request, SkipCall(r) PROVE LocalTyped'
  <2>1. index[r] \in 1..MaxCalls
    BY <1>4, CalledTyped DEF SkipCall
  <2> QED BY <1>4, <2>1 DEF SkipCall, NextCall
<1>5. ASSUME NEW r \in Request, RunTool(r) PROVE LocalTyped'
  <2>1. index[r] \in 1..MaxCalls /\ response[r] \in 0..MaxResponses
    BY <1>5, CalledTyped DEF RunTool, MayRun
  <2>2. Append(messages[r], ToolMessage(response[r], index[r])) \in Seq(Message)
    BY <2>1, ToolMessageTyped
  <2> QED BY <1>5, <2>1, <2>2 DEF RunTool, NextCall
<1>6. ASSUME NEW r \in Request, RejectCall(r) PROVE LocalTyped'
  <2>1. index[r] \in 1..MaxCalls
    BY <1>6, CalledTyped DEF RejectCall
  <2>2. SubSeq(messages[r], 1, Len(messages[r]) - 1) \in Seq(Message)
    <3> DEFINE ms == messages[r]
    <3>1. ms \in Seq(Message) /\ Len(ms) \in Nat
      OBVIOUS
    <3>2. \A k \in 1..(Len(ms) - 1) : ms[k] \in Message
      BY <3>1
    <3> QED BY <3>1, <3>2
  <2>3. Remaining(r) \subseteq Tool
    BY DEF Remaining
  <2>4. messages' \in [Request -> Seq(Message)] /\ toolsInstance' \in [Request -> SUBSET Tool]
    BY <1>6, <2>2, <2>3 DEF RejectCall
  <2>5. index' \in [Request -> 1..(MaxCalls + 1)] /\ response' = response
    BY <1>6, <2>1 DEF RejectCall, NextCall
  <2> QED BY <2>4, <2>5
<1>7. CASE UNCHANGED local
  BY <1>7
<1> QED
  BY <1>1, <1>2, <1>3, <1>4, <1>5, <1>6, <1>7
     DEF Next, Execution, run, ToolCalls, vars, ReadExecution, Refuse, MarkInProgress, Save,
         Crash, ModelAnswers, ModelFails, ResumeWithoutCalls, AskApproval, ToolFails,
         ReturnDirect, AskAgain

\* A call that runs is counted.
LEMMA RunsTyped ==
    ASSUME TypeOK, NEW r \in Request, MayRun(r), Runs(r)
    PROVE  ran' \in [Request -> [Call -> Nat]]
<1>1. <<response[r], index[r]>> \in Call
  BY CalledTyped DEF MayRun
<1>2. ran \in [Request -> [Call -> Nat]]
  BY DEF TypeOK, HistoryTyped
<1>3. [ran[r] EXCEPT ![<<response[r], index[r]>>] = @ + 1] \in [Call -> Nat]
  BY <1>1, <1>2
<1> QED BY <1>2, <1>3 DEF Runs

LEMMA HistoryNext == IInv /\ [Next]_vars => HistoryTyped'
<1> SUFFICES ASSUME IInv, [Next]_vars PROVE HistoryTyped'
  OBVIOUS
<1> USE ToolAssumption DEF row, model, control, request, local, tokens, history, IInv, TypeOK, StepsTyped, HistoryTyped, ControlTyped
<1>1. ASSUME NEW r \in Request, ModelAnswers(r) PROVE HistoryTyped'
  BY <1>1 DEF ModelAnswers, Ends, Counted
<1>2. ASSUME NEW r \in Request, NEW names \in NonEmpty, ModelCalls(r, names) PROVE HistoryTyped'
  BY <1>2 DEF ModelCalls, Goes, Counted
<1>3. ASSUME NEW r \in Request, Resume(r) PROVE HistoryTyped'
  BY <1>3 DEF Resume, Goes
<1>4. ASSUME NEW r \in Request, SkipCall(r) PROVE HistoryTyped'
  BY <1>4, CalledTyped DEF SkipCall
<1>5. ASSUME NEW r \in Request, AskApproval(r) PROVE HistoryTyped'
  BY <1>5 DEF AskApproval, Handles, Called, Ends
<1>6. ASSUME NEW r \in Request, RunTool(r) PROVE HistoryTyped'
  <2>1. ran' \in [Request -> [Call -> Nat]]
    BY <1>6, RunsTyped DEF RunTool
  <2> QED BY <1>6, <2>1 DEF RunTool
<1>7. ASSUME NEW r \in Request, ToolFails(r) PROVE HistoryTyped'
  <2>1. ran' \in [Request -> [Call -> Nat]]
    BY <1>7, RunsTyped DEF ToolFails
  <2> QED BY <1>7, <2>1 DEF ToolFails
<1>8. ASSUME NEW r \in Request, RejectCall(r) PROVE HistoryTyped'
  BY <1>8 DEF RejectCall, Handles, Called, NextCall, Remaining
<1>9. CASE UNCHANGED <<tokens, history>>
  BY <1>9
<1> QED
  BY <1>1, <1>2, <1>3, <1>4, <1>5, <1>6, <1>7, <1>8, <1>9
     DEF Next, Execution, run, ToolCalls, vars, Ask, ReadExecution, Refuse, MarkInProgress,
         Save, Crash, ModelFails, ResumeWithoutCalls, ReturnDirect, AskAgain

LEMMA StepsNext == IInv /\ [Next]_vars => StepsTyped'
<1> SUFFICES ASSUME IInv, [Next]_vars PROVE StepsTyped'
  OBVIOUS
<1> USE ToolAssumption DEF row, model, control, request, local, tokens, history, IInv, TypeOK, ModelTyped, ControlTyped, LocalTyped, HistoryTyped, StepsTyped, QuestionsKnown, EndsWithResponse, CallsKnown
<1>1. ASSUME NEW r \in Request, Ask(r) PROVE StepsTyped'
  BY <1>1 DEF Ask, Goes
<1>2. ASSUME NEW r \in Request, NEW a \in {"proceed", "reject"}, ReadExecution(r, a) PROVE StepsTyped'
  BY <1>2 DEF ReadExecution, Resumable, Goes
<1>3. ASSUME NEW r \in Request, Refuse(r) PROVE StepsTyped'
  BY <1>3 DEF Refuse, Goes
<1>4. ASSUME NEW r \in Request, MarkInProgress(r) PROVE StepsTyped'
  <2>1. pc[r] \in {"mark", "markRetry"} /\ pc' = [pc EXCEPT ![r] = "resume"] /\ rowState' = "INPROGRESS"
    BY <1>4 DEF MarkInProgress, Goes
  <2>2. UNCHANGED <<response, responses, checkpoint, outcome>>
    BY <1>4 DEF MarkInProgress
  <2> QED BY <2>1, <2>2
<1>5. ASSUME NEW r \in Request, Save(r) PROVE StepsTyped'
  BY <1>5 DEF Save, Goes
<1>6. ASSUME NEW r \in Request, Crash(r) PROVE StepsTyped'
  BY <1>6 DEF Crash
<1>7. ASSUME NEW r \in Request, ModelAnswers(r) PROVE StepsTyped'
  BY <1>7 DEF ModelAnswers, Ends, Counted
<1>8. ASSUME NEW r \in Request, NEW names \in NonEmpty, ModelCalls(r, names) PROVE StepsTyped'
  <2>1. response' = [response EXCEPT ![r] = responses'] /\ responses' = responses + 1
    BY <1>8 DEF ModelCalls
  <2>2. pc' = [pc EXCEPT ![r] = "calls"] /\ UNCHANGED <<checkpoint, outcome, rowState, question>>
    BY <1>8 DEF ModelCalls, Goes
  <2>3. ASSUME NEW q \in Request, pc[q] \in {"calls", "resumedCalls"}
        PROVE  response[q] \in 1..responses'
    <3>1. response[q] \in 1..responses /\ responses \in Int
      BY <2>3
    <3> HIDE DEF IInv, TypeOK
    <3> QED BY <2>1, <3>1
  <2>4. responses' \in 1..responses'
    BY <2>1
  <2> QED BY <2>1, <2>2, <2>3, <2>4
<1>9. ASSUME NEW r \in Request, ModelFails(r) PROVE StepsTyped'
  BY <1>9 DEF ModelFails, Fails, Ends
<1>10. ASSUME NEW r \in Request, Resume(r) PROVE StepsTyped'
  BY <1>10 DEF Resume, Goes
<1>11. ASSUME NEW r \in Request, ResumeWithoutCalls(r) PROVE StepsTyped'
  BY <1>11 DEF ResumeWithoutCalls, Ends
<1>12. ASSUME NEW r \in Request, AskApproval(r) PROVE StepsTyped'
  BY <1>12 DEF AskApproval, Handles, Called, Ends
<1>13. ASSUME NEW r \in Request, ToolFails(r) PROVE StepsTyped'
  BY <1>13 DEF ToolFails, MayRun, Handles, Called, Runs, Fails, Ends
<1>14. ASSUME NEW r \in Request, ReturnDirect(r) PROVE StepsTyped'
  BY <1>14 DEF ReturnDirect, CallsHandled, Ends
<1>15. ASSUME NEW r \in Request, AskAgain(r) PROVE StepsTyped'
  BY <1>15 DEF AskAgain, CallsHandled
<1>16. CASE UNCHANGED <<pc, response, responses, checkpoint, outcome, rowState, question>>
  BY <1>16
<1> QED
  BY <1>1, <1>2, <1>3, <1>4, <1>5, <1>6, <1>7, <1>8, <1>9, <1>10, <1>11, <1>12, <1>13, <1>14,
      <1>15, <1>16
     DEF Next, Execution, run, ToolCalls, vars, SkipCall, RunTool, RejectCall


LEMMA TypeNext == IInv /\ [Next]_vars => TypeOK'
BY RowNext, ModelNext, ControlNext, LocalNext, HistoryNext, StepsNext DEF TypeOK


LEMMA FinalAppend ==
    ASSUME NEW ms \in Seq(Message), NEW m \in Message
    PROVE  Append(ms, m) # <<>> /\ Final(Append(ms, m)) = m
BY DEF Final

\* What a call that runs changes.
LEMMA RunsEffect ==
    ASSUME TypeOK, NEW r \in Request, Handles(r), Runs(r)
    PROVE  \A q \in Request, c \in Call :
               ran'[q][c] = IF q = r /\ c = <<response[r], index[r]>>
                            THEN ran[q][c] + 1 ELSE ran[q][c]
<1> DEFINE d == <<response[r], index[r]>>
<1>1. ran \in [Request -> [Call -> Nat]]
  BY DEF TypeOK, HistoryTyped
<1>2. d \in Call
  BY CalledTyped
<1>3. ran' = [ran EXCEPT ![r] = [ran[r] EXCEPT ![d] = ran[r][d] + 1]]
  BY DEF Runs
<1> HIDE DEF d
<1>4. \A q \in Request, c \in Call :
          ran'[q][c] = IF q = r /\ c = d THEN ran[q][c] + 1 ELSE ran[q][c]
  BY <1>1, <1>2, <1>3
<1> QED BY <1>4 DEF d

\* A new response does not disturb those before it.
LEMMA ModelCallsEffect ==
    ASSUME TypeOK, NEW r \in Request, NEW names \in NonEmpty, ModelCalls(r, names)
    PROVE  /\ responses' = responses + 1 /\ responses' \in Response
           /\ \A b \in 1..responses : calls'[b] = calls[b] /\ author'[b] = author[b]
           /\ \A b \in Response : b # responses' => author'[b] = author[b]
           /\ calls'[responses'] = names /\ author'[responses'] = {r}
<1> USE ToolAssumption DEF TypeOK, ModelTyped, Response
<1>1. responses' = responses + 1 /\ responses' \in Response /\ responses \in Nat
  BY DEF ModelCalls
<1>2. calls' = [calls EXCEPT ![responses'] = names]
  BY <1>1 DEF ModelCalls
<1>3. author' = [author EXCEPT ![responses'] = {r}]
  BY <1>1 DEF ModelCalls
<1>4. \A b \in 1..responses : b \in Response /\ b # responses'
  BY <1>1
<1> QED BY <1>1, <1>2, <1>3, <1>4

LEMMA OutcomesNext == IInv /\ [Next]_vars => OutcomesLast'
<1> SUFFICES ASSUME IInv, [Next]_vars PROVE OutcomesLast'
  OBVIOUS
<1>1. /\ pc \in [Request -> {"idle", "mark", "markRetry", "resume", "model", "calls", "resumedCalls", "save", "done"}]
      /\ outcome \in [Request -> {"none", "FINISHED", "STOPPED", "ERROR", "TERMINATED"}]
      /\ OutcomesLast
  BY DEF IInv, TypeOK, ControlTyped
<1>2. ASSUME NEW r \in Request, Ask(r) PROVE OutcomesLast'
  BY <1>1, <1>2 DEF Ask, Goes, row, model, control, request, local, tokens, history, OutcomesLast
<1>3. ASSUME NEW r \in Request, NEW a \in {"proceed", "reject"}, ReadExecution(r, a) PROVE OutcomesLast'
  BY <1>1, <1>3 DEF ReadExecution, Resumable, Goes, row, model, control, request, local, tokens,
      history, OutcomesLast
<1>4. ASSUME NEW r \in Request, Refuse(r) PROVE OutcomesLast'
  BY <1>1, <1>4 DEF Refuse, Goes, row, model, control, request, local, tokens, history, OutcomesLast
<1>5. ASSUME NEW r \in Request, MarkInProgress(r) PROVE OutcomesLast'
  BY <1>1, <1>5 DEF MarkInProgress, Goes, row, model, control, request, local, tokens, history,
      OutcomesLast
<1>6. ASSUME NEW r \in Request, Save(r) PROVE OutcomesLast'
  BY <1>1, <1>6 DEF Save, Goes, row, model, control, request, local, tokens, history, OutcomesLast
<1>7. ASSUME NEW r \in Request, Crash(r) PROVE OutcomesLast'
  BY <1>1, <1>7 DEF Crash, row, model, control, request, local, tokens, history, OutcomesLast
<1>8. ASSUME NEW r \in Request, ModelAnswers(r) PROVE OutcomesLast'
  BY <1>1, <1>8 DEF ModelAnswers, Ends, Counted, row, model, control, request, local, tokens,
      history, OutcomesLast
<1>9. ASSUME NEW r \in Request, NEW names \in NonEmpty, ModelCalls(r, names) PROVE OutcomesLast'
  BY <1>1, <1>9 DEF ModelCalls, Goes, Counted, row, model, control, request, local, tokens,
      history, OutcomesLast
<1>10. ASSUME NEW r \in Request, ModelFails(r) PROVE OutcomesLast'
  BY <1>1, <1>10 DEF ModelFails, Fails, Ends, row, model, control, request, local, tokens,
      history, OutcomesLast
<1>11. ASSUME NEW r \in Request, Resume(r) PROVE OutcomesLast'
  BY <1>1, <1>11 DEF Resume, Goes, row, model, control, request, local, tokens, history,
      OutcomesLast
<1>12. ASSUME NEW r \in Request, ResumeWithoutCalls(r) PROVE OutcomesLast'
  BY <1>1, <1>12 DEF ResumeWithoutCalls, Ends, row, model, control, request, local, tokens,
      history, OutcomesLast
<1>13. ASSUME NEW r \in Request, AskApproval(r) PROVE OutcomesLast'
  BY <1>1, <1>13 DEF AskApproval, Handles, Called, Ends, row, model, control, request, local,
      tokens, history, OutcomesLast
<1>14. ASSUME NEW r \in Request, ToolFails(r) PROVE OutcomesLast'
  BY <1>1, <1>14 DEF ToolFails, MayRun, Handles, Called, Runs, Fails, Ends, row, model, control,
      request, local, tokens, history, OutcomesLast
<1>15. ASSUME NEW r \in Request, ReturnDirect(r) PROVE OutcomesLast'
  BY <1>1, <1>15 DEF ReturnDirect, CallsHandled, Ends, row, model, control, request, local,
      tokens, history, OutcomesLast
<1>16. ASSUME NEW r \in Request, AskAgain(r) PROVE OutcomesLast'
  BY <1>1, <1>16 DEF AskAgain, CallsHandled, row, model, control, request, local, tokens,
      history, OutcomesLast
<1>17. CASE UNCHANGED <<pc, outcome>>
  BY <1>1, <1>17 DEF OutcomesLast
<1> QED
  BY <1>2, <1>3, <1>4, <1>5, <1>6, <1>7, <1>8, <1>9, <1>10, <1>11, <1>12, <1>13, <1>14, <1>15,
      <1>16, <1>17
     DEF Next, Execution, run, ToolCalls, vars, row, model, control, request, local, tokens,
         history, SkipCall, RunTool, RejectCall

LEMMA CallsKnownNext == IInv /\ [Next]_vars => CallsKnown'
<1> SUFFICES ASSUME IInv, [Next]_vars PROVE CallsKnown'
  OBVIOUS
<1>1. /\ pc \in [Request -> {"idle", "mark", "markRetry", "resume", "model", "calls", "resumedCalls", "save", "done"}]
      /\ answer \in [Request -> {"none", "proceed", "reject"}]
      /\ checkpoint \in [Request -> Seq(Message)]
      /\ response \in [Request -> 0..MaxResponses]
      /\ toolsInstance \in [Request -> SUBSET Tool]
      /\ responses \in Nat
      /\ \A r \in Request : pc[r] \in {"calls", "resumedCalls"} => response[r] \in 1..responses
      /\ CallsKnown
      /\ \A r \in Request : answer[r] # "none" => Final(checkpoint[r]).of \in 1..responses
      /\ author \in [Response -> SUBSET Request]
      /\ 1..responses \subseteq Response
      /\ rowState = "STOPPED" => question # <<>>
  BY ToolAssumption DEF IInv, TypeOK, ControlTyped, LocalTyped, ModelTyped, StepsTyped,
      CallsKnown, QuestionsKnown, EndsWithResponse, Response
<1>2. ASSUME NEW r \in Request, Ask(r) PROVE CallsKnown'
  BY <1>1, <1>2 DEF Ask, Goes, row, model, control, request, local, tokens, history, CallsKnown
<1>3. ASSUME NEW r \in Request, NEW a \in {"proceed", "reject"}, ReadExecution(r, a) PROVE CallsKnown'
  <2>1. question # <<>>
    BY <1>1, <1>3 DEF ReadExecution, Resumable
  <2>2. /\ answer' = [answer EXCEPT ![r] = a]
        /\ checkpoint' = [checkpoint EXCEPT ![r] = question]
        /\ UNCHANGED <<response, author, toolsInstance>>
    BY <1>3 DEF ReadExecution, row, model, control, request, local, tokens, history
  <2>3. CASE Goes(r, "idle", "mark")
    BY <1>1, <2>1, <2>2, <2>3 DEF Goes, CallsKnown
  <2>4. CASE Goes(r, "idle", "markRetry")
    BY <1>1, <2>1, <2>2, <2>4 DEF Goes, CallsKnown
  <2> QED BY <1>3, <2>3, <2>4 DEF ReadExecution
<1>4. ASSUME NEW r \in Request, Refuse(r) PROVE CallsKnown'
  BY <1>1, <1>4 DEF Refuse, Goes, row, model, control, request, local, tokens, history, CallsKnown
<1>5. ASSUME NEW r \in Request, MarkInProgress(r) PROVE CallsKnown'
  BY <1>1, <1>5 DEF MarkInProgress, Goes, row, model, control, request, local, tokens, history,
      CallsKnown
<1>6. ASSUME NEW r \in Request, Save(r) PROVE CallsKnown'
  BY <1>1, <1>6 DEF Save, Goes, row, model, control, request, local, tokens, history, CallsKnown
<1>7. ASSUME NEW r \in Request, Crash(r) PROVE CallsKnown'
  BY <1>1, <1>7 DEF Crash, row, model, control, request, local, tokens, history, CallsKnown
<1>8. ASSUME NEW r \in Request, ModelAnswers(r) PROVE CallsKnown'
  BY <1>1, <1>8 DEF ModelAnswers, Ends, Counted, row, model, control, request, local, tokens,
      history, CallsKnown
<1>9. ASSUME NEW r \in Request, NEW names \in NonEmpty, ModelCalls(r, names) PROVE CallsKnown'
  <2>1. /\ responses' = responses + 1 /\ responses' \in Response
        /\ \A b \in 1..responses : author'[b] = author[b]
        /\ author'[responses'] = {r}
    BY <1>9, ModelCallsEffect DEF IInv
  <2>2. /\ pc[r] = "model" /\ pc' = [pc EXCEPT ![r] = "calls"]
        /\ response' = [response EXCEPT ![r] = responses']
        /\ UNCHANGED <<answer, checkpoint, toolsInstance>>
    BY <1>9, <2>1 DEF ModelCalls, Goes, row, model, control, request, local, tokens, history
  <2>3. answer[r] # "none" => responses' # Final(checkpoint[r]).of
    BY <1>1, <2>1
  <2>4. \A q \in Request \ {r} : pc[q] = "calls" => author'[response[q]] = author[response[q]]
    BY <1>1, <2>1
  <2>5. ASSUME NEW q \in Request PROVE pc'[q] = "calls" => q \in author'[response'[q]]
    <3>1. CASE q = r
      BY <1>1, <2>1, <2>2, <3>1
    <3>2. CASE q # r
      BY <1>1, <2>2, <2>4, <3>2 DEF CallsKnown
    <3> QED BY <3>1, <3>2
  <2> QED BY <1>1, <2>1, <2>2, <2>3, <2>5 DEF CallsKnown
<1>10. ASSUME NEW r \in Request, ModelFails(r) PROVE CallsKnown'
  BY <1>1, <1>10 DEF ModelFails, Fails, Ends, row, model, control, request, local, tokens,
      history, CallsKnown
<1>11. ASSUME NEW r \in Request, Resume(r) PROVE CallsKnown'
  BY <1>1, <1>11 DEF Resume, Goes, row, model, control, request, local, tokens, history, CallsKnown
<1>12. ASSUME NEW r \in Request, ResumeWithoutCalls(r) PROVE CallsKnown'
  BY <1>1, <1>12 DEF ResumeWithoutCalls, Ends, row, model, control, request, local, tokens,
      history, CallsKnown
<1>13. ASSUME NEW r \in Request, SkipCall(r) PROVE CallsKnown'
  BY <1>1, <1>13 DEF SkipCall, Handles, NextCall, Called, row, model, control, request, local,
      tokens, history, CallsKnown
<1>14. ASSUME NEW r \in Request, AskApproval(r) PROVE CallsKnown'
  BY <1>1, <1>14 DEF AskApproval, Handles, Called, Ends, row, model, control, request, local,
      tokens, history, CallsKnown
<1>15. ASSUME NEW r \in Request, RunTool(r) PROVE CallsKnown'
  BY <1>1, <1>15 DEF RunTool, MayRun, Handles, Called, Runs, NextCall, row, model, control,
      request, local, tokens, history, CallsKnown
<1>16. ASSUME NEW r \in Request, ToolFails(r) PROVE CallsKnown'
  BY <1>1, <1>16 DEF ToolFails, MayRun, Handles, Called, Runs, Fails, Ends, row, model, control,
      request, local, tokens, history, CallsKnown
<1>17. ASSUME NEW r \in Request, RejectCall(r) PROVE CallsKnown'
  BY <1>1, <1>17 DEF RejectCall, Handles, Called, NextCall, Remaining, row, model, control,
      request, local, tokens, history, CallsKnown
<1>18. ASSUME NEW r \in Request, ReturnDirect(r) PROVE CallsKnown'
  BY <1>1, <1>18 DEF ReturnDirect, CallsHandled, Ends, row, model, control, request, local,
      tokens, history, CallsKnown
<1>19. ASSUME NEW r \in Request, AskAgain(r) PROVE CallsKnown'
  BY <1>1, <1>19 DEF AskAgain, CallsHandled, row, model, control, request, local, tokens,
      history, CallsKnown
<1>20. CASE UNCHANGED <<pc, answer, checkpoint, response, author, toolsInstance>>
  BY <1>1, <1>20 DEF CallsKnown
<1> QED
  BY <1>2, <1>3, <1>4, <1>5, <1>6, <1>7, <1>8, <1>9, <1>10, <1>11, <1>12, <1>13, <1>14, <1>15,
      <1>16, <1>17, <1>18, <1>19, <1>20
     DEF Next, Execution, run, ToolCalls, vars, row, model, control, request, local, tokens, history

LEMMA TokensNext == IInv /\ [Next]_vars => (TokensWithinTwice /\ TokensSoFar)'
<1> SUFFICES ASSUME IInv, [Next]_vars PROVE (TokensWithinTwice /\ TokensSoFar)'
  OBVIOUS
<1>1. /\ pc \in [Request -> {"idle", "mark", "markRetry", "resume", "model", "calls", "resumedCalls", "save", "done"}]
      /\ response \in [Request -> 0..MaxResponses]
      /\ toolsInstance \in [Request -> SUBSET Tool]
      /\ totalTokens \in [Request -> Nat]
      /\ used \in [Request -> Nat]
      /\ responses \in Nat
      /\ \A r \in Request : pc[r] \in {"calls", "resumedCalls"} => response[r] \in 1..responses
      /\ TokensWithinTwice
      /\ TokensSoFar
      /\ \A r \in Request : pc[r] \in {"idle", "mark", "markRetry", "resume"} => response[r] = NoResponse
  BY ToolAssumption DEF IInv, TypeOK, ControlTyped, LocalTyped, HistoryTyped, ModelTyped,
      StepsTyped, CallsKnown
<1>2. ASSUME NEW r \in Request, Ask(r) PROVE (TokensWithinTwice /\ TokensSoFar)'
  BY <1>1, <1>2 DEF Ask, Goes, row, model, control, request, local, tokens, history,
      TokensWithinTwice, TokensSoFar, NoResponse
<1>3. ASSUME NEW r \in Request, NEW a \in {"proceed", "reject"}, ReadExecution(r, a) PROVE (TokensWithinTwice /\ TokensSoFar)'
  BY <1>1, <1>3 DEF ReadExecution, Resumable, Goes, row, model, control, request, local, tokens,
      history, TokensWithinTwice, TokensSoFar, NoResponse
<1>4. ASSUME NEW r \in Request, Refuse(r) PROVE (TokensWithinTwice /\ TokensSoFar)'
  BY <1>1, <1>4 DEF Refuse, Goes, row, model, control, request, local, tokens, history,
      TokensWithinTwice, TokensSoFar, NoResponse
<1>5. ASSUME NEW r \in Request, MarkInProgress(r) PROVE (TokensWithinTwice /\ TokensSoFar)'
  BY <1>1, <1>5 DEF MarkInProgress, Goes, row, model, control, request, local, tokens, history,
      TokensWithinTwice, TokensSoFar, NoResponse
<1>6. ASSUME NEW r \in Request, Save(r) PROVE (TokensWithinTwice /\ TokensSoFar)'
  BY <1>1, <1>6 DEF Save, Goes, row, model, control, request, local, tokens, history,
      TokensWithinTwice, TokensSoFar, NoResponse
<1>7. ASSUME NEW r \in Request, Crash(r) PROVE (TokensWithinTwice /\ TokensSoFar)'
  BY <1>1, <1>7 DEF Crash, row, model, control, request, local, tokens, history,
      TokensWithinTwice, TokensSoFar, NoResponse
<1>8. ASSUME NEW r \in Request, ModelAnswers(r) PROVE (TokensWithinTwice /\ TokensSoFar)'
  <2>1. /\ totalTokens' = [totalTokens EXCEPT ![r] = totalTokens[r] + Counted(r)]
        /\ used' = [used EXCEPT ![r] = used[r] + 1]
        /\ UNCHANGED response
    BY <1>8 DEF ModelAnswers, row, model, control, request, local, tokens, history
  <2>2. pc[r] = "model" /\ pc' = [pc EXCEPT ![r] = "save"]
    BY <1>8 DEF ModelAnswers, Ends
  <2>3. /\ used[r] + 1 <= totalTokens[r] + Counted(r)
        /\ totalTokens[r] + Counted(r) <= 2 * (used[r] + 1)
        /\ Counted(r) \in Nat
    BY <1>1, <2>2 DEF Counted, TokensWithinTwice, TokensSoFar, NoResponse
  <2> QED BY <1>1, <2>1, <2>2, <2>3 DEF TokensWithinTwice, TokensSoFar, NoResponse
<1>9. ASSUME NEW r \in Request, NEW names \in NonEmpty, ModelCalls(r, names) PROVE (TokensWithinTwice /\ TokensSoFar)'
  <2>1. /\ totalTokens' = [totalTokens EXCEPT ![r] = totalTokens[r] + Counted(r)]
        /\ used' = [used EXCEPT ![r] = used[r] + 1]
        /\ response' = [response EXCEPT ![r] = responses + 1]
    BY <1>9 DEF ModelCalls
  <2>2. pc[r] = "model" /\ pc' = [pc EXCEPT ![r] = "calls"]
    BY <1>9 DEF ModelCalls, Goes
  <2>3. /\ used[r] + 1 <= totalTokens[r] + Counted(r)
        /\ totalTokens[r] + Counted(r) <= 2 * (used[r] + 1) - 1
        /\ Counted(r) \in Nat
    BY <1>1, <2>2 DEF Counted, TokensWithinTwice, TokensSoFar, NoResponse
  <2> QED BY <1>1, <2>1, <2>2, <2>3 DEF TokensWithinTwice, TokensSoFar, NoResponse
<1>10. ASSUME NEW r \in Request, ModelFails(r) PROVE (TokensWithinTwice /\ TokensSoFar)'
  BY <1>1, <1>10 DEF ModelFails, Fails, Ends, row, model, control, request, local, tokens,
      history, TokensWithinTwice, TokensSoFar, NoResponse
<1>11. ASSUME NEW r \in Request, Resume(r) PROVE (TokensWithinTwice /\ TokensSoFar)'
  BY <1>1, <1>11 DEF Resume, Goes, row, model, control, request, local, tokens, history,
      TokensWithinTwice, TokensSoFar, NoResponse
<1>12. ASSUME NEW r \in Request, ResumeWithoutCalls(r) PROVE (TokensWithinTwice /\ TokensSoFar)'
  BY <1>1, <1>12 DEF ResumeWithoutCalls, Ends, row, model, control, request, local, tokens,
      history, TokensWithinTwice, TokensSoFar, NoResponse
<1>13. ASSUME NEW r \in Request, AskApproval(r) PROVE (TokensWithinTwice /\ TokensSoFar)'
  <2>1. /\ totalTokens' = [totalTokens EXCEPT ![r] = totalTokens[r] + 1]
        /\ UNCHANGED <<used, response>>
    BY <1>13 DEF AskApproval, row, model, control, request, local, tokens, history
  <2>2. pc[r] = "calls" /\ pc' = [pc EXCEPT ![r] = "save"]
    BY <1>13 DEF AskApproval, Ends
  <2>3. response[r] \in 1..responses
    BY <1>1, <2>2
  <2>4. totalTokens[r] + 1 <= 2 * used[r] /\ used[r] <= totalTokens[r] + 1
    BY <1>1, <2>2, <2>3 DEF TokensWithinTwice, TokensSoFar, NoResponse
  <2> QED BY <1>1, <2>1, <2>2, <2>4 DEF TokensWithinTwice, TokensSoFar, NoResponse
<1>14. ASSUME NEW r \in Request, ToolFails(r) PROVE (TokensWithinTwice /\ TokensSoFar)'
  <2>1. pc' = [pc EXCEPT ![r] = "save"] /\ UNCHANGED <<totalTokens, used, response>>
    BY <1>14 DEF ToolFails, Fails, Ends, row, model, control, request, local, tokens, history
  <2> QED BY <1>1, <2>1 DEF TokensWithinTwice, TokensSoFar, NoResponse
<1>15. ASSUME NEW r \in Request, ReturnDirect(r) PROVE (TokensWithinTwice /\ TokensSoFar)'
  BY <1>1, <1>15 DEF ReturnDirect, CallsHandled, Ends, row, model, control, request, local,
      tokens, history, TokensWithinTwice, TokensSoFar, NoResponse
<1>16. ASSUME NEW r \in Request, AskAgain(r) PROVE (TokensWithinTwice /\ TokensSoFar)'
  <2>1. pc[r] \in {"calls", "resumedCalls"} /\ pc' = [pc EXCEPT ![r] = "model"]
    BY <1>16 DEF AskAgain, CallsHandled
  <2>2. UNCHANGED <<totalTokens, used, response>>
    BY <1>16 DEF AskAgain, row, model, control, request, local, tokens, history
  <2>3. response[r] # 0
    BY <1>1, <2>1
  <2> QED BY <1>1, <2>1, <2>2, <2>3 DEF TokensWithinTwice, TokensSoFar, NoResponse
<1>17. CASE UNCHANGED <<pc, response, totalTokens, used>>
  BY <1>1, <1>17 DEF TokensWithinTwice, TokensSoFar, NoResponse
<1> QED
  BY <1>2, <1>3, <1>4, <1>5, <1>6, <1>7, <1>8, <1>9, <1>10, <1>11, <1>12, <1>13, <1>14, <1>15,
      <1>16, <1>17
     DEF Next, Execution, run, ToolCalls, vars, row, model, control, request, local, tokens,
         history, SkipCall, RunTool, RejectCall

LEMMA RunsAheadNext == IInv /\ [Next]_vars => RunsAhead'
<1> SUFFICES ASSUME IInv, [Next]_vars PROVE RunsAhead'
  OBVIOUS
<1>1. /\ pc \in [Request -> {"idle", "mark", "markRetry", "resume", "model", "calls", "resumedCalls", "save", "done"}]
      /\ index \in [Request -> 1..(MaxCalls + 1)]
      /\ response \in [Request -> 0..MaxResponses]
      /\ MaxCalls \in Nat
      /\ responses \in Nat
      /\ Response \subseteq Nat /\ \A b \in Response : b >= 1
      /\ \A r \in Request : pc[r] \in {"calls", "resumedCalls"} => response[r] \in 1..responses
      /\ \A c \in Call : c[1] \in Response /\ c[2] \in 1..MaxCalls
      /\ \A b \in Response : b > responses => author[b] = {}
      /\ \A q \in Request, c \in Call : ran[q][c] > 0 =>
             /\ pc[q] \notin {"idle", "mark", "markRetry", "resume"}
             /\ c[1] \in 1..responses /\ c[2] <= Len(calls[c[1]])
             /\ pc[q] \in {"calls", "resumedCalls"} /\ c[1] = response[q] => c[2] < index[q]
      /\ \A r \in Request : pc[r] \in {"idle", "mark", "markRetry", "resume"} => response[r] = NoResponse
  BY ToolAssumption DEF IInv, TypeOK, ControlTyped, LocalTyped, ModelTyped, Response,
      StepsTyped, Call, RunsAhead, CallsKnown
<1>2. ASSUME NEW r \in Request, Ask(r) PROVE RunsAhead'
  BY <1>1, <1>2 DEF Ask, Goes, row, model, control, request, local, tokens, history, RunsAhead
<1>3. ASSUME NEW r \in Request, NEW a \in {"proceed", "reject"}, ReadExecution(r, a) PROVE RunsAhead'
  <2>1. pc[r] = "idle" /\ \E p \in {"mark", "markRetry"} : pc' = [pc EXCEPT ![r] = p]
    BY <1>3 DEF ReadExecution, Goes
  <2>2. UNCHANGED <<response, responses, calls, author, ran, index>>
    BY <1>3 DEF ReadExecution, row, model, control, request, local, tokens, history
  <2> QED BY <1>1, <2>1, <2>2 DEF RunsAhead
<1>4. ASSUME NEW r \in Request, Refuse(r) PROVE RunsAhead'
  BY <1>1, <1>4 DEF Refuse, Goes, row, model, control, request, local, tokens, history, RunsAhead
<1>5. ASSUME NEW r \in Request, MarkInProgress(r) PROVE RunsAhead'
  <2>1. pc[r] \in {"mark", "markRetry"} /\ pc' = [pc EXCEPT ![r] = "resume"]
    BY <1>5 DEF MarkInProgress, Goes
  <2>2. UNCHANGED <<response, responses, calls, author, ran, index>>
    BY <1>5 DEF MarkInProgress, row, model, control, request, local, tokens, history
  <2> QED BY <1>1, <2>1, <2>2 DEF RunsAhead
<1>6. ASSUME NEW r \in Request, Save(r) PROVE RunsAhead'
  BY <1>1, <1>6 DEF Save, Goes, row, model, control, request, local, tokens, history, RunsAhead
<1>7. ASSUME NEW r \in Request, Crash(r) PROVE RunsAhead'
  BY <1>1, <1>7 DEF Crash, row, model, control, request, local, tokens, history, RunsAhead
<1>8. ASSUME NEW r \in Request, ModelAnswers(r) PROVE RunsAhead'
  BY <1>1, <1>8 DEF ModelAnswers, Ends, Counted, row, model, control, request, local, tokens,
      history, RunsAhead
<1>9. ASSUME NEW r \in Request, NEW names \in NonEmpty, ModelCalls(r, names) PROVE RunsAhead'
  <2>1. /\ responses' = responses + 1 /\ responses' \in Response
        /\ \A b \in 1..responses : calls'[b] = calls[b]
        /\ \A b \in Response : b # responses' => author'[b] = author[b]
    BY <1>9, ModelCallsEffect DEF IInv
  <2>2. /\ pc[r] = "model" /\ pc' = [pc EXCEPT ![r] = "calls"]
        /\ response' = [response EXCEPT ![r] = responses']
        /\ index' = [index EXCEPT ![r] = 1]
        /\ UNCHANGED ran
    BY <1>9, <2>1 DEF ModelCalls, Goes, row, model, control, request, local, tokens, history
  <2>3. \A b \in Response : b > responses' => author'[b] = {}
    BY <1>1, <2>1
  <2>4. ASSUME NEW q \in Request, NEW c \in Call, ran[q][c] > 0
        PROVE  /\ c[1] <= responses' /\ c[2] <= Len(calls'[c[1]])
               /\ pc'[q] \notin {"idle", "mark", "markRetry", "resume"}
               /\ pc'[q] \in {"calls", "resumedCalls"} /\ c[1] = response'[q] => c[2] < index'[q]
    <3>1. c[1] \in 1..responses /\ c[1] # responses'
      BY <1>1, <2>1, <2>4
    <3>2. c[2] <= Len(calls'[c[1]])
      BY <1>1, <2>1, <2>4, <3>1
    <3>3. CASE q = r
      BY <1>1, <2>1, <2>2, <3>1, <3>2, <3>3
    <3>4. CASE q # r
      BY <1>1, <2>1, <2>2, <2>4, <3>1, <3>2, <3>4
    <3> QED BY <3>3, <3>4
  <2> QED BY <2>2, <2>3, <2>4 DEF RunsAhead
<1>10. ASSUME NEW r \in Request, ModelFails(r) PROVE RunsAhead'
  BY <1>1, <1>10 DEF ModelFails, Fails, Ends, row, model, control, request, local, tokens,
      history, RunsAhead
<1>11. ASSUME NEW r \in Request, Resume(r) PROVE RunsAhead'
  BY <1>1, <1>11 DEF Resume, Goes, row, model, control, request, local, tokens, history, RunsAhead
<1>12. ASSUME NEW r \in Request, ResumeWithoutCalls(r) PROVE RunsAhead'
  BY <1>1, <1>12 DEF ResumeWithoutCalls, Ends, row, model, control, request, local, tokens,
      history, RunsAhead
<1>13. ASSUME NEW r \in Request, SkipCall(r) PROVE RunsAhead'
  <2>1. index' = [index EXCEPT ![r] = index[r] + 1]
    BY <1>13 DEF SkipCall, NextCall
  <2>2. UNCHANGED <<pc, response, responses, calls, author, ran>>
    BY <1>13 DEF SkipCall, row, model, control, request, local, tokens, history
  <2> QED BY <1>1, <2>1, <2>2 DEF RunsAhead
<1>14. ASSUME NEW r \in Request, AskApproval(r) PROVE RunsAhead'
  BY <1>1, <1>14 DEF AskApproval, Handles, Called, Ends, row, model, control, request, local,
      tokens, history, RunsAhead
<1>15. ASSUME NEW r \in Request, RunTool(r) PROVE RunsAhead'
  <2>1. /\ response[r] \in 1..responses /\ index[r] <= Len(calls[response[r]])
        /\ pc[r] \in {"calls", "resumedCalls"}
    BY <1>15, CalledTyped DEF RunTool, MayRun, Handles, IInv
  <2>2. /\ index' = [index EXCEPT ![r] = index[r] + 1]
        /\ UNCHANGED <<pc, response, responses, calls, author>>
    BY <1>15 DEF RunTool, NextCall, row, model, control, request, local, tokens, history
  <2>3. \A q \in Request, c \in Call :
            ran'[q][c] > 0 => ran[q][c] > 0 \/ (q = r /\ c[1] = response[r] /\ c[2] = index[r])
    BY <1>15, RunsEffect DEF RunTool, MayRun, IInv
  <2> QED BY <1>1, <2>1, <2>2, <2>3 DEF RunsAhead
<1>16. ASSUME NEW r \in Request, ToolFails(r) PROVE RunsAhead'
  <2>1. /\ response[r] \in 1..responses /\ index[r] <= Len(calls[response[r]])
        /\ pc' = [pc EXCEPT ![r] = "save"]
    BY <1>16, CalledTyped DEF ToolFails, MayRun, Handles, Fails, Ends, IInv
  <2>2. UNCHANGED <<response, responses, calls, author, index>>
    BY <1>16 DEF ToolFails, row, model, control, request, local, tokens, history
  <2>3. \A q \in Request, c \in Call :
            ran'[q][c] > 0 => ran[q][c] > 0 \/ (q = r /\ c[1] = response[r] /\ c[2] = index[r])
    BY <1>16, RunsEffect DEF ToolFails, MayRun, IInv
  <2> QED BY <1>1, <2>1, <2>2, <2>3 DEF RunsAhead
<1>17. ASSUME NEW r \in Request, RejectCall(r) PROVE RunsAhead'
  <2>1. index' = [index EXCEPT ![r] = index[r] + 1]
    BY <1>17 DEF RejectCall, NextCall
  <2>2. UNCHANGED <<pc, response, responses, calls, author, ran>>
    BY <1>17 DEF RejectCall, row, model, control, request, local, tokens, history
  <2> QED BY <1>1, <2>1, <2>2 DEF RunsAhead
<1>18. ASSUME NEW r \in Request, ReturnDirect(r) PROVE RunsAhead'
  BY <1>1, <1>18 DEF ReturnDirect, CallsHandled, Ends, row, model, control, request, local,
      tokens, history, RunsAhead
<1>19. ASSUME NEW r \in Request, AskAgain(r) PROVE RunsAhead'
  BY <1>1, <1>19 DEF AskAgain, CallsHandled, row, model, control, request, local, tokens,
      history, RunsAhead
<1>20. CASE UNCHANGED <<pc, response, responses, calls, author, ran, index>>
  BY <1>1, <1>20 DEF RunsAhead
<1> QED
  BY <1>2, <1>3, <1>4, <1>5, <1>6, <1>7, <1>8, <1>9, <1>10, <1>11, <1>12, <1>13, <1>14, <1>15,
      <1>16, <1>17, <1>18, <1>19, <1>20
     DEF Next, Execution, run, ToolCalls, vars, row, model, control, request, local, tokens, history

LEMMA ApprovedNext == IInv /\ [Next]_vars => CallsRunAsApproved'
<1> SUFFICES ASSUME IInv, [Next]_vars PROVE CallsRunAsApproved'
  OBVIOUS
<1>1. /\ ran \in [Request -> [Call -> Nat]]
      /\ answer \in [Request -> {"none", "proceed", "reject"}]
      /\ checkpoint \in [Request -> Seq(Message)]
      /\ \A r \in Request : index[r] \in Int
  BY ToolAssumption DEF IInv, TypeOK, HistoryTyped, ControlTyped, LocalTyped
<1>2. /\ \A q \in Request, c \in Call : ran[q][c] > 0 => pc[q] # "idle" /\ c[1] \in 1..responses
      /\ \A q \in Request, c \in Call : ran[q][c] > 0 => (pc[q] \in {"calls", "resumedCalls"} /\ c[1] = response[q] => c[2] < index[q])
      /\ CallsRunAsApproved
      /\ CallsKnown
  BY ToolAssumption DEF IInv, RunsAhead, Call, Response
<1>3. ASSUME NEW r \in Request, NEW a \in {"proceed", "reject"}, ReadExecution(r, a) PROVE CallsRunAsApproved'
  <2>1. pc[r] = "idle" /\ UNCHANGED <<ran, calls, author>>
    BY <1>3 DEF ReadExecution, Goes, row, model, control, request, local, tokens, history
  <2>2. /\ answer' = [answer EXCEPT ![r] = a]
        /\ checkpoint' = [checkpoint EXCEPT ![r] = question]
    BY <1>3 DEF ReadExecution
  <2> QED BY <1>1, <1>2, <2>1, <2>2 DEF CallsRunAsApproved, Approves
<1>4. ASSUME NEW r \in Request, NEW names \in NonEmpty, ModelCalls(r, names) PROVE CallsRunAsApproved'
  <2>1. \A b \in 1..responses : calls'[b] = calls[b] /\ author'[b] = author[b]
    BY <1>4, ModelCallsEffect DEF IInv
  <2>2. UNCHANGED <<ran, answer, checkpoint>>
    BY <1>4 DEF ModelCalls, row, model, control, request, local, tokens, history
  <2>3. ASSUME NEW q \in Request, NEW c \in Call, ran[q][c] = 1
        PROVE  calls'[c[1]] = calls[c[1]] /\ author'[c[1]] = author[c[1]]
    <3>1. c[1] \in 1..responses
      BY <1>1, <1>2, <2>3
    <3> QED BY <2>1, <3>1
  <2> QED BY <1>1, <1>2, <2>2, <2>3 DEF CallsRunAsApproved, Approves
<1>5. ASSUME NEW r \in Request, RunTool(r) PROVE CallsRunAsApproved'
  <2> DEFINE d == <<response[r], index[r]>>
  <2>1. UNCHANGED <<answer, checkpoint, calls, author>>
    BY <1>5 DEF RunTool, Fails, Ends, row, model, control, request, local, tokens, history
  <2>2. d \in Call /\ d[1] = response[r] /\ d[2] = index[r]
    BY <1>5, CalledTyped DEF RunTool, MayRun, IInv
  <2>3. pc[r] \in {"calls", "resumedCalls"}
    BY <1>5 DEF RunTool, MayRun, Handles
  <2>4. ran[r][d] = 0
    <3>1. ran[r][d] \in Nat
      BY <1>1, <1>2, <2>2
    <3>2. ran[r][d] > 0 => index[r] < index[r]
      BY <1>1, <1>2, <2>2, <2>3
    <3> QED BY <1>1, <1>2, <3>1, <3>2
  <2>5. Approves(r, response[r]) \/ (r \in author[response[r]] /\ Called(r) \notin Asking)
    BY <1>1, <1>2, <1>5 DEF RunTool, MayRun, Approves, CallsKnown
  <2>6. Approves(r, d[1]) \/ (r \in author[d[1]] /\ calls[d[1]][d[2]] \notin Asking)
    BY <2>2, <2>5 DEF Called
  <2>7. \A q \in Request, c \in Call :
            ran'[q][c] = IF q = r /\ c = d THEN ran[q][c] + 1 ELSE ran[q][c]
    BY <1>5, RunsEffect DEF RunTool, MayRun, IInv
  <2> HIDE DEF d
  <2> QED BY <1>1, <1>2, <2>1, <2>4, <2>6, <2>7 DEF CallsRunAsApproved, Approves
<1>6. ASSUME NEW r \in Request, ToolFails(r) PROVE CallsRunAsApproved'
  <2> DEFINE d == <<response[r], index[r]>>
  <2>1. UNCHANGED <<answer, checkpoint, calls, author>>
    BY <1>6 DEF ToolFails, Fails, Ends, row, model, control, request, local, tokens, history
  <2>2. d \in Call /\ d[1] = response[r] /\ d[2] = index[r]
    BY <1>6, CalledTyped DEF ToolFails, MayRun, IInv
  <2>3. pc[r] \in {"calls", "resumedCalls"}
    BY <1>6 DEF ToolFails, MayRun, Handles
  <2>4. ran[r][d] = 0
    <3>1. ran[r][d] \in Nat
      BY <1>1, <1>2, <2>2
    <3>2. ran[r][d] > 0 => index[r] < index[r]
      BY <1>1, <1>2, <2>2, <2>3
    <3> QED BY <1>1, <1>2, <3>1, <3>2
  <2>5. Approves(r, response[r]) \/ (r \in author[response[r]] /\ Called(r) \notin Asking)
    BY <1>1, <1>2, <1>6 DEF ToolFails, MayRun, Approves, CallsKnown
  <2>6. Approves(r, d[1]) \/ (r \in author[d[1]] /\ calls[d[1]][d[2]] \notin Asking)
    BY <2>2, <2>5 DEF Called
  <2>7. \A q \in Request, c \in Call :
            ran'[q][c] = IF q = r /\ c = d THEN ran[q][c] + 1 ELSE ran[q][c]
    BY <1>6, RunsEffect DEF ToolFails, MayRun, IInv
  <2> HIDE DEF d
  <2> QED BY <1>1, <1>2, <2>1, <2>4, <2>6, <2>7 DEF CallsRunAsApproved, Approves
<1>7. CASE UNCHANGED <<answer, checkpoint, calls, author, ran>>
  BY <1>1, <1>2, <1>7 DEF CallsRunAsApproved, Approves
<1> QED
  BY <1>3, <1>4, <1>5, <1>6, <1>7
     DEF Next, Execution, run, ToolCalls, vars, row, model, control, request, local, tokens,
         history, Ask, Refuse, MarkInProgress, Save, Crash, ModelAnswers, ModelFails, Resume,
         ResumeWithoutCalls, SkipCall, AskApproval, RejectCall, ReturnDirect, AskAgain

LEMMA QuestionsNext == IInv /\ [Next]_vars => QuestionsKnown'
<1> SUFFICES ASSUME IInv, [Next]_vars PROVE QuestionsKnown'
  OBVIOUS
<1>1. /\ pc \in [Request -> {"idle", "mark", "markRetry", "resume", "model", "calls", "resumedCalls", "save", "done"}]
      /\ outcome \in [Request -> {"none", "FINISHED", "STOPPED", "ERROR", "TERMINATED"}]
      /\ answer \in [Request -> {"none", "proceed", "reject"}]
      /\ checkpoint \in [Request -> Seq(Message)]
      /\ messages \in [Request -> Seq(Message)]
      /\ question \in Seq(Message)
      /\ responses \in Nat
      /\ QuestionsKnown
      /\ OutcomesLast
  BY ToolAssumption DEF IInv, TypeOK, ControlTyped, LocalTyped, RowTyped, ModelTyped
<1>2. ASSUME NEW r \in Request, Ask(r) PROVE QuestionsKnown'
  BY <1>1, <1>2 DEF Ask, Goes, row, model, control, request, local, tokens, history,
      QuestionsKnown, EndsWithResponse
<1>3. ASSUME NEW r \in Request, NEW a \in {"proceed", "reject"}, ReadExecution(r, a) PROVE QuestionsKnown'
  <2>1. pc[r] = "idle" /\ \E p \in {"mark", "markRetry"} : pc' = [pc EXCEPT ![r] = p]
    BY <1>3 DEF ReadExecution, Goes
  <2>2. /\ checkpoint' = [checkpoint EXCEPT ![r] = question]
        /\ UNCHANGED <<question, messages, responses, outcome>>
    BY <1>3 DEF ReadExecution, row, model, control, request, local, tokens, history
  <2> QED BY <1>1, <2>1, <2>2 DEF QuestionsKnown, EndsWithResponse
<1>4. ASSUME NEW r \in Request, Refuse(r) PROVE QuestionsKnown'
  BY <1>1, <1>4 DEF Refuse, Goes, row, model, control, request, local, tokens, history,
      QuestionsKnown, EndsWithResponse
<1>5. ASSUME NEW r \in Request, MarkInProgress(r) PROVE QuestionsKnown'
  <2>1. pc[r] \in {"mark", "markRetry"} /\ pc' = [pc EXCEPT ![r] = "resume"]
    BY <1>5 DEF MarkInProgress, Goes
  <2>2. UNCHANGED <<checkpoint, messages, responses, outcome>> /\ question' \in {question, checkpoint[r]}
    BY <1>5 DEF MarkInProgress, row, model, control, request, local, tokens, history
  <2> QED BY <1>1, <2>1, <2>2 DEF QuestionsKnown, EndsWithResponse
<1>6. ASSUME NEW r \in Request, Save(r) PROVE QuestionsKnown'
  <2>1. pc[r] = "save" /\ pc' = [pc EXCEPT ![r] = "done"]
    BY <1>6 DEF Save, Goes
  <2>2. UNCHANGED <<checkpoint, messages, responses, outcome>>
    BY <1>6 DEF Save, row, model, control, request, local, tokens, history
  <2>3. (outcome[r] = "STOPPED" /\ question' = messages[r]) \/ question' \in {<<>>, checkpoint[r]}
    BY <1>6 DEF Save
  <2> QED BY <1>1, <2>1, <2>2, <2>3 DEF QuestionsKnown, EndsWithResponse
<1>7. ASSUME NEW r \in Request, Crash(r) PROVE QuestionsKnown'
  BY <1>1, <1>7 DEF Crash, row, model, control, request, local, tokens, history, QuestionsKnown,
      EndsWithResponse
<1>8. ASSUME NEW r \in Request, ModelAnswers(r) PROVE QuestionsKnown'
  <2>1. pc' = [pc EXCEPT ![r] = "save"] /\ \E e \in {"FINISHED", "ERROR", "TERMINATED"} : outcome' = [outcome EXCEPT ![r] = e]
    BY <1>8 DEF ModelAnswers, Ends, Counted
  <2>2. UNCHANGED <<question, checkpoint, messages, responses>>
    BY <1>8 DEF ModelAnswers, row, model, control, request, local, tokens, history
  <2> QED BY <1>1, <2>1, <2>2 DEF QuestionsKnown, EndsWithResponse
<1>9. ASSUME NEW r \in Request, NEW names \in NonEmpty, ModelCalls(r, names) PROVE QuestionsKnown'
  <2>1. responses' = responses + 1 /\ responses' \in Response
    BY <1>9, ModelCallsEffect DEF IInv
  <2>2. /\ pc[r] = "model" /\ pc' = [pc EXCEPT ![r] = "calls"]
        /\ messages' = [messages EXCEPT ![r] = Append(messages[r], Assistant(responses'))]
        /\ UNCHANGED <<question, checkpoint, outcome>>
    BY <1>9, <2>1 DEF ModelCalls, Goes, row, model, control, request, local, tokens, history
  <2>3. Assistant(responses') \in Message
    BY <2>1, AssistantTyped
  <2>4. Append(messages[r], Assistant(responses')) # <<>>
        /\ Final(Append(messages[r], Assistant(responses'))) = Assistant(responses')
    BY <1>1, <2>3, FinalAppend
  <2>5. Assistant(responses').of \in 1..responses' /\ Assistant(responses').role = "assistant"
    BY <1>1, <2>1 DEF Assistant
  <2>6. \A n \in 1..responses : n \in 1..responses'
    BY <1>1, <2>1
  <2>7. ASSUME NEW q \in Request,
               pc'[q] = "calls" \/ (pc'[q] = "save" /\ outcome'[q] = "STOPPED")
        PROVE  EndsWithResponse(messages[q])'
    <3>1. CASE q = r
      <4>1. messages'[q] = Append(messages[r], Assistant(responses'))
        BY <1>1, <2>2, <3>1
      <4> QED BY <2>4, <2>5, <4>1 DEF EndsWithResponse
    <3>2. CASE q # r
      BY <1>1, <2>2, <2>6, <2>7, <3>2 DEF QuestionsKnown, EndsWithResponse
    <3> QED BY <3>1, <3>2
  <2> QED BY <1>1, <2>2, <2>6, <2>7 DEF QuestionsKnown, EndsWithResponse
<1>10. ASSUME NEW r \in Request, ModelFails(r) PROVE QuestionsKnown'
  <2>1. pc' = [pc EXCEPT ![r] = "save"] /\ \E e \in {"FINISHED", "ERROR", "TERMINATED"} : outcome' = [outcome EXCEPT ![r] = e]
    BY <1>10 DEF ModelFails, Fails, Ends
  <2>2. UNCHANGED <<question, checkpoint, messages, responses>>
    BY <1>10 DEF ModelFails, row, model, control, request, local, tokens, history
  <2> QED BY <1>1, <2>1, <2>2 DEF QuestionsKnown, EndsWithResponse
<1>11. ASSUME NEW r \in Request, Resume(r) PROVE QuestionsKnown'
  <2>1. pc' = [pc EXCEPT ![r] = "resumedCalls"] /\ messages' = [messages EXCEPT ![r] = checkpoint[r]]
    BY <1>11 DEF Resume, Goes
  <2>2. UNCHANGED <<question, checkpoint, responses, outcome>>
    BY <1>11 DEF Resume, row, model, control, request, local, tokens, history
  <2> QED BY <1>1, <2>1, <2>2 DEF QuestionsKnown, EndsWithResponse
<1>12. ASSUME NEW r \in Request, ResumeWithoutCalls(r) PROVE QuestionsKnown'
  <2>1. pc' = [pc EXCEPT ![r] = "save"] /\ \E e \in {"FINISHED", "ERROR", "TERMINATED"} : outcome' = [outcome EXCEPT ![r] = e]
    BY <1>12 DEF ResumeWithoutCalls, Ends
  <2>2. UNCHANGED <<question, checkpoint, messages, responses>>
    BY <1>12 DEF ResumeWithoutCalls, row, model, control, request, local, tokens, history
  <2> QED BY <1>1, <2>1, <2>2 DEF QuestionsKnown, EndsWithResponse
<1>13. ASSUME NEW r \in Request, AskApproval(r) PROVE QuestionsKnown'
  <2>1. pc[r] = "calls" /\ pc' = [pc EXCEPT ![r] = "save"] /\ outcome' = [outcome EXCEPT ![r] = "STOPPED"]
    BY <1>13 DEF AskApproval, Ends
  <2>2. UNCHANGED <<question, checkpoint, messages, responses>>
    BY <1>13 DEF AskApproval, row, model, control, request, local, tokens, history
  <2> QED BY <1>1, <2>1, <2>2 DEF QuestionsKnown, EndsWithResponse
<1>14. ASSUME NEW r \in Request, RunTool(r) PROVE QuestionsKnown'
  <2> DEFINE m == ToolMessage(response[r], index[r])
  <2>1. /\ messages' = [messages EXCEPT ![r] = Append(messages[r], m)]
        /\ UNCHANGED <<question, checkpoint, responses, pc, outcome>>
    BY <1>14 DEF RunTool, row, model, control, request, local, tokens, history
  <2>2. response[r] \in 1..responses /\ response[r] \in 0..MaxResponses /\ index[r] \in 0..MaxCalls
    <3>1. Handles(r) /\ TypeOK
      BY <1>14 DEF RunTool, MayRun, IInv
    <3>2. response[r] \in 1..responses /\ response[r] \in 1..MaxResponses /\ index[r] \in 1..MaxCalls
      BY <3>1, CalledTyped DEF Response
    <3> QED BY <3>2, ToolAssumption
  <2>3. m \in Message /\ m.of \in 1..responses /\ m.role = "tool"
    BY <2>2, ToolMessageTyped DEF ToolMessage
  <2> HIDE DEF m
  <2>4. Append(messages[r], m) # <<>> /\ Final(Append(messages[r], m)) = m
    BY <1>1, <2>3, FinalAppend
  <2>5. ASSUME NEW q \in Request,
               pc'[q] = "calls" \/ (pc'[q] = "save" /\ outcome'[q] = "STOPPED")
        PROVE  EndsWithResponse(messages[q])'
    <3>1. CASE q = r
      <4>1. messages'[q] = Append(messages[r], m)
        BY <1>1, <2>1, <3>1
      <4> QED BY <2>1, <2>3, <2>4, <4>1 DEF EndsWithResponse
    <3>2. CASE q # r
      BY <1>1, <2>1, <2>5, <3>2 DEF QuestionsKnown, EndsWithResponse
    <3> QED BY <3>1, <3>2
  <2> QED BY <1>1, <2>1, <2>5 DEF QuestionsKnown, EndsWithResponse
<1>15. ASSUME NEW r \in Request, ToolFails(r) PROVE QuestionsKnown'
  <2>1. pc' = [pc EXCEPT ![r] = "save"] /\ \E e \in {"FINISHED", "ERROR", "TERMINATED"} : outcome' = [outcome EXCEPT ![r] = e]
    BY <1>15 DEF ToolFails, MayRun, Handles, Called, Runs, Fails, Ends
  <2>2. UNCHANGED <<question, checkpoint, messages, responses>>
    BY <1>15 DEF ToolFails, row, model, control, request, local, tokens, history
  <2> QED BY <1>1, <2>1, <2>2 DEF QuestionsKnown, EndsWithResponse
<1>16. ASSUME NEW r \in Request, RejectCall(r) PROVE QuestionsKnown'
  <2>1. /\ pc[r] = "resumedCalls" /\ UNCHANGED <<question, checkpoint, responses, pc, outcome>>
        /\ \E ms \in Seq(Message) : messages' = [messages EXCEPT ![r] = ms]
    <3> DEFINE ms == messages[r]
               short == SubSeq(ms, 1, Len(ms) - 1)
    <3>1. ms \in Seq(Message) /\ Len(ms) \in Nat
      BY <1>1
    <3>2. \A k \in 1..(Len(ms) - 1) : ms[k] \in Message
      BY <3>1
    <3>3. short \in Seq(Message)
      BY <3>1, <3>2
    <3>4. messages' = [messages EXCEPT ![r] = short]
      BY <1>16 DEF RejectCall
    <3>5. pc[r] = "resumedCalls" /\ UNCHANGED <<question, checkpoint, responses, pc, outcome>>
      BY <1>16 DEF RejectCall, row, model, control, request, local, tokens, history
    <3> QED BY <3>3, <3>4, <3>5
  <2> QED BY <1>1, <2>1 DEF QuestionsKnown, EndsWithResponse
<1>17. ASSUME NEW r \in Request, ReturnDirect(r) PROVE QuestionsKnown'
  <2>1. pc' = [pc EXCEPT ![r] = "save"] /\ \E e \in {"FINISHED", "ERROR", "TERMINATED"} : outcome' = [outcome EXCEPT ![r] = e]
    BY <1>17 DEF ReturnDirect, CallsHandled, Ends
  <2>2. UNCHANGED <<question, checkpoint, messages, responses>>
    BY <1>17 DEF ReturnDirect, row, model, control, request, local, tokens, history
  <2> QED BY <1>1, <2>1, <2>2 DEF QuestionsKnown, EndsWithResponse
<1>18. ASSUME NEW r \in Request, AskAgain(r) PROVE QuestionsKnown'
  <2>1. pc' = [pc EXCEPT ![r] = "model"]
    BY <1>18 DEF AskAgain
  <2>2. UNCHANGED <<question, checkpoint, messages, responses, outcome>>
    BY <1>18 DEF AskAgain, row, model, control, request, local, tokens, history
  <2> QED BY <1>1, <2>1, <2>2 DEF QuestionsKnown, EndsWithResponse
<1>19. CASE UNCHANGED <<pc, outcome, question, checkpoint, messages, responses>>
  BY <1>1, <1>19 DEF QuestionsKnown, EndsWithResponse
<1> QED
  BY <1>2, <1>3, <1>4, <1>5, <1>6, <1>7, <1>8, <1>9, <1>10, <1>11, <1>12, <1>13, <1>14, <1>15,
      <1>16, <1>17, <1>18, <1>19
     DEF Next, Execution, run, ToolCalls, vars, row, model, control, request, local, tokens,
         history, SkipCall

LEMMA RejectedNext == IInv /\ [Next]_vars => RejectedRemoved'
<1> SUFFICES ASSUME IInv, [Next]_vars PROVE RejectedRemoved'
  OBVIOUS
<1>1. /\ pc \in [Request -> {"idle", "mark", "markRetry", "resume", "model", "calls", "resumedCalls", "save", "done"}]
      /\ answer \in [Request -> {"none", "proceed", "reject"}]
      /\ checkpoint \in [Request -> Seq(Message)]
      /\ index \in [Request -> Int]
      /\ toolsInstance \in [Request -> SUBSET Tool]
      /\ \A r \in Request : pc[r] = "resumedCalls" => response[r] = Final(checkpoint[r]).of
      /\ \A b \in Response : Len(calls[b]) \in Nat
      /\ \A r \in Request : answer[r] # "none" => Final(checkpoint[r]).of \in 1..responses /\ Final(checkpoint[r]).of \in Response
      /\ \A r \in Request : pc[r] = "idle" => answer[r] = "none"
      /\ RejectedRemoved
  BY ToolAssumption DEF IInv, TypeOK, ControlTyped, LocalTyped, CallsKnown, ModelTyped,
      QuestionsKnown, EndsWithResponse, Response
<1>2. ASSUME NEW r \in Request, Ask(r) PROVE RejectedRemoved'
  <2>1. pc[r] = "idle" /\ pc' = [pc EXCEPT ![r] = "model"] /\ toolsInstance' = [toolsInstance EXCEPT ![r] = Tool]
    BY <1>2 DEF Ask, Goes
  <2>2. UNCHANGED <<answer, checkpoint, calls, index>>
    BY <1>2 DEF Ask, row, model, control, request, local, tokens, history
  <2> QED BY <1>1, <2>1, <2>2 DEF RejectedRemoved
<1>3. ASSUME NEW r \in Request, NEW a \in {"proceed", "reject"}, ReadExecution(r, a) PROVE RejectedRemoved'
  <2>1. \E p \in {"mark", "markRetry"} : pc' = [pc EXCEPT ![r] = p]
    BY <1>3 DEF ReadExecution, Goes
  <2>2. /\ answer' = [answer EXCEPT ![r] = a] /\ checkpoint' = [checkpoint EXCEPT ![r] = question]
        /\ UNCHANGED <<calls, index, toolsInstance>>
    BY <1>3 DEF ReadExecution, row, model, control, request, local, tokens, history
  <2> QED BY <1>1, <2>1, <2>2 DEF RejectedRemoved
<1>4. ASSUME NEW r \in Request, Refuse(r) PROVE RejectedRemoved'
  BY <1>1, <1>4 DEF Refuse, Goes, row, model, control, request, local, tokens, history,
      RejectedRemoved
<1>5. ASSUME NEW r \in Request, MarkInProgress(r) PROVE RejectedRemoved'
  <2>1. pc' = [pc EXCEPT ![r] = "resume"]
    BY <1>5 DEF MarkInProgress, Goes
  <2>2. UNCHANGED <<answer, checkpoint, calls, index, toolsInstance>>
    BY <1>5 DEF MarkInProgress, row, model, control, request, local, tokens, history
  <2> QED BY <1>1, <2>1, <2>2 DEF RejectedRemoved
<1>6. ASSUME NEW r \in Request, Save(r) PROVE RejectedRemoved'
  BY <1>1, <1>6 DEF Save, Goes, row, model, control, request, local, tokens, history,
      RejectedRemoved
<1>7. ASSUME NEW r \in Request, Crash(r) PROVE RejectedRemoved'
  BY <1>1, <1>7 DEF Crash, row, model, control, request, local, tokens, history, RejectedRemoved
<1>8. ASSUME NEW r \in Request, ModelAnswers(r) PROVE RejectedRemoved'
  <2>1. pc' = [pc EXCEPT ![r] = "save"]
    BY <1>8 DEF ModelAnswers, Ends, Counted
  <2>2. UNCHANGED <<answer, checkpoint, calls, index, toolsInstance>>
    BY <1>8 DEF ModelAnswers, row, model, control, request, local, tokens, history
  <2> QED BY <1>1, <2>1, <2>2 DEF RejectedRemoved
<1>9. ASSUME NEW r \in Request, NEW names \in NonEmpty, ModelCalls(r, names) PROVE RejectedRemoved'
  <2>1. /\ responses' = responses + 1
        /\ \A b \in 1..responses : calls'[b] = calls[b]
    BY <1>9, ModelCallsEffect DEF IInv
  <2>2. /\ pc[r] = "model" /\ pc' = [pc EXCEPT ![r] = "calls"]
        /\ index' = [index EXCEPT ![r] = 1]
        /\ UNCHANGED <<answer, checkpoint, toolsInstance>>
    BY <1>9 DEF ModelCalls, Goes, row, model, control, request, local, tokens, history
  <2>3. ASSUME NEW q \in Request, answer[q] = "reject"
        PROVE  calls'[Final(checkpoint[q]).of] = calls[Final(checkpoint[q]).of]
    BY <1>1, <2>1, <2>3
  <2> QED BY <1>1, <2>2, <2>3 DEF RejectedRemoved
<1>10. ASSUME NEW r \in Request, ModelFails(r) PROVE RejectedRemoved'
  <2>1. pc' = [pc EXCEPT ![r] = "save"]
    BY <1>10 DEF ModelFails, Fails, Ends
  <2>2. UNCHANGED <<answer, checkpoint, calls, index, toolsInstance>>
    BY <1>10 DEF ModelFails, row, model, control, request, local, tokens, history
  <2> QED BY <1>1, <2>1, <2>2 DEF RejectedRemoved
<1>11. ASSUME NEW r \in Request, Resume(r) PROVE RejectedRemoved'
  <2>1. /\ pc' = [pc EXCEPT ![r] = "resumedCalls"] /\ index' = [index EXCEPT ![r] = 1]
        /\ toolsInstance' = [toolsInstance EXCEPT ![r] = Tool]
    BY <1>11 DEF Resume, Goes
  <2>2. UNCHANGED <<answer, checkpoint, calls>>
    BY <1>11 DEF Resume, row, model, control, request, local, tokens, history
  <2>3. \A n \in Int : \A j \in 1..n : ~ (j < 1)
    OBVIOUS
  <2>4. pc'[r] = "resumedCalls" /\ index'[r] = 1
    BY <1>1, <2>1
  <2>5. \A q \in Request \ {r} :
            pc'[q] = pc[q] /\ index'[q] = index[q] /\ toolsInstance'[q] = toolsInstance[q]
    BY <1>1, <2>1
  <2>6. \A q \in Request : answer[q] = "reject" => Len(calls[Final(checkpoint[q]).of]) \in Int
    BY <1>1
  <2> QED BY <1>1, <2>2, <2>3, <2>4, <2>5, <2>6 DEF RejectedRemoved
<1>12. ASSUME NEW r \in Request, ResumeWithoutCalls(r) PROVE RejectedRemoved'
  <2>1. pc' = [pc EXCEPT ![r] = "save"]
    BY <1>12 DEF ResumeWithoutCalls, Ends
  <2>2. UNCHANGED <<answer, checkpoint, calls, index, toolsInstance>>
    BY <1>12 DEF ResumeWithoutCalls, row, model, control, request, local, tokens, history
  <2> QED BY <1>1, <2>1, <2>2 DEF RejectedRemoved
<1>13. ASSUME NEW r \in Request, SkipCall(r) PROVE RejectedRemoved'
  <2>1. Called(r) \notin toolsInstance[r] /\ index' = [index EXCEPT ![r] = index[r] + 1]
    BY <1>13 DEF SkipCall, NextCall
  <2>2. UNCHANGED <<answer, checkpoint, calls, toolsInstance, pc>>
    BY <1>13 DEF SkipCall, row, model, control, request, local, tokens, history
  <2> QED BY <1>1, <2>1, <2>2 DEF RejectedRemoved, Called
<1>14. ASSUME NEW r \in Request, AskApproval(r) PROVE RejectedRemoved'
  <2>1. pc' = [pc EXCEPT ![r] = "save"]
    BY <1>14 DEF AskApproval, Handles, Called, Ends
  <2>2. UNCHANGED <<answer, checkpoint, calls, index, toolsInstance>>
    BY <1>14 DEF AskApproval, row, model, control, request, local, tokens, history
  <2> QED BY <1>1, <2>1, <2>2 DEF RejectedRemoved
<1>15. ASSUME NEW r \in Request, RunTool(r) PROVE RejectedRemoved'
  <2>1. pc[r] = "calls" \/ answer[r] = "proceed"
    BY <1>15 DEF RunTool, MayRun
  <2>2. index' = [index EXCEPT ![r] = index[r] + 1]
    BY <1>15 DEF RunTool, NextCall
  <2>3. UNCHANGED <<answer, checkpoint, calls, toolsInstance, pc>>
    BY <1>15 DEF RunTool, row, model, control, request, local, tokens, history
  <2> QED BY <1>1, <2>1, <2>2, <2>3 DEF RejectedRemoved
<1>16. ASSUME NEW r \in Request, ToolFails(r) PROVE RejectedRemoved'
  <2>1. pc' = [pc EXCEPT ![r] = "save"]
    BY <1>16 DEF ToolFails, MayRun, Handles, Called, Runs, Fails, Ends
  <2>2. UNCHANGED <<answer, checkpoint, calls, index, toolsInstance>>
    BY <1>16 DEF ToolFails, row, model, control, request, local, tokens, history
  <2> QED BY <1>1, <2>1, <2>2 DEF RejectedRemoved
<1>17. ASSUME NEW r \in Request, RejectCall(r) PROVE RejectedRemoved'
  <2>1. /\ pc[r] = "resumedCalls" /\ index' = [index EXCEPT ![r] = index[r] + 1]
        /\ toolsInstance' = [toolsInstance EXCEPT ![r] = Remaining(r)]
    BY <1>17 DEF RejectCall, NextCall
  <2>2. Remaining(r) \subseteq toolsInstance[r] /\ Called(r) \notin Remaining(r)
    BY DEF Remaining
  <2>3. UNCHANGED <<answer, checkpoint, calls, pc>>
    BY <1>17 DEF RejectCall, row, model, control, request, local, tokens, history
  <2> HIDE DEF Remaining
  <2> QED BY <1>1, <2>1, <2>2, <2>3 DEF RejectedRemoved, Called
<1>18. ASSUME NEW r \in Request, ReturnDirect(r) PROVE RejectedRemoved'
  <2>1. pc' = [pc EXCEPT ![r] = "save"]
    BY <1>18 DEF ReturnDirect, CallsHandled, Ends
  <2>2. UNCHANGED <<answer, checkpoint, calls, index, toolsInstance>>
    BY <1>18 DEF ReturnDirect, row, model, control, request, local, tokens, history
  <2> QED BY <1>1, <2>1, <2>2 DEF RejectedRemoved
<1>19. ASSUME NEW r \in Request, AskAgain(r) PROVE RejectedRemoved'
  <2>1. /\ pc[r] \in {"calls", "resumedCalls"} /\ pc' = [pc EXCEPT ![r] = "model"]
        /\ index[r] > Len(calls[response[r]])
    BY <1>19 DEF AskAgain, CallsHandled
  <2>2. UNCHANGED <<answer, checkpoint, calls, index, toolsInstance>>
    BY <1>19 DEF AskAgain, row, model, control, request, local, tokens, history
  <2> QED BY <1>1, <2>1, <2>2 DEF RejectedRemoved
<1>20. CASE UNCHANGED <<pc, answer, checkpoint, calls, index, toolsInstance>>
  BY <1>1, <1>20 DEF RejectedRemoved
<1> QED
  BY <1>2, <1>3, <1>4, <1>5, <1>6, <1>7, <1>8, <1>9, <1>10, <1>11, <1>12, <1>13, <1>14, <1>15,
      <1>16, <1>17, <1>18, <1>19, <1>20
     DEF Next, Execution, run, ToolCalls, vars, row, model, control, request, local, tokens, history

\* The calls a request was asked to approve do not change.
LEMMA AskedAboutSame ==
    ASSUME NEW r \in Request, checkpoint'[r] = checkpoint[r],
           calls'[Final(checkpoint[r]).of] = calls[Final(checkpoint[r]).of]
    PROVE  AskedAbout(r)' = AskedAbout(r)
BY DEF AskedAbout

LEMMA SoFarNext == IInv /\ [Next]_vars => ApprovedSoFar'
<1> SUFFICES ASSUME IInv, [Next]_vars PROVE ApprovedSoFar'
  OBVIOUS
<1>1. /\ pc \in [Request -> {"idle", "mark", "markRetry", "resume", "model", "calls", "resumedCalls", "save", "done"}]
      /\ outcome \in [Request -> {"none", "FINISHED", "STOPPED", "ERROR", "TERMINATED"}]
      /\ answer \in [Request -> {"none", "proceed", "reject"}]
      /\ checkpoint \in [Request -> Seq(Message)]
      /\ index \in [Request -> Int]
      /\ toolsInstance \in [Request -> SUBSET Tool]
      /\ ran \in [Request -> [Call -> Nat]]
      /\ \A b \in Response : calls[b] \in Seq(Name)
  BY ToolAssumption DEF IInv, TypeOK, ControlTyped, LocalTyped, HistoryTyped, ModelTyped
<1>2. /\ \A r \in Request : pc[r] = "resumedCalls" => response[r] = Final(checkpoint[r]).of
      /\ \A r \in Request : answer[r] # "none" => Final(checkpoint[r]).of \in 1..responses /\ Final(checkpoint[r]).of \in Response
      /\ \A r \in Request : pc[r] = "idle" => answer[r] = "none"
      /\ \A r \in Request : pc[r] = "resumedCalls" /\ answer[r] = "proceed" => toolsInstance[r] = Tool
      /\ \A q \in Request, c \in Call : ran[q][c] > 0 => (pc[q] \in {"calls", "resumedCalls"} /\ c[1] = response[q] => c[2] < index[q])
      /\ \A c \in Call : c[2] \in Int /\ c[2] >= 1
      /\ OutcomesLast
      /\ ApprovedSoFar
  BY ToolAssumption DEF IInv, CallsKnown, QuestionsKnown, EndsWithResponse, TypeOK, ModelTyped,
      Response, RunsAhead, Call
<1>3. ASSUME NEW r \in Request, Ask(r) PROVE ApprovedSoFar'
  <2>1. pc[r] = "idle" /\ pc' = [pc EXCEPT ![r] = "model"]
    BY <1>3 DEF Ask, Goes
  <2>2. UNCHANGED <<answer, checkpoint, calls, index, ran, outcome>>
    BY <1>3 DEF Ask, row, model, control, request, local, tokens, history
  <2> QED BY <1>1, <1>2, <2>1, <2>2 DEF ApprovedSoFar, AskedAbout
<1>4. ASSUME NEW r \in Request, NEW a \in {"proceed", "reject"}, ReadExecution(r, a) PROVE ApprovedSoFar'
  <2>1. \E p \in {"mark", "markRetry"} : pc' = [pc EXCEPT ![r] = p]
    BY <1>4 DEF ReadExecution, Goes
  <2>2. /\ answer' = [answer EXCEPT ![r] = a] /\ checkpoint' = [checkpoint EXCEPT ![r] = question]
        /\ UNCHANGED <<calls, index, ran, outcome>>
    BY <1>4 DEF ReadExecution, row, model, control, request, local, tokens, history
  <2> QED BY <1>1, <1>2, <2>1, <2>2 DEF ApprovedSoFar, AskedAbout
<1>5. ASSUME NEW r \in Request, Refuse(r) PROVE ApprovedSoFar'
  <2>1. pc' = [pc EXCEPT ![r] = "done"]
    BY <1>5 DEF Refuse, Goes
  <2>2. UNCHANGED <<answer, checkpoint, calls, index, ran, outcome>>
    BY <1>5 DEF Refuse, row, model, control, request, local, tokens, history
  <2> QED BY <1>1, <1>2, <2>1, <2>2 DEF ApprovedSoFar, AskedAbout
<1>6. ASSUME NEW r \in Request, MarkInProgress(r) PROVE ApprovedSoFar'
  <2>1. pc' = [pc EXCEPT ![r] = "resume"]
    BY <1>6 DEF MarkInProgress, Goes
  <2>2. UNCHANGED <<answer, checkpoint, calls, index, ran, outcome>>
    BY <1>6 DEF MarkInProgress, row, model, control, request, local, tokens, history
  <2> QED BY <1>1, <1>2, <2>1, <2>2 DEF ApprovedSoFar, AskedAbout
<1>7. ASSUME NEW r \in Request, Save(r) PROVE ApprovedSoFar'
  <2>1. pc' = [pc EXCEPT ![r] = "done"]
    BY <1>7 DEF Save, Goes
  <2>2. UNCHANGED <<answer, checkpoint, calls, index, ran, outcome>>
    BY <1>7 DEF Save, row, model, control, request, local, tokens, history
  <2> QED BY <1>1, <1>2, <2>1, <2>2 DEF ApprovedSoFar, AskedAbout
<1>8. ASSUME NEW r \in Request, Crash(r) PROVE ApprovedSoFar'
  <2>1. pc' = [pc EXCEPT ![r] = "done"]
    BY <1>8 DEF Crash
  <2>2. UNCHANGED <<answer, checkpoint, calls, index, ran, outcome>>
    BY <1>8 DEF Crash, row, model, control, request, local, tokens, history
  <2> QED BY <1>1, <1>2, <2>1, <2>2 DEF ApprovedSoFar, AskedAbout
<1>9. ASSUME NEW r \in Request, ModelAnswers(r) PROVE ApprovedSoFar'
  <2>1. pc[r] = "model" /\ pc' = [pc EXCEPT ![r] = "save"]
    BY <1>9 DEF ModelAnswers, Ends
  <2>2. UNCHANGED <<answer, checkpoint, calls, index, ran>>
    BY <1>9 DEF ModelAnswers, row, model, control, request, local, tokens, history
  <2>3. \A q \in Request \ {r} : outcome'[q] = outcome[q]
    BY <1>1, <1>2, <1>9 DEF ModelAnswers, Ends
  <2>4. outcome[r] = "none"
    BY <1>1, <1>2, <2>1 DEF OutcomesLast
  <2> QED BY <1>1, <1>2, <2>1, <2>2, <2>3, <2>4 DEF ApprovedSoFar, AskedAbout
<1>10. ASSUME NEW r \in Request, NEW names \in NonEmpty, ModelCalls(r, names) PROVE ApprovedSoFar'
  <2>1. \A b \in 1..responses : calls'[b] = calls[b]
    BY <1>10, ModelCallsEffect DEF IInv
  <2>2. /\ pc[r] = "model" /\ pc' = [pc EXCEPT ![r] = "calls"]
        /\ UNCHANGED <<answer, checkpoint, outcome, ran>>
    BY <1>10 DEF ModelCalls, Goes, row, model, control, request, local, tokens, history
  <2>3. \A q \in Request \ {r} : index'[q] = index[q]
    BY <1>1, <1>2, <1>10 DEF ModelCalls
  <2>4. ASSUME NEW q \in Request, answer[q] = "proceed" PROVE AskedAbout(q)' = AskedAbout(q)
    <3>1. Final(checkpoint[q]).of \in 1..responses
      BY <1>1, <1>2, <2>4
    <3> QED BY <2>1, <2>2, <3>1, AskedAboutSame
  <2> QED BY <1>1, <1>2, <2>2, <2>3, <2>4 DEF ApprovedSoFar
<1>11. ASSUME NEW r \in Request, ModelFails(r) PROVE ApprovedSoFar'
  <2>1. /\ pc' = [pc EXCEPT ![r] = "save"]
        /\ \E e \in {"ERROR", "TERMINATED"} : outcome' = [outcome EXCEPT ![r] = e]
    BY <1>11 DEF ModelFails, Fails, Ends
  <2>2. UNCHANGED <<answer, checkpoint, calls>>
    BY <1>11 DEF ModelFails, row, model, control, request, local, tokens, history
  <2>3. \A q \in Request \ {r} : ran'[q] = ran[q] /\ index'[q] = index[q]
    BY <1>1, <1>2, <1>11 DEF ModelFails, Runs, row, model, control, request, local, tokens, history
  <2> QED BY <1>1, <1>2, <2>1, <2>2, <2>3 DEF ApprovedSoFar, AskedAbout
<1>12. ASSUME NEW r \in Request, Resume(r) PROVE ApprovedSoFar'
  <2>1. pc' = [pc EXCEPT ![r] = "resumedCalls"] /\ index' = [index EXCEPT ![r] = 1]
    BY <1>12 DEF Resume, Goes
  <2>2. UNCHANGED <<answer, checkpoint, calls, ran, outcome>>
    BY <1>12 DEF Resume, row, model, control, request, local, tokens, history
  <2>3. \A c \in AskedAbout(r) : c[2] >= 1
    BY <1>1, <1>2 DEF AskedAbout
  <2>4. \A q \in Request : AskedAbout(q)' = AskedAbout(q)
    BY <2>2, AskedAboutSame
  <2> QED BY <1>1, <1>2, <2>1, <2>2, <2>3, <2>4 DEF ApprovedSoFar
<1>13. ASSUME NEW r \in Request, ResumeWithoutCalls(r) PROVE ApprovedSoFar'
  <2>1. /\ pc' = [pc EXCEPT ![r] = "save"] /\ Final(checkpoint[r]).role # "assistant"
        /\ outcome' = [outcome EXCEPT ![r] = "FINISHED"]
    BY <1>13 DEF ResumeWithoutCalls, Ends
  <2>2. UNCHANGED <<answer, checkpoint, calls, index, ran>>
    BY <1>13 DEF ResumeWithoutCalls, row, model, control, request, local, tokens, history
  <2> QED BY <1>1, <1>2, <2>1, <2>2 DEF ApprovedSoFar, AskedAbout
<1>14. ASSUME NEW r \in Request, SkipCall(r) PROVE ApprovedSoFar'
  <2>1. /\ pc[r] \in {"calls", "resumedCalls"} /\ Called(r) \notin toolsInstance[r]
        /\ index' = [index EXCEPT ![r] = index[r] + 1]
    BY <1>14 DEF SkipCall, NextCall, Handles
  <2>2. UNCHANGED <<answer, checkpoint, calls, pc, outcome, ran>>
    BY <1>14 DEF SkipCall, row, model, control, request, local, tokens, history
  <2>3. pc[r] = "resumedCalls" /\ answer[r] = "proceed" => \A c \in AskedAbout(r) : c[2] # index[r]
    BY <1>1, <1>2, <2>1 DEF AskedAbout, Called
  <2>4. \A q \in Request : AskedAbout(q)' = AskedAbout(q) /\ AskedAbout(q) \subseteq Call
    BY <2>2, AskedAboutSame DEF AskedAbout
  <2>5. \A c \in Call : c[2] \in Int /\ (c[2] >= index[r] /\ c[2] # index[r] => c[2] >= index[r] + 1)
    BY <1>1, <1>2
  <2> QED BY <1>1, <1>2, <2>1, <2>2, <2>3, <2>4, <2>5 DEF ApprovedSoFar
<1>15. ASSUME NEW r \in Request, AskApproval(r) PROVE ApprovedSoFar'
  <2>1. pc[r] = "calls" /\ pc' = [pc EXCEPT ![r] = "save"]
    BY <1>15 DEF AskApproval, Ends
  <2>2. UNCHANGED <<answer, checkpoint, calls, index, ran>>
    BY <1>15 DEF AskApproval, row, model, control, request, local, tokens, history
  <2>3. \A q \in Request \ {r} : outcome'[q] = outcome[q]
    BY <1>1, <1>2, <1>15 DEF AskApproval, Ends
  <2>4. outcome[r] = "none"
    BY <1>1, <1>2, <2>1 DEF OutcomesLast
  <2> QED BY <1>1, <1>2, <2>1, <2>2, <2>3, <2>4 DEF ApprovedSoFar, AskedAbout
<1>16. ASSUME NEW r \in Request, RunTool(r) PROVE ApprovedSoFar'
  <2>1. /\ pc[r] \in {"calls", "resumedCalls"}
        /\ index' = [index EXCEPT ![r] = index[r] + 1]
    BY <1>16 DEF RunTool, MayRun, NextCall
  <2>2. UNCHANGED <<answer, checkpoint, calls, pc, outcome>>
    BY <1>16 DEF RunTool, row, model, control, request, local, tokens, history
  <2>3. \A q \in Request, c \in Call :
            ran'[q][c] = IF q = r /\ c = <<response[r], index[r]>> THEN ran[q][c] + 1 ELSE ran[q][c]
    BY <1>16, RunsEffect DEF RunTool, MayRun, IInv
  <2>4. \A q \in Request, c \in Call : ran[q][c] = 1 => ran'[q][c] = 1
    <3>1. \A q \in Request, c \in Call : ran'[q][c] <= 1
      BY ApprovedNext DEF CallsRunAsApproved
    <3>2. \A q \in Request, c \in Call : ran[q][c] \in Nat
      BY <1>1, <1>2
    <3> QED BY <2>3, <3>1, <3>2
  <2>5. \A q \in Request : AskedAbout(q)' = AskedAbout(q) /\ AskedAbout(q) \subseteq Call
    BY <2>2, AskedAboutSame DEF AskedAbout
  <2>6. ASSUME pc[r] = "resumedCalls", NEW c \in AskedAbout(r), c[2] >= index[r]
        PROVE  c[2] >= index[r] + 1 \/ ran'[r][c] = 1
    <3>1. c \in Call /\ c[1] = response[r] /\ c[2] \in Int
      BY <1>1, <1>2, <2>6 DEF AskedAbout
    <3>2. CASE c[2] = index[r]
      <4>1. c = <<response[r], index[r]>>
        BY <3>1, <3>2 DEF Call
      <4>2. ran[r][c] \in Nat
        BY <1>1, <1>2, <3>1
      <4>3. ran[r][c] > 0 => c[2] < index[r]
        BY <1>1, <1>2, <3>1, <2>6
      <4> QED BY <2>3, <3>1, <3>2, <4>1, <4>2, <4>3
    <3> QED BY <1>1, <1>2, <2>6, <3>1, <3>2
  <2> QED BY <1>1, <1>2, <2>1, <2>2, <2>4, <2>5, <2>6 DEF ApprovedSoFar
<1>17. ASSUME NEW r \in Request, ToolFails(r) PROVE ApprovedSoFar'
  <2>1. /\ pc' = [pc EXCEPT ![r] = "save"]
        /\ \E e \in {"ERROR", "TERMINATED"} : outcome' = [outcome EXCEPT ![r] = e]
    BY <1>17 DEF ToolFails, Fails, Ends
  <2>2. UNCHANGED <<answer, checkpoint, calls>>
    BY <1>17 DEF ToolFails, row, model, control, request, local, tokens, history
  <2>3. \A q \in Request \ {r} : ran'[q] = ran[q] /\ index'[q] = index[q]
    BY <1>1, <1>2, <1>17 DEF ToolFails, Runs, row, model, control, request, local, tokens, history
  <2> QED BY <1>1, <1>2, <2>1, <2>2, <2>3 DEF ApprovedSoFar, AskedAbout
<1>18. ASSUME NEW r \in Request, RejectCall(r) PROVE ApprovedSoFar'
  <2>1. answer[r] = "reject" /\ UNCHANGED <<answer, checkpoint, calls, pc, outcome, ran>>
    BY <1>18 DEF RejectCall, row, model, control, request, local, tokens, history
  <2>2. \A q \in Request \ {r} : index'[q] = index[q]
    BY <1>1, <1>2, <1>18 DEF RejectCall, NextCall
  <2>3. \A q \in Request : AskedAbout(q)' = AskedAbout(q)
    BY <2>1, AskedAboutSame
  <2>4. \A q \in Request : answer[q] = "proceed" => q \in Request \ {r}
    BY <2>1
  <2> QED BY <1>1, <1>2, <2>1, <2>2, <2>3, <2>4 DEF ApprovedSoFar
<1>19. ASSUME NEW r \in Request, ReturnDirect(r) PROVE ApprovedSoFar'
  <2>1. /\ pc[r] \in {"calls", "resumedCalls"} /\ pc' = [pc EXCEPT ![r] = "save"]
        /\ index[r] > Len(calls[response[r]])
    BY <1>19 DEF ReturnDirect, CallsHandled, Ends
  <2>2. UNCHANGED <<answer, checkpoint, calls, index, ran>>
    BY <1>19 DEF ReturnDirect, row, model, control, request, local, tokens, history
  <2>3. \A q \in Request \ {r} : outcome'[q] = outcome[q]
    BY <1>1, <1>2, <1>19 DEF ReturnDirect, Ends
  <2>4. outcome[r] = "none"
    BY <1>1, <1>2, <2>1 DEF OutcomesLast
  <2>5. pc[r] = "resumedCalls" => \A c \in AskedAbout(r) : ~ (c[2] >= index[r])
    BY <1>1, <1>2, <2>1 DEF AskedAbout
  <2>6. \A q \in Request : AskedAbout(q)' = AskedAbout(q)
    BY <2>2, AskedAboutSame
  <2> QED BY <1>1, <1>2, <2>1, <2>2, <2>3, <2>4, <2>5, <2>6 DEF ApprovedSoFar
<1>20. ASSUME NEW r \in Request, AskAgain(r) PROVE ApprovedSoFar'
  <2>1. /\ pc[r] \in {"calls", "resumedCalls"} /\ pc' = [pc EXCEPT ![r] = "model"]
        /\ index[r] > Len(calls[response[r]])
    BY <1>20 DEF AskAgain, CallsHandled
  <2>2. UNCHANGED <<answer, checkpoint, calls, index, ran, outcome>>
    BY <1>20 DEF AskAgain, row, model, control, request, local, tokens, history
  <2>3. pc[r] = "resumedCalls" => \A c \in AskedAbout(r) : ~ (c[2] >= index[r])
    BY <1>1, <1>2, <2>1 DEF AskedAbout
  <2>4. \A q \in Request : AskedAbout(q)' = AskedAbout(q)
    BY <2>2, AskedAboutSame
  <2> QED BY <1>1, <1>2, <2>1, <2>2, <2>3, <2>4 DEF ApprovedSoFar
<1>21. CASE UNCHANGED <<pc, answer, checkpoint, calls, index, ran, outcome>>
  BY <1>1, <1>2, <1>21 DEF ApprovedSoFar, AskedAbout
<1> QED
  BY <1>3, <1>4, <1>5, <1>6, <1>7, <1>8, <1>9, <1>10, <1>11, <1>12, <1>13, <1>14, <1>15, <1>16,
      <1>17, <1>18, <1>19, <1>20, <1>21
     DEF Next, Execution, run, ToolCalls, vars, row, model, control, request, local, tokens, history


LEMMA InvInit == Init => IInv
<1> SUFFICES ASSUME Init PROVE IInv
  OBVIOUS
<1> USE ToolAssumption DEF Init
<1>1. RowTyped /\ ControlTyped /\ LocalTyped
  BY DEF RowTyped, ControlTyped, LocalTyped, NoResponse
<1>2. ModelTyped
  BY DEF ModelTyped, Response
<1>3. HistoryTyped
  BY DEF HistoryTyped
<1>4. StepsTyped /\ QuestionsKnown /\ CallsKnown /\ OutcomesLast
  BY DEF StepsTyped, QuestionsKnown, CallsKnown, OutcomesLast
<1>5. CallsRunAsApproved /\ RunsAhead
  BY DEF CallsRunAsApproved, RunsAhead
<1>6. RejectedRemoved /\ ApprovedSoFar
  BY DEF RejectedRemoved, ApprovedSoFar
<1>7. TokensWithinTwice /\ TokensSoFar
  BY DEF TokensWithinTwice, TokensSoFar
<1> QED BY <1>1, <1>2, <1>3, <1>4, <1>5, <1>6, <1>7 DEF IInv, TypeOK

LEMMA InvNext == IInv /\ [Next]_vars => IInv'
BY TypeNext, ApprovedNext, RunsAheadNext, QuestionsNext, CallsKnownNext, RejectedNext,
   SoFarNext, TokensNext, OutcomesNext DEF IInv

LEMMA Invariant == Spec => []IInv
BY InvInit, InvNext, PTL DEF Spec

\* In every run of agents that call tools and of the requests that answer for
\* them, each variable keeps its type, a request that handles calls has the
\* response they belong to, and one that resumes has a question.
THEOREM TypeCorrect == Spec => []TypeOK
<1>1. IInv => TypeOK
  BY DEF IInv
<1> QED BY Invariant, <1>1, PTL

\* However stops, failures, retries and overlapping answers interleave, a request
\* runs a call once at most, and only if it received the call and nobody is asked
\* about the tool, or if it brings the approval of the response.
THEOREM CallsApproved == Spec => []CallsRunAsApproved
<1>1. IInv => CallsRunAsApproved
  BY DEF IInv
<1> QED BY Invariant, <1>1, PTL

\* An approval of a response that was stopped at its first call has run all its
\* calls when the model is asked again or the run ends.
THEOREM ApprovalComplete == Spec => []ApprovedResponseRuns
<1>1. IInv => ApprovedResponseRuns
  <2> SUFFICES ASSUME IInv, NEW r \in Request, PastApproval(r),
                      Final(checkpoint[r]).role = "assistant", NEW c \in AskedAbout(r)
               PROVE  ran[r][c] = 1
    BY DEF ApprovedResponseRuns
  <2>1. answer[r] = "proceed" /\ pc[r] \in {"model", "save"} /\ outcome[r] \notin {"ERROR", "TERMINATED"}
    BY DEF PastApproval, IInv, OutcomesLast
  <2> QED BY <2>1 DEF IInv, ApprovedSoFar
<1> QED BY Invariant, <1>1, PTL

\* The tokens a run reports are between those its responses took and twice as
\* many.
THEOREM TokensBounded == Spec => []TokensWithinTwice
<1>1. IInv => TokensWithinTwice
  BY DEF IInv
<1> QED BY Invariant, <1>1, PTL

\* A request that brings a rejection never runs a tool of the rejected response,
\* not even when the model calls it again.
THEOREM RejectionKept == Spec => RejectedToolsDoNotRun
<1> DEFINE Kept(r) == answer[r] = "reject" /\ ran'[r] # ran[r] =>
                          \A j \in DOMAIN calls[Final(checkpoint[r]).of] :
                              Called(r) # calls[Final(checkpoint[r]).of][j]
<1>1. IInv /\ Next => \A r \in Request : Kept(r)
  <2> SUFFICES ASSUME IInv, Next, NEW r \in Request, answer[r] = "reject", ran'[r] # ran[r]
               PROVE  \A j \in DOMAIN calls[Final(checkpoint[r]).of] :
                          Called(r) # calls[Final(checkpoint[r]).of][j]
    OBVIOUS
  <2>1. ran \in [Request -> [Call -> Nat]]
    BY DEF IInv, TypeOK, HistoryTyped
  <2>2. ASSUME NEW q \in Request, Runs(q), q # r PROVE FALSE
    BY <2>1, <2>2 DEF Runs
  <2>3. MayRun(r)
    <3>1. \A q \in Request : Execution(q) \/ run(q) \/ Crash(q) => ran' = ran
      BY DEF Execution, run, Ask, ReadExecution, Refuse, MarkInProgress, Save, Crash,
          ModelAnswers, ModelCalls, ModelFails, Resume, ResumeWithoutCalls, history
    <3>2. \A q \in Request : SkipCall(q) \/ AskApproval(q) \/ RejectCall(q) \/ ReturnDirect(q) \/ AskAgain(q) => ran' = ran
      BY DEF SkipCall, AskApproval, RejectCall, ReturnDirect, AskAgain, history
    <3>3. \E q \in Request : (RunTool(q) \/ ToolFails(q))
      BY <3>1, <3>2 DEF Next, ToolCalls
    <3> QED BY <3>3, <2>2 DEF RunTool, ToolFails
  <2>4. pc[r] = "calls" /\ Called(r) \in toolsInstance[r]
    BY <2>3 DEF MayRun
  <2>5. Final(checkpoint[r]).of \in Response
    BY ToolAssumption DEF IInv, CallsKnown, QuestionsKnown, EndsWithResponse, TypeOK,
        ModelTyped, Response
  <2>6. calls[Final(checkpoint[r]).of] \in Seq(Name)
    BY <2>5 DEF IInv, TypeOK, ModelTyped
  <2>7. \A j \in DOMAIN calls[Final(checkpoint[r]).of] : j \in 1..Len(calls[Final(checkpoint[r]).of])
    BY <2>6
  <2> QED BY <2>4, <2>7 DEF IInv, RejectedRemoved
<1>2. IInv /\ [Next]_vars => [\A r \in Request : Kept(r)]_vars
  BY <1>1
<1> QED BY Invariant, <1>2, PTL DEF Spec, RejectedToolsDoNotRun

-----------------------------------------------------------------------------

LEMMA SeqFacts ==
    ASSUME NEW ms \in Seq(Message)
    PROVE  /\ Len(ms) \in Nat /\ DOMAIN ms = 1..Len(ms)
           /\ \A k \in DOMAIN ms : /\ ms[k] \in Message /\ ms[k].of \in Nat
                                   /\ ms[k].call \in Nat
                                   /\ ms[k].role \in {"user", "assistant", "tool"}
<1>1. Len(ms) \in Nat /\ DOMAIN ms = 1..Len(ms)
  OBVIOUS
<1>2. \A k \in DOMAIN ms : ms[k] \in Message
  BY <1>1
<1>3. \A m \in Message : /\ m.of \in Nat /\ m.call \in Nat
                         /\ m.role \in {"user", "assistant", "tool"}
  BY ToolAssumption DEF Message
<1> QED BY <1>1, <1>2, <1>3

LEMMA AppendFacts ==
    ASSUME NEW ms \in Seq(Message), NEW m \in Message
    PROVE  /\ Append(ms, m) \in Seq(Message)
           /\ DOMAIN Append(ms, m) = 1..(Len(ms) + 1)
           /\ \A k \in 1..Len(ms) : Append(ms, m)[k] = ms[k]
           /\ Append(ms, m)[Len(ms) + 1] = m
<1> DEFINE new == Append(ms, m)
<1>1. /\ new \in Seq(Message) /\ Len(new) = Len(ms) + 1
      /\ \A k \in 1..Len(ms) : new[k] = ms[k]
      /\ new[Len(ms) + 1] = m
  OBVIOUS
<1> HIDE DEF new
<1>2. DOMAIN new = 1..Len(new)
  BY <1>1
<1> QED BY <1>1, <1>2 DEF new

\* Later responses, and calls that no tool has, disturb no list of messages.
LEMMA FineKept ==
    ASSUME NEW ms \in Seq(Message), NEW known \in Nat, NEW later \in Nat, known <= later,
           NEW called, NEW called2, NEW open, NEW open2,
           \A b \in 1..known : called2[b] = called[b],
           \A b \in 1..known : \A j \in DOMAIN called[b] : <<b, j>> \in open => <<b, j>> \in open2,
           Fine(ms, known, called, open)
    PROVE  Fine(ms, later, called2, open2)
<1>1. InOrder(ms, later)
  BY SeqFacts DEF Fine, InOrder
<1>2. ASSUME NEW k \in DOMAIN ms, ms[k].role = "assistant",
             NEW j \in DOMAIN called2[ms[k].of]
      PROVE  <<ms[k].of, j>> \in open2 \/ \E l \in DOMAIN ms : ms[l] = ToolMessage(ms[k].of, j)
  <2>1. ms[k].of \in 1..known
    BY <1>2, SeqFacts DEF Fine, InOrder
  <2>2. j \in DOMAIN called[ms[k].of]
    BY <1>2, <2>1
  <2>3. <<ms[k].of, j>> \in open \/ \E l \in DOMAIN ms : ms[l] = ToolMessage(ms[k].of, j)
    BY <1>2, <2>2 DEF Fine, Answered
  <2> QED BY <2>1, <2>2, <2>3
<1> QED BY <1>1, <1>2 DEF Fine, Answered

LEMMA FineAtFirst ==
    ASSUME NEW known \in Nat, NEW called, NEW open
    PROVE  Fine(<<UserMessage>>, known, called, open)
<1> DEFINE ms == <<UserMessage>>
<1>1. DOMAIN ms = {1} /\ ms[1] = UserMessage /\ ms # <<>>
  OBVIOUS
<1>2. UserMessage.role = "user" /\ UserMessage.of = 0
  BY DEF UserMessage, NoResponse
<1> HIDE DEF ms
<1>3. Fine(ms, known, called, open)
  BY <1>1, <1>2 DEF Fine, InOrder, Answered
<1> QED BY <1>3 DEF ms

\* A new response: its calls are open.
LEMMA FineResponse ==
    ASSUME NEW ms \in Seq(Message), NEW known \in Nat, known + 1 \in Response,
           NEW called, NEW open, Fine(ms, known, called, open),
           \A j \in DOMAIN called[known + 1] : <<known + 1, j>> \in open
    PROVE  Fine(Append(ms, Assistant(known + 1)), known + 1, called, open)
<1> DEFINE m == Assistant(known + 1)
           new == Append(ms, m)
<1>1. m \in Message /\ m.role = "assistant" /\ m.of = known + 1 /\ m.call = 0
  BY AssistantTyped DEF Assistant
<1> HIDE DEF m
<1>2. /\ DOMAIN new = 1..(Len(ms) + 1) /\ new[Len(ms) + 1] = m
      /\ \A k \in 1..Len(ms) : new[k] = ms[k]
  BY <1>1, AppendFacts
<1> HIDE DEF new
<1>3. /\ Len(ms) \in Nat \ {0} /\ DOMAIN ms = 1..Len(ms) /\ ms[1] = UserMessage
      /\ \A k \in DOMAIN ms : ms[k].of \in Nat /\ ms[k].of <= known /\ ms[k].of # known + 1
  <2>1. ms # <<>> /\ ms[1] = UserMessage
    BY DEF Fine, InOrder
  <2>2. \A k \in DOMAIN ms : ms[k].of \in Nat /\ ms[k].of <= known
    BY SeqFacts DEF Fine, InOrder
  <2>3. Len(ms) \in Nat \ {0} /\ DOMAIN ms = 1..Len(ms)
    BY <2>1
  <2> QED BY <2>1, <2>2, <2>3
<1>4. \A k \in DOMAIN new : k \in DOMAIN ms \/ k = Len(ms) + 1
  BY <1>2, <1>3
<1>5. new # <<>> /\ new[1] = UserMessage
  BY <1>2, <1>3
<1>6. ASSUME NEW k \in DOMAIN new
      PROVE  /\ new[k].role = "tool" => /\ new[k - 1].of = new[k].of
                                        /\ new[k - 1].call < new[k].call
             /\ new[k].of <= known + 1
             /\ new[k].role = "assistant" =>
                   /\ new[k].of > 0 /\ new[k].call = 0
                   /\ \A l \in DOMAIN new :
                         new[l].role = "assistant" /\ new[l].of = new[k].of => l = k
  <2>1. CASE k = Len(ms) + 1
    <3>1. new[k] = m
      BY <1>2, <2>1
    <3>2. \A l \in DOMAIN new : new[l].of = known + 1 => l = k
      BY <1>2, <1>3, <1>4, <2>1
    <3> QED BY <1>1, <3>1, <3>2
  <2>2. CASE k \in DOMAIN ms
    <3>1. new[k] = ms[k]
      BY <1>2, <1>3, <2>2
    <3>2. ms[k].role = "tool" => k - 1 \in DOMAIN ms
      <4>1. ms[1].role = "user"
        BY <1>3 DEF UserMessage
      <4> QED BY <1>3, <2>2, <4>1
    <3>3. ms[k].role = "tool" => new[k - 1] = ms[k - 1]
      BY <1>2, <1>3, <3>2
    <3>4. \A l \in DOMAIN new : (l \in DOMAIN ms /\ new[l] = ms[l]) \/ new[l].of # ms[k].of
      BY <1>1, <1>2, <1>3, <1>4, <2>2
    <3> QED BY <1>3, <2>2, <3>1, <3>3, <3>4 DEF Fine, InOrder
  <2> QED BY <1>4, <2>1, <2>2
<1>7. InOrder(new, known + 1)
  BY <1>5, <1>6 DEF InOrder
<1>8. ASSUME NEW k \in DOMAIN new, new[k].role = "assistant", NEW j \in DOMAIN called[new[k].of]
      PROVE  <<new[k].of, j>> \in open \/ \E l \in DOMAIN new : new[l] = ToolMessage(new[k].of, j)
  <2>1. CASE k = Len(ms) + 1
    BY <1>1, <1>2, <1>8, <2>1
  <2>2. CASE k \in DOMAIN ms
    <3>1. new[k] = ms[k]
      BY <1>2, <1>3, <2>2
    <3>2. <<ms[k].of, j>> \in open \/ \E l \in DOMAIN ms : ms[l] = ToolMessage(ms[k].of, j)
      BY <1>8, <2>2, <3>1 DEF Fine, Answered
    <3>3. \A l \in DOMAIN ms : l \in DOMAIN new /\ new[l] = ms[l]
      BY <1>2, <1>3
    <3> QED BY <3>1, <3>2, <3>3
  <2> QED BY <1>4, <2>1, <2>2
<1>9. Fine(new, known + 1, called, open)
  BY <1>7, <1>8 DEF Fine, Answered
<1> QED BY <1>9 DEF new, m

\* The output of the next call.
LEMMA FineOutput ==
    ASSUME NEW ms \in Seq(Message), NEW known \in Nat, NEW called, NEW open,
           NEW b \in 0..MaxResponses, NEW j \in 0..MaxCalls, b <= known,
           Final(ms).of = b, Final(ms).call < j,
           Fine(ms, known, called, open)
    PROVE  Fine(Append(ms, ToolMessage(b, j)), known, called, open \ {<<b, j>>})
<1> DEFINE m == ToolMessage(b, j)
           new == Append(ms, m)
<1>1. m \in Message /\ m.role = "tool" /\ m.of = b /\ m.call = j
  BY ToolMessageTyped DEF ToolMessage
<1>0. m = ToolMessage(b, j)
  OBVIOUS
<1> HIDE DEF m
<1>2. /\ DOMAIN new = 1..(Len(ms) + 1) /\ new[Len(ms) + 1] = m
      /\ \A k \in 1..Len(ms) : new[k] = ms[k]
  BY <1>1, AppendFacts
<1> HIDE DEF new
<1>3. Len(ms) \in Nat \ {0} /\ DOMAIN ms = 1..Len(ms) /\ ms[1] = UserMessage
  <2>1. ms # <<>> /\ ms[1] = UserMessage
    BY DEF Fine, InOrder
  <2> QED BY <2>1
<1>4. \A k \in DOMAIN new : k \in DOMAIN ms \/ k = Len(ms) + 1
  BY <1>2, <1>3
<1>5. new # <<>> /\ new[1] = UserMessage
  BY <1>2, <1>3
<1>6. ASSUME NEW k \in DOMAIN new
      PROVE  /\ new[k].role = "tool" => /\ new[k - 1].of = new[k].of
                                        /\ new[k - 1].call < new[k].call
             /\ new[k].of <= known
             /\ new[k].role = "assistant" =>
                   /\ new[k].of > 0 /\ new[k].call = 0
                   /\ \A l \in DOMAIN new :
                         new[l].role = "assistant" /\ new[l].of = new[k].of => l = k
  <2>1. CASE k = Len(ms) + 1
    <3>1. new[k] = m /\ new[k - 1] = Final(ms)
      BY <1>2, <1>3, <2>1 DEF Final
    <3> QED BY <1>1, <3>1
  <2>2. CASE k \in DOMAIN ms
    <3>1. new[k] = ms[k]
      BY <1>2, <1>3, <2>2
    <3>2. ms[k].role = "tool" => k - 1 \in DOMAIN ms
      <4>1. ms[1].role = "user"
        BY <1>3 DEF UserMessage
      <4> QED BY <1>3, <2>2, <4>1
    <3>3. ms[k].role = "tool" => new[k - 1] = ms[k - 1]
      BY <1>2, <1>3, <3>2
    <3>4. \A l \in DOMAIN new : (l \in DOMAIN ms /\ new[l] = ms[l]) \/ new[l].role # "assistant"
      BY <1>1, <1>2, <1>3, <1>4
    <3> QED BY <2>2, <3>1, <3>3, <3>4 DEF Fine, InOrder
  <2> QED BY <1>4, <2>1, <2>2
<1>7. InOrder(new, known)
  BY <1>5, <1>6 DEF InOrder
<1>8. ASSUME NEW k \in DOMAIN new, new[k].role = "assistant", NEW i \in DOMAIN called[new[k].of]
      PROVE  \/ <<new[k].of, i>> \in open \ {<<b, j>>}
             \/ \E l \in DOMAIN new : new[l] = ToolMessage(new[k].of, i)
  <2>1. k \in DOMAIN ms
    BY <1>1, <1>2, <1>4, <1>8
  <2>2. new[k] = ms[k]
    BY <1>2, <1>3, <2>1
  <2>3. <<ms[k].of, i>> \in open \/ \E l \in DOMAIN ms : ms[l] = ToolMessage(ms[k].of, i)
    BY <1>8, <2>1, <2>2 DEF Fine, Answered
  <2>4. \A l \in DOMAIN ms : l \in DOMAIN new /\ new[l] = ms[l]
    BY <1>2, <1>3
  <2>5. Len(ms) + 1 \in DOMAIN new
    BY <1>2, <1>3
  <2>6. CASE <<ms[k].of, i>> = <<b, j>>
    BY <1>2, <1>0, <2>2, <2>5, <2>6
  <2> QED BY <2>2, <2>3, <2>4, <2>6
<1>9. Fine(new, known, called, open \ {<<b, j>>})
  BY <1>7, <1>8 DEF Fine, Answered
<1> QED BY <1>9 DEF new, m

\* The response is taken away, and its calls with it.
LEMMA FineRejected ==
    ASSUME NEW ms \in Seq(Message), NEW known \in Nat, NEW called, NEW open, NEW open2,
           NEW b, ms # <<>>, Final(ms) = Assistant(b),
           \A p \in open : p[1] # b => p \in open2,
           Fine(ms, known, called, open)
    PROVE  /\ SubSeq(ms, 1, Len(ms) - 1) \in Seq(Message)
           /\ Fine(SubSeq(ms, 1, Len(ms) - 1), known, called, open2)
<1> DEFINE short == SubSeq(ms, 1, Len(ms) - 1)
<1>1. Final(ms).role = "assistant" /\ Final(ms).of = b
  BY DEF Assistant
<1>2. Len(ms) \in Nat \ {0} /\ DOMAIN ms = 1..Len(ms) /\ ms[1] = UserMessage
  BY DEF Fine, InOrder
<1>3. Len(ms) # 1
  BY <1>1, <1>2 DEF Final, UserMessage
<1>4. /\ short \in Seq(Message) /\ Len(short) = Len(ms) - 1
      /\ \A k \in 1..(Len(ms) - 1) : short[k] = ms[k]
  <2>1. \A k \in 1..(Len(ms) - 1) : ms[k] \in Message
    BY <1>2
  <2> QED BY <1>2, <2>1
<1> HIDE DEF short
<1>5. DOMAIN short = 1..(Len(ms) - 1)
  BY <1>4
<1>6. short # <<>> /\ short[1] = UserMessage
  BY <1>2, <1>3, <1>4, <1>5
<1>7. \A k \in DOMAIN short : k \in DOMAIN ms /\ short[k] = ms[k] /\ k # Len(ms)
  BY <1>2, <1>4, <1>5
<1>8. ASSUME NEW k \in DOMAIN short
      PROVE  /\ short[k].role = "tool" => /\ short[k - 1].of = short[k].of
                                          /\ short[k - 1].call < short[k].call
             /\ short[k].of <= known
             /\ short[k].role = "assistant" =>
                   /\ short[k].of > 0 /\ short[k].call = 0
                   /\ \A l \in DOMAIN short :
                         short[l].role = "assistant" /\ short[l].of = short[k].of => l = k
  <2>1. short[k].role = "tool" => k - 1 \in DOMAIN short
    <3>1. short[1].role = "user"
      BY <1>6 DEF UserMessage
    <3> QED BY <1>2, <1>5, <3>1
  <2> QED BY <1>7, <2>1 DEF Fine, InOrder
<1>9. InOrder(short, known)
  BY <1>6, <1>8 DEF InOrder
<1>10. ASSUME NEW k \in DOMAIN short, short[k].role = "assistant",
              NEW j \in DOMAIN called[short[k].of]
       PROVE  \/ <<short[k].of, j>> \in open2
              \/ \E l \in DOMAIN short : short[l] = ToolMessage(short[k].of, j)
  <2>1. short[k] = ms[k] /\ k \in DOMAIN ms /\ k # Len(ms)
    BY <1>7
  <2>2. ms[k].of # b
    BY <1>1, <1>2, <1>10, <2>1 DEF Final, Fine, InOrder
  <2>3. CASE <<ms[k].of, j>> \in open
    BY <2>1, <2>2, <2>3
  <2>4. CASE \E l \in DOMAIN ms : ms[l] = ToolMessage(ms[k].of, j)
    <3>1. PICK l \in DOMAIN ms : ms[l] = ToolMessage(ms[k].of, j)
      BY <2>4
    <3>2. ms[l].role = "tool"
      BY <3>1 DEF ToolMessage
    <3>3. l # Len(ms)
      BY <1>1, <3>2 DEF Final
    <3>4. l \in DOMAIN short
      BY <1>2, <1>5, <3>1, <3>3
    <3> QED BY <1>7, <2>1, <3>1, <3>4
  <2> QED BY <1>10, <2>1, <2>3, <2>4 DEF Fine, Answered
<1>11. Fine(short, known, called, open2)
  BY <1>9, <1>10 DEF Fine, Answered
<1> QED BY <1>4, <1>11 DEF short

\* Responses are only added, and what has been rejected or not found stays so.
LEMMA HistoryGrows ==
    ASSUME IInv, [Next]_vars
    PROVE  /\ responses \in Nat /\ responses' \in Nat /\ responses <= responses'
           /\ \A b \in 1..responses : calls'[b] = calls[b]
           /\ missing \subseteq missing'
           /\ overPopped => overPopped'
<1>1. responses \in Nat
  BY ToolAssumption DEF IInv, TypeOK, ModelTyped
<1>2. ASSUME NEW r \in Request, NEW names \in NonEmpty, ModelCalls(r, names)
      PROVE  /\ responses' = responses + 1
             /\ \A b \in 1..responses : calls'[b] = calls[b]
             /\ missing' = missing /\ overPopped' = overPopped
  BY <1>2, ModelCallsEffect DEF IInv, ModelCalls, history
<1>3. ASSUME NEW r \in Request, SkipCall(r) \/ RejectCall(r)
      PROVE  /\ responses' = responses /\ calls' = calls /\ missing \subseteq missing'
             /\ overPopped => overPopped'
  <2>1. CASE SkipCall(r)
    BY <2>1 DEF SkipCall, model
  <2>2. CASE RejectCall(r)
    <3>1. responses' = responses /\ calls' = calls /\ missing' = missing
      BY <2>2 DEF RejectCall, model
    <3>2. overPopped => overPopped'
      BY Zenon, <2>2 DEF RejectCall
    <3> QED BY <3>1, <3>2
  <2> QED BY <1>3, <2>1, <2>2
<1>4. CASE UNCHANGED <<responses, calls, missing, overPopped>>
  BY <1>1, <1>4
<1> QED
  BY <1>1, <1>2, <1>3, <1>4
     DEF Next, Execution, run, ToolCalls, vars, model, history, Ask, ReadExecution, Refuse,
         MarkInProgress, Save, Crash, ModelAnswers, ModelFails, Resume, ResumeWithoutCalls,
         AskApproval, RunTool, ToolFails, ReturnDirect, AskAgain

LEMMA AnsweredKept ==
    ASSUME IInv, [Next]_vars, NEW ms \in Seq(Message), NEW open, AnsweredBut(ms, open)
    PROVE  Fine(ms, responses', calls', missing' \cup open)
BY HistoryGrows, FineKept DEF AnsweredBut

LEMMA FinalKept ==
    ASSUME IInv, [Next]_vars, NEW ms \in Seq(Message), AnsweredToFinal(ms)
    PROVE  Fine(ms, responses', calls', missing' \cup From(Final(ms).of, 1))
BY AnsweredKept DEF AnsweredToFinal

\* Where a request stands.
Place(r) == <<pc[r], outcome[r], answer[r], checkpoint[r], messages[r], response[r], index[r]>>

LEMMA OthersKept ==
    ASSUME IInv, [Next]_vars, NEW q \in Request, MessagesOf(q), UNCHANGED Place(q)
    PROVE  MessagesOf(q)'
<1>1. messages[q] \in Seq(Message) /\ checkpoint[q] \in Seq(Message)
  BY DEF IInv, TypeOK, ControlTyped, LocalTyped
<1>2. checkpoint[q] # <<>> =>
          Fine(checkpoint[q], responses', calls', missing' \cup From(Final(checkpoint[q]).of, 1))
  BY <1>1, FinalKept DEF MessagesOf
<1>3. pc[q] = "save" /\ outcome[q] = "STOPPED" =>
          Fine(messages[q], responses', calls', missing' \cup From(Final(messages[q]).of, 1))
  BY <1>1, FinalKept DEF MessagesOf
<1>4. pc[q] = "model" => Fine(messages[q], responses', calls', missing' \cup {})
  BY <1>1, AnsweredKept DEF MessagesOf
<1>5. pc[q] \in {"calls", "resumedCalls"} =>
          Fine(messages[q], responses', calls', missing' \cup From(response[q], index[q]))
  BY <1>1, AnsweredKept DEF MessagesOf
<1> QED
  BY <1>2, <1>3, <1>4, <1>5 DEF MessagesOf, AnsweredToFinal, AnsweredBut, Place

\* A request that neither asks the model nor handles calls nor stops.
LEMMA QuietKept ==
    ASSUME IInv, [Next]_vars, NEW q \in Request, MessagesOf(q), checkpoint'[q] = checkpoint[q],
           pc'[q] \notin {"model", "calls", "resumedCalls"},
           pc'[q] = "save" => outcome'[q] # "STOPPED"
    PROVE  MessagesOf(q)'
<1>1. checkpoint[q] \in Seq(Message)
  BY DEF IInv, TypeOK, ControlTyped
<1>2. checkpoint[q] # <<>> =>
          Fine(checkpoint[q], responses', calls', missing' \cup From(Final(checkpoint[q]).of, 1))
  BY <1>1, FinalKept DEF MessagesOf
<1> QED BY <1>2 DEF MessagesOf, AnsweredToFinal, AnsweredBut

LEMMA CheckpointKept ==
    ASSUME IInv, [Next]_vars, NEW q \in Request, MessagesOf(q), checkpoint'[q] = checkpoint[q],
           checkpoint'[q] # <<>>
    PROVE  AnsweredToFinal(checkpoint[q])'
<1>1. checkpoint[q] \in Seq(Message)
  BY DEF IInv, TypeOK, ControlTyped
<1>2. Fine(checkpoint[q], responses', calls', missing' \cup From(Final(checkpoint[q]).of, 1))
  BY <1>1, FinalKept DEF MessagesOf
<1> QED BY <1>2 DEF AnsweredToFinal, AnsweredBut

\* The question of the row stays what it was.
LEMMA QuestionKept ==
    ASSUME IInv, [Next]_vars, question' = question,
           question # <<>> => AnsweredToFinal(question)
    PROVE  question' # <<>> => AnsweredToFinal(question)'
<1>1. question \in Seq(Message)
  BY DEF IInv, TypeOK, RowTyped
<1>2. question # <<>> =>
          Fine(question, responses', calls', missing' \cup From(Final(question).of, 1))
  BY <1>1, FinalKept
<1> QED BY <1>2 DEF AnsweredToFinal, AnsweredBut

\* Request r takes a step that changes its own place at most, and not the question.
LEMMA StepKept ==
    ASSUME IInv, [Next]_vars, MessagesSoFar, ~ overPopped, question' = question,
           NEW r \in Request, \A q \in Request \ {r} : UNCHANGED Place(q),
           MessagesOf(r)'
    PROVE  MessagesSoFar'
<1>1. question' # <<>> => AnsweredToFinal(question)'
  BY QuestionKept DEF MessagesSoFar
<1>2. \A q \in Request \ {r} : MessagesOf(q)'
  BY OthersKept DEF MessagesSoFar
<1> QED BY <1>1, <1>2 DEF MessagesSoFar

\* Request r takes a step after which it is quiet.
LEMMA QuietStep ==
    ASSUME IInv, [Next]_vars, MessagesSoFar, ~ overPopped, question' = question,
           UNCHANGED <<answer, checkpoint, messages, response, index>>,
           NEW r \in Request,
           NEW to \in {"resume", "done", "save"}, pc' = [pc EXCEPT ![r] = to],
           \/ outcome' = outcome /\ to # "save"
           \/ \E e \in {"FINISHED", "ERROR", "TERMINATED"} : outcome' = [outcome EXCEPT ![r] = e]
    PROVE  MessagesSoFar'
<1>1. DOMAIN pc = Request /\ DOMAIN outcome = Request
  BY DEF IInv, TypeOK, ControlTyped
<1>2. \A q \in Request \ {r} : UNCHANGED Place(q)
  BY <1>1 DEF Place
<1>3. pc'[r] = to /\ (to = "save" => outcome'[r] # "STOPPED")
  BY <1>1
<1>4. MessagesOf(r)'
  BY <1>3, QuietKept DEF MessagesSoFar
<1> QED BY <1>2, <1>4, StepKept

LEMMA MessagesNext == IInv /\ MessagesSoFar /\ [Next]_vars => MessagesSoFar'
<1> SUFFICES ASSUME IInv, MessagesSoFar, [Next]_vars PROVE MessagesSoFar'
  OBVIOUS
<1>a. CASE overPopped'
  BY <1>a DEF MessagesSoFar
<1> SUFFICES ASSUME ~ overPopped' PROVE MessagesSoFar'
  BY <1>a
<1>b. ~ overPopped
  BY HistoryGrows
<1>c. /\ question # <<>> => AnsweredToFinal(question)
      /\ \A q \in Request : MessagesOf(q)
  BY <1>b DEF MessagesSoFar
<1>1. /\ pc \in [Request -> {"idle", "mark", "markRetry", "resume", "model", "calls",
                             "resumedCalls", "save", "done"}]
      /\ outcome \in [Request -> {"none", "FINISHED", "STOPPED", "ERROR", "TERMINATED"}]
      /\ answer \in [Request -> {"none", "proceed", "reject"}]
      /\ checkpoint \in [Request -> Seq(Message)]
      /\ messages \in [Request -> Seq(Message)]
      /\ response \in [Request -> 0..MaxResponses]
      /\ index \in [Request -> 1..(MaxCalls + 1)]
      /\ question \in Seq(Message)
      /\ OutcomesLast
  BY DEF IInv, TypeOK, ControlTyped, LocalTyped, RowTyped
<1>d. responses' \in Nat
  BY HistoryGrows
<1>2. ASSUME NEW r \in Request, Ask(r) PROVE MessagesSoFar'
  <2>1. /\ pc' = [pc EXCEPT ![r] = "model"]
        /\ messages' = [messages EXCEPT ![r] = <<UserMessage>>]
        /\ UNCHANGED <<question, outcome, answer, checkpoint, response, index>>
    BY <1>2 DEF Ask, Goes, request
  <2>2. \A q \in Request \ {r} : UNCHANGED Place(q)
    BY <1>1, <2>1 DEF Place
  <2>3. pc'[r] = "model" /\ messages'[r] = <<UserMessage>> /\ checkpoint'[r] = checkpoint[r]
    BY <1>1, <2>1
  <2>4. AnsweredBut(messages[r], {})'
    BY <1>d, <2>3, FineAtFirst DEF AnsweredBut
  <2>5. MessagesOf(r)'
    BY <1>c, <2>3, <2>4, CheckpointKept DEF MessagesOf
  <2> QED BY <1>b, <2>1, <2>2, <2>5, StepKept
<1>3. ASSUME NEW r \in Request, NEW a \in {"proceed", "reject"}, ReadExecution(r, a)
      PROVE  MessagesSoFar'
  <2>1. /\ \E p \in {"mark", "markRetry"} : pc' = [pc EXCEPT ![r] = p]
        /\ answer' = [answer EXCEPT ![r] = a]
        /\ checkpoint' = [checkpoint EXCEPT ![r] = question]
        /\ UNCHANGED <<question, outcome, messages, response, index>>
    BY <1>3 DEF ReadExecution, Goes, row, local
  <2>2. \A q \in Request \ {r} : UNCHANGED Place(q)
    BY <1>1, <2>1 DEF Place
  <2>3. pc'[r] \in {"mark", "markRetry"} /\ checkpoint'[r] = question /\ question' = question
    BY <1>1, <2>1
  <2>4. checkpoint'[r] # <<>> => AnsweredToFinal(checkpoint[r])'
    <3>1. question' # <<>> => AnsweredToFinal(question)'
      BY <1>c, <2>3, QuestionKept
    <3> QED BY <2>3, <3>1 DEF AnsweredToFinal, AnsweredBut
  <2>5. MessagesOf(r)'
    BY <2>3, <2>4 DEF MessagesOf
  <2> QED BY <1>b, <2>1, <2>2, <2>5, StepKept
<1>4. ASSUME NEW r \in Request, Refuse(r) PROVE MessagesSoFar'
  <2>1. /\ pc' = [pc EXCEPT ![r] = "done"]
        /\ UNCHANGED <<question, outcome, answer, checkpoint, messages, response, index>>
    BY <1>4 DEF Refuse, Goes, row, request, local
  <2> QED BY <1>b, <2>1, QuietStep
<1>5. ASSUME NEW r \in Request, MarkInProgress(r) PROVE MessagesSoFar'
  <2>1. /\ pc' = [pc EXCEPT ![r] = "resume"]
        /\ UNCHANGED <<outcome, answer, checkpoint, messages, response, index>>
        /\ question' \in {question, checkpoint[r]}
    BY <1>5 DEF MarkInProgress, Goes, request, local
  <2>2. \A q \in Request \ {r} : UNCHANGED Place(q)
    BY <1>1, <2>1 DEF Place
  <2>3. pc'[r] = "resume" /\ checkpoint'[r] = checkpoint[r]
    BY <1>1, <2>1
  <2>4. \A q \in Request : MessagesOf(q)'
    BY <1>c, <2>2, <2>3, OthersKept, QuietKept
  <2>5. question' # <<>> => AnsweredToFinal(question)'
    <3>1. CASE question' = question
      BY <1>c, <3>1, QuestionKept
    <3>2. CASE question' = checkpoint'[r]
      BY <2>4, <3>2 DEF MessagesOf, AnsweredToFinal, AnsweredBut
    <3> QED BY <2>1, <2>3, <3>1, <3>2
  <2> QED BY <2>4, <2>5 DEF MessagesSoFar
<1>6. ASSUME NEW r \in Request, Save(r) PROVE MessagesSoFar'
  <2>1. /\ pc[r] = "save" /\ pc' = [pc EXCEPT ![r] = "done"]
        /\ UNCHANGED <<outcome, answer, checkpoint, messages, response, index>>
        /\ \/ outcome[r] = "STOPPED" /\ question' = messages[r]
           \/ question' = <<>>
           \/ question' = checkpoint[r]
    BY <1>6 DEF Save, Goes, request, local
  <2>2. \A q \in Request \ {r} : UNCHANGED Place(q)
    BY <1>1, <2>1 DEF Place
  <2>3. pc'[r] = "done" /\ checkpoint'[r] = checkpoint[r]
    BY <1>1, <2>1
  <2>4. \A q \in Request : MessagesOf(q)'
    BY <1>c, <2>2, <2>3, OthersKept, QuietKept
  <2>5. question' # <<>> => AnsweredToFinal(question)'
    <3>1. CASE outcome[r] = "STOPPED" /\ question' = messages[r]
      <4>1. AnsweredToFinal(messages[r]) /\ messages[r] \in Seq(Message)
        BY <1>1, <1>c, <2>1, <3>1 DEF MessagesOf
      <4>2. Fine(messages[r], responses', calls', missing' \cup From(Final(messages[r]).of, 1))
        BY <4>1, FinalKept
      <4> QED BY <3>1, <4>2 DEF AnsweredToFinal, AnsweredBut
    <3>2. CASE question' = checkpoint'[r]
      BY <2>4, <3>2 DEF MessagesOf, AnsweredToFinal, AnsweredBut
    <3> QED BY <2>1, <2>3, <3>1, <3>2
  <2> QED BY <2>4, <2>5 DEF MessagesSoFar
<1>7. ASSUME NEW r \in Request, Crash(r) PROVE MessagesSoFar'
  <2>1. /\ pc' = [pc EXCEPT ![r] = "done"]
        /\ UNCHANGED <<question, outcome, answer, checkpoint, messages, response, index>>
    BY <1>7 DEF Crash, row, request, local
  <2> QED BY <1>b, <2>1, QuietStep
<1>8. ASSUME NEW r \in Request,
             \/ ModelAnswers(r) \/ ModelFails(r) \/ ResumeWithoutCalls(r)
             \/ ToolFails(r) \/ ReturnDirect(r)
      PROVE  MessagesSoFar'
  <2>1. /\ pc' = [pc EXCEPT ![r] = "save"]
        /\ \E e \in {"FINISHED", "ERROR", "TERMINATED"} : outcome' = [outcome EXCEPT ![r] = e]
    BY <1>8 DEF ModelAnswers, ModelFails, ResumeWithoutCalls, ToolFails, ReturnDirect, Fails, Ends
  <2>2. UNCHANGED <<question, answer, checkpoint, messages, response, index>>
    BY <1>8 DEF ModelAnswers, ModelFails, ResumeWithoutCalls, ToolFails, ReturnDirect, row,
                request, local
  <2> QED BY <1>b, <2>1, <2>2, QuietStep
<1>9. ASSUME NEW r \in Request, NEW names \in NonEmpty, ModelCalls(r, names) PROVE MessagesSoFar'
  <2>1. /\ responses' = responses + 1 /\ responses' \in Response
        /\ \A b \in 1..responses : calls'[b] = calls[b]
        /\ calls'[responses'] = names
    BY <1>9, ModelCallsEffect DEF IInv
  <2>2. /\ pc[r] = "model" /\ pc' = [pc EXCEPT ![r] = "calls"]
        /\ messages' = [messages EXCEPT ![r] = Append(messages[r], Assistant(responses'))]
        /\ response' = [response EXCEPT ![r] = responses']
        /\ index' = [index EXCEPT ![r] = 1]
        /\ UNCHANGED <<question, outcome, answer, checkpoint, missing>>
    BY <1>9, <2>1 DEF ModelCalls, Goes, row, request, history
  <2>3. \A q \in Request \ {r} : UNCHANGED Place(q)
    BY <1>1, <2>2 DEF Place
  <2>4. /\ pc'[r] = "calls" /\ messages'[r] = Append(messages[r], Assistant(responses'))
        /\ response'[r] = responses' /\ index'[r] = 1 /\ checkpoint'[r] = checkpoint[r]
    BY <1>1, <2>2
  <2>5. AnsweredBut(messages[r], {})
    BY <1>c, <2>2 DEF MessagesOf
  <2> DEFINE open == missing' \cup From(responses', 1)
  <2>6. Fine(messages[r], responses, calls', open)
    <3>1. responses \in Nat /\ messages[r] \in Seq(Message)
      BY <1>1, HistoryGrows
    <3>2. Fine(messages[r], responses, calls, missing)
      BY <2>5 DEF AnsweredBut
    <3>3. missing \subseteq open
      BY <2>2
    <3> HIDE DEF open
    <3> QED BY <2>1, <3>1, <3>2, <3>3, FineKept
  <2>7. \A j \in DOMAIN calls'[responses'] : <<responses', j>> \in open
    <3>1. names \in Seq(Name) /\ Len(names) \in 1..MaxCalls
      BY NamesTyped
    <3>2. \A j \in DOMAIN names : j \in 1..MaxCalls
      BY <3>1, ToolAssumption
    <3> QED BY <2>1, <3>2 DEF From
  <2>8. Fine(messages'[r], responses', calls', open)
    <3> HIDE DEF open
    <3>1. responses \in Nat
      BY HistoryGrows
    <3> QED BY <1>1, <2>1, <2>4, <2>6, <2>7, <3>1, FineResponse
  <2>9. Final(messages'[r]) = Assistant(responses')
    BY <1>1, <2>1, <2>4, AssistantTyped, FinalAppend
  <2>10. Final(messages'[r]).of = response'[r] /\ Final(messages'[r]).call < index'[r]
    BY <2>4, <2>9 DEF Assistant
  <2>11. MessagesOf(r)'
    BY <1>c, <2>4, <2>8, <2>10, CheckpointKept DEF MessagesOf, AnsweredBut
  <2> QED BY <1>b, <2>2, <2>3, <2>11, StepKept
<1>10. ASSUME NEW r \in Request, Resume(r) PROVE MessagesSoFar'
  <2>1. /\ pc[r] = "resume" /\ pc' = [pc EXCEPT ![r] = "resumedCalls"]
        /\ Final(checkpoint[r]).role = "assistant"
        /\ messages' = [messages EXCEPT ![r] = checkpoint[r]]
        /\ response' = [response EXCEPT ![r] = Final(checkpoint[r]).of]
        /\ index' = [index EXCEPT ![r] = 1]
        /\ UNCHANGED <<question, outcome, answer, checkpoint>>
    BY <1>10 DEF Resume, Goes, row, request
  <2>2. \A q \in Request \ {r} : UNCHANGED Place(q)
    BY <1>1, <2>1 DEF Place
  <2>3. /\ pc'[r] = "resumedCalls" /\ messages'[r] = checkpoint[r]
        /\ response'[r] = Final(checkpoint[r]).of /\ index'[r] = 1
        /\ checkpoint'[r] = checkpoint[r]
    BY <1>1, <2>1
  <2>4. checkpoint[r] # <<>>
    BY <2>1 DEF IInv, TypeOK, StepsTyped
  <2>5. AnsweredToFinal(checkpoint[r])
    BY <1>c, <2>4 DEF MessagesOf
  <2>6. Fine(checkpoint[r], responses', calls', missing' \cup From(Final(checkpoint[r]).of, 1))
    BY <1>1, <2>5, FinalKept
  <2>7. Final(checkpoint[r]).call = 0
    <3>1. Len(checkpoint[r]) \in DOMAIN checkpoint[r]
      BY <1>1, <2>4
    <3> QED BY <2>1, <2>5, <3>1 DEF AnsweredToFinal, AnsweredBut, Fine, InOrder, Final
  <2>8. AnsweredBut(messages[r], From(response[r], index[r]))'
    BY <2>3, <2>6 DEF AnsweredBut
  <2>9. Final(messages'[r]).of = response'[r] /\ Final(messages'[r]).call < index'[r]
    BY <2>3, <2>7
  <2>10. checkpoint'[r] # <<>> => AnsweredToFinal(checkpoint[r])'
    BY <1>c, <2>3, CheckpointKept
  <2>11. MessagesOf(r)'
    BY <2>3, <2>8, <2>9, <2>10 DEF MessagesOf
  <2> QED BY <1>b, <2>1, <2>2, <2>11, StepKept
<1>11. ASSUME NEW r \in Request, AskApproval(r) PROVE MessagesSoFar'
  <2>1. /\ pc[r] = "calls" /\ pc' = [pc EXCEPT ![r] = "save"]
        /\ outcome' = [outcome EXCEPT ![r] = "STOPPED"]
        /\ UNCHANGED <<question, answer, checkpoint, messages, response, index>>
    BY <1>11 DEF AskApproval, Ends, row, request, local
  <2>2. \A q \in Request \ {r} : UNCHANGED Place(q)
    BY <1>1, <2>1 DEF Place
  <2>3. pc'[r] = "save" /\ messages'[r] = messages[r] /\ checkpoint'[r] = checkpoint[r]
    BY <1>1, <2>1
  <2>4. AnsweredBut(messages[r], From(response[r], index[r])) /\ Final(messages[r]).of = response[r]
    BY <1>c, <2>1 DEF MessagesOf
  <2>5. Fine(messages[r], responses', calls', missing' \cup From(response[r], index[r]))
    BY <1>1, <2>4, AnsweredKept
  <2>6. From(response[r], index[r]) \subseteq From(Final(messages[r]).of, 1)
    BY <1>1, <2>4, ToolAssumption DEF From
  <2>7. Fine(messages[r], responses', calls', missing' \cup From(Final(messages[r]).of, 1))
    BY <1>1, <1>d, <2>5, <2>6, FineKept
  <2>8. MessagesOf(r)'
    BY <1>c, <2>3, <2>7, CheckpointKept DEF MessagesOf, AnsweredToFinal, AnsweredBut
  <2> QED BY <1>b, <2>1, <2>2, <2>8, StepKept
<1>12. ASSUME NEW r \in Request, SkipCall(r) PROVE MessagesSoFar'
  <2>1. /\ pc[r] \in {"calls", "resumedCalls"}
        /\ index' = [index EXCEPT ![r] = index[r] + 1]
        /\ missing' = missing \cup {<<response[r], index[r]>>}
        /\ UNCHANGED <<question, pc, outcome, answer, checkpoint, messages, response>>
    BY <1>12 DEF SkipCall, Handles, NextCall, row, control, request
  <2>2. \A q \in Request \ {r} : UNCHANGED Place(q)
    BY <1>1, <2>1 DEF Place
  <2>3. index'[r] = index[r] + 1 /\ index[r] \in Nat /\ checkpoint'[r] = checkpoint[r]
    BY <1>1, <2>1
  <2>4. Fine(messages[r], responses', calls', missing' \cup From(response[r], index[r]))
    BY <1>1, <1>c, <2>1, AnsweredKept DEF MessagesOf
  <2>5. missing' \cup From(response[r], index[r]) \subseteq missing' \cup From(response[r], index'[r])
    BY <2>1, <2>3 DEF From
  <2>6. Fine(messages[r], responses', calls', missing' \cup From(response[r], index'[r]))
    BY <1>1, <1>d, <2>4, <2>5, FineKept
  <2>7. pc[r] = "calls" \/ (pc[r] = "resumedCalls" /\ answer[r] = "proceed") =>
            Final(messages[r]).of = response[r] /\ Final(messages[r]).call < index'[r]
    <3>1. CASE pc[r] = "calls" \/ (pc[r] = "resumedCalls" /\ answer[r] = "proceed")
      <4>1. Final(messages[r]).of = response[r] /\ Final(messages[r]).call < index[r]
        BY <1>c, <3>1 DEF MessagesOf
      <4>2. messages[r] # <<>>
        BY <2>4 DEF Fine, InOrder
      <4>3. Final(messages[r]).call \in Nat
        <5>1. Len(messages[r]) \in DOMAIN messages[r]
          BY <1>1, <4>2
        <5> QED BY <1>1, <5>1, SeqFacts DEF Final
      <4> QED BY <2>3, <4>1, <4>3
    <3> QED BY <3>1
  <2>8. /\ pc'[r] = pc[r] /\ answer'[r] = answer[r] /\ messages'[r] = messages[r]
        /\ response'[r] = response[r] /\ pc'[r] \notin {"save", "model"}
    BY <2>1
  <2>9. checkpoint'[r] # <<>> => AnsweredToFinal(checkpoint[r])'
    BY <1>c, <2>3, CheckpointKept
  <2>10. AnsweredBut(messages[r], From(response[r], index[r]))'
    BY <2>6, <2>8 DEF AnsweredBut
  <2>11. MessagesOf(r)'
    BY <2>7, <2>8, <2>9, <2>10 DEF MessagesOf
  <2> QED BY <1>b, <2>1, <2>2, <2>11, StepKept
<1>13. ASSUME NEW r \in Request, RunTool(r) PROVE MessagesSoFar'
  <2> DEFINE b == response[r]
             j == index[r]
  <2>1. /\ pc[r] = "calls" \/ (pc[r] = "resumedCalls" /\ answer[r] = "proceed")
        /\ index' = [index EXCEPT ![r] = index[r] + 1]
        /\ messages' = [messages EXCEPT ![r] = Append(messages[r], ToolMessage(b, j))]
        /\ UNCHANGED <<question, pc, outcome, answer, checkpoint, response>>
    BY <1>13 DEF RunTool, MayRun, NextCall, row, control, request
  <2>2. \A q \in Request \ {r} : UNCHANGED Place(q)
    BY <1>1, <2>1 DEF Place
  <2>3. /\ index'[r] = j + 1 /\ checkpoint'[r] = checkpoint[r]
        /\ messages'[r] = Append(messages[r], ToolMessage(b, j))
    BY <1>1, <2>1
  <2>4. b \in 0..MaxResponses /\ b \in 1..responses /\ j \in 1..MaxCalls
    BY <1>1, <1>13, CalledTyped DEF RunTool, MayRun, IInv
  <2>5. j \in 0..MaxCalls /\ j \in Nat /\ b <= responses'
    BY <2>4, ToolAssumption, HistoryGrows
  <2>6. Fine(messages[r], responses', calls', missing' \cup From(b, j))
    BY <1>1, <1>c, <2>1, AnsweredKept DEF MessagesOf
  <2>7. Final(messages[r]).of = b /\ Final(messages[r]).call < j
    BY <1>c, <2>1 DEF MessagesOf
  <2>8. (missing' \cup From(b, j)) \ {<<b, j>>} \subseteq missing' \cup From(b, j + 1)
    BY <2>5 DEF From
  <2>9. ToolMessage(b, j) \in Message
    BY <2>4, <2>5, ToolMessageTyped
  <2>10. Append(messages[r], ToolMessage(b, j)) \in Seq(Message)
         /\ Final(Append(messages[r], ToolMessage(b, j))) = ToolMessage(b, j)
    BY <1>1, <2>9, FinalAppend
  <2> HIDE DEF b, j
  <2>11. Fine(Append(messages[r], ToolMessage(b, j)), responses', calls',
              (missing' \cup From(b, j)) \ {<<b, j>>})
    BY <1>1, <1>d, <2>4, <2>5, <2>6, <2>7, FineOutput
  <2>12. Fine(messages'[r], responses', calls', missing' \cup From(b, j + 1))
    <3> DEFINE before == (missing' \cup From(b, j)) \ {<<b, j>>}
               after == missing' \cup From(b, j + 1)
               ms == Append(messages[r], ToolMessage(b, j))
    <3>1. before \subseteq after /\ ms \in Seq(Message) /\ Fine(ms, responses', calls', before)
      BY <2>8, <2>10, <2>11
    <3> HIDE DEF before, after, ms
    <3>2. Fine(ms, responses', calls', after)
      BY <1>d, <3>1, FineKept
    <3> QED BY <2>3, <3>2 DEF ms, after
  <2>13. Final(messages'[r]).of = b /\ Final(messages'[r]).call < j + 1
    BY <2>3, <2>5, <2>10 DEF ToolMessage
  <2>14. pc'[r] = pc[r] /\ response'[r] = b
    BY <2>1 DEF b
  <2>15. MessagesOf(r)'
    BY <1>c, <2>1, <2>3, <2>12, <2>13, <2>14, CheckpointKept DEF MessagesOf, AnsweredBut
  <2> QED BY <1>b, <2>1, <2>2, <2>15, StepKept
<1>14. ASSUME NEW r \in Request, RejectCall(r) PROVE MessagesSoFar'
  <2> DEFINE b == response[r]
             short == SubSeq(messages[r], 1, Len(messages[r]) - 1)
  <2>1. /\ pc[r] = "resumedCalls" /\ answer[r] = "reject"
        /\ index' = [index EXCEPT ![r] = index[r] + 1]
        /\ messages' = [messages EXCEPT ![r] = short]
        /\ UNCHANGED <<question, pc, outcome, answer, checkpoint, response, missing>>
    BY <1>14 DEF RejectCall, NextCall, row, control, request
  <2>2. messages[r] # <<>> /\ Final(messages[r]) = Assistant(b)
    BY Zenon, <1>14 DEF RejectCall
  <2>3. \A q \in Request \ {r} : UNCHANGED Place(q)
    BY <1>1, <2>1 DEF Place
  <2>4. messages'[r] = short /\ checkpoint'[r] = checkpoint[r]
    BY <1>1, <2>1
  <2>5. Fine(messages[r], responses', calls', missing' \cup From(b, index[r]))
    BY <1>1, <1>c, <2>1, AnsweredKept DEF MessagesOf
  <2>6. \A p \in missing' \cup From(b, index[r]) : p[1] # b => p \in missing' \cup From(b, index'[r])
    BY DEF From
  <2>7. Fine(short, responses', calls', missing' \cup From(b, index'[r]))
    BY <1>1, <1>d, <2>2, <2>5, <2>6, FineRejected
  <2> HIDE DEF short
  <2>8. MessagesOf(r)'
    BY <1>c, <2>1, <2>4, <2>7, CheckpointKept DEF MessagesOf, AnsweredBut
  <2> QED BY <1>b, <2>1, <2>3, <2>8, StepKept
<1>15. ASSUME NEW r \in Request, AskAgain(r) PROVE MessagesSoFar'
  <2>1. /\ pc[r] \in {"calls", "resumedCalls"} /\ index[r] > Len(calls[response[r]])
        /\ pc' = [pc EXCEPT ![r] = "model"]
        /\ UNCHANGED <<question, outcome, answer, checkpoint, messages, response, index>>
        /\ UNCHANGED <<responses, calls, missing>>
    BY <1>15 DEF AskAgain, CallsHandled, row, model, request, local, history
  <2>2. \A q \in Request \ {r} : UNCHANGED Place(q)
    BY <1>1, <2>1 DEF Place
  <2>3. pc'[r] = "model" /\ messages'[r] = messages[r] /\ checkpoint'[r] = checkpoint[r]
    BY <1>1, <2>1
  <2>4. Fine(messages[r], responses, calls, missing \cup From(response[r], index[r]))
    BY <1>c, <2>1 DEF MessagesOf, AnsweredBut
  <2>5. ASSUME NEW b \in 1..responses, NEW j \in DOMAIN calls[b],
               <<b, j>> \in missing \cup From(response[r], index[r])
        PROVE  <<b, j>> \in missing
    <3>1. calls[b] \in Seq(Name)
      BY ToolAssumption DEF IInv, TypeOK, ModelTyped, Response
    <3>2. j \in 1..Len(calls[b]) /\ Len(calls[b]) \in Nat
      BY <2>5, <3>1
    <3>3. <<b, j>> \notin From(response[r], index[r])
      BY <1>1, <2>1, <3>2 DEF From
    <3> QED BY <2>5, <3>3
  <2>6. Fine(messages[r], responses, calls, missing)
    <3> DEFINE open == missing \cup From(response[r], index[r])
    <3>1. \A b \in 1..responses : \A j \in DOMAIN calls[b] : <<b, j>> \in open => <<b, j>> \in missing
      BY <2>5
    <3>2. responses \in Nat /\ messages[r] \in Seq(Message) /\ Fine(messages[r], responses, calls, open)
      BY <1>1, <2>4, HistoryGrows
    <3> HIDE DEF open
    <3> QED BY <3>1, <3>2, FineKept
  <2>7. AnsweredBut(messages[r], {})'
    BY <2>1, <2>3, <2>6 DEF AnsweredBut
  <2>8. MessagesOf(r)'
    BY <1>c, <2>3, <2>7, CheckpointKept DEF MessagesOf
  <2> QED BY <1>b, <2>1, <2>2, <2>8, StepKept
<1>16. CASE UNCHANGED vars
  <2>1. question' = question /\ \A q \in Request : UNCHANGED Place(q)
    BY <1>16 DEF vars, row, control, request, local, Place
  <2>2. question' # <<>> => AnsweredToFinal(question)'
    BY <1>c, <2>1, QuestionKept
  <2> QED BY <1>c, <2>1, <2>2, OthersKept DEF MessagesSoFar
<1> QED
  BY <1>2, <1>3, <1>4, <1>5, <1>6, <1>7, <1>8, <1>9, <1>10, <1>11, <1>12, <1>13, <1>14, <1>15,
     <1>16 DEF Next, Execution, run, ToolCalls

LEMMA MessagesInit == Init => MessagesSoFar
BY DEF Init, MessagesSoFar, MessagesOf

\* Whatever is approved, rejected or saved, by however many requests, the model is
\* asked with a list it accepts: every response is followed by its outputs, in order,
\* but for calls of names no tool has, and as long as no rejection has removed more
\* than its response (handleResumedToolCalls removes a message for each call).
THEOREM WellFormedMessages == Spec => []ModelGetsWellFormedMessages
<1>1. IInv /\ MessagesSoFar => ModelGetsWellFormedMessages
  <2> SUFFICES ASSUME IInv, MessagesSoFar, NEW r \in Request, pc[r] = "model", ~ overPopped
               PROVE  WellFormed(messages[r])
    BY DEF ModelGetsWellFormedMessages
  <2>1. InOrder(messages[r], responses) /\ Answered(messages[r], calls, missing)
    BY DEF MessagesSoFar, MessagesOf, AnsweredBut, Fine
  <2> QED BY <2>1 DEF WellFormed, InOrder, Answered
<1>2. Init => IInv /\ MessagesSoFar
  BY InvInit, MessagesInit
<1>3. (IInv /\ MessagesSoFar) /\ [Next]_vars => (IInv /\ MessagesSoFar)'
  BY InvNext, MessagesNext
<1> QED BY <1>1, <1>2, <1>3, PTL DEF Spec
=============================================================================
