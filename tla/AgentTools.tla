----------------------------- MODULE AgentTools -----------------------------
(* The tool calls of an agent node (Agent.ts) and the approval of a human    *)
(* that some of them wait for.  A request asks the model, runs the tools the *)
(* model calls and asks again, until the model answers.  A tool marked       *)
(* "Require Human Input" stops the run instead: the messages so far are      *)
(* saved with the execution, and the requests that answer continue from      *)
(* there (buildAgentflow.ts).                                                *)
(*                                                                           *)
(* A response of the model is a number; calls[b] are the names it calls.     *)
EXTENDS Integers, Sequences, FiniteSets

CONSTANTS
    Request,       \* prediction requests for one execution
    Tool,          \* the tools of the agent
    Unknown,       \* names a model may call although no tool has them
    Asks,          \* tools marked "Require Human Input"
    Direct,        \* tools with returnDirect
    Group,         \* agentSelectedTool of each tool: set for tools that come from a
                   \* list, such as those of an MCP server, undefined for the others
    InIteration,   \* the agent is inside an iteration node
    MaxCalls,      \* bound: calls in one response
    MaxResponses   \* bound: responses with calls

ASSUME ToolAssumption ==
    /\ Asks \subseteq Tool
    /\ Direct \subseteq Tool
    /\ Tool \cap Unknown = {}
    /\ InIteration \in BOOLEAN
    /\ MaxCalls \in Nat
    /\ MaxResponses \in Nat

VARIABLES
    rowState,      \* state of the execution row
    question,      \* messages of its stopped record, empty without one
    responses,     \* number of responses with calls so far
    calls,         \* names called by each response
    author,        \* the request that received each response, in a set
    pc,            \* per request: where it is
    answer,        \* per request: what the human said
    checkpoint,    \* per request: the question it read
    messages,      \* per request: the messages for the model
    toolsInstance, \* per request: the tools at hand
    response,      \* per request: the response whose calls it handles
    index,         \* per request: the next call of that response
    outcome,       \* per request: how its run ended
    totalTokens,   \* per request: tokens reported, each response has one
    used,          \* history: tokens of the responses the run is made of
    ran,           \* history: how often each request ran each call
    missing,       \* history: calls for which no tool was found
    overPopped     \* history: a rejection removed more than the response

row     == <<rowState, question>>
model   == <<responses, calls, author>>
control == <<pc, outcome>>
request == <<answer, checkpoint>>
local   == <<messages, toolsInstance, response, index>>
tokens  == <<totalTokens, used>>
history == <<ran, missing, overPopped>>
vars    == <<row, model, control, request, local, tokens, history>>

Name     == Tool \cup Unknown
Response == 1..MaxResponses
Call     == Response \X (1..MaxCalls)

NoResponse == 0

\* A message of the user, of the model or of a tool that was called.
Message == [role: {"user", "assistant", "tool"}, of: 0..MaxResponses, call: 0..MaxCalls]

UserMessage      == [role |-> "user", of |-> NoResponse, call |-> 0]
Assistant(b)     == [role |-> "assistant", of |-> b, call |-> 0]
ToolMessage(b, j) == [role |-> "tool", of |-> b, call |-> j]

Final(ms) == ms[Len(ms)]

\* Inside an iteration nobody is asked.
Asking == IF InIteration THEN {} ELSE Asks

Init ==
    /\ rowState = "NONE"
    /\ question = <<>>
    /\ responses = 0
    /\ calls = [b \in Response |-> <<>>]
    /\ author = [b \in Response |-> {}]
    /\ pc = [r \in Request |-> "idle"]
    /\ answer = [r \in Request |-> "none"]
    /\ checkpoint = [r \in Request |-> <<>>]
    /\ messages = [r \in Request |-> <<>>]
    /\ toolsInstance = [r \in Request |-> {}]
    /\ response = [r \in Request |-> NoResponse]
    /\ index = [r \in Request |-> 1]
    /\ outcome = [r \in Request |-> "none"]
    /\ totalTokens = [r \in Request |-> 0]
    /\ used = [r \in Request |-> 0]
    /\ ran = [r \in Request |-> [c \in Call |-> 0]]
    /\ missing = {}
    /\ overPopped = FALSE

Goes(r, from, to) == pc[r] = from /\ pc' = [pc EXCEPT ![r] = to]

-----------------------------------------------------------------------------
(* The execution row (executeAgentFlow).                                    *)

\* A question: a new execution.
Ask(r) ==
    /\ rowState = "NONE"
    /\ Goes(r, "idle", "model")
    /\ rowState' = "INPROGRESS"
    /\ messages' = [messages EXCEPT ![r] = <<UserMessage>>]
    /\ toolsInstance' = [toolsInstance EXCEPT ![r] = Tool]
    /\ UNCHANGED <<question, model, outcome, request, response, index, tokens, history>>

\* Mutant: every failed execution is taken for one that was stopped before.
MutResumable == rowState \in {"STOPPED", "ERROR"}

\* The execution is stopped, or failed while it was being resumed.
Resumable == rowState = "STOPPED" \/ (rowState = "ERROR" /\ question # <<>>)

\* An answer reads the row; it is not written before the next step.
ReadExecution(r, a) ==
    /\ Resumable
    /\ Goes(r, "idle", IF rowState = "ERROR" THEN "markRetry" ELSE "mark")
    /\ answer' = [answer EXCEPT ![r] = a]
    /\ checkpoint' = [checkpoint EXCEPT ![r] = question]
    /\ UNCHANGED <<row, model, outcome, local, tokens, history>>

\* "Cannot resume execution ..."
Refuse(r) ==
    /\ rowState # "NONE"
    /\ ~ Resumable
    /\ Goes(r, "idle", "done")
    /\ UNCHANGED <<row, model, outcome, request, local, tokens, history>>

\* The row is in progress again; on a retry the failed record is taken off.
MarkInProgress(r) ==
    /\ \/ Goes(r, "mark", "resume") /\ UNCHANGED question
       \/ Goes(r, "markRetry", "resume") /\ question' = checkpoint[r]
    /\ rowState' = "INPROGRESS"
    /\ UNCHANGED <<model, outcome, request, local, tokens, history>>

\* The end of the run: a run that fails leaves the records it started from.
Save(r) ==
    /\ Goes(r, "save", "done")
    /\ rowState' = outcome[r]
    /\ question' = CASE outcome[r] = "STOPPED"  -> messages[r]
                     [] outcome[r] = "FINISHED" -> <<>>
                     [] OTHER                   -> checkpoint[r]
    /\ UNCHANGED <<model, outcome, request, local, tokens, history>>

\* The server dies: the row stays as it is.
Crash(r) ==
    /\ pc[r] \notin {"idle", "done"}
    /\ pc' = [pc EXCEPT ![r] = "done"]
    /\ UNCHANGED <<row, model, outcome, request, local, tokens, history>>

-----------------------------------------------------------------------------
(* The agent node.                                                          *)

Ends(r, result) ==
    /\ pc' = [pc EXCEPT ![r] = "save"]
    /\ outcome' = [outcome EXCEPT ![r] = result]

Fails(r) == \E e \in {"ERROR", "TERMINATED"} : Ends(r, e)

\* Mutant: the loop that waited for a response counts it as well.
MutCounted(r) == IF response[r] = NoResponse THEN 1 ELSE 3

\* A response counts when it arrives, if it follows tool calls, and again when
\* its own calls are handled or it becomes the output.
Counted(r) == IF response[r] = NoResponse THEN 1 ELSE 2

\* The model answers, and the node is finished.
ModelAnswers(r) ==
    /\ pc[r] = "model"
    /\ Ends(r, "FINISHED")
    /\ totalTokens' = [totalTokens EXCEPT ![r] = @ + Counted(r)]
    /\ used' = [used EXCEPT ![r] = @ + 1]
    /\ UNCHANGED <<row, model, request, local, history>>

\* handleToolCalls begins: the response becomes a message.
ModelCalls(r, names) ==
    LET b == responses + 1 IN
    /\ b \in Response
    /\ toolsInstance[r] # {}
    /\ Goes(r, "model", "calls")
    /\ responses' = b
    /\ calls' = [calls EXCEPT ![b] = names]
    /\ author' = [author EXCEPT ![b] = {r}]
    /\ messages' = [messages EXCEPT ![r] = Append(@, Assistant(b))]
    /\ response' = [response EXCEPT ![r] = b]
    /\ index' = [index EXCEPT ![r] = 1]
    /\ totalTokens' = [totalTokens EXCEPT ![r] = @ + Counted(r)]
    /\ used' = [used EXCEPT ![r] = @ + 1]
    /\ UNCHANGED <<row, outcome, request, toolsInstance, history>>

\* The model rejects the messages, or the run is aborted.
ModelFails(r) ==
    /\ pc[r] = "model"
    /\ Fails(r)
    /\ UNCHANGED <<row, model, request, local, tokens, history>>

\* Mutant: the whole checkpoint is kept and the response added once more.
MutResume(r) ==
    /\ Goes(r, "resume", "resumedCalls")
    /\ messages' = [messages EXCEPT ![r] = Append(checkpoint[r], Final(checkpoint[r]))]
    /\ toolsInstance' = [toolsInstance EXCEPT ![r] = Tool]
    /\ response' = [response EXCEPT ![r] = Final(checkpoint[r]).of]
    /\ index' = [index EXCEPT ![r] = 1]
    /\ totalTokens' = [totalTokens EXCEPT ![r] = 1]
    /\ used' = [used EXCEPT ![r] = 1]
    /\ UNCHANGED <<row, model, outcome, request, history>>

\* handleResumedToolCalls begins: the last message of the checkpoint is taken
\* for the response.
Resume(r) ==
    /\ Goes(r, "resume", "resumedCalls")
    /\ Final(checkpoint[r]).role = "assistant"
    /\ messages' = [messages EXCEPT ![r] = checkpoint[r]]
    /\ toolsInstance' = [toolsInstance EXCEPT ![r] = Tool]
    /\ response' = [response EXCEPT ![r] = Final(checkpoint[r]).of]
    /\ index' = [index EXCEPT ![r] = 1]
    /\ totalTokens' = [totalTokens EXCEPT ![r] = 1]
    /\ used' = [used EXCEPT ![r] = 1]
    /\ UNCHANGED <<row, model, outcome, request, history>>

\* When the run stopped behind a call of the same response, the last message is
\* the output of that call, which has no calls: it becomes the node's output.
ResumeWithoutCalls(r) ==
    /\ pc[r] = "resume"
    /\ Final(checkpoint[r]).role # "assistant"
    /\ Ends(r, "FINISHED")
    /\ UNCHANGED <<row, model, request, local, tokens, history>>

-----------------------------------------------------------------------------
(* The loop over the calls of a response.                                   *)

Handles(r) ==
    /\ pc[r] \in {"calls", "resumedCalls"}
    /\ index[r] <= Len(calls[response[r]])

Called(r) == calls[response[r]][index[r]]

NextCall(r) == index' = [index EXCEPT ![r] = @ + 1]

\* A name without a tool is passed over.
SkipCall(r) ==
    /\ Handles(r)
    /\ Called(r) \notin toolsInstance[r]
    /\ NextCall(r)
    /\ missing' = missing \cup {<<response[r], index[r]>>}
    /\ UNCHANGED <<row, model, control, request, messages, toolsInstance, response, tokens,
                   ran, overPopped>>

\* The run stops before the tool is used.
AskApproval(r) ==
    /\ Handles(r)
    /\ pc[r] = "calls"
    /\ Called(r) \in toolsInstance[r] \cap Asking
    /\ Ends(r, "STOPPED")
    /\ totalTokens' = [totalTokens EXCEPT ![r] = @ + 1]
    /\ UNCHANGED <<row, model, request, local, used, history>>

\* Mutant: only the first call of a response asks.
MutMayRun(r) ==
    /\ Handles(r)
    /\ Called(r) \in toolsInstance[r]
    /\ \/ pc[r] = "calls" /\ (Called(r) \notin Asking \/ index[r] > 1)
       \/ pc[r] = "resumedCalls" /\ answer[r] = "proceed"

\* One approval covers every call of the response.
MayRun(r) ==
    /\ Handles(r)
    /\ Called(r) \in toolsInstance[r]
    /\ \/ pc[r] = "calls" /\ Called(r) \notin Asking
       \/ pc[r] = "resumedCalls" /\ answer[r] = "proceed"

Runs(r) == ran' = [ran EXCEPT ![r][<<response[r], index[r]>>] = @ + 1]

RunTool(r) ==
    /\ MayRun(r)
    /\ Runs(r)
    /\ NextCall(r)
    /\ messages' = [messages EXCEPT ![r] = Append(@, ToolMessage(response[r], index[r]))]
    /\ UNCHANGED <<row, model, control, request, toolsInstance, response, tokens,
                   missing, overPopped>>

\* A tool that throws ends the run, whatever it did before.
ToolFails(r) ==
    /\ MayRun(r)
    /\ Runs(r)
    /\ Fails(r)
    /\ UNCHANGED <<row, model, request, local, tokens, missing, overPopped>>

\* Mutant: the rejected tool stays at hand.
MutRemaining(r) == toolsInstance[r]

\* Without the tool and all that share its agentSelectedTool, undefined included.
Remaining(r) == {t \in toolsInstance[r] : Group[t] # Group[Called(r)]}

\* Each rejected call takes the last message away, the first one the response.
RejectCall(r) ==
    LET ms == messages[r] IN
    /\ Handles(r)
    /\ pc[r] = "resumedCalls"
    /\ answer[r] = "reject"
    /\ Called(r) \in toolsInstance[r]
    /\ NextCall(r)
    /\ messages' = [messages EXCEPT ![r] = SubSeq(ms, 1, Len(ms) - 1)]
    /\ toolsInstance' = [toolsInstance EXCEPT ![r] = Remaining(r)]
    /\ overPopped' = (overPopped \/ ms = <<>> \/ Final(ms) # Assistant(response[r]))
    /\ UNCHANGED <<row, model, control, request, response, tokens, ran, missing>>

\* The output of a single tool that returns directly is the node's output.
ReturnsDirectly(r) ==
    LET cs == calls[response[r]] IN Len(cs) = 1 /\ cs[1] \in toolsInstance[r] \cap Direct

\* Mutant: on resumption only the call that was asked about is handled.
MutCallsHandled(r) ==
    /\ pc[r] \in {"calls", "resumedCalls"}
    /\ index[r] > (IF pc[r] = "calls" THEN Len(calls[response[r]]) ELSE 1)

CallsHandled(r) ==
    /\ pc[r] \in {"calls", "resumedCalls"}
    /\ index[r] > Len(calls[response[r]])

ReturnDirect(r) ==
    /\ CallsHandled(r)
    /\ ReturnsDirectly(r)
    /\ Ends(r, "FINISHED")
    /\ UNCHANGED <<row, model, request, local, tokens, history>>

\* The model is asked again.
AskAgain(r) ==
    /\ CallsHandled(r)
    /\ ~ ReturnsDirectly(r)
    /\ pc' = [pc EXCEPT ![r] = "model"]
    /\ UNCHANGED <<row, model, outcome, request, local, tokens, history>>

-----------------------------------------------------------------------------
Execution(r) ==
    \/ Ask(r) \/ Refuse(r) \/ MarkInProgress(r) \/ Save(r)
    \/ \E a \in {"proceed", "reject"} : ReadExecution(r, a)

\* The responses a model may give: any names, in any order.
NonEmpty == UNION {[1..n -> Name] : n \in 1..MaxCalls}

run(r) ==
    \/ ModelAnswers(r) \/ ModelFails(r)
    \/ \E names \in NonEmpty : ModelCalls(r, names)
    \/ Resume(r) \/ ResumeWithoutCalls(r)

ToolCalls(r) ==
    \/ SkipCall(r) \/ AskApproval(r) \/ RunTool(r) \/ ToolFails(r)
    \/ RejectCall(r) \/ ReturnDirect(r) \/ AskAgain(r)

Next == \E r \in Request : Execution(r) \/ run(r) \/ ToolCalls(r) \/ Crash(r)

Spec == Init /\ [][Next]_vars

-----------------------------------------------------------------------------
(* Properties                                                               *)

RowTyped ==
    /\ rowState \in {"NONE", "INPROGRESS", "STOPPED", "FINISHED", "ERROR", "TERMINATED"}
    /\ question \in Seq(Message)

ModelTyped ==
    /\ responses \in 0..MaxResponses
    /\ calls \in [Response -> Seq(Name)]
    /\ author \in [Response -> SUBSET Request]
    /\ \A b \in Response : Len(calls[b]) <= MaxCalls

ControlTyped ==
    /\ pc \in [Request -> {"idle", "mark", "markRetry", "resume", "model", "calls",
                           "resumedCalls", "save", "done"}]
    /\ outcome \in [Request -> {"none", "FINISHED", "STOPPED", "ERROR", "TERMINATED"}]
    /\ answer \in [Request -> {"none", "proceed", "reject"}]
    /\ checkpoint \in [Request -> Seq(Message)]

LocalTyped ==
    /\ messages \in [Request -> Seq(Message)]
    /\ toolsInstance \in [Request -> SUBSET Tool]
    /\ response \in [Request -> 0..MaxResponses]
    /\ index \in [Request -> 1..(MaxCalls + 1)]

HistoryTyped ==
    /\ totalTokens \in [Request -> Nat]
    /\ used \in [Request -> Nat]
    /\ ran \in [Request -> [Call -> Nat]]
    /\ missing \subseteq Call
    /\ overPopped \in BOOLEAN

StepsTyped ==
    /\ \A r \in Request :
          /\ pc[r] \in {"calls", "resumedCalls"} => response[r] \in 1..responses
          /\ pc[r] \in {"mark", "markRetry", "resume"} => checkpoint[r] # <<>>
          /\ pc[r] = "save" => outcome[r] # "none"
    /\ rowState = "STOPPED" => question # <<>>

\* Everything has its type; a request that handles calls has a response, and one
\* that resumes an execution has a question.
TypeOK ==
    RowTyped /\ ModelTyped /\ ControlTyped /\ LocalTyped /\ HistoryTyped /\ StepsTyped

\* The response whose calls request r was asked to approve, and approved.
Approves(r, b) ==
    answer[r] = "proceed" /\ checkpoint[r] # <<>> /\ Final(checkpoint[r]).of = b

\* A request runs a call at most once, and only if it received the call itself
\* and nobody is to be asked about the tool, or if it brings the human's approval
\* of the response: a stop behind other calls, a failure, a retry or an answer
\* that overlaps never repeats what the run before it did on its own.
CallsRunAsApproved ==
    \A r \in Request, c \in Call :
        /\ ran[r][c] <= 1
        /\ ran[r][c] = 1 => \/ Approves(r, c[1])
                            \/ r \in author[c[1]] /\ calls[c[1]][c[2]] \notin Asking

\* A request that brings a rejection runs none of the tools the response called,
\* though the model, which saw them before, may call them again.
RejectedToolsDoNotRun ==
    [][\A r \in Request :
           answer[r] = "reject" /\ ran'[r] # ran[r] =>
               \A j \in DOMAIN calls[Final(checkpoint[r]).of] :
                   Called(r) # calls[Final(checkpoint[r]).of][j]]_vars

\* Every call of a response is followed by its output, in the order of the calls,
\* but for names that no tool has.
WellFormed(ms) ==
    /\ ms # <<>> /\ ms[1] = UserMessage
    /\ \A k \in DOMAIN ms :
          /\ ms[k].role = "tool" => ms[k - 1].of = ms[k].of /\ ms[k - 1].call < ms[k].call
          /\ ms[k].role = "assistant" =>
                \A j \in DOMAIN calls[ms[k].of] :
                    \/ <<ms[k].of, j>> \in missing
                    \/ \E l \in DOMAIN ms : ms[l] = ToolMessage(ms[k].of, j)

\* The model is asked with messages it accepts, through stops, resumptions and
\* rejections, as long as no rejection has removed more than the response.
ModelGetsWellFormedMessages ==
    \A r \in Request : pc[r] = "model" => overPopped \/ WellFormed(messages[r])

\* The calls of the response that request r's human was asked about.
AskedAbout(r) == {c \in Call : /\ c[1] = Final(checkpoint[r]).of
                               /\ c[2] \in DOMAIN calls[c[1]]
                               /\ calls[c[1]][c[2]] \in Tool}

\* The run of request r has got past the approval.
PastApproval(r) ==
    /\ answer[r] = "proceed"
    /\ pc[r] = "model" \/ (pc[r] = "save" /\ outcome[r] \in {"FINISHED", "STOPPED"})

\* When the stop came at the first call of the response, an approval runs all
\* its calls before the model is asked again or the run ends.
ApprovedResponseRuns ==
    \A r \in Request :
        PastApproval(r) /\ Final(checkpoint[r]).role = "assistant"
            => \A c \in AskedAbout(r) : ran[r][c] = 1

\* "waiting for human input before using the tool" (buildAgentflow.ts:1279): a
\* tool the human lets proceed is used, wherever in its response it was called.
ApprovedCallsRun ==
    \A r \in Request :
        PastApproval(r) => \A c \in AskedAbout(r) : \E q \in Request : ran[q][c] > 0

\* "Track total tokens used throughout this process": what is reported is never
\* less than what the responses took, and never more than twice as much.
TokensWithinTwice ==
    \A r \in Request : used[r] <= totalTokens[r] /\ totalTokens[r] <= 2 * used[r]

-----------------------------------------------------------------------------
(* The inductive invariant behind the safety properties.                    *)

\* A request has run nothing before it handles calls, none of the calls ahead of
\* it, and nobody has run what the model has not called yet.
RunsAhead ==
    /\ \A b \in Response : b > responses => author[b] = {}
    /\ \A r \in Request, c \in Call :
          ran[r][c] > 0 => /\ pc[r] \notin {"idle", "mark", "markRetry", "resume"}
                           /\ c[1] <= responses
                           /\ c[2] <= Len(calls[c[1]])
                           /\ pc[r] \in {"calls", "resumedCalls"} /\ c[1] = response[r]
                                 => c[2] < index[r]

\* A message list that may be saved as a question ends with a known response or
\* with the output of one of its calls.
EndsWithResponse(ms) ==
    ms # <<>> /\ Final(ms).of \in 1..responses /\ Final(ms).role \in {"assistant", "tool"}

QuestionsKnown ==
    /\ question # <<>> => EndsWithResponse(question)
    /\ \A r \in Request :
          /\ checkpoint[r] # <<>> => EndsWithResponse(checkpoint[r])
          /\ pc[r] = "calls" \/ (pc[r] = "save" /\ outcome[r] = "STOPPED")
                => EndsWithResponse(messages[r])

\* The calls a request handles are its own or those it was asked about.
CallsKnown ==
    \A r \in Request :
        /\ answer[r] = "none" => checkpoint[r] = <<>>
        /\ answer[r] # "none" => checkpoint[r] # <<>>
        /\ pc[r] = "idle" => answer[r] = "none"
        /\ pc[r] \in {"mark", "markRetry", "resume", "resumedCalls"} => answer[r] # "none"
        /\ pc[r] \in {"idle", "mark", "markRetry", "resume"} => response[r] = NoResponse
        /\ pc[r] = "calls" => /\ r \in author[response[r]]
                              /\ answer[r] # "none" => response[r] # Final(checkpoint[r]).of
        /\ pc[r] = "resumedCalls" => /\ response[r] = Final(checkpoint[r]).of
                                     /\ Final(checkpoint[r]).role = "assistant"
                                     /\ answer[r] = "proceed" => toolsInstance[r] = Tool

\* What a rejection has removed so far.
RejectedRemoved ==
    \A r \in Request : answer[r] = "reject" =>
        LET names == calls[Final(checkpoint[r]).of] IN
        /\ pc[r] = "resumedCalls" =>
              \A j \in 1..Len(names) : j < index[r] => names[j] \notin toolsInstance[r]
        /\ pc[r] \in {"model", "calls"} =>
              \A j \in 1..Len(names) : names[j] \notin toolsInstance[r]

\* What an approval has run so far.
ApprovedSoFar ==
    \A r \in Request :
        /\ answer[r] = "proceed"
        /\ pc[r] \in {"resumedCalls", "model", "calls", "save"}
        /\ Final(checkpoint[r]).role = "assistant"
        /\ outcome[r] \notin {"ERROR", "TERMINATED"}
        =>  \A c \in AskedAbout(r) :
                (pc[r] = "resumedCalls" /\ c[2] >= index[r]) \/ ran[r][c] = 1

TokensSoFar ==
    \A r \in Request :
        IF response[r] = NoResponse
        THEN pc[r] \in {"idle", "mark", "markRetry", "resume", "model"}
                => totalTokens[r] = 0 /\ used[r] = 0
        ELSE pc[r] \in {"model", "calls", "resumedCalls"}
                => totalTokens[r] <= 2 * used[r] - 1

OutcomesLast == \A r \in Request : pc[r] \notin {"save", "done"} => outcome[r] = "none"

IInv ==
    /\ TypeOK
    /\ CallsRunAsApproved
    /\ RunsAhead
    /\ QuestionsKnown
    /\ CallsKnown
    /\ RejectedRemoved
    /\ ApprovedSoFar
    /\ TokensWithinTwice
    /\ TokensSoFar
    /\ OutcomesLast
-----------------------------------------------------------------------------
(* What ModelGetsWellFormedMessages rests on.                               *)

\* Messages that begin with the user's, in which a response with calls comes once
\* and an output behind its response or behind an earlier output of it.
InOrder(ms, known) ==
    /\ ms # <<>> /\ ms[1] = UserMessage
    /\ \A k \in DOMAIN ms :
          /\ ms[k].role = "tool" => ms[k - 1].of = ms[k].of /\ ms[k - 1].call < ms[k].call
          /\ ms[k].of <= known
          /\ ms[k].role = "assistant" =>
                /\ ms[k].of > 0 /\ ms[k].call = 0
                /\ \A l \in DOMAIN ms :
                      ms[l].role = "assistant" /\ ms[l].of = ms[k].of => l = k

\* Every call has its output, but for those in open.
Answered(ms, called, open) ==
    \A k \in DOMAIN ms : ms[k].role = "assistant" =>
        \A j \in DOMAIN called[ms[k].of] :
            \/ <<ms[k].of, j>> \in open
            \/ \E l \in DOMAIN ms : ms[l] = ToolMessage(ms[k].of, j)

Fine(ms, known, called, open) == InOrder(ms, known) /\ Answered(ms, called, open)

AnsweredBut(ms, open) == Fine(ms, responses, calls, missing \cup open)

From(b, j) == {b} \X (j..MaxCalls)

\* A question: the calls of its last response are open.
AnsweredToFinal(ms) == AnsweredBut(ms, From(Final(ms).of, 1))

MessagesOf(r) ==
    /\ checkpoint[r] # <<>> => AnsweredToFinal(checkpoint[r])
    /\ pc[r] = "save" /\ outcome[r] = "STOPPED" => AnsweredToFinal(messages[r])
    /\ pc[r] = "model" => AnsweredBut(messages[r], {})
    /\ pc[r] \in {"calls", "resumedCalls"} =>
          AnsweredBut(messages[r], From(response[r], index[r]))
    /\ pc[r] = "calls" \/ (pc[r] = "resumedCalls" /\ answer[r] = "proceed") =>
          Final(messages[r]).of = response[r] /\ Final(messages[r]).call < index[r]

MessagesSoFar ==
    \/ overPopped
    \/ /\ question # <<>> => AnsweredToFinal(question)
       /\ \A r \in Request : MessagesOf(r)
=============================================================================
