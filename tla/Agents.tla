--------------------------------- MODULE Agents ---------------------------------
(***************************************************************************)
(* The adapters that put a sensor's boundaries into somebody else's agent  *)
(* loop (xaidr/integrations): hooks of a Haystack Agent, which can only    *)
(* rewrite the State the loop re-reads; a LangChain middleware, which can  *)
(* jump to the end; and hooks in CrewAI's registry, which can veto a tool  *)
(* call and restate the veto.  The loops are the frameworks' and are       *)
(* modelled as the adapters rely on them; what the sensor finds in a text, *)
(* a call or a result is part of it.                                       *)
(*                                                                         *)
(* One agent serves one turn after another, and the host hands it the      *)
(* whole conversation each time.  A crew has several threads.              *)
(***************************************************************************)
EXTENDS Naturals, Sequences, FiniteSets, SequencesExt, FiniteSetsExt

CONSTANTS
    Threads,        \* of a crew
    MaxTurns,       \* bound: turns of the conversation
    MaxCalls,       \* bound: tool calls the models ask for, in all
    MaxAgentSteps   \* max_agent_steps of the Haystack Agent

ASSUME BoundsAssumption ==
    /\ MaxTurns \in Nat /\ MaxCalls \in Nat /\ MaxAgentSteps \in Nat \ {0}

\* _STOP_SENTINEL: past every budget.
STOP_SENTINEL == MaxAgentSteps + 2

VARIABLES
    conf,       \* the framework, the sensor's mode, and what was installed
    messages,   \* the conversation
    at,         \* where the loop is
    steps,      \* step_count of the State
    exit,       \* exit_reason of the State
    turns,      \* turns so far
    asked,      \* model calls of this turn
    made,       \* tool calls asked for so far; the last one's id
    ran,        \* the calls whose tool was invoked, in this turn or by the crew
    failed,     \* the Haystack hooks that failed open in this turn
    crew,       \* crew[t]: the tool call of a crew's thread
    pending     \* _PENDING_REFUSAL of each thread's context

loopVars == <<messages, at, steps, exit, turns, asked, failed>>
crewVars == <<crew, pending>>
vars == <<conf, loopVars, made, ran, crewVars>>

-----------------------------------------------------------------------------
(* The conversation.  A text is "bad" when a scan of it blocks; "refusal" is *)
(* one of the adapters' own texts.  The calls of a message are a set, their  *)
(* order is that of their ids.                                               *)

Message(from, says, calls, of) == [from |-> from, says |-> says, calls |-> calls, of |-> of]
User(says) == Message("user", says, {}, 0)
Assistant(says, calls) == Message("assistant", says, calls, 0)
ToolResult(says, call) == Message("tool", says, {}, call.id)
Refusal == Assistant("refusal", {})

\* The one sequence of a set of calls.
Orders(calls) ==
    {order \in [1..Cardinality(calls) -> calls] :
        /\ Range(order) = calls
        /\ \A i, j \in DOMAIN order : i < j => order[i].id < order[j].id}

From(who) == {i \in DOMAIN messages : messages[i].from = who}
LastUser == Max(From("user"))
Final == messages[Len(messages)]

\* must_halt: monitor mode softens what a scan found.
MustHalt(says) == conf.enforces /\ says = "bad"

\* tool_verdict: the operator's list is enforced in both modes.
ToolVerdict(call) == call.tool = "listed" \/ MustHalt(call.args)
\* The middleware asks scan_tool_call alone, whose answer monitor mode softens.
ScanToolCall(call) == conf.enforces /\ (call.tool = "listed" \/ call.args = "bad")

Answered == {messages[i].of : i \in From("tool")}

-----------------------------------------------------------------------------
(* The host and the model *)

HostAsks(says) ==
    /\ at = "idle" /\ conf.framework # "crewai" /\ turns < MaxTurns
    /\ messages' = Append(messages, User(says))
    /\ at' = IF conf.framework = "haystack" THEN "before_run" ELSE "before_model"
    /\ steps' = 0 /\ exit' = "none" /\ asked' = 0 /\ failed' = {} /\ ran' = {}
    /\ turns' = turns + 1
    /\ UNCHANGED <<conf, made, crewVars>>

Call(id, kind) == [id |-> id, tool |-> IF kind = "listed" THEN kind ELSE "other",
                   args |-> IF kind = "bad" THEN kind ELSE "fine"]

\* The model answers with a text, with tool calls, or with both.
ModelReplies(says, kinds) ==
    /\ at = "model" /\ made + Len(kinds) <= MaxCalls
    /\ says = "none" => kinds # <<>>
    /\ messages' = Append(messages,
            Assistant(says, {Call(made + i, kinds[i]) : i \in DOMAIN kinds}))
    /\ made' = made + Len(kinds) /\ asked' = asked + 1
    /\ IF conf.framework = "langchain"
       THEN at' = "after_model" /\ UNCHANGED <<steps, exit>>
       ELSE /\ at' = IF kinds = <<>> THEN "after_run" ELSE "before_tool"
            /\ steps' = steps + 1
            /\ exit' = IF kinds = <<>> THEN "text" ELSE exit
    /\ UNCHANGED <<conf, turns, ran, failed, crewVars>>

-----------------------------------------------------------------------------
(* Haystack: three hooks around the Agent's loop *)

Loop(place) ==
    /\ at = place /\ conf.framework = "haystack"
    /\ UNCHANGED <<conf, turns, asked, made, crewVars>>

\* A hook that raises leaves the State as it was.
HookFails ==
    /\ \E point \in {"before_run", "before_tool", "after_run"} :
          /\ Loop(point)
          /\ failed' = failed \union {point}
          /\ at' = CASE point = "before_run" -> "loop"
                     [] point = "before_tool" -> "tools"
                     [] OTHER -> "idle"
    /\ UNCHANGED <<messages, steps, exit, ran>>

\* Only the latest user message is scanned; a refused one ends the budget.
BeforeRun ==
    /\ Loop("before_run")
    /\ IF MustHalt(messages[LastUser].says)
       THEN messages' = Append(messages, Refusal) /\ steps' = STOP_SENTINEL
       ELSE UNCHANGED <<messages, steps>>
    /\ at' = "loop" /\ UNCHANGED <<exit, ran, failed>>

AgentSteps ==
    /\ Loop("loop")
    /\ IF steps < MaxAgentSteps THEN at' = "model" /\ UNCHANGED exit
       ELSE at' = "after_run" /\ exit' = "max_agent_steps"
    /\ UNCHANGED <<messages, steps, ran, failed>>

RebuiltWhole(last, refused, kept) ==
    messages \o [i \in DOMAIN refused |-> ToolResult("refusal", refused[i])]
\* The history up to the last user or tool message, a pair for each refused
\* call, and the surviving calls on the last message.
Rebuilt(last, refused, kept) ==
    LET cut == Max(From("user") \union From("tool"))
        call(i) == refused[(i + 1) \div 2]
    IN  SubSeq(messages, 1, cut)
        \o [i \in 1..2 * Len(refused) |-> IF i % 2 = 1 THEN Assistant(last.says, {call(i)})
                                          ELSE ToolResult("refusal", call(i))]
        \o IF kept = {} THEN <<>> ELSE <<Assistant(last.says, kept)>>

BeforeTool ==
    /\ Loop("before_tool")
    /\ \E refused \in Orders({call \in Final.calls : ToolVerdict(call)}) :
          LET kept == {call \in Final.calls : ~ ToolVerdict(call)}
          IN  messages' = IF refused = <<>> THEN messages ELSE Rebuilt(Final, refused, kept)
    /\ at' = "tools" /\ UNCHANGED <<steps, exit, ran, failed>>

\* The loop runs what is pending on the last message, and may end on a tool.
AgentTools(results, ends) ==
    /\ Loop("tools")
    /\ ran' = ran \union Final.calls
    /\ \E order \in Orders(Final.calls) :
          /\ DOMAIN results = DOMAIN order
          /\ messages' = messages \o [i \in DOMAIN order |-> ToolResult(results[i], order[i])]
    /\ IF ends /\ Final.calls # {} THEN at' = "after_run" /\ exit' = "tool"
       ELSE at' = "loop" /\ UNCHANGED exit
    /\ UNCHANGED <<steps, failed>>

AfterRunLeaving ==
    /\ Loop("after_run")
    /\ IF Final.from = "assistant" /\ MustHalt(Final.says)
       THEN messages' = [messages EXCEPT ![Len(messages)] = Refusal] /\ exit' = "xaidr_blocked"
       ELSE UNCHANGED <<messages, exit>>
    /\ at' = "idle" /\ UNCHANGED <<steps, ran, failed>>
\* A run the input hook stopped gets its honest count and reason; otherwise
\* a generated final text is scanned.
AfterRun ==
    /\ Loop("after_run")
    /\ IF steps >= STOP_SENTINEL
       THEN steps' = 0 /\ exit' = "xaidr_blocked" /\ UNCHANGED messages
       ELSE /\ UNCHANGED steps
            /\ IF Final.from = "assistant" /\ MustHalt(Final.says)
               THEN /\ messages' = [messages EXCEPT ![Len(messages)] = Refusal]
                    /\ exit' = "xaidr_blocked"
               ELSE UNCHANGED <<messages, exit>>
    /\ at' = "idle" /\ UNCHANGED <<ran, failed>>

-----------------------------------------------------------------------------
(* LangChain: a middleware around model and tools *)

Middleware(place) ==
    /\ at = place /\ conf.framework = "langchain"
    /\ UNCHANGED <<conf, steps, exit, turns, asked, made, failed, crewVars>>

JumpToEnd == messages' = Append(messages, Refusal) /\ at' = "idle"

\* Runs before each model call; a refusal is appended and the turn ends.
BeforeModel ==
    /\ Middleware("before_model")
    /\ IF MustHalt(messages[LastUser].says) THEN JumpToEnd
       ELSE at' = "model" /\ UNCHANGED messages
    /\ UNCHANGED ran

AfterModel ==
    /\ Middleware("after_model")
    /\ IF MustHalt(Final.says) THEN JumpToEnd
       ELSE at' = (IF Final.calls = {} THEN "idle" ELSE "wrap") /\ UNCHANGED messages
    /\ UNCHANGED ran

\* What the model asked for last and no tool message answers yet.
Waiting ==
    LET asking == {i \in From("assistant") : messages[i].calls # {}}
    IN  IF at # "wrap" THEN {}
        ELSE {call \in messages[Max(asking)].calls : call.id \notin Answered}

ResultScanGuarded(says) == says
\* The patched BaseTool.run scans the result although the middleware's guard
\* is set: the guard suppresses the scan of the arguments only.
ResultScan(says) == IF conf.patched /\ MustHalt(says) THEN "refusal" ELSE says

WrapToolCall(call, result) ==
    /\ Middleware("wrap")
    /\ call \in Waiting
    /\ IF ScanToolCall(call)
       THEN messages' = Append(messages, ToolResult("refusal", call)) /\ UNCHANGED ran
       ELSE /\ messages' = Append(messages, ToolResult(ResultScan(result), call))
            /\ ran' = ran \union {call}
    /\ at' = IF Waiting = {call} THEN "before_model" ELSE "wrap"

-----------------------------------------------------------------------------
(* CrewAI: hooks in a process-wide registry, beside somebody else's *)

OneContext(t) == CHOOSE u \in Threads : TRUE
\* A ContextVar: each thread of the crew has its own.
Context(t) == t

CrewCalls(t, kind) ==
    /\ conf.framework = "crewai" /\ crew[t].at = "idle" /\ made < MaxCalls
    /\ made' = made + 1
    /\ crew' = [crew EXCEPT ![t] = [at |-> "before", call |-> Call(made + 1, kind),
                                    by |-> "nobody", words |-> "tool"]]
    /\ UNCHANGED <<conf, loopVars, ran, pending>>

\* The registry asks in order and the first veto ends it.
CrewBefore(t, veto) ==
    /\ crew[t].at = "before"
    /\ LET ours == ToolVerdict(crew[t].call) /\ (conf.first = "ours" \/ ~ veto)
           by == CASE ours -> "ours" [] ~ ours /\ veto -> "theirs" [] OTHER -> "nobody"
       IN  /\ pending' = IF ours THEN [pending EXCEPT ![Context(t)] = crew[t].call.tool] ELSE pending
           /\ ran' = IF by = "nobody" THEN ran \union {crew[t].call} ELSE ran
           /\ crew' = [crew EXCEPT ![t].at = "after", ![t].by = by,
                                   ![t].words = IF by = "nobody" THEN "tool" ELSE "crewai"]
    /\ UNCHANGED <<conf, loopVars, made>>

\* Our after-hook restates a refusal it finds pending for this tool.  A build
\* without the after registry has none.
CrewAfter(t) ==
    LET mine == pending[Context(t)]
        restates == mine = crew[t].call.tool /\ crew[t].words = "crewai"
    IN  /\ crew[t].at = "after"
        /\ pending' = IF conf.after THEN [pending EXCEPT ![Context(t)] = "none"] ELSE pending
        /\ crew' = [crew EXCEPT ![t].at = "idle",
                                ![t].words = IF conf.after /\ restates THEN "ours" ELSE @]
        /\ UNCHANGED <<conf, loopVars, made, ran>>

-----------------------------------------------------------------------------
Texts == {"fine", "bad"}
Kinds == {"fine", "bad", "listed"}
Lists(S) == UNION {[1..n -> S] : n \in 0..2}
NoCall == [id |-> 0, tool |-> "other", args |-> "fine"]

Init ==
    /\ conf \in [framework : {"haystack", "langchain", "crewai"}, enforces : BOOLEAN,
                 patched : BOOLEAN, first : {"ours", "theirs"}, after : BOOLEAN]
    /\ conf.framework = "crewai" => ~ conf.patched
    /\ conf.framework # "crewai" => conf.first = "ours" /\ conf.after
    /\ conf.framework = "haystack" => ~ conf.patched
    /\ messages = <<>> /\ at = "idle" /\ steps = 0 /\ exit = "none"
    /\ turns = 0 /\ asked = 0 /\ made = 0 /\ ran = {} /\ failed = {}
    /\ crew = [t \in Threads |-> [at |-> "idle", call |-> NoCall, by |-> "nobody", words |-> "tool"]]
    /\ pending = [t \in Threads |-> "none"]

Next ==
    \/ \E says \in Texts : HostAsks(says)
    \/ \E says \in Texts \union {"none"}, kinds \in Lists(Kinds) : ModelReplies(says, kinds)
    \/ HookFails \/ BeforeRun \/ AgentSteps \/ BeforeTool
    \/ \E results \in Lists(Texts), ends \in BOOLEAN : AgentTools(results, ends)
    \/ AfterRun \/ BeforeModel \/ AfterModel
    \/ \E call \in Waiting, result \in Texts : WrapToolCall(call, result)
    \/ \E t \in Threads, kind \in Kinds : CrewCalls(t, kind)
    \/ \E t \in Threads, veto \in BOOLEAN : CrewBefore(t, veto)
    \/ \E t \in Threads : CrewAfter(t)

Spec == Init /\ [][Next]_vars

-----------------------------------------------------------------------------
TypeOK ==
    /\ at \in {"idle", "before_run", "loop", "model", "before_tool", "tools", "after_run",
               "before_model", "after_model", "wrap"}
    /\ \A i \in DOMAIN messages :
         /\ messages[i].from \in {"user", "assistant", "tool"}
         /\ messages[i].says \in Texts \union {"none", "refusal"}
         /\ messages[i].of \in 0..MaxCalls
         /\ \A call \in messages[i].calls :
              call.id \in 1..MaxCalls /\ call.tool \in {"listed", "other"} /\ call.args \in Texts
    /\ steps \in 0..MaxAgentSteps \union {STOP_SENTINEL}
    /\ exit \in {"none", "text", "tool", "max_agent_steps", "xaidr_blocked"}
    /\ turns \in 0..MaxTurns /\ asked \in Nat /\ made \in 0..MaxCalls
    /\ \A t \in Threads : pending[t] \in {"none", "listed", "other"}

Asked(i) == {call.id : call \in messages[i].calls}
ThisTurn == LastUser + 1..Len(messages)
AnswersTo(id) == {i \in ThisTurn : messages[i].from = "tool" /\ messages[i].of = id}

(* Nothing a scan refuses in an enforcing mode reaches the model or a tool,  *)
(* unless the hook in front of it failed open: not the user's message, not a *)
(* call, and under a patched BaseTool.run not a tool's result either.  A     *)
(* tool of the operator's list does not run in monitor mode either, except   *)
(* under LangChain, whose middleware reads the softened verdict alone.       *)
HaltedGoesNowhere ==
    /\ at = "model" /\ "before_run" \notin failed => ~ MustHalt(messages[LastUser].says)
    /\ \A call \in ran : conf.enforces /\ call.args = "bad" => "before_tool" \in failed
    /\ \A call \in ran : call.tool = "listed" /\ (conf.enforces \/ conf.framework # "langchain")
                          => "before_tool" \in failed
    /\ at = "model" /\ conf.patched =>
         \A i \in ThisTurn : messages[i].from = "tool" => ~ MustHalt(messages[i].says)

(* Whenever the model is asked, each call of this turn stands in one message *)
(* and has one answer after it, and the answer to a call that did not run is *)
(* a refusal: a refused call takes no sibling with it, and none is forgotten.*)
CallsSettled ==
    at = "model" =>
        \A i \in ThisTurn : \A call \in messages[i].calls :
            /\ \A j \in ThisTurn : call.id \in Asked(j) => j = i
            /\ \E j \in AnswersTo(call.id) :
                  /\ AnswersTo(call.id) = {j} /\ j > i
                  /\ call \notin ran => messages[j].says = "refusal"

(* How a Haystack run ended is told as it was: the steps are those the model *)
(* took, the reason names the sensor exactly when the last word is its       *)
(* refusal, and a text a scan refuses is not the last word.                  *)
HonestEnd ==
    at = "idle" /\ turns > 0 /\ conf.framework = "haystack" /\ "after_run" \notin failed =>
        /\ steps = asked
        /\ exit = "xaidr_blocked" <=> Final.from = "assistant" /\ Final.says = "refusal"
        /\ Final.from = "assistant" => ~ MustHalt(Final.says)

(* A veto of a CrewAI tool call is restated in the sensor's words when it is *)
(* the sensor's and never when it is somebody else's, whatever the other     *)
(* threads of the crew are doing.                                            *)
OwnWordsOnly ==
    \A t \in Threads : crew[t].at = "idle" /\ conf.after =>
        (crew[t].words = "ours" <=> crew[t].by = "ours")
================================================================================
