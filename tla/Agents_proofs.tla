----------------------------- MODULE Agents_proofs -----------------------------
(***************************************************************************)
(* Proofs about Agents: its four invariants, for any crew, any number of   *)
(* turns and calls and any budget of steps.                                *)
(*                                                                         *)
(* The inductive invariant says, for each place of a framework's loop,     *)
(* what the last message is (LastMessage), how the steps stand (Count), which     *)
(* refused texts may still be there (Halted), and which calls of the turn  *)
(* are still open (Settling).  A call is settled when one message of the   *)
(* whole conversation answers it, later than it was asked: the turn alone  *)
(* would not do, because the LangChain loop asks which calls wait by       *)
(* looking at all of the conversation.  Crewing is about the crew alone.   *)
(***************************************************************************)
EXTENDS Agents, FiniteSetTheorems, SequenceTheorems, WellFoundedInduction, TLAPS

-----------------------------------------------------------------------------
(* The types.                                                              *)

CallType == [id: Nat, tool: {"listed", "other"}, args: Texts]
MessageType == [from: {"user", "assistant", "tool"}, says: Texts \cup {"none", "refusal"},
                calls: {calls \in SUBSET CallType : IsFiniteSet(calls)}, of: Nat]
CrewType == [at: {"idle", "before", "after"}, call: CallType,
             by: {"ours", "theirs", "nobody"}, words: {"ours", "crewai", "tool"}]

HaystackPlaces == {"before_run", "loop", "model", "before_tool", "tools", "after_run"}
LangChainPlaces == {"before_model", "model", "after_model", "wrap"}

Configured ==
    /\ conf \in [framework: {"haystack", "langchain", "crewai"}, enforces: BOOLEAN,
                 patched: BOOLEAN, first: {"ours", "theirs"}, after: BOOLEAN]
    /\ conf.patched => conf.framework = "langchain"
    /\ conf.framework = "haystack" => at \in {"idle"} \cup HaystackPlaces
    /\ conf.framework = "langchain" => at \in {"idle"} \cup LangChainPlaces
    /\ conf.framework = "crewai" => at = "idle" /\ turns = 0
Types ==
    /\ messages \in Seq(MessageType)
    /\ steps \in Nat /\ turns \in Nat /\ asked \in Nat /\ made \in Nat
    /\ exit \in {"none", "text", "tool", "max_agent_steps", "xaidr_blocked"}
    /\ ran \subseteq CallType /\ failed \subseteq {"before_run", "before_tool", "after_run"}
    /\ at # "idle" => turns > 0
    /\ turns > 0 => From("user") # {}
    /\ \A i \in DOMAIN messages :
          /\ messages[i].of <= made
          /\ \A call \in messages[i].calls : call.id \in 1..made

-----------------------------------------------------------------------------
(* The inductive invariant.                                                *)

\* The input hook refused and used up the budget.
Stopped == steps = STOP_SENTINEL /\ asked = 0 /\ Final = Refusal

Heard == {"user", "tool"}
LastMessage ==
    /\ at \in {"before_run", "before_model", "model"} => Final.from \in Heard
    /\ at = "loop" => Final.from \in Heard \/ Stopped
    /\ at \in {"before_tool", "after_model"} =>
          Final.from = "assistant" /\ Len(messages) > 1 /\ messages[Len(messages) - 1].from \in Heard
    /\ at = "before_tool" => Final.calls # {}
    /\ at = "tools" => Final.calls # {} \/ Final.from = "tool"
    /\ at = "after_run" =>
          Final.from \in Heard \/ Stopped \/ (Final.from = "assistant" /\ Final.says # "refusal")

Counted == steps = asked /\ steps <= MaxAgentSteps
Count ==
    conf.framework = "haystack" =>
        /\ at \in {"before_run", "model", "before_tool", "tools"} => Counted
        /\ at = "before_run" => asked = 0
        /\ at = "model" => steps < MaxAgentSteps
        /\ at \in {"loop", "after_run"} => Counted \/ Stopped
        /\ at # "idle" => exit # "xaidr_blocked"

\* What the input hook let pass, what ran, and what a patched tool gave back.
Halted ==
    /\ /\ "before_run" \notin failed
       /\ \/ at \in {"model", "before_tool", "tools"} /\ conf.framework = "haystack"
          \/ at = "loop" /\ ~Stopped
          \/ at = "model"
       => ~MustHalt(messages[LastUser].says)
    /\ at = "tools" /\ "before_tool" \notin failed =>
          \A call \in Final.calls : ~ToolVerdict(call)
    /\ \A call \in ran : "before_tool" \notin failed =>
          /\ ~(conf.enforces /\ call.args = "bad")
          /\ ~(call.tool = "listed" /\ (conf.enforces \/ conf.framework # "langchain"))
    /\ at # "idle" /\ conf.patched =>
          \A i \in ThisTurn : messages[i].from = "tool" => ~MustHalt(messages[i].says)

\* The answers to a call in all of the conversation.
Answers(call) == {j \in DOMAIN messages : messages[j].from = "tool" /\ messages[j].of = call.id}
Settled(i, call) ==
    \E j \in DOMAIN messages :
        /\ Answers(call) = {j} /\ j > i
        /\ call \in ran \/ messages[j].says = "refusal"
SettledAt(i) == \A call \in messages[i].calls : Settled(i, call)
Fresh(i) == \A call \in messages[i].calls : Answers(call) = {}

Distinct ==
    \A i, j \in ThisTurn : \A call \in messages[i].calls, other \in messages[j].calls :
        call.id = other.id => i = j /\ call = other
Settling ==
    at # "idle" =>
        /\ Distinct
        /\ at \in {"before_run", "loop", "model", "after_run", "before_model"} =>
              \A i \in ThisTurn : SettledAt(i)
        /\ at \in {"before_tool", "after_model", "tools"} =>
              Fresh(Len(messages)) /\ \A i \in ThisTurn \ {Len(messages)} : SettledAt(i)
        /\ at = "wrap" =>
              \E k \in ThisTurn :
                 /\ messages[k].from = "assistant" /\ messages[k].calls # {}
                 /\ \A j \in ThisTurn : j > k => messages[j].from = "tool"
                 /\ \A i \in ThisTurn \ {k} : SettledAt(i)
                 /\ \A call \in messages[k].calls : Answers(call) = {} \/ Settled(k, call)

\* A pending refusal is the thread's own, from its veto to its restatement.
Crewing ==
    /\ crew \in [Threads -> CrewType] /\ pending \in [Threads -> {"none", "listed", "other"}]
    /\ \A t \in Threads : crew[t].at # "idle" => conf.framework = "crewai"
    /\ conf.after => \A t \in Threads :
          /\ crew[t].at = "idle" => (crew[t].words = "ours" <=> crew[t].by = "ours")
          /\ crew[t].at \in {"idle", "before"} => pending[t] = "none"
          /\ crew[t].at = "after" =>
                /\ crew[t].by = "ours" => pending[t] = crew[t].call.tool /\ crew[t].words = "crewai"
                /\ crew[t].by # "ours" => pending[t] = "none" /\ crew[t].words # "ours"

LoopInv == Configured /\ Types /\ LastMessage /\ Count /\ Halted /\ Settling /\ HonestEnd
Inv == LoopInv /\ Crewing

-----------------------------------------------------------------------------
(* The conversation.                                                       *)

LEMMA MaxIn ==
    ASSUME NEW n \in Nat, NEW S, S \subseteq 1..n, S # {}
    PROVE  Max(S) \in S /\ \A i \in S : i <= Max(S)
<1> DEFINE gaps == {g \in Nat : n - g \in S}
<1>1. gaps \subseteq Nat /\ gaps # {}
  <2>1. PICK i \in S : TRUE
    OBVIOUS
  <2>2. n - i \in Nat /\ n - (n - i) = i
    OBVIOUS
  <2>3. QED BY <2>1, <2>2
<1>2. PICK g \in gaps : \A h \in gaps : ~(<<h, g>> \in OpToRel(<, Nat))
  <2> HIDE DEF gaps
  <2>1. QED BY <1>1, WFMin, NatLessThanWellFounded
<1>3. ASSUME NEW i \in S PROVE i <= n - g
  <2>1. n - i \in gaps /\ g \in Nat /\ n - i \in Nat
    <3>1. n - i \in Nat /\ n - (n - i) = i
      OBVIOUS
    <3>2. QED BY <3>1
  <2>2. n - i < g => <<n - i, g>> \in OpToRel(<, Nat)
    BY <2>1 DEF OpToRel
  <2>3. ~(n - i < g)
    BY <1>2, <2>1, <2>2
  <2>4. QED BY <2>1, <2>3
<1>4. n - g \in S
  OBVIOUS
<1>5. QED BY <1>3, <1>4 DEF Max

\* The greatest of the numbers up to n is n.
LEMMA MaxIs ==
    ASSUME NEW n \in Nat, NEW S, S \subseteq 1..n, n \in S
    PROVE  Max(S) = n
<1>1. PICK most : most = Max(S)
  OBVIOUS
<1>2. most \in S /\ \A i \in S : i <= most
  BY <1>1, MaxIn
<1>3. most \in Int /\ n \in Int /\ most <= n /\ n <= most
  BY <1>2
<1>4. most = n
  BY <1>3
<1>5. QED BY <1>1, <1>4

\* Of a set of places of the conversation.
LEMMA LastIn ==
    ASSUME messages \in Seq(MessageType), NEW S, S \subseteq DOMAIN messages, S # {}
    PROVE  Max(S) \in S /\ \A i \in S : i <= Max(S)
<1>1. Len(messages) \in Nat /\ S \subseteq 1..Len(messages)
  OBVIOUS
<1>2. QED BY <1>1, MaxIn

LEMMA SaidIs ==
    ASSUME Types, NEW i \in DOMAIN messages
    PROVE  /\ messages[i] \in MessageType
           /\ messages[i].of \in Nat /\ messages[i].of <= made
           /\ messages[i].says \in Texts \cup {"none", "refusal"}
           /\ messages[i].calls \in SUBSET CallType /\ IsFiniteSet(messages[i].calls)
           /\ \A call \in messages[i].calls : call.id \in 1..made
<1>1. messages[i] \in MessageType
  BY DEF Types
<1>2. /\ messages[i].of \in Nat /\ messages[i].says \in Texts \cup {"none", "refusal"}
      /\ messages[i].calls \in SUBSET CallType /\ IsFiniteSet(messages[i].calls)
  BY <1>1 DEF MessageType
<1>3. QED BY <1>1, <1>2 DEF Types

LEMMA LastUserIs ==
    ASSUME Types, From("user") # {}
    PROVE  /\ LastUser \in DOMAIN messages /\ LastUser \in 1..Len(messages)
           /\ messages[LastUser].from = "user"
           /\ \A i \in ThisTurn : i \in DOMAIN messages /\ i > LastUser /\ messages[i].from # "user"
<1>1. messages \in Seq(MessageType) /\ From("user") \subseteq DOMAIN messages
  BY DEF Types, From
<1>2. LastUser \in From("user") /\ \A i \in From("user") : i <= LastUser
  BY <1>1, LastIn DEF LastUser
<1>3. DOMAIN messages = 1..Len(messages) /\ Len(messages) \in Nat
  BY <1>1
<1>4. LastUser \in 1..Len(messages) /\ messages[LastUser].from = "user"
  BY <1>2, <1>3 DEF From
<1>5. ASSUME NEW i \in ThisTurn
      PROVE  i \in DOMAIN messages /\ i > LastUser /\ messages[i].from # "user"
  <2>1. i \in 1..Len(messages) /\ i > LastUser
    BY <1>4, <1>3 DEF ThisTurn
  <2>2. QED BY <1>2, <1>3, <2>1 DEF From
<1>6. QED BY <1>3, <1>4, <1>5

\* The conversation up to n stays, and more is said after it.
Goes(n, more) ==
    /\ messages' \in Seq(MessageType)
    /\ Len(messages') = n + Len(more)
    /\ \A i \in 1..n : messages'[i] = messages[i]
    /\ \A k \in 1..Len(more) : messages'[n + k] = more[k]

LEMMA GoesPrefix ==
    ASSUME messages \in Seq(MessageType), NEW n \in 0..Len(messages),
           NEW more \in Seq(MessageType), messages' = SubSeq(messages, 1, n) \o more
    PROVE  Goes(n, more)
<1>1. \A i \in 1..n : messages[i] \in MessageType
  OBVIOUS
<1>2. PICK front : front = SubSeq(messages, 1, n)
  OBVIOUS
<1>3. /\ front \in Seq(MessageType) /\ Len(front) = n
      /\ \A i \in 1..n : front[i] = messages[i]
  BY <1>1, <1>2
<1>4. messages' = front \o more
  BY <1>2
<1>5. QED BY <1>3, <1>4 DEF Goes

LEMMA GoesOn ==
    ASSUME messages \in Seq(MessageType), NEW more \in Seq(MessageType), messages' = messages \o more
    PROVE  Goes(Len(messages), more)
BY DEF Goes

LEMMA GoesSaying ==
    ASSUME messages \in Seq(MessageType), NEW m \in MessageType, messages' = Append(messages, m)
    PROVE  Goes(Len(messages), <<m>>)
BY DEF Goes

\* The turn stays the same turn while nobody but the loop speaks.
LEMMA SameTurn ==
    ASSUME Types, From("user") # {}, NEW n \in Nat, LastUser <= n, n <= Len(messages),
           NEW more \in Seq(MessageType), Goes(n, more),
           \A k \in 1..Len(more) : more[k].from # "user"
    PROVE  /\ LastUser' = LastUser /\ From("user")' # {}
           /\ messages'[LastUser] = messages[LastUser]
           /\ ThisTurn' = LastUser + 1 .. n + Len(more)
           /\ DOMAIN messages' = 1..n + Len(more)
<1>1. /\ LastUser \in 1..Len(messages) /\ messages[LastUser].from = "user"
      /\ \A i \in ThisTurn : messages[i].from # "user"
  BY LastUserIs
<1>2. /\ messages' \in Seq(MessageType) /\ Len(messages') = n + Len(more)
      /\ \A i \in 1..n : messages'[i] = messages[i]
      /\ \A k \in 1..Len(more) : messages'[n + k] = more[k]
      /\ DOMAIN messages' = 1..n + Len(more) /\ Len(more) \in Nat /\ Len(messages) \in Nat
  BY DEF Goes, Types
<1>3. LastUser \in From("user")'
  BY <1>1, <1>2 DEF From
<1>4. ASSUME NEW i \in From("user")' PROVE i <= LastUser
  <2>1. i \in 1..n + Len(more) /\ messages'[i].from = "user"
    BY <1>2 DEF From
  <2>2. CASE i <= n
    <3>1. messages[i].from = "user" /\ i \in 1..Len(messages)
      BY <1>2, <2>1, <2>2
    <3>2. QED BY <1>1, <3>1 DEF ThisTurn
  <2>3. CASE i > n
    <3>1. i - n \in 1..Len(more) /\ n + (i - n) = i
      BY <1>2, <2>1, <2>3
    <3>2. QED BY <1>2, <2>1, <3>1
  <2>4. QED BY <2>1, <2>2, <2>3
<1>5. LastUser' = LastUser
  <2>1. From("user")' \subseteq 1..(n + Len(more)) /\ n + Len(more) \in Nat
    BY <1>2 DEF From
  <2>2. PICK S : S = From("user")'
    OBVIOUS
  <2>3. PICK u : u = LastUser
    OBVIOUS
  <2>4. Max(S) \in S /\ \A i \in S : i <= Max(S)
    BY <1>3, <2>1, <2>2, MaxIn
  <2>5. u \in S /\ \A i \in S : i <= u
    BY <1>3, <1>4, <2>2, <2>3
  <2>6. u \in Int /\ Max(S) \in Int
    BY <2>1, <2>2, <2>4, <2>5
  <2>7. Max(S) = u
    BY <2>4, <2>5, <2>6
  <2>8. QED BY <2>2, <2>3, <2>7 DEF LastUser
<1>6. QED BY <1>1, <1>2, <1>3, <1>5 DEF ThisTurn

-----------------------------------------------------------------------------
(* What is said.                                                           *)

LEMMA MessageTypes ==
    /\ \A says \in Texts : User(says) \in MessageType
    /\ \A says \in Texts \cup {"none", "refusal"}, calls \in SUBSET CallType :
          IsFiniteSet(calls) => Assistant(says, calls) \in MessageType
    /\ \A says \in Texts \cup {"none", "refusal"}, call \in CallType :
          ToolResult(says, call) \in MessageType
    /\ Refusal \in MessageType
<1>1. IsFiniteSet({}) /\ {} \in SUBSET CallType
  BY FS_EmptySet
<1>2. \A says \in Texts : User(says) \in MessageType
  BY <1>1 DEF User, Message, MessageType
<1>3. \A says \in Texts \cup {"none", "refusal"}, calls \in SUBSET CallType :
          IsFiniteSet(calls) => Assistant(says, calls) \in MessageType
  BY DEF Assistant, Message, MessageType
<1>4. \A says \in Texts \cup {"none", "refusal"}, call \in CallType :
          ToolResult(says, call) \in MessageType
  BY <1>1 DEF ToolResult, Message, MessageType, CallType
<1>5. Refusal \in MessageType
  BY <1>1, <1>3 DEF Refusal
<1>6. QED BY <1>2, <1>3, <1>4, <1>5

LEMMA MessageSays ==
    /\ \A says : User(says).from = "user" /\ User(says).of = 0 /\ User(says).calls = {}
    /\ \A says, calls :
          /\ Assistant(says, calls).from = "assistant" /\ Assistant(says, calls).of = 0
          /\ Assistant(says, calls).says = says /\ Assistant(says, calls).calls = calls
    /\ \A says, call :
          /\ ToolResult(says, call).from = "tool" /\ ToolResult(says, call).of = call.id
          /\ ToolResult(says, call).says = says /\ ToolResult(says, call).calls = {}
    /\ Refusal.from = "assistant" /\ Refusal.of = 0
    /\ Refusal.says = "refusal" /\ Refusal.calls = {}
BY DEF User, Assistant, ToolResult, Refusal, Message

LEMMA MustHaltOf ==
    /\ ~MustHalt("refusal") /\ ~MustHalt("none") /\ ~MustHalt("fine")
    /\ (conf.enforces <=> MustHalt("bad"))
BY DEF MustHalt

\* The answers to a call, after more was said.
LEMMA AnswersGo ==
    ASSUME Types, NEW n \in Nat, n <= Len(messages), NEW more \in Seq(MessageType), Goes(n, more),
           NEW call
    PROVE  /\ \A j \in 1..n : j \in Answers(call)' <=> j \in Answers(call)
           /\ \A k \in 1..Len(more) :
                 n + k \in Answers(call)' <=> (more[k].from = "tool" /\ more[k].of = call.id)
           /\ Answers(call)' \subseteq 1..(n + Len(more))
           /\ Answers(call) \subseteq 1..Len(messages)
<1>1. /\ DOMAIN messages = 1..Len(messages) /\ Len(messages) \in Nat /\ Len(more) \in Nat
      /\ DOMAIN messages' = 1..(n + Len(more))
      /\ \A i \in 1..n : messages'[i] = messages[i]
      /\ \A k \in 1..Len(more) : messages'[n + k] = more[k]
  BY DEF Goes, Types
<1>2. \A j \in 1..n : j \in Answers(call)' <=> j \in Answers(call)
  BY <1>1 DEF Answers
<1>3. \A k \in 1..Len(more) : n + k \in 1..(n + Len(more))
  BY <1>1
<1>4. \A k \in 1..Len(more) :
          n + k \in Answers(call)' <=> (more[k].from = "tool" /\ more[k].of = call.id)
  BY <1>1, <1>3 DEF Answers
<1>5. QED BY <1>1, <1>2, <1>4 DEF Answers

\* A call whose answer stays, and whom nothing said now answers, stays settled
\* or fresh.
LEMMA StaysSettled ==
    ASSUME Types, NEW n \in Nat, n <= Len(messages), NEW more \in Seq(MessageType), Goes(n, more),
           NEW i \in Nat, NEW call, Answers(call) \subseteq 1..n, ran \subseteq ran',
           \A k \in 1..Len(more) : more[k].from = "tool" => more[k].of # call.id
    PROVE  /\ Answers(call)' = Answers(call)
           /\ Settled(i, call) => Settled(i, call)'
<1>1. /\ \A j \in 1..n : j \in Answers(call)' <=> j \in Answers(call)
      /\ \A k \in 1..Len(more) : n + k \notin Answers(call)'
      /\ Answers(call)' \subseteq 1..(n + Len(more))
  BY AnswersGo
<1>2. ASSUME NEW j \in Answers(call)' PROVE j \in 1..n
  <2>1. j \in 1..(n + Len(more)) /\ Len(more) \in Nat
    BY <1>1
  <2>2. ASSUME j > n PROVE FALSE
    <3>1. j - n \in 1..Len(more) /\ n + (j - n) = j
      BY <2>1, <2>2
    <3>2. QED BY <1>1, <3>1
  <2>3. QED BY <2>1, <2>2
<1>3. Answers(call)' = Answers(call)
  BY <1>1, <1>2
<1>4. ASSUME Settled(i, call) PROVE Settled(i, call)'
  <2>1. PICK j \in DOMAIN messages : /\ Answers(call) = {j} /\ j > i
                                     /\ call \in ran \/ messages[j].says = "refusal"
    BY <1>4 DEF Settled
  <2>2. j \in 1..n
    BY <2>1
  <2>3. messages'[j] = messages[j] /\ j \in DOMAIN messages'
    BY <2>2 DEF Goes
  <2>4. QED BY <1>3, <2>1, <2>3 DEF Settled
<1>5. QED BY <1>3, <1>4

\* A fresh call is settled by the one message that answers it.
LEMMA GetsSettled ==
    ASSUME Types, NEW n \in Nat, n <= Len(messages), NEW more \in Seq(MessageType), Goes(n, more),
           NEW i \in Nat, NEW call, Answers(call) = {}, NEW k \in 1..Len(more), i < n + k,
           \A l \in 1..Len(more) : (more[l].from = "tool" /\ more[l].of = call.id) <=> l = k,
           call \in ran' \/ more[k].says = "refusal"
    PROVE  Settled(i, call)'
<1>1. /\ \A j \in 1..n : j \notin Answers(call)'
      /\ \A l \in 1..Len(more) : n + l \in Answers(call)' <=> l = k
      /\ Answers(call)' \subseteq 1..(n + Len(more))
  BY AnswersGo
<1>2. Answers(call)' = {n + k}
  <2>1. n + k \in Answers(call)'
    BY <1>1
  <2>2. ASSUME NEW j \in Answers(call)' PROVE j = n + k
    <3>1. j \in 1..(n + Len(more)) /\ Len(more) \in Nat
      BY <1>1
    <3>2. j > n
      BY <1>1, <2>2, <3>1
    <3>3. PICK l \in 1..Len(more) : j = n + l
      BY <3>1, <3>2
    <3>4. QED BY <1>1, <2>2, <3>3
  <2>3. QED BY <2>1, <2>2
<1>3. messages'[n + k] = more[k] /\ n + k \in DOMAIN messages'
  BY DEF Goes
<1>4. QED BY <1>2, <1>3 DEF Settled

LEMMA SettledStays ==
    ASSUME Types, NEW n \in Nat, n <= Len(messages), NEW more \in Seq(MessageType), Goes(n, more),
           NEW i \in 1..n, SettledAt(i), ran \subseteq ran',
           \A j \in n + 1..Len(messages) : messages[j].from # "tool",
           \A call \in messages[i].calls, k \in 1..Len(more) :
               more[k].from = "tool" => more[k].of # call.id
    PROVE  SettledAt(i)'
<1>1. messages'[i] = messages[i]
  BY DEF Goes
<1>2. SUFFICES ASSUME NEW call \in messages[i].calls PROVE Settled(i, call)'
  BY <1>1 DEF SettledAt
<1>3. Answers(call) \subseteq 1..n
  BY DEF Answers, Types
<1>4. Settled(i, call)
  BY DEF SettledAt
<1>5. QED BY <1>3, <1>4, StaysSettled

\* New calls keep apart from those that stay and from each other.
LEMMA DistinctStays ==
    ASSUME Types, From("user") # {}, NEW n \in Nat, LastUser <= n, n <= Len(messages),
           NEW more \in Seq(MessageType), Goes(n, more), Distinct,
           \A k \in 1..Len(more) : more[k].from # "user",
           \A k, l \in 1..Len(more) : \A call \in more[k].calls, other \in more[l].calls :
               call.id = other.id => k = l /\ call = other,
           \A k \in 1..Len(more), i \in ThisTurn :
               i <= n => \A call \in more[k].calls, other \in messages[i].calls : call.id # other.id
    PROVE  Distinct'
<1>1. /\ ThisTurn' = LastUser + 1 .. n + Len(more) /\ LastUser \in Nat
      /\ ThisTurn = LastUser + 1..Len(messages)
      /\ Len(messages) \in Nat /\ Len(more) \in Nat
  <2>1. LastUser \in 1..Len(messages)
    BY LastUserIs
  <2>2. QED BY <2>1, SameTurn DEF Types, ThisTurn
<1>2. /\ \A i \in 1..n : messages'[i] = messages[i]
      /\ \A k \in 1..Len(more) : messages'[n + k] = more[k]
  BY DEF Goes
<1>3. ASSUME NEW i \in ThisTurn'
      PROVE  \/ i \in 1..n /\ i \in ThisTurn /\ messages'[i] = messages[i]
             \/ \E k \in 1..Len(more) : i = n + k /\ messages'[i] = more[k]
  <2>0. i \in LastUser + 1 .. n + Len(more)
    BY <1>1
  <2>1. CASE i <= n
    <3>1. i \in 1..n /\ i \in LastUser + 1..Len(messages)
      BY <1>1, <2>0, <2>1
    <3>2. QED BY <1>1, <1>2, <3>1
  <2>2. CASE i > n
    <3>1. i - n \in 1..Len(more) /\ n + (i - n) = i
      BY <1>1, <2>0, <2>2
    <3>2. QED BY <1>2, <3>1
  <2>3. QED BY <1>1, <2>0, <2>1, <2>2
<1>4. SUFFICES ASSUME NEW i \in ThisTurn', NEW j \in ThisTurn',
                      NEW call \in messages'[i].calls, NEW other \in messages'[j].calls,
                      call.id = other.id
               PROVE  i = j /\ call = other
  BY DEF Distinct
<1>5. CASE /\ i \in 1..n /\ i \in ThisTurn /\ messages'[i] = messages[i]
           /\ j \in 1..n /\ j \in ThisTurn /\ messages'[j] = messages[j]
  BY <1>4, <1>5 DEF Distinct
<1>6. ASSUME NEW k \in 1..Len(more), i = n + k, messages'[i] = more[k]
      PROVE  i = j /\ call = other
  <2>1. CASE j \in 1..n /\ j \in ThisTurn /\ messages'[j] = messages[j]
    BY <1>4, <1>6, <2>1
  <2>2. ASSUME NEW l \in 1..Len(more), j = n + l, messages'[j] = more[l]
        PROVE  i = j /\ call = other
    BY <1>4, <1>6, <2>2
  <2>3. QED BY <1>3, <2>1, <2>2
<1>7. ASSUME i \in 1..n, i \in ThisTurn, messages'[i] = messages[i],
             NEW l \in 1..Len(more), j = n + l, messages'[j] = more[l]
      PROVE  i = j /\ call = other
  <2>1. i <= n /\ other \in more[l].calls /\ call \in messages[i].calls
    BY <1>4, <1>7
  <2>2. QED BY <1>4, <1>7, <2>1
<1>8. QED BY <1>3, <1>5, <1>6, <1>7

-----------------------------------------------------------------------------
(* The calls of a model, and what they are in the order of their ids.      *)

LEMMA ListIs ==
    ASSUME NEW S, NEW list \in Lists(S)
    PROVE  /\ list \in Seq(S) /\ Len(list) \in Nat /\ DOMAIN list = 1..Len(list)
           /\ list = <<>> <=> Len(list) = 0
<1>1. PICK n \in 0..2 : list \in [1..n -> S]
  BY DEF Lists
<1>2. QED BY <1>1

LEMMA NewCalls ==
    ASSUME made \in Nat, NEW kinds \in Lists(Kinds),
           NEW calls, calls = {Call(made + i, kinds[i]) : i \in DOMAIN kinds}
    PROVE  /\ calls \in SUBSET CallType /\ IsFiniteSet(calls)
           /\ calls = {} <=> kinds = <<>>
           /\ made + Len(kinds) \in Nat
           /\ \A call \in calls : call.id > made /\ call.id <= made + Len(kinds)
           /\ \A call, other \in calls : call.id = other.id => call = other
<1>1. /\ kinds \in Seq(Kinds) /\ Len(kinds) \in Nat /\ DOMAIN kinds = 1..Len(kinds)
      /\ kinds = <<>> <=> Len(kinds) = 0
  BY ListIs
<1>2. ASSUME NEW i \in DOMAIN kinds
      PROVE  Call(made + i, kinds[i]) \in CallType /\ Call(made + i, kinds[i]).id = made + i
  <2>1. kinds[i] \in {"fine", "bad", "listed"} /\ made + i \in Nat
    BY <1>1 DEF Kinds
  <2>2. QED BY <2>1 DEF Call, CallType, Texts
<1>3. IsFiniteSet(calls)
  <2> DEFINE f == [i \in DOMAIN kinds |-> Call(made + i, kinds[i])]
  <2>1. f \in Surjection(DOMAIN kinds, calls)
    BY DEF Surjection
  <2>2. IsFiniteSet(DOMAIN kinds)
    <3> DEFINE n == Len(kinds)
    <3>1. n \in Nat
      BY <1>1
    <3> HIDE DEF n
    <3>2. IsFiniteSet(1..n)
      BY <3>1, FS_Interval
    <3>3. QED BY <1>1, <3>2 DEF n
  <2> HIDE DEF f
  <2>3. QED BY <2>1, <2>2, FS_Surjection
<1>4. QED BY <1>1, <1>2, <1>3

LEMMA OrderIs ==
    ASSUME NEW calls \in SUBSET CallType, IsFiniteSet(calls), NEW order \in Orders(calls)
    PROVE  /\ order \in Seq(calls) /\ Len(order) \in Nat /\ DOMAIN order = 1..Len(order)
           /\ order = <<>> <=> calls = {}
           /\ \A call \in calls : \E k \in 1..Len(order) : order[k] = call
           /\ \A k \in 1..Len(order) : order[k] \in calls
           /\ \A k, l \in 1..Len(order) : order[k].id = order[l].id => k = l
<1>1. PICK n : n = Cardinality(calls)
  OBVIOUS
<1>2. n \in Nat
  BY <1>1, FS_CardinalityType
<1>3. /\ order \in [1..n -> calls] /\ Range(order) = calls
      /\ \A i, j \in DOMAIN order : i < j => order[i].id < order[j].id
  BY <1>1 DEF Orders
<1>4. order \in Seq(calls) /\ Len(order) = n /\ DOMAIN order = 1..n
  BY <1>2, <1>3
<1>5. \A call \in calls : \E k \in 1..n : order[k] = call
  BY <1>3, <1>4 DEF Range
<1>6. ASSUME NEW k \in 1..n, NEW l \in 1..n, order[k].id = order[l].id PROVE k = l
  <2>1. order[k].id \in Nat /\ order[l].id \in Nat
    BY <1>3 DEF CallType
  <2>2. QED BY <1>3, <1>4, <1>6, <2>1
<1>7. QED BY <1>2, <1>3, <1>4, <1>5, <1>6

-----------------------------------------------------------------------------
(* The actions of the loops.                                               *)

Exits == {"none", "text", "tool", "max_agent_steps", "xaidr_blocked"}
Points == {"before_run", "before_tool", "after_run"}

\* What a step of a turn leaves when it says more after place n.
LEMMA Speaking ==
    ASSUME Types, turns > 0, NEW n \in Nat, LastUser <= n, n <= Len(messages),
           NEW more \in Seq(MessageType), Goes(n, more),
           \A k \in 1..Len(more) : more[k].from # "user",
           made \in Nat, made' \in Nat, made <= made',
           steps' \in Nat, asked' \in Nat, turns' = turns, exit' \in Exits,
           ran' \subseteq CallType, failed' \subseteq Points,
           \A k \in 1..Len(more) :
              more[k].of <= made' /\ \A call \in more[k].calls : call.id \in 1..made'
    PROVE  /\ Types' /\ LastUser' = LastUser /\ messages'[LastUser] = messages[LastUser]
           /\ ThisTurn' = LastUser + 1 .. n + Len(more) /\ LastUser \in 1..Len(messages)
           /\ Len(messages') = n + Len(more) /\ Len(more) \in Nat
           /\ \A i \in 1..n : messages'[i] = messages[i]
           /\ \A k \in 1..Len(more) : messages'[n + k] = more[k]
<1>1. From("user") # {}
  BY DEF Types
<1>2. /\ LastUser' = LastUser /\ From("user")' # {}
      /\ messages'[LastUser] = messages[LastUser]
      /\ ThisTurn' = LastUser + 1 .. n + Len(more)
      /\ DOMAIN messages' = 1..n + Len(more)
  BY <1>1, SameTurn
<1>3. LastUser \in 1..Len(messages)
  BY <1>1, LastUserIs
<1>4. /\ messages' \in Seq(MessageType) /\ Len(messages') = n + Len(more)
      /\ \A i \in 1..n : messages'[i] = messages[i]
      /\ \A k \in 1..Len(more) : messages'[n + k] = more[k]
      /\ Len(more) \in Nat
  BY DEF Goes
<1>5. ASSUME NEW i \in DOMAIN messages'
      PROVE  messages'[i].of <= made' /\ \A call \in messages'[i].calls : call.id \in 1..made'
  <2>0. i \in 1..n + Len(more)
    BY <1>2
  <2>1. CASE i <= n
    <3>1. i \in DOMAIN messages /\ messages'[i] = messages[i]
      BY <1>4, <2>0, <2>1 DEF Types
    <3>2. /\ messages[i].of <= made /\ messages[i].of \in Nat
          /\ \A call \in messages[i].calls : call.id \in 1..made
      BY <3>1, SaidIs
    <3>3. QED BY <3>1, <3>2
  <2>2. CASE i > n
    <3>1. i - n \in 1..Len(more) /\ n + (i - n) = i
      BY <1>4, <2>0, <2>2
    <3>2. QED BY <1>4, <3>1
  <2>3. QED BY <2>0, <2>1, <2>2
<1>6. turns' \in Nat /\ turns' > 0
  BY DEF Types
<1>7. Types'
  BY <1>2, <1>4, <1>5, <1>6 DEF Types, Exits, Points
<1>8. QED BY <1>2, <1>3, <1>4, <1>7

LEMMA HostAsksKeeps ==
    ASSUME LoopInv, NEW says \in Texts, HostAsks(says)
    PROVE  LoopInv'
<1>1. /\ at = "idle" /\ conf.framework # "crewai"
      /\ messages' = Append(messages, User(says))
      /\ at' = IF conf.framework = "haystack" THEN "before_run" ELSE "before_model"
      /\ steps' = 0 /\ exit' = "none" /\ asked' = 0 /\ failed' = {} /\ ran' = {}
      /\ turns' = turns + 1
      /\ UNCHANGED <<conf, made, crewVars>>
  BY DEF HostAsks
<1>2. Configured /\ Types
  BY DEF LoopInv
<1>3. messages \in Seq(MessageType) /\ User(says) \in MessageType /\ Len(messages) \in Nat
  BY <1>2, MessageTypes DEF Types
<1>4. Goes(Len(messages), <<User(says)>>)
  BY <1>1, <1>3, GoesSaying
<1>5. PICK n : n = Len(messages)
  OBVIOUS
<1>6. /\ messages' \in Seq(MessageType) /\ Len(messages') = n + 1 /\ n \in Nat
      /\ messages'[n + 1] = User(says) /\ DOMAIN messages' = 1..n + 1
      /\ \A i \in 1..n : messages'[i] = messages[i]
  BY <1>3, <1>4, <1>5 DEF Goes
<1>7. LastUser' = n + 1 /\ From("user")' # {}
  <2>1. From("user")' \subseteq 1..n + 1
    BY <1>6 DEF From
  <2>2. n + 1 \in From("user")'
    BY <1>6, MessageSays DEF From
  <2>3. PICK S : S = From("user")'
    OBVIOUS
  <2>4. n + 1 \in Nat /\ n + 1 \in S /\ S \subseteq 1..n + 1
    BY <1>6, <2>1, <2>2, <2>3
  <2>5. Max(S) = n + 1
    BY <2>4, MaxIs
  <2>6. QED BY <2>2, <2>3, <2>5 DEF LastUser
<1>8. ThisTurn' = {}
  BY <1>6, <1>7 DEF ThisTurn
<1>9. Types'
  <2>1. ASSUME NEW i \in DOMAIN messages'
        PROVE  messages'[i].of <= made /\ \A call \in messages'[i].calls : call.id \in 1..made
    <3>1. CASE i = n + 1
      BY <1>2, <1>6, <3>1, MessageSays DEF Types
    <3>2. CASE i \in 1..n
      BY <1>2, <1>5, <1>6, <3>2 DEF Types
    <3>3. QED BY <1>6, <3>1, <3>2
  <2>2. turns + 1 \in Nat /\ turns + 1 > 0
    BY <1>2 DEF Types
  <2>3. QED BY <1>1, <1>2, <1>6, <1>7, <2>1, <2>2 DEF Types
<1>10. Configured' /\ at' \in {"before_run", "before_model"}
  BY <1>1, <1>2 DEF Configured, HaystackPlaces, LangChainPlaces
<1>11. LastMessage'
  <2>1. Final'.from = "user"
    BY <1>6, MessageSays DEF Final
  <2>2. QED BY <1>10, <2>1 DEF LastMessage, Heard
<1>12. Count'
  BY <1>1, <1>10, BoundsAssumption DEF Count, Counted
<1>13. Halted'
  BY <1>1, <1>8, <1>10 DEF Halted
<1>14. Settling' /\ HonestEnd'
  BY <1>8, <1>10 DEF Settling, Distinct, HonestEnd
<1>15. QED BY <1>9, <1>10, <1>11, <1>12, <1>13, <1>14 DEF LoopInv

LEMMA ModelRepliesKeeps ==
    ASSUME LoopInv, NEW says \in Texts \cup {"none"}, NEW kinds \in Lists(Kinds),
           ModelReplies(says, kinds)
    PROVE  LoopInv'
<1>1. PICK calls : calls = {Call(made + i, kinds[i]) : i \in DOMAIN kinds}
  OBVIOUS
<1>2. /\ at = "model" /\ (says = "none" => kinds # <<>>)
      /\ messages' = Append(messages, Assistant(says, calls))
      /\ made' = made + Len(kinds) /\ asked' = asked + 1
      /\ IF conf.framework = "langchain"
         THEN at' = "after_model" /\ UNCHANGED <<steps, exit>>
         ELSE /\ at' = IF kinds = <<>> THEN "after_run" ELSE "before_tool"
              /\ steps' = steps + 1
              /\ exit' = IF kinds = <<>> THEN "text" ELSE exit
      /\ UNCHANGED <<conf, turns, ran, failed, crewVars>>
  BY <1>1 DEF ModelReplies
<1>3. /\ Configured /\ Types /\ LastMessage /\ Count /\ Halted /\ Settling
      /\ made \in Nat /\ turns > 0 /\ From("user") # {}
  BY <1>2 DEF LoopInv, Types
<1>4. /\ calls \in SUBSET CallType /\ IsFiniteSet(calls)
      /\ calls = {} <=> kinds = <<>>
      /\ made + Len(kinds) \in Nat /\ made + Len(kinds) >= made
      /\ \A call \in calls : call.id > made /\ call.id <= made + Len(kinds)
      /\ \A call, other \in calls : call.id = other.id => call = other
  <2>1. Len(kinds) \in Nat
    BY ListIs
  <2>2. /\ calls \in SUBSET CallType /\ IsFiniteSet(calls)
        /\ calls = {} <=> kinds = <<>>
        /\ made + Len(kinds) \in Nat
        /\ \A call \in calls : call.id > made /\ call.id <= made + Len(kinds)
        /\ \A call, other \in calls : call.id = other.id => call = other
    BY <1>1, <1>3, NewCalls
  <2>3. QED BY <1>3, <2>1, <2>2
<1>5. PICK m : m = Assistant(says, calls)
  OBVIOUS
<1>6. /\ m \in MessageType /\ m.from = "assistant" /\ m.of = 0
      /\ m.says = says /\ m.calls = calls
  <2>1. says \in Texts \cup {"none", "refusal"}
    OBVIOUS
  <2>2. m \in MessageType
    BY <1>4, <1>5, <2>1, MessageTypes
  <2>3. QED BY <1>5, <2>2, MessageSays
<1>7. PICK more : more = <<m>>
  OBVIOUS
<1>8. more \in Seq(MessageType) /\ Len(more) = 1 /\ more[1] = m
  BY <1>6, <1>7
<1>9. PICK n : n = Len(messages)
  OBVIOUS
<1>10. n \in Nat /\ Goes(n, more) /\ LastUser \in 1..n /\ DOMAIN messages = 1..n
  <2>1. messages' = Append(messages, m)
    BY <1>2, <1>5
  <2>2. messages \in Seq(MessageType)
    BY <1>3 DEF Types
  <2>3. QED BY <1>3, <1>6, <1>7, <1>9, <2>1, <2>2, GoesSaying, LastUserIs
<1>11. \A k \in 1..Len(more) : k = 1 /\ more[k] = m
  BY <1>8
<1>12. /\ Types' /\ LastUser' = LastUser /\ messages'[LastUser] = messages[LastUser]
       /\ ThisTurn' = LastUser + 1 .. n + 1
       /\ Len(messages') = n + 1
       /\ \A i \in 1..n : messages'[i] = messages[i]
       /\ messages'[n + 1] = m
  <2>1. steps' \in Nat /\ asked' \in Nat /\ exit' \in Exits
    BY <1>2, <1>3 DEF Types, Exits
  <2>2. ran' \subseteq CallType /\ failed' \subseteq Points
    BY <1>2, <1>3 DEF Types, Points
  <2>3. \A k \in 1..Len(more) : /\ more[k].from # "user" /\ more[k].of <= made'
            /\ \A call \in more[k].calls : call.id \in 1..made'
    <3>1. ASSUME NEW call \in calls PROVE call.id \in 1..made'
      BY <1>2, <1>3, <1>4 DEF CallType
    <3>2. QED BY <1>2, <1>4, <1>6, <1>11, <3>1
  <2>4. LastUser <= n /\ n <= Len(messages) /\ made <= made' /\ made' \in Nat /\ turns' = turns
    BY <1>2, <1>4, <1>9, <1>10
  <2>5. /\ Types' /\ LastUser' = LastUser /\ messages'[LastUser] = messages[LastUser]
        /\ ThisTurn' = LastUser + 1 .. n + Len(more)
        /\ Len(messages') = n + Len(more)
        /\ \A i \in 1..n : messages'[i] = messages[i]
        /\ \A k \in 1..Len(more) : messages'[n + k] = more[k]
    BY <1>3, <1>8, <1>10, <2>1, <2>2, <2>3, <2>4, Speaking
  <2>6. QED BY <1>8, <2>5
<1>13. Final' = m /\ Final = messages[n]
  BY <1>9, <1>12 DEF Final
<1>14. Configured' /\ conf' = conf /\ at' \in {"after_model", "before_tool", "after_run"}
  BY <1>2, <1>3 DEF Configured, HaystackPlaces, LangChainPlaces
<1>15. /\ at' = "before_tool" => calls # {}
       /\ at' = "after_run" => calls = {} /\ says \in Texts
       /\ at' = "after_model" <=> conf.framework = "langchain"
  BY <1>2, <1>4
<1>16. LastMessage'
  <2>1. Len(messages') > 1 /\ messages'[Len(messages') - 1].from \in Heard
    <3>1. Final.from \in Heard
      BY <1>2, <1>3 DEF LastMessage
    <3>2. n \in 1..n /\ n + 1 > 1 /\ (n + 1) - 1 = n
      BY <1>10
    <3>3. QED BY <1>12, <1>13, <3>1, <3>2
  <2>2. at' = "after_run" => Final'.says # "refusal"
    BY <1>6, <1>13, <1>15 DEF Texts
  <2>3. QED BY <1>6, <1>13, <1>14, <1>15, <2>1, <2>2 DEF LastMessage
<1>17. Count'
  <2>1. CASE conf.framework # "haystack"
    BY <1>14, <2>1 DEF Count
  <2>2. CASE conf.framework = "haystack"
    <3>1. steps = asked /\ steps < MaxAgentSteps /\ exit # "xaidr_blocked"
      BY <1>2, <1>3, <2>2 DEF Count, Counted
    <3>2. steps' = asked' /\ steps' <= MaxAgentSteps /\ exit' # "xaidr_blocked"
      BY <1>2, <1>3, <2>2, <3>1, BoundsAssumption DEF Types
    <3>3. QED BY <1>14, <3>2 DEF Count, Counted
  <2>3. QED BY <2>1, <2>2
<1>18. Halted'
  <2>1. \A who : MustHalt(who)' = MustHalt(who)
    BY <1>14 DEF MustHalt
  <2>2. "before_run" \notin failed => ~MustHalt(messages[LastUser].says)
    BY <1>2, <1>3 DEF Halted
  <2>3. ASSUME conf.patched, NEW i \in ThisTurn', messages'[i].from = "tool"
        PROVE  ~MustHalt(messages'[i].says)
    <3>1. i \in LastUser + 1 .. n + 1 /\ i # n + 1
      BY <1>6, <1>12, <2>3
    <3>2. i \in ThisTurn /\ messages'[i] = messages[i]
      BY <1>9, <1>10, <1>12, <3>1 DEF ThisTurn
    <3>3. QED BY <1>2, <1>3, <2>3, <3>2 DEF Halted
  <2>4. \A call \in ran' : "before_tool" \notin failed' =>
          /\ ~(conf'.enforces /\ call.args = "bad")
          /\ ~(call.tool = "listed" /\ (conf'.enforces \/ conf'.framework # "langchain"))
    BY <1>2, <1>3 DEF Halted
  <2>5. failed' = failed
    BY <1>2
  <2>6. QED BY <1>12, <1>14, <2>1, <2>2, <2>3, <2>4, <2>5 DEF Halted
<1>19. Settling'
  <2>1. ASSUME NEW i \in ThisTurn, i \in 1..n PROVE SettledAt(i)'
    <3>1. SettledAt(i)
      BY <1>2, <1>3, <2>1 DEF Settling
    <3>2. ran \subseteq ran' /\ n <= Len(messages)
      BY <1>2, <1>9
    <3>3. \A j \in n + 1..Len(messages) : messages[j].from # "tool"
      BY <1>9, <1>10
    <3>4. QED BY <1>3, <1>6, <1>8, <1>10, <1>11, <2>1, <3>1, <3>2, <3>3, SettledStays
  <2>2. \A i \in ThisTurn' : i # n + 1 => i \in ThisTurn /\ i \in 1..n
    BY <1>9, <1>10, <1>12 DEF ThisTurn
  <2>3. Distinct'
    <3>1. Distinct /\ LastUser <= n /\ n <= Len(messages)
      BY <1>2, <1>3, <1>9, <1>10 DEF Settling
    <3>2. \A k, l \in 1..Len(more) : \A call \in more[k].calls, other \in more[l].calls :
               call.id = other.id => k = l /\ call = other
      BY <1>4, <1>6, <1>11
    <3>3. ASSUME NEW k \in 1..Len(more), NEW i \in ThisTurn, i <= n,
                 NEW call \in more[k].calls, NEW other \in messages[i].calls
          PROVE  call.id # other.id
      <4>1. call.id > made /\ call.id \in Nat
        BY <1>4, <1>6, <1>11 DEF CallType
      <4>2. i \in DOMAIN messages
        BY <1>3, LastUserIs
      <4>3. other.id \in 1..made
        BY <1>3, <4>2 DEF Types
      <4>4. QED BY <4>1, <4>3, <1>3
    <3>4. \A k \in 1..Len(more) : more[k].from # "user"
      BY <1>6, <1>11
    <3>5. QED BY <1>3, <1>8, <1>10, <3>1, <3>2, <3>3, <3>4, DistinctStays
  <2>4. Fresh(n + 1)'
    <3>1. SUFFICES ASSUME NEW call \in calls PROVE Answers(call)' = {}
      BY <1>6, <1>12 DEF Fresh
    <3>2. Answers(call) = {}
      <4>1. \A j \in DOMAIN messages : messages[j].of <= made /\ messages[j].of \in Nat
        BY <1>3, SaidIs
      <4>2. call.id > made /\ call.id \in Nat
        BY <1>4 DEF CallType
      <4>3. QED BY <1>3, <4>1, <4>2 DEF Answers
    <3>3. n <= Len(messages) /\ ran \subseteq ran' /\ Answers(call) \subseteq 1..n
      BY <1>2, <1>9, <1>10, <3>2
    <3>4. \A k \in 1..Len(more) : more[k].from = "tool" => more[k].of # call.id
      BY <1>6, <1>11
    <3>5. QED BY <1>3, <1>8, <1>10, <3>2, <3>3, <3>4, StaysSettled
  <2>5. calls = {} => SettledAt(n + 1)'
    BY <1>6, <1>12 DEF SettledAt
  <2>6. QED BY <1>12, <1>14, <1>15, <2>1, <2>2, <2>3, <2>4, <2>5 DEF Settling
<1>20. HonestEnd'
  BY <1>14 DEF HonestEnd
<1>21. QED BY <1>12, <1>14, <1>16, <1>17, <1>18, <1>19, <1>20 DEF LoopInv

\* A step that says nothing leaves all that is said of the conversation.
LEMMA Quiet ==
    ASSUME UNCHANGED <<messages, ran, conf>>
    PROVE  /\ Final' = Final /\ LastUser' = LastUser /\ ThisTurn' = ThisTurn
           /\ From("user")' = From("user")
           /\ Distinct => Distinct'
           /\ \A i : SettledAt(i) => SettledAt(i)'
           /\ \A i : Fresh(i) => Fresh(i)'
           /\ \A says : MustHalt(says)' = MustHalt(says)
           /\ \A call : ToolVerdict(call)' = ToolVerdict(call)
<1>1. /\ Final' = Final /\ LastUser' = LastUser /\ ThisTurn' = ThisTurn
      /\ From("user")' = From("user")
  BY DEF Final, LastUser, ThisTurn, From
<1>2. /\ \A says : MustHalt(says)' = MustHalt(says)
      /\ \A call : ToolVerdict(call)' = ToolVerdict(call)
  BY DEF MustHalt, ToolVerdict
<1>3. Distinct => Distinct'
  BY <1>1 DEF Distinct
<1>4. \A i : (SettledAt(i) => SettledAt(i)') /\ (Fresh(i) => Fresh(i)')
  BY DEF SettledAt, Settled, Fresh, Answers
<1>5. QED BY <1>1, <1>2, <1>3, <1>4

\* A step of a turn that says nothing.
LEMMA QuietTypes ==
    ASSUME Types, turns > 0, UNCHANGED <<messages, turns, made, ran>>, steps' \in Nat,
           asked' \in Nat, exit' \in Exits, failed' \subseteq Points
    PROVE  Types'
BY DEF Types, From, Exits, Points

LEMMA HookFailsKeeps ==
    ASSUME LoopInv, HookFails
    PROVE  LoopInv'
<1>1. PICK point \in Points :
         /\ at = point /\ conf.framework = "haystack"
         /\ failed' = failed \union {point}
         /\ at' = CASE point = "before_run" -> "loop"
                    [] point = "before_tool" -> "tools"
                    [] OTHER -> "idle"
         /\ UNCHANGED <<conf, turns, asked, made, crewVars, messages, steps, exit, ran>>
  BY DEF HookFails, Loop, Points
<1>2. /\ Configured /\ Types /\ LastMessage /\ Count /\ Halted /\ Settling /\ at # "idle"
      /\ turns > 0
  BY <1>1 DEF LoopInv, Types, Points
<1>3. \/ at = "before_run" /\ at' = "loop" /\ "before_run" \in failed'
      \/ at = "before_tool" /\ at' = "tools" /\ "before_tool" \in failed'
      \/ at = "after_run" /\ at' = "idle" /\ "after_run" \in failed'
  <2>1. point = "before_run" \/ point = "before_tool" \/ point = "after_run"
    BY DEF Points
  <2>2. at = point /\ point \in failed'
    BY <1>1
  <2>3. CASE point = "before_run"
    BY <1>1, <2>2, <2>3
  <2>4. CASE point = "before_tool"
    BY <1>1, <2>2, <2>4
  <2>5. CASE point = "after_run"
    BY <1>1, <2>2, <2>5
  <2>6. QED BY <2>1, <2>3, <2>4, <2>5
<1>4. Types'
  BY <1>1, <1>2, QuietTypes DEF Types, Exits, Points
<1>5. /\ Final' = Final /\ LastUser' = LastUser /\ ThisTurn' = ThisTurn
      /\ Distinct => Distinct'
      /\ \A i : SettledAt(i) => SettledAt(i)'
      /\ \A i : Fresh(i) => Fresh(i)'
      /\ \A says : MustHalt(says)' = MustHalt(says)
  BY <1>1, Quiet
<1>6. Configured'
  BY <1>1, <1>2, <1>3 DEF Configured, HaystackPlaces
<1>7. LastMessage' /\ Count'
  BY <1>1, <1>2, <1>3, <1>5 DEF LastMessage, Heard, Count, Counted, Stopped
<1>8. Halted'
  BY <1>1, <1>2, <1>3, <1>5 DEF Halted, Stopped, Configured
<1>9. Settling'
  BY <1>1, <1>2, <1>3, <1>5 DEF Settling
<1>10. HonestEnd'
  BY <1>3 DEF HonestEnd
<1>11. QED BY <1>4, <1>6, <1>7, <1>8, <1>9, <1>10 DEF LoopInv

LEMMA AgentStepsKeeps ==
    ASSUME LoopInv, AgentSteps
    PROVE  LoopInv'
<1>1. /\ at = "loop" /\ conf.framework = "haystack"
      /\ IF steps < MaxAgentSteps THEN at' = "model" /\ UNCHANGED exit
         ELSE at' = "after_run" /\ exit' = "max_agent_steps"
      /\ UNCHANGED <<conf, turns, asked, made, crewVars, messages, steps, ran, failed>>
  BY DEF AgentSteps, Loop
<1>2. /\ Configured /\ Types /\ LastMessage /\ Count /\ Halted /\ Settling /\ turns > 0
  BY <1>1 DEF LoopInv, Types
<1>3. Types'
  BY <1>1, <1>2, QuietTypes DEF Types, Exits, Points
<1>4. /\ Final' = Final /\ LastUser' = LastUser /\ ThisTurn' = ThisTurn
      /\ Distinct => Distinct'
      /\ \A i : SettledAt(i) => SettledAt(i)'
      /\ \A says : MustHalt(says)' = MustHalt(says)
  BY <1>1, Quiet
<1>5. at' \in {"model", "after_run"} /\ Configured'
  BY <1>1, <1>2 DEF Configured, HaystackPlaces
<1>6. at' = "model" => steps < MaxAgentSteps /\ ~Stopped
  BY <1>1, BoundsAssumption DEF Stopped, STOP_SENTINEL
<1>7. LastMessage' /\ Count'
  BY <1>1, <1>2, <1>4, <1>5, <1>6 DEF LastMessage, Heard, Count, Counted, Stopped
<1>8. Halted'
  BY <1>1, <1>2, <1>4, <1>5, <1>6 DEF Halted, Stopped, Configured
<1>9. Settling' /\ HonestEnd'
  BY <1>1, <1>2, <1>4, <1>5 DEF Settling, HonestEnd
<1>10. QED BY <1>3, <1>5, <1>7, <1>8, <1>9 DEF LoopInv

\* One message more, which asks for no tool.
LEMMA SaysOne ==
    ASSUME Types, turns > 0, NEW m \in MessageType, m.from # "user", m.of <= made, m.calls = {},
           messages' = Append(messages, m), UNCHANGED <<made, turns>>,
           steps' \in Nat, asked' \in Nat, exit' \in Exits,
           ran \subseteq ran', ran' \subseteq CallType, failed' \subseteq Points
    PROVE  /\ Types' /\ Final' = m /\ LastUser' = LastUser
           /\ messages'[LastUser] = messages[LastUser]
           /\ Goes(Len(messages), <<m>>)
           /\ ThisTurn' = ThisTurn \cup {Len(messages) + 1} /\ Len(messages) + 1 \notin ThisTurn
           /\ \A i \in ThisTurn : i \in 1..Len(messages) /\ messages'[i] = messages[i]
           /\ messages'[Len(messages) + 1] = m
           /\ Distinct => Distinct'
           /\ \A i \in ThisTurn : m.from # "tool" /\ SettledAt(i) => SettledAt(i)'
           /\ \A i \in ThisTurn' \ ThisTurn : SettledAt(i)'
<1>1. PICK n : n = Len(messages)
  OBVIOUS
<1>2. PICK more : more = <<m>>
  OBVIOUS
<1>3. /\ more \in Seq(MessageType) /\ Len(more) = 1 /\ more[1] = m
      /\ \A k \in 1..Len(more) : k = 1 /\ more[k] = m
  BY <1>2
<1>4. /\ From("user") # {} /\ made \in Nat /\ n \in Nat /\ messages \in Seq(MessageType)
      /\ DOMAIN messages = 1..n
  BY <1>1 DEF Types
<1>5. Goes(n, more) /\ LastUser \in 1..n
  BY <1>1, <1>2, <1>4, GoesSaying, LastUserIs
<1>6. \A k \in 1..Len(more) : /\ more[k].from # "user" /\ more[k].of <= made'
            /\ \A call \in more[k].calls : call.id \in 1..made'
  BY <1>3
<1>7. LastUser <= n /\ n <= Len(messages) /\ made <= made' /\ made' \in Nat /\ turns' = turns
  BY <1>1, <1>4, <1>5
<1>8. /\ Types' /\ LastUser' = LastUser /\ messages'[LastUser] = messages[LastUser]
      /\ ThisTurn' = LastUser + 1 .. n + Len(more) /\ Len(messages') = n + Len(more)
      /\ \A i \in 1..n : messages'[i] = messages[i]
      /\ \A k \in 1..Len(more) : messages'[n + k] = more[k]
  BY <1>3, <1>4, <1>5, <1>6, <1>7, Speaking
<1>9. /\ ThisTurn' = ThisTurn \cup {n + 1} /\ n + 1 \notin ThisTurn
      /\ \A i \in ThisTurn : i \in 1..n
      /\ Final' = m /\ messages'[n + 1] = m
  <2>1. ThisTurn' = LastUser + 1 .. n + 1 /\ ThisTurn = LastUser + 1 .. n
    BY <1>1, <1>3, <1>8 DEF ThisTurn
  <2>2. messages'[n + 1] = m /\ Len(messages') = n + 1
    BY <1>3, <1>8
  <2>3. Final' = m
    BY <2>2 DEF Final
  <2>4. QED BY <1>4, <1>5, <2>1, <2>2, <2>3
<1>10. Distinct => Distinct'
  <2>1. /\ \A k, l \in 1..Len(more) : \A call \in more[k].calls, other \in more[l].calls :
              call.id = other.id => k = l /\ call = other
        /\ \A k \in 1..Len(more), i \in ThisTurn : i <= n =>
              \A call \in more[k].calls, other \in messages[i].calls : call.id # other.id
        /\ \A k \in 1..Len(more) : more[k].from # "user"
    BY <1>3
  <2>2. QED BY <1>3, <1>4, <1>5, <1>7, <2>1, DistinctStays
<1>11. ASSUME NEW i \in ThisTurn, m.from # "tool", SettledAt(i) PROVE SettledAt(i)'
  <2>1. \A j \in n + 1..Len(messages) : messages[j].from # "tool"
    BY <1>1, <1>4
  <2>2. \A call \in messages[i].calls, k \in 1..Len(more) :
               more[k].from = "tool" => more[k].of # call.id
    BY <1>3, <1>11
  <2>3. i \in 1..n
    BY <1>9
  <2>4. QED BY <1>3, <1>4, <1>5, <1>7, <1>11, <2>1, <2>2, <2>3, SettledStays
<1>12. SettledAt(n + 1)'
  BY <1>9 DEF SettledAt
<1>13. \A i \in ThisTurn : messages'[i] = messages[i]
  BY <1>8, <1>9
<1>14. Goes(Len(messages), <<m>>)
  BY <1>1, <1>2, <1>5
<1>15. \A i \in ThisTurn' \ ThisTurn : SettledAt(i)'
  BY <1>9, <1>12
<1>16. \A i \in ThisTurn : m.from # "tool" /\ SettledAt(i) => SettledAt(i)'
  BY <1>11
<1>17. /\ ThisTurn' = ThisTurn \cup {Len(messages) + 1} /\ Len(messages) + 1 \notin ThisTurn
       /\ \A i \in ThisTurn : i \in 1..Len(messages) /\ messages'[i] = messages[i]
       /\ messages'[Len(messages) + 1] = m
  BY <1>1, <1>9, <1>13
<1>18. QED BY <1>8, <1>9, <1>10, <1>14, <1>15, <1>16, <1>17
\* A refusal is said, or nothing.
LEMMA RefusalSaid ==
    ASSUME Types, turns > 0, messages' = Append(messages, Refusal), UNCHANGED <<conf, made, turns, ran>>,
           steps' \in Nat, asked' \in Nat, exit' \in Exits, failed' \subseteq Points,
           Distinct, \A i \in ThisTurn : SettledAt(i)
    PROVE  /\ Types' /\ Final' = Refusal /\ LastUser' = LastUser
           /\ messages'[LastUser] = messages[LastUser]
           /\ Distinct' /\ \A i \in ThisTurn' : SettledAt(i)'
           /\ ThisTurn' = ThisTurn \cup {Len(messages) + 1}
           /\ \A i \in ThisTurn : messages'[i] = messages[i]
           /\ messages'[Len(messages) + 1] = Refusal
<1>1. /\ Refusal \in MessageType /\ Refusal.from = "assistant" /\ Refusal.of = 0
      /\ Refusal.calls = {}
  BY MessageTypes, MessageSays
<1>2. PICK m : m = Refusal
  OBVIOUS
<1>3. m.of <= made /\ ran \subseteq ran' /\ ran' \subseteq CallType
  BY <1>1, <1>2 DEF Types
<1>4. m.from # "user" /\ m.from # "tool" /\ m.calls = {} /\ m \in MessageType
  BY <1>1, <1>2
<1>5. messages' = Append(messages, m) /\ UNCHANGED <<made, turns>>
  BY <1>2
<1>6. /\ Types' /\ Final' = m /\ LastUser' = LastUser
      /\ messages'[LastUser] = messages[LastUser]
      /\ ThisTurn' = ThisTurn \cup {Len(messages) + 1}
      /\ \A i \in ThisTurn : messages'[i] = messages[i]
      /\ messages'[Len(messages) + 1] = m
      /\ Distinct => Distinct'
      /\ \A i \in ThisTurn : m.from # "tool" /\ SettledAt(i) => SettledAt(i)'
      /\ \A i \in ThisTurn' \ ThisTurn : SettledAt(i)'
  BY <1>3, <1>4, <1>5, SaysOne
<1>7. \A i \in ThisTurn' : SettledAt(i)'
  BY <1>4, <1>6
<1>8. QED BY <1>2, <1>6, <1>7

LEMMA BeforeRunKeeps ==
    ASSUME LoopInv, BeforeRun
    PROVE  LoopInv'
<1>1. /\ at = "before_run" /\ conf.framework = "haystack" /\ at' = "loop"
      /\ IF MustHalt(messages[LastUser].says)
         THEN messages' = Append(messages, Refusal) /\ steps' = STOP_SENTINEL
         ELSE UNCHANGED <<messages, steps>>
      /\ UNCHANGED <<conf, turns, asked, made, crewVars, exit, ran, failed>>
  BY DEF BeforeRun, Loop
<1>2. /\ Configured /\ Types /\ LastMessage /\ Count /\ Halted /\ Settling /\ turns > 0
      /\ Distinct /\ \A i \in ThisTurn : SettledAt(i)
  BY <1>1 DEF LoopInv, Types, Settling
<1>3. steps' \in Nat /\ asked' \in Nat /\ exit' \in Exits /\ failed' \subseteq Points
  BY <1>1, <1>2, BoundsAssumption DEF Types, Exits, Points, STOP_SENTINEL
<1>4. Configured' /\ ~conf'.patched
  BY <1>1, <1>2 DEF Configured, HaystackPlaces
<1>5. HonestEnd'
  BY <1>1 DEF HonestEnd
<1>6. CASE MustHalt(messages[LastUser].says)
  <2>1. messages' = Append(messages, Refusal) /\ steps' = STOP_SENTINEL
    BY <1>1, <1>6
  <2>2. /\ Types' /\ Final' = Refusal
        /\ Distinct' /\ \A i \in ThisTurn' : SettledAt(i)'
    BY <1>1, <1>2, <1>3, <2>1, RefusalSaid
  <2>3. Stopped'
    BY <1>1, <1>2, <2>1, <2>2 DEF Stopped, Count, Refusal, Assistant, Message, STOP_SENTINEL
  <2>4. LastMessage' /\ Count'
    BY <1>1, <1>2, <2>3 DEF LastMessage, Count
  <2>5. Halted'
    BY <1>1, <1>2, <1>4, <2>3 DEF Halted
  <2>6. Settling'
    BY <1>1, <2>2 DEF Settling
  <2>7. QED BY <1>4, <1>5, <2>2, <2>4, <2>5, <2>6 DEF LoopInv
<1>7. CASE ~MustHalt(messages[LastUser].says)
  <2>1. UNCHANGED <<messages, steps>>
    BY <1>1, <1>7
  <2>2. Types'
    BY <1>1, <1>2, <1>3, <2>1, QuietTypes
  <2>3. /\ Final' = Final /\ LastUser' = LastUser /\ ThisTurn' = ThisTurn
        /\ Distinct => Distinct'
        /\ \A i : SettledAt(i) => SettledAt(i)'
        /\ \A says : MustHalt(says)' = MustHalt(says)
    BY <1>1, <2>1, Quiet
  <2>4. LastMessage' /\ Count'
    BY <1>1, <1>2, <2>1, <2>3 DEF LastMessage, Count, Counted
  <2>5. Halted'
    BY <1>1, <1>2, <1>4, <1>7, <2>1, <2>3 DEF Halted
  <2>6. Settling'
    BY <1>1, <1>2, <2>3 DEF Settling
  <2>7. QED BY <1>4, <1>5, <2>2, <2>4, <2>5, <2>6 DEF LoopInv
<1>8. QED BY <1>6, <1>7

LEMMA BeforeModelKeeps ==
    ASSUME LoopInv, BeforeModel
    PROVE  LoopInv'
<1>1. /\ at = "before_model" /\ conf.framework = "langchain"
      /\ IF MustHalt(messages[LastUser].says)
         THEN messages' = Append(messages, Refusal) /\ at' = "idle"
         ELSE at' = "model" /\ UNCHANGED messages
      /\ UNCHANGED <<conf, steps, turns, asked, made, crewVars, exit, ran, failed>>
  BY DEF BeforeModel, Middleware, JumpToEnd
<1>2. /\ Configured /\ Types /\ LastMessage /\ Count /\ Halted /\ Settling /\ turns > 0
      /\ Distinct /\ \A i \in ThisTurn : SettledAt(i)
  BY <1>1 DEF LoopInv, Types, Settling
<1>3. steps' \in Nat /\ asked' \in Nat /\ exit' \in Exits /\ failed' \subseteq Points
  BY <1>1, <1>2 DEF Types, Exits, Points
<1>4. Configured' /\ conf'.framework # "haystack"
  BY <1>1, <1>2 DEF Configured, LangChainPlaces
<1>5. HonestEnd' /\ Count'
  BY <1>1, <1>4 DEF HonestEnd, Count
<1>6. CASE MustHalt(messages[LastUser].says)
  <2>1. messages' = Append(messages, Refusal) /\ at' = "idle"
    BY <1>1, <1>6
  <2>2. Types'
    BY <1>1, <1>2, <1>3, <2>1, RefusalSaid
  <2>3. LastMessage' /\ Settling'
    BY <2>1 DEF LastMessage, Settling
  <2>4. Halted'
    BY <1>1, <1>2, <2>1 DEF Halted
  <2>5. QED BY <1>4, <1>5, <2>2, <2>3, <2>4 DEF LoopInv
<1>7. CASE ~MustHalt(messages[LastUser].says)
  <2>1. UNCHANGED messages /\ at' = "model"
    BY <1>1, <1>7
  <2>2. Types'
    BY <1>1, <1>2, <1>3, <2>1, QuietTypes
  <2>3. /\ Final' = Final /\ LastUser' = LastUser /\ ThisTurn' = ThisTurn
        /\ Distinct => Distinct'
        /\ \A i : SettledAt(i) => SettledAt(i)'
        /\ \A says : MustHalt(says)' = MustHalt(says)
    BY <1>1, <2>1, Quiet
  <2>4. LastMessage'
    BY <1>1, <1>2, <2>1, <2>3 DEF LastMessage
  <2>5. Halted'
    BY <1>1, <1>2, <1>7, <2>1, <2>3 DEF Halted
  <2>6. Settling'
    BY <1>2, <2>1, <2>3 DEF Settling
  <2>7. QED BY <1>4, <1>5, <2>2, <2>4, <2>5, <2>6 DEF LoopInv
<1>8. QED BY <1>6, <1>7

\* Of the last message, which may ask for tools: a refusal may follow it.
LEMMA AfterModelKeeps ==
    ASSUME LoopInv, AfterModel
    PROVE  LoopInv'
<1>1. /\ at = "after_model" /\ conf.framework = "langchain"
      /\ IF MustHalt(Final.says)
         THEN messages' = Append(messages, Refusal) /\ at' = "idle"
         ELSE at' = (IF Final.calls = {} THEN "idle" ELSE "wrap") /\ UNCHANGED messages
      /\ UNCHANGED <<conf, steps, turns, asked, made, crewVars, exit, ran, failed>>
  BY DEF AfterModel, Middleware, JumpToEnd
<1>2. /\ Configured /\ Types /\ LastMessage /\ Count /\ Halted /\ Settling /\ turns > 0
      /\ Distinct /\ Fresh(Len(messages)) /\ \A i \in ThisTurn \ {Len(messages)} : SettledAt(i)
  BY <1>1 DEF LoopInv, Types, Settling
<1>3. steps' \in Nat /\ asked' \in Nat /\ exit' \in Exits /\ failed' \subseteq Points
  BY <1>1, <1>2 DEF Types, Exits, Points
<1>4. Configured' /\ conf'.framework # "haystack"
  <2>1. at' \in {"idle", "wrap"}
    BY <1>1
  <2>2. QED BY <1>1, <1>2, <2>1 DEF Configured, LangChainPlaces
<1>5. HonestEnd' /\ Count'
  BY <1>1, <1>4 DEF HonestEnd, Count
<1>6. CASE MustHalt(Final.says)
  <2>1. messages' = Append(messages, Refusal) /\ at' = "idle"
    BY <1>1, <1>6
  <2>2. Types'
    <3>1. /\ Refusal \in MessageType /\ Refusal.from = "assistant" /\ Refusal.of = 0
          /\ Refusal.calls = {}
      BY MessageTypes, MessageSays
    <3>2. Refusal.of <= made /\ ran \subseteq ran' /\ ran' \subseteq CallType
      BY <1>1, <1>2, <3>1 DEF Types
    <3>3. PICK m : m = Refusal
      OBVIOUS
    <3>4. /\ m \in MessageType /\ m.from # "user" /\ m.of <= made /\ m.calls = {}
          /\ messages' = Append(messages, m)
      BY <2>1, <3>1, <3>2, <3>3
    <3>5. QED BY <1>1, <1>2, <1>3, <3>2, <3>4, SaysOne
  <2>3. LastMessage' /\ Settling'
    BY <2>1 DEF LastMessage, Settling
  <2>4. Halted'
    BY <1>1, <1>2, <2>1 DEF Halted
  <2>5. QED BY <1>4, <1>5, <2>2, <2>3, <2>4 DEF LoopInv
<1>7. CASE ~MustHalt(Final.says)
  <2>1. UNCHANGED messages /\ at' = IF Final.calls = {} THEN "idle" ELSE "wrap"
    BY <1>1, <1>7
  <2>2. Types'
    BY <1>1, <1>2, <1>3, <2>1, QuietTypes
  <2>3. /\ Final' = Final /\ LastUser' = LastUser /\ ThisTurn' = ThisTurn
        /\ Distinct => Distinct'
        /\ \A i : SettledAt(i) => SettledAt(i)'
        /\ \A i : Fresh(i) => Fresh(i)'
        /\ \A says : MustHalt(says)' = MustHalt(says)
    BY <1>1, <2>1, Quiet
  <2>4. LastMessage'
    BY <2>1 DEF LastMessage
  <2>5. Halted'
    BY <1>1, <1>2, <2>1, <2>3 DEF Halted
  <2>6. Settling'
    <3>1. CASE Final.calls = {}
      BY <2>1, <3>1 DEF Settling
    <3>2. CASE Final.calls # {}
      <4>1. PICK k : k = Len(messages)
        OBVIOUS
      <4>2. From("user") # {} /\ LastUser \in 1..k /\ k \in Nat /\ k > 1
        BY <1>1, <1>2, <4>1, LastUserIs DEF Types, LastMessage
      <4>3. messages[k].from = "assistant" /\ messages[k].calls # {}
        BY <1>1, <1>2, <3>2, <4>1 DEF LastMessage, Final
      <4>4. messages[LastUser].from = "user"
        BY <1>2, <4>2, LastUserIs
      <4>5. k \in ThisTurn /\ \A j \in ThisTurn : ~(j > k)
        <5>1. LastUser # k
          BY <4>3, <4>4
        <5>2. ThisTurn = LastUser + 1 .. k
          BY <4>1 DEF ThisTurn
        <5>3. QED BY <4>2, <5>1, <5>2
      <4>6. \A i \in ThisTurn \ {k} : SettledAt(i)'
        BY <1>2, <2>3, <4>1
      <4>7. Fresh(k)'
        BY <1>2, <2>3, <4>1
      <4>8. \A call \in messages'[k].calls : Answers(call)' = {}
        BY <4>7 DEF Fresh
      <4>9. Distinct' /\ at' = "wrap" /\ messages' = messages /\ ThisTurn' = ThisTurn
        BY <1>2, <2>1, <2>3, <3>2
      <4>10. \E l \in ThisTurn' :
                 /\ messages'[l].from = "assistant" /\ messages'[l].calls # {}
                 /\ \A j \in ThisTurn' : j > l => messages'[j].from = "tool"
                 /\ \A i \in ThisTurn' \ {l} : SettledAt(i)'
                 /\ \A call \in messages'[l].calls : Answers(call)' = {} \/ Settled(l, call)'
        BY <4>3, <4>5, <4>6, <4>8, <4>9
      <4>11. QED BY <4>9, <4>10 DEF Settling
    <3>3. QED BY <3>1, <3>2
  <2>7. QED BY <1>4, <1>5, <2>2, <2>4, <2>5, <2>6 DEF LoopInv
<1>8. QED BY <1>6, <1>7
LEMMA AfterRunKeeps ==
    ASSUME LoopInv, AfterRun
    PROVE  LoopInv'
<1>1. /\ at = "after_run" /\ conf.framework = "haystack" /\ at' = "idle"
      /\ IF steps >= STOP_SENTINEL
         THEN steps' = 0 /\ exit' = "xaidr_blocked" /\ UNCHANGED messages
         ELSE /\ UNCHANGED steps
              /\ IF Final.from = "assistant" /\ MustHalt(Final.says)
                 THEN /\ messages' = [messages EXCEPT ![Len(messages)] = Refusal]
                      /\ exit' = "xaidr_blocked"
                 ELSE UNCHANGED <<messages, exit>>
      /\ UNCHANGED <<conf, turns, asked, made, crewVars, ran, failed>>
  BY DEF AfterRun, Loop
<1>2. /\ Configured /\ Types /\ LastMessage /\ Count /\ Halted /\ turns > 0
      /\ steps \in Nat /\ asked \in Nat /\ From("user") # {}
  BY <1>1 DEF LoopInv, Types
<1>3. Configured'
  BY <1>1, <1>2 DEF Configured
<1>4. LastMessage' /\ Count' /\ Settling'
  BY <1>1 DEF LastMessage, Count, Settling
<1>5. Halted'
  BY <1>1, <1>2 DEF Halted
<1>6. (Counted \/ Stopped) /\ exit # "xaidr_blocked"
  BY <1>1, <1>2 DEF Count
<1>7. steps >= STOP_SENTINEL => Stopped
  BY <1>2, <1>6, BoundsAssumption DEF Counted, STOP_SENTINEL
<1>8. Stopped => steps >= STOP_SENTINEL
  BY <1>2, BoundsAssumption DEF Stopped, STOP_SENTINEL
<1>9. /\ Refusal \in MessageType /\ Refusal.from = "assistant" /\ Refusal.of = 0
      /\ Refusal.calls = {} /\ Refusal.says = "refusal" /\ ~MustHalt("refusal")
  BY MessageTypes, MessageSays, MustHaltOf
<1>10. \A says : MustHalt(says)' = MustHalt(says)
  BY <1>1 DEF MustHalt
<1>11. CASE UNCHANGED messages
  <2>1. Final' = Final /\ steps' \in Nat /\ asked' \in Nat /\ exit' \in Exits /\ failed' \subseteq Points
    BY <1>1, <1>2, <1>11 DEF Final, Types, Exits, Points
  <2>2. Types'
    BY <1>1, <1>2, <1>11, <2>1, QuietTypes
  <2>3. CASE steps >= STOP_SENTINEL
    <3>1. Final' = Refusal /\ steps' = asked' /\ exit' = "xaidr_blocked"
      BY <1>1, <1>7, <2>1, <2>3 DEF Stopped
    <3>2. HonestEnd'
      BY <1>9, <1>10, <3>1 DEF HonestEnd
    <3>3. QED BY <1>3, <1>4, <1>5, <2>2, <3>2 DEF LoopInv
  <2>4. CASE ~(steps >= STOP_SENTINEL)
    <3>1. steps' = asked'
      BY <1>1, <1>6, <1>8, <2>4 DEF Counted
    <3>2. ~(Final.from = "assistant" /\ Final.says = "refusal")
      BY <1>1, <1>2, <1>8, <2>4 DEF LastMessage, Heard
    <3>3. CASE Final.from = "assistant" /\ MustHalt(Final.says)
      <4>1. messages # <<>>
        BY <1>2 DEF From
      <4>2. PICK n : n = Len(messages)
        OBVIOUS
      <4>3. n \in 1..n /\ DOMAIN messages = 1..n
        BY <1>2, <4>1, <4>2 DEF Types
      <4>4. messages' = [messages EXCEPT ![n] = Refusal]
        BY <1>1, <2>4, <3>3, <4>2
      <4>5. messages'[n] = Refusal
        BY <4>3, <4>4
      <4>6. Final = Refusal
        BY <1>11, <4>2, <4>5 DEF Final
      <4>7. QED BY <1>9, <3>3, <4>6
    <3>4. CASE ~(Final.from = "assistant" /\ MustHalt(Final.says))
      <4>1. exit' = exit
        BY <1>1, <2>4, <3>4
      <4>2. HonestEnd'
        BY <1>6, <1>10, <2>1, <3>1, <3>2, <3>4, <4>1 DEF HonestEnd
      <4>3. QED BY <1>3, <1>4, <1>5, <2>2, <4>2 DEF LoopInv
    <3>5. QED BY <3>3, <3>4
  <2>5. QED BY <2>3, <2>4
<1>12. CASE ~(UNCHANGED messages)
  <2>1. /\ ~(steps >= STOP_SENTINEL) /\ steps' = steps /\ Final.from = "assistant"
        /\ messages' = [messages EXCEPT ![Len(messages)] = Refusal] /\ exit' = "xaidr_blocked"
    BY <1>1, <1>12
  <2>2. PICK n : n = Len(messages)
    OBVIOUS
  <2>3. LastUser \in 1..n /\ messages[LastUser].from = "user" /\ messages \in Seq(MessageType)
    BY <1>2, <2>2, LastUserIs DEF Types
  <2>4. n \in Nat /\ n \in 1..n /\ DOMAIN messages = 1..n /\ Final = messages[n]
    BY <2>2, <2>3 DEF Final
  <2>5. /\ messages' \in Seq(MessageType) /\ Len(messages') = n /\ DOMAIN messages' = 1..n
        /\ messages'[n] = Refusal /\ \A i \in 1..n : i # n => messages'[i] = messages[i]
    BY <1>9, <2>1, <2>2, <2>3, <2>4
  <2>6. From("user")' # {}
    <3>1. LastUser # n
      BY <2>1, <2>3, <2>4
    <3>2. PICK u : u = LastUser
      OBVIOUS
    <3>3. u \in From("user")'
      BY <2>3, <2>5, <3>1, <3>2 DEF From
    <3>4. QED BY <3>3
  <2>7. \A i \in DOMAIN messages' :
          /\ messages'[i].of <= made
          /\ \A call \in messages'[i].calls : call.id \in 1..made
    <3>1. 0 <= made
      BY <1>2 DEF Types
    <3>2. \A i \in 1..n : i # n =>
             messages[i].of <= made /\ \A call \in messages[i].calls : call.id \in 1..made
      BY <1>2, <2>4 DEF Types
    <3>3. QED BY <1>9, <2>5, <3>1, <3>2
  <2>8. Types'
    BY <1>1, <1>2, <2>1, <2>5, <2>6, <2>7 DEF Types
  <2>9. Final' = Refusal /\ steps' = asked'
    BY <1>1, <1>6, <1>8, <2>1, <2>5 DEF Final, Counted
  <2>10. HonestEnd'
    BY <1>9, <1>10, <2>1, <2>9 DEF HonestEnd
  <2>11. QED BY <1>3, <1>4, <1>5, <2>8, <2>10 DEF LoopInv
<1>13. QED BY <1>11, <1>12

LEMMA AgentToolsKeeps ==
    ASSUME LoopInv, NEW results \in Lists(Texts), NEW ends \in BOOLEAN, AgentTools(results, ends)
    PROVE  LoopInv'
<1>1. PICK calls : calls = Final.calls
  OBVIOUS
<1>2. PICK order \in Orders(calls) :
        /\ DOMAIN results = DOMAIN order
        /\ messages' = messages \o [i \in DOMAIN order |-> ToolResult(results[i], order[i])]
  BY <1>1 DEF AgentTools
<1>3. /\ at = "tools" /\ conf.framework = "haystack" /\ ran' = ran \union calls
      /\ IF ends /\ calls # {} THEN at' = "after_run" /\ exit' = "tool"
         ELSE at' = "loop" /\ UNCHANGED exit
      /\ UNCHANGED <<conf, turns, asked, made, crewVars, steps, failed>>
  BY <1>1 DEF AgentTools, Loop
<1>4. /\ Configured /\ Types /\ LastMessage /\ Count /\ Halted /\ Settling /\ turns > 0
      /\ Distinct /\ Fresh(Len(messages)) /\ \A i \in ThisTurn \ {Len(messages)} : SettledAt(i)
      /\ From("user") # {}
  BY <1>3 DEF LoopInv, Types, Settling
<1>5. PICK n : n = Len(messages)
  OBVIOUS
<1>6. /\ n \in Nat /\ messages \in Seq(MessageType) /\ DOMAIN messages = 1..n
      /\ LastUser \in 1..n /\ ThisTurn = LastUser + 1 .. n /\ n \in 1..n
      /\ Final = messages[n] /\ calls = messages[n].calls
  BY <1>1, <1>4, <1>5, LastUserIs DEF Types, ThisTurn, Final
<1>7. /\ calls \in SUBSET CallType /\ IsFiniteSet(calls)
      /\ \A call \in calls : call.id \in 1..made
  BY <1>4, <1>6, SaidIs
<1>8. /\ Len(order) \in Nat /\ DOMAIN order = 1..Len(order)
      /\ order = <<>> <=> calls = {}
      /\ \A call \in calls : \E k \in 1..Len(order) : order[k] = call
      /\ \A k \in 1..Len(order) : order[k] \in calls
      /\ \A k, l \in 1..Len(order) : order[k].id = order[l].id => k = l
  BY <1>7, OrderIs
<1>9. PICK more : more = [i \in DOMAIN order |-> ToolResult(results[i], order[i])]
  OBVIOUS
<1>10. PICK h : h = Len(order)
  OBVIOUS
<1>11. /\ h \in Nat /\ DOMAIN order = 1..h /\ DOMAIN more = 1..h
       /\ \A k \in 1..h : more[k] = ToolResult(results[k], order[k])
       /\ h = 0 <=> calls = {}
       /\ messages' = messages \o more
  <2>1. h = 0 <=> order = <<>>
    BY <1>7, <1>8, <1>10, OrderIs
  <2>2. QED BY <1>2, <1>8, <1>9, <1>10, <2>1
<1>12. ASSUME NEW k \in 1..h
       PROVE  /\ more[k] \in MessageType /\ more[k].from = "tool" /\ more[k].of = order[k].id
              /\ more[k].calls = {} /\ order[k] \in calls
              /\ more[k].of <= made
  <2>1. order[k] \in calls /\ order[k] \in CallType
    BY <1>7, <1>8, <1>10
  <2>2. results[k] \in Texts \cup {"none", "refusal"}
    <3>1. DOMAIN results = 1..Len(results) /\ results \in Seq(Texts)
      BY ListIs
    <3>2. k \in DOMAIN results
      BY <1>2, <1>11
    <3>3. QED BY <3>1, <3>2
  <2>3. more[k] \in MessageType
    BY <1>11, <2>1, <2>2, MessageTypes
  <2>4. order[k].id <= made
    BY <1>4, <1>7, <2>1 DEF Types
  <2>5. QED BY <1>11, <2>1, <2>3, <2>4, MessageSays
<1>13. more \in Seq(MessageType) /\ Len(more) = h
  <2>1. \A k \in 1..h : more[k] \in MessageType
    BY <1>12
  <2>2. more = [k \in 1..h |-> more[k]]
    BY <1>9, <1>11
  <2>3. more \in [1..h -> MessageType] /\ h \in Nat
    BY <1>11, <2>1, <2>2
  <2>4. QED BY <2>3
<1>14. Goes(n, more)
  BY <1>5, <1>6, <1>11, <1>13, GoesOn
<1>15. /\ Types' /\ LastUser' = LastUser /\ messages'[LastUser] = messages[LastUser]
       /\ ThisTurn' = LastUser + 1 .. n + h
       /\ Len(messages') = n + h
       /\ \A i \in 1..n : messages'[i] = messages[i]
       /\ \A k \in 1..h : messages'[n + k] = more[k]
  <2>1. steps' \in Nat /\ asked' \in Nat /\ exit' \in Exits /\ turns' = turns
    BY <1>3, <1>4 DEF Types, Exits
  <2>2. ran' \subseteq CallType /\ failed' \subseteq Points
    BY <1>3, <1>4, <1>7 DEF Types, Points
  <2>3. \A k \in 1..Len(more) : /\ more[k].from # "user" /\ more[k].of <= made'
            /\ \A call \in more[k].calls : call.id \in 1..made'
    BY <1>3, <1>12, <1>13
  <2>4. LastUser <= n /\ n <= Len(messages) /\ made <= made' /\ made' \in Nat /\ made \in Nat
    BY <1>3, <1>4, <1>5, <1>6 DEF Types
  <2>5. /\ Types' /\ LastUser' = LastUser /\ messages'[LastUser] = messages[LastUser]
        /\ ThisTurn' = LastUser + 1 .. n + Len(more)
        /\ Len(messages') = n + Len(more)
        /\ \A i \in 1..n : messages'[i] = messages[i]
        /\ \A k \in 1..Len(more) : messages'[n + k] = more[k]
    BY <1>4, <1>6, <1>13, <1>14, <2>1, <2>2, <2>3, <2>4, Speaking
  <2>6. QED BY <1>13, <2>5
<1>16. at' \in {"loop", "after_run"} /\ Configured' /\ conf' = conf
  BY <1>3, <1>4 DEF Configured, HaystackPlaces
<1>17. LastMessage'
  <2>1. CASE h = 0
    <3>1. Final' = Final /\ Final.from = "tool"
      BY <1>1, <1>3, <1>4, <1>6, <1>11, <1>15, <2>1 DEF LastMessage, Final
    <3>2. QED BY <1>16, <3>1 DEF LastMessage, Heard
  <2>2. CASE h # 0
    <3>1. h \in 1..h
      BY <1>11, <2>2
    <3>2. Final' = more[h]
      BY <1>15, <3>1 DEF Final
    <3>3. Final'.from = "tool"
      BY <1>12, <3>1, <3>2
    <3>4. QED BY <1>16, <3>3 DEF LastMessage, Heard
  <2>3. QED BY <2>1, <2>2
<1>18. Count'
  BY <1>3, <1>4, <1>16 DEF Count, Counted
<1>19. HonestEnd'
  BY <1>16 DEF HonestEnd
<1>20. Halted'
  <2>1. \A says : MustHalt(says)' = MustHalt(says)
    BY <1>16 DEF MustHalt
  <2>2. "before_run" \notin failed => ~MustHalt(messages[LastUser].says)
    BY <1>3, <1>4 DEF Halted
  <2>3. ASSUME NEW call \in ran', "before_tool" \notin failed
        PROVE  /\ ~(conf.enforces /\ call.args = "bad")
               /\ ~(call.tool = "listed" /\ (conf.enforces \/ conf.framework # "langchain"))
    <3>1. CASE call \in ran
      BY <1>4, <2>3, <3>1 DEF Halted
    <3>2. CASE call \in calls
      <4>1. ~ToolVerdict(call)
        BY <1>1, <1>3, <1>4, <2>3, <3>2 DEF Halted
      <4>2. QED BY <4>1 DEF ToolVerdict, MustHalt
    <3>3. QED BY <1>3, <2>3, <3>1, <3>2
  <2>4. ~conf.patched /\ failed' = failed
    BY <1>3, <1>4 DEF Configured
  <2>5. QED BY <1>15, <1>16, <2>1, <2>2, <2>3, <2>4 DEF Halted
<1>21. Settling'
  <2>1. Distinct'
    <3>1. /\ \A k, l \in 1..Len(more) : \A call \in more[k].calls, other \in more[l].calls :
                call.id = other.id => k = l /\ call = other
          /\ \A k \in 1..Len(more), i \in ThisTurn : i <= n =>
                \A call \in more[k].calls, other \in messages[i].calls : call.id # other.id
          /\ \A k \in 1..Len(more) : more[k].from # "user"
      BY <1>12, <1>13
    <3>2. LastUser <= n /\ n <= Len(messages)
      BY <1>5, <1>6
    <3>3. QED BY <1>4, <1>6, <1>13, <1>14, <3>1, <3>2, DistinctStays
  <2>2. ASSUME NEW i \in ThisTurn, i # n PROVE SettledAt(i)'
    <3>1. i \in 1..n /\ n \in ThisTurn /\ SettledAt(i)
      BY <1>4, <1>5, <1>6, <2>2
    <3>2. \A j \in n + 1..Len(messages) : messages[j].from # "tool"
      BY <1>5, <1>6
    <3>3. ASSUME NEW call \in messages[i].calls, NEW k \in 1..Len(more)
          PROVE  more[k].of # call.id
      <4>1. order[k] \in messages[n].calls /\ more[k].of = order[k].id
        BY <1>6, <1>12, <1>13
      <4>2. order[k].id # call.id
        BY <1>4, <2>2, <3>1, <4>1 DEF Distinct
      <4>3. QED BY <4>1, <4>2
    <3>4. ran \subseteq ran' /\ n <= Len(messages)
      BY <1>3, <1>5, <1>6
    <3>5. QED BY <1>4, <1>6, <1>13, <1>14, <3>1, <3>2, <3>3, <3>4, SettledStays
  <2>3. ASSUME NEW call \in messages[n].calls PROVE Settled(n, call)'
    <3>1. Answers(call) = {} /\ call \in calls
      BY <1>4, <1>5, <1>6, <2>3 DEF Fresh
    <3>2. PICK k \in 1..h : order[k] = call
      BY <1>8, <1>10, <3>1
    <3>3. \A l \in 1..Len(more) : (more[l].from = "tool" /\ more[l].of = call.id) <=> l = k
      BY <1>8, <1>10, <1>12, <1>13, <3>2
    <3>4. n < n + k /\ n <= Len(messages) /\ k \in 1..Len(more) /\ call \in ran'
      BY <1>3, <1>5, <1>6, <1>13, <3>1
    <3>5. QED BY <1>4, <1>6, <1>13, <1>14, <3>1, <3>3, <3>4, GetsSettled
  <2>4. SettledAt(n)'
    BY <1>6, <1>15, <2>3 DEF SettledAt
  <2>5. ASSUME NEW i \in ThisTurn' PROVE SettledAt(i)'
    <3>1. i \in LastUser + 1 .. n + h
      BY <1>15
    <3>2. CASE i <= n
      <4>1. i \in ThisTurn
        BY <1>6, <1>11, <3>1, <3>2
      <4>2. QED BY <2>2, <2>4, <4>1
    <3>3. CASE i > n
      <4>1. i - n \in 1..h /\ n + (i - n) = i
        BY <1>6, <1>11, <3>1, <3>3
      <4>2. messages'[i].calls = {}
        BY <1>12, <1>15, <4>1
      <4>3. QED BY <4>2 DEF SettledAt
    <3>4. QED BY <1>6, <1>11, <3>1, <3>2, <3>3
  <2>6. QED BY <1>16, <2>1, <2>5 DEF Settling
<1>22. QED BY <1>15, <1>16, <1>17, <1>18, <1>19, <1>20, <1>21 DEF LoopInv
\* Where the middleware's tools stand: the calls that wait are of the last
\* message that asked for any, and nothing answers them.
LEMMA WaitingIs ==
    ASSUME Types, turns > 0, at = "wrap", NEW k \in ThisTurn,
           messages[k].from = "assistant", messages[k].calls # {},
           \A j \in ThisTurn : j > k => messages[j].from = "tool"
    PROVE  Waiting = {call \in messages[k].calls : Answers(call) = {}}
<1> DEFINE asking == {i \in From("assistant") : messages[i].calls # {}}
<1>1. /\ From("user") # {} /\ messages \in Seq(MessageType) /\ Len(messages) \in Nat
      /\ DOMAIN messages = 1..Len(messages)
  BY DEF Types
<1>2. LastUser \in 1..Len(messages) /\ ThisTurn = LastUser + 1 .. Len(messages)
  BY <1>1, LastUserIs DEF ThisTurn
<1>3. asking \subseteq 1..Len(messages) /\ k \in asking
  BY <1>1, <1>2 DEF From
<1>4. ASSUME NEW i \in asking PROVE i <= k
  <2>1. i \in 1..Len(messages) /\ messages[i].from = "assistant"
    BY <1>1 DEF From
  <2>2. i > k => i \in ThisTurn
    BY <1>2, <2>1
  <2>3. QED BY <1>2, <2>1, <2>2
<1>5. Max(asking) = k
  <2> HIDE DEF asking
  <2>1. Max(asking) \in asking /\ \A i \in asking : i <= Max(asking)
    BY <1>1, <1>3, MaxIn
  <2>2. PICK l : l = Max(asking)
    OBVIOUS
  <2>3. l <= k
    BY <1>4, <2>1, <2>2
  <2>4. k <= l /\ l \in 1..Len(messages) /\ k \in 1..Len(messages)
    BY <1>3, <2>1, <2>2
  <2>5. l = k
    BY <1>1, <2>3, <2>4
  <2>6. QED BY <2>2, <2>5
<1>6. ASSUME NEW call PROVE call.id \notin Answered <=> Answers(call) = {}
  BY DEF Answered, Answers, From
<1>7. Waiting = {call \in messages[k].calls : call.id \notin Answered}
  BY <1>5 DEF Waiting
<1>8. QED BY <1>6, <1>7

LEMMA WrapToolCallKeeps ==
    ASSUME LoopInv, NEW call \in Waiting, NEW result \in Texts, WrapToolCall(call, result)
    PROVE  LoopInv'
<1>1. /\ at = "wrap" /\ conf.framework = "langchain"
      /\ at' = IF Waiting = {call} THEN "before_model" ELSE "wrap"
      /\ UNCHANGED <<conf, steps, exit, turns, asked, made, failed, crewVars>>
  BY DEF WrapToolCall, Middleware
<1>2. /\ Configured /\ Types /\ Halted /\ Settling /\ turns > 0 /\ Distinct
      /\ From("user") # {} /\ messages \in Seq(MessageType)
  BY <1>1 DEF LoopInv, Types, Settling
<1>3. PICK k \in ThisTurn :
         /\ messages[k].from = "assistant" /\ messages[k].calls # {}
         /\ \A j \in ThisTurn : j > k => messages[j].from = "tool"
         /\ \A i \in ThisTurn \ {k} : SettledAt(i)
         /\ \A other \in messages[k].calls : Answers(other) = {} \/ Settled(k, other)
  BY <1>1, <1>2 DEF Settling
<1>4. Waiting = {other \in messages[k].calls : Answers(other) = {}}
  BY <1>1, <1>2, <1>3, WaitingIs
<1>5. call \in messages[k].calls /\ Answers(call) = {}
  BY <1>4
<1>6. PICK n : n = Len(messages)
  OBVIOUS
<1>7. /\ n \in Nat /\ DOMAIN messages = 1..n /\ LastUser \in 1..n
      /\ ThisTurn = LastUser + 1 .. n /\ k \in 1..n
  BY <1>2, <1>6, LastUserIs DEF ThisTurn
<1>8. call \in CallType /\ call.id \in 1..made /\ made \in Nat
  BY <1>2, <1>5, <1>7, SaidIs DEF Types
<1>9. PICK says \in {"refusal", "fine", "bad"} :
         /\ messages' = Append(messages, ToolResult(says, call))
         /\ \/ says = "refusal" /\ ran' = ran
            \/ /\ ~ScanToolCall(call) /\ ran' = ran \cup {call}
               /\ conf.patched => ~MustHalt(says)
  <2>1. CASE ScanToolCall(call)
    BY <2>1 DEF WrapToolCall
  <2>2. CASE ~ScanToolCall(call)
    <3>1. messages' = Append(messages, ToolResult(ResultScan(result), call)) /\ ran' = ran \cup {call}
      BY <2>2 DEF WrapToolCall
    <3>2. ResultScan(result) \in {"refusal", "fine", "bad"}
      BY DEF ResultScan, Texts
    <3>3. conf.patched => ~MustHalt(ResultScan(result))
      BY MustHaltOf DEF ResultScan
    <3>4. QED BY <2>2, <3>1, <3>2, <3>3
  <2>3. QED BY <2>1, <2>2
<1>10. PICK m : m = ToolResult(says, call)
  OBVIOUS
<1>11. /\ m \in MessageType /\ m.from = "tool" /\ m.of = call.id
       /\ m.says = says /\ m.calls = {} /\ m.of <= made
  <2>1. says \in Texts \cup {"none", "refusal"}
    BY DEF Texts
  <2>2. m \in MessageType
    BY <1>8, <1>10, <2>1, MessageTypes
  <2>3. QED BY <1>8, <1>10, <2>2, MessageSays
<1>12. /\ steps' \in Nat /\ asked' \in Nat /\ exit' \in Exits /\ failed' \subseteq Points
       /\ ran \subseteq ran' /\ ran' \subseteq CallType /\ UNCHANGED <<made, turns>>
       /\ messages' = Append(messages, m)
  BY <1>1, <1>2, <1>8, <1>9, <1>10 DEF Types, Exits, Points
<1>13. /\ Types' /\ Final' = m /\ LastUser' = LastUser
       /\ messages'[LastUser] = messages[LastUser]
       /\ Goes(Len(messages), <<m>>)
       /\ ThisTurn' = ThisTurn \cup {Len(messages) + 1} /\ Len(messages) + 1 \notin ThisTurn
       /\ \A i \in ThisTurn : i \in 1..Len(messages) /\ messages'[i] = messages[i]
       /\ messages'[Len(messages) + 1] = m
       /\ Distinct => Distinct'
       /\ \A i \in ThisTurn' \ ThisTurn : SettledAt(i)'
  <2>1. m.from # "user"
    BY <1>11
  <2>2. QED BY <1>2, <1>11, <1>12, <2>1, SaysOne
<1>14. PICK more : more = <<m>>
  OBVIOUS
<1>15. /\ more \in Seq(MessageType) /\ Len(more) = 1 /\ more[1] = m
       /\ \A l \in 1..Len(more) : l = 1 /\ more[l] = m
       /\ Goes(n, more) /\ n <= Len(messages)
  BY <1>6, <1>7, <1>11, <1>13, <1>14
<1>16. at' \in {"before_model", "wrap"} /\ Configured' /\ conf' = conf /\ conf'.framework # "haystack"
  BY <1>1, <1>2 DEF Configured, LangChainPlaces
<1>17. LastMessage' /\ Count' /\ HonestEnd'
  BY <1>11, <1>13, <1>16 DEF LastMessage, Count, HonestEnd, Heard
<1>18. Halted'
  <2>1. \A what : MustHalt(what)' = MustHalt(what)
    BY <1>16 DEF MustHalt
  <2>2. ASSUME NEW other \in ran', "before_tool" \notin failed
        PROVE  /\ ~(conf.enforces /\ other.args = "bad")
               /\ ~(other.tool = "listed" /\ (conf.enforces \/ conf.framework # "langchain"))
    <3>1. CASE other \in ran
      BY <1>2, <2>2, <3>1 DEF Halted
    <3>2. CASE other = call /\ ~ScanToolCall(call)
      BY <1>1, <3>2 DEF ScanToolCall
    <3>3. QED BY <1>9, <2>2, <3>1, <3>2
  <2>3. ASSUME conf.patched, NEW i \in ThisTurn', messages'[i].from = "tool"
        PROVE  ~MustHalt(messages'[i].says)
    <3>1. CASE i \in ThisTurn
      BY <1>1, <1>2, <1>13, <2>3, <3>1 DEF Halted
    <3>2. CASE i = n + 1
      BY <1>6, <1>9, <1>11, <1>13, <2>3, <3>2, MustHaltOf
    <3>3. QED BY <1>6, <1>13, <2>3, <3>1, <3>2
  <2>4. failed' = failed
    BY <1>1
  <2>5. QED BY <1>16, <2>1, <2>2, <2>3, <2>4 DEF Halted
<1>19. Settling'
  <2>1. ASSUME NEW i \in ThisTurn, NEW other \in messages[i].calls, other # call
        PROVE  /\ Answers(other)' = Answers(other)
               /\ Settled(i, other) => Settled(i, other)'
    <3>1. other.id # call.id
      BY <1>2, <1>3, <1>5, <2>1 DEF Distinct
    <3>2. \A l \in 1..Len(more) : more[l].from = "tool" => more[l].of # other.id
      BY <1>11, <1>15, <3>1
    <3>3. Answers(other) \subseteq 1..n /\ i \in Nat
      BY <1>7 DEF Answers
    <3>4. QED BY <1>2, <1>7, <1>12, <1>15, <3>2, <3>3, StaysSettled
  <2>2. Settled(k, call)'
    <3>1. \A l \in 1..Len(more) : (more[l].from = "tool" /\ more[l].of = call.id) <=> l = 1
      BY <1>11, <1>15
    <3>2. call \in ran' \/ more[1].says = "refusal"
      BY <1>9, <1>11, <1>15
    <3>3. k < n + 1 /\ k \in Nat /\ 1 \in 1..Len(more)
      BY <1>7, <1>15
    <3>4. QED BY <1>2, <1>5, <1>7, <1>15, <3>1, <3>2, <3>3, GetsSettled
  <2>3. ASSUME NEW i \in ThisTurn \ {k} PROVE SettledAt(i)'
    <3>1. \A other \in messages[i].calls : other # call
      BY <1>2, <1>3, <1>5, <2>3 DEF Distinct
    <3>2. \A other \in messages[i].calls : Settled(i, other)
      BY <1>3, <2>3 DEF SettledAt
    <3>3. QED BY <1>13, <2>1, <3>1, <3>2 DEF SettledAt
  <2>4. \A i \in ThisTurn' \ {k} : SettledAt(i)'
    BY <1>13, <2>3
  <2>5. ASSUME NEW other \in messages[k].calls PROVE Answers(other)' = {} \/ Settled(k, other)'
    BY <1>3, <2>1, <2>2, <2>5
  <2>6. Distinct' /\ messages'[k] = messages[k] /\ k \in ThisTurn'
    BY <1>2, <1>3, <1>13
  <2>7. CASE Waiting = {call}
    <3>1. ASSUME NEW other \in messages[k].calls PROVE Settled(k, other)'
      <4>1. CASE other = call
        BY <2>2, <4>1
      <4>2. CASE other # call
        <5>1. other \notin Waiting
          BY <2>7, <4>2
        <5>2. Settled(k, other)
          BY <1>3, <1>4, <3>1, <5>1
        <5>3. QED BY <1>3, <2>1, <3>1, <4>2, <5>2
      <4>3. QED BY <4>1, <4>2
    <3>2. SettledAt(k)'
      BY <2>6, <3>1 DEF SettledAt
    <3>3. \A i \in ThisTurn' : SettledAt(i)'
      BY <2>4, <3>2
    <3>4. at' = "before_model"
      BY <1>1, <2>7
    <3>5. QED BY <2>6, <3>3, <3>4 DEF Settling
  <2>8. CASE Waiting # {call}
    <3>1. at' = "wrap"
      BY <1>1, <2>8
    <3>2. \A j \in ThisTurn' : j > k => messages'[j].from = "tool"
      BY <1>3, <1>11, <1>13
    <3>3. /\ messages'[k].from = "assistant" /\ messages'[k].calls # {}
          /\ \A other \in messages'[k].calls : Answers(other)' = {} \/ Settled(k, other)'
      BY <1>3, <2>5, <2>6
    <3>4. \E l \in ThisTurn' :
             /\ messages'[l].from = "assistant" /\ messages'[l].calls # {}
             /\ \A j \in ThisTurn' : j > l => messages'[j].from = "tool"
             /\ \A i \in ThisTurn' \ {l} : SettledAt(i)'
             /\ \A other \in messages'[l].calls : Answers(other)' = {} \/ Settled(l, other)'
      BY <2>4, <2>6, <3>2, <3>3
    <3>5. QED BY <2>6, <3>1, <3>4 DEF Settling
  <2>9. QED BY <2>7, <2>8
<1>20. QED BY <1>13, <1>16, <1>17, <1>18, <1>19 DEF LoopInv
\* Of the places of pairs.
LEMMA OddEven ==
    ASSUME NEW q \in Nat
    PROVE  /\ (2 * q - 1) % 2 = 1 /\ (2 * q - 1 + 1) \div 2 = q
           /\ (2 * q) % 2 = 0 /\ (2 * q + 1) \div 2 = q
OBVIOUS

LEMMA Halves ==
    ASSUME NEW r \in Nat, NEW k \in 1..2 * r
    PROVE  \E q \in 1..r : k = 2 * q - 1 \/ k = 2 * q
<1>1. k = 2 * (k \div 2) + (k % 2) /\ k % 2 \in 0..1 /\ k \div 2 \in Int
  OBVIOUS
<1>2. PICK d \in Int : d = k \div 2
  BY <1>1
<1>3. CASE k = 2 * d
  BY <1>2, <1>3
<1>4. CASE k = 2 * d + 1
  <2>1. d + 1 \in 1..r /\ k = 2 * (d + 1) - 1
    BY <1>4
  <2>2. QED BY <2>1
<1>5. QED BY <1>1, <1>2, <1>3, <1>4

LEMMA ListOf ==
    ASSUME NEW S, NEW d \in Nat, NEW f \in [1..d -> S]
    PROVE  f \in Seq(S) /\ Len(f) = d /\ DOMAIN f = 1..d
OBVIOUS

LEMMA ListThen ==
    ASSUME NEW S, NEW s \in Seq(S), NEW t \in Seq(S)
    PROVE  /\ s \o t \in Seq(S) /\ Len(s \o t) = Len(s) + Len(t)
           /\ \A i \in 1..Len(s) : (s \o t)[i] = s[i]
           /\ \A i \in 1..Len(t) : (s \o t)[Len(s) + i] = t[i]
OBVIOUS

LEMMA Regrouped ==
    ASSUME NEW s \in Seq(MessageType), NEW t \in Seq(MessageType), NEW u \in Seq(MessageType)
    PROVE  (s \o t) \o u = s \o (t \o u)
BY ConcatAssociative

\* What stands after the cut: an answered message for each refused call, and
\* one for the calls that are kept.
PairsOf(says, refused) ==
    [i \in 1..2 * Len(refused) |-> IF i % 2 = 1 THEN Assistant(says, {refused[(i + 1) \div 2]})
                                   ELSE ToolResult("refusal", refused[(i + 1) \div 2])]
KeptOf(says, kept) == IF kept = {} THEN <<>> ELSE <<Assistant(says, kept)>>

Paired(more, r, says, refused, kept) ==
    /\ r \in Nat /\ more \in Seq(MessageType)
    /\ Len(more) = IF kept = {} THEN 2 * r ELSE 2 * r + 1
    /\ \A k \in 1..Len(more) :
          \/ \E q \in 1..r : k = 2 * q - 1 /\ more[k] = Assistant(says, {refused[q]})
          \/ \E q \in 1..r : k = 2 * q /\ more[k] = ToolResult("refusal", refused[q])
          \/ k = 2 * r + 1 /\ kept # {} /\ more[k] = Assistant(says, kept)
    /\ \A q \in 1..r, k \in 1..Len(more) :
          k = 2 * q => more[k] = ToolResult("refusal", refused[q])

LEMMA PairsAre ==
    ASSUME NEW says \in Texts \cup {"none", "refusal"}, NEW calls \in SUBSET CallType,
           NEW kept \in SUBSET CallType, IsFiniteSet(kept),
           NEW refused \in Seq(calls), NEW r, r = Len(refused),
           NEW more, more = PairsOf(says, refused) \o KeptOf(says, kept)
    PROVE  /\ Paired(more, r, says, refused, kept)
           /\ PairsOf(says, refused) \in Seq(MessageType) /\ KeptOf(says, kept) \in Seq(MessageType)
<1>0. PICK pairs, rest : pairs = PairsOf(says, refused) /\ rest = KeptOf(says, kept)
  OBVIOUS
<1>1. r \in Nat /\ \A q \in 1..r : refused[q] \in calls
  OBVIOUS
<1>2. ASSUME NEW q \in 1..r
      PROVE  /\ pairs[2 * q - 1] = Assistant(says, {refused[q]})
             /\ pairs[2 * q] = ToolResult("refusal", refused[q])
  <2>1. PICK a : a = 2 * q - 1
    OBVIOUS
  <2>2. PICK b : b = 2 * q
    OBVIOUS
  <2>3. q \in Nat /\ q >= 1 /\ q <= r
    BY <1>1
  <2>4. /\ a \in 1..2 * r /\ b \in 1..2 * r /\ a + 1 = 2 * q
    BY <1>1, <2>1, <2>2, <2>3
  <2>5. a % 2 = 1 /\ (a + 1) \div 2 = q /\ b % 2 = 0 /\ (b + 1) \div 2 = q
    <3>1. /\ (2 * q - 1) % 2 = 1 /\ (2 * q - 1 + 1) \div 2 = q
          /\ (2 * q) % 2 = 0 /\ (2 * q + 1) \div 2 = q
      BY <2>3, OddEven
    <3>2. QED BY <2>1, <2>2, <3>1
  <2>6. pairs[a] = Assistant(says, {refused[q]})
    <3>1. pairs[a] = IF a % 2 = 1 THEN Assistant(says, {refused[(a + 1) \div 2]})
                     ELSE ToolResult("refusal", refused[(a + 1) \div 2])
      BY <1>0, <2>4 DEF PairsOf
    <3>2. QED BY <2>5, <3>1
  <2>7. pairs[b] = ToolResult("refusal", refused[q])
    <3>1. pairs[b] = IF b % 2 = 1 THEN Assistant(says, {refused[(b + 1) \div 2]})
                     ELSE ToolResult("refusal", refused[(b + 1) \div 2])
      BY <1>0, <2>4 DEF PairsOf
    <3>2. QED BY <2>5, <3>1
  <2>8. QED BY <2>1, <2>2, <2>6, <2>7
<1>3. ASSUME NEW call \in CallType
      PROVE  Assistant(says, {call}) \in MessageType /\ ToolResult("refusal", call) \in MessageType
  <2>1. IsFiniteSet({call}) /\ {call} \in SUBSET CallType
    BY FS_Singleton
  <2>2. "refusal" \in Texts \cup {"none", "refusal"}
    OBVIOUS
  <2>3. Assistant(says, {call}) \in MessageType
    BY <2>1, MessageTypes
  <2>4. QED BY <2>2, <2>3, MessageTypes
<1>4. ASSUME NEW i \in 1..2 * r
      PROVE  /\ \/ \E q \in 1..r : i = 2 * q - 1 /\ pairs[i] = Assistant(says, {refused[q]})
                \/ \E q \in 1..r : i = 2 * q /\ pairs[i] = ToolResult("refusal", refused[q])
             /\ pairs[i] \in MessageType
  <2>1. PICK q \in 1..r : i = 2 * q - 1 \/ i = 2 * q
    BY <1>1, Halves
  <2>2. refused[q] \in CallType
    BY <1>1
  <2>3. /\ pairs[2 * q - 1] = Assistant(says, {refused[q]})
        /\ pairs[2 * q] = ToolResult("refusal", refused[q])
    BY <1>2
  <2>4. CASE i = 2 * q - 1
    <3>1. pairs[i] = Assistant(says, {refused[q]})
      BY <2>3, <2>4
    <3>2. QED BY <1>3, <2>2, <2>4, <3>1
  <2>5. CASE i = 2 * q
    <3>1. pairs[i] = ToolResult("refusal", refused[q])
      BY <2>3, <2>5
    <3>2. QED BY <1>3, <2>2, <2>5, <3>1
  <2>6. QED BY <2>1, <2>4, <2>5
<1>5. PICK d \in Nat : d = 2 * r
  BY <1>1
<1>6. /\ DOMAIN pairs = 1..d /\ pairs \in Seq(MessageType) /\ Len(pairs) = d
  <2>1. pairs = [i \in 1..d |-> pairs[i]]
    BY <1>0, <1>5 DEF PairsOf
  <2>2. \A i \in 1..d : pairs[i] \in MessageType
    BY <1>4, <1>5
  <2>3. pairs \in [1..d -> MessageType]
    BY <2>1, <2>2
  <2>4. QED BY <2>3, ListOf
<1>7. /\ rest \in Seq(MessageType) /\ Len(rest) = IF kept = {} THEN 0 ELSE 1
      /\ kept # {} => rest[1] = Assistant(says, kept)
  <2>1. Assistant(says, kept) \in MessageType
    BY MessageTypes
  <2>2. QED BY <1>0, <2>1 DEF KeptOf
<1>8. /\ more \in Seq(MessageType) /\ Len(more) = IF kept = {} THEN d ELSE d + 1
      /\ \A i \in 1..d : more[i] = pairs[i]
      /\ kept # {} => more[d + 1] = rest[1]
  <2>1. PICK c : c = pairs \o rest
    OBVIOUS
  <2>2. /\ c \in Seq(MessageType) /\ Len(c) = d + Len(rest)
        /\ \A i \in 1..d : c[i] = pairs[i]
        /\ \A i \in 1..Len(rest) : c[d + i] = rest[i]
    <3>1. /\ pairs \o rest \in Seq(MessageType) /\ Len(pairs \o rest) = Len(pairs) + Len(rest)
          /\ \A i \in 1..Len(pairs) : (pairs \o rest)[i] = pairs[i]
          /\ \A i \in 1..Len(rest) : (pairs \o rest)[Len(pairs) + i] = rest[i]
      <4>1. pairs \in Seq(MessageType) /\ rest \in Seq(MessageType)
        BY <1>6, <1>7
      <4>2. QED BY <4>1, ListThen
    <3>2. Len(pairs) = d
      BY <1>6
    <3>3. QED BY <2>1, <3>1, <3>2
  <2>3. more = c
    BY <1>0, <2>1
  <2>4. kept # {} => c[d + 1] = rest[1]
    BY <1>7, <2>2
  <2>5. Len(c) = IF kept = {} THEN d ELSE d + 1
    BY <1>7, <2>2
  <2>6. QED BY <2>2, <2>3, <2>4, <2>5
<1>9. ASSUME NEW k \in 1..Len(more)
      PROVE  \/ \E q \in 1..r : k = 2 * q - 1 /\ more[k] = Assistant(says, {refused[q]})
             \/ \E q \in 1..r : k = 2 * q /\ more[k] = ToolResult("refusal", refused[q])
             \/ k = 2 * r + 1 /\ kept # {} /\ more[k] = Assistant(says, kept)
  <2>1. k \in 1..d \/ (k = d + 1 /\ kept # {})
    BY <1>8
  <2>2. CASE k \in 1..d
    <3>1. k \in 1..2 * r /\ more[k] = pairs[k]
      BY <1>5, <1>8, <2>2
    <3>2. \/ \E q \in 1..r : k = 2 * q - 1 /\ pairs[k] = Assistant(says, {refused[q]})
          \/ \E q \in 1..r : k = 2 * q /\ pairs[k] = ToolResult("refusal", refused[q])
      BY <1>4, <3>1
    <3>3. QED BY <3>1, <3>2
  <2>3. CASE k = d + 1 /\ kept # {}
    BY <1>5, <1>7, <1>8, <2>3
  <2>4. QED BY <2>1, <2>2, <2>3
<1>10. ASSUME NEW q \in 1..r, NEW k \in 1..Len(more), k = 2 * q
       PROVE  more[k] = ToolResult("refusal", refused[q])
  <2>1. k \in 1..d
    BY <1>1, <1>5, <1>10
  <2>2. pairs[2 * q] = ToolResult("refusal", refused[q])
    BY <1>2
  <2>3. QED BY <1>8, <1>10, <2>1, <2>2
<1>11. Paired(more, r, says, refused, kept)
  BY <1>1, <1>5, <1>8, <1>9, <1>10 DEF Paired
<1>12. QED BY <1>0, <1>6, <1>7, <1>11

LEMMA BeforeToolKeeps ==
    ASSUME LoopInv, BeforeTool
    PROVE  LoopInv'
<1>1. /\ at = "before_tool" /\ conf.framework = "haystack" /\ at' = "tools"
      /\ UNCHANGED <<conf, turns, asked, made, crewVars, steps, exit, ran, failed>>
  BY DEF BeforeTool, Loop
<1>2. /\ Configured /\ Types /\ LastMessage /\ Count /\ Halted /\ Settling /\ turns > 0
      /\ Distinct /\ Fresh(Len(messages)) /\ \A i \in ThisTurn \ {Len(messages)} : SettledAt(i)
      /\ From("user") # {} /\ messages \in Seq(MessageType)
  BY <1>1 DEF LoopInv, Types, Settling
<1>3. PICK last : last = Final
  OBVIOUS
<1>4. PICK kept : kept = {call \in last.calls : ~ToolVerdict(call)}
  OBVIOUS
<1>5. PICK refused \in Orders({call \in last.calls : ToolVerdict(call)}) :
         messages' = IF refused = <<>> THEN messages ELSE Rebuilt(last, refused, kept)
  BY <1>3, <1>4 DEF BeforeTool
<1>6. PICK n : n = Len(messages) - 1
  OBVIOUS
<1>7. /\ n \in Nat /\ n >= 1 /\ Len(messages) = n + 1 /\ DOMAIN messages = 1..(n + 1)
      /\ last = messages[n + 1] /\ last.from = "assistant" /\ last.calls # {}
      /\ messages[n].from \in Heard
  BY <1>1, <1>2, <1>3, <1>6 DEF LastMessage, Final
<1>8. /\ LastUser \in 1..n /\ ThisTurn = LastUser + 1 .. n + 1 /\ n + 1 \in ThisTurn
      /\ \A i \in ThisTurn : i # n + 1 => i \in 1..n
  <2>1. LastUser \in 1..(n + 1) /\ messages[LastUser].from = "user"
    BY <1>2, <1>7, LastUserIs
  <2>2. LastUser # n + 1
    BY <1>7, <2>1
  <2>3. QED BY <1>7, <2>1, <2>2 DEF ThisTurn
<1>9. /\ last \in MessageType /\ last.says \in Texts \cup {"none", "refusal"}
      /\ last.calls \in SUBSET CallType /\ IsFiniteSet(last.calls)
      /\ \A call \in last.calls : call.id \in 1..made
  <2>1. n + 1 \in DOMAIN messages
    BY <1>7
  <2>2. QED BY <1>2, <1>7, <2>1, SaidIs
<1>10. PICK calls : calls = {call \in last.calls : ToolVerdict(call)}
  OBVIOUS
<1>11. /\ calls \in SUBSET CallType /\ IsFiniteSet(calls)
       /\ kept \in SUBSET CallType /\ IsFiniteSet(kept)
       /\ calls \subseteq last.calls /\ kept \subseteq last.calls
       /\ \A call \in last.calls : call \in calls <=> call \notin kept
  BY <1>4, <1>9, <1>10, FS_Subset
<1>12. /\ refused \in Seq(calls) /\ Len(refused) \in Nat
       /\ refused = <<>> <=> calls = {}
       /\ \A call \in calls : \E k \in 1..Len(refused) : refused[k] = call
       /\ \A k \in 1..Len(refused) : refused[k] \in calls
       /\ \A k, l \in 1..Len(refused) : refused[k].id = refused[l].id => k = l
  <2>1. refused \in Orders(calls)
    BY <1>5, <1>10
  <2>2. QED BY <1>11, <2>1, OrderIs
<1>13. \A call, other \in last.calls : call.id = other.id => call = other
  BY <1>2, <1>7, <1>8 DEF Distinct
<1>14. \A i \in ThisTurn : i # n + 1 =>
          \A call \in messages[i].calls, other \in last.calls : call.id # other.id
  BY <1>2, <1>7, <1>8 DEF Distinct
<1>15. Configured' /\ ~conf'.patched /\ conf' = conf
  BY <1>1, <1>2 DEF Configured, HaystackPlaces
<1>16. Count' /\ HonestEnd'
  BY <1>1, <1>2 DEF Count, Counted, HonestEnd
<1>17. \A says : MustHalt(says)' = MustHalt(says)
  BY <1>1 DEF MustHalt
<1>18. \A call : ToolVerdict(call)' = ToolVerdict(call)
  BY <1>1 DEF ToolVerdict, MustHalt
<1>19. "before_run" \notin failed => ~MustHalt(messages[LastUser].says)
  BY <1>1, <1>2 DEF Halted
<1>20. CASE refused = <<>>
  <2>1. messages' = messages /\ \A call \in last.calls : ~ToolVerdict(call)
    BY <1>5, <1>10, <1>12, <1>20
  <2>2. Types'
    BY <1>1, <1>2, <2>1 DEF Types, From
  <2>3. /\ Final' = Final /\ LastUser' = LastUser /\ ThisTurn' = ThisTurn
        /\ Distinct => Distinct'
        /\ \A i : SettledAt(i) => SettledAt(i)'
        /\ \A i : Fresh(i) => Fresh(i)'
    BY <1>1, <2>1, Quiet
  <2>4. LastMessage'
    BY <1>1, <1>3, <1>7, <2>3 DEF LastMessage
  <2>5. Halted'
    BY <1>1, <1>2, <1>3, <1>15, <1>17, <1>18, <1>19, <2>1, <2>3 DEF Halted
  <2>6. Settling'
    <3>1. PICK l : l = Len(messages)
      OBVIOUS
    <3>2. Len(messages') = l /\ Fresh(l)' /\ \A i \in ThisTurn' \ {l} : SettledAt(i)'
      BY <1>2, <2>1, <2>3, <3>1
    <3>3. Fresh(Len(messages))' /\ (\A i \in ThisTurn \ {Len(messages)} : SettledAt(i))'
      BY <3>2
    <3>4. QED BY <1>1, <1>2, <2>3, <3>3 DEF Settling
  <2>7. QED BY <1>15, <1>16, <2>2, <2>4, <2>5, <2>6 DEF LoopInv
<1>21. CASE refused # <<>>
  <2>1. PICK r : r = Len(refused)
    OBVIOUS
  <2>2. PICK pairs : pairs = PairsOf(last.says, refused)
    OBVIOUS
  <2>3. PICK rest : rest = KeptOf(last.says, kept)
    OBVIOUS
  <2>4. PICK more : more = pairs \o rest
    OBVIOUS
  <2>5. /\ r \in Nat /\ more \in Seq(MessageType)
        /\ Len(more) = IF kept = {} THEN 2 * r ELSE 2 * r + 1
        /\ \A k \in 1..Len(more) :
              \/ \E q \in 1..r : k = 2 * q - 1 /\ more[k] = Assistant(last.says, {refused[q]})
              \/ \E q \in 1..r : k = 2 * q /\ more[k] = ToolResult("refusal", refused[q])
              \/ k = 2 * r + 1 /\ kept # {} /\ more[k] = Assistant(last.says, kept)
        /\ \A q \in 1..r, k \in 1..Len(more) :
              k = 2 * q => more[k] = ToolResult("refusal", refused[q])
        /\ pairs \in Seq(MessageType) /\ rest \in Seq(MessageType)
    <3>1. PICK says : says = last.says
      OBVIOUS
    <3>2. /\ says \in Texts \cup {"none", "refusal"} /\ refused \in Seq(calls)
          /\ calls \in SUBSET CallType /\ kept \in SUBSET CallType /\ IsFiniteSet(kept)
      BY <1>9, <1>11, <1>12, <3>1
    <3>3. more = PairsOf(says, refused) \o KeptOf(says, kept)
      BY <2>2, <2>3, <2>4, <3>1
    <3>4. /\ Paired(more, r, says, refused, kept)
          /\ PairsOf(says, refused) \in Seq(MessageType) /\ KeptOf(says, kept) \in Seq(MessageType)
      BY <2>1, <3>2, <3>3, PairsAre
    <3>5. QED BY <2>2, <2>3, <3>1, <3>4 DEF Paired
  <2>6. r # 0 /\ \A q \in 1..r : refused[q] \in calls /\ refused[q] \in last.calls
    BY <1>11, <1>12, <1>21, <2>1
  <2>7. ASSUME NEW k \in 1..Len(more)
        PROVE  \/ \E q \in 1..r : /\ k = 2 * q - 1 /\ more[k].from = "assistant"
                                   /\ more[k].of = 0 /\ more[k].calls = {refused[q]}
               \/ \E q \in 1..r : /\ k = 2 * q /\ more[k].from = "tool" /\ more[k].says = "refusal"
                                   /\ more[k].of = refused[q].id /\ more[k].calls = {}
               \/ /\ k = 2 * r + 1 /\ kept # {} /\ more[k].from = "assistant"
                  /\ more[k].of = 0 /\ more[k].calls = kept
    <3>1. CASE \E q \in 1..r : k = 2 * q - 1 /\ more[k] = Assistant(last.says, {refused[q]})
      BY <3>1, MessageSays
    <3>2. CASE \E q \in 1..r : k = 2 * q /\ more[k] = ToolResult("refusal", refused[q])
      BY <3>2, MessageSays
    <3>3. CASE k = 2 * r + 1 /\ kept # {} /\ more[k] = Assistant(last.says, kept)
      BY <3>3, MessageSays
    <3>4. QED BY <2>5, <3>1, <3>2, <3>3
  <2>8. ASSUME NEW k \in 1..Len(more)
        PROVE  /\ more[k].from # "user" /\ more[k].of <= made /\ more[k].calls \subseteq last.calls
               /\ more[k].from = "tool" => more[k].calls = {} /\
                     \E q \in 1..r : k = 2 * q /\ more[k].of = refused[q].id
    <3>1. made \in Nat
      BY <1>2 DEF Types
    <3>2. CASE \E q \in 1..r : /\ k = 2 * q - 1 /\ more[k].from = "assistant"
                               /\ more[k].of = 0 /\ more[k].calls = {refused[q]}
      BY <2>6, <3>1, <3>2
    <3>3. CASE \E q \in 1..r : /\ k = 2 * q /\ more[k].from = "tool" /\ more[k].says = "refusal"
                               /\ more[k].of = refused[q].id /\ more[k].calls = {}
      <4>1. PICK q \in 1..r : /\ k = 2 * q /\ more[k].from = "tool"
                              /\ more[k].of = refused[q].id /\ more[k].calls = {}
        BY <3>3
      <4>2. refused[q].id \in 1..made
        BY <1>9, <2>6
      <4>3. refused[q].id <= made
        BY <3>1, <4>2
      <4>4. QED BY <4>1, <4>3
    <3>4. CASE /\ k = 2 * r + 1 /\ kept # {} /\ more[k].from = "assistant"
               /\ more[k].of = 0 /\ more[k].calls = kept
      BY <1>11, <3>1, <3>4
    <3>5. QED BY <2>7, <3>2, <3>3, <3>4
  <2>8a. ASSUME NEW k \in 1..Len(more), NEW call \in more[k].calls
         PROVE  \/ \E q \in 1..r : k = 2 * q - 1 /\ call = refused[q] /\ call \in calls
                \/ k = 2 * r + 1 /\ call \in kept
    <3>1. CASE \E q \in 1..r : k = 2 * q - 1 /\ more[k].calls = {refused[q]}
      BY <2>6, <2>8a, <3>1
    <3>2. CASE k = 2 * r + 1 /\ more[k].calls = kept
      BY <2>8a, <3>2
    <3>3. more[k].calls # {}
      BY <2>8a
    <3>4. QED BY <2>7, <3>1, <3>2, <3>3
  <2>9. Goes(n, more)
    <3>1. Max(From("user") \union From("tool")) = n
      <4>1. PICK S : S = From("user") \union From("tool")
        OBVIOUS
      <4>2. n \in S /\ S \subseteq 1..n
        BY <1>7, <4>1 DEF From, Heard
      <4>3. Max(S) = n
        BY <1>7, <4>2, MaxIs
      <4>4. QED BY <4>1, <4>3
    <3>2. messages' = SubSeq(messages, 1, n) \o pairs \o rest
      <4>1. messages' = Rebuilt(last, refused, kept)
        BY <1>5, <1>21
      <4>2. QED BY <2>2, <2>3, <3>1, <4>1 DEF Rebuilt, PairsOf, KeptOf
    <3>3. PICK front : front = SubSeq(messages, 1, n)
      OBVIOUS
    <3>4. front \in Seq(MessageType) /\ Len(front) = n
      BY <1>2, <1>7, <3>3
    <3>5. (front \o pairs) \o rest = front \o (pairs \o rest)
      <4>1. pairs \in Seq(MessageType) /\ rest \in Seq(MessageType)
        BY <2>5
      <4>2. QED BY <3>4, <4>1, Regrouped
    <3>6. messages' = SubSeq(messages, 1, n) \o more
      BY <2>4, <3>2, <3>3, <3>5
    <3>7. n \in 0..Len(messages)
      BY <1>7
    <3>8. QED BY <1>2, <2>5, <3>6, <3>7, GoesPrefix
  <2>10. /\ Types' /\ LastUser' = LastUser /\ messages'[LastUser] = messages[LastUser]
         /\ ThisTurn' = LastUser + 1 .. n + Len(more)
         /\ Len(messages') = n + Len(more) /\ Len(more) \in Nat
         /\ \A i \in 1..n : messages'[i] = messages[i]
         /\ \A k \in 1..Len(more) : messages'[n + k] = more[k]
    <3>1. steps' \in Nat /\ asked' \in Nat /\ exit' \in Exits /\ turns' = turns
      BY <1>1, <1>2 DEF Types, Exits
    <3>2. ran' \subseteq CallType /\ failed' \subseteq Points
      BY <1>1, <1>2 DEF Types, Points
    <3>3. \A k \in 1..Len(more) : /\ more[k].from # "user" /\ more[k].of <= made'
              /\ \A call \in more[k].calls : call.id \in 1..made'
      BY <1>1, <1>9, <2>8
    <3>4. LastUser <= n /\ n <= Len(messages) /\ made <= made' /\ made' \in Nat /\ made \in Nat
      BY <1>1, <1>2, <1>7, <1>8 DEF Types
    <3>5. QED BY <1>2, <1>7, <2>5, <2>9, <3>1, <3>2, <3>3, <3>4, Speaking
  <2>11. PICK h : h = Len(more)
    OBVIOUS
  <2>12. h \in Nat /\ h \in 1..h /\ h = (IF kept = {} THEN 2 * r ELSE 2 * r + 1)
    BY <2>5, <2>6, <2>11
  <2>13. Final' = more[h] /\ Len(messages') = n + h
    BY <2>10, <2>11, <2>12 DEF Final
  <2>14. kept = {} => more[h].from = "tool" /\ more[h].calls = {}
    <3>1. SUFFICES ASSUME kept = {} PROVE more[h].from = "tool" /\ more[h].calls = {}
      OBVIOUS
    <3>2. h = 2 * r
      BY <2>12, <3>1
    <3>3. \A q \in 1..r : h # 2 * q - 1
      BY <2>5, <3>2
    <3>4. h \in 1..Len(more)
      BY <2>11, <2>12
    <3>5. QED BY <2>7, <3>1, <3>3, <3>4
  <2>15. kept # {} => more[h].from = "assistant" /\ more[h].calls = kept
    <3>1. SUFFICES ASSUME kept # {} PROVE more[h].from = "assistant" /\ more[h].calls = kept
      OBVIOUS
    <3>2. h = 2 * r + 1
      BY <2>12, <3>1
    <3>3. \A q \in 1..r : h # 2 * q - 1 /\ h # 2 * q
      BY <2>5, <3>2
    <3>4. h \in 1..Len(more)
      BY <2>11, <2>12
    <3>5. QED BY <2>7, <3>3, <3>4
  <2>16. LastMessage'
    BY <1>1, <2>13, <2>14, <2>15 DEF LastMessage
  <2>17. Halted'
    <3>1. \A call \in more[h].calls : ~ToolVerdict(call)
      BY <1>4, <2>14, <2>15
    <3>2. \A call \in ran : "before_tool" \notin failed =>
             /\ ~(conf.enforces /\ call.args = "bad")
             /\ ~(call.tool = "listed" /\ (conf.enforces \/ conf.framework # "langchain"))
      BY <1>2 DEF Halted
    <3>3. QED BY <1>1, <1>15, <1>17, <1>18, <1>19, <2>10, <2>13, <3>1, <3>2 DEF Halted
  <2>18. Distinct'
    <3>1. ASSUME NEW k \in 1..Len(more), NEW l \in 1..Len(more),
                 NEW call \in more[k].calls, NEW other \in more[l].calls, call.id = other.id
          PROVE  k = l /\ call = other
      <4>1. call = other
        BY <1>13, <2>8, <3>1
      <4>2. \/ \E q \in 1..r : k = 2 * q - 1 /\ call = refused[q] /\ call \in calls
            \/ k = 2 * r + 1 /\ call \in kept
        BY <2>8a, <3>1
      <4>3. \/ \E q \in 1..r : l = 2 * q - 1 /\ other = refused[q] /\ other \in calls
            \/ l = 2 * r + 1 /\ other \in kept
        BY <2>8a, <3>1
      <4>4. ASSUME NEW q \in 1..r, NEW p \in 1..r, refused[q] = refused[p] PROVE q = p
        BY <1>12, <2>1, <4>4
      <4>5. ~(call \in calls /\ call \in kept)
        BY <1>11
      <4>6. QED BY <4>1, <4>2, <4>3, <4>4, <4>5
    <3>2. \A k \in 1..Len(more), i \in ThisTurn : i <= n =>
             \A call \in more[k].calls, other \in messages[i].calls : call.id # other.id
      <4>1. \A i \in ThisTurn : i <= n => i # n + 1
        BY <1>7, <1>8
      <4>2. QED BY <1>14, <2>8, <4>1
    <3>3. \A k \in 1..Len(more) : more[k].from # "user"
      BY <2>8
    <3>4. LastUser <= n /\ n <= Len(messages)
      BY <1>7, <1>8
    <3>5. QED BY <1>2, <1>7, <2>5, <2>9, <3>1, <3>2, <3>3, <3>4, DistinctStays
  <2>19. ASSUME NEW i \in ThisTurn, i # n + 1 PROVE SettledAt(i)'
    <3>1. i \in 1..n /\ SettledAt(i)
      BY <1>2, <1>7, <1>8, <2>19
    <3>2. \A j \in n + 1..Len(messages) : messages[j].from # "tool"
      BY <1>7
    <3>3. \A call \in messages[i].calls, k \in 1..Len(more) :
             more[k].from = "tool" => more[k].of # call.id
      BY <1>14, <2>6, <2>8, <2>19
    <3>4. ran \subseteq ran' /\ n <= Len(messages)
      BY <1>1, <1>7
    <3>5. QED BY <1>2, <1>7, <2>5, <2>9, <3>1, <3>2, <3>3, <3>4, SettledStays
  <2>20. ASSUME NEW q \in 1..r, NEW i \in 1..Len(more), i = 2 * q - 1
         PROVE  Settled(n + i, refused[q])'
    <3>1. Answers(refused[q]) = {}
      BY <1>2, <1>7, <2>6 DEF Fresh
    <3>2. PICK k : k = 2 * q
      OBVIOUS
    <3>3. k \in 1..Len(more) /\ n + i < n + k /\ n + i \in Nat
      BY <1>7, <2>5, <2>20, <3>2
    <3>4. more[k].from = "tool" /\ more[k].of = refused[q].id /\ more[k].says = "refusal"
      <4>1. more[k] = ToolResult("refusal", refused[q])
        BY <2>5, <3>2, <3>3
      <4>2. QED BY <4>1, MessageSays
    <3>5. ASSUME NEW l \in 1..Len(more), more[l].from = "tool", more[l].of = refused[q].id
          PROVE  l = k
      <4>1. PICK p \in 1..r : l = 2 * p /\ more[l].of = refused[p].id
        BY <2>8, <3>5
      <4>2. p = q
        BY <1>12, <2>1, <3>5, <4>1
      <4>3. QED BY <3>2, <4>1, <4>2
    <3>6. n <= Len(messages)
      BY <1>7
    <3>7. \A l \in 1..Len(more) : (more[l].from = "tool" /\ more[l].of = refused[q].id) <=> l = k
      BY <3>4, <3>5
    <3>8. PICK place, call : place = n + i /\ call = refused[q]
      OBVIOUS
    <3>9. /\ place \in Nat /\ place < n + k /\ Answers(call) = {} /\ more[k].says = "refusal"
          /\ k \in 1..Len(more)
          /\ \A l \in 1..Len(more) : (more[l].from = "tool" /\ more[l].of = call.id) <=> l = k
      BY <3>1, <3>3, <3>4, <3>7, <3>8
    <3>10. Settled(place, call)'
      <4>1. Types /\ n \in Nat /\ n <= Len(messages) /\ more \in Seq(MessageType) /\ Goes(n, more)
        BY <1>2, <1>7, <2>5, <2>9, <3>6
      <4>2. QED BY <3>9, <4>1, GetsSettled
    <3>11. QED BY <3>8, <3>10
  <2>21. ASSUME NEW i \in ThisTurn', i # n + h PROVE SettledAt(i)'
    <3>1. i \in LastUser + 1 .. n + h
      BY <2>10, <2>11
    <3>2. CASE i <= n
      <4>1. i \in ThisTurn /\ i # n + 1
        BY <1>7, <1>8, <2>12, <3>1, <3>2
      <4>2. QED BY <2>19, <4>1
    <3>3. CASE i > n
      <4>1. PICK k \in 1..Len(more) : i = n + k
        <5>1. i - n \in 1..Len(more) /\ i = n + (i - n)
          BY <1>7, <1>8, <2>11, <2>12, <3>1, <3>3
        <5>2. QED BY <5>1
      <4>2. messages'[i] = more[k] /\ k # h
        BY <2>10, <2>21, <4>1
      <4>3. ~(k = 2 * r + 1 /\ kept # {})
        BY <2>12, <4>2
      <4>4. CASE \E q \in 1..r : k = 2 * q /\ more[k].calls = {}
        BY <4>2, <4>4 DEF SettledAt
      <4>5. CASE \E q \in 1..r : k = 2 * q - 1 /\ more[k].calls = {refused[q]}
        BY <2>20, <4>1, <4>2, <4>5 DEF SettledAt
      <4>6. QED BY <2>7, <4>3, <4>4, <4>5
    <3>4. QED BY <1>7, <1>8, <2>12, <3>1, <3>2, <3>3
  <2>22. Fresh(n + h)'
    <3>1. messages'[n + h] = more[h]
      BY <2>10, <2>11, <2>12
    <3>2. CASE kept = {}
      BY <2>14, <3>1, <3>2 DEF Fresh
    <3>3. CASE kept # {}
      <4>1. SUFFICES ASSUME NEW call \in kept PROVE Answers(call)' = {}
        BY <2>15, <3>1, <3>3 DEF Fresh
      <4>2. Answers(call) = {} /\ call \in last.calls /\ call \notin calls
        BY <1>2, <1>7, <1>11, <4>1 DEF Fresh
      <4>3. \A k \in 1..Len(more) : more[k].from = "tool" => more[k].of # call.id
        BY <1>13, <2>6, <2>8, <4>2
      <4>4. Answers(call) \subseteq 1..n /\ n <= Len(messages) /\ ran \subseteq ran'
        BY <1>1, <1>7, <4>2
      <4>5. QED BY <1>2, <1>7, <2>5, <2>9, <4>2, <4>3, <4>4, StaysSettled
    <3>4. QED BY <3>2, <3>3
  <2>23. Settling'
    <3>1. Fresh(Len(messages))' /\ (\A i \in ThisTurn \ {Len(messages)} : SettledAt(i))'
      BY <2>13, <2>21, <2>22
    <3>2. QED BY <1>1, <2>18, <3>1 DEF Settling
  <2>24. QED BY <1>15, <1>16, <2>10, <2>16, <2>17, <2>23 DEF LoopInv
<1>22. QED BY <1>20, <1>21

-----------------------------------------------------------------------------
(* The crew.                                                               *)

\* What a crew's step leaves of the loop's invariant.
LEMMA CrewLeaves ==
    ASSUME LoopInv, conf.framework = "crewai", UNCHANGED <<conf, loopVars>>,
           made' \in Nat, made <= made', ran' \subseteq CallType,
           \A call \in ran' \ ran : ~ToolVerdict(call)
    PROVE  LoopInv'
<1>1. /\ Configured /\ Types /\ Halted
      /\ UNCHANGED <<conf, messages, at, steps, exit, turns, asked, failed>>
  BY DEF LoopInv, loopVars
<1>2. at = "idle" /\ turns = 0
  BY <1>1 DEF Configured
<1>3. Configured'
  BY <1>1 DEF Configured, HaystackPlaces, LangChainPlaces
<1>4. Types'
  <2>1. made \in Nat /\ messages \in Seq(MessageType)
    BY <1>1 DEF Types
  <2>2. ASSUME NEW i \in DOMAIN messages
        PROVE  /\ messages[i].of <= made'
               /\ \A call \in messages[i].calls : call.id \in 1..made'
    BY <1>1, <2>1, SaidIs
  <2>3. QED BY <1>1, <1>2, <2>1, <2>2 DEF Types
<1>5. LastMessage' /\ Count' /\ Settling' /\ HonestEnd'
  BY <1>1, <1>2 DEF LastMessage, Count, Settling, HonestEnd
<1>6. Halted'
  <2>1. ASSUME NEW call \in ran', "before_tool" \notin failed
        PROVE  /\ ~(conf.enforces /\ call.args = "bad")
               /\ ~(call.tool = "listed" /\ (conf.enforces \/ conf.framework # "langchain"))
    <3>1. CASE call \in ran
      BY <1>1, <2>1, <3>1 DEF Halted
    <3>2. CASE call \notin ran
      BY <2>1, <3>2 DEF ToolVerdict, MustHalt
    <3>3. QED BY <3>1, <3>2
  <2>2. QED BY <1>1, <1>2, <2>1 DEF Halted
<1>7. QED BY <1>3, <1>4, <1>5, <1>6 DEF LoopInv

LEMMA CrewCallsKeeps ==
    ASSUME Inv, NEW t \in Threads, NEW kind \in Kinds, CrewCalls(t, kind)
    PROVE  Inv'
<1>1. PICK call : call = Call(made + 1, kind)
  OBVIOUS
<1>2. PICK next : next = [at |-> "before", call |-> call, by |-> "nobody", words |-> "tool"]
  OBVIOUS
<1>3. /\ conf.framework = "crewai" /\ crew[t].at = "idle" /\ made' = made + 1
      /\ crew' = [crew EXCEPT ![t] = next]
      /\ UNCHANGED <<conf, loopVars, ran, pending>>
  BY <1>1, <1>2 DEF CrewCalls
<1>4. LoopInv /\ Crewing /\ made \in Nat /\ ran \subseteq CallType
  BY DEF Inv, LoopInv, Types
<1>5. LoopInv'
  BY <1>3, <1>4, CrewLeaves
<1>6. call \in CallType
  BY <1>1, <1>4 DEF Call, CallType, Kinds, Texts
<1>7. next \in CrewType /\ next.at = "before"
  BY <1>2, <1>6 DEF CrewType
<1>8. /\ crew \in [Threads -> CrewType] /\ crew' \in [Threads -> CrewType]
      /\ crew'[t] = next /\ \A u \in Threads : u # t => crew'[u] = crew[u]
  BY <1>3, <1>4, <1>7 DEF Crewing
<1>9. Crewing'
  BY <1>3, <1>4, <1>7, <1>8 DEF Crewing
<1>10. QED BY <1>5, <1>9 DEF Inv

LEMMA CrewBeforeKeeps ==
    ASSUME Inv, NEW t \in Threads, NEW veto \in BOOLEAN, CrewBefore(t, veto)
    PROVE  Inv'
<1>1. PICK ours \in BOOLEAN :
         ours <=> (ToolVerdict(crew[t].call) /\ (conf.first = "ours" \/ ~veto))
  OBVIOUS
<1>2. PICK by : by = CASE ours -> "ours" [] ~ours /\ veto -> "theirs" [] OTHER -> "nobody"
  OBVIOUS
<1>3. /\ crew[t].at = "before"
      /\ pending' = IF ours THEN [pending EXCEPT ![t] = crew[t].call.tool] ELSE pending
      /\ ran' = IF by = "nobody" THEN ran \union {crew[t].call} ELSE ran
      /\ crew' = [crew EXCEPT ![t].at = "after", ![t].by = by,
                              ![t].words = IF by = "nobody" THEN "tool" ELSE "crewai"]
      /\ UNCHANGED <<conf, loopVars, made>>
  BY <1>1, <1>2 DEF CrewBefore, Context
<1>4. /\ ours => by = "ours"
      /\ ~ours /\ veto => by = "theirs"
      /\ ~ours /\ ~veto => by = "nobody"
  <2>1. CASE ours
    BY <1>2, <2>1
  <2>2. CASE ~ours /\ veto
    BY <1>2, <2>2
  <2>3. CASE ~ours /\ ~veto
    BY <1>2, <2>3
  <2>4. QED BY <2>1, <2>2, <2>3
<1>5. LoopInv /\ Crewing /\ made \in Nat /\ ran \subseteq CallType /\ conf.framework = "crewai"
  BY <1>3 DEF Inv, LoopInv, Types, Crewing
<1>6. /\ crew \in [Threads -> CrewType] /\ pending \in [Threads -> {"none", "listed", "other"}]
      /\ crew[t] \in CrewType
  BY <1>5 DEF Crewing
<1>7. crew[t].call \in CallType /\ crew[t].call.tool \in {"listed", "other"}
  BY <1>6 DEF CrewType, CallType
<1>8. LoopInv'
  <2>1. \A call \in ran' \ ran : ~ToolVerdict(call)
    BY <1>1, <1>3, <1>4
  <2>2. ran' \subseteq CallType /\ made' \in Nat /\ made <= made'
    BY <1>3, <1>5, <1>7
  <2>3. QED BY <1>3, <1>5, <2>1, <2>2, CrewLeaves
<1>9. PICK next : next = [crew[t] EXCEPT !.at = "after", !.by = by,
                              !.words = IF by = "nobody" THEN "tool" ELSE "crewai"]
  OBVIOUS
<1>10. /\ next \in CrewType /\ next.at = "after" /\ next.by = by /\ next.call = crew[t].call
       /\ by # "nobody" => next.words = "crewai"
       /\ by = "nobody" => next.words = "tool"
  BY <1>4, <1>6, <1>9 DEF CrewType
<1>11. crew' = [crew EXCEPT ![t] = next]
  BY <1>3, <1>6, <1>9
<1>12. /\ crew' \in [Threads -> CrewType] /\ crew'[t] = next
       /\ \A u \in Threads : u # t => crew'[u] = crew[u]
  BY <1>6, <1>10, <1>11
<1>13. /\ pending' \in [Threads -> {"none", "listed", "other"}]
       /\ ours => pending'[t] = crew[t].call.tool
       /\ ~ours => pending'[t] = pending[t]
       /\ \A u \in Threads : u # t => pending'[u] = pending[u]
  BY <1>3, <1>6, <1>7
<1>14. conf' = conf
  BY <1>3
<1>15. ASSUME conf.after, NEW u \in Threads
       PROVE  /\ crew'[u].at = "idle" => (crew'[u].words = "ours" <=> crew'[u].by = "ours")
              /\ crew'[u].at \in {"idle", "before"} => pending'[u] = "none"
              /\ crew'[u].at = "after" =>
                    /\ crew'[u].by = "ours" =>
                          pending'[u] = crew'[u].call.tool /\ crew'[u].words = "crewai"
                    /\ crew'[u].by # "ours" => pending'[u] = "none" /\ crew'[u].words # "ours"
  <2>1. CASE u = t
    <3>1. pending[t] = "none"
      BY <1>3, <1>5, <1>15 DEF Crewing
    <3>2. QED BY <1>4, <1>10, <1>12, <1>13, <2>1, <3>1
  <2>2. CASE u # t
    BY <1>5, <1>12, <1>13, <1>15, <2>2 DEF Crewing
  <2>3. QED BY <2>1, <2>2
<1>16. Crewing'
  BY <1>5, <1>12, <1>13, <1>14, <1>15 DEF Crewing
<1>17. QED BY <1>8, <1>16 DEF Inv

LEMMA CrewAfterKeeps ==
    ASSUME Inv, NEW t \in Threads, CrewAfter(t)
    PROVE  Inv'
<1>1. PICK restates \in BOOLEAN :
         restates <=> (pending[t] = crew[t].call.tool /\ crew[t].words = "crewai")
  OBVIOUS
<1>2. /\ crew[t].at = "after"
      /\ pending' = IF conf.after THEN [pending EXCEPT ![t] = "none"] ELSE pending
      /\ crew' = [crew EXCEPT ![t].at = "idle",
                              ![t].words = IF conf.after /\ restates THEN "ours" ELSE @]
      /\ UNCHANGED <<conf, loopVars, made, ran>>
  BY <1>1 DEF CrewAfter, Context
<1>3. LoopInv /\ Crewing /\ made \in Nat /\ ran \subseteq CallType /\ conf.framework = "crewai"
  BY <1>2 DEF Inv, LoopInv, Types, Crewing
<1>4. LoopInv'
  BY <1>2, <1>3, CrewLeaves
<1>5. /\ crew \in [Threads -> CrewType] /\ pending \in [Threads -> {"none", "listed", "other"}]
      /\ crew[t] \in CrewType
  BY <1>3 DEF Crewing
<1>6. crew[t].call \in CallType /\ crew[t].call.tool \in {"listed", "other"}
  BY <1>5 DEF CrewType, CallType
<1>7. PICK next : next = [crew[t] EXCEPT !.at = "idle",
                              !.words = IF conf.after /\ restates THEN "ours" ELSE @]
  OBVIOUS
<1>8. /\ next \in CrewType /\ next.at = "idle" /\ next.by = crew[t].by
      /\ conf.after /\ restates => next.words = "ours"
      /\ ~(conf.after /\ restates) => next.words = crew[t].words
  BY <1>5, <1>7 DEF CrewType
<1>9. crew' = [crew EXCEPT ![t] = next]
  BY <1>2, <1>5, <1>7
<1>10. /\ crew' \in [Threads -> CrewType] /\ crew'[t] = next
       /\ \A u \in Threads : u # t => crew'[u] = crew[u]
  BY <1>5, <1>8, <1>9
<1>11. /\ pending' \in [Threads -> {"none", "listed", "other"}]
       /\ conf.after => pending'[t] = "none"
       /\ \A u \in Threads : u # t => pending'[u] = pending[u]
  BY <1>2, <1>5
<1>12. conf' = conf
  BY <1>2
<1>13. ASSUME conf.after, NEW u \in Threads
       PROVE  /\ crew'[u].at = "idle" => (crew'[u].words = "ours" <=> crew'[u].by = "ours")
              /\ crew'[u].at \in {"idle", "before"} => pending'[u] = "none"
              /\ crew'[u].at = "after" =>
                    /\ crew'[u].by = "ours" =>
                          pending'[u] = crew'[u].call.tool /\ crew'[u].words = "crewai"
                    /\ crew'[u].by # "ours" => pending'[u] = "none" /\ crew'[u].words # "ours"
  <2>1. CASE u = t
    <3>1. /\ crew[t].by = "ours" => pending[t] = crew[t].call.tool /\ crew[t].words = "crewai"
          /\ crew[t].by # "ours" => pending[t] = "none" /\ crew[t].words # "ours"
      BY <1>2, <1>3, <1>13 DEF Crewing
    <3>2. CASE crew[t].by = "ours"
      BY <1>1, <1>8, <1>10, <1>11, <1>13, <2>1, <3>1, <3>2
    <3>3. CASE crew[t].by # "ours"
      <4>1. ~restates
        BY <1>1, <1>6, <3>1, <3>3
      <4>2. QED BY <1>8, <1>10, <1>11, <1>13, <2>1, <3>1, <3>3, <4>1
    <3>4. QED BY <3>2, <3>3
  <2>2. CASE u # t
    BY <1>3, <1>10, <1>11, <1>13, <2>2 DEF Crewing
  <2>3. QED BY <2>1, <2>2
<1>14. Crewing'
  BY <1>3, <1>10, <1>11, <1>12, <1>13 DEF Crewing
<1>15. QED BY <1>4, <1>14 DEF Inv

-----------------------------------------------------------------------------
(* The invariant.                                                          *)

LEMMA InitInv ==
    ASSUME Init
    PROVE  Inv
<1>1. /\ conf \in [framework: {"haystack", "langchain", "crewai"}, enforces: BOOLEAN,
                   patched: BOOLEAN, first: {"ours", "theirs"}, after: BOOLEAN]
      /\ conf.framework = "crewai" => ~conf.patched
      /\ conf.framework = "haystack" => ~conf.patched
      /\ messages = <<>> /\ at = "idle" /\ steps = 0 /\ exit = "none"
      /\ turns = 0 /\ asked = 0 /\ made = 0 /\ ran = {} /\ failed = {}
      /\ crew = [t \in Threads |-> [at |-> "idle", call |-> NoCall, by |-> "nobody", words |-> "tool"]]
      /\ pending = [t \in Threads |-> "none"]
  BY DEF Init
<1>2. Configured
  BY <1>1 DEF Configured
<1>3. Types
  BY <1>1 DEF Types
<1>4. LastMessage /\ Count /\ Halted /\ Settling /\ HonestEnd
  BY <1>1 DEF LastMessage, Count, Halted, Settling, HonestEnd
<1>5. Crewing
  <2>1. NoCall \in CallType
    BY DEF NoCall, CallType, Texts
  <2>2. [at |-> "idle", call |-> NoCall, by |-> "nobody", words |-> "tool"] \in CrewType
    BY <2>1 DEF CrewType
  <2>3. QED BY <1>1, <2>2 DEF Crewing
<1>6. QED BY <1>2, <1>3, <1>4, <1>5 DEF Inv, LoopInv

\* The loops leave the crew alone.
LEMMA LoopsLeaveTheCrew ==
    ASSUME Crewing, UNCHANGED <<conf, crewVars>>
    PROVE  Crewing'
BY DEF Crewing, crewVars

LEMMA NextKeepsInv ==
    ASSUME Inv, [Next]_vars
    PROVE  Inv'
<1> LoopInv /\ Crewing
  BY DEF Inv
<1>1. ASSUME NEW says \in Texts, HostAsks(says) PROVE Inv'
  BY <1>1, HostAsksKeeps, LoopsLeaveTheCrew DEF HostAsks, Inv
<1>2. ASSUME NEW says \in Texts \cup {"none"}, NEW kinds \in Lists(Kinds), ModelReplies(says, kinds)
      PROVE  Inv'
  <2>1. UNCHANGED <<conf, crewVars>>
    BY <1>2 DEF ModelReplies
  <2>2. QED BY <1>2, <2>1, ModelRepliesKeeps, LoopsLeaveTheCrew DEF Inv
<1>3. CASE HookFails
  BY <1>3, HookFailsKeeps, LoopsLeaveTheCrew DEF HookFails, Loop, Inv
<1>4. CASE BeforeRun
  BY <1>4, BeforeRunKeeps, LoopsLeaveTheCrew DEF BeforeRun, Loop, Inv
<1>5. CASE AgentSteps
  BY <1>5, AgentStepsKeeps, LoopsLeaveTheCrew DEF AgentSteps, Loop, Inv
<1>6. CASE BeforeTool
  <2>1. UNCHANGED <<conf, crewVars>>
    BY <1>6 DEF BeforeTool, Loop
  <2>2. QED BY <1>6, <2>1, BeforeToolKeeps, LoopsLeaveTheCrew DEF Inv
<1>7. ASSUME NEW results \in Lists(Texts), NEW ends \in BOOLEAN, AgentTools(results, ends)
      PROVE  Inv'
  <2>1. UNCHANGED <<conf, crewVars>>
    BY <1>7 DEF AgentTools, Loop
  <2>2. QED BY <1>7, <2>1, AgentToolsKeeps, LoopsLeaveTheCrew DEF Inv
<1>8. CASE AfterRun
  <2>1. UNCHANGED <<conf, crewVars>>
    BY <1>8 DEF AfterRun, Loop
  <2>2. QED BY <1>8, <2>1, AfterRunKeeps, LoopsLeaveTheCrew DEF Inv
<1>9. CASE BeforeModel
  BY <1>9, BeforeModelKeeps, LoopsLeaveTheCrew DEF BeforeModel, Middleware, Inv
<1>10. CASE AfterModel
  BY <1>10, AfterModelKeeps, LoopsLeaveTheCrew DEF AfterModel, Middleware, Inv
<1>11. ASSUME NEW call \in Waiting, NEW result \in Texts, WrapToolCall(call, result)
       PROVE  Inv'
  <2>1. UNCHANGED <<conf, crewVars>>
    BY <1>11 DEF WrapToolCall, Middleware
  <2>2. QED BY <1>11, <2>1, WrapToolCallKeeps, LoopsLeaveTheCrew DEF Inv
<1>12. ASSUME NEW t \in Threads, NEW kind \in Kinds, CrewCalls(t, kind) PROVE Inv'
  BY <1>12, CrewCallsKeeps
<1>13. ASSUME NEW t \in Threads, NEW veto \in BOOLEAN, CrewBefore(t, veto) PROVE Inv'
  BY <1>13, CrewBeforeKeeps
<1>14. ASSUME NEW t \in Threads, CrewAfter(t) PROVE Inv'
  BY <1>14, CrewAfterKeeps
<1>15. CASE UNCHANGED vars
  <2>1. /\ UNCHANGED <<messages, ran, conf>> /\ UNCHANGED <<conf, crewVars>>
        /\ UNCHANGED <<at, steps, exit, turns, asked, failed, made>>
    BY <1>15 DEF vars, loopVars
  <2>2. Configured /\ Types /\ LastMessage /\ Count /\ Halted /\ Settling /\ HonestEnd
    BY DEF LoopInv
  <2>3. Crewing'
    BY <2>1, LoopsLeaveTheCrew
  <2>4. Configured' /\ Types'
    BY <2>1, <2>2 DEF Configured, Types, From, HaystackPlaces, LangChainPlaces
  <2>5. LastMessage' /\ Count' /\ HonestEnd'
    BY <2>1, <2>2 DEF LastMessage, Count, Counted, Stopped, HonestEnd, Final, MustHalt
  <2>6. Halted'
    BY <2>1, <2>2 DEF Halted, Stopped, Final, ThisTurn, LastUser, From, MustHalt, ToolVerdict
  <2>7. Settling'
    <3>1. /\ ThisTurn' = ThisTurn /\ (Distinct => Distinct')
          /\ \A i : (SettledAt(i) => SettledAt(i)') /\ (Fresh(i) => Fresh(i)')
      BY <2>1, Quiet
    <3>2. messages' = messages /\ at' = at
      BY <2>1
    <3>3. PICK l : l = Len(messages)
      OBVIOUS
    <3>4. at = "wrap" =>
             \E k \in ThisTurn' :
                /\ messages'[k].from = "assistant" /\ messages'[k].calls # {}
                /\ \A j \in ThisTurn' : j > k => messages'[j].from = "tool"
                /\ \A i \in ThisTurn' \ {k} : SettledAt(i)'
                /\ \A call \in messages'[k].calls : Answers(call)' = {} \/ Settled(k, call)'
      <4>1. SUFFICES ASSUME at = "wrap"
                     PROVE  \E k \in ThisTurn' :
                /\ messages'[k].from = "assistant" /\ messages'[k].calls # {}
                /\ \A j \in ThisTurn' : j > k => messages'[j].from = "tool"
                /\ \A i \in ThisTurn' \ {k} : SettledAt(i)'
                /\ \A call \in messages'[k].calls : Answers(call)' = {} \/ Settled(k, call)'
        OBVIOUS
      <4>2. PICK k \in ThisTurn :
                 /\ messages[k].from = "assistant" /\ messages[k].calls # {}
                 /\ \A j \in ThisTurn : j > k => messages[j].from = "tool"
                 /\ \A i \in ThisTurn \ {k} : SettledAt(i)
                 /\ \A call \in messages[k].calls : Answers(call) = {} \/ Settled(k, call)
        BY <2>2, <4>1 DEF Settling
      <4>3. k \in ThisTurn'
        BY <3>1
      <4>4. \A i \in ThisTurn' \ {k} : SettledAt(i)'
        BY <3>1, <4>2
      <4>5. \A call \in messages'[k].calls : Answers(call)' = {} \/ Settled(k, call)'
        <5>1. ASSUME NEW call \in messages[k].calls
              PROVE  Answers(call)' = {} \/ Settled(k, call)'
          <6>1. Answers(call) = {} \/ Settled(k, call)
            BY <4>2
          <6>2. Answers(call)' = Answers(call)
            BY <2>1 DEF Answers
          <6>3. Settled(k, call) => Settled(k, call)'
            BY <2>1, <6>2 DEF Settled
          <6>4. QED BY <6>1, <6>2, <6>3
        <5>2. QED BY <3>2, <5>1
      <4>6. /\ messages'[k].from = "assistant" /\ messages'[k].calls # {}
            /\ \A j \in ThisTurn' : j > k => messages'[j].from = "tool"
        BY <3>1, <3>2, <4>2
      <4>7. QED BY <4>3, <4>4, <4>5, <4>6
    <3>5. at \in {"before_tool", "after_model", "tools"} =>
             Fresh(l)' /\ \A i \in ThisTurn' \ {l} : SettledAt(i)'
      BY <2>2, <3>1, <3>3 DEF Settling
    <3>6. l = Len(messages')
      BY <3>2, <3>3
    <3>7. QED BY <2>2, <3>1, <3>2, <3>4, <3>5, <3>6 DEF Settling
  <2>8. QED BY <2>3, <2>4, <2>5, <2>6, <2>7 DEF Inv, LoopInv
<1>16. QED BY <1>1, <1>2, <1>3, <1>4, <1>5, <1>6, <1>7, <1>8, <1>9, <1>10, <1>11, <1>12, <1>13,
              <1>14, <1>15 DEF Next

THEOREM Inductive == Spec => []Inv
BY InitInv, NextKeepsInv, PTL DEF Spec

-----------------------------------------------------------------------------
(* The theorems.                                                           *)

(* Nothing that a scan refuses in an enforcing mode reaches the model or a *)
(* tool past a hook that worked, and no tool of the operator's list runs   *)
(* where the adapter enforces the list: what the adapters' hooks let pass, *)
(* whatever the model asks for and in whatever order the tools answer.     *)
THEOREM HaltedStaysOut == Spec => []HaltedGoesNowhere
<1>1. ASSUME Inv PROVE HaltedGoesNowhere
  <2>1. Halted
    BY <1>1 DEF Inv, LoopInv
  <2>2. QED BY <2>1 DEF Halted, HaltedGoesNowhere
<1>2. QED BY <1>1, Inductive, PTL

(* Whenever the model is asked again, each call of the turn has exactly    *)
(* one answer, and one that did not run is answered by a refusal: what the *)
(* rewriting of the history by the before-tool hook and the order of the   *)
(* middleware's answers must leave true.                                   *)
THEOREM EveryCallSettled == Spec => []CallsSettled
<1>1. ASSUME Inv, at = "model",
             NEW i \in ThisTurn, NEW call \in messages[i].calls
      PROVE  /\ \A j \in ThisTurn : call.id \in Asked(j) => j = i
             /\ \E j \in AnswersTo(call.id) :
                   /\ AnswersTo(call.id) = {j} /\ j > i
                   /\ call \notin ran => messages[j].says = "refusal"
  <2>1. Types /\ Distinct /\ SettledAt(i) /\ From("user") # {}
    BY <1>1 DEF Inv, LoopInv, Settling, Types
  <2>2. \A j \in ThisTurn : call.id \in Asked(j) => j = i
    BY <1>1, <2>1 DEF Distinct, Asked
  <2>3. PICK j \in DOMAIN messages :
           /\ Answers(call) = {j} /\ j > i
           /\ call \in ran \/ messages[j].says = "refusal"
    BY <1>1, <2>1 DEF SettledAt, Settled
  <2>4. /\ LastUser \in 1..Len(messages) /\ ThisTurn = LastUser + 1 .. Len(messages)
        /\ DOMAIN messages = 1..Len(messages) /\ Len(messages) \in Nat
    BY <2>1, LastUserIs DEF ThisTurn, Types
  <2>5. j \in ThisTurn
    BY <1>1, <2>3, <2>4
  <2>6. AnswersTo(call.id) = {j}
    BY <2>3, <2>4, <2>5 DEF AnswersTo, Answers
  <2>7. QED BY <2>2, <2>3, <2>6
<1>2. ASSUME Inv PROVE CallsSettled
  BY <1>1, <1>2 DEF CallsSettled
<1>3. QED BY <1>2, Inductive, PTL

(* However a Haystack run ended, its steps are those the model took and    *)
(* its reason names the sensor exactly when its last word is the refusal:  *)
(* what the output hook must undo of the input hook's sentinel.            *)
THEOREM EndsAreHonest == Spec => []HonestEnd
<1>1. ASSUME Inv PROVE HonestEnd
  BY <1>1 DEF Inv, LoopInv
<1>2. QED BY <1>1, Inductive, PTL

(* A vetoed call of a crew is restated in the sensor's words exactly when  *)
(* the veto was the sensor's, for any number of threads.                   *)
THEOREM WordsAreOwn == Spec => []OwnWordsOnly
<1>1. ASSUME Inv PROVE OwnWordsOnly
  BY <1>1 DEF Inv, Crewing, OwnWordsOnly
<1>2. QED BY <1>1, Inductive, PTL
===============================================================================
