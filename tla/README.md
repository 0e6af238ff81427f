# xaidr: formal models and proofs

TLA+ modules for xaidr, a detection sensor that runs inside an AI agent's
process. They model what the sensor does with what its readers find: the order
of its steps, what threads and requests share, what faults and bounds do to a
verdict, and how small decisions combine. Characters, regular expressions and
I/O are choices. Paths are relative to the repository; `xaidr/...` means
`src/xaidr/...`. `PROJECT.json` maps each definition to the lines it
translates.

## The system

| part | state it keeps | operations | hard behaviour | what makes it correct |
|---|---|---|---|---|
| scan pipeline `sensor.py`, `extensions.py`, `escalation.py`, `failclosed.py`, `enforcement.py` | configuration; one call's verdict; policy and blocklists | `scan`, `scan_a2a`, `scan_tool_call`, wrappers of tools and of HTTP | a fault at any stage; late escalators; swaps during a call | a closed group never passes; an answer is recorded; a blocked tool never runs |
| impact classification `authz/classifier.py`, `scanner/command_parse.py`, `scanner/sql_parse.py`, `scanner/url_parse.py` | none | `classify`, `bound_faults` | caps in many places; readers that raise one another's tier | nothing unread passes for harmless |
| authorization policy `authz/policy.py`, `local_policy.py` | the document in force | adopt, evaluate | documents that lose a constraint | an accepted document means what it says |
| detection scanner `scanner/local.py` and its layers | none | `LocalScanner.scan` | frames, caps, floors and a model change one score in turn | what must stand stands |
| provenance and tiers `provenance_chain.py`, `privilege_tiers.py` | context variables: chain, tiers, correlation id, inbound mark | begin, record, inject, extract, clear | contexts left by earlier requests; lost headers | authority never rises along a chain |
| value origin `value_origin/` | per-flow ledger | record input/result, lookup, evaluate | all-or-none writes at a cap; chains of trusted reads; forks | authority has a root in this request |
| A2A validator and id tracker `scanner/a2a_structural.py` | issued ids with times | walk, record, check | objects that contain themselves; three caps; expiry | nothing is dropped quietly; live ids are known |
| auto-patching `autopatch/`, `protect_tools` | patched attributes, manifests, hooks | protect, unprotect | third parties patch the same attributes; late imports | undoing is exact; no double wrap |
| adapters `integrations/` | a pending refusal; what they write into a conversation | hooks before, between and after an agent's steps | loops that re-read the state; other hooks; threads of a crew | what is refused goes nowhere, and only that |
| run-tree index `run_tree.py` | `_runs`, `_tainted`, `_faulted`, `_ended`, `_active` | callbacks start/end, `stamp`, activate/deactivate | lock-free reads against callbacks; reused ids; eviction | no event carries another flow's root |
| circuit breaker `circuit_breaker.py` | `_open`, `_opened_at`, sliding windows | gate, ticks, observation, reset, state | concurrent callers; cooldown without a timer | an open circuit halts every boundary; it recovers |
| telemetry queue `telemetry.py` | queue, `started`, `stop_event`, `thread`, finalizer | enqueue, worker, flush, close, exit | flags without a lock; pills; daemon threads at exit | every accepted event is reported once |

Calls flow host -> adapter (Agents) or patched framework (Binding) -> boundary ->
gates (circuit breaker, extensions) -> detection (Detection; for tool calls
ToolScan; for messages A2A) -> escalators -> policy (Impact, Policy; tier
conditions read Delegation's ceiling) -> telemetry event (stamped by the run
tree) -> observation by the breaker -> mode -> transforms -> answer. The process
shares one run-tree index and one set of patches among all sensors; each sensor
owns one breaker, one telemetry queue and one id tracker.

## Modules

| module | models | runs |
|---|---|---|
| `Verdicts` | verdicts, severities, modes, fail-closed postures | |
| `Boundary` | what a boundary promises its host (abstract) | |
| `ToolScan` | how the findings in a tool call's arguments make a verdict | |
| `Sensor`, `Sensor_proofs` | one boundary call from gate to answer, the host and the operator around it; implements `Boundary`; theorems | `Sensor.cfg` |
| `Commands`, `Impact` | the impact of a call: commands; then SQL, URLs and the whole call | |
| `Policy` | policy documents: what is accepted and what it decides | |
| `Detection` | the stages of a text scan | |
| `Decision` | composes the four: a call is written and classified, a document decides of it, a text is scanned | `Decision.cfg` |
| `Delegation` | flows, hops, headers and the privilege ceiling | `Delegation.cfg`, `DelegationStripped.cfg` |
| `ValueOrigin` | ledgers and the verdict on a call's destinations | `ValueOrigin.cfg` |
| `A2A` | the bounded walk and the id tracker | `A2A.cfg` |
| `Messages_proofs` | theorems of `A2A` and `Delegation`: what a message that crosses agents carries | |
| `Authorization_proofs` | theorems of `Decision` and `ValueOrigin`: what a call is allowed on | |
| `Binding`, `Binding_proofs` | `protect()`, `unprotect()`, `protect_tools()`; theorems | `Binding.cfg`, `BindingNested.cfg` |
| `Agents`, `Agents_proofs` | the Haystack, LangChain and CrewAI adapters in their agent loops; theorems | `Agents.cfg` |
| `RunTree`, `RunTree_proofs` | `RunTreeIndex` and `stamp`; theorems | `RunTree.cfg` |
| `CircuitBreaker`, `CircuitBreaker_proofs` | `_CircuitRuntime` and its callers; theorems | `CircuitBreaker.cfg` |
| `Telemetry`, `Telemetry_proofs` | `SyncTelemetryQueue`; theorems | `Telemetry.cfg` |
| `MC...` | constants of the TLC instances | |

An operator that a property does not name and the model does not use, defined
just before another with the same parameters (`MarkedByLast`, `Anything`,
`ParseQuietly`, ...), is a faulty variant of it: with the variant in its place
the property of the run fails. PROJECT.json lists the pairs.

### Sensor, ToolScan, Verdicts, Boundary

`call` is the boundary call in flight: where in the code it is (`at`), the
verdict so far, the strictest verdict recorded as telemetry, whether the event of
the answer itself failed to be enqueued (`unsent`), and what the host was told.
`skipped` and `bounded` are what the scan noticed, `lost` which of the two the
code has dropped since. Scores are kept as bands against the two thresholds. Each stage of
the code is one action, in the code's order: destination checks of the HTTP
client, breaker gate, extension gates, tick, detection, escalation, structural
fusion or policy, event, observation, mode, transforms, post-scan gate, and what
the host does with the answer. Each stage that can raise has its fault:
`ControlFault` where the code attributes it to the controls group,
`InternalFault` or `DestinationFault` where the boundary's except clause catches
it. What an extension, an escalator, a pattern, or the breaker answers is a
choice.

Threads: escalators run in threads of their own; a link's answer box is separate
from the thread's end, so a link can store its answer and still be timed out
(`join` returned with the thread alive). Each call of `_call_with_timeout` makes
a box of its own, so what an abandoned thread stores later nobody reads, and it
is left out. The operator changes policy and blocklist between any two steps.
`policyTest` and `policyEval` are two reads of `_policy`, as in the code.

Telemetry: the event of a scanned verdict is enqueued or the call faults; the
event of a refusal, of a scan that failed open, and of the rule of a gate, list
or policy is sent under a guard of its own, and the answer is told also when it
could not be enqueued (`Answer`, `Unsent`). `AnswersAreRecorded` says that no
other answer goes unrecorded.

`Boundary` states the promise as a small machine: ask, fault, answer; a fault of
a closed group does not pass in an enforcing mode, and a monitoring sensor
halts only by the operator's explicit rule. `KeepsPromise` is the refinement. It
counts every fault of the call, and each signal (a skipped link, a bound) that
reached the post-scan gate; the four stages that lose a signal are named in
`Heard` and told under the divergences. `SkippedIsTold` says of the chain of
escalators what `KeepsPromise` says of the closed group: whatever the posture, a
skipped link shows in the answer unless one of the four lost it.

Bounds: two extensions and two links (so "the next one" exists), five postures
(both modes, all open, all closed, one group with approval), two decisions
beside none: `allowed` and `approval_required` distinguish "no policy", "does
nothing" and "halts"; the other severities are compared by the same order. One call at
a time: calls share only policy and blocklist, and those change under the call
anyway. Fairness: `WF_vars(CallStep)`, the calling thread
is scheduled; nothing is asked of escalators, so `EveryCallAnswered` rests on
the timeout.

### Commands, Impact, Policy, Detection, Decision

A command line is a sequence of the pieces written between separators, in the
order the parser appends their segments, each with its depth, what rules find in
it, whether its own text degraded its parse, and what it runs (a shell payload,
another language's, an opaque blob), or blank. Two caps count pieces: that of the
splitter counts the blank ones too and leaves the rest of a text unsplit
(`Glued`), that of the parser counts the segments it read (`Earlier`). `Parse`
applies them with the caps on length and depth. The unsplit rest is one segment
that says what its first written piece says. Combinations
need two segments. `Impact` adds statement batches, clauses, URLs, a crowd of
values past the walk, values nested deeper than the walk recurses (`deep`), and
key escalations. `Classify` is the error path of the last and the chain of
readers (`Grade`) otherwise. A `WHERE` clause carries what the
recogniser says of it together with the rows it really selects, so "bounded"
and "tautology" are compared with their meaning; column-referencing clauses
that are nevertheless always true are the class `sql_parse.py` names as its
residual, and the property asks of "bounded" only that a column is named.
`CoerceIp` is the address arithmetic of `url_parse.py` over bytes of four
values instead of 256 (the constant `Byte`); `Dialled` is `inet_aton`.

A policy document is a record of rules whose fields and conditions have a
form: a list, a null, a scalar, a bad element, a number, a word, an infinity.
`Accepted` is `explain_action_policy`; `AsWritten` says what the document says,
independently, by quantifying over its written constraints. A document that is
accepted must decide as written (`DecidesAsWritten`), and each of its rules must
be able to fire (`RulesCanFire`). A request's trust may be no number: the rule that
asks for it then stops evaluation (`Raises`) with the answer monitor, and
`DecidesAsWritten` allows that (`Unreadable`). That each rule can fire makes sense
only where requests with the values the rules ask for exist (`Varied`).

Folds of the code that keep the better of two findings are written as what they
come to: `Best` is the first finding that nothing outranks, `Kept` the segments
read before the cap, `Highest` the first URL of the highest tier.
`InspectionOnlyRaises` has three exceptions: a parse that degrades and values
nested too deep, either of which `bound_faults` reports, and `FirstReading`, the
step from a tool nobody named and nothing read to a command whose rules call it
harmless. `NothingPassesUnread` has one in the command reader: a piece that the
splitter left unsplit behind blank ones (`Excepted`), with which goes an input
cut where only blanks stand before the cut (`Silent`).

`Detection` keeps what the layers found as sets of threats with a kind and a
score, and the primitives the compositional scanner sees as a set; the stages
of `LocalScanner.scan` follow one another as actions that change `score`.
`forced`, `reached` and `model` are histories: something was found that no
frame may soften; the block band was reached and softened; only the model spoke.

Bounds: two segments of eight shapes (one of them blank), one level of payload,
one statement, three parts and two terms in all: each cap is reached and passed,
the splitter's with and without blank pieces before it. The policy is
replaced only while a classified call waits for its decision, and a text is
scanned only before any call: the boundaries read nothing of each other's, so
other orders show the same states in other products. Threats are one per
family the caps distinguish.

### Delegation

`ctx[t]` is the context variables of a thread: chain, the parallel list of
tiers, correlation id, inbound mark. Requests begin with a flow, with headers
(any subset of which may be lost), or with nothing; the context of the last
request stays unless the host clears it. `lineage` and `lost` are histories of
who really worked upstream. Headers are a snapshot, so duplicates and late
deliveries are further calls. Bounds: three agents of two tiers, two threads,
chains of four hops; two threads suffice because a thread serves requests in
turn and a chain is what passes between them.

### ValueOrigin

A ledger is an object that contexts point to: `bound[t]` is a thread's. Nothing
in the package binds a ledger, so the host does what its docstrings say callers
do. A read's `result` is what the walk of it reaches. `seen`, `donors` and
`roots` are histories: every destination emitted, which request gave principal authority, and what a grant rests on.
`VerdictsAreEarned` ranges over arguments of every form the extractor
distinguishes, evaluated by every thread in every state. The units of one text
are a set. The run is symmetric in its threads, which nothing orders. Bounds: a ledger of
two entries and n-grams together (units fit, half fit, and do not fit), two
destinations and one n-gram, two requests, one fork.

### A2A

A body is a graph of numbered objects, so an object can contain itself. One
turn of the walk's loop is one action; the walk touches nothing shared, so it is
run to its end before the tracker changes. An object that several fields hold is
found in the first of them (`Firsts`). `known` is two dicts in insertion order;
the cap keeps the entries of highest `Rank`, by expiry and then by place.
`Reached` is the unbounded reading of the same edges, the reference for
`NothingDropped`. Bounds: depth three, five nodes, two items, so that bodies
exist at and past each; time to live two, two ids a store, three ids, three
ticks. Fairness: `WF_vars(Visit)`, the loop runs on the caller's thread.

### Binding

An attribute is the chain of wrappers a call goes through. `TARGETS` is the whole
registry in its order; a process imports some of its frameworks (`Imports`),
some of them late (`Late`), and `protect()` passes the others by. Imports,
third-party patches and tool calls fall between its steps. `unprotect()` of one
manifest is one action; of all, it fixes the order, newest first (`UnprotectAll`),
reverts one manifest at a time with the same things in between (`UnprotectNext`),
and clears `_ACTIVE` at the end. `Visible` is what a marker lookup sees through
`functools.wraps` and not through other decorators. Bounds: five imported
frameworks (one of each kind of seam: install, try, hook, report, probe), two
manifests and sensors, one transparent and one opaque third party on two
sites, three of these or of `protect_tools` and calls in all. The symmetry is of
manifests and of sensors, which nothing orders.

### Agents

`messages` is the conversation an agent carries from turn to turn; `at` is
where its loop is. A text, a call's arguments or a result is "bad" when a scan of
it blocks. The loops are external, modelled as the adapters rely on them:
Haystack's re-reads `step_count` and the pending calls from the State after the
hooks, so the hooks block by rewriting it; LangChain's lets a middleware jump to
the end and stand around each tool call; CrewAI asks its hooks in order until
one vetoes. `conf` chooses the framework, the mode, whether `BaseTool.run` is
patched, and for CrewAI whose hook comes first and whether there is an after
registry. Any Haystack hook may fail open (`failed`). Bounds: two turns (so a
conversation has a past), two calls (so a refused call has a sibling, and two
threads of a crew a call each), two agent steps.

### RunTree

State: `runs` is `_runs` as a function on all ids, `NoRun` for an absent one;
`birth` is the insertion order of that dict, which `start` uses to pick the
entry whose root is evicted; `tainted`, `faulted`, `ended` are the memos, kept
as places in insertion order so that `_remember`'s "pop, append, drop the
oldest past the cap" is exact. `host` is what LangChain runs: a call has an id,
a parent and a flow (the call it descends from). `emit` is the stamp a call is
executing.

Atomicity. `start`, `end` and `next_seq` do their work in one critical section
and are one action each (start as one action per way it returns). Before the
lock, `_on_start` reads `_active`: that read is `Invoke`, a separate step.
`resolve` takes no lock; its dict reads are atomic under the interpreter, and
it is split at `runs.get(key)` (`StampLookup`) and
`runs.get(run.root)`/`collided`/`_tainted` (`StampResolve`). The last three
reads are one step: an index change between them only makes the stamp more
conservative (a missing root) or less recent. `deactivate` is two steps
(`Deactivate`, `Clear`). `end` also checks `_active` first; that check is part
of `End`, which loses only the interleaving in which an unprotect falls between
the check and the lock.

Data left out: node names, paths, the parent id copied to an event, and the tool
call id: no decision reads them. Events outside every run (`no_run`) never
reach the index.

Histories: `forgot` collects ids with a use the index never saw or no longer
recalls, `touched` the ids and roots a detected reuse marked. `FlowsApart` says
what the class promises with its limits: two flows share a root only if an id of
both was forgotten, and a stamp begun after a reuse never carries a root that
reuse touched.

Bounds: three calls, three ids, every id reusable, caps of two (so three live
runs evict, and three remembered ids forget), two events, one unprotect. Two
flows and one child are what a merge takes; two events are what it takes to see
it. Ids and calls are symmetric: nothing orders them but insertion order.

### CircuitBreaker

One instance of the breaker with concurrent callers. `stamps` holds the ages of
the retained stamps, `openFor` the age of the trip, capped where the code
cannot tell larger ages apart; so time is unbounded while the state space is
finite. `mode` and `cooldown` are chosen at the start and fixed.

Each critical section is one action: `GateCooldown` (state()), `Tick` and
`DetectViolation` (_record), `Reset`, `PollState`. What happens after the
release is its own action: `GateEmitClose`, `GateRead` (state() returns
`_open` unlocked), `Announce` (emit and on_trip). A boundary's order is that of
the sensor: gate, then the tick of tool calls or outbound delegations, then
detection, whose true verdict is counted. Detection is a choice here: a scan
ends with a violation or without one. Inbound A2A ticks nothing and is the
`scan` kind. `owed` records the trips whose hook is due, `held` the callers that
arrived at an open circuit which has not closed since.

Bounds: two callers, violations and tool calls with thresholds of two and
windows of two and one seconds, retained cap three, cooldown two or none.
Fairness: time passes (`Second`), a thread inside a scan is scheduled, and, for
`Recovers` alone, the host keeps calling boundaries; the code has no timer,
so without traffic the circuit stays open, as documented.

### Telemetry

`producer`, `worker` and `drainer` are per-thread step records. The steps are
the reads and writes of the shared flags and each queue operation: `enqueue`'s
test of `started`, `start`'s second test, its assignments, the thread it names, the
start of the thread then named, `put_nowait`; the worker's loop test, `get`, `get_nowait`s and report; the
drain's stop, `get_nowait`s, report, pill, join and `started = False`. A worker
incarnation is a model value, reused only when no drain remembers it.
`settled` is "handed to report() or dropped with a warning": report() that
raises drops its batch, and a full queue drops the event, both by design.

Assumed: report() returns within the join's two seconds. A join may time out on
a worker that was told to go on (a start cleared the stop event) or that waits
in get() (another worker took its pill). At exit the host's own threads are
done, the finalizer runs, and daemon workers stop where they are.

Bounds: two events and two producers (the smallest start race), queue of one
(full queue, lost pill), batch of two, two workers, two flushes by one thread.
Fairness: threads inside a call and the worker are scheduled; the interpreter
exits. `Settles` needs the last: an event enqueued during a flush can stay in the
queue without a worker until the next enqueue or exit.

Deadlock is checked except in A2A, Agents, Binding, RunTree, Telemetry and ValueOrigin:
there the host's calls, bodies, requests or changes are bounded, and it may stop
when they are used up.

## What the runs show

All properties of the passing runs hold on the instances above. Every module
with state defines a type invariant; the runs of RunTree and Binding check it, because it also
says there what the code could get wrong, and elsewhere it stands for proofs. Two claims of
the repository do not:

* `DelegationStripped.cfg`. A chain header lost on the way counts against the
  agent that received the call, and only against it: that agent records its own
  hop, so the next one sees a chain of known tiers and a ceiling looser than the
  true one. THREAT_MODEL.md:83-85 says every removal tightens the verdict.
* `BindingNested.cfg`. The mark "this call was scanned by the middleware" is set
  for the whole of the tool's body, so a tool that calls another tool's `run()`
  has the inner call skipped. The comment at `autopatch/frameworks.py:328-329`
  says it is "this exact call".

Divergences met while modelling, of which no run is kept (the models follow the
code; the properties above are stated so that they hold beside them):

* `sensor.py:957`, `1746-1773`, `3942-3949`: a refusal, a scan that failed open
  and the rule of a gate, list or policy are answered also when their event could
  not be enqueued, so an answer may be told with nothing recorded.
  `AnswersAreRecorded` leaves out exactly these (`unsent`).
* A skipped escalator or a bound is a mark on the verdict until
  `_post_scan_gate` reads it, and four stages between lose it, so a call is
  answered although its group is closed; README.md:889-892 says it is refused.
  `sensor.py:2137`: `_scan_a2a_impl` builds a new result without the mark of a
  skipped link. `escalation.py:167`: the answer of a later link takes the place of
  the verdict, of the bounds among its rules and of the reason a link was skipped.
  `sensor.py:1459-1484`: an extension may answer `transform_verdict` with a verdict
  of its own, which need not be stricter to have neither. `sensor.py:1816-1831`:
  an internal fault that is left open answers `allowed` whatever was noticed
  before it, on text scans too; of a tool call even the bounds of its arguments are
  not asked then. `KeepsPromise` and `SkippedIsTold` leave out these four (`lost`
  in `Sensor`).
* docs/enterprise-seams-design.md:88 says the event of a scan records
  `escalation: skipped` with its reason; no event of `sensor.py` carries either.
* `scanner/command_parse.py:750`, `759`: the splitter counts blank pieces towards
  its cap and `_parse_impl` skips them (403), so behind enough of them the rest of
  a text is one segment, read by its first words, and nothing is marked degraded
  or reported. An input cut at `_MAX_INPUT_CHARS` with only blanks before the cut
  (392-399) is read as nothing, unreported. `NothingPassesUnread` leaves out both.
* `authz/classifier.py:871`, `963`, `993`: of arguments nested deeper than the walk
  can recurse, `extract_url_all` returns `None`, and `classify` answers
  `unknown`/`medium` whatever it had read, before it asks whether the walk was cut
  (981). docs/policies.md:154 says inspection can "never lower" a tier.
  `bound_faults` reports `arguments.walk_truncated`, to those who ask for bounds;
  the sensor's own loop (`sensor.py:2552`) raises on the same `None`, an internal
  fault of the scan.
* `integrations/langchain.py:247`: in monitor mode a LangChain agent runs a tool
  of the operator's blocked list: the middleware halts on the softened verdict of
  `scan_tool_call` and reads no list, and under `protect()` its guard keeps the
  patched `BaseTool.run` from doing so. README.md:815-816 says the list is denied
  in both modes; the Haystack and CrewAI adapters do deny it, and
  `HaltedGoesNowhere` says so of them.
* `run_tree.py:210`: when a root ends before its member, or a run is an orphan,
  the member's id is in none of the dicts; a second run with that id and a child
  in a new flow are filed as fresh, and two flows merge.
* `run_tree.py:311`: a start that passed the gate before `unprotect()` files its
  run in the cleared index.
* `run_tree.py:255`: `next_seq` answers 0 when the root ended after the stamp
  resolved it; the event carries `runSeq` 0.
* `circuit_breaker.py:320`: a record that finds the cooldown over closes the
  circuit and discards the close event; docs/circuit-breaker.md:144 promises one.
* `telemetry.py:222`: an enqueue during `close_sync` leaves its event where
  neither a worker nor the retired finalizer looks (comment at 264).
* `telemetry.py:105`: the start race leaves a worker nobody joins; its batch is
  lost at exit (comment at 119-120). Or both starts start the thread named last
  (115): the second raises `RuntimeError` out of `enqueue` and its event is not
  queued.
* `scanner/local.py:641-652`, `675-691`: the slow rule (`l1.py:146-154` says
  block band) is capped to flagged when a mention cue is present.
* `authz/policy.py:686`, `794`: a trust an extension brings that is no number
  raises at the first rule that asks for it, and `evaluate` answers monitor where a
  later rule or the defaults would block. `DecidesAsWritten` leaves this out.
* `value_origin/_extract.py:162`: destinations past the bounds of a result's walk go
  unrecorded and the ledger is not marked saturated, so a later call to one is
  novel. `VerdictsAreEarned` is about what the walk reaches.
* `authz/classifier.py:365`: a combination found only in segments that degraded
  counts as clean when an unrelated segment is clean; docs/policies.md says such
  a match alone never justifies the `critical` tier.
* `authz/classifier.py:931`: a command read in a call of an unnamed tool replaces
  the default `unknown`/`medium` whatever it is, so `cat README.md` makes the tier
  `low`. docs/policies.md:154 says "Argument inspection can escalate a tier but
  never lower it". `InspectionOnlyRaises` leaves that step out (`FirstReading`).
* `scanner/url_parse.py:101`, `_coerce_ip`: a last part above 255 is or-ed into the
  bytes above it, so `10.0.0.300` is read as `10.0.1.44`; `inet_aton` refuses it.
* `sensor.py`, `_check_destination` raises on a closed group in monitor mode too
  (README.md:906: in `monitor` a fail-closed verdict is flagged), `ProtectedHttpClient` stops on
  "blocked" alone (README.md:208), and fail-closed verdicts never reach the
  breaker's count (README.md:912 speaks of `blocked` as one that does).
* `set_policy(None)` between the two reads of `_policy`: the call is decided
  "monitor" and flagged, which neither the old policy nor its absence asked for.
* A rule whose evaluator raises does not match, also when it is a block rule.
* `begin_flow(principal)` followed by `scan_a2a` hides an unidentified upstream:
  the principal is a hop of the chain.
* Nothing in the package binds a value-origin ledger; a host that does not bind
  gets "no flow" or "no ledger" for every destination. After saturation a destination emitted by an
  untrusted tool may leave no entry behind.
* `_collect_issued_ids` reads neither `result.tasks[]` nor a task's history.
* `integrations/`: only the latest user message is scanned, so a refused one stays
  in the conversation and reaches the model on the next turn. The LangChain
  `after_model` hook refuses a text that came with tool calls and leaves these
  without an answer, and it leaves the refused text in the messages.
* `autopatch`: a sensor that is both `protect()`ed and `protect_tools()`ed scans a
  call twice; an opaque third-party wrapper hides the patch, and a second
  `protect()` wraps again; a patch that cannot be put back stays, inert, and
  later `protect()`s take the target for patched; `deepagents` keeps the
  `create_agent` it imported, with the old sensor's middleware.

## What is proved

Eight modules hold theorems; each proves what its component's runs check on a
small instance, for every value of the constants that satisfies the `ASSUME`s of
the module it is about. Those say that bounds are numbers, that sets one counts
are finite, and that markers (`None`, `NoFlow`, `Stop`) are not among the values;
TLC evaluates them on every run. The argument is each time the same: an
invariant that says more than the property (`Inv`, `IInv`, `...Inv`) holds initially, one
lemma per action shows that the action keeps it, and the theorem follows from
it. The strengthened invariants were checked with TLC on the runs' instances
before they were proved.

* **RunTree.** `TypeCorrect`, `IndexAlwaysConsistent`: the types and the index's
  consistency are inductive together only: the root a stamp or a child reads is
  typed only because a live run's root is live, and dropping a root drops its
  tree only because `members` is exact (`SoundFiled`, `SoundWithoutTree`,
  `SoundEnded`). `LiveRunsBounded`: at most `Cap` live runs, which also justifies
  one eviction where the code loops: the root of the oldest entry is live.
  `NothingLeaks` adds that the memories are places in insertion order.
  `SequenceOrdered` and `FlowsNeverMix` rest on `History`: a run the index still
  knows descends from what it says, everything forgotten was forgotten by a
  cap, an id's sequence numbers lie behind its root's counter, whatever a
  detected reuse touched is marked, and the runs and stamps under an unforgotten
  root are of one flow.
* **CircuitBreaker.** `HaltReachesEveryBoundary` is strengthened with "held only
  while open, and only in block mode". `OnTripFiresOncePerTrip`: a record that
  closes and trips again still owes one call (`RecordEffect`).
  `ClosedCountersAreLow` and the action property `CooldownRunsOn` follow from what
  a record does to one window: it prunes and adds one stamp, and the trip comes
  with the stamp that fills the window.
* **Sensor.** `RecordedAnswers`, `BlockedStays`, `PolicyDecides`, `SkipIsTold`:
  `Inv` says what is owed at each place of the code (what the record covers, how
  a call to something blocked got there, which policies the verdict answers for,
  which faults are open, whether a skipped link still shows in the verdict),
  because none of the four holds at a place unless it is
  known how the call came to it. `Implements` is the refinement of `Boundary`:
  every step of the pipeline is a step of the promise or a stutter.
* **Delegation** (in `Messages_proofs`). `TiersTruthful`, `NotLaundered`,
  `NeverLoosens`: chain and tiers are parallel, agree hop by hop and name every
  agent of the lineage; and a thread that has just read a call holds what
  `extract_context` makes of its headers less the lost ones. The lattice lemmas on `Max` carry the ceiling.
* **Telemetry.** `Once`: queue, batches, drainers' hands and settled events are
  disjoint and make up the accepted ones; a thread between batches holds nothing.
  `ReportsAll`: `Drains` follows a drain from its stop to its return, as long as
  no other drain and no other worker is about, running or about to be started.
* **ValueOrigin** (in `Authorization_proofs`). `TrustIsRooted`,
  `VerdictsEarned`: `Sound` says of one ledger that each entry has a root and that
  the ledger is complete unless it says it is full, and each unit written keeps it (the units of one text are a set here,
  written one after another in any order). `AuthorityIsPerRequest`: an
  explicit ledger is shared within one request only, and an implicit one is never
  written for a principal once bound.
* **A2A** (in `Messages_proofs`). `IssuedKnown` rests on `TrackerInv`: what a
  store holds was issued with the expiry it has, and an id issued and missing
  from the store has expired or has as many rivals as the store has places. The
  step is the cap: what it drops is outranked by `MaxSize` entries that expire no
  sooner, and those are the rivals. `ReadToTheEnd` rests on `WalkInv`: what was
  seen is listed or on the stack, and what is below the listed objects was seen,
  unless a bound was reported. At the end the stack is empty, so what was listed
  is closed under the edges and holds the root, hence holds the unbounded
  closure, by induction on its layers. The theorem assumes
  `OneKind`: an object is read as one kind wherever it is found. JSON bodies are
  trees, which satisfies it; a graph in which two fields show an object as a
  message and as a container would be checked as the first only. TLC evaluates
  the assumption on the run's bodies, the one that contains itself included.
  `WithinBounds` is the module's type invariant: a walk holds at most `MaxNodes`
  objects, each once (`OnceInv`: nothing is listed or stacked twice), and a store
  at most `MaxSize` ids.
* **Decision** with Commands, Impact, Policy and Detection (in
  `Authorization_proofs`). `SofteningIsBounded`: `ScanInv` says after each stage of
  `LocalScanner.scan` what the score still owes to what was found; the caps apply
  only where nothing is forced. `DecisionsAsWritten`: the matcher agrees with the
  written constraints for a document that was accepted, because acceptance
  excludes every form in which the matcher and a reader differ; the first rule at
  which evaluation stops either holds or asks for a trust that is no number. `PolicyKept` adds
  that each rule can fire, assuming `Varied` (TLC evaluates it on the run's
  documents). `NothingUnread`: the positions kept are the first `MaxSegments` of
  those read, so one that is read and not kept degrades the last that is; and of
  the written pieces that are not even read and not excepted take the first: there
  is no blank piece before it in its text, or before what holds it, so every piece
  in front of it was read, so either they fill the cap or the payload that holds it is past the
  depth, and both degrade. What is
  found in any segment is outranked by the best; and a clause built one term at a
  time keeps `ClauseInv`, which compares the recogniser's state with the rows.
  That the spellings of one address agree (`SpellingsAgree`) is about constants and
  no step: powers, a fold over the parts and bits, for which the provers have no
  axioms. The theorem assumes it and TLC computes it.
  `InspectionRaises`: the tier of a call grows with each of five numbers, one per
  reader (`Raised`), and a piece added to the call changes one of them, upwards;
  values nested too deep stay so (`DeepStays`), and their tier with them.
* **Agents.** `HaltedStaysOut`, `EveryCallSettled`, `EndsAreHonest`: per place of
  the loop, what the last message is, how the steps stand, which refused texts may
  still be there and which calls are open. "Settled" is about the whole
  conversation: the LangChain loop looks for waiting calls in all of it, so a turn
  alone is not inductive. `WordsAreOwn` is about each thread of a crew alone.
* **Binding.** `TypeCorrect`, `ManifestsAccount`, `NothingWrappedTwice` and the
  action property `UndoingIsExact`. A site may get back, from whoever saved it,
  any chain it ever had, so the invariant is about all chains there are: those on
  the sites, those third parties saved, the originals and wrappers the manifests
  recorded, the one deepagents holds, the halves of a tool. In each of
  them every layer occurs once and was put there by a manifest that still lists
  the site or a third party that patched it (`Placed`), and two of our wrappers
  have an opaque layer between them. Then a wrapper that is the current value is
  outermost and the only one of its manifest, so putting the original back takes
  nothing else away. `UndoingIsExact` needs no assumption on third parties.
  `ManifestsAccount` needs `Thread`: what `protect()` has patched so far lies behind
  it in `TARGETS`, and no two steps patch the same attribute (`OneStepEach`, from
  the registry itself).

Only model-checked, and why:

* liveness (`Recovers`, `Settles`, `EveryCallAnswered`, `EveryWalkEnds`): fairness
  and ENABLED are out of the prover's reach;
* that the documents and requests of a deployment satisfy `Varied`, that bodies
  satisfy `OneKind`, and that the spellings of an address agree: hypotheses of the
  theorems above, evaluated on the instances;
* inside what is proved, the values of operators defined by a fold (the band a
  tool scan earns, say) are used only through their range.

The two properties the code violates (`RemovalTightens` and
`SkippedWereScanned`) have no theorem, of course.

## Not modelled

* The resource-bound, privilege-action and repetition detectors, and the rules,
  patterns and model weights of the scanner: functions of a text, whose
  correctness is a matter of corpora. What they find is a choice.
* Text normalisation and canonical forms, trace ids, the event schema, and the
  spelling of URLs, mailboxes and IPv6 addresses: data no step here depends on.
* Reporters (I/O behind one `report()` step); of the adapters, the serialisation
  of the Haystack hooks, the per-task guardrail and the routing of messages that
  look like A2A.
* Reading the YAML file and the compiled forms' caches; the asynchronous twins of
  the boundaries, whose bodies are the synchronous ones; `scan_tool_result`,
  which is a text scan in another direction; a telemetry queue's finalizer run
  by the garbage collector, which needs a queue nobody references.
* Inside the parts that are: `stamp()`'s own handler (`run_tree.py:491-499`, status
  `fault`); the time that `record_issued` reads before it takes the lock
  (`scanner/a2a_structural.py:602`); the before-hook of CrewAI that fails open
  (`integrations/crewai.py:101`), so `HaltedGoesNowhere` is about hooks that do not fail;
  the categories of the output rules, which are one here, so that the boost for
  two of them (`scanner/l1.py:527-529`) seldom comes to an output; and what the tokens of
  the pieces behind a splitter's cap change in the first of them (`Glued`).
* Two threads inside `protect()` at once: it takes no lock and the documentation
  has it called once at start-up.

## Plan

1. Done: all modules above, `Boundary` and its refinement, and the theorems of
   eight modules.
2. Every invariant and action property of the passing runs is a theorem. What is
   left is beyond the modules: the asynchronous twins, and the detectors that
   are functions of a text.
