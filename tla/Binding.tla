-------------------------------- MODULE Binding --------------------------------
(***************************************************************************)
(* How a sensor gets onto a call path: xaidr.protect() and unprotect()     *)
(* (xaidr/autopatch), which wrap attributes of the frameworks a process    *)
(* has imported, and sensor.protect_tools(), which wraps a tool by hand.   *)
(*                                                                         *)
(* A patched attribute is a CHAIN: the sequence of the wrappers a call     *)
(* goes through, outermost first, with the original function under the     *)
(* last of them.  A Python function object is identified by its chain,     *)
(* because every layer is put on at most once.  Third parties wrap the     *)
(* same attributes (tracing, mock.patch): a wrapper made with              *)
(* functools.wraps copies the __dict__ of what it wraps, xaidr's own       *)
(* markers included, and is transparent; the others are opaque.            *)
(*                                                                         *)
(* protect() and unprotect() are set-up calls of one host thread; imports, *)
(* third-party patches and tool calls happen between their steps.          *)
(***************************************************************************)
EXTENDS Naturals, Sequences, FiniteSets, SequencesExt

CONSTANTS
    Manifests,    \* one per call of protect(), taken in any order
    Sensors,
    Others,       \* third-party patches, each applied at most once
    Reach,        \* sites third parties patch
    Wraps,        \* those of them made with functools.wraps
    Missing,      \* sites that do not exist on the installed versions
    Inherited,    \* sites the class inherits and does not define itself
    Imports,      \* frameworks this process ever imports
    Late,         \* those the process imports after its start, if at all
    MaxCalls,     \* bound: tool calls nested in one another
    MaxOps,       \* bound: third-party patches, protect_tools() and calls, in all
    NONE          \* no value

ASSUME WrapsAssumption == Wraps \subseteq Others
ASSUME BoundsAssumption == MaxCalls \in Nat /\ MaxOps \in Nat

Halves == {"func", "coroutine"}

(* What each framework's patcher does, in its order.  "install" lets         *)
(* PatchUnavailable abandon the framework, "try" records it and goes on,     *)
(* "hook" registers with the framework's own registry, "report" declares a   *)
(* boundary that has no seam, and "probe" looks at a reference the framework *)
(* already holds.                                                            *)
Step(f, kind, at) == [framework |-> f, kind |-> kind, at |-> at]

HttpxSteps ==
    << Step("httpx", "install", "httpx.Client.send"),
       Step("httpx", "try", "httpx.AsyncClient.send") >>
RequestsSteps == << Step("requests", "install", "requests.Session.send") >>
CoreSteps ==
    << Step("langchain_core", "install", "BaseTool.run"),
       Step("langchain_core", "try", "BaseTool.arun") >>
LangchainSteps == << Step("langchain", "install", "create_agent") >>
RunTreeSteps ==
    << Step("langchain-run-tree", "install", "CallbackManager.configure"),
       Step("langchain-run-tree", "try", "AsyncCallbackManager.configure"),
       Step("langchain-run-tree", "hook", "xaidr.run_tree") >>
LanggraphSteps == << Step("langgraph", "report", "StateGraph") >>
DeepagentsSteps == << Step("deepagents", "probe", "create_agent") >>
OpenaiSteps ==
    << Step("openai-agents", "try", "Runner.run"),
       Step("openai-agents", "try", "Runner.run_sync"),
       Step("openai-agents", "report", "FunctionTool.on_invoke_tool") >>
CrewaiSteps ==
    << Step("crewai", "hook", "register_before_tool_call_hook"),
       Step("crewai", "try", "Crew.kickoff"),
       Step("crewai", "try", "Crew.akickoff"),
       Step("crewai", "try", "Crew.kickoff_async") >>
AutogenCoreSteps == << Step("autogen-core", "install", "BaseTool.run_json") >>
AutogenLegacySteps ==
    << Step("autogen-legacy", "install", "execute_function"),
       Step("autogen-legacy", "try", "a_execute_function") >>
LlamaIndexSteps ==
    << Step("llama-index", "try", "FunctionTool.call"),
       Step("llama-index", "try", "FunctionTool.acall"),
       Step("llama-index", "report", "QueryEngineTool"),
       Step("llama-index", "report", "codeact_agent") >>
McpSteps == << Step("mcp", "install", "ClientSession.call_tool") >>
HaystackSteps ==
    << Step("haystack", "install", "Agent.__init__"),
       Step("haystack", "report", "after_tool") >>

(* The registry protect() walks.                                             *)
TARGETS ==
    HttpxSteps \o RequestsSteps \o CoreSteps \o LangchainSteps \o RunTreeSteps
    \o LanggraphSteps \o DeepagentsSteps \o OpenaiSteps \o CrewaiSteps
    \o AutogenCoreSteps \o AutogenLegacySteps \o LlamaIndexSteps \o McpSteps
    \o HaystackSteps
(* The frameworks outside Imports are never in sys.modules: present() passes *)
(* them by, and so do the steps of the model.                                *)
Imported(i) == TARGETS[i].framework \in Imports
Sites == {TARGETS[i].at : i \in {j \in DOMAIN TARGETS :
                            Imported(j) /\ TARGETS[j].kind \in {"install", "try", "probe"}}}

ASSUME ImportsAssumption ==
    /\ {"langchain_core", "langchain", "deepagents"} \subseteq Imports
    /\ Late \subseteq Imports /\ "deepagents" \in Late
ASSUME SitesAssumption == Missing \union Inherited \subseteq Sites /\ Reach \subseteq Sites \ Missing

VARIABLES
    loaded,       \* frameworks in sys.modules
    slot,         \* slot[s]: the chain in vars(owner)[attr], or NONE when inherited
    held,         \* the create_agent deepagents bound with `from ... import`
    manifest,     \* manifest[m]: what one protect() recorded
    active,       \* _ACTIVE: manifests, oldest first
    hooked,       \* _INSTALLED_REGISTRY_HOOKS
    pc,           \* the protect() in progress: its manifest and next step
    undoing,      \* the manifests an unprotect() of all has still to revert
    saved,        \* saved[o]: where a third party patched and what it will put back
    half,         \* half[h]: the chain of one half of a tool the host protects
    agent,        \* the sensor of the middleware in the agent the host built
    stack,        \* the tool calls under way, outermost first
    ops           \* the bounded steps taken so far

hostVars == <<saved, half, agent, stack, ops>>
bindVars == <<loaded, slot, held, manifest, active, hooked, pc, undoing>>
vars == <<loaded, slot, held, manifest, active, hooked, pc, undoing, saved, half, agent,
          stack, ops>>

(* The host thread is in no protect() and in no unprotect().                 *)
Free == pc = NONE /\ undoing = <<>>

-----------------------------------------------------------------------------
(* Chains *)

Layer == [kind : {"xaidr"}, who : Manifests \union {"protect_tools"}, sensor : Sensors]
         \union [kind : {"other"}, who : Others, sensor : {NONE}]
Ours(who, sensor) == [kind |-> "xaidr", who |-> who, sensor |-> sensor]
Theirs(o) == [kind |-> "other", who |-> o, sensor |-> NONE]

ASSUME NoneAssumption ==
    NONE \notin Sensors \union Sites \union Seq(Layer) \union [m : Manifests, next : Nat]

Layers(chain) == IF chain = NONE THEN {} ELSE Range(chain)
OursIn(chain) == {l \in Layers(chain) : l.kind = "xaidr"}

(* getattr(owner, attr): an inherited site resolves to the base's function. *)
Resolved(s) == IF slot[s] = NONE THEN <<>> ELSE slot[s]

(* What a marker lookup sees: attributes show through a functools.wraps     *)
(* wrapper and stop at an opaque one.                                       *)
Opaque(l) == l.kind = "other" /\ l.who \notin Wraps
Visible(chain) ==
    LET stops == {i \in DOMAIN chain : Opaque(chain[i])}
    IN  {chain[i] : i \in {j \in DOMAIN chain :
                             (\A k \in stops : j < k) /\ chain[j].kind = "xaidr"}}

IsWrapper(chain) == Visible(chain) # {}
WrappedOutermost(chain, sensor) == chain # <<>> /\ chain[1].sensor = sensor
WrappedBySelf(chain, sensor) == \E l \in Visible(chain) : l.sensor = sensor

-----------------------------------------------------------------------------
(* protect(): one step of TARGETS at a time *)

Blank == [state |-> "new", sensor |-> NONE, sites |-> <<>>, teardown |-> {},
          patched |-> {}, already |-> {}, unpatchable |-> {}, absent |-> {},
          stranded |-> {}]

FirstOf(i) == i > 1 => TARGETS[i - 1].framework # TARGETS[i].framework
Soonest(steps) ==
    IF steps = {} THEN Len(TARGETS) + 1 ELSE CHOOSE i \in steps : \A j \in steps : i <= j
Ahead(i) == {j \in DOMAIN TARGETS : j > i /\ Imported(j)}
AfterStep(i) == Soonest(Ahead(i))
AfterFramework(i) == Soonest({j \in Ahead(i) : FirstOf(j)})

Protect(m, sensor) ==
    /\ Free /\ manifest[m].state = "new"
    /\ manifest' = [manifest EXCEPT ![m] = [Blank EXCEPT !.state = "applying", !.sensor = sensor]]
    /\ pc' = [m |-> m, next |-> AfterStep(0)]
    /\ UNCHANGED <<loaded, slot, held, active, hooked, undoing, hostVars>>

At(kinds) ==
    /\ pc # NONE /\ pc.next <= Len(TARGETS)
    /\ TARGETS[pc.next].kind \in kinds
    /\ FirstOf(pc.next) => TARGETS[pc.next].framework \in loaded

(* _dispatch: present() is asked once, before the framework's first step. *)
NotPresent ==
    /\ pc # NONE /\ pc.next <= Len(TARGETS)
    /\ FirstOf(pc.next) /\ TARGETS[pc.next].framework \notin loaded
    /\ manifest' = [manifest EXCEPT ![pc.m].absent = @ \union {TARGETS[pc.next].framework}]
    /\ pc' = [pc EXCEPT !.next = AfterFramework(@)]
    /\ UNCHANGED <<loaded, slot, held, active, hooked, undoing, hostVars>>

Unavailable(s) == s \in Missing

InstallFails ==
    /\ At({"install", "try"})
    /\ LET step == TARGETS[pc.next] IN
         /\ Unavailable(step.at)
         /\ manifest' = [manifest EXCEPT ![pc.m].unpatchable = @ \union
                            {IF step.kind = "try" THEN step.at ELSE step.framework}]
         /\ pc' = [pc EXCEPT !.next = IF step.kind = "try" THEN AfterStep(@) ELSE AfterFramework(@)]
    /\ UNCHANGED <<loaded, slot, held, active, hooked, undoing, hostVars>>

AlreadyPatched ==
    /\ At({"install", "try"})
    /\ LET s == TARGETS[pc.next].at IN
         /\ ~ Unavailable(s) /\ IsWrapper(Resolved(s))
         /\ manifest' = [manifest EXCEPT ![pc.m].already = @ \union {s}]
    /\ pc' = [pc EXCEPT !.next = AfterStep(@)]
    /\ UNCHANGED <<loaded, slot, held, active, hooked, undoing, hostVars>>

Install ==
    /\ At({"install", "try"})
    /\ LET s == TARGETS[pc.next].at
           installed == <<Ours(pc.m, manifest[pc.m].sensor)>> \o Resolved(s)
       IN  /\ ~ Unavailable(s) /\ ~ IsWrapper(Resolved(s))
           /\ slot' = [slot EXCEPT ![s] = installed]
           /\ manifest' = [manifest EXCEPT
                ![pc.m].sites = Append(@, [at |-> s, original |-> Resolved(s),
                                           installed |-> installed, had_own |-> slot[s] # NONE]),
                ![pc.m].patched = @ \union {s}]
    /\ pc' = [pc EXCEPT !.next = AfterStep(@)]
    /\ UNCHANGED <<loaded, held, active, hooked, undoing, hostVars>>

(* install_registry_hook: one process-wide entry per target; the framework *)
(* may also refuse the registration.                                       *)
InstallHook ==
    /\ At({"hook"})
    /\ LET hook == TARGETS[pc.next].at IN
       \/ /\ hook \in hooked /\ UNCHANGED hooked
          /\ manifest' = [manifest EXCEPT ![pc.m].already = @ \union {hook}]
       \/ /\ hook \notin hooked /\ hooked' = hooked \union {hook}
          /\ manifest' = [manifest EXCEPT ![pc.m].patched = @ \union {hook},
                                          ![pc.m].teardown = @ \union {hook}]
       \/ /\ hook \notin hooked /\ UNCHANGED hooked
          /\ manifest' = [manifest EXCEPT ![pc.m].unpatchable = @ \union {hook}]
    /\ pc' = [pc EXCEPT !.next = AfterStep(@)]
    /\ UNCHANGED <<loaded, slot, held, active, undoing, hostVars>>

ReportUnpatchable ==
    /\ At({"report"})
    /\ manifest' = [manifest EXCEPT ![pc.m].unpatchable = @ \union {TARGETS[pc.next].at}]
    /\ pc' = [pc EXCEPT !.next = AfterStep(@)]
    /\ UNCHANGED <<loaded, slot, held, active, hooked, undoing, hostVars>>

(* _patch_deepagents: a stale reference cannot be patched, only reported. *)
Covered(chain) == chain # NONE /\ IsWrapper(chain)
ProbeDeepagents ==
    /\ At({"probe"})
    /\ manifest' = IF Covered(held) THEN manifest
                   ELSE [manifest EXCEPT ![pc.m].unpatchable = @ \union {"deepagents"}]
    /\ pc' = [pc EXCEPT !.next = AfterStep(@)]
    /\ UNCHANGED <<loaded, slot, held, active, hooked, undoing, hostVars>>

KeepsInert ==
    /\ pc # NONE /\ pc.next > Len(TARGETS)
    /\ manifest' = [manifest EXCEPT ![pc.m].state = "active"]
    /\ active' = IF manifest[pc.m].sites # <<>> THEN Append(active, pc.m) ELSE active
    /\ pc' = NONE
    /\ UNCHANGED <<loaded, slot, held, hooked, undoing, hostVars>>
Protected ==
    /\ pc # NONE /\ pc.next > Len(TARGETS)
    /\ LET keeps == manifest[pc.m].sites # <<>> \/ manifest[pc.m].teardown # {} IN
         /\ manifest' = [manifest EXCEPT ![pc.m].state = IF keeps THEN "active" ELSE "inert"]
         /\ active' = IF keeps THEN Append(active, pc.m) ELSE active
    /\ pc' = NONE
    /\ UNCHANGED <<loaded, slot, held, hooked, undoing, hostVars>>

-----------------------------------------------------------------------------
(* unprotect() *)

(* A site is put back only when its current value is the very wrapper this *)
(* manifest installed.                                                     *)
RestorableAlways(site, current) == site.at \in Sites
Restorable(site, current) == current = site.installed
OriginalSetBack(site) == site.original
Original(site) == IF site.had_own THEN site.original ELSE NONE

Reverted(m, current) ==
    [s \in Sites |->
        IF \E site \in Range(manifest[m].sites) : site.at = s /\ Restorable(site, current[s])
        THEN Original(CHOOSE site \in Range(manifest[m].sites) : site.at = s)
        ELSE current[s]]
Stranded(m, current) ==
    {site.at : site \in {x \in Range(manifest[m].sites) : ~ Restorable(x, current[x.at])}}

Undo(m) ==
    /\ slot' = Reverted(m, slot)
    /\ hooked' = hooked \ manifest[m].teardown
    /\ manifest' = [manifest EXCEPT ![m].state = "reverted", ![m].sites = <<>>,
                                    ![m].teardown = {}, ![m].stranded = Stranded(m, slot)]
    /\ UNCHANGED <<loaded, held, pc, hostVars>>

(* _ACTIVE.remove *)
Without(m) == RemoveAt(active, CHOOSE i \in DOMAIN active : active[i] = m)
Unprotect(m) ==
    /\ Free /\ manifest[m].state = "active"
    /\ Undo(m)
    /\ active' = Without(m)
    /\ UNCHANGED undoing

(* unprotect() with no argument: every active manifest, newest first; _ACTIVE *)
(* is cleared when all are done.                                              *)
UnprotectAll ==
    /\ Free /\ active # <<>>
    /\ undoing' = Reverse(active)
    /\ UNCHANGED <<loaded, slot, held, manifest, active, hooked, pc, hostVars>>
UnprotectNext ==
    /\ undoing # <<>>
    /\ Undo(Head(undoing))
    /\ undoing' = Tail(undoing)
    /\ active' = IF undoing' = <<>> THEN <<>> ELSE active

-----------------------------------------------------------------------------
(* The host and the third parties *)

Counted == ops < MaxOps /\ ops' = ops + 1

(* deepagents imports langchain and binds what create_agent is right now. *)
Load(f) ==
    /\ f \notin loaded
    /\ loaded' = loaded \union {f} \union (IF f = "deepagents" THEN {"langchain"} ELSE {})
    /\ held' = IF f = "deepagents" THEN Resolved("create_agent") ELSE held
    /\ UNCHANGED <<slot, manifest, active, hooked, pc, undoing, hostVars>>

OtherPatches(o, s) ==
    /\ Counted
    /\ saved[o].state = "ready" /\ s \in Reach
    /\ saved' = [saved EXCEPT ![o] = [state |-> "on", at |-> s, was |-> slot[s]]]
    /\ slot' = [slot EXCEPT ![s] = <<Theirs(o)>> \o Resolved(s)]
    /\ UNCHANGED <<loaded, held, manifest, active, hooked, pc, undoing, half, agent, stack>>

(* mock.patch puts back what it saved, whatever is there by now. *)
OtherLeaves(o) ==
    /\ Counted
    /\ saved[o].state = "on"
    /\ slot' = [slot EXCEPT ![saved[o].at] = saved[o].was]
    /\ saved' = [saved EXCEPT ![o].state = "gone"]
    /\ UNCHANGED <<loaded, held, manifest, active, hooked, pc, undoing, half, agent, stack>>

-----------------------------------------------------------------------------
(* protect_tools() and the calls *)

(* protect_half leaves a half this sensor is already in; a tool whose halves *)
(* all are comes back unchanged.                                             *)
ProtectHalf(chain, sensor) ==
    IF WrappedBySelf(chain, sensor) THEN chain ELSE <<Ours("protect_tools", sensor)>> \o chain

AllHeld(sensor) == \A h \in Halves : WrappedBySelf(half[h], sensor)
ProtectTools(sensor) ==
    /\ Counted
    /\ Free
    /\ ~ AllHeld(sensor)
    /\ half' = [h \in Halves |-> ProtectHalf(half[h], sensor)]
    /\ UNCHANGED <<bindVars, saved, agent, stack>>

OtherDecorates(o, h) ==
    /\ Counted
    /\ saved[o].state = "ready"
    /\ saved' = [saved EXCEPT ![o].state = "gone"]
    /\ half' = [half EXCEPT ![h] = <<Theirs(o)>> \o @]
    /\ UNCHANGED <<bindVars, agent, stack>>

(* create_agent(): the outermost wrapper adds its middleware and the ones  *)
(* under it find an xaidr middleware already there.                        *)
Injected(chain) ==
    LET ours == {i \in DOMAIN chain : chain[i].kind = "xaidr"}
    IN  IF ours = {} THEN NONE ELSE chain[CHOOSE i \in ours : \A j \in ours : i <= j].sensor

BuildAgent(chain) ==
    /\ Counted
    /\ Free /\ stack = <<>> /\ agent = NONE
    /\ agent' = Injected(chain) /\ agent' # NONE
    /\ UNCHANGED <<bindVars, saved, half, stack>>

(* _MW_TOOL_SCANNED is set for as long as the middleware's handler runs. *)
Guarded == \E i \in DOMAIN stack : stack[i].from = "agent"

RunScans(chain) == IF Guarded THEN {} ELSE {l.sensor : l \in OursIn(chain)}

(* The agent calls a tool: the middleware scans it, then BaseTool.run runs *)
(* under the guard.  A tool body may also call another tool's run itself.  *)
CallFromAgent ==
    /\ Counted
    /\ agent # NONE /\ stack = <<>>
    /\ stack' = Append(stack, [from |-> "agent", patched |-> OursIn(Resolved("BaseTool.run")) # {},
                               scans |-> {agent}])
    /\ UNCHANGED <<bindVars, saved, half, agent>>

CallDirect ==
    /\ Counted
    /\ Len(stack) < MaxCalls
    /\ LET chain == Resolved("BaseTool.run") IN
         stack' = Append(stack, [from |-> "direct", patched |-> OursIn(chain) # {},
                                 scans |-> RunScans(chain)])
    /\ UNCHANGED <<bindVars, saved, half, agent>>

Return ==
    /\ stack # <<>> /\ UNCHANGED ops
    /\ stack' = SubSeq(stack, 1, Len(stack) - 1)
    /\ UNCHANGED <<bindVars, saved, half, agent>>

-----------------------------------------------------------------------------
Init ==
    /\ loaded = Imports \ Late
    /\ slot = [s \in Sites |-> IF s \in Inherited THEN NONE ELSE <<>>]
    /\ held = NONE
    /\ manifest = [m \in Manifests |-> Blank]
    /\ active = <<>> /\ hooked = {} /\ pc = NONE /\ undoing = <<>>
    /\ saved = [o \in Others |-> [state |-> "ready", at |-> NONE, was |-> NONE]]
    /\ half = [h \in Halves |-> <<>>]
    /\ agent = NONE /\ stack = <<>> /\ ops = 0

Next ==
    \/ \E m \in Manifests, s \in Sensors : Protect(m, s)
    \/ NotPresent \/ InstallFails \/ AlreadyPatched \/ Install
    \/ InstallHook \/ ReportUnpatchable \/ ProbeDeepagents \/ Protected
    \/ \E m \in Manifests : Unprotect(m)
    \/ UnprotectAll \/ UnprotectNext
    \/ \E f \in Late : Load(f)
    \/ \E o \in Others, s \in Sites : OtherPatches(o, s)
    \/ \E o \in Others : OtherLeaves(o)
    \/ \E s \in Sensors : ProtectTools(s)
    \/ \E o \in Others, h \in Halves : OtherDecorates(o, h)
    \/ BuildAgent(Resolved("create_agent"))
    \/ held # NONE /\ BuildAgent(held)
    \/ CallFromAgent \/ CallDirect \/ Return

Spec == Init /\ [][Next]_vars

-----------------------------------------------------------------------------
(* Properties *)

IsChain(chain) ==
    /\ chain \in Seq(Layer)
    /\ \A i, j \in DOMAIN chain : chain[i] = chain[j] /\ chain[i].who # "protect_tools" => i = j

\* The types of the state: a chain puts every layer on once, at most one
\* protect() is in progress, _ACTIVE lists exactly the manifests that have
\* something to undo, each once, until all are being undone, and the
\* process-wide hook entry stands for one registration that one of them will
\* take down.
TypeOK ==
    /\ loaded \subseteq Imports
    /\ \A s \in Sites : slot[s] # NONE => IsChain(slot[s])
    /\ held # NONE => IsChain(held)
    /\ \A h \in Halves : IsChain(half[h])
    /\ \A m \in Manifests :
         /\ (manifest[m].state = "applying") = (pc # NONE /\ pc.m = m)
         /\ (manifest[m].state = "active")
                = (m \in Range(IF undoing = <<>> THEN active ELSE undoing))
         /\ manifest[m].state = "active" => manifest[m].sites # <<>> \/ manifest[m].teardown # {}
    /\ IsInjective(active) /\ Range(undoing) \subseteq Range(active)
    /\ \A h \in hooked : Cardinality({m \in Manifests : h \in manifest[m].teardown}) = 1
    /\ \A m \in Manifests : manifest[m].teardown \subseteq hooked
    /\ agent \in Sensors \union {NONE}
    /\ \A i \in DOMAIN stack : stack[i].scans \subseteq Sensors

\* "Restores only a site whose current value is still the wrapper we put
\* there ... a security tool must not silently uninstall someone else's
\* instrumentation" (manifest.py): when manifests are reverted, no other
\* layer leaves any site, and a wrapper of theirs that stays is reported.
Reverting == {m \in Manifests : manifest[m].state = "active" /\ manifest'[m].state = "reverted"}
OfReverting(l) == l.kind = "xaidr" /\ l.who \in Reverting
UndoIsExact ==
    [][Reverting # {} =>
        \A s \in Sites :
          /\ {l \in Layers(slot[s]) : ~ OfReverting(l)} \subseteq Layers(slot'[s])
          /\ \A l \in Layers(slot'[s]) :
                OfReverting(l) => s \in manifest'[l.who].stranded]_vars

\* What the manifests say is what the process does.  At a site no third party
\* ever touched there is exactly the wrapper of the one manifest that lists
\* the site as patched and was not reverted since, or else the attribute as
\* the framework made it, whatever protect() and unprotect() came before; and
\* a finished manifest that found deepagents and did not call it unpatchable
\* leaves its agents behind an xaidr wrapper.
Touched(s) == \E o \in Others : saved[o].at = s
InForce(s) == {m \in Manifests : s \in manifest[m].patched
                                  /\ manifest[m].state \in {"applying", "active"}}
Accounted ==
    /\ \A s \in Sites : ~ Touched(s) =>
         \/ InForce(s) = {} /\ slot[s] = (IF s \in Inherited THEN NONE ELSE <<>>)
         \/ \E m \in Manifests : InForce(s) = {m} /\ slot[s] = <<Ours(m, manifest[m].sensor)>>
    /\ \A m \in Manifests :
         manifest[m].state \in {"active", "inert"}
           /\ "deepagents" \notin manifest[m].unpatchable \union manifest[m].absent
         => held # NONE /\ OursIn(held) # {}

\* "Idempotent: calling protect() twice does not double-wrap" (__init__.py) and
\* protect_tools "one scan per sensor for one action": one attribute never
\* carries two wrappers of protect(), and one half of a tool never two of the
\* same sensor, unless a third party hid the inner one from view.
Hidden(chain, i, j) == \E k \in DOMAIN chain : i < k /\ k < j /\ Opaque(chain[k])
WrappedOnce ==
    /\ \A s \in Sites : LET c == Resolved(s) IN
         \A i, j \in DOMAIN c :
           i < j /\ c[i].kind = "xaidr" /\ c[j].kind = "xaidr" => Hidden(c, i, j)
    /\ \A h \in Halves : LET c == half[h] IN
         \A i, j \in DOMAIN c :
           i < j /\ c[i].kind = "xaidr" /\ c[j].kind = "xaidr" /\ c[i].sensor = c[j].sensor
           => Hidden(c, i, j)

\* frameworks.py:328-330, on the call BaseTool.run does not scan: the
\* middleware above it "already scanned this exact call".  So a call that
\* goes through a patched BaseTool.run is scanned by someone.
SkippedWereScanned == \A i \in DOMAIN stack : stack[i].patched => stack[i].scans # {}
=============================================================================
