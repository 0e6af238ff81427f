----------------------------- MODULE Binding_proofs -----------------------------
(* Proofs about Binding: what the manifests say is what the process does, no   *)
(* attribute is wrapped twice, and undoing is exact, for any frameworks, any   *)
(* sites that are missing or inherited, any calls of protect() and unprotect() *)
(* and any third parties.                                                      *)
EXTENDS Binding, FiniteSetTheorems, WellFoundedInduction, TLAPS

-----------------------------------------------------------------------------
(* The inductive invariant *)

\* Whatever chain a site ever had, and may have again when somebody puts it
\* back: every layer is in it once, was put on that site by a manifest that
\* says so or by a third party that patched there, and two wrappers of
\* protect() have an opaque one between them. sv and mf are saved and manifest.
Placed(l, s, sv, mf) ==
    \/ /\ l.kind = "other" /\ l.who \in Others
       /\ sv[l.who].state # "ready" /\ sv[l.who].at = s
    \/ /\ l.kind = "xaidr" /\ l.who \in Manifests
       /\ l.sensor = mf[l.who].sensor
       /\ mf[l.who].state # "new" /\ s \in mf[l.who].patched
Separated(c) ==
    \A i, j \in DOMAIN c : i < j /\ c[i].kind = "xaidr" /\ c[j].kind = "xaidr" => Hidden(c, i, j)
SiteChain(c, s, sv, mf) ==
    /\ c \in Seq(Layer)
    /\ \A i, j \in DOMAIN c : c[i] = c[j] => i = j
    /\ \A i \in DOMAIN c : Placed(c[i], s, sv, mf)
    /\ Separated(c)
MaybeChain(c, s, sv, mf) == c = NONE \/ SiteChain(c, s, sv, mf)

\* What a manifest recorded of a site.
Recorded(r, m, sv, mf) ==
    /\ r.at \in Sites /\ r.had_own \in BOOLEAN
    /\ r.installed = <<Ours(m, mf[m].sensor)>> \o r.original
    /\ SiteChain(r.original, r.at, sv, mf)
    /\ SiteChain(r.installed, r.at, sv, mf)
    /\ ~ r.had_own => r.original = <<>>
    /\ (\A o \in Others : sv[o].at # r.at) =>
           r.original = <<>> /\ (r.had_own <=> r.at \notin Inherited)
Lists(m, s, mf) == \E r \in Range(mf[m].sites) : r.at = s

Fields == {"state", "sensor", "sites", "teardown", "patched", "already", "unpatchable",
           "absent", "stranded"}
States == {"new", "applying", "active", "inert", "reverted"}
InPlay == {"applying", "active"}
DeepagentsAt == 11

Calls == [from : {"agent", "direct"}, patched : BOOLEAN, scans : SUBSET Sensors]

Types ==
    /\ loaded \subseteq Imports
    /\ DOMAIN slot = Sites /\ DOMAIN manifest = Manifests /\ DOMAIN half = Halves
    /\ DOMAIN saved = Others
    /\ active \in Seq(Manifests) /\ undoing \in Seq(Manifests)
    /\ agent \in Sensors \union {NONE}
    /\ ops \in Nat
    /\ stack \in Seq(Calls)

ManifestType(r) ==
    /\ DOMAIN r = Fields
    /\ r.state \in States
    /\ r.state = "new" => r = Blank
    /\ r.state # "new" => r.sensor \in Sensors
    /\ DOMAIN r.sites = 1..Len(r.sites) /\ Len(r.sites) \in Nat
    /\ r.state \notin InPlay => r.sites = <<>> /\ r.teardown = {}
    /\ r.state = "active" => r.sites # <<>> \/ r.teardown # {}
    /\ \A x, y \in Range(r.sites) : x.at = y.at => x = y
    /\ r.state \in InPlay => \A s \in Sites : s \in r.patched => \E x \in Range(r.sites) : x.at = s
    /\ \A x \in Range(r.sites) : x.at \in r.patched
ManifestsTyped == \A m \in Manifests : ManifestType(manifest[m])

SavedType(o, sv) ==
    /\ DOMAIN sv[o] = {"state", "at", "was"}
    /\ sv[o].state \in {"ready", "on", "gone"}
    /\ sv[o].state = "ready" => sv[o].at = NONE
    /\ sv[o].state = "on" => sv[o].at \in Sites
SavesTyped == \A o \in Others : SavedType(o, saved)

Slots == \A s \in Sites : MaybeChain(slot[s], s, saved, manifest)
Saves == \A o \in Others :
    saved[o].state = "on" => MaybeChain(saved[o].was, saved[o].at, saved, manifest)
Records == \A m \in Manifests : \A r \in Range(manifest[m].sites) :
    Recorded(r, m, saved, manifest)
Held ==
    /\ MaybeChain(held, "create_agent", saved, manifest)
    /\ held # NONE => "deepagents" \in loaded

\* The chains of a tool's halves.
HalfChain(c, sv) ==
    /\ c \in Seq(Layer)
    /\ \A i \in DOMAIN c : IF c[i].kind = "xaidr" THEN c[i].who = "protect_tools"
                           ELSE sv[c[i].who].state # "ready"
    /\ \A i, j \in DOMAIN c : c[i] = c[j] /\ c[i].kind = "other" => i = j
    /\ \A i, j \in DOMAIN c :
           i < j /\ c[i].kind = "xaidr" /\ c[j].kind = "xaidr" /\ c[i].sensor = c[j].sensor
           => Hidden(c, i, j)
HalfChains == \A h \in Halves : HalfChain(half[h], saved)

\* The steps of the host thread: what it has patched so far lies behind it.
Thread ==
    /\ pc = NONE \/ undoing = <<>>
    /\ pc # NONE =>
         /\ pc.m \in Manifests /\ DOMAIN pc = {"m", "next"}
         /\ pc.next \in 1..(Len(TARGETS) + 1)
         /\ pc.next <= Len(TARGETS) => Imported(pc.next)
         /\ \A s \in manifest[pc.m].patched : \E i \in DOMAIN TARGETS :
               i < pc.next /\ TARGETS[i].kind \in {"install", "try", "hook"} /\ TARGETS[i].at = s
    /\ \A m \in Manifests :
         /\ manifest[m].state = "applying" <=> pc # NONE /\ pc.m = m
         /\ manifest[m].state = "active" <=>
               m \in Range(IF undoing = <<>> THEN active ELSE undoing)
    /\ IsInjective(active) /\ IsInjective(undoing)
    /\ Range(undoing) \subseteq Range(active)

Hooks ==
    /\ \A m \in Manifests : manifest[m].teardown \subseteq hooked
    /\ \A h \in hooked : \E m \in Manifests : h \in manifest[m].teardown
    /\ \A m, n \in Manifests : manifest[m].teardown \cap manifest[n].teardown # {} => m = n

\* deepagents was asked about, and what was found still holds.
Faced(m) == \/ "deepagents" \in manifest[m].unpatchable \union manifest[m].absent
            \/ held # NONE /\ OursIn(held) # {}
Deepagents ==
    /\ \A m \in Manifests : manifest[m].state \in {"active", "inert"} => Faced(m)
    /\ pc # NONE /\ pc.next > DeepagentsAt => Faced(pc.m)

\* Sites no third party touched.
Clean(s) ==
    \/ InForce(s) = {} /\ slot[s] = (IF s \in Inherited THEN NONE ELSE <<>>)
    \/ \E m \in Manifests : InForce(s) = {m} /\ slot[s] = <<Ours(m, manifest[m].sensor)>>
Untouched == \A s \in Sites : ~ Touched(s) => Clean(s)

Chains == Slots /\ Saves /\ Records /\ Held
IInv == /\ Types /\ ManifestsTyped /\ SavesTyped /\ Chains /\ HalfChains /\ Thread /\ Hooks
        /\ Deepagents /\ Untouched

-----------------------------------------------------------------------------
(* The registry *)

\* How long TARGETS is, and what its steps are.
LEMMA TargetsLength == Len(TARGETS) = 28 /\ DOMAIN TARGETS = 1..28
BY DEF TARGETS, HttpxSteps, RequestsSteps, CoreSteps, LangchainSteps, RunTreeSteps, LanggraphSteps,
       DeepagentsSteps, OpenaiSteps, CrewaiSteps, AutogenCoreSteps, AutogenLegacySteps,
       LlamaIndexSteps, McpSteps, HaystackSteps

LEMMA TargetsSteps ==
    /\ TARGETS[1] = Step("httpx", "install", "httpx.Client.send")
    /\ TARGETS[2] = Step("httpx", "try", "httpx.AsyncClient.send")
    /\ TARGETS[3] = Step("requests", "install", "requests.Session.send")
    /\ TARGETS[4] = Step("langchain_core", "install", "BaseTool.run")
    /\ TARGETS[5] = Step("langchain_core", "try", "BaseTool.arun")
    /\ TARGETS[6] = Step("langchain", "install", "create_agent")
    /\ TARGETS[7] = Step("langchain-run-tree", "install", "CallbackManager.configure")
    /\ TARGETS[8] = Step("langchain-run-tree", "try", "AsyncCallbackManager.configure")
    /\ TARGETS[9] = Step("langchain-run-tree", "hook", "xaidr.run_tree")
    /\ TARGETS[10] = Step("langgraph", "report", "StateGraph")
    /\ TARGETS[11] = Step("deepagents", "probe", "create_agent")
    /\ TARGETS[12] = Step("openai-agents", "try", "Runner.run")
    /\ TARGETS[13] = Step("openai-agents", "try", "Runner.run_sync")
    /\ TARGETS[14] = Step("openai-agents", "report", "FunctionTool.on_invoke_tool")
    /\ TARGETS[15] = Step("crewai", "hook", "register_before_tool_call_hook")
    /\ TARGETS[16] = Step("crewai", "try", "Crew.kickoff")
    /\ TARGETS[17] = Step("crewai", "try", "Crew.akickoff")
    /\ TARGETS[18] = Step("crewai", "try", "Crew.kickoff_async")
    /\ TARGETS[19] = Step("autogen-core", "install", "BaseTool.run_json")
    /\ TARGETS[20] = Step("autogen-legacy", "install", "execute_function")
    /\ TARGETS[21] = Step("autogen-legacy", "try", "a_execute_function")
    /\ TARGETS[22] = Step("llama-index", "try", "FunctionTool.call")
    /\ TARGETS[23] = Step("llama-index", "try", "FunctionTool.acall")
    /\ TARGETS[24] = Step("llama-index", "report", "QueryEngineTool")
    /\ TARGETS[25] = Step("llama-index", "report", "codeact_agent")
    /\ TARGETS[26] = Step("mcp", "install", "ClientSession.call_tool")
    /\ TARGETS[27] = Step("haystack", "install", "Agent.__init__")
    /\ TARGETS[28] = Step("haystack", "report", "after_tool")
BY DEF TARGETS, HttpxSteps, RequestsSteps, CoreSteps, LangchainSteps, RunTreeSteps, LanggraphSteps,
       DeepagentsSteps, OpenaiSteps, CrewaiSteps, AutogenCoreSteps, AutogenLegacySteps,
       LlamaIndexSteps, McpSteps, HaystackSteps

\* What a manifest can note as patched is noted by one step, hooks are no
\* sites, and one step, of a framework of its own, looks at deepagents.
Placing == {"install", "try", "hook"}
Seams == {"install", "try", "probe"}
RegistryHooks == {"xaidr.run_tree", "register_before_tool_call_hook"}

LEMMA OneStepEach ==
    \A i, j \in DOMAIN TARGETS :
        TARGETS[i].kind \in Placing /\ TARGETS[j].kind \in Placing
            /\ TARGETS[i].at = TARGETS[j].at => i = j
BY TargetsLength, TargetsSteps DEF Step, Placing

LEMMA HooksAreNoSites ==
    \A i \in DOMAIN TARGETS : TARGETS[i].kind = "hook" => TARGETS[i].at \notin Sites
<1>1. \A i \in DOMAIN TARGETS : TARGETS[i].kind = "hook" => TARGETS[i].at \in RegistryHooks
  BY TargetsLength, TargetsSteps DEF Step, RegistryHooks
<1>2. \A i \in DOMAIN TARGETS : TARGETS[i].kind \in Seams => TARGETS[i].at \notin RegistryHooks
  BY TargetsLength, TargetsSteps DEF Step, RegistryHooks, Seams
<1> QED
  BY <1>1, <1>2 DEF Sites, Seams

LEMMA DeepagentsStep ==
    /\ DeepagentsAt \in DOMAIN TARGETS
    /\ \A i \in DOMAIN TARGETS : TARGETS[i].framework = "deepagents" <=> i = DeepagentsAt
    /\ \A i \in DOMAIN TARGETS : TARGETS[i].kind = "probe" <=> i = DeepagentsAt
BY TargetsLength, TargetsSteps DEF Step, DeepagentsAt

LEMMA CreateAgentIsASite == "create_agent" \in Sites
<1>1. TARGETS[11].at = "create_agent" /\ TARGETS[11].kind = "probe" /\ Imported(11)
  BY TargetsSteps, ImportsAssumption DEF Step, Imported
<1>2. 11 \in DOMAIN TARGETS
  BY TargetsLength
<1> QED
  BY <1>1, <1>2 DEF Sites

\* The next step of the model is the least of those ahead.
LEMMA SoonestIsLeast ==
    ASSUME NEW steps \in SUBSET DOMAIN TARGETS
    PROVE  /\ steps = {} => Soonest(steps) = 29
           /\ steps # {} => /\ Soonest(steps) \in steps
                            /\ \A j \in steps : Soonest(steps) <= j
<1>1. ASSUME steps # {} PROVE \E i \in steps : \A j \in steps : i <= j
  <2>1. steps \subseteq Nat
    BY TargetsLength
  <2>2. PICK i \in steps : \A j \in steps : <<j, i>> \notin OpToRel(<, Nat)
    BY <1>1, <2>1, WFMin, NatLessThanWellFounded
  <2>3. ASSUME NEW j \in steps PROVE i <= j
    <3>1. i \in Nat /\ j \in Nat
      BY <2>1
    <3>2. j < i => <<j, i>> \in OpToRel(<, Nat)
      BY <3>1 DEF OpToRel
    <3>3. ~ (j < i)
      BY <2>2, <3>2
    <3> QED
      BY <3>1, <3>3
  <2> QED
    BY <2>3
<1> QED
  BY <1>1, TargetsLength DEF Soonest

LEMMA NextSteps ==
    ASSUME NEW i \in Nat
    PROVE  /\ AfterStep(i) \in 1..29 /\ AfterFramework(i) \in 1..29
           /\ i <= 28 => AfterStep(i) > i /\ AfterFramework(i) > i
           /\ AfterStep(i) <= 28 => Imported(AfterStep(i))
           /\ AfterFramework(i) <= 28 => Imported(AfterFramework(i))
           /\ i < DeepagentsAt => /\ AfterStep(i) <= DeepagentsAt
                                  /\ AfterFramework(i) <= DeepagentsAt
<1> DEFINE first == {j \in Ahead(i) : FirstOf(j)}
<1>1. /\ Ahead(i) \in SUBSET DOMAIN TARGETS /\ first \in SUBSET DOMAIN TARGETS
      /\ \A j \in Ahead(i) : j > i /\ Imported(j)
  BY DEF Ahead
<1>2. ASSUME i < DeepagentsAt PROVE DeepagentsAt \in first
  <2>1. FirstOf(DeepagentsAt) /\ Imported(DeepagentsAt)
    BY TargetsSteps, ImportsAssumption DEF FirstOf, DeepagentsAt, Step, Imported
  <2> QED
    BY <1>2, <2>1, DeepagentsStep DEF Ahead, DeepagentsAt
<1>3. /\ Ahead(i) = {} => AfterStep(i) = 29
      /\ Ahead(i) # {} => AfterStep(i) \in Ahead(i) /\ \A j \in Ahead(i) : AfterStep(i) <= j
  BY <1>1, SoonestIsLeast DEF AfterStep
<1>4. /\ first = {} => AfterFramework(i) = 29
      /\ first # {} => AfterFramework(i) \in first /\ \A j \in first : AfterFramework(i) <= j
  BY <1>1, SoonestIsLeast DEF AfterFramework
<1>5. first \subseteq Ahead(i)
  OBVIOUS
<1> HIDE DEF first
<1>6. /\ AfterStep(i) \in 1..29 /\ (i <= 28 => AfterStep(i) > i)
      /\ (AfterStep(i) <= 28 => Imported(AfterStep(i)))
  BY <1>1, <1>3, TargetsLength
<1>7. /\ AfterFramework(i) \in 1..29 /\ (i <= 28 => AfterFramework(i) > i)
      /\ (AfterFramework(i) <= 28 => Imported(AfterFramework(i)))
  BY <1>1, <1>4, <1>5, TargetsLength
<1>8. i < DeepagentsAt => AfterStep(i) <= DeepagentsAt /\ AfterFramework(i) <= DeepagentsAt
  BY <1>2, <1>3, <1>4, <1>5
<1> QED
  BY <1>6, <1>7, <1>8

-----------------------------------------------------------------------------
(* Chains *)

\* Third parties and manifests only ever add to what vouches for a layer.
Grown(sv, mf, sv2, mf2) ==
    /\ \A o \in Others : sv[o].state # "ready" =>
           sv2[o].state # "ready" /\ sv2[o].at = sv[o].at
    /\ \A m \in Manifests : mf[m].state # "new" =>
           /\ mf2[m].state # "new" /\ mf2[m].sensor = mf[m].sensor
           /\ mf[m].patched \subseteq mf2[m].patched

LEMMA ChainGrows ==
    ASSUME NEW c, NEW s, NEW sv, NEW mf, NEW sv2, NEW mf2,
           SiteChain(c, s, sv, mf), Grown(sv, mf, sv2, mf2)
    PROVE  SiteChain(c, s, sv2, mf2)
<1>1. ASSUME NEW i \in DOMAIN c PROVE Placed(c[i], s, sv2, mf2)
  <2>1. Placed(c[i], s, sv, mf)
    BY DEF SiteChain
  <2> QED
    BY <2>1 DEF Placed, Grown
<1> QED
  BY <1>1 DEF SiteChain

LEMMA MaybeGrows ==
    ASSUME NEW c, NEW s, NEW sv, NEW mf, NEW sv2, NEW mf2,
           MaybeChain(c, s, sv, mf), Grown(sv, mf, sv2, mf2)
    PROVE  MaybeChain(c, s, sv2, mf2)
BY ChainGrows DEF MaybeChain

LEMMA RecordedGrows ==
    ASSUME NEW r, NEW m \in Manifests, NEW sv, NEW mf, NEW sv2, NEW mf2,
           Recorded(r, m, sv, mf), Grown(sv, mf, sv2, mf2),
           mf[m].state # "new", \A o \in Others : SavedType(o, sv)
    PROVE  Recorded(r, m, sv2, mf2)
<1>1. /\ SiteChain(r.original, r.at, sv2, mf2)
      /\ SiteChain(r.installed, r.at, sv2, mf2)
  BY ChainGrows DEF Recorded
<1>2. mf2[m].sensor = mf[m].sensor
  BY DEF Grown
<1>3. ASSUME \A o \in Others : sv2[o].at # r.at, NEW o \in Others PROVE sv[o].at # r.at
  BY <1>3, NoneAssumption DEF Grown, SavedType, Recorded
<1> QED
  BY <1>1, <1>2, <1>3 DEF Recorded

\* The bare function is a chain, and what one more layer leaves one.
LEMMA BareChain ==
    ASSUME NEW s, NEW sv, NEW mf
    PROVE  SiteChain(<<>>, s, sv, mf)
<1>1. <<>> \in Seq(Layer) /\ DOMAIN <<>> = {}
  OBVIOUS
<1> QED
  BY <1>1 DEF SiteChain, Separated

LEMMA Pushed ==
    ASSUME NEW S, NEW l \in S, NEW c \in Seq(S)
    PROVE  /\ <<l>> \o c \in Seq(S) /\ DOMAIN (<<l>> \o c) = 1..(Len(c) + 1)
           /\ Len(c) \in Nat /\ DOMAIN c = 1..Len(c)
           /\ (<<l>> \o c)[1] = l
           /\ \A i \in DOMAIN (<<l>> \o c) :
                  i # 1 => i - 1 \in DOMAIN c /\ (<<l>> \o c)[i] = c[i - 1]
           /\ \A i \in DOMAIN c : i + 1 \in DOMAIN (<<l>> \o c) /\ (<<l>> \o c)[i + 1] = c[i]
<1>1. <<l>> \o c \in Seq(S) /\ DOMAIN (<<l>> \o c) = 1..(Len(c) + 1)
  OBVIOUS
<1>2. Len(c) \in Nat /\ DOMAIN c = 1..Len(c) /\ (<<l>> \o c)[1] = l
  OBVIOUS
<1>3. ASSUME NEW i \in DOMAIN (<<l>> \o c), i # 1
      PROVE  i - 1 \in DOMAIN c /\ (<<l>> \o c)[i] = c[i - 1]
  BY <1>1, <1>2, <1>3
<1>4. ASSUME NEW i \in DOMAIN c
      PROVE  i + 1 \in DOMAIN (<<l>> \o c) /\ (<<l>> \o c)[i + 1] = c[i]
  BY <1>1, <1>2
<1>5. \A i \in DOMAIN (<<l>> \o c) : i # 1 => i - 1 \in DOMAIN c /\ (<<l>> \o c)[i] = c[i - 1]
  BY <1>3
<1> QED
  BY <1>1, <1>2, <1>4, <1>5

LEMMA HiddenBelow ==
    ASSUME NEW S, NEW l \in S, NEW c \in Seq(S), NEW i \in DOMAIN c, NEW j \in DOMAIN c,
           Hidden(c, i, j)
    PROVE  Hidden(<<l>> \o c, i + 1, j + 1)
<1>1. PICK k \in DOMAIN c : i < k /\ k < j /\ Opaque(c[k])
  BY DEF Hidden
<1>2. k + 1 \in DOMAIN (<<l>> \o c) /\ (<<l>> \o c)[k + 1] = c[k] /\ i + 1 < k + 1 /\ k + 1 < j + 1
  BY <1>1, Pushed
<1> QED
  BY <1>1, <1>2 DEF Hidden

\* A wrapper that cannot be seen is behind an opaque layer, also for who looks
\* through one layer more.
LEMMA UnseenIsHidden ==
    ASSUME NEW S, NEW l \in S, NEW c \in Seq(S), NEW j \in DOMAIN c,
           c[j].kind = "xaidr", c[j] \notin Visible(c)
    PROVE  Hidden(<<l>> \o c, 1, j + 1)
<1>1. PICK k \in DOMAIN c : Opaque(c[k]) /\ ~ (j < k)
  BY DEF Visible
<1>2. k # j
  BY <1>1 DEF Opaque
<1>3. k \in Nat /\ j \in Nat /\ k < j /\ 1 < k + 1 /\ k + 1 < j + 1
  BY <1>1, <1>2
<1>4. k + 1 \in DOMAIN (<<l>> \o c) /\ (<<l>> \o c)[k + 1] = c[k]
  BY Pushed
<1> QED
  BY <1>1, <1>3, <1>4 DEF Hidden

LEMMA WrappedChain ==
    ASSUME NEW c, NEW s, NEW sv, NEW mf, NEW l \in Layer,
           SiteChain(c, s, sv, mf), Placed(l, s, sv, mf), \A i \in DOMAIN c : c[i] # l,
           l.kind = "xaidr" => ~ IsWrapper(c)
    PROVE  SiteChain(<<l>> \o c, s, sv, mf)
<1> PICK d : d = <<l>> \o c
  OBVIOUS
<1>0. c \in Seq(Layer)
  BY DEF SiteChain
<1>1. /\ d \in Seq(Layer) /\ DOMAIN d = 1..(Len(c) + 1) /\ Len(c) \in Nat
      /\ DOMAIN c = 1..Len(c) /\ d[1] = l
      /\ \A i \in DOMAIN d : i # 1 => i - 1 \in DOMAIN c /\ d[i] = c[i - 1]
  BY <1>0, Pushed
<1>2. ASSUME NEW i \in DOMAIN d, NEW j \in DOMAIN d, d[i] = d[j] PROVE i = j
  <2>1. \A a, b \in DOMAIN c : c[a] = c[b] => a = b
    BY DEF SiteChain
  <2>2. CASE i = 1 /\ j # 1
    BY <1>1, <1>2, <2>2
  <2>3. CASE i # 1 /\ j = 1
    BY <1>1, <1>2, <2>3
  <2>4. CASE i # 1 /\ j # 1
    BY <1>1, <1>2, <2>1, <2>4
  <2> QED
    BY <2>2, <2>3, <2>4
<1>3. ASSUME NEW i \in DOMAIN d PROVE Placed(d[i], s, sv, mf)
  <2>1. \A a \in DOMAIN c : Placed(c[a], s, sv, mf)
    BY DEF SiteChain
  <2> QED
    BY <1>1, <2>1
<1>4. ASSUME NEW i \in DOMAIN d, NEW j \in DOMAIN d, i < j,
             d[i].kind = "xaidr", d[j].kind = "xaidr"
      PROVE  Hidden(d, i, j)
  <2>1. j # 1 /\ j - 1 \in DOMAIN c /\ d[j] = c[j - 1] /\ (j - 1) + 1 = j
    BY <1>1, <1>4
  <2>2. CASE i = 1
    <3>1. c[j - 1] \notin Visible(c)
      BY <1>1, <1>4, <2>2 DEF IsWrapper
    <3> QED
      BY <1>0, <1>4, <2>1, <2>2, <3>1, UnseenIsHidden
  <2>3. CASE i # 1
    <3>1. i - 1 \in DOMAIN c /\ d[i] = c[i - 1] /\ (i - 1) + 1 = i /\ i - 1 < j - 1
      BY <1>1, <1>4, <2>3
    <3>2. Hidden(c, i - 1, j - 1)
      BY <1>4, <2>1, <3>1 DEF SiteChain, Separated
    <3> QED
      BY <1>0, <2>1, <3>1, <3>2, HiddenBelow
  <2> QED
    BY <2>2, <2>3
<1> QED
  BY <1>1, <1>2, <1>3, <1>4 DEF SiteChain, Separated

-----------------------------------------------------------------------------
(* Steps of protect() that only take note *)

SameButNotes(r, r2) ==
    /\ DOMAIN r2 = DOMAIN r
    /\ r2.state = r.state /\ r2.sensor = r.sensor /\ r2.sites = r.sites
    /\ r2.teardown = r.teardown /\ r2.patched = r.patched
    /\ r.unpatchable \subseteq r2.unpatchable /\ r.absent \subseteq r2.absent

GoesOn ==
    /\ pc # NONE /\ pc' # NONE /\ pc'.m = pc.m /\ DOMAIN pc' = {"m", "next"}
    /\ pc'.next \in 1..(Len(TARGETS) + 1) /\ pc'.next > pc.next
    /\ pc'.next <= Len(TARGETS) => Imported(pc'.next)
    /\ pc.next <= DeepagentsAt /\ pc'.next > DeepagentsAt => Faced(pc.m)'

TakesNote ==
    /\ GoesOn
    /\ DOMAIN manifest' = Manifests
    /\ SameButNotes(manifest[pc.m], manifest'[pc.m])
    /\ \A m \in Manifests \ {pc.m} : manifest'[m] = manifest[m]
    /\ UNCHANGED <<loaded, slot, held, active, hooked, undoing, hostVars>>

\* The step a protect() goes on from is before, at or past the probe.
LEMMA NextStep ==
    ASSUME IInv, GoesOn
    PROVE  pc.next > DeepagentsAt \/ pc.next <= DeepagentsAt
<1>1. pc.next \in 1..(Len(TARGETS) + 1)
  BY DEF IInv, Thread, GoesOn
<1>2. pc.next \in Nat
  BY <1>1, TargetsLength
<1> QED
  BY <1>2 DEF DeepagentsAt

LEMMA NotesKeep == IInv /\ TakesNote => IInv'
<1> SUFFICES ASSUME IInv, TakesNote PROVE IInv'
  OBVIOUS
<1>1. /\ pc.m \in Manifests /\ manifest[pc.m].state = "applying"
      /\ \A m \in Manifests : SameButNotes(manifest[m], manifest'[m])
      /\ \A m \in Manifests : m # pc.m => manifest'[m] = manifest[m]
  BY DEF IInv, Thread, TakesNote, GoesOn, SameButNotes
<1>2. Types'
  BY DEF IInv, Types, TakesNote, hostVars
<1>3. ManifestsTyped'
  <2> SUFFICES ASSUME NEW m \in Manifests PROVE ManifestType(manifest'[m])
    BY DEF ManifestsTyped
  <2>1. ManifestType(manifest[m])
    BY DEF IInv, ManifestsTyped
  <2>2. CASE m # pc.m
    BY <1>1, <2>1, <2>2
  <2>3. CASE m = pc.m
    <3>1. manifest[m].state = "applying" /\ SameButNotes(manifest[m], manifest'[m])
      BY <1>1, <2>3
    <3> QED
      BY <2>1, <3>1 DEF ManifestType, SameButNotes
  <2> QED
    BY <2>2, <2>3
<1>4. SavesTyped' /\ HalfChains'
  BY DEF IInv, TakesNote, hostVars, SavesTyped, HalfChains
<1>5. Grown(saved, manifest, saved', manifest')
  BY <1>1 DEF Grown, SameButNotes, TakesNote, hostVars
<1>6. Slots' /\ Saves' /\ Held'
  BY <1>5, MaybeGrows DEF IInv, Chains, Slots, Saves, Held, TakesNote, hostVars
<1>7. Records'
  <2> SUFFICES ASSUME NEW m \in Manifests, NEW r \in Range(manifest'[m].sites)
               PROVE  Recorded(r, m, saved', manifest')
    BY DEF Records
  <2>1. r \in Range(manifest[m].sites)
    BY <1>1 DEF SameButNotes
  <2>2. manifest[m].state # "new"
    BY <2>1 DEF IInv, ManifestsTyped, ManifestType, InPlay, Range
  <2> QED
    BY <1>5, <2>1, <2>2, RecordedGrows DEF IInv, Chains, Records, SavesTyped
<1>8. Thread'
  <2>1. \A m \in Manifests : manifest'[m].state = manifest[m].state
    BY <1>1 DEF SameButNotes
  <2>2. manifest'[pc.m].patched = manifest[pc.m].patched
    BY <1>1 DEF SameButNotes
  <2>3. /\ pc'.m = pc.m /\ pc' # NONE /\ pc # NONE
        /\ pc.next \in Nat /\ pc'.next \in Nat /\ pc.next < pc'.next
    <3>1. pc # NONE /\ pc' # NONE /\ pc'.m = pc.m /\ pc'.next > pc.next
      BY DEF TakesNote, GoesOn
    <3>2. pc.next \in 1..29 /\ pc'.next \in 1..29
      BY <3>1, TargetsLength DEF IInv, Thread, TakesNote, GoesOn
    <3> QED
      BY <3>1, <3>2
  <2>4. ASSUME NEW s \in manifest'[pc'.m].patched
        PROVE  \E i \in DOMAIN TARGETS :
                   i < pc'.next /\ TARGETS[i].kind \in {"install", "try", "hook"} /\ TARGETS[i].at = s
    <3>1. PICK i \in DOMAIN TARGETS :
              i < pc.next /\ TARGETS[i].kind \in {"install", "try", "hook"} /\ TARGETS[i].at = s
      BY <2>2, <2>3 DEF IInv, Thread
    <3>2. i < pc'.next
      BY <2>3, <3>1, TargetsLength
    <3> QED
      BY <3>1, <3>2
  <2>5. undoing' = undoing /\ active' = active
    BY DEF TakesNote
  <2>6. \A m \in Manifests :
           /\ manifest'[m].state = "applying" <=> pc' # NONE /\ pc'.m = m
           /\ manifest'[m].state = "active" <=>
                 m \in Range(IF undoing' = <<>> THEN active' ELSE undoing')
    BY <2>1, <2>3, <2>5 DEF IInv, Thread
  <2> QED
    BY <1>1, <2>3, <2>4, <2>5, <2>6 DEF IInv, Thread, TakesNote, GoesOn
<1>9. Hooks'
  BY <1>1 DEF IInv, Hooks, TakesNote, SameButNotes
<1>10. Deepagents'
  <2>1. ASSUME NEW m \in Manifests, Faced(m) PROVE Faced(m)'
    BY <1>1, <2>1 DEF Faced, SameButNotes, TakesNote
  <2>2. ASSUME NEW m \in Manifests, manifest'[m].state \in {"active", "inert"} PROVE Faced(m)'
    BY <1>1, <2>1, <2>2 DEF IInv, Deepagents, SameButNotes
  <2>3. ASSUME pc'.next > DeepagentsAt PROVE Faced(pc.m)'
    <3>1. pc.next > DeepagentsAt \/ pc.next <= DeepagentsAt
      BY NextStep DEF TakesNote
    <3> QED
      BY <1>1, <2>1, <2>3, <3>1 DEF IInv, Deepagents, TakesNote, GoesOn
  <2>4. pc'.m = pc.m
    BY DEF TakesNote, GoesOn
  <2> QED
    BY <2>2, <2>3, <2>4 DEF Deepagents, Faced
<1>11. Untouched'
  <2> SUFFICES ASSUME NEW s \in Sites, ~ Touched(s)' PROVE Clean(s)'
    BY DEF Untouched
  <2>1. Clean(s)
    BY DEF IInv, Untouched, Touched, TakesNote, hostVars
  <2>2. InForce(s)' = InForce(s)
    BY <1>1 DEF InForce, SameButNotes
  <2>3. slot' = slot /\ \A m \in Manifests : manifest'[m].sensor = manifest[m].sensor
    BY <1>1 DEF TakesNote, SameButNotes
  <2> QED
    BY <2>1, <2>2, <2>3 DEF Clean
<1> QED
  BY <1>2, <1>3, <1>4, <1>6, <1>7, <1>8, <1>9, <1>10, <1>11 DEF IInv, Chains

Jumps ==
    \/ pc' = [pc EXCEPT !.next = AfterStep(@)]
    \/ pc' = [pc EXCEPT !.next = AfterFramework(@)]

LEMMA SkipsTo ==
    ASSUME IInv, pc # NONE, pc.next <= Len(TARGETS), Jumps,
           pc.next = DeepagentsAt => Faced(pc.m)'
    PROVE  GoesOn
<1>1. DOMAIN pc = {"m", "next"} /\ pc.m \in Manifests /\ pc.next \in 1..28
  BY TargetsLength DEF IInv, Thread
<1>a. PICK i : i = pc.next
  OBVIOUS
<1>b. i \in 1..28
  BY <1>1, <1>a
<1>c. i \in Nat /\ 1 <= i /\ i <= 28
  BY <1>b
<1>2. i \in Nat /\ 1 <= i /\ i <= 28 /\ i = pc.next
  BY <1>a, <1>c
<1>3. /\ pc'.next = AfterStep(i) \/ pc'.next = AfterFramework(i)
      /\ pc'.m = pc.m /\ DOMAIN pc' = {"m", "next"}
  BY <1>1, <1>2 DEF Jumps
<1>4. /\ AfterStep(i) \in 1..29 /\ AfterFramework(i) \in 1..29
      /\ AfterStep(i) > i /\ AfterFramework(i) > i
      /\ AfterStep(i) <= 28 => Imported(AfterStep(i))
      /\ AfterFramework(i) <= 28 => Imported(AfterFramework(i))
      /\ i < DeepagentsAt => AfterStep(i) <= DeepagentsAt /\ AfterFramework(i) <= DeepagentsAt
  BY <1>2, NextSteps
<1>5. pc'.next \in 1..29 /\ pc'.next > pc.next /\ (pc'.next <= 28 => Imported(pc'.next))
  BY <1>2, <1>3, <1>4
<1>6. ASSUME pc'.next > DeepagentsAt, pc.next <= DeepagentsAt PROVE pc.next = DeepagentsAt
  <2>0. PICK n : n = pc'.next
    OBVIOUS
  <2>1. n \in 1..29 /\ n = pc'.next
    BY <1>5, <2>0
  <2>2. ~ (n <= DeepagentsAt) /\ i <= DeepagentsAt /\ (n = AfterStep(i) \/ n = AfterFramework(i))
    BY <1>2, <1>3, <1>6, <2>1 DEF DeepagentsAt
  <2>3. ~ (i < DeepagentsAt)
    BY <1>4, <2>2
  <2> QED
    BY <1>2, <2>2, <2>3 DEF DeepagentsAt
<1>7. pc' # NONE
  <2>1. pc' = [m |-> pc.m, next |-> pc'.next]
    BY <1>1, <1>3 DEF Jumps
  <2>a. PICK n : n = pc'.next
    OBVIOUS
  <2>b. n \in 1..29
    BY <1>5, <2>a
  <2>c. n \in Nat
    BY <2>b
  <2>2. pc' \in [m : Manifests, next : Nat]
    BY <1>1, <2>1, <2>a, <2>c
  <2> QED
    BY <2>2, NoneAssumption
<1> QED
  BY <1>3, <1>5, <1>6, <1>7, TargetsLength DEF GoesOn

\* One more entry in one list of notes.
LEMMA OneNote ==
    ASSUME IInv, pc # NONE, NEW x,
           \/ manifest' = [manifest EXCEPT ![pc.m].absent = @ \union {x}]
           \/ manifest' = [manifest EXCEPT ![pc.m].unpatchable = @ \union {x}]
           \/ manifest' = [manifest EXCEPT ![pc.m].already = @ \union {x}]
           \/ manifest' = manifest
    PROVE  /\ DOMAIN manifest' = Manifests
           /\ SameButNotes(manifest[pc.m], manifest'[pc.m])
           /\ \A m \in Manifests \ {pc.m} : manifest'[m] = manifest[m]
<1>1. DOMAIN manifest = Manifests /\ pc.m \in Manifests /\ DOMAIN manifest[pc.m] = Fields
  BY DEF IInv, Types, Thread, ManifestsTyped, ManifestType
<1>2. CASE manifest' = [manifest EXCEPT ![pc.m].absent = @ \union {x}]
  BY <1>1, <1>2 DEF SameButNotes, Fields
<1>3. CASE manifest' = [manifest EXCEPT ![pc.m].unpatchable = @ \union {x}]
  BY <1>1, <1>3 DEF SameButNotes, Fields
<1>4. CASE manifest' = [manifest EXCEPT ![pc.m].already = @ \union {x}]
  BY <1>1, <1>4 DEF SameButNotes, Fields
<1>5. CASE manifest' = manifest
  BY <1>1, <1>5 DEF SameButNotes
<1> QED
  BY <1>2, <1>3, <1>4, <1>5

LEMMA NotPresentKeeps == IInv /\ NotPresent => IInv'
<1> SUFFICES ASSUME IInv, NotPresent PROVE TakesNote
  BY NotesKeep
<1>1. pc # NONE /\ pc.next <= Len(TARGETS) /\ pc.next \in DOMAIN TARGETS /\ pc.m \in Manifests
  BY TargetsLength DEF NotPresent, IInv, Thread
<1>2. PICK x : x = TARGETS[pc.next].framework
  OBVIOUS
<1>3. manifest' = [manifest EXCEPT ![pc.m].absent = @ \union {x}]
  BY <1>2 DEF NotPresent
<1>4. /\ DOMAIN manifest' = Manifests
      /\ SameButNotes(manifest[pc.m], manifest'[pc.m])
      /\ \A m \in Manifests \ {pc.m} : manifest'[m] = manifest[m]
  BY <1>1, <1>3, OneNote
<1>5. pc' = [pc EXCEPT !.next = AfterFramework(@)]
  BY DEF NotPresent
<1>6. pc'.m = pc.m
  BY <1>5 DEF IInv, Thread, NotPresent
<1>7. ASSUME pc.next = DeepagentsAt PROVE Faced(pc.m)'
  <2>1. x = "deepagents"
    BY <1>1, <1>2, <1>7, DeepagentsStep
  <2>2. x \in manifest'[pc.m].absent
    BY <1>1, <1>3 DEF IInv, Types, ManifestsTyped, ManifestType, Fields
  <2> QED
    BY <1>6, <2>1, <2>2 DEF Faced
<1>8. GoesOn
  BY <1>1, <1>5, <1>7, SkipsTo DEF Jumps
<1> QED
  BY <1>4, <1>8 DEF TakesNote, NotPresent

\* A step that is not the probe is not the one that faces deepagents.
LEMMA NotAtDeepagents ==
    ASSUME IInv, NEW kinds, At(kinds), "probe" \notin kinds
    PROVE  /\ pc # NONE /\ pc.next <= Len(TARGETS) /\ pc.next \in DOMAIN TARGETS
           /\ pc.next # DeepagentsAt
<1>1. pc # NONE /\ pc.next <= Len(TARGETS) /\ pc.next \in DOMAIN TARGETS
  BY TargetsLength DEF At, IInv, Thread
<1> QED
  BY <1>1, DeepagentsStep DEF At

LEMMA InstallFailsKeeps == IInv /\ InstallFails => IInv'
<1> SUFFICES ASSUME IInv, InstallFails PROVE TakesNote
  BY NotesKeep
<1>1. pc # NONE /\ pc.next <= Len(TARGETS) /\ pc.next # DeepagentsAt
  BY NotAtDeepagents DEF InstallFails
<1>2. PICK x : manifest' = [manifest EXCEPT ![pc.m].unpatchable = @ \union {x}]
  BY DEF InstallFails
<1>3. /\ DOMAIN manifest' = Manifests
      /\ SameButNotes(manifest[pc.m], manifest'[pc.m])
      /\ \A m \in Manifests \ {pc.m} : manifest'[m] = manifest[m]
  BY <1>1, <1>2, OneNote
<1>4. pc' = [pc EXCEPT !.next = AfterStep(@)] \/ pc' = [pc EXCEPT !.next = AfterFramework(@)]
  BY DEF InstallFails
<1>5. GoesOn
  BY <1>1, <1>4, SkipsTo DEF Jumps
<1> QED
  BY <1>3, <1>5 DEF TakesNote, InstallFails

LEMMA AlreadyPatchedKeeps == IInv /\ AlreadyPatched => IInv'
<1> SUFFICES ASSUME IInv, AlreadyPatched PROVE TakesNote
  BY NotesKeep
<1>1. pc # NONE /\ pc.next <= Len(TARGETS) /\ pc.next # DeepagentsAt
  BY NotAtDeepagents DEF AlreadyPatched
<1>2. PICK x : manifest' = [manifest EXCEPT ![pc.m].already = @ \union {x}]
  BY DEF AlreadyPatched
<1>3. /\ DOMAIN manifest' = Manifests
      /\ SameButNotes(manifest[pc.m], manifest'[pc.m])
      /\ \A m \in Manifests \ {pc.m} : manifest'[m] = manifest[m]
  BY <1>1, <1>2, OneNote
<1>4. GoesOn
  BY <1>1, SkipsTo DEF Jumps, AlreadyPatched
<1> QED
  BY <1>3, <1>4 DEF TakesNote, AlreadyPatched

LEMMA ReportUnpatchableKeeps == IInv /\ ReportUnpatchable => IInv'
<1> SUFFICES ASSUME IInv, ReportUnpatchable PROVE TakesNote
  BY NotesKeep
<1>1. pc # NONE /\ pc.next <= Len(TARGETS) /\ pc.next # DeepagentsAt
  BY NotAtDeepagents DEF ReportUnpatchable
<1>2. PICK x : manifest' = [manifest EXCEPT ![pc.m].unpatchable = @ \union {x}]
  BY DEF ReportUnpatchable
<1>3. /\ DOMAIN manifest' = Manifests
      /\ SameButNotes(manifest[pc.m], manifest'[pc.m])
      /\ \A m \in Manifests \ {pc.m} : manifest'[m] = manifest[m]
  BY <1>1, <1>2, OneNote
<1>4. GoesOn
  BY <1>1, SkipsTo DEF Jumps, ReportUnpatchable
<1> QED
  BY <1>3, <1>4 DEF TakesNote, ReportUnpatchable

\* What deepagents holds can be seen to be wrapped, or the manifest says so.
LEMMA ProbeDeepagentsKeeps == IInv /\ ProbeDeepagents => IInv'
<1> SUFFICES ASSUME IInv, ProbeDeepagents PROVE TakesNote
  BY NotesKeep
<1>1. pc # NONE /\ pc.next <= Len(TARGETS) /\ pc.m \in Manifests
  BY DEF ProbeDeepagents, At, IInv, Thread
<1>2. PICK x : x = "deepagents"
  OBVIOUS
<1>3. \/ Covered(held) /\ manifest' = manifest
      \/ manifest' = [manifest EXCEPT ![pc.m].unpatchable = @ \union {x}]
  BY <1>2 DEF ProbeDeepagents
<1>4. /\ DOMAIN manifest' = Manifests
      /\ SameButNotes(manifest[pc.m], manifest'[pc.m])
      /\ \A m \in Manifests \ {pc.m} : manifest'[m] = manifest[m]
  BY <1>1, <1>3, OneNote
<1>5. pc' = [pc EXCEPT !.next = AfterStep(@)] /\ pc'.m = pc.m /\ held' = held
  BY DEF ProbeDeepagents, IInv, Thread, At
<1>6. Faced(pc.m)'
  <2>1. CASE Covered(held)
    <3>1. held # NONE /\ OursIn(held) # {}
      BY <2>1 DEF Covered, IsWrapper, Visible, OursIn, Layers, Range
    <3> QED
      BY <1>5, <3>1 DEF Faced
  <2>2. CASE manifest' = [manifest EXCEPT ![pc.m].unpatchable = @ \union {x}]
    <3>1. x \in manifest'[pc.m].unpatchable
      BY <1>1, <2>2 DEF IInv, Types, ManifestsTyped, ManifestType, Fields
    <3> QED
      BY <1>2, <1>5, <3>1 DEF Faced
  <2> QED
    BY <1>3, <2>1, <2>2
<1>7. GoesOn
  BY <1>1, <1>5, <1>6, SkipsTo DEF Jumps
<1> QED
  BY <1>4, <1>7 DEF TakesNote, ProbeDeepagents

-----------------------------------------------------------------------------
(* Steps of protect() that patch *)

\* The manifest that is being written.
LEMMA Writing ==
    ASSUME IInv, pc # NONE
    PROVE  /\ pc.m \in Manifests /\ manifest[pc.m].state = "applying"
           /\ ManifestType(manifest[pc.m]) /\ DOMAIN manifest = Manifests
           /\ undoing = <<>> /\ DOMAIN pc = {"m", "next"} /\ pc.next \in 1..29
BY TargetsLength DEF IInv, Thread, ManifestsTyped, Types

\* The parts of the invariant that follow from the chains having only grown
\* and the thread having gone on.
LEMMA GrownSaves ==
    ASSUME IInv, Grown(saved, manifest, saved', manifest'), saved' = saved
    PROVE  Saves' /\ SavesTyped'
BY MaybeGrows DEF IInv, Chains, Saves, SavesTyped

LEMMA GrownHeld ==
    ASSUME IInv, Grown(saved, manifest, saved', manifest'), held' = held, loaded' = loaded
    PROVE  Held'
BY MaybeGrows DEF IInv, Chains, Held

LEMMA ThreadGoesOn ==
    ASSUME IInv, GoesOn, undoing' = undoing, active' = active, NEW t,
           \A m \in Manifests : manifest'[m].state = manifest[m].state,
           manifest'[pc.m].patched = manifest[pc.m].patched \union {t},
           TARGETS[pc.next].at = t, TARGETS[pc.next].kind \in Placing, pc.next <= Len(TARGETS)
    PROVE  Thread'
<1>1. /\ pc # NONE /\ pc' # NONE /\ pc'.m = pc.m /\ pc.m \in Manifests
      /\ pc.next \in Nat /\ pc'.next \in Nat /\ pc.next < pc'.next
      /\ pc.next \in DOMAIN TARGETS
  <2>1. pc # NONE /\ pc' # NONE /\ pc'.m = pc.m /\ pc'.next > pc.next
    BY DEF GoesOn
  <2>2. pc.next \in 1..29 /\ pc'.next \in 1..29 /\ pc.m \in Manifests
    BY <2>1, TargetsLength DEF IInv, Thread, GoesOn
  <2>3. pc.next \in DOMAIN TARGETS
    BY <2>2, TargetsLength
  <2>4. PICK i, n : i = pc.next /\ n = pc'.next
    OBVIOUS
  <2>5. i \in 1..29 /\ n \in 1..29 /\ n > i
    BY <2>1, <2>2, <2>4
  <2>6. i \in Nat /\ n \in Nat /\ i < n
    BY <2>5
  <2> QED
    BY <2>1, <2>2, <2>3, <2>4, <2>6
<1>2. ASSUME NEW s \in manifest'[pc'.m].patched
      PROVE  \E i \in DOMAIN TARGETS :
                 i < pc'.next /\ TARGETS[i].kind \in {"install", "try", "hook"} /\ TARGETS[i].at = s
  <2>1. CASE s \in manifest[pc.m].patched
    <3>1. PICK i \in DOMAIN TARGETS :
              i < pc.next /\ TARGETS[i].kind \in {"install", "try", "hook"} /\ TARGETS[i].at = s
      BY <1>1, <2>1 DEF IInv, Thread
    <3>2. i < pc'.next
      BY <1>1, <3>1, TargetsLength
    <3> QED
      BY <3>1, <3>2
  <2>2. CASE s = t
    BY <1>1, <2>2 DEF Placing
  <2> QED
    BY <1>1, <2>1, <2>2
<1>3. \A m \in Manifests :
         /\ manifest'[m].state = "applying" <=> pc' # NONE /\ pc'.m = m
         /\ manifest'[m].state = "active" <=>
               m \in Range(IF undoing' = <<>> THEN active' ELSE undoing')
  BY <1>1 DEF IInv, Thread
<1> QED
  BY <1>1, <1>2, <1>3 DEF IInv, Thread, GoesOn

LEMMA DeepagentsGoesOn ==
    ASSUME IInv, GoesOn, held' = held, pc.next # DeepagentsAt,
           \A m \in Manifests : /\ manifest'[m].state = manifest[m].state
                                /\ manifest'[m].unpatchable = manifest[m].unpatchable
                                /\ manifest'[m].absent = manifest[m].absent
    PROVE  Deepagents'
<1>1. pc # NONE /\ pc' # NONE /\ pc'.m = pc.m /\ pc.m \in Manifests
  BY DEF GoesOn, IInv, Thread
<1>2. ASSUME NEW m \in Manifests, Faced(m) PROVE Faced(m)'
  BY <1>2 DEF Faced
<1>3. ASSUME NEW m \in Manifests, manifest'[m].state \in {"active", "inert"} PROVE Faced(m)'
  BY <1>2, <1>3 DEF IInv, Deepagents
<1>4. ASSUME pc'.next > DeepagentsAt PROVE Faced(pc.m)'
  <2>1. pc.next > DeepagentsAt \/ pc.next <= DeepagentsAt
    BY NextStep
  <2> QED
    BY <1>1, <1>2, <1>4, <2>1 DEF IInv, Deepagents, GoesOn
<1> QED
  BY <1>1, <1>3, <1>4 DEF Deepagents, Faced

\* A hook is registered once in the process, by the manifest that takes it down.
RegistersHook(h) ==
    /\ h \notin hooked /\ hooked' = hooked \union {h}
    /\ manifest' = [manifest EXCEPT ![pc.m].patched = @ \union {h},
                                    ![pc.m].teardown = @ \union {h}]

LEMMA RegisteredHook ==
    ASSUME IInv, At({"hook"}), NEW h, h = TARGETS[pc.next].at, RegistersHook(h),
           pc' = [pc EXCEPT !.next = AfterStep(@)],
           UNCHANGED <<loaded, slot, held, active, undoing, hostVars>>
    PROVE  IInv'
<1>1. /\ pc # NONE /\ pc.next <= Len(TARGETS) /\ pc.next \in DOMAIN TARGETS
      /\ pc.next # DeepagentsAt /\ TARGETS[pc.next].kind = "hook"
  BY NotAtDeepagents DEF At
<1>2. /\ pc.m \in Manifests /\ manifest[pc.m].state = "applying"
      /\ ManifestType(manifest[pc.m]) /\ DOMAIN manifest = Manifests
  BY <1>1, Writing
<1>3. /\ DOMAIN manifest' = Manifests
      /\ \A m \in Manifests \ {pc.m} : manifest'[m] = manifest[m]
      /\ manifest'[pc.m] = [manifest[pc.m] EXCEPT !.patched = @ \union {h},
                                                  !.teardown = @ \union {h}]
  BY <1>2 DEF RegistersHook
<1>4. /\ manifest'[pc.m].patched = manifest[pc.m].patched \union {h}
      /\ manifest'[pc.m].teardown = manifest[pc.m].teardown \union {h}
      /\ \A m \in Manifests : /\ manifest'[m].state = manifest[m].state
                              /\ manifest'[m].sensor = manifest[m].sensor
                              /\ manifest'[m].sites = manifest[m].sites
                              /\ manifest'[m].unpatchable = manifest[m].unpatchable
                              /\ manifest'[m].absent = manifest[m].absent
                              /\ DOMAIN manifest'[m] = DOMAIN manifest[m]
  <2>1. DOMAIN manifest[pc.m] = Fields
    BY <1>2 DEF ManifestType
  <2>2. /\ manifest'[pc.m].patched = manifest[pc.m].patched \union {h}
        /\ manifest'[pc.m].teardown = manifest[pc.m].teardown \union {h}
    BY <1>3, <2>1 DEF Fields
  <2>3. /\ manifest'[pc.m].state = manifest[pc.m].state
        /\ manifest'[pc.m].sensor = manifest[pc.m].sensor
        /\ manifest'[pc.m].sites = manifest[pc.m].sites
        /\ manifest'[pc.m].unpatchable = manifest[pc.m].unpatchable
        /\ manifest'[pc.m].absent = manifest[pc.m].absent
        /\ DOMAIN manifest'[pc.m] = DOMAIN manifest[pc.m]
    BY <1>3, <2>1
  <2> QED
    BY <1>3, <2>2, <2>3
<1>5. h \notin Sites
  BY <1>1, HooksAreNoSites
<1>6. GoesOn
  BY <1>1, SkipsTo DEF Jumps
<1>7. Grown(saved, manifest, saved', manifest')
  BY <1>3, <1>4 DEF Grown, hostVars
<1>8. Types'
  BY <1>3 DEF IInv, Types, hostVars
<1>9. ManifestsTyped'
  <2> SUFFICES ASSUME NEW m \in Manifests PROVE ManifestType(manifest'[m])
    BY DEF ManifestsTyped
  <2>1. ManifestType(manifest[m])
    BY DEF IInv, ManifestsTyped
  <2>2. CASE m # pc.m
    BY <1>3, <2>1, <2>2
  <2>3. CASE m = pc.m
    BY <1>2, <1>4, <1>5, <2>1, <2>3 DEF ManifestType, InPlay, States
  <2> QED
    BY <2>2, <2>3
<1>10. SavesTyped' /\ Saves' /\ Held' /\ HalfChains'
  BY <1>7, GrownSaves, GrownHeld DEF IInv, HalfChains, hostVars
<1>11. Slots'
  BY <1>7, MaybeGrows DEF IInv, Chains, Slots, hostVars
<1>12. Records'
  <2> SUFFICES ASSUME NEW m \in Manifests, NEW r \in Range(manifest'[m].sites)
               PROVE  Recorded(r, m, saved', manifest')
    BY DEF Records
  <2>1. r \in Range(manifest[m].sites)
    BY <1>4
  <2>2. manifest[m].state # "new"
    BY <2>1 DEF IInv, ManifestsTyped, ManifestType, InPlay, Range
  <2> QED
    BY <1>7, <2>1, <2>2, RecordedGrows DEF IInv, Chains, Records, SavesTyped
<1>13. Thread'
  BY <1>1, <1>4, <1>6, ThreadGoesOn DEF Placing
<1>14. Hooks'
  <2>1. hooked' = hooked \union {h} /\ h \notin hooked
    BY DEF RegistersHook
  <2>2. \A m \in Manifests : h \notin manifest[m].teardown
    BY <2>1 DEF IInv, Hooks
  <2>3. \A m \in Manifests : m # pc.m => manifest'[m].teardown = manifest[m].teardown
    BY <1>3
  <2>4. \A m \in Manifests : manifest'[m].teardown \subseteq hooked'
    BY <1>4, <2>1, <2>3 DEF IInv, Hooks
  <2>5. \A g \in hooked' : \E m \in Manifests : g \in manifest'[m].teardown
    BY <1>2, <1>4, <2>1, <2>3 DEF IInv, Hooks
  <2>6. \A m, n \in Manifests : manifest'[m].teardown \cap manifest'[n].teardown # {} => m = n
    BY <1>4, <2>2, <2>3 DEF IInv, Hooks
  <2> QED
    BY <2>4, <2>5, <2>6 DEF Hooks
<1>15. Deepagents'
  BY <1>1, <1>4, <1>6, DeepagentsGoesOn
<1>16. Untouched'
  <2> SUFFICES ASSUME NEW s \in Sites, ~ Touched(s)' PROVE Clean(s)'
    BY DEF Untouched
  <2>1. Clean(s)
    BY DEF IInv, Untouched, Touched, hostVars
  <2>2. InForce(s)' = InForce(s)
    BY <1>3, <1>4, <1>5 DEF InForce
  <2> QED
    BY <1>4, <2>1, <2>2 DEF Clean
<1> QED
  BY <1>8, <1>9, <1>10, <1>11, <1>12, <1>13, <1>14, <1>15, <1>16 DEF IInv, Chains

LEMMA InstallHookKeeps == IInv /\ InstallHook => IInv'
<1> SUFFICES ASSUME IInv, InstallHook PROVE IInv'
  OBVIOUS
<1>1. /\ pc # NONE /\ pc.next <= Len(TARGETS) /\ pc.next # DeepagentsAt
  BY NotAtDeepagents DEF InstallHook
<1>2. PICK h : h = TARGETS[pc.next].at
  OBVIOUS
<1>3. \/ RegistersHook(h)
      \/ /\ hooked' = hooked
         /\ \/ manifest' = [manifest EXCEPT ![pc.m].already = @ \union {h}]
            \/ manifest' = [manifest EXCEPT ![pc.m].unpatchable = @ \union {h}]
  BY <1>2 DEF InstallHook, RegistersHook
<1>4. CASE RegistersHook(h)
  BY <1>2, <1>4, RegisteredHook DEF InstallHook
<1>5. ASSUME hooked' = hooked,
             \/ manifest' = [manifest EXCEPT ![pc.m].already = @ \union {h}]
             \/ manifest' = [manifest EXCEPT ![pc.m].unpatchable = @ \union {h}]
      PROVE  IInv'
  <2>1. /\ DOMAIN manifest' = Manifests
        /\ SameButNotes(manifest[pc.m], manifest'[pc.m])
        /\ \A m \in Manifests \ {pc.m} : manifest'[m] = manifest[m]
    BY <1>1, <1>5, OneNote
  <2>2. GoesOn
    BY <1>1, SkipsTo DEF Jumps, InstallHook
  <2>3. TakesNote
    BY <1>5, <2>1, <2>2 DEF TakesNote, InstallHook
  <2> QED
    BY <2>3, NotesKeep
<1> QED
  BY <1>3, <1>4, <1>5

\* What stands on a site now, seen through getattr.
LEMMA ResolvedChain ==
    ASSUME IInv, NEW s \in Sites
    PROVE  SiteChain(Resolved(s), s, saved, manifest)
<1>1. MaybeChain(slot[s], s, saved, manifest)
  BY DEF IInv, Chains, Slots
<1> QED
  BY <1>1, BareChain DEF MaybeChain, Resolved

LEMMA OursAlone ==
    ASSUME NEW who, NEW sensor
    PROVE  IsWrapper(<<Ours(who, sensor)>>)
<1> PICK c : c = <<Ours(who, sensor)>>
  OBVIOUS
<1>1. DOMAIN c = {1} /\ c[1] = Ours(who, sensor)
  OBVIOUS
<1>2. c[1].kind = "xaidr" /\ \A k \in DOMAIN c : ~ Opaque(c[k])
  BY <1>1 DEF Ours, Opaque
<1> QED
  BY <1>1, <1>2 DEF IsWrapper, Visible

LEMMA NoneIsNoChain == <<>> # NONE /\ \A c \in Seq(Layer) : c # NONE
<1>1. NONE \notin Seq(Layer)
  BY NoneAssumption
<1>2. <<>> \in Seq(Layer)
  OBVIOUS
<1> QED
  BY <1>1, <1>2

\* One record more in a manifest's list.
LEMMA RangeAppend ==
    ASSUME NEW sites, DOMAIN sites = 1..Len(sites), Len(sites) \in Nat, NEW x
    PROVE  /\ DOMAIN Append(sites, x) = 1..Len(Append(sites, x)) /\ Len(Append(sites, x)) \in Nat
           /\ Range(Append(sites, x)) = Range(sites) \union {x}
           /\ Append(sites, x) # <<>>
<1>1. /\ Len(Append(sites, x)) = Len(sites) + 1
      /\ DOMAIN Append(sites, x) = 1..(Len(sites) + 1)
      /\ Append(sites, x)[Len(sites) + 1] = x
      /\ \A i \in 1..Len(sites) : Append(sites, x)[i] = sites[i]
  OBVIOUS
<1>2. Range(Append(sites, x)) \subseteq Range(sites) \union {x}
  BY <1>1 DEF Range
<1>3. ASSUME NEW y \in Range(sites) \union {x} PROVE y \in Range(Append(sites, x))
  <2>1. CASE y = x
    BY <1>1, <2>1 DEF Range
  <2>2. CASE y \in Range(sites)
    <3>1. PICK i \in 1..Len(sites) : y = sites[i]
      BY <2>2 DEF Range
    <3> QED
      BY <1>1, <3>1 DEF Range
  <2> QED
    BY <2>1, <2>2
<1> QED
  BY <1>1, <1>2, <1>3

\* A patch: s is wrapped and r records it.
Installs(s, r) ==
    /\ slot' = [slot EXCEPT ![s] = r.installed]
    /\ manifest' = [manifest EXCEPT ![pc.m].sites = Append(@, r),
                                    ![pc.m].patched = @ \union {s}]
RecordFor(s, r) ==
    /\ r.at = s /\ r.original = Resolved(s) /\ r.had_own = (slot[s] # NONE)
    /\ r.installed = <<Ours(pc.m, manifest[pc.m].sensor)>> \o Resolved(s)

LEMMA InstallKeeps == IInv /\ Install => IInv'
<1> SUFFICES ASSUME IInv, Install PROVE IInv'
  OBVIOUS
<1>1. /\ pc # NONE /\ pc.next <= Len(TARGETS) /\ pc.next \in DOMAIN TARGETS
      /\ pc.next # DeepagentsAt /\ TARGETS[pc.next].kind \in {"install", "try"}
  BY NotAtDeepagents DEF Install, At
<1>2. PICK s : s = TARGETS[pc.next].at
  OBVIOUS
<1>3. PICK r : /\ RecordFor(s, r) /\ Installs(s, r) /\ ~ IsWrapper(Resolved(s))
  <2> DEFINE q == [at |-> s, original |-> Resolved(s),
                   installed |-> <<Ours(pc.m, manifest[pc.m].sensor)>> \o Resolved(s),
                   had_own |-> slot[s] # NONE]
  <2>1. RecordFor(s, q) /\ Installs(s, q) /\ ~ IsWrapper(Resolved(s))
    BY <1>2 DEF Install, RecordFor, Installs
  <2> QED
    BY <2>1
<1>4. /\ pc.m \in Manifests /\ manifest[pc.m].state = "applying"
      /\ ManifestType(manifest[pc.m]) /\ DOMAIN manifest = Manifests
  BY <1>1, Writing
<1>5. PICK m \in Manifests : m = pc.m
  BY <1>4
<1>6. s \in Sites
  <2>1. Imported(pc.next)
    BY <1>1 DEF IInv, Thread
  <2> QED
    BY <1>1, <1>2, <2>1 DEF Sites
<1>7. s \notin manifest[m].patched
  <2> SUFFICES ASSUME s \in manifest[m].patched PROVE FALSE
    OBVIOUS
  <2>1. PICK i \in DOMAIN TARGETS :
            i < pc.next /\ TARGETS[i].kind \in {"install", "try", "hook"} /\ TARGETS[i].at = s
    BY <1>1, <1>5 DEF IInv, Thread
  <2>2. i = pc.next
    BY <1>1, <1>2, <2>1, OneStepEach DEF Placing
  <2> QED
    BY <1>1, <2>1, <2>2, TargetsLength
\* What the step changes.
<1>8. /\ DOMAIN manifest' = Manifests
      /\ \A n \in Manifests : n # m => manifest'[n] = manifest[n]
      /\ manifest'[m] = [manifest[m] EXCEPT !.sites = Append(@, r), !.patched = @ \union {s}]
  BY <1>3, <1>4, <1>5 DEF Installs
<1>9. /\ manifest'[m].patched = manifest[m].patched \union {s}
      /\ manifest'[m].sites = Append(manifest[m].sites, r)
      /\ DOMAIN manifest'[m] = Fields /\ DOMAIN manifest[m] = Fields
  <2>1. DOMAIN manifest[m] = Fields
    BY <1>4, <1>5 DEF ManifestType
  <2> QED
    BY <1>8, <2>1 DEF Fields
<1>10. \A n \in Manifests : /\ manifest'[n].state = manifest[n].state
                            /\ manifest'[n].sensor = manifest[n].sensor
                            /\ manifest'[n].unpatchable = manifest[n].unpatchable
                            /\ manifest'[n].absent = manifest[n].absent
                            /\ manifest'[n].teardown = manifest[n].teardown
  <2>1. /\ manifest'[m].state = manifest[m].state
        /\ manifest'[m].sensor = manifest[m].sensor
        /\ manifest'[m].unpatchable = manifest[m].unpatchable
        /\ manifest'[m].absent = manifest[m].absent
        /\ manifest'[m].teardown = manifest[m].teardown
    BY <1>8, <1>9
  <2> QED
    BY <1>8, <2>1
<1>11. /\ DOMAIN slot' = Sites /\ slot'[s] = r.installed
       /\ \A t \in Sites : t # s => slot'[t] = slot[t]
  BY <1>3, <1>6 DEF Installs, IInv, Types
<1>12. GoesOn
  BY <1>1, SkipsTo DEF Jumps, Install
<1>13. /\ loaded' = loaded /\ held' = held /\ active' = active /\ hooked' = hooked
       /\ undoing' = undoing /\ saved' = saved /\ half' = half /\ agent' = agent
       /\ stack' = stack /\ ops' = ops
  BY DEF Install, hostVars
<1>14. Grown(saved, manifest, saved', manifest')
  BY <1>8, <1>9, <1>10, <1>13 DEF Grown
\* The new chain and its record.
<1>15. /\ r.at = s /\ r.original = Resolved(s) /\ r.had_own = (slot[s] # NONE)
       /\ r.installed = <<Ours(m, manifest[m].sensor)>> \o Resolved(s)
  BY <1>3, <1>5 DEF RecordFor
<1>16. SiteChain(r.original, s, saved, manifest) /\ SiteChain(r.original, s, saved', manifest')
  BY <1>6, <1>14, <1>15, ResolvedChain, ChainGrows
<1>17. PICK l : l = Ours(m, manifest[m].sensor)
  OBVIOUS
<1>18. /\ l \in Layer /\ l.kind = "xaidr" /\ l.who = m /\ l.sensor = manifest[m].sensor
  BY <1>4, <1>5, <1>17 DEF Ours, Layer, ManifestType
<1>19. \A i \in DOMAIN r.original : r.original[i] # l
  <2> SUFFICES ASSUME NEW i \in DOMAIN r.original, r.original[i] = l PROVE FALSE
    OBVIOUS
  <2>1. Placed(l, s, saved, manifest)
    BY <1>16 DEF SiteChain
  <2> QED
    BY <1>7, <1>18, <2>1 DEF Placed
<1>20. Placed(l, s, saved', manifest')
  BY <1>4, <1>5, <1>9, <1>10, <1>18 DEF Placed
<1>21. ~ IsWrapper(r.original)
  BY <1>3, <1>15
<1>22. SiteChain(r.installed, s, saved', manifest')
  <2>1. r.installed = <<l>> \o r.original
    BY <1>15, <1>17
  <2>2. SiteChain(<<l>> \o r.original, s, saved', manifest')
    BY <1>16, <1>18, <1>19, <1>20, <1>21, WrappedChain
  <2> QED
    BY <2>1, <2>2
\* At a site nobody else touched the function was bare.
<1>23. ASSUME ~ Touched(s)
       PROVE  InForce(s) = {} /\ slot[s] = (IF s \in Inherited THEN NONE ELSE <<>>)
  <2>1. Clean(s)
    BY <1>6, <1>23 DEF IInv, Untouched
  <2>2. ASSUME NEW n \in Manifests, InForce(s) = {n}, slot[s] = <<Ours(n, manifest[n].sensor)>>
        PROVE  FALSE
    <3>1. manifest[n].sensor \in Sensors
      BY <2>2 DEF InForce, IInv, ManifestsTyped, ManifestType
    <3>2. Ours(n, manifest[n].sensor) \in Layer
      BY <3>1 DEF Ours, Layer
    <3>3. slot[s] # NONE
      <4>1. PICK own \in Layer : own = Ours(n, manifest[n].sensor)
        BY <3>2
      <4>2. <<own>> \in Seq(Layer)
        OBVIOUS
      <4> QED
        BY <2>2, <4>1, <4>2, NoneIsNoChain
    <3> QED
      BY <1>3, <2>2, <3>3, OursAlone DEF Resolved
  <2> QED
    BY <2>1, <2>2 DEF Clean
<1>24. Recorded(r, m, saved', manifest')
  <2>1. ~ r.had_own => r.original = <<>>
    BY <1>15 DEF Resolved
  <2>2. ASSUME \A o \in Others : saved'[o].at # r.at
        PROVE  r.original = <<>> /\ (r.had_own <=> r.at \notin Inherited)
    <3>1. slot[s] = (IF s \in Inherited THEN NONE ELSE <<>>)
      BY <1>13, <1>15, <1>23, <2>2 DEF Touched
    <3> QED
      BY <1>15, <3>1, NoneIsNoChain DEF Resolved
  <2>3. r.installed = <<Ours(m, manifest'[m].sensor)>> \o r.original
    BY <1>10, <1>15
  <2>4. r.had_own \in BOOLEAN
    BY <1>15
  <2> QED
    BY <1>6, <1>15, <1>16, <1>22, <2>1, <2>2, <2>3, <2>4 DEF Recorded
<1>25. /\ DOMAIN manifest'[m].sites = 1..Len(manifest'[m].sites)
       /\ Len(manifest'[m].sites) \in Nat
       /\ Range(manifest'[m].sites) = Range(manifest[m].sites) \union {r}
  <2>1. DOMAIN manifest[m].sites = 1..Len(manifest[m].sites) /\ Len(manifest[m].sites) \in Nat
    BY <1>4, <1>5 DEF ManifestType
  <2> QED
    BY <1>9, <2>1, RangeAppend
\* The invariant.
<1>26. Types'
  BY <1>8, <1>11, <1>13 DEF IInv, Types
<1>27. ManifestsTyped'
  <2> SUFFICES ASSUME NEW n \in Manifests PROVE ManifestType(manifest'[n])
    BY DEF ManifestsTyped
  <2>1. ManifestType(manifest[n])
    BY DEF IInv, ManifestsTyped
  <2>2. CASE n # m
    BY <1>8, <2>1, <2>2
  <2>3. CASE n = m
    <3>1. manifest'[m].state = "applying" /\ manifest[m].state = "applying"
      BY <1>4, <1>5, <1>10
    <3>2. \A x \in Range(manifest[m].sites) : x.at # s
      BY <1>7, <2>1, <2>3 DEF ManifestType
    <3>3. \A x, y \in Range(manifest'[m].sites) : x.at = y.at => x = y
      BY <1>15, <1>25, <2>1, <2>3, <3>2 DEF ManifestType
    <3>4. \A t \in Sites : t \in manifest'[m].patched => \E x \in Range(manifest'[m].sites) : x.at = t
      BY <1>9, <1>15, <1>25, <2>1, <2>3, <3>1 DEF ManifestType, InPlay
    <3>5. \A x \in Range(manifest'[m].sites) : x.at \in manifest'[m].patched
      BY <1>9, <1>15, <1>25, <2>1, <2>3 DEF ManifestType
    <3>6. manifest'[m].sensor \in Sensors
      BY <1>10, <2>1, <2>3, <3>1 DEF ManifestType
    <3> QED
      BY <1>9, <1>25, <2>3, <3>1, <3>3, <3>4, <3>5, <3>6 DEF ManifestType, InPlay, States
  <2> QED
    BY <2>2, <2>3
<1>28. SavesTyped' /\ Saves' /\ Held' /\ HalfChains'
  BY <1>13, <1>14, GrownSaves, GrownHeld DEF IInv, HalfChains
<1>29. Slots'
  <2> SUFFICES ASSUME NEW t \in Sites PROVE MaybeChain(slot'[t], t, saved', manifest')
    BY DEF Slots
  <2>1. CASE t = s
    BY <1>11, <1>22, <2>1 DEF MaybeChain
  <2>2. CASE t # s
    BY <1>11, <1>14, <2>2, MaybeGrows DEF IInv, Chains, Slots
  <2> QED
    BY <2>1, <2>2
<1>30. Records'
  <2> SUFFICES ASSUME NEW n \in Manifests, NEW x \in Range(manifest'[n].sites)
               PROVE  Recorded(x, n, saved', manifest')
    BY DEF Records
  <2>1. CASE n = m /\ x = r
    BY <1>24, <2>1
  <2>2. CASE x \in Range(manifest[n].sites)
    <3>1. manifest[n].state # "new"
      BY <2>2 DEF IInv, ManifestsTyped, ManifestType, InPlay, Range
    <3> QED
      BY <1>14, <2>2, <3>1, RecordedGrows DEF IInv, Chains, Records, SavesTyped
  <2> QED
    BY <1>8, <1>25, <2>1, <2>2
<1>31. Thread'
  BY <1>1, <1>2, <1>5, <1>9, <1>10, <1>12, <1>13, ThreadGoesOn DEF Placing
<1>32. Hooks'
  BY <1>10, <1>13 DEF IInv, Hooks
<1>33. Deepagents'
  BY <1>1, <1>10, <1>12, <1>13, DeepagentsGoesOn
<1>34. Untouched'
  <2> SUFFICES ASSUME NEW t \in Sites, ~ Touched(t)' PROVE Clean(t)'
    BY DEF Untouched
  <2>1. ~ Touched(t)
    BY <1>13 DEF Touched
  <2>2. CASE t # s
    <3>1. Clean(t)
      BY <2>1 DEF IInv, Untouched
    <3>2. InForce(t)' = InForce(t)
      BY <1>8, <1>9, <1>10, <2>2 DEF InForce
    <3> QED
      BY <1>10, <1>11, <2>2, <3>1, <3>2 DEF Clean
  <2>3. CASE t = s
    <3>1. InForce(s) = {} /\ r.original = <<>>
      BY <1>15, <1>23, <2>1, <2>3 DEF Resolved
    <3>2. InForce(s)' = {m}
      <4>1. m \in InForce(s)'
        BY <1>4, <1>5, <1>9, <1>10 DEF InForce
      <4>2. \A n \in Manifests : n # m => n \notin InForce(s)'
        BY <1>8, <3>1 DEF InForce
      <4> QED
        BY <4>1, <4>2 DEF InForce
    <3>3. slot'[s] = <<Ours(m, manifest'[m].sensor)>>
      BY <1>10, <1>11, <1>15, <3>1
    <3> QED
      BY <2>3, <3>2, <3>3 DEF Clean
  <2> QED
    BY <2>2, <2>3
<1> QED
  BY <1>26, <1>27, <1>28, <1>29, <1>30, <1>31, <1>32, <1>33, <1>34 DEF IInv, Chains

-----------------------------------------------------------------------------
(* The beginning and the end of protect() *)

LEMMA BlankType == ManifestType(Blank) /\ DOMAIN Blank = Fields
<1>1. DOMAIN Blank = Fields
  BY DEF Blank, Fields
<1>2. Range(Blank.sites) = {}
  BY DEF Blank, Range
<1> QED
  BY <1>1, <1>2 DEF Blank, ManifestType, States, InPlay

LEMMA RangeOfNothing == Range(<<>>) = {}
BY DEF Range

LEMMA ProtectKeeps ==
    ASSUME NEW m \in Manifests, NEW sensor \in Sensors, IInv, Protect(m, sensor)
    PROVE  IInv'
<1>1. /\ pc = NONE /\ undoing = <<>> /\ manifest[m].state = "new" /\ DOMAIN manifest = Manifests
      /\ manifest[m] = Blank
  BY DEF Protect, Free, IInv, Types, ManifestsTyped, ManifestType
<1>2. /\ loaded' = loaded /\ held' = held /\ active' = active /\ hooked' = hooked /\ slot' = slot
      /\ undoing' = undoing /\ saved' = saved /\ half' = half /\ agent' = agent
      /\ stack' = stack /\ ops' = ops
  BY DEF Protect, hostVars
<1>3. /\ DOMAIN manifest' = Manifests
      /\ \A n \in Manifests : n # m => manifest'[n] = manifest[n]
      /\ manifest'[m] = [Blank EXCEPT !.state = "applying", !.sensor = sensor]
  BY <1>1 DEF Protect
<1>4. /\ manifest'[m].state = "applying" /\ manifest'[m].sensor = sensor
      /\ manifest'[m].sites = <<>> /\ manifest'[m].teardown = {} /\ manifest'[m].patched = {}
      /\ DOMAIN manifest'[m] = Fields
  BY <1>3, BlankType DEF Blank, Fields
<1>5. /\ pc' = [m |-> m, next |-> AfterStep(0)]
      /\ AfterStep(0) \in 1..29 /\ AfterStep(0) <= DeepagentsAt
      /\ AfterStep(0) <= 28 => Imported(AfterStep(0))
  <2>1. 0 \in Nat /\ 0 < DeepagentsAt
    BY DEF DeepagentsAt
  <2> QED
    BY <2>1, NextSteps DEF Protect
<1>6. pc' # NONE /\ pc'.m = m /\ pc'.next = AfterStep(0) /\ DOMAIN pc' = {"m", "next"}
  <2>1. PICK n : n = AfterStep(0)
    OBVIOUS
  <2>2. n \in 1..29
    BY <1>5, <2>1
  <2>3. [m |-> m, next |-> n] \in [m : Manifests, next : Nat]
    BY <2>2
  <2>4. [m |-> m, next |-> n] # NONE
    BY <2>3, NoneAssumption
  <2> QED
    BY <1>5, <2>1, <2>4
<1>7. Grown(saved, manifest, saved', manifest')
  BY <1>1, <1>2, <1>3 DEF Grown
<1>8. Types'
  BY <1>2, <1>3 DEF IInv, Types
<1>9. ManifestsTyped'
  <2> SUFFICES ASSUME NEW n \in Manifests PROVE ManifestType(manifest'[n])
    BY DEF ManifestsTyped
  <2>1. CASE n # m
    BY <1>3, <2>1 DEF IInv, ManifestsTyped
  <2>2. CASE n = m
    <3>1. Range(<<>>) = {}
      BY DEF Range
    <3> QED
      BY <1>4, <2>2, <3>1 DEF ManifestType, InPlay, States
  <2> QED
    BY <2>1, <2>2
<1>10. SavesTyped' /\ Saves' /\ Held' /\ HalfChains'
  BY <1>2, <1>7, GrownSaves, GrownHeld DEF IInv, HalfChains
<1>11. Slots'
  BY <1>2, <1>7, MaybeGrows DEF IInv, Chains, Slots
<1>12. Records'
  <2> SUFFICES ASSUME NEW n \in Manifests, NEW r \in Range(manifest'[n].sites)
               PROVE  Recorded(r, n, saved', manifest')
    BY DEF Records
  <2>1. n # m /\ r \in Range(manifest[n].sites)
    BY <1>3, <1>4, RangeOfNothing
  <2>2. manifest[n].state # "new"
    BY <2>1 DEF IInv, ManifestsTyped, ManifestType, InPlay, Range
  <2> QED
    BY <1>7, <2>1, <2>2, RecordedGrows DEF IInv, Chains, Records, SavesTyped
<1>13. Thread'
  <2>1. \A n \in Manifests : manifest[n].state # "applying"
    BY <1>1 DEF IInv, Thread
  <2>2. ASSUME NEW n \in Manifests
        PROVE  /\ manifest'[n].state = "applying" <=> pc' # NONE /\ pc'.m = n
               /\ manifest'[n].state = "active" <=> n \in Range(active')
    <3>0. manifest[n].state = "active" <=> n \in Range(active)
      BY <1>1 DEF IInv, Thread
    <3>1. CASE n = m
      BY <1>1, <1>2, <1>4, <1>6, <3>0, <3>1
    <3>2. CASE n # m
      BY <1>2, <1>3, <1>6, <2>1, <3>0, <3>2
    <3> QED
      BY <3>1, <3>2
  <2>3. pc'.next \in 1..(Len(TARGETS) + 1) /\ (pc'.next <= Len(TARGETS) => Imported(pc'.next))
    BY <1>5, <1>6, TargetsLength
  <2> QED
    BY <1>1, <1>2, <1>4, <1>6, <2>2, <2>3 DEF IInv, Thread
<1>14. Hooks'
  <2>1. ASSUME NEW n \in Manifests PROVE manifest'[n].teardown = manifest[n].teardown
    <3>1. Blank.teardown = {}
      BY DEF Blank
    <3>2. CASE n = m
      BY <1>1, <1>4, <3>1, <3>2
    <3>3. CASE n # m
      BY <1>3, <3>3
    <3> QED
      BY <3>2, <3>3
  <2> QED
    BY <1>2, <2>1 DEF IInv, Hooks
<1>15. Deepagents'
  <2>1. ASSUME NEW n \in Manifests, manifest'[n].state \in {"active", "inert"} PROVE Faced(n)'
    <3>1. n # m
      BY <1>4, <2>1
    <3> QED
      BY <1>2, <1>3, <2>1, <3>1 DEF IInv, Deepagents, Faced
  <2>2. ~ (pc'.next > DeepagentsAt)
    BY <1>5, <1>6 DEF DeepagentsAt
  <2> QED
    BY <2>1, <2>2 DEF Deepagents, Faced
<1>16. Untouched'
  <2> SUFFICES ASSUME NEW s \in Sites, ~ Touched(s)' PROVE Clean(s)'
    BY DEF Untouched
  <2>1. Clean(s)
    BY <1>2 DEF IInv, Untouched, Touched
  <2>2. InForce(s)' = InForce(s) /\ m \notin InForce(s)
    BY <1>1, <1>3, <1>4 DEF InForce
  <2> QED
    BY <1>2, <1>3, <2>1, <2>2 DEF Clean
<1> QED
  BY <1>8, <1>9, <1>10, <1>11, <1>12, <1>13, <1>14, <1>15, <1>16 DEF IInv, Chains

LEMMA ListsOneMore ==
    ASSUME NEW S, NEW q \in Seq(S), IsInjective(q), NEW m \in S, m \notin Range(q)
    PROVE  /\ Append(q, m) \in Seq(S)
           /\ IsInjective(Append(q, m))
           /\ Range(Append(q, m)) = Range(q) \union {m}
<1>1. Len(q) \in Nat /\ DOMAIN q = 1..Len(q)
  OBVIOUS
<1>2. PICK d : d = Append(q, m)
  OBVIOUS
<1>3. /\ DOMAIN d = 1..(Len(q) + 1)
      /\ d[Len(q) + 1] = m
      /\ \A i \in 1..Len(q) : d[i] = q[i]
      /\ d \in Seq(S)
  BY <1>2
<1>4. \A i \in 1..Len(q) : q[i] # m
  BY <1>1 DEF Range
<1>5. \A i, j \in 1..Len(q) : q[i] = q[j] => i = j
  BY <1>1 DEF IsInjective
<1>6. IsInjective(d)
  <2> SUFFICES ASSUME NEW i \in DOMAIN d, NEW j \in DOMAIN d, d[i] = d[j] PROVE i = j
    BY DEF IsInjective
  <2>1. CASE i \in 1..Len(q) /\ j \in 1..Len(q)
    BY <1>3, <1>5, <2>1
  <2>2. CASE i \in 1..Len(q) /\ j = Len(q) + 1
    BY <1>3, <1>4, <2>2
  <2>3. CASE j \in 1..Len(q) /\ i = Len(q) + 1
    BY <1>3, <1>4, <2>3
  <2>4. \A k \in DOMAIN d : k \in 1..Len(q) \/ k = Len(q) + 1
    BY <1>1, <1>3
  <2> QED
    BY <2>1, <2>2, <2>3, <2>4
<1>7. Range(d) = Range(q) \union {m}
  BY <1>1, <1>2, RangeAppend
<1> QED
  BY <1>2, <1>3, <1>6, <1>7

LEMMA ProtectedKeeps == IInv /\ Protected => IInv'
<1> SUFFICES ASSUME IInv, Protected PROVE IInv'
  OBVIOUS
<1>1. PICK m \in Manifests : m = pc.m
  BY DEF Protected, IInv, Thread
<1>2. /\ pc # NONE /\ pc.m = m /\ manifest[m].state = "applying" /\ undoing = <<>>
      /\ ManifestType(manifest[m]) /\ DOMAIN manifest = Manifests /\ pc.next > DeepagentsAt
  <2>1. pc # NONE /\ pc.next > 28 /\ pc.next \in 1..29
    BY TargetsLength DEF Protected, IInv, Thread
  <2>2. pc.next > DeepagentsAt
    BY <2>1 DEF DeepagentsAt
  <2> QED
    BY <1>1, <2>1, <2>2, Writing
<1>3. /\ loaded' = loaded /\ held' = held /\ hooked' = hooked /\ slot' = slot /\ pc' = NONE
      /\ undoing' = undoing /\ saved' = saved /\ half' = half /\ agent' = agent
      /\ stack' = stack /\ ops' = ops
  BY DEF Protected, hostVars
<1>4. PICK keeps \in BOOLEAN :
         /\ keeps <=> manifest[m].sites # <<>> \/ manifest[m].teardown # {}
         /\ manifest' = [manifest EXCEPT ![m].state = IF keeps THEN "active" ELSE "inert"]
         /\ active' = IF keeps THEN Append(active, m) ELSE active
  BY <1>2 DEF Protected
<1>5. /\ DOMAIN manifest' = Manifests
      /\ \A n \in Manifests : n # m => manifest'[n] = manifest[n]
      /\ manifest'[m] = [manifest[m] EXCEPT !.state = IF keeps THEN "active" ELSE "inert"]
  BY <1>2, <1>4
<1>6. /\ manifest'[m].state = IF keeps THEN "active" ELSE "inert"
      /\ \A n \in Manifests : /\ manifest'[n].sensor = manifest[n].sensor
                              /\ manifest'[n].sites = manifest[n].sites
                              /\ manifest'[n].teardown = manifest[n].teardown
                              /\ manifest'[n].patched = manifest[n].patched
                              /\ manifest'[n].unpatchable = manifest[n].unpatchable
                              /\ manifest'[n].absent = manifest[n].absent
                              /\ DOMAIN manifest'[n] = DOMAIN manifest[n]
  <2>1. DOMAIN manifest[m] = Fields
    BY <1>2 DEF ManifestType
  <2>2. /\ manifest'[m].state = IF keeps THEN "active" ELSE "inert"
        /\ manifest'[m].sensor = manifest[m].sensor
        /\ manifest'[m].sites = manifest[m].sites
        /\ manifest'[m].teardown = manifest[m].teardown
        /\ manifest'[m].patched = manifest[m].patched
        /\ manifest'[m].unpatchable = manifest[m].unpatchable
        /\ manifest'[m].absent = manifest[m].absent
        /\ DOMAIN manifest'[m] = DOMAIN manifest[m]
    BY <1>5, <2>1 DEF Fields
  <2> QED
    BY <1>5, <2>2
<1>7. Grown(saved, manifest, saved', manifest')
  BY <1>3, <1>5, <1>6 DEF Grown
<1>8. m \notin Range(active) /\ active \in Seq(Manifests) /\ IsInjective(active)
  BY <1>2 DEF IInv, Thread, Types
<1>9. /\ active' \in Seq(Manifests)
      /\ IsInjective(active')
      /\ Range(active') = Range(active) \union (IF keeps THEN {m} ELSE {})
  <2>1. CASE keeps
    <3>1. active' = Append(active, m)
      BY <1>4, <2>1
    <3>2. /\ Append(active, m) \in Seq(Manifests)
          /\ IsInjective(Append(active, m))
          /\ Range(Append(active, m)) = Range(active) \union {m}
      BY <1>8, ListsOneMore
    <3> QED
      BY <2>1, <3>1, <3>2
  <2>2. CASE ~ keeps
    BY <1>4, <1>8, <2>2
  <2> QED
    BY <2>1, <2>2
<1>10. Types'
  BY <1>3, <1>5, <1>9 DEF IInv, Types
<1>11. ManifestsTyped'
  <2> SUFFICES ASSUME NEW n \in Manifests PROVE ManifestType(manifest'[n])
    BY DEF ManifestsTyped
  <2>1. CASE n # m
    BY <1>5, <2>1 DEF IInv, ManifestsTyped
  <2>2. CASE n = m
    <3>1. CASE keeps
      BY <1>2, <1>4, <1>6, <2>2, <3>1 DEF ManifestType, InPlay, States
    <3>2. CASE ~ keeps
      BY <1>2, <1>4, <1>6, <2>2, <3>2 DEF ManifestType, InPlay, States
    <3> QED
      BY <3>1, <3>2
  <2> QED
    BY <2>1, <2>2
<1>12. SavesTyped' /\ Saves' /\ Held' /\ HalfChains'
  BY <1>3, <1>7, GrownSaves, GrownHeld DEF IInv, HalfChains
<1>13. Slots'
  BY <1>3, <1>7, MaybeGrows DEF IInv, Chains, Slots
<1>14. Records'
  <2> SUFFICES ASSUME NEW n \in Manifests, NEW r \in Range(manifest'[n].sites)
               PROVE  Recorded(r, n, saved', manifest')
    BY DEF Records
  <2>1. r \in Range(manifest[n].sites)
    BY <1>6
  <2>2. manifest[n].state # "new"
    BY <2>1 DEF IInv, ManifestsTyped, ManifestType, InPlay, Range
  <2> QED
    BY <1>7, <2>1, <2>2, RecordedGrows DEF IInv, Chains, Records, SavesTyped
<1>15. Thread'
  <2>1. \A n \in Manifests : n # m => manifest[n].state # "applying"
    BY <1>2 DEF IInv, Thread
  <2>2. ASSUME NEW n \in Manifests
        PROVE  /\ manifest'[n].state # "applying"
               /\ manifest'[n].state = "active" <=> n \in Range(active')
    <3>1. CASE n = m
      BY <1>6, <1>8, <1>9, <3>1
    <3>2. CASE n # m
      BY <1>2, <1>5, <1>9, <2>1, <3>2 DEF IInv, Thread
    <3> QED
      BY <3>1, <3>2
  <2>3. Range(undoing') = {} /\ IsInjective(undoing') /\ undoing' = <<>>
    BY <1>2, <1>3 DEF Range, IsInjective
  <2> QED
    BY <1>3, <1>9, <2>2, <2>3 DEF Thread
<1>16. Hooks'
  BY <1>3, <1>6 DEF IInv, Hooks
<1>17. Deepagents'
  <2>1. ASSUME NEW n \in Manifests, Faced(n) PROVE Faced(n)'
    BY <1>3, <1>6, <2>1 DEF Faced
  <2>2. Faced(m)
    BY <1>2 DEF IInv, Deepagents
  <2>3. ASSUME NEW n \in Manifests, manifest'[n].state \in {"active", "inert"} PROVE Faced(n)'
    BY <1>5, <2>1, <2>2, <2>3 DEF IInv, Deepagents
  <2> QED
    BY <1>3, <2>3 DEF Deepagents
<1>18. Untouched'
  <2> SUFFICES ASSUME NEW s \in Sites, ~ Touched(s)' PROVE Clean(s)'
    BY DEF Untouched
  <2>1. Clean(s)
    BY <1>3 DEF IInv, Untouched, Touched
  <2>2. s \in manifest[m].patched => keeps
    <3>1. s \in manifest[m].patched => \E x \in Range(manifest[m].sites) : TRUE
      BY <1>2 DEF ManifestType, InPlay
    <3>2. Range(<<>>) = {}
      BY DEF Range
    <3> QED
      BY <1>4, <3>1, <3>2
  <2>3. InForce(s)' = InForce(s)
    BY <1>2, <1>5, <1>6, <2>2 DEF InForce
  <2> QED
    BY <1>3, <1>6, <2>1, <2>3 DEF Clean
<1> QED
  BY <1>10, <1>11, <1>12, <1>13, <1>14, <1>15, <1>16, <1>17, <1>18 DEF IInv, Chains

-----------------------------------------------------------------------------
(* unprotect() *)

\* The sequence without its i-th element, its tail, and its reverse.
LEMMA ListsOneLess ==
    ASSUME NEW S, NEW q \in Seq(S), IsInjective(q), NEW i \in DOMAIN q
    PROVE  /\ RemoveAt(q, i) \in Seq(S)
           /\ IsInjective(RemoveAt(q, i))
           /\ Range(RemoveAt(q, i)) = Range(q) \ {q[i]}
<1>1. Len(q) \in Nat /\ DOMAIN q = 1..Len(q) /\ i \in 1..Len(q)
  OBVIOUS
<1>2. \A j, k \in 1..Len(q) : q[j] = q[k] => j = k
  BY <1>1 DEF IsInjective
<1>3. PICK d : d = RemoveAt(q, i)
  OBVIOUS
<1>4. /\ d \in Seq(S)
      /\ DOMAIN d = 1..(Len(q) - 1)
      /\ \A k \in 1..(Len(q) - 1) : d[k] = IF k < i THEN q[k] ELSE q[k + 1]
  <2>1. PICK a, b : a = SubSeq(q, 1, i - 1) /\ b = SubSeq(q, i + 1, Len(q))
    OBVIOUS
  <2>2. /\ a \in Seq(S) /\ Len(a) = i - 1
        /\ \A k \in 1..(i - 1) : a[k] = q[k]
    BY <1>1, <2>1
  <2>3. /\ b \in Seq(S) /\ Len(b) = Len(q) - i
        /\ \A k \in 1..(Len(q) - i) : b[k] = q[i + k]
    BY <1>1, <2>1
  <2>4. d = a \o b
    BY <1>3, <2>1 DEF RemoveAt
  <2>5. d \in Seq(S) /\ DOMAIN d = 1..(Len(q) - 1)
    <3>0. a \in Seq(S) /\ b \in Seq(S)
      BY <2>2, <2>3
    <3>1. d \in Seq(S) /\ Len(d) = Len(a) + Len(b)
      BY <2>4, <3>0
    <3>2. Len(d) = Len(q) - 1 /\ DOMAIN d = 1..Len(d)
      BY <1>1, <2>2, <2>3, <3>1
    <3> QED
      BY <3>1, <3>2
  <2>6. ASSUME NEW k \in 1..(Len(q) - 1) PROVE d[k] = IF k < i THEN q[k] ELSE q[k + 1]
    <3>1. CASE k < i
      BY <1>1, <2>2, <2>3, <2>4, <3>1
    <3>2. CASE ~ (k < i)
      <4>0. /\ k - (i - 1) \in 1..(Len(q) - i) /\ Len(a) + Len(b) = Len(q) - 1
            /\ k > Len(a) /\ k - Len(a) = k - (i - 1)
        BY <1>1, <2>2, <2>3, <3>2
      <4>1. d[k] = b[k - (i - 1)] /\ k - (i - 1) \in 1..(Len(q) - i)
        <5>1. a \in Seq(S) /\ b \in Seq(S)
          BY <2>2, <2>3
        <5>2. k \in 1..(Len(a) + Len(b)) /\ ~ (k <= Len(a))
          <6>1. k \in 1..(Len(a) + Len(b))
            BY <4>0
          <6>2. Len(a) \in Nat /\ k \in Nat
            BY <5>1
          <6> QED
            BY <4>0, <6>1, <6>2
        <5>3. (a \o b)[k] = b[k - Len(a)]
          BY <5>1, <5>2
        <5> QED
          BY <2>4, <4>0, <5>3
      <4>2. b[k - (i - 1)] = q[i + (k - (i - 1))]
        BY <2>3, <4>1
      <4>3. i + (k - (i - 1)) = k + 1
        BY <1>1
      <4> QED
        BY <3>2, <4>1, <4>2, <4>3
    <3> QED
      BY <3>1, <3>2
  <2> QED
    BY <2>5, <2>6
<1>5. IsInjective(d)
  <2> SUFFICES ASSUME NEW j \in DOMAIN d, NEW k \in DOMAIN d, d[j] = d[k] PROVE j = k
    BY DEF IsInjective
  <2>1. j \in 1..(Len(q) - 1) /\ k \in 1..(Len(q) - 1)
    BY <1>4
  <2> QED
    BY <1>1, <1>2, <1>4, <2>1
<1>6. Range(d) \subseteq Range(q) \ {q[i]}
  <2> SUFFICES ASSUME NEW k \in DOMAIN d PROVE d[k] \in Range(q) /\ d[k] # q[i]
    BY DEF Range
  <2>1. k \in 1..(Len(q) - 1)
    BY <1>4
  <2>2. PICK j \in 1..Len(q) : d[k] = q[j] /\ j # i
    BY <1>1, <1>4, <2>1
  <2> QED
    BY <1>1, <1>2, <2>2 DEF Range
<1>7. ASSUME NEW y \in Range(q) \ {q[i]} PROVE y \in Range(d)
  <2>1. PICK j \in 1..Len(q) : y = q[j] /\ j # i
    BY <1>1 DEF Range
  <2>2. CASE j < i
    <3>1. j \in DOMAIN d /\ d[j] = y
      BY <1>1, <1>4, <2>1, <2>2
    <3> QED
      BY <3>1 DEF Range
  <2>3. CASE ~ (j < i)
    <3>1. j - 1 \in DOMAIN d /\ d[j - 1] = q[(j - 1) + 1] /\ (j - 1) + 1 = j
      BY <1>1, <1>4, <2>1, <2>3
    <3> QED
      BY <2>1, <3>1 DEF Range
  <2> QED
    BY <2>2, <2>3
<1> QED
  BY <1>3, <1>4, <1>5, <1>6, <1>7

LEMMA ListsTheRest ==
    ASSUME NEW S, NEW q \in Seq(S), IsInjective(q), q # <<>>
    PROVE  /\ Head(q) \in Range(q)
           /\ Tail(q) \in Seq(S)
           /\ IsInjective(Tail(q))
           /\ Range(Tail(q)) = Range(q) \ {Head(q)}
<1>1. Len(q) \in Nat /\ DOMAIN q = 1..Len(q) /\ 1 \in DOMAIN q /\ Head(q) = q[1]
  OBVIOUS
<1>2. PICK d : d = Tail(q)
  OBVIOUS
<1>3. /\ d \in Seq(S) /\ DOMAIN d = 1..(Len(q) - 1)
      /\ \A k \in 1..(Len(q) - 1) : d[k] = q[k + 1]
  BY <1>1, <1>2
<1>4. \A j, k \in 1..Len(q) : q[j] = q[k] => j = k
  BY <1>1 DEF IsInjective
<1>5. IsInjective(d)
  <2> SUFFICES ASSUME NEW j \in DOMAIN d, NEW k \in DOMAIN d, d[j] = d[k] PROVE j = k
    BY DEF IsInjective
  <2> QED
    BY <1>1, <1>3, <1>4
<1>6. Range(d) \subseteq Range(q) \ {q[1]}
  <2> SUFFICES ASSUME NEW k \in DOMAIN d PROVE d[k] \in Range(q) /\ d[k] # q[1]
    BY DEF Range
  <2>1. k + 1 \in 1..Len(q) /\ d[k] = q[k + 1] /\ k + 1 # 1
    BY <1>1, <1>3
  <2> QED
    BY <1>1, <1>4, <2>1 DEF Range
<1>7. ASSUME NEW y \in Range(q) \ {q[1]} PROVE y \in Range(d)
  <2>1. PICK j \in 1..Len(q) : y = q[j] /\ j # 1
    BY <1>1 DEF Range
  <2>2. j - 1 \in DOMAIN d /\ d[j - 1] = q[(j - 1) + 1] /\ (j - 1) + 1 = j
    BY <1>1, <1>3, <2>1
  <2> QED
    BY <2>1, <2>2 DEF Range
<1>8. Head(q) \in Range(q)
  BY <1>1 DEF Range
<1> QED
  BY <1>1, <1>2, <1>3, <1>5, <1>6, <1>7, <1>8

LEMMA ListsBackwards ==
    ASSUME NEW S, NEW q \in Seq(S), IsInjective(q)
    PROVE  /\ Reverse(q) \in Seq(S)
           /\ IsInjective(Reverse(q))
           /\ Range(Reverse(q)) = Range(q)
           /\ q # <<>> => Reverse(q) # <<>>
<1>1. Len(q) \in Nat /\ DOMAIN q = 1..Len(q)
  OBVIOUS
<1>2. PICK d : d = Reverse(q)
  OBVIOUS
<1>3. /\ DOMAIN d = 1..Len(q)
      /\ \A k \in 1..Len(q) : d[k] = q[(Len(q) - k) + 1] /\ (Len(q) - k) + 1 \in 1..Len(q)
  BY <1>1, <1>2 DEF Reverse
<1>4. d \in Seq(S)
  <2>1. d \in [1..Len(q) -> S]
    <3>1. d = [k \in 1..Len(q) |-> q[(Len(q) - k) + 1]]
      BY <1>2 DEF Reverse
    <3>2. \A k \in 1..Len(q) : q[(Len(q) - k) + 1] \in S
      BY <1>1, <1>3
    <3> QED
      BY <3>1, <3>2
  <2> QED
    BY <1>1, <2>1
<1>5. IsInjective(d)
  <2> SUFFICES ASSUME NEW j \in DOMAIN d, NEW k \in DOMAIN d, d[j] = d[k] PROVE j = k
    BY DEF IsInjective
  <2>1. (Len(q) - j) + 1 = (Len(q) - k) + 1
    BY <1>1, <1>3 DEF IsInjective
  <2> QED
    BY <1>1, <1>3, <2>1
<1>6. Range(d) \subseteq Range(q)
  BY <1>1, <1>3 DEF Range
<1>7. ASSUME NEW y \in Range(q) PROVE y \in Range(d)
  <2>1. PICK j \in 1..Len(q) : y = q[j]
    BY <1>1 DEF Range
  <2>2. PICK k : k = (Len(q) - j) + 1
    OBVIOUS
  <2>3. k \in 1..Len(q) /\ (Len(q) - k) + 1 = j
    BY <1>1, <2>2
  <2>4. k \in DOMAIN d /\ d[k] = y
    BY <1>3, <2>1, <2>3
  <2> QED
    BY <2>4 DEF Range
<1>8. q # <<>> => d # <<>>
  BY <1>1, <1>3
<1> QED
  BY <1>2, <1>4, <1>5, <1>6, <1>7, <1>8

\* What reverting m does to the process: each of its sites is put back if its
\* wrapper is still the current value, and nothing else changes.
UndoesSlots(m) ==
    /\ DOMAIN slot' = Sites
    /\ \A s \in Sites : \A r \in Range(manifest[m].sites) :
           r.at = s /\ slot[s] = r.installed => slot'[s] = Original(r)
    /\ \A s \in Sites :
           \/ slot'[s] = slot[s]
           \/ \E r \in Range(manifest[m].sites) : r.at = s /\ slot[s] = r.installed
UndoesManifest(m) ==
    /\ DOMAIN manifest' = Manifests
    /\ \A n \in Manifests : n # m => manifest'[n] = manifest[n]
    /\ manifest'[m].state = "reverted" /\ manifest'[m].sites = <<>>
    /\ manifest'[m].teardown = {} /\ manifest'[m].stranded = Stranded(m, slot)
    /\ \A n \in Manifests : /\ manifest'[n].sensor = manifest[n].sensor
                            /\ manifest'[n].patched = manifest[n].patched
                            /\ manifest'[n].unpatchable = manifest[n].unpatchable
                            /\ manifest'[n].absent = manifest[n].absent
                            /\ DOMAIN manifest'[n] = DOMAIN manifest[n]

LEMMA UndoEffect ==
    ASSUME IInv, NEW m \in Manifests, Undo(m)
    PROVE  UndoesSlots(m) /\ UndoesManifest(m)
<1>1. DOMAIN manifest = Manifests /\ ManifestType(manifest[m]) /\ DOMAIN manifest[m] = Fields
  BY DEF IInv, Types, ManifestsTyped, ManifestType
<1>2. UndoesManifest(m)
  <2>1. /\ DOMAIN manifest' = Manifests
        /\ \A n \in Manifests : n # m => manifest'[n] = manifest[n]
        /\ manifest'[m] = [manifest[m] EXCEPT !.state = "reverted", !.sites = <<>>,
                                              !.teardown = {}, !.stranded = Stranded(m, slot)]
    BY <1>1 DEF Undo
  <2>2. /\ manifest'[m].state = "reverted" /\ manifest'[m].sites = <<>>
        /\ manifest'[m].teardown = {} /\ manifest'[m].stranded = Stranded(m, slot)
    BY <1>1, <2>1 DEF Fields
  <2>3. /\ manifest'[m].sensor = manifest[m].sensor
        /\ manifest'[m].patched = manifest[m].patched
        /\ manifest'[m].unpatchable = manifest[m].unpatchable
        /\ manifest'[m].absent = manifest[m].absent
        /\ DOMAIN manifest'[m] = DOMAIN manifest[m]
    BY <1>1, <2>1
  <2> QED
    BY <2>1, <2>2, <2>3 DEF UndoesManifest
<1>3. \A x, y \in Range(manifest[m].sites) : x.at = y.at => x = y
  BY <1>1 DEF ManifestType
<1>4. ASSUME NEW s \in Sites
      PROVE  slot'[s] = IF \E r \in Range(manifest[m].sites) : r.at = s /\ slot[s] = r.installed
                        THEN Original(CHOOSE r \in Range(manifest[m].sites) : r.at = s)
                        ELSE slot[s]
  BY DEF Undo, Reverted, Restorable
<1>5. ASSUME NEW s \in Sites, NEW r \in Range(manifest[m].sites), r.at = s, slot[s] = r.installed
      PROVE  slot'[s] = Original(r)
  <2>1. (CHOOSE x \in Range(manifest[m].sites) : x.at = s) = r
    BY <1>3, <1>5
  <2> QED
    BY <1>4, <1>5, <2>1
<1>6. DOMAIN slot' = Sites
  BY DEF Undo, Reverted
<1>7. \A s \in Sites : \/ slot'[s] = slot[s]
                       \/ \E r \in Range(manifest[m].sites) : r.at = s /\ slot[s] = r.installed
  BY <1>4
<1> QED
  BY <1>2, <1>5, <1>6, <1>7 DEF UndoesSlots

\* Reverting m leaves the invariant, whichever unprotect() does it.
LEMMA UndoKeeps ==
    ASSUME IInv, NEW m \in Manifests, manifest[m].state = "active", pc = NONE, Undo(m),
           active' \in Seq(Manifests), undoing' \in Seq(Manifests),
           IsInjective(active'), IsInjective(undoing'), Range(undoing') \subseteq Range(active'),
           Range(IF undoing' = <<>> THEN active' ELSE undoing')
               = Range(IF undoing = <<>> THEN active ELSE undoing) \ {m}
    PROVE  IInv'
<1>1. UndoesSlots(m) /\ UndoesManifest(m)
  BY UndoEffect
<1>2. /\ ManifestType(manifest[m]) /\ DOMAIN manifest = Manifests
  BY DEF IInv, ManifestsTyped, Types
<1>3. /\ loaded' = loaded /\ held' = held /\ pc' = NONE
      /\ saved' = saved /\ half' = half /\ agent' = agent
      /\ stack' = stack /\ ops' = ops /\ hooked' = hooked \ manifest[m].teardown
  BY DEF Undo, hostVars
<1>4. /\ DOMAIN manifest' = Manifests
      /\ \A n \in Manifests : n # m => manifest'[n] = manifest[n]
      /\ manifest'[m].state = "reverted" /\ manifest'[m].sites = <<>>
      /\ manifest'[m].teardown = {}
      /\ \A n \in Manifests : /\ manifest'[n].sensor = manifest[n].sensor
                              /\ manifest'[n].patched = manifest[n].patched
                              /\ manifest'[n].unpatchable = manifest[n].unpatchable
                              /\ manifest'[n].absent = manifest[n].absent
                              /\ DOMAIN manifest'[n] = DOMAIN manifest[n]
  BY <1>1 DEF UndoesManifest
<1>5. Grown(saved, manifest, saved', manifest')
  BY <1>3, <1>4 DEF Grown
<1>6. Types'
  BY <1>1, <1>3, <1>4 DEF IInv, Types, UndoesSlots
<1>7. ManifestsTyped'
  <2> SUFFICES ASSUME NEW n \in Manifests PROVE ManifestType(manifest'[n])
    BY DEF ManifestsTyped
  <2>1. CASE n # m
    BY <1>4, <2>1 DEF IInv, ManifestsTyped
  <2>2. CASE n = m
    BY <1>2, <1>4, <2>2, RangeOfNothing DEF ManifestType, InPlay, States
  <2> QED
    BY <2>1, <2>2
<1>8. SavesTyped' /\ Saves' /\ Held' /\ HalfChains'
  BY <1>3, <1>5, GrownSaves, GrownHeld DEF IInv, HalfChains
<1>9. Slots'
  <2> SUFFICES ASSUME NEW s \in Sites PROVE MaybeChain(slot'[s], s, saved', manifest')
    BY DEF Slots
  <2>1. CASE slot'[s] = slot[s]
    BY <1>5, <2>1, MaybeGrows DEF IInv, Chains, Slots
  <2>2. CASE \E r \in Range(manifest[m].sites) : r.at = s /\ slot[s] = r.installed
    <3>1. PICK r \in Range(manifest[m].sites) : r.at = s /\ slot[s] = r.installed
      BY <2>2
    <3>2. slot'[s] = Original(r)
      BY <1>1, <3>1 DEF UndoesSlots
    <3>3. SiteChain(r.original, s, saved, manifest)
      BY <3>1 DEF IInv, Chains, Records, Recorded
    <3>4. SiteChain(r.original, s, saved', manifest')
      BY <1>5, <3>3, ChainGrows
    <3> QED
      BY <3>2, <3>4 DEF Original, MaybeChain
  <2> QED
    BY <1>1, <2>1, <2>2 DEF UndoesSlots
<1>10. Records'
  <2> SUFFICES ASSUME NEW n \in Manifests, NEW r \in Range(manifest'[n].sites)
               PROVE  Recorded(r, n, saved', manifest')
    BY DEF Records
  <2>1. n # m /\ r \in Range(manifest[n].sites)
    BY <1>4, RangeOfNothing
  <2>2. manifest[n].state # "new"
    BY <2>1 DEF IInv, ManifestsTyped, ManifestType, InPlay, Range
  <2> QED
    BY <1>5, <2>1, <2>2, RecordedGrows DEF IInv, Chains, Records, SavesTyped
<1>11. Thread'
  <2>1. PICK listed : listed = Range(IF undoing = <<>> THEN active ELSE undoing)
    OBVIOUS
  <2>2. Range(IF undoing' = <<>> THEN active' ELSE undoing') = listed \ {m}
    BY <2>1
  <2>3. \A n \in Manifests : /\ manifest[n].state # "applying"
                             /\ manifest[n].state = "active" <=> n \in listed
    BY <2>1 DEF IInv, Thread
  <2>4. \A n \in Manifests : /\ manifest'[n].state # "applying"
                             /\ manifest'[n].state = "active" <=> n \in listed \ {m}
    BY <1>4, <2>3
  <2> QED
    BY <1>3, <2>2, <2>4 DEF Thread
<1>12. Hooks'
  <2>1. \A n \in Manifests : n # m => manifest'[n].teardown = manifest[n].teardown
    BY <1>4
  <2>2. \A n \in Manifests : n # m => manifest[n].teardown \cap manifest[m].teardown = {}
    BY DEF IInv, Hooks
  <2>3. \A n \in Manifests : manifest'[n].teardown \subseteq hooked'
    BY <1>3, <1>4, <2>1, <2>2 DEF IInv, Hooks
  <2>4. ASSUME NEW h \in hooked' PROVE \E n \in Manifests : h \in manifest'[n].teardown
    <3>1. PICK n \in Manifests : h \in manifest[n].teardown
      BY <1>3 DEF IInv, Hooks
    <3> QED
      BY <1>3, <2>1, <3>1
  <2>5. \A n, k \in Manifests : manifest'[n].teardown \cap manifest'[k].teardown # {} => n = k
    BY <1>4, <2>1 DEF IInv, Hooks
  <2> QED
    BY <2>3, <2>4, <2>5 DEF Hooks
<1>13. Deepagents'
  <2>1. ASSUME NEW n \in Manifests, manifest'[n].state \in {"active", "inert"} PROVE Faced(n)'
    <3>1. n # m
      BY <1>4, <2>1
    <3> QED
      BY <1>3, <1>4, <2>1, <3>1 DEF IInv, Deepagents, Faced
  <2> QED
    BY <1>3, <2>1 DEF Deepagents
<1>14. Untouched'
  <2> SUFFICES ASSUME NEW s \in Sites, ~ Touched(s)' PROVE Clean(s)'
    BY DEF Untouched
  <2>1. Clean(s) /\ \A o \in Others : saved[o].at # s
    BY <1>3 DEF IInv, Untouched, Touched
  <2>2. InForce(s)' = InForce(s) \ {m}
    BY <1>4 DEF InForce
  <2>3. CASE s \notin manifest[m].patched
    <3>1. \A r \in Range(manifest[m].sites) : r.at # s
      BY <1>2, <2>3 DEF ManifestType
    <3>2. slot'[s] = slot[s] /\ m \notin InForce(s)
      BY <1>1, <2>3, <3>1 DEF UndoesSlots, InForce
    <3> QED
      BY <1>4, <2>1, <2>2, <3>2 DEF Clean
  <2>4. CASE s \in manifest[m].patched
    <3>1. m \in InForce(s)
      BY <2>4 DEF InForce
    <3>2. InForce(s) = {m} /\ slot[s] = <<Ours(m, manifest[m].sensor)>>
      BY <2>1, <3>1 DEF Clean
    <3>3. PICK r \in Range(manifest[m].sites) : r.at = s
      BY <1>2, <2>4 DEF ManifestType, InPlay
    <3>4. /\ r.original = <<>> /\ (r.had_own <=> s \notin Inherited)
          /\ r.installed = <<Ours(m, manifest[m].sensor)>> \o r.original
      BY <2>1, <3>3 DEF IInv, Chains, Records, Recorded
    <3>5. r.installed = slot[s]
      BY <3>2, <3>4
    <3>6. slot'[s] = (IF s \in Inherited THEN NONE ELSE <<>>)
      BY <1>1, <3>3, <3>4, <3>5 DEF UndoesSlots, Original
    <3> QED
      BY <2>2, <3>2, <3>6 DEF Clean
  <2> QED
    BY <2>3, <2>4
<1> QED
  BY <1>6, <1>7, <1>8, <1>9, <1>10, <1>11, <1>12, <1>13, <1>14 DEF IInv, Chains

LEMMA UnprotectKeeps ==
    ASSUME NEW m \in Manifests, IInv, Unprotect(m)
    PROVE  IInv'
<1>1. /\ pc = NONE /\ undoing = <<>> /\ manifest[m].state = "active" /\ Undo(m)
      /\ active' = Without(m) /\ undoing' = undoing
  BY DEF Unprotect, Free
<1>2. active \in Seq(Manifests) /\ IsInjective(active) /\ m \in Range(active)
  BY <1>1 DEF IInv, Types, Thread
<1>3. PICK i \in DOMAIN active : active[i] = m /\ Without(m) = RemoveAt(active, i)
  BY <1>2 DEF Without, Range
<1>4. /\ active' \in Seq(Manifests)
      /\ IsInjective(active')
      /\ Range(active') = Range(active) \ {m}
  BY <1>1, <1>2, <1>3, ListsOneLess
<1>5. undoing' \in Seq(Manifests) /\ IsInjective(undoing') /\ Range(undoing') = {}
  BY <1>1 DEF IInv, Types, Thread, Range
<1> QED
  BY <1>1, <1>4, <1>5, UndoKeeps

LEMMA UnprotectAllKeeps == IInv /\ UnprotectAll => IInv'
<1> SUFFICES ASSUME IInv, UnprotectAll PROVE IInv'
  OBVIOUS
<1>1. /\ loaded' = loaded /\ slot' = slot /\ held' = held /\ manifest' = manifest
      /\ active' = active /\ hooked' = hooked /\ pc' = pc /\ saved' = saved /\ half' = half
      /\ agent' = agent /\ stack' = stack /\ ops' = ops
      /\ pc = NONE /\ undoing = <<>> /\ active # <<>> /\ undoing' = Reverse(active)
  BY DEF UnprotectAll, hostVars, Free
<1>2. active \in Seq(Manifests) /\ IsInjective(active)
  BY DEF IInv, Types, Thread
<1>3. /\ undoing' \in Seq(Manifests)
      /\ IsInjective(undoing')
      /\ Range(undoing') = Range(active)
      /\ undoing' # <<>>
  BY <1>1, <1>2, ListsBackwards
<1>4. Types'
  BY <1>1, <1>3 DEF IInv, Types
<1>5. ManifestsTyped' /\ SavesTyped' /\ HalfChains' /\ Hooks'
  BY <1>1 DEF IInv, ManifestsTyped, SavesTyped, HalfChains, Hooks
<1>6. Slots' /\ Saves' /\ Records' /\ Held'
  BY <1>1 DEF IInv, Chains, Slots, Saves, Records, Held
<1>7. Thread'
  BY <1>1, <1>3 DEF IInv, Thread
<1>8. Deepagents'
  BY <1>1 DEF IInv, Deepagents, Faced
<1>9. Untouched'
  BY <1>1 DEF IInv, Untouched, Touched, Clean, InForce
<1> QED
  BY <1>4, <1>5, <1>6, <1>7, <1>8, <1>9 DEF IInv, Chains

LEMMA UnprotectNextKeeps == IInv /\ UnprotectNext => IInv'
<1> SUFFICES ASSUME IInv, UnprotectNext PROVE IInv'
  OBVIOUS
<1>1. PICK m : m = Head(undoing)
  OBVIOUS
<1>2. /\ undoing # <<>> /\ Undo(m) /\ undoing' = Tail(undoing)
      /\ active' = IF undoing' = <<>> THEN <<>> ELSE active
  BY <1>1 DEF UnprotectNext
<1>3. /\ undoing \in Seq(Manifests) /\ IsInjective(undoing) /\ active \in Seq(Manifests)
      /\ IsInjective(active) /\ Range(undoing) \subseteq Range(active) /\ pc = NONE
  BY <1>2 DEF IInv, Types, Thread
<1>4. /\ m \in Range(undoing)
      /\ undoing' \in Seq(Manifests)
      /\ IsInjective(undoing')
      /\ Range(undoing') = Range(undoing) \ {m}
  BY <1>1, <1>2, <1>3, ListsTheRest
<1>5. m \in Manifests /\ manifest[m].state = "active"
  <2>1. m \in Manifests
    BY <1>3, <1>4 DEF Range
  <2> QED
    BY <1>2, <1>4, <2>1 DEF IInv, Thread
<1>6. /\ active' \in Seq(Manifests)
      /\ IsInjective(active')
      /\ Range(undoing') \subseteq Range(active')
      /\ Range(IF undoing' = <<>> THEN active' ELSE undoing') = Range(undoing')
  <2>1. CASE undoing' = <<>>
    <3>1. <<>> \in Seq(Manifests) /\ IsInjective(<<>>)
      BY DEF IsInjective
    <3> QED
      BY <1>2, <2>1, <3>1, RangeOfNothing
  <2>2. CASE undoing' # <<>>
    BY <1>2, <1>3, <1>4, <2>2
  <2> QED
    BY <2>1, <2>2
<1>7. Range(IF undoing' = <<>> THEN active' ELSE undoing')
          = Range(IF undoing = <<>> THEN active ELSE undoing) \ {m}
  BY <1>2, <1>4, <1>6
<1> QED
  BY <1>2, <1>3, <1>4, <1>5, <1>6, <1>7, UndoKeeps

-----------------------------------------------------------------------------
(* The host and the third parties *)

LEMMA LoadKeeps ==
    ASSUME NEW f \in Late, IInv, Load(f)
    PROVE  IInv'
<1>1. /\ slot' = slot /\ manifest' = manifest /\ undoing' = undoing
      /\ active' = active /\ hooked' = hooked /\ pc' = pc /\ saved' = saved /\ half' = half
      /\ agent' = agent /\ stack' = stack /\ ops' = ops
  BY DEF Load, hostVars
<1>2. /\ f \notin loaded /\ loaded \subseteq loaded' /\ loaded' \subseteq Imports
      /\ f = "deepagents" => held' = Resolved("create_agent") /\ "deepagents" \in loaded'
      /\ f # "deepagents" => held' = held
  BY ImportsAssumption DEF Load, IInv, Types
<1>3. Types'
  BY <1>1, <1>2 DEF IInv, Types
<1>4. ManifestsTyped' /\ SavesTyped' /\ HalfChains' /\ Hooks'
  BY <1>1 DEF IInv, ManifestsTyped, SavesTyped, HalfChains, Hooks
<1>5. Slots' /\ Saves' /\ Records'
  BY <1>1 DEF IInv, Chains, Slots, Saves, Records
<1>6. Held'
  <2>1. CASE f = "deepagents"
    <3>1. SiteChain(Resolved("create_agent"), "create_agent", saved, manifest)
      BY ResolvedChain, CreateAgentIsASite
    <3> QED
      BY <1>1, <1>2, <2>1, <3>1 DEF Held, MaybeChain
  <2>2. CASE f # "deepagents"
    BY <1>1, <1>2, <2>2 DEF IInv, Chains, Held
  <2> QED
    BY <2>1, <2>2
<1>7. Thread'
  BY <1>1 DEF IInv, Thread
\* deepagents was not there to be covered, so whoever asked was told.
<1>8. ASSUME NEW m, Faced(m) PROVE Faced(m)'
  <2>1. CASE f = "deepagents"
    <3>1. held = NONE
      BY <1>2, <2>1 DEF IInv, Chains, Held
    <3> QED
      BY <1>1, <1>8, <3>1 DEF Faced
  <2>2. CASE f # "deepagents"
    BY <1>1, <1>2, <1>8, <2>2 DEF Faced
  <2> QED
    BY <2>1, <2>2
<1>9. Deepagents'
  <2>1. ASSUME NEW m \in Manifests, manifest'[m].state \in {"active", "inert"} PROVE Faced(m)'
    BY <1>1, <1>8, <2>1 DEF IInv, Deepagents
  <2>2. ASSUME pc' # NONE, pc'.next > DeepagentsAt PROVE Faced(pc.m)'
    BY <1>1, <1>8, <2>2 DEF IInv, Deepagents
  <2> QED
    BY <1>1, <2>1, <2>2 DEF Deepagents, Faced
<1>10. Untouched'
  BY <1>1 DEF IInv, Untouched, Touched, Clean, InForce
<1> QED
  BY <1>3, <1>4, <1>5, <1>6, <1>7, <1>9, <1>10 DEF IInv, Chains

\* The parts of the invariant no third party can disturb.
LEMMA OthersKeep ==
    ASSUME IInv, UNCHANGED <<loaded, held, manifest, active, hooked, pc, undoing>>,
           Grown(saved, manifest, saved', manifest')
    PROVE  /\ ManifestsTyped' /\ Thread' /\ Hooks' /\ Deepagents'
           /\ Records' /\ Held'
<1>1. ManifestsTyped' /\ Hooks' /\ Thread'
  BY DEF IInv, ManifestsTyped, Hooks, Thread
<1>2. Deepagents'
  BY DEF IInv, Deepagents, Faced
<1>3. Held'
  BY MaybeGrows DEF IInv, Chains, Held
<1>4. Records'
  <2> SUFFICES ASSUME NEW m \in Manifests, NEW r \in Range(manifest'[m].sites)
               PROVE  Recorded(r, m, saved', manifest')
    BY DEF Records
  <2>1. manifest[m].state # "new"
    BY DEF IInv, ManifestsTyped, ManifestType, InPlay, Range
  <2> QED
    BY <2>1, RecordedGrows DEF IInv, Chains, Records, SavesTyped
<1> QED
  BY <1>1, <1>2, <1>3, <1>4

\* A third party's own record goes from ready to on to gone.
Moves(o, to) ==
    /\ DOMAIN saved' = Others
    /\ \A p \in Others : p # o => saved'[p] = saved[p]
    /\ DOMAIN saved'[o] = {"state", "at", "was"}
    /\ saved'[o].state = to /\ to # "ready"

LEMMA MovedGrows ==
    ASSUME IInv, NEW o \in Others, NEW to, Moves(o, to), manifest' = manifest,
           saved[o].state = "ready" \/ saved'[o].at = saved[o].at
    PROVE  Grown(saved, manifest, saved', manifest')
BY DEF Moves, Grown

LEMMA HalfGrows ==
    ASSUME NEW c, NEW sv, NEW mf, NEW sv2, NEW mf2, HalfChain(c, sv), Grown(sv, mf, sv2, mf2)
    PROVE  HalfChain(c, sv2)
<1>1. \A i \in DOMAIN c : c[i].kind # "xaidr" => c[i].who \in Others
  BY DEF HalfChain, Layer
<1> QED
  BY <1>1 DEF HalfChain, Grown

\* One layer more around one half of a tool.
LEMMA WrappedHalf ==
    ASSUME NEW c, NEW sv, NEW l \in Layer, HalfChain(c, sv),
           IF l.kind = "xaidr" THEN l.who = "protect_tools" /\ ~ WrappedBySelf(c, l.sensor)
                               ELSE sv[l.who].state # "ready" /\ \A i \in DOMAIN c : c[i] # l
    PROVE  HalfChain(<<l>> \o c, sv)
<1> PICK d : d = <<l>> \o c
  OBVIOUS
<1>0. c \in Seq(Layer)
  BY DEF HalfChain
<1>1. /\ d \in Seq(Layer) /\ DOMAIN d = 1..(Len(c) + 1) /\ Len(c) \in Nat
      /\ DOMAIN c = 1..Len(c) /\ d[1] = l
      /\ \A i \in DOMAIN d : i # 1 => i - 1 \in DOMAIN c /\ d[i] = c[i - 1]
  BY <1>0, Pushed
<1>2. ASSUME NEW i \in DOMAIN d, NEW j \in DOMAIN d, d[i] = d[j], d[i].kind = "other" PROVE i = j
  <2>1. \A a, b \in DOMAIN c : c[a] = c[b] /\ c[a].kind = "other" => a = b
    BY DEF HalfChain
  <2>2. CASE i = 1 /\ j # 1
    BY <1>1, <1>2, <2>2
  <2>3. CASE i # 1 /\ j = 1
    BY <1>1, <1>2, <2>3
  <2>4. CASE i # 1 /\ j # 1
    BY <1>1, <1>2, <2>1, <2>4
  <2> QED
    BY <2>2, <2>3, <2>4
<1>3. ASSUME NEW i \in DOMAIN d
      PROVE  IF d[i].kind = "xaidr" THEN d[i].who = "protect_tools"
             ELSE sv[d[i].who].state # "ready"
  <2>1. CASE i = 1
    BY <1>1, <2>1
  <2>2. CASE i # 1
    BY <1>1, <2>2 DEF HalfChain
  <2> QED
    BY <2>1, <2>2
<1>4. ASSUME NEW i \in DOMAIN d, NEW j \in DOMAIN d, i < j,
             d[i].kind = "xaidr", d[j].kind = "xaidr", d[i].sensor = d[j].sensor
      PROVE  Hidden(d, i, j)
  <2>1. j # 1 /\ j - 1 \in DOMAIN c /\ d[j] = c[j - 1] /\ (j - 1) + 1 = j
    BY <1>1, <1>4
  <2>2. CASE i = 1
    <3>1. c[j - 1] \notin Visible(c)
      BY <1>1, <1>4, <2>1, <2>2 DEF WrappedBySelf
    <3> QED
      BY <1>0, <1>4, <2>1, <2>2, <3>1, UnseenIsHidden
  <2>3. CASE i # 1
    <3>1. i - 1 \in DOMAIN c /\ d[i] = c[i - 1] /\ (i - 1) + 1 = i /\ i - 1 < j - 1
      BY <1>1, <1>4, <2>3
    <3>2. Hidden(c, i - 1, j - 1)
      BY <1>4, <2>1, <3>1 DEF HalfChain
    <3> QED
      BY <1>0, <2>1, <3>1, <3>2, HiddenBelow
  <2> QED
    BY <2>2, <2>3
<1> QED
  BY <1>1, <1>2, <1>3, <1>4 DEF HalfChain

LEMMA OtherPatchesKeeps ==
    ASSUME NEW o \in Others, NEW s \in Sites, IInv, OtherPatches(o, s)
    PROVE  IInv'
<1>1. /\ loaded' = loaded /\ held' = held /\ manifest' = manifest /\ active' = active
      /\ hooked' = hooked /\ pc' = pc /\ undoing' = undoing /\ half' = half /\ agent' = agent
      /\ stack' = stack /\ ops' = ops + 1
  BY DEF OtherPatches, Counted
<1>2. saved[o].state = "ready" /\ saved[o].at = NONE /\ DOMAIN saved = Others
  BY DEF OtherPatches, IInv, SavesTyped, SavedType, Types
<1>3. saved' = [saved EXCEPT ![o] = [state |-> "on", at |-> s, was |-> slot[s]]]
  BY DEF OtherPatches
<1>4. Moves(o, "on") /\ saved'[o].at = s /\ saved'[o].was = slot[s]
  BY <1>2, <1>3 DEF Moves
<1>5. Grown(saved, manifest, saved', manifest')
  BY <1>1, <1>2, <1>4, MovedGrows
<1>6. /\ DOMAIN slot' = Sites /\ slot'[s] = <<Theirs(o)>> \o Resolved(s)
      /\ \A t \in Sites : t # s => slot'[t] = slot[t]
  BY DEF OtherPatches, IInv, Types
<1>7. Types'
  BY <1>1, <1>4, <1>6 DEF IInv, Types, Moves
<1>8. SavesTyped'
  <2> SUFFICES ASSUME NEW p \in Others PROVE SavedType(p, saved')
    BY DEF SavesTyped
  <2>1. CASE p = o
    BY <1>4, <2>1 DEF SavedType, Moves
  <2>2. CASE p # o
    BY <1>4, <2>2 DEF IInv, SavesTyped, SavedType, Moves
  <2> QED
    BY <2>1, <2>2
<1>9. Slots'
  <2> SUFFICES ASSUME NEW t \in Sites PROVE MaybeChain(slot'[t], t, saved', manifest')
    BY DEF Slots
  <2>1. CASE t # s
    BY <1>5, <1>6, <2>1, MaybeGrows DEF IInv, Chains, Slots
  <2>2. CASE t = s
    <3>1. PICK l : l = Theirs(o)
      OBVIOUS
    <3>2. l \in Layer /\ l.kind = "other" /\ l.who = o
      BY <3>1 DEF Theirs, Layer
    <3>3. PICK c : c = Resolved(s)
      OBVIOUS
    <3>4. SiteChain(c, s, saved, manifest) /\ SiteChain(c, s, saved', manifest')
      BY <1>5, <3>3, ResolvedChain, ChainGrows
    <3>5. ASSUME NEW i \in DOMAIN c, c[i] = l PROVE FALSE
      <4>1. Placed(l, s, saved, manifest)
        BY <3>4, <3>5 DEF SiteChain
      <4> QED
        BY <1>2, <3>2, <4>1 DEF Placed
    <3>6. Placed(l, s, saved', manifest')
      BY <1>4, <3>2 DEF Placed, Moves
    <3>7. SiteChain(<<l>> \o c, s, saved', manifest')
      BY <3>2, <3>4, <3>5, <3>6, WrappedChain
    <3> QED
      BY <1>6, <2>2, <3>1, <3>3, <3>7 DEF MaybeChain
  <2> QED
    BY <2>1, <2>2
<1>10. Saves'
  <2> SUFFICES ASSUME NEW p \in Others, saved'[p].state = "on"
               PROVE  MaybeChain(saved'[p].was, saved'[p].at, saved', manifest')
    BY DEF Saves
  <2>1. CASE p # o
    BY <1>4, <1>5, <2>1, MaybeGrows DEF IInv, Chains, Saves, Moves
  <2>2. CASE p = o
    BY <1>4, <1>5, <2>2, MaybeGrows DEF IInv, Chains, Slots
  <2> QED
    BY <2>1, <2>2
<1>11. HalfChains'
  BY <1>1, <1>5, HalfGrows DEF IInv, HalfChains
<1>12. Untouched'
  <2> SUFFICES ASSUME NEW t \in Sites, ~ Touched(t)' PROVE Clean(t)'
    BY DEF Untouched
  <2>1. t # s
    BY <1>4 DEF Touched
  <2>2. ASSUME NEW p \in Others PROVE saved[p].at # t
    <3>1. NONE \notin Sites
      BY NoneAssumption
    <3> QED
      BY <1>2, <1>4, <3>1 DEF Touched, Moves
  <2>3. Clean(t)
    BY <2>2 DEF IInv, Untouched, Touched
  <2> QED
    BY <1>1, <1>6, <2>1, <2>3 DEF Clean, InForce
<1>13. ManifestsTyped' /\ Thread' /\ Hooks' /\ Deepagents' /\ Records' /\ Held'
  BY <1>1, <1>5, OthersKeep
<1> QED
  BY <1>7, <1>8, <1>9, <1>10, <1>11, <1>12, <1>13 DEF IInv, Chains

LEMMA OtherLeavesKeeps ==
    ASSUME NEW o \in Others, IInv, OtherLeaves(o)
    PROVE  IInv'
<1>1. /\ loaded' = loaded /\ held' = held /\ manifest' = manifest /\ active' = active
      /\ hooked' = hooked /\ pc' = pc /\ undoing' = undoing /\ half' = half /\ agent' = agent
      /\ stack' = stack /\ ops' = ops + 1
  BY DEF OtherLeaves, Counted
<1>2. /\ saved[o].state = "on" /\ saved[o].at \in Sites /\ DOMAIN saved = Others
      /\ DOMAIN saved[o] = {"state", "at", "was"}
  BY DEF OtherLeaves, IInv, SavesTyped, SavedType, Types
<1>3. saved' = [saved EXCEPT ![o].state = "gone"]
  BY DEF OtherLeaves
<1>4. Moves(o, "gone") /\ saved'[o].at = saved[o].at
  BY <1>2, <1>3 DEF Moves
<1>5. Grown(saved, manifest, saved', manifest')
  BY <1>1, <1>2, <1>4, MovedGrows
<1>6. PICK s \in Sites : s = saved[o].at
  BY <1>2
<1>7. /\ DOMAIN slot' = Sites /\ slot'[s] = saved[o].was
      /\ \A t \in Sites : t # s => slot'[t] = slot[t]
  BY <1>6 DEF OtherLeaves, IInv, Types
<1>8. Types'
  BY <1>1, <1>4, <1>7 DEF IInv, Types, Moves
<1>9. SavesTyped'
  <2> SUFFICES ASSUME NEW p \in Others PROVE SavedType(p, saved')
    BY DEF SavesTyped
  <2>1. CASE p = o
    BY <1>4, <2>1 DEF SavedType, Moves
  <2>2. CASE p # o
    BY <1>4, <2>2 DEF IInv, SavesTyped, SavedType, Moves
  <2> QED
    BY <2>1, <2>2
<1>10. Slots'
  <2> SUFFICES ASSUME NEW t \in Sites PROVE MaybeChain(slot'[t], t, saved', manifest')
    BY DEF Slots
  <2>1. CASE t # s
    BY <1>5, <1>7, <2>1, MaybeGrows DEF IInv, Chains, Slots
  <2>2. CASE t = s
    <3>1. MaybeChain(saved[o].was, s, saved, manifest)
      BY <1>2, <1>6 DEF IInv, Chains, Saves
    <3> QED
      BY <1>5, <1>7, <2>2, <3>1, MaybeGrows
  <2> QED
    BY <2>1, <2>2
<1>11. Saves'
  <2> SUFFICES ASSUME NEW p \in Others, saved'[p].state = "on"
               PROVE  MaybeChain(saved'[p].was, saved'[p].at, saved', manifest')
    BY DEF Saves
  <2>1. p # o
    BY <1>4 DEF Moves
  <2> QED
    BY <1>4, <1>5, <2>1, MaybeGrows DEF IInv, Chains, Saves, Moves
<1>12. HalfChains'
  BY <1>1, <1>5, HalfGrows DEF IInv, HalfChains
<1>13. Untouched'
  <2> SUFFICES ASSUME NEW t \in Sites, ~ Touched(t)' PROVE Clean(t)'
    BY DEF Untouched
  <2>1. \A p \in Others : saved'[p].at = saved[p].at
    BY <1>4 DEF Moves
  <2>2. t # s /\ ~ Touched(t)
    BY <1>6, <2>1 DEF Touched
  <2>3. Clean(t)
    BY <2>2 DEF IInv, Untouched
  <2> QED
    BY <1>1, <1>7, <2>2, <2>3 DEF Clean, InForce
<1>14. ManifestsTyped' /\ Thread' /\ Hooks' /\ Deepagents' /\ Records' /\ Held'
  BY <1>1, <1>5, OthersKeep
<1> QED
  BY <1>8, <1>9, <1>10, <1>11, <1>12, <1>13, <1>14 DEF IInv, Chains

LEMMA OtherDecoratesKeeps ==
    ASSUME NEW o \in Others, NEW h \in Halves, IInv, OtherDecorates(o, h)
    PROVE  IInv'
<1>1. /\ loaded' = loaded /\ held' = held /\ manifest' = manifest /\ active' = active
      /\ hooked' = hooked /\ pc' = pc /\ undoing' = undoing /\ slot' = slot /\ agent' = agent
      /\ stack' = stack /\ ops' = ops + 1
  BY DEF OtherDecorates, Counted, bindVars
<1>2. /\ saved[o].state = "ready" /\ saved[o].at = NONE /\ DOMAIN saved = Others
      /\ DOMAIN saved[o] = {"state", "at", "was"}
  BY DEF OtherDecorates, IInv, SavesTyped, SavedType, Types
<1>3. saved' = [saved EXCEPT ![o].state = "gone"]
  BY DEF OtherDecorates
<1>4. Moves(o, "gone") /\ saved'[o].at = saved[o].at
  BY <1>2, <1>3 DEF Moves
<1>5. Grown(saved, manifest, saved', manifest')
  BY <1>1, <1>2, <1>4, MovedGrows
<1>6. /\ DOMAIN half' = Halves /\ half'[h] = <<Theirs(o)>> \o half[h]
      /\ \A g \in Halves : g # h => half'[g] = half[g]
  BY DEF OtherDecorates, IInv, Types
<1>7. Types'
  BY <1>1, <1>4, <1>6 DEF IInv, Types, Moves
<1>8. SavesTyped'
  <2> SUFFICES ASSUME NEW p \in Others PROVE SavedType(p, saved')
    BY DEF SavesTyped
  <2>1. CASE p = o
    BY <1>4, <2>1 DEF SavedType, Moves
  <2>2. CASE p # o
    BY <1>4, <2>2 DEF IInv, SavesTyped, SavedType, Moves
  <2> QED
    BY <2>1, <2>2
<1>9. Slots'
  BY <1>1, <1>5, MaybeGrows DEF IInv, Chains, Slots
<1>10. Saves'
  <2> SUFFICES ASSUME NEW p \in Others, saved'[p].state = "on"
               PROVE  MaybeChain(saved'[p].was, saved'[p].at, saved', manifest')
    BY DEF Saves
  <2>1. p # o
    BY <1>4 DEF Moves
  <2> QED
    BY <1>4, <1>5, <2>1, MaybeGrows DEF IInv, Chains, Saves, Moves
<1>11. HalfChains'
  <2> SUFFICES ASSUME NEW g \in Halves PROVE HalfChain(half'[g], saved')
    BY DEF HalfChains
  <2>1. HalfChain(half[g], saved) /\ HalfChain(half[g], saved')
    BY <1>5, HalfGrows DEF IInv, HalfChains
  <2>2. CASE g # h
    BY <1>6, <2>1, <2>2
  <2>3. CASE g = h
    <3>1. PICK l, c : l = Theirs(o) /\ c = half[h]
      OBVIOUS
    <3>2. l \in Layer /\ l.kind = "other" /\ l.who = o
      BY <3>1 DEF Theirs, Layer
    <3>3. HalfChain(c, saved) /\ HalfChain(c, saved')
      BY <2>1, <2>3, <3>1
    <3>4. \A i \in DOMAIN c : c[i] # l
      BY <1>2, <3>2, <3>3 DEF HalfChain
    <3>5. saved'[l.who].state # "ready"
      BY <1>4, <3>2 DEF Moves
    <3>6. HalfChain(<<l>> \o c, saved')
      BY <3>2, <3>3, <3>4, <3>5, WrappedHalf
    <3> QED
      BY <1>6, <2>3, <3>1, <3>6
  <2> QED
    BY <2>2, <2>3
<1>12. Untouched'
  <2> SUFFICES ASSUME NEW t \in Sites, ~ Touched(t)' PROVE Clean(t)'
    BY DEF Untouched
  <2>1. \A p \in Others : saved'[p].at = saved[p].at
    BY <1>4 DEF Moves
  <2>2. ~ Touched(t)
    BY <2>1 DEF Touched
  <2>3. Clean(t)
    BY <2>2 DEF IInv, Untouched
  <2> QED
    BY <1>1, <2>3 DEF Clean, InForce
<1>13. ManifestsTyped' /\ Thread' /\ Hooks' /\ Deepagents' /\ Records' /\ Held'
  BY <1>1, <1>5, OthersKeep
<1> QED
  BY <1>7, <1>8, <1>9, <1>10, <1>11, <1>12, <1>13 DEF IInv, Chains

-----------------------------------------------------------------------------
(* protect_tools() and the calls *)

\* Steps that leave the patches and the third parties alone.
LEMMA CallsKeep ==
    ASSUME IInv, UNCHANGED <<bindVars, saved>>, Types', HalfChains'
    PROVE  IInv'
<1>1. /\ loaded' = loaded /\ held' = held /\ manifest' = manifest /\ active' = active
      /\ hooked' = hooked /\ pc' = pc /\ undoing' = undoing /\ slot' = slot /\ saved' = saved
  BY DEF bindVars
<1>2. ManifestsTyped' /\ SavesTyped' /\ Hooks' /\ Thread'
  BY <1>1 DEF IInv, ManifestsTyped, SavesTyped, Hooks, Thread
<1>3. Slots' /\ Saves' /\ Records' /\ Held'
  BY <1>1 DEF IInv, Chains, Slots, Saves, Records, Held
<1>4. Deepagents'
  BY <1>1 DEF IInv, Deepagents, Faced
<1>5. Untouched'
  BY <1>1 DEF IInv, Untouched, Touched, Clean, InForce
<1> QED
  BY <1>2, <1>3, <1>4, <1>5 DEF IInv, Chains

LEMMA ProtectToolsKeeps ==
    ASSUME NEW sensor \in Sensors, IInv, ProtectTools(sensor)
    PROVE  IInv'
<1>1. /\ UNCHANGED <<bindVars, saved, agent, stack>> /\ ops' = ops + 1
      /\ DOMAIN half' = Halves
      /\ \A h \in Halves : half'[h] = ProtectHalf(half[h], sensor)
  BY DEF ProtectTools, Counted
<1>2. Types'
  BY <1>1 DEF IInv, Types, bindVars
<1>3. HalfChains'
  <2> SUFFICES ASSUME NEW h \in Halves PROVE HalfChain(half'[h], saved)
    BY <1>1 DEF HalfChains
  <2>1. PICK l, c : l = Ours("protect_tools", sensor) /\ c = half[h]
    OBVIOUS
  <2>2. HalfChain(c, saved)
    BY <2>1 DEF IInv, HalfChains
  <2>3. CASE WrappedBySelf(c, sensor)
    BY <1>1, <2>1, <2>2, <2>3 DEF ProtectHalf
  <2>4. CASE ~ WrappedBySelf(c, sensor)
    <3>1. l \in Layer /\ l.kind = "xaidr" /\ l.who = "protect_tools" /\ l.sensor = sensor
      BY <2>1 DEF Ours, Layer
    <3>2. HalfChain(<<l>> \o c, saved)
      BY <2>2, <2>4, <3>1, WrappedHalf
    <3> QED
      BY <1>1, <2>1, <2>4, <3>2 DEF ProtectHalf
  <2> QED
    BY <2>3, <2>4
<1> QED
  BY <1>1, <1>2, <1>3, CallsKeep

\* The outermost wrapper of ours is somebody's sensor.
LEMMA InjectedIsASensor ==
    ASSUME NEW chain \in Seq(Layer), Injected(chain) # NONE
    PROVE  Injected(chain) \in Sensors
<1> DEFINE ours == {i \in DOMAIN chain : chain[i].kind = "xaidr"}
<1>1. ours # {} /\ ours \subseteq Nat
  <2>1. ours # {}
    BY DEF Injected
  <2>2. DOMAIN chain \subseteq Nat
    OBVIOUS
  <2> QED
    BY <2>1, <2>2
<1>2. PICK i \in ours : \A j \in ours : <<j, i>> \notin OpToRel(<, Nat)
  BY <1>1, WFMin, NatLessThanWellFounded
<1>3. ASSUME NEW j \in ours PROVE i <= j
  <2>1. i \in Nat /\ j \in Nat
    BY <1>1
  <2>2. j < i => <<j, i>> \in OpToRel(<, Nat)
    BY <2>1 DEF OpToRel
  <2>3. ~ (j < i)
    BY <1>2, <2>2
  <2> QED
    BY <2>1, <2>3
<1>4. PICK k \in ours : Injected(chain) = chain[k].sensor
  BY <1>1, <1>3 DEF Injected
<1>5. chain[k] \in Layer /\ chain[k].kind = "xaidr"
  BY <1>4
<1> QED
  BY <1>4, <1>5 DEF Layer

LEMMA BuildAgentKeeps ==
    ASSUME NEW chain \in Seq(Layer), IInv, BuildAgent(chain)
    PROVE  IInv'
<1>1. /\ UNCHANGED <<bindVars, saved, half, stack>> /\ ops' = ops + 1
      /\ agent' = Injected(chain) /\ agent' # NONE
  BY DEF BuildAgent, Counted
<1>2. agent' \in Sensors
  BY <1>1, InjectedIsASensor
<1>3. Types'
  BY <1>1, <1>2 DEF IInv, Types, bindVars
<1>4. HalfChains'
  BY <1>1 DEF IInv, HalfChains
<1> QED
  BY <1>1, <1>3, <1>4, CallsKeep

LEMMA CallKeeps ==
    ASSUME IInv, NEW call \in Calls, stack' = Append(stack, call), ops' = ops + 1,
           UNCHANGED <<bindVars, saved, half, agent>>
    PROVE  IInv'
<1>1. stack' \in Seq(Calls)
  BY DEF IInv, Types
<1>2. Types'
  BY <1>1 DEF IInv, Types, bindVars
<1>3. HalfChains'
  BY DEF IInv, HalfChains
<1> QED
  BY <1>2, <1>3, CallsKeep

LEMMA CallFromAgentKeeps == IInv /\ CallFromAgent => IInv'
<1> SUFFICES ASSUME IInv, CallFromAgent PROVE IInv'
  OBVIOUS
<1>1. agent \in Sensors
  BY DEF CallFromAgent, IInv, Types
<1>2. PICK b \in BOOLEAN : b = (OursIn(Resolved("BaseTool.run")) # {})
  OBVIOUS
<1>3. PICK call : call = [from |-> "agent", patched |-> b, scans |-> {agent}]
  OBVIOUS
<1>4. call \in Calls
  BY <1>1, <1>3 DEF Calls
<1>5. /\ stack' = Append(stack, call) /\ ops' = ops + 1
      /\ UNCHANGED <<bindVars, saved, half, agent>>
  BY <1>2, <1>3 DEF CallFromAgent, Counted
<1> QED
  BY <1>4, <1>5, CallKeeps

LEMMA BaseToolRunIsASite == "BaseTool.run" \in Sites
<1>1. TARGETS[4].at = "BaseTool.run" /\ TARGETS[4].kind = "install" /\ Imported(4)
  BY TargetsSteps, ImportsAssumption DEF Step, Imported
<1>2. 4 \in DOMAIN TARGETS
  BY TargetsLength
<1> QED
  BY <1>1, <1>2 DEF Sites

LEMMA CallDirectKeeps == IInv /\ CallDirect => IInv'
<1> SUFFICES ASSUME IInv, CallDirect PROVE IInv'
  OBVIOUS
<1>1. PICK chain : chain = Resolved("BaseTool.run")
  OBVIOUS
<1>2. chain \in Seq(Layer)
  BY <1>1, BaseToolRunIsASite, ResolvedChain DEF SiteChain
<1>3. RunScans(chain) \subseteq Sensors
  <2>1. ASSUME NEW l \in OursIn(chain) PROVE l.sensor \in Sensors
    <3>1. l \in Layer /\ l.kind = "xaidr"
      BY <1>2 DEF OursIn, Layers, Range
    <3> QED
      BY <3>1 DEF Layer
  <2> QED
    BY <2>1 DEF RunScans
<1>4. PICK b \in BOOLEAN, scans \in SUBSET Sensors :
          b = (OursIn(chain) # {}) /\ scans = RunScans(chain)
  BY <1>3
<1>5. PICK call : call = [from |-> "direct", patched |-> b, scans |-> scans]
  OBVIOUS
<1>6. call \in Calls
  BY <1>5 DEF Calls
<1>7. /\ stack' = Append(stack, call) /\ ops' = ops + 1
      /\ UNCHANGED <<bindVars, saved, half, agent>>
  BY <1>1, <1>4, <1>5 DEF CallDirect, Counted
<1> QED
  BY <1>6, <1>7, CallKeeps

LEMMA ReturnKeeps == IInv /\ Return => IInv'
<1> SUFFICES ASSUME IInv, Return PROVE IInv'
  OBVIOUS
<1>1. stack \in Seq(Calls) /\ stack # <<>> /\ stack' = SubSeq(stack, 1, Len(stack) - 1)
  BY DEF IInv, Types, Return
<1>2. stack' \in Seq(Calls)
  BY <1>1
<1>3. UNCHANGED <<bindVars, saved, half, agent>> /\ ops' = ops
  BY DEF Return
<1>4. Types'
  BY <1>2, <1>3 DEF IInv, Types, bindVars
<1>5. HalfChains'
  BY <1>3 DEF IInv, HalfChains
<1> QED
  BY <1>3, <1>4, <1>5, CallsKeep

-----------------------------------------------------------------------------
(* The invariant *)

LEMMA InitInvariant == Init => IInv
<1> SUFFICES ASSUME Init PROVE IInv
  OBVIOUS
<1>1. \A m \in Manifests : manifest[m] = Blank
  BY DEF Init
<1>2. /\ Blank.state = "new" /\ Blank.sites = <<>> /\ Blank.teardown = {} /\ Blank.patched = {}
  BY DEF Blank
<1>3. Types
  BY BoundsAssumption DEF Init, Types
<1>4. ManifestsTyped
  BY <1>1, BlankType DEF ManifestsTyped
<1>5. SavesTyped /\ Saves
  BY DEF Init, SavesTyped, SavedType, Saves
<1>6. Slots
  BY BareChain DEF Init, Slots, MaybeChain
<1>7. Records
  BY <1>1, <1>2, RangeOfNothing DEF Records
<1>8. Held
  BY DEF Init, Held, MaybeChain
<1>9. HalfChains
  <2>1. <<>> \in Seq(Layer) /\ DOMAIN <<>> = {}
    OBVIOUS
  <2>2. HalfChain(<<>>, saved)
    BY <2>1 DEF HalfChain
  <2> QED
    BY <2>2 DEF Init, HalfChains
<1>10. Thread
  <2>1. IsInjective(<<>>)
    BY DEF IsInjective
  <2> QED
    BY <1>1, <1>2, <2>1, RangeOfNothing DEF Init, Thread
<1>11. Hooks
  BY <1>1, <1>2 DEF Init, Hooks
<1>12. Deepagents
  BY <1>1, <1>2 DEF Init, Deepagents
<1>13. Untouched
  <2>1. ASSUME NEW s \in Sites PROVE InForce(s) = {}
    BY <1>1, <1>2 DEF InForce
  <2> QED
    BY <2>1 DEF Init, Untouched, Clean
<1> QED
  BY <1>3, <1>4, <1>5, <1>6, <1>7, <1>8, <1>9, <1>10, <1>11, <1>12, <1>13 DEF IInv, Chains

LEMMA NextKeeps == IInv /\ [Next]_vars => IInv'
<1> SUFFICES ASSUME IInv, [Next]_vars PROVE IInv'
  OBVIOUS
<1>1. ASSUME NEW m \in Manifests, NEW s \in Sensors, Protect(m, s) PROVE IInv'
  BY <1>1, ProtectKeeps
<1>2. CASE NotPresent
  BY <1>2, NotPresentKeeps
<1>3. CASE InstallFails
  BY <1>3, InstallFailsKeeps
<1>4. CASE AlreadyPatched
  BY <1>4, AlreadyPatchedKeeps
<1>5. CASE Install
  BY <1>5, InstallKeeps
<1>6. CASE InstallHook
  BY <1>6, InstallHookKeeps
<1>7. CASE ReportUnpatchable
  BY <1>7, ReportUnpatchableKeeps
<1>8. CASE ProbeDeepagents
  BY <1>8, ProbeDeepagentsKeeps
<1>9. CASE Protected
  BY <1>9, ProtectedKeeps
<1>10. ASSUME NEW m \in Manifests, Unprotect(m) PROVE IInv'
  BY <1>10, UnprotectKeeps
<1>11. CASE UnprotectAll
  BY <1>11, UnprotectAllKeeps
<1>12. CASE UnprotectNext
  BY <1>12, UnprotectNextKeeps
<1>13. ASSUME NEW f \in Late, Load(f) PROVE IInv'
  BY <1>13, LoadKeeps
<1>14. ASSUME NEW o \in Others, NEW s \in Sites, OtherPatches(o, s) PROVE IInv'
  BY <1>14, OtherPatchesKeeps
<1>15. ASSUME NEW o \in Others, OtherLeaves(o) PROVE IInv'
  BY <1>15, OtherLeavesKeeps
<1>16. ASSUME NEW s \in Sensors, ProtectTools(s) PROVE IInv'
  BY <1>16, ProtectToolsKeeps
<1>17. ASSUME NEW o \in Others, NEW h \in Halves, OtherDecorates(o, h) PROVE IInv'
  BY <1>17, OtherDecoratesKeeps
<1>18. CASE BuildAgent(Resolved("create_agent"))
  <2>1. Resolved("create_agent") \in Seq(Layer)
    BY CreateAgentIsASite, ResolvedChain DEF SiteChain
  <2> QED
    BY <1>18, <2>1, BuildAgentKeeps
<1>19. CASE held # NONE /\ BuildAgent(held)
  <2>1. held \in Seq(Layer)
    BY <1>19 DEF IInv, Chains, Held, MaybeChain, SiteChain
  <2> QED
    BY <1>19, <2>1, BuildAgentKeeps
<1>20. CASE CallFromAgent
  BY <1>20, CallFromAgentKeeps
<1>21. CASE CallDirect
  BY <1>21, CallDirectKeeps
<1>22. CASE Return
  BY <1>22, ReturnKeeps
<1>23. CASE UNCHANGED vars
  <2>1. UNCHANGED <<bindVars, saved>> /\ half' = half /\ agent' = agent /\ stack' = stack /\ ops' = ops
    BY <1>23 DEF vars, bindVars
  <2>2. Types'
    BY <2>1 DEF IInv, Types, bindVars
  <2>3. HalfChains'
    BY <2>1 DEF IInv, HalfChains
  <2> QED
    BY <2>1, <2>2, <2>3, CallsKeep
<1> QED
  BY <1>1, <1>2, <1>3, <1>4, <1>5, <1>6, <1>7, <1>8, <1>9, <1>10, <1>11, <1>12, <1>13, <1>14,
     <1>15, <1>16, <1>17, <1>18, <1>19, <1>20, <1>21, <1>22, <1>23 DEF Next

LEMMA Inductive == Spec => []IInv
BY InitInvariant, NextKeeps, PTL DEF Spec

-----------------------------------------------------------------------------
(* What it means *)

\* The process the manifests describe has the types it should, at every
\* moment of every protect() and unprotect(): each layer of a chain is on it
\* once, _ACTIVE lists what has something to undo, and one manifest answers
\* for each process-wide hook (autopatch/__init__.py, manifest.py).
THEOREM TypeCorrect == Spec => []TypeOK
<1>1. ASSUME IInv PROVE TypeOK
  <2>1. ASSUME NEW c, NEW s, SiteChain(c, s, saved, manifest) PROVE IsChain(c)
    BY <2>1 DEF SiteChain, IsChain
  <2>2. /\ \A s \in Sites : slot[s] # NONE => IsChain(slot[s])
        /\ held # NONE => IsChain(held)
    BY <1>1, <2>1 DEF IInv, Chains, Slots, Held, MaybeChain
  <2>3. ASSUME NEW h \in Halves PROVE IsChain(half[h])
    <3>1. PICK c : c = half[h]
      OBVIOUS
    <3>2. HalfChain(c, saved)
      BY <1>1, <3>1 DEF IInv, HalfChains
    <3>3. \A i \in DOMAIN c : c[i].kind \in {"xaidr", "other"}
      BY <3>2 DEF HalfChain, Layer
    <3>4. ASSUME NEW i \in DOMAIN c, NEW j \in DOMAIN c, c[i] = c[j], c[i].who # "protect_tools"
          PROVE  i = j
      BY <3>2, <3>3, <3>4 DEF HalfChain
    <3>5. c \in Seq(Layer)
      BY <3>2 DEF HalfChain
    <3> QED
      BY <3>1, <3>4, <3>5 DEF IsChain
  <2>4. ASSUME NEW m \in Manifests
        PROVE  /\ (manifest[m].state = "applying") = (pc # NONE /\ pc.m = m)
               /\ (manifest[m].state = "active")
                      = (m \in Range(IF undoing = <<>> THEN active ELSE undoing))
               /\ manifest[m].state = "active" => manifest[m].sites # <<>> \/ manifest[m].teardown # {}
    BY <1>1 DEF IInv, Thread, ManifestsTyped, ManifestType
  <2>5. IsInjective(active) /\ Range(undoing) \subseteq Range(active)
    BY <1>1 DEF IInv, Thread
  <2>6. ASSUME NEW h \in hooked
        PROVE  Cardinality({m \in Manifests : h \in manifest[m].teardown}) = 1
    <3>1. PICK m \in Manifests : h \in manifest[m].teardown
      BY <1>1 DEF IInv, Hooks
    <3>2. {n \in Manifests : h \in manifest[n].teardown} = {m}
      BY <1>1, <3>1 DEF IInv, Hooks
    <3> QED
      BY <3>2, FS_Singleton
  <2>7. \A m \in Manifests : manifest[m].teardown \subseteq hooked
    BY <1>1 DEF IInv, Hooks
  <2>8. loaded \subseteq Imports /\ agent \in Sensors \union {NONE}
    BY <1>1 DEF IInv, Types
  <2>9. \A i \in DOMAIN stack : stack[i].scans \subseteq Sensors
    <3>1. stack \in Seq(Calls)
      BY <1>1 DEF IInv, Types
    <3>2. \A i \in DOMAIN stack : stack[i] \in Calls
      BY <3>1
    <3> QED
      BY <3>2 DEF Calls
  <2> QED
    BY <2>2, <2>3, <2>4, <2>5, <2>6, <2>7, <2>8, <2>9 DEF TypeOK
<1> QED
  BY <1>1, Inductive, PTL

\* What the manifests say is what the process does: a site no third party
\* touched carries the one wrapper a manifest lists, or what the framework
\* made, and a manifest silent about deepagents has its agents covered
\* (_patch_deepagents, Manifest.revert, unprotect).
THEOREM ManifestsAccount == Spec => []Accounted
<1>1. ASSUME IInv PROVE Accounted
  <2>1. ASSUME NEW s \in Sites, ~ Touched(s)
        PROVE  \/ InForce(s) = {} /\ slot[s] = (IF s \in Inherited THEN NONE ELSE <<>>)
               \/ \E m \in Manifests : InForce(s) = {m} /\ slot[s] = <<Ours(m, manifest[m].sensor)>>
    BY <1>1, <2>1 DEF IInv, Untouched, Clean
  <2>2. ASSUME NEW m \in Manifests, manifest[m].state \in {"active", "inert"},
               "deepagents" \notin manifest[m].unpatchable \union manifest[m].absent
        PROVE  held # NONE /\ OursIn(held) # {}
    BY <1>1, <2>2 DEF IInv, Deepagents, Faced
  <2> QED
    BY <2>1, <2>2 DEF Accounted
<1> QED
  BY <1>1, Inductive, PTL

\* Nothing is wrapped twice in the open: whatever is patched and unpatched by
\* whom, two wrappers of protect() on one attribute, or two of one sensor on
\* one half of a tool, have an opaque layer between them (install,
\* protect_half).
THEOREM NothingWrappedTwice == Spec => []WrappedOnce
<1>1. ASSUME IInv PROVE WrappedOnce
  <2>1. ASSUME NEW s \in Sites PROVE Separated(Resolved(s))
    BY <1>1, ResolvedChain DEF SiteChain
  <2>2. ASSUME NEW h \in Halves PROVE HalfChain(half[h], saved)
    BY <1>1 DEF IInv, HalfChains
  <2> QED
    BY <2>1, <2>2 DEF WrappedOnce, Separated, HalfChain
<1> QED
  BY <1>1, Inductive, PTL

\* Only the two steps of unprotect() revert anything.
AsideOf(k) ==
    /\ manifest[k].state # "active"
    /\ \A n \in Manifests : n # k => manifest'[n] = manifest[n]

LEMMA OnlyUndoReverts ==
    ASSUME IInv, [Next]_vars, Reverting # {}
    PROVE  \E m \in Manifests : manifest[m].state = "active" /\ Undo(m)
<1>1. DOMAIN manifest = Manifests
  BY DEF IInv, Types
<1>2. ASSUME manifest' = manifest \/ \E k \in Manifests : AsideOf(k) PROVE FALSE
  BY <1>2 DEF Reverting, AsideOf
<1>3. pc # NONE => pc.m \in Manifests /\ manifest[pc.m].state # "active"
  BY DEF IInv, Thread
<1>4. ASSUME NEW m \in Manifests, NEW s \in Sensors, Protect(m, s) PROVE AsideOf(m)
  BY <1>1, <1>4 DEF Protect, AsideOf
<1>5. CASE NotPresent
  BY <1>1, <1>2, <1>3, <1>5 DEF NotPresent, AsideOf
<1>6. CASE InstallFails
  BY <1>1, <1>2, <1>3, <1>6 DEF InstallFails, At, AsideOf
<1>7. CASE AlreadyPatched
  BY <1>1, <1>2, <1>3, <1>7 DEF AlreadyPatched, At, AsideOf
<1>8. CASE Install
  BY <1>1, <1>2, <1>3, <1>8 DEF Install, At, AsideOf
<1>9. CASE InstallHook
  BY <1>1, <1>2, <1>3, <1>9 DEF InstallHook, At, AsideOf
<1>10. CASE ReportUnpatchable
  BY <1>1, <1>2, <1>3, <1>10 DEF ReportUnpatchable, At, AsideOf
<1>11. CASE ProbeDeepagents
  BY <1>1, <1>2, <1>3, <1>11 DEF ProbeDeepagents, At, AsideOf
<1>12. CASE Protected
  BY <1>1, <1>2, <1>3, <1>12 DEF Protected, AsideOf
<1>13. ASSUME NEW m \in Manifests, Unprotect(m)
       PROVE  manifest[m].state = "active" /\ Undo(m)
  BY <1>13 DEF Unprotect
<1>14. ASSUME UnprotectNext
       PROVE  \E m \in Manifests : manifest[m].state = "active" /\ Undo(m)
  <2>1. PICK m : m = Head(undoing)
    OBVIOUS
  <2>2. undoing # <<>> /\ Undo(m)
    BY <1>14, <2>1 DEF UnprotectNext
  <2>3. undoing \in Seq(Manifests) /\ IsInjective(undoing)
    BY DEF IInv, Types, Thread
  <2>4. m \in Range(undoing)
    BY <2>1, <2>2, <2>3, ListsTheRest
  <2>5. m \in Manifests
    BY <2>3, <2>4 DEF Range
  <2>6. manifest[m].state = "active"
    BY <2>2, <2>4, <2>5 DEF IInv, Thread
  <2> QED
    BY <2>2, <2>5, <2>6
<1>15. ASSUME \/ UnprotectAll
              \/ \E f \in Late : Load(f)
              \/ \E o \in Others, s \in Sites : OtherPatches(o, s)
              \/ \E o \in Others : OtherLeaves(o)
              \/ \E s \in Sensors : ProtectTools(s)
              \/ \E o \in Others, h \in Halves : OtherDecorates(o, h)
              \/ BuildAgent(Resolved("create_agent"))
              \/ held # NONE /\ BuildAgent(held)
              \/ CallFromAgent \/ CallDirect \/ Return \/ UNCHANGED vars
       PROVE  manifest' = manifest
  BY <1>15 DEF UnprotectAll, Load, OtherPatches, OtherLeaves, ProtectTools, OtherDecorates,
               BuildAgent, CallFromAgent, CallDirect, Return, bindVars, vars
<1> QED
  BY <1>2, <1>4, <1>5, <1>6, <1>7, <1>8, <1>9, <1>10, <1>11, <1>12, <1>13, <1>14, <1>15 DEF Next

\* One manifest reverted: its own wrapper goes from where it is outermost and
\* stays, reported, where it is not; every other layer stays.
LEMMA UndoTakesItsOwn ==
    ASSUME IInv, NEW m \in Manifests, manifest[m].state = "active", Undo(m), NEW s \in Sites
    PROVE  /\ \A l \in Layers(slot[s]) : ~ (l.kind = "xaidr" /\ l.who = m) => l \in Layers(slot'[s])
           /\ \A l \in Layers(slot'[s]) :
                 l.kind = "xaidr" /\ l.who = m => s \in manifest'[m].stranded
<1>1. UndoesSlots(m) /\ manifest'[m].stranded = Stranded(m, slot)
  BY UndoEffect DEF UndoesManifest
<1>2. ManifestType(manifest[m])
  BY DEF IInv, ManifestsTyped
<1>3. CASE \E r \in Range(manifest[m].sites) : r.at = s /\ slot[s] = r.installed
  <2>1. PICK r \in Range(manifest[m].sites) : r.at = s /\ slot[s] = r.installed
    BY <1>3
  <2>2. /\ r.installed = <<Ours(m, manifest[m].sensor)>> \o r.original
        /\ SiteChain(r.original, s, saved, manifest)
        /\ SiteChain(r.installed, s, saved, manifest)
        /\ ~ r.had_own => r.original = <<>>
    BY <2>1 DEF IInv, Chains, Records, Recorded
  <2>3. PICK l0, c, d : l0 = Ours(m, manifest[m].sensor) /\ c = r.original /\ d = r.installed
    OBVIOUS
  <2>4. l0 \in Layer /\ l0 = [kind |-> "xaidr", who |-> m, sensor |-> manifest[m].sensor]
    BY <1>2, <2>3 DEF Ours, Layer, ManifestType
  <2>5. c \in Seq(Layer) /\ d \in Seq(Layer) /\ d = <<l0>> \o c
    BY <2>2, <2>3 DEF SiteChain
  <2>6. /\ DOMAIN d = 1..(Len(c) + 1) /\ Len(c) \in Nat /\ DOMAIN c = 1..Len(c) /\ d[1] = l0
        /\ \A i \in DOMAIN d : i # 1 => i - 1 \in DOMAIN c /\ d[i] = c[i - 1]
        /\ \A i \in DOMAIN c : i + 1 \in DOMAIN d /\ d[i + 1] = c[i]
    BY <2>4, <2>5, Pushed
  <2>7. slot'[s] = Original(r)
    BY <1>1, <2>1 DEF UndoesSlots
  <2>8. Layers(slot[s]) = Range(d) /\ Layers(slot'[s]) = Range(c)
    <3>1. d # NONE /\ c # NONE
      BY <2>5, NoneIsNoChain
    <3>2. Layers(slot[s]) = Range(d)
      BY <2>1, <2>3, <3>1 DEF Layers
    <3>3. CASE r.had_own
      BY <2>3, <2>7, <3>1, <3>2, <3>3 DEF Layers, Original
    <3>4. CASE ~ r.had_own
      BY <2>2, <2>3, <2>7, <3>2, <3>4, RangeOfNothing DEF Layers, Original
    <3> QED
      BY <3>2, <3>3, <3>4
  <2>9. ASSUME NEW l \in Range(d), ~ (l.kind = "xaidr" /\ l.who = m) PROVE l \in Range(c)
    <3>1. PICK i \in DOMAIN d : d[i] = l
      BY DEF Range
    <3>2. i # 1
      BY <2>4, <2>6, <2>9, <3>1
    <3> QED
      BY <2>6, <3>1, <3>2 DEF Range
  <2>10. ASSUME NEW l \in Range(c), l.kind = "xaidr", l.who = m PROVE FALSE
    <3>1. PICK j \in DOMAIN c : c[j] = l
      BY DEF Range
    <3>2. Placed(l, s, saved, manifest) /\ l \in Layer
      BY <2>2, <2>3, <2>5, <3>1 DEF SiteChain
    <3>3. l = l0
      BY <2>4, <2>10, <3>2 DEF Placed, Layer
    <3>4. j + 1 \in DOMAIN d /\ d[j + 1] = d[1] /\ 1 \in DOMAIN d /\ j + 1 # 1
      BY <2>6, <3>1, <3>3
    <3> QED
      BY <2>2, <2>3, <3>4 DEF SiteChain
  <2> QED
    BY <2>8, <2>9, <2>10
<1>4. CASE ~ \E r \in Range(manifest[m].sites) : r.at = s /\ slot[s] = r.installed
  <2>1. slot'[s] = slot[s]
    BY <1>1, <1>4 DEF UndoesSlots
  <2>2. ASSUME NEW l \in Layers(slot[s]), l.kind = "xaidr", l.who = m
        PROVE  s \in Stranded(m, slot)
    <3>1. slot[s] # NONE /\ SiteChain(slot[s], s, saved, manifest)
      BY <2>2 DEF IInv, Chains, Slots, MaybeChain, Layers
    <3>2. Placed(l, s, saved, manifest)
      BY <2>2, <3>1 DEF SiteChain, Layers, Range
    <3>3. s \in manifest[m].patched
      BY <2>2, <3>2 DEF Placed
    <3>4. PICK r \in Range(manifest[m].sites) : r.at = s
      BY <1>2, <3>3 DEF ManifestType, InPlay
    <3>5. slot[r.at] # r.installed
      BY <1>4, <3>4
    <3> QED
      BY <3>4, <3>5 DEF Stranded, Restorable
  <2> QED
    BY <1>1, <2>1, <2>2
<1> QED
  BY <1>3, <1>4

\* Undoing is exact: no layer of anybody else ever leaves a site with a
\* manifest that is reverted, and a wrapper of that manifest that stays is
\* reported stranded (Manifest.revert).
THEOREM UndoingIsExact == Spec => UndoIsExact
<1>1. ASSUME IInv, [Next]_vars, Reverting # {}, NEW s \in Sites
      PROVE  /\ {l \in Layers(slot[s]) : ~ OfReverting(l)} \subseteq Layers(slot'[s])
             /\ \A l \in Layers(slot'[s]) :
                   OfReverting(l) => s \in manifest'[l.who].stranded
  <2>1. PICK m \in Manifests : manifest[m].state = "active" /\ Undo(m)
    BY <1>1, OnlyUndoReverts
  <2>2. Reverting = {m}
    <3>1. UndoesManifest(m)
      BY <1>1, <2>1, UndoEffect
    <3> QED
      BY <2>1, <3>1 DEF UndoesManifest, Reverting
  <2>3. \A l : OfReverting(l) <=> l.kind = "xaidr" /\ l.who = m
    BY <2>2 DEF OfReverting
  <2>4. /\ \A l \in Layers(slot[s]) : ~ (l.kind = "xaidr" /\ l.who = m) => l \in Layers(slot'[s])
        /\ \A l \in Layers(slot'[s]) :
              l.kind = "xaidr" /\ l.who = m => s \in manifest'[m].stranded
    BY <1>1, <2>1, UndoTakesItsOwn
  <2> QED
    BY <2>3, <2>4
<1>2. IInv /\ [Next]_vars =>
        [Reverting # {} =>
          \A s \in Sites :
            /\ {l \in Layers(slot[s]) : ~ OfReverting(l)} \subseteq Layers(slot'[s])
            /\ \A l \in Layers(slot'[s]) :
                  OfReverting(l) => s \in manifest'[l.who].stranded]_vars
  BY <1>1
<1> QED
  BY <1>2, Inductive, PTL DEF Spec, UndoIsExact

=============================================================================
