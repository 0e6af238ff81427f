------------------------------- MODULE MCBinding -------------------------------
(* Two calls of protect(), two sensors, one transparent and one opaque third  *)
(* party.                                                                     *)
EXTENDS Binding, TLC

CONSTANTS m1, m2, s1, s2, tracer, mock

MCManifests == {m1, m2}
MCSensors == {s1, s2}
MCOthers == {tracer, mock}
MCWraps == {tracer}
MCReach == {"create_agent", "CallbackManager.configure"}
MCMissing == {"AsyncCallbackManager.configure"}
MCInherited == {"CallbackManager.configure"}

MCImports == {"langchain_core", "langchain", "langchain-run-tree", "langgraph", "deepagents"}
MCLate == {"deepagents"}

Symmetry == Permutations(MCManifests) \union Permutations(MCSensors)
=============================================================================
