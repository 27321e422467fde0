------------------------------- MODULE ToolUse -------------------------------
(***************************************************************************)
(* The catalog of tools with its two readers: an agent run, which pins one  *)
(* snapshot for its whole life, and the MCP endpoint, which follows the     *)
(* catalog from request to request, while extensions publish.               *)
(***************************************************************************)
EXTENDS McpSurface, AgentTurns

vars == <<registryVars, mcpVars, agentVars>>

TypeOK == RegistryTypeOK /\ McpTypeOK /\ AgentTypeOK

Init == RegistryInit /\ McpInit /\ AgentInit

Publication == (\E o \in Owners : Reconcile(o)) /\ UNCHANGED <<mcpVars, agentVars>>

Next ==
  \/ Publication
  \/ McpNext /\ UNCHANGED <<registryVars, agentVars>>
  \/ AgentNext /\ UNCHANGED <<registryVars, mcpVars>>

Spec == Init /\ [][Next]_vars
=============================================================================
