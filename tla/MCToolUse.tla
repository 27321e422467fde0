----------------------------- MODULE MCToolUse ------------------------------
(* An instance of ToolUse for TLC: a web tool and a write tool of the        *)
(* platform, one identifier for extensions, a call of each and one call with *)
(* arguments that are not JSON.                                              *)
EXTENDS ToolUse, TLC

CONSTANTS web, propose, other

MCCalls == [tool: Ids, args: {"q"}] \cup [tool: {web}, args: {"{"}]
MCMalformed == {c \in MCCalls : c.args = "{"}

\* The run and the endpoint share nothing but the catalog: the states in which
\* both have begun are left out.
OneReader == at = "start" \/ \A c \in Clients : request[c] = NoRequest

Alike == Permutations(Clients) \cup Permutations(Owners)
=============================================================================
