---------------------------- MODULE MCAgentTools ----------------------------
(* Three tools for AgentTools.tla: one that asks, one that does not and       *)
(* returns directly when it is called alone, and one of an MCP server that    *)
(* asks.                                                                      *)
EXTENDS AgentTools, TLC

Tools    == {"ask", "free", "mcp"}
AskTools == {"ask", "mcp"}
NoAgentSelectedTool == "undefined"
Groups   == [t \in Tools |-> IF t = "mcp" THEN "mcpServer" ELSE NoAgentSelectedTool]
Free     == {"free"}
Ghost    == {"ghost"}
Requests == Permutations(Request)
=============================================================================
