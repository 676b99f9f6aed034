---------------------------- MODULE MCMcpClient ----------------------------
(***************************************************************************)
(* Instances of McpClient for TLC: discovery d and tool calls c1, c2, ...  *)
(***************************************************************************)
EXTENDS McpClientInvariants
=============================================================================
