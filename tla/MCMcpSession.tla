---------------------------- MODULE MCMcpSession ----------------------------
(* One CLI and one helper, small enough for TLC. *)
EXTENDS McpSession
=============================================================================
