------------------------------ MODULE ToolCalls -----------------------------
(***************************************************************************)
(* The tool calls that the gateway runs the plugin's two hooks for:        *)
(* before_tool_call (module ApprovalGate) and tool_result_persist (module  *)
(* ApprovalMarkers); those of EXEC_TOOL_NAMES, for a call of another tool  *)
(* is neither held nor marked.                                             *)
(***************************************************************************)
CONSTANT Calls
=============================================================================
