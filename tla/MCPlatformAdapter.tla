-------------------------- MODULE MCPlatformAdapter --------------------------
(***************************************************************************)
(* Small instances of PlatformAdapter.                                     *)
(***************************************************************************)
EXTENDS PlatformAdapter

CONSTANTS meta, tiktok, c1, c2, c3
=============================================================================
