------------------------- MODULE MCLaunchTransaction -------------------------
(***************************************************************************)
(* Small instances of LaunchTransaction: one atomic and one best-effort    *)
(* launch over two or three platforms.                                     *)
(***************************************************************************)
EXTENDS LaunchTransaction, TLC

CONSTANTS atomicTx, keepTx, meta, tiktok, google

PlatformSymmetry == Permutations(Platforms)
=============================================================================
