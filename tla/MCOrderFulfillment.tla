-------------------------- MODULE MCOrderFulfillment --------------------------
(***************************************************************************)
(* Small instances of OrderFulfillment.                                    *)
(***************************************************************************)
EXTENDS OrderFulfillment

CONSTANTS o1, o2
=============================================================================
