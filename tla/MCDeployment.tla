---------------------------- MODULE MCDeployment ----------------------------
(***************************************************************************)
(* An API with two request threads, or a primary and a standby with one    *)
(* worker each.                                                            *)
(***************************************************************************)
EXTENDS Deployment

CONSTANTS api, pc, aws, r1, r2, w

HomeOf == [s \in {r1, r2, w} |->
             IF s = w THEN pc ELSE api]
=============================================================================
