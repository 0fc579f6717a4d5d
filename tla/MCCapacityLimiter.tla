------------------------- MODULE MCCapacityLimiter -------------------------
(***************************************************************************)
(* Instances of CapacityLimiter: three tasks, of which the third borrows   *)
(* on behalf of another object.                                            *)
(***************************************************************************)
EXTENDS CapacityLimiter

CONSTANTS t1, t2, t3, item

MCBorrowerOf == (t1 :> t1) @@ (t2 :> t2) @@ (t3 :> item)
=============================================================================
