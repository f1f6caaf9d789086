---------------------------- MODULE MCDeployment ----------------------------
(***************************************************************************)
(* An instance of Deployment: two ids in one wave, the event of id 1       *)
(* delivered twice.                                                        *)
(***************************************************************************)
EXTENDS Deployment

CONSTANTS w0, w1, dup

MCIdOf == [w \in Invocations |-> IF w = w0 THEN 0 ELSE 1]

=============================================================================
