-------------------------- MODULE MCControlBarrier --------------------------
(***************************************************************************)
(* Instances of ControlBarrier in which one event is delivered twice:      *)
(* three ids in a single wave, and four ids in two waves of two.           *)
(***************************************************************************)
EXTENDS ControlBarrier, TLC

CONSTANTS w0, w1, w2, w3, dup

ThreeIds == {w0, w1, w2, dup}

FourIds == {w0, w1, w2, w3, dup}

\* The event of id 1 is the one that is delivered twice.
MCIdOf ==
  [w \in Invocations |->
    CASE w = w0 -> 0
      [] w = w1 -> 1
      [] w = dup -> 1
      [] w = w2 -> 2
      [] w = w3 -> 3]

=============================================================================
