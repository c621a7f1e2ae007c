------------------------------- MODULE MCRng -------------------------------
(* The generator shared by a few threads.                                  *)
EXTENDS Rng, TLC

MCSizeMax == 65535

(* A source yields all it is asked for or nothing.                         *)
MCAmounts == {0, 32}

Symmetric == Permutations(Threads)
=============================================================================
