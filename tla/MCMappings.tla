---------------------------- MODULE MCMappings ----------------------------
(* The instance of Mappings for TLC.                                       *)
EXTENDS Mappings, TLC

CONSTANTS s1, s2, s3, e1, e2, f1, f2

MCStates == {s1, s2, s3}
MCEps == {e1, e2}
MCFds == {f1, f2}

\* Nothing orders connections, endpoints or descriptors.
MCSymmetry == Permutations(MCStates) \cup Permutations(MCEps) \cup Permutations(MCFds)
===========================================================================
