---------------------------- MODULE MCRangeLock ----------------------------
(* Three locks over five positions: enough for a lock on each side of a     *)
(* removed range and one inside it, overlapping, touching or apart.         *)
EXTENDS RangeLock, TLC

LockSymmetry == Permutations(Lock)
=============================================================================
