---------------------------- MODULE MCCachePool ----------------------------
EXTENDS CachePool, TLC

BlockSymmetry == Permutations(Block)
=============================================================================
