------------------------------ MODULE LruCache ------------------------------
(***************************************************************************)
(* What a pool of caches promises: an entry that is given up has not been  *)
(* in use for at least as long as every entry that is kept.  How long an   *)
(* entry has been idle is counted in checks of the pool (one per second    *)
(* for the memory cache, CacheManager::on_event).                          *)
(***************************************************************************)
EXTENDS Naturals

CONSTANT Entry     \* the entries a pool has

VARIABLE idle      \* how long each entry in use has been idle

InUse == DOMAIN idle

LruInit == idle = [c \in {} |-> 0]

\* An entry goes into use.
Add(c) ==
  /\ c \in Entry \ InUse
  /\ idle' = [d \in InUse \union {c} |-> IF d = c THEN 0 ELSE idle[d]]

\* A check: the entries of S were used since the last one.
Tick(S) ==
  idle' = [c \in InUse |-> IF c \in S THEN 0 ELSE idle[c] + 1]

\* One entry is given up: none that is kept has been idle for longer.
Drop(c) ==
  /\ c \in InUse
  /\ \A d \in InUse : idle[d] <= idle[c]
  /\ idle' = [d \in InUse \ {c} |-> idle[d]]

\* An entry that went into use is given back at once: there was nothing to put
\* into it.
Undo(c) ==
  /\ c \in InUse
  /\ idle[c] = 0
  /\ idle' = [d \in InUse \ {c} |-> idle[d]]

LruNext ==
  \/ \E c \in Entry : Add(c) \/ Drop(c) \/ Undo(c)
  \/ \E S \in SUBSET InUse : Tick(S)

LruSpec == LruInit /\ [][LruNext]_idle
=============================================================================
