---------------------------- MODULE StatementCache ----------------------------
(***************************************************************************)
(* What a cache of prepared statements promises, without sessions, errors  *)
(* or the deque it is kept in.  Each text that is kept has one handle, and *)
(* whoever asks for the text gets that one.  A text that comes in when the *)
(* cache is full takes the place of the one whose last use is the longest  *)
(* ago.  The cache may be emptied, but never while a handle it has given   *)
(* out is in use.                                                          *)
(***************************************************************************)
EXTENDS Naturals, FiniteSets

CONSTANTS Key, Handle, NoHandle, Capacity

VARIABLES
    entries,   \* the handle of each key that is kept
    newer,     \* the pairs <<l, k>> of keys kept, l used after k
    inUse      \* the handle given out, or NoHandle

cacheVars == <<entries, newer, inUse>>

Kept == DOMAIN entries

CacheInit == entries = <<>> /\ newer = {} /\ inUse = NoHandle

\* k becomes newer than all keys of S, which keep their order.
Refresh(k, S) ==
    newer' = {p \in newer : p[1] \in S /\ p[2] \in S} \cup ({k} \X S)

Use(k) ==
    /\ inUse = NoHandle /\ k \in Kept
    /\ inUse' = entries[k]
    /\ Refresh(k, Kept \ {k})
    /\ UNCHANGED entries

LeastRecent == {k \in Kept : \A l \in Kept \ {k} : <<l, k>> \in newer}
Evicted == IF Cardinality(Kept) < Capacity THEN {} ELSE LeastRecent

Add(k, h) ==
    /\ inUse = NoHandle /\ k \notin Kept /\ \A l \in Kept : entries[l] # h
    /\ inUse' = h
    /\ entries' = [l \in (Kept \ Evicted) \cup {k} |-> IF l = k THEN h ELSE entries[l]]
    /\ Refresh(k, Kept \ Evicted)

Finish == inUse' = NoHandle /\ UNCHANGED <<entries, newer>>

Clear ==
    /\ inUse = NoHandle
    /\ entries' = <<>> /\ newer' = {}
    /\ UNCHANGED inUse

\* A step of the cache changes something (that TLC tests first).
CacheNext ==
    /\ cacheVars' # cacheVars
    /\ \/ \E k \in Key : Use(k)
       \/ \E k \in Key, h \in Handle : Add(k, h)
       \/ Finish \/ Clear

CacheSpec == CacheInit /\ [][CacheNext]_cacheVars
=============================================================================
