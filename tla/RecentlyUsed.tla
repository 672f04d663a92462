---------------------------- MODULE RecentlyUsed ----------------------------
(***************************************************************************)
(* A cache that remembers a limited number of entries, the last used last: *)
(* an OrderedDict, whose keys are never repeated, of which the oldest goes *)
(* when there are too many.                                                *)
(***************************************************************************)
EXTENDS Naturals, Sequences

\* The cache without the entry at one of these places; a key has one at most.
Dropped(cache, places) ==
    IF places = {} THEN cache
    ELSE LET i == CHOOSE i \in places : TRUE
         IN  SubSeq(cache, 1, i - 1) \o SubSeq(cache, i + 1, Len(cache))

Limited(cache, size) == IF Len(cache) > size THEN Tail(cache) ELSE cache
=============================================================================
