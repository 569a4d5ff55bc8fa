---------------------------- MODULE ResponseCache ----------------------------
(***************************************************************************)
(* CacheInterceptor around a handler that reads a value and one that       *)
(* writes it, both with one key: no route of the repository is decorated   *)
(* yet.  A read looks in Redis, calls the handler on a miss and stores     *)
(* what it returned; a write deletes the key once the handler has          *)
(* returned.  Neither waits for its SET or DEL, which may get lost.        *)
(***************************************************************************)
EXTENDS HttpRequest

VARIABLES
    source,     \* who wrote the value the handlers read
    cache,      \* the key in Redis: a fill or NoRow
    filling,    \* SETs under way
    evicting,   \* DELs under way, by the write they follow
    evicted     \* history: writes whose DEL got through

cacheVars == <<source, cache, filling, evicting, evicted>>

CacheInit ==
    /\ source = Nobody
    /\ cache = NoRow
    /\ filling = {} /\ evicting = {} /\ evicted = {}

\* What a read returned; `raced` (history) when a write got in before the SET.
Fill(r) == [by |-> r, value |-> source, raced |-> FALSE]

\* A hit, or a miss; a read of Redis that fails is a miss.  Without a keyFn a
\* handler is never cached: it is always called with arguments, the request's.
ReadCache(r) ==
    /\ At(r, "handler", {"cachedRead", "bareRead"})
    /\ \/ Route(r) = "cachedRead" /\ cache # NoRow /\ Return(r, [ids |-> {}, value |-> cache.value])
       \/ Goto(r, "found", NoRow)
    /\ UNCHANGED cacheVars

\* The handler reads, and its result is on its way to the cache.
LoadAndFill(r) ==
    /\ At(r, "found", {"cachedRead", "bareRead"})
    /\ Return(r, [ids |-> {}, value |-> source])
    /\ filling' = IF Route(r) = "cachedRead" THEN filling \cup {Fill(r)} ELSE filling
    /\ UNCHANGED <<source, cache, evicting, evicted>>

\* Mutant: when the handler is called.
EvictBefore(r, pc) == IF pc = "handler" THEN evicting \cup {r} ELSE evicting

\* The DEL a write sends, and when: once its handler has returned.
EvictAfter(r, pc) == IF pc = "reply" THEN evicting \cup {r} ELSE evicting

CallWriter(r) ==
    /\ At(r, "handler", {"evictingWrite"})
    /\ evicting' = EvictAfter(r, "handler")
    /\ Goto(r, "found", NoRow)
    /\ UNCHANGED <<source, cache, filling, evicted>>

WriteSource(r) ==
    /\ At(r, "found", {"evictingWrite"})
    /\ source' = r
    /\ filling' = {[f EXCEPT !.raced = TRUE] : f \in filling}
    /\ Wrote(r, NoRow, {Caller(r)})
    /\ UNCHANGED <<cache, evicting, evicted>>

ReturnWriter(r) ==
    /\ At(r, "reply", {"evictingWrite"})
    /\ evicting' = EvictAfter(r, "reply")
    /\ Return(r, NoRow)
    /\ UNCHANGED <<source, cache, filling, evicted>>

\* A SET arrives or is lost.
WriteCache(f) ==
    /\ f \in filling
    /\ filling' = filling \ {f}
    /\ cache' \in {cache, f}
    /\ UNCHANGED <<source, evicting, evicted, requestVars, auditVars>>

\* A DEL arrives or is lost.
Evict(r) ==
    /\ r \in evicting
    /\ evicting' = evicting \ {r}
    /\ \/ cache' = NoRow /\ evicted' = evicted \cup {r}
       \/ UNCHANGED <<cache, evicted>>
    /\ UNCHANGED <<source, filling, requestVars, auditVars>>

Expire ==
    /\ cache # NoRow
    /\ cache' = NoRow
    /\ UNCHANGED <<source, filling, evicting, evicted, requestVars, auditVars>>

CacheStep(r) ==
    \/ ReadCache(r) \/ LoadAndFill(r) \/ CallWriter(r) \/ WriteSource(r) \/ ReturnWriter(r)

-----------------------------------------------------------------------------

\* The cache holds an old value only while the last write's DEL has not got
\* through, or when the SET that stored it was overtaken by a write.
FreshUnlessRaced ==
    cache # NoRow /\ cache.value # source => cache.raced \/ source \notin evicted
==============================================================================
