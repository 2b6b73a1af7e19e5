--------------------------- MODULE ResponseCache ---------------------------
(***************************************************************************)
(* MemoryResponseCache: the entries of the process-wide IMemoryCache under *)
(* "api:" keys, and beside them the ConcurrentDictionary of active keys    *)
(* that RemoveByPrefix walks.  The two are changed by separate calls, and  *)
(* the post-eviction callback that untracks a key runs on the thread pool  *)
(* some time after its entry went away.                                    *)
(*                                                                         *)
(* The module holds the cache's state and its calls; PublicApiCache        *)
(* composes them with the requests that make them.                         *)
(***************************************************************************)
EXTENDS Naturals, FiniteSets

CONSTANTS Type,      \* content types of one tenant
          Query,     \* the rest of a cache key: "list" and "id" requests
          NoEntry    \* nothing cached under a key

\* "api:{tenant}:{content type}:..." : a key names its content type and a query.
Key == Type \X Query
KeyType(k) == k[1]
KeyQuery(k) == k[2]

VARIABLES entry,      \* IMemoryCache: what TryGetValue returns for a key
          tracked,    \* _keys
          callbacks   \* eviction callbacks scheduled and not yet run, per key

cacheVars == <<entry, tracked, callbacks>>

InitCache ==
    /\ entry = [k \in Key |-> NoEntry]
    /\ tracked = {}
    /\ callbacks = [k \in Key |-> 0]

Cached(k) == entry[k] # NoEntry

\* The callback of an entry that is removed, replaced or expired is queued.
QueueCallback(k) ==
    callbacks' = IF Cached(k) THEN [callbacks EXCEPT ![k] = @ + 1] ELSE callbacks

\* Variant: Set does not record the key.
TrackKey_Dropped(k) == UNCHANGED cacheVars

\* Set, first half: _keys.TryAdd(key, 0).
TrackKey(k) ==
    /\ tracked' = tracked \cup {k}
    /\ UNCHANGED <<entry, callbacks>>

\* Set, second half: Dispose commits the entry; one already there is replaced.
CommitEntry(k, response) ==
    /\ entry' = [entry EXCEPT ![k] = response]
    /\ QueueCallback(k)
    /\ UNCHANGED tracked

\* Variant: the prefix ends before the colon-separated query of single items.
HasPrefix_ListOnly(k, t) == KeyType(k) = t /\ KeyQuery(k) = "list"

\* key.StartsWith("api:{tenant}:{t}:").
HasPrefix(k, t) == KeyType(k) = t

\* RemoveByPrefix walks a snapshot of the tracked keys ...
KeysToRemove(t) == {k \in tracked : HasPrefix(k, t)}

\* ... and for each of them calls _cache.Remove, then _keys.TryRemove.
RemoveEntry(k) ==
    /\ entry' = [entry EXCEPT ![k] = NoEntry]
    /\ QueueCallback(k)
    /\ UNCHANGED tracked

UntrackKey(k) ==
    /\ tracked' = tracked \ {k}
    /\ UNCHANGED <<entry, callbacks>>

\* Variant: entries are created without AbsoluteExpirationRelativeToNow.
Expire_Never(k) == FALSE /\ UNCHANGED cacheVars

\* The entry's lifetime is over: the next TryGet or scan drops it.
Expire(k) ==
    /\ Cached(k)
    /\ RemoveEntry(k)

\* Variant: the callback is registered twice for an entry.
RunCallback_Twice(k) ==
    /\ callbacks[k] > 0
    /\ callbacks' = [callbacks EXCEPT ![k] = @ - 2]
    /\ tracked' = tracked \ {k}
    /\ UNCHANGED entry

\* The callback knows the key of its entry only, and untracks that key.
RunCallback(k) ==
    /\ callbacks[k] > 0
    /\ callbacks' = [callbacks EXCEPT ![k] = @ - 1]
    /\ tracked' = tracked \ {k}
    /\ UNCHANGED entry
=============================================================================
