---------------------------- MODULE MetricsCache ----------------------------
(***************************************************************************)
(* The pod-stats cache of src/provider/metrics/cache.go: getPodStats looks *)
(* the pod's UID up in a go-cache; on a hit it returns the cached stats, on *)
(* a miss it calls the wrapped getter and, when that succeeds, stores the   *)
(* result with the default expiration and returns it.  Several callers run *)
(* getPodStats at once (one goroutine per scrape), so two misses for the    *)
(* same pod can be in flight together and their Sets land in either order. *)
(*                                                                         *)
(* Time is abstracted: an entry stored with an expiration may expire at    *)
(* any later step (Expire), which covers every TTL and every interleaving  *)
(* of the clock with the callers.  The backend's stats for a pod are a      *)
(* version number that only grows (cumulative counters), up to MaxVer.     *)
(***************************************************************************)
EXTENDS Integers

CONSTANTS
    Callers,      \* goroutines calling getPodStats
    Pods,         \* pod UIDs
    PodName(_),   \* the pod's name; a re-created pod keeps it, with a new UID
    TTLSeconds,   \* the ttlSeconds given to WrapCachedPodStatsGetter
    MaxVer        \* bound on the backend's stats versions

ASSUME MetricsCacheAssumption ==
    /\ TTLSeconds \in Int
    /\ MaxVer \in Nat

VARIABLES
    ver,      \* ver[u]: the stats the backend would return for pod u now
    cache,    \* cache[k]: the go-cache item under key k, or Absent
    pc,       \* pc[c]: where caller c is in getPodStats
    pod,      \* pod[c]: the pod caller c asked for last
    got,      \* got[c]: what the wrapped getter returned to c
    out       \* out[c]: what c's last getPodStats returned

vars == <<ver, cache, pc, pod, got, out>>

Stats == [uid : Pods, ver : 0..MaxVer]

Absent == [none |-> TRUE]

Keys == Pods \cup {PodName(u) : u \in Pods}

NoResult == [status |-> "None"]

Error == [status |-> "Error"]

(* Mutant: the cache keyed by the pod's name instead of its UID. *)
CacheKeyByName(u) == PodName(u)

(* cache.go:26: cacheKey := string(pod.UID). *)
CacheKey(u) == u

(* Mutant: items stored without expiry (a TTL of zero handed in). *)
EntryExpiresNever == FALSE

(* cache.go:15: cache.New(time.Duration(ttlSeconds)*time.Second, ...).      *)
(* go-cache gives an item stored with DefaultExpiration an expiry only when *)
(* the default is positive; a zero or negative TTL means NoExpiration.     *)
EntryExpires == TTLSeconds > 0

TypeOK ==
    /\ ver \in [Pods -> 0..MaxVer]
    /\ cache \in [Keys -> [val : Stats, expires : BOOLEAN] \cup {Absent}]
    /\ pc \in [Callers -> {"Idle", "Fetching", "Fetched"}]
    /\ pod \in [Callers -> Pods]
    /\ got \in [Callers -> Stats \cup {NoResult}]
    /\ out \in [Callers -> Stats \cup {NoResult, Error}]

Init ==
    /\ ver = [u \in Pods |-> 0]
    /\ cache = [k \in Keys |-> Absent]
    /\ pc = [c \in Callers |-> "Idle"]
    /\ pod \in [Callers -> Pods]
    /\ got = [c \in Callers |-> NoResult]
    /\ out = [c \in Callers |-> NoResult]

(* cache.go:27-30: Get finds an unexpired item and the call returns it. *)
GetHit(c, u) ==
    /\ pc[c] = "Idle"
    /\ cache[CacheKey(u)] # Absent
    /\ pod' = [pod EXCEPT ![c] = u]
    /\ out' = [out EXCEPT ![c] = cache[CacheKey(u)].val]
    /\ UNCHANGED <<ver, cache, pc, got>>

(* cache.go:27-28, 31: Get misses and the wrapped getter is called. *)
GetMiss(c, u) ==
    /\ pc[c] = "Idle"
    /\ cache[CacheKey(u)] = Absent
    /\ pc' = [pc EXCEPT ![c] = "Fetching"]
    /\ pod' = [pod EXCEPT ![c] = u]
    /\ out' = [out EXCEPT ![c] = NoResult]
    /\ UNCHANGED <<ver, cache, got>>

(* cache.go:31: the wrapped getter reads the backend's current stats. *)
FetchOk(c) ==
    /\ pc[c] = "Fetching"
    /\ got' = [got EXCEPT ![c] = [uid |-> pod[c], ver |-> ver[pod[c]]]]
    /\ pc' = [pc EXCEPT ![c] = "Fetched"]
    /\ UNCHANGED <<ver, cache, pod, out>>

(* Mutant: the failed result is cached as well. *)
FetchErrCaches(c) ==
    /\ pc[c] = "Fetching"
    /\ cache' = [cache EXCEPT ![CacheKey(pod[c])] = [val |-> Error, expires |-> EntryExpires]]
    /\ out' = [out EXCEPT ![c] = Error]
    /\ pc' = [pc EXCEPT ![c] = "Idle"]
    /\ UNCHANGED <<ver, pod, got>>

(* cache.go:31-34: the wrapped getter fails; nothing is cached. *)
FetchErr(c) ==
    /\ pc[c] = "Fetching"
    /\ out' = [out EXCEPT ![c] = Error]
    /\ pc' = [pc EXCEPT ![c] = "Idle"]
    /\ UNCHANGED <<ver, cache, pod, got>>

(* cache.go:35-36: Set overwrites whatever the key holds, then return. *)
SetAndReturn(c) ==
    /\ pc[c] = "Fetched"
    /\ cache' = [cache EXCEPT ![CacheKey(pod[c])] =
                     [val |-> got[c], expires |-> EntryExpires]]
    /\ out' = [out EXCEPT ![c] = got[c]]
    /\ pc' = [pc EXCEPT ![c] = "Idle"]
    /\ got' = [got EXCEPT ![c] = NoResult]
    /\ UNCHANGED <<ver, pod>>

(* go-cache: an item with an expiry stops being found once it passes. *)
Expire(k) ==
    /\ cache[k] # Absent
    /\ cache[k].expires
    /\ cache' = [cache EXCEPT ![k] = Absent]
    /\ UNCHANGED <<ver, pc, pod, got, out>>

(* The container group's cumulative counters grow. *)
Advance(u) ==
    /\ ver[u] < MaxVer
    /\ ver' = [ver EXCEPT ![u] = ver[u] + 1]
    /\ UNCHANGED <<cache, pc, pod, got, out>>

Next ==
    \/ \E c \in Callers :
          \/ \E u \in Pods : GetHit(c, u) \/ GetMiss(c, u)
          \/ FetchOk(c) \/ FetchErr(c) \/ SetAndReturn(c)
    \/ \E k \in Keys : Expire(k)
    \/ \E u \in Pods : Advance(u)

(***************************************************************************)
(* Fairness.  A call in flight returns (the wrapped getter answers or      *)
(* fails, and Set is a local step), and the clock runs, so an item with an *)
(* expiry does expire.  Nothing obliges anyone to call, nor the backend to *)
(* advance.                                                                *)
(***************************************************************************)
Fairness ==
    /\ \A c \in Callers : WF_vars(FetchOk(c) \/ FetchErr(c)) /\ WF_vars(SetAndReturn(c))
    /\ \A k \in Keys : WF_vars(Expire(k))

Spec == Init /\ [][Next]_vars /\ Fairness

-----------------------------------------------------------------------------
(* Properties *)

\* Stats returned by getPodStats for a pod are stats the backend reported
\* for that same pod, even when a deleted pod's name was reused by a new
\* pod whose lookups meet the old pod's cached item (the cache key choice
\* of cache.go:26).
ServesOwnPod ==
    \A c \in Callers : out[c] \in Stats => out[c].uid = pod[c]

\* Once the backend's counters stop moving, the cache ends up, and stays,
\* holding the pod's current stats or nothing: a slow miss whose Set lands
\* after a newer one (cache.go:35) leaves an older snapshot in the cache,
\* and only the item's expiry ever removes it.
EventuallyCurrent ==
    \A u \in Pods :
        <>[](cache[CacheKey(u)] = Absent \/ cache[CacheKey(u)].val.ver = ver[u])

=============================================================================
