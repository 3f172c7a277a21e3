------------------------- MODULE MetricsCacheProofs -------------------------
(***************************************************************************)
(* ServesOwnPod for every set of callers, pods and names.  It is not       *)
(* inductive by itself: a hit returns what the cache holds, and a Set      *)
(* stores what the fetch returned, so the invariant must also say that a   *)
(* cached item sits under its own pod's key and that a fetched result is  *)
(* the asking pod's.                                                       *)
(***************************************************************************)
EXTENDS MetricsCache, TLAPS

\* An item the cache holds was stored under the UID of the pod it is about.
CachedUnderOwnKey ==
    \A k \in Keys : cache[k] # Absent => cache[k].val.uid = k

\* A caller holding a fetched result holds its own pod's, and one that is
\* not between fetch and Set holds none.
GotOwnPod ==
    \A c \in Callers :
        IF pc[c] = "Fetched" THEN got[c] \in Stats /\ got[c].uid = pod[c]
                             ELSE got[c] = NoResult

IInv == TypeOK /\ ServesOwnPod /\ CachedUnderOwnKey /\ GotOwnPod

LEMMA NotStats == NoResult \notin Stats /\ Error \notin Stats
  BY DEF NoResult, Error, Stats

LEMMA ExpiresType == EntryExpires \in BOOLEAN
  BY DEF EntryExpires

LEMMA InitIInv == Init => IInv
<1> SUFFICES ASSUME Init PROVE IInv
  OBVIOUS
<1>1. TypeOK
  BY MetricsCacheAssumption DEF Init, TypeOK
<1>2. ServesOwnPod /\ GotOwnPod
  BY NotStats DEF Init, ServesOwnPod, GotOwnPod
<1>3. CachedUnderOwnKey
  BY DEF Init, CachedUnderOwnKey
<1>. QED
  BY <1>1, <1>2, <1>3 DEF IInv

LEMMA NextIInv == IInv /\ [Next]_vars => IInv'
<1> SUFFICES ASSUME IInv, [Next]_vars PROVE IInv'
  OBVIOUS
<1>. USE NotStats, ExpiresType, MetricsCacheAssumption
     DEF IInv, TypeOK, ServesOwnPod, CachedUnderOwnKey, GotOwnPod, CacheKey, Keys
<1>1. ASSUME NEW c \in Callers, NEW u \in Pods, GetHit(c, u) PROVE IInv'
  BY <1>1 DEF GetHit
<1>2. ASSUME NEW c \in Callers, NEW u \in Pods, GetMiss(c, u) PROVE IInv'
  BY <1>2 DEF GetMiss
<1>3. ASSUME NEW c \in Callers, FetchOk(c) PROVE IInv'
  BY <1>3 DEF FetchOk, Stats
<1>4. ASSUME NEW c \in Callers, FetchErr(c) PROVE IInv'
  BY <1>4 DEF FetchErr
<1>5. ASSUME NEW c \in Callers, SetAndReturn(c) PROVE IInv'
  BY <1>5 DEF SetAndReturn
<1>6. ASSUME NEW k \in Keys, Expire(k) PROVE IInv'
  BY <1>6 DEF Expire
<1>7. ASSUME NEW u \in Pods, Advance(u) PROVE IInv'
  BY <1>7 DEF Advance, Stats
<1>8. CASE UNCHANGED vars
  BY <1>8 DEF vars
<1>. QED
  BY <1>1, <1>2, <1>3, <1>4, <1>5, <1>6, <1>7, <1>8 DEF Next

\* Whatever the interleaving of callers, expiries and backend updates, and
\* for every naming of pods, a caller of getPodStats is returned stats of
\* the pod it asked for (the UID key of cache.go:26).
THEOREM OwnPodServed == Spec => []ServesOwnPod
<1>1. Spec => []IInv
  BY InitIInv, NextIInv, PTL DEF Spec
<1>. QED
  BY <1>1, PTL DEF IInv

\* Every state reached has the cache's items, the callers' program
\* counters, fetched results and returned values of their declared kinds:
\* in particular, no failed fetch ever reaches the cache (cache.go:31-34).
THEOREM MetricsTypeCorrect == Spec => []TypeOK
<1>1. Spec => []IInv
  BY InitIInv, NextIInv, PTL DEF Spec
<1>. QED
  BY <1>1, PTL DEF IInv

=============================================================================
