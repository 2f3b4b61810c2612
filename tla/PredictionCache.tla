--------------------------- MODULE PredictionCache ---------------------------
(***************************************************************************)
(* PredictionAgent.predict_cached: the live ML inference cache.            *)
(*                                                                         *)
(*   cache     _cache, least recently used first                           *)
(*   inflight  _inflight: the caller that owns the event of a key          *)
(*   at, key   the threads inside predict_cached (asyncio.to_thread), and  *)
(*             the symbol, timeframe, versions and settled candle asked    *)
(*                                                                         *)
(* Every section under _cache_lock is one action; inference runs outside   *)
(* the lock.  An event is created unset, set once and never cleared, so    *)
(* setting it is the same as sending its waiters back to the loop's head.  *)
(***************************************************************************)
EXTENDS Naturals, Sequences, SequencesExt

CONSTANTS
    Callers,    \* threads
    Keys,       \* cache keys
    None,       \* no caller, no key
    CacheSize,  \* _cache_size
    MaxCalls    \* calls in a run (a bound for TLC)

ASSUME CacheAssumption ==
    /\ None \notin Callers \cup Keys
    /\ CacheSize \in Nat \ {0}
    /\ MaxCalls \in Nat

VARIABLES cache, inflight, at, key,
          calls  \* auxiliary: calls made

cVars == <<cache, inflight, at, key, calls>>

\* "enter"    at the head of the loop
\* "wait"     in event.wait()
\* "infer"    outside the lock, running predict_live
\* "store"    the prediction is computed and about to be stored
\* "release"  in the finally clause, the event still registered
Places == {"idle", "enter", "wait", "infer", "store", "release"}
Leading == {"infer", "store", "release"}

CacheTypes ==
    /\ cache \in Seq(Keys)
    /\ inflight \in [Keys -> Callers \cup {None}]
    /\ at \in [Callers -> Places]
    /\ key \in [Callers -> Keys \cup {None}]
    /\ \A c \in Callers : key[c] = None <=> at[c] = "idle"
    /\ calls \in Nat

CInit ==
    /\ cache = <<>>
    /\ inflight = [k \in Keys |-> None]
    /\ at = [c \in Callers |-> "idle"]
    /\ key = [c \in Callers |-> None]
    /\ calls = 0
-----------------------------------------------------------------------------
Cached(k) == k \in ToSet(cache)

\* move_to_end, or the insertion of a new key
Without(k) ==
    IF Cached(k) THEN RemoveAt(cache, CHOOSE i \in DOMAIN cache : cache[i] = k) ELSE cache
Touched(k) == Append(Without(k), k)

\* A bug: the size is tested before the entry goes in.
Trimmed_slip(entries) ==
    IF Len(entries) > CacheSize + 1 THEN Tail(entries) ELSE entries

\* popitem(last=False) while over the size; one insertion is one entry over
Trimmed(entries) == IF Len(entries) > CacheSize THEN Tail(entries) ELSE entries

\* A bug: the key of a finished call is kept.
Return_slip(c) ==
    /\ at' = [at EXCEPT ![c] = "idle"]
    /\ UNCHANGED key

Return(c) ==
    /\ at' = [at EXCEPT ![c] = "idle"]
    /\ key' = [key EXCEPT ![c] = None]

Call(c, k) ==
    /\ at[c] = "idle"
    /\ calls < MaxCalls
    /\ calls' = calls + 1
    /\ at' = [at EXCEPT ![c] = "enter"]
    /\ key' = [key EXCEPT ![c] = k]
    /\ UNCHANGED <<cache, inflight>>

Hit(c) ==
    /\ at[c] = "enter"
    /\ Cached(key[c])
    /\ cache' = Touched(key[c])
    /\ Return(c)
    /\ UNCHANGED <<inflight, calls>>

Wait(c) ==
    /\ at[c] = "enter"
    /\ ~Cached(key[c])
    /\ inflight[key[c]] # None
    /\ at' = [at EXCEPT ![c] = "wait"]
    /\ UNCHANGED <<cache, inflight, key, calls>>

\* A bug: the lookup of the cache and the registration of the event are two
\* sections under the lock, and the second does not look again.
Lead_slip(c) ==
    /\ at[c] = "enter"
    /\ ~Cached(key[c])
    /\ inflight' = [inflight EXCEPT ![key[c]] = c]
    /\ at' = [at EXCEPT ![c] = "infer"]
    /\ UNCHANGED <<cache, key, calls>>

Lead(c) ==
    /\ at[c] = "enter"
    /\ ~Cached(key[c])
    /\ inflight[key[c]] = None
    /\ inflight' = [inflight EXCEPT ![key[c]] = c]
    /\ at' = [at EXCEPT ![c] = "infer"]
    /\ UNCHANGED <<cache, key, calls>>

\* predict_live answers: a prediction or an abstention, both are stored.
Infer(c) ==
    /\ at[c] = "infer"
    /\ at' = [at EXCEPT ![c] = "store"]
    /\ UNCHANGED <<cache, inflight, key, calls>>

\* A bug: no finally clause, a raise leaves the event registered and unset.
Raise_slip(c) ==
    /\ at[c] = "infer"
    /\ Return(c)
    /\ UNCHANGED <<cache, inflight, calls>>

\* predict_live raises what it does not turn into an abstention.
Raise(c) ==
    /\ at[c] = "infer"
    /\ at' = [at EXCEPT ![c] = "release"]
    /\ UNCHANGED <<cache, inflight, key, calls>>

Store(c) ==
    /\ at[c] = "store"
    /\ cache' = Trimmed(Touched(key[c]))
    /\ at' = [at EXCEPT ![c] = "release"]
    /\ UNCHANGED <<inflight, key, calls>>

\* A bug: the event is unregistered and never set.
Release_unset(c) ==
    /\ at[c] = "release"
    /\ inflight' = [inflight EXCEPT ![key[c]] = None]
    /\ Return(c)
    /\ UNCHANGED <<cache, calls>>

\* A bug: a waiter that wakes up does not go back to the head of the loop.
Release_slip(c) ==
    /\ at[c] = "release"
    /\ inflight' = [inflight EXCEPT ![key[c]] = None]
    /\ at' = [d \in Callers |->
                 CASE d = c -> "idle"
                   [] at[d] = "wait" /\ key[d] = key[c] -> "infer"
                   [] OTHER -> at[d]]
    /\ key' = [key EXCEPT ![c] = None]
    /\ UNCHANGED <<cache, calls>>

\* The event is unregistered and set: its waiters go round the loop again.
Release(c) ==
    /\ at[c] = "release"
    /\ inflight' = [inflight EXCEPT ![key[c]] = None]
    /\ at' = [d \in Callers |->
                 CASE d = c -> "idle"
                   [] at[d] = "wait" /\ key[d] = key[c] -> "enter"
                   [] OTHER -> at[d]]
    /\ key' = [key EXCEPT ![c] = None]
    /\ UNCHANGED <<cache, calls>>

Step(c) == Hit(c) \/ Wait(c) \/ Lead(c) \/ Infer(c) \/ Raise(c) \/ Store(c) \/ Release(c)

CNext == \E c \in Callers : Step(c) \/ \E k \in Keys : Call(c, k)

CSpec == CInit /\ [][CNext]_cVars

\* A thread of the pool is not held up for ever outside the lock.
CFair == \A c \in Callers : WF_cVars(Step(c))
-----------------------------------------------------------------------------
(* Properties.                                                             *)

\* Concurrent requests for one key are coalesced: two threads never run the
\* same inference, nor store or release the same key, at the same time.
OneInferencePerKey ==
    \A c, d \in Callers :
        at[c] \in Leading /\ at[d] \in Leading /\ key[c] = key[d] => c = d

\* Nobody waits on an event that no thread will set: the key a thread waits
\* for is being led by a thread that is still in its try statement.
WaitersAreLed ==
    \A c \in Callers : at[c] = "wait" =>
        /\ inflight[key[c]] # None
        /\ at[inflight[key[c]]] \in Leading
        /\ key[inflight[key[c]]] = key[c]

\* Inference runs once per settled candle: a key that is being inferred is
\* not already in the cache, whatever was evicted or answered meanwhile.
NothingInferredTwice ==
    \A c \in Callers : at[c] \in {"infer", "store"} => ~Cached(key[c])

\* At most the configured number of entries is kept, and none twice.
CacheBounded ==
    /\ Len(cache) <= CacheSize
    /\ \A i, j \in 1..Len(cache) : cache[i] = cache[j] => i = j

\* The cache keeps its order whoever raises, waits or is evicted.
CacheIsSound == OneInferencePerKey /\ WaitersAreLed /\ NothingInferredTwice /\ CacheBounded

\* Every call ends, with a prediction or with the exception of its own
\* inference, however many threads ask for the same key and raise.
EveryCallReturns == <>[](\A c \in Callers : at[c] = "idle")
=============================================================================
