---------------------------- MODULE CandleHistory ----------------------------
(***************************************************************************)
(* The candles of one symbol at one native timeframe, and those derived    *)
(* from pairs of them: what HistoryManager keeps in memory, what the       *)
(* CandleStore keeps, and the two threads that fill both.                  *)
(*                                                                         *)
(*   A reader (get_multi_timeframe_history, in a worker thread) copies the *)
(*   frame under the lock, then reads the store and asks the broker        *)
(*   without it, and writes the merge back.  Quotes append meanwhile.      *)
(*                                                                         *)
(*   The ingestion job fetches, while the market is closed, what it takes  *)
(*   to be missing, and corrects a tail of what it has.                    *)
(*                                                                         *)
(* Time is counted in native candles of one session: slot n is open while  *)
(* now = n, and now = Session + 1 is the evening.  A candle is the set of  *)
(* trades it has seen: its open, high, low, close and volume follow from   *)
(* them.  A frame maps every slot to that set; {} is a missing row.        *)
(***************************************************************************)
EXTENDS Naturals, FiniteSets, FiniteSetsExt

CONSTANTS
    Session,       \* native candles in a session
    Start,         \* the slot in which the first process starts
    Bars,          \* the rows a reader asks for
    Depth,         \* the slots a reader's request goes back
    Overlap,       \* market_history_overlap_days, in slots
    MaxPerSlot,    \* trades of a slot (a bound for TLC)
    MaxFaults      \* failed requests, failed windows and crashes (a bound for TLC)

ASSUME HistoryAssumption ==
    /\ {Session, Start, Bars, Depth, Overlap} \subseteq Nat \ {0}
    /\ Session + 1 <= Start + Depth   \* a request reaches what opened since
    /\ {MaxPerSlot, MaxFaults} \subseteq Nat

VARIABLES
    tape, now, last,          \* the exchange: trades of a slot, the time, the slot traded last
    frame, derived,           \* the process: _intraday_history, native and derived
    loaded, attempted, warm,  \* there has been a store read, a request, a fresh frame
    reader, job,              \* the two threads
    store,                    \* the table market_candles
    mishaps                   \* auxiliary: how many so far

exchange == <<tape, now, last>>
memory == <<frame, derived, loaded, attempted, warm>>
hVars == <<exchange, memory, reader, job, store, mishaps>>

Slots == 1..Session
MarketHours == now \in Slots
NoRows == [s \in Slots |-> {}]
Rows(f) == {s \in Slots : f[s] # {}}
Final(s) == 1..tape[s]

NoRow == [seen |-> {}, complete |-> FALSE]
NoDerived == [token |-> {}, of |-> NoRows]
Resting == [at |-> "idle", wants |-> "native", copy |-> NoRows, got |-> NoRows, since |-> 0]
JobResting == [at |-> "idle", got |-> NoRows, since |-> 0]

HStartsAt(slot, spent) ==
    /\ tape \in {t \in [Slots -> 0..1] : \A s \in Slots : s >= Start => t[s] = 0}
    /\ now = slot
    /\ last = Max({s \in Slots : tape[s] > 0} \cup {0})
    /\ frame = NoRows /\ derived = NoDerived
    /\ loaded = FALSE /\ attempted = FALSE /\ warm = FALSE
    /\ reader = Resting /\ job = JobResting
    /\ store = [s \in Slots |-> NoRow]
    /\ mishaps = spent

HInit == HStartsAt(Start, 0)

Mishap == mishaps < MaxFaults /\ mishaps' = mishaps + 1

-----------------------------------------------------------------------------
(* The store.  A row is complete when its candle is over on the clock of   *)
(* the writer, whatever the clock was when the broker answered.            *)

Upserted(rows, f) ==
    [s \in Slots |-> IF s \in rows /\ f[s] # {} THEN [seen |-> f[s], complete |-> s < now]
                     ELSE store[s]]

(* A write that fails is only logged.                                      *)
PersistFrame(f) ==
    \/ store' = Upserted(Slots, f) /\ UNCHANGED mishaps
    \/ UNCHANGED store /\ Mishap

Newest(rows, n) == {s \in rows : Cardinality({t \in rows : t > s}) < n}

LoadFrame(n) ==
    LET rows == Newest({s \in Slots : store[s].complete}, n)
    IN [s \in Slots |-> IF s \in rows THEN store[s].seen ELSE {}]

(* A read that fails is only logged, and gives nothing.                    *)
StoredPrefix == {LoadFrame(Bars), NoRows}

Coverage == {s \in Slots : store[s] # NoRow}

(***************************************************************************)
(* The broker's answer: the candles since a slot, the forming one as it is.*)
(* Each slot is a window of its own; one that fails is a gap.              *)
(***************************************************************************)
Windows(from, failed) ==
    [s \in Slots |-> IF s >= from /\ s \notin failed THEN Final(s) ELSE {}]

AnyFailed == {{}} \cup (IF mishaps < MaxFaults THEN {{s} : s \in Slots} ELSE {})

-----------------------------------------------------------------------------
(* Frames: merging, the rows derived from pairs, and what is settled.      *)

Merge(f, g) == [s \in Slots |-> IF g[s] # {} THEN g[s] ELSE f[s]]

Bucket(s) == s - ((s - 1) % 2)

(* _resample_ohlcv counts the buckets of a session for itself.             *)
SessionBucket_slip(s) == IF s = 1 THEN 1 ELSE s - (s % 2)
SessionBucket(s) == 2 * ((s - 1) \div 2) + 1

BucketCloses(b) == IF b + 2 > Session + 1 THEN Session + 1 ELSE b + 2

(* A derived row is the trades of its native rows, each named by its slot. *)
Resample(f) ==
    [b \in Slots |-> UNION {{<<s, n>> : n \in f[s]} : s \in {t \in Slots : SessionBucket(t) = b}}]

Settled(d) == [b \in Slots |-> IF BucketCloses(b) <= now THEN d[b] ELSE {}]

(* latest_settled_candle_timestamp: the scan's event is made from this.    *)
LatestSettled == Max({Bucket(s) : s \in {t \in Rows(frame) : BucketCloses(Bucket(t)) <= now}} \cup {0})

Token(f) == IF Rows(f) = {} THEN {} ELSE {<<Max(Rows(f)), Cardinality(Rows(f))>>}

-----------------------------------------------------------------------------
(* The exchange, and the quotes of its last trade, which may be late.      *)

Trade ==
    /\ MarketHours /\ tape[now] < MaxPerSlot
    /\ tape' = [tape EXCEPT ![now] = @ + 1]
    /\ last' = now
    /\ UNCHANGED <<now, memory, reader, job, store, mishaps>>

(* A request is answered and written within one candle.                    *)
Prompt == \A p \in {reader, job} : p.at \in {"merge", "upsert"} => p.since = now

HTick ==
    /\ now <= Session /\ Prompt
    /\ now' = now + 1
    /\ UNCHANGED <<tape, last, memory, reader, job, store, mishaps>>

Appended(f, s, n) == [f EXCEPT ![s] = @ \cup {n}]

(* The same quote is appended when it arrives and again by each cycle.     *)
AppendQuote ==
    /\ last # 0 /\ Rows(frame) # {}
    /\ last >= Max(Rows(frame))
    /\ frame' = Appended(frame, last, tape[last])
    /\ frame' # frame
    /\ UNCHANGED <<exchange, derived, loaded, attempted, warm, reader, job, store, mishaps>>

-----------------------------------------------------------------------------
(* The reader.                                                             *)

Insufficient(f) == Cardinality(Rows(f)) < Bars

Read(wants) ==
    /\ reader.at = "idle"
    /\ \E due \in {"store", "ask"} :
         /\ due = "store" => Insufficient(frame)
         /\ due = "ask" => ~Insufficient(frame) \/ loaded
         /\ reader' = [Resting EXCEPT !.at = due, !.wants = wants, !.copy = frame]
    /\ UNCHANGED <<exchange, memory, job, store, mishaps>>

(* The stored rows are the prefix, the copy the tail.                      *)
ReadStore ==
    /\ reader.at = "store"
    /\ \E stored \in StoredPrefix :
         LET merged == Merge(stored, reader.copy)
         IN /\ IF stored = LoadFrame(Bars) THEN UNCHANGED mishaps ELSE Mishap
            /\ frame' = IF Rows(merged) = {} THEN frame ELSE merged
            /\ warm' = (warm \/ ~Insufficient(merged))
            /\ reader' = [reader EXCEPT !.at = "ask", !.copy = merged]
    /\ loaded' = TRUE
    /\ UNCHANGED <<exchange, derived, attempted, job, store>>

(* In market hours a frame with enough rows is left to the quotes.         *)
ReadAsk ==
    /\ reader.at = "ask"
    /\ Insufficient(reader.copy) \/ ~MarketHours
    /\ \E failed \in {{}} \cup (IF mishaps < MaxFaults THEN {Slots} ELSE {}) :
         /\ IF failed = {} THEN UNCHANGED mishaps ELSE Mishap
         /\ reader' = [reader EXCEPT !.at = "merge", !.since = now,
                           !.got = Windows(IF now > Depth THEN now - Depth ELSE 1, failed)]
    /\ UNCHANGED <<exchange, memory, job, store>>

ReadNotAsk ==
    /\ reader.at = "ask"
    /\ IF Insufficient(reader.copy) THEN attempted ELSE warm \/ MarketHours
    /\ reader' = [reader EXCEPT !.at = "answer"]
    /\ UNCHANGED <<exchange, memory, job, store, mishaps>>

ReadMerge ==
    /\ reader.at = "merge"
    /\ attempted' = TRUE
    /\ IF Rows(reader.got) = {}
       THEN /\ reader' = IF Rows(reader.copy) = {} THEN Resting
                         ELSE [reader EXCEPT !.at = "answer", !.got = NoRows]
            /\ UNCHANGED <<frame, warm, store, mishaps>>
       ELSE /\ frame' = Merge(reader.copy, reader.got)
            /\ warm' = TRUE
            /\ reader' = [reader EXCEPT !.at = "answer", !.got = NoRows]
            /\ PersistFrame(reader.got)
    /\ UNCHANGED <<exchange, derived, loaded, job>>

(* What the call returns for derived rows: the ones cached under the same  *)
(* token (last row and number of rows), or new ones.                       *)
Derive(f) == IF derived.token = Token(f) /\ Token(f) # {} THEN derived.of ELSE Resample(f)

Answer ==
    /\ reader.at = "answer"
    /\ reader' = Resting
    /\ derived' = IF reader.wants = "derived" /\ Rows(frame) # {}
                  THEN [token |-> Token(frame), of |-> Derive(frame)]
                  ELSE derived
    /\ UNCHANGED <<exchange, frame, loaded, attempted, warm, job, store, mishaps>>

-----------------------------------------------------------------------------
(* The ingestion job, for this series.                                     *)

(* The whole horizon until its first candle is stored, then a tail.        *)
PeriodFrom_slip == IF 1 \notin Coverage THEN 1 ELSE Max(Coverage) + 1
PeriodFrom_shallow == IF Coverage # {} /\ Max(Coverage) > Overlap THEN Max(Coverage) - Overlap ELSE 1
PeriodFrom ==
    IF 1 \notin Coverage THEN 1
    ELSE IF Max(Coverage) > Overlap THEN Max(Coverage) - Overlap ELSE 1

SyncFetch ==
    /\ job.at = "idle" /\ ~MarketHours
    /\ \E failed \in AnyFailed :
         /\ IF failed = {} THEN UNCHANGED mishaps ELSE Mishap
         /\ LET got == Windows(PeriodFrom, failed)
            IN job' = IF Rows(got) = {} THEN JobResting
                      ELSE [at |-> "upsert", got |-> got, since |-> now]
    /\ UNCHANGED <<exchange, memory, reader, store>>

(* Each chunk (here a row, the oldest first) is a transaction of its own.  *)
SyncUpsert ==
    /\ job.at = "upsert"
    /\ LET s == Min(Rows(job.got))
           rest == [job.got EXCEPT ![s] = {}]
       IN /\ store' = Upserted({s}, job.got)
          /\ job' = IF Rows(rest) = {} THEN JobResting ELSE [job EXCEPT !.got = rest]
    /\ UNCHANGED <<exchange, memory, reader, mishaps>>

(* The process is killed and started again; only the table survives.       *)
HCrash ==
    /\ Mishap
    /\ frame' = NoRows /\ derived' = NoDerived
    /\ loaded' = FALSE /\ attempted' = FALSE /\ warm' = FALSE
    /\ reader' = Resting /\ job' = JobResting
    /\ UNCHANGED <<exchange, store>>

Reader == ReadStore \/ ReadAsk \/ ReadNotAsk \/ ReadMerge \/ Answer
Ingest == SyncFetch \/ SyncUpsert

HNext ==
    \/ Trade \/ HTick \/ AppendQuote
    \/ \E wants \in {"native", "derived"} : Read(wants)
    \/ Reader \/ Ingest \/ HCrash

(* The scheduler's loop and the threads go on; the clock does.             *)
HFair == WF_hVars(HTick) /\ WF_hVars(Reader) /\ WF_hVars(Ingest)

HSpec == HInit /\ [][HNext]_hVars /\ HFair

-----------------------------------------------------------------------------
(* Whatever was written early, late or half: in the end a row that readers *)
(* may use (is_complete) holds all the trades of its candle, because the   *)
(* job downloads an overlap (_period_for and the upsert).                  *)
StoreIsCorrected ==
    <>[](\A s \in Slots : store[s].complete => store[s].seen = Final(s))

(* The store comes to reach back to the horizon, though windows of the     *)
(* first download fail and readers store shallower frames (_period_for).   *)
HorizonIsReached == <>[](tape[1] > 0 => store[1] # NoRow)

(* The candle whose settlement wakes the scan is one the scan is then      *)
(* given (latest_settled_candle_timestamp, get_settled_history).           *)
EventHasItsCandle ==
    [][Answer /\ reader.wants = "derived" /\ LatestSettled # 0
         => Settled(Derive(frame))[LatestSettled] # {}]_hVars

(* Candles reach those who read them: the one just announced, the ones that *)
(* were first stored half, and in the end all of the horizon.               *)
HistoryServes == EventHasItsCandle /\ StoreIsCorrected /\ HorizonIsReached
=============================================================================
