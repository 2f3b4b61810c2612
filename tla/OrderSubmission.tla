-------------------------- MODULE OrderSubmission --------------------------
(***************************************************************************)
(* ExecutionService: one order path for every execution mode, with an      *)
(* idempotency store in front of it.                                       *)
(*                                                                         *)
(*   book    what was really executed: the paper_orders rows, or in live   *)
(*           mode the broker's own order book                              *)
(*   store   IdempotencyStore: the keys on record, oldest first            *)
(*   call    the coroutines inside submit or submit_async                  *)
(*                                                                         *)
(* In paper and shadow mode nothing is awaited, so a submission runs alone *)
(* to its end unless the process dies.  In live mode LiveBrokerExecutor    *)
(* awaits the broker between the idempotency check and the record, and     *)
(* other submissions run meanwhile.                                        *)
(***************************************************************************)
EXTENDS Naturals, Sequences, SequencesExt

CONSTANTS
    Keys,          \* idempotency keys
    Callers,       \* coroutines that submit
    NoKey,         \* the key of a caller that has not submitted
    Configured,    \* the settings a run starts with, one of which is chosen
    MaxEntries,    \* MAX_IDEMPOTENCY_ENTRIES
    MaxRetries,    \* ExecutionAdapter.max_retries
    PollAttempts,  \* LiveBrokerExecutor.poll_attempts
    Faults,        \* the kinds of fault a run admits
    MaxSubmits,    \* submissions in a run (a bound for TLC)
    MaxFaults      \* faults in a run (a bound for TLC)

\* "crash"    the process dies and is started again
\* "read"     a look at the idempotency store, or at the order rows, raises
\* "record"   the idempotency row is not written
\* "evict"    the row is written but the oldest rows are not deleted
\* "persist"  the wallet commit fails, or lands and is reported as failed
\* "place"    the broker's placement call raises, before or after it got through
\* "status"   the broker's status call raises
FaultKinds == {"crash", "read", "record", "evict", "persist", "place", "status"}

Configurations == [requested : {"local_paper", "shadow", "dhan_paper", "live"},
                   allow : BOOLEAN, trading : {"paper", "live"},
                   credentials : BOOLEAN, executor : BOOLEAN]

ASSUME ConstantsAssumption ==
    /\ NoKey \notin Keys
    /\ Configured \subseteq Configurations
    /\ {MaxEntries, MaxRetries, PollAttempts} \subseteq Nat \ {0}
    /\ {MaxSubmits, MaxFaults} \subseteq Nat
    /\ Faults \subseteq FaultKinds

VARIABLES
    config,  \* the settings the service was built from
    killed,  \* what kill_switch() answers
    book, store, call,
    sent,    \* auxiliary: submissions made
    used     \* auxiliary: faults so far, by kind

vars == <<config, killed, book, store, call, sent, used>>

Executed == {"traded", "part"}
Filled == {"FILLED", "PARTIALLY_FILLED"}
Answers == Filled \cup {"REJECTED", "BLOCKED", "DUPLICATE", "RAISED", "none"}
OrderRows == [key : Keys, by : Callers,
              state : Executed \cup {"working", "rejected", "cancelled"}]

\* `row` is the place in the book of the order this call placed, 0 for none;
\* `answer` is what the call returned, or is about to.
Calls == [at : {"idle", "fill", "place", "poll", "record"}, key : Keys \cup {NoKey},
          tries : Nat, polls : Nat, row : Nat, answer : Answers]

NoCall == [at |-> "idle", key |-> NoKey, tries |-> 0, polls |-> 0, row |-> 0,
           answer |-> "none"]

TypeOK ==
    /\ config \in Configured
    /\ killed \in BOOLEAN
    /\ book \in Seq(OrderRows)
    /\ store \in Seq(Keys)
    /\ call \in [Callers -> Calls]
    /\ \A c \in Callers : call[c].row \in 0..Len(book)
    /\ sent \in Nat
    /\ used \in [FaultKinds -> Nat]

Init ==
    /\ config \in Configured
    /\ killed = FALSE
    /\ book = <<>>
    /\ store = <<>>
    /\ call = [c \in Callers |-> NoCall]
    /\ sent = 0
    /\ used = [kind \in FaultKinds |-> 0]

-----------------------------------------------------------------------------
(* Helpers.                                                                *)

Spent == MapThenSumSet(LAMBDA kind : used[kind], FaultKinds)

Fault(kind) ==
    /\ kind \in Faults /\ Spent < MaxFaults
    /\ used' = [used EXCEPT ![kind] = @ + 1]
NoFault == UNCHANGED used

\* A bug: TRADING_MODE is not part of the conjunction.
ResolveMode_slip(s) ==
    CASE s.requested = "dhan_paper" -> "shadow"
      [] s.requested = "live" /\ ~(s.allow /\ s.credentials) -> "shadow"
      [] OTHER -> s.requested

\* The route in effect: only the full conjunction reaches the broker.
ResolveMode(s) ==
    CASE s.requested = "dhan_paper" -> "shadow"
      [] s.requested = "live" /\ ~(s.allow /\ s.trading = "live" /\ s.credentials) -> "shadow"
      [] OTHER -> s.requested

Live == ResolveMode(config) = "live"

RowsOf(k) == {i \in 1..Len(book) : book[i].key = k}
ExecutedRows(k) == {i \in RowsOf(k) : book[i].state \in Executed}

\* No await separates the steps of a caller that is filling or recording.
Free(c) == \A d \in Callers \ {c} : call[d].at \notin {"fill", "record"}

Answer(c, stage, answer) == call' = [call EXCEPT ![c].at = stage, ![c].answer = answer]
-----------------------------------------------------------------------------
(* submit and submit_async up to the fill or the first await.              *)

\* A bug: every submission looks new.
Known_slip(k) == FALSE

Known(k) == k \in Range(store)

\* _guard, then the choice of the route.  `async` tells submit_async from submit,
\* which refuses in live mode; a failing read of the store counts as "not seen".
Submit(c, k, async) ==
    /\ call[c].at = "idle" /\ Free(c)
    /\ sent < MaxSubmits
    /\ sent' = sent + 1
    /\ \E seen \in {Known(k), FALSE} :
        /\ IF seen = Known(k) THEN NoFault ELSE Fault("read")
        /\ LET enter(stage, answer) ==
                   call' = [call EXCEPT ![c] = [NoCall EXCEPT !.at = stage, !.key = k,
                                                              !.answer = answer]]
           IN  CASE seen -> enter("idle", "DUPLICATE")
                 [] ~seen /\ killed -> enter("idle", "BLOCKED")
                 [] ~seen /\ ~killed /\ ~Live -> enter("fill", "none")
                 [] ~seen /\ ~killed /\ Live ->
                       IF async /\ config.executor THEN enter("place", "none")
                                                   ELSE enter("record", "REJECTED")
    /\ UNCHANGED <<config, killed, book, store>>

(* _fill_paper: LocalPaperEngine.place_order under the same key.           *)

\* A bug: the engine trusts the idempotency store.
AlreadyOrdered_slip(k) == FALSE

AlreadyOrdered(k) == RowsOf(k) # {}

\* A bug: the answer is FILLED although the commit was rolled back.
FillPaper_slip(c) ==
    /\ call[c].at = "fill" /\ ~AlreadyOrdered(call[c].key)
    /\ call' = [call EXCEPT ![c].at = "record", ![c].answer = "FILLED",
                            ![c].row = Len(book) + 1]
    /\ Fault("persist")
    /\ UNCHANGED <<config, killed, book, store, sent>>

\* The order and the wallet are one transaction: the row lands or it does not.
FillPaper(c) ==
    /\ call[c].at = "fill"
    /\ \/ /\ Fault("read")                                  \* the look-up raises
          /\ Answer(c, "idle", "RAISED")
          /\ UNCHANGED book
       \/ /\ AlreadyOrdered(call[c].key)
          /\ Answer(c, "record", "DUPLICATE")
          /\ UNCHANGED <<book, used>>
       \/ /\ ~AlreadyOrdered(call[c].key)
          /\ \E answer \in Filled \cup {"REJECTED"}, lands \in BOOLEAN :
              /\ IF answer \in Filled
                 THEN /\ call' = [call EXCEPT ![c].at = "record", ![c].answer = answer,
                                              ![c].row = Len(book) + 1]
                      /\ lands /\ NoFault
                 ELSE /\ Answer(c, "record", answer)        \* no cash, no shares, no commit
                      /\ IF lands THEN Fault("persist") ELSE NoFault
              /\ book' = IF lands THEN Append(book, [key |-> call[c].key, by |-> c,
                                                     state |-> "traded"])
                                  ELSE book
    /\ UNCHANGED <<config, killed, store, sent>>
-----------------------------------------------------------------------------
(* place_and_confirm over ExecutionAdapter.                                *)

\* One attempt of adapter.place_order.  The key is not sent to the broker.
Place(c) ==
    /\ call[c].at = "place" /\ Free(c)
    /\ LET reached == Append(book, [key |-> call[c].key, by |-> c, state |-> "working"])
       IN  \/ /\ book' = reached                            \* success: PLACED
              /\ call' = [call EXCEPT ![c].at = "poll", ![c].row = Len(book) + 1]
              /\ NoFault
           \/ /\ Answer(c, "record", "REJECTED")            \* the broker refused
              /\ UNCHANGED <<book, used>>
           \/ /\ Fault("place")                             \* the call raised
              /\ book' \in {book, reached}
              /\ IF call[c].tries + 1 < MaxRetries
                 THEN call' = [call EXCEPT ![c].tries = @ + 1]
                 ELSE Answer(c, "record", "REJECTED")       \* FAILED
    /\ UNCHANGED <<config, killed, store, sent>>

\* _submit_live's status_map over the states the poll ends on.
Confirmed(state) ==
    CASE state = "traded" -> "FILLED"
      [] state = "part" -> "PARTIALLY_FILLED"
      [] OTHER -> "REJECTED"

\* A bug: PLACED is taken for filled.
Unconfirmed_slip == "FILLED"

\* What becomes of an order whose fill no poll confirmed.
Unconfirmed == "REJECTED"

\* A bug: a poll that settles nothing is not counted.
Poll_slip(c) ==
    /\ call[c].at = "poll" /\ Free(c)
    /\ LET state == book[call[c].row].state IN
        \/ /\ state # "working"
           /\ Answer(c, "record", Confirmed(state))
           /\ NoFault
        \/ /\ IF state = "working" THEN NoFault ELSE Fault("status")
           /\ UNCHANGED call
    /\ UNCHANGED <<config, killed, book, store, sent>>

\* One poll: a terminal state ends the wait, and so does the last attempt.
Poll(c) ==
    /\ call[c].at = "poll" /\ Free(c)
    /\ LET state == book[call[c].row].state IN
        \/ /\ state # "working"
           /\ Answer(c, "record", Confirmed(state))
           /\ NoFault
        \/ /\ IF state = "working" THEN NoFault ELSE Fault("status")
           /\ IF call[c].polls + 1 < PollAttempts
              THEN call' = [call EXCEPT ![c].polls = @ + 1]
              ELSE Answer(c, "record", Unconfirmed)
    /\ UNCHANGED <<config, killed, book, store, sent>>

(* _record_if_filled and IdempotencyStore.record.                          *)

\* A bug: whatever was answered goes on record.
Recorded_slip(answer) == TRUE

Recorded(answer) == answer \in Filled

Newest(s) == IF Len(s) > MaxEntries THEN SubSeq(s, Len(s) - MaxEntries + 1, Len(s)) ELSE s

\* A key is on record once: a row that is written again becomes the newest.
Without(s, k) == IF k \in Range(s) THEN RemoveAt(s, CHOOSE i \in DOMAIN s : s[i] = k) ELSE s

Record(c) ==
    /\ call[c].at = "record"
    /\ LET written == Append(Without(store, call[c].key), call[c].key)
       IN  IF Recorded(call[c].answer)
           THEN \/ store' = Newest(written) /\ NoFault
                \/ store' = store /\ Fault("record")
                \/ store' = written /\ Fault("evict")
           ELSE UNCHANGED <<store, used>>
    /\ Answer(c, "idle", call[c].answer)
    /\ UNCHANGED <<config, killed, book, sent>>
-----------------------------------------------------------------------------
(* The world around the service.                                           *)

\* The broker works an order: external, as _map_status reads its states.
BrokerActs(i) ==
    /\ Live /\ i \in 1..Len(book)
    /\ \/ /\ book[i].state = "working"
          /\ \E s \in Executed \cup {"rejected", "cancelled"} :
                 book' = [book EXCEPT ![i].state = s]
       \/ /\ book[i].state = "part"
          /\ book' = [book EXCEPT ![i].state = "traded"]
    /\ UNCHANGED <<config, killed, store, call, sent, used>>

SwitchKill ==
    /\ killed' = ~killed
    /\ UNCHANGED <<config, book, store, call, sent, used>>

Crash ==
    /\ Fault("crash")
    /\ call' = [c \in Callers |-> NoCall]
    /\ UNCHANGED <<config, killed, book, store, sent>>

Proceed(c) == FillPaper(c) \/ Place(c) \/ Poll(c) \/ Record(c)

Next ==
    \/ \E c \in Callers : Proceed(c) \/ \E k \in Keys, async \in BOOLEAN : Submit(c, k, async)
    \/ \E i \in 1..Len(book) : BrokerActs(i)
    \/ SwitchKill
    \/ Crash

Spec == Init /\ [][Next]_vars
-----------------------------------------------------------------------------
(* Properties.                                                             *)

\* A key is executed at most once, whatever is retried, forgotten or crashes:
\* the promise of the idempotency key.
OneFillPerKey ==
    \A k \in Keys : \A i, j \in ExecutedRows(k) : i = j

\* In paper mode the order table keeps it when the store cannot; in live mode
\* nothing does.
PaperFillsOnce == ~Live => OneFillPerKey

\* What a caller is told is true: a fill is reported only for an order of this
\* very call that traded, never for one that was merely placed, and a submission
\* is refused as a duplicate only if its key really was executed.  Only such keys
\* are on record: a rejected or blocked one can be retried.
AnswersAreTrue ==
    /\ \A c \in Callers : call[c].answer \in Filled =>
          /\ call[c].row \in ExecutedRows(call[c].key)
          /\ book[call[c].row].by = c
    /\ \A c \in Callers : call[c].answer = "DUPLICATE" => ExecutedRows(call[c].key) # {}
    /\ \A k \in Range(store) : ExecutedRows(k) # {}

\* What is filled is filled once where it can be promised, and what is told is so.
SubmissionsAreTrue == AnswersAreTrue /\ PaperFillsOnce

\* Without the three consents (TRADING_MODE, ALLOW_LIVE_ORDERS, credentials) and
\* an attached executor no call comes near the broker.
RealOrdersNeedConsent ==
    (\E c \in Callers : call[c].at \in {"place", "poll"}) =>
        /\ config.requested = "live" /\ config.trading = "live"
        /\ config.allow /\ config.credentials /\ config.executor

\* At most one caller has submitted since the process started.
Alone == \E c \in Callers : \A d \in Callers \ {c} : call[d] = NoCall

\* A step that sends no order for a key on record, while the store can be read.
RecordKept == used["read"] = 0 => \A k \in Range(store) : RowsOf(k)' = RowsOf(k)

\* Once a fill is on record its key places no further order, until the record
\* is evicted.  For a single caller: of two that ask at the same time, both pass
\* the check.
RecordedIsNotRepeated == [][Alone => RecordKept]_vars
=============================================================================
