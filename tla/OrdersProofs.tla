---------------------------- MODULE OrdersProofs ----------------------------
(***************************************************************************)
(* What holds of orders for every set of keys, callers and settings, every *)
(* bound on the idempotency store and every schedule of faults: type       *)
(* correctness, the consents a real order needs, what a caller is told,    *)
(* and that a key on record is not sent again (OrderSubmission); and, for  *)
(* any prices, costs and limits, that the records of a position agree and  *)
(* its protection grows (PaperDesk, which shares no state with it).        *)
(***************************************************************************)
EXTENDS OrderSubmission, PaperDesk, SequenceTheorems, WellFoundedInduction, TLAPS

(***************************************************************************)
(* The inductive invariant.                                                *)
(***************************************************************************)
\* A caller that is inside a submission has submitted a key.
KeyInv(c) == call[c].at # "idle" => call[c].key \in Keys

\* Which route a submission is on follows from the settings, and no answer is
\* given before the route has ended.
RouteInv(c) ==
    /\ call[c].at = "fill" => ~Live
    /\ call[c].at \in {"place", "poll"} => Live /\ config.executor
    /\ call[c].at \in {"fill", "place", "poll"} => call[c].answer = "none"

\* What is polled is the order of this very call.
PollInv(c) == call[c].at = "poll" =>
    /\ call[c].row \in RowsOf(call[c].key)
    /\ book[call[c].row].by = c

\* The order rows of the paper engine: filled, and one for a key.
PaperInv == ~Live =>
    /\ \A i \in 1..Len(book) : book[i].state = "traded"
    /\ \A i, j \in 1..Len(book) : book[i].key = book[j].key => i = j

\* Only c has submitted since the process started.
Sole(c) == \A d \in Callers \ {c} : call[d] = NoCall

\* Such a caller found its key off the record, if it could read the store.
UnrecordedInv(c) ==
    Sole(c) /\ used["read"] = 0 /\ call[c].at = "place" => call[c].key \notin Range(store)

\* What c was told is true.
ToldTrue(c) ==
    /\ call[c].answer \in Filled =>
          /\ call[c].row \in ExecutedRows(call[c].key)
          /\ book[call[c].row].by = c
    /\ call[c].answer = "DUPLICATE" => ExecutedRows(call[c].key) # {}

CallInv(c) == KeyInv(c) /\ RouteInv(c) /\ PollInv(c) /\ ToldTrue(c)

\* Only keys that were executed are on record.
StoreInv == \A k \in Range(store) : ExecutedRows(k) # {}

Sound ==
    /\ TypeOK
    /\ \A c \in Callers : CallInv(c)
    /\ PaperInv
    /\ StoreInv

OrderInv == Sound /\ \A c \in Callers : UnrecordedInv(c)

(***************************************************************************)
(* Sequences: slices, the record without a key, the newest of the record.  *)
(***************************************************************************)
\* A slice of a sequence holds nothing the sequence does not.
LEMMA SliceOfSeq ==
    ASSUME NEW S, NEW s \in Seq(S), NEW m \in Nat, NEW n \in 0..Len(s), m >= 1
    PROVE  SubSeq(s, m, n) \in Seq(S) /\ Range(SubSeq(s, m, n)) \subseteq Range(s)
  <1>1. SubSeq(s, m, n) \in Seq(S)
    BY SubSeqProperties
  <1>2. \A i \in 1..Len(SubSeq(s, m, n)) : SubSeq(s, m, n)[i] = s[m + i - 1] /\ m + i - 1 \in 1..Len(s)
    BY SubSeqProperties
  <1> QED
    BY <1>1, <1>2 DEF Range

\* Taking a key off the record adds nothing to it.
LEMMA WithoutOfSeq ==
    ASSUME NEW S, NEW s \in Seq(S), NEW k
    PROVE  Without(s, k) \in Seq(S) /\ Range(Without(s, k)) \subseteq Range(s)
  <1>1. CASE k \notin Range(s)
    BY <1>1 DEF Without
  <1>2. CASE k \in Range(s)
    <2> DEFINE i == CHOOSE i \in DOMAIN s : s[i] = k
               f == SubSeq(s, 1, i - 1)
               b == SubSeq(s, i + 1, Len(s))
    <2>1. i \in 1..Len(s)
      BY <1>2 DEF Range
    <2> HIDE DEF i
    <2>2. f \in Seq(S) /\ Range(f) \subseteq Range(s)
      BY <2>1, SliceOfSeq
    <2>3. b \in Seq(S) /\ Range(b) \subseteq Range(s)
      BY <2>1, SliceOfSeq
    <2>4. Without(s, k) = f \o b
      BY <1>2 DEF Without, RemoveAt, i
    <2> HIDE DEF f, b
    <2>5. f \o b \in Seq(S) /\ Range(f \o b) = Range(f) \cup Range(b)
      BY <2>2, <2>3, ConcatProperties, RangeConcatenation
    <2> QED
      BY <2>2, <2>3, <2>4, <2>5
  <1> QED
    BY <1>1, <1>2

\* An append adds one element.
LEMMA AppendOfSeq ==
    ASSUME NEW S, NEW s \in Seq(S), NEW e \in S
    PROVE  Append(s, e) \in Seq(S) /\ Range(Append(s, e)) = Range(s) \cup {e}
  BY DEF Range

\* Evicting the oldest keys adds nothing to the record.
LEMMA NewestOfSeq ==
    ASSUME NEW S, NEW s \in Seq(S)
    PROVE  Newest(s) \in Seq(S) /\ Range(Newest(s)) \subseteq Range(s)
  BY SliceOfSeq, ConstantsAssumption DEF Newest

(***************************************************************************)
(* A step, seen from the order book: rows stay where they are with their   *)
(* key and their caller, and what was executed stays executed.             *)
(***************************************************************************)
BookMoves ==
    /\ book' \in Seq(OrderRows)
    /\ Len(book) <= Len(book')
    /\ \A i \in 1..Len(book) :
          /\ book'[i].key = book[i].key /\ book'[i].by = book[i].by
          /\ book[i].state \in Executed => book'[i].state \in Executed

\* A row is added at the end of the book.
LEMMA BookGrows ==
    ASSUME TypeOK, NEW row \in OrderRows, book' = Append(book, row)
    PROVE  /\ BookMoves
           /\ Len(book') = Len(book) + 1
           /\ book'[Len(book) + 1] = row
           /\ \A i \in 1..Len(book) : book'[i] = book[i]
  <1>1. book \in Seq(OrderRows)
    BY DEF TypeOK
  <1>2. /\ book' \in Seq(OrderRows) /\ Len(book') = Len(book) + 1 /\ book'[Len(book) + 1] = row
        /\ \A i \in 1..Len(book) : book'[i] = book[i]
    BY <1>1, AppendProperties
  <1> QED
    BY <1>1, <1>2 DEF BookMoves

\* A broker's book that stays is one that moves as it may.
LEMMA BookStays ==
    ASSUME TypeOK, book' = book
    PROVE  BookMoves
  BY DEF TypeOK, BookMoves

\* The rows a key has, it keeps.
LEMMA RowsKept ==
    ASSUME TypeOK, BookMoves, NEW k
    PROVE  RowsOf(k) \subseteq RowsOf(k)' /\ ExecutedRows(k) \subseteq ExecutedRows(k)'
  <1>1. Len(book) \in Nat /\ Len(book') \in Nat
    BY DEF TypeOK, BookMoves
  <1>2. RowsOf(k) \subseteq RowsOf(k)'
    BY <1>1 DEF BookMoves, RowsOf
  <1> QED
    BY <1>2 DEF BookMoves, ExecutedRows, RowsOf

\* A row of another key leaves the rows of k as they are.
LEMMA RowsOfOthers ==
    ASSUME TypeOK, NEW row \in OrderRows, book' = Append(book, row), NEW k, row.key # k
    PROVE  RowsOf(k)' = RowsOf(k)
  <1>1. /\ Len(book) \in Nat /\ Len(book') = Len(book) + 1 /\ book'[Len(book) + 1] = row
        /\ \A i \in 1..Len(book) : book'[i] = book[i]
    BY BookGrows DEF TypeOK
  <1> QED
    BY <1>1 DEF RowsOf

\* A fault is counted, and none is forgotten.
LEMMA UsedMoves ==
    ASSUME TypeOK, NEW kind \in FaultKinds, Fault(kind) \/ NoFault
    PROVE  /\ used' \in [FaultKinds -> Nat]
           /\ used'["read"] = 0 => used["read"] = 0 /\ ~(kind = "read" /\ Fault(kind))
  BY DEF TypeOK, Fault, NoFault, FaultKinds

(***************************************************************************)
(* A step, seen from a caller.                                             *)
(***************************************************************************)
\* A call that a step leaves alone, or that dies with the process, stays sound.
LEMMA CallKept ==
    ASSUME TypeOK, BookMoves, config' = config, NEW d \in Callers, CallInv(d),
           call'[d] = call[d] \/ call'[d] = NoCall
    PROVE  CallInv(d)' /\ call'[d] \in Calls /\ call'[d].row \in 0..Len(book')
  <1>1. call[d] \in Calls /\ call[d].row \in 0..Len(book) /\ Len(book) \in Nat /\ Len(book') \in Nat
    BY DEF TypeOK, BookMoves
  <1>2. Live' = Live
    BY DEF Live
  <1>3. CASE call'[d] = NoCall
    BY <1>1, <1>3 DEF NoCall, Calls, Answers, CallInv, KeyInv, RouteInv, PollInv, ToldTrue, Filled
  <1>4. CASE call'[d] = call[d]
    <2>1. call'[d] \in Calls /\ call'[d].row \in 0..Len(book')
      BY <1>1, <1>4 DEF BookMoves
    <2>2. KeyInv(d)' /\ RouteInv(d)'
      BY <1>2, <1>4 DEF CallInv, KeyInv, RouteInv
    <2>3. PICK k : k = call[d].key /\ k = call'[d].key
      BY <1>4
    <2>4. RowsOf(k) \subseteq RowsOf(k)' /\ ExecutedRows(k) \subseteq ExecutedRows(k)'
      BY RowsKept
    <2>5. \A i \in RowsOf(k) : book'[i].by = book[i].by
      BY DEF RowsOf, BookMoves
    <2>6. PollInv(d)'
      BY <1>4, <2>3, <2>4, <2>5 DEF CallInv, PollInv
    <2>7. ToldTrue(d)'
      BY <1>4, <2>3, <2>4, <2>5 DEF CallInv, ToldTrue, ExecutedRows
    <2> QED
      BY <2>1, <2>2, <2>6, <2>7 DEF CallInv
  <1> QED
    BY <1>3, <1>4

\* The record stays sound when it grows by a key that was executed.
LEMMA StoreKept ==
    ASSUME TypeOK, StoreInv, BookMoves,
           \A k \in Range(store') : k \in Range(store) \/ ExecutedRows(k) # {}
    PROVE  StoreInv'
  BY RowsKept DEF StoreInv

\* A step of one caller keeps the invariant if it keeps that caller's part, the
\* order rows of the paper engine and the record.
LEMMA OneCallMoves ==
    ASSUME Sound, NEW c \in Callers, BookMoves, PaperInv',
           UNCHANGED <<config, killed>>,
           call' = [call EXCEPT ![c] = call'[c]],
           call'[c] \in Calls, call'[c].row \in 0..Len(book'), CallInv(c)',
           store' \in Seq(Keys),
           \A k \in Range(store') : k \in Range(store) \/ ExecutedRows(k) # {},
           sent' \in Nat, used' \in [FaultKinds -> Nat]
    PROVE  Sound'
  <1>1. TypeOK /\ call \in [Callers -> Calls]
    BY DEF Sound, TypeOK
  <1>2. \A d \in Callers \ {c} : call'[d] = call[d]
    BY <1>1
  <1>3. \A d \in Callers : CallInv(d)' /\ call'[d] \in Calls /\ call'[d].row \in 0..Len(book')
    <2> TAKE d \in Callers
    <2>1. CASE d = c
      BY <2>1
    <2>2. CASE d # c
      BY <1>1, <1>2, <2>2, CallKept DEF Sound
    <2> QED
      BY <2>1, <2>2
  <1>4. call' \in [Callers -> Calls]
    BY <1>1
  <1>5. TypeOK'
    BY <1>1, <1>3, <1>4 DEF TypeOK, BookMoves
  <1>6. StoreInv'
    BY <1>1, StoreKept DEF Sound
  <1> QED
    BY <1>3, <1>5, <1>6 DEF Sound

\* What the guard and the choice of the route do with a submission.
Route(c, k, stage, answer) ==
    /\ call' = [call EXCEPT ![c] = [NoCall EXCEPT !.at = stage, !.key = k, !.answer = answer]]
    /\ \/ stage = "idle" /\ answer = "DUPLICATE" /\ Known(k)
       \/ stage = "idle" /\ answer = "BLOCKED"
       \/ stage = "fill" /\ answer = "none" /\ ~Live
       \/ /\ stage = "place" /\ answer = "none" /\ Live /\ config.executor
          /\ ~Known(k) \/ used'["read"] # 0
       \/ stage = "record" /\ answer = "REJECTED"

\* A submission takes one of the routes and counts its faults.
LEMMA Guarded ==
    ASSUME Sound, NEW c \in Callers, NEW k \in Keys, NEW async \in BOOLEAN, Submit(c, k, async)
    PROVE  /\ \E stage, answer : Route(c, k, stage, answer)
           /\ used' \in [FaultKinds -> Nat]
  <1>1. PICK seen \in {Known(k), FALSE} :
          /\ IF seen = Known(k) THEN NoFault ELSE Fault("read")
          /\ LET enter(stage, answer) ==
                     call' = [call EXCEPT ![c] = [NoCall EXCEPT !.at = stage, !.key = k,
                                                                !.answer = answer]]
             IN  CASE seen -> enter("idle", "DUPLICATE")
                   [] ~seen /\ killed -> enter("idle", "BLOCKED")
                   [] ~seen /\ ~killed /\ ~Live -> enter("fill", "none")
                   [] ~seen /\ ~killed /\ Live ->
                         IF async /\ config.executor THEN enter("place", "none")
                                                     ELSE enter("record", "REJECTED")
    BY DEF Submit
  <1>2. killed \in BOOLEAN /\ Known(k) \in BOOLEAN /\ TypeOK /\ used \in [FaultKinds -> Nat]
    BY DEF Sound, TypeOK, Known
  <1>3. seen = TRUE \/ seen = FALSE
    BY <1>2, Zenon
  <1>4. seen => Known(k)
    BY <1>1, <1>2, Zenon
  <1>5. ~seen => ~Known(k) \/ Fault("read")
    BY <1>1, <1>2, <1>3, Zenon
  <1>6. Fault("read") => used'["read"] # 0
    BY <1>2 DEF Fault, FaultKinds
  <1>7. used' \in [FaultKinds -> Nat]
    <2>1. NoFault \/ Fault("read")
      BY <1>1
    <2> QED
      BY <1>2, <2>1, UsedMoves DEF FaultKinds
  <1>8. CASE seen
    <2>1. call' = [call EXCEPT ![c] = [NoCall EXCEPT !.at = "idle", !.key = k, !.answer = "DUPLICATE"]]
      BY <1>1, <1>8
    <2>2. Route(c, k, "idle", "DUPLICATE")
      BY <1>4, <1>8, <2>1 DEF Route
    <2> QED
      BY <1>7, <2>2
  <1>9. CASE ~seen /\ killed
    <2>1. call' = [call EXCEPT ![c] = [NoCall EXCEPT !.at = "idle", !.key = k, !.answer = "BLOCKED"]]
      BY <1>1, <1>9
    <2>2. Route(c, k, "idle", "BLOCKED")
      BY <1>9, <2>1 DEF Route
    <2> QED
      BY <1>7, <2>2
  <1>10. CASE ~seen /\ ~killed /\ ~Live
    <2>1. call' = [call EXCEPT ![c] = [NoCall EXCEPT !.at = "fill", !.key = k, !.answer = "none"]]
      BY <1>1, <1>10
    <2>2. Route(c, k, "fill", "none")
      BY <1>10, <2>1 DEF Route
    <2> QED
      BY <1>7, <2>2
  <1>11. CASE ~seen /\ ~killed /\ Live
    <2>1. CASE async /\ config.executor
      <3>1. call' = [call EXCEPT ![c] = [NoCall EXCEPT !.at = "place", !.key = k, !.answer = "none"]]
        BY <1>1, <1>11, <2>1
      <3>2. Route(c, k, "place", "none")
        BY <1>5, <1>6, <1>11, <2>1, <3>1 DEF Route
      <3> QED
        BY <1>7, <3>2
    <2>2. CASE ~(async /\ config.executor)
      <3>1. call' = [call EXCEPT ![c] = [NoCall EXCEPT !.at = "record", !.key = k, !.answer = "REJECTED"]]
        BY <1>1, <1>11, <2>2
      <3>2. Route(c, k, "record", "REJECTED")
        BY <3>1 DEF Route
      <3> QED
        BY <1>7, <3>2
    <2> QED
      BY <2>1, <2>2
  <1> QED
    BY <1>2, <1>3, <1>7, <1>8, <1>9, <1>10, <1>11

\* A submission passes the guard, is refused, or is a duplicate.
LEMMA SubmitStep ==
    ASSUME Sound, NEW c \in Callers, NEW k \in Keys, NEW async \in BOOLEAN, Submit(c, k, async)
    PROVE  Sound'
  <1>1. TypeOK /\ call \in [Callers -> Calls] /\ sent \in Nat /\ store \in Seq(Keys) /\ Len(book) \in Nat
    BY DEF Sound, TypeOK
  <1>2. PICK stage, answer : Route(c, k, stage, answer)
    BY Guarded
  <1>3. call' = [call EXCEPT ![c] = [NoCall EXCEPT !.at = stage, !.key = k, !.answer = answer]]
    BY <1>2 DEF Route
  <1>4. UNCHANGED <<config, killed, book, store>> /\ sent' \in Nat
    BY <1>1 DEF Submit
  <1>5. used' \in [FaultKinds -> Nat]
    BY Guarded
  <1>6. call'[c] = [at |-> stage, key |-> k, tries |-> 0, polls |-> 0, row |-> 0, answer |-> answer]
    BY <1>1, <1>3 DEF NoCall
  <1>7. call'[c] \in Calls /\ call'[c].row \in 0..Len(book')
    <2>1. stage \in {"idle", "fill", "place", "poll", "record"} /\ answer \in Answers
      BY <1>2 DEF Route, Answers
    <2> QED
      BY <1>1, <1>4, <1>6, <2>1 DEF Calls
  <1>8. Known(k) => ExecutedRows(k) # {}
    BY DEF Known, Sound, StoreInv
  <1>9. CallInv(c)'
    <2>1. KeyInv(c)' /\ RouteInv(c)' /\ PollInv(c)'
      BY <1>2, <1>4, <1>6 DEF Route, KeyInv, RouteInv, PollInv, Live
    <2>2. ExecutedRows(k)' = ExecutedRows(k)
      BY <1>4 DEF ExecutedRows, RowsOf
    <2>3. ToldTrue(c)'
      BY <1>2, <1>6, <1>8, <2>2 DEF Route, ToldTrue, Filled
    <2> QED
      BY <2>1, <2>3 DEF CallInv
  <1>10. call' = [call EXCEPT ![c] = call'[c]]
    BY <1>1, <1>3
  <1>11. BookMoves /\ PaperInv'
    BY <1>1, <1>4, BookStays DEF Sound, PaperInv, Live
  <1> QED
    BY <1>1, <1>4, <1>5, <1>7, <1>9, <1>10, <1>11, OneCallMoves

\* The paper route fills a key at most once, and says FILLED only if the order
\* and the wallet were committed.
LEMMA FillPaperStep ==
    ASSUME Sound, NEW c \in Callers, FillPaper(c)
    PROVE  Sound'
  <1> DEFINE row == [key |-> call[c].key, by |-> c, state |-> "traded"]
  <1>1. /\ TypeOK /\ call \in [Callers -> Calls] /\ call[c] \in Calls /\ sent \in Nat
        /\ store \in Seq(Keys) /\ Len(book) \in Nat /\ call[c].row \in 0..Len(book)
    BY DEF Sound, TypeOK
  <1>2. call[c].at = "fill" /\ ~Live /\ call[c].answer = "none" /\ call[c].key \in Keys
    BY DEF FillPaper, Sound, CallInv, RouteInv, KeyInv
  <1>3. UNCHANGED <<config, killed, store, sent>> /\ Live' = Live
    BY DEF FillPaper, Live
  <1>4. used' \in [FaultKinds -> Nat]
    <2>1. Fault("read") \/ Fault("persist") \/ NoFault
      BY DEF FillPaper, NoFault
    <2> QED
      BY <1>1, <2>1, UsedMoves DEF FaultKinds
  <1>5. call' = [call EXCEPT ![c] = call'[c]] /\ call'[c].key = call[c].key
    <2>1. PICK stage, answer :
            \/ call' = [call EXCEPT ![c].at = stage, ![c].answer = answer]
            \/ call' = [call EXCEPT ![c].at = stage, ![c].answer = answer, ![c].row = Len(book) + 1]
      BY DEF FillPaper, Answer
    <2>2. CASE call' = [call EXCEPT ![c].at = stage, ![c].answer = answer]
      BY <1>1, <2>2 DEF Calls
    <2>3. CASE call' = [call EXCEPT ![c].at = stage, ![c].answer = answer, ![c].row = Len(book) + 1]
      BY <1>1, <2>3 DEF Calls
    <2> QED
      BY <2>1, <2>2, <2>3
  <1>6. CASE book' = book
    <2>1. BookMoves /\ PaperInv'
      BY <1>1, <1>3, <1>6, BookStays DEF Sound, PaperInv
    <2>2. PICK stage, answer :
            /\ call' = [call EXCEPT ![c].at = stage, ![c].answer = answer]
            /\ \/ stage = "idle" /\ answer = "RAISED"
               \/ stage = "record" /\ answer = "DUPLICATE" /\ AlreadyOrdered(call[c].key)
               \/ stage = "record" /\ answer = "REJECTED"
      <3>1. CASE Answer(c, "idle", "RAISED")
        BY <3>1 DEF Answer
      <3>2. CASE AlreadyOrdered(call[c].key) /\ Answer(c, "record", "DUPLICATE")
        BY <3>2 DEF Answer
      <3>3. CASE Answer(c, "record", "REJECTED")
        BY <3>3 DEF Answer
      <3>4. CASE \E r \in OrderRows : book' = Append(book, r)
        BY <1>1, <1>6, <3>4, BookGrows
      <3> QED
        BY <1>2, <3>1, <3>2, <3>3, <3>4 DEF FillPaper, OrderRows, Executed
    <2>3. call'[c] = [call[c] EXCEPT !.at = stage, !.answer = answer]
      BY <1>1, <2>2
    <2>4. stage \in {"idle", "record"} /\ answer \in Answers
      BY <2>2 DEF Answers
    <2>5. call'[c] \in Calls /\ call'[c].row \in 0..Len(book')
      BY <1>1, <1>6, <2>3, <2>4 DEF Calls
    <2>6. call'[c].at = stage /\ call'[c].answer = answer
      BY <1>1, <2>3 DEF Calls
    <2>7. PICK k : k = call[c].key /\ k = call'[c].key
      BY <1>5
    <2>8. AlreadyOrdered(k) => ExecutedRows(k) # {}
      BY <1>2 DEF AlreadyOrdered, ExecutedRows, RowsOf, Sound, PaperInv, Executed
    <2>9. ExecutedRows(k)' = ExecutedRows(k)
      BY <1>6 DEF ExecutedRows, RowsOf
    <2>10. CallInv(c)'
      BY <1>2, <2>2, <2>4, <2>6, <2>7, <2>8, <2>9
         DEF CallInv, KeyInv, RouteInv, PollInv, ToldTrue, Filled
    <2> QED
      BY <1>1, <1>3, <1>4, <1>5, <2>1, <2>5, <2>10, OneCallMoves
  <1>7. CASE book' # book
    <2>1. PICK stage, answer, place :
            /\ call' = [call EXCEPT ![c].at = stage, ![c].answer = answer, ![c].row = place]
            /\ stage = "record" /\ answer \in Filled \cup {"REJECTED"}
            /\ \/ place = Len(book) + 1
               \/ place = call[c].row /\ answer = "REJECTED"
            /\ ~AlreadyOrdered(call[c].key)
            /\ book' = Append(book, row)
      <3>1. PICK answer \in Filled \cup {"REJECTED"} :
              /\ ~AlreadyOrdered(call[c].key)
              /\ book' = Append(book, row)
              /\ \/ /\ answer \in Filled
                    /\ call' = [call EXCEPT ![c].at = "record", ![c].answer = answer,
                                            ![c].row = Len(book) + 1]
                 \/ answer = "REJECTED" /\ Answer(c, "record", answer)
        BY <1>7 DEF FillPaper
      <3>2. CASE answer \in Filled /\ call' = [call EXCEPT ![c].at = "record", ![c].answer = answer,
                                            ![c].row = Len(book) + 1]
        BY <3>1, <3>2
      <3>3. CASE answer = "REJECTED" /\ Answer(c, "record", answer)
        <4>1. [call EXCEPT ![c].at = "record", ![c].answer = answer]
                = [call EXCEPT ![c].at = "record", ![c].answer = answer, ![c].row = call[c].row]
          BY <1>1 DEF Calls
        <4>2. call' = [call EXCEPT ![c].at = "record", ![c].answer = answer, ![c].row = call[c].row]
          BY <3>3, <4>1 DEF Answer
        <4> HIDE DEF row
        <4> QED
          BY <3>1, <3>3, <4>2
      <3> QED
        BY <3>1, <3>2, <3>3
    <2>2. row \in OrderRows
      BY <1>2 DEF OrderRows, Executed
    <2>3. /\ BookMoves /\ Len(book') = Len(book) + 1 /\ book'[Len(book) + 1] = row
          /\ \A i \in 1..Len(book) : book'[i] = book[i]
      BY <1>1, <2>1, <2>2, BookGrows
    <2>4. PaperInv'
      <3>1. \A i \in 1..Len(book) : book[i].key # call[c].key /\ book[i].state = "traded"
        BY <1>2, <2>1 DEF AlreadyOrdered, RowsOf, Sound, PaperInv
      <3>2. \A i, j \in 1..Len(book) : book[i].key = book[j].key => i = j
        BY <1>2 DEF Sound, PaperInv
      <3>3. \A i \in 1..Len(book') : i \in 1..Len(book) \/ i = Len(book) + 1
        BY <1>1, <2>3
      <3>4. row.key = call[c].key /\ row.state = "traded"
        OBVIOUS
      <3> HIDE DEF row
      <3> QED
        BY <2>3, <3>1, <3>2, <3>3, <3>4 DEF PaperInv
    <2>5. call'[c] = [call[c] EXCEPT !.at = stage, !.answer = answer, !.row = place]
      BY <1>1, <2>1
    <2>6. stage \in {"idle", "record"} /\ answer \in Answers /\ place \in 0..Len(book')
      BY <1>1, <2>1, <2>3 DEF Answers, Filled
    <2>7. call'[c] \in Calls /\ call'[c].row \in 0..Len(book')
      <3>1. call'[c].row = place /\ place \in Nat
        BY <1>1, <2>3, <2>5, <2>6 DEF Calls
      <3>2. call'[c] \in Calls
        BY <1>1, <2>5, <2>6, <3>1 DEF Calls
      <3> QED
        BY <2>6, <3>1, <3>2
    <2>8. call'[c].at = stage /\ call'[c].answer = answer /\ call'[c].row = place
      BY <1>1, <2>5 DEF Calls
    <2>9. PICK k : k = call[c].key /\ k = call'[c].key
      BY <1>5
    <2>10. Len(book) + 1 \in ExecutedRows(k)' /\ book'[Len(book) + 1].by = c
      BY <1>1, <2>3, <2>9 DEF ExecutedRows, RowsOf, Executed
    <2>11. answer \in Filled => place = Len(book) + 1
      BY <2>1 DEF Filled
    <2>12. CallInv(c)'
      BY <1>2, <2>1, <2>8, <2>9, <2>10, <2>11
         DEF CallInv, KeyInv, RouteInv, PollInv, ToldTrue, Filled
    <2> QED
      BY <1>1, <1>3, <1>4, <1>5, <2>3, <2>4, <2>7, <2>12, OneCallMoves
  <1> QED
    BY <1>6, <1>7

\* One attempt to place an order at the broker: an order that got through is the
\* caller's own, whether or not the caller learns of it.
LEMMA PlaceStep ==
    ASSUME Sound, NEW c \in Callers, Place(c)
    PROVE  Sound'
  <1> DEFINE row == [key |-> call[c].key, by |-> c, state |-> "working"]
  <1>1. /\ TypeOK /\ call \in [Callers -> Calls] /\ call[c] \in Calls /\ sent \in Nat
        /\ store \in Seq(Keys) /\ Len(book) \in Nat /\ call[c].row \in 0..Len(book)
    BY DEF Sound, TypeOK
  <1>2. /\ call[c].at = "place" /\ Live /\ config.executor /\ call[c].answer = "none"
        /\ call[c].key \in Keys
    BY DEF Place, Sound, CallInv, RouteInv, KeyInv
  <1>3. UNCHANGED <<config, killed, store, sent>> /\ Live' = Live
    BY DEF Place, Live
  <1>4. used' \in [FaultKinds -> Nat]
    <2>1. Fault("place") \/ NoFault
      BY DEF Place, NoFault
    <2> QED
      BY <1>1, <2>1, UsedMoves DEF FaultKinds
  <1>5. row \in OrderRows
    BY <1>2 DEF OrderRows
  <1>6. BookMoves /\ PaperInv'
    <2>1. book' = book \/ book' = Append(book, row)
      BY DEF Place
    <2> QED
      BY <1>1, <1>2, <1>3, <1>5, <2>1, BookStays, BookGrows DEF PaperInv
  <1>7. PICK f \in Calls :
          /\ call' = [call EXCEPT ![c] = f]
          /\ f.key = call[c].key /\ f.row \in 0..Len(book')
          /\ \/ f.at = "poll" /\ f.row = Len(book) + 1 /\ f.answer = "none" /\ book' = Append(book, row)
             \/ f.at = "record" /\ f.answer = "REJECTED"
             \/ f.at = "place" /\ f.answer = "none"
    <2>1. Len(book) <= Len(book') /\ Len(book') \in Nat
      BY <1>6 DEF BookMoves
    <2>2. CASE Answer(c, "record", "REJECTED")
      <3> DEFINE f == [call[c] EXCEPT !.at = "record", !.answer = "REJECTED"]
      <3>1. call' = [call EXCEPT ![c] = f]
        BY <1>1, <2>2 DEF Answer
      <3>2. f \in Calls /\ f.key = call[c].key /\ f.row = call[c].row /\ f.at = "record" /\ f.answer = "REJECTED"
        BY <1>1 DEF Calls, Answers
      <3>3. f.row \in 0..Len(book')
        BY <1>1, <2>1, <3>2
      <3> HIDE DEF f, row
      <3> QED
        BY <3>1, <3>2, <3>3
    <2>3. CASE call' = [call EXCEPT ![c].tries = @ + 1]
      <3> DEFINE f == [call[c] EXCEPT !.tries = @ + 1]
      <3>1. call' = [call EXCEPT ![c] = f]
        BY <1>1, <2>3
      <3>2. f \in Calls /\ f.key = call[c].key /\ f.row = call[c].row /\ f.at = "place" /\ f.answer = "none"
        <4>1. call[c].tries \in Nat
          BY <1>1 DEF Calls
        <4>2. call[c].tries + 1 \in Nat
          BY <4>1
        <4> QED
          BY <1>1, <1>2, <4>2 DEF Calls
      <3>3. f.row \in 0..Len(book')
        BY <1>1, <2>1, <3>2
      <3> HIDE DEF f, row
      <3> QED
        BY <3>1, <3>2, <3>3
    <2>4. CASE /\ book' = Append(book, row)
               /\ call' = [call EXCEPT ![c].at = "poll", ![c].row = Len(book) + 1]
      <3> DEFINE f == [call[c] EXCEPT !.at = "poll", !.row = Len(book) + 1]
      <3>1. call' = [call EXCEPT ![c] = f]
        BY <1>1, <2>4
      <3>2. f \in Calls /\ f.key = call[c].key /\ f.row = Len(book) + 1 /\ f.at = "poll" /\ f.answer = "none"
        <4>1. Len(book) + 1 \in Nat
          BY <1>1
        <4> QED
          BY <1>1, <1>2, <4>1 DEF Calls
      <3>3. Len(book') = Len(book) + 1
        BY <1>1, <1>5, <2>4, BookGrows
      <3>4. f.row \in 0..Len(book')
        BY <1>1, <2>1, <3>2, <3>3
      <3> HIDE DEF f, row
      <3> QED
        BY <2>4, <3>1, <3>2, <3>4
    <2> QED
      BY <2>2, <2>3, <2>4 DEF Place
  <1>8. call'[c] = f /\ call' = [call EXCEPT ![c] = call'[c]]
    BY <1>1, <1>7
  <1>9. CallInv(c)'
    <2>1. KeyInv(c)' /\ RouteInv(c)' /\ ToldTrue(c)'
      BY <1>2, <1>3, <1>7, <1>8 DEF KeyInv, RouteInv, ToldTrue, Filled
    <2>2. PollInv(c)'
      <3> SUFFICES ASSUME f.at = "poll"
                   PROVE  f.row \in RowsOf(f.key)' /\ book'[f.row].by = c
        BY <1>8 DEF PollInv
      <3>1. book' = Append(book, row) /\ f.row = Len(book) + 1
        BY <1>7
      <3>2. Len(book') = Len(book) + 1 /\ book'[f.row] = row
        BY <1>1, <1>5, <3>1, BookGrows
      <3> QED
        BY <1>1, <1>7, <3>1, <3>2 DEF RowsOf
    <2> QED
      BY <2>1, <2>2 DEF CallInv
  <1> QED
    BY <1>1, <1>3, <1>4, <1>6, <1>7, <1>8, <1>9, OneCallMoves

\* A poll reports a fill only of an order that it saw traded.
LEMMA PollStep ==
    ASSUME Sound, NEW c \in Callers, Poll(c)
    PROVE  Sound'
  <1>1. /\ TypeOK /\ call \in [Callers -> Calls] /\ call[c] \in Calls /\ sent \in Nat
        /\ store \in Seq(Keys) /\ Len(book) \in Nat /\ call[c].row \in 0..Len(book)
    BY DEF Sound, TypeOK
  <1>2. /\ call[c].at = "poll" /\ Live /\ config.executor /\ call[c].answer = "none"
        /\ call[c].key \in Keys /\ call[c].row \in RowsOf(call[c].key) /\ book[call[c].row].by = c
    BY DEF Poll, Sound, CallInv, RouteInv, KeyInv, PollInv
  <1>3. UNCHANGED <<config, killed, book, store, sent>> /\ Live' = Live
    BY DEF Poll, Live
  <1>4. used' \in [FaultKinds -> Nat]
    <2>1. Fault("status") \/ NoFault
      BY DEF Poll
    <2> QED
      BY <1>1, <2>1, UsedMoves DEF FaultKinds
  <1>5. BookMoves /\ PaperInv'
    BY <1>1, <1>2, <1>3, BookStays DEF PaperInv
  <1>6. PICK f \in Calls :
          /\ call' = [call EXCEPT ![c] = f]
          /\ f.key = call[c].key /\ f.row = call[c].row
          /\ \/ f.at = "record" /\ f.answer \in Filled /\ book[call[c].row].state \in Executed
             \/ f.at = "record" /\ f.answer = "REJECTED"
             \/ f.at = "poll" /\ f.answer = "none"
    <2>1. CASE call' = [call EXCEPT ![c].polls = @ + 1]
      <3> DEFINE f == [call[c] EXCEPT !.polls = @ + 1]
      <3>1. call' = [call EXCEPT ![c] = f]
        BY <1>1, <2>1
      <3>2. f \in Calls /\ f.key = call[c].key /\ f.row = call[c].row /\ f.at = "poll" /\ f.answer = "none"
        <4>1. call[c].polls \in Nat
          BY <1>1 DEF Calls
        <4>2. call[c].polls + 1 \in Nat
          BY <4>1
        <4> QED
          BY <1>1, <1>2, <4>2 DEF Calls
      <3> QED
        BY <3>1, <3>2
    <2>2. ASSUME NEW answer \in Filled \cup {"REJECTED"}, Answer(c, "record", answer),
                 answer \in Filled => book[call[c].row].state \in Executed
          PROVE  \E f \in Calls :
                   /\ call' = [call EXCEPT ![c] = f]
                   /\ f.key = call[c].key /\ f.row = call[c].row /\ f.at = "record" /\ f.answer = answer
      <3> DEFINE f == [call[c] EXCEPT !.at = "record", !.answer = answer]
      <3>1. call' = [call EXCEPT ![c] = f]
        BY <1>1, <2>2 DEF Answer
      <3>2. f \in Calls /\ f.key = call[c].key /\ f.row = call[c].row /\ f.at = "record" /\ f.answer = answer
        BY <1>1 DEF Calls, Answers
      <3> QED
        BY <3>1, <3>2
    <2>3. CASE Answer(c, "record", Confirmed(book[call[c].row].state))
      <3>1. /\ Confirmed(book[call[c].row].state) \in Filled \cup {"REJECTED"}
            /\ Confirmed(book[call[c].row].state) \in Filled => book[call[c].row].state \in Executed
        BY DEF Confirmed, Filled, Executed
      <3> QED
        BY <2>2, <2>3, <3>1
    <2>4. CASE Answer(c, "record", Unconfirmed)
      BY <2>2, <2>4 DEF Unconfirmed, Filled
    <2> QED
      BY <2>1, <2>3, <2>4 DEF Poll
  <1>7. call'[c] = f /\ call' = [call EXCEPT ![c] = call'[c]] /\ call'[c].row \in 0..Len(book')
    BY <1>1, <1>3, <1>6
  <1>8. PICK k : k = call[c].key /\ k = call'[c].key
    BY <1>6, <1>7
  <1>9. RowsOf(k)' = RowsOf(k) /\ ExecutedRows(k)' = ExecutedRows(k)
    BY <1>3 DEF RowsOf, ExecutedRows
  <1>10. f.answer \in Filled => f.row \in ExecutedRows(k)
    BY <1>2, <1>6, <1>8 DEF ExecutedRows, Filled
  <1>11. CallInv(c)'
    BY <1>2, <1>3, <1>6, <1>7, <1>8, <1>9, <1>10
       DEF CallInv, KeyInv, RouteInv, PollInv, ToldTrue, Filled
  <1> QED
    BY <1>1, <1>3, <1>4, <1>5, <1>6, <1>7, <1>11, OneCallMoves

\* Only what was filled goes on record, and the rest of the record only shrinks.
LEMMA RecordStep ==
    ASSUME Sound, NEW c \in Callers, Record(c)
    PROVE  Sound'
  <1>1. /\ TypeOK /\ call \in [Callers -> Calls] /\ call[c] \in Calls /\ sent \in Nat
        /\ store \in Seq(Keys) /\ Len(book) \in Nat /\ call[c].row \in 0..Len(book)
    BY DEF Sound, TypeOK
  <1>2. call[c].at = "record" /\ call[c].key \in Keys
    BY DEF Record, Sound, CallInv, KeyInv
  <1>3. UNCHANGED <<config, killed, book, sent>> /\ Live' = Live
    BY DEF Record, Live
  <1>4. used' \in [FaultKinds -> Nat]
    <2>1. Fault("record") \/ Fault("evict") \/ NoFault
      BY DEF Record, NoFault
    <2> QED
      BY <1>1, <2>1, UsedMoves DEF FaultKinds
  <1>5. BookMoves /\ PaperInv'
    BY <1>1, <1>3, BookStays DEF PaperInv, Sound
  <1>6. store' \in Seq(Keys) /\ \A k \in Range(store') : k \in Range(store) \/ ExecutedRows(k) # {}
    <2> DEFINE rest == Without(store, call[c].key)
               written == Append(rest, call[c].key)
    <2>1. rest \in Seq(Keys) /\ Range(rest) \subseteq Range(store)
      BY <1>1, WithoutOfSeq
    <2>2. written \in Seq(Keys) /\ Range(written) = Range(rest) \cup {call[c].key}
      <3> HIDE DEF rest
      <3> QED
        BY <1>2, <2>1, AppendOfSeq
    <2>3. Newest(written) \in Seq(Keys) /\ Range(Newest(written)) \subseteq Range(written)
      <3> HIDE DEF written
      <3> QED
        BY <2>2, NewestOfSeq
    <2>4. \/ store' = store
          \/ Recorded(call[c].answer) /\ store' \in {written, Newest(written)}
      BY DEF Record
    <2>5. Recorded(call[c].answer) => ExecutedRows(call[c].key) # {}
      BY DEF Recorded, Sound, CallInv, ToldTrue
    <2> HIDE DEF rest, written
    <2> QED
      BY <1>1, <2>1, <2>2, <2>3, <2>4, <2>5
  <1>7. call'[c] = [call[c] EXCEPT !.at = "idle", !.answer = call[c].answer]
    BY <1>1 DEF Record, Answer
  <1>8. /\ call'[c] \in Calls /\ call'[c].at = "idle" /\ call'[c].key = call[c].key
        /\ call'[c].row = call[c].row /\ call'[c].answer = call[c].answer
    BY <1>1, <1>7 DEF Calls
  <1>9. call' = [call EXCEPT ![c] = call'[c]]
    BY <1>1, <1>7 DEF Record, Answer
  <1>10. PICK k : k = call[c].key /\ k = call'[c].key
    BY <1>8
  <1>11. ExecutedRows(k)' = ExecutedRows(k)
    BY <1>3 DEF RowsOf, ExecutedRows
  <1>12. CallInv(c)'
    BY <1>3, <1>8, <1>10, <1>11 DEF Sound, CallInv, KeyInv, RouteInv, PollInv, ToldTrue
  <1> QED
    BY <1>1, <1>3, <1>4, <1>5, <1>6, <1>8, <1>9, <1>12, OneCallMoves

\* A step of the world around the service, and one that does nothing: no caller
\* moves, unless all of them die with the process.
LEMMA WorldMoves ==
    ASSUME Sound, BookMoves, PaperInv', UNCHANGED <<config, store, sent>>, killed' \in BOOLEAN,
           call' = call \/ call' = [c \in Callers |-> NoCall], used' \in [FaultKinds -> Nat]
    PROVE  Sound'
  <1>1. TypeOK /\ call \in [Callers -> Calls]
    BY DEF Sound, TypeOK
  <1>2. \A d \in Callers : CallInv(d)' /\ call'[d] \in Calls /\ call'[d].row \in 0..Len(book')
    BY <1>1, CallKept DEF Sound
  <1>3. call' \in [Callers -> Calls]
    BY <1>1, <1>2
  <1>4. TypeOK'
    BY <1>1, <1>2, <1>3 DEF TypeOK, BookMoves
  <1>5. StoreInv'
    BY <1>1, StoreKept DEF Sound
  <1> QED
    BY <1>2, <1>4, <1>5 DEF Sound

\* The broker works an order: what has traded stays traded.
LEMMA BrokerMoves ==
    ASSUME Sound, NEW i \in 1..Len(book), BrokerActs(i)
    PROVE  /\ BookMoves /\ Live
           /\ Len(book') = Len(book)
           /\ \A j \in 1..Len(book) : book'[j].key = book[j].key
  <1>1. book \in Seq(OrderRows) /\ Len(book) \in Nat /\ book[i] \in OrderRows
    BY DEF Sound, TypeOK
  <1>2. PICK s \in Executed \cup {"rejected", "cancelled"} :
          /\ book' = [book EXCEPT ![i].state = s]
          /\ book[i].state \in Executed => s \in Executed
    BY DEF BrokerActs, Executed
  <1> DEFINE row == [book[i] EXCEPT !.state = s]
  <1>3. row \in OrderRows /\ row.key = book[i].key /\ row.by = book[i].by /\ row.state = s
    BY <1>1 DEF OrderRows
  <1>4. book' = [book EXCEPT ![i] = row]
    BY <1>2
  <1> HIDE DEF row
  <1>5. /\ book' \in Seq(OrderRows) /\ Len(book') = Len(book)
        /\ \A j \in 1..Len(book) : book'[j] = IF j = i THEN row ELSE book[j]
    BY <1>1, <1>3, <1>4, ExceptSeq
  <1> QED
    BY <1>1, <1>2, <1>3, <1>5 DEF BookMoves, BrokerActs

\* The broker, the kill switch and a crash keep what is sound.
LEMMA WorldStep ==
    ASSUME Sound, (\E i \in 1..Len(book) : BrokerActs(i)) \/ SwitchKill \/ Crash \/ UNCHANGED vars
    PROVE  Sound'
  <1>1. TypeOK /\ killed \in BOOLEAN /\ used \in [FaultKinds -> Nat]
    BY DEF Sound, TypeOK
  <1>2. CASE \E i \in 1..Len(book) : BrokerActs(i)
    <2>1. PICK i \in 1..Len(book) : BrokerActs(i)
      BY <1>2
    <2>2. UNCHANGED <<config, killed, store, call, sent, used>>
      BY <2>1 DEF BrokerActs
    <2>3. BookMoves /\ Live /\ Live' = Live
      BY <2>1, <2>2, BrokerMoves DEF Live
    <2> QED
      BY <1>1, <2>2, <2>3, WorldMoves DEF PaperInv
  <1>3. ASSUME UNCHANGED <<config, book, store, sent>>
        PROVE  BookMoves /\ PaperInv'
    BY <1>1, <1>3, BookStays DEF Sound, PaperInv, Live
  <1>4. CASE SwitchKill
    BY <1>1, <1>3, <1>4, WorldMoves DEF SwitchKill
  <1>5. CASE Crash
    BY <1>1, <1>3, <1>5, WorldMoves, UsedMoves DEF Crash, FaultKinds
  <1>6. CASE UNCHANGED vars
    BY <1>1, <1>3, <1>6, WorldMoves DEF vars
  <1> QED
    BY <1>2, <1>4, <1>5, <1>6

\* A step of one caller leaves the others where they are, and leaves the mark of
\* its key on the caller.
LEMMA OthersWait ==
    ASSUME Sound, NEW c \in Callers,
           Proceed(c) \/ \E k \in Keys, async \in BOOLEAN : Submit(c, k, async)
    PROVE  /\ \A d \in Callers \ {c} : call'[d] = call[d]
           /\ call'[c] # NoCall
  <1>1. call \in [Callers -> Calls] /\ call[c] \in Calls
    BY DEF Sound, TypeOK
  <1>2. NoCall.key \notin Keys
    BY ConstantsAssumption DEF NoCall
  <1>3. CASE \E k \in Keys, async \in BOOLEAN : Submit(c, k, async)
    <2>1. PICK k \in Keys : \E stage, answer : Route(c, k, stage, answer)
      BY <1>3, Guarded
    <2>2. PICK stage, answer : Route(c, k, stage, answer)
      BY <2>1
    <2>3. [NoCall EXCEPT !.at = stage, !.key = k, !.answer = answer].key = k
      BY DEF NoCall
    <2> QED
      BY <1>1, <1>2, <2>2, <2>3 DEF Route
  <1>4. CASE Proceed(c)
    <2>1. call[c].key \in Keys
      BY <1>4 DEF Proceed, FillPaper, Place, Poll, Record, Sound, CallInv, KeyInv
    <2>2. PICK stage, answer, n :
            \/ call' = [call EXCEPT ![c].at = stage, ![c].answer = answer]
            \/ call' = [call EXCEPT ![c].at = stage, ![c].answer = answer, ![c].row = n]
            \/ call' = [call EXCEPT ![c].at = stage, ![c].row = n]
            \/ call' = [call EXCEPT ![c].tries = @ + 1]
            \/ call' = [call EXCEPT ![c].polls = @ + 1]
      <3>1. CASE FillPaper(c)
        <4>1. PICK a : \/ Answer(c, "idle", "RAISED") \/ Answer(c, "record", "DUPLICATE")
                       \/ Answer(c, "record", a)
                       \/ call' = [call EXCEPT ![c].at = "record", ![c].answer = a,
                                               ![c].row = Len(book) + 1]
          BY <3>1 DEF FillPaper
        <4>2. CASE call' = [call EXCEPT ![c].at = "record", ![c].answer = a, ![c].row = Len(book) + 1]
          BY <4>2
        <4> QED
          BY <4>1, <4>2 DEF Answer
      <3>2. CASE Place(c)
        BY <3>2 DEF Place, Answer
      <3>3. CASE Poll(c)
        BY <3>3 DEF Poll, Answer
      <3>4. CASE Record(c)
        BY <3>4 DEF Record, Answer
      <3> QED
        BY <1>4, <3>1, <3>2, <3>3, <3>4 DEF Proceed
    <2>3. (\A d \in Callers \ {c} : call'[d] = call[d]) /\ call'[c].key = call[c].key
      <3>1. CASE call' = [call EXCEPT ![c].at = stage, ![c].answer = answer]
        BY <1>1, <3>1 DEF Calls
      <3>2. CASE call' = [call EXCEPT ![c].at = stage, ![c].answer = answer, ![c].row = n]
        BY <1>1, <3>2 DEF Calls
      <3>3. CASE call' = [call EXCEPT ![c].at = stage, ![c].row = n]
        BY <1>1, <3>3 DEF Calls
      <3>4. CASE call' = [call EXCEPT ![c].tries = @ + 1]
        BY <1>1, <3>4 DEF Calls
      <3>5. CASE call' = [call EXCEPT ![c].polls = @ + 1]
        BY <1>1, <3>5 DEF Calls
      <3> QED
        BY <2>2, <3>1, <3>2, <3>3, <3>4, <3>5
    <2> QED
      BY <1>2, <2>1, <2>3
  <1> QED
    BY <1>3, <1>4

\* A caller that is alone finds its key off the record, and while it is on its
\* way nobody else writes there.
LEMMA UnrecordedStep ==
    ASSUME OrderInv, [Next]_vars
    PROVE  \A d \in Callers : UnrecordedInv(d)'
  <1>1. /\ Sound /\ TypeOK /\ call \in [Callers -> Calls] /\ used \in [FaultKinds -> Nat]
        /\ NoCall.at # "place"
    BY DEF OrderInv, Sound, TypeOK, NoCall
  <1> SUFFICES ASSUME NEW d \in Callers, Sole(d)', used'["read"] = 0, call'[d].at = "place"
               PROVE  call'[d].key \notin Range(store')
    BY DEF UnrecordedInv
  <1>2. CASE \E c \in Callers : Proceed(c) \/ \E k \in Keys, async \in BOOLEAN : Submit(c, k, async)
    <2>1. PICK c \in Callers : Proceed(c) \/ \E k \in Keys, async \in BOOLEAN : Submit(c, k, async)
      BY <1>2
    <2>2. (\A e \in Callers \ {c} : call'[e] = call[e]) /\ call'[c] # NoCall
      BY <1>1, <2>1, OthersWait
    <2>3. c = d /\ Sole(d)
      BY <2>2 DEF Sole
    <2>4. CASE \E k \in Keys, async \in BOOLEAN : Submit(d, k, async)
      <3>a. PICK k \in Keys : \E stage, answer : Route(d, k, stage, answer)
        BY <1>1, <2>4, Guarded
      <3>1. PICK stage, answer : Route(d, k, stage, answer)
        BY <3>a
      <3>2. call'[d] = [NoCall EXCEPT !.at = stage, !.key = k, !.answer = answer]
        BY <1>1, <3>1 DEF Route
      <3>3. call'[d].at = stage /\ call'[d].key = k
        BY <3>2 DEF NoCall
      <3>4. ~Known(k)
        BY <3>1, <3>3 DEF Route
      <3>5. store' = store
        BY <2>4 DEF Submit
      <3> QED
        BY <3>3, <3>4, <3>5 DEF Known
    <2>5. CASE Proceed(d)
      <3>1. Place(d)
        <4>1. CASE FillPaper(d)
          <5>1. PICK a : \/ Answer(d, "idle", "RAISED") \/ Answer(d, "record", "DUPLICATE")
                         \/ Answer(d, "record", a)
                         \/ call' = [call EXCEPT ![d].at = "record", ![d].answer = a,
                                                 ![d].row = Len(book) + 1]
            BY <4>1 DEF FillPaper
          <5>2. call'[d].at \in {"idle", "record"}
            <6>1. CASE call' = [call EXCEPT ![d].at = "record", ![d].answer = a,
                                            ![d].row = Len(book) + 1]
              BY <1>1, <6>1 DEF Calls
            <6>2. CASE Answer(d, "idle", "RAISED") \/ Answer(d, "record", "DUPLICATE")
                         \/ Answer(d, "record", a)
              BY <1>1, <6>2 DEF Answer, Calls
            <6> QED
              BY <5>1, <6>1, <6>2
          <5> QED
            BY <5>2
        <4>2. CASE Poll(d)
          BY <1>1, <4>2 DEF Poll, Answer, Calls
        <4>3. CASE Record(d)
          BY <1>1, <4>3 DEF Record, Answer, Calls
        <4> QED
          BY <2>5, <4>1, <4>2, <4>3 DEF Proceed
      <3>2. call[d].at = "place" /\ store' = store
        BY <3>1 DEF Place
      <3>3. used["read"] = 0
        <4>1. Fault("place") \/ NoFault
          BY <3>1 DEF Place, NoFault
        <4> QED
          BY <1>1, <4>1, UsedMoves DEF FaultKinds
      <3>4. call'[d].key = call[d].key
        BY <1>1, <3>1 DEF Place, Answer, Calls
      <3> QED
        BY <2>3, <3>2, <3>3, <3>4 DEF OrderInv, UnrecordedInv
    <2> QED
      BY <2>1, <2>3, <2>4, <2>5
  <1>3. CASE Crash
    BY <1>1, <1>3 DEF Crash
  <1>4. CASE (\E i \in 1..Len(book) : BrokerActs(i)) \/ SwitchKill \/ UNCHANGED vars
    <2>1. UNCHANGED <<call, store, used>>
      BY <1>4 DEF BrokerActs, SwitchKill, vars
    <2> QED
      BY <2>1 DEF OrderInv, UnrecordedInv, Sole
  <1> QED
    BY <1>2, <1>3, <1>4 DEF Next

(***************************************************************************)
(* The theorems.                                                           *)
(***************************************************************************)
LEMMA OrderInit ==
    ASSUME Init
    PROVE  OrderInv
  <1>1. Len(book) = 0 /\ Range(store) = {}
    BY DEF Init, Range
  <1>2. NoCall \in Calls
    BY DEF NoCall, Calls, Answers
  <1>3. TypeOK
    <2>1. book \in Seq(OrderRows) /\ store \in Seq(Keys) /\ 0 \in 0..Len(book)
      BY <1>1 DEF Init
    <2>2. \A c \in Callers : call[c] = NoCall /\ call[c].row = 0
      BY DEF Init, NoCall
    <2>3. call \in [Callers -> Calls] /\ used \in [FaultKinds -> Nat]
      BY <1>2 DEF Init
    <2> QED
      BY <2>1, <2>2, <2>3 DEF Init, TypeOK
  <1>4. \A c \in Callers : CallInv(c) /\ UnrecordedInv(c)
    BY DEF Init, NoCall, CallInv, KeyInv, RouteInv, PollInv, ToldTrue, UnrecordedInv, Filled
  <1>5. PaperInv /\ StoreInv
    BY <1>1 DEF PaperInv, StoreInv
  <1> QED
    BY <1>3, <1>4, <1>5 DEF OrderInv, Sound

\* Every step keeps what is known of the orders, of the callers and of the record.
LEMMA OrderStep ==
    ASSUME OrderInv, [Next]_vars
    PROVE  OrderInv'
  <1>1. Sound
    BY DEF OrderInv
  <1>2. Sound'
    <2>1. ASSUME NEW c \in Callers, Proceed(c)
          PROVE  Sound'
      BY <1>1, <2>1, FillPaperStep, PlaceStep, PollStep, RecordStep DEF Proceed
    <2>2. ASSUME NEW c \in Callers, NEW k \in Keys, NEW async \in BOOLEAN, Submit(c, k, async)
          PROVE  Sound'
      BY <1>1, <2>2, SubmitStep
    <2> QED
      BY <1>1, <2>1, <2>2, WorldStep DEF Next
  <1> QED
    BY <1>2, UnrecordedStep DEF OrderInv

\* The invariant of the orders holds: what a caller was told is true of the book, only
\* executed keys are on record, and who submits alone found its key off the record.
THEOREM OrderInvHolds == Spec => []OrderInv
  <1>1. Init => OrderInv
    BY OrderInit
  <1>2. OrderInv /\ [Next]_vars => OrderInv'
    BY OrderStep
  <1> QED
    BY <1>1, <1>2, PTL DEF Spec

\* No call comes near the broker unless the settings hold all of the consents
\* and an executor is attached (resolve_effective_execution_mode, submit_async).
THEOREM RealOrdersNeedConsentHolds == Spec => []RealOrdersNeedConsent
  <1>1. OrderInv => RealOrdersNeedConsent
    <2> SUFFICES ASSUME OrderInv, NEW c \in Callers, call[c].at \in {"place", "poll"}
                 PROVE  /\ config.requested = "live" /\ config.trading = "live"
                        /\ config.allow /\ config.credentials /\ config.executor
      BY DEF RealOrdersNeedConsent
    <2>1. Live /\ config.executor
      BY DEF OrderInv, Sound, CallInv, RouteInv
    <2>2. config \in Configurations
      BY ConstantsAssumption DEF OrderInv, Sound, TypeOK
    <2> QED
      BY <2>1, <2>2 DEF Live, ResolveMode, Configurations
  <1> QED
    BY <1>1, OrderInvHolds, PTL

\* Whatever is retried, forgotten, evicted or crashes: a fill is reported only
\* for an order of this very call that traded, a duplicate only for a key that
\* was executed, and outside of live mode a key is executed once.
THEOREM SubmissionsAreTrueHolds == Spec => []SubmissionsAreTrue
  <1>1. OrderInv => SubmissionsAreTrue
    <2> SUFFICES ASSUME OrderInv PROVE AnswersAreTrue /\ PaperFillsOnce
      BY DEF SubmissionsAreTrue
    <2>1. AnswersAreTrue
      BY DEF OrderInv, Sound, CallInv, ToldTrue, StoreInv, AnswersAreTrue
    <2>2. PaperFillsOnce
      BY DEF OrderInv, Sound, PaperInv, PaperFillsOnce, OneFillPerKey, ExecutedRows, RowsOf
    <2> QED
      BY <2>1, <2>2
  <1> QED
    BY <1>1, OrderInvHolds, PTL

\* A lone caller sends no order for a key that is on record, as long as the
\* record could be read (IdempotencyStore.seen before place_and_confirm).
THEOREM RecordedIsNotRepeatedHolds == Spec => RecordedIsNotRepeated
  <1>1. ASSUME OrderInv, [Next]_vars, Alone, used["read"] = 0, NEW k \in Range(store)
        PROVE  RowsOf(k)' = RowsOf(k)
    <2>1. Sound /\ TypeOK /\ Len(book) \in Nat /\ RowsOf(k) # {}
      BY <1>1 DEF OrderInv, Sound, TypeOK, StoreInv, ExecutedRows
    <2>2. CASE UNCHANGED book
      BY <2>2 DEF RowsOf
    <2>3. CASE \E i \in 1..Len(book) : BrokerActs(i)
      BY <2>1, <2>3, BrokerMoves DEF RowsOf
    <2>4. ASSUME NEW c \in Callers, FillPaper(c), book' # book
          PROVE  RowsOf(k)' = RowsOf(k)
      <3> DEFINE row == [key |-> call[c].key, by |-> c, state |-> "traded"]
      <3>1. ~AlreadyOrdered(call[c].key) /\ book' = Append(book, row)
        BY <2>4 DEF FillPaper
      <3>2. row \in OrderRows /\ row.key = call[c].key
        BY <2>1, <2>4 DEF Sound, CallInv, KeyInv, FillPaper, OrderRows, Executed
      <3> HIDE DEF row
      <3> QED
        BY <2>1, <3>1, <3>2, RowsOfOthers DEF AlreadyOrdered
    <2>5. ASSUME NEW c \in Callers, Place(c), book' # book
          PROVE  RowsOf(k)' = RowsOf(k)
      <3> DEFINE row == [key |-> call[c].key, by |-> c, state |-> "working"]
      <3>1. call[c].at = "place" /\ book' = Append(book, row)
        BY <2>5 DEF Place
      <3>2. row \in OrderRows /\ row.key = call[c].key
        BY <2>1, <3>1 DEF Sound, CallInv, KeyInv, OrderRows
      <3>3. Sole(c)
        BY <1>1, <3>1 DEF Alone, Sole, NoCall
      <3>4. call[c].key # k
        BY <1>1, <3>1, <3>3 DEF OrderInv, UnrecordedInv
      <3> HIDE DEF row
      <3> QED
        BY <2>1, <3>1, <3>2, <3>4, RowsOfOthers
    <2> QED
      BY <1>1, <2>2, <2>3, <2>4, <2>5
         DEF Next, Proceed, Submit, Poll, Record, SwitchKill, Crash, vars
  <1>2. OrderInv /\ [Next]_vars => [Alone => RecordKept]_vars
    BY <1>1 DEF RecordKept
  <1> QED
    BY <1>2, OrderInvHolds, PTL DEF Spec, RecordedIsNotRepeated

(***************************************************************************)
(* The paper desk: the invariant.                                          *)
(***************************************************************************)
Positions == [qty : Nat, entry : Nat, charges : Int, cur : Nat]
Wallets == [cash : Int, realized : Int, trades : Nat, wins : Nat, pos : Positions]
Tracks == [qty : Nat, entry : Nat, loss : Int, target : Int, stop : Int, high : Nat,
           moved : BOOLEAN, taken : BOOLEAN]
Lives == [adds : Nat, original : Nat, entry : Nat, stop : Int, target : Int]

DeskTypes ==
    /\ price \in Prices
    /\ wallet \in Wallets /\ stored \in Wallets
    /\ managed \in Tracks /\ file \in Tracks
    /\ life \in Lives
    /\ averaged \in BOOLEAN

\* A position that is closed has left nothing behind.
Cleared(pos) == pos.qty = 0 => pos.entry = 0 /\ pos.charges = 0

\* A stop that was moved to break-even is still there.
EvenHeld(m) == m.moved => m.stop >= m.entry

\* The slippage of a fill is no more than the fall that triggers an averaging add.
SlippageWithinTrigger == SlippageDivisor * TriggerPct >= 100

\* The exit manager, its file and the ledger tell the wallet's story.
StoriesAgree ==
    /\ managed.qty = wallet.pos.qty
    /\ file.qty = managed.qty /\ file.entry = managed.entry
    /\ managed.qty > 0 => managed.entry = wallet.pos.entry /\ life.entry = wallet.pos.entry

\* The rows differ from memory in the mark of the open position at most.
RowsFollow ==
    /\ stored.cash = wallet.cash /\ stored.realized = wallet.realized
    /\ stored.trades = wallet.trades /\ stored.wins = wallet.wins
    /\ stored.pos.qty = wallet.pos.qty /\ stored.pos.entry = wallet.pos.entry
    /\ stored.pos.charges = wallet.pos.charges

DeskInv ==
    /\ DeskTypes
    /\ Cleared(wallet.pos)
    /\ SlippageWithinTrigger => EvenHeld(managed) /\ EvenHeld(file)
    /\ StoriesAgree
    /\ RowsFollow
    /\ ~averaged => CashOf(wallet)

-----------------------------------------------------------------------------
(* Arithmetic.                                                             *)

\* A quotient of a number by a positive one.
LEMMA Quotient ==
    ASSUME NEW a \in Int, NEW b \in Nat \ {0}
    PROVE  /\ a \div b \in Int /\ b * (a \div b) <= a /\ a < b * (a \div b) + b
           /\ a >= 0 => a \div b \in Nat
  OBVIOUS

\* A product of positive numbers is positive.
LEMMA PositiveProduct ==
    ASSUME NEW a \in Nat \ {0}, NEW b \in Nat \ {0}
    PROVE  a * b \in Nat \ {0}
  OBVIOUS

\* The average of what is held and what is bought for no more is no more.
LEMMA MeanIsBelow ==
    ASSUME NEW e \in Nat, NEW f \in Nat, f <= e, NEW a \in Nat, NEW q \in Nat \ {0}
    PROVE  (e * a + f * q) \div (a + q) \in Nat /\ (e * a + f * q) \div (a + q) <= e
  <1>1. f * q <= e * q /\ e * a \in Nat /\ f * q \in Nat /\ e * q \in Nat
    OBVIOUS
  <1>2. e * a + e * q = e * (a + q)
    OBVIOUS
  <1> DEFINE n == e * a + f * q
             d == a + q
  <1>3. n \in Nat /\ d \in Nat \ {0} /\ n <= e * d
    BY <1>1, <1>2
  <1> HIDE DEF n, d
  <1>4. n \div d \in Nat /\ d * (n \div d) <= n
    BY <1>3, Quotient
  <1>5. n \div d <= e
    <2> DEFINE x == n \div d
    <2>1. x \in Nat /\ d * x <= e * d
      BY <1>3, <1>4
    <2> HIDE DEF x
    <2>2. SUFFICES ASSUME x > e PROVE FALSE
      BY <2>1 DEF x
    <2>3. x >= e + 1 /\ d * x >= d * (e + 1) /\ d * (e + 1) = e * d + d
      BY <2>1, <2>2, <1>3
    <2> QED BY <2>1, <2>3, <1>3
  <1> QED BY <1>4, <1>5 DEF n, d

\* A purchase is filled at a price, and for no more than the average when the price has
\* fallen by the trigger and the slippage is no more than the trigger.
LEMMA FillIs ==
    ASSUME NEW p \in Nat \ {0}
    PROVE  /\ FillPrice(p, "BUY") \in Nat \ {0} /\ FillPrice(p, "SELL") \in Nat
  <1>1. SlippageDivisor \in Nat \ {0}
    BY PaperDeskAssumption
  <1> DEFINE x == p \div SlippageDivisor
  <1>2. x \in Nat /\ SlippageDivisor * x <= p
    BY <1>1, Quotient
  <1> HIDE DEF x
  <1>3. x <= p
    <2>1. x <= SlippageDivisor * x
      BY <1>1, <1>2
    <2> QED BY <2>1, <1>1, <1>2
  <1> QED BY <1>2, <1>3 DEF FillPrice, x

\* An add fills no dearer than the entry it averages down.
LEMMA AddIsCheap ==
    ASSUME SlippageWithinTrigger, NEW e \in Nat, NEW p \in Nat \ {0}, p < e,
           (e - p) * 100 >= TriggerPct * e
    PROVE  FillPrice(p, "BUY") <= e
  <1>1. SlippageDivisor \in Nat \ {0} /\ TriggerPct \in Nat
    BY PaperDeskAssumption
  <1> DEFINE x == p \div SlippageDivisor
  <1>2. x \in Nat /\ SlippageDivisor * x <= p
    BY <1>1, Quotient
  <1> HIDE DEF x
  <1>3. TriggerPct * (SlippageDivisor * x) <= TriggerPct * e
    BY <1>1, <1>2
  <1>4. TriggerPct * (SlippageDivisor * x) = (SlippageDivisor * TriggerPct) * x
    BY <1>1, <1>2
  <1>5. (SlippageDivisor * TriggerPct) * x >= 100 * x
    BY <1>1, <1>2 DEF SlippageWithinTrigger
  <1>6. 100 * x <= (e - p) * 100
    BY <1>1, <1>2, <1>3, <1>4, <1>5
  <1> QED BY <1>2, <1>6 DEF FillPrice, x

\* Distances and the smaller and larger of two integers are integers.
LEMMA ChosenIs ==
    ASSUME NEW a \in Int, NEW b \in Int
    PROVE  /\ Larger(a, b) \in {a, b} /\ Larger(a, b) >= a /\ Larger(a, b) >= b
           /\ Smaller(a, b) \in {a, b} /\ Smaller(a, b) <= a /\ Smaller(a, b) <= b
           /\ Distance(a, b) \in Nat /\ (a # b => Distance(a, b) # 0)
  BY DEF Larger, Smaller, Distance

\* A size is a number of shares.
LEMMA FractionIsInt ==
    ASSUME NEW c \in Int, NEW e \in Nat \ {0}, NEW s \in Int
    PROVE  FixedFractional(c, e, s) \in Int
  <1>1. PositionPct \in Nat /\ RiskPct \in Nat
    BY PaperDeskAssumption
  <1>2. CASE e # s
    <2> DEFINE d == 100 * Distance(e, s)
    <2>1. d \in Nat \ {0} /\ 100 * e \in Nat \ {0} /\ c * RiskPct \in Int /\ c * PositionPct \in Int
      <3>1. Distance(e, s) \in Nat \ {0}
        BY <1>2, ChosenIs
      <3> QED BY <1>1, <3>1
    <2> HIDE DEF d
    <2>2. (c * RiskPct) \div d \in Int /\ (c * PositionPct) \div (100 * e) \in Int
      BY <2>1, Quotient
    <2>3. FixedFractional(c, e, s) = Smaller((c * RiskPct) \div d, (c * PositionPct) \div (100 * e))
      BY <1>2 DEF FixedFractional, d
    <2> QED BY <2>2, <2>3, ChosenIs
  <1> QED BY <1>2 DEF FixedFractional

\* Kelly sizing is an integer.
LEMMA KellyIsInt ==
    ASSUME NEW c \in Int, NEW e \in Nat \ {0}, NEW s \in Int, NEW t \in Int, NEW r \in WinRates
    PROVE  Kelly(c, e, s, t, r) \in Int
  <1> DEFINE gain == Distance(t, e)
             loss == Distance(e, s)
             edge == r * gain - (100 - r) * loss
  <1>1. PositionPct \in Nat /\ r \in Nat
    BY PaperDeskAssumption
  <1>2. gain \in Nat /\ loss \in Nat
    BY ChosenIs
  <1>3. edge \in Int
    BY <1>1, <1>2
  <1>4. CASE gain # 0 /\ loss # 0
    <2> HIDE DEF gain, loss, edge
    <2>1. 100 * e \in Nat \ {0} /\ c * PositionPct \in Int /\ c * edge \in Int
      BY <1>1, <1>3
    <2>2. 200 * gain * e \in Nat \ {0}
      BY <1>2, <1>4, PositiveProduct
    <2>3. (c * PositionPct) \div (100 * e) \in Int /\ (c * edge) \div (200 * gain * e) \in Int
      BY <2>1, <2>2, Quotient
    <2>4. Smaller((c * PositionPct) \div (100 * e), (c * edge) \div (200 * gain * e)) \in Int
      BY <2>3, ChosenIs
    <2> QED BY <2>4 DEF Kelly, gain, loss, edge
  <1> QED BY <1>4 DEF Kelly

\* So is a size.
LEMMA SizeIsInt ==
    ASSUME NEW c \in Int, NEW e \in Nat \ {0}, NEW s \in Int, NEW t \in Int, NEW r \in WinRates
    PROVE  Size(c, e, s, t, r) \in Int
  BY FractionIsInt, KellyIsInt DEF Size, Optimal

\* The charges of an order, and the value of a wallet.
LEMMA ChargesAreInt ==
    ASSUME NEW n \in Int
    PROVE  Charges(n) \in Int
  <1>1. ChargeDivisor \in Nat \ {0} /\ BrokerageMax \in Int
    BY PaperDeskAssumption
  <1>2. n \div ChargeDivisor \in Int
    BY <1>1, Quotient
  <1> QED BY <1>1, <1>2, ChosenIs DEF Charges

\* So is an equity.
LEMMA EquityIsInt ==
    ASSUME NEW w \in Wallets
    PROVE  Equity(w) \in Int
  <1>1. w.cash \in Int /\ w.pos.entry \in Int /\ w.pos.qty \in Int /\ w.pos.charges \in Int
        /\ w.pos.cur \in Int
    BY DEF Wallets, Positions
  <1> QED BY <1>1 DEF Equity

-----------------------------------------------------------------------------
(* Orders.                                                                 *)

\* What a purchase does to a wallet.
LEMMA BoughtIs ==
    ASSUME NEW w \in Wallets, NEW q \in Nat \ {0}, NEW p \in Prices
    PROVE  LET f == FillPrice(p, "BUY")
               b == Bought(w, q, p)
           IN  /\ b \in Wallets /\ b.pos.qty = w.pos.qty + q
               /\ b.realized = w.realized /\ b.pos.charges = w.pos.charges + Charges(f * q)
               /\ b.pos.entry * b.pos.qty = w.pos.entry * w.pos.qty + f * q /\ CashOf(w) => CashOf(b)
               /\ b.pos.entry = (w.pos.entry * w.pos.qty + f * q) \div (w.pos.qty + q)
               /\ w.pos.qty = 0 /\ Cleared(w.pos) => b.pos.entry = f /\ (CashOf(w) => CashOf(b))
  <1> DEFINE f == FillPrice(p, "BUY")
             c == Charges(f * q)
             n == (w.pos.entry * w.pos.qty + f * q) \div (w.pos.qty + q)
             b == [w EXCEPT !.cash = @ - (f * q + c), !.pos = Merged(@, q, f, c)]
  <1>1. p \in Nat \ {0} /\ InitialBalance \in Nat
    BY PaperDeskAssumption
  <1>2. f \in Nat \ {0}
    BY <1>1, FillIs
  <1>3. /\ w.cash \in Int /\ w.realized \in Int /\ w.pos.entry \in Nat /\ w.pos.qty \in Nat
        /\ w.pos.charges \in Int /\ w = [cash |-> w.cash, realized |-> w.realized,
              trades |-> w.trades, wins |-> w.wins, pos |-> w.pos]
    BY DEF Wallets, Positions
  <1> HIDE DEF f
  <1>4. f * q \in Nat /\ c \in Int
    BY <1>2, ChargesAreInt
  <1> HIDE DEF c
  <1>5. n \in Nat
    <2>1. w.pos.entry * w.pos.qty + f * q \in Nat /\ w.pos.qty + q \in Nat \ {0}
      BY <1>3, <1>4
    <2> QED BY <2>1, Quotient
  <1>6. b.pos = [qty |-> w.pos.qty + q, charges |-> w.pos.charges + c, cur |-> f, entry |-> n]
    BY <1>3 DEF Merged
  <1>7. b.cash = w.cash - (f * q + c) /\ b.realized = w.realized
    BY <1>3
  <1> HIDE DEF n
  <1>8. b \in Wallets
    <2>1. b.pos \in Positions
      BY <1>2, <1>3, <1>4, <1>5, <1>6 DEF Positions
    <2>2. b = [cash |-> w.cash - (f * q + c), realized |-> w.realized, trades |-> w.trades,
               wins |-> w.wins, pos |-> b.pos]
      <3> DEFINE x == w.cash - (f * q + c)
                 y == Merged(w.pos, q, f, c)
      <3>1. b = [w EXCEPT !.cash = x, !.pos = y]
        OBVIOUS
      <3> HIDE DEF x, y
      <3>2. [w EXCEPT !.cash = x, !.pos = y] = [cash |-> x, realized |-> w.realized,
               trades |-> w.trades, wins |-> w.wins, pos |-> y]
        <4> DEFINE u == [w EXCEPT !.cash = x]
        <4>1. u = [cash |-> x, realized |-> w.realized, trades |-> w.trades, wins |-> w.wins,
                   pos |-> w.pos]
          BY DEF Wallets
        <4>2. [w EXCEPT !.cash = x, !.pos = y] = [u EXCEPT !.pos = y]
          OBVIOUS
        <4> HIDE DEF u
        <4> QED BY <4>1, <4>2
      <3>3. b.pos = y
        BY <3>1, <3>2
      <3> HIDE DEF b
      <3> QED BY <3>1, <3>2, <3>3 DEF x
    <2>3. w.trades \in Nat /\ w.wins \in Nat
      BY DEF Wallets
    <2> HIDE DEF b
    <2> QED BY <1>3, <1>4, <2>1, <2>2, <2>3 DEF Wallets
  <1>9. ASSUME w.pos.qty = 0, Cleared(w.pos)
        PROVE  n = f /\ (CashOf(w) => CashOf(b))
    <2>1. w.pos.entry = 0 /\ w.pos.charges = 0
      BY <1>9 DEF Cleared
    <2>2. n = (f * q) \div q
      BY <1>3, <1>4, <1>9, <2>1 DEF n
    <2>3. n = f
      <3> DEFINE y == f * q
      <3>1. q * (y \div q) <= y /\ y < q * (y \div q) + q /\ y \div q \in Int
        <4>1. y \in Int
          BY <1>4
        <4> HIDE DEF y
        <4> QED BY <4>1, Quotient
      <3>2. y \div q <= f
        <4>1. SUFFICES ASSUME y \div q >= f + 1 PROVE FALSE
          BY <3>1, <1>2
        <4> DEFINE z == y \div q
        <4> HIDE DEF z
        <4>2. q * z >= q * (f + 1)
          BY <4>1, <3>1, <1>2 DEF z
        <4> QED BY <4>2, <3>1, <1>2 DEF z
      <3>3. y \div q >= f
        <4>1. SUFFICES ASSUME y \div q <= f - 1 PROVE FALSE
          BY <3>1, <1>2
        <4> DEFINE z == y \div q
        <4> HIDE DEF z
        <4>2. q * z <= q * (f - 1)
          BY <4>1, <3>1, <1>2 DEF z
        <4> QED BY <4>2, <3>1, <1>2 DEF z
      <3> QED BY <2>2, <3>1, <3>2, <3>3, <1>2
    <2>4. CashOf(w) => w.cash = InitialBalance + w.realized
      BY <1>3, <1>9, <2>1, <1>1 DEF CashOf
    <2>5. CashOf(w) => b.cash + f * q + c = InitialBalance + b.realized
      BY <1>1, <1>3, <1>4, <1>7, <2>4
    <2>6. b.pos.qty = q /\ b.pos.entry = f /\ b.pos.charges = c
      BY <1>3, <1>4, <1>6, <1>9, <2>1, <2>3
    <2> QED BY <2>3, <2>5, <2>6 DEF CashOf
  <1>10. Bought(w, q, p) = b
    BY DEF Bought, f, c
  <1>11. ASSUME b.pos.entry * b.pos.qty = w.pos.entry * w.pos.qty + f * q, CashOf(w)
         PROVE  CashOf(b)
    <2> DEFINE x == w.pos.entry * w.pos.qty
               y == f * q
    <2>1. x \in Int /\ y \in Int /\ w.cash + x + w.pos.charges = InitialBalance + w.realized
      BY <1>3, <1>4, <1>11 DEF CashOf
    <2>2. b.pos.entry * b.pos.qty = x + y /\ b.pos.charges = w.pos.charges + c
          /\ b.cash = w.cash - (y + c) /\ b.realized = w.realized
      BY <1>6, <1>7, <1>11
    <2> HIDE DEF x, y, b
    <2>3. b.cash + (x + y) + b.pos.charges = InitialBalance + b.realized
      BY <1>1, <1>3, <1>4, <2>1, <2>2
    <2> QED BY <2>2, <2>3 DEF CashOf
  <1>12. b.pos.charges = w.pos.charges + Charges(f * q) /\ b.realized = w.realized
    BY <1>6, <1>7 DEF c
  <1> HIDE DEF b
  <1> QED BY <1>3, <1>6, <1>8, <1>9, <1>10, <1>11, <1>12 DEF f, n

\* Every field of a wallet is written.
Rewritten(w, a, b, c, d, e) ==
    [w EXCEPT !.cash = a, !.realized = b, !.trades = c, !.wins = d, !.pos = e]

\* A wallet all of whose fields are written is the record of what was written.
LEMMA AllWritten ==
    ASSUME NEW w \in Wallets, NEW a, NEW b, NEW c, NEW d, NEW e
    PROVE  Rewritten(w, a, b, c, d, e) =
           [cash |-> a, realized |-> b, trades |-> c, wins |-> d, pos |-> e]
  <1> DEFINE x == [w EXCEPT !.cash = a]
             y == [x EXCEPT !.realized = b]
             z == [y EXCEPT !.trades = c]
             u == [z EXCEPT !.wins = d]
  <1>1. x = [cash |-> a, realized |-> w.realized, trades |-> w.trades, wins |-> w.wins, pos |-> w.pos]
    BY DEF Wallets
  <1> HIDE DEF x
  <1>2. y = [cash |-> a, realized |-> b, trades |-> w.trades, wins |-> w.wins, pos |-> w.pos]
    BY <1>1
  <1> HIDE DEF y
  <1>3. z = [cash |-> a, realized |-> b, trades |-> c, wins |-> w.wins, pos |-> w.pos]
    BY <1>2
  <1> HIDE DEF z
  <1>4. u = [cash |-> a, realized |-> b, trades |-> c, wins |-> d, pos |-> w.pos]
    BY <1>3
  <1> HIDE DEF u
  <1>5. [u EXCEPT !.pos = e] = [cash |-> a, realized |-> b, trades |-> c, wins |-> d, pos |-> e]
    BY <1>4
  <1> QED BY <1>5 DEF u, x, y, z, Rewritten

\* What is left of a position.
LEMMA ReducedIs ==
    ASSUME NEW pos \in Positions, NEW q \in Nat \ {0}, q <= pos.qty
    PROVE  /\ Reduced(pos, q) \in Positions /\ Reduced(pos, q).qty = pos.qty - q
           /\ Cleared(Reduced(pos, q)) /\ Prorata(pos, q) \in Int
           /\ q < pos.qty => Reduced(pos, q).entry = pos.entry
           /\ Reduced(pos, q).charges = pos.charges - Prorata(pos, q)
  <1>1. pos.qty \in Nat \ {0} /\ pos.charges \in Int /\ pos.entry \in Nat /\ pos.cur \in Nat
    BY DEF Positions
  <1> DEFINE x == (pos.charges * q) \div pos.qty
  <1>2. x \in Int
    BY <1>1, Quotient
  <1>3. CASE q < pos.qty
    <2> HIDE DEF x
    <2>1. Reduced(pos, q) = [pos EXCEPT !.qty = pos.qty - q, !.charges = pos.charges - x]
      BY <1>1, <1>3 DEF Reduced, Prorata, x
    <2>2. [pos EXCEPT !.qty = pos.qty - q, !.charges = pos.charges - x] =
          [qty |-> pos.qty - q, entry |-> pos.entry, charges |-> pos.charges - x, cur |-> pos.cur]
      <3> DEFINE y == [pos EXCEPT !.qty = pos.qty - q]
      <3>1. y = [qty |-> pos.qty - q, entry |-> pos.entry, charges |-> pos.charges, cur |-> pos.cur]
        BY DEF Positions
      <3> HIDE DEF y
      <3>2. [y EXCEPT !.charges = pos.charges - x] =
            [qty |-> pos.qty - q, entry |-> pos.entry, charges |-> pos.charges - x, cur |-> pos.cur]
        BY <3>1
      <3> QED BY <3>2 DEF y
    <2> QED BY <1>1, <1>2, <1>3, <2>1, <2>2 DEF Positions, Cleared, Prorata, x
  <1>4. CASE q = pos.qty
    <2>1. Reduced(pos, q) = NoPosition
      BY <1>1, <1>4 DEF Reduced
    <2>2. x = pos.charges
      <3> DEFINE n == pos.charges
                 m == pos.qty
      <3>1. n \in Int /\ m \in Nat \ {0}
        BY <1>1
      <3> HIDE DEF n, m
      <3>2. (n * m) \div m = n
        <4> DEFINE y == n * m
        <4>1. y \in Int
          BY <3>1
        <4>2. y \div m \in Int /\ m * (y \div m) <= y /\ y < m * (y \div m) + m
          <5> HIDE DEF y
          <5> QED BY <3>1, <4>1, Quotient
        <4> DEFINE z == y \div m
        <4> HIDE DEF z
        <4>3. z \in Int /\ m * z <= n * m /\ n * m < m * z + m
          BY <4>2 DEF z
        <4>4. ~(z >= n + 1)
          <5>1. SUFFICES ASSUME z >= n + 1 PROVE FALSE
            OBVIOUS
          <5>2. m * z >= m * (n + 1)
            BY <4>3, <5>1, <3>1
          <5> QED BY <5>2, <4>3, <3>1
        <4>5. ~(z <= n - 1)
          <5>1. SUFFICES ASSUME z <= n - 1 PROVE FALSE
            OBVIOUS
          <5>2. m * z <= m * (n - 1)
            BY <4>3, <5>1, <3>1
          <5> QED BY <5>2, <4>3, <3>1
        <4> QED BY <4>3, <4>4, <4>5, <3>1 DEF z
      <3> QED BY <3>2, <1>4 DEF n, m
    <2> QED BY <1>1, <1>4, <2>1, <2>2 DEF NoPosition, Positions, Cleared, Prorata
  <1> QED BY <1>1, <1>3, <1>4

\* What a sale does to a wallet: the cash and the committed capital move by the result.
LEMMA SoldIs ==
    ASSUME NEW w \in Wallets, NEW q \in Nat \ {0}, q <= w.pos.qty, NEW p \in Prices
    PROVE  /\ Sold(w, q, p) \in Wallets /\ Sold(w, q, p).pos.qty = w.pos.qty - q
           /\ Cleared(Sold(w, q, p).pos)
           /\ q < w.pos.qty => Sold(w, q, p).pos.entry = w.pos.entry
           /\ CashOf(w) => CashOf(Sold(w, q, p))
           /\ Sold(w, q, p).realized = w.realized + ExitResult(w, q, p)
           /\ Sold(w, q, p).pos = Reduced(w.pos, q)
  <1> DEFINE f == FillPrice(p, "SELL")
             c == Charges(f * q)
             g == Prorata(w.pos, q)
             net == (f - w.pos.entry) * q - g - c
             cash == w.cash + w.pos.entry * q + (f - w.pos.entry) * q - c
             wins == IF net > 0 THEN w.wins + 1 ELSE w.wins
             r == Reduced(w.pos, q)
  <1>1. p \in Nat \ {0} /\ InitialBalance \in Nat
    BY PaperDeskAssumption
  <1>2. f \in Nat
    BY <1>1, FillIs
  <1>3. /\ w.cash \in Int /\ w.realized \in Int /\ w.pos \in Positions
        /\ w.trades \in Nat /\ w.wins \in Nat
    BY DEF Wallets
  <1>4. w.pos.qty \in Nat /\ w.pos.entry \in Nat /\ w.pos.charges \in Int
    BY <1>3 DEF Positions
  <1>5. /\ r \in Positions /\ r.qty = w.pos.qty - q /\ Cleared(r) /\ g \in Int
        /\ q < w.pos.qty => r.entry = w.pos.entry
        /\ r.charges = w.pos.charges - g
    BY <1>3, ReducedIs
  <1> HIDE DEF f, g, r
  <1>6. f * q \in Int /\ c \in Int
    BY <1>2, ChargesAreInt
  <1> HIDE DEF c
  <1>7. net \in Int /\ cash \in Int /\ wins \in Nat
    BY <1>2, <1>3, <1>4, <1>5, <1>6
  <1> HIDE DEF net, cash, wins
  <1>8. Sold(w, q, p) = [cash |-> cash, realized |-> w.realized + net, trades |-> w.trades + 1,
                         wins |-> wins, pos |-> r]
    <2>1. Sold(w, q, p) = Rewritten(w, cash, w.realized + net, w.trades + 1, wins, r)
      BY DEF Sold, ExitResult, Rewritten, f, c, g, net, cash, wins, r
    <2> QED BY <2>1, AllWritten
  <1>9. ASSUME CashOf(w)
        PROVE  cash + r.entry * r.qty + r.charges = InitialBalance + w.realized + net
    <2> DEFINE e == w.pos.entry
    <2>1. r.entry * r.qty = e * (w.pos.qty - q)
      <3>1. CASE q < w.pos.qty
        BY <1>5, <3>1
      <3>2. CASE q = w.pos.qty
        <4>1. r.qty = 0 /\ r.entry = 0
          BY <1>4, <1>5, <3>2 DEF Cleared
        <4>2. e * 0 = 0 /\ w.pos.qty - q = 0
          BY <1>4, <3>2
        <4> HIDE DEF e
        <4> QED BY <4>1, <4>2
      <3> QED BY <3>1, <3>2, <1>4
    <2>2. e * (w.pos.qty - q) = e * w.pos.qty - e * q
      BY <1>4
    <2>3. e * w.pos.qty \in Int /\ e * q \in Int /\ (f - e) * q \in Int
      BY <1>4, <1>2
    <2>4. w.cash + e * w.pos.qty + w.pos.charges = InitialBalance + w.realized
      BY <1>9 DEF CashOf
    <2> DEFINE x == e * w.pos.qty
               y == e * q
               z == (f - e) * q
    <2>5. cash = w.cash + y + z - c /\ net = z - g - c
      BY DEF cash, net
    <2>6. r.entry * r.qty = x - y
      BY <2>1, <2>2
    <2>7. x \in Int /\ y \in Int /\ z \in Int /\ w.cash + x + w.pos.charges = InitialBalance + w.realized
      BY <2>3, <2>4
    <2> HIDE DEF x, y, z
    <2> QED BY <2>5, <2>6, <2>7, <1>1, <1>3, <1>4, <1>5, <1>6
  <1>10. Sold(w, q, p) \in Wallets
    BY <1>3, <1>5, <1>7, <1>8 DEF Wallets
  <1>11. CashOf(w) => CashOf(Sold(w, q, p))
    BY <1>1, <1>3, <1>7, <1>8, <1>9 DEF CashOf
  <1>12. ExitResult(w, q, p) = net /\ Reduced(w.pos, q) = r
    BY DEF ExitResult, net, f, g, c, r
  <1> QED BY <1>5, <1>8, <1>10, <1>11, <1>12

\* A mark changes the mark alone.
LEMMA MarkedIs ==
    ASSUME NEW w \in Wallets, NEW p \in Prices
    PROVE  LET m == Marked(w, p) IN
           /\ m \in Wallets
           /\ m.cash = w.cash /\ m.realized = w.realized /\ m.trades = w.trades /\ m.wins = w.wins
           /\ m.pos.qty = w.pos.qty /\ m.pos.entry = w.pos.entry /\ m.pos.charges = w.pos.charges
  <1>1. p \in Nat
    BY PaperDeskAssumption
  <1> QED BY <1>1 DEF Marked, Wallets, Positions

-----------------------------------------------------------------------------
(* The exit manager.                                                       *)

\* Seeing a price, trailing and break-even raise the stop and keep the position.
Kept(m, p, atr) == BreakEven(Trailed(Seen(m, p), atr), p)

\* A price seen moves nothing but the extremes of a track.
LEMMA SeenIs ==
    ASSUME NEW m \in Tracks, NEW p \in Prices
    PROVE  LET s == Seen(m, p) IN
           /\ s \in Tracks /\ s.qty = m.qty /\ s.entry = m.entry /\ s.stop = m.stop
           /\ s.moved = m.moved /\ s.taken = m.taken
  <1>1. p \in Nat
    BY PaperDeskAssumption
  <1> QED BY <1>1 DEF Seen, Tracks, Larger

\* A track that is kept only tightens its protection.
LEMMA KeptIs ==
    ASSUME NEW m \in Tracks, NEW p \in Prices, NEW atr \in AtrDistances
    PROVE  LET k == Kept(m, p, atr) IN
           /\ k \in Tracks /\ k.qty = m.qty /\ k.entry = m.entry
           /\ EvenHeld(m) => EvenHeld(k) /\ Tightens(m, k)
  <1>1. p \in Nat /\ atr \in Nat
    BY PaperDeskAssumption
  <1> DEFINE s == Seen(m, p)
             t == Trailed(s, atr)
             k == BreakEven(t, p)
  <1>2. /\ s \in Tracks /\ s.qty = m.qty /\ s.entry = m.entry /\ s.stop = m.stop
        /\ s.moved = m.moved /\ s.taken = m.taken
    BY SeenIs
  <1> HIDE DEF s
  <1>3. /\ t \in Tracks /\ t.qty = s.qty /\ t.entry = s.entry /\ t.stop >= s.stop
        /\ t.moved = s.moved /\ t.taken = s.taken
    BY <1>1, <1>2 DEF Trailed, Tracks
  <1> HIDE DEF t
  <1>4. /\ k \in Tracks /\ k.qty = t.qty /\ k.entry = t.entry /\ k.stop >= t.stop
        /\ t.moved => k.moved
        /\ k.moved => t.moved \/ k.stop >= k.entry
        /\ k.taken = t.taken
    <2>1. CASE ~t.moved /\ OneR(t, p)
      <3> DEFINE x == Larger(t.stop, t.entry)
      <3>1. t.stop \in Int /\ t.entry \in Int /\ t.entry \in Nat
        BY <1>3 DEF Tracks
      <3>2. x \in Int /\ x >= t.stop /\ x >= t.entry
        BY <3>1 DEF Larger
      <3> HIDE DEF x
      <3>3. k = [t EXCEPT !.stop = x, !.moved = TRUE]
        BY <2>1 DEF BreakEven, x
      <3> DEFINE y == [t EXCEPT !.stop = x]
      <3>4. /\ y \in Tracks /\ y.qty = t.qty /\ y.entry = t.entry /\ y.stop = x /\ y.taken = t.taken
        BY <1>3, <3>2 DEF Tracks
      <3>5. k = [y EXCEPT !.moved = TRUE]
        BY <3>3
      <3> HIDE DEF y, k
      <3>6. /\ k \in Tracks /\ k.qty = y.qty /\ k.entry = y.entry /\ k.stop = y.stop /\ k.moved
            /\ k.taken = y.taken
        BY <3>4, <3>5 DEF Tracks
      <3> QED BY <3>2, <3>4, <3>6
    <2>2. CASE ~(~t.moved /\ OneR(t, p))
      <3>1. k = t
        BY <2>2 DEF BreakEven
      <3>2. t.stop \in Int
        BY <1>3 DEF Tracks
      <3> QED BY <1>3, <3>1, <3>2
    <2> QED BY <2>1, <2>2
  <1> HIDE DEF k
  <1>5. m.stop \in Int /\ t.stop \in Int /\ k.stop \in Int /\ k.entry \in Int
    BY <1>3, <1>4 DEF Tracks
  <1>6. k.stop >= m.stop /\ (m.moved => k.moved) /\ (m.taken => k.taken)
    BY <1>2, <1>3, <1>4, <1>5
  <1>7. EvenHeld(m) /\ k.moved => k.stop >= k.entry
    <2> SUFFICES ASSUME EvenHeld(m), k.moved PROVE k.stop >= k.entry
      OBVIOUS
    <2>1. CASE m.moved
      BY <1>2, <1>3, <1>4, <1>5, <1>6, <2>1 DEF EvenHeld
    <2>2. CASE ~m.moved
      BY <1>2, <1>3, <1>4, <2>2
    <2> QED BY <2>1, <2>2
  <1>8. k = Kept(m, p, atr)
    BY DEF Kept, k, t, s
  <1> QED BY <1>2, <1>3, <1>4, <1>6, <1>7, <1>8 DEF EvenHeld, Tightens

\* A fill of an exit takes shares off, and nothing of the protection.
LEMMA AfterExitIs ==
    ASSUME NEW m \in Tracks, NEW q \in Nat \ {0}, q <= m.qty
    PROVE  LET n == AfterExit(m, q) IN
           /\ n \in Tracks /\ n.qty = m.qty - q
           /\ EvenHeld(m) => EvenHeld(n)
           /\ n.qty > 0 => n.entry = m.entry /\ n.stop = m.stop /\ n.moved = m.moved /\ n.taken
  <1>1. CASE q >= m.qty
    BY <1>1 DEF AfterExit, Untracked, Tracks, EvenHeld
  <1>2. CASE q < m.qty
    <2> DEFINE x == [m EXCEPT !.qty = m.qty - q]
    <2>1. AfterExit(m, q) = [x EXCEPT !.taken = TRUE]
      BY <1>2 DEF AfterExit, Tracks
    <2>2. /\ x \in Tracks /\ x.qty = m.qty - q /\ x.stop = m.stop /\ x.moved = m.moved
          /\ x.entry = m.entry
      BY <1>2 DEF Tracks
    <2> HIDE DEF x
    <2>3. /\ [x EXCEPT !.taken = TRUE] \in Tracks /\ [x EXCEPT !.taken = TRUE].qty = x.qty
          /\ [x EXCEPT !.taken = TRUE].entry = x.entry /\ [x EXCEPT !.taken = TRUE].stop = x.stop
          /\ [x EXCEPT !.taken = TRUE].moved = x.moved /\ [x EXCEPT !.taken = TRUE].taken
      BY <2>2 DEF Tracks
    <2> QED BY <2>1, <2>2, <2>3 DEF EvenHeld
  <1> QED BY <1>1, <1>2 DEF Tracks

\* A fill of an add averages the entry.
LEMMA AfterAddIs ==
    ASSUME NEW m \in Tracks, NEW q \in Nat \ {0}, NEW f \in Nat
    PROVE  LET n == AfterAdd(m, q, f) IN
           /\ n \in Tracks /\ n.qty = m.qty + q
           /\ n.entry = (m.entry * m.qty + f * q) \div (m.qty + q)
           /\ n.stop = m.stop /\ n.moved = m.moved /\ n.taken = m.taken
  <1> DEFINE e == (m.entry * m.qty + f * q) \div (m.qty + q)
             x == [m EXCEPT !.qty = m.qty + q]
  <1>1. m.qty \in Nat /\ m.entry \in Nat
    BY DEF Tracks
  <1>2. e \in Nat
    <2>1. m.entry * m.qty + f * q \in Nat /\ m.qty + q \in Nat \ {0}
      BY <1>1
    <2> QED BY <2>1, Quotient
  <1>3. AfterAdd(m, q, f) = [x EXCEPT !.entry = e]
    BY DEF AfterAdd
  <1>4. /\ x \in Tracks /\ x.qty = m.qty + q /\ x.stop = m.stop /\ x.moved = m.moved
        /\ x.taken = m.taken
    BY <1>1 DEF Tracks
  <1> HIDE DEF x, e
  <1>5. /\ [x EXCEPT !.entry = e] \in Tracks /\ [x EXCEPT !.entry = e].qty = x.qty
        /\ [x EXCEPT !.entry = e].entry = e /\ [x EXCEPT !.entry = e].stop = x.stop
        /\ [x EXCEPT !.entry = e].moved = x.moved /\ [x EXCEPT !.entry = e].taken = x.taken
    BY <1>2, <1>4 DEF Tracks
  <1> QED BY <1>3, <1>4, <1>5 DEF e

\* The shares of an exit are some of those held.
LEMMA ExitQuantityIs ==
    ASSUME NEW m \in Tracks, m.qty > 0, NEW rule
    PROVE  ExitQuantity(m, rule) \in Nat \ {0} /\ ExitQuantity(m, rule) <= m.qty
  <1>1. m.qty \in Nat \ {0}
    BY DEF Tracks
  <1>2. m.qty \div 2 \in Nat /\ 2 * (m.qty \div 2) <= m.qty
    BY <1>1, Quotient
  <1> QED BY <1>1, <1>2 DEF ExitQuantity, Larger

-----------------------------------------------------------------------------
(* Every action keeps the invariant, and the protection.                   *)

ProtectionKept ==
    Holding /\ file = managed /\ managed'.qty > 0 => Tightens(managed, managed')

\* What is paid for the shares of an add is shared out without a remainder, which the
\* average price of the model, an integer, would lose.
EvenSplit ==
    0 < wallet.pos.qty /\ wallet.pos.qty < wallet'.pos.qty =>
        wallet'.pos.entry * wallet'.pos.qty =
            wallet.pos.entry * wallet.pos.qty
                + FillPrice(price, "BUY") * (wallet'.pos.qty - wallet.pos.qty)

CashKept == EvenSplit /\ CashOf(wallet) => CashOf(wallet')

Moves == DeskInv' /\ (SlippageWithinTrigger => ProtectionKept) /\ CashKept

\* A failed commit restores the wallet of before.
LEMMA NotPersistedIs ==
    ASSUME NEW w, NEW a, NotPersisted(w, a)
    PROVE  wallet' = w /\ stored' = stored
  BY DEF NotPersisted, RolledBack

\* An entry moves the desk as it may.
LEMMA EnterStep ==
    ASSUME DeskInv, Enter
    PROVE  Moves
  <1> USE DEF DeskInv, DeskTypes
  <1> DEFINE fill == FillPrice(price, "BUY")
             stop == price - StopGap
             target == price + TargetGap
  <1>1. PICK rate \in WinRates :
           LET q == Size(Equity(wallet), fill, stop, target, rate)
               after == Bought(wallet, q, price)
               m == Registered(q, fill, stop, target)
           IN  /\ q > 0
               /\ \/ /\ wallet' = after /\ stored' = after
                     /\ managed' = m /\ file' = m
                     /\ life' = [adds |-> 0, original |-> q, entry |-> fill, stop |-> stop,
                                 target |-> target]
                  \/ wallet' = wallet /\ stored' = stored /\ UNCHANGED <<managed, file, life>>
    BY NotPersistedIs DEF Enter, FillCommitted, OrderWithinRisk
  <1>2. wallet.pos.qty = 0 /\ price' = price /\ averaged' = averaged
    BY DEF Enter
  <1>3. price \in Nat \ {0} /\ StopGap \in Nat /\ TargetGap \in Nat
    BY PaperDeskAssumption
  <1>4. fill \in Nat \ {0} /\ stop \in Int /\ target \in Int
    BY <1>3, FillIs
  <1> DEFINE q == Size(Equity(wallet), fill, stop, target, rate)
             after == Bought(wallet, q, price)
             m == Registered(q, fill, stop, target)
  <1> HIDE DEF fill, stop, target
  <1>5. q \in Nat \ {0}
    <2>1. Equity(wallet) \in Int
      BY EquityIsInt
    <2>2. q \in Int
      BY <1>4, <2>1, SizeIsInt
    <2> QED BY <1>1, <2>2
  <1> HIDE DEF q
  <1>6. /\ after \in Wallets /\ after.pos.qty = q
        /\ ~averaged => CashOf(after)
        /\ CashOf(wallet) => CashOf(after)
        /\ after.pos.entry = fill
    BY <1>2, <1>5, BoughtIs DEF fill
  <1>7. ~Holding
    BY <1>2 DEF StoriesAgree, Holding, Tracks
  <1>8. m \in Tracks /\ m.qty = q /\ m.entry = fill /\ ~m.moved
    BY <1>4, <1>5 DEF Registered, Tracks
  <1>9. CASE /\ wallet' = after /\ stored' = after /\ managed' = m /\ file' = m
             /\ life' = [adds |-> 0, original |-> q, entry |-> fill, stop |-> stop,
                         target |-> target]
    <2>1. life' \in Lives /\ life'.entry = fill
      BY <1>4, <1>5, <1>9 DEF Lives
    <2>2. DeskTypes' /\ StoriesAgree' /\ RowsFollow'
      BY <1>2, <1>6, <1>8, <1>9, <2>1 DEF StoriesAgree, RowsFollow
    <2>3. Cleared(wallet.pos)' /\ EvenHeld(managed)' /\ EvenHeld(file)'
      BY <1>5, <1>6, <1>8, <1>9 DEF Cleared, EvenHeld
    <2>4. (~averaged => CashOf(wallet))'
      BY <1>2, <1>6, <1>9 DEF CashOf
    <2> QED BY <1>6, <1>7, <1>9, <2>2, <2>3, <2>4 DEF Moves, ProtectionKept, CashKept
  <1>10. CASE wallet' = wallet /\ stored' = stored /\ UNCHANGED <<managed, file, life>>
    BY <1>2, <1>7, <1>10 DEF StoriesAgree, RowsFollow, Cleared, EvenHeld, CashOf, Moves, ProtectionKept, CashKept
  <1> QED BY <1>1, <1>9, <1>10 DEF q, fill, stop, target

\* Where the exit manager is left alone, nothing is lost.
LEMMA Unmoved ==
    ASSUME DeskInv, managed' = managed
    PROVE  SlippageWithinTrigger => ProtectionKept
  <1>1. managed.stop \in Int
    BY DEF DeskInv, DeskTypes, Tracks
  <1> QED BY <1>1 DEF DeskInv, ProtectionKept, Tightens, EvenHeld

\* So does a check of the exits.
LEMMA CheckExitsStep ==
    ASSUME DeskInv, CheckExits
    PROVE  Moves
  <1> USE DEF DeskInv, DeskTypes
  <1>1. PICK atr \in AtrDistances, clock \in BOOLEAN :
           LET seen == Seen(managed, price)
               rule == Rule(seen, price, atr, clock)
               kept == Kept(managed, price, atr)
               q == ExitQuantity(seen, rule)
               after == Sold(wallet, q, price)
           IN  \/ Save(kept) /\ UNCHANGED <<wallet, stored, life>>
               \/ /\ q <= wallet.pos.qty
                  /\ wallet' = after /\ stored' = after
                  /\ managed' = AfterExit(kept, q) /\ file' = managed'
                  /\ life' = IF q = managed.qty THEN NoLife ELSE life
               \/ /\ wallet' = wallet /\ stored' = stored
                  /\ managed' = kept /\ file' = kept
                  /\ UNCHANGED life
    <2>1. wallet.pos.qty \in Int /\ managed.qty > 0 /\ \A rule : ExitQuantity(Seen(managed, price), rule) \in Int
      <3>1. Seen(managed, price) \in Tracks /\ Seen(managed, price).qty = managed.qty
        BY SeenIs
      <3>2. managed.qty > 0 /\ wallet.pos.qty \in Int
        BY DEF CheckExits, Holding, Wallets, Positions
      <3> QED BY <3>1, <3>2, ExitQuantityIs
    <2>2. PICK atr \in AtrDistances, clock \in BOOLEAN :
           LET seen == Seen(managed, price)
               rule == Rule(seen, price, atr, clock)
               kept == BreakEven(Trailed(seen, atr), price)
               q == ExitQuantity(seen, rule)
               after == Sold(wallet, q, price)
           IN  IF rule = "none" \/ q > wallet.pos.qty
               THEN Save(kept) /\ UNCHANGED <<wallet, stored, rows, life, daily>>
               ELSE \/ /\ FillCommitted(wallet, after, "SELL", q, price)
                       /\ managed' = AfterExit(kept, q) /\ file' = managed'
                       /\ life' = IF q = managed.qty THEN NoLife ELSE life
                    \/ /\ NotPersisted(wallet, after)
                       /\ managed' = kept /\ file' = kept
                       /\ UNCHANGED <<life, daily>>
      BY DEF CheckExits
    <2> DEFINE seen == Seen(managed, price)
               rule == Rule(seen, price, atr, clock)
               kept == Kept(managed, price, atr)
               q == ExitQuantity(seen, rule)
               after == Sold(wallet, q, price)
    <2>3. IF rule = "none" \/ q > wallet.pos.qty
          THEN Save(kept) /\ UNCHANGED <<wallet, stored, rows, life, daily>>
          ELSE \/ /\ FillCommitted(wallet, after, "SELL", q, price)
                  /\ managed' = AfterExit(kept, q) /\ file' = managed'
                  /\ life' = IF q = managed.qty THEN NoLife ELSE life
               \/ /\ NotPersisted(wallet, after)
                  /\ managed' = kept /\ file' = kept
                  /\ UNCHANGED <<life, daily>>
      BY <2>2 DEF Kept
    <2> HIDE DEF rule, kept
    <2>4. q \in Int
      BY <2>1
    <2> HIDE DEF q, after
    <2>5. \/ Save(kept) /\ UNCHANGED <<wallet, stored, life>>
          \/ /\ q <= wallet.pos.qty
             /\ wallet' = after /\ stored' = after
             /\ managed' = AfterExit(kept, q) /\ file' = managed'
             /\ life' = IF q = managed.qty THEN NoLife ELSE life
          \/ /\ wallet' = wallet /\ stored' = stored
             /\ managed' = kept /\ file' = kept
             /\ UNCHANGED life
      BY <2>1, <2>3, <2>4, NotPersistedIs DEF FillCommitted
    <2> QED BY <2>5 DEF seen, rule, kept, q, after
  <1>2. price' = price /\ averaged' = averaged /\ managed.qty > 0 /\ price \in Nat
    BY PaperDeskAssumption DEF CheckExits, Holding
  <1> DEFINE seen == Seen(managed, price)
             rule == Rule(seen, price, atr, clock)
             kept == Kept(managed, price, atr)
             q == ExitQuantity(seen, rule)
             after == Sold(wallet, q, price)
  <1>3. /\ kept \in Tracks /\ kept.qty = managed.qty /\ kept.entry = managed.entry
        /\ EvenHeld(managed) => EvenHeld(kept) /\ Tightens(managed, kept)
    BY KeptIs
  <1>4. q \in Nat \ {0} /\ q <= managed.qty /\ managed.qty \in Nat /\ wallet.pos.qty \in Nat
    BY <1>2, SeenIs, ExitQuantityIs DEF Tracks, Wallets, Positions
  <1>5. managed.qty = wallet.pos.qty
    BY DEF StoriesAgree
  <1>6. /\ after \in Wallets /\ after.pos.qty = wallet.pos.qty - q /\ Cleared(after.pos)
        /\ q < wallet.pos.qty => after.pos.entry = wallet.pos.entry
        /\ CashOf(wallet) => CashOf(after)
    BY <1>4, <1>5, SoldIs
  <1> HIDE DEF seen, rule, kept, q, after
  <1>7. CASE /\ wallet' = wallet /\ stored' = stored /\ managed' = kept
             /\ file' \in {kept, file} /\ life' = life
    <2>1. DeskTypes' /\ StoriesAgree' /\ RowsFollow'
      BY <1>2, <1>3, <1>7 DEF StoriesAgree, RowsFollow
    <2>2. /\ Cleared(wallet.pos)' /\ (~averaged => CashOf(wallet))'
          /\ (SlippageWithinTrigger => EvenHeld(managed) /\ EvenHeld(file))'
      BY <1>2, <1>3, <1>7 DEF CashOf, Cleared, EvenHeld
    <2> QED BY <1>3, <1>7, <2>1, <2>2 DEF Moves, ProtectionKept, CashKept
  <1>8. CASE /\ wallet' = after /\ stored' = after
             /\ managed' = AfterExit(kept, q) /\ file' = managed'
             /\ life' = IF q = managed.qty THEN NoLife ELSE life
    <2> DEFINE n == AfterExit(kept, q)
    <2>1. /\ n \in Tracks /\ n.qty = kept.qty - q
          /\ EvenHeld(kept) => EvenHeld(n)
          /\ n.qty > 0 => n.entry = kept.entry /\ n.stop = kept.stop /\ n.moved = kept.moved /\ n.taken
      BY <1>3, <1>4, AfterExitIs
    <2> HIDE DEF n
    <2>2. life' \in Lives /\ (q # managed.qty => life' = life)
      BY <1>8 DEF NoLife, Lives
    <2>3. DeskTypes' /\ RowsFollow'
      BY <1>2, <1>6, <1>8, <2>1, <2>2 DEF RowsFollow, n
    <2>4. StoriesAgree'
      <3>1. n.qty = after.pos.qty
        BY <1>3, <1>5, <1>6, <2>1
      <3>2. n.qty > 0 => q < wallet.pos.qty /\ q # managed.qty
        BY <1>3, <1>4, <1>5, <2>1
      <3>3. managed.entry = wallet.pos.entry /\ life.entry = wallet.pos.entry
        BY <1>2 DEF StoriesAgree
      <3>4. n.qty > 0 => n.entry = after.pos.entry /\ life'.entry = after.pos.entry
        BY <1>3, <1>6, <2>1, <2>2, <3>2, <3>3
      <3>5. managed' = n /\ file' = n /\ wallet' = after
        BY <1>8 DEF n
      <3> QED BY <3>1, <3>4, <3>5 DEF StoriesAgree
    <2>5. /\ Cleared(wallet.pos)' /\ (~averaged => CashOf(wallet))'
          /\ (SlippageWithinTrigger => EvenHeld(managed) /\ EvenHeld(file))'
      BY <1>2, <1>3, <1>6, <1>8, <2>1 DEF CashOf, Cleared, EvenHeld, n
    <2>6. SlippageWithinTrigger => ProtectionKept
      BY <1>3, <1>8, <2>1 DEF ProtectionKept, Tightens, n
    <2> QED BY <1>6, <1>8, <2>3, <2>4, <2>5, <2>6 DEF Moves, CashKept
  <1> QED BY <1>1, <1>7, <1>8 DEF Save, seen, rule, kept, q, after

\* So does a settlement.
LEMMA SettleStep ==
    ASSUME DeskInv, Settle
    PROVE  Moves
  <1> USE DEF DeskInv, DeskTypes
  <1> DEFINE m == Marked(wallet, price)
             after == Sold(m, managed.qty, price)
  <1>1. price' = price /\ averaged' = averaged
    BY DEF Settle
  <1>2. \/ /\ managed.qty > 0 /\ managed.qty <= m.pos.qty
           /\ wallet' = after /\ stored' = after
           /\ managed' = Untracked /\ file' = Untracked /\ life' = NoLife
        \/ wallet' = m /\ stored' = stored /\ UNCHANGED <<managed, file, life>>
        \/ wallet' = m /\ stored' = [stored EXCEPT !.pos.cur = m.pos.cur]
           /\ UNCHANGED <<managed, file, life>>
    BY NotPersistedIs DEF Settle, FillCommitted, Holding
  <1>3. /\ m \in Wallets
        /\ m.cash = wallet.cash /\ m.realized = wallet.realized
        /\ m.trades = wallet.trades /\ m.wins = wallet.wins
        /\ m.pos.qty = wallet.pos.qty /\ m.pos.entry = wallet.pos.entry
        /\ m.pos.charges = wallet.pos.charges
    BY MarkedIs
  <1> HIDE DEF m
  <1>4. CASE /\ managed.qty > 0 /\ managed.qty <= m.pos.qty
             /\ wallet' = after /\ stored' = after
             /\ managed' = Untracked /\ file' = Untracked /\ life' = NoLife
    <2>1. managed.qty \in Nat \ {0} /\ managed.qty = m.pos.qty
      BY <1>3, <1>4 DEF StoriesAgree, Tracks
    <2>2. /\ after \in Wallets /\ after.pos.qty = 0 /\ Cleared(after.pos)
          /\ CashOf(m) => CashOf(after)
      BY <1>3, <1>4, <2>1, SoldIs
    <2>3. Untracked \in Tracks /\ Untracked.qty = 0 /\ ~Untracked.moved /\ NoLife \in Lives
      BY DEF Untracked, Tracks, NoLife, Lives
    <2>4. DeskTypes' /\ StoriesAgree' /\ RowsFollow'
      BY <1>1, <1>4, <2>2, <2>3 DEF StoriesAgree, RowsFollow
    <2>5. /\ Cleared(wallet.pos)' /\ (~averaged => CashOf(wallet))'
          /\ EvenHeld(managed)' /\ EvenHeld(file)'
      BY <1>1, <1>3, <1>4, <2>2, <2>3 DEF CashOf, Cleared, EvenHeld
    <2>6. CashOf(wallet) => CashOf(wallet')
      BY <1>3, <1>4, <2>2 DEF CashOf
    <2> QED BY <1>4, <2>3, <2>4, <2>5, <2>6 DEF Moves, ProtectionKept, CashKept
  <1>5. CASE /\ wallet' = m /\ UNCHANGED <<managed, file, life>>
             /\ stored' \in {stored, [stored EXCEPT !.pos.cur = m.pos.cur]}
    <2>1. /\ stored' \in Wallets
          /\ stored'.cash = stored.cash /\ stored'.realized = stored.realized
          /\ stored'.trades = stored.trades /\ stored'.wins = stored.wins
          /\ stored'.pos.qty = stored.pos.qty /\ stored'.pos.entry = stored.pos.entry
          /\ stored'.pos.charges = stored.pos.charges
      BY <1>3, <1>5 DEF Wallets, Positions
    <2>2. DeskTypes' /\ StoriesAgree' /\ RowsFollow'
      BY <1>1, <1>3, <1>5, <2>1 DEF StoriesAgree, RowsFollow
    <2>3. /\ Cleared(wallet.pos)' /\ (~averaged => CashOf(wallet))'
          /\ (SlippageWithinTrigger => EvenHeld(managed) /\ EvenHeld(file))'
      BY <1>1, <1>3, <1>5 DEF CashOf, Cleared, EvenHeld
    <2>4. CashOf(wallet) => CashOf(wallet')
      BY <1>3, <1>5 DEF CashOf
    <2> QED BY <1>5, <2>2, <2>3, <2>4, Unmoved DEF Moves, CashKept
  <1> QED BY <1>2, <1>4, <1>5

\* So does an add.
LEMMA AverageStep ==
    ASSUME DeskInv, Average
    PROVE  Moves
  <1> USE DEF DeskInv, DeskTypes
  <1> DEFINE q == life.original \div AddDivisor
             fill == FillPrice(price, "BUY")
             after == Bought(wallet, q, price)
             n == AfterAdd(managed, q, fill)
             l == Averaged(life, wallet.pos.qty, q, fill)
  <1>1. /\ price' = price /\ managed.qty > 0 /\ ShouldAdd(life, price)
        /\ \/ /\ wallet' = after /\ stored' = after /\ life' = l
              /\ managed' = n /\ file' = n /\ averaged' = TRUE
           \/ wallet' = wallet /\ stored' = stored /\ UNCHANGED <<life, managed, file, averaged>>
    BY NotPersistedIs DEF Average, FillCommitted, Holding
  <1>2. price \in Nat \ {0}
    BY PaperDeskAssumption
  <1>3. fill \in Nat \ {0}
    BY <1>2, FillIs
  <1>4. q \in Nat \ {0}
    <2>1. AddDivisor \in Nat \ {0} /\ life.original \in Int
      BY PaperDeskAssumption DEF Lives
    <2>2. q \in Int
      BY <2>1, Quotient
    <2> QED BY <1>1, <2>2 DEF ShouldAdd
  <1>5. /\ managed.qty = wallet.pos.qty /\ managed.entry = wallet.pos.entry
        /\ life.entry = wallet.pos.entry
    BY <1>1 DEF StoriesAgree
  <1>6. wallet.pos.qty \in Nat /\ wallet.pos.entry \in Nat /\ life.entry \in Nat /\ life.adds \in Nat
        /\ life.original \in Nat /\ life.stop \in Int /\ life.target \in Int
    BY DEF Wallets, Positions, Lives
  <1> DEFINE e == (wallet.pos.entry * wallet.pos.qty + fill * q) \div (wallet.pos.qty + q)
  <1>7. /\ after \in Wallets /\ after.pos.qty = wallet.pos.qty + q /\ after.pos.entry = e
        /\ after.pos.entry * after.pos.qty = wallet.pos.entry * wallet.pos.qty + fill * q
           /\ CashOf(wallet) => CashOf(after)
    BY <1>4, BoughtIs
  <1>8. /\ n \in Tracks /\ n.qty = wallet.pos.qty + q /\ n.entry = e
        /\ n.stop = managed.stop /\ n.moved = managed.moved /\ n.taken = managed.taken
    <2> HIDE DEF q, fill
    <2>1. /\ n \in Tracks /\ n.qty = managed.qty + q
          /\ n.entry = (managed.entry * managed.qty + fill * q) \div (managed.qty + q)
          /\ n.stop = managed.stop /\ n.moved = managed.moved /\ n.taken = managed.taken
      BY <1>3, <1>4, AfterAddIs
    <2> HIDE DEF n
    <2> QED BY <1>5, <2>1
  <1>9. SlippageWithinTrigger => e <= managed.entry
    <2>1. SUFFICES ASSUME SlippageWithinTrigger PROVE e <= managed.entry
      OBVIOUS
    <2>2. price < wallet.pos.entry /\ (wallet.pos.entry - price) * 100 >= TriggerPct * wallet.pos.entry
      BY <1>1, <1>5 DEF ShouldAdd
    <2>3. fill <= wallet.pos.entry
      BY <1>2, <1>6, <2>1, <2>2, AddIsCheap
    <2> QED BY <1>3, <1>4, <1>5, <1>6, <2>3, MeanIsBelow
  <1>10. e \in Nat
    BY <1>7 DEF Wallets, Positions
  <1>11. l \in Lives /\ l.entry = e
    <2> DEFINE x == [life EXCEPT !.adds = life.adds + 1]
               y == [x EXCEPT !.original = life.original + q]
    <2>1. l = [y EXCEPT !.entry = e]
      BY <1>5 DEF Averaged
    <2>2. x \in Lives
      BY <1>6 DEF Lives
    <2> HIDE DEF x
    <2>3. y \in Lives
      BY <1>4, <1>6, <2>2 DEF Lives
    <2> HIDE DEF y, e, l
    <2>4. [y EXCEPT !.entry = e] \in Lives /\ [y EXCEPT !.entry = e].entry = e
      BY <1>10, <2>3 DEF Lives
    <2> QED BY <2>1, <2>4
  <1> HIDE DEF q, fill, after, n, l, e
  <1>12. CASE /\ wallet' = after /\ stored' = after /\ life' = l
              /\ managed' = n /\ file' = n /\ averaged' = TRUE
    <2>1. DeskTypes' /\ StoriesAgree' /\ RowsFollow'
      BY <1>1, <1>7, <1>8, <1>11, <1>12 DEF StoriesAgree, RowsFollow
    <2>2. Cleared(wallet.pos)'
      BY <1>4, <1>6, <1>7, <1>12 DEF Cleared
    <2>3. SlippageWithinTrigger => EvenHeld(n) /\ Tightens(managed, n)
      <3>1. managed.stop \in Int /\ managed.entry \in Int
        BY DEF Tracks
      <3> QED BY <1>8, <1>9, <1>10, <3>1 DEF EvenHeld, Tightens
    <2>4. CashKept
      <3>1. 0 < wallet.pos.qty /\ wallet.pos.qty < after.pos.qty /\ after.pos.qty - wallet.pos.qty = q
        BY <1>1, <1>4, <1>5, <1>6, <1>7
      <3>2. fill = FillPrice(price, "BUY")
        BY DEF fill
      <3>3. EvenSplit => after.pos.entry * after.pos.qty = wallet.pos.entry * wallet.pos.qty + fill * q
        BY <1>12, <3>1, <3>2 DEF EvenSplit
      <3> QED BY <1>7, <1>12, <3>3 DEF CashKept
    <2> QED BY <1>12, <2>1, <2>2, <2>3, <2>4 DEF Moves, ProtectionKept, EvenHeld
  <1>13. CASE wallet' = wallet /\ stored' = stored /\ UNCHANGED <<life, managed, file, averaged>>
    BY <1>1, <1>13, Unmoved DEF StoriesAgree, RowsFollow, Cleared, EvenHeld, CashOf, Moves, CashKept
  <1> QED BY <1>1, <1>12, <1>13

\* So does a restart.
LEMMA RestartStep ==
    ASSUME DeskInv, Restart
    PROVE  Moves
  <1> USE DEF DeskInv, DeskTypes
  <1>1. /\ wallet' = stored /\ managed' = Restored /\ file' = Restored
        /\ UNCHANGED <<price, stored, life, averaged>>
    BY DEF Restart
  <1>2. stored.pos.qty = managed.qty /\ file.qty = managed.qty /\ managed.qty \in Nat
    BY DEF StoriesAgree, RowsFollow, Tracks
  <1>3. Restored \in {Untracked, file} /\ Restored.qty = managed.qty
        /\ (managed.qty > 0 => Restored = file)
    BY <1>2 DEF Restored, Untracked
  <1>4. Untracked \in Tracks /\ ~Untracked.moved
    BY DEF Untracked, Tracks
  <1>5. DeskTypes' /\ StoriesAgree' /\ RowsFollow'
    BY <1>1, <1>2, <1>3, <1>4 DEF StoriesAgree, RowsFollow
  <1>6. /\ Cleared(wallet.pos)' /\ (~averaged => CashOf(wallet))'
        /\ (SlippageWithinTrigger => EvenHeld(managed) /\ EvenHeld(file))'
    BY <1>1, <1>3, <1>4 DEF CashOf, Cleared, EvenHeld, RowsFollow
  <1>7. SlippageWithinTrigger => ProtectionKept
    <2>1. managed.stop \in Int
      BY DEF Tracks
    <2> QED BY <1>1, <1>3, <2>1 DEF ProtectionKept, Holding, Tightens, EvenHeld
  <1>8. CashOf(wallet) => CashOf(wallet')
    BY <1>1 DEF CashOf, RowsFollow
  <1> QED BY <1>5, <1>6, <1>7, <1>8 DEF Moves, CashKept

\* Every step moves the desk as it may.
LEMMA DeskStep == DeskInv /\ [KNext]_kVars => Moves
  <1> SUFFICES ASSUME DeskInv, [KNext]_kVars PROVE Moves
    OBVIOUS
  <1>1. CASE UNCHANGED kVars \/ Quote \/ NewDay
    <2>1. /\ UNCHANGED <<wallet, stored, managed, file, life, averaged>>
          /\ price' \in Prices
      BY <1>1 DEF kVars, Quote, NewDay, DeskInv, DeskTypes
    <2>2. DeskInv'
      BY <2>1 DEF DeskInv, DeskTypes, StoriesAgree, RowsFollow, Cleared, EvenHeld, CashOf
    <2> QED BY <2>1, <2>2, Unmoved DEF Moves, CashKept
  <1> QED BY <1>1, EnterStep, CheckExitsStep, SettleStep, AverageStep, RestartStep DEF KNext

\* The desk starts in its invariant.
LEMMA DeskInit == KInit => DeskInv
  <1> SUFFICES ASSUME KInit PROVE DeskInv
    OBVIOUS
  <1>1. /\ wallet \in Wallets /\ wallet.pos = NoPosition /\ wallet.cash = InitialBalance
        /\ wallet.realized = 0 /\ InitialBalance \in Nat
    BY PaperDeskAssumption DEF KInit, Wallets, Positions, NoPosition
  <1>2. Untracked \in Tracks /\ NoLife \in Lives
    BY DEF Untracked, Tracks, NoLife, Lives
  <1>3. CashOf(wallet)
    BY <1>1 DEF CashOf, NoPosition
  <1>4. DeskTypes
    BY <1>1, <1>2, PaperDeskAssumption DEF KInit, DeskTypes
  <1> QED BY <1>1, <1>3, <1>4
          DEF KInit, DeskInv, Cleared, EvenHeld, StoriesAgree, RowsFollow, NoPosition, Untracked

\* The inductive invariant of the desk.
THEOREM DeskInvHolds == KSpec => []DeskInv
  BY DeskInit, DeskStep, PTL DEF KSpec, Moves

\* The wallet in memory and its rows say the same of every amount, but for the mark,
\* and the wallet, the ledger and the exit manager agree on the shares and on their
\* average price, through every entry, add, exit, failed commit, lost save and restart
\* (place_order, record_add, apply_add_fill, apply_exit_fill, reconcile).
THEOREM RecordsAgree == KSpec => [](WalletIsDurable /\ BasisAgrees)
  <1>1. DeskInv => BasisAgrees
    BY DEF DeskInv, StoriesAgree, BasisAgrees, Holding
  <1>2. DeskInv => WalletIsDurable
    <2> SUFFICES ASSUME DeskInv PROVE WalletIsDurable
      OBVIOUS
    <2> DEFINE Zeroed(w) == [cash |-> w.cash, realized |-> w.realized, trades |-> w.trades,
                             wins |-> w.wins, pos |-> [qty |-> w.pos.qty, entry |-> w.pos.entry,
                                                       charges |-> w.pos.charges, cur |-> 0]]
    <2>1. ASSUME NEW w \in Wallets
          PROVE  [w EXCEPT !.pos.cur = 0] = Zeroed(w)
      BY DEF Wallets, Positions
    <2>2. Zeroed(wallet) = Zeroed(stored)
      BY DEF DeskInv, RowsFollow
    <2>3. wallet \in Wallets /\ stored \in Wallets
      BY DEF DeskInv, DeskTypes
    <2> HIDE DEF Zeroed
    <2> QED BY <2>1, <2>2, <2>3 DEF WalletIsDurable
  <1> QED BY <1>1, <1>2, DeskInvHolds, PTL

\* No rupee is made or lost: while no position was averaged, whose rounded price the
\* model cannot keep for every price, cash and committed capital are the first balance
\* and what was realised, in memory and in the rows.
THEOREM CashIsConserved == KSpec => [](~averaged => CashConserved)
  <1>1. DeskInv => (~averaged => CashConserved)
    BY DEF DeskInv, RowsFollow, CashOf, CashConserved
  <1> QED BY <1>1, DeskInvHolds, PTL

\* The protection of a position only grows while it is held, as long as the slippage of
\* a fill is no more than the fall that triggers an add: otherwise an add may be filled
\* above the average and lift it over a stop at break-even.
THEOREM ProtectionOnlyGrowsHolds ==
    ASSUME SlippageWithinTrigger
    PROVE  KSpec => ProtectionOnlyGrows
  <1>1. DeskInv /\ [KNext]_kVars =>
            [Holding /\ file = managed /\ managed'.qty > 0 => Tightens(managed, managed')]_kVars
    BY DeskStep, SlippageWithinTrigger DEF Moves, ProtectionKept
  <1> QED BY <1>1, DeskInvHolds, PTL DEF KSpec, ProtectionOnlyGrows

-----------------------------------------------------------------------------
(* The replayed history.                                                   *)

OrderRow == [side : {"BUY", "SELL"}, qty : Nat, price : Nat]
Nothing == [lots |-> <<>>, net |-> 0]
Replayed(s) == FoldLeft(Replay, Nothing, s)

\* What FoldLeft is defined by: g replays, of the rows of s, any set of the first n, the
\* last of them last.
Unrolls(g, s, n) ==
    g = [t \in SUBSET (1..n) |-> IF t = {} THEN Nothing
                                 ELSE LET x == Max(t) IN Replay(g[t \ {x}], s[x])]

\* A number has a least example.
LEMMA LeastExample ==
    ASSUME NEW T \in SUBSET Nat, T # {}
    PROVE  \E n \in T : \A m \in T : n <= m
  <1>1. PICK n \in T : \A m \in T : <<m, n>> \notin OpToRel(<, Nat)
    BY NatLessThanWellFounded, WFMin
  <1>2. \A m \in T : ~(m < n)
    BY <1>1 DEF OpToRel
  <1> QED BY <1>2

\* The last of some rows is the row that is added after them.
LEMMA LastRow ==
    ASSUME NEW n \in Nat \ {0}, NEW t \in SUBSET (1..n), n \in t
    PROVE  Max(t) = n
  <1>1. \A y \in t : n >= y
    OBVIOUS
  <1>2. Max(t) \in t /\ Max(t) >= n
    BY <1>1 DEF Max
  <1> DEFINE x == Max(t)
  <1>3. x \in 1..n /\ x >= n
    BY <1>2
  <1> HIDE DEF x
  <1>4. x = n
    BY <1>3
  <1> QED BY <1>4 DEF x

\* Some rows can be replayed, whatever they are ...
LEMMA ReplayExists ==
    ASSUME NEW s, NEW n \in Nat
    PROVE  \E g : Unrolls(g, s, n)
  <1> DEFINE Bad == {m \in Nat : \A g : ~Unrolls(g, s, m)}
  <1>1. SUFFICES ASSUME Bad # {} PROVE FALSE
    OBVIOUS
  <1>2. PICK m \in Bad : \A k \in Bad : m <= k
    <2>1. Bad \in SUBSET Nat
      OBVIOUS
    <2> HIDE DEF Bad
    <2> QED BY <1>1, <2>1, LeastExample
  <1>3. CASE m = 0
    <2> DEFINE g == [t \in SUBSET (1..m) |-> Nothing]
    <2>1. SUBSET (1..m) = {{}}
      BY <1>3
    <2>2. Unrolls(g, s, m)
      BY <2>1 DEF Unrolls
    <2> QED BY <2>2
  <1>4. CASE m # 0
    <2>1. m - 1 \in Nat /\ m - 1 \notin Bad
      BY <1>2, <1>4
    <2>2. PICK g : Unrolls(g, s, m - 1)
      BY <2>1
    <2> DEFINE h == [t \in SUBSET (1..m) |-> IF m \in t THEN Replay(g[t \ {m}], s[m]) ELSE g[t]]
               F(t) == IF t = {} THEN Nothing ELSE LET x == Max(t) IN Replay(h[t \ {x}], s[x])
    <2>3. ASSUME NEW t \in SUBSET (1..m)
          PROVE  h[t] = F(t)
      <3>1. CASE m \in t
        <4>1. Max(t) = m /\ t \ {m} \in SUBSET (1..m) /\ m \notin t \ {m} /\ t # {}
          BY <1>4, <3>1, LastRow
        <4>2. h[t \ {m}] = g[t \ {m}] /\ h[t] = Replay(g[t \ {m}], s[m])
          BY <3>1, <4>1
        <4> HIDE DEF h
        <4> QED BY <4>1, <4>2
      <3>2. CASE m \notin t
        <4>1. t \in SUBSET (1..(m - 1))
          BY <3>2
        <4>2. g[t] = IF t = {} THEN Nothing ELSE LET x == Max(t) IN Replay(g[t \ {x}], s[x])
          BY <2>2, <4>1 DEF Unrolls
        <4> DEFINE x == Max(t)
        <4>3. h[t] = g[t] /\ h[t \ {x}] = g[t \ {x}]
          BY <3>2
        <4> HIDE DEF h
        <4> QED BY <4>2, <4>3
      <3> QED BY <3>1, <3>2
    <2>4. Unrolls(h, s, m)
      <3>1. h = [t \in SUBSET (1..m) |-> h[t]]
        OBVIOUS
      <3> HIDE DEF h
      <3>2. [t \in SUBSET (1..m) |-> h[t]] = [t \in SUBSET (1..m) |-> F(t)]
        BY <2>3, Zenon
      <3> QED BY <3>1, <3>2 DEF Unrolls
    <2> QED BY <2>4
  <1> QED BY <1>3, <1>4

\* ... and in one way: rows that begin alike replay alike.
LEMMA ReplayUnique ==
    ASSUME NEW s, NEW n \in Nat, NEW g, Unrolls(g, s, n),
           NEW r, NEW m \in Nat, NEW h, Unrolls(h, r, m),
           NEW k \in Nat, k <= n, k <= m, \A i \in 1..k : s[i] = r[i]
    PROVE  g[1..k] = h[1..k]
  <1> DEFINE Bad == {j \in 0..k : g[1..j] # h[1..j]}
  <1>1. SUFFICES ASSUME Bad # {} PROVE FALSE
    OBVIOUS
  <1>2. PICK j \in Bad : \A i \in Bad : j <= i
    <2>1. Bad \in SUBSET Nat
      OBVIOUS
    <2> HIDE DEF Bad
    <2> QED BY <1>1, <2>1, LeastExample
  <1>3. j \in 0..k /\ 1..j \in SUBSET (1..n) /\ 1..j \in SUBSET (1..m)
    BY <1>2
  <1>4. /\ g[1..j] = IF 1..j = {} THEN Nothing ELSE LET x == Max(1..j) IN Replay(g[(1..j) \ {x}], s[x])
        /\ h[1..j] = IF 1..j = {} THEN Nothing ELSE LET x == Max(1..j) IN Replay(h[(1..j) \ {x}], r[x])
    BY <1>3 DEF Unrolls
  <1>5. CASE j = 0
    <2>1. 1..j = {}
      BY <1>5
    <2> QED BY <1>2, <1>4, <2>1
  <1>6. CASE j # 0
    <2>1. 1..j # {} /\ j \in 1..j /\ j \in 1..k /\ (1..j) \ {j} = 1..(j - 1) /\ j - 1 \in 0..k
      BY <1>3, <1>6
    <2>2. Max(1..j) = j
      BY <1>3, <1>6, <2>1, LastRow
    <2>3. g[1..(j - 1)] = h[1..(j - 1)]
      <3>1. j - 1 \notin Bad
        BY <1>2, <1>3
      <3> QED BY <2>1, <3>1
    <2>4. g[1..j] = Replay(g[1..(j - 1)], s[j]) /\ h[1..j] = Replay(h[1..(j - 1)], r[j])
      BY <1>4, <2>1, <2>2
    <2> QED BY <1>2, <2>1, <2>3, <2>4
  <1> QED BY <1>5, <1>6

\* The last row is replayed last.
LEMMA ReplayOneMore ==
    ASSUME NEW s \in Seq(OrderRow), NEW r \in OrderRow
    PROVE  Replayed(<<>>) = Nothing /\ Replayed(Append(s, r)) = Replay(Replayed(s), r)
  <1> DEFINE Way(t, n) == CHOOSE g : Unrolls(g, t, n)
  <1>1. ASSUME NEW t \in Seq(OrderRow)
        PROVE  Replayed(t) = Way(t, Len(t))[1..Len(t)]
    <2>1. DOMAIN t = 1..Len(t)
      OBVIOUS
    <2> QED BY <2>1 DEF Replayed, FoldLeft, MapThenFoldSet, Unrolls
  <1>2. ASSUME NEW t, NEW n \in Nat
        PROVE  Unrolls(Way(t, n), t, n)
    BY ReplayExists
  <1> HIDE DEF Way
  <1>3. Replayed(<<>>) = Nothing
    <2>1. <<>> \in Seq(OrderRow) /\ Len(<<>>) = 0 /\ 1..0 = {} /\ {} \in SUBSET (1..0)
      OBVIOUS
    <2>2. Replayed(<<>>) = Way(<<>>, 0)[{}]
      BY <1>1, <2>1
    <2> DEFINE g == Way(<<>>, 0)
    <2>3. Unrolls(g, <<>>, 0)
      BY <1>2
    <2> HIDE DEF g
    <2>4. g[{}] = Nothing
      BY <2>1, <2>3 DEF Unrolls
    <2> QED BY <2>2, <2>4 DEF g
  <1>4. Replayed(Append(s, r)) = Replay(Replayed(s), r)
    <2> DEFINE n == Len(s)
               t == Append(s, r)
               g == Way(s, n)
               h == Way(t, n + 1)
    <2>1. /\ n \in Nat /\ t \in Seq(OrderRow) /\ Len(t) = n + 1 /\ t[n + 1] = r
          /\ \A i \in 1..n : s[i] = t[i]
      OBVIOUS
    <2>2. Replayed(s) = g[1..n] /\ Replayed(t) = h[1..(n + 1)]
      BY <1>1, <2>1
    <2>3. Unrolls(g, s, n) /\ Unrolls(h, t, n + 1)
      BY <1>2, <2>1
    <2> HIDE DEF n, t, g, h
    <2>4. g[1..n] = h[1..n]
      BY <2>1, <2>3, ReplayUnique
    <2>5. /\ 1..(n + 1) # {} /\ n + 1 \in 1..(n + 1) /\ (1..(n + 1)) \ {n + 1} = 1..n
          /\ 1..(n + 1) \in SUBSET (1..(n + 1)) /\ n + 1 \in Nat \ {0}
      <3>1. n \in Nat
        BY <2>1
      <3>2. n + 1 \in 1..(n + 1) /\ n + 1 \in Nat \ {0}
        BY <3>1
      <3>3. (1..(n + 1)) \ {n + 1} = 1..n
        BY <3>1
      <3>4. 1..(n + 1) # {}
        BY <3>2
      <3> QED BY <3>2, <3>3, <3>4
    <2>6. Max(1..(n + 1)) = n + 1
      BY <2>5, LastRow
    <2>7. h[1..(n + 1)] = Replay(h[1..n], t[n + 1])
      BY <2>3, <2>5, <2>6 DEF Unrolls
    <2> QED BY <2>1, <2>2, <2>4, <2>7 DEF t
  <1> QED BY <1>3, <1>4

\* What the history is of a desk that never averaged: the shares held are one lot, and what
\* was realised is the net result.
LotsOf(pos) ==
    IF pos.qty = 0 THEN <<>>
    ELSE <<[side |-> "BUY", qty |-> pos.qty, entry |-> pos.entry, charges |-> pos.charges]>>
Told(w) == [lots |-> LotsOf(w.pos), net |-> w.realized]

HistoryInv == rows \in Seq(OrderRow) /\ (~averaged => Replayed(rows) = Told(wallet))

\* A purchase of a flat desk opens its lot.
LEMMA PurchaseIsTold ==
    ASSUME NEW w \in Wallets, w.pos.qty = 0, Cleared(w.pos), NEW q \in Nat \ {0}, NEW p \in Prices
    PROVE  Replay(Told(w), [side |-> "BUY", qty |-> q, price |-> FillPrice(p, "BUY")])
               = Told(Bought(w, q, p))
  <1> DEFINE f == FillPrice(p, "BUY")
             row == [side |-> "BUY", qty |-> q, price |-> f]
             b == Bought(w, q, p)
             lot == [side |-> "BUY", qty |-> q, entry |-> f, charges |-> Charges(f * q)]
  <1>1. p \in Nat \ {0}
    BY PaperDeskAssumption
  <1>2. f \in Nat /\ Charges(f * q) \in Int
    <2>1. f \in Nat
      BY <1>1, FillIs
    <2> HIDE DEF f
    <2>2. f * q \in Nat
      BY <2>1
    <2> QED BY <2>1, <2>2, ChargesAreInt
  <1>3. /\ b.pos.qty = w.pos.qty + q /\ b.pos.entry = f /\ b.realized = w.realized
        /\ b.pos.charges = w.pos.charges + Charges(f * q)
    BY BoughtIs
  <1> HIDE DEF f, b
  <1>4. b.pos.qty = q /\ b.pos.charges = Charges(f * q)
    BY <1>2, <1>3 DEF Cleared
  <1>5. Told(b) = [lots |-> <<lot>>, net |-> w.realized]
    BY <1>3, <1>4 DEF Told, LotsOf
  <1>6. Told(w) = [lots |-> <<>>, net |-> w.realized]
    BY DEF Told, LotsOf
  <1> DEFINE acc == [lots |-> <<>>, net |-> w.realized]
  <1>7. SelectInSeq(acc.lots, LAMBDA l : l.side # row.side) = 0
    BY DEF SelectInSeq
  <1>8. Replay(acc, row) = [acc EXCEPT !.lots = Append(acc.lots, LotOf(row, row.qty))]
    BY <1>7 DEF Replay
  <1>9. LotOf(row, row.qty) = lot
    BY DEF LotOf
  <1> HIDE DEF lot
  <1>10. [acc EXCEPT !.lots = Append(acc.lots, lot)] = [lots |-> <<lot>>, net |-> w.realized]
    OBVIOUS
  <1> QED BY <1>5, <1>6, <1>8, <1>9, <1>10 DEF f, b

\* A sale closes as much of it, with the result the wallet books.
LEMMA SaleIsTold ==
    ASSUME NEW w \in Wallets, NEW q \in Nat \ {0}, q <= w.pos.qty, NEW p \in Prices
    PROVE  Replay(Told(w), [side |-> "SELL", qty |-> q, price |-> FillPrice(p, "SELL")])
               = Told(Sold(w, q, p))
  <1> DEFINE f == FillPrice(p, "SELL")
             row == [side |-> "SELL", qty |-> q, price |-> f]
             s == Sold(w, q, p)
             lot == [side |-> "BUY", qty |-> w.pos.qty, entry |-> w.pos.entry,
                     charges |-> w.pos.charges]
             acc == [lots |-> <<lot>>, net |-> w.realized]
             left == IF q >= w.pos.qty THEN <<>>
                     ELSE <<[side |-> "BUY", qty |-> w.pos.qty - q, entry |-> w.pos.entry,
                             charges |-> w.pos.charges - Prorata(w.pos, q)]>>
  <1>1. w.pos \in Positions /\ w.pos.qty \in Nat \ {0} /\ w.realized \in Int
    BY DEF Wallets, Positions
  <1>2. s.realized = w.realized + ExitResult(w, q, p) /\ s.pos = Reduced(w.pos, q)
    BY SoldIs
  <1>3. Told(w) = acc
    BY <1>1 DEF Told, LotsOf
  <1>4. LotsOf(Reduced(w.pos, q)) = left
    <2>1. CASE q >= w.pos.qty
      BY <2>1 DEF Reduced, LotsOf, NoPosition
    <2>2. CASE ~(q >= w.pos.qty)
      <3> DEFINE g == Prorata(w.pos, q)
                 r == Reduced(w.pos, q)
      <3>1. r.qty = w.pos.qty - q /\ r.entry = w.pos.entry /\ r.charges = w.pos.charges - g
        BY <1>1, <2>2, ReducedIs
      <3> HIDE DEF g, r
      <3>2. r.qty # 0
        BY <1>1, <2>2, <3>1
      <3>3. LotsOf(r) = <<[side |-> "BUY", qty |-> w.pos.qty - q, entry |-> w.pos.entry,
                           charges |-> w.pos.charges - g]>>
        BY <3>1, <3>2 DEF LotsOf
      <3> QED BY <2>2, <3>3 DEF g, r
    <2> QED BY <2>1, <2>2
  <1>5. SelectInSeq(acc.lots, LAMBDA l : l.side # row.side) = 1
    <2>1. {i \in 1..Len(acc.lots) : acc.lots[i].side # row.side} = {1}
      OBVIOUS
    <2>2. Min({1}) = 1
      BY DEF Min
    <2> QED BY <2>1, <2>2 DEF SelectInSeq
  <1>6. acc.lots[1] = lot /\ Smaller(row.qty, lot.qty) = q /\ row.qty = q /\ lot.side = "BUY"
    BY <1>1 DEF Smaller
  <1>7. Prorata(lot, q) = Prorata(w.pos, q)
    BY DEF Prorata
  <1>8. (row.price - lot.entry) * q - Prorata(lot, q) - Charges(row.price * q) = ExitResult(w, q, p)
    BY <1>7 DEF ExitResult
  <1>9. (IF q >= lot.qty THEN RemoveAt(acc.lots, 1)
         ELSE [acc.lots EXCEPT ![1].qty = @ - q, ![1].charges = @ - Prorata(lot, q)]) = left
    <2>1. RemoveAt(<<lot>>, 1) = <<>>
      BY DEF RemoveAt
    <2> DEFINE g == Prorata(lot, q)
    <2> HIDE DEF g
    <2> DEFINE x == [<<lot>> EXCEPT ![1].qty = w.pos.qty - q]
               y == <<[side |-> "BUY", qty |-> w.pos.qty - q, entry |-> w.pos.entry,
                       charges |-> w.pos.charges - g]>>
    <2>2. x = <<[side |-> "BUY", qty |-> w.pos.qty - q, entry |-> w.pos.entry,
                 charges |-> w.pos.charges]>>
      OBVIOUS
    <2> HIDE DEF x
    <2>3. [x EXCEPT ![1].charges = @ - g] = y
      BY <2>2
    <2>4. [<<lot>> EXCEPT ![1].qty = @ - q, ![1].charges = @ - g] = [x EXCEPT ![1].charges = @ - g]
      BY DEF x
    <2> HIDE DEF y
    <2>5. [<<lot>> EXCEPT ![1].qty = @ - q, ![1].charges = @ - g] = y
      BY <2>3, <2>4
    <2> QED BY <1>7, <2>1, <2>5 DEF g, y
  <1> HIDE DEF left
  <1>10. Replay(acc, row) = [lots |-> left, net |-> acc.net + ExitResult(w, q, p)]
    <2>1. Replay(acc, row) = CloseLot(acc, row, 1)
      BY <1>5 DEF Replay
    <2>2. ~(row.qty > q)
      BY <1>6
    <2> HIDE DEF row, lot, acc
    <2>3. CloseLot(acc, row, 1) = [lots |-> left, net |-> acc.net + ExitResult(w, q, p)]
      BY <1>6, <1>8, <1>9, <2>2 DEF CloseLot
    <2> QED BY <2>1, <2>3
  <1>11. Told(s) = [lots |-> left, net |-> w.realized + ExitResult(w, q, p)]
    BY <1>2, <1>4 DEF Told
  <1> HIDE DEF s
  <1> QED BY <1>3, <1>10, <1>11 DEF s

\* Nothing a step does makes the history tell something else.
LEMMA HistoryStays ==
    ASSUME HistoryInv, rows' = rows, averaged' = averaged, wallet'.realized = wallet.realized,
           wallet'.pos.qty = wallet.pos.qty, wallet'.pos.entry = wallet.pos.entry,
           wallet'.pos.charges = wallet.pos.charges
    PROVE  HistoryInv'
  BY DEF HistoryInv, Replayed, Told, LotsOf

\* A committed sale is told.
LEMMA SaleStep ==
    ASSUME HistoryInv, averaged' = averaged, NEW w \in Wallets, Told(w) = Told(wallet),
           NEW q \in Nat \ {0}, q <= w.pos.qty, price \in Prices,
           FillCommitted(w, Sold(w, q, price), "SELL", q, price)
    PROVE  HistoryInv'
  <1> DEFINE row == [side |-> "SELL", qty |-> q, price |-> FillPrice(price, "SELL")]
  <1>1. row \in OrderRow
    <2>1. price \in Nat \ {0}
      BY PaperDeskAssumption
    <2>2. FillPrice(price, "SELL") \in Nat
      BY <2>1, FillIs
    <2> QED BY <2>2 DEF OrderRow
  <1>2. rows' = Append(rows, row) /\ wallet' = Sold(w, q, price)
    BY DEF FillCommitted
  <1>3. Replay(Told(w), row) = Told(Sold(w, q, price))
    BY SaleIsTold
  <1> HIDE DEF row
  <1>4. Replayed(rows') = Replay(Replayed(rows), row) /\ rows' \in Seq(OrderRow)
    BY <1>1, <1>2, ReplayOneMore DEF HistoryInv
  <1> QED BY <1>2, <1>3, <1>4 DEF HistoryInv, Replayed, Told

\* Every step of a desk keeps its history.
LEMMA HistoryStep ==
    ASSUME DeskInv, HistoryInv, [KNext]_kVars
    PROVE  HistoryInv'
  <1> USE DEF DeskInv, DeskTypes
  <1>1. CASE Quote \/ NewDay \/ UNCHANGED kVars
    BY <1>1, HistoryStays DEF Quote, NewDay, kVars
  <1>2. CASE Enter
    <2>1. PICK rate \in WinRates :
             LET q == Size(Equity(wallet), FillPrice(price, "BUY"), price - StopGap, price + TargetGap, rate)
             IN  /\ q > 0
                 /\ \/ FillCommitted(wallet, Bought(wallet, q, price), "BUY", q, price)
                    \/ wallet' = wallet /\ rows' = rows
      BY <1>2 DEF Enter, OrderWithinRisk, NotPersisted, RolledBack
    <2> DEFINE fill == FillPrice(price, "BUY")
               q == Size(Equity(wallet), fill, price - StopGap, price + TargetGap, rate)
               row == [side |-> "BUY", qty |-> q, price |-> fill]
    <2>2. wallet.pos.qty = 0 /\ averaged' = averaged
      BY <1>2 DEF Enter
    <2>3. q \in Nat \ {0} /\ fill \in Nat
      <3>1. price \in Nat \ {0} /\ StopGap \in Nat /\ TargetGap \in Nat
        BY PaperDeskAssumption
      <3>2. fill \in Nat \ {0} /\ price - StopGap \in Int /\ price + TargetGap \in Int
        BY <3>1, FillIs
      <3>3. Equity(wallet) \in Int
        BY EquityIsInt
      <3> HIDE DEF fill
      <3>4. q \in Int
        BY <3>2, <3>3, SizeIsInt
      <3> QED BY <2>1, <3>2, <3>4 DEF fill
    <2>4. CASE FillCommitted(wallet, Bought(wallet, q, price), "BUY", q, price)
      <3>1. rows' = Append(rows, row) /\ wallet' = Bought(wallet, q, price)
        BY <2>4 DEF FillCommitted
      <3> HIDE DEF q
      <3>2. Replay(Told(wallet), row) = Told(Bought(wallet, q, price))
        BY <2>2, <2>3, PurchaseIsTold
      <3>3. row \in OrderRow
        BY <2>3 DEF OrderRow
      <3> HIDE DEF row
      <3>4. Replayed(rows') = Replay(Replayed(rows), row) /\ rows' \in Seq(OrderRow)
        BY <3>1, <3>3, ReplayOneMore DEF HistoryInv
      <3> QED BY <2>2, <3>1, <3>2, <3>4 DEF HistoryInv, Replayed, Told
    <2>5. CASE wallet' = wallet /\ rows' = rows
      BY <2>2, <2>5, HistoryStays
    <2> QED BY <2>1, <2>4, <2>5
  <1>3. CASE CheckExits
    <2>1. PICK atr \in AtrDistances, clock \in BOOLEAN :
             LET q == ExitQuantity(Seen(managed, price), Rule(Seen(managed, price), price, atr, clock))
             IN  \/ wallet' = wallet /\ rows' = rows
                 \/ ~(q > wallet.pos.qty) /\ FillCommitted(wallet, Sold(wallet, q, price), "SELL", q, price)
      BY <1>3 DEF CheckExits, NotPersisted, RolledBack
    <2> DEFINE q == ExitQuantity(Seen(managed, price), Rule(Seen(managed, price), price, atr, clock))
    <2>2. q \in Nat \ {0} /\ wallet.pos.qty \in Nat /\ averaged' = averaged
      <3>1. Seen(managed, price) \in Tracks /\ Seen(managed, price).qty > 0
        BY <1>3, SeenIs DEF CheckExits, Holding
      <3> QED BY <1>3, <3>1, ExitQuantityIs DEF CheckExits, Wallets, Positions
    <2>3. CASE wallet' = wallet /\ rows' = rows
      BY <2>2, <2>3, HistoryStays
    <2> HIDE DEF q
    <2>4. CASE ~(q > wallet.pos.qty) /\ FillCommitted(wallet, Sold(wallet, q, price), "SELL", q, price)
      <3>1. q <= wallet.pos.qty
        BY <2>2, <2>4
      <3> QED BY <2>2, <2>4, <3>1, SaleStep
    <2> QED BY <2>1, <2>3, <2>4 DEF q
  <1>4. CASE Settle
    <2> DEFINE m == Marked(wallet, price)
               q == managed.qty
    <2>1. /\ averaged' = averaged
          /\ \/ q > 0 /\ q <= m.pos.qty /\ FillCommitted(m, Sold(m, q, price), "SELL", q, price)
             \/ wallet' = m /\ rows' = rows
      BY <1>4 DEF Settle, NotPersisted, RolledBack, Holding
    <2>2. /\ m \in Wallets /\ m.realized = wallet.realized /\ m.pos.qty = wallet.pos.qty
          /\ m.pos.entry = wallet.pos.entry /\ m.pos.charges = wallet.pos.charges
      BY MarkedIs
    <2> HIDE DEF m
    <2>3. CASE wallet' = m /\ rows' = rows
      BY <2>1, <2>2, <2>3, HistoryStays
    <2>4. CASE q > 0 /\ q <= m.pos.qty /\ FillCommitted(m, Sold(m, q, price), "SELL", q, price)
      <3>1. Told(m) = Told(wallet)
        BY <2>2 DEF Told, LotsOf
      <3>2. q \in Nat \ {0}
        BY <2>4 DEF Tracks
      <3> HIDE DEF q
      <3> QED BY <2>1, <2>2, <2>4, <3>1, <3>2, SaleStep
    <2> QED BY <2>1, <2>3, <2>4
  <1>5. CASE Average
    <2> DEFINE q == life.original \div AddDivisor
    <2>1. \/ FillCommitted(wallet, Bought(wallet, q, price), "BUY", q, price) /\ averaged' = TRUE
          \/ wallet' = wallet /\ rows' = rows /\ averaged' = averaged
      BY <1>5 DEF Average, NotPersisted, RolledBack
    <2>2. q \in Nat /\ FillPrice(price, "BUY") \in Nat
      <3>1. AddDivisor \in Nat \ {0} /\ life.original \in Int /\ price \in Nat \ {0}
        BY PaperDeskAssumption DEF Lives
      <3>2. q \in Int
        BY <3>1, Quotient
      <3>3. q > 0
        BY <1>5 DEF Average, ShouldAdd
      <3> QED BY <3>1, <3>2, <3>3, FillIs
    <2> HIDE DEF q
    <2>3. [side |-> "BUY", qty |-> q, price |-> FillPrice(price, "BUY")] \in OrderRow
      BY <2>2 DEF OrderRow
    <2>4. CASE FillCommitted(wallet, Bought(wallet, q, price), "BUY", q, price) /\ averaged' = TRUE
      BY <2>3, <2>4 DEF FillCommitted, HistoryInv
    <2>5. CASE wallet' = wallet /\ rows' = rows /\ averaged' = averaged
      BY <2>5, HistoryStays
    <2> QED BY <2>1, <2>4, <2>5
  <1>6. CASE Restart
    BY <1>6, HistoryStays DEF Restart, RowsFollow
  <1> QED BY <1>1, <1>2, <1>3, <1>4, <1>5, <1>6 DEF KNext

\* The desk's records of one position and its money are the same story: cash, rows, the
\* three average prices, and the history replayed from the order rows of a desk that never
\* averaged, for any prices, sizes and costs and through every failed commit, lost save and
\* restart; as long as the shares of an add share its price without a remainder, since the
\* integers of the model cannot keep the fractions the code keeps.
THEOREM MoneyAddsUpHolds == KSpec /\ [][EvenSplit]_kVars => []MoneyAddsUp
  <1>1. KInit => HistoryInv /\ CashOf(wallet)
    <2> SUFFICES ASSUME KInit PROVE HistoryInv /\ CashOf(wallet)
      OBVIOUS
    <2>1. /\ rows = <<>> /\ wallet.realized = 0 /\ wallet.pos = NoPosition
          /\ wallet.cash = InitialBalance /\ InitialBalance \in Nat
      BY PaperDeskAssumption DEF KInit
    <2>2. Replayed(rows) = Told(wallet)
      <3>1. [side |-> "BUY", qty |-> 0, price |-> 0] \in OrderRow /\ <<>> \in Seq(OrderRow)
        BY DEF OrderRow
      <3>2. Replayed(<<>>) = Nothing
        BY <3>1, ReplayOneMore
      <3>3. Told(wallet) = Nothing
        BY <2>1 DEF Told, LotsOf, Nothing, NoPosition
      <3> QED BY <2>1, <3>2, <3>3
    <2>3. CashOf(wallet)
      BY <2>1 DEF CashOf, NoPosition
    <2> QED BY <2>1, <2>2, <2>3 DEF HistoryInv
  <1>2. DeskInv /\ CashOf(wallet) /\ [KNext]_kVars /\ [EvenSplit]_kVars => CashOf(wallet)'
    <2> SUFFICES ASSUME DeskInv, CashOf(wallet), [KNext]_kVars, [EvenSplit]_kVars
                 PROVE  CashOf(wallet')
      BY DEF CashOf
    <2>1. CASE EvenSplit
      BY <2>1, DeskStep DEF Moves, CashKept
    <2>2. CASE UNCHANGED kVars
      BY <2>2 DEF kVars, CashOf
    <2> QED BY <2>1, <2>2
  <1>3. DeskInv /\ CashOf(wallet) /\ HistoryInv => CashConserved /\ HistoryAddsUp
    <2>1. DeskInv /\ CashOf(wallet) => CashConserved
      BY DEF DeskInv, RowsFollow, CashOf, CashConserved
    <2>2. HistoryInv => HistoryAddsUp
      BY DEF HistoryInv, HistoryAddsUp, History, Replayed, Nothing, Told
    <2> QED BY <2>1, <2>2
  <1>4. DeskInv /\ HistoryInv /\ [KNext]_kVars => HistoryInv'
    BY HistoryStep
  <1> QED
    BY <1>1, <1>2, <1>3, <1>4, DeskInvHolds, RecordsAgree, PTL DEF KSpec, MoneyAddsUp
=============================================================================
