----------------------------- MODULE FeedProofs -----------------------------
(***************************************************************************)
(* What a worker may believe of the data it is fed, for every value of the *)
(* constants and any number of faults: the NSE worker's prices             *)
(* (MarketFeed), the Forex worker's connection (OandaConnection) and the   *)
(* daily bars of a symbol (DailyHistory).                                  *)
(***************************************************************************)
EXTENDS MarketFeed, OandaConnection, DailyHistory, FiniteSetTheorems, TLAPS

-----------------------------------------------------------------------------
(* The prices of the NSE worker.                                           *)

Quotes == [price : Prices, at : Nat, basis : Nat]
Polls == {"idle", "fetch", "publish", "gate", "review", "refetch", "republish", "reread", "execute"}
Chosen == {"review", "refetch", "republish", "reread", "execute"}
Board == [Symbols -> Quotes \cup {None}]

FeedTypes ==
    /\ mode \in {"market", "mock"}
    /\ now \in Nat /\ today \in Nat
    /\ tape \in [Symbols -> [price : Prices, at : Nat]]
    /\ DOMAIN rest = {"built", "token", "closes"}
    /\ rest.closes.day \in Nat /\ closesFile.day \in Nat
    /\ quotes \in Board
    /\ cycle \in [at : Polls, candidate : Symbols \cup {None}, quote : Quotes \cup {None},
                  answer : Board]

\* The simulator is never the source of a market run, and a candidate is under way from
\* its review to its execution.
FeedInv ==
    /\ FeedTypes
    /\ mode = "market" => source # "simulated"
    /\ cycle.at \in Chosen => cycle.candidate \in Symbols

\* Nothing quoted is a board of quotes.
LEMMA NoQuotesIs == NoQuotes \in Board
  BY DEF NoQuotes, Board

\* No cycle is a cycle.
LEMMA IdleIs == Idle \in [at : Polls, candidate : Symbols \cup {None}, quote : Quotes \cup {None},
                          answer : Board] /\ Idle.at = "idle"
  BY NoQuotesIs DEF Idle, Polls

\* The manager starts in the invariant.
LEMMA FeedInit == FInit => FeedInv
  <1> SUFFICES ASSUME FInit PROVE FeedInv
    OBVIOUS
  <1>1. tape \in [Symbols -> [price : Prices, at : Nat]]
    BY DEF FInit, Prices
  <1>2. DOMAIN rest = {"built", "token", "closes"} /\ rest.closes.day \in Nat /\ closesFile.day \in Nat
    BY DEF FInit, NoFeed, NoCloses
  <1>3. cycle = Idle /\ quotes = NoQuotes /\ mode \in {"market", "mock"} /\ now = 1 /\ today = 1
        /\ source = "market_closed"
    BY DEF FInit
  <1> QED BY <1>1, <1>2, <1>3, IdleIs, NoQuotesIs DEF FeedInv, FeedTypes, Chosen

\* The steps that leave the board and the cycle alone.
LEMMA WorldStep ==
    ASSUME FeedInv, World \/ ManagePosition \/ SocketCloses \/ SocketFails \/ UNCHANGED fVars
    PROVE  FeedInv'
  <1> USE DEF FeedInv
  <1>1. /\ UNCHANGED <<mode, closesFile>>
        /\ cycle' \in {cycle, Idle} /\ rest' \in {rest, NoFeed} /\ quotes' \in {quotes, NoQuotes}
        /\ source' = source \/ source' # "simulated"
    <2>1. CASE ManagePosition \/ UNCHANGED fVars
      BY <2>1 DEF ManagePosition, fVars, outside, fixed, disk, worker, manager
    <2>2. CASE SocketCloses \/ SocketFails
      BY <2>2 DEF SocketCloses, SocketFails, outside, fixed, disk, manager, Clear
    <2>3. CASE Session \/ Crash
      BY <2>3 DEF Session, Crash, outside, fixed, disk, worker, manager, Clear
    <2>4. CASE \E s \in Symbols, price \in Prices : Trade(s, price)
      BY <2>4 DEF Trade, fixed, disk, worker, manager
    <2>5. CASE \E traded \in {{}, Symbols} : Tick(traded)
      BY <2>5 DEF Tick, fixed, disk, worker, manager
    <2> QED BY <2>1, <2>2, <2>3, <2>4, <2>5 DEF World
  <1>2. now' \in Nat /\ today' \in Nat
    BY DEF World, ManagePosition, SocketCloses, SocketFails, fVars, Trade, Tick, Session, Crash, outside,
           exchange, FeedTypes
  <1>3. tape' \in [Symbols -> [price : Prices, at : Nat]]
    <2>1. CASE UNCHANGED tape
      BY <2>1 DEF FeedTypes
    <2>2. CASE \E s \in Symbols, price \in Prices : Trade(s, price)
      BY <2>2 DEF Trade, FeedTypes
    <2>3. CASE \E traded \in {{}, Symbols} : Tick(traded)
      BY <2>3 DEF Tick, FeedTypes
    <2> QED BY <2>1, <2>2, <2>3 DEF World, ManagePosition, SocketCloses, SocketFails, fVars, Session, Crash,
               outside, exchange
  <1>4. DOMAIN rest' = {"built", "token", "closes"} /\ rest'.closes.day \in Nat /\ closesFile'.day \in Nat
    BY <1>1 DEF FeedTypes, NoFeed, NoCloses
  <1> QED BY <1>1, <1>2, <1>3, <1>4, IdleIs, NoQuotesIs DEF FeedTypes, Chosen

\* A start of the streaming keeps the invariant.
LEMMA StartStep ==
    ASSUME FeedInv, Start
    PROVE  FeedInv'
  <1> USE DEF FeedInv
  <1>1. CASE StartMock
    <2>1. /\ tape' = [s \in Symbols |-> [price |-> "fair", at |-> now]]
          /\ quotes' = [s \in Symbols |-> [price |-> "fair", at |-> now, basis |-> today]]
          /\ UNCHANGED <<mode, now, today, rest, closesFile, cycle>> /\ mode = "mock"
      BY <1>1 DEF StartMock, Simulate, SimulatedQuotes, fixed, disk
    <2>2. tape' \in [Symbols -> [price : Prices, at : Nat]] /\ quotes' \in Board
      BY <2>1 DEF FeedTypes, Prices, Board, Quotes
    <2> QED BY <2>1, <2>2 DEF FeedTypes
  <1>2. CASE \E reachable \in BOOLEAN : StartSocket(reachable)
    BY <1>2 DEF StartSocket, fixed, exchange, FeedTypes
  <1>3. CASE \E reachable \in BOOLEAN : StartPolling(reachable)
    <2>1. cycle' \in {cycle, [Idle EXCEPT !.at = "fetch"]} /\ quotes' = NoQuotes /\ source' # "simulated"
          /\ UNCHANGED <<mode, now, today, tape, rest, closesFile>>
      BY <1>3 DEF StartPolling, outside, fixed, exchange, disk, Clear
    <2>2. [Idle EXCEPT !.at = "fetch"] \in [at : Polls, candidate : Symbols \cup {None},
                                            quote : Quotes \cup {None}, answer : Board]
          /\ [Idle EXCEPT !.at = "fetch"].at = "fetch"
      BY IdleIs DEF Polls
    <2> QED BY <2>1, <2>2, NoQuotesIs DEF FeedTypes, Chosen
  <1> QED BY <1>1, <1>2, <1>3 DEF Start

\* What an answer holds: a price of the tape, its time and the day of a close.
LEMMA ClosesAre ==
    ASSUME FeedTypes, NEW fetched
    PROVE  Closes(fetched).day = today /\ today \in Nat
  BY DEF Closes, Remembered, FeedTypes

\* An answered poll keeps it, and every close it is based on is of this process or of today.
LEMMA AnswerStep ==
    ASSUME FeedInv, NEW fetched, NEW present, NEW stamped, PollAnswered(fetched, present, stamped)
    PROVE  FeedInv' /\ \A s \in Answered' : cycle'.answer[s].basis \in {0, today}
  <1> USE DEF FeedInv
  <1> DEFINE answer == [s \in Symbols |-> IF s \in present
                                          THEN Parsed(s, s \in stamped, Closes(fetched)) ELSE None]
  <1>1. /\ cycle' = [cycle EXCEPT !.answer = answer,
                                  !.at = IF @ = "fetch" THEN "publish" ELSE "republish"]
        /\ cycle.at \in {"fetch", "refetch"}
        /\ rest' = [rest EXCEPT !.closes = Closes(fetched)]
        /\ closesFile' \in {closesFile, Closes(fetched)}
        /\ UNCHANGED <<mode, now, today, tape, source, quotes>>
    BY DEF PollAnswered, EnsureCloses, fixed, exchange
  <1>2. \A s \in Symbols : LET q == Parsed(s, s \in stamped, Closes(fetched))
                           IN q \in Quotes /\ q.basis \in {0, today}
    <2>1. \A s \in Symbols : tape[s].price \in Prices /\ tape[s].at \in Nat
      BY DEF FeedTypes
    <2> QED BY <2>1, ClosesAre DEF Parsed, Quotes
  <1>3. answer \in Board /\ \A s \in Symbols : answer[s] # None => answer[s].basis \in {0, today}
    BY <1>2 DEF Board
  <1> HIDE DEF answer
  <1>4. /\ cycle' \in [at : Polls, candidate : Symbols \cup {None}, quote : Quotes \cup {None}, answer : Board]
        /\ cycle'.answer = answer /\ cycle'.candidate = cycle.candidate
        /\ cycle'.at \in Chosen => cycle.at \in Chosen
    BY <1>1, <1>3 DEF FeedTypes, Polls, Chosen
  <1>5. DOMAIN rest' = {"built", "token", "closes"} /\ rest'.closes.day \in Nat /\ closesFile'.day \in Nat
    BY <1>1, ClosesAre DEF FeedTypes
  <1>6. FeedInv'
    BY <1>1, <1>4, <1>5 DEF FeedTypes
  <1>7. \A s \in Answered' : s \in Symbols /\ answer[s] # None
    BY <1>4 DEF Answered
  <1> QED BY <1>3, <1>4, <1>6, <1>7

\* So do the other ends of a poll.
LEMMA PollStep ==
    ASSUME FeedInv, BuildFeed \/ PollPublished \/ PollFailed \/ PollClosed
    PROVE  FeedInv'
  <1> USE DEF FeedInv
  <1>1. CASE BuildFeed
    <2>1. rest'.closes = rest.closes /\ DOMAIN rest' = DOMAIN rest
      BY <1>1 DEF BuildFeed, FeedTypes
    <2>2. UNCHANGED <<mode, now, today, tape, closesFile, quotes, source, cycle>>
      BY <1>1 DEF BuildFeed, fixed, exchange, manager
    <2> QED BY <2>1, <2>2 DEF FeedTypes
  <1>2. CASE PollPublished \/ PollFailed \/ PollClosed
    <2>1. /\ quotes' \in {cycle.answer, NoQuotes} /\ source' # "simulated"
          /\ cycle' = [cycle EXCEPT !.at = AfterPoll(cycle.at), !.answer = NoQuotes]
          /\ cycle.at \in {"fetch", "refetch", "publish", "republish"}
          /\ UNCHANGED <<mode, now, today, tape, rest, closesFile>>
      BY <1>2 DEF PollPublished, PollFailed, PollClosed, Continue, Clear, outside, fixed, exchange, disk, worker
    <2>2. /\ cycle' \in [at : Polls, candidate : Symbols \cup {None}, quote : Quotes \cup {None}, answer : Board]
          /\ cycle'.candidate = cycle.candidate
          /\ cycle'.at \in Chosen => cycle.at \in Chosen
      <3>1. AfterPoll(cycle.at) \in Polls /\ (AfterPoll(cycle.at) \in Chosen => cycle.at \in Chosen)
        BY DEF AfterPoll, Polls, Chosen
      <3> QED BY <2>1, <3>1, NoQuotesIs DEF FeedTypes
    <2>3. quotes' \in Board
      BY <2>1, NoQuotesIs DEF FeedTypes
    <2> QED BY <2>1, <2>2, <2>3 DEF FeedTypes
  <1> QED BY <1>1, <1>2

\* So does a packet of the socket.
LEMMA PacketStep ==
    ASSUME FeedInv, NEW s \in Symbols, Packet(s)
    PROVE  FeedInv'
  <1>1. PacketQuote(s) \in Quotes
    BY DEF PacketQuote, Quotes, FeedInv, FeedTypes
  <1> QED BY <1>1 DEF Packet, FeedInv, FeedTypes, Board, outside, fixed, exchange, disk, worker

\* So does a cycle that reads the feed.
LEMMA CycleStep ==
    ASSUME FeedInv, Cycle
    PROVE  FeedInv'
  <1> USE DEF FeedInv
  <1> DEFINE Shapes == [at : Polls, candidate : Symbols \cup {None}, quote : Quotes \cup {None}, answer : Board]
  <1>1. CASE \E price \in [Symbols -> Prices] : WakeMock(price)
    <2>1. PICK price \in [Symbols -> Prices] : WakeMock(price)
      BY <1>1
    <2>2. /\ tape' = [s \in Symbols |-> [price |-> price[s], at |-> now]]
          /\ quotes' = [s \in Symbols |-> [price |-> price[s], at |-> now, basis |-> today]]
          /\ UNCHANGED <<mode, now, today, rest, closesFile>> /\ mode = "mock"
          /\ cycle' = [Idle EXCEPT !.at = "gate"]
      BY <2>1 DEF WakeMock, Simulate, SimulatedQuotes, fixed, disk, worker
    <2>3. tape' \in [Symbols -> [price : Prices, at : Nat]] /\ quotes' \in Board
      BY <2>2 DEF FeedTypes, Board, Quotes
    <2>4. cycle' \in Shapes /\ cycle'.at = "gate"
      BY <2>2, IdleIs DEF Polls
    <2> QED BY <2>2, <2>3, <2>4 DEF FeedTypes, Chosen
  <1>2. ASSUME Wake \/ PickNone \/ Reviewed \/ Reread \/ Execute \/ \E s \in Symbols : Pick(s)
        PROVE  FeedInv'
    <2>1. UNCHANGED <<mode, now, today, tape, rest, closesFile, quotes, source>>
      BY <1>2 DEF Wake, PickNone, Reviewed, Reread, Execute, Pick, outside, fixed, exchange, disk, worker, manager
    <2>2. cycle' \in Shapes /\ (cycle'.at \in Chosen => cycle'.candidate \in Symbols)
      <3>1. cycle \in Shapes /\ (cycle.at \in Chosen => cycle.candidate \in Symbols)
            /\ quotes \in [Symbols -> Quotes \cup {None}]
        BY DEF FeedTypes, Board
      <3>2. Idle \in Shapes /\ Idle.at = "idle"
        BY IdleIs
      <3> HIDE DEF FeedInv
      <3>3. CASE Wake
        BY <3>2, <3>3 DEF Wake, Polls, Chosen
      <3>4. CASE PickNone \/ Execute
        BY <3>2, <3>4 DEF PickNone, Execute, Chosen
      <3>5. CASE Reviewed
        BY <3>1, <3>2, <3>5 DEF Reviewed, Polls, Chosen
      <3>6. CASE Reread
        BY <3>1, <3>2, <3>6 DEF Reread, Polls, Chosen
      <3>7. CASE \E s \in Symbols : Pick(s)
        BY <3>1, <3>7 DEF Pick, Polls, Chosen, Quoted
      <3> QED BY <1>2, <3>3, <3>4, <3>5, <3>6, <3>7
    <2> QED BY <2>1, <2>2 DEF FeedTypes
  <1> QED BY <1>1, <1>2 DEF Cycle

\* Every step of the manager keeps its invariant.
LEMMA FeedStep == FeedInv /\ [FNext]_fVars => FeedInv'
  BY WorldStep, StartStep, AnswerStep, PollStep, PacketStep, CycleStep DEF FNext, Poll

\* The invariant of the manager holds: in market mode the source of the feed is never the
\* simulator, and a poll past its choice has a candidate.
THEOREM FeedInvHolds == FSpec => []FeedInv
  BY FeedInit, FeedStep, PTL DEF FSpec

\* What a step does to the position and to the answer of a poll.
LEMMA FreshStep ==
    ASSUME FeedInv, [FNext]_fVars, mode = "market", position = NoPosition, position' # NoPosition
    PROVE  /\ source \in {"dhan", "dhan_rest"} /\ position'.symbol \in Quoted
           /\ cycle.quote.at >= today /\ now <= cycle.quote.at + MaxAge
           /\ position'.entry = cycle.quote.price
  <1>1. Execute
    BY DEF FNext, Start, StartMock, StartSocket, StartPolling, Poll, BuildFeed, PollPublished, PollFailed,
           PollClosed, PollAnswered, Packet, SocketCloses, SocketFails, Cycle, Wake, PickNone, Reviewed,
           Reread, Pick, WakeMock, ManagePosition, World, Trade, Tick, Session, Crash, fVars
  <1>2. /\ cycle.at = "execute" /\ cycle.candidate \in Symbols
        /\ MayBuy(cycle.candidate, cycle.quote)
        /\ position' = [symbol |-> cycle.candidate, entry |-> cycle.quote.price]
    BY <1>1 DEF Execute, FeedInv, Chosen
  <1>3. cycle.quote \in Quotes /\ now \in Nat /\ today \in Nat /\ MaxAge \in Nat
    BY <1>2, FeedAssumption DEF MayBuy, FeedInv, FeedTypes
  <1>4. ExecutableQuoteIsFresh(cycle.candidate, cycle.quote)
    BY <1>2 DEF MayBuy
  <1>5. cycle.quote.at \in Nat
    BY <1>3 DEF Quotes
  <1> QED BY <1>2, <1>3, <1>4, <1>5 DEF ExecutableQuoteIsFresh, IsCurrentBatchSymbol, Quoted, FeedInv

\* A price answered by a step has its change measured from a close of today.
LEMMA DayStep ==
    ASSUME FeedInv, [FNext]_fVars, NEW s \in Answered' \ Answered
    PROVE  cycle'.answer[s].basis \in {0, today}
  <1>1. CASE \E fetched \in Fetched, present, stamped \in SUBSET resolved :
               PollAnswered(fetched, present, stamped)
    BY <1>1, AnswerStep
  <1>2. ASSUME ~ \E fetched \in Fetched, present, stamped \in SUBSET resolved :
                 PollAnswered(fetched, present, stamped)
        PROVE  cycle'.answer = cycle.answer \/ cycle'.answer = NoQuotes
    <2>1. /\ cycle \in [at : Polls, candidate : Symbols \cup {None}, quote : Quotes \cup {None}, answer : Board]
          /\ Idle.answer = NoQuotes
      BY DEF FeedInv, FeedTypes, Idle
    <2>2. CASE World \/ ManagePosition \/ SocketCloses \/ SocketFails \/ UNCHANGED fVars
      BY <2>1, <2>2 DEF World, ManagePosition, SocketCloses, SocketFails, fVars, Trade, Tick, Session, Crash
    <2>3. CASE Start
      BY <2>1, <2>3 DEF Start, StartMock, StartSocket, StartPolling, Idle
    <2>4. CASE BuildFeed \/ PollPublished \/ PollFailed \/ PollClosed
      BY <2>1, <2>4 DEF BuildFeed, PollPublished, PollFailed, PollClosed, Continue
    <2>5. CASE Cycle
      BY <2>1, <2>5 DEF Cycle, Wake, PickNone, Reviewed, Reread, Execute, Pick, WakeMock, Idle
    <2>6. CASE \E x \in Symbols : Packet(x)
      BY <2>6 DEF Packet
    <2> QED BY <1>2, <2>2, <2>3, <2>4, <2>5, <2>6 DEF FNext, Poll
  <1>3. ~ (cycle'.answer = cycle.answer \/ cycle'.answer = NoQuotes)
    BY DEF Answered, NoQuotes
  <1> QED BY <1>1, <1>2, <1>3

\* A market entry pays a price traded within the staleness limit, of the day, that the
\* active source still vouches for, and a change is computed from the close of the
\* day before, for any symbols, limits, faults and any time a review may take.
THEOREM PricesAreTrueHolds == FSpec => PricesAreTrue
  <1>1. FeedInv /\ [FNext]_fVars =>
           [(mode = "market" /\ position = NoPosition /\ position' # NoPosition) =>
              /\ source \in {"dhan", "dhan_rest"} /\ position'.symbol \in Quoted
              /\ cycle.quote.at >= today /\ now <= cycle.quote.at + MaxAge
              /\ position'.entry = cycle.quote.price]_fVars
    BY FreshStep
  <1>2. FeedInv /\ [FNext]_fVars =>
           [\A s \in Answered' \ Answered : cycle'.answer[s].basis \in {0, today}]_fVars
    BY DayStep
  <1> QED BY <1>1, <1>2, FeedInvHolds, PTL DEF FSpec, PricesAreTrue, EntriesUseFreshQuotes, ChangeIsDayOverDay
-----------------------------------------------------------------------------
(* The stream of the Forex worker: one word that three tasks write.        *)

Words == {"NOT_STARTED", "CONNECTING", "RECONNECTING", "HEALTHY", "STALE", "UNHEALTHY", "AUTH_FAILED"}
Streams == [task : {"none", "running", "ended"}, at : {"top", "dial", "open", "backoff"}, state : Words,
            retried : BOOLEAN, heard : BOOLEAN, mute : BOOLEAN]

\* The word itself, before its age is looked at, tells where the task is; a task that is
\* over keeps the word it ended with, as nobody finds it connecting or healthy.
StreamInv ==
    /\ stream \in Streams /\ age \in Nat
    /\ stream.state \in {"HEALTHY", "STALE"} => stream.heard
    /\ stream.state = "HEALTHY" => Running("open")
    /\ stream.task = "ended" => stream.state \in {"AUTH_FAILED", "UNHEALTHY"}
    /\ stream.state = "AUTH_FAILED" => stream.task = "ended"
    /\ stream.state = "UNHEALTHY" => stream.task = "ended" \/ ~stream.heard

\* No connection is a state of the stream.
LEMMA NoStreamIs == NoStream \in Streams
  BY DEF NoStream, Streams, Words

\* The task: it calls the stream healthy where it is open, and names its own end.
LEMMA ListeningStep ==
    ASSUME StreamInv, Listening
    PROVE  StreamInv'
  <1> USE DEF StreamInv
  <1>1. CASE Dial
    BY <1>1 DEF Dial, Running, Streams, Words
  <1>2. CASE Connect
    <2>1. \/ stream' = [stream EXCEPT !.at = "open", !.retried = FALSE]
          \/ stream' = Over("AUTH_FAILED")
          \/ stream' = Broken
      BY <1>2 DEF Connect
    <2>2. stream.task = "running" /\ stream.at = "dial" /\ age' = age
      BY <1>2 DEF Connect, Running
    <2> QED BY <2>1, <2>2 DEF Over, Broken, Running, Streams, Words
  <1>3. CASE Hear
    <2>1. \/ stream' = Broken /\ age' = age
          \/ stream' = [Over("UNHEALTHY") EXCEPT !.heard = TRUE] /\ age' = 0
          \/ stream' = [stream EXCEPT !.state = "HEALTHY", !.heard = TRUE] /\ age' = 0
      BY <1>3 DEF Hear
    <2>2. stream.task = "running" /\ stream.at = "open"
      BY <1>3 DEF Hear, Running
    <2>3. CASE stream' = Broken /\ age' = age
      BY <2>2, <2>3 DEF Broken, Running, Streams, Words
    <2>4. CASE stream' = [Over("UNHEALTHY") EXCEPT !.heard = TRUE] /\ age' = 0
      BY <2>2, <2>4 DEF Over, Running, Streams, Words
    <2>5. CASE stream' = [stream EXCEPT !.state = "HEALTHY", !.heard = TRUE] /\ age' = 0
      BY <2>2, <2>5 DEF Running, Streams, Words
    <2> QED BY <2>1, <2>3, <2>4, <2>5
  <1>4. CASE Break \/ Mute
    BY <1>4 DEF Break, Mute, Broken, Running, Streams, Words
  <1>5. CASE WakeUp
    BY <1>5 DEF WakeUp, Running, Streams, Words
  <1>6. CASE Elapse
    BY <1>6 DEF Elapse, Running
  <1> QED BY <1>1, <1>2, <1>3, <1>4, <1>5, <1>6 DEF Listening, Loop

\* The worker: it starts the task, calls a connection that is not made in time unhealthy,
\* publishes a healthy one as stale, and takes the task with it when it dies.
LEMMA WorkingStep ==
    ASSUME StreamInv, Working
    PROVE  StreamInv'
  <1> USE DEF StreamInv
  <1>1. CASE Ask \/ Resume \/ Restart
    BY <1>1 DEF Ask, Resume, Restart, Running
  <1>2. CASE Answer
    <2>1. stream' \in {stream, [NoStream EXCEPT !.task = "running"]} /\ age' = age
      BY <1>2 DEF Answer
    <2> QED BY <2>1 DEF NoStream, Running, Streams, Words
  <1>3. CASE WaitOver
    <2>1. /\ stream' = stream \/ (~stream.heard /\ stream.state = "CONNECTING"
                                  /\ stream' = [stream EXCEPT !.state = "UNHEALTHY"])
          /\ age' = age
      BY <1>3 DEF WaitOver
    <2> QED BY <2>1 DEF Running, Streams, Words
  <1>4. CASE Publish
    BY <1>4 DEF Publish, Told, Running, Streams, Words
  <1>5. CASE Die
    BY <1>5 DEF Die, NoStream, Running, Streams, Words
  <1> QED BY <1>1, <1>2, <1>3, <1>4, <1>5 DEF Working, Pace

\* Every step keeps what the stream knows of its connections.
LEMMA StreamStep == StreamInv /\ [ONext]_oVars => StreamInv'
  <1> SUFFICES ASSUME StreamInv, [ONext]_oVars PROVE StreamInv'
    OBVIOUS
  <1>1. CASE Ordering \/ UNCHANGED oVars
    BY <1>1 DEF Ordering, Executed, Submit, oVars, line, StreamInv, Running
  <1> QED BY <1>1, ListeningStep, WorkingStep DEF ONext

-----------------------------------------------------------------------------
(* The orders.                                                             *)

\* Those who have submitted an intent and have no answer yet.
InFlight(i) == {t \in Traders : desk[t] # NoOrder /\ desk[t].intent = i}

\* Until an intent is recorded each execution has failed to be reported; once it is, only
\* those that were in flight are left to execute it again.
OrderInv ==
    /\ desk \in [Traders -> {NoOrder} \cup [intent : Intents, attempt : {1}]]
    /\ fills \in [Intents -> Nat] /\ failures \in [Intents -> Nat]
    /\ \A i \in Intents :
         IF i \in recorded THEN fills[i] + Cardinality(InFlight(i)) <= Cardinality(Traders) + failures[i]
         ELSE fills[i] <= failures[i]

\* The traders under way with an order are finitely many.
LEMMA InFlightIs ==
    \A i : /\ IsFiniteSet(InFlight(i)) /\ Cardinality(InFlight(i)) \in Nat
           /\ Cardinality(InFlight(i)) <= Cardinality(Traders) /\ Cardinality(Traders) \in Nat
  BY OandaAssumption, FS_Subset, FS_CardinalityType DEF InFlight

\* A submission keeps the account of the attempts.
LEMMA SubmitStep ==
    ASSUME OrderInv, NEW t \in Traders, NEW i \in Intents, Submit(t, i)
    PROVE  OrderInv'
  <1> USE DEF OrderInv
  <1>1. /\ desk[t] = NoOrder /\ i \notin recorded
        /\ desk' = [desk EXCEPT ![t] = [intent |-> i, attempt |-> 1]]
        /\ UNCHANGED <<recorded, fills, failures>>
    BY DEF Submit
  <1>2. \A j \in Intents : j # i => InFlight(j)' = InFlight(j)
    BY <1>1 DEF InFlight, NoOrder
  <1> QED BY <1>1, <1>2

\* An answer: there is no second attempt, so the order is off its desk.
LEMMA ExecutedStep ==
    ASSUME OrderInv, NEW t \in Traders, Executed(t)
    PROVE  OrderInv'
  <1> USE DEF OrderInv
  <1>0. desk[t] # NoOrder /\ desk[t].intent \in Intents /\ desk[t].attempt = 1
    BY DEF Executed
  <1> PICK i \in Intents : i = desk[t].intent
    BY <1>0
  <1>1. PICK reply \in Replies \ {"lacking"}, filled \in BOOLEAN :
          /\ reply \in {"ok", "unreadable"} => filled
          /\ fills' = IF filled THEN [fills EXCEPT ![i] = @ + 1] ELSE fills
          /\ IF SentAgain("order", desk[t].attempt, reply)
             THEN desk' = [desk EXCEPT ![t].attempt = @ + 1] /\ UNCHANGED <<recorded, failures>>
             ELSE /\ desk' = [desk EXCEPT ![t] = NoOrder]
                  /\ recorded' = IF reply = "ok" THEN recorded \union {i} ELSE recorded
                  /\ failures' = IF reply = "ok" THEN failures ELSE [failures EXCEPT ![i] = @ + 1]
    BY DEF Executed
  <1>2. desk[t] # NoOrder /\ i \in Intents /\ desk[t].attempt = 1 /\ desk[t].intent = i
    BY <1>0
  <1>3. ~SentAgain("order", desk[t].attempt, reply)
    BY <1>2 DEF SentAgain, Attempts
  <1>4. /\ desk' = [desk EXCEPT ![t] = NoOrder]
        /\ recorded' = IF reply = "ok" THEN recorded \union {i} ELSE recorded
        /\ failures' = IF reply = "ok" THEN failures ELSE [failures EXCEPT ![i] = @ + 1]
    BY <1>1, <1>3
  <1>5. t \in InFlight(i) /\ InFlight(i)' = InFlight(i) \ {t}
    BY <1>2, <1>4 DEF InFlight
  <1>6. Cardinality(InFlight(i)') = Cardinality(InFlight(i)) - 1
    <2>1. IsFiniteSet(InFlight(i))
      BY InFlightIs
    <2>2. Cardinality(InFlight(i) \ {t}) = Cardinality(InFlight(i)) - 1
      BY <1>5, <2>1, FS_RemoveElement
    <2> QED BY <1>5, <2>2
  <1>7. \A j \in Intents : j # i => InFlight(j)' = InFlight(j)
    BY <1>2, <1>4 DEF InFlight
  <1>8. fills' \in [Intents -> Nat] /\ failures' \in [Intents -> Nat]
    BY <1>1, <1>2, <1>4
  <1>9. ASSUME NEW j \in Intents
        PROVE  IF j \in recorded'
               THEN fills'[j] + Cardinality(InFlight(j)') <= Cardinality(Traders) + failures'[j]
               ELSE fills'[j] <= failures'[j]
    <2>1. CASE j # i
      BY <1>1, <1>2, <1>4, <1>7, <2>1
    <2>2. CASE j = i
      <3>1. fills[i] \in Nat /\ failures[i] \in Nat /\ fills'[i] \in {fills[i], fills[i] + 1}
        BY <1>1, <1>2
      <3>2. CASE reply = "ok"
        <4>1. i \in recorded' /\ failures'[i] = failures[i]
          BY <1>4, <3>2
        <4> QED BY <1>2, <1>6, <2>2, <3>1, <4>1, InFlightIs
      <3>3. CASE reply # "ok"
        <4>1. recorded' = recorded /\ failures'[i] = failures[i] + 1
          BY <1>2, <1>4, <3>3
        <4> QED BY <1>2, <1>6, <2>2, <3>1, <4>1, InFlightIs
      <3> QED BY <3>2, <3>3
    <2> QED BY <2>1, <2>2
  <1> QED BY <1>4, <1>8, <1>9

\* Every step keeps the account of the orders.
LEMMA OrderStep == OrderInv /\ [ONext]_oVars => OrderInv'
  <1> SUFFICES ASSUME OrderInv, [ONext]_oVars PROVE OrderInv'
    OBVIOUS
  <1>1. CASE Listening \/ Working \/ UNCHANGED oVars
    <2>1. UNCHANGED book
      BY <1>1 DEF Listening, Loop, Dial, Connect, Hear, WakeUp, Break, Mute, Elapse, Working, Pace, Ask,
                  Answer, Resume, WaitOver, Publish, Restart, Die, oVars
    <2> QED BY <2>1 DEF book, OrderInv, InFlight
  <1> QED BY <1>1, SubmitStep, ExecutedStep DEF ONext, Ordering

\* The provider starts in both invariants.
LEMMA ConnectionInit == OInit => StreamInv /\ OrderInv
  <1> SUFFICES ASSUME OInit PROVE StreamInv /\ OrderInv
    OBVIOUS
  <1>1. StreamInv
    BY NoStreamIs DEF OInit, StreamInv, NoStream
  <1>2. OrderInv
    BY DEF OInit, OrderInv
  <1> QED BY <1>1, <1>2

\* The stream is called healthy only while it is open and was heard of lately, and an end
\* is called an end, whatever the order of the task, the start-up and the publisher;
\* no intent is executed again by the client's own doing, for any number of traders.
THEOREM ConnectionIsTrueHolds == OSpec => []ConnectionIsTrue
  <1>1. StreamInv => StateIsTrue
    BY OandaAssumption DEF StreamInv, StateIsTrue, Told
  <1>2. OrderInv => OrdersAreNotRepeated
    <2> SUFFICES ASSUME OrderInv, NEW i \in Intents
                 PROVE  fills[i] <= Cardinality(Traders) + failures[i]
      BY DEF OrdersAreNotRepeated
    <2>1. fills[i] \in Nat /\ failures[i] \in Nat
      BY DEF OrderInv
    <2> QED BY <2>1, InFlightIs DEF OrderInv
  <1> QED BY <1>1, <1>2, ConnectionInit, StreamStep, OrderStep, PTL DEF OSpec, ConnectionIsTrue
-----------------------------------------------------------------------------
(* The daily bars of a symbol.                                             *)

Bars == [Days -> Nat \cup {Missing}]

\* No store knows a day that has not come; a row is complete after its day; and what a
\* reader copied was, from today on, one bar a day.
BarsInv ==
    /\ day \in Days
    /\ dayTape \in [Days -> Nat] /\ \A d \in Days : d > day => dayTape[d] = 0
    /\ daily \in Bars /\ live \in Bars /\ pickled \in Bars
    /\ dailyStore \in [Days -> [bar : Nat \cup {Missing}, complete : BOOLEAN]]
    /\ copied \in [mid : Bars, quoted : Bars, ready : BOOLEAN]
    /\ \A d \in Days : d > day =>
          /\ daily[d] = Missing /\ live[d] = Missing /\ pickled[d] = Missing
          /\ copied.mid[d] = Missing /\ copied.quoted[d] = Missing
    /\ \A d \in Days : dailyStore[d].complete => d < day
    /\ booting => live = NoBars /\ ~copied.ready
    /\ copied.mid[day] = Missing \/ copied.quoted[day] = Missing

\* No bars are bars, and no frame is a frame.
LEMMA NoBarsIs == NoBars \in Bars /\ NoFrame \in [mid : Bars, quoted : Bars, ready : BOOLEAN]
  BY DEF NoBars, NoFrame, Bars

\* The history starts in its invariant.
LEMMA BarsInit == DInit => BarsInv /\ TodayIsOneBar
  <1> SUFFICES ASSUME DInit PROVE BarsInv /\ TodayIsOneBar
    OBVIOUS
  <1>1. day \in Days
    BY DailyAssumption DEF DInit, Days
  <1> QED BY <1>1, NoBarsIs DEF DInit, BarsInv, TodayIsOneBar, NoBars, NoFrame, NoStored, Bars

\* What a download and a write to the store make of the days.
LEMMA DownloadedIs ==
    ASSUME BarsInv
    PROVE  /\ Downloaded \in Bars /\ StoredDaily \in Bars
           /\ \A d \in Days : d > day => Downloaded[d] = Missing
           /\ \A d \in Days : d >= day => StoredDaily[d] = Missing
           /\ \A f \in Bars : DailyUpserted(f) \in [Days -> [bar : Nat \cup {Missing}, complete : BOOLEAN]]
           /\ \A f \in Bars, d \in Days : DailyUpserted(f)[d].complete => d < day
  <1>1. Downloaded \in Bars /\ \A d \in Days : d > day => Downloaded[d] = Missing
    BY DEF Downloaded, Bars, BarsInv, Days
  <1>2. StoredDaily \in Bars /\ \A d \in Days : d >= day => StoredDaily[d] = Missing
    BY DEF StoredDaily, Bars, BarsInv, Days
  <1>3. ASSUME NEW f \in Bars
        PROVE  /\ DailyUpserted(f) \in [Days -> [bar : Nat \cup {Missing}, complete : BOOLEAN]]
               /\ \A d \in Days : DailyUpserted(f)[d].complete => d < day
    BY DEF DailyUpserted, Bars, BarsInv, Days
  <1> QED BY <1>1, <1>2, <1>3

\* A start reads its bars from one place, with no quote bar yet.
LEMMA BootStep ==
    ASSUME BarsInv, TodayIsOneBar, FromStore \/ FromFile \/ FromBroker \/ PrefetchFails
    PROVE  BarsInv' /\ TodayIsOneBar'
  <1>1. /\ booting /\ ~booting' /\ live = NoBars
        /\ UNCHANGED <<day, dayTape, live, copied>>
    BY DEF BarsInv, FromStore, FromFile, FromBroker, PrefetchFails
  <1>2. /\ daily' \in {daily, StoredDaily, pickled, Downloaded} /\ pickled' \in {pickled, Downloaded}
        /\ dailyStore' \in {dailyStore, DailyUpserted(pickled), DailyUpserted(Downloaded)}
    BY DEF FromStore, FromFile, FromBroker, PrefetchFails
  <1>3. /\ daily' \in Bars /\ pickled' \in Bars
        /\ \A d \in Days : d > day => daily'[d] = Missing /\ pickled'[d] = Missing
    BY <1>2, DownloadedIs DEF BarsInv, Days
  <1>4. /\ dailyStore' \in [Days -> [bar : Nat \cup {Missing}, complete : BOOLEAN]]
        /\ \A d \in Days : dailyStore'[d].complete => d < day
    BY <1>2, DownloadedIs DEF BarsInv
  <1>5. live'[day'] = Missing
    BY <1>1 DEF NoBars, BarsInv
  <1> QED BY <1>1, <1>3, <1>4, <1>5 DEF BarsInv, TodayIsOneBar

\* Quotes and readers: a quote begins a bar of today only where there is none.
LEMMA ReadStep ==
    ASSUME BarsInv, TodayIsOneBar, AppendDaily \/ CopyDaily \/ MergeDaily
    PROVE  BarsInv' /\ TodayIsOneBar'
  <1> USE DEF BarsInv
  <1>1. CASE AppendDaily
    <2>1. /\ ~booting /\ UNCHANGED <<booting, day, dayTape, copied, dailyStore, pickled>>
          /\ \/ daily[day] # Missing /\ daily' = [daily EXCEPT ![day] = dayTape[day]] /\ live' = live
                /\ live[day] = Missing
             \/ daily[day] = Missing /\ live' = [live EXCEPT ![day] = dayTape[day]] /\ daily' = daily
      BY <1>1 DEF AppendDaily, TodayIsOneBar
    <2>2. dayTape[day] \in Nat
      OBVIOUS
    <2>3. daily' \in Bars /\ live' \in Bars
          /\ \A d \in Days : d # day => daily'[d] = daily[d] /\ live'[d] = live[d]
      BY <2>1, <2>2 DEF Bars
    <2>4. TodayIsOneBar'
      BY <2>1 DEF TodayIsOneBar, Bars
    <2> QED BY <2>1, <2>3, <2>4 DEF Days
  <1>2. CASE CopyDaily
    <2> DEFINE mid == [d \in Days |-> IF daily[d] # Missing THEN daily[d] ELSE StoredDaily[d]]
    <2>1. copied' = [mid |-> mid, quoted |-> live, ready |-> TRUE] /\ ~booting
          /\ UNCHANGED <<booting, day, dayTape, daily, live, dailyStore, pickled>>
      BY <1>2 DEF CopyDaily
    <2>2. mid \in Bars /\ (\A d \in Days : d > day => mid[d] = Missing) /\ mid[day] = daily[day]
      <3>1. \A d \in Days : mid[d] \in {daily[d], StoredDaily[d]} /\ (daily[d] # Missing => mid[d] = daily[d])
        OBVIOUS
      <3>2. \A d \in Days : d > day => d >= day
        BY DEF Days
      <3>3. day \in Days /\ day >= day
        BY DEF Days
      <3> HIDE DEF mid
      <3>4. \A d \in Days : d >= day => StoredDaily[d] = Missing
        BY DownloadedIs
      <3>5. mid[day] = daily[day]
        BY <3>1, <3>3, <3>4
      <3>6. \A d \in Days : d > day => mid[d] = Missing
        BY <3>1, <3>2, <3>4
      <3>7. mid \in Bars
        BY DownloadedIs DEF Bars, mid
      <3> QED BY <3>5, <3>6, <3>7
    <2> HIDE DEF mid
    <2>3. copied' \in [mid : Bars, quoted : Bars, ready : BOOLEAN] /\ copied'.mid = mid /\ copied'.quoted = live
      BY <2>1, <2>2
    <2> QED BY <2>1, <2>2, <2>3 DEF TodayIsOneBar
  <1>3. CASE MergeDaily
    <2>1. /\ daily' = copied.mid /\ live' = copied.quoted /\ copied' = NoFrame /\ ~booting
          /\ UNCHANGED <<booting, day, dayTape, dailyStore, pickled>>
      BY <1>3 DEF MergeDaily
    <2>2. \A d \in Days : copied'.mid[d] = Missing /\ copied'.quoted[d] = Missing
      BY <2>1 DEF NoFrame, NoBars
    <2> QED BY <2>1, <2>2, NoBarsIs DEF TodayIsOneBar
  <1> QED BY <1>1, <1>2, <1>3

\* Time and restarts: a new day has no bar anywhere.
LEMMA TimeStep ==
    ASSUME BarsInv, TodayIsOneBar, DTrade \/ NextDay \/ IngestDaily \/ DRestart \/ UNCHANGED dVars
    PROVE  BarsInv' /\ TodayIsOneBar'
  <1> USE DEF BarsInv
  <1>1. CASE DTrade
    <2>1. dayTape' = [dayTape EXCEPT ![day] = @ + 1]
          /\ UNCHANGED <<booting, day, daily, live, copied, dailyStore, pickled>>
      BY <1>1 DEF DTrade
    <2> QED BY <2>1 DEF TodayIsOneBar, Days
  <1>2. CASE NextDay
    <2>1. day' = day + 1 /\ day' \in Days /\ day' > day
          /\ UNCHANGED <<booting, dayTape, daily, live, copied, dailyStore, pickled>>
      BY <1>2, DailyAssumption DEF NextDay, Days
    <2>2. \A d \in Days : (d > day' => d > day) /\ (d < day => d < day')
      BY <2>1 DEF Days
    <2> QED BY <2>1, <2>2 DEF TodayIsOneBar
  <1>3. CASE IngestDaily
    BY <1>3, DownloadedIs DEF IngestDaily, TodayIsOneBar
  <1>4. CASE DRestart
    <2>1. daily' = NoBars /\ live' = NoBars /\ copied' = NoFrame /\ UNCHANGED <<day, dayTape, dailyStore, pickled>>
      BY <1>4 DEF DRestart
    <2>2. ~copied'.ready /\ \A d \in Days : /\ daily'[d] = Missing /\ live'[d] = Missing
                                            /\ copied'.mid[d] = Missing /\ copied'.quoted[d] = Missing
      BY <2>1 DEF NoFrame, NoBars
    <2>3. booting' = TRUE
      BY <1>4 DEF DRestart
    <2> QED BY <2>1, <2>2, <2>3, NoBarsIs DEF TodayIsOneBar
  <1>5. CASE UNCHANGED dVars
    BY <1>5 DEF dVars, TodayIsOneBar
  <1> QED BY <1>1, <1>2, <1>3, <1>4, <1>5

\* Today is one bar, however the store, the file, the broker, the quotes, the readers that
\* merge without the lock, the days and the restarts interleave, for any numbers of
\* days, bars and trades.
THEOREM TodayIsOneBarHolds == DSpec => []TodayIsOneBar
  <1>1. DInit => BarsInv /\ TodayIsOneBar
    BY BarsInit
  <1>2. BarsInv /\ TodayIsOneBar /\ [DNext]_dVars => BarsInv' /\ TodayIsOneBar'
    BY BootStep, ReadStep, TimeStep DEF DNext
  <1> QED BY <1>1, <1>2, PTL DEF DSpec
=============================================================================
