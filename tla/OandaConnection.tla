-------------------------- MODULE OandaConnection --------------------------
(***************************************************************************)
(* The Forex worker's connection to OANDA (OandaV20Client and the two      *)
(* providers around it).                                                   *)
(*                                                                         *)
(*   The worker starts with five reads, starts the pricing stream, waits   *)
(*   a while for its first message, and then reads prices cycle by cycle   *)
(*   and publishes how the stream is.  A read that fails is repeated.      *)
(*                                                                         *)
(*   The stream is a task of its own that connects, listens and connects   *)
(*   again.  Its state is one word that the task, the start-up and the     *)
(*   publisher write.                                                      *)
(*                                                                         *)
(*   OandaExecutionProvider submits orders.  No worker constructs it yet;  *)
(*   its callers are Traders, with a client of their own.                  *)
(*                                                                         *)
(* A request is lost when its answer is: what it asked may have happened.  *)
(***************************************************************************)
EXTENDS Naturals, Sequences, FiniteSets

CONSTANTS
    Retries,       \* max_read_retries
    StaleAfter,    \* stale_seconds, in ticks
    Executing,     \* OandaExecutionProvider.execution_enabled
    Traders, Intents,
    MaxTrouble,    \* bad replies, lost connections and crashes (a bound for TLC)
    MaxSubmits     \* submissions (a bound for TLC)

ASSUME OandaAssumption ==
    /\ {Retries, StaleAfter, MaxTrouble, MaxSubmits} \subseteq Nat
    /\ Executing \in BOOLEAN
    /\ IsFiniteSet(Traders)

VARIABLES
    work,        \* a read of the start-up, "wait", "cycle", "publish" or "down"
    request,       \* the worker's read: idle, sent, or waiting to be sent again
    stream,        \* the task, where it is, and the state it is said to be in
    age,           \* ticks since the last message of the stream
    trouble,
    desk,          \* each trader's submission
    recorded,      \* _submitted_intents
    fills,         \* how often the broker executed an intent
    failures     \* how many submissions of an intent ended in an error

line == <<work, request, stream, age>>
book == <<desk, recorded, fills, failures>>
oVars == <<line, book, trouble>>

Hang(bad) == IF bad THEN trouble < MaxTrouble /\ trouble' = trouble + 1 ELSE UNCHANGED trouble
-----------------------------------------------------------------------------
(* Requests (_request_json).                                               *)

Replies == {"ok", "lacking", "refused", "unreadable", "limit", "server", "lost"}

\* Only what has no effect is sent again.
Attempts_slip(kind) == Retries + 1
Attempts(kind) == IF kind = "order" THEN 1 ELSE Retries + 1
SentAgain(kind, attempt, reply) ==
    attempt < Attempts(kind) /\ reply \in {"limit", "server", "lost"}

NoRead == [at |-> "idle", attempt |-> 0]
StartUp == <<"accounts", "summary", "instruments", "pricing", "list">>

Ask ==
    /\ work \in {StartUp[i] : i \in DOMAIN StartUp} \union {"cycle"}
    /\ request.at = "idle" /\ request' = [at |-> "sent", attempt |-> 1]
    /\ UNCHANGED <<work, stream, age, book, trouble>>

\* What follows a read: validate_connectivity needs the account among those of the token,
\* an instrument and a price, and ends the process without them; a cycle records the error.
Following(reply) ==
    CASE work = "cycle" -> "publish"
      [] work = "list" /\ reply = "ok" -> "wait"
      [] \E i \in 1..4 : work = StartUp[i] /\ (reply = "ok" \/ (reply = "lacking" /\ i = 2)) ->
            StartUp[1 + CHOOSE i \in 1..4 : work = StartUp[i]]
      [] OTHER -> "down"

NoStream == [task |-> "none", at |-> "top", state |-> "NOT_STARTED", retried |-> FALSE,
             heard |-> FALSE, mute |-> FALSE]

\* The answer; the last one of the start-up starts the stream.
Answer ==
    /\ request.at = "sent"
    /\ \E reply \in Replies :
        /\ Hang(reply # "ok")
        /\ IF SentAgain("read", request.attempt, reply)
           THEN request' = [request EXCEPT !.at = "waiting"] /\ UNCHANGED <<work, stream>>
           ELSE /\ request' = NoRead /\ work' = Following(reply)
                /\ stream' = IF work' = "wait" THEN [NoStream EXCEPT !.task = "running"] ELSE stream
    /\ UNCHANGED <<age, book>>

Resume ==
    /\ request.at = "waiting" /\ request' = [at |-> "sent", attempt |-> request.attempt + 1]
    /\ UNCHANGED <<work, stream, age, book, trouble>>
-----------------------------------------------------------------------------
(* The pricing stream (stream_messages, _consume_price_stream).            *)

Running(place) == stream.task = "running" /\ stream.at = place

Dial ==
    /\ Running("top")
    /\ stream' = [stream EXCEPT !.at = "dial",
                                !.state = IF stream.retried THEN "RECONNECTING" ELSE "CONNECTING"]
    /\ UNCHANGED <<work, request, age, book, trouble>>

Broken == [stream EXCEPT !.at = "backoff", !.state = "RECONNECTING", !.retried = TRUE,
                          !.mute = FALSE]
\* The task is over, and nobody starts another one.
Over_slip(state) == [stream EXCEPT !.task = "ended"]
Over(state) == [stream EXCEPT !.task = "ended", !.state = state]

Connect ==
    /\ Running("dial")
    /\ \E result \in {"accepted", "unauthorized", "failed"} :
        /\ Hang(result # "accepted")
        /\ stream' = CASE result = "accepted" -> [stream EXCEPT !.at = "open", !.retried = FALSE]
                       [] result = "unauthorized" -> Over("AUTH_FAILED")
                       [] result = "failed" -> Broken
    /\ UNCHANGED <<work, request, age, book>>

\* A line of the stream: HEALTHY before anyone looks into it. A line that is no JSON breaks
\* the connection, a price that cannot be read ends the task.
Hear ==
    /\ Running("open") /\ ~stream.mute
    /\ \E message \in {"heartbeat", "price", "no price", "no json"} :
        /\ Hang(message \in {"no price", "no json"})
        /\ IF message = "no json" THEN stream' = Broken /\ UNCHANGED age
           ELSE /\ age' = 0
                /\ stream' = [IF message = "no price" THEN Over("UNHEALTHY") ELSE [stream EXCEPT !.state = "HEALTHY"]
                                 EXCEPT !.heard = TRUE]
    /\ UNCHANGED <<work, request, book>>

\* The connection breaks; or it goes silent, and as it has no read timeout nobody notices.
Break == Running("open") /\ Hang(TRUE) /\ stream' = Broken /\ UNCHANGED <<work, request, age, book>>
Mute ==
    /\ Running("open") /\ ~stream.mute /\ Hang(TRUE) /\ stream' = [stream EXCEPT !.mute = TRUE]
    /\ UNCHANGED <<work, request, age, book>>

WakeUp == Running("backoff") /\ stream' = [stream EXCEPT !.at = "top"]
        /\ UNCHANGED <<work, request, age, book, trouble>>

Elapse == stream.heard /\ age <= StaleAfter /\ age' = age + 1
          /\ UNCHANGED <<work, request, stream, book, trouble>>
-----------------------------------------------------------------------------
(* The worker around them.                                                 *)

\* wait_for_stream_message: a connection that is not made in time is called unhealthy; the
\* worker goes on without it.
WaitOver_slip ==
    /\ work = "wait" /\ stream.heard /\ work' = "cycle"
    /\ UNCHANGED <<request, stream, age, book, trouble>>
WaitOver ==
    /\ work = "wait" /\ work' = "cycle"
    /\ stream' = IF ~stream.heard /\ stream.state = "CONNECTING"
                 THEN [stream EXCEPT !.state = "UNHEALTHY"] ELSE stream
    /\ UNCHANGED <<request, age, book, trouble>>

\* stream_health_state.
Told == IF stream.state = "HEALTHY" /\ age > StaleAfter THEN "STALE" ELSE stream.state

Publish ==
    /\ work = "publish" /\ work' = "cycle"
    /\ stream' = [stream EXCEPT !.state = Told]
    /\ UNCHANGED <<request, age, book, trouble>>

Die ==
    /\ work # "down" /\ Hang(TRUE) /\ work' = "down"
    /\ stream' = NoStream /\ request' = NoRead /\ age' = 0
    /\ UNCHANGED book

Restart == work = "down" /\ work' = StartUp[1] /\ UNCHANGED <<request, stream, age, book, trouble>>
-----------------------------------------------------------------------------
(* Orders (submit_order, create_order).                                    *)

NoOrder == [intent |-> "none", attempt |-> 0]

Submit(t, i) ==
    /\ Executing /\ desk[t] = NoOrder /\ i \notin recorded
    /\ failures[i] + fills[i] < MaxSubmits
    /\ desk' = [desk EXCEPT ![t] = [intent |-> i, attempt |-> 1]]
    /\ UNCHANGED <<line, recorded, fills, failures, trouble>>

\* The intent is recorded after its answer, and only then.
Executed(t) ==
    /\ desk[t] # NoOrder
    /\ \E reply \in Replies \ {"lacking"}, filled \in BOOLEAN :
        LET i == desk[t].intent
        IN /\ reply \in {"ok", "unreadable"} => filled
           /\ reply \in {"refused", "limit"} => ~filled
           /\ Hang(reply # "ok")
           /\ fills' = IF filled THEN [fills EXCEPT ![i] = @ + 1] ELSE fills
           /\ IF SentAgain("order", desk[t].attempt, reply)
              THEN desk' = [desk EXCEPT ![t].attempt = @ + 1] /\ UNCHANGED <<recorded, failures>>
              ELSE /\ desk' = [desk EXCEPT ![t] = NoOrder]
                   /\ recorded' = IF reply = "ok" THEN recorded \union {i} ELSE recorded
                   /\ failures' = IF reply = "ok" THEN failures ELSE [failures EXCEPT ![i] = @ + 1]
    /\ UNCHANGED line
-----------------------------------------------------------------------------
OInit ==
    /\ work = "down" /\ request = NoRead /\ stream = NoStream /\ age = 0 /\ trouble = 0
    /\ desk = [t \in Traders |-> NoOrder] /\ recorded = {}
    /\ fills = [i \in Intents |-> 0] /\ failures = [i \in Intents |-> 0]

\* The worker does one thing after the other, and so does the task of the stream.
Pace == Ask \/ Answer \/ Resume \/ WaitOver \/ Publish \/ Restart
Loop == Dial \/ Connect \/ Hear \/ WakeUp
Listening == Loop \/ Break \/ Mute \/ Elapse
Working == Pace \/ Die
Ordering == \E t \in Traders : Executed(t) \/ \E i \in Intents : Submit(t, i)
ONext == Listening \/ Working \/ Ordering

\* Trouble ends; then the server answers and sends its heartbeats, asyncio wakes every
\* sleeper, and systemd restarts a worker that failed.
OFair == WF_oVars(Pace) /\ WF_oVars(Loop)
OSpec == OInit /\ [][ONext]_oVars /\ OFair
-----------------------------------------------------------------------------
(* Properties.                                                             *)

\* The word that the task, the start-up and the publisher write tells the truth: a stream
\* called healthy is open and was heard of lately; one that is over is called so and never
\* anything else; one that is not over is called unhealthy only until its first message.
StateIsTrue ==
    /\ Told = "HEALTHY" => Running("open") /\ age <= StaleAfter
    /\ stream.task = "ended" => Told \in {"AUTH_FAILED", "UNHEALTHY"}
    /\ Told = "AUTH_FAILED" => stream.task = "ended"
    /\ Told = "UNHEALTHY" => stream.task = "ended" \/ ~stream.heard

\* An intent is executed once for each trader that asked before the first answer was
\* recorded, and once more for each submission that failed: never again by the client.
OrdersAreNotRepeated == \A i \in Intents : fills[i] <= Cardinality(Traders) + failures[i]

ConnectionIsTrue == StateIsTrue /\ OrdersAreNotRepeated

\* The worker always gets to its next cycle, and a stream that is neither over nor silent
\* is heard again.
ConnectionComesBack ==
    /\ []<>(work = "cycle")
    /\ []<>(stream.task # "running" \/ stream.mute \/ Told = "HEALTHY")
=============================================================================
