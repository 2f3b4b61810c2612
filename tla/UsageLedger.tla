---------------------------- MODULE UsageLedger ----------------------------
(***************************************************************************)
(* FinOps: the token ledger and the hard budget in front of every call to  *)
(* a language model.                                                       *)
(*                                                                         *)
(*   rows         llm_usage_events, the SQLite table the worker processes  *)
(*                share, in timestamp order                                *)
(*   recent       _recent_records of each process, bounded                 *)
(*   unpersisted  _unpersisted_records of each process: usage it could not *)
(*                write and never writes again                             *)
(*   pending      the threads of the processes: asking, waiting for the    *)
(*                model, about to persist                                  *)
(*                                                                         *)
(* A call costs one unit.  An entry is the day, horizon and agent of it;   *)
(* every call has an id of its own, so the upsert never merges two.        *)
(***************************************************************************)
EXTENDS Naturals, Sequences, FiniteSetsExt

CONSTANTS
    Workers,        \* processes: one per market
    Threads,        \* threads that call a model
    Home,           \* the process of each thread
    Unchecked,      \* threads whose call path does not ask the budget
    Horizons,       \* trade horizons
    Shared,         \* the horizon of calls that serve no trade in particular
    Budget,         \* the hard budget of a day over all horizons
    HorizonBudget,  \* the hard budget of each horizon, 0 for none
    RowLimit,       \* the LIMIT of a read
    RecentLimit,    \* the bound on _recent_records
    Faults,         \* the kinds of fault a run admits
    MaxRequests,    \* calls in a run (a bound for TLC)
    MaxDays,        \* days in a run (a bound for TLC)
    MaxFaults       \* faults in a run (a bound for TLC)

\* "read"    the read fails and the process counts what it remembers
\* "locked"  the write fails four times over
\* "crash"   the process dies and is started again
FaultKinds == {"read", "locked", "crash"}

ASSUME LedgerAssumption ==
    /\ IsFiniteSet(Threads) /\ IsFiniteSet(Workers) /\ Workers # {}
    /\ Home \in [Threads -> Workers]
    /\ Unchecked \subseteq Threads
    /\ Shared \in Horizons
    /\ HorizonBudget \in [Horizons -> Nat]
    /\ {Budget, RowLimit, RecentLimit, MaxDays} \subseteq Nat \ {0}
    /\ {MaxRequests, MaxFaults} \subseteq Nat
    /\ Faults \subseteq FaultKinds

VARIABLES rows, recent, unpersisted, pending, today,
          spent,        \* auxiliary: every call the provider answered
          requests, used  \* auxiliary: calls begun, and faults by kind, so far

uVars == <<rows, recent, unpersisted, pending, today, spent, requests, used>>

NoRequest == [at |-> "idle", horizon |-> Shared, day |-> 0]

Entries == [day : Nat, horizon : Horizons, agent : Threads]

LedgerTypes ==
    /\ rows \in Seq(Entries)
    /\ recent \in [Workers -> Seq(Entries)]
    /\ \A w \in Workers : Len(recent[w]) <= RecentLimit
    /\ unpersisted \in [Workers -> Seq(Entries)]
    /\ pending \in [Threads -> [at : {"idle", "calling", "persisting"}, horizon : Horizons, day : Nat]]
    /\ today \in Nat
    /\ spent \in Seq(Entries)
    /\ requests \in Nat
    /\ used \in [FaultKinds -> Nat]

UInit ==
    /\ rows = <<>>
    /\ recent = [w \in Workers |-> <<>>]
    /\ unpersisted = [w \in Workers |-> <<>>]
    /\ pending = [t \in Threads |-> NoRequest]
    /\ today = 1
    /\ spent = <<>>
    /\ requests = 0
    /\ used = [kind \in FaultKinds |-> 0]

Spent == MapThenSumSet(LAMBDA kind : used[kind], FaultKinds)

Fault(kind) ==
    /\ kind \in Faults /\ Spent < MaxFaults
    /\ used' = [used EXCEPT ![kind] = @ + 1]
NoFault == UNCHANGED used

Entry(t, day) == [day |-> day, horizon |-> pending[t].horizon, agent |-> t]

\* Places in a log: of a day, of a horizon, and the first n of some.
OfDay(entries, day) == {i \in DOMAIN entries : entries[i].day = day}
OfHorizon(entries, h) == {i \in DOMAIN entries : entries[i].horizon = h}
Oldest(places, n) == {i \in places : Cardinality({j \in places : j <= i}) <= n}
-----------------------------------------------------------------------------
(* What a process counts.                                                  *)

\* The sums over some rows and what a process holds in memory.
Sums(places, memory) ==
    [all |-> Cardinality(places) + Len(memory),
     of  |-> [h \in Horizons |-> Cardinality(places \cap OfHorizon(rows, h))
                                 + Cardinality(OfHorizon(memory, h))]]

\* A bug: usage that could not be written is not counted.
Counted_slip(w) == Sums(Oldest(OfDay(rows, today), RowLimit), <<>>)

\* _records: the rows of today, oldest first and cut off at the limit, and
\* what this process could not write, of whatever day.
Counted(w) == Sums(Oldest(OfDay(rows, today), RowLimit), unpersisted[w])

\* When the read fails: what the process remembers, of whatever day.
Recalled(w) == Sums({}, recent[w])

\* A bug: only the total is compared.
HardBreached_slip(sums, h) == sums.all >= Budget

HardBreached(sums, h) ==
    \/ sums.all >= Budget
    \/ HorizonBudget[h] > 0 /\ sums.of[h] >= HorizonBudget[h]

\* A call begins: the budget is asked unless its path does not.
Begin(t, h) ==
    /\ pending[t].at = "idle"
    /\ t \in Unchecked => h = Shared
    /\ requests < MaxRequests
    /\ requests' = requests + 1
    /\ \/ (t \in Unchecked \/ ~HardBreached(Counted(Home[t]), h)) /\ NoFault
       \/ t \notin Unchecked /\ ~HardBreached(Recalled(Home[t]), h) /\ Fault("read")
    /\ pending' = [pending EXCEPT ![t] = [at |-> "calling", horizon |-> h, day |-> today]]
    /\ UNCHANGED <<rows, recent, unpersisted, today, spent>>
-----------------------------------------------------------------------------
(* What a process records.                                                 *)

\* A bug: the list of recent records is trimmed before it grows.
Remember_slip(w, e) ==
    recent' = [recent EXCEPT ![w] =
        Append(IF Len(@) > RecentLimit THEN Tail(@) ELSE @, e)]

Remember(w, e) ==
    recent' = [recent EXCEPT ![w] =
        IF Len(@) = RecentLimit THEN Append(Tail(@), e) ELSE Append(@, e)]

Answer(t) ==
    /\ pending[t].at = "calling"
    /\ pending' = [pending EXCEPT ![t].at = "persisting", ![t].day = today]
    /\ LET e == Entry(t, today)
       IN  Remember(Home[t], e) /\ spent' = Append(spent, e)
    /\ UNCHANGED <<rows, unpersisted, today, requests, used>>

\* The call raises: nothing is recorded.
Fail(t) ==
    /\ pending[t].at = "calling"
    /\ pending' = [pending EXCEPT ![t] = NoRequest]
    /\ UNCHANGED <<rows, recent, unpersisted, today, spent, requests, used>>

\* The record kept in memory carries the day of its answer ...
Unpersist(t) ==
    unpersisted' = [unpersisted EXCEPT ![Home[t]] =
        Append(@, Entry(t, pending[t].day))]

\* A bug: a write that is reported as locked may have happened.
Persist_slip(t) ==
    /\ pending[t].at = "persisting"
    /\ rows' = Append(rows, Entry(t, today))
    /\ \/ UNCHANGED unpersisted /\ NoFault
       \/ Unpersist(t) /\ Fault("locked")
    /\ pending' = [pending EXCEPT ![t] = NoRequest]
    /\ UNCHANGED <<recent, today, spent, requests>>

\* A bug: a record whose write fails is dropped.
Persist_lost(t) ==
    /\ pending[t].at = "persisting"
    /\ \/ rows' = Append(rows, Entry(t, today)) /\ NoFault
       \/ UNCHANGED rows /\ Fault("locked")
    /\ pending' = [pending EXCEPT ![t] = NoRequest]
    /\ UNCHANGED <<recent, unpersisted, today, spent, requests>>

\* ... and a row the day it is written on.
Persist(t) ==
    /\ pending[t].at = "persisting"
    /\ \/ /\ rows' = Append(rows, Entry(t, today))
          /\ UNCHANGED unpersisted
          /\ NoFault
       \/ UNCHANGED rows /\ Unpersist(t) /\ Fault("locked")
    /\ pending' = [pending EXCEPT ![t] = NoRequest]
    /\ UNCHANGED <<recent, today, spent, requests>>
-----------------------------------------------------------------------------
NextDay ==
    /\ today < MaxDays
    /\ today' = today + 1
    /\ UNCHANGED <<rows, recent, unpersisted, pending, spent, requests, used>>

\* Only the table survives.
Restart(w) ==
    /\ Fault("crash")
    /\ recent' = [recent EXCEPT ![w] = <<>>]
    /\ unpersisted' = [unpersisted EXCEPT ![w] = <<>>]
    /\ pending' = [t \in Threads |-> IF Home[t] = w THEN NoRequest ELSE pending[t]]
    /\ UNCHANGED <<rows, today, spent, requests>>

UNext ==
    \/ \E t \in Threads : Answer(t) \/ Fail(t) \/ Persist(t) \/ \E h \in Horizons : Begin(t, h)
    \/ \E w \in Workers : Restart(w)
    \/ NextDay

USpec == UInit /\ [][UNext]_uVars
-----------------------------------------------------------------------------
(* Properties.                                                             *)

\* The calls of today whose threads had asked the budget.
AskedToday == {i \in OfDay(spent, today) : spent[i].agent \notin Unchecked}

\* The most calls a dying process can leave answered and unwritten.
LostByCrash == Max({Cardinality({t \in Threads : Home[t] = w}) : w \in Workers})

\* The budget is asked before a call and charged after it, by threads of
\* several processes, so it can be overshot by those that ask, but only by the
\* calls under way and those a fault hides: never for a whole day.
OvershootIsBounded ==
    LET slack == Cardinality(Threads \ Unchecked) - 1
                 + used["read"] + used["locked"] + used["crash"] * LostByCrash
    IN  /\ Cardinality(AskedToday) <= Budget + slack
        /\ \A h \in Horizons : HorizonBudget[h] > 0 =>
              Cardinality(AskedToday \cap OfHorizon(spent, h)) <= HorizonBudget[h] + slack

\* Nothing is counted twice: what a process counts, for all and for each
\* horizon, was spent.
CountedWasSpent ==
    \A w \in Workers, h \in Horizons : Counted(w).of[h] <= Cardinality(OfHorizon(spent, h))

\* What the processes could not write and still remember.
Unwritten == UNION {{w} \X DOMAIN unpersisted[w] : w \in Workers}

\* While no process dies, what was spent is a row, is remembered as unwritten
\* by exactly one process, or is just being written.
NothingIsUncounted ==
    used["crash"] = 0 =>
        Len(spent) = Len(rows) + Cardinality(Unwritten)
                     + Cardinality({t \in Threads : pending[t].at = "persisting"})

\* The hard budget of the day holds, and holds for what was really spent.
BudgetHolds == OvershootIsBounded /\ CountedWasSpent /\ NothingIsUncounted
=============================================================================
