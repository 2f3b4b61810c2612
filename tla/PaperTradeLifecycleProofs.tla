--------------------- MODULE PaperTradeLifecycleProofs ---------------------
(***************************************************************************)
(* What holds of PaperTradeLifecycle for every value of its constants, and *)
(* under every kind and number of faults.                                  *)
(***************************************************************************)
EXTENDS PaperTradeLifecycle, FiniteSetTheorems, TLAPS

\* A trade that has been opened, whatever is left of it.
LiveStatus == OpenStatus \cup {"CLOSED"}
Live(t) == ledger[t].status \in LiveStatus

Bought(t) == Base(t) + orders[t].entered + orders[t].added

\* A fill the order table has and the ledger is about to record.
Pending(stage, t) == IF task.at = stage /\ task.trade = t THEN task.qty ELSE 0

\* What a handler may assume of its trade when its next write is due.
TaskInv ==
    /\ task # Idle => phase \in {"replay", "running"}
    /\ task.at \in {"submit", "markOpen", "markRejected"} =>
          ledger[task.trade].status = "INTENT"
    /\ task.at \in {"recordEntry", "register", "recordTrade", "recordExit", "recordPnl",
                    "applyExit", "recordAdd", "applyAdd", "recordAddEntry"} => Live(task.trade)
    /\ task.at \in {"closeTrade", "credit", "markFinalized"} =>
          ledger[task.trade].status = "CLOSED"
    /\ task.at \in {"submit", "markOpen", "recordExit", "recordAdd"} => task.qty > 0
    /\ task.at = "submit" => orders[task.trade].entered = 0
    /\ task.at = "markOpen" => orders[task.trade].entered = task.qty

\* Only opened trades are managed, on the heap or in the state file, so only
\* they gain add and exit fills: an intent never has more than its entry.
ManagedInv == \A t \in Trades : managed[t].qty > 0 \/ file[t].qty > 0 => Live(t)

OrdersInv ==
    \A t \in Trades :
        /\ ledger[t].status = "none" => orders[t].entered = 0
        /\ ~Live(t) => orders[t].added = 0 /\ orders[t].sold = 0

\* Shares on hand, in memory or in the table, were bought.
HoldingsInv == \A t \in Trades : wallet[t] <= Bought(t) /\ stored[t] <= Bought(t)

LedgerInv ==
    \A t \in Trades :
        /\ ledger[t].status \in OpenStatus => ledger[t].remaining > 0
        /\ ledger[t].finalized => ledger[t].status = "CLOSED"
        /\ Live(t) =>
              /\ ledger[t].original + Pending("recordAdd", t) <= Bought(t)
              /\ ledger[t].original + Pending("recordExit", t)
                    <= ledger[t].remaining + orders[t].sold

IInv == TypeOK /\ TaskInv /\ ManagedInv /\ OrdersInv /\ HoldingsInv /\ LedgerInv

-----------------------------------------------------------------------------
(* Arithmetic and the helpers of the handlers.                             *)

\* An exit or an add takes a natural number of shares.
LEMMA Quotient ==
    ASSUME NEW a \in Nat, NEW b \in Nat \ {0}
    PROVE  a \div b \in Nat
  OBVIOUS

\* Every size an exit rule or the flatten may choose is a positive number.
LEMMA ExitSizesPositive ==
    ASSUME NEW m, m \in [qty : Nat, taken : BOOLEAN], m.qty > 0, NEW q \in ExitSizes(m)
    PROVE  q \in Nat /\ q > 0
  BY DEF ExitSizes

\* The keys of a trade's adds are finitely many.
LEMMA AddKeysFinite ==
    ASSUME NEW K \in SUBSET (1..MaxAdds)
    PROVE  Cardinality(K) \in Nat
  <1>1. MaxAdds \in Nat
    BY ConstantsAssumption
  <1>2. IsFiniteSet(1..MaxAdds)
    BY <1>1, FS_Interval
  <1>3. IsFiniteSet(K)
    BY <1>2, FS_Subset
  <1> QED BY <1>3, FS_CardinalityType

\* A task at any stage is a task, and a busy task names a trade and a size.
LEMMA AtTyped ==
    ASSUME NEW stage \in Stages, NEW t \in Trades, NEW q \in Nat
    PROVE  /\ At(stage, t, q) \in Tasks
           /\ At(stage, t, q).at = stage
           /\ At(stage, t, q).trade = t
           /\ At(stage, t, q).qty = q
  BY DEF At, Tasks

\* No task is a task.
LEMMA IdleTyped == Idle \in Tasks /\ Idle.at = "idle"
  BY DEF Idle, Tasks

\* A task under way has a trade and a size.
LEMMA BusyTyped ==
    ASSUME task \in Tasks, task.at # "idle"
    PROVE  task.at \in Stages /\ task.trade \in Trades /\ task.qty \in Nat
  BY DEF Idle, Tasks

\* What the handlers make of a record is a record.
LEMMA OpenedTyped ==
    ASSUME NEW r \in LifecycleRecords, NEW q \in Nat
    PROVE  Opened(r, q) \in LifecycleRecords
  BY DEF Opened, LifecycleRecords

\* A record of the ledger that exits stays one.
LEMMA ExitedTyped ==
    ASSUME NEW r \in LifecycleRecords, NEW q \in Nat
    PROVE  Exited(r, q) \in LifecycleRecords
  <1>1. Minus(r.remaining, q) \in Nat
    BY DEF Minus, LifecycleRecords
  <1> QED BY <1>1 DEF Exited, LifecycleRecords

\* record_add's three fields move together, live and in a replay.
LEMMA GrownTyped ==
    ASSUME NEW r \in LifecycleRecords, NEW q \in Nat, NEW n \in Nat
    PROVE  /\ Grown(r, q, n) \in LifecycleRecords
           /\ Grown(r, q, n).status = r.status
           /\ Grown(r, q, n).original = r.original + q
           /\ Grown(r, q, n).remaining = r.remaining + q
           /\ Grown(r, q, n).finalized = r.finalized
  <1>1. r.original + q \in Nat /\ r.remaining + q \in Nat
    BY DEF LifecycleRecords
  <1> QED BY <1>1 DEF Grown, LifecycleRecords

\* So does one that intends to exit.
LEMMA IntentTyped ==
    ASSUME NEW r \in LifecycleRecords, NEW q \in Nat
    PROVE  /\ Intended(r, q) \in LifecycleRecords
           /\ Intended(r, q).status = "INTENT"
           /\ Intended(r, q).remaining = r.remaining
           /\ Intended(r, q).finalized = r.finalized
  BY DEF Intended, LifecycleRecords

\* A trade's totals stay totals when it is entered ...
LEMMA EnteredTyped ==
    ASSUME NEW b \in OrderTotals, NEW q \in Nat
    PROVE  [b EXCEPT !.entered = q] \in OrderTotals
  BY DEF OrderTotals

\* ... when some of it is sold ...
LEMMA SoldTyped ==
    ASSUME NEW b \in OrderTotals, NEW q \in Nat
    PROVE  [b EXCEPT !.sold = @ + q] \in OrderTotals
  BY DEF OrderTotals

\* ... and when it is added to.
LEMMA AddedTyped ==
    ASSUME NEW b \in OrderTotals, NEW q \in Nat, NEW k \in 1..MaxAdds
    PROVE  [b EXCEPT !.added = @ + q, !.addKeys = @ \cup {k}] \in OrderTotals
  <1>1. b.added + q \in Nat /\ b.addKeys \cup {k} \in SUBSET (1..MaxAdds)
    BY DEF OrderTotals
  <1> QED BY <1>1 DEF OrderTotals

\* A managed position that is reduced stays one.
LEMMA ReducedTyped ==
    ASSUME NEW m \in ManagedPositions, NEW q \in Nat
    PROVE  Reduced(m, q) \in ManagedPositions
  BY DEF Reduced, ManagedPositions, Untracked

\* A fault only counts.
LEMMA FaultTyped ==
    ASSUME TypeOK, NEW kind \in FaultKinds, Fault(kind)
    PROVE  used' \in [FaultKinds -> Nat]
  <1>1. used \in [FaultKinds -> Nat]
    BY DEF TypeOK
  <1>2. used[kind] + 1 \in Nat
    BY <1>1
  <1> QED BY <1>1, <1>2 DEF Fault

\* A save keeps the types.
LEMMA SaveTyped ==
    ASSUME TypeOK, NEW now \in [Trades -> ManagedPositions], Save(now)
    PROVE  /\ managed' \in [Trades -> ManagedPositions]
           /\ file' \in [Trades -> ManagedPositions]
           /\ used' \in [FaultKinds -> Nat]
  BY FaultTyped DEF TypeOK, Save, FaultKinds

\* So does a paper fill.
LEMMA PersistTyped ==
    ASSUME TypeOK, NEW after \in [Trades -> Nat], NEW book \in [Trades -> OrderTotals],
           NEW onFilled \in Tasks, NEW onRejected \in Tasks,
           Persist(after, book, onFilled, onRejected)
    PROVE  /\ wallet' \in [Trades -> Nat]
           /\ stored' \in [Trades -> Nat]
           /\ orders' \in [Trades -> OrderTotals]
           /\ task' \in Tasks
           /\ used' \in [FaultKinds -> Nat]
  BY FaultTyped DEF TypeOK, Persist, FaultKinds

-----------------------------------------------------------------------------
(* Type correctness.                                                       *)

\* The program starts with the types of its variables.
THEOREM TypeInit == Init => TypeOK
  BY ConstantsAssumption
  DEF Init, TypeOK, Base, Idle, Untracked, Tasks, OrderTotals, LifecycleRecords,
      ManagedPositions

\* Every step keeps the types.
LEMMA TypeStep ==
    ASSUME TypeOK, [Next]_vars
    PROVE  TypeOK'
  <1>1. CASE SubmitEntry
    <2>1. task.trade \in Trades /\ task.qty \in Nat
      BY <1>1, BusyTyped DEF TypeOK, SubmitEntry
    <2>2. /\ [wallet EXCEPT ![task.trade] = @ + task.qty] \in [Trades -> Nat]
          /\ [orders EXCEPT ![task.trade].entered = task.qty] \in [Trades -> OrderTotals]
      BY <2>1, EnteredTyped DEF TypeOK
    <2>3. /\ At("markOpen", task.trade, task.qty) \in Tasks
          /\ At("markRejected", task.trade, task.qty) \in Tasks
      BY <2>1, AtTyped DEF Stages
    <2>4. Go("markRejected", task.trade, task.qty) => task' \in Tasks
      BY <2>3 DEF Go
    <2>5. wallet' \in [Trades -> Nat] /\ stored' \in [Trades -> Nat]
             /\ orders' \in [Trades -> OrderTotals] /\ task' \in Tasks
             /\ used' \in [FaultKinds -> Nat]
      <3>1. CASE Go("markRejected", task.trade, task.qty)
                 /\ UNCHANGED <<wallet, stored, orders, fills, used>>
        BY <2>4, <3>1 DEF TypeOK
      <3>2. CASE Persist([wallet EXCEPT ![task.trade] = @ + task.qty],
                         [orders EXCEPT ![task.trade].entered = task.qty],
                         At("markOpen", task.trade, task.qty),
                         At("markRejected", task.trade, task.qty))
        BY <2>2, <2>3, <3>2, PersistTyped
      <3> QED BY <1>1, <3>1, <3>2 DEF SubmitEntry
    <2>6. fills' \in Nat
      BY <1>1 DEF TypeOK, SubmitEntry
    <2> QED BY <1>1, <2>5, <2>6 DEF TypeOK, SubmitEntry
  <1>2. CASE MarkOpen
    <2>1. task.trade \in Trades /\ task.qty \in Nat
      BY <1>2, BusyTyped DEF TypeOK, MarkOpen
    <2>2. task' \in Tasks
      BY <1>2, <2>1, AtTyped DEF MarkOpen, Go, Stages
    <2>3. Opened(ledger[task.trade], task.qty) \in LifecycleRecords
      BY <2>1, OpenedTyped DEF TypeOK
    <2>4. ledger' \in [Trades -> LifecycleRecords]
      BY <1>2, <2>1, <2>3 DEF TypeOK, MarkOpen
    <2> QED BY <1>2, <2>2, <2>4 DEF TypeOK, MarkOpen
  <1>3. CASE RecordEntry
    <2>1. task.trade \in Trades /\ task.qty \in Nat
      BY <1>3, BusyTyped DEF TypeOK, RecordEntry
    <2>2. task' \in Tasks
      BY <1>3, <2>1, AtTyped DEF RecordEntry, Go, Stages
    <2> QED BY <1>3, <2>2 DEF TypeOK, RecordEntry
  <1>4. CASE RegisterPosition
    <2>1. task.trade \in Trades /\ task.qty \in Nat
      BY <1>4, BusyTyped DEF TypeOK, RegisterPosition
    <2>2. task' \in Tasks
      BY <1>4, <2>1, AtTyped DEF TypeOK, RegisterPosition, Go, Stages
    <2>3. [managed EXCEPT ![task.trade] = [qty |-> task.qty, taken |-> FALSE]]
                 \in [Trades -> ManagedPositions]
      BY <2>1 DEF TypeOK, ManagedPositions
    <2> QED BY <1>4, <2>1, <2>2, <2>3, SaveTyped DEF TypeOK, RegisterPosition
  <1>5. CASE RecordTrade
    BY <1>5, IdleTyped, FaultTyped DEF TypeOK, RecordTrade, Done, FaultKinds
  <1>6. CASE MarkRejected
    <2>1. task.trade \in Trades /\ task.qty \in Nat
      BY <1>6, BusyTyped DEF TypeOK, MarkRejected
    <2>2. ledger' \in [Trades -> LifecycleRecords]
      BY <1>6, <2>1 DEF TypeOK, MarkRejected, LifecycleRecords
    <2> QED BY <1>6, <2>2, IdleTyped DEF TypeOK, MarkRejected, Done
  <1>7. CASE RecordExit
    <2>1. task.trade \in Trades /\ task.qty \in Nat
      BY <1>7, BusyTyped DEF TypeOK, RecordExit
    <2>2. task' \in Tasks
      BY <1>7, <2>1, AtTyped DEF RecordExit, Go, Stages
    <2>3. Exited(ledger[task.trade], task.qty) \in LifecycleRecords
      BY <2>1, ExitedTyped DEF TypeOK
    <2>4. ledger' \in [Trades -> LifecycleRecords]
      BY <1>7, <2>1, <2>3 DEF TypeOK, RecordExit
    <2> QED BY <1>7, <2>2, <2>4 DEF TypeOK, RecordExit
  <1>8. CASE RecordExitPnl
    <2>1. task.trade \in Trades /\ task.qty \in Nat
      BY <1>8, BusyTyped DEF TypeOK, RecordExitPnl
    <2>2. task' \in Tasks
      BY <1>8, <2>1, AtTyped DEF RecordExitPnl, Go, Stages
    <2> QED BY <1>8, <2>2 DEF TypeOK, RecordExitPnl
  <1>9. CASE ApplyExitFill
    <2>1. task.trade \in Trades /\ task.qty \in Nat
      BY <1>9, BusyTyped DEF TypeOK, ApplyExitFill
    <2>2. task' \in Tasks
      BY <1>9, <2>1, AtTyped, IdleTyped DEF TypeOK, ApplyExitFill, Go, Done, Stages
    <2>3. [managed EXCEPT ![task.trade] = Reduced(@, task.qty)] \in [Trades -> ManagedPositions]
      BY <2>1, ReducedTyped DEF TypeOK
    <2> QED BY <1>9, <2>1, <2>2, <2>3, SaveTyped DEF TypeOK, ApplyExitFill
  <1>10. CASE RecordAdd
    <2>1. task.trade \in Trades /\ task.qty \in Nat
      BY <1>10, BusyTyped DEF TypeOK, RecordAdd
    <2>2. task' \in Tasks
      <3>1. At("applyAdd", task.trade, task.qty) \in Tasks
        BY <2>1, AtTyped DEF Stages
      <3>2. task' \in {At("applyAdd", task.trade, task.qty), Idle}
        BY <1>10 DEF RecordAdd, Go, Done
      <3> QED BY <3>1, <3>2, IdleTyped
    <2>3. ledger' \in [Trades -> LifecycleRecords]
      <3>1. ledger[task.trade] \in LifecycleRecords /\ ledger[task.trade].addCount + 1 \in Nat
        BY <2>1 DEF TypeOK, LifecycleRecords
      <3>2. Grown(ledger[task.trade], task.qty, ledger[task.trade].addCount + 1) \in LifecycleRecords
        BY <2>1, <3>1, GrownTyped
      <3> QED BY <1>10, <2>1, <3>2 DEF TypeOK, RecordAdd
    <2> QED BY <1>10, <2>1, <2>2, <2>3 DEF TypeOK, RecordAdd
  <1>11. CASE ApplyAddFill
    <2>1. task.trade \in Trades /\ task.qty \in Nat
      BY <1>11, BusyTyped DEF TypeOK, ApplyAddFill
    <2>2. task' \in Tasks
      BY <1>11, <2>1, AtTyped DEF TypeOK, ApplyAddFill, Go, Stages
    <2>3. [managed EXCEPT ![task.trade].qty = @ + task.qty] \in [Trades -> ManagedPositions]
      <3>1. /\ managed \in [Trades -> ManagedPositions]
            /\ managed[task.trade].qty + task.qty \in Nat
        BY <2>1 DEF TypeOK, ManagedPositions
      <3> QED BY <2>1, <3>1 DEF ManagedPositions
    <2> QED BY <1>11, <2>1, <2>2, <2>3, SaveTyped DEF TypeOK, ApplyAddFill
  <1>12. CASE RecordAddEntry
    BY <1>12, IdleTyped DEF TypeOK, RecordAddEntry, Done
  <1>13. CASE RecordOutcome
    <2>1. task.trade \in Trades /\ task.qty \in Nat
      BY <1>13, BusyTyped DEF TypeOK, RecordOutcome
    <2>2. task' \in Tasks
      BY <1>13, <2>1, AtTyped, IdleTyped DEF TypeOK, RecordOutcome, Go, Done, Stages
    <2>3. perf' \in [Trades -> Nat] /\ used' \in [FaultKinds -> Nat]
      BY <1>13, <2>1, FaultTyped DEF TypeOK, RecordOutcome, FaultKinds
    <2> QED BY <1>13, <2>1, <2>2, <2>3 DEF TypeOK, RecordOutcome
  <1>14. CASE CloseTrade
    <2>1. task.trade \in Trades /\ task.qty \in Nat
      BY <1>14, BusyTyped DEF TypeOK, CloseTrade
    <2>2. task' \in Tasks
      BY <1>14, <2>1, AtTyped DEF TypeOK, CloseTrade, Go, Stages
    <2>3. journal' \in [Trades -> {"none", "open", "closed"}] /\ used' \in [FaultKinds -> Nat]
      BY <1>14, <2>1, FaultTyped DEF TypeOK, CloseTrade, FaultKinds
    <2> QED BY <1>14, <2>1, <2>2, <2>3 DEF TypeOK, CloseTrade
  <1>15. CASE CreditLessons
    <2>1. task.trade \in Trades /\ task.qty \in Nat
      BY <1>15, BusyTyped DEF TypeOK, CreditLessons
    <2>2. task' \in Tasks
      BY <1>15, <2>1, AtTyped DEF TypeOK, CreditLessons, Go, Stages
    <2> QED BY <1>15, <2>1, <2>2 DEF TypeOK, CreditLessons
  <1>16. CASE MarkFinalized
    <2>1. task.trade \in Trades /\ task.qty \in Nat
      BY <1>16, BusyTyped DEF TypeOK, MarkFinalized
    <2>2. ledger[task.trade] \in LifecycleRecords
      BY <2>1 DEF TypeOK
    <2>3. [ledger[task.trade] EXCEPT !.finalized = TRUE] \in LifecycleRecords
      BY <2>2 DEF LifecycleRecords
    <2>4. ledger' \in [Trades -> LifecycleRecords]
      BY <1>16, <2>1, <2>3 DEF TypeOK, MarkFinalized
    <2> QED BY <1>16, <2>4, IdleTyped DEF TypeOK, MarkFinalized, Done
  <1>17. CASE Boot
    BY <1>17, FaultTyped DEF TypeOK, Boot, durable, FaultKinds
  <1>18. CASE WalletPassDone
    BY <1>18 DEF TypeOK, WalletPassDone, durable
  <1>19. CASE IntentsPassDone
    BY <1>19 DEF TypeOK, IntentsPassDone, durable
  <1>20. CASE GhostsPassDone
    BY <1>20 DEF TypeOK, GhostsPassDone, durable
  <1>21. CASE ReplayDone
    BY <1>21 DEF TypeOK, ReplayDone, durable
  <1>22. CASE CheckExits
    BY <1>22 DEF TypeOK, CheckExits
  <1>23. CASE Crash
    <2>1. used' \in [FaultKinds -> Nat]
      BY <1>23, FaultTyped DEF Crash, FaultKinds
    <2>2. managed' \in [Trades -> ManagedPositions]
      BY <1>23 DEF Crash, Untracked, ManagedPositions
    <2> QED BY <1>23, <2>1, <2>2, IdleTyped DEF TypeOK, Crash, durable
  <1>24. CASE Raise
    <2>1. used' \in [FaultKinds -> Nat]
      BY <1>24, FaultTyped DEF Raise, FaultKinds
    <2> QED BY <1>24, <2>1, IdleTyped DEF TypeOK, Raise, durable, Done
  <1>25. ASSUME NEW t \in Trades, ImportLegacy(t) PROVE TypeOK'
    <2>1. ledger[t] \in LifecycleRecords /\ wallet[t] \in Nat
      BY DEF TypeOK
    <2>2. Intended(ledger[t], wallet[t]) \in LifecycleRecords
      BY <2>1, IntentTyped
    <2>3. ledger' \in [Trades -> LifecycleRecords]
      BY <1>25, <2>2 DEF TypeOK, ImportLegacy
    <2> QED BY <1>25, <2>3 DEF TypeOK, ImportLegacy
  <1>26. ASSUME NEW t \in Trades, RepairOpen(t) PROVE TypeOK'
    BY <1>26, OpenedTyped DEF TypeOK, RepairOpen
  <1>27. ASSUME NEW t \in Trades, RestoreManager(t) PROVE TypeOK'
    BY <1>27, SaveTyped DEF TypeOK, RestoreManager, ManagedPositions
  <1>28. ASSUME NEW t \in Trades, RepairFromOrders(t) PROVE TypeOK'
    <2>1. ledger[t] \in LifecycleRecords /\ orders[t] \in OrderTotals
      BY DEF TypeOK
    <2> DEFINE opened == Opened(ledger[t], orders[t].entered)
               grown == Grown(opened, orders[t].added, Cardinality(orders[t].addKeys))
    <2>2. Cardinality(orders[t].addKeys) \in Nat
      BY <2>1, AddKeysFinite DEF OrderTotals
    <2>3. opened \in LifecycleRecords
      BY <2>1, OpenedTyped DEF OrderTotals
    <2>4. grown \in LifecycleRecords
      BY <2>1, <2>2, <2>3, GrownTyped DEF OrderTotals
    <2>5. Exited(grown, orders[t].sold) \in LifecycleRecords
      BY <2>1, <2>4, ExitedTyped DEF OrderTotals
    <2>6. [ledger[t] EXCEPT !.status = "REJECTED"] \in LifecycleRecords
      BY <2>1 DEF LifecycleRecords
    <2>7. \E r \in LifecycleRecords : ledger' = [ledger EXCEPT ![t] = r]
      BY <1>28, <2>4, <2>5, <2>6 DEF RepairFromOrders
    <2> QED BY <1>28, <2>7 DEF TypeOK, RepairFromOrders
  <1>29. ASSUME NEW t \in Trades, RemoveGhost(t) PROVE TypeOK'
    BY <1>29, SaveTyped DEF TypeOK, RemoveGhost, ManagedPositions, Untracked
  <1>30. ASSUME NEW t \in Trades, Replay(t) PROVE TypeOK'
    BY <1>30, AtTyped DEF TypeOK, Replay, durable, Go, Stages
  <1>31. ASSUME NEW t \in Trades, CreateIntent(t) PROVE TypeOK'
    <2>1. PICK q \in Nat : /\ ledger' = [ledger EXCEPT ![t] = Intended(@, q)]
                          /\ Go("submit", t, q)
      BY <1>31, ConstantsAssumption DEF CreateIntent
    <2>2. task' \in Tasks
      BY <2>1, AtTyped DEF Go, Stages
    <2>3. ledger' \in [Trades -> LifecycleRecords]
      BY <2>1, IntentTyped DEF TypeOK
    <2> QED BY <1>31, <2>2, <2>3 DEF TypeOK, CreateIntent
  <1>32. ASSUME NEW t \in Trades, ExitFill(t) PROVE TypeOK'
    <2>1. PICK q \in ExitSizes(managed[t]) :
             /\ q <= wallet[t]
             /\ Persist([wallet EXCEPT ![t] = @ - q], [orders EXCEPT ![t].sold = @ + q],
                        At("recordExit", t, q), Idle)
      BY <1>32 DEF ExitFill
    <2>2. q \in Nat /\ q > 0
      BY <1>32, ExitSizesPositive DEF TypeOK, ExitFill, Tracked, ManagedPositions
    <2>3. [wallet EXCEPT ![t] = @ - q] \in [Trades -> Nat]
      BY <2>1, <2>2 DEF TypeOK
    <2>4. [orders EXCEPT ![t].sold = @ + q] \in [Trades -> OrderTotals]
      BY <2>2, SoldTyped DEF TypeOK
    <2>5. At("recordExit", t, q) \in Tasks
      BY <2>2, AtTyped DEF Stages
    <2> QED BY <1>32, <2>1, <2>3, <2>4, <2>5, IdleTyped, PersistTyped DEF TypeOK, ExitFill
  <1>33. ASSUME NEW t \in Trades, AddFill(t) PROVE TypeOK'
    <2> DEFINE q == ledger[t].original \div AddDivisor
               key == ledger[t].addCount + 1
    <2>1. q \in Nat /\ key \in 1..MaxAdds
      BY <1>33, Quotient, ConstantsAssumption DEF TypeOK, LifecycleRecords, AddFill
    <2>2. [wallet EXCEPT ![t] = @ + q] \in [Trades -> Nat]
      BY <2>1 DEF TypeOK
    <2>3. [orders EXCEPT ![t].added = @ + q, ![t].addKeys = @ \cup {key}]
             \in [Trades -> OrderTotals]
      BY <2>1, AddedTyped DEF TypeOK
    <2>4. At("recordAdd", t, q) \in Tasks
      BY <2>1, AtTyped DEF Stages
    <2>5. Persist([wallet EXCEPT ![t] = @ + q],
                  [orders EXCEPT ![t].added = @ + q, ![t].addKeys = @ \cup {key}],
                  At("recordAdd", t, q), Idle)
      BY <1>33 DEF AddFill
    <2>6. /\ wallet' \in [Trades -> Nat] /\ stored' \in [Trades -> Nat]
          /\ orders' \in [Trades -> OrderTotals] /\ task' \in Tasks /\ used' \in [FaultKinds -> Nat]
      <3> HIDE DEF q, key
      <3> QED BY <2>2, <2>3, <2>4, <2>5, IdleTyped, PersistTyped
    <2> QED BY <1>33, <2>6 DEF TypeOK, AddFill
  <1>34. CASE UNCHANGED vars
    BY <1>34 DEF TypeOK, vars, durable
  <1> QED BY <1>1, <1>2, <1>3, <1>4, <1>5, <1>6, <1>7, <1>8, <1>9, <1>10, <1>11,
             <1>12, <1>13, <1>14, <1>15, <1>16, <1>17, <1>18, <1>19, <1>20, <1>21,
             <1>22, <1>23, <1>24, <1>25, <1>26, <1>27, <1>28, <1>29, <1>30, <1>31,
             <1>32, <1>33, <1>34
        DEF Next, TaskStep, EntryStep, ExitStep, AddStep, FinalizeStep, StartupStep

\* Every reachable state is well-typed, whatever fails: the model's stores
\* always hold records of the code's shapes.
THEOREM TypeCorrect == Spec => []TypeOK
  <1>1. Init => TypeOK
    BY TypeInit
  <1>2. TypeOK /\ [Next]_vars => TypeOK'
    BY TypeStep
  <1> QED BY <1>1, <1>2, PTL DEF Spec

-----------------------------------------------------------------------------
(* Which actions write which store.                                        *)

LedgerWrite ==
    \/ MarkOpen \/ MarkRejected \/ RecordExit \/ RecordAdd \/ MarkFinalized
    \/ \E t \in Trades : \/ CreateIntent(t) \/ ImportLegacy(t) \/ RepairOpen(t)
                         \/ RepairFromOrders(t)

OrderWrite == SubmitEntry \/ \E t \in Trades : ExitFill(t) \/ AddFill(t)

ManagerWrite ==
    \/ RegisterPosition \/ ApplyExitFill \/ ApplyAddFill \/ CheckExits
    \/ \E t \in Trades : RestoreManager(t) \/ RemoveGhost(t)

\* A step that writes neither the ledger, nor the orders, nor the manager,
\* and is no start or death of the process, leaves them and the wallet alone.
LEMMA Frame ==
    ASSUME [Next]_vars
    PROVE  /\ LedgerWrite \/ UNCHANGED ledger
           /\ OrderWrite \/ UNCHANGED <<stored, orders>>
           /\ OrderWrite \/ Boot \/ Crash \/ UNCHANGED wallet
           /\ ManagerWrite \/ UNCHANGED file
           /\ ManagerWrite \/ Boot \/ Crash \/ UNCHANGED managed
  <1>1. CASE EntryStep
    BY <1>1 DEF EntryStep, LedgerWrite, OrderWrite, ManagerWrite, SubmitEntry, MarkOpen,
       RecordEntry, RegisterPosition, RecordTrade, MarkRejected
  <1>2. CASE ExitStep
    BY <1>2 DEF ExitStep, LedgerWrite, OrderWrite, ManagerWrite, RecordExit, RecordExitPnl,
       ApplyExitFill
  <1>3. CASE AddStep
    BY <1>3 DEF AddStep, LedgerWrite, OrderWrite, ManagerWrite, RecordAdd, ApplyAddFill,
       RecordAddEntry
  <1>4. CASE FinalizeStep
    BY <1>4 DEF FinalizeStep, LedgerWrite, OrderWrite, ManagerWrite, RecordOutcome,
       CloseTrade, CreditLessons, MarkFinalized
  <1>5. CASE StartupStep
    BY <1>5 DEF StartupStep, LedgerWrite, OrderWrite, ManagerWrite, Boot, WalletPassDone,
       IntentsPassDone, GhostsPassDone, ReplayDone, ImportLegacy, RepairOpen,
       RestoreManager, RepairFromOrders, RemoveGhost, Replay, durable
  <1>6. CASE \E t \in Trades : CreateIntent(t) \/ ExitFill(t) \/ AddFill(t)
    BY <1>6 DEF LedgerWrite, OrderWrite, ManagerWrite, CreateIntent, ExitFill, AddFill
  <1>7. CASE CheckExits \/ Crash \/ Raise \/ UNCHANGED vars
    BY <1>7 DEF LedgerWrite, OrderWrite, ManagerWrite, CheckExits, Crash, Raise, vars, durable
  <1> QED BY <1>1, <1>2, <1>3, <1>4, <1>5, <1>6, <1>7 DEF Next, TaskStep

-----------------------------------------------------------------------------
(* What a step does to the ledger: nothing, or one move of one trade.      *)

Only(t) == ledger' = [ledger EXCEPT ![t] = ledger'[t]]

Proposed(t) ==
    /\ ledger[t].status = "none" /\ ledger'[t].status = "INTENT"
    /\ ledger'[t].remaining = ledger[t].remaining
    /\ ledger'[t].finalized = ledger[t].finalized
Rejected(t) ==
    /\ ledger[t].status = "INTENT" /\ ledger'[t].status = "REJECTED"
    /\ ledger'[t].remaining = ledger[t].remaining
    /\ ledger'[t].finalized = ledger[t].finalized
\* A trade is opened with no more shares than its orders bought.
OpenedNow(t) ==
    /\ ledger[t].status = "INTENT" /\ ledger'[t].status = "OPEN"
    /\ ledger'[t].remaining > 0
    /\ ledger'[t].original = ledger'[t].remaining
    /\ ledger'[t].original <= Bought(t)
    /\ ledger'[t].finalized = ledger[t].finalized
Added(t) ==
    /\ task.at = "recordAdd" /\ task.trade = t
    /\ task'.at \notin {"recordExit", "recordAdd"}
    /\ ledger[t].status \in OpenStatus /\ ledger'[t].status = ledger[t].status
    /\ ledger'[t].remaining = ledger[t].remaining + task.qty
    /\ ledger'[t].original = ledger[t].original + task.qty
    /\ ledger'[t].finalized = ledger[t].finalized
Sold(t) ==
    /\ task.at = "recordExit" /\ task.trade = t
    /\ task'.at \notin {"recordExit", "recordAdd"}
    /\ ledger[t].status \in OpenStatus
    /\ ledger'[t].status = IF ledger'[t].remaining = 0 THEN "CLOSED" ELSE "PARTIAL"
    /\ ledger'[t].remaining = Minus(ledger[t].remaining, task.qty)
    /\ ledger'[t].original = ledger[t].original
    /\ ledger'[t].finalized = ledger[t].finalized
Finalized(t) ==
    /\ ledger[t].status = "CLOSED" /\ ledger'[t].status = "CLOSED"
    /\ ledger'[t].remaining = ledger[t].remaining
    /\ ledger'[t].original = ledger[t].original
    /\ ledger'[t].finalized

LedgerMove(t) ==
    /\ Only(t)
    /\ \/ Proposed(t) \/ Rejected(t) \/ OpenedNow(t) \/ Added(t) \/ Sold(t) \/ Finalized(t)

\* create_intent proposes a trade, whoever calls it.
LEMMA Proposing ==
    ASSUME TypeOK, NEW t \in Trades, NEW q \in Nat, ledger[t].status = "none",
           ledger' = [ledger EXCEPT ![t] = Intended(@, q)]
    PROVE  LedgerMove(t)
  <1>1. ledger[t] \in LifecycleRecords
    BY DEF TypeOK
  <1>2. ledger'[t] = Intended(ledger[t], q)
    BY DEF TypeOK
  <1>3. /\ Intended(ledger[t], q).status = "INTENT"
        /\ Intended(ledger[t], q).remaining = ledger[t].remaining
        /\ Intended(ledger[t], q).finalized = ledger[t].finalized
    BY <1>1, IntentTyped
  <1>4. Proposed(t)
    BY <1>2, <1>3 DEF Proposed
  <1>5. Only(t)
    BY <1>2 DEF Only
  <1> QED BY <1>4, <1>5 DEF LedgerMove

\* A step moves the ledger record of one trade, or none.
LEMMA LedgerMoves ==
    ASSUME IInv, [Next]_vars
    PROVE  UNCHANGED ledger \/ \E t \in Trades : LedgerMove(t)
  <1> USE DEF IInv
  <1>1. CASE MarkOpen
    <2>1. task.trade \in Trades /\ task.qty \in Nat
      BY <1>1, BusyTyped DEF TypeOK, MarkOpen
    <2>2. /\ ledger[task.trade] \in LifecycleRecords
          /\ ledger[task.trade].status = "INTENT"
          /\ task.qty > 0 /\ task.qty = orders[task.trade].entered
      BY <1>1, <2>1 DEF TypeOK, TaskInv, MarkOpen
    <2>3. task.qty <= Bought(task.trade)
      BY <2>1, <2>2, ConstantsAssumption DEF TypeOK, OrderTotals, Bought, Base
    <2>4. OpenedNow(task.trade) /\ Only(task.trade)
      BY <1>1, <2>1, <2>2, <2>3 DEF TypeOK, MarkOpen, Opened, OpenedNow, Only, LifecycleRecords
    <2> QED BY <2>1, <2>4 DEF LedgerMove
  <1>2. CASE MarkRejected
    <2>1. task.trade \in Trades
      BY <1>2, BusyTyped DEF TypeOK, MarkRejected
    <2>2. Rejected(task.trade) /\ Only(task.trade)
      BY <1>2, <2>1 DEF TypeOK, TaskInv, MarkRejected, Rejected, Only, LifecycleRecords
    <2> QED BY <2>1, <2>2 DEF LedgerMove
  <1>3. CASE RecordExit
    <2>1. task.trade \in Trades /\ task.qty \in Nat
      BY <1>3, BusyTyped DEF TypeOK, RecordExit
    <2>2. /\ ledger[task.trade] \in LifecycleRecords /\ Live(task.trade)
          /\ ledger' = [ledger EXCEPT ![task.trade] = Exited(@, task.qty)]
          /\ ledger'[task.trade] = Exited(ledger[task.trade], task.qty)
      BY <1>3, <2>1 DEF TypeOK, TaskInv, RecordExit
    <2>3. CASE ledger[task.trade].status = "CLOSED"
      BY <2>1, <2>2, <2>3 DEF TypeOK, Exited
    <2>4. CASE ledger[task.trade].status # "CLOSED"
      <3>1. ledger[task.trade].status \in OpenStatus
        BY <2>2, <2>4 DEF Live, LiveStatus
      <3>2. Minus(ledger[task.trade].remaining, task.qty) \in Nat
        BY <2>1, <2>2 DEF Minus, LifecycleRecords
      <3>3. Sold(task.trade) /\ Only(task.trade)
        BY <1>3, <2>1, <2>2, <2>4, <3>1, <3>2
        DEF RecordExit, Go, At, Exited, Sold, Only, LifecycleRecords
      <3> QED BY <2>1, <3>3 DEF LedgerMove
    <2> QED BY <2>3, <2>4
  <1>4. CASE RecordAdd
    <2>1. task.trade \in Trades /\ task.qty \in Nat
      BY <1>4, BusyTyped DEF TypeOK, RecordAdd
    <2>2. ledger[task.trade] \in LifecycleRecords
      BY <2>1 DEF TypeOK
    <2>3. CASE ledger[task.trade].status \in OpenStatus
      <3> DEFINE grown == Grown(ledger[task.trade], task.qty, ledger[task.trade].addCount + 1)
      <3>1. ledger' = [ledger EXCEPT ![task.trade] = grown] /\ task'.at = "applyAdd"
        BY <1>4, <2>3 DEF RecordAdd, Go, At
      <3>2. ledger'[task.trade] = grown
        BY <2>1, <3>1 DEF TypeOK
      <3>3. /\ grown.status = ledger[task.trade].status
            /\ grown.original = ledger[task.trade].original + task.qty
            /\ grown.remaining = ledger[task.trade].remaining + task.qty
            /\ grown.finalized = ledger[task.trade].finalized
        <4>1. ledger[task.trade].addCount + 1 \in Nat
          BY <2>2 DEF LifecycleRecords
        <4> QED BY <2>1, <2>2, <4>1, GrownTyped
      <3> HIDE DEF grown
      <3>4. Added(task.trade) /\ Only(task.trade)
        BY <1>4, <2>1, <2>3, <3>1, <3>2, <3>3 DEF RecordAdd, Added, Only
      <3> QED BY <2>1, <3>4 DEF LedgerMove
    <2> QED BY <1>4, <2>3 DEF RecordAdd
  <1>5. CASE MarkFinalized
    <2>1. task.trade \in Trades
      BY <1>5, BusyTyped DEF TypeOK, MarkFinalized
    <2>2. Finalized(task.trade) /\ Only(task.trade)
      BY <1>5, <2>1 DEF TypeOK, TaskInv, MarkFinalized, Finalized, Only, LifecycleRecords
    <2> QED BY <2>1, <2>2 DEF LedgerMove
  <1>6. ASSUME NEW t \in Trades, CreateIntent(t) PROVE LedgerMove(t)
    <2>1. PICK q \in EntryQty :
             ledger' = [ledger EXCEPT ![t] = Intended(@, q)]
      BY <1>6 DEF CreateIntent
    <2>2. ledger[t].status = "none"
      BY <1>6 DEF CreateIntent
    <2>3. q \in Nat
      BY ConstantsAssumption
    <2> QED BY <2>1, <2>2, <2>3, Proposing
  <1>7. ASSUME NEW t \in Trades, ImportLegacy(t) PROVE LedgerMove(t)
    <2>1. wallet[t] \in Nat
      BY DEF TypeOK
    <2> QED BY <1>7, <2>1, Proposing DEF ImportLegacy, NeedsImport
  <1>8. ASSUME NEW t \in Trades, RepairOpen(t) PROVE LedgerMove(t)
    <2>1. wallet[t] \in Nat /\ wallet[t] > 0 /\ wallet[t] <= Bought(t)
      BY <1>8 DEF TypeOK, HoldingsInv, RepairOpen, NeedsOpening, Held
    <2>2. OpenedNow(t) /\ Only(t)
      BY <1>8, <2>1 DEF TypeOK, RepairOpen, NeedsOpening, Opened, OpenedNow, Only, LifecycleRecords
    <2> QED BY <2>2 DEF LedgerMove
  <1>9. ASSUME NEW t \in Trades, RepairFromOrders(t) PROVE LedgerMove(t)
    <2>1. /\ ledger[t] \in LifecycleRecords /\ ledger[t].status = "INTENT"
          /\ orders[t] \in OrderTotals
      BY <1>9 DEF TypeOK, RepairFromOrders, Orphan
    <2>2. orders[t].added = 0 /\ orders[t].sold = 0
      BY <2>1 DEF OrdersInv, Live, LiveStatus, OpenStatus
    <2>3. CASE orders[t].entered = 0
      BY <1>9, <2>1, <2>3 DEF TypeOK, RepairFromOrders, LedgerMove, Rejected, Only, LifecycleRecords
    <2>4. CASE orders[t].entered # 0
      <3>1. orders[t].entered > 0 /\ orders[t].entered <= Bought(t)
        BY <2>1, <2>4, ConstantsAssumption DEF Bought, Base, OrderTotals
      <3> DEFINE opened == Opened(ledger[t], orders[t].entered)
                 grown == Grown(opened, orders[t].added, Cardinality(orders[t].addKeys))
      <3>2. opened \in LifecycleRecords /\ Cardinality(orders[t].addKeys) \in Nat
        BY <2>1, OpenedTyped, AddKeysFinite DEF OrderTotals
      <3>3. /\ opened.status = "OPEN" /\ opened.finalized = ledger[t].finalized
            /\ opened.original = orders[t].entered /\ opened.remaining = orders[t].entered
        BY <2>1 DEF Opened, LifecycleRecords
      <3> HIDE DEF opened
      <3>4. /\ grown.status = "OPEN" /\ grown.finalized = ledger[t].finalized
            /\ grown.original = orders[t].entered /\ grown.remaining = orders[t].entered
        <4>1. orders[t].added \in Nat /\ orders[t].entered \in Nat
          BY <2>1 DEF OrderTotals
        <4>2. /\ grown.status = opened.status
              /\ grown.original = opened.original + orders[t].added
              /\ grown.remaining = opened.remaining + orders[t].added
              /\ grown.finalized = opened.finalized
          BY <3>2, <4>1, GrownTyped
        <4> HIDE DEF grown
        <4> QED BY <2>2, <3>3, <4>1, <4>2
      <3>5. ledger' = [ledger EXCEPT ![t] = grown]
        BY <1>9, <2>2, <2>4 DEF RepairFromOrders, opened
      <3> HIDE DEF grown
      <3>6. ledger'[t] = grown
        BY <3>5 DEF TypeOK
      <3>7. OpenedNow(t) /\ Only(t)
        BY <2>1, <3>1, <3>4, <3>5, <3>6 DEF OpenedNow, Only
      <3> QED BY <3>7 DEF LedgerMove
    <2> QED BY <2>3, <2>4
  <1> QED BY <1>1, <1>2, <1>3, <1>4, <1>5, <1>6, <1>7, <1>8, <1>9, Frame DEF LedgerWrite

-----------------------------------------------------------------------------
(* The inductive invariant, one conjunct at a time.                        *)

\* An opened trade stays opened, and no trade becomes unknown again.
LEMMA LiveStays ==
    ASSUME IInv, [Next]_vars, NEW t \in Trades
    PROVE  /\ Live(t) => Live(t)'
           /\ ledger[t].status # "none" => ledger'[t].status # "none"
  <1>1. CASE UNCHANGED ledger
    BY <1>1 DEF Live
  <1>2. ASSUME NEW u \in Trades, LedgerMove(u)
        PROVE  /\ Live(t) => Live(t)'
               /\ ledger[t].status # "none" => ledger'[t].status # "none"
    <2>1. CASE u = t
      BY <1>2, <2>1 DEF LedgerMove, Proposed, Rejected, OpenedNow, Added, Sold, Finalized,
         Live, LiveStatus, OpenStatus
    <2>2. CASE u # t
      <3>1. ledger'[t] = ledger[t]
        BY <1>2, <2>2 DEF IInv, TypeOK, LedgerMove, Only
      <3> QED BY <3>1 DEF Live
    <2> QED BY <2>1, <2>2
  <1> QED BY <1>1, <1>2, LedgerMoves

\* A trade becomes opened only by markOpen, or at start-up.
LEMMA OrdersStep ==
    ASSUME IInv, [Next]_vars
    PROVE  OrdersInv'
  <1> SUFFICES ASSUME NEW t \in Trades
               PROVE  /\ ledger'[t].status = "none" => orders'[t].entered = 0
                      /\ ~Live(t)' => orders'[t].added = 0 /\ orders'[t].sold = 0
    BY DEF OrdersInv, Live
  <1>1. /\ ledger'[t].status = "none" => orders[t].entered = 0
        /\ ~Live(t)' => orders[t].added = 0 /\ orders[t].sold = 0
    BY LiveStays DEF IInv, OrdersInv
  <1>2. CASE SubmitEntry
    <2>1. task.trade \in Trades /\ ledger[task.trade].status = "INTENT"
      BY <1>2, BusyTyped DEF IInv, TypeOK, TaskInv, SubmitEntry
    <2>2. UNCHANGED ledger
      BY <1>2 DEF SubmitEntry
    <2>3. orders' = orders \/ orders' = [orders EXCEPT ![task.trade].entered = task.qty]
      BY <1>2 DEF SubmitEntry, Persist
    <2> QED BY <1>1, <2>1, <2>2, <2>3 DEF IInv, TypeOK, OrderTotals
  <1>3. ASSUME NEW u \in Trades, ExitFill(u)
        PROVE  /\ ledger'[t].status = "none" => orders'[t].entered = 0
               /\ ~Live(t)' => orders'[t].added = 0 /\ orders'[t].sold = 0
    <2>1. Live(u)'
      BY <1>3, LiveStays DEF IInv, ManagedInv, ExitFill, Tracked
    <2>2. PICK q \in ExitSizes(managed[u]) : orders' = [orders EXCEPT ![u].sold = @ + q]
      BY <1>3 DEF ExitFill, Persist
    <2> QED BY <1>1, <2>1, <2>2 DEF IInv, TypeOK, OrderTotals, Live
  <1>4. ASSUME NEW u \in Trades, AddFill(u)
        PROVE  /\ ledger'[t].status = "none" => orders'[t].entered = 0
               /\ ~Live(t)' => orders'[t].added = 0 /\ orders'[t].sold = 0
    <2>1. Live(u)'
      BY <1>4, LiveStays DEF IInv, ManagedInv, AddFill, Tracked
    <2>2. \E q, key : orders' = [orders EXCEPT ![u].added = @ + q, ![u].addKeys = @ \cup {key}]
      BY <1>4 DEF AddFill, Persist
    <2> QED BY <1>1, <2>1, <2>2 DEF IInv, TypeOK, OrderTotals, Live
  <1>5. CASE UNCHANGED orders
    BY <1>1, <1>5
  <1> QED BY <1>2, <1>3, <1>4, <1>5, Frame DEF OrderWrite

\* Every step keeps the managed positions.
LEMMA ManagedStep ==
    ASSUME IInv, [Next]_vars
    PROVE  ManagedInv'
  <1> SUFFICES ASSUME NEW t \in Trades, ~Live(t)'
               PROVE  ~(managed'[t].qty > 0) /\ ~(file'[t].qty > 0)
    BY DEF ManagedInv, Live
  <1>1. ~Live(t) /\ ~(managed[t].qty > 0) /\ ~(file[t].qty > 0)
    BY LiveStays DEF IInv, ManagedInv
  <1>2. ASSUME NEW now, now \in [Trades -> ManagedPositions], Save(now), ~(now[t].qty > 0)
        PROVE  ~(managed'[t].qty > 0) /\ ~(file'[t].qty > 0)
    BY <1>1, <1>2 DEF Save
  <1>3. CASE RegisterPosition
    <2>1. /\ task.trade \in Trades /\ task.qty \in Nat /\ Live(task.trade)
          /\ Save([managed EXCEPT ![task.trade] = [qty |-> task.qty, taken |-> FALSE]])
      BY <1>3, BusyTyped DEF IInv, TypeOK, TaskInv, RegisterPosition
    <2>2. t # task.trade
      BY <1>1, <2>1
    <2> QED BY <1>1, <1>2, <2>1, <2>2 DEF IInv, TypeOK, ManagedPositions
  <1>4. CASE ApplyExitFill
    <2>1. /\ task.trade \in Trades /\ task.qty \in Nat /\ Live(task.trade)
          /\ Save([managed EXCEPT ![task.trade] = Reduced(@, task.qty)])
      BY <1>4, BusyTyped DEF IInv, TypeOK, TaskInv, ApplyExitFill
    <2>2. t # task.trade
      BY <1>1, <2>1
    <2>3. [managed EXCEPT ![task.trade] = Reduced(@, task.qty)] \in [Trades -> ManagedPositions]
      BY <2>1, ReducedTyped DEF IInv, TypeOK
    <2> QED BY <1>1, <1>2, <2>1, <2>2, <2>3 DEF IInv, TypeOK
  <1>5. CASE ApplyAddFill
    <2>1. /\ task.trade \in Trades /\ task.qty \in Nat /\ Live(task.trade)
          /\ \/ Save([managed EXCEPT ![task.trade].qty = @ + task.qty])
             \/ UNCHANGED <<managed, file, used>>
      BY <1>5, BusyTyped DEF IInv, TypeOK, TaskInv, ApplyAddFill
    <2>2. t # task.trade
      BY <1>1, <2>1
    <2>3. [managed EXCEPT ![task.trade].qty = @ + task.qty] \in [Trades -> ManagedPositions]
      BY <2>1 DEF IInv, TypeOK, ManagedPositions
    <2> QED BY <1>1, <1>2, <2>1, <2>2, <2>3 DEF IInv, TypeOK
  <1>6. CASE CheckExits
    BY <1>1, <1>6 DEF CheckExits
  <1>7. ASSUME NEW u \in Trades, RestoreManager(u)
        PROVE  ~(managed'[t].qty > 0) /\ ~(file'[t].qty > 0)
    <2>1. /\ Live(u) /\ wallet[u] \in Nat
          /\ Save([managed EXCEPT ![u] = [qty |-> wallet[u], taken |-> FALSE]])
      BY <1>7 DEF IInv, TypeOK, RestoreManager, NeedsManager, Live, LiveStatus
    <2>2. t # u
      BY <1>1, <2>1
    <2> QED BY <1>1, <1>2, <2>1, <2>2 DEF IInv, TypeOK, ManagedPositions
  <1>8. ASSUME NEW u \in Trades, RemoveGhost(u)
        PROVE  ~(managed'[t].qty > 0) /\ ~(file'[t].qty > 0)
    <2>1. Save([managed EXCEPT ![u] = Untracked])
      BY <1>8 DEF RemoveGhost
    <2>2. /\ [managed EXCEPT ![u] = Untracked] \in [Trades -> ManagedPositions]
          /\ ~([managed EXCEPT ![u] = Untracked][t].qty > 0)
      BY <1>1 DEF IInv, TypeOK, ManagedPositions, Untracked
    <2> QED BY <1>2, <2>1, <2>2
  <1>9. CASE Boot
    BY <1>1, <1>9 DEF Boot, durable
  <1>10. CASE Crash
    BY <1>1, <1>10 DEF Crash, durable, Untracked
  <1>11. CASE UNCHANGED <<managed, file>>
    BY <1>1, <1>11
  <1> QED BY <1>3, <1>4, <1>5, <1>6, <1>7, <1>8, <1>9, <1>10, <1>11, Frame
          DEF ManagerWrite, Boot, Crash, durable

\* Nothing is held that was not bought: a lost answer leaves the wallet
\* behind the table, and a failed load leaves it empty.
LEMMA HoldingsStep ==
    ASSUME IInv, [Next]_vars
    PROVE  HoldingsInv'
  <1> SUFFICES ASSUME NEW t \in Trades
               PROVE  wallet'[t] <= Bought(t)' /\ stored'[t] <= Bought(t)'
    BY DEF HoldingsInv, Bought, Base
  <1>1. /\ wallet[t] \in Nat /\ stored[t] \in Nat /\ orders[t] \in OrderTotals
        /\ wallet[t] <= Bought(t) /\ stored[t] <= Bought(t)
        /\ Base(t) \in Nat
    BY ConstantsAssumption DEF IInv, TypeOK, HoldingsInv, Base
  <1>2. CASE SubmitEntry
    <2>1. /\ task.trade \in Trades /\ task.qty \in Nat
          /\ orders[task.trade].entered = 0
      BY <1>2, BusyTyped DEF IInv, TypeOK, TaskInv, SubmitEntry
    <2>2. CASE UNCHANGED <<wallet, stored, orders>>
      BY <1>1, <2>2 DEF Bought
    <2>3. CASE Persist([wallet EXCEPT ![task.trade] = @ + task.qty],
                       [orders EXCEPT ![task.trade].entered = task.qty],
                       At("markOpen", task.trade, task.qty),
                       At("markRejected", task.trade, task.qty))
      <3>1. /\ stored' = [wallet EXCEPT ![task.trade] = @ + task.qty]
            /\ orders' = [orders EXCEPT ![task.trade].entered = task.qty]
            /\ wallet' = stored' \/ wallet' = wallet
        BY <2>3 DEF Persist
      <3>2. CASE t = task.trade
        <4>1. /\ stored'[t] = wallet[t] + task.qty
              /\ orders'[t] = [orders[t] EXCEPT !.entered = task.qty]
          BY <2>1, <3>1, <3>2 DEF IInv, TypeOK
        <4>2. orders'[t].entered = task.qty /\ orders'[t].added = orders[t].added
          BY <1>1, <4>1 DEF OrderTotals
        <4>3. orders[t].entered = 0 /\ (wallet'[t] = stored'[t] \/ wallet'[t] = wallet[t])
          BY <2>1, <3>1, <3>2
        <4>4. Bought(t) = Base(t) + orders[t].added
          BY <1>1, <4>3 DEF Bought, OrderTotals
        <4>5. Bought(t)' = Base(t) + task.qty + orders[t].added
          BY <4>2 DEF Bought, Base
        <4> QED BY <1>1, <2>1, <4>1, <4>3, <4>4, <4>5 DEF OrderTotals
      <3>3. CASE t # task.trade
        BY <1>1, <2>1, <3>1, <3>3 DEF IInv, TypeOK, Bought
      <3> QED BY <3>2, <3>3
    <2> QED BY <1>2, <2>2, <2>3 DEF SubmitEntry
  <1>3. ASSUME NEW u \in Trades, ExitFill(u)
        PROVE  wallet'[t] <= Bought(t)' /\ stored'[t] <= Bought(t)'
    <2>1. PICK q \in ExitSizes(managed[u]) :
             /\ q <= wallet[u]
             /\ stored' = [wallet EXCEPT ![u] = @ - q]
             /\ orders' = [orders EXCEPT ![u].sold = @ + q]
             /\ wallet' = stored' \/ wallet' = wallet
      BY <1>3 DEF ExitFill, Persist
    <2>2. q \in Nat
      BY <1>3, ExitSizesPositive DEF IInv, TypeOK, ExitFill, Tracked, ManagedPositions
    <2>3. Bought(t)' = Bought(t)
      BY <2>1 DEF IInv, TypeOK, OrderTotals, Bought
    <2>4. stored'[t] <= wallet[t]
      BY <1>1, <2>1, <2>2 DEF IInv, TypeOK
    <2>5. stored'[t] \in Nat
      BY <1>1, <2>1, <2>2 DEF IInv, TypeOK
    <2>6. Bought(t) \in Nat
      BY <1>1 DEF Bought, OrderTotals
    <2>7. stored'[t] <= Bought(t)
      BY <1>1, <2>4, <2>5, <2>6
    <2>8. wallet'[t] = stored'[t] \/ wallet'[t] = wallet[t]
      BY <2>1
    <2> QED BY <1>1, <2>3, <2>7, <2>8
  <1>4. ASSUME NEW u \in Trades, AddFill(u)
        PROVE  wallet'[t] <= Bought(t)' /\ stored'[t] <= Bought(t)'
    <2> DEFINE q == ledger[u].original \div AddDivisor
    <2>1. \E key : /\ stored' = [wallet EXCEPT ![u] = @ + q]
                   /\ orders' = [orders EXCEPT ![u].added = @ + q, ![u].addKeys = @ \cup {key}]
                   /\ wallet' = stored' \/ wallet' = wallet
      BY <1>4 DEF AddFill, Persist
    <2>2. q \in Nat
      BY Quotient, ConstantsAssumption DEF IInv, TypeOK, LifecycleRecords
    <2> HIDE DEF q
    <2>3. CASE t = u
      <3>1. /\ stored'[t] = wallet[t] + q
            /\ \E key : orders'[t] = [orders[t] EXCEPT !.added = @ + q, !.addKeys = @ \cup {key}]
            /\ wallet'[t] = stored'[t] \/ wallet'[t] = wallet[t]
        BY <2>1, <2>3 DEF IInv, TypeOK
      <3>2. orders'[t].entered = orders[t].entered /\ orders'[t].added = orders[t].added + q
        BY <1>1, <3>1 DEF OrderTotals
      <3> QED BY <1>1, <2>2, <3>1, <3>2 DEF Bought, OrderTotals
    <2>4. CASE t # u
      BY <1>1, <2>1, <2>4 DEF IInv, TypeOK, Bought
    <2> QED BY <2>3, <2>4
  <1>5. CASE UNCHANGED <<stored, orders>> /\ (UNCHANGED wallet \/ Boot \/ Crash)
    <2>1. wallet'[t] = wallet[t] \/ wallet'[t] = stored[t] \/ wallet'[t] = 0
      BY <1>5 DEF Boot, Crash
    <2>2. Bought(t)' = Bought(t) /\ Bought(t) \in Nat
      BY <1>1, <1>5 DEF Bought, OrderTotals
    <2> QED BY <1>1, <1>5, <2>1, <2>2
  <1> QED BY <1>2, <1>3, <1>4, <1>5, Frame DEF OrderWrite

\* Only a fill makes a ledger write of an exit or an add due.
LEMMA PendingFrame ==
    ASSUME IInv, [Next]_vars
    PROVE  \/ OrderWrite
           \/ UNCHANGED orders /\ (task' = task \/ task'.at \notin {"recordExit", "recordAdd"})
  <1> USE DEF OrderWrite, Go, Done, At, Idle
  <1>1. CASE EntryStep
    BY <1>1 DEF EntryStep, MarkOpen, RecordEntry, RegisterPosition, RecordTrade, MarkRejected
  <1>2. CASE ExitStep
    BY <1>2 DEF ExitStep, RecordExit, RecordExitPnl, ApplyExitFill
  <1>3. CASE AddStep
    BY <1>3 DEF AddStep, RecordAdd, ApplyAddFill, RecordAddEntry
  <1>4. CASE FinalizeStep
    BY <1>4 DEF FinalizeStep, RecordOutcome, CloseTrade, CreditLessons, MarkFinalized
  <1>5. CASE StartupStep
    <2>1. CASE Boot \/ WalletPassDone \/ IntentsPassDone \/ GhostsPassDone \/ ReplayDone
      BY <2>1 DEF Boot, WalletPassDone, IntentsPassDone, GhostsPassDone, ReplayDone, durable
    <2>2. ASSUME NEW t \in Trades,
                 ImportLegacy(t) \/ RepairOpen(t) \/ RestoreManager(t) \/ RemoveGhost(t)
          PROVE  UNCHANGED orders /\ task' = task
      BY <2>2 DEF ImportLegacy, RepairOpen, RestoreManager, RemoveGhost
    <2>3. ASSUME NEW t \in Trades, RepairFromOrders(t)
          PROVE  UNCHANGED orders /\ task' = task
      BY <2>3 DEF RepairFromOrders
    <2>4. ASSUME NEW t \in Trades, Replay(t)
          PROVE  UNCHANGED orders /\ task'.at \notin {"recordExit", "recordAdd"}
      BY <2>4 DEF Replay, durable
    <2> QED BY <1>5, <2>1, <2>2, <2>3, <2>4 DEF StartupStep
  <1>6. CASE \E t \in Trades : CreateIntent(t) \/ ExitFill(t) \/ AddFill(t)
    BY <1>6 DEF CreateIntent
  <1>7. CASE CheckExits \/ Crash \/ Raise \/ UNCHANGED vars
    BY <1>7 DEF CheckExits, Crash, Raise, vars, durable
  <1> QED BY <1>1, <1>2, <1>3, <1>4, <1>5, <1>6, <1>7 DEF Next, TaskStep

LedgerInvOf(t) ==
    /\ ledger[t].status \in OpenStatus => ledger[t].remaining > 0
    /\ ledger[t].finalized => ledger[t].status = "CLOSED"
    /\ Live(t) =>
          /\ ledger[t].original + Pending("recordAdd", t) <= Bought(t)
          /\ ledger[t].original + Pending("recordExit", t) <= ledger[t].remaining + orders[t].sold

\* The ledger gains a share, or loses one, only after the order table has.
LEMMA LedgerStep ==
    ASSUME IInv, [Next]_vars
    PROVE  LedgerInv'
  <1> SUFFICES ASSUME NEW t \in Trades
               PROVE  LedgerInvOf(t)'
    BY DEF LedgerInv, LedgerInvOf, Live
  <1>1. /\ ledger[t] \in LifecycleRecords /\ ledger'[t] \in LifecycleRecords
        /\ orders[t] \in OrderTotals /\ orders'[t] \in OrderTotals
        /\ Base(t) \in Nat /\ task \in Tasks /\ task' \in Tasks
        /\ LedgerInvOf(t)
    BY TypeStep, ConstantsAssumption DEF IInv, TypeOK, Base, LedgerInv, LedgerInvOf
  <1>2. /\ Pending("recordAdd", t) \in Nat /\ Pending("recordExit", t) \in Nat
        /\ Pending("recordAdd", t)' \in Nat /\ Pending("recordExit", t)' \in Nat
    BY <1>1 DEF Pending, Tasks, Idle
  <1>3. CASE SubmitEntry
    <2>1. /\ task.trade \in Trades /\ task.qty \in Nat
          /\ ledger[task.trade].status = "INTENT"
          /\ UNCHANGED ledger
      BY <1>3, BusyTyped DEF IInv, TypeOK, TaskInv, SubmitEntry
    <2>2. Pending("recordAdd", t)' = 0 /\ Pending("recordExit", t)' = 0
      BY <1>3 DEF SubmitEntry, Persist, Go, At, Pending
    <2>3. orders' = orders \/ orders' = [orders EXCEPT ![task.trade].entered = task.qty]
      BY <1>3 DEF SubmitEntry, Persist
    <2>4. Live(t) => orders'[t] = orders[t]
      BY <2>1, <2>3 DEF IInv, TypeOK, Live, LiveStatus, OpenStatus
    <2> QED BY <1>1, <1>2, <2>1, <2>2, <2>4
            DEF LedgerInvOf, Live, Bought, LifecycleRecords, OrderTotals
  <1>4. ASSUME NEW u \in Trades, ExitFill(u) PROVE LedgerInvOf(t)'
    <2>1. PICK q \in ExitSizes(managed[u]) :
             /\ orders' = [orders EXCEPT ![u].sold = @ + q]
             /\ task' = At("recordExit", u, q) \/ task' = Idle
      BY <1>4 DEF ExitFill, Persist
    <2>2. q \in Nat /\ UNCHANGED ledger
      BY <1>4, ExitSizesPositive DEF IInv, TypeOK, ExitFill, Tracked, ManagedPositions
    <2>3. Pending("recordAdd", t)' = 0
      BY <2>1 DEF At, Idle, Pending
    <2>4. CASE t = u
      <3>1. Pending("recordExit", t)' <= q
        BY <2>1, <2>2 DEF At, Idle, Pending
      <3>2. orders'[t] = [orders[t] EXCEPT !.sold = @ + q]
        BY <2>1, <2>4 DEF IInv, TypeOK
      <3>3. /\ orders'[t].entered = orders[t].entered /\ orders'[t].added = orders[t].added
            /\ orders'[t].sold = orders[t].sold + q
        BY <1>1, <3>2 DEF OrderTotals
      <3> QED BY <1>1, <1>2, <2>2, <2>3, <3>1, <3>3
              DEF LedgerInvOf, Live, Bought, LifecycleRecords, OrderTotals
    <2>5. CASE t # u
      <3>1. Pending("recordExit", t)' = 0
        BY <2>1, <2>5, ConstantsAssumption DEF At, Idle, Pending
      <3>2. orders'[t] = orders[t]
        BY <2>1, <2>5 DEF IInv, TypeOK
      <3> QED BY <1>1, <1>2, <2>2, <2>3, <3>1, <3>2
              DEF LedgerInvOf, Live, Bought, LifecycleRecords, OrderTotals
    <2> QED BY <2>4, <2>5
  <1>5. ASSUME NEW u \in Trades, AddFill(u) PROVE LedgerInvOf(t)'
    <2> DEFINE q == ledger[u].original \div AddDivisor
    <2>1. /\ \E key : orders' = [orders EXCEPT ![u].added = @ + q, ![u].addKeys = @ \cup {key}]
          /\ task' = At("recordAdd", u, q) \/ task' = Idle
      BY <1>5 DEF AddFill, Persist
    <2>2. q \in Nat /\ UNCHANGED ledger
      BY <1>5, Quotient, ConstantsAssumption DEF IInv, TypeOK, LifecycleRecords, AddFill
    <2> HIDE DEF q
    <2>3. Pending("recordExit", t)' = 0
      BY <2>1 DEF At, Idle, Pending
    <2>4. CASE t = u
      <3>1. Pending("recordAdd", t)' <= q
        BY <2>1, <2>2 DEF At, Idle, Pending
      <3>2. \E key : orders'[t] = [orders[t] EXCEPT !.added = @ + q, !.addKeys = @ \cup {key}]
        BY <2>1, <2>4 DEF IInv, TypeOK
      <3>3. /\ orders'[t].entered = orders[t].entered /\ orders'[t].sold = orders[t].sold
            /\ orders'[t].added = orders[t].added + q
        BY <1>1, <3>2 DEF OrderTotals
      <3> QED BY <1>1, <1>2, <2>2, <2>3, <3>1, <3>3
              DEF LedgerInvOf, Live, Bought, LifecycleRecords, OrderTotals
    <2>5. CASE t # u
      <3>1. Pending("recordAdd", t)' = 0
        BY <2>1, <2>5, ConstantsAssumption DEF At, Idle, Pending
      <3>2. orders'[t] = orders[t]
        BY <2>1, <2>5 DEF IInv, TypeOK
      <3> QED BY <1>1, <1>2, <2>2, <2>3, <3>1, <3>2
              DEF LedgerInvOf, Live, Bought, LifecycleRecords, OrderTotals
    <2> QED BY <2>4, <2>5
  <1>6. CASE UNCHANGED orders /\ (task' = task \/ task'.at \notin {"recordExit", "recordAdd"})
    <2>1. /\ Pending("recordAdd", t)' <= Pending("recordAdd", t)
          /\ Pending("recordExit", t)' <= Pending("recordExit", t)
      BY <1>2, <1>6 DEF Pending
    <2>2. Bought(t)' = Bought(t) /\ Bought(t) \in Nat /\ orders'[t].sold = orders[t].sold
          /\ orders[t].sold \in Nat
      BY <1>1, <1>6 DEF Bought, OrderTotals
    <2>3. CASE ledger'[t] = ledger[t]
      BY <1>1, <1>2, <2>1, <2>2, <2>3 DEF LedgerInvOf, Live, LifecycleRecords
    <2>4. CASE LedgerMove(t)
      <3>1. CASE Proposed(t) \/ Rejected(t)
        BY <1>1, <3>1 DEF LedgerInvOf, Live, LiveStatus, OpenStatus, Proposed, Rejected
      <3>2. CASE OpenedNow(t)
        <4>1. ~Live(t)
          BY <3>2 DEF OpenedNow, Live, LiveStatus, OpenStatus
        <4>2. Pending("recordAdd", t) = 0 /\ Pending("recordExit", t) = 0
          BY <4>1 DEF IInv, TaskInv, Pending
        <4> QED BY <1>1, <1>2, <2>1, <2>2, <3>2, <4>2
                DEF LedgerInvOf, OpenedNow, LifecycleRecords
      <3>3. CASE Added(t)
        <4>1. /\ Pending("recordAdd", t) = task.qty
              /\ Pending("recordAdd", t)' = 0 /\ Pending("recordExit", t)' = 0
          BY <3>3 DEF Added, Pending
        <4> QED BY <1>1, <1>2, <2>1, <2>2, <3>3, <4>1
                DEF LedgerInvOf, Added, Live, LiveStatus, OpenStatus, LifecycleRecords
      <3>4. CASE Sold(t)
        <4>1. /\ Pending("recordExit", t) = task.qty
              /\ Pending("recordAdd", t)' = 0 /\ Pending("recordExit", t)' = 0
          BY <3>4 DEF Sold, Pending
        <4> QED BY <1>1, <1>2, <2>1, <2>2, <3>4, <4>1
                DEF LedgerInvOf, Sold, Minus, Live, LiveStatus, OpenStatus, LifecycleRecords
      <3>5. CASE Finalized(t)
        BY <1>1, <1>2, <2>1, <2>2, <3>5
        DEF LedgerInvOf, Finalized, Live, LiveStatus, OpenStatus, LifecycleRecords
      <3> QED BY <2>4, <3>1, <3>2, <3>3, <3>4, <3>5 DEF LedgerMove
    <2>5. ledger'[t] = ledger[t] \/ LedgerMove(t)
      <3>1. ASSUME NEW u \in Trades, LedgerMove(u), u # t PROVE ledger'[t] = ledger[t]
        BY <3>1 DEF IInv, TypeOK, LedgerMove, Only
      <3> QED BY <3>1, LedgerMoves
    <2> QED BY <2>3, <2>4, <2>5
  <1> QED BY <1>3, <1>4, <1>5, <1>6, PendingFrame DEF OrderWrite

\* Between two writes of a handler its trade stays as the handler left it:
\* nothing else runs, and a crash leaves no handler behind.
LEMMA TaskInvStep ==
    ASSUME IInv, [Next]_vars
    PROVE  TaskInv'
  <1> USE DEF Go, Done, At
  <1>1. ASSUME task' = Idle PROVE TaskInv'
    BY <1>1 DEF TaskInv, Idle
  <1>2. phase \in {"down", "wallet", "intents", "ghosts"} => task = Idle
    BY DEF IInv, TaskInv
  <1>3. ASSUME NEW t \in Trades, Live(t) PROVE Live(t)'
    BY <1>3, LiveStays
  <1>4. CASE SubmitEntry
    <2>1. /\ task.trade \in Trades /\ task.qty > 0 /\ ledger[task.trade].status = "INTENT"
          /\ phase' = phase /\ phase \in {"replay", "running"} /\ UNCHANGED ledger
      BY <1>4, BusyTyped DEF IInv, TypeOK, TaskInv, SubmitEntry, Idle
    <2>2. CASE task' = At("markRejected", task.trade, task.qty)
      BY <2>1, <2>2 DEF TaskInv
    <2>3. CASE /\ task' = At("markOpen", task.trade, task.qty)
               /\ orders' = [orders EXCEPT ![task.trade].entered = task.qty]
      <3>1. orders'[task.trade].entered = task.qty
        BY <2>1, <2>3 DEF IInv, TypeOK, OrderTotals
      <3> QED BY <2>1, <2>3, <3>1 DEF TaskInv
    <2> QED BY <1>4, <2>2, <2>3 DEF SubmitEntry, Persist
  <1>5. CASE MarkOpen
    <2>1. /\ task.trade \in Trades /\ phase' = phase /\ phase \in {"replay", "running"}
          /\ ledger[task.trade].status = "INTENT"
          /\ task' = At("recordEntry", task.trade, task.qty)
          /\ ledger' = [ledger EXCEPT ![task.trade] = Opened(@, task.qty)]
      BY <1>5, BusyTyped DEF IInv, TypeOK, TaskInv, MarkOpen, Idle
    <2>2. Live(task.trade)'
      BY <2>1 DEF IInv, TypeOK, Opened, Live, LiveStatus, OpenStatus, LifecycleRecords
    <2> QED BY <2>1, <2>2 DEF TaskInv, Live
  <1>6. ASSUME NEW stage \in {"register", "recordTrade", "recordPnl", "applyExit", "applyAdd",
                              "recordAddEntry"},
               task.trade \in Trades, Live(task.trade), phase' \in {"replay", "running"},
               task' = At(stage, task.trade, task.qty)
        PROVE  TaskInv'
    <2>1. Live(task.trade)'
      BY <1>3, <1>6
    <2> QED BY <1>6, <2>1 DEF TaskInv, Live
  <1>7. CASE RecordEntry \/ RegisterPosition \/ RecordExit \/ RecordExitPnl \/ ApplyAddFill
    <2>1. /\ task.trade \in Trades /\ Live(task.trade) /\ phase' \in {"replay", "running"}
      BY <1>7, BusyTyped DEF IInv, TypeOK, TaskInv, RecordEntry, RegisterPosition, RecordExit,
         RecordExitPnl, ApplyAddFill, Idle
    <2> QED BY <1>6, <1>7, <2>1 DEF RecordEntry, RegisterPosition, RecordExit, RecordExitPnl,
            ApplyAddFill
  <1>8. CASE RecordTrade \/ MarkRejected \/ RecordAddEntry \/ MarkFinalized \/ Raise \/ Crash
    BY <1>1, <1>8 DEF RecordTrade, MarkRejected, RecordAddEntry, MarkFinalized, Raise, Crash
  <1>9. CASE ApplyExitFill
    <2>1. /\ task.trade \in Trades /\ phase' \in {"replay", "running"}
          /\ \/ task' = At("recordOutcome", task.trade, task.qty)
             \/ task' = Idle
      BY <1>9, BusyTyped DEF IInv, TypeOK, TaskInv, ApplyExitFill, Idle
    <2>2. CASE task' = At("recordOutcome", task.trade, task.qty)
      BY <2>1, <2>2 DEF TaskInv
    <2> QED BY <1>1, <2>1, <2>2
  <1>10. CASE RecordAdd
    <2>1. /\ task.trade \in Trades /\ Live(task.trade) /\ phase' \in {"replay", "running"}
          /\ task' = At("applyAdd", task.trade, task.qty) \/ task' = Idle
      BY <1>10, BusyTyped DEF IInv, TypeOK, TaskInv, RecordAdd, Idle
    <2> QED BY <1>1, <1>6, <2>1
  <1>11. CASE RecordOutcome
    <2>1. /\ task.trade \in Trades /\ phase' \in {"replay", "running"} /\ UNCHANGED ledger
          /\ \/ /\ task' = At("closeTrade", task.trade, task.qty)
                /\ ledger[task.trade].status = "CLOSED"
             \/ task' = Idle
      BY <1>11, BusyTyped DEF IInv, TypeOK, TaskInv, RecordOutcome, Idle
    <2>2. CASE /\ task' = At("closeTrade", task.trade, task.qty)
               /\ ledger[task.trade].status = "CLOSED"
      BY <2>1, <2>2 DEF TaskInv
    <2> QED BY <1>1, <2>1, <2>2
  <1>12. CASE CloseTrade \/ CreditLessons
    <2>1. /\ task.trade \in Trades /\ phase' \in {"replay", "running"} /\ UNCHANGED ledger
          /\ \/ task' = At("credit", task.trade, task.qty)
             \/ task' = At("markFinalized", task.trade, task.qty)
          /\ ledger[task.trade].status = "CLOSED"
      BY <1>12, BusyTyped DEF IInv, TypeOK, TaskInv, CloseTrade, CreditLessons, Idle
    <2> QED BY <2>1 DEF TaskInv
  <1>13. CASE Boot \/ WalletPassDone \/ IntentsPassDone \/ GhostsPassDone \/ ReplayDone
    <2>1. task = Idle /\ task' = task
      BY <1>2, <1>13 DEF Boot, WalletPassDone, IntentsPassDone, GhostsPassDone, ReplayDone
    <2> QED BY <1>1, <2>1
  <1>14. ASSUME NEW t \in Trades,
                ImportLegacy(t) \/ RepairOpen(t) \/ RestoreManager(t) \/ RepairFromOrders(t)
                  \/ RemoveGhost(t)
         PROVE  TaskInv'
    <2>1. task = Idle /\ task' = task
      BY <1>2, <1>14 DEF ImportLegacy, RepairOpen, RestoreManager, RepairFromOrders, RemoveGhost
    <2> QED BY <1>1, <2>1
  <1>15. ASSUME NEW t \in Trades, Replay(t) PROVE TaskInv'
    BY <1>15 DEF Replay, TaskInv, Idle
  <1>16. ASSUME NEW t \in Trades, CreateIntent(t) PROVE TaskInv'
    <2>1. PICK q \in EntryQty :
             /\ ledger' = [ledger EXCEPT ![t] = Intended(@, q)]
             /\ task' = At("submit", t, q)
      BY <1>16 DEF CreateIntent, Go
    <2>2. q > 0 /\ phase' = "running"
      BY <1>16, ConstantsAssumption DEF CreateIntent, Running
    <2>3. ledger'[t].status = "INTENT"
      <3>1. ledger[t] \in LifecycleRecords /\ q \in Nat
        BY ConstantsAssumption DEF IInv, TypeOK
      <3>2. Intended(ledger[t], q).status = "INTENT"
        BY <3>1, IntentTyped
      <3> QED BY <2>1, <3>2 DEF IInv, TypeOK
    <2>4. orders'[t].entered = 0
      BY <1>16 DEF IInv, OrdersInv, CreateIntent
    <2> QED BY <2>1, <2>2, <2>3, <2>4 DEF TaskInv
  <1>17. ASSUME NEW t \in Trades, ExitFill(t) PROVE TaskInv'
    <2>1. PICK q \in ExitSizes(managed[t]) : task' = At("recordExit", t, q) \/ task' = Idle
      BY <1>17 DEF ExitFill, Persist
    <2>2. q > 0
      BY <1>17, ExitSizesPositive DEF IInv, TypeOK, ExitFill, Tracked, ManagedPositions
    <2>3. phase' = "running" /\ Live(t)'
      BY <1>3, <1>17 DEF IInv, ManagedInv, ExitFill, Tracked, Running
    <2>4. CASE task' = At("recordExit", t, q)
      BY <2>2, <2>3, <2>4 DEF TaskInv, Live
    <2> QED BY <1>1, <2>1, <2>4
  <1>18. ASSUME NEW t \in Trades, AddFill(t) PROVE TaskInv'
    <2> DEFINE q == ledger[t].original \div AddDivisor
    <2>1. q > 0 /\ (task' = At("recordAdd", t, q) \/ task' = Idle)
      BY <1>18 DEF AddFill, Persist
    <2> HIDE DEF q
    <2>2. phase' = "running" /\ Live(t)'
      BY <1>3, <1>18 DEF IInv, ManagedInv, AddFill, Tracked, Running
    <2>3. CASE task' = At("recordAdd", t, q)
      BY <2>1, <2>2, <2>3 DEF TaskInv, Live
    <2> QED BY <1>1, <2>1, <2>3
  <1>19. CASE CheckExits \/ UNCHANGED vars
    BY <1>19 DEF CheckExits, vars, durable, IInv, TaskInv, Live
  <1> QED BY <1>4, <1>5, <1>7, <1>8, <1>9, <1>10, <1>11, <1>12, <1>13, <1>14, <1>15, <1>16,
             <1>17, <1>18, <1>19
          DEF Next, TaskStep, EntryStep, ExitStep, AddStep, FinalizeStep, StartupStep

\* The program starts in the invariant that the life cycle rests on.
THEOREM IInvInit == Init => IInv
  <1> SUFFICES ASSUME Init PROVE IInv
    OBVIOUS
  <1>1. TypeOK
    BY TypeInit
  <1>2. \A t \in Trades : Base(t) \in Nat
    BY ConstantsAssumption DEF Base
  <1>3. TaskInv
    BY DEF Init, TaskInv, Idle
  <1>4. ManagedInv /\ OrdersInv /\ LedgerInv
    BY DEF Init, ManagedInv, OrdersInv, LedgerInv, Untracked, Live, LiveStatus, OpenStatus
  <1>5. HoldingsInv
    BY <1>2 DEF Init, HoldingsInv, Bought
  <1> QED BY <1>1, <1>3, <1>4, <1>5 DEF IInv

\* The inductive invariant: what every handler and every start-up pass of
\* the paper trade may assume, under every kind and number of faults.
THEOREM IInvHolds == Spec => []IInv
  <1>1. Init => IInv
    BY IInvInit
  <1>2. IInv /\ [Next]_vars => IInv'
    BY TypeStep, TaskInvStep, ManagedStep, OrdersStep, HoldingsStep, LedgerStep DEF IInv
  <1> QED BY <1>1, <1>2, PTL DEF Spec

\* The ledger never records a share that the order table does not hold.
THEOREM LedgerNeverAheadHolds == Spec => []LedgerNeverAhead
  <1>1. IInv => LedgerNeverAhead
    <2> SUFFICES ASSUME IInv, NEW t \in Trades, Live(t)
                 PROVE  /\ ledger[t].original <= Base(t) + orders[t].entered + orders[t].added
                        /\ ledger[t].original <= ledger[t].remaining + orders[t].sold
      BY DEF LedgerNeverAhead, Live, LiveStatus
    <2>1. ledger[t] \in LifecycleRecords /\ orders[t] \in OrderTotals /\ Base(t) \in Nat
      BY ConstantsAssumption DEF IInv, TypeOK, Base
    <2>2. Pending("recordAdd", t) \in Nat /\ Pending("recordExit", t) \in Nat
      BY DEF IInv, TypeOK, Pending, Tasks, Idle
    <2> QED BY <2>1, <2>2 DEF IInv, LedgerInv, Bought, LifecycleRecords, OrderTotals
  <1> QED BY <1>1, IInvHolds, PTL

-----------------------------------------------------------------------------
(* The ledger implements TradeJourney.                                     *)

\* A move of one trade of the ledger moves one trade of the journey.
LEMMA OneStage ==
    ASSUME TypeOK, NEW t \in Trades, Only(t)
    PROVE  /\ [u \in Trades |-> StageOf(ledger[u])]'
                 = [[u \in Trades |-> StageOf(ledger[u])] EXCEPT ![t] = StageOf(ledger'[t])]
           /\ [u \in Trades |-> ledger[u].remaining]'
                 = [[u \in Trades |-> ledger[u].remaining] EXCEPT ![t] = ledger'[t].remaining]
  <1>1. \A u \in Trades : u # t => ledger'[u] = ledger[u]
    BY DEF TypeOK, Only
  <1> QED BY <1>1

\* A move of the ledger is a stage of the journey, or none.
LEMMA JourneyStep ==
    ASSUME IInv, NEW t \in Trades, LedgerMove(t)
    PROVE  \/ Ledger!JourneyNext
           \/ UNCHANGED <<[u \in Trades |-> StageOf(ledger[u])],
                          [u \in Trades |-> ledger[u].remaining]>>
  <1> DEFINE st == [u \in Trades |-> StageOf(ledger[u])]
             sh == [u \in Trades |-> ledger[u].remaining]
  <1>1. /\ st' = [st EXCEPT ![t] = StageOf(ledger'[t])]
        /\ sh' = [sh EXCEPT ![t] = ledger'[t].remaining]
        /\ Only(t)
    BY OneStage DEF IInv, LedgerMove
  <1>2. st[t] = StageOf(ledger[t]) /\ sh[t] = ledger[t].remaining /\ sh'[t] = ledger'[t].remaining
    BY <1>1
  <1>3. ledger[t] \in LifecycleRecords /\ ledger[t].finalized => ledger[t].status = "CLOSED"
    BY DEF IInv, TypeOK, LedgerInv
  <1>4. CASE Proposed(t)
    <2>1. StageOf(ledger[t]) = "none" /\ StageOf(ledger'[t]) = "intent"
      BY <1>4 DEF Proposed, StageOf, OpenStatus
    <2>2. Ledger!Propose(t)
      BY <1>1, <1>2, <1>4, <2>1 DEF Proposed, Ledger!Propose, Ledger!Move
    <2> QED BY <2>2 DEF Ledger!JourneyNext
  <1>5. CASE Rejected(t)
    <2>1. StageOf(ledger[t]) = "intent" /\ StageOf(ledger'[t]) = "rejected"
      BY <1>5 DEF Rejected, StageOf, OpenStatus
    <2>2. Ledger!Reject(t)
      BY <1>1, <1>2, <1>5, <2>1 DEF Rejected, Ledger!Reject, Ledger!Move
    <2> QED BY <2>2 DEF Ledger!JourneyNext
  <1>6. CASE OpenedNow(t)
    <2>1. StageOf(ledger[t]) = "intent" /\ StageOf(ledger'[t]) = "open"
      BY <1>6 DEF OpenedNow, StageOf, OpenStatus
    <2>2. Ledger!Open(t)
      BY <1>1, <1>2, <1>6, <2>1 DEF OpenedNow, Ledger!Open, Ledger!Move, Ledger!Resize
    <2> QED BY <2>2 DEF Ledger!JourneyNext
  <1>7. CASE Added(t)
    <2>1. task.qty \in Nat /\ task.qty > 0
      BY <1>7, BusyTyped DEF IInv, TypeOK, TaskInv, Added
    <2>2. /\ StageOf(ledger[t]) = "open" /\ StageOf(ledger'[t]) = "open"
          /\ ledger'[t].remaining > ledger[t].remaining
      BY <1>7, <2>1 DEF IInv, TypeOK, LifecycleRecords, Added, StageOf, OpenStatus
    <2>3. Ledger!Grow(t)
      BY <1>1, <1>2, <2>2 DEF Ledger!Grow, Ledger!Resize
    <2> QED BY <2>3 DEF Ledger!JourneyNext
  <1>8. CASE Sold(t)
    <2>1. task.qty \in Nat /\ task.qty > 0
      BY <1>8, BusyTyped DEF IInv, TypeOK, TaskInv, Sold
    <2>2. ledger[t].remaining \in Nat /\ ledger[t].remaining > 0 /\ ~ledger[t].finalized
      BY <1>8 DEF IInv, TypeOK, LedgerInv, LifecycleRecords, Sold, OpenStatus
    <2>3. /\ StageOf(ledger[t]) = "open"
          /\ StageOf(ledger'[t]) = IF ledger'[t].remaining = 0 THEN "closed" ELSE "open"
      BY <1>8, <2>2 DEF Sold, StageOf, OpenStatus
    <2>4. ledger'[t].remaining < ledger[t].remaining
      BY <1>8, <2>1, <2>2 DEF Sold, Minus
    <2>5. Ledger!Sell(t)
      BY <1>1, <1>2, <2>3, <2>4 DEF Ledger!Sell, Ledger!Move, Ledger!Resize
    <2> QED BY <2>5 DEF Ledger!JourneyNext
  <1>9. CASE Finalized(t)
    <2>1. CASE ledger[t].finalized
      <3>1. StageOf(ledger'[t]) = StageOf(ledger[t]) /\ ledger'[t].remaining = ledger[t].remaining
        BY <1>9, <2>1 DEF Finalized, StageOf, OpenStatus
      <3>2. st' = st /\ sh' = sh
        BY <1>1, <1>2, <3>1
      <3> QED BY <3>2
    <2>2. CASE ~ledger[t].finalized
      <3>1. StageOf(ledger[t]) = "closed" /\ StageOf(ledger'[t]) = "finalized"
        BY <1>9, <2>2 DEF Finalized, StageOf, OpenStatus
      <3>2. Ledger!Finalize(t)
        BY <1>1, <1>2, <1>9, <3>1 DEF Finalized, Ledger!Finalize, Ledger!Move
      <3> QED BY <3>2 DEF Ledger!JourneyNext
    <2> QED BY <2>1, <2>2
  <1> QED BY <1>4, <1>5, <1>6, <1>7, <1>8, <1>9 DEF LedgerMove

\* Whatever crashes, raises or is lost, each trade of the ledger goes through
\* its stages in order: the specification implements the abstract journey.
THEOREM ImplementsJourney == Spec => FollowsJourney
  <1>1. Init => Ledger!JourneyInit
    <2>1. Init => \A t \in Trades : ledger[t].status = "none" /\ ledger[t].remaining = 0
      BY DEF Init
    <2>2. Init => \A t \in Trades : StageOf(ledger[t]) = "none"
      BY <2>1 DEF StageOf, OpenStatus
    <2> QED BY <2>1, <2>2 DEF Ledger!JourneyInit
  <1>2. IInv /\ [Next]_vars => [Ledger!JourneyNext]_<<[t \in Trades |-> StageOf(ledger[t])],
                                                    [t \in Trades |-> ledger[t].remaining]>>
    BY LedgerMoves, JourneyStep
  <1> QED BY <1>1, <1>2, IInvHolds, PTL DEF Spec, FollowsJourney, Ledger!Journey

-----------------------------------------------------------------------------
(***************************************************************************)
(* What the five stores of a paper trade promise each other (BooksAgree)   *)
(* and what start-up and the loops never leave unattended                  *)
(* (NothingIsForgotten).                                                   *)
(*                                                                         *)
(* Every promise here is about one trade at a time, so the proofs look at  *)
(* a step from the side of one trade t: either it is a move of t itself,   *)
(* or it serves another trade and all it can do to t is to rewrite the     *)
(* rows both share (the position rows, the state file), or it is a start,  *)
(* a pass or a death of the process.                                       *)
(*                                                                         *)
(* Then the caps on what a day may buy (ExposureIsCapped), under every kind*)
(* and number of faults.                                                   *)
(***************************************************************************)

\* The write that is due for t, and its shares.
Stage(t) == IF task.trade = t THEN task.at ELSE "idle"
Size(t) == IF task.trade = t THEN task.qty ELSE 0
Due(stages, t) == IF Stage(t) \in stages THEN Size(t) ELSE 0

\* The shares the ledger says are held.
Book(t) == IF ledger[t].status \in OpenStatus THEN ledger[t].remaining ELSE 0

EntryStages == {"submit", "markOpen", "markRejected", "recordEntry", "register"}
ExitStages == {"recordExit", "recordPnl", "applyExit"}
UpPhases == {"intents", "ghosts", "replay", "running"}

\* What a handler may assume of its trade beyond TaskInv, and what a start
\* leaves in memory.
HandlerInv(t) ==
    /\ Stage(t) \in EntryStages => t \notin Legacy
    /\ t \in Legacy => orders[t].entered = 0
    /\ Stage(t) \in {"recordEntry", "register"} =>
          /\ orders[t].entered = Size(t)
          /\ managed[t].qty = 0 /\ file[t].qty = 0
    /\ Stage(t) = "recordAdd" => orders[t].added > 0
    /\ Stage(t) \in {"recordAdd", "applyAdd"} \cup ExitStages => managed[t].qty > 0
    /\ Stage(t) \in {"applyAdd", "recordAddEntry"} => orders[t].added > 0
    /\ phase = "down" => wallet[t] = 0 /\ managed[t].qty = 0
    /\ phase = "wallet" => wallet[t] \in {0, stored[t]}
    /\ ledger[t].status = "CLOSED" => ledger[t].remaining = 0

\* One transaction writes the wallet, the position rows and the order row: as
\* long as its answer arrives and the load succeeds, memory is the table.
RowsInv(t) ==
    Never({"unsure", "load"}) =>
        /\ stored[t] + orders[t].sold = Base(t) + orders[t].entered + orders[t].added
        /\ phase # "down" => wallet[t] = stored[t]
        /\ orders[t].added = 0 /\ Live(t) => ledger[t].original = Base(t) + orders[t].entered

\* While the process lives and no store raises, wallet, ledger and exit
\* manager differ by exactly the writes still due.
AgreeInv(t) ==
    Never({"crash", "raise", "load"}) =>
        /\ phase = "down" => /\ ledger[t].status = "none" /\ stored[t] = Base(t)
                             /\ managed[t].qty = 0 /\ file[t].qty = 0
        /\ phase = "wallet" =>
              /\ ledger[t].status \in {"none", "INTENT", "OPEN"}
              /\ ledger[t].status = "INTENT" => wallet[t] > 0
              /\ Book(t) \in {0, wallet[t]}
              /\ managed[t].qty \in {0, Book(t)}
        /\ phase \in UpPhases =>
              /\ wallet[t] + Due({"recordExit"}, t) = Book(t) + Due({"recordAdd", "markOpen"}, t)
              /\ managed[t].qty + Due({"markOpen", "recordEntry", "register", "recordAdd",
                                       "applyAdd"}, t)
                    = wallet[t] + Due(ExitStages, t)
              /\ ledger[t].status = "INTENT" => Stage(t) \in {"submit", "markOpen", "markRejected"}

\* The outcome is written once; the lessons are credited once more only by
\* a handler that died or raised between the credit and mark_finalized.
OutcomeInv(t) ==
    /\ perf[t] <= 1
    /\ lessons[t] <= used["crash"] + used["raise"]
                       + (IF ledger[t].finalized \/ Stage(t) = "markFinalized" THEN 1 ELSE 0)
    /\ Stage(t) \in {"closeTrade", "credit", "markFinalized"} =>
          ledger[t].status = "CLOSED" /\ ~ledger[t].finalized
    /\ ledger[t].finalized \/ Stage(t) \in {"closeTrade", "credit", "markFinalized"} =>
          (Never({"swallow"}) => perf[t] = 1)
    /\ ledger[t].finalized \/ Stage(t) = "markFinalized" => (LearningEnabled => lessons[t] > 0)

\* The exit manager, on the heap or in its file, covers what is held, in
\* memory or in the table, with the exit fills still to be applied.
CoverInv(t) ==
    orders[t].added = 0 /\ Never({"raise"}) =>
        /\ file[t].qty > 0 => file[t].qty >= stored[t] /\ file[t].qty >= wallet[t]
        /\ managed[t].qty > 0 => /\ managed[t].qty >= stored[t] + Due(ExitStages, t)
                                 /\ managed[t].qty >= wallet[t] + Due(ExitStages, t)
        /\ phase \in UpPhases /\ wallet[t] > 0 /\ managed[t].qty = 0 =>
              t \in ambiguous \/ Stage(t) \in {"markOpen", "recordEntry", "register"}
        /\ phase \in {"intents", "ghosts"} /\ wallet[t] > 0 =>
              t \in ambiguous \/ ledger[t].status \in OpenStatus

\* An intent is in the hands of its handler, or of the start-up pass to come.
IntentInv(t) ==
    Never({"raise"}) =>
        /\ phase = "intents" /\ ledger[t].status = "INTENT" => wallet[t] = 0
        /\ phase \in {"ghosts", "replay", "running"} /\ ledger[t].status = "INTENT" =>
              Stage(t) \in {"submit", "markOpen", "markRejected"}

TradeInv(t) ==
    HandlerInv(t) /\ RowsInv(t) /\ AgreeInv(t) /\ OutcomeInv(t) /\ CoverInv(t) /\ IntentInv(t)

BooksInv == IInv /\ \A t \in Trades : TradeInv(t)

-----------------------------------------------------------------------------
(* A step, seen from the side of one trade t.                              *)

Calm == UNCHANGED <<phase, ambiguous, used>>
Struck(kind) == /\ used'[kind] = used[kind] + 1
                /\ \A other \in FaultKinds : other # kind => used'[other] = used[other]
Hit(kind) == UNCHANGED <<phase, ambiguous>> /\ Struck(kind)

KeepsHoldings(t) == wallet'[t] = wallet[t] /\ stored'[t] = stored[t]
KeepsOrders(t) == orders'[t] = orders[t]
KeepsLedger(t) == ledger'[t] = ledger[t]
KeepsManager(t) == managed'[t] = managed[t] /\ file'[t] = file[t]
KeepsOutcome(t) == perf'[t] = perf[t] /\ lessons'[t] = lessons[t]
KeepsRows(t) == KeepsHoldings(t) /\ KeepsOrders(t)

\* The handler of t goes from one write to the next, or returns.
Passes(t, from, to) == Stage(t) = from /\ Stage(t)' = to /\ Size(t)' = Size(t)
Returns(t, from) == Stage(t) = from /\ Stage(t)' = "idle" /\ Size(t)' = 0
Rests(t) == Stage(t) = "idle" /\ Stage(t)' = "idle" /\ Size(t) = 0 /\ Size(t)' = 0
Begins(t, to, q) == Stage(t) = "idle" /\ Stage(t)' = to /\ Size(t)' = q

Books(t, status, original, remaining, addCount) ==
    /\ ledger'[t].status = status
    /\ ledger'[t].original = original
    /\ ledger'[t].remaining = remaining
    /\ ledger'[t].addCount = addCount
    /\ ledger'[t].finalized = ledger[t].finalized

\* ExitManager holds q shares of t, and so does its file unless the save is lost.
Manages(t, q) ==
    /\ managed'[t].qty = q
    /\ \/ file'[t].qty = q /\ Calm
       \/ file'[t] = file[t] /\ Hit("swallow")

\* The transaction of a fill; its answer may be lost.
Fills(t, q, to) ==
    /\ stored'[t] = q
    /\ \/ wallet'[t] = q /\ Stage(t)' = to /\ Calm
       \/ wallet'[t] = wallet[t] /\ Stage(t)' \notin {"markOpen", "recordExit", "recordAdd"}
          /\ Hit("unsure")

\* ---- the entry
Intends(t) ==
    /\ Running /\ ledger[t].status = "none" /\ t \notin Legacy
    /\ \E q \in Nat \ {0} :
          /\ Begins(t, "submit", q)
          /\ Books(t, "INTENT", q, ledger[t].remaining, ledger[t].addCount)
    /\ KeepsRows(t) /\ KeepsManager(t) /\ KeepsOutcome(t) /\ Calm

Refuses(t) ==
    /\ Passes(t, "submit", "markRejected")
    /\ KeepsRows(t) /\ KeepsLedger(t) /\ KeepsManager(t) /\ KeepsOutcome(t) /\ Calm

Buys(t) ==
    /\ Stage(t) = "submit" /\ Size(t)' = Size(t)
    /\ Fills(t, wallet[t] + Size(t), "markOpen")
    /\ Stage(t)' \in {"markOpen", "markRejected"}
    /\ orders'[t].entered = Size(t) /\ orders'[t].added = orders[t].added
    /\ orders'[t].sold = orders[t].sold /\ orders'[t].addKeys = orders[t].addKeys
    /\ KeepsLedger(t) /\ KeepsManager(t) /\ KeepsOutcome(t)

Opens(t) ==
    /\ Passes(t, "markOpen", "recordEntry")
    /\ Books(t, "OPEN", Size(t), Size(t), ledger[t].addCount)
    /\ KeepsRows(t) /\ KeepsManager(t) /\ KeepsOutcome(t) /\ Calm

\* The writes that leave the books of t alone: daily counters, journal.
Counts(t) ==
    /\ \/ Passes(t, "recordEntry", "register") /\ Calm
       \/ Returns(t, "recordTrade") /\ (Calm \/ Hit("swallow"))
       \/ Passes(t, "recordPnl", "applyExit") /\ Calm
       \/ Returns(t, "recordAddEntry") /\ Calm
       \/ Passes(t, "closeTrade", "credit") /\ (Calm \/ Hit("swallow"))
    /\ KeepsRows(t) /\ KeepsLedger(t) /\ KeepsManager(t) /\ KeepsOutcome(t)

Registers(t) ==
    /\ Passes(t, "register", "recordTrade")
    /\ Manages(t, Size(t))
    /\ KeepsRows(t) /\ KeepsLedger(t) /\ KeepsOutcome(t)

Rejects(t) ==
    /\ Returns(t, "markRejected")
    /\ Books(t, "REJECTED", ledger[t].original, ledger[t].remaining, ledger[t].addCount)
    /\ KeepsRows(t) /\ KeepsManager(t) /\ KeepsOutcome(t) /\ Calm

\* ---- the exit
Sells(t) ==
    /\ Running /\ managed[t].qty > 0
    /\ \E q \in Nat \ {0} :
          /\ q <= wallet[t] /\ q <= managed[t].qty
          /\ Stage(t) = "idle" /\ Fills(t, wallet[t] - q, "recordExit")
          /\ \/ Stage(t)' = "recordExit" /\ Size(t)' = q
             \/ Stage(t)' = "idle" /\ Size(t)' = 0
          /\ orders'[t].entered = orders[t].entered /\ orders'[t].added = orders[t].added
          /\ orders'[t].sold = orders[t].sold + q /\ orders'[t].addKeys = orders[t].addKeys
    /\ KeepsLedger(t) /\ KeepsManager(t) /\ KeepsOutcome(t)

Reduces(t) ==
    /\ Passes(t, "recordExit", "recordPnl")
    /\ \/ ledger[t].status = "CLOSED" /\ KeepsLedger(t)
       \/ /\ ledger[t].status \in OpenStatus
          /\ \E left \in Nat :
                /\ left = (IF ledger[t].remaining > Size(t) THEN ledger[t].remaining - Size(t)
                           ELSE 0)
                /\ Books(t, IF left = 0 THEN "CLOSED" ELSE "PARTIAL", ledger[t].original, left,
                         ledger[t].addCount)
    /\ KeepsRows(t) /\ KeepsManager(t) /\ KeepsOutcome(t) /\ Calm

Applies(t) ==
    /\ \/ Passes(t, "applyExit", "recordOutcome") /\ ledger[t].status = "CLOSED"
       \/ Returns(t, "applyExit")
    /\ Manages(t, IF managed[t].qty <= Size(t) THEN 0 ELSE managed[t].qty - Size(t))
    /\ KeepsRows(t) /\ KeepsLedger(t) /\ KeepsOutcome(t)

\* ---- the averaging add
Averages(t) ==
    /\ Running /\ managed[t].qty > 0 /\ ledger[t].status # "none"
    /\ \E q \in Nat \ {0} :
          /\ Stage(t) = "idle" /\ Fills(t, wallet[t] + q, "recordAdd")
          /\ \/ Stage(t)' = "recordAdd" /\ Size(t)' = q
             \/ Stage(t)' = "idle" /\ Size(t)' = 0
          /\ orders'[t].entered = orders[t].entered /\ orders'[t].added = orders[t].added + q
          /\ orders'[t].sold = orders[t].sold
    /\ ledger[t].addCount + 1 \notin orders[t].addKeys
    /\ orders'[t].addKeys = orders[t].addKeys \cup {ledger[t].addCount + 1}
    /\ KeepsLedger(t) /\ KeepsManager(t) /\ KeepsOutcome(t)

Grows(t) ==
    /\ \/ /\ Passes(t, "recordAdd", "applyAdd")
          /\ ledger[t].status \in OpenStatus
          /\ Books(t, ledger[t].status, ledger[t].original + Size(t),
                   ledger[t].remaining + Size(t), ledger[t].addCount + 1)
       \/ /\ Returns(t, "recordAdd")
          /\ ledger[t].status \notin OpenStatus /\ KeepsLedger(t)
    /\ KeepsRows(t) /\ KeepsManager(t) /\ KeepsOutcome(t) /\ Calm

Covers(t) ==
    /\ Passes(t, "applyAdd", "recordAddEntry")
    /\ \/ managed[t].qty > 0 /\ Manages(t, managed[t].qty + Size(t))
       \/ managed[t].qty = 0 /\ KeepsManager(t) /\ Calm
    /\ KeepsRows(t) /\ KeepsLedger(t) /\ KeepsOutcome(t)

\* ---- the finalizer
Scores(t) ==
    /\ \/ /\ Passes(t, "recordOutcome", "closeTrade")
          /\ ledger[t].status = "CLOSED" /\ ~ledger[t].finalized
          /\ \/ perf'[t] = (IF perf[t] > 0 THEN perf[t] ELSE perf[t] + 1) /\ Calm
             \/ perf'[t] = perf[t] /\ Hit("swallow")
       \/ Returns(t, "recordOutcome") /\ perf'[t] = perf[t] /\ Calm
    /\ lessons'[t] = lessons[t]
    /\ KeepsRows(t) /\ KeepsLedger(t) /\ KeepsManager(t)

Credits(t) ==
    /\ Passes(t, "credit", "markFinalized")
    /\ lessons'[t] = IF LearningEnabled THEN lessons[t] + 1 ELSE lessons[t]
    /\ perf'[t] = perf[t]
    /\ KeepsRows(t) /\ KeepsLedger(t) /\ KeepsManager(t) /\ Calm

Finalizes(t) ==
    /\ Returns(t, "markFinalized")
    /\ ledger'[t].status = ledger[t].status /\ ledger'[t].original = ledger[t].original
    /\ ledger'[t].remaining = ledger[t].remaining /\ ledger'[t].addCount = ledger[t].addCount
    /\ ledger'[t].finalized = TRUE
    /\ KeepsRows(t) /\ KeepsManager(t) /\ KeepsOutcome(t) /\ Calm

\* ---- the passes of a start
Imports(t) ==
    /\ phase = "wallet" /\ wallet[t] > 0 /\ Rests(t)
    /\ \/ /\ ledger[t].status = "none"
          /\ Books(t, "INTENT", wallet[t], ledger[t].remaining, ledger[t].addCount)
       \/ /\ ledger[t].status = "INTENT"
          /\ Books(t, "OPEN", wallet[t], wallet[t], ledger[t].addCount)
    /\ KeepsRows(t) /\ KeepsManager(t) /\ KeepsOutcome(t) /\ Calm

Restores(t) ==
    /\ phase = "wallet" /\ wallet[t] > 0 /\ Rests(t)
    /\ ledger[t].status \in OpenStatus /\ managed[t].qty = 0
    /\ Manages(t, wallet[t])
    /\ KeepsRows(t) /\ KeepsLedger(t) /\ KeepsOutcome(t)

Repairs(t) ==
    /\ phase = "intents" /\ ledger[t].status = "INTENT" /\ wallet[t] = 0 /\ Rests(t)
    /\ \/ /\ orders[t].entered = 0
          /\ Books(t, "REJECTED", ledger[t].original, ledger[t].remaining, ledger[t].addCount)
       \/ /\ orders[t].entered > 0
          /\ \E n \in Nat : /\ n = Cardinality(orders[t].addKeys)
                            /\ Books(t, "OPEN", orders[t].entered, orders[t].entered, n)
    /\ KeepsRows(t) /\ KeepsManager(t) /\ KeepsOutcome(t) /\ Calm

Dismisses(t) ==
    /\ phase = "ghosts" /\ managed[t].qty > 0 /\ ledger[t].status \notin OpenStatus /\ Rests(t)
    /\ Manages(t, 0)
    /\ KeepsRows(t) /\ KeepsLedger(t) /\ KeepsOutcome(t)

Resumes(t) ==
    /\ phase = "replay" /\ ledger[t].status = "CLOSED" /\ ~ledger[t].finalized
    /\ Begins(t, "recordOutcome", 0)
    /\ KeepsRows(t) /\ KeepsLedger(t) /\ KeepsManager(t) /\ KeepsOutcome(t) /\ Calm

\* The handlers and start-up steps of t itself.
OwnMove(t) ==
    \/ Intends(t) \/ Refuses(t) \/ Buys(t) \/ Opens(t) \/ Counts(t) \/ Registers(t) \/ Rejects(t)
    \/ Sells(t) \/ Reduces(t) \/ Applies(t) \/ Averages(t) \/ Grows(t) \/ Covers(t)
    \/ Scores(t) \/ Credits(t) \/ Finalizes(t)
    \/ Imports(t) \/ Restores(t) \/ Repairs(t) \/ Dismisses(t) \/ Resumes(t)

\* A step that serves another trade: it may rewrite the rows they share.
Foreign(t) ==
    /\ Rests(t)
    /\ KeepsOrders(t) /\ KeepsLedger(t) /\ KeepsOutcome(t)
    /\ wallet'[t] = wallet[t] /\ managed'[t] = managed[t]
    /\ stored'[t] = stored[t] \/ (stored'[t] = wallet[t] /\ phase \in UpPhases)
    /\ file'[t] = file[t] \/ file'[t] = managed[t]
    /\ UNCHANGED <<phase, ambiguous>>
    /\ phase # "down"

Starts(t) ==
    /\ phase = "down" /\ phase' = "wallet" /\ Rests(t)
    /\ managed'[t] = file[t] /\ file'[t] = file[t] /\ stored'[t] = stored[t]
    /\ \/ wallet'[t] = stored[t] /\ UNCHANGED used
       \/ wallet'[t] = 0 /\ Struck("load")
    /\ KeepsOrders(t) /\ KeepsLedger(t) /\ KeepsOutcome(t) /\ UNCHANGED ambiguous

\* The end of a start-up pass, at which t has nothing left to repair.
EndsPass(t) ==
    /\ Rests(t)
    /\ KeepsRows(t) /\ KeepsLedger(t) /\ KeepsManager(t) /\ KeepsOutcome(t) /\ UNCHANGED used
    /\ \/ /\ phase = "wallet" /\ phase' = "intents"
          /\ wallet[t] > 0 =>
                /\ ledger[t].status \notin {"none", "INTENT"}
                /\ ledger[t].status \in OpenStatus => managed[t].qty > 0
                /\ ledger[t].status \notin OpenStatus => t \in ambiguous'
       \/ /\ phase = "intents" /\ phase' = "ghosts" /\ UNCHANGED ambiguous
          /\ ledger[t].status = "INTENT" => wallet[t] > 0
       \/ /\ phase = "ghosts" /\ phase' = "replay" /\ UNCHANGED ambiguous
       \/ /\ phase = "replay" /\ phase' = "running" /\ UNCHANGED ambiguous

Dies(t) ==
    /\ phase' = "down" /\ Stage(t)' = "idle" /\ Size(t)' = 0 /\ Struck("crash")
    /\ wallet'[t] = 0 /\ managed'[t].qty = 0 /\ file'[t] = file[t] /\ stored'[t] = stored[t]
    /\ KeepsOrders(t) /\ KeepsLedger(t) /\ KeepsOutcome(t) /\ UNCHANGED ambiguous

Fails(t) ==
    /\ phase = "running" /\ Stage(t) \in RaisingStages \cup {"idle"}
    /\ Stage(t)' = "idle" /\ Size(t)' = 0
    /\ Hit("raise")
    /\ KeepsRows(t) /\ KeepsLedger(t) /\ KeepsManager(t) /\ KeepsOutcome(t)

Stutters(t) ==
    /\ Stage(t)' = Stage(t) /\ Size(t)' = Size(t)
    /\ KeepsRows(t) /\ KeepsLedger(t) /\ KeepsManager(t) /\ KeepsOutcome(t) /\ Calm

Move(t) ==
    OwnMove(t) \/ Foreign(t) \/ Starts(t) \/ EndsPass(t) \/ Dies(t) \/ Fails(t) \/ Stutters(t)

-----------------------------------------------------------------------------
(* Every step of the specification is such a move.                         *)

\* The parts of the books of a trade have their types.
LEMMA PartsTyped ==
    ASSUME TypeOK, NEW t \in Trades
    PROVE  /\ wallet[t] \in Nat /\ stored[t] \in Nat
           /\ orders[t].entered \in Nat /\ orders[t].added \in Nat /\ orders[t].sold \in Nat
           /\ orders[t].addKeys \in SUBSET (1..MaxAdds)
           /\ ledger[t].original \in Nat /\ ledger[t].remaining \in Nat
           /\ ledger[t].addCount \in Nat /\ ledger[t].finalized \in BOOLEAN
           /\ managed[t].qty \in Nat /\ file[t].qty \in Nat
           /\ perf[t] \in Nat /\ lessons[t] \in Nat
           /\ Base(t) \in Nat
  BY ConstantsAssumption DEF TypeOK, OrderTotals, LifecycleRecords, ManagedPositions, Base

\* Faults are counted.
LEMMA UsedTyped ==
    ASSUME TypeOK
    PROVE  \A kind \in FaultKinds : used[kind] \in Nat
  BY DEF TypeOK

\* Where the handler of a trade is, and with how many shares.
LEMMA StageTyped ==
    ASSUME TypeOK, NEW t \in Trades
    PROVE  /\ Size(t) \in Nat
           /\ Stage(t) \in Stages \cup {"idle"}
           /\ Stage(t) = "idle" => Size(t) = 0
           /\ task.trade # t => Stage(t) = "idle" /\ Size(t) = 0
           /\ task.trade = t => Stage(t) = task.at /\ Size(t) = task.qty
  <1>1. task = Idle \/ task \in [at : Stages, trade : Trades, qty : Nat]
    BY DEF TypeOK, Tasks
  <1>2. CASE task = Idle
    BY <1>2, ConstantsAssumption DEF Idle, Stage, Size
  <1>3. CASE task \in [at : Stages, trade : Trades, qty : Nat]
    BY <1>3 DEF Stage, Size, Stages
  <1> QED BY <1>1, <1>2, <1>3

\* Where a handler leaves its task.
LEMMA GoStage ==
    ASSUME NEW stage, NEW u \in Trades, NEW q, NEW t \in Trades, task' = At(stage, u, q)
    PROVE  /\ u = t => Stage(t)' = stage /\ Size(t)' = q
           /\ u # t => Stage(t)' = "idle" /\ Size(t)' = 0
  BY DEF At, Stage, Size

\* A handler that is done is with no trade.
LEMMA DoneStage ==
    ASSUME NEW t \in Trades, task' = Idle
    PROVE  Stage(t)' = "idle" /\ Size(t)' = 0
  BY ConstantsAssumption DEF Idle, Stage, Size

\* A fault that strikes is counted.
LEMMA FaultStrikes ==
    ASSUME TypeOK, NEW kind \in FaultKinds, Fault(kind)
    PROVE  Struck(kind)
  BY DEF TypeOK, Fault, Struck

\* A save leaves the managed position in memory or in the file too.
LEMMA SaveManages ==
    ASSUME TypeOK, NEW now \in [Trades -> ManagedPositions], Save(now), NEW t \in Trades,
           UNCHANGED <<phase, ambiguous>>
    PROVE  Manages(t, now[t].qty)
  <1>1. managed'[t].qty = now[t].qty
    BY DEF Save
  <1>2. CASE file' = now /\ UNCHANGED used
    BY <1>1, <1>2 DEF Manages, Calm
  <1>3. CASE UNCHANGED file /\ Fault("swallow")
    <2>1. Struck("swallow")
      BY <1>3, FaultStrikes DEF FaultKinds
    <2> QED BY <1>1, <1>3, <2>1 DEF Manages, Hit
  <1> QED BY <1>2, <1>3 DEF Save

\* A task that serves another trade.
LEMMA ForeignTask ==
    ASSUME IInv, TaskStep, NEW t \in Trades, task.trade # t
    PROVE  Foreign(t)
  <1>1. task # Idle
    BY DEF TaskStep, EntryStep, ExitStep, AddStep, FinalizeStep, SubmitEntry, MarkOpen,
       RecordEntry, RegisterPosition, RecordTrade, MarkRejected, RecordExit, RecordExitPnl,
       ApplyExitFill, RecordAdd, ApplyAddFill, RecordAddEntry, RecordOutcome, CloseTrade,
       CreditLessons, MarkFinalized, Idle
  <1>2. /\ task.trade \in Trades /\ task.trade # t
        /\ phase \in {"replay", "running"}
        /\ Stage(t) = "idle" /\ Size(t) = 0
    BY <1>1, StageTyped DEF IInv, TypeOK, TaskInv, Tasks
  <1>3. /\ wallet \in [Trades -> Nat] /\ stored \in [Trades -> Nat]
        /\ orders \in [Trades -> OrderTotals] /\ ledger \in [Trades -> LifecycleRecords]
        /\ managed \in [Trades -> ManagedPositions] /\ file \in [Trades -> ManagedPositions]
        /\ perf \in [Trades -> Nat] /\ lessons \in [Trades -> Nat]
    BY DEF IInv, TypeOK
  <1>4. ASSUME task' = Idle \/ \E stage, q : task' = At(stage, task.trade, q)
        PROVE  Rests(t)
    BY <1>2, <1>4, GoStage, DoneStage DEF Rests
  <1>5. Rests(t)
    BY <1>4 DEF TaskStep, EntryStep, ExitStep, AddStep, FinalizeStep, SubmitEntry, MarkOpen,
       RecordEntry, RegisterPosition, RecordTrade, MarkRejected, RecordExit, RecordExitPnl,
       ApplyExitFill, RecordAdd, ApplyAddFill, RecordAddEntry, RecordOutcome, CloseTrade,
       CreditLessons, MarkFinalized, Go, Done, Persist
  <1>6. ASSUME NEW now, Save(now), now[t] = managed[t]
        PROVE  managed'[t] = managed[t] /\ (file'[t] = file[t] \/ file'[t] = managed[t])
    BY <1>6 DEF Save
  <1> USE DEF Foreign, KeepsOrders, KeepsLedger, KeepsOutcome, UpPhases
  <1>7. CASE SubmitEntry
    BY <1>2, <1>3, <1>5, <1>7 DEF SubmitEntry, Persist
  <1>8. CASE MarkOpen \/ RecordEntry \/ RecordTrade \/ MarkRejected
    BY <1>2, <1>3, <1>5, <1>8 DEF MarkOpen, RecordEntry, RecordTrade, MarkRejected
  <1>9. CASE RegisterPosition
    BY <1>2, <1>3, <1>5, <1>6, <1>9 DEF RegisterPosition
  <1>10. CASE RecordExit \/ RecordExitPnl
    BY <1>2, <1>3, <1>5, <1>10 DEF RecordExit, RecordExitPnl
  <1>11. CASE ApplyExitFill
    BY <1>2, <1>3, <1>5, <1>6, <1>11 DEF ApplyExitFill
  <1>12. CASE RecordAdd \/ RecordAddEntry
    BY <1>2, <1>3, <1>5, <1>12 DEF RecordAdd, RecordAddEntry
  <1>13. CASE ApplyAddFill
    BY <1>2, <1>3, <1>5, <1>6, <1>13 DEF ApplyAddFill
  <1>14. CASE RecordOutcome
    BY <1>2, <1>3, <1>5, <1>14 DEF RecordOutcome
  <1>15. CASE CloseTrade \/ CreditLessons \/ MarkFinalized
    BY <1>2, <1>3, <1>5, <1>15 DEF CloseTrade, CreditLessons, MarkFinalized
  <1> QED BY <1>7, <1>8, <1>9, <1>10, <1>11, <1>12, <1>13, <1>14, <1>15
          DEF TaskStep, EntryStep, ExitStep, AddStep, FinalizeStep

\* The entry handler, seen from its own trade.
LEMMA EntryMoves ==
    ASSUME IInv, EntryStep, NEW t \in Trades, task.trade = t
    PROVE  OwnMove(t)
  <1>1. /\ Stage(t) = task.at /\ Size(t) = task.qty /\ task.qty \in Nat
    BY StageTyped DEF IInv, TypeOK
  <1>2. /\ wallet \in [Trades -> Nat] /\ stored \in [Trades -> Nat]
        /\ orders \in [Trades -> OrderTotals] /\ ledger \in [Trades -> LifecycleRecords]
        /\ managed \in [Trades -> ManagedPositions] /\ file \in [Trades -> ManagedPositions]
        /\ perf \in [Trades -> Nat] /\ lessons \in [Trades -> Nat]
    BY DEF IInv, TypeOK
  <1>3. ledger[t] \in LifecycleRecords /\ orders[t] \in OrderTotals
    BY <1>2
  <1> USE DEF KeepsRows, KeepsHoldings, KeepsOrders, KeepsLedger, KeepsManager, KeepsOutcome, Calm
  <1>4. CASE SubmitEntry
    <2>1. CASE Go("markRejected", t, Size(t)) /\ UNCHANGED <<wallet, stored, orders, fills, used>>
      <3>1. Stage(t)' = "markRejected" /\ Size(t)' = Size(t)
        BY <2>1, GoStage DEF Go
      <3>2. Refuses(t)
        BY <1>1, <1>4, <2>1, <3>1 DEF SubmitEntry, Refuses, Passes
      <3> QED BY <3>2 DEF OwnMove
    <2>2. CASE Persist([wallet EXCEPT ![t] = @ + Size(t)], [orders EXCEPT ![t].entered = Size(t)],
                       At("markOpen", t, Size(t)), At("markRejected", t, Size(t)))
      <3>1. stored'[t] = wallet[t] + Size(t)
        BY <1>2, <2>2 DEF Persist
      <3>2. orders'[t] = [orders[t] EXCEPT !.entered = Size(t)]
        BY <1>2, <2>2 DEF Persist
      <3>3. /\ orders'[t].entered = Size(t) /\ orders'[t].added = orders[t].added
            /\ orders'[t].sold = orders[t].sold /\ orders'[t].addKeys = orders[t].addKeys
        BY <1>3, <3>2 DEF OrderTotals
      <3>4. \/ wallet'[t] = wallet[t] + Size(t) /\ task' = At("markOpen", t, Size(t))
                 /\ UNCHANGED used
            \/ wallet'[t] = wallet[t] /\ task' = At("markRejected", t, Size(t)) /\ Fault("unsure")
        BY <1>2, <2>2 DEF Persist
      <3>5. /\ Stage(t)' \in {"markOpen", "markRejected"} /\ Size(t)' = Size(t)
            /\ Fills(t, wallet[t] + Size(t), "markOpen")
        BY <1>4, <3>1, <3>4, GoStage, FaultStrikes DEF SubmitEntry, Fills, Hit, FaultKinds, IInv
      <3>6. Buys(t)
        BY <1>1, <1>4, <3>3, <3>5 DEF SubmitEntry, Buys
      <3> QED BY <3>6 DEF OwnMove
    <2> QED BY <1>1, <1>4, <2>1, <2>2 DEF SubmitEntry
  <1>5. CASE MarkOpen
    <2>1. Passes(t, "markOpen", "recordEntry")
      BY <1>1, <1>5, GoStage DEF MarkOpen, Go, Passes
    <2>2. ledger[t].status = "INTENT"
      BY <1>5 DEF IInv, TaskInv, MarkOpen
    <2>3. ledger'[t] = Opened(ledger[t], Size(t))
      BY <1>1, <1>2, <1>5 DEF MarkOpen
    <2>4. Books(t, "OPEN", Size(t), Size(t), ledger[t].addCount)
      BY <1>3, <2>2, <2>3 DEF Opened, Books, LifecycleRecords
    <2>5. Opens(t)
      BY <1>5, <2>1, <2>4 DEF MarkOpen, Opens
    <2> QED BY <2>5 DEF OwnMove
  <1>6. CASE RecordEntry
    <2>1. Counts(t)
      BY <1>1, <1>6, GoStage DEF RecordEntry, Go, Passes, Counts
    <2> QED BY <2>1 DEF OwnMove
  <1>7. CASE RegisterPosition
    <2>1. Passes(t, "register", "recordTrade")
      BY <1>1, <1>7, GoStage DEF RegisterPosition, Go, Passes
    <2>2. [managed EXCEPT ![t] = [qty |-> Size(t), taken |-> FALSE]]
             \in [Trades -> ManagedPositions]
      BY <1>1, <1>2 DEF ManagedPositions
    <2>3. [managed EXCEPT ![t] = [qty |-> Size(t), taken |-> FALSE]][t].qty = Size(t)
      BY <1>2
    <2>4. Manages(t, [managed EXCEPT ![t] = [qty |-> Size(t), taken |-> FALSE]][t].qty)
      BY <1>1, <1>7, <2>2, SaveManages DEF RegisterPosition, IInv
    <2>5. Registers(t)
      BY <1>7, <2>1, <2>3, <2>4 DEF RegisterPosition, Registers
    <2> QED BY <2>5 DEF OwnMove
  <1>8. CASE RecordTrade
    <2>1. Returns(t, "recordTrade")
      BY <1>1, <1>8, DoneStage DEF RecordTrade, Done, Returns
    <2>2. UNCHANGED used \/ Struck("swallow")
      BY <1>8, FaultStrikes DEF RecordTrade, FaultKinds, IInv
    <2>3. Counts(t)
      BY <1>8, <2>1, <2>2 DEF RecordTrade, Counts, Hit
    <2> QED BY <2>3 DEF OwnMove
  <1>9. CASE MarkRejected
    <2>1. Returns(t, "markRejected")
      BY <1>1, <1>9, DoneStage DEF MarkRejected, Done, Returns
    <2>2. ledger'[t] = [ledger[t] EXCEPT !.status = "REJECTED"]
      BY <1>2, <1>9 DEF MarkRejected
    <2>3. Books(t, "REJECTED", ledger[t].original, ledger[t].remaining, ledger[t].addCount)
      BY <1>3, <2>2 DEF Books, LifecycleRecords
    <2>4. Rejects(t)
      BY <1>9, <2>1, <2>3 DEF MarkRejected, Rejects
    <2> QED BY <2>4 DEF OwnMove
  <1> QED BY <1>4, <1>5, <1>6, <1>7, <1>8, <1>9 DEF EntryStep

\* The second half of an exit or of an add, and the finalizer.
LEMMA ExitMoves ==
    ASSUME IInv, ExitStep, NEW t \in Trades, task.trade = t
    PROVE  OwnMove(t)
  <1>1. /\ Stage(t) = task.at /\ Size(t) = task.qty /\ task.qty \in Nat
    BY StageTyped DEF IInv, TypeOK
  <1>2. /\ ledger \in [Trades -> LifecycleRecords] /\ ledger[t] \in LifecycleRecords
        /\ managed \in [Trades -> ManagedPositions] /\ managed[t] \in ManagedPositions
    BY DEF IInv, TypeOK
  <1> USE DEF KeepsRows, KeepsHoldings, KeepsOrders, KeepsLedger, KeepsManager, KeepsOutcome, Calm
  <1>3. CASE RecordExit
    <2>1. Passes(t, "recordExit", "recordPnl")
      BY <1>1, <1>3, GoStage DEF RecordExit, Go, Passes
    <2>2. ledger'[t] = Exited(ledger[t], Size(t))
      BY <1>1, <1>2, <1>3 DEF RecordExit
    <2>3. CASE ledger[t].status = "CLOSED"
      <3>1. Reduces(t)
        BY <1>3, <2>1, <2>2, <2>3 DEF RecordExit, Reduces, Exited
      <3> QED BY <3>1 DEF OwnMove
    <2>4. CASE ledger[t].status # "CLOSED"
      <3> DEFINE left == Minus(ledger[t].remaining, Size(t))
      <3>1. ledger[t].status \in OpenStatus
        BY <1>3, <2>4 DEF IInv, TaskInv, RecordExit, Live, LiveStatus
      <3>2. /\ left \in Nat
            /\ left = (IF ledger[t].remaining > Size(t) THEN ledger[t].remaining - Size(t) ELSE 0)
        BY <1>1, <1>2 DEF Minus, LifecycleRecords
      <3>3. ledger'[t] = [ledger[t] EXCEPT !.remaining = left,
                                           !.status = IF left = 0 THEN "CLOSED" ELSE "PARTIAL"]
        BY <2>2, <2>4 DEF Exited
      <3> HIDE DEF left
      <3>4. Books(t, IF left = 0 THEN "CLOSED" ELSE "PARTIAL", ledger[t].original, left,
                  ledger[t].addCount)
        BY <1>2, <3>3 DEF Books, LifecycleRecords
      <3>5. Reduces(t)
        BY <1>3, <2>1, <3>1, <3>2, <3>4 DEF RecordExit, Reduces
      <3> QED BY <3>5 DEF OwnMove
    <2> QED BY <2>3, <2>4
  <1>4. CASE RecordExitPnl
    <2>1. Counts(t)
      BY <1>1, <1>4, GoStage DEF RecordExitPnl, Go, Passes, Counts
    <2> QED BY <2>1 DEF OwnMove
  <1>5. CASE ApplyExitFill
    <2> DEFINE now == [managed EXCEPT ![t] = Reduced(managed[t], Size(t))]
    <2>1. \/ Passes(t, "applyExit", "recordOutcome") /\ ledger[t].status = "CLOSED"
          \/ Returns(t, "applyExit")
      BY <1>1, <1>5, GoStage, DoneStage DEF ApplyExitFill, Go, Done, Passes, Returns
    <2>2. now \in [Trades -> ManagedPositions]
      BY <1>1, <1>2, ReducedTyped
    <2>3. now[t].qty = IF managed[t].qty <= Size(t) THEN 0 ELSE managed[t].qty - Size(t)
      BY <1>2 DEF Reduced, Untracked
    <2>4. Save(now)
      BY <1>1, <1>5 DEF ApplyExitFill
    <2>5. Manages(t, now[t].qty)
      <3> HIDE DEF now
      <3> QED BY <1>5, <2>2, <2>4, SaveManages DEF ApplyExitFill, IInv
    <2>6. Applies(t)
      BY <1>5, <2>1, <2>3, <2>5 DEF ApplyExitFill, Applies
    <2> QED BY <2>6 DEF OwnMove
  <1> QED BY <1>3, <1>4, <1>5 DEF ExitStep

\* The steps of an add are moves of its own trade.
LEMMA AddMoves ==
    ASSUME IInv, AddStep, NEW t \in Trades, task.trade = t
    PROVE  OwnMove(t)
  <1>1. /\ Stage(t) = task.at /\ Size(t) = task.qty /\ task.qty \in Nat
    BY StageTyped DEF IInv, TypeOK
  <1>2. /\ ledger \in [Trades -> LifecycleRecords] /\ ledger[t] \in LifecycleRecords
        /\ managed \in [Trades -> ManagedPositions] /\ managed[t] \in ManagedPositions
    BY DEF IInv, TypeOK
  <1> USE DEF KeepsRows, KeepsHoldings, KeepsOrders, KeepsLedger, KeepsManager, KeepsOutcome, Calm
  <1>3. CASE RecordAdd /\ ledger[t].status \in OpenStatus
    <2>1. Passes(t, "recordAdd", "applyAdd")
      BY <1>1, <1>3, GoStage DEF RecordAdd, Go, Passes
    <2>2. ledger[t].addCount + 1 \in Nat
      BY <1>2 DEF LifecycleRecords
    <2>3. ledger'[t] = Grown(ledger[t], Size(t), ledger[t].addCount + 1)
      BY <1>1, <1>2, <1>3 DEF RecordAdd
    <2>4. Grown(ledger[t], Size(t), ledger[t].addCount + 1).addCount = ledger[t].addCount + 1
      BY <1>2 DEF Grown, LifecycleRecords
    <2>5. Books(t, ledger[t].status, ledger[t].original + Size(t), ledger[t].remaining + Size(t),
                ledger[t].addCount + 1)
      <3>1. /\ ledger'[t].status = ledger[t].status
            /\ ledger'[t].original = ledger[t].original + Size(t)
            /\ ledger'[t].remaining = ledger[t].remaining + Size(t)
            /\ ledger'[t].finalized = ledger[t].finalized
        <4> DEFINE n == ledger[t].addCount + 1
        <4>1. n \in Nat /\ Size(t) \in Nat /\ ledger[t] \in LifecycleRecords
          BY <1>1, <1>2, <2>2
        <4> HIDE DEF n
        <4>2. /\ Grown(ledger[t], Size(t), n).status = ledger[t].status
              /\ Grown(ledger[t], Size(t), n).original = ledger[t].original + Size(t)
              /\ Grown(ledger[t], Size(t), n).remaining = ledger[t].remaining + Size(t)
              /\ Grown(ledger[t], Size(t), n).finalized = ledger[t].finalized
          BY <4>1, GrownTyped
        <4> QED BY <2>3, <4>2 DEF n
      <3> QED BY <2>3, <2>4, <3>1 DEF Books
    <2>6. Grows(t)
      BY <1>3, <2>1, <2>5 DEF RecordAdd, Grows
    <2> QED BY <2>6 DEF OwnMove
  <1>4. CASE RecordAdd /\ ledger[t].status \notin OpenStatus
    <2>1. Grows(t)
      BY <1>1, <1>4, DoneStage DEF RecordAdd, Done, Returns, Grows
    <2> QED BY <2>1 DEF OwnMove
  <1>5. CASE ApplyAddFill
    <2> DEFINE now == [managed EXCEPT ![t].qty = @ + Size(t)]
    <2>1. Passes(t, "applyAdd", "recordAddEntry")
      BY <1>1, <1>5, GoStage DEF ApplyAddFill, Go, Passes
    <2>2. now \in [Trades -> ManagedPositions] /\ now[t].qty = managed[t].qty + Size(t)
      BY <1>1, <1>2 DEF ManagedPositions
    <2>3. CASE Tracked(t)
      <3>1. Save(now)
        BY <1>1, <1>5, <2>3 DEF ApplyAddFill
      <3>2. Manages(t, now[t].qty)
        <4> HIDE DEF now
        <4> QED BY <1>5, <2>2, <3>1, SaveManages DEF ApplyAddFill, IInv
      <3>3. Covers(t)
        BY <1>5, <2>1, <2>2, <2>3, <3>2 DEF ApplyAddFill, Covers, Tracked
      <3> QED BY <3>3 DEF OwnMove
    <2>4. CASE ~Tracked(t)
      <3>1. managed[t].qty = 0
        BY <1>2, <2>4 DEF Tracked, ManagedPositions
      <3>2. Covers(t)
        BY <1>5, <2>1, <2>4, <3>1 DEF ApplyAddFill, Covers
      <3> QED BY <3>2 DEF OwnMove
    <2> QED BY <2>3, <2>4
  <1>6. CASE RecordAddEntry
    <2>1. Counts(t)
      BY <1>1, <1>6, DoneStage DEF RecordAddEntry, Done, Returns, Counts
    <2> QED BY <2>1 DEF OwnMove
  <1> QED BY <1>3, <1>4, <1>5, <1>6 DEF AddStep

\* So are those of the end of a trade.
LEMMA FinalizeMoves ==
    ASSUME IInv, FinalizeStep, NEW t \in Trades, task.trade = t
    PROVE  OwnMove(t)
  <1>1. /\ Stage(t) = task.at /\ Size(t) = task.qty /\ task.qty \in Nat
    BY StageTyped DEF IInv, TypeOK
  <1>2. /\ ledger \in [Trades -> LifecycleRecords] /\ ledger[t] \in LifecycleRecords
        /\ perf \in [Trades -> Nat] /\ lessons \in [Trades -> Nat]
    BY DEF IInv, TypeOK
  <1> USE DEF KeepsRows, KeepsHoldings, KeepsOrders, KeepsLedger, KeepsManager, KeepsOutcome, Calm
  <1>3. CASE RecordOutcome
    <2>1. CASE ledger[t].status = "CLOSED" /\ ~ledger[t].finalized
      <3>1. Passes(t, "recordOutcome", "closeTrade")
        BY <1>1, <1>3, <2>1, GoStage DEF RecordOutcome, Go, Passes
      <3>2. \/ perf'[t] = (IF perf[t] > 0 THEN perf[t] ELSE perf[t] + 1) /\ UNCHANGED used
            \/ perf'[t] = perf[t] /\ Struck("swallow")
        BY <1>2, <1>3, <2>1, FaultStrikes DEF RecordOutcome, FaultKinds, IInv
      <3>3. Scores(t)
        BY <1>3, <2>1, <3>1, <3>2 DEF RecordOutcome, Scores, Hit
      <3> QED BY <3>3 DEF OwnMove
    <2>2. CASE ~(ledger[t].status = "CLOSED" /\ ~ledger[t].finalized)
      <3>1. Scores(t)
        BY <1>1, <1>3, <2>2, DoneStage DEF RecordOutcome, Done, Returns, Scores
      <3> QED BY <3>1 DEF OwnMove
    <2> QED BY <2>1, <2>2
  <1>4. CASE CloseTrade
    <2>1. Passes(t, "closeTrade", "credit")
      BY <1>1, <1>4, GoStage DEF CloseTrade, Go, Passes
    <2>2. UNCHANGED used \/ Struck("swallow")
      BY <1>4, FaultStrikes DEF CloseTrade, FaultKinds, IInv
    <2>3. Counts(t)
      BY <1>4, <2>1, <2>2 DEF CloseTrade, Counts, Hit
    <2> QED BY <2>3 DEF OwnMove
  <1>5. CASE CreditLessons
    <2>1. Passes(t, "credit", "markFinalized")
      BY <1>1, <1>5, GoStage DEF CreditLessons, Go, Passes
    <2>2. lessons'[t] = IF LearningEnabled THEN lessons[t] + 1 ELSE lessons[t]
      BY <1>2, <1>5 DEF CreditLessons
    <2>3. Credits(t)
      BY <1>5, <2>1, <2>2 DEF CreditLessons, Credits
    <2> QED BY <2>3 DEF OwnMove
  <1>6. CASE MarkFinalized
    <2>1. Returns(t, "markFinalized")
      BY <1>1, <1>6, DoneStage DEF MarkFinalized, Done, Returns
    <2>2. ledger'[t] = [ledger[t] EXCEPT !.finalized = TRUE]
      BY <1>2, <1>6 DEF MarkFinalized
    <2>3. Finalizes(t)
      BY <1>2, <1>6, <2>1, <2>2 DEF MarkFinalized, Finalizes, LifecycleRecords
    <2> QED BY <2>3 DEF OwnMove
  <1> QED BY <1>3, <1>4, <1>5, <1>6 DEF FinalizeStep

\* The first half of an exit and of an add, and the other steps of the loops.
LEMMA IntentMoves ==
    ASSUME IInv, NEW u \in Trades, CreateIntent(u), NEW t \in Trades
    PROVE  Move(t)
  <1>1. PICK q \in Nat \ {0} : /\ ledger' = [ledger EXCEPT ![u] = Intended(@, q)]
                               /\ task' = At("submit", u, q)
    BY ConstantsAssumption DEF CreateIntent, Go
  <1>2. /\ ledger \in [Trades -> LifecycleRecords] /\ ledger[u] \in LifecycleRecords
        /\ task = Idle /\ Running
    BY DEF IInv, TypeOK, CreateIntent, Running
  <1>3. Stage(t) = "idle" /\ Size(t) = 0
    BY <1>2, ConstantsAssumption DEF Stage, Size, Idle
  <1> USE DEF KeepsRows, KeepsHoldings, KeepsOrders, KeepsLedger, KeepsManager, KeepsOutcome, Calm
  <1>4. CASE u = t
    <2>1. Begins(t, "submit", q)
      BY <1>1, <1>3, <1>4, GoStage DEF Begins
    <2>2. ledger'[t] = [ledger[t] EXCEPT !.status = "INTENT", !.original = q]
      BY <1>1, <1>2, <1>4 DEF Intended
    <2>3. Books(t, "INTENT", q, ledger[t].remaining, ledger[t].addCount)
      BY <1>2, <1>4, <2>2 DEF Books, LifecycleRecords
    <2>4. Intends(t)
      BY <1>2, <1>4, <2>1, <2>3 DEF CreateIntent, Intends
    <2> QED BY <2>4 DEF Move, OwnMove
  <1>5. CASE u # t
    <2>1. Rests(t)
      BY <1>1, <1>3, <1>5, GoStage DEF Rests
    <2>2. Foreign(t)
      BY <1>1, <1>2, <1>5, <2>1 DEF CreateIntent, Foreign, Running
    <2> QED BY <2>2 DEF Move
  <1> QED BY <1>4, <1>5

\* What place_order's transaction does to each trade.
LEMMA PersistRows ==
    ASSUME IInv, Running, NEW u \in Trades, NEW w \in Nat, NEW book, NEW stage, NEW q,
           Persist([wallet EXCEPT ![u] = w], [orders EXCEPT ![u] = book], At(stage, u, q), Idle),
           stage \in {"recordExit", "recordAdd"},
           UNCHANGED <<phase, ledger, managed, file, perf, lessons, ambiguous>>,
           NEW t \in Trades
    PROVE  /\ Stage(t) = "idle" /\ Size(t) = 0
           /\ u # t => Foreign(t)
           /\ u = t => /\ orders'[t] = book
                       /\ Fills(t, w, stage)
                       /\ \/ Stage(t)' = stage /\ Size(t)' = q
                          \/ Stage(t)' = "idle" /\ Size(t)' = 0
                       /\ KeepsLedger(t) /\ KeepsManager(t) /\ KeepsOutcome(t)
  <1>1. /\ wallet \in [Trades -> Nat] /\ orders \in [Trades -> OrderTotals]
    BY DEF IInv, TypeOK
  <1>2. Stage(t) = "idle" /\ Size(t) = 0
    BY ConstantsAssumption DEF Running, Stage, Size, Idle
  <1>3. /\ stored' = [wallet EXCEPT ![u] = w]
        /\ orders' = [orders EXCEPT ![u] = book]
        /\ \/ wallet' = [wallet EXCEPT ![u] = w] /\ task' = At(stage, u, q) /\ UNCHANGED used
           \/ UNCHANGED wallet /\ task' = Idle /\ Struck("unsure")
    BY FaultStrikes DEF Persist, FaultKinds, IInv
  <1>4. ASSUME u # t PROVE Foreign(t)
    <2>1. Rests(t)
      BY <1>2, <1>3, <1>4, GoStage, DoneStage DEF Rests
    <2> QED BY <1>1, <1>3, <1>4, <2>1
            DEF Foreign, Running, KeepsOrders, KeepsLedger, KeepsOutcome, UpPhases
  <1>5. ASSUME u = t
        PROVE  /\ orders'[t] = book
               /\ Fills(t, w, stage)
               /\ \/ Stage(t)' = stage /\ Size(t)' = q
                  \/ Stage(t)' = "idle" /\ Size(t)' = 0
    <2>1. stored'[t] = w /\ orders'[t] = book
      BY <1>1, <1>3, <1>5
    <2>2. CASE wallet' = [wallet EXCEPT ![u] = w] /\ task' = At(stage, u, q) /\ UNCHANGED used
      <3>1. wallet'[t] = w /\ Stage(t)' = stage /\ Size(t)' = q
        BY <1>1, <1>5, <2>2, GoStage
      <3> QED BY <2>1, <2>2, <3>1 DEF Fills, Calm
    <2>3. CASE UNCHANGED wallet /\ task' = Idle /\ Struck("unsure")
      <3>1. Stage(t)' = "idle" /\ Size(t)' = 0
        BY <2>3, DoneStage
      <3> QED BY <2>1, <2>3, <3>1 DEF Fills, Hit
    <2> QED BY <1>3, <2>2, <2>3
  <1> QED BY <1>2, <1>4, <1>5 DEF KeepsLedger, KeepsManager, KeepsOutcome

\* A sale moves the books of one trade.
LEMMA SellMoves ==
    ASSUME IInv, NEW u \in Trades, ExitFill(u), NEW t \in Trades
    PROVE  Move(t)
  <1>1. PICK q \in ExitSizes(managed[u]) :
           /\ q <= wallet[u]
           /\ Persist([wallet EXCEPT ![u] = @ - q], [orders EXCEPT ![u].sold = @ + q],
                      At("recordExit", u, q), Idle)
    BY DEF ExitFill
  <1>2. managed[u] \in ManagedPositions /\ managed[u].qty \in Nat /\ managed[u].qty > 0
    BY DEF IInv, TypeOK, ManagedPositions, ExitFill, Tracked
  <1>3. q \in Nat /\ q > 0
    BY <1>2, ExitSizesPositive DEF ManagedPositions
  <1>4. q <= managed[u].qty
    BY <1>2 DEF ExitSizes
  <1>5. wallet[u] \in Nat /\ wallet[u] - q \in Nat /\ orders[u] \in OrderTotals
    BY <1>1, <1>3 DEF IInv, TypeOK
  <1> DEFINE book == [orders[u] EXCEPT !.sold = @ + q]
             w == wallet[u] - q
  <1>6. Persist([wallet EXCEPT ![u] = w], [orders EXCEPT ![u] = book], At("recordExit", u, q), Idle)
    BY <1>1
  <1>7. /\ book.entered = orders[u].entered /\ book.added = orders[u].added
        /\ book.sold = orders[u].sold + q /\ book.addKeys = orders[u].addKeys
    BY <1>5 DEF OrderTotals
  <1>8. Running /\ UNCHANGED <<phase, ledger, managed, file, perf, lessons, ambiguous>>
    BY DEF ExitFill
  <1> HIDE DEF book
  <1>9. /\ Stage(t) = "idle" /\ Size(t) = 0
        /\ u # t => Foreign(t)
        /\ u = t => /\ orders'[t] = book
                    /\ Fills(t, w, "recordExit")
                    /\ \/ Stage(t)' = "recordExit" /\ Size(t)' = q
                       \/ Stage(t)' = "idle" /\ Size(t)' = 0
                    /\ KeepsLedger(t) /\ KeepsManager(t) /\ KeepsOutcome(t)
    <2> HIDE DEF w
    <2>1. w \in Nat
      BY <1>5 DEF w
    <2> QED BY <1>6, <1>8, <2>1, PersistRows
  <1>10. u = t => Sells(t)
    BY <1>1, <1>2, <1>3, <1>4, <1>7, <1>8, <1>9 DEF Sells
  <1> QED BY <1>9, <1>10 DEF Move, OwnMove

\* So does an add.
LEMMA AverageMoves ==
    ASSUME IInv, NEW u \in Trades, AddFill(u), NEW t \in Trades
    PROVE  Move(t)
  <1> DEFINE q == ledger[u].original \div AddDivisor
             key == ledger[u].addCount + 1
             book == [orders[u] EXCEPT !.added = @ + q, !.addKeys = @ \cup {key}]
             w == wallet[u] + q
  <1>1. /\ Persist([wallet EXCEPT ![u] = @ + q],
                   [orders EXCEPT ![u].added = @ + q, ![u].addKeys = @ \cup {key}],
                   At("recordAdd", u, q), Idle)
        /\ q > 0 /\ key \notin orders[u].addKeys
    BY DEF AddFill
  <1>2. managed[u].qty \in Nat /\ managed[u].qty > 0 /\ ledger[u].status # "none"
    BY DEF IInv, TypeOK, ManagedPositions, AddFill, Tracked
  <1>3. q \in Nat
    BY Quotient, ConstantsAssumption DEF IInv, TypeOK, LifecycleRecords
  <1> HIDE DEF q, key
  <1>4. wallet[u] \in Nat /\ w \in Nat /\ orders[u] \in OrderTotals
    BY <1>3 DEF IInv, TypeOK
  <1>5. Persist([wallet EXCEPT ![u] = w], [orders EXCEPT ![u] = book], At("recordAdd", u, q), Idle)
    <2>1. /\ [wallet EXCEPT ![u] = @ + q] = [wallet EXCEPT ![u] = w]
          /\ [orders EXCEPT ![u].added = @ + q, ![u].addKeys = @ \cup {key}]
                = [orders EXCEPT ![u] = book]
      BY DEF IInv, TypeOK, OrderTotals
    <2> QED BY <1>1, <2>1
  <1>6. /\ book.entered = orders[u].entered /\ book.added = orders[u].added + q
        /\ book.sold = orders[u].sold /\ book.addKeys = orders[u].addKeys \cup {key}
    BY <1>4 DEF OrderTotals
  <1>7. Running /\ UNCHANGED <<phase, ledger, managed, file, perf, lessons, ambiguous>>
    BY DEF AddFill
  <1> HIDE DEF book, w
  <1>8. /\ Stage(t) = "idle" /\ Size(t) = 0
        /\ u # t => Foreign(t)
        /\ u = t => /\ orders'[t] = book
                    /\ Fills(t, w, "recordAdd")
                    /\ \/ Stage(t)' = "recordAdd" /\ Size(t)' = q
                       \/ Stage(t)' = "idle" /\ Size(t)' = 0
                    /\ KeepsLedger(t) /\ KeepsManager(t) /\ KeepsOutcome(t)
    BY <1>4, <1>5, <1>7, PersistRows
  <1>9. u = t => Averages(t)
    <2>1. CASE u = t
      <3>1. q \in Nat \ {0}
        BY <1>1, <1>3
      <3> QED BY <1>1, <1>2, <1>6, <1>7, <1>8, <2>1, <3>1 DEF Averages, w, key
    <2> QED BY <2>1
  <1> QED BY <1>8, <1>9 DEF Move, OwnMove

\* So does a step of the startup.
LEMMA StartMoves ==
    ASSUME IInv, StartupStep, NEW t \in Trades
    PROVE  Move(t)
  <1>1. /\ wallet \in [Trades -> Nat] /\ stored \in [Trades -> Nat]
        /\ orders \in [Trades -> OrderTotals] /\ ledger \in [Trades -> LifecycleRecords]
        /\ managed \in [Trades -> ManagedPositions] /\ file \in [Trades -> ManagedPositions]
    BY DEF IInv, TypeOK
  <1>2. task = Idle
    BY DEF IInv, TaskInv, StartupStep, Boot, WalletPassDone, IntentsPassDone, GhostsPassDone,
       ReplayDone, ImportLegacy, RepairOpen, RestoreManager, RepairFromOrders, RemoveGhost, Replay
  <1>3. Stage(t) = "idle" /\ Size(t) = 0
    BY <1>2, ConstantsAssumption DEF Stage, Size, Idle
  <1>4. ASSUME task' = task PROVE Rests(t)
    BY <1>2, <1>3, <1>4, DoneStage DEF Rests
  <1> USE DEF KeepsRows, KeepsHoldings, KeepsOrders, KeepsLedger, KeepsManager, KeepsOutcome, Calm
  <1>5. CASE Boot
    <2>1. \/ wallet' = stored /\ UNCHANGED used
          \/ wallet'[t] = 0 /\ Struck("load")
      BY <1>5, FaultStrikes DEF Boot, FaultKinds, IInv
    <2>2. Starts(t)
      BY <1>4, <1>5, <2>1 DEF Boot, Starts, durable
    <2> QED BY <2>2 DEF Move
  <1>6. CASE WalletPassDone
    <2>1. wallet[t] > 0 =>
             /\ ledger[t].status \notin {"none", "INTENT"}
             /\ ledger[t].status \in OpenStatus => managed[t].qty > 0
             /\ ledger[t].status \notin OpenStatus => t \in ambiguous'
      BY <1>6 DEF WalletPassDone, NeedsImport, NeedsOpening, NeedsManager, Held, Tracked
    <2>2. EndsPass(t)
      BY <1>4, <1>6, <2>1 DEF WalletPassDone, EndsPass, durable
    <2> QED BY <2>2 DEF Move
  <1>7. CASE IntentsPassDone
    <2>1. EndsPass(t)
      BY <1>4, <1>7 DEF IntentsPassDone, Orphan, Held, EndsPass, durable
    <2> QED BY <2>1 DEF Move
  <1>8. CASE GhostsPassDone \/ ReplayDone
    <2>1. EndsPass(t)
      BY <1>4, <1>8 DEF GhostsPassDone, ReplayDone, EndsPass, durable
    <2> QED BY <2>1 DEF Move
  <1>9. ASSUME NEW u \in Trades, ImportLegacy(u) \/ RepairOpen(u) \/ RestoreManager(u)
                                   \/ RepairFromOrders(u) \/ RemoveGhost(u) \/ Replay(u),
               u # t
        PROVE  Foreign(t)
    <2>1. Rests(t)
      BY <1>3, <1>4, <1>9, GoStage DEF Rests, ImportLegacy, RepairOpen, RestoreManager,
         RepairFromOrders, RemoveGhost, Replay, Go
    <2>2. ASSUME NEW now, Save(now), now[t] = managed[t]
          PROVE  managed'[t] = managed[t] /\ (file'[t] = file[t] \/ file'[t] = managed[t])
      BY <2>2 DEF Save
    <2> USE DEF Foreign
    <2>3. CASE ImportLegacy(u) \/ RepairOpen(u)
      BY <1>1, <1>9, <2>1, <2>3 DEF ImportLegacy, RepairOpen
    <2>4. CASE RestoreManager(u)
      BY <1>1, <1>9, <2>1, <2>2, <2>4 DEF RestoreManager
    <2>5. CASE RepairFromOrders(u)
      BY <1>1, <1>9, <2>1, <2>5 DEF RepairFromOrders
    <2>6. CASE RemoveGhost(u)
      BY <1>1, <1>9, <2>1, <2>2, <2>6 DEF RemoveGhost
    <2>7. CASE Replay(u)
      BY <1>1, <1>9, <2>1, <2>7 DEF Replay, durable
    <2> QED BY <1>9, <2>3, <2>4, <2>5, <2>6, <2>7
  <1>10. ledger[t] \in LifecycleRecords /\ orders[t] \in OrderTotals /\ wallet[t] \in Nat
    BY <1>1
  <1>11. ASSUME ImportLegacy(t) PROVE Imports(t)
    <2>1. ledger'[t] = [ledger[t] EXCEPT !.status = "INTENT", !.original = wallet[t]]
      BY <1>1, <1>11 DEF ImportLegacy, Intended
    <2>2. Books(t, "INTENT", wallet[t], ledger[t].remaining, ledger[t].addCount)
      BY <1>10, <2>1 DEF Books, LifecycleRecords
    <2> QED BY <1>4, <1>11, <2>2 DEF ImportLegacy, NeedsImport, Held, Imports
  <1>12. ASSUME RepairOpen(t) PROVE Imports(t)
    <2>1. ledger[t].status = "INTENT"
      BY <1>12 DEF RepairOpen, NeedsOpening
    <2>2. ledger'[t] = [ledger[t] EXCEPT !.status = "OPEN", !.original = wallet[t],
                                         !.remaining = wallet[t]]
      BY <1>1, <1>12, <2>1 DEF RepairOpen, Opened
    <2>3. Books(t, "OPEN", wallet[t], wallet[t], ledger[t].addCount)
      BY <1>10, <2>2 DEF Books, LifecycleRecords
    <2> QED BY <1>4, <1>12, <2>1, <2>3 DEF RepairOpen, NeedsOpening, Held, Imports
  <1>13. ASSUME RestoreManager(t) PROVE Restores(t)
    <2> DEFINE now == [managed EXCEPT ![t] = [qty |-> wallet[t], taken |-> FALSE]]
    <2>1. now \in [Trades -> ManagedPositions] /\ now[t].qty = wallet[t]
      BY <1>1, <1>10 DEF ManagedPositions
    <2>2. Save(now) /\ UNCHANGED <<phase, ambiguous>>
      BY <1>13 DEF RestoreManager
    <2>3. managed[t].qty = 0
      BY <1>1, <1>13 DEF RestoreManager, NeedsManager, Tracked, ManagedPositions
    <2> HIDE DEF now
    <2>4. Manages(t, wallet[t])
      BY <2>1, <2>2, SaveManages DEF IInv
    <2> QED BY <1>4, <1>13, <2>3, <2>4 DEF RestoreManager, NeedsManager, Held, Restores
  <1>14. ASSUME RepairFromOrders(t) PROVE Repairs(t)
    <2>1. /\ phase = "intents" /\ ledger[t].status = "INTENT" /\ wallet[t] = 0
      BY <1>10, <1>14 DEF RepairFromOrders, Orphan, Held
    <2>2. orders[t].added = 0 /\ orders[t].sold = 0
      BY <2>1 DEF IInv, OrdersInv, Live, LiveStatus, OpenStatus
    <2>3. Rests(t) /\ KeepsRows(t) /\ KeepsManager(t) /\ KeepsOutcome(t) /\ Calm
      BY <1>4, <1>14 DEF RepairFromOrders
    <2>4. CASE orders[t].entered = 0
      <3>1. ledger'[t] = [ledger[t] EXCEPT !.status = "REJECTED"]
        BY <1>1, <1>14, <2>4 DEF RepairFromOrders
      <3>2. Books(t, "REJECTED", ledger[t].original, ledger[t].remaining, ledger[t].addCount)
        BY <1>10, <3>1 DEF Books, LifecycleRecords
      <3> QED BY <2>1, <2>3, <2>4, <3>2 DEF Repairs
    <2>5. CASE orders[t].entered # 0
      <3> DEFINE e == orders[t].entered
                 n == Cardinality(orders[t].addKeys)
                 opened == Opened(ledger[t], e)
                 grown == Grown(opened, orders[t].added, n)
      <3>1. e \in Nat /\ n \in Nat /\ e > 0
        BY <1>10, <2>5, AddKeysFinite DEF OrderTotals
      <3>2. ledger' = [ledger EXCEPT ![t] = grown]
        BY <1>14, <2>2, <2>5 DEF RepairFromOrders
      <3>3. ledger'[t] = grown
        BY <1>1, <3>2
      <3>4. opened = [ledger[t] EXCEPT !.status = "OPEN", !.original = e, !.remaining = e]
        BY <2>1 DEF Opened
      <3>5. /\ opened.status = "OPEN" /\ opened.original = e /\ opened.remaining = e
            /\ opened.finalized = ledger[t].finalized /\ opened \in LifecycleRecords
        BY <1>10, <3>1, <3>4 DEF LifecycleRecords
      <3> HIDE DEF opened, n, e
      <3>6. grown = [opened EXCEPT !.original = @ + 0, !.remaining = @ + 0, !.addCount = n]
        BY <2>2 DEF Grown
      <3> HIDE DEF grown
      <3>7. /\ grown.status = "OPEN" /\ grown.original = e /\ grown.remaining = e
            /\ grown.addCount = n /\ grown.finalized = ledger[t].finalized
        BY <3>1, <3>5, <3>6 DEF LifecycleRecords
      <3>8. Books(t, "OPEN", e, e, n)
        BY <3>3, <3>7 DEF Books
      <3> QED BY <2>1, <2>3, <3>1, <3>8 DEF Repairs, e, n
    <2> QED BY <2>4, <2>5
  <1>15. ASSUME RemoveGhost(t) PROVE Dismisses(t)
    <2> DEFINE now == [managed EXCEPT ![t] = Untracked]
    <2>1. now \in [Trades -> ManagedPositions] /\ now[t].qty = 0
      BY <1>1 DEF ManagedPositions, Untracked
    <2>2. Save(now) /\ UNCHANGED <<phase, ambiguous>>
      BY <1>15 DEF RemoveGhost
    <2> HIDE DEF now
    <2>3. Manages(t, 0)
      BY <2>1, <2>2, SaveManages DEF IInv
    <2> QED BY <1>4, <1>15, <2>3 DEF RemoveGhost, Ghost, Tracked, Dismisses
  <1>16. ASSUME Replay(t) PROVE Resumes(t)
    <2>1. Begins(t, "recordOutcome", 0)
      BY <1>3, <1>16, GoStage DEF Replay, Go, Begins
    <2> QED BY <1>16, <2>1 DEF Replay, Unfinalized, Resumes, durable
  <1>17. ASSUME NEW u \in Trades, ImportLegacy(u) \/ RepairOpen(u) \/ RestoreManager(u)
                                    \/ RepairFromOrders(u) \/ RemoveGhost(u) \/ Replay(u)
         PROVE  Move(t)
    <2>1. CASE u = t
      BY <1>11, <1>12, <1>13, <1>14, <1>15, <1>16, <1>17, <2>1 DEF Move, OwnMove
    <2>2. CASE u # t
      BY <1>9, <1>17, <2>2 DEF Move
    <2> QED BY <2>1, <2>2
  <1> QED BY <1>5, <1>6, <1>7, <1>8, <1>17 DEF StartupStep

\* A step of the specification is a move of each trade.
LEMMA Moves ==
    ASSUME IInv, [Next]_vars, NEW t \in Trades
    PROVE  Move(t)
  <1> USE DEF KeepsRows, KeepsHoldings, KeepsOrders, KeepsLedger, KeepsManager, KeepsOutcome, Calm
  <1>1. CASE TaskStep /\ task.trade = t
    BY <1>1, EntryMoves, ExitMoves, AddMoves, FinalizeMoves DEF TaskStep, Move
  <1>2. CASE TaskStep /\ task.trade # t
    BY <1>2, ForeignTask DEF Move
  <1>3. CASE CheckExits
    <2>1. Stage(t) = "idle" /\ Size(t) = 0 /\ task' = Idle
      BY <1>3, ConstantsAssumption DEF CheckExits, Running, Stage, Size, Idle
    <2>2. Rests(t)
      BY <2>1, DoneStage DEF Rests
    <2>3. Foreign(t)
      BY <1>3, <2>2 DEF CheckExits, Foreign, Running
    <2> QED BY <2>3 DEF Move
  <1>4. CASE Crash
    <2>1. Stage(t)' = "idle" /\ Size(t)' = 0 /\ Struck("crash")
      BY <1>4, DoneStage, FaultStrikes DEF Crash, FaultKinds, IInv
    <2>2. Dies(t)
      BY <1>4, <2>1 DEF Crash, Dies, Untracked, durable
    <2> QED BY <2>2 DEF Move
  <1>5. CASE Raise
    <2>1. Stage(t)' = "idle" /\ Size(t)' = 0 /\ Struck("raise")
      BY <1>5, DoneStage, FaultStrikes DEF Raise, Done, FaultKinds, IInv
    <2>2. Stage(t) \in RaisingStages \cup {"idle"}
      BY <1>5, StageTyped DEF Raise, IInv
    <2>3. Fails(t)
      BY <1>5, <2>1, <2>2 DEF Raise, Fails, Hit, durable
    <2> QED BY <2>3 DEF Move
  <1>6. CASE UNCHANGED vars
    <2>1. Stage(t)' = Stage(t) /\ Size(t)' = Size(t)
      BY <1>6 DEF vars, Stage, Size
    <2>2. Stutters(t)
      BY <1>6, <2>1 DEF vars, durable, Stutters
    <2> QED BY <2>2 DEF Move
  <1>7. CASE \E u \in Trades : CreateIntent(u) \/ ExitFill(u) \/ AddFill(u)
    BY <1>7, IntentMoves, SellMoves, AverageMoves
  <1> QED BY <1>1, <1>2, <1>3, <1>4, <1>5, <1>6, <1>7, StartMoves DEF Next

-----------------------------------------------------------------------------
(* The invariant of one trade, kept by every move.                         *)

\* Faults are only counted up, one at a time.
LEMMA UsedStep ==
    ASSUME TypeOK, [Next]_vars
    PROVE  UNCHANGED used \/ \E kind \in FaultKinds : Struck(kind)
  <1>1. ASSUME NEW now, Save(now) PROVE UNCHANGED used \/ Fault("swallow")
    BY <1>1 DEF Save
  <1>2. ASSUME NEW w, NEW b, NEW f, NEW r, Persist(w, b, f, r)
        PROVE  UNCHANGED used \/ Fault("unsure")
    BY <1>2 DEF Persist
  <1>3. ASSUME EntryStep PROVE UNCHANGED used \/ Fault("swallow") \/ Fault("unsure")
    BY <1>1, <1>2, <1>3 DEF EntryStep, SubmitEntry, MarkOpen, RecordEntry, RegisterPosition,
       RecordTrade, MarkRejected
  <1>4. ASSUME ExitStep \/ AddStep PROVE UNCHANGED used \/ Fault("swallow")
    BY <1>1, <1>4 DEF ExitStep, AddStep, RecordExit, RecordExitPnl, ApplyExitFill, RecordAdd,
       ApplyAddFill, RecordAddEntry
  <1>5. ASSUME FinalizeStep PROVE UNCHANGED used \/ Fault("swallow")
    BY <1>5 DEF FinalizeStep, RecordOutcome, CloseTrade, CreditLessons, MarkFinalized
  <1>6. ASSUME StartupStep PROVE UNCHANGED used \/ Fault("load") \/ Fault("swallow")
    BY <1>1, <1>6 DEF StartupStep, Boot, WalletPassDone, IntentsPassDone, GhostsPassDone,
       ReplayDone, ImportLegacy, RepairOpen, RestoreManager, RepairFromOrders, RemoveGhost,
       Replay
  <1>7. ASSUME NEW u \in Trades, CreateIntent(u) \/ ExitFill(u) \/ AddFill(u)
        PROVE  UNCHANGED used \/ Fault("unsure")
    BY <1>2, <1>7 DEF CreateIntent, ExitFill, AddFill
  <1>8. ASSUME CheckExits \/ Crash \/ Raise \/ UNCHANGED vars
        PROVE  UNCHANGED used \/ Fault("crash") \/ Fault("raise")
    BY <1>8 DEF CheckExits, Crash, Raise, vars
  <1>9. \/ UNCHANGED used
        \/ Fault("crash") \/ Fault("raise") \/ Fault("unsure") \/ Fault("load") \/ Fault("swallow")
    BY <1>3, <1>4, <1>5, <1>6, <1>7, <1>8 DEF Next, TaskStep
  <1> QED BY <1>9, FaultStrikes DEF FaultKinds

\* What no fault of these kinds has met was not met before, nor just now.
LEMMA NeverYet ==
    ASSUME TypeOK, [Next]_vars, NEW kinds \in SUBSET FaultKinds, Never(kinds)'
    PROVE  Never(kinds) /\ \A kind \in kinds : ~Struck(kind)
  <1>1. \A kind \in FaultKinds : used[kind] \in Nat
    BY UsedTyped
  <1>2. \A kind \in kinds : used'[kind] = 0
    BY DEF Never
  <1>3. \A kind \in kinds : ~Struck(kind)
    BY <1>1, <1>2 DEF Struck
  <1>4. ASSUME NEW kind \in kinds PROVE used[kind] = 0
    <2>1. CASE UNCHANGED used
      BY <1>2, <2>1
    <2>2. ASSUME NEW other \in FaultKinds, Struck(other) PROVE used[kind] = 0
      <3>1. other # kind
        BY <1>3, <2>2
      <3> QED BY <1>2, <2>2, <3>1 DEF Struck
    <2> QED BY <2>1, <2>2, UsedStep
  <1> QED BY <1>3, <1>4 DEF Never

\* Every step keeps what a handler knows of its trade.
LEMMA HandlerStep ==
    ASSUME BooksInv, [Next]_vars, NEW t \in Trades
    PROVE  HandlerInv(t)'
  <1>1. /\ HandlerInv(t) /\ Move(t)
        /\ t \in Legacy => Base(t) = LegacyQty
        /\ t \notin Legacy => Base(t) = 0
    BY Moves DEF BooksInv, TradeInv, Base
  <1>2. /\ wallet[t] \in Nat /\ stored[t] \in Nat /\ Size(t) \in Nat
        /\ orders[t].entered \in Nat /\ orders[t].added \in Nat
        /\ ledger[t].remaining \in Nat
        /\ managed[t].qty \in Nat /\ file[t].qty \in Nat
    BY PartsTyped, StageTyped DEF BooksInv, IInv
  <1>3. /\ Stage(t) = "submit" => ledger[t].status = "INTENT"
        /\ Stage(t) = "markOpen" => ledger[t].status = "INTENT" /\ orders[t].entered = Size(t)
        /\ ledger[t].status = "INTENT" => managed[t].qty = 0 /\ file[t].qty = 0
        /\ Stage(t) # "idle" => phase \in {"replay", "running"}
    BY <1>2, StageTyped DEF BooksInv, IInv, TaskInv, ManagedInv, Live, LiveStatus, OpenStatus, Idle
  <1> USE DEF HandlerInv, KeepsRows, KeepsHoldings, KeepsOrders, KeepsLedger, KeepsManager, Calm,
              EntryStages, ExitStages
  <1>4. CASE Intends(t) \/ Refuses(t) \/ Opens(t) \/ Counts(t) \/ Rejects(t)
    BY <1>1, <1>2, <1>3, <1>4
       DEF Intends, Refuses, Opens, Counts, Rejects, Passes, Returns, Begins, Books, Hit, Running
  <1>5. CASE Buys(t)
    <2>1. /\ phase' = phase /\ phase \in {"replay", "running"}
          /\ Stage(t)' \in {"markOpen", "markRejected"}
          /\ ledger'[t] = ledger[t] /\ ledger[t].status = "INTENT"
          /\ t \notin Legacy
      BY <1>1, <1>3, <1>5 DEF Buys, Fills, Hit
    <2> QED BY <1>1, <2>1
  <1>6. CASE Registers(t) \/ Covers(t)
    BY <1>1, <1>2, <1>3, <1>6 DEF Registers, Covers, Manages, Passes, Returns, Hit
  <1>13. CASE Applies(t)
    <2>1. /\ phase' = phase /\ phase \in {"replay", "running"}
          /\ Stage(t)' \in {"recordOutcome", "idle"}
          /\ ledger'[t] = ledger[t] /\ orders'[t] = orders[t]
      BY <1>1, <1>3, <1>13 DEF Applies, Manages, Passes, Returns, Hit
    <2> QED BY <1>1, <2>1
  <1>7. CASE Sells(t) \/ Averages(t)
    BY <1>1, <1>2, <1>7 DEF Sells, Averages, Fills, Hit, Running
  <1>8. CASE Reduces(t) \/ Grows(t)
    BY <1>1, <1>2, <1>8 DEF Reduces, Grows, Books, Passes, Returns, OpenStatus
  <1>9. CASE Scores(t) \/ Credits(t) \/ Finalizes(t) \/ Resumes(t)
    BY <1>1, <1>2, <1>9 DEF Scores, Credits, Finalizes, Resumes, Passes, Returns, Begins, Hit
  <1>10. CASE Imports(t) \/ Restores(t) \/ Repairs(t) \/ Dismisses(t)
    BY <1>1, <1>2, <1>10 DEF Imports, Restores, Repairs, Dismisses, Manages, Books, Rests, Hit
  <1>11. CASE Foreign(t) \/ Starts(t) \/ EndsPass(t)
    BY <1>1, <1>2, <1>11 DEF Foreign, Starts, EndsPass, Rests, UpPhases
  <1>12. CASE Dies(t) \/ Fails(t) \/ Stutters(t)
    BY <1>1, <1>2, <1>12 DEF Dies, Fails, Stutters, Hit
  <1> QED BY <1>1, <1>4, <1>5, <1>6, <1>7, <1>8, <1>9, <1>10, <1>11, <1>12, <1>13 DEF Move, OwnMove


\* Every step keeps the rows.
LEMMA RowsStep ==
    ASSUME BooksInv, [Next]_vars, NEW t \in Trades
    PROVE  RowsInv(t)'
  <1>1. SUFFICES ASSUME Never({"unsure", "load"})'
                 PROVE  /\ (stored[t] + orders[t].sold = Base(t) + orders[t].entered + orders[t].added)'
                        /\ (phase # "down" => wallet[t] = stored[t])'
                        /\ (orders[t].added = 0 /\ Live(t) =>
                               ledger[t].original = Base(t) + orders[t].entered)'
    BY DEF RowsInv
  <1>2. /\ stored[t] + orders[t].sold = Base(t) + orders[t].entered + orders[t].added
        /\ phase # "down" => wallet[t] = stored[t]
        /\ orders[t].added = 0 /\ Live(t) => ledger[t].original = Base(t) + orders[t].entered
        /\ ~Struck("unsure") /\ ~Struck("load")
    BY <1>1, NeverYet DEF BooksInv, IInv, TradeInv, RowsInv, FaultKinds
  <1>3. /\ Move(t)
        /\ t \notin Legacy => Base(t) = 0
        /\ Stage(t) \in EntryStages => t \notin Legacy
        /\ t \in Legacy => orders[t].entered = 0
        /\ Stage(t) = "recordAdd" => orders[t].added > 0
    BY Moves DEF BooksInv, TradeInv, HandlerInv, Base
  <1>4. /\ wallet[t] \in Nat /\ stored[t] \in Nat /\ Size(t) \in Nat /\ Base(t) \in Nat
        /\ orders[t].entered \in Nat /\ orders[t].added \in Nat /\ orders[t].sold \in Nat
        /\ ledger[t].original \in Nat
    BY PartsTyped, StageTyped DEF BooksInv, IInv
  <1>5. /\ Stage(t) = "submit" => ledger[t].status = "INTENT" /\ orders[t].entered = 0
        /\ Stage(t) = "markOpen" => orders[t].entered = Size(t)
        /\ ~Live(t) => orders[t].added = 0 /\ orders[t].sold = 0
        /\ Stage(t) # "idle" => phase \in {"replay", "running"}
    BY StageTyped DEF BooksInv, IInv, TaskInv, OrdersInv, Idle
  <1>6. Base(t)' = Base(t)
    BY DEF Base
  <1> USE <1>2, <1>3, <1>4, <1>5, <1>6
      DEF KeepsRows, KeepsHoldings, KeepsOrders, KeepsLedger, KeepsManager, Calm, EntryStages,
          Live, LiveStatus, OpenStatus
  <1>7. CASE Intends(t) \/ Refuses(t) \/ Rejects(t)
    BY <1>7 DEF Intends, Refuses, Rejects, Passes, Returns, Begins, Books, Running
  <1>17. CASE Opens(t)
    BY <1>17 DEF Opens, Passes, Books
  <1>18. CASE Counts(t)
    BY <1>18 DEF Counts, Hit
  <1>8. CASE Buys(t)
    <2>1. /\ stored'[t] = wallet[t] + Size(t) /\ wallet'[t] = stored'[t]
          /\ orders'[t].entered = Size(t) /\ orders'[t].added = orders[t].added
          /\ orders'[t].sold = orders[t].sold
          /\ ledger'[t] = ledger[t] /\ phase' = phase /\ Stage(t) = "submit"
      BY <1>8 DEF Buys, Fills, Hit
    <2>2. ~Live(t)' /\ wallet[t] = stored[t] /\ orders[t].entered = 0
      BY <2>1
    <2> QED BY <2>1, <2>2
  <1>9. CASE Registers(t) \/ Applies(t) \/ Covers(t)
    BY <1>9 DEF Registers, Applies, Covers, Manages, Passes, Returns, Hit
  <1>10. CASE Sells(t)
    BY <1>10 DEF Sells, Fills, Hit, Running
  <1>11. CASE Averages(t)
    BY <1>11 DEF Averages, Fills, Hit, Running
  <1>12. CASE Reduces(t) \/ Grows(t)
    BY <1>12 DEF Reduces, Grows, Books, Passes, Returns
  <1>13. CASE Scores(t) \/ Credits(t) \/ Finalizes(t) \/ Resumes(t)
    BY <1>13 DEF Scores, Credits, Finalizes, Resumes, Passes, Returns, Begins, Hit
  <1>14. CASE Imports(t) \/ Restores(t) \/ Repairs(t) \/ Dismisses(t)
    BY <1>14 DEF Imports, Restores, Repairs, Dismisses, Manages, Books, Rests, Hit
  <1>15. CASE Foreign(t) \/ Starts(t) \/ EndsPass(t)
    BY <1>15 DEF Foreign, Starts, EndsPass, Rests, UpPhases
  <1>16. CASE Dies(t) \/ Fails(t) \/ Stutters(t)
    BY <1>16 DEF Dies, Fails, Stutters, Hit
  <1> QED BY <1>7, <1>8, <1>9, <1>10, <1>11, <1>12, <1>13, <1>14, <1>15, <1>16, <1>17, <1>18 DEF Move, OwnMove

\* Every step keeps the agreement of the books.
LEMMA AgreeStep ==
    ASSUME BooksInv, [Next]_vars, NEW t \in Trades
    PROVE  AgreeInv(t)'
  <1>1. SUFFICES ASSUME Never({"crash", "raise", "load"})'
                 PROVE  AgreeInv(t)'
    BY DEF AgreeInv
  <1>2. /\ Never({"crash", "raise", "load"})
        /\ ~Struck("crash") /\ ~Struck("raise") /\ ~Struck("load")
    BY <1>1, NeverYet DEF BooksInv, IInv, FaultKinds
  <1>3. /\ Move(t)
        /\ Stage(t) = "register" => managed[t].qty = 0
        /\ Stage(t) \in {"recordAdd", "applyAdd"} => managed[t].qty > 0
    BY Moves DEF BooksInv, TradeInv, HandlerInv
  <1>4. /\ wallet[t] \in Nat /\ stored[t] \in Nat /\ Size(t) \in Nat /\ Base(t) \in Nat
        /\ ledger[t].remaining \in Nat /\ managed[t].qty \in Nat /\ file[t].qty \in Nat
    BY PartsTyped, StageTyped DEF BooksInv, IInv
  <1>5. /\ Stage(t) \in {"submit", "markOpen", "markRejected"} => ledger[t].status = "INTENT"
        /\ Stage(t) \in {"recordExit", "recordAdd"} => Size(t) > 0
        /\ Stage(t) # "idle" => phase \in {"replay", "running"}
        /\ ledger[t].status \in OpenStatus => ledger[t].remaining > 0
        /\ ledger[t].status = "INTENT" => managed[t].qty = 0
    BY <1>4, StageTyped
       DEF BooksInv, IInv, TaskInv, LedgerInv, ManagedInv, Idle, Live, LiveStatus, OpenStatus
  <1>6. /\ phase = "down" => /\ ledger[t].status = "none" /\ stored[t] = Base(t)
                             /\ managed[t].qty = 0 /\ file[t].qty = 0
        /\ phase = "wallet" =>
              /\ ledger[t].status \in {"none", "INTENT", "OPEN"}
              /\ ledger[t].status = "INTENT" => wallet[t] > 0
              /\ Book(t) \in {0, wallet[t]}
              /\ managed[t].qty \in {0, Book(t)}
        /\ phase \in UpPhases =>
              /\ wallet[t] + Due({"recordExit"}, t) = Book(t) + Due({"recordAdd", "markOpen"}, t)
              /\ managed[t].qty + Due({"markOpen", "recordEntry", "register", "recordAdd",
                                       "applyAdd"}, t)
                    = wallet[t] + Due(ExitStages, t)
              /\ ledger[t].status = "INTENT" => Stage(t) \in {"submit", "markOpen", "markRejected"}
    BY <1>2 DEF BooksInv, TradeInv, AgreeInv
  <1>7. Base(t)' = Base(t)
    BY DEF Base
  <1> HIDE DEF Never
  <1> USE <1>2, <1>3, <1>4, <1>5, <1>6, <1>7
      DEF AgreeInv, KeepsRows, KeepsHoldings, KeepsLedger, KeepsManager, Calm, Due, Book,
          OpenStatus, ExitStages, UpPhases
  <1>8. CASE Intends(t) \/ Refuses(t)
    BY <1>8 DEF Intends, Refuses, Passes, Begins, Books, Running
  <1>9. CASE Rejects(t)
    BY <1>9 DEF Rejects, Returns, Books
  <1>10. CASE Buys(t)
    <2>1. /\ phase' = phase /\ phase \in {"replay", "running"} /\ ledger'[t] = ledger[t]
          /\ managed'[t] = managed[t] /\ file'[t] = file[t] /\ Size(t)' = Size(t)
          /\ Stage(t) = "submit" /\ Stage(t)' \in {"markOpen", "markRejected"}
          /\ \/ wallet'[t] = wallet[t] + Size(t) /\ Stage(t)' = "markOpen"
             \/ wallet'[t] = wallet[t] /\ Stage(t)' = "markRejected"
      BY <1>10 DEF Buys, Fills, Hit
    <2> QED BY <2>1
  <1>11. CASE Opens(t)
    BY <1>11 DEF Opens, Passes, Books
  <1>12. CASE Counts(t)
    BY <1>12 DEF Counts, Passes, Returns, Hit
  <1>13. CASE Registers(t)
    BY <1>13 DEF Registers, Manages, Passes, Hit
  <1>14. CASE Sells(t)
    <2>1. PICK q \in Nat \ {0} :
             /\ phase' = phase /\ phase = "running" /\ Stage(t) = "idle"
             /\ ledger'[t] = ledger[t] /\ managed'[t] = managed[t] /\ file'[t] = file[t]
             /\ q <= wallet[t]
             /\ \/ wallet'[t] = wallet[t] - q /\ Stage(t)' = "recordExit" /\ Size(t)' = q
                \/ wallet'[t] = wallet[t] /\ Stage(t)' = "idle" /\ Size(t)' = 0
      BY <1>14 DEF Sells, Fills, Hit, Running
    <2> QED BY <2>1
  <1>15. CASE Averages(t)
    <2>1. PICK q \in Nat \ {0} :
             /\ phase' = phase /\ phase = "running" /\ Stage(t) = "idle"
             /\ ledger'[t] = ledger[t] /\ managed'[t] = managed[t] /\ file'[t] = file[t]
             /\ \/ wallet'[t] = wallet[t] + q /\ Stage(t)' = "recordAdd" /\ Size(t)' = q
                \/ wallet'[t] = wallet[t] /\ Stage(t)' = "idle" /\ Size(t)' = 0
      BY <1>15 DEF Averages, Fills, Hit, Running
    <2> QED BY <2>1
  <1>16. CASE Reduces(t)
    BY <1>16 DEF Reduces, Books, Passes
  <1>17. CASE Applies(t)
    <2>1. /\ phase' = phase /\ phase \in UpPhases /\ Stage(t) = "applyExit"
          /\ ledger'[t] = ledger[t] /\ wallet'[t] = wallet[t]
          /\ Stage(t)' \in {"recordOutcome", "idle"}
          /\ managed'[t].qty = IF managed[t].qty <= Size(t) THEN 0 ELSE managed[t].qty - Size(t)
      BY <1>17 DEF Applies, Manages, Passes, Returns, Hit
    <2>2. managed[t].qty = wallet[t] + Size(t) /\ wallet[t] = Book(t)
      BY <2>1
    <2>3. managed'[t].qty = wallet'[t]
      BY <2>1, <2>2
    <2> QED BY <2>1, <2>2, <2>3
  <1>18. CASE Grows(t)
    BY <1>18 DEF Grows, Books, Passes, Returns
  <1>19. CASE Covers(t)
    BY <1>19 DEF Covers, Manages, Passes, Hit
  <1>20. CASE Scores(t) \/ Credits(t)
    BY <1>20 DEF Scores, Credits, Passes, Returns, Hit
  <1>21. CASE Finalizes(t) \/ Resumes(t)
    BY <1>21 DEF Finalizes, Resumes, Returns, Begins
  <1>22. CASE Imports(t)
    BY <1>22 DEF Imports, Books, Rests
  <1>23. CASE Restores(t)
    BY <1>23 DEF Restores, Manages, Rests, Hit
  <1>24. CASE Repairs(t)
    BY <1>24 DEF Repairs, Rests
  <1>25. CASE Dismisses(t)
    BY <1>25 DEF Dismisses, Rests
  <1>26. CASE Foreign(t) \/ Starts(t)
    BY <1>26 DEF Foreign, Starts, Rests
  <1>27. CASE EndsPass(t)
    BY <1>27 DEF EndsPass, Rests
  <1>28. CASE Dies(t) \/ Fails(t) \/ Stutters(t)
    BY <1>28 DEF Dies, Fails, Stutters, Hit
  <1> QED BY <1>8, <1>9, <1>10, <1>11, <1>12, <1>13, <1>14, <1>15, <1>16, <1>17, <1>18, <1>19,
             <1>20, <1>21, <1>22, <1>23, <1>24, <1>25, <1>26, <1>27, <1>28 DEF Move, OwnMove

\* Every step keeps the outcomes.
LEMMA OutcomeStep ==
    ASSUME BooksInv, [Next]_vars, NEW t \in Trades
    PROVE  OutcomeInv(t)'
  <1>1. OutcomeInv(t) /\ Move(t)
    BY Moves DEF BooksInv, TradeInv
  <1>2. /\ perf[t] \in Nat /\ lessons[t] \in Nat /\ ledger[t].finalized \in BOOLEAN
        /\ used["crash"] \in Nat /\ used["raise"] \in Nat
    BY PartsTyped, UsedTyped DEF BooksInv, IInv, FaultKinds
  <1>3. /\ Stage(t) \in {"submit", "markOpen", "markRejected"} => ledger[t].status = "INTENT"
        /\ Stage(t) \in {"recordExit", "recordAdd"} => Live(t)
        /\ ledger[t].finalized => ledger[t].status = "CLOSED"
    BY StageTyped DEF BooksInv, IInv, TaskInv, LedgerInv
  <1>4. \/ UNCHANGED used
        \/ Struck("crash") \/ Struck("raise") \/ Struck("unsure") \/ Struck("load")
        \/ Struck("swallow")
    BY UsedStep DEF BooksInv, IInv, FaultKinds
  <1>5. /\ used'["crash"] >= used["crash"] /\ used'["raise"] >= used["raise"]
        /\ used'["crash"] \in Nat /\ used'["raise"] \in Nat
        /\ Struck("crash") => used'["crash"] + used'["raise"] = used["crash"] + used["raise"] + 1
        /\ Struck("raise") => used'["crash"] + used'["raise"] = used["crash"] + used["raise"] + 1
    BY <1>2, <1>4 DEF Struck, FaultKinds
  <1>6. Never({"swallow"})' => Never({"swallow"}) /\ ~Struck("swallow")
    BY NeverYet DEF BooksInv, IInv, FaultKinds
  <1> HIDE DEF Never
  <1> USE <1>1, <1>2, <1>3, <1>5, <1>6
      DEF OutcomeInv, KeepsOutcome, KeepsLedger, Calm
  <1>7. CASE Intends(t) \/ Refuses(t) \/ Rejects(t)
    BY <1>7 DEF Intends, Refuses, Rejects, Passes, Returns, Begins, Books
  <1>8. CASE Buys(t) \/ Sells(t) \/ Averages(t)
    BY <1>8 DEF Buys, Sells, Averages, Fills, Hit
  <1>9. CASE Opens(t) \/ Counts(t)
    BY <1>9 DEF Opens, Counts, Books, Passes, Returns, Hit
  <1>10. CASE Registers(t) \/ Applies(t) \/ Covers(t)
    BY <1>10 DEF Registers, Applies, Covers, Manages, Passes, Returns, Hit
  <1>11. CASE Reduces(t) \/ Grows(t)
    BY <1>11 DEF Reduces, Grows, Books, Passes, Returns, Live, LiveStatus, OpenStatus
  <1>12. CASE Scores(t)
    BY <1>12 DEF Scores, Passes, Returns, Hit
  <1>13. CASE Credits(t) \/ Finalizes(t) \/ Resumes(t)
    BY <1>13 DEF Credits, Finalizes, Resumes, Passes, Returns, Begins
  <1>14. CASE Imports(t) \/ Repairs(t)
    BY <1>14 DEF Imports, Repairs, Books, Rests
  <1>15. CASE Restores(t) \/ Dismisses(t)
    BY <1>15 DEF Restores, Dismisses, Manages, Rests, Hit
  <1>16. CASE Foreign(t) \/ Starts(t) \/ EndsPass(t)
    BY <1>16 DEF Foreign, Starts, EndsPass, Rests
  <1>17. CASE Dies(t)
    BY <1>17 DEF Dies
  <1>18. CASE Fails(t)
    BY <1>18 DEF Fails, Hit
  <1>19. CASE Stutters(t)
    BY <1>19 DEF Stutters
  <1> QED BY <1>7, <1>8, <1>9, <1>10, <1>11, <1>12, <1>13, <1>14, <1>15, <1>16, <1>17, <1>18,
             <1>19 DEF Move, OwnMove

\* The added shares of a trade only grow.
LEMMA AddsGrow ==
    ASSUME BooksInv, [Next]_vars, NEW t \in Trades, orders'[t].added = 0
    PROVE  orders[t].added = 0 /\ ~Averages(t)
  <1>1. orders[t].added \in Nat
    BY PartsTyped DEF BooksInv, IInv
  <1>2. Move(t)
    BY Moves DEF BooksInv
  <1>3. CASE Averages(t)
    BY <1>1, <1>3 DEF Averages
  <1>4. ASSUME ~Averages(t) PROVE orders'[t].added = orders[t].added
    BY <1>2, <1>4 DEF Move, OwnMove, Foreign, Starts, EndsPass, Dies, Fails, Stutters, Intends,
       Refuses, Buys, Opens, Counts, Registers, Rejects, Sells, Reduces, Applies, Grows, Covers,
       Scores, Credits, Finalizes, Imports, Restores, Repairs, Dismisses, Resumes, KeepsRows,
       KeepsOrders
  <1> QED BY <1>3, <1>4

\* Every step keeps what covers a position.
LEMMA CoverStep ==
    ASSUME BooksInv, [Next]_vars, NEW t \in Trades
    PROVE  CoverInv(t)'
  <1>1. SUFFICES ASSUME Never({"raise"})', orders'[t].added = 0
                 PROVE  CoverInv(t)'
    BY DEF CoverInv
  <1>2. Never({"raise"}) /\ ~Struck("raise")
    BY <1>1, NeverYet DEF BooksInv, IInv, FaultKinds
  <1>3. /\ wallet[t] \in Nat /\ stored[t] \in Nat /\ Size(t) \in Nat /\ Base(t) \in Nat
        /\ managed[t].qty \in Nat /\ file[t].qty \in Nat
        /\ orders[t].entered \in Nat /\ orders[t].added \in Nat
    BY PartsTyped, StageTyped DEF BooksInv, IInv
  <1>4. Move(t) /\ HandlerInv(t)
    BY Moves DEF BooksInv, TradeInv
  <1>5. orders[t].added = 0 /\ ~Averages(t)
    BY <1>1, AddsGrow
  <1>6. /\ file[t].qty > 0 => file[t].qty >= stored[t] /\ file[t].qty >= wallet[t]
        /\ managed[t].qty > 0 => /\ managed[t].qty >= stored[t] + Due(ExitStages, t)
                                 /\ managed[t].qty >= wallet[t] + Due(ExitStages, t)
        /\ phase \in UpPhases /\ wallet[t] > 0 /\ managed[t].qty = 0 =>
              t \in ambiguous \/ Stage(t) \in {"markOpen", "recordEntry", "register"}
        /\ phase \in {"intents", "ghosts"} /\ wallet[t] > 0 =>
              t \in ambiguous \/ ledger[t].status \in OpenStatus
    BY <1>2, <1>5 DEF BooksInv, TradeInv, CoverInv
  <1>7. /\ Stage(t) \notin {"recordAdd", "applyAdd", "recordAddEntry"}
        /\ Stage(t) \in ExitStages => managed[t].qty > 0
        /\ Stage(t) = "register" => wallet[t] <= Size(t) /\ stored[t] <= Size(t)
                                       /\ file[t].qty = 0
        /\ phase = "wallet" => wallet[t] \in {0, stored[t]}
    BY <1>3, <1>4, <1>5 DEF HandlerInv, BooksInv, IInv, HoldingsInv, Bought, Base, ExitStages,
                            EntryStages
  <1>8. /\ Stage(t) # "idle" => phase \in {"replay", "running"}
        /\ Stage(t) = "submit" => ledger[t].status = "INTENT"
        /\ ledger[t].status = "INTENT" => managed[t].qty = 0 /\ file[t].qty = 0
    BY <1>3, StageTyped DEF BooksInv, IInv, TaskInv, ManagedInv, Idle, Live, LiveStatus, OpenStatus
  <1>9. Move(t)
    BY <1>4
  <1> HIDE DEF Never
  <1> USE <1>1, <1>2, <1>3, <1>5, <1>6, <1>7, <1>8
      DEF CoverInv, KeepsRows, KeepsHoldings, KeepsLedger, KeepsManager, Calm, Due,
          OpenStatus, ExitStages, UpPhases
  <1>10. CASE Intends(t) \/ Refuses(t) \/ Rejects(t)
    BY <1>10 DEF Intends, Refuses, Rejects, Passes, Returns, Begins, Books, Running
  <1>11. CASE Buys(t)
    <2>1. /\ phase' = phase /\ ambiguous' = ambiguous /\ phase \in {"replay", "running"}
          /\ managed'[t] = managed[t] /\ file'[t] = file[t]
          /\ Stage(t) = "submit" /\ Stage(t)' \in {"markOpen", "markRejected"}
          /\ Stage(t)' = "markOpen" \/ wallet'[t] = wallet[t]
          /\ managed[t].qty = 0 /\ file[t].qty = 0
      BY <1>11 DEF Buys, Fills, Hit
    <2> QED BY <2>1
  <1>12. CASE Opens(t) \/ Counts(t)
    BY <1>12 DEF Opens, Counts, Passes, Returns, Books, Hit
  <1>13. CASE Registers(t)
    BY <1>13 DEF Registers, Manages, Passes, Hit
  <1>14. CASE Sells(t)
    <2>1. PICK q \in Nat \ {0} :
             /\ phase' = phase /\ ambiguous' = ambiguous /\ phase = "running"
             /\ Stage(t) = "idle" /\ managed[t].qty > 0
             /\ managed'[t] = managed[t] /\ file'[t] = file[t]
             /\ q <= wallet[t] /\ stored'[t] = wallet[t] - q
             /\ \/ wallet'[t] = wallet[t] - q /\ Stage(t)' = "recordExit" /\ Size(t)' = q
                \/ wallet'[t] = wallet[t] /\ Stage(t)' = "idle" /\ Size(t)' = 0
      BY <1>14 DEF Sells, Fills, Hit, Running
    <2> QED BY <2>1
  <1>15. CASE Reduces(t)
    BY <1>15 DEF Reduces, Passes
  <1>16. CASE Applies(t)
    BY <1>16 DEF Applies, Manages, Passes, Returns, Hit
  <1>17. CASE Grows(t) \/ Covers(t)
    BY <1>17 DEF Grows, Covers, Passes, Returns
  <1>18. CASE Scores(t) \/ Credits(t)
    BY <1>18 DEF Scores, Credits, Passes, Returns, Hit
  <1>19. CASE Finalizes(t) \/ Resumes(t)
    BY <1>19 DEF Finalizes, Resumes, Returns, Begins
  <1>20. CASE Imports(t) \/ Restores(t)
    BY <1>20 DEF Imports, Restores, Books, Manages, Rests, Hit
  <1>21. CASE Repairs(t) \/ Dismisses(t)
    BY <1>21 DEF Repairs, Dismisses, Manages, Rests, Hit
  <1>22. CASE Foreign(t)
    BY <1>22 DEF Foreign, Rests
  <1>23. CASE Starts(t)
    BY <1>23 DEF Starts, Rests
  <1>24. CASE EndsPass(t)
    BY <1>24 DEF EndsPass, Rests
  <1>25. CASE Dies(t)
    BY <1>25 DEF Dies
  <1>26. CASE Fails(t) \/ Stutters(t)
    BY <1>26 DEF Fails, Stutters, Hit
  <1> QED BY <1>9, <1>10, <1>11, <1>12, <1>13, <1>14, <1>15, <1>16, <1>17, <1>18, <1>19, <1>20,
             <1>21, <1>22, <1>23, <1>24, <1>25, <1>26 DEF Move, OwnMove

\* Every step keeps the intents.
LEMMA IntentStep ==
    ASSUME BooksInv, [Next]_vars, NEW t \in Trades
    PROVE  IntentInv(t)'
  <1>1. SUFFICES ASSUME Never({"raise"})' PROVE IntentInv(t)'
    BY DEF IntentInv
  <1>2. Never({"raise"}) /\ ~Struck("raise")
    BY <1>1, NeverYet DEF BooksInv, IInv, FaultKinds
  <1>3. /\ phase = "intents" /\ ledger[t].status = "INTENT" => wallet[t] = 0
        /\ phase \in {"ghosts", "replay", "running"} /\ ledger[t].status = "INTENT" =>
              Stage(t) \in {"submit", "markOpen", "markRejected"}
    BY <1>2 DEF BooksInv, TradeInv, IntentInv
  <1>4. /\ wallet[t] \in Nat
        /\ Stage(t) # "idle" => phase \in {"replay", "running"}
    BY PartsTyped, StageTyped DEF BooksInv, IInv, TaskInv, Idle
  <1>5. Move(t)
    BY Moves DEF BooksInv
  <1> HIDE DEF Never
  <1> USE <1>2, <1>3, <1>4
      DEF IntentInv, KeepsRows, KeepsHoldings, KeepsLedger, Calm
  <1>6. CASE Intends(t) \/ Refuses(t) \/ Opens(t) \/ Rejects(t)
    BY <1>6 DEF Intends, Refuses, Opens, Rejects, Passes, Returns, Begins, Books, Running
  <1>7. CASE Buys(t) \/ Sells(t) \/ Averages(t)
    BY <1>7 DEF Buys, Sells, Averages, Fills, Hit, Running
  <1>8. CASE Counts(t) \/ Registers(t) \/ Applies(t) \/ Covers(t)
    BY <1>8 DEF Counts, Registers, Applies, Covers, Manages, Passes, Returns, Hit
  <1>9. CASE Reduces(t) \/ Grows(t)
    BY <1>9 DEF Reduces, Grows, Passes, Returns, Books
  <1>10. CASE Scores(t) \/ Credits(t) \/ Finalizes(t) \/ Resumes(t)
    BY <1>10 DEF Scores, Credits, Finalizes, Resumes, Passes, Returns, Begins, Hit
  <1>11. CASE Imports(t) \/ Restores(t) \/ Repairs(t) \/ Dismisses(t)
    BY <1>11 DEF Imports, Restores, Repairs, Dismisses, Manages, Books, Rests, Hit
  <1>12. CASE Foreign(t) \/ Starts(t)
    BY <1>12 DEF Foreign, Starts, Rests
  <1>13. CASE EndsPass(t)
    BY <1>13 DEF EndsPass, Rests
  <1>14. CASE Dies(t) \/ Fails(t) \/ Stutters(t)
    BY <1>14 DEF Dies, Fails, Stutters, Hit
  <1> QED BY <1>5, <1>6, <1>7, <1>8, <1>9, <1>10, <1>11, <1>12, <1>13, <1>14 DEF Move, OwnMove

-----------------------------------------------------------------------------
(* The invariant, and what it says of the stores.                          *)

\* The books start in their invariant.
LEMMA BooksInit == Init => BooksInv
  <1> SUFFICES ASSUME Init PROVE BooksInv
    OBVIOUS
  <1>1. IInv
    BY IInvInit
  <1>2. ASSUME NEW t \in Trades PROVE TradeInv(t)
    <2>1. /\ phase = "down" /\ wallet[t] = 0 /\ stored[t] = Base(t)
          /\ managed[t].qty = 0 /\ file[t].qty = 0
          /\ orders[t].entered = 0 /\ orders[t].added = 0 /\ orders[t].sold = 0
          /\ ledger[t].status = "none" /\ ledger[t].remaining = 0 /\ ledger[t].finalized = FALSE
          /\ perf[t] = 0 /\ lessons[t] = 0 /\ used["crash"] = 0 /\ used["raise"] = 0
      BY <1>2 DEF Init, Untracked, FaultKinds
    <2>2. Stage(t) = "idle" /\ Size(t) = 0
      BY <1>2, ConstantsAssumption DEF Init, Idle, Stage, Size
    <2>3. Base(t) \in Nat
      BY ConstantsAssumption DEF Base
    <2> HIDE DEF Never
    <2>4. HandlerInv(t) /\ RowsInv(t) /\ AgreeInv(t)
      BY <2>1, <2>2, <2>3 DEF HandlerInv, RowsInv, AgreeInv, Live, LiveStatus, OpenStatus,
         EntryStages, ExitStages, UpPhases
    <2>5. OutcomeInv(t) /\ CoverInv(t) /\ IntentInv(t)
      BY <2>1, <2>2, <2>3 DEF OutcomeInv, CoverInv, IntentInv, UpPhases
    <2> QED BY <2>4, <2>5 DEF TradeInv
  <1> QED BY <1>1, <1>2 DEF BooksInv

\* What is true of each trade in every reachable state, whatever faults strike.
THEOREM BooksInvHolds == Spec => []BooksInv
  <1>1. BooksInv /\ [Next]_vars => BooksInv'
    <2> SUFFICES ASSUME BooksInv, [Next]_vars PROVE BooksInv'
      OBVIOUS
    <2>1. IInv'
      BY TypeStep, TaskInvStep, ManagedStep, OrdersStep, HoldingsStep, LedgerStep
         DEF BooksInv, IInv
    <2>2. ASSUME NEW t \in Trades PROVE TradeInv(t)'
      BY HandlerStep, RowsStep, AgreeStep, OutcomeStep, CoverStep, IntentStep DEF TradeInv
    <2> QED BY <2>1, <2>2 DEF BooksInv
  <1> QED BY BooksInit, <1>1, PTL DEF Spec

\* The committed rows follow the orders.
LEMMA RowsFollowOrders == BooksInv => StoredMatchesOrders
  BY DEF BooksInv, TradeInv, RowsInv, StoredMatchesOrders

\* What the ledger calls closed is sold.
LEMMA ClosedIsSold == BooksInv => ClosedHoldsNothing
  <1> SUFFICES ASSUME BooksInv, NoAdds, Never({"unsure", "load"}), NEW t \in Trades,
                      ledger[t].status = "CLOSED"
               PROVE  wallet[t] = 0 /\ stored[t] = 0
    BY DEF ClosedHoldsNothing
  <1>1. /\ wallet[t] \in Nat /\ stored[t] \in Nat /\ Base(t) \in Nat
        /\ orders[t].entered \in Nat /\ orders[t].sold \in Nat
        /\ ledger[t].original \in Nat
    BY PartsTyped DEF BooksInv, IInv
  <1>2. orders[t].added = 0 /\ Live(t)
    BY DEF NoAdds, Live, LiveStatus
  <1>3. /\ stored[t] + orders[t].sold = Base(t) + orders[t].entered
        /\ ledger[t].original = Base(t) + orders[t].entered
        /\ phase # "down" => wallet[t] = stored[t]
    BY <1>1, <1>2 DEF BooksInv, TradeInv, RowsInv
  <1>4. Pending("recordExit", t) \in Nat
    BY ConstantsAssumption DEF BooksInv, IInv, TypeOK, Tasks, Idle, Pending
  <1>5. ledger[t].original + Pending("recordExit", t) <= ledger[t].remaining + orders[t].sold
    BY <1>2 DEF BooksInv, IInv, LedgerInv
  <1>6. ledger[t].remaining = 0 /\ (phase = "down" => wallet[t] = 0)
    BY DEF BooksInv, TradeInv, HandlerInv
  <1>7. stored[t] = 0
    BY <1>1, <1>3, <1>4, <1>5, <1>6
  <1> QED BY <1>3, <1>6, <1>7

\* Between handlers nothing is due, so memory and ledger agree.
LEMMA AgreeWhenIdle == BooksInv => MemoryAgrees
  <1> SUFFICES ASSUME BooksInv, Never({"crash", "raise", "load"}), Running, NEW t \in Trades
               PROVE  managed[t].qty = wallet[t] /\ wallet[t] = Book(t)
    BY DEF MemoryAgrees, Book
  <1>1. Stage(t) = "idle" /\ Size(t) = 0
    BY ConstantsAssumption DEF Running, Idle, Stage, Size
  <1>2. wallet[t] \in Nat /\ managed[t].qty \in Nat /\ Book(t) \in Nat
    BY PartsTyped DEF BooksInv, IInv, Book
  <1>3. \A stages : Due(stages, t) = 0
    BY <1>1 DEF Due
  <1>4. /\ wallet[t] + Due({"recordExit"}, t) = Book(t) + Due({"recordAdd", "markOpen"}, t)
        /\ managed[t].qty + Due({"markOpen", "recordEntry", "register", "recordAdd",
                                 "applyAdd"}, t)
              = wallet[t] + Due(ExitStages, t)
    BY DEF BooksInv, TradeInv, AgreeInv, Running, UpPhases
  <1> QED BY <1>2, <1>3, <1>4

\* The outcome is written once.
LEMMA OutcomeOnce == BooksInv => FinalizedOnce
  <1> SUFFICES ASSUME BooksInv, NEW t \in Trades
               PROVE  /\ perf[t] <= 1
                      /\ lessons[t] <= 1 + used["crash"] + used["raise"]
                      /\ ledger[t].finalized =>
                            /\ ledger[t].status = "CLOSED"
                            /\ Never({"swallow"}) => perf[t] = 1
                            /\ LearningEnabled => lessons[t] > 0
    BY DEF FinalizedOnce
  <1>1. lessons[t] \in Nat /\ used["crash"] \in Nat /\ used["raise"] \in Nat
    BY PartsTyped, UsedTyped DEF BooksInv, IInv, FaultKinds
  <1>2. ledger[t].finalized => ledger[t].status = "CLOSED"
    BY DEF BooksInv, IInv, LedgerInv
  <1>3. OutcomeInv(t)
    BY DEF BooksInv, TradeInv
  <1> HIDE DEF Never
  <1> QED BY <1>1, <1>2, <1>3 DEF OutcomeInv

\* The stores tell one story of every trade: committed rows and orders, ledger
\* and holdings, memory and ledger, outcome and close (place_order's
\* transaction, record_exit, apply_exit_fill, TradeFinalizer.finalize).
THEOREM BooksAgreeHolds == Spec => []BooksAgree
  <1>1. BooksInv => BooksAgree
    BY RowsFollowOrders, ClosedIsSold, AgreeWhenIdle, OutcomeOnce DEF BooksAgree
  <1> QED BY BooksInvHolds, <1>1, PTL

\* Neither a holding without its exits nor an intent without its fill outlives
\* its handler or the next start (reconcile, register_position).
THEOREM NothingIsForgottenHolds == Spec => []NothingIsForgotten
  <1>1. BooksInv => Supervised
    <2> SUFFICES ASSUME BooksInv, NoAdds, Never({"raise"}), Running, NEW t \in Trades, Held(t),
                        t \notin ambiguous
                 PROVE  managed[t].qty >= wallet[t]
      BY DEF Supervised
    <2>1. Stage(t) = "idle" /\ Size(t) = 0
      BY ConstantsAssumption DEF Running, Idle, Stage, Size
    <2>2. wallet[t] \in Nat /\ managed[t].qty \in Nat /\ wallet[t] > 0 /\ orders[t].added = 0
      BY PartsTyped DEF BooksInv, IInv, Held, NoAdds
    <2>3. CoverInv(t)
      BY DEF BooksInv, TradeInv
    <2> QED BY <2>1, <2>2, <2>3 DEF CoverInv, Running, UpPhases, Due
  <1>2. BooksInv => NoStrandedIntent
    <2> SUFFICES ASSUME BooksInv, Never({"raise"}), Running, NEW t \in Trades
                 PROVE  ledger[t].status # "INTENT"
      BY DEF NoStrandedIntent
    <2>1. Stage(t) = "idle"
      BY ConstantsAssumption DEF Running, Idle, Stage
    <2> QED BY <2>1 DEF BooksInv, TradeInv, IntentInv, Running
  <1> QED BY BooksInvHolds, <1>1, <1>2, PTL DEF NothingIsForgotten
-----------------------------------------------------------------------------
(* The caps on what a day may buy.                                         *)
(*                                                                         *)
(* EntryCapSlack is an account: a committed fill is counted, about to be   *)
(* counted, or paid for by a fault.  The one fill that goes uncounted with *)
(* no fault of its own is an add to a trade the ledger has closed, which   *)
(* record_add refuses; it needs an exit manager that holds more than the   *)
(* ledger, which takes an earlier fault, and it uses up the key of the     *)
(* next add, so no trade is paid for twice.                                *)

\* A fill that is committed and not yet counted as an entry of the day.
FillStages == {"markOpen", "recordEntry", "recordAdd", "applyAdd", "recordAddEntry"}
Uncounted == IF task.at \in FillStages THEN 1 ELSE 0

\* The exit manager, or its file, holds more than the ledger says is left.
Excess(t) ==
    LET left == ledger[t].remaining + Due({"recordPnl", "applyExit"}, t)
    IN  \/ managed[t].qty + Due({"applyAdd"}, t) > left
        \/ file[t].qty + Due({"applyAdd"}, t) > left

\* The key of the next add is used up: every further add is a DUPLICATE.
Blocked(t) == Stage(t) # "recordAdd" /\ ledger[t].addCount + 1 \in orders[t].addKeys

Loose(t) == Excess(t) /\ ~Blocked(t)
LooseTrades == {t \in Trades : Loose(t)}

\* The keys of the adds follow the ledger's count of them, and only an add
\* the ledger never heard of lets more be held than it says.
KeyInv(t) ==
    /\ \A key \in orders[t].addKeys : key <= ledger[t].addCount + 1
    /\ ~Live(t) => orders[t].addKeys = {} /\ ledger[t].addCount = 0
    /\ Stage(t) = "recordAdd" => ledger[t].addCount + 1 \in orders[t].addKeys
    /\ Stage(t) \in {"recordEntry", "register"} => ledger[t].remaining = Size(t)
    /\ ledger[t].status \in OpenStatus /\ ~Blocked(t) =>
          /\ wallet[t] + Due({"recordExit"}, t) <= ledger[t].remaining + Due({"recordAdd"}, t)
          /\ stored[t] + Due({"recordExit"}, t) <= ledger[t].remaining + Due({"recordAdd"}, t)

\* The entry gate leaves room for the fill that is on its way.
RoomInv ==
    /\ daily.entries <= DailyEntryCap
    /\ task.at \in {"submit"} \cup FillStages => daily.entries < DailyEntryCap

AccountInv ==
    /\ IsFiniteSet(LooseTrades)
    /\ fills + Cardinality(LooseTrades) <= daily.entries + Uncounted + Spent

\* Positions in distinct instruments, within the cap.
HeldIn(f) == {t \in Trades : f[t] > 0}
Sound(f) ==
    /\ IsFiniteSet(HeldIn(f)) /\ Cardinality(HeldIn(f)) <= MaxPositions
    /\ \A t, u \in HeldIn(f) : SymbolOf[t] = SymbolOf[u] => t = u

\* What EntryAllowed found when the intent was written still holds at the fill.
Admits(t) ==
    /\ Cardinality(HeldIn(wallet)) < MaxPositions
    /\ \A u \in HeldIn(wallet) : SymbolOf[u] # SymbolOf[t]

\* The wallet of before the ledger keeps one position per instrument
\* (LocalPaperEngine.positions is a dictionary by symbol) and fits the cap.
LegacyFits ==
    /\ IsFiniteSet(Legacy) /\ Cardinality(Legacy) <= MaxPositions
    /\ \A t, u \in Legacy : SymbolOf[t] = SymbolOf[u] => t = u

HoldInv ==
    LegacyFits /\ NoAdds =>
        /\ Sound(wallet) /\ Sound(stored)
        /\ task.at = "submit" => Admits(task.trade)

ExposureInv ==
    /\ BooksInv /\ RoomInv /\ AccountInv /\ HoldInv
    /\ \A t \in Trades : KeyInv(t)

-----------------------------------------------------------------------------
(* The keys of the adds.                                                   *)

\* Every step keeps the keys of the adds.
LEMMA KeyStep ==
    ASSUME BooksInv, [Next]_vars, NEW t \in Trades, KeyInv(t)
    PROVE  KeyInv(t)'
  <1>1. /\ Move(t)
        /\ Stage(t) \in EntryStages => t \notin Legacy
        /\ t \in Legacy => orders[t].entered = 0
        /\ Stage(t) \in {"recordEntry", "register"} => managed[t].qty = 0
        /\ phase = "wallet" => wallet[t] \in {0, stored[t]}
    BY Moves DEF BooksInv, TradeInv, HandlerInv
  <1>2. /\ wallet[t] \in Nat /\ stored[t] \in Nat /\ Size(t) \in Nat /\ Base(t) \in Nat
        /\ orders[t].entered \in Nat /\ orders[t].added \in Nat
        /\ ledger[t].remaining \in Nat /\ ledger[t].addCount \in Nat
        /\ orders[t].addKeys \in SUBSET Nat
    BY PartsTyped, StageTyped DEF BooksInv, IInv
  <1>3. /\ Stage(t) \in {"submit", "markOpen", "markRejected"} => ledger[t].status = "INTENT"
        /\ Stage(t) \in {"recordExit", "recordAdd"} => Live(t)
        /\ Stage(t) = "markOpen" => orders[t].entered = Size(t)
        /\ Stage(t) # "idle" => phase \in {"replay", "running"}
    BY StageTyped DEF BooksInv, IInv, TaskInv, Idle
  <1>4. /\ wallet[t] <= Base(t) + orders[t].entered + orders[t].added
        /\ stored[t] <= Base(t) + orders[t].entered + orders[t].added
        /\ t \notin Legacy => Base(t) = 0
        /\ ~Live(t) => orders[t].added = 0
    BY DEF BooksInv, IInv, HoldingsInv, Bought, OrdersInv, Base
  <1>5. ledger[t].status = "INTENT" => managed[t].qty = 0
    BY PartsTyped DEF BooksInv, IInv, ManagedInv, Live, LiveStatus, OpenStatus
  <1> USE <1>1, <1>2, <1>3, <1>4, <1>5
      DEF KeyInv, KeepsRows, KeepsHoldings, KeepsOrders, KeepsLedger, KeepsManager, Calm,
          Blocked, Due, Live, LiveStatus, OpenStatus, EntryStages
  <1>6. CASE Intends(t) \/ Refuses(t) \/ Rejects(t)
    BY <1>6 DEF Intends, Refuses, Rejects, Passes, Returns, Begins, Books, Running
  <1>7. CASE Buys(t)
    <2>1. /\ ledger'[t] = ledger[t] /\ ledger[t].status = "INTENT"
          /\ orders'[t].addKeys = orders[t].addKeys /\ Stage(t)' \in {"markOpen", "markRejected"}
      BY <1>7 DEF Buys, Fills
    <2> QED BY <2>1
  <1>8. CASE Opens(t)
    BY <1>8 DEF Opens, Passes, Books
  <1>9. CASE Counts(t)
    BY <1>9 DEF Counts, Passes, Returns
  <1>10. CASE Registers(t) \/ Covers(t)
    BY <1>10 DEF Registers, Covers, Passes
  <1>11. CASE Sells(t)
    <2>1. PICK q \in Nat \ {0} :
             /\ ledger'[t] = ledger[t] /\ orders'[t].addKeys = orders[t].addKeys
             /\ q <= wallet[t] /\ stored'[t] = wallet[t] - q /\ Stage(t) = "idle"
             /\ \/ wallet'[t] = wallet[t] - q /\ Stage(t)' = "recordExit" /\ Size(t)' = q
                \/ wallet'[t] = wallet[t] /\ Stage(t)' = "idle" /\ Size(t)' = 0
      BY <1>11 DEF Sells, Fills
    <2> QED BY <2>1
  <1>12. CASE Averages(t)
    <2>1. PICK q \in Nat \ {0} :
             /\ ledger'[t] = ledger[t] /\ stored'[t] = wallet[t] + q /\ Stage(t) = "idle"
             /\ \/ wallet'[t] = wallet[t] + q /\ Stage(t)' = "recordAdd" /\ Size(t)' = q
                \/ wallet'[t] = wallet[t] /\ Stage(t)' = "idle" /\ Size(t)' = 0
      BY <1>12 DEF Averages, Fills
    <2>2. /\ ledger[t].addCount + 1 \notin orders[t].addKeys
          /\ orders'[t].addKeys = orders[t].addKeys \cup {ledger[t].addCount + 1}
      BY <1>12 DEF Averages
    <2>3. Live(t)
      BY <1>12 DEF Averages, BooksInv, IInv, ManagedInv
    <2> QED BY <2>1, <2>2, <2>3
  <1>13. CASE Reduces(t)
    BY <1>13 DEF Reduces, Passes, Books
  <1>14. CASE Applies(t)
    BY <1>14 DEF Applies, Passes, Returns
  <1>15. CASE Grows(t)
    BY <1>15 DEF Grows, Passes, Returns, Books
  <1>16. CASE Scores(t) \/ Credits(t) \/ Finalizes(t) \/ Resumes(t)
    BY <1>16 DEF Scores, Credits, Finalizes, Resumes, Passes, Returns, Begins
  <1>17. CASE Imports(t)
    BY <1>17 DEF Imports, Books, Rests
  <1>18. CASE Restores(t) \/ Dismisses(t)
    BY <1>18 DEF Restores, Dismisses, Rests
  <1>19. CASE Repairs(t)
    <2>1. orders[t].addKeys = {} /\ Cardinality(orders[t].addKeys) = 0
      BY <1>19, FS_EmptySet DEF Repairs
    <2> QED BY <1>19, <2>1 DEF Repairs, Books, Rests
  <1>20. CASE Foreign(t) \/ Starts(t) \/ EndsPass(t)
    BY <1>20 DEF Foreign, Starts, EndsPass, Rests
  <1>21. CASE Dies(t)
    BY <1>21 DEF Dies
  <1>22. CASE Fails(t)
    BY <1>22 DEF Fails
  <1>23. CASE Stutters(t)
    BY <1>23 DEF Stutters
  <1> QED BY <1>6, <1>7, <1>8, <1>9, <1>10, <1>11, <1>12, <1>13, <1>14, <1>15, <1>16, <1>17,
             <1>18, <1>19, <1>20, <1>21, <1>22, <1>23 DEF Move, OwnMove

-----------------------------------------------------------------------------
(* The account of the day's fills.                                         *)

\* Only a fault between the ledger's exit and the manager's lets go of a trade.
LEMMA LooseStep ==
    ASSUME BooksInv, [Next]_vars, NEW t \in Trades, KeyInv(t), Loose(t)', ~Loose(t)
    PROVE  Stage(t) \in {"recordPnl", "applyExit"} /\ \E kind \in FaultKinds : Struck(kind)
  <1>1. /\ Move(t)
        /\ Stage(t) = "register" => file[t].qty = 0
        /\ Stage(t) = "applyAdd" => managed[t].qty > 0
    BY Moves DEF BooksInv, TradeInv, HandlerInv
  <1>2. /\ wallet[t] \in Nat /\ stored[t] \in Nat /\ Size(t) \in Nat
        /\ ledger[t].remaining \in Nat /\ ledger[t].addCount \in Nat
        /\ managed[t].qty \in Nat /\ file[t].qty \in Nat
        /\ orders[t].addKeys \in SUBSET Nat
    BY PartsTyped, StageTyped DEF BooksInv, IInv
  <1>3. /\ Stage(t) \in {"submit", "markOpen", "markRejected"} => ledger[t].status = "INTENT"
        /\ ledger[t].status \in {"none", "INTENT", "REJECTED"} =>
              managed[t].qty = 0 /\ file[t].qty = 0
    BY <1>2, StageTyped DEF BooksInv, IInv, TaskInv, ManagedInv, Live, LiveStatus, OpenStatus
  <1>4. /\ \A key \in orders[t].addKeys : key <= ledger[t].addCount + 1
        /\ Stage(t) = "recordAdd" => ledger[t].addCount + 1 \in orders[t].addKeys
        /\ Stage(t) \in {"recordEntry", "register"} => ledger[t].remaining = Size(t)
        /\ ledger[t].status \in OpenStatus /\ ~Blocked(t) /\ Stage(t) = "idle" =>
              wallet[t] <= ledger[t].remaining
    BY <1>2 DEF KeyInv, Due
  <1> USE <1>1, <1>2, <1>3, <1>4
      DEF Loose, Excess, Blocked, Due, KeepsRows, KeepsHoldings, KeepsOrders, KeepsLedger,
          KeepsManager, Calm, OpenStatus
  <1>5. CASE Intends(t) \/ Refuses(t) \/ Rejects(t)
    BY <1>5 DEF Intends, Refuses, Rejects, Passes, Returns, Begins, Books
  <1>6. CASE Buys(t)
    BY <1>6 DEF Buys
  <1>7. CASE Opens(t)
    BY <1>7 DEF Opens, Passes, Books
  <1>8. CASE Counts(t)
    BY <1>8 DEF Counts, Passes, Returns
  <1>9. CASE Registers(t)
    BY <1>9 DEF Registers, Manages, Passes
  <1>10. CASE Sells(t)
    BY <1>10 DEF Sells, Fills
  <1>11. CASE Averages(t)
    <2>1. PICK q \in Nat \ {0} :
             /\ ledger'[t] = ledger[t] /\ managed'[t] = managed[t] /\ file'[t] = file[t]
             /\ Stage(t) = "idle" /\ Stage(t)' \notin {"recordPnl", "applyExit", "applyAdd"}
      BY <1>11 DEF Averages, Fills
    <2>2. ledger[t].addCount + 1 \notin orders[t].addKeys
      BY <1>11 DEF Averages
    <2> QED BY <2>1, <2>2
  <1>12. CASE Reduces(t)
    BY <1>12 DEF Reduces, Passes, Books
  <1>13. CASE Applies(t)
    <2>1. CASE Hit("swallow")
      BY <1>13, <2>1 DEF Applies, Passes, Returns, Hit, FaultKinds
    <2>2. CASE ~Hit("swallow")
      BY <1>13, <2>2 DEF Applies, Manages, Passes, Returns
    <2> QED BY <2>1, <2>2
  <1>14. CASE Grows(t)
    BY <1>14 DEF Grows, Passes, Returns, Books
  <1>15. CASE Covers(t)
    BY <1>15 DEF Covers, Manages, Passes
  <1>16. CASE Scores(t) \/ Credits(t) \/ Finalizes(t) \/ Resumes(t)
    BY <1>16 DEF Scores, Credits, Finalizes, Resumes, Passes, Returns, Begins
  <1>17. CASE Imports(t)
    BY <1>17 DEF Imports, Books, Rests
  <1>18. CASE Restores(t)
    BY <1>18 DEF Restores, Manages, Rests
  <1>19. CASE Repairs(t)
    <2>1. /\ managed'[t].qty = 0 /\ file'[t].qty = 0 /\ Stage(t)' = "idle"
          /\ ledger'[t].remaining \in Nat
      BY <1>19, PartsTyped DEF Repairs, Books, Rests, BooksInv, IInv
    <2> QED BY <2>1
  <1>20. CASE Dismisses(t)
    BY <1>20 DEF Dismisses, Manages, Rests
  <1>21. CASE Foreign(t) \/ Starts(t) \/ EndsPass(t)
    BY <1>21 DEF Foreign, Starts, EndsPass, Rests
  <1>22. CASE Dies(t)
    BY <1>22 DEF Dies, FaultKinds
  <1>23. CASE Fails(t)
    BY <1>23 DEF Fails, Hit, FaultKinds
  <1>24. CASE Stutters(t)
    BY <1>24 DEF Stutters
  <1> QED BY <1>5, <1>6, <1>7, <1>8, <1>9, <1>10, <1>11, <1>12, <1>13, <1>14, <1>15, <1>16,
             <1>17, <1>18, <1>19, <1>20, <1>21, <1>22, <1>23, <1>24 DEF Move, OwnMove

\* A refused add: the trade was let go before, and is blocked from now on.
LEMMA RefusedAdd ==
    ASSUME BooksInv, [Next]_vars, NEW t \in Trades, KeyInv(t),
           Stage(t) = "recordAdd", Stage(t)' = "idle", ledger[t].status \notin OpenStatus,
           UNCHANGED <<ledger, orders>>
    PROVE  Loose(t) /\ ~Loose(t)'
  <1>1. /\ managed[t].qty \in Nat /\ managed[t].qty > 0
        /\ ledger[t].status = "CLOSED" => ledger[t].remaining = 0
    BY PartsTyped DEF BooksInv, IInv, TradeInv, HandlerInv
  <1>2. Live(t)
    BY StageTyped DEF BooksInv, IInv, TaskInv
  <1>3. Loose(t)
    BY <1>1, <1>2 DEF Loose, Excess, Blocked, Due, Live, LiveStatus
  <1>4. Blocked(t)'
    BY DEF KeyInv, Blocked
  <1> QED BY <1>3, <1>4 DEF Loose

\* What a step does to the count of the day and to the fill on its way.
SameDay == fills' = fills /\ daily'.entries = daily.entries
Quiet == SameDay /\ Uncounted' = Uncounted
Lands == /\ fills' = fills + 1 /\ daily'.entries = daily.entries /\ UNCHANGED used
         /\ Uncounted = 0 /\ Uncounted' = 1
Vanishes == /\ fills' = fills + 1 /\ daily'.entries = daily.entries
            /\ task.at \in {"submit", "idle"} /\ Uncounted = 0 /\ Uncounted' = 0
            /\ Struck("unsure")
Tallies == /\ fills' = fills /\ daily'.entries = daily.entries + 1 /\ UNCHANGED used
           /\ Uncounted = 1 /\ Uncounted' = 0
Drops == /\ SameDay /\ task.at \in FillStages /\ Uncounted = 1 /\ Uncounted' = 0
         /\ (Struck("crash") \/ Struck("raise"))
Declines == /\ SameDay /\ UNCHANGED used /\ Uncounted = 1 /\ Uncounted' = 0
            /\ task.at = "recordAdd" /\ task' = Idle
            /\ ledger[task.trade].status \notin OpenStatus /\ UNCHANGED <<ledger, orders>>

\* A step changes the account of the day in one of six ways.
LEMMA DayStep ==
    ASSUME IInv, [Next]_vars
    PROVE  Quiet \/ Lands \/ Vanishes \/ Tallies \/ Drops \/ Declines
  <1>1. daily \in [entries : Nat, exits : Nat] /\ fills \in Nat /\ Idle.at = "idle"
    BY DEF IInv, TypeOK, Idle
  <1>2. ASSUME NEW kind \in FaultKinds, Fault(kind) PROVE Struck(kind)
    BY <1>2, FaultStrikes DEF IInv
  <1>3. ASSUME NEW stage, NEW u, NEW q PROVE At(stage, u, q).at = stage
    BY DEF At
  <1> USE <1>1 DEF Uncounted, FillStages, SameDay, Go, Done
  <1>4. CASE SubmitEntry
    <2>1. CASE fills' = fills + 1
      <3>1. PICK t, q : \/ task' = At("markOpen", t, q) /\ UNCHANGED used
                        \/ task' = At("markRejected", t, q) /\ Fault("unsure")
        BY <1>4, <2>1 DEF SubmitEntry, Persist
      <3>2. task.at = "submit" /\ daily' = daily
        BY <1>4 DEF SubmitEntry
      <3> QED BY <2>1, <3>1, <3>2, <1>2, <1>3 DEF Lands, Vanishes, FaultKinds
    <2>2. CASE fills' # fills + 1
      BY <1>3, <1>4, <2>2 DEF SubmitEntry, Quiet
    <2> QED BY <2>1, <2>2
  <1>5. CASE MarkOpen \/ RegisterPosition \/ RecordTrade \/ MarkRejected
    BY <1>3, <1>5 DEF MarkOpen, RegisterPosition, RecordTrade, MarkRejected, Quiet
  <1>6. CASE RecordEntry \/ RecordAddEntry
    BY <1>3, <1>6 DEF RecordEntry, RecordAddEntry, Tallies
  <1>7. CASE ExitStep
    BY <1>3, <1>7 DEF ExitStep, RecordExit, RecordExitPnl, ApplyExitFill, Quiet
  <1>8. CASE RecordAdd
    BY <1>3, <1>8 DEF RecordAdd, Quiet, Declines
  <1>9. CASE ApplyAddFill
    BY <1>3, <1>9 DEF ApplyAddFill, Quiet
  <1>10. CASE FinalizeStep
    BY <1>3, <1>10 DEF FinalizeStep, RecordOutcome, CloseTrade, CreditLessons, MarkFinalized, Quiet
  <1>11. CASE StartupStep
    <2>1. CASE Boot \/ WalletPassDone \/ IntentsPassDone \/ GhostsPassDone \/ ReplayDone
      BY <2>1 DEF Boot, WalletPassDone, IntentsPassDone, GhostsPassDone, ReplayDone, Quiet,
         durable
    <2>2. ASSUME NEW t \in Trades,
                 \/ ImportLegacy(t) \/ RepairOpen(t) \/ RestoreManager(t)
                 \/ RepairFromOrders(t) \/ RemoveGhost(t)
          PROVE  Quiet
      BY <2>2 DEF ImportLegacy, RepairOpen, RestoreManager, RepairFromOrders, RemoveGhost, Quiet
    <2>3. ASSUME NEW t \in Trades, Replay(t) PROVE Quiet
      BY <1>3, <2>3 DEF Replay, Quiet, durable
    <2> QED BY <1>11, <2>1, <2>2, <2>3 DEF StartupStep
  <1>12. ASSUME NEW t \in Trades, CreateIntent(t) \/ ExitFill(t) PROVE Quiet
    BY <1>3, <1>12 DEF CreateIntent, ExitFill, Persist, Running, Quiet
  <1>13. ASSUME NEW t \in Trades, AddFill(t) PROVE Lands \/ Vanishes
    <2>1. PICK q : \/ task' = At("recordAdd", t, q) /\ UNCHANGED used
                   \/ task' = Idle /\ Fault("unsure")
      BY <1>13 DEF AddFill, Persist
    <2> QED BY <1>2, <1>3, <1>13, <2>1 DEF AddFill, Running, Lands, Vanishes, FaultKinds
  <1>14. CASE Crash \/ Raise
    <2>1. Struck("crash") \/ Struck("raise")
      BY <1>2, <1>14 DEF Crash, Raise, FaultKinds
    <2> QED BY <1>14, <2>1 DEF Crash, Raise, durable, Quiet, Drops
  <1>15. CASE CheckExits \/ UNCHANGED vars
    BY <1>15 DEF CheckExits, vars, durable, Quiet
  <1> QED BY <1>4, <1>5, <1>6, <1>7, <1>8, <1>9, <1>10, <1>11, <1>12, <1>13, <1>14, <1>15
          DEF Next, TaskStep, EntryStep, AddStep

\* Each fault pays for one.
LEMMA SpentStep ==
    ASSUME TypeOK, [Next]_vars
    PROVE  /\ Spent \in Nat /\ Spent' \in Nat /\ Spent' >= Spent
           /\ \A kind \in FaultKinds : Struck(kind) => Spent' = Spent + 1
  <1>1. \A kind \in FaultKinds : used[kind] \in Nat
    BY UsedTyped
  <1>2. UNCHANGED used => Spent' = Spent
    BY DEF Spent
  <1>3. ASSUME NEW kind \in FaultKinds, Struck(kind) PROVE Spent' = Spent + 1
    <2>1. /\ used'["crash"] = used["crash"] + (IF kind = "crash" THEN 1 ELSE 0)
          /\ used'["raise"] = used["raise"] + (IF kind = "raise" THEN 1 ELSE 0)
          /\ used'["unsure"] = used["unsure"] + (IF kind = "unsure" THEN 1 ELSE 0)
          /\ used'["load"] = used["load"] + (IF kind = "load" THEN 1 ELSE 0)
          /\ used'["swallow"] = used["swallow"] + (IF kind = "swallow" THEN 1 ELSE 0)
      BY <1>1, <1>3 DEF Struck, FaultKinds
    <2> QED BY <1>1, <2>1 DEF Spent, FaultKinds
  <1>4. Spent \in Nat
    BY <1>1 DEF Spent, FaultKinds
  <1> QED BY <1>2, <1>3, <1>4, UsedStep

\* A set that gains at most one element, or none, or loses one.
LEMMA Counting ==
    ASSUME NEW S, IsFiniteSet(S), NEW T, NEW x
    PROVE  /\ Cardinality(S) \in Nat
           /\ T \subseteq S \cup {x} =>
                 /\ IsFiniteSet(T) /\ Cardinality(T) \in Nat
                 /\ Cardinality(T) <= Cardinality(S) + 1
           /\ T \subseteq S => /\ IsFiniteSet(T) /\ Cardinality(T) \in Nat
                               /\ Cardinality(T) <= Cardinality(S)
           /\ T \subseteq S \ {x} /\ x \in S => Cardinality(T) + 1 <= Cardinality(S)
  <1>1. /\ Cardinality(S) \in Nat
        /\ IsFiniteSet(S \cup {x}) /\ Cardinality(S \cup {x}) \in Nat
        /\ Cardinality(S \cup {x}) <= Cardinality(S) + 1
        /\ IsFiniteSet(S \ {x}) /\ Cardinality(S \ {x}) \in Nat
        /\ x \in S => Cardinality(S \ {x}) + 1 = Cardinality(S)
    BY FS_CardinalityType, FS_AddElement, FS_RemoveElement
  <1>2. ASSUME T \subseteq S \cup {x}
        PROVE  /\ IsFiniteSet(T) /\ Cardinality(T) \in Nat
               /\ Cardinality(T) <= Cardinality(S \cup {x})
    BY <1>1, <1>2, FS_Subset, FS_CardinalityType
  <1>3. ASSUME T \subseteq S
        PROVE  /\ IsFiniteSet(T) /\ Cardinality(T) \in Nat
               /\ Cardinality(T) <= Cardinality(S)
    BY <1>3, FS_Subset, FS_CardinalityType
  <1>4. ASSUME T \subseteq S \ {x}
        PROVE  Cardinality(T) \in Nat /\ Cardinality(T) <= Cardinality(S \ {x})
    BY <1>1, <1>4, FS_Subset, FS_CardinalityType
  <1> QED BY <1>1, <1>2, <1>3, <1>4

\* Every step keeps the account of the day.
LEMMA AccountStep ==
    ASSUME BooksInv, AccountInv, \A t \in Trades : KeyInv(t), [Next]_vars
    PROVE  AccountInv'
  <1> DEFINE S == LooseTrades
             T == LooseTrades'
             u == task.trade
             struck == \E kind \in FaultKinds : Struck(kind)
  <1>1. ASSUME NEW t \in T, t \notin S
        PROVE  t = u /\ task.at \in {"recordPnl", "applyExit"} /\ struck
    <2>1. Stage(t) \in {"recordPnl", "applyExit"} /\ struck
      BY <1>1, LooseStep DEF LooseTrades
    <2> QED BY <1>1, <2>1, StageTyped DEF LooseTrades, BooksInv, IInv
  <1>2. /\ Spent \in Nat /\ Spent' \in Nat /\ Spent' >= Spent
        /\ struck => Spent' = Spent + 1
    BY SpentStep DEF BooksInv, IInv
  <1>3. /\ fills \in Nat /\ daily.entries \in Nat
        /\ Uncounted \in {0, 1} /\ IsFiniteSet(S)
        /\ fills + Cardinality(S) <= daily.entries + Uncounted + Spent
    BY DEF BooksInv, IInv, TypeOK, AccountInv, Uncounted
  <1>4. /\ Cardinality(S) \in Nat /\ IsFiniteSet(T) /\ Cardinality(T) \in Nat
        /\ Cardinality(T) <= Cardinality(S) + 1
        /\ T \subseteq S => Cardinality(T) <= Cardinality(S)
    <2>1. T \subseteq S \cup {u}
      BY <1>1
    <2> HIDE DEF S, T, u
    <2> QED BY <1>3, <2>1, Counting
  <1>5. ~struck \/ task.at \notin {"recordPnl", "applyExit"} => T \subseteq S
    BY <1>1
  <1>6. fills' + Cardinality(T) <= daily'.entries + Uncounted' + Spent'
    <2> HIDE DEF S, T
    <2>1. CASE Quiet
      <3>1. CASE struck
        BY <1>2, <1>3, <1>4, <2>1, <3>1 DEF Quiet, SameDay
      <3>2. CASE ~struck
        BY <1>2, <1>3, <1>4, <1>5, <2>1, <3>2 DEF Quiet, SameDay
      <3> QED BY <3>1, <3>2
    <2>2. CASE Lands \/ Tallies
      <3>1. UNCHANGED used => ~struck
        <4>1. \A kind \in FaultKinds : used[kind] \in Nat
          BY UsedTyped DEF BooksInv, IInv
        <4> QED BY <4>1 DEF Struck
      <3>2. T \subseteq S
        BY <1>5, <2>2, <3>1 DEF Lands, Tallies
      <3> QED BY <1>2, <1>3, <1>4, <2>2, <3>2 DEF Lands, Tallies
    <2>3. CASE Vanishes \/ Drops
      <3>1. struck /\ T \subseteq S
        BY <1>5, <2>3 DEF Vanishes, Drops, FillStages, FaultKinds
      <3> HIDE DEF struck
      <3> QED BY <1>2, <1>3, <1>4, <2>3, <3>1 DEF Vanishes, Drops, SameDay
    <2>4. CASE Declines
      <3>1. PICK t \in Trades : t = task.trade
        BY <2>4 DEF Declines, BooksInv, IInv, TypeOK, Tasks, Idle
      <3>2. Loose(t) /\ ~Loose(t)'
        <4>1. Stage(t) = "recordAdd" /\ Stage(t)' = "idle"
          BY <2>4, <3>1, DoneStage DEF Declines, Stage
        <4> QED BY <2>4, <3>1, <4>1, RefusedAdd DEF Declines
      <3>3. t \in S /\ t \notin T
        BY <3>2 DEF S, T, LooseTrades
      <3>5. T \subseteq S \ {t}
        BY <1>5, <2>4, <3>3 DEF Declines
      <3>4. Cardinality(T) + 1 <= Cardinality(S)
        BY <1>3, <3>3, <3>5, Counting
      <3> QED BY <1>2, <1>3, <1>4, <2>4, <3>4 DEF Declines, SameDay
    <2> QED BY <2>1, <2>2, <2>3, <2>4, DayStep DEF BooksInv
  <1> QED BY <1>4, <1>6 DEF AccountInv

\* Every step keeps the room for positions.
LEMMA RoomStep ==
    ASSUME IInv, RoomInv, [Next]_vars
    PROVE  RoomInv'
  <1>1. daily \in [entries : Nat, exits : Nat] /\ Idle.at = "idle" /\ DailyEntryCap \in Nat
    BY ConstantsAssumption DEF IInv, TypeOK, Idle
  <1>2. ASSUME NEW stage, NEW u, NEW q PROVE At(stage, u, q).at = stage
    BY DEF At
  <1> USE <1>1 DEF RoomInv, FillStages, Go, Done
  <1>3. CASE SubmitEntry
    BY <1>2, <1>3 DEF SubmitEntry, Persist
  <1>4. CASE MarkOpen \/ RegisterPosition \/ RecordTrade \/ MarkRejected
    BY <1>2, <1>4 DEF MarkOpen, RegisterPosition, RecordTrade, MarkRejected
  <1>5. CASE RecordEntry \/ RecordAddEntry
    BY <1>2, <1>5 DEF RecordEntry, RecordAddEntry
  <1>6. CASE ExitStep
    BY <1>2, <1>6 DEF ExitStep, RecordExit, RecordExitPnl, ApplyExitFill
  <1>7. CASE RecordAdd \/ ApplyAddFill
    BY <1>2, <1>7 DEF RecordAdd, ApplyAddFill
  <1>8. CASE FinalizeStep
    BY <1>2, <1>8 DEF FinalizeStep, RecordOutcome, CloseTrade, CreditLessons, MarkFinalized
  <1>9. CASE StartupStep
    <2>1. CASE Boot \/ WalletPassDone \/ IntentsPassDone \/ GhostsPassDone \/ ReplayDone
      BY <2>1 DEF Boot, WalletPassDone, IntentsPassDone, GhostsPassDone, ReplayDone, durable
    <2>2. ASSUME NEW t \in Trades,
                 \/ ImportLegacy(t) \/ RepairOpen(t) \/ RestoreManager(t)
                 \/ RepairFromOrders(t) \/ RemoveGhost(t)
          PROVE  UNCHANGED <<task, daily>>
      BY <2>2 DEF ImportLegacy, RepairOpen, RestoreManager, RepairFromOrders, RemoveGhost
    <2>3. ASSUME NEW t \in Trades, Replay(t) PROVE RoomInv'
      BY <1>2, <2>3 DEF Replay, durable
    <2> QED BY <1>9, <2>1, <2>2, <2>3 DEF StartupStep
  <1>10. ASSUME NEW t \in Trades, CreateIntent(t) PROVE RoomInv'
    BY <1>2, <1>10 DEF CreateIntent, EntryAllowed
  <1>11. ASSUME NEW t \in Trades, ExitFill(t) PROVE RoomInv'
    BY <1>2, <1>11 DEF ExitFill, Persist
  <1>12. ASSUME NEW t \in Trades, AddFill(t) PROVE RoomInv'
    BY <1>2, <1>12 DEF AddFill
  <1>13. CASE Crash \/ Raise
    BY <1>13 DEF Crash, Raise, durable
  <1>14. CASE CheckExits \/ UNCHANGED vars
    BY <1>14 DEF CheckExits, vars, durable
  <1> QED BY <1>3, <1>4, <1>5, <1>6, <1>7, <1>8, <1>9, <1>10, <1>11, <1>12, <1>13, <1>14
          DEF Next, TaskStep, EntryStep, AddStep

-----------------------------------------------------------------------------
(* One position per instrument.                                            *)

\* Fewer holdings are as sound, and so is one more that is admitted.
LEMMA SoundKept ==
    ASSUME NEW f, Sound(f), NEW g, HeldIn(g) \subseteq HeldIn(f)
    PROVE  Sound(g)
  BY FS_Subset, FS_CardinalityType, ConstantsAssumption DEF Sound

\* One position more, of another symbol and below the limit, keeps a holding sound.
LEMMA SoundGrown ==
    ASSUME NEW f, Sound(f), NEW g, NEW t \in Trades, HeldIn(g) \subseteq HeldIn(f) \cup {t},
           Cardinality(HeldIn(f)) < MaxPositions,
           \A u \in HeldIn(f) : SymbolOf[u] # SymbolOf[t]
    PROVE  Sound(g)
  <1>1. /\ IsFiniteSet(HeldIn(g)) /\ Cardinality(HeldIn(g)) \in Nat
        /\ Cardinality(HeldIn(g)) <= Cardinality(HeldIn(f)) + 1
        /\ Cardinality(HeldIn(f)) \in Nat
    BY Counting DEF Sound
  <1>2. MaxPositions \in Nat
    BY ConstantsAssumption
  <1>3. Cardinality(HeldIn(g)) <= MaxPositions
    BY <1>1, <1>2
  <1>4. ASSUME NEW v \in HeldIn(g), NEW w \in HeldIn(g), SymbolOf[v] = SymbolOf[w] PROVE v = w
    BY <1>4 DEF Sound
  <1> QED BY <1>1, <1>3, <1>4 DEF Sound

\* What a step does to the holdings, while no share has been added.
LEMMA HoldingMoves ==
    ASSUME IInv, [Next]_vars, NoAdds'
    PROVE  \/ UNCHANGED <<wallet, stored>>
           \/ UNCHANGED stored /\ (wallet' = stored \/ HeldIn(wallet') = {})
           \/ /\ wallet' = stored' \/ UNCHANGED wallet
              /\ HeldIn(stored') \subseteq HeldIn(wallet)
           \/ /\ task.at = "submit" /\ (wallet' = stored' \/ UNCHANGED wallet)
              /\ HeldIn(stored') \subseteq HeldIn(wallet) \cup {task.trade}
  <1>1. wallet \in [Trades -> Nat]
    BY DEF IInv, TypeOK
  <1>2. CASE SubmitEntry
    <2>1. CASE UNCHANGED <<wallet, stored>>
      BY <2>1
    <2>2. CASE ~UNCHANGED <<wallet, stored>>
      <3>1. /\ stored' = [wallet EXCEPT ![task.trade] = @ + task.qty]
            /\ wallet' = stored' \/ UNCHANGED wallet
            /\ task.at = "submit"
        BY <1>2, <2>2 DEF SubmitEntry, Persist
      <3> QED BY <1>1, <3>1 DEF HeldIn
    <2> QED BY <2>1, <2>2
  <1>3. ASSUME NEW t \in Trades, ExitFill(t)
        PROVE  /\ wallet' = stored' \/ UNCHANGED wallet
               /\ HeldIn(stored') \subseteq HeldIn(wallet)
    <2>1. PICK q \in ExitSizes(managed[t]) :
             /\ q <= wallet[t] /\ stored' = [wallet EXCEPT ![t] = @ - q]
             /\ wallet' = stored' \/ UNCHANGED wallet
      BY <1>3 DEF ExitFill, Persist
    <2>2. q \in Nat
      BY <1>3, ExitSizesPositive DEF ExitFill, Tracked, IInv, TypeOK, ManagedPositions
    <2> QED BY <1>1, <2>1, <2>2 DEF HeldIn
  <1>4. ASSUME NEW t \in Trades, AddFill(t) PROVE FALSE
    <2> DEFINE q == ledger[t].original \div AddDivisor
               key == ledger[t].addCount + 1
    <2>1. /\ q > 0
          /\ orders' = [orders EXCEPT ![t].added = @ + q, ![t].addKeys = @ \cup {key}]
      BY <1>4 DEF AddFill, Persist
    <2>2. q \in Nat /\ orders \in [Trades -> OrderTotals] /\ orders[t].added \in Nat
      BY ConstantsAssumption, Quotient, PartsTyped DEF IInv, TypeOK
    <2> HIDE DEF q, key
    <2>3. orders'[t].added = orders[t].added + q
      BY <2>1, <2>2 DEF OrderTotals
    <2> QED BY <2>1, <2>2, <2>3 DEF NoAdds
  <1>5. CASE StartupStep
    <2>1. CASE Boot
      BY <2>1 DEF Boot, durable, HeldIn
    <2>2. CASE WalletPassDone \/ IntentsPassDone \/ GhostsPassDone \/ ReplayDone
      BY <2>2 DEF WalletPassDone, IntentsPassDone, GhostsPassDone, ReplayDone, durable
    <2>3. ASSUME NEW t \in Trades,
                 \/ ImportLegacy(t) \/ RepairOpen(t) \/ RestoreManager(t)
                 \/ RepairFromOrders(t) \/ RemoveGhost(t) \/ Replay(t)
          PROVE  UNCHANGED <<wallet, stored>>
      BY <2>3 DEF ImportLegacy, RepairOpen, RestoreManager, RepairFromOrders, RemoveGhost, Replay,
         durable
    <2> QED BY <1>5, <2>1, <2>2, <2>3 DEF StartupStep
  <1>6. CASE MarkOpen \/ RecordEntry \/ RegisterPosition \/ RecordTrade \/ MarkRejected
    BY <1>6 DEF MarkOpen, RecordEntry, RegisterPosition, RecordTrade, MarkRejected
  <1>7. CASE ExitStep \/ AddStep
    BY <1>7 DEF ExitStep, AddStep, RecordExit, RecordExitPnl, ApplyExitFill, RecordAdd,
       ApplyAddFill, RecordAddEntry
  <1>8. CASE FinalizeStep
    BY <1>8 DEF FinalizeStep, RecordOutcome, CloseTrade, CreditLessons, MarkFinalized
  <1>9. CASE Crash
    BY <1>9 DEF Crash, durable, HeldIn
  <1>10. ASSUME NEW t \in Trades, CreateIntent(t) PROVE UNCHANGED <<wallet, stored>>
    BY <1>10 DEF CreateIntent
  <1>11. CASE CheckExits \/ Raise \/ UNCHANGED vars
    BY <1>11 DEF CheckExits, Raise, vars, durable
  <1> QED BY <1>2, <1>3, <1>4, <1>5, <1>6, <1>7, <1>8, <1>9, <1>10, <1>11
          DEF Next, TaskStep, EntryStep

\* Only create_intent sends an entry to the fill, after it admitted the trade.
LEMMA EntryAdmitted ==
    ASSUME IInv, [Next]_vars, task'.at = "submit"
    PROVE  \/ UNCHANGED <<task, wallet>>
           \/ UNCHANGED wallet /\ Admits(task'.trade)
  <1>1. ASSUME NEW stage, NEW u, NEW q
        PROVE  At(stage, u, q).at = stage /\ At(stage, u, q).trade = u /\ Idle.at = "idle"
    BY DEF At, Idle
  <1> USE DEF Go, Done
  <1>2. CASE EntryStep
    BY <1>1, <1>2 DEF EntryStep, SubmitEntry, MarkOpen, RecordEntry, RegisterPosition, RecordTrade,
       MarkRejected, Persist
  <1>3. CASE ExitStep \/ AddStep
    BY <1>1, <1>3 DEF ExitStep, AddStep, RecordExit, RecordExitPnl, ApplyExitFill, RecordAdd,
       ApplyAddFill, RecordAddEntry
  <1>4. CASE FinalizeStep
    BY <1>1, <1>4 DEF FinalizeStep, RecordOutcome, CloseTrade, CreditLessons, MarkFinalized
  <1>5. CASE StartupStep
    <2>1. CASE Boot
      BY <2>1 DEF Boot, IInv, TaskInv, durable, Idle
    <2>2. CASE WalletPassDone \/ IntentsPassDone \/ GhostsPassDone \/ ReplayDone
      BY <2>2 DEF WalletPassDone, IntentsPassDone, GhostsPassDone, ReplayDone
    <2>3. ASSUME NEW t \in Trades,
                 \/ ImportLegacy(t) \/ RepairOpen(t) \/ RestoreManager(t)
                 \/ RepairFromOrders(t) \/ RemoveGhost(t)
          PROVE  UNCHANGED <<task, wallet>>
      BY <2>3 DEF ImportLegacy, RepairOpen, RestoreManager, RepairFromOrders, RemoveGhost
    <2>4. ASSUME NEW t \in Trades, Replay(t) PROVE FALSE
      BY <1>1, <2>4 DEF Replay
    <2> QED BY <1>5, <2>1, <2>2, <2>3, <2>4 DEF StartupStep
  <1>6. ASSUME NEW t \in Trades, CreateIntent(t) PROVE UNCHANGED wallet /\ Admits(task'.trade)
    BY <1>1, <1>6 DEF CreateIntent, EntryAllowed, Admits, HeldIn, Held
  <1>7. ASSUME NEW t \in Trades, ExitFill(t) \/ AddFill(t) PROVE FALSE
    BY <1>1, <1>7 DEF ExitFill, AddFill, Persist
  <1>8. CASE CheckExits \/ Crash \/ Raise \/ UNCHANGED vars
    BY <1>1, <1>8 DEF CheckExits, Crash, Raise, vars
  <1> QED BY <1>2, <1>3, <1>4, <1>5, <1>6, <1>7, <1>8 DEF Next, TaskStep

\* Every step keeps what is held sound.
LEMMA HoldStep ==
    ASSUME BooksInv, HoldInv, [Next]_vars
    PROVE  HoldInv'
  <1>1. SUFFICES ASSUME LegacyFits, NoAdds'
                 PROVE  /\ Sound(wallet') /\ Sound(stored')
                        /\ (task.at = "submit" => Admits(task.trade))'
    BY DEF HoldInv, LegacyFits, Sound, HeldIn
  <1>2. NoAdds
    BY <1>1, AddsGrow DEF NoAdds
  <1>3. /\ Sound(wallet) /\ Sound(stored)
        /\ task.at = "submit" => Admits(task.trade)
    BY <1>1, <1>2 DEF HoldInv
  <1>4. Sound(wallet') /\ Sound(stored')
    <2>1. CASE UNCHANGED <<wallet, stored>>
      BY <1>3, <2>1
    <2>2. CASE UNCHANGED stored /\ (wallet' = stored \/ HeldIn(wallet') = {})
      BY <1>3, <2>2, SoundKept
    <2>3. CASE /\ wallet' = stored' \/ UNCHANGED wallet
               /\ HeldIn(stored') \subseteq HeldIn(wallet)
      BY <1>3, <2>3, SoundKept
    <2>4. CASE /\ task.at = "submit" /\ (wallet' = stored' \/ UNCHANGED wallet)
               /\ HeldIn(stored') \subseteq HeldIn(wallet) \cup {task.trade}
      <3>1. PICK t \in Trades : t = task.trade
        BY <2>4 DEF BooksInv, IInv, TypeOK, Tasks, Idle
      <3>2. Sound(stored')
        BY <1>3, <2>4, <3>1, SoundGrown DEF Admits
      <3> QED BY <1>3, <2>4, <3>2
    <2> QED BY <1>1, <2>1, <2>2, <2>3, <2>4, HoldingMoves DEF BooksInv
  <1>5. ASSUME task'.at = "submit" PROVE Admits(task.trade)'
    <2>1. UNCHANGED wallet /\ (UNCHANGED task \/ Admits(task'.trade))
      BY <1>5, EntryAdmitted DEF BooksInv
    <2> QED BY <1>3, <1>5, <2>1 DEF Admits, HeldIn
  <1> QED BY <1>4, <1>5

-----------------------------------------------------------------------------
(* The invariant, and the caps.                                            *)

\* The exposure starts in its invariant.
LEMMA ExposureInit == Init => ExposureInv
  <1> SUFFICES ASSUME Init PROVE ExposureInv
    OBVIOUS
  <1>1. BooksInv
    BY BooksInit
  <1>2. RoomInv
    BY ConstantsAssumption DEF Init, RoomInv, FillStages, Idle
  <1>3. ASSUME NEW t \in Trades PROVE KeyInv(t) /\ ~Loose(t)
    <2>1. /\ wallet[t] = 0 /\ managed[t].qty = 0 /\ file[t].qty = 0
          /\ orders[t].addKeys = {}
          /\ ledger[t].status = "none" /\ ledger[t].remaining = 0 /\ ledger[t].addCount = 0
      BY <1>3 DEF Init, Untracked
    <2>2. Stage(t) = "idle" /\ Size(t) = 0
      BY <1>3, ConstantsAssumption DEF Init, Idle, Stage, Size
    <2> QED BY <2>1, <2>2 DEF KeyInv, Loose, Excess, Due, Live, LiveStatus, OpenStatus
  <1>4. AccountInv
    <2>1. LooseTrades = {}
      BY <1>3 DEF LooseTrades
    <2> QED BY <2>1, FS_EmptySet DEF AccountInv, Init, Uncounted, Spent, Idle, FillStages, FaultKinds
  <1>5. HoldInv
    <2>1. SUFFICES ASSUME LegacyFits PROVE Sound(wallet) /\ Sound(stored) /\ task.at # "submit"
      BY DEF HoldInv
    <2>2. HeldIn(wallet) = {} /\ HeldIn(stored) = Legacy
      BY ConstantsAssumption DEF Init, HeldIn, Base
    <2>3. MaxPositions \in Nat
      BY ConstantsAssumption
    <2>4. Sound(wallet)
      BY <2>2, <2>3, FS_EmptySet DEF Sound
    <2>5. Sound(stored)
      BY <2>1, <2>2 DEF Sound, LegacyFits
    <2>6. task.at # "submit"
      BY DEF Init, Idle
    <2> QED BY <2>4, <2>5, <2>6
  <1> QED BY <1>1, <1>2, <1>3, <1>4, <1>5 DEF ExposureInv

\* The account of the fills, the room the entry gate leaves and the sound
\* wallet hold in every reachable state.
THEOREM ExposureInvHolds == Spec => []ExposureInv
  <1>1. ExposureInv /\ [Next]_vars => ExposureInv'
    <2> SUFFICES ASSUME ExposureInv, [Next]_vars PROVE ExposureInv'
      OBVIOUS
    <2>1. IInv' /\ \A t \in Trades : TradeInv(t)'
      BY TypeStep, TaskInvStep, ManagedStep, OrdersStep, HoldingsStep, LedgerStep, HandlerStep,
         RowsStep, AgreeStep, OutcomeStep, CoverStep, IntentStep
         DEF ExposureInv, BooksInv, IInv, TradeInv
    <2>2. RoomInv' /\ AccountInv' /\ HoldInv'
      BY RoomStep, AccountStep, HoldStep DEF ExposureInv, BooksInv
    <2>3. \A t \in Trades : KeyInv(t)'
      BY KeyStep DEF ExposureInv
    <2> QED BY <2>1, <2>2, <2>3 DEF ExposureInv, BooksInv
  <1> QED BY ExposureInit, <1>1, PTL DEF Spec

\* The day's fills overrun the entry cap by at most one per fault, and the
\* wallet keeps to one position per instrument and to max_concurrent_positions
\* (PreTradeEngine's exact-order gate, place_order, record_entry).
THEOREM ExposureIsCappedHolds ==
    ASSUME LegacyFits
    PROVE  Spec => []ExposureIsCapped
  <1>1. ExposureInv => OnePositionPerSymbol
    BY DEF ExposureInv, HoldInv, Sound, HeldIn, OnePositionPerSymbol, Held
  <1>2. ExposureInv => EntryCapSlack
    <2> SUFFICES ASSUME ExposureInv PROVE fills <= DailyEntryCap + Spent
      BY DEF EntryCapSlack
    <2>1. Cardinality(LooseTrades) \in Nat
      BY FS_CardinalityType DEF ExposureInv, AccountInv
    <2>2. /\ fills \in Nat /\ daily.entries \in Nat /\ DailyEntryCap \in Nat /\ Spent \in Nat
      BY ConstantsAssumption, UsedTyped
         DEF ExposureInv, BooksInv, IInv, TypeOK, Spent, FaultKinds
    <2> QED BY <2>1, <2>2 DEF ExposureInv, AccountInv, RoomInv, Uncounted
  <1> QED BY ExposureInvHolds, <1>1, <1>2, PTL DEF ExposureIsCapped
=============================================================================
