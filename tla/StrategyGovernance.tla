------------------------- MODULE StrategyGovernance -------------------------
(***************************************************************************)
(* How one strategy at one timeframe becomes, and stops being, executable. *)
(*                                                                         *)
(*   legacy   StrategyRegistry: the verdict of each validated version      *)
(*   files    StrategyEligibilityRegistry: the status of each version      *)
(*                                                                         *)
(* A validation run writes both, one after the other.  Every gate builds   *)
(* an eligibility registry of its own and migrates legacy versions that    *)
(* have no status yet, from what it read before.  The scan keeps one       *)
(* registry, whose list of records it rereads after a lifetime.            *)
(*                                                                         *)
(* NSE runs are scheduled in the worker and name a new version each; Forex *)
(* runs are a script, validate the configured version again and demote     *)
(* every other approval.  Versions are numbered in the order of time.      *)
(***************************************************************************)
EXTENDS Naturals, FiniteSetsExt

CONSTANTS
    Versions,    \* versions a run may produce; 0 is the NSE placeholder's
    Lifetime,    \* of the scan's list, in ticks
    MaxRuns,     \* validation runs (a bound for TLC)
    MaxCrashes,  \* crashes and failures (a bound for TLC)
    MaxEdits     \* edits by the operator (a bound for TLC)

ASSUME StrategyAssumption ==
    /\ Versions \subseteq Nat \ {0}
    /\ Lifetime \in Nat \ {0}
    /\ {MaxRuns, MaxCrashes, MaxEdits} \subseteq Nat

VARIABLES
    market, production, environment,  \* fixed: what is validated, and for what
    config,      \* Forex: the configured version
    legacy, files,
    expired,     \* legacy versions past their expiry
    worker,      \* "starting", "seeding", "running"
    due,         \* the scheduler finds its stamp too old
    validation,  \* the run
    migration,   \* a gate that migrates
    scan,        \* the scan's list of records, how old it is, and its answer
    runs, crashes, edits,  \* auxiliary: how many so far
    finished     \* auxiliary: the last Forex run went to its end, undisturbed

fixed == <<market, production, environment>>
bounds == <<runs, crashes, edits>>
sVars == <<fixed, config, legacy, files, expired, worker, due, validation, migration, scan,
           bounds, finished>>

All == {0} \cup Versions

None == [status |-> "none", stamp |-> 0]

NoRun == [at |-> "idle", version |-> 0, verdict |-> "NOT VALIDATED", left |-> {}]
NoMigration == [at |-> "idle", legacy |-> [v \in Versions |-> "none"], seen |-> {}, version |-> 0]
NoList == [records |-> [v \in All |-> None], age |-> Lifetime]

SInit ==
    /\ market \in {"NSE", "FOREX"}
    /\ production \in BOOLEAN
    /\ environment \in {"PAPER", "LIVE"}
    /\ config = 1
    /\ legacy = [v \in Versions |-> "none"]
    /\ files = [v \in All |-> None]
    /\ expired = {}
    /\ worker = "starting"
    /\ due = TRUE
    /\ validation = NoRun
    /\ migration = NoMigration
    /\ scan = [list |-> NoList, admits |-> FALSE]
    /\ runs = 0 /\ crashes = 0 /\ edits = 0
    /\ finished = FALSE

Write(v, status, stamp) == files' = [files EXCEPT ![v] = [status |-> status, stamp |-> stamp]]
-----------------------------------------------------------------------------
(* Selection.                                                              *)

Present(records) == {v \in All : records[v].status # "none"}

\* latest: by validated_at; versions written at one moment are of one run.
Latest(records) == CHOOSE v \in Present(records) :
    \A w \in Present(records) : records[v].stamp >= records[w].stamp

Approved(status) == status \in {"PAPER_APPROVED", "LIVE_APPROVED"}

\* _status_policy, the gate for paper trading being on.
Allows(status) ==
    IF environment = "LIVE" THEN status = "LIVE_APPROVED" ELSE Approved(status)

\* A bug: the newest record is not looked at.
Select_slip(records) ==
    LET champions == {v \in Present(records) : Allows(records[v].status)}
    IN  IF champions # {} THEN Max(champions) ELSE Latest(records)

\* select_for_environment: a newest record that is disabled is authoritative,
\* any other may be passed over for an older champion.
Select(records) ==
    LET champions == {v \in Present(records) : Allows(records[v].status)}
        newest == Latest(records)
    IN  IF records[newest].status = "DISABLED" \/ champions = {} THEN newest
        ELSE CHOOSE v \in champions : \A w \in champions : records[v].stamp >= records[w].stamp

Executable(records) == Present(records) # {} /\ Allows(records[Select(records)].status)

\* A bug: every reading renews the list's lifetime.
Reload_slip ==
    IF scan.list.age < Lifetime THEN [scan.list EXCEPT !.age = 0]
    ELSE [records |-> files, age |-> 0]

\* load_all
Reload == IF scan.list.age < Lifetime THEN scan.list ELSE [records |-> files, age |-> 0]

Scan ==
    /\ worker = "running"
    /\ scan' = [list |-> Reload, admits |-> Executable(Reload.records)]
    /\ UNCHANGED <<fixed, config, legacy, files, expired, worker, due, validation, migration,
                   bounds, finished>>

Tick ==
    /\ scan.list.age < Lifetime
    /\ scan' = [scan EXCEPT !.list = IF @.age + 1 = Lifetime THEN NoList
                                     ELSE [@ EXCEPT !.age = @ + 1]]
    /\ UNCHANGED <<fixed, config, legacy, files, expired, worker, due, validation, migration,
                   bounds, finished>>
-----------------------------------------------------------------------------
(* Migration of legacy versions, by the worker when it starts and by every *)
(* gate.  A gate reads the statuses once and again after each write.       *)

\* A bug: the verdict is taken as it was written.
LegacyStatus_slip(snapshot, v) == IF snapshot[v] = "VALIDATED" THEN "VALIDATED" ELSE "NOT_VALIDATED"

\* StrategyVersion.status
LegacyStatus(snapshot, v) ==
    IF snapshot[v] # "VALIDATED" THEN "NOT_VALIDATED"
    ELSE IF v \in expired THEN "EXPIRED" ELSE "VALIDATED"

\* The status a legacy version migrates to; conflicts between horizons or
\* regimes cannot arise for one run's version.
Migrated(snapshot, v) ==
    IF LegacyStatus(snapshot, v) = "VALIDATED" THEN "PAPER_APPROVED"
    ELSE IF snapshot[v] = "VALIDATED" THEN "SHADOW" ELSE "UNVALIDATED"

MigrateBegin ==
    /\ migration.at = "idle"
    /\ worker \in {"starting", "running"}
    /\ migration' = [at |-> "read", legacy |-> legacy, seen |-> {}, version |-> 0]
    /\ UNCHANGED <<fixed, config, legacy, files, expired, worker, due, validation, scan, bounds,
                   finished>>

\* The groups still to come, in the order of their versions.
Remaining == {v \in Versions : v > migration.version /\ migration.legacy[v] # "none"}

\* The first `get`, and the first after each write, reads the files.
MigrateLook ==
    /\ migration.at = "read"
    /\ migration' = [migration EXCEPT !.at = "look", !.seen = Present(files)]
    /\ UNCHANGED <<fixed, config, legacy, files, expired, worker, due, validation, scan, bounds,
                   finished>>

\* A version that has no status gets one; its own write drops the list.
MigrateOne ==
    /\ migration.at = "look"
    /\ \E v \in Remaining :
          /\ \A w \in Remaining : v <= w
          /\ IF v \in migration.seen
             THEN /\ migration' = [migration EXCEPT !.version = v]
                  /\ UNCHANGED files
             ELSE /\ Write(v, Migrated(migration.legacy, v), v)
                  /\ migration' = [migration EXCEPT !.at = "read", !.version = v]
    /\ UNCHANGED <<fixed, config, legacy, expired, worker, due, validation, scan, bounds, finished>>

MigrateEnd ==
    /\ migration.at \in {"read", "look"}
    /\ Remaining = {}
    /\ migration' = NoMigration
    /\ worker' = IF worker = "starting" THEN "seeding" ELSE worker
    /\ UNCHANGED <<fixed, config, legacy, files, expired, due, validation, scan, bounds, finished>>

\* ensure_production_strategy_placeholders
Seed ==
    /\ worker = "seeding"
    /\ worker' = "running"
    /\ IF production /\ Present(files) = {}
       THEN Write(IF market = "NSE" THEN 0 ELSE config, "SHADOW", runs)
       ELSE UNCHANGED files
    /\ UNCHANGED <<fixed, config, legacy, expired, due, validation, migration, scan, bounds, finished>>
-----------------------------------------------------------------------------
(* Validation.                                                             *)

\* edge_verdict, on evidence that is data here.
Verdicts == {"VALIDATED", "NOT VALIDATED"}

\* maybe_start, and the walk-forward itself.
ValidateNse ==
    /\ market = "NSE" /\ worker = "running"
    /\ validation.at = "idle"
    /\ due
    /\ runs < MaxRuns
    /\ runs' = runs + 1
    /\ \E verdict \in Verdicts :
          validation' = [NoRun EXCEPT !.at = "judged", !.version = runs + 1, !.verdict = verdict]
    /\ UNCHANGED <<fixed, config, legacy, files, expired, worker, due, migration, scan, crashes,
                   edits, finished>>

WriteLegacy ==
    /\ validation.at = "judged" /\ market = "NSE"
    /\ legacy' = [legacy EXCEPT ![validation.version] = validation.verdict]
    /\ validation' = [validation EXCEPT !.at = "legacy"]
    /\ UNCHANGED <<fixed, config, files, expired, worker, due, migration, scan, bounds, finished>>

\* A production strategy would need a verdict for each regime, which no run has.
RunStatus == IF validation.verdict = "VALIDATED" /\ ~production THEN "PAPER_APPROVED" ELSE "SHADOW"

WriteStatus ==
    /\ validation.at = "legacy"
    /\ Write(validation.version, RunStatus, validation.version)
    /\ validation' = [validation EXCEPT !.at = "stamp"]
    /\ UNCHANGED <<fixed, config, legacy, expired, worker, due, migration, scan, bounds, finished>>

\* A run that raised is stamped like one that worked.
Stamp ==
    /\ validation.at = "stamp"
    /\ due' = FALSE
    /\ validation' = NoRun
    /\ UNCHANGED <<fixed, config, legacy, files, expired, worker, migration, scan, bounds, finished>>

Due ==
    /\ ~due /\ runs < MaxRuns
    /\ due' = TRUE
    /\ UNCHANGED <<fixed, config, legacy, files, expired, worker, validation, migration, scan, bounds,
                   finished>>

ValidateForex ==
    /\ market = "FOREX"
    /\ validation.at = "idle"
    /\ runs < MaxRuns
    /\ runs' = runs + 1
    /\ finished' = FALSE
    /\ \E verdict \in Verdicts :
          validation' = [NoRun EXCEPT !.at = "judged", !.version = config, !.verdict = verdict]
    /\ UNCHANGED <<fixed, config, legacy, files, expired, worker, due, migration, scan, crashes, edits>>

\* A bug: approvals for live trading are not demoted.
Superseded_slip(records) ==
    {v \in All : records[v].status = "PAPER_APPROVED"
                 /\ ~(v = validation.version /\ validation.verdict = "VALIDATED")}

\* Approved records that are not among this run's approvals.
Superseded(records) ==
    {v \in All : Approved(records[v].status)
                 /\ ~(v = validation.version /\ validation.verdict = "VALIDATED")}

\* The record is written and the list of records read again for the demotion.
RegisterForex ==
    /\ validation.at = "judged" /\ market = "FOREX"
    /\ Write(validation.version,
             IF validation.verdict = "VALIDATED" THEN "PAPER_APPROVED" ELSE "SHADOW", runs)
    /\ validation' = [validation EXCEPT !.at = "demoting", !.left = Superseded(files')]
    /\ UNCHANGED <<fixed, config, legacy, expired, worker, due, migration, scan, bounds, finished>>

\* The newest version stays the newest: all of them carry the run's time.
Demote(v) ==
    /\ validation.at = "demoting"
    /\ v \in validation.left
    /\ Write(v, "SHADOW", runs)
    /\ validation' = [validation EXCEPT !.left = @ \ {v}]
    /\ UNCHANGED <<fixed, config, legacy, expired, worker, due, migration, scan, bounds, finished>>

Report ==
    /\ validation.at = "demoting"
    /\ validation.left = {}
    /\ validation' = NoRun
    /\ finished' = TRUE
    /\ UNCHANGED <<fixed, config, legacy, files, expired, worker, due, migration, scan, bounds>>
-----------------------------------------------------------------------------
(* Faults, time and the operator.                                          *)

\* An exception ends the run: the scheduler stamps it, the script just ends.
Raise ==
    /\ crashes < MaxCrashes
    /\ validation.at \in {"judged", "legacy", "demoting"}
    /\ crashes' = crashes + 1
    /\ validation' = IF market = "NSE" THEN [NoRun EXCEPT !.at = "stamp"] ELSE NoRun
    /\ UNCHANGED <<fixed, config, legacy, files, expired, worker, due, migration, scan, runs, edits,
                   finished>>

\* The worker dies, and with it a scheduled run; Forex may start with a newer
\* configuration.
Crash ==
    /\ crashes < MaxCrashes
    /\ worker # "starting"
    /\ crashes' = crashes + 1
    /\ worker' = "starting"
    /\ migration' = NoMigration
    /\ scan' = [list |-> NoList, admits |-> FALSE]
    /\ validation' = IF market = "NSE" THEN NoRun ELSE validation
    /\ config' \in IF market = "FOREX" THEN {config, config + 1} \cap Versions ELSE {config}
    /\ UNCHANGED <<fixed, legacy, files, expired, due, runs, edits, finished>>

\* Once a version has its status, its expiry is never looked at again.
Expire(v) ==
    /\ legacy[v] # "none" /\ files[v].status = "none"
    /\ v \notin expired
    /\ ~(validation.at = "legacy" /\ validation.version = v)
    /\ expired' = expired \cup {v}
    /\ UNCHANGED <<fixed, config, legacy, files, worker, due, validation, migration, scan, bounds,
                   finished>>

\* The operator disables the newest record, or approves one for live trading.
Edit ==
    /\ edits < MaxEdits
    /\ edits' = edits + 1
    /\ finished' = FALSE
    /\ \E v \in Present(files) :
          \/ v = Latest(files) /\ Write(v, "DISABLED", files[v].stamp)
          \/ files[v].status = "PAPER_APPROVED" /\ Write(v, "LIVE_APPROVED", files[v].stamp)
    /\ UNCHANGED <<fixed, config, legacy, expired, worker, due, validation, migration, scan, runs,
                   crashes>>

Run ==
    \/ ValidateNse \/ WriteLegacy \/ WriteStatus \/ Stamp
    \/ ValidateForex \/ RegisterForex \/ Report
    \/ \E v \in All : Demote(v)

Migrate == MigrateBegin \/ MigrateLook \/ MigrateOne \/ MigrateEnd

SNext ==
    \/ Scan \/ Tick \/ Migrate \/ Seed \/ Run
    \/ Due \/ Raise \/ Crash \/ Edit
    \/ \E v \in Versions : Expire(v)

\* Time passes and a worker that runs keeps scanning.
SFair == WF_sVars(Tick) /\ WF_sVars(Scan)

SSpec == SInit /\ [][SNext]_sVars /\ SFair
-----------------------------------------------------------------------------
(* Properties.                                                             *)

\* No step but the operator's approves a version that its validation run did
\* not pass, and none is approved on evidence that has expired, however late a
\* gate migrates what a crash left half registered.
ApprovalWasEarned ==
    [][\A v \in Versions :
          files'[v].status = "PAPER_APPROVED" /\ files[v].status # "PAPER_APPROVED" =>
             IF market = "NSE" THEN legacy[v] = "VALIDATED" /\ v \notin expired
             ELSE v = validation.version /\ validation.verdict = "VALIDATED"]_sVars

\* When a Forex run has gone to its end, nothing it did not pass is approved,
\* whatever earlier runs, cut short at any point, left behind.
SupersededIsDemoted ==
    finished => \A v \in All : Approved(files[v].status) => files[v].stamp = runs

\* Once the records no longer allow the strategy, the scan stops admitting it
\* for good, however often it looks at its list.
WithdrawalIsObeyed == <>[](worker = "running" /\ ~Executable(files)) => <>[](~scan.admits)

\* No approval outlives what it rests on: a later run that did not confirm it, or
\* the records that allowed it.
ApprovalsEnd == []SupersededIsDemoted /\ WithdrawalIsObeyed
=============================================================================
