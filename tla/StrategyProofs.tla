--------------------------- MODULE StrategyProofs ---------------------------
(***************************************************************************)
(* What holds of the approval of strategies and of the champion models for *)
(* any versions, runs, transactions and trainers: an approval rests on the *)
(* verdict of its own run, however late a gate migrates it, and on the     *)
(* newest run once that has ended; a grain has one champion, and what is   *)
(* loaded is of one training.  What the approved strategies say: for any   *)
(* balanced thresholds, the opposite of a market's mirror image.  And what *)
(* they read: of any series, events and frames of the bars as they are,    *)
(* and a value area that is tight for any profile.                         *)
(***************************************************************************)
EXTENDS StrategyGovernance, ModelGovernance, TechnicalStrategies, BarIndicators,
        FiniteSetTheorems, WellFoundedInduction, TLAPS

\* What both registries hold, and what a run and a gate know while they write.
RunStages == {"idle", "judged", "legacy", "stamp", "demoting"}

StrategyTypes ==
    /\ market \in {"NSE", "FOREX"}
    /\ runs \in Nat
    /\ legacy \in [Versions -> Verdicts \cup {"none"}]
    /\ DOMAIN files = All
    /\ expired \subseteq Versions
    /\ validation \in [at : RunStages, version : Nat, verdict : Verdicts, left : SUBSET All]
    /\ migration \in [at : {"idle", "read", "look"}, legacy : [Versions -> Verdicts \cup {"none"}],
                      seen : SUBSET All, version : Nat]
    /\ config \in Nat

\* A legacy verdict is written once, by the run that is named after it, and an
\* expiry follows it.
LegacyInv ==
    /\ \A v \in Versions : legacy[v] # "none" => market = "NSE" /\ v <= runs
    /\ \A v \in expired : legacy[v] # "none"
    /\ \A v \in Versions : migration.legacy[v] \in {"none", legacy[v]}

\* A scheduled run is the newest one, and its verdict is still its own when the
\* status is written.
RunInv ==
    /\ validation.at = "judged" /\ market = "NSE" =>
           /\ validation.version = runs
           /\ \A v \in Versions : legacy[v] # "none" => v < runs
    /\ validation.at = "legacy" =>
           /\ market = "NSE"
           /\ validation.version \in Versions =>
                  /\ legacy[validation.version] = validation.verdict
                  /\ validation.version \notin expired

\* A Forex run has left to demote whatever is approved without it.
DemotionInv ==
    /\ validation.at = "demoting" =>
           /\ market = "FOREX"
           /\ \A v \in All : Approved(files[v].status) => v \in validation.left \/ files[v].stamp = runs
    /\ finished => market = "FOREX"
    /\ SupersededIsDemoted

StrategyInv == StrategyTypes /\ LegacyInv /\ RunInv /\ DemotionInv

\* One champion, without counting.
ModelInv == (\A m, n \in Champions : m = n) /\ LoadedIsWhole

-----------------------------------------------------------------------------
(* Strategies.                                                             *)

\* No run is idle, and one that is stamped is no longer.
LEMMA NoRunIs ==
    /\ NoRun.at = "idle"
    /\ [NoRun EXCEPT !.at = "stamp"].at = "stamp"
  BY DEF NoRun

\* The registries keep their types.
LEMMA StrategyTypesStep ==
    ASSUME StrategyTypes, [SNext]_sVars
    PROVE  StrategyTypes'
  <1> USE DEF fixed, bounds
  <1>1. Versions \subseteq Nat /\ Versions \subseteq All /\ Verdicts # {}
    BY StrategyAssumption DEF All, Verdicts
  <1>2. NoRun \in [at : RunStages, version : Nat, verdict : Verdicts, left : SUBSET All]
    BY DEF NoRun, RunStages, Verdicts
  <1>3. NoMigration \in [at : {"idle", "read", "look"}, legacy : [Versions -> Verdicts \cup {"none"}],
                         seen : SUBSET All, version : Nat]
    BY DEF NoMigration
  <1>4. \A v, status, stamp : Write(v, status, stamp) => DOMAIN files' = All
    BY DEF Write, StrategyTypes
  <1>5. CASE MigrateBegin
    BY <1>5 DEF MigrateBegin, StrategyTypes
  <1>6. CASE MigrateLook
    BY <1>6 DEF MigrateLook, StrategyTypes, Present
  <1>7. CASE MigrateOne
    <2>1. PICK v \in Remaining :
              \/ migration' = [migration EXCEPT !.version = v] /\ UNCHANGED files
              \/ /\ Write(v, Migrated(migration.legacy, v), v)
                 /\ migration' = [migration EXCEPT !.at = "read", !.version = v]
      BY <1>7 DEF MigrateOne
    <2>2. v \in Nat
      BY <1>1 DEF Remaining
    <2>3. DOMAIN files' = All
      BY <1>4, <2>1 DEF StrategyTypes
    <2>4. migration' \in [at : {"idle", "read", "look"}, legacy : [Versions -> Verdicts \cup {"none"}],
                          seen : SUBSET All, version : Nat]
      BY <2>1, <2>2 DEF StrategyTypes
    <2> QED BY <1>7, <2>3, <2>4 DEF MigrateOne, StrategyTypes
  <1>8. CASE MigrateEnd
    BY <1>3, <1>8 DEF MigrateEnd, StrategyTypes
  <1>9. CASE Seed
    BY <1>4, <1>9 DEF Seed, StrategyTypes
  <1>10. CASE ValidateNse
    <2>1. PICK verdict \in Verdicts :
              validation' = [NoRun EXCEPT !.at = "judged", !.version = runs + 1, !.verdict = verdict]
      BY <1>10 DEF ValidateNse
    <2>2. validation' = [at |-> "judged", version |-> runs + 1, verdict |-> verdict, left |-> {}]
      BY <2>1 DEF NoRun
    <2>3. validation' \in [at : RunStages, version : Nat, verdict : Verdicts, left : SUBSET All]
      BY <2>2 DEF StrategyTypes, RunStages
    <2> QED BY <1>10, <2>3 DEF ValidateNse, StrategyTypes
  <1>11. CASE WriteLegacy
    BY <1>11 DEF WriteLegacy, StrategyTypes, RunStages
  <1>12. CASE WriteStatus
    BY <1>4, <1>12 DEF WriteStatus, StrategyTypes, RunStages
  <1>13. CASE Stamp
    BY <1>2, <1>13 DEF Stamp, StrategyTypes
  <1>14. CASE ValidateForex
    <2>1. PICK verdict \in Verdicts :
              validation' = [NoRun EXCEPT !.at = "judged", !.version = config, !.verdict = verdict]
      BY <1>14 DEF ValidateForex
    <2>2. validation' = [at |-> "judged", version |-> config, verdict |-> verdict, left |-> {}]
      BY <2>1 DEF NoRun
    <2>3. validation' \in [at : RunStages, version : Nat, verdict : Verdicts, left : SUBSET All]
      BY <2>2 DEF StrategyTypes, RunStages
    <2> QED BY <1>14, <2>3 DEF ValidateForex, StrategyTypes
  <1>15. CASE RegisterForex
    BY <1>4, <1>15 DEF RegisterForex, StrategyTypes, RunStages, Superseded
  <1>16. CASE Report
    BY <1>2, <1>16 DEF Report, StrategyTypes
  <1>17. ASSUME NEW v \in All, Demote(v) PROVE StrategyTypes'
    BY <1>4, <1>17 DEF Demote, StrategyTypes
  <1>18. CASE Raise
    BY <1>2, <1>18 DEF Raise, StrategyTypes, NoRun, RunStages
  <1>19. CASE Crash
    BY <1>1, <1>2, <1>3, <1>19 DEF Crash, StrategyTypes
  <1>20. ASSUME NEW v \in Versions, Expire(v) PROVE StrategyTypes'
    BY <1>20 DEF Expire, StrategyTypes
  <1>21. CASE Edit
    BY <1>4, <1>21 DEF Edit, StrategyTypes
  <1>22. CASE Scan \/ Tick \/ Due \/ UNCHANGED sVars
    BY <1>22 DEF Scan, Tick, Due, sVars, StrategyTypes
  <1> QED BY <1>5, <1>6, <1>7, <1>8, <1>9, <1>10, <1>11, <1>12, <1>13, <1>14, <1>15, <1>16, <1>17, <1>18,
             <1>19, <1>20, <1>21, <1>22 DEF SNext, Migrate, Run

\* The legacy registry, its expiries and the runs that write it.
LEMMA VerdictsStep ==
    ASSUME StrategyTypes, LegacyInv, RunInv, [SNext]_sVars
    PROVE  LegacyInv' /\ RunInv'
  <1> USE DEF fixed, bounds
  <1>1. /\ \A v \in Versions : v \in Nat /\ legacy[v] \in Verdicts \cup {"none"}
        /\ runs \in Nat /\ expired \subseteq Versions
        /\ Verdicts = {"VALIDATED", "NOT VALIDATED"}
    BY StrategyAssumption DEF StrategyTypes, Verdicts
  <1>17. Versions \subseteq Nat /\ runs \in Nat
    BY <1>1
  <1>2. CASE UNCHANGED <<market, legacy, expired, migration, validation, runs>>
    BY <1>2 DEF LegacyInv, RunInv
  <1>3. CASE Scan \/ Tick \/ Due \/ Seed \/ Edit \/ UNCHANGED sVars
    BY <1>2, <1>3 DEF Scan, Tick, Due, Seed, Edit, sVars
  <1>4. ASSUME UNCHANGED <<market, legacy, expired, validation, runs>>,
               \A v \in Versions : migration'.legacy[v] \in {"none", legacy[v]}
        PROVE  LegacyInv' /\ RunInv'
    BY <1>4 DEF LegacyInv, RunInv
  <1>5. CASE MigrateBegin
    <2>1. /\ UNCHANGED <<market, legacy, expired, validation, runs>> /\ migration'.legacy = legacy
      BY <1>5 DEF MigrateBegin
    <2> QED BY <1>4, <2>1
  <1>6. CASE MigrateLook \/ MigrateOne
    <2>1. UNCHANGED <<market, legacy, expired, validation, runs>> /\ migration'.legacy = migration.legacy
      BY <1>6 DEF MigrateLook, MigrateOne, StrategyTypes
    <2> QED BY <1>4, <2>1 DEF LegacyInv
  <1>7. CASE MigrateEnd
    <2>1. UNCHANGED <<market, legacy, expired, validation, runs>> /\ migration' = NoMigration
      BY <1>7 DEF MigrateEnd
    <2> QED BY <1>4, <2>1 DEF NoMigration
  <1>8. ASSUME UNCHANGED <<market, legacy, expired, migration, runs>>, validation'.at \notin {"judged", "legacy"}
        PROVE  LegacyInv' /\ RunInv'
    BY <1>8 DEF LegacyInv, RunInv
  <1>9. CASE WriteStatus
    <2>1. UNCHANGED <<market, legacy, expired, migration, runs>> /\ validation'.at = "stamp"
      BY <1>9 DEF WriteStatus, StrategyTypes
    <2> QED BY <1>8, <2>1
  <1>10. CASE Stamp \/ Report \/ Raise
    <2>1. UNCHANGED <<market, legacy, expired, migration, runs>> /\ validation'.at \in {"idle", "stamp"}
      BY <1>10, NoRunIs DEF Stamp, Report, Raise
    <2> QED BY <1>8, <2>1
  <1>11. CASE RegisterForex \/ \E v \in All : Demote(v)
    <2>1. UNCHANGED <<market, legacy, expired, migration, runs>> /\ validation'.at = "demoting"
      BY <1>11 DEF RegisterForex, Demote, StrategyTypes
    <2> QED BY <1>8, <2>1
  <1>12. CASE ValidateNse
    <2>1. /\ UNCHANGED <<market, legacy, expired, migration>> /\ runs' = runs + 1
          /\ validation'.at = "judged" /\ validation'.version = runs'
      BY <1>12 DEF ValidateNse, NoRun
    <2>2. \A v \in Versions : legacy[v] # "none" => market = "NSE" /\ v <= runs
      BY DEF LegacyInv
    <2>3. \A v \in Versions : legacy[v] # "none" => v <= runs' /\ v < runs'
      BY <1>17, <2>1, <2>2
    <2> QED BY <2>1, <2>2, <2>3 DEF LegacyInv, RunInv
  <1>13. CASE ValidateForex
    <2>1. /\ UNCHANGED <<market, legacy, expired, migration>> /\ runs' = runs + 1
          /\ validation'.at = "judged" /\ market = "FOREX"
      BY <1>13 DEF ValidateForex, NoRun
    <2>2. \A v \in Versions : legacy[v] = "none"
      BY <2>1 DEF LegacyInv
    <2> QED BY <2>1, <2>2 DEF LegacyInv, RunInv
  <1>14. CASE WriteLegacy
    <2> DEFINE w == validation.version
    <2>1. /\ UNCHANGED <<market, expired, migration, runs>>
          /\ validation.at = "judged" /\ market = "NSE"
          /\ legacy' = [legacy EXCEPT ![w] = validation.verdict]
          /\ validation'.at = "legacy" /\ validation'.version = w /\ validation'.verdict = validation.verdict
      BY <1>14 DEF WriteLegacy, StrategyTypes
    <2>2. w = runs /\ \A v \in Versions : legacy[v] # "none" => v < runs
      BY <2>1 DEF RunInv
    <2> HIDE DEF w
    <2>8. w \in Versions => legacy[w] = "none"
      BY <1>17, <2>2
    <2>3. w \in Versions => legacy[w] = "none" /\ w \notin expired /\ migration.legacy[w] = "none"
      BY <2>8 DEF LegacyInv
    <2>4. validation.verdict \in Verdicts /\ DOMAIN legacy = Versions
      BY DEF StrategyTypes
    <2>5. \A v \in Versions : legacy'[v] = IF v = w THEN validation.verdict ELSE legacy[v]
      BY <2>1, <2>4
    <2>9. \A v \in Versions : v = w => v <= runs
      BY <1>17, <2>2
    <2>6. LegacyInv'
      <3>1. \A v \in Versions : legacy'[v] # "none" => market = "NSE" /\ v <= runs
        BY <2>1, <2>5, <2>9 DEF LegacyInv
      <3>2. \A v \in expired : legacy'[v] # "none"
        BY <1>1, <2>3, <2>5 DEF LegacyInv
      <3>3. \A v \in Versions : migration.legacy[v] \in {"none", legacy'[v]}
        BY <2>3, <2>5 DEF LegacyInv
      <3> QED BY <2>1, <3>1, <3>2, <3>3 DEF LegacyInv
    <2>7. RunInv'
      BY <2>1, <2>3, <2>5 DEF RunInv
    <2> QED BY <2>6, <2>7
  <1>15. CASE Crash
    <2>1. /\ UNCHANGED <<market, legacy, expired, runs>>
          /\ migration' = NoMigration
          /\ validation' = IF market = "NSE" THEN NoRun ELSE validation
      BY <1>15 DEF Crash
    <2>2. LegacyInv'
      BY <2>1 DEF LegacyInv, NoMigration
    <2>3. RunInv'
      BY <2>1 DEF RunInv, NoRun
    <2> QED BY <2>2, <2>3
  <1>16. ASSUME NEW v \in Versions, Expire(v) PROVE LegacyInv' /\ RunInv'
    <2>1. /\ UNCHANGED <<market, legacy, migration, validation, runs>>
          /\ expired' = expired \cup {v} /\ legacy[v] # "none"
          /\ ~(validation.at = "legacy" /\ validation.version = v)
      BY <1>16 DEF Expire
    <2> QED BY <2>1 DEF LegacyInv, RunInv
  <1> QED BY <1>3, <1>5, <1>6, <1>7, <1>9, <1>10, <1>11, <1>12, <1>13, <1>14, <1>15, <1>16
          DEF SNext, Migrate, Run

\* The statuses while a Forex run demotes and after it has ended.
LEMMA DemotionStep ==
    ASSUME StrategyTypes, LegacyInv, RunInv, DemotionInv, [SNext]_sVars
    PROVE  DemotionInv'
  <1> USE DEF fixed, bounds
  <1> DEFINE Sound(v) == Approved(files[v].status) => v \in validation.left \/ files[v].stamp = runs
             Final(v) == Approved(files[v].status) => files[v].stamp = runs
  <1>1. DOMAIN files = All /\ Versions \subseteq All
    BY DEF StrategyTypes, All
  <1>2. /\ validation.at = "demoting" => market = "FOREX" /\ \A v \in All : Sound(v)
        /\ finished => market = "FOREX" /\ \A v \in All : Final(v)
    BY DEF DemotionInv, SupersededIsDemoted
  <1>3. CASE UNCHANGED <<market, files, validation, runs, finished>>
    BY <1>2, <1>3 DEF DemotionInv, SupersededIsDemoted, Approved
  <1>4. CASE Scan \/ Tick \/ MigrateBegin \/ MigrateLook \/ MigrateEnd \/ Due \/ UNCHANGED sVars
    BY <1>3, <1>4 DEF Scan, Tick, MigrateBegin, MigrateLook, MigrateEnd, Due, sVars
  <1>5. CASE \E v \in Versions : Expire(v)
    BY <1>3, <1>5 DEF Expire
  <1>6. ASSUME NEW v, NEW status, NEW stamp, Write(v, status, stamp), ~Approved(status),
               UNCHANGED <<market, validation, runs, finished>>
        PROVE  DemotionInv'
    <2>1. \A w \in All : (w = v /\ files'[w].status = status) \/ files'[w] = files[w]
      BY <1>1, <1>6 DEF Write
    <2> QED BY <1>2, <1>6, <2>1 DEF DemotionInv, SupersededIsDemoted, Approved
  <1>7. CASE MigrateOne
    <2>1. PICK v \in Remaining : \/ UNCHANGED files
                                 \/ Write(v, Migrated(migration.legacy, v), v)
      BY <1>7 DEF MigrateOne
    <2>2. v \in Versions /\ migration.legacy[v] # "none"
      BY DEF Remaining
    <2>3. market = "NSE"
      BY <2>2 DEF LegacyInv
    <2>4. UNCHANGED <<market, validation, runs, finished>>
      BY <1>7 DEF MigrateOne
    <2> QED BY <1>2, <2>3, <2>4 DEF DemotionInv, SupersededIsDemoted
  <1>8. CASE Seed
    <2>1. UNCHANGED <<market, validation, runs, finished>> /\ ~Approved("SHADOW")
      BY <1>8 DEF Seed, Approved
    <2> QED BY <1>3, <1>6, <1>8, <2>1 DEF Seed
  <1>9. CASE ValidateNse \/ WriteLegacy \/ WriteStatus
    <2>1. market = "NSE" /\ UNCHANGED <<market, finished>>
      BY <1>9 DEF ValidateNse, WriteLegacy, WriteStatus, RunInv
    <2>2. validation'.at # "demoting"
      BY <1>9 DEF ValidateNse, WriteLegacy, WriteStatus, NoRun, StrategyTypes
    <2> QED BY <1>2, <2>1, <2>2 DEF DemotionInv, SupersededIsDemoted
  <1>10. CASE Stamp \/ Raise
    <2>1. UNCHANGED <<market, files, runs, finished>> /\ validation'.at \in {"idle", "stamp"}
      BY <1>10, NoRunIs DEF Stamp, Raise
    <2> QED BY <1>2, <2>1 DEF DemotionInv, SupersededIsDemoted
  <1>11. CASE ValidateForex
    <2>1. ~finished' /\ validation'.at = "judged"
      BY <1>11 DEF ValidateForex, NoRun
    <2> QED BY <2>1 DEF DemotionInv, SupersededIsDemoted
  <1>12. CASE RegisterForex
    <2> DEFINE w == validation.version
    <2>1. /\ market = "FOREX" /\ UNCHANGED <<market, runs, finished>>
          /\ validation'.left = Superseded(files')
          /\ \A v \in All : v # w => files'[v] = files[v]
          /\ w \in All => files'[w].stamp = runs
      BY <1>1, <1>12 DEF RegisterForex, StrategyTypes, Write
    <2>2. ASSUME NEW v \in All, Approved(files'[v].status), files'[v].stamp # runs
          PROVE  v \in validation'.left
      <3>1. v # w
        BY <2>1, <2>2
      <3> QED BY <2>1, <2>2, <3>1 DEF Superseded
    <2>3. ASSUME NEW v \in All, finished', Approved(files'[v].status) PROVE files'[v].stamp = runs'
      BY <1>2, <2>1, <2>3
    <2> QED BY <2>1, <2>2, <2>3 DEF DemotionInv, SupersededIsDemoted
  <1>13. ASSUME NEW v \in All, Demote(v) PROVE DemotionInv'
    <2>1. /\ UNCHANGED <<market, runs, finished>> /\ validation.at = "demoting"
          /\ validation'.left = validation.left \ {v}
          /\ \A w \in All : w # v => files'[w] = files[w]
          /\ files'[v].stamp = runs
      BY <1>1, <1>13 DEF Demote, StrategyTypes, Write
    <2>2. ASSUME NEW w \in All, Approved(files'[w].status), files'[w].stamp # runs
          PROVE  w \in validation'.left
      BY <1>2, <2>1, <2>2
    <2>3. ASSUME NEW w \in All, finished', Approved(files'[w].status) PROVE files'[w].stamp = runs'
      BY <1>2, <2>1, <2>3
    <2> QED BY <1>2, <2>1, <2>2, <2>3 DEF DemotionInv, SupersededIsDemoted
  <1>14. CASE Report
    <2>1. /\ UNCHANGED <<market, files, runs>> /\ validation'.at = "idle"
          /\ validation.at = "demoting" /\ validation.left = {}
      BY <1>14 DEF Report, NoRun
    <2> QED BY <1>2, <2>1 DEF DemotionInv, SupersededIsDemoted, Approved
  <1>15. CASE Crash
    <2>1. /\ UNCHANGED <<market, files, runs, finished>>
          /\ market # "NSE" => UNCHANGED validation
          /\ market = "NSE" => validation'.at = "idle"
      BY <1>15 DEF Crash, NoRun
    <2> QED BY <1>2, <2>1 DEF DemotionInv, SupersededIsDemoted, Approved
  <1>16. CASE Edit
    <2>1. ~finished' /\ UNCHANGED <<market, validation, runs>>
      BY <1>16 DEF Edit
    <2>2. ASSUME NEW w \in All PROVE \/ files'[w] = files[w]
                                   \/ files'[w].status = "DISABLED"
                                   \/ (Approved(files[w].status) /\ files'[w].stamp = files[w].stamp)
      BY <1>1, <1>16 DEF Edit, Write, Approved
    <2>3. ASSUME NEW w \in All, validation.at = "demoting", Approved(files'[w].status)
          PROVE  w \in validation.left \/ files'[w].stamp = runs
      BY <1>2, <2>2, <2>3 DEF Approved
    <2> QED BY <1>2, <2>1, <2>3 DEF DemotionInv, SupersededIsDemoted
  <1> QED BY <1>4, <1>5, <1>7, <1>8, <1>9, <1>10, <1>11, <1>12, <1>13, <1>14, <1>15, <1>16
          DEF SNext, Migrate, Run

\* The registries start in their invariant.
LEMMA StrategyInvInit ==
    ASSUME SInit
    PROVE  StrategyInv
  <1>1. StrategyTypes
    BY DEF SInit, StrategyTypes, NoRun, NoMigration, RunStages, Verdicts
  <1>2. LegacyInv /\ RunInv
    BY DEF SInit, LegacyInv, RunInv, NoRun, NoMigration
  <1>3. DemotionInv
    BY DEF SInit, DemotionInv, SupersededIsDemoted, NoRun
  <1> QED BY <1>1, <1>2, <1>3 DEF StrategyInv

\* Every state of the two registries, their runs and gates, over crashes, raised
\* exceptions and edits.
THEOREM StrategyInvHolds == SSpec => []StrategyInv
  <1>1. ASSUME StrategyInv, [SNext]_sVars PROVE StrategyInv'
    BY <1>1, StrategyTypesStep, VerdictsStep, DemotionStep DEF StrategyInv
  <1> QED BY StrategyInvInit, <1>1, PTL DEF SSpec

\* No step but the operator's approves a version that its validation run did not
\* pass or whose evidence has expired (edge_verdict, migrate_legacy,
\* register_validation_results).
THEOREM ApprovalWasEarnedHolds == SSpec => ApprovalWasEarned
  <1> USE DEF fixed, bounds
  <1> DEFINE Earned(v) ==
                 files'[v].status = "PAPER_APPROVED" /\ files[v].status # "PAPER_APPROVED" =>
                    IF market = "NSE" THEN legacy[v] = "VALIDATED" /\ v \notin expired
                    ELSE v = validation.version /\ validation.verdict = "VALIDATED"
  <1>1. ASSUME StrategyInv, [SNext]_sVars, NEW v \in Versions PROVE Earned(v)
    <2>1. StrategyTypes /\ LegacyInv /\ RunInv /\ DemotionInv /\ DOMAIN files = All /\ v \in All
      BY <1>1 DEF StrategyInv, StrategyTypes, All
    <2>2. ASSUME NEW w, NEW status, NEW stamp, Write(w, status, stamp)
          PROVE  files'[v] = files[v] \/ (w = v /\ files'[v].status = status)
      BY <2>1, <2>2 DEF Write
    <2>3. CASE MigrateOne
      <3>1. PICK w \in Remaining : UNCHANGED files \/ Write(w, Migrated(migration.legacy, w), w)
        BY <2>3 DEF MigrateOne
      <3>2. w \in Versions /\ migration.legacy[w] # "none"
        BY DEF Remaining
      <3>3. market = "NSE" /\ migration.legacy[w] = legacy[w]
        BY <2>1, <3>2 DEF LegacyInv
      <3>4. Migrated(migration.legacy, w) = "PAPER_APPROVED" =>
                legacy[w] = "VALIDATED" /\ w \notin expired
        BY <3>3 DEF Migrated, LegacyStatus
      <3> QED BY <2>2, <3>1, <3>3, <3>4
    <2>4. CASE Seed
      BY <2>2, <2>4 DEF Seed
    <2>5. CASE WriteStatus
      <3>1. Write(validation.version, RunStatus, validation.version) /\ validation.at = "legacy"
        BY <2>5 DEF WriteStatus
      <3>2. RunStatus = "PAPER_APPROVED" => validation.verdict = "VALIDATED"
        BY DEF RunStatus
      <3> QED BY <2>1, <2>2, <3>1, <3>2 DEF RunInv
    <2>6. CASE RegisterForex
      BY <2>2, <2>6 DEF RegisterForex
    <2>7. ASSUME NEW w \in All, Demote(w) PROVE Earned(v)
      BY <2>2, <2>7 DEF Demote
    <2>8. CASE Edit
      BY <2>2, <2>8 DEF Edit
    <2>9. CASE Scan \/ Tick \/ MigrateBegin \/ MigrateLook \/ MigrateEnd \/ Due \/ UNCHANGED sVars
      BY <2>9 DEF Scan, Tick, MigrateBegin, MigrateLook, MigrateEnd, Due, sVars
    <2>10. CASE ValidateNse \/ WriteLegacy \/ Stamp \/ ValidateForex \/ Report \/ Raise \/ Crash
      BY <2>10 DEF ValidateNse, WriteLegacy, Stamp, ValidateForex, Report, Raise, Crash
    <2>11. CASE \E w \in Versions : Expire(w)
      BY <2>11 DEF Expire
    <2> QED BY <1>1, <2>3, <2>4, <2>5, <2>6, <2>7, <2>8, <2>9, <2>10, <2>11 DEF SNext, Migrate, Run
  <1>2. ASSUME StrategyInv, [SNext]_sVars
        PROVE  [\A v \in Versions : Earned(v)]_sVars
    BY <1>1, <1>2
  <1> QED BY <1>2, StrategyInvHolds, PTL DEF SSpec, ApprovalWasEarned

\* A Forex run that went to its end leaves nothing approved that it did not pass
\* (demote_superseded_forex_approvals), whatever earlier runs left behind.
THEOREM SupersededIsDemotedHolds == SSpec => []SupersededIsDemoted
  <1>1. StrategyInv => SupersededIsDemoted
    BY DEF StrategyInv, DemotionInv
  <1> QED BY <1>1, StrategyInvHolds, PTL

-----------------------------------------------------------------------------
(* Models.                                                                 *)

\* Every step keeps the invariant of the models.
LEMMA ModelInvStep ==
    ASSUME ModelInv, [MNext]_mVars
    PROVE  ModelInv'
  <1>1. (\A m, n \in Champions : m = n) /\ LoadedIsWhole
    BY DEF ModelInv
  <1>2. \A m, n \in Champions' : m = n
    <2>1. CASE UNCHANGED rows
      BY <1>1, <2>1 DEF Champions
    <2>2. ASSUME NEW m \in Models, NEW status \in {"APPROVED", "REJECTED"},
                 rows' = [rows EXCEPT ![m] = status]
          PROVE  \A k, n \in Champions' : k = n
      <3>1. Champions' \subseteq Champions
        BY <2>2 DEF Champions
      <3> QED BY <1>1, <3>1
    <2>3. ASSUME NEW p \in Promoters, Activate(p)
          PROVE  \A k, n \in Champions' : k = n
      <3>1. CASE ~Unique(p)
        BY <2>1, <2>3, <3>1 DEF Activate
      <3>2. CASE Unique(p)
        <4>1. rows' = Promoted(p) /\ Champions \subseteq promotion[p].retired \cup {promotion[p].model}
          BY <2>3, <3>2 DEF Activate, Unique
        <4>2. ASSUME NEW k \in Champions' PROVE k = promotion[p].model
          BY <4>1, <4>2 DEF Champions, Promoted
        <4> QED BY <4>2
      <3> QED BY <3>1, <3>2
    <2>4. ASSUME NEW m \in Models, Register(m) \/ \E s \in {"APPROVED", "REJECTED"} : SetStatus(m, s)
          PROVE  \A k, n \in Champions' : k = n
      BY <2>2, <2>4 DEF Register, SetStatus
    <2>5. ASSUME NEW p \in Promoters, FindActive(p) \/ Retire(p) \/ \E m \in Models : Candidate(p, m)
          PROVE  UNCHANGED rows
      BY <2>5 DEF FindActive, Retire, Candidate
    <2>6. CASE HotReload \/ LoadMetadata \/ LoadPayload \/ UNCHANGED mVars
      BY <2>1, <2>6 DEF HotReload, LoadMetadata, LoadPayload, registry, mVars
    <2>7. ASSUME NEW t \in Trainers, Check(t) \/ SavePayload(t) \/ SaveMetadata(t) \/ Dies(t) \/ Again(t)
          PROVE  UNCHANGED rows
      BY <2>7 DEF Check, SavePayload, SaveMetadata, Dies, Again, registry
    <2> QED BY <2>1, <2>3, <2>4, <2>5, <2>6, <2>7 DEF MNext
  <1>3. LoadedIsWhole'
    <2>1. CASE loader'.has = loader.has
      BY <1>1, <2>1 DEF LoadedIsWhole
    <2>2. CASE UNCHANGED loader
      BY <2>1, <2>2
    <2>3. CASE LoadMetadata
      BY <2>1, <2>3 DEF LoadMetadata
    <2>4. CASE LoadPayload
      BY <1>1, <2>4 DEF LoadPayload, NoLoad, LoadedIsWhole
    <2>5. ASSUME NEW m \in Models, Register(m) \/ \E s \in {"APPROVED", "REJECTED"} : SetStatus(m, s)
          PROVE  UNCHANGED loader
      BY <2>5 DEF Register, SetStatus, store
    <2>6. ASSUME NEW p \in Promoters,
                 FindActive(p) \/ Retire(p) \/ Activate(p) \/ \E m \in Models : Candidate(p, m)
          PROVE  UNCHANGED loader
      BY <2>6 DEF FindActive, Retire, Activate, Candidate, store
    <2>7. CASE HotReload \/ UNCHANGED mVars
      BY <2>2, <2>7 DEF HotReload, store, mVars
    <2>8. ASSUME NEW t \in Trainers, Check(t) \/ SavePayload(t) \/ SaveMetadata(t) \/ Dies(t) \/ Again(t)
          PROVE  UNCHANGED loader
      BY <2>8 DEF Check, SavePayload, SaveMetadata, Dies, Again
    <2> QED BY <2>2, <2>3, <2>4, <2>5, <2>6, <2>7, <2>8 DEF MNext
  <1> QED BY <1>2, <1>3 DEF ModelInv

\* However promotions overlap, a grain has one champion (the partial unique index
\* and ModelRegistry.promote), and what an agent loads is one training's.
THEOREM ModelsAreSoundHolds == MSpec => []ModelsAreSound
  <1>1. MInit => ModelInv
    BY DEF MInit, ModelInv, Champions, LoadedIsWhole, NoLoad
  <1>2. ModelInv /\ [MNext]_mVars => ModelInv'
    BY ModelInvStep
  <1>3. ModelInv => ModelsAreSound
    <2> SUFFICES ASSUME ModelInv PROVE OneChampion
      BY DEF ModelInv, ModelsAreSound
    <2>1. Champions = {} \/ \E m \in Champions : Champions = {m}
      BY DEF ModelInv
    <2> QED BY <2>1, FS_EmptySet, FS_Singleton DEF OneChampion
  <1> QED BY <1>1, <1>2, <1>3, PTL DEF MSpec

-----------------------------------------------------------------------------
(* What the strategies say of a market (TechnicalStrategies).              *)

\* The thresholds of the two sides lie equally far from the centre of their field, as the
\* defaults of core/strategies/config.py all do (RSI 42..65 and 35..58, 38 and 62, 45 and
\* 55, 72 and 28, percentile 0.8 and 0.2).
Balanced ==
    /\ RsiSellMin = -RsiBuyMax /\ RsiSellMax = -RsiBuyMin
    /\ ReversionSellMin = -ReversionBuyMax
    /\ SellPercentile = -BuyPercentile
    /\ Oversold = -Overbought

Flip(d) == IF d = "none" THEN "none" ELSE Opposite(d)

\* Strategy s says the opposite of the mirrored snapshot, as strongly and with as many
\* indicators that agree.
Mirrors(s, x) ==
    LET d == Direction(s, x)
    IN /\ Direction(s, Mirror(x)) = Flip(d)
       /\ d # "none" => Strength(s, Mirror(x), Opposite(d)) = Strength(s, x, d)
       /\ d # "none" /\ s \in Graded => Agree(Mirror(x), Opposite(d) = "BUY") = Agree(x, d = "BUY")

\* The highest price is a number.
LEMMA TopIs == Top \in Int
  BY SnapshotAssumption

\* The indicators that agree with the one side of a snapshot agree with the other side of
\* its image, if each of them turns round with the market.
LEMMA AgreeMirrors ==
  ASSUME NEW x, NEW y, DOMAIN y = DOMAIN x,
         "rsi" \in DOMAIN x => (y.rsi < 0 <=> x.rsi > 0) /\ (y.rsi > 0 <=> x.rsi < 0),
         "histogram" \in DOMAIN x =>
             (y.histogram < 0 <=> x.histogram > 0) /\ (y.histogram > 0 <=> x.histogram < 0),
         "plusDi" \in DOMAIN x =>
             (y.plusDi > y.minusDi <=> x.minusDi > x.plusDi) /\ (y.minusDi > y.plusDi <=> x.plusDi > x.minusDi),
         "ema20" \in DOMAIN x =>
             (y.close > y.ema20 <=> x.close < x.ema20) /\ (y.close < y.ema20 <=> x.close > x.ema20)
  PROVE  \A d \in {"BUY", "SELL"} : Agree(y, Opposite(d) = "BUY") = Agree(x, d = "BUY")
<1>1. Agree(y, FALSE) = Agree(x, TRUE)
  BY DEF Agree
<1>2. Agree(y, TRUE) = Agree(x, FALSE)
  BY DEF Agree
<1>3. QED BY <1>1, <1>2 DEF Opposite

\* The EMA trend swaps the averages' order, the slope's sign and the two directional
\* indicators; its strength, its volume and its extension read the same from both sides.
LEMMA EmaAdxTrendMirrors ==
  ASSUME Balanced, NEW x \in Inputs("ema_adx_trend")
  PROVE  Mirrors("ema_adx_trend", x)
<1> DEFINE y == Mirror(x)
<1>1. /\ DOMAIN x = {"close", "ema20", "ema50", "slope", "plusDi", "minusDi", "adx", "rvol"}
      /\ {x.close, x.ema20, x.ema50, x.slope, x.plusDi, x.minusDi} \subseteq Int
      /\ x.adx \in Int \cup {Missing} /\ x.rvol \in Int \cup {Missing}
  BY SnapshotAssumption DEF Inputs, Rungs, Sg, Lev
<1>2. /\ y.close = Top - x.close /\ y.ema20 = Top - x.ema20 /\ y.ema50 = Top - x.ema50
      /\ y.slope = -x.slope /\ y.plusDi = x.minusDi /\ y.minusDi = x.plusDi /\ y.adx = x.adx
      /\ y.rvol = x.rvol /\ DOMAIN y = DOMAIN x
  BY <1>1, SnapshotAssumption DEF Mirror, Partner, PriceFields, Signed, Flags
<1> HIDE DEF y
<1>3. EmaAdxTrend(y) = Flip(EmaAdxTrend(x))
  BY <1>1, <1>2, SnapshotAssumption DEF Balanced, Flip, Opposite, Decide, EmaAdxTrend, Has, Dist, Rvol
<1>4. QED BY <1>3 DEF Mirrors, Direction, Strength, Graded, y

\* A break of the channel's top mirrors to a break of its bottom.
LEMMA DonchianBreakoutMirrors ==
  ASSUME Balanced, NEW x \in Inputs("donchian_breakout")
  PROVE  Mirrors("donchian_breakout", x)
<1> DEFINE y == Mirror(x)
<1>1. /\ DOMAIN x = {"close", "prevClose", "donHigh", "donLow", "rvol", "adx"}
      /\ {x.close, x.prevClose, x.donHigh, x.donLow, x.adx} \subseteq Int
      /\ x.rvol \in Int \cup {Missing}
  BY SnapshotAssumption DEF Inputs, Rungs, Sg, Lev
<1>2. /\ y.close = Top - x.close /\ y.prevClose = Top - x.prevClose /\ y.donHigh = Top - x.donLow
      /\ y.donLow = Top - x.donHigh /\ y.rvol = x.rvol /\ y.adx = x.adx /\ DOMAIN y = DOMAIN x
  BY <1>1, SnapshotAssumption DEF Mirror, Partner, PriceFields, Signed, Flags
<1> HIDE DEF y
<1>3. DonchianBreakout(y) = Flip(DonchianBreakout(x))
  BY <1>1, <1>2, SnapshotAssumption DEF Balanced, Flip, Opposite, Decide, DonchianBreakout, Has, Breakout
<1>4. QED BY <1>3 DEF Mirrors, Direction, Strength, Graded, y

\* So does a break of the value area.
LEMMA VolumeProfileBreakoutMirrors ==
  ASSUME Balanced, NEW x \in Inputs("volume_profile_breakout")
  PROVE  Mirrors("volume_profile_breakout", x)
<1> DEFINE y == Mirror(x)
<1>1. /\ DOMAIN x = {"close", "prevClose", "vaHigh", "vaLow", "rvol", "adx"}
      /\ {x.close, x.prevClose, x.vaHigh, x.vaLow, x.rvol, x.adx} \subseteq Int
  BY SnapshotAssumption DEF Inputs, Rungs, Sg, Lev
<1>2. /\ y.close = Top - x.close /\ y.prevClose = Top - x.prevClose /\ y.vaHigh = Top - x.vaLow
      /\ y.vaLow = Top - x.vaHigh /\ y.rvol = x.rvol /\ y.adx = x.adx /\ DOMAIN y = DOMAIN x
  BY <1>1, SnapshotAssumption DEF Mirror, Partner, PriceFields, Signed, Flags
<1> HIDE DEF y
<1>3. VolumeProfileBreakout(y) = Flip(VolumeProfileBreakout(x))
  BY <1>1, <1>2, SnapshotAssumption DEF Balanced, Flip, Opposite, Decide, VolumeProfileBreakout, Has, Breakout
<1>4. QED BY <1>3 DEF Mirrors, Direction, Strength, Graded, y

\* So does one of the opening range, and the average price it must have passed.
LEMMA OpeningRangeBreakoutMirrors ==
  ASSUME Balanced, NEW x \in Inputs("opening_range_breakout")
  PROVE  Mirrors("opening_range_breakout", x)
<1> DEFINE y == Mirror(x)
<1>1. /\ DOMAIN x = {"close", "prevClose", "orHigh", "orLow", "vwap", "rvol", "adx", "complete"}
      /\ {x.close, x.prevClose, x.orHigh, x.orLow, x.vwap, x.rvol, x.adx} \subseteq Int
      /\ x.complete \in BOOLEAN
  BY SnapshotAssumption DEF Inputs, Rungs, Sg, Lev
<1>2. /\ y.close = Top - x.close /\ y.prevClose = Top - x.prevClose /\ y.orHigh = Top - x.orLow
      /\ y.orLow = Top - x.orHigh /\ y.vwap = Top - x.vwap /\ y.rvol = x.rvol /\ y.adx = x.adx
      /\ y.complete = x.complete /\ DOMAIN y = DOMAIN x
  BY <1>1, SnapshotAssumption DEF Mirror, Partner, PriceFields, Signed, Flags
<1> HIDE DEF y
<1>3. OpeningRangeBreakout(y) = Flip(OpeningRangeBreakout(x))
  BY <1>1, <1>2, SnapshotAssumption DEF Balanced, Flip, Opposite, Decide, OpeningRangeBreakout, Has, Breakout
<1>4. QED BY <1>3 DEF Mirrors, Direction, Strength, Graded, y

\* A rate of change mirrors to its negation, on the same trend.
LEMMA TimeSeriesMomentumMirrors ==
  ASSUME Balanced, NEW x \in Inputs("time_series_momentum")
  PROVE  Mirrors("time_series_momentum", x)
<1> DEFINE y == Mirror(x)
<1>1. /\ DOMAIN x = {"close", "ema20", "ema50", "roc", "momentum", "adx"}
      /\ {x.close, x.ema20, x.ema50, x.momentum, x.adx} \subseteq Int
      /\ x.roc \in Int \cup {Missing}
  BY SnapshotAssumption DEF Inputs, Rungs, Sg, Lev
<1>2. /\ y.close = Top - x.close /\ y.ema20 = Top - x.ema20 /\ y.ema50 = Top - x.ema50
      /\ y.roc = (IF x.roc = Missing THEN Missing ELSE -x.roc) /\ y.momentum = -x.momentum
      /\ y.adx = x.adx /\ DOMAIN y = DOMAIN x
  BY <1>1, SnapshotAssumption DEF Mirror, Partner, PriceFields, Signed, Flags
<1> HIDE DEF y
<1>3. TimeSeriesMomentum(y) = Flip(TimeSeriesMomentum(x))
  BY <1>1, <1>2, SnapshotAssumption DEF Balanced, Flip, Opposite, Decide, TimeSeriesMomentum, Has
<1>4. QED BY <1>3 DEF Mirrors, Direction, Strength, Graded, y

\* A pullback from below mirrors to one from above, the low for the high, and each side's RSI
\* range to the other's.
LEMMA TrendPullbackMirrors ==
  ASSUME Balanced, NEW x \in Inputs("trend_pullback")
  PROVE  Mirrors("trend_pullback", x)
<1> DEFINE y == Mirror(x)
<1>1. /\ DOMAIN x = {"close", "open", "ema20", "ema50", "prevEma20", "prevClose", "prevLow", "prevHigh",
                      "slope", "rsi", "adx", "body", "rvol"}
      /\ {x.close, x.open, x.ema20, x.ema50, x.prevEma20, x.prevClose, x.prevLow, x.prevHigh, x.slope, x.rsi,
         x.adx, x.body} \subseteq Int
      /\ x.rvol \in Int \cup {Missing}
  BY SnapshotAssumption DEF Inputs, Rungs, Sg, Lev
<1>2. /\ y.close = Top - x.close /\ y.open = Top - x.open /\ y.ema20 = Top - x.ema20
      /\ y.ema50 = Top - x.ema50 /\ y.prevEma20 = Top - x.prevEma20
      /\ y.prevClose = Top - x.prevClose /\ y.prevLow = Top - x.prevHigh
      /\ y.prevHigh = Top - x.prevLow /\ y.slope = -x.slope /\ y.rsi = -x.rsi /\ y.adx = x.adx
      /\ y.body = x.body /\ y.rvol = x.rvol /\ DOMAIN y = DOMAIN x
  BY <1>1, SnapshotAssumption DEF Mirror, Partner, PriceFields, Signed, Flags
<1> HIDE DEF y
<1>3. TrendPullback(y) = Flip(TrendPullback(x))
  BY <1>1, <1>2, SnapshotAssumption DEF Balanced, Flip, Opposite, Decide, TrendPullback, Dist, Rvol
<1>4. QED BY <1>3 DEF Mirrors, Direction, Strength, Graded, y

\* The supertrend's flag is negated with the trend.
LEMMA SupertrendAdxEmaMirrors ==
  ASSUME Balanced, NEW x \in Inputs("supertrend_adx_ema")
  PROVE  Mirrors("supertrend_adx_ema", x)
<1> DEFINE y == Mirror(x)
<1>1. /\ DOMAIN x = {"close", "ema50", "adx", "plusDi", "minusDi", "stBullish"}
      /\ {x.close, x.ema50, x.adx, x.plusDi, x.minusDi} \subseteq Int /\ x.stBullish \in BOOLEAN
  BY SnapshotAssumption DEF Inputs, Rungs, Sg, Lev
<1>2. /\ y.close = Top - x.close /\ y.ema50 = Top - x.ema50 /\ y.adx = x.adx
      /\ y.plusDi = x.minusDi /\ y.minusDi = x.plusDi /\ (y.stBullish <=> ~x.stBullish)
      /\ DOMAIN y = DOMAIN x
  BY <1>1, SnapshotAssumption DEF Mirror, Partner, PriceFields, Signed, Flags
<1> HIDE DEF y
<1>3. SupertrendAdxEma(y) = Flip(SupertrendAdxEma(x))
  BY <1>1, <1>2, SnapshotAssumption DEF Balanced, Flip, Opposite, Decide, SupertrendAdxEma, Dist
<1>4. QED BY <1>3 DEF Mirrors, Direction, Strength, Graded, y

\* The MACD lines change sign, their crossing and their widening its direction.
LEMMA MacdTrendContinuationMirrors ==
  ASSUME Balanced, NEW x \in Inputs("macd_trend_continuation")
  PROVE  Mirrors("macd_trend_continuation", x)
<1> DEFINE y == Mirror(x)
<1>1. /\ DOMAIN x = {"close", "ema50", "macd", "macdSignal", "macdPrev", "macdSignalPrev", "rsi", "adx"}
      /\ {x.close, x.ema50, x.macd, x.macdSignal, x.macdPrev, x.macdSignalPrev, x.rsi, x.adx} \subseteq Int
  BY SnapshotAssumption DEF Inputs, Rungs, Sg, Lev
<1>2. /\ y.close = Top - x.close /\ y.ema50 = Top - x.ema50 /\ y.macd = -x.macd
      /\ y.macdSignal = -x.macdSignal /\ y.macdPrev = -x.macdPrev
      /\ y.macdSignalPrev = -x.macdSignalPrev /\ y.rsi = -x.rsi /\ y.adx = x.adx
      /\ DOMAIN y = DOMAIN x
  BY <1>1, SnapshotAssumption DEF Mirror, Partner, PriceFields, Signed, Flags
<1> HIDE DEF y
<1>3. MacdTrendContinuation(y) = Flip(MacdTrendContinuation(x))
  BY <1>1, <1>2, SnapshotAssumption DEF Balanced, Flip, Opposite, Decide, MacdTrendContinuation, Histogram
<1>4. QED BY <1>3 DEF Mirrors, Direction, Strength, Graded, y

\* A return into the band from below mirrors to one from above.
LEMMA BollingerRsiMirrors ==
  ASSUME Balanced, NEW x \in Inputs("bollinger_rsi_mean_reversion")
  PROVE  Mirrors("bollinger_rsi_mean_reversion", x)
<1> DEFINE y == Mirror(x)
<1>1. /\ DOMAIN x = {"bbLower", "bbUpper", "prevLower", "prevUpper", "prevClose", "close", "open", "rsi",
                      "adx", "bandwidth"}
      /\ {x.bbLower, x.bbUpper, x.prevLower, x.prevUpper, x.prevClose, x.close, x.open, x.rsi, x.adx,
         x.bandwidth} \subseteq Int
  BY SnapshotAssumption DEF Inputs, Rungs, Sg, Lev
<1>2. /\ y.bbLower = Top - x.bbUpper /\ y.bbUpper = Top - x.bbLower
      /\ y.prevLower = Top - x.prevUpper /\ y.prevUpper = Top - x.prevLower
      /\ y.prevClose = Top - x.prevClose /\ y.close = Top - x.close /\ y.open = Top - x.open
      /\ y.rsi = -x.rsi /\ y.adx = x.adx /\ y.bandwidth = x.bandwidth /\ DOMAIN y = DOMAIN x
  BY <1>1, SnapshotAssumption DEF Mirror, Partner, PriceFields, Signed, Flags
<1> HIDE DEF y
<1>3. BollingerRsi(y) = Flip(BollingerRsi(x))
  BY <1>1, <1>2, SnapshotAssumption DEF Balanced, Flip, Opposite, Decide, BollingerRsi
<1>4. QED BY <1>3 DEF Mirrors, Direction, Strength, Graded, y

\* A fall away from the average price mirrors to a rise, in its distance and in its deviation.
LEMMA VwapMeanReversionMirrors ==
  ASSUME Balanced, NEW x \in Inputs("vwap_mean_reversion")
  PROVE  Mirrors("vwap_mean_reversion", x)
<1> DEFINE y == Mirror(x)
<1>1. /\ DOMAIN x = {"close", "open", "prevClose", "distance", "zscore", "rsi", "adx"}
      /\ {x.close, x.open, x.prevClose, x.zscore, x.rsi, x.adx} \subseteq Int
      /\ x.distance \in Int \cup {Missing}
  BY SnapshotAssumption DEF Inputs, Rungs, Sg, Lev
<1>2. /\ y.close = Top - x.close /\ y.open = Top - x.open /\ y.prevClose = Top - x.prevClose
      /\ y.distance = (IF x.distance = Missing THEN Missing ELSE -x.distance)
      /\ y.zscore = -x.zscore /\ y.rsi = -x.rsi /\ y.adx = x.adx /\ DOMAIN y = DOMAIN x
  BY <1>1, SnapshotAssumption DEF Mirror, Partner, PriceFields, Signed, Flags
<1> HIDE DEF y
<1>3. VwapMeanReversion(y) = Flip(VwapMeanReversion(x))
  BY <1>1, <1>2, SnapshotAssumption DEF Balanced, Flip, Opposite, Decide, VwapMeanReversion, Has
<1>4. QED BY <1>3 DEF Mirrors, Direction, Strength, Graded, y

\* A symbol ahead of the others mirrors to one behind them.
LEMMA RelativeStrengthMirrors ==
  ASSUME Balanced, NEW x \in Inputs("relative_strength_momentum")
  PROVE  Mirrors("relative_strength_momentum", x)
<1> DEFINE y == Mirror(x)
<1>1. /\ DOMAIN x = {"close", "ema20", "ema50", "excess", "percentile", "adx", "rvol", "sameCandle"}
      /\ {x.close, x.ema20, x.ema50, x.excess, x.percentile, x.adx} \subseteq Int
      /\ x.rvol \in Int \cup {Missing} /\ x.sameCandle \in BOOLEAN
  BY SnapshotAssumption DEF Inputs, Rungs, Sg, Lev
<1>2. /\ y.close = Top - x.close /\ y.ema20 = Top - x.ema20 /\ y.ema50 = Top - x.ema50
      /\ y.excess = -x.excess /\ y.percentile = -x.percentile /\ y.adx = x.adx /\ y.rvol = x.rvol
      /\ y.sameCandle = x.sameCandle /\ DOMAIN y = DOMAIN x
  BY <1>1, SnapshotAssumption DEF Mirror, Partner, PriceFields, Signed, Flags
<1> HIDE DEF y
<1>3. RelativeStrength(y) = Flip(RelativeStrength(x))
  BY <1>1, <1>2, SnapshotAssumption DEF Balanced, Flip, Opposite, Decide, RelativeStrength, Rvol
<1>4. QED BY <1>3 DEF Mirrors, Direction, Strength, Graded, y

\* The older momentum strategy mirrors with the RSI about its centre, as strong as before.
LEMMA MomentumMirrors ==
  ASSUME Balanced, NEW x \in Inputs("momentum")
  PROVE  Mirrors("momentum", x)
<1> DEFINE y == Mirror(x)
<1>1. /\ DOMAIN x = {"rsi", "histogram"} /\ {x.rsi, x.histogram} \subseteq Int
  BY SnapshotAssumption DEF Inputs, Rungs, Sg, Lev
<1>2. /\ y.rsi = -x.rsi /\ y.histogram = -x.histogram /\ DOMAIN y = DOMAIN x
  BY <1>1, SnapshotAssumption DEF Mirror, Partner, PriceFields, Signed, Flags
<1> HIDE DEF y
<1>3. Momentum(y) = Flip(Momentum(x))
  BY <1>1, <1>2, TopIs DEF Flip, Opposite, Decide, Momentum
<1>4. \A d \in {"BUY", "SELL"} : Strength("momentum", y, Opposite(d)) = Strength("momentum", x, d)
  BY <1>1, <1>2, SnapshotAssumption DEF Balanced, Strength, Opposite, Dist
<1>5. \A d \in {"BUY", "SELL"} : Agree(y, Opposite(d) = "BUY") = Agree(x, d = "BUY")
  BY <1>1, <1>2, AgreeMirrors, TopIs
<1>6. Momentum(x) \in {"BUY", "SELL", "none"}
  BY DEF Momentum, Decide
<1>7. QED BY <1>3, <1>4, <1>5, <1>6 DEF Mirrors, Direction, y

\* Of a band of some width a close can touch one edge only: without it the long side would
\* answer for both.
LEMMA MeanReversionMirrors ==
  ASSUME Balanced, NEW x \in Inputs("mean_reversion"), ~ZeroWidth(x)
  PROVE  Mirrors("mean_reversion", x)
<1> DEFINE y == Mirror(x)
<1>1. /\ DOMAIN x = {"close", "bbLower", "bbUpper", "rsi"}
      /\ {x.close, x.bbLower, x.bbUpper, x.rsi} \subseteq Int /\ x.bbLower <= x.bbUpper
  BY SnapshotAssumption DEF Inputs, Rungs, Sg, Lev
<1>2. /\ y.close = Top - x.close /\ y.bbLower = Top - x.bbUpper /\ y.bbUpper = Top - x.bbLower
      /\ y.rsi = -x.rsi /\ DOMAIN y = DOMAIN x
  BY <1>1, SnapshotAssumption DEF Mirror, Partner, PriceFields, Signed, Flags
<1> HIDE DEF y
<1>0. x.bbLower < x.bbUpper
  BY <1>1 DEF ZeroWidth
<1>3. MeanReversion(y) = Flip(MeanReversion(x))
  BY <1>0, <1>1, <1>2, TopIs DEF Flip, Opposite, Decide, MeanReversion
<1>4. \A d \in {"BUY", "SELL"} : Strength("mean_reversion", y, Opposite(d)) = Strength("mean_reversion", x, d)
  BY <1>1, <1>2, SnapshotAssumption DEF Balanced, Strength, Opposite, Dist
<1>5. \A d \in {"BUY", "SELL"} : Agree(y, Opposite(d) = "BUY") = Agree(x, d = "BUY")
  BY <1>1, <1>2, AgreeMirrors, TopIs
<1>6. MeanReversion(x) \in {"BUY", "SELL", "none"}
  BY DEF MeanReversion, Decide
<1>7. QED BY <1>3, <1>4, <1>5, <1>6 DEF Mirrors, Direction, y

\* A squeeze left upwards mirrors to one left downwards.
LEMMA SqueezeBreakoutMirrors ==
  ASSUME Balanced, NEW x \in Inputs("breakout")
  PROVE  Mirrors("breakout", x)
<1> DEFINE y == Mirror(x)
<1>1. /\ DOMAIN x = {"close", "bbLower", "bbUpper", "squeeze"}
      /\ {x.close, x.bbLower, x.bbUpper} \subseteq Int /\ x.squeeze \in BOOLEAN
      /\ x.bbLower <= x.bbUpper
  BY SnapshotAssumption DEF Inputs, Rungs, Sg, Lev
<1>2. /\ y.close = Top - x.close /\ y.bbLower = Top - x.bbUpper /\ y.bbUpper = Top - x.bbLower
      /\ y.squeeze = x.squeeze /\ DOMAIN y = DOMAIN x
  BY <1>1, SnapshotAssumption DEF Mirror, Partner, PriceFields, Signed, Flags
<1> HIDE DEF y
<1>3. SqueezeBreakout(y) = Flip(SqueezeBreakout(x))
  BY <1>1, <1>2, TopIs DEF Flip, Opposite, Decide, SqueezeBreakout
<1>4. \A d \in {"BUY", "SELL"} : Strength("breakout", y, Opposite(d)) = Strength("breakout", x, d)
  BY <1>1, <1>2, SnapshotAssumption DEF Balanced, Strength, Opposite, Dist
<1>5. \A d \in {"BUY", "SELL"} : Agree(y, Opposite(d) = "BUY") = Agree(x, d = "BUY")
  BY <1>1, <1>2, AgreeMirrors, TopIs
<1>6. SqueezeBreakout(x) \in {"BUY", "SELL", "none"}
  BY DEF SqueezeBreakout, Decide
<1>7. QED BY <1>3, <1>4, <1>5, <1>6 DEF Mirrors, Direction, y

\* The directional indicators change places, and so do the sides that agree with them.
LEMMA TrendFollowingMirrors ==
  ASSUME Balanced, NEW x \in Inputs("trend_following")
  PROVE  Mirrors("trend_following", x)
<1> DEFINE y == Mirror(x)
<1>1. /\ DOMAIN x = {"close", "ema20", "adx", "plusDi", "minusDi"}
      /\ {x.close, x.ema20, x.adx, x.plusDi, x.minusDi} \subseteq Int
  BY SnapshotAssumption DEF Inputs, Rungs, Sg, Lev
<1>2. /\ y.close = Top - x.close /\ y.ema20 = Top - x.ema20 /\ y.adx = x.adx
      /\ y.plusDi = x.minusDi /\ y.minusDi = x.plusDi /\ DOMAIN y = DOMAIN x
  BY <1>1, SnapshotAssumption DEF Mirror, Partner, PriceFields, Signed, Flags
<1> HIDE DEF y
<1>3. TrendFollowing(y) = Flip(TrendFollowing(x))
  BY <1>1, <1>2, TopIs DEF Flip, Opposite, Decide, TrendFollowing
<1>4. \A d \in {"BUY", "SELL"} : Strength("trend_following", y, Opposite(d)) = Strength("trend_following", x, d)
  BY <1>1, <1>2, SnapshotAssumption DEF Balanced, Strength, Opposite, Dist
<1>5. \A d \in {"BUY", "SELL"} : Agree(y, Opposite(d) = "BUY") = Agree(x, d = "BUY")
  BY <1>1, <1>2, AgreeMirrors, TopIs
<1>6. TrendFollowing(x) \in {"BUY", "SELL", "none"}
  BY DEF TrendFollowing, Decide
<1>7. QED BY <1>3, <1>4, <1>5, <1>6 DEF Mirrors, Direction, y

\* A turn of the Heiken-Ashi candles mirrors to the other turn.
LEMMA EmaHeikenAshiMirrors ==
  ASSUME Balanced, NEW x \in Inputs("ema_heiken_ashi_rsi")
  PROVE  Mirrors("ema_heiken_ashi_rsi", x)
<1> DEFINE y == Mirror(x)
<1>1. /\ DOMAIN x = {"close", "ema20", "rsi", "adx", "ha", "haPrev"}
      /\ {x.close, x.ema20, x.rsi, x.adx} \subseteq Int /\ x.ha \in BOOLEAN
      /\ x.haPrev \in BOOLEAN
  BY SnapshotAssumption DEF Inputs, Rungs, Sg, Lev
<1>2. /\ y.close = Top - x.close /\ y.ema20 = Top - x.ema20 /\ y.rsi = -x.rsi /\ y.adx = x.adx
      /\ (y.ha <=> ~x.ha) /\ (y.haPrev <=> ~x.haPrev) /\ DOMAIN y = DOMAIN x
  BY <1>1, SnapshotAssumption DEF Mirror, Partner, PriceFields, Signed, Flags
<1> HIDE DEF y
<1>3. EmaHeikenAshi(y) = Flip(EmaHeikenAshi(x))
  BY <1>1, <1>2, TopIs DEF Flip, Opposite, Decide, EmaHeikenAshi
<1>4. \A d \in {"BUY", "SELL"} : Strength("ema_heiken_ashi_rsi", y, Opposite(d)) = Strength("ema_heiken_ashi_rsi", x, d)
  BY <1>1, <1>2, SnapshotAssumption DEF Balanced, Strength, Opposite, Dist
<1>5. \A d \in {"BUY", "SELL"} : Agree(y, Opposite(d) = "BUY") = Agree(x, d = "BUY")
  BY <1>1, <1>2, AgreeMirrors, TopIs
<1>6. EmaHeikenAshi(x) \in {"BUY", "SELL", "none"}
  BY DEF EmaHeikenAshi, Decide
<1>7. QED BY <1>3, <1>4, <1>5, <1>6 DEF Mirrors, Direction, y

\* The fast and the slow average change their order, and the parabolic stop its side.
LEMMA EmaPsarMirrors ==
  ASSUME Balanced, NEW x \in Inputs("ema_psar")
  PROVE  Mirrors("ema_psar", x)
<1> DEFINE y == Mirror(x)
<1>1. /\ DOMAIN x = {"fast", "slow", "psarBullish"} /\ {x.fast, x.slow} \subseteq Int
      /\ x.psarBullish \in BOOLEAN
  BY SnapshotAssumption DEF Inputs, Rungs, Sg, Lev
<1>2. /\ y.fast = Top - x.fast /\ y.slow = Top - x.slow /\ (y.psarBullish <=> ~x.psarBullish)
      /\ DOMAIN y = DOMAIN x
  BY <1>1, SnapshotAssumption DEF Mirror, Partner, PriceFields, Signed, Flags
<1> HIDE DEF y
<1>3. EmaPsar(y) = Flip(EmaPsar(x))
  BY <1>1, <1>2, TopIs DEF Flip, Opposite, Decide, EmaPsar
<1>4. \A d \in {"BUY", "SELL"} : Strength("ema_psar", y, Opposite(d)) = Strength("ema_psar", x, d)
  BY <1>1, <1>2, SnapshotAssumption DEF Balanced, Strength, Opposite, Dist
<1>5. \A d \in {"BUY", "SELL"} : Agree(y, Opposite(d) = "BUY") = Agree(x, d = "BUY")
  BY <1>1, <1>2, AgreeMirrors, TopIs
<1>6. EmaPsar(x) \in {"BUY", "SELL", "none"}
  BY DEF EmaPsar, Decide
<1>7. QED BY <1>3, <1>4, <1>5, <1>6 DEF Mirrors, Direction, y

\* The channel index changes sign.
LEMMA EmaCciMirrors ==
  ASSUME Balanced, NEW x \in Inputs("ema_cci")
  PROVE  Mirrors("ema_cci", x)
<1> DEFINE y == Mirror(x)
<1>1. /\ DOMAIN x = {"close", "ema50", "cci"} /\ {x.close, x.ema50, x.cci} \subseteq Int
  BY SnapshotAssumption DEF Inputs, Rungs, Sg, Lev
<1>2. /\ y.close = Top - x.close /\ y.ema50 = Top - x.ema50 /\ y.cci = -x.cci
      /\ DOMAIN y = DOMAIN x
  BY <1>1, SnapshotAssumption DEF Mirror, Partner, PriceFields, Signed, Flags
<1> HIDE DEF y
<1>3. EmaCci(y) = Flip(EmaCci(x))
  BY <1>1, <1>2, TopIs DEF Flip, Opposite, Decide, EmaCci
<1>4. \A d \in {"BUY", "SELL"} : Strength("ema_cci", y, Opposite(d)) = Strength("ema_cci", x, d)
  BY <1>1, <1>2, SnapshotAssumption DEF Balanced, Strength, Opposite, Dist
<1>5. \A d \in {"BUY", "SELL"} : Agree(y, Opposite(d) = "BUY") = Agree(x, d = "BUY")
  BY <1>1, <1>2, AgreeMirrors, TopIs
<1>6. EmaCci(x) \in {"BUY", "SELL", "none"}
  BY DEF EmaCci, Decide
<1>7. QED BY <1>3, <1>4, <1>5, <1>6 DEF Mirrors, Direction, y

\* Every strategy that trades both ways says the opposite of the mirror image.
LEMMA EachMirrors ==
  ASSUME Balanced, NEW s \in Strategies, s # "ema_trend_confluence", NEW x \in Inputs(s),
         ~ZeroWidth(x)
  PROVE  Mirrors(s, x)
  BY EmaAdxTrendMirrors, DonchianBreakoutMirrors, VolumeProfileBreakoutMirrors,
     OpeningRangeBreakoutMirrors, TimeSeriesMomentumMirrors, TrendPullbackMirrors,
     SupertrendAdxEmaMirrors, MacdTrendContinuationMirrors, BollingerRsiMirrors,
     VwapMeanReversionMirrors, RelativeStrengthMirrors, MomentumMirrors, MeanReversionMirrors,
     SqueezeBreakoutMirrors, TrendFollowingMirrors, EmaHeikenAshiMirrors, EmaPsarMirrors,
     EmaCciMirrors DEF Strategies

\* A strategy buys, sells or says nothing.
LEMMA DirectionIs ==
  ASSUME NEW s \in Strategies, NEW x
  PROVE  Direction(s, x) \in {"BUY", "SELL", "none"}
<1>1. \A hi, lo : Breakout(x, hi, lo) \in {"BUY", "SELL", "none"}
  BY DEF Breakout, Decide
<1>2. QED BY <1>1 DEF Strategies, Direction, Decide, EmaAdxTrend, DonchianBreakout,
         VolumeProfileBreakout, OpeningRangeBreakout, TimeSeriesMomentum, TrendPullback,
         SupertrendAdxEma, MacdTrendContinuation, BollingerRsi, VwapMeanReversion,
         RelativeStrength, EmaTrendConfluence, Momentum, MeanReversion, SqueezeBreakout,
         TrendFollowing, EmaHeikenAshi, EmaPsar, EmaCci

\* What is signalled is what the strategy makes of the snapshot it was given.
SignalInv ==
    /\ strategy \in Strategies /\ ind \in Inputs(strategy)
    /\ signal \in {Silent, Signal(strategy, ind)}

\* So it is from the first candle on: evaluating neither moves the snapshot nor speaks twice.
LEMMA SignalInvHolds == TSpec => []SignalInv
<1>1. TInit => SignalInv
  BY DEF TInit, SignalInv
<1>2. SignalInv /\ [TNext]_tVars => SignalInv'
  BY DEF SignalInv, TNext, Evaluate, tVars
<1>3. QED BY <1>1, <1>2, PTL DEF TSpec

\* _create_signal sets stop and target of opposite directions on opposite sides.
LEMMA SignalsMirror ==
  ASSUME NEW s, NEW x, NEW y, NEW d \in {"BUY", "SELL"},
         Strength(s, y, Opposite(d)) = Strength(s, x, d),
         s \in Graded => Agree(y, Opposite(d) = "BUY") = Agree(x, d = "BUY")
  PROVE  LET a == CreateSignal(s, x, d)
             m == CreateSignal(s, y, Opposite(d))
         IN /\ m # Silent /\ a.side = d /\ m.side = Opposite(d)
            /\ m.strength = a.strength /\ m.unit = a.unit /\ m.agree = a.agree
            /\ m.stop = -a.stop /\ m.target = -a.target
<1> DEFINE a == CreateSignal(s, x, d)
           m == CreateSignal(s, y, Opposite(d))
<1>1. a.side = d /\ m.side = Opposite(d) /\ m.strength = a.strength /\ m.unit = a.unit
  BY DEF CreateSignal
<1>2. m.agree = a.agree
  BY DEF CreateSignal
<1>3. m.stop = -a.stop /\ m.target = -a.target
  <2> DEFINE g == IF d = "BUY" THEN 1 ELSE -1
             h == IF Opposite(d) = "BUY" THEN 1 ELSE -1
  <2>1. g \in Int /\ h = -g
    BY DEF Opposite
  <2>2. a.stop = -(2 * g) /\ a.target = 3 * g /\ m.stop = -(2 * h) /\ m.target = 3 * h
    BY DEF CreateSignal
  <2> HIDE DEF g, h, a, m
  <2>3. QED BY <2>1, <2>2
<1>4. m # Silent
  BY <1>1 DEF Silent, Opposite
<1>5. QED BY <1>1, <1>2, <1>3, <1>4

\* Both halves of every two-sided strategy are the same rule: for every snapshot and every
\* balanced setting of the thresholds, the mirror image of a market that is bought is sold,
\* with the same strength and the same agreement, stop and target on the other side.
THEOREM MarketsAreMirrored == ASSUME Balanced PROVE TSpec => []MirrorImage
<1>1. ASSUME SignalInv PROVE MirrorImage
  <2> DEFINE d == Direction(strategy, ind)
  <2>1. SUFFICES ASSUME signal # Silent, ~ZeroWidth(ind), strategy # "ema_trend_confluence"
                 PROVE  MirrorImage
    BY DEF MirrorImage
  <2>2. strategy \in Strategies /\ ind \in Inputs(strategy) /\ signal = Signal(strategy, ind)
    BY <1>1, <2>1 DEF SignalInv
  <2>3. d \in {"BUY", "SELL"} /\ signal = CreateSignal(strategy, ind, d)
    BY <2>1, <2>2, DirectionIs DEF Signal
  <2>4. Mirrors(strategy, ind)
    BY <2>1, <2>2, EachMirrors
  <2>5. Signal(strategy, Mirror(ind)) = CreateSignal(strategy, Mirror(ind), Opposite(d))
    BY <2>3, <2>4 DEF Mirrors, Flip, Signal, Opposite
  <2>6. QED BY <2>3, <2>4, <2>5, SignalsMirror DEF MirrorImage, Mirrors
<1>2. QED BY <1>1, SignalInvHolds, PTL

-----------------------------------------------------------------------------
(* The series and its indicators (BarIndicators).                          *)

\* One entry of the indicator cache.
CacheEntries == [key : Nat \X {b.close : b \in Bars}, frame : Seq(Bars)]

\* The close of bar b lies beyond the level of event e, on the side where its zone breaks.
Past(e, b) == IF e.resistance THEN b.close > e.level ELSE b.close < e.level

\* What the reaction e to the last bar of frame f, with off bars before it, rests on: a
\* pivot confirmed before that bar, and the closes since its confirmation.
Rests(e, f, off) ==
    /\ e.resistance \in BOOLEAN /\ e.kind \in {"break", "retest", "reject"}
    /\ e.at = Len(f) + off /\ e.bar - off \in Confirmed(f) /\ e.bar \in Int
    /\ e.kind = "break" => Past(e, f[Len(f)])
    /\ e.kind = "retest" => \E k \in Elapsed(f, e.bar - off) : Past(e, f[k])
    /\ e.kind # "retest" => \A k \in Elapsed(f, e.bar - off) : ~Past(e, f[k])

\* The same, of the whole series: kept since bars are only added to it.
Since(e) == (e.bar + PivotLen)..(e.at - 1)
Founded(e, bs) ==
    /\ e.resistance \in BOOLEAN /\ e.kind \in {"break", "retest", "reject"}
    /\ e.at \in 1..Len(bs) /\ e.bar \in Nat \ {0} /\ e.bar + PivotLen < e.at
    /\ e.kind = "break" => Past(e, bs[e.at])
    /\ e.kind = "retest" => \E k \in Since(e) : Past(e, bs[k])
    /\ e.kind # "retest" => \A k \in Since(e) : ~Past(e, bs[k])

SeriesTypes ==
    /\ bars \in Seq(Bars) /\ corrected \in BOOLEAN
    /\ cached \in Seq(CacheEntries) /\ given \in Seq(Bars)

\* A cached frame is the one that was the newest when its last bar settled.
Genuine(c, bs) ==
    \E n \in 1..Len(bs) : c.key = <<n, bs[n].close>> /\ c.frame = Frame(SubSeq(bs, 1, n))

SeriesInv ==
    /\ SeriesTypes
    /\ ~corrected => /\ \A i \in DOMAIN cached : Genuine(cached[i], bars)
                     /\ given = <<>> \/ given = Frame(bars)
                     /\ events \in Seq(Range(events))
                     /\ \A k \in DOMAIN events : Founded(events[k], bars)

\* A frame is the end of the series.
LEMMA FrameIs ==
    ASSUME NEW bs \in Seq(Bars)
    PROVE  /\ Frame(bs) \in Seq(Bars) /\ Len(bs) - Len(Frame(bs)) \in Nat
           /\ \A k \in 1..Len(Frame(bs)) : Frame(bs)[k] = bs[k + (Len(bs) - Len(Frame(bs)))]
  <1>1. FrameBars \in Nat \ {0} /\ Len(bs) \in Nat
    BY SeriesAssumption
  <1>2. CASE Len(bs) <= FrameBars
    <2>1. Frame(bs) = bs
      BY <1>2 DEF Frame
    <2> QED BY <1>1, <2>1
  <1>3. CASE ~(Len(bs) <= FrameBars)
    <2> DEFINE o == Len(bs) - FrameBars
    <2>1. Frame(bs) = SubSeq(bs, o + 1, Len(bs)) /\ o \in Nat
      BY <1>1, <1>3 DEF Frame
    <2>2. Len(Frame(bs)) = FrameBars
      BY <1>1, <2>1
    <2> QED BY <1>1, <2>1, <2>2
  <1> QED BY <1>2, <1>3

\* A finite set of numbers that is not empty has a least one and a greatest one.
LEMMA EndsOf ==
    ASSUME NEW S \in SUBSET Int, IsFiniteSet(S), S # {}
    PROVE  (\E m \in S : \A x \in S : m >= x) /\ (\E m \in S : \A x \in S : m <= x)
  <1> DEFINE Ends(G) == (\E m \in G : \A x \in G : m >= x) /\ (\E m \in G : \A x \in G : m <= x)
             Bad == {G \in SUBSET S : G # {} /\ ~Ends(G)}
  <1>1. IsWellFoundedOn(StrictSubsetOrdering(S), SUBSET S)
    BY FS_StrictSubsetOrderingWellFounded, FS_FiniteSubsetsOfFinite
  <1>2. Bad = {}
    <2> SUFFICES ASSUME Bad # {} PROVE FALSE
      OBVIOUS
    <2>0. Bad \subseteq SUBSET S
      OBVIOUS
    <2>1. PICK G \in Bad : \A H \in Bad : <<H, G>> \notin StrictSubsetOrdering(S)
      <3> HIDE DEF Bad
      <3> QED BY <1>1, <2>0, WFMin
    <2>2. PICK g \in G : TRUE
      OBVIOUS
    <2>3. G \ {g} \notin Bad /\ G \subseteq Int
      BY <2>1, <2>2 DEF StrictSubsetOrdering
    <2>4. CASE G \ {g} = {}
      BY <2>2, <2>3, <2>4
    <2>5. CASE G \ {g} # {}
      <3>1. PICK m \in G \ {g} : \A x \in G \ {g} : m >= x
        BY <2>3, <2>5
      <3>2. PICK n \in G \ {g} : \A x \in G \ {g} : n <= x
        BY <2>3, <2>5
      <3>3. \E k \in G : \A x \in G : k >= x
        <4>1. CASE m >= g
          BY <2>3, <3>1, <4>1
        <4>2. CASE g > m
          BY <2>2, <2>3, <3>1, <4>2
        <4> QED BY <2>2, <2>3, <3>1, <4>1, <4>2
      <3>4. \E k \in G : \A x \in G : k <= x
        <4>1. CASE n <= g
          BY <2>3, <3>2, <4>1
        <4>2. CASE g < n
          BY <2>2, <2>3, <3>2, <4>2
        <4> QED BY <2>2, <2>3, <3>2, <4>1, <4>2
      <3> QED BY <3>3, <3>4
    <2> QED BY <2>4, <2>5
  <1> QED BY <1>2

\* A set of positions that is not empty has a last one.
LEMMA LastOf ==
    ASSUME NEW a \in Int, NEW b \in Int, NEW S \in SUBSET (a..b), S # {}
    PROVE  Max(S) \in S
  <1>1. IsFiniteSet(S) /\ S \in SUBSET Int
    <2>1. IsFiniteSet(a..b) /\ a..b \subseteq Int
      BY FS_Interval
    <2> QED BY <2>1, FS_Subset
  <1>2. \E m \in S : \A x \in S : m >= x
    BY <1>1, EndsOf
  <1> QED BY <1>2 DEF Max

\* The zones of a frame stand on its last confirmed pivots.
LEMMA ZonesAre ==
    ASSUME NEW f \in Seq(Bars)
    PROVE  /\ Resistance(f) # NoZone =>
                 /\ Resistance(f).bar \in Confirmed(f) /\ Resistance(f).broken \in BOOLEAN
                 /\ Resistance(f).broken <=>
                       \E k \in Elapsed(f, Resistance(f).bar) : f[k].close > Resistance(f).top
           /\ Support(f) # NoZone =>
                 /\ Support(f).bar \in Confirmed(f) /\ Support(f).broken \in BOOLEAN
                 /\ Support(f).broken <=>
                       \E k \in Elapsed(f, Support(f).bar) : f[k].close < Support(f).bottom
  <1>1. PivotLen + 1 \in Int /\ Len(f) - 1 - PivotLen \in Int
    BY SeriesAssumption
  <1>2. ASSUME Peaks(f) # {}
        PROVE  Max(Peaks(f)) \in Confirmed(f)
    <2>1. Peaks(f) \in SUBSET ((PivotLen + 1)..(Len(f) - 1 - PivotLen))
      BY DEF Peaks, Confirmed
    <2> QED BY <1>1, <1>2, <2>1, LastOf DEF Confirmed
  <1>3. ASSUME Troughs(f) # {}
        PROVE  Max(Troughs(f)) \in Confirmed(f)
    <2>1. Troughs(f) \in SUBSET ((PivotLen + 1)..(Len(f) - 1 - PivotLen))
      BY DEF Troughs, Confirmed
    <2> QED BY <1>1, <1>3, <2>1, LastOf DEF Confirmed
  <1>4. Peaks(f) = {} => Resistance(f) = NoZone
    BY DEF Resistance
  <1>5. Troughs(f) = {} => Support(f) = NoZone
    BY DEF Support
  <1>6. ASSUME Peaks(f) # {}
        PROVE  /\ Resistance(f).bar = Max(Peaks(f)) /\ Resistance(f).broken \in BOOLEAN
               /\ Resistance(f).broken <=>
                     \E k \in Elapsed(f, Max(Peaks(f))) : f[k].close > Resistance(f).top
    BY <1>6 DEF Resistance
  <1>7. ASSUME Troughs(f) # {}
        PROVE  /\ Support(f).bar = Max(Troughs(f)) /\ Support(f).broken \in BOOLEAN
               /\ Support(f).broken <=>
                     \E k \in Elapsed(f, Max(Troughs(f))) : f[k].close < Support(f).bottom
    BY <1>7 DEF Support
  <1>8. ASSUME Resistance(f) # NoZone
        PROVE  /\ Resistance(f).bar \in Confirmed(f) /\ Resistance(f).broken \in BOOLEAN
               /\ Resistance(f).broken <=>
                     \E k \in Elapsed(f, Resistance(f).bar) : f[k].close > Resistance(f).top
    BY <1>2, <1>4, <1>6, <1>8
  <1>9. ASSUME Support(f) # NoZone
        PROVE  /\ Support(f).bar \in Confirmed(f) /\ Support(f).broken \in BOOLEAN
               /\ Support(f).broken <=>
                     \E k \in Elapsed(f, Support(f).bar) : f[k].close < Support(f).bottom
    BY <1>3, <1>5, <1>7, <1>9
  <1> QED BY <1>8, <1>9

\* What is signalled on the last bar of a frame rests on its closes.
LEMMA ReactionRests ==
    ASSUME NEW f \in Seq(Bars), NEW off \in Nat
    PROVE  \/ Reaction(f, off) = <<>>
           \/ \E e : Reaction(f, off) = <<e>> /\ Rests(e, f, off)
  <1> DEFINE r == Resistance(f)
             s == Support(f)
             kr == ReactionR(f, r)
             ks == ReactionS(f, s)
             er == [kind |-> kr, bar |-> r.bar + off, resistance |-> TRUE, level |-> r.top,
                    at |-> Len(f) + off, side |-> Side(kr, TRUE)]
             es == [kind |-> ks, bar |-> s.bar + off, resistance |-> FALSE, level |-> s.bottom,
                    at |-> Len(f) + off, side |-> Side(ks, FALSE)]
  <1>1. ASSUME kr # "none"
        PROVE  Rests(er, f, off)
    <2>1. r # NoZone
      BY <1>1 DEF ReactionR
    <2>2. /\ r.bar \in Confirmed(f) /\ r.broken \in BOOLEAN
          /\ r.broken <=> \E k \in Elapsed(f, r.bar) : f[k].close > r.top
      BY <2>1, ZonesAre
    <2>3. /\ kr \in {"break", "retest", "reject"} /\ (kr = "retest") = r.broken
          /\ kr = "break" => f[Len(f)].close > r.top
      <3> HIDE DEF r
      <3> QED BY <1>1, <2>1, <2>2 DEF ReactionR
    <2>4. r.bar \in Int /\ (r.bar + off) - off = r.bar
      BY <2>2, SeriesAssumption DEF Confirmed
    <2> HIDE DEF r, kr
    <2>5. /\ er.kind = kr /\ er.bar = r.bar + off /\ er.resistance = TRUE /\ er.level = r.top
          /\ er.at = Len(f) + off
      OBVIOUS
    <2>6. \A b : Past(er, b) <=> b.close > r.top
      BY <2>5 DEF Past
    <2> HIDE DEF er
    <2>7. er.bar - off = r.bar /\ er.bar \in Int
      BY <2>4, <2>5
    <2>8. er.bar - off \in Confirmed(f) /\ Elapsed(f, er.bar - off) = Elapsed(f, r.bar)
      BY <2>2, <2>7
    <2>9. kr = "break" => Past(er, f[Len(f)])
      BY <2>3, <2>6
    <2>10. kr = "retest" <=> \E k \in Elapsed(f, er.bar - off) : Past(er, f[k])
      BY <2>2, <2>3, <2>6, <2>8
    <2> QED BY <2>3, <2>5, <2>7, <2>8, <2>9, <2>10 DEF Rests
  <1>2. ASSUME ks # "none"
        PROVE  Rests(es, f, off)
    <2>1. s # NoZone
      BY <1>2 DEF ReactionS
    <2>2. /\ s.bar \in Confirmed(f) /\ s.broken \in BOOLEAN
          /\ s.broken <=> \E k \in Elapsed(f, s.bar) : f[k].close < s.bottom
      BY <2>1, ZonesAre
    <2>3. /\ ks \in {"break", "retest", "reject"} /\ (ks = "retest") = s.broken
          /\ ks = "break" => f[Len(f)].close < s.bottom
      <3> HIDE DEF s
      <3> QED BY <1>2, <2>1, <2>2 DEF ReactionS
    <2>4. s.bar \in Int /\ (s.bar + off) - off = s.bar
      BY <2>2, SeriesAssumption DEF Confirmed
    <2> HIDE DEF s, ks
    <2>5. /\ es.kind = ks /\ es.bar = s.bar + off /\ es.resistance = FALSE /\ es.level = s.bottom
          /\ es.at = Len(f) + off
      OBVIOUS
    <2>6. \A b : Past(es, b) <=> b.close < s.bottom
      BY <2>5 DEF Past
    <2> HIDE DEF es
    <2>7. es.bar - off = s.bar /\ es.bar \in Int
      BY <2>4, <2>5
    <2>8. es.bar - off \in Confirmed(f) /\ Elapsed(f, es.bar - off) = Elapsed(f, s.bar)
      BY <2>2, <2>7
    <2>9. ks = "break" => Past(es, f[Len(f)])
      BY <2>3, <2>6
    <2>10. ks = "retest" <=> \E k \in Elapsed(f, es.bar - off) : Past(es, f[k])
      BY <2>2, <2>3, <2>6, <2>8
    <2> QED BY <2>3, <2>5, <2>7, <2>8, <2>9, <2>10 DEF Rests
  <1>3. Reaction(f, off) = IF ~Enough(f) THEN <<>> ELSE IF kr # "none" THEN <<er>>
                           ELSE IF ks # "none" THEN <<es>> ELSE <<>>
    BY DEF Reaction
  <1> HIDE DEF kr, ks, er, es
  <1> QED BY <1>1, <1>2, <1>3

\* What a frame shows of its last bars is so in the whole series, ...
LEMMA RestsIsFounded ==
    ASSUME NEW bs \in Seq(Bars), NEW f, f = Frame(bs), NEW off, off = Len(bs) - Len(f),
           NEW e, Rests(e, f, off)
    PROVE  Founded(e, bs)
  <1>1. /\ f \in Seq(Bars) /\ off \in Nat /\ Len(f) \in Nat /\ Len(bs) \in Nat /\ PivotLen \in Nat
        /\ \A k \in 1..Len(f) : f[k] = bs[k + off]
    <2>1. /\ Frame(bs) \in Seq(Bars) /\ Len(bs) - Len(Frame(bs)) \in Nat
          /\ \A k \in 1..Len(Frame(bs)) : Frame(bs)[k] = bs[k + (Len(bs) - Len(Frame(bs)))]
      BY FrameIs
    <2>2. PivotLen \in Nat
      BY SeriesAssumption
    <2> QED BY <2>1, <2>2
  <1> DEFINE i == e.bar - off
  <1>2. i \in (PivotLen + 1)..(Len(f) - 1 - PivotLen) /\ e.bar \in Int /\ e.at = Len(f) + off
    BY DEF Rests, Confirmed
  <1>3. /\ e.at = Len(bs) /\ e.bar \in Nat \ {0} /\ e.bar + PivotLen < e.at /\ e.at \in 1..Len(bs)
        /\ Len(f) \in 1..Len(f)
    BY <1>1, <1>2
  <1>4. bs[e.at] = f[Len(f)]
    <2>1. f[Len(f)] = bs[Len(f) + off]
      BY <1>1, <1>3
    <2> QED BY <1>2, <2>1
  <1>5. ASSUME NEW k \in Elapsed(f, i)
        PROVE  k + off \in Since(e) /\ f[k] = bs[k + off]
    <2>1. k \in 1..Len(f) /\ k + off \in Since(e)
      BY <1>1, <1>2, <1>5 DEF Elapsed, Since
    <2> QED BY <1>1, <2>1
  <1>6. ASSUME NEW k \in Since(e)
        PROVE  k - off \in Elapsed(f, i) /\ f[k - off] = bs[k]
    <2>1. k - off \in Elapsed(f, i)
      BY <1>1, <1>2, <1>3, <1>6 DEF Elapsed, Since
    <2>2. k - off \in 1..Len(f) /\ (k - off) + off = k
      BY <1>1, <1>2, <1>3, <1>6 DEF Since
    <2> QED BY <1>1, <2>1, <2>2
  <1> HIDE DEF i
  <1>7. e.kind = "retest" => \E k \in Elapsed(f, i) : Past(e, f[k])
    BY DEF Rests, i
  <1>8. e.kind # "retest" => \A k \in Elapsed(f, i) : ~Past(e, f[k])
    BY DEF Rests, i
  <1>9. e.kind = "retest" => \E k \in Since(e) : Past(e, bs[k])
    BY <1>5, <1>7
  <1>10. e.kind # "retest" => \A k \in Since(e) : ~Past(e, bs[k])
    BY <1>6, <1>8
  <1>11. e.kind = "break" => Past(e, bs[e.at])
    BY <1>4 DEF Rests
  <1>12. e.resistance \in BOOLEAN /\ e.kind \in {"break", "retest", "reject"}
    BY DEF Rests
  <1> QED BY <1>3, <1>9, <1>10, <1>11, <1>12 DEF Founded

\* ... and stays so when a bar is added; a cached frame stays genuine.
LEMMA AddingKeeps ==
    ASSUME NEW bs \in Seq(Bars), NEW b \in Bars
    PROVE  /\ Append(bs, b) \in Seq(Bars)
           /\ \A e : Founded(e, bs) => Founded(e, Append(bs, b))
           /\ \A c : Genuine(c, bs) => Genuine(c, Append(bs, b))
  <1> DEFINE cs == Append(bs, b)
  <1>1. cs \in Seq(Bars) /\ Len(cs) = Len(bs) + 1 /\ Len(bs) \in Nat
    OBVIOUS
  <1>2. \A k \in 1..Len(bs) : cs[k] = bs[k]
    OBVIOUS
  <1>3. \A n \in 1..Len(bs) : SubSeq(cs, 1, n) = SubSeq(bs, 1, n)
    OBVIOUS
  <1> HIDE DEF cs
  <1>4. ASSUME NEW e, Founded(e, bs)
        PROVE  Founded(e, cs)
    <2>1. e.at \in 1..Len(bs) /\ e.bar \in Nat \ {0} /\ PivotLen \in Nat
      BY <1>4, SeriesAssumption DEF Founded
    <2>2. Since(e) \subseteq 1..Len(bs)
      <3>1. \A k \in Since(e) : k \in 1..Len(bs)
        BY <1>1, <2>1 DEF Since
      <3> QED BY <3>1
    <2>3. e.at \in 1..Len(cs) /\ cs[e.at] = bs[e.at] /\ \A k \in Since(e) : cs[k] = bs[k]
      BY <1>1, <1>2, <2>1, <2>2
    <2> QED BY <1>4, <2>3 DEF Founded
  <1>5. ASSUME NEW c, Genuine(c, bs)
        PROVE  Genuine(c, cs)
    <2>1. PICK n \in 1..Len(bs) : c.key = <<n, bs[n].close>> /\ c.frame = Frame(SubSeq(bs, 1, n))
      BY <1>5 DEF Genuine
    <2>2. n \in 1..Len(cs)
      BY <1>1
    <2> QED BY <1>2, <1>3, <2>1, <2>2 DEF Genuine
  <1> QED BY <1>1, <1>4, <1>5 DEF cs

\* The cache remembers what it held or the frame it was asked for.
LEMMA RememberIs ==
    ASSUME SeriesTypes, NEW bs \in Seq(Bars), bs # <<>>
    PROVE  /\ Answer(bs) \in Seq(Bars) /\ Remember(bs) \in Seq(CacheEntries)
           /\ Hits(bs) = {} => Answer(bs) = Frame(bs)
           /\ \A i \in Hits(bs) : \E j \in DOMAIN cached : cached[j].key = Key(bs) /\ Answer(bs) = cached[j].frame
           /\ \A i \in DOMAIN Remember(bs) :
                 \/ Remember(bs)[i] = [key |-> Key(bs), frame |-> Frame(bs)]
                 \/ \E j \in DOMAIN cached : Remember(bs)[i] = cached[j]
  <1> DEFINE new == [key |-> Key(bs), frame |-> Frame(bs)]
  <1>1. cached \in Seq(CacheEntries) /\ Len(cached) \in Nat /\ DOMAIN cached = 1..Len(cached)
    BY DEF SeriesTypes
  <1>2. new \in CacheEntries
    <2>1. Len(bs) \in Nat /\ Len(bs) # 0 /\ bs[Len(bs)] \in Bars
      OBVIOUS
    <2>2. Frame(bs) \in Seq(Bars)
      BY FrameIs
    <2> QED BY <2>1, <2>2 DEF Key, CacheEntries
  <1> HIDE DEF new
  <1>3. CASE Hits(bs) = {}
    <2> DEFINE all == Append(cached, new)
    <2>1. /\ all \in Seq(CacheEntries) /\ Len(all) = Len(cached) + 1
          /\ \A i \in 1..Len(all) : all[i] = new \/ \E j \in DOMAIN cached : all[i] = cached[j]
      BY <1>1, <1>2
    <2>2. /\ Tail(all) \in Seq(CacheEntries)
          /\ \A i \in DOMAIN Tail(all) : i + 1 \in 1..Len(all) /\ Tail(all)[i] = all[i + 1]
      BY <1>1, <2>1
    <2>3. Remember(bs) = IF Len(all) > MaxCached THEN Tail(all) ELSE all
      BY <1>3 DEF Remember, new
    <2>4. Answer(bs) = Frame(bs) /\ Frame(bs) \in Seq(Bars)
      BY <1>3, FrameIs DEF Answer
    <2> HIDE DEF all
    <2>5. /\ Remember(bs) \in Seq(CacheEntries)
          /\ \A i \in DOMAIN Remember(bs) : \E k \in 1..Len(all) : Remember(bs)[i] = all[k]
      <3>1. CASE Len(all) > MaxCached
        BY <2>2, <2>3, <3>1
      <3>2. CASE ~(Len(all) > MaxCached)
        BY <2>1, <2>3, <3>2
      <3> QED BY <3>1, <3>2
    <2> QED BY <1>3, <2>1, <2>4, <2>5 DEF new
  <1>4. CASE Hits(bs) # {}
    <2> DEFINE i == CHOOSE i \in Hits(bs) : TRUE
               old == RemoveAt(cached, i)
    <2>1. i \in Hits(bs) /\ i \in 1..Len(cached) /\ cached[i].key = Key(bs)
      BY <1>1, <1>4 DEF Hits
    <2>2. Remember(bs) = Append(old, cached[i]) /\ Answer(bs) = cached[i].frame
      BY <1>4 DEF Remember, Answer
    <2> HIDE DEF i
    <2>3. /\ old \in Seq(CacheEntries) /\ Len(old) = Len(cached) - 1
          /\ \A k \in 1..Len(old) : k \in 1..Len(cached) /\ k + 1 \in 1..Len(cached)
                                    /\ old[k] \in {cached[k], cached[k + 1]}
      <3> DEFINE p == SubSeq(cached, 1, i - 1)
                 q == SubSeq(cached, i + 1, Len(cached))
      <3>1. /\ p \in Seq(CacheEntries) /\ Len(p) = i - 1
            /\ \A k \in 1..(i - 1) : p[k] = cached[k]
        BY <1>1, <2>1
      <3>2. /\ q \in Seq(CacheEntries) /\ Len(q) = Len(cached) - i
            /\ \A k \in 1..(Len(cached) - i) : q[k] = cached[k + i]
        <4>1. q \in Seq(CacheEntries) /\ Len(q) = Len(cached) - i
          <5>1. i + 1 \in Int /\ i + 1 >= 1 /\ i + 1 <= Len(cached) + 1
            BY <1>1, <2>1
          <5>2. \A k \in (i + 1)..Len(cached) : cached[k] \in CacheEntries
            BY <1>1, <2>1
          <5>3. Len(q) = IF i + 1 <= Len(cached) THEN Len(cached) - (i + 1) + 1 ELSE 0
            BY <1>1, <5>1
          <5>4. q \in Seq(CacheEntries)
            BY <1>1, <5>1, <5>2
          <5> HIDE DEF q
          <5>5. Len(q) = Len(cached) - i
            <6>1. i \in Int /\ Len(cached) \in Int /\ i <= Len(cached)
              BY <1>1, <2>1
            <6>2. i + 1 <= Len(cached) => Len(q) = Len(cached) - i
              BY <5>3, <6>1
            <6>3. ~(i + 1 <= Len(cached)) => Len(q) = Len(cached) - i
              BY <5>3, <6>1
            <6> QED BY <6>2, <6>3
          <5> QED BY <5>4, <5>5
        <4>2. ASSUME NEW k \in 1..(Len(cached) - i)
              PROVE  q[k] = cached[k + i]
          <5>1. i + 1 + k - 1 = k + i /\ k \in 1..(Len(cached) - (i + 1) + 1)
            BY <1>1, <2>1
          <5>2. q[k] = cached[i + 1 + k - 1]
            BY <1>1, <2>1, <5>1
          <5> QED BY <5>1, <5>2
        <4> QED BY <4>1, <4>2
      <3>3. old = p \o q
        BY DEF RemoveAt
      <3> HIDE DEF p, q, old
      <3>4. /\ old \in Seq(CacheEntries) /\ Len(old) = Len(p) + Len(q)
            /\ \A k \in 1..Len(old) : old[k] = IF k <= Len(p) THEN p[k] ELSE q[k - Len(p)]
        <4>1. p \in Seq(CacheEntries) /\ q \in Seq(CacheEntries)
          BY <3>1, <3>2
        <4> QED BY <3>3, <4>1
      <3>5. ASSUME NEW k \in 1..Len(old)
            PROVE  old[k] \in {cached[k], cached[k + 1]}
        <4>1. CASE k <= Len(p)
          BY <1>1, <2>1, <3>1, <3>4, <4>1
        <4>2. CASE ~(k <= Len(p))
          <5>1. k - Len(p) \in 1..(Len(cached) - i) /\ (k - Len(p)) + i = k + 1
            BY <1>1, <2>1, <3>1, <3>2, <3>4, <4>2
          <5> QED BY <3>2, <3>4, <4>2, <5>1
        <4> QED BY <4>1, <4>2
      <3> QED BY <1>1, <2>1, <3>1, <3>2, <3>4, <3>5
    <2>4. cached[i] \in CacheEntries
      BY <1>1, <2>1
    <2> HIDE DEF old
    <2>5. /\ Remember(bs) \in Seq(CacheEntries)
          /\ \A k \in DOMAIN Remember(bs) : \E j \in DOMAIN cached : Remember(bs)[k] = cached[j]
      <3>1. Remember(bs) \in Seq(CacheEntries) /\ DOMAIN Remember(bs) = 1..(Len(old) + 1)
        BY <2>2, <2>3, <2>4
      <3>2. Remember(bs)[Len(old) + 1] = cached[i]
        BY <2>2, <2>3, <2>4
      <3>3. ASSUME NEW k \in 1..Len(old)
            PROVE  Remember(bs)[k] = old[k]
        BY <2>2, <2>3, <2>4
      <3>4. ASSUME NEW k \in 1..(Len(old) + 1)
            PROVE  \E j \in DOMAIN cached : Remember(bs)[k] = cached[j]
        <4>0. Len(old) \in Int
          BY <1>1, <2>3
        <4>1. k \in 1..Len(old) \/ k = Len(old) + 1
          BY <3>4, <4>0
        <4> QED BY <1>1, <2>1, <2>3, <3>2, <3>3, <4>1
      <3> QED BY <3>1, <3>4
    <2>6. Answer(bs) \in Seq(Bars)
      BY <2>2, <2>4 DEF CacheEntries
    <2> QED BY <1>1, <1>4, <2>1, <2>2, <2>5, <2>6
  <1> QED BY <1>3, <1>4

\* The newest frame is genuine, and so is what the cache has after it was asked.
LEMMA RecallIs ==
    ASSUME SeriesTypes, NEW bs \in Seq(Bars), bs # <<>>, \A i \in DOMAIN cached : Genuine(cached[i], bs)
    PROVE  /\ Answer(bs) = Frame(bs)
           /\ \A i \in DOMAIN Remember(bs) : Genuine(Remember(bs)[i], bs)
  <1>1. Len(bs) \in 1..Len(bs) /\ SubSeq(bs, 1, Len(bs)) = bs
    OBVIOUS
  <1>2. Genuine([key |-> Key(bs), frame |-> Frame(bs)], bs)
    BY <1>1 DEF Genuine, Key
  <1>3. ASSUME NEW j \in DOMAIN cached, cached[j].key = Key(bs)
        PROVE  cached[j].frame = Frame(bs)
    <2>1. PICK n \in 1..Len(bs) : cached[j].key = <<n, bs[n].close>> /\ cached[j].frame = Frame(SubSeq(bs, 1, n))
      BY DEF Genuine
    <2>2. n = Len(bs)
      BY <1>3, <2>1 DEF Key
    <2> QED BY <1>1, <2>1, <2>2
  <1>4. Answer(bs) = Frame(bs)
    <2>1. CASE Hits(bs) = {}
      BY <2>1, RememberIs
    <2>2. CASE Hits(bs) # {}
      BY <1>3, <2>2, RememberIs
    <2> QED BY <2>1, <2>2
  <1>5. \A i \in DOMAIN Remember(bs) : Genuine(Remember(bs)[i], bs)
    BY <1>2, RememberIs
  <1> QED BY <1>4, <1>5

\* A bar settles.
LEMMA SettleStep ==
    ASSUME SeriesInv, Settle
    PROVE  SeriesInv'
  <1>1. PICK b \in Bars :
           /\ bars' = Append(bars, b) /\ cached' = Remember(Append(bars, b))
           /\ given' = Answer(Append(bars, b)) /\ corrected' = corrected
           /\ events' = events \o Reaction(Answer(Append(bars, b)),
                                           Len(Append(bars, b)) - Len(Answer(Append(bars, b))))
    BY DEF Settle, Recall
  <1> DEFINE bs == Append(bars, b)
             off == Len(bs) - Len(Frame(bs))
             new == Reaction(Frame(bs), off)
  <1>2. SeriesTypes /\ bars \in Seq(Bars)
    BY DEF SeriesInv, SeriesTypes
  <1>3. /\ bs \in Seq(Bars) /\ bs # <<>>
        /\ \A e : Founded(e, bars) => Founded(e, bs)
        /\ \A c : Genuine(c, bars) => Genuine(c, bs)
    BY <1>2, AddingKeeps
  <1>4. bars' = bs /\ cached' = Remember(bs) /\ given' = Answer(bs)
    BY <1>1
  <1>5. events' = events \o Reaction(Answer(bs), Len(bs) - Len(Answer(bs)))
    BY <1>1
  <1> HIDE DEF bs
  <1>6. SeriesTypes'
    <2>1. Answer(bs) \in Seq(Bars) /\ Remember(bs) \in Seq(CacheEntries)
      BY <1>2, <1>3, RememberIs
    <2> QED BY <1>1, <1>2, <1>3, <1>4, <2>1 DEF SeriesTypes
  <1>7. ASSUME ~corrected
        PROVE  /\ \A i \in DOMAIN cached' : Genuine(cached'[i], bars')
               /\ given' = Frame(bars')
               /\ events' \in Seq(Range(events'))
               /\ \A k \in DOMAIN events' : Founded(events'[k], bars')
    <2>1. /\ \A i \in DOMAIN cached : Genuine(cached[i], bs)
          /\ \A k \in DOMAIN events : Founded(events[k], bs)
          /\ events \in Seq(Range(events))
      BY <1>3, <1>7 DEF SeriesInv
    <2>2. /\ Answer(bs) = Frame(bs)
          /\ \A i \in DOMAIN Remember(bs) : Genuine(Remember(bs)[i], bs)
      BY <1>2, <1>3, <2>1, RecallIs
    <2>3. events' = events \o new
      BY <1>5, <2>2
    <2>4. new = <<>> \/ \E e : new = <<e>> /\ Founded(e, bs)
      <3>1. Frame(bs) \in Seq(Bars) /\ off \in Nat
        BY <1>3, FrameIs
      <3>2. new = <<>> \/ \E e : new = <<e>> /\ Rests(e, Frame(bs), off)
        BY <3>1, ReactionRests
      <3> QED BY <1>3, <3>2, RestsIsFounded
    <2> HIDE DEF new
    <2>5. /\ events' \in Seq(Range(events'))
          /\ \A k \in DOMAIN events' : Founded(events'[k], bs)
      <3>1. CASE new = <<>>
        <4>1. events' = events
          BY <2>1, <2>3, <3>1
        <4> QED BY <2>1, <4>1
      <3>2. ASSUME NEW e, new = <<e>>, Founded(e, bs)
            PROVE  <2>5
        <4> DEFINE T == Range(events) \cup {e}
        <4>1. events \in Seq(T) /\ <<e>> \in Seq(T)
          BY <2>1
        <4>2. /\ events' \in Seq(T) /\ Len(events') = Len(events) + 1 /\ Len(events) \in Nat
              /\ \A k \in 1..Len(events) : events'[k] = events[k]
              /\ events'[Len(events) + 1] = e
          BY <2>3, <3>2, <4>1
        <4> HIDE DEF T
        <4>3. ASSUME NEW k \in DOMAIN events'
              PROVE  Founded(events'[k], bs)
          <5>1. k \in 1..Len(events) \/ k = Len(events) + 1
            BY <4>2
          <5> QED BY <2>1, <3>2, <4>1, <4>2, <5>1
        <4>4. events' \in Seq(Range(events'))
          BY <4>2 DEF Range
        <4> QED BY <4>3, <4>4
      <3> QED BY <2>4, <3>1, <3>2
    <2> QED BY <1>4, <2>2, <2>5
  <1> QED BY <1>1, <1>6, <1>7 DEF SeriesInv

\* The series starts empty, with nothing told or cached.
LEMMA SeriesInit ==
    ASSUME BInit
    PROVE  SeriesInv
  <1>1. bars = <<>> /\ corrected = FALSE /\ events = <<>> /\ cached = <<>> /\ given = <<>>
    BY DEF BInit
  <1>2. SeriesTypes
    <2>1. <<>> \in Seq(Bars) /\ <<>> \in Seq(CacheEntries)
      OBVIOUS
    <2> QED BY <1>1, <2>1 DEF SeriesTypes
  <1>3. events \in Seq(Range(events)) /\ DOMAIN events = {} /\ DOMAIN cached = {}
    BY <1>1
  <1> QED BY <1>1, <1>2, <1>3 DEF SeriesInv

\* Every step of the series keeps its invariant.
LEMMA SeriesStep ==
    ASSUME SeriesInv, [BNext]_bVars
    PROVE  SeriesInv'
  <1>1. SeriesTypes
    BY DEF SeriesInv
  <1>2. CASE Settle
    BY <1>2, SettleStep
  <1>3. CASE Correct
    <2>1. /\ corrected' = TRUE /\ events' = events /\ cached' = cached /\ given' = given
          /\ \E i \in DOMAIN bars, b \in Bars : bars' = [bars EXCEPT ![i] = b]
      BY <1>3 DEF Correct
    <2>2. bars' \in Seq(Bars)
      BY <1>1, <2>1 DEF SeriesTypes
    <2> QED BY <1>1, <2>1, <2>2 DEF SeriesInv, SeriesTypes
  <1>4. CASE AskAgain
    <2>1. /\ bars # <<>> /\ bars' = bars /\ cached' = Remember(bars) /\ given' = Answer(bars)
          /\ corrected' = corrected /\ events' = events
      BY <1>4 DEF AskAgain, Recall
    <2>2. bars \in Seq(Bars)
      BY <1>1 DEF SeriesTypes
    <2>3. Answer(bars) \in Seq(Bars) /\ Remember(bars) \in Seq(CacheEntries)
      BY <1>1, <2>1, <2>2, RememberIs
    <2>4. SeriesTypes'
      BY <1>1, <2>1, <2>3 DEF SeriesTypes
    <2>5. ASSUME ~corrected
          PROVE  /\ \A i \in DOMAIN cached' : Genuine(cached'[i], bars')
                 /\ given' = Frame(bars')
      <3>1. \A i \in DOMAIN cached : Genuine(cached[i], bars)
        BY <2>5 DEF SeriesInv
      <3>2. /\ Answer(bars) = Frame(bars)
            /\ \A i \in DOMAIN Remember(bars) : Genuine(Remember(bars)[i], bars)
        BY <1>1, <2>1, <2>2, <3>1, RecallIs
      <3> QED BY <2>1, <3>2
    <2> QED BY <2>1, <2>4, <2>5 DEF SeriesInv
  <1>5. CASE UNCHANGED bVars
    BY <1>5 DEF bVars, SeriesInv, SeriesTypes
  <1> QED BY <1>2, <1>3, <1>4, <1>5 DEF BNext

\* What is told of a series is told once.
LEMMA SeriesInvMeans ==
    ASSUME SeriesInv
    PROVE  ZoneLivesOnce /\ FreshUnlessCorrected
  <1>1. FreshUnlessCorrected
    BY DEF SeriesInv, FreshUnlessCorrected
  <1>2. ZoneLivesOnce
    <2> SUFFICES ASSUME ~corrected, NEW k \in DOMAIN events
                 PROVE  LET e == events[k]
                        IN /\ e.bar + PivotLen < e.at
                           /\ e.kind \in {"break", "reject"} => Before(e, {"break", "retest"}) = {}
                           /\ e.kind = "retest" =>
                                 \E j \in (e.bar + PivotLen)..(e.at - 1) :
                                     IF e.resistance THEN bars[j].close > e.level
                                                     ELSE bars[j].close < e.level
      BY DEF ZoneLivesOnce
    <2> DEFINE e == events[k]
    <2>1. \A j \in DOMAIN events : Founded(events[j], bars)
      BY DEF SeriesInv
    <2>2. Founded(e, bars)
      BY <2>1
    <2> HIDE DEF e
    <2>3. e.kind = "retest" => \E j \in (e.bar + PivotLen)..(e.at - 1) :
                                     IF e.resistance THEN bars[j].close > e.level
                                                     ELSE bars[j].close < e.level
      BY <2>2 DEF Founded, Since, Past
    <2>4. ASSUME e.kind \in {"break", "reject"}, NEW j \in Before(e, {"break", "retest"})
          PROVE  FALSE
      <3> DEFINE d == events[j]
      <3>1. /\ d.at < e.at /\ d.kind \in {"break", "retest"} /\ d.bar = e.bar
            /\ d.resistance = e.resistance /\ d.level = e.level /\ j \in DOMAIN events
        BY <2>4 DEF Before
      <3>2. Founded(d, bars)
        BY <2>1, <3>1
      <3> HIDE DEF d
      <3>3. \A b : Past(d, b) <=> Past(e, b)
        BY <3>1 DEF Past
      <3>4. \A i \in Since(e) : ~Past(e, bars[i])
        BY <2>2, <2>4 DEF Founded
      <3>5. /\ e.at \in Nat /\ d.at \in Nat /\ e.bar \in Nat /\ PivotLen \in Nat
            /\ d.bar + PivotLen < d.at
        BY <2>2, <3>2, SeriesAssumption DEF Founded
      <3>6. d.at \in Since(e)
        BY <3>1, <3>5 DEF Since
      <3>7. Since(d) \subseteq Since(e)
        BY <3>1, <3>5 DEF Since
      <3>8. \E i \in Since(e) : Past(d, bars[i])
        BY <3>1, <3>2, <3>6, <3>7 DEF Founded
      <3> QED BY <3>3, <3>4, <3>8
    <2>5. e.bar + PivotLen < e.at
      BY <2>2 DEF Founded
    <2> QED BY <2>3, <2>4, <2>5 DEF e
  <1> QED BY <1>1, <1>2

-----------------------------------------------------------------------------
(* Sums over a finite set: the units of the positive numbers, less those   *)
(* of the negative ones, which the theorems on cardinalities can count.    *)

SumOver(f, s) == MapThenSumSet(LAMBDA i : f[i], s)

Heap(m, s) == {p \in s \X Nat : p[2] \in 1..m[p[1]]}
Gains(f) == [i \in DOMAIN f |-> IF f[i] > 0 THEN f[i] ELSE 0]
Losses(f) == [i \in DOMAIN f |-> IF f[i] > 0 THEN 0 ELSE 0 - f[i]]
Amount(f, s) == Cardinality(Heap(Gains(f), s)) - Cardinality(Heap(Losses(f), s))

\* What MapThenSumSet is defined by: g adds up f over every subset of S, one chosen
\* element at a time.
Adds(g, f, S) ==
    g = [s \in SUBSET S |-> IF s = {} THEN 0
                            ELSE LET x == CHOOSE x \in s : TRUE IN f[x] + g[s \ {x}]]

\* One element more adds its own units to a heap.
LEMMA HeapAdds ==
    ASSUME NEW S, IsFiniteSet(S), NEW m, \A i \in S : m[i] \in Nat, NEW x \in S
    PROVE  /\ IsFiniteSet(Heap(m, S)) /\ Cardinality(Heap(m, S)) \in Nat
           /\ Cardinality(Heap(m, S \ {x})) \in Nat
           /\ Cardinality(Heap(m, S)) = m[x] + Cardinality(Heap(m, S \ {x}))
  <1> DEFINE Own(i) == {i} \X (1..m[i])
  <1>1. ASSUME NEW i \in S
        PROVE  IsFiniteSet(Own(i)) /\ Cardinality(Own(i)) = m[i]
    <2>0. m[i] \in Nat
      OBVIOUS
    <2>1. IsFiniteSet(1..m[i]) /\ Cardinality(1..m[i]) = m[i]
      BY <2>0, FS_Interval
    <2>2. IsFiniteSet({i}) /\ Cardinality({i}) = 1
      BY FS_Singleton
    <2> QED BY <2>1, <2>2, FS_Product
  <1>2. ASSUME NEW U \in SUBSET S
        PROVE  IsFiniteSet(Heap(m, U)) /\ Cardinality(Heap(m, U)) \in Nat
    <2>1. IsFiniteSet(U)
      BY FS_Subset
    <2> DEFINE F == [i \in U |-> Own(i)]
    <2>2. F \in Surjection(U, {Own(i) : i \in U})
      BY DEF Surjection
    <2>3. IsFiniteSet({Own(i) : i \in U})
      BY <2>1, <2>2, FS_Surjection
    <2>4. IsFiniteSet(UNION {Own(i) : i \in U})
      BY <1>1, <2>3, FS_UNION
    <2>5. Heap(m, U) = UNION {Own(i) : i \in U}
      BY DEF Heap
    <2> QED BY <2>4, <2>5, FS_CardinalityType
  <1>3. Heap(m, S) = Heap(m, S \ {x}) \union Own(x) /\ Heap(m, S \ {x}) \intersect Own(x) = {}
    BY DEF Heap
  <1>4. IsFiniteSet(Own(x)) /\ Cardinality(Own(x)) = m[x]
    BY <1>1
  <1> HIDE DEF Own
  <1>5. IsFiniteSet(Heap(m, S)) /\ IsFiniteSet(Heap(m, S \ {x}))
    BY <1>2
  <1>6. Cardinality(Heap(m, S)) = Cardinality(Heap(m, S \ {x})) + Cardinality(Own(x)) - 0
    <2>1. Cardinality(Heap(m, S \ {x}) \intersect Own(x)) = 0
      BY <1>3, FS_EmptySet
    <2> QED BY <2>1, <1>3, <1>4, <1>5, FS_Union
  <1> QED BY <1>2, <1>4, <1>5, <1>6

\* One element more adds its own number to the amount.
LEMMA AmountAdds ==
    ASSUME NEW S, IsFiniteSet(S), NEW f, S \subseteq DOMAIN f, \A i \in S : f[i] \in Int
    PROVE  /\ Amount(f, S) \in Int /\ Amount(f, {}) = 0
           /\ \A x \in S : Amount(f, S) = f[x] + Amount(f, S \ {x})
  <1>1. Heap(Gains(f), {}) = {} /\ Heap(Losses(f), {}) = {} /\ Cardinality({}) = 0
    BY FS_EmptySet DEF Heap
  <1>2. Amount(f, {}) = 0
    BY <1>1 DEF Amount
  <1>3. ASSUME NEW x \in S
        PROVE  Amount(f, S) \in Int /\ Amount(f, S) = f[x] + Amount(f, S \ {x})
    <2>1. \A i \in S : Gains(f)[i] \in Nat /\ Losses(f)[i] \in Nat /\ Gains(f)[i] - Losses(f)[i] = f[i]
      BY DEF Gains, Losses
    <2> DEFINE u == Gains(f)
               v == Losses(f)
    <2> HIDE DEF u, v
    <2>2. /\ Cardinality(Heap(u, S)) \in Nat /\ Cardinality(Heap(u, S \ {x})) \in Nat
          /\ Cardinality(Heap(u, S)) = u[x] + Cardinality(Heap(u, S \ {x}))
      <3>1. \A i \in S : u[i] \in Nat
        BY <2>1 DEF u
      <3> QED BY <3>1, HeapAdds
    <2>3. /\ Cardinality(Heap(v, S)) \in Nat /\ Cardinality(Heap(v, S \ {x})) \in Nat
          /\ Cardinality(Heap(v, S)) = v[x] + Cardinality(Heap(v, S \ {x}))
      <3>1. \A i \in S : v[i] \in Nat
        BY <2>1 DEF v
      <3> QED BY <3>1, HeapAdds
    <2>4. /\ u[x] \in Nat /\ v[x] \in Nat /\ u[x] - v[x] = f[x]
          /\ Amount(f, S) = Cardinality(Heap(u, S)) - Cardinality(Heap(v, S))
          /\ Amount(f, S \ {x}) = Cardinality(Heap(u, S \ {x})) - Cardinality(Heap(v, S \ {x}))
      BY <2>1 DEF u, v, Amount
    <2> QED BY <2>2, <2>3, <2>4
  <1>4. S = {} => Amount(f, S) \in Int
    BY <1>2
  <1> QED BY <1>2, <1>3, <1>4

\* Counting units adds up ...
LEMMA CountingAdds ==
    ASSUME NEW S, IsFiniteSet(S), NEW f, S \subseteq DOMAIN f, \A i \in S : f[i] \in Int
    PROVE  Adds([s \in SUBSET S |-> Amount(f, s)], f, S)
  <1> DEFINE g == [s \in SUBSET S |-> Amount(f, s)]
  <1>1. ASSUME NEW s \in SUBSET S
        PROVE  g[s] = IF s = {} THEN 0
                      ELSE LET x == CHOOSE x \in s : TRUE IN f[x] + g[s \ {x}]
    <2>1. IsFiniteSet(s) /\ s \subseteq DOMAIN f /\ \A i \in s : f[i] \in Int
      BY FS_Subset
    <2>2. CASE s = {}
      BY <2>1, <2>2, AmountAdds
    <2>3. CASE s # {}
      <3> DEFINE x == CHOOSE x \in s : TRUE
      <3>1. x \in s
        BY <2>3
      <3> HIDE DEF x
      <3>2. g[s] = f[x] + g[s \ {x}]
        BY <2>1, <3>1, AmountAdds
      <3> QED BY <2>3, <3>2 DEF x
    <2> QED BY <2>2, <2>3
  <1> HIDE DEF g
  <1>2. DOMAIN g = SUBSET S /\ g = [s \in SUBSET S |-> g[s]]
    BY DEF g
  <1>3. [s \in SUBSET S |-> g[s]] =
            [s \in SUBSET S |-> IF s = {} THEN 0
                                ELSE LET x == CHOOSE x \in s : TRUE IN f[x] + g[s \ {x}]]
    BY <1>1, Zenon
  <1>4. Adds(g, f, S)
    BY <1>2, <1>3 DEF Adds
  <1> QED BY <1>4 DEF g

\* ... and whatever adds up counts units: there is no smallest subset where the two
\* differ.
LEMMA AddingCounts ==
    ASSUME NEW S, IsFiniteSet(S), NEW f, S \subseteq DOMAIN f, \A i \in S : f[i] \in Int,
           NEW g, Adds(g, f, S)
    PROVE  g[S] = Amount(f, S)
  <1> DEFINE Bad == {s \in SUBSET S : g[s] # Amount(f, s)}
  <1>1. IsWellFoundedOn(StrictSubsetOrdering(S), SUBSET S)
    BY FS_StrictSubsetOrderingWellFounded, FS_FiniteSubsetsOfFinite
  <1>2. Bad = {}
    <2> SUFFICES ASSUME Bad # {} PROVE FALSE
      OBVIOUS
    <2>1. PICK s \in Bad : \A t \in Bad : <<t, s>> \notin StrictSubsetOrdering(S)
      <3>1. Bad \subseteq SUBSET S
        OBVIOUS
      <3> HIDE DEF Bad
      <3> QED BY <1>1, <3>1, WFMin
    <2>2. g[s] = IF s = {} THEN 0 ELSE LET x == CHOOSE x \in s : TRUE IN f[x] + g[s \ {x}]
      BY DEF Adds
    <2>3. IsFiniteSet(s) /\ s \subseteq DOMAIN f /\ \A i \in s : f[i] \in Int
      BY FS_Subset
    <2>4. s # {}
      BY <2>2, <2>3, AmountAdds
    <2> DEFINE x == CHOOSE x \in s : TRUE
    <2>5. x \in s
      BY <2>4
    <2>6. g[s] = f[x] + g[s \ {x}]
      BY <2>2, <2>4
    <2> HIDE DEF x
    <2>7. s \ {x} \notin Bad
      <3>1. <<s \ {x}, s>> \in StrictSubsetOrdering(S)
        BY <2>5 DEF StrictSubsetOrdering
      <3> QED BY <3>1, <2>1
    <2>8. g[s \ {x}] = Amount(f, s \ {x})
      BY <2>7
    <2> QED BY <2>3, <2>5, <2>6, <2>8, AmountAdds
  <1> QED BY <1>2

\* A sum over a finite set is a number, an empty one is nothing, and each element adds its
\* own.
LEMMA SumOfOneMore ==
    ASSUME NEW S, IsFiniteSet(S), NEW f, S \subseteq DOMAIN f, \A i \in S : f[i] \in Int
    PROVE  /\ SumOver(f, S) \in Int /\ (S = {} => SumOver(f, S) = 0)
           /\ \A x \in S : SumOver(f, S) = f[x] + SumOver(f, S \ {x})
           /\ (\A i \in S : f[i] >= 0) => SumOver(f, S) >= 0
  <1>1. ASSUME NEW s \in SUBSET S
        PROVE  SumOver(f, s) = Amount(f, s)
    <2>0. IsFiniteSet(s) /\ s \subseteq DOMAIN f /\ \A i \in s : f[i] \in Int
      BY FS_Subset
    <2>1. \E g : Adds(g, f, s)
      BY <2>0, CountingAdds
    <2>2. SumOver(f, s) = (CHOOSE g : Adds(g, f, s))[s]
      BY DEF SumOver, MapThenSumSet, MapThenFoldSet, Adds
    <2>3. Adds((CHOOSE g : Adds(g, f, s)), f, s)
      BY <2>1
    <2> QED BY <2>0, <2>2, <2>3, AddingCounts
  <1>2. \A x \in S : S \ {x} \in SUBSET S
    OBVIOUS
  <1>3. /\ Amount(f, S) \in Int /\ Amount(f, {}) = 0
        /\ \A x \in S : Amount(f, S) = f[x] + Amount(f, S \ {x})
    BY AmountAdds
  <1>4. ASSUME \A i \in S : f[i] >= 0
        PROVE  Amount(f, S) >= 0
    <2>1. \A i \in S : Losses(f)[i] = 0 /\ Gains(f)[i] \in Nat
      BY <1>4 DEF Losses, Gains
    <2>2. Heap(Losses(f), S) = {}
      BY <2>1 DEF Heap
    <2>3. Cardinality(Heap(Losses(f), S)) = 0
      BY <2>2, FS_EmptySet
    <2>4. S = {} => Amount(f, S) >= 0
      BY <1>3
    <2>5. S # {} => Cardinality(Heap(Gains(f), S)) \in Nat
      <3> DEFINE u == Gains(f)
      <3>1. \A i \in S : u[i] \in Nat
        BY <2>1
      <3> HIDE DEF u
      <3>2. S # {} => Cardinality(Heap(u, S)) \in Nat
        BY <3>1, HeapAdds
      <3> QED BY <3>2 DEF u
    <2> QED BY <2>3, <2>4, <2>5 DEF Amount
  <1> QED BY <1>1, <1>2, <1>3, <1>4

-----------------------------------------------------------------------------
(* The value area of a profile (BarIndicators).                            *)

AreaInv ==
    /\ profile \in [1..Buckets -> Nat]
    /\ area \in [lo : 1..Buckets, hi : 1..Buckets, sum : Int, before : Int]
    /\ Poc \in area.lo..area.hi
    /\ area.sum = Covered(area.lo, area.hi)
    /\ area.lo < area.hi => 100 * area.before < AreaPercent * Total

\* The volume of a span is a number, and its next bucket adds its own volume to it.
LEMMA CoveredIs ==
    ASSUME profile \in [1..Buckets -> Nat], NEW lo \in 1..Buckets, NEW hi \in 1..Buckets
    PROVE  /\ Covered(lo, hi) \in Int /\ Total \in Nat /\ Total = Covered(1, Buckets)
           /\ lo = hi => Covered(lo, hi) = profile[lo]
           /\ lo <= hi /\ hi < Buckets => Covered(lo, hi + 1) = profile[hi + 1] + Covered(lo, hi)
           /\ lo <= hi /\ 1 < lo => Covered(lo - 1, hi) = profile[lo - 1] + Covered(lo, hi)
  <1> DEFINE Sum(s) == VolumeIn(profile, s)
  <1>1. \A s \in SUBSET (1..Buckets) :
           /\ Sum(s) \in Nat /\ (s = {} => Sum(s) = 0)
           /\ \A x \in s : Sum(s) = profile[x] + Sum(s \ {x})
    <2> SUFFICES ASSUME NEW s \in SUBSET (1..Buckets)
                 PROVE  /\ Sum(s) \in Nat /\ (s = {} => Sum(s) = 0)
                        /\ \A x \in s : Sum(s) = profile[x] + Sum(s \ {x})
      OBVIOUS
    <2>1. Buckets \in Int
      BY SeriesAssumption
    <2>2. IsFiniteSet(1..Buckets)
      BY <2>1, FS_Interval
    <2>3. IsFiniteSet(s)
      BY <2>2, FS_Subset
    <2>4. s \subseteq DOMAIN profile /\ \A i \in s : profile[i] \in Int
      OBVIOUS
    <2>5. \A t : Sum(t) = SumOver(profile, t)
      BY DEF VolumeIn, SumOver
    <2>6. /\ SumOver(profile, s) \in Int /\ (s = {} => SumOver(profile, s) = 0)
          /\ \A x \in s : SumOver(profile, s) = profile[x] + SumOver(profile, s \ {x})
          /\ SumOver(profile, s) >= 0
      <3>1. \A i \in s : profile[i] >= 0
        OBVIOUS
      <3> QED BY <2>3, <2>4, <3>1, SumOfOneMore
    <2> HIDE DEF Sum
    <2> QED BY <2>5, <2>6
  <1>2. Total = Sum(1..Buckets) /\ \A a, b : Covered(a, b) = Sum(a..b)
    BY DEF Total, Covered
  <1> HIDE DEF Sum
  <1>3. Buckets \in Nat
    BY SeriesAssumption
  <1>4. Covered(lo, hi) \in Int /\ Total \in Nat /\ Total = Covered(1, Buckets)
    <2>1. lo..hi \in SUBSET (1..Buckets) /\ 1..Buckets \in SUBSET (1..Buckets)
      BY <1>3
    <2>2. Sum(lo..hi) \in Nat /\ Sum(1..Buckets) \in Nat
      BY <1>1, <2>1
    <2> QED BY <1>2, <2>2
  <1>5. ASSUME lo = hi
        PROVE  Covered(lo, hi) = profile[lo]
    <2>1. lo..hi = {lo} /\ {lo} \ {lo} = {} /\ {lo} \in SUBSET (1..Buckets) /\ {} \in SUBSET (1..Buckets)
      BY <1>5
    <2>2. Sum({lo}) = profile[lo] + Sum({}) /\ Sum({}) = 0 /\ Covered(lo, hi) = Sum({lo})
      BY <1>1, <1>2, <2>1
    <2>3. profile[lo] \in Int
      OBVIOUS
    <2> QED BY <2>2, <2>3
  <1>6. ASSUME lo <= hi, hi < Buckets
        PROVE  Covered(lo, hi + 1) = profile[hi + 1] + Covered(lo, hi)
    <2>1. /\ (lo..(hi + 1)) \ {hi + 1} = lo..hi /\ hi + 1 \in lo..(hi + 1)
          /\ lo..(hi + 1) \in SUBSET (1..Buckets)
      BY <1>3, <1>6
    <2> QED BY <1>1, <1>2, <2>1
  <1>7. ASSUME lo <= hi, 1 < lo
        PROVE  Covered(lo - 1, hi) = profile[lo - 1] + Covered(lo, hi)
    <2>1. /\ ((lo - 1)..hi) \ {lo - 1} = lo..hi /\ lo - 1 \in (lo - 1)..hi
          /\ (lo - 1)..hi \in SUBSET (1..Buckets)
      BY <1>3, <1>7
    <2> QED BY <1>1, <1>2, <2>1
  <1> QED BY <1>4, <1>5, <1>6, <1>7

\* The point of control exists: the first of the fullest buckets.
LEMMA PocIs ==
    ASSUME profile \in [1..Buckets -> Nat]
    PROVE  Poc \in 1..Buckets
  <1>1. Buckets \in Nat \ {0} /\ IsFiniteSet(1..Buckets)
    BY SeriesAssumption, FS_Interval
  <1> DEFINE V == {profile[i] : i \in 1..Buckets}
  <1>2. V \in SUBSET Int /\ V # {} /\ IsFiniteSet(V)
    <2>1. profile \in Surjection(1..Buckets, V)
      BY DEF Surjection
    <2>2. IsFiniteSet(V)
      BY <1>1, <2>1, FS_Surjection
    <2> QED BY <1>1, <2>2
  <1>3. PICK v \in V : \A x \in V : v >= x
    <2> HIDE DEF V
    <2> QED BY <1>2, EndsOf
  <1> DEFINE F == {i \in 1..Buckets : profile[i] = v}
  <1>4. F \in SUBSET Int /\ F # {} /\ IsFiniteSet(F)
    BY <1>1, <1>3, FS_Subset
  <1>5. PICK p \in F : \A x \in F : p <= x
    <2> HIDE DEF F
    <2> QED BY <1>4, EndsOf
  <1>6. ASSUME NEW j \in 1..Buckets
        PROVE  profile[j] <= profile[p]
    BY <1>3, <1>5
  <1>7. ASSUME NEW j \in 1..(p - 1)
        PROVE  profile[j] < profile[p]
    <2>1. p \in 1..Buckets /\ j \in 1..Buckets /\ j < p /\ profile[p] = v
      BY <1>1, <1>5
    <2>2. j \notin F
      BY <1>5, <2>1
    <2>3. profile[j] # v /\ profile[j] <= v /\ profile[j] \in Nat /\ v \in Nat
      BY <1>6, <2>1, <2>2
    <2> QED BY <2>1, <2>3
  <1>8. p \in 1..Buckets
    BY <1>5
  <1> QED BY <1>6, <1>7, <1>8 DEF Poc

\* The area starts as the point of control ...
LEMMA AreaInit ==
    ASSUME PInit
    PROVE  AreaInv
  <1>1. profile \in [1..Buckets -> Nat]
    BY SeriesAssumption DEF PInit
  <1>2. Poc \in 1..Buckets /\ area = [lo |-> Poc, hi |-> Poc, sum |-> profile[Poc], before |-> 0]
    BY <1>1, PocIs DEF PInit
  <1>3. Covered(Poc, Poc) = profile[Poc]
    BY <1>1, <1>2, CoveredIs
  <1> HIDE DEF Poc
  <1>4. /\ area.lo = Poc /\ area.hi = Poc /\ area.sum = profile[Poc] /\ area.before = 0
        /\ profile[Poc] \in Int
    BY <1>1, <1>2
  <1>5. area \in [lo : 1..Buckets, hi : 1..Buckets, sum : Int, before : Int]
    BY <1>2, <1>4
  <1>6. Poc \in area.lo..area.hi /\ ~(area.lo < area.hi) /\ area.sum = Covered(area.lo, area.hi)
    BY <1>2, <1>3, <1>4
  <1> QED BY <1>1, <1>5, <1>6 DEF AreaInv

\* ... and grows by the neighbour with more volume, which exists while it wants more.
LEMMA AreaStep ==
    ASSUME AreaInv, [PNext]_pVars
    PROVE  AreaInv'
  <1>1. CASE Grow
    <2>1. /\ profile \in [1..Buckets -> Nat] /\ Poc \in area.lo..area.hi
          /\ area \in [lo : 1..Buckets, hi : 1..Buckets, sum : Int, before : Int]
          /\ area.sum = Covered(area.lo, area.hi)
      BY DEF AreaInv
    <2>2. /\ profile' = profile /\ WantsMore
          /\ area' = IF VolumeAt(area.hi + 1) >= VolumeAt(area.lo - 1) THEN GrowUp ELSE GrowDown
      BY <1>1 DEF Grow
    <2>3. Poc' = Poc /\ Total' = Total /\ \A a, b : Covered(a, b)' = Covered(a, b)
      BY <2>2 DEF Poc, Total, Covered
    <2>4. /\ area.lo \in 1..Buckets /\ area.hi \in 1..Buckets /\ area.lo <= area.hi
          /\ area.sum \in Int /\ Buckets \in Nat /\ Poc \in Int
      BY <2>1, SeriesAssumption
    <2>5. 100 * area.sum < AreaPercent * Total /\ (area.lo > 1 \/ area.hi < Buckets)
      BY <2>2 DEF WantsMore
    <2>6. (area' = GrowUp /\ area.hi < Buckets) \/ (area' = GrowDown /\ 1 < area.lo)
      <3>1. VolumeAt(0) = -1 /\ VolumeAt(Buckets + 1) = -1
        BY <2>4 DEF VolumeAt
      <3>2. \A i \in 1..Buckets : VolumeAt(i) >= 0 /\ VolumeAt(i) \in Nat
        BY <2>1 DEF VolumeAt
      <3>3. CASE area.lo = 1
        <4>1. area.hi + 1 \in 1..Buckets /\ area.lo - 1 = 0
          BY <2>4, <2>5, <3>3
        <4>2. VolumeAt(area.hi + 1) >= VolumeAt(area.lo - 1)
          BY <3>1, <3>2, <4>1
        <4>3. area.hi < Buckets
          BY <2>4, <2>5, <3>3
        <4> QED BY <2>2, <4>2, <4>3
      <3>4. CASE area.hi = Buckets
        <4>1. area.lo - 1 \in 1..Buckets /\ area.hi + 1 = Buckets + 1
          BY <2>4, <2>5, <3>4
        <4>2. ~(VolumeAt(area.hi + 1) >= VolumeAt(area.lo - 1))
          BY <3>1, <3>2, <4>1
        <4>3. 1 < area.lo
          BY <2>4, <2>5, <3>4
        <4> QED BY <2>2, <4>2, <4>3
      <3>5. CASE area.lo # 1 /\ area.hi # Buckets
        <4>1. area.hi < Buckets /\ 1 < area.lo
          BY <2>4, <3>5
        <4> QED BY <2>2, <4>1
      <3> QED BY <3>3, <3>4, <3>5
    <2>7. CASE area' = GrowUp /\ area.hi < Buckets
      <3>1. area.hi + 1 \in 1..Buckets /\ VolumeAt(area.hi + 1) = profile[area.hi + 1] /\ profile[area.hi + 1] \in Nat
        BY <2>1, <2>4, <2>7 DEF VolumeAt
      <3>2. area' \in [lo : 1..Buckets, hi : 1..Buckets, sum : Int, before : Int]
        <4>1. area' = [lo |-> area.lo, hi |-> area.hi + 1, sum |-> area.sum + profile[area.hi + 1],
                       before |-> area.sum]
          BY <2>1, <2>7, <3>1 DEF GrowUp
        <4>2. area.sum + profile[area.hi + 1] \in Int
          BY <2>4, <3>1
        <4> QED BY <2>4, <3>1, <4>1, <4>2
      <3>3. /\ area'.lo = area.lo /\ area'.hi = area.hi + 1 /\ area'.before = area.sum
            /\ area'.sum = area.sum + profile[area.hi + 1]
        BY <2>1, <2>7, <3>1 DEF GrowUp
      <3>4. Covered(area.lo, area.hi + 1) = profile[area.hi + 1] + Covered(area.lo, area.hi)
        BY <2>1, <2>4, <2>7, CoveredIs
      <3>5. area'.sum = Covered(area'.lo, area'.hi)
        BY <2>1, <2>4, <3>1, <3>3, <3>4
      <3>6. Poc \in area'.lo..area'.hi
        BY <2>1, <2>4, <3>3
      <3>7. 100 * area'.before < AreaPercent * Total
        BY <2>5, <3>3
      <3> QED BY <2>1, <2>2, <2>3, <3>2, <3>5, <3>6, <3>7 DEF AreaInv
    <2>8. CASE area' = GrowDown /\ 1 < area.lo
      <3>1. area.lo - 1 \in 1..Buckets /\ VolumeAt(area.lo - 1) = profile[area.lo - 1] /\ profile[area.lo - 1] \in Nat
        BY <2>1, <2>4, <2>8 DEF VolumeAt
      <3>2. area' \in [lo : 1..Buckets, hi : 1..Buckets, sum : Int, before : Int]
        <4>1. area' = [lo |-> area.lo - 1, hi |-> area.hi, sum |-> area.sum + profile[area.lo - 1],
                       before |-> area.sum]
          BY <2>1, <2>8, <3>1 DEF GrowDown
        <4>2. area.sum + profile[area.lo - 1] \in Int
          BY <2>4, <3>1
        <4> QED BY <2>4, <3>1, <4>1, <4>2
      <3>3. /\ area'.lo = area.lo - 1 /\ area'.hi = area.hi /\ area'.before = area.sum
            /\ area'.sum = area.sum + profile[area.lo - 1]
        BY <2>1, <2>8, <3>1 DEF GrowDown
      <3>4. Covered(area.lo - 1, area.hi) = profile[area.lo - 1] + Covered(area.lo, area.hi)
        BY <2>1, <2>4, <2>8, CoveredIs
      <3>5. area'.sum = Covered(area'.lo, area'.hi)
        BY <2>1, <2>4, <3>1, <3>3, <3>4
      <3>6. Poc \in area'.lo..area'.hi
        BY <2>1, <2>4, <3>3
      <3>7. 100 * area'.before < AreaPercent * Total
        BY <2>5, <3>3
      <3> QED BY <2>1, <2>2, <2>3, <3>2, <3>5, <3>6, <3>7 DEF AreaInv
    <2> QED BY <2>6, <2>7, <2>8
  <1>2. CASE UNCHANGED pVars
    BY <1>2 DEF pVars, AreaInv, Poc, Covered, Total
  <1> QED BY <1>1, <1>2 DEF PNext

\* A value area that stops growing covers its share.
LEMMA AreaInvMeans ==
    ASSUME AreaInv
    PROVE  ValueAreaIsTight
  <1>1. /\ profile \in [1..Buckets -> Nat] /\ Poc \in area.lo..area.hi
        /\ area \in [lo : 1..Buckets, hi : 1..Buckets, sum : Int, before : Int]
        /\ area.sum = Covered(area.lo, area.hi)
        /\ area.lo < area.hi => 100 * area.before < AreaPercent * Total
    BY DEF AreaInv
  <1>2. /\ area.lo \in 1..Buckets /\ area.hi \in 1..Buckets /\ area.sum \in Int
        /\ Buckets \in Nat \ {0} /\ AreaPercent \in 0..100
    BY <1>1, SeriesAssumption
  <1>3. Total \in Nat /\ Total = Covered(1, Buckets)
    BY <1>1, <1>2, CoveredIs
  <1>4. 100 * area.sum >= AreaPercent * Total \/ WantsMore
    <2>1. CASE area.lo > 1 \/ area.hi < Buckets
      <3>1. AreaPercent * Total \in Int /\ 100 * area.sum \in Int
        BY <1>2, <1>3
      <3> QED BY <1>2, <2>1, <3>1 DEF WantsMore
    <2>2. CASE area.lo = 1 /\ area.hi = Buckets
      <3>1. area.sum = Total
        BY <1>1, <1>3, <2>2
      <3>2. (100 - AreaPercent) * Total >= 0
        BY <1>2, <1>3
      <3>3. (100 - AreaPercent) * Total = 100 * Total - AreaPercent * Total
        BY <1>2, <1>3
      <3> QED BY <1>2, <1>3, <3>1, <3>2, <3>3
    <2> QED BY <1>2, <2>1, <2>2
  <1> QED BY <1>1, <1>4 DEF ValueAreaIsTight

\* The series and the value area, one way through the bars and one through the buckets.
LEMMA SeriesInvHolds == BSpec => []SeriesInv
  BY SeriesInit, SeriesStep, PTL DEF BSpec
LEMMA AreaInvHolds == PSpec => []AreaInv
  BY AreaInit, AreaStep, PTL DEF PSpec

\* What is told of a series is told once, of the bars as they are, whatever bars settle and
\* for any lengths of pivots, frames and cache; and a value area counts exactly the buckets
\* it spans and covers its share with the last of them only, for any profile.
THEOREM SeriesIsTrueHolds == BSpec /\ PSpec => []SeriesIsTrue
  <1>1. SeriesInv /\ AreaInv => SeriesIsTrue
    BY SeriesInvMeans, AreaInvMeans DEF SeriesIsTrue
  <1> QED BY <1>1, SeriesInvHolds, AreaInvHolds, PTL
=============================================================================
