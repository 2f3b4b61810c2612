-------------------------- MODULE ModelGovernance --------------------------
(***************************************************************************)
(* Models: the registry's rows of one grain, promoted by transactions at   *)
(* READ COMMITTED; the hot reloader that serves the champion; and the      *)
(* artifact store, which trainers fill and the agents load from.           *)
(*                                                                         *)
(* A row's is_active goes with its status: both change together.  An       *)
(* uncommitted update holds its rows; an UPDATE finds its rows first, then *)
(* waits for those another transaction holds and looks at them again.      *)
(***************************************************************************)
EXTENDS Naturals, FiniteSetsExt

CONSTANTS
    Models,      \* model versions
    Promoters,   \* concurrent promotions
    Trainers,    \* trainers of the one artifact: the scheduler's, a script's
    Requests,    \* promotions in a run (a bound for TLC)
    MaxFaults    \* loads that fail, trainers that die (a bound for TLC)

ASSUME ModelAssumption == {Requests, MaxFaults} \subseteq Nat

VARIABLES
    rows,       \* model_registry: the status of each version
    promotion,  \* the transactions
    served,     \* the reloader's active_record and model, or "none"
    payload, metadata,  \* the artifact's two files: whose they are, or "none"
    trainer,    \* the trainers
    loader,     \* an agent that loads: the metadata it read, the artifact it has
    requests, faults    \* auxiliary: how many so far

mVars == <<rows, promotion, served, payload, metadata, trainer, loader, requests, faults>>

NoPromotion == [at |-> "idle", model |-> "none", found |-> {}, retired |-> {}]

NoLoad == [at |-> "idle", seen |-> "none", has |-> <<"none", "none">>]

MInit ==
    /\ rows = [m \in Models |-> "none"]
    /\ promotion = [p \in Promoters |-> NoPromotion]
    /\ served = [record |-> "none", model |-> "none"]
    /\ payload = "none" /\ metadata = "none"
    /\ trainer = [t \in Trainers |-> "idle"]
    /\ loader = NoLoad
    /\ requests = 0 /\ faults = 0

store == <<payload, metadata, trainer, loader>>

Champions == {m \in Models : rows[m] = "ACTIVE"}

\* Rows that an uncommitted promotion has updated.
Held == UNION {promotion[p].retired : p \in Promoters}
-----------------------------------------------------------------------------
(* The registry.                                                           *)

Register(m) ==
    /\ rows[m] = "none"
    /\ rows' = [rows EXCEPT ![m] = "APPROVED"]
    /\ UNCHANGED <<promotion, served, store, requests, faults>>

SetStatus(m, status) ==
    /\ rows[m] # "none" /\ status # rows[m]
    /\ m \notin Held
    /\ requests < Requests
    /\ requests' = requests + 1
    /\ rows' = [rows EXCEPT ![m] = status]
    /\ UNCHANGED <<promotion, served, store, faults>>

\* Only an APPROVED challenger is let through.
Candidate(p, m) ==
    /\ promotion[p].at = "idle"
    /\ rows[m] = "APPROVED"
    /\ requests < Requests
    /\ requests' = requests + 1
    /\ promotion' = [promotion EXCEPT ![p] = [NoPromotion EXCEPT !.at = "checked", !.model = m]]
    /\ UNCHANGED <<rows, served, store, faults>>

FindActive(p) ==
    /\ promotion[p].at = "checked"
    /\ promotion' = [promotion EXCEPT ![p].at = "found", ![p].found = Champions]
    /\ UNCHANGED <<rows, served, store, requests, faults>>

\* Of the rows it found, those that are still active when it gets them.
Retire(p) ==
    /\ promotion[p].at = "found"
    /\ promotion[p].found \cap Held = {}
    /\ promotion' = [promotion EXCEPT ![p].at = "retired",
                                      ![p].retired = promotion[p].found \cap Champions]
    /\ UNCHANGED <<rows, served, store, requests, faults>>

\* A bug: the schema is created without its partial index.
Unique_slip(p) == TRUE

\* uq_model_registry_active_grain: one active row in each grain.
Unique(p) == Champions \subseteq promotion[p].retired \cup {promotion[p].model}

Promoted(p) ==
    [m \in Models |->
        IF m = promotion[p].model THEN "ACTIVE"
        ELSE IF m \in promotion[p].retired THEN "RETIRED" ELSE rows[m]]

\* The last UPDATE and the commit; what violates the index is rolled back.
Activate(p) ==
    /\ promotion[p].at = "retired"
    /\ \A q \in Promoters \ {p} : promotion[p].model \notin promotion[q].retired
    /\ rows' = IF Unique(p) THEN Promoted(p) ELSE rows
    /\ promotion' = [promotion EXCEPT ![p] = NoPromotion]
    /\ UNCHANGED <<served, store, requests, faults>>

\* A bug: the record is remembered before the model is loaded.
HotReload_slip ==
    \E m \in Champions :
       /\ served.record # m
       /\ \/ served' = [record |-> m, model |-> m] /\ UNCHANGED faults
          \/ /\ faults < MaxFaults /\ faults' = faults + 1
             /\ served' = [served EXCEPT !.record = m]
       /\ UNCHANGED <<rows, promotion, store, requests>>

\* ModelHotReloader.refresh: a model that cannot be loaded leaves the old one
\* in place, and so does a grain that has no champion.
HotReload ==
    \E m \in Champions :
       /\ served.record # m
       /\ \/ served' = [record |-> m, model |-> m] /\ UNCHANGED faults
          \/ faults < MaxFaults /\ faults' = faults + 1 /\ UNCHANGED served
       /\ UNCHANGED <<rows, promotion, store, requests>>
-----------------------------------------------------------------------------
(* The artifact.                                                           *)

registry == <<rows, promotion, served, requests>>

\* A bug: only the metadata is looked for.
Check_slip(t) ==
    /\ trainer[t] = "idle"
    /\ trainer' = [trainer EXCEPT ![t] = IF metadata # "none" THEN "exists" ELSE "admitted"]
    /\ UNCHANGED <<registry, payload, metadata, loader, faults>>

\* A version that exists is not written again: FileExistsError.
Check(t) ==
    /\ trainer[t] = "idle"
    /\ trainer' = [trainer EXCEPT ![t] =
                      IF metadata # "none" \/ payload # "none" THEN "exists" ELSE "admitted"]
    /\ UNCHANGED <<registry, payload, metadata, loader, faults>>

SavePayload(t) ==
    /\ trainer[t] = "admitted"
    /\ payload' = t
    /\ trainer' = [trainer EXCEPT ![t] = "payload"]
    /\ UNCHANGED <<registry, metadata, loader, faults>>

\* The metadata carries the checksum of the trainer's own payload.
SaveMetadata(t) ==
    /\ trainer[t] = "payload"
    /\ metadata' = t
    /\ trainer' = [trainer EXCEPT ![t] = "saved"]
    /\ UNCHANGED <<registry, payload, loader, faults>>

Dies(t) ==
    /\ faults < MaxFaults
    /\ trainer[t] \in {"admitted", "payload"}
    /\ faults' = faults + 1
    /\ trainer' = [trainer EXCEPT ![t] = "idle"]
    /\ UNCHANGED <<registry, payload, metadata, loader>>

\* The next scheduled training.
Again(t) ==
    /\ trainer[t] \in {"saved", "exists"}
    /\ trainer' = [trainer EXCEPT ![t] = "idle"]
    /\ UNCHANGED <<registry, payload, metadata, loader, faults>>

LoadMetadata ==
    /\ loader.at = "idle"
    /\ payload # "none" /\ metadata # "none"
    /\ loader' = [loader EXCEPT !.at = "read", !.seen = metadata]
    /\ UNCHANGED <<registry, payload, metadata, trainer, faults>>

\* A bug: the checksum is not compared.
LoadPayload_slip ==
    /\ loader.at = "read"
    /\ loader' = [NoLoad EXCEPT !.has = <<loader.seen, payload>>]
    /\ UNCHANGED <<registry, payload, metadata, trainer, faults>>

LoadPayload ==
    /\ loader.at = "read"
    /\ loader' = IF payload = loader.seen
                 THEN [NoLoad EXCEPT !.has = <<loader.seen, payload>>]
                 ELSE [NoLoad EXCEPT !.has = loader.has]
    /\ UNCHANGED <<registry, payload, metadata, trainer, faults>>

MNext ==
    \/ \E m \in Models : Register(m) \/ \E s \in {"APPROVED", "REJECTED"} : SetStatus(m, s)
    \/ \E p \in Promoters :
          \/ FindActive(p) \/ Retire(p) \/ Activate(p)
          \/ \E m \in Models : Candidate(p, m)
    \/ HotReload
    \/ \E t \in Trainers : Check(t) \/ SavePayload(t) \/ SaveMetadata(t) \/ Dies(t) \/ Again(t)
    \/ LoadMetadata \/ LoadPayload

\* The worker keeps refreshing.
MFair == WF_mVars(HotReload)

MSpec == MInit /\ [][MNext]_mVars /\ MFair
-----------------------------------------------------------------------------
(* Properties.                                                             *)

\* However promotions of one grain overlap, it has one champion.
OneChampion == Cardinality(Champions) <= 1

\* A champion that stays is served in the end, although loading it may fail.
ChampionIsServed ==
    \A m \in Models : <>[](rows[m] = "ACTIVE") => <>(served.model = m)

\* What an agent loads is one training's: its scaler, models and calibrator,
\* and the scores they were admitted with, also when two trainers write it.
LoadedIsWhole == loader.has[1] = loader.has[2]

\* One champion, and whole.
ModelsAreSound == OneChampion /\ LoadedIsWhole
=============================================================================
