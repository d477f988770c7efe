---------------------------- MODULE SemanticIndex ----------------------------
(***************************************************************************)
(* The derived semantic index (src/urdyn/_semantic_store.py, the semantic  *)
(* part of src/urdyn/_workspace.py and the model part of _semantic.py): a  *)
(* second database that holds one vector for each record, made from        *)
(* memory.db, with which no transaction spans it.                          *)
(*                                                                         *)
(* `semantic setup' clears and rebuilds it; preflight(), guard() and       *)
(* context() first bring it up to date, then rank its vectors against the  *)
(* task, which they embed with the model that made the index.  Each step   *)
(* below is one transaction or one SELECT: between any two, other          *)
(* processes write the records or the index.  A call may end after each of *)
(* its steps, because the process dies or because the step fails.          *)
(*                                                                         *)
(* A vector is the artifact that computed it, for texts never change.      *)
(***************************************************************************)
EXTENDS Naturals

CONSTANTS Procs,
          Artifacts,   \* exact builds of the model: each has a vector space of its own
          Builds,      \* those a process's setup may come away with
          Reads,       \* those a process can load for an index made by others
          Records,     \* what is embedded: attempts, memories, skills, chunks
          Pools,       \* the number of pools, in the order they are embedded
          PoolOf,      \* the pool of a record
          Replaces,    \* the chunks an observation's chunk takes the place of
          None

ASSUME SemanticAssumption ==
    /\ None \notin Artifacts \cup [artifact : Artifacts, status : {"building", "ready"}]
    /\ Builds \in [Procs -> SUBSET Artifacts]
    /\ Reads \in [Procs -> SUBSET Artifacts]
    /\ \A p \in Procs : Builds[p] \subseteq Reads[p]
    /\ Pools \in Nat \ {0}
    /\ PoolOf \in [Records -> 1..Pools]
    /\ Replaces \in [Records -> SUBSET Records]

VARIABLES canon,     \* records the pools consist of now
          meta,      \* the index's one row of metadata, None without one
          vectors,   \* the artifact that embedded each record, None if not embedded
          cached,    \* artifacts in the local model cache
          calls,     \* what each process is doing
          rivals,    \* history: another artifact's writer was at work when this build began
          races,     \* history: another setup was at work when this build began
          due        \* history: the records this build is made from

index == << meta, vectors >>
vars == << canon, index, cached, calls, rivals, races, due >>

Building(artifact) == [artifact |-> artifact, status |-> "building"]
Ready(artifact) == [artifact |-> artifact, status |-> "ready"]

IsReady == meta # None /\ meta.status = "ready"

Idle == [step |-> "idle"]

In(pool) == {r \in Records : PoolOf[r] = pool}

Covered == {r \in Records : vectors[r] # None}

(* No index, one that a setup has completed at some time, or one whose     *)
(* setup was interrupted, in a workspace copied with or without the model. *)
Init ==
    /\ canon \in SUBSET Records
    /\ \E artifact \in Artifacts, have \in SUBSET canon :
         /\ meta \in {None, Building(artifact), Ready(artifact)}
         /\ vectors = [r \in Records |-> IF meta # None /\ r \in have THEN artifact ELSE None]
         /\ cached \in {{}, {artifact}}
         /\ due = IF IsReady THEN have ELSE {}
    /\ calls = [p \in Procs |-> Idle]
    /\ rivals = FALSE /\ races = FALSE

----------------------------------------------------------------------------
(* Records *)

(* A record is appended; a new observation of a Source takes its           *)
(* predecessor's chunks out of the pool, not out of the index.             *)
Write(r) ==
    /\ r \notin canon \cup UNION {Replaces[s] : s \in canon}
    /\ canon' = (canon \ Replaces[r]) \cup {r}
    /\ UNCHANGED << index, cached, calls, rivals, races, due >>

----------------------------------------------------------------------------
(* semantic_setup() *)

Goto(p, call) == calls' = [calls EXCEPT ![p] = call]

(* Whoever has a model in hand to write vectors with. *)
Adding(p) == calls[p].step = "adding"
Writing(p) == calls[p].step \in {"adding", "refreshing", "embedding"}

(* The model is loaded, downloaded if need be, and the pools are read,     *)
(* before anything is cleared.                                             *)
Gather(p) ==
    /\ calls[p] = Idle
    /\ \E artifact \in Builds[p] :
         /\ cached' = cached \cup {artifact}
         /\ Goto(p, [step |-> "gathered", artifact |-> artifact, pools |-> canon])
    /\ UNCHANGED << canon, index, rivals, races, due >>

(* A classification or a query under way when the index is cleared. *)
Disturbed(call) ==
    [field \in DOMAIN call |-> IF field \in {"calm", "steady"} THEN FALSE ELSE call[field]]

BeginRebuildAs(p, status) ==
    LET mine == calls[p].artifact IN
    /\ calls[p].step = "gathered"
    /\ meta' = [artifact |-> mine, status |-> status]
    /\ vectors' = [r \in Records |-> None]
    /\ rivals' = \E q \in Procs \ {p} : Writing(q) /\ calls[q].artifact # mine
    /\ races' = \E q \in Procs \ {p} : Adding(q)
    /\ due' = calls[p].pools
    /\ calls' = [q \in Procs |->
                   IF q = p THEN [step |-> "adding", artifact |-> mine, pools |-> calls[p].pools, next |-> 1]
                   ELSE Disturbed(calls[q])]
    /\ UNCHANGED << canon, cached >>

(* begin_rebuild(): one transaction clears the index and marks it.  The    *)
(* mutant marks it ready.                                                  *)
BeginRebuild_Ready(p) == BeginRebuildAs(p, "ready")
BeginRebuild(p) == BeginRebuildAs(p, "building")

(* INSERT OR REPLACE *)
Embed(records, artifact) ==
    [r \in Records |-> IF r \in records THEN artifact ELSE vectors[r]]

(* add_vectors(), once for each pool. *)
AddPool(p) ==
    /\ Adding(p)
    /\ calls[p].next <= Pools
    /\ vectors' = Embed(calls[p].pools \cap In(calls[p].next), calls[p].artifact)
    /\ calls' = [calls EXCEPT ![p].next = @ + 1]
    /\ UNCHANGED << canon, meta, cached, rivals, races, due >>

(* finish_rebuild() marks whichever build the row is of. *)
FinishRebuild(p) ==
    /\ Adding(p)
    /\ calls[p].next > Pools
    /\ meta' = Ready(meta.artifact)
    /\ Goto(p, Idle)
    /\ UNCHANGED << canon, vectors, cached, rivals, races, due >>

----------------------------------------------------------------------------
(* _semantic_prepare(): classify, and repair what is merely missing *)

(* _semantic_pool_entries(), before anything is asked of the index. *)
Ask(p) ==
    /\ calls[p] = Idle
    /\ Goto(p, [step |-> "asked", pools |-> canon, refreshed |-> FALSE])
    /\ UNCHANGED << canon, index, cached, rivals, races, due >>

(* The index is opened and its row is read. *)
ReadMeta(p) ==
    /\ calls[p].step = "asked"
    /\ Goto(p, [step |-> "classifying", pools |-> calls[p].pools, refreshed |-> calls[p].refreshed,
                meta |-> meta, calm |-> TRUE])
    /\ UNCHANGED << canon, index, cached, rivals, races, due >>

(* Mutant of Lacks: the chunks, the last pool, are not counted. *)
Lacks_NoChunks(pools) == {r \in pools \ Covered : PoolOf[r] < Pools}

(* indexed_ids(), a SELECT for each pool: here one step, since between two *)
(* of them vectors are only added, or the index is cleared and calm ends.  *)
Lacks(pools) == pools \ Covered

(* artifact_for_index() and artifacts_available() *)
Loads(p, artifact) == artifact \in Reads[p] \cap cached

(* _semantic_state_for(): compatibility is decided before freshness. *)
Status(p) ==
    LET seen == calls[p].meta IN
    IF seen = None \/ (seen # None /\ seen.status # "ready") THEN "unavailable"
    ELSE IF ~Loads(p, seen.artifact) THEN "unavailable"
    ELSE IF Lacks(calls[p].pools) # {} THEN "stale"
    ELSE "ready"

(* What needs no repair, and what cannot be repaired, is reported as it    *)
(* is, and so is what is still stale after a refresh.                      *)
Classify(p) ==
    LET status == Status(p) IN
    /\ calls[p].step = "classifying"
    /\ Goto(p, [step |-> IF status = "stale" /\ ~calls[p].refreshed THEN "stale" ELSE "told",
                status |-> status, pools |-> calls[p].pools, calm |-> calls[p].calm])
    /\ UNCHANGED << canon, index, cached, rivals, races, due >>

(* _semantic_refresh(): the row is read again, and the model it names is   *)
(* loaded from the cache.  The mutant loads the one this process prefers.  *)
RefreshWith(p, usable) ==
    /\ calls[p].step = "stale"
    /\ IsReady
    /\ \E artifact \in usable :
         /\ Loads(p, artifact)
         /\ Goto(p, [step |-> "refreshing", pools |-> calls[p].pools, artifact |-> artifact, next |-> 1])
    /\ UNCHANGED << canon, index, cached, rivals, races, due >>

BeginRefresh_Preferred(p) == RefreshWith(p, Builds[p])
BeginRefresh(p) == RefreshWith(p, {meta.artifact})

(* Which of a pool's records the index misses is read before they are      *)
(* embedded.                                                               *)
FindPending(p) ==
    LET refresh == calls[p]
        pending == (refresh.pools \cap In(refresh.next)) \ Covered IN
    /\ refresh.step = "refreshing"
    /\ refresh.next <= Pools
    /\ Goto(p, IF pending = {} THEN [refresh EXCEPT !.next = @ + 1]
               ELSE [step |-> "embedding", pools |-> refresh.pools, artifact |-> refresh.artifact,
                     next |-> refresh.next, pending |-> pending])
    /\ UNCHANGED << canon, index, cached, rivals, races, due >>

AddPending(p) ==
    LET refresh == calls[p] IN
    /\ refresh.step = "embedding"
    /\ vectors' = Embed(refresh.pending, refresh.artifact)
    /\ Goto(p, [step |-> "refreshing", pools |-> refresh.pools, artifact |-> refresh.artifact,
                next |-> refresh.next + 1])
    /\ UNCHANGED << canon, meta, cached, rivals, races, due >>

(* The refresh is no evidence: the index is classified again, for the same *)
(* records.                                                                *)
EndRefresh(p) ==
    /\ calls[p].step = "refreshing"
    /\ calls[p].next > Pools
    /\ Goto(p, [step |-> "asked", pools |-> calls[p].pools, refreshed |-> TRUE])
    /\ UNCHANGED << canon, index, cached, rivals, races, due >>

(* An index that is locked or has been cleared, a model file that has      *)
(* gone: degraded.  semantic_state() does not try.                         *)
RefreshFails(p) ==
    /\ calls[p].step \in {"stale", "refreshing", "embedding"}
    /\ Goto(p, [step |-> "told", status |-> "stale", pools |-> calls[p].pools, calm |-> FALSE])
    /\ UNCHANGED << canon, index, cached, rivals, races, due >>

----------------------------------------------------------------------------
(* _semantic_context() and _semantic_vectors(): two connections *)

(* The row says which model embeds the task. *)
Context(p) ==
    /\ calls[p].step = "told"
    /\ IsReady
    /\ Loads(p, meta.artifact)
    /\ Goto(p, [step |-> "querying", status |-> calls[p].status, pools |-> calls[p].pools,
                calm |-> calls[p].calm, artifact |-> meta.artifact, steady |-> TRUE])
    /\ UNCHANGED << canon, index, cached, rivals, races, due >>

(* One pool's vectors as they are now, of the records that exist for the   *)
(* caller.  The mutant ranks whatever the index holds.                     *)
Ranked_All(p, pool) == [r \in Covered \cap In(pool) |-> vectors[r]]

Ranked(p, pool) == [r \in Covered \cap calls[p].pools \cap In(pool) |-> vectors[r]]

(* The call returns, with what it ranked if it was querying, or it fails   *)
(* or dies, wherever it is.                                                *)
Leave(p) ==
    /\ calls[p] # Idle
    /\ Goto(p, Idle)
    /\ UNCHANGED << canon, index, cached, rivals, races, due >>

----------------------------------------------------------------------------
Setup(p) == Gather(p) \/ BeginRebuild(p) \/ AddPool(p) \/ FinishRebuild(p)

Prepare(p) ==
    \/ ReadMeta(p) \/ Classify(p)
    \/ BeginRefresh(p) \/ FindPending(p) \/ AddPending(p) \/ EndRefresh(p)

Next ==
    \/ \E r \in Records : Write(r)
    \/ \E p \in Procs : Setup(p) \/ Ask(p) \/ Prepare(p) \/ RefreshFails(p) \/ Context(p) \/ Leave(p)

Spec == Init /\ [][Next]_vars

(* A call that is made goes on and returns, and calls are made again.      *)
Fairness ==
    \A p \in Procs : WF_vars(Setup(p) \/ Prepare(p) \/ Context(p)) /\ WF_vars(Leave(p)) /\ SF_vars(Ask(p))

FairSpec == Spec /\ Fairness

----------------------------------------------------------------------------
(* Properties *)

Steps ==
    [step : {"idle"}]
    \cup [step : {"gathered"}, artifact : Artifacts, pools : SUBSET Records]
    \cup [step : {"adding", "refreshing"}, artifact : Artifacts, pools : SUBSET Records, next : 1..(Pools + 1)]
    \cup [step : {"asked"}, pools : SUBSET Records, refreshed : BOOLEAN]
    \cup [step : {"embedding"}, artifact : Artifacts, pools : SUBSET Records, next : 1..Pools,
          pending : SUBSET Records]

Statuses == {"unavailable", "stale", "ready"}

Metas == {None} \cup [artifact : Artifacts, status : {"building", "ready"}]

Reports ==
    [step : {"classifying"}, pools : SUBSET Records, refreshed : BOOLEAN, meta : Metas, calm : BOOLEAN]
    \cup [step : {"stale", "told"}, status : Statuses, pools : SUBSET Records, calm : BOOLEAN]
    \cup [step : {"querying"}, status : Statuses, pools : SUBSET Records, calm : BOOLEAN,
          artifact : Artifacts, steady : BOOLEAN]

(* Every variable has its type. *)
TypeOK ==
    /\ canon \subseteq Records
    /\ meta \in Metas
    /\ vectors \in [Records -> Artifacts \cup {None}]
    /\ cached \subseteq Artifacts
    /\ calls \in [Procs -> Steps \cup Reports]
    /\ rivals \in BOOLEAN /\ races \in BOOLEAN
    /\ due \subseteq Records

Querying(p) == calls[p].step = "querying"

(* A task is compared only with vectors of the model that embedded it,     *)
(* unless the index was cleared between the two connections of the query,  *)
(* or while another process held another model to write with.              *)
OneSpace ==
    \A p \in Procs, pool \in 1..Pools :
        Querying(p) /\ calls[p].steady /\ ~rivals
            => \A r \in DOMAIN Ranked(p, pool) : Ranked(p, pool)[r] = calls[p].artifact

(* An index that says ready has everything its build was to embed, unless  *)
(* two setups were at work at once: an interrupted build never says so.    *)
PublishedIsWhole == IsReady /\ ~races => due \subseteq Covered

(* A call that is told the index is current ranks every record there was   *)
(* when it asked, and none that has been superseded, unless the index was  *)
(* cleared meanwhile.                                                      *)
ReadyIsComplete ==
    \A p \in Procs, pool \in 1..Pools :
        Querying(p) /\ calls[p].status = "ready" /\ calls[p].calm
            => DOMAIN Ranked(p, pool) = calls[p].pools \cap In(pool)

Usable(p) == IsReady /\ Loads(p, meta.artifact)

(* What keeps an index from being repaired if it happens again and again.  *)
Setback ==
    \E p \in Procs :
        \/ BeginRebuild(p)
        \/ RefreshFails(p) /\ Usable(p)
        \/ Leave(p) /\ calls[p].step \in {"asked", "classifying", "stale", "refreshing", "embedding"}

(* Whatever is recorded, a ready index comes to cover it by the calls that *)
(* use it, without another setup.                                          *)
Heals ==
    []<>((\E p \in Procs : Usable(p)) => canon \subseteq Covered) \/ []<><<Setback>>_vars
=============================================================================
