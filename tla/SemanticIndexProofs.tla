------------------------- MODULE SemanticIndexProofs -------------------------
(***************************************************************************)
(* Theorems about SemanticIndex, for any number of processes, records and  *)
(* pools, and any artifacts.                                               *)
(***************************************************************************)
EXTENDS SemanticIndex, TLAPS

----------------------------------------------------------------------------
(* The inductive invariant *)

(* A build has begun before anybody writes. *)
WritersHaveIndex == \A p \in Procs : Writing(p) => meta # None

(* Unless another artifact's writer was at work when the build began, all  *)
(* vectors and all who write are of the artifact that the row names.       *)
OneArtifact ==
    /\ meta = None => \A r \in Records : vectors[r] = None
    /\ ~rivals =>
         /\ \A r \in Covered : vectors[r] = meta.artifact
         /\ \A p \in Procs : Writing(p) => calls[p].artifact = meta.artifact

(* A query that no clearing has disturbed has the index's own model.       *)
QueryHasModel ==
    \A p \in Procs : Querying(p) /\ calls[p].steady
        => meta # None /\ calls[p].artifact = meta.artifact

(* Unless two setups were at work at once, whoever adds is the setup whose *)
(* build this is, and has added the pools before the next.                 *)
BuildInProgress ==
    ~races => \A p \in Procs : Adding(p) =>
        /\ calls[p].pools = due
        /\ \A r \in due : PoolOf[r] < calls[p].next => r \in Covered

(* Who is told that the index is current finds it so until it is cleared.  *)
ReadyCovers ==
    \A p \in Procs :
        calls[p].step \in {"told", "querying"} /\ calls[p].status = "ready" /\ calls[p].calm
            => calls[p].pools \subseteq Covered

IInv ==
    /\ TypeOK /\ WritersHaveIndex
    /\ OneArtifact /\ QueryHasModel
    /\ BuildInProgress /\ PublishedIsWhole
    /\ ReadyCovers
----------------------------------------------------------------------------
(* Calls *)

(* What a call carries is told by its step.                                *)
LEMMA CallShapes ==
    ASSUME NEW call \in Steps \cup Reports
    PROVE  /\ call.step = "idle" <=> call = Idle
           /\ call.step = "gathered" =>
                call \in [step : {"gathered"}, artifact : Artifacts, pools : SUBSET Records]
           /\ call.step \in {"adding", "refreshing"} =>
                call \in [step : {"adding", "refreshing"}, artifact : Artifacts,
                          pools : SUBSET Records, next : 1..(Pools + 1)]
           /\ call.step = "asked" =>
                call \in [step : {"asked"}, pools : SUBSET Records, refreshed : BOOLEAN]
           /\ call.step = "embedding" =>
                call \in [step : {"embedding"}, artifact : Artifacts, pools : SUBSET Records,
                          next : 1..Pools, pending : SUBSET Records]
           /\ call.step = "classifying" =>
                call \in [step : {"classifying"}, pools : SUBSET Records, refreshed : BOOLEAN,
                          meta : Metas, calm : BOOLEAN]
           /\ call.step \in {"stale", "told"} =>
                call \in [step : {"stale", "told"}, status : Statuses, pools : SUBSET Records,
                          calm : BOOLEAN]
           /\ call.step = "querying" =>
                call \in [step : {"querying"}, status : Statuses, pools : SUBSET Records,
                          calm : BOOLEAN, artifact : Artifacts, steady : BOOLEAN]
  BY DEF Steps, Reports, Idle

(* The clearing of the index disturbs who reads it and nobody else.        *)
LEMMA DisturbedFacts ==
    ASSUME NEW call \in Steps \cup Reports
    PROVE  /\ Disturbed(call) \in Steps \cup Reports
           /\ Disturbed(call).step = call.step
           /\ call.step \in {"adding", "refreshing", "embedding"} =>
                Disturbed(call).artifact = call.artifact
           /\ call.step \in {"told", "querying"} => ~Disturbed(call).calm
           /\ call.step = "querying" => ~Disturbed(call).steady
  <1>1. CASE call \in [step : {"idle"}]
    BY <1>1 DEF Disturbed, Steps
  <1>2. CASE call \in [step : {"gathered"}, artifact : Artifacts, pools : SUBSET Records]
    BY <1>2 DEF Disturbed, Steps
  <1>3. CASE call \in [step : {"adding", "refreshing"}, artifact : Artifacts, pools : SUBSET Records,
                       next : 1..(Pools + 1)]
    BY <1>3 DEF Disturbed, Steps
  <1>4. CASE call \in [step : {"asked"}, pools : SUBSET Records, refreshed : BOOLEAN]
    BY <1>4 DEF Disturbed, Steps
  <1>5. CASE call \in [step : {"embedding"}, artifact : Artifacts, pools : SUBSET Records,
                       next : 1..Pools, pending : SUBSET Records]
    BY <1>5 DEF Disturbed, Steps
  <1>6. CASE call \in [step : {"classifying"}, pools : SUBSET Records, refreshed : BOOLEAN,
                       meta : Metas, calm : BOOLEAN]
    BY <1>6 DEF Disturbed, Reports
  <1>7. CASE call \in [step : {"stale", "told"}, status : Statuses, pools : SUBSET Records,
                       calm : BOOLEAN]
    BY <1>7 DEF Disturbed, Reports
  <1>8. CASE call \in [step : {"querying"}, status : Statuses, pools : SUBSET Records, calm : BOOLEAN,
                       artifact : Artifacts, steady : BOOLEAN]
    BY <1>8 DEF Disturbed, Reports
  <1> QED
    BY <1>1, <1>2, <1>3, <1>4, <1>5, <1>6, <1>7, <1>8 DEF Steps, Reports

----------------------------------------------------------------------------
(* Type correctness *)

(* A call that becomes another of the right shape keeps all of them so.    *)
LEMMA GotoKeepsType ==
    ASSUME TypeOK, NEW p \in Procs, NEW call \in Steps \cup Reports, Goto(p, call)
    PROVE  calls' \in [Procs -> Steps \cup Reports]
  BY DEF TypeOK, Goto

LEMMA EmbedType ==
    ASSUME TypeOK, NEW records, NEW artifact \in Artifacts
    PROVE  Embed(records, artifact) \in [Records -> Artifacts \cup {None}]
  BY DEF TypeOK, Embed

LEMMA SetupKeepsType ==
    ASSUME TypeOK, WritersHaveIndex, NEW p \in Procs, Setup(p)
    PROVE  TypeOK'
  <1> USE SemanticAssumption
  <1>c. calls[p] \in Steps \cup Reports
    BY DEF TypeOK
  <1>1. CASE Gather(p)
    <2>1. PICK artifact \in Builds[p] :
            /\ cached' = cached \cup {artifact}
            /\ Goto(p, [step |-> "gathered", artifact |-> artifact, pools |-> canon])
      BY <1>1 DEF Gather
    <2>2. artifact \in Artifacts
      OBVIOUS
    <2>3. [step |-> "gathered", artifact |-> artifact, pools |-> canon] \in Steps \cup Reports
      BY <2>2 DEF Steps, TypeOK
    <2>4. calls' \in [Procs -> Steps \cup Reports]
      BY <2>1, <2>3, GotoKeepsType
    <2> QED
      BY <1>1, <2>1, <2>2, <2>4 DEF Gather, TypeOK, index
  <1>2. CASE BeginRebuild(p)
    <2>1. calls[p] \in [step : {"gathered"}, artifact : Artifacts, pools : SUBSET Records]
      BY <1>c, <1>2, CallShapes DEF BeginRebuild, BeginRebuildAs
    <2>2. [step |-> "adding", artifact |-> calls[p].artifact, pools |-> calls[p].pools, next |-> 1]
            \in Steps \cup Reports
      BY <2>1 DEF Steps
    <2>3. \A q \in Procs : Disturbed(calls[q]) \in Steps \cup Reports
      BY DisturbedFacts DEF TypeOK
    <2>4. calls' \in [Procs -> Steps \cup Reports]
      BY <1>2, <2>2, <2>3 DEF BeginRebuild, BeginRebuildAs
    <2>5. meta' \in Metas
      BY <1>2, <2>1 DEF BeginRebuild, BeginRebuildAs, Metas
    <2> QED
      BY <1>2, <2>1, <2>4, <2>5 DEF BeginRebuild, BeginRebuildAs, TypeOK
  <1>3. CASE AddPool(p)
    <2>1. calls[p] \in [step : {"adding", "refreshing"}, artifact : Artifacts,
                        pools : SUBSET Records, next : 1..(Pools + 1)]
      BY <1>c, <1>3, CallShapes DEF AddPool, Adding
    <2>2. [calls[p] EXCEPT !.next = @ + 1] \in Steps \cup Reports
      BY <2>1, <1>3 DEF Steps, AddPool
    <2>3. calls' \in [Procs -> Steps \cup Reports]
      BY <1>3, <2>2 DEF AddPool, TypeOK
    <2>4. vectors' \in [Records -> Artifacts \cup {None}]
      BY <1>3, <2>1, EmbedType DEF AddPool
    <2> QED
      BY <1>3, <2>3, <2>4 DEF AddPool, TypeOK
  <1>4. CASE FinishRebuild(p)
    <2>1. Idle \in Steps \cup Reports
      BY DEF Idle, Steps
    <2>2. calls' \in [Procs -> Steps \cup Reports]
      BY <1>4, <2>1, GotoKeepsType DEF FinishRebuild
    <2>3. meta # None
      BY <1>4 DEF FinishRebuild, WritersHaveIndex, Writing, Adding
    <2> QED
      BY <1>4, <2>2, <2>3 DEF FinishRebuild, TypeOK, Metas, Ready
  <1> QED
    BY <1>1, <1>2, <1>3, <1>4 DEF Setup

LEMMA PrepareKeepsType ==
    ASSUME TypeOK, NEW p \in Procs,
           Ask(p) \/ Prepare(p) \/ RefreshFails(p) \/ Context(p) \/ Leave(p)
    PROVE  TypeOK'
  <1> USE SemanticAssumption
  <1>c. calls[p] \in Steps \cup Reports
    BY DEF TypeOK
  <1> SUFFICES calls' \in [Procs -> Steps \cup Reports]
    <2>1. CASE AddPending(p)
      <3>1. calls[p].artifact \in Artifacts
        BY <1>c, <2>1, CallShapes DEF AddPending
      <3> QED
        BY <2>1, <3>1, EmbedType DEF AddPending, TypeOK
    <2>2. CASE ~AddPending(p)
      BY <2>2 DEF TypeOK, index, Ask, Prepare, RefreshFails, Context, Leave,
           ReadMeta, Classify, BeginRefresh, RefreshWith, FindPending, EndRefresh
    <2> QED
      BY <2>1, <2>2
  <1>1. CASE Ask(p)
    <2>1. [step |-> "asked", pools |-> canon, refreshed |-> FALSE] \in Steps
      BY DEF Steps, TypeOK
    <2> QED
      BY <1>1, <2>1, GotoKeepsType DEF Ask
  <1>2. CASE ReadMeta(p)
    <2>1. calls[p] \in [step : {"asked"}, pools : SUBSET Records, refreshed : BOOLEAN]
      BY <1>c, <1>2, CallShapes DEF ReadMeta
    <2>2. [step |-> "classifying", pools |-> calls[p].pools, refreshed |-> calls[p].refreshed,
           meta |-> meta, calm |-> TRUE] \in Reports
      BY <2>1 DEF Reports, TypeOK
    <2> QED
      BY <1>2, <2>2, GotoKeepsType DEF ReadMeta
  <1>3. CASE Classify(p)
    <2>1. calls[p] \in [step : {"classifying"}, pools : SUBSET Records, refreshed : BOOLEAN,
                        meta : Metas, calm : BOOLEAN]
      BY <1>c, <1>3, CallShapes DEF Classify
    <2>2. Status(p) \in Statuses
      BY DEF Status, Statuses
    <2> DEFINE step == IF Status(p) = "stale" /\ ~calls[p].refreshed THEN "stale" ELSE "told"
    <2>3. step \in {"stale", "told"}
      OBVIOUS
    <2>4. [step |-> step, status |-> Status(p), pools |-> calls[p].pools, calm |-> calls[p].calm]
            \in Reports
      <3> HIDE DEF step
      <3> QED
        BY <2>1, <2>2, <2>3 DEF Reports
    <2> QED
      BY <1>3, <2>4, GotoKeepsType DEF Classify
  <1>4. CASE BeginRefresh(p)
    <2>1. PICK artifact \in {meta.artifact} :
            /\ Loads(p, artifact)
            /\ Goto(p, [step |-> "refreshing", pools |-> calls[p].pools, artifact |-> artifact, next |-> 1])
      BY <1>4 DEF BeginRefresh, RefreshWith
    <2>2. artifact \in Artifacts
      BY <2>1 DEF Loads
    <2>3. calls[p] \in [step : {"stale", "told"}, status : Statuses, pools : SUBSET Records,
                        calm : BOOLEAN]
      BY <1>c, <1>4, CallShapes DEF BeginRefresh, RefreshWith
    <2>4. [step |-> "refreshing", pools |-> calls[p].pools, artifact |-> artifact, next |-> 1] \in Steps
      BY <2>2, <2>3 DEF Steps
    <2> QED
      BY <2>1, <2>4, GotoKeepsType
  <1>5. CASE FindPending(p)
    <2> DEFINE pending == (calls[p].pools \cap In(calls[p].next)) \ Covered
               further == [calls[p] EXCEPT !.next = @ + 1]
               embedding == [step |-> "embedding", pools |-> calls[p].pools, artifact |-> calls[p].artifact,
                             next |-> calls[p].next, pending |-> pending]
    <2>1. /\ calls[p] \in [step : {"adding", "refreshing"}, artifact : Artifacts, pools : SUBSET Records,
                            next : 1..(Pools + 1)]
          /\ calls[p].next \in 1..Pools
      BY <1>c, <1>5, CallShapes DEF FindPending
    <2>2. further \in Steps
      BY <2>1 DEF Steps
    <2>3. embedding \in Steps
      <3>1. pending \in SUBSET Records
        BY <2>1
      <3> HIDE DEF pending
      <3> QED
        BY <2>1, <3>1 DEF Steps
    <2>4. Goto(p, further) \/ Goto(p, embedding)
      BY <1>5 DEF FindPending
    <2> HIDE DEF further, embedding
    <2> QED
      BY <2>2, <2>3, <2>4, GotoKeepsType
  <1>6. CASE AddPending(p)
    <2>1. calls[p] \in [step : {"embedding"}, artifact : Artifacts, pools : SUBSET Records,
                        next : 1..Pools, pending : SUBSET Records]
      BY <1>c, <1>6, CallShapes DEF AddPending
    <2>2. [step |-> "refreshing", pools |-> calls[p].pools, artifact |-> calls[p].artifact,
           next |-> calls[p].next + 1] \in Steps
      BY <2>1 DEF Steps
    <2> QED
      BY <1>6, <2>2, GotoKeepsType DEF AddPending
  <1>7. CASE EndRefresh(p)
    <2>1. calls[p].pools \in SUBSET Records
      BY <1>c, <1>7, CallShapes DEF EndRefresh
    <2>2. [step |-> "asked", pools |-> calls[p].pools, refreshed |-> TRUE] \in Steps
      BY <2>1 DEF Steps
    <2> QED
      BY <1>7, <2>2, GotoKeepsType DEF EndRefresh
  <1>8. CASE RefreshFails(p)
    <2>1. calls[p].pools \in SUBSET Records
      BY <1>c, <1>8, CallShapes DEF RefreshFails
    <2>2. [step |-> "told", status |-> "stale", pools |-> calls[p].pools, calm |-> FALSE] \in Reports
      BY <2>1 DEF Reports, Statuses
    <2> QED
      BY <1>8, <2>2, GotoKeepsType DEF RefreshFails
  <1>9. CASE Context(p)
    <2>1. calls[p] \in [step : {"stale", "told"}, status : Statuses, pools : SUBSET Records,
                        calm : BOOLEAN]
      BY <1>c, <1>9, CallShapes DEF Context
    <2>2. meta.artifact \in Artifacts
      BY <1>9 DEF Context, Loads
    <2>3. [step |-> "querying", status |-> calls[p].status, pools |-> calls[p].pools,
           calm |-> calls[p].calm, artifact |-> meta.artifact, steady |-> TRUE] \in Reports
      BY <2>1, <2>2 DEF Reports
    <2> QED
      BY <1>9, <2>3, GotoKeepsType DEF Context
  <1>10. CASE Leave(p)
    <2>1. Idle \in Steps
      BY DEF Idle, Steps
    <2> QED
      BY <1>10, <2>1, GotoKeepsType DEF Leave
  <1> QED
    BY <1>1, <1>2, <1>3, <1>4, <1>5, <1>6, <1>7, <1>8, <1>9, <1>10 DEF Prepare

----------------------------------------------------------------------------
(* The steps, by what they do to the index *)

(* What a call may come to be when its step leaves the index alone.        *)
FitsIndex(call) ==
    /\ call.step # "adding"
    /\ call.step \in {"refreshing", "embedding"} =>
         meta # None /\ (~rivals => call.artifact = meta.artifact)
    /\ call.step = "querying" /\ call.steady => meta # None /\ call.artifact = meta.artifact
    /\ call.step \in {"told", "querying"} /\ call.status = "ready" /\ call.calm
         => call.pools \subseteq Covered

IndexAlone == UNCHANGED << index, rivals, races, due >>

(* A step of one call that only looks keeps the invariant.                 *)
LEMMA LookingKeeps ==
    ASSUME IInv, TypeOK', NEW p \in Procs, NEW call, FitsIndex(call), Goto(p, call), IndexAlone
    PROVE  IInv'
  <1>1. \A q \in Procs : calls'[q] = IF q = p THEN call ELSE calls[q]
    BY DEF Goto, IInv, TypeOK
  <1>2. Covered' = Covered
    BY DEF IndexAlone, index, Covered
  <1> USE DEF IndexAlone, index, FitsIndex
  <1>3. WritersHaveIndex'
    BY <1>1 DEF IInv, WritersHaveIndex, Writing
  <1>4. OneArtifact'
    BY <1>1, <1>2 DEF IInv, OneArtifact, Writing
  <1>5. QueryHasModel'
    BY <1>1 DEF IInv, QueryHasModel, Querying
  <1>6. BuildInProgress'
    BY <1>1, <1>2 DEF IInv, BuildInProgress, Adding
  <1>7. PublishedIsWhole'
    BY <1>2 DEF IInv, PublishedIsWhole, IsReady
  <1>8. ReadyCovers'
    BY <1>1, <1>2 DEF IInv, ReadyCovers
  <1> QED
    BY <1>3, <1>4, <1>5, <1>6, <1>7, <1>8 DEF IInv

(* A call is told the index is current only if it covers the records.      *)
LEMMA ReadyMeansCovered ==
    ASSUME NEW p \in Procs, Status(p) = "ready"
    PROVE  calls[p].pools \subseteq Covered
  BY DEF Status, Lacks

LEMMA LookingFits ==
    ASSUME IInv, NEW p \in Procs,
           \/ Gather(p) \/ Ask(p) \/ ReadMeta(p) \/ Classify(p) \/ BeginRefresh(p) \/ FindPending(p)
           \/ EndRefresh(p) \/ RefreshFails(p) \/ Context(p) \/ Leave(p)
    PROVE  IndexAlone /\ \E call : FitsIndex(call) /\ Goto(p, call)
  <1> USE DEF IndexAlone, index
  <1>c. calls[p] \in Steps \cup Reports
    BY DEF IInv, TypeOK
  <1>1. CASE Gather(p)
    BY <1>1 DEF Gather, FitsIndex
  <1>2. CASE Ask(p)
    BY <1>2 DEF Ask, FitsIndex
  <1>3. CASE ReadMeta(p)
    BY <1>3 DEF ReadMeta, FitsIndex
  <1>4. CASE Classify(p)
    <2> DEFINE step == IF Status(p) = "stale" /\ ~calls[p].refreshed THEN "stale" ELSE "told"
               call == [step |-> step, status |-> Status(p), pools |-> calls[p].pools,
                        calm |-> calls[p].calm]
    <2>1. step \in {"stale", "told"}
      OBVIOUS
    <2>2. FitsIndex(call)
      <3> HIDE DEF step
      <3> QED
        BY <2>1, ReadyMeansCovered DEF FitsIndex
    <2>3. Goto(p, call)
      BY <1>4 DEF Classify
    <2> QED
      BY <1>4, <2>2, <2>3 DEF Classify
  <1>5. CASE BeginRefresh(p)
    BY <1>5 DEF BeginRefresh, RefreshWith, IsReady, FitsIndex
  <1>6. CASE FindPending(p)
    <2> DEFINE pending == (calls[p].pools \cap In(calls[p].next)) \ Covered
               further == [calls[p] EXCEPT !.next = @ + 1]
               embedding == [step |-> "embedding", pools |-> calls[p].pools, artifact |-> calls[p].artifact,
                             next |-> calls[p].next, pending |-> pending]
    <2>1. /\ calls[p] \in [step : {"adding", "refreshing"}, artifact : Artifacts, pools : SUBSET Records,
                            next : 1..(Pools + 1)]
          /\ calls[p].step = "refreshing"
      BY <1>c, <1>6, CallShapes DEF FindPending
    <2>2. meta # None /\ (~rivals => calls[p].artifact = meta.artifact)
      BY <2>1 DEF IInv, WritersHaveIndex, OneArtifact, Writing
    <2>3. further.step = "refreshing" /\ further.artifact = calls[p].artifact
      BY <2>1
    <2>4. embedding.step = "embedding" /\ embedding.artifact = calls[p].artifact
      OBVIOUS
    <2>5. Goto(p, further) \/ Goto(p, embedding)
      BY <1>6 DEF FindPending
    <2> HIDE DEF further, embedding
    <2> QED
      BY <1>6, <2>2, <2>3, <2>4, <2>5 DEF FitsIndex, FindPending
  <1>7. CASE EndRefresh(p)
    BY <1>7 DEF EndRefresh, FitsIndex
  <1>8. CASE RefreshFails(p)
    BY <1>8 DEF RefreshFails, FitsIndex
  <1>9. CASE Context(p)
    <2> DEFINE call == [step |-> "querying", status |-> calls[p].status, pools |-> calls[p].pools,
                        calm |-> calls[p].calm, artifact |-> meta.artifact, steady |-> TRUE]
    <2>1. calls[p].status = "ready" /\ calls[p].calm => calls[p].pools \subseteq Covered
      BY <1>9 DEF Context, IInv, ReadyCovers
    <2>2. FitsIndex(call)
      BY <1>9, <2>1 DEF FitsIndex, Context, IsReady
    <2> QED
      BY <1>9, <2>2 DEF Context
  <1>10. CASE Leave(p)
    BY <1>10 DEF Leave, FitsIndex, Idle
  <1> QED
    BY <1>1, <1>2, <1>3, <1>4, <1>5, <1>6, <1>7, <1>8, <1>9, <1>10

(* Clearing the index leaves no reader undisturbed, and one setup at work  *)
(* unless races says so.                                                   *)
LEMMA ClearingKeeps ==
    ASSUME IInv, TypeOK', NEW p \in Procs, BeginRebuild(p)
    PROVE  IInv'
  <1> DEFINE mine == calls[p].artifact
             adding == [step |-> "adding", artifact |-> mine, pools |-> calls[p].pools, next |-> 1]
  <1>1. /\ meta' = [artifact |-> mine, status |-> "building"]
        /\ vectors' = [r \in Records |-> None]
        /\ rivals' = \E q \in Procs \ {p} : Writing(q) /\ calls[q].artifact # mine
        /\ races' = \E q \in Procs \ {p} : Adding(q)
        /\ due' = calls[p].pools
        /\ calls' = [q \in Procs |-> IF q = p THEN adding ELSE Disturbed(calls[q])]
    BY DEF BeginRebuild, BeginRebuildAs
  <1>2. \A q \in Procs : calls[q] \in Steps \cup Reports
    BY DEF IInv, TypeOK
  <1>3. \A q \in Procs \ {p} :
          /\ calls'[q].step = calls[q].step
          /\ Writing(q) => calls'[q].artifact = calls[q].artifact
          /\ calls'[q].step \in {"told", "querying"} => ~calls'[q].calm
          /\ calls'[q].step = "querying" => ~calls'[q].steady
    <2> TAKE q \in Procs \ {p}
    <2>1. calls'[q] = Disturbed(calls[q])
      BY <1>1
    <2> QED
      BY <1>2, <2>1, DisturbedFacts DEF Writing
  <1>4. calls'[p] = adding
    BY <1>1
  <1>5. meta' # None
    <2>1. mine \in Artifacts
      BY <1>2, CallShapes DEF BeginRebuild, BeginRebuildAs
    <2>2. meta' \in [artifact : Artifacts, status : {"building", "ready"}]
      BY <1>1, <2>1
    <2> QED
      BY <2>2, SemanticAssumption
  <1>6. Covered' = {}
    BY <1>1 DEF Covered
  <1>7. meta'.artifact = mine /\ meta'.status = "building"
    BY <1>1
  <1>8. WritersHaveIndex'
    BY <1>5 DEF WritersHaveIndex
  <1>9. OneArtifact'
    <2>1. ASSUME ~rivals', NEW q \in Procs, Writing(q)'
          PROVE  calls'[q].artifact = meta'.artifact
      <3>1. CASE q = p
        BY <3>1, <1>4, <1>7
      <3>2. CASE q # p
        BY <3>2, <2>1, <1>1, <1>3, <1>7 DEF Writing
      <3> QED
        BY <3>1, <3>2
    <2> QED
      BY <1>5, <1>6, <2>1 DEF OneArtifact
  <1>10. QueryHasModel'
    BY <1>3, <1>4 DEF QueryHasModel, Querying
  <1>11. BuildInProgress'
    <2>1. ASSUME ~races', NEW q \in Procs, Adding(q)'
          PROVE  q = p
      BY <2>1, <1>1, <1>3 DEF Adding
    <2>2. \A r \in due' : ~(PoolOf[r] < 1)
      BY <1>1, <1>2, CallShapes, SemanticAssumption DEF BeginRebuild, BeginRebuildAs
    <2> QED
      BY <1>1, <1>4, <2>1, <2>2 DEF BuildInProgress
  <1>12. PublishedIsWhole'
    BY <1>7 DEF PublishedIsWhole, IsReady
  <1>13. ReadyCovers'
    BY <1>3, <1>4 DEF ReadyCovers
  <1> QED
    BY <1>8, <1>9, <1>10, <1>11, <1>12, <1>13 DEF IInv

(* Vectors written for a pool cover more and lose nothing; they are of the *)
(* index's artifact if their writer is.                                    *)
LEMMA EmbeddingKeeps ==
    ASSUME IInv, TypeOK', NEW p \in Procs, AddPool(p) \/ AddPending(p)
    PROVE  IInv'
  <1>1. /\ Writing(p)
        /\ UNCHANGED << meta, rivals, races, due >>
        /\ \E records : vectors' = Embed(records, calls[p].artifact)
    BY DEF AddPool, AddPending, Adding, Writing
  <1>2. PICK records : vectors' = Embed(records, calls[p].artifact)
    BY <1>1
  <1>3. calls[p] \in Steps \cup Reports
    BY DEF IInv, TypeOK
  <1>4. calls[p].artifact \in Artifacts /\ calls[p].artifact # None
    BY <1>1, <1>3, CallShapes, SemanticAssumption DEF Writing
  <1>5. \A r \in Records : vectors'[r] = IF r \in records THEN calls[p].artifact ELSE vectors[r]
    BY <1>2 DEF Embed
  <1>6. Covered \subseteq Covered'
    BY <1>4, <1>5 DEF Covered
  <1>7. /\ \A q \in Procs \ {p} : calls'[q] = calls[q]
        /\ calls'[p].step \in {"adding", "refreshing"}
        /\ calls'[p].step = "adding" <=> AddPool(p)
        /\ calls'[p].artifact = calls[p].artifact
    <2>1. CASE AddPool(p)
      <3>1. calls'[p] = [calls[p] EXCEPT !.next = @ + 1]
        BY <2>1 DEF AddPool, IInv, TypeOK
      <3>2. calls[p] \in [step : {"adding", "refreshing"}, artifact : Artifacts,
                          pools : SUBSET Records, next : 1..(Pools + 1)]
        BY <1>3, <2>1, CallShapes DEF AddPool, Adding
      <3>3. calls'[p].step = "adding" /\ calls'[p].artifact = calls[p].artifact
        BY <2>1, <3>1, <3>2 DEF AddPool, Adding
      <3> QED
        BY <2>1, <3>3 DEF AddPool
    <2>2. CASE AddPending(p)
      <3>1. calls'[p] = [step |-> "refreshing", pools |-> calls[p].pools, artifact |-> calls[p].artifact,
                         next |-> calls[p].next + 1]
        BY <2>2 DEF AddPending, Goto, IInv, TypeOK
      <3> QED
        BY <2>2, <3>1 DEF AddPending, AddPool, Adding, Goto
    <2> QED
      BY <2>1, <2>2
  <1>8. WritersHaveIndex'
    BY <1>1, <1>7 DEF IInv, WritersHaveIndex, Writing
  <1>9. OneArtifact'
    <2>1. meta' # None
      BY <1>1 DEF IInv, WritersHaveIndex
    <2>2. ASSUME ~rivals', NEW r \in Covered'
          PROVE  vectors'[r] = meta'.artifact
      <3>1. calls[p].artifact = meta.artifact
        BY <1>1, <2>2 DEF IInv, OneArtifact
      <3>2. r \in Records /\ vectors'[r] # None
        BY <2>2 DEF Covered
      <3>3. r \in records \/ r \in Covered
        BY <1>5, <3>2 DEF Covered
      <3> QED
        BY <1>1, <1>5, <2>2, <3>1, <3>2, <3>3 DEF IInv, OneArtifact
    <2>3. ASSUME ~rivals', NEW q \in Procs, Writing(q)'
          PROVE  calls'[q].artifact = meta'.artifact
      BY <1>1, <1>7, <2>3 DEF IInv, OneArtifact, Writing
    <2> QED
      BY <2>1, <2>2, <2>3 DEF OneArtifact
  <1>10. QueryHasModel'
    BY <1>1, <1>7 DEF IInv, QueryHasModel, Querying
  <1>11. BuildInProgress'
    <2> SUFFICES ASSUME ~races', NEW q \in Procs, Adding(q)'
                 PROVE  /\ calls'[q].pools = due'
                        /\ \A r \in due' : PoolOf[r] < calls'[q].next => r \in Covered'
      BY DEF BuildInProgress
    <2>1. CASE q # p
      BY <1>1, <1>6, <1>7, <2>1 DEF IInv, BuildInProgress, Adding
    <2>2. CASE q = p
      <3>1. AddPool(p)
        BY <1>7, <2>2 DEF Adding
      <3>2. /\ calls[p].pools = due
            /\ \A r \in due : PoolOf[r] < calls[p].next => r \in Covered
        BY <1>1, <3>1 DEF IInv, BuildInProgress, AddPool
      <3>3. calls[p] \in [step : {"adding", "refreshing"}, artifact : Artifacts,
                          pools : SUBSET Records, next : 1..(Pools + 1)]
        BY <1>3, <3>1, CallShapes DEF AddPool, Adding
      <3>4. calls'[p] = [calls[p] EXCEPT !.next = @ + 1]
        BY <3>1 DEF AddPool, IInv, TypeOK
      <3>5. calls'[p].pools = calls[p].pools /\ calls'[p].next = calls[p].next + 1
        BY <3>3, <3>4
      <3>6. vectors' = Embed(calls[p].pools \cap In(calls[p].next), calls[p].artifact)
        BY <3>1 DEF AddPool
      <3>7. due \subseteq Records
        BY DEF IInv, TypeOK
      <3>8. ASSUME NEW r \in due, PoolOf[r] < calls[p].next + 1
            PROVE  r \in Covered'
        <4>1. CASE PoolOf[r] < calls[p].next
          BY <1>6, <3>2, <4>1
        <4>2. CASE PoolOf[r] = calls[p].next
          <5>1. r \in calls[p].pools \cap In(calls[p].next)
            BY <3>2, <3>7, <4>2 DEF In
          <5>2. vectors'[r] = calls[p].artifact
            BY <3>6, <3>7, <5>1 DEF Embed
          <5> QED
            BY <1>4, <3>7, <5>2 DEF Covered
        <4>3. PoolOf[r] \in Nat /\ calls[p].next \in Nat
          BY <3>3, <3>7, SemanticAssumption
        <4> QED
          BY <3>8, <4>1, <4>2, <4>3
      <3> QED
        BY <1>1, <2>2, <3>2, <3>5, <3>8
    <2> QED
      BY <2>1, <2>2
  <1>12. PublishedIsWhole'
    BY <1>1, <1>6 DEF IInv, PublishedIsWhole, IsReady
  <1>13. ReadyCovers'
    BY <1>6, <1>7 DEF IInv, ReadyCovers
  <1> QED
    BY <1>8, <1>9, <1>10, <1>11, <1>12, <1>13 DEF IInv

(* Whoever finishes has added every pool.                                  *)
LEMMA FinishingKeeps ==
    ASSUME IInv, TypeOK', NEW p \in Procs, FinishRebuild(p)
    PROVE  IInv'
  <1>1. /\ Adding(p) /\ calls[p].next > Pools
        /\ meta' = [artifact |-> meta.artifact, status |-> "ready"]
        /\ UNCHANGED << vectors, rivals, races, due >>
    BY DEF FinishRebuild, Ready
  <1>2. \A q \in Procs : calls'[q] = IF q = p THEN Idle ELSE calls[q]
    BY DEF FinishRebuild, Goto, IInv, TypeOK
  <1>3. Idle.step = "idle"
    BY DEF Idle
  <1>4. meta # None /\ meta' # None /\ meta'.artifact = meta.artifact
    <2>1. meta # None
      BY <1>1 DEF IInv, WritersHaveIndex, Writing, Adding
    <2>2. meta.artifact \in Artifacts
      BY <2>1 DEF IInv, TypeOK, Metas
    <2>3. meta' # None
      <3>1. meta' \in [artifact : Artifacts, status : {"building", "ready"}]
        BY <1>1, <2>2
      <3> QED
        BY <3>1, SemanticAssumption
    <2> QED
      BY <1>1, <2>1, <2>3
  <1>5. Covered' = Covered
    BY <1>1 DEF Covered
  <1>6. WritersHaveIndex'
    BY <1>4 DEF WritersHaveIndex
  <1>7. OneArtifact'
    BY <1>1, <1>2, <1>3, <1>4, <1>5 DEF IInv, OneArtifact, Writing
  <1>8. QueryHasModel'
    BY <1>2, <1>3, <1>4 DEF IInv, QueryHasModel, Querying
  <1>9. BuildInProgress'
    BY <1>1, <1>2, <1>3, <1>5 DEF IInv, BuildInProgress, Adding
  <1>10. PublishedIsWhole'
    <2> SUFFICES ASSUME ~races, NEW r \in due
                 PROVE  r \in Covered
      BY <1>1, <1>5 DEF PublishedIsWhole
    <2>1. r \in Records
      BY DEF IInv, TypeOK
    <2>2. calls[p] \in Steps \cup Reports
      BY DEF IInv, TypeOK
    <2>3. calls[p].next \in 1..(Pools + 1)
      BY <1>1, <2>2, CallShapes DEF Adding
    <2>4. PoolOf[r] < calls[p].next
      BY <1>1, <2>1, <2>3, SemanticAssumption
    <2> QED
      BY <1>1, <2>4 DEF IInv, BuildInProgress
  <1>11. ReadyCovers'
    BY <1>2, <1>3, <1>5 DEF IInv, ReadyCovers
  <1> QED
    BY <1>6, <1>7, <1>8, <1>9, <1>10, <1>11 DEF IInv

----------------------------------------------------------------------------
(* Theorems *)

(* In the beginning nobody is at work, and an index that says ready was    *)
(* completed by some setup.                                                *)
LEMMA InitHasInvariant == Init => IInv
  <1> SUFFICES ASSUME Init PROVE IInv
    OBVIOUS
  <1>1. PICK artifact \in Artifacts, have \in SUBSET canon :
          /\ meta \in {None, Building(artifact), Ready(artifact)}
          /\ vectors = [r \in Records |-> IF meta # None /\ r \in have THEN artifact ELSE None]
          /\ cached \in {{}, {artifact}}
          /\ due = IF IsReady THEN have ELSE {}
    BY DEF Init
  <1>2. /\ canon \subseteq Records
        /\ calls = [p \in Procs |-> Idle]
        /\ rivals = FALSE /\ races = FALSE
    BY DEF Init
  <1>3. Idle.step = "idle" /\ Idle \in Steps
    BY DEF Idle, Steps
  <1>4. meta = None \/ meta.artifact = artifact
    BY <1>1 DEF Building, Ready
  <1>5. TypeOK
    <2>1. meta \in Metas
      BY <1>1 DEF Building, Ready, Metas
    <2>2. calls \in [Procs -> Steps \cup Reports]
      BY <1>2, <1>3
    <2>3. vectors \in [Records -> Artifacts \cup {None}]
      BY <1>1
    <2> QED
      BY <1>1, <1>2, <2>1, <2>2, <2>3 DEF TypeOK
  <1>6. WritersHaveIndex /\ QueryHasModel /\ BuildInProgress /\ ReadyCovers
    BY <1>2, <1>3 DEF WritersHaveIndex, Writing, QueryHasModel, Querying, BuildInProgress, Adding, ReadyCovers
  <1>7. OneArtifact
    BY <1>1, <1>2, <1>3, <1>4 DEF OneArtifact, Covered, Writing
  <1>8. PublishedIsWhole
    <2> SUFFICES ASSUME IsReady, NEW r \in due PROVE r \in Covered
      BY DEF PublishedIsWhole
    <2>1. r \in have /\ r \in Records /\ meta # None
      BY <1>1, <1>2 DEF IsReady
    <2> QED
      BY <1>1, <2>1, SemanticAssumption DEF Covered
  <1> QED
    BY <1>5, <1>6, <1>7, <1>8 DEF IInv

LEMMA NextKeepsInvariant ==
    ASSUME IInv, [Next]_vars
    PROVE  IInv'
  <1>1. CASE \E r \in Records : Write(r)
    <2>1. PICK r \in Records : Write(r)
      BY <1>1
    <2>2. canon' \subseteq Records /\ UNCHANGED << index, cached, calls, rivals, races, due >>
      BY <2>1 DEF Write, IInv, TypeOK
    <2> QED
      BY <2>2 DEF index, IInv, TypeOK, WritersHaveIndex, Writing, OneArtifact, Covered, QueryHasModel,
         Querying, BuildInProgress, Adding, PublishedIsWhole, IsReady, ReadyCovers
  <1>2. ASSUME NEW p \in Procs,
               Setup(p) \/ Ask(p) \/ Prepare(p) \/ RefreshFails(p) \/ Context(p) \/ Leave(p)
        PROVE  IInv'
    <2>1. TypeOK'
      BY <1>2, SetupKeepsType, PrepareKeepsType DEF IInv
    <2>2. CASE BeginRebuild(p)
      BY <2>1, <2>2, ClearingKeeps
    <2>3. CASE AddPool(p) \/ AddPending(p)
      BY <2>1, <2>3, EmbeddingKeeps
    <2>4. CASE FinishRebuild(p)
      BY <2>1, <2>4, FinishingKeeps
    <2>5. CASE \/ Gather(p) \/ Ask(p) \/ ReadMeta(p) \/ Classify(p) \/ BeginRefresh(p)
               \/ FindPending(p) \/ EndRefresh(p) \/ RefreshFails(p) \/ Context(p) \/ Leave(p)
      BY <2>1, <2>5, LookingFits, LookingKeeps
    <2> QED
      BY <1>2, <2>2, <2>3, <2>4, <2>5 DEF Setup, Prepare
  <1>3. CASE UNCHANGED vars
    BY <1>3 DEF vars, index, IInv, TypeOK, WritersHaveIndex, Writing, OneArtifact, Covered, QueryHasModel,
       Querying, BuildInProgress, Adding, PublishedIsWhole, IsReady, ReadyCovers
  <1> QED
    BY <1>1, <1>2, <1>3 DEF Next

(* What the index holds, what its row says and what each call has read of  *)
(* them agree, whatever writes, clears and refreshes come in between.      *)
THEOREM Invariant == Spec => []IInv
  <1>1. Init => IInv
    BY InitHasInvariant
  <1>2. IInv /\ [Next]_vars => IInv'
    BY NextKeepsInvariant
  <1> QED
    BY <1>1, <1>2, PTL DEF Spec

(* Every variable has its type.                                            *)
THEOREM TypeCorrect == Spec => []TypeOK
  <1>1. IInv => TypeOK
    BY DEF IInv
  <1> QED
    BY <1>1, Invariant, PTL

(* A task and the vectors it is ranked against are of one model, if the    *)
(* index was not cleared in between and no rival build is at work.         *)
THEOREM QueriesInOneSpace == Spec => []OneSpace
  <1>1. IInv => OneSpace
    <2> SUFFICES ASSUME IInv, NEW p \in Procs, NEW pool \in 1..Pools,
                        Querying(p), calls[p].steady, ~rivals,
                        NEW r \in DOMAIN Ranked(p, pool)
                 PROVE  Ranked(p, pool)[r] = calls[p].artifact
      BY DEF OneSpace
    <2>1. r \in Covered /\ Ranked(p, pool)[r] = vectors[r]
      BY DEF Ranked
    <2>2. meta # None /\ calls[p].artifact = meta.artifact
      BY DEF IInv, QueryHasModel
    <2> QED
      BY <2>1, <2>2 DEF IInv, OneArtifact
  <1> QED
    BY <1>1, Invariant, PTL

(* No index ever says that it is ready without all its build was to embed, *)
(* unless two setups were at work at once: no crash publishes half of it.  *)
THEOREM NothingHalfBuiltIsPublished == Spec => []PublishedIsWhole
  <1>1. IInv => PublishedIsWhole
    BY DEF IInv
  <1> QED
    BY <1>1, Invariant, PTL

(* What a call is told is ready ranks every record it asked for.           *)
THEOREM ReadyAnswersAreComplete == Spec => []ReadyIsComplete
  <1>1. IInv => ReadyIsComplete
    BY DEF IInv, ReadyCovers, ReadyIsComplete, Querying, Ranked
  <1> QED
    BY <1>1, Invariant, PTL
=============================================================================
