------------------------ MODULE ClusterHealthProofs ------------------------
(***************************************************************************)
(* Proofs about ClusterHealth, for every set of clusters, applications and *)
(* requests, every threshold and every number of restarts.                 *)
(***************************************************************************)
EXTENDS ClusterHealth, TLAPS

\* The idle worker and the absent request are well-formed.
LEMMA ConstantTypes ==
    /\ SomeCluster \in Clusters
    /\ WorkerIdle \in [pc : {"idle", "probe", "hung", "save"}, c : Clusters,
                       old : ClusterStatuses, new : ClusterStatuses,
                       ids : SUBSET Apps]
    /\ NoRequest \in [kind : AllRequestKinds \cup {"none"}, apps : SUBSET Apps,
                      old : [Apps -> AppStatuses], c : Clusters \cup {NoCluster},
                      oldStatus : ClusterStatuses]
<1>1. SomeCluster \in Clusters
  BY HealthConstants DEF SomeCluster
<1>. QED
  BY <1>1 DEF WorkerIdle, NoRequest, ClusterStatuses, AppStatuses, Links

\* The failure counter stays within the threshold, and is at most the streak.
LEMMA CountedBounds ==
    ASSUME NEW n \in 0..Threshold, NEW m \in 0..Threshold
    PROVE  /\ Least(n + 1, Threshold) \in 0..Threshold
           /\ n <= m => Least(n + 1, Threshold) <= Least(m + 1, Threshold)
BY HealthConstants DEF Least

\* The verdict of a probe is a cluster status.
LEMMA VerdictType ==
    ASSUME NEW old \in ClusterStatuses, NEW count, NEW ok
    PROVE  Verdict(old, count, ok) \in ClusterStatuses
BY DEF Verdict, ClusterStatuses

\* What a request loads is well-formed.
LEMMA LoadedType ==
    ASSUME TypeOK, NEW r \in Requests, NEW S \in SUBSET Apps, NEW k \in AllRequestKinds,
           NEW c \in Clusters \cup {NoCluster}
    PROVE  /\ Loaded(r, k, S) \in
                [Requests ->
                  [kind : AllRequestKinds \cup {"none"}, apps : SUBSET Apps,
                   old : [Apps -> AppStatuses], c : Clusters \cup {NoCluster},
                   oldStatus : ClusterStatuses]]
           /\ [Loaded(r, k, S) EXCEPT ![r].c = c] \in
                [Requests ->
                  [kind : AllRequestKinds \cup {"none"}, apps : SUBSET Apps,
                   old : [Apps -> AppStatuses], c : Clusters \cup {NoCluster},
                   oldStatus : ClusterStatuses]]
BY ConstantTypes DEF Loaded, TypeOK

\* A probe that was answered and a hung one that ended are treated alike.
LEMMA ProbeOutcome ==
    ASSUME ProbeReturns \/ HungProbeEnds
    PROVE  worker.pc # "idle" /\ \E ok \in BOOLEAN : Probed(ok)
BY DEF ProbeReturns, HungProbeEnds

(***************************************************************************)
(* Every step keeps the types.                                             *)
(***************************************************************************)
LEMMA TypeStep == TypeOK /\ [Next]_vars => TypeOK'
<1>. SUFFICES ASSUME TypeOK, [Next]_vars PROVE TypeOK'
  OBVIOUS
<1>. USE HealthConstants, ConstantTypes
<1>1. ASSUME NEW c \in Clusters, LinkChanges(c)  PROVE TypeOK'
  BY <1>1 DEF LinkChanges, TypeOK, ghost
<1>2. ASSUME NEW c \in Clusters, ProbeStarts(c)  PROVE TypeOK'
  BY <1>2 DEF ProbeStarts, TypeOK, ghost
<1>3. ASSUME NEW ok \in BOOLEAN, Probed(ok)  PROVE TypeOK'
  <2>1. worker.c \in Clusters /\ worker.old \in ClusterStatuses
    BY DEF TypeOK
  <2>2. /\ Counted(worker.c, ok) \in 0..Threshold
        /\ Least(streak[worker.c] + 1, Threshold) \in 0..Threshold
    <3>1. failures[worker.c] \in 0..Threshold /\ streak[worker.c] \in 0..Threshold
      BY <2>1 DEF TypeOK
    <3>2. 0 \in 0..Threshold
      OBVIOUS
    <3>. QED  BY <3>1, <3>2, CountedBounds DEF Counted
  <2>3. /\ failures' \in [Clusters -> 0..Threshold]
        /\ streak' \in [Clusters -> 0..Threshold]
    BY <1>3, <2>1, <2>2 DEF Probed, TypeOK
  <2>4. worker' \in [pc : {"idle", "probe", "hung", "save"}, c : Clusters,
                     old : ClusterStatuses, new : ClusterStatuses,
                     ids : SUBSET Apps]
    BY <1>3, <2>1, VerdictType DEF Probed, TypeOK, CascadeIds
  <2>. QED  BY <1>3, <2>3, <2>4 DEF Probed, TypeOK
<1>4. CASE WorkerSaves
  <2>1. worker.c \in Clusters /\ worker.new \in ClusterStatuses /\ worker.ids \subseteq Apps
    BY DEF TypeOK
  <2>2. appStatus' \in [Apps -> AppStatuses]
    BY <1>4 DEF WorkerSaves, TypeOK, AppStatuses
  <2>3. degradedApps' \in [Clusters -> SUBSET Apps]
    BY <1>4, <2>1 DEF WorkerSaves, TypeOK
  <2>4. status' \in [Clusters -> ClusterStatuses]
    BY <1>4, <2>1 DEF WorkerSaves, TypeOK
  <2>5. cause' \in [Apps -> {"none", "outage", "other"}]
    BY <1>4 DEF WorkerSaves, TypeOK
  <2>6. stranded' \subseteq Apps
    BY <1>4, <2>1 DEF WorkerSaves, TypeOK
  <2>. QED  BY <1>4, <2>2, <2>3, <2>4, <2>5, <2>6 DEF WorkerSaves, TypeOK
<1>5. CASE WorkerSaveFails
  <2>1. worker.c \in Clusters /\ worker.ids \subseteq Apps
    BY DEF TypeOK
  <2>2. degradedApps' \in [Clusters -> SUBSET Apps]
    BY <1>5, <2>1 DEF WorkerSaveFails, TypeOK
  <2>3. stranded' \subseteq Apps
    BY <1>5, <2>1 DEF WorkerSaveFails, TypeOK
  <2>. QED  BY <1>5, <2>2, <2>3 DEF WorkerSaveFails, TypeOK
<1>6. ASSUME NEW r \in Requests, RequestStarts(r)  PROVE TypeOK'
  <2>. DEFINE AnyReq ==
                 [Requests ->
                   [kind : AllRequestKinds \cup {"none"}, apps : SUBSET Apps,
                    old : [Apps -> AppStatuses], c : Clusters \cup {NoCluster},
                    oldStatus : ClusterStatuses]]
  <2>1. req' \in AnyReq
    <3>1. ASSUME NEW S \in SUBSET Apps, NEW k \in AllRequestKinds, req' = Loaded(r, k, S)
          PROVE  req' \in AnyReq
      BY <3>1, LoadedType
    <3>2. \A a \in Apps : {a} \in SUBSET Apps
      OBVIOUS
    <3>3. ASSUME NEW a \in Apps, NEW c \in Clusters \cup {NoCluster},
                 req' = [Loaded(r, "patch", {a}) EXCEPT ![r].c = c]
          PROVE  req' \in AnyReq
      <4>1. "patch" \in AllRequestKinds
        BY DEF AllRequestKinds
      <4>. QED  BY <3>2, <3>3, <4>1, LoadedType
    <3>4. CASE \E c \in Clusters :
                  req' = [req EXCEPT ![r] = [NoRequest EXCEPT !.kind = "test", !.c = c,
                                                              !.oldStatus = status[c]]]
      <4>1. PICK c \in Clusters :
              req' = [req EXCEPT ![r] = [NoRequest EXCEPT !.kind = "test", !.c = c,
                                                          !.oldStatus = status[c]]]
        BY <3>4
      <4>2. status[c] \in ClusterStatuses /\ "test" \in AllRequestKinds
        BY DEF TypeOK, AllRequestKinds
      <4>. QED  BY <4>1, <4>2 DEF TypeOK
    <3>5. {"status", "ci", "sync"} \subseteq AllRequestKinds
      BY DEF AllRequestKinds
    <3>. HIDE DEF AnyReq
    <3>6. CASE \E a \in Apps : req' = Loaded(r, "status", {a}) \/ req' = Loaded(r, "ci", {a})
      BY <3>6, <3>1, <3>2, <3>5, Zenon
    <3>7. CASE \E S \in SUBSET Apps : req' = Loaded(r, "sync", S)
      BY <3>7, <3>1, <3>5, Zenon
    <3>. QED  BY <1>6, <3>3, <3>4, <3>6, <3>7, Zenon DEF RequestStarts
  <2>. QED  BY <1>6, <2>1 DEF RequestStarts, TypeOK, ghost
<1>7. ASSUME NEW r \in Requests, AppSaves(r)  PROVE TypeOK'
  <2>1. req[r].apps \subseteq Apps /\ req[r].c \in Clusters \cup {NoCluster}
    BY DEF TypeOK
  <2>2. /\ appStatus' \in [Apps -> AppStatuses]
        /\ target' \in [Apps -> Clusters \cup {NoCluster}]
        /\ cause' \in [Apps -> {"none", "outage", "other"}]
    BY <1>7, <2>1 DEF AppSaves, TypeOK
  <2>3. stranded' \subseteq Apps
    BY <1>7 DEF AppSaves
  <2>. QED  BY <1>7, <2>2, <2>3 DEF AppSaves, TypeOK
<1>8. ASSUME NEW r \in Requests, TestSaves(r)  PROVE TypeOK'
  <2>1. Tested(req[r].oldStatus) \in ClusterStatuses
    BY DEF TypeOK, Tested, ClusterStatuses
  <2>2. status' \in [Clusters -> ClusterStatuses]
    BY <1>8, <2>1 DEF TestSaves, TypeOK
  <2>3. stranded' \subseteq Apps
    BY <1>8 DEF TestSaves, TypeOK
  <2>. QED  BY <1>8, <2>2, <2>3 DEF TestSaves, TypeOK
<1>9. CASE Restart
  BY <1>9 DEF Restart, TypeOK
<1>10. CASE ProbeHangs
  BY <1>10 DEF ProbeHangs, TypeOK, ghost
<1>11. CASE UNCHANGED vars
  BY <1>11 DEF vars, TypeOK
<1>. QED
  BY <1>1, <1>2, <1>3, <1>4, <1>5, <1>6, <1>7, <1>8, <1>9, <1>10, <1>11, ProbeOutcome
  DEF Next, RequestSaves

\* The counter never overtakes the streak, and a verdict rests on it.
LEMMA JustifiedStep == HealthInv /\ [Next]_vars => VerdictJustified'
<1>. SUFFICES ASSUME HealthInv, [Next]_vars PROVE VerdictJustified'
  OBVIOUS
<1>. USE HealthConstants DEF HealthInv
<1>. DEFINE Untouched == UNCHANGED <<failures, streak, worker>>
            Undecided == UNCHANGED <<failures, streak>> /\ worker'.pc # "save"
<1>1. ASSUME NEW ok \in BOOLEAN, Probed(ok)  PROVE VerdictJustified'
  <2>. DEFINE c == worker.c
  <2>1. /\ c \in Clusters /\ failures[c] \in 0..Threshold /\ streak[c] \in 0..Threshold
        /\ failures[c] <= streak[c]
    BY DEF TypeOK, VerdictJustified
  <2>2. /\ failures' = [failures EXCEPT ![c] = Counted(c, ok)]
        /\ streak' = [streak EXCEPT ![c] = IF ok THEN 0 ELSE Least(streak[c] + 1, Threshold)]
        /\ worker'.c = c /\ worker'.old = worker.old
        /\ worker'.new = Verdict(worker.old, Counted(c, ok), ok)
    BY <1>1 DEF Probed, TypeOK
  <2>3. /\ failures'[c] = Counted(c, ok)
        /\ streak'[c] = IF ok THEN 0 ELSE Least(streak[c] + 1, Threshold)
        /\ \A d \in Clusters : d # c => failures'[d] = failures[d] /\ streak'[d] = streak[d]
    BY <2>1, <2>2 DEF TypeOK
  <2>. HIDE DEF c
  <2>4. Counted(c, ok) \in Nat /\ streak'[c] \in Nat /\ Counted(c, ok) <= streak'[c]
    BY <2>1, <2>3, CountedBounds DEF Counted
  <2>5. \A d \in Clusters : failures'[d] <= streak'[d]
    BY <2>3, <2>4 DEF VerdictJustified
  <2>6. worker'.new = "offline" /\ worker'.old # "offline" => Counted(c, ok) >= Threshold
    BY <2>2 DEF Verdict
  <2>7. worker'.new \in {worker'.old, "online", "offline"}
    BY <2>2 DEF Verdict
  <2>. QED  BY <2>2, <2>4, <2>5, <2>6, <2>7 DEF VerdictJustified
<1>2. CASE Restart
  BY <1>2 DEF Restart, VerdictJustified, TypeOK, WorkerIdle
<1>3. CASE Untouched
  BY <1>3 DEF VerdictJustified
<1>4. CASE Undecided
  BY <1>4 DEF VerdictJustified
<1>5. \A c \in Clusters : ProbeStarts(c) => Undecided
  BY DEF ProbeStarts, WorkerIdle, ghost
<1>6. WorkerSaves \/ WorkerSaveFails \/ ProbeHangs => Undecided
  BY DEF WorkerSaves, WorkerSaveFails, ProbeHangs, WorkerIdle, TypeOK, ghost
<1>7. /\ \A c \in Clusters : LinkChanges(c) => Untouched
      /\ \A r \in Requests : RequestStarts(r) => Untouched
      /\ \A r \in Requests : AppSaves(r) => Untouched
      /\ \A r \in Requests : TestSaves(r) => Untouched
      /\ UNCHANGED vars => Untouched
  BY DEF LinkChanges, RequestStarts, AppSaves, TestSaves, ghost, vars
<1>. QED
  BY <1>1, <1>2, <1>3, <1>4, <1>5, <1>6, <1>7, ProbeOutcome DEF Next, RequestSaves

\* Between the load and the save of the worker only a manual test can change
\* the status of the cluster, and only to ONLINE.
LEMMA LoadedStep == HealthInv /\ [Next]_vars => LoadedStatusKept'
<1>. SUFFICES ASSUME HealthInv, [Next]_vars PROVE LoadedStatusKept'
  OBVIOUS
<1>. USE HealthConstants DEF HealthInv
<1>. DEFINE Untouched == UNCHANGED <<status, worker>>
            Idle      == worker'.pc = "idle"
<1>1. ASSUME NEW c \in Clusters, ProbeStarts(c)  PROVE LoadedStatusKept'
  BY <1>1 DEF ProbeStarts, WorkerIdle, LoadedStatusKept
<1>2. ASSUME NEW ok \in BOOLEAN, worker.pc # "idle", Probed(ok)  PROVE LoadedStatusKept'
  BY <1>2 DEF Probed, LoadedStatusKept, TypeOK
<1>3. ASSUME NEW r \in Requests, TestSaves(r)  PROVE LoadedStatusKept'
  <2>1. \A c \in Clusters : status'[c] \in {status[c], "online"}
    BY <1>3 DEF TestSaves, Tested, TypeOK
  <2>2. worker.c \in Clusters /\ worker' = worker
    BY <1>3 DEF TestSaves, TypeOK
  <2>. QED  BY <2>1, <2>2 DEF LoadedStatusKept
<1>4. CASE Untouched
  BY <1>4 DEF LoadedStatusKept
<1>5. CASE Idle
  BY <1>5 DEF LoadedStatusKept
<1>6. WorkerSaves \/ WorkerSaveFails \/ Restart => Idle
  BY DEF WorkerSaves, WorkerSaveFails, Restart, WorkerIdle
<1>7. /\ \A c \in Clusters : LinkChanges(c) => Untouched
      /\ \A r \in Requests : RequestStarts(r) => Untouched
      /\ \A r \in Requests : AppSaves(r) => Untouched
      /\ UNCHANGED vars => Untouched
  BY DEF LinkChanges, RequestStarts, AppSaves, vars
<1>8. CASE ProbeHangs
  BY <1>8 DEF ProbeHangs, LoadedStatusKept, TypeOK
<1>. QED
  BY <1>1, <1>2, <1>3, <1>4, <1>5, <1>6, <1>7, <1>8, ProbeOutcome DEF Next, RequestSaves

\* Whoever changes the status of an application updates the cause with it.
LEMMA CauseStep == HealthInv /\ [Next]_vars => CauseShows'
<1>. SUFFICES ASSUME HealthInv, [Next]_vars PROVE CauseShows'
  OBVIOUS
<1>. USE DEF HealthInv
<1>. DEFINE Untouched == UNCHANGED <<appStatus, cause>>
<1>1. CASE WorkerSaves
  BY <1>1 DEF WorkerSaves, CauseShows, TypeOK
<1>2. ASSUME NEW r \in Requests, AppSaves(r)  PROVE CauseShows'
  BY <1>2 DEF AppSaves, CauseShows, TypeOK
<1>3. CASE Untouched
  BY <1>3 DEF CauseShows
<1>4. /\ \A c \in Clusters : LinkChanges(c) => Untouched
      /\ \A c \in Clusters : ProbeStarts(c) => Untouched
      /\ \A r \in Requests : RequestStarts(r) => Untouched
      /\ \A r \in Requests : TestSaves(r) => Untouched
      /\ UNCHANGED vars => Untouched
  BY DEF LinkChanges, ProbeStarts, RequestStarts, TestSaves, ghost, vars
<1>5. ProbeHangs \/ WorkerSaveFails \/ Restart => Untouched
  BY DEF ProbeHangs, WorkerSaveFails, Restart, ghost
<1>6. \A ok \in BOOLEAN : Probed(ok) => Untouched
  BY DEF Probed
<1>. QED
  BY <1>1, <1>2, <1>3, <1>4, <1>5, <1>6, ProbeOutcome DEF Next, RequestSaves

(***************************************************************************)
(* The worker keeps track of an outage.  The status it loaded decides: at  *)
(* an outage the cluster is still ONLINE, so no tracked application is     *)
(* behind it; at a recovery every tracked application is restored.         *)
(***************************************************************************)
LEMMA RememberedStep == HealthInv /\ [Next]_vars => OutageRemembered'
<1>. SUFFICES ASSUME HealthInv, [Next]_vars PROVE OutageRemembered'
  OBVIOUS
<1>. USE HealthConstants DEF HealthInv
<1>. DEFINE Untouched == UNCHANGED <<status, target, degradedApps, cause, stranded>>
            Tracked(a) == cause[a] = "outage" /\ a \notin stranded
<1>0. \A a \in Apps : Tracked(a) => /\ target[a] \in Clusters
                                    /\ a \in degradedApps[target[a]]
                                    /\ status[target[a]] = "offline"
  BY DEF OutageRemembered
<1>1. CASE WorkerSaves
  <2>. DEFINE c == worker.c
  <2>0. /\ c \in Clusters /\ worker.pc = "save" /\ worker.ids \subseteq Apps
        /\ status[c] \in {worker.old, "online"}
    BY <1>1 DEF WorkerSaves, TypeOK, LoadedStatusKept
  <2>. SUFFICES ASSUME NEW a \in Apps, cause'[a] = "outage", a \notin stranded'
                PROVE  /\ target'[a] \in Clusters
                       /\ a \in degradedApps'[target'[a]]
                       /\ status'[target'[a]] = "offline"
    BY DEF OutageRemembered
  <2>1. target' = target
    BY <1>1 DEF WorkerSaves
  <2>2. CASE Outage
    <3>1. /\ degradedApps'[c] = worker.ids /\ status'[c] = "offline" /\ status[c] = "online"
          /\ stranded' = stranded \cup {b \in worker.ids : target[b] # c}
      BY <1>1, <2>0, <2>2 DEF WorkerSaves, Outage, Recovery, TypeOK
    <3>2. CASE a \in worker.ids
      <4>1. target[a] = c
        BY <3>1, <3>2
      <4>. QED  BY <2>0, <2>1, <3>1, <3>2, <4>1
    <3>3. CASE a \notin worker.ids
      <4>1. cause'[a] = cause[a]
        BY <1>1, <2>2, <3>3 DEF WorkerSaves, Outage, Recovery
      <4>2. Tracked(a)
        BY <3>1, <4>1
      <4>3. target[a] # c
        BY <1>0, <3>1, <4>2
      <4>. QED  BY <1>0, <1>1, <2>1, <4>2, <4>3 DEF WorkerSaves, TypeOK
    <3>. QED  BY <3>2, <3>3
  <2>3. CASE ~Outage /\ Recovery
    <3>1. /\ a \notin Restored(c) /\ Tracked(a)
      BY <1>1, <2>3 DEF WorkerSaves
    <3>2. target[a] # c
      BY <1>0, <3>1 DEF Restored, CauseShows
    <3>. QED  BY <1>0, <1>1, <2>1, <3>1, <3>2 DEF WorkerSaves, TypeOK
  <2>4. CASE ~Outage /\ ~Recovery
    <3>1. /\ Tracked(a)
          /\ degradedApps'[target[a]] = degradedApps[target[a]]
      BY <1>1, <2>4 DEF WorkerSaves, TypeOK
    <3>2. CASE target[a] # c
      BY <1>0, <1>1, <2>1, <3>1, <3>2 DEF WorkerSaves, TypeOK
    <3>3. CASE target[a] = c
      <4>1. status[c] = "offline" /\ worker.old = "offline"
        BY <1>0, <2>0, <3>1, <3>3
      <4>2. worker.new = "offline"
        BY <2>0, <2>4, <4>1 DEF Recovery, VerdictJustified
      <4>3. status'[c] = "offline"
        BY <1>1, <2>0, <4>1, <4>2 DEF WorkerSaves, TypeOK
      <4>. QED  BY <1>0, <2>1, <3>1, <3>3, <4>3
    <3>. QED  BY <3>2, <3>3
  <2>. QED  BY <2>2, <2>3, <2>4
<1>2. CASE WorkerSaveFails
  <2>. DEFINE c == worker.c
  <2>0. c \in Clusters /\ worker.pc = "save" /\ status[c] \in {worker.old, "online"}
    BY <1>2 DEF WorkerSaveFails, TypeOK, LoadedStatusKept
  <2>. SUFFICES ASSUME NEW a \in Apps, cause'[a] = "outage", a \notin stranded'
                PROVE  /\ target'[a] \in Clusters
                       /\ a \in degradedApps'[target'[a]]
                       /\ status'[target'[a]] = "offline"
    BY DEF OutageRemembered
  <2>1. /\ Tracked(a) /\ UNCHANGED <<status, target>>
        /\ a \in degradedApps[c] => ~(Outage \/ Recovery)
    BY <1>2 DEF WorkerSaveFails
  <2>2. a \in degradedApps'[target[a]]
    <3>1. CASE target[a] # c
      BY <1>0, <1>2, <2>0, <2>1, <3>1 DEF WorkerSaveFails, TypeOK
    <3>2. CASE target[a] = c
      <4>1. ~Outage /\ ~Recovery
        BY <1>0, <2>1, <3>2
      <4>. QED  BY <1>0, <1>2, <2>1, <4>1 DEF WorkerSaveFails, TypeOK
    <3>. QED  BY <3>1, <3>2
  <2>. QED  BY <1>0, <2>1, <2>2
<1>3. ASSUME NEW r \in Requests, AppSaves(r)  PROVE OutageRemembered'
  <2>1. /\ UNCHANGED <<status, degradedApps>>
        /\ \A a \in Apps : cause'[a] = "outage" => cause[a] = "outage"
        /\ \A a \in Apps : cause'[a] = "outage" /\ a \notin stranded' =>
              a \notin stranded /\ target'[a] = target[a]
    BY <1>3 DEF AppSaves
  <2>. QED  BY <1>0, <2>1 DEF OutageRemembered
<1>4. ASSUME NEW r \in Requests, TestSaves(r)  PROVE OutageRemembered'
  <2>1. /\ UNCHANGED <<target, degradedApps, cause>> /\ stranded \subseteq stranded'
    BY <1>4 DEF TestSaves
  <2>2. ASSUME NEW a \in Apps, cause[a] = "outage", a \notin stranded', target[a] \in Clusters
        PROVE  status'[target[a]] = status[target[a]]
    <3>1. CASE target[a] # req[r].c
      BY <1>4, <2>2, <3>1 DEF TestSaves, TypeOK
    <3>2. CASE target[a] = req[r].c
      BY <1>4, <2>2, <3>2 DEF TestSaves, Tested
    <3>. QED  BY <3>1, <3>2
  <2>. QED  BY <1>0, <2>1, <2>2 DEF OutageRemembered
<1>5. CASE Restart
  BY <1>5 DEF Restart, OutageRemembered, TypeOK
<1>6. CASE Untouched
  BY <1>6 DEF OutageRemembered
<1>7. /\ \A c \in Clusters : LinkChanges(c) => Untouched
      /\ \A c \in Clusters : ProbeStarts(c) => Untouched
      /\ \A r \in Requests : RequestStarts(r) => Untouched
      /\ \A ok \in BOOLEAN : Probed(ok) => Untouched
      /\ ProbeHangs => Untouched
      /\ UNCHANGED vars => Untouched
  BY DEF LinkChanges, ProbeStarts, RequestStarts, Probed, ProbeHangs, ghost, vars
<1>. QED
  BY <1>1, <1>2, <1>3, <1>4, <1>5, <1>6, <1>7, ProbeOutcome DEF Next, RequestSaves

LEMMA HealthInvInit == Init => HealthInv
BY HealthConstants, ConstantTypes
DEF Init, HealthInv, TypeOK, VerdictJustified, LoadedStatusKept, CauseShows,
    OutageRemembered, WorkerIdle, ClusterStatuses, AppStatuses, Links

LEMMA HealthInvStep == HealthInv /\ [Next]_vars => HealthInv'
BY TypeStep, JustifiedStep, LoadedStep, CauseStep, RememberedStep DEF HealthInv

(***************************************************************************)
(* HealthInv is an invariant: counters, verdicts, loaded statuses and      *)
(* causes stay in agreement, whatever requests and restarts interfere.     *)
(***************************************************************************)
THEOREM HealthInvariant == Spec => []HealthInv
BY HealthInvInit, HealthInvStep, PTL DEF Spec

(***************************************************************************)
(* An application degraded by an outage can always be restored, unless a   *)
(* restart, a failed commit, a reassignment or a stale manual test lost    *)
(* track of it.                                                            *)
(***************************************************************************)
THEOREM OutageAlwaysRemembered == Spec => []OutageRemembered
<1>1. HealthInv => OutageRemembered
  BY DEF HealthInv
<1>. QED  BY <1>1, HealthInvariant, PTL

(***************************************************************************)
(* No cluster is declared OFFLINE before Threshold consecutive failed      *)
(* probes, over restarts, rolled back commits and manual tests.            *)
(***************************************************************************)
THEOREM GraceAlwaysRespected == Spec => GraceRespected
<1>. DEFINE Grace == \A c \in Clusters :
              status[c] # "offline" /\ status'[c] = "offline" => streak[c] >= Threshold
<1>1. HealthInv /\ [Next]_vars => [Grace]_vars
  <2>. SUFFICES ASSUME HealthInv, [Next]_vars, NEW c \in Clusters,
                       status[c] # "offline", status'[c] = "offline"
                PROVE  streak[c] >= Threshold
    OBVIOUS
  <2>. USE DEF HealthInv
  <2>1. CASE WorkerSaves
    <3>1. c = worker.c /\ worker.new = "offline" /\ worker.new # worker.old
      BY <2>1 DEF WorkerSaves, TypeOK
    <3>. QED  BY <2>1, <3>1 DEF WorkerSaves, VerdictJustified
  <2>2. ASSUME NEW r \in Requests, TestSaves(r)  PROVE FALSE
    BY <2>2 DEF TestSaves, Tested, TypeOK
  <2>3. CASE UNCHANGED status
    BY <2>3
  <2>4. /\ \A d \in Clusters : LinkChanges(d) => UNCHANGED status
        /\ \A d \in Clusters : ProbeStarts(d) => UNCHANGED status
        /\ \A r \in Requests : RequestStarts(r) => UNCHANGED status
        /\ \A r \in Requests : AppSaves(r) => UNCHANGED status
        /\ \A ok \in BOOLEAN : Probed(ok) => UNCHANGED status
        /\ ProbeHangs \/ WorkerSaveFails \/ Restart => UNCHANGED status
        /\ UNCHANGED vars => UNCHANGED status
    BY DEF LinkChanges, ProbeStarts, RequestStarts, AppSaves, Probed, ProbeHangs,
           WorkerSaveFails, Restart, vars
  <2>. QED  BY <2>1, <2>2, <2>3, <2>4, ProbeOutcome DEF Next, RequestSaves
<1>. QED  BY <1>1, HealthInvariant, PTL DEF Spec, GraceRespected
=============================================================================
