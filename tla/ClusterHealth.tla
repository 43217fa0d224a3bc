---------------------------- MODULE ClusterHealth ----------------------------
(***************************************************************************)
(* The cluster health worker (backend/k8s/health_worker.py): periodic      *)
(* probes, the grace period, the cascade of a confirmed outage on the      *)
(* applications of the cluster and the targeted recovery; with the other   *)
(* writers of applications.last_known_status, target_cluster_id and        *)
(* cluster_connections.status that run between its awaits.                 *)
(*                                                                         *)
(* The worker's failure counts and degraded sets live in memory only.      *)
(***************************************************************************)
EXTENDS Naturals, FiniteSets

CONSTANTS
    Clusters,      \* registered clusters
    Apps,          \* applications, each with a target cluster
    Requests,      \* concurrent HTTP requests
    RequestKinds,  \* what they do, see Outcomes, and "test"
    LinkStates,    \* what a probe may meet, see Links
    Threshold,     \* CLUSTER_HEALTH_FAILURE_THRESHOLD
    MaxRestarts    \* bound on process restarts

\* up; down: connections are refused or run into the kernel's timeout; silent:
\* the connection is taken and no answer comes; or the kubeconfig cannot be read
\* from Vault.
Links == {"up", "down", "silent", "unreadable"}

AllRequestKinds == {"status", "ci", "sync", "patch", "test"}

ASSUME HealthConstants ==
    /\ Threshold \in Nat \ {0}
    /\ MaxRestarts \in Nat
    /\ RequestKinds \subseteq AllRequestKinds
    /\ "up" \in LinkStates /\ LinkStates \subseteq Links
    /\ "none" \notin Clusters
    /\ Clusters # {} /\ Apps # {}

NoCluster       == "none"
ClusterStatuses == {"unknown", "online", "offline"}
AppStatuses     == {"onboarding", "ready", "deployed", "degraded"}

VARIABLES
    link,          \* Clusters -> what a probe would meet
    status,        \* Clusters -> cluster_connections.status
    target,        \* Apps -> applications.target_cluster_id, or NoCluster
    appStatus,     \* Apps -> applications.last_known_status
    failures,      \* Clusters -> consecutive failed probes, in memory
    degradedApps,  \* Clusters -> applications degraded by the outage, in memory
    worker,        \* where the worker stands
    req,           \* Requests -> where the request stands
    restarts

(***************************************************************************)
(* Observation only.                                                       *)
(***************************************************************************)
VARIABLES
    streak,    \* Clusters -> consecutive failed probes, over restarts
    cause,     \* Apps -> why the application is degraded
    stranded   \* applications whose outage the worker has lost track of

ghost == <<streak, cause, stranded>>
vars  == <<link, status, target, appStatus, failures, degradedApps, worker,
           req, restarts, streak, cause, stranded>>

SomeCluster == CHOOSE c \in Clusters : TRUE
WorkerIdle  == [pc |-> "idle", c |-> SomeCluster, old |-> "unknown",
                new |-> "unknown", ids |-> {}]
NoRequest   == [kind |-> "none", apps |-> {}, old |-> [a \in Apps |-> "onboarding"],
                c |-> SomeCluster, oldStatus |-> "unknown"]

Least(m, n) == IF m < n THEN m ELSE n

Init ==
    /\ link = [c \in Clusters |-> "up"]
    /\ status = [c \in Clusters |-> "unknown"]
    /\ target \in [Apps -> Clusters]
    /\ appStatus = [a \in Apps |-> "deployed"]
    /\ failures = [c \in Clusters |-> 0]
    /\ degradedApps = [c \in Clusters |-> {}]
    /\ worker = WorkerIdle
    /\ req = [r \in Requests |-> NoRequest]
    /\ restarts = 0
    /\ streak = [c \in Clusters |-> 0]
    /\ cause = [a \in Apps |-> "none"]
    /\ stranded = {}

\* The network, the cluster or Vault change.
LinkChanges(c) ==
    /\ \E l \in LinkStates \ {link[c]} : link' = [link EXCEPT ![c] = l]
    /\ UNCHANGED <<status, target, appStatus, failures, degradedApps, worker,
                   req, restarts, ghost>>

-----------------------------------------------------------------------------
(***************************************************************************)
(* The worker.  It processes one cluster after the other, each in a        *)
(* session of its own.                                                     *)
(***************************************************************************)

\* The cluster is loaded: its status is read before the probe.
ProbeStarts(c) ==
    /\ worker.pc = "idle"
    /\ worker' = [WorkerIdle EXCEPT !.pc = "probe", !.c = c, !.old = status[c]]
    /\ UNCHANGED <<link, status, target, appStatus, failures, degradedApps,
                   req, restarts, ghost>>

\* A counter that is not reset by a successful probe.
CountedNoReset(c, ok) ==
    IF ok THEN failures[c] ELSE Least(failures[c] + 1, Threshold)

\* A counter that starts again at each failure.
CountedOnce(c, ok) == IF ok THEN 0 ELSE 1

\* Consecutive failures; only compared with the threshold, so capped there.
Counted(c, ok) == IF ok THEN 0 ELSE Least(failures[c] + 1, Threshold)

\* A verdict in the vocabulary of the applications.
VerdictDegraded(old, count, ok) ==
    IF ok THEN "online" ELSE IF count >= Threshold THEN "degraded" ELSE old

\* A verdict that never leaves OFFLINE.
VerdictSticky(old, count, ok) ==
    IF ok /\ old # "offline" THEN "online"
    ELSE IF count >= Threshold THEN "offline" ELSE old

\* The new status: the old one during the grace period.
Verdict(old, count, ok) ==
    IF ok THEN "online" ELSE IF count >= Threshold THEN "offline" ELSE old

\* _cascade_offline: the deployed applications of the cluster.
CascadeIds(c) == {a \in Apps : target[a] = c /\ appStatus[a] = "deployed"}

\* The outcome of a probe; on a confirmed outage the applications to degrade
\* are selected.
Probed(ok) ==
    LET c     == worker.c
        count == Counted(c, ok)
        new   == Verdict(worker.old, count, ok)
    IN  /\ failures' = [failures EXCEPT ![c] = count]
        /\ worker' = [worker EXCEPT
              !.pc = "save", !.new = new,
              !.ids = IF new = "offline" /\ worker.old = "online"
                      THEN CascadeIds(c) ELSE {}]
        /\ streak' = [streak EXCEPT ![c] = IF ok THEN 0 ELSE Least(@ + 1, Threshold)]
        /\ UNCHANGED <<link, status, target, appStatus, degradedApps, req,
                       restarts, cause, stranded>>

\* The probe is answered.  An unreadable kubeconfig counts as a failed probe.
ProbeReturns ==
    worker.pc = "probe" /\ link[worker.c] # "silent" /\ Probed(link[worker.c] = "up")

\* The probe has no timeout (healthcheck is called without one): the worker
\* waits until the other side answers after all or the connection breaks.
ProbeHangs ==
    /\ worker.pc = "probe" /\ link[worker.c] = "silent"
    /\ worker' = [worker EXCEPT !.pc = "hung"]
    /\ UNCHANGED <<link, status, target, appStatus, failures, degradedApps,
                   req, restarts, ghost>>

\* A hung probe ends: the connection breaks, or a late answer comes.
HungProbeEnds ==
    worker.pc = "hung" /\ \E ok \in {FALSE, link[worker.c] = "up"} : Probed(ok)

Outage   == worker.new = "offline" /\ worker.old = "online"
Recovery == worker.new = "online" /\ worker.old = "offline"

\* A recovery with the filter of the cascade.
RestoredDeployed(c) ==
    {a \in degradedApps[c] : target[a] = c /\ appStatus[a] = "deployed"}

\* _cascade_recovery: the applications this outage degraded.
Restored(c) ==
    {a \in degradedApps[c] : target[a] = c /\ appStatus[a] = "degraded"}

\* The cascade, the events and the status are committed together; the session
\* writes the status only if it differs from the loaded one.
WorkerSaves ==
    LET c == worker.c
        hit == IF Outage THEN worker.ids ELSE {}
        back == IF Recovery THEN Restored(c) ELSE {}
    IN  /\ worker.pc = "save"
        /\ appStatus' = [a \in Apps |-> IF a \in hit THEN "degraded"
                                        ELSE IF a \in back THEN "deployed"
                                        ELSE appStatus[a]]
        /\ degradedApps' = [degradedApps EXCEPT ![c] =
              IF Outage THEN worker.ids ELSE IF Recovery THEN {} ELSE @]
        /\ status' = [status EXCEPT ![c] = IF worker.new # worker.old THEN worker.new
                                            ELSE @]
        /\ cause' = [a \in Apps |-> IF a \in hit /\ appStatus[a] # "degraded" THEN "outage"
                                    ELSE IF a \in back THEN "none" ELSE cause[a]]
        /\ stranded' = (stranded \ back) \cup {a \in hit : target[a] # c}
        /\ worker' = WorkerIdle
        /\ UNCHANGED <<link, target, failures, req, restarts, streak>>

(***************************************************************************)
(* The cascade or the commit raises: the database is rolled back, what was *)
(* already done to the sets in memory stays.                               *)
(***************************************************************************)
WorkerSaveFails ==
    LET c == worker.c
    IN  /\ worker.pc = "save"
        /\ degradedApps' \in
             {[degradedApps EXCEPT ![c] = IF Recovery THEN {} ELSE @],
              [degradedApps EXCEPT ![c] = IF Outage THEN worker.ids
                                          ELSE IF Recovery THEN {} ELSE @]}
        /\ stranded' = stranded \cup
              {a \in degradedApps[c] : cause[a] = "outage" /\ (Outage \/ Recovery)}
        /\ worker' = WorkerIdle
        /\ UNCHANGED <<link, status, target, appStatus, failures, req, restarts,
                       streak, cause>>

-----------------------------------------------------------------------------
(***************************************************************************)
(* Requests.  Each loads rows, awaits an answer from elsewhere or only the *)
(* database, and writes back what differs from the loaded values.          *)
(***************************************************************************)

\* The status an application may get, by request:
\*   status: GET /apps/{id}/status, from ArgoCD's health;
\*   ci:     a status named by the CI, or the promotion to READY;
\*   sync:   sync_from_k8s, from the ready replicas;
\*   patch:  update_app, a status named in the payload or none.
Outcomes(kind, old) ==
    CASE kind = "status" -> {old, "degraded", "deployed"}
      [] kind = "ci"     -> AppStatuses \cup
                              {IF old = "onboarding" THEN "ready" ELSE old}
      [] kind = "sync"   -> {"deployed", IF old = "ready" THEN old ELSE "onboarding"}
      [] kind = "patch"  -> AppStatuses

\* The rows of the applications S are loaded.
Loaded(r, k, S) ==
    [req EXCEPT ![r] = [NoRequest EXCEPT !.kind = k, !.apps = S, !.old = appStatus]]

RequestStarts(r) ==
    /\ req[r].kind = "none"
    /\ \/ /\ "status" \in RequestKinds
          /\ \E a \in Apps : target[a] # NoCluster /\ req' = Loaded(r, "status", {a})
       \/ /\ "ci" \in RequestKinds
          /\ \E a \in Apps : req' = Loaded(r, "ci", {a})
       \/ /\ "sync" \in RequestKinds
          /\ \E S \in SUBSET Apps \ {{}} : req' = Loaded(r, "sync", S)
       \/ /\ "patch" \in RequestKinds
          /\ \E a \in Apps, c \in Clusters \cup {NoCluster} :
               /\ c # target[a]
               /\ c \in Clusters => status[c] # "offline"
               /\ req' = [Loaded(r, "patch", {a}) EXCEPT ![r].c = c]
       \/ /\ "test" \in RequestKinds
          /\ \E c \in Clusters :
               req' = [req EXCEPT ![r] = [NoRequest EXCEPT !.kind = "test", !.c = c,
                                                           !.oldStatus = status[c]]]
    /\ UNCHANGED <<link, status, target, appStatus, failures, degradedApps,
                   worker, restarts, ghost>>

\* The status and, for update_app, the target are saved; a report of a broken
\* deployment is a cause of its own.
AppSaves(r) ==
    /\ req[r].kind \in {"status", "ci", "sync", "patch"}
    /\ \E new \in [req[r].apps -> AppStatuses] :
         /\ \A a \in req[r].apps : new[a] \in Outcomes(req[r].kind, req[r].old[a])
         /\ appStatus' = [a \in Apps |->
               IF a \in req[r].apps /\ new[a] # req[r].old[a] THEN new[a]
               ELSE appStatus[a]]
         /\ target' = [a \in Apps |->
               IF a \in req[r].apps /\ req[r].kind = "patch" THEN req[r].c ELSE target[a]]
         /\ cause' = [a \in Apps |->
               IF a \notin req[r].apps THEN cause[a]
               ELSE IF appStatus'[a] # "degraded" THEN "none"
               ELSE IF new[a] = "degraded" /\ req[r].old[a] # "degraded" THEN "other"
               ELSE cause[a]]
    /\ stranded' = {a \in Apps : /\ a \in stranded \/ target'[a] # target[a]
                                 /\ cause'[a] = "outage"}
    /\ req' = [req EXCEPT ![r] = NoRequest]
    /\ UNCHANGED <<link, status, failures, degradedApps, worker, restarts, streak>>

\* A manual test that sets ONLINE whatever the status was.
TestedAlways(old) == "online"

\* test_cluster only leaves UNKNOWN.
Tested(old) == IF old = "unknown" THEN "online" ELSE old

\* The result is saved over whatever the worker did since the row was loaded.
TestSaves(r) ==
    LET c == req[r].c
        saved == link[c] = "up" /\ Tested(req[r].oldStatus) # req[r].oldStatus
    IN  /\ req[r].kind = "test"
        /\ IF saved THEN status' = [status EXCEPT ![c] = Tested(req[r].oldStatus)]
                    ELSE UNCHANGED status
        /\ stranded' = stranded \cup
              {a \in Apps : /\ saved /\ req[r].oldStatus = "unknown"
                            /\ target[a] = c /\ cause[a] = "outage"}
        /\ req' = [req EXCEPT ![r] = NoRequest]
        /\ UNCHANGED <<link, target, appStatus, failures, degradedApps, worker,
                       restarts, streak, cause>>

\* The process restarts: counters and degraded sets are gone.
Restart ==
    /\ restarts < MaxRestarts
    /\ restarts' = restarts + 1
    /\ failures' = [c \in Clusters |-> 0]
    /\ degradedApps' = [c \in Clusters |-> {}]
    /\ worker' = WorkerIdle
    /\ req' = [r \in Requests |-> NoRequest]
    /\ stranded' = stranded \cup {a \in Apps : cause[a] = "outage"}
    /\ UNCHANGED <<link, status, target, appStatus, streak, cause>>

RequestSaves(r) == AppSaves(r) \/ TestSaves(r)

Next ==
    \/ \E c \in Clusters : LinkChanges(c) \/ ProbeStarts(c)
    \/ ProbeReturns \/ ProbeHangs \/ HungProbeEnds \/ WorkerSaves \/ WorkerSaveFails
    \/ \E r \in Requests : RequestStarts(r) \/ RequestSaves(r)
    \/ Restart

Spec == Init /\ [][Next]_vars

(***************************************************************************)
(* The worker goes round all clusters for ever, a probe that meets no      *)
(* silent cluster ends, and commits do not all fail.  Nothing makes a hung *)
(* probe end, and requests may never end either.                           *)
(***************************************************************************)
FairSpec ==
    /\ Spec
    /\ \A c \in Clusters : SF_vars(ProbeStarts(c)) /\ SF_vars(worker.c = c /\ WorkerSaves)
    /\ WF_vars(ProbeReturns \/ ProbeHangs)

-----------------------------------------------------------------------------
\* Type correctness of the rows, the memory of the worker and requests.
TypeOK ==
    /\ link \in [Clusters -> Links]
    /\ status \in [Clusters -> ClusterStatuses]
    /\ target \in [Apps -> Clusters \cup {NoCluster}]
    /\ appStatus \in [Apps -> AppStatuses]
    /\ failures \in [Clusters -> 0..Threshold]
    /\ degradedApps \in [Clusters -> SUBSET Apps]
    /\ worker \in [pc : {"idle", "probe", "hung", "save"}, c : Clusters,
                   old : ClusterStatuses, new : ClusterStatuses,
                   ids : SUBSET Apps]
    /\ req \in [Requests ->
                  [kind : AllRequestKinds \cup {"none"}, apps : SUBSET Apps,
                   old : [Apps -> AppStatuses], c : Clusters \cup {NoCluster},
                   oldStatus : ClusterStatuses]]
    /\ restarts \in 0..MaxRestarts
    /\ streak \in [Clusters -> 0..Threshold]
    /\ cause \in [Apps -> {"none", "outage", "other"}]
    /\ stranded \subseteq Apps

(***************************************************************************)
(* No false outage: a cluster is declared OFFLINE only after Threshold     *)
(* consecutive failed probes, whatever restarts, failed commits and manual *)
(* tests happen in between, and only the worker ever declares it.          *)
(***************************************************************************)
GraceRespected ==
    [][\A c \in Clusters :
          status[c] # "offline" /\ status'[c] = "offline" => streak[c] >= Threshold]_vars

(***************************************************************************)
(* An outage can be undone: an application degraded by an outage is in the *)
(* worker's memory under its own cluster, and that cluster is OFFLINE (so  *)
(* the next successful probe is a recovery), unless a restart, a failed    *)
(* commit, a reassignment or a manual test begun before the outage lost    *)
(* track of it.                                                            *)
(***************************************************************************)
OutageRemembered ==
    \A a \in Apps : cause[a] = "outage" /\ a \notin stranded =>
        /\ target[a] \in Clusters
        /\ a \in degradedApps[target[a]]
        /\ status[target[a]] = "offline"

\* What the worker decided is justified by the streak.
VerdictJustified ==
    /\ \A c \in Clusters : failures[c] <= streak[c]
    /\ worker.pc = "save" =>
         /\ worker.new \in {worker.old, "online", "offline"}
         /\ worker.new = "offline" /\ worker.old # "offline"
              => streak[worker.c] >= Threshold

\* The status the worker loaded is still there, or a manual test set ONLINE.
LoadedStatusKept ==
    worker.pc # "idle" => status[worker.c] \in {worker.old, "online"}

\* An outage shows in the status of the application.
CauseShows == \A a \in Apps : cause[a] = "outage" => appStatus[a] = "degraded"

(***************************************************************************)
(* The inductive strengthening: what the worker decided before its last    *)
(* await still agrees with the rows it is about to write.                  *)
(***************************************************************************)
HealthInv ==
    /\ TypeOK
    /\ VerdictJustified
    /\ LoadedStatusKept
    /\ CauseShows
    /\ OutageRemembered

(***************************************************************************)
(* The worker waits for ever for one cluster, and with it stop the probes, *)
(* cascades and recoveries of all the others: the only way in which the    *)
(* three properties below fail.                                            *)
(***************************************************************************)
Stuck == <>[](worker.pc = "hung")

(***************************************************************************)
(* Eventually ONLINE: a cluster that stays reachable is recorded ONLINE in *)
(* the end and stays so, although commits fail, the process restarts and   *)
(* other clusters are down or silent for a while.                          *)
(***************************************************************************)
ReachableEndsOnline ==
    \A c \in Clusters : <>[](link[c] = "up") => <>[](status[c] = "online") \/ Stuck

(***************************************************************************)
(* Eventually OFFLINE: an outage that lasts is recorded in the end, since  *)
(* restarts do not go on for ever; an outage also when connections hang    *)
(* and break again and again.                                              *)
(***************************************************************************)
OutageEndsOffline ==
    \A c \in Clusters :
        <>[](link[c] \in {"down", "silent"}) => <>[](status[c] = "offline") \/ Stuck

(***************************************************************************)
(* Eventually restored: once its cluster stays reachable, an application   *)
(* the outage degraded does not stay so, unless the worker lost track.     *)
(***************************************************************************)
OutageEnds ==
    \A a \in Apps, c \in Clusters :
        <>[](link[c] = "up") =>
            []<>(target[a] # c \/ cause[a] # "outage" \/ a \in stranded) \/ Stuck
=============================================================================
