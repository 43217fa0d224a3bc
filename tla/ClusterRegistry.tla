--------------------------- MODULE ClusterRegistry ---------------------------
(***************************************************************************)
(* The registry of clusters (backend/services/cluster_service.py and the   *)
(* start-up discovery): a row in the database and two secrets in Vault     *)
(* (the kubeconfig and the ArgoCD token), written by requests that create, *)
(* update and delete clusters while others assign applications to them.    *)
(*                                                                         *)
(* A Vault call runs in a thread of its own.  Its request gives up after   *)
(* 15 s, but the thread is abandoned, not stopped: the write may still     *)
(* land.  An answer may also be lost after the write.                      *)
(***************************************************************************)
EXTENDS Naturals, FiniteSets

CONSTANTS
    Ids,          \* primary keys, never used twice
    Names,        \* cluster names
    Configs,      \* kubeconfigs
    Apps,         \* applications
    Requests,     \* concurrent HTTP requests
    Kinds,        \* what they do
    MaxStarts,    \* bound on requests ever started
    MaxRestarts   \* bound on process restarts

AllKinds == {"create", "update", "delete", "assign"}
NoSecret == "none"
Token    == "token"
Keep     == "keep"
NoApp    == "noapp"
NoTarget == "notarget"

ASSUME RegistryConstants ==
    /\ Kinds \subseteq AllKinds
    /\ MaxRestarts \in Nat /\ MaxStarts \in Nat
    /\ Ids # {} /\ Names # {} /\ Keep \notin Names
    /\ Configs \cap {NoSecret, Token} = {}
    /\ NoApp \notin Apps /\ NoTarget \notin Ids

Paths   == {"kube", "argo"} \X Ids      \* clusters/{id} and argocd/{id}
Secrets == Configs \cup {Token, NoSecret}

VARIABLES
    row,        \* Ids -> the row: how its kubeconfig is referred to, its name
    used,       \* primary keys already given
    vault,      \* Paths -> the secret stored there
    target,     \* Apps -> applications.target_cluster_id
    req,        \* Requests -> where the request stands
    started,    \* how many have started
    abandoned,  \* Vault writes whose request gave up
    restarts

(***************************************************************************)
(* Observation only.                                                       *)
(***************************************************************************)
VARIABLES
    reported,   \* paths logged as left behind
    astray,     \* paths written without their request knowing, or too late
    fresh       \* Requests -> applications assigned since it loaded its row

ghost == <<reported, astray, fresh>>
vars  == <<row, used, vault, target, req, started, abandoned, restarts,
           reported, astray, fresh>>

SomeId   == CHOOSE i \in Ids : TRUE
SomeName == CHOOSE n \in Names : TRUE
NoRow    == [ref |-> "absent", name |-> SomeName]
NoReq    == [kind |-> "none", pc |-> "idle", id |-> SomeId, cfg |-> NoSecret,
             tok |-> FALSE, name |-> Keep, app |-> NoApp, applied |-> FALSE]

Present(i)  == row[i].ref # "absent"
Taken(n, i) == \E j \in Ids \ {i} : Present(j) /\ row[j].name = n

Init ==
    /\ row = [i \in Ids |-> NoRow]
    /\ used = {}
    /\ vault = [p \in Paths |-> NoSecret]
    /\ target = [a \in Apps |-> NoTarget]
    /\ req = [r \in Requests |-> NoReq]
    /\ started = 0
    /\ abandoned = {}
    /\ restarts = 0
    /\ reported = {} /\ astray = {}
    /\ fresh = [r \in Requests |-> {}]

-----------------------------------------------------------------------------
(***************************************************************************)
(* Requests start.                                                         *)
(***************************************************************************)

Begin(r, q) ==
    /\ req[r].kind = "none"
    /\ q.kind \in Kinds
    /\ started < MaxStarts /\ started' = started + 1
    /\ req' = [req EXCEPT ![r] = q]
    /\ fresh' = [fresh EXCEPT ![r] = {}]
    /\ UNCHANGED <<vault, target, abandoned, restarts, reported, astray>>

\* The row is committed as pending; a name already taken is answered by a 409.
CreateStarts(r) ==
    \E i \in Ids \ used, n \in Names, k \in Configs, t \in BOOLEAN :
        /\ ~Taken(n, i)
        /\ row' = [row EXCEPT ![i] = [ref |-> "pending", name |-> n]]
        /\ used' = used \cup {i}
        /\ Begin(r, [NoReq EXCEPT !.kind = "create", !.pc = "kube", !.id = i,
                                  !.cfg = k, !.tok = t])

\* A new kubeconfig goes to Vault before the row is written.  A payload with
\* the name already there changes no column.
UpdateStarts(r) ==
    \E i \in {j \in Ids : Present(j)}, n \in Names \cup {Keep},
       k \in Configs \cup {NoSecret}, t \in BOOLEAN :
        /\ n # row[i].name
        /\ Begin(r, [NoReq EXCEPT !.kind = "update", !.id = i, !.cfg = k, !.tok = t,
                                  !.name = n, !.pc = IF k = NoSecret THEN "row" ELSE "kube"])
        /\ UNCHANGED <<row, used>>

\* A guard that does not count the applications.
DeletableAlways(i) == Present(i)

\* The row is there and no application targets it.
Deletable(i) == Present(i) /\ \A a \in Apps : target[a] # i

DeleteStarts(r) ==
    \E i \in Ids :
        /\ Deletable(i)
        /\ Begin(r, [NoReq EXCEPT !.kind = "delete", !.pc = "row", !.id = i])
        /\ UNCHANGED <<row, used>>

\* An application is created on a cluster or moved to it.
AssignStarts(r) ==
    \E a \in Apps, i \in {j \in Ids : Present(j)} :
        /\ Begin(r, [NoReq EXCEPT !.kind = "assign", !.pc = "row", !.id = i, !.app = a])
        /\ UNCHANGED <<row, used>>

-----------------------------------------------------------------------------
(***************************************************************************)
(* Vault calls.                                                            *)
(***************************************************************************)

Path(r) == <<req[r].pc, req[r].id>>

\* What the request writes, and where.
Call(r) == [path |-> Path(r),
            val |-> IF req[r].kind = "delete" THEN NoSecret
                    ELSE IF req[r].pc = "kube" THEN req[r].cfg ELSE Token]
InVault(r) == req[r].pc \in {"kube", "argo"}
IsPut(r)   == req[r].kind # "delete"

\* A deletion that forgets the ArgoCD token.
AfterCallNoArgo(q) ==
    IF q.pc = "argo" \/ q.kind = "delete" THEN "idle" ELSE "row"

\* Where a request goes after an answered Vault call.
AfterCall(q) ==
    IF q.pc = "argo" THEN "idle" ELSE IF q.kind = "delete" THEN "argo" ELSE "row"

\* A failed registration that keeps its row.
AfterFailureNoUndo(q) ==
    IF q.pc = "kube" /\ q.kind = "delete" THEN "argo" ELSE "idle"

\* A failed registration that is completed all the same.
AfterFailureGoesOn(q) ==
    IF q.pc = "argo" THEN "idle"
    ELSE IF q.kind = "create" THEN "row"
    ELSE IF q.kind = "delete" THEN "argo" ELSE "idle"

\* After a failed one: a registration is undone, a deletion goes on.
AfterFailure(q) ==
    IF q.pc = "argo" THEN "idle"
    ELSE IF q.kind = "create" THEN "undo"
    ELSE IF q.kind = "delete" THEN "argo" ELSE "idle"

Goto(r, pc) ==
    req' = [req EXCEPT ![r] = IF pc = "idle" THEN NoReq
                              ELSE [@ EXCEPT !.pc = pc, !.applied = FALSE]]

\* The write happens.
VaultApplies(r) ==
    /\ InVault(r) /\ ~req[r].applied
    /\ vault' = [vault EXCEPT ![Path(r)] = Call(r).val]
    /\ req' = [req EXCEPT ![r].applied = TRUE]
    /\ astray' = astray \cup {p \in {Path(r)} : IsPut(r) /\ ~Present(req[r].id)}
    /\ UNCHANGED <<started, row, used, target, abandoned, restarts, reported, fresh>>

\* It is answered.
VaultAnswers(r) ==
    /\ InVault(r) /\ req[r].applied
    /\ Goto(r, AfterCall(req[r]))
    /\ UNCHANGED <<started, row, used, vault, target, abandoned, restarts, ghost>>

\* An error, or an answer lost after the write; a failed deletion is logged.
VaultFails(r) ==
    /\ InVault(r)
    /\ Goto(r, AfterFailure(req[r]))
    /\ astray' = astray \cup {p \in {Path(r)} : IsPut(r) /\ req[r].applied}
    /\ reported' = reported \cup {p \in {Path(r)} : ~IsPut(r)}
    /\ UNCHANGED <<started, row, used, vault, target, abandoned, restarts, fresh>>

\* The request gives up, the thread goes on.
VaultTimesOut(r) ==
    /\ InVault(r) /\ ~req[r].applied
    /\ abandoned' = abandoned \cup {Call(r)}
    /\ Goto(r, AfterFailure(req[r]))
    /\ astray' = astray \cup {p \in {Path(r)} : IsPut(r)}
    /\ reported' = reported \cup {p \in {Path(r)} : ~IsPut(r)}
    /\ UNCHANGED <<started, row, used, vault, target, restarts, fresh>>

\* An abandoned write lands, or never does.
LateCallEnds(c) ==
    /\ vault' \in {vault, [vault EXCEPT ![c.path] = c.val]}
    /\ abandoned' = abandoned \ {c}
    /\ UNCHANGED <<started, row, used, target, req, restarts, ghost>>

-----------------------------------------------------------------------------
(***************************************************************************)
(* Database commits.                                                       *)
(***************************************************************************)

\* ON DELETE SET NULL.
RowDeleted(i) ==
    /\ row' = [row EXCEPT ![i] = NoRow]
    /\ target' = [a \in Apps |-> IF target[a] = i THEN NoTarget ELSE target[a]]

\* The row points to its secret; a row deleted meanwhile fails the request.
CreateCommits(r) ==
    LET i == req[r].id
    IN  /\ req[r].kind = "create" /\ req[r].pc = "row"
        /\ row' = [row EXCEPT ![i].ref = IF Present(i) THEN "vault" ELSE @]
        /\ Goto(r, IF Present(i) /\ req[r].tok THEN "argo" ELSE "idle")
        /\ UNCHANGED <<started, used, vault, target, abandoned, restarts, ghost>>

\* The cleanup after a failed Vault call deletes the row unconditionally and
\* leaves Vault alone.
CreateUndone(r) ==
    /\ req[r].pc = "undo"
    /\ RowDeleted(req[r].id)
    /\ Goto(r, "idle")
    /\ astray' = astray \cup {p \in Paths : p[2] = req[r].id /\ vault[p] # NoSecret}
    /\ UNCHANGED <<started, used, vault, abandoned, restarts, reported, fresh>>

\* Changed columns are written; a taken name or a deleted row ends the request.
UpdateCommits(r) ==
    LET i == req[r].id  n == req[r].name
        writes == n # Keep
        ok == ~writes \/ (Present(i) /\ ~Taken(n, i))
    IN  /\ req[r].kind = "update" /\ req[r].pc = "row"
        /\ row' = IF writes /\ ok THEN [row EXCEPT ![i].name = n] ELSE row
        /\ Goto(r, IF ok /\ req[r].tok THEN "argo" ELSE "idle")
        /\ UNCHANGED <<started, used, vault, target, abandoned, restarts, ghost>>

DeleteCommits(r) ==
    /\ req[r].kind = "delete" /\ req[r].pc = "row"
    /\ RowDeleted(req[r].id)
    /\ Goto(r, "kube")
    /\ UNCHANGED <<started, used, vault, abandoned, restarts, ghost>>

\* The foreign key refuses a cluster that is gone.
AssignCommits(r) ==
    LET i == req[r].id
    IN  /\ req[r].kind = "assign" /\ req[r].pc = "row"
        /\ target' = [target EXCEPT ![req[r].app] = IF Present(i) THEN i ELSE @]
        /\ fresh' = [q \in Requests |-> IF req[q].kind # "none" THEN fresh[q] \cup {req[r].app}
                                        ELSE fresh[q]]
        /\ Goto(r, "idle")
        /\ UNCHANGED <<started, row, used, vault, abandoned, restarts, reported, astray>>

(***************************************************************************)
(* discover_clusters upserts the contexts ns of the mounted kubeconfig     *)
(* files by name; f gives the keys of the new ones.                        *)
(***************************************************************************)
NewNames(ns) == {n \in ns : ~ \E i \in Ids : Present(i) /\ row[i].name = n}
Discovers(ns, f) ==
    /\ \A n \in NewNames(ns) : f[n] \notin used
    /\ \A m, n \in NewNames(ns) : m # n => f[m] # f[n]
    /\ \A n \in Names \ NewNames(ns) : f[n] = SomeId
    /\ row' = [i \in Ids |->
          IF Present(i) /\ row[i].name \in ns THEN [row[i] EXCEPT !.ref = "file"]
          ELSE IF \E n \in NewNames(ns) : f[n] = i
          THEN [ref |-> "file", name |-> CHOOSE n \in NewNames(ns) : f[n] = i]
          ELSE row[i]]
    /\ used' = used \cup {f[n] : n \in NewNames(ns)}

\* The process restarts, its Vault calls may still land; discovery follows.
Restart ==
    /\ restarts < MaxRestarts
    /\ restarts' = restarts + 1
    /\ \E ns \in SUBSET Names, f \in [Names -> Ids] : Discovers(ns, f)
    /\ abandoned' = abandoned \cup {Call(r) : r \in {q \in Requests : InVault(q)
                                                                     /\ ~req[q].applied}}
    /\ astray' = astray \cup {p \in Paths : \E r \in Requests :
                                req[r].kind # "none" /\ p[2] = req[r].id}
    /\ req' = [r \in Requests |-> NoReq]
    /\ fresh' = [r \in Requests |-> {}]
    /\ UNCHANGED <<started, vault, target, reported>>

Next ==
    \/ \E r \in Requests :
         \/ CreateStarts(r) \/ UpdateStarts(r) \/ DeleteStarts(r) \/ AssignStarts(r)
         \/ VaultApplies(r) \/ VaultAnswers(r) \/ VaultFails(r) \/ VaultTimesOut(r)
         \/ CreateCommits(r) \/ CreateUndone(r) \/ UpdateCommits(r)
         \/ DeleteCommits(r) \/ AssignCommits(r)
    \/ \E c \in abandoned : LateCallEnds(c)
    \/ Restart

Spec == Init /\ [][Next]_vars

-----------------------------------------------------------------------------
Rows == [ref : {"absent", "pending", "vault", "file"}, name : Names]
Pcs == {"idle", "kube", "row", "argo", "undo"}
RequestStates ==
    [kind : AllKinds \cup {"none"}, pc : Pcs, id : Ids, cfg : Configs \cup {NoSecret},
     tok : BOOLEAN, name : Names \cup {Keep}, app : Apps \cup {NoApp}, applied : BOOLEAN]

\* Type correctness of the rows, secrets and requests.
TypeOK ==
    /\ row \in [Ids -> Rows]
    /\ used \subseteq Ids
    /\ vault \in [Paths -> Secrets]
    /\ target \in [Apps -> Ids \cup {NoTarget}]
    /\ req \in [Requests -> RequestStates]
    /\ started \in 0..MaxStarts
    /\ abandoned \subseteq [path : Paths, val : Secrets]
    /\ restarts \in 0..MaxRestarts
    /\ reported \subseteq Paths /\ astray \subseteq Paths
    /\ fresh \in [Requests -> SUBSET Apps]

(***************************************************************************)
(* A cluster whose row refers to Vault has its kubeconfig there: no order  *)
(* of registrations, updates, deletions, failures and late writes removes  *)
(* the secret of a live cluster.                                           *)
(***************************************************************************)
LiveClusterHasSecret ==
    \A i \in Ids : row[i].ref = "vault" => vault[<<"kube", i>>] # NoSecret

Busy(i) == \E r \in Requests : req[r].kind # "none" /\ req[r].id = i

(***************************************************************************)
(* No half-registered cluster stays behind: a pending row whose creation   *)
(* is over was interrupted by a restart.                                   *)
(***************************************************************************)
PendingIsTransient ==
    \A i \in Ids : row[i].ref = "pending" =>
        \/ \E r \in Requests : req[r].kind = "create" /\ req[r].id = i
        \/ <<"kube", i>> \in astray

(***************************************************************************)
(* What makes these properties inductive (ClusterRegistryProofs).  A key   *)
(* is given once: what is gone stays gone.  A secret is only ever removed  *)
(* under a row that is gone.  A registration has stored its kubeconfig     *)
(* before the row refers to it.  A leftover is explained, or a deletion is *)
(* about to remove it.  An application on the cluster of a registration or *)
(* a deletion was assigned since that one loaded its row.                  *)
(***************************************************************************)
KeysUsed ==
    /\ \A i \in Ids : Present(i) => i \in used
    /\ \A r \in Requests : req[r].kind # "none" => req[r].id \in used
    /\ \A a \in Apps : target[a] # NoTarget => target[a] \in used
Gone(i) == i \in used /\ ~Present(i)
RequestShape ==
    \A r \in Requests :
        /\ req[r].kind = "none" => req[r].pc = "idle"
        /\ req[r].pc = "undo" => req[r].kind = "create"
        /\ req[r].pc = "kube" /\ IsPut(r) => req[r].cfg # NoSecret
        /\ req[r].kind = "assign" => req[r].app \in Apps
RemovesGone ==
    /\ \A r \in Requests : InVault(r) /\ ~IsPut(r) => Gone(req[r].id)
    /\ \A c \in abandoned : c.val = NoSecret => Gone(c.path[2])
Stored ==
    \A r \in Requests : req[r].kind = "create" =>
        /\ \/ req[r].pc = "row" \/ (req[r].pc = "kube" /\ req[r].applied)
           => Gone(req[r].id) \/ vault[<<"kube", req[r].id>>] # NoSecret
        /\ req[r].pc = "argo" => row[req[r].id].ref # "pending"
Cleans(r, p) ==
    /\ req[r].kind = "delete" /\ req[r].id = p[2]
    /\ \/ req[r].pc = "kube" /\ (p[1] = "argo" \/ ~req[r].applied)
       \/ req[r].pc = "argo" /\ p[1] = "argo" /\ ~req[r].applied
LeftoversTracked ==
    /\ \A p \in Paths : vault[p] # NoSecret /\ ~Present(p[2]) =>
           p \in reported \cup astray \/ \E r \in Requests : Cleans(r, p)
    /\ \A c \in abandoned : c.val # NoSecret => c.path \in astray
FreshKnown ==
    \A r \in Requests : req[r].kind \in {"create", "delete"} =>
        \A a \in Apps : target[a] = req[r].id => a \in fresh[r]

\* All of them, over every registration, update and deletion of the service.
RegistryInv ==
    /\ TypeOK /\ PendingIsTransient /\ LiveClusterHasSecret /\ KeysUsed /\ RequestShape
    /\ RemovesGone /\ Stored /\ LeftoversTracked /\ FreshKnown

(***************************************************************************)
(* No silent leftover: a secret whose cluster is gone was logged by the    *)
(* deletion, or was written without its request knowing (lost answer,      *)
(* abandoned call, restart), after the row was gone, or under a            *)
(* registration that was undone.                                           *)
(***************************************************************************)
LeftoversExplained ==
    \A p \in Paths : vault[p] # NoSecret /\ ~Present(p[2]) /\ ~Busy(p[2]) =>
        p \in reported \cup astray

(***************************************************************************)
(* The guard of the deletion: an application that loses its cluster was    *)
(* assigned while a request on that cluster was under way.                 *)
(***************************************************************************)
OrphansAreRaces ==
    [][\A a \in Apps : target[a] # NoTarget /\ target'[a] = NoTarget =>
          \E r \in Requests : req[r].id = target[a] /\ a \in fresh[r]]_vars

=============================================================================
