--------------------------- MODULE KeycloakDeploy ---------------------------
(***************************************************************************)
(* The operator's command that installs a Keycloak instance                *)
(* (infra/keycloak/lib/deploy.py, vault_api.py, keycloak_api.py,           *)
(* gateway.py and gateway/apply-route.sh).  Several operators may run it   *)
(* at once, for one instance or for several that share the gateway; each   *)
(* request can fail, each run can be killed, an answer can be lost, and an *)
(* SSH connection can drop while the remote script goes on.                *)
(*                                                                         *)
(* The four places a run writes to are Vault (the bootstrap, ESO and       *)
(* provisioner secrets), Keycloak (the provisioner client), the gateway    *)
(* (route files, what NGINX serves, the lock) and CNP's registry.          *)
(***************************************************************************)
EXTENDS Integers, FiniteSets

CONSTANTS
    Operators,
    Keys, Urls, Clusters,
    Targets,        \* the target files: key, url, cluster, and whether the route works
    MaxRuns,        \* runs of the command
    MaxUpsets,      \* failures and outside events
    None

Wrong == "wrong"    \* a route that leads nowhere
Nothing == 0        \* no secret stored, no token applied, no client
Runs == 1 .. MaxRuns
Secrets == 0 .. MaxRuns

TargetConfig == [key : Keys, url : Urls, cluster : Clusters, sound : BOOLEAN]
Rows == [url : Urls, cluster : Clusters, enabled : BOOLEAN]
Routes == Urls \cup {Wrong, None}
Locks == [owner : Runs, key : Keys, previous : Routes, activated : BOOLEAN]

\* The target files of one instance name one cluster.  The command can also move an instance
\* (another cluster in its target file, written with the activation); a move is left out: here
\* Keycloak's database, administrator and client belong to the instance, not to its cluster.
ASSUME DeployAssumption ==
    /\ Targets \subseteq TargetConfig
    /\ \A t, u \in Targets : t.key = u.key => t.cluster = u.cluster
    /\ MaxRuns \in Nat /\ MaxUpsets \in Nat
    /\ None \notin Urls \cup {Wrong} /\ Wrong \notin Urls
    /\ None \notin Rows /\ None \notin Locks

VARIABLES
    inst,       \* Keys -> the row of the registry
    boot, eso, provisioner,   \* Keys -> secrets in Vault
    tokens,     \* ESO tokens that Vault accepts
    applied,    \* Keys -> the token in the cluster's Secret
    admin,      \* Keys -> password of the bootstrap administrator of the running Keycloak
    client,     \* Keys -> secret of the client cnp-provisioner in Keycloak
    lock,       \* .update-lock on the gateway
    file, live, \* Keys -> the route on disk, the route NGINX serves
    detached,   \* stage scripts whose SSH connection dropped while they wait for the lock
    pending,    \* activations the backend still works on, though their operator has given up
    run,        \* Operators -> the run under way
    started, upsets,
    lost,       \* runs that left something behind: killed, cut off, or failed half-way
    undone, fresh   \* keys: activated without a route, by a rollback after the activation or
                    \* an activation after the rollback; Keycloak database renewed

vault == <<boot, eso, provisioner, tokens>>
gateway == <<lock, file, live>>
ghosts == <<lost, undone, fresh>>
vars == <<inst, vault, applied, admin, client, gateway, detached, pending, run,
          started, upsets, ghosts>>

-----------------------------------------------------------------------------
Idle == [pc |-> "idle"]
Active(o) == run[o].pc # "idle"
At(o, pc) == run[o].pc = pc
T(o) == run[o].t
K(o) == run[o].t.key
Goes(o, pc) == run' = [run EXCEPT ![o].pc = pc]
Ends(o) == run' = [run EXCEPT ![o] = Idle]
Upset == upsets < MaxUpsets /\ upsets' = upsets + 1
Route(t) == IF t.sound THEN t.url ELSE Wrong

\* ensure_secret: read, else create with cas=0, else read what the winner created.
Overwritten(old, new) == new
Ensured(old, new) == IF old = Nothing THEN new ELSE old

\* The unique column cluster_id.
ClusterFree(k, c) == \A h \in Keys \ {k} : inst[h] # None => inst[h].cluster # c

-----------------------------------------------------------------------------
(* Until the gateway: every step is one request. *)

\* preflight() of deploy(target).
Starts(o, t) ==
    /\ ~Active(o) /\ started < MaxRuns
    /\ ClusterFree(t.key, t.cluster)
    /\ started' = started + 1
    /\ run' = [run EXCEPT ![o] = [pc |-> "current", t |-> t, tx |-> started + 1,
                                  absent |-> FALSE, cred |-> Nothing,
                                  held |-> Nothing]]
    /\ UNCHANGED <<inst, vault, applied, admin, client, gateway, detached, pending, upsets, ghosts>>

\* GET of the row: a different issuer is refused.
Current(o) ==
    /\ At(o, "current")
    /\ IF inst[K(o)] # None /\ inst[K(o)].url # T(o).url THEN Ends(o)
       ELSE run' = [run EXCEPT ![o].pc = "secrets", ![o].absent = inst[K(o)] = None]
    /\ UNCHANGED <<inst, vault, applied, admin, client, gateway, detached, pending,
                   started, upsets, ghosts>>

\* configure_secrets up to the ESO token: with one stored, it is renewed.
EnsureBootstrap(o) ==
    /\ At(o, "secrets")
    /\ boot' = [boot EXCEPT ![K(o)] = Ensured(@, run[o].tx)]
    /\ run' = [run EXCEPT ![o].pc = "token", ![o].cred = boot'[K(o)]]
    /\ UNCHANGED <<inst, eso, provisioner, tokens, applied, admin, client, gateway, detached, pending,
                   started, upsets, ghosts>>
FindToken(o) ==
    /\ At(o, "token")
    /\ IF eso[K(o)] = Nothing THEN Goes(o, "mint")
       ELSE IF eso[K(o)] \in tokens
       THEN run' = [run EXCEPT ![o].pc = "apply", ![o].held = eso[K(o)]]
       ELSE Ends(o)
    /\ UNCHANGED <<inst, vault, applied, admin, client, gateway, detached, pending,
                   started, upsets, ghosts>>
MintToken(o) ==
    /\ At(o, "mint")
    /\ tokens' = tokens \cup {run[o].tx}
    /\ Goes(o, "store")
    /\ UNCHANGED <<inst, boot, eso, provisioner, applied, admin, client, gateway, detached, pending,
                   started, upsets, ghosts>>

\* The loser of the creation revokes its own token and goes on with the winner's.
StoreToken(o) ==
    LET winner == Ensured(eso[K(o)], run[o].tx) IN
    /\ At(o, "store")
    /\ eso' = [eso EXCEPT ![K(o)] = winner]
    /\ run' = [run EXCEPT ![o].pc = IF winner = run[o].tx THEN "apply" ELSE "revoke",
                          ![o].held = winner]
    /\ UNCHANGED <<inst, boot, provisioner, tokens, applied, admin, client, gateway, detached, pending,
                   started, upsets, ghosts>>
RevokeToken(o) ==
    /\ At(o, "revoke")
    /\ tokens' = tokens \ {run[o].tx}
    /\ Goes(o, "apply")
    /\ UNCHANGED <<inst, boot, eso, provisioner, applied, admin, client, gateway, detached, pending,
                   started, upsets, ghosts>>
ApplyToken(o) ==
    /\ At(o, "apply")
    /\ applied' = [applied EXCEPT ![K(o)] = run[o].held]
    /\ run' = [run EXCEPT ![o].pc = "register", ![o].held = Nothing]
    /\ UNCHANGED <<inst, vault, admin, client, gateway, detached, pending,
                   started, upsets, ghosts>>

\* The row of a new instance, inactive, with If-None-Match; on 412 the winner's issuer counts.
Row(t, enabled) == [url |-> t.url, cluster |-> t.cluster, enabled |-> enabled]
OverwritesRow(o) == inst' = [inst EXCEPT ![K(o)] = Row(T(o), FALSE)] /\ Goes(o, "install")
CreatesRow(o) ==
    IF inst[K(o)] = None /\ ClusterFree(K(o), T(o).cluster)
    THEN inst' = [inst EXCEPT ![K(o)] = Row(T(o), FALSE)] /\ Goes(o, "install")
    ELSE /\ UNCHANGED inst
         /\ IF inst[K(o)] = None \/ inst[K(o)].url # T(o).url THEN Ends(o) ELSE Goes(o, "install")
Register(o) ==
    /\ At(o, "register")
    /\ IF run[o].absent THEN CreatesRow(o) ELSE UNCHANGED inst /\ Goes(o, "install")
    /\ UNCHANGED <<vault, applied, admin, client, gateway, detached, pending,
                   started, upsets, ghosts>>

\* Helm upgrade or ArgoCD sync, until the deployment is ready; a first start takes the
\* administrator from Vault.
Install(o) ==
    /\ At(o, "install")
    /\ admin' = [admin EXCEPT ![K(o)] = Ensured(@, boot[K(o)])]
    /\ Goes(o, "retained")
    /\ UNCHANGED <<inst, vault, applied, client, gateway, detached, pending,
                   started, upsets, ghosts>>

\* bootstrap(): the login, the stored secret, the client created with it or with one of
\* Keycloak's own (409 is tolerated), the client's secret stored unless another one is.
Retained(o) ==
    /\ At(o, "retained")
    /\ IF run[o].cred # admin[K(o)] THEN Ends(o)
       ELSE run' = [run EXCEPT ![o].pc = "client", ![o].held = provisioner[K(o)]]
    /\ UNCHANGED <<inst, vault, applied, admin, client, gateway, detached, pending,
                   started, upsets, ghosts>>
EnsureProvisioner(o) ==
    LET secret == Ensured(client[K(o)], Ensured(run[o].held, run[o].tx)) IN
    /\ At(o, "client")
    /\ client' = [client EXCEPT ![K(o)] = secret]
    /\ run' = [run EXCEPT ![o].pc = "provisioner", ![o].held = secret]
    /\ UNCHANGED <<inst, vault, applied, admin, gateway, detached, pending,
                   started, upsets, ghosts>>
StoreProvisioner(o) ==
    LET winner == Ensured(provisioner[K(o)], run[o].held) IN
    /\ At(o, "provisioner")
    /\ provisioner' = [provisioner EXCEPT ![K(o)] = winner]
    /\ IF winner # run[o].held THEN Ends(o)
       ELSE run' = [run EXCEPT ![o].pc = "stage", ![o].held = Nothing]
    /\ UNCHANGED <<inst, boot, eso, tokens, applied, admin, client, gateway, detached, pending,
                   started, upsets, ghosts>>

-----------------------------------------------------------------------------
(* The gateway: apply-route.sh, its lock, and what install_route makes of its answers. *)

OwnsAny(tx, k) == lock # None
Owns(tx, k) == lock # None /\ lock.owner = tx /\ lock.key = k
StagedLock(tx, k) == [owner |-> tx, key |-> k, previous |-> file[k], activated |-> FALSE]
Serve(k, r) == file' = [file EXCEPT ![k] = r] /\ live' = [live EXCEPT ![k] = r]
Kept == UNCHANGED <<inst, vault, applied, admin, client, started>>
Untouched == Kept /\ UNCHANGED pending

Stage(o) ==
    /\ At(o, "stage") /\ lock = None
    /\ lock' = StagedLock(run[o].tx, K(o))
    /\ Serve(K(o), Route(T(o)))
    /\ Goes(o, "verify")
    /\ Untouched /\ UNCHANGED <<detached, upsets, ghosts>>

\* Staged, and the connection drops: the owner rolls back.
StageUnanswered(o) ==
    /\ At(o, "stage") /\ lock = None /\ Upset
    /\ lock' = StagedLock(run[o].tx, K(o))
    /\ Serve(K(o), Route(T(o)))
    /\ Goes(o, "undo")
    /\ Untouched /\ UNCHANGED <<detached, ghosts>>

\* NGINX refuses the candidate and the restored route: the lock stays for the rollback.
StageRejected(o) ==
    /\ At(o, "stage") /\ lock = None /\ Upset
    /\ lock' = StagedLock(run[o].tx, K(o))
    /\ Goes(o, "undo")
    /\ Untouched /\ UNCHANGED <<file, live, detached, ghosts>>

\* Busy after 60 attempts: the rollback that follows owns nothing.
StageBusy(o) ==
    /\ At(o, "stage") /\ lock # None
    /\ Goes(o, "undo")
    /\ Untouched /\ UNCHANGED <<gateway, detached, upsets, ghosts>>

\* The connection drops while the script waits for the lock; the script goes on.
StageDetached(o) ==
    /\ At(o, "stage") /\ lock # None /\ Upset
    /\ detached' = detached \cup {[tx |-> run[o].tx, t |-> T(o)]}
    /\ lost' = lost \cup {run[o].tx}
    /\ Goes(o, "undo")
    /\ Untouched /\ UNCHANGED <<gateway, undone, fresh>>
DetachedStages(d) ==
    /\ lock = None
    /\ lock' = StagedLock(d.tx, d.t.key)
    /\ Serve(d.t.key, Route(d.t))
    /\ detached' = detached \ {d}
    /\ Untouched /\ UNCHANGED <<run, upsets, ghosts>>
DetachedBusy(d) ==
    /\ lock # None
    /\ detached' = detached \ {d}
    /\ Untouched /\ UNCHANGED <<gateway, run, upsets, ghosts>>

\* verify_public: discovery through the public URL.
VerifiedAlways(o) == TRUE
Verified(o) == live[K(o)] = T(o).url
Verify(o) ==
    /\ At(o, "verify")
    /\ Goes(o, IF Verified(o) THEN "enable" ELSE "undo")
    /\ Untouched /\ UNCHANGED <<gateway, detached, upsets, ghosts>>

\* PUT enabled=True: CNP tries the provisioner's credential before it writes the row.  An open
\* transaction is marked when it would not bring back the route of what is activated under it.
Enabled(k) == inst[k] # None /\ inst[k].enabled
Accepts(t) == /\ provisioner[t.key] # Nothing /\ client[t.key] = provisioner[t.key]
              /\ ClusterFree(t.key, t.cluster)
Activated(t) ==
    /\ inst' = [inst EXCEPT ![t.key] = Row(t, TRUE)]
    /\ lock' = IF lock # None /\ lock.key = t.key /\ (~Enabled(t.key) \/ t.key \in undone)
               THEN [lock EXCEPT !.activated = TRUE] ELSE lock
    /\ fresh' = fresh \ {t.key}
    /\ UNCHANGED <<vault, applied, admin, client, file, live, detached, started, upsets, lost>>
Enable(o) ==
    /\ At(o, "enable") /\ Accepts(T(o)) /\ Activated(T(o)) /\ Goes(o, "commit")
    /\ undone' = undone \ {K(o)}
    /\ UNCHANGED pending

\* The operator waits 15 seconds, the backend may take more: it reads Vault and asks Keycloak
\* first.  The operator rolls back, and the row is written before that, after it, or never.
Request(o) == [tx |-> run[o].tx, t |-> T(o)]
EnableUnanswered(o) ==
    /\ At(o, "enable") /\ Goes(o, "undo") /\ Upset
    /\ pending' = pending \cup {Request(o)}
    /\ Kept /\ UNCHANGED <<gateway, detached, ghosts>>
LateEnables(w) ==
    /\ Accepts(w.t) /\ Activated(w.t)
    /\ undone' = IF live[w.t.key] = w.t.url THEN undone \ {w.t.key}
                 ELSE IF Enabled(w.t.key) THEN undone ELSE undone \cup {w.t.key}
    /\ pending' = pending \ {w}
    /\ UNCHANGED run
LateRefused(w) ==
    /\ ~Accepts(w.t)
    /\ pending' = pending \ {w}
    /\ Kept /\ UNCHANGED <<gateway, detached, run, upsets, ghosts>>
EnableRefused(o) ==
    /\ At(o, "enable") /\ ~Accepts(T(o)) /\ Goes(o, "undo")
    /\ Untouched /\ UNCHANGED <<gateway, detached, upsets, ghosts>>

Commit(o) ==
    /\ At(o, "commit") /\ Ends(o)
    /\ lock' = IF Owns(run[o].tx, K(o)) THEN None ELSE lock
    /\ Untouched /\ UNCHANGED <<file, live, detached, upsets, ghosts>>

\* A rollback by the transaction that holds the lock.
Restores(l) == /\ Serve(l.key, l.previous) /\ lock' = None
               /\ undone' = IF l.activated THEN undone \cup {l.key} ELSE undone
Undo(o) ==
    /\ At(o, "undo") /\ Ends(o)
    /\ IF Owns(run[o].tx, K(o)) THEN Restores(lock) ELSE UNCHANGED <<gateway, undone>>
    /\ Untouched /\ UNCHANGED <<detached, upsets, lost, fresh>>

\* Restored on disk, and NGINX does not take it: the transaction is retained.
UndoIncomplete(o) ==
    /\ At(o, "undo") /\ Owns(run[o].tx, K(o)) /\ Upset /\ Ends(o)
    /\ file' = [file EXCEPT ![K(o)] = lock.previous]
    /\ lost' = lost \cup {run[o].tx}
    /\ Untouched /\ UNCHANGED <<lock, live, detached, undone, fresh>>

-----------------------------------------------------------------------------
(* Failures and the world outside. *)

\* A request fails: before the gateway the run ends, after it the route is rolled back.
Fails(o) ==
    /\ Active(o) /\ Upset
    /\ IF run[o].pc \in {"verify", "enable"} THEN Goes(o, "undo") /\ UNCHANGED lost
       ELSE Ends(o) /\ lost' = lost \cup {run[o].tx}
    /\ Untouched /\ UNCHANGED <<gateway, detached, undone, fresh>>

\* The operator's process is killed; its last request may be with the backend.
Killed(o) ==
    /\ Active(o) /\ run[o].pc \in {"verify", "enable"} /\ Upset
    /\ Ends(o) /\ lost' = lost \cup {run[o].tx}
    /\ \/ UNCHANGED pending
       \/ At(o, "enable") /\ pending' = pending \cup {Request(o)}
    /\ Kept /\ UNCHANGED <<gateway, detached, undone, fresh>>

\* The documented recovery, once no deployment is running.
Recover ==
    /\ lock # None /\ detached = {} /\ \A o \in Operators : ~Active(o)
    /\ Restores(lock)
    /\ Untouched /\ UNCHANGED <<detached, run, upsets, lost, fresh>>

\* Keycloak starts on a new database.
NewDatabase(k) ==
    /\ client[k] # Nothing /\ Upset
    /\ client' = [client EXCEPT ![k] = Nothing]
    /\ fresh' = fresh \cup {k}
    /\ UNCHANGED <<inst, vault, applied, admin, gateway, detached, pending, run, started,
                   lost, undone>>

Init ==
    /\ inst = [k \in Keys |-> None]
    /\ boot = [k \in Keys |-> Nothing] /\ eso = boot /\ provisioner = boot /\ tokens = {}
    /\ applied = boot /\ admin = boot /\ client = boot
    /\ lock = None /\ file = [k \in Keys |-> None] /\ live = file
    /\ detached = {} /\ pending = {} /\ run = [o \in Operators |-> Idle]
    /\ started = 0 /\ upsets = 0 /\ lost = {} /\ undone = {} /\ fresh = {}

Deploys(o) ==
    \/ Current(o) \/ EnsureBootstrap(o) \/ FindToken(o) \/ MintToken(o) \/ StoreToken(o)
    \/ RevokeToken(o) \/ ApplyToken(o) \/ Register(o) \/ Install(o) \/ Retained(o)
    \/ EnsureProvisioner(o) \/ StoreProvisioner(o) \/ Stage(o) \/ StageBusy(o) \/ Verify(o)
    \/ Enable(o) \/ EnableRefused(o) \/ Commit(o) \/ Undo(o)

Next ==
    \/ \E o \in Operators : Deploys(o)
    \/ \E o \in Operators, t \in Targets : Starts(o, t)
    \/ \E o \in Operators : StageUnanswered(o) \/ StageRejected(o) \/ StageDetached(o)
                            \/ EnableUnanswered(o) \/ UndoIncomplete(o) \/ Fails(o) \/ Killed(o)
    \/ \E d \in detached : DetachedStages(d) \/ DetachedBusy(d)
    \/ \E w \in pending : LateEnables(w) \/ LateRefused(w)
    \/ \E k \in Keys : NewDatabase(k)
    \/ Recover

Spec == Init /\ [][Next]_vars

-----------------------------------------------------------------------------
(* Properties. *)

Pcs == {"current", "secrets", "token", "mint", "store", "revoke", "apply", "register", "install",
        "retained", "client", "provisioner", "stage", "verify", "enable", "commit", "undo"}
Deployments == [pc : Pcs, t : Targets, tx : Runs, absent : BOOLEAN, cred : Secrets,
                held : Secrets]
TypeOK ==
    /\ inst \in [Keys -> {None} \cup Rows]
    /\ boot \in [Keys -> Secrets] /\ eso \in [Keys -> Secrets]
    /\ provisioner \in [Keys -> Secrets] /\ applied \in [Keys -> Secrets]
    /\ admin \in [Keys -> Secrets] /\ client \in [Keys -> Secrets]
    /\ tokens \subseteq Runs
    /\ lock \in {None} \cup Locks
    /\ file \in [Keys -> Routes] /\ live \in [Keys -> Routes]
    /\ detached \subseteq [tx : Runs, t : Targets]
    /\ run \in [Operators -> {Idle} \cup Deployments]
    /\ started \in 0 .. MaxRuns /\ upsets \in 0 .. MaxUpsets
    /\ lost \subseteq Runs /\ undone \subseteq Keys /\ fresh \subseteq Keys

\* What concurrent runs generate for one instance agrees: Keycloak's administrator is the one
\* in Vault and the one each run logs in with, and the cluster reads with the stored token.
SecretsAgree ==
    /\ \A k \in Keys : admin[k] \in {Nothing, boot[k]} /\ applied[k] \in {Nothing, eso[k]}
    /\ \A o \in Operators : Active(o) => run[o].cred \in {Nothing, boot[K(o)]}

\* A token that is not the stored one is about to be stored or revoked, or its run was cut off.
NoStrayToken ==
    \A x \in tokens : \/ x \in {eso[k] : k \in Keys} \/ x \in lost
                      \/ \E o \in Operators : run[o].pc \in {"store", "revoke"} /\ run[o].tx = x

\* Gateway transactions are serialised: from staging to commit the run holds the lock and its
\* route is the one served, and a lock nobody works under was left by a run that was cut off.
GatewaySerial ==
    /\ \A o \in Operators : run[o].pc \in {"verify", "enable", "commit"} =>
           Owns(run[o].tx, K(o)) /\ live[K(o)] = Route(T(o))
    /\ lock # None => \/ lock.owner \in lost
                      \/ \E o \in Operators : /\ run[o].pc \in {"verify", "enable", "commit", "undo"}
                                              /\ run[o].tx = lock.owner /\ K(o) = lock.key

\* An active instance is reachable: its public URL is served, or a transaction that can
\* restore it is open, and CNP's stored credential is the client's.  Excepted are a route
\* rolled back although its activation had been written, or was written later (a lost or late
\* answer, a kill or a failed commit followed by the documented recovery), and a renewed
\* Keycloak database, until the next run that reaches the activation.
ActiveReachable ==
    \A k \in Keys : Enabled(k) =>
        /\ \/ live[k] = inst[k].url \/ k \in undone
           \/ lock # None /\ lock.key = k /\ lock.previous = inst[k].url
        /\ client[k] = provisioner[k] \/ k \in fresh

\* What makes the four properties above inductive (KeycloakDeployProofs): transactions have
\* numbers of their own and a detached stage belongs to a run cut off; a run that applies a
\* token has the stored one; past the look-up or the registration the row carries the
\* target's issuer, and past the public check the route is sound; a route served is the one
\* on disk, unless a rollback was cut short; an open transaction restores an instance it found
\* active; an active instance has its credential stored; a request whose operator has gone is
\* for a registered instance.
RunsDistinct ==
    /\ \A o, p \in Operators : Active(o) /\ Active(p) /\ o # p => run[o].tx # run[p].tx
    /\ \A o \in Operators : Active(o) => run[o].tx <= started
    /\ \A d \in detached : d.tx \in lost
TokenHeld ==
    \A o \in Operators : run[o].pc \in {"revoke", "apply"} =>
        run[o].held = eso[K(o)] /\ eso[K(o)] # Nothing
Registered == {"install", "retained", "client", "provisioner", "stage", "verify", "enable",
               "commit", "undo"}
RowKnown ==
    \A o \in Operators : /\ Active(o) /\ ~At(o, "current")
                         /\ ~run[o].absent \/ run[o].pc \in Registered
                         => inst[K(o)] # None /\ inst[K(o)].url = T(o).url
RouteKnown ==
    \A o \in Operators : /\ run[o].pc \in {"enable", "commit"} => T(o).sound
                         /\ At(o, "commit") => inst[K(o)].enabled
ServedFromDisk ==
    \A o \in Operators : run[o].pc \in {"verify", "enable", "commit"} => file[K(o)] = live[K(o)]
RoutesSettled == \A k \in Keys : file[k] = live[k] \/ (lock # None /\ lock.key = k)
Restorable ==
    lock # None => LET k == lock.key IN
        Enabled(k) /\ ~lock.activated => lock.previous = inst[k].url \/ k \in undone
CredentialKept == \A k \in Keys : Enabled(k) => provisioner[k] # Nothing
PendingKnown == /\ pending \subseteq [tx : Runs, t : Targets]
                /\ \A w \in pending : inst[w.t.key] # None /\ inst[w.t.key].url = w.t.url

DeployInv == /\ TypeOK /\ SecretsAgree /\ NoStrayToken /\ GatewaySerial /\ ActiveReachable
             /\ RunsDistinct /\ TokenHeld /\ RowKnown /\ RouteKnown
             /\ ServedFromDisk /\ RoutesSettled /\ Restorable /\ CredentialKept
             /\ PendingKnown

\* "Une instance déjà active reste active pendant la relance" (README of infra/keycloak): no
\* run deactivates an instance, and none changes the issuer of a registered one.
StaysActive ==
    [][\A k \in Keys : inst[k] # None => /\ inst'[k] # None /\ inst'[k].url = inst[k].url
                                         /\ inst[k].enabled => inst'[k].enabled]_vars
=============================================================================
