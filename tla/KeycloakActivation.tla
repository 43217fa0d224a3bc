------------------------- MODULE KeycloakActivation -------------------------
(***************************************************************************)
(* Keycloak for applications (backend/services/keycloak_service.py,        *)
(* keycloak_instance_service.py, keycloak/client.py): activation binds an  *)
(* application to an instance, makes one realm and one client per          *)
(* environment and puts the OIDC variables in Vault.  The registry of      *)
(* instances, the environment variables and the deletion of applications   *)
(* write the same rows, realms and secrets.                                *)
(*                                                                         *)
(* All applications here have the same slug, one after the other: realms   *)
(* and secrets are named after it, only the id in a realm tells who made   *)
(* it.  The three OIDC variables of an environment are one value, the      *)
(* issuer they name.  The tokens of the admin API, redirect URIs and       *)
(* console accounts are left out.                                          *)
(***************************************************************************)
EXTENDS Naturals

CONSTANTS
    Instances,  \* instance keys
    Urls,       \* public URLs an administrator gives instances
    Legacy,     \* the installation the settings name
    Clusters,   \* registered clusters
    Requests,   \* concurrent HTTP requests
    Starts,     \* what they do
    MaxApps,    \* bound on applications ever created
    MaxStarts,  \* bound on requests and acts of administrators
    Mixes       \* bound on mishaps: the sets of kinds that may come together

None      == "none"
Own       == "own"          \* OIDC variables a developer set
Envs      == {"dev", "prod"}
Ids       == 1 .. MaxApps
Nobody    == 0
Stranger  == MaxApps + 1    \* maker of a realm the platform knows nothing of
Servers   == Urls \cup {Legacy}
AllStarts == {"create", "activate", "reprovision", "delete", "set", "unset",
              "upsert", "drop"}
Kinds     == {"fail", "kept", "outsider", "overlap", "crash", "moved"}
Warnings  == {"instance_unavailable", "provisioning_failed", "oidc_keys_conflict"}

ASSUME KeycloakConstants ==
    /\ MaxApps \in Nat \ {0} /\ MaxStarts \in Nat
    /\ Starts \subseteq AllStarts /\ Mixes \subseteq SUBSET Kinds
    /\ {None, Own} \cap (Servers \cup Instances \cup Clusters) = {}

VARIABLES
    row,      \* Ids -> the columns of the application
    last,     \* the last primary key given
    inst,     \* Instances -> rows of keycloak_instances
    realm,    \* Servers \X Envs -> the realm {slug}-{env}
    taken,    \* ids of realms that live on under another name
    vault,    \* Envs -> the OIDC variables in the secret of the environment
    req,      \* Requests -> where the request stands
    started,  \* how many there were
    mishaps   \* observation only: the kinds of mishap so far

vars == <<row, last, inst, realm, taken, vault, req, started, mishaps>>

NoRow   == [present |-> FALSE, enabled |-> FALSE, prov |-> None, warn |-> None,
            bound |-> None, cluster |-> None]
NoInst  == [exists |-> FALSE, cluster |-> None, url |-> Legacy, enabled |-> FALSE]
NoRealm == [owner |-> Nobody, cli |-> FALSE, client |-> FALSE]

\* seen is the row as the session loaded it, mine what it made of it since.
Idle == [pc |-> "idle", kind |-> None, id |-> 0, env |-> "dev", seen |-> NoRow,
         mine |-> NoRow, key |-> None, pay |-> NoInst, url |-> Legacy, swapped |-> FALSE]

Present(i) == row[i].present

Note(K)     == /\ mishaps' = mishaps \cup K
               /\ \E m \in Mixes : mishaps' \subseteq m
When(b, k)  == IF b THEN {k} ELSE {}
Goes(r, q)  == req' = [req EXCEPT ![r] = q]
Ends(r)     == Goes(r, Idle)
Step(r, pc) == Goes(r, [req[r] EXCEPT !.pc = pc])

\* Nobody but r holds the row of application i (bind_for_activation).
AppFree(i, r) ==
    \A q \in Requests \ {r} : ~(req[q].id = i /\ req[q].pc \in {"instance", "connect"})

\* Nobody but r holds the row of instance k (activation, upsert).
InstFree(k, r) ==
    \A q \in Requests \ {r} : ~(req[q].key = k /\ req[q].pc \in {"connect", "upsert"})

\* Nothing yet, or one application whose activation on server u succeeded.
Fresh ==
    /\ row = [i \in Ids |-> NoRow] /\ last = 0
    /\ realm = [p \in Servers \X Envs |-> NoRealm]
    /\ vault = [e \in Envs |-> None]

Activated(k, u) ==
    /\ row = [i \in Ids |-> IF i = 1 THEN [present |-> TRUE, enabled |-> TRUE, prov |-> "yes",
                                          warn |-> None, bound |-> k, cluster |-> None]
                            ELSE NoRow]
    /\ last = 1
    /\ realm = [p \in Servers \X Envs |->
                  IF p[1] = u THEN [owner |-> 1, cli |-> TRUE, client |-> TRUE] ELSE NoRealm]
    /\ vault = [e \in Envs |-> u]

\* At most one instance is registered.
Init ==
    /\ \/ inst = [k \in Instances |-> NoInst] /\ (Fresh \/ Activated(None, Legacy))
       \/ \E k \in Instances, u \in Urls, c \in Clusters :
             /\ inst = [l \in Instances |->
                   IF l = k THEN [exists |-> TRUE, cluster |-> c, url |-> u, enabled |-> TRUE]
                   ELSE NoInst]
             /\ Fresh \/ Activated(k, u)
    /\ taken = {}
    /\ req = [r \in Requests |-> Idle]
    /\ started = 0
    /\ mishaps = {}

-----------------------------------------------------------------------------
(***************************************************************************)
(* Sessions.  A commit writes the columns the session changed, and raises  *)
(* when it has changes for a row that is gone.                             *)
(***************************************************************************)

Columns == {"enabled", "prov", "warn", "bound"}
Dirty(q) == {c \in Columns : q.mine[c] # q.seen[c]}

Committed(q) ==
    [row EXCEPT ![q.id] = [c \in DOMAIN @ |-> IF c \in Dirty(q) THEN q.mine[c] ELSE @[c]]]

Begin(r, q) ==
    /\ req[r].pc = "idle" /\ q.kind \in Starts
    /\ started < MaxStarts /\ started' = started + 1
    /\ Goes(r, q)
    /\ Note(When(\E p \in Requests : q.id # 0 /\ req[p].id = q.id, "overlap"))

\* The application is loaded.
Load(kind, pc, i) ==
    [Idle EXCEPT !.kind = kind, !.pc = pc, !.id = i, !.seen = row[i], !.mine = row[i]]

\* What the attempt changed is rolled back first.
MarkedAfresh(q, w) == [q EXCEPT !.mine = [q.seen EXCEPT !.prov = "no", !.warn = w]]

\* mark_activation_failed on top of what the session changed already; the
\* creation of an application and a retry record a conflict, a first
\* activation only refuses.
Marked(q, w) == [q EXCEPT !.mine.prov = "no", !.mine.warn = w]

Fails(r, w) ==
    LET q == Marked(req[r], w) IN
    /\ AppFree(q.id, r)
    /\ row' = IF Present(q.id) THEN Committed(q) ELSE row
    /\ Ends(r)

-----------------------------------------------------------------------------
(***************************************************************************)
(* Activation up to the binding.                                           *)
(***************************************************************************)

\* scaffold_app or onboard_app with the service "keycloak": the row is saved,
\* then activated.
CreateBegins(r) ==
    /\ last < MaxApps /\ \A i \in Ids : ~Present(i)
    /\ \E c \in Clusters \cup {None} :
          row' = [row EXCEPT ![last + 1] = [NoRow EXCEPT !.present = TRUE, !.cluster = c]]
    /\ last' = last + 1
    /\ Begin(r, [Idle EXCEPT !.kind = "create", !.pc = "keys", !.id = last + 1,
                             !.seen = row'[last + 1], !.mine = row'[last + 1]])
    /\ UNCHANGED <<inst, realm, taken, vault>>

\* 409 when it is on and the last attempt did not fail.
ActivateBegins(r) ==
    /\ \E i \in Ids :
          /\ Present(i) /\ (row[i].enabled => row[i].prov = "no")
          /\ Begin(r, Load("activate", IF row[i].enabled THEN "bind" ELSE "keys", i))
    /\ UNCHANGED <<row, last, inst, realm, taken, vault>>

Recorded(q) == q.kind = "create" \/ q.mine.prov = "no"

KeysClash(q) == vault[q.env] # None

\* assert_no_foreign_oidc_keys: dev, then prod.
ReadsKeys(r) ==
    /\ req[r].pc = "keys"
    /\ LET q == req[r] IN
       \/ /\ ~KeysClash(q)
          /\ Goes(r, IF q.env = "dev" THEN [q EXCEPT !.env = "prod"]
                     ELSE [q EXCEPT !.env = "dev", !.pc = "bind"])
          /\ UNCHANGED <<row, mishaps>>
       \/ KeysClash(q) /\ Recorded(q) /\ Fails(r, "oidc_keys_conflict") /\ UNCHANGED mishaps
       \/ KeysClash(q) /\ ~Recorded(q) /\ Ends(r) /\ UNCHANGED <<row, mishaps>>
       \/ Fails(r, "instance_unavailable") /\ Note({"fail"})
    /\ UNCHANGED <<last, inst, realm, taken, vault, started>>

\* bind_for_activation locks the row and reads it again (a row that is gone
\* leaves the session's copy as it was).
LocksApp(r) ==
    /\ req[r].pc = "bind"
    /\ AppFree(req[r].id, r)
    /\ LET q == req[r] IN
       Goes(r, IF Present(q.id)
               THEN [q EXCEPT !.pc = "instance", !.seen = row[q.id], !.mine = row[q.id]]
               ELSE [q EXCEPT !.pc = "instance"])
    /\ UNCHANGED <<row, last, inst, realm, taken, vault, started, mishaps>>

\* The keys _resolve selects: the binding, or the cluster's instance for an
\* application that is off; none means the legacy installation.
KeysFor(m) ==
    IF m.bound # None THEN {m.bound}
    ELSE {k \in Instances : ~m.enabled /\ m.cluster # None
                            /\ inst[k].exists /\ inst[k].cluster = m.cluster}

\* The commit of the binding.
Binds(r, k) ==
    LET q == [req[r] EXCEPT !.mine.bound = k] IN
    IF Dirty(q) # {} /\ ~Present(q.id) THEN Ends(r) /\ UNCHANGED row
    ELSE /\ row' = Committed(q)
         /\ Goes(r, [q EXCEPT !.seen = q.mine, !.mine.enabled = TRUE, !.key = None,
                              !.pc = "check", !.env = "dev"])

\* The instance is locked too; without one the legacy installation is bound, or
\* is not configured, which is a failure.
LocksInstance(r) ==
    /\ req[r].pc = "instance"
    /\ LET ks == KeysFor(req[r].mine) IN
       \/ /\ ks = {} /\ Binds(r, None)
          /\ UNCHANGED mishaps
       \/ /\ ks = {} /\ Fails(r, "instance_unavailable")
          /\ Note({"fail"})
       \/ /\ \E k \in ks : InstFree(k, r) /\ Goes(r, [req[r] EXCEPT !.pc = "connect", !.key = k])
          /\ UNCHANGED <<row, mishaps>>
    /\ UNCHANGED <<last, inst, realm, taken, vault, started>>

\* _connection: a disabled instance, or no credential in Vault, is a failure.
Connects(r) ==
    /\ req[r].pc = "connect"
    /\ LET k == req[r].key IN
       \/ inst[k].exists /\ inst[k].enabled /\ Binds(r, k) /\ UNCHANGED mishaps
       \/ ~(inst[k].exists /\ inst[k].enabled) /\ Fails(r, "instance_unavailable")
             /\ UNCHANGED mishaps
       \/ Fails(r, "instance_unavailable") /\ Note({"fail"})
    /\ UNCHANGED <<last, inst, realm, taken, vault, started>>

-----------------------------------------------------------------------------
(***************************************************************************)
(* provision(app, env), for dev then prod of an activation and for one     *)
(* environment of a reprovisioning.                                        *)
(***************************************************************************)

ReprovisionBegins(r) ==
    /\ \E i \in Ids, e \in Envs :
          /\ Present(i) /\ row[i].enabled
          /\ Begin(r, [Load("reprovision", "again", i) EXCEPT !.env = e])
    /\ UNCHANGED <<row, last, inst, realm, taken, vault>>

\* The server of an application that is on; none when it cannot be used.
ServerOf(m) ==
    IF m.bound = None THEN {Legacy}
    ELSE {inst[k].url : k \in {k \in {m.bound} : inst[k].exists /\ inst[k].enabled}}

RealmState(u, e, i) ==
    CASE realm[<<u, e>>].owner = Nobody -> "missing"
      [] realm[<<u, e>>].owner = i      -> "active"
      [] OTHER                          -> "foreign"

\* A step of provision raises: an activation records it, the others answer.
ProvisionFails(r) ==
    IF req[r].kind = "reprovision" THEN Ends(r) /\ UNCHANGED row
    ELSE Fails(r, "provisioning_failed")

\* reprovision goes on only where the realm is missing.
ReadsAgain(r) ==
    /\ req[r].pc = "again"
    /\ LET q == req[r] IN
       \/ /\ \E u \in ServerOf(q.mine) : RealmState(u, q.env, q.id) = "missing"
          /\ Step(r, "check")
       \/ Ends(r)
    /\ UNCHANGED <<row, last, inst, realm, taken, vault, started, mishaps>>

\* resolve_for_app and _get_owned_realm.
ChecksRealm(r) ==
    /\ req[r].pc = "check"
    /\ LET q == req[r] IN
       \/ /\ \E u \in ServerOf(q.mine) :
                /\ RealmState(u, q.env, q.id) # "foreign"
                /\ Goes(r, [q EXCEPT !.url = u, !.swapped = FALSE, !.pc =
                       IF RealmState(u, q.env, q.id) = "missing" THEN "create" ELSE "cli"])
          /\ UNCHANGED <<row, mishaps>>
       \/ /\ \A u \in ServerOf(q.mine) : RealmState(u, q.env, q.id) = "foreign"
          /\ ProvisionFails(r) /\ UNCHANGED mishaps
       \/ ProvisionFails(r) /\ Note({"fail"})
    /\ UNCHANGED <<last, inst, realm, taken, vault, started>>

Spot(q) == <<q.url, q.env>>

\* The realm at p is now i's: whoever looked before and has not used the name
\* for the last time is in for a surprise.
Swaps(p, i) == [r \in Requests |->
    IF /\ req[r].pc \in {"cli", "client", "vault", "verify", "delRealm"}
       /\ Spot(req[r]) = p /\ req[r].id # i
    THEN [req[r] EXCEPT !.swapped = TRUE] ELSE req[r]]

\* POST /admin/realms: a name or an id already there is no error.
Created(q) ==
    IF realm[Spot(q)].owner = Nobody /\ <<q.url, q.env, q.id>> \notin taken
    THEN [realm EXCEPT ![Spot(q)] = [NoRealm EXCEPT !.owner = q.id]]
    ELSE realm

\* What create_realm found is taken for its own.
AfterCreateTrusting(q) == "cli"

\* The realm is read back before anything is done in it.
AfterCreate(q) == "readback"

\* A lost answer is a creation followed by a failure of the next step.
CreatesRealm(r) ==
    /\ req[r].pc = "create"
    /\ \/ /\ realm' = Created(req[r])
          /\ req' = [Swaps(Spot(req[r]), req[r].id) EXCEPT ![r].pc = AfterCreate(req[r])]
          /\ UNCHANGED <<row, mishaps>>
       \/ ProvisionFails(r) /\ Note({"fail"}) /\ UNCHANGED realm
    /\ UNCHANGED <<last, inst, taken, vault, started>>

ReadsBack(r) ==
    /\ req[r].pc = "readback"
    /\ LET mine == RealmState(req[r].url, req[r].env, req[r].id) = "active" IN
       \/ mine /\ Step(r, "cli") /\ UNCHANGED <<row, mishaps>>
       \/ ~mine /\ ProvisionFails(r) /\ UNCHANGED mishaps
       \/ ProvisionFails(r) /\ Note({"fail"})
    /\ UNCHANGED <<last, inst, realm, taken, vault, started>>

\* An idempotent write in the realm of that name, whoever made it; 404 when
\* there is none.
InRealm(r, written, pc) ==
    /\ LET there == realm[Spot(req[r])].owner # Nobody IN
       \/ there /\ realm' = written /\ Step(r, pc) /\ UNCHANGED <<row, mishaps>>
       \/ ~there /\ ProvisionFails(r) /\ UNCHANGED <<realm, mishaps>>
       \/ there /\ ProvisionFails(r) /\ Note({"fail"}) /\ UNCHANGED realm
    /\ UNCHANGED <<last, inst, taken, vault, started>>

DisablesAdminCli(r) ==
    /\ req[r].pc = "cli"
    /\ InRealm(r, [realm EXCEPT ![Spot(req[r])].cli = TRUE], "client")

CreatesClient(r) ==
    /\ req[r].pc = "client"
    /\ InRealm(r, [realm EXCEPT ![Spot(req[r])].client = TRUE], "vault")

Issuer(q) == q.url

\* The client's secret is read (404 without a client, unless it is public),
\* then the variables are merged into the secret.
WritesVault(r) ==
    /\ req[r].pc = "vault"
    /\ \/ /\ vault' = [vault EXCEPT ![req[r].env] = Issuer(req[r])]
          /\ Step(r, "verify")
          /\ UNCHANGED <<row, mishaps>>
       \/ ~realm[Spot(req[r])].client /\ ProvisionFails(r) /\ UNCHANGED <<vault, mishaps>>
       \/ ProvisionFails(r) /\ Note({"fail"}) /\ UNCHANGED vault
    /\ UNCHANGED <<last, inst, realm, taken, started>>

\* The outcome of an activation whose two environments are done.
Succeeded(q) == [q EXCEPT !.mine.prov = "yes", !.mine.warn = None]

\* The realm is there and the application's, or cannot be read (UNKNOWN is
\* not a failure).  The last environment of an activation commits.
Verified(r) ==
    LET q == req[r] IN
    IF q.kind = "reprovision" THEN Ends(r) /\ UNCHANGED row
    ELSE IF q.env = "dev" THEN Goes(r, [q EXCEPT !.env = "prod", !.pc = "check"]) /\ UNCHANGED row
    ELSE /\ AppFree(q.id, r)
         /\ row' = IF Present(q.id) THEN Committed(Succeeded(q)) ELSE row
         /\ Ends(r)

VerifiesRealm(r) ==
    /\ req[r].pc = "verify"
    /\ LET mine == RealmState(req[r].url, req[r].env, req[r].id) = "active" IN
       \/ mine /\ Verified(r) /\ UNCHANGED mishaps
       \/ ~mine /\ ProvisionFails(r) /\ UNCHANGED mishaps
       \/ ~mine /\ Verified(r) /\ Note({"fail"})
    /\ UNCHANGED <<last, inst, realm, taken, vault, started>>

-----------------------------------------------------------------------------
(***************************************************************************)
(* Deletion of the application (its Vault and Keycloak steps) and its      *)
(* environment variables.                                                  *)
(***************************************************************************)

DeleteBegins(r) ==
    /\ \E i \in Ids : Present(i) /\ Begin(r, Load("delete", "delVault", i))
    /\ UNCHANGED <<row, last, inst, realm, taken, vault>>

\* Whether Keycloak is on was read when the deletion began.
AfterVault(q) == IF q.mine.enabled THEN "delCheck" ELSE "delRow"

\* delete_secret for dev, then prod: a failure keeps the rest.
DeletesSecrets(r) ==
    /\ req[r].pc = "delVault"
    /\ \/ vault' = [e \in Envs |-> None] /\ UNCHANGED mishaps
       \/ vault' \in {vault, [vault EXCEPT !["dev"] = None]} /\ Note({"kept"})
    /\ Step(r, AfterVault(req[r]))
    /\ UNCHANGED <<row, last, inst, realm, taken, started>>

Deletable(u, e, i) == RealmState(u, e, i) = "active"

\* The realm of dev only.
NextRealmNone(q) == [q EXCEPT !.pc = "delRow"]

NextRealm(q) == IF q.env = "dev" THEN [q EXCEPT !.env = "prod", !.pc = "delCheck"]
                ELSE [q EXCEPT !.pc = "delRow"]

\* deprovision: an instance that cannot be used ends it silently.
ChecksDeletable(r) ==
    /\ req[r].pc = "delCheck"
    /\ LET q == req[r] IN
       \/ /\ \E u \in ServerOf(q.mine) :
                Goes(r, IF Deletable(u, q.env, q.id)
                        THEN [q EXCEPT !.url = u, !.swapped = FALSE, !.pc = "delRealm"]
                        ELSE NextRealm(q))
          /\ UNCHANGED mishaps
       \/ ServerOf(q.mine) = {} /\ Step(r, "delRow") /\ Note({"kept"})
       \/ Goes(r, NextRealm(q)) /\ Note({"kept"})
    /\ UNCHANGED <<row, last, inst, realm, taken, vault, started>>

DeletesRealm(r) ==
    /\ req[r].pc = "delRealm"
    /\ \/ realm' = [realm EXCEPT ![Spot(req[r])] = NoRealm] /\ UNCHANGED mishaps
       \/ UNCHANGED realm /\ Note({"kept"})
    /\ Goes(r, NextRealm(req[r]))
    /\ UNCHANGED <<row, last, inst, taken, vault, started>>

DeletesRow(r) ==
    /\ req[r].pc = "delRow"
    /\ AppFree(req[r].id, r)
    /\ row' = [row EXCEPT ![req[r].id] = NoRow]
    /\ Ends(r)
    /\ UNCHANGED <<last, inst, realm, taken, vault, started, mishaps>>

\* OIDC variables are reserved for nobody.
ManagedNever(m) == FALSE

\* OIDC variables are reserved for the platform where Keycloak is on.
Managed(m) == m.enabled

\* set_vars and delete_key with an OIDC variable: the row is loaded, then the
\* path resolved.
EnvBegins(r) ==
    /\ \E i \in Ids, e \in Envs, k \in {"set", "unset"} :
          /\ Present(i) /\ ~Managed(row[i])
          /\ Begin(r, [Load(k, "env", i) EXCEPT !.env = e])
    /\ UNCHANGED <<row, last, inst, realm, taken, vault>>

EnvWrites(r) ==
    /\ req[r].pc = "env"
    /\ vault' = [vault EXCEPT ![req[r].env] = IF req[r].kind = "set" THEN Own ELSE None]
    /\ Ends(r)
    /\ UNCHANGED <<row, last, inst, realm, taken, started, mishaps>>

-----------------------------------------------------------------------------
(***************************************************************************)
(* The registry of instances (administrators).                             *)
(***************************************************************************)

Linked(k) == \E i \in Ids : Present(i) /\ row[i].bound = k

Payloads == [exists : {TRUE}, cluster : Clusters \cup {None}, url : Urls, enabled : BOOLEAN]

\* The issuer may change whoever uses the instance.
UpdatableAlways(k, pay) == TRUE

\* 409 on a new issuer for a linked instance.
Updatable(k, pay) == inst[k].exists /\ Linked(k) => pay.url = inst[k].url

\* The row is locked when it is there; the URLs of an instance carry its key,
\* so no two instances share one.
UpsertBegins(r) ==
    /\ \E k \in Instances, pay \in Payloads :
          /\ InstFree(k, r) \/ ~inst[k].exists
          /\ \A l \in Instances \ {k} : inst[l].exists => inst[l].url # pay.url
          /\ Updatable(k, pay)
          /\ Begin(r, [Idle EXCEPT !.kind = "upsert", !.key = k, !.pay = pay,
                       !.pc = IF inst[k].exists THEN "upsert" ELSE "insert"])
    /\ UNCHANGED <<row, last, inst, realm, taken, vault>>

\* The connection is tried, then the row committed; the primary key and the
\* unique cluster make it a 409 or 412.
UpsertEnds(r) ==
    /\ req[r].pc \in {"upsert", "insert"}
    /\ LET q == req[r] IN
       \/ /\ q.pc = "insert" => ~inst[q.key].exists
          /\ \A l \in Instances \ {q.key} :
                ~(inst[l].exists /\ q.pay.cluster # None /\ inst[l].cluster = q.pay.cluster)
          /\ inst' = [inst EXCEPT ![q.key] = q.pay]
       \/ UNCHANGED inst
    /\ Ends(r)
    /\ UNCHANGED <<row, last, realm, taken, vault, started, mishaps>>

DropBegins(r) ==
    /\ \E k \in Instances :
          /\ inst[k].exists /\ ~Linked(k)
          /\ Begin(r, [Idle EXCEPT !.kind = "drop", !.key = k, !.pc = "drop"])
    /\ UNCHANGED <<row, last, inst, realm, taken, vault>>

\* The foreign key of applications (ON DELETE RESTRICT).
Droppable(k) == ~Linked(k)

DropEnds(r) ==
    /\ req[r].pc = "drop"
    /\ InstFree(req[r].key, r)
    /\ inst' = IF Droppable(req[r].key) THEN [inst EXCEPT ![req[r].key] = NoInst] ELSE inst
    /\ Ends(r)
    /\ UNCHANGED <<row, last, realm, taken, vault, started, mishaps>>

-----------------------------------------------------------------------------
(***************************************************************************)
(* Everybody else.                                                         *)
(***************************************************************************)

\* In the admin console a realm is deleted, renamed (its id stays taken) or
\* made under the application's name.
OutsiderActs(p) ==
    /\ \/ /\ realm[p].owner # Nobody
          /\ realm' = [realm EXCEPT ![p] = NoRealm]
          /\ taken' \in {taken, taken \cup {<<p[1], p[2], realm[p].owner>>}}
       \/ /\ realm[p].owner = Nobody
          /\ realm' = [realm EXCEPT ![p] = [NoRealm EXCEPT !.owner = Stranger]]
          /\ UNCHANGED taken
    /\ started < MaxStarts /\ started' = started + 1
    /\ req' = Swaps(p, realm'[p].owner)
    /\ Note({"outsider"})
    /\ UNCHANGED <<row, last, inst, vault>>

\* PUT with another cluster.
Moves(i) ==
    /\ Present(i) /\ AppFree(i, None)
    /\ \E c \in Clusters \ {row[i].cluster} : row' = [row EXCEPT ![i].cluster = c]
    /\ Note({"moved"})
    /\ UNCHANGED <<last, inst, realm, taken, vault, req, started>>

Restart ==
    /\ \E r \in Requests : req[r].pc # "idle"
    /\ req' = [r \in Requests |-> Idle]
    /\ Note({"crash"})
    /\ UNCHANGED <<row, last, inst, realm, taken, vault, started>>

Begins(r) == \/ CreateBegins(r) \/ ActivateBegins(r) \/ ReprovisionBegins(r)
             \/ DeleteBegins(r) \/ EnvBegins(r) \/ UpsertBegins(r) \/ DropBegins(r)

Continues(r) ==
    \/ ReadsKeys(r) \/ LocksApp(r) \/ LocksInstance(r) \/ Connects(r)
    \/ ReadsAgain(r) \/ ChecksRealm(r) \/ CreatesRealm(r) \/ ReadsBack(r)
    \/ DisablesAdminCli(r) \/ CreatesClient(r) \/ WritesVault(r) \/ VerifiesRealm(r)
    \/ DeletesSecrets(r) \/ ChecksDeletable(r) \/ DeletesRealm(r) \/ DeletesRow(r)
    \/ EnvWrites(r) \/ UpsertEnds(r) \/ DropEnds(r)

Next ==
    \/ \E r \in Requests : Begins(r) \/ Continues(r)
    \/ \E p \in Servers \X Envs : OutsiderActs(p)
    \/ \E i \in Ids : Moves(i)
    \/ Restart

Spec == Init /\ [][Next]_vars

-----------------------------------------------------------------------------
InstanceRows == [exists : BOOLEAN, cluster : Clusters \cup {None}, url : Servers,
                 enabled : BOOLEAN]

AppRows == [present : BOOLEAN, enabled : BOOLEAN, prov : {None, "yes", "no"},
            warn : Warnings \cup {None}, bound : Instances \cup {None},
            cluster : Clusters \cup {None}]

Realms == [owner : 0 .. Stranger, cli : BOOLEAN, client : BOOLEAN]

Registrar == {"upsert", "insert", "drop"}
Binders   == {"keys", "bind", "instance", "connect"}
Writers   == {"cli", "client", "vault", "verify"}
Providers == {"again", "check", "create", "readback"} \cup Writers
Deleters  == {"delVault", "delCheck", "delRealm", "delRow"}

RequestStates ==
    [pc : {"idle", "env"} \cup Registrar \cup Binders \cup Providers \cup Deleters,
     kind : AllStarts \cup {None}, id : 0 .. MaxApps, env : Envs,
     seen : AppRows, mine : AppRows, key : Instances \cup {None},
     pay : InstanceRows, url : Servers, swapped : BOOLEAN]

\* Every variable has its type.
TypeOK ==
    /\ row \in [Ids -> AppRows]
    /\ last \in 0 .. MaxApps
    /\ inst \in [Instances -> InstanceRows]
    /\ realm \in [Servers \X Envs -> Realms]
    /\ taken \subseteq Servers \X Envs \X (1 .. Stranger)
    /\ vault \in [Envs -> Servers \cup {None, Own}]
    /\ req \in [Requests -> RequestStates]
    /\ started \in 0 .. MaxStarts
    /\ mishaps \subseteq Kinds

Without(K) == mishaps \cap K = {}
Busy(i)    == \E r \in Requests : req[r].id = i

\* A realm that is not the application's is never changed or deleted by a
\* request of the application, even when create_realm met it, unless somebody
\* put it in the place of the application's own after the request had looked
\* (by hand, or an application of the same slug created meanwhile).
ForeignRealmUntouched ==
    [][\A r \in Requests, p \in Servers \X Envs :
          /\ req[r].pc # "idle" /\ req'[r] # req[r] /\ p = Spot(req[r])
          /\ realm'[p] # realm[p] /\ realm[p].owner \notin {Nobody, req[r].id}
          => req[r].swapped \/ req'[r].swapped]_vars

\* An application stays bound to a row that exists, and the issuer in its
\* variables is that row's: no registration, deletion or failure changes it.
\* Only requests of an earlier application of the slug that are still under
\* way (overlap) write another one.
IssuerCurrent ==
    \A i \in Ids :
        Present(i) /\ row[i].bound # None =>
            /\ inst[row[i].bound].exists
            /\ Without({"overlap"}) =>
                  \A e \in Envs : vault[e] \in {None, Own, inst[row[i].bound].url}

\* The outcome and its reason come from the same attempt, unless two overlap
\* and each writes the columns it changed.
OutcomeExplained ==
    \A i \in Ids :
        Without({"overlap"}) => (row[i].warn = None <=> row[i].prov # "no")

(***************************************************************************)
(* What makes the properties inductive (KeycloakActivationProofs).         *)
(***************************************************************************)

\* What a request holds at each step: up to its commit the session has changed
\* nothing but turned Keycloak on.
Shaped(q) ==
    /\ q.pc \in {"idle"} \cup Registrar <=> q.id = 0
    /\ q.pc \in Registrar => q.key \in Instances
    /\ q.pc \in {"upsert", "insert"} => q.pay.exists
    /\ q.pc \in Binders => q.kind \in {"create", "activate"} /\ q.mine = q.seen
    /\ q.pc = "keys" => ~q.seen.enabled
    /\ q.pc = "connect" => /\ q.key \in Instances
                           /\ q.mine.bound = q.key \/ (q.mine.bound = None /\ ~q.mine.enabled)
    /\ q.pc \in Providers => /\ q.kind \in {"create", "activate", "reprovision"}
                             /\ q.mine.enabled /\ q.mine.bound = q.seen.bound
                             /\ q.mine.prov = q.seen.prov /\ q.mine.warn = q.seen.warn
                             /\ q.kind = "reprovision" => q.seen.enabled
    /\ q.pc = "again" => q.kind = "reprovision"
    /\ q.pc \in Deleters => q.kind = "delete" /\ q.mine = q.seen
    /\ q.pc = "delVault" => q.env = "dev"
    /\ q.pc = "env" => q.kind \in {"set", "unset"} /\ q.mine = q.seen /\ ~q.seen.enabled

\* Slugs are unique: there is at most one application, the last created.
OnlyLast == /\ \A i \in Ids : Present(i) => i = last
            /\ \A r \in Requests : Shaped(req[r]) /\ req[r].id <= last

\* Applications are bound to rows that exist.  The row lock of an instance
\* keeps a binding from coming between the check of a new issuer and its
\* commit.
BoundExists == \A i \in Ids : Present(i) /\ row[i].bound # None => inst[row[i].bound].exists
InstLocked ==
    \A r, s \in Requests : r # s /\ req[r].key = req[s].key =>
        ~(req[r].pc \in {"connect", "upsert"} /\ req[s].pc \in {"connect", "upsert"})
UpsertsSound ==
    \A r \in Requests : req[r].pc = "upsert" =>
        /\ inst[req[r].key].exists
        /\ Linked(req[r].key) => req[r].pay.url = inst[req[r].key].url

\* The realm a request is about to write in was its own when it looked.
LookedAt ==
    \A r \in Requests : req[r].pc \in Writers \cup {"delRealm"} =>
        req[r].swapped \/ realm[Spot(req[r])].owner \in {Nobody, req[r].id}

\* Requests that do not overlap: the only one under way is about the only
\* application, and its session's copy of the row is current.
Url(m) == IF m.bound = None THEN Legacy ELSE inst[m.bound].url
Same(m, n) == /\ m.enabled = n.enabled /\ m.bound = n.bound
              /\ m.prov = n.prov /\ m.warn = n.warn
Current(q) ==
    /\ Present(q.id) /\ Same(q.seen, row[q.id])
    /\ q.pc \in Writers \cup {"create", "readback", "delRealm"} => q.url = Url(q.mine)
    /\ q.pc = "keys" /\ q.env = "prod" => vault["dev"] = None
    /\ q.pc \in Binders \ {"keys"} /\ ~q.mine.enabled => \A e \in Envs : vault[e] = None
SoloRequest ==
    Without({"overlap"}) => \A r \in Requests : req[r].id # 0 =>
        Current(req[r]) /\ \A s \in Requests \ {r} : req[s].id = 0

\* An environment of application i is provisioned; a request gets there step
\* by step, and only a deletion undoes it.
Provisioned(i, e) ==
    /\ vault[e] = Url(row[i])
    /\ realm[<<Url(row[i]), e>>] = [owner |-> i, cli |-> TRUE, client |-> TRUE]
Progress(q) ==
    q.pc \in Providers =>
        /\ q.env = "prod" /\ q.kind # "reprovision" => Provisioned(q.id, "dev")
        /\ q.pc \in Writers => realm[Spot(q)].owner = q.id
        /\ q.pc \in Writers \ {"cli"} => realm[Spot(q)].cli
        /\ q.pc \in {"vault", "verify"} => realm[Spot(q)].client
        /\ q.pc = "verify" => vault[q.env] = q.url
ProvisionedKept ==
    Without({"outsider", "overlap", "crash"}) =>
        /\ \A i \in Ids :
              /\ Present(i) /\ row[i].enabled /\ row[i].prov = "yes"
              /\ \A r \in Requests : req[r].id = i => req[r].pc \notin Deleters
              => \A e \in Envs : Provisioned(i, e)
        /\ \A r \in Requests : Progress(req[r])

\* Every realm of an application, and every issuer in Vault, is known to a
\* row that is on, or to the request that is about to turn it on; a deletion
\* has removed what lies behind it.
Known(i) == Present(i) /\ \/ row[i].enabled
                          \/ \E r \in Requests : req[r].id = i /\ req[r].mine.enabled
Clears(q) ==
    /\ q.pc \in Deleters \ {"delVault"} => \A e \in Envs : vault[e] = None
    /\ \A u \in Servers, e \in Envs : q.id # 0 /\ realm[<<u, e>>].owner = q.id =>
          /\ q.pc # "delRow"
          /\ q.pc \in {"delCheck", "delRealm"} /\ q.env = "prod" => e = "prod"
RealmsKnown ==
    Without({"kept", "overlap", "crash"}) =>
        /\ \A u \in Servers, e \in Envs : realm[<<u, e>>].owner \in Ids =>
              Known(realm[<<u, e>>].owner) /\ u = Url(row[realm[<<u, e>>].owner])
        /\ \A e \in Envs : vault[e] \in Servers => \E i \in Ids : Known(i)
        /\ \A r \in Requests : Clears(req[r])

\* The rows are well-formed, bound to a live instance with an issuer that
\* does not change, and their outcome has its reason.
KeycloakInv == /\ TypeOK /\ IssuerCurrent /\ OutcomeExplained
               /\ OnlyLast /\ BoundExists /\ InstLocked /\ UpsertsSound /\ LookedAt
               /\ SoloRequest /\ ProvisionedKept /\ RealmsKnown

\* An application whose activation succeeded has its realms, with its client
\* and no password grant, and its variables in both environments, whatever
\* failed before, unless somebody works on the realms by hand, two requests
\* overlap or a deletion did not come to its end.
ProvisionedUsable ==
    \A i \in Ids, e \in Envs :
        Present(i) /\ row[i].enabled /\ row[i].prov = "yes" /\ ~Busy(i)
            /\ Without({"outsider", "overlap", "crash"})
        => \E u \in IF row[i].bound = None THEN {Legacy} ELSE {inst[row[i].bound].url} :
              /\ vault[e] = u
              /\ realm[<<u, e>>] = [owner |-> i, cli |-> TRUE, client |-> TRUE]

\* A deleted application leaves no realm, not even of an activation that
\* failed half-way, unless the deletion failed to reach Keycloak (kept), it
\* overlapped an activation, or the process died.
NoOrphanRealm ==
    \A p \in Servers \X Envs :
        LET i == realm[p].owner IN
        i \in Ids /\ ~Busy(i) /\ Without({"kept", "overlap", "crash"}) => Present(i)

\* An activation is refused for OIDC variables only when a developer set
\* them: what a failed attempt wrote does not stand in the way of its retry.
\* A process that dies between Vault and the commit, an activation that
\* overlaps and a deletion that kept the secret do.
RefusedForOwnKeys ==
    [][\A r \in Requests :
          req[r].pc = "keys" /\ req'[r].pc = "idle" /\ vault[req[r].env] \in Servers
          => mishaps' \cap {"crash", "overlap", "kept"} # {}]_vars
=============================================================================
