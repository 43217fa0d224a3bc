# Verification project for the Cloud Native Platform backend

The Cloud Native Platform (CNP) is a FastAPI backend with a React console and a
Typer CLI. It scaffolds applications in GitLab, writes the gitops repository that
ArgoCD deploys from, keeps cluster connections and secrets in Vault, scales dev
environments to zero at night, watches the health of clusters, activates Keycloak
realms, mirrors GitLab memberships and runs an AI assistant. This directory holds
TLA+ modules translated from that code, the TLC configurations that check them on
small instances, and TLAPS proofs. Paths below are relative to `src/backend` unless
they start with `docs/`, `shared/` or `infra/`.

## Execution model

The backend is one process (`entrypoint.sh` starts a single uvicorn): an asyncio
event loop, a pool of threads for blocking calls (`anyio.to_thread`), and PostgreSQL
at READ COMMITTED through SQLAlchemy sessions that neither autoflush nor expire on
commit (`db/session.py`). Three consequences shape every module:

* between two awaits a coroutine runs alone, so **an action is one stretch of code
  between two awaits**, together with the remote call it waited for;
* a row loaded before an await is a **stale copy** after it, and a session writes only
  the columns it changed;
* GitLab, Vault, Kubernetes and the database share **no transaction**: every request
  that touches two of them can stop in between, because a call failed, its answer was
  lost, it timed out, or the process restarted.

`abandon_on_cancel=True` lets a request give up on a thread that still runs: its
write may land later (`ClusterRegistry`).

`infra/keycloak/lib` is a program of its own: an operator's command, run by hand from
any machine, that talks to Vault, ArgoCD, Keycloak, the backend's API and, over SSH, the
gateway host (`KeycloakDeploy`).

## Inventory

| Part | State | Operations | Interacts with | Correct when |
|---|---|---|---|---|
| Scale worker `services/scale_worker.py` | AppScaleState rows, clock | one reconciliation per cycle | ScaleService, gitops files | dev is stopped exactly in the window; manual stops are left alone |
| ScaleService `services/scale_service.py` | AppScaleState rows | manual stop, manual resume, apply_changes | GitLab, ArgoCD | the file and the row agree |
| Gitops writers `gitlab/client.py`, expose toggle, rollback | files on the main branch | replica batch, ingress upsert, tag rollback, ExternalSecret, directory deletion | ArgoCD | a writer changes its own key only |
| Health worker `k8s/health_worker.py` | failure counts and degraded sets in memory; cluster and application status | probe, cascade, targeted recovery | Vault, Kubernetes, alerting | no false outage, an outage can be undone |
| Status writers `api/routes/apps.py`, `services/app_service.py` | application status, target cluster | runtime status, CI status, PATCH, Kubernetes sync | health worker | they do not undo each other |
| Cluster registry `services/cluster_service.py`, `k8s/discovery.py` | cluster row, two Vault secrets | create, update, delete, test, discovery | Vault, applications | a live cluster has its kubeconfig; nothing half-made or left behind silently |
| Application lifecycle `services/app_service.py`, `services/scaffolding_service.py` | row, GitLab project, gitops directories, Vault secrets | scaffold, onboard, import, delete | GitLab, Vault, CI | the four stores agree; deletion leaves nothing; foreign repositories are kept |
| Security scans `services/security_scan_service.py` | scan, findings, event, summary | create, callback, summarize | CI, assistant, alerting | one notification of a critical result, complete summaries |
| Keycloak activation `services/keycloak_service.py` | auth columns, realms, OIDC variables | activate, provision, reprovision, deprovision | Keycloak, Vault | retries complete; foreign realms untouched |
| Keycloak instances `services/keycloak_instance_service.py` | instance rows | bind, upsert, delete | activation | the issuer of a linked instance does not change |
| Console access `services/keycloak_service.py`, `services/tier_service.py` | accounts in realms | grant, revoke | membership | no account outlives its tier |
| GitLab sync `services/gitlab_sync_service.py` | groups, members, invitations | full sync, user sync, add, invite | GitLab, console access | the mirror converges |
| Environment variables `services/env_var_service.py`, `vault/client.py` | one secret per application and environment | set, delete, list | Keycloak, ExternalSecrets | managed keys stay with Keycloak |
| AI assistant `services/assistant_*.py`, `ai_limits_service.py`, `ai_settings_service.py` | usage records, settings | chat, limits, tools, PATCH of settings | providers, memberships | limits hold, the tool loop ends, tools tell only what the user may see |
| Keycloak deployment `infra/keycloak` | secrets in Vault, the provisioner client, gateway routes and lock, registry row | deploy, recovery | Vault, ArgoCD, Keycloak, NGINX, backend | concurrent runs agree, an active instance stays reachable |
| Notifications `alerting/`, `services/notification_service.py` | events, inbox, preferences | emit, read, acknowledge, clear | everything | an inbox entry moves forward only |
| Auth, users, OAuth, credentials, audit, monitoring, CI templates, CLI, console, infra | see `PROJECT.json` | | | |

What is hard to test here is listed line by line under `hazards` in `PROJECT.json`.
The recurring ones: a decision taken from rows loaded before an await; whole files
read, patched and committed by several writers; steps over several stores of which one
fails; requests for the same name that overlap; memory that a restart erases; timeouts
that do not stop what they give up on.

## Modules

| Module | What it is | Checked by |
|---|---|---|
| `OffHours` | the schedule's comparisons as pure operators | `off_hours` |
| `OffHoursClock` | a clock over a week and every configuration | `off_hours` |
| `ScaleControl` | worker, Stop/Resume, expose toggle and rollback on gitops files and rows; uses `OffHours` | `scale_*` |
| `ScaleControlProofs` | its invariants; the schedule is a cyclic window, for every hour and configuration | TLAPS |
| `ClusterHealth` | health worker and the other status writers | `cluster_*` |
| `ClusterHealthProofs` | its invariants and the grace period | TLAPS |
| `ClusterRegistry` | cluster rows, Vault secrets, discovery at restart | `registry` |
| `ClusterRegistryProofs` | its invariants, leftovers and orphans | TLAPS |
| `SecurityScan` | scans, callbacks, notifications, summaries | `security_scan` |
| `AppLifecycle` | scaffold, onboard, import, delete over four stores | `app_*` |
| `AppLifecycleProofs` | its invariants, nothing left behind, repositories kept | TLAPS |
| `KeycloakActivation` | activation, realms, OIDC variables and the instance registry | `keycloak` |
| `KeycloakActivationProofs` | its invariants, usable activations, no orphan realm, foreign realms untouched, retries | TLAPS |
| `ConsoleAccess` | memberships mirrored from GitLab, tiers, console accounts | `console_access` |
| `ConsoleAccounts` | the abstract promise about accounts that `ConsoleAccess` implements | `console_access` |
| `ConsoleAccessProofs` | its invariants and the refinement of `ConsoleAccounts` | TLAPS |
| `AssistantTools` | the tools of the platform agent as the facts they tell (no state) | `assistant` |
| `Assistant` | questions, limits, settings, the tool loop; extends `AssistantTools` | `assistant` |
| `AssistantProofs` | limits, what tools tell; for `SecurityScan` exactly one notification and complete summaries | TLAPS |
| `KeycloakDeploy` | concurrent runs of the operator's deployment command | `keycloak_deploy` |
| `KeycloakDeployProofs` | its invariants, active instances stay active | TLAPS |
| `MC*` | constants and symmetry sets for TLC | |

### ScaleControl

`row` and `exposed` are committed database state, `file` the values files on main.
An operation of process `p` (a request or the worker) has a `plan` (what it does to
each slot, a slot being one environment of one application), files still `todo`, file
contents read (`snap`) and rows held by its session (`seen`). `PushRead` and
`PushCommit` are the two halves of `push_replica_overrides_batch` and
`upsert_gitops_ingress`: the commit writes whole files, so a stale `snap` reverts the
key of somebody else. `Load`, `SaveScale` and `SaveOther` are the database part;
`Flushed` writes changed columns only, `InsertConflict` is the unique constraint two
first rows meet. `PushFails` covers an error before or after the commit landed.
`LoopFree` is the rollback route, which calls GitLab synchronously and so blocks the
event loop between its read and its push.

Ghost variables name the drift the code accepts: `overlap` (slots on which two
operations were in flight together), `driftR`/`driftI` (slots an interrupted or
overlapped operation left inconsistent until the next complete one), `held` (slots
whose last completed manual operation was a Stop). The invariants say that **there is
no other drift**.

### ClusterHealth

`failures` and `degradedApps` are the worker's dictionaries; `worker` holds what it
loaded (`old`) and decided (`new`, `ids`) between `ProbeStarts`, `ProbeReturns` and
`WorkerSaves`/`WorkerSaveFails`. A cluster's `link` is up, down (the connection is refused
or runs into the kernel's timeout), silent (the connection is taken and no answer comes) or
its kubeconfig cannot be read. `health_worker.py:27` probes without a timeout, so on a silent
cluster the probe hangs (`ProbeHangs`) and with it the only worker, for every cluster, until
the connection breaks or answers (`HungProbeEnds`) or the process restarts. `RequestStarts`/`RequestSaves` are the load and the
save of the status endpoint, the CI status, PATCH, the Kubernetes sync and the manual
test. Ghosts: `streak` (failed probes across restarts), `cause` (why an application is
degraded), `stranded` (an outage the worker lost track of, in one of four named ways:
restart, failed commit, reassignment, a manual test begun before the outage).

### ClusterRegistry

A request carries its Vault call (`kube`, then `argo`) and its database commit (`row`,
or `undo` for the cleanup of a failed registration). `VaultApplies` and `VaultAnswers`
are separate so that an answer can be lost (`VaultFails`) or come too late
(`VaultTimesOut`, then `LateCallEnds`). `Restart` drops the requests and runs
`discover_clusters`. Ghosts: `reported` (leftovers the code logged), `astray` (paths
written without their request knowing, or under a row that is gone), `fresh`
(applications assigned while a request was under way).

### SecurityScan

`CreateFlushes` triggers the pipeline inside the open transaction, so a callback may
come before `CreateCommits`. A callback loads the row (`CallbackLoads`: 404, 409 or
422), flushes and thereby locks it (`CallbackFlushes`), looks for an earlier event
(`CallbackLooksUp`) and commits. `SummaryLoads`/`SummaryEnds` surround the question to
the language model.

### AppLifecycle

The steps of `scaffold_app`, `onboard_app`, `external_import_app` and `delete_app`,
one action each, in the order of the code. `secretFile` holds the key each
ExternalSecret reads, `vault` the secrets really there; a project knows whether the
template was pushed and which application its pipeline reports to. `mishaps` records
which kinds of accident have happened; each property names the kinds that may break it
(every one was tried alone and is needed) and holds under all the others:

| kind | what happened |
|---|---|
| `fail` | a best-effort step failed |
| `reuse` | a scaffold took over the project already at its path |
| `pulled` | a rollback or a deletion removed a project somebody else was using |
| `late` | a write or deletion for an application already deleted or being deleted |
| `stuck` | the last commit of a deletion failed |
| `moved`, `renamed` | the application changed cluster, its group changed path |
| `crash` | the process restarted |

`Mixes` bounds which kinds may come together in one behaviour of the run; the proofs
hold for every value of it.

### KeycloakActivation

All applications of the module have one slug, because realms and secrets are named after
it and only the id inside a realm tells who made it. `row` has the four columns activation
writes, `inst` the registry, `realm` what each server holds under the name, `taken` realm
ids that live on under another name, `vault` the OIDC variables. A request carries the row
as its session loaded it (`seen`) and as it would write it (`mine`); `Committed` writes the
columns that differ. `LocksApp`, `LocksInstance` and `UpsertBegins` take the row locks of
`bind_for_activation` and `upsert`. `ChecksRealm` .. `VerifiesRealm` are the calls of
`provision`, once for dev and once for prod; `ChecksDeletable`/`DeletesRealm` those of
`deprovision`; `EnvBegins`/`EnvWrites` the developer's variables; `OutsiderActs` somebody in
the Keycloak console. The kinds of mishap (`fail`, `kept`, `outsider`, `overlap`, `crash`,
`moved`) play the same part as in `AppLifecycle`.

### ConsoleAccess and ConsoleAccounts

`gitlab` is the truth, `row` its mirror in `gitlab_group_members` and `app_members`,
`account` how far the console account of a user in a realm has come (made, with roles, with
a password). A synchronisation fetches lists (`Fetches`, `FetchFails`), reads rows
(`Reads`), commits what it changed (`Commits`) and then revokes the pairs it holds in memory
only (`ReadsTier`, `DeletesAccount`). `MemberBegins` is add and invite, `PatchBegins` the
PATCH of a user with its background task, `GrantBegins`/`Grants` the console route; a grant
that holds the id of an account deleted meanwhile gets a 404 at its next step (`gone`).
`ConsoleAccounts` is the abstract specification: accounts advance only on behalf of a grant
opened for somebody who might have one at that moment. `AccountsAsPromised` states that
`ConsoleAccess` implements it (`Accounts == INSTANCE ConsoleAccounts WITH ...`: `may` is
`MayEnter`, `open` the grants under way).

### AssistantTools and Assistant

A tool's answer is the set of facts `<<kind, subject>>` it is made of. The session caches
memberships when the prompt is built and the visible applications when a tool first needs
them, so a question may go on under rights its user has lost. `Ask` is a route up to its
limits, `Completes`, `Unavailable`, `Rejects` and `GivesUp` are the outcomes of one HTTP
request to the provider, `Calls` one tool call, `Records` the usage row, which carries the
time at which its transaction began. The ghost `since` collects the memberships and
settings a question has lived through.

### KeycloakDeploy

Each operator's run goes through the steps of `deploy()`: `Starts`, `EnsureBootstrap`,
`FindToken`/`MintToken`/`StoreToken`/`RevokeToken`, `ApplyToken`, `Register`, `Install`,
`EnsureProvisioner`, `StoreProvisioner`, the gateway transaction (`Stage`, `Verify`,
`Enable`, `Commit`, `Undo`) and its failures. `ensure_secret` is one atomic action, because
its check-and-set write and the second read make it one; a script on the gateway is one
action, under the lock directory. `Detached*` are scripts whose SSH connection dropped,
`Recover` the manual recovery of `infra/keycloak/README.md`, `NewDatabase` a Keycloak
database that starts anew. An operator who gives up on the activation (`EnableUnanswered`, or
`Killed` meanwhile) leaves the request `pending` with the backend, which writes the row
(`LateEnables`) before or after the rollback, or refuses it (`LateRefused`). Ghosts: `lost` (runs cut off), `undone` (a key
activated without a route: rolled back after the activation, or activated after the
rollback), `fresh` (a new database).

## Runs

| Run | Shows |
|---|---|
| `off_hours` | every hour of a week under all 24 x 24 x 2 configurations: the comparisons are the cyclic window |
| `scale_writers` | one application, the worker and one request of any kind with failures and restarts: rows and files agree outside the named drift, a completed manual Stop stays, the ingress follows the expose column |
| `scale_liveness` | the nightly stop and the morning resume are carried out in the end |
| `cluster_health` | one cluster in four link states, one application, the worker and one request of any kind, two restarts: the grace period is respected, an outage stays reversible; lasting reachability and lasting outages are recorded in the end and tracked applications restored, unless a probe hangs for ever |
| `registry` | two clusters, two names, two concurrent requests out of three, late writes and a restart: a live cluster has its secret, pending rows do not stay, leftovers and orphans have a known origin |
| `security_scan` | two scans, three callbacks, a summary: one critical event, complete summaries unless callbacks overlapped |
| `app_lifecycle` | one name, two requests at a time out of four, every kind of mishap |
| `app_doc_rollback` | **violated**: the rollback of a scaffold with the name of a registered application deletes that application's project |
| `keycloak` | two applications of one slug, two requests at a time out of three, failures, restarts, an outsider: a successful activation is usable, foreign realms are not touched, deletion leaves no realm, a retry is not refused for the platform's own keys, the issuer of a bound instance does not change |
| `console_access` | one user of each profile, the worker and one request: no account without a tier outside the named races, no revocation of somebody who kept the tier, the abstract promise is implemented, the mirror and the accounts converge |
| `assistant` | two concurrent questions out of three, changing memberships and settings: limits hold up to the concurrency, tools tell only what was permitted at some moment of the question, every question ends unless a tool without a timeout hangs for ever |
| `keycloak_deploy` | two operators, three runs, shared and distinct instances, two failures, activations written late: secrets agree, no stray token, serial gateway transactions, active instances stay active and reachable |

Smaller disagreements met while modelling, recorded here without a run of their own:
the worker's docstring says a tick brings back what fell to 0 by mistake, but it
compares the schedule with the row only, never with the file; the guard of
`delete_cluster` is a count taken before the DELETE, so an application assigned in
between is set to NULL by the foreign key; a Vault write given up after 15 s may land
after the 504; two overlapping callbacks of a scan are both stored, the second on a
terminal scan; a renamed GitLab group or a move to another cluster leaves the
ExternalSecret keys and directories behind. A manual Stop that overlaps an evening tick is
relabelled as scheduled and woken in the morning, against the worker's docstring; an
application that breaks while its cluster's outage is tracked is set DEPLOYED by the
recovery, against ADR-0015; a cluster whose kubeconfig cannot be read is counted as a failed
probe and marked OFFLINE, against ADR-0015:58-60 and
`docs/guides/cluster-health-monitoring.md:48-50`, which leave it UNKNOWN; and the probe has no timeout,
although ADR-0015:42 says "`list_namespace` avec timeout". `OutageEndsOffline` says nothing of
an unreadable kubeconfig.

* Keycloak: when the process dies in an activation that had already written the OIDC
  variables, the next attempt is refused for "foreign" keys; two overlapping activations
  can leave an outcome with the reason of the other.
* Memberships: invitations that cannot be read are taken for none, although
  `services/gitlab_sync_service.py:285` says a row is never set to left while still in the
  list; an administrator whose membership drops loses the console account though the route
  would let them in; a group or project deleted in GitLab leaves active rows.
* Assistant: a question that fails records no usage, although completions of earlier
  rounds were paid; models of Mistral have no price and never count for the budget; a PATCH
  of the provider keeps the key of the former one; the summary route does not ask
  `app_allowed`, which `services/ai_settings_service.py:52` calls deny-by-default. Metrics and
  costs are matched by names that resemble the application's (`Resembling` in
  `AssistantTools`), so they may be those of an application the user cannot see, against
  `services/assistant_tools.py:3-6`; `ToldWasPermitted` holds for these two with that
  allowance only.
* Deployment: when the answer to the activation is lost or comes after the 15 seconds of
  `http_api.py:53` (the backend may take about 35), or the commit on the gateway fails, the
  rollback or the documented recovery leaves an active instance without its route until the
  next run, whether the row is written before the rollback or after it; a stage script can outlive its SSH connection and take the lock afterwards.

### Bounds and why they suffice

* Two processes on one slot show every pairwise interleaving of the scale operations;
  the proofs cover any number of requests and applications. `MCInstants` has one
  instant on each side of the window, the schedule itself is checked apart in
  `off_hours`.
* `Threshold = 2` is the least that tells a streak from a single failure. One cluster and
  no cluster are enough for a reassignment to cross an outage; `MaxRestarts = 2` lets a streak
  be cut twice. The proofs of the safety properties cover any number of clusters and restarts;
  what a second cluster adds to liveness is a worker held up elsewhere: `Clusters = {c1, c2}`
  with no request (92 thousand states) passes too. 82 thousand states.
* `ClusterRegistry`: two ids and two names give renames and name conflicts;
  `MaxStarts = 3` with two requests at a time reaches create, then update against
  delete, and create, assign against delete, with the abandoned writes of each. 1.3
  million states.
* `AppLifecycle`: one slug, since every conflict is about one name; two rows ever
  inserted, four requests started (create and delete, twice); two paths for a rename.
  3.2 million states. A project may be in GitLab from the beginning.
* `KeycloakActivation`: two applications of the slug, one after the other, three requests
  of which two overlap, one registered instance and the legacy one: activation against
  activation, deletion, upsert, drop and environment variables.
* `ConsoleAccess`: one user, because rows, accounts and grants of different users are
  independent (the pairs of a revocation are handled one by one); four first profiles, the
  levels on both sides of the console's, two requests, one upset in GitLab or restart,
  the worker without bound. 690 thousand states.
* `Assistant`: `MAX_TOOL_ROUNDS`, retries and calls per answer are 1, the limits 1 a minute,
  2 a day and a budget of 2, so that two concurrent questions meet each of them; a day has
  two minutes, so that it ends. 270 thousand states.
* `KeycloakDeploy`: four target files give two operators on one instance, on two instances that
  share the gateway, with a conflicting issuer, and with routes that do not work; three runs
  let a run follow two that were cut off, or meet the late activation of an earlier one. 3
  million states. Two instances that claim one cluster are refused at the start or at the
  registration (`ClusterFree`), which this instance does not reach: with a sound second target
  and a third instance on the first cluster there are 6.6 million states, and they pass too.
* `CHECK_DEADLOCK FALSE` stands where the bounds let everything end: no request left to
  start in `registry`, `app_lifecycle`, `security_scan`, `keycloak`, `console_access`,
  `assistant` and `keycloak_deploy`.

### Fairness

`scale_liveness`: the worker loop catches every exception and sleeps a fixed interval,
so it begins and takes its steps again and again (`SF` on its actions: an attempt may
fail or be cut off by a restart, not every attempt); requests in flight run to their
end (`WF`). That rests on an assumption about the environment: python-gitlab is built without
a timeout (`gitlab/client.py:24`), so GitLab must answer or break the connection.

`cluster_health`: the worker goes round all clusters for ever (`SF` per cluster, because it is
busy in between), a probe that meets a refused or dead connection ends, and one that meets a
silent cluster goes over to hanging (`WF`), and commits do not all fail (`SF`). Reading the
kubeconfig ends by the timeout of the Vault client. **Nothing** makes a hung probe end, and the
three liveness properties therefore allow that the worker hangs for ever (`Stuck`).

`console_access`: the worker's loop catches every exception and sleeps 15 minutes (`WF` of its
steps); changes in GitLab, unreadable lists and restarts are finitely many, since a mirror
cannot converge to what never rests.

`assistant`: the language model, Prometheus, Loki, ArgoCD and Vault are asked by clients with a
timeout, and retries are bounded (`WF` per request). `get_pod_status` and `get_ci_failure`
await `asyncio.to_thread` on the Kubernetes and the python-gitlab client, which have none
(`Untimed`): such a call may hang (`Hangs`) and nothing makes it return (`Returns` has no
fairness), so `EveryQuestionEnds` allows a question that hangs for ever in one of the two.

Nothing is assumed of users, clocks or links.

## Proofs

Eight proof modules, each of which extends the component it is about (`ScaleControlProofs`
and `AssistantProofs` two of them) and ends in temporal theorems. Every invariant and
every action property of the runs is stated by one of them.
The constants are only assumed to be what the component's `ASSUME` says (TLC evaluates
it on the runs): any number of applications, clusters, users, requests and operators, any
schedule, threshold or number of restarts. The invariant that is proved inductive is
built from named parts of the component's module, each of which is an invariant of the
run, so TLC tried it before it was proved. A proof has one lemma per action, and under it one
step per part the action can disturb; where many actions leave a part alone, a frame lemma
says so once.

* `ScaleControlProofs`: `ScaleTypeCorrect`, `ScaleInvariant`, and from it
  `ReplicasAlwaysAgree`, `ManualStopsHold`, `RowsNeverTorn` and `IngressAlwaysAgrees`. None
  of these is inductive: whether the save of an operation is right depends on what it read
  several awaits earlier. `ScaleInv` adds that two operations on a slot know of each other
  (`OverlapsKnown`), that alone on a slot the file read and the rows loaded are still
  current (`SnapshotsFresh`, `RowsFresh`, `WorkerPlanCurrent`, `ExposeFresh`), that a push
  that is over is in the file (`PushesLanded`, `TogglesLanded`), and that file and row agree
  before the push (`SettledAgree`, `SettledIngress`).
* `ClusterHealthProofs`: `HealthInvariant`, `OutageAlwaysRemembered` and
  `GraceAlwaysRespected` (an action property). `HealthInv` adds that the verdict is
  justified by the streak and that the status loaded is still there or was set ONLINE by a
  manual test.
* `ClusterRegistryProofs`: `RegistryInvariant`, `LiveClustersKeepSecrets`,
  `LeftoversAlwaysExplained` and `OrphansOnlyInRaces` (an action property). `RegistryInv`
  adds that keys are never used again (`KeysUsed`), what a request at each step has already
  stored or removed (`RequestShape`, `Stored`, `RemovesGone`), that every secret without a
  row is on its way out or accounted for (`LeftoversTracked`), and that an assignment made
  during a request is known to it (`FreshKnown`).
* `AppLifecycleProofs`: `AppInvariant`, `ScaffoldedAlwaysSound`, `NothingIsLeft` and
  `RepositoriesAlwaysKept` (an action property). That a deletion leaves nothing behind is
  about four stores, so each file, directory, secret and template needs the application or
  the scaffold under way that accounts for it (`LeftoversKept`), under the key it was
  written with (`KeysWritten`). That depends on slugs and repositories being unique and ids
  never reused (`RowsSound`), on a request agreeing with its row (`RequestsSound`), and on
  projects and pipelines belonging to one application (`PipelinesSound`, `Filled`,
  `Injected`). The steps are sorted into those that change no store (`QuietStep`), one
  project (`ProjectStep`) or files of one application (`FileStep`).
* `ConsoleAccessProofs`: `ConsoleInvariant`, `MaintainersKeepAccounts` (an action property)
  and `AccountsImplemented`, the refinement of `ConsoleAccounts`: initial states map to
  initial states, every step to an abstract step or a stutter. `ConsoleInv` adds what a
  process at each step holds (`ProcShape`), that a grant advances in order with its account
  (`GrantsInOrder`) and, without a race, for somebody who still may enter
  (`GrantsJustified`), that a session knows every user it takes the tier from
  (`LossesKnown`), that every account of somebody who may not enter has its revocation
  (`RevocationDue`), and that whoever is about to lose an account keeps no tier
  (`DeletionsDue`).
* `KeycloakDeployProofs`: `DeployInvariant`, `ActiveAlwaysReachable` and
  `InstancesStayActive` (an action property). `DeployInv` adds that a run's copies of the
  row, the route and the token are still right (`RowKnown`, `RouteKnown`, `TokenHeld`), that
  what is served is what is on disk outside a transaction (`ServedFromDisk`,
  `RoutesSettled`), that a transaction under way can be undone without taking the route of
  an active instance (`Restorable`), that such an instance has its credential
  (`CredentialKept`), and that a request left behind by its operator is for a registered
  instance with the issuer of its target (`PendingKnown`).
* `KeycloakActivationProofs`: `KeycloakInvariant`, `ProvisionedAlwaysUsable`,
  `NoRealmOrphaned` and two action properties, `ForeignRealmsUntouched` and
  `RetriesNotRefused`. What an activation leaves depends on a row, two realms and two secrets
  written several awaits apart, so `KeycloakInv` adds what a request holds at each step
  (`Shaped`) and that its application is the last created (`OnlyLast`); that the row lock of
  an instance keeps a binding from coming between the check of a new issuer and its commit
  (`BoundExists`, `InstLocked`, `UpsertsSound`); that the realm a request is about to write in
  was its own when it looked (`LookedAt`); that without overlap the copy of the row a request
  works with is current (`SoloRequest`, `Current`); that an environment gets provisioned step
  by step and only a deletion undoes it (`Progress`, `ProvisionedKept`); and that each realm
  and each issuer in Vault is known to a row or to the request about to turn it on, until a
  deletion has removed what lies behind it (`RealmsKnown`, `Clears`).
* `AssistantProofs`, the assistant: `AssistantInvariant`, `ModelToldWhatWasPermitted` and
  `LimitsAlwaysHold`. `AssistantInv` counts one completion per round (`RoundCounted`), says
  that whatever the session holds was so at some moment since the question was asked, not all
  of it at the same moment (`ReadFrom`, `SessionFollowed`), and that a question is recorded
  once (`UsageCounted`). What tools tell follows tool by tool from `ReadFrom`. The limits are
  inductive given `AssistantInv`, because they count recorded questions together with those
  under way, and the budget with what these may still cost: a step keeps a question where it
  is (`Kept`), lets one in that found the limits not reached (`Joined`), or ends one, with or
  without its record (`Left`). A sum of costs is the number of units of cost, which needs no
  recursion.
* `AssistantProofs`, the scans: `ScanInvariant`, `CriticalAlwaysNotifiedOnce` and
  `SummariesAlwaysComplete`. `ScanInv` adds that the row lock has one holder, that what was
  looked up under it is not stale, and that rows and summaries can be traced to the
  callbacks stored (`RowsFollowed`, `SummariesFollowed`).

`ScaleControlProofs` ends with `ScheduleIsCyclicWindow`, about `OffHoursClock`.

Only model-checked: liveness (`NightStops`, `DayResumes`, `ReachableEndsOnline`,
`OutageEndsOffline`, `OutageEnds`, `EventuallyMirrored`, `EveryQuestionEnds`), because
fairness is beyond the prover.

## Abstractions

Contents of files, findings, kubeconfigs and messages are model values; names stand for
slugs; role checks, audit log and events other than the critical scan event are left
out. In `AppLifecycle` the Keycloak part of scaffold, onboard and delete is left out,
GitLab redirects the old path of a renamed group, and the injected pipeline is external
(it writes the ArgoCD manifests and the image tags of its target cluster). In
`ScaleControl` the image tag is left out. In `ClusterRegistry` validation errors, which
come before any change, and failed database commits are left out.

In `KeycloakActivation` tokens of the admin API, redirect URIs, mappers and the envFrom
warning are left out; an outsider is one act on a realm. In `ConsoleAccess` a user keeps
the GitLab account of the first login, an application its group and project. In
`Assistant` prompts and answers have no wording and the context of an application question
is left out; the usage of all questions is that of one user. In `KeycloakDeploy` the
target files of one instance name one cluster (an assumption): the command can also move an
instance to a new cluster (`deploy.py:359-387`, `infra/keycloak/README.md:97-99`), which is left
out because the module attaches Keycloak's database, administrator and client to the instance
and not to its cluster. The instance is not deleted meanwhile, ArgoCD's ownership check is the guard of `Install`, the rule every run
adds to the backend's policy is left out, and a stage script does not run at the same time
as its own rollback.

## Not modelled

`components` in `PROJECT.json` gives the reason for each part. Stateless adapters
(monitoring, CLI, console, redaction and lexical search), text generation (CI templates,
charts) and infrastructure code have no behaviour a model checker would add to.
Credentials, resources and the audit log are single statements on independent rows. The
inbox of notifications is one idempotent UPDATE per request on the reader's own rows. The
knowledge index is replaced in one transaction: of two concurrent indexings the unique
constraint makes one fail, and an indexing that finds no directory deletes every chunk. Two
requests that refresh the same rotating GitLab token (`api/routes/gitlab.py:44`) depend on
what GitLab does with a token already spent, which nothing in the repository states.

## Plan

1. Models: done for the parts listed under Modules.
2. Theorems: done for every invariant and action property of the runs.
3. Liveness stays with TLC. A part that is listed as `partly` in `PROJECT.json` would be the
   next to extend: the remaining status writers and the other gitops writers first.
