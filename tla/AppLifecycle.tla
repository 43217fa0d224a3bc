---------------------------- MODULE AppLifecycle ----------------------------
(***************************************************************************)
(* The life of an application (backend/services/app_service.py and         *)
(* scaffolding_service.py): its row in the database, its GitLab project,   *)
(* its directories in the gitops repository and its secrets in Vault.      *)
(* Scaffold, onboard, import and delete are long requests whose steps      *)
(* reach the four stores one after the other, with no transaction around   *)
(* them; many steps are best effort and a failure is only logged.          *)
(*                                                                         *)
(* An action is what a request does up to its next await, with the remote  *)
(* call it waited for.  A slug stands for the name it is computed from, a  *)
(* project for its path (GitLab redirects the old path of a renamed        *)
(* group).  Keycloak, and the columns PUT changes other than the cluster,  *)
(* are left out.                                                           *)
(***************************************************************************)
EXTENDS Naturals

CONSTANTS
    Slugs,           \* slugs of application names
    Groups,          \* GitLab groups
    Paths,           \* full paths a group may have
    Clusters,        \* names of the registered clusters
    DefaultCluster,  \* "aks", for an application with no cluster
    Requests,        \* concurrent HTTP requests
    Starts,          \* what they do
    MaxApps,         \* bound on rows ever inserted
    MaxStarts,       \* bound on requests ever started
    Mixes            \* bound on mishaps: the sets of kinds that may come together

None      == "none"
Envs      == {"dev", "prod"}
Origins   == {"scaffolded", "onboarded", "imported"}
AllStarts == Origins \cup {"delete", "env"}
Ids       == 1 .. MaxApps
Projects  == Groups \X Slugs
Targets   == Clusters \cup {None}             \* target_cluster_id
Dirs      == Clusters \cup {DefaultCluster}   \* {cluster} in the gitops repository
Files     == Dirs \X Slugs \X Envs           \* files of an environment under {cluster}/{slug}
Kinds     == {"fail", "moved", "renamed", "late", "reuse", "pulled", "stuck", "crash"}

ASSUME LifecycleConstants ==
    /\ MaxApps \in Nat /\ MaxStarts \in Nat /\ Mixes \subseteq SUBSET Kinds
    /\ Starts \subseteq AllStarts
    /\ None \notin Paths \cup Clusters \cup Slugs
    /\ Slugs # {} /\ Groups # {}

VARIABLES
    row,        \* Ids -> rows of applications
    last,       \* the last primary key given
    project,    \* Projects -> what GitLab holds
    fullPath,   \* Groups -> gitlab_groups.full_path
    secretFile, \* apps/{cluster}/{slug}/platform/{env}/externalsecret.yaml -> its key
    values,     \* the files apps/{cluster}/{slug}/values-{env}.yaml
    argocd,     \* the directories argocd/{cluster}/{slug}
    vault,      \* the secrets apps/{group path}/{slug}/{env}
    req,        \* Requests -> where the request stands
    started,    \* how many have started
    mishaps     \* observation only: the kinds of mishap so far

vars == <<row, last, project, fullPath, secretFile, values, argocd, vault, req, started, mishaps>>

SomeProject == CHOOSE p \in Projects : TRUE
NoRow  == [slug |-> None, repo |-> SomeProject, origin |-> "onboarded",
           group |-> SomeProject[1], cluster |-> None, ci |-> FALSE]
Absent == [exists |-> FALSE, template |-> FALSE, ci |-> 0, target |-> DefaultCluster]
Idle   == [pc |-> "idle", slug |-> SomeProject[2], repo |-> SomeProject,
           origin |-> "onboarded", group |-> SomeProject[1], cluster |-> None,
           id |-> 0, env |-> "dev", path |-> None, expose |-> FALSE, ok |-> FALSE]

Present(i)     == row[i].slug # None
ClusterName(c) == IF c = None THEN DefaultCluster ELSE c
DeletePcs      == {"delApps", "delArgo", "delProject", "delVault", "delRow"}

BeingDeleted(i) == \E r \in Requests : req[r].id = i /\ req[r].pc \in DeletePcs

\* Somebody but r has deleted application i, or is about to.
Gone(i, r) == \/ ~Present(i)
              \/ \E q \in Requests \ {r} : req[q].id = i /\ req[q].pc \in DeletePcs

\* Another scaffold has filled project p, and its row is still to be saved.
Filling(p, r) == \E q \in Requests \ {r} : req[q].pc \in {"push", "save"} /\ req[q].repo = p

Note(K) == /\ mishaps' = mishaps \cup K
           /\ \E m \in Mixes : mishaps' \subseteq m

When(b, k)   == IF b THEN {k} ELSE {}
NoteIf(b, k) == Note(When(b, k))

Goes(r, q) == req' = [req EXCEPT ![r] = q]
Ends(r)    == Goes(r, Idle)

\* What a call of the GitLab client leaves behind: an empty project, the
\* files of a batch (created or updated) in one commit, no project, a
\* manifest regenerated whole, a values file created or patched.
create_project(p)              == [project EXCEPT ![p] = [Absent EXCEPT !.exists = TRUE]]
push_files_batch(p)            == [project EXCEPT ![p].template = TRUE]
delete_project(p)              == [project EXCEPT ![p] = Absent]
upsert_externalsecret(f, path) == [secretFile EXCEPT ![f] = path]
upsert_gitops_ingress(f)       == values \cup {f}

\* GitLab may hold projects of its own.
Init ==
    /\ row = [i \in Ids |-> NoRow]
    /\ last = 0
    /\ project \in [Projects -> {Absent, [Absent EXCEPT !.exists = TRUE]}]
    /\ fullPath \in [Groups -> Paths]
    /\ \A g, h \in Groups : fullPath[g] = fullPath[h] => g = h
    /\ secretFile = [f \in Files |-> None]
    /\ values = {} /\ argocd = {} /\ vault = {}
    /\ req = [r \in Requests |-> Idle]
    /\ started = 0
    /\ mishaps = {}

-----------------------------------------------------------------------------
(***************************************************************************)
(* Scaffold, onboard, import: the project.                                 *)
(***************************************************************************)

Begin(r, q) ==
    /\ req[r].pc = "idle"
    /\ started < MaxStarts /\ started' = started + 1
    /\ Goes(r, q)
    /\ UNCHANGED <<row, last, project, fullPath, secretFile, values, argocd, vault, mishaps>>

\* The template and the namespace are looked up; a name with no slug, a
\* missing setting or a missing template end the request with nothing done.
\* The exposure of a scaffolded application is written in its repository.
ScaffoldBegins(r) ==
    \E s \in Slugs, g \in Groups, c \in Targets :
        /\ "scaffolded" \in Starts
        /\ Begin(r, [Idle EXCEPT !.pc = "create", !.slug = s, !.group = g,
                     !.repo = <<g, s>>, !.origin = "scaffolded", !.cluster = c])

\* The repository exists and no application has it.
OnboardBegins(r) ==
    \E s \in Slugs, g \in Groups, p \in Projects, c \in Targets, e \in BOOLEAN :
        /\ "onboarded" \in Starts
        /\ project[p].exists
        /\ \A i \in Ids : Present(i) => row[i].repo # p
        /\ Begin(r, [Idle EXCEPT !.pc = "save", !.slug = s, !.group = g, !.repo = p,
                     !.origin = "onboarded", !.cluster = c, !.expose = e])

ImportBegins(r) ==
    \E s \in Slugs, g \in Groups, c \in Targets, e \in BOOLEAN :
        /\ "imported" \in Starts
        /\ Begin(r, [Idle EXCEPT !.pc = "import", !.slug = s, !.group = g,
                     !.repo = <<g, s>>, !.origin = "imported", !.cluster = c, !.expose = e])

\* create_project, or the project already there when its path is taken.
CreatesProject(r) ==
    /\ req[r].pc = "create"
    /\ LET p == req[r].repo IN
       \/ /\ ~project[p].exists
          /\ project' = create_project(p)
          /\ Goes(r, [req[r] EXCEPT !.pc = "push"])
          /\ UNCHANGED mishaps
       \/ /\ project[p].exists
          /\ Goes(r, [req[r] EXCEPT !.pc = "push"])
          /\ Note({"reuse"})
          /\ UNCHANGED project
       \/ Ends(r) /\ UNCHANGED <<project, mishaps>>
    /\ UNCHANGED <<row, last, fullPath, secretFile, values, argocd, vault, started>>

\* A batch whose failure is logged only.
AfterFailedPushGoesOn(q) == [q EXCEPT !.pc = "save"]

\* The request ends with a 502 and leaves the project as it is.
AfterFailedPush(q) == Idle

\* The template's files and the generated chart, in one commit.
PushesTemplate(r) ==
    /\ req[r].pc = "push"
    /\ LET p == req[r].repo IN
       \/ /\ project[p].exists
          /\ project' = push_files_batch(p)
          /\ Goes(r, [req[r] EXCEPT !.pc = "save"])
          /\ UNCHANGED mishaps
       \/ Goes(r, AfterFailedPush(req[r])) /\ Note({"fail"}) /\ UNCHANGED project
    /\ UNCHANGED <<row, last, fullPath, secretFile, values, argocd, vault, started>>

\* GitLab clones the source.  A failure or the 60 s limit leaves the project.
ImportsProject(r) ==
    /\ req[r].pc = "import"
    /\ LET p == req[r].repo
           made == project' = [project EXCEPT ![p] = [Absent EXCEPT !.exists = TRUE]] IN
       \/ /\ ~project[p].exists /\ made
          /\ Goes(r, [req[r] EXCEPT !.pc = "save"])
          /\ UNCHANGED mishaps
       \/ ~project[p].exists /\ made /\ Ends(r) /\ Note({"fail"})
       \/ Ends(r) /\ UNCHANGED <<project, mishaps>>
    /\ UNCHANGED <<row, last, fullPath, secretFile, values, argocd, vault, started>>

-----------------------------------------------------------------------------
(***************************************************************************)
(* The row, and what follows it.                                           *)
(***************************************************************************)

\* A row the unique constraints on slug and repo_url accept.
Insertable(q) == \A i \in Ids : Present(i) => row[i].slug # q.slug /\ row[i].repo # q.repo

RowOf(q) == [slug |-> q.slug, repo |-> q.repo, origin |-> q.origin,
             group |-> q.group, cluster |-> q.cluster, ci |-> FALSE]

\* Only the file of prod is written.
ToSecretFilesProd(q, c) == [q EXCEPT !.pc = "secret", !.env = "prod", !.cluster = c,
                                     !.path = fullPath[q.group]]

\* From here on the group's path and the cluster's name are those just read.
ToSecretFiles(q, c) == [q EXCEPT !.pc = "secret", !.env = "dev", !.cluster = c,
                                 !.path = fullPath[q.group]]

\* A row that cannot be saved makes a scaffold delete its project.
AfterUnsaved(q) ==
    IF q.origin = "scaffolded" THEN [q EXCEPT !.pc = "cleanup"] ELSE Idle

\* The INSERT is committed.  A raw import gets no CI.
SavesRow(r) ==
    /\ req[r].pc = "save"
    /\ LET q == req[r] IN
       \/ /\ Insertable(q) /\ last < MaxApps
          /\ row' = [row EXCEPT ![last + 1] = RowOf(q)]
          /\ last' = last + 1
          /\ \/ Goes(r, [q EXCEPT !.pc = "inject", !.id = last + 1])
             \/ /\ q.origin = "imported"
                /\ Goes(r, ToSecretFiles([q EXCEPT !.id = last + 1], q.cluster))
          /\ UNCHANGED mishaps
       \/ /\ NoteIf(Insertable(q), "fail")
          /\ Goes(r, AfterUnsaved(q))
          /\ UNCHANGED <<row, last>>
    /\ UNCHANGED <<project, fullPath, secretFile, values, argocd, vault, started>>

\* cleanup_project, best effort: whoever made the project, it is deleted.
CleansUp(r) ==
    /\ req[r].pc = "cleanup"
    /\ \/ /\ project' = delete_project(req[r].repo)
          /\ NoteIf(\/ Filling(req[r].repo, r)
                    \/ \E i \in Ids : Present(i) /\ row[i].repo = req[r].repo, "pulled")
       \/ Note({"fail"}) /\ UNCHANGED project
    /\ Ends(r)
    /\ UNCHANGED <<row, last, fullPath, secretFile, values, argocd, vault, started>>

\* A pipeline already on main makes the injection of a scaffold fail.
Injects(q) == project[q.repo].exists /\ (q.origin = "scaffolded" => project[q.repo].ci = 0)

\* Pushed to main for a scaffold, a merge request otherwise; best effort.
InjectsCi(r) ==
    /\ req[r].pc = "inject"
    /\ LET q == req[r] IN
       \/ /\ Injects(q)
          /\ project' = IF q.origin = "scaffolded" /\ project[q.repo].ci = 0
                        THEN [project EXCEPT ![q.repo].ci = q.id,
                                             ![q.repo].target = ClusterName(q.cluster)]
                        ELSE project
          /\ Goes(r, [q EXCEPT !.pc = "ci", !.ok = TRUE])
          /\ UNCHANGED mishaps
       \/ /\ NoteIf(Injects(q), "fail")
          /\ Goes(r, [q EXCEPT !.pc = "ci"])
          /\ UNCHANGED project
    /\ UNCHANGED <<row, last, fullPath, secretFile, values, argocd, vault, started>>

\* ci_injected is committed and the row read again; a row deleted meanwhile
\* ends the request.
CommitsCi(r) ==
    /\ req[r].pc = "ci"
    /\ LET q == req[r] IN
       \/ /\ Present(q.id)
          /\ row' = [row EXCEPT ![q.id].ci = q.ok]
          /\ Goes(r, ToSecretFiles(q, row[q.id].cluster))
       \/ ~Present(q.id) /\ Ends(r) /\ UNCHANGED row
    /\ UNCHANGED <<last, project, fullPath, secretFile, values, argocd, vault, mishaps, started>>

\* Only onboarded and imported applications have their ingress in gitops.
AfterSecretFiles(q) ==
    IF q.expose THEN [q EXCEPT !.pc = "ingress", !.env = "dev"] ELSE Idle

LateIf(r) == NoteIf(Gone(req[r].id, r), "late")

\* upsert_externalsecret for dev, then prod; a failure ends the loop.
PushesSecretFile(r) ==
    /\ req[r].pc = "secret"
    /\ LET q == req[r] IN
       \/ /\ secretFile' = upsert_externalsecret(<<ClusterName(q.cluster), q.slug, q.env>>, q.path)
          /\ Goes(r, IF q.env = "dev" THEN [q EXCEPT !.env = "prod"] ELSE AfterSecretFiles(q))
          /\ LateIf(r)
       \/ Goes(r, AfterSecretFiles(q)) /\ Note({"fail"}) /\ UNCHANGED secretFile
    /\ UNCHANGED <<row, last, project, fullPath, values, argocd, vault, started>>

\* upsert_gitops_ingress for dev, then prod; a failure ends the loop.
PushesIngress(r) ==
    /\ req[r].pc = "ingress"
    /\ LET q == req[r] IN
       \/ /\ values' = upsert_gitops_ingress(<<ClusterName(q.cluster), q.slug, q.env>>)
          /\ Goes(r, IF q.env = "dev" THEN [q EXCEPT !.env = "prod"] ELSE Idle)
          /\ LateIf(r)
       \/ Ends(r) /\ Note({"fail"}) /\ UNCHANGED values
    /\ UNCHANGED <<row, last, project, fullPath, secretFile, argocd, vault, started>>

-----------------------------------------------------------------------------
(***************************************************************************)
(* Deletion.                                                               *)
(***************************************************************************)

DeleteBegins(r) ==
    \E i \in Ids :
        /\ "delete" \in Starts
        /\ Present(i)
        /\ Begin(r, [Idle EXCEPT !.pc = "delApps", !.id = i, !.slug = row[i].slug,
                     !.repo = row[i].repo, !.origin = row[i].origin,
                     !.group = row[i].group, !.cluster = row[i].cluster])

\* A deletion step does its work, or its failure is logged; it goes on.
\* It is late when the row is gone: the slug may be another application's.
Attempt(r, done, undone, K) ==
    \/ done /\ Note(K \cup When(~Present(req[r].id), "late"))
    \/ undone /\ Note({"fail"})

Step(r, pc) == Goes(r, [req[r] EXCEPT !.pc = pc])
InDir(f, q) == f[1] = ClusterName(q.cluster) /\ f[2] = q.slug

\* All of apps/{cluster}/{slug}.
DeletesAppFiles(r) ==
    /\ req[r].pc = "delApps"
    /\ Attempt(r,
           /\ secretFile' = [f \in DOMAIN secretFile |->
                                IF InDir(f, req[r]) THEN None ELSE secretFile[f]]
           /\ values' = {f \in values : ~InDir(f, req[r])},
           UNCHANGED <<secretFile, values>>, {})
    /\ Step(r, "delArgo")
    /\ UNCHANGED <<row, last, project, fullPath, argocd, vault, started>>

\* The project of every origin.
AfterArgoAny(q) == "delProject"

\* Only a scaffolded application's project is deleted with it.
AfterArgo(q) == IF q.origin = "scaffolded" THEN "delProject" ELSE "delVault"

DeletesArgoFiles(r) ==
    /\ req[r].pc = "delArgo"
    /\ Attempt(r, argocd' = {d \in argocd : ~InDir(d, req[r])}, UNCHANGED argocd, {})
    /\ Step(r, AfterArgo(req[r]))
    /\ UNCHANGED <<row, last, project, fullPath, secretFile, values, vault, started>>

DeletesProject(r) ==
    /\ req[r].pc = "delProject"
    /\ Attempt(r, project' = delete_project(req[r].repo), UNCHANGED project,
               When(Filling(req[r].repo, r), "pulled"))
    /\ Step(r, "delVault")
    /\ UNCHANGED <<row, last, fullPath, secretFile, values, argocd, vault, started>>

\* Only the secrets of dev.
SecretsOfDev(q) == {<<fullPath[q.group], q.slug, "dev">>}

SecretsOf(q) == {fullPath[q.group]} \X {q.slug} \X Envs

\* The two Vault calls block the event loop; the first to fail is the last.
DeletesSecrets(r) ==
    /\ req[r].pc = "delVault"
    /\ Attempt(r, vault' = vault \ SecretsOf(req[r]),
               vault' \in {vault, vault \ {<<fullPath[req[r].group], req[r].slug, "dev">>}}, {})
    /\ Step(r, "delRow")
    /\ UNCHANGED <<row, last, project, fullPath, secretFile, values, argocd, started>>

\* The row goes last.  One already gone is no error.
DeletesRow(r) ==
    /\ req[r].pc = "delRow"
    /\ \/ row' = [row EXCEPT ![req[r].id] = NoRow] /\ UNCHANGED mishaps
       \/ UNCHANGED row /\ Note({"stuck"})
    /\ Ends(r)
    /\ UNCHANGED <<last, project, fullPath, secretFile, values, argocd, vault, started>>

-----------------------------------------------------------------------------
(***************************************************************************)
(* Everybody else.                                                         *)
(***************************************************************************)

\* set_vars: the application is loaded, then its path in Vault resolved.
EnvBegins(r) ==
    \E i \in Ids, e \in Envs :
        /\ "env" \in Starts
        /\ Present(i)
        /\ Begin(r, [Idle EXCEPT !.pc = "env", !.id = i, !.slug = row[i].slug,
                     !.group = row[i].group, !.env = e])

EnvWrites(r) ==
    /\ req[r].pc = "env"
    /\ vault' = vault \cup {<<fullPath[req[r].group], req[r].slug, req[r].env>>}
    /\ Ends(r)
    /\ LateIf(r)
    /\ UNCHANGED <<row, last, project, fullPath, secretFile, values, argocd, started>>

\* PUT with another cluster: no file of the gitops repository is moved.
UpdatesCluster(i) ==
    /\ Present(i)
    /\ \E c \in Targets \ {row[i].cluster} : row' = [row EXCEPT ![i].cluster = c]
    /\ Note({"moved"})
    /\ UNCHANGED <<last, project, fullPath, secretFile, values, argocd, vault, req, started>>

\* The synchronisation stores the new path of a group renamed in GitLab.
GroupRenamed(g) ==
    /\ \E p \in Paths \ {fullPath[h] : h \in Groups} : fullPath' = [fullPath EXCEPT ![g] = p]
    /\ Note({"renamed"})
    /\ UNCHANGED <<row, last, project, secretFile, values, argocd, vault, req, started>>

\* The injected pipeline writes the manifests of ArgoCD and the image tag.
PipelineRuns(p) ==
    /\ project[p].ci # 0
    /\ argocd' = argocd \cup {<<project[p].target, p[2]>>}
    /\ values' = values \cup ({project[p].target} \X {p[2]} \X Envs)
    /\ <<argocd', values'>> # <<argocd, values>>
    /\ NoteIf(~Present(project[p].ci) \/ BeingDeleted(project[p].ci), "late")
    /\ UNCHANGED <<row, last, project, fullPath, secretFile, vault, req, started>>

\* The process restarts: the requests are gone.
Restart ==
    /\ \E r \in Requests : req[r].pc # "idle"
    /\ req' = [r \in Requests |-> Idle]
    /\ Note({"crash"})
    /\ UNCHANGED <<row, last, project, fullPath, secretFile, values, argocd, vault, started>>

Next ==
    \/ \E r \in Requests :
          \/ ScaffoldBegins(r) \/ OnboardBegins(r) \/ ImportBegins(r)
          \/ CreatesProject(r) \/ PushesTemplate(r) \/ ImportsProject(r)
          \/ SavesRow(r) \/ CleansUp(r) \/ InjectsCi(r) \/ CommitsCi(r)
          \/ PushesSecretFile(r) \/ PushesIngress(r)
          \/ DeleteBegins(r) \/ DeletesAppFiles(r) \/ DeletesArgoFiles(r)
          \/ DeletesProject(r) \/ DeletesSecrets(r) \/ DeletesRow(r)
          \/ EnvBegins(r) \/ EnvWrites(r)
    \/ \E i \in Ids : UpdatesCluster(i)
    \/ \E g \in Groups : GroupRenamed(g)
    \/ \E p \in Projects : PipelineRuns(p)
    \/ Restart

Spec == Init /\ [][Next]_vars

-----------------------------------------------------------------------------

Savers == {"create", "push", "import", "save", "cleanup"}
Makers == {"inject", "ci", "secret", "ingress"}
Rows   == [slug : Slugs \cup {None}, repo : Projects, origin : Origins,
           group : Groups, cluster : Targets, ci : BOOLEAN]
ProjectStates == [exists : BOOLEAN, template : BOOLEAN, ci : 0 .. MaxApps, target : Dirs]
RequestStates ==
    [pc : {"idle", "env"} \cup Savers \cup Makers \cup DeletePcs,
     slug : Slugs, repo : Projects, origin : Origins, group : Groups, cluster : Targets,
     id : 0 .. MaxApps, env : Envs, path : Paths \cup {None}, expose : BOOLEAN, ok : BOOLEAN]

\* Every variable has its type.
TypeOK ==
    /\ row \in [Ids -> Rows]
    /\ last \in 0 .. MaxApps
    /\ project \in [Projects -> ProjectStates]
    /\ fullPath \in [Groups -> Paths]
    /\ secretFile \in [Files -> Paths \cup {None}]
    /\ values \subseteq Files
    /\ argocd \subseteq Dirs \X Slugs
    /\ vault \subseteq Paths \X Slugs \X Envs
    /\ req \in [Requests -> RequestStates]
    /\ started \in 0 .. MaxStarts
    /\ mishaps \subseteq Kinds

Without(K) == mishaps \cap K = {}

\* The project of an application the platform made is there, holds its
\* template, and a pipeline that reports to the application.
ProjectSound(i) ==
    LET p == project[row[i].repo] IN
    p.exists /\ p.template /\ (row[i].ci => p.ci = i)

\* A scaffolded application keeps a sound project until it is deleted:
\* failed pushes, reused projects, moves and renames do not matter.  Only a
\* rollback of another scaffold (pulled), a second deletion (late) and a
\* deletion that stopped before the row (stuck, crash) take it away.
ScaffoldedProjectSound ==
    \A i \in Ids :
        Present(i) /\ row[i].origin = "scaffolded" /\ ~BeingDeleted(i)
            /\ Without({"pulled", "late", "stuck", "crash"})
        => ProjectSound(i)

Creating(i) == \E r \in Requests : req[r].id = i

\* The key External Secrets reads in the cluster of an application.
KeyOf(i, e) == secretFile[<<ClusterName(row[i].cluster), row[i].slug, e>>]

\* Once its request has ended, an application has its two ExternalSecrets
\* and they read the path the environment variables are written to.
SecretKeysMatch ==
    \A i \in Ids, e \in Envs :
        Present(i) /\ ~Creating(i)
            /\ Without({"fail", "moved", "renamed", "late", "stuck", "crash"})
        => KeyOf(i, e) = fullPath[row[i].group]

InUse(s) == \/ \E i \in Ids : Present(i) /\ row[i].slug = s
            \/ \E r \in Requests : req[r].pc # "idle" /\ req[r].slug = s

Bare(s) == /\ \A c \in Dirs, e \in Envs : secretFile[<<c, s, e>>] = None
           /\ \A f \in values \cup argocd \cup vault : f[2] # s
           /\ \A g \in Groups : ~project[<<g, s>>].template

\* Nothing is left of an application once it is deleted, or was never saved,
\* unless a step failed, it was moved or renamed, somebody still wrote for
\* it, or the process died.
NothingLeft ==
    \A s \in Slugs :
        ~InUse(s) /\ Without({"fail", "moved", "renamed", "late", "crash"})
        => Bare(s)

(***************************************************************************)
(* What makes these inductive (AppLifecycleProofs).                        *)
(***************************************************************************)

\* Keys are given once, in order; slugs and repositories are unique; the
\* project of a scaffolded application is named after it.
RowsSound ==
    /\ \A i \in Ids : Present(i) =>
          /\ i <= last
          /\ row[i].origin = "scaffolded" => row[i].repo = <<row[i].group, row[i].slug>>
    /\ \A i, j \in Ids : Present(i) /\ Present(j) /\ i # j =>
          row[i].slug # row[j].slug /\ row[i].repo # row[j].repo

\* What a request needs at its place.
Shaped(q) ==
    /\ q.pc \in {"idle"} \cup Savers => q.id = 0
    /\ q.pc \in {"env"} \cup Makers \cup DeletePcs => q.id \in 1 .. last
    /\ q.pc \in Savers \cup Makers /\ q.origin = "scaffolded" => q.repo = <<q.group, q.slug>>
    /\ q.pc \in {"create", "push", "cleanup", "delProject"} => q.origin = "scaffolded"
    /\ q.pc = "import" => q.origin # "scaffolded"
    /\ q.pc \in Savers \cup {"inject"} => ~q.ok

\* A request about a row that is still there agrees with it.
Agrees(q) ==
    q.pc \in {"env"} \cup Makers \cup DeletePcs /\ Present(q.id) =>
        /\ row[q.id].slug = q.slug /\ row[q.id].group = q.group
        /\ q.pc # "env" => /\ row[q.id].repo = q.repo /\ row[q.id].origin = q.origin
                           /\ Without({"moved"}) => row[q.id].cluster = q.cluster
ReadsPath(q) == q.pc = "secret" /\ Without({"renamed"}) => q.path = fullPath[q.group]

RequestsSound == \A r \in Requests : Shaped(req[r]) /\ Agrees(req[r]) /\ ReadsPath(req[r])

\* A pipeline reports to the scaffolded application of its project; a
\* project that is gone has neither files nor a pipeline.
Reports(p, i) ==
    /\ row[i].repo = p /\ row[i].origin = "scaffolded"
    /\ Without({"moved"}) => project[p].target = ClusterName(row[i].cluster)
PipelinesSound ==
    \A p \in Projects :
        /\ project[p].ci # 0 => /\ project[p].ci <= last
                                /\ Present(project[p].ci) => Reports(p, project[p].ci)
        /\ ~project[p].exists => project[p].ci = 0 /\ ~project[p].template

\* The project of a scaffold that is about to save its row.
Filled ==
    \A r \in Requests :
        req[r].pc = "save" /\ req[r].origin = "scaffolded" /\ Without({"pulled"}) =>
            project[req[r].repo].exists /\ project[req[r].repo].template

\* The pipeline that is about to be recorded.
Injected ==
    \A r \in Requests :
        req[r].pc = "ci" /\ req[r].ok /\ req[r].origin = "scaffolded" /\ Present(req[r].id)
            /\ ~BeingDeleted(req[r].id) /\ Without({"pulled", "late", "stuck", "crash"})
        => project[req[r].repo].ci = req[r].id

\* The file of e is still to be written for application i.
Awaits(q, i, e) == q.id = i /\ \/ q.pc \in {"inject", "ci"}
                               \/ q.pc = "secret" /\ (q.env = "dev" \/ e = "prod")

KeysWritten ==
    Without({"fail", "moved", "renamed", "late", "stuck", "crash"}) =>
        \A i \in Ids, e \in Envs :
            Present(i) /\ ~BeingDeleted(i) /\ (\A r \in Requests : ~Awaits(req[r], i, e))
            => KeyOf(i, e) = fullPath[row[i].group]

\* Application i has slug s, and no deletion of it has come to P.
Keeps(i, s, P) == /\ Present(i) /\ row[i].slug = s
                  /\ \A r \in Requests : ~(req[r].id = i /\ req[r].pc \in P)
In(i, c) == ClusterName(row[i].cluster) = c

\* Every file, directory, secret and template has an application that keeps
\* it, or a scaffold that will save its row or clean up.
SecretFilesKept ==
    \A f \in Files : secretFile[f] # None =>
        \E i \in Ids : Keeps(i, f[2], DeletePcs \ {"delApps"}) /\ In(i, f[1])
ValuesKept ==
    \A f \in values :
        \E i \in Ids : Keeps(i, f[2], DeletePcs \ {"delApps"}) /\ In(i, f[1])
ArgoKept ==
    \A d \in argocd :
        \E i \in Ids : Keeps(i, d[2], {"delProject", "delVault", "delRow"}) /\ In(i, d[1])
VaultKept ==
    \A v \in vault :
        \E i \in Ids : Keeps(i, v[2], {"delRow"}) /\ fullPath[row[i].group] = v[1]
TemplatesKept ==
    \A p \in Projects : project[p].template =>
        \/ \E i \in Ids : /\ Keeps(i, p[2], {"delVault", "delRow"})
                          /\ row[i].repo = p /\ row[i].origin = "scaffolded"
        \/ \E r \in Requests : /\ req[r].pc \in {"save", "cleanup"} /\ req[r].repo = p
                               /\ req[r].origin = "scaffolded"
LeftoversKept ==
    Without({"fail", "moved", "renamed", "late", "crash"}) =>
        /\ SecretFilesKept /\ ValuesKept /\ ArgoKept /\ VaultKept /\ TemplatesKept

AppInv == /\ TypeOK /\ SecretKeysMatch
          /\ RowsSound /\ RequestsSound /\ PipelinesSound /\ Filled /\ Injected
          /\ KeysWritten /\ LeftoversKept

\* The repository of an application that was not scaffolded outlives it: only
\* the rollback of a scaffold on the same path (pulled) and a second deletion
\* of an earlier application of that path (late) delete it.
RepositoriesKept ==
    [][\A p \in Projects :
          project[p].exists /\ ~project'[p].exists /\ mishaps' \cap {"pulled", "late"} = {}
              /\ (\E i \in Ids : Present(i) /\ row[i].repo = p)
          => \E i \in Ids : Present(i) /\ row[i].repo = p /\ row[i].origin = "scaffolded"]_vars

-----------------------------------------------------------------------------
\* A claim of the code's documentation.  cleanup_project deletes "the scaffolded GitLab project on rollback": the
\* project of another application stays.
RollbackKeepsOthers ==
    mishaps \subseteq {"reuse", "pulled"} =>
        \A i \in Ids : Present(i) /\ ~BeingDeleted(i) => project[row[i].repo].exists

=============================================================================
