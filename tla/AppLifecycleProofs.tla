------------------------- MODULE AppLifecycleProofs --------------------------
(***************************************************************************)
(* Proofs about AppLifecycle: the invariants of its run and that           *)
(* repositories are kept, for any names, groups, clusters, requests and    *)
(* combinations of mishaps.                                                *)
(***************************************************************************)
EXTENDS AppLifecycle, TLAPS

\* What the steps preserve; SecretKeysMatch and NothingLeft follow from it.
Ind == /\ TypeOK /\ RowsSound /\ RequestsSound /\ PipelinesSound /\ Filled /\ Injected
       /\ ScaffoldedProjectSound /\ KeysWritten /\ LeftoversKept

\* The mishaps the parts of the invariant except.
Unhurt == Without({"pulled", "late", "stuck", "crash"})
Steady == Without({"fail", "moved", "renamed", "late", "stuck", "crash"})
Calm   == Without({"fail", "moved", "renamed", "late", "crash"})

-----------------------------------------------------------------------------
(***************************************************************************)
(* Types.                                                                  *)
(***************************************************************************)

\* The fields of the state of a request.
LEMMA StateIs ==
    ASSUME NEW q \in RequestStates
    PROVE  /\ q.pc \in {"idle", "env"} \cup Savers \cup Makers \cup DeletePcs
           /\ q.slug \in Slugs /\ q.repo \in Projects /\ q.origin \in Origins
           /\ q.group \in Groups /\ q.cluster \in Targets /\ q.id \in 0 .. MaxApps
           /\ q.env \in Envs /\ q.path \in Paths \cup {None}
           /\ q.expose \in BOOLEAN /\ q.ok \in BOOLEAN
  BY DEF RequestStates

\* The fields of a row.
LEMMA RowIs ==
    ASSUME NEW x \in Rows
    PROVE  /\ x.slug \in Slugs \cup {None} /\ x.repo \in Projects /\ x.origin \in Origins
           /\ x.group \in Groups /\ x.cluster \in Targets /\ x.ci \in BOOLEAN
  BY DEF Rows

\* Names are not None, and there are names, groups and projects.
LEMMA ConstantsAre ==
    /\ None \notin Slugs /\ None \notin Paths /\ None \notin Clusters
    /\ MaxApps \in Nat /\ MaxStarts \in Nat
    /\ SomeProject \in Projects /\ SomeProject[1] \in Groups /\ SomeProject[2] \in Slugs
  <1>1. PICK g \in Groups, s \in Slugs : TRUE
    BY LifecycleConstants
  <1>2. <<g, s>> \in Projects
    BY DEF Projects
  <1>3. SomeProject \in Projects
    BY <1>2 DEF SomeProject
  <1>4. SomeProject[1] \in Groups /\ SomeProject[2] \in Slugs
    BY <1>3 DEF Projects
  <1> QED
    BY <1>3, <1>4, LifecycleConstants

\* The states everything starts with are well typed.
LEMMA FirstAre ==
    /\ NoRow \in Rows /\ NoRow.slug = None
    /\ Absent \in ProjectStates
    /\ [Absent EXCEPT !.exists = TRUE] \in ProjectStates
    /\ Idle \in RequestStates
  <1>1. NoRow \in Rows /\ NoRow.slug = None
    BY ConstantsAre DEF NoRow, Rows, Origins, Targets
  <1>2. Absent \in ProjectStates
    BY ConstantsAre DEF Absent, ProjectStates, Dirs
  <1>3. [Absent EXCEPT !.exists = TRUE] \in ProjectStates
    BY <1>2 DEF ProjectStates
  <1>4. Idle \in RequestStates
    BY ConstantsAre DEF Idle, RequestStates, Origins, Targets, Envs
  <1> QED
    BY <1>1, <1>2, <1>3, <1>4

\* Every target has a directory.
LEMMA ClusterNameIs == \A c \in Targets : ClusterName(c) \in Dirs
  BY DEF ClusterName, Targets, Dirs

\* The mishaps only accumulate, and a condition on them only gets stronger.
LEMMA MishapsGrow ==
    ASSUME mishaps \subseteq mishaps', NEW K
    PROVE  Without(K)' => Without(K)
  BY DEF Without

-----------------------------------------------------------------------------
(***************************************************************************)
(* One request goes on: what stays when nothing else changes.              *)
(***************************************************************************)

Moves(r, q) == Goes(r, q) /\ q \in RequestStates /\ mishaps \subseteq mishaps'

\* Only the state of r changes.
LEMMA MovesIs ==
    ASSUME TypeOK, NEW r \in Requests, NEW q, Goes(r, q)
    PROVE  /\ req'[r] = q
           /\ \A x \in Requests : x # r => req'[x] = req[x]
  BY DEF TypeOK, Goes

\* Rows that differ in ci_injected only.
Alike == /\ UNCHANGED last
         /\ \A i \in Ids : /\ row'[i].slug = row[i].slug /\ row'[i].repo = row[i].repo
                           /\ row'[i].origin = row[i].origin /\ row'[i].group = row[i].group
                           /\ row'[i].cluster = row[i].cluster

\* Unchanged rows are alike.
LEMMA SameAlike == UNCHANGED <<row, last>> => Alike
  BY DEF Alike

\* Alike rows are as sound.
LEMMA RowsStay ==
    ASSUME RowsSound, Alike
    PROVE  RowsSound'
  BY DEF RowsSound, Alike, Present

\* The requests stay sound if the one that goes on does.
LEMMA RequestsStay ==
    ASSUME Ind, NEW r \in Requests, NEW q, Moves(r, q), Alike, UNCHANGED fullPath,
           Shaped(q), Agrees(q), ReadsPath(q)
    PROVE  RequestsSound'
  <1> SUFFICES ASSUME NEW x \in Requests
               PROVE  (Shaped(req[x]) /\ Agrees(req[x]) /\ ReadsPath(req[x]))'
    BY DEF RequestsSound
  <1>1. PICK y \in RequestStates : y = req'[x] /\ Shaped(y) /\ Agrees(y) /\ ReadsPath(y)
    BY MovesIs DEF Ind, TypeOK, RequestsSound, Moves
  <1>2. mishaps \subseteq mishaps'
    BY DEF Moves
  <1>3. Shaped(req[x])'
    BY <1>1 DEF Shaped, Alike
  <1>4. Agrees(req[x])'
    <2>1. y.pc \in {"env"} \cup Makers \cup DeletePcs => y.id \in Ids
      BY <1>1, StateIs DEF Shaped, Ids, Ind, TypeOK
    <2> QED
      BY <1>1, <1>2, <2>1 DEF Agrees, Alike, Present, Without
  <1>5. ReadsPath(req[x])'
    BY <1>1, <1>2 DEF ReadsPath, Without
  <1> QED
    BY <1>3, <1>4, <1>5

\* Pipelines stay sound with their rows and projects.
LEMMA PipelinesStay ==
    ASSUME Ind, Alike, UNCHANGED project, mishaps \subseteq mishaps'
    PROVE  PipelinesSound'
  <1> SUFFICES ASSUME NEW p \in Projects
               PROVE  /\ project[p].ci # 0 => /\ project[p].ci <= last
                                              /\ Present(project[p].ci)' => Reports(p, project[p].ci)'
                      /\ ~project[p].exists => project[p].ci = 0 /\ ~project[p].template
    BY DEF PipelinesSound, Alike
  <1>1. project[p].ci \in 0 .. MaxApps
    BY DEF Ind, TypeOK, ProjectStates
  <1>2. project[p].ci # 0 => project[p].ci \in Ids
    BY <1>1, ConstantsAre DEF Ids
  <1> QED
    BY <1>2 DEF Ind, PipelinesSound, Reports, Alike, Present, Without

\* A deletion that goes on stays one, or stops before the row.
Persists(r, q) ==
    req[r].pc \in DeletePcs => (q.pc \in DeletePcs /\ q.id = req[r].id) \/ "stuck" \in mishaps'

\* What is being deleted stays so.
LEMMA DeletionsStay ==
    ASSUME TypeOK, NEW r \in Requests, NEW q, Goes(r, q), Persists(r, q), NEW i, BeingDeleted(i)
    PROVE  BeingDeleted(i)' \/ "stuck" \in mishaps'
  BY MovesIs DEF BeingDeleted, Persists

\* The projects of scaffolds that save stay filled.
LEMMA FilledStay ==
    ASSUME Ind, NEW r \in Requests, NEW q, Moves(r, q), UNCHANGED project,
           q.pc = "save" => q.origin # "scaffolded"
    PROVE  Filled'
  BY MovesIs, MishapsGrow DEF Filled, Ind, Moves

\* Injected pipelines stay with their applications.
LEMMA InjectedStay ==
    ASSUME Ind, NEW r \in Requests, NEW q, Moves(r, q), Alike, UNCHANGED project,
           Persists(r, q), q.pc = "ci" /\ q.ok => q.origin # "scaffolded"
    PROVE  Injected'
  <1> SUFFICES ASSUME NEW x \in Requests, req'[x].pc = "ci", req'[x].ok,
                      req'[x].origin = "scaffolded", Present(req[x].id)',
                      ~BeingDeleted(req[x].id)', Unhurt'
               PROVE  project[req'[x].repo].ci = req'[x].id
    BY DEF Injected, Unhurt
  <1>1. x # r /\ req'[x] = req[x]
    BY MovesIs DEF Ind, Moves
  <1>2. PICK y \in RequestStates : y = req[x]
    BY DEF Ind, TypeOK
  <1>3. y.id \in Ids
    BY <1>1, <1>2, StateIs, ConstantsAre DEF Ind, TypeOK, RequestsSound, Shaped, Ids, Makers
  <1>4. Present(y.id) /\ ~BeingDeleted(y.id)
    <2>1. Present(y.id)' /\ ~BeingDeleted(y.id)'
      BY <1>1, <1>2
    <2> QED
      BY <2>1, <1>3, DeletionsStay DEF Alike, Present, Unhurt, Without, Ind, Moves
  <1>5. Unhurt
    BY DEF Unhurt, Without, Moves
  <1> QED
    BY <1>1, <1>2, <1>4, <1>5 DEF Ind, Injected, Unhurt

\* Sound projects stay so.
LEMMA SoundStay ==
    ASSUME Ind, NEW r \in Requests, NEW q, Moves(r, q), UNCHANGED <<row, project>>,
           Persists(r, q)
    PROVE  ScaffoldedProjectSound'
  <1> SUFFICES ASSUME NEW i \in Ids, Present(i)', row'[i].origin = "scaffolded",
                      ~BeingDeleted(i)', Unhurt'
               PROVE  ProjectSound(i)'
    BY DEF ScaffoldedProjectSound, Unhurt
  <1>1. ~BeingDeleted(i) /\ Unhurt
    BY DeletionsStay DEF Ind, Moves, Unhurt, Without
  <1> QED
    BY <1>1 DEF Ind, ScaffoldedProjectSound, Unhurt, ProjectSound, Present

\* Keys stay written while whoever writes them goes on.
LEMMA KeysStay ==
    ASSUME Ind, NEW r \in Requests, NEW q, Moves(r, q), Alike, UNCHANGED <<fullPath, secretFile>>,
           Persists(r, q),
           Steady' => \A i \in Ids, e \in Envs : Awaits(req[r], i, e) /\ Present(i) => Awaits(q, i, e)
    PROVE  KeysWritten'
  <1> SUFFICES ASSUME Steady', NEW i \in Ids, NEW e \in Envs, Present(i)', ~BeingDeleted(i)',
                      \A x \in Requests : ~Awaits(req'[x], i, e)
               PROVE  KeyOf(i, e)' = fullPath'[row'[i].group]
    BY DEF KeysWritten, Steady, Awaits
  <1>1. Present(i) /\ ~BeingDeleted(i) /\ Steady
    BY DeletionsStay DEF Ind, Moves, Steady, Without, Alike, Present
  <1>2. \A x \in Requests : ~Awaits(req[x], i, e)
    BY <1>1, MovesIs DEF Ind, Moves
  <1>3. KeyOf(i, e) = fullPath[row[i].group]
    BY <1>1, <1>2 DEF Ind, KeysWritten, Steady
  <1> QED
    BY <1>3 DEF KeyOf, Alike

-----------------------------------------------------------------------------
(***************************************************************************)
(* What keeps the leftovers.                                               *)
(***************************************************************************)

\* r comes to P only from P, with the same application.
Advances(r, q, P) == q.pc \in P => req[r].pc \in P /\ req[r].id = q.id

\* An application keeps what it has unless r is what takes it.
LEMMA KeepsStays ==
    ASSUME TypeOK, NEW r \in Requests, NEW q, Goes(r, q), Alike, NEW P,
           NEW i \in Ids, NEW s, Keeps(i, s, P), q.id # i \/ Advances(r, q, P)
    PROVE  Keeps(i, s, P)'
  BY MovesIs DEF Keeps, Advances, Alike, Present

\* Files of secrets are kept when none is written.
LEMMA SecretFilesStay ==
    ASSUME TypeOK, NEW r \in Requests, NEW q, Goes(r, q), Alike, UNCHANGED secretFile,
           Advances(r, q, DeletePcs \ {"delApps"}), SecretFilesKept
    PROVE  SecretFilesKept'
  <1> SUFFICES ASSUME NEW f \in Files, secretFile[f] # None
               PROVE  \E i \in Ids : Keeps(i, f[2], DeletePcs \ {"delApps"})' /\ In(i, f[1])'
    BY DEF SecretFilesKept
  <1>1. PICK i \in Ids : Keeps(i, f[2], DeletePcs \ {"delApps"}) /\ In(i, f[1])
    BY DEF SecretFilesKept
  <1>2. Keeps(i, f[2], DeletePcs \ {"delApps"})'
    BY <1>1, KeepsStays
  <1> QED
    BY <1>1, <1>2 DEF In, Alike

\* The values files are kept when none is written.
LEMMA ValuesStay ==
    ASSUME TypeOK, NEW r \in Requests, NEW q, Goes(r, q), Alike, UNCHANGED values,
           Advances(r, q, DeletePcs \ {"delApps"}), ValuesKept
    PROVE  ValuesKept'
  <1> SUFFICES ASSUME NEW f \in values
               PROVE  \E i \in Ids : Keeps(i, f[2], DeletePcs \ {"delApps"})' /\ In(i, f[1])'
    BY DEF ValuesKept
  <1>1. PICK i \in Ids : Keeps(i, f[2], DeletePcs \ {"delApps"}) /\ In(i, f[1])
    BY DEF ValuesKept
  <1>2. Keeps(i, f[2], DeletePcs \ {"delApps"})'
    BY <1>1, KeepsStays
  <1> QED
    BY <1>1, <1>2 DEF In, Alike

\* The directories of ArgoCD are kept when none is written.
LEMMA ArgoStay ==
    ASSUME TypeOK, NEW r \in Requests, NEW q, Goes(r, q), Alike, UNCHANGED argocd,
           Advances(r, q, {"delProject", "delVault", "delRow"}), ArgoKept
    PROVE  ArgoKept'
  <1> SUFFICES ASSUME NEW d \in argocd
               PROVE  \E i \in Ids : /\ Keeps(i, d[2], {"delProject", "delVault", "delRow"})'
                                     /\ In(i, d[1])'
    BY DEF ArgoKept
  <1>1. PICK i \in Ids : Keeps(i, d[2], {"delProject", "delVault", "delRow"}) /\ In(i, d[1])
    BY DEF ArgoKept
  <1>2. Keeps(i, d[2], {"delProject", "delVault", "delRow"})'
    BY <1>1, KeepsStays
  <1> QED
    BY <1>1, <1>2 DEF In, Alike

\* The secrets in Vault are kept when none is written.
LEMMA VaultStay ==
    ASSUME TypeOK, NEW r \in Requests, NEW q, Goes(r, q), Alike, UNCHANGED fullPath,
           vault' \subseteq vault, Advances(r, q, {"delRow"}), VaultKept
    PROVE  VaultKept'
  <1> SUFFICES ASSUME NEW v \in vault
               PROVE  \E i \in Ids : Keeps(i, v[2], {"delRow"})' /\ fullPath[row'[i].group] = v[1]
    BY DEF VaultKept
  <1>1. PICK i \in Ids : Keeps(i, v[2], {"delRow"}) /\ fullPath[row[i].group] = v[1]
    BY DEF VaultKept
  <1>2. Keeps(i, v[2], {"delRow"})'
    BY <1>1, KeepsStays
  <1> QED
    BY <1>1, <1>2 DEF Alike

\* A scaffold with a filled project saves its row or cleans up.
Tidies(q, p) == q.pc \in {"save", "cleanup"} /\ q.repo = p /\ q.origin = "scaffolded"

\* The templates are kept when nobody but r pushes one.
LEMMA TemplatesStay ==
    ASSUME TypeOK, NEW r \in Requests, NEW q, Goes(r, q), Alike,
           \A p \in Projects : project'[p].template => project[p].template \/ Tidies(q, p),
           Advances(r, q, {"delVault", "delRow"}),
           \A p \in Projects : project'[p].template /\ Tidies(req[r], p) => Tidies(q, p),
           TemplatesKept
    PROVE  TemplatesKept'
  <1> SUFFICES ASSUME NEW p \in Projects, project'[p].template
               PROVE  \/ \E i \in Ids : /\ Keeps(i, p[2], {"delVault", "delRow"})'
                                        /\ row'[i].repo = p /\ row'[i].origin = "scaffolded"
                      \/ \E x \in Requests : Tidies(req'[x], p)
    BY DEF TemplatesKept, Tidies
  <1>1. CASE Tidies(q, p) \/ \E x \in Requests : Tidies(req[x], p)
    BY <1>1, MovesIs
  <1>2. CASE \E i \in Ids : /\ Keeps(i, p[2], {"delVault", "delRow"})
                            /\ row[i].repo = p /\ row[i].origin = "scaffolded"
    <2>1. PICK i \in Ids : /\ Keeps(i, p[2], {"delVault", "delRow"})
                           /\ row[i].repo = p /\ row[i].origin = "scaffolded"
      BY <1>2
    <2>2. Keeps(i, p[2], {"delVault", "delRow"})'
      BY <2>1, KeepsStays
    <2> QED
      BY <2>1, <2>2 DEF Alike
  <1> QED
    BY <1>1, <1>2 DEF TemplatesKept, Tidies

-----------------------------------------------------------------------------
(***************************************************************************)
(* Steps that change the state of one request and nothing else.            *)
(***************************************************************************)

\* A note adds kinds of mishap.
LEMMA NoteIs ==
    ASSUME TypeOK, NEW K, Note(K)
    PROVE  mishaps \subseteq mishaps' /\ K \subseteq mishaps' /\ mishaps' \subseteq Kinds
  BY LifecycleConstants DEF Note, TypeOK

\* A conditional note adds its kind when the condition holds.
LEMMA NoteIfIs ==
    ASSUME TypeOK, NEW b \in BOOLEAN, NEW k, NoteIf(b, k)
    PROVE  mishaps \subseteq mishaps' /\ (b => k \in mishaps') /\ mishaps' \subseteq Kinds
  BY NoteIs DEF NoteIf, When

Quiet(r, q) ==
    /\ Moves(r, q) /\ mishaps' \subseteq Kinds /\ started' \in 0 .. MaxStarts
    /\ UNCHANGED <<row, last, project, fullPath, secretFile, values, argocd>>
    /\ vault' \subseteq vault

\* What the parts of the invariant ask of the new state of r.
Fits(r, q) ==
    /\ Shaped(q) /\ Agrees(q) /\ ReadsPath(q) /\ Persists(r, q)
    /\ q.pc = "save" => q.origin # "scaffolded"
    /\ q.pc = "ci" /\ q.ok => q.origin # "scaffolded"
    /\ \/ "fail" \in mishaps'
       \/ /\ \A i \in Ids, e \in Envs : Awaits(req[r], i, e) /\ Present(i) => Awaits(q, i, e)
          /\ q.pc \in DeletePcs => q.pc = "delApps"
          /\ \A p \in Projects : Tidies(req[r], p) => Tidies(q, p)

\* A quiet step of a request that fits preserves the invariant.
LEMMA QuietStep ==
    ASSUME Ind, NEW r \in Requests, NEW q, Quiet(r, q), Fits(r, q)
    PROVE  Ind'
  <1>1. TypeOK'
    BY DEF Ind, TypeOK, Quiet, Moves, Goes
  <1>2. Moves(r, q) /\ Alike
    BY SameAlike DEF Quiet
  <1>3. RowsSound' /\ RequestsSound' /\ PipelinesSound'
    BY <1>2, RowsStay, RequestsStay, PipelinesStay DEF Quiet, Fits, Ind, Moves
  <1>4. Filled' /\ Injected' /\ ScaffoldedProjectSound'
    BY <1>2, FilledStay, InjectedStay, SoundStay DEF Quiet, Fits
  <1>5. KeysWritten'
    BY <1>2, KeysStay DEF Quiet, Fits, Steady, Without
  <1>6. LeftoversKept'
    <2> SUFFICES ASSUME Calm'
                 PROVE  (SecretFilesKept /\ ValuesKept /\ ArgoKept /\ VaultKept /\ TemplatesKept)'
      BY DEF LeftoversKept, Calm
    <2>1. SecretFilesKept /\ ValuesKept /\ ArgoKept /\ VaultKept /\ TemplatesKept
      BY <1>2, MishapsGrow DEF Ind, LeftoversKept, Calm, Moves
    <2>2. "fail" \notin mishaps'
      BY DEF Calm, Without
    <2>3. q.pc \in DeletePcs => q.pc = "delApps"
      BY <2>2 DEF Fits
    <2>4. /\ Advances(r, q, DeletePcs \ {"delApps"}) /\ Advances(r, q, {"delRow"})
          /\ Advances(r, q, {"delProject", "delVault", "delRow"})
          /\ Advances(r, q, {"delVault", "delRow"})
      BY <2>3 DEF Advances, DeletePcs
    <2>5. SecretFilesKept' /\ ValuesKept' /\ ArgoKept' /\ VaultKept'
      BY <1>2, <2>1, <2>4, SecretFilesStay, ValuesStay, ArgoStay, VaultStay
      DEF Ind, Moves, Quiet
    <2>6. TemplatesKept'
      BY <1>2, <2>1, <2>2, <2>4, TemplatesStay DEF Ind, Moves, Quiet, Fits
    <2> QED
      BY <2>5, <2>6
  <1> QED
    BY <1>1, <1>3, <1>4, <1>5, <1>6 DEF Ind

\* A request that is let in fits when it is sound.
LEMMA Begins ==
    ASSUME Ind, NEW r \in Requests, NEW q \in RequestStates, Begin(r, q), Shaped(q), Agrees(q),
           q.pc \notin {"secret", "ci"}, q.pc = "save" => q.origin # "scaffolded",
           q.pc \in DeletePcs => q.pc = "delApps"
    PROVE  Ind'
  <1>1. started' \in 0 .. MaxStarts
    BY ConstantsAre DEF Begin, Ind, TypeOK
  <1>2. Quiet(r, q)
    BY <1>1 DEF Begin, Quiet, Moves, Ind, TypeOK
  <1>3. Fits(r, q)
    BY DEF Begin, Fits, ReadsPath, Persists, Awaits, Tidies, DeletePcs
  <1> QED
    BY <1>2, <1>3, QuietStep

\* A scaffold, an onboarding and an import begin.
LEMMA CreationBegins ==
    ASSUME Ind, NEW r \in Requests, ScaffoldBegins(r) \/ OnboardBegins(r) \/ ImportBegins(r)
    PROVE  Ind'
  <1>1. CASE ScaffoldBegins(r)
    <2>1. PICK s \in Slugs, g \in Groups, c \in Targets :
             Begin(r, [Idle EXCEPT !.pc = "create", !.slug = s, !.group = g,
                       !.repo = <<g, s>>, !.origin = "scaffolded", !.cluster = c])
      BY <1>1 DEF ScaffoldBegins
    <2> DEFINE q == [Idle EXCEPT !.pc = "create", !.slug = s, !.group = g,
                     !.repo = <<g, s>>, !.origin = "scaffolded", !.cluster = c]
    <2>2. q \in RequestStates
      BY FirstAre DEF RequestStates, Projects, Origins, Savers
    <2>3. /\ q.pc = "create" /\ q.slug = s /\ q.group = g /\ q.repo = <<g, s>>
          /\ q.origin = "scaffolded" /\ q.id = 0 /\ ~q.ok
      BY DEF Idle
    <2>4. Begin(r, q)
      BY <2>1
    <2> HIDE DEF q
    <2>5. Shaped(q) /\ Agrees(q)
      BY <2>3 DEF Shaped, Agrees, Savers, Makers, DeletePcs
    <2> QED
      BY <2>2, <2>3, <2>4, <2>5, Begins DEF DeletePcs
  <1>2. CASE OnboardBegins(r)
    <2>1. PICK s \in Slugs, g \in Groups, p \in Projects, c \in Targets, e \in BOOLEAN :
             Begin(r, [Idle EXCEPT !.pc = "save", !.slug = s, !.group = g, !.repo = p,
                       !.origin = "onboarded", !.cluster = c, !.expose = e])
      BY <1>2 DEF OnboardBegins
    <2> DEFINE q == [Idle EXCEPT !.pc = "save", !.slug = s, !.group = g, !.repo = p,
                     !.origin = "onboarded", !.cluster = c, !.expose = e]
    <2>2. q \in RequestStates
      BY FirstAre DEF RequestStates, Projects, Origins, Savers
    <2>3. q.pc = "save" /\ q.origin = "onboarded" /\ q.id = 0 /\ ~q.ok
      BY DEF Idle
    <2>4. Begin(r, q)
      BY <2>1
    <2> HIDE DEF q
    <2>5. Shaped(q) /\ Agrees(q)
      BY <2>3 DEF Shaped, Agrees, Savers, Makers, DeletePcs
    <2> QED
      BY <2>2, <2>3, <2>4, <2>5, Begins DEF DeletePcs
  <1>3. CASE ImportBegins(r)
    <2>1. PICK s \in Slugs, g \in Groups, c \in Targets, e \in BOOLEAN :
             Begin(r, [Idle EXCEPT !.pc = "import", !.slug = s, !.group = g,
                       !.repo = <<g, s>>, !.origin = "imported", !.cluster = c, !.expose = e])
      BY <1>3 DEF ImportBegins
    <2> DEFINE q == [Idle EXCEPT !.pc = "import", !.slug = s, !.group = g,
                     !.repo = <<g, s>>, !.origin = "imported", !.cluster = c, !.expose = e]
    <2>2. q \in RequestStates
      BY FirstAre DEF RequestStates, Projects, Origins, Savers
    <2>3. q.pc = "import" /\ q.origin = "imported" /\ q.id = 0 /\ ~q.ok
      BY DEF Idle
    <2>4. Begin(r, q)
      BY <2>1
    <2> HIDE DEF q
    <2>5. Shaped(q) /\ Agrees(q)
      BY <2>3 DEF Shaped, Agrees, Savers, Makers, DeletePcs
    <2> QED
      BY <2>2, <2>3, <2>4, <2>5, Begins DEF DeletePcs
  <1> QED
    BY <1>1, <1>2, <1>3

\* A row that is there is typed, and its key was given.
LEMMA RowIsTyped ==
    ASSUME Ind, NEW i \in Ids, Present(i)
    PROVE  /\ row[i] \in Rows /\ row[i].slug \in Slugs /\ i \in 1 .. last /\ i \in 0 .. MaxApps
           /\ last \in Nat
  <1>1. row[i] \in Rows /\ i \in 1 .. MaxApps /\ i <= last /\ last \in Nat
    BY ConstantsAre DEF Ind, TypeOK, RowsSound, Ids
  <1>2. row[i].slug \in Slugs
    BY <1>1, RowIs DEF Present
  <1> QED
    BY <1>1, <1>2, ConstantsAre

\* A deletion and a change of variables begin.
LEMMA UseBegins ==
    ASSUME Ind, NEW r \in Requests, DeleteBegins(r) \/ EnvBegins(r)
    PROVE  Ind'
  <1>1. CASE DeleteBegins(r)
    <2>1. PICK i \in Ids :
             /\ Present(i)
             /\ Begin(r, [Idle EXCEPT !.pc = "delApps", !.id = i, !.slug = row[i].slug,
                          !.repo = row[i].repo, !.origin = row[i].origin,
                          !.group = row[i].group, !.cluster = row[i].cluster])
      BY <1>1 DEF DeleteBegins
    <2> DEFINE q == [Idle EXCEPT !.pc = "delApps", !.id = i, !.slug = row[i].slug,
                     !.repo = row[i].repo, !.origin = row[i].origin,
                     !.group = row[i].group, !.cluster = row[i].cluster]
    <2>2. q \in RequestStates
      BY <2>1, FirstAre, RowIsTyped, RowIs DEF RequestStates, DeletePcs
    <2>3. /\ q.pc = "delApps" /\ q.id = i /\ q.slug = row[i].slug /\ q.repo = row[i].repo
          /\ q.origin = row[i].origin /\ q.group = row[i].group /\ q.cluster = row[i].cluster
      BY DEF Idle
    <2>4. Begin(r, q)
      BY <2>1
    <2> HIDE DEF q
    <2>5. Shaped(q) /\ Agrees(q)
      BY <2>1, <2>3, RowIsTyped DEF Shaped, Agrees, Savers, Makers, DeletePcs
    <2> QED
      BY <2>2, <2>3, <2>4, <2>5, Begins DEF DeletePcs
  <1>2. CASE EnvBegins(r)
    <2>1. PICK i \in Ids, e \in Envs :
             /\ Present(i)
             /\ Begin(r, [Idle EXCEPT !.pc = "env", !.id = i, !.slug = row[i].slug,
                          !.group = row[i].group, !.env = e])
      BY <1>2 DEF EnvBegins
    <2> DEFINE q == [Idle EXCEPT !.pc = "env", !.id = i, !.slug = row[i].slug,
                     !.group = row[i].group, !.env = e]
    <2>2. q \in RequestStates
      BY <2>1, FirstAre, RowIsTyped, RowIs DEF RequestStates, DeletePcs
    <2>3. q.pc = "env" /\ q.id = i /\ q.slug = row[i].slug /\ q.group = row[i].group
      BY DEF Idle
    <2>4. Begin(r, q)
      BY <2>1
    <2> HIDE DEF q
    <2>5. Shaped(q) /\ Agrees(q)
      BY <2>1, <2>3, RowIsTyped DEF Shaped, Agrees, Savers, Makers, DeletePcs
    <2> QED
      BY <2>2, <2>3, <2>4, <2>5, Begins DEF DeletePcs
  <1> QED
    BY <1>1, <1>2

\* The fields of an idle request.
LEMMA IdleIs == Idle.pc = "idle" /\ Idle.id = 0 /\ ~Idle.ok
  BY DEF Idle

\* A request that ends fits, unless it was a deletion or still owes a key or
\* a row, and nobody noted it.
LEMMA IdleFits ==
    ASSUME Ind, NEW r \in Requests, req[r].pc \notin DeletePcs \/ "stuck" \in mishaps',
           \/ "fail" \in mishaps'
           \/ /\ \A i \in Ids, e \in Envs : ~(Awaits(req[r], i, e) /\ Present(i))
              /\ req[r].pc \notin {"save", "cleanup"}
    PROVE  Fits(r, Idle)
  BY IdleIs DEF Fits, Shaped, Agrees, ReadsPath, Persists, Tidies, Savers, Makers, DeletePcs

\* A request that ends with nothing else done is quiet.
LEMMA EndsQuietly ==
    ASSUME Ind, NEW r \in Requests, Ends(r), mishaps \subseteq mishaps', mishaps' \subseteq Kinds,
           UNCHANGED <<row, last, project, fullPath, secretFile, values, argocd, vault, started>>
    PROVE  Quiet(r, Idle)
  BY FirstAre DEF Ind, TypeOK, Quiet, Moves, Ends

-----------------------------------------------------------------------------
(***************************************************************************)
(* Steps that change a project.                                            *)
(***************************************************************************)

Projecting(r, q) ==
    /\ Moves(r, q) /\ mishaps' \subseteq Kinds
    /\ UNCHANGED <<row, last, fullPath, secretFile, values, argocd, vault, started>>
    /\ project' \in [Projects -> ProjectStates]
    /\ Shaped(q) /\ Agrees(q) /\ ReadsPath(q) /\ Persists(r, q)
    /\ \A i \in Ids, e \in Envs : Awaits(req[r], i, e) /\ Present(i) => Awaits(q, i, e)
    /\ Advances(r, q, DeletePcs \ {"delApps"}) /\ Advances(r, q, {"delRow"})
    /\ Advances(r, q, {"delProject", "delVault", "delRow"})

\* The parts that say nothing of projects.
LEMMA ProjectStep ==
    ASSUME Ind, NEW r \in Requests, NEW q, Projecting(r, q), Calm' => TemplatesKept',
           PipelinesSound', Filled', Injected', ScaffoldedProjectSound'
    PROVE  Ind'
  <1>1. TypeOK'
    BY DEF Ind, TypeOK, Projecting, Moves, Goes
  <1>2. Moves(r, q) /\ Alike
    BY SameAlike DEF Projecting
  <1>3. RowsSound' /\ RequestsSound'
    BY <1>2, RowsStay, RequestsStay DEF Projecting, Ind
  <1>4. KeysWritten'
    BY <1>2, KeysStay DEF Projecting
  <1>5. LeftoversKept'
    <2> SUFFICES ASSUME Calm'
                 PROVE  (SecretFilesKept /\ ValuesKept /\ ArgoKept /\ VaultKept)'
      BY DEF LeftoversKept, Calm
    <2>1. SecretFilesKept /\ ValuesKept /\ ArgoKept /\ VaultKept
      BY <1>2, MishapsGrow DEF Ind, LeftoversKept, Calm, Moves
    <2> QED
      BY <1>2, <2>1, SecretFilesStay, ValuesStay, ArgoStay, VaultStay DEF Ind, Moves, Projecting
  <1> QED
    BY <1>1, <1>3, <1>4, <1>5 DEF Ind

\* The fields of a new project.
LEMMA FreshIs ==
    /\ [Absent EXCEPT !.exists = TRUE].exists /\ ~[Absent EXCEPT !.exists = TRUE].template
    /\ [Absent EXCEPT !.exists = TRUE].ci = 0
    /\ ~Absent.exists /\ ~Absent.template /\ Absent.ci = 0
  BY DEF Absent

\* A project that was not there is made.
LEMMA FreshStep ==
    ASSUME Ind, NEW r \in Requests, NEW q, Moves(r, q), mishaps' \subseteq Kinds,
           UNCHANGED <<row, last, fullPath, secretFile, values, argocd, vault, started>>,
           NEW p \in Projects, ~project[p].exists, project' = create_project(p),
           req[r].pc \in {"create", "import"}, Shaped(q), Agrees(q), ReadsPath(q),
           q.pc \notin DeletePcs \cup {"ci"}, q.pc = "save" => q.origin # "scaffolded"
    PROVE  Ind'
  <1> DEFINE new == [Absent EXCEPT !.exists = TRUE]
  <1>1. new \in ProjectStates /\ new.exists /\ ~new.template /\ new.ci = 0
    BY FirstAre, FreshIs
  <1>2. /\ project' \in [Projects -> ProjectStates]
        /\ project'[p] = new /\ \A o \in Projects : o # p => project'[o] = project[o]
    BY <1>1 DEF create_project, Ind, TypeOK
  <1> HIDE DEF new
  <1>3. Projecting(r, q)
    BY <1>2 DEF Projecting, Persists, Advances, DeletePcs, Awaits
  <1>4. \A x \in Requests : x # r => req'[x] = req[x]
    BY MovesIs DEF Ind, Moves
  <1>5. req'[r] = q
    BY MovesIs DEF Ind, Moves
  <1>6. mishaps \subseteq mishaps'
    BY DEF Moves
  <1>7. PipelinesSound'
    <2> SUFFICES ASSUME NEW o \in Projects
                 PROVE  /\ project'[o].ci # 0 => /\ project'[o].ci <= last'
                                                 /\ Present(project[o].ci)' => Reports(o, project[o].ci)'
                        /\ ~project'[o].exists => project'[o].ci = 0 /\ ~project'[o].template
      BY DEF PipelinesSound
    <2>1. CASE o = p
      BY <2>1, <1>1, <1>2
    <2>2. CASE o # p
      BY <2>2, <1>2, <1>6 DEF Ind, PipelinesSound, Present, Reports, Without
    <2> QED
      BY <2>1, <2>2
  <1>8. Filled'
    <2> SUFFICES ASSUME NEW x \in Requests, req'[x].pc = "save", req'[x].origin = "scaffolded",
                        Without({"pulled"})'
                 PROVE  project'[req'[x].repo].exists /\ project'[req'[x].repo].template
      BY DEF Filled
    <2>1. x # r /\ req'[x] = req[x]
      BY <1>4, <1>5
    <2>2. PICK y \in RequestStates : y = req[x]
      BY DEF Ind, TypeOK
    <2>3. project[y.repo].exists /\ project[y.repo].template
      BY <2>1, <2>2, <1>6 DEF Ind, Filled, Without
    <2> QED
      BY <2>1, <2>2, <2>3, <1>2, StateIs
  <1>9. Injected'
    <2> SUFFICES ASSUME NEW x \in Requests, req'[x].pc = "ci", req'[x].ok,
                        req'[x].origin = "scaffolded", Present(req[x].id)',
                        ~BeingDeleted(req[x].id)', Unhurt'
                 PROVE  project'[req'[x].repo].ci = req'[x].id
      BY DEF Injected, Unhurt
    <2>1. x # r /\ req'[x] = req[x]
      BY <1>4, <1>5
    <2>2. PICK y \in RequestStates : y = req[x]
      BY DEF Ind, TypeOK
    <2>3. y.id # 0
      BY <2>1, <2>2, StateIs, ConstantsAre DEF Ind, TypeOK, RequestsSound, Shaped, Makers
    <2>4. Present(y.id) /\ ~BeingDeleted(y.id)
      <3>1. Present(y.id)' /\ ~BeingDeleted(y.id)'
        BY <2>1, <2>2
      <3> QED
        BY <3>1, <1>3, <1>6, DeletionsStay DEF Present, Unhurt, Without, Ind, Moves, Projecting
    <2>5. project[y.repo].ci = y.id
      BY <2>1, <2>2, <2>4, <1>6 DEF Ind, Injected, Unhurt, Without
    <2>6. y.repo # p
      BY <2>5, <2>3 DEF Ind, PipelinesSound
    <2> QED
      BY <2>1, <2>2, <2>5, <2>6, <1>2, StateIs
  <1>10. ScaffoldedProjectSound'
    <2> SUFFICES ASSUME NEW i \in Ids, Present(i)', row'[i].origin = "scaffolded",
                        ~BeingDeleted(i)', Unhurt'
                 PROVE  ProjectSound(i)'
      BY DEF ScaffoldedProjectSound, Unhurt
    <2>1. ~BeingDeleted(i) /\ Unhurt
      BY <1>3, DeletionsStay DEF Ind, Moves, Unhurt, Without, Projecting
    <2>2. ProjectSound(i)
      BY <2>1 DEF Ind, ScaffoldedProjectSound, Unhurt, Present
    <2>3. row[i].repo # p /\ row[i].repo \in Projects
      BY <2>2, RowIs DEF ProjectSound, Ind, TypeOK
    <2> QED
      BY <2>2, <2>3, <1>2 DEF ProjectSound
  <1>11. Calm' => TemplatesKept'
    <2> SUFFICES ASSUME Calm' PROVE TemplatesKept'
      OBVIOUS
    <2>1. TemplatesKept
      BY <1>6, MishapsGrow DEF Ind, LeftoversKept, Calm
    <2>2. Alike /\ Advances(r, q, {"delVault", "delRow"})
      BY SameAlike DEF Advances, DeletePcs
    <2>3. \A o \in Projects : project'[o].template => project[o].template
      BY <1>1, <1>2
    <2> QED
      BY <2>1, <2>2, <2>3, TemplatesStay DEF Tidies, Ind, Moves
  <1> QED
    BY <1>3, <1>7, <1>8, <1>9, <1>10, <1>11, ProjectStep

\* A request that fails or waits for nothing of its own stays sound where it
\* is sent: the facts about the state of r that the lemmas below start from.
LEMMA StandsIs ==
    ASSUME Ind, NEW r \in Requests
    PROVE  /\ req[r] \in RequestStates
           /\ Shaped(req[r]) /\ Agrees(req[r]) /\ ReadsPath(req[r])
  BY DEF Ind, TypeOK, RequestsSound

\* create_project.
LEMMA CreatesProjectStep ==
    ASSUME Ind, NEW r \in Requests, CreatesProject(r)
    PROVE  Ind'
  <1>1. PICK o \in RequestStates : o = req[r] /\ Shaped(o) /\ Agrees(o) /\ o.pc = "create"
    BY StandsIs DEF CreatesProject
  <1> DEFINE q == [o EXCEPT !.pc = "push"]
  <1>2. q \in RequestStates
    BY <1>1 DEF RequestStates, Savers
  <1>3. /\ q.pc = "push" /\ q.id = o.id /\ q.origin = o.origin /\ q.repo = o.repo
        /\ q.group = o.group /\ q.slug = o.slug /\ q.ok = o.ok
    BY DEF RequestStates
  <1>4. req[r] = o /\ (Goes(r, [req[r] EXCEPT !.pc = "push"]) => Goes(r, q))
    BY <1>1
  <1> HIDE DEF q
  <1>5. Shaped(q) /\ Agrees(q) /\ ReadsPath(q)
    BY <1>1, <1>3 DEF Shaped, Agrees, ReadsPath, Savers, Makers, DeletePcs
  <1>6. o.repo \in Projects /\ UNCHANGED started /\ started \in 0 .. MaxStarts /\ mishaps \subseteq Kinds
    BY <1>1, StateIs DEF CreatesProject, Ind, TypeOK
  <1>7. CASE ~project[o.repo].exists /\ project' = create_project(o.repo) /\ Goes(r, q) /\ UNCHANGED mishaps
    <2>1. Moves(r, q)
      BY <1>2, <1>7 DEF Moves
    <2> QED
      BY <1>1, <1>3, <1>5, <1>6, <1>7, <2>1, FreshStep DEF CreatesProject, DeletePcs
  <1>8. CASE Goes(r, q) /\ Note({"reuse"}) /\ UNCHANGED project
    <2>1. Quiet(r, q)
      BY <1>2, <1>6, <1>8, NoteIs DEF Quiet, Moves, CreatesProject, Ind
    <2>2. Fits(r, q)
      BY <1>1, <1>3, <1>5 DEF Fits, Persists, Awaits, Tidies, DeletePcs
    <2> QED
      BY <2>1, <2>2, QuietStep
  <1>9. CASE Ends(r) /\ UNCHANGED <<project, mishaps>>
    <2>1. Quiet(r, Idle)
      BY <1>6, <1>9, EndsQuietly DEF CreatesProject
    <2>2. Fits(r, Idle)
      BY <1>1, IdleFits DEF Awaits, DeletePcs
    <2> QED
      BY <2>1, <2>2, QuietStep
  <1> QED
    BY <1>4, <1>7, <1>8, <1>9 DEF CreatesProject

\* The clone of an import.
LEMMA ImportsProjectStep ==
    ASSUME Ind, NEW r \in Requests, ImportsProject(r)
    PROVE  Ind'
  <1>1. PICK o \in RequestStates : o = req[r] /\ Shaped(o) /\ Agrees(o) /\ o.pc = "import"
    BY StandsIs DEF ImportsProject
  <1> DEFINE q == [o EXCEPT !.pc = "save"]
  <1>2. q \in RequestStates
    BY <1>1 DEF RequestStates, Savers
  <1>3. /\ q.pc = "save" /\ q.id = o.id /\ q.origin = o.origin /\ q.repo = o.repo
        /\ q.group = o.group /\ q.slug = o.slug /\ q.ok = o.ok
    BY DEF RequestStates
  <1>4. req[r] = o /\ (Goes(r, [req[r] EXCEPT !.pc = "save"]) => Goes(r, q))
    BY <1>1
  <1> HIDE DEF q
  <1>5. Shaped(q) /\ Agrees(q) /\ ReadsPath(q)
    BY <1>1, <1>3 DEF Shaped, Agrees, ReadsPath, Savers, Makers, DeletePcs
  <1>6. o.repo \in Projects /\ UNCHANGED started /\ started \in 0 .. MaxStarts /\ mishaps \subseteq Kinds
    BY <1>1, StateIs DEF ImportsProject, Ind, TypeOK
  <1>7. CASE ~project[o.repo].exists /\ project' = create_project(o.repo) /\ Goes(r, q) /\ UNCHANGED mishaps
    <2>1. Moves(r, q)
      BY <1>2, <1>7 DEF Moves
    <2>2. q.origin # "scaffolded"
      BY <1>1, <1>3 DEF Shaped
    <2> QED
      BY <1>1, <1>3, <1>5, <1>6, <1>7, <2>1, <2>2, FreshStep DEF ImportsProject, DeletePcs
  <1>8. CASE ~project[o.repo].exists /\ project' = create_project(o.repo) /\ Ends(r) /\ Note({"fail"})
    <2>1. Moves(r, Idle) /\ mishaps' \subseteq Kinds
      BY <1>8, FirstAre, NoteIs DEF Moves, Ends, Ind
    <2>2. Shaped(Idle) /\ Agrees(Idle) /\ ReadsPath(Idle)
      BY IdleIs DEF Shaped, Agrees, ReadsPath, Savers, Makers, DeletePcs
    <2> QED
      BY <1>1, <1>6, <1>8, <2>1, <2>2, IdleIs, FreshStep DEF ImportsProject, DeletePcs
  <1>9. CASE Ends(r) /\ UNCHANGED <<project, mishaps>>
    <2>1. Quiet(r, Idle)
      BY <1>6, <1>9, EndsQuietly DEF ImportsProject
    <2>2. Fits(r, Idle)
      BY <1>1, IdleFits DEF Awaits, DeletePcs
    <2> QED
      BY <2>1, <2>2, QuietStep
  <1> QED
    BY <1>4, <1>7, <1>8, <1>9 DEF ImportsProject, create_project

\* The files of a scaffold are pushed to its project.
LEMMA TemplateStep ==
    ASSUME Ind, NEW r \in Requests, NEW q, Moves(r, q), UNCHANGED mishaps,
           UNCHANGED <<row, last, fullPath, secretFile, values, argocd, vault, started>>,
           project[q.repo].exists, project' = push_files_batch(q.repo),
           req[r].pc = "push", Shaped(q), Agrees(q), q.pc = "save", q.origin = "scaffolded"
    PROVE  Ind'
  <1> DEFINE p == q.repo
  <1>1. p \in Projects
    BY StateIs DEF Moves
  <1> HIDE DEF p
  <1>2. /\ project' \in [Projects -> ProjectStates]
        /\ \A o \in Projects : /\ project'[o].exists = project[o].exists
                               /\ project'[o].ci = project[o].ci
                               /\ project'[o].target = project[o].target
                               /\ project'[o].template <=> (o = p \/ project[o].template)
    <2>1. project' = [project EXCEPT ![p].template = TRUE]
      BY DEF push_files_batch, p
    <2>2. PICK x \in ProjectStates : x = project[p]
      BY <1>1 DEF Ind, TypeOK
    <2> DEFINE y == [x EXCEPT !.template = TRUE]
    <2>3. /\ y \in ProjectStates /\ y.exists = x.exists /\ y.ci = x.ci /\ y.target = x.target
          /\ y.template
      BY DEF ProjectStates
    <2>4. project' = [project EXCEPT ![p] = y]
      BY <2>1, <2>2
    <2> HIDE DEF y
    <2>5. project' \in [Projects -> ProjectStates] /\ project'[p] = y
      BY <1>1, <2>3, <2>4 DEF Ind, TypeOK
    <2>6. \A o \in Projects : o # p => project'[o] = project[o]
      BY <2>4 DEF Ind, TypeOK
    <2> QED
      BY <2>2, <2>3, <2>5, <2>6
  <1>3. Projecting(r, q)
    BY <1>2 DEF Projecting, Persists, Advances, DeletePcs, Awaits, ReadsPath, Ind, TypeOK
  <1>4. \A x \in Requests : x # r => req'[x] = req[x]
    BY MovesIs DEF Ind, Moves
  <1>5. req'[r] = q
    BY MovesIs DEF Ind, Moves
  <1>6. PipelinesSound'
    <2> SUFFICES ASSUME NEW o \in Projects
                 PROVE  /\ project'[o].ci # 0 => /\ project'[o].ci <= last'
                                                 /\ Present(project[o].ci)' => Reports(o, project[o].ci)'
                        /\ ~project'[o].exists => project'[o].ci = 0 /\ ~project'[o].template
      BY DEF PipelinesSound
    <2>1. /\ project[o].ci # 0 => /\ project[o].ci <= last
                                  /\ Present(project[o].ci) => Reports(o, project[o].ci)
          /\ ~project[o].exists => project[o].ci = 0 /\ ~project[o].template
      BY DEF Ind, PipelinesSound
    <2>2. PICK i : i = project[o].ci /\ i = project'[o].ci
      BY <1>2
    <2>3. Present(i)' => Present(i)
      BY DEF Present
    <2>4. Reports(o, i) => Reports(o, i)'
      BY <1>2 DEF Reports, Without
    <2>5. o = p => project[o].exists
      BY DEF p
    <2> QED
      BY <1>2, <2>1, <2>2, <2>3, <2>4, <2>5
  <1>7. Filled'
    <2> SUFFICES ASSUME NEW x \in Requests, req'[x].pc = "save", req'[x].origin = "scaffolded",
                        Without({"pulled"})'
                 PROVE  project'[req'[x].repo].exists /\ project'[req'[x].repo].template
      BY DEF Filled
    <2>1. CASE x = r
      BY <2>1, <1>1, <1>2, <1>5 DEF p
    <2>2. CASE x # r
      <3>1. PICK y \in RequestStates : y = req[x]
        BY DEF Ind, TypeOK
      <3>2. project[y.repo].exists /\ project[y.repo].template
        BY <2>2, <3>1, <1>4 DEF Ind, Filled, Without
      <3> QED
        BY <2>2, <3>1, <3>2, <1>2, <1>4, StateIs
    <2> QED
      BY <2>1, <2>2
  <1>8. Injected'
    <2> SUFFICES ASSUME NEW x \in Requests, req'[x].pc = "ci", req'[x].ok,
                        req'[x].origin = "scaffolded", Present(req[x].id)',
                        ~BeingDeleted(req[x].id)', Unhurt'
                 PROVE  project'[req'[x].repo].ci = req'[x].id
      BY DEF Injected, Unhurt
    <2>1. x # r /\ req'[x] = req[x]
      BY <1>4, <1>5
    <2>2. PICK y \in RequestStates : y = req[x]
      BY DEF Ind, TypeOK
    <2>3. Present(y.id) /\ ~BeingDeleted(y.id)
      <3>1. Present(y.id)' /\ ~BeingDeleted(y.id)'
        BY <2>1, <2>2
      <3> QED
        BY <3>1, <1>3, DeletionsStay DEF Present, Unhurt, Without, Ind, Moves, Projecting
    <2>4. project[y.repo].ci = y.id
      BY <2>1, <2>2, <2>3 DEF Ind, Injected, Unhurt, Without
    <2> QED
      BY <2>1, <2>2, <2>4, <1>2, StateIs
  <1>9. ScaffoldedProjectSound'
    <2> SUFFICES ASSUME NEW i \in Ids, Present(i)', row'[i].origin = "scaffolded",
                        ~BeingDeleted(i)', Unhurt'
                 PROVE  ProjectSound(i)'
      BY DEF ScaffoldedProjectSound, Unhurt
    <2>1. ~BeingDeleted(i) /\ Unhurt
      BY <1>3, DeletionsStay DEF Ind, Moves, Unhurt, Without, Projecting
    <2>2. ProjectSound(i) /\ row[i].repo \in Projects
      BY <2>1, RowIs DEF Ind, ScaffoldedProjectSound, Unhurt, Present, TypeOK
    <2> QED
      BY <2>2, <1>2 DEF ProjectSound
  <1>10. Calm' => TemplatesKept'
    <2> SUFFICES ASSUME Calm' PROVE TemplatesKept'
      OBVIOUS
    <2>1. TemplatesKept
      BY MishapsGrow DEF Ind, LeftoversKept, Calm
    <2>2. Alike /\ Advances(r, q, {"delVault", "delRow"})
      BY SameAlike DEF Advances, DeletePcs
    <2>3. \A o \in Projects : project'[o].template => project[o].template \/ Tidies(q, o)
      BY <1>2 DEF Tidies, p
    <2> QED
      BY <2>1, <2>2, <2>3, TemplatesStay DEF Tidies, Ind, Moves
  <1> QED
    BY <1>3, <1>6, <1>7, <1>8, <1>9, <1>10, ProjectStep

\* PushesTemplate.
LEMMA PushesTemplateStep ==
    ASSUME Ind, NEW r \in Requests, PushesTemplate(r)
    PROVE  Ind'
  <1>1. PICK o \in RequestStates : o = req[r] /\ Shaped(o) /\ Agrees(o) /\ o.pc = "push"
    BY StandsIs DEF PushesTemplate
  <1> DEFINE q == [o EXCEPT !.pc = "save"]
  <1>2. q \in RequestStates
    BY <1>1 DEF RequestStates, Savers
  <1>3. /\ q.pc = "save" /\ q.id = o.id /\ q.origin = o.origin /\ q.repo = o.repo
        /\ q.group = o.group /\ q.slug = o.slug /\ q.ok = o.ok
    BY DEF RequestStates
  <1>4. req[r] = o /\ (Goes(r, [req[r] EXCEPT !.pc = "save"]) => Goes(r, q))
    BY <1>1
  <1> HIDE DEF q
  <1>5. Shaped(q) /\ Agrees(q) /\ q.origin = "scaffolded"
    BY <1>1, <1>3 DEF Shaped, Agrees, Savers, Makers, DeletePcs
  <1>6. CASE project[o.repo].exists /\ project' = push_files_batch(o.repo) /\ Goes(r, q) /\ UNCHANGED mishaps
    <2>1. Moves(r, q)
      BY <1>2, <1>6 DEF Moves
    <2> QED
      BY <1>1, <1>3, <1>5, <1>6, <2>1, TemplateStep DEF PushesTemplate
  <1>7. CASE Ends(r) /\ Note({"fail"}) /\ UNCHANGED project
    <2>1. Quiet(r, Idle) /\ "fail" \in mishaps'
      BY <1>7, EndsQuietly, NoteIs DEF PushesTemplate, Ind
    <2>2. Fits(r, Idle)
      BY <1>1, <2>1, IdleFits DEF DeletePcs
    <2> QED
      BY <2>1, <2>2, QuietStep
  <1> QED
    BY <1>4, <1>6, <1>7 DEF PushesTemplate, AfterFailedPush, Ends

\* A project is deleted; whoever still needs it is being deleted, or the
\* removal is noted.
LEMMA RemovalStep ==
    ASSUME Ind, NEW r \in Requests, NEW q, Projecting(r, q), NEW p \in Projects,
           project' = delete_project(p), q.pc \notin {"save", "ci"},
           Filling(p, r) => "pulled" \in mishaps',
           \A i \in Ids : Present(i) /\ row[i].repo = p
               => BeingDeleted(i)' \/ "pulled" \in mishaps' \/ "late" \in mishaps',
           Calm' => TemplatesKept'
    PROVE  Ind'
  <1>1. /\ project'[p] = Absent /\ \A o \in Projects : o # p => project'[o] = project[o]
    BY DEF delete_project, Ind, TypeOK
  <1>2. ~Absent.exists /\ ~Absent.template /\ Absent.ci = 0
    BY FreshIs
  <1>3. \A x \in Requests : x # r => req'[x] = req[x]
    BY MovesIs DEF Ind, Moves, Projecting
  <1>4. req'[r] = q
    BY MovesIs DEF Ind, Moves, Projecting
  <1>5. mishaps \subseteq mishaps' /\ UNCHANGED <<row, last>>
    BY DEF Moves, Projecting
  <1>6. PipelinesSound'
    <2> SUFFICES ASSUME NEW o \in Projects
                 PROVE  /\ project'[o].ci # 0 => /\ project'[o].ci <= last'
                                                 /\ Present(project[o].ci)' => Reports(o, project[o].ci)'
                        /\ ~project'[o].exists => project'[o].ci = 0 /\ ~project'[o].template
      BY DEF PipelinesSound
    <2>1. CASE o = p
      BY <2>1, <1>1, <1>2
    <2>2. CASE o # p
      BY <2>2, <1>1, <1>5 DEF Ind, PipelinesSound, Present, Reports, Without
    <2> QED
      BY <2>1, <2>2
  <1>7. Filled'
    <2> SUFFICES ASSUME NEW x \in Requests, req'[x].pc = "save", req'[x].origin = "scaffolded",
                        Without({"pulled"})'
                 PROVE  project'[req'[x].repo].exists /\ project'[req'[x].repo].template
      BY DEF Filled
    <2>1. x # r /\ req'[x] = req[x]
      BY <1>3, <1>4
    <2>2. PICK y \in RequestStates : y = req[x]
      BY DEF Ind, TypeOK
    <2>3. project[y.repo].exists /\ project[y.repo].template
      BY <2>1, <2>2, <1>5 DEF Ind, Filled, Without
    <2>4. y.repo # p
      BY <2>1, <2>2 DEF Filling, Without
    <2> QED
      BY <2>1, <2>2, <2>3, <2>4, <1>1, StateIs
  <1>8. Injected'
    <2> SUFFICES ASSUME NEW x \in Requests, req'[x].pc = "ci", req'[x].ok,
                        req'[x].origin = "scaffolded", Present(req[x].id)',
                        ~BeingDeleted(req[x].id)', Unhurt'
                 PROVE  project'[req'[x].repo].ci = req'[x].id
      BY DEF Injected, Unhurt
    <2>1. x # r /\ req'[x] = req[x]
      BY <1>3, <1>4
    <2>2. PICK y \in RequestStates : y = req[x] /\ Shaped(y) /\ Agrees(y)
      BY StandsIs
    <2>3. y.id \in Ids
      BY <2>1, <2>2, StateIs, ConstantsAre DEF Shaped, Ids, Makers
    <2>4. Present(y.id)' /\ ~BeingDeleted(y.id)'
      BY <2>1, <2>2
    <2>5. Present(y.id) /\ ~BeingDeleted(y.id)
      BY <2>4, <1>5, DeletionsStay DEF Present, Unhurt, Without, Ind, Moves, Projecting
    <2>6. project[y.repo].ci = y.id
      BY <2>1, <2>2, <2>5, <1>5 DEF Ind, Injected, Unhurt, Without
    <2>7. row[y.id].repo = y.repo
      BY <2>1, <2>2, <2>5 DEF Agrees, Makers
    <2>8. y.repo # p
      BY <2>3, <2>4, <2>5, <2>7 DEF Unhurt, Without
    <2> QED
      BY <2>1, <2>2, <2>6, <2>8, <1>1, StateIs
  <1>9. ScaffoldedProjectSound'
    <2> SUFFICES ASSUME NEW i \in Ids, Present(i)', row'[i].origin = "scaffolded",
                        ~BeingDeleted(i)', Unhurt'
                 PROVE  ProjectSound(i)'
      BY DEF ScaffoldedProjectSound, Unhurt
    <2>1. ~BeingDeleted(i) /\ Unhurt
      BY <1>5, DeletionsStay DEF Ind, Moves, Unhurt, Without, Projecting
    <2>2. ProjectSound(i) /\ Present(i)
      BY <2>1, <1>5 DEF Ind, ScaffoldedProjectSound, Unhurt, Present
    <2>3. row[i].repo # p /\ row[i].repo \in Projects
      BY <2>2, RowIs DEF Ind, TypeOK, Unhurt, Without
    <2> QED
      BY <2>2, <2>3, <1>1, <1>5 DEF ProjectSound
  <1> QED
    BY <1>6, <1>7, <1>8, <1>9, ProjectStep

\* cleanup_project.
LEMMA CleansUpStep ==
    ASSUME Ind, NEW r \in Requests, CleansUp(r)
    PROVE  Ind'
  <1>1. PICK o \in RequestStates : o = req[r] /\ o.pc = "cleanup"
    BY StandsIs DEF CleansUp
  <1>2. o.repo \in Projects /\ Ends(r) /\ mishaps \subseteq mishaps' /\ mishaps' \subseteq Kinds
    <2>1. mishaps \subseteq mishaps' /\ mishaps' \subseteq Kinds
      BY NoteIs DEF CleansUp, NoteIf, Ind
    <2> QED
      BY <1>1, <2>1, StateIs DEF CleansUp
  <1>3. CASE Note({"fail"}) /\ UNCHANGED project
    <2>1. Quiet(r, Idle) /\ "fail" \in mishaps'
      BY <1>2, <1>3, EndsQuietly, NoteIs DEF CleansUp, Ind
    <2>2. Fits(r, Idle)
      BY <1>1, <2>1, IdleFits DEF DeletePcs
    <2> QED
      BY <2>1, <2>2, QuietStep
  <1>4. CASE /\ project' = delete_project(o.repo)
             /\ NoteIf(\/ Filling(o.repo, r)
                       \/ \E i \in Ids : Present(i) /\ row[i].repo = o.repo, "pulled")
    <2>1. (Filling(o.repo, r) \/ \E i \in Ids : Present(i) /\ row[i].repo = o.repo)
             => "pulled" \in mishaps'
      BY <1>4, NoteIfIs DEF Ind
    <2>2. project' \in [Projects -> ProjectStates] /\ ~project'[o.repo].template
      BY <1>2, <1>4, FirstAre, FreshIs DEF delete_project, Ind, TypeOK
    <2>3. Moves(r, Idle)
      BY <1>2, FirstAre DEF Moves, Ends
    <2>4. Projecting(r, Idle)
      BY <1>1, <1>2, <2>2, <2>3, IdleIs
      DEF Projecting, Shaped, Agrees, ReadsPath, Persists, Awaits, Advances, Savers, Makers,
          DeletePcs, CleansUp
    <2>5. Calm' => TemplatesKept'
      <3> SUFFICES ASSUME Calm' PROVE TemplatesKept'
        OBVIOUS
      <3>1. TemplatesKept
        BY <1>2, MishapsGrow DEF Ind, LeftoversKept, Calm
      <3>2. Alike /\ Advances(r, Idle, {"delVault", "delRow"})
        BY SameAlike, IdleIs DEF Advances, CleansUp
      <3>3. \A p \in Projects : project'[p].template => project[p].template
        BY <1>4, <2>2 DEF delete_project, Ind, TypeOK
      <3>4. \A p \in Projects : project'[p].template => ~Tidies(req[r], p)
        BY <1>1, <2>2 DEF Tidies
      <3> QED
        BY <2>3, <3>1, <3>2, <3>3, <3>4, TemplatesStay DEF Ind, Moves
    <2> QED
      BY <1>2, <1>4, <2>1, <2>4, <2>5, IdleIs, RemovalStep
  <1> QED
    BY <1>1, <1>3, <1>4 DEF CleansUp

-----------------------------------------------------------------------------
(***************************************************************************)
(* Deletion.                                                               *)
(***************************************************************************)

\* The state of a deletion that goes on.
GoesOn(r, q, pc) ==
    /\ Goes(r, q) /\ q \in RequestStates /\ q.pc = pc
    /\ q.id = req[r].id /\ q.slug = req[r].slug /\ q.repo = req[r].repo
    /\ q.origin = req[r].origin /\ q.group = req[r].group /\ q.cluster = req[r].cluster
    /\ Shaped(q) /\ Agrees(q) /\ ReadsPath(q) /\ Persists(r, q)

\* A deletion goes on with what it has read.
LEMMA DeletionGoesOn ==
    ASSUME Ind, NEW r \in Requests, NEW pc \in DeletePcs, req[r].pc \in DeletePcs, Step(r, pc),
           pc = "delProject" => req[r].origin = "scaffolded"
    PROVE  \E q : GoesOn(r, q, pc)
  <1>1. PICK o \in RequestStates : o = req[r] /\ Shaped(o) /\ Agrees(o)
    BY StandsIs
  <1> DEFINE q == [o EXCEPT !.pc = pc]
  <1>2. q \in RequestStates
    BY <1>1 DEF RequestStates
  <1>3. /\ q.pc = pc /\ q.id = o.id /\ q.origin = o.origin /\ q.repo = o.repo
        /\ q.group = o.group /\ q.slug = o.slug /\ q.ok = o.ok /\ q.cluster = o.cluster
    BY DEF RequestStates
  <1>4. Goes(r, q)
    BY <1>1 DEF Step
  <1> HIDE DEF q
  <1>5. Shaped(q) /\ Agrees(q) /\ ReadsPath(q) /\ Persists(r, q)
    BY <1>1, <1>3 DEF Shaped, Agrees, ReadsPath, Persists, Savers, Makers, DeletePcs
  <1>6. GoesOn(r, q, pc)
    BY <1>1, <1>2, <1>3, <1>4, <1>5 DEF GoesOn
  <1> QED
    BY <1>6

\* A deletion step that fails.
LEMMA DeletionFails ==
    ASSUME Ind, NEW r \in Requests, NEW q, NEW pc \in DeletePcs, req[r].pc \in DeletePcs,
           GoesOn(r, q, pc), Note({"fail"}), vault' \subseteq vault,
           UNCHANGED <<row, last, project, fullPath, secretFile, values, argocd, started>>
    PROVE  Ind'
  <1>1. mishaps \subseteq mishaps' /\ "fail" \in mishaps' /\ mishaps' \subseteq Kinds
    BY NoteIs DEF Ind
  <1>2. Quiet(r, q)
    BY <1>1 DEF Quiet, Moves, GoesOn, Ind, TypeOK
  <1>3. Fits(r, q)
    BY <1>1 DEF Fits, GoesOn, DeletePcs
  <1> QED
    BY <1>2, <1>3, QuietStep

\* The row of an application that is deleted agrees with the request.
LEMMA DeletedAgrees ==
    ASSUME Ind, NEW r \in Requests, req[r].pc \in DeletePcs
    PROVE  /\ req[r].id \in Ids
           /\ Present(req[r].id) =>
                 /\ row[req[r].id].slug = req[r].slug /\ row[req[r].id].group = req[r].group
                 /\ row[req[r].id].repo = req[r].repo /\ row[req[r].id].origin = req[r].origin
                 /\ Without({"moved"}) => row[req[r].id].cluster = req[r].cluster
  <1>1. PICK o \in RequestStates : o = req[r] /\ Shaped(o) /\ Agrees(o)
    BY StandsIs
  <1>2. o.id \in Ids
    BY <1>1, StateIs, ConstantsAre DEF Shaped, Ids, Ind, TypeOK
  <1> QED
    BY <1>1, <1>2 DEF Agrees, DeletePcs

\* DeletesProject.
LEMMA DeletesProjectStep ==
    ASSUME Ind, NEW r \in Requests, DeletesProject(r)
    PROVE  Ind'
  <1>1. req[r].pc = "delProject" /\ req[r].pc \in DeletePcs /\ "delVault" \in DeletePcs
    BY DEF DeletesProject, DeletePcs
  <1>2. PICK q : GoesOn(r, q, "delVault")
    BY <1>1, DeletionGoesOn DEF DeletesProject
  <1>3. CASE UNCHANGED project /\ Note({"fail"})
    BY <1>1, <1>2, <1>3, DeletionFails DEF DeletesProject
  <1>4. CASE /\ project' = delete_project(req[r].repo)
             /\ Note(When(Filling(req[r].repo, r), "pulled") \cup When(~Present(req[r].id), "late"))
    <2>1. PICK p \in Projects : p = req[r].repo
      BY StandsIs, StateIs
    <2>2. /\ mishaps \subseteq mishaps' /\ mishaps' \subseteq Kinds
          /\ Filling(p, r) => "pulled" \in mishaps'
          /\ ~Present(req[r].id) => "late" \in mishaps'
      BY <1>4, <2>1, NoteIs DEF Ind, When
    <2>3. project' = delete_project(p)
      BY <1>4, <2>1
    <2>4. project' \in [Projects -> ProjectStates] /\ ~project'[p].template
      BY <2>3, FirstAre, FreshIs DEF delete_project, Ind, TypeOK
    <2>5. Projecting(r, q)
      BY <1>1, <1>2, <2>2, <2>4
      DEF Projecting, GoesOn, Moves, Awaits, Advances, DeletePcs, DeletesProject
    <2>6. \A i \in Ids : Present(i) /\ row[i].repo = p => BeingDeleted(i)' \/ "late" \in mishaps'
      <3> SUFFICES ASSUME NEW i \in Ids, Present(i), row[i].repo = p, "late" \notin mishaps'
                   PROVE  BeingDeleted(i)'
        OBVIOUS
      <3>1. req[r].id \in Ids /\ Present(req[r].id) /\ row[req[r].id].repo = p
        BY <1>1, <2>1, <2>2, DeletedAgrees
      <3>2. i = req[r].id
        BY <3>1 DEF Ind, RowsSound
      <3>3. req'[r] = q
        BY <1>2, MovesIs DEF GoesOn, Ind
      <3> QED
        BY <1>2, <3>2, <3>3 DEF BeingDeleted, GoesOn, DeletePcs
    <2>7. Calm' => TemplatesKept'
      <3> SUFFICES ASSUME Calm', NEW o \in Projects, project'[o].template
                   PROVE  \/ \E i \in Ids : /\ Keeps(i, o[2], {"delVault", "delRow"})'
                                            /\ row'[i].repo = o /\ row'[i].origin = "scaffolded"
                          \/ \E x \in Requests : Tidies(req'[x], o)
        BY DEF TemplatesKept, Tidies
      <3>1. TemplatesKept
        BY <2>2, MishapsGrow DEF Ind, LeftoversKept, Calm
      <3>2. o # p /\ project[o].template
        BY <2>3, <2>4 DEF delete_project, Ind, TypeOK
      <3>3. CASE \E x \in Requests : Tidies(req[x], o)
        <4>1. PICK x \in Requests : Tidies(req[x], o)
          BY <3>3
        <4>2. x # r
          BY <1>1, <4>1 DEF Tidies
        <4> QED
          BY <1>2, <4>1, <4>2, MovesIs DEF GoesOn, Ind
      <3>4. CASE \E i \in Ids : /\ Keeps(i, o[2], {"delVault", "delRow"})
                                /\ row[i].repo = o /\ row[i].origin = "scaffolded"
        <4>1. PICK i \in Ids : /\ Keeps(i, o[2], {"delVault", "delRow"})
                               /\ row[i].repo = o /\ row[i].origin = "scaffolded"
          BY <3>4
        <4>2. q.id # i
          BY <1>1, <1>2, <2>1, <3>2, <4>1, DeletedAgrees DEF GoesOn, Keeps
        <4>3. Alike
          BY SameAlike DEF DeletesProject
        <4>4. Keeps(i, o[2], {"delVault", "delRow"})'
          BY <1>2, <4>1, <4>2, <4>3, KeepsStays DEF GoesOn, Ind
        <4> QED
          BY <4>1, <4>4 DEF DeletesProject
      <3> QED
        BY <3>1, <3>2, <3>3, <3>4 DEF TemplatesKept, Tidies
    <2>8. q.pc \notin {"save", "ci"}
      BY <1>2 DEF GoesOn
    <2> QED
      BY <2>2, <2>3, <2>5, <2>6, <2>7, <2>8, RemovalStep
  <1> QED
    BY <1>3, <1>4 DEF DeletesProject, Attempt

-----------------------------------------------------------------------------
(***************************************************************************)
(* The pipeline of a new application.                                      *)
(***************************************************************************)

\* The pipeline of application q.id is pushed to its project.
LEMMA PipelineStep ==
    ASSUME Ind, NEW r \in Requests, NEW q, Moves(r, q), UNCHANGED mishaps,
           UNCHANGED <<row, last, fullPath, secretFile, values, argocd, vault, started>>,
           project[q.repo].exists, project[q.repo].ci = 0,
           project' = [project EXCEPT ![q.repo].ci = q.id,
                                      ![q.repo].target = ClusterName(q.cluster)],
           req[r].pc = "inject", req[r].id = q.id,
           Shaped(q), Agrees(q), q.pc = "ci", q.origin = "scaffolded"
    PROVE  Ind'
  <1>1. PICK p \in Projects : p = q.repo
    BY StateIs DEF Moves
  <1>2. /\ q.id \in Ids /\ q.id \in 0 .. MaxApps /\ q.id # 0 /\ q.id <= last
        /\ ClusterName(q.cluster) \in Dirs
    BY StateIs, ConstantsAre, ClusterNameIs DEF Moves, Shaped, Ids, Makers, Ind, TypeOK
  <1>3. PICK x \in ProjectStates : x = project[p] /\ x.ci = 0 /\ x.exists
    BY <1>1 DEF Ind, TypeOK
  <1> DEFINE y == [x EXCEPT !.ci = q.id, !.target = ClusterName(q.cluster)]
  <1>4. /\ y.exists /\ y.template = x.template /\ y.ci = q.id /\ y.target = ClusterName(q.cluster)
    BY <1>3 DEF ProjectStates
  <1>5. y \in ProjectStates
    BY <1>2, <1>3 DEF ProjectStates
  <1>6. project' = [project EXCEPT ![p] = y]
    <2>1. project' = [project EXCEPT ![p].ci = q.id, ![p].target = ClusterName(q.cluster)]
      BY <1>1
    <2>2. project \in [Projects -> ProjectStates]
      BY DEF Ind, TypeOK
    <2>3. DOMAIN project' = Projects /\ \A o \in Projects : project'[o] = IF o = p THEN y ELSE project[o]
      BY <2>1, <2>2, <1>3
    <2>4. project' = [o \in Projects |-> project'[o]]
      BY <2>1, <2>2
    <2> QED
      BY <2>2, <2>3, <2>4
  <1> HIDE DEF y
  <1>7. /\ project' \in [Projects -> ProjectStates] /\ project'[p] = y
        /\ \A o \in Projects : o # p => project'[o] = project[o]
    BY <1>5, <1>6 DEF Ind, TypeOK
  <1>8. Projecting(r, q)
    BY <1>7 DEF Projecting, Persists, Advances, DeletePcs, Awaits, ReadsPath, Ind, TypeOK
  <1>9. \A o \in Requests : o # r => req'[o] = req[o]
    BY MovesIs DEF Ind, Moves
  <1>10. req'[r] = q
    BY MovesIs DEF Ind, Moves
  <1>11. PipelinesSound'
    <2> SUFFICES ASSUME NEW o \in Projects
                 PROVE  /\ project'[o].ci # 0 => /\ project'[o].ci <= last'
                                                 /\ Present(project[o].ci)' => Reports(o, project[o].ci)'
                        /\ ~project'[o].exists => project'[o].ci = 0 /\ ~project'[o].template
      BY DEF PipelinesSound
    <2>1. CASE o = p
      <3>1. Present(q.id) => Reports(p, q.id)'
        BY <1>1, <1>4, <1>7 DEF Agrees, Reports, Without, Makers
      <3>2. Present(q.id)' => Present(q.id)
        BY DEF Present
      <3> QED
        BY <2>1, <3>1, <3>2, <1>2, <1>4, <1>7
    <2>2. CASE o # p
      <3>1. PICK i : i = project[o].ci /\ i = project'[o].ci /\ project'[o] = project[o]
        BY <2>2, <1>7
      <3>2. /\ i # 0 => i <= last /\ (Present(i) => Reports(o, i))
            /\ ~project[o].exists => i = 0 /\ ~project[o].template
        BY <3>1 DEF Ind, PipelinesSound
      <3>3. Present(i)' => Present(i)
        BY DEF Present
      <3>4. Reports(o, i) => Reports(o, i)'
        BY <3>1 DEF Reports, Without
      <3> QED
        BY <3>1, <3>2, <3>3, <3>4
    <2> QED
      BY <2>1, <2>2
  <1>12. Filled'
    <2> SUFFICES ASSUME NEW z \in Requests, req'[z].pc = "save", req'[z].origin = "scaffolded",
                        Without({"pulled"})'
                 PROVE  project'[req'[z].repo].exists /\ project'[req'[z].repo].template
      BY DEF Filled
    <2>1. z # r /\ req'[z] = req[z]
      BY <1>9, <1>10
    <2>2. PICK w \in RequestStates : w = req[z]
      BY DEF Ind, TypeOK
    <2>3. project[w.repo].exists /\ project[w.repo].template
      BY <2>1, <2>2 DEF Ind, Filled, Without
    <2> QED
      BY <2>1, <2>2, <2>3, <1>3, <1>4, <1>7, StateIs
  <1>13. Injected'
    <2> SUFFICES ASSUME NEW z \in Requests, req'[z].pc = "ci", req'[z].ok,
                        req'[z].origin = "scaffolded", Present(req[z].id)',
                        ~BeingDeleted(req[z].id)', Unhurt'
                 PROVE  project'[req'[z].repo].ci = req'[z].id
      BY DEF Injected, Unhurt
    <2>1. CASE z = r
      BY <2>1, <1>1, <1>4, <1>7, <1>10
    <2>2. CASE z # r
      <3>1. req'[z] = req[z]
        BY <2>2, <1>9
      <3>2. PICK w \in RequestStates : w = req[z] /\ Shaped(w)
        BY StandsIs
      <3>3. w.id # 0
        BY <3>1, <3>2, StateIs, ConstantsAre DEF Shaped, Makers, Ind, TypeOK
      <3>4. Present(w.id)' /\ ~BeingDeleted(w.id)'
        BY <3>1, <3>2
      <3>5. Present(w.id) /\ ~BeingDeleted(w.id)
        BY <3>4, <1>8, DeletionsStay DEF Present, Unhurt, Without, Ind, Moves, Projecting
      <3>6. project[w.repo].ci = w.id
        BY <3>1, <3>2, <3>5 DEF Ind, Injected, Unhurt, Without
      <3> QED
        BY <3>1, <3>2, <3>3, <3>6, <1>3, <1>7, StateIs
    <2> QED
      BY <2>1, <2>2
  <1>14. ScaffoldedProjectSound'
    <2> SUFFICES ASSUME NEW i \in Ids, Present(i)', row'[i].origin = "scaffolded",
                        ~BeingDeleted(i)', Unhurt'
                 PROVE  ProjectSound(i)'
      BY DEF ScaffoldedProjectSound, Unhurt
    <2>1. ~BeingDeleted(i) /\ Unhurt
      BY <1>8, DeletionsStay DEF Ind, Moves, Unhurt, Without, Projecting
    <2>2. ProjectSound(i) /\ row[i].repo \in Projects
      BY <2>1, RowIs DEF Ind, ScaffoldedProjectSound, Unhurt, Present, TypeOK
    <2>3. row[i].repo = p => ~row[i].ci
      BY <2>2, <1>3 DEF ProjectSound, Ids
    <2> QED
      BY <2>2, <2>3, <1>3, <1>4, <1>7 DEF ProjectSound
  <1>15. Calm' => TemplatesKept'
    <2> SUFFICES ASSUME Calm' PROVE TemplatesKept'
      OBVIOUS
    <2>1. TemplatesKept
      BY MishapsGrow DEF Ind, LeftoversKept, Calm
    <2>2. Alike /\ Advances(r, q, {"delVault", "delRow"})
      BY SameAlike DEF Advances, DeletePcs
    <2>3. \A o \in Projects : project'[o].template => project[o].template
      BY <1>3, <1>4, <1>7
    <2> QED
      BY <2>1, <2>2, <2>3, TemplatesStay DEF Tidies, Ind, Moves
  <1> QED
    BY <1>8, <1>11, <1>12, <1>13, <1>14, <1>15, ProjectStep

\* InjectsCi.
LEMMA InjectsCiStep ==
    ASSUME Ind, NEW r \in Requests, InjectsCi(r)
    PROVE  Ind'
  <1>1. PICK o \in RequestStates : o = req[r] /\ Shaped(o) /\ Agrees(o) /\ o.pc = "inject"
    BY StandsIs DEF InjectsCi
  <1>2. ~o.ok /\ UNCHANGED <<row, last, fullPath, secretFile, values, argocd, vault, started>>
    BY <1>1 DEF Shaped, InjectsCi
  <1>3. ASSUME NEW b \in BOOLEAN
        PROVE  \E q \in RequestStates :
                  /\ q = [o EXCEPT !.pc = "ci", !.ok = b] /\ q.pc = "ci" /\ q.ok = b
                  /\ q.id = o.id /\ q.origin = o.origin /\ q.repo = o.repo /\ q.cluster = o.cluster
                  /\ Shaped(q) /\ Agrees(q) /\ ReadsPath(q)
                  /\ \A i, e : Awaits(o, i, e) => Awaits(q, i, e)
    <2> DEFINE q == [o EXCEPT !.pc = "ci", !.ok = b]
    <2>1. q \in RequestStates
      BY <1>1 DEF RequestStates, Makers
    <2>2. /\ q.pc = "ci" /\ q.id = o.id /\ q.origin = o.origin /\ q.repo = o.repo
          /\ q.group = o.group /\ q.slug = o.slug /\ q.ok = b /\ q.cluster = o.cluster
      BY DEF RequestStates
    <2> HIDE DEF q
    <2>3. Shaped(q) /\ Agrees(q) /\ ReadsPath(q)
      BY <1>1, <2>2 DEF Shaped, Agrees, ReadsPath, Savers, Makers, DeletePcs
    <2>4. \A i, e : Awaits(o, i, e) => Awaits(q, i, e)
      BY <2>2 DEF Awaits
    <2>5. q = [o EXCEPT !.pc = "ci", !.ok = b]
      BY DEF q
    <2> QED
      BY <2>1, <2>2, <2>3, <2>4, <2>5
  <1>4. ASSUME NEW q \in RequestStates, Goes(r, q), q.pc = "ci", q.id = o.id,
               q.ok => q.origin # "scaffolded",
               Shaped(q), Agrees(q), ReadsPath(q), \A i, e : Awaits(o, i, e) => Awaits(q, i, e),
               UNCHANGED project, mishaps \subseteq mishaps', mishaps' \subseteq Kinds
        PROVE  Ind'
    <2>1. Quiet(r, q)
      BY <1>2, <1>4 DEF Quiet, Moves, Ind, TypeOK
    <2>2. Fits(r, q)
      BY <1>1, <1>4 DEF Fits, Persists, Tidies, DeletePcs
    <2> QED
      BY <2>1, <2>2, QuietStep
  <1>5. CASE /\ Injects(o) /\ UNCHANGED mishaps
             /\ project' = IF o.origin = "scaffolded" /\ project[o.repo].ci = 0
                           THEN [project EXCEPT ![o.repo].ci = o.id,
                                                ![o.repo].target = ClusterName(o.cluster)]
                           ELSE project
             /\ Goes(r, [o EXCEPT !.pc = "ci", !.ok = TRUE])
    <2>1. PICK q \in RequestStates :
              /\ q = [o EXCEPT !.pc = "ci", !.ok = TRUE] /\ q.pc = "ci" /\ q.ok
              /\ q.id = o.id /\ q.origin = o.origin /\ q.repo = o.repo /\ q.cluster = o.cluster
              /\ Shaped(q) /\ Agrees(q) /\ ReadsPath(q)
              /\ \A i, e : Awaits(o, i, e) => Awaits(q, i, e)
      BY <1>3
    <2>2. Goes(r, q)
      BY <1>5, <2>1
    <2>3. CASE o.origin = "scaffolded"
      <3>1. project[q.repo].exists /\ project[q.repo].ci = 0
        BY <1>5, <2>1, <2>3 DEF Injects
      <3>2. Moves(r, q)
        BY <1>5, <2>2 DEF Moves
      <3>3. project' = [project EXCEPT ![q.repo].ci = q.id,
                                       ![q.repo].target = ClusterName(q.cluster)]
        <4>1. project[o.repo].ci = 0
          BY <2>1, <3>1
        <4>2. project' = [project EXCEPT ![o.repo].ci = o.id,
                                         ![o.repo].target = ClusterName(o.cluster)]
          BY <1>5, <2>3, <4>1
        <4> QED
          BY <2>1, <4>2
      <3> QED
        <4>1. UNCHANGED mishaps /\ req[r].pc = "inject" /\ req[r].id = q.id
          BY <1>1, <1>5, <2>1
        <4>2. Shaped(q) /\ Agrees(q) /\ q.pc = "ci" /\ q.origin = "scaffolded"
          BY <2>1, <2>3
        <4> QED
          BY ONLY <4>1, <4>2, <1>2, <3>1, <3>2, <3>3, PipelineStep, Ind, r \in Requests
    <2>4. CASE o.origin # "scaffolded"
      BY <1>4, <1>5, <2>1, <2>2, <2>4 DEF Ind, TypeOK
    <2> QED
      BY <2>3, <2>4
  <1>6. CASE NoteIf(Injects(o), "fail") /\ Goes(r, [o EXCEPT !.pc = "ci"]) /\ UNCHANGED project
    <2>1. PICK q \in RequestStates :
              /\ q = [o EXCEPT !.pc = "ci", !.ok = FALSE] /\ q.pc = "ci" /\ ~q.ok
              /\ q.id = o.id /\ q.origin = o.origin /\ q.repo = o.repo /\ q.cluster = o.cluster
              /\ Shaped(q) /\ Agrees(q) /\ ReadsPath(q)
              /\ \A i, e : Awaits(o, i, e) => Awaits(q, i, e)
      BY <1>3
    <2>2. q = [o EXCEPT !.pc = "ci"]
      BY <1>2, <2>1 DEF RequestStates
    <2>3. mishaps \subseteq mishaps' /\ mishaps' \subseteq Kinds
      BY <1>6, NoteIs DEF NoteIf, Ind
    <2> QED
      BY <1>4, <1>6, <2>1, <2>2, <2>3
  <1> QED
    BY <1>1, <1>5, <1>6 DEF InjectsCi

-----------------------------------------------------------------------------
(***************************************************************************)
(* The row.                                                                *)
(***************************************************************************)

\* Whoever keeps something goes on keeping it.
Held(P) == \A i \in Ids : \A s : Keeps(i, s, P) => Keeps(i, s, P)' /\ row'[i] = row[i]

\* A row that does not change keeps what it has unless r takes it.
LEMMA HeldIs ==
    ASSUME TypeOK, NEW r \in Requests, NEW q, Goes(r, q), NEW P,
           \A i \in Ids : \A s : Keeps(i, s, P) =>
               row'[i] = row[i] /\ (q.id # i \/ Advances(r, q, P))
    PROVE  Held(P)
  <1> SUFFICES ASSUME NEW i \in Ids, NEW s, Keeps(i, s, P)
               PROVE  Keeps(i, s, P)' /\ row'[i] = row[i]
    BY DEF Held
  <1>1. row'[i] = row[i] /\ (q.id # i \/ Advances(r, q, P))
    OBVIOUS
  <1> QED
    BY <1>1, MovesIs DEF Keeps, Advances, Present

\* A template has an application that keeps it.
Housed(p) == \E i \in Ids : /\ Keeps(i, p[2], {"delVault", "delRow"})
                            /\ row[i].repo = p /\ row[i].origin = "scaffolded"

\* The leftovers stay with the rows that keep them.
LEMMA LeftoversHeld ==
    ASSUME LeftoversKept, mishaps \subseteq mishaps',
           Held(DeletePcs \ {"delApps"}), Held({"delProject", "delVault", "delRow"}),
           Held({"delRow"}), Held({"delVault", "delRow"}),
           UNCHANGED <<secretFile, values, argocd, vault, fullPath, project>>,
           \A p \in Projects : \A x \in Requests : Tidies(req[x], p) =>
               Housed(p)' \/ \E y \in Requests : Tidies(req'[y], p)
    PROVE  LeftoversKept'
  <1> SUFFICES ASSUME Calm'
               PROVE  (SecretFilesKept /\ ValuesKept /\ ArgoKept /\ VaultKept /\ TemplatesKept)'
    BY DEF LeftoversKept, Calm
  <1>1. SecretFilesKept /\ ValuesKept /\ ArgoKept /\ VaultKept /\ TemplatesKept
    BY MishapsGrow DEF LeftoversKept, Calm
  <1>2. SecretFilesKept'
    BY <1>1 DEF SecretFilesKept, Held, In
  <1>3. ValuesKept'
    BY <1>1 DEF ValuesKept, Held, In
  <1>4. ArgoKept'
    BY <1>1 DEF ArgoKept, Held, In
  <1>5. VaultKept'
    BY <1>1 DEF VaultKept, Held
  <1>6. TemplatesKept'
    <2> SUFFICES ASSUME NEW p \in Projects, project[p].template
                 PROVE  Housed(p)' \/ \E y \in Requests : Tidies(req'[y], p)
      BY DEF TemplatesKept, Tidies, Housed
    <2>1. CASE Housed(p)
      BY <2>1 DEF Housed, Held
    <2>2. CASE \E x \in Requests : Tidies(req[x], p)
      BY <2>2
    <2> QED
      BY <1>1, <2>1, <2>2 DEF TemplatesKept, Tidies, Housed
  <1> QED
    BY <1>2, <1>3, <1>4, <1>5, <1>6

\* What a request is after its row was saved.
Saved(o, q) ==
    /\ q \in RequestStates /\ q.pc \in {"inject", "secret"} /\ q.id = last + 1 /\ ~q.ok
    /\ q.slug = o.slug /\ q.repo = o.repo /\ q.origin = o.origin
    /\ q.group = o.group /\ q.cluster = o.cluster
    /\ q.pc = "secret" => q.env = "dev" /\ q.path = fullPath[q.group]

\* A row is inserted.
LEMMA SaveStep ==
    ASSUME Ind, NEW r \in Requests, NEW o, o = req[r], o.pc = "save", NEW q, Saved(o, q),
           Goes(r, q), Insertable(o), last < MaxApps,
           row' = [row EXCEPT ![last + 1] = RowOf(o)], last' = last + 1,
           UNCHANGED <<project, fullPath, secretFile, values, argocd, vault, started, mishaps>>
    PROVE  Ind'
  <1> DEFINE n == last + 1
  <1>1. o \in RequestStates /\ Shaped(o)
    BY StandsIs
  <1>2. n \in Ids /\ last \in Nat /\ n \in 0 .. MaxApps /\ n = last + 1
    BY ConstantsAre DEF Ind, TypeOK, Ids
  <1> HIDE DEF n
  <1>3. PICK w \in Rows : /\ w = RowOf(o) /\ w.slug = o.slug /\ w.repo = o.repo /\ w.origin = o.origin
                          /\ w.group = o.group /\ w.cluster = o.cluster /\ ~w.ci /\ w.slug # None
    <2>1. RowOf(o) \in Rows
      BY <1>1, StateIs DEF RowOf, Rows
    <2>2. o.slug # None
      BY <1>1, StateIs, ConstantsAre
    <2> QED
      BY <2>1, <2>2 DEF RowOf
  <1>4. /\ row' \in [Ids -> Rows] /\ row'[n] = w
        /\ \A i \in Ids : i # n => row'[i] = row[i]
    BY <1>2, <1>3 DEF Ind, TypeOK
  <1>5. \A i \in Ids : Present(i) => i # n /\ row'[i] = row[i] /\ i <= last
    BY <1>2, <1>4 DEF Ind, RowsSound
  <1>6. \A x \in Requests : x # r => req'[x] = req[x]
    BY MovesIs DEF Ind
  <1>7. req'[r] = q /\ q.id = n
    BY <1>2, MovesIs DEF Ind, Saved
  <1>8. TypeOK'
    BY <1>2, <1>4 DEF Ind, TypeOK, Saved, Goes
  <1>9. \A x \in Requests : req[x].id # n
    <2> SUFFICES ASSUME NEW x \in Requests, NEW y \in RequestStates, y = req[x], Shaped(y)
                 PROVE  y.id # n
      BY StandsIs
    <2> QED
      BY <1>2, StateIs DEF Shaped
  <1>10. RowsSound'
    <2>1. o.origin = "scaffolded" => o.repo = <<o.group, o.slug>>
      BY <1>1 DEF Shaped, Savers
    <2>2. \A i \in Ids : Present(i)' =>
             /\ i <= last'
             /\ row'[i].origin = "scaffolded" => row'[i].repo = <<row'[i].group, row'[i].slug>>
      <3> SUFFICES ASSUME NEW i \in Ids, Present(i)'
                   PROVE  /\ i <= last'
                          /\ row'[i].origin = "scaffolded" => row'[i].repo = <<row'[i].group, row'[i].slug>>
        OBVIOUS
      <3>1. CASE i = n
        BY <3>1, <2>1, <1>2, <1>3, <1>4
      <3>2. CASE i # n
        BY <3>2, <1>2, <1>4 DEF Ind, RowsSound, Present, Ids
      <3> QED
        BY <3>1, <3>2
    <2>3. \A i, j \in Ids : Present(i)' /\ Present(j)' /\ i # j =>
             row'[i].slug # row'[j].slug /\ row'[i].repo # row'[j].repo
      <3>1. \A i, j \in Ids : i # n /\ j # n /\ Present(i)' /\ Present(j)' /\ i # j =>
               row'[i].slug # row'[j].slug /\ row'[i].repo # row'[j].repo
        BY <1>4 DEF Ind, RowsSound, Present
      <3>2. \A i \in Ids : i # n /\ Present(i)' => row'[i].slug # w.slug /\ row'[i].repo # w.repo
        BY <1>3, <1>4 DEF Insertable, Present
      <3> QED
        BY <3>1, <3>2, <1>4
    <2> QED
      BY <2>2, <2>3 DEF RowsSound
  <1>11. RequestsSound'
    <2> SUFFICES ASSUME NEW x \in Requests
                 PROVE  (Shaped(req[x]) /\ Agrees(req[x]) /\ ReadsPath(req[x]))'
      BY DEF RequestsSound
    <2>1. CASE x = r
      <3>1. Shaped(q)'
        BY <1>1, <1>2 DEF Shaped, Saved, Savers, Makers, DeletePcs
      <3>2. Agrees(q)'
        BY <1>2, <1>3, <1>4 DEF Agrees, Saved
      <3>3. ReadsPath(q)'
        BY DEF ReadsPath, Saved
      <3>4. PICK y : y = req'[x] /\ y = q
        BY <2>1, <1>7
      <3> QED
        BY <3>1, <3>2, <3>3, <3>4 DEF Shaped, Agrees, ReadsPath, Present
    <2>2. CASE x # r
      <3>1. PICK y \in RequestStates : y = req[x] /\ y = req'[x] /\ y.id # n
                                       /\ Shaped(y) /\ Agrees(y) /\ ReadsPath(y)
        BY <2>2, <1>6, <1>9, StandsIs
      <3>2. Shaped(req[x])'
        BY <3>1, <1>2, StateIs DEF Shaped
      <3>3. Agrees(req[x])'
        <4>1. y.pc \in {"env"} \cup Makers \cup DeletePcs => y.id \in Ids
          BY <3>1, <1>2, StateIs DEF Shaped, Ids
        <4> QED
          BY <3>1, <4>1, <1>4 DEF Agrees, Present, Without
      <3>4. ReadsPath(req[x])'
        BY <3>1 DEF ReadsPath, Without
      <3> QED
        BY <3>2, <3>3, <3>4
    <2> QED
      BY <2>1, <2>2
  <1>12. PipelinesSound'
    <2> SUFFICES ASSUME NEW p \in Projects
                 PROVE  /\ project[p].ci # 0 => /\ project[p].ci <= last'
                                                /\ Present(project[p].ci)' => Reports(p, project[p].ci)'
                        /\ ~project[p].exists => project[p].ci = 0 /\ ~project[p].template
      BY DEF PipelinesSound
    <2>1. PICK i \in 0 .. MaxApps : i = project[p].ci
      BY DEF Ind, TypeOK, ProjectStates
    <2>2. i # 0 => i \in Ids /\ i # n /\ i <= last
      BY <2>1, <1>2 DEF Ind, PipelinesSound, Ids
    <2>3. i # 0 => row'[i] = row[i]
      BY <2>2, <1>4
    <2> QED
      BY <2>1, <2>2, <2>3, <1>2 DEF Ind, PipelinesSound, Present, Reports, Without
  <1>13. Filled'
    BY <1>6, <1>7 DEF Ind, Filled, Without, Saved
  <1>14. ASSUME NEW i \in Ids, Present(i), ~BeingDeleted(i)'
         PROVE  ~BeingDeleted(i)
    BY <1>6, <1>14 DEF BeingDeleted, DeletePcs
  <1>15. Injected'
    <2> SUFFICES ASSUME NEW x \in Requests, req'[x].pc = "ci", req'[x].ok,
                        req'[x].origin = "scaffolded", Present(req[x].id)',
                        ~BeingDeleted(req[x].id)', Unhurt'
                 PROVE  project[req'[x].repo].ci = req'[x].id
      BY DEF Injected, Unhurt
    <2>1. x # r /\ req'[x] = req[x]
      BY <1>6, <1>7 DEF Saved
    <2>2. PICK y \in RequestStates : y = req[x] /\ Shaped(y) /\ y.id # n
      BY <1>9, StandsIs
    <2>3. y.id \in Ids
      BY <2>1, <2>2, <1>2, StateIs DEF Shaped, Ids, Makers
    <2>4. Present(y.id)' /\ ~BeingDeleted(y.id)'
      BY <2>1, <2>2
    <2>5. Present(y.id)
      BY <2>2, <2>3, <2>4, <1>4 DEF Present
    <2>6. ~BeingDeleted(y.id)
      BY <2>3, <2>4, <2>5, <1>14
    <2> QED
      BY <2>1, <2>2, <2>5, <2>6 DEF Ind, Injected, Unhurt, Without
  <1>16. ScaffoldedProjectSound'
    <2> SUFFICES ASSUME NEW i \in Ids, Present(i)', row'[i].origin = "scaffolded",
                        ~BeingDeleted(i)', Unhurt'
                 PROVE  ProjectSound(i)'
      BY DEF ScaffoldedProjectSound, Unhurt
    <2>1. CASE i = n
      <3>1. project[o.repo].exists /\ project[o.repo].template
        BY <2>1, <1>3, <1>4 DEF Ind, Filled, Unhurt, Without
      <3> QED
        BY <2>1, <3>1, <1>3, <1>4 DEF ProjectSound
    <2>2. CASE i # n
      <3>1. row'[i] = row[i] /\ Present(i)
        BY <2>2, <1>4 DEF Present
      <3>2. ~BeingDeleted(i)
        BY <3>1, <1>14
      <3> QED
        BY <3>1, <3>2 DEF Ind, ScaffoldedProjectSound, Unhurt, Without, ProjectSound
    <2> QED
      BY <2>1, <2>2
  <1>17. KeysWritten'
    <2> SUFFICES ASSUME Steady', NEW i \in Ids, NEW e \in Envs, Present(i)', ~BeingDeleted(i)',
                        \A x \in Requests : ~Awaits(req'[x], i, e)
                 PROVE  KeyOf(i, e)' = fullPath[row'[i].group]
      BY DEF KeysWritten, Steady, Awaits
    <2>1. i # n
      BY <1>7 DEF Awaits, Saved
    <2>2. row'[i] = row[i] /\ Present(i)
      BY <2>1, <1>4 DEF Present
    <2>3. ~BeingDeleted(i)
      BY <2>2, <1>14
    <2>4. \A x \in Requests : ~Awaits(req[x], i, e)
      BY <1>6 DEF Awaits
    <2>5. KeyOf(i, e) = fullPath[row[i].group]
      BY <2>2, <2>3, <2>4 DEF Ind, KeysWritten, Steady, Without
    <2> QED
      BY <2>2, <2>5 DEF KeyOf
  <1>18. LeftoversKept'
    <2>1. ASSUME NEW P, P \subseteq DeletePcs PROVE Held(P)
      <3>1. Advances(r, q, P)
        BY <2>1 DEF Advances, Saved, DeletePcs
      <3> QED
        BY <1>5, <3>1, HeldIs DEF Ind, Keeps
    <2>2. /\ Held(DeletePcs \ {"delApps"}) /\ Held({"delProject", "delVault", "delRow"})
          /\ Held({"delRow"}) /\ Held({"delVault", "delRow"})
      BY <2>1 DEF DeletePcs
    <2>3. ASSUME NEW p \in Projects, NEW x \in Requests, Tidies(req[x], p)
          PROVE  Housed(p)' \/ \E y \in Requests : Tidies(req'[y], p)
      <3>1. CASE x # r
        BY <3>1, <2>3, <1>6
      <3>2. CASE x = r
        <4>1. o.repo = p /\ o.origin = "scaffolded" /\ p[2] = o.slug
          BY <3>2, <2>3, <1>1 DEF Tidies, Shaped, Savers
        <4>2. \A y \in Requests : ~(req'[y].id = n /\ req'[y].pc \in {"delVault", "delRow"})
          BY <1>6, <1>7, <1>9 DEF Saved
        <4>3. row'[n].slug = p[2] /\ row'[n].slug # None
              /\ row'[n].repo = p /\ row'[n].origin = "scaffolded"
          BY <4>1, <1>3, <1>4
        <4>4. PICK m \in Ids : m = n
          BY <1>2
        <4>5. /\ row'[m].slug = p[2] /\ row'[m].slug # None
              /\ \A y \in Requests : ~(req'[y].id = m /\ req'[y].pc \in {"delVault", "delRow"})
              /\ row'[m].repo = p /\ row'[m].origin = "scaffolded"
          BY <4>2, <4>3, <4>4
        <4>6. Keeps(m, p[2], {"delVault", "delRow"})'
          BY <4>5 DEF Keeps, Present
        <4> QED
          BY <4>5, <4>6 DEF Housed
      <3> QED
        BY <3>1, <3>2
    <2> QED
      BY <2>2, <2>3, LeftoversHeld DEF Ind
  <1> QED
    BY <1>8, <1>10, <1>11, <1>12, <1>13, <1>15, <1>16, <1>17, <1>18 DEF Ind

\* The state of a request that turns to the files of secrets.
LEMMA ToSecretFilesIs ==
    ASSUME TypeOK, NEW q \in RequestStates, NEW c \in Targets
    PROVE  /\ ToSecretFiles(q, c) \in RequestStates
           /\ ToSecretFiles(q, c).pc = "secret" /\ ToSecretFiles(q, c).env = "dev"
           /\ ToSecretFiles(q, c).cluster = c /\ ToSecretFiles(q, c).path = fullPath[q.group]
           /\ ToSecretFiles(q, c).id = q.id /\ ToSecretFiles(q, c).slug = q.slug
           /\ ToSecretFiles(q, c).repo = q.repo /\ ToSecretFiles(q, c).origin = q.origin
           /\ ToSecretFiles(q, c).group = q.group /\ ToSecretFiles(q, c).ok = q.ok
  <1>1. fullPath[q.group] \in Paths
    BY StateIs DEF TypeOK
  <1> QED
    BY <1>1 DEF ToSecretFiles, RequestStates, Makers, Envs

\* SavesRow.
LEMMA SavesRowStep ==
    ASSUME Ind, NEW r \in Requests, SavesRow(r)
    PROVE  Ind'
  <1>1. PICK o \in RequestStates : o = req[r] /\ Shaped(o) /\ o.pc = "save"
    BY StandsIs DEF SavesRow
  <1>2. UNCHANGED <<project, fullPath, secretFile, values, argocd, vault, started>>
    BY DEF SavesRow
  <1>3. ~o.ok /\ o.id = 0 /\ o.cluster \in Targets
    BY <1>1, StateIs DEF Shaped, Savers
  <1>4. CASE /\ Insertable(o) /\ last < MaxApps
             /\ row' = [row EXCEPT ![last + 1] = RowOf(o)]
             /\ last' = last + 1
             /\ \/ Goes(r, [o EXCEPT !.pc = "inject", !.id = last + 1])
                \/ Goes(r, ToSecretFiles([o EXCEPT !.id = last + 1], o.cluster))
             /\ UNCHANGED mishaps
    <2>1. PICK n \in 0 .. MaxApps : n = last + 1
      BY <1>4, ConstantsAre DEF Ind, TypeOK
    <2>2. ASSUME NEW q, Saved(o, q), Goes(r, q) PROVE Ind'
      BY <1>1, <1>2, <1>4, <2>2, SaveStep
    <2>3. CASE Goes(r, [o EXCEPT !.pc = "inject", !.id = n])
      <3> DEFINE q == [o EXCEPT !.pc = "inject", !.id = n]
      <3>1. q \in RequestStates
        BY DEF RequestStates, Makers
      <3>2. /\ q.pc = "inject" /\ q.id = n /\ q.origin = o.origin /\ q.repo = o.repo
            /\ q.group = o.group /\ q.slug = o.slug /\ q.ok = o.ok /\ q.cluster = o.cluster
        BY DEF RequestStates
      <3>3. Goes(r, q)
        BY <2>3
      <3> HIDE DEF q
      <3>4. Saved(o, q)
        BY <1>3, <2>1, <3>1, <3>2 DEF Saved
      <3> QED
        BY <2>2, <3>3, <3>4
    <2>4. CASE Goes(r, ToSecretFiles([o EXCEPT !.id = n], o.cluster))
      <3> DEFINE z == [o EXCEPT !.id = n]
      <3>1. z \in RequestStates
        BY DEF RequestStates, Makers
      <3>2. /\ z.id = n /\ z.origin = o.origin /\ z.repo = o.repo
            /\ z.group = o.group /\ z.slug = o.slug /\ z.ok = o.ok
        BY DEF RequestStates
      <3> DEFINE q == ToSecretFiles(z, o.cluster)
      <3>3. Goes(r, q)
        BY <2>4
      <3> HIDE DEF z
      <3>4. Saved(o, q)
        BY <1>3, <2>1, <3>1, <3>2, ToSecretFilesIs DEF Saved, Ind
      <3> HIDE DEF q
      <3> QED
        BY <2>2, <3>3, <3>4
    <2> QED
      BY <1>4, <2>1, <2>3, <2>4
  <1>5. CASE NoteIf(Insertable(o), "fail") /\ Goes(r, AfterUnsaved(o)) /\ UNCHANGED <<row, last>>
    <2>1. mishaps \subseteq mishaps' /\ mishaps' \subseteq Kinds
      BY <1>5, NoteIs DEF NoteIf, Ind
    <2>2. CASE o.origin = "scaffolded"
      <3> DEFINE q == [o EXCEPT !.pc = "cleanup"]
      <3>1. q \in RequestStates
        BY DEF RequestStates, Savers
      <3>2. /\ q.pc = "cleanup" /\ q.id = o.id /\ q.origin = o.origin /\ q.repo = o.repo
            /\ q.group = o.group /\ q.slug = o.slug /\ q.ok = o.ok
        BY DEF RequestStates
      <3>3. Goes(r, q)
        BY <1>5, <2>2 DEF AfterUnsaved
      <3> HIDE DEF q
      <3>4. Quiet(r, q)
        BY <1>2, <1>5, <2>1, <3>1, <3>3 DEF Quiet, Moves, Ind, TypeOK
      <3>5. Shaped(q) /\ Agrees(q) /\ ReadsPath(q)
        BY <1>1, <2>2, <3>2 DEF Shaped, Agrees, ReadsPath, Savers, Makers, DeletePcs
      <3>6. Fits(r, q)
        BY <1>1, <3>2, <3>5 DEF Fits, Persists, Awaits, Tidies, DeletePcs
      <3> QED
        BY <3>4, <3>6, QuietStep
    <2>3. CASE o.origin # "scaffolded"
      <3>1. Ends(r)
        BY <1>5, <2>3 DEF AfterUnsaved, Ends
      <3>2. Quiet(r, Idle)
        BY <1>2, <1>5, <2>1, <3>1, EndsQuietly
      <3>3. Fits(r, Idle)
        BY <1>1, <2>3, IdleIs
        DEF Fits, Shaped, Agrees, ReadsPath, Persists, Awaits, Tidies, Savers, Makers, DeletePcs
      <3> QED
        BY <3>2, <3>3, QuietStep
    <2> QED
      BY <2>2, <2>3
  <1> QED
    BY <1>1, <1>4, <1>5 DEF SavesRow

\* ci_injected is committed for a row that is there.
LEMMA CommitStep ==
    ASSUME Ind, NEW r \in Requests, NEW o \in RequestStates, o = req[r], Agrees(o), Shaped(o),
           o.pc = "ci", Present(o.id), row' = [row EXCEPT ![o.id].ci = o.ok],
           NEW q \in RequestStates, Goes(r, q), q.pc = "secret", q.env = "dev",
           q.cluster = row[o.id].cluster, q.path = fullPath[q.group], q.id = o.id,
           q.slug = o.slug, q.repo = o.repo, q.origin = o.origin, q.group = o.group,
           UNCHANGED <<last, project, fullPath, secretFile, values, argocd, vault, mishaps, started>>
    PROVE  Ind'
  <1>1. PICK n \in Ids : n = o.id
    BY StateIs, ConstantsAre DEF Shaped, Makers, Ids, Ind, TypeOK
  <1>2. PICK w \in Rows : w = row[n]
    BY DEF Ind, TypeOK
  <1> DEFINE v == [w EXCEPT !.ci = o.ok]
  <1>3. v \in Rows
    BY StateIs DEF Rows
  <1>4. /\ v.slug = w.slug /\ v.repo = w.repo /\ v.origin = w.origin /\ v.group = w.group
        /\ v.cluster = w.cluster /\ v.ci = o.ok
    BY DEF Rows
  <1>5. row' = [row EXCEPT ![n] = v]
    BY <1>1, <1>2
  <1> HIDE DEF v
  <1>6. /\ row' \in [Ids -> Rows] /\ row'[n] = v
        /\ \A i \in Ids : i # n => row'[i] = row[i]
    BY <1>3, <1>5 DEF Ind, TypeOK
  <1>7. Alike
    BY <1>2, <1>4, <1>6 DEF Alike
  <1>8. TypeOK'
    BY <1>6 DEF Ind, TypeOK, Goes
  <1>9. Moves(r, q)
    BY DEF Moves
  <1>10. Shaped(q) /\ Agrees(q) /\ ReadsPath(q) /\ Persists(r, q)
    BY <1>1 DEF Shaped, Agrees, ReadsPath, Persists, Savers, Makers, DeletePcs
  <1>11. RowsSound' /\ RequestsSound' /\ PipelinesSound' /\ Filled' /\ Injected'
    BY <1>7, <1>9, <1>10, RowsStay, RequestsStay, PipelinesStay, FilledStay, InjectedStay
    DEF Ind
  <1>12. KeysWritten'
    <2>1. \A i \in Ids, e \in Envs : Awaits(req[r], i, e) /\ Present(i) => Awaits(q, i, e)
      BY DEF Awaits
    <2> QED
      BY <1>7, <1>9, <1>10, <2>1, KeysStay
  <1>13. ScaffoldedProjectSound'
    <2> SUFFICES ASSUME NEW i \in Ids, Present(i)', row'[i].origin = "scaffolded",
                        ~BeingDeleted(i)', Unhurt'
                 PROVE  ProjectSound(i)'
      BY DEF ScaffoldedProjectSound, Unhurt
    <2>1. ~BeingDeleted(i) /\ Unhurt
      BY <1>9, <1>10, DeletionsStay DEF Ind, Moves, Unhurt, Without
    <2>2. Present(i) /\ row[i].origin = "scaffolded"
      BY <1>7 DEF Alike, Present
    <2>3. ProjectSound(i)
      BY <2>1, <2>2 DEF Ind, ScaffoldedProjectSound, Unhurt
    <2>4. CASE i = n
      <3>1. o.origin = "scaffolded" /\ o.repo = w.repo
        BY <1>1, <1>2, <2>2, <2>4 DEF Agrees, Makers
      <3>2. o.ok => project[o.repo].ci = n
        BY <1>1, <2>1, <2>4, <3>1 DEF Ind, Injected, Unhurt
      <3> QED
        BY <2>3, <2>4, <3>1, <3>2, <1>2, <1>4, <1>6 DEF ProjectSound
    <2>5. CASE i # n
      BY <2>3, <2>5, <1>6 DEF ProjectSound
    <2> QED
      BY <2>4, <2>5
  <1>14. LeftoversKept'
    <2> SUFFICES ASSUME Calm'
                 PROVE  (SecretFilesKept /\ ValuesKept /\ ArgoKept /\ VaultKept /\ TemplatesKept)'
      BY DEF LeftoversKept, Calm
    <2>1. SecretFilesKept /\ ValuesKept /\ ArgoKept /\ VaultKept /\ TemplatesKept
      BY MishapsGrow DEF Ind, LeftoversKept, Calm
    <2>2. /\ Advances(r, q, DeletePcs \ {"delApps"}) /\ Advances(r, q, {"delRow"})
          /\ Advances(r, q, {"delProject", "delVault", "delRow"})
          /\ Advances(r, q, {"delVault", "delRow"})
      BY DEF Advances, DeletePcs
    <2>3. SecretFilesKept' /\ ValuesKept' /\ ArgoKept' /\ VaultKept'
      BY <1>7, <2>1, <2>2, SecretFilesStay, ValuesStay, ArgoStay, VaultStay DEF Ind
    <2>4. \A p \in Projects : ~Tidies(req[r], p)
      BY DEF Tidies
    <2>5. TemplatesKept'
      BY <1>7, <2>1, <2>2, <2>4, TemplatesStay DEF Ind
    <2> QED
      BY <2>3, <2>5
  <1> QED
    BY <1>7, <1>8, <1>11, <1>12, <1>13, <1>14 DEF Ind

\* CommitsCi.
LEMMA CommitsCiStep ==
    ASSUME Ind, NEW r \in Requests, CommitsCi(r)
    PROVE  Ind'
  <1>1. PICK o \in RequestStates : o = req[r] /\ Shaped(o) /\ Agrees(o) /\ o.pc = "ci"
    BY StandsIs DEF CommitsCi
  <1>2. UNCHANGED <<last, project, fullPath, secretFile, values, argocd, vault, mishaps, started>>
    BY DEF CommitsCi
  <1>3. CASE /\ Present(o.id) /\ row' = [row EXCEPT ![o.id].ci = o.ok]
             /\ Goes(r, ToSecretFiles(o, row[o.id].cluster))
    <2>1. o.id \in Ids
      BY <1>1, StateIs, ConstantsAre DEF Shaped, Makers, Ids, Ind, TypeOK
    <2>2. row[o.id].cluster \in Targets
      BY <2>1, RowIs DEF Ind, TypeOK
    <2>3. PICK q : q = ToSecretFiles(o, row[o.id].cluster)
      OBVIOUS
    <2>4. /\ q \in RequestStates /\ Goes(r, q) /\ q.pc = "secret" /\ q.env = "dev"
          /\ q.cluster = row[o.id].cluster /\ q.path = fullPath[q.group] /\ q.id = o.id
          /\ q.slug = o.slug /\ q.repo = o.repo /\ q.origin = o.origin /\ q.group = o.group
      BY <1>3, <2>2, <2>3, ToSecretFilesIs DEF Ind
    <2> QED
      BY <1>1, <1>2, <1>3, <2>4, CommitStep
  <1>4. CASE ~Present(o.id) /\ Ends(r) /\ UNCHANGED row
    <2>1. Quiet(r, Idle)
      BY <1>2, <1>4, EndsQuietly DEF Ind, TypeOK
    <2>2. Fits(r, Idle)
      BY <1>1, <1>4, IdleFits DEF Awaits, DeletePcs
    <2> QED
      BY <2>1, <2>2, QuietStep
  <1> QED
    BY <1>1, <1>3, <1>4 DEF CommitsCi

-----------------------------------------------------------------------------
(***************************************************************************)
(* Files, directories and secrets.                                         *)
(***************************************************************************)

Filing(r, q) ==
    /\ Moves(r, q) /\ mishaps' \subseteq Kinds
    /\ UNCHANGED <<row, last, project, fullPath, started>>
    /\ secretFile' \in [Files -> Paths \cup {None}] /\ values' \subseteq Files
    /\ argocd' \subseteq Dirs \X Slugs /\ vault' \subseteq Paths \X Slugs \X Envs
    /\ Shaped(q) /\ Agrees(q) /\ ReadsPath(q) /\ Persists(r, q)
    /\ q.pc \notin {"save", "ci"}

\* The parts that say nothing of files.
LEMMA FileStep ==
    ASSUME Ind, NEW r \in Requests, NEW q, Filing(r, q), KeysWritten',
           Calm' => (SecretFilesKept /\ ValuesKept /\ ArgoKept /\ VaultKept /\ TemplatesKept)'
    PROVE  Ind'
  <1>1. TypeOK'
    BY DEF Ind, TypeOK, Filing, Moves, Goes
  <1>2. Moves(r, q) /\ Alike
    BY SameAlike DEF Filing
  <1>3. RowsSound' /\ RequestsSound' /\ PipelinesSound'
    BY <1>2, RowsStay, RequestsStay, PipelinesStay DEF Filing, Ind, Moves
  <1>4. Filled' /\ Injected' /\ ScaffoldedProjectSound'
    BY <1>2, FilledStay, InjectedStay, SoundStay DEF Filing
  <1>5. LeftoversKept'
    BY DEF LeftoversKept, Calm
  <1> QED
    BY <1>1, <1>3, <1>4, <1>5 DEF Ind

\* A write that is not late is for an application that is there and that
\* nobody else deletes.
LEMMA LateIs ==
    ASSUME Ind, NEW r \in Requests, LateIf(r)
    PROVE  /\ mishaps \subseteq mishaps' /\ mishaps' \subseteq Kinds
           /\ "late" \notin mishaps' =>
                 /\ Present(req[r].id)
                 /\ \A x \in Requests \ {r} : ~(req[x].id = req[r].id /\ req[x].pc \in DeletePcs)
  <1>1. Gone(req[r].id, r) \in BOOLEAN
    BY DEF Gone, Present
  <1>2. NoteIf(Gone(req[r].id, r), "late")
    BY DEF LateIf
  <1> QED
    BY <1>1, <1>2, NoteIfIs DEF Ind, Gone

\* The application a request writes for keeps what it writes.
LEMMA WriterKeeps ==
    ASSUME Ind, NEW r \in Requests, NEW o, o = req[r], o.pc \in {"env"} \cup Makers, LateIf(r),
           "late" \notin mishaps', NEW q, Goes(r, q), q.pc \notin DeletePcs, Alike,
           NEW P, P \subseteq DeletePcs
    PROVE  /\ o.id \in Ids /\ Keeps(o.id, o.slug, P)'
           /\ row'[o.id].group = o.group
           /\ o.pc # "env" /\ Without({"moved"}) => In(o.id, ClusterName(o.cluster))'
  <1>1. o \in RequestStates /\ Shaped(o) /\ Agrees(o)
    BY StandsIs
  <1>2. o.id \in Ids
    BY <1>1, StateIs, ConstantsAre DEF Shaped, Makers, Ids, Ind, TypeOK
  <1>3. /\ Present(o.id)
        /\ \A x \in Requests \ {r} : ~(req[x].id = o.id /\ req[x].pc \in DeletePcs)
    BY LateIs
  <1>4. PICK n \in Ids : n = o.id
    BY <1>2
  <1>5. /\ row'[n].slug = o.slug /\ row'[n].slug # None /\ row'[n].group = o.group
        /\ o.pc # "env" /\ Without({"moved"}) => row'[n].cluster = o.cluster
    BY <1>1, <1>3, <1>4 DEF Agrees, Alike, Present, Makers
  <1>6. \A x \in Requests : ~(req'[x].id = n /\ req'[x].pc \in P)
    BY <1>3, <1>4, MovesIs DEF Ind
  <1>7. Keeps(n, o.slug, P)'
    BY <1>5, <1>6 DEF Keeps, Present
  <1>8. o.pc # "env" /\ Without({"moved"}) => In(n, ClusterName(o.cluster))'
    BY <1>5 DEF In
  <1>9. row'[n].group = o.group
    BY <1>5
  <1> QED
    BY <1>4, <1>7, <1>8, <1>9

\* What a request is after a file of its secrets or its ingress.
Filed(o, q) ==
    /\ q \in RequestStates /\ q.pc \notin {"save", "ci"} \cup DeletePcs
    /\ Shaped(q) /\ Agrees(q) /\ ReadsPath(q)

\* A file of secrets is written.
LEMMA SecretFileStep ==
    ASSUME Ind, NEW r \in Requests, NEW o, o = req[r], o.pc = "secret", NEW q, Filed(o, q),
           Goes(r, q), o.env = "dev" => q.pc = "secret" /\ q.id = o.id /\ q.env = "prod",
           secretFile' = upsert_externalsecret(<<ClusterName(o.cluster), o.slug, o.env>>, o.path),
           LateIf(r), UNCHANGED <<row, last, project, fullPath, values, argocd, vault, started>>
    PROVE  Ind'
  <1>1. o \in RequestStates /\ Shaped(o) /\ Agrees(o) /\ ReadsPath(o)
    BY StandsIs
  <1>2. /\ mishaps \subseteq mishaps' /\ mishaps' \subseteq Kinds
    BY LateIs
  <1>3. PICK f \in Files : f = <<ClusterName(o.cluster), o.slug, o.env>>
    BY <1>1, StateIs, ClusterNameIs DEF Files
  <1>4. /\ secretFile' \in [Files -> Paths \cup {None}] /\ secretFile'[f] = o.path
        /\ \A x \in Files : x # f => secretFile'[x] = secretFile[x]
    BY <1>1, <1>3, StateIs DEF upsert_externalsecret, Ind, TypeOK
  <1>5. Filing(r, q)
    BY <1>2, <1>4 DEF Filing, Moves, Filed, Persists, DeletePcs, Ind, TypeOK
  <1>6. Alike
    BY SameAlike
  <1>7. KeysWritten'
    <2> SUFFICES ASSUME Steady', NEW i \in Ids, NEW e \in Envs, Present(i)', ~BeingDeleted(i)',
                        \A x \in Requests : ~Awaits(req'[x], i, e)
                 PROVE  KeyOf(i, e)' = fullPath'[row'[i].group]
      BY DEF KeysWritten, Steady, Awaits
    <2>1. /\ Present(o.id)
          /\ Without({"moved"}) /\ Without({"renamed"}) /\ Steady
      BY <1>2, LateIs DEF Steady, Without
    <2>2. o.id \in Ids
      BY <1>1, StateIs, ConstantsAre DEF Shaped, Makers, Ids, Ind, TypeOK
    <2>3. /\ row[o.id].slug = o.slug /\ row[o.id].group = o.group /\ row[o.id].cluster = o.cluster
          /\ o.path = fullPath[o.group]
      BY <1>1, <2>1 DEF Agrees, ReadsPath, Makers
    <2>4. Present(i) /\ ~BeingDeleted(i)
      BY <1>5, DeletionsStay DEF Present, Steady, Without, Ind, Moves, Filing
    <2>5. PICK x \in Files : x = <<ClusterName(row[i].cluster), row[i].slug, e>>
      BY <2>4, RowIsTyped, RowIs, ClusterNameIs DEF Files
    <2>6. KeyOf(i, e) = secretFile[x] /\ KeyOf(i, e)' = secretFile'[x]
      BY <2>5 DEF KeyOf
    <2>7. CASE x = f
      <3>1. row[i].slug = o.slug
        BY <1>3, <2>5, <2>7
      <3>2. i = o.id
        BY <3>1, <2>1, <2>2, <2>3, <2>4 DEF Ind, RowsSound
      <3> QED
        BY <3>2, <2>3, <2>6, <2>7, <1>4
    <2>8. CASE x # f
      <3>1. \A y \in Requests \ {r} : ~Awaits(req[y], i, e)
        BY MovesIs DEF Ind
      <3>2. ~Awaits(o, i, e)
        <4> SUFFICES ASSUME o.id = i, o.env = "dev" \/ e = "prod" PROVE FALSE
          BY DEF Awaits
        <4>1. e # o.env
          BY <1>3, <2>3, <2>5, <2>8
        <4>2. o.env = "dev" /\ e = "prod"
          BY <1>1, <4>1, StateIs DEF Envs
        <4>3. Awaits(q, i, e) /\ req'[r] = q
          BY <4>2, MovesIs DEF Awaits, Ind
        <4> QED
          BY <4>3
      <3>3. KeyOf(i, e) = fullPath[row[i].group]
        BY <3>1, <3>2, <2>1, <2>4 DEF Ind, KeysWritten, Steady
      <3> QED
        BY <3>3, <2>6, <2>8, <1>4
    <2> QED
      BY <2>7, <2>8
  <1>8. ASSUME Calm'
        PROVE  (SecretFilesKept /\ ValuesKept /\ ArgoKept /\ VaultKept /\ TemplatesKept)'
    <2>1. SecretFilesKept /\ ValuesKept /\ ArgoKept /\ VaultKept /\ TemplatesKept
      BY <1>2, <1>8, MishapsGrow DEF Ind, LeftoversKept, Calm
    <2>2. \A P : P \subseteq DeletePcs => Advances(r, q, P)
      BY DEF Advances, Filed
    <2>3. /\ Advances(r, q, DeletePcs \ {"delApps"}) /\ Advances(r, q, {"delRow"})
          /\ Advances(r, q, {"delProject", "delVault", "delRow"})
          /\ Advances(r, q, {"delVault", "delRow"})
      BY <2>2 DEF DeletePcs
    <2>4. ValuesKept' /\ ArgoKept' /\ VaultKept'
      BY <1>6, <2>1, <2>3, ValuesStay, ArgoStay, VaultStay DEF Ind
    <2>5. \A p \in Projects : ~Tidies(req[r], p)
      BY DEF Tidies
    <2>6. TemplatesKept'
      BY <1>6, <2>1, <2>3, <2>5, TemplatesStay DEF Ind
    <2>7. SecretFilesKept'
      <3> SUFFICES ASSUME NEW x \in Files, secretFile'[x] # None
                   PROVE  \E i \in Ids : Keeps(i, x[2], DeletePcs \ {"delApps"})' /\ In(i, x[1])'
        BY DEF SecretFilesKept
      <3>1. CASE x = f
        <4>1. "late" \notin mishaps' /\ Without({"moved"}) /\ q.pc \notin DeletePcs
              /\ DeletePcs \ {"delApps"} \subseteq DeletePcs /\ o.pc \in {"env"} \cup Makers
          BY <1>2, <1>8 DEF Calm, Without, Filed, Makers
        <4>2. /\ o.id \in Ids /\ Keeps(o.id, o.slug, DeletePcs \ {"delApps"})'
              /\ In(o.id, ClusterName(o.cluster))'
          BY <1>6, <4>1, WriterKeeps
        <4>3. x[1] = ClusterName(o.cluster) /\ x[2] = o.slug
          BY <1>3, <3>1
        <4> QED
          BY <4>2, <4>3
      <3>2. CASE x # f
        <4>1. PICK i \in Ids : Keeps(i, x[2], DeletePcs \ {"delApps"}) /\ In(i, x[1])
          BY <1>4, <2>1, <3>2 DEF SecretFilesKept
        <4>2. Keeps(i, x[2], DeletePcs \ {"delApps"})'
          BY <1>6, <2>3, <4>1, KeepsStays DEF Ind
        <4> QED
          BY <4>1, <4>2 DEF In
      <3> QED
        BY <3>1, <3>2
    <2> QED
      BY <2>4, <2>6, <2>7
  <1> QED
    BY <1>5, <1>7, <1>8, FileStep

\* Where a request stands after the files of secrets, and between two files.
LEMMA FiledIs ==
    ASSUME Ind, NEW r \in Requests, NEW o, o = req[r], o.pc \in {"secret", "ingress"}
    PROVE  /\ Filed(o, Idle) /\ Filed(o, AfterSecretFiles(o))
           /\ Filed(o, [o EXCEPT !.env = "prod"])
           /\ [o EXCEPT !.env = "prod"].pc = o.pc /\ [o EXCEPT !.env = "prod"].id = o.id
           /\ [o EXCEPT !.env = "prod"].env = "prod"
  <1>1. o \in RequestStates /\ Shaped(o) /\ Agrees(o) /\ ReadsPath(o)
    BY StandsIs
  <1>2. Filed(o, Idle)
    BY FirstAre, IdleIs DEF Filed, Shaped, Agrees, ReadsPath, Savers, Makers, DeletePcs
  <1> DEFINE q == [o EXCEPT !.env = "prod"]
  <1>3. q \in RequestStates
    BY <1>1 DEF RequestStates, Envs
  <1>4. /\ q.pc = o.pc /\ q.id = o.id /\ q.origin = o.origin /\ q.repo = o.repo /\ q.env = "prod"
        /\ q.group = o.group /\ q.slug = o.slug /\ q.cluster = o.cluster /\ q.path = o.path
    BY <1>1 DEF RequestStates
  <1> DEFINE s == [o EXCEPT !.pc = "ingress", !.env = "dev"]
  <1>5. s \in RequestStates
    BY <1>1 DEF RequestStates, Envs, Makers
  <1>6. /\ s.pc = "ingress" /\ s.id = o.id /\ s.origin = o.origin /\ s.repo = o.repo
        /\ s.group = o.group /\ s.slug = o.slug /\ s.cluster = o.cluster
    BY <1>1 DEF RequestStates
  <1>7. AfterSecretFiles(o) = s \/ AfterSecretFiles(o) = Idle
    BY DEF AfterSecretFiles
  <1> HIDE DEF q, s
  <1>8. Filed(o, q)
    <2>1. q.pc \in Makers /\ q.pc \notin {"idle", "env"} \cup Savers \cup DeletePcs /\ o.pc \in Makers
          /\ q.pc \notin {"inject", "save", "ci"}
      BY <1>4 DEF Makers, Savers, DeletePcs
    <2>2. Shaped(q)
      BY <1>1, <1>4, <2>1 DEF Shaped, Savers, DeletePcs
    <2>3. Agrees(q) /\ ReadsPath(q)
      BY <1>1, <1>4, <2>1 DEF Agrees, ReadsPath
    <2> QED
      BY <1>3, <2>1, <2>2, <2>3 DEF Filed
  <1>9. Filed(o, s)
    <2>1. Shaped(s)
      BY <1>1, <1>6 DEF Shaped, Savers, Makers, DeletePcs
    <2>2. Agrees(s) /\ ReadsPath(s)
      BY <1>1, <1>6 DEF Agrees, ReadsPath, Makers
    <2> QED
      BY <1>5, <1>6, <2>1, <2>2 DEF Filed, DeletePcs
  <1>10. q = [o EXCEPT !.env = "prod"]
    BY DEF q
  <1> QED
    BY <1>2, <1>4, <1>7, <1>8, <1>9, <1>10

\* A file that could not be written.
LEMMA FilingFails ==
    ASSUME Ind, NEW r \in Requests, NEW o, o = req[r], o.pc \in {"secret", "ingress"},
           NEW q, Filed(o, q), Goes(r, q), Note({"fail"}),
           UNCHANGED <<row, last, project, fullPath, secretFile, values, argocd, vault, started>>
    PROVE  Ind'
  <1>1. mishaps \subseteq mishaps' /\ "fail" \in mishaps' /\ mishaps' \subseteq Kinds
    BY NoteIs DEF Ind
  <1>2. Quiet(r, q)
    BY <1>1 DEF Quiet, Moves, Filed, Ind, TypeOK
  <1>3. Fits(r, q)
    BY <1>1 DEF Fits, Filed, Persists, DeletePcs
  <1> QED
    BY <1>2, <1>3, QuietStep

\* PushesSecretFile.
LEMMA PushesSecretFileStep ==
    ASSUME Ind, NEW r \in Requests, PushesSecretFile(r)
    PROVE  Ind'
  <1>1. PICK o : o = req[r] /\ o.pc = "secret"
    BY DEF PushesSecretFile
  <1>2. UNCHANGED <<row, last, project, fullPath, values, argocd, vault, started>>
    BY DEF PushesSecretFile
  <1>3. CASE /\ secretFile' = upsert_externalsecret(<<ClusterName(o.cluster), o.slug, o.env>>, o.path)
             /\ Goes(r, IF o.env = "dev" THEN [o EXCEPT !.env = "prod"] ELSE AfterSecretFiles(o))
             /\ LateIf(r)
    <2>1. PICK q : q = IF o.env = "dev" THEN [o EXCEPT !.env = "prod"] ELSE AfterSecretFiles(o)
      OBVIOUS
    <2>2. Filed(o, q) /\ (o.env = "dev" => q.pc = "secret" /\ q.id = o.id /\ q.env = "prod")
      BY <1>1, <2>1, FiledIs
    <2>3. Goes(r, q)
      BY <1>3, <2>1
    <2> QED
      BY <1>1, <1>2, <1>3, <2>2, <2>3, SecretFileStep
  <1>4. CASE Goes(r, AfterSecretFiles(o)) /\ Note({"fail"}) /\ UNCHANGED secretFile
    BY <1>1, <1>2, <1>4, FiledIs, FilingFails
  <1> QED
    BY <1>1, <1>3, <1>4 DEF PushesSecretFile

\* A values file is written.
LEMMA IngressStep ==
    ASSUME Ind, NEW r \in Requests, NEW o, o = req[r], o.pc = "ingress", NEW q, Filed(o, q),
           Goes(r, q), values' = upsert_gitops_ingress(<<ClusterName(o.cluster), o.slug, o.env>>),
           LateIf(r), UNCHANGED <<row, last, project, fullPath, secretFile, argocd, vault, started>>
    PROVE  Ind'
  <1>1. o \in RequestStates
    BY StandsIs
  <1>2. /\ mishaps \subseteq mishaps' /\ mishaps' \subseteq Kinds
    BY LateIs
  <1>3. PICK f \in Files : f = <<ClusterName(o.cluster), o.slug, o.env>>
    BY <1>1, StateIs, ClusterNameIs DEF Files
  <1>4. values' = values \cup {f}
    BY <1>3 DEF upsert_gitops_ingress
  <1>5. Filing(r, q)
    BY <1>2, <1>4 DEF Filing, Moves, Filed, Persists, DeletePcs, Ind, TypeOK
  <1>6. Alike
    BY SameAlike
  <1>7. KeysWritten'
    <2>1. \A i \in Ids, e \in Envs : ~Awaits(req[r], i, e)
      BY DEF Awaits
    <2> QED
      BY <1>5, <1>6, <2>1, KeysStay DEF Filing
  <1>8. ASSUME Calm'
        PROVE  (SecretFilesKept /\ ValuesKept /\ ArgoKept /\ VaultKept /\ TemplatesKept)'
    <2>1. SecretFilesKept /\ ValuesKept /\ ArgoKept /\ VaultKept /\ TemplatesKept
      BY <1>2, <1>8, MishapsGrow DEF Ind, LeftoversKept, Calm
    <2>2. \A P : P \subseteq DeletePcs => Advances(r, q, P)
      BY DEF Advances, Filed
    <2>3. /\ Advances(r, q, DeletePcs \ {"delApps"}) /\ Advances(r, q, {"delRow"})
          /\ Advances(r, q, {"delProject", "delVault", "delRow"})
          /\ Advances(r, q, {"delVault", "delRow"})
      BY <2>2 DEF DeletePcs
    <2>4. SecretFilesKept' /\ ArgoKept' /\ VaultKept'
      BY <1>6, <2>1, <2>3, SecretFilesStay, ArgoStay, VaultStay DEF Ind
    <2>5. \A p \in Projects : ~Tidies(req[r], p)
      BY DEF Tidies
    <2>6. TemplatesKept'
      BY <1>6, <2>1, <2>3, <2>5, TemplatesStay DEF Ind
    <2>7. ValuesKept'
      <3> SUFFICES ASSUME NEW x \in values'
                   PROVE  \E i \in Ids : Keeps(i, x[2], DeletePcs \ {"delApps"})' /\ In(i, x[1])'
        BY DEF ValuesKept
      <3>1. CASE x = f
        <4>1. "late" \notin mishaps' /\ Without({"moved"}) /\ q.pc \notin DeletePcs
              /\ DeletePcs \ {"delApps"} \subseteq DeletePcs /\ o.pc \in {"env"} \cup Makers
          BY <1>2, <1>8 DEF Calm, Without, Filed, Makers
        <4>2. /\ o.id \in Ids /\ Keeps(o.id, o.slug, DeletePcs \ {"delApps"})'
              /\ In(o.id, ClusterName(o.cluster))'
          BY <1>6, <4>1, WriterKeeps
        <4>3. x[1] = ClusterName(o.cluster) /\ x[2] = o.slug
          BY <1>3, <3>1
        <4> QED
          BY <4>2, <4>3
      <3>2. CASE x # f
        <4>1. PICK i \in Ids : Keeps(i, x[2], DeletePcs \ {"delApps"}) /\ In(i, x[1])
          BY <1>4, <2>1, <3>2 DEF ValuesKept
        <4>2. Keeps(i, x[2], DeletePcs \ {"delApps"})'
          BY <1>6, <2>3, <4>1, KeepsStays DEF Ind
        <4> QED
          BY <4>1, <4>2 DEF In
      <3> QED
        BY <3>1, <3>2
    <2> QED
      BY <2>4, <2>6, <2>7
  <1> QED
    BY <1>5, <1>7, <1>8, FileStep

\* PushesIngress.
LEMMA PushesIngressStep ==
    ASSUME Ind, NEW r \in Requests, PushesIngress(r)
    PROVE  Ind'
  <1>1. PICK o : o = req[r] /\ o.pc = "ingress"
    BY DEF PushesIngress
  <1>2. UNCHANGED <<row, last, project, fullPath, secretFile, argocd, vault, started>>
    BY DEF PushesIngress
  <1>3. CASE /\ values' = upsert_gitops_ingress(<<ClusterName(o.cluster), o.slug, o.env>>)
             /\ Goes(r, IF o.env = "dev" THEN [o EXCEPT !.env = "prod"] ELSE Idle)
             /\ LateIf(r)
    <2>1. PICK q : q = IF o.env = "dev" THEN [o EXCEPT !.env = "prod"] ELSE Idle
      OBVIOUS
    <2>2. Filed(o, q)
      BY <1>1, <2>1, FiledIs
    <2>3. Goes(r, q)
      BY <1>3, <2>1
    <2> QED
      BY <1>1, <1>2, <1>3, <2>2, <2>3, IngressStep
  <1>4. CASE Ends(r) /\ Note({"fail"}) /\ UNCHANGED values
    BY <1>1, <1>2, <1>4, FiledIs, FilingFails DEF Ends
  <1> QED
    BY <1>1, <1>3, <1>4 DEF PushesIngress

\* EnvWrites: a secret is written to Vault.
LEMMA EnvWritesStep ==
    ASSUME Ind, NEW r \in Requests, EnvWrites(r)
    PROVE  Ind'
  <1>1. PICK o \in RequestStates : o = req[r] /\ o.pc = "env"
    BY StandsIs DEF EnvWrites
  <1>2. /\ mishaps \subseteq mishaps' /\ mishaps' \subseteq Kinds
    BY LateIs DEF EnvWrites
  <1>3. PICK v \in Paths \X Slugs \X Envs : v = <<fullPath[o.group], o.slug, o.env>>
    BY <1>1, StateIs DEF Ind, TypeOK
  <1>4. vault' = vault \cup {v}
    BY <1>1, <1>3 DEF EnvWrites
  <1>5. Goes(r, Idle) /\ LateIf(r) /\ Alike
    BY SameAlike DEF EnvWrites, Ends
  <1>6. Filing(r, Idle)
    BY <1>1, <1>2, <1>4, <1>5, FirstAre, IdleIs
    DEF Filing, Moves, EnvWrites, Shaped, Agrees, ReadsPath, Persists, Savers, Makers, DeletePcs,
        Ind, TypeOK
  <1>7. KeysWritten'
    <2>1. \A i \in Ids, e \in Envs : ~Awaits(req[r], i, e)
      BY <1>1 DEF Awaits
    <2> QED
      BY <1>5, <1>6, <2>1, KeysStay DEF Filing, EnvWrites
  <1>8. ASSUME Calm'
        PROVE  (SecretFilesKept /\ ValuesKept /\ ArgoKept /\ VaultKept /\ TemplatesKept)'
    <2>1. SecretFilesKept /\ ValuesKept /\ ArgoKept /\ VaultKept /\ TemplatesKept
      BY <1>2, <1>8, MishapsGrow DEF Ind, LeftoversKept, Calm
    <2>2. \A P : P \subseteq DeletePcs => Advances(r, Idle, P)
      BY IdleIs DEF Advances, DeletePcs
    <2>3. /\ Advances(r, Idle, DeletePcs \ {"delApps"}) /\ Advances(r, Idle, {"delRow"})
          /\ Advances(r, Idle, {"delProject", "delVault", "delRow"})
          /\ Advances(r, Idle, {"delVault", "delRow"})
      BY <2>2 DEF DeletePcs
    <2>4. SecretFilesKept' /\ ValuesKept' /\ ArgoKept'
      BY <1>5, <2>1, <2>3, SecretFilesStay, ValuesStay, ArgoStay DEF Ind, EnvWrites
    <2>5. \A p \in Projects : ~Tidies(req[r], p)
      BY <1>1 DEF Tidies
    <2>6. TemplatesKept'
      BY <1>5, <2>1, <2>3, <2>5, TemplatesStay DEF Ind, EnvWrites
    <2>7. VaultKept'
      <3> SUFFICES ASSUME NEW x \in vault'
                   PROVE  \E i \in Ids : /\ Keeps(i, x[2], {"delRow"})'
                                         /\ fullPath[row'[i].group] = x[1]
        BY DEF VaultKept, EnvWrites
      <3>1. CASE x = v
        <4>1. "late" \notin mishaps' /\ Idle.pc \notin DeletePcs /\ {"delRow"} \subseteq DeletePcs
              /\ o.pc \in {"env"} \cup Makers
          BY <1>1, <1>8, IdleIs DEF Calm, Without, DeletePcs
        <4>2. o.id \in Ids /\ Keeps(o.id, o.slug, {"delRow"})' /\ row'[o.id].group = o.group
          BY <1>1, <1>5, <4>1, WriterKeeps
        <4>3. x[1] = fullPath[o.group] /\ x[2] = o.slug
          BY <1>3, <3>1
        <4> QED
          BY <4>2, <4>3
      <3>2. CASE x # v
        <4>1. PICK i \in Ids : Keeps(i, x[2], {"delRow"}) /\ fullPath[row[i].group] = x[1]
          BY <1>4, <2>1, <3>2 DEF VaultKept
        <4>2. Keeps(i, x[2], {"delRow"})'
          BY <1>5, <2>3, <4>1, KeepsStays DEF Ind
        <4> QED
          BY <4>1, <4>2 DEF EnvWrites
      <3> QED
        BY <3>1, <3>2
    <2> QED
      BY <2>4, <2>6, <2>7
  <1> QED
    BY <1>6, <1>7, <1>8, FileStep

\* A deletion step that worked, as a step on files.
LEMMA DeletionFiles ==
    ASSUME Ind, NEW r \in Requests, NEW q, NEW pc \in DeletePcs, req[r].pc \in DeletePcs,
           GoesOn(r, q, pc), Note(When(~Present(req[r].id), "late")),
           UNCHANGED <<row, last, project, fullPath, started>>,
           secretFile' \in [Files -> Paths \cup {None}], values' \subseteq values,
           argocd' \subseteq argocd, vault' \subseteq vault
    PROVE  /\ Filing(r, q) /\ Alike
           /\ mishaps \subseteq mishaps'
           /\ "late" \notin mishaps' => Present(req[r].id)
           /\ \A i \in Ids, e \in Envs : ~Awaits(req[r], i, e)
           /\ \A p \in Projects : ~Tidies(req[r], p)
  <1>1. /\ mishaps \subseteq mishaps' /\ mishaps' \subseteq Kinds
        /\ "late" \notin mishaps' => Present(req[r].id)
    BY NoteIs DEF Ind, When
  <1>2. Filing(r, q)
    BY <1>1 DEF Filing, Moves, GoesOn, DeletePcs, Ind, TypeOK
  <1>3. /\ \A i \in Ids, e \in Envs : ~Awaits(req[r], i, e)
        /\ \A p \in Projects : ~Tidies(req[r], p)
    BY DEF Awaits, Tidies, DeletePcs
  <1> QED
    BY <1>1, <1>2, <1>3, SameAlike

\* DeletesAppFiles.
LEMMA DeletesAppFilesStep ==
    ASSUME Ind, NEW r \in Requests, DeletesAppFiles(r)
    PROVE  Ind'
  <1>1. req[r].pc = "delApps" /\ req[r].pc \in DeletePcs /\ "delArgo" \in DeletePcs
    BY DEF DeletesAppFiles, DeletePcs
  <1>2. PICK q : GoesOn(r, q, "delArgo")
    BY <1>1, DeletionGoesOn DEF DeletesAppFiles
  <1>3. CASE UNCHANGED <<secretFile, values>> /\ Note({"fail"})
    BY <1>1, <1>2, <1>3, DeletionFails DEF DeletesAppFiles
  <1>4. CASE /\ secretFile' = [f \in DOMAIN secretFile |->
                                  IF InDir(f, req[r]) THEN None ELSE secretFile[f]]
             /\ values' = {f \in values : ~InDir(f, req[r])}
             /\ Note({} \cup When(~Present(req[r].id), "late"))
    <2>1. PICK o \in RequestStates : o = req[r]
      BY StandsIs
    <2>2. /\ secretFile' \in [Files -> Paths \cup {None}]
          /\ \A f \in Files : secretFile'[f] = IF InDir(f, o) THEN None ELSE secretFile[f]
      BY <1>4, <2>1 DEF Ind, TypeOK
    <2>3. values' = {f \in values : ~InDir(f, o)} /\ Note(When(~Present(o.id), "late"))
      <3>1. {} \cup When(~Present(o.id), "late") = When(~Present(o.id), "late")
        OBVIOUS
      <3> QED
        BY <1>4, <2>1, <3>1
    <2>4. UNCHANGED <<row, last, project, fullPath, argocd, vault, started>>
      BY DEF DeletesAppFiles
    <2>5. /\ Filing(r, q) /\ Alike
          /\ mishaps \subseteq mishaps'
          /\ "late" \notin mishaps' => Present(o.id)
          /\ \A i \in Ids, e \in Envs : ~Awaits(req[r], i, e)
          /\ \A p \in Projects : ~Tidies(req[r], p)
      BY <1>1, <1>2, <2>1, <2>2, <2>3, <2>4, DeletionFiles
    <2>6. /\ o.id \in Ids
          /\ Present(o.id) => /\ row[o.id].slug = o.slug
                              /\ Without({"moved"}) => row[o.id].cluster = o.cluster
      BY <1>1, <2>1, DeletedAgrees
    <2>7. KeysWritten'
      <3> SUFFICES ASSUME Steady', NEW i \in Ids, NEW e \in Envs, Present(i)', ~BeingDeleted(i)',
                          \A x \in Requests : ~Awaits(req'[x], i, e)
                   PROVE  KeyOf(i, e)' = fullPath'[row'[i].group]
        BY DEF KeysWritten, Steady, Awaits
      <3>1. Present(i) /\ ~BeingDeleted(i) /\ Steady /\ "late" \notin mishaps'
        BY <2>4, <2>5, DeletionsStay DEF Present, Steady, Without, Ind, Moves, Filing
      <3>2. \A x \in Requests : ~Awaits(req[x], i, e)
        BY <1>2, <2>5, MovesIs DEF Ind, GoesOn
      <3>3. KeyOf(i, e) = fullPath[row[i].group]
        BY <3>1, <3>2 DEF Ind, KeysWritten, Steady
      <3>4. o.id # i
        BY <1>1, <2>1, <3>1 DEF BeingDeleted
      <3>5. row[i].slug # o.slug
        BY <2>5, <2>6, <3>1, <3>4 DEF Ind, RowsSound
      <3>6. PICK x \in Files : x = <<ClusterName(row[i].cluster), row[i].slug, e>>
        BY <3>1, RowIsTyped, RowIs, ClusterNameIs DEF Files
      <3>7. KeyOf(i, e) = secretFile[x] /\ KeyOf(i, e)' = secretFile'[x]
        BY <3>6, <2>4 DEF KeyOf
      <3>8. ~InDir(x, o)
        BY <3>5, <3>6 DEF InDir
      <3> QED
        BY <2>2, <2>4, <3>3, <3>7, <3>8
    <2>8. ASSUME Calm'
          PROVE  (SecretFilesKept /\ ValuesKept /\ ArgoKept /\ VaultKept /\ TemplatesKept)'
      <3>1. SecretFilesKept /\ ValuesKept /\ ArgoKept /\ VaultKept /\ TemplatesKept
        BY <2>5, <2>8, MishapsGrow DEF Ind, LeftoversKept, Calm
      <3>2. /\ Advances(r, q, {"delRow"}) /\ Advances(r, q, {"delProject", "delVault", "delRow"})
            /\ Advances(r, q, {"delVault", "delRow"})
        BY <1>2 DEF Advances, GoesOn
      <3>3. ArgoKept' /\ VaultKept' /\ TemplatesKept'
        BY <1>2, <2>4, <2>5, <3>1, <3>2, ArgoStay, VaultStay, TemplatesStay DEF Ind, GoesOn
      <3>4. Without({"moved"})
        BY <2>5, <2>8 DEF Calm, Without
      <3>5. ASSUME NEW f, ~InDir(f, o), NEW i \in Ids, Keeps(i, f[2], DeletePcs \ {"delApps"}),
                   In(i, f[1])
            PROVE  Keeps(i, f[2], DeletePcs \ {"delApps"})' /\ In(i, f[1])'
        <4>1. q.id # i
          BY <1>2, <2>1, <2>6, <3>4, <3>5 DEF GoesOn, Keeps, In, InDir
        <4> QED
          BY <1>2, <2>4, <2>5, <3>5, <4>1, KeepsStays DEF Ind, GoesOn, In
      <3>6. SecretFilesKept'
        <4> SUFFICES ASSUME NEW f \in Files, secretFile'[f] # None
                     PROVE  \E i \in Ids : Keeps(i, f[2], DeletePcs \ {"delApps"})' /\ In(i, f[1])'
          BY DEF SecretFilesKept
        <4>1. ~InDir(f, o) /\ secretFile[f] # None
          BY <2>2
        <4> QED
          BY <3>1, <3>5, <4>1 DEF SecretFilesKept
      <3>7. ValuesKept'
        <4> SUFFICES ASSUME NEW f \in values'
                     PROVE  \E i \in Ids : Keeps(i, f[2], DeletePcs \ {"delApps"})' /\ In(i, f[1])'
          BY DEF ValuesKept
        <4>1. ~InDir(f, o) /\ f \in values
          BY <2>3
        <4> QED
          BY <3>1, <3>5, <4>1 DEF ValuesKept
      <3> QED
        BY <3>3, <3>6, <3>7
    <2> QED
      BY <2>5, <2>7, <2>8, FileStep
  <1> QED
    BY <1>3, <1>4 DEF DeletesAppFiles, Attempt

\* DeletesArgoFiles.
LEMMA DeletesArgoFilesStep ==
    ASSUME Ind, NEW r \in Requests, DeletesArgoFiles(r)
    PROVE  Ind'
  <1>1. PICK o \in RequestStates : o = req[r] /\ o.pc = "delArgo" /\ o.pc \in DeletePcs
    BY StandsIs DEF DeletesArgoFiles, DeletePcs
  <1>2. PICK pc \in DeletePcs : /\ pc = AfterArgo(o)
                                /\ pc = IF o.origin = "scaffolded" THEN "delProject" ELSE "delVault"
    BY DEF AfterArgo, DeletePcs
  <1>3. PICK q : GoesOn(r, q, pc)
    BY <1>1, <1>2, DeletionGoesOn DEF DeletesArgoFiles
  <1>4. CASE UNCHANGED argocd /\ Note({"fail"})
    BY <1>1, <1>2, <1>3, <1>4, DeletionFails DEF DeletesArgoFiles
  <1>5. CASE /\ argocd' = {d \in argocd : ~InDir(d, req[r])}
             /\ Note({} \cup When(~Present(req[r].id), "late"))
    <2>1. argocd' = {d \in argocd : ~InDir(d, o)} /\ Note(When(~Present(o.id), "late"))
      <3>1. {} \cup When(~Present(o.id), "late") = When(~Present(o.id), "late")
        OBVIOUS
      <3> QED
        BY <1>1, <1>5, <3>1
    <2>2. UNCHANGED <<row, last, project, fullPath, secretFile, values, vault, started>>
      BY DEF DeletesArgoFiles
    <2>3. /\ Filing(r, q) /\ Alike
          /\ mishaps \subseteq mishaps'
          /\ "late" \notin mishaps' => Present(o.id)
          /\ \A i \in Ids, e \in Envs : ~Awaits(req[r], i, e)
          /\ \A p \in Projects : ~Tidies(req[r], p)
      BY <1>1, <1>2, <1>3, <2>1, <2>2, DeletionFiles DEF Ind, TypeOK
    <2>4. /\ o.id \in Ids
          /\ Present(o.id) => /\ row[o.id].slug = o.slug /\ row[o.id].origin = o.origin
                              /\ Without({"moved"}) => row[o.id].cluster = o.cluster
      BY <1>1, DeletedAgrees
    <2>5. KeysWritten'
      BY <2>2, <2>3, KeysStay DEF Filing
    <2>6. ASSUME Calm'
          PROVE  (SecretFilesKept /\ ValuesKept /\ ArgoKept /\ VaultKept /\ TemplatesKept)'
      <3>1. SecretFilesKept /\ ValuesKept /\ ArgoKept /\ VaultKept /\ TemplatesKept
        BY <2>3, <2>6, MishapsGrow DEF Ind, LeftoversKept, Calm
      <3>2. Advances(r, q, {"delRow"}) /\ Advances(r, q, DeletePcs \ {"delApps"})
        BY <1>1, <1>2, <1>3 DEF Advances, GoesOn, DeletePcs
      <3>3. SecretFilesKept' /\ ValuesKept' /\ VaultKept'
        BY <1>3, <2>2, <2>3, <3>1, <3>2, SecretFilesStay, ValuesStay, VaultStay DEF Ind, GoesOn
      <3>4. Without({"moved"})
        BY <2>3, <2>6 DEF Calm, Without
      <3>5. ArgoKept'
        <4> SUFFICES ASSUME NEW d \in argocd'
                     PROVE  \E i \in Ids : /\ Keeps(i, d[2], {"delProject", "delVault", "delRow"})'
                                           /\ In(i, d[1])'
          BY DEF ArgoKept
        <4>1. ~InDir(d, o) /\ d \in argocd
          BY <2>1
        <4>2. PICK i \in Ids : Keeps(i, d[2], {"delProject", "delVault", "delRow"}) /\ In(i, d[1])
          BY <3>1, <4>1 DEF ArgoKept
        <4>3. q.id # i
          BY <1>1, <1>3, <2>4, <3>4, <4>1, <4>2 DEF GoesOn, Keeps, In, InDir
        <4>4. Keeps(i, d[2], {"delProject", "delVault", "delRow"})'
          BY <1>3, <2>3, <4>2, <4>3, KeepsStays DEF Ind, GoesOn
        <4> QED
          BY <2>2, <4>2, <4>4 DEF In
      <3>6. TemplatesKept'
        <4>1. CASE o.origin = "scaffolded"
          <5>1. Advances(r, q, {"delVault", "delRow"})
            BY <1>2, <1>3, <4>1 DEF Advances, GoesOn
          <5> QED
            BY <1>3, <2>2, <2>3, <3>1, <5>1, TemplatesStay DEF Ind, GoesOn
        <4>2. CASE o.origin # "scaffolded"
          <5> SUFFICES ASSUME NEW p \in Projects, project[p].template
                       PROVE  Housed(p)' \/ \E x \in Requests : Tidies(req'[x], p)
            BY <2>2 DEF TemplatesKept, Tidies, Housed
          <5>1. CASE \E x \in Requests : Tidies(req[x], p)
            <6>1. PICK x \in Requests : Tidies(req[x], p)
              BY <5>1
            <6>2. x # r
              BY <2>3, <6>1
            <6> QED
              BY <1>3, <6>1, <6>2, MovesIs DEF GoesOn, Ind
          <5>2. CASE Housed(p)
            <6>1. PICK i \in Ids : /\ Keeps(i, p[2], {"delVault", "delRow"})
                                   /\ row[i].repo = p /\ row[i].origin = "scaffolded"
              BY <5>2 DEF Housed
            <6>2. q.id # i
              BY <1>1, <1>3, <2>4, <4>2, <6>1 DEF GoesOn, Keeps
            <6>3. Keeps(i, p[2], {"delVault", "delRow"})'
              BY <1>3, <2>3, <6>1, <6>2, KeepsStays DEF Ind, GoesOn
            <6> QED
              BY <2>2, <6>1, <6>3 DEF Housed
          <5> QED
            BY <3>1, <5>1, <5>2 DEF TemplatesKept, Tidies, Housed
        <4> QED
          BY <4>1, <4>2
      <3> QED
        BY <3>3, <3>5, <3>6
    <2> QED
      BY <2>3, <2>5, <2>6, FileStep
  <1> QED
    BY <1>4, <1>5 DEF DeletesArgoFiles, Attempt

\* DeletesSecrets.
LEMMA DeletesSecretsStep ==
    ASSUME Ind, NEW r \in Requests, DeletesSecrets(r)
    PROVE  Ind'
  <1>1. PICK o \in RequestStates : o = req[r] /\ o.pc = "delVault" /\ o.pc \in DeletePcs
    BY StandsIs DEF DeletesSecrets, DeletePcs
  <1>2. "delRow" \in DeletePcs
    BY DEF DeletePcs
  <1>3. PICK q : GoesOn(r, q, "delRow")
    BY <1>1, <1>2, DeletionGoesOn DEF DeletesSecrets
  <1>4. CASE vault' \subseteq vault /\ Note({"fail"})
    BY <1>1, <1>2, <1>3, <1>4, DeletionFails DEF DeletesSecrets
  <1>5. CASE vault' = vault \ SecretsOf(req[r]) /\ Note({} \cup When(~Present(req[r].id), "late"))
    <2>1. vault' = vault \ SecretsOf(o) /\ Note(When(~Present(o.id), "late"))
      <3>1. {} \cup When(~Present(o.id), "late") = When(~Present(o.id), "late")
        OBVIOUS
      <3> QED
        BY <1>1, <1>5, <3>1
    <2>2. UNCHANGED <<row, last, project, fullPath, secretFile, values, argocd, started>>
      BY DEF DeletesSecrets
    <2>3. /\ Filing(r, q) /\ Alike
          /\ mishaps \subseteq mishaps'
          /\ "late" \notin mishaps' => Present(o.id)
          /\ \A i \in Ids, e \in Envs : ~Awaits(req[r], i, e)
          /\ \A p \in Projects : ~Tidies(req[r], p)
      BY <1>1, <1>2, <1>3, <2>1, <2>2, DeletionFiles DEF Ind, TypeOK
    <2>4. /\ o.id \in Ids
          /\ Present(o.id) => row[o.id].slug = o.slug /\ row[o.id].group = o.group
      BY <1>1, DeletedAgrees
    <2>5. KeysWritten'
      BY <2>2, <2>3, KeysStay DEF Filing
    <2>6. ASSUME Calm'
          PROVE  (SecretFilesKept /\ ValuesKept /\ ArgoKept /\ VaultKept /\ TemplatesKept)'
      <3>1. SecretFilesKept /\ ValuesKept /\ ArgoKept /\ VaultKept /\ TemplatesKept
        BY <2>3, <2>6, MishapsGrow DEF Ind, LeftoversKept, Calm
      <3>2. /\ Advances(r, q, {"delVault", "delRow"}) /\ Advances(r, q, DeletePcs \ {"delApps"})
            /\ Advances(r, q, {"delProject", "delVault", "delRow"})
        BY <1>1, <1>3 DEF Advances, GoesOn, DeletePcs
      <3>3. SecretFilesKept' /\ ValuesKept' /\ ArgoKept' /\ TemplatesKept'
        BY <1>3, <2>2, <2>3, <3>1, <3>2, SecretFilesStay, ValuesStay, ArgoStay, TemplatesStay
        DEF Ind, GoesOn
      <3>4. VaultKept'
        <4> SUFFICES ASSUME NEW v \in vault'
                     PROVE  \E i \in Ids : /\ Keeps(i, v[2], {"delRow"})'
                                           /\ fullPath[row'[i].group] = v[1]
          BY <2>2 DEF VaultKept
        <4>1. v \notin SecretsOf(o) /\ v \in vault /\ v \in Paths \X Slugs \X Envs
          BY <2>1 DEF Ind, TypeOK
        <4>2. PICK i \in Ids : Keeps(i, v[2], {"delRow"}) /\ fullPath[row[i].group] = v[1]
          BY <3>1, <4>1 DEF VaultKept
        <4>3. ~(v[1] = fullPath[o.group] /\ v[2] = o.slug)
          BY <4>1 DEF SecretsOf
        <4>4. q.id # i
          BY <1>1, <1>3, <2>4, <4>2, <4>3 DEF GoesOn, Keeps
        <4>5. Keeps(i, v[2], {"delRow"})'
          BY <1>3, <2>3, <4>2, <4>4, KeepsStays DEF Ind, GoesOn
        <4> QED
          BY <2>2, <4>2, <4>5
      <3> QED
        BY <3>3, <3>4
    <2> QED
      BY <2>3, <2>5, <2>6, FileStep
  <1> QED
    BY <1>4, <1>5 DEF DeletesSecrets, Attempt

\* The row of a deletion goes.
LEMMA RowGoes ==
    ASSUME Ind, NEW r \in Requests, NEW n, n = req[r].id, req[r].pc = "delRow",
           row' = [row EXCEPT ![n] = NoRow], Goes(r, Idle),
           UNCHANGED <<last, project, fullPath, secretFile, values, argocd, vault, started, mishaps>>
    PROVE  Ind'
  <1>1. n \in Ids
    BY DeletedAgrees DEF DeletePcs
  <1>2. row' \in [Ids -> Rows] /\ ~Present(n)'
    BY <1>1, FirstAre DEF Ind, TypeOK, Present
  <1>3. \A i \in Ids : i # n => row'[i] = row[i]
    BY DEF Ind, TypeOK
  <1>4. ASSUME NEW i \in Ids, Present(i)' PROVE i # n /\ row'[i] = row[i] /\ Present(i)
    BY <1>2, <1>3, <1>4 DEF Present
  <1>5. \A x \in Requests : x # r => req'[x] = req[x]
    BY MovesIs DEF Ind
  <1>6. req'[r] = Idle /\ Idle \in RequestStates
    BY MovesIs, FirstAre DEF Ind
  <1>7. TypeOK'
    BY <1>2, <1>6 DEF Ind, TypeOK, Goes
  <1>8. RowsSound'
    <2>1. \A i \in Ids : Present(i)' => row'[i] = row[i] /\ Present(i)
      BY <1>4
    <2> QED
      BY <2>1 DEF Ind, RowsSound
  <1>9. RequestsSound'
    <2> SUFFICES ASSUME NEW x \in Requests
                 PROVE  (Shaped(req[x]) /\ Agrees(req[x]) /\ ReadsPath(req[x]))'
      BY DEF RequestsSound
    <2>1. CASE x = r
      BY <2>1, <1>6, IdleIs DEF Shaped, Agrees, ReadsPath, Savers, Makers, DeletePcs
    <2>2. CASE x # r
      <3>1. PICK y \in RequestStates : y = req[x] /\ y = req'[x]
                                       /\ Shaped(y) /\ Agrees(y) /\ ReadsPath(y)
        BY <2>2, <1>5, StandsIs
      <3>2. Shaped(req[x])'
        BY <3>1 DEF Shaped
      <3>3. Agrees(req[x])'
        <4>1. y.pc \in {"env"} \cup Makers \cup DeletePcs => y.id \in Ids
          BY <3>1, StateIs, ConstantsAre DEF Shaped, Ids, Ind, TypeOK
        <4>2. y.id \in Ids /\ Present(y.id)' => Present(y.id) /\ row'[y.id] = row[y.id]
          BY <1>4
        <4>3. Present(req[x].id)' => Present(y.id)'
          BY <3>1
        <4> QED
          BY <3>1, <4>1, <4>2, <4>3 DEF Agrees, Without
      <3>4. ReadsPath(req[x])'
        BY <3>1 DEF ReadsPath, Without
      <3> QED
        BY <3>2, <3>3, <3>4
    <2> QED
      BY <2>1, <2>2
  <1>10. PipelinesSound'
    <2> SUFFICES ASSUME NEW p \in Projects
                 PROVE  /\ project[p].ci # 0 => /\ project[p].ci <= last'
                                                /\ Present(project[p].ci)' => Reports(p, project[p].ci)'
                        /\ ~project[p].exists => project[p].ci = 0 /\ ~project[p].template
      BY DEF PipelinesSound
    <2>1. PICK i \in 0 .. MaxApps : i = project[p].ci
      BY DEF Ind, TypeOK, ProjectStates
    <2>2. i # 0 => i \in Ids
      BY <2>1, ConstantsAre DEF Ids
    <2>3. i # 0 /\ Present(i)' => row'[i] = row[i] /\ Present(i)
      BY <2>2, <1>4
    <2>4. Present(project[p].ci)' <=> Present(i)'
      BY <2>1
    <2> QED
      BY <2>1, <2>3, <2>4 DEF Ind, PipelinesSound, Reports, Without
  <1>11. Filled'
    BY <1>5, <1>6, IdleIs DEF Ind, Filled, Without
  <1>12. ASSUME NEW i \in Ids, i # n, ~BeingDeleted(i)'
         PROVE  ~BeingDeleted(i)
    BY <1>5, <1>12 DEF BeingDeleted
  <1>13. Injected'
    <2> SUFFICES ASSUME NEW x \in Requests, req'[x].pc = "ci", req'[x].ok,
                        req'[x].origin = "scaffolded", Present(req[x].id)',
                        ~BeingDeleted(req[x].id)', Unhurt'
                 PROVE  project[req'[x].repo].ci = req'[x].id
      BY DEF Injected, Unhurt
    <2>1. x # r /\ req'[x] = req[x]
      BY <1>5, <1>6, IdleIs
    <2>2. PICK y \in RequestStates : y = req[x] /\ Shaped(y)
      BY StandsIs
    <2>3. y.id \in Ids
      BY <2>1, <2>2, StateIs, ConstantsAre DEF Shaped, Ids, Makers, Ind, TypeOK
    <2>4. Present(y.id)' /\ ~BeingDeleted(y.id)'
      BY <2>1, <2>2
    <2>5. y.id # n /\ Present(y.id)
      BY <2>3, <2>4, <1>4
    <2>6. ~BeingDeleted(y.id)
      BY <2>3, <2>4, <2>5, <1>12
    <2> QED
      BY <2>1, <2>2, <2>5, <2>6 DEF Ind, Injected, Unhurt, Without
  <1>14. ScaffoldedProjectSound'
    <2> SUFFICES ASSUME NEW i \in Ids, Present(i)', row'[i].origin = "scaffolded",
                        ~BeingDeleted(i)', Unhurt'
                 PROVE  ProjectSound(i)'
      BY DEF ScaffoldedProjectSound, Unhurt
    <2>1. i # n /\ row'[i] = row[i] /\ Present(i)
      BY <1>4
    <2>2. ~BeingDeleted(i)
      BY <2>1, <1>12
    <2> QED
      BY <2>1, <2>2 DEF Ind, ScaffoldedProjectSound, Unhurt, Without, ProjectSound
  <1>15. KeysWritten'
    <2> SUFFICES ASSUME Steady', NEW i \in Ids, NEW e \in Envs, Present(i)', ~BeingDeleted(i)',
                        \A x \in Requests : ~Awaits(req'[x], i, e)
                 PROVE  KeyOf(i, e)' = fullPath[row'[i].group]
      BY DEF KeysWritten, Steady, Awaits
    <2>1. i # n /\ row'[i] = row[i] /\ Present(i)
      BY <1>4
    <2>2. ~BeingDeleted(i)
      BY <2>1, <1>12
    <2>3. \A x \in Requests : ~Awaits(req[x], i, e)
      BY <1>5 DEF Awaits
    <2>4. KeyOf(i, e) = fullPath[row[i].group]
      BY <2>1, <2>2, <2>3 DEF Ind, KeysWritten, Steady, Without
    <2> QED
      BY <2>1, <2>4 DEF KeyOf
  <1>16. LeftoversKept'
    <2>1. ASSUME NEW P, "delRow" \in P, "idle" \notin P PROVE Held(P)
      <3>1. Advances(r, Idle, P)
        BY <2>1, IdleIs DEF Advances
      <3>2. \A i \in Ids : \A s : Keeps(i, s, P) => row'[i] = row[i]
        BY <1>3, <2>1 DEF Keeps
      <3> QED
        BY <3>1, <3>2, HeldIs DEF Ind
    <2>2. /\ Held(DeletePcs \ {"delApps"}) /\ Held({"delProject", "delVault", "delRow"})
          /\ Held({"delRow"}) /\ Held({"delVault", "delRow"})
      BY <2>1 DEF DeletePcs
    <2>3. ASSUME NEW p \in Projects, NEW x \in Requests, Tidies(req[x], p)
          PROVE  \E y \in Requests : Tidies(req'[y], p)
      <3>1. x # r
        BY <2>3 DEF Tidies
      <3> QED
        BY <3>1, <2>3, <1>5
    <2> QED
      BY <2>2, <2>3, LeftoversHeld DEF Ind
  <1> QED
    BY <1>7, <1>8, <1>9, <1>10, <1>11, <1>13, <1>14, <1>15, <1>16 DEF Ind

\* DeletesRow.
LEMMA DeletesRowStep ==
    ASSUME Ind, NEW r \in Requests, DeletesRow(r)
    PROVE  Ind'
  <1>1. req[r].pc = "delRow" /\ Goes(r, Idle)
    BY DEF DeletesRow, Ends
  <1>2. UNCHANGED <<last, project, fullPath, secretFile, values, argocd, vault, started>>
    BY DEF DeletesRow
  <1>3. CASE row' = [row EXCEPT ![req[r].id] = NoRow] /\ UNCHANGED mishaps
    BY <1>1, <1>2, <1>3, RowGoes
  <1>4. CASE UNCHANGED row /\ Note({"stuck"})
    <2>1. mishaps \subseteq mishaps' /\ "stuck" \in mishaps' /\ mishaps' \subseteq Kinds
      BY <1>4, NoteIs DEF Ind
    <2>2. Quiet(r, Idle)
      BY <1>1, <1>2, <1>4, <2>1, EndsQuietly DEF Ends
    <2>3. Fits(r, Idle)
      BY <1>1, <2>1, IdleFits DEF Awaits
    <2> QED
      BY <2>2, <2>3, QuietStep
  <1> QED
    BY <1>3, <1>4 DEF DeletesRow

-----------------------------------------------------------------------------
(***************************************************************************)
(* Everybody else.                                                         *)
(***************************************************************************)

\* An application is moved to another cluster.
LEMMA UpdatesClusterStep ==
    ASSUME Ind, NEW n \in Ids, UpdatesCluster(n)
    PROVE  Ind'
  <1>1. PICK c \in Targets : row' = [row EXCEPT ![n].cluster = c]
    BY DEF UpdatesCluster
  <1>2. /\ mishaps \subseteq mishaps' /\ "moved" \in mishaps' /\ mishaps' \subseteq Kinds
    BY NoteIs DEF UpdatesCluster, Ind
  <1>3. UNCHANGED <<last, project, fullPath, secretFile, values, argocd, vault, req, started>>
    BY DEF UpdatesCluster
  <1>4. PICK w \in Rows : w = row[n]
    BY DEF Ind, TypeOK
  <1> DEFINE v == [w EXCEPT !.cluster = c]
  <1>5. v \in Rows
    BY DEF Rows
  <1>6. /\ v.slug = w.slug /\ v.repo = w.repo /\ v.origin = w.origin /\ v.group = w.group
        /\ v.ci = w.ci
    BY DEF Rows
  <1>7. row' = [row EXCEPT ![n] = v]
    BY <1>1, <1>4
  <1> HIDE DEF v
  <1>8. row' \in [Ids -> Rows]
    BY <1>5, <1>7 DEF Ind, TypeOK
  <1>9. \A i \in Ids : /\ row'[i].slug = row[i].slug /\ row'[i].repo = row[i].repo
                       /\ row'[i].origin = row[i].origin /\ row'[i].group = row[i].group
                       /\ row'[i].ci = row[i].ci
    BY <1>4, <1>6, <1>7 DEF Ind, TypeOK
  <1>10. TypeOK'
    BY <1>2, <1>3, <1>8 DEF Ind, TypeOK
  <1>11. RowsSound'
    BY <1>3, <1>9 DEF Ind, RowsSound, Present
  <1>12. RequestsSound'
    <2> SUFFICES ASSUME NEW x \in Requests
                 PROVE  (Shaped(req[x]) /\ Agrees(req[x]) /\ ReadsPath(req[x]))'
      BY DEF RequestsSound
    <2>1. PICK y \in RequestStates : y = req[x] /\ y = req'[x]
                                     /\ Shaped(y) /\ Agrees(y) /\ ReadsPath(y)
      BY <1>3, StandsIs
    <2>2. Shaped(req[x])'
      BY <2>1, <1>3 DEF Shaped
    <2>3. Agrees(req[x])'
      <3>1. y.pc \in {"env"} \cup Makers \cup DeletePcs => y.id \in Ids
        BY <2>1, StateIs, ConstantsAre DEF Shaped, Ids, Ind, TypeOK
      <3> QED
        BY <2>1, <3>1, <1>2, <1>9 DEF Agrees, Present, Without
    <2>4. ReadsPath(req[x])'
      BY <2>1, <1>2, <1>3 DEF ReadsPath, Without
    <2> QED
      BY <2>2, <2>3, <2>4
  <1>13. PipelinesSound'
    <2> SUFFICES ASSUME NEW p \in Projects
                 PROVE  /\ project[p].ci # 0 => /\ project[p].ci <= last'
                                                /\ Present(project[p].ci)' => Reports(p, project[p].ci)'
                        /\ ~project[p].exists => project[p].ci = 0 /\ ~project[p].template
      BY <1>3 DEF PipelinesSound
    <2>1. PICK i \in 0 .. MaxApps : i = project[p].ci /\ i = project'[p].ci
      BY <1>3 DEF Ind, TypeOK, ProjectStates
    <2>2. i # 0 => i \in Ids
      BY <2>1, ConstantsAre DEF Ids
    <2> QED
      BY <2>1, <2>2, <1>2, <1>3, <1>9 DEF Ind, PipelinesSound, Present, Reports, Without
  <1>14. Filled'
    BY <1>2, <1>3 DEF Ind, Filled, Without
  <1>15. Injected'
    <2> SUFFICES ASSUME NEW x \in Requests, req[x].pc = "ci", req[x].ok,
                        req[x].origin = "scaffolded", Present(req[x].id)',
                        ~BeingDeleted(req[x].id), Unhurt
                 PROVE  project[req[x].repo].ci = req[x].id
      BY <1>2, <1>3 DEF Injected, Unhurt, Without, BeingDeleted
    <2>1. PICK y \in RequestStates : y = req[x] /\ y = req'[x] /\ Shaped(y)
      BY <1>3, StandsIs
    <2>2. y.id \in Ids
      BY <2>1, StateIs, ConstantsAre DEF Shaped, Ids, Makers, Ind, TypeOK
    <2>3. Present(y.id)
      BY <2>1, <2>2, <1>9 DEF Present
    <2> QED
      BY <2>1, <2>3 DEF Ind, Injected, Unhurt
  <1>16. ScaffoldedProjectSound'
    BY <1>2, <1>3, <1>9 DEF Ind, ScaffoldedProjectSound, ProjectSound, Present, BeingDeleted, Without
  <1>17. KeysWritten' /\ LeftoversKept'
    BY <1>2 DEF KeysWritten, LeftoversKept, Without
  <1> QED
    BY <1>10, <1>11, <1>12, <1>13, <1>14, <1>15, <1>16, <1>17 DEF Ind

\* The parts about rows, requests and projects stay when those do.
LEMMA TheRestStays ==
    ASSUME Ind, mishaps \subseteq mishaps', UNCHANGED <<row, last, project, req>>,
           UNCHANGED fullPath \/ "renamed" \in mishaps'
    PROVE  /\ RowsSound' /\ RequestsSound' /\ PipelinesSound' /\ Filled' /\ Injected'
           /\ ScaffoldedProjectSound'
  <1>1. RowsSound' /\ PipelinesSound'
    BY SameAlike, RowsStay, PipelinesStay DEF Ind
  <1>2. RequestsSound'
    <2> SUFFICES ASSUME NEW x \in Requests
                 PROVE  (Shaped(req[x]) /\ Agrees(req[x]) /\ ReadsPath(req[x]))'
      BY DEF RequestsSound
    <2>1. Shaped(req[x]) /\ Agrees(req[x]) /\ ReadsPath(req[x])
      BY StandsIs
    <2>2. Shaped(req[x])'
      BY <2>1 DEF Shaped
    <2>3. Agrees(req[x])'
      BY <2>1 DEF Agrees, Present, Without
    <2>4. ReadsPath(req[x])'
      BY <2>1 DEF ReadsPath, Without
    <2> QED
      BY <2>2, <2>3, <2>4
  <1>3. Filled' /\ Injected'
    BY DEF Ind, Filled, Injected, Without, Present, BeingDeleted
  <1>4. ScaffoldedProjectSound'
    BY DEF Ind, ScaffoldedProjectSound, ProjectSound, Without, Present, BeingDeleted
  <1> QED
    BY <1>1, <1>2, <1>3, <1>4

\* A group is renamed.
LEMMA GroupRenamedStep ==
    ASSUME Ind, NEW g \in Groups, GroupRenamed(g)
    PROVE  Ind'
  <1>1. /\ mishaps \subseteq mishaps' /\ "renamed" \in mishaps' /\ mishaps' \subseteq Kinds
    BY NoteIs DEF GroupRenamed, Ind
  <1>2. TypeOK'
    BY <1>1 DEF Ind, TypeOK, GroupRenamed
  <1>3. KeysWritten' /\ LeftoversKept'
    BY <1>1 DEF KeysWritten, LeftoversKept, Without
  <1> QED
    BY <1>1, <1>2, <1>3, TheRestStays DEF Ind, GroupRenamed

\* A pipeline writes the manifests of the application it reports to.
LEMMA PipelineRunsStep ==
    ASSUME Ind, NEW p \in Projects, PipelineRuns(p)
    PROVE  Ind'
  <1>1. PICK x \in ProjectStates : x = project[p] /\ x.ci # 0
    BY DEF PipelineRuns, Ind, TypeOK
  <1>2. x.target \in Dirs /\ x.ci \in Ids /\ p[2] \in Slugs
    BY <1>1, ConstantsAre DEF ProjectStates, Ids, Projects
  <1>3. /\ argocd' = argocd \cup {<<x.target, p[2]>>}
        /\ values' = values \cup ({x.target} \X {p[2]} \X Envs)
    BY <1>1 DEF PipelineRuns
  <1>4. /\ mishaps \subseteq mishaps' /\ mishaps' \subseteq Kinds
        /\ "late" \notin mishaps' => Present(x.ci) /\ ~BeingDeleted(x.ci)
    <2>1. (~Present(x.ci) \/ BeingDeleted(x.ci)) \in BOOLEAN
      OBVIOUS
    <2>2. NoteIf(~Present(x.ci) \/ BeingDeleted(x.ci), "late")
      BY <1>1 DEF PipelineRuns
    <2> QED
      BY <2>1, <2>2, NoteIfIs DEF Ind
  <1>5. UNCHANGED <<row, last, project, fullPath, secretFile, vault, req, started>>
    BY DEF PipelineRuns
  <1>6. TypeOK'
    <2>1. argocd' \subseteq Dirs \X Slugs
      BY <1>2, <1>3 DEF Ind, TypeOK
    <2>2. values' \subseteq Files
      BY <1>2, <1>3 DEF Ind, TypeOK, Files
    <2> QED
      BY <1>4, <1>5, <2>1, <2>2 DEF Ind, TypeOK
  <1>7. KeysWritten'
    BY <1>4, <1>5 DEF Ind, KeysWritten, Without, Present, BeingDeleted, KeyOf
  <1>8. LeftoversKept'
    <2> SUFFICES ASSUME Calm'
                 PROVE  (SecretFilesKept /\ ValuesKept /\ ArgoKept /\ VaultKept /\ TemplatesKept)'
      BY DEF LeftoversKept, Calm
    <2>1. SecretFilesKept /\ ValuesKept /\ ArgoKept /\ VaultKept /\ TemplatesKept
      BY <1>4, MishapsGrow DEF Ind, LeftoversKept, Calm
    <2>2. SecretFilesKept' /\ VaultKept' /\ TemplatesKept'
      BY <1>5, <2>1 DEF SecretFilesKept, VaultKept, TemplatesKept, Keeps, In, Present
    <2>3. "late" \notin mishaps' /\ Without({"moved"})
      BY <1>4 DEF Calm, Without
    <2>4. PICK n \in Ids : n = x.ci /\ Present(n) /\ ~BeingDeleted(n)
      BY <1>2, <1>4, <2>3
    <2>5. /\ row[n].repo = p /\ row[n].origin = "scaffolded" /\ x.target = ClusterName(row[n].cluster)
      BY <1>1, <2>3, <2>4 DEF Ind, PipelinesSound, Reports
    <2>6. row[n].slug = p[2]
      BY <2>4, <2>5 DEF Ind, RowsSound
    <2>7. In(n, x.target)'
      BY <1>5, <2>5 DEF In
    <2>8. ASSUME NEW P, P \subseteq DeletePcs PROVE Keeps(n, p[2], P)'
      BY <1>5, <2>4, <2>6, <2>8 DEF Keeps, BeingDeleted, Present
    <2>9. Keeps(n, p[2], DeletePcs \ {"delApps"})'
      BY <2>8
    <2>10. Keeps(n, p[2], {"delProject", "delVault", "delRow"})'
      BY <2>8 DEF DeletePcs
    <2>11. ValuesKept'
      <3> SUFFICES ASSUME NEW f \in values'
                   PROVE  \E i \in Ids : Keeps(i, f[2], DeletePcs \ {"delApps"})' /\ In(i, f[1])'
        BY DEF ValuesKept
      <3>1. CASE f \in values
        BY <3>1, <1>5, <2>1 DEF ValuesKept, Keeps, In, Present
      <3>2. CASE f \notin values
        <4>1. f[1] = x.target /\ f[2] = p[2]
          BY <1>3, <3>2
        <4> QED
          BY <4>1, <2>7, <2>9
      <3> QED
        BY <3>1, <3>2
    <2>12. ArgoKept'
      <3> SUFFICES ASSUME NEW d \in argocd'
                   PROVE  \E i \in Ids : /\ Keeps(i, d[2], {"delProject", "delVault", "delRow"})'
                                         /\ In(i, d[1])'
        BY DEF ArgoKept
      <3>1. CASE d \in argocd
        BY <3>1, <1>5, <2>1 DEF ArgoKept, Keeps, In, Present
      <3>2. CASE d \notin argocd
        <4>1. d[1] = x.target /\ d[2] = p[2]
          BY <1>3, <3>2
        <4> QED
          BY <4>1, <2>7, <2>10
      <3> QED
        BY <3>1, <3>2
    <2> QED
      BY <2>2, <2>11, <2>12
  <1> QED
    BY <1>4, <1>5, <1>6, <1>7, <1>8, TheRestStays DEF Ind

\* The process restarts.
LEMMA RestartStep ==
    ASSUME Ind, Restart
    PROVE  Ind'
  <1>1. /\ mishaps \subseteq mishaps' /\ "crash" \in mishaps' /\ mishaps' \subseteq Kinds
    BY NoteIs DEF Restart, Ind
  <1>2. req' \in [Requests -> RequestStates] /\ \A r \in Requests : req'[r] = Idle
    BY FirstAre DEF Restart
  <1>3. UNCHANGED <<row, last, project, fullPath, secretFile, values, argocd, vault, started>>
    BY DEF Restart
  <1>4. TypeOK'
    BY <1>1, <1>2, <1>3 DEF Ind, TypeOK
  <1>5. RowsSound' /\ PipelinesSound'
    BY <1>1, <1>3, SameAlike, RowsStay, PipelinesStay DEF Ind
  <1>6. RequestsSound'
    BY <1>2, IdleIs DEF RequestsSound, Shaped, Agrees, ReadsPath, Savers, Makers, DeletePcs
  <1>7. Filled' /\ Injected'
    BY <1>2, IdleIs DEF Filled, Injected
  <1>8. ScaffoldedProjectSound' /\ KeysWritten' /\ LeftoversKept'
    BY <1>1 DEF ScaffoldedProjectSound, KeysWritten, LeftoversKept, Without
  <1> QED
    BY <1>4, <1>5, <1>6, <1>7, <1>8 DEF Ind

-----------------------------------------------------------------------------
(***************************************************************************)
(* The theorems.                                                           *)
(***************************************************************************)

\* The invariant holds at first.
LEMMA IndInit == Init => Ind
  <1> SUFFICES ASSUME Init PROVE Ind
    OBVIOUS
  <1>1. TypeOK
    <2>1. row \in [Ids -> Rows] /\ req \in [Requests -> RequestStates]
      BY FirstAre DEF Init
    <2>2. project \in [Projects -> ProjectStates]
      BY FirstAre DEF Init
    <2>3. secretFile \in [Files -> Paths \cup {None}]
      BY DEF Init
    <2> QED
      BY <2>1, <2>2, <2>3, ConstantsAre DEF Init, TypeOK
  <1>2. \A i \in Ids : ~Present(i)
    BY FirstAre DEF Init, Present
  <1>3. \A r \in Requests : req[r] = Idle
    BY DEF Init
  <1>4. \A p \in Projects : project[p].ci = 0 /\ ~project[p].template
    BY FreshIs DEF Init
  <1>5. RowsSound /\ ScaffoldedProjectSound /\ KeysWritten
    BY <1>2 DEF RowsSound, ScaffoldedProjectSound, KeysWritten
  <1>6. RequestsSound /\ Filled /\ Injected
    BY <1>3, IdleIs
    DEF RequestsSound, Shaped, Agrees, ReadsPath, Filled, Injected, Savers, Makers, DeletePcs
  <1>7. PipelinesSound
    BY <1>4 DEF PipelinesSound
  <1>8. LeftoversKept
    BY <1>4 DEF LeftoversKept, SecretFilesKept, ValuesKept, ArgoKept, VaultKept, TemplatesKept, Init
  <1> QED
    BY <1>1, <1>5, <1>6, <1>7, <1>8 DEF Ind

\* A step that changes nothing.
LEMMA Stutter ==
    ASSUME Ind, UNCHANGED vars
    PROVE  Ind'
  <1>1. UNCHANGED <<row, last, project, fullPath, secretFile, values, argocd, vault, req, started, mishaps>>
    BY DEF vars
  <1>2. TypeOK'
    BY <1>1 DEF Ind, TypeOK
  <1>3. KeysWritten'
    BY <1>1 DEF Ind, KeysWritten, Without, Present, BeingDeleted, KeyOf
  <1>4. LeftoversKept'
    BY <1>1
    DEF Ind, LeftoversKept, SecretFilesKept, ValuesKept, ArgoKept, VaultKept, TemplatesKept,
        Keeps, In, Present, Without
  <1> QED
    BY <1>1, <1>2, <1>3, <1>4, TheRestStays DEF Ind

\* Every step preserves the invariant.
LEMMA IndNext == Ind /\ [Next]_vars => Ind'
  <1> SUFFICES ASSUME Ind, [Next]_vars PROVE Ind'
    OBVIOUS
  <1>1. ASSUME NEW r \in Requests,
               \/ ScaffoldBegins(r) \/ OnboardBegins(r) \/ ImportBegins(r)
               \/ CreatesProject(r) \/ PushesTemplate(r) \/ ImportsProject(r)
               \/ SavesRow(r) \/ CleansUp(r) \/ InjectsCi(r) \/ CommitsCi(r)
        PROVE  Ind'
    BY <1>1, CreationBegins, CreatesProjectStep, PushesTemplateStep, ImportsProjectStep,
       SavesRowStep, CleansUpStep, InjectsCiStep, CommitsCiStep
  <1>2. ASSUME NEW r \in Requests,
               \/ PushesSecretFile(r) \/ PushesIngress(r)
               \/ DeleteBegins(r) \/ DeletesAppFiles(r) \/ DeletesArgoFiles(r)
               \/ DeletesProject(r) \/ DeletesSecrets(r) \/ DeletesRow(r)
               \/ EnvBegins(r) \/ EnvWrites(r)
        PROVE  Ind'
    BY <1>2, PushesSecretFileStep, PushesIngressStep, UseBegins, DeletesAppFilesStep,
       DeletesArgoFilesStep, DeletesProjectStep, DeletesSecretsStep, DeletesRowStep, EnvWritesStep
  <1> QED
    BY <1>1, <1>2, UpdatesClusterStep, GroupRenamedStep, PipelineRunsStep, RestartStep, Stutter
    DEF Next

\* The files of secrets are read by whoever has no request under way.
LEMMA KeysMatch == Ind => SecretKeysMatch
  <1> SUFFICES ASSUME Ind, NEW i \in Ids, NEW e \in Envs, Present(i), ~Creating(i), Steady
               PROVE  KeyOf(i, e) = fullPath[row[i].group]
    BY DEF SecretKeysMatch, Steady
  <1>1. ~BeingDeleted(i) /\ \A r \in Requests : ~Awaits(req[r], i, e)
    BY DEF Creating, BeingDeleted, Awaits
  <1> QED
    BY <1>1 DEF Ind, KeysWritten, Steady

\* What is kept by nobody is not there.
LEMMA NothingIsKept == Ind => NothingLeft
  <1> SUFFICES ASSUME Ind, NEW s \in Slugs, ~InUse(s), Calm PROVE Bare(s)
    BY DEF NothingLeft, Calm
  <1>1. SecretFilesKept /\ ValuesKept /\ ArgoKept /\ VaultKept /\ TemplatesKept
    BY DEF Ind, LeftoversKept, Calm
  <1>2. \A i \in Ids : \A P : ~Keeps(i, s, P)
    BY DEF Keeps, InUse
  <1>3. ASSUME NEW c \in Dirs, NEW e \in Envs PROVE secretFile[<<c, s, e>>] = None
    <2>1. PICK f \in Files : f = <<c, s, e>>
      BY DEF Files
    <2>2. f[2] = s
      BY <2>1
    <2> QED
      BY <1>1, <1>2, <2>1, <2>2 DEF SecretFilesKept
  <1>4. \A f \in values \cup argocd \cup vault : f[2] # s
    BY <1>1, <1>2 DEF ValuesKept, ArgoKept, VaultKept
  <1>5. ASSUME NEW g \in Groups PROVE ~project[<<g, s>>].template
    <2>0. <<g, s>> \in Projects
      BY DEF Projects
    <2>1. PICK p \in Projects : p = <<g, s>> /\ p[2] = s
      BY <2>0
    <2>2. ASSUME NEW r \in Requests, req[r].pc \in {"save", "cleanup"}, req[r].repo = p,
                 req[r].origin = "scaffolded"
          PROVE  FALSE
      <3>1. req[r].repo = <<req[r].group, req[r].slug>>
        BY <2>2, StandsIs DEF Shaped, Savers
      <3>2. req[r].slug = s
        BY <2>1, <2>2, <3>1
      <3> QED
        BY <2>2, <3>2 DEF InUse
    <2> QED
      BY <1>1, <1>2, <2>1, <2>2 DEF TemplatesKept
  <1> QED
    BY <1>3, <1>4, <1>5 DEF Bare

\* The invariant of every reachable state.
LEMMA AlwaysInd == Spec => []Ind
  BY IndInit, IndNext, PTL DEF Spec

\* The invariant of the run, for any names, groups, clusters and requests:
\* once the request of _save_app has ended the two ExternalSecrets
\* read the application's path, and every store holds what the rows and the
\* requests under way account for.
THEOREM AppInvariant == Spec => []AppInv
  <1>1. Ind => AppInv
    BY KeysMatch DEF Ind, AppInv
  <1> QED
    BY <1>1, AlwaysInd, PTL

\* A scaffolded application has its project, its template and its pipeline
\* until it is deleted, whatever else is scaffolded, moved or fails.
THEOREM ScaffoldedAlwaysSound == Spec => []ScaffoldedProjectSound
  <1>1. Ind => ScaffoldedProjectSound
    BY DEF Ind
  <1> QED
    BY <1>1, AlwaysInd, PTL

\* delete_app leaves nothing in the four stores, for any interleaving of
\* requests that meets none of the five mishaps.
THEOREM NothingIsLeft == Spec => []NothingLeft
  BY NothingIsKept, AlwaysInd, PTL

\* What a step that takes a repository away may take.
Spares ==
    \A p \in Projects :
        project[p].exists /\ ~project'[p].exists /\ mishaps' \cap {"pulled", "late"} = {}
            /\ (\E i \in Ids : Present(i) /\ row[i].repo = p)
        => \E i \in Ids : Present(i) /\ row[i].repo = p /\ row[i].origin = "scaffolded"

\* Projects that stay are spared.
LEMMA StaysSpared ==
    (\A p \in Projects : project[p].exists => project'[p].exists) => Spares
  BY DEF Spares

\* Making, filling and equipping a project removes none.
LEMMA MakersSpare ==
    ASSUME Ind, NEW r \in Requests,
           CreatesProject(r) \/ PushesTemplate(r) \/ ImportsProject(r) \/ InjectsCi(r)
    PROVE  Spares
  <1>1. PICK o \in RequestStates : o = req[r] /\ o.repo \in Projects
    BY StandsIs, StateIs
  <1>2. project \in [Projects -> ProjectStates]
    BY DEF Ind, TypeOK
  <1>3. CASE CreatesProject(r)
    <2>1. UNCHANGED project \/ project' = create_project(o.repo)
      BY <1>1, <1>3 DEF CreatesProject
    <2> QED
      BY <1>1, <1>2, <2>1, FreshIs, StaysSpared DEF create_project
  <1>4. CASE PushesTemplate(r)
    <2>1. UNCHANGED project \/ project' = push_files_batch(o.repo)
      BY <1>1, <1>4 DEF PushesTemplate
    <2> QED
      BY <1>1, <1>2, <2>1, StaysSpared DEF push_files_batch, ProjectStates
  <1>5. CASE ImportsProject(r)
    <2>1. UNCHANGED project \/ project' = create_project(o.repo)
      BY <1>1, <1>5 DEF ImportsProject, create_project
    <2> QED
      BY <1>1, <1>2, <2>1, FreshIs, StaysSpared DEF create_project
  <1>6. CASE InjectsCi(r)
    <2>1. \/ UNCHANGED project
          \/ project' = [project EXCEPT ![o.repo].ci = o.id, ![o.repo].target = ClusterName(o.cluster)]
      BY <1>1, <1>6 DEF InjectsCi
    <2>2. ASSUME NEW p \in Projects, NEW x \in ProjectStates, x = project[p], x.exists
          PROVE  project'[p].exists
      <3>1. CASE UNCHANGED project
        BY <2>2, <3>1
      <3>2. CASE p # o.repo
        <4>1. project'[p] = x
          BY <1>1, <1>2, <2>1, <2>2, <3>2
        <4> QED
          BY <2>2, <4>1
      <3>3. CASE /\ p = o.repo
                 /\ project' = [project EXCEPT ![o.repo].ci = o.id, ![o.repo].target = ClusterName(o.cluster)]
        <4>1. project'[p] = [x EXCEPT !.ci = o.id, !.target = ClusterName(o.cluster)]
          BY <1>2, <2>2, <3>3
        <4> QED
          BY <2>2, <4>1 DEF ProjectStates
      <3> QED
        BY <2>1, <3>1, <3>2, <3>3
    <2> QED
      BY <1>2, <2>2, StaysSpared
  <1> QED
    BY <1>3, <1>4, <1>5, <1>6

\* A rollback takes no application's repository without being noted.
LEMMA CleansUpSpares ==
    ASSUME Ind, NEW r \in Requests, CleansUp(r)
    PROVE  Spares
  <1>1. PICK o \in RequestStates : o = req[r] /\ o.repo \in Projects
    BY StandsIs, StateIs
  <1>2. CASE UNCHANGED project
    BY <1>2, StaysSpared
  <1>3. CASE /\ project' = delete_project(o.repo)
             /\ NoteIf(\/ Filling(o.repo, r)
                       \/ \E i \in Ids : Present(i) /\ row[i].repo = o.repo, "pulled")
    <2>1. (\E i \in Ids : Present(i) /\ row[i].repo = o.repo) => "pulled" \in mishaps'
      BY <1>3, NoteIfIs DEF Ind
    <2>2. \A p \in Projects : p # o.repo => project'[p] = project[p]
      BY <1>3 DEF delete_project, Ind, TypeOK
    <2> QED
      BY <2>1, <2>2 DEF Spares
  <1> QED
    BY <1>1, <1>2, <1>3 DEF CleansUp

\* A deletion takes the repository of a scaffolded application.
LEMMA DeletionSpares ==
    ASSUME Ind, NEW r \in Requests, DeletesProject(r)
    PROVE  Spares
  <1>1. PICK o \in RequestStates : o = req[r] /\ Shaped(o) /\ o.pc = "delProject" /\ o.pc \in DeletePcs
    BY StandsIs DEF DeletesProject, DeletePcs
  <1>2. CASE UNCHANGED project
    BY <1>2, StaysSpared
  <1>3. CASE /\ project' = delete_project(o.repo)
             /\ Note(When(Filling(o.repo, r), "pulled") \cup When(~Present(o.id), "late"))
    <2>1. ~Present(o.id) => "late" \in mishaps'
      BY <1>3, NoteIs DEF Ind, When
    <2>2. \A p \in Projects : p # o.repo => project'[p] = project[p]
      BY <1>3 DEF delete_project, Ind, TypeOK
    <2>3. /\ o.id \in Ids /\ o.origin = "scaffolded"
          /\ Present(o.id) => row[o.id].repo = o.repo /\ row[o.id].origin = "scaffolded"
      BY <1>1, DeletedAgrees DEF Shaped
    <2> QED
      BY <2>1, <2>2, <2>3 DEF Spares
  <1> QED
    BY <1>1, <1>2, <1>3 DEF DeletesProject, Attempt

\* The repository of an application that was not scaffolded outlives it, for
\* any interleaving: delete_project is called for scaffolded applications
\* and for rollbacks only.
THEOREM RepositoriesAlwaysKept == Spec => RepositoriesKept
  <1>1. Ind /\ [Next]_vars => [Spares]_vars
    <2> SUFFICES ASSUME Ind, Next PROVE Spares
      OBVIOUS
    <2>1. ASSUME NEW r \in Requests,
                 \/ ScaffoldBegins(r) \/ OnboardBegins(r) \/ ImportBegins(r)
                 \/ DeleteBegins(r) \/ EnvBegins(r)
          PROVE  UNCHANGED project
      BY <2>1 DEF ScaffoldBegins, OnboardBegins, ImportBegins, DeleteBegins, EnvBegins, Begin
    <2>2. ASSUME NEW r \in Requests,
                 \/ SavesRow(r) \/ CommitsCi(r) \/ PushesSecretFile(r) \/ PushesIngress(r)
                 \/ DeletesAppFiles(r) \/ DeletesArgoFiles(r) \/ DeletesSecrets(r)
                 \/ DeletesRow(r) \/ EnvWrites(r)
          PROVE  UNCHANGED project
      BY <2>2 DEF SavesRow, CommitsCi, PushesSecretFile, PushesIngress, DeletesAppFiles,
                  DeletesArgoFiles, DeletesSecrets, DeletesRow, EnvWrites
    <2>3. ASSUME NEW r \in Requests,
                 \/ CreatesProject(r) \/ PushesTemplate(r) \/ ImportsProject(r) \/ InjectsCi(r)
                 \/ CleansUp(r) \/ DeletesProject(r)
          PROVE  Spares
      BY <2>3, MakersSpare, CleansUpSpares, DeletionSpares
    <2>4. ASSUME \/ \E i \in Ids : UpdatesCluster(i)
                 \/ \E g \in Groups : GroupRenamed(g)
                 \/ \E p \in Projects : PipelineRuns(p)
                 \/ Restart
          PROVE  UNCHANGED project
      BY <2>4 DEF UpdatesCluster, GroupRenamed, PipelineRuns, Restart
    <2> QED
      BY <2>1, <2>2, <2>3, <2>4, StaysSpared DEF Next
  <1> QED
    BY <1>1, AlwaysInd, PTL DEF Spec, RepositoriesKept, Spares
=============================================================================
