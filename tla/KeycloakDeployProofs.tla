------------------------ MODULE KeycloakDeployProofs ------------------------
(***************************************************************************)
(* Proofs about KeycloakDeploy, for every set of operators, instances,     *)
(* target files and bounds: secrets of concurrent runs, gateway            *)
(* transactions, reachability of an active instance.                       *)
(***************************************************************************)
EXTENDS KeycloakDeploy, TLAPS

\* The steps before the gateway, and those from the staging on.
Early == {"current", "secrets", "token", "mint", "store", "revoke", "apply", "register",
          "install", "retained", "client", "provisioner"}
Late == {"stage", "verify", "enable", "commit", "undo"}

\* A run goes on and one more field of its record changes.
MovesAbsent(o, a, x) == run' = [run EXCEPT ![o].pc = a, ![o].absent = x]
MovesCred(o, a, x) == run' = [run EXCEPT ![o].pc = a, ![o].cred = x]
MovesHeld(o, a, x) == run' = [run EXCEPT ![o].pc = a, ![o].held = x]

Others(o) == \A p \in Operators \ {o} : run'[p] = run[p]

\* The invariant but for the requests under way without their operator.
CoreInv == /\ TypeOK /\ SecretsAgree /\ NoStrayToken /\ GatewaySerial /\ ActiveReachable
           /\ RunsDistinct /\ TokenHeld /\ RowKnown /\ RouteKnown
           /\ ServedFromDisk /\ RoutesSettled /\ Restorable /\ CredentialKept

-----------------------------------------------------------------------------
(* Types. *)

\* The fields of a run under way, of a target, a row and a lock.
LEMMA DeploymentFields ==
    ASSUME NEW r \in Deployments
    PROVE  /\ r.pc \in Pcs /\ r.tx \in Runs /\ r.absent \in BOOLEAN
           /\ r.cred \in Secrets /\ r.held \in Secrets
           /\ r.t \in Targets /\ r.t.key \in Keys /\ r.t.url \in Urls
           /\ r.t.cluster \in Clusters /\ r.t.sound \in BOOLEAN
<1>1. /\ r.pc \in Pcs /\ r.tx \in Runs /\ r.absent \in BOOLEAN
      /\ r.cred \in Secrets /\ r.held \in Secrets /\ r.t \in Targets
  BY DEF Deployments
<1>2. r.t \in TargetConfig
  BY <1>1, DeployAssumption
<1>. QED  BY <1>1, <1>2 DEF TargetConfig

\* A run under way is a deployment; the others are idle.
LEMMA ActiveRun ==
    ASSUME TypeOK, NEW o \in Operators
    PROVE  /\ Active(o) <=> run[o] \in Deployments
           /\ ~Active(o) <=> run[o] = Idle
           /\ run[o].pc \in Pcs \cup {"idle"}
<1>1. run[o] \in {Idle} \cup Deployments
  BY DEF TypeOK
<1>2. Idle.pc = "idle" /\ "idle" \notin Pcs
  BY DEF Idle, Pcs
<1>3. \A r \in Deployments : r.pc \in Pcs
  BY DeploymentFields
<1>. QED  BY <1>1, <1>2, <1>3 DEF Active

\* One run changes: the others stand as they stood.
LEMMA RunUpdate ==
    ASSUME TypeOK, NEW o \in Operators, NEW r \in {Idle} \cup Deployments,
           run' = [run EXCEPT ![o] = r]
    PROVE  run'[o] = r /\ Others(o) /\ run' \in [Operators -> {Idle} \cup Deployments]
BY DEF TypeOK, Others

\* A run goes on: only its own record changes, and of that only the pc.
LEMMA GoesEffect ==
    ASSUME TypeOK, NEW o \in Operators, Active(o), NEW a \in Pcs, Goes(o, a)
    PROVE  /\ run'[o] \in Deployments /\ run'[o].pc = a /\ run'[o].t = run[o].t
           /\ run'[o].tx = run[o].tx /\ run'[o].absent = run[o].absent
           /\ run'[o].cred = run[o].cred /\ run'[o].held = run[o].held
           /\ Others(o) /\ run' \in [Operators -> {Idle} \cup Deployments]
<1>1. run[o] \in Deployments
  BY ActiveRun
<1>. DEFINE r == [run[o] EXCEPT !.pc = a]
<1>2. /\ r \in Deployments /\ r.pc = a /\ r.t = run[o].t /\ r.tx = run[o].tx
      /\ r.absent = run[o].absent /\ r.cred = run[o].cred /\ r.held = run[o].held
  BY <1>1 DEF Deployments
<1>3. run' = [run EXCEPT ![o] = r]
  BY DEF Goes
<1>. HIDE DEF r
<1>4. run'[o] = r /\ Others(o) /\ run' \in [Operators -> {Idle} \cup Deployments]
  BY <1>2, <1>3, RunUpdate
<1>. QED  BY <1>2, <1>4

\* A run goes on and notes whether the row was absent.
LEMMA MoveAbsent ==
    ASSUME TypeOK, NEW o \in Operators, Active(o), NEW a \in Pcs, NEW x \in BOOLEAN,
           MovesAbsent(o, a, x)
    PROVE  /\ run'[o] \in Deployments /\ run'[o].pc = a /\ run'[o].t = run[o].t
           /\ run'[o].tx = run[o].tx /\ run'[o].absent = x
           /\ run'[o].cred = run[o].cred /\ run'[o].held = run[o].held
           /\ Others(o) /\ run' \in [Operators -> {Idle} \cup Deployments]
<1>1. run[o] \in Deployments
  BY ActiveRun
<1>. DEFINE r == [run[o] EXCEPT !.pc = a, !.absent = x]
<1>2. /\ r \in Deployments /\ r.pc = a /\ r.t = run[o].t /\ r.tx = run[o].tx
      /\ r.absent = x /\ r.cred = run[o].cred /\ r.held = run[o].held
  BY <1>1 DEF Deployments
<1>3. run' = [run EXCEPT ![o] = r]
  BY <1>1 DEF TypeOK, Deployments, MovesAbsent
<1>. HIDE DEF r
<1>4. run'[o] = r /\ Others(o) /\ run' \in [Operators -> {Idle} \cup Deployments]
  BY <1>2, <1>3, RunUpdate
<1>. QED  BY <1>2, <1>4

\* A run goes on with the administrator's password.
LEMMA MoveCred ==
    ASSUME TypeOK, NEW o \in Operators, Active(o), NEW a \in Pcs, NEW x \in Secrets,
           MovesCred(o, a, x)
    PROVE  /\ run'[o] \in Deployments /\ run'[o].pc = a /\ run'[o].t = run[o].t
           /\ run'[o].tx = run[o].tx /\ run'[o].absent = run[o].absent
           /\ run'[o].cred = x /\ run'[o].held = run[o].held
           /\ Others(o) /\ run' \in [Operators -> {Idle} \cup Deployments]
<1>1. run[o] \in Deployments
  BY ActiveRun
<1>. DEFINE r == [run[o] EXCEPT !.pc = a, !.cred = x]
<1>2. /\ r \in Deployments /\ r.pc = a /\ r.t = run[o].t /\ r.tx = run[o].tx
      /\ r.absent = run[o].absent /\ r.cred = x /\ r.held = run[o].held
  BY <1>1 DEF Deployments
<1>3. run' = [run EXCEPT ![o] = r]
  BY <1>1 DEF TypeOK, Deployments, MovesCred
<1>. HIDE DEF r
<1>4. run'[o] = r /\ Others(o) /\ run' \in [Operators -> {Idle} \cup Deployments]
  BY <1>2, <1>3, RunUpdate
<1>. QED  BY <1>2, <1>4

\* A run goes on with a token or a client secret in hand.
LEMMA MoveHeld ==
    ASSUME TypeOK, NEW o \in Operators, Active(o), NEW a \in Pcs, NEW x \in Secrets,
           MovesHeld(o, a, x)
    PROVE  /\ run'[o] \in Deployments /\ run'[o].pc = a /\ run'[o].t = run[o].t
           /\ run'[o].tx = run[o].tx /\ run'[o].absent = run[o].absent
           /\ run'[o].cred = run[o].cred /\ run'[o].held = x
           /\ Others(o) /\ run' \in [Operators -> {Idle} \cup Deployments]
<1>1. run[o] \in Deployments
  BY ActiveRun
<1>. DEFINE r == [run[o] EXCEPT !.pc = a, !.held = x]
<1>2. /\ r \in Deployments /\ r.pc = a /\ r.t = run[o].t /\ r.tx = run[o].tx
      /\ r.absent = run[o].absent /\ r.cred = run[o].cred /\ r.held = x
  BY <1>1 DEF Deployments
<1>3. run' = [run EXCEPT ![o] = r]
  BY <1>1 DEF TypeOK, Deployments, MovesHeld
<1>. HIDE DEF r
<1>4. run'[o] = r /\ Others(o) /\ run' \in [Operators -> {Idle} \cup Deployments]
  BY <1>2, <1>3, RunUpdate
<1>. QED  BY <1>2, <1>4

\* A run ends.
LEMMA EndsEffect ==
    ASSUME TypeOK, NEW o \in Operators, Ends(o)
    PROVE  /\ run'[o] = Idle /\ run'[o].pc = "idle"
           /\ Others(o) /\ run' \in [Operators -> {Idle} \cup Deployments]
BY DEF TypeOK, Ends, Others, Idle

\* Numbers of runs are secrets other than Nothing; what is ensured is a secret.
LEMMA SecretTypes ==
    /\ Nothing \in Secrets
    /\ \A x \in Runs : x \in Secrets /\ x # Nothing
    /\ \A x, y \in Secrets : /\ Ensured(x, y) \in Secrets
                             /\ x # Nothing => Ensured(x, y) = x
                             /\ x = Nothing => Ensured(x, y) = y
BY DeployAssumption DEF Nothing, Secrets, Runs, Ensured

\* What a run reads of its own record and of the tables it indexes.
LEMMA OwnTypes ==
    ASSUME TypeOK, NEW o \in Operators, Active(o)
    PROVE  /\ K(o) \in Keys /\ T(o).url \in Urls /\ T(o).cluster \in Clusters
           /\ T(o).sound \in BOOLEAN
           /\ run[o].tx \in Runs /\ run[o].tx \in Secrets /\ run[o].tx # Nothing
           /\ run[o].cred \in Secrets /\ run[o].held \in Secrets
           /\ run[o].absent \in BOOLEAN
           /\ boot[K(o)] \in Secrets /\ eso[K(o)] \in Secrets
           /\ provisioner[K(o)] \in Secrets /\ client[K(o)] \in Secrets
           /\ admin[K(o)] \in Secrets /\ applied[K(o)] \in Secrets
<1>1. run[o] \in Deployments
  BY ActiveRun
<1>2. /\ K(o) \in Keys /\ T(o).url \in Urls /\ T(o).cluster \in Clusters
      /\ T(o).sound \in BOOLEAN
      /\ run[o].tx \in Runs /\ run[o].absent \in BOOLEAN
      /\ run[o].cred \in Secrets /\ run[o].held \in Secrets
  BY <1>1, DeploymentFields DEF K, T
<1>. QED  BY <1>2, SecretTypes DEF TypeOK

-----------------------------------------------------------------------------
(* The steps before the gateway. *)

\* The shape they share: one run moves on, or ends; gateway, bounds and ghosts stay.
EarlyStep(o) ==
    /\ Active(o) /\ run[o].pc \in Early /\ Others(o)
    /\ run' \in [Operators -> {Idle} \cup Deployments]
    /\ \/ run'[o] = Idle
       \/ /\ run'[o] \in Deployments
          /\ run'[o].pc \in (Early \cup {"stage"}) \ {"current"}
          /\ run'[o].t = run[o].t /\ run'[o].tx = run[o].tx
    /\ UNCHANGED <<lock, file, live, detached, started, upsets, lost, undone, fresh>>

\* Who is under way afterwards, and with what.
LEMMA EarlyRuns ==
    ASSUME TypeOK, NEW o \in Operators, EarlyStep(o), NEW p \in Operators
    PROVE  /\ p # o => run'[p] = run[p] /\ (Active(p)' <=> Active(p)) /\ K(p)' = K(p)
                         /\ T(p)' = T(p)
           /\ p = o /\ Active(p)' => Active(p) /\ K(p)' = K(p) /\ T(p)' = T(p)
                                      /\ run'[p].tx = run[p].tx
           /\ p = o => run'[p].pc \notin {"verify", "enable", "commit", "undo", "current"}
           /\ p = o => run[p].pc \notin Late
<1>1. p # o => run'[p] = run[p]
  BY DEF EarlyStep, Others
<1>2. ASSUME p = o
      PROVE  /\ Active(p)' => Active(p) /\ run'[p].t = run[p].t /\ run'[p].tx = run[p].tx
             /\ run'[p].pc \notin {"verify", "enable", "commit", "undo", "current"}
             /\ run[p].pc \notin Late
  BY <1>2 DEF EarlyStep, Active, Idle, Early, Late
<1>. QED  BY <1>1, <1>2 DEF Active, K, T

\* Gateway transactions do not notice them.
LEMMA EarlyGateway ==
    ASSUME DeployInv, NEW o \in Operators, EarlyStep(o),
           \A k \in Keys : inst[k] # None => inst'[k] = inst[k],
           \A k \in Keys : Enabled(k)' => Enabled(k)
    PROVE  /\ GatewaySerial' /\ RunsDistinct' /\ RouteKnown' /\ ServedFromDisk'
           /\ RoutesSettled' /\ Restorable'
<1>0. TypeOK
  BY DEF DeployInv
<1>1. UNCHANGED <<lock, file, live, detached, started, lost, undone>>
  BY DEF EarlyStep
<1>2. GatewaySerial'
  <2>1. ASSUME NEW p \in Operators, run'[p].pc \in {"verify", "enable", "commit"}
        PROVE  Owns(run[p].tx, K(p))' /\ live'[K(p)'] = Route(T(p)')
    <3>1. p # o
      BY <2>1, <1>0, EarlyRuns
    <3>2. run'[p] = run[p] /\ K(p)' = K(p) /\ T(p)' = T(p)
      BY <3>1, <1>0, EarlyRuns
    <3>. QED  BY <2>1, <3>2, <1>1 DEF DeployInv, GatewaySerial, Owns
  <2>2. ASSUME lock' # None, lock'.owner \notin lost'
        PROVE  \E p \in Operators : /\ run'[p].pc \in {"verify", "enable", "commit", "undo"}
                                    /\ run'[p].tx = lock'.owner /\ K(p)' = lock'.key
    <3>1. PICK p \in Operators : /\ run[p].pc \in {"verify", "enable", "commit", "undo"}
                                 /\ run[p].tx = lock.owner /\ K(p) = lock.key
      BY <2>2, <1>1 DEF DeployInv, GatewaySerial
    <3>2. p # o
      BY <3>1, <1>0, EarlyRuns DEF Late
    <3>. QED  BY <3>1, <3>2, <1>0, <1>1, EarlyRuns
  <2>. QED  BY <2>1, <2>2 DEF GatewaySerial
<1>3. RunsDistinct'
  <2>1. ASSUME NEW p \in Operators, Active(p)'
        PROVE  Active(p) /\ run'[p].tx = run[p].tx
    BY <2>1, <1>0, EarlyRuns
  <2>. QED  BY <2>1, <1>1 DEF DeployInv, RunsDistinct
<1>4. RouteKnown'
  <2>. SUFFICES ASSUME NEW p \in Operators, run'[p].pc \in {"enable", "commit"}
                PROVE  T(p)'.sound /\ (run'[p].pc = "commit" => inst'[K(p)'].enabled)
    BY DEF RouteKnown, At
  <2>1. p # o /\ run'[p] = run[p] /\ K(p)' = K(p) /\ T(p)' = T(p)
    BY <1>0, EarlyRuns
  <2>2. Active(p) /\ K(p) \in Keys
    BY <2>1, <1>0, OwnTypes DEF Active
  <2>3. inst[K(p)] # None
    BY <2>1, <2>2 DEF DeployInv, RowKnown, Registered, At
  <2>. QED  BY <2>1, <2>2, <2>3 DEF DeployInv, RouteKnown, At
<1>5. RoutesSettled' /\ ServedFromDisk'
  <2>1. ASSUME NEW p \in Operators, run'[p].pc \in {"verify", "enable", "commit"}
        PROVE  run'[p] = run[p] /\ K(p)' = K(p)
    BY <2>1, <1>0, EarlyRuns
  <2>. QED  BY <2>1, <1>1 DEF DeployInv, RoutesSettled, ServedFromDisk
<1>6. Restorable'
  <2>. SUFFICES ASSUME lock # None, Enabled(lock.key)', ~lock.activated
                PROVE  lock.previous = inst'[lock.key].url \/ lock.key \in undone
    BY <1>1 DEF Restorable, Enabled
  <2>1. lock.key \in Keys
    BY <1>0 DEF TypeOK, Locks
  <2>2. Enabled(lock.key) /\ inst'[lock.key] = inst[lock.key]
    BY <2>1, <1>1 DEF Enabled
  <2>. QED  BY <2>2 DEF DeployInv, Restorable
<1>. QED  BY <1>2, <1>3, <1>4, <1>5, <1>6

\* Secrets stay as they are: so does their agreement.
LEMMA SecretsFrame ==
    ASSUME DeployInv, NEW o \in Operators, EarlyStep(o),
           UNCHANGED <<boot, eso, admin, applied>>,
           Active(o)' => run'[o].cred = run[o].cred
    PROVE  SecretsAgree'
<1>0. TypeOK
  BY DEF DeployInv
<1>1. ASSUME NEW p \in Operators, Active(p)'
      PROVE  run'[p].cred \in {Nothing, boot'[K(p)']}
  <2>1. Active(p) /\ K(p)' = K(p) /\ run'[p].cred = run[p].cred
    BY <1>0, <1>1, EarlyRuns
  <2>. QED  BY <2>1 DEF DeployInv, SecretsAgree
<1>. QED  BY <1>1 DEF DeployInv, SecretsAgree

\* Tokens stay as they are, and the run does not own one that is not stored.
LEMMA TokensFrame ==
    ASSUME DeployInv, NEW o \in Operators, EarlyStep(o), UNCHANGED <<eso, tokens>>,
           run[o].pc \notin {"store", "revoke"}
    PROVE  NoStrayToken'
<1>1. UNCHANGED lost /\ \A p \in Operators \ {o} : run'[p] = run[p]
  BY DEF EarlyStep, Others
<1>. QED  BY <1>1 DEF DeployInv, NoStrayToken

\* The stored token stays, and the run does not hold one afterwards.
LEMMA HeldFrame ==
    ASSUME DeployInv, NEW o \in Operators, EarlyStep(o), UNCHANGED eso,
           run'[o].pc \notin {"revoke", "apply"}
    PROVE  TokenHeld'
<1>0. TypeOK
  BY DEF DeployInv
<1>. SUFFICES ASSUME NEW p \in Operators, run'[p].pc \in {"revoke", "apply"}
              PROVE  run'[p].held = eso[K(p)'] /\ eso[K(p)'] # Nothing
  BY DEF TokenHeld
<1>1. p # o /\ run'[p] = run[p] /\ K(p)' = K(p)
  BY <1>0, EarlyRuns
<1>. QED  BY <1>1 DEF DeployInv, TokenHeld

\* Rows stay, and the run knows its own.
LEMMA RowFrame ==
    ASSUME DeployInv, NEW o \in Operators, EarlyStep(o),
           \A k \in Keys : inst[k] # None => inst'[k] = inst[k],
           Active(o)' /\ (~run'[o].absent \/ run'[o].pc \in Registered)
             => inst'[K(o)] # None /\ inst'[K(o)].url = T(o).url
    PROVE  RowKnown'
<1>0. TypeOK
  BY DEF DeployInv
<1>. SUFFICES ASSUME NEW p \in Operators, Active(p)', run'[p].pc # "current",
                     ~run'[p].absent \/ run'[p].pc \in Registered
              PROVE  inst'[K(p)'] # None /\ inst'[K(p)'].url = T(p)'.url
  BY DEF RowKnown, At
<1>1. CASE p = o
  BY <1>0, <1>1, EarlyRuns
<1>2. CASE p # o
  <2>1. run'[p] = run[p] /\ Active(p) /\ K(p)' = K(p) /\ T(p)' = T(p)
    BY <1>0, <1>2, EarlyRuns
  <2>2. K(p) \in Keys
    BY <1>0, <2>1, OwnTypes
  <2>3. inst[K(p)] # None /\ inst[K(p)].url = T(p).url
    BY <2>1 DEF DeployInv, RowKnown, At
  <2>. QED  BY <2>1, <2>2, <2>3
<1>. QED  BY <1>1, <1>2

\* No row becomes active, and no credential in use changes.
LEMMA CredentialFrame ==
    ASSUME DeployInv, NEW o \in Operators, EarlyStep(o),
           \A k \in Keys : inst[k] # None => inst'[k] = inst[k],
           \A k \in Keys : Enabled(k)' => Enabled(k),
           \A k \in Keys : /\ provisioner[k] # Nothing => provisioner'[k] = provisioner[k]
                           /\ client[k] # Nothing => client'[k] = client[k]
    PROVE  ActiveReachable' /\ CredentialKept'
<1>1. UNCHANGED <<lock, live, undone, fresh>>
  BY DEF EarlyStep
<1>2. CredentialKept'
  BY DEF DeployInv, CredentialKept
<1>3. ASSUME NEW k \in Keys, Enabled(k)'
      PROVE  /\ \/ live'[k] = inst'[k].url \/ k \in undone'
                \/ lock' # None /\ lock'.key = k /\ lock'.previous = inst'[k].url
             /\ client'[k] = provisioner'[k] \/ k \in fresh'
  <2>1. Enabled(k) /\ inst'[k] = inst[k] /\ provisioner[k] # Nothing
    BY <1>3 DEF Enabled, DeployInv, CredentialKept
  <2>. QED  BY <2>1, <1>1 DEF DeployInv, ActiveReachable
<1>. QED  BY <1>2, <1>3 DEF ActiveReachable

\* Types across them.
LEMMA EarlyTypes ==
    ASSUME TypeOK, NEW o \in Operators, EarlyStep(o),
           inst' \in [Keys -> {None} \cup Rows], tokens' \subseteq Runs,
           boot' \in [Keys -> Secrets], eso' \in [Keys -> Secrets],
           provisioner' \in [Keys -> Secrets], applied' \in [Keys -> Secrets],
           admin' \in [Keys -> Secrets], client' \in [Keys -> Secrets]
    PROVE  TypeOK'
BY DEF EarlyStep, TypeOK

\* The registry and Keycloak's client stay, and the run knows no more of its row.
LEMMA EarlySame ==
    ASSUME DeployInv, NEW o \in Operators, EarlyStep(o), UNCHANGED <<inst, provisioner, client>>
    PROVE  /\ GatewaySerial' /\ RunsDistinct' /\ RouteKnown' /\ ServedFromDisk'
           /\ RoutesSettled'
           /\ Restorable' /\ ActiveReachable' /\ CredentialKept'
<1>1. \A k \in Keys : Enabled(k)' => Enabled(k)
  BY DEF Enabled
<1>. QED  BY <1>1, EarlyGateway, CredentialFrame

\* The registry stays, and the run knows no more of its row than it did.
LEMMA RowSame ==
    ASSUME DeployInv, NEW o \in Operators, EarlyStep(o), UNCHANGED inst,
           run[o].pc # "current",
           Active(o)' => /\ run'[o].absent = run[o].absent
                         /\ run'[o].pc \in Registered => run[o].pc \in Registered
    PROVE  RowKnown'
<1>1. Active(o)
  BY DEF EarlyStep
<1>2. Active(o)' /\ (~run'[o].absent \/ run'[o].pc \in Registered)
        => inst'[K(o)] # None /\ inst'[K(o)].url = T(o).url
  BY <1>1 DEF DeployInv, RowKnown, At
<1>. QED  BY <1>2, RowFrame

\* A step that writes nothing outside the run.
LEMMA EarlyQuiet ==
    ASSUME DeployInv, NEW o \in Operators, EarlyStep(o),
           UNCHANGED <<inst, boot, eso, provisioner, tokens, applied, admin, client>>
    PROVE  /\ TypeOK' /\ GatewaySerial' /\ RunsDistinct' /\ RouteKnown' /\ ServedFromDisk'
           /\ RoutesSettled'
           /\ Restorable' /\ ActiveReachable' /\ CredentialKept'
<1>1. TypeOK'
  BY EarlyTypes DEF DeployInv, TypeOK
<1>. QED  BY <1>1, EarlySame

\* The row is looked up.
LEMMA CurrentInv ==
    ASSUME DeployInv, NEW o \in Operators, Current(o)
    PROVE  CoreInv'
<1>0. TypeOK /\ Active(o) /\ run[o].pc = "current"
  BY DEF DeployInv, Current, At, Active
<1>1. UNCHANGED <<inst, boot, eso, provisioner, tokens, applied, admin, client>>
  BY DEF Current, vault
<1>2. /\ EarlyStep(o)
      /\ \/ run'[o] = Idle
         \/ /\ run'[o].pc = "secrets" /\ run'[o].cred = run[o].cred
            /\ run'[o].absent = (inst[K(o)] = None)
            /\ inst[K(o)] # None => inst[K(o)].url = T(o).url
  <2>1. CASE inst[K(o)] # None /\ inst[K(o)].url # T(o).url
    <3>1. Ends(o)
      BY <2>1 DEF Current
    <3>. QED  BY <3>1, <1>0, EndsEffect DEF Current, EarlyStep, Early, gateway, ghosts
  <2>2. CASE ~(inst[K(o)] # None /\ inst[K(o)].url # T(o).url)
    <3>1. MovesAbsent(o, "secrets", inst[K(o)] = None)
      BY <2>2 DEF Current, MovesAbsent
    <3>2. "secrets" \in Pcs /\ (inst[K(o)] = None) \in BOOLEAN
      BY DEF Pcs
    <3>3. /\ run'[o] \in Deployments /\ run'[o].pc = "secrets" /\ run'[o].t = run[o].t
          /\ run'[o].tx = run[o].tx /\ run'[o].absent = (inst[K(o)] = None)
          /\ run'[o].cred = run[o].cred
          /\ Others(o) /\ run' \in [Operators -> {Idle} \cup Deployments]
      BY <3>1, <3>2, <1>0, MoveAbsent
    <3>. QED  BY <3>3, <2>2, <1>0 DEF Current, EarlyStep, Early, gateway, ghosts
  <2>. QED  BY <2>1, <2>2
<1>3. run'[o].pc \in {"idle", "secrets"}
  BY <1>2 DEF Idle
<1>4. Active(o)' => run'[o].pc = "secrets" /\ run'[o].cred = run[o].cred
  BY <1>2 DEF Active, Idle
<1>5. SecretsAgree'
  BY <1>1, <1>2, <1>4, SecretsFrame
<1>6. NoStrayToken' /\ TokenHeld'
  BY <1>0, <1>1, <1>2, <1>3, TokensFrame, HeldFrame
<1>7. RowKnown'
  <2>1. ASSUME Active(o)', ~run'[o].absent \/ run'[o].pc \in Registered
        PROVE  inst'[K(o)] # None /\ inst'[K(o)].url = T(o).url
    <3>1. /\ run'[o].pc = "secrets" /\ run'[o].absent = (inst[K(o)] = None)
          /\ inst[K(o)] # None => inst[K(o)].url = T(o).url
      BY <2>1, <1>2, <1>4 DEF Idle
    <3>. QED  BY <2>1, <3>1, <1>1 DEF Registered
  <2>. QED  BY <2>1, <1>1, <1>2, RowFrame
<1>. QED  BY <1>1, <1>2, <1>5, <1>6, <1>7, EarlyQuiet DEF CoreInv

\* The administrator's password is created, or read.
LEMMA EnsureBootstrapInv ==
    ASSUME DeployInv, NEW o \in Operators, EnsureBootstrap(o)
    PROVE  CoreInv'
<1>0. TypeOK /\ Active(o) /\ run[o].pc = "secrets"
  BY DEF DeployInv, EnsureBootstrap, At, Active
<1>1. UNCHANGED <<inst, eso, provisioner, tokens, applied, admin, client>>
  BY DEF EnsureBootstrap
<1>2. /\ boot' \in [Keys -> Secrets]
      /\ \A k \in Keys : boot[k] # Nothing => boot'[k] = boot[k]
  <2>1. boot' = [boot EXCEPT ![K(o)] = Ensured(boot[K(o)], run[o].tx)]
    BY DEF EnsureBootstrap
  <2>. QED  BY <2>1, <1>0, OwnTypes, SecretTypes DEF TypeOK
<1>3. /\ run'[o] \in Deployments /\ run'[o].pc = "token" /\ run'[o].t = run[o].t
      /\ run'[o].tx = run[o].tx /\ run'[o].absent = run[o].absent
      /\ run'[o].cred = boot'[K(o)]
      /\ Others(o) /\ run' \in [Operators -> {Idle} \cup Deployments]
  <2>1. PICK x \in Secrets : x = boot'[K(o)]
    BY <1>0, <1>2, OwnTypes
  <2>2. MovesCred(o, "token", x)
    BY <2>1 DEF EnsureBootstrap, MovesCred
  <2>3. "token" \in Pcs
    BY DEF Pcs
  <2>4. /\ run'[o] \in Deployments /\ run'[o].pc = "token" /\ run'[o].t = run[o].t
        /\ run'[o].tx = run[o].tx /\ run'[o].absent = run[o].absent /\ run'[o].cred = x
        /\ Others(o) /\ run' \in [Operators -> {Idle} \cup Deployments]
    BY <2>1, <2>2, <2>3, <1>0, MoveCred
  <2>. QED  BY <2>1, <2>4
<1>4. EarlyStep(o)
  BY <1>0, <1>3 DEF EnsureBootstrap, EarlyStep, Early, gateway, ghosts
<1>5. SecretsAgree'
  <2>1. ASSUME NEW p \in Operators, Active(p)'
        PROVE  run'[p].cred \in {Nothing, boot'[K(p)']}
    <3>1. Active(p) /\ K(p)' = K(p)
      BY <2>1, <1>0, <1>4, EarlyRuns
    <3>2. K(p) \in Keys
      BY <3>1, <1>0, OwnTypes
    <3>3. CASE p = o
      BY <3>1, <3>3, <1>3
    <3>4. CASE p # o
      <4>1. run'[p] = run[p] /\ run[p].cred \in {Nothing, boot[K(p)]}
        BY <3>1, <3>4, <1>0, <1>4, EarlyRuns DEF DeployInv, SecretsAgree
      <4>. QED  BY <4>1, <3>1, <3>2, <1>2
    <3>. QED  BY <3>3, <3>4
  <2>2. ASSUME NEW k \in Keys
        PROVE  admin'[k] \in {Nothing, boot'[k]} /\ applied'[k] \in {Nothing, eso'[k]}
    BY <1>1, <1>2 DEF DeployInv, SecretsAgree
  <2>. QED  BY <2>1, <2>2 DEF SecretsAgree
<1>6. NoStrayToken' /\ TokenHeld'
  BY <1>0, <1>1, <1>3, <1>4, TokensFrame, HeldFrame
<1>7. RowKnown'
  BY <1>0, <1>1, <1>3, <1>4, RowSame DEF Registered
<1>8. TypeOK'
  BY <1>0, <1>1, <1>2, <1>4, EarlyTypes DEF TypeOK
<1>. QED  BY <1>1, <1>4, <1>5, <1>6, <1>7, <1>8, EarlySame DEF CoreInv

\* A stored token is renewed, or refused; without one the run makes its own.
LEMMA FindTokenInv ==
    ASSUME DeployInv, NEW o \in Operators, FindToken(o)
    PROVE  CoreInv'
<1>0. TypeOK /\ Active(o) /\ run[o].pc = "token"
  BY DEF DeployInv, FindToken, At, Active
<1>1. UNCHANGED <<inst, boot, eso, provisioner, tokens, applied, admin, client>>
  BY DEF FindToken, vault
<1>2. /\ EarlyStep(o)
      /\ \/ run'[o] = Idle
         \/ /\ run'[o].pc = "mint" /\ run'[o].cred = run[o].cred
            /\ run'[o].absent = run[o].absent
         \/ /\ run'[o].pc = "apply" /\ run'[o].cred = run[o].cred
            /\ run'[o].absent = run[o].absent /\ run'[o].held = eso[K(o)]
            /\ eso[K(o)] # Nothing
  <2>1. CASE eso[K(o)] = Nothing
    <3>1. Goes(o, "mint") /\ "mint" \in Pcs
      BY <2>1 DEF FindToken, Pcs
    <3>. QED  BY <3>1, <1>0, GoesEffect DEF FindToken, EarlyStep, Early, gateway, ghosts
  <2>2. CASE eso[K(o)] # Nothing /\ eso[K(o)] \in tokens
    <3>1. MovesHeld(o, "apply", eso[K(o)])
      BY <2>2 DEF FindToken, MovesHeld
    <3>2. "apply" \in Pcs /\ eso[K(o)] \in Secrets
      BY <1>0, OwnTypes DEF Pcs
    <3>3. /\ run'[o] \in Deployments /\ run'[o].pc = "apply" /\ run'[o].t = run[o].t
          /\ run'[o].tx = run[o].tx /\ run'[o].absent = run[o].absent
          /\ run'[o].cred = run[o].cred /\ run'[o].held = eso[K(o)]
          /\ Others(o) /\ run' \in [Operators -> {Idle} \cup Deployments]
      BY <3>1, <3>2, <1>0, MoveHeld
    <3>. QED  BY <3>3, <2>2, <1>0 DEF FindToken, EarlyStep, Early, gateway, ghosts
  <2>3. CASE eso[K(o)] # Nothing /\ eso[K(o)] \notin tokens
    <3>1. Ends(o)
      BY <2>3 DEF FindToken
    <3>. QED  BY <3>1, <1>0, EndsEffect DEF FindToken, EarlyStep, Early, gateway, ghosts
  <2>. QED  BY <2>1, <2>2, <2>3
<1>3. Active(o)' => /\ run'[o].pc \in {"mint", "apply"} /\ run'[o].cred = run[o].cred
                    /\ run'[o].absent = run[o].absent
  BY <1>2 DEF Active, Idle
<1>4. SecretsAgree'
  BY <1>1, <1>2, <1>3, SecretsFrame
<1>5. NoStrayToken'
  BY <1>0, <1>1, <1>2, TokensFrame
<1>6. TokenHeld'
  <2>. SUFFICES ASSUME NEW p \in Operators, run'[p].pc \in {"revoke", "apply"}
                PROVE  run'[p].held = eso[K(p)'] /\ eso[K(p)'] # Nothing
    BY <1>1 DEF TokenHeld
  <2>1. CASE p = o
    <3>1. Active(p)'
      BY DEF Active
    <3>2. K(p)' = K(p)
      BY <2>1, <3>1, <1>0, <1>2, EarlyRuns
    <3>. QED  BY <2>1, <3>2, <1>2 DEF Idle
  <2>2. CASE p # o
    BY <2>2, <1>0, <1>2, EarlyRuns DEF DeployInv, TokenHeld
  <2>. QED  BY <2>1, <2>2
<1>7. RowKnown'
  BY <1>0, <1>1, <1>2, <1>3, RowSame DEF Registered
<1>. QED  BY <1>1, <1>2, <1>4, <1>5, <1>6, <1>7, EarlyQuiet DEF CoreInv

\* The run makes a token.
LEMMA MintTokenInv ==
    ASSUME DeployInv, NEW o \in Operators, MintToken(o)
    PROVE  CoreInv'
<1>0. TypeOK /\ Active(o) /\ run[o].pc = "mint"
  BY DEF DeployInv, MintToken, At, Active
<1>1. /\ UNCHANGED <<inst, boot, eso, provisioner, applied, admin, client>>
      /\ tokens' = tokens \cup {run[o].tx}
  BY DEF MintToken
<1>2. /\ run'[o] \in Deployments /\ run'[o].pc = "store" /\ run'[o].t = run[o].t
      /\ run'[o].tx = run[o].tx /\ run'[o].absent = run[o].absent
      /\ run'[o].cred = run[o].cred
      /\ Others(o) /\ run' \in [Operators -> {Idle} \cup Deployments]
  <2>1. Goes(o, "store") /\ "store" \in Pcs
    BY DEF MintToken, Pcs
  <2>. QED  BY <2>1, <1>0, GoesEffect
<1>3. EarlyStep(o)
  BY <1>0, <1>2 DEF MintToken, EarlyStep, Early, gateway, ghosts
<1>4. SecretsAgree' /\ TokenHeld'
  BY <1>1, <1>2, <1>3, SecretsFrame, HeldFrame
<1>5. NoStrayToken'
  <2>1. UNCHANGED lost
    BY <1>3 DEF EarlyStep
  <2>. QED  BY <2>1, <1>0, <1>1, <1>2 DEF DeployInv, NoStrayToken, Others
<1>6. RowKnown'
  BY <1>0, <1>1, <1>2, <1>3, RowSame DEF Registered
<1>7. TypeOK'
  BY <1>0, <1>1, <1>3, EarlyTypes, OwnTypes DEF TypeOK
<1>. QED  BY <1>1, <1>3, <1>4, <1>5, <1>6, <1>7, EarlySame DEF CoreInv

\* The token is stored unless another run's is.
LEMMA StoreTokenInv ==
    ASSUME DeployInv, NEW o \in Operators, StoreToken(o)
    PROVE  CoreInv'
<1>. DEFINE winner == Ensured(eso[K(o)], run[o].tx)
            next == IF winner = run[o].tx THEN "apply" ELSE "revoke"
<1>0. TypeOK /\ Active(o) /\ run[o].pc = "store"
  BY DEF DeployInv, StoreToken, At, Active
<1>1. /\ UNCHANGED <<inst, boot, provisioner, tokens, applied, admin, client>>
      /\ eso' = [eso EXCEPT ![K(o)] = winner]
      /\ MovesHeld(o, next, winner)
  BY DEF StoreToken, MovesHeld
<1>2. /\ winner \in Secrets /\ winner # Nothing /\ K(o) \in Keys
      /\ eso[K(o)] # Nothing => winner = eso[K(o)]
      /\ run[o].tx = winner \/ next = "revoke"
      /\ next \in Pcs /\ next \in {"apply", "revoke"}
  BY <1>0, OwnTypes, SecretTypes DEF Pcs
<1>. HIDE DEF winner, next
<1>3. /\ run'[o] \in Deployments /\ run'[o].pc = next /\ run'[o].t = run[o].t
      /\ run'[o].tx = run[o].tx /\ run'[o].absent = run[o].absent
      /\ run'[o].cred = run[o].cred /\ run'[o].held = winner
      /\ Others(o) /\ run' \in [Operators -> {Idle} \cup Deployments]
  BY <1>0, <1>1, <1>2, MoveHeld
<1>4. EarlyStep(o)
  BY <1>0, <1>2, <1>3 DEF StoreToken, EarlyStep, Early, gateway, ghosts
<1>5. /\ eso' \in [Keys -> Secrets] /\ eso'[K(o)] = winner
      /\ \A k \in Keys : eso[k] # Nothing => eso'[k] = eso[k]
  BY <1>0, <1>1, <1>2 DEF TypeOK
<1>6. SecretsAgree'
  <2>1. ASSUME NEW p \in Operators, Active(p)'
        PROVE  run'[p].cred \in {Nothing, boot'[K(p)']}
    <3>1. Active(p) /\ K(p)' = K(p) /\ run'[p].cred = run[p].cred
      BY <2>1, <1>0, <1>3, <1>4, EarlyRuns
    <3>. QED  BY <3>1, <1>1 DEF DeployInv, SecretsAgree
  <2>2. ASSUME NEW k \in Keys
        PROVE  admin'[k] \in {Nothing, boot'[k]} /\ applied'[k] \in {Nothing, eso'[k]}
    BY <1>1, <1>5 DEF DeployInv, SecretsAgree
  <2>. QED  BY <2>1, <2>2 DEF SecretsAgree
<1>7. NoStrayToken'
  <2>. SUFFICES ASSUME NEW x \in tokens, x \notin lost, x \notin {eso'[k] : k \in Keys}
                PROVE  \E p \in Operators : run'[p].pc \in {"store", "revoke"}
                                            /\ run'[p].tx = x
    BY <1>1, <1>4 DEF NoStrayToken, EarlyStep
  <2>0. x \in Runs /\ x # Nothing
    BY <1>0, SecretTypes DEF TypeOK
  <2>1. x \notin {eso[k] : k \in Keys}
    BY <2>0, <1>5
  <2>2. PICK p \in Operators : run[p].pc \in {"store", "revoke"} /\ run[p].tx = x
    BY <2>1 DEF DeployInv, NoStrayToken
  <2>3. CASE p = o
    BY <2>2, <2>3, <1>2, <1>3, <1>5
  <2>4. CASE p # o
    BY <2>2, <2>4, <1>3 DEF Others
  <2>. QED  BY <2>3, <2>4
<1>8. TokenHeld'
  <2>. SUFFICES ASSUME NEW p \in Operators, run'[p].pc \in {"revoke", "apply"}
                PROVE  run'[p].held = eso'[K(p)'] /\ eso'[K(p)'] # Nothing
    BY DEF TokenHeld
  <2>1. Active(p)'
    BY DEF Active
  <2>2. Active(p) /\ K(p)' = K(p) /\ K(p) \in Keys
    BY <2>1, <1>0, <1>4, EarlyRuns, OwnTypes
  <2>3. CASE p = o
    BY <2>2, <2>3, <1>2, <1>3, <1>5
  <2>4. CASE p # o
    BY <2>2, <2>4, <1>3, <1>5 DEF DeployInv, TokenHeld, Others
  <2>. QED  BY <2>3, <2>4
<1>9. RowKnown'
  BY <1>0, <1>1, <1>2, <1>3, <1>4, RowSame DEF Registered
<1>10. TypeOK'
  BY <1>0, <1>1, <1>4, <1>5, EarlyTypes DEF TypeOK
<1>. QED  BY <1>1, <1>4, <1>6, <1>7, <1>8, <1>9, <1>10, EarlySame DEF CoreInv

\* The loser revokes its own token.
LEMMA RevokeTokenInv ==
    ASSUME DeployInv, NEW o \in Operators, RevokeToken(o)
    PROVE  CoreInv'
<1>0. TypeOK /\ Active(o) /\ run[o].pc = "revoke"
  BY DEF DeployInv, RevokeToken, At, Active
<1>1. /\ UNCHANGED <<inst, boot, eso, provisioner, applied, admin, client>>
      /\ tokens' = tokens \ {run[o].tx}
  BY DEF RevokeToken
<1>2. /\ run'[o] \in Deployments /\ run'[o].pc = "apply" /\ run'[o].t = run[o].t
      /\ run'[o].tx = run[o].tx /\ run'[o].absent = run[o].absent
      /\ run'[o].cred = run[o].cred /\ run'[o].held = run[o].held
      /\ Others(o) /\ run' \in [Operators -> {Idle} \cup Deployments]
  <2>1. Goes(o, "apply") /\ "apply" \in Pcs
    BY DEF RevokeToken, Pcs
  <2>. QED  BY <2>1, <1>0, GoesEffect
<1>3. EarlyStep(o)
  BY <1>0, <1>2 DEF RevokeToken, EarlyStep, Early, gateway, ghosts
<1>4. SecretsAgree'
  BY <1>1, <1>2, <1>3, SecretsFrame
<1>5. NoStrayToken'
  <2>1. UNCHANGED lost
    BY <1>3 DEF EarlyStep
  <2>. QED  BY <2>1, <1>0, <1>1, <1>2 DEF DeployInv, NoStrayToken, Others
<1>6. TokenHeld'
  <2>. SUFFICES ASSUME NEW p \in Operators, run'[p].pc \in {"revoke", "apply"}
                PROVE  run'[p].held = eso[K(p)'] /\ eso[K(p)'] # Nothing
    BY <1>1 DEF TokenHeld
  <2>1. Active(p)'
    BY DEF Active
  <2>2. K(p)' = K(p) /\ run'[p].held = run[p].held /\ run[p].pc \in {"revoke", "apply"}
    BY <2>1, <1>0, <1>2, <1>3, EarlyRuns
  <2>. QED  BY <2>2 DEF DeployInv, TokenHeld
<1>7. RowKnown'
  BY <1>0, <1>1, <1>2, <1>3, RowSame DEF Registered
<1>8. TypeOK'
  BY <1>0, <1>1, <1>3, EarlyTypes DEF TypeOK
<1>. QED  BY <1>1, <1>3, <1>4, <1>5, <1>6, <1>7, <1>8, EarlySame DEF CoreInv

\* The token reaches the cluster's Secret.
LEMMA ApplyTokenInv ==
    ASSUME DeployInv, NEW o \in Operators, ApplyToken(o)
    PROVE  CoreInv'
<1>0. TypeOK /\ Active(o) /\ run[o].pc = "apply"
  BY DEF DeployInv, ApplyToken, At, Active
<1>1. /\ UNCHANGED <<inst, boot, eso, provisioner, tokens, admin, client>>
      /\ applied' = [applied EXCEPT ![K(o)] = run[o].held]
  BY DEF ApplyToken, vault
<1>2. /\ run'[o] \in Deployments /\ run'[o].pc = "register" /\ run'[o].t = run[o].t
      /\ run'[o].tx = run[o].tx /\ run'[o].absent = run[o].absent
      /\ run'[o].cred = run[o].cred
      /\ Others(o) /\ run' \in [Operators -> {Idle} \cup Deployments]
  <2>1. MovesHeld(o, "register", Nothing) /\ "register" \in Pcs /\ Nothing \in Secrets
    BY SecretTypes DEF ApplyToken, MovesHeld, Pcs
  <2>. QED  BY <2>1, <1>0, MoveHeld
<1>3. EarlyStep(o)
  BY <1>0, <1>2 DEF ApplyToken, EarlyStep, Early, gateway, ghosts
<1>4. /\ applied' \in [Keys -> Secrets]
      /\ \A k \in Keys : applied'[k] \in {applied[k], eso[k]}
  <2>1. run[o].held = eso[K(o)]
    BY <1>0 DEF DeployInv, TokenHeld
  <2>. QED  BY <2>1, <1>0, <1>1, OwnTypes DEF TypeOK
<1>5. SecretsAgree'
  <2>1. ASSUME NEW p \in Operators, Active(p)'
        PROVE  run'[p].cred \in {Nothing, boot'[K(p)']}
    <3>1. Active(p) /\ K(p)' = K(p) /\ run'[p].cred = run[p].cred
      BY <2>1, <1>0, <1>2, <1>3, EarlyRuns
    <3>. QED  BY <3>1, <1>1 DEF DeployInv, SecretsAgree
  <2>2. ASSUME NEW k \in Keys
        PROVE  admin'[k] \in {Nothing, boot'[k]} /\ applied'[k] \in {Nothing, eso'[k]}
    BY <1>1, <1>4 DEF DeployInv, SecretsAgree
  <2>. QED  BY <2>1, <2>2 DEF SecretsAgree
<1>6. NoStrayToken' /\ TokenHeld'
  BY <1>0, <1>1, <1>2, <1>3, TokensFrame, HeldFrame
<1>7. RowKnown'
  BY <1>0, <1>1, <1>2, <1>3, RowSame DEF Registered
<1>8. TypeOK'
  BY <1>0, <1>1, <1>3, <1>4, EarlyTypes DEF TypeOK
<1>. QED  BY <1>1, <1>3, <1>5, <1>6, <1>7, <1>8, EarlySame DEF CoreInv

\* The rows written for a target.
LEMMA TargetRow ==
    ASSUME NEW t \in Targets, NEW b \in BOOLEAN
    PROVE  /\ t.key \in Keys /\ t.url \in Urls
           /\ Row(t, b) \in Rows /\ Row(t, b) # None
           /\ Row(t, b).url = t.url /\ Row(t, b).enabled = b
<1>1. t.key \in Keys /\ t.url \in Urls /\ t.cluster \in Clusters
  BY DeployAssumption DEF TargetConfig
<1>2. Row(t, b) \in Rows
  BY <1>1 DEF Row, Rows
<1>3. Row(t, b) # None
  BY <1>2, DeployAssumption
<1>. QED  BY <1>1, <1>2, <1>3 DEF Row

\* The rows a run writes.
LEMMA RowTypes ==
    ASSUME TypeOK, NEW o \in Operators, Active(o), NEW b \in BOOLEAN
    PROVE  /\ Row(T(o), b) \in Rows /\ Row(T(o), b) # None
           /\ Row(T(o), b).url = T(o).url /\ Row(T(o), b).enabled = b
<1>1. T(o).url \in Urls /\ T(o).cluster \in Clusters
  BY OwnTypes
<1>2. Row(T(o), b) \in Rows
  BY <1>1 DEF Row, Rows
<1>3. Row(T(o), b) # None
  BY <1>2, DeployAssumption
<1>. QED  BY <1>2, <1>3 DEF Row

\* The row of a new instance is created; one that exists stays as it is.
LEMMA RegisterInv ==
    ASSUME DeployInv, NEW o \in Operators, Register(o)
    PROVE  CoreInv'
<1>. DEFINE new == Row(T(o), FALSE)
<1>0. TypeOK /\ Active(o) /\ run[o].pc = "register" /\ K(o) \in Keys
  BY OwnTypes DEF DeployInv, Register, At, Active
<1>1. UNCHANGED <<boot, eso, provisioner, tokens, applied, admin, client>>
  BY DEF Register, vault
<1>2. new \in Rows /\ new # None /\ new.url = T(o).url /\ ~new.enabled
  BY <1>0, RowTypes
<1>3. \/ /\ inst[K(o)] = None /\ inst' = [inst EXCEPT ![K(o)] = new] /\ Goes(o, "install")
      \/ UNCHANGED inst /\ Ends(o)
      \/ UNCHANGED inst /\ Goes(o, "install") /\ ~run[o].absent
      \/ /\ UNCHANGED inst /\ Goes(o, "install")
         /\ inst[K(o)] # None /\ inst[K(o)].url = T(o).url
  BY DEF Register, CreatesRow
<1>. HIDE DEF new
<1>4. /\ inst' \in [Keys -> {None} \cup Rows]
      /\ \A k \in Keys : inst[k] # None => inst'[k] = inst[k]
      /\ \A k \in Keys : inst'[k] # inst[k] => k = K(o) /\ inst'[k] = new
  BY <1>0, <1>2, <1>3 DEF TypeOK
<1>5. \A k \in Keys : Enabled(k)' => Enabled(k)
  BY <1>2, <1>4 DEF Enabled
<1>6. /\ EarlyStep(o)
      /\ \/ run'[o] = Idle
         \/ run'[o].pc = "install" /\ run'[o].cred = run[o].cred
  <2>1. CASE Ends(o)
    BY <2>1, <1>0, EndsEffect DEF Register, EarlyStep, Early, gateway, ghosts
  <2>2. CASE Goes(o, "install")
    <3>1. "install" \in Pcs
      BY DEF Pcs
    <3>. QED  BY <2>2, <3>1, <1>0, GoesEffect DEF Register, EarlyStep, Early, gateway, ghosts
  <2>. QED  BY <2>1, <2>2, <1>3
<1>7. /\ run'[o].pc \in {"idle", "install"}
      /\ Active(o)' => run'[o].pc = "install" /\ run'[o].cred = run[o].cred
  BY <1>6 DEF Idle, Active
<1>8. RowKnown'
  <2>1. ASSUME Active(o)'  PROVE inst'[K(o)] # None /\ inst'[K(o)].url = T(o).url
    <3>1. ~Ends(o)
      BY <2>1, <1>0, EndsEffect DEF Active
    <3>2. CASE inst[K(o)] = None /\ inst' = [inst EXCEPT ![K(o)] = new]
      BY <3>2, <1>0, <1>2 DEF TypeOK
    <3>3. CASE UNCHANGED inst /\ ~run[o].absent
      BY <3>3, <1>0 DEF DeployInv, RowKnown, At
    <3>4. CASE UNCHANGED inst /\ inst[K(o)] # None /\ inst[K(o)].url = T(o).url
      BY <3>4
    <3>. QED  BY <3>1, <3>2, <3>3, <3>4, <1>3
  <2>. QED  BY <2>1, <1>4, <1>6, RowFrame
<1>9. SecretsAgree' /\ NoStrayToken' /\ TokenHeld'
  BY <1>0, <1>1, <1>6, <1>7, SecretsFrame, TokensFrame, HeldFrame
<1>10. TypeOK'
  BY <1>0, <1>1, <1>4, <1>6, EarlyTypes DEF TypeOK
<1>11. ActiveReachable' /\ CredentialKept'
  BY <1>1, <1>4, <1>5, <1>6, CredentialFrame
<1>12. /\ GatewaySerial' /\ RunsDistinct' /\ RouteKnown' /\ ServedFromDisk'
       /\ RoutesSettled' /\ Restorable'
  BY <1>4, <1>5, <1>6, EarlyGateway
<1>. QED  BY <1>8, <1>9, <1>10, <1>11, <1>12 DEF CoreInv

\* Keycloak's first start takes the administrator that is in Vault.
LEMMA InstallInv ==
    ASSUME DeployInv, NEW o \in Operators, Install(o)
    PROVE  CoreInv'
<1>0. TypeOK /\ Active(o) /\ run[o].pc = "install"
  BY DEF DeployInv, Install, At, Active
<1>1. /\ UNCHANGED <<inst, boot, eso, provisioner, tokens, applied, client>>
      /\ admin' = [admin EXCEPT ![K(o)] = Ensured(admin[K(o)], boot[K(o)])]
  BY DEF Install, vault
<1>2. /\ run'[o] \in Deployments /\ run'[o].pc = "retained" /\ run'[o].t = run[o].t
      /\ run'[o].tx = run[o].tx /\ run'[o].absent = run[o].absent
      /\ run'[o].cred = run[o].cred
      /\ Others(o) /\ run' \in [Operators -> {Idle} \cup Deployments]
  <2>1. Goes(o, "retained") /\ "retained" \in Pcs
    BY DEF Install, Pcs
  <2>. QED  BY <2>1, <1>0, GoesEffect
<1>3. EarlyStep(o)
  BY <1>0, <1>2 DEF Install, EarlyStep, Early, gateway, ghosts
<1>4. /\ admin' \in [Keys -> Secrets]
      /\ \A k \in Keys : admin'[k] \in {admin[k], boot[k]}
  <2>1. Ensured(admin[K(o)], boot[K(o)]) \in Secrets \cap {admin[K(o)], boot[K(o)]}
    BY <1>0, OwnTypes, SecretTypes
  <2>2. K(o) \in Keys
    BY <1>0, OwnTypes
  <2>. QED  BY <2>1, <2>2, <1>0, <1>1 DEF TypeOK
<1>5. SecretsAgree'
  <2>1. ASSUME NEW p \in Operators, Active(p)'
        PROVE  run'[p].cred \in {Nothing, boot'[K(p)']}
    <3>1. Active(p) /\ K(p)' = K(p) /\ run'[p].cred = run[p].cred
      BY <2>1, <1>0, <1>2, <1>3, EarlyRuns
    <3>. QED  BY <3>1, <1>1 DEF DeployInv, SecretsAgree
  <2>2. ASSUME NEW k \in Keys
        PROVE  admin'[k] \in {Nothing, boot'[k]} /\ applied'[k] \in {Nothing, eso'[k]}
    BY <1>1, <1>4 DEF DeployInv, SecretsAgree
  <2>. QED  BY <2>1, <2>2 DEF SecretsAgree
<1>6. NoStrayToken' /\ TokenHeld'
  BY <1>0, <1>1, <1>2, <1>3, TokensFrame, HeldFrame
<1>7. RowKnown'
  BY <1>0, <1>1, <1>2, <1>3, RowSame DEF Registered
<1>8. TypeOK'
  BY <1>0, <1>1, <1>3, <1>4, EarlyTypes DEF TypeOK
<1>. QED  BY <1>1, <1>3, <1>5, <1>6, <1>7, <1>8, EarlySame DEF CoreInv

\* The login, and the stored secret of the provisioner.
LEMMA RetainedInv ==
    ASSUME DeployInv, NEW o \in Operators, Retained(o)
    PROVE  CoreInv'
<1>0. TypeOK /\ Active(o) /\ run[o].pc = "retained"
  BY DEF DeployInv, Retained, At, Active
<1>1. UNCHANGED <<inst, boot, eso, provisioner, tokens, applied, admin, client>>
  BY DEF Retained, vault
<1>2. /\ EarlyStep(o)
      /\ \/ run'[o] = Idle
         \/ /\ run'[o].pc = "client" /\ run'[o].cred = run[o].cred
            /\ run'[o].absent = run[o].absent
  <2>1. CASE run[o].cred # admin[K(o)]
    <3>1. Ends(o)
      BY <2>1 DEF Retained
    <3>. QED  BY <3>1, <1>0, EndsEffect DEF Retained, EarlyStep, Early, gateway, ghosts
  <2>2. CASE run[o].cred = admin[K(o)]
    <3>1. MovesHeld(o, "client", provisioner[K(o)])
      BY <2>2 DEF Retained, MovesHeld
    <3>2. "client" \in Pcs /\ provisioner[K(o)] \in Secrets
      BY <1>0, OwnTypes DEF Pcs
    <3>3. /\ run'[o] \in Deployments /\ run'[o].pc = "client" /\ run'[o].t = run[o].t
          /\ run'[o].tx = run[o].tx /\ run'[o].absent = run[o].absent
          /\ run'[o].cred = run[o].cred
          /\ Others(o) /\ run' \in [Operators -> {Idle} \cup Deployments]
      BY <3>1, <3>2, <1>0, MoveHeld
    <3>. QED  BY <3>3, <1>0 DEF Retained, EarlyStep, Early, gateway, ghosts
  <2>. QED  BY <2>1, <2>2
<1>3. /\ run'[o].pc \in {"idle", "client"}
      /\ Active(o)' => /\ run'[o].pc = "client" /\ run'[o].cred = run[o].cred
                       /\ run'[o].absent = run[o].absent
  BY <1>2 DEF Idle, Active
<1>4. SecretsAgree' /\ NoStrayToken' /\ TokenHeld'
  BY <1>0, <1>1, <1>2, <1>3, SecretsFrame, TokensFrame, HeldFrame
<1>5. RowKnown'
  BY <1>0, <1>1, <1>2, <1>3, RowSame DEF Registered
<1>. QED  BY <1>1, <1>2, <1>4, <1>5, EarlyQuiet DEF CoreInv

\* The client is created unless it exists: a client in use keeps its secret.
LEMMA EnsureProvisionerInv ==
    ASSUME DeployInv, NEW o \in Operators, EnsureProvisioner(o)
    PROVE  CoreInv'
<1>. DEFINE secret == Ensured(client[K(o)], Ensured(run[o].held, run[o].tx))
<1>0. TypeOK /\ Active(o) /\ run[o].pc = "client"
  BY DEF DeployInv, EnsureProvisioner, At, Active
<1>1. /\ UNCHANGED <<inst, boot, eso, provisioner, tokens, applied, admin>>
      /\ client' = [client EXCEPT ![K(o)] = secret]
      /\ MovesHeld(o, "provisioner", secret)
  BY DEF EnsureProvisioner, vault, MovesHeld
<1>2. /\ secret \in Secrets /\ "provisioner" \in Pcs /\ K(o) \in Keys
      /\ client[K(o)] # Nothing => secret = client[K(o)]
  <2>1. Ensured(run[o].held, run[o].tx) \in Secrets
    BY <1>0, OwnTypes, SecretTypes
  <2>. QED  BY <2>1, <1>0, OwnTypes, SecretTypes DEF Pcs
<1>. HIDE DEF secret
<1>3. /\ run'[o] \in Deployments /\ run'[o].pc = "provisioner" /\ run'[o].t = run[o].t
      /\ run'[o].tx = run[o].tx /\ run'[o].absent = run[o].absent
      /\ run'[o].cred = run[o].cred
      /\ Others(o) /\ run' \in [Operators -> {Idle} \cup Deployments]
  BY <1>0, <1>1, <1>2, MoveHeld
<1>4. EarlyStep(o)
  BY <1>0, <1>3 DEF EnsureProvisioner, EarlyStep, Early, gateway, ghosts
<1>5. /\ client' \in [Keys -> Secrets]
      /\ \A k \in Keys : client[k] # Nothing => client'[k] = client[k]
  BY <1>0, <1>1, <1>2 DEF TypeOK
<1>6. SecretsAgree' /\ NoStrayToken' /\ TokenHeld'
  BY <1>0, <1>1, <1>3, <1>4, SecretsFrame, TokensFrame, HeldFrame
<1>7. RowKnown'
  BY <1>0, <1>1, <1>3, <1>4, RowSame DEF Registered
<1>8. TypeOK'
  BY <1>0, <1>1, <1>4, <1>5, EarlyTypes DEF TypeOK
<1>9. \A k \in Keys : Enabled(k)' => Enabled(k)
  BY <1>1 DEF Enabled
<1>10. ActiveReachable' /\ CredentialKept'
  BY <1>1, <1>4, <1>5, <1>9, CredentialFrame
<1>11. /\ GatewaySerial' /\ RunsDistinct' /\ RouteKnown' /\ ServedFromDisk'
       /\ RoutesSettled' /\ Restorable'
  BY <1>1, <1>4, <1>9, EarlyGateway
<1>. QED  BY <1>6, <1>7, <1>8, <1>10, <1>11 DEF CoreInv

\* Its secret is stored unless one is; a run whose client has another secret ends.
LEMMA StoreProvisionerInv ==
    ASSUME DeployInv, NEW o \in Operators, StoreProvisioner(o)
    PROVE  CoreInv'
<1>. DEFINE winner == Ensured(provisioner[K(o)], run[o].held)
<1>0. TypeOK /\ Active(o) /\ run[o].pc = "provisioner"
  BY DEF DeployInv, StoreProvisioner, At, Active
<1>1. /\ UNCHANGED <<inst, boot, eso, tokens, applied, admin, client>>
      /\ provisioner' = [provisioner EXCEPT ![K(o)] = winner]
      /\ Ends(o) \/ MovesHeld(o, "stage", Nothing)
  BY DEF StoreProvisioner, MovesHeld
<1>2. /\ winner \in Secrets /\ K(o) \in Keys
      /\ provisioner[K(o)] # Nothing => winner = provisioner[K(o)]
  BY <1>0, OwnTypes, SecretTypes
<1>. HIDE DEF winner
<1>3. /\ EarlyStep(o)
      /\ \/ run'[o] = Idle
         \/ /\ run'[o].pc = "stage" /\ run'[o].cred = run[o].cred
            /\ run'[o].absent = run[o].absent
  <2>1. CASE Ends(o)
    BY <2>1, <1>0, EndsEffect DEF StoreProvisioner, EarlyStep, Early, gateway, ghosts
  <2>2. CASE MovesHeld(o, "stage", Nothing)
    <3>1. "stage" \in Pcs /\ Nothing \in Secrets
      BY SecretTypes DEF Pcs
    <3>2. /\ run'[o] \in Deployments /\ run'[o].pc = "stage" /\ run'[o].t = run[o].t
          /\ run'[o].tx = run[o].tx /\ run'[o].absent = run[o].absent
          /\ run'[o].cred = run[o].cred
          /\ Others(o) /\ run' \in [Operators -> {Idle} \cup Deployments]
      BY <2>2, <3>1, <1>0, MoveHeld
    <3>. QED  BY <3>2, <1>0 DEF StoreProvisioner, EarlyStep, Early, gateway, ghosts
  <2>. QED  BY <2>1, <2>2, <1>1
<1>4. /\ run'[o].pc \in {"idle", "stage"}
      /\ Active(o)' => /\ run'[o].pc = "stage" /\ run'[o].cred = run[o].cred
                       /\ run'[o].absent = run[o].absent
  BY <1>3 DEF Idle, Active
<1>5. /\ provisioner' \in [Keys -> Secrets]
      /\ \A k \in Keys : provisioner[k] # Nothing => provisioner'[k] = provisioner[k]
  BY <1>0, <1>1, <1>2 DEF TypeOK
<1>6. SecretsAgree' /\ NoStrayToken' /\ TokenHeld'
  BY <1>0, <1>1, <1>3, <1>4, SecretsFrame, TokensFrame, HeldFrame
<1>7. RowKnown'
  BY <1>0, <1>1, <1>3, <1>4, RowSame DEF Registered
<1>8. TypeOK'
  BY <1>0, <1>1, <1>3, <1>5, EarlyTypes DEF TypeOK
<1>9. \A k \in Keys : Enabled(k)' => Enabled(k)
  BY <1>1 DEF Enabled
<1>10. ActiveReachable' /\ CredentialKept'
  BY <1>1, <1>3, <1>5, <1>9, CredentialFrame
<1>11. /\ GatewaySerial' /\ RunsDistinct' /\ RouteKnown' /\ ServedFromDisk'
       /\ RoutesSettled' /\ Restorable'
  BY <1>1, <1>3, <1>9, EarlyGateway
<1>. QED  BY <1>6, <1>7, <1>8, <1>10, <1>11 DEF CoreInv

-----------------------------------------------------------------------------
(* The steps from the staging on, and the failures. *)

\* The shape they share: secrets stay, and a run cut off before the gateway is noted.
LateStep(o) ==
    /\ Active(o) /\ Others(o)
    /\ run' \in [Operators -> {Idle} \cup Deployments]
    /\ \/ run'[o] = Idle
       \/ /\ run'[o] \in Deployments /\ run'[o].pc \in Late
          /\ run'[o].t = run[o].t /\ run'[o].tx = run[o].tx /\ run'[o].cred = run[o].cred
    /\ \/ run[o].pc \in Late
       \/ run'[o] = Idle /\ run[o].tx \in lost'
    /\ lost \subseteq lost'
    /\ UNCHANGED <<boot, eso, provisioner, tokens, applied, admin, client, started>>

\* Who is under way afterwards, and with what.
LEMMA LateRuns ==
    ASSUME TypeOK, NEW o \in Operators, LateStep(o), NEW p \in Operators
    PROVE  /\ p # o => run'[p] = run[p] /\ (Active(p)' <=> Active(p)) /\ K(p)' = K(p)
                         /\ T(p)' = T(p)
           /\ p = o /\ Active(p)' => /\ K(p)' = K(p) /\ T(p)' = T(p)
                                      /\ run'[p].tx = run[p].tx /\ run'[p].cred = run[p].cred
                                      /\ run'[p].pc \in Late /\ run[p].pc \in Late
           /\ Active(p)' => Active(p)
<1>1. p # o => run'[p] = run[p]
  BY DEF LateStep, Others
<1>2. ASSUME p = o, Active(p)'
      PROVE  /\ Active(p) /\ run'[p].t = run[p].t
             /\ run'[p].tx = run[p].tx /\ run'[p].cred = run[p].cred
             /\ run'[p].pc \in Late /\ run[p].pc \in Late
  BY <1>2 DEF LateStep, Active, Idle
<1>. QED  BY <1>1, <1>2 DEF Active, K, T

\* Secrets, tokens and rows do not notice them.
LEMMA LateSecrets ==
    ASSUME DeployInv, NEW o \in Operators, LateStep(o),
           \A k \in Keys : inst[k] # None => inst'[k] # None /\ inst'[k].url = inst[k].url
    PROVE  SecretsAgree' /\ NoStrayToken' /\ TokenHeld' /\ RowKnown'
<1>0. TypeOK
  BY DEF DeployInv
<1>1. UNCHANGED <<boot, eso, tokens, applied, admin>> /\ lost \subseteq lost'
  BY DEF LateStep
<1>2. SecretsAgree'
  <2>1. ASSUME NEW p \in Operators, Active(p)'
        PROVE  run'[p].cred \in {Nothing, boot'[K(p)']}
    <3>1. Active(p) /\ K(p)' = K(p) /\ run'[p].cred = run[p].cred
      BY <2>1, <1>0, LateRuns
    <3>. QED  BY <3>1, <1>1 DEF DeployInv, SecretsAgree
  <2>. QED  BY <2>1, <1>1 DEF DeployInv, SecretsAgree
<1>3. NoStrayToken'
  <2>. SUFFICES ASSUME NEW x \in tokens, x \notin lost', x \notin {eso[k] : k \in Keys}
                PROVE  \E p \in Operators : run'[p].pc \in {"store", "revoke"}
                                            /\ run'[p].tx = x
    BY <1>1 DEF NoStrayToken
  <2>1. PICK p \in Operators : run[p].pc \in {"store", "revoke"} /\ run[p].tx = x
    BY <1>1 DEF DeployInv, NoStrayToken
  <2>2. p # o
    BY <2>1 DEF LateStep, Late
  <2>. QED  BY <2>1, <2>2 DEF LateStep, Others
<1>4. TokenHeld'
  <2>. SUFFICES ASSUME NEW p \in Operators, run'[p].pc \in {"revoke", "apply"}
                PROVE  run'[p].held = eso[K(p)'] /\ eso[K(p)'] # Nothing
    BY <1>1 DEF TokenHeld
  <2>1. Active(p)'
    BY DEF Active
  <2>2. p # o /\ run'[p] = run[p] /\ K(p)' = K(p)
    BY <2>1, <1>0, LateRuns DEF Late
  <2>. QED  BY <2>2 DEF DeployInv, TokenHeld
<1>5. RowKnown'
  <2>. SUFFICES ASSUME NEW p \in Operators, Active(p)', run'[p].pc # "current",
                       ~run'[p].absent \/ run'[p].pc \in Registered
                PROVE  inst'[K(p)'] # None /\ inst'[K(p)'].url = T(p)'.url
    BY DEF RowKnown, At
  <2>1. Active(p) /\ K(p)' = K(p) /\ T(p)' = T(p)
    BY <1>0, LateRuns
  <2>2. K(p) \in Keys
    BY <2>1, <1>0, OwnTypes
  <2>3. inst[K(p)] # None /\ inst[K(p)].url = T(p).url
    <3>1. CASE p = o
      <4>1. run[p].pc \in Late
        BY <3>1, <1>0, LateRuns
      <4>. QED  BY <2>1, <4>1 DEF DeployInv, RowKnown, At, Late, Registered
    <3>2. CASE p # o
      BY <3>2, <2>1, <1>0, LateRuns DEF DeployInv, RowKnown, At
    <3>. QED  BY <3>1, <3>2
  <2>. QED  BY <2>1, <2>2, <2>3
<1>. QED  BY <1>2, <1>3, <1>4, <1>5

\* Types across them.
LEMMA LateTypes ==
    ASSUME TypeOK, NEW o \in Operators, LateStep(o),
           inst' \in [Keys -> {None} \cup Rows], lock' \in {None} \cup Locks,
           file' \in [Keys -> Routes], live' \in [Keys -> Routes],
           detached' \subseteq [tx : Runs, t : Targets], upsets' \in 0 .. MaxUpsets,
           lost' \subseteq Runs, undone' \subseteq Keys, fresh' \subseteq Keys
    PROVE  TypeOK'
BY DEF LateStep, TypeOK

\* Failures are counted up to their bound.
LEMMA UpsetType ==
    ASSUME TypeOK, Upset \/ UNCHANGED upsets
    PROVE  upsets' \in 0 .. MaxUpsets
BY DeployAssumption DEF Upset, TypeOK

\* Transactions keep numbers of their own when runs only go on or end.
LEMMA LateDistinct ==
    ASSUME DeployInv, NEW o \in Operators, LateStep(o), \A d \in detached' : d.tx \in lost'
    PROVE  RunsDistinct'
<1>0. TypeOK
  BY DEF DeployInv
<1>1. ASSUME NEW p \in Operators, Active(p)'
      PROVE  Active(p) /\ run'[p].tx = run[p].tx
  BY <1>0, <1>1, LateRuns
<1>2. UNCHANGED started
  BY DEF LateStep
<1>. QED  BY <1>1, <1>2 DEF DeployInv, RunsDistinct

\* Only the run the lock names is between staging and commit.
LEMMA OneAtTheGateway ==
    ASSUME DeployInv, NEW p \in Operators, run[p].pc \in {"verify", "enable", "commit"}
    PROVE  /\ lock # None /\ lock.owner = run[p].tx /\ lock.key = K(p)
           /\ live[K(p)] = Route(T(p))
           /\ \A q \in Operators : Active(q) /\ run[q].tx = lock.owner => q = p
<1>1. /\ lock # None /\ lock.owner = run[p].tx /\ lock.key = K(p)
      /\ live[K(p)] = Route(T(p))
  BY DEF DeployInv, GatewaySerial, Owns
<1>2. Active(p)
  BY DEF Active
<1>. QED  BY <1>1, <1>2 DEF DeployInv, RunsDistinct

\* What the public check showed stays known to the runs that go on.
LEMMA LateRoute ==
    ASSUME DeployInv, NEW o \in Operators, LateStep(o),
           run'[o].pc \notin {"enable", "commit"},
           \A k \in Keys : Enabled(k) => Enabled(k)'
    PROVE  RouteKnown'
<1>0. TypeOK
  BY DEF DeployInv
<1>. SUFFICES ASSUME NEW p \in Operators, run'[p].pc \in {"enable", "commit"}
              PROVE  T(p)'.sound /\ (run'[p].pc = "commit" => inst'[K(p)'].enabled)
  BY DEF RouteKnown, At
<1>1. p # o /\ run'[p] = run[p] /\ K(p)' = K(p) /\ T(p)' = T(p)
  BY <1>0, LateRuns
<1>2. Active(p) /\ K(p) \in Keys
  BY <1>0, <1>1, OwnTypes DEF Active
<1>3. inst[K(p)] # None
  BY <1>1, <1>2 DEF DeployInv, RowKnown, Registered, At
<1>. QED  BY <1>1, <1>2, <1>3 DEF DeployInv, RouteKnown, At, Enabled

\* A route served stays the one on disk.
LEMMA LateServed ==
    ASSUME DeployInv, NEW o \in Operators, LateStep(o),
           run'[o].pc \in {"verify", "enable", "commit"} => file'[K(o)] = live'[K(o)],
           \A p \in Operators \ {o} : run[p].pc \in {"verify", "enable", "commit"}
             => file'[K(p)] = file[K(p)] /\ live'[K(p)] = live[K(p)]
    PROVE  ServedFromDisk'
<1>0. TypeOK
  BY DEF DeployInv
<1>. SUFFICES ASSUME NEW p \in Operators, run'[p].pc \in {"verify", "enable", "commit"}
              PROVE  file'[K(p)'] = live'[K(p)']
  BY DEF ServedFromDisk
<1>1. Active(p)'
  BY DEF Active
<1>2. CASE p = o
  BY <1>0, <1>1, <1>2, LateRuns
<1>3. CASE p # o
  <2>1. run'[p] = run[p] /\ K(p)' = K(p)
    BY <1>0, <1>3, LateRuns
  <2>. QED  BY <2>1, <1>3 DEF DeployInv, ServedFromDisk
<1>. QED  BY <1>2, <1>3

\* A transaction opens: the route it replaces is on record, and was the one served.
LEMMA Staged ==
    ASSUME DeployInv, lock = None, NEW x \in Runs, NEW k \in Keys, NEW r \in Routes,
           lock' = StagedLock(x, k),
           Serve(k, r) \/ UNCHANGED <<file, live>>,
           UNCHANGED <<inst, provisioner, client, undone, fresh>>
    PROVE  /\ lock' \in Locks /\ lock' # None /\ lock'.owner = x /\ lock'.key = k
           /\ file' \in [Keys -> Routes] /\ live' \in [Keys -> Routes]
           /\ RoutesSettled' /\ Restorable' /\ ActiveReachable' /\ CredentialKept'
<1>0. TypeOK
  BY DEF DeployInv
<1>1. /\ lock' \in Locks /\ lock'.owner = x /\ lock'.key = k
      /\ lock'.previous = file[k] /\ lock'.activated = FALSE
  BY <1>0 DEF StagedLock, Locks, TypeOK
<1>2. lock' # None
  BY <1>1, DeployAssumption
<1>3. /\ file' \in [Keys -> Routes] /\ live' \in [Keys -> Routes]
      /\ \A h \in Keys \ {k} : file'[h] = file[h] /\ live'[h] = live[h]
  BY <1>0 DEF Serve, TypeOK
<1>4. \A h \in Keys : file[h] = live[h]
  BY DEF DeployInv, RoutesSettled
<1>5. RoutesSettled'
  BY <1>1, <1>2, <1>3, <1>4 DEF RoutesSettled
<1>6. \A h \in Keys : Enabled(h) => live[h] = inst[h].url \/ h \in undone
  BY DEF DeployInv, ActiveReachable
<1>7. Restorable'
  BY <1>1, <1>4, <1>6 DEF Restorable, Enabled
<1>8. ActiveReachable'
  <2>. SUFFICES ASSUME NEW h \in Keys, Enabled(h)
                PROVE  /\ \/ live'[h] = inst[h].url \/ h \in undone
                          \/ lock' # None /\ lock'.key = h /\ lock'.previous = inst[h].url
                       /\ client[h] = provisioner[h] \/ h \in fresh
    BY DEF ActiveReachable, Enabled
  <2>1. client[h] = provisioner[h] \/ h \in fresh
    BY DEF DeployInv, ActiveReachable
  <2>. QED  BY <2>1, <1>1, <1>2, <1>3, <1>4, <1>6
<1>9. CredentialKept'
  BY DEF DeployInv, CredentialKept, Enabled
<1>. QED  BY <1>1, <1>2, <1>3, <1>5, <1>7, <1>8, <1>9

\* The run that staged holds the lock under which it goes on.
LEMMA StagedSerial ==
    ASSUME DeployInv, lock = None, NEW o \in Operators, LateStep(o), run[o].pc = "stage",
           run'[o].pc \in {"verify", "undo"}, run'[o].tx = run[o].tx,
           lock' # None, lock'.owner = run[o].tx, lock'.key = K(o),
           run'[o].pc = "verify" => live'[K(o)] = Route(T(o))
    PROVE  GatewaySerial'
<1>0. TypeOK
  BY DEF DeployInv
<1>1. Active(o)'
  BY DEF Active
<1>2. K(o)' = K(o) /\ T(o)' = T(o)
  BY <1>0, <1>1, LateRuns
<1>3. ASSUME NEW p \in Operators, run'[p].pc \in {"verify", "enable", "commit"}
      PROVE  p = o
  <2>1. SUFFICES ASSUME p # o PROVE FALSE
    OBVIOUS
  <2>2. run[p].pc \in {"verify", "enable", "commit"}
    BY <2>1, <1>0, <1>3, LateRuns
  <2>. QED  BY <2>2, OneAtTheGateway
<1>4. Owns(run[o].tx, K(o))'
  BY <1>2 DEF Owns
<1>. QED  BY <1>2, <1>3, <1>4 DEF GatewaySerial

\* The route of a target is a route.
LEMMA RouteType ==
    ASSUME NEW t \in Targets
    PROVE  Route(t) \in Routes /\ (t.sound => Route(t) = t.url)
<1>1. t.url \in Urls
  BY DeployAssumption DEF TargetConfig
<1>. QED  BY <1>1 DEF Route, Routes

\* The candidate route is staged, answered or not, or refused by NGINX.
LEMMA StageInv ==
    ASSUME DeployInv, NEW o \in Operators,
           Stage(o) \/ StageUnanswered(o) \/ StageRejected(o)
    PROVE  CoreInv'
<1>0. TypeOK /\ Active(o) /\ run[o].pc = "stage" /\ lock = None
  BY DEF DeployInv, Stage, StageUnanswered, StageRejected, At, Active
<1>1. /\ lock' = StagedLock(run[o].tx, K(o))
      /\ UNCHANGED <<inst, boot, eso, provisioner, tokens, applied, admin, client, started>>
      /\ UNCHANGED <<detached, lost, undone, fresh>>
      /\ Upset \/ UNCHANGED upsets
  BY DEF Stage, StageUnanswered, StageRejected, Untouched, Kept, vault, ghosts
<1>2. \/ Serve(K(o), Route(T(o))) /\ (Goes(o, "verify") \/ Goes(o, "undo"))
      \/ UNCHANGED <<file, live>> /\ Goes(o, "undo")
  BY DEF Stage, StageUnanswered, StageRejected
<1>3. K(o) \in Keys /\ run[o].tx \in Runs /\ Route(T(o)) \in Routes
  <2>1. T(o) \in Targets
    BY <1>0, ActiveRun, DeploymentFields DEF T
  <2>. QED  BY <2>1, <1>0, OwnTypes, RouteType
<1>4. /\ run'[o] \in Deployments /\ run'[o].pc \in {"verify", "undo"}
      /\ run'[o].t = run[o].t /\ run'[o].tx = run[o].tx /\ run'[o].cred = run[o].cred
      /\ Others(o) /\ run' \in [Operators -> {Idle} \cup Deployments]
  <2>1. "verify" \in Pcs /\ "undo" \in Pcs
    BY DEF Pcs
  <2>2. CASE Goes(o, "verify")
    BY <2>1, <2>2, <1>0, GoesEffect
  <2>3. CASE Goes(o, "undo")
    BY <2>1, <2>3, <1>0, GoesEffect
  <2>. QED  BY <2>2, <2>3, <1>2
<1>5. LateStep(o)
  BY <1>0, <1>1, <1>4 DEF LateStep, Late
<1>6. /\ lock' \in Locks /\ lock' # None /\ lock'.owner = run[o].tx /\ lock'.key = K(o)
      /\ file' \in [Keys -> Routes] /\ live' \in [Keys -> Routes]
      /\ RoutesSettled' /\ Restorable' /\ ActiveReachable' /\ CredentialKept'
  <2>1. Serve(K(o), Route(T(o))) \/ UNCHANGED <<file, live>>
    BY <1>2
  <2>. QED  BY <2>1, <1>0, <1>1, <1>3, Staged
<1>7. GatewaySerial'
  <2>1. ASSUME run'[o].pc = "verify"  PROVE live'[K(o)] = Route(T(o))
    <3>1. ~Goes(o, "undo")
      <4>1. "undo" \in Pcs
        BY DEF Pcs
      <4>2. Goes(o, "undo") => run'[o].pc = "undo"
        BY <4>1, <1>0, GoesEffect
      <4>. QED  BY <4>2, <2>1
    <3>2. Serve(K(o), Route(T(o)))
      BY <3>1, <1>2
    <3>. QED  BY <3>2, <1>0, <1>3 DEF Serve, TypeOK
  <2>. QED  BY <2>1, <1>0, <1>4, <1>5, <1>6, StagedSerial
<1>8. RunsDistinct'
  <2>1. \A d \in detached' : d.tx \in lost'
    BY <1>1 DEF DeployInv, RunsDistinct
  <2>. QED  BY <2>1, <1>5, LateDistinct
<1>9. RouteKnown'
  BY <1>1, <1>4, <1>5, LateRoute DEF Enabled
<1>10. SecretsAgree' /\ NoStrayToken' /\ TokenHeld' /\ RowKnown'
  BY <1>1, <1>5, LateSecrets
<1>11. TypeOK'
  <2>1. upsets' \in 0 .. MaxUpsets
    BY <1>0, <1>1, UpsetType
  <2>. QED  BY <2>1, <1>0, <1>1, <1>5, <1>6, LateTypes DEF TypeOK
<1>12. ServedFromDisk'
  <2>1. \A p \in Operators : run[p].pc \notin {"verify", "enable", "commit"}
    BY <1>0, OneAtTheGateway
  <2>2. file'[K(o)] = live'[K(o)]
    BY <1>0, <1>2, <1>3 DEF Serve, TypeOK, DeployInv, RoutesSettled
  <2>. QED  BY <2>1, <2>2, <1>5, LateServed
<1>. QED  BY <1>6, <1>7, <1>8, <1>9, <1>10, <1>11, <1>12 DEF CoreInv

\* A run goes on or ends under the lock as it is; if it leaves the lock, it is noted.
LEMMA LateSerial ==
    ASSUME DeployInv, NEW o \in Operators, LateStep(o), UNCHANGED <<lock, live>>,
           run'[o].pc \in {"verify", "enable", "commit"}
             => run[o].pc \in {"verify", "enable", "commit"},
           run[o].pc \in {"verify", "enable", "commit", "undo"}
             => run'[o].pc \in {"verify", "enable", "commit", "undo"} \/ run[o].tx \in lost'
    PROVE  GatewaySerial'
<1>0. TypeOK /\ lost \subseteq lost'
  BY DEF DeployInv, LateStep
<1>1. ASSUME NEW p \in Operators, run'[p].pc \in {"verify", "enable", "commit"}
      PROVE  Owns(run[p].tx, K(p))' /\ live'[K(p)'] = Route(T(p)')
  <2>1. Active(p)'
    BY <1>1 DEF Active
  <2>2. /\ run[p].pc \in {"verify", "enable", "commit"} /\ run'[p].tx = run[p].tx
        /\ K(p)' = K(p) /\ T(p)' = T(p)
    BY <2>1, <1>0, <1>1, LateRuns
  <2>. QED  BY <2>2 DEF DeployInv, GatewaySerial, Owns
<1>2. ASSUME lock # None, lock.owner \notin lost'
      PROVE  \E p \in Operators : /\ run'[p].pc \in {"verify", "enable", "commit", "undo"}
                                  /\ run'[p].tx = lock.owner /\ K(p)' = lock.key
  <2>1. PICK p \in Operators : /\ run[p].pc \in {"verify", "enable", "commit", "undo"}
                               /\ run[p].tx = lock.owner /\ K(p) = lock.key
    BY <1>0, <1>2 DEF DeployInv, GatewaySerial
  <2>2. run'[p].pc \in {"verify", "enable", "commit", "undo"}
    BY <2>1, <1>0, <1>2, LateRuns
  <2>3. Active(p)'
    BY <2>2 DEF Active
  <2>. QED  BY <2>1, <2>2, <2>3, <1>0, LateRuns
<1>. QED  BY <1>1, <1>2 DEF GatewaySerial

\* Routes, rows and credentials stay as they are.
LEMMA RoutesFrame ==
    ASSUME DeployInv,
           UNCHANGED <<inst, provisioner, client, lock, file, live, undone, fresh>>
    PROVE  RoutesSettled' /\ Restorable' /\ ActiveReachable' /\ CredentialKept'
BY DEF DeployInv, RoutesSettled, Restorable, ActiveReachable, CredentialKept, Enabled

\* The lock is busy, the check or the activation fails, its answer does not come in time, a
\* request fails, the run is killed: the run goes on to its rollback, or ends and is noted.
LEMMA QuietInv ==
    ASSUME DeployInv, NEW o \in Operators,
           \/ StageBusy(o) \/ StageDetached(o) \/ EnableRefused(o)
           \/ EnableUnanswered(o) \/ Fails(o) \/ Killed(o)
    PROVE  CoreInv'
<1>0. TypeOK /\ Active(o) /\ run[o].tx \in Runs
  <2>1. TypeOK /\ Active(o)
    BY DEF DeployInv, StageBusy, StageDetached, EnableRefused, EnableUnanswered, Fails, Killed, At, Active
  <2>. QED  BY <2>1, OwnTypes
<1>1. /\ UNCHANGED <<inst, boot, eso, provisioner, tokens, applied, admin, client, started>>
      /\ UNCHANGED <<lock, file, live, undone, fresh>>
      /\ lost' \in {lost, lost \cup {run[o].tx}}
  BY DEF StageBusy, StageDetached, EnableRefused, EnableUnanswered, Fails, Killed,
         Untouched, Kept, vault, gateway, ghosts
<1>2. \/ Goes(o, "undo") /\ run[o].pc \in {"stage", "verify", "enable"}
      \/ Ends(o) /\ run[o].tx \in lost'
  BY DEF StageBusy, StageDetached, EnableRefused, EnableUnanswered, Fails, Killed, At
<1>3. \/ detached' = detached
      \/ /\ detached' = detached \cup {[tx |-> run[o].tx, t |-> T(o)]}
         /\ run[o].tx \in lost'
  BY DEF StageBusy, StageDetached, EnableRefused, EnableUnanswered, Fails, Killed
<1>4. \/ /\ run'[o] \in Deployments /\ run'[o].pc = "undo" /\ run[o].pc \in Late
         /\ run'[o].t = run[o].t /\ run'[o].tx = run[o].tx /\ run'[o].cred = run[o].cred
         /\ Others(o) /\ run' \in [Operators -> {Idle} \cup Deployments]
      \/ /\ run'[o] = Idle /\ run'[o].pc = "idle" /\ run[o].tx \in lost'
         /\ Others(o) /\ run' \in [Operators -> {Idle} \cup Deployments]
  <2>1. CASE Goes(o, "undo") /\ run[o].pc \in {"stage", "verify", "enable"}
    <3>1. "undo" \in Pcs /\ run[o].pc \in Late
      BY <2>1 DEF Pcs, Late
    <3>. QED  BY <3>1, <2>1, <1>0, GoesEffect
  <2>2. CASE Ends(o) /\ run[o].tx \in lost'
    BY <2>2, <1>0, EndsEffect
  <2>. QED  BY <2>1, <2>2, <1>2
<1>5. LateStep(o)
  BY <1>0, <1>1, <1>4 DEF LateStep, Late
<1>6. GatewaySerial'
  BY <1>1, <1>4, <1>5, LateSerial
<1>7. RoutesSettled' /\ Restorable' /\ ActiveReachable' /\ CredentialKept'
  BY <1>1, RoutesFrame
<1>8. RunsDistinct'
  <2>1. \A d \in detached' : d.tx \in lost'
    BY <1>1, <1>3 DEF DeployInv, RunsDistinct
  <2>. QED  BY <2>1, <1>5, LateDistinct
<1>9. RouteKnown'
  BY <1>1, <1>4, <1>5, LateRoute DEF Enabled
<1>10. SecretsAgree' /\ NoStrayToken' /\ TokenHeld' /\ RowKnown'
  BY <1>1, <1>5, LateSecrets
<1>11. TypeOK'
  <2>1. upsets' \in 0 .. MaxUpsets
    <3>1. Upset \/ UNCHANGED upsets
      BY DEF StageBusy, StageDetached, EnableRefused, EnableUnanswered, Fails, Killed
    <3>. QED  BY <3>1, <1>0, UpsetType
  <2>2. detached' \subseteq [tx : Runs, t : Targets]
    <3>1. T(o) \in Targets
      BY <1>0, ActiveRun, DeploymentFields DEF T
    <3>. QED  BY <3>1, <1>0, <1>3 DEF TypeOK
  <2>. QED  BY <2>1, <2>2, <1>0, <1>1, <1>5, LateTypes DEF TypeOK
<1>12. ServedFromDisk'
  BY <1>1, <1>4, <1>5, LateServed
<1>. QED  BY <1>6, <1>7, <1>8, <1>9, <1>10, <1>11, <1>12 DEF CoreInv

\* The public check: a route that passes it is sound.
LEMMA VerifyInv ==
    ASSUME DeployInv, NEW o \in Operators, Verify(o)
    PROVE  CoreInv'
<1>. DEFINE next == IF Verified(o) THEN "enable" ELSE "undo"
<1>0. TypeOK /\ Active(o) /\ run[o].pc = "verify"
  BY DEF DeployInv, Verify, At, Active
<1>1. /\ UNCHANGED <<inst, boot, eso, provisioner, tokens, applied, admin, client, started>>
      /\ UNCHANGED <<lock, file, live, detached, upsets, lost, undone, fresh>>
      /\ Goes(o, next)
  BY DEF Verify, Untouched, Kept, vault, gateway, ghosts
<1>2. next \in Pcs /\ next \in {"enable", "undo"} /\ (next = "enable" => Verified(o))
  BY DEF Pcs
<1>. HIDE DEF next
<1>3. /\ run'[o] \in Deployments /\ run'[o].pc = next
      /\ run'[o].t = run[o].t /\ run'[o].tx = run[o].tx /\ run'[o].cred = run[o].cred
      /\ Others(o) /\ run' \in [Operators -> {Idle} \cup Deployments]
  BY <1>0, <1>1, <1>2, GoesEffect
<1>4. LateStep(o)
  BY <1>0, <1>1, <1>2, <1>3 DEF LateStep, Late
<1>5. GatewaySerial'
  BY <1>0, <1>1, <1>2, <1>3, <1>4, LateSerial
<1>6. RouteKnown'
  <2>. SUFFICES ASSUME NEW p \in Operators, run'[p].pc \in {"enable", "commit"}
                PROVE  T(p)'.sound /\ (run'[p].pc = "commit" => inst'[K(p)'].enabled)
    BY DEF RouteKnown, At
  <2>1. CASE p = o
    <3>1. run'[o].pc = "enable" /\ Verified(o)
      BY <2>1, <1>2, <1>3
    <3>2. live[K(o)] = Route(T(o)) /\ live[K(o)] = T(o).url
      BY <3>1, <1>0, OneAtTheGateway DEF Verified
    <3>3. T(o).url \in Urls /\ T(o).sound \in BOOLEAN
      BY <1>0, OwnTypes
    <3>4. T(o).sound
      BY <3>2, <3>3, DeployAssumption DEF Route
    <3>5. T(o)' = T(o)
      BY <1>3 DEF T
    <3>. QED  BY <2>1, <3>1, <3>4, <3>5
  <2>2. CASE p # o
    BY <2>2, <1>0, <1>1, <1>4, LateRuns DEF DeployInv, RouteKnown, At
  <2>. QED  BY <2>1, <2>2
<1>7. RoutesSettled' /\ Restorable' /\ ActiveReachable' /\ CredentialKept'
  BY <1>1, RoutesFrame
<1>8. RunsDistinct'
  <2>1. \A d \in detached' : d.tx \in lost'
    BY <1>1 DEF DeployInv, RunsDistinct
  <2>. QED  BY <2>1, <1>4, LateDistinct
<1>9. SecretsAgree' /\ NoStrayToken' /\ TokenHeld' /\ RowKnown'
  BY <1>1, <1>4, LateSecrets
<1>10. TypeOK'
  BY <1>0, <1>1, <1>4, LateTypes DEF TypeOK
<1>11. ServedFromDisk'
  BY <1>0, <1>1, <1>4, LateServed DEF DeployInv, ServedFromDisk
<1>. QED  BY <1>5, <1>6, <1>7, <1>8, <1>9, <1>10, <1>11 DEF CoreInv

\* The activation is written: the run holds the lock, and its sound route is served.
LEMMA EnableInv ==
    ASSUME DeployInv, NEW o \in Operators, Enable(o)
    PROVE  CoreInv'
<1>. DEFINE row == Row(T(o), TRUE)
<1>0. TypeOK /\ Active(o) /\ run[o].pc = "enable" /\ Accepts(T(o))
  BY DEF DeployInv, Enable, At, Active
<1>1. /\ inst' = [inst EXCEPT ![K(o)] = row]
      /\ lock' = IF /\ lock # None /\ lock.key = K(o)
                    /\ ~Enabled(K(o)) \/ K(o) \in undone
                 THEN [lock EXCEPT !.activated = TRUE] ELSE lock
      /\ undone' = undone \ {K(o)} /\ fresh' = fresh \ {K(o)}
      /\ UNCHANGED <<boot, eso, provisioner, tokens, applied, admin, client, started>>
      /\ UNCHANGED <<file, live, detached, upsets, lost>>
      /\ Goes(o, "commit")
  BY DEF Enable, Activated, vault, K, T
<1>2. K(o) \in Keys /\ row \in Rows /\ row # None /\ row.url = T(o).url /\ row.enabled = TRUE
  BY <1>0, OwnTypes, RowTypes
<1>. HIDE DEF row
<1>3. /\ lock # None /\ lock.owner = run[o].tx /\ lock.key = K(o)
      /\ live[K(o)] = T(o).url
      /\ \A q \in Operators : Active(q) /\ run[q].tx = lock.owner => q = o
  <2>1. T(o) \in Targets /\ T(o).sound
    BY <1>0, ActiveRun, DeploymentFields DEF T, DeployInv, RouteKnown
  <2>. QED  BY <2>1, <1>0, OneAtTheGateway, RouteType
<1>4. /\ lock' \in Locks /\ lock' # None /\ lock'.owner = lock.owner /\ lock'.key = lock.key
      /\ lock'.activated \/ (lock' = lock /\ Enabled(K(o)) /\ K(o) \notin undone)
  <2>1. lock \in Locks
    BY <1>0, <1>3 DEF TypeOK
  <2>2. \/ lock' = [lock EXCEPT !.activated = TRUE]
        \/ lock' = lock /\ Enabled(K(o)) /\ K(o) \notin undone
    BY <1>1, <1>3
  <2>3. /\ lock' \in Locks /\ lock'.owner = lock.owner /\ lock'.key = lock.key
        /\ lock'.activated \/ (lock' = lock /\ Enabled(K(o)) /\ K(o) \notin undone)
    BY <2>1, <2>2 DEF Locks
  <2>. QED  BY <2>3, DeployAssumption
<1>5. /\ run'[o] \in Deployments /\ run'[o].pc = "commit"
      /\ run'[o].t = run[o].t /\ run'[o].tx = run[o].tx /\ run'[o].cred = run[o].cred
      /\ Others(o) /\ run' \in [Operators -> {Idle} \cup Deployments]
  <2>1. "commit" \in Pcs
    BY DEF Pcs
  <2>. QED  BY <2>1, <1>0, <1>1, GoesEffect
<1>6. LateStep(o) /\ K(o)' = K(o) /\ T(o)' = T(o)
  BY <1>0, <1>1, <1>5 DEF LateStep, Late, K, T
<1>7. /\ inst'[K(o)] = row /\ \A k \in Keys \ {K(o)} : inst'[k] = inst[k]
      /\ inst' \in [Keys -> {None} \cup Rows]
  BY <1>0, <1>1, <1>2 DEF TypeOK
<1>8. inst[K(o)] # None /\ inst[K(o)].url = T(o).url
  BY <1>0 DEF DeployInv, RowKnown, At, Registered
<1>9. GatewaySerial'
  <2>1. ASSUME NEW p \in Operators, run'[p].pc \in {"verify", "enable", "commit"}
        PROVE  Owns(run[p].tx, K(p))' /\ live'[K(p)'] = Route(T(p)')
    <3>1. CASE p = o
      <4>1. live[K(o)] = Route(T(o))
        BY <1>0, OneAtTheGateway
      <4>. QED  BY <3>1, <4>1, <1>1, <1>3, <1>4, <1>5, <1>6 DEF Owns
    <3>2. CASE p # o
      <4>1. run[p].pc \in {"verify", "enable", "commit"}
        BY <3>2, <2>1, <1>0, <1>6, LateRuns
      <4>2. Active(p) /\ run[p].tx = lock.owner
        BY <4>1, OneAtTheGateway DEF Active
      <4>. QED  BY <3>2, <4>2, <1>3
    <3>. QED  BY <3>1, <3>2
  <2>2. \E p \in Operators : /\ run'[p].pc \in {"verify", "enable", "commit", "undo"}
                             /\ run'[p].tx = lock'.owner /\ K(p)' = lock'.key
    BY <1>3, <1>4, <1>5, <1>6
  <2>. QED  BY <2>1, <2>2 DEF GatewaySerial
<1>10. RunsDistinct'
  <2>1. \A d \in detached' : d.tx \in lost'
    BY <1>1 DEF DeployInv, RunsDistinct
  <2>. QED  BY <2>1, <1>6, LateDistinct
<1>11. RouteKnown'
  <2>. SUFFICES ASSUME NEW p \in Operators, run'[p].pc \in {"enable", "commit"}
                PROVE  T(p)'.sound /\ (run'[p].pc = "commit" => inst'[K(p)'].enabled)
    BY DEF RouteKnown, At
  <2>1. p = o
    <3>1. SUFFICES ASSUME p # o PROVE FALSE
      OBVIOUS
    <3>2. run[p].pc \in {"enable", "commit"}
      BY <3>1, <1>0, <1>6, LateRuns
    <3>3. Active(p) /\ run[p].tx = lock.owner
      BY <3>2, OneAtTheGateway DEF Active
    <3>. QED  BY <3>1, <3>3, <1>3
  <2>2. T(o).sound
    BY <1>0 DEF DeployInv, RouteKnown
  <2>. QED  BY <2>1, <2>2, <1>2, <1>6, <1>7
<1>12. RoutesSettled'
  BY <1>1, <1>3, <1>4 DEF DeployInv, RoutesSettled
<1>13. Restorable'
  <2>1. ASSUME ~lock'.activated PROVE lock'.previous = inst'[K(o)].url
    <3>1. lock' = lock /\ Enabled(K(o)) /\ K(o) \notin undone
      BY <2>1, <1>4
    <3>2. lock.previous = inst[K(o)].url
      BY <2>1, <3>1, <1>3 DEF DeployInv, Restorable
    <3>. QED  BY <3>1, <3>2, <1>2, <1>7, <1>8
  <2>2. lock'.key = K(o)
    BY <1>3, <1>4
  <2>. QED  BY <2>1, <2>2 DEF Restorable
<1>14. provisioner[K(o)] # Nothing /\ client[K(o)] = provisioner[K(o)]
  BY <1>0 DEF Accepts, K, T
<1>15. CredentialKept'
  BY <1>1, <1>7, <1>14 DEF DeployInv, CredentialKept, Enabled
<1>16. ActiveReachable'
  <2>. SUFFICES ASSUME NEW k \in Keys, Enabled(k)'
                PROVE  /\ \/ live'[k] = inst'[k].url \/ k \in undone'
                          \/ lock' # None /\ lock'.key = k /\ lock'.previous = inst'[k].url
                       /\ client'[k] = provisioner'[k] \/ k \in fresh'
    BY DEF ActiveReachable
  <2>1. CASE k = K(o)
    BY <2>1, <1>1, <1>2, <1>3, <1>7, <1>14
  <2>2. CASE k # K(o)
    <3>1. Enabled(k) /\ inst'[k] = inst[k]
      BY <2>2, <1>7 DEF Enabled
    <3>2. /\ live[k] = inst[k].url \/ k \in undone
          /\ client[k] = provisioner[k] \/ k \in fresh
      BY <2>2, <3>1, <1>3 DEF DeployInv, ActiveReachable
    <3>. QED  BY <2>2, <3>1, <3>2, <1>1
  <2>. QED  BY <2>1, <2>2
<1>17. SecretsAgree' /\ NoStrayToken' /\ TokenHeld' /\ RowKnown'
  BY <1>2, <1>6, <1>7, <1>8, LateSecrets
<1>18. TypeOK'
  BY <1>0, <1>1, <1>4, <1>6, <1>7, LateTypes DEF TypeOK
<1>19. ServedFromDisk'
  <2>1. file[K(o)] = live[K(o)]
    BY <1>0 DEF DeployInv, ServedFromDisk
  <2>. QED  BY <2>1, <1>1, <1>6, LateServed
<1>. QED  BY <1>9, <1>10, <1>11, <1>12, <1>13, <1>15, <1>16, <1>17, <1>18, <1>19
          DEF CoreInv

\* The lock is released: nobody else works under it.
LEMMA Released ==
    ASSUME DeployInv, NEW o \in Operators, LateStep(o), lock # None,
           lock.owner = run[o].tx, lock' = None, run'[o].pc = "idle"
    PROVE  GatewaySerial'
<1>0. TypeOK /\ Active(o)
  BY DEF DeployInv, LateStep
<1>1. ASSUME NEW p \in Operators, run'[p].pc \in {"verify", "enable", "commit"}
      PROVE  FALSE
  <2>1. p # o
    BY <1>1
  <2>2. run[p].pc \in {"verify", "enable", "commit"}
    BY <2>1, <1>0, <1>1, LateRuns
  <2>. QED  BY <2>1, <2>2, <1>0, OneAtTheGateway
<1>. QED  BY <1>1 DEF GatewaySerial

\* A transaction is committed: the instance is active on the route that is served.
LEMMA CommitInv ==
    ASSUME DeployInv, NEW o \in Operators, Commit(o)
    PROVE  CoreInv'
<1>0. TypeOK /\ Active(o) /\ run[o].pc = "commit"
  BY DEF DeployInv, Commit, At, Active
<1>1. /\ lock # None /\ lock.owner = run[o].tx /\ lock.key = K(o)
      /\ live[K(o)] = Route(T(o))
  BY <1>0, OneAtTheGateway
<1>2. /\ UNCHANGED <<inst, boot, eso, provisioner, tokens, applied, admin, client, started>>
      /\ UNCHANGED <<file, live, detached, upsets, lost, undone, fresh>>
      /\ lock' = None /\ Ends(o)
  BY <1>1 DEF Commit, Owns, Untouched, Kept, vault, ghosts
<1>3. /\ run'[o] = Idle /\ run'[o].pc = "idle"
      /\ Others(o) /\ run' \in [Operators -> {Idle} \cup Deployments]
  BY <1>0, <1>2, EndsEffect
<1>4. LateStep(o)
  BY <1>0, <1>2, <1>3 DEF LateStep, Late
<1>5. GatewaySerial'
  BY <1>1, <1>2, <1>3, <1>4, Released
<1>6. live[K(o)] = inst[K(o)].url
  <2>1. T(o) \in Targets /\ T(o).sound
    BY <1>0, ActiveRun, DeploymentFields DEF T, DeployInv, RouteKnown
  <2>2. inst[K(o)].url = T(o).url
    BY <1>0 DEF DeployInv, RowKnown, At, Registered
  <2>. QED  BY <2>1, <2>2, <1>1, RouteType
<1>7. ActiveReachable'
  <2>. SUFFICES ASSUME NEW k \in Keys, Enabled(k)
                PROVE  /\ live[k] = inst[k].url \/ k \in undone
                       /\ client[k] = provisioner[k] \/ k \in fresh
    BY <1>2 DEF ActiveReachable, Enabled
  <2>. QED  BY <1>1, <1>6 DEF DeployInv, ActiveReachable
<1>8. Restorable' /\ CredentialKept'
  BY <1>2 DEF Restorable, DeployInv, CredentialKept, Enabled
<1>9. RunsDistinct'
  <2>1. \A d \in detached' : d.tx \in lost'
    BY <1>2 DEF DeployInv, RunsDistinct
  <2>. QED  BY <2>1, <1>4, LateDistinct
<1>10. RouteKnown'
  BY <1>2, <1>3, <1>4, LateRoute DEF Enabled
<1>11. SecretsAgree' /\ NoStrayToken' /\ TokenHeld' /\ RowKnown'
  BY <1>2, <1>4, LateSecrets
<1>12. TypeOK'
  BY <1>0, <1>2, <1>4, LateTypes DEF TypeOK
<1>13. RoutesSettled'
  <2>1. file[K(o)] = live[K(o)]
    BY <1>0 DEF DeployInv, ServedFromDisk
  <2>. QED  BY <2>1, <1>1, <1>2 DEF DeployInv, RoutesSettled
<1>14. ServedFromDisk'
  BY <1>2, <1>3, <1>4, LateServed
<1>. QED  BY <1>5, <1>7, <1>8, <1>9, <1>10, <1>11, <1>12, <1>13, <1>14 DEF CoreInv

\* A rollback under the lock: an instance the transaction found active has its route back,
\* and one activated since is noted.
LEMMA Restored ==
    ASSUME DeployInv, lock # None, Restores(lock),
           UNCHANGED <<inst, provisioner, client, fresh>>
    PROVE  /\ lock' = None /\ undone' \subseteq Keys
           /\ file' \in [Keys -> Routes] /\ live' \in [Keys -> Routes]
           /\ RoutesSettled' /\ Restorable' /\ ActiveReachable' /\ CredentialKept'
<1>0. TypeOK
  BY DEF DeployInv
<1>1. lock.key \in Keys /\ lock.previous \in Routes
  BY <1>0 DEF TypeOK, Locks
<1>2. /\ lock' = None
      /\ undone' = IF lock.activated THEN undone \cup {lock.key} ELSE undone
      /\ file' = [file EXCEPT ![lock.key] = lock.previous]
      /\ live' = [live EXCEPT ![lock.key] = lock.previous]
  BY DEF Restores, Serve
<1>3. undone' \subseteq Keys
  BY <1>0, <1>1, <1>2 DEF TypeOK
<1>4. /\ file' \in [Keys -> Routes] /\ live' \in [Keys -> Routes]
      /\ file'[lock.key] = lock.previous /\ live'[lock.key] = lock.previous
      /\ \A h \in Keys \ {lock.key} : file'[h] = file[h] /\ live'[h] = live[h]
  BY <1>0, <1>1, <1>2 DEF TypeOK
<1>5. RoutesSettled'
  BY <1>4 DEF DeployInv, RoutesSettled
<1>6. Restorable' /\ CredentialKept'
  BY <1>2 DEF Restorable, DeployInv, CredentialKept, Enabled
<1>7. ActiveReachable'
  <2>. SUFFICES ASSUME NEW k \in Keys, Enabled(k)
                PROVE  /\ live'[k] = inst[k].url \/ k \in undone'
                       /\ client[k] = provisioner[k] \/ k \in fresh
    BY DEF ActiveReachable, Enabled
  <2>1. client[k] = provisioner[k] \/ k \in fresh
    BY DEF DeployInv, ActiveReachable
  <2>2. CASE k = lock.key
    <3>1. lock.activated \/ lock.previous = inst[k].url \/ k \in undone
      BY <2>2 DEF DeployInv, Restorable
    <3>. QED  BY <2>1, <2>2, <3>1, <1>2, <1>4
  <2>3. CASE k # lock.key
    <3>1. live[k] = inst[k].url \/ k \in undone
      BY <2>3 DEF DeployInv, ActiveReachable
    <3>. QED  BY <2>1, <2>3, <3>1, <1>2, <1>4
  <2>. QED  BY <2>2, <2>3
<1>. QED  BY <1>2, <1>3, <1>4, <1>5, <1>6, <1>7

\* A run rolls back: what it staged, or nothing when another run holds the lock.
LEMMA UndoInv ==
    ASSUME DeployInv, NEW o \in Operators, Undo(o)
    PROVE  CoreInv'
<1>0. TypeOK /\ Active(o) /\ run[o].pc = "undo"
  BY DEF DeployInv, Undo, At, Active
<1>1. /\ UNCHANGED <<inst, boot, eso, provisioner, tokens, applied, admin, client, started>>
      /\ UNCHANGED <<detached, upsets, lost, fresh>>
      /\ Ends(o)
  BY DEF Undo, Untouched, Kept, vault
<1>2. /\ run'[o] = Idle /\ run'[o].pc = "idle"
      /\ Others(o) /\ run' \in [Operators -> {Idle} \cup Deployments]
  BY <1>0, <1>1, EndsEffect
<1>3. LateStep(o)
  BY <1>0, <1>1, <1>2 DEF LateStep, Late
<1>4. RunsDistinct'
  <2>1. \A d \in detached' : d.tx \in lost'
    BY <1>1 DEF DeployInv, RunsDistinct
  <2>. QED  BY <2>1, <1>3, LateDistinct
<1>5. RouteKnown'
  BY <1>1, <1>2, <1>3, LateRoute DEF Enabled
<1>6. SecretsAgree' /\ NoStrayToken' /\ TokenHeld' /\ RowKnown'
  BY <1>1, <1>3, LateSecrets
<1>7. CASE Owns(run[o].tx, K(o))
  <2>1. lock # None /\ lock.owner = run[o].tx /\ lock.key = K(o) /\ Restores(lock)
    BY <1>7 DEF Undo, Owns
  <2>2. /\ lock' = None /\ undone' \subseteq Keys
        /\ file' \in [Keys -> Routes] /\ live' \in [Keys -> Routes]
        /\ RoutesSettled' /\ Restorable' /\ ActiveReachable' /\ CredentialKept'
    BY <2>1, <1>1, Restored
  <2>3. GatewaySerial'
    BY <2>1, <2>2, <1>2, <1>3, Released
  <2>4. TypeOK'
    BY <2>2, <1>0, <1>1, <1>3, LateTypes DEF TypeOK
  <2>5. ServedFromDisk'
    <3>1. \A p \in Operators \ {o} : run[p].pc \notin {"verify", "enable", "commit"}
      BY <2>1, <1>0, OneAtTheGateway
    <3>. QED  BY <3>1, <1>2, <1>3, LateServed
  <2>. QED  BY <2>2, <2>3, <2>4, <2>5, <1>4, <1>5, <1>6 DEF CoreInv
<1>8. CASE ~Owns(run[o].tx, K(o))
  <2>1. UNCHANGED <<lock, file, live, undone>>
    BY <1>8 DEF Undo, gateway
  <2>2. RoutesSettled' /\ Restorable' /\ ActiveReachable' /\ CredentialKept'
    BY <2>1, <1>1, RoutesFrame
  <2>3. GatewaySerial'
    <3>1. ASSUME NEW p \in Operators, run'[p].pc \in {"verify", "enable", "commit"}
          PROVE  Owns(run[p].tx, K(p))' /\ live'[K(p)'] = Route(T(p)')
      <4>1. p # o
        BY <3>1, <1>2
      <4>2. run'[p] = run[p] /\ K(p)' = K(p) /\ T(p)' = T(p)
        BY <4>1, <1>0, <1>3, LateRuns
      <4>. QED  BY <3>1, <4>2, <2>1 DEF DeployInv, GatewaySerial, Owns
    <3>2. ASSUME lock # None, lock.owner \notin lost
          PROVE  \E p \in Operators : /\ run'[p].pc \in {"verify", "enable", "commit", "undo"}
                                      /\ run'[p].tx = lock.owner /\ K(p)' = lock.key
      <4>1. PICK p \in Operators : /\ run[p].pc \in {"verify", "enable", "commit", "undo"}
                                   /\ run[p].tx = lock.owner /\ K(p) = lock.key
        BY <3>2 DEF DeployInv, GatewaySerial
      <4>2. p # o
        BY <4>1, <3>2, <1>8 DEF Owns
      <4>. QED  BY <4>1, <4>2, <1>0, <1>3, LateRuns
    <3>. QED  BY <3>1, <3>2, <2>1, <1>1 DEF GatewaySerial
  <2>4. TypeOK'
    BY <2>1, <1>0, <1>1, <1>3, LateTypes DEF TypeOK
  <2>5. ServedFromDisk'
    BY <2>1, <1>2, <1>3, LateServed
  <2>. QED  BY <2>2, <2>3, <2>4, <2>5, <1>4, <1>5, <1>6 DEF CoreInv
<1>. QED  BY <1>7, <1>8

\* A rollback NGINX does not take: the transaction stays open, its run is noted.
LEMMA UndoIncompleteInv ==
    ASSUME DeployInv, NEW o \in Operators, UndoIncomplete(o)
    PROVE  CoreInv'
<1>0. TypeOK /\ Active(o) /\ run[o].pc = "undo"
  BY DEF DeployInv, UndoIncomplete, At, Active
<1>1. /\ UNCHANGED <<inst, boot, eso, provisioner, tokens, applied, admin, client, started>>
      /\ UNCHANGED <<lock, live, detached, undone, fresh>>
      /\ lost' = lost \cup {run[o].tx} /\ Upset /\ Ends(o)
      /\ file' = [file EXCEPT ![K(o)] = lock.previous]
      /\ lock # None /\ lock.owner = run[o].tx /\ lock.key = K(o)
  BY DEF UndoIncomplete, Owns, Untouched, Kept, vault
<1>2. /\ run'[o] = Idle /\ run'[o].pc = "idle"
      /\ Others(o) /\ run' \in [Operators -> {Idle} \cup Deployments]
  BY <1>0, <1>1, EndsEffect
<1>3. LateStep(o)
  BY <1>0, <1>1, <1>2 DEF LateStep, Late
<1>4. K(o) \in Keys /\ run[o].tx \in Runs /\ lock.previous \in Routes
  <2>1. lock.previous \in Routes
    BY <1>0, <1>1 DEF TypeOK, Locks
  <2>. QED  BY <2>1, <1>0, OwnTypes
<1>5. /\ file' \in [Keys -> Routes]
      /\ \A h \in Keys \ {K(o)} : file'[h] = file[h]
  BY <1>0, <1>1, <1>4 DEF TypeOK
<1>6. RunsDistinct'
  <2>1. \A d \in detached' : d.tx \in lost'
    BY <1>1 DEF DeployInv, RunsDistinct
  <2>. QED  BY <2>1, <1>3, LateDistinct
<1>7. RouteKnown'
  BY <1>1, <1>2, <1>3, LateRoute DEF Enabled
<1>8. SecretsAgree' /\ NoStrayToken' /\ TokenHeld' /\ RowKnown'
  BY <1>1, <1>3, LateSecrets
<1>9. GatewaySerial'
  BY <1>1, <1>2, <1>3, LateSerial
<1>10. RoutesSettled'
  BY <1>1, <1>5 DEF DeployInv, RoutesSettled
<1>11. Restorable' /\ ActiveReachable' /\ CredentialKept'
  BY <1>1 DEF DeployInv, Restorable, ActiveReachable, CredentialKept, Enabled
<1>12. ServedFromDisk'
  <2>1. \A p \in Operators \ {o} : run[p].pc \notin {"verify", "enable", "commit"}
    BY <1>0, <1>1, OneAtTheGateway
  <2>. QED  BY <2>1, <1>2, <1>3, LateServed
<1>13. TypeOK'
  <2>1. upsets' \in 0 .. MaxUpsets
    BY <1>0, <1>1, UpsetType
  <2>2. lost' \subseteq Runs
    BY <1>0, <1>1, <1>4 DEF TypeOK
  <2>. QED  BY <2>1, <2>2, <1>0, <1>1, <1>3, <1>5, LateTypes DEF TypeOK
<1>. QED  BY <1>6, <1>7, <1>8, <1>9, <1>10, <1>11, <1>12, <1>13 DEF CoreInv

-----------------------------------------------------------------------------
(* Detached scripts, the recovery, and the world outside: no run moves. *)

\* The parts that speak of runs and secrets only.
LEMMA RunsFrame ==
    ASSUME DeployInv, UNCHANGED <<run, boot, eso, tokens, applied, admin, inst, lost>>
    PROVE  SecretsAgree' /\ NoStrayToken' /\ TokenHeld' /\ RowKnown' /\ RouteKnown'
BY DEF DeployInv, SecretsAgree, NoStrayToken, TokenHeld, RowKnown, RouteKnown,
       Active, At, K, T

\* A detached script stages, long after its run was cut off.
LEMMA DetachedStagesInv ==
    ASSUME DeployInv, NEW d \in detached, DetachedStages(d)
    PROVE  CoreInv'
<1>0. TypeOK /\ lock = None
  BY DEF DeployInv, DetachedStages
<1>1. /\ UNCHANGED <<inst, boot, eso, provisioner, tokens, applied, admin, client, started>>
      /\ UNCHANGED <<run, upsets, lost, undone, fresh>>
      /\ lock' = StagedLock(d.tx, d.t.key) /\ Serve(d.t.key, Route(d.t))
      /\ detached' = detached \ {d}
  BY DEF DetachedStages, Untouched, Kept, vault, ghosts
<1>2. d.tx \in Runs /\ d.t \in Targets
  BY <1>0 DEF TypeOK
<1>3. d.t.key \in Keys /\ Route(d.t) \in Routes
  BY <1>2, DeployAssumption, RouteType DEF TargetConfig
<1>4. /\ lock' \in Locks /\ lock' # None /\ lock'.owner = d.tx /\ lock'.key = d.t.key
      /\ file' \in [Keys -> Routes] /\ live' \in [Keys -> Routes]
      /\ RoutesSettled' /\ Restorable' /\ ActiveReachable' /\ CredentialKept'
  BY <1>0, <1>1, <1>2, <1>3, Staged
<1>5. \A p \in Operators : run[p].pc \notin {"verify", "enable", "commit"}
  BY <1>0, OneAtTheGateway
<1>6. RunsDistinct'
  BY <1>1 DEF DeployInv, RunsDistinct, Active
<1>7. GatewaySerial' /\ ServedFromDisk'
  <2>1. lock'.owner \in lost'
    BY <1>1, <1>4 DEF DeployInv, RunsDistinct
  <2>. QED  BY <2>1, <1>1, <1>5 DEF GatewaySerial, ServedFromDisk
<1>8. SecretsAgree' /\ NoStrayToken' /\ TokenHeld' /\ RowKnown' /\ RouteKnown'
  BY <1>1, RunsFrame
<1>9. TypeOK'
  BY <1>0, <1>1, <1>4 DEF TypeOK
<1>. QED  BY <1>4, <1>6, <1>7, <1>8, <1>9 DEF CoreInv

\* A detached script gives up, a late activation is refused, or Keycloak starts on a new database.
LEMMA OutsideInv ==
    ASSUME DeployInv,
           \/ \E d \in detached : DetachedBusy(d)
           \/ \E w \in pending : LateRefused(w)
           \/ \E k \in Keys : NewDatabase(k)
    PROVE  CoreInv'
<1>0. TypeOK
  BY DEF DeployInv
<1>1. /\ UNCHANGED <<inst, boot, eso, provisioner, tokens, applied, admin, started>>
      /\ UNCHANGED <<run, lock, file, live, lost, undone>>
      /\ detached' \subseteq detached /\ (Upset \/ UNCHANGED upsets)
  BY DEF DetachedBusy, LateRefused, NewDatabase, Untouched, Kept, vault, gateway, ghosts
<1>2. /\ client' \in [Keys -> Secrets] /\ fresh' \subseteq Keys
      /\ \A k \in Keys : client'[k] = client[k] \/ k \in fresh'
      /\ fresh \subseteq fresh'
  <2>1. CASE \E d \in detached : DetachedBusy(d)
    BY <2>1, <1>0 DEF DetachedBusy, Untouched, Kept, ghosts, TypeOK
  <2>2. CASE \E w \in pending : LateRefused(w)
    BY <2>2, <1>0 DEF LateRefused, Kept, ghosts, TypeOK
  <2>3. CASE \E k \in Keys : NewDatabase(k)
    <3>1. PICK k \in Keys : NewDatabase(k)
      BY <2>3
    <3>. QED  BY <3>1, <1>0, SecretTypes DEF NewDatabase, TypeOK
  <2>. QED  BY <2>1, <2>2, <2>3
<1>3. SecretsAgree' /\ NoStrayToken' /\ TokenHeld' /\ RowKnown' /\ RouteKnown'
  BY <1>1, RunsFrame
<1>4. GatewaySerial' /\ RunsDistinct' /\ ServedFromDisk' /\ RoutesSettled'
  BY <1>1 DEF DeployInv, GatewaySerial, RunsDistinct, ServedFromDisk, RoutesSettled,
              Owns, Active, K, T
<1>5. Restorable' /\ CredentialKept'
  BY <1>1 DEF DeployInv, Restorable, CredentialKept, Enabled
<1>6. ActiveReachable'
  BY <1>1, <1>2 DEF DeployInv, ActiveReachable, Enabled
<1>7. TypeOK'
  <2>1. upsets' \in 0 .. MaxUpsets
    BY <1>0, <1>1, UpsetType
  <2>. QED  BY <2>1, <1>0, <1>1, <1>2 DEF TypeOK
<1>. QED  BY <1>3, <1>4, <1>5, <1>6, <1>7 DEF CoreInv

\* An activation is written after its operator gave up: whoever is at the gateway keeps the
\* lock, and an instance whose route is not served is noted, now or when it is rolled back.
LEMMA LateEnablesInv ==
    ASSUME DeployInv, NEW w \in pending, LateEnables(w)
    PROVE  CoreInv'
<1>. DEFINE k == w.t.key
            row == Row(w.t, TRUE)
<1>0. TypeOK /\ Accepts(w.t) /\ w.t \in Targets
  BY DEF DeployInv, LateEnables, PendingKnown
<1>1. /\ inst' = [inst EXCEPT ![k] = row]
      /\ lock' = IF lock # None /\ lock.key = k /\ (~Enabled(k) \/ k \in undone)
                 THEN [lock EXCEPT !.activated = TRUE] ELSE lock
      /\ undone' = IF live[k] = w.t.url THEN undone \ {k}
                   ELSE IF Enabled(k) THEN undone ELSE undone \cup {k}
      /\ fresh' = fresh \ {k}
      /\ UNCHANGED <<boot, eso, provisioner, tokens, applied, admin, client, started>>
      /\ UNCHANGED <<file, live, detached, run, upsets, lost>>
  BY DEF LateEnables, Activated, vault
<1>2. k \in Keys /\ row \in Rows /\ row # None /\ row.url = w.t.url /\ row.enabled = TRUE
  BY <1>0, TargetRow
<1>3. inst[k] # None /\ inst[k].url = w.t.url
  BY DEF DeployInv, PendingKnown
<1>4. provisioner[k] # Nothing /\ client[k] = provisioner[k]
  BY <1>0 DEF Accepts
<1>. HIDE DEF k, row
<1>5. /\ inst'[k] = row /\ \A h \in Keys \ {k} : inst'[h] = inst[h]
      /\ inst' \in [Keys -> {None} \cup Rows]
  BY <1>0, <1>1, <1>2 DEF TypeOK
<1>6. \A h \in Keys : inst[h] # None => /\ inst'[h] # None /\ inst'[h].url = inst[h].url
                                        /\ inst[h].enabled => inst'[h].enabled
  BY <1>2, <1>3, <1>5
<1>7. /\ lock' \in {None} \cup Locks /\ (lock' = None <=> lock = None)
      /\ lock # None => /\ lock'.owner = lock.owner /\ lock'.key = lock.key
                        /\ lock'.previous = lock.previous
      /\ lock # None /\ ~lock'.activated => ~lock.activated
      /\ lock # None /\ lock.key = k /\ ~lock'.activated => Enabled(k) /\ k \notin undone
  <2>1. CASE lock # None /\ lock.key = k /\ (~Enabled(k) \/ k \in undone)
    <3>1. lock \in Locks /\ lock' = [lock EXCEPT !.activated = TRUE]
      BY <2>1, <1>0, <1>1 DEF TypeOK
    <3>2. /\ lock' \in Locks /\ lock'.owner = lock.owner /\ lock'.key = lock.key
          /\ lock'.previous = lock.previous /\ lock'.activated = TRUE
      BY <3>1 DEF Locks
    <3>. QED  BY <2>1, <3>2, DeployAssumption
  <2>2. CASE ~(lock # None /\ lock.key = k /\ (~Enabled(k) \/ k \in undone))
    BY <2>2, <1>0, <1>1 DEF TypeOK
  <2>. QED  BY <2>1, <2>2
<1>8. /\ undone' \subseteq Keys /\ \A h \in Keys \ {k} : h \in undone' <=> h \in undone
      /\ live[k] = w.t.url \/ (Enabled(k) /\ undone' = undone) \/ k \in undone'
  BY <1>0, <1>1, <1>2 DEF TypeOK
<1>9. ASSUME NEW p \in Operators
      PROVE  /\ run'[p] = run[p] /\ K(p)' = K(p) /\ T(p)' = T(p)
             /\ Active(p)' <=> Active(p)
             /\ Active(p) => K(p) \in Keys
  BY <1>0, <1>1, OwnTypes DEF K, T, Active
<1>10. SecretsAgree' /\ NoStrayToken' /\ TokenHeld'
  BY <1>1 DEF DeployInv, SecretsAgree, NoStrayToken, TokenHeld, Active, K, T
<1>11. RowKnown'
  <2>. SUFFICES ASSUME NEW p \in Operators, Active(p), run[p].pc # "current",
                       ~run[p].absent \/ run[p].pc \in Registered
                PROVE  inst'[K(p)] # None /\ inst'[K(p)].url = T(p).url
    BY <1>9 DEF RowKnown, At
  <2>1. inst[K(p)] # None /\ inst[K(p)].url = T(p).url
    BY DEF DeployInv, RowKnown, At
  <2>2. K(p) \in Keys
    BY <1>9
  <2>. QED  BY <2>1, <2>2, <1>6
<1>12. RouteKnown'
  <2>. SUFFICES ASSUME NEW p \in Operators, run[p].pc \in {"enable", "commit"}
                PROVE  T(p).sound /\ (run[p].pc = "commit" => inst'[K(p)].enabled)
    BY <1>9 DEF RouteKnown, At
  <2>1. Active(p)
    BY DEF Active
  <2>2. inst[K(p)] # None
    BY <2>1 DEF DeployInv, RowKnown, At, Registered
  <2>3. K(p) \in Keys
    BY <2>1, <1>9
  <2>. QED  BY <2>2, <2>3, <1>6 DEF DeployInv, RouteKnown, At
<1>13. GatewaySerial'
  <2>1. ASSUME NEW p \in Operators, run[p].pc \in {"verify", "enable", "commit"}
        PROVE  Owns(run[p].tx, K(p))' /\ live'[K(p)'] = Route(T(p)')
    BY <2>1, <1>1, <1>7, <1>9, OneAtTheGateway DEF Owns
  <2>2. ASSUME lock' # None
        PROVE  \/ lock'.owner \in lost'
               \/ \E p \in Operators : /\ run'[p].pc \in {"verify", "enable", "commit", "undo"}
                                       /\ run'[p].tx = lock'.owner /\ K(p)' = lock'.key
    BY <2>2, <1>1, <1>7, <1>9 DEF DeployInv, GatewaySerial
  <2>. QED  BY <2>1, <2>2, <1>9 DEF GatewaySerial
<1>14. RunsDistinct' /\ ServedFromDisk'
  BY <1>1 DEF DeployInv, RunsDistinct, ServedFromDisk, Active, K, T
<1>15. RoutesSettled'
  BY <1>1, <1>7 DEF DeployInv, RoutesSettled
<1>16. Restorable'
  <2>. SUFFICES ASSUME lock # None, Enabled(lock.key)', ~lock'.activated
                PROVE  lock.previous = inst'[lock.key].url \/ lock.key \in undone'
    BY <1>7 DEF Restorable, Enabled
  <2>1. lock.key \in Keys
    BY <1>0 DEF TypeOK, Locks
  <2>2. CASE lock.key = k
    <3>1. Enabled(k) /\ k \notin undone /\ ~lock.activated
      BY <2>2, <1>7
    <3>2. lock.previous = inst[k].url
      BY <2>2, <3>1 DEF DeployInv, Restorable
    <3>. QED  BY <2>2, <3>2, <1>2, <1>3, <1>5
  <2>3. CASE lock.key # k
    <3>1. inst'[lock.key] = inst[lock.key] /\ Enabled(lock.key) /\ ~lock.activated
      BY <2>1, <2>3, <1>5, <1>7 DEF Enabled
    <3>2. lock.previous = inst[lock.key].url \/ lock.key \in undone
      BY <3>1 DEF DeployInv, Restorable
    <3>. QED  BY <2>1, <2>3, <3>1, <3>2, <1>8
  <2>. QED  BY <2>2, <2>3
<1>17. CredentialKept'
  BY <1>1, <1>4, <1>5 DEF DeployInv, CredentialKept, Enabled
<1>18. ActiveReachable'
  <2>. SUFFICES ASSUME NEW h \in Keys, Enabled(h)'
                PROVE  /\ \/ live'[h] = inst'[h].url \/ h \in undone'
                          \/ lock' # None /\ lock'.key = h /\ lock'.previous = inst'[h].url
                       /\ client'[h] = provisioner'[h] \/ h \in fresh'
    BY DEF ActiveReachable
  <2>1. CASE h = k
    <3>1. Enabled(k) => \/ live[k] = inst[k].url \/ k \in undone
                        \/ lock # None /\ lock.key = k /\ lock.previous = inst[k].url
      BY <1>2 DEF DeployInv, ActiveReachable
    <3>. QED  BY <2>1, <3>1, <1>1, <1>2, <1>3, <1>4, <1>5, <1>7, <1>8
  <2>2. CASE h # k
    <3>1. Enabled(h) /\ inst'[h] = inst[h]
      BY <2>2, <1>5 DEF Enabled
    <3>2. /\ \/ live[h] = inst[h].url \/ h \in undone
             \/ lock # None /\ lock.key = h /\ lock.previous = inst[h].url
          /\ client[h] = provisioner[h] \/ h \in fresh
      BY <3>1 DEF DeployInv, ActiveReachable
    <3>. QED  BY <2>2, <3>1, <3>2, <1>1, <1>7, <1>8
  <2>. QED  BY <2>1, <2>2
<1>19. TypeOK'
  BY <1>0, <1>1, <1>5, <1>7, <1>8 DEF TypeOK
<1>. QED  BY <1>10, <1>11, <1>12, <1>13, <1>14, <1>15, <1>16, <1>17, <1>18, <1>19 DEF CoreInv

\* The documented recovery of an open transaction.
LEMMA RecoverInv ==
    ASSUME DeployInv, Recover
    PROVE  CoreInv'
<1>0. TypeOK /\ lock # None /\ Restores(lock) /\ \A p \in Operators : ~Active(p)
  BY DEF DeployInv, Recover
<1>1. /\ UNCHANGED <<inst, boot, eso, provisioner, tokens, applied, admin, client, started>>
      /\ UNCHANGED <<detached, run, upsets, lost, fresh>>
  BY DEF Recover, Untouched, Kept, vault
<1>2. /\ lock' = None /\ undone' \subseteq Keys
      /\ file' \in [Keys -> Routes] /\ live' \in [Keys -> Routes]
      /\ RoutesSettled' /\ Restorable' /\ ActiveReachable' /\ CredentialKept'
  BY <1>0, <1>1, Restored
<1>3. \A p \in Operators : run'[p].pc \notin {"verify", "enable", "commit"}
  BY <1>0, <1>1 DEF Active
<1>4. GatewaySerial' /\ ServedFromDisk'
  BY <1>2, <1>3 DEF GatewaySerial, ServedFromDisk
<1>5. RunsDistinct'
  BY <1>1 DEF DeployInv, RunsDistinct, Active
<1>6. SecretsAgree' /\ NoStrayToken' /\ TokenHeld' /\ RowKnown' /\ RouteKnown'
  BY <1>1, RunsFrame
<1>7. TypeOK'
  BY <1>0, <1>1, <1>2 DEF TypeOK
<1>. QED  BY <1>2, <1>4, <1>5, <1>6, <1>7 DEF CoreInv

\* A run starts, under a number no other run has.
LEMMA StartsInv ==
    ASSUME DeployInv, NEW o \in Operators, NEW t \in Targets, Starts(o, t)
    PROVE  CoreInv'
<1>. DEFINE r == [pc |-> "current", t |-> t, tx |-> started + 1, absent |-> FALSE,
                  cred |-> Nothing, held |-> Nothing]
<1>0. TypeOK /\ ~Active(o) /\ started < MaxRuns /\ started \in 0 .. MaxRuns
  BY DEF DeployInv, Starts, TypeOK
<1>1. /\ UNCHANGED <<inst, boot, eso, provisioner, tokens, applied, admin, client>>
      /\ UNCHANGED <<lock, file, live, detached, upsets, lost, undone, fresh>>
      /\ started' = started + 1 /\ run' = [run EXCEPT ![o] = r]
  BY DEF Starts, vault, gateway, ghosts
<1>2. started + 1 \in Runs /\ started' \in 0 .. MaxRuns
  BY <1>0, <1>1, DeployAssumption DEF Runs
<1>3. r \in Deployments /\ r.pc = "current" /\ r.tx = started + 1 /\ r.cred = Nothing
  BY <1>2, SecretTypes DEF Deployments, Pcs
<1>. HIDE DEF r
<1>4. run'[o] = r /\ Others(o) /\ run' \in [Operators -> {Idle} \cup Deployments]
  BY <1>0, <1>1, <1>3, RunUpdate
<1>5. run[o].pc = "idle"
  BY <1>0 DEF Active
<1>6. ASSUME NEW p \in Operators, p # o
      PROVE  run'[p] = run[p] /\ K(p)' = K(p) /\ T(p)' = T(p) /\ (Active(p)' <=> Active(p))
  BY <1>4, <1>6 DEF Others, K, T, Active
<1>7. TypeOK'
  BY <1>0, <1>1, <1>2, <1>4 DEF TypeOK
<1>8. RunsDistinct'
  <2>1. ASSUME NEW p \in Operators, Active(p)
        PROVE  run[p].tx \in Nat /\ run[p].tx <= started
    <3>1. run[p].tx \in Runs
      BY <2>1, <1>0, OwnTypes
    <3>. QED  BY <2>1, <3>1, DeployAssumption DEF Runs, DeployInv, RunsDistinct
  <2>2. ASSUME NEW p \in Operators, Active(p)'
        PROVE  run'[p].tx <= started' /\ (p # o => run'[p].tx # started + 1)
    BY <2>1, <2>2, <1>0, <1>1, <1>3, <1>4, <1>6
  <2>3. ASSUME NEW p \in Operators, NEW q \in Operators, Active(p)', Active(q)', p # q
        PROVE  run'[p].tx # run'[q].tx
    <3>1. CASE p = o
      BY <3>1, <2>2, <2>3, <1>3, <1>4
    <3>2. CASE q = o
      BY <3>2, <2>2, <2>3, <1>3, <1>4
    <3>3. CASE p # o /\ q # o
      BY <3>3, <2>3, <1>6 DEF DeployInv, RunsDistinct
    <3>. QED  BY <3>1, <3>2, <3>3
  <2>4. \A d \in detached' : d.tx \in lost'
    BY <1>1 DEF DeployInv, RunsDistinct
  <2>. QED  BY <2>2, <2>3, <2>4 DEF RunsDistinct
<1>9. SecretsAgree'
  <2>1. ASSUME NEW p \in Operators, Active(p)'
        PROVE  run'[p].cred \in {Nothing, boot'[K(p)']}
    BY <2>1, <1>1, <1>3, <1>4, <1>6 DEF DeployInv, SecretsAgree
  <2>. QED  BY <2>1, <1>1 DEF DeployInv, SecretsAgree
<1>10. NoStrayToken'
  BY <1>1, <1>5, <1>6 DEF DeployInv, NoStrayToken
<1>11. TokenHeld'
  BY <1>1, <1>3, <1>4, <1>6 DEF DeployInv, TokenHeld
<1>12. RowKnown'
  BY <1>1, <1>3, <1>4, <1>6 DEF DeployInv, RowKnown, At
<1>13. RouteKnown'
  BY <1>1, <1>3, <1>4, <1>6 DEF DeployInv, RouteKnown, At
<1>14. GatewaySerial'
  <2>1. ASSUME NEW p \in Operators, run'[p].pc \in {"verify", "enable", "commit"}
        PROVE  Owns(run[p].tx, K(p))' /\ live'[K(p)'] = Route(T(p)')
    <3>1. p # o
      BY <2>1, <1>3, <1>4
    <3>. QED  BY <2>1, <3>1, <1>1, <1>6 DEF DeployInv, GatewaySerial, Owns
  <2>2. ASSUME lock # None, lock.owner \notin lost
        PROVE  \E p \in Operators : /\ run'[p].pc \in {"verify", "enable", "commit", "undo"}
                                    /\ run'[p].tx = lock.owner /\ K(p)' = lock.key
    <3>1. PICK p \in Operators : /\ run[p].pc \in {"verify", "enable", "commit", "undo"}
                                 /\ run[p].tx = lock.owner /\ K(p) = lock.key
      BY <2>2 DEF DeployInv, GatewaySerial
    <3>2. p # o
      BY <3>1, <1>5
    <3>. QED  BY <3>1, <3>2, <1>6
  <2>. QED  BY <2>1, <2>2, <1>1 DEF GatewaySerial
<1>15. ServedFromDisk'
  BY <1>1, <1>3, <1>4, <1>6 DEF DeployInv, ServedFromDisk
<1>16. RoutesSettled' /\ Restorable' /\ ActiveReachable' /\ CredentialKept'
  BY <1>1, RoutesFrame
<1>. QED  BY <1>7, <1>8, <1>9, <1>10, <1>11, <1>12, <1>13, <1>14, <1>15, <1>16 DEF CoreInv

-----------------------------------------------------------------------------
(* The invariant. *)

\* Nothing is installed at first.
LEMMA DeployInit == Init => DeployInv
<1>. SUFFICES ASSUME Init PROVE DeployInv
  OBVIOUS
<1>1. /\ \A k \in Keys : inst[k] = None /\ file[k] = None /\ live[k] = None
      /\ \A k \in Keys : boot[k] = Nothing /\ eso[k] = Nothing
      /\ \A k \in Keys : applied[k] = Nothing /\ admin[k] = Nothing
      /\ \A o \in Operators : run[o] = Idle /\ run[o].pc = "idle"
      /\ lock = None /\ tokens = {} /\ detached = {}
  BY DEF Init, Idle
<1>2. TypeOK
  <2>1. /\ inst \in [Keys -> {None} \cup Rows] /\ run \in [Operators -> {Idle} \cup Deployments]
        /\ file \in [Keys -> Routes] /\ live \in [Keys -> Routes]
    BY DEF Init, Routes
  <2>2. /\ boot \in [Keys -> Secrets] /\ eso \in [Keys -> Secrets]
        /\ provisioner \in [Keys -> Secrets] /\ applied \in [Keys -> Secrets]
        /\ admin \in [Keys -> Secrets] /\ client \in [Keys -> Secrets]
    BY SecretTypes DEF Init
  <2>3. /\ started \in 0 .. MaxRuns /\ upsets \in 0 .. MaxUpsets
        /\ lost \subseteq Runs /\ undone \subseteq Keys /\ fresh \subseteq Keys
    BY DeployAssumption DEF Init
  <2>. QED  BY <2>1, <2>2, <2>3, <1>1 DEF TypeOK
<1>3. SecretsAgree /\ NoStrayToken /\ TokenHeld /\ RowKnown /\ RunsDistinct
  BY <1>1 DEF SecretsAgree, NoStrayToken, TokenHeld, RowKnown, RunsDistinct, Active
<1>4. GatewaySerial /\ RouteKnown /\ ServedFromDisk
  BY <1>1 DEF GatewaySerial, RouteKnown, ServedFromDisk, At
<1>5. RoutesSettled /\ Restorable /\ ActiveReachable /\ CredentialKept
  BY <1>1 DEF RoutesSettled, Restorable, ActiveReachable, CredentialKept, Enabled
<1>6. PendingKnown
  BY DEF Init, PendingKnown
<1>. QED  BY <1>2, <1>3, <1>4, <1>5, <1>6 DEF DeployInv

\* A row that exists keeps its issuer, and an active one stays active.
RowsKept ==
    \A k \in Keys : inst[k] # None => /\ inst'[k] # None /\ inst'[k].url = inst[k].url
                                      /\ inst[k].enabled => inst'[k].enabled

\* Only the registration and the activations write rows: the first where there is none, the
\* second over a row that carries the target's issuer.
LEMMA KeptStep == DeployInv /\ [Next]_vars => RowsKept
<1>. SUFFICES ASSUME DeployInv, [Next]_vars PROVE RowsKept
  OBVIOUS
<1>1. ASSUME NEW o \in Operators, Register(o) PROVE RowsKept
  <2>1. TypeOK /\ Active(o)
    BY <1>1 DEF DeployInv, Register, At, Active
  <2>2. K(o) \in Keys
    BY <2>1, OwnTypes
  <2>3. \/ inst[K(o)] = None /\ \A k \in Keys \ {K(o)} : inst'[k] = inst[k]
        \/ UNCHANGED inst
    <3>1. \/ inst[K(o)] = None /\ inst' = [inst EXCEPT ![K(o)] = Row(T(o), FALSE)]
          \/ UNCHANGED inst
      BY <1>1 DEF Register, CreatesRow
    <3>. QED  BY <2>1, <2>2, <3>1 DEF TypeOK
  <2>. QED  BY <2>3 DEF RowsKept
<1>2. ASSUME NEW t \in Targets, Activated(t), inst[t.key].url = t.url PROVE RowsKept
  <2>. DEFINE row == Row(t, TRUE)
  <2>1. TypeOK /\ inst' = [inst EXCEPT ![t.key] = row]
    BY <1>2 DEF DeployInv, Activated
  <2>2. t.key \in Keys /\ row # None /\ row.url = t.url /\ row.enabled = TRUE
    BY TargetRow
  <2>. HIDE DEF row
  <2>3. inst'[t.key] = row /\ \A k \in Keys \ {t.key} : inst'[k] = inst[k]
    BY <2>1, <2>2 DEF TypeOK
  <2>. QED  BY <2>2, <2>3, <1>2 DEF RowsKept
<1>3. ASSUME UNCHANGED inst PROVE RowsKept
  BY <1>3 DEF RowsKept
<1>4. ASSUME NEW o \in Operators, Enable(o) PROVE RowsKept
  <2>1. TypeOK /\ Active(o) /\ run[o].pc = "enable" /\ Activated(T(o))
    BY <1>4 DEF DeployInv, Enable, At, Active
  <2>2. T(o) \in Targets
    BY <2>1, ActiveRun, DeploymentFields DEF T
  <2>3. inst[T(o).key].url = T(o).url
    BY <2>1 DEF DeployInv, RowKnown, At, Registered, K, T
  <2>. QED  BY <2>1, <2>2, <2>3, <1>2
<1>5. ASSUME NEW w \in pending, LateEnables(w) \/ LateRefused(w) PROVE RowsKept
  <2>1. w.t \in Targets /\ inst[w.t.key].url = w.t.url
    BY DEF DeployInv, PendingKnown
  <2>. QED  BY <2>1, <1>2, <1>3, <1>5 DEF LateEnables, LateRefused, Kept
<1>6. ASSUME NEW o \in Operators, Deploys(o)
      PROVE  UNCHANGED inst \/ Register(o) \/ Enable(o)
  BY <1>6 DEF Deploys, Current, EnsureBootstrap, FindToken, MintToken, StoreToken, RevokeToken,
              ApplyToken, Install, Retained, EnsureProvisioner, StoreProvisioner, Stage,
              StageBusy, Verify, EnableRefused, Commit, Undo, Untouched, Kept
<1>7. ASSUME NEW o \in Operators, NEW t \in Targets, Starts(o, t) PROVE UNCHANGED inst
  BY <1>7 DEF Starts
<1>8. ASSUME NEW o \in Operators,
             \/ StageUnanswered(o) \/ StageRejected(o) \/ StageDetached(o)
             \/ EnableUnanswered(o) \/ UndoIncomplete(o) \/ Fails(o) \/ Killed(o)
      PROVE  UNCHANGED inst
  BY <1>8 DEF StageUnanswered, StageRejected, StageDetached, EnableUnanswered, UndoIncomplete,
              Fails, Killed, Untouched, Kept
<1>9. ASSUME NEW d \in detached, DetachedStages(d) \/ DetachedBusy(d) PROVE UNCHANGED inst
  BY <1>9 DEF DetachedStages, DetachedBusy, Untouched, Kept
<1>10. (\E k \in Keys : NewDatabase(k)) \/ Recover \/ UNCHANGED vars => UNCHANGED inst
  BY DEF NewDatabase, Recover, Untouched, Kept, vars
<1>. QED  BY <1>1, <1>3, <1>4, <1>5, <1>6, <1>7, <1>8, <1>9, <1>10 DEF Next

\* The requests an operator leaves behind are activations of a registered instance.
LEMMA PendingStep == DeployInv /\ [Next]_vars => PendingKnown'
<1>. SUFFICES ASSUME DeployInv, [Next]_vars PROVE PendingKnown'
  OBVIOUS
<1>. DEFINE Left == \A w \in pending' \ pending :
                      \E o \in Operators : At(o, "enable") /\ w = Request(o)
<1>1. ASSUME NEW o \in Operators, Deploys(o) PROVE UNCHANGED pending
  BY <1>1 DEF Deploys, Current, EnsureBootstrap, FindToken, MintToken, StoreToken, RevokeToken,
              ApplyToken, Register, Install, Retained, EnsureProvisioner, StoreProvisioner,
              Stage, StageBusy, Verify, Enable, EnableRefused, Commit, Undo, Untouched
<1>2. ASSUME NEW o \in Operators, NEW t \in Targets, Starts(o, t) PROVE UNCHANGED pending
  BY <1>2 DEF Starts
<1>3. ASSUME NEW o \in Operators,
             \/ StageUnanswered(o) \/ StageRejected(o) \/ StageDetached(o)
             \/ EnableUnanswered(o) \/ UndoIncomplete(o) \/ Fails(o) \/ Killed(o)
      PROVE  Left
  <2>1. \/ UNCHANGED pending
        \/ At(o, "enable") /\ pending' = pending \cup {Request(o)}
    BY <1>3 DEF StageUnanswered, StageRejected, StageDetached, EnableUnanswered,
                UndoIncomplete, Fails, Killed, Untouched
  <2>. QED  BY <2>1
<1>4. ASSUME NEW d \in detached, DetachedStages(d) \/ DetachedBusy(d) PROVE UNCHANGED pending
  BY <1>4 DEF DetachedStages, DetachedBusy, Untouched
<1>5. ASSUME NEW w \in pending, LateEnables(w) \/ LateRefused(w) PROVE Left
  BY <1>5 DEF LateEnables, LateRefused
<1>6. (\E k \in Keys : NewDatabase(k)) \/ Recover \/ UNCHANGED vars => UNCHANGED pending
  BY DEF NewDatabase, Recover, Untouched, vars
<1>7. UNCHANGED pending => Left
  OBVIOUS
<1>8. Left
  <2>. HIDE DEF Left
  <2>. QED  BY <1>1, <1>2, <1>3, <1>4, <1>5, <1>6, <1>7 DEF Next
<1>9. ASSUME NEW w \in pending'
      PROVE  w \in [tx : Runs, t : Targets] /\ inst[w.t.key] # None /\ inst[w.t.key].url = w.t.url
  <2>1. CASE w \in pending
    BY <2>1 DEF DeployInv, PendingKnown
  <2>2. CASE w \notin pending
    <3>1. PICK o \in Operators : At(o, "enable") /\ w = Request(o)
      BY <2>2, <1>8
    <3>2. TypeOK /\ Active(o)
      BY <3>1 DEF DeployInv, At, Active
    <3>3. run[o].tx \in Runs /\ T(o) \in Targets
      BY <3>2, ActiveRun, DeploymentFields DEF T
    <3>4. inst[K(o)] # None /\ inst[K(o)].url = T(o).url
      BY <3>1, <3>2 DEF DeployInv, RowKnown, At, Registered
    <3>. QED  BY <3>1, <3>3, <3>4 DEF Request, K, T
  <2>. QED  BY <2>1, <2>2
<1>10. ASSUME NEW w \in pending' PROVE inst'[w.t.key] # None /\ inst'[w.t.key].url = w.t.url
  <2>1. w.t \in Targets
    BY <1>9
  <2>2. w.t.key \in Keys
    BY <2>1, DeployAssumption DEF TargetConfig
  <2>. QED  BY <2>2, <1>9, KeptStep DEF RowsKept
<1>. QED  BY <1>9, <1>10 DEF PendingKnown

\* No step of the command, no failure and nothing outside breaks it.
LEMMA DeployStep == DeployInv /\ [Next]_vars => DeployInv'
<1>. SUFFICES ASSUME DeployInv, [Next]_vars PROVE DeployInv'
  OBVIOUS
<1>1. ASSUME NEW o \in Operators, Deploys(o) PROVE CoreInv'
  BY <1>1, CurrentInv, EnsureBootstrapInv, FindTokenInv, MintTokenInv, StoreTokenInv,
     RevokeTokenInv, ApplyTokenInv, RegisterInv, InstallInv, RetainedInv,
     EnsureProvisionerInv, StoreProvisionerInv, StageInv, QuietInv, VerifyInv, EnableInv,
     CommitInv, UndoInv DEF Deploys
<1>2. ASSUME NEW o \in Operators, NEW t \in Targets, Starts(o, t) PROVE CoreInv'
  BY <1>2, StartsInv
<1>3. ASSUME NEW o \in Operators,
             \/ StageUnanswered(o) \/ StageRejected(o) \/ StageDetached(o)
             \/ EnableUnanswered(o) \/ UndoIncomplete(o) \/ Fails(o) \/ Killed(o)
      PROVE  CoreInv'
  BY <1>3, StageInv, QuietInv, UndoIncompleteInv
<1>4. ASSUME NEW d \in detached, DetachedStages(d) \/ DetachedBusy(d) PROVE CoreInv'
  BY <1>4, DetachedStagesInv, OutsideInv
<1>5. ASSUME NEW k \in Keys, NewDatabase(k) PROVE CoreInv'
  BY <1>5, OutsideInv
<1>6. ASSUME NEW w \in pending, LateEnables(w) \/ LateRefused(w) PROVE CoreInv'
  BY <1>6, LateEnablesInv, OutsideInv
<1>7. ASSUME Recover PROVE CoreInv'
  BY <1>7, RecoverInv
<1>8. ASSUME UNCHANGED vars PROVE CoreInv'
  <2>1. /\ UNCHANGED <<inst, boot, eso, provisioner, tokens, applied, admin, client>>
        /\ UNCHANGED <<lock, file, live, detached, run, started, upsets, lost, undone, fresh>>
    BY <1>8 DEF vars, vault, gateway, ghosts
  <2>2. SecretsAgree' /\ NoStrayToken' /\ TokenHeld' /\ RowKnown' /\ RouteKnown'
    BY <2>1, RunsFrame
  <2>3. RoutesSettled' /\ Restorable' /\ ActiveReachable' /\ CredentialKept'
    BY <2>1, RoutesFrame
  <2>4. GatewaySerial' /\ RunsDistinct' /\ ServedFromDisk'
    BY <2>1 DEF DeployInv, GatewaySerial, RunsDistinct, ServedFromDisk, Owns, Active, K, T
  <2>5. TypeOK'
    BY <2>1 DEF DeployInv, TypeOK
  <2>. QED  BY <2>2, <2>3, <2>4, <2>5 DEF CoreInv
<1>9. CoreInv'
  BY <1>1, <1>2, <1>3, <1>4, <1>5, <1>6, <1>7, <1>8 DEF Next
<1>10. PendingKnown'
  BY PendingStep
<1>. QED  BY <1>9, <1>10 DEF DeployInv, CoreInv

(***************************************************************************)
(* Any number of operators, for any number of instances and whatever is    *)
(* lost or killed: the secrets of concurrent runs agree, no token is left  *)
(* over, gateway transactions are serial, an active instance is reachable. *)
(***************************************************************************)
THEOREM DeployInvariant == Spec => []DeployInv
BY DeployInit, DeployStep, PTL DEF Spec

(***************************************************************************)
(* An active instance is served under its public URL or has an open        *)
(* transaction that restores it, and CNP holds the client's secret.        *)
(***************************************************************************)
THEOREM ActiveAlwaysReachable == Spec => []ActiveReachable
<1>1. DeployInv => ActiveReachable
  BY DEF DeployInv
<1>. QED  BY <1>1, DeployInvariant, PTL

(***************************************************************************)
(* A second run never deactivates an instance nor changes its issuer, not  *)
(* even when its checks were made before another run's writes.             *)
(***************************************************************************)
THEOREM InstancesStayActive == Spec => StaysActive
<1>1. DeployInv /\ [Next]_vars => RowsKept
  BY KeptStep
<1>2. [][Next]_vars /\ []DeployInv => [][RowsKept]_vars
  BY <1>1, PTL
<1>. QED  BY <1>2, DeployInvariant, PTL DEF Spec, StaysActive, RowsKept
=============================================================================
