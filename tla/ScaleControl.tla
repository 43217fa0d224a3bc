---------------------------- MODULE ScaleControl ----------------------------
(***************************************************************************)
(* Scale-to-zero of application environments: the manual Stop and Resume   *)
(* requests and the nightly worker                                         *)
(* (backend/services/scale_service.py, scale_worker.py), together with the *)
(* two other writers of the same gitops file, the expose toggle            *)
(* (app_service.py update_expose) and the rollback route.                  *)
(*                                                                         *)
(* Every environment of an application has a values-{env}.yaml file in the *)
(* gitops repository (what ArgoCD deploys) and an AppScaleState row in the *)
(* database (what the console shows and what the worker decides from).     *)
(* All coroutines run on one event loop; an operation is cut into one      *)
(* action per stretch of code between two awaits.                          *)
(***************************************************************************)
EXTENDS FiniteSets, OffHours

CONSTANTS
    Apps,                     \* applications with a target cluster
    Managed,                  \* those with dev_scale_enabled not False
    Requests,                 \* concurrent HTTP requests
    Worker,                   \* the scale worker task
    RequestKinds,             \* what the requests do, see RequestPlans
    ScaleEnvs,                \* the sets of environments Stop and Resume name
    Instants,                 \* the local times the clock may show
    DEV_SCALE_DOWN_HOUR, DEV_SCALE_UP_HOUR, DEV_SCALE_WEEKDAYS_ONLY

Procs == Requests \cup {Worker}
Envs  == {"dev", "prod"}
Slots == Apps \X Envs         \* one environment of one application

AllKinds == {"stop", "resume", "show", "hide", "rollback"}

ASSUME ScaleConstants ==
    /\ Managed \subseteq Apps
    /\ Worker \notin Requests
    /\ RequestKinds \subseteq AllKinds
    /\ ScaleEnvs \subseteq ((SUBSET Envs) \ {{}})
    /\ Instants \subseteq Times
    /\ Instants # {}

VARIABLES
    now,        \* the wall clock
    row,        \* Slots -> AppScaleState row (committed database state)
    exposed,    \* Apps -> applications.expose (committed database state)
    file,       \* Slots -> values-{env}.yaml on the main branch
    pc,         \* Procs -> where the operation stands
    plan,       \* Procs -> Slots -> what the operation does to the slot
    todo,       \* Procs -> slots whose file is still to be pushed
    snap,       \* Procs -> Slots -> file content read, not yet pushed back
    seen,       \* Procs -> Slots -> row as loaded in the session
    seenExpose  \* Procs -> applications.expose as loaded in the session

(***************************************************************************)
(* Observation only; no action of the program depends on these.            *)
(***************************************************************************)
VARIABLES
    overlap,    \* Procs -> slots another operation shared with this one
    driftR,     \* slots whose replicas override may differ from the row
    driftI,     \* applications whose ingress may differ from expose
    held        \* slots whose last completed manual operation was a Stop

db    == <<row, exposed>>
ghost == <<overlap, driftR, driftI, held>>
vars  == <<now, row, exposed, file, pc, plan, todo, snap, seen, seenExpose,
           overlap, driftR, driftI, held>>

Row == [exists      : BOOLEAN,
        is_stopped  : BOOLEAN,
        stop_reason : {"none", "manual", "schedule"}]
NoRow == [exists |-> FALSE, is_stopped |-> FALSE, stop_reason |-> "none"]

\* values-{env}.yaml: the replicas override (absent means the chart's
\* default) and ingress.enabled.  The image tag a rollback sets is left out.
File == [replicas : {"default", "zero"}, ingress : BOOLEAN]

Keep      == [s \in Slots |-> "keep"]
NoFiles   == [s \in Slots |-> [replicas |-> "default", ingress |-> FALSE]]
NoRows    == [s \in Slots |-> NoRow]

Touches(p) == {s \in Slots : plan[p][s] # "keep"}
ScaleOp(p)    == \E s \in Slots : plan[p][s] \in {"stop", "resume"}
ExposeOp(p)   == \E s \in Slots : plan[p][s] \in {"show", "hide"}
RollbackOp(p) == \E s \in Slots : plan[p][s] = "rollback"

DevStopDesired ==
    DesiredStopped(now, DEV_SCALE_DOWN_HOUR, DEV_SCALE_UP_HOUR,
                   DEV_SCALE_WEEKDAYS_ONLY)

-----------------------------------------------------------------------------
(***************************************************************************)
(* What a request or a worker tick sets out to do.                         *)
(***************************************************************************)

\* stop_app, resume_app, update_expose and rollback_app: the slots a request
\* acts on.  Stop and Resume take one environment or both; the expose toggle
\* always writes both files; a rollback writes one.
RequestPlans(kind) ==
    LET on(a, envs) == [s \in Slots |-> IF s[1] = a /\ s[2] \in envs
                                        THEN kind ELSE "keep"]
        choices == CASE kind \in {"stop", "resume"} -> ScaleEnvs
                     [] kind \in {"show", "hide"}   -> {Envs}
                     [] OTHER                       -> {{e} : e \in Envs}
    IN  {on(a, envs) : a \in Apps, envs \in choices}

\* The dev environments the worker looks at.
DevManaged(s) == s[2] = "dev" /\ s[1] \in Managed

\* A reconciliation that wakes every stopped environment up.
ReconciliationPlanWakesAll ==
    [s \in Slots |->
        CASE DevManaged(s) /\ DevStopDesired /\ ~row[s].is_stopped -> "stop"
          [] DevManaged(s) /\ ~DevStopDesired /\ row[s].is_stopped -> "resume"
          [] OTHER -> "keep"]

\* A reconciliation that never resumes.
ReconciliationPlanNoResume ==
    [s \in Slots |->
        CASE DevManaged(s) /\ DevStopDesired /\ ~row[s].is_stopped -> "stop"
          [] OTHER -> "keep"]

\* A reconciliation that leaves out the applications never stopped before.
ReconciliationPlanKnownOnly ==
    [s \in Slots |->
        CASE DevManaged(s) /\ DevStopDesired /\ row[s].exists /\ ~row[s].is_stopped
               -> "stop"
          [] /\ DevManaged(s) /\ ~DevStopDesired
             /\ row[s].is_stopped /\ row[s].stop_reason = "schedule"
               -> "resume"
          [] OTHER -> "keep"]

(***************************************************************************)
(* run_scale_reconciliation: the changes of one tick, from the rows it     *)
(* loads.  Only dev, only managed applications; a stop whose reason is not *)
(* SCHEDULE is never resumed.                                              *)
(***************************************************************************)
ReconciliationPlan ==
    [s \in Slots |->
        CASE DevManaged(s) /\ DevStopDesired /\ ~row[s].is_stopped -> "stop"
          [] /\ DevManaged(s) /\ ~DevStopDesired
             /\ row[s].is_stopped /\ row[s].stop_reason = "schedule"
               -> "resume"
          [] OTHER -> "keep"]

-----------------------------------------------------------------------------
Init ==
    /\ now \in Instants
    /\ row = NoRows
    /\ exposed = [a \in Apps |-> FALSE]
    /\ file = NoFiles
    /\ pc = [p \in Procs |-> "idle"]
    /\ plan = [p \in Procs |-> Keep]
    /\ todo = [p \in Procs |-> {}]
    /\ snap = [p \in Procs |-> NoFiles]
    /\ seen = [p \in Procs |-> NoRows]
    /\ seenExpose = [p \in Procs |-> FALSE]
    /\ overlap = [p \in Procs |-> {}]
    /\ driftR = {}
    /\ driftI = {}
    /\ held = {}

\* rollback_app calls GitLab synchronously: between its read and its push
\* the event loop runs nothing else, only pool threads go on.
LoopFree == \A p \in Procs : ~(RollbackOp(p) /\ pc[p] = "commit")

\* The clock shows another instant of the week.
Tick ==
    /\ now' \in Instants \ {now}
    /\ UNCHANGED <<db, file, pc, plan, todo, snap, seen, seenExpose, ghost>>

(***************************************************************************)
(* An operation starts with its plan.  Bookkeeping: a slot it shares with  *)
(* an operation in flight is an overlap for both.                          *)
(***************************************************************************)
Begin(p, pl) ==
    LET mine == {s \in Slots : pl[s] # "keep"}
    IN  /\ pc[p] = "idle"
        /\ LoopFree
        /\ pc' = [pc EXCEPT ![p] = "read"]
        /\ plan' = [plan EXCEPT ![p] = pl]
        /\ todo' = [todo EXCEPT ![p] = mine]
        /\ overlap' = [q \in Procs |->
              IF q = p
              THEN {s \in mine : \E o \in Procs \ {p} : s \in Touches(o)}
              ELSE overlap[q] \cup (mine \cap Touches(q))]
        /\ UNCHANGED <<now, db, file, snap, driftR, driftI, held>>

\* A request arrives; update_expose has loaded the application by then.
RequestBegins(r) ==
    \E kind \in RequestKinds : \E pl \in RequestPlans(kind) :
        /\ Begin(r, pl)
        /\ \E a \in Apps : /\ pl[<<a, "dev">>] # "keep" \/ pl[<<a, "prod">>] # "keep"
                           /\ seenExpose' = [seenExpose EXCEPT ![r] = exposed[a]]
        /\ UNCHANGED seen

\* A worker tick that finds something to change.  The rows it loads stay in
\* its session and are not refreshed by later queries.
WorkerBegins ==
    /\ ReconciliationPlan # Keep
    /\ Begin(Worker, ReconciliationPlan)
    /\ seen' = [seen EXCEPT ![Worker] =
                  [s \in Slots |-> IF ReconciliationPlan[s] # "keep"
                                   THEN row[s] ELSE NoRow]]
    /\ UNCHANGED seenExpose

(***************************************************************************)
(* The gitops push, in a pool thread: read the files, then create one      *)
(* commit with their whole new content.  Stop, Resume and the worker push  *)
(* all their files in one commit (push_replica_overrides_batch); the       *)
(* expose toggle makes one push for dev, then one for prod.                *)
(***************************************************************************)
Batch(p) ==
    LET dev == {s \in todo[p] : s[2] = "dev"}
    IN  IF ExposeOp(p) /\ dev # {} THEN dev ELSE todo[p]

\* A patch that writes the file from scratch.
PatchedFromScratch(content, action) ==
    CASE action = "stop"   -> [replicas |-> "zero", ingress |-> FALSE]
      [] action = "resume" -> [replicas |-> "default", ingress |-> FALSE]
      [] action = "show"   -> [content EXCEPT !.ingress = TRUE]
      [] action = "hide"   -> [content EXCEPT !.ingress = FALSE]
      [] OTHER             -> content

\* A resume that leaves the override in place.
PatchedKeepsOverride(content, action) ==
    CASE action = "stop"   -> [content EXCEPT !.replicas = "zero"]
      [] action = "show"   -> [content EXCEPT !.ingress = TRUE]
      [] action = "hide"   -> [content EXCEPT !.ingress = FALSE]
      [] OTHER             -> content

\* What the push makes of a file: only its own key changes.
Patched(content, action) ==
    CASE action = "stop"   -> [content EXCEPT !.replicas = "zero"]
      [] action = "resume" -> [content EXCEPT !.replicas = "default"]
      [] action = "show"   -> [content EXCEPT !.ingress = TRUE]
      [] action = "hide"   -> [content EXCEPT !.ingress = FALSE]
      [] OTHER             -> content

PushRead(p) ==
    /\ pc[p] = "read"
    /\ RollbackOp(p) => LoopFree
    /\ snap' = [snap EXCEPT ![p] =
                  [s \in Slots |-> IF s \in Batch(p) THEN file[s]
                                   ELSE NoFiles[s]]]
    /\ pc' = [pc EXCEPT ![p] = "commit"]
    /\ UNCHANGED <<now, db, file, plan, todo, seen, seenExpose, ghost>>

PushedFiles(p) ==
    [s \in Slots |-> IF s \in Batch(p) THEN Patched(snap[p][s], plan[p][s])
                     ELSE file[s]]

PushCommit(p) ==
    /\ pc[p] = "commit"
    /\ file' = PushedFiles(p)
    /\ todo' = [todo EXCEPT ![p] = @ \ Batch(p)]
    /\ snap' = [snap EXCEPT ![p] = NoFiles]
    /\ pc' = [pc EXCEPT ![p] = IF todo[p] \ Batch(p) # {} THEN "read"
                               ELSE IF ScaleOp(p) THEN "load" ELSE "save"]
    /\ UNCHANGED <<now, db, plan, seen, seenExpose, ghost>>

\* The operation of p is over; nothing of it stays in memory.
Ends(p) ==
    /\ pc' = [pc EXCEPT ![p] = "idle"]
    /\ plan' = [plan EXCEPT ![p] = Keep]
    /\ todo' = [todo EXCEPT ![p] = {}]
    /\ snap' = [snap EXCEPT ![p] = NoFiles]
    /\ seen' = [seen EXCEPT ![p] = NoRows]
    /\ seenExpose' = [seenExpose EXCEPT ![p] = FALSE]
    /\ overlap' = [overlap EXCEPT ![p] = {}]

\* Slots p has pushed once landed says what its current push did.
Pushed(p, landed) == (Touches(p) \ todo[p]) \cup landed

\* p gave up after pushing: row and expose were not updated to match.
DriftOf(p, landed) == overlap[p] \cup Pushed(p, landed)

(***************************************************************************)
(* The push raises, so the request answers 502 and the database stays as   *)
(* it was.  The commit may have landed all the same (a lost answer).       *)
(***************************************************************************)
PushFails(p) ==
    /\ pc[p] = "commit"
    /\ \E landed \in {{}, Batch(p)} :
         /\ file' = IF landed = {} THEN file ELSE PushedFiles(p)
         /\ driftR' = driftR \cup (IF ScaleOp(p) THEN DriftOf(p, landed)
                                                 ELSE overlap[p])
         /\ driftI' = driftI \cup
              {s[1] : s \in IF ExposeOp(p) THEN DriftOf(p, landed)
                                           ELSE overlap[p]}
    /\ Ends(p)
    /\ UNCHANGED <<now, db, held>>

-----------------------------------------------------------------------------
(***************************************************************************)
(* After the push (and the best-effort ArgoCD sync, which changes nothing  *)
(* kept here), _get_or_create_state loads the row of every change.  A row  *)
(* already in the session keeps the values it was loaded with.             *)
(***************************************************************************)
Load(p) ==
    /\ pc[p] = "load"
    /\ LoopFree
    /\ seen' = [seen EXCEPT ![p] =
                  [s \in Slots |->
                     IF s \in Touches(p) /\ ~@[s].exists THEN row[s] ELSE @[s]]]
    /\ pc' = [pc EXCEPT ![p] = "save"]
    /\ UNCHANGED <<now, db, file, plan, todo, snap, seenExpose, ghost>>

\* apply_changes without the stop reason of a manual stop.
WantedUnreasoned(p, s) ==
    [exists |-> TRUE,
     is_stopped |-> plan[p][s] = "stop",
     stop_reason |-> IF plan[p][s] # "stop" THEN "none" ELSE "schedule"]

\* The row apply_changes wants.
Wanted(p, s) ==
    [exists |-> TRUE,
     is_stopped |-> plan[p][s] = "stop",
     stop_reason |-> IF plan[p][s] # "stop" THEN "none"
                     ELSE IF p = Worker THEN "schedule" ELSE "manual"]

\* The session writes a column only if it differs from the loaded value.
Flushed(p, s) ==
    IF ~seen[p][s].exists
    THEN Wanted(p, s)
    ELSE [exists |-> row[s].exists,
          is_stopped |-> IF Wanted(p, s).is_stopped = seen[p][s].is_stopped
                         THEN row[s].is_stopped ELSE Wanted(p, s).is_stopped,
          stop_reason |-> IF Wanted(p, s).stop_reason = seen[p][s].stop_reason
                          THEN row[s].stop_reason ELSE Wanted(p, s).stop_reason]

\* INSERT of a row another session inserted first: the unique constraint
\* (app_id, env) refuses it and the whole transaction is rolled back.
InsertConflict(p) ==
    \E s \in Touches(p) : ~seen[p][s].exists /\ row[s].exists

\* The audit and event records are flushed with the rows, then committed.
SaveScale(p) ==
    LET clean == Touches(p) \ overlap[p]
    IN  /\ pc[p] = "save" /\ ScaleOp(p)
        /\ LoopFree
        /\ IF InsertConflict(p)
           THEN /\ driftR' = driftR \cup DriftOf(p, {})
                /\ UNCHANGED <<row, held>>
           ELSE /\ row' = [s \in Slots |-> IF s \in Touches(p)
                                           THEN Flushed(p, s) ELSE row[s]]
                /\ held' = IF p = Worker THEN held
                           ELSE {s \in Slots :
                                   \/ s \in held /\ plan[p][s] # "resume"
                                   \/ plan[p][s] = "stop"}
                /\ driftR' = (driftR \ {s \in clean : p = Worker => s \notin held})
                                \cup overlap[p]
        /\ driftI' = driftI \cup {s[1] : s \in overlap[p]}
        /\ Ends(p)
        /\ UNCHANGED <<now, exposed, file>>

\* update_expose commits the column (or, for a rollback, only the audit
\* record) once every file is pushed.
SaveOther(p) ==
    /\ pc[p] = "save" /\ ~ScaleOp(p)
    /\ LoopFree
    /\ exposed' = [a \in Apps |->
          IF /\ plan[p][<<a, "dev">>] \in {"show", "hide"}
             /\ (plan[p][<<a, "dev">>] = "show") # seenExpose[p]
          THEN plan[p][<<a, "dev">>] = "show" ELSE exposed[a]]
    /\ driftI' = (driftI \ IF ExposeOp(p) /\ overlap[p] = {}
                           THEN {s[1] : s \in Touches(p)} ELSE {})
                    \cup {s[1] : s \in overlap[p]}
    /\ driftR' = driftR \cup overlap[p]
    /\ Ends(p)
    /\ UNCHANGED <<now, row, file, held>>

(***************************************************************************)
(* The process stops (deployment, crash, database outage) and restarts:    *)
(* every operation in flight is lost where it stands.                      *)
(***************************************************************************)
Restart ==
    /\ \E p \in Procs : pc[p] # "idle"
    /\ pc' = [p \in Procs |-> "idle"]
    /\ plan' = [p \in Procs |-> Keep]
    /\ todo' = [p \in Procs |-> {}]
    /\ snap' = [p \in Procs |-> NoFiles]
    /\ seen' = [p \in Procs |-> NoRows]
    /\ seenExpose' = [p \in Procs |-> FALSE]
    /\ overlap' = [p \in Procs |-> {}]
    /\ driftR' = driftR \cup
         UNION {IF ScaleOp(p) THEN DriftOf(p, {}) ELSE overlap[p] : p \in Procs}
    /\ driftI' = driftI \cup
         {s[1] : s \in UNION {IF ExposeOp(p) THEN DriftOf(p, {}) ELSE overlap[p]
                              : p \in Procs}}
    /\ UNCHANGED <<now, db, file, held>>

Step(p) == PushRead(p) \/ PushCommit(p) \/ PushFails(p) \/ Load(p)
             \/ SaveScale(p) \/ SaveOther(p)

Next ==
    \/ Tick
    \/ \E r \in Requests : RequestBegins(r)
    \/ WorkerBegins
    \/ \E p \in Procs : Step(p)
    \/ Restart

Spec == Init /\ [][Next]_vars

(***************************************************************************)
(* Fairness of the worker: the event loop runs every ready coroutine, the  *)
(* worker retries every cycle, and neither GitLab's refusals nor restarts  *)
(* hit every single attempt.  Requests in flight run to their end.         *)
(***************************************************************************)
FairSpec ==
    /\ Spec
    /\ SF_vars(WorkerBegins)
    /\ SF_vars(PushRead(Worker))
    /\ SF_vars(PushCommit(Worker))
    /\ SF_vars(Load(Worker))
    /\ SF_vars(SaveScale(Worker))
    /\ \A r \in Requests : WF_vars(Step(r))

-----------------------------------------------------------------------------
\* Type correctness of the rows, files and sessions.
TypeOK ==
    /\ now \in Instants
    /\ row \in [Slots -> Row]
    /\ exposed \in [Apps -> BOOLEAN]
    /\ file \in [Slots -> File]
    /\ pc \in [Procs -> {"idle", "read", "commit", "load", "save"}]
    /\ plan \in [Procs -> [Slots -> AllKinds \cup {"keep"}]]
    /\ todo \in [Procs -> SUBSET Slots]
    /\ snap \in [Procs -> [Slots -> File]]
    /\ seen \in [Procs -> [Slots -> Row]]
    /\ seenExpose \in [Procs -> BOOLEAN]
    /\ overlap \in [Procs -> SUBSET Slots]
    /\ driftR \subseteq Slots
    /\ driftI \subseteq Apps
    /\ held \subseteq Slots

\* No operation in flight acts on the slot.
Quiet(s) == \A p \in Procs : s \notin Touches(p)

(***************************************************************************)
(* What ArgoCD deploys and what the console shows agree: on a quiet slot   *)
(* the replicas override is 0 exactly when the row says stopped, unless an *)
(* operation on it was cut short after its push or overlapped another one  *)
(* on the same slot and no complete operation has been run since.  Batches *)
(* over other applications and concurrent operations on other environments *)
(* never disturb it.                                                       *)
(***************************************************************************)
ReplicasAgree ==
    \A s \in Slots \ driftR :
        Quiet(s) => (file[s].replicas = "zero" <=> row[s].is_stopped)

(***************************************************************************)
(* A completed manual Stop stays in force: the row keeps saying stopped by *)
(* hand until a manual Resume completes, across any number of nights and   *)
(* mornings of the worker, unless an operation overlapped or was cut short *)
(* on that very slot.                                                      *)
(***************************************************************************)
ManualStopStays ==
    \A s \in held \ driftR : row[s].is_stopped /\ row[s].stop_reason = "manual"

(***************************************************************************)
(* The ingress of both files follows the expose column under the same      *)
(* conditions, although the same files are rewritten as a whole by the     *)
(* replica batches and by rollbacks.                                       *)
(***************************************************************************)
IngressAgrees ==
    \A a \in Apps \ driftI :
        (\A e \in Envs : Quiet(<<a, e>>)) =>
            \A e \in Envs : file[<<a, e>>].ingress = exposed[a]

(***************************************************************************)
(* A row says why it is stopped exactly when it is stopped; only sessions  *)
(* that overlap on the row can tear its two columns apart.                 *)
(***************************************************************************)
RowNotTorn ==
    \A s \in Slots \ driftR : row[s].is_stopped <=> row[s].stop_reason # "none"

(***************************************************************************)
(* The nightly schedule is carried out in the end: if it stays night, every*)
(* managed application's dev row is stopped again and again, whatever      *)
(* manual requests, failed pushes and restarts happen meanwhile.           *)
(***************************************************************************)
NightStops ==
    <>[]DevStopDesired =>
        \A a \in Managed : []<>(row[<<a, "dev">>].is_stopped)

\* And if it stays day, no scheduled stop lasts.
DayResumes ==
    <>[]~DevStopDesired =>
        \A a \in Managed : []<>~(/\ row[<<a, "dev">>].is_stopped
                                 /\ row[<<a, "dev">>].stop_reason = "schedule")

-----------------------------------------------------------------------------
(***************************************************************************)
(* The inductive strengthening of ReplicasAgree, ManualStopStays,          *)
(* RowNotTorn and IngressAgrees, proved in ScaleControlProofs.             *)
(***************************************************************************)

\* The bookkeeping of an operation follows its plan and its progress.
OperationShape ==
    \A p \in Procs :
        /\ pc[p] = "idle" => plan[p] = Keep /\ seen[p] = NoRows
        /\ todo[p] \subseteq Touches(p)
        /\ overlap[p] \subseteq Touches(p)
        /\ pc[p] \in {"load", "save"} => todo[p] = {}
        /\ pc[p] = "load" => ScaleOp(p)
        /\ ScaleOp(p) => \A s \in Touches(p) : plan[p][s] \in {"stop", "resume"}

\* Two operations on one slot know of each other.
OverlapsKnown ==
    \A p, q \in Procs : p # q => Touches(p) \cap Touches(q) \subseteq overlap[p]

\* Alone on a slot, an operation pushes back what is still in the file.
SnapshotsFresh ==
    \A p \in Procs : \A s \in Batch(p) \ overlap[p] :
        pc[p] = "commit" => snap[p][s] = file[s]

\* A Stop, Resume or tick alone on a slot it has pushed finds its override.
PushesLanded ==
    \A p \in Procs : \A s \in Touches(p) \ (todo[p] \cup overlap[p]) :
        /\ plan[p][s] = "stop" => file[s].replicas = "zero"
        /\ plan[p][s] = "resume" => file[s].replicas = "default"

\* Alone on a slot, the session holds the row as it is in the database.
RowsFresh ==
    \A p \in Procs : \A s \in Touches(p) \ overlap[p] :
        IF p = Worker \/ (ScaleOp(p) /\ pc[p] = "save")
        THEN seen[p][s] = row[s]
        ELSE ~seen[p][s].exists

\* Alone on a slot, what the tick decided from is still so.
WorkerPlanCurrent ==
    \A s \in Touches(Worker) \ overlap[Worker] :
        /\ plan[Worker][s] = "stop" => ~row[s].is_stopped
        /\ plan[Worker][s] = "resume" => row[s].stop_reason = "schedule"

\* Before the push of a Stop, Resume or tick lands, file and row agree.
SettledAgree ==
    \A s \in Slots \ driftR :
        (\A p \in Procs : /\ s \notin overlap[p]
                          /\ plan[p][s] \in {"stop", "resume"} => s \in todo[p])
        => (file[s].replicas = "zero" <=> row[s].is_stopped)

\* A toggle shows, or hides, both environments of one application.
TogglesOneApp ==
    \A p \in Procs : ExposeOp(p) =>
        \E a \in Apps, k \in {"show", "hide"} :
            \A s \in Slots : plan[p][s] = IF s[1] = a THEN k ELSE "keep"

\* A toggle alone on a slot it has pushed finds its ingress there.
TogglesLanded ==
    \A p \in Procs : \A s \in Touches(p) \ (todo[p] \cup overlap[p]) :
        /\ plan[p][s] = "show" => file[s].ingress = TRUE
        /\ plan[p][s] = "hide" => file[s].ingress = FALSE

\* Alone on an application, a toggle holds its expose column as committed.
ExposeFresh ==
    \A p \in Procs : \A s \in Touches(p) \ overlap[p] :
        plan[p][s] \in {"show", "hide"} => seenExpose[p] = exposed[s[1]]

\* Before the push of a toggle lands, file and column agree.
SettledIngress ==
    \A s \in Slots :
        /\ s[1] \notin driftI
        /\ \A p \in Procs : /\ s \notin overlap[p]
                            /\ plan[p][s] \in {"show", "hide"} => s \in todo[p]
        => file[s].ingress = exposed[s[1]]

\* All of it: what every step preserves.
ScaleInv ==
    /\ TypeOK
    /\ OperationShape
    /\ OverlapsKnown
    /\ SnapshotsFresh
    /\ PushesLanded
    /\ RowsFresh
    /\ WorkerPlanCurrent
    /\ SettledAgree
    /\ ManualStopStays
    /\ RowNotTorn
    /\ TogglesOneApp
    /\ TogglesLanded
    /\ ExposeFresh
    /\ SettledIngress
=============================================================================
