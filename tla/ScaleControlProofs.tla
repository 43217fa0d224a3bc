------------------------- MODULE ScaleControlProofs -------------------------
(***************************************************************************)
(* Proofs about ScaleControl, for every set of applications, requests and  *)
(* instants and every schedule configuration.                              *)
(***************************************************************************)
EXTENDS ScaleControl, OffHoursClock, TLAPS

\* The constant states of a slot have their types.
LEMMA ConstantTypes ==
    /\ NoRow \in Row
    /\ NoFiles \in [Slots -> File]
    /\ NoRows \in [Slots -> Row]
    /\ Keep \in [Slots -> AllKinds \cup {"keep"}]
    /\ Worker \in Procs
BY DEF NoRow, Row, NoFiles, File, NoRows, Keep, Procs

\* A push changes file contents to file contents.
LEMMA PatchedType ==
    ASSUME NEW c \in File, NEW k
    PROVE  Patched(c, k) \in File
BY DEF Patched, File

\* The plans of requests and ticks.
LEMMA PlanTypes ==
    /\ \A kind \in RequestKinds : \A pl \in RequestPlans(kind) :
         pl \in [Slots -> {kind, "keep"}]
    /\ ReconciliationPlan \in [Slots -> {"stop", "resume", "keep"}]
<1>1. ASSUME NEW kind \in RequestKinds, NEW pl \in RequestPlans(kind)
      PROVE  pl \in [Slots -> {kind, "keep"}]
  BY DEF RequestPlans
<1>2. ReconciliationPlan \in [Slots -> {"stop", "resume", "keep"}]
  BY DEF ReconciliationPlan
<1>. QED  BY <1>1, <1>2

LEMMA EndsType ==
    ASSUME TypeOK, NEW p \in Procs, Ends(p)
    PROVE  /\ pc' \in [Procs -> {"idle", "read", "commit", "load", "save"}]
           /\ plan' \in [Procs -> [Slots -> AllKinds \cup {"keep"}]]
           /\ todo' \in [Procs -> SUBSET Slots]
           /\ snap' \in [Procs -> [Slots -> File]]
           /\ seen' \in [Procs -> [Slots -> Row]]
           /\ seenExpose' \in [Procs -> BOOLEAN]
           /\ overlap' \in [Procs -> SUBSET Slots]
BY ConstantTypes DEF TypeOK, Ends

LEMMA BeginType ==
    ASSUME TypeOK, NEW p \in Procs, NEW pl \in [Slots -> AllKinds \cup {"keep"}],
           Begin(p, pl)
    PROVE  /\ pc' \in [Procs -> {"idle", "read", "commit", "load", "save"}]
           /\ plan' \in [Procs -> [Slots -> AllKinds \cup {"keep"}]]
           /\ todo' \in [Procs -> SUBSET Slots]
           /\ overlap' \in [Procs -> SUBSET Slots]
BY DEF TypeOK, Begin, Touches

LEMMA PushedFilesType ==
    ASSUME TypeOK, NEW p \in Procs
    PROVE  PushedFiles(p) \in [Slots -> File]
BY PatchedType DEF TypeOK, PushedFiles

(***************************************************************************)
(* Every step keeps the types.                                             *)
(***************************************************************************)
LEMMA TypeStep == TypeOK /\ [Next]_vars => TypeOK'
<1>. SUFFICES ASSUME TypeOK, [Next]_vars PROVE TypeOK'
  OBVIOUS
<1>. USE ScaleConstants
<1>1. CASE Tick
  BY <1>1 DEF Tick, TypeOK, db, ghost
<1>2. ASSUME NEW r \in Requests, RequestBegins(r)  PROVE TypeOK'
  <2>0. PICK kind \in RequestKinds : \E pl \in RequestPlans(kind) :
          /\ Begin(r, pl)
          /\ \E a \in Apps : seenExpose' = [seenExpose EXCEPT ![r] = exposed[a]]
          /\ UNCHANGED seen
    BY <1>2 DEF RequestBegins
  <2>1. PICK pl \in RequestPlans(kind) :
          /\ Begin(r, pl)
          /\ \E a \in Apps : seenExpose' = [seenExpose EXCEPT ![r] = exposed[a]]
          /\ UNCHANGED seen
    BY <2>0
  <2>2. pl \in [Slots -> AllKinds \cup {"keep"}]
    BY PlanTypes DEF AllKinds
  <2>3. r \in Procs
    BY DEF Procs
  <2>4. seenExpose' \in [Procs -> BOOLEAN]
    BY <2>1, <2>3 DEF TypeOK
  <2>. QED  BY <2>1, <2>2, <2>3, <2>4, BeginType DEF Begin, TypeOK, db
<1>3. CASE WorkerBegins
  <2>1. ReconciliationPlan \in [Slots -> AllKinds \cup {"keep"}]
    BY PlanTypes DEF AllKinds
  <2>2. seen' \in [Procs -> [Slots -> Row]]
    BY <1>3, ConstantTypes DEF WorkerBegins, TypeOK
  <2>. QED  BY <1>3, <2>1, <2>2, ConstantTypes, BeginType DEF WorkerBegins, Begin, TypeOK, db
<1>4. ASSUME NEW p \in Procs, Step(p)  PROVE TypeOK'
  <2>1. CASE PushRead(p)
    BY <2>1, ConstantTypes DEF PushRead, TypeOK, db, ghost
  <2>2. CASE PushCommit(p)
    BY <2>2, ConstantTypes, PushedFilesType DEF PushCommit, TypeOK, db, ghost
  <2>3. CASE PushFails(p)
    <3>1. file' \in [Slots -> File]
      BY <2>3, PushedFilesType DEF PushFails, TypeOK
    <3>2. driftR' \subseteq Slots /\ driftI' \subseteq Apps
      BY <2>3 DEF PushFails, TypeOK, DriftOf, Pushed, Touches, Batch, Slots
    <3>. QED  BY <2>3, <3>1, <3>2, EndsType DEF PushFails, TypeOK, db
  <2>4. CASE Load(p)
    BY <2>4 DEF Load, TypeOK, db, ghost
  <2>5. CASE SaveScale(p)
    <3>1. \A s \in Slots : Wanted(p, s) \in Row
      BY DEF Wanted, Row
    <3>2. \A s \in Slots : Flushed(p, s) \in Row
      BY <3>1 DEF Flushed, TypeOK, Row
    <3>3. row' \in [Slots -> Row]
      <4>1. CASE InsertConflict(p)
        BY <2>5, <4>1 DEF SaveScale, TypeOK
      <4>2. CASE ~InsertConflict(p)
        <5>1. row' = [s \in Slots |-> IF s \in Touches(p) THEN Flushed(p, s) ELSE row[s]]
          BY <2>5, <4>2 DEF SaveScale
        <5>. QED  BY <5>1, <3>2 DEF TypeOK
      <4>. QED  BY <4>1, <4>2
    <3>4. driftR' \subseteq Slots /\ driftI' \subseteq Apps /\ held' \subseteq Slots
      BY <2>5 DEF SaveScale, TypeOK, DriftOf, Pushed, Touches, Slots
    <3>. QED  BY <2>5, <3>3, <3>4, EndsType DEF SaveScale, TypeOK
  <2>6. CASE SaveOther(p)
    <3>1. exposed' \in [Apps -> BOOLEAN]
      BY <2>6 DEF SaveOther, TypeOK
    <3>2. driftR' \subseteq Slots /\ driftI' \subseteq Apps
      BY <2>6 DEF SaveOther, TypeOK, Touches, Slots
    <3>. QED  BY <2>6, <3>1, <3>2, EndsType DEF SaveOther, TypeOK
  <2>. QED  BY <1>4, <2>1, <2>2, <2>3, <2>4, <2>5, <2>6 DEF Step
<1>5. CASE Restart
  <2>1. driftR' \subseteq Slots
    BY <1>5 DEF Restart, TypeOK, DriftOf, Pushed, Touches
  <2>2. driftI' \subseteq Apps
    BY <1>5 DEF Restart, TypeOK, DriftOf, Pushed, Touches, Slots
  <2>. QED  BY <1>5, <2>1, <2>2, ConstantTypes DEF Restart, TypeOK, db
<1>6. CASE UNCHANGED vars
  BY <1>6 DEF vars, TypeOK
<1>. QED  BY <1>1, <1>2, <1>3, <1>4, <1>5, <1>6 DEF Next

\* The initial state has the types of TypeOK.
LEMMA TypeInit == Init => TypeOK
BY ConstantTypes, ScaleConstants DEF Init, TypeOK

(***************************************************************************)
(* Types are invariant: rows, files and the operations' session state keep *)
(* the shapes the tables and the YAML files have.                          *)
(***************************************************************************)
THEOREM ScaleTypeCorrect == Spec => []TypeOK
BY TypeInit, TypeStep, PTL DEF Spec

-----------------------------------------------------------------------------
(***************************************************************************)
(* Agreement of gitops files and rows.                                     *)
(***************************************************************************)

\* What an operation touches depends on its own plan and todo only.
LEMMA Frame ==
    ASSUME NEW q \in Procs, plan'[q] = plan[q], todo'[q] = todo[q]
    PROVE  /\ Touches(q)' = Touches(q)
           /\ ScaleOp(q)' <=> ScaleOp(q)
           /\ ExposeOp(q)' <=> ExposeOp(q)
           /\ Batch(q)' = Batch(q)
BY DEF Touches, ScaleOp, ExposeOp, Batch

\* A batch is part of what is left to push.
LEMMA BatchInTodo == \A p \in Procs : Batch(p) \subseteq todo[p]
BY DEF Batch

\* A finished operation leaves nothing behind and disturbs no other.
LEMMA EndsFrame ==
    ASSUME TypeOK, NEW p \in Procs, Ends(p)
    PROVE  /\ pc'[p] = "idle" /\ plan'[p] = Keep /\ seen'[p] = NoRows
           /\ todo'[p] = {} /\ overlap'[p] = {} /\ Touches(p)' = {}
           /\ \A q \in Procs \ {p} :
                /\ pc'[q] = pc[q] /\ plan'[q] = plan[q] /\ todo'[q] = todo[q]
                /\ snap'[q] = snap[q] /\ seen'[q] = seen[q]
                /\ overlap'[q] = overlap[q]
BY DEF TypeOK, Ends, Touches, Keep

\* So the shape of all operations survives the end of one.
LEMMA EndsShape ==
    ASSUME ScaleInv, NEW p \in Procs, Ends(p)
    PROVE  OperationShape' /\ OverlapsKnown'
<1>0. TypeOK
  BY DEF ScaleInv
<1>1. ASSUME NEW q \in Procs \ {p}
      PROVE  Touches(q)' = Touches(q) /\ (ScaleOp(q)' <=> ScaleOp(q))
  <2>1. plan'[q] = plan[q] /\ todo'[q] = todo[q]
    BY <1>0, EndsFrame
  <2>. QED  BY <2>1, Frame
<1>2. ~ScaleOp(p)'
  <2>1. plan'[p] = Keep
    BY <1>0, EndsFrame
  <2>. QED  BY <2>1 DEF ScaleOp, Keep
<1>3. OperationShape'
  BY <1>1, <1>2, EndsFrame DEF ScaleInv, OperationShape
<1>4. OverlapsKnown'
  BY <1>1, EndsFrame DEF ScaleInv, OverlapsKnown
<1>. QED  BY <1>3, <1>4

\* Alone on a slot means that nobody else touches it.
LEMMA AloneOnSlot ==
    ASSUME ScaleInv, NEW p \in Procs, NEW q \in Procs, p # q,
           NEW s \in Touches(q) \ overlap[q]
    PROVE  s \notin Touches(p) /\ s \notin Batch(p)
<1>1. s \notin Touches(p)
  BY DEF ScaleInv, OverlapsKnown
<1>. QED  BY <1>1, BatchInTodo DEF ScaleInv, OperationShape

(***************************************************************************)
(* When one operation ends, the facts about the others stay true, provided *)
(* the step left alone the slots another operation is alone on.            *)
(***************************************************************************)
LEMMA EndsOthers ==
    ASSUME ScaleInv, NEW p \in Procs, Ends(p),
           \A q \in Procs \ {p} : \A s \in Touches(q) \ overlap[q] :
               file'[s] = file[s] /\ row'[s] = row[s]
    PROVE  SnapshotsFresh' /\ PushesLanded' /\ RowsFresh' /\ WorkerPlanCurrent'
<1>0. TypeOK
  BY DEF ScaleInv
<1>1. ASSUME NEW q \in Procs \ {p}
      PROVE  /\ Touches(q)' = Touches(q) /\ (ScaleOp(q)' <=> ScaleOp(q))
             /\ Batch(q)' = Batch(q) /\ overlap'[q] = overlap[q]
             /\ pc'[q] = pc[q] /\ plan'[q] = plan[q] /\ todo'[q] = todo[q]
             /\ snap'[q] = snap[q] /\ seen'[q] = seen[q]
  <2>1. /\ overlap'[q] = overlap[q] /\ pc'[q] = pc[q] /\ plan'[q] = plan[q]
        /\ todo'[q] = todo[q] /\ snap'[q] = snap[q] /\ seen'[q] = seen[q]
    BY <1>0, EndsFrame
  <2>. QED  BY <2>1, Frame
<1>2. Touches(p)' = {} /\ pc'[p] = "idle"
  BY <1>0, EndsFrame
<1>3. SnapshotsFresh'
  <2>. SUFFICES ASSUME NEW q \in Procs, pc'[q] = "commit",
                       NEW s \in Batch(q)' \ overlap'[q]
                PROVE  snap'[q][s] = file'[s]
    BY DEF SnapshotsFresh
  <2>1. q # p
    BY <1>2
  <2>2. s \in Batch(q) \ overlap[q] /\ s \in Touches(q)
    BY <2>1, <1>1, BatchInTodo DEF ScaleInv, OperationShape
  <2>. QED  BY <2>1, <2>2, <1>1 DEF ScaleInv, SnapshotsFresh
<1>4. PushesLanded'
  <2>. SUFFICES ASSUME NEW q \in Procs,
                       NEW s \in Touches(q)' \ (todo'[q] \cup overlap'[q])
                PROVE  /\ plan'[q][s] = "stop" => file'[s].replicas = "zero"
                       /\ plan'[q][s] = "resume" => file'[s].replicas = "default"
    BY DEF PushesLanded
  <2>1. q # p
    BY <1>2
  <2>. QED  BY <2>1, <1>1 DEF ScaleInv, PushesLanded
<1>5. RowsFresh'
  <2>. SUFFICES ASSUME NEW q \in Procs, NEW s \in Touches(q)' \ overlap'[q]
                PROVE  IF q = Worker \/ (ScaleOp(q)' /\ pc'[q] = "save")
                       THEN seen'[q][s] = row'[s] ELSE ~seen'[q][s].exists
    BY DEF RowsFresh
  <2>1. q # p
    BY <1>2
  <2>. QED  BY <2>1, <1>1 DEF ScaleInv, RowsFresh
<1>6. WorkerPlanCurrent'
  <2>. SUFFICES ASSUME NEW s \in Touches(Worker)' \ overlap'[Worker]
                PROVE  /\ plan'[Worker][s] = "stop" => ~row'[s].is_stopped
                       /\ plan'[Worker][s] = "resume" => row'[s].stop_reason = "schedule"
    BY DEF WorkerPlanCurrent
  <2>1. Worker \in Procs \ {p}
    BY <1>2, ConstantTypes
  <2>. QED  BY <2>1, <1>1 DEF ScaleInv, WorkerPlanCurrent
<1>. QED  BY <1>3, <1>4, <1>5, <1>6

\* An operation begins: nothing it has not seen is claimed of it.
LEMMA BeginInv ==
    ASSUME ScaleInv, NEW p \in Procs,
           NEW pl \in [Slots -> AllKinds \cup {"keep"}],
           Begin(p, pl),
           \A s, u \in Slots :
               pl[s] \in {"stop", "resume"} => pl[u] \in {"stop", "resume", "keep"},
           \A q \in Procs \ {p} : seen'[q] = seen[q],
           \A s \in Slots : pl[s] # "keep" =>
               IF p = Worker
               THEN /\ seen'[p][s] = row[s]
                    /\ pl[s] = "stop" => ~row[s].is_stopped
                    /\ pl[s] = "resume" => row[s].stop_reason = "schedule"
               ELSE ~seen'[p][s].exists
    PROVE  /\ OperationShape' /\ OverlapsKnown' /\ SnapshotsFresh' /\ PushesLanded'
           /\ RowsFresh' /\ WorkerPlanCurrent' /\ SettledAgree'
           /\ ManualStopStays' /\ RowNotTorn'
<1>. DEFINE mine == {s \in Slots : pl[s] # "keep"}
<1>0. TypeOK
  BY DEF ScaleInv
<1>1. ASSUME NEW q \in Procs \ {p}
      PROVE  /\ Touches(q)' = Touches(q) /\ (ScaleOp(q)' <=> ScaleOp(q))
             /\ Batch(q)' = Batch(q)
             /\ overlap'[q] = overlap[q] \cup (mine \cap Touches(q))
             /\ pc'[q] = pc[q] /\ plan'[q] = plan[q] /\ todo'[q] = todo[q]
             /\ snap'[q] = snap[q] /\ seen'[q] = seen[q]
  <2>1. /\ pc'[q] = pc[q] /\ plan'[q] = plan[q] /\ todo'[q] = todo[q]
        /\ snap'[q] = snap[q] /\ seen'[q] = seen[q]
        /\ overlap'[q] = overlap[q] \cup (mine \cap Touches(q))
    BY <1>0 DEF Begin, TypeOK
  <2>. QED  BY <2>1, Frame
<1>2. /\ pc[p] = "idle" /\ pc'[p] = "read" /\ plan'[p] = pl /\ todo'[p] = mine
      /\ overlap'[p] = {s \in mine : \E o \in Procs \ {p} : s \in Touches(o)}
  BY <1>0 DEF Begin, TypeOK
<1>3. Touches(p)' = mine
  BY <1>2 DEF Touches
<1>4. UNCHANGED <<row, file, held, driftR>>
  BY DEF Begin, db
<1>5. plan[p] = Keep /\ Touches(p) = {} /\ overlap[p] = {}
  <2>1. plan[p] = Keep
    BY <1>2 DEF ScaleInv, OperationShape
  <2>2. Touches(p) = {}
    BY <2>1 DEF Touches, Keep
  <2>. QED  BY <2>1, <2>2 DEF ScaleInv, OperationShape
<1>6. OperationShape'
  <2>1. ScaleOp(p)' => \A s \in Touches(p)' : plan'[p][s] \in {"stop", "resume"}
    BY <1>2, <1>3 DEF ScaleOp
  <2>. QED  BY <1>1, <1>2, <1>3, <2>1 DEF ScaleInv, OperationShape
<1>7. OverlapsKnown'
  <2>. SUFFICES ASSUME NEW q \in Procs, NEW o \in Procs, q # o,
                       NEW s \in Touches(q)', s \in Touches(o)'
                PROVE  s \in overlap'[q]
    BY DEF OverlapsKnown
  <2>1. CASE q = p
    BY <2>1, <1>1, <1>2, <1>3
  <2>2. CASE q # p /\ o = p
    BY <2>2, <1>1, <1>3
  <2>3. CASE q # p /\ o # p
    BY <2>3, <1>1 DEF ScaleInv, OverlapsKnown
  <2>. QED  BY <2>1, <2>2, <2>3
<1>8. SnapshotsFresh'
  BY <1>1, <1>2, <1>4 DEF ScaleInv, SnapshotsFresh
<1>9. PushesLanded'
  BY <1>1, <1>2, <1>3, <1>4 DEF ScaleInv, PushesLanded
<1>10. RowsFresh'
  BY <1>1, <1>2, <1>3, <1>4 DEF ScaleInv, RowsFresh
<1>11. WorkerPlanCurrent'
  <2>1. CASE p = Worker
    BY <2>1, <1>2, <1>3, <1>4 DEF WorkerPlanCurrent
  <2>2. CASE p # Worker
    BY <2>2, <1>1, <1>4, ConstantTypes DEF ScaleInv, WorkerPlanCurrent
  <2>. QED  BY <2>1, <2>2
<1>12. SettledAgree'
  <2>. SUFFICES ASSUME NEW s \in Slots \ driftR',
                       \A q \in Procs : /\ s \notin overlap'[q]
                                        /\ plan'[q][s] \in {"stop", "resume"} => s \in todo'[q]
                PROVE  file'[s].replicas = "zero" <=> row'[s].is_stopped
    BY DEF SettledAgree
  <2>1. ASSUME NEW q \in Procs
        PROVE  /\ s \notin overlap[q]
               /\ plan[q][s] \in {"stop", "resume"} => s \in todo[q]
    BY <1>1, <1>5 DEF Keep
  <2>. QED  BY <2>1, <1>4 DEF ScaleInv, SettledAgree
<1>13. ManualStopStays' /\ RowNotTorn'
  BY <1>4 DEF ScaleInv, ManualStopStays, RowNotTorn
<1>. QED  BY <1>6, <1>7, <1>8, <1>9, <1>10, <1>11, <1>12, <1>13

\* A push reads the files: what it is alone on, it has as it is.
LEMMA PushReadInv ==
    ASSUME ScaleInv, NEW p \in Procs, PushRead(p)
    PROVE  /\ OperationShape' /\ OverlapsKnown' /\ SnapshotsFresh' /\ PushesLanded'
           /\ RowsFresh' /\ WorkerPlanCurrent' /\ SettledAgree'
           /\ ManualStopStays' /\ RowNotTorn'
<1>0. TypeOK
  BY DEF ScaleInv
<1>1. /\ UNCHANGED <<row, file, plan, todo, seen, overlap, driftR, held>>
      /\ pc[p] = "read"
      /\ pc' = [pc EXCEPT ![p] = "commit"]
  BY DEF PushRead, db, ghost
<1>2. \A q \in Procs : /\ Touches(q)' = Touches(q) /\ (ScaleOp(q)' <=> ScaleOp(q))
                       /\ Batch(q)' = Batch(q)
  BY <1>1 DEF Touches, ScaleOp, ExposeOp, Batch
<1>3. pc'[p] = "commit" /\ \A q \in Procs \ {p} : pc'[q] = pc[q] /\ snap'[q] = snap[q]
  BY <1>0, <1>1 DEF PushRead, TypeOK
<1>4. \A s \in Batch(p) : snap'[p][s] = file[s]
  <2>1. Batch(p) \subseteq Slots
    BY <1>0, BatchInTodo DEF TypeOK
  <2>. QED  BY <1>0, <2>1 DEF PushRead, TypeOK
<1>5. OperationShape' /\ OverlapsKnown'
  BY <1>1, <1>2, <1>3 DEF ScaleInv, OperationShape, OverlapsKnown
<1>6. SnapshotsFresh'
  BY <1>1, <1>2, <1>3, <1>4 DEF ScaleInv, SnapshotsFresh
<1>7. PushesLanded' /\ WorkerPlanCurrent' /\ SettledAgree'
  BY <1>1, <1>2, ConstantTypes
  DEF ScaleInv, PushesLanded, WorkerPlanCurrent, SettledAgree
<1>8. RowsFresh'
  BY <1>1, <1>2, <1>3 DEF ScaleInv, RowsFresh
<1>9. ManualStopStays' /\ RowNotTorn'
  BY <1>1 DEF ScaleInv, ManualStopStays, RowNotTorn
<1>. QED  BY <1>5, <1>6, <1>7, <1>8, <1>9

\* What the pushed files look like, slot by slot.
LEMMA PushedSlots ==
    ASSUME ScaleInv, NEW p \in Procs, pc[p] = "commit", NEW s \in Slots
    PROVE  /\ s \notin Batch(p) => PushedFiles(p)[s] = file[s]
           /\ s \in Batch(p) /\ plan[p][s] = "stop"
                => PushedFiles(p)[s].replicas = "zero"
           /\ s \in Batch(p) /\ plan[p][s] = "resume"
                => PushedFiles(p)[s].replicas = "default"
           /\ s \in Batch(p) \ overlap[p] /\ plan[p][s] \notin {"stop", "resume"}
                => PushedFiles(p)[s].replicas = file[s].replicas
<1>1. snap[p][s] \in File
  BY DEF ScaleInv, TypeOK
<1>2. s \in Batch(p) => PushedFiles(p)[s] = Patched(snap[p][s], plan[p][s])
  BY DEF PushedFiles
<1>3. s \notin Batch(p) => PushedFiles(p)[s] = file[s]
  BY DEF PushedFiles
<1>4. /\ plan[p][s] = "stop" => Patched(snap[p][s], plan[p][s]).replicas = "zero"
      /\ plan[p][s] = "resume" => Patched(snap[p][s], plan[p][s]).replicas = "default"
      /\ plan[p][s] \notin {"stop", "resume"}
           => Patched(snap[p][s], plan[p][s]).replicas = snap[p][s].replicas
  BY <1>1 DEF Patched, File
<1>5. s \in Batch(p) \ overlap[p] => snap[p][s] = file[s]
  BY DEF ScaleInv, SnapshotsFresh
<1>. QED  BY <1>2, <1>3, <1>4, <1>5

\* A push lands.
LEMMA PushCommitInv ==
    ASSUME ScaleInv, NEW p \in Procs, PushCommit(p)
    PROVE  /\ OperationShape' /\ OverlapsKnown' /\ SnapshotsFresh' /\ PushesLanded'
           /\ RowsFresh' /\ WorkerPlanCurrent' /\ SettledAgree'
           /\ ManualStopStays' /\ RowNotTorn'
<1>0. TypeOK
  BY DEF ScaleInv
<1>1. /\ UNCHANGED <<row, plan, seen, overlap, driftR, held>>
      /\ pc[p] = "commit"
      /\ file' = PushedFiles(p)
  BY DEF PushCommit, db, ghost
<1>2. \A q \in Procs : Touches(q)' = Touches(q) /\ (ScaleOp(q)' <=> ScaleOp(q))
  BY <1>1 DEF Touches, ScaleOp
<1>3. ASSUME NEW q \in Procs \ {p}
      PROVE  /\ pc'[q] = pc[q] /\ snap'[q] = snap[q] /\ todo'[q] = todo[q]
             /\ Batch(q)' = Batch(q)
  <2>1. /\ pc'[q] = pc[q] /\ snap'[q] = snap[q] /\ todo'[q] = todo[q]
        /\ plan'[q] = plan[q]
    BY <1>0, <1>1 DEF PushCommit, TypeOK
  <2>. QED  BY <2>1, Frame
<1>4. todo'[p] = todo[p] \ Batch(p)
  BY <1>0 DEF PushCommit, TypeOK
<1>5. /\ pc'[p] \in {"read", "load", "save"}
      /\ pc'[p] \in {"load", "save"} => todo'[p] = {}
      /\ pc'[p] = "load" => ScaleOp(p)
      /\ pc'[p] = "save" => ~ScaleOp(p)
  BY <1>0, <1>4 DEF PushCommit, TypeOK
<1>6. \A s \in Slots \ Batch(p) : file'[s] = file[s]
  BY <1>1, PushedSlots
<1>7. ASSUME NEW q \in Procs \ {p}, NEW s \in Touches(q) \ overlap[q]
      PROVE  file'[s] = file[s]
  <2>1. s \notin Batch(p)
    BY AloneOnSlot
  <2>2. s \in Slots
    BY DEF Touches
  <2>. QED  BY <2>1, <2>2, <1>6
<1>8. OperationShape' /\ OverlapsKnown'
  BY <1>1, <1>2, <1>3, <1>4, <1>5 DEF ScaleInv, OperationShape, OverlapsKnown
<1>9. SnapshotsFresh'
  <2>. SUFFICES ASSUME NEW q \in Procs, pc'[q] = "commit",
                       NEW s \in Batch(q)' \ overlap'[q]
                PROVE  snap'[q][s] = file'[s]
    BY DEF SnapshotsFresh
  <2>1. q # p
    BY <1>5
  <2>2. s \in Touches(q) \ overlap[q] /\ s \in Batch(q)
    BY <2>1, <1>1, <1>3, BatchInTodo DEF ScaleInv, OperationShape
  <2>. QED  BY <2>1, <2>2, <1>1, <1>3, <1>7 DEF ScaleInv, SnapshotsFresh
<1>10. PushesLanded'
  <2>. SUFFICES ASSUME NEW q \in Procs,
                       NEW s \in Touches(q) \ (todo'[q] \cup overlap[q])
                PROVE  /\ plan[q][s] = "stop" => file'[s].replicas = "zero"
                       /\ plan[q][s] = "resume" => file'[s].replicas = "default"
    BY <1>1, <1>2 DEF PushesLanded
  <2>0. s \in Slots
    BY DEF Touches
  <2>1. CASE q # p
    BY <2>1, <1>3, <1>7 DEF ScaleInv, PushesLanded
  <2>2. CASE q = p /\ s \in Batch(p)
    BY <2>0, <2>2, <1>1, PushedSlots
  <2>3. CASE q = p /\ s \notin Batch(p)
    BY <2>0, <2>3, <1>4, <1>6 DEF ScaleInv, PushesLanded
  <2>. QED  BY <2>1, <2>2, <2>3
<1>11. RowsFresh'
  BY <1>1, <1>2, <1>3, <1>5 DEF ScaleInv, RowsFresh
<1>12. WorkerPlanCurrent'
  BY <1>1, <1>2, ConstantTypes DEF ScaleInv, WorkerPlanCurrent
<1>13. SettledAgree'
  <2>. SUFFICES ASSUME NEW s \in Slots \ driftR,
                       \A q \in Procs : /\ s \notin overlap[q]
                                        /\ plan[q][s] \in {"stop", "resume"} => s \in todo'[q]
                PROVE  file'[s].replicas = "zero" <=> row[s].is_stopped
    BY <1>1 DEF SettledAgree
  <2>1. file'[s].replicas = file[s].replicas
    <3>1. CASE s \notin Batch(p)
      BY <3>1, <1>6
    <3>2. CASE s \in Batch(p)
      BY <3>2, <1>1, <1>4, PushedSlots
    <3>. QED  BY <3>1, <3>2
  <2>2. \A q \in Procs : plan[q][s] \in {"stop", "resume"} => s \in todo[q]
    BY <1>3, <1>4
  <2>. QED  BY <2>1, <2>2 DEF ScaleInv, SettledAgree
<1>14. ManualStopStays' /\ RowNotTorn'
  BY <1>1 DEF ScaleInv, ManualStopStays, RowNotTorn
<1>. QED  BY <1>8, <1>9, <1>10, <1>11, <1>12, <1>13, <1>14

\* A push fails, landed or not: its slots count as drifted from then on.
LEMMA PushFailsInv ==
    ASSUME ScaleInv, NEW p \in Procs, PushFails(p)
    PROVE  /\ OperationShape' /\ OverlapsKnown' /\ SnapshotsFresh' /\ PushesLanded'
           /\ RowsFresh' /\ WorkerPlanCurrent' /\ SettledAgree'
           /\ ManualStopStays' /\ RowNotTorn'
<1>0. TypeOK
  BY DEF ScaleInv
<1>1. pc[p] = "commit" /\ Ends(p) /\ UNCHANGED <<row, held>>
  BY DEF PushFails, db
<1>2. PICK landed \in {{}, Batch(p)} :
        /\ file' = IF landed = {} THEN file ELSE PushedFiles(p)
        /\ driftR' = driftR \cup (IF ScaleOp(p) THEN DriftOf(p, landed) ELSE overlap[p])
  BY DEF PushFails
<1>3. \A s \in Slots \ landed : file'[s] = file[s]
  BY <1>1, <1>2, PushedSlots
<1>4. ASSUME NEW q \in Procs \ {p}, NEW s \in Touches(q) \ overlap[q]
      PROVE  file'[s] = file[s] /\ row'[s] = row[s]
  <2>1. s \notin Batch(p)
    BY AloneOnSlot
  <2>2. s \in Slots
    BY DEF Touches
  <2>. QED  BY <2>1, <2>2, <1>1, <1>2, <1>3
<1>5. OperationShape' /\ OverlapsKnown'
  BY <1>1, EndsShape
<1>6. SnapshotsFresh' /\ PushesLanded' /\ RowsFresh' /\ WorkerPlanCurrent'
  BY <1>1, <1>4, EndsOthers
<1>7. driftR \subseteq driftR' /\ overlap[p] \subseteq driftR'
  BY <1>2 DEF DriftOf
<1>8. SettledAgree'
  <2>. SUFFICES ASSUME NEW s \in Slots \ driftR',
                       \A q \in Procs : /\ s \notin overlap'[q]
                                        /\ plan'[q][s] \in {"stop", "resume"} => s \in todo'[q]
                PROVE  file'[s].replicas = "zero" <=> row'[s].is_stopped
    BY DEF SettledAgree
  <2>1. s \notin driftR /\ s \notin overlap[p]
    BY <1>7
  <2>2. ASSUME plan[p][s] \in {"stop", "resume"}
        PROVE  s \in todo[p] \ landed
    <3>1. ScaleOp(p) /\ s \in Touches(p)
      BY <2>2 DEF ScaleOp, Touches
    <3>. QED  BY <3>1, <1>2 DEF DriftOf, Pushed
  <2>3. file'[s].replicas = file[s].replicas
    <3>1. CASE s \notin landed
      BY <3>1, <1>3
    <3>2. CASE s \in landed
      BY <3>2, <2>1, <2>2, <1>1, <1>2, PushedSlots
    <3>. QED  BY <3>1, <3>2
  <2>4. ASSUME NEW q \in Procs
        PROVE  /\ s \notin overlap[q]
               /\ plan[q][s] \in {"stop", "resume"} => s \in todo[q]
    <3>1. CASE q = p
      BY <3>1, <2>1, <2>2
    <3>2. CASE q # p
      BY <3>2, <1>0, <1>1, EndsFrame
    <3>. QED  BY <3>1, <3>2
  <2>. QED  BY <2>1, <2>3, <2>4, <1>1 DEF ScaleInv, SettledAgree
<1>9. ManualStopStays' /\ RowNotTorn'
  BY <1>1, <1>7 DEF ScaleInv, ManualStopStays, RowNotTorn
<1>. QED  BY <1>5, <1>6, <1>8, <1>9

\* The rows are loaded after the push.
LEMMA LoadInv ==
    ASSUME ScaleInv, NEW p \in Procs, Load(p)
    PROVE  /\ OperationShape' /\ OverlapsKnown' /\ SnapshotsFresh' /\ PushesLanded'
           /\ RowsFresh' /\ WorkerPlanCurrent' /\ SettledAgree'
           /\ ManualStopStays' /\ RowNotTorn'
<1>0. TypeOK
  BY DEF ScaleInv
<1>1. /\ UNCHANGED <<row, file, plan, todo, snap, overlap, driftR, held>>
      /\ pc[p] = "load"
      /\ pc' = [pc EXCEPT ![p] = "save"]
  BY DEF Load, db, ghost
<1>2. \A q \in Procs : /\ Touches(q)' = Touches(q) /\ (ScaleOp(q)' <=> ScaleOp(q))
                       /\ Batch(q)' = Batch(q)
  BY <1>1 DEF Touches, ScaleOp, ExposeOp, Batch
<1>3. pc'[p] = "save" /\ \A q \in Procs \ {p} : pc'[q] = pc[q] /\ seen'[q] = seen[q]
  BY <1>0, <1>1 DEF Load, TypeOK
<1>4. \A s \in Touches(p) : seen'[p][s] = IF seen[p][s].exists THEN seen[p][s] ELSE row[s]
  BY <1>0 DEF Load, TypeOK, Touches
<1>5. OperationShape' /\ OverlapsKnown'
  BY <1>1, <1>2, <1>3 DEF ScaleInv, OperationShape, OverlapsKnown
<1>6. SnapshotsFresh' /\ PushesLanded' /\ WorkerPlanCurrent' /\ SettledAgree'
  BY <1>1, <1>2, <1>3, ConstantTypes
  DEF ScaleInv, SnapshotsFresh, PushesLanded, WorkerPlanCurrent, SettledAgree
<1>7. RowsFresh'
  <2>1. ASSUME NEW s \in Touches(p) \ overlap[p]
        PROVE  seen'[p][s] = row[s]
    BY <1>1, <1>4 DEF ScaleInv, RowsFresh
  <2>2. ScaleOp(p)
    BY <1>1 DEF ScaleInv, OperationShape
  <2>. QED  BY <2>1, <2>2, <1>1, <1>2, <1>3 DEF ScaleInv, RowsFresh
<1>8. ManualStopStays' /\ RowNotTorn'
  BY <1>1 DEF ScaleInv, ManualStopStays, RowNotTorn
<1>. QED  BY <1>5, <1>6, <1>7, <1>8

\* The expose column or the audit record of a rollback is committed.
LEMMA SaveOtherInv ==
    ASSUME ScaleInv, NEW p \in Procs, SaveOther(p)
    PROVE  /\ OperationShape' /\ OverlapsKnown' /\ SnapshotsFresh' /\ PushesLanded'
           /\ RowsFresh' /\ WorkerPlanCurrent' /\ SettledAgree'
           /\ ManualStopStays' /\ RowNotTorn'
<1>0. TypeOK
  BY DEF ScaleInv
<1>1. /\ UNCHANGED <<row, file, held>> /\ Ends(p) /\ ~ScaleOp(p)
      /\ driftR' = driftR \cup overlap[p]
  BY DEF SaveOther
<1>2. OperationShape' /\ OverlapsKnown'
  BY <1>1, EndsShape
<1>3. SnapshotsFresh' /\ PushesLanded' /\ RowsFresh' /\ WorkerPlanCurrent'
  BY <1>1, EndsOthers
<1>4. SettledAgree'
  <2>. SUFFICES ASSUME NEW s \in Slots \ driftR',
                       \A q \in Procs : /\ s \notin overlap'[q]
                                        /\ plan'[q][s] \in {"stop", "resume"} => s \in todo'[q]
                PROVE  file[s].replicas = "zero" <=> row[s].is_stopped
    BY <1>1 DEF SettledAgree
  <2>1. ASSUME NEW q \in Procs
        PROVE  /\ s \notin overlap[q]
               /\ plan[q][s] \in {"stop", "resume"} => s \in todo[q]
    <3>1. CASE q = p
      BY <3>1, <1>1 DEF ScaleOp
    <3>2. CASE q # p
      BY <3>2, <1>0, <1>1, EndsFrame
    <3>. QED  BY <3>1, <3>2
  <2>. QED  BY <2>1, <1>1 DEF ScaleInv, SettledAgree
<1>5. ManualStopStays' /\ RowNotTorn'
  BY <1>1 DEF ScaleInv, ManualStopStays, RowNotTorn
<1>. QED  BY <1>2, <1>3, <1>4, <1>5

\* A restart drops every operation and counts what it cut short as drifted.
LEMMA RestartInv ==
    ASSUME ScaleInv, Restart
    PROVE  /\ OperationShape' /\ OverlapsKnown' /\ SnapshotsFresh' /\ PushesLanded'
           /\ RowsFresh' /\ WorkerPlanCurrent' /\ SettledAgree'
           /\ ManualStopStays' /\ RowNotTorn'
<1>0. TypeOK
  BY DEF ScaleInv
<1>1. /\ UNCHANGED <<row, file, held>>
      /\ \A p \in Procs : /\ pc'[p] = "idle" /\ plan'[p] = Keep /\ seen'[p] = NoRows
                           /\ todo'[p] = {} /\ overlap'[p] = {}
  BY DEF Restart, db
<1>2. \A p \in Procs : Touches(p)' = {} /\ ~ScaleOp(p)' /\ Batch(p)' = {}
  BY <1>1 DEF Touches, ScaleOp, Batch, Keep
<1>3. driftR \subseteq driftR' /\ \A p \in Procs :
        (IF ScaleOp(p) THEN DriftOf(p, {}) ELSE overlap[p]) \subseteq driftR'
  BY DEF Restart
<1>4. OperationShape' /\ OverlapsKnown' /\ SnapshotsFresh' /\ PushesLanded'
        /\ RowsFresh' /\ WorkerPlanCurrent'
  BY <1>1, <1>2, ConstantTypes
  DEF OperationShape, OverlapsKnown, SnapshotsFresh, PushesLanded, RowsFresh,
      WorkerPlanCurrent
<1>5. SettledAgree'
  <2>. SUFFICES ASSUME NEW s \in Slots \ driftR'
                PROVE  file[s].replicas = "zero" <=> row[s].is_stopped
    BY <1>1 DEF SettledAgree
  <2>1. ASSUME NEW q \in Procs
        PROVE  /\ s \notin overlap[q]
               /\ plan[q][s] \in {"stop", "resume"} => s \in todo[q]
    <3>1. s \notin overlap[q]
      BY <1>3 DEF DriftOf
    <3>2. ASSUME plan[q][s] \in {"stop", "resume"}  PROVE s \in todo[q]
      <4>1. ScaleOp(q) /\ s \in Touches(q)
        BY <3>2 DEF ScaleOp, Touches
      <4>. QED  BY <4>1, <1>3 DEF DriftOf, Pushed
    <3>. QED  BY <3>1, <3>2
  <2>. QED  BY <2>1, <1>3 DEF ScaleInv, SettledAgree
<1>6. ManualStopStays' /\ RowNotTorn'
  BY <1>1, <1>3 DEF ScaleInv, ManualStopStays, RowNotTorn
<1>. QED  BY <1>4, <1>5, <1>6

\* Alone on a slot, the session writes the row it wants as a whole.
LEMMA FlushedWhole ==
    ASSUME ScaleInv, NEW p \in Procs, ScaleOp(p), pc[p] = "save",
           NEW s \in Touches(p) \ overlap[p]
    PROVE  Flushed(p, s) = Wanted(p, s)
<1>1. seen[p][s] = row[s]
  BY DEF ScaleInv, RowsFresh
<1>2. row[s] \in Row
  BY DEF ScaleInv, TypeOK, Touches
<1>. QED  BY <1>1, <1>2 DEF Flushed, Wanted, Row

\* What the wanted row says.
LEMMA WantedFields ==
    ASSUME NEW p, NEW s
    PROVE  /\ Wanted(p, s).is_stopped <=> plan[p][s] = "stop"
           /\ Wanted(p, s).stop_reason # "none" <=> plan[p][s] = "stop"
           /\ p # Worker /\ plan[p][s] = "stop" => Wanted(p, s).stop_reason = "manual"
BY DEF Wanted

\* The rows of a Stop, a Resume or a tick are committed, or refused.
LEMMA SaveScaleInv ==
    ASSUME ScaleInv, NEW p \in Procs, SaveScale(p)
    PROVE  /\ OperationShape' /\ OverlapsKnown' /\ SnapshotsFresh' /\ PushesLanded'
           /\ RowsFresh' /\ WorkerPlanCurrent' /\ SettledAgree'
           /\ ManualStopStays' /\ RowNotTorn'
<1>. DEFINE clean == Touches(p) \ overlap[p]
<1>0. TypeOK
  BY DEF ScaleInv
<1>1. pc[p] = "save" /\ ScaleOp(p) /\ Ends(p) /\ UNCHANGED file
  BY DEF SaveScale
<1>2. todo[p] = {} /\ overlap[p] \subseteq Touches(p)
        /\ \A s \in Touches(p) : plan[p][s] \in {"stop", "resume"}
  BY <1>1 DEF ScaleInv, OperationShape
<1>3. \A s \in Slots \ Touches(p) : row'[s] = row[s]
  <2>1. CASE InsertConflict(p)
    BY <2>1 DEF SaveScale
  <2>2. CASE ~InsertConflict(p)
    BY <2>2 DEF SaveScale
  <2>. QED  BY <2>1, <2>2
<1>4. ASSUME NEW q \in Procs \ {p}, NEW s \in Touches(q) \ overlap[q]
      PROVE  file'[s] = file[s] /\ row'[s] = row[s]
  <2>1. s \notin Touches(p)
    BY AloneOnSlot
  <2>2. s \in Slots
    BY DEF Touches
  <2>. QED  BY <2>1, <2>2, <1>1, <1>3
<1>5. OperationShape' /\ OverlapsKnown'
  BY <1>1, EndsShape
<1>6. SnapshotsFresh' /\ PushesLanded' /\ RowsFresh' /\ WorkerPlanCurrent'
  BY <1>1, <1>4, EndsOthers
<1>7. overlap[p] \subseteq driftR'
  <2>1. CASE InsertConflict(p)
    BY <2>1 DEF SaveScale, DriftOf
  <2>2. CASE ~InsertConflict(p)
    BY <2>2 DEF SaveScale
  <2>. QED  BY <2>1, <2>2
<1>8. ASSUME NEW s \in Slots \ Touches(p)
      PROVE  /\ s \in driftR' <=> s \in driftR
             /\ s \in held' <=> s \in held
  <2>0. s \notin overlap[p] /\ plan[p][s] = "keep"
    BY <1>2 DEF Touches
  <2>1. CASE InsertConflict(p)
    BY <2>0, <2>1 DEF SaveScale, DriftOf, Pushed
  <2>2. CASE ~InsertConflict(p)
    <3>1. s \in held' <=> s \in held
      BY <2>0, <2>2 DEF SaveScale
    <3>2. s \in driftR' <=> s \in driftR
      BY <2>0, <2>2 DEF SaveScale
    <3>. QED  BY <3>1, <3>2
  <2>. QED  BY <2>1, <2>2
\* A slot of the operation that does not count as drifted afterwards.
<1>9. ASSUME NEW s \in Touches(p), s \notin driftR'
      PROVE  /\ row'[s] = Wanted(p, s)
             /\ file[s].replicas = "zero" <=> plan[p][s] = "stop"
             /\ s \in held' => p # Worker /\ plan[p][s] = "stop"
  <2>0. s \in Slots
    BY DEF Touches
  <2>1. ~InsertConflict(p)
    <3>1. SUFFICES ASSUME InsertConflict(p) PROVE FALSE
      OBVIOUS
    <3>2. Touches(p) \subseteq driftR'
      BY <1>2, <3>1 DEF SaveScale, DriftOf, Pushed
    <3>. QED  BY <3>2, <1>9
  <2>2. s \in clean
    BY <1>7, <1>9
  <2>3. row'[s] = Flushed(p, s)
    BY <2>0, <2>1 DEF SaveScale
  <2>4. row'[s] = Wanted(p, s)
    BY <2>2, <2>3, <1>1, FlushedWhole
  <2>5. file[s].replicas = "zero" <=> plan[p][s] = "stop"
    BY <2>2, <1>2 DEF ScaleInv, PushesLanded
  <2>6. ASSUME p = Worker  PROVE s \notin held'
    <3>1. held' = held
      BY <2>1, <2>6 DEF SaveScale
    <3>2. driftR' = (driftR \ {u \in clean : p = Worker => u \notin held}) \cup overlap[p]
      BY <2>1 DEF SaveScale
    <3>3. SUFFICES ASSUME s \in held PROVE FALSE
      BY <3>1
    <3>4. s \notin driftR
      BY <3>2, <3>3, <2>6, <1>9
    <3>5. row[s].is_stopped /\ row[s].stop_reason = "manual"
      BY <3>3, <3>4 DEF ScaleInv, ManualStopStays
    <3>6. /\ plan[p][s] = "stop" => ~row[s].is_stopped
          /\ plan[p][s] = "resume" => row[s].stop_reason = "schedule"
      BY <2>2, <2>6 DEF ScaleInv, WorkerPlanCurrent
    <3>. QED  BY <3>5, <3>6, <1>2
  <2>7. ASSUME p # Worker, s \in held'  PROVE plan[p][s] = "stop"
    <3>1. held' = {u \in Slots : \/ u \in held /\ plan[p][u] # "resume"
                                 \/ plan[p][u] = "stop"}
      BY <2>1, <2>7 DEF SaveScale
    <3>. QED  BY <3>1, <2>7, <1>2
  <2>. QED  BY <2>4, <2>5, <2>6, <2>7
<1>10. SettledAgree'
  <2>. SUFFICES ASSUME NEW s \in Slots \ driftR',
                       \A q \in Procs : /\ s \notin overlap'[q]
                                        /\ plan'[q][s] \in {"stop", "resume"} => s \in todo'[q]
                PROVE  file[s].replicas = "zero" <=> row'[s].is_stopped
    BY <1>1 DEF SettledAgree
  <2>1. CASE s \in Touches(p)
    BY <2>1, <1>9, WantedFields
  <2>2. CASE s \notin Touches(p)
    <3>1. ASSUME NEW q \in Procs
          PROVE  /\ s \notin overlap[q]
                 /\ plan[q][s] \in {"stop", "resume"} => s \in todo[q]
      <4>1. CASE q = p
        BY <4>1, <2>2, <1>2 DEF Touches
      <4>2. CASE q # p
        BY <4>2, <1>0, <1>1, EndsFrame
      <4>. QED  BY <4>1, <4>2
    <3>2. s \notin driftR /\ row'[s] = row[s]
      BY <2>2, <1>3, <1>8
    <3>. QED  BY <3>1, <3>2 DEF ScaleInv, SettledAgree
  <2>. QED  BY <2>1, <2>2
<1>11. ManualStopStays'
  <2>. SUFFICES ASSUME NEW s \in held' \ driftR'
                PROVE  row'[s].is_stopped /\ row'[s].stop_reason = "manual"
    BY DEF ManualStopStays
  <2>1. CASE s \in Touches(p)
    BY <2>1, <1>9, WantedFields
  <2>2. CASE s \notin Touches(p)
    <3>1. s \in Slots
      BY <1>0, TypeStep DEF SaveScale, TypeOK
    <3>. QED  BY <3>1, <2>2, <1>3, <1>8 DEF ScaleInv, ManualStopStays
  <2>. QED  BY <2>1, <2>2
<1>12. RowNotTorn'
  <2>. SUFFICES ASSUME NEW s \in Slots \ driftR'
                PROVE  row'[s].is_stopped <=> row'[s].stop_reason # "none"
    BY DEF RowNotTorn
  <2>1. CASE s \in Touches(p)
    BY <2>1, <1>9, WantedFields
  <2>2. CASE s \notin Touches(p)
    BY <2>2, <1>3, <1>8 DEF ScaleInv, RowNotTorn
  <2>. QED  BY <2>1, <2>2
<1>. QED  BY <1>5, <1>6, <1>10, <1>11, <1>12

-----------------------------------------------------------------------------
(***************************************************************************)
(* Agreement of the ingress flags and the expose column.                   *)
(***************************************************************************)

\* The ingress of the pushed files, slot by slot.
LEMMA PushedIngress ==
    ASSUME ScaleInv, NEW p \in Procs, pc[p] = "commit", NEW s \in Batch(p)
    PROVE  /\ plan[p][s] = "show" => PushedFiles(p)[s].ingress = TRUE
           /\ plan[p][s] = "hide" => PushedFiles(p)[s].ingress = FALSE
           /\ s \notin overlap[p] /\ plan[p][s] \notin {"show", "hide"}
                => PushedFiles(p)[s].ingress = file[s].ingress
<1>0. s \in Slots
  BY BatchInTodo DEF ScaleInv, TypeOK
<1>1. snap[p][s] \in File
  BY <1>0 DEF ScaleInv, TypeOK
<1>2. PushedFiles(p)[s] = Patched(snap[p][s], plan[p][s])
  BY <1>0 DEF PushedFiles
<1>3. /\ plan[p][s] = "show" => Patched(snap[p][s], plan[p][s]).ingress = TRUE
      /\ plan[p][s] = "hide" => Patched(snap[p][s], plan[p][s]).ingress = FALSE
      /\ plan[p][s] \notin {"show", "hide"}
           => Patched(snap[p][s], plan[p][s]).ingress = snap[p][s].ingress
  BY <1>1 DEF Patched, File
<1>4. s \notin overlap[p] => snap[p][s] = file[s]
  BY DEF ScaleInv, SnapshotsFresh
<1>. QED  BY <1>2, <1>3, <1>4

\* When one operation ends, the other toggles stand as they stood.
LEMMA EndsToggles ==
    ASSUME ScaleInv, NEW p \in Procs, Ends(p),
           \A q \in Procs \ {p} : \A s \in Touches(q) \ overlap[q] :
               /\ file'[s] = file[s]
               /\ plan[q][s] \in {"show", "hide"} => exposed'[s[1]] = exposed[s[1]]
    PROVE  TogglesOneApp' /\ TogglesLanded' /\ ExposeFresh'
<1>0. TypeOK
  BY DEF ScaleInv
<1>1. ASSUME NEW q \in Procs \ {p}
      PROVE  /\ Touches(q)' = Touches(q) /\ (ExposeOp(q)' <=> ExposeOp(q))
             /\ overlap'[q] = overlap[q] /\ plan'[q] = plan[q]
             /\ todo'[q] = todo[q] /\ seenExpose'[q] = seenExpose[q]
  <2>1. overlap'[q] = overlap[q] /\ plan'[q] = plan[q] /\ todo'[q] = todo[q]
    BY <1>0, EndsFrame
  <2>2. seenExpose'[q] = seenExpose[q]
    BY <1>0 DEF Ends, TypeOK
  <2>. QED  BY <2>1, <2>2, Frame
<1>2. Touches(p)' = {} /\ ~ExposeOp(p)'
  <2>1. plan'[p] = Keep /\ Touches(p)' = {}
    BY <1>0, EndsFrame
  <2>. QED  BY <2>1 DEF ExposeOp, Keep
<1>3. TogglesOneApp'
  BY <1>1, <1>2 DEF ScaleInv, TogglesOneApp
<1>4. TogglesLanded'
  <2>. SUFFICES ASSUME NEW q \in Procs,
                       NEW s \in Touches(q)' \ (todo'[q] \cup overlap'[q])
                PROVE  /\ plan'[q][s] = "show" => file'[s].ingress = TRUE
                       /\ plan'[q][s] = "hide" => file'[s].ingress = FALSE
    BY DEF TogglesLanded
  <2>1. q # p
    BY <1>2
  <2>. QED  BY <2>1, <1>1 DEF ScaleInv, TogglesLanded
<1>5. ExposeFresh'
  <2>. SUFFICES ASSUME NEW q \in Procs, NEW s \in Touches(q)' \ overlap'[q],
                       plan'[q][s] \in {"show", "hide"}
                PROVE  seenExpose'[q] = exposed'[s[1]]
    BY DEF ExposeFresh
  <2>1. q # p
    BY <1>2
  <2>. QED  BY <2>1, <1>1 DEF ScaleInv, ExposeFresh
<1>. QED  BY <1>3, <1>4, <1>5

(***************************************************************************)
(* When one operation ends, file and column still agree on every slot the  *)
(* operation left as it was, or made agree.                                *)
(***************************************************************************)
LEMMA EndsIngress ==
    ASSUME ScaleInv, NEW p \in Procs, Ends(p),
           \A s \in Slots : s[1] \notin driftI' =>
               \/ file'[s].ingress = exposed'[s[1]]
               \/ /\ s[1] \notin driftI /\ s \notin overlap[p]
                  /\ plan[p][s] \in {"show", "hide"} => s \in todo[p]
                  /\ file'[s].ingress = file[s].ingress
                  /\ exposed'[s[1]] = exposed[s[1]]
    PROVE  SettledIngress'
<1>. SUFFICES ASSUME NEW s \in Slots, s[1] \notin driftI',
                     \A q \in Procs : /\ s \notin overlap'[q]
                                      /\ plan'[q][s] \in {"show", "hide"} => s \in todo'[q],
                     s[1] \notin driftI, s \notin overlap[p],
                     plan[p][s] \in {"show", "hide"} => s \in todo[p]
              PROVE  file[s].ingress = exposed[s[1]]
  BY DEF SettledIngress
<1>0. TypeOK
  BY DEF ScaleInv
<1>1. ASSUME NEW q \in Procs
      PROVE  /\ s \notin overlap[q]
             /\ plan[q][s] \in {"show", "hide"} => s \in todo[q]
  <2>1. CASE q = p
    BY <2>1
  <2>2. CASE q # p
    BY <2>2, <1>0, EndsFrame
  <2>. QED  BY <2>1, <2>2
<1>. QED  BY <1>1 DEF ScaleInv, SettledIngress

\* An operation begins: a toggle holds the column of its application.
LEMMA BeginIngress ==
    ASSUME ScaleInv, NEW p \in Procs,
           NEW pl \in [Slots -> AllKinds \cup {"keep"}],
           Begin(p, pl),
           (\E s \in Slots : pl[s] \in {"show", "hide"}) =>
               \E a \in Apps, k \in {"show", "hide"} :
                   /\ \A s \in Slots : pl[s] = IF s[1] = a THEN k ELSE "keep"
                   /\ seenExpose'[p] = exposed[a],
           \A q \in Procs \ {p} : seenExpose'[q] = seenExpose[q]
    PROVE  TogglesOneApp' /\ TogglesLanded' /\ ExposeFresh' /\ SettledIngress'
<1>. DEFINE mine == {s \in Slots : pl[s] # "keep"}
<1>0. TypeOK
  BY DEF ScaleInv
<1>1. ASSUME NEW q \in Procs \ {p}
      PROVE  /\ Touches(q)' = Touches(q) /\ (ExposeOp(q)' <=> ExposeOp(q))
             /\ overlap[q] \subseteq overlap'[q]
             /\ plan'[q] = plan[q] /\ todo'[q] = todo[q]
  <2>1. plan'[q] = plan[q] /\ todo'[q] = todo[q] /\ overlap[q] \subseteq overlap'[q]
    BY <1>0 DEF Begin, TypeOK
  <2>. QED  BY <2>1, Frame
<1>2. pc[p] = "idle" /\ plan'[p] = pl /\ todo'[p] = mine
  BY <1>0 DEF Begin, TypeOK
<1>3. Touches(p)' = mine /\ (ExposeOp(p)' <=> \E s \in Slots : pl[s] \in {"show", "hide"})
  BY <1>2 DEF Touches, ExposeOp
<1>4. UNCHANGED <<exposed, file, driftI>>
  BY DEF Begin, db
<1>5. plan[p] = Keep /\ overlap[p] = {}
  <2>1. plan[p] = Keep
    BY <1>2 DEF ScaleInv, OperationShape
  <2>2. Touches(p) = {}
    BY <2>1 DEF Touches, Keep
  <2>. QED  BY <2>1, <2>2 DEF ScaleInv, OperationShape
<1>6. TogglesOneApp'
  <2>. SUFFICES ASSUME NEW q \in Procs, ExposeOp(q)'
                PROVE  \E a \in Apps, k \in {"show", "hide"} :
                         \A s \in Slots : plan'[q][s] = IF s[1] = a THEN k ELSE "keep"
    BY DEF TogglesOneApp
  <2>1. CASE q = p
    BY <2>1, <1>2, <1>3
  <2>2. CASE q # p
    BY <2>2, <1>1 DEF ScaleInv, TogglesOneApp
  <2>. QED  BY <2>1, <2>2
<1>7. TogglesLanded'
  BY <1>1, <1>2, <1>3, <1>4 DEF ScaleInv, TogglesLanded
<1>8. ExposeFresh'
  <2>. SUFFICES ASSUME NEW q \in Procs, NEW s \in Touches(q)' \ overlap'[q],
                       plan'[q][s] \in {"show", "hide"}
                PROVE  seenExpose'[q] = exposed[s[1]]
    BY <1>4 DEF ExposeFresh
  <2>1. CASE q = p
    <3>1. s \in Slots /\ pl[s] \in {"show", "hide"}
      BY <2>1, <1>2, <1>3
    <3>. QED  BY <2>1, <3>1
  <2>2. CASE q # p
    BY <2>2, <1>1 DEF ScaleInv, ExposeFresh
  <2>. QED  BY <2>1, <2>2
<1>9. SettledIngress'
  <2>. SUFFICES ASSUME NEW s \in Slots, s[1] \notin driftI',
                       \A q \in Procs : /\ s \notin overlap'[q]
                                        /\ plan'[q][s] \in {"show", "hide"} => s \in todo'[q]
                PROVE  file'[s].ingress = exposed'[s[1]]
    BY DEF SettledIngress
  <2>1. ASSUME NEW q \in Procs
        PROVE  /\ s \notin overlap[q]
               /\ plan[q][s] \in {"show", "hide"} => s \in todo[q]
    BY <1>1, <1>5 DEF Keep
  <2>. QED  BY <2>1, <1>4 DEF ScaleInv, SettledIngress
<1>. QED  BY <1>6, <1>7, <1>8, <1>9

\* The plan of a toggle, and the application whose column its request loads.
LEMMA TogglePlans ==
    ASSUME NEW kind \in RequestKinds, NEW pl \in RequestPlans(kind),
           \E s \in Slots : pl[s] \in {"show", "hide"}
    PROVE  \E a \in Apps, k \in {"show", "hide"} :
               /\ \A s \in Slots : pl[s] = IF s[1] = a THEN k ELSE "keep"
               /\ \A b \in Apps : pl[<<b, "dev">>] # "keep" \/ pl[<<b, "prod">>] # "keep"
                                    => b = a
<1>1. kind \in {"show", "hide"}
  BY PlanTypes
<1>2. PICK a \in Apps :
        pl = [s \in Slots |-> IF s[1] = a /\ s[2] \in Envs THEN kind ELSE "keep"]
  BY <1>1 DEF RequestPlans
<1>3. \A s \in Slots : pl[s] = IF s[1] = a THEN kind ELSE "keep"
  BY <1>2 DEF Slots, Envs
<1>4. ASSUME NEW b \in Apps, pl[<<b, "dev">>] # "keep" \/ pl[<<b, "prod">>] # "keep"
      PROVE  b = a
  <2>1. <<b, "dev">> \in Slots /\ <<b, "prod">> \in Slots
    BY DEF Slots, Envs
  <2>. QED  BY <2>1, <1>3, <1>4
<1>. QED  BY <1>1, <1>3, <1>4

\* A step that leaves files, columns, plans and drift alone keeps all of it.
LEMMA IngressFrame ==
    ASSUME ScaleInv,
           UNCHANGED <<exposed, file, plan, todo, seenExpose, overlap, driftI>>
    PROVE  TogglesOneApp' /\ TogglesLanded' /\ ExposeFresh' /\ SettledIngress'
<1>1. \A q \in Procs : Touches(q)' = Touches(q) /\ (ExposeOp(q)' <=> ExposeOp(q))
  BY DEF Touches, ExposeOp
<1>2. TogglesOneApp' /\ SettledIngress'
  BY <1>1 DEF ScaleInv, TogglesOneApp, SettledIngress
<1>3. TogglesLanded' /\ ExposeFresh'
  BY <1>1 DEF ScaleInv, TogglesLanded, ExposeFresh
<1>. QED  BY <1>2, <1>3

\* A push lands: a toggle finds its ingress, any other push kept it.
LEMMA PushCommitIngress ==
    ASSUME ScaleInv, NEW p \in Procs, PushCommit(p)
    PROVE  TogglesOneApp' /\ TogglesLanded' /\ ExposeFresh' /\ SettledIngress'
<1>0. TypeOK
  BY DEF ScaleInv
<1>1. /\ UNCHANGED <<exposed, plan, seenExpose, overlap, driftI>>
      /\ pc[p] = "commit"
      /\ file' = PushedFiles(p)
      /\ todo'[p] = todo[p] \ Batch(p)
      /\ \A q \in Procs \ {p} : todo'[q] = todo[q]
  BY <1>0 DEF PushCommit, db, ghost, TypeOK
<1>2. \A q \in Procs : Touches(q)' = Touches(q) /\ (ExposeOp(q)' <=> ExposeOp(q))
  BY <1>1 DEF Touches, ExposeOp
<1>3. \A s \in Slots \ Batch(p) : file'[s] = file[s]
  BY <1>1, PushedSlots
<1>4. TogglesOneApp' /\ ExposeFresh'
  BY <1>1, <1>2 DEF ScaleInv, TogglesOneApp, ExposeFresh
<1>5. TogglesLanded'
  <2>. SUFFICES ASSUME NEW q \in Procs,
                       NEW s \in Touches(q) \ (todo'[q] \cup overlap[q])
                PROVE  /\ plan[q][s] = "show" => file'[s].ingress = TRUE
                       /\ plan[q][s] = "hide" => file'[s].ingress = FALSE
    BY <1>1, <1>2 DEF TogglesLanded
  <2>0. s \in Slots
    BY DEF Touches
  <2>1. CASE q # p
    <3>1. s \notin Batch(p)
      BY <2>1, AloneOnSlot
    <3>. QED  BY <2>0, <2>1, <3>1, <1>1, <1>3 DEF ScaleInv, TogglesLanded
  <2>2. CASE q = p /\ s \in Batch(p)
    BY <2>2, <1>1, PushedIngress
  <2>3. CASE q = p /\ s \notin Batch(p)
    BY <2>0, <2>3, <1>1, <1>3 DEF ScaleInv, TogglesLanded
  <2>. QED  BY <2>1, <2>2, <2>3
<1>6. SettledIngress'
  <2>. SUFFICES ASSUME NEW s \in Slots, s[1] \notin driftI,
                       \A q \in Procs : /\ s \notin overlap[q]
                                        /\ plan[q][s] \in {"show", "hide"} => s \in todo'[q]
                PROVE  file'[s].ingress = exposed[s[1]]
    BY <1>1 DEF SettledIngress
  <2>1. file'[s].ingress = file[s].ingress
    <3>1. CASE s \notin Batch(p)
      BY <3>1, <1>3
    <3>2. CASE s \in Batch(p)
      BY <3>2, <1>1, PushedIngress
    <3>. QED  BY <3>1, <3>2
  <2>2. \A q \in Procs : plan[q][s] \in {"show", "hide"} => s \in todo[q]
    BY <1>1
  <2>. QED  BY <2>1, <2>2 DEF ScaleInv, SettledIngress
<1>. QED  BY <1>4, <1>5, <1>6

\* A push fails: what a toggle may have landed counts as drifted.
LEMMA PushFailsIngress ==
    ASSUME ScaleInv, NEW p \in Procs, PushFails(p)
    PROVE  TogglesOneApp' /\ TogglesLanded' /\ ExposeFresh' /\ SettledIngress'
<1>0. TypeOK
  BY DEF ScaleInv
<1>1. pc[p] = "commit" /\ Ends(p) /\ UNCHANGED exposed
  BY DEF PushFails, db
<1>2. PICK landed \in {{}, Batch(p)} :
        /\ file' = IF landed = {} THEN file ELSE PushedFiles(p)
        /\ driftI' = driftI \cup {s[1] : s \in IF ExposeOp(p) THEN DriftOf(p, landed)
                                                              ELSE overlap[p]}
  BY DEF PushFails
<1>3. \A s \in Slots \ landed : file'[s] = file[s]
  BY <1>1, <1>2, PushedSlots
<1>4. ASSUME NEW q \in Procs \ {p}, NEW s \in Touches(q) \ overlap[q]
      PROVE  file'[s] = file[s] /\ exposed'[s[1]] = exposed[s[1]]
  <2>1. s \notin Batch(p)
    BY AloneOnSlot
  <2>2. s \in Slots
    BY DEF Touches
  <2>. QED  BY <2>1, <2>2, <1>1, <1>2, <1>3
<1>5. TogglesOneApp' /\ TogglesLanded' /\ ExposeFresh'
  BY <1>1, <1>4, EndsToggles
<1>6. ASSUME NEW s \in Slots, s[1] \notin driftI'
      PROVE  /\ s[1] \notin driftI /\ s \notin overlap[p]
             /\ plan[p][s] \in {"show", "hide"} => s \in todo[p]
             /\ file'[s].ingress = file[s].ingress
             /\ exposed'[s[1]] = exposed[s[1]]
  <2>1. s[1] \notin driftI /\ s \notin overlap[p]
    BY <1>2, <1>6 DEF DriftOf
  <2>2. ASSUME plan[p][s] \in {"show", "hide"}
        PROVE  s \in todo[p] \ landed
    <3>1. ExposeOp(p) /\ s \in Touches(p)
      BY <2>2 DEF ExposeOp, Touches
    <3>2. s \notin DriftOf(p, landed)
      BY <3>1, <1>2, <1>6
    <3>. QED  BY <3>1, <3>2 DEF DriftOf, Pushed
  <2>3. file'[s].ingress = file[s].ingress
    <3>1. CASE s \notin landed
      BY <3>1, <1>3
    <3>2. CASE s \in landed
      BY <3>2, <2>1, <2>2, <1>1, <1>2, PushedIngress
    <3>. QED  BY <3>1, <3>2
  <2>. QED  BY <2>1, <2>2, <2>3, <1>1
<1>7. SettledIngress'
  BY <1>1, <1>6, EndsIngress
<1>. QED  BY <1>5, <1>7

\* The rows of a Stop, Resume or tick are saved: no toggle is concerned.
LEMMA SaveScaleIngress ==
    ASSUME ScaleInv, NEW p \in Procs, SaveScale(p)
    PROVE  TogglesOneApp' /\ TogglesLanded' /\ ExposeFresh' /\ SettledIngress'
<1>1. /\ ScaleOp(p) /\ Ends(p) /\ UNCHANGED <<exposed, file>>
      /\ driftI' = driftI \cup {s[1] : s \in overlap[p]}
  BY DEF SaveScale
<1>2. TogglesOneApp' /\ TogglesLanded' /\ ExposeFresh'
  BY <1>1, EndsToggles
<1>3. \A s \in Slots : plan[p][s] \notin {"show", "hide"}
  BY <1>1 DEF ScaleInv, OperationShape, Touches
<1>4. ASSUME NEW s \in Slots, s[1] \notin driftI'
      PROVE  s[1] \notin driftI /\ s \notin overlap[p]
  BY <1>1, <1>4
<1>5. SettledIngress'
  BY <1>1, <1>3, <1>4, EndsIngress
<1>. QED  BY <1>2, <1>5

\* A toggle commits the column: alone, it leaves file and column in agreement.
LEMMA SaveOtherIngress ==
    ASSUME ScaleInv, NEW p \in Procs, SaveOther(p)
    PROVE  TogglesOneApp' /\ TogglesLanded' /\ ExposeFresh' /\ SettledIngress'
<1>0. TypeOK
  BY DEF ScaleInv
<1>1. pc[p] = "save" /\ Ends(p) /\ UNCHANGED file
  BY DEF SaveOther
<1>2. todo[p] = {} /\ overlap[p] \subseteq Touches(p)
  BY <1>1 DEF ScaleInv, OperationShape
<1>3. \A a \in Apps : <<a, "dev">> \in Slots
  BY DEF Slots, Envs
<1>4. ASSUME NEW a \in Apps, <<a, "dev">> \notin Touches(p)
      PROVE  exposed'[a] = exposed[a]
  BY <1>3, <1>4 DEF SaveOther, Touches
<1>5. ASSUME NEW q \in Procs \ {p}, NEW s \in Touches(q) \ overlap[q],
             plan[q][s] \in {"show", "hide"}
      PROVE  exposed'[s[1]] = exposed[s[1]]
  <2>0. s \in Slots /\ s[1] \in Apps
    BY DEF Touches, Slots
  <2>1. SUFFICES ASSUME exposed'[s[1]] # exposed[s[1]] PROVE FALSE
    OBVIOUS
  <2>2. /\ <<s[1], "dev">> \in Touches(p)
        /\ plan[p][<<s[1], "dev">>] \in {"show", "hide"}
    BY <2>0, <2>1, <1>3, <1>4 DEF SaveOther
  <2>3. ExposeOp(p)
    BY <2>0, <2>2, <1>3 DEF ExposeOp
  <2>4. PICK a \in Apps, k \in {"show", "hide"} :
          \A u \in Slots : plan[p][u] = IF u[1] = a THEN k ELSE "keep"
    BY <2>3 DEF ScaleInv, TogglesOneApp
  <2>5. s \in Touches(p)
    BY <2>0, <2>2, <2>4, <1>3 DEF Touches
  <2>. QED  BY <2>5, AloneOnSlot
<1>6. TogglesOneApp' /\ TogglesLanded' /\ ExposeFresh'
  BY <1>1, <1>5, EndsToggles
<1>7. CASE ExposeOp(p)
  <2>1. PICK a \in Apps, k \in {"show", "hide"} :
          \A u \in Slots : plan[p][u] = IF u[1] = a THEN k ELSE "keep"
    BY <1>7 DEF ScaleInv, TogglesOneApp
  <2>2. \A s \in Slots : s \in Touches(p) <=> s[1] = a
    BY <2>1 DEF Touches
  <2>3. CASE overlap[p] = {}
    <3>1. driftI' = driftI \ {s[1] : s \in Touches(p)}
      BY <1>7, <2>3 DEF SaveOther
    <3>2. <<a, "dev">> \in Touches(p) \ overlap[p] /\ plan[p][<<a, "dev">>] = k
      BY <2>1, <2>2, <2>3, <1>3
    <3>3. seenExpose[p] = exposed[a]
      BY <3>2 DEF ScaleInv, ExposeFresh
    <3>4. exposed'[a] = (k = "show")
      <4>1. exposed[a] \in BOOLEAN
        BY <1>0 DEF TypeOK
      <4>. QED  BY <3>2, <3>3, <4>1 DEF SaveOther
    <3>5. ASSUME NEW s \in Slots, s[1] \notin driftI', s[1] = a
          PROVE  file'[s].ingress = exposed'[s[1]]
      <4>1. s \in Touches(p) \ (todo[p] \cup overlap[p]) /\ plan[p][s] = k
        BY <3>5, <2>1, <2>2, <2>3, <1>2
      <4>2. file[s].ingress = (k = "show")
        BY <4>1 DEF ScaleInv, TogglesLanded
      <4>. QED  BY <4>2, <3>4, <3>5, <1>1
    <3>6. ASSUME NEW s \in Slots, s[1] \notin driftI', s[1] # a
          PROVE  /\ s[1] \notin driftI /\ s \notin overlap[p]
                 /\ plan[p][s] \in {"show", "hide"} => s \in todo[p]
                 /\ file'[s].ingress = file[s].ingress
                 /\ exposed'[s[1]] = exposed[s[1]]
      <4>1. s[1] \notin driftI
        <5>1. \A u \in Touches(p) : u \in Slots
          BY DEF Touches
        <5>. QED  BY <5>1, <3>1, <3>6, <2>2
      <4>2. s[1] \in Apps /\ <<s[1], "dev">> \notin Touches(p)
        BY <3>6, <2>2, <1>3 DEF Slots
      <4>. QED  BY <4>1, <4>2, <3>6, <2>1, <2>3, <1>1, <1>4
    <3>. QED  BY <3>5, <3>6, <1>1, <1>6, EndsIngress
  <2>4. CASE overlap[p] # {}
    <3>1. driftI' = driftI \cup {s[1] : s \in overlap[p]}
      BY <1>7, <2>4 DEF SaveOther
    <3>2. a \in driftI'
      <4>1. PICK u \in overlap[p] : TRUE
        BY <2>4
      <4>2. u[1] = a
        BY <4>1, <1>2, <2>2 DEF Touches
      <4>. QED  BY <4>1, <4>2, <3>1
    <3>3. ASSUME NEW s \in Slots, s[1] \notin driftI'
          PROVE  /\ s[1] \notin driftI /\ s \notin overlap[p]
                 /\ plan[p][s] \in {"show", "hide"} => s \in todo[p]
                 /\ file'[s].ingress = file[s].ingress
                 /\ exposed'[s[1]] = exposed[s[1]]
      <4>1. s[1] # a /\ s[1] \notin driftI /\ s \notin overlap[p]
        BY <3>1, <3>2, <3>3
      <4>2. s[1] \in Apps /\ <<s[1], "dev">> \notin Touches(p)
        BY <4>1, <2>2, <1>3 DEF Slots
      <4>. QED  BY <4>1, <4>2, <2>1, <1>1, <1>4
    <3>. QED  BY <3>3, <1>1, <1>6, EndsIngress
  <2>. QED  BY <2>3, <2>4, <1>6
<1>8. CASE ~ExposeOp(p)
  <2>1. \A s \in Slots : plan[p][s] \notin {"show", "hide"}
    BY <1>8 DEF ExposeOp
  <2>2. driftI' = driftI \cup {s[1] : s \in overlap[p]}
    BY <1>8 DEF SaveOther
  <2>3. \A a \in Apps : exposed'[a] = exposed[a]
    BY <2>1, <1>3 DEF SaveOther
  <2>4. \A s \in Slots : s[1] \in Apps
    BY DEF Slots
  <2>5. ASSUME NEW s \in Slots, s[1] \notin driftI'
        PROVE  s[1] \notin driftI /\ s \notin overlap[p]
    BY <2>2, <2>5
  <2>. QED  BY <2>1, <2>3, <2>4, <2>5, <1>1, <1>6, EndsIngress
<1>. QED  BY <1>7, <1>8

\* A restart counts what it cut short as drifted.
LEMMA RestartIngress ==
    ASSUME ScaleInv, Restart
    PROVE  TogglesOneApp' /\ TogglesLanded' /\ ExposeFresh' /\ SettledIngress'
<1>1. /\ UNCHANGED <<exposed, file>>
      /\ \A p \in Procs : plan'[p] = Keep
  BY DEF Restart, db
<1>2. \A p \in Procs : Touches(p)' = {} /\ ~ExposeOp(p)'
  BY <1>1 DEF Touches, ExposeOp, Keep
<1>3. TogglesOneApp' /\ TogglesLanded' /\ ExposeFresh'
  BY <1>2 DEF TogglesOneApp, TogglesLanded, ExposeFresh
<1>4. ASSUME NEW p \in Procs,
             NEW s \in IF ExposeOp(p) THEN DriftOf(p, {}) ELSE overlap[p]
      PROVE  s[1] \in driftI'
  BY DEF Restart
<1>5. SettledIngress'
  <2>. SUFFICES ASSUME NEW s \in Slots, s[1] \notin driftI'
                PROVE  file[s].ingress = exposed[s[1]]
    BY <1>1 DEF SettledIngress
  <2>0. s[1] \notin driftI
    BY DEF Restart
  <2>1. ASSUME NEW q \in Procs
        PROVE  /\ s \notin overlap[q]
               /\ plan[q][s] \in {"show", "hide"} => s \in todo[q]
    <3>1. s \notin overlap[q]
      BY <1>4 DEF DriftOf
    <3>2. ASSUME plan[q][s] \in {"show", "hide"}  PROVE s \in todo[q]
      <4>1. ExposeOp(q) /\ s \in Touches(q)
        BY <3>2 DEF ExposeOp, Touches
      <4>. QED  BY <4>1, <1>4 DEF DriftOf, Pushed
    <3>. QED  BY <3>1, <3>2
  <2>. QED  BY <2>0, <2>1 DEF ScaleInv, SettledIngress
<1>. QED  BY <1>3, <1>5

-----------------------------------------------------------------------------
\* The initial state satisfies the whole invariant.
LEMMA InvInit == Init => ScaleInv
<1>. SUFFICES ASSUME Init PROVE ScaleInv
  OBVIOUS
<1>1. \A p \in Procs : /\ pc[p] = "idle" /\ plan[p] = Keep /\ seen[p] = NoRows
                       /\ todo[p] = {} /\ overlap[p] = {}
  BY DEF Init
<1>2. \A p \in Procs : Touches(p) = {} /\ ~ScaleOp(p) /\ Batch(p) = {}
  BY <1>1 DEF Touches, ScaleOp, Batch, Keep
<1>3. OperationShape /\ OverlapsKnown /\ SnapshotsFresh /\ PushesLanded
        /\ RowsFresh /\ WorkerPlanCurrent
  BY <1>1, <1>2, ConstantTypes
  DEF OperationShape, OverlapsKnown, SnapshotsFresh, PushesLanded, RowsFresh,
      WorkerPlanCurrent
<1>4. SettledAgree /\ ManualStopStays /\ RowNotTorn
  BY DEF Init, SettledAgree, ManualStopStays, RowNotTorn, NoRows, NoRow, NoFiles
<1>5. TogglesOneApp /\ TogglesLanded /\ ExposeFresh
  <2>1. \A p \in Procs : ~ExposeOp(p)
    BY <1>1 DEF ExposeOp, Keep
  <2>. QED  BY <2>1, <1>2 DEF TogglesOneApp, TogglesLanded, ExposeFresh
<1>6. SettledIngress
  BY DEF Init, SettledIngress, NoFiles, Slots
<1>. QED  BY <1>3, <1>4, <1>5, <1>6, TypeInit DEF ScaleInv

(***************************************************************************)
(* Every step preserves the invariant.                                     *)
(***************************************************************************)
LEMMA InvStep == ScaleInv /\ [Next]_vars => ScaleInv'
<1>. SUFFICES ASSUME ScaleInv, [Next]_vars PROVE ScaleInv'
  OBVIOUS
<1>. USE ScaleConstants
<1>. DEFINE Rest == /\ OperationShape /\ OverlapsKnown /\ SnapshotsFresh
                    /\ PushesLanded /\ RowsFresh /\ WorkerPlanCurrent
                    /\ SettledAgree /\ ManualStopStays /\ RowNotTorn
<1>. DEFINE Ingress == /\ TogglesOneApp /\ TogglesLanded /\ ExposeFresh
                       /\ SettledIngress
<1>0. TypeOK'
  BY TypeStep DEF ScaleInv
<1>1. ASSUME Tick  PROVE Rest' /\ Ingress'
  <2>1. Ingress'
    BY <1>1, IngressFrame DEF Tick, db, ghost
  <2>2. Rest'
    BY <1>1 DEF Tick, db, ghost, ScaleInv, OperationShape, OverlapsKnown,
       SnapshotsFresh, PushesLanded, RowsFresh, WorkerPlanCurrent, SettledAgree,
       ManualStopStays, RowNotTorn, Touches, ScaleOp, ExposeOp, Batch
  <2>. QED  BY <2>1, <2>2
<1>2. ASSUME NEW r \in Requests, RequestBegins(r)  PROVE Rest' /\ Ingress'
  <2>a. PICK kind \in RequestKinds : \E pl \in RequestPlans(kind), b \in Apps :
          /\ Begin(r, pl) /\ UNCHANGED seen
          /\ pl[<<b, "dev">>] # "keep" \/ pl[<<b, "prod">>] # "keep"
          /\ seenExpose' = [seenExpose EXCEPT ![r] = exposed[b]]
    BY <1>2 DEF RequestBegins
  <2>0. PICK pl \in RequestPlans(kind), b \in Apps :
          /\ Begin(r, pl) /\ UNCHANGED seen
          /\ pl[<<b, "dev">>] # "keep" \/ pl[<<b, "prod">>] # "keep"
          /\ seenExpose' = [seenExpose EXCEPT ![r] = exposed[b]]
    BY <2>a
  <2>1. Begin(r, pl) /\ UNCHANGED seen
    BY <2>0
  <2>2. pl \in [Slots -> {kind, "keep"}]
    BY PlanTypes
  <2>3. pl \in [Slots -> AllKinds \cup {"keep"}]
    BY <2>2
  <2>4. r \in Procs /\ r # Worker
    BY DEF Procs
  <2>5. seen[r] = NoRows
    BY <2>1, <2>4 DEF Begin, ScaleInv, OperationShape
  <2>6. \A s \in Slots : ~seen'[r][s].exists
    BY <2>1, <2>5 DEF NoRows, NoRow
  <2>7. \A s, u \in Slots :
          pl[s] \in {"stop", "resume"} => pl[u] \in {"stop", "resume", "keep"}
    BY <2>2
  <2>8. /\ seenExpose'[r] = exposed[b]
        /\ \A q \in Procs \ {r} : seenExpose'[q] = seenExpose[q]
    BY <2>0, <2>4 DEF ScaleInv, TypeOK
  <2>9. (\E s \in Slots : pl[s] \in {"show", "hide"}) =>
          \E a \in Apps, k \in {"show", "hide"} :
              /\ \A s \in Slots : pl[s] = IF s[1] = a THEN k ELSE "keep"
              /\ seenExpose'[r] = exposed[a]
    BY <2>0, <2>8, TogglePlans
  <2>10. Rest'
    BY <2>1, <2>3, <2>4, <2>6, <2>7, BeginInv
  <2>11. Ingress'
    BY <2>1, <2>3, <2>4, <2>8, <2>9, BeginIngress
  <2>. QED  BY <2>10, <2>11
<1>3. ASSUME WorkerBegins  PROVE Rest' /\ Ingress'
  <2>. DEFINE pl == ReconciliationPlan
  <2>1. pl \in [Slots -> {"stop", "resume", "keep"}]
    BY PlanTypes
  <2>2. pl \in [Slots -> AllKinds \cup {"keep"}]
    BY <2>1 DEF AllKinds
  <2>3. \A q \in Procs \ {Worker} : seen'[q] = seen[q]
    BY <1>3 DEF WorkerBegins, ScaleInv, TypeOK
  <2>4. \A s \in Slots : pl[s] # "keep" => seen'[Worker][s] = row[s]
    BY <1>3, ConstantTypes DEF WorkerBegins, ScaleInv, TypeOK
  <2>5. \A s \in Slots : /\ pl[s] = "stop" => ~row[s].is_stopped
                         /\ pl[s] = "resume" => row[s].stop_reason = "schedule"
    BY DEF ReconciliationPlan
  <2>6. Begin(Worker, pl)
    BY <1>3 DEF WorkerBegins
  <2>7. \A s, u \in Slots :
          pl[s] \in {"stop", "resume"} => pl[u] \in {"stop", "resume", "keep"}
    BY <2>1
  <2>8. \A q \in Procs \ {Worker} : seenExpose'[q] = seenExpose[q]
    BY <1>3 DEF WorkerBegins
  <2>9. \A s \in Slots : pl[s] \notin {"show", "hide"}
    BY <2>1
  <2>. HIDE DEF pl
  <2>10. Rest'
    BY <2>2, <2>3, <2>4, <2>5, <2>6, <2>7, ConstantTypes, BeginInv
  <2>11. Ingress'
    BY <2>2, <2>6, <2>8, <2>9, ConstantTypes, BeginIngress
  <2>. QED  BY <2>10, <2>11
<1>4. ASSUME NEW p \in Procs, Step(p)  PROVE Rest' /\ Ingress'
  <2>1. Rest'
    BY <1>4, PushReadInv, PushCommitInv, PushFailsInv, LoadInv, SaveScaleInv,
       SaveOtherInv DEF Step
  <2>2. CASE PushRead(p) \/ Load(p)
    BY <2>1, <2>2, IngressFrame DEF PushRead, Load, db, ghost
  <2>. QED  BY <1>4, <2>1, <2>2, PushCommitIngress, PushFailsIngress,
               SaveScaleIngress, SaveOtherIngress DEF Step
<1>5. ASSUME Restart  PROVE Rest' /\ Ingress'
  BY <1>5, RestartInv, RestartIngress
<1>6. ASSUME UNCHANGED vars  PROVE Rest' /\ Ingress'
  <2>1. Ingress'
    BY <1>6, IngressFrame DEF vars
  <2>2. Rest'
    BY <1>6 DEF vars, ScaleInv, OperationShape, OverlapsKnown,
       SnapshotsFresh, PushesLanded, RowsFresh, WorkerPlanCurrent, SettledAgree,
       ManualStopStays, RowNotTorn, Touches, ScaleOp, ExposeOp, Batch
  <2>. QED  BY <2>1, <2>2
<1>. QED  BY <1>0, <1>1, <1>2, <1>3, <1>4, <1>5, <1>6 DEF Next, ScaleInv

(***************************************************************************)
(* The whole of it is invariant: what every operation in flight knows of   *)
(* its plan, its files, its rows and its column stays true of any slot it  *)
(* is alone on, and file, row and column agree wherever nobody has pushed. *)
(***************************************************************************)
THEOREM ScaleInvariant == Spec => []ScaleInv
BY InvInit, InvStep, PTL DEF Spec

\* The invariant implies agreement on a quiet slot.
LEMMA QuietAgrees == ScaleInv => ReplicasAgree
<1>. SUFFICES ASSUME ScaleInv, NEW s \in Slots \ driftR, Quiet(s)
              PROVE  file[s].replicas = "zero" <=> row[s].is_stopped
  BY DEF ReplicasAgree
<1>1. \A p \in Procs : s \notin overlap[p] /\ plan[p][s] = "keep"
  BY DEF ScaleInv, OperationShape, Quiet, Touches
<1>. QED  BY <1>1 DEF ScaleInv, SettledAgree

(***************************************************************************)
(* Whatever the interleaving of Stop, Resume, expose, rollback, the worker *)
(* and restarts, an override and its row agree on every quiet slot outside *)
(* the drift the program is known to leave.                                *)
(***************************************************************************)
THEOREM ReplicasAlwaysAgree == Spec => []ReplicasAgree
BY ScaleInvariant, QuietAgrees, PTL

(***************************************************************************)
(* Outside that drift, no night or morning of the worker ever undoes or    *)
(* relabels a completed manual Stop.                                       *)
(***************************************************************************)
THEOREM ManualStopsHold == Spec => []ManualStopStays
<1>1. ScaleInv => ManualStopStays
  BY DEF ScaleInv
<1>. QED  BY <1>1, ScaleInvariant, PTL

(***************************************************************************)
(* Outside that drift, a row has a stop reason exactly when it is stopped. *)
(***************************************************************************)
THEOREM RowsNeverTorn == Spec => []RowNotTorn
<1>1. ScaleInv => RowNotTorn
  BY DEF ScaleInv
<1>. QED  BY <1>1, ScaleInvariant, PTL

\* The invariant implies agreement of the ingress on a quiet application.
LEMMA QuietIngress == ScaleInv => IngressAgrees
<1>. SUFFICES ASSUME ScaleInv, NEW a \in Apps \ driftI,
                     \A e \in Envs : Quiet(<<a, e>>), NEW e \in Envs
              PROVE  file[<<a, e>>].ingress = exposed[a]
  BY DEF IngressAgrees
<1>0. <<a, e>> \in Slots
  BY DEF Slots
<1>1. \A p \in Procs : <<a, e>> \notin overlap[p] /\ plan[p][<<a, e>>] = "keep"
  BY <1>0 DEF ScaleInv, OperationShape, Quiet, Touches
<1>. QED  BY <1>0, <1>1 DEF ScaleInv, SettledIngress

(***************************************************************************)
(* The ingress flag of both files follows applications.expose on every     *)
(* quiet application outside that drift, although Stop, Resume, the worker *)
(* and rollbacks rewrite the same files as a whole.                        *)
(***************************************************************************)
THEOREM IngressAlwaysAgrees == Spec => []IngressAgrees
BY ScaleInvariant, QuietIngress, PTL

-----------------------------------------------------------------------------
(***************************************************************************)
(* The off-hours comparisons, for every hour and every configuration.      *)
(***************************************************************************)

\* Remainders of the differences that occur on a dial of 24 hours.
LEMMA DialRemainder ==
    ASSUME NEW x \in -23..23
    PROVE  x % 24 = IF x >= 0 THEN x ELSE x + 24
<1>1. CASE x >= 0
  BY <1>1, SMT
<1>2. CASE x < 0
  BY <1>2, SMT
<1>. QED  BY <1>1, <1>2

\* _is_off_hours is membership in the cyclic interval [downHour, upHour).
LEMMA OffHoursIsDialInterval ==
    ASSUME NEW hour \in Hours, NEW d \in Hours, NEW u \in Hours
    PROVE  IsOffHours(hour, d, u) <=> OnDialBetween(hour, d, u)
<1>1. (hour - d) % 24 = IF hour >= d THEN hour - d ELSE hour - d + 24
  BY DialRemainder DEF Hours
<1>2. (u - d) % 24 = IF u >= d THEN u - d ELSE u - d + 24
  BY DialRemainder DEF Hours
<1>. QED  BY <1>1, <1>2 DEF Hours, IsOffHours, OnDialBetween

\* The clock stays on the dial and the configuration in range.
ClockOK ==
    /\ time \in Times
    /\ downHour \in Hours /\ upHour \in Hours
    /\ weekdays \in BOOLEAN

(***************************************************************************)
(* At every moment of every week and for every configuration, development  *)
(* environments are to be stopped exactly in the cyclic window or on the   *)
(* week-end days.                                                          *)
(***************************************************************************)
THEOREM ScheduleIsCyclicWindow == ClockSpec => []StoppedIsCyclicWindow
<1>1. ClockInit => ClockOK
  BY DEF ClockInit, ClockOK, Times, Hours, Weekdays
<1>2. ClockOK /\ [ClockNext]_clockVars => ClockOK'
  <2>. SUFFICES ASSUME ClockOK, [ClockNext]_clockVars PROVE ClockOK'
    OBVIOUS
  <2>1. CASE HourPasses
    <3>1. (time.hour + 1) % 24 \in 0..23 /\ (time.weekday + 1) % 7 \in 0..6
      BY DEF ClockOK, Times, Hours, Weekdays
    <3>. QED  BY <2>1, <3>1 DEF HourPasses, ClockOK, Times, Hours, Weekdays
  <2>2. CASE UNCHANGED clockVars
    BY <2>2 DEF clockVars, ClockOK
  <2>. QED  BY <2>1, <2>2 DEF ClockNext
<1>3. ClockOK => StoppedIsCyclicWindow
  <2>. SUFFICES ASSUME ClockOK PROVE StoppedIsCyclicWindow
    OBVIOUS
  <2>1. time.hour \in Hours /\ time.weekday \in 0..6
    BY DEF ClockOK, Times, Weekdays
  <2>2. IsOffHours(time.hour, downHour, upHour)
          <=> OnDialBetween(time.hour, downHour, upHour)
    BY <2>1, OffHoursIsDialInterval DEF ClockOK
  <2>3. time.weekday >= 5 <=> time.weekday \in {5, 6}
    BY <2>1
  <2>. QED  BY <2>2, <2>3 DEF StoppedIsCyclicWindow, StoppedNow, DesiredStopped
<1>. QED  BY <1>1, <1>2, <1>3, PTL DEF ClockSpec
=============================================================================
