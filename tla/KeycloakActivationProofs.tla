---------------------- MODULE KeycloakActivationProofs -----------------------
(***************************************************************************)
(* Proofs about KeycloakActivation: the invariants of its run, and that    *)
(* foreign realms are not touched and a retry is not refused, for any      *)
(* instances, URLs, clusters, requests and combinations of mishaps.        *)
(***************************************************************************)
EXTENDS KeycloakActivation, TLAPS

\* What holds whatever goes wrong.
Plain == TypeOK /\ OnlyLast /\ BoundExists /\ InstLocked /\ UpsertsSound /\ LookedAt

-----------------------------------------------------------------------------
(***************************************************************************)
(* Types.                                                                  *)
(***************************************************************************)

\* The fields of the state of a request.
LEMMA StateIs ==
    ASSUME NEW q \in RequestStates
    PROVE  /\ q.pc \in {"idle", "env"} \cup Registrar \cup Binders \cup Providers \cup Deleters
           /\ q.kind \in AllStarts \cup {None} /\ q.id \in 0 .. MaxApps /\ q.env \in Envs
           /\ q.seen \in AppRows /\ q.mine \in AppRows /\ q.key \in Instances \cup {None}
           /\ q.pay \in InstanceRows /\ q.url \in Servers /\ q.swapped \in BOOLEAN
           /\ Spot(q) \in Servers \X Envs
  BY DEF RequestStates, Spot

\* The fields of a row.
LEMMA RowIs ==
    ASSUME NEW x \in AppRows
    PROVE  /\ x.present \in BOOLEAN /\ x.enabled \in BOOLEAN /\ x.prov \in {None, "yes", "no"}
           /\ x.warn \in Warnings \cup {None} /\ x.bound \in Instances \cup {None}
           /\ x.cluster \in Clusters \cup {None}
  BY DEF AppRows

\* Names are not None.
LEMMA ConstantsAre ==
    /\ None \notin Instances /\ None \notin Servers /\ Own \notin Servers /\ None \notin Clusters
    /\ Legacy \in Servers /\ MaxApps \in Nat /\ MaxApps # 0 /\ MaxStarts \in Nat
    /\ Stranger \notin Ids /\ Nobody \notin Ids /\ Ids = 1 .. MaxApps
    /\ None \notin Warnings
  BY KeycloakConstants DEF Servers, Stranger, Nobody, Ids, None, Own, Warnings

\* The states everything starts with are well typed.
LEMMA FirstAre ==
    NoRow \in AppRows /\ NoInst \in InstanceRows /\ NoRealm \in Realms /\ Idle \in RequestStates
  <1>1. NoRow \in AppRows
    BY DEF NoRow, AppRows
  <1>2. NoInst \in InstanceRows
    BY ConstantsAre DEF NoInst, InstanceRows
  <1>3. NoRealm \in Realms
    BY ConstantsAre DEF NoRealm, Realms, Nobody, Stranger
  <1>4. Idle \in RequestStates
    BY <1>1, <1>2, ConstantsAre DEF Idle, RequestStates, Envs
  <1> QED
    BY <1>1, <1>2, <1>3, <1>4

\* The fields of an idle request.
LEMMA IdleIs ==
    /\ Idle.pc = "idle" /\ Idle.id = 0 /\ ~Idle.mine.enabled /\ Idle.key = None
    /\ ~NoRow.present /\ ~NoRow.enabled /\ NoRow.bound = None /\ NoRow.prov = None
    /\ NoRow.warn = None
  BY DEF Idle, NoRow

\* What a commit makes of row x: the columns the session changed.
Merged(x, q) ==
    [present |-> x.present, cluster |-> x.cluster,
     enabled |-> IF q.mine.enabled # q.seen.enabled THEN q.mine.enabled ELSE x.enabled,
     prov    |-> IF q.mine.prov # q.seen.prov THEN q.mine.prov ELSE x.prov,
     warn    |-> IF q.mine.warn # q.seen.warn THEN q.mine.warn ELSE x.warn,
     bound   |-> IF q.mine.bound # q.seen.bound THEN q.mine.bound ELSE x.bound]

\* A commit merges the columns.
LEMMA MergedIs ==
    ASSUME NEW x \in AppRows, NEW q \in RequestStates
    PROVE  /\ [c \in DOMAIN x |-> IF c \in Dirty(q) THEN q.mine[c] ELSE x[c]] = Merged(x, q)
           /\ Merged(x, q) \in AppRows
  <1>1. DOMAIN x = {"present", "enabled", "prov", "warn", "bound", "cluster"}
    BY DEF AppRows
  <1>2. /\ "present" \notin Dirty(q) /\ "cluster" \notin Dirty(q)
        /\ "enabled" \in Dirty(q) <=> q.mine.enabled # q.seen.enabled
        /\ "prov" \in Dirty(q) <=> q.mine.prov # q.seen.prov
        /\ "warn" \in Dirty(q) <=> q.mine.warn # q.seen.warn
        /\ "bound" \in Dirty(q) <=> q.mine.bound # q.seen.bound
    BY DEF Dirty, Columns
  <1>3. [c \in DOMAIN x |-> IF c \in Dirty(q) THEN q.mine[c] ELSE x[c]] = Merged(x, q)
    BY <1>1, <1>2 DEF Merged
  <1>4. Merged(x, q) \in AppRows
    BY StateIs, RowIs DEF Merged, AppRows
  <1> QED
    BY <1>3, <1>4

-----------------------------------------------------------------------------
(***************************************************************************)
(* One request goes on.                                                    *)
(***************************************************************************)

\* Two states of a request that differ at most in the observation swapped.
Akin(x, y) ==
    /\ x.pc = y.pc /\ x.kind = y.kind /\ x.id = y.id /\ x.env = y.env /\ x.seen = y.seen
    /\ x.mine = y.mine /\ x.key = y.key /\ x.pay = y.pay /\ x.url = y.url

\* r goes to n, the others at most learn that a realm was swapped.
Turns(r, n) ==
    /\ n \in RequestStates /\ req' \in [Requests -> RequestStates] /\ req'[r] = n
    /\ \A s \in Requests : s # r => Akin(req'[s], req[s])
    /\ mishaps \subseteq mishaps' /\ mishaps' \subseteq Kinds /\ started' \in 0 .. MaxStarts

\* Goes is a turn.
LEMMA GoesTurns ==
    ASSUME TypeOK, NEW r \in Requests, NEW n \in RequestStates, Goes(r, n),
           mishaps \subseteq mishaps', mishaps' \subseteq Kinds, started' \in 0 .. MaxStarts
    PROVE  Turns(r, n) /\ \A s \in Requests : s # r => req'[s] = req[s]
  BY DEF TypeOK, Goes, Turns, Akin

\* The mishaps only accumulate, and a condition on them only gets stronger.
LEMMA MishapsGrow ==
    ASSUME mishaps \subseteq mishaps', NEW K
    PROVE  Without(K)' => Without(K)
  BY DEF Without

\* A note adds kinds of mishap.
LEMMA NoteIs ==
    ASSUME TypeOK, NEW K, Note(K)
    PROVE  mishaps \subseteq mishaps' /\ K \subseteq mishaps' /\ mishaps' \subseteq Kinds
  BY KeycloakConstants DEF Note, TypeOK

\* Kin have the same shape, the same current copy, progress and clearance.
LEMMA AkinIs ==
    ASSUME NEW x \in RequestStates, NEW y \in RequestStates, Akin(x, y)
    PROVE  Shaped(x) <=> Shaped(y)
  BY DEF Akin, Shaped

\* Rows that agree on which applications there are and what they are bound to.
Alike == /\ row' \in [Ids -> AppRows] /\ UNCHANGED last
         /\ \A i \in Ids : row'[i].present = row[i].present /\ row'[i].bound = row[i].bound

\* The lock r may hold afterwards.
Locks(r, n) ==
    n.pc \in {"connect", "upsert"} =>
        InstFree(n.key, r) \/ (req[r].pc = n.pc /\ req[r].key = n.key)

\* Everything outside the rows and the registry is well typed.
Typed ==
    /\ realm' \in [Servers \X Envs -> Realms]
    /\ taken' \subseteq Servers \X Envs \X (1 .. Stranger)
    /\ vault' \in [Envs -> Servers \cup {None, Own}]

\* A turn keeps the plain parts when what r becomes is sound.
LEMMA PlainStep ==
    ASSUME Plain, NEW r \in Requests, NEW n, Turns(r, n), Alike, Typed, UNCHANGED inst,
           Shaped(n), n.id <= last, Locks(r, n),
           n.pc = "upsert" => /\ inst[n.key].exists
                              /\ Linked(n.key) => n.pay.url = inst[n.key].url,
           LookedAt'
    PROVE  Plain'
  <1>1. TypeOK'
    BY DEF Plain, TypeOK, Turns, Alike, Typed
  <1>2. OnlyLast'
    <2>1. \A i \in Ids : Present(i)' => i = last'
      BY DEF Plain, OnlyLast, Alike, Present
    <2>2. ASSUME NEW s \in Requests PROVE Shaped(req[s])' /\ req'[s].id <= last'
      <3>1. CASE s = r
        BY <3>1 DEF Turns, Shaped, Alike
      <3>2. CASE s # r
        <4>1. PICK x \in RequestStates, y \in RequestStates :
                 x = req'[s] /\ y = req[s] /\ Akin(x, y) /\ Shaped(y) /\ y.id <= last
          BY <3>2 DEF Turns, Plain, TypeOK, OnlyLast
        <4>2. Shaped(x) /\ x.id <= last
          BY <4>1, AkinIs DEF Akin
        <4> QED
          BY <4>1, <4>2 DEF Shaped, Alike
      <3> QED
        BY <3>1, <3>2
    <2> QED
      BY <2>1, <2>2 DEF OnlyLast
  <1>3. BoundExists'
    BY DEF Plain, BoundExists, Alike, Present
  <1>4. InstLocked'
    <2> SUFFICES ASSUME NEW s \in Requests, NEW t \in Requests, s # t,
                        req'[s].key = req'[t].key,
                        req'[s].pc \in {"connect", "upsert"}, req'[t].pc \in {"connect", "upsert"}
                 PROVE  FALSE
      BY DEF InstLocked
    <2>1. CASE s # r /\ t # r
      BY <2>1 DEF Turns, Akin, Plain, InstLocked
    <2>2. CASE s = r
      <3>1. Akin(req'[t], req[t]) /\ req'[r] = n
        BY <2>2 DEF Turns
      <3> QED
        BY <2>2, <3>1 DEF Akin, Locks, InstFree, Plain, InstLocked
    <2>3. CASE t = r
      <3>1. Akin(req'[s], req[s]) /\ req'[r] = n
        BY <2>3 DEF Turns
      <3> QED
        BY <2>3, <3>1 DEF Akin, Locks, InstFree, Plain, InstLocked
    <2> QED
      BY <2>1, <2>2, <2>3
  <1>5. UpsertsSound'
    <2>1. \A k \in Instances \cup {None} : Linked(k)' <=> Linked(k)
      BY DEF Linked, Alike, Present
    <2> SUFFICES ASSUME NEW s \in Requests, req'[s].pc = "upsert",
                        NEW k \in Instances \cup {None}, k = req'[s].key
                 PROVE  inst[k].exists /\ (Linked(k)' => req'[s].pay.url = inst[k].url)
      <3>1. ASSUME NEW s \in Requests PROVE req'[s].key \in Instances \cup {None}
        BY StateIs DEF Turns
      <3> QED
        BY <3>1 DEF UpsertsSound, Linked, Present
    <2>2. CASE s = r
      BY <2>1, <2>2 DEF Turns
    <2>3. CASE s # r
      BY <2>1, <2>3 DEF Turns, Akin, Plain, UpsertsSound
    <2> QED
      BY <2>2, <2>3
  <1> QED
    BY <1>1, <1>2, <1>3, <1>4, <1>5 DEF Plain

\* What a request has looked at stays while the realms do.
LEMMA LookedStays ==
    ASSUME Plain, NEW r \in Requests, NEW n, n \in RequestStates, Goes(r, n), UNCHANGED realm,
           n.pc \in Writers \cup {"delRealm"} =>
               n.swapped \/ realm[Spot(n)].owner \in {Nobody, n.id}
    PROVE  LookedAt'
  <1> SUFFICES ASSUME NEW s \in Requests, req'[s].pc \in Writers \cup {"delRealm"}
               PROVE  req'[s].swapped \/ realm[Spot(req'[s])].owner \in {Nobody, req'[s].id}
    BY DEF LookedAt, Spot
  <1>1. CASE s = r
    BY <1>1 DEF Goes, Plain, TypeOK
  <1>2. CASE s # r
    BY <1>2 DEF Goes, Plain, TypeOK, LookedAt
  <1> QED
    BY <1>1, <1>2

-----------------------------------------------------------------------------
(***************************************************************************)
(* Without overlap a step concerns one request and one application i.      *)
(***************************************************************************)

\* What the parts say of application i, and of the request in state n.
IssuerOf(i) ==
    Present(i) /\ row[i].bound # None =>
        \A e \in Envs : vault[e] \in {None, Own, inst[row[i].bound].url}
OutcomeOf(i) == row[i].warn = None <=> row[i].prov # "no"
UsableOf(i, n) ==
    Present(i) /\ row[i].enabled /\ row[i].prov = "yes" /\ n.pc \notin Deleters =>
        \A e \in Envs : Provisioned(i, e)
KnownBy(i, n) == Present(i) /\ (row[i].enabled \/ (n.id = i /\ n.mine.enabled))
RealmsOf(i, n) ==
    /\ \A u \in Servers, e \in Envs : realm[<<u, e>>].owner \in Ids =>
          realm[<<u, e>>].owner = i /\ KnownBy(i, n) /\ u = Url(row[i])
    /\ \A e \in Envs : vault[e] \in Servers => KnownBy(i, n)
    /\ Clears(n)

\* A request that goes on alone: everything there is is its own.
LEMMA AloneIs ==
    ASSUME KeycloakInv, NEW r \in Requests, req[r].id # 0
    PROVE  /\ req[r] \in RequestStates /\ Shaped(req[r]) /\ req[r].id \in Ids
           /\ req[r].id <= last
           /\ Without({"overlap"}) =>
                 /\ Current(req[r]) /\ req[r].id = last
                 /\ \A s \in Requests : s # r => req[s].id = 0
                 /\ \A i \in Ids : Present(i) => i = req[r].id
                 /\ IssuerOf(req[r].id) /\ OutcomeOf(req[r].id)
           /\ Without({"outsider", "overlap", "crash"}) =>
                 UsableOf(req[r].id, req[r]) /\ Progress(req[r])
           /\ Without({"kept", "overlap", "crash"}) => RealmsOf(req[r].id, req[r])
  <1>1. req[r] \in RequestStates /\ Shaped(req[r]) /\ req[r].id <= last
    BY DEF KeycloakInv, TypeOK, OnlyLast
  <1>2. req[r].id \in Ids
    BY <1>1, StateIs, ConstantsAre
  <1>3. ASSUME Without({"overlap"})
        PROVE  /\ Current(req[r]) /\ req[r].id = last
               /\ \A s \in Requests : s # r => req[s].id = 0
               /\ \A i \in Ids : Present(i) => i = req[r].id
               /\ IssuerOf(req[r].id) /\ OutcomeOf(req[r].id)
    <2>1. Current(req[r]) /\ \A s \in Requests : s # r => req[s].id = 0
      BY <1>3 DEF KeycloakInv, SoloRequest
    <2>2. \A i \in Ids : Present(i) => i = last
      BY DEF KeycloakInv, OnlyLast
    <2>3. IssuerOf(req[r].id) /\ OutcomeOf(req[r].id)
      BY <1>2, <1>3 DEF KeycloakInv, IssuerCurrent, OutcomeExplained, IssuerOf, OutcomeOf
    <2> QED
      BY <1>2, <2>1, <2>2, <2>3 DEF Current
  <1>4. ASSUME Without({"outsider", "overlap", "crash"})
        PROVE  UsableOf(req[r].id, req[r]) /\ Progress(req[r])
    <2>1. Without({"overlap"})
      BY <1>4 DEF Without
    <2>2. \A s \in Requests : req[s].id = req[r].id => s = r
      BY <1>3, <2>1
    <2> QED
      BY <1>2, <1>4, <2>2 DEF KeycloakInv, ProvisionedKept, UsableOf
  <1>5. ASSUME Without({"kept", "overlap", "crash"})
        PROVE  RealmsOf(req[r].id, req[r])
    <2>1. Without({"overlap"})
      BY <1>5 DEF Without
    <2>2. \A i \in Ids : Known(i) => i = req[r].id /\ KnownBy(i, req[r])
      <3> SUFFICES ASSUME NEW i \in Ids, Known(i) PROVE i = req[r].id /\ KnownBy(i, req[r])
        OBVIOUS
      <3>1. i = req[r].id
        BY <1>3, <2>1 DEF Known
      <3>2. \A s \in Requests : req[s].id = i => s = r
        BY <1>3, <2>1, <3>1
      <3> QED
        BY <3>1, <3>2 DEF Known, KnownBy
    <2>3. /\ \A u \in Servers, e \in Envs : realm[<<u, e>>].owner \in Ids =>
                Known(realm[<<u, e>>].owner) /\ u = Url(row[realm[<<u, e>>].owner])
          /\ \A e \in Envs : vault[e] \in Servers => \E i \in Ids : Known(i)
          /\ Clears(req[r])
      BY <1>5 DEF KeycloakInv, RealmsKnown
    <2> QED
      BY <2>2, <2>3 DEF RealmsOf
  <1> QED
    BY <1>1, <1>2, <1>3, <1>4, <1>5

\* The next state of everything from the next state of r and of i.
LEMMA TurnStep ==
    ASSUME KeycloakInv, NEW r \in Requests, NEW n, Turns(r, n), NEW i \in Ids,
           n.id \in {0, i}, Plain',
           Without({"overlap"})' =>
               /\ \A s \in Requests : s # r => req[s].id = 0
               /\ \A j \in Ids : Present(j)' => j = i
               /\ n.id # 0 => Current(n)'
               /\ IssuerOf(i)' /\ \A j \in Ids : OutcomeOf(j)',
           Without({"outsider", "overlap", "crash"})' => UsableOf(i, n)' /\ Progress(n)',
           Without({"kept", "overlap", "crash"})' => RealmsOf(i, n)'
    PROVE  KeycloakInv'
  <1>1. req'[r] = n /\ \A s \in Requests : s # r => Akin(req'[s], req[s])
    BY DEF Turns
  <1>2. Without({"overlap"})' => \A s \in Requests : s # r => req'[s].id = 0
    BY <1>1 DEF Akin
  <1>3. SoloRequest'
    BY <1>1, <1>2 DEF SoloRequest, Current, Url, Same, Present
  <1>4. IssuerCurrent'
    BY DEF IssuerCurrent, IssuerOf, Plain, BoundExists, Present
  <1>5. OutcomeExplained'
    BY DEF OutcomeExplained, OutcomeOf
  <1>6. ASSUME NEW s \in Requests, s # r, Without({"overlap"})'
        PROVE  req'[s].id = 0 /\ req'[s].pc \notin Providers \cup Deleters
    <2>1. req'[s] \in RequestStates /\ Shaped(req[s])' /\ req'[s].id = 0
      BY <1>2, <1>6 DEF Plain, TypeOK, OnlyLast
    <2> QED
      BY <2>1 DEF Shaped, Registrar, Providers, Writers, Deleters
  <1>7. ProvisionedKept'
    <2> SUFFICES ASSUME Without({"outsider", "overlap", "crash"})'
                 PROVE  /\ \A j \in Ids :
                              /\ Present(j)' /\ row'[j].enabled /\ row'[j].prov = "yes"
                              /\ \A s \in Requests : req'[s].id = j => req'[s].pc \notin Deleters
                              => \A e \in Envs : Provisioned(j, e)'
                        /\ \A s \in Requests : Progress(req[s])'
      BY DEF ProvisionedKept
    <2>1. Without({"overlap"})'
      BY DEF Without
    <2>2. UsableOf(i, n)' /\ Progress(n)'
      OBVIOUS
    <2>3. ASSUME NEW s \in Requests PROVE Progress(req[s])'
      <3>1. CASE s = r
        BY <1>1, <2>2, <3>1 DEF Progress, Provisioned, Url, Spot
      <3>2. CASE s # r
        BY <1>6, <2>1, <3>2 DEF Progress
      <3> QED
        BY <3>1, <3>2
    <2>4. ASSUME NEW j \in Ids, Present(j)', row'[j].enabled, row'[j].prov = "yes",
                 \A s \in Requests : req'[s].id = j => req'[s].pc \notin Deleters
          PROVE  \A e \in Envs : Provisioned(j, e)'
      <3>1. j = i
        BY <2>1, <2>4
      <3>2. n.pc \notin Deleters
        <4>1. Shaped(n) /\ n \in RequestStates
          BY <1>1 DEF Plain, OnlyLast, Shaped, Turns
        <4>2. n.pc \in Deleters => n.id = i
          BY <4>1 DEF Shaped, Deleters, Registrar
        <4> QED
          BY <1>1, <2>4, <3>1, <4>2
      <3> QED
        BY <2>2, <2>4, <3>1, <3>2 DEF UsableOf
    <2> QED
      BY <2>3, <2>4
  <1>8. RealmsKnown'
    <2> SUFFICES ASSUME Without({"kept", "overlap", "crash"})'
                 PROVE  /\ \A u \in Servers, e \in Envs : realm'[<<u, e>>].owner \in Ids =>
                              /\ Known(realm[<<u, e>>].owner)'
                              /\ u = Url(row[realm[<<u, e>>].owner])'
                        /\ \A e \in Envs : vault'[e] \in Servers => \E j \in Ids : Known(j)'
                        /\ \A s \in Requests : Clears(req[s])'
      BY DEF RealmsKnown
    <2>1. Without({"overlap"})' /\ RealmsOf(i, n)'
      BY DEF Without
    <2>2. KnownBy(i, n)' => Known(i)'
      BY <1>1 DEF KnownBy, Known, Present
    <2>3. ASSUME NEW s \in Requests PROVE Clears(req[s])'
      <3>1. CASE s = r
        BY <1>1, <2>1, <3>1 DEF RealmsOf, Clears
      <3>2. CASE s # r
        BY <1>6, <2>1, <3>2 DEF Clears
      <3> QED
        BY <3>1, <3>2
    <2>4. ASSUME NEW u \in Servers, NEW e \in Envs, realm'[<<u, e>>].owner \in Ids
          PROVE  Known(realm[<<u, e>>].owner)' /\ u = Url(row[realm[<<u, e>>].owner])'
      <3>1. realm'[<<u, e>>].owner = i /\ KnownBy(i, n)' /\ u = Url(row[i])'
        BY <2>1, <2>4 DEF RealmsOf
      <3> QED
        BY <2>2, <3>1 DEF Known, Present, Url
    <2>5. \A e \in Envs : vault'[e] \in Servers => \E j \in Ids : Known(j)'
      BY <2>1, <2>2 DEF RealmsOf
    <2> QED
      BY <2>3, <2>4, <2>5
  <1> QED
    BY <1>3, <1>4, <1>5, <1>7, <1>8 DEF KeycloakInv, Plain

-----------------------------------------------------------------------------
(***************************************************************************)
(* Steps that change the state of one request and nothing else.            *)
(***************************************************************************)

\* The mishaps and the count of requests after a step.
Noted == mishaps \subseteq mishaps' /\ mishaps' \subseteq Kinds /\ started' \in 0 .. MaxStarts

\* A step without a mishap, or with a note.
LEMMA NotedIs ==
    ASSUME TypeOK, UNCHANGED started
    PROVE  (UNCHANGED mishaps => Noted) /\ \A K : Note(K) => Noted /\ K \subseteq mishaps'
  BY NoteIs DEF Noted, TypeOK

\* What the parts ask of the new state n of a request in state o.
Fits(o, n) ==
    /\ n \in RequestStates /\ Shaped(n) /\ n.id \in {0, o.id} /\ n.pc \notin Registrar
    /\ n.pc \in Writers \cup {"delRealm"} =>
          n.swapped \/ realm[Spot(n)].owner \in {Nobody, n.id}
    /\ o.pc \in Deleters => n.pc \in Deleters
    /\ Without({"overlap"})' /\ n.id # 0 => Current(n)
    /\ Without({"outsider", "overlap", "crash"})' => Progress(n)
    /\ Without({"kept", "overlap", "crash"})' =>
          /\ o.mine.enabled => (n.id = o.id /\ n.mine.enabled) \/ row[o.id].enabled
          /\ Clears(n)

\* A request goes on with nothing else changed.
LEMMA QuietStep ==
    ASSUME KeycloakInv, NEW r \in Requests, NEW o, o = req[r], o.id # 0, NEW n, Goes(r, n),
           Noted, Fits(o, n), Locks(r, n), UNCHANGED <<row, last, inst, realm, taken, vault>>
    PROVE  KeycloakInv'
  <1>0. /\ o \in RequestStates /\ o.id \in Ids /\ o.id <= last /\ last \in Nat
        /\ n \in RequestStates /\ TypeOK /\ Plain
    BY AloneIs, ConstantsAre DEF KeycloakInv, TypeOK, Fits, Plain
  <1>1. Turns(r, n)
    BY <1>0, GoesTurns DEF Noted
  <1>2. LookedAt'
    BY <1>0, LookedStays DEF Fits
  <1>3. n.id <= last
    BY <1>0 DEF Fits
  <1>4. n.pc # "upsert"
    BY DEF Fits, Registrar
  <1>5. Plain'
    <2>1. Alike /\ Typed
      BY <1>0 DEF Alike, Typed, TypeOK
    <2>2. Shaped(n)
      BY DEF Fits
    <2> QED
      BY <1>0, <1>1, <1>2, <1>3, <1>4, <2>1, <2>2, PlainStep
  <1>6. mishaps \subseteq mishaps'
    BY DEF Noted
  <1>7. ASSUME Without({"overlap"})'
        PROVE  /\ \A s \in Requests : s # r => req[s].id = 0
               /\ \A j \in Ids : Present(j)' => j = o.id
               /\ n.id # 0 => Current(n)'
               /\ IssuerOf(o.id)' /\ \A j \in Ids : OutcomeOf(j)'
    <2>1. Without({"overlap"})
      BY <1>6, <1>7, MishapsGrow
    <2>2. n.id # 0 => Current(n)'
      BY <1>7 DEF Fits, Current, Present, Url
    <2>3. \A j \in Ids : OutcomeOf(j)
      BY <2>1 DEF KeycloakInv, OutcomeExplained, OutcomeOf
    <2> QED
      BY <2>1, <2>2, <2>3, AloneIs DEF Present, IssuerOf, OutcomeOf
  <1>8. ASSUME Without({"outsider", "overlap", "crash"})'
        PROVE  UsableOf(o.id, n)' /\ Progress(n)'
    <2>1. Without({"outsider", "overlap", "crash"})
      BY <1>6, <1>8, MishapsGrow
    <2>2. UsableOf(o.id, o) /\ Progress(n)
      BY <1>8, <2>1, AloneIs DEF Fits
    <2>3. UsableOf(o.id, n)'
      BY <2>2 DEF UsableOf, Fits, Present, Provisioned, Url
    <2> QED
      BY <2>2, <2>3 DEF Progress, Provisioned, Url, Spot
  <1>9. ASSUME Without({"kept", "overlap", "crash"})'
        PROVE  RealmsOf(o.id, n)'
    <2>1. Without({"kept", "overlap", "crash"})
      BY <1>6, <1>9, MishapsGrow
    <2>2. RealmsOf(o.id, o)
      BY <2>1, AloneIs
    <2>3. KnownBy(o.id, o) => KnownBy(o.id, n)'
      BY <1>9 DEF KnownBy, Present, Fits
    <2>4. Clears(n)'
      BY <1>9 DEF Fits, Clears
    <2> QED
      BY <2>2, <2>3, <2>4 DEF RealmsOf, Url
  <1>10. n.id \in {0, o.id}
    BY DEF Fits
  <1> QED
    BY <1>0, <1>1, <1>5, <1>7, <1>8, <1>9, <1>10, TurnStep

\* A request for application i begins, with the row as it is.
LEMMA BeginStep ==
    ASSUME KeycloakInv, NEW r \in Requests, NEW n \in RequestStates, Begin(r, n),
           NEW i \in Ids, Present(i), n.id = i, n.seen = row[i], n.mine = row[i], Shaped(n),
           n.pc \in {"keys", "bind", "again", "delVault", "env"},
           n.pc = "keys" => n.env = "dev", n.pc = "bind" => row[i].enabled,
           UNCHANGED <<row, last, inst, realm, taken, vault>>
    PROVE  KeycloakInv'
  <1>0. Plain /\ TypeOK /\ i = last /\ started \in 0 .. MaxStarts
    BY DEF KeycloakInv, Plain, OnlyLast, TypeOK
  <1>1. /\ Goes(r, n) /\ Noted
        /\ Without({"overlap"})' => \A s \in Requests : req[s].id # i
    <2>1. Goes(r, n) /\ started' \in 0 .. MaxStarts
      BY <1>0, ConstantsAre DEF Begin
    <2>2. mishaps \subseteq mishaps' /\ mishaps' \subseteq Kinds
      BY <1>0, NoteIs DEF Begin
    <2>3. Without({"overlap"})' => \A s \in Requests : req[s].id # i
      <3>1. When(\E s \in Requests : n.id # 0 /\ req[s].id = n.id, "overlap") \subseteq mishaps'
        BY <1>0, NoteIs DEF Begin
      <3> QED
        BY <3>1, ConstantsAre DEF When, Without
    <2> QED
      BY <2>1, <2>2, <2>3 DEF Noted
  <1>2. Turns(r, n)
    BY <1>0, <1>1, GoesTurns DEF Noted
  <1>3. Plain'
    <2>1. Alike /\ Typed /\ Locks(r, n)
      BY <1>0 DEF Alike, Typed, TypeOK, Locks
    <2>2. LookedAt'
      BY <1>0, <1>1, LookedStays DEF Writers
    <2>3. n.id <= last
      BY <1>0, ConstantsAre
    <2> QED
      BY <1>0, <1>2, <2>1, <2>2, <2>3, PlainStep
  <1>6. mishaps \subseteq mishaps'
    BY <1>1 DEF Noted
  <1>7. ASSUME Without({"overlap"})'
        PROVE  /\ \A s \in Requests : req[s].id = 0
               /\ \A j \in Ids : Present(j)' => j = i
               /\ n.id # 0 => Current(n)'
               /\ IssuerOf(i)' /\ \A j \in Ids : OutcomeOf(j)'
    <2>1. Without({"overlap"})
      BY <1>6, <1>7, MishapsGrow
    <2>2. ASSUME NEW s \in Requests PROVE req[s].id = 0
      <3> SUFFICES ASSUME req[s].id # 0 PROVE FALSE
        OBVIOUS
      <3>1. Present(req[s].id) /\ req[s].id \in Ids
        BY <2>1, AloneIs DEF Current
      <3>2. req[s].id = i
        BY <1>0, <3>1 DEF Plain, OnlyLast
      <3> QED
        BY <1>1, <1>7, <3>2
    <2>3. \A j \in Ids : Present(j)' => j = i
      BY <1>0 DEF Plain, OnlyLast, Present
    <2>4. Current(n)'
      BY DEF Current, Same, Present, Writers, Binders
    <2>5. IssuerOf(i) /\ \A j \in Ids : OutcomeOf(j)
      BY <2>1 DEF KeycloakInv, IssuerCurrent, OutcomeExplained, IssuerOf, OutcomeOf
    <2> QED
      BY <2>2, <2>3, <2>4, <2>5 DEF IssuerOf, OutcomeOf, Present
  <1>8. ASSUME Without({"outsider", "overlap", "crash"})'
        PROVE  UsableOf(i, n)' /\ Progress(n)'
    <2>1. Without({"outsider", "overlap", "crash"}) /\ Without({"overlap"})'
      BY <1>6, <1>8, MishapsGrow DEF Without
    <2>2. \A s \in Requests : req[s].id # i
      BY <1>1, <2>1
    <2>3. Present(i) /\ row[i].enabled /\ row[i].prov = "yes" => \A e \in Envs : Provisioned(i, e)
      BY <2>1, <2>2 DEF KeycloakInv, ProvisionedKept
    <2>4. UsableOf(i, n)'
      BY <2>3 DEF UsableOf, Present, Provisioned, Url
    <2>5. Progress(n)'
      BY DEF Progress, Providers, Writers, Shaped
    <2> QED
      BY <2>4, <2>5
  <1>9. ASSUME Without({"kept", "overlap", "crash"})'
        PROVE  RealmsOf(i, n)'
    <2>1. Without({"kept", "overlap", "crash"}) /\ Without({"overlap"})'
      BY <1>6, <1>9, MishapsGrow DEF Without
    <2>2. \A s \in Requests : req[s].id # i
      BY <1>1, <2>1
    <2>3. \A j \in Ids : Known(j) => j = i /\ KnownBy(i, n)
      BY <1>0, <2>2 DEF Known, KnownBy, Plain, OnlyLast
    <2>4. /\ \A u \in Servers, e \in Envs : realm[<<u, e>>].owner \in Ids =>
                Known(realm[<<u, e>>].owner) /\ u = Url(row[realm[<<u, e>>].owner])
          /\ \A e \in Envs : vault[e] \in Servers => \E j \in Ids : Known(j)
      BY <2>1 DEF KeycloakInv, RealmsKnown
    <2>5. Clears(n)
      BY DEF Clears, Deleters
    <2>6. RealmsOf(i, n)
      BY <2>3, <2>4, <2>5 DEF RealmsOf
    <2> QED
      BY <2>6 DEF RealmsOf, Clears, KnownBy, Present, Url
  <1> QED
    BY <1>2, <1>3, <1>7, <1>8, <1>9, TurnStep

-----------------------------------------------------------------------------
(***************************************************************************)
(* Steps that commit the row.                                              *)
(***************************************************************************)

\* A commit changes the row of the application as the session saw it.
LEMMA CommittedIs ==
    ASSUME TypeOK, NEW q \in RequestStates, q.id \in Ids
    PROVE  /\ Committed(q) = [row EXCEPT ![q.id] = Merged(row[q.id], q)]
           /\ Merged(row[q.id], q) \in AppRows
  <1>1. row[q.id] \in AppRows
    BY DEF TypeOK
  <1> QED
    BY <1>1, MergedIs DEF Committed

\* What a request writes in the row when it ends: the outcome of an attempt.
Outcome(o, q) ==
    /\ q \in RequestStates /\ q.id = o.id /\ q.seen = o.seen
    /\ q.mine.enabled = o.mine.enabled /\ q.mine.bound = o.mine.bound
    /\ \/ q.mine.prov = "no" /\ q.mine.warn # None
       \/ q.mine.prov = "yes" /\ q.mine.warn = None

\* An attempt to activate ends, and its outcome is recorded.
LEMMA SavesStep ==
    ASSUME KeycloakInv, NEW r \in Requests, NEW o, o = req[r], o.pc \in Binders \cup Providers,
           NEW q, Outcome(o, q), row' = IF Present(o.id) THEN Committed(q) ELSE row,
           Ends(r), Noted, UNCHANGED <<last, inst, realm, taken, vault>>,
           Without({"outsider", "overlap", "crash"})' /\ q.mine.prov = "yes" =>
               \A e \in Envs : Provisioned(o.id, e)
    PROVE  KeycloakInv'
  <1>0. /\ o \in RequestStates /\ o.id \in Ids /\ o.id # 0 /\ o.id <= last /\ last \in Nat
        /\ TypeOK /\ Plain /\ Idle \in RequestStates /\ Shaped(o) /\ row[o.id] \in AppRows
    <2>1. o \in RequestStates /\ Shaped(o) /\ TypeOK /\ Plain
      BY DEF KeycloakInv, TypeOK, OnlyLast, Plain
    <2>2. o.id # 0
      BY <2>1 DEF Shaped, Registrar, Binders, Providers, Writers
    <2> QED
      BY <2>1, <2>2, AloneIs, FirstAre DEF TypeOK
  <1>1. o.mine.bound = o.seen.bound
    BY <1>0 DEF Shaped
  <1>2. q \in RequestStates /\ q.id = o.id /\ q.mine.bound = q.seen.bound
    BY <1>1 DEF Outcome
  <1>3. /\ row' \in [Ids -> AppRows]
        /\ \A j \in Ids : j # o.id => row'[j] = row[j]
        /\ Present(o.id) => row'[o.id] = Merged(row[o.id], q)
        /\ ~Present(o.id) => row' = row
    BY <1>0, <1>2, CommittedIs DEF TypeOK
  <1>4. Alike
    <2>1. Merged(row[o.id], q).present = row[o.id].present
          /\ Merged(row[o.id], q).bound = row[o.id].bound
      BY <1>2 DEF Merged
    <2> QED
      BY <1>3, <2>1 DEF Alike
  <1>5. Goes(r, Idle) /\ Turns(r, Idle)
    BY <1>0, GoesTurns DEF Noted, Ends
  <1>6. Plain'
    <2>1. LookedAt'
      BY <1>0, <1>5, LookedStays, IdleIs DEF Writers
    <2>2. Typed /\ Shaped(Idle) /\ Idle.id <= last /\ Locks(r, Idle) /\ Idle.pc # "upsert"
      BY <1>0, IdleIs DEF Typed, TypeOK, Shaped, Locks, Registrar, Binders, Providers, Writers, Deleters
    <2> QED
      BY <1>0, <1>4, <1>5, <2>1, <2>2, PlainStep
  <1>7. mishaps \subseteq mishaps'
    BY DEF Noted
  <1>8. ASSUME Without({"overlap"})
        PROVE  /\ Present(o.id) /\ row'[o.id].enabled = o.mine.enabled
               /\ row'[o.id].prov = q.mine.prov /\ row'[o.id].warn = q.mine.warn
               /\ o.mine.enabled \/ ~row[o.id].enabled
    <2>1. Present(o.id) /\ Same(o.seen, row[o.id])
      BY <1>0, <1>8, AloneIs DEF Current
    <2>2. o.mine.enabled \/ ~o.seen.enabled
      BY <1>0 DEF Shaped
    <2> QED
      BY <1>3, <2>1, <2>2 DEF Same, Merged, Outcome
  <1>9. Url(row[o.id])' = Url(row[o.id])
    BY <1>0, <1>4 DEF Url, Alike
  <1>10. ASSUME Without({"overlap"})'
         PROVE  /\ \A s \in Requests : s # r => req[s].id = 0
                /\ \A j \in Ids : Present(j)' => j = o.id
                /\ IssuerOf(o.id)' /\ \A j \in Ids : OutcomeOf(j)'
    <2>1. Without({"overlap"})
      BY <1>7, <1>10, MishapsGrow
    <2>2. \A j \in Ids : OutcomeOf(j)
      BY <2>1 DEF KeycloakInv, OutcomeExplained, OutcomeOf
    <2>3. \A j \in Ids : OutcomeOf(j)'
      BY <1>3, <1>8, <2>1, <2>2 DEF OutcomeOf, Outcome
    <2>4. /\ \A s \in Requests : s # r => req[s].id = 0
          /\ \A j \in Ids : Present(j) => j = o.id
          /\ IssuerOf(o.id)
      BY <1>0, <2>1, AloneIs
    <2> QED
      BY <1>0, <1>4, <2>3, <2>4 DEF Present, IssuerOf, Alike
  <1>11. ASSUME Without({"outsider", "overlap", "crash"})'
         PROVE  UsableOf(o.id, Idle)' /\ Progress(Idle)'
    <2>1. Without({"overlap"})
      BY <1>7, <1>11 DEF Without
    <2>2. row'[o.id].prov = "yes" => \A e \in Envs : Provisioned(o.id, e)
      BY <1>8, <1>11, <2>1
    <2>3. \A e \in Envs : Provisioned(o.id, e) => Provisioned(o.id, e)'
      BY <1>9 DEF Provisioned
    <2>4. Progress(Idle)'
      BY IdleIs DEF Progress, Providers, Writers
    <2> QED
      BY <2>2, <2>3, <2>4 DEF UsableOf
  <1>12. ASSUME Without({"kept", "overlap", "crash"})'
         PROVE  RealmsOf(o.id, Idle)'
    <2>1. Without({"kept", "overlap", "crash"}) /\ Without({"overlap"})
      BY <1>7, <1>12, MishapsGrow DEF Without
    <2>2. RealmsOf(o.id, o)
      BY <1>0, <2>1, AloneIs
    <2>3. KnownBy(o.id, o) => KnownBy(o.id, Idle)'
      BY <1>0, <1>4, <1>8, <2>1 DEF KnownBy, Present, Alike
    <2>4. Clears(Idle)'
      BY IdleIs DEF Clears, Deleters
    <2> QED
      BY <1>9, <2>2, <2>3, <2>4 DEF RealmsOf
  <1> QED
    BY <1>0, <1>5, <1>6, <1>10, <1>11, <1>12, TurnStep, IdleIs

\* The new outcome and its reason are an outcome.
LEMMA OutcomeIs ==
    ASSUME NEW o \in RequestStates, NEW p \in {"yes", "no"}, NEW w \in Warnings \cup {None},
           w = None <=> p = "yes"
    PROVE  /\ Outcome(o, [o EXCEPT !.mine.prov = p, !.mine.warn = w])
           /\ [o EXCEPT !.mine.prov = p, !.mine.warn = w].mine.prov = p
  <1> DEFINE m == [o.mine EXCEPT !.prov = p, !.warn = w]
             q == [o EXCEPT !.mine = m]
  <1>1. m \in AppRows
    BY StateIs DEF AppRows
  <1>2. /\ m.enabled = o.mine.enabled /\ m.bound = o.mine.bound
        /\ m.prov = p /\ m.warn = w
    BY StateIs DEF AppRows
  <1> HIDE DEF m
  <1>3. q \in RequestStates /\ q.id = o.id /\ q.seen = o.seen /\ q.mine = m
    BY <1>1 DEF RequestStates
  <1>4. Outcome(o, q) /\ q.mine.prov = p
    BY <1>2, <1>3 DEF Outcome
  <1>5. [o EXCEPT !.mine.prov = p, !.mine.warn = w] = q
    BY StateIs DEF RequestStates, AppRows, m
  <1> QED
    BY <1>4, <1>5

\* An attempt fails.
LEMMA FailsStep ==
    ASSUME KeycloakInv, NEW r \in Requests, req[r].pc \in Binders \cup Providers,
           NEW w \in Warnings, Fails(r, w), Noted, UNCHANGED <<last, inst, realm, taken, vault>>
    PROVE  KeycloakInv'
  <1>1. PICK o \in RequestStates : o = req[r]
    BY DEF KeycloakInv, TypeOK
  <1>2. PICK q : q = Marked(o, w)
    OBVIOUS
  <1>3. Outcome(o, q) /\ q.mine.prov = "no"
    BY <1>1, <1>2, OutcomeIs, ConstantsAre DEF Marked
  <1>4. q.id = o.id
    BY <1>3 DEF Outcome
  <1>5. row' = (IF Present(o.id) THEN Committed(q) ELSE row) /\ Ends(r)
    BY <1>1, <1>2, <1>4 DEF Fails
  <1> QED
    BY <1>1, <1>3, <1>5, SavesStep

\* A request ends with nothing said.
LEMMA EndsStep ==
    ASSUME KeycloakInv, NEW r \in Requests, req[r].pc \in Binders \cup Providers,
           Ends(r), Noted, UNCHANGED <<row, last, inst, realm, taken, vault>>,
           Without({"overlap"}) => req[r].seen.enabled = req[r].mine.enabled
    PROVE  KeycloakInv'
  <1>1. PICK o \in RequestStates : o = req[r]
    BY DEF KeycloakInv, TypeOK
  <1>2. o.id # 0 /\ o.pc \notin Deleters
    BY <1>1 DEF KeycloakInv, OnlyLast, Shaped, Registrar, Binders, Providers, Writers, Deleters
  <1>3. mishaps \subseteq mishaps'
    BY DEF Noted
  <1>4. Fits(o, Idle)
    <2>1. Idle \in RequestStates /\ Shaped(Idle) /\ Idle.pc \notin Registrar
      BY FirstAre, IdleIs DEF Shaped, Registrar, Binders, Providers, Writers, Deleters
    <2>2. Progress(Idle) /\ Clears(Idle)
      BY IdleIs DEF Progress, Clears, Providers, Writers, Deleters
    <2>3. ASSUME Without({"kept", "overlap", "crash"})', o.mine.enabled PROVE row[o.id].enabled
      <3>1. Without({"overlap"})
        BY <1>3, <2>3 DEF Without
      <3> QED
        BY <1>1, <1>2, <2>3, <3>1, AloneIs DEF Current, Same
    <2> QED
      BY <1>2, <2>1, <2>2, <2>3, IdleIs DEF Fits, Writers
  <1>5. Locks(r, Idle)
    BY IdleIs DEF Locks
  <1> QED
    BY <1>1, <1>2, <1>4, <1>5, QuietStep DEF Ends

\* A step of provision fails.
LEMMA ProvisionFailsStep ==
    ASSUME KeycloakInv, NEW r \in Requests, req[r].pc \in Providers,
           ProvisionFails(r), Noted, UNCHANGED <<last, inst, realm, taken, vault>>
    PROVE  KeycloakInv'
  <1>1. CASE req[r].kind = "reprovision"
    <2>1. req[r].seen.enabled /\ req[r].mine.enabled
      BY <1>1 DEF KeycloakInv, OnlyLast, Shaped
    <2> QED
      BY <1>1, <2>1, EndsStep DEF ProvisionFails
  <1>2. CASE req[r].kind # "reprovision"
    <2>1. "provisioning_failed" \in Warnings
      BY DEF Warnings
    <2> QED
      BY <1>2, <2>1, FailsStep DEF ProvisionFails
  <1> QED
    BY <1>1, <1>2

\* What a request that binds its application to k becomes.
Bound(o, k) ==
    LET m == [o.mine EXCEPT !.bound = k]
    IN  [o EXCEPT !.seen = m, !.mine = [m EXCEPT !.enabled = TRUE], !.key = None,
                  !.pc = "check", !.env = "dev"]

\* The fields of that state.
LEMMA BoundIs ==
    ASSUME NEW o \in RequestStates, NEW k \in Instances \cup {None}
    PROVE  LET n == Bound(o, k) IN
           /\ n \in RequestStates /\ n.pc = "check" /\ n.kind = o.kind /\ n.id = o.id
           /\ n.env = "dev" /\ n.key = None
           /\ n.seen.enabled = o.mine.enabled /\ n.seen.prov = o.mine.prov
           /\ n.seen.warn = o.mine.warn /\ n.seen.bound = k
           /\ n.mine.enabled /\ n.mine.prov = o.mine.prov
           /\ n.mine.warn = o.mine.warn /\ n.mine.bound = k
  <1>1. PICK m : m = [o.mine EXCEPT !.bound = k]
    OBVIOUS
  <1>2. /\ m \in AppRows /\ m.enabled = o.mine.enabled /\ m.prov = o.mine.prov
        /\ m.warn = o.mine.warn /\ m.bound = k
    BY <1>1, StateIs DEF AppRows
  <1>3. PICK x : x = [m EXCEPT !.enabled = TRUE]
    OBVIOUS
  <1>4. /\ x \in AppRows /\ x.enabled /\ x.prov = o.mine.prov
        /\ x.warn = o.mine.warn /\ x.bound = k
    BY <1>2, <1>3 DEF AppRows
  <1>5. Bound(o, k) = [o EXCEPT !.seen = m, !.mine = x, !.key = None, !.pc = "check", !.env = "dev"]
    BY <1>1, <1>3 DEF Bound
  <1>6. "check" \in Providers /\ "dev" \in Envs
    BY DEF Providers, Envs
  <1>7. PICK n : n = Bound(o, k)
    OBVIOUS
  <1>8. /\ n \in RequestStates /\ n.pc = "check" /\ n.kind = o.kind /\ n.id = o.id
        /\ n.env = "dev" /\ n.key = None /\ n.seen = m /\ n.mine = x
    <2>1. o = [pc |-> o.pc, kind |-> o.kind, id |-> o.id, env |-> o.env, seen |-> o.seen,
               mine |-> o.mine, key |-> o.key, pay |-> o.pay, url |-> o.url,
               swapped |-> o.swapped]
      BY DEF RequestStates
    <2>2. n = [pc |-> "check", kind |-> o.kind, id |-> o.id, env |-> "dev", seen |-> m,
               mine |-> x, key |-> None, pay |-> o.pay, url |-> o.url, swapped |-> o.swapped]
      BY <1>5, <1>7, <2>1
    <2> QED
      BY <1>2, <1>4, <1>6, <2>2, StateIs DEF RequestStates
  <1> QED
    BY <1>2, <1>4, <1>7, <1>8

\* The commit of the binding writes bound, and only where it was not set.
LEMMA BindsIs ==
    ASSUME TypeOK, NEW r \in Requests, NEW o \in RequestStates, o = req[r], o.id \in Ids,
           NEW k \in Instances \cup {None}, o.mine = o.seen, Binds(r, k)
    PROVE  \/ Ends(r) /\ UNCHANGED row
           \/ /\ Goes(r, Bound(o, k)) /\ row' \in [Ids -> AppRows]
              /\ \A j \in Ids : j # o.id => row'[j] = row[j]
              /\ k = o.mine.bound => row' = row
              /\ /\ row'[o.id].present = row[o.id].present
                 /\ row'[o.id].enabled = row[o.id].enabled
                 /\ row'[o.id].prov = row[o.id].prov /\ row'[o.id].warn = row[o.id].warn
                 /\ row'[o.id].bound = IF k = o.mine.bound THEN row[o.id].bound ELSE k
  <1>1. PICK m : m = [o.mine EXCEPT !.bound = k]
    OBVIOUS
  <1>2. /\ m \in AppRows /\ m.enabled = o.mine.enabled /\ m.prov = o.mine.prov
        /\ m.warn = o.mine.warn /\ m.bound = k
    BY <1>1, StateIs DEF AppRows
  <1>3. PICK q : q = [o EXCEPT !.mine = m]
    OBVIOUS
  <1>4. q \in RequestStates /\ q.id = o.id /\ q.seen = o.mine /\ q.mine = m
    BY <1>2, <1>3 DEF RequestStates
  <1>5. [req[r] EXCEPT !.mine.bound = k] = q
    BY <1>1, <1>3, StateIs DEF RequestStates, AppRows
  <1>6. Bound(o, k) = [q EXCEPT !.seen = q.mine, !.mine.enabled = TRUE, !.key = None,
                                !.pc = "check", !.env = "dev"]
    BY <1>1, <1>2, <1>3 DEF Bound, RequestStates
  <1>7. \/ Ends(r) /\ UNCHANGED row
        \/ row' = Committed(q) /\ Goes(r, Bound(o, k))
    BY <1>5, <1>6 DEF Binds
  <1>8. Committed(q) = [row EXCEPT ![o.id] = Merged(row[o.id], q)] /\ Merged(row[o.id], q) \in AppRows
    BY <1>4, CommittedIs
  <1>9. LET x == Merged(row[o.id], q) IN
        /\ x.present = row[o.id].present /\ x.enabled = row[o.id].enabled
        /\ x.prov = row[o.id].prov /\ x.warn = row[o.id].warn /\ x.cluster = row[o.id].cluster
        /\ x.bound = IF k = o.mine.bound THEN row[o.id].bound ELSE k
    BY <1>2, <1>4 DEF Merged
  <1>10. k = o.mine.bound => Merged(row[o.id], q) = row[o.id]
    <2>1. row[o.id] \in AppRows
      BY DEF TypeOK
    <2> QED
      BY <1>8, <1>9, <2>1 DEF AppRows
  <1>11. row \in [Ids -> AppRows]
    BY DEF TypeOK
  <1> QED
    BY <1>7, <1>8, <1>9, <1>10, <1>11

\* An application is bound: to the legacy installation, or to the instance the
\* request holds the lock of.
LEMMA BindsStep ==
    ASSUME KeycloakInv, NEW r \in Requests, NEW o, o = req[r],
           o.pc \in {"instance", "connect"}, NEW k \in Instances \cup {None},
           o.mine.bound = k \/ (o.mine.bound = None /\ ~o.mine.enabled),
           k # None => inst[k].exists /\ o.pc = "connect" /\ o.key = k,
           Binds(r, k), UNCHANGED <<last, inst, realm, taken, vault, started, mishaps>>
    PROVE  KeycloakInv'
  <1>0. /\ o \in RequestStates /\ Shaped(o) /\ o.id \in Ids /\ o.id # 0 /\ o.id <= last
        /\ last \in Nat /\ TypeOK /\ Plain /\ o.mine = o.seen /\ Noted
        /\ o.kind \in {"create", "activate"} /\ o.pc \notin Deleters
    <2>1. o \in RequestStates /\ Shaped(o) /\ TypeOK /\ Plain
      BY DEF KeycloakInv, TypeOK, OnlyLast, Plain
    <2>2. o.id # 0 /\ o.mine = o.seen /\ o.kind \in {"create", "activate"}
      BY <2>1 DEF Shaped, Registrar, Binders
    <2> QED
      BY <2>1, <2>2, AloneIs, NotedIs DEF TypeOK, Deleters
  <1>1. CASE Ends(r) /\ UNCHANGED row
    BY <1>0, <1>1, EndsStep DEF Binders
  <1>2. CASE ~(Ends(r) /\ UNCHANGED row)
    <2>1. PICK n : n = Bound(o, k)
      OBVIOUS
    <2>2. /\ n \in RequestStates /\ n.pc = "check" /\ n.kind = o.kind /\ n.id = o.id
          /\ n.env = "dev" /\ n.key = None
          /\ n.seen.enabled = o.mine.enabled /\ n.seen.prov = o.mine.prov
          /\ n.seen.warn = o.mine.warn /\ n.seen.bound = k
          /\ n.mine.enabled /\ n.mine.prov = o.mine.prov
          /\ n.mine.warn = o.mine.warn /\ n.mine.bound = k
      BY <1>0, <2>1, BoundIs
    <2>3. /\ Goes(r, n) /\ row' \in [Ids -> AppRows]
          /\ \A j \in Ids : j # o.id => row'[j] = row[j]
          /\ k = o.mine.bound => row' = row
          /\ row'[o.id].present = row[o.id].present
          /\ row'[o.id].enabled = row[o.id].enabled
          /\ row'[o.id].prov = row[o.id].prov /\ row'[o.id].warn = row[o.id].warn
          /\ row'[o.id].bound = IF k = o.mine.bound THEN row[o.id].bound ELSE k
      BY <1>0, <1>2, <2>1, BindsIs
    <2>4. Turns(r, n) /\ \A s \in Requests : s # r => req'[s] = req[s]
      BY <1>0, <2>2, <2>3, GoesTurns DEF Noted
    <2>5. Shaped(n) /\ n.pc \in Providers
      BY <1>0, <2>2 DEF Shaped, Registrar, Binders, Providers, Writers, Deleters
    <2>6. \A j \in Ids : /\ Present(j)' = Present(j)
                         /\ row'[j].bound # row[j].bound => k # None /\ row'[j].bound = k
      BY <2>3 DEF Present
    <2>7. Plain'
      <3>1. TypeOK'
        BY <1>0, <2>3, <2>4 DEF TypeOK, Turns
      <3>2. OnlyLast'
        <4>1. \A j \in Ids : Present(j)' => j = last'
          BY <1>0, <2>6 DEF Plain, OnlyLast
        <4>2. ASSUME NEW s \in Requests PROVE Shaped(req[s])' /\ req'[s].id <= last'
          BY <1>0, <2>2, <2>4, <2>5 DEF Plain, OnlyLast, Turns, Shaped
        <4> QED
          BY <4>1, <4>2 DEF OnlyLast
      <3>3. BoundExists'
        <4> SUFFICES ASSUME NEW j \in Ids, Present(j)', row'[j].bound # None
                     PROVE  inst[row'[j].bound].exists
          BY DEF BoundExists
        <4> QED
          BY <1>0, <2>6 DEF Plain, BoundExists
      <3>4. InstLocked'
        BY <1>0, <2>2, <2>4 DEF Plain, InstLocked, Turns
      <3>5. UpsertsSound'
        <4> SUFFICES ASSUME NEW s \in Requests, req'[s].pc = "upsert"
                     PROVE  /\ inst[req'[s].key].exists
                            /\ Linked(req[s].key)' => req'[s].pay.url = inst[req'[s].key].url
          BY DEF UpsertsSound, Linked, Present
        <4>1. s # r /\ req'[s] = req[s]
          BY <2>2, <2>4 DEF Turns
        <4>2. k # None => req[s].key # k
          BY <1>0, <4>1 DEF Plain, InstLocked
        <4>3. Linked(req[s].key)' => Linked(req[s].key)
          BY <2>6, <4>1, <4>2 DEF Linked
        <4> QED
          BY <1>0, <4>1, <4>3 DEF Plain, UpsertsSound
      <3>6. LookedAt'
        BY <1>0, <2>2, <2>3, LookedStays DEF Writers
      <3> QED
        BY <3>1, <3>2, <3>3, <3>4, <3>5, <3>6 DEF Plain
    <2>8. ASSUME Without({"overlap"})
          PROVE  /\ Present(o.id) /\ Same(n.seen, row'[o.id])
                 /\ o.mine.enabled <=> row[o.id].enabled
                 /\ row'[o.id].bound = k
                 /\ ~o.mine.enabled => \A e \in Envs : vault[e] = None
      <3>1. Present(o.id) /\ Same(o.seen, row[o.id])
            /\ (~o.mine.enabled => \A e \in Envs : vault[e] = None)
        BY <1>0, <2>8, AloneIs DEF Current, Binders
      <3>2. row'[o.id].bound = k
        BY <1>0, <2>3, <3>1 DEF Same
      <3> QED
        BY <1>0, <2>2, <2>3, <3>1, <3>2 DEF Same
    <2>9. ASSUME Without({"overlap"})'
          PROVE  /\ \A s \in Requests : s # r => req[s].id = 0
                 /\ \A j \in Ids : Present(j)' => j = o.id
                 /\ n.id # 0 => Current(n)'
                 /\ IssuerOf(o.id)' /\ \A j \in Ids : OutcomeOf(j)'
      <3>1. Without({"overlap"})
        BY <2>9 DEF Without
      <3>2. /\ \A s \in Requests : s # r => req[s].id = 0
            /\ \A j \in Ids : Present(j) => j = o.id
            /\ IssuerOf(o.id)
        BY <1>0, <3>1, AloneIs
      <3>3. \A j \in Ids : OutcomeOf(j)
        BY <3>1 DEF KeycloakInv, OutcomeExplained, OutcomeOf
      <3>4. \A j \in Ids : OutcomeOf(j)'
        BY <2>3, <3>3 DEF OutcomeOf
      <3>5. Current(n)'
        BY <2>2, <2>3, <2>8, <3>1 DEF Current, Present, Same, Writers, Binders
      <3>6. IssuerOf(o.id)'
        <4>1. CASE k = o.mine.bound
          BY <2>3, <3>2, <4>1 DEF IssuerOf, Present
        <4>2. CASE k # o.mine.bound
          BY <2>8, <3>1, <4>2 DEF IssuerOf
        <4> QED
          BY <4>1, <4>2
      <3> QED
        BY <2>6, <3>2, <3>4, <3>5, <3>6
    <2>10. ASSUME Without({"outsider", "overlap", "crash"})'
           PROVE  UsableOf(o.id, n)' /\ Progress(n)'
      <3>1. Without({"outsider", "overlap", "crash"}) /\ Without({"overlap"})
        BY <2>10 DEF Without
      <3>2. UsableOf(o.id, o)
        BY <1>0, <3>1, AloneIs
      <3>3. row'[o.id].enabled => row' = row
        BY <2>3, <2>8, <3>1
      <3>4. UsableOf(o.id, n)'
        <4>1. CASE row'[o.id].enabled
          <5>1. row' = row
            BY <3>3, <4>1
          <5> QED
            BY <1>0, <3>2, <5>1 DEF UsableOf, Present, Provisioned, Url
        <4>2. CASE ~row'[o.id].enabled
          BY <4>2 DEF UsableOf
        <4> QED
          BY <4>1, <4>2
      <3>5. Progress(n)'
        BY <2>2 DEF Progress, Writers
      <3> QED
        BY <3>4, <3>5
    <2>11. ASSUME Without({"kept", "overlap", "crash"})'
           PROVE  RealmsOf(o.id, n)'
      <3>1. Without({"kept", "overlap", "crash"}) /\ Without({"overlap"})
        BY <2>11 DEF Without
      <3>2. RealmsOf(o.id, o)
        BY <1>0, <3>1, AloneIs
      <3>3. KnownBy(o.id, n)'
        BY <2>2, <2>6, <2>8, <1>0, <3>1 DEF KnownBy
      <3>4. Clears(n)'
        BY <2>2 DEF Clears, Deleters
      <3>5. KnownBy(o.id, o) => row' = row
        BY <2>3, <2>8, <3>1 DEF KnownBy
      <3> QED
        BY <3>2, <3>3, <3>4, <3>5 DEF RealmsOf, Url
    <2> QED
      BY <1>0, <2>2, <2>4, <2>7, <2>9, <2>10, <2>11, TurnStep
  <1> QED
    BY <1>1, <1>2

-----------------------------------------------------------------------------
(***************************************************************************)
(* The actions that leave everything but the request alone, or commit.     *)
(***************************************************************************)

\* A request about an application.
LEMMA Working ==
    ASSUME KeycloakInv, NEW r \in Requests, req[r].pc \notin {"idle"} \cup Registrar
    PROVE  /\ req[r] \in RequestStates /\ Shaped(req[r]) /\ req[r].id \in Ids /\ req[r].id # 0
           /\ TypeOK /\ row[req[r].id] \in AppRows
  <1>1. req[r] \in RequestStates /\ Shaped(req[r]) /\ TypeOK
    BY DEF KeycloakInv, TypeOK, OnlyLast
  <1>2. req[r].id # 0
    BY <1>1 DEF Shaped
  <1> QED
    BY <1>1, <1>2, AloneIs DEF TypeOK

\* Only the place in the code changes.
LEMMA StepIs ==
    ASSUME NEW o \in RequestStates, NEW pc \in {"idle", "env"} \cup Registrar \cup Binders \cup
                                               Providers \cup Deleters
    PROVE  LET n == [o EXCEPT !.pc = pc] IN
           /\ n \in RequestStates /\ n.pc = pc /\ n.kind = o.kind /\ n.id = o.id /\ n.env = o.env
           /\ n.seen = o.seen /\ n.mine = o.mine /\ n.key = o.key /\ n.pay = o.pay
           /\ n.url = o.url /\ n.swapped = o.swapped
  BY DEF RequestStates

\* The variables are read: dev, then prod, then the binding.
LEMMA ReadsKeysStep ==
    ASSUME KeycloakInv, NEW r \in Requests, ReadsKeys(r)
    PROVE  KeycloakInv'
  <1>0. req[r].pc = "keys" /\ UNCHANGED <<last, inst, realm, taken, vault, started>>
    BY DEF ReadsKeys
  <1>1. PICK o \in RequestStates : /\ o = req[r] /\ Shaped(o) /\ o.id \in Ids /\ o.id # 0
                                   /\ TypeOK
    BY <1>0, Working DEF Registrar
  <1>2. o.pc = "keys" /\ o.mine = o.seen /\ ~o.seen.enabled /\ o.kind \in {"create", "activate"}
    BY <1>0, <1>1 DEF Shaped, Binders
  <1>3. "oidc_keys_conflict" \in Warnings /\ "instance_unavailable" \in Warnings
    BY DEF Warnings
  <1>4. CASE ~KeysClash(o) /\ Goes(r, IF o.env = "dev" THEN [o EXCEPT !.env = "prod"]
                                      ELSE [o EXCEPT !.env = "dev", !.pc = "bind"])
             /\ UNCHANGED <<row, mishaps>>
    <2>1. PICK n : n = IF o.env = "dev" THEN [o EXCEPT !.env = "prod"]
                       ELSE [o EXCEPT !.env = "dev", !.pc = "bind"]
      OBVIOUS
    <2>2. /\ n \in RequestStates /\ n.id = o.id /\ n.seen = o.seen /\ n.mine = o.mine
          /\ n.kind = o.kind
          /\ \/ o.env = "dev" /\ n.env = "prod" /\ n.pc = "keys"
             \/ o.env = "prod" /\ n.env = "dev" /\ n.pc = "bind"
      <3>1. CASE o.env = "dev"
        <4>1. n = [o EXCEPT !.env = "prod"] /\ "prod" \in Envs
          BY <2>1, <3>1 DEF Envs
        <4> QED
          BY <1>2, <3>1, <4>1 DEF RequestStates
      <3>2. CASE o.env # "dev"
        <4>1. n = [o EXCEPT !.env = "dev", !.pc = "bind"] /\ "dev" \in Envs /\ "bind" \in Binders
          BY <2>1, <3>2 DEF Envs, Binders
        <4>2. o.env = "prod"
          BY <3>2, StateIs DEF Envs
        <4> QED
          BY <4>1, <4>2 DEF RequestStates
      <3> QED
        BY <3>1, <3>2
    <2>3. Shaped(n) /\ n.pc \notin Registrar /\ n.pc \notin Writers /\ n.pc \notin Deleters
          /\ n.pc \notin Providers
      BY <1>1, <1>2, <2>2 DEF Shaped, Registrar, Binders, Providers, Writers, Deleters
    <2>4. ASSUME Without({"overlap"})' PROVE Current(n)
      <3>1. Current(o)
        BY <1>1, <1>4, <2>4, AloneIs DEF Without
      <3>2. vault[o.env] = None
        BY <1>4 DEF KeysClash
      <3> QED
        BY <1>2, <2>2, <2>3, <3>1, <3>2 DEF Current, Envs, Providers, Deleters, Writers
    <2>5. Progress(n) /\ Clears(n)
      BY <2>2, <2>3 DEF Progress, Clears, Deleters
    <2>6. Fits(o, n)
      BY <1>2, <2>2, <2>3, <2>4, <2>5 DEF Fits, Deleters
    <2>7. Locks(r, n) /\ Noted
      BY <1>0, <1>1, <1>4, <2>2, NotedIs DEF Locks
    <2> QED
      BY <1>0, <1>1, <1>4, <2>1, <2>6, <2>7, QuietStep
  <1>5. CASE Fails(r, "oidc_keys_conflict") /\ UNCHANGED mishaps
    BY <1>0, <1>1, <1>3, <1>5, FailsStep, NotedIs DEF Binders
  <1>6. CASE Ends(r) /\ UNCHANGED <<row, mishaps>>
    BY <1>0, <1>1, <1>2, <1>6, EndsStep, NotedIs DEF Binders
  <1>7. CASE Fails(r, "instance_unavailable") /\ Note({"fail"})
    BY <1>0, <1>1, <1>3, <1>7, FailsStep, NotedIs DEF Binders
  <1> QED
    BY <1>1, <1>4, <1>5, <1>6, <1>7 DEF ReadsKeys

\* The row is locked and read again.
LEMMA LocksAppStep ==
    ASSUME KeycloakInv, NEW r \in Requests, LocksApp(r)
    PROVE  KeycloakInv'
  <1>0. req[r].pc = "bind" /\ UNCHANGED <<row, last, inst, realm, taken, vault, started, mishaps>>
    BY DEF LocksApp
  <1>1. PICK o \in RequestStates : /\ o = req[r] /\ Shaped(o) /\ o.id \in Ids /\ o.id # 0
                                   /\ TypeOK /\ row[o.id] \in AppRows
    BY <1>0, Working DEF Registrar
  <1>2. o.pc = "bind" /\ o.mine = o.seen /\ o.kind \in {"create", "activate"}
    BY <1>0, <1>1 DEF Shaped, Binders
  <1>3. PICK n : /\ Goes(r, n)
                 /\ n = IF Present(o.id)
                        THEN [o EXCEPT !.pc = "instance", !.seen = row[o.id], !.mine = row[o.id]]
                        ELSE [o EXCEPT !.pc = "instance"]
    BY <1>1 DEF LocksApp
  <1>4. /\ n \in RequestStates /\ n.id = o.id /\ n.pc = "instance" /\ n.kind = o.kind
        /\ n.mine = n.seen /\ n.seen = IF Present(o.id) THEN row[o.id] ELSE o.seen
    <2>1. "instance" \in Binders
      BY DEF Binders
    <2>2. CASE Present(o.id)
      BY <1>1, <1>3, <2>1, <2>2 DEF RequestStates
    <2>3. CASE ~Present(o.id)
      BY <1>1, <1>2, <1>3, <2>1, <2>3, StepIs
    <2> QED
      BY <2>2, <2>3
  <1>5. Shaped(n) /\ n.pc \notin Registrar /\ n.pc \notin Writers /\ n.pc \notin Deleters
        /\ n.pc \notin Providers
    BY <1>1, <1>2, <1>4 DEF Shaped, Registrar, Binders, Providers, Writers, Deleters
  <1>6. ASSUME Without({"overlap"})'
        PROVE  Current(n) /\ (o.mine.enabled => n.mine.enabled)
    <2>1. Current(o)
      BY <1>0, <1>1, <1>6, AloneIs DEF Without
    <2>2. n.mine = row[o.id] /\ n.seen = row[o.id] /\ Same(o.seen, row[o.id]) /\ Present(n.id)
      BY <1>4, <2>1 DEF Current
    <2>3. ~n.mine.enabled => \A e \in Envs : vault[e] = None
      BY <1>2, <2>1, <2>2 DEF Current, Binders, Same
    <2> QED
      BY <1>2, <1>4, <1>5, <2>2, <2>3 DEF Current, Same, Writers
  <1>7. Progress(n) /\ Clears(n)
    BY <1>4, <1>5 DEF Progress, Clears, Deleters
  <1>8. Without({"kept", "overlap", "crash"})' => Without({"overlap"})'
    BY DEF Without
  <1>9. Fits(o, n)
    BY <1>2, <1>4, <1>5, <1>6, <1>7, <1>8 DEF Fits, Deleters
  <1>10. Locks(r, n) /\ Noted
    BY <1>0, <1>1, <1>4, NotedIs DEF Locks
  <1> QED
    BY <1>0, <1>1, <1>3, <1>9, <1>10, QuietStep

\* The instance is locked, or the legacy installation bound.
LEMMA LocksInstanceStep ==
    ASSUME KeycloakInv, NEW r \in Requests, LocksInstance(r)
    PROVE  KeycloakInv'
  <1>0. req[r].pc = "instance" /\ UNCHANGED <<last, inst, realm, taken, vault, started>>
    BY DEF LocksInstance
  <1>1. PICK o \in RequestStates : /\ o = req[r] /\ Shaped(o) /\ o.id \in Ids /\ o.id # 0
                                   /\ TypeOK /\ row[o.id] \in AppRows
    BY <1>0, Working DEF Registrar
  <1>2. o.pc = "instance" /\ o.mine = o.seen /\ o.kind \in {"create", "activate"}
        /\ "instance_unavailable" \in Warnings
    BY <1>0, <1>1 DEF Shaped, Binders, Warnings
  <1>3. CASE KeysFor(o.mine) = {} /\ Binds(r, None) /\ UNCHANGED mishaps
    <2>1. o.mine.bound = None
      BY <1>3 DEF KeysFor
    <2> QED
      BY <1>0, <1>1, <1>2, <1>3, <2>1, BindsStep
  <1>4. ASSUME NEW k \in KeysFor(o.mine), InstFree(k, r),
               Goes(r, [o EXCEPT !.pc = "connect", !.key = k]), UNCHANGED <<row, mishaps>>
        PROVE  KeycloakInv'
    <2>1. /\ k \in Instances
          /\ o.mine.bound = k \/ (o.mine.bound = None /\ ~o.mine.enabled)
      <3>1. o.mine.bound \in Instances \cup {None}
        BY StateIs, RowIs
      <3> QED
        BY <1>4, <3>1 DEF KeysFor
    <2>2. PICK n : n = [o EXCEPT !.pc = "connect", !.key = k]
      OBVIOUS
    <2>3. /\ n \in RequestStates /\ n.id = o.id /\ n.seen = o.seen /\ n.mine = o.mine
          /\ n.kind = o.kind /\ n.pc = "connect" /\ n.key = k
      <3>1. "connect" \in Binders
        BY DEF Binders
      <3> QED
        BY <2>1, <2>2, <3>1 DEF RequestStates
    <2>4. Shaped(n) /\ n.pc \notin Registrar /\ n.pc \notin Writers /\ n.pc \notin Deleters
          /\ n.pc \notin Providers
      BY <1>1, <1>2, <2>1, <2>3 DEF Shaped, Registrar, Binders, Providers, Writers, Deleters
    <2>5. ASSUME Without({"overlap"})' PROVE Current(n)
      <3>1. Current(o)
        BY <1>0, <1>1, <1>4, <2>5, AloneIs DEF Without
      <3> QED
        BY <1>2, <2>3, <2>4, <3>1 DEF Current, Writers, Binders
    <2>6. Progress(n) /\ Clears(n)
      BY <2>3, <2>4 DEF Progress, Clears, Deleters
    <2>7. Fits(o, n)
      BY <1>2, <2>3, <2>4, <2>5, <2>6 DEF Fits, Deleters
    <2>8. Locks(r, n) /\ Noted
      BY <1>0, <1>1, <1>4, <2>3, NotedIs DEF Locks
    <2> QED
      BY <1>0, <1>1, <1>4, <2>2, <2>7, <2>8, QuietStep
  <1>5. CASE Fails(r, "instance_unavailable") /\ Note({"fail"})
    BY <1>0, <1>1, <1>2, <1>5, FailsStep, NotedIs DEF Binders
  <1> QED
    BY <1>1, <1>3, <1>4, <1>5 DEF LocksInstance

\* The connection of the instance is resolved, and the application bound.
LEMMA ConnectsStep ==
    ASSUME KeycloakInv, NEW r \in Requests, Connects(r)
    PROVE  KeycloakInv'
  <1>0. req[r].pc = "connect" /\ UNCHANGED <<last, inst, realm, taken, vault, started>>
    BY DEF Connects
  <1>1. PICK o \in RequestStates : /\ o = req[r] /\ Shaped(o) /\ o.id \in Ids /\ o.id # 0
                                   /\ TypeOK /\ row[o.id] \in AppRows
    BY <1>0, Working DEF Registrar
  <1>2. /\ o.pc = "connect" /\ o.key \in Instances
        /\ o.mine.bound = o.key \/ (o.mine.bound = None /\ ~o.mine.enabled)
        /\ "instance_unavailable" \in Warnings
    BY <1>0, <1>1 DEF Shaped, Warnings
  <1>3. CASE inst[o.key].exists /\ Binds(r, o.key) /\ UNCHANGED mishaps
    BY <1>0, <1>1, <1>2, <1>3, BindsStep
  <1>4. CASE Fails(r, "instance_unavailable") /\ UNCHANGED mishaps
    BY <1>0, <1>1, <1>2, <1>4, FailsStep, NotedIs DEF Binders
  <1>5. CASE Fails(r, "instance_unavailable") /\ Note({"fail"})
    BY <1>0, <1>1, <1>2, <1>5, FailsStep, NotedIs DEF Binders
  <1> QED
    BY <1>1, <1>3, <1>4, <1>5 DEF Connects

\* The server of a row is the one its binding names.
LEMMA ServerIs ==
    ASSUME TypeOK, NEW m \in AppRows, NEW u \in ServerOf(m)
    PROVE  u = Url(m) /\ u \in Servers
  <1>1. u = Url(m)
    BY DEF ServerOf, Url
  <1>2. m.bound \in Instances \cup {None}
    BY RowIs
  <1>3. Url(m) \in Servers
    BY <1>2, ConstantsAre DEF Url, TypeOK, InstanceRows
  <1> QED
    BY <1>1, <1>3

\* reprovision reads the state of the realm.
LEMMA ReadsAgainStep ==
    ASSUME KeycloakInv, NEW r \in Requests, ReadsAgain(r)
    PROVE  KeycloakInv'
  <1>0. /\ req[r].pc = "again"
        /\ UNCHANGED <<row, last, inst, realm, taken, vault, started, mishaps>>
    BY DEF ReadsAgain
  <1>1. PICK o \in RequestStates : /\ o = req[r] /\ Shaped(o) /\ o.id \in Ids /\ o.id # 0
                                   /\ TypeOK
    BY <1>0, Working DEF Registrar
  <1>2. o.pc = "again" /\ o.kind = "reprovision" /\ o.seen.enabled /\ o.mine.enabled
    BY <1>0, <1>1 DEF Shaped, Providers
  <1>3. CASE Step(r, "check")
    <2>1. PICK n : n = [o EXCEPT !.pc = "check"]
      OBVIOUS
    <2>2. /\ n \in RequestStates /\ n.pc = "check" /\ n.kind = o.kind /\ n.id = o.id
          /\ n.seen = o.seen /\ n.mine = o.mine
      BY <2>1 DEF RequestStates, Providers
    <2>3. Shaped(n) /\ n.pc \notin Registrar /\ n.pc \notin Writers /\ n.pc \notin Deleters
      BY <1>1, <1>2, <2>2 DEF Shaped, Registrar, Binders, Providers, Writers, Deleters
    <2>4. ASSUME Without({"overlap"})' PROVE Current(n)
      <3>1. Current(o)
        BY <1>0, <1>1, <2>4, AloneIs DEF Without
      <3> QED
        BY <2>2, <2>3, <3>1 DEF Current, Binders
    <2>5. Progress(n) /\ Clears(n)
      BY <1>2, <2>2, <2>3 DEF Progress, Clears, Deleters, Writers
    <2>6. Fits(o, n)
      BY <1>2, <2>2, <2>3, <2>4, <2>5 DEF Fits, Deleters
    <2>7. Locks(r, n) /\ Noted
      BY <1>0, <1>1, <2>2, NotedIs DEF Locks
    <2> QED
      BY <1>0, <1>1, <1>3, <2>1, <2>6, <2>7, QuietStep DEF Step
  <1>4. CASE Ends(r)
    BY <1>0, <1>1, <1>2, <1>4, EndsStep, NotedIs DEF Providers
  <1> QED
    BY <1>3, <1>4 DEF ReadsAgain

\* provision looks for the realm.
LEMMA ChecksRealmStep ==
    ASSUME KeycloakInv, NEW r \in Requests, ChecksRealm(r)
    PROVE  KeycloakInv'
  <1>0. req[r].pc = "check" /\ UNCHANGED <<last, inst, realm, taken, vault, started>>
    BY DEF ChecksRealm
  <1>1. PICK o \in RequestStates : /\ o = req[r] /\ Shaped(o) /\ o.id \in Ids /\ o.id # 0
                                   /\ TypeOK
    BY <1>0, Working DEF Registrar
  <1>2. o.pc = "check" /\ o.pc \in Providers /\ o.mine \in AppRows
    BY <1>0, <1>1, StateIs DEF Providers
  <1>3. ASSUME NEW u \in ServerOf(o.mine), RealmState(u, o.env, o.id) # "foreign",
               UNCHANGED <<row, mishaps>>,
               Goes(r, [o EXCEPT !.url = u, !.swapped = FALSE, !.pc =
                       IF RealmState(u, o.env, o.id) = "missing" THEN "create" ELSE "cli"])
        PROVE  KeycloakInv'
    <2>1. PICK n : n = [o EXCEPT !.url = u, !.swapped = FALSE, !.pc =
                       IF RealmState(u, o.env, o.id) = "missing" THEN "create" ELSE "cli"]
      OBVIOUS
    <2>2. u = Url(o.mine) /\ u \in Servers
      BY <1>1, <1>2, ServerIs
    <2>3. /\ n \in RequestStates /\ n.kind = o.kind /\ n.id = o.id /\ n.env = o.env
          /\ n.seen = o.seen /\ n.mine = o.mine /\ n.url = u
          /\ n.pc = IF RealmState(u, o.env, o.id) = "missing" THEN "create" ELSE "cli"
      <3>1. PICK p \in {"create", "cli"} :
               p = IF RealmState(u, o.env, o.id) = "missing" THEN "create" ELSE "cli"
        OBVIOUS
      <3>2. p \in Providers
        BY DEF Providers, Writers
      <3>3. n = [o EXCEPT !.url = u, !.swapped = FALSE, !.pc = p]
        BY <2>1, <3>1
      <3> QED
        BY <2>2, <3>1, <3>2, <3>3 DEF RequestStates
    <2>4. /\ n.pc \in {"create", "cli"}
          /\ n.pc = "cli" => realm[Spot(n)].owner = o.id
      BY <1>3, <2>3 DEF RealmState, Spot
    <2>5. Shaped(n) /\ n.pc \notin Registrar /\ n.pc \in Providers /\ n.pc \notin Deleters
      BY <1>1, <1>2, <2>3, <2>4 DEF Shaped, Registrar, Binders, Providers, Writers, Deleters
    <2>6. ASSUME Without({"overlap"})' PROVE Current(n)
      <3>1. Current(o)
        BY <1>1, <1>3, <2>6, AloneIs DEF Without
      <3> QED
        BY <2>2, <2>3, <2>4, <3>1 DEF Current, Binders
    <2>7. ASSUME Without({"outsider", "overlap", "crash"})' PROVE Progress(n)
      <3>1. Progress(o)
        BY <1>1, <1>3, <2>7, AloneIs DEF Without
      <3> QED
        BY <1>2, <2>3, <2>4, <3>1 DEF Progress, Writers
    <2>8. Clears(n)
      BY <2>4, <2>5 DEF Clears
    <2>9. n.pc \in Writers \cup {"delRealm"} => realm[Spot(n)].owner \in {Nobody, n.id}
      BY <2>3, <2>4 DEF Writers
    <2>10. Fits(o, n)
      BY <1>2, <2>3, <2>5, <2>6, <2>7, <2>8, <2>9 DEF Fits, Deleters
    <2>11. Locks(r, n) /\ Noted
      BY <1>0, <1>1, <1>3, <2>4, NotedIs DEF Locks
    <2> QED
      BY <1>0, <1>1, <1>3, <2>1, <2>10, <2>11, QuietStep
  <1>4. CASE ProvisionFails(r) /\ UNCHANGED mishaps
    BY <1>0, <1>1, <1>2, <1>4, ProvisionFailsStep, NotedIs
  <1>5. CASE ProvisionFails(r) /\ Note({"fail"})
    BY <1>0, <1>1, <1>2, <1>5, ProvisionFailsStep, NotedIs
  <1> QED
    BY <1>1, <1>3, <1>4, <1>5 DEF ChecksRealm

\* The realm is read back.
LEMMA ReadsBackStep ==
    ASSUME KeycloakInv, NEW r \in Requests, ReadsBack(r)
    PROVE  KeycloakInv'
  <1>0. req[r].pc = "readback" /\ UNCHANGED <<last, inst, realm, taken, vault, started>>
    BY DEF ReadsBack
  <1>1. PICK o \in RequestStates : /\ o = req[r] /\ Shaped(o) /\ o.id \in Ids /\ o.id # 0
                                   /\ TypeOK
    BY <1>0, Working DEF Registrar
  <1>2. o.pc = "readback" /\ o.pc \in Providers
    BY <1>0, <1>1 DEF Providers
  <1>3. CASE /\ RealmState(o.url, o.env, o.id) = "active" /\ Step(r, "cli")
             /\ UNCHANGED <<row, mishaps>>
    <2>1. PICK n : n = [o EXCEPT !.pc = "cli"]
      OBVIOUS
    <2>2. /\ n \in RequestStates /\ n.pc = "cli" /\ n.kind = o.kind /\ n.id = o.id
          /\ n.env = o.env /\ n.seen = o.seen /\ n.mine = o.mine /\ n.url = o.url
      <3>1. "cli" \in Providers
        BY DEF Providers, Writers
      <3> QED
        BY <2>1, <3>1 DEF RequestStates
    <2>3. Shaped(n) /\ n.pc \notin Registrar /\ n.pc \in Providers /\ n.pc \notin Deleters
      BY <1>1, <1>2, <2>2 DEF Shaped, Registrar, Binders, Providers, Writers, Deleters
    <2>4. realm[Spot(n)].owner = n.id
      BY <1>3, <2>2 DEF RealmState, Spot
    <2>5. ASSUME Without({"overlap"})' PROVE Current(n)
      <3>1. Current(o)
        BY <1>1, <1>3, <2>5, AloneIs DEF Without
      <3> QED
        BY <1>2, <2>2, <3>1 DEF Current, Binders
    <2>6. ASSUME Without({"outsider", "overlap", "crash"})' PROVE Progress(n)
      <3>1. Progress(o)
        BY <1>1, <1>3, <2>6, AloneIs DEF Without
      <3> QED
        BY <1>2, <2>2, <2>4, <3>1 DEF Progress, Writers
    <2>7. Clears(n)
      BY <2>2, <2>3 DEF Clears
    <2>8. Fits(o, n)
      BY <1>2, <2>2, <2>3, <2>4, <2>5, <2>6, <2>7 DEF Fits, Deleters
    <2>9. Locks(r, n) /\ Noted
      BY <1>0, <1>1, <1>3, <2>2, NotedIs DEF Locks
    <2> QED
      BY <1>0, <1>1, <1>3, <2>1, <2>8, <2>9, QuietStep DEF Step
  <1>4. CASE ProvisionFails(r) /\ UNCHANGED mishaps
    BY <1>0, <1>1, <1>2, <1>4, ProvisionFailsStep, NotedIs
  <1>5. CASE ProvisionFails(r) /\ Note({"fail"})
    BY <1>0, <1>1, <1>2, <1>5, ProvisionFailsStep, NotedIs
  <1> QED
    BY <1>1, <1>3, <1>4, <1>5 DEF ReadsBack

\* The request goes on to the next realm, or to the row.
LEMMA NextRealmIs ==
    ASSUME NEW o \in RequestStates, NEW n, n = NextRealm(o)
    PROVE  /\ n \in RequestStates /\ n.kind = o.kind /\ n.id = o.id /\ n.seen = o.seen
           /\ n.mine = o.mine /\ n.key = o.key /\ n.pay = o.pay /\ n.url = o.url
           /\ n.swapped = o.swapped
           /\ \/ o.env = "dev" /\ n.env = "prod" /\ n.pc = "delCheck"
              \/ o.env = "prod" /\ n.env = "prod" /\ n.pc = "delRow"
  <1>1. "delCheck" \in Deleters /\ "delRow" \in Deleters /\ "prod" \in Envs
    BY DEF Deleters, Envs
  <1>2. CASE o.env = "dev"
    <2>1. n = [o EXCEPT !.env = "prod", !.pc = "delCheck"]
      BY <1>2 DEF NextRealm
    <2> QED
      BY <1>1, <1>2, <2>1 DEF RequestStates
  <1>3. CASE o.env # "dev"
    <2>1. n = [o EXCEPT !.pc = "delRow"] /\ o.env = "prod"
      BY <1>3, StateIs DEF NextRealm, Envs
    <2> QED
      BY <1>1, <2>1 DEF RequestStates
  <1> QED
    BY <1>2, <1>3

\* A deletion that goes on with the same application.
LEMMA DeletingIs ==
    ASSUME NEW o \in RequestStates, Shaped(o), o.pc \in Deleters,
           NEW n \in RequestStates, n.pc \in Deleters \ {"delVault"}, n.kind = o.kind,
           n.id = o.id, n.seen = o.seen, n.mine = o.mine
    PROVE  /\ Shaped(n) /\ n.pc \notin Registrar /\ n.pc \notin Writers /\ n.pc \notin Providers
           /\ n.pc \notin {"connect", "upsert"}
           /\ Current(o) /\ (n.pc = "delRealm" => n.url = Url(o.mine)) => Current(n)
           /\ Progress(n)
  <1>1. n.pc \notin Registrar /\ n.pc \notin Writers /\ n.pc \notin Providers /\ n.pc \notin Binders
        /\ n.pc \notin {"connect", "upsert", "insert", "idle", "keys", "env", "again", "create", "readback"}
    BY DEF Registrar, Binders, Providers, Writers, Deleters
  <1>2. o.kind = "delete" /\ o.mine = o.seen /\ o.id # 0
    BY DEF Shaped, Registrar, Deleters
  <1>3. Shaped(n)
    BY <1>1, <1>2 DEF Shaped
  <1>4. Current(o) /\ (n.pc = "delRealm" => n.url = Url(o.mine)) => Current(n)
    BY <1>1 DEF Current
  <1> QED
    BY <1>1, <1>3, <1>4 DEF Progress

\* deprovision looks for the realm.
LEMMA ChecksDeletableStep ==
    ASSUME KeycloakInv, NEW r \in Requests, ChecksDeletable(r)
    PROVE  KeycloakInv'
  <1>0. req[r].pc = "delCheck" /\ UNCHANGED <<row, last, inst, realm, taken, vault, started>>
    BY DEF ChecksDeletable
  <1>1. PICK o \in RequestStates : /\ o = req[r] /\ Shaped(o) /\ o.id \in Ids /\ o.id # 0
                                   /\ TypeOK /\ row[o.id] \in AppRows
    BY <1>0, Working DEF Registrar
  <1>2. o.pc = "delCheck" /\ o.pc \in Deleters /\ o.mine \in AppRows /\ o.mine = o.seen
    BY <1>0, <1>1, StateIs DEF Deleters, Shaped
  <1>3. ASSUME NEW n \in RequestStates, n.kind = o.kind, n.id = o.id, n.seen = o.seen,
               n.mine = o.mine, n.pc \in Deleters \ {"delVault"}, Goes(r, n), Noted,
               n.pc = "delRealm" => /\ n.url = Url(o.mine)
                                    /\ realm[Spot(n)].owner = n.id,
               Without({"kept", "overlap", "crash"})' => Clears(n)
        PROVE  KeycloakInv'
    <2>1. mishaps \subseteq mishaps'
      BY <1>3 DEF Noted
    <2>2. Without({"overlap"})' => Current(n)
      BY <1>1, <1>2, <1>3, <2>1, MishapsGrow, AloneIs, DeletingIs
    <2>3. Shaped(n) /\ n.pc \notin Registrar /\ n.pc \notin Writers /\ Progress(n) /\ Locks(r, n)
      BY <1>1, <1>2, <1>3, DeletingIs DEF Locks
    <2>4. Fits(o, n)
      BY <1>1, <1>3, <2>2, <2>3 DEF Fits
    <2> QED
      BY <1>0, <1>1, <1>3, <2>3, <2>4, QuietStep
  <1>4. /\ UNCHANGED mishaps => Noted
        /\ Note({"kept"}) => Noted /\ ~Without({"kept", "overlap", "crash"})'
    BY <1>0, <1>1, NotedIs DEF Without
  <1>5. ASSUME NEW u \in ServerOf(o.mine), UNCHANGED mishaps,
               Goes(r, IF Deletable(u, o.env, o.id)
                       THEN [o EXCEPT !.url = u, !.swapped = FALSE, !.pc = "delRealm"]
                       ELSE NextRealm(o))
        PROVE  KeycloakInv'
    <2>1. u = Url(o.mine) /\ u \in Servers
      BY <1>1, <1>2, ServerIs
    <2>2. ASSUME Without({"kept", "overlap", "crash"})'
          PROVE  /\ Clears(o)
                 /\ \A v \in Servers, e \in Envs : realm[<<v, e>>].owner = o.id => v = u
      <3>1. Without({"kept", "overlap", "crash"}) /\ Without({"overlap"})
        BY <1>5, <2>2 DEF Without
      <3>2. RealmsOf(o.id, o) /\ Current(o)
        BY <1>1, <3>1, AloneIs
      <3>3. Url(row[o.id]) = u
        BY <1>2, <2>1, <3>2 DEF Current, Same, Url
      <3> QED
        BY <1>1, <3>2, <3>3 DEF RealmsOf
    <2>3. CASE Deletable(u, o.env, o.id)
      <3>1. PICK n : n = [o EXCEPT !.url = u, !.swapped = FALSE, !.pc = "delRealm"]
        OBVIOUS
      <3>2. "delRealm" \in Deleters
        BY DEF Deleters
      <3>3. /\ n \in RequestStates /\ n.kind = o.kind /\ n.id = o.id /\ n.env = o.env
            /\ n.seen = o.seen /\ n.mine = o.mine /\ n.url = u /\ n.pc = "delRealm"
        BY <2>1, <3>1, <3>2 DEF RequestStates
      <3>4. realm[Spot(n)].owner = n.id
        BY <2>3, <3>3 DEF Deletable, RealmState, Spot
      <3>5. Without({"kept", "overlap", "crash"})' => Clears(n)
        BY <1>2, <2>2, <3>3 DEF Clears
      <3> QED
        BY <1>3, <1>4, <1>5, <2>1, <2>3, <3>1, <3>2, <3>3, <3>4, <3>5
    <2>4. CASE ~Deletable(u, o.env, o.id)
      <3>1. PICK n : n = NextRealm(o)
        OBVIOUS
      <3>2. /\ n \in RequestStates /\ n.kind = o.kind /\ n.id = o.id
            /\ n.seen = o.seen /\ n.mine = o.mine
            /\ \/ o.env = "dev" /\ n.env = "prod" /\ n.pc = "delCheck"
               \/ o.env = "prod" /\ n.env = "prod" /\ n.pc = "delRow"
        BY <3>1, NextRealmIs
      <3>3. realm[<<u, o.env>>].owner # o.id
        BY <1>1, <2>4, ConstantsAre DEF Deletable, RealmState
      <3>4. ASSUME Without({"kept", "overlap", "crash"})' PROVE Clears(n)
        <4>1. \A e \in Envs : vault[e] = None
          BY <1>2, <2>2, <3>4 DEF Clears
        <4>2. ASSUME NEW v \in Servers, NEW e \in Envs, realm[<<v, e>>].owner = n.id
              PROVE  n.pc # "delRow" /\ e = "prod"
          <5>1. v = u /\ e # o.env /\ (o.env = "prod" => e = "prod")
            BY <1>1, <1>2, <2>2, <3>2, <3>3, <3>4, <4>2 DEF Clears
          <5>2. e \in {"dev", "prod"}
            BY DEF Envs
          <5> QED
            BY <3>2, <5>1, <5>2
        <4> QED
          BY <4>1, <4>2 DEF Clears
      <3>5. n.pc \in Deleters \ {"delVault"}
        BY <3>2 DEF Deleters
      <3>6. n.pc # "delRealm"
        BY <3>2
      <3> QED
        BY <1>3, <1>4, <1>5, <2>4, <3>1, <3>2, <3>4, <3>5, <3>6
    <2> QED
      BY <2>3, <2>4
  <1>6. CASE Step(r, "delRow") /\ Note({"kept"})
    <2>1. PICK n : n = [o EXCEPT !.pc = "delRow"]
      OBVIOUS
    <2>2. "delRow" \in Deleters
      BY DEF Deleters
    <2>3. /\ n \in RequestStates /\ n.kind = o.kind /\ n.id = o.id /\ n.seen = o.seen
          /\ n.mine = o.mine /\ n.pc = "delRow"
      BY <2>1, <2>2 DEF RequestStates
    <2> QED
      BY <1>1, <1>3, <1>4, <1>6, <2>1, <2>2, <2>3 DEF Step
  <1>7. CASE Goes(r, NextRealm(o)) /\ Note({"kept"})
    <2>1. PICK n : n = NextRealm(o)
      OBVIOUS
    <2>2. /\ n \in RequestStates /\ n.kind = o.kind /\ n.id = o.id
          /\ n.seen = o.seen /\ n.mine = o.mine /\ n.pc \in {"delCheck", "delRow"}
      BY <2>1, NextRealmIs
    <2>3. n.pc \in Deleters \ {"delVault"} /\ n.pc # "delRealm"
      BY <2>2 DEF Deleters
    <2> QED
      BY <1>3, <1>4, <1>7, <2>1, <2>2, <2>3
  <1> QED
    BY <1>1, <1>5, <1>6, <1>7 DEF ChecksDeletable

\* A provider that has written its variables has provisioned its environment.
LEMMA VerifiedIs ==
    ASSUME TypeOK, NEW o \in RequestStates, Shaped(o), o.id \in Ids, o.pc = "verify",
           Current(o), Progress(o)
    PROVE  /\ Provisioned(o.id, o.env)
           /\ o.env = "prod" /\ o.kind # "reprovision" => \A e \in Envs : Provisioned(o.id, e)
  <1>1. o.url = Url(row[o.id])
    BY DEF Current, Same, Shaped, Url, Writers, Providers
  <1>2. /\ vault[o.env] = o.url /\ realm[Spot(o)].owner = o.id
        /\ realm[Spot(o)].cli /\ realm[Spot(o)].client
        /\ o.env = "prod" /\ o.kind # "reprovision" => Provisioned(o.id, "dev")
    BY DEF Progress, Writers, Providers
  <1>3. realm[Spot(o)] \in Realms
    BY StateIs DEF TypeOK
  <1>4. realm[Spot(o)] = [owner |-> o.id, cli |-> TRUE, client |-> TRUE]
    BY <1>2, <1>3 DEF Realms
  <1>5. Provisioned(o.id, o.env)
    BY <1>1, <1>2, <1>4 DEF Provisioned, Spot
  <1> QED
    BY <1>2, <1>5 DEF Envs

\* The realm is there at the end: the next environment, or the outcome.
LEMMA VerifiesRealmStep ==
    ASSUME KeycloakInv, NEW r \in Requests, VerifiesRealm(r)
    PROVE  KeycloakInv'
  <1>0. req[r].pc = "verify" /\ UNCHANGED <<last, inst, realm, taken, vault, started>>
    BY DEF VerifiesRealm
  <1>1. PICK o \in RequestStates : /\ o = req[r] /\ Shaped(o) /\ o.id \in Ids /\ o.id # 0
                                   /\ TypeOK
    BY <1>0, Working DEF Registrar
  <1>2. o.pc = "verify" /\ o.pc \in Providers /\ o.pc \notin Deleters /\ o.mine.enabled
    BY <1>0, <1>1 DEF Providers, Writers, Deleters, Shaped
  <1>3. CASE Verified(r) /\ Noted
    <2>0. mishaps \subseteq mishaps'
      BY <1>3 DEF Noted
    <2>1. CASE o.kind = "reprovision"
      <3>1. o.seen.enabled
        BY <1>1, <1>2, <2>1 DEF Shaped
      <3> QED
        BY <1>0, <1>1, <1>2, <1>3, <2>1, <3>1, EndsStep DEF Verified
    <2>2. CASE o.kind # "reprovision" /\ o.env = "dev"
      <3>1. PICK n : n = [o EXCEPT !.env = "prod", !.pc = "check"]
        OBVIOUS
      <3>2. /\ n \in RequestStates /\ n.pc = "check" /\ n.kind = o.kind /\ n.id = o.id
            /\ n.env = "prod" /\ n.seen = o.seen /\ n.mine = o.mine
        BY <3>1 DEF RequestStates, Providers, Envs
      <3>3. Shaped(n) /\ n.pc \notin Registrar /\ n.pc \notin Writers /\ n.pc \notin Deleters
        BY <1>1, <1>2, <3>2 DEF Shaped, Registrar, Binders, Providers, Writers, Deleters
      <3>4. ASSUME Without({"overlap"})' PROVE Current(n)
        <4>1. Current(o)
          BY <1>1, <2>0, <3>4, AloneIs, MishapsGrow
        <4> QED
          BY <3>2, <3>3, <4>1 DEF Current, Binders
      <3>5. ASSUME Without({"outsider", "overlap", "crash"})' PROVE Progress(n)
        <4>1. Without({"outsider", "overlap", "crash"}) /\ Without({"overlap"})
          BY <2>0, <3>5 DEF Without
        <4>2. Progress(o) /\ Current(o)
          BY <1>1, <4>1, AloneIs
        <4>3. Provisioned(o.id, "dev")
          BY <1>1, <1>2, <2>2, <4>2, VerifiedIs
        <4> QED
          BY <3>2, <3>3, <4>3 DEF Progress, Writers
      <3>6. Clears(n)
        BY <3>2, <3>3 DEF Clears
      <3>7. Fits(o, n) /\ Locks(r, n)
        BY <1>2, <3>2, <3>3, <3>4, <3>5, <3>6 DEF Fits, Locks
      <3> QED
        BY <1>0, <1>1, <1>3, <2>2, <3>1, <3>7, QuietStep DEF Verified
    <2>3. CASE o.kind # "reprovision" /\ o.env # "dev"
      <3>1. PICK q : q = Succeeded(o)
        OBVIOUS
      <3>2. Outcome(o, q)
        BY <3>1, OutcomeIs DEF Succeeded
      <3>3. row' = (IF Present(o.id) THEN Committed(q) ELSE row) /\ Ends(r)
        BY <1>1, <1>3, <2>3, <3>1 DEF Verified
      <3>4. ASSUME Without({"outsider", "overlap", "crash"})'
            PROVE  \A e \in Envs : Provisioned(o.id, e)
        <4>1. Without({"outsider", "overlap", "crash"}) /\ Without({"overlap"})
          BY <2>0, <3>4 DEF Without
        <4>2. Progress(o) /\ Current(o)
          BY <1>1, <4>1, AloneIs
        <4>3. o.env = "prod"
          BY <2>3, StateIs DEF Envs
        <4> QED
          BY <1>1, <1>2, <2>3, <4>2, <4>3, VerifiedIs
      <3> QED
        BY <1>0, <1>1, <1>2, <1>3, <3>2, <3>3, <3>4, SavesStep
    <2> QED
      BY <2>1, <2>2, <2>3
  <1>4. CASE ProvisionFails(r) /\ Noted
    BY <1>0, <1>1, <1>2, <1>4, ProvisionFailsStep
  <1>5. /\ UNCHANGED mishaps => Noted
        /\ Note({"fail"}) => Noted
    BY <1>0, <1>1, NotedIs
  <1> QED
    BY <1>1, <1>3, <1>4, <1>5 DEF VerifiesRealm

\* The state of a request that has loaded the application.
LEMMA LoadedIs ==
    ASSUME TypeOK, NEW i \in Ids, NEW kind \in AllStarts,
           NEW pc \in {"keys", "bind", "again", "delVault", "env"}
    PROVE  LET n == Load(kind, pc, i) IN
           /\ n \in RequestStates /\ n.kind = kind /\ n.pc = pc /\ n.id = i /\ n.env = "dev"
           /\ n.seen = row[i] /\ n.mine = row[i]
  <1>1. PICK o \in RequestStates : o = Idle /\ o.env = "dev"
    BY FirstAre DEF Idle
  <1>2. PICK x \in AppRows : x = row[i]
    BY DEF TypeOK
  <1>3. pc \in Binders \cup Providers \cup Deleters \cup {"env"} /\ i \in 0 .. MaxApps
    BY ConstantsAre DEF Binders, Providers, Deleters
  <1>4. PICK n : n = [o EXCEPT !.kind = kind, !.pc = pc, !.id = i, !.seen = x, !.mine = x]
    OBVIOUS
  <1>5. /\ n \in RequestStates /\ n.kind = kind /\ n.pc = pc /\ n.id = i /\ n.env = "dev"
        /\ n.seen = x /\ n.mine = x
    BY <1>1, <1>3, <1>4 DEF RequestStates
  <1>6. n = Load(kind, pc, i)
    BY <1>1, <1>2, <1>4 DEF Load
  <1> QED
    BY <1>2, <1>5, <1>6

\* The same for one environment.
LEMMA LoadIs ==
    ASSUME TypeOK, NEW i \in Ids, NEW kind \in AllStarts,
           NEW pc \in {"keys", "bind", "again", "delVault", "env"}, NEW e \in Envs
    PROVE  LET n == [Load(kind, pc, i) EXCEPT !.env = e] IN
           /\ n \in RequestStates /\ n.kind = kind /\ n.pc = pc /\ n.id = i /\ n.env = e
           /\ n.seen = row[i] /\ n.mine = row[i]
  <1>1. PICK x : x = Load(kind, pc, i)
    OBVIOUS
  <1>2. /\ x \in RequestStates /\ x.kind = kind /\ x.pc = pc /\ x.id = i /\ x.env = "dev"
        /\ x.seen = row[i] /\ x.mine = row[i]
    BY <1>1, LoadedIs
  <1>3. PICK n : n = [x EXCEPT !.env = e]
    OBVIOUS
  <1>4. /\ n \in RequestStates /\ n.kind = x.kind /\ n.pc = x.pc /\ n.id = x.id /\ n.env = e
        /\ n.seen = x.seen /\ n.mine = x.mine
    BY <1>2, <1>3 DEF RequestStates
  <1>5. n = [Load(kind, pc, i) EXCEPT !.env = e]
    BY <1>1, <1>3
  <1> QED
    BY <1>1, <1>2, <1>4, <1>5

\* Loading is for dev.
LEMMA LoadIsDev ==
    ASSUME TypeOK, NEW i \in Ids, NEW kind \in AllStarts,
           NEW pc \in {"keys", "bind", "again", "delVault", "env"}
    PROVE  [Load(kind, pc, i) EXCEPT !.env = "dev"] = Load(kind, pc, i)
  <1>1. PICK x : x = Load(kind, pc, i)
    OBVIOUS
  <1>2. x \in RequestStates /\ x.env = "dev"
    BY <1>1, LoadedIs
  <1>3. [x EXCEPT !.env = "dev"] = x
    BY <1>2 DEF RequestStates
  <1> QED
    BY <1>1, <1>3

\* Activation, reprovisioning, deletion and changes of variables begin.
LEMMA LoadStep ==
    ASSUME KeycloakInv, NEW r \in Requests,
           \/ ActivateBegins(r) \/ ReprovisionBegins(r) \/ DeleteBegins(r) \/ EnvBegins(r)
    PROVE  KeycloakInv'
  <1>0. UNCHANGED <<row, last, inst, realm, taken, vault>> /\ TypeOK
    BY DEF ActivateBegins, ReprovisionBegins, DeleteBegins, EnvBegins, KeycloakInv
  <1>1. ASSUME NEW i \in Ids, Present(i), NEW kind \in AllStarts, NEW e \in Envs,
               NEW pc \in {"keys", "bind", "again", "delVault", "env"},
               Begin(r, [Load(kind, pc, i) EXCEPT !.env = e]),
               \/ /\ kind = "activate" /\ e = "dev"
                  /\ pc = IF row[i].enabled THEN "bind" ELSE "keys"
               \/ kind = "reprovision" /\ pc = "again" /\ row[i].enabled
               \/ kind = "delete" /\ pc = "delVault" /\ e = "dev"
               \/ kind \in {"set", "unset"} /\ pc = "env" /\ ~row[i].enabled
        PROVE  KeycloakInv'
    <2>1. PICK n : n = [Load(kind, pc, i) EXCEPT !.env = e]
      OBVIOUS
    <2>2. /\ n \in RequestStates /\ n.kind = kind /\ n.pc = pc /\ n.id = i /\ n.env = e
          /\ n.seen = row[i] /\ n.mine = row[i]
      BY <1>0, <2>1, LoadIs
    <2>3. i # 0
      BY ConstantsAre
    <2>4. Shaped(n)
      BY <1>1, <2>2, <2>3 DEF Shaped, Registrar, Binders, Providers, Writers, Deleters
    <2> QED
      BY <1>0, <1>1, <2>1, <2>2, <2>4, BeginStep
  <1>2. CASE ActivateBegins(r)
    <2>1. PICK i \in Ids : Present(i)
             /\ Begin(r, Load("activate", IF row[i].enabled THEN "bind" ELSE "keys", i))
      BY <1>2 DEF ActivateBegins
    <2>2. PICK pc \in {"keys", "bind"} : pc = IF row[i].enabled THEN "bind" ELSE "keys"
      OBVIOUS
    <2>4. "activate" \in AllStarts /\ "dev" \in Envs
      BY DEF AllStarts, Envs
    <2>5. [Load("activate", pc, i) EXCEPT !.env = "dev"] = Load("activate", pc, i)
      BY <1>0, <2>4, LoadIsDev
    <2>3. Begin(r, [Load("activate", pc, i) EXCEPT !.env = "dev"])
      BY <2>1, <2>2, <2>5
    <2> QED
      BY <1>1, <2>1, <2>2, <2>3, <2>4
  <1>3. CASE ReprovisionBegins(r)
    <2>1. "reprovision" \in AllStarts
      BY DEF AllStarts
    <2> QED
      BY <1>1, <1>3, <2>1 DEF ReprovisionBegins
  <1>4. CASE DeleteBegins(r)
    <2>1. PICK i \in Ids : Present(i) /\ Begin(r, Load("delete", "delVault", i))
      BY <1>4 DEF DeleteBegins
    <2>3. "delete" \in AllStarts /\ "dev" \in Envs
      BY DEF AllStarts, Envs
    <2>4. [Load("delete", "delVault", i) EXCEPT !.env = "dev"] = Load("delete", "delVault", i)
      BY <1>0, <2>3, LoadIsDev
    <2>2. Begin(r, [Load("delete", "delVault", i) EXCEPT !.env = "dev"])
      BY <2>1, <2>4
    <2> QED
      BY <1>1, <2>1, <2>2, <2>3
  <1>5. CASE EnvBegins(r)
    <2>1. "set" \in AllStarts /\ "unset" \in AllStarts
      BY DEF AllStarts
    <2> QED
      BY <1>1, <1>5, <2>1 DEF EnvBegins, Managed
  <1> QED
    BY <1>2, <1>3, <1>4, <1>5

-----------------------------------------------------------------------------
(***************************************************************************)
(* Steps that write realms or secrets.                                     *)
(***************************************************************************)

\* The new state n of a request in state o fits the new realms and secrets.
FitsNew(o, n) ==
    /\ n \in RequestStates /\ Shaped(n) /\ n.id \in {0, o.id} /\ n.pc \notin Registrar
    /\ n.pc \notin {"connect"} /\ (o.pc \in Deleters => n.pc \in Deleters)
    /\ Without({"overlap"})' =>
          /\ n.id # 0 => Current(n)'
          /\ \A e \in Envs : vault'[e] \in {vault[e], None, Own, Url(row[o.id])}
    /\ Without({"outsider", "overlap", "crash"})' =>
          /\ Progress(n)'
          /\ n.pc \notin Deleters /\ row[o.id].enabled =>
                \A e \in Envs : Provisioned(o.id, e) => Provisioned(o.id, e)'
    /\ Without({"kept", "overlap", "crash"})' =>
          /\ \A u \in Servers, e \in Envs : realm'[<<u, e>>].owner \in Ids =>
                \/ realm'[<<u, e>>].owner = realm[<<u, e>>].owner
                \/ /\ realm'[<<u, e>>].owner = o.id /\ u = Url(row[o.id])
                   /\ n.id = o.id /\ n.mine.enabled
          /\ \A e \in Envs : vault'[e] \in Servers =>
                vault'[e] = vault[e] \/ (n.id = o.id /\ n.mine.enabled)
          /\ o.mine.enabled => (n.id = o.id /\ n.mine.enabled) \/ row[o.id].enabled
          /\ Clears(n)'

\* A request writes a realm or a secret.
LEMMA WritesStep ==
    ASSUME KeycloakInv, NEW r \in Requests, NEW o, o = req[r], o.id # 0, NEW n, Turns(r, n),
           FitsNew(o, n), Typed, LookedAt', UNCHANGED <<row, last, inst>>
    PROVE  KeycloakInv'
  <1>0. /\ o \in RequestStates /\ o.id \in Ids /\ o.id <= last /\ last \in Nat
        /\ n \in RequestStates /\ TypeOK /\ Plain /\ Shaped(n) /\ n.id \in {0, o.id}
    BY AloneIs, ConstantsAre DEF KeycloakInv, TypeOK, FitsNew, Plain
  <1>1. n.id <= last /\ n.pc \notin {"connect", "upsert"}
    BY <1>0 DEF FitsNew, Registrar
  <1>2. Plain'
    <2>1. Alike /\ Locks(r, n)
      BY <1>0, <1>1 DEF Alike, Locks, TypeOK
    <2> QED
      BY <1>0, <1>1, <2>1, PlainStep
  <1>3. mishaps \subseteq mishaps'
    BY DEF Turns
  <1>4. ASSUME Without({"overlap"})'
        PROVE  /\ \A s \in Requests : s # r => req[s].id = 0
               /\ \A j \in Ids : Present(j)' => j = o.id
               /\ n.id # 0 => Current(n)'
               /\ IssuerOf(o.id)' /\ \A j \in Ids : OutcomeOf(j)'
    <2>1. Without({"overlap"})
      BY <1>3, <1>4, MishapsGrow
    <2>2. \A j \in Ids : OutcomeOf(j)
      BY <2>1 DEF KeycloakInv, OutcomeExplained, OutcomeOf
    <2>3. IssuerOf(o.id)
      BY <2>1, AloneIs
    <2>4. IssuerOf(o.id)'
      BY <1>4, <2>3 DEF IssuerOf, FitsNew, Present, Url
    <2> QED
      BY <1>4, <2>1, <2>2, <2>4, AloneIs DEF Present, OutcomeOf, FitsNew
  <1>5. ASSUME Without({"outsider", "overlap", "crash"})'
        PROVE  UsableOf(o.id, n)' /\ Progress(n)'
    <2>1. Without({"outsider", "overlap", "crash"})
      BY <1>3, <1>5, MishapsGrow
    <2>2. UsableOf(o.id, o)
      BY <2>1, AloneIs
    <2>3. UsableOf(o.id, n)'
      BY <1>5, <2>2 DEF UsableOf, FitsNew, Present
    <2> QED
      BY <1>5, <2>3 DEF FitsNew
  <1>6. ASSUME Without({"kept", "overlap", "crash"})'
        PROVE  RealmsOf(o.id, n)'
    <2>1. Without({"kept", "overlap", "crash"}) /\ Without({"overlap"})
      BY <1>3, <1>6, MishapsGrow DEF Without
    <2>2. RealmsOf(o.id, o) /\ Present(o.id)
      BY <2>1, AloneIs DEF Current
    <2>3. KnownBy(o.id, o) \/ (n.id = o.id /\ n.mine.enabled) => KnownBy(o.id, n)'
      BY <1>6, <2>2 DEF KnownBy, Present, FitsNew
    <2>4. ASSUME NEW u \in Servers, NEW e \in Envs, realm'[<<u, e>>].owner \in Ids
          PROVE  realm'[<<u, e>>].owner = o.id /\ KnownBy(o.id, n)' /\ u = Url(row[o.id])'
      <3>1. Url(row[o.id])' = Url(row[o.id])
        BY <1>0 DEF Url
      <3>2. CASE realm'[<<u, e>>].owner = realm[<<u, e>>].owner
        BY <2>2, <2>3, <2>4, <3>1, <3>2 DEF RealmsOf
      <3>3. CASE /\ realm'[<<u, e>>].owner = o.id /\ u = Url(row[o.id])
                 /\ n.id = o.id /\ n.mine.enabled
        BY <2>3, <3>1, <3>3
      <3> QED
        BY <1>6, <2>4, <3>2, <3>3 DEF FitsNew
    <2>5. ASSUME NEW e \in Envs, vault'[e] \in Servers PROVE KnownBy(o.id, n)'
      BY <1>6, <2>2, <2>3, <2>5 DEF RealmsOf, FitsNew
    <2>6. Clears(n)'
      BY <1>6 DEF FitsNew
    <2> QED
      BY <2>4, <2>5, <2>6 DEF RealmsOf
  <1> QED
    BY <1>0, <1>2, <1>4, <1>5, <1>6, TurnStep

\* The name of the realm is asked for.
LEMMA CreatesRealmStep ==
    ASSUME KeycloakInv, NEW r \in Requests, CreatesRealm(r)
    PROVE  KeycloakInv'
  <1>0. req[r].pc = "create" /\ UNCHANGED <<last, inst, taken, vault, started>>
    BY DEF CreatesRealm
  <1>1. PICK o \in RequestStates : /\ o = req[r] /\ Shaped(o) /\ o.id \in Ids /\ o.id # 0
                                   /\ TypeOK
    BY <1>0, Working DEF Registrar
  <1>2. o.pc = "create" /\ o.pc \in Providers /\ o.mine.enabled /\ o.mine.bound = o.seen.bound
        /\ Spot(o) \in Servers \X Envs /\ o.pc \notin Deleters
    BY <1>0, <1>1, StateIs DEF Providers, Shaped, Deleters
  <1>3. CASE /\ realm' = Created(o)
             /\ req' = [Swaps(Spot(o), o.id) EXCEPT ![r].pc = AfterCreate(o)]
             /\ UNCHANGED <<row, mishaps>>
    <2>1. PICK n : n = [o EXCEPT !.pc = "readback"]
      OBVIOUS
    <2>2. /\ n \in RequestStates /\ n.pc = "readback" /\ n.kind = o.kind /\ n.id = o.id
          /\ n.env = o.env /\ n.seen = o.seen /\ n.mine = o.mine /\ n.url = o.url
      BY <2>1 DEF RequestStates, Providers
    <2>3. /\ req' \in [Requests -> RequestStates] /\ req'[r] = n
          /\ \A s \in Requests : s # r =>
                req'[s] = IF /\ req[s].pc \in {"cli", "client", "vault", "verify", "delRealm"}
                             /\ Spot(req[s]) = Spot(o) /\ req[s].id # o.id
                          THEN [req[s] EXCEPT !.swapped = TRUE] ELSE req[s]
      <3>1. Swaps(Spot(o), o.id)[r] = o
        BY <1>1, <1>2 DEF Swaps
      <3>2. \A s \in Requests : Swaps(Spot(o), o.id)[s] =
                IF /\ req[s].pc \in {"cli", "client", "vault", "verify", "delRealm"}
                   /\ Spot(req[s]) = Spot(o) /\ req[s].id # o.id
                THEN [req[s] EXCEPT !.swapped = TRUE] ELSE req[s]
        BY DEF Swaps
      <3>3. \A x \in RequestStates : [x EXCEPT !.swapped = TRUE] \in RequestStates
        BY DEF RequestStates
      <3>4. \A s \in Requests : req[s] \in RequestStates
        BY <1>1 DEF TypeOK
      <3>5. Swaps(Spot(o), o.id) \in [Requests -> RequestStates]
        BY <3>3, <3>4 DEF Swaps
      <3>6. req' = [Swaps(Spot(o), o.id) EXCEPT ![r] = n]
        BY <1>3, <2>1, <3>1 DEF AfterCreate
      <3> QED
        BY <2>2, <3>2, <3>5, <3>6
    <2>4. Noted
      BY <1>0, <1>1, <1>3, NotedIs
    <2>5. Turns(r, n)
      <3>1. \A x \in RequestStates : Akin([x EXCEPT !.swapped = TRUE], x) /\ Akin(x, x)
        BY DEF Akin, RequestStates
      <3>2. \A s \in Requests : req[s] \in RequestStates
        BY <1>1 DEF TypeOK
      <3>3. \A s \in Requests : s # r => Akin(req'[s], req[s])
        BY <2>3, <3>1, <3>2
      <3> QED
        BY <2>2, <2>3, <2>4, <3>3 DEF Turns, Noted
    <2>6. /\ realm' \in [Servers \X Envs -> Realms]
          /\ \A p \in Servers \X Envs : realm'[p] # realm[p] =>
                p = Spot(o) /\ realm[p].owner = Nobody /\ realm'[p].owner = o.id
      <3>1. PICK x : x = [NoRealm EXCEPT !.owner = o.id]
        OBVIOUS
      <3>2. x \in Realms /\ x.owner = o.id
        <4>1. NoRealm \in Realms /\ o.id \in 0 .. Stranger
          BY <1>1, FirstAre, ConstantsAre DEF Stranger
        <4> QED
          BY <3>1, <4>1 DEF Realms
      <3>3. \/ realm' = [realm EXCEPT ![Spot(o)] = x] /\ realm[Spot(o)].owner = Nobody
            \/ realm' = realm
        BY <1>3, <3>1 DEF Created
      <3> QED
        BY <1>1, <1>2, <3>2, <3>3 DEF TypeOK
    <2>7. LookedAt'
      <3> SUFFICES ASSUME NEW s \in Requests, req'[s].pc \in Writers \cup {"delRealm"}
                   PROVE  req'[s].swapped \/ realm'[Spot(req[s])'].owner \in {Nobody, req'[s].id}
        BY DEF LookedAt, Spot
      <3>1. s # r
        BY <2>2, <2>3 DEF Writers
      <3>2. PICK x \in RequestStates : x = req[s] /\ Spot(x) \in Servers \X Envs
        BY <1>1, StateIs DEF TypeOK
      <3>3. CASE req'[s] = x
        <4>1. x.swapped \/ realm[Spot(x)].owner \in {Nobody, x.id}
          BY <3>2, <3>3 DEF KeycloakInv, LookedAt
        <4>2. Spot(x) = Spot(o) => x.swapped \/ x.id = o.id
          <5> SUFFICES ASSUME Spot(x) = Spot(o), x.id # o.id PROVE x.swapped
            OBVIOUS
          <5>1. x = [x EXCEPT !.swapped = TRUE]
            BY <2>3, <3>1, <3>2, <3>3 DEF Writers
          <5> QED
            BY <5>1 DEF RequestStates
        <4>3. Spot(req[s])' = Spot(x)
          BY <3>3 DEF Spot
        <4> QED
          BY <2>6, <3>2, <3>3, <4>1, <4>2, <4>3
      <3>4. CASE req'[s] = [x EXCEPT !.swapped = TRUE]
        BY <3>4 DEF RequestStates
      <3> QED
        BY <2>3, <3>1, <3>2, <3>3, <3>4
    <2>8. Typed
      BY <1>0, <1>1, <2>6 DEF Typed, TypeOK
    <2>9. Shaped(n) /\ n.pc \notin Registrar /\ n.pc \in Providers /\ n.pc \notin Deleters
          /\ n.pc \notin Writers /\ n.pc # "connect"
      BY <1>1, <1>2, <2>2 DEF Shaped, Registrar, Binders, Providers, Writers, Deleters
    <2>10. Url(o.mine)' = Url(o.mine) /\ Url(row[o.id])' = Url(row[o.id])
      BY <1>0, <1>1, <1>3 DEF Url
    <2>11. ASSUME Without({"overlap"})'
           PROVE  Current(n)' /\ o.url = Url(row[o.id])
      <3>1. Current(o)
        BY <1>1, <1>3, <2>11, AloneIs DEF Without
      <3>2. o.url = Url(o.mine) /\ Present(o.id) /\ Same(o.seen, row[o.id])
        BY <1>2, <3>1 DEF Current
      <3>3. o.url = Url(row[o.id])
        BY <1>2, <3>2 DEF Same, Url
      <3> QED
        BY <1>3, <2>2, <2>9, <2>10, <3>2, <3>3 DEF Current, Present, Binders, Same
    <2>12. ASSUME NEW e \in Envs, Provisioned(o.id, e) PROVE Provisioned(o.id, e)'
      <3>1. Url(row[o.id]) \in Servers
        BY <1>1, ConstantsAre DEF Url, TypeOK, AppRows, InstanceRows
      <3>2. realm'[<<Url(row[o.id]), e>>] = realm[<<Url(row[o.id]), e>>]
        BY <1>1, <2>6, <2>12, <3>1, ConstantsAre DEF Provisioned
      <3> QED
        BY <1>0, <2>10, <2>12, <3>2 DEF Provisioned
    <2>13. ASSUME Without({"outsider", "overlap", "crash"})' PROVE Progress(n)'
      <3>1. Progress(o)
        BY <1>1, <1>3, <2>13, AloneIs DEF Without
      <3> QED
        BY <1>2, <2>2, <2>9, <2>12, <3>1 DEF Progress, Envs
    <2>14. Clears(n)'
      BY <2>2, <2>9 DEF Clears
    <2>15. Without({"kept", "overlap", "crash"})' => Without({"overlap"})'
      BY DEF Without
    <2>16. FitsNew(o, n)
      <3>1. \A u \in Servers, e \in Envs : realm'[<<u, e>>] # realm[<<u, e>>] =>
               u = o.url /\ realm'[<<u, e>>].owner = o.id
        BY <2>6 DEF Spot
      <3> QED
        BY <1>0, <1>2, <2>2, <2>9, <2>11, <2>12, <2>13, <2>14, <2>15, <3>1 DEF FitsNew
    <2> QED
      BY <1>0, <1>1, <1>3, <2>5, <2>7, <2>8, <2>16, WritesStep
  <1>4. CASE ProvisionFails(r) /\ Note({"fail"}) /\ UNCHANGED realm
    BY <1>0, <1>1, <1>2, <1>4, ProvisionFailsStep, NotedIs
  <1> QED
    BY <1>1, <1>3, <1>4 DEF CreatesRealm

\* A request writes in the realm of that name.
LEMMA InRealmStep ==
    ASSUME KeycloakInv, NEW r \in Requests, NEW o \in RequestStates, o = req[r],
           NEW w \in {"cli", "client"}, NEW pc \in {"client", "vault"},
           o.pc = w, pc = IF w = "cli" THEN "client" ELSE "vault",
           NEW x \in Realms, x.owner = realm[Spot(o)].owner,
           w = "cli" => x.cli /\ x.client = realm[Spot(o)].client,
           w = "client" => x.client /\ x.cli = realm[Spot(o)].cli,
           InRealm(r, [realm EXCEPT ![Spot(o)] = x], pc)
    PROVE  KeycloakInv'
  <1>0. UNCHANGED <<last, inst, taken, vault, started>>
    BY DEF InRealm
  <1>1. /\ Shaped(o) /\ o.id \in Ids /\ o.id # 0 /\ TypeOK /\ o.pc \in Writers
        /\ o.pc \in Providers /\ o.pc \notin Deleters /\ Spot(o) \in Servers \X Envs
    BY Working, StateIs DEF Registrar, Writers, Providers, Deleters
  <1>2. CASE realm' = [realm EXCEPT ![Spot(o)] = x] /\ Step(r, pc) /\ UNCHANGED <<row, mishaps>>
    <2>1. PICK n : n = [o EXCEPT !.pc = pc]
      OBVIOUS
    <2>2. /\ n \in RequestStates /\ n.pc = pc /\ n.kind = o.kind /\ n.id = o.id
          /\ n.env = o.env /\ n.seen = o.seen /\ n.mine = o.mine /\ n.url = o.url
          /\ n.swapped = o.swapped
      <3>1. pc \in Providers
        BY DEF Providers, Writers
      <3> QED
        BY <2>1, <3>1 DEF RequestStates
    <2>3. Noted /\ Goes(r, n)
      BY <1>0, <1>1, <1>2, <2>1, NotedIs DEF Step
    <2>4. Turns(r, n) /\ \A s \in Requests : s # r => req'[s] = req[s]
      BY <1>1, <2>2, <2>3, GoesTurns DEF Noted
    <2>5. /\ realm' \in [Servers \X Envs -> Realms]
          /\ \A p \in Servers \X Envs : realm'[p].owner = realm[p].owner
          /\ \A p \in Servers \X Envs : p # Spot(o) => realm'[p] = realm[p]
          /\ realm'[Spot(o)] = x
      BY <1>1, <1>2 DEF TypeOK
    <2>6. Spot(n) = Spot(o) /\ n.pc \in Writers /\ n.pc \in Providers /\ n.pc # "verify"
      BY <2>2 DEF Spot, Writers, Providers
    <2>7. LookedAt'
      <3> SUFFICES ASSUME NEW s \in Requests, req'[s].pc \in Writers \cup {"delRealm"}
                   PROVE  req'[s].swapped \/ realm'[Spot(req[s])'].owner \in {Nobody, req'[s].id}
        BY DEF LookedAt, Spot
      <3>1. PICK y \in RequestStates : y = req[s] /\ Spot(y) \in Servers \X Envs
        BY <1>1, StateIs DEF TypeOK
      <3>2. y.pc \in Writers \cup {"delRealm"} =>
               y.swapped \/ realm[Spot(y)].owner \in {Nobody, y.id}
        BY <3>1 DEF KeycloakInv, LookedAt
      <3>3. Spot(req[s])' = Spot(y) /\ req'[s].swapped = y.swapped /\ req'[s].id = y.id
            /\ y.pc \in Writers \cup {"delRealm"}
        BY <1>1, <2>2, <2>4, <2>6, <3>1 DEF Spot, Turns
      <3> QED
        BY <2>5, <3>1, <3>2, <3>3
    <2>8. Typed
      BY <1>0, <1>1, <2>5 DEF Typed, TypeOK
    <2>9. Shaped(n) /\ n.pc \notin Registrar /\ n.pc \notin Deleters /\ n.pc # "connect"
      BY <1>1, <2>2, <2>6 DEF Shaped, Registrar, Binders, Providers, Writers, Deleters
    <2>10. Url(o.mine)' = Url(o.mine) /\ Url(row[o.id])' = Url(row[o.id])
      BY <1>0, <1>1, <1>2 DEF Url
    <2>11. ASSUME Without({"overlap"})' PROVE Current(n)'
      <3>1. Current(o)
        BY <1>1, <1>2, <2>11, AloneIs DEF Without
      <3> QED
        BY <1>1, <1>2, <2>2, <2>6, <2>10, <3>1 DEF Current, Present, Binders, Same, Writers
    <2>12. ASSUME NEW e \in Envs, Provisioned(o.id, e) PROVE Provisioned(o.id, e)'
      <3>1. Url(row[o.id]) \in Servers
        BY <1>1, ConstantsAre DEF Url, TypeOK, AppRows, InstanceRows
      <3>2. realm'[<<Url(row[o.id]), e>>] = realm[<<Url(row[o.id]), e>>]
        <4>1. CASE <<Url(row[o.id]), e>> # Spot(o)
          BY <2>5, <3>1, <4>1
        <4>2. CASE <<Url(row[o.id]), e>> = Spot(o)
          <5>1. realm[Spot(o)] = [owner |-> o.id, cli |-> TRUE, client |-> TRUE]
            BY <2>12, <4>2 DEF Provisioned
          <5>2. x.owner = o.id /\ x.cli /\ x.client
            <6>1. PICK y : y = realm[Spot(o)]
              OBVIOUS
            <6>2. y.owner = o.id /\ y.cli /\ y.client
              BY <5>1, <6>1
            <6> QED
              BY <6>1, <6>2
          <5>3. x = [owner |-> o.id, cli |-> TRUE, client |-> TRUE]
            BY <5>2 DEF Realms
          <5> QED
            BY <2>5, <4>2, <5>1, <5>3
        <4> QED
          BY <4>1, <4>2
      <3> QED
        BY <1>0, <2>10, <2>12, <3>2 DEF Provisioned
    <2>13. ASSUME Without({"outsider", "overlap", "crash"})' PROVE Progress(n)'
      <3>1. Progress(o)
        BY <1>1, <1>2, <2>13, AloneIs DEF Without
      <3>2. /\ n.env = "prod" /\ n.kind # "reprovision" => Provisioned(n.id, "dev")'
            /\ realm'[Spot(o)].owner = n.id /\ realm'[Spot(o)].cli
            /\ n.pc = "vault" => realm'[Spot(o)].client
        BY <1>1, <2>2, <2>5, <2>12, <3>1 DEF Progress, Envs, Writers
      <3>3. Spot(n)' = Spot(o)
        BY <2>6 DEF Spot
      <3> QED
        BY <2>6, <3>2, <3>3 DEF Progress
    <2>14. Clears(n)'
      BY <2>2, <2>9 DEF Clears
    <2>15. FitsNew(o, n)
      <3>1. \A u \in Servers, e \in Envs : realm'[<<u, e>>].owner = realm[<<u, e>>].owner
        BY <2>5
      <3>2. o.mine.enabled => n.mine.enabled
        BY <2>2
      <3> QED
        BY <1>0, <1>1, <2>2, <2>9, <2>11, <2>12, <2>13, <2>14, <3>1, <3>2 DEF FitsNew
    <2> QED
      BY <1>0, <1>1, <1>2, <2>4, <2>7, <2>8, <2>15, WritesStep
  <1>3. CASE ProvisionFails(r) /\ UNCHANGED <<realm, mishaps>>
    BY <1>0, <1>1, <1>3, ProvisionFailsStep, NotedIs
  <1>4. CASE ProvisionFails(r) /\ Note({"fail"}) /\ UNCHANGED realm
    BY <1>0, <1>1, <1>4, ProvisionFailsStep, NotedIs
  <1> QED
    BY <1>2, <1>3, <1>4 DEF InRealm

\* The password grant is disabled, the client created.
LEMMA RealmWritesStep ==
    ASSUME KeycloakInv, NEW r \in Requests, DisablesAdminCli(r) \/ CreatesClient(r)
    PROVE  KeycloakInv'
  <1>1. PICK o \in RequestStates : o = req[r] /\ TypeOK /\ Spot(o) \in Servers \X Envs
    BY StateIs DEF KeycloakInv, TypeOK
  <1>2. PICK y \in Realms : y = realm[Spot(o)]
    BY <1>1 DEF TypeOK
  <1>3. CASE DisablesAdminCli(r)
    <2>1. PICK x : x = [y EXCEPT !.cli = TRUE]
      OBVIOUS
    <2>2. x \in Realms /\ x.owner = y.owner /\ x.cli /\ x.client = y.client
      BY <2>1 DEF Realms
    <2>3. [realm EXCEPT ![Spot(req[r])].cli = TRUE] = [realm EXCEPT ![Spot(o)] = x]
      BY <1>1, <1>2, <2>1
    <2> QED
      BY <1>1, <1>2, <1>3, <2>2, <2>3, InRealmStep DEF DisablesAdminCli
  <1>4. CASE CreatesClient(r)
    <2>1. PICK x : x = [y EXCEPT !.client = TRUE]
      OBVIOUS
    <2>2. x \in Realms /\ x.owner = y.owner /\ x.client /\ x.cli = y.cli
      BY <2>1 DEF Realms
    <2>3. [realm EXCEPT ![Spot(req[r])].client = TRUE] = [realm EXCEPT ![Spot(o)] = x]
      BY <1>1, <1>2, <2>1
    <2> QED
      BY <1>1, <1>2, <1>4, <2>2, <2>3, InRealmStep DEF CreatesClient
  <1> QED
    BY <1>3, <1>4

\* What a request has looked at stays while the owners of realms do, or go.
LEMMA LookedStill ==
    ASSUME Plain, NEW r \in Requests, NEW n \in RequestStates, Goes(r, n),
           \A p \in Servers \X Envs : realm'[p].owner \in {Nobody, realm[p].owner},
           n.pc \in Writers \cup {"delRealm"} =>
               n.swapped \/ realm[Spot(n)].owner \in {Nobody, n.id}
    PROVE  LookedAt'
  <1> SUFFICES ASSUME NEW s \in Requests, req'[s].pc \in Writers \cup {"delRealm"}
               PROVE  req'[s].swapped \/ realm'[Spot(req[s])'].owner \in {Nobody, req'[s].id}
    BY DEF LookedAt, Spot
  <1>1. PICK y \in RequestStates : /\ y = req'[s] /\ Spot(y) \in Servers \X Envs
                                   /\ y.swapped \/ realm[Spot(y)].owner \in {Nobody, y.id}
    <2>1. CASE s = r
      BY <2>1, StateIs DEF Goes, Plain, TypeOK
    <2>2. CASE s # r
      <3>1. req'[s] = req[s] /\ req[s] \in RequestStates
        BY <2>2 DEF Goes, Plain, TypeOK
      <3>2. req[s].swapped \/ realm[Spot(req[s])].owner \in {Nobody, req[s].id}
        BY <3>1 DEF Plain, LookedAt
      <3> QED
        BY <3>1, <3>2, StateIs
    <2> QED
      BY <2>1, <2>2
  <1>2. Spot(req[s])' = Spot(y)
    BY <1>1 DEF Spot
  <1> QED
    BY <1>1, <1>2

\* The variables are written.
LEMMA WritesVaultStep ==
    ASSUME KeycloakInv, NEW r \in Requests, WritesVault(r)
    PROVE  KeycloakInv'
  <1>0. req[r].pc = "vault" /\ UNCHANGED <<last, inst, realm, taken, started>>
    BY DEF WritesVault
  <1>1. PICK o \in RequestStates : /\ o = req[r] /\ Shaped(o) /\ o.id \in Ids /\ o.id # 0
                                   /\ TypeOK
    BY <1>0, Working DEF Registrar
  <1>2. /\ o.pc = "vault" /\ o.pc \in Providers /\ o.pc \in Writers /\ o.mine.enabled
        /\ o.mine.bound = o.seen.bound /\ o.pc \notin Deleters
    BY <1>0, <1>1 DEF Providers, Writers, Shaped, Deleters
  <1>3. CASE /\ vault' = [vault EXCEPT ![o.env] = Issuer(o)] /\ Step(r, "verify")
             /\ UNCHANGED <<row, mishaps>>
    <2>1. PICK n : n = [o EXCEPT !.pc = "verify"]
      OBVIOUS
    <2>2. /\ n \in RequestStates /\ n.pc = "verify" /\ n.kind = o.kind /\ n.id = o.id
          /\ n.env = o.env /\ n.seen = o.seen /\ n.mine = o.mine /\ n.url = o.url
          /\ n.swapped = o.swapped
      <3>1. "verify" \in Providers
        BY DEF Providers, Writers
      <3> QED
        BY <2>1, <3>1 DEF RequestStates
    <2>3. Noted /\ Goes(r, n)
      BY <1>0, <1>1, <1>3, <2>1, NotedIs DEF Step
    <2>4. Turns(r, n) /\ Plain
      BY <1>1, <2>2, <2>3, GoesTurns DEF Noted, KeycloakInv, Plain
    <2>5. /\ vault' \in [Envs -> Servers \cup {None, Own}] /\ vault'[o.env] = o.url
          /\ \A e \in Envs : e # o.env => vault'[e] = vault[e]
      BY <1>1, <1>3, StateIs DEF TypeOK, Issuer
    <2>6. Spot(n) = Spot(o) /\ n.pc \in Writers /\ n.pc \in Providers
      BY <2>2 DEF Spot, Writers, Providers
    <2>7. LookedAt'
      <3>1. o.swapped \/ realm[Spot(o)].owner \in {Nobody, o.id}
        BY <1>1, <1>2 DEF KeycloakInv, LookedAt
      <3> QED
        BY <1>0, <2>2, <2>3, <2>4, <2>6, <3>1, LookedStill
    <2>8. Typed
      BY <1>0, <1>1, <2>5 DEF Typed, TypeOK
    <2>9. Shaped(n) /\ n.pc \notin Registrar /\ n.pc \notin Deleters /\ n.pc # "connect"
      BY <1>1, <1>2, <2>2, <2>6 DEF Shaped, Registrar, Binders, Providers, Writers, Deleters
    <2>10. Url(o.mine)' = Url(o.mine) /\ Url(row[o.id])' = Url(row[o.id])
      BY <1>0, <1>1, <1>3 DEF Url
    <2>11. ASSUME Without({"overlap"})' PROVE Current(n)' /\ o.url = Url(row[o.id])
      <3>1. Current(o)
        BY <1>1, <1>3, <2>11, AloneIs DEF Without
      <3>2. o.url = Url(o.mine) /\ Present(o.id) /\ Same(o.seen, row[o.id])
        BY <1>2, <3>1 DEF Current
      <3>3. o.url = Url(row[o.id])
        BY <1>2, <3>2 DEF Same, Url
      <3>4. Current(n)'
        BY <1>3, <2>2, <2>10, <3>2 DEF Current, Present, Binders, Same
      <3> QED
        BY <3>3, <3>4
    <2>12. ASSUME NEW e \in Envs, Provisioned(o.id, e), Without({"overlap"})'
           PROVE  Provisioned(o.id, e)'
      BY <1>0, <2>5, <2>10, <2>11, <2>12 DEF Provisioned
    <2>13. ASSUME Without({"outsider", "overlap", "crash"})' PROVE Progress(n)'
      <3>1. Progress(o) /\ Without({"overlap"})'
        BY <1>1, <1>3, <2>13, AloneIs DEF Without
      <3>2. /\ n.env = "prod" /\ n.kind # "reprovision" => Provisioned(n.id, "dev")'
            /\ realm'[Spot(o)].owner = n.id /\ realm'[Spot(o)].cli
            /\ realm'[Spot(o)].client
        BY <1>0, <1>2, <2>2, <2>12, <3>1 DEF Progress, Envs, Writers
      <3>3. Spot(n)' = Spot(o) /\ vault'[n.env] = n.url
        BY <2>2, <2>5, <2>6 DEF Spot
      <3> QED
        BY <2>6, <3>2, <3>3 DEF Progress
    <2>14. Clears(n)'
      BY <2>2, <2>9 DEF Clears
    <2>15. /\ Without({"outsider", "overlap", "crash"})' => Without({"overlap"})'
           /\ Without({"kept", "overlap", "crash"})' => Without({"overlap"})'
      BY DEF Without
    <2>16. FitsNew(o, n)
      BY <1>0, <1>2, <2>2, <2>5, <2>9, <2>11, <2>12, <2>13, <2>14, <2>15 DEF FitsNew
    <2> QED
      BY <1>0, <1>1, <1>3, <2>4, <2>7, <2>8, <2>16, WritesStep
  <1>4. CASE ProvisionFails(r) /\ UNCHANGED <<vault, mishaps>>
    BY <1>0, <1>1, <1>2, <1>4, ProvisionFailsStep, NotedIs
  <1>5. CASE ProvisionFails(r) /\ Note({"fail"}) /\ UNCHANGED vault
    BY <1>0, <1>1, <1>2, <1>5, ProvisionFailsStep, NotedIs
  <1> QED
    BY <1>1, <1>3, <1>4, <1>5 DEF WritesVault

\* A developer sets or removes the variables.
LEMMA EnvWritesStep ==
    ASSUME KeycloakInv, NEW r \in Requests, EnvWrites(r)
    PROVE  KeycloakInv'
  <1>0. req[r].pc = "env" /\ UNCHANGED <<row, last, inst, realm, taken, started, mishaps>>
        /\ Goes(r, Idle)
    BY DEF EnvWrites, Ends
  <1>1. PICK o \in RequestStates : /\ o = req[r] /\ Shaped(o) /\ o.id \in Ids /\ o.id # 0
                                   /\ TypeOK
    BY <1>0, Working DEF Registrar
  <1>2. o.pc = "env" /\ ~o.seen.enabled /\ ~o.mine.enabled /\ o.pc \notin Deleters
    BY <1>0, <1>1 DEF Shaped, Deleters
  <1>3. /\ vault' \in [Envs -> Servers \cup {None, Own}]
        /\ \A e \in Envs : vault'[e] \in {vault[e], None, Own}
    BY <1>1 DEF EnvWrites, TypeOK
  <1>4. Noted /\ Idle \in RequestStates /\ Plain
    BY <1>0, <1>1, NotedIs, FirstAre DEF KeycloakInv, Plain
  <1>5. Turns(r, Idle)
    BY <1>0, <1>1, <1>4, GoesTurns DEF Noted
  <1>6. LookedAt' /\ Typed
    <2>1. LookedAt'
      BY <1>0, <1>4, IdleIs, LookedStill DEF Writers
    <2> QED
      BY <1>0, <1>1, <1>3, <2>1 DEF Typed, TypeOK
  <1>7. Shaped(Idle) /\ Idle.pc \notin Registrar /\ Progress(Idle)' /\ Clears(Idle)'
    BY IdleIs DEF Shaped, Registrar, Binders, Providers, Writers, Deleters, Progress, Clears
  <1>8. Without({"overlap"})' => ~row[o.id].enabled
    BY <1>0, <1>1, <1>2, AloneIs DEF Without, Current, Same
  <1>9. Without({"outsider", "overlap", "crash"})' => Without({"overlap"})'
    BY DEF Without
  <1>10. \A e \in Envs : vault'[e] \in Servers => vault'[e] = vault[e]
    BY <1>3, ConstantsAre
  <1>11. FitsNew(o, Idle)
    BY <1>0, <1>2, <1>3, <1>4, <1>7, <1>8, <1>9, <1>10, IdleIs DEF FitsNew
  <1> QED
    BY <1>0, <1>1, <1>5, <1>6, <1>11, WritesStep

\* The secrets of the application are deleted.
LEMMA DeletesSecretsStep ==
    ASSUME KeycloakInv, NEW r \in Requests, DeletesSecrets(r)
    PROVE  KeycloakInv'
  <1>0. req[r].pc = "delVault" /\ UNCHANGED <<row, last, inst, realm, taken, started>>
    BY DEF DeletesSecrets
  <1>1. PICK o \in RequestStates : /\ o = req[r] /\ Shaped(o) /\ o.id \in Ids /\ o.id # 0
                                   /\ TypeOK
    BY <1>0, Working DEF Registrar
  <1>2. o.pc = "delVault" /\ o.env = "dev" /\ o.mine = o.seen /\ o.pc \in Deleters
    BY <1>0, <1>1 DEF Shaped, Deleters
  <1>3. PICK n : n = [o EXCEPT !.pc = AfterVault(o)]
    OBVIOUS
  <1>4. /\ n \in RequestStates /\ n.kind = o.kind /\ n.id = o.id /\ n.env = o.env
        /\ n.seen = o.seen /\ n.mine = o.mine
        /\ n.pc = IF o.mine.enabled THEN "delCheck" ELSE "delRow"
    <2>1. PICK pc \in {"delCheck", "delRow"} : pc = AfterVault(o)
      BY DEF AfterVault
    <2>2. pc \in Deleters
      BY DEF Deleters
    <2>3. n = [o EXCEPT !.pc = pc]
      BY <1>3, <2>1
    <2>4. /\ n \in RequestStates /\ n.kind = o.kind /\ n.id = o.id /\ n.env = o.env
          /\ n.seen = o.seen /\ n.mine = o.mine /\ n.pc = pc
      BY <2>2, <2>3 DEF RequestStates
    <2> QED
      BY <2>1, <2>4 DEF AfterVault
  <1>5. Goes(r, n) /\ Noted
    BY <1>0, <1>1, <1>3, NotedIs DEF DeletesSecrets, Step
  <1>6. Turns(r, n) /\ Plain
    BY <1>1, <1>4, <1>5, GoesTurns DEF Noted, KeycloakInv, Plain
  <1>7. /\ vault' \in [Envs -> Servers \cup {None, Own}]
        /\ \A e \in Envs : vault'[e] \in {vault[e], None}
    BY <1>1 DEF DeletesSecrets, TypeOK, Envs
  <1>8. n.pc \in Deleters \ {"delVault"} /\ n.pc # "delRealm"
    BY <1>4 DEF Deleters
  <1>9. Shaped(n) /\ n.pc \notin Registrar /\ n.pc \notin Writers /\ n.pc \notin Providers
        /\ n.pc # "connect" /\ (Current(o) => Current(n))
    BY <1>1, <1>2, <1>4, <1>8, DeletingIs
  <1>10. LookedAt' /\ Typed
    <2>1. LookedAt'
      BY <1>0, <1>4, <1>5, <1>6, <1>8, <1>9, LookedStill
    <2> QED
      BY <1>0, <1>1, <1>7, <2>1 DEF Typed, TypeOK
  <1>11. mishaps \subseteq mishaps'
    BY <1>5 DEF Noted
  <1>12. ASSUME Without({"overlap"})' PROVE Current(n)'
    <2>1. Current(n)
      BY <1>1, <1>9, <1>11, <1>12, AloneIs, MishapsGrow
    <2>2. n.pc \notin Binders /\ n.pc # "keys"
      BY <1>4 DEF Binders
    <2> QED
      BY <1>0, <2>1, <2>2 DEF Current, Present, Url, Same
  <1>13. ASSUME Without({"kept", "overlap", "crash"})' PROVE Clears(n)'
    <2>1. \A e \in Envs : vault'[e] = None
      <3>1. ~Note({"kept"})
        BY <1>0, <1>1, <1>13, NotedIs DEF Without
      <3> QED
        BY <3>1 DEF DeletesSecrets
    <2>2. Without({"kept", "overlap", "crash"}) /\ Without({"overlap"})
      BY <1>11, <1>13, MishapsGrow DEF Without
    <2>3. RealmsOf(o.id, o) /\ Current(o)
      BY <1>1, <2>2, AloneIs
    <2>4. ~o.mine.enabled => ~KnownBy(o.id, o)
      BY <1>2, <2>3 DEF KnownBy, Current, Same
    <2>5. ASSUME NEW u \in Servers, NEW e \in Envs, realm[<<u, e>>].owner = o.id
          PROVE  n.pc # "delRow"
      BY <1>1, <1>4, <2>3, <2>4, <2>5 DEF RealmsOf
    <2>6. n.env # "prod"
      BY <1>2, <1>4
    <2> QED
      BY <1>0, <1>4, <2>1, <2>5, <2>6 DEF Clears
  <1>14. Progress(n)'
    BY <1>9 DEF Progress
  <1>15. \A e \in Envs : vault'[e] \in Servers => vault'[e] = vault[e]
    BY <1>7, ConstantsAre
  <1>16. FitsNew(o, n)
    BY <1>0, <1>4, <1>7, <1>8, <1>9, <1>12, <1>13, <1>14, <1>15 DEF FitsNew
  <1> QED
    BY <1>0, <1>1, <1>6, <1>10, <1>16, WritesStep

\* A realm of the application is deleted.
LEMMA DeletesRealmStep ==
    ASSUME KeycloakInv, NEW r \in Requests, DeletesRealm(r)
    PROVE  KeycloakInv'
  <1>0. req[r].pc = "delRealm" /\ UNCHANGED <<row, last, inst, taken, vault, started>>
    BY DEF DeletesRealm
  <1>1. PICK o \in RequestStates : /\ o = req[r] /\ Shaped(o) /\ o.id \in Ids /\ o.id # 0
                                   /\ TypeOK
    BY <1>0, Working DEF Registrar
  <1>2. o.pc = "delRealm" /\ o.mine = o.seen /\ o.pc \in Deleters /\ Spot(o) \in Servers \X Envs
    BY <1>0, <1>1, StateIs DEF Shaped, Deleters
  <1>3. PICK n : n = NextRealm(o)
    OBVIOUS
  <1>4. /\ n \in RequestStates /\ n.kind = o.kind /\ n.id = o.id
        /\ n.seen = o.seen /\ n.mine = o.mine
        /\ \/ o.env = "dev" /\ n.env = "prod" /\ n.pc = "delCheck"
           \/ o.env = "prod" /\ n.env = "prod" /\ n.pc = "delRow"
    BY <1>3, NextRealmIs
  <1>5. Goes(r, n) /\ Noted
    BY <1>0, <1>1, <1>3, NotedIs DEF DeletesRealm
  <1>6. Turns(r, n) /\ Plain
    BY <1>1, <1>4, <1>5, GoesTurns DEF Noted, KeycloakInv, Plain
  <1>7. /\ realm' \in [Servers \X Envs -> Realms]
        /\ \A p \in Servers \X Envs : realm'[p].owner \in {realm[p].owner, Nobody}
        /\ realm'[Spot(o)].owner = Nobody \/ Note({"kept"})
    <2>1. NoRealm \in Realms /\ NoRealm.owner = Nobody
      BY FirstAre DEF NoRealm
    <2> QED
      BY <1>1, <1>2, <2>1 DEF DeletesRealm, TypeOK
  <1>8. n.pc \in Deleters \ {"delVault"} /\ n.pc # "delRealm"
    BY <1>4 DEF Deleters
  <1>9. Shaped(n) /\ n.pc \notin Registrar /\ n.pc \notin Writers /\ n.pc \notin Providers
        /\ n.pc # "connect" /\ (Current(o) => Current(n))
    BY <1>1, <1>2, <1>4, <1>8, DeletingIs
  <1>10. LookedAt' /\ Typed
    <2>1. LookedAt'
      BY <1>4, <1>5, <1>6, <1>7, <1>8, <1>9, LookedStill
    <2> QED
      BY <1>0, <1>1, <1>7, <2>1 DEF Typed, TypeOK
  <1>11. mishaps \subseteq mishaps'
    BY <1>5 DEF Noted
  <1>12. ASSUME Without({"overlap"})' PROVE Current(n)'
    <2>1. Current(n)
      BY <1>1, <1>9, <1>11, <1>12, AloneIs, MishapsGrow
    <2>2. n.pc \notin Binders /\ n.pc # "keys"
      BY <1>4 DEF Binders
    <2> QED
      BY <1>0, <2>1, <2>2 DEF Current, Present, Url, Same
  <1>13. ASSUME Without({"kept", "overlap", "crash"})' PROVE Clears(n)'
    <2>1. realm'[Spot(o)].owner = Nobody
      BY <1>0, <1>1, <1>7, <1>13, NotedIs DEF Without
    <2>2. Without({"kept", "overlap", "crash"}) /\ Without({"overlap"})
      BY <1>11, <1>13, MishapsGrow DEF Without
    <2>3. RealmsOf(o.id, o) /\ Current(o) /\ Clears(o)
      BY <1>1, <2>2, AloneIs DEF RealmsOf
    <2>4. Url(row[o.id]) = o.url
      BY <1>2, <2>3 DEF Current, Same, Url
    <2>5. \A e \in Envs : vault'[e] = None
      BY <1>0, <1>2, <2>3 DEF Clears
    <2>6. ASSUME NEW u \in Servers, NEW e \in Envs, realm'[<<u, e>>].owner = o.id
          PROVE  n.pc # "delRow" /\ e = "prod"
      <3>1. realm[<<u, e>>].owner = o.id /\ <<u, e>> # Spot(o)
        BY <1>1, <1>7, <2>1, <2>6, ConstantsAre
      <3>2. u = o.url /\ (o.env = "prod" => e = "prod")
        BY <1>1, <1>2, <2>3, <2>4, <3>1 DEF RealmsOf, Clears
      <3>3. e # o.env /\ e \in {"dev", "prod"}
        BY <3>1, <3>2 DEF Spot, Envs
      <3> QED
        BY <1>4, <3>2, <3>3
    <2> QED
      BY <1>4, <2>5, <2>6 DEF Clears
  <1>14. Progress(n)'
    BY <1>9 DEF Progress
  <1>15. \A u \in Servers, e \in Envs : realm'[<<u, e>>].owner \in Ids =>
            realm'[<<u, e>>].owner = realm[<<u, e>>].owner
    BY <1>7, ConstantsAre
  <1>16. FitsNew(o, n)
    BY <1>0, <1>4, <1>8, <1>9, <1>12, <1>13, <1>14, <1>15 DEF FitsNew
  <1> QED
    BY <1>0, <1>1, <1>6, <1>10, <1>16, WritesStep

-----------------------------------------------------------------------------
(***************************************************************************)
(* Applications come and go.                                               *)
(***************************************************************************)

\* The row of the application is deleted.
LEMMA DeletesRowStep ==
    ASSUME KeycloakInv, NEW r \in Requests, DeletesRow(r)
    PROVE  KeycloakInv'
  <1>0. /\ req[r].pc = "delRow" /\ Goes(r, Idle)
        /\ UNCHANGED <<last, inst, realm, taken, vault, started, mishaps>>
    BY DEF DeletesRow, Ends
  <1>1. PICK o \in RequestStates : /\ o = req[r] /\ Shaped(o) /\ o.id \in Ids /\ o.id # 0
                                   /\ TypeOK
    BY <1>0, Working DEF Registrar
  <1>2. /\ row' \in [Ids -> AppRows] /\ row'[o.id] = NoRow
        /\ \A j \in Ids : j # o.id => row'[j] = row[j]
    BY <1>1, FirstAre DEF DeletesRow, TypeOK
  <1>3. Noted /\ Idle \in RequestStates /\ Plain
    BY <1>0, <1>1, NotedIs, FirstAre DEF KeycloakInv, Plain
  <1>4. Turns(r, Idle) /\ \A s \in Requests : s # r => req'[s] = req[s]
    BY <1>0, <1>1, <1>3, GoesTurns DEF Noted
  <1>5. Shaped(Idle) /\ Idle.pc \notin Registrar /\ Progress(Idle)' /\ Clears(Idle)'
    BY IdleIs DEF Shaped, Registrar, Binders, Providers, Writers, Deleters, Progress, Clears
  <1>6. \A j \in Ids : Present(j)' => Present(j) /\ row'[j] = row[j] /\ j # o.id
    BY <1>2, IdleIs DEF Present
  <1>7. Plain'
    <2>1. TypeOK'
      BY <1>0, <1>1, <1>2, <1>4 DEF TypeOK, Turns
    <2>2. OnlyLast'
      <3>1. \A j \in Ids : Present(j)' => j = last'
        BY <1>0, <1>3, <1>6 DEF Plain, OnlyLast
      <3>2. last \in Nat
        BY <1>1, ConstantsAre DEF TypeOK
      <3>3. ASSUME NEW s \in Requests PROVE Shaped(req[s])' /\ req'[s].id <= last'
        <4>1. CASE s = r
          BY <1>0, <1>4, <1>5, <3>2, <4>1, IdleIs DEF Turns, Shaped
        <4>2. CASE s # r
          BY <1>0, <1>3, <1>4, <4>2 DEF Plain, OnlyLast, Shaped
        <4> QED
          BY <4>1, <4>2
      <3> QED
        BY <3>1, <3>3 DEF OnlyLast
    <2>3. BoundExists'
      <3> SUFFICES ASSUME NEW j \in Ids, Present(j)', row'[j].bound # None
                   PROVE  inst[row'[j].bound].exists
        BY <1>0 DEF BoundExists
      <3> QED
        BY <1>3, <1>6 DEF Plain, BoundExists
    <2>4. InstLocked'
      BY <1>3, <1>4, IdleIs DEF Plain, InstLocked, Turns
    <2>5. UpsertsSound'
      <3> SUFFICES ASSUME NEW s \in Requests, req'[s].pc = "upsert"
                   PROVE  /\ inst[req'[s].key].exists
                          /\ Linked(req[s].key)' => req'[s].pay.url = inst[req'[s].key].url
        BY <1>0 DEF UpsertsSound, Linked, Present
      <3>1. s # r /\ req'[s] = req[s]
        BY <1>4, IdleIs DEF Turns
      <3>2. Linked(req[s].key)' => Linked(req[s].key)
        BY <1>6, <3>1 DEF Linked
      <3> QED
        BY <1>3, <3>1, <3>2 DEF Plain, UpsertsSound
    <2>6. LookedAt'
      BY <1>0, <1>3, IdleIs, LookedStill DEF Writers
    <2> QED
      BY <2>1, <2>2, <2>3, <2>4, <2>5, <2>6 DEF Plain
  <1>8. ASSUME Without({"overlap"})'
        PROVE  /\ \A s \in Requests : s # r => req[s].id = 0
               /\ \A j \in Ids : Present(j)' => j = o.id
               /\ IssuerOf(o.id)' /\ \A j \in Ids : OutcomeOf(j)'
    <2>1. Without({"overlap"})
      BY <1>0, <1>8 DEF Without
    <2>2. \A j \in Ids : OutcomeOf(j)
      BY <2>1 DEF KeycloakInv, OutcomeExplained, OutcomeOf
    <2>3. \A j \in Ids : OutcomeOf(j)'
      BY <1>2, <2>2, IdleIs DEF OutcomeOf, None
    <2>4. IssuerOf(o.id)'
      BY <1>1, <1>6 DEF IssuerOf
    <2> QED
      BY <1>1, <1>6, <2>1, <2>3, <2>4, AloneIs
  <1>9. UsableOf(o.id, Idle)'
    BY <1>1, <1>6 DEF UsableOf
  <1>10. ASSUME Without({"kept", "overlap", "crash"})' PROVE RealmsOf(o.id, Idle)'
    <2>1. Without({"kept", "overlap", "crash"})
      BY <1>0, <1>10 DEF Without
    <2>2. RealmsOf(o.id, o) /\ Clears(o)
      BY <1>1, <2>1, AloneIs DEF RealmsOf
    <2>3. \A u \in Servers, e \in Envs : realm[<<u, e>>].owner \notin Ids
      BY <1>0, <1>1, <2>2 DEF RealmsOf, Clears
    <2>4. \A e \in Envs : vault[e] = None
      BY <1>0, <1>1, <2>2 DEF Clears, Deleters
    <2> QED
      BY <1>0, <1>5, <2>3, <2>4, ConstantsAre DEF RealmsOf
  <1> QED
    BY <1>1, <1>4, <1>5, <1>7, <1>8, <1>9, <1>10, TurnStep, IdleIs

\* An application is created and its activation begins.
LEMMA CreateBeginsStep ==
    ASSUME KeycloakInv, NEW r \in Requests, CreateBegins(r)
    PROVE  KeycloakInv'
  <1>0. /\ last < MaxApps /\ (\A j \in Ids : ~Present(j)) /\ last' = last + 1
        /\ UNCHANGED <<inst, realm, taken, vault>> /\ TypeOK /\ Plain
    BY DEF CreateBegins, KeycloakInv, Plain
  <1>1. PICK i \in Ids : i = last + 1 /\ i # 0 /\ i \in 0 .. MaxApps /\ last \in Nat
    BY <1>0, ConstantsAre DEF TypeOK
  <1>2. PICK x \in AppRows : /\ row' = [row EXCEPT ![i] = x]
                             /\ x.present /\ ~x.enabled /\ x.prov = None /\ x.warn = None
                             /\ x.bound = None
    <2>1. PICK c \in Clusters \cup {None} :
             row' = [row EXCEPT ![last + 1] = [NoRow EXCEPT !.present = TRUE, !.cluster = c]]
      BY DEF CreateBegins
    <2>2. PICK y \in AppRows : /\ y = NoRow /\ ~y.enabled /\ y.prov = None /\ y.warn = None
                               /\ y.bound = None
      BY FirstAre, IdleIs
    <2>3. PICK x : x = [y EXCEPT !.present = TRUE, !.cluster = c]
      OBVIOUS
    <2>4. x \in AppRows /\ x.present /\ ~x.enabled /\ x.prov = None /\ x.warn = None
          /\ x.bound = None
      BY <2>2, <2>3 DEF AppRows
    <2> QED
      BY <1>1, <2>1, <2>2, <2>3, <2>4
  <1>3. row' \in [Ids -> AppRows] /\ row'[i] = x /\ \A j \in Ids : j # i => row'[j] = row[j]
    BY <1>0, <1>2 DEF TypeOK
  <1>4. PICK n : Begin(r, n) /\ n = [Idle EXCEPT !.kind = "create", !.pc = "keys", !.id = last + 1,
                             !.seen = row'[last + 1], !.mine = row'[last + 1]]
    BY DEF CreateBegins
  <1>5. /\ n \in RequestStates /\ n.kind = "create" /\ n.pc = "keys" /\ n.id = i
        /\ n.env = "dev" /\ n.seen = x /\ n.mine = x
    <2>1. PICK o \in RequestStates : o = Idle /\ o.env = "dev"
      BY FirstAre DEF Idle
    <2>2. n = [o EXCEPT !.kind = "create", !.pc = "keys", !.id = i, !.seen = x, !.mine = x]
      BY <1>1, <1>3, <1>4, <2>1
    <2>3. "create" \in AllStarts /\ "keys" \in Binders
      BY DEF AllStarts, Binders
    <2> QED
      BY <1>1, <2>1, <2>2, <2>3 DEF RequestStates
  <1>6. Goes(r, n) /\ Noted
    <2>1. Goes(r, n) /\ started' \in 0 .. MaxStarts
      BY <1>0, <1>4, ConstantsAre DEF Begin, TypeOK
    <2>2. mishaps \subseteq mishaps' /\ mishaps' \subseteq Kinds
      BY <1>0, <1>4, NoteIs DEF Begin
    <2> QED
      BY <2>1, <2>2 DEF Noted
  <1>7. Turns(r, n) /\ \A s \in Requests : s # r => req'[s] = req[s]
    BY <1>0, <1>5, <1>6, GoesTurns DEF Noted
  <1>8. Shaped(n) /\ n.pc \notin Registrar /\ n.pc \notin Providers /\ n.pc \notin Deleters
        /\ n.pc \notin Writers
    BY <1>1, <1>2, <1>5 DEF Shaped, Registrar, Binders, Providers, Writers, Deleters
  <1>9. Plain'
    <2>1. TypeOK'
      BY <1>0, <1>1, <1>3, <1>7 DEF TypeOK, Turns
    <2>2. OnlyLast'
      <3>1. \A j \in Ids : Present(j)' => j = last'
        BY <1>0, <1>1, <1>3 DEF Present
      <3>2. ASSUME NEW s \in Requests PROVE Shaped(req[s])' /\ req'[s].id <= last'
        <4>1. CASE s = r
          BY <1>0, <1>1, <1>5, <1>7, <1>8, <4>1 DEF Turns, Shaped
        <4>2. CASE s # r
          <5>1. req'[s] = req[s] /\ Shaped(req[s]) /\ req[s].id <= last /\ req[s].id \in 0 .. MaxApps
            BY <1>0, <1>7, <4>2, StateIs DEF Plain, TypeOK, OnlyLast
          <5> QED
            BY <1>0, <1>1, <5>1, ConstantsAre DEF Shaped
        <4> QED
          BY <4>1, <4>2
      <3> QED
        BY <3>1, <3>2 DEF OnlyLast
    <2>3. \A j \in Ids : Present(j)' => row'[j].bound = None
      BY <1>0, <1>2, <1>3 DEF Present
    <2>4. BoundExists'
      BY <2>3 DEF BoundExists
    <2>5. InstLocked'
      BY <1>0, <1>5, <1>7 DEF Plain, InstLocked, Turns
    <2>6. UpsertsSound'
      <3> SUFFICES ASSUME NEW s \in Requests, req'[s].pc = "upsert"
                   PROVE  /\ inst[req'[s].key].exists
                          /\ Linked(req[s].key)' => req'[s].pay.url = inst[req'[s].key].url
        BY <1>0 DEF UpsertsSound, Linked, Present
      <3>1. s # r /\ req'[s] = req[s]
        BY <1>5, <1>7 DEF Turns
      <3>2. req[s].key \in Instances
        BY <1>0, <3>1 DEF Plain, OnlyLast, Shaped, Registrar
      <3>3. ~Linked(req[s].key)'
        BY <2>3, <3>1, <3>2, ConstantsAre DEF Linked
      <3> QED
        BY <1>0, <3>1, <3>3 DEF Plain, UpsertsSound
    <2>7. LookedAt'
      BY <1>0, <1>5, <1>6, <1>8, LookedStill
    <2> QED
      BY <2>1, <2>2, <2>4, <2>5, <2>6, <2>7 DEF Plain
  <1>10. mishaps \subseteq mishaps'
    BY <1>6 DEF Noted
  <1>11. ASSUME Without({"overlap"})'
         PROVE  /\ \A s \in Requests : s # r => req[s].id = 0
                /\ \A j \in Ids : Present(j)' => j = i
                /\ Current(n)'
                /\ IssuerOf(i)' /\ \A j \in Ids : OutcomeOf(j)'
    <2>1. Without({"overlap"})
      BY <1>10, <1>11, MishapsGrow
    <2>2. \A s \in Requests : req[s].id = 0
      <3> SUFFICES ASSUME NEW s \in Requests, req[s].id # 0 PROVE FALSE
        OBVIOUS
      <3>1. Present(req[s].id) /\ req[s].id \in Ids
        BY <2>1, AloneIs DEF Current
      <3> QED
        BY <1>0, <3>1
    <2>3. \A j \in Ids : OutcomeOf(j)
      BY <2>1 DEF KeycloakInv, OutcomeExplained, OutcomeOf
    <2>4. \A j \in Ids : OutcomeOf(j)'
      BY <1>2, <1>3, <2>3 DEF OutcomeOf, None
    <2>5. IssuerOf(i)'
      BY <1>2, <1>3 DEF IssuerOf
    <2>6. Current(n)'
      BY <1>2, <1>3, <1>5, <1>8 DEF Current, Same, Present
    <2>7. \A j \in Ids : Present(j)' => j = i
      BY <1>0, <1>3 DEF Present
    <2> QED
      BY <2>2, <2>4, <2>5, <2>6, <2>7
  <1>12. UsableOf(i, n)' /\ Progress(n)'
    BY <1>2, <1>3, <1>8 DEF UsableOf, Progress
  <1>13. ASSUME Without({"kept", "overlap", "crash"})' PROVE RealmsOf(i, n)'
    <2>1. Without({"kept", "overlap", "crash"})
      BY <1>10, <1>13, MishapsGrow
    <2>2. \A j \in Ids : ~Known(j)
      BY <1>0 DEF Known
    <2>3. \A u \in Servers, e \in Envs : realm[<<u, e>>].owner \notin Ids
      BY <2>1, <2>2 DEF KeycloakInv, RealmsKnown
    <2>4. \A e \in Envs : vault[e] \notin Servers
      BY <2>1, <2>2 DEF KeycloakInv, RealmsKnown
    <2>5. Clears(n)'
      BY <1>5, <1>8 DEF Clears
    <2> QED
      BY <1>0, <2>3, <2>4, <2>5 DEF RealmsOf
  <1> QED
    BY <1>5, <1>7, <1>9, <1>11, <1>12, <1>13, TurnStep

-----------------------------------------------------------------------------
(***************************************************************************)
(* Administrators, outsiders and crashes.                                  *)
(***************************************************************************)

\* No request about an application goes on: its row, its issuer and its
\* secrets stay.
Aside ==
    /\ mishaps \subseteq mishaps' /\ UNCHANGED vault
    /\ \A i \in Ids : /\ Same(row'[i], row[i]) /\ row'[i].present = row[i].present
                      /\ Present(i) => Url(row[i])' = Url(row[i])
    /\ \A s \in Requests : Akin(req'[s], req[s]) \/ (req[s].id = 0 /\ req'[s].id = 0)
    /\ Without({"outsider", "overlap", "crash"})' => UNCHANGED realm
    /\ \A p \in Servers \X Envs : realm'[p].owner \in Ids => realm'[p].owner = realm[p].owner

\* Such a step keeps everything.
LEMMA AsideStep ==
    ASSUME KeycloakInv, Aside, Plain'
    PROVE  KeycloakInv'
  <1>0. mishaps \subseteq mishaps' /\ UNCHANGED vault
    BY DEF Aside
  <1>1. \A i \in Ids : /\ Same(row'[i], row[i]) /\ Present(i)' = Present(i)
                       /\ Present(i) => Url(row[i])' = Url(row[i])
    BY DEF Aside, Present
  <1>2. ASSUME NEW s \in Requests, req'[s].id # 0 \/ req[s].id # 0 PROVE Akin(req'[s], req[s])
    BY <1>2 DEF Aside
  <1>3. ASSUME NEW s \in Requests
        PROVE  /\ req'[s] \in RequestStates /\ Shaped(req[s])' /\ Shaped(req[s])
               /\ req[s] \in RequestStates
               /\ req'[s].id = 0 => req'[s].pc \notin Providers \cup Deleters
    <2>1. req'[s] \in RequestStates /\ Shaped(req[s])' /\ Shaped(req[s]) /\ req[s] \in RequestStates
      BY DEF Plain, TypeOK, OnlyLast, KeycloakInv
    <2> QED
      BY <2>1 DEF Shaped, Registrar, Providers, Writers, Deleters
  <1>4. IssuerCurrent'
    <2> SUFFICES ASSUME NEW i \in Ids, Present(i)', row'[i].bound # None, Without({"overlap"})',
                        NEW e \in Envs
                 PROVE  vault'[e] \in {None, Own, inst'[row'[i].bound].url}
      BY DEF IssuerCurrent, Plain, BoundExists
    <2>1. Without({"overlap"}) /\ Present(i) /\ row[i].bound = row'[i].bound
      BY <1>0, <1>1, MishapsGrow DEF Same
    <2>2. inst'[row'[i].bound].url = inst[row[i].bound].url
      BY <1>1, <2>1 DEF Url
    <2> QED
      BY <1>0, <2>1, <2>2 DEF KeycloakInv, IssuerCurrent
  <1>5. OutcomeExplained'
    BY <1>0, <1>1, MishapsGrow DEF KeycloakInv, OutcomeExplained, Same
  <1>6. ASSUME NEW s \in Requests, req'[s].id # 0, Without({"overlap"})'
        PROVE  /\ Current(req[s])' /\ Present(req[s].id) /\ req[s].id \in Ids
               /\ \A t \in Requests \ {s} : req'[t].id = 0
    <2>1. Akin(req'[s], req[s]) /\ req[s].id # 0 /\ Without({"overlap"})
      BY <1>0, <1>2, <1>6, MishapsGrow DEF Akin
    <2>2. Current(req[s]) /\ \A t \in Requests \ {s} : req[t].id = 0
      BY <2>1 DEF KeycloakInv, SoloRequest
    <2>3. \A t \in Requests \ {s} : req'[t].id = 0
      BY <1>2, <2>2 DEF Akin
    <2>4. req[s].id \in Ids
      BY <2>1, AloneIs
    <2>5. PICK q \in RequestStates, n \in RequestStates :
             q = req[s] /\ n = req'[s] /\ Akin(n, q) /\ Shaped(q)
      BY <1>3, <2>1
    <2>6. Present(n.id)' /\ Same(n.seen, row[n.id])'
      BY <1>1, <2>2, <2>4, <2>5 DEF Current, Akin, Same
    <2>7. n.pc \in Writers \cup {"create", "readback", "delRealm"} => n.url = Url(n.mine)'
      <3> SUFFICES ASSUME n.pc \in Writers \cup {"create", "readback", "delRealm"}
                   PROVE  n.url = Url(n.mine)'
        OBVIOUS
      <3>1. q.pc \in Providers \cup Deleters /\ q.mine.bound = q.seen.bound
        BY <2>5 DEF Akin, Shaped, Providers, Deleters
      <3>2. Same(q.seen, row[q.id]) /\ q.url = Url(q.mine) /\ Present(q.id)
        BY <2>2, <2>5 DEF Current, Akin
      <3>3. Url(q.mine) = Url(row[q.id]) /\ Url(q.mine)' = Url(row[q.id])'
        BY <1>1, <2>4, <2>5, <3>1, <3>2 DEF Same, Url
      <3> QED
        BY <1>1, <2>4, <2>5, <3>2, <3>3 DEF Akin
    <2>8. Current(n)'
      BY <1>0, <2>2, <2>5, <2>6, <2>7 DEF Current, Akin
    <2> QED
      BY <2>2, <2>3, <2>4, <2>5, <2>8 DEF Current, Present, Same, Url
  <1>7. SoloRequest'
    BY <1>6 DEF SoloRequest
  <1>8. ASSUME NEW i \in Ids, NEW e \in Envs, Present(i), Provisioned(i, e),
               Without({"outsider", "overlap", "crash"})'
        PROVE  Provisioned(i, e)'
    <2>1. UNCHANGED realm
      BY <1>8 DEF Aside
    <2> QED
      BY <1>0, <1>1, <1>8, <2>1 DEF Provisioned
  <1>9. ProvisionedKept'
    <2> SUFFICES ASSUME Without({"outsider", "overlap", "crash"})'
                 PROVE  /\ \A i \in Ids :
                              /\ Present(i)' /\ row'[i].enabled /\ row'[i].prov = "yes"
                              /\ \A s \in Requests : req'[s].id = i => req'[s].pc \notin Deleters
                              => \A e \in Envs : Provisioned(i, e)'
                        /\ \A s \in Requests : Progress(req[s])'
      BY DEF ProvisionedKept
    <2>1. Without({"outsider", "overlap", "crash"}) /\ Without({"overlap"})' /\ UNCHANGED realm
      BY <1>0, MishapsGrow DEF Without, Aside
    <2>2. ASSUME NEW i \in Ids, Present(i)', row'[i].enabled, row'[i].prov = "yes",
                 \A s \in Requests : req'[s].id = i => req'[s].pc \notin Deleters
          PROVE  \A e \in Envs : Provisioned(i, e)'
      <3>1. Present(i) /\ row[i].enabled /\ row[i].prov = "yes"
        BY <1>1, <2>2 DEF Same
      <3>2. \A s \in Requests : req[s].id = i => req[s].pc \notin Deleters
        BY <1>2, <2>2, ConstantsAre DEF Akin
      <3>3. \A e \in Envs : Provisioned(i, e)
        BY <2>1, <3>1, <3>2 DEF KeycloakInv, ProvisionedKept
      <3> QED
        BY <1>8, <3>1, <3>3
    <2>3. ASSUME NEW s \in Requests PROVE Progress(req[s])'
      <3>1. CASE req'[s].id = 0
        BY <1>3, <3>1 DEF Progress
      <3>2. CASE req'[s].id # 0
        <4>1. Progress(req[s]) /\ Present(req[s].id) /\ req[s].id \in Ids
          BY <1>6, <2>1, <3>2 DEF KeycloakInv, ProvisionedKept
        <4>2. PICK q, n : q = req[s] /\ n = req'[s] /\ Akin(n, q)
          BY <1>2, <3>2
        <4>3. Provisioned(q.id, "dev") => Provisioned(q.id, "dev")'
          BY <1>8, <4>1, <4>2 DEF Envs
        <4>4. Progress(n)'
          BY <1>0, <2>1, <4>1, <4>2, <4>3 DEF Progress, Akin, Spot
        <4> QED
          BY <4>2, <4>4 DEF Progress, Spot, Provisioned, Url
      <3> QED
        BY <3>1, <3>2
    <2> QED
      BY <2>2, <2>3
  <1>10. RealmsKnown'
    <2> SUFFICES ASSUME Without({"kept", "overlap", "crash"})'
                 PROVE  /\ \A u \in Servers, e \in Envs : realm'[<<u, e>>].owner \in Ids =>
                              /\ Known(realm[<<u, e>>].owner)'
                              /\ u = Url(row[realm[<<u, e>>].owner])'
                        /\ \A e \in Envs : vault'[e] \in Servers => \E j \in Ids : Known(j)'
                        /\ \A s \in Requests : Clears(req[s])'
      BY DEF RealmsKnown
    <2>1. Without({"kept", "overlap", "crash"})
      BY <1>0, MishapsGrow
    <2>2. /\ \A u \in Servers, e \in Envs : realm[<<u, e>>].owner \in Ids =>
                Known(realm[<<u, e>>].owner) /\ u = Url(row[realm[<<u, e>>].owner])
          /\ \A e \in Envs : vault[e] \in Servers => \E j \in Ids : Known(j)
          /\ \A s \in Requests : Clears(req[s])
      BY <2>1 DEF KeycloakInv, RealmsKnown
    <2>3. ASSUME NEW i \in Ids, Known(i) PROVE Known(i)' /\ Present(i)
      <3>1. \A s \in Requests : req[s].id = i => Akin(req'[s], req[s])
        BY <1>2, ConstantsAre
      <3> QED
        BY <1>1, <2>3, <3>1 DEF Known, Akin, Same
    <2>4. ASSUME NEW u \in Servers, NEW e \in Envs, realm'[<<u, e>>].owner \in Ids
          PROVE  Known(realm[<<u, e>>].owner)' /\ u = Url(row[realm[<<u, e>>].owner])'
      <3>1. PICK i \in Ids : i = realm'[<<u, e>>].owner /\ i = realm[<<u, e>>].owner
        BY <2>4 DEF Aside
      <3>2. Known(i)' /\ u = Url(row[i])'
        BY <1>1, <2>2, <2>3, <3>1
      <3> QED
        BY <3>1, <3>2 DEF Known, Present, Url
    <2>5. \A e \in Envs : vault'[e] \in Servers => \E j \in Ids : Known(j)'
      BY <1>0, <2>2, <2>3
    <2>6. ASSUME NEW s \in Requests PROVE Clears(req[s])'
      <3>1. CASE req'[s].id = 0
        BY <1>3, <3>1 DEF Clears
      <3>2. CASE req'[s].id # 0
        <4>1. PICK q, n : q = req[s] /\ n = req'[s] /\ Akin(n, q) /\ n.id \in Ids
          <5>1. Akin(req'[s], req[s]) /\ req'[s].id \in Ids
            BY <1>2, <1>3, <3>2, StateIs, ConstantsAre
          <5> QED
            BY <5>1
        <4>2. \A u \in Servers, e \in Envs : realm'[<<u, e>>].owner = n.id =>
                 realm[<<u, e>>].owner = q.id
          BY <4>1 DEF Aside, Akin
        <4>3. Clears(n)'
          BY <1>0, <2>2, <4>1, <4>2 DEF Clears, Akin
        <4> QED
          BY <4>1, <4>3 DEF Clears
      <3> QED
        BY <3>1, <3>2
    <2> QED
      BY <2>4, <2>5, <2>6
  <1> QED
    BY <1>4, <1>5, <1>7, <1>9, <1>10 DEF KeycloakInv, Plain

\* A request of an administrator about an instance begins.
LEMMA RegistrarBegins ==
    ASSUME KeycloakInv, NEW r \in Requests, UpsertBegins(r) \/ DropBegins(r)
    PROVE  KeycloakInv'
  <1>0. UNCHANGED <<row, last, inst, realm, taken, vault>> /\ TypeOK /\ Plain
    BY DEF UpsertBegins, DropBegins, KeycloakInv, Plain
  <1>1. ASSUME NEW n \in RequestStates, Begin(r, n), n.id = 0, n.pc \in Registrar,
               n.key \in Instances, n.pc \in {"upsert", "insert"} => n.pay.exists,
               n.pc = "upsert" => /\ inst[n.key].exists /\ InstFree(n.key, r)
                                  /\ Linked(n.key) => n.pay.url = inst[n.key].url
        PROVE  KeycloakInv'
    <2>1. Goes(r, n) /\ Noted /\ req[r].pc = "idle"
      <3>1. Goes(r, n) /\ started' \in 0 .. MaxStarts /\ req[r].pc = "idle"
        BY <1>0, <1>1, ConstantsAre DEF Begin, TypeOK
      <3>2. mishaps \subseteq mishaps' /\ mishaps' \subseteq Kinds
        BY <1>0, <1>1, NoteIs DEF Begin
      <3> QED
        BY <3>1, <3>2 DEF Noted
    <2>2. Turns(r, n) /\ \A s \in Requests : s # r => req'[s] = req[s]
      BY <1>0, <1>1, <2>1, GoesTurns DEF Noted
    <2>3. Shaped(n) /\ n.pc \notin Writers /\ n.pc # "delRealm" /\ n.pc # "connect"
      BY <1>1 DEF Shaped, Registrar, Binders, Providers, Writers, Deleters
    <2>4. Alike /\ Typed /\ Locks(r, n) /\ n.id <= last
      BY <1>0, <1>1, <2>3, ConstantsAre DEF Alike, Typed, Locks, TypeOK
    <2>5. LookedAt'
      BY <1>0, <1>1, <2>1, <2>3, LookedStill
    <2>6. Plain'
      BY <1>0, <1>1, <2>2, <2>3, <2>4, <2>5, PlainStep
    <2>7. req[r].id = 0
      BY <2>1 DEF KeycloakInv, OnlyLast, Shaped
    <2>8. Aside
      BY <1>0, <1>1, <2>1, <2>2, <2>7 DEF Aside, Noted, Same, Akin, Url, Turns
    <2> QED
      BY <2>6, <2>8, AsideStep
  <1>2. PICK o \in RequestStates : o = Idle /\ o.id = 0
    BY FirstAre, IdleIs
  <1>3. CASE UpsertBegins(r)
    <2>1. PICK k \in Instances, pay \in Payloads :
             /\ InstFree(k, r) \/ ~inst[k].exists
             /\ Updatable(k, pay)
             /\ Begin(r, [Idle EXCEPT !.kind = "upsert", !.key = k, !.pay = pay,
                          !.pc = IF inst[k].exists THEN "upsert" ELSE "insert"])
      BY <1>3 DEF UpsertBegins
    <2>2. pay \in InstanceRows /\ pay.exists
      BY DEF Payloads, InstanceRows, Servers
    <2>3. PICK pc \in Registrar : pc = (IF inst[k].exists THEN "upsert" ELSE "insert")
                                  /\ pc # "drop" /\ "upsert" \in AllStarts
      BY DEF Registrar, AllStarts
    <2>4. PICK n : n = [o EXCEPT !.kind = "upsert", !.key = k, !.pay = pay, !.pc = pc]
      OBVIOUS
    <2>5. /\ n \in RequestStates /\ n.id = 0 /\ n.pc = pc /\ n.key = k /\ n.pay = pay
      BY <1>2, <2>2, <2>3, <2>4 DEF RequestStates
    <2>6. Begin(r, n)
      BY <1>2, <2>1, <2>3, <2>4
    <2> QED
      BY <1>1, <2>1, <2>2, <2>3, <2>5, <2>6 DEF Updatable
  <1>4. CASE DropBegins(r)
    <2>1. PICK k \in Instances : Begin(r, [Idle EXCEPT !.kind = "drop", !.key = k, !.pc = "drop"])
      BY <1>4 DEF DropBegins
    <2>2. "drop" \in Registrar /\ "drop" \in AllStarts
      BY DEF Registrar, AllStarts
    <2>3. PICK n : n = [o EXCEPT !.kind = "drop", !.key = k, !.pc = "drop"]
      OBVIOUS
    <2>4. n \in RequestStates /\ n.id = 0 /\ n.pc = "drop" /\ n.key = k
      BY <1>2, <2>2, <2>3 DEF RequestStates
    <2>5. Begin(r, n)
      BY <1>2, <2>1, <2>3
    <2> QED
      BY <1>1, <2>2, <2>4, <2>5
  <1> QED
    BY <1>3, <1>4

\* A registration or a removal is committed.
LEMMA RegistrarEnds ==
    ASSUME KeycloakInv, NEW r \in Requests, UpsertEnds(r) \/ DropEnds(r)
    PROVE  KeycloakInv'
  <1>0. /\ UNCHANGED <<row, last, realm, taken, vault, started, mishaps>> /\ Goes(r, Idle)
        /\ TypeOK /\ Plain /\ req[r].pc \in Registrar
    BY DEF UpsertEnds, DropEnds, Ends, KeycloakInv, Plain, Registrar
  <1>1. PICK o \in RequestStates : o = req[r] /\ Shaped(o)
    BY DEF KeycloakInv, TypeOK, OnlyLast
  <1>2. o.id = 0 /\ o.key \in Instances /\ (o.pc \in {"upsert", "insert"} => o.pay.exists)
        /\ o.pay \in InstanceRows
    BY <1>0, <1>1, StateIs DEF Shaped
  <1>3. /\ inst' \in [Instances -> InstanceRows]
        /\ \A l \in Instances : l # o.key => inst'[l] = inst[l]
    <2>1. inst' = inst \/ inst' = [inst EXCEPT ![o.key] = o.pay]
          \/ inst' = [inst EXCEPT ![o.key] = NoInst]
      BY <1>1 DEF UpsertEnds, DropEnds
    <2> QED
      BY <1>0, <1>2, <2>1, FirstAre DEF TypeOK
  <1>4. inst'[o.key] # inst[o.key] =>
           /\ \A s \in Requests : s # r => ~(req[s].pc = "upsert" /\ req[s].key = o.key)
           /\ Linked(o.key) => /\ inst[o.key].exists /\ inst'[o.key].exists
                               /\ inst'[o.key].url = inst[o.key].url
    <2> SUFFICES ASSUME inst'[o.key] # inst[o.key]
                 PROVE  /\ \A s \in Requests : s # r => ~(req[s].pc = "upsert" /\ req[s].key = o.key)
                        /\ Linked(o.key) => /\ inst[o.key].exists /\ inst'[o.key].exists
                                            /\ inst'[o.key].url = inst[o.key].url
      OBVIOUS
    <2>1. Linked(o.key) => inst[o.key].exists
      BY <1>0, <1>2, ConstantsAre DEF Plain, BoundExists, Linked
    <2>2. \A s \in Requests : req[s].pc = "upsert" => inst[req[s].key].exists
      BY <1>0 DEF Plain, UpsertsSound
    <2>3. CASE UpsertEnds(r)
      <3>1. inst' = [inst EXCEPT ![o.key] = o.pay] /\ (o.pc = "insert" => ~inst[o.key].exists)
            /\ o.pc \in {"upsert", "insert"}
        BY <1>1, <2>3 DEF UpsertEnds
      <3>2. inst'[o.key] = o.pay
        BY <1>0, <1>2, <3>1 DEF TypeOK
      <3>3. CASE o.pc = "insert"
        BY <1>1, <2>1, <2>2, <3>1, <3>3
      <3>4. CASE o.pc = "upsert"
        <4>1. \A s \in Requests : s # r => ~(req[s].pc = "upsert" /\ req[s].key = o.key)
          BY <1>0, <1>1, <3>4 DEF Plain, InstLocked
        <4>2. Linked(o.key) => o.pay.url = inst[o.key].url
          BY <1>0, <1>1, <3>4 DEF Plain, UpsertsSound
        <4> QED
          BY <1>2, <2>1, <3>1, <3>2, <4>1, <4>2
      <3> QED
        BY <3>1, <3>3, <3>4
    <2>4. CASE DropEnds(r)
      <3>1. InstFree(o.key, r) /\ ~Linked(o.key)
        BY <1>1, <2>4 DEF DropEnds, Droppable
      <3> QED
        BY <3>1 DEF InstFree
    <2> QED
      BY <2>3, <2>4
  <1>5. \A i \in Ids : Present(i) /\ row[i].bound # None =>
           /\ inst'[row[i].bound].exists /\ inst'[row[i].bound].url = inst[row[i].bound].url
    <2> SUFFICES ASSUME NEW i \in Ids, Present(i), NEW k, k = row[i].bound, k # None
                 PROVE  inst'[k].exists /\ inst'[k].url = inst[k].url
      OBVIOUS
    <2>1. k \in Instances /\ Linked(k) /\ inst[k].exists
      <3>1. row[i] \in AppRows
        BY <1>0 DEF TypeOK
      <3> QED
        BY <1>0, <3>1, RowIs DEF Plain, BoundExists, Linked
    <2>2. CASE k = o.key
      BY <1>4, <2>1, <2>2
    <2>3. CASE k # o.key
      BY <1>3, <2>1, <2>3
    <2> QED
      BY <2>2, <2>3
  <1>6. Noted /\ Idle \in RequestStates
    BY <1>0, NotedIs, FirstAre
  <1>7. Turns(r, Idle) /\ \A s \in Requests : s # r => req'[s] = req[s]
    BY <1>0, <1>6, GoesTurns DEF Noted
  <1>8. Plain'
    <2>1. TypeOK'
      BY <1>0, <1>3, <1>7 DEF TypeOK, Turns
    <2>2. OnlyLast'
      <3>1. last \in Nat /\ Shaped(Idle)
        BY <1>0, IdleIs, ConstantsAre
           DEF TypeOK, Shaped, Registrar, Binders, Providers, Writers, Deleters
      <3>2. ASSUME NEW s \in Requests PROVE Shaped(req[s])' /\ req'[s].id <= last'
        <4>1. CASE s = r
          BY <1>0, <1>7, <3>1, <4>1, IdleIs DEF Turns, Shaped
        <4>2. CASE s # r
          BY <1>0, <1>7, <4>2 DEF Plain, OnlyLast, Shaped
        <4> QED
          BY <4>1, <4>2
      <3> QED
        BY <1>0, <3>2 DEF Plain, OnlyLast, Present
    <2>3. BoundExists'
      BY <1>0, <1>5 DEF BoundExists, Present
    <2>4. InstLocked'
      BY <1>0, <1>7, IdleIs DEF Plain, InstLocked, Turns
    <2>5. UpsertsSound'
      <3> SUFFICES ASSUME NEW s \in Requests, req'[s].pc = "upsert"
                   PROVE  /\ inst'[req'[s].key].exists
                          /\ Linked(req[s].key)' => req'[s].pay.url = inst'[req'[s].key].url
        BY <1>0 DEF UpsertsSound, Linked, Present
      <3>1. s # r /\ req'[s] = req[s]
        BY <1>7, IdleIs DEF Turns
      <3>2. Linked(req[s].key)' => Linked(req[s].key)
        BY <1>0, <3>1 DEF Linked, Present
      <3>3. req[s].key \in Instances
        BY <1>0, <3>1 DEF Plain, OnlyLast, Shaped, Registrar
      <3>4. inst'[req[s].key] = inst[req[s].key]
        BY <1>3, <1>4, <3>1, <3>3
      <3> QED
        BY <1>0, <3>1, <3>2, <3>4 DEF Plain, UpsertsSound
    <2>6. LookedAt'
      BY <1>0, <1>6, IdleIs, LookedStill DEF Writers
    <2> QED
      BY <2>1, <2>2, <2>3, <2>4, <2>5, <2>6 DEF Plain
  <1>9. Aside
    <2>1. \A i \in Ids : Present(i) => Url(row[i])' = Url(row[i])
      BY <1>0, <1>5 DEF Url
    <2> QED
      BY <1>0, <1>1, <1>2, <1>7, <2>1, IdleIs DEF Aside, Same, Akin, Turns
  <1> QED
    BY <1>8, <1>9, AsideStep

\* Somebody works on the realms by hand.
LEMMA OutsiderStep ==
    ASSUME KeycloakInv, NEW p \in Servers \X Envs, OutsiderActs(p)
    PROVE  KeycloakInv'
  <1>0. /\ UNCHANGED <<row, last, inst, vault>> /\ TypeOK /\ Plain
        /\ started' \in 0 .. MaxStarts /\ req' = Swaps(p, realm'[p].owner)
    BY ConstantsAre DEF OutsiderActs, KeycloakInv, Plain, TypeOK
  <1>1. mishaps \subseteq mishaps' /\ mishaps' \subseteq Kinds /\ "outsider" \in mishaps'
    BY <1>0, NoteIs DEF OutsiderActs
  <1>2. /\ realm' \in [Servers \X Envs -> Realms]
        /\ \A x \in Servers \X Envs : x # p => realm'[x] = realm[x]
        /\ realm'[p].owner \in {Nobody, Stranger}
    <2>1. PICK y : y = [NoRealm EXCEPT !.owner = Stranger]
      OBVIOUS
    <2>2. y \in Realms /\ y.owner = Stranger /\ NoRealm \in Realms /\ NoRealm.owner = Nobody
      <3>1. NoRealm \in Realms /\ Stranger \in 0 .. Stranger /\ NoRealm.owner = Nobody
        BY FirstAre, ConstantsAre DEF Stranger, NoRealm
      <3> QED
        BY <2>1, <3>1 DEF Realms
    <2>3. realm' = [realm EXCEPT ![p] = NoRealm] \/ realm' = [realm EXCEPT ![p] = y]
      BY <2>1 DEF OutsiderActs
    <2> QED
      BY <1>0, <2>2, <2>3 DEF TypeOK
  <1>3. taken' \subseteq Servers \X Envs \X (1 .. Stranger)
    <2>1. realm[p].owner \in 0 .. Stranger
      BY <1>0 DEF TypeOK, Realms
    <2>2. realm[p].owner # Nobody => realm[p].owner \in 1 .. Stranger
      BY <2>1, ConstantsAre DEF Nobody, Stranger
    <2>3. realm[p].owner # Nobody =>
             <<p[1], p[2], realm[p].owner>> \in Servers \X Envs \X (1 .. Stranger)
      BY <2>2
    <2> QED
      BY <1>0, <2>3 DEF OutsiderActs, TypeOK
  <1>4. \A s \in Requests : /\ req[s] \in RequestStates /\ req'[s] \in RequestStates
                            /\ Akin(req'[s], req[s])
                            /\ \/ req'[s].swapped
                               \/ req'[s] = req[s]
                                  /\ ~(/\ req[s].pc \in Writers \cup {"delRealm"}
                                       /\ Spot(req[s]) = p /\ req[s].id # realm'[p].owner)
    <2> SUFFICES ASSUME NEW s \in Requests, NEW x \in RequestStates, x = req[s]
                 PROVE  /\ req'[s] \in RequestStates /\ Akin(req'[s], x)
                        /\ \/ req'[s].swapped
                           \/ req'[s] = x
                              /\ ~(/\ x.pc \in Writers \cup {"delRealm"}
                                   /\ Spot(x) = p /\ x.id # realm'[p].owner)
      BY <1>0 DEF TypeOK
    <2>1. PICK y : y = [x EXCEPT !.swapped = TRUE]
      OBVIOUS
    <2>2. y \in RequestStates /\ y.swapped /\ Akin(y, x)
      BY <2>1 DEF RequestStates, Akin
    <2>3. req'[s] = IF /\ x.pc \in {"cli", "client", "vault", "verify", "delRealm"}
                       /\ Spot(x) = p /\ x.id # realm'[p].owner
                    THEN y ELSE x
      BY <1>0, <2>1 DEF Swaps
    <2> QED
      BY <2>2, <2>3 DEF Writers, Akin
  <1>5. req' \in [Requests -> RequestStates]
    <2>1. req' = [s \in Requests |-> req'[s]]
      BY <1>0 DEF Swaps
    <2> QED
      BY <1>4, <2>1
  <1>6. Plain'
    <2>1. TypeOK'
      BY <1>0, <1>1, <1>2, <1>3, <1>5 DEF TypeOK
    <2>2. OnlyLast'
      <3>1. ASSUME NEW s \in Requests PROVE Shaped(req[s])' /\ req'[s].id <= last'
        <4>1. PICK x \in RequestStates, y \in RequestStates :
                 x = req'[s] /\ y = req[s] /\ Akin(x, y) /\ Shaped(y) /\ y.id <= last
          BY <1>0, <1>4 DEF Plain, OnlyLast
        <4>2. Shaped(x) /\ x.id <= last
          BY <4>1, AkinIs DEF Akin
        <4> QED
          BY <1>0, <4>1, <4>2 DEF Shaped
      <3> QED
        BY <1>0, <3>1 DEF Plain, OnlyLast, Present
    <2>3. BoundExists'
      BY <1>0 DEF Plain, BoundExists, Present
    <2>4. InstLocked'
      BY <1>0, <1>4 DEF Plain, InstLocked, Akin
    <2>5. UpsertsSound'
      BY <1>0, <1>4 DEF Plain, UpsertsSound, Akin, Linked, Present
    <2>6. LookedAt'
      <3> SUFFICES ASSUME NEW s \in Requests, req'[s].pc \in Writers \cup {"delRealm"},
                          ~req'[s].swapped
                   PROVE  realm'[Spot(req[s])'].owner \in {Nobody, req'[s].id}
        BY DEF LookedAt, Spot
      <3>1. PICK x \in RequestStates :
               /\ x = req[s] /\ x = req'[s] /\ Spot(x) \in Servers \X Envs
               /\ Spot(x) = p => x.id = realm'[p].owner
        BY <1>4, StateIs DEF Akin
      <3>2. realm[Spot(x)].owner \in {Nobody, x.id}
        BY <1>0, <3>1 DEF Plain, LookedAt
      <3>3. Spot(req[s])' = Spot(x)
        BY <3>1 DEF Spot
      <3> QED
        BY <1>2, <3>1, <3>2, <3>3
    <2> QED
      BY <2>1, <2>2, <2>3, <2>4, <2>5, <2>6 DEF Plain
  <1>7. Aside
    <2>1. \A x \in Servers \X Envs : realm'[x].owner \in Ids => realm'[x].owner = realm[x].owner
      BY <1>2, ConstantsAre
    <2>2. ~Without({"outsider", "overlap", "crash"})'
      BY <1>1 DEF Without
    <2> QED
      BY <1>0, <1>1, <1>4, <2>1, <2>2 DEF Aside, Same, Url
  <1> QED
    BY <1>6, <1>7, AsideStep

\* The application moves to another cluster.
LEMMA MovesStep ==
    ASSUME KeycloakInv, NEW i \in Ids, Moves(i)
    PROVE  KeycloakInv'
  <1>0. UNCHANGED <<last, inst, realm, taken, vault, req, started>> /\ TypeOK /\ Plain
    BY DEF Moves, KeycloakInv, Plain
  <1>1. mishaps \subseteq mishaps' /\ mishaps' \subseteq Kinds
    BY <1>0, NoteIs DEF Moves
  <1>2. /\ row' \in [Ids -> AppRows]
        /\ \A j \in Ids : Same(row'[j], row[j]) /\ row'[j].present = row[j].present
    <2>1. PICK c \in Clusters : row' = [row EXCEPT ![i].cluster = c]
      BY DEF Moves
    <2>2. PICK x \in AppRows : x = row[i]
      BY <1>0 DEF TypeOK
    <2>3. PICK y : y = [x EXCEPT !.cluster = c]
      OBVIOUS
    <2>4. y \in AppRows /\ Same(y, x) /\ y.present = x.present
      BY <2>3 DEF AppRows, Same
    <2>5. row' = [row EXCEPT ![i] = y]
      BY <2>1, <2>2, <2>3
    <2> QED
      BY <1>0, <2>2, <2>4, <2>5 DEF TypeOK, Same
  <1>3. \A j \in Ids : row'[j].present = row[j].present /\ row'[j].bound = row[j].bound
    BY <1>2 DEF Same
  <1>4. Plain'
    <2>1. TypeOK'
      BY <1>0, <1>1, <1>2 DEF TypeOK
    <2>2. OnlyLast'
      BY <1>0, <1>3 DEF Plain, OnlyLast, Present, Shaped
    <2>3. BoundExists' /\ InstLocked' /\ UpsertsSound' /\ LookedAt'
      BY <1>0, <1>3 DEF Plain, BoundExists, InstLocked, UpsertsSound, LookedAt, Linked, Present, Spot
    <2> QED
      BY <2>1, <2>2, <2>3 DEF Plain
  <1>5. Aside
    BY <1>0, <1>1, <1>2, <1>3 DEF Aside, Akin, Url
  <1> QED
    BY <1>4, <1>5, AsideStep

\* The process restarts.
LEMMA RestartStep ==
    ASSUME KeycloakInv, Restart
    PROVE  KeycloakInv'
  <1>0. UNCHANGED <<row, last, inst, realm, taken, vault, started>> /\ TypeOK /\ Plain
        /\ req' = [r \in Requests |-> Idle]
    BY DEF Restart, KeycloakInv, Plain
  <1>1. mishaps \subseteq mishaps' /\ mishaps' \subseteq Kinds /\ "crash" \in mishaps'
    BY <1>0, NoteIs DEF Restart
  <1>2. Idle \in RequestStates /\ Shaped(Idle) /\ last \in Nat /\ \A r \in Requests : req'[r] = Idle
    BY <1>0, IdleIs, FirstAre, ConstantsAre
       DEF TypeOK, Shaped, Registrar, Binders, Providers, Writers, Deleters
  <1>3. TypeOK'
    BY <1>0, <1>1, <1>2 DEF TypeOK
  <1>4. OnlyLast'
    BY <1>0, <1>2, IdleIs DEF Plain, OnlyLast, Present, Shaped
  <1>5. BoundExists' /\ InstLocked' /\ UpsertsSound' /\ LookedAt'
    BY <1>0, <1>2, IdleIs DEF Plain, BoundExists, InstLocked, UpsertsSound, LookedAt, Present, Writers
  <1>6. IssuerCurrent' /\ OutcomeExplained'
    BY <1>0, <1>1, MishapsGrow DEF KeycloakInv, IssuerCurrent, OutcomeExplained, Present
  <1>7. SoloRequest'
    BY <1>2, IdleIs DEF SoloRequest
  <1>8. ProvisionedKept' /\ RealmsKnown'
    BY <1>1 DEF ProvisionedKept, RealmsKnown, Without
  <1> QED
    BY <1>3, <1>4, <1>5, <1>6, <1>7, <1>8 DEF KeycloakInv

-----------------------------------------------------------------------------
(***************************************************************************)
(* The theorems.                                                           *)
(***************************************************************************)

\* At first there is nothing, or one application that is provisioned.
LEMMA InitStep ==
    ASSUME Init
    PROVE  KeycloakInv
  <1>0. /\ taken = {} /\ req = [r \in Requests |-> Idle] /\ started = 0 /\ mishaps = {}
        /\ 1 \in Ids
    BY ConstantsAre DEF Init
  <1>1. PICK k \in Instances \cup {None}, u \in Servers :
           /\ inst \in [Instances -> InstanceRows]
           /\ Fresh \/ Activated(k, u)
           /\ k = None => u = Legacy
           /\ k # None => inst[k].exists /\ inst[k].url = u
    <2>1. CASE inst = [k \in Instances |-> NoInst] /\ (Fresh \/ Activated(None, Legacy))
      BY <2>1, FirstAre, ConstantsAre
    <2>2. ASSUME NEW k \in Instances, NEW u \in Urls, NEW c \in Clusters,
                 inst = [l \in Instances |->
                   IF l = k THEN [exists |-> TRUE, cluster |-> c, url |-> u, enabled |-> TRUE]
                   ELSE NoInst],
                 Fresh \/ Activated(k, u)
          PROVE  /\ inst \in [Instances -> InstanceRows] /\ k # None /\ u \in Servers
                 /\ inst[k].exists /\ inst[k].url = u
      <3>1. PICK x : x = [exists |-> TRUE, cluster |-> c, url |-> u, enabled |-> TRUE]
        OBVIOUS
      <3>2. x \in InstanceRows /\ x.exists /\ x.url = u
        BY <3>1 DEF InstanceRows, Servers
      <3>3. inst = [l \in Instances |-> IF l = k THEN x ELSE NoInst]
        BY <2>2, <3>1
      <3> QED
        BY <3>2, <3>3, FirstAre, ConstantsAre DEF Servers
    <2> QED
      BY <2>1, <2>2 DEF Init
  <1>2. /\ row \in [Ids -> AppRows] /\ last \in 0 .. MaxApps
        /\ realm \in [Servers \X Envs -> Realms] /\ vault \in [Envs -> Servers \cup {None, Own}]
        /\ \A i \in Ids : /\ Present(i) \/ row[i].enabled \/ row[i].prov = "yes" =>
                                i = 1 /\ last = 1 /\ row[i].bound = k /\ Activated(k, u)
                          /\ row[i].warn = None /\ row[i].prov # "no"
        /\ \/ /\ \A x \in Servers \X Envs : realm[x] = NoRealm
              /\ \A e \in Envs : vault[e] = None
           \/ /\ \A x \in Servers \X Envs : realm[x] = IF x[1] = u
                    THEN [owner |-> 1, cli |-> TRUE, client |-> TRUE] ELSE NoRealm
              /\ (\A e \in Envs : vault[e] = u) /\ Activated(k, u)
              /\ Present(1) /\ row[1].enabled /\ row[1].bound = k
    <2>1. CASE Fresh
      BY <2>1, FirstAre, IdleIs, ConstantsAre DEF Fresh, Present, None
    <2>2. CASE Activated(k, u)
      <3>1. PICK x : x = [present |-> TRUE, enabled |-> TRUE, prov |-> "yes",
                          warn |-> None, bound |-> k, cluster |-> None]
        OBVIOUS
      <3>2. x \in AppRows /\ x.present /\ x.enabled /\ x.bound = k /\ x.warn = None /\ x.prov = "yes"
        BY <3>1 DEF AppRows
      <3>3. row = [i \in Ids |-> IF i = 1 THEN x ELSE NoRow] /\ last = 1
        BY <2>2, <3>1 DEF Activated
      <3>4. PICK y : y = [owner |-> 1, cli |-> TRUE, client |-> TRUE]
        OBVIOUS
      <3>5. y \in Realms
        <4>1. 1 \in 0 .. Stranger
          BY ConstantsAre DEF Stranger
        <4> QED
          BY <3>4, <4>1 DEF Realms
      <3>6. realm = [z \in Servers \X Envs |-> IF z[1] = u THEN y ELSE NoRealm]
        BY <2>2, <3>4 DEF Activated
      <3>7. /\ realm \in [Servers \X Envs -> Realms]
            /\ \A z \in Servers \X Envs : realm[z] = IF z[1] = u THEN y ELSE NoRealm
        BY <3>5, <3>6, FirstAre
      <3>8. vault = [e \in Envs |-> u]
        BY <2>2 DEF Activated
      <3>9. /\ row \in [Ids -> AppRows] /\ last \in 0 .. MaxApps
            /\ \A i \in Ids : /\ Present(i) \/ row[i].enabled \/ row[i].prov = "yes" =>
                                    i = 1 /\ last = 1 /\ row[i].bound = k
                              /\ row[i].warn = None /\ row[i].prov # "no"
            /\ Present(1) /\ row[1].enabled /\ row[1].bound = k
        BY <1>0, <3>2, <3>3, FirstAre, IdleIs, ConstantsAre DEF Present, None
      <3> QED
        BY <2>2, <3>4, <3>7, <3>8, <3>9
    <2> QED
      BY <1>1, <2>1, <2>2
  <1>3. Idle \in RequestStates /\ Shaped(Idle) /\ \A r \in Requests : req[r] = Idle
    BY <1>0, IdleIs, FirstAre DEF Shaped, Registrar, Binders, Providers, Writers, Deleters
  <1>4. TypeOK
    BY <1>0, <1>1, <1>2, <1>3, ConstantsAre DEF TypeOK
  <1>5. OnlyLast
    BY <1>2, <1>3, IdleIs, ConstantsAre DEF OnlyLast
  <1>6. BoundExists /\ InstLocked /\ UpsertsSound /\ LookedAt
    BY <1>1, <1>2, <1>3, IdleIs DEF BoundExists, InstLocked, UpsertsSound, LookedAt, Writers
  <1>7. SoloRequest
    BY <1>3, IdleIs DEF SoloRequest
  <1>8. \A i \in Ids : Present(i) => Url(row[i]) = u
    BY <1>1, <1>2 DEF Url
  <1>9. IssuerCurrent
    BY <1>1, <1>2, <1>6 DEF IssuerCurrent, BoundExists
  <1>10. OutcomeExplained
    BY <1>2 DEF OutcomeExplained
  <1>11. ProvisionedKept
    <2>1. \A r \in Requests : Progress(req[r])
      BY <1>3, IdleIs DEF Progress, Providers, Writers
    <2>2. ASSUME NEW i \in Ids, Present(i), NEW e \in Envs PROVE Provisioned(i, e)
      <3>1. i = 1 /\ Activated(k, u) /\ Url(row[i]) = u
        BY <1>2, <1>8, <2>2
      <3>2. vault[e] = u /\ realm[<<u, e>>] = [owner |-> 1, cli |-> TRUE, client |-> TRUE]
        BY <3>1 DEF Activated
      <3> QED
        BY <3>1, <3>2 DEF Provisioned
    <2> QED
      BY <2>1, <2>2 DEF ProvisionedKept
  <1>12. RealmsKnown
    <2>1. \A r \in Requests : Clears(req[r])
      BY <1>3, IdleIs DEF Clears, Deleters
    <2>2. NoRealm.owner \notin Ids
      BY ConstantsAre DEF NoRealm
    <2>3. ASSUME NEW v \in Servers, NEW e \in Envs, realm[<<v, e>>].owner \in Ids
          PROVE  Known(realm[<<v, e>>].owner) /\ v = Url(row[realm[<<v, e>>].owner])
      <3>1. realm[<<v, e>>] # NoRealm
        BY <2>2, <2>3
      <3>2. <<v, e>> \in Servers \X Envs /\ <<v, e>>[1] = v
        OBVIOUS
      <3>3. /\ realm[<<v, e>>] = [owner |-> 1, cli |-> TRUE, client |-> TRUE] /\ v = u
            /\ Present(1) /\ row[1].enabled
        BY <1>2, <3>1, <3>2
      <3>4. realm[<<v, e>>].owner = 1
        BY <3>3
      <3> QED
        BY <1>0, <1>8, <3>3, <3>4 DEF Known
    <2>4. ASSUME NEW e \in Envs, vault[e] \in Servers PROVE \E i \in Ids : Known(i)
      <3>1. Present(1) /\ row[1].enabled
        BY <1>2, <2>4, ConstantsAre
      <3> QED
        BY <1>0, <3>1 DEF Known
    <2> QED
      BY <2>1, <2>3, <2>4 DEF RealmsKnown
  <1> QED
    BY <1>4, <1>5, <1>6, <1>7, <1>9, <1>10, <1>11, <1>12 DEF KeycloakInv

\* A step that changes nothing.
LEMMA StutterStep ==
    ASSUME KeycloakInv, UNCHANGED vars
    PROVE  KeycloakInv'
  <1>1. Plain'
    BY DEF vars, KeycloakInv, Plain, TypeOK, OnlyLast, Shaped, BoundExists, InstLocked,
           UpsertsSound, LookedAt, Present, Linked, Spot
  <1>2. Aside
    BY DEF vars, Aside, Same, Akin, Url
  <1> QED
    BY <1>1, <1>2, AsideStep

\* Every step keeps the invariant.
LEMMA NextStep ==
    ASSUME KeycloakInv, [Next]_vars
    PROVE  KeycloakInv'
  <1>1. ASSUME NEW r \in Requests, Begins(r) PROVE KeycloakInv'
    BY <1>1, CreateBeginsStep, LoadStep, RegistrarBegins DEF Begins
  <1>2. ASSUME NEW r \in Requests, Continues(r) PROVE KeycloakInv'
    BY <1>2, ReadsKeysStep, LocksAppStep, LocksInstanceStep, ConnectsStep, ReadsAgainStep,
       ChecksRealmStep, CreatesRealmStep, ReadsBackStep, RealmWritesStep, WritesVaultStep,
       VerifiesRealmStep, DeletesSecretsStep, ChecksDeletableStep, DeletesRealmStep,
       DeletesRowStep, EnvWritesStep, RegistrarEnds DEF Continues
  <1> QED
    BY <1>1, <1>2, OutsiderStep, MovesStep, RestartStep, StutterStep DEF Next

\* Applications stay bound to instances that exist, with the issuer their
\* variables name; an outcome has its reason; and what these need of requests,
\* realms and secrets holds, however requests, administrators, outsiders and
\* crashes interleave.
THEOREM KeycloakInvariant == Spec => []KeycloakInv
  <1>1. Init => KeycloakInv
    BY InitStep
  <1>2. KeycloakInv /\ [Next]_vars => KeycloakInv'
    BY NextStep
  <1> QED
    BY <1>1, <1>2, PTL DEF Spec

\* An application whose activation succeeded can be used (ProvisionedUsable).
THEOREM ProvisionedAlwaysUsable == Spec => []ProvisionedUsable
  <1>1. ASSUME KeycloakInv PROVE ProvisionedUsable
    <2> SUFFICES ASSUME NEW i \in Ids, NEW e \in Envs, Present(i), row[i].enabled,
                        row[i].prov = "yes", ~Busy(i), Without({"outsider", "overlap", "crash"})
                 PROVE  \E u \in IF row[i].bound = None THEN {Legacy}
                                 ELSE {inst[row[i].bound].url} :
                           /\ vault[e] = u
                           /\ realm[<<u, e>>] = [owner |-> i, cli |-> TRUE, client |-> TRUE]
      BY DEF ProvisionedUsable
    <2>1. \A r \in Requests : req[r].id = i => req[r].pc \notin Deleters
      BY DEF Busy
    <2>2. Provisioned(i, e)
      BY <1>1, <2>1 DEF KeycloakInv, ProvisionedKept
    <2>3. Url(row[i]) \in IF row[i].bound = None THEN {Legacy} ELSE {inst[row[i].bound].url}
      BY DEF Url
    <2> QED
      BY <2>2, <2>3 DEF Provisioned
  <1> QED
    BY <1>1, KeycloakInvariant, PTL

\* A deleted application leaves no realm behind (NoOrphanRealm).
THEOREM NoRealmOrphaned == Spec => []NoOrphanRealm
  <1>1. ASSUME KeycloakInv PROVE NoOrphanRealm
    <2> SUFFICES ASSUME NEW p \in Servers \X Envs, realm[p].owner \in Ids,
                        Without({"kept", "overlap", "crash"})
                 PROVE  Present(realm[p].owner)
      BY DEF NoOrphanRealm
    <2>1. PICK u \in Servers, e \in Envs : p = <<u, e>>
      OBVIOUS
    <2>2. Known(realm[p].owner)
      BY <1>1, <2>1 DEF KeycloakInv, RealmsKnown
    <2> QED
      BY <2>2 DEF Known
  <1> QED
    BY <1>1, KeycloakInvariant, PTL

\* Realms change under a request that writes in them or deletes them, when
\* there was none, or by hand.
LEMMA RealmChanges ==
    ASSUME KeycloakInv, Next, realm' # realm
    PROVE  \/ \E p \in Servers \X Envs : OutsiderActs(p)
           \/ \E s \in Requests : CreatesRealm(s) /\ realm' = Created(req[s])
           \/ \E s \in Requests : /\ req[s].pc \in Writers \cup {"delRealm"}
                                  /\ \E n : Goes(s, n)
  <1>1. ASSUME NEW s \in Requests, Begins(s) PROVE FALSE
    BY <1>1 DEF Begins, CreateBegins, ActivateBegins, ReprovisionBegins, DeleteBegins, EnvBegins,
                UpsertBegins, DropBegins
  <1>2. ASSUME NEW s \in Requests, Continues(s)
        PROVE  \/ CreatesRealm(s) /\ realm' = Created(req[s])
               \/ req[s].pc \in Writers \cup {"delRealm"} /\ \E n : Goes(s, n)
    <2>1. ~(\/ ReadsKeys(s) \/ LocksApp(s) \/ LocksInstance(s) \/ Connects(s) \/ ReadsAgain(s)
            \/ ChecksRealm(s) \/ ReadsBack(s) \/ WritesVault(s) \/ VerifiesRealm(s)
            \/ DeletesSecrets(s) \/ ChecksDeletable(s) \/ DeletesRow(s) \/ EnvWrites(s)
            \/ UpsertEnds(s) \/ DropEnds(s))
      BY DEF ReadsKeys, LocksApp, LocksInstance, Connects, ReadsAgain, ChecksRealm, ReadsBack,
             WritesVault, VerifiesRealm, DeletesSecrets, ChecksDeletable, DeletesRow, EnvWrites,
             UpsertEnds, DropEnds
    <2>2. CASE CreatesRealm(s)
      BY <2>2 DEF CreatesRealm
    <2>3. CASE DisablesAdminCli(s) \/ CreatesClient(s)
      BY <2>3 DEF DisablesAdminCli, CreatesClient, InRealm, Step, Writers
    <2>4. CASE DeletesRealm(s)
      BY <2>4 DEF DeletesRealm
    <2> QED
      BY <1>2, <2>1, <2>2, <2>3, <2>4 DEF Continues
  <1> QED
    BY <1>1, <1>2 DEF Next, Moves, Restart

\* A realm that is not the application's is not changed by its requests
\* (ForeignRealmUntouched).
THEOREM ForeignRealmsUntouched == Spec => ForeignRealmUntouched
  <1> DEFINE Untouched == \A r \in Requests, p \in Servers \X Envs :
          /\ req[r].pc # "idle" /\ req'[r] # req[r] /\ p = Spot(req[r])
          /\ realm'[p] # realm[p] /\ realm[p].owner \notin {Nobody, req[r].id}
          => req[r].swapped \/ req'[r].swapped
  <1>1. ASSUME KeycloakInv, [Next]_vars PROVE [Untouched]_vars
    <2> SUFFICES ASSUME Next, NEW r \in Requests, NEW p \in Servers \X Envs,
                        req'[r] # req[r], p = Spot(req[r]), realm'[p] # realm[p],
                        realm[p].owner \notin {Nobody, req[r].id}
                 PROVE  req[r].swapped \/ req'[r].swapped
      BY <1>1
    <2>1. TypeOK /\ req[r] \in RequestStates
      BY <1>1 DEF KeycloakInv, TypeOK
    <2>2. CASE \E x \in Servers \X Envs : OutsiderActs(x)
      <3>1. PICK x \in Servers \X Envs : OutsiderActs(x)
        BY <2>2
      <3>2. req' = Swaps(x, realm'[x].owner)
        BY <3>1 DEF OutsiderActs
      <3>3. req'[r] = [req[r] EXCEPT !.swapped = TRUE]
        BY <3>2 DEF Swaps
      <3> QED
        BY <2>1, <3>3 DEF RequestStates
    <2>3. CASE \E s \in Requests : CreatesRealm(s) /\ realm' = Created(req[s])
      <3>1. PICK s \in Requests : realm' = Created(req[s])
        BY <2>3
      <3>2. realm[Spot(req[s])].owner = Nobody
            /\ realm' = [realm EXCEPT ![Spot(req[s])] = [NoRealm EXCEPT !.owner = req[s].id]]
        BY <3>1 DEF Created
      <3>3. p = Spot(req[s])
        BY <2>1, <3>2 DEF TypeOK
      <3> QED
        BY <3>2, <3>3
    <2>4. CASE \E s \in Requests : req[s].pc \in Writers \cup {"delRealm"} /\ \E n : Goes(s, n)
      <3>1. PICK s \in Requests : req[s].pc \in Writers \cup {"delRealm"} /\ \E n : Goes(s, n)
        BY <2>4
      <3>2. s = r
        BY <2>1, <3>1 DEF Goes, TypeOK
      <3> QED
        BY <1>1, <3>1, <3>2 DEF KeycloakInv, LookedAt
    <2>5. realm' # realm
      OBVIOUS
    <2> QED
      BY <1>1, <2>2, <2>3, <2>4, <2>5, RealmChanges
  <1> QED
    BY <1>1, KeycloakInvariant, PTL DEF Spec, ForeignRealmUntouched

\* The mishaps only accumulate.
LEMMA NextNotes ==
    ASSUME TypeOK, Next
    PROVE  mishaps \subseteq mishaps'
  <1>0. \A K : Note(K) => mishaps \subseteq mishaps'
    BY DEF Note
  <1>1. ASSUME NEW r \in Requests, Begins(r) PROVE mishaps \subseteq mishaps'
    <2>1. \A q : Begin(r, q) => mishaps \subseteq mishaps'
      BY <1>0 DEF Begin
    <2> QED
      BY <1>1, <2>1 DEF Begins, CreateBegins, ActivateBegins, ReprovisionBegins, DeleteBegins,
                        EnvBegins, UpsertBegins, DropBegins
  <1>2. ASSUME NEW r \in Requests, Continues(r) PROVE mishaps \subseteq mishaps'
    <2>1. CASE \/ ReadsKeys(r) \/ LocksApp(r) \/ LocksInstance(r) \/ Connects(r) \/ ReadsAgain(r)
               \/ ChecksRealm(r) \/ ReadsBack(r) \/ WritesVault(r) \/ VerifiesRealm(r)
      BY <1>0, <2>1 DEF ReadsKeys, LocksApp, LocksInstance, Connects, ReadsAgain, ChecksRealm,
                        ReadsBack, WritesVault, VerifiesRealm
    <2>2. CASE CreatesRealm(r) \/ DisablesAdminCli(r) \/ CreatesClient(r)
      BY <1>0, <2>2 DEF CreatesRealm, DisablesAdminCli, CreatesClient, InRealm
    <2>3. CASE \/ DeletesSecrets(r) \/ ChecksDeletable(r) \/ DeletesRealm(r) \/ DeletesRow(r)
               \/ EnvWrites(r) \/ UpsertEnds(r) \/ DropEnds(r)
      BY <1>0, <2>3 DEF DeletesSecrets, ChecksDeletable, DeletesRealm, DeletesRow, EnvWrites,
                        UpsertEnds, DropEnds
    <2> QED
      BY <1>2, <2>1, <2>2, <2>3 DEF Continues
  <1> QED
    BY <1>0, <1>1, <1>2 DEF Next, OutsiderActs, Moves, Restart

\* What a failed attempt wrote does not stand in the way of its retry
\* (RefusedForOwnKeys).
THEOREM RetriesNotRefused == Spec => RefusedForOwnKeys
  <1> DEFINE Refused == \A r \in Requests :
          req[r].pc = "keys" /\ req'[r].pc = "idle" /\ vault[req[r].env] \in Servers
          => mishaps' \cap {"crash", "overlap", "kept"} # {}
  <1>1. ASSUME KeycloakInv, [Next]_vars PROVE [Refused]_vars
    <2> SUFFICES ASSUME Next, NEW r \in Requests, req[r].pc = "keys",
                        vault[req[r].env] \in Servers,
                        mishaps' \cap {"crash", "overlap", "kept"} = {}
                 PROVE  FALSE
      BY <1>1
    <2>1. Without({"kept", "overlap", "crash"}) /\ Without({"overlap"})
      BY <1>1, NextNotes DEF Without, KeycloakInv
    <2>2. PICK o \in RequestStates : o = req[r] /\ Shaped(o) /\ o.id \in Ids /\ o.id # 0
      BY <1>1, Working DEF Registrar
    <2>3. ~o.seen.enabled /\ o.mine = o.seen
      BY <2>2 DEF Shaped, Binders
    <2>4. Current(o) /\ RealmsOf(o.id, o)
      BY <1>1, <2>1, <2>2, AloneIs
    <2>5. ~KnownBy(o.id, o)
      BY <2>3, <2>4 DEF KnownBy, Current, Same
    <2>6. o.env \in Envs
      BY <2>2, StateIs
    <2> QED
      BY <2>2, <2>4, <2>5, <2>6 DEF RealmsOf
  <1> QED
    BY <1>1, KeycloakInvariant, PTL DEF Spec, RefusedForOwnKeys
=============================================================================
