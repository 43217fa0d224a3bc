------------------------ MODULE ClusterRegistryProofs ------------------------
(***************************************************************************)
(* Proofs about ClusterRegistry, for every set of clusters, applications   *)
(* and concurrent requests: a live cluster keeps its kubeconfig, leftovers *)
(* are explained, an application loses its cluster only in a race.         *)
(***************************************************************************)
EXTENDS ClusterRegistry, TLAPS

-----------------------------------------------------------------------------
(* Types and effects. *)

\* The step of one request: the others stand as they stood.
One(r) ==
    /\ req' \in [Requests -> RequestStates]
    /\ \A q \in Requests \ {r} : req'[q] = req[q]

\* The record of no request.
LEMMA NoReqType ==
    /\ NoReq \in RequestStates /\ NoReq.kind = "none" /\ NoReq.pc = "idle"
    /\ SomeId \in Ids /\ SomeName \in Names
    /\ NoRow \in Rows /\ NoRow.ref = "absent"
<1>1. SomeId \in Ids /\ SomeName \in Names
  BY RegistryConstants DEF SomeId, SomeName
<1>2. NoReq \in RequestStates /\ NoReq.kind = "none" /\ NoReq.pc = "idle"
  BY <1>1 DEF NoReq, RequestStates, AllKinds, Pcs
<1>. QED  BY <1>1, <1>2 DEF NoRow, Rows

\* What a request and a row consist of.
LEMMA Fields ==
    ASSUME TypeOK
    PROVE  /\ \A r \in Requests : /\ req[r] \in RequestStates /\ req[r].id \in Ids
                                  /\ req[r].kind \in AllKinds \cup {"none"}
                                  /\ req[r].pc \in Pcs /\ req[r].applied \in BOOLEAN
                                  /\ req[r].tok \in BOOLEAN
                                  /\ req[r].cfg \in Configs \cup {NoSecret}
                                  /\ req[r].name \in Names \cup {Keep}
                                  /\ req[r].app \in Apps \cup {NoApp}
           /\ \A i \in Ids : row[i] \in Rows /\ row[i].name \in Names
                             /\ row[i].ref \in {"absent", "pending", "vault", "file"}
<1>1. \A r \in Requests : req[r] \in RequestStates
  BY DEF TypeOK
<1>2. \A i \in Ids : row[i] \in Rows
  BY DEF TypeOK
<1>. QED  BY <1>1, <1>2 DEF RequestStates, Rows

\* A request goes on, or is over.
LEMMA GotoEffect ==
    ASSUME TypeOK, NEW r \in Requests, NEW a \in Pcs, Goto(r, a)
    PROVE  /\ One(r)
           /\ a = "idle" => req'[r] = NoReq /\ req'[r].kind = "none" /\ req'[r].pc = "idle"
           /\ a # "idle" => /\ req'[r].pc = a /\ req'[r].applied = FALSE
                            /\ req'[r].kind = req[r].kind /\ req'[r].id = req[r].id
                            /\ req'[r].cfg = req[r].cfg /\ req'[r].app = req[r].app
<1>. DEFINE q == [req[r] EXCEPT !.pc = a, !.applied = FALSE]
<1>1. req[r] \in RequestStates
  BY DEF TypeOK
<1>2. /\ q \in RequestStates /\ q.pc = a /\ q.applied = FALSE
      /\ q.kind = req[r].kind /\ q.id = req[r].id /\ q.cfg = req[r].cfg
      /\ q.app = req[r].app
  BY <1>1 DEF RequestStates
<1>3. req' = [req EXCEPT ![r] = IF a = "idle" THEN NoReq ELSE q]
  BY DEF Goto
<1>. HIDE DEF q
<1>4. /\ req' \in [Requests -> RequestStates]
      /\ \A s \in Requests \ {r} : req'[s] = req[s]
      /\ req'[r] = IF a = "idle" THEN NoReq ELSE q
  BY <1>2, <1>3, NoReqType DEF TypeOK
<1>. QED  BY <1>2, <1>4, NoReqType DEF One

\* The write of a Vault call is noted.
LEMMA AppliedEffect ==
    ASSUME TypeOK, NEW r \in Requests, req' = [req EXCEPT ![r].applied = TRUE]
    PROVE  /\ One(r)
           /\ req'[r].pc = req[r].pc /\ req'[r].applied = TRUE
           /\ req'[r].kind = req[r].kind /\ req'[r].id = req[r].id
           /\ req'[r].cfg = req[r].cfg /\ req'[r].app = req[r].app
<1>. DEFINE q == [req[r] EXCEPT !.applied = TRUE]
<1>1. req[r] \in RequestStates
  BY DEF TypeOK
<1>2. /\ q \in RequestStates /\ q.pc = req[r].pc /\ q.applied = TRUE
      /\ q.kind = req[r].kind /\ q.id = req[r].id /\ q.cfg = req[r].cfg
      /\ q.app = req[r].app
  BY <1>1 DEF RequestStates
<1>3. req' = [req EXCEPT ![r] = q]
  OBVIOUS
<1>. HIDE DEF q
<1>4. req' \in [Requests -> RequestStates] /\ req'[r] = q
      /\ \A s \in Requests \ {r} : req'[s] = req[s]
  BY <1>2, <1>3 DEF TypeOK
<1>. QED  BY <1>2, <1>4 DEF One

\* A request starts.
LEMMA BeginEffect ==
    ASSUME TypeOK, NEW r \in Requests, NEW q \in RequestStates, Begin(r, q)
    PROVE  /\ One(r) /\ req'[r] = q /\ req[r].kind = "none"
           /\ started' \in 0 .. MaxStarts
           /\ fresh' \in [Requests -> SUBSET Apps] /\ fresh'[r] = {}
           /\ \A s \in Requests \ {r} : fresh'[s] = fresh[s]
           /\ UNCHANGED <<vault, target, abandoned, restarts, reported, astray>>
BY RegistryConstants DEF Begin, TypeOK, One

\* The calls of a request that is in Vault.
LEMMA CallTypes ==
    ASSUME RegistryInv, NEW r \in Requests, InVault(r)
    PROVE  /\ Path(r) \in Paths /\ Path(r)[1] = req[r].pc /\ Path(r)[2] = req[r].id
           /\ req[r].id \in Ids /\ req[r].id \in used /\ req[r].kind # "none"
           /\ Call(r).path = Path(r) /\ Call(r).val \in Secrets
           /\ Call(r) \in [path : Paths, val : Secrets]
           /\ IsPut(r) => Call(r).val # NoSecret
           /\ ~IsPut(r) => Call(r).val = NoSecret /\ Gone(req[r].id)
<1>0. TypeOK
  BY DEF RegistryInv
<1>1. req[r].id \in Ids /\ req[r].cfg \in Configs \cup {NoSecret}
  BY <1>0, Fields
<1>2. Path(r) \in Paths /\ Path(r)[1] = req[r].pc /\ Path(r)[2] = req[r].id
  BY <1>1 DEF Path, Paths, InVault
<1>3. req[r].kind # "none" /\ req[r].id \in used
  BY DEF RegistryInv, RequestShape, InVault, KeysUsed
<1>4. ~IsPut(r) => Gone(req[r].id)
  BY DEF RegistryInv, RemovesGone
<1>5. req[r].pc = "kube" /\ IsPut(r) => req[r].cfg # NoSecret
  BY DEF RegistryInv, RequestShape
<1>6. /\ Call(r).path = Path(r) /\ Call(r).val \in Secrets
      /\ IsPut(r) => Call(r).val # NoSecret
      /\ ~IsPut(r) => Call(r).val = NoSecret
  BY <1>1, <1>5 DEF Call, IsPut, InVault, Secrets, Token, NoSecret
<1>7. Call(r) \in [path : Paths, val : Secrets]
  BY <1>1, <1>2, <1>6 DEF Call, Secrets
<1>. QED  BY <1>1, <1>2, <1>3, <1>4, <1>6, <1>7

-----------------------------------------------------------------------------
(* What each part of the invariant needs of a step of request r. *)

\* What is gone stays gone.
GoneKept == \A i \in Ids : Gone(i) => Gone(i)'

\* A kubeconfig is only removed where the row is gone.
SecretsKept ==
    \A i \in Ids : vault[<<"kube", i>>] # NoSecret => vault'[<<"kube", i>>] # NoSecret \/ Gone(i)'

\* Removals concern rows that are gone.
LEMMA RemovesFrame ==
    ASSUME RegistryInv, NEW r \in Requests, One(r), GoneKept,
           InVault(r)' /\ ~IsPut(r)' => Gone(req[r].id)',
           \A c \in abandoned' : c \in abandoned \/ (c.val = NoSecret => Gone(c.path[2])')
    PROVE  RemovesGone'
<1>0. TypeOK
  BY DEF RegistryInv
<1>1. ASSUME NEW q \in Requests, InVault(q)', ~IsPut(q)' PROVE Gone(req[q].id)'
  <2>1. CASE q = r
    BY <1>1, <2>1
  <2>2. CASE q # r
    <3>1. req'[q] = req[q]
      BY <2>2 DEF One
    <3>2. PICK i \in Ids : i = req[q].id
      BY <1>0, Fields
    <3>3. Gone(i)
      BY <3>1, <3>2, <1>1 DEF RegistryInv, RemovesGone, InVault, IsPut
    <3>4. Gone(i)'
      BY <3>3 DEF GoneKept
    <3>. QED  BY <3>1, <3>2, <3>4
  <2>. QED  BY <2>1, <2>2
<1>2. ASSUME NEW c \in abandoned', c.val = NoSecret PROVE Gone(c.path[2])'
  <2>1. CASE c \in abandoned
    <3>1. c.path[2] \in Ids
      BY <2>1, <1>0 DEF TypeOK, Paths
    <3>. QED  BY <2>1, <3>1, <1>2 DEF RegistryInv, RemovesGone, GoneKept
  <2>. QED  BY <2>1, <1>2
<1>. QED  BY <1>1, <1>2 DEF RemovesGone

\* A registration that is about to refer to its kubeconfig has stored it.
LEMMA StoredFrame ==
    ASSUME RegistryInv, NEW r \in Requests, One(r), GoneKept, SecretsKept,
           \A i \in used : row[i].ref # "pending" => row'[i].ref # "pending",
           req'[r].kind = "create" =>
             /\ \/ req'[r].pc = "row" \/ (req'[r].pc = "kube" /\ req'[r].applied)
                => Gone(req[r].id)' \/ vault'[<<"kube", req'[r].id>>] # NoSecret
             /\ req'[r].pc = "argo" => row'[req'[r].id].ref # "pending"
    PROVE  Stored'
<1>0. TypeOK
  BY DEF RegistryInv
<1>. SUFFICES ASSUME NEW q \in Requests, req'[q].kind = "create"
              PROVE  /\ \/ req'[q].pc = "row" \/ (req'[q].pc = "kube" /\ req'[q].applied)
                        => Gone(req[q].id)' \/ vault'[<<"kube", req'[q].id>>] # NoSecret
                     /\ req'[q].pc = "argo" => row'[req'[q].id].ref # "pending"
  BY DEF Stored
<1>1. CASE q = r
  BY <1>1
<1>2. CASE q # r
  <2>1. req'[q] = req[q]
    BY <1>2 DEF One
  <2>2. PICK i \in Ids : i = req[q].id
    BY <1>0, Fields
  <2>3. i \in used
    BY <2>1, <2>2 DEF RegistryInv, KeysUsed
  <2>4. ASSUME req'[q].pc = "row" \/ (req'[q].pc = "kube" /\ req'[q].applied)
        PROVE  Gone(i)' \/ vault'[<<"kube", i>>] # NoSecret
    <3>1. Gone(i) \/ vault[<<"kube", i>>] # NoSecret
      BY <2>1, <2>2, <2>4 DEF RegistryInv, Stored
    <3>. QED  BY <3>1 DEF GoneKept, SecretsKept
  <2>5. req'[q].pc = "argo" => row'[i].ref # "pending"
    BY <2>1, <2>2, <2>3 DEF RegistryInv, Stored
  <2>. QED  BY <2>1, <2>2, <2>4, <2>5
<1>. QED  BY <1>1, <1>2

\* A row that refers to Vault has its secret.
LEMMA LiveFrame ==
    ASSUME RegistryInv, SecretsKept,
           \A i \in Ids : row'[i].ref = "vault"
             => row[i].ref = "vault" \/ vault'[<<"kube", i>>] # NoSecret
    PROVE  LiveClusterHasSecret'
<1>. SUFFICES ASSUME NEW i \in Ids, row'[i].ref = "vault"
              PROVE  vault'[<<"kube", i>>] # NoSecret
  BY DEF LiveClusterHasSecret
<1>1. ~Gone(i)'
  BY DEF Gone, Present
<1>. QED  BY <1>1 DEF RegistryInv, LiveClusterHasSecret, SecretsKept

\* A pending row has its registration, or was interrupted.
LEMMA PendingFrame ==
    ASSUME RegistryInv, NEW r \in Requests, One(r), astray \subseteq astray',
           \A i \in Ids : row'[i].ref = "pending"
             => row[i].ref = "pending" \/ (req'[r].kind = "create" /\ req'[r].id = i),
           req[r].kind = "create"
             => \/ req'[r].kind = "create" /\ req'[r].id = req[r].id
                \/ row'[req[r].id].ref # "pending"
    PROVE  PendingIsTransient'
<1>. SUFFICES ASSUME NEW i \in Ids, row'[i].ref = "pending", <<"kube", i>> \notin astray'
              PROVE  \E q \in Requests : req'[q].kind = "create" /\ req'[q].id = i
  BY DEF PendingIsTransient
<1>1. CASE req'[r].kind = "create" /\ req'[r].id = i
  BY <1>1
<1>2. CASE ~(req'[r].kind = "create" /\ req'[r].id = i)
  <2>1. PICK q \in Requests : req[q].kind = "create" /\ req[q].id = i
    BY <1>2 DEF RegistryInv, PendingIsTransient
  <2>2. q # r
    BY <2>1, <1>2
  <2>. QED  BY <2>1, <2>2 DEF One
<1>. QED  BY <1>1, <1>2

\* Leftovers stay explained or about to be removed.
LEMMA LeftFrame ==
    ASSUME RegistryInv, NEW r \in Requests, One(r),
           reported \subseteq reported', astray \subseteq astray',
           \A p \in Paths : vault'[p] # NoSecret /\ ~Present(p[2])'
             => \/ vault[p] # NoSecret /\ ~Present(p[2])
                \/ p \in reported' \cup astray' \/ Cleans(r, p)',
           \A p \in Paths : Cleans(r, p)
             => Cleans(r, p)' \/ vault'[p] = NoSecret \/ p \in reported',
           \A c \in abandoned' : c \in abandoned \/ (c.val # NoSecret => c.path \in astray')
    PROVE  LeftoversTracked'
<1>1. ASSUME NEW p \in Paths, vault'[p] # NoSecret, ~Present(p[2])',
             p \notin reported' \cup astray'
      PROVE  \E q \in Requests : Cleans(q, p)'
  <2>1. CASE Cleans(r, p)'
    BY <2>1
  <2>2. CASE ~Cleans(r, p)'
    <3>1. PICK q \in Requests : Cleans(q, p)
      BY <1>1, <2>2 DEF RegistryInv, LeftoversTracked
    <3>2. q # r
      BY <3>1, <1>1, <2>2
    <3>3. req'[q] = req[q]
      BY <3>2 DEF One
    <3>. QED  BY <3>1, <3>3 DEF Cleans
  <2>. QED  BY <2>1, <2>2
<1>2. \A c \in abandoned' : c.val # NoSecret => c.path \in astray'
  BY DEF RegistryInv, LeftoversTracked
<1>. QED  BY <1>1, <1>2 DEF LeftoversTracked

\* Requests that may delete a row know who came to it.
LEMMA FreshFrame ==
    ASSUME RegistryInv, NEW r \in Requests, One(r),
           \A q \in Requests \ {r} : req[q].kind # "none" => fresh[q] \subseteq fresh'[q],
           \A a \in Apps, q \in Requests : target'[a] # NoTarget /\ target'[a] # target[a]
             /\ req'[q].kind # "none" => a \in fresh'[q],
           req'[r].kind \in {"create", "delete"} =>
             \A a \in Apps : target'[a] = req'[r].id => a \in fresh'[r]
    PROVE  FreshKnown'
<1>0. TypeOK
  BY DEF RegistryInv
<1>. SUFFICES ASSUME NEW q \in Requests, req'[q].kind \in {"create", "delete"},
                     NEW a \in Apps, target'[a] = req'[q].id
              PROVE  a \in fresh'[q]
  BY DEF FreshKnown
<1>1. CASE q = r
  BY <1>1
<1>2. CASE q # r
  <2>1. req'[q] = req[q] /\ req[q].id \in Ids
    BY <1>0, <1>2, Fields DEF One
  <2>2. target'[a] # NoTarget
    BY <2>1, RegistryConstants
  <2>3. CASE target'[a] = target[a]
    BY <2>1, <2>3, <1>2 DEF RegistryInv, FreshKnown
  <2>4. CASE target'[a] # target[a]
    BY <2>2, <2>4
  <2>. QED  BY <2>3, <2>4
<1>. QED  BY <1>1, <1>2

\* Keys are used.
LEMMA KeysFrame ==
    ASSUME RegistryInv, NEW r \in Requests, One(r), used \subseteq used',
           \A i \in Ids : Present(i)' => Present(i) \/ i \in used',
           \A a \in Apps : target'[a] # NoTarget => target'[a] = target[a] \/ target'[a] \in used,
           req'[r].kind # "none" => req'[r].id \in used'
    PROVE  KeysUsed'
<1>1. ASSUME NEW q \in Requests, req'[q].kind # "none" PROVE req'[q].id \in used'
  <2>1. CASE q = r
    BY <1>1, <2>1
  <2>2. CASE q # r
    BY <1>1, <2>2 DEF One, RegistryInv, KeysUsed
  <2>. QED  BY <2>1, <2>2
<1>2. \A i \in Ids : Present(i)' => i \in used'
  BY DEF RegistryInv, KeysUsed
<1>3. \A a \in Apps : target'[a] # NoTarget => target'[a] \in used'
  BY DEF RegistryInv, KeysUsed
<1>. QED  BY <1>1, <1>2, <1>3 DEF KeysUsed

\* Requests keep their shape.
LEMMA ShapeFrame ==
    ASSUME RegistryInv, NEW r \in Requests, One(r),
           req'[r].kind = "none" => req'[r].pc = "idle",
           req'[r].pc = "undo" => req'[r].kind = "create",
           req'[r].pc = "kube" /\ req'[r].kind # "delete" => req'[r].cfg # NoSecret,
           req'[r].kind = "assign" => req'[r].app \in Apps
    PROVE  RequestShape'
<1>. SUFFICES ASSUME NEW q \in Requests
              PROVE  /\ req'[q].kind = "none" => req'[q].pc = "idle"
                     /\ req'[q].pc = "undo" => req'[q].kind = "create"
                     /\ req'[q].pc = "kube" /\ req'[q].kind # "delete" => req'[q].cfg # NoSecret
                     /\ req'[q].kind = "assign" => req'[q].app \in Apps
  BY DEF RequestShape, IsPut
<1>1. CASE q = r
  BY <1>1
<1>2. CASE q # r
  BY <1>2 DEF One, RegistryInv, RequestShape, IsPut
<1>. QED  BY <1>1, <1>2

-----------------------------------------------------------------------------
(* Vault calls. *)

\* A path is its two parts.
LEMMA PathParts ==
    ASSUME NEW p \in Paths, NEW q \in Paths, p[1] = q[1], p[2] = q[2]
    PROVE  p = q
BY DEF Paths

\* A request goes on with what it carries, or is over.
Carries(r) ==
    \/ req'[r] = NoReq
    \/ /\ req'[r].kind = req[r].kind /\ req'[r].id = req[r].id /\ req'[r].cfg = req[r].cfg
       /\ req'[r].app = req[r].app /\ req'[r].pc # "idle"

\* Rows, applications and the shape of requests across a Vault call.
LEMMA VaultFrame ==
    ASSUME RegistryInv, NEW r \in Requests, InVault(r), One(r), Carries(r), SecretsKept,
           UNCHANGED <<row, used, target, fresh>>, astray \subseteq astray',
           req[r].kind = "create" /\ req'[r] = NoReq => req[r].pc = "argo",
           req'[r].pc = "undo" => req[r].kind = "create",
           req'[r].pc = "kube" => req[r].pc = "kube"
    PROVE  /\ KeysUsed' /\ RequestShape' /\ LiveClusterHasSecret' /\ PendingIsTransient'
           /\ FreshKnown' /\ GoneKept
<1>1. req[r].kind # "none" /\ req[r].id \in used /\ req[r].id \in Ids
  BY CallTypes
<1>2. GoneKept
  BY DEF GoneKept, Gone, Present
<1>3. KeysUsed'
  <2>1. req'[r].kind # "none" => req'[r].id \in used'
    BY <1>1, NoReqType DEF Carries
  <2>2. \A i \in Ids : Present(i)' => Present(i)
    BY DEF Present
  <2>. QED  BY <2>1, <2>2, KeysFrame
<1>4. RequestShape'
  <2>1. /\ req'[r].kind = "none" => req'[r].pc = "idle"
        /\ req'[r].pc = "undo" => req'[r].kind = "create"
    BY <1>1, NoReqType DEF Carries
  <2>2. req'[r].pc = "kube" /\ req'[r].kind # "delete" => req'[r].cfg # NoSecret
    BY NoReqType DEF Carries, RegistryInv, RequestShape, IsPut
  <2>3. req'[r].kind = "assign" => req'[r].app \in Apps
    BY NoReqType DEF Carries, RegistryInv, RequestShape
  <2>. QED  BY <2>1, <2>2, <2>3, ShapeFrame
<1>5. LiveClusterHasSecret'
  BY LiveFrame
<1>6. PendingIsTransient'
  <2>1. req[r].kind = "create"
          => \/ req'[r].kind = "create" /\ req'[r].id = req[r].id
             \/ row'[req[r].id].ref # "pending"
    BY DEF Carries, RegistryInv, Stored
  <2>. QED  BY <2>1, PendingFrame
<1>7. FreshKnown'
  <2>1. req'[r].kind \in {"create", "delete"} =>
             \A a \in Apps : target'[a] = req'[r].id => a \in fresh'[r]
    BY NoReqType DEF Carries, RegistryInv, FreshKnown
  <2>. QED  BY <2>1, FreshFrame
<1>. QED  BY <1>2, <1>3, <1>4, <1>5, <1>6, <1>7

\* The write happens.
LEMMA VaultAppliesInv ==
    ASSUME RegistryInv, NEW r \in Requests, VaultApplies(r)
    PROVE  RegistryInv'
<1>0. TypeOK /\ InVault(r) /\ ~req[r].applied
  BY DEF RegistryInv, VaultApplies
<1>1. /\ vault' = [vault EXCEPT ![Path(r)] = Call(r).val]
      /\ req' = [req EXCEPT ![r].applied = TRUE]
      /\ astray' = astray \cup {p \in {Path(r)} : IsPut(r) /\ ~Present(req[r].id)}
      /\ UNCHANGED <<started, row, used, target, abandoned, restarts, reported, fresh>>
  BY DEF VaultApplies
<1>2. /\ One(r) /\ req'[r].pc = req[r].pc /\ req'[r].applied = TRUE
      /\ req'[r].kind = req[r].kind /\ req'[r].id = req[r].id /\ req'[r].cfg = req[r].cfg
      /\ req'[r].app = req[r].app
  BY <1>0, <1>1, AppliedEffect
<1>3. /\ Path(r) \in Paths /\ Path(r)[1] = req[r].pc /\ Path(r)[2] = req[r].id
      /\ req[r].id \in Ids /\ Call(r).val \in Secrets
      /\ IsPut(r) => Call(r).val # NoSecret
      /\ ~IsPut(r) => Call(r).val = NoSecret /\ Gone(req[r].id)
      /\ req[r].kind # "none"
  BY <1>0, CallTypes
<1>4. /\ vault' \in [Paths -> Secrets] /\ vault'[Path(r)] = Call(r).val
      /\ \A p \in Paths \ {Path(r)} : vault'[p] = vault[p]
  BY <1>0, <1>1, <1>3 DEF TypeOK
<1>5. Carries(r)
  BY <1>0, <1>2 DEF Carries, InVault
<1>6. SecretsKept
  <2>. SUFFICES ASSUME NEW i \in Ids, vault[<<"kube", i>>] # NoSecret, ~Gone(i)'
                PROVE  vault'[<<"kube", i>>] # NoSecret
    BY DEF SecretsKept
  <2>1. <<"kube", i>> \in Paths
    BY DEF Paths
  <2>2. CASE Path(r) = <<"kube", i>>
    <3>1. i = req[r].id /\ ~Gone(i)
      BY <2>2, <1>1 DEF Path, Gone, Present
    <3>. QED  BY <2>2, <3>1, <1>3, <1>4
  <2>. QED  BY <2>1, <2>2, <1>4
<1>7. /\ KeysUsed' /\ RequestShape' /\ LiveClusterHasSecret' /\ PendingIsTransient'
      /\ FreshKnown' /\ GoneKept
  <2>1. req'[r] # NoReq /\ req'[r].pc # "undo"
    BY <1>0, <1>2, NoReqType DEF InVault
  <2>. QED  BY <2>1, <1>0, <1>1, <1>2, <1>5, <1>6, VaultFrame
<1>8. RemovesGone'
  <2>1. InVault(r)' /\ ~IsPut(r)' => Gone(req[r].id)'
    BY <1>1, <1>2, <1>3 DEF IsPut, Gone, Present
  <2>. QED  BY <2>1, <1>1, <1>2, <1>7, RemovesFrame
<1>9. Stored'
  <2>1. ASSUME req'[r].kind = "create"
        PROVE  /\ \/ req'[r].pc = "row" \/ (req'[r].pc = "kube" /\ req'[r].applied)
                  => vault'[<<"kube", req'[r].id>>] # NoSecret
               /\ req'[r].pc = "argo" => row'[req'[r].id].ref # "pending"
    <3>1. req'[r].pc = "kube" => vault'[<<"kube", req'[r].id>>] # NoSecret
      BY <2>1, <1>2, <1>3, <1>4 DEF Path, IsPut
    <3>2. req'[r].pc = "argo" => row'[req'[r].id].ref # "pending"
      BY <2>1, <1>1, <1>2 DEF RegistryInv, Stored
    <3>. QED  BY <3>1, <3>2, <1>0, <1>2 DEF InVault
  <2>. QED  BY <2>1, <1>1, <1>2, <1>6, <1>7, StoredFrame
<1>10. LeftoversTracked'
  <2>1. ASSUME NEW p \in Paths, vault'[p] # NoSecret, ~Present(p[2])'
        PROVE  (vault[p] # NoSecret /\ ~Present(p[2])) \/ p \in reported' \cup astray'
    <3>1. ~Present(p[2])
      BY <2>1, <1>1 DEF Present
    <3>2. CASE p = Path(r)
      BY <2>1, <3>1, <3>2, <1>1, <1>3, <1>4
    <3>. QED  BY <2>1, <3>1, <3>2, <1>4
  <2>2. ASSUME NEW p \in Paths, Cleans(r, p)
        PROVE  Cleans(r, p)' \/ vault'[p] = NoSecret
    <3>1. CASE p = Path(r)
      BY <2>2, <3>1, <1>3, <1>4 DEF Cleans, IsPut
    <3>2. CASE p # Path(r)
      <4>1. p[1] # req[r].pc
        BY <2>2, <3>2, <1>3, PathParts DEF Cleans
      <4>. QED  BY <2>2, <4>1, <1>2 DEF Cleans, Paths
    <3>. QED  BY <3>1, <3>2
  <2>. QED  BY <2>1, <2>2, <1>1, <1>2, LeftFrame
<1>11. TypeOK'
  BY <1>0, <1>1, <1>2, <1>3, <1>4 DEF TypeOK, One
<1>. QED  BY <1>7, <1>8, <1>9, <1>10, <1>11 DEF RegistryInv

\* It is answered.
LEMMA VaultAnswersInv ==
    ASSUME RegistryInv, NEW r \in Requests, VaultAnswers(r)
    PROVE  RegistryInv'
<1>. DEFINE a == AfterCall(req[r])
<1>0. TypeOK /\ InVault(r) /\ req[r].applied
  BY DEF RegistryInv, VaultAnswers
<1>1. /\ Goto(r, a)
      /\ UNCHANGED <<started, row, used, vault, target, abandoned, restarts>>
      /\ UNCHANGED <<reported, astray, fresh>>
  BY DEF VaultAnswers, ghost
<1>2. /\ a \in Pcs /\ a \in {"idle", "argo", "row"} /\ (req[r].pc = "argo" => a = "idle")
      /\ req[r].pc = "kube" /\ req[r].kind = "delete" => a = "argo"
      /\ req[r].pc = "kube" /\ req[r].kind # "delete" => a = "row"
  BY <1>0 DEF AfterCall, Pcs, InVault
<1>. HIDE DEF a
<1>3. /\ One(r)
      /\ a = "idle" => req'[r] = NoReq /\ req'[r].kind = "none" /\ req'[r].pc = "idle"
      /\ a # "idle" => /\ req'[r].pc = a /\ req'[r].applied = FALSE
                       /\ req'[r].kind = req[r].kind /\ req'[r].id = req[r].id
                       /\ req'[r].cfg = req[r].cfg /\ req'[r].app = req[r].app
  BY <1>0, <1>1, <1>2, GotoEffect
<1>4. /\ req[r].id \in Ids /\ req[r].kind # "none"
      /\ ~IsPut(r) => Gone(req[r].id)
  BY <1>0, CallTypes
<1>5. Carries(r) /\ SecretsKept
  BY <1>1, <1>3 DEF Carries, SecretsKept
<1>6. /\ KeysUsed' /\ RequestShape' /\ LiveClusterHasSecret' /\ PendingIsTransient'
      /\ FreshKnown' /\ GoneKept
  <2>1. /\ req'[r].pc # "undo" /\ req'[r].pc # "kube"
        /\ req[r].kind = "create" /\ req'[r] = NoReq => req[r].pc = "argo"
    BY <1>0, <1>2, <1>3, <1>4, NoReqType DEF InVault
  <2>. QED  BY <2>1, <1>0, <1>1, <1>3, <1>5, VaultFrame
<1>7. RemovesGone'
  <2>1. InVault(r)' /\ ~IsPut(r)' => Gone(req[r].id)'
    BY <1>1, <1>3, <1>4 DEF IsPut, Gone, Present
  <2>. QED  BY <2>1, <1>1, <1>3, <1>6, RemovesFrame
<1>8. Stored'
  <2>1. ASSUME req'[r].kind = "create"
        PROVE  /\ \/ req'[r].pc = "row" \/ (req'[r].pc = "kube" /\ req'[r].applied)
                  => Gone(req[r].id)' \/ vault'[<<"kube", req'[r].id>>] # NoSecret
               /\ req'[r].pc = "argo" => row'[req'[r].id].ref # "pending"
    <3>1. /\ a # "idle" /\ req[r].kind = "create" /\ req[r].pc = "kube"
          /\ req'[r].id = req[r].id /\ req'[r].pc = "row"
      BY <2>1, <1>0, <1>2, <1>3 DEF InVault
    <3>2. Gone(req[r].id) \/ vault[<<"kube", req[r].id>>] # NoSecret
      BY <3>1, <1>0 DEF RegistryInv, Stored
    <3>. QED  BY <3>1, <3>2, <1>1 DEF Gone, Present
  <2>. QED  BY <2>1, <1>1, <1>3, <1>5, <1>6, StoredFrame
<1>9. LeftoversTracked'
  <2>1. ASSUME NEW p \in Paths, Cleans(r, p) PROVE Cleans(r, p)'
    BY <2>1, <1>0, <1>2, <1>3 DEF Cleans
  <2>2. \A p \in Paths : ~Present(p[2])' => ~Present(p[2])
    BY <1>1 DEF Present
  <2>. QED  BY <2>1, <2>2, <1>1, <1>3, LeftFrame
<1>10. TypeOK'
  BY <1>0, <1>1, <1>3 DEF TypeOK, One
<1>. QED  BY <1>6, <1>7, <1>8, <1>9, <1>10 DEF RegistryInv

\* It fails, its answer is lost, or the request gives up while its thread goes on.
LEMMA VaultFailsInv ==
    ASSUME RegistryInv, NEW r \in Requests, VaultFails(r) \/ VaultTimesOut(r)
    PROVE  RegistryInv'
<1>. DEFINE a == AfterFailure(req[r])
<1>0. TypeOK /\ InVault(r)
  BY DEF RegistryInv, VaultFails, VaultTimesOut
<1>1. /\ Goto(r, a)
      /\ UNCHANGED <<started, row, used, vault, target, restarts, fresh>>
      /\ astray \subseteq astray' /\ astray' \subseteq astray \cup {Path(r)}
      /\ reported' = reported \cup {p \in {Path(r)} : ~IsPut(r)}
      /\ \/ abandoned' = abandoned
         \/ abandoned' = abandoned \cup {Call(r)} /\ (IsPut(r) => Path(r) \in astray')
  BY DEF VaultFails, VaultTimesOut
<1>2. /\ a \in Pcs /\ a \in {"idle", "argo", "undo"} /\ (req[r].pc = "argo" => a = "idle")
      /\ req[r].pc = "kube" /\ req[r].kind = "delete" => a = "argo"
      /\ a = "argo" => req[r].kind = "delete"
      /\ a = "undo" => req[r].kind = "create"
      /\ req[r].pc = "kube" /\ req[r].kind = "create" => a = "undo"
  BY <1>0 DEF AfterFailure, Pcs, InVault
<1>. HIDE DEF a
<1>3. /\ One(r)
      /\ a = "idle" => req'[r] = NoReq /\ req'[r].kind = "none" /\ req'[r].pc = "idle"
      /\ a # "idle" => /\ req'[r].pc = a /\ req'[r].applied = FALSE
                       /\ req'[r].kind = req[r].kind /\ req'[r].id = req[r].id
                       /\ req'[r].cfg = req[r].cfg /\ req'[r].app = req[r].app
  BY <1>0, <1>1, <1>2, GotoEffect
<1>4. /\ Path(r) \in Paths /\ Path(r)[1] = req[r].pc /\ Path(r)[2] = req[r].id
      /\ req[r].id \in Ids /\ req[r].kind # "none"
      /\ Call(r).path = Path(r) /\ Call(r) \in [path : Paths, val : Secrets]
      /\ IsPut(r) => Call(r).val # NoSecret
      /\ ~IsPut(r) => Call(r).val = NoSecret /\ Gone(req[r].id)
  BY <1>0, CallTypes
<1>5. Carries(r) /\ SecretsKept
  BY <1>1, <1>3 DEF Carries, SecretsKept
<1>6. /\ KeysUsed' /\ RequestShape' /\ LiveClusterHasSecret' /\ PendingIsTransient'
      /\ FreshKnown' /\ GoneKept
  <2>1. /\ req'[r].pc = "undo" => req[r].kind = "create"
        /\ req'[r].pc # "kube"
        /\ req[r].kind = "create" /\ req'[r] = NoReq => req[r].pc = "argo"
    BY <1>0, <1>2, <1>3, <1>4, NoReqType DEF InVault
  <2>. QED  BY <2>1, <1>0, <1>1, <1>3, <1>5, VaultFrame
<1>7. RemovesGone'
  <2>1. InVault(r)' /\ ~IsPut(r)' => Gone(req[r].id)'
    BY <1>1, <1>3, <1>4 DEF IsPut, Gone, Present
  <2>2. ASSUME NEW c \in abandoned', c \notin abandoned, c.val = NoSecret
        PROVE  Gone(c.path[2])'
    <3>1. c = Call(r) /\ ~IsPut(r)
      BY <2>2, <1>1, <1>4
    <3>2. c.path[2] = req[r].id /\ Gone(c.path[2])
      BY <3>1, <1>4
    <3>. QED  BY <3>2, <1>1 DEF Gone, Present
  <2>. QED  BY <2>1, <2>2, <1>3, <1>6, RemovesFrame
<1>8. Stored'
  <2>1. ~(req'[r].kind = "create" /\ req'[r].pc \in {"row", "kube", "argo"})
    BY <1>2, <1>3
  <2>. QED  BY <2>1, <1>1, <1>3, <1>5, <1>6, StoredFrame
<1>9. LeftoversTracked'
  <2>1. ASSUME NEW p \in Paths, Cleans(r, p) PROVE Cleans(r, p)' \/ p \in reported'
    <3>1. CASE p[1] = req[r].pc
      <4>1. p = Path(r)
        BY <2>1, <3>1, <1>4, PathParts DEF Cleans
      <4>. QED  BY <2>1, <4>1, <1>1 DEF Cleans, IsPut
    <3>2. CASE p[1] # req[r].pc
      BY <2>1, <3>2, <1>0, <1>2, <1>3 DEF Cleans, Paths
    <3>. QED  BY <3>1, <3>2
  <2>2. \A p \in Paths : ~Present(p[2])' => ~Present(p[2])
    BY <1>1 DEF Present
  <2>3. \A c \in abandoned' : c \in abandoned \/ (c.val # NoSecret => c.path \in astray')
    BY <1>1, <1>4
  <2>. QED  BY <2>1, <2>2, <2>3, <1>1, <1>3, LeftFrame
<1>10. TypeOK'
  <2>1. /\ abandoned' \subseteq [path : Paths, val : Secrets]
        /\ astray' \subseteq Paths /\ reported' \subseteq Paths
    BY <1>0, <1>1, <1>4 DEF TypeOK
  <2>. QED  BY <2>1, <1>0, <1>1, <1>3 DEF TypeOK, One
<1>. QED  BY <1>6, <1>7, <1>8, <1>9, <1>10 DEF RegistryInv

\* An abandoned write lands, or never does.
LEMMA LateCallInv ==
    ASSUME RegistryInv, NEW c \in abandoned, LateCallEnds(c)
    PROVE  RegistryInv'
<1>0. TypeOK
  BY DEF RegistryInv
<1>1. /\ vault' = vault \/ vault' = [vault EXCEPT ![c.path] = c.val]
      /\ abandoned' = abandoned \ {c}
      /\ UNCHANGED <<started, row, used, target, req, restarts, reported, astray, fresh>>
  BY DEF LateCallEnds, ghost
<1>2. c.path \in Paths /\ c.val \in Secrets /\ c.path[2] \in Ids
  BY <1>0 DEF TypeOK, Paths
<1>3. /\ vault' \in [Paths -> Secrets]
      /\ \A p \in Paths : vault'[p] = vault[p] \/ (p = c.path /\ vault'[p] = c.val)
  BY <1>0, <1>1, <1>2 DEF TypeOK
<1>4. /\ c.val = NoSecret => Gone(c.path[2])
      /\ c.val # NoSecret => c.path \in astray
  BY DEF RegistryInv, RemovesGone, LeftoversTracked
<1>5. SecretsKept
  <2>. SUFFICES ASSUME NEW i \in Ids, vault[<<"kube", i>>] # NoSecret,
                       vault'[<<"kube", i>>] = NoSecret
                PROVE  Gone(i)'
    BY DEF SecretsKept
  <2>1. <<"kube", i>> \in Paths
    BY DEF Paths
  <2>2. c.path = <<"kube", i>> /\ c.val = NoSecret
    BY <2>1, <1>3
  <2>. QED  BY <2>2, <1>1, <1>4 DEF Gone, Present
<1>6. LiveClusterHasSecret'
  BY <1>1, <1>5, LiveFrame
<1>7. KeysUsed' /\ RequestShape' /\ PendingIsTransient' /\ FreshKnown'
  BY <1>1 DEF RegistryInv, KeysUsed, RequestShape, PendingIsTransient, FreshKnown, Present,
              IsPut
<1>8. RemovesGone'
  BY <1>1 DEF RegistryInv, RemovesGone, Gone, Present, InVault, IsPut
<1>9. Stored'
  <2>. SUFFICES ASSUME NEW q \in Requests, req[q].kind = "create"
                PROVE  /\ \/ req[q].pc = "row" \/ (req[q].pc = "kube" /\ req[q].applied)
                          => Gone(req[q].id)' \/ vault'[<<"kube", req[q].id>>] # NoSecret
                       /\ req[q].pc = "argo" => row[req[q].id].ref # "pending"
    BY <1>1 DEF Stored
  <2>1. PICK i \in Ids : i = req[q].id
    BY <1>0, Fields
  <2>2. ASSUME req[q].pc = "row" \/ (req[q].pc = "kube" /\ req[q].applied)
        PROVE  Gone(i)' \/ vault'[<<"kube", i>>] # NoSecret
    <3>1. Gone(i) \/ vault[<<"kube", i>>] # NoSecret
      BY <2>1, <2>2 DEF RegistryInv, Stored
    <3>2. Gone(i) => Gone(i)'
      BY <1>1 DEF Gone, Present
    <3>. QED  BY <3>1, <3>2, <1>5 DEF SecretsKept
  <2>3. req[q].pc = "argo" => row[req[q].id].ref # "pending"
    BY DEF RegistryInv, Stored
  <2>. QED  BY <2>1, <2>2, <2>3, <1>1
<1>10. LeftoversTracked'
  <2>1. ASSUME NEW p \in Paths, vault'[p] # NoSecret, ~Present(p[2])',
               p \notin reported' \cup astray'
        PROVE  \E q \in Requests : Cleans(q, p)'
    <3>1. vault'[p] = vault[p]
      BY <2>1, <1>1, <1>3, <1>4
    <3>2. \E q \in Requests : Cleans(q, p)
      BY <2>1, <3>1, <1>1 DEF RegistryInv, LeftoversTracked, Present
    <3>. QED  BY <3>2, <1>1 DEF Cleans
  <2>2. \A d \in abandoned' : d.val # NoSecret => d.path \in astray'
    BY <1>1 DEF RegistryInv, LeftoversTracked
  <2>. QED  BY <2>1, <2>2 DEF LeftoversTracked
<1>11. TypeOK'
  BY <1>0, <1>1, <1>3 DEF TypeOK
<1>. QED  BY <1>6, <1>7, <1>8, <1>9, <1>10, <1>11 DEF RegistryInv

-----------------------------------------------------------------------------
(* Database commits. *)

\* One row is written: the others stand as they stood.
LEMMA RowUpdate ==
    ASSUME TypeOK, NEW i \in Ids, NEW x \in Rows, row' = [row EXCEPT ![i] = x]
    PROVE  /\ row' \in [Ids -> Rows] /\ row'[i] = x
           /\ \A j \in Ids \ {i} : row'[j] = row[j] /\ (Present(j)' <=> Present(j))
BY DEF TypeOK, Present

\* A column of a row is written.
LEMMA ColumnUpdate ==
    ASSUME NEW x \in Rows
    PROVE  /\ \A n \in Names : LET y == [x EXCEPT !.name = n]
                               IN  y \in Rows /\ y.ref = x.ref /\ y.name = n
           /\ \A f \in {"absent", "pending", "vault", "file"} :
                  LET y == [x EXCEPT !.ref = f]
                  IN  y \in Rows /\ y.ref = f /\ y.name = x.name
BY DEF Rows

\* A row is deleted, and the applications on it lose their cluster.
LEMMA DeletedEffect ==
    ASSUME TypeOK, NEW i \in Ids, RowDeleted(i)
    PROVE  /\ row' \in [Ids -> Rows] /\ row'[i].ref = "absent" /\ ~Present(i)'
           /\ \A j \in Ids \ {i} : row'[j] = row[j] /\ (Present(j)' <=> Present(j))
           /\ target' \in [Apps -> Ids \cup {NoTarget}]
           /\ \A a \in Apps : target'[a] = IF target[a] = i THEN NoTarget ELSE target[a]
<1>1. /\ row' = [row EXCEPT ![i] = NoRow]
      /\ target' = [a \in Apps |-> IF target[a] = i THEN NoTarget ELSE target[a]]
  BY DEF RowDeleted
<1>2. /\ row' \in [Ids -> Rows] /\ row'[i] = NoRow
      /\ \A j \in Ids \ {i} : row'[j] = row[j] /\ (Present(j)' <=> Present(j))
  BY <1>1, NoReqType, RowUpdate
<1>3. /\ target' \in [Apps -> Ids \cup {NoTarget}]
      /\ \A a \in Apps : target'[a] = IF target[a] = i THEN NoTarget ELSE target[a]
  BY <1>1 DEF TypeOK
<1>. QED  BY <1>2, <1>3, NoReqType DEF Present

\* A request at its commit has a key that was given.
LEMMA CommitTypes ==
    ASSUME RegistryInv, NEW r \in Requests, req[r].pc # "idle"
    PROVE  /\ TypeOK /\ req[r].kind # "none" /\ req[r].id \in Ids /\ req[r].id \in used
           /\ row[req[r].id] \in Rows
<1>1. TypeOK
  BY DEF RegistryInv
<1>. QED  BY <1>1, Fields DEF RegistryInv, RequestShape, KeysUsed

\* What does not depend on the rows, across a commit of request r.
LEMMA CommitFrame ==
    ASSUME RegistryInv, NEW r \in Requests, One(r), Carries(r), req[r].pc \in {"row", "undo"},
           UNCHANGED <<used, vault, abandoned>>,
           \A i \in Ids : Present(i)' => Present(i),
           \A a \in Apps : target'[a] # NoTarget => target'[a] = target[a] \/ target'[a] \in used,
           req'[r].pc \notin {"undo", "row"}, req'[r].pc = "kube" => req[r].kind = "delete",
           InVault(r)' /\ ~IsPut(r)' => Gone(req[r].id)'
    PROVE  KeysUsed' /\ RequestShape' /\ RemovesGone' /\ GoneKept /\ SecretsKept
<1>0. TypeOK /\ req[r].kind # "none" /\ req[r].id \in used
  BY CommitTypes
<1>1. GoneKept /\ SecretsKept
  BY DEF GoneKept, SecretsKept, Gone
<1>2. KeysUsed'
  <2>1. req'[r].kind # "none" => req'[r].id \in used'
    BY <1>0, NoReqType DEF Carries
  <2>. QED  BY <2>1, KeysFrame
<1>3. RequestShape'
  <2>1. /\ req'[r].kind = "none" => req'[r].pc = "idle"
        /\ req'[r].pc = "kube" /\ req'[r].kind # "delete" => req'[r].cfg # NoSecret
    BY <1>0, NoReqType DEF Carries
  <2>2. req'[r].kind = "assign" => req'[r].app \in Apps
    BY NoReqType DEF Carries, RegistryInv, RequestShape
  <2>. QED  BY <2>1, <2>2, ShapeFrame
<1>4. RemovesGone'
  BY <1>1, RemovesFrame
<1>. QED  BY <1>1, <1>2, <1>3, <1>4

\* The row points to its secret.
LEMMA CreateCommitsInv ==
    ASSUME RegistryInv, NEW r \in Requests, CreateCommits(r)
    PROVE  RegistryInv'
<1>. DEFINE i == req[r].id
            a == IF Present(i) /\ req[r].tok THEN "argo" ELSE "idle"
            f == IF Present(i) THEN "vault" ELSE row[i].ref
            x == [row[i] EXCEPT !.ref = f]
<1>0. req[r].kind = "create" /\ req[r].pc = "row"
  BY DEF CreateCommits
<1>1. TypeOK /\ i \in Ids /\ i \in used /\ row[i] \in Rows
  BY <1>0, CommitTypes
<1>2. /\ Goto(r, a)
      /\ UNCHANGED <<started, used, vault, target, abandoned, restarts>>
      /\ UNCHANGED <<reported, astray, fresh>>
  BY DEF CreateCommits, ghost
<1>3. a \in Pcs /\ a \in {"argo", "idle"} /\ (a = "argo" => Present(i))
  BY DEF Pcs
<1>4. f \in {"absent", "pending", "vault", "file"} /\ f # "pending"
      /\ (f # "absent" <=> Present(i)) /\ (f = "vault" => Present(i))
  BY <1>1, Fields DEF Present
<1>5. row' = [row EXCEPT ![i] = x]
  BY <1>1 DEF CreateCommits, TypeOK
<1>6. x \in Rows /\ x.ref = f
  BY <1>1, <1>4, ColumnUpdate
<1>. HIDE DEF a, f, x
<1>7. /\ row' \in [Ids -> Rows] /\ row'[i] = x
      /\ \A j \in Ids \ {i} : row'[j] = row[j] /\ (Present(j)' <=> Present(j))
  BY <1>1, <1>5, <1>6, RowUpdate
<1>8. \A j \in Ids : Present(j)' <=> Present(j)
  BY <1>4, <1>6, <1>7 DEF Present
<1>9. /\ One(r) /\ Carries(r) /\ req'[r].pc \in {"idle", "argo"}
      /\ req'[r].kind \in {"none", "create"}
      /\ req'[r].kind = "create" => req'[r].id = i /\ req'[r].pc = "argo"
  BY <1>0, <1>1, <1>2, <1>3, GotoEffect DEF Carries
<1>10. KeysUsed' /\ RequestShape' /\ RemovesGone' /\ GoneKept /\ SecretsKept
  <2>1. ~(InVault(r)' /\ ~IsPut(r)') /\ req'[r].pc \notin {"undo", "row", "kube"}
    BY <1>9 DEF IsPut
  <2>. QED  BY <2>1, <1>0, <1>2, <1>8, <1>9, CommitFrame
<1>11. LiveClusterHasSecret'
  <2>1. Present(i) => vault[<<"kube", i>>] # NoSecret
    BY <1>0 DEF RegistryInv, Stored, Gone
  <2>2. \A j \in Ids : row'[j].ref = "vault"
          => row[j].ref = "vault" \/ vault'[<<"kube", j>>] # NoSecret
    BY <2>1, <1>2, <1>4, <1>6, <1>7
  <2>. QED  BY <2>2, <1>10, LiveFrame
<1>12. row'[i].ref # "pending" /\ \A j \in Ids : row'[j].ref = "pending" => row[j].ref = "pending"
  BY <1>4, <1>6, <1>7
<1>13. PendingIsTransient'
  BY <1>2, <1>9, <1>12, PendingFrame
<1>14. Stored'
  <2>1. \A j \in used : row[j].ref # "pending" => row'[j].ref # "pending"
    BY <1>1, <1>12 DEF TypeOK
  <2>. QED  BY <2>1, <1>9, <1>10, <1>12, StoredFrame
<1>15. LeftoversTracked'
  <2>1. \A p \in Paths : ~Cleans(r, p) /\ (~Present(p[2])' => ~Present(p[2]))
    BY <1>0, <1>8 DEF Cleans, Paths
  <2>. QED  BY <2>1, <1>2, <1>9, LeftFrame
<1>16. FreshKnown'
  <2>1. req'[r].kind \in {"create", "delete"} =>
             \A b \in Apps : target'[b] = req'[r].id => b \in fresh'[r]
    BY <1>0, <1>2, <1>9 DEF RegistryInv, FreshKnown
  <2>. QED  BY <2>1, <1>2, <1>9, FreshFrame
<1>17. TypeOK'
  BY <1>1, <1>2, <1>7, <1>9 DEF TypeOK, One
<1>. QED  BY <1>10, <1>11, <1>13, <1>14, <1>15, <1>16, <1>17 DEF RegistryInv

\* The cleanup of a failed registration.
LEMMA CreateUndoneInv ==
    ASSUME RegistryInv, NEW r \in Requests, CreateUndone(r)
    PROVE  RegistryInv'
<1>0. req[r].kind = "create" /\ req[r].pc = "undo"
  BY DEF CreateUndone, RegistryInv, RequestShape
<1>i. PICK i \in Ids : i = req[r].id
  BY <1>0, CommitTypes
<1>1. TypeOK /\ i \in Ids /\ i = req[r].id /\ i \in used
  BY <1>0, <1>i, CommitTypes
<1>2. /\ RowDeleted(i) /\ Goto(r, "idle") /\ "idle" \in Pcs
      /\ astray' = astray \cup {p \in Paths : p[2] = i /\ vault[p] # NoSecret}
      /\ UNCHANGED <<started, used, vault, abandoned, restarts, reported, fresh>>
  BY <1>1 DEF CreateUndone, Pcs
<1>3. /\ row' \in [Ids -> Rows] /\ row'[i].ref = "absent" /\ ~Present(i)'
      /\ \A j \in Ids \ {i} : row'[j] = row[j] /\ (Present(j)' <=> Present(j))
      /\ target' \in [Apps -> Ids \cup {NoTarget}]
      /\ \A a \in Apps : target'[a] = IF target[a] = i THEN NoTarget ELSE target[a]
  BY <1>1, <1>2, DeletedEffect
<1>4. One(r) /\ Carries(r) /\ req'[r].pc = "idle" /\ req'[r].kind = "none"
  BY <1>1, <1>2, GotoEffect DEF Carries
<1>5. KeysUsed' /\ RequestShape' /\ RemovesGone' /\ GoneKept /\ SecretsKept
  <2>1. ~InVault(r)' /\ \A j \in Ids : Present(j)' => Present(j)
    BY <1>3, <1>4 DEF InVault
  <2>. QED  BY <2>1, <1>0, <1>2, <1>3, <1>4, CommitFrame
<1>6. \A j \in Ids : /\ row'[j].ref = "pending" => row[j].ref = "pending"
                     /\ row'[j].ref = "vault" => row[j].ref = "vault"
  BY <1>3
<1>7. LiveClusterHasSecret'
  BY <1>5, <1>6, LiveFrame
<1>8. PendingIsTransient'
  BY <1>1, <1>2, <1>3, <1>4, <1>6, PendingFrame
<1>9. Stored'
  <2>1. \A j \in used : row[j].ref # "pending" => row'[j].ref # "pending"
    BY <1>1, <1>6 DEF TypeOK
  <2>. QED  BY <2>1, <1>4, <1>5, StoredFrame
<1>10. LeftoversTracked'
  <2>1. ASSUME NEW p \in Paths, vault'[p] # NoSecret, ~Present(p[2])'
        PROVE  (vault[p] # NoSecret /\ ~Present(p[2])) \/ p \in reported' \cup astray'
    <3>1. p[2] \in Ids
      BY DEF Paths
    <3>. QED  BY <2>1, <3>1, <1>2, <1>3
  <2>2. \A p \in Paths : ~Cleans(r, p)
    BY <1>0 DEF Cleans
  <2>. QED  BY <2>1, <2>2, <1>2, <1>4, LeftFrame
<1>11. FreshKnown'
  BY <1>2, <1>3, <1>4, FreshFrame
<1>12. TypeOK'
  BY <1>1, <1>2, <1>3, <1>4 DEF TypeOK, One
<1>. QED  BY <1>5, <1>7, <1>8, <1>9, <1>10, <1>11, <1>12 DEF RegistryInv

\* The row is deleted; the two secrets come next.
LEMMA DeleteCommitsInv ==
    ASSUME RegistryInv, NEW r \in Requests, DeleteCommits(r)
    PROVE  RegistryInv'
<1>0. req[r].kind = "delete" /\ req[r].pc = "row"
  BY DEF DeleteCommits
<1>i. PICK i \in Ids : i = req[r].id
  BY <1>0, CommitTypes
<1>1. TypeOK /\ i \in Ids /\ i = req[r].id /\ i \in used
  BY <1>0, <1>i, CommitTypes
<1>2. /\ RowDeleted(i) /\ Goto(r, "kube") /\ "kube" \in Pcs
      /\ UNCHANGED <<started, used, vault, abandoned, restarts, reported, astray, fresh>>
  BY <1>1 DEF DeleteCommits, Pcs, ghost
<1>3. /\ row' \in [Ids -> Rows] /\ row'[i].ref = "absent" /\ ~Present(i)'
      /\ \A j \in Ids \ {i} : row'[j] = row[j] /\ (Present(j)' <=> Present(j))
      /\ target' \in [Apps -> Ids \cup {NoTarget}]
      /\ \A a \in Apps : target'[a] = IF target[a] = i THEN NoTarget ELSE target[a]
  BY <1>1, <1>2, DeletedEffect
<1>4. /\ One(r) /\ Carries(r) /\ req'[r].pc = "kube" /\ req'[r].kind = "delete"
      /\ req'[r].id = i /\ req'[r].applied = FALSE
  BY <1>0, <1>1, <1>2, GotoEffect DEF Carries
<1>5. KeysUsed' /\ RequestShape' /\ RemovesGone' /\ GoneKept /\ SecretsKept
  <2>1. Gone(req[r].id)' /\ \A j \in Ids : Present(j)' => Present(j)
    BY <1>1, <1>2, <1>3, <1>4 DEF Gone
  <2>. QED  BY <2>1, <1>0, <1>2, <1>3, <1>4, CommitFrame
<1>6. \A j \in Ids : /\ row'[j].ref = "pending" => row[j].ref = "pending"
                     /\ row'[j].ref = "vault" => row[j].ref = "vault"
  BY <1>3
<1>7. LiveClusterHasSecret'
  BY <1>5, <1>6, LiveFrame
<1>8. PendingIsTransient'
  BY <1>0, <1>2, <1>3, <1>4, <1>6, PendingFrame
<1>9. Stored'
  <2>1. \A j \in used : row[j].ref # "pending" => row'[j].ref # "pending"
    BY <1>1, <1>6 DEF TypeOK
  <2>. QED  BY <2>1, <1>4, <1>5, StoredFrame
<1>10. LeftoversTracked'
  <2>1. ASSUME NEW p \in Paths, vault'[p] # NoSecret, ~Present(p[2])'
        PROVE  (vault[p] # NoSecret /\ ~Present(p[2])) \/ Cleans(r, p)'
    <3>1. p[2] \in Ids
      BY DEF Paths
    <3>2. p[2] = i => Cleans(r, p)'
      BY <1>4 DEF Cleans
    <3>. QED  BY <2>1, <3>1, <3>2, <1>2, <1>3
  <2>2. \A p \in Paths : ~Cleans(r, p)
    BY <1>0 DEF Cleans
  <2>. QED  BY <2>1, <2>2, <1>2, <1>4, LeftFrame
<1>11. FreshKnown'
  <2>1. \A a \in Apps : target'[a] # i
    BY <1>1, <1>3, RegistryConstants
  <2>. QED  BY <2>1, <1>2, <1>3, <1>4, FreshFrame
<1>12. TypeOK'
  BY <1>1, <1>2, <1>3, <1>4 DEF TypeOK, One
<1>. QED  BY <1>5, <1>7, <1>8, <1>9, <1>10, <1>11, <1>12 DEF RegistryInv

\* Changed columns are written.
LEMMA UpdateCommitsInv ==
    ASSUME RegistryInv, NEW r \in Requests, UpdateCommits(r)
    PROVE  RegistryInv'
<1>0. req[r].kind = "update" /\ req[r].pc = "row"
  BY DEF UpdateCommits
<1>1. TypeOK /\ req[r].id \in Ids /\ req[r].id \in used /\ row[req[r].id] \in Rows
  BY <1>0, CommitTypes
<1>2. UNCHANGED <<started, used, vault, target, abandoned, restarts, reported, astray, fresh>>
  BY DEF UpdateCommits, ghost
<1>3. PICK a \in {"argo", "idle"} : Goto(r, a)
  BY DEF UpdateCommits
<1>4. a \in Pcs
  BY DEF Pcs
<1>5. /\ row' \in [Ids -> Rows] /\ \A j \in Ids : row'[j].ref = row[j].ref
  <2>1. CASE row' = row
    BY <2>1, <1>1 DEF TypeOK
  <2>2. CASE row' # row
    <3>1. PICK n \in Names : row' = [row EXCEPT ![req[r].id].name = n]
      <4>1. req[r].name \in Names \cup {Keep}
        BY <1>1, Fields
      <4>. QED  BY <4>1, <2>2 DEF UpdateCommits
    <3>. DEFINE x == [row[req[r].id] EXCEPT !.name = n]
    <3>2. x \in Rows /\ x.ref = row[req[r].id].ref
      BY <1>1, ColumnUpdate
    <3>3. row' = [row EXCEPT ![req[r].id] = x]
      BY <3>1
    <3>. HIDE DEF x
    <3>. QED  BY <3>2, <3>3, <1>1, RowUpdate
  <2>. QED  BY <2>1, <2>2
<1>6. \A j \in Ids : Present(j)' <=> Present(j)
  BY <1>5 DEF Present
<1>7. /\ One(r) /\ Carries(r) /\ req'[r].pc \in {"idle", "argo"}
      /\ req'[r].kind \in {"none", "update"}
  BY <1>0, <1>1, <1>3, <1>4, GotoEffect DEF Carries
<1>8. KeysUsed' /\ RequestShape' /\ RemovesGone' /\ GoneKept /\ SecretsKept
  <2>1. ~(InVault(r)' /\ ~IsPut(r)') /\ req'[r].pc \notin {"undo", "row", "kube"}
    BY <1>7 DEF IsPut
  <2>. QED  BY <2>1, <1>0, <1>2, <1>6, <1>7, CommitFrame
<1>9. LiveClusterHasSecret'
  BY <1>5, <1>8, LiveFrame
<1>10. PendingIsTransient'
  BY <1>0, <1>2, <1>5, <1>7, PendingFrame
<1>11. Stored'
  <2>1. \A j \in used : row[j].ref # "pending" => row'[j].ref # "pending"
    BY <1>1, <1>5 DEF TypeOK
  <2>. QED  BY <2>1, <1>7, <1>8, StoredFrame
<1>12. LeftoversTracked'
  <2>1. \A p \in Paths : ~Cleans(r, p) /\ (~Present(p[2])' => ~Present(p[2]))
    BY <1>0, <1>6 DEF Cleans, Paths
  <2>. QED  BY <2>1, <1>2, <1>7, LeftFrame
<1>13. FreshKnown'
  BY <1>2, <1>7, FreshFrame
<1>14. TypeOK'
  BY <1>1, <1>2, <1>5, <1>7 DEF TypeOK, One
<1>. QED  BY <1>8, <1>9, <1>10, <1>11, <1>12, <1>13, <1>14 DEF RegistryInv

\* An application is assigned; every request under way knows.
LEMMA AssignCommitsInv ==
    ASSUME RegistryInv, NEW r \in Requests, AssignCommits(r)
    PROVE  RegistryInv'
<1>. DEFINE i == req[r].id
            b == req[r].app
<1>0. req[r].kind = "assign" /\ req[r].pc = "row"
  BY DEF AssignCommits
<1>1. TypeOK /\ i \in Ids /\ i \in used /\ b \in Apps
  BY <1>0, CommitTypes DEF RegistryInv, RequestShape
<1>2. /\ target' = [target EXCEPT ![b] = IF Present(i) THEN i ELSE @]
      /\ fresh' = [q \in Requests |-> IF req[q].kind # "none" THEN fresh[q] \cup {b}
                                      ELSE fresh[q]]
      /\ Goto(r, "idle") /\ "idle" \in Pcs
      /\ UNCHANGED <<started, row, used, vault, abandoned, restarts, reported, astray>>
  BY DEF AssignCommits, Pcs
<1>3. /\ target' \in [Apps -> Ids \cup {NoTarget}]
      /\ \A a \in Apps : target'[a] = target[a] \/ (a = b /\ target'[a] = i)
  BY <1>1, <1>2 DEF TypeOK
<1>4. /\ fresh' \in [Requests -> SUBSET Apps]
      /\ \A q \in Requests : /\ fresh[q] \subseteq fresh'[q]
                             /\ req[q].kind # "none" => b \in fresh'[q]
  BY <1>1, <1>2 DEF TypeOK
<1>5. One(r) /\ Carries(r) /\ req'[r].pc = "idle" /\ req'[r].kind = "none"
  BY <1>1, <1>2, GotoEffect DEF Carries
<1>6. KeysUsed' /\ RequestShape' /\ RemovesGone' /\ GoneKept /\ SecretsKept
  <2>1. ~InVault(r)' /\ \A j \in Ids : Present(j)' => Present(j)
    BY <1>2, <1>5 DEF InVault, Present
  <2>. QED  BY <2>1, <1>0, <1>1, <1>2, <1>3, <1>5, CommitFrame
<1>7. LiveClusterHasSecret'
  BY <1>2, <1>6, LiveFrame
<1>8. PendingIsTransient'
  BY <1>0, <1>2, <1>5, PendingFrame
<1>9. Stored'
  BY <1>2, <1>5, <1>6, StoredFrame
<1>10. LeftoversTracked'
  <2>1. \A p \in Paths : ~Cleans(r, p) /\ (~Present(p[2])' => ~Present(p[2]))
    BY <1>0, <1>2 DEF Cleans, Present
  <2>. QED  BY <2>1, <1>2, <1>5, LeftFrame
<1>11. FreshKnown'
  <2>1. ASSUME NEW a \in Apps, NEW q \in Requests, target'[a] # target[a],
               req'[q].kind # "none"
        PROVE  a \in fresh'[q]
    <3>1. a = b /\ q # r
      BY <2>1, <1>3, <1>5
    <3>. QED  BY <2>1, <3>1, <1>4, <1>5 DEF One
  <2>. QED  BY <2>1, <1>4, <1>5, FreshFrame
<1>12. TypeOK'
  BY <1>1, <1>2, <1>3, <1>4, <1>5 DEF TypeOK, One
<1>. QED  BY <1>6, <1>7, <1>8, <1>9, <1>10, <1>11, <1>12 DEF RegistryInv

-----------------------------------------------------------------------------
(* Requests start. *)

\* What a new request needs; the rows that were there stay.
LEMMA StartFrame ==
    ASSUME RegistryInv, NEW r \in Requests, NEW q \in RequestStates, Begin(r, q),
           row' \in [Ids -> Rows], used \subseteq used', used' \subseteq Ids,
           \A i \in Ids : i \in used => row'[i] = row[i],
           \A i \in Ids : i \notin used => /\ row'[i].ref \in {"absent", "pending"}
                                           /\ Present(i)' => i \in used',
           \A i \in Ids : i \notin used /\ row'[i].ref = "pending"
             => q.kind = "create" /\ q.id = i,
           q.kind # "none", q.id \in used', q.pc # "undo", q.applied = FALSE,
           q.pc = "kube" => q.cfg # NoSecret /\ q.kind # "delete",
           q.pc \notin {"argo", "undo"}, q.kind = "create" => q.pc # "row",
           q.kind = "assign" => q.app \in Apps,
           q.kind \in {"create", "delete"} => \A a \in Apps : target[a] # q.id
    PROVE  RegistryInv'
<1>0. TypeOK
  BY DEF RegistryInv
<1>1. /\ One(r) /\ req'[r] = q /\ req[r].kind = "none"
      /\ started' \in 0 .. MaxStarts
      /\ fresh' \in [Requests -> SUBSET Apps] /\ fresh'[r] = {}
      /\ \A s \in Requests \ {r} : fresh'[s] = fresh[s]
      /\ UNCHANGED <<vault, target, abandoned, restarts, reported, astray>>
  BY <1>0, BeginEffect
<1>2. \A i \in Ids : Present(i) => i \in used
  BY DEF RegistryInv, KeysUsed
<1>3. GoneKept /\ SecretsKept
  BY <1>1 DEF GoneKept, SecretsKept, Gone, Present
<1>4. KeysUsed'
  <2>1. \A i \in Ids : Present(i)' => Present(i) \/ i \in used'
    BY DEF Present
  <2>. QED  BY <2>1, <1>1, KeysFrame
<1>5. RequestShape'
  BY <1>1, ShapeFrame
<1>6. RemovesGone'
  <2>1. ~(InVault(r)' /\ ~IsPut(r)')
    BY <1>1 DEF InVault, IsPut
  <2>. QED  BY <2>1, <1>1, <1>3, RemovesFrame
<1>7. LiveClusterHasSecret'
  <2>1. ASSUME NEW i \in Ids, row'[i].ref = "vault" PROVE row[i].ref = "vault"
    <3>1. i \in used
      BY <2>1
    <3>. QED  BY <2>1, <3>1
  <2>. QED  BY <2>1, <1>3, LiveFrame
<1>8. PendingIsTransient'
  BY <1>1, PendingFrame
<1>9. Stored'
  <2>1. \A i \in used : row[i].ref # "pending" => row'[i].ref # "pending"
    BY <1>0 DEF TypeOK
  <2>. QED  BY <2>1, <1>1, <1>3, StoredFrame
<1>10. LeftoversTracked'
  <2>1. ASSUME NEW p \in Paths, ~Present(p[2])' PROVE ~Present(p[2])
    <3>1. p[2] \in Ids
      BY DEF Paths
    <3>. QED  BY <2>1, <3>1, <1>2 DEF Present
  <2>2. \A p \in Paths : ~Cleans(r, p)
    BY <1>1 DEF Cleans
  <2>. QED  BY <2>1, <2>2, <1>1, LeftFrame
<1>11. FreshKnown'
  BY <1>1, FreshFrame
<1>12. TypeOK'
  BY <1>0, <1>1 DEF TypeOK, One
<1>. QED  BY <1>4, <1>5, <1>6, <1>7, <1>8, <1>9, <1>10, <1>11, <1>12 DEF RegistryInv

\* A cluster is registered under a key never given before.
LEMMA CreateStartsInv ==
    ASSUME RegistryInv, NEW r \in Requests, CreateStarts(r)
    PROVE  RegistryInv'
<1>0. TypeOK
  BY DEF RegistryInv
<1>1. PICK i \in Ids \ used, n \in Names, k \in Configs, t \in BOOLEAN :
        /\ row' = [row EXCEPT ![i] = [ref |-> "pending", name |-> n]]
        /\ used' = used \cup {i}
        /\ Begin(r, [NoReq EXCEPT !.kind = "create", !.pc = "kube", !.id = i,
                                  !.cfg = k, !.tok = t])
  BY DEF CreateStarts
<1>. DEFINE q == [NoReq EXCEPT !.kind = "create", !.pc = "kube", !.id = i, !.cfg = k, !.tok = t]
            x == [ref |-> "pending", name |-> n]
<1>2. /\ q \in RequestStates /\ q.kind = "create" /\ q.pc = "kube" /\ q.id = i
      /\ q.cfg = k /\ q.applied = FALSE
  BY <1>1 DEF NoReq, RequestStates, AllKinds, Pcs
<1>3. x \in Rows /\ x.ref = "pending"
  BY <1>1 DEF Rows
<1>4. Begin(r, q) /\ row' = [row EXCEPT ![i] = x] /\ used' = used \cup {i} /\ i \in Ids
      /\ i \notin used
  BY <1>1
<1>. HIDE DEF q, x
<1>5. /\ row' \in [Ids -> Rows] /\ row'[i] = x
      /\ \A j \in Ids \ {i} : row'[j] = row[j] /\ (Present(j)' <=> Present(j))
  BY <1>0, <1>3, <1>4, RowUpdate
<1>6. \A j \in Ids : j \notin used => row[j].ref = "absent"
  BY DEF RegistryInv, KeysUsed, Present
<1>7. k # NoSecret /\ \A a \in Apps : target[a] # i
  BY <1>1, <1>4, RegistryConstants DEF RegistryInv, KeysUsed, NoSecret
<1>8. used' \subseteq Ids
  BY <1>0, <1>4 DEF TypeOK
<1>9. /\ \A j \in Ids : j \in used => row'[j] = row[j]
      /\ \A j \in Ids : j \notin used => /\ row'[j].ref \in {"absent", "pending"}
                                         /\ Present(j)' => j \in used'
      /\ \A j \in Ids : j \notin used /\ row'[j].ref = "pending" => j = i
  BY <1>3, <1>4, <1>5, <1>6 DEF Present
<1>. QED  BY <1>2, <1>4, <1>5, <1>7, <1>8, <1>9, StartFrame

\* An update, a deletion or an assignment starts on a row that is there.
LEMMA OtherStartsInv ==
    ASSUME RegistryInv, NEW r \in Requests,
           UpdateStarts(r) \/ DeleteStarts(r) \/ AssignStarts(r)
    PROVE  RegistryInv'
<1>0. TypeOK
  BY DEF RegistryInv
<1>1. \E q \in RequestStates :
        /\ Begin(r, q) /\ q.kind \in {"update", "delete", "assign"} /\ Present(q.id)
        /\ q.id \in Ids /\ q.pc \in {"row", "kube"} /\ q.applied = FALSE
        /\ q.pc = "kube" => q.cfg # NoSecret /\ q.kind = "update"
        /\ q.kind = "assign" => q.app \in Apps
        /\ q.kind = "delete" => \A a \in Apps : target[a] # q.id
  <2>1. CASE UpdateStarts(r)
    <3>1. PICK i \in {j \in Ids : Present(j)}, n \in Names \cup {Keep},
               k \in Configs \cup {NoSecret}, t \in BOOLEAN :
            Begin(r, [NoReq EXCEPT !.kind = "update", !.id = i, !.cfg = k, !.tok = t,
                                   !.name = n, !.pc = IF k = NoSecret THEN "row" ELSE "kube"])
      BY <2>1 DEF UpdateStarts
    <3>. DEFINE q == [NoReq EXCEPT !.kind = "update", !.id = i, !.cfg = k, !.tok = t,
                                   !.name = n, !.pc = IF k = NoSecret THEN "row" ELSE "kube"]
    <3>2. /\ q \in RequestStates /\ q.kind = "update" /\ q.id = i /\ q.applied = FALSE
          /\ q.pc \in {"row", "kube"} /\ (q.pc = "kube" => q.cfg # NoSecret)
      BY <3>1 DEF NoReq, RequestStates, AllKinds, Pcs
    <3>3. Begin(r, q) /\ i \in Ids /\ Present(i)
      BY <3>1
    <3>. HIDE DEF q
    <3>. QED  BY <3>2, <3>3
  <2>2. CASE DeleteStarts(r)
    <3>1. PICK i \in Ids : /\ Deletable(i)
                           /\ Begin(r, [NoReq EXCEPT !.kind = "delete", !.pc = "row", !.id = i])
      BY <2>2 DEF DeleteStarts
    <3>. DEFINE q == [NoReq EXCEPT !.kind = "delete", !.pc = "row", !.id = i]
    <3>2. /\ q \in RequestStates /\ q.kind = "delete" /\ q.id = i /\ q.applied = FALSE
          /\ q.pc = "row"
      BY <3>1 DEF NoReq, RequestStates, AllKinds, Pcs
    <3>3. Begin(r, q) /\ Present(i) /\ \A a \in Apps : target[a] # i
      BY <3>1 DEF Deletable
    <3>. HIDE DEF q
    <3>. QED  BY <3>2, <3>3
  <2>3. CASE AssignStarts(r)
    <3>1. PICK a \in Apps, i \in {j \in Ids : Present(j)} :
            Begin(r, [NoReq EXCEPT !.kind = "assign", !.pc = "row", !.id = i, !.app = a])
      BY <2>3 DEF AssignStarts
    <3>. DEFINE q == [NoReq EXCEPT !.kind = "assign", !.pc = "row", !.id = i, !.app = a]
    <3>2. /\ q \in RequestStates /\ q.kind = "assign" /\ q.id = i /\ q.applied = FALSE
          /\ q.pc = "row" /\ q.app = a
      BY <3>1 DEF NoReq, RequestStates, AllKinds, Pcs
    <3>3. Begin(r, q) /\ i \in Ids /\ Present(i)
      BY <3>1
    <3>. HIDE DEF q
    <3>. QED  BY <3>2, <3>3
  <2>. QED  BY <2>1, <2>2, <2>3
<1>2. UNCHANGED <<row, used>>
  BY DEF UpdateStarts, DeleteStarts, AssignStarts
<1>3. PICK q \in RequestStates :
        /\ Begin(r, q) /\ q.kind \in {"update", "delete", "assign"} /\ Present(q.id)
        /\ q.id \in Ids /\ q.pc \in {"row", "kube"} /\ q.applied = FALSE
        /\ q.pc = "kube" => q.cfg # NoSecret /\ q.kind = "update"
        /\ q.kind = "assign" => q.app \in Apps
        /\ q.kind = "delete" => \A a \in Apps : target[a] # q.id
  BY <1>1
<1>4. /\ row' \in [Ids -> Rows] /\ used' \subseteq Ids /\ q.id \in used'
      /\ \A j \in Ids : j \notin used => row'[j].ref = "absent" /\ ~Present(j)'
  BY <1>0, <1>2, <1>3 DEF TypeOK, RegistryInv, KeysUsed, Present
<1>. QED  BY <1>2, <1>3, <1>4, StartFrame

-----------------------------------------------------------------------------
(* Restart and discovery. *)

\* Every request is dropped, its Vault calls may still land; discovered clusters get new
\* keys or refer to their file.
LEMMA RestartInv ==
    ASSUME RegistryInv, Restart
    PROVE  RegistryInv'
<1>0. TypeOK
  BY DEF RegistryInv
<1>1. /\ restarts' \in 0 .. MaxRestarts
      /\ abandoned' = abandoned \cup {Call(r) : r \in {q \in Requests : InVault(q)
                                                                      /\ ~req[q].applied}}
      /\ astray' = astray \cup {p \in Paths : \E r \in Requests :
                                  req[r].kind # "none" /\ p[2] = req[r].id}
      /\ req' = [r \in Requests |-> NoReq] /\ fresh' = [r \in Requests |-> {}]
      /\ UNCHANGED <<started, vault, target, reported>>
  BY <1>0, RegistryConstants DEF Restart, TypeOK
<1>2. \A r \in Requests : req'[r] = NoReq /\ req'[r].kind = "none" /\ req'[r].pc = "idle"
  BY <1>1, NoReqType
<1>3. /\ row' \in [Ids -> Rows] /\ used \subseteq used' /\ used' \subseteq Ids
      /\ \A i \in Ids : row'[i] = row[i] \/ row'[i].ref = "file"
      /\ \A i \in Ids : Present(i) => Present(i)'
      /\ \A i \in Ids : Present(i)' => Present(i) \/ (i \in used' /\ i \notin used)
  <2>1. PICK ns \in SUBSET Names, f \in [Names -> Ids] : Discovers(ns, f)
    BY DEF Restart
  <2>. DEFINE new == NewNames(ns)
  <2>2. /\ \A n \in new : f[n] \notin used
        /\ row' = [i \in Ids |->
              IF Present(i) /\ row[i].name \in ns THEN [row[i] EXCEPT !.ref = "file"]
              ELSE IF \E n \in new : f[n] = i
              THEN [ref |-> "file", name |-> CHOOSE n \in new : f[n] = i]
              ELSE row[i]]
        /\ used' = used \cup {f[n] : n \in new}
    BY <2>1 DEF Discovers
  <2>3. new \subseteq Names /\ f \in [Names -> Ids]
    BY <2>1 DEF NewNames
  <2>. HIDE DEF new
  <2>4. ASSUME NEW i \in Ids
        PROVE  /\ row'[i] \in Rows
               /\ row'[i] = row[i] \/ row'[i].ref = "file"
               /\ row'[i] = row[i] \/ Present(i) \/ (i \in used' /\ i \notin used)
    <3>1. CASE Present(i) /\ row[i].name \in ns
      <4>1. row'[i] = [row[i] EXCEPT !.ref = "file"]
        BY <2>2, <3>1
      <4>2. row[i] \in Rows
        BY <1>0, Fields
      <4>3. row'[i] \in Rows /\ row'[i].ref = "file"
        BY <4>1, <4>2 DEF Rows
      <4>. QED  BY <3>1, <4>3
    <3>2. CASE ~(Present(i) /\ row[i].name \in ns) /\ \E n \in new : f[n] = i
      <4>1. row'[i] = [ref |-> "file", name |-> CHOOSE n \in new : f[n] = i]
        BY <2>2, <3>2
      <4>2. (CHOOSE n \in new : f[n] = i) \in Names
        BY <3>2, <2>3
      <4>3. i \in used' /\ i \notin used
        BY <3>2, <2>2
      <4>. QED  BY <4>1, <4>2, <4>3 DEF Rows
    <3>3. CASE ~(Present(i) /\ row[i].name \in ns) /\ ~ \E n \in new : f[n] = i
      BY <3>3, <2>2, <1>0 DEF TypeOK
    <3>. QED  BY <3>1, <3>2, <3>3
  <2>5. row' \in [Ids -> Rows]
    BY <2>2, <2>4
  <2>6. used' \subseteq Ids /\ used \subseteq used'
    BY <2>2, <2>3, <1>0 DEF TypeOK
  <2>. QED  BY <2>4, <2>5, <2>6 DEF Present
<1>4. \A i \in Ids : Gone(i) => Gone(i)'
  BY <1>3 DEF Gone
<1>5. KeysUsed'
  BY <1>1, <1>2, <1>3 DEF RegistryInv, KeysUsed
<1>6. RequestShape' /\ Stored' /\ FreshKnown'
  BY <1>2 DEF RequestShape, Stored, FreshKnown, IsPut
<1>7. RemovesGone'
  <2>1. ASSUME NEW c \in abandoned', c.val = NoSecret PROVE Gone(c.path[2])'
    <3>1. CASE c \in abandoned
      <4>1. c.path[2] \in Ids /\ Gone(c.path[2])
        BY <2>1, <3>1, <1>0 DEF TypeOK, Paths, RegistryInv, RemovesGone
      <4>. QED  BY <4>1, <1>4
    <3>2. CASE c \notin abandoned
      <4>1. PICK r \in Requests : c = Call(r) /\ InVault(r)
        BY <3>2, <1>1
      <4>2. c.path[2] = req[r].id /\ req[r].id \in Ids /\ Gone(req[r].id)
        BY <4>1, <2>1, CallTypes
      <4>3. c.path[2] \in Ids /\ Gone(c.path[2])
        BY <4>2
      <4>. QED  BY <4>3, <1>4
    <3>. QED  BY <3>1, <3>2
  <2>. QED  BY <2>1, <1>2 DEF RemovesGone, InVault
<1>8. LiveClusterHasSecret'
  BY <1>1, <1>3 DEF RegistryInv, LiveClusterHasSecret
<1>9. PendingIsTransient'
  <2>. SUFFICES ASSUME NEW i \in Ids, row'[i].ref = "pending"
                PROVE  <<"kube", i>> \in astray'
    BY DEF PendingIsTransient
  <2>1. row[i].ref = "pending" /\ <<"kube", i>> \in Paths /\ <<"kube", i>>[2] = i
    BY <1>3 DEF Paths
  <2>. QED  BY <2>1, <1>1 DEF RegistryInv, PendingIsTransient
<1>10. LeftoversTracked'
  <2>1. ASSUME NEW p \in Paths, vault'[p] # NoSecret, ~Present(p[2])'
        PROVE  p \in reported' \cup astray'
    <3>1. ~Present(p[2])
      BY <2>1, <1>3 DEF Paths
    <3>2. p \in reported \cup astray \/ \E r \in Requests : Cleans(r, p)
      BY <2>1, <3>1, <1>1 DEF RegistryInv, LeftoversTracked
    <3>. QED  BY <3>2, <1>1 DEF Cleans
  <2>2. ASSUME NEW c \in abandoned', c.val # NoSecret PROVE c.path \in astray'
    <3>1. CASE c \in abandoned
      BY <2>2, <3>1, <1>1 DEF RegistryInv, LeftoversTracked
    <3>2. CASE c \notin abandoned
      <4>1. PICK r \in Requests : c = Call(r) /\ InVault(r)
        BY <3>2, <1>1
      <4>2. c.path \in Paths /\ c.path[2] = req[r].id /\ req[r].kind # "none"
        BY <4>1, CallTypes
      <4>. QED  BY <4>2, <1>1
    <3>. QED  BY <3>1, <3>2
  <2>. QED  BY <2>1, <2>2 DEF LeftoversTracked
<1>11. TypeOK'
  <2>1. /\ req' \in [Requests -> RequestStates] /\ fresh' \in [Requests -> SUBSET Apps]
        /\ astray' \subseteq Paths
    BY <1>0, <1>1, NoReqType DEF TypeOK
  <2>2. abandoned' \subseteq [path : Paths, val : Secrets]
    BY <1>0, <1>1, CallTypes DEF TypeOK
  <2>. QED  BY <2>1, <2>2, <1>0, <1>1, <1>3 DEF TypeOK
<1>. QED  BY <1>5, <1>6, <1>7, <1>8, <1>9, <1>10, <1>11 DEF RegistryInv

-----------------------------------------------------------------------------
(* The invariant and what follows from it. *)

\* No cluster, no request at first.
LEMMA RegistryInit == Init => RegistryInv
<1>. SUFFICES ASSUME Init PROVE RegistryInv
  OBVIOUS
<1>1. /\ \A i \in Ids : row[i] = NoRow /\ row[i].ref = "absent"
      /\ \A r \in Requests : req[r] = NoReq /\ req[r].kind = "none" /\ req[r].pc = "idle"
      /\ \A p \in Paths : vault[p] = NoSecret
      /\ \A a \in Apps : target[a] = NoTarget
      /\ abandoned = {}
  BY NoReqType DEF Init
<1>2. TypeOK
  <2>1. /\ row \in [Ids -> Rows] /\ req \in [Requests -> RequestStates]
        /\ vault \in [Paths -> Secrets] /\ target \in [Apps -> Ids \cup {NoTarget}]
        /\ fresh \in [Requests -> SUBSET Apps]
    BY NoReqType DEF Init, Secrets
  <2>. QED  BY <2>1, RegistryConstants DEF TypeOK, Init
<1>3. PendingIsTransient /\ LiveClusterHasSecret /\ KeysUsed
  BY <1>1 DEF PendingIsTransient, LiveClusterHasSecret, KeysUsed, Present
<1>4. RequestShape /\ RemovesGone /\ Stored /\ LeftoversTracked /\ FreshKnown
  BY <1>1 DEF RequestShape, RemovesGone, Stored, LeftoversTracked, FreshKnown, InVault, IsPut
<1>. QED  BY <1>2, <1>3, <1>4 DEF RegistryInv

\* Every step preserves the invariant.
LEMMA RegistryStep == RegistryInv /\ [Next]_vars => RegistryInv'
<1>. SUFFICES ASSUME RegistryInv, [Next]_vars PROVE RegistryInv'
  OBVIOUS
<1>1. ASSUME NEW r \in Requests,
             CreateStarts(r) \/ UpdateStarts(r) \/ DeleteStarts(r) \/ AssignStarts(r)
      PROVE  RegistryInv'
  BY <1>1, CreateStartsInv, OtherStartsInv
<1>2. ASSUME NEW r \in Requests,
             VaultApplies(r) \/ VaultAnswers(r) \/ VaultFails(r) \/ VaultTimesOut(r)
      PROVE  RegistryInv'
  BY <1>2, VaultAppliesInv, VaultAnswersInv, VaultFailsInv
<1>3. ASSUME NEW r \in Requests,
             CreateCommits(r) \/ CreateUndone(r) \/ UpdateCommits(r) \/ DeleteCommits(r)
             \/ AssignCommits(r)
      PROVE  RegistryInv'
  BY <1>3, CreateCommitsInv, CreateUndoneInv, UpdateCommitsInv, DeleteCommitsInv,
     AssignCommitsInv
<1>4. ASSUME NEW c \in abandoned, LateCallEnds(c) PROVE RegistryInv'
  BY <1>4, LateCallInv
<1>5. CASE Restart
  BY <1>5, RestartInv
<1>6. CASE UNCHANGED vars
  BY <1>6 DEF vars, RegistryInv, TypeOK, PendingIsTransient, LiveClusterHasSecret, KeysUsed,
              RequestShape, RemovesGone, Stored, LeftoversTracked, FreshKnown, Present, Gone,
              InVault, IsPut, Cleans
<1>. QED  BY <1>1, <1>2, <1>3, <1>4, <1>5, <1>6 DEF Next

(***************************************************************************)
(* The registry's invariant, for every interleaving of registrations,      *)
(* updates, deletions, assignments, abandoned Vault calls and restarts: no *)
(* half-registered row stays unless a restart interrupted its creation.    *)
(***************************************************************************)
THEOREM RegistryInvariant == Spec => []RegistryInv
BY RegistryInit, RegistryStep, PTL DEF Spec

(***************************************************************************)
(* No order of requests, failures and late writes removes the kubeconfig   *)
(* of a cluster whose row refers to it.                                    *)
(***************************************************************************)
THEOREM LiveClustersKeepSecrets == Spec => []LiveClusterHasSecret
<1>1. RegistryInv => LiveClusterHasSecret
  BY DEF RegistryInv
<1>. QED  BY <1>1, RegistryInvariant, PTL

\* A deletion that still has a secret to remove is a request on that cluster.
LEMMA TrackedExplained == RegistryInv => LeftoversExplained
<1>. SUFFICES ASSUME RegistryInv, NEW p \in Paths, vault[p] # NoSecret, ~Present(p[2]),
                     ~Busy(p[2])
              PROVE  p \in reported \cup astray
  BY DEF LeftoversExplained
<1>1. \A r \in Requests : ~Cleans(r, p)
  BY DEF Cleans, Busy
<1>. QED  BY <1>1 DEF RegistryInv, LeftoversTracked

(***************************************************************************)
(* A secret that outlives its cluster was logged, or written without its   *)
(* request knowing, after the row was gone, or under an undone creation.   *)
(***************************************************************************)
THEOREM LeftoversAlwaysExplained == Spec => []LeftoversExplained
BY RegistryInvariant, TrackedExplained, PTL

\* An application that loses its cluster came after the deletion's check.
RaceOnly ==
    \A a \in Apps : target[a] # NoTarget /\ target'[a] = NoTarget =>
        \E r \in Requests : req[r].id = target[a] /\ a \in fresh[r]

\* Only a deletion and the cleanup of a registration take a cluster from an application.
LEMMA OrphanStep == RegistryInv /\ [Next]_vars => RaceOnly
<1>. SUFFICES ASSUME RegistryInv, [Next]_vars PROVE RaceOnly
  OBVIOUS
<1>0. TypeOK
  BY DEF RegistryInv
<1>1. ASSUME NEW r \in Requests, CreateUndone(r) \/ DeleteCommits(r) PROVE RaceOnly
  <2>1. req[r].kind \in {"create", "delete"} /\ RowDeleted(req[r].id)
    BY <1>1 DEF CreateUndone, DeleteCommits, RegistryInv, RequestShape
  <2>. SUFFICES ASSUME NEW a \in Apps, target[a] # NoTarget, target'[a] = NoTarget
                PROVE  req[r].id = target[a] /\ a \in fresh[r]
    BY DEF RaceOnly
  <2>2. target[a] = req[r].id
    BY <2>1 DEF RowDeleted
  <2>. QED  BY <2>1, <2>2 DEF RegistryInv, FreshKnown
<1>2. ASSUME UNCHANGED target PROVE RaceOnly
  BY <1>2 DEF RaceOnly
<1>3. ASSUME NEW r \in Requests, AssignCommits(r) PROVE RaceOnly
  <2>1. req[r].id \in Ids /\ req[r].id # NoTarget
    BY <1>0, Fields, RegistryConstants
  <2>2. \A a \in Apps : target[a] # NoTarget => target'[a] # NoTarget
    BY <1>3, <2>1, <1>0 DEF AssignCommits, TypeOK
  <2>. QED  BY <2>2 DEF RaceOnly
<1>4. ASSUME NEW r \in Requests,
             \/ CreateStarts(r) \/ UpdateStarts(r) \/ DeleteStarts(r) \/ AssignStarts(r)
             \/ VaultApplies(r) \/ VaultAnswers(r) \/ VaultFails(r) \/ VaultTimesOut(r)
             \/ CreateCommits(r) \/ UpdateCommits(r)
      PROVE  UNCHANGED target
  BY <1>4 DEF CreateStarts, UpdateStarts, DeleteStarts, AssignStarts, Begin, VaultApplies,
              VaultAnswers, VaultFails, VaultTimesOut, CreateCommits, UpdateCommits
<1>5. (\E c \in abandoned : LateCallEnds(c)) \/ Restart \/ UNCHANGED vars => UNCHANGED target
  BY DEF LateCallEnds, Restart, vars
<1>. QED  BY <1>1, <1>2, <1>3, <1>4, <1>5 DEF Next

(***************************************************************************)
(* The deletion's guard can only be passed in a race: an application that  *)
(* loses its cluster was assigned while the request was under way.         *)
(***************************************************************************)
THEOREM OrphansOnlyInRaces == Spec => OrphansAreRaces
<1>1. [][Next]_vars /\ []RegistryInv => [][RaceOnly]_vars
  BY OrphanStep, PTL
<1>. QED  BY <1>1, RegistryInvariant, PTL DEF Spec, OrphansAreRaces, RaceOnly
=============================================================================
