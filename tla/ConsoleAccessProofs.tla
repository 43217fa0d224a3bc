------------------------- MODULE ConsoleAccessProofs -------------------------
(***************************************************************************)
(* Proofs about ConsoleAccess: the invariants of its run, that Maintainers *)
(* keep their accounts, and that the accounts are made as ConsoleAccounts  *)
(* promises, for any users, requests, levels and bounds.                   *)
(***************************************************************************)
EXTENDS ConsoleAccess, TLAPS

\* What the steps preserve; AccountsJustified follows from RevocationDue.
Ind == /\ TypeOK /\ ProcShape /\ GrantsInOrder /\ LossesKnown /\ GrantsJustified
       /\ RevocationDue /\ DeletionsDue

-----------------------------------------------------------------------------
(***************************************************************************)
(* Types.                                                                  *)
(***************************************************************************)

\* A process state is well typed when its fields are.
LEMMA StateIs ==
    ASSUME NEW q \in ProcStates
    PROVE  /\ q.pc \in {"idle"} \cup Sessions \cup Revokers \cup Granters
           /\ q.kind \in {"none", "sync", "member", "demote", "deactivate", "grant"}
           /\ q.u \in Users \cup {Nobody} /\ q.env \in Envs /\ q.todo \in SUBSET Tables
           /\ q.list \in Lists /\ q.ready \in SUBSET Tables
           /\ q.seen \in RowTables /\ q.mine \in RowTables
           /\ q.found \in BOOLEAN /\ q.pairs \in SUBSET Users
  BY DEF ProcStates

\* The rows, lists and the idle state a process starts with are well typed.
LEMMA IdleIs == /\ NoRow \in Rows /\ Empty \in RowTables /\ Nothing \in Lists
                /\ Idle \in ProcStates
  <1>1. NoRow \in Rows
    BY DEF NoRow, Rows
  <1>2. Empty \in RowTables
    BY <1>1 DEF Empty, RowTables
  <1>3. Nothing \in Lists
    BY DEF Nothing, Lists
  <1>4. Idle \in ProcStates
    BY <1>2, <1>3 DEF Idle, ProcStates, Envs
  <1> QED
    BY <1>1, <1>2, <1>3, <1>4

\* What a synchronisation makes of a row is a row.
LEMMA SyncedIs ==
    ASSUME NEW t \in Tables, NEW u \in Users, NEW x \in Rows, NEW l \in Levels \cup {NoLevel},
           user \in [Users -> People]
    PROVE  Synced(t, u, x, l) \in Rows
  <1>1. x.status \in {"absent", "active", "left"} /\ x.level \in Levels \cup {NoLevel}
        /\ x.link \in BOOLEAN
    BY DEF Rows
  <1>2. user[u].gl \in BOOLEAN
    BY DEF People
  <1>3. [x EXCEPT !.status = "left"] \in Rows
    BY DEF Rows
  <1>4. (x.link \/ (t \in Scopes /\ user[u].gl)) \in BOOLEAN
    BY <1>1, <1>2
  <1>5. [status |-> "active", level |-> l, link |-> x.link \/ (t \in Scopes /\ user[u].gl)] \in Rows
    BY <1>4 DEF Rows
  <1> QED
    BY <1>3, <1>5 DEF Synced

\* The columns a session writes make a row.
LEMMA MergedIs ==
    ASSUME NEW x \in Rows, NEW y \in Rows, NEW z \in Rows
    PROVE  Merged(x, y, z) \in Rows
  BY DEF Merged, Column, Rows

\* What a session has seen and made of the rows has their type.
LEMMA ReadIs ==
    ASSUME NEW q \in ProcStates, row \in RowTables, user \in [Users -> People]
    PROVE  SeenBy(q) \in RowTables /\ MadeBy(q) \in RowTables
  <1>1. q.seen \in RowTables /\ q.mine \in RowTables /\ q.list \in Lists
    BY StateIs
  <1>2. SeenBy(q) \in RowTables
    BY <1>1 DEF SeenBy, RowTables
  <1>3. ASSUME NEW t \in Tables, NEW u \in Users
        PROVE  Synced(t, u, row[t][u], q.list[t][u]) \in Rows
    <2>1. row[t][u] \in Rows /\ q.list[t][u] \in Levels \cup {NoLevel}
      BY <1>1 DEF RowTables, Lists
    <2> QED
      BY <2>1, SyncedIs
  <1>4. ASSUME NEW t \in Tables
        PROVE  [u \in Users |-> IF u \in Touched(q) THEN Synced(t, u, row[t][u], q.list[t][u])
                                ELSE row[t][u]] \in [Users -> Rows]
    BY <1>3 DEF RowTables
  <1>5. MadeBy(q) \in RowTables
    BY <1>1, <1>4 DEF MadeBy, RowTables
  <1> QED
    BY <1>2, <1>5

\* The helpers on process states keep the type.
LEMMA StepsAre ==
    ASSUME NEW q \in ProcStates
    PROVE  /\ After(q) \in ProcStates
           /\ ToRevoke(q) \in ProcStates
           /\ \A u \in Users : Done(q, u) \in ProcStates
           /\ AfterDelete(q) \in ProcStates \/ q.u \notin Users
           /\ \A T \in SUBSET Tables : gitlab \in Lists => Fetched(q, T) \in ProcStates
  <1>1. After(q) \in ProcStates
    BY DEF After, ProcStates, Sessions
  <1>2. ToRevoke(q) \in ProcStates
    BY IdleIs DEF ToRevoke, ProcStates, Revokers
  <1>3. \A u \in Users : Done(q, u) \in ProcStates
    BY IdleIs DEF Done, ProcStates, Revokers
  <1>4. AfterDelete(q) \in ProcStates \/ q.u \notin Users
    BY <1>3 DEF AfterDelete, ProcStates, Envs
  <1>5. ASSUME NEW T \in SUBSET Tables, gitlab \in Lists
        PROVE  Fetched(q, T) \in ProcStates
    <2> DEFINE L == [t \in Tables |-> IF t \in T THEN gitlab[t] ELSE Nothing[t]]
    <2>1. L \in Lists
      BY <1>5, IdleIs DEF Lists
    <2>2. NextTables(q) \in SUBSET Tables
      BY DEF NextTables, Tables, Scopes
    <2> HIDE DEF L
    <2>3. Fetched(q, T) = [q EXCEPT !.todo = @ \ NextTables(q), !.ready = NextTables(q),
                                    !.pc = "read", !.list = L]
      BY DEF Fetched, L
    <2> QED
      BY <2>1, <2>2, <2>3 DEF ProcStates, Sessions
  <1> QED
    BY <1>1, <1>2, <1>3, <1>4, <1>5

-----------------------------------------------------------------------------
(***************************************************************************)
(* Steps that change one process and nothing the tiers are made of.        *)
(***************************************************************************)

SameTiers == /\ UNCHANGED row
             /\ \A u \in Users : /\ user'[u].active = user[u].active
                                 /\ user'[u].admin = user[u].admin

\* Rows and flags that stay leave every tier as it is.
LEMMA TiersStay ==
    ASSUME SameTiers
    PROVE  \A u \in Users : /\ ConsoleTier(u)' <=> ConsoleTier(u)
                            /\ MayEnter(u)' <=> MayEnter(u)
                            /\ Keeps(u)' <=> Keeps(u)
  <1> SUFFICES ASSUME NEW u \in Users
               PROVE  /\ ConsoleTier(u)' <=> ConsoleTier(u)
                      /\ MayEnter(u)' <=> MayEnter(u)
                      /\ Keeps(u)' <=> Keeps(u)
    OBVIOUS
  <1>1. ConsoleTier(u)' <=> ConsoleTier(u)
    BY DEF ConsoleTier, SameTiers
  <1>2. user'[u].active = user[u].active /\ user'[u].admin = user[u].admin
    BY DEF SameTiers
  <1> QED
    BY <1>1, <1>2 DEF MayEnter, Keeps

\* What the new state of a process must satisfy when nothing else changes: its
\* own part of each invariant, and it drops no revocation that is due.
Fits(p, q) ==
    /\ Shaped(q) /\ Ordered(q) /\ KnowsLosses(q)
    /\ q.kind = "grant" /\ Without({"race"}) => MayEnter(q.u)
    /\ Without({"regained"}) => \A u \in Users : Deletes(q, u) => ~Keeps(u)
    /\ Without({"kept", "crash", "race", "stale"})' =>
          \A u \in Users, e \in Envs :
              WillRevoke(proc[p], u, e) => MayEnter(u) \/ WillRevoke(q, u, e)

\* The step of a process that fits preserves the invariant.
LEMMA QuietStep ==
    ASSUME Ind, TypeOK', NEW p \in Procs, NEW q \in ProcStates, Goes(p, q), Fits(p, q),
           SameTiers, UNCHANGED account, mishaps \subseteq mishaps'
    PROVE  Ind'
  <1>1. /\ proc'[p] = q
        /\ \A x \in Procs : x # p => proc'[x] = proc[x]
    BY DEF Ind, TypeOK, Goes
  <1>2. ProcShape'
    BY <1>1 DEF Ind, Fits, ProcShape
  <1>3. GrantsInOrder'
    <2> SUFFICES ASSUME NEW x \in Procs PROVE Ordered(proc[x])'
      BY DEF GrantsInOrder
    <2>1. CASE x = p
      BY <1>1, <2>1 DEF Fits, Ordered
    <2>2. CASE x # p
      BY <1>1, <2>2 DEF Ind, GrantsInOrder, Ordered
    <2> QED
      BY <2>1, <2>2
  <1>4. LossesKnown'
    BY <1>1 DEF Ind, Fits, LossesKnown
  <1>5. GrantsJustified'
    <2> SUFFICES ASSUME Without({"race"})', NEW u \in Users, Granting(u)'
                 PROVE  MayEnter(u)'
      BY DEF GrantsJustified
    <2>1. Without({"race"})
      BY DEF Without
    <2>2. PICK x \in Procs : proc'[x].kind = "grant" /\ proc'[x].u = u
      BY DEF Granting
    <2>3. MayEnter(u)
      <3>1. CASE x = p
        BY <1>1, <2>1, <2>2, <3>1 DEF Fits
      <3>2. CASE x # p
        BY <1>1, <2>1, <2>2, <3>2 DEF Ind, GrantsJustified, Granting
      <3> QED
        BY <3>1, <3>2
    <2> QED
      BY <2>3, TiersStay
  <1>6. RevocationDue'
    <2> SUFFICES ASSUME Without({"kept", "crash", "race", "stale"})', NEW u \in Users,
                        NEW e \in Envs, account'[u][e] # 0
                 PROVE  MayEnter(u)' \/ \E x \in Procs : WillRevoke(proc[x], u, e)'
      BY DEF RevocationDue
    <2>1. Without({"kept", "crash", "race", "stale"}) /\ account[u][e] # 0
      BY DEF Without
    <2>2. CASE MayEnter(u)
      BY <2>2, TiersStay
    <2>3. CASE ~MayEnter(u)
      <3>1. PICK x \in Procs : WillRevoke(proc[x], u, e)
        BY <2>1, <2>3 DEF Ind, RevocationDue
      <3>2. WillRevoke(proc'[x], u, e)
        BY <1>1, <2>1, <2>3, <3>1 DEF Fits
      <3>3. user'[u].active = user[u].active
        BY DEF SameTiers
      <3>4. WillRevoke(proc[x], u, e)'
        BY <3>2, <3>3 DEF WillRevoke
      <3> QED
        BY <3>4
    <2> QED
      BY <2>2, <2>3
  <1>7. DeletionsDue'
    <2> SUFFICES ASSUME Without({"regained"})', NEW x \in Procs, NEW u \in Users,
                        Deletes(proc'[x], u)
                 PROVE  ~Keeps(u)'
      BY DEF DeletionsDue, Deletes
    <2>1. Without({"regained"})
      BY DEF Without
    <2>2. ~Keeps(u)
      BY <1>1, <2>1 DEF Ind, Fits, DeletionsDue
    <2> QED
      BY <2>2, TiersStay
  <1> QED
    BY <1>2, <1>3, <1>4, <1>5, <1>6, <1>7 DEF Ind

\* A process with nothing to grant, commit or revoke fits anywhere.
LEMMA IdleFits ==
    ASSUME NEW p \in Procs, proc[p].pc \notin Revokers
    PROVE  Fits(p, Idle)
  BY DEF Fits, Idle, Shaped, Ordered, KnowsLosses, Deletes, WillRevoke, Granters, Revokers,
         Sessions

\* A session that has lost nothing unknown fits where nothing was revoked.
LEMMA SessionFits ==
    ASSUME NEW p \in Procs, NEW q \in ProcStates, proc[p].pc \notin Revokers,
           q.pc \in Sessions, q.kind \notin {"grant", "deactivate"}, KnowsLosses(q)
    PROVE  Fits(p, q)
  BY DEF Fits, Shaped, Ordered, Deletes, WillRevoke, Granters, Revokers, Sessions

-----------------------------------------------------------------------------
(***************************************************************************)
(* Synchronisation.                                                        *)
(***************************************************************************)

\* The process states reachable by a session are no grants or deactivations.
LEMMA SessionKind ==
    ASSUME NEW q \in ProcStates, Shaped(q), q.pc \in Sessions
    PROVE  q.kind \notin {"grant", "deactivate"} /\ q.pc \notin Revokers
  BY DEF Shaped, Sessions, Revokers, Granters

\* What is not yet read is no loss.
LEMMA NothingLost ==
    ASSUME NEW q, q.seen = Empty, q.mine = Empty
    PROVE  KnowsLosses(q)
  BY DEF KnowsLosses

\* SyncBegins keeps the invariant.
LEMMA SyncBeginsKeeps ==
    ASSUME Ind, NEW p \in Procs, SyncBegins(p)
    PROVE  Ind'
  <1>1. PICK f \in Discovered :
          /\ IF f THEN UNCHANGED <<started, upsets>> ELSE Upset
          /\ Goes(p, [Idle EXCEPT !.kind = "sync", !.pc = "fetch", !.found = f,
                                  !.todo = IF f THEN Tables ELSE Tables \ {"group"}])
    BY DEF SyncBegins
  <1> DEFINE q == [Idle EXCEPT !.kind = "sync", !.pc = "fetch", !.found = f,
                                  !.todo = IF f THEN Tables ELSE Tables \ {"group"}]
  <1>2. f \in BOOLEAN
    BY <1>1 DEF Discovered, Ind, TypeOK
  <1>3. q \in ProcStates
    BY <1>2, IdleIs DEF ProcStates, Sessions
  <1>4. q.pc = "fetch" /\ q.kind = "sync" /\ q.seen = Empty /\ q.mine = Empty
    BY DEF Idle
  <1>5. Goes(p, q)
    BY <1>1
  <1> HIDE DEF q
  <1>6. TypeOK'
    BY <1>1, <1>3, <1>5, ConsoleConstants DEF Ind, TypeOK, SyncBegins, Goes, Upset
  <1>7. Fits(p, q)
    BY <1>3, <1>4, NothingLost, SessionFits DEF SyncBegins, Sessions, Revokers
  <1>8. SameTiers /\ UNCHANGED account /\ mishaps \subseteq mishaps'
    BY DEF SyncBegins, SameTiers
  <1> QED
    BY <1>3, <1>5, <1>6, <1>7, <1>8, QuietStep

\* UserSyncBegins keeps the invariant: a GitLab id changes no tier by itself.
LEMMA UserSyncBeginsKeeps ==
    ASSUME Ind, NEW p \in Procs, UserSyncBegins(p)
    PROVE  Ind'
  <1>1. PICK u \in Users :
          /\ user' \in {LoggedIn(u), user}
          /\ \E g \in {gitlab["group"][u] # NoLevel, FALSE} :
             Goes(p, After([Idle EXCEPT !.kind = "sync", !.found = g, !.todo =
                 (IF g THEN {"group"} ELSE {}) \cup
                 (IF g \/ row["project"][u].link THEN {"project", "invites"} ELSE {})]))
    BY DEF UserSyncBegins
  <1>2. PICK g \in {gitlab["group"][u] # NoLevel, FALSE} :
             Goes(p, After([Idle EXCEPT !.kind = "sync", !.found = g, !.todo =
                 (IF g THEN {"group"} ELSE {}) \cup
                 (IF g \/ row["project"][u].link THEN {"project", "invites"} ELSE {})]))
    BY <1>1
  <1> DEFINE T == (IF g THEN {"group"} ELSE {}) \cup
                 (IF g \/ row["project"][u].link THEN {"project", "invites"} ELSE {})
             b == [Idle EXCEPT !.kind = "sync", !.found = g, !.todo = T]
  <1>3. T \in SUBSET Tables /\ g \in BOOLEAN
    BY <1>2 DEF Tables, Scopes
  <1>4. Goes(p, After(b))
    BY <1>2
  <1> HIDE DEF T
  <1>5. b \in ProcStates /\ b.kind = "sync" /\ b.seen = Empty /\ b.mine = Empty
    BY <1>3, IdleIs DEF ProcStates, Idle
  <1> HIDE DEF b
  <1> DEFINE q == After(b)
  <1>6. q \in ProcStates
    BY <1>5, StepsAre
  <1>7. q.pc \in {"fetch", "commit"} /\ q.kind = "sync" /\ q.seen = Empty /\ q.mine = Empty
    BY <1>5 DEF After, ProcStates
  <1> HIDE DEF q
  <1>8. user' \in [Users -> People] /\ SameTiers
    <2>1. user \in [Users -> People]
      BY DEF Ind, TypeOK
    <2>2. LoggedIn(u) \in [Users -> People]
      BY <2>1 DEF LoggedIn, People
    <2>3. \A w \in Users : /\ LoggedIn(u)[w].active = user[w].active
                           /\ LoggedIn(u)[w].admin = user[w].admin
      BY <2>1 DEF LoggedIn, People
    <2> QED
      BY <1>1, <2>1, <2>2, <2>3 DEF SameTiers, UserSyncBegins
  <1>9. TypeOK'
    BY <1>4, <1>6, <1>8, ConsoleConstants DEF Ind, TypeOK, UserSyncBegins, Goes, Started, q
  <1>10. Fits(p, q)
    BY <1>6, <1>7, NothingLost, SessionFits DEF UserSyncBegins, Sessions, Revokers
  <1>11. UNCHANGED account /\ mishaps \subseteq mishaps'
    BY DEF UserSyncBegins
  <1> QED
    BY <1>4, <1>6, <1>8, <1>9, <1>10, <1>11, QuietStep DEF q

\* MemberBegins keeps the invariant.
LEMMA MemberBeginsKeeps ==
    ASSUME Ind, NEW p \in Procs, MemberBegins(p)
    PROVE  Ind'
  <1>1. PICK t \in {"project", "invites"}, u \in Users, l \in Levels :
          /\ gitlab' = InGitLab(t, u, l)
          /\ Goes(p, [Idle EXCEPT !.kind = "member", !.pc = "read", !.u = u, !.ready = {t},
                                  !.list[t][u] = l])
    BY DEF MemberBegins
  <1> DEFINE q == [Idle EXCEPT !.kind = "member", !.pc = "read", !.u = u, !.ready = {t},
                               !.list[t][u] = l]
             L == [Nothing EXCEPT ![t][u] = l]
  <1>2. t \in Tables
    BY DEF Tables, Scopes
  <1>3. L \in Lists
    BY <1>2, IdleIs DEF Lists
  <1> HIDE DEF L
  <1>4. q = [Idle EXCEPT !.kind = "member", !.pc = "read", !.u = u, !.ready = {t}, !.list = L]
    BY DEF Idle, L
  <1>5. q \in ProcStates
    BY <1>2, <1>3, <1>4, IdleIs DEF ProcStates, Sessions
  <1>6. q.pc = "read" /\ q.kind = "member" /\ q.seen = Empty /\ q.mine = Empty
    BY <1>4 DEF Idle
  <1>7. Goes(p, q)
    BY <1>1
  <1> HIDE DEF q
  <1>8. gitlab' \in Lists
    BY <1>1, <1>2 DEF InGitLab, Lists, Ind, TypeOK
  <1>9. TypeOK'
    BY <1>5, <1>7, <1>8, ConsoleConstants DEF Ind, TypeOK, MemberBegins, Goes, Started
  <1>10. Fits(p, q)
    BY <1>5, <1>6, NothingLost, SessionFits DEF MemberBegins, Sessions, Revokers
  <1>11. SameTiers /\ UNCHANGED account /\ mishaps \subseteq mishaps'
    BY DEF MemberBegins, SameTiers
  <1> QED
    BY <1>5, <1>7, <1>9, <1>10, <1>11, QuietStep

\* Fetches and FetchFails leave what the session has seen and made.
LEMMA FetchStepKeeps ==
    ASSUME Ind, NEW p \in Procs, Fetches(p) \/ FetchFails(p)
    PROVE  Ind'
  <1> DEFINE o == proc[p]
             b == [o EXCEPT !.todo = @ \ NextTables(o)]
  <1>1. o \in ProcStates /\ gitlab \in Lists /\ o.pc = "fetch" /\ Shaped(o) /\ KnowsLosses(o)
    BY DEF Ind, TypeOK, ProcShape, LossesKnown, Fetches, FetchFails
  <1>2. PICK q \in {Fetched(o, NextTables(o)), Fetched(o, {"project"}), After(b)} : Goes(p, q)
    BY DEF Fetches, FetchFails
  <1>3. {"project"} \in SUBSET Tables /\ NextTables(o) \in SUBSET Tables
    BY DEF NextTables, Tables, Scopes
  <1>4. b \in ProcStates /\ b.kind = o.kind /\ b.seen = o.seen /\ b.mine = o.mine
        /\ b.pairs = o.pairs
    BY <1>1 DEF ProcStates
  <1>5. q \in ProcStates
    BY <1>1, <1>2, <1>3, <1>4, StepsAre
  <1>6. /\ q.pc \in Sessions /\ q.kind = o.kind /\ q.seen = o.seen /\ q.mine = o.mine
        /\ q.pairs = o.pairs
    <2>1. CASE q = After(b)
      <3> HIDE DEF b
      <3> QED
        BY <1>4, <2>1 DEF After, ProcStates, Sessions
    <2>2. CASE \E T \in SUBSET Tables : q = Fetched(o, T)
      <3> HIDE DEF o
      <3> QED
        BY <1>1, <2>2 DEF Fetched, ProcStates, Sessions
    <2> QED
      BY <1>2, <1>3, <2>1, <2>2
  <1>7. KnowsLosses(q)
    BY <1>1, <1>6 DEF KnowsLosses, Sessions
  <1>8. Fits(p, q)
    BY <1>1, <1>5, <1>6, <1>7, SessionFits, SessionKind DEF Sessions
  <1>9. TypeOK'
    BY <1>2, <1>5, ConsoleConstants DEF Ind, TypeOK, Fetches, FetchFails, Goes, Upset
  <1>10. SameTiers /\ UNCHANGED account /\ mishaps \subseteq mishaps'
    BY DEF Fetches, FetchFails, SameTiers
  <1> QED
    BY <1>2, <1>5, <1>8, <1>9, <1>10, QuietStep

\* A row that opened the console and no longer does is noticed.
LEMMA LossNoticed ==
    ASSUME NEW t \in Tables, NEW u \in Users, NEW x \in Rows, NEW l \in Levels \cup {NoLevel},
           user \in [Users -> People], Opens(x), ~Opens(Synced(t, u, x, l))
    PROVE  LosesConsoleTier(x, Synced(t, u, x, l))
  <1> DEFINE y == Synced(t, u, x, l)
  <1>1. x.status = "active" /\ x.link /\ level_grants_console(x.level)
    BY DEF Opens
  <1>2. CASE l # NoLevel
    <2>1. y.status = "active" /\ y.level = l
      BY <1>2 DEF Synced
    <2>2. y.link
      BY <1>1, <1>2 DEF Synced
    <2>3. ~level_grants_console(y.level)
      BY <2>1, <2>2 DEF Opens
    <2> QED
      BY <1>1, <2>2, <2>3 DEF LosesConsoleTier
  <1>3. CASE l = NoLevel
    <2>1. y = [x EXCEPT !.status = "left"]
      BY <1>1, <1>3 DEF Synced
    <2>2. y.status = "left" /\ y.link
      BY <1>1, <2>1 DEF Rows
    <2> QED
      BY <1>1, <2>2 DEF LosesConsoleTier
  <1> QED
    BY <1>2, <1>3

\* Reads keeps the invariant: the pairs grow by the losses of the new rows.
LEMMA ReadsKeeps ==
    ASSUME Ind, NEW p \in Procs, Reads(p)
    PROVE  Ind'
  <1> DEFINE o == proc[p]
             N == o.pairs \cup Lost(o.ready, SeenBy(o), MadeBy(o))
             b == [o EXCEPT !.seen = SeenBy(o), !.mine = MadeBy(o), !.list = Nothing,
                            !.ready = {}, !.pairs = N]
             q == After(b)
  <1>1. /\ o \in ProcStates /\ o.pc = "read" /\ Shaped(o) /\ KnowsLosses(o)
        /\ row \in RowTables /\ user \in [Users -> People]
    BY DEF Ind, TypeOK, ProcShape, LossesKnown, Reads
  <1>2. Goes(p, q)
    BY DEF Reads
  <1> HIDE DEF o
  <1>3. SeenBy(o) \in RowTables /\ MadeBy(o) \in RowTables
    BY <1>1, ReadIs
  <1>4. N \in SUBSET Users
    BY <1>1, StateIs DEF Lost
  <1> HIDE DEF N
  <1>5. /\ b \in ProcStates /\ b.seen = SeenBy(o) /\ b.mine = MadeBy(o) /\ b.pairs = N
        /\ b.kind = o.kind
    BY <1>1, <1>3, <1>4, IdleIs DEF ProcStates
  <1> HIDE DEF b
  <1>6. q \in ProcStates
    BY <1>5, StepsAre
  <1>7. /\ q.pc \in Sessions /\ q.seen = SeenBy(o) /\ q.mine = MadeBy(o) /\ q.pairs = N
        /\ q.kind = o.kind
    BY <1>5 DEF After, ProcStates, Sessions
  <1> HIDE DEF q
  <1>8. ASSUME NEW s \in Scopes, NEW u \in Users,
               Opens(q.seen[s][u]), ~Opens(q.mine[s][u])
        PROVE  u \in q.pairs
    <2>1. s \in Tables
      BY DEF Tables
    <2>2. CASE s \notin o.ready
      <3>1. SeenBy(o)[s][u] = o.seen[s][u] /\ MadeBy(o)[s][u] = o.mine[s][u]
        BY <2>1, <2>2 DEF SeenBy, MadeBy
      <3>2. u \in o.pairs
        BY <1>1, <1>7, <1>8, <3>1 DEF KnowsLosses, Sessions
      <3> QED
        BY <1>7, <3>2 DEF N
    <2>3. CASE s \in o.ready
      <3>1. SeenBy(o)[s][u] = row[s][u]
        BY <2>1, <2>3 DEF SeenBy
      <3>2. MadeBy(o)[s][u] = IF u \in Touched(o) THEN Synced(s, u, row[s][u], o.list[s][u])
                              ELSE row[s][u]
        BY <2>1, <2>3 DEF MadeBy
      <3>3. MadeBy(o)[s][u] = Synced(s, u, row[s][u], o.list[s][u])
        BY <1>7, <1>8, <3>1, <3>2
      <3>4. row[s][u] \in Rows /\ o.list[s][u] \in Levels \cup {NoLevel}
        BY <1>1, <2>1, StateIs DEF RowTables, Lists
      <3>5. LosesConsoleTier(SeenBy(o)[s][u], MadeBy(o)[s][u])
        BY <1>1, <1>7, <1>8, <2>1, <3>1, <3>3, <3>4, LossNoticed
      <3>6. u \in Lost(o.ready, SeenBy(o), MadeBy(o))
        BY <2>3, <3>5 DEF Lost
      <3> QED
        BY <1>7, <3>6 DEF N
    <2> QED
      BY <2>2, <2>3
  <1>9. KnowsLosses(q)
    BY <1>8 DEF KnowsLosses
  <1>10. Fits(p, q)
    BY <1>1, <1>6, <1>7, <1>9, SessionFits, SessionKind DEF Sessions, o
  <1>11. TypeOK'
    BY <1>2, <1>6 DEF Ind, TypeOK, Reads, Goes
  <1>12. SameTiers /\ UNCHANGED account /\ mishaps \subseteq mishaps'
    BY DEF Reads, SameTiers
  <1> QED
    BY <1>2, <1>6, <1>10, <1>11, <1>12, QuietStep

-----------------------------------------------------------------------------
(***************************************************************************)
(* Steps that change rows or users.                                        *)
(***************************************************************************)

\* A step of p that changes tiers preserves the invariant if p revokes
\* whoever may no longer enter, and nobody whose tier p gives back.
LEMMA TierStep ==
    ASSUME Ind, TypeOK', NEW p \in Procs, NEW q \in ProcStates, Goes(p, q), NEW K, NoteChange(K),
           UNCHANGED account, Shaped(q), proc[p].pc \notin Revokers,
           q.pc \in {"idle", "revoke"}, q.kind # "grant",
           \A u \in Users : q.kind = "deactivate" /\ u \in q.pairs => ~Keeps(u)',
           Without({"kept", "crash", "race", "stale"})' => \A u \in Users :
               /\ MayEnter(u) /\ ~MayEnter(u)' =>
                      /\ q.pc = "revoke" /\ u \in q.pairs
                      /\ ~user'[u].active => q.kind = "deactivate"
               /\ user[u].active /\ ~user'[u].active =>
                      q.kind = "deactivate" /\ q.pc = "revoke" /\ u \in q.pairs
    PROVE  Ind'
  <1>1. /\ proc'[p] = q
        /\ \A x \in Procs : x # p => proc'[x] = proc[x]
    BY DEF Ind, TypeOK, Goes
  <1>2. /\ mishaps \subseteq mishaps'
        /\ \A u \in Users : MayEnter(u) /\ ~MayEnter(u)' /\ Granting(u) => "race" \in mishaps'
        /\ \A u \in Users : ~Keeps(u) /\ Keeps(u)' /\ Revoking(u) => "regained" \in mishaps'
    BY DEF NoteChange, Note
  <1>3. ProcShape'
    BY <1>1 DEF Ind, ProcShape
  <1>4. GrantsInOrder'
    <2> SUFFICES ASSUME NEW x \in Procs PROVE Ordered(proc[x])'
      BY DEF GrantsInOrder
    <2>1. CASE x = p
      BY <1>1, <2>1 DEF Ordered
    <2>2. CASE x # p
      BY <1>1, <2>2 DEF Ind, GrantsInOrder, Ordered
    <2> QED
      BY <2>1, <2>2
  <1>5. LossesKnown'
    <2>1. KnowsLosses(q)
      BY DEF KnowsLosses, Sessions
    <2> QED
      BY <1>1, <2>1 DEF Ind, LossesKnown
  <1>6. GrantsJustified'
    <2> SUFFICES ASSUME Without({"race"})', NEW u \in Users, Granting(u)'
                 PROVE  MayEnter(u)'
      BY DEF GrantsJustified
    <2>1. Without({"race"}) /\ "race" \notin mishaps'
      BY <1>2 DEF Without
    <2>2. Granting(u)
      BY <1>1 DEF Granting
    <2> QED
      BY <1>2, <2>1, <2>2 DEF Ind, GrantsJustified
  <1>7. RevocationDue'
    <2> SUFFICES ASSUME Without({"kept", "crash", "race", "stale"})', NEW u \in Users,
                        NEW e \in Envs, account'[u][e] # 0, ~MayEnter(u)'
                 PROVE  \E x \in Procs : WillRevoke(proc[x], u, e)'
      BY DEF RevocationDue
    <2>1. Without({"kept", "crash", "race", "stale"}) /\ account[u][e] # 0
      BY <1>2 DEF Without
    <2>2. CASE MayEnter(u) \/ (user[u].active /\ ~user'[u].active)
      <3>1. WillRevoke(proc[p], u, e)'
        BY <1>1, <2>2 DEF WillRevoke, Revokers
      <3> QED
        BY <3>1
    <2>3. CASE ~MayEnter(u) /\ ~(user[u].active /\ ~user'[u].active)
      <3>1. PICK x \in Procs : WillRevoke(proc[x], u, e)
        BY <2>1, <2>3 DEF Ind, RevocationDue
      <3>2. x # p
        BY <3>1 DEF WillRevoke
      <3>3. WillRevoke(proc[x], u, e)'
        BY <1>1, <2>3, <3>1, <3>2 DEF WillRevoke
      <3> QED
        BY <3>3
    <2> QED
      BY <2>2, <2>3
  <1>8. DeletionsDue'
    <2> SUFFICES ASSUME Without({"regained"})', NEW x \in Procs, NEW u \in Users,
                        Deletes(proc'[x], u)
                 PROVE  ~Keeps(u)'
      BY DEF DeletionsDue, Deletes
    <2>1. Without({"regained"}) /\ "regained" \notin mishaps'
      BY <1>2 DEF Without
    <2>2. CASE x = p
      BY <1>1, <2>2 DEF Deletes
    <2>3. CASE x # p
      <3>1. Deletes(proc[x], u)
        BY <1>1, <2>3
      <3>2. ~Keeps(u) /\ Revoking(u)
        BY <2>1, <3>1 DEF Ind, DeletionsDue, Deletes, Revoking
      <3> QED
        BY <1>2, <2>1, <3>2
    <2> QED
      BY <2>2, <2>3
  <1> QED
    BY <1>3, <1>4, <1>5, <1>6, <1>7, <1>8 DEF Ind

\* Commits keeps the invariant: rows nobody overtook change as the session
\* made them, and it revokes whoever loses the tier by that.
LEMMA CommitsKeeps ==
    ASSUME Ind, NEW p \in Procs, Commits(p)
    PROVE  Ind'
  <1> DEFINE o == proc[p]
             q == ToRevoke(o)
             K == IF Overtaken(o) THEN {"stale"} ELSE {}
  <1>1. /\ o \in ProcStates /\ o.pc = "commit" /\ Shaped(o) /\ KnowsLosses(o)
        /\ row \in RowTables /\ o.seen \in RowTables /\ o.mine \in RowTables
    BY StateIs DEF Ind, TypeOK, ProcShape, LossesKnown, Commits
  <1>2. o.pc \notin Revokers /\ o.kind \notin {"grant", "deactivate"}
    BY <1>1, SessionKind DEF Sessions
  <1>3. CASE Collides(o) /\ Ends(p) /\ UNCHANGED <<row, known, mishaps>>
    <2>1. UNCHANGED <<gitlab, user, account, started, upsets>>
      BY DEF Commits
    <2>2. TypeOK'
      BY <1>3, <2>1, IdleIs DEF Ind, TypeOK, Ends, Goes
    <2>3. SameTiers /\ Goes(p, Idle)
      BY <1>3, <2>1 DEF SameTiers, Ends
    <2>4. Fits(p, Idle)
      BY <1>2, IdleFits
    <2> QED
      BY <1>3, <2>1, <2>2, <2>3, <2>4, IdleIs, QuietStep
  <1>4. CASE /\ row' = [t \in Tables |-> [u \in Users |->
                          Merged(o.seen[t][u], o.mine[t][u], row[t][u])]]
             /\ known' = (known \/ o.found)
             /\ Goes(p, q) /\ UNCHANGED user /\ NoteChange(K)
    <2>1. UNCHANGED <<gitlab, user, account, started, upsets>>
      BY DEF Commits
    <2>2. q \in ProcStates
      BY <1>1, StepsAre
    <2>3. row' \in RowTables
      <3>1. ASSUME NEW t \in Tables, NEW u \in Users
            PROVE  Merged(o.seen[t][u], o.mine[t][u], row[t][u]) \in Rows
        <4>1. o.seen[t][u] \in Rows /\ o.mine[t][u] \in Rows /\ row[t][u] \in Rows
          BY <1>1 DEF RowTables
        <4> QED
          BY <4>1, MergedIs
      <3> QED
        BY <1>4, <3>1 DEF RowTables
    <2>4. mishaps' \subseteq Kinds
      BY <1>4 DEF NoteChange, Note, Kinds, Ind, TypeOK
    <2>5. known' \in BOOLEAN
      BY <1>1, <1>4, StateIs
    <2>6. TypeOK'
      BY <1>4, <2>1, <2>2, <2>3, <2>4, <2>5 DEF Ind, TypeOK, Goes
    <2>7. /\ q.pc = IF o.pairs = {} THEN "idle" ELSE "revoke"
          /\ q.pairs = o.pairs
          /\ q.kind = IF o.pairs = {} THEN "none" ELSE o.kind
      BY DEF ToRevoke, Idle
    <2> HIDE DEF q
    <2>8. Shaped(q)
      BY <1>2, <2>7 DEF Shaped, Granters
    <2>9. ASSUME "stale" \notin mishaps', NEW u \in Users, MayEnter(u), ~MayEnter(u)'
          PROVE  u \in o.pairs /\ user'[u].active
      <3>1. ~Overtaken(o)
        BY <1>4, <2>9 DEF NoteChange, Note
      <3>2. user'[u].active /\ ConsoleTier(u) /\ ~ConsoleTier(u)'
        BY <2>1, <2>9 DEF MayEnter
      <3>3. PICK s \in Scopes : Opens(row[s][u]) /\ ~Opens(row'[s][u])
        BY <3>2 DEF ConsoleTier
      <3> DEFINE x == o.seen[s][u]
                 y == o.mine[s][u]
                 z == row[s][u]
      <3>4. s \in Tables
        BY DEF Tables
      <3>5. row'[s][u] = Merged(x, y, z)
        BY <1>4, <3>4
      <3> HIDE DEF x, y, z
      <3>6. x # y
        <4> SUFFICES ASSUME x = y PROVE FALSE
          OBVIOUS
        <4>1. /\ Merged(x, y, z).status = z.status
              /\ Merged(x, y, z).level = z.level
              /\ Merged(x, y, z).link = z.link
          BY DEF Merged, Column
        <4> QED
          BY <3>3, <3>5, <4>1 DEF Opens, z
      <3>7. x = z
        BY <3>1, <3>4, <3>6 DEF Overtaken, Dirty, x, y, z
      <3>8. /\ Merged(x, y, z).status = y.status
            /\ Merged(x, y, z).level = y.level
            /\ Merged(x, y, z).link = y.link
        BY <3>7 DEF Merged, Column
      <3>9. Opens(x) /\ ~Opens(y)
        BY <3>3, <3>5, <3>7, <3>8 DEF Opens, z
      <3>10. u \in o.pairs
        BY <1>1, <3>9 DEF KnowsLosses, Sessions, x, y
      <3> QED
        BY <3>2, <3>10
    <2>10. Without({"kept", "crash", "race", "stale"})' => \A u \in Users :
               /\ MayEnter(u) /\ ~MayEnter(u)' =>
                      /\ q.pc = "revoke" /\ u \in q.pairs
                      /\ ~user'[u].active => q.kind = "deactivate"
               /\ user[u].active /\ ~user'[u].active =>
                      q.kind = "deactivate" /\ q.pc = "revoke" /\ u \in q.pairs
      BY <2>1, <2>7, <2>9 DEF Without
    <2>11. q.pc \in {"idle", "revoke"} /\ q.kind \notin {"grant", "deactivate"}
      BY <1>2, <2>7
    <2> HIDE DEF K
    <2> QED
      BY <1>2, <1>4, <2>1, <2>2, <2>6, <2>8, <2>10, <2>11, TierStep
  <1> QED
    BY <1>3, <1>4 DEF Commits

\* PatchBegins keeps the invariant: it revokes whoever it deactivates or
\* demotes.
LEMMA PatchBeginsKeeps ==
    ASSUME Ind, NEW p \in Procs, PatchBegins(p)
    PROVE  Ind'
  <1>1. PICK u \in Users, a \in BOOLEAN, d \in BOOLEAN :
          /\ user' = [user EXCEPT ![u].active = a, ![u].admin = d]
          /\ LET deactivated == user[u].active /\ ~a
                 demoted     == user[u].admin /\ ~d IN
             Goes(p, IF deactivated \/ demoted
                     THEN [Idle EXCEPT !.kind = IF deactivated THEN "deactivate" ELSE "demote",
                                       !.pc = "revoke", !.pairs = {u}]
                     ELSE Idle)
    BY DEF PatchBegins
  <1> DEFINE off == user[u].active /\ ~a
             dem == user[u].admin /\ ~d
             q == IF off \/ dem
                  THEN [Idle EXCEPT !.kind = IF off THEN "deactivate" ELSE "demote",
                                    !.pc = "revoke", !.pairs = {u}]
                  ELSE Idle
  <1>2. Goes(p, q)
    BY <1>1
  <1>3. q \in ProcStates
    BY IdleIs DEF ProcStates, Revokers
  <1>4. /\ off \/ dem => q.pc = "revoke" /\ q.pairs = {u}
                         /\ q.kind = IF off THEN "deactivate" ELSE "demote"
        /\ ~(off \/ dem) => q.pc = "idle" /\ q.pairs = {} /\ q.kind = "none"
    BY DEF Idle
  <1> HIDE DEF q
  <1>5. user \in [Users -> People]
    BY DEF Ind, TypeOK
  <1>6. /\ user' \in [Users -> People] /\ user'[u].active = a /\ user'[u].admin = d
        /\ \A w \in Users : w # u => user'[w] = user[w]
    BY <1>1, <1>5 DEF People
  <1>7. UNCHANGED <<gitlab, row, known, account>> /\ NoteChange({}) /\ Started
        /\ proc[p].pc \notin Revokers
    BY DEF PatchBegins, Revokers
  <1>8. mishaps' \subseteq Kinds
    BY <1>7 DEF NoteChange, Note, Kinds, Ind, TypeOK
  <1>9. TypeOK'
    BY <1>2, <1>3, <1>6, <1>7, <1>8, ConsoleConstants DEF Ind, TypeOK, Goes, Started
  <1>10. Shaped(q)
    BY <1>4 DEF Shaped, Granters, Revokers
  <1>11. \A w \in Users : ConsoleTier(w)' <=> ConsoleTier(w)
    BY <1>7 DEF ConsoleTier
  <1>12. \A w \in Users : q.kind = "deactivate" /\ w \in q.pairs => ~Keeps(w)'
    BY <1>4, <1>6 DEF Keeps
  <1>13. ASSUME NEW w \in Users, MayEnter(w), ~MayEnter(w)'
         PROVE  /\ q.pc = "revoke" /\ w \in q.pairs
                /\ ~user'[w].active => q.kind = "deactivate"
    <2>1. w = u
      BY <1>6, <1>11, <1>13 DEF MayEnter
    <2>2. user[u].active /\ (user[u].admin \/ ConsoleTier(u))
      BY <1>13, <2>1 DEF MayEnter
    <2>3. ~a \/ (~d /\ ~ConsoleTier(u))
      BY <1>6, <1>11, <1>13, <2>1 DEF MayEnter
    <2> QED
      BY <1>4, <1>6, <2>1, <2>2, <2>3
  <1>14. ASSUME NEW w \in Users, user[w].active, ~user'[w].active
         PROVE  q.kind = "deactivate" /\ q.pc = "revoke" /\ w \in q.pairs
    BY <1>4, <1>6, <1>14
  <1>15. q.pc \in {"idle", "revoke"} /\ q.kind # "grant"
    BY <1>4
  <1> QED
    BY <1>2, <1>3, <1>7, <1>9, <1>10, <1>12, <1>13, <1>14, <1>15, TierStep

-----------------------------------------------------------------------------
(***************************************************************************)
(* Revocation.                                                             *)
(***************************************************************************)

\* What Done leaves of a revocation.
LEMMA DoneIs ==
    ASSUME NEW o \in ProcStates, NEW u \in Users
    PROVE  \/ Done(o, u) = Idle /\ o.pairs = {u}
           \/ /\ Done(o, u).pc = "revoke" /\ Done(o, u).kind = o.kind
              /\ Done(o, u).pairs = o.pairs \ {u} /\ o.pairs # {u}
  BY DEF Done, ProcStates

\* A revocation may drop a user who may enter after all, or any user once a
\* call has failed.
LEMMA DoneFits ==
    ASSUME Ind, NEW p \in Procs, NEW u \in Users, proc[p].pc \in Revokers,
           Without({"kept", "crash", "race", "stale"})' =>
               \A e \in Envs : WillRevoke(proc[p], u, e) => MayEnter(u)
    PROVE  Fits(p, Done(proc[p], u))
  <1> DEFINE o == proc[p]
             q == Done(o, u)
  <1>1. o \in ProcStates /\ Shaped(o) /\ o.kind # "grant"
    BY DEF Ind, TypeOK, ProcShape, Shaped, Revokers, Granters
  <1>2. /\ q.pc \in {"idle", "revoke"} /\ q.kind # "grant" /\ q.pairs = o.pairs \ {u}
        /\ q.kind = "deactivate" => o.kind = "deactivate" /\ q.pc = "revoke"
        /\ o.pairs # {u} => q.pc = "revoke" /\ q.kind = o.kind
    <2>1. CASE q = Idle /\ o.pairs = {u}
      BY <2>1 DEF Idle
    <2>2. CASE /\ q.pc = "revoke" /\ q.kind = o.kind
               /\ q.pairs = o.pairs \ {u} /\ o.pairs # {u}
      BY <1>1, <2>2
    <2> QED
      BY <1>1, <2>1, <2>2, DoneIs
  <1> HIDE DEF q
  <1>3. Shaped(q) /\ Ordered(q) /\ KnowsLosses(q)
    BY <1>2 DEF Shaped, Ordered, KnowsLosses, Granters, Revokers, Sessions
  <1>4. ASSUME Without({"regained"}), NEW w \in Users, Deletes(q, w)
        PROVE  ~Keeps(w)
    <2>1. Deletes(o, w)
      BY <1>2, <1>4 DEF Deletes
    <2> QED
      BY <1>4, <2>1 DEF Ind, DeletionsDue
  <1>5. ASSUME Without({"kept", "crash", "race", "stale"})', NEW w \in Users, NEW e \in Envs,
               WillRevoke(o, w, e)
        PROVE  MayEnter(w) \/ WillRevoke(q, w, e)
    <2>1. CASE w = u
      BY <1>5, <2>1
    <2>2. CASE w # u
      BY <1>2, <1>5, <2>2 DEF WillRevoke, Revokers
    <2> QED
      BY <2>1, <2>2
  <1> QED
    BY <1>2, <1>3, <1>4, <1>5 DEF Fits, q

\* ReadsTier keeps the invariant: a user is spared only with a tier, and a
\* deactivated one never.
LEMMA ReadsTierKeeps ==
    ASSUME Ind, NEW p \in Procs, ReadsTier(p)
    PROVE  Ind'
  <1> DEFINE o == proc[p]
  <1>1. /\ o \in ProcStates /\ o.pc = "revoke" /\ Shaped(o) /\ o.pairs \in SUBSET Users
        /\ UNCHANGED <<gitlab, row, known, user, account, started, upsets>>
    BY StateIs DEF Ind, TypeOK, ProcShape, ReadsTier
  <1>2. PICK u \in o.pairs :
          \/ /\ Goes(p, IF Spared(o, u) THEN Done(o, u)
                         ELSE [o EXCEPT !.pc = "delete", !.u = u, !.env = "dev"])
             /\ UNCHANGED mishaps
          \/ Goes(p, Done(o, u)) /\ Note({"kept"})
    BY DEF ReadsTier
  <1>3. u \in Users /\ o.pc \in Revokers
    BY <1>1 DEF Revokers
  <1>4. /\ SameTiers /\ UNCHANGED account /\ mishaps \subseteq mishaps'
        /\ mishaps' \subseteq Kinds
    BY <1>1, <1>2 DEF SameTiers, Note, Ind, TypeOK, Kinds
  <1>5. ASSUME NEW q \in ProcStates, Goes(p, q)
        PROVE  TypeOK'
    BY <1>1, <1>4, <1>5 DEF Ind, TypeOK, Goes
  <1>6. Done(o, u) \in ProcStates
    BY <1>1, <1>3, StepsAre
  <1>7. CASE Goes(p, Done(o, u)) /\ Note({"kept"})
    <2>1. ~Without({"kept", "crash", "race", "stale"})'
      BY <1>7 DEF Note, Without
    <2>2. Fits(p, Done(o, u))
      BY <1>3, <2>1, DoneFits
    <2> QED
      BY <1>4, <1>5, <1>6, <1>7, <2>2, QuietStep
  <1>8. CASE Goes(p, Done(o, u)) /\ Spared(o, u)
    <2>1. \A e \in Envs : WillRevoke(o, u, e) => MayEnter(u)
      BY <1>8 DEF WillRevoke, MayEnter, Spared
    <2>2. Fits(p, Done(o, u))
      BY <1>3, <2>1, DoneFits
    <2> QED
      BY <1>4, <1>5, <1>6, <1>8, <2>2, QuietStep
  <1>9. CASE ~Spared(o, u) /\ Goes(p, [o EXCEPT !.pc = "delete", !.u = u, !.env = "dev"])
    <2> DEFINE q == [o EXCEPT !.pc = "delete", !.u = u, !.env = "dev"]
    <2> HIDE DEF o
    <2>1. /\ q \in ProcStates /\ q.pc = "delete" /\ q.u = u /\ q.env = "dev"
          /\ q.pairs = o.pairs /\ q.kind = o.kind
      BY <1>1, <1>3 DEF ProcStates, Revokers, Envs
    <2>2. Goes(p, q)
      BY <1>9
    <2> HIDE DEF q
    <2>3. o.kind # "grant"
      BY <1>1 DEF Shaped, Granters
    <2>4. Shaped(q) /\ Ordered(q) /\ KnowsLosses(q)
      BY <1>2, <2>1, <2>3 DEF Shaped, Ordered, KnowsLosses, Granters, Revokers, Sessions
    <2>5. ASSUME Without({"regained"}), NEW w \in Users, Deletes(q, w)
          PROVE  ~Keeps(w)
      <3>1. CASE o.kind = "deactivate"
        BY <2>1, <2>5, <3>1 DEF Ind, DeletionsDue, Deletes, o
      <3>2. CASE o.kind # "deactivate"
        BY <1>9, <2>1, <2>5, <3>2 DEF Deletes, Spared, Keeps
      <3> QED
        BY <3>1, <3>2
    <2>6. \A w \in Users, e \in Envs : WillRevoke(o, w, e) => WillRevoke(q, w, e)
      BY <1>1, <2>1 DEF WillRevoke, Revokers
    <2>7. Fits(p, q)
      BY <2>1, <2>3, <2>4, <2>5, <2>6 DEF Fits, o
    <2> QED
      BY <1>4, <1>5, <2>1, <2>2, <2>7, QuietStep
  <1> QED
    BY <1>2, <1>7, <1>8, <1>9

\* What is left to delete after one deletion: the other environment, or the
\* other users.
LEMMA AfterDeleteIs ==
    ASSUME NEW o \in ProcStates, o.pc = "delete", o.u \in o.pairs, Shaped(o)
    PROVE  LET q == AfterDelete(o) IN
           /\ q \in ProcStates /\ Shaped(q) /\ q.kind # "grant"
           /\ q.pc \in {"idle", "revoke", "delete"}
           /\ \A w \in Users : Deletes(q, w) => Deletes(o, w)
           /\ \A w \in Users, f \in Envs :
                 WillRevoke(o, w, f) /\ ~(w = o.u /\ f = o.env) => WillRevoke(q, w, f)
  <1> DEFINE q == AfterDelete(o)
  <1>1. o.u \in Users /\ o.env \in {"dev", "prod"} /\ o.kind # "grant"
    BY StateIs DEF Envs, Shaped, Granters
  <1>2. q \in ProcStates
    BY <1>1, StepsAre
  <1>3. CASE o.env = "dev"
    <2>1. /\ q.pc = "delete" /\ q.kind = o.kind /\ q.pairs = o.pairs /\ q.u = o.u
          /\ q.env = "prod"
      BY <1>3 DEF AfterDelete, ProcStates
    <2> HIDE DEF q
    <2>2. Shaped(q)
      BY <1>1, <2>1 DEF Shaped, Granters, Revokers
    <2>3. \A w \in Users : Deletes(q, w) => Deletes(o, w)
      BY <2>1 DEF Deletes
    <2>4. \A w \in Users, f \in Envs :
                 WillRevoke(o, w, f) /\ ~(w = o.u /\ f = o.env) => WillRevoke(q, w, f)
      BY <1>3, <2>1 DEF WillRevoke, Envs, Revokers
    <2> QED
      BY <1>1, <1>2, <2>1, <2>2, <2>3, <2>4 DEF q
  <1>4. CASE o.env = "prod"
    <2>1. q = Done(o, o.u)
      BY <1>4 DEF AfterDelete
    <2>2. CASE q = Idle /\ o.pairs = {o.u}
      <3>1. q.pc = "idle" /\ q.kind = "none" /\ q.pairs = {}
        BY <2>2 DEF Idle
      <3> HIDE DEF q
      <3>2. Shaped(q)
        BY <3>1 DEF Shaped, Granters
      <3>3. \A w \in Users : Deletes(q, w) => Deletes(o, w)
        BY <3>1 DEF Deletes
      <3>4. \A w \in Users, f \in Envs :
                 WillRevoke(o, w, f) /\ ~(w = o.u /\ f = o.env) => WillRevoke(q, w, f)
        BY <1>4, <2>2 DEF WillRevoke, Envs
      <3> QED
        BY <1>2, <3>1, <3>2, <3>3, <3>4 DEF q
    <2>3. CASE /\ q.pc = "revoke" /\ q.kind = o.kind /\ q.pairs = o.pairs \ {o.u}
      <3> HIDE DEF q
      <3>1. Shaped(q)
        BY <1>1, <2>3 DEF Shaped, Granters, Revokers
      <3>2. \A w \in Users : Deletes(q, w) => Deletes(o, w)
        BY <2>3 DEF Deletes
      <3>3. \A w \in Users, f \in Envs :
                 WillRevoke(o, w, f) /\ ~(w = o.u /\ f = o.env) => WillRevoke(q, w, f)
        BY <1>4, <2>3 DEF WillRevoke, Envs, Revokers
      <3> QED
        BY <1>1, <1>2, <2>3, <3>1, <3>2, <3>3 DEF q
    <2> QED
      BY <1>1, <2>1, <2>2, <2>3, DoneIs
  <1> QED
    BY <1>1, <1>3, <1>4

\* The deletion that succeeds: the account is gone, its grants are stuck.
Deletion(p, o, q) ==
    /\ account' = [account EXCEPT ![o.u][o.env] = 0]
    /\ proc' = [x \in Procs |-> IF x = p THEN q
                                ELSE IF Holds(x, o.u, o.env) THEN [proc[x] EXCEPT !.pc = "gone"]
                                ELSE proc[x]]
    /\ UNCHANGED <<gitlab, row, known, user, started, upsets, mishaps>>

\* What DeletesAccount may do.
LEMMA DeletesAccountIs ==
    ASSUME NEW p \in Procs, DeletesAccount(p)
    PROVE  \/ Deletion(p, proc[p], AfterDelete(proc[p]))
           \/ /\ Goes(p, AfterDelete(proc[p])) /\ Note({"kept"})
              /\ UNCHANGED <<gitlab, row, known, user, account, started, upsets>>
  BY DEF DeletesAccount, Deletion

\* What a deletion does to processes and accounts.
LEMMA DeletionIs ==
    ASSUME TypeOK, NEW p \in Procs, NEW o \in ProcStates, NEW q \in ProcStates, Deletion(p, o, q),
           o.u \in Users
    PROVE  /\ TypeOK'
           /\ proc'[p] = q
           /\ \A x \in Procs \ {p} :
                 \/ proc'[x] = proc[x] /\ ~Holds(x, o.u, o.env)
                 \/ /\ proc[x].pc \in {"roles", "password"} /\ proc'[x].pc = "gone"
                    /\ proc'[x].kind = proc[x].kind /\ proc'[x].u = proc[x].u
                    /\ proc'[x].env = proc[x].env /\ proc'[x].pairs = proc[x].pairs
           /\ account'[o.u][o.env] = 0
           /\ \A w \in Users, f \in Envs :
                 ~(w = o.u /\ f = o.env) => account'[w][f] = account[w][f]
  <1>1. o.env \in Envs /\ account \in [Users -> [Envs -> 0 .. Usable]]
        /\ proc \in [Procs -> ProcStates]
    BY StateIs DEF TypeOK
  <1>2. /\ account' \in [Users -> [Envs -> 0 .. Usable]] /\ account'[o.u][o.env] = 0
        /\ \A w \in Users, f \in Envs :
              ~(w = o.u /\ f = o.env) => account'[w][f] = account[w][f]
    BY <1>1 DEF Deletion, Usable
  <1>3. ASSUME NEW x \in Procs
        PROVE  LET g == [proc[x] EXCEPT !.pc = "gone"] IN
               /\ g \in ProcStates /\ g.pc = "gone" /\ g.kind = proc[x].kind
               /\ g.u = proc[x].u /\ g.env = proc[x].env /\ g.pairs = proc[x].pairs
    BY <1>1 DEF ProcStates, Granters
  <1>4. proc' \in [Procs -> ProcStates]
    BY <1>1, <1>3 DEF Deletion
  <1>5. TypeOK'
    BY <1>2, <1>4 DEF TypeOK, Deletion
  <1>6. ASSUME NEW x \in Procs \ {p}
        PROVE  \/ proc'[x] = proc[x] /\ ~Holds(x, o.u, o.env)
               \/ /\ proc[x].pc \in {"roles", "password"} /\ proc'[x].pc = "gone"
                  /\ proc'[x].kind = proc[x].kind /\ proc'[x].u = proc[x].u
                  /\ proc'[x].env = proc[x].env /\ proc'[x].pairs = proc[x].pairs
    <2>1. CASE Holds(x, o.u, o.env)
      <3>1. proc'[x] = [proc[x] EXCEPT !.pc = "gone"]
        BY <2>1 DEF Deletion
      <3>2. proc[x].pc \in {"roles", "password"}
        BY <2>1 DEF Holds
      <3> QED
        BY <1>3, <3>1, <3>2
    <2>2. CASE ~Holds(x, o.u, o.env)
      BY <2>2 DEF Deletion
    <2> QED
      BY <2>1, <2>2
  <1>7. proc'[p] = q
    BY DEF Deletion
  <1> QED
    BY <1>2, <1>5, <1>6, <1>7

\* DeletesAccount keeps the invariant.
LEMMA DeletesAccountKeeps ==
    ASSUME Ind, NEW p \in Procs, DeletesAccount(p)
    PROVE  Ind'
  <1>1. PICK o \in ProcStates : o = proc[p]
    BY DEF Ind, TypeOK
  <1>2. o.pc = "delete" /\ Shaped(o) /\ o.u \in o.pairs /\ o.u \in Users
    BY <1>1, StateIs DEF Ind, ProcShape, DeletesAccount, Shaped
  <1>3. PICK q \in ProcStates : q = AfterDelete(o)
    BY <1>2, AfterDeleteIs
  <1>4. /\ Shaped(q) /\ q.kind # "grant" /\ q.pc \in {"idle", "revoke", "delete"}
        /\ \A w \in Users : Deletes(q, w) => Deletes(o, w)
        /\ \A w \in Users, f \in Envs :
              WillRevoke(o, w, f) /\ ~(w = o.u /\ f = o.env) => WillRevoke(q, w, f)
    BY <1>2, <1>3, AfterDeleteIs
  <1>5. \A w \in Users : Deletes(q, w) /\ Without({"regained"}) => ~Keeps(w)
    BY <1>1, <1>4 DEF Ind, DeletionsDue
  <1>6. KnowsLosses(q) /\ Ordered(q)
    BY <1>4 DEF KnowsLosses, Ordered, Sessions
  <1>7. CASE /\ Goes(p, q) /\ Note({"kept"})
             /\ UNCHANGED <<gitlab, row, known, user, account, started, upsets>>
    <2>1. ~Without({"kept", "crash", "race", "stale"})' /\ mishaps \subseteq mishaps'
          /\ mishaps' \subseteq Kinds
      BY <1>7 DEF Note, Without, Ind, TypeOK, Kinds
    <2>2. Fits(p, q)
      BY <1>4, <1>5, <1>6, <2>1 DEF Fits
    <2>3. TypeOK'
      BY <1>7, <2>1 DEF Ind, TypeOK, Goes
    <2>4. SameTiers
      BY <1>7 DEF SameTiers
    <2> QED
      BY <1>7, <2>1, <2>2, <2>3, <2>4, QuietStep
  <1>8. CASE Deletion(p, o, q)
    <2>1. /\ TypeOK' /\ proc'[p] = q
          /\ account'[o.u][o.env] = 0
          /\ \A w \in Users, f \in Envs :
                ~(w = o.u /\ f = o.env) => account'[w][f] = account[w][f]
      BY <1>2, <1>8, DeletionIs DEF Ind
    <2>2. ASSUME NEW x \in Procs, x # p
          PROVE  \/ proc'[x] = proc[x] /\ ~Holds(x, o.u, o.env)
                 \/ /\ proc[x].pc \in {"roles", "password"} /\ proc'[x].pc = "gone"
                    /\ proc'[x].kind = proc[x].kind /\ proc'[x].u = proc[x].u
                    /\ proc'[x].env = proc[x].env /\ proc'[x].pairs = proc[x].pairs
      BY <1>2, <1>8, <2>2, DeletionIs DEF Ind
    <2>3. SameTiers /\ UNCHANGED <<user, mishaps>>
      BY <1>8 DEF Deletion, SameTiers
    <2>4. ProcShape'
      <3> SUFFICES ASSUME NEW x \in Procs PROVE Shaped(proc'[x])
        BY DEF ProcShape
      <3>1. Shaped(proc[x])
        BY DEF Ind, ProcShape
      <3>2. CASE x = p
        BY <1>4, <2>1, <3>2
      <3>3. CASE x # p
        BY <2>2, <3>1, <3>3 DEF Shaped, Granters, Revokers
      <3> QED
        BY <3>2, <3>3
    <2>5. GrantsInOrder'
      <3> SUFFICES ASSUME NEW x \in Procs PROVE Ordered(proc[x])'
        BY DEF GrantsInOrder
      <3>1. CASE x = p
        BY <1>4, <2>1, <3>1 DEF Ordered
      <3>2. CASE x # p /\ proc'[x].pc \notin {"roles", "password"}
        BY <3>2 DEF Ordered
      <3>3. CASE x # p /\ proc'[x].pc \in {"roles", "password"}
        <4>1. proc'[x] = proc[x] /\ ~Holds(x, o.u, o.env)
          BY <2>2, <3>3
        <4>2. proc[x].u \in Users /\ proc[x].env \in Envs
          BY <3>3, <4>1, StateIs DEF Ind, TypeOK, ProcShape, Shaped, Granters
        <4>3. account'[proc[x].u][proc[x].env] = account[proc[x].u][proc[x].env]
          BY <2>1, <3>3, <4>1, <4>2 DEF Holds
        <4> QED
          BY <4>1, <4>3 DEF Ind, GrantsInOrder, Ordered
      <3> QED
        BY <3>1, <3>2, <3>3
    <2>6. LossesKnown'
      <3> SUFFICES ASSUME NEW x \in Procs PROVE KnowsLosses(proc'[x])
        BY DEF LossesKnown
      <3>1. KnowsLosses(proc[x])
        BY DEF Ind, LossesKnown
      <3>2. CASE x = p
        BY <1>6, <2>1, <3>2
      <3>3. CASE x # p
        BY <2>2, <3>1, <3>3 DEF KnowsLosses, Sessions
      <3> QED
        BY <3>2, <3>3
    <2>7. GrantsJustified'
      <3> SUFFICES ASSUME Without({"race"})', NEW u \in Users, Granting(u)'
                   PROVE  MayEnter(u)'
        BY DEF GrantsJustified
      <3>1. PICK x \in Procs : proc'[x].kind = "grant" /\ proc'[x].u = u
        BY DEF Granting
      <3>2. x # p
        BY <1>4, <2>1, <3>1
      <3>3. proc[x].kind = "grant" /\ proc[x].u = u
        BY <2>2, <3>1, <3>2
      <3>4. Without({"race"})
        BY <2>3 DEF Without
      <3>5. MayEnter(u)
        BY <3>3, <3>4 DEF Ind, GrantsJustified, Granting
      <3> QED
        BY <2>3, <3>5, TiersStay
    <2>8. RevocationDue'
      <3> SUFFICES ASSUME Without({"kept", "crash", "race", "stale"})', NEW w \in Users,
                          NEW f \in Envs, account'[w][f] # 0
                   PROVE  MayEnter(w)' \/ \E x \in Procs : WillRevoke(proc[x], w, f)'
        BY DEF RevocationDue
      <3>1. Without({"kept", "crash", "race", "stale"}) /\ account[w][f] # 0
            /\ ~(w = o.u /\ f = o.env)
        BY <2>1, <2>3 DEF Without
      <3>2. CASE MayEnter(w)
        BY <2>3, <3>2, TiersStay
      <3>3. CASE ~MayEnter(w)
        <4>1. PICK x \in Procs : WillRevoke(proc[x], w, f)
          BY <3>1, <3>3 DEF Ind, RevocationDue
        <4>2. WillRevoke(proc'[x], w, f)
          <5>1. CASE x = p
            BY <1>1, <1>4, <2>1, <3>1, <4>1, <5>1
          <5>2. CASE x # p
            <6>1. proc[x].pc \notin {"roles", "password"}
              BY <4>1 DEF WillRevoke, Revokers
            <6> QED
              BY <2>2, <4>1, <5>2, <6>1
          <5> QED
            BY <5>1, <5>2
        <4>3. WillRevoke(proc[x], w, f)'
          BY <2>3, <4>2 DEF WillRevoke
        <4> QED
          BY <4>3
      <3> QED
        BY <3>2, <3>3
    <2>9. DeletionsDue'
      <3> SUFFICES ASSUME Without({"regained"})', NEW x \in Procs, NEW u \in Users,
                          Deletes(proc'[x], u)
                   PROVE  ~Keeps(u)'
        BY DEF DeletionsDue, Deletes
      <3>1. Without({"regained"})
        BY <2>3 DEF Without
      <3>2. CASE x = p
        BY <1>5, <2>1, <2>3, <3>1, <3>2, TiersStay
      <3>3. CASE x # p
        <4>1. Deletes(proc[x], u)
          BY <2>2, <3>3 DEF Deletes
        <4>2. ~Keeps(u)
          BY <3>1, <4>1 DEF Ind, DeletionsDue
        <4> QED
          BY <2>3, <4>2, TiersStay
      <3> QED
        BY <3>2, <3>3
    <2> QED
      BY <2>1, <2>4, <2>5, <2>6, <2>7, <2>8, <2>9 DEF Ind
  <1> QED
    BY <1>1, <1>3, <1>7, <1>8, DeletesAccountIs

-----------------------------------------------------------------------------
(***************************************************************************)
(* Grants.                                                                 *)
(***************************************************************************)

\* GrantBegins keeps the invariant: it checks who may enter.
LEMMA GrantBeginsKeeps ==
    ASSUME Ind, NEW p \in Procs, GrantBegins(p)
    PROVE  Ind'
  <1>1. PICK u \in Users, e \in Envs :
          /\ MayEnter(u)
          /\ Goes(p, [Idle EXCEPT !.kind = "grant", !.pc = "make", !.u = u, !.env = e])
    BY DEF GrantBegins
  <1> DEFINE q == [Idle EXCEPT !.kind = "grant", !.pc = "make", !.u = u, !.env = e]
  <1>2. q \in ProcStates /\ q.kind = "grant" /\ q.pc = "make" /\ q.u = u /\ q.pairs = {}
    BY IdleIs DEF ProcStates, Granters, Idle
  <1>3. Goes(p, q)
    BY <1>1
  <1> HIDE DEF q
  <1>4. Shaped(q) /\ Ordered(q) /\ KnowsLosses(q) /\ \A w \in Users : ~Deletes(q, w)
    BY <1>2 DEF Shaped, Ordered, KnowsLosses, Deletes, Granters, Sessions
  <1>5. \A w \in Users, f \in Envs : ~WillRevoke(proc[p], w, f)
    BY DEF WillRevoke, GrantBegins, Revokers
  <1>6. Fits(p, q)
    BY <1>1, <1>2, <1>4, <1>5 DEF Fits
  <1>7. TypeOK'
    BY <1>2, <1>3, ConsoleConstants DEF Ind, TypeOK, GrantBegins, Goes, Started
  <1>8. SameTiers /\ UNCHANGED account /\ mishaps \subseteq mishaps'
    BY DEF GrantBegins, SameTiers
  <1> QED
    BY <1>2, <1>3, <1>6, <1>7, <1>8, QuietStep

AfterGrant(o) == IF o.pc = "password" THEN Idle ELSE [o EXCEPT !.pc = AfterStage(o.pc)]

\* A stage that succeeds: the account has at least that stage.
Raises(p, o) ==
    /\ o.pc \in {"make", "roles", "password"}
    /\ account' = [account EXCEPT ![o.u][o.env] =
                      IF account[o.u][o.env] < Stage(o.pc) THEN Stage(o.pc) ELSE account[o.u][o.env]]
    /\ Goes(p, AfterGrant(o))
    /\ UNCHANGED <<gitlab, row, known, user, started, upsets, mishaps>>

\* What Grants may do.
LEMMA GrantsIs ==
    ASSUME NEW p \in Procs, Grants(p)
    PROVE  /\ proc[p].pc \in Granters
           /\ \/ Raises(p, proc[p])
              \/ /\ Goes(p, Idle)
                 /\ UNCHANGED <<gitlab, row, known, user, account, started, upsets, mishaps>>
  BY DEF Grants, Raises, Granters, Ends, AfterGrant

\* What a stage that succeeds does to the accounts and the process.
LEMMA RaisesIs ==
    ASSUME Ind, NEW p \in Procs, NEW o \in ProcStates, o = proc[p], Raises(p, o)
    PROVE  /\ o.u \in Users /\ o.env \in Envs /\ o.kind = "grant" /\ o.pc \notin Revokers
           /\ account' \in [Users -> [Envs -> 0 .. Usable]]
           /\ \A w \in Users, f \in Envs :
                 ~(w = o.u /\ f = o.env) => account'[w][f] = account[w][f]
           /\ account'[o.u][o.env] \in {account[o.u][o.env], account[o.u][o.env] + 1}
           /\ account'[o.u][o.env] >= Stage(o.pc)
           /\ AfterGrant(o) \in ProcStates
           /\ o.pc = "password" => AfterGrant(o) = Idle
           /\ o.pc # "password" =>
                 /\ AfterGrant(o).pc = AfterStage(o.pc) /\ AfterGrant(o).kind = "grant"
                 /\ AfterGrant(o).u = o.u /\ AfterGrant(o).env = o.env
                 /\ AfterGrant(o).pairs = o.pairs
           /\ proc'[p] = AfterGrant(o)
           /\ \A x \in Procs : x # p => proc'[x] = proc[x]
  <1>1. o.pc \in {"make", "roles", "password"} /\ o.pc \in Granters /\ Shaped(o) /\ Ordered(o)
    BY DEF Raises, Ind, ProcShape, GrantsInOrder, Granters
  <1>2. o.u \in Users /\ o.env \in Envs /\ o.kind = "grant" /\ o.pc \notin Revokers
    BY <1>1, StateIs DEF Shaped, Revokers
  <1> DEFINE has == account[o.u][o.env]
             n == IF has < Stage(o.pc) THEN Stage(o.pc) ELSE has
  <1>3. account \in [Users -> [Envs -> 0 .. 3]] /\ has \in 0 .. 3
    BY <1>2 DEF Ind, TypeOK, Usable
  <1>4. n \in 0 .. 3 /\ n \in {has, has + 1} /\ n >= Stage(o.pc)
    <2>1. /\ o.pc = "make" => Stage(o.pc) = 1
          /\ o.pc = "roles" => Stage(o.pc) = 2 /\ has >= 1
          /\ o.pc = "password" => Stage(o.pc) = 3 /\ has >= 2
      BY <1>1 DEF Stage, Ordered, Usable
    <2> QED
      BY <1>1, <1>3, <2>1
  <1>5. account' = [account EXCEPT ![o.u][o.env] = n]
    BY DEF Raises
  <1> HIDE DEF n
  <1>6. /\ account' \in [Users -> [Envs -> 0 .. Usable]]
        /\ \A w \in Users, f \in Envs :
              ~(w = o.u /\ f = o.env) => account'[w][f] = account[w][f]
        /\ account'[o.u][o.env] = n
    BY <1>2, <1>3, <1>4, <1>5 DEF Usable
  <1>7. /\ AfterGrant(o) \in ProcStates
        /\ o.pc = "password" => AfterGrant(o) = Idle
        /\ o.pc # "password" =>
                 /\ AfterGrant(o).pc = AfterStage(o.pc) /\ AfterGrant(o).kind = "grant"
                 /\ AfterGrant(o).u = o.u /\ AfterGrant(o).env = o.env
                 /\ AfterGrant(o).pairs = o.pairs
    <2>1. AfterStage(o.pc) \in {"roles", "password", "idle"}
      BY <1>1 DEF AfterStage
    <2> QED
      BY <1>1, <1>2, <2>1, IdleIs DEF AfterGrant, ProcStates, Granters
  <1>8. proc'[p] = AfterGrant(o) /\ \A x \in Procs : x # p => proc'[x] = proc[x]
    BY DEF Raises, Goes, Ind, TypeOK
  <1> QED
    BY <1>2, <1>4, <1>6, <1>7, <1>8

\* Grants keeps the invariant.
LEMMA GrantsKeeps ==
    ASSUME Ind, NEW p \in Procs, Grants(p)
    PROVE  Ind'
  <1>1. PICK o \in ProcStates : o = proc[p]
    BY DEF Ind, TypeOK
  <1>2. CASE /\ Goes(p, Idle)
             /\ UNCHANGED <<gitlab, row, known, user, account, started, upsets, mishaps>>
    <2>1. Fits(p, Idle)
      BY GrantsIs, IdleFits DEF Granters, Revokers
    <2>2. TypeOK'
      BY <1>2, IdleIs DEF Ind, TypeOK, Goes
    <2>3. SameTiers
      BY <1>2 DEF SameTiers
    <2> QED
      BY <1>2, <2>1, <2>2, <2>3, IdleIs, QuietStep
  <1>3. CASE Raises(p, o)
    <2> DEFINE q == AfterGrant(o)
    <2>1. /\ o.u \in Users /\ o.env \in Envs /\ o.kind = "grant" /\ o.pc \notin Revokers
          /\ account' \in [Users -> [Envs -> 0 .. Usable]]
          /\ \A w \in Users, f \in Envs :
                ~(w = o.u /\ f = o.env) => account'[w][f] = account[w][f]
          /\ account'[o.u][o.env] \in {account[o.u][o.env], account[o.u][o.env] + 1}
          /\ account'[o.u][o.env] >= Stage(o.pc)
          /\ q \in ProcStates
          /\ o.pc = "password" => q = Idle
          /\ o.pc # "password" =>
                /\ q.pc = AfterStage(o.pc) /\ q.kind = "grant"
                /\ q.u = o.u /\ q.env = o.env /\ q.pairs = o.pairs
          /\ proc'[p] = q
          /\ \A x \in Procs : x # p => proc'[x] = proc[x]
      BY <1>1, <1>3, RaisesIs
    <2> HIDE DEF q
    <2>2. o.pc \in {"make", "roles", "password"} /\ SameTiers /\ UNCHANGED <<user, mishaps>>
      BY <1>3 DEF Raises, SameTiers
    <2>3. TypeOK'
      BY <1>3, <2>1 DEF Ind, TypeOK, Raises, Goes, q
    <2>4. /\ q.pc \in {"idle", "roles", "password"}
          /\ q.pc = "roles" => o.pc = "make" /\ Stage(o.pc) = 1
          /\ q.pc = "password" => o.pc = "roles" /\ Stage(o.pc) = 2
          /\ q.kind \in {"none", "grant"} /\ (q.kind = "grant" <=> q.pc # "idle")
      BY <2>1, <2>2 DEF AfterStage, Stage, Idle
    <2>5. \A w \in Users, f \in Envs : /\ account'[w][f] >= account[w][f]
                                         /\ account[w][f] \in Nat /\ account'[w][f] \in Nat
      <3> SUFFICES ASSUME NEW w \in Users, NEW f \in Envs
                   PROVE  /\ account'[w][f] >= account[w][f]
                          /\ account[w][f] \in Nat /\ account'[w][f] \in Nat
        OBVIOUS
      <3>1. account[w][f] \in Nat
        BY DEF Ind, TypeOK, Usable
      <3> QED
        BY <2>1, <3>1
    <2>6. ProcShape'
      <3>1. Shaped(q)
        BY <2>1, <2>2, <2>4 DEF Shaped, Granters, Revokers
      <3> QED
        BY <2>1, <3>1 DEF Ind, ProcShape
    <2>7. GrantsInOrder'
      <3> SUFFICES ASSUME NEW x \in Procs PROVE Ordered(proc[x])'
        BY DEF GrantsInOrder
      <3>1. CASE x = p
        BY <2>1, <2>2, <2>4, <3>1 DEF Ordered
      <3>2. CASE x # p /\ proc'[x].pc \notin {"roles", "password"}
        BY <3>2 DEF Ordered
      <3>3. CASE x # p /\ proc'[x].pc \in {"roles", "password"}
        <4>1. proc'[x] = proc[x] /\ Ordered(proc[x])
          BY <2>1, <3>3 DEF Ind, GrantsInOrder
        <4>2. proc[x].u \in Users /\ proc[x].env \in Envs
          BY <3>3, <4>1, StateIs DEF Ind, TypeOK, ProcShape, Shaped, Granters
        <4>3. /\ account'[proc[x].u][proc[x].env] >= account[proc[x].u][proc[x].env]
              /\ account'[proc[x].u][proc[x].env] \in Nat
              /\ account[proc[x].u][proc[x].env] \in Nat
          BY <2>5, <4>2
        <4> QED
          BY <4>1, <4>3 DEF Ordered
      <3> QED
        BY <3>1, <3>2, <3>3
    <2>8. LossesKnown'
      <3>1. KnowsLosses(q)
        BY <2>4 DEF KnowsLosses, Sessions
      <3> QED
        BY <2>1, <3>1 DEF Ind, LossesKnown
    <2>9. Without({"race"}) => MayEnter(o.u)
      BY <1>1, <2>1 DEF Ind, GrantsJustified, Granting
    <2>10. GrantsJustified'
      <3> SUFFICES ASSUME Without({"race"})', NEW u \in Users, Granting(u)'
                   PROVE  MayEnter(u)'
        BY DEF GrantsJustified
      <3>1. Without({"race"})
        BY <2>2 DEF Without
      <3>2. PICK x \in Procs : proc'[x].kind = "grant" /\ proc'[x].u = u
        BY DEF Granting
      <3>3. MayEnter(u)
        <4>1. CASE x = p
          BY <2>1, <2>4, <2>9, <3>1, <3>2, <4>1 DEF Idle
        <4>2. CASE x # p
          BY <2>1, <3>1, <3>2, <4>2 DEF Ind, GrantsJustified, Granting
        <4> QED
          BY <4>1, <4>2
      <3> QED
        BY <2>2, <3>3, TiersStay
    <2>11. RevocationDue'
      <3> SUFFICES ASSUME Without({"kept", "crash", "race", "stale"})', NEW w \in Users,
                          NEW f \in Envs, account'[w][f] # 0
                   PROVE  MayEnter(w)' \/ \E x \in Procs : WillRevoke(proc[x], w, f)'
        BY DEF RevocationDue
      <3>1. Without({"kept", "crash", "race", "stale"}) /\ Without({"race"})
        BY <2>2 DEF Without
      <3>2. CASE w = o.u
        BY <2>2, <2>9, <3>1, <3>2, TiersStay
      <3>3. CASE w # o.u /\ MayEnter(w)
        BY <2>2, <3>3, TiersStay
      <3>4. CASE w # o.u /\ ~MayEnter(w)
        <4>1. PICK x \in Procs : WillRevoke(proc[x], w, f)
          BY <2>1, <3>1, <3>4 DEF Ind, RevocationDue
        <4>2. x # p
          BY <1>1, <2>1, <4>1 DEF WillRevoke
        <4>3. WillRevoke(proc[x], w, f)'
          BY <2>1, <2>2, <4>1, <4>2 DEF WillRevoke
        <4> QED
          BY <4>3
      <3> QED
        BY <3>2, <3>3, <3>4
    <2>12. DeletionsDue'
      <3> SUFFICES ASSUME Without({"regained"})', NEW x \in Procs, NEW u \in Users,
                          Deletes(proc'[x], u)
                   PROVE  ~Keeps(u)'
        BY DEF DeletionsDue, Deletes
      <3>1. Without({"regained"})
        BY <2>2 DEF Without
      <3>2. x # p
        BY <2>1, <2>4 DEF Deletes
      <3>3. ~Keeps(u)
        BY <2>1, <3>1, <3>2 DEF Ind, DeletionsDue
      <3> QED
        BY <2>2, <3>3, TiersStay
    <2> QED
      BY <2>3, <2>6, <2>7, <2>8, <2>10, <2>11, <2>12 DEF Ind
  <1> QED
    BY <1>1, <1>2, <1>3, GrantsIs

-----------------------------------------------------------------------------
(***************************************************************************)
(* The invariant.                                                          *)
(***************************************************************************)

\* What GitLab does is not seen before the next fetch.
LEMMA GitLabChangesKeeps ==
    ASSUME Ind, GitLabChanges
    PROVE  Ind'
  <1>1. UNCHANGED <<row, known, user, account, proc, mishaps>> /\ Upset
    BY DEF GitLabChanges
  <1>2. gitlab' \in Lists
    <2>1. gitlab \in Lists
      BY DEF Ind, TypeOK
    <2>2. PICK u \in Users, l \in Levels \cup {NoLevel} :
            \/ \E s \in Scopes : gitlab' = [gitlab EXCEPT ![s][u] = l]
            \/ gitlab' = [gitlab EXCEPT !["invites"][u] = NoLevel, !["project"][u] = l]
      BY DEF GitLabChanges
    <2>3. CASE \E s \in Scopes : gitlab' = [gitlab EXCEPT ![s][u] = l]
      BY <2>1, <2>3 DEF Lists, Tables
    <2>4. CASE gitlab' = [gitlab EXCEPT !["invites"][u] = NoLevel, !["project"][u] = l]
      BY <2>1, <2>4 DEF Lists, Tables, Scopes
    <2> QED
      BY <2>2, <2>3, <2>4
  <1>3. TypeOK'
    BY <1>1, <1>2, ConsoleConstants DEF Ind, TypeOK, Upset
  <1>4. ProcShape' /\ GrantsInOrder' /\ LossesKnown'
    BY <1>1 DEF Ind, ProcShape, GrantsInOrder, Ordered, LossesKnown
  <1>5. GrantsJustified'
    BY <1>1 DEF Ind, GrantsJustified, Without, Granting, MayEnter, ConsoleTier
  <1>6. RevocationDue'
    BY <1>1 DEF Ind, RevocationDue, Without, WillRevoke, MayEnter, ConsoleTier
  <1>7. DeletionsDue'
    BY <1>1 DEF Ind, DeletionsDue, Without, Keeps, ConsoleTier
  <1> QED
    BY <1>3, <1>4, <1>5, <1>6, <1>7 DEF Ind

\* A step that leaves every variable keeps the invariant.
LEMMA StutterKeeps ==
    ASSUME Ind, UNCHANGED vars
    PROVE  Ind'
  <1>1. TypeOK'
    BY DEF Ind, TypeOK, vars
  <1>2. ProcShape' /\ GrantsInOrder' /\ LossesKnown'
    BY DEF Ind, ProcShape, GrantsInOrder, Ordered, LossesKnown, vars
  <1>3. GrantsJustified'
    BY DEF Ind, GrantsJustified, Without, Granting, MayEnter, ConsoleTier, vars
  <1>4. RevocationDue'
    BY DEF Ind, RevocationDue, Without, WillRevoke, MayEnter, ConsoleTier, vars
  <1>5. DeletionsDue'
    BY DEF Ind, DeletionsDue, Without, Keeps, ConsoleTier, vars
  <1> QED
    BY <1>1, <1>2, <1>3, <1>4, <1>5 DEF Ind

\* With every process idle only the accounts and tiers remain to be compared.
LEMMA AllIdle ==
    ASSUME proc = [p \in Procs |-> Idle]
    PROVE  ProcShape /\ GrantsInOrder /\ LossesKnown /\ GrantsJustified /\ DeletionsDue
  <1>1. Shaped(Idle) /\ Ordered(Idle) /\ KnowsLosses(Idle)
    BY DEF Shaped, Ordered, KnowsLosses, Idle, Granters, Sessions
  <1>2. \A p \in Procs : proc[p] = Idle
    OBVIOUS
  <1>3. ProcShape /\ GrantsInOrder /\ LossesKnown
    BY <1>1, <1>2 DEF ProcShape, GrantsInOrder, LossesKnown
  <1>4. GrantsJustified
    BY <1>2 DEF GrantsJustified, Granting, Idle
  <1>5. DeletionsDue
    BY <1>2 DEF DeletionsDue, Deletes, Idle
  <1> QED
    BY <1>3, <1>4, <1>5

\* A restart loses every process, which is noted.
LEMMA RestartKeeps ==
    ASSUME Ind, Restart
    PROVE  Ind'
  <1>1. /\ proc' = [p \in Procs |-> Idle]
        /\ mishaps' = mishaps \cup {"crash"} /\ Upset
        /\ UNCHANGED <<gitlab, row, known, user, account>>
    BY DEF Restart, Note
  <1>2. TypeOK'
    BY <1>1, IdleIs, ConsoleConstants DEF Ind, TypeOK, Upset, Kinds
  <1>3. (ProcShape /\ GrantsInOrder /\ LossesKnown /\ GrantsJustified /\ DeletionsDue)'
    <2>1. Shaped(Idle) /\ Ordered(Idle)' /\ KnowsLosses(Idle)
      BY DEF Shaped, Ordered, KnowsLosses, Idle, Granters, Sessions
    <2>2. \A p \in Procs : proc'[p] = Idle
      BY <1>1
    <2>3. ProcShape' /\ LossesKnown'
      BY <2>1, <2>2 DEF ProcShape, LossesKnown
    <2>4. GrantsInOrder'
      BY <2>2 DEF GrantsInOrder, Ordered, Idle
    <2>5. GrantsJustified'
      BY <2>2 DEF GrantsJustified, Granting, Idle
    <2>6. DeletionsDue'
      BY <2>2 DEF DeletionsDue, Deletes, Idle
    <2> QED
      BY <2>3, <2>4, <2>5, <2>6
  <1>4. RevocationDue'
    BY <1>1 DEF RevocationDue, Without
  <1> QED
    BY <1>2, <1>3, <1>4 DEF Ind

\* The initial states satisfy the invariant.
LEMMA InitHolds == Init => Ind
  <1> SUFFICES ASSUME Init PROVE Ind
    OBVIOUS
  <1>1. PICK is \in [Users -> Profiles] :
          /\ gitlab = [t \in Tables |-> [u \in Users |-> IF t \in Scopes THEN is[u][t] ELSE NoLevel]]
          /\ user = [u \in Users |-> [active |-> TRUE, admin |-> is[u].admin, gl |-> is[u].gl]]
    BY DEF Init
  <1>2. ASSUME NEW u \in Users
        PROVE  /\ is[u].group \in Levels \cup {NoLevel} /\ is[u].project \in Levels \cup {NoLevel}
               /\ is[u].admin \in BOOLEAN /\ is[u].gl \in BOOLEAN
    BY ConsoleConstants
  <1>3. gitlab \in Lists
    <2>1. ASSUME NEW t \in Tables, NEW u \in Users
          PROVE  (IF t \in Scopes THEN is[u][t] ELSE NoLevel) \in Levels \cup {NoLevel}
      BY <1>2 DEF Tables, Scopes
    <2> QED
      BY <1>1, <2>1 DEF Lists
  <1>4. user \in [Users -> People]
    BY <1>1, <1>2 DEF People
  <1>5. row \in RowTables
    <2>1. ASSUME NEW t \in Tables, NEW u \in Users
          PROVE  Mirror(t, u, gitlab[t][u]) \in Rows
      <3>1. user[u].gl \in BOOLEAN /\ gitlab[t][u] \in Levels \cup {NoLevel}
        BY <1>3, <1>4 DEF People, Lists
      <3>2. (t \in Scopes /\ user[u].gl) \in BOOLEAN
        BY <3>1
      <3>3. [status |-> "active", level |-> gitlab[t][u], link |-> t \in Scopes /\ user[u].gl] \in Rows
        BY <3>1, <3>2 DEF Rows
      <3> QED
        BY <3>3, IdleIs DEF Mirror
    <2> QED
      BY <2>1 DEF Init, RowTables
  <1>6. account \in [Users -> [Envs -> 0 .. Usable]]
    BY DEF Init, Usable
  <1>7. TypeOK
    BY <1>3, <1>4, <1>5, <1>6, IdleIs, ConsoleConstants DEF Init, TypeOK
  <1>8. RevocationDue
    BY DEF Init, RevocationDue
  <1>9. ProcShape /\ GrantsInOrder /\ LossesKnown /\ GrantsJustified /\ DeletionsDue
    BY AllIdle DEF Init
  <1> QED
    BY <1>7, <1>8, <1>9 DEF Ind

\* Every step preserves the invariant.
LEMMA NextKeeps == Ind /\ [Next]_vars => Ind'
  <1> SUFFICES ASSUME Ind, [Next]_vars PROVE Ind'
    OBVIOUS
  <1>1. Requests \subseteq Procs /\ Worker \in Procs
    BY DEF Procs
  <1>2. ASSUME NEW p \in Procs, Begins(p) PROVE Ind'
    BY <1>2, UserSyncBeginsKeeps, MemberBeginsKeeps, PatchBeginsKeeps, GrantBeginsKeeps DEF Begins
  <1>3. ASSUME NEW p \in Procs, Continues(p) PROVE Ind'
    BY <1>3, FetchStepKeeps, ReadsKeeps, CommitsKeeps, ReadsTierKeeps, DeletesAccountKeeps,
       GrantsKeeps DEF Continues
  <1> QED
    BY <1>1, <1>2, <1>3, SyncBeginsKeeps, FetchStepKeeps, GitLabChangesKeeps, RestartKeeps,
       StutterKeeps DEF Next

\* Whoever has an account without a revocation due may enter.
LEMMA JustifiedFromDue == Ind => AccountsJustified
  BY DEF Ind, RevocationDue, AccountsJustified, WillRevoke, Revoking

\* Accounts of whoever lost the tier have their revocation, outside the four
\* named mishaps, for any users, requests and levels: ReadsTier spares nobody
\* without a tier and no session takes one from somebody it does not revoke.
THEOREM ConsoleInvariant == Spec => []ConsoleInv
  <1>1. Ind => ConsoleInv
    BY JustifiedFromDue DEF Ind, ConsoleInv
  <1> QED
    BY <1>1, InitHolds, NextKeeps, PTL DEF Spec

-----------------------------------------------------------------------------
(***************************************************************************)
(* What a step may do to accounts and grants.                              *)
(***************************************************************************)

\* Steps that touch no account open no grant.
Elsewhere == UNCHANGED account /\ OpenGrants' \subseteq OpenGrants

\* The new state of p is no grant.
LEMMA NoNewGrant ==
    ASSUME TypeOK, NEW p \in Procs, NEW q, Goes(p, q), q.kind # "grant"
    PROVE  OpenGrants' \subseteq OpenGrants
  <1>1. \A x \in Procs : proc'[x] = IF x = p THEN q ELSE proc[x]
    BY DEF TypeOK, Goes
  <1> QED
    BY <1>1 DEF OpenGrants

\* The sessions, requests and revocations other than grants and deletions.
LEMMA ElsewhereSteps ==
    ASSUME Ind, NEW p \in Procs,
           \/ SyncBegins(p) \/ UserSyncBegins(p) \/ MemberBegins(p) \/ PatchBegins(p)
           \/ Fetches(p) \/ FetchFails(p) \/ Reads(p) \/ Commits(p) \/ ReadsTier(p)
    PROVE  Elsewhere
  <1>1. PICK o \in ProcStates : o = proc[p]
    BY DEF Ind, TypeOK
  <1>2. Shaped(o)
    BY <1>1 DEF Ind, ProcShape
  <1>3. \A u : Done(o, u).kind \in {"none", o.kind}
    BY DEF Done, Idle, ProcStates
  <1>4. ToRevoke(o).kind \in {"none", o.kind}
    BY DEF ToRevoke, Idle
  <1>5. Idle.kind = "none"
    BY DEF Idle
  <1>6. \A T : Fetched(o, T).kind = o.kind
    BY DEF Fetched, ProcStates
  <1>7. CASE SyncBegins(p)
    <2>1. PICK f \in Discovered :
          Goes(p, [Idle EXCEPT !.kind = "sync", !.pc = "fetch", !.found = f,
                               !.todo = IF f THEN Tables ELSE Tables \ {"group"}])
      BY <1>7 DEF SyncBegins
    <2>2. OpenGrants' \subseteq OpenGrants
      BY <2>1, NoNewGrant DEF Ind, Idle
    <2> QED
      BY <1>7, <2>2 DEF Elsewhere, SyncBegins
  <1>8. CASE UserSyncBegins(p)
    <2>1. PICK u \in Users : \E g \in {gitlab["group"][u] # NoLevel, FALSE} :
             Goes(p, After([Idle EXCEPT !.kind = "sync", !.found = g, !.todo =
                 (IF g THEN {"group"} ELSE {}) \cup
                 (IF g \/ row["project"][u].link THEN {"project", "invites"} ELSE {})]))
      BY <1>8 DEF UserSyncBegins
    <2>2. PICK g \in {gitlab["group"][u] # NoLevel, FALSE} :
             Goes(p, After([Idle EXCEPT !.kind = "sync", !.found = g, !.todo =
                 (IF g THEN {"group"} ELSE {}) \cup
                 (IF g \/ row["project"][u].link THEN {"project", "invites"} ELSE {})]))
      BY <2>1
    <2> DEFINE T == (IF g THEN {"group"} ELSE {}) \cup
                    (IF g \/ row["project"][u].link THEN {"project", "invites"} ELSE {})
               q == After([Idle EXCEPT !.kind = "sync", !.found = g, !.todo = T])
    <2>3. Goes(p, q)
      BY <2>2
    <2> HIDE DEF T
    <2>4. q.kind = "sync"
      BY DEF After, Idle
    <2> HIDE DEF q
    <2>5. OpenGrants' \subseteq OpenGrants
      BY <2>3, <2>4, NoNewGrant DEF Ind
    <2> QED
      BY <1>8, <2>5 DEF Elsewhere, UserSyncBegins
  <1>9. CASE MemberBegins(p)
    <2>1. PICK t \in {"project", "invites"}, u \in Users, l \in Levels :
          Goes(p, [Idle EXCEPT !.kind = "member", !.pc = "read", !.u = u, !.ready = {t},
                                  !.list[t][u] = l])
      BY <1>9 DEF MemberBegins
    <2> DEFINE q == [Idle EXCEPT !.kind = "member", !.pc = "read", !.u = u, !.ready = {t},
                                 !.list[t][u] = l]
    <2>2. Goes(p, q) /\ q.kind = "member"
      BY <2>1 DEF Idle
    <2> HIDE DEF q
    <2>3. OpenGrants' \subseteq OpenGrants
      BY <2>2, NoNewGrant DEF Ind
    <2> QED
      BY <1>9, <2>3 DEF Elsewhere, MemberBegins
  <1>10. CASE PatchBegins(p)
    <2>1. PICK u \in Users, a \in BOOLEAN, d \in BOOLEAN :
             LET deactivated == user[u].active /\ ~a
                 demoted     == user[u].admin /\ ~d IN
             Goes(p, IF deactivated \/ demoted
                     THEN [Idle EXCEPT !.kind = IF deactivated THEN "deactivate" ELSE "demote",
                                       !.pc = "revoke", !.pairs = {u}]
                     ELSE Idle)
      BY <1>10 DEF PatchBegins
    <2> DEFINE q == IF (user[u].active /\ ~a) \/ (user[u].admin /\ ~d)
                    THEN [Idle EXCEPT !.kind = IF user[u].active /\ ~a THEN "deactivate" ELSE "demote",
                                      !.pc = "revoke", !.pairs = {u}]
                    ELSE Idle
    <2>2. Goes(p, q)
      BY <2>1
    <2>3. q.kind # "grant"
      BY DEF Idle
    <2> HIDE DEF q
    <2>4. OpenGrants' \subseteq OpenGrants
      BY <2>2, <2>3, NoNewGrant DEF Ind
    <2> QED
      BY <1>10, <2>4 DEF Elsewhere, PatchBegins
  <1>11. CASE Fetches(p) \/ FetchFails(p)
    <2>1. o.kind # "grant"
      BY <1>1, <1>2, <1>11 DEF Shaped, Fetches, FetchFails, Granters
    <2>2. After([o EXCEPT !.todo = @ \ NextTables(o)]).kind = o.kind
      BY DEF After, ProcStates
    <2>3. PICK q : Goes(p, q) /\ q.kind = o.kind
      BY <1>1, <1>6, <1>11, <2>2 DEF Fetches, FetchFails
    <2>4. OpenGrants' \subseteq OpenGrants
      BY <2>1, <2>3, NoNewGrant DEF Ind
    <2> QED
      BY <1>11, <2>4 DEF Elsewhere, Fetches, FetchFails
  <1>12. CASE Reads(p)
    <2>1. o.kind # "grant"
      BY <1>1, <1>2, <1>12 DEF Shaped, Reads, Granters
    <2> DEFINE q == After([o EXCEPT !.seen = SeenBy(o), !.mine = MadeBy(o), !.list = Nothing,
                       !.ready = {}, !.pairs = @ \cup Lost(o.ready, SeenBy(o), MadeBy(o))])
    <2>2. Goes(p, q)
      BY <1>1, <1>12 DEF Reads
    <2>3. q.kind = o.kind
      BY DEF After, ProcStates
    <2> HIDE DEF q
    <2>4. OpenGrants' \subseteq OpenGrants
      BY <2>1, <2>2, <2>3, NoNewGrant DEF Ind
    <2> QED
      BY <1>12, <2>4 DEF Elsewhere, Reads
  <1>13. CASE Commits(p)
    <2>1. o.kind # "grant"
      BY <1>1, <1>2, <1>13 DEF Shaped, Commits, Granters
    <2>2. PICK q : Goes(p, q) /\ q.kind \in {"none", o.kind}
      BY <1>1, <1>4, <1>5, <1>13 DEF Commits, Ends
    <2>3. OpenGrants' \subseteq OpenGrants
      BY <2>1, <2>2, NoNewGrant DEF Ind
    <2> QED
      BY <1>13, <2>3 DEF Elsewhere, Commits
  <1>14. CASE ReadsTier(p)
    <2>1. o.kind # "grant"
      BY <1>1, <1>2, <1>14 DEF Shaped, ReadsTier, Granters
    <2>2. \A u : [o EXCEPT !.pc = "delete", !.u = u, !.env = "dev"].kind = o.kind
      BY DEF ProcStates
    <2>3. PICK q : Goes(p, q) /\ q.kind \in {"none", o.kind}
      BY <1>1, <1>3, <1>14, <2>2 DEF ReadsTier
    <2>4. OpenGrants' \subseteq OpenGrants
      BY <2>1, <2>3, NoNewGrant DEF Ind
    <2> QED
      BY <1>14, <2>4 DEF Elsewhere, ReadsTier
  <1> QED
    BY <1>7, <1>8, <1>9, <1>10, <1>11, <1>12, <1>13, <1>14

\* Every step is one of these.
LEMMA StepKinds ==
    ASSUME Ind, [Next]_vars
    PROVE  Elsewhere \/ \E p \in Procs : GrantBegins(p) \/ Grants(p) \/ DeletesAccount(p)
  <1>1. Requests \subseteq Procs /\ Worker \in Procs
    BY DEF Procs
  <1>2. CASE UNCHANGED vars \/ GitLabChanges
    BY <1>2 DEF vars, GitLabChanges, Elsewhere, OpenGrants
  <1>3. CASE Restart
    <2>1. \A p \in Procs : proc'[p].kind = "none"
      BY <1>3 DEF Restart, Idle
    <2> QED
      BY <1>3, <2>1 DEF Restart, Elsewhere, OpenGrants
  <1>4. ASSUME NEW p \in Procs, Begins(p) \/ Continues(p) \/ FetchFails(p) \/ SyncBegins(p)
        PROVE  Elsewhere \/ GrantBegins(p) \/ Grants(p) \/ DeletesAccount(p)
    BY <1>4, ElsewhereSteps DEF Begins, Continues
  <1> QED
    BY <1>1, <1>2, <1>3, <1>4 DEF Next

\* A deletion takes the account of one user in one environment, who keeps no
\* tier unless it came back.
LEMMA DeletionTakes ==
    ASSUME Ind, NEW p \in Procs, DeletesAccount(p), NEW u \in Users, NEW e \in Envs,
           account[u][e] # 0, account'[u][e] = 0
    PROVE  ~Keeps(u) \/ "regained" \in mishaps
  <1>1. PICK o \in ProcStates : o = proc[p]
    BY DEF Ind, TypeOK
  <1>2. o.pc = "delete" /\ o.u \in o.pairs /\ o.u \in Users
    BY <1>1, StateIs DEF Ind, ProcShape, DeletesAccount, Shaped
  <1>3. \A w \in Users, f \in Envs : w # o.u => account'[w][f] = account[w][f]
    BY <1>1, <1>2, DeletesAccountIs DEF Ind, TypeOK, Deletion
  <1>4. Deletes(o, u)
    BY <1>2, <1>3 DEF Deletes
  <1> QED
    BY <1>1, <1>4 DEF Ind, DeletionsDue, Without

\* No step but a deletion empties an account.
LEMMA OnlyDeletions ==
    ASSUME Ind, [Next]_vars, NEW u \in Users, NEW e \in Envs,
           account[u][e] # 0, account'[u][e] = 0
    PROVE  ~Keeps(u) \/ "regained" \in mishaps
  <1>1. ASSUME NEW p \in Procs, Grants(p) PROVE FALSE
    <2>1. PICK o \in ProcStates : o = proc[p]
      BY DEF Ind, TypeOK
    <2>2. Raises(p, o)
      BY <1>1, <2>1, GrantsIs
    <2>3. account[u][e] \in Nat
      BY DEF Ind, TypeOK, Usable
    <2>4. account'[u][e] \in {account[u][e], account[u][e] + 1}
      BY <2>1, <2>2, RaisesIs
    <2> QED
      BY <2>3, <2>4
  <1>2. ~Elsewhere /\ \A p \in Procs : ~GrantBegins(p)
    BY DEF Elsewhere, GrantBegins
  <1> QED
    BY <1>1, <1>2, StepKinds, DeletionTakes

\* Whoever is a Maintainer by one membership keeps the accounts, for any
\* users and requests, unless the tier came back under a revocation.
THEOREM MaintainersKeepAccounts == Spec => KeptWhileMaintainer
  <1>1. Ind /\ [Next]_vars =>
          [\A u \in Users, e \in Envs :
             account[u][e] # 0 /\ account'[u][e] = 0 /\ Keeps(u) => "regained" \in mishaps]_vars
    BY OnlyDeletions
  <1> QED
    BY <1>1, InitHolds, NextKeeps, PTL DEF Spec, KeptWhileMaintainer

-----------------------------------------------------------------------------
(***************************************************************************)
(* The refinement of ConsoleAccounts.                                      *)
(***************************************************************************)

\* Initial states map to initial states.
LEMMA InitPromised == Init => Accounts!AInit
  <1> SUFFICES ASSUME Init PROVE Accounts!AInit
    OBVIOUS
  <1>1. OpenGrants = {}
    BY DEF Init, OpenGrants, Idle
  <1>2. Allowed \in SUBSET Users
    BY DEF Allowed
  <1>3. \A u \in Users : (\E e \in Envs : account[u][e] # 0) => u \in Allowed
    BY DEF Init, Allowed
  <1>4. account \in [Users -> [Envs -> {0, Usable}]]
    BY DEF Init
  <1> QED
    BY <1>1, <1>2, <1>3, <1>4 DEF Accounts!AInit

\* Every step maps to a step or a stutter.
LEMMA StepPromised ==
    ASSUME Ind, [Next]_vars
    PROVE  [Accounts!ANext]_(Accounts!avars)
  <1>1. CASE Elsewhere
    <2>1. Allowed' \in SUBSET Users
      BY DEF Allowed
    <2>2. Accounts!Decide
      BY <1>1, <2>1 DEF Elsewhere, Accounts!Decide
    <2> QED
      BY <2>2 DEF Accounts!ANext
  <1>2. ASSUME NEW p \in Procs, GrantBegins(p)
        PROVE  Accounts!ANext
    <2>1. PICK u \in Users, e \in Envs :
            /\ MayEnter(u)
            /\ Goes(p, [Idle EXCEPT !.kind = "grant", !.pc = "make", !.u = u, !.env = e])
      BY <1>2 DEF GrantBegins
    <2>2. /\ proc'[p].kind = "grant" /\ proc'[p].u = u /\ proc'[p].env = e
          /\ \A x \in Procs : x # p => proc'[x] = proc[x]
      BY <2>1 DEF Goes, Idle, Ind, TypeOK
    <2>3. proc[p].kind # "grant"
      BY <1>2 DEF GrantBegins, Ind, ProcShape, Shaped, Granters
    <2>4. OpenGrants' = OpenGrants \cup {<<u, e>>}
      BY <2>2, <2>3 DEF OpenGrants
    <2>5. u \in Allowed
      BY <2>1 DEF Allowed
    <2>6. UNCHANGED <<Allowed, account>>
      BY <1>2 DEF GrantBegins, Allowed, MayEnter, ConsoleTier
    <2>7. Accounts!Open(u, e)
      BY <2>4, <2>5, <2>6 DEF Accounts!Open
    <2> QED
      BY <2>7 DEF Accounts!ANext
  <1>3. ASSUME NEW p \in Procs, Grants(p)
        PROVE  [Accounts!ANext]_(Accounts!avars)
    <2>1. PICK o \in ProcStates : o = proc[p]
      BY DEF Ind, TypeOK
    <2>2. CASE /\ Goes(p, Idle)
               /\ UNCHANGED <<gitlab, row, known, user, account, started, upsets, mishaps>>
      <3>1. OpenGrants' \subseteq OpenGrants
        BY <2>2, NoNewGrant DEF Ind, Idle
      <3>2. Allowed' \in SUBSET Users
        BY DEF Allowed
      <3>3. Accounts!Decide
        BY <2>2, <3>1, <3>2 DEF Accounts!Decide
      <3> QED
        BY <3>3 DEF Accounts!ANext
    <2>3. CASE Raises(p, o)
      <3> DEFINE q == AfterGrant(o)
      <3>1. /\ o.u \in Users /\ o.env \in Envs /\ o.kind = "grant"
            /\ account'[o.u][o.env] \in {account[o.u][o.env], account[o.u][o.env] + 1}
            /\ account' \in [Users -> [Envs -> 0 .. Usable]]
            /\ \A w \in Users, f \in Envs :
                  ~(w = o.u /\ f = o.env) => account'[w][f] = account[w][f]
            /\ o.pc = "password" => q = Idle
            /\ o.pc # "password" => q.kind = "grant" /\ q.u = o.u /\ q.env = o.env
            /\ proc'[p] = q
            /\ \A x \in Procs : x # p => proc'[x] = proc[x]
        BY <2>1, <2>3, RaisesIs
      <3> HIDE DEF q
      <3>2. account \in [Users -> [Envs -> 0 .. Usable]]
        BY DEF Ind, TypeOK
      <3>3. PICK u \in Users, e \in Envs : u = o.u /\ e = o.env
        BY <3>1
      <3>4. <<u, e>> \in OpenGrants
        BY <2>1, <3>1, <3>3 DEF OpenGrants
      <3>5. OpenGrants' \in {OpenGrants, OpenGrants \ {<<u, e>>}}
        <4>1. ASSUME NEW w \in Users, NEW f \in Envs, <<w, f>> # <<u, e>>
              PROVE  <<w, f>> \in OpenGrants' <=> <<w, f>> \in OpenGrants
          <5>1. \A x \in Procs :
                  proc'[x].kind = "grant" /\ proc'[x].u = w /\ proc'[x].env = f <=>
                  proc[x].kind = "grant" /\ proc[x].u = w /\ proc[x].env = f
            BY <2>1, <3>1, <3>3, <4>1 DEF Idle
          <5> QED
            BY <5>1 DEF OpenGrants
        <4>2. OpenGrants \subseteq Users \X Envs /\ OpenGrants' \subseteq Users \X Envs
          BY DEF OpenGrants
        <4> QED
          BY <3>4, <4>1, <4>2
      <3>6. UNCHANGED Allowed
        BY <2>3 DEF Raises, Allowed, MayEnter, ConsoleTier
      <3>7. CASE account'[u][e] = account[u][e]
        <4>1. \A w \in Users : account'[w] = account[w]
          BY <3>1, <3>2, <3>3, <3>7
        <4>2. account' = account
          BY <3>1, <3>2, <4>1
        <4>3. OpenGrants' \subseteq OpenGrants /\ Allowed' \in SUBSET Users
          BY <3>5 DEF Allowed
        <4>4. Accounts!Decide
          BY <4>2, <4>3 DEF Accounts!Decide
        <4> QED
          BY <4>4 DEF Accounts!ANext
      <3>8. CASE account'[u][e] = account[u][e] + 1
        <4>1. account[u][e] < Usable
          BY <3>1, <3>2, <3>8 DEF Usable
        <4>2. account' = [account EXCEPT ![u][e] = @ + 1]
          <5> DEFINE A == [account EXCEPT ![u][e] = @ + 1]
          <5>1. A \in [Users -> [Envs -> Nat]] /\ account' \in [Users -> [Envs -> Nat]]
            BY <3>1, <3>2 DEF Usable
          <5>2. \A w \in Users, f \in Envs : A[w][f] = account'[w][f]
            BY <3>1, <3>2, <3>3, <3>8
          <5> HIDE DEF A
          <5>3. \A w \in Users : A[w] = account'[w]
            BY <5>1, <5>2
          <5>4. A = account'
            BY <5>1, <5>3
          <5> QED
            BY <5>4 DEF A
        <4>3. Accounts!Advance(u, e)
          BY <3>4, <3>5, <3>6, <4>1, <4>2 DEF Accounts!Advance
        <4> QED
          BY <4>3 DEF Accounts!ANext
      <3> QED
        BY <3>1, <3>3, <3>7, <3>8
    <2> QED
      BY <1>3, <2>1, <2>2, <2>3, GrantsIs
  <1>4. ASSUME NEW p \in Procs, DeletesAccount(p)
        PROVE  Accounts!ANext
    <2>1. PICK o \in ProcStates : o = proc[p]
      BY DEF Ind, TypeOK
    <2>2. o.pc = "delete" /\ Shaped(o) /\ o.u \in o.pairs /\ o.u \in Users /\ o.env \in Envs
          /\ o.kind # "grant"
      BY <1>4, <2>1, StateIs DEF Ind, ProcShape, DeletesAccount, Shaped, Granters
    <2>3. PICK q \in ProcStates : q = AfterDelete(o)
      BY <2>2, AfterDeleteIs
    <2>4. q.kind # "grant"
      BY <2>2, <2>3, AfterDeleteIs
    <2>5. CASE Goes(p, q) /\ UNCHANGED account
      <3>1. OpenGrants' \subseteq OpenGrants /\ Allowed' \in SUBSET Users
        BY <2>4, <2>5, NoNewGrant DEF Ind, Allowed
      <3>2. Accounts!Decide
        BY <2>5, <3>1 DEF Accounts!Decide
      <3> QED
        BY <3>2 DEF Accounts!ANext
    <2>6. CASE Deletion(p, o, q)
      <3>1. proc'[p] = q /\ \A x \in Procs \ {p} :
              /\ proc'[x].kind = proc[x].kind /\ proc'[x].u = proc[x].u
              /\ proc'[x].env = proc[x].env
        BY <2>2, <2>6, DeletionIs DEF Ind
      <3>2. \A x \in Procs : (proc'[x].kind = "grant" <=> proc[x].kind = "grant")
              /\ (proc[x].kind = "grant" => proc'[x].u = proc[x].u /\ proc'[x].env = proc[x].env)
        BY <2>1, <2>2, <2>4, <3>1
      <3>3. UNCHANGED OpenGrants
        BY <3>2 DEF OpenGrants
      <3>4. UNCHANGED Allowed
        BY <2>6 DEF Deletion, Allowed, MayEnter, ConsoleTier
      <3>5. Accounts!Remove(o.u, o.env)
        BY <2>6, <3>3, <3>4 DEF Deletion, Accounts!Remove
      <3> QED
        BY <2>2, <3>5 DEF Accounts!ANext
    <2> QED
      BY <1>4, <2>1, <2>3, <2>5, <2>6, DeletesAccountIs
  <1> QED
    BY <1>1, <1>2, <1>3, <1>4, StepKinds

\* The grants, deletions and everything else implement ConsoleAccounts for any
\* users and any number of concurrent requests.
THEOREM AccountsImplemented == Spec => AccountsAsPromised
  <1>1. Ind /\ [Next]_vars => [Accounts!ANext]_(Accounts!avars)
    BY StepPromised
  <1> QED
    BY <1>1, InitHolds, NextKeeps, InitPromised, PTL DEF Spec, AccountsAsPromised, Accounts!ASpec
=============================================================================
