---------------------------- MODULE ConsoleAccess ----------------------------
(***************************************************************************)
(* Members of an application and their accounts in its Keycloak consoles   *)
(* (backend/services/gitlab_sync_service.py, tier_service.py, the console  *)
(* half of keycloak_service.py, add_member and invite_member of            *)
(* app_service.py, PATCH /users).  GitLab holds who is a member of the     *)
(* owning group and of the project; the platform mirrors it in tables,     *)
(* derives a tier from them, and lets Maintainers have an account in the   *)
(* realm of each environment.  Whoever loses the tier must lose it.        *)
(*                                                                         *)
(* One application with Keycloak on and its own realms, one owning group,  *)
(* one linked project.  A user keeps the GitLab account it first logged in *)
(* with.                                                                   *)
(***************************************************************************)
EXTENDS Naturals

CONSTANTS
    Users,
    Requests,   \* concurrent HTTP requests and the tasks they leave behind
    Worker,     \* the synchronisation every 15 minutes
    Levels,     \* GitLab access levels
    Profiles,   \* what users may be at first: memberships, role, GitLab login
    MaxStarts,  \* bound on requests
    MaxUpsets   \* bound on changes in GitLab, unreadable lists and restarts

Scopes   == {"group", "project"}       \* memberships, gitlab_group_members and app_members
Tables   == Scopes \cup {"invites"}    \* and the rows of app_members with an e-mail only
Envs     == {"dev", "prod"}
Procs    == Requests \cup {Worker}
Usable   == 3
Granters == {"make", "roles", "password", "gone"}
Kinds    == {"kept", "crash", "race", "regained", "stale"}
NoLevel  == 0
Nobody   == "nobody"

ASSUME ConsoleConstants ==
    /\ Levels \subseteq 1 .. 60 /\ MaxStarts \in Nat /\ MaxUpsets \in Nat
    /\ Profiles \subseteq [group : Levels \cup {NoLevel}, project : Levels \cup {NoLevel},
                           admin : BOOLEAN, gl : BOOLEAN]
    /\ Worker \notin Requests /\ Nobody \notin Users

VARIABLES
    gitlab,   \* Tables -> Users -> access level in GitLab, NoLevel for none
    row,      \* Tables -> Users -> the mirror; "active" is pending_invite for invites
    known,    \* the group is in gitlab_groups
    user,     \* Users -> role, is_active, whether gitlab_user_id is set
    account,  \* Users -> Envs -> 0 none, 1 made, 2 with roles, 3 with a password
    proc,     \* Procs -> where it stands
    started,  \* how many requests there were
    upsets,   \* and how many changes in GitLab, unreadable lists and restarts
    mishaps   \* observation only: the kinds of mishap so far

vars == <<gitlab, row, known, user, account, proc, started, upsets, mishaps>>

NoRow == [status |-> "absent", level |-> NoLevel, link |-> FALSE]
Empty == [t \in Tables |-> [u \in Users |-> NoRow]]
Nothing == [t \in Tables |-> [u \in Users |-> NoLevel]]

\* list is what GitLab answered for the tables in ready, seen the rows as the
\* session read them, mine what it makes of them, pairs the users to revoke
\* once it has committed.
Idle == [pc |-> "idle", kind |-> "none", u |-> Nobody, env |-> "dev", todo |-> {},
         list |-> Nothing, ready |-> {}, seen |-> Empty, mine |-> Empty, found |-> FALSE,
         pairs |-> {}]

-----------------------------------------------------------------------------
(***************************************************************************)
(* Tiers.                                                                  *)
(***************************************************************************)

Tiers == <<"viewer", "developer", "maintainer", "owner">>
Rank(tier) == CHOOSE n \in DOMAIN Tiers : Tiers[n] = tier

access_level_to_tier(l) ==
    IF l >= 50 THEN "owner" ELSE IF l >= 40 THEN "maintainer"
    ELSE IF l >= 30 THEN "developer" ELSE "viewer"

level_grants_console(l) ==
    l # NoLevel /\ Rank(access_level_to_tier(l)) >= Rank("maintainer")

\* A row that is active, of a CNP user and high enough.
Opens(x) == x.status = "active" /\ x.link /\ level_grants_console(x.level)

\* get_effective_tier is the best active level of the user's rows: some row
\* grants the console.
ConsoleTier(u) == \E s \in Scopes : Opens(row[s][u])

\* get_current_user and require_tier, with the bypass of administrators.
MayEnter(u) == user[u].active /\ (user[u].admin \/ ConsoleTier(u))

-----------------------------------------------------------------------------
Granting(u) == \E p \in Procs : proc[p].kind = "grant" /\ proc[p].u = u
Revoking(u) == \E p \in Procs : u \in proc[p].pairs

Keeps(u) == user[u].active /\ ConsoleTier(u)

Note(K) == mishaps' = mishaps \cup K

\* The step changes users or rows under a grant or a revocation.
NoteChange(K) ==
    Note(K \cup (IF \E u \in Users : MayEnter(u) /\ ~MayEnter(u)' /\ Granting(u)
                THEN {"race"} ELSE {})
           \cup (IF \E u \in Users : ~Keeps(u) /\ Keeps(u)' /\ Revoking(u)
                THEN {"regained"} ELSE {}))

Goes(p, q)  == proc' = [proc EXCEPT ![p] = q]
Ends(p)     == Goes(p, Idle)
Started     == started < MaxStarts /\ started' = started + 1 /\ UNCHANGED upsets
Upset       == upsets < MaxUpsets /\ upsets' = upsets + 1 /\ UNCHANGED started

Mirror(t, u, l) ==
    IF l = NoLevel THEN NoRow
    ELSE [status |-> "active", level |-> l, link |-> t \in Scopes /\ user[u].gl]

\* GitLab mirrored as it is, accounts only of those who may have one.
Init ==
    /\ \E is \in [Users -> Profiles] :
          /\ gitlab = [t \in Tables |-> [u \in Users |-> IF t \in Scopes THEN is[u][t] ELSE NoLevel]]
          /\ user = [u \in Users |-> [active |-> TRUE, admin |-> is[u].admin, gl |-> is[u].gl]]
    /\ row = [t \in Tables |-> [u \in Users |-> Mirror(t, u, gitlab[t][u])]]
    /\ known \in BOOLEAN /\ (~known => gitlab["group"] = [u \in Users |-> NoLevel])
    /\ account \in [Users -> [Envs -> {0, Usable}]]
    /\ \A u \in Users : \A e, f \in Envs :
          account[u][e] = account[u][f] /\ (account[u][e] # 0 => MayEnter(u))
    /\ proc = [p \in Procs |-> Idle]
    /\ started = 0 /\ upsets = 0
    /\ mishaps = {}

-----------------------------------------------------------------------------
(***************************************************************************)
(* Synchronisation.  Members are fetched from GitLab table by table, the   *)
(* rows read (autoflush is off), everything is committed once.             *)
(***************************************************************************)

\* The session goes on with the next table, or commits.
After(q) == [q EXCEPT !.pc = IF q.todo = {} THEN "commit" ELSE "fetch"]

\* A request about one member changes no other.
Touched(q) == IF q.kind = "member" THEN {q.u} ELSE Users

\* The group is known after the discovery of subgroups; when that fails, only
\* if it was.
Discovered == {TRUE, known}

\* run_gitlab_sync.
SyncBegins(p) ==
    /\ proc[p].pc = "idle"
    /\ \E f \in Discovered :
          /\ IF f THEN UNCHANGED <<started, upsets>> ELSE Upset
          /\ Goes(p, [Idle EXCEPT !.kind = "sync", !.pc = "fetch", !.found = f,
                                  !.todo = IF f THEN Tables ELSE Tables \ {"group"}])
    /\ UNCHANGED <<gitlab, row, known, user, account, mishaps>>

\* The GitLab callback sets the id of the user with that e-mail.
LoggedIn(u) == [user EXCEPT ![u].gl = TRUE]

\* run_gitlab_sync_for_user after a login that may set the GitLab id, or on
\* demand: the groups GitLab names, their projects and those the user has a
\* row in.  An unreadable list of groups is an empty one.
UserSyncBegins(p) ==
    /\ proc[p].pc = "idle" /\ Started
    /\ \E u \in Users :
          /\ user' \in {LoggedIn(u), user} /\ user'[u].gl
          /\ \E g \in {gitlab["group"][u] # NoLevel, FALSE} :
             Goes(p, After([Idle EXCEPT !.kind = "sync", !.found = g, !.todo =
                 (IF g THEN {"group"} ELSE {}) \cup
                 (IF g \/ row["project"][u].link THEN {"project", "invites"} ELSE {})]))
    /\ UNCHANGED <<gitlab, row, known, account, mishaps>>

\* The group comes first, then the project with its invitations.
NextTables(q) == IF "group" \in q.todo THEN {"group"} ELSE {"project", "invites"}

\* members_all.list, invitations.list.
Fetched(q, T) ==
    [q EXCEPT !.todo = @ \ NextTables(q), !.ready = NextTables(q), !.pc = "read",
              !.list = [t \in Tables |-> IF t \in T THEN gitlab[t] ELSE Nothing[t]]]

Fetches(p) ==
    /\ proc[p].pc = "fetch"
    /\ Goes(p, Fetched(proc[p], NextTables(proc[p])))
    /\ UNCHANGED <<gitlab, row, known, user, account, started, upsets, mishaps>>

\* An unreadable group or project is left as it is, unreadable invitations
\* are taken for none.
FetchFails(p) ==
    /\ proc[p].pc = "fetch" /\ Upset
    /\ LET q == proc[p] IN
       \/ Goes(p, After([q EXCEPT !.todo = @ \ NextTables(q)]))
       \/ "group" \notin q.todo /\ Goes(p, Fetched(q, {"project"}))
    /\ UNCHANGED <<gitlab, row, known, user, account, mishaps>>

\* Rows GitLab no longer lists stay as they are.
SyncedKeeps(t, u, seen, l) ==
    IF l = NoLevel THEN seen
    ELSE [status |-> "active", level |-> l, link |-> seen.link \/ (t \in Scopes /\ user[u].gl)]

\* Upsert what GitLab lists, soft-revoke what it no longer does.
Synced(t, u, seen, l) ==
    IF l # NoLevel
    THEN [status |-> "active", level |-> l, link |-> seen.link \/ (t \in Scopes /\ user[u].gl)]
    ELSE IF seen.status = "active" THEN [seen EXCEPT !.status = "left"] ELSE seen

\* Only a departure counts.
LosesByLeaving(seen, new) ==
    seen.status = "active" /\ level_grants_console(seen.level) /\ new.status = "left"

\* _loses_console_tier, of a row with a CNP user.
LosesConsoleTier(seen, new) ==
    /\ seen.status = "active" /\ level_grants_console(seen.level) /\ new.link
    /\ new.status = "left" \/ ~level_grants_console(new.level)

Lost(T, seen, mine) == {u \in Users : \E s \in Scopes \cap T : LosesConsoleTier(seen[s][u], mine[s][u])}

\* The rows are read and changed in the session.
SeenBy(q) == [t \in Tables |-> IF t \in q.ready THEN row[t] ELSE q.seen[t]]
MadeBy(q) == [t \in Tables |-> IF t \in q.ready
                THEN [u \in Users |-> IF u \in Touched(q)
                        THEN Synced(t, u, row[t][u], q.list[t][u]) ELSE row[t][u]]
                ELSE q.mine[t]]

Reads(p) ==
    /\ proc[p].pc = "read"
    /\ LET q == proc[p] IN
       Goes(p, After([q EXCEPT !.seen = SeenBy(q), !.mine = MadeBy(q), !.list = Nothing,
                !.ready = {}, !.pairs = @ \cup Lost(q.ready, SeenBy(q), MadeBy(q))]))
    /\ UNCHANGED <<gitlab, row, known, user, account, started, upsets, mishaps>>

Dirty(q, t, u) == q.mine[t][u] # q.seen[t][u]
Collides(q) == \E t \in Tables, u \in Users :
    Dirty(q, t, u) /\ q.seen[t][u].status = "absent" /\ row[t][u].status # "absent"
Overtaken(q) == \E t \in Tables, u \in Users :
    Dirty(q, t, u) /\ q.seen[t][u] # row[t][u]

\* The UPDATE has the columns the session changed.
Column(seen, mine, now) == IF mine # seen THEN mine ELSE now
Merged(seen, mine, now) ==
    [status |-> Column(seen.status, mine.status, now.status),
     level  |-> Column(seen.level, mine.level, now.level),
     link   |-> Column(seen.link, mine.link, now.link)]

\* Revocation follows the commit.
ToRevoke(q) == IF q.pairs = {} THEN Idle ELSE [Idle EXCEPT !.kind = q.kind, !.pc = "revoke",
                                                           !.pairs = q.pairs]

\* One commit: the changed columns of each row.  A row somebody else inserted
\* meanwhile fails all of it.
Commits(p) ==
    /\ proc[p].pc = "commit"
    /\ LET q == proc[p] IN
       \/ /\ Collides(q) /\ Ends(p)
          /\ UNCHANGED <<row, known, mishaps>>
       \/ /\ ~Collides(q)
          /\ row' = [t \in Tables |-> [u \in Users |->
                       Merged(q.seen[t][u], q.mine[t][u], row[t][u])]]
          /\ known' = (known \/ q.found)
          /\ Goes(p, ToRevoke(q))
          /\ UNCHANGED user
          /\ NoteChange(IF Overtaken(q) THEN {"stale"} ELSE {})
    /\ UNCHANGED <<gitlab, user, account, started, upsets>>

\* The level of an invitation is of no consequence.
InviteLevel == CHOOSE l \in Levels : TRUE

InGitLab(t, u, l) == [gitlab EXCEPT ![t][u] = l]

\* add_member and invite_member change GitLab first, then the row as a
\* synchronisation of that user would.
MemberBegins(p) ==
    /\ proc[p].pc = "idle" /\ Started
    /\ \E t \in {"project", "invites"}, u \in Users, l \in Levels :
          /\ t = "invites" => l = InviteLevel
          /\ gitlab' = InGitLab(t, u, l)
          /\ Goes(p, [Idle EXCEPT !.kind = "member", !.pc = "read", !.u = u, !.ready = {t},
                                  !.list[t][u] = l])
    /\ UNCHANGED <<row, known, user, account, mishaps>>

-----------------------------------------------------------------------------
(***************************************************************************)
(* Revocation, once the change is committed; best effort.                  *)
(***************************************************************************)

\* Whoever lost a membership is revoked, whatever is left.
SparedNever(q, u) == FALSE

\* revoke_console_access_if_not_maintainer: another membership may be enough;
\* a deactivated user keeps nothing.
Spared(q, u) == q.kind # "deactivate" /\ ConsoleTier(u)

Done(q, u) == IF q.pairs = {u} THEN Idle ELSE [q EXCEPT !.pc = "revoke", !.pairs = @ \ {u}]

\* The tier is read in a transaction of its own.
ReadsTier(p) ==
    /\ proc[p].pc = "revoke"
    /\ \E u \in proc[p].pairs :
          \/ /\ Goes(p, IF Spared(proc[p], u) THEN Done(proc[p], u)
                         ELSE [proc[p] EXCEPT !.pc = "delete", !.u = u, !.env = "dev"])
             /\ UNCHANGED mishaps
          \/ Goes(p, Done(proc[p], u)) /\ Note({"kept"})
    /\ UNCHANGED <<gitlab, row, known, user, account, started, upsets>>

\* Grants that have got the id of the account.
Holds(p, u, e) == proc[p].pc \in {"roles", "password"} /\ proc[p].u = u /\ proc[p].env = e

AfterDelete(q) == IF q.env = "dev" THEN [q EXCEPT !.env = "prod"] ELSE Done(q, q.u)

\* revoke_member: dev, then prod; a call that fails keeps the account.  An
\* account made later has another id: grants that have the old one are stuck.
DeletesAccount(p) ==
    /\ proc[p].pc = "delete"
    /\ LET q == proc[p] IN
       \/ /\ account' = [account EXCEPT ![q.u][q.env] = 0]
          /\ proc' = [x \in Procs |-> IF x = p THEN AfterDelete(q)
                                      ELSE IF Holds(x, q.u, q.env) THEN [proc[x] EXCEPT !.pc = "gone"]
                                      ELSE proc[x]]
          /\ UNCHANGED mishaps
       \/ /\ account[q.u][q.env] # 0
          /\ Goes(p, AfterDelete(q))
          /\ Note({"kept"})
          /\ UNCHANGED account
    /\ UNCHANGED <<gitlab, row, known, user, started, upsets>>

\* PATCH /users/{id}: the revocation is a task that runs after the answer.
PatchBegins(p) ==
    /\ proc[p].pc = "idle" /\ Started
    /\ \E u \in Users, a, d \in BOOLEAN :
          /\ user' = [user EXCEPT ![u].active = a, ![u].admin = d]
          /\ user' # user
          /\ LET deactivated == user[u].active /\ ~a
                 demoted     == user[u].admin /\ ~d IN
             Goes(p, IF deactivated \/ demoted
                     THEN [Idle EXCEPT !.kind = IF deactivated THEN "deactivate" ELSE "demote",
                                       !.pc = "revoke", !.pairs = {u}]
                     ELSE Idle)
    /\ UNCHANGED <<gitlab, row, known, account>>
    /\ NoteChange({})

-----------------------------------------------------------------------------
(***************************************************************************)
(* grant_console_access: the caller's tier is checked once, then Keycloak  *)
(* is called several times.                                                *)
(***************************************************************************)

\* Anybody logged in is served.
GrantBeginsUnchecked(p) ==
    /\ proc[p].pc = "idle" /\ Started
    /\ \E u \in Users, e \in Envs :
          Goes(p, [Idle EXCEPT !.kind = "grant", !.pc = "make", !.u = u, !.env = e])
    /\ UNCHANGED <<gitlab, row, known, user, account, mishaps>>

GrantBegins(p) ==
    /\ proc[p].pc = "idle" /\ Started
    /\ \E u \in Users, e \in Envs :
          /\ MayEnter(u)
          /\ Goes(p, [Idle EXCEPT !.kind = "grant", !.pc = "make", !.u = u, !.env = e])
    /\ UNCHANGED <<gitlab, row, known, user, account, mishaps>>

\* ensure_cnp_admin_user, set_team_console_roles, set_temporary_password.
Stage(pc) == CASE pc = "make" -> 1 [] pc = "roles" -> 2 [] pc = "password" -> Usable
AfterStage(pc) == CASE pc = "make" -> "roles" [] pc = "roles" -> "password" [] pc = "password" -> "idle"

\* Each step is idempotent; with the id of a deleted account the later ones
\* are a 404.  Any of them may fail and end the request.
Grants(p) ==
    /\ proc[p].pc \in Granters
    /\ LET q == proc[p]
           has == account[q.u][q.env] IN
       \/ /\ q.pc # "gone"
          /\ account' = [account EXCEPT ![q.u][q.env] = IF has < Stage(q.pc) THEN Stage(q.pc) ELSE has]
          /\ IF q.pc = "password" THEN Ends(p) ELSE Goes(p, [q EXCEPT !.pc = AfterStage(q.pc)])
       \/ Ends(p) /\ UNCHANGED account
    /\ UNCHANGED <<gitlab, row, known, user, started, upsets, mishaps>>

-----------------------------------------------------------------------------
\* In GitLab, members come, go and change, invitations are accepted (the
\* member comes with it) or withdrawn.
GitLabChanges ==
    /\ Upset
    /\ \E u \in Users, l \in Levels \cup {NoLevel} :
          \/ \E s \in Scopes : gitlab' = [gitlab EXCEPT ![s][u] = l]
          \/ gitlab["invites"][u] # NoLevel
             /\ gitlab' = [gitlab EXCEPT !["invites"][u] = NoLevel, !["project"][u] = l]
    /\ UNCHANGED <<row, known, user, account, proc, mishaps>>

Restart ==
    /\ \E p \in Procs : proc[p].pc # "idle"
    /\ Upset
    /\ proc' = [p \in Procs |-> Idle]
    /\ Note({"crash"})
    /\ UNCHANGED <<gitlab, row, known, user, account>>

Begins(p) == UserSyncBegins(p) \/ MemberBegins(p) \/ PatchBegins(p) \/ GrantBegins(p)

Continues(p) == \/ Fetches(p) \/ Reads(p) \/ Commits(p)
                \/ ReadsTier(p) \/ DeletesAccount(p) \/ Grants(p)

Next ==
    \/ \E p \in Requests : Begins(p)
    \/ SyncBegins(Worker)
    \/ \E p \in Procs : Continues(p) \/ FetchFails(p)
    \/ GitLabChanges
    \/ Restart

Spec == Init /\ [][Next]_vars

\* The worker's loop never ends and the calls it waits for return.
FairSpec == /\ Spec
            /\ WF_vars(SyncBegins(Worker) \/ Continues(Worker))

-----------------------------------------------------------------------------
Rows == [status : {"absent", "active", "left"}, level : Levels \cup {NoLevel}, link : BOOLEAN]
RowTables == [Tables -> [Users -> Rows]]
Lists == [Tables -> [Users -> Levels \cup {NoLevel}]]
People == [active : BOOLEAN, admin : BOOLEAN, gl : BOOLEAN]
Sessions == {"fetch", "read", "commit"}
Revokers == {"revoke", "delete"}
ProcStates ==
    [pc : {"idle"} \cup Sessions \cup Revokers \cup Granters,
     kind : {"none", "sync", "member", "demote", "deactivate", "grant"},
     u : Users \cup {Nobody}, env : Envs, todo : SUBSET Tables, list : Lists,
     ready : SUBSET Tables, seen : RowTables, mine : RowTables, found : BOOLEAN,
     pairs : SUBSET Users]

\* Every variable has its type.
TypeOK ==
    /\ gitlab \in Lists
    /\ row \in RowTables
    /\ known \in BOOLEAN
    /\ user \in [Users -> People]
    /\ account \in [Users -> [Envs -> 0 .. Usable]]
    /\ proc \in [Procs -> ProcStates]
    /\ started \in 0 .. MaxStarts /\ upsets \in 0 .. MaxUpsets
    /\ mishaps \subseteq Kinds

Without(K) == mishaps \cap K = {}

\* Whoever may no longer enter, by the roles and memberships the platform
\* knows, has no account, once the revocations under way have ended.  Four
\* things leave one behind for good: a call to Keycloak that failed, a
\* process that died with the pairs in memory, a grant that checked the tier
\* before it was lost, a session that overwrote a row it had read earlier.
AccountsJustified ==
    \A u \in Users :
        (\E e \in Envs : account[u][e] # 0) /\ ~Revoking(u) /\ ~Granting(u)
            /\ Without({"kept", "crash", "race", "stale"})
        => MayEnter(u)

(***************************************************************************)
(* What makes them inductive (ConsoleAccessProofs).                        *)
(***************************************************************************)

\* The place of a process agrees with its kind, and what it needs is there.
Shaped(q) ==
    /\ q.pc \in Granters <=> q.kind = "grant"
    /\ q.pc \in Granters => q.u \in Users
    /\ q.pc = "delete" => q.u \in q.pairs
    /\ q.kind = "deactivate" => q.pc \in Revokers
ProcShape == \A p \in Procs : Shaped(proc[p])

\* A grant holds an account with all the stages before its own.
Ordered(q) ==
    /\ q.pc = "roles" => account[q.u][q.env] >= 1
    /\ q.pc = "password" => account[q.u][q.env] >= 2
GrantsInOrder == \A p \in Procs : Ordered(proc[p])

\* A session has among its pairs every user it takes the tier from.
KnowsLosses(q) ==
    q.pc \in Sessions => \A s \in Scopes, u \in Users :
        Opens(q.seen[s][u]) /\ ~Opens(q.mine[s][u]) => u \in q.pairs
LossesKnown == \A p \in Procs : KnowsLosses(proc[p])

\* Without a race, a grant is on behalf of somebody who still may enter.
GrantsJustified == Without({"race"}) => \A u \in Users : Granting(u) => MayEnter(u)

\* The process has yet to delete the account of u in e, whatever tier it
\* reads: of an inactive user only a deactivation spares nothing.
WillRevoke(q, u, e) ==
    /\ q.pc \in Revokers /\ u \in q.pairs
    /\ q.pc = "delete" /\ q.u = u /\ q.env = "prod" => e = "prod"
    /\ ~user[u].active => q.kind = "deactivate"

\* Every account of somebody who may not enter has its revocation.
RevocationDue ==
    Without({"kept", "crash", "race", "stale"}) =>
        \A u \in Users, e \in Envs :
            account[u][e] # 0 => MayEnter(u) \/ \E p \in Procs : WillRevoke(proc[p], u, e)

\* Whoever is about to lose an account keeps no tier, unless it came back.
Deletes(q, u) == u \in q.pairs /\ (q.kind = "deactivate" \/ (q.pc = "delete" /\ q.u = u))
DeletionsDue ==
    Without({"regained"}) =>
        \A p \in Procs, u \in Users : Deletes(proc[p], u) => ~Keeps(u)

ConsoleInv == /\ TypeOK /\ AccountsJustified
              /\ ProcShape /\ GrantsInOrder /\ LossesKnown /\ GrantsJustified
              /\ RevocationDue /\ DeletionsDue

\* Nobody who is a Maintainer by any of the two memberships loses an account,
\* whatever happens to the other one, unless the tier came back while the
\* revocation was under way.
KeptWhileMaintainer ==
    [][\A u \in Users, e \in Envs :
          account[u][e] # 0 /\ account'[u][e] = 0 /\ Keeps(u) => "regained" \in mishaps]_vars

\* The tables follow GitLab.
Mirrored ==
    /\ \A t \in Tables, u \in Users :
          IF gitlab[t][u] = NoLevel THEN row[t][u].status # "active"
          ELSE row[t][u].status = "active" /\ row[t][u].level = gitlab[t][u]
                  /\ (t \in Scopes /\ user[u].gl => row[t][u].link)

\* Once GitLab is left alone the worker brings every table in line with it,
\* whatever failed, collided or was overwritten before.
EventuallyMirrored == <>[]Mirrored

Allowed    == {u \in Users : MayEnter(u)}
OpenGrants == {x \in Users \X Envs : \E p \in Procs :
                  proc[p].kind = "grant" /\ proc[p].u = x[1] /\ proc[p].env = x[2]}

Accounts == INSTANCE ConsoleAccounts WITH
    Complete <- Usable, may <- Allowed, open <- OpenGrants, account <- account

\* The accounts are made as ConsoleAccounts promises: one step after another,
\* only on behalf of somebody who might enter when the grant began.
AccountsAsPromised == Accounts!ASpec
=============================================================================
