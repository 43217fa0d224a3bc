-------------------------- MODULE AssistantProofs --------------------------
(***************************************************************************)
(* Proofs about Assistant, for every set of applications, groups and       *)
(* concurrent questions, and all limits; and, after them, about            *)
(* SecurityScan, whose summaries the assistant writes, for every set of    *)
(* scans, callbacks and users.                                             *)
(***************************************************************************)
EXTENDS Assistant, SecurityScan, FiniteSetTheorems, TLAPS

Questions == {Idle} \cup Prompts \cup Rounds \cup Answers

LEMMA Bounds ==
    /\ PerMinute \in Nat /\ PerDay \in Nat /\ Budget \in Nat /\ MAX_TOOL_ROUNDS \in Nat
    /\ max_retries \in Nat /\ MaxTime \in Nat /\ MaxAsks \in Nat /\ MaxUpsets \in Nat
    /\ Day \in Nat \ {0} /\ MaxCalls \in Nat \ {0}
BY AssistantAssumption

\* The states of a question are told apart by their pc.
LEMMA QuestionKinds ==
    ASSUME NEW x \in Questions
    PROVE  /\ x \in Prompts <=> x.pc = "prompt"
           /\ x \in Rounds <=> x.pc \in {"post", "tools", "hung"}
           /\ x \in Answers <=> x.pc = "record"
           /\ x = Idle <=> x.pc = "idle"
           /\ x.pc \in {"prompt", "post", "tools", "hung", "record", "idle"}
  <1>1. Idle.pc = "idle"
    BY DEF Idle
  <1>2. \A y \in Prompts : y.pc = "prompt"
    BY DEF Prompts
  <1>3. \A y \in Rounds : y.pc \in {"post", "tools", "hung"}
    BY DEF Rounds
  <1>4. \A y \in Answers : y.pc = "record"
    BY DEF Answers
  <1> QED
    BY <1>1, <1>2, <1>3, <1>4 DEF Questions

\* The settings in force are settings.
LEMMA ConfigType ==
    ASSUME NEW r \in {NoRow} \cup Rows
    PROVE  effective_config(r) \in Settings
  <1>1. Env \in Settings
    BY AssistantAssumption
  <1>2. CASE r = NoRow
    BY <1>1, <1>2 DEF effective_config
  <1>3. CASE r # NoRow
    <2>1. r \in Rows
      BY <1>3
    <2> QED
      BY <1>1, <1>3, <2>1 DEF effective_config, Settings, Rows, Providers
  <1> QED
    BY <1>2, <1>3

\* Patching a row with fields of a row gives a row.
LEMMA RowPatched ==
    ASSUME NEW old \in Rows, NEW payload \in Payloads
    PROVE  Patched(old, payload) \in Rows
  <1>1. PICK r \in Rows : \A f \in DOMAIN payload : f \in DOMAIN r /\ payload[f] = r[f]
    BY AssistantAssumption
  <1>2. DOMAIN old = {"enabled", "kb", "access", "allowed", "provider"}
    BY DEF Rows
  <1> DEFINE n == Patched(old, payload)
  <1>3. n = [f \in DOMAIN old |-> IF f \in DOMAIN payload THEN payload[f] ELSE old[f]]
    BY DEF Patched
  <1>4. n = [enabled |-> n.enabled, kb |-> n.kb, access |-> n.access, allowed |-> n.allowed,
             provider |-> n.provider]
    BY <1>2, <1>3
  <1>5. /\ n.enabled \in {"null", "on", "off"} /\ n.kb \in BOOLEAN /\ n.access \in BOOLEAN
        /\ n.allowed \in SUBSET Apps /\ n.provider \in Providers \cup {"null"}
    BY <1>1, <1>2, <1>3 DEF Rows
  <1> QED
    BY <1>4, <1>5 DEF Rows

LEMMA FlagsPatched ==
    ASSUME NEW old \in [chat : BOOLEAN, summary : BOOLEAN], NEW payload \in AppPayloads
    PROVE  Patched(old, payload) \in [chat : BOOLEAN, summary : BOOLEAN]
  <1>0. PICK F \in SUBSET {"chat", "summary"} : payload \in [F -> BOOLEAN]
    BY AssistantAssumption
  <1>1. \A f \in DOMAIN payload : payload[f] \in BOOLEAN
    BY <1>0
  <1>2. DOMAIN old = {"chat", "summary"}
    OBVIOUS
  <1> DEFINE n == Patched(old, payload)
  <1>3. n = [f \in DOMAIN old |-> IF f \in DOMAIN payload THEN payload[f] ELSE old[f]]
    BY DEF Patched
  <1>4. n = [chat |-> n.chat, summary |-> n.summary]
    BY <1>2, <1>3
  <1>5. n.chat \in BOOLEAN /\ n.summary \in BOOLEAN
    BY <1>1, <1>2, <1>3
  <1> QED
    BY <1>4, <1>5

-----------------------------------------------------------------------------
(* The session of the platform agent: what it holds and where it was read. *)

\* Reading the applications changes nothing else in a session.
LEMMA WithAppsIs ==
    ASSUME NEW s \in Sessions, NEW m
    PROVE  /\ WithApps(s, m) \in Sessions
           /\ WithApps(s, m).admin = s.admin /\ WithApps(s, m).cfg = s.cfg
           /\ WithApps(s, m).page = s.page /\ WithApps(s, m).levels = s.levels
           /\ WithApps(s, m).groups = s.groups
           /\ WithApps(s, m).apps = IF s.apps = NotRead THEN ReadApps(s, m) ELSE s.apps
  <1>1. ReadApps(s, m) \subseteq Apps
    BY DEF ReadApps
  <1> QED
    BY <1>1 DEF WithApps, Sessions

\* Who is in a group the session shows could see it at a moment of S.
LEMMA GroupSeen ==
    ASSUME NEW s \in Sessions, NEW S \in SUBSET (Worlds \X Settings), ReadFrom(s, S),
           NEW g \in VisibleGroups(s)
    PROVE  g \in Groups /\ \E p \in S : SeesGroup(p[1], g)
  <1>1. g \in Groups \ SystemGroups /\ (s.admin \/ s.groups[g] > 0)
    BY DEF VisibleGroups, Sessions
  <1> QED
    BY <1>1 DEF ReadFrom, SeesGroup

\* The applications a session reads are visible to the user at a moment of S.
LEMMA AppsSeen ==
    ASSUME NEW s \in Sessions, NEW S \in SUBSET (Worlds \X Settings), ReadFrom(s, S),
           NEW m, \E p \in S : p[1].project = m.project,
           NEW a \in WithApps(s, m).apps
    PROVE  a \in Apps /\ \E p \in S : SeesApp(p[1], a)
  <1>1. CASE s.apps # NotRead
    BY <1>1, WithAppsIs DEF ReadFrom, Sessions
  <1>2. CASE s.apps = NotRead
    <2>1. a \in Apps /\ (s.admin \/ Owner[a] \in VisibleGroups(s) \/ m.project[a] > 0)
      BY <1>2, WithAppsIs DEF ReadApps
    <2>2. CASE s.admin
      BY <2>1, <2>2 DEF ReadFrom, SeesApp
    <2>3. CASE Owner[a] \in VisibleGroups(s)
      <3>1. PICK p \in S : SeesGroup(p[1], Owner[a])
        BY <2>3, GroupSeen
      <3> QED
        BY <2>1, <3>1 DEF SeesGroup, SeesApp
    <2>4. CASE m.project[a] > 0
      BY <2>1, <2>4 DEF SeesApp
    <2> QED
      BY <2>1, <2>2, <2>3, <2>4
  <1> QED
    BY <1>1, <1>2

\* A session with its applications read is still one of moments of S.
LEMMA WithAppsFollows ==
    ASSUME NEW s \in Sessions, NEW S \in SUBSET (Worlds \X Settings), ReadFrom(s, S),
           NEW m, \E p \in S : p[1].project = m.project
    PROVE  ReadFrom(WithApps(s, m), S)
  <1>1. \A a \in WithApps(s, m).apps : \E p \in S : SeesApp(p[1], a)
    BY AppsSeen
  <1> QED
    BY <1>1, WithAppsIs DEF ReadFrom

\* Later moments take nothing away.
LEMMA ReadFromGrows ==
    ASSUME NEW s, NEW S, NEW T, S \subseteq T, ReadFrom(s, S)
    PROVE  ReadFrom(s, T)
BY DEF ReadFrom

\* The session a prompt opens.
LEMMA SessionIs ==
    ASSUME TypeOK, NEW r \in Requests, q[r] \in Prompts, SessionFollowed(q[r])
    PROVE  Session(r) \in Sessions /\ ReadFrom(Session(r), q[r].since)
  <1> DEFINE x == q[r]
             m == [world EXCEPT !.admin = x.admin]
             s == NewSession(m, x.cfg, x.page)
  <1>1. /\ x.page \in Pages /\ x.cfg \in Settings /\ x.admin \in BOOLEAN
        /\ x.since \in SUBSET (Worlds \X Settings)
    BY DEF Prompts
  <1>2. world \in Memberships
    BY AssistantAssumption DEF TypeOK
  <1>3. m.admin = x.admin /\ m.group = world.group /\ m.project = world.project
    BY <1>2 DEF Memberships
  <1>4. /\ s \in Sessions /\ s.admin = x.admin /\ s.cfg = x.cfg /\ s.levels = world.project
        /\ \A g \in Groups \ SystemGroups : s.groups[g] = world.group[g]
        /\ s.apps = NotRead
    <2>1. [g \in Groups \ SystemGroups |-> m.group[g]] \in [Groups \ SystemGroups -> Levels]
      BY <1>2, <1>3 DEF Memberships
    <2>2. m.project \in [Apps -> Levels]
      BY <1>2, <1>3 DEF Memberships
    <2> HIDE DEF m
    <2> QED
      BY <1>1, <1>3, <2>1, <2>2 DEF NewSession, Sessions
  <1>5. <<world, effective_config(row)>> \in x.since
    BY DEF SessionFollowed
  <1>6. ReadFrom(s, x.since)
    <2> HIDE DEF s, m
    <2> QED
      BY <1>4, <1>5 DEF SessionFollowed, ReadFrom
  <1>7. Session(r) \in {s, WithApps(s, world)}
    BY DEF Session
  <1> HIDE DEF s, m
  <1>8. WithApps(s, world) \in Sessions /\ ReadFrom(WithApps(s, world), x.since)
    BY <1>1, <1>4, <1>5, <1>6, WithAppsIs, WithAppsFollows
  <1> QED
    BY <1>4, <1>6, <1>7, <1>8

-----------------------------------------------------------------------------
(* Roles. *)

LEMMA MaxOfIs ==
    ASSUME NEW S \in SUBSET Levels, S # {}
    PROVE  MaxOf(S) \in S /\ \A y \in S : y <= MaxOf(S)
  <1>1. \E x \in S : \A y \in S : y <= x
    <2>1. CASE 50 \in S
      BY <2>1 DEF Levels
    <2>2. CASE 50 \notin S /\ 40 \in S
      BY <2>2 DEF Levels
    <2>3. CASE 50 \notin S /\ 40 \notin S /\ 30 \in S
      BY <2>3 DEF Levels
    <2>4. CASE 50 \notin S /\ 40 \notin S /\ 30 \notin S /\ 20 \in S
      BY <2>4 DEF Levels
    <2>5. CASE 50 \notin S /\ 40 \notin S /\ 30 \notin S /\ 20 \notin S
      <3>1. S = {0}
        BY <2>5 DEF Levels
      <3> QED
        BY <3>1
    <2> QED
      BY <2>1, <2>2, <2>3, <2>4, <2>5
  <1> QED
    BY <1>1 DEF MaxOf

LEMMA TierIs ==
    ASSUME NEW l \in Levels
    PROVE  Tier(l) = IF l = 50 THEN 3 ELSE IF l = 40 THEN 2 ELSE IF l = 30 THEN 1 ELSE 0
BY DEF Tier, Levels

\* A role is a rank, and a session asks for it whatever applications it has read.
LEMMA MaxRoleIs ==
    ASSUME NEW s \in Sessions
    PROVE  /\ max_role(s) \in 0 .. 4
           /\ \A m : max_role(WithApps(s, m)) = max_role(s)
  <1> DEFINE L == {0} \cup {s.groups[g] : g \in DOMAIN s.groups} \cup {s.levels[a] : a \in Apps}
  <1>1. L \in SUBSET Levels /\ L # {}
    BY DEF Sessions, Levels
  <1>2. MaxOf(L) \in Levels
    BY <1>1, MaxOfIs
  <1>3. Tier(MaxOf(L)) \in 0 .. 3
    BY <1>2, TierIs
  <1>4. max_role(s) = IF s.admin THEN 4 ELSE Tier(MaxOf(L))
    BY DEF max_role, Admin
  <1>5. \A m : max_role(WithApps(s, m)) = max_role(s)
    BY WithAppsIs DEF max_role
  <1> QED
    BY <1>3, <1>4, <1>5

\* The role a session gives on an application was held, by the API's rule, at a moment of S.
LEMMA RoleHeld ==
    ASSUME NEW s \in Sessions, NEW S \in SUBSET (Worlds \X Settings), ReadFrom(s, S),
           NEW a \in Apps, NEW n \in {1, 2}, role_for_app(s, a) >= n
    PROVE  HadRole(S, a, n)
  <1>1. CASE s.admin
    BY <1>1 DEF ReadFrom, HadRole, RoleInAPI, Admin
  <1>2. CASE ~s.admin
    <2>1. PICK p \in S : /\ s.levels = p[1].project
                         /\ \A g \in Groups \ SystemGroups : s.groups[g] = p[1].group[g]
      BY DEF ReadFrom
    <2>2. p[1] \in Memberships /\ Owner[a] \in Groups
      BY AssistantAssumption, ToolsAssumption
    <2> DEFINE l == p[1].project[a]
               h == p[1].group[Owner[a]]
               k == GroupLevel(s, a)
    <2>3. l \in Levels /\ h \in Levels /\ k \in {0, h} /\ s.levels[a] = l
      BY <2>1, <2>2 DEF Memberships, GroupLevel, Sessions
    <2>4. role_for_app(s, a) = Tier(MaxOf({l, k}))
      BY <1>2, <2>3 DEF role_for_app
    <2>5. RoleInAPI(p[1], a) = IF p[1].admin THEN 4 ELSE Tier(MaxOf({l, h}))
      BY DEF RoleInAPI, Admin
    <2> HIDE DEF l, h, k
    <2>6. {l, k} \in SUBSET Levels /\ {l, h} \in SUBSET Levels
      BY <2>3 DEF Levels
    <2>7. MaxOf({l, k}) \in Levels /\ MaxOf({l, h}) \in Levels /\ MaxOf({l, k}) <= MaxOf({l, h})
      <3>1. MaxOf({l, k}) \in {l, k} /\ MaxOf({l, h}) \in {l, h}
            /\ l <= MaxOf({l, h}) /\ h <= MaxOf({l, h})
        BY <2>6, MaxOfIs
      <3> QED
        BY <2>3, <2>6, <3>1 DEF Levels
    <2>8. Tier(MaxOf({l, h})) >= n
      BY <2>4, <2>7, TierIs DEF Levels
    <2> QED
      BY <2>5, <2>8 DEF HadRole
  <1> QED
    BY <1>1, <1>2

-----------------------------------------------------------------------------
(* What the tools tell from a session, and from one whose applications are read. *)

Known(s, S) == s \in Sessions /\ S \in SUBSET (Worlds \X Settings) /\ ReadFrom(s, S)
Ready(s, S) ==
    /\ Known(s, S)
    /\ \A a \in s.apps : a \in Apps /\ \E p \in S : SeesApp(p[1], a)

\* An application the session shows and allows was open.
LEMMA AllowedOpen ==
    ASSUME NEW s, NEW S, Ready(s, S), NEW T \in SUBSET s.apps, NEW a \in AllowedOf(s, T)
    PROVE  a \in T /\ a \in Apps /\ Open(S, a)
BY DEF Ready, Known, AllowedOf, ReadFrom, Open

\* Names resolve to what the session shows.
LEMMA Resolved ==
    ASSUME NEW s, NEW g, NEW a
    PROVE  /\ resolve_app(s, a) \subseteq s.apps /\ GroupScope(s, g) \subseteq s.apps
           /\ resolve_group(s, g) \subseteq VisibleGroups(s)
           /\ TheGroup(s, g) \subseteq VisibleGroups(s)
BY DEF resolve_app, GroupScope, resolve_group, TheGroup

LEMMA FactIs ==
    ASSUME NEW kind, NEW T, NEW f \in Facts(kind, T)
    PROVE  f[1] = kind /\ f[2] \in T /\ f = <<kind, f[2]>>
BY DEF Facts

\* Which kinds of facts are open to whom.
LEMMA PermittedKinds ==
    ASSUME NEW S, NEW f
    PROVE  /\ f[1] = "status" /\ (\E p \in S : SeesApp(p[1], f[2])) => Permitted(S, f)
           /\ f[1] \in {"group", "members", "news", "total"}
                /\ (\E p \in S : SeesGroup(p[1], f[2])) => Permitted(S, f)
           /\ f[1] \in {"details", "activity"} /\ Open(S, f[2]) => Permitted(S, f)
           /\ f[1] \in {"metrics", "costs"} /\ (\E a \in Resembling({f[2]}) : Open(S, a))
                => Permitted(S, f)
           /\ f[1] = "keys_prod" /\ Open(S, f[2]) /\ HadRole(S, f[2], 2) => Permitted(S, f)
           /\ f[1] = "health" /\ (\E p \in S : p[1].admin) => Permitted(S, f)
           /\ f[1] \in {"keys_dev", "logs", "pods", "pipeline"} /\ Open(S, f[2])
                /\ HadRole(S, f[2], 1) => Permitted(S, f)
BY DEF Permitted

\* Facts about groups.
LEMMA GroupFacts ==
    ASSUME NEW s, NEW S, Known(s, S), NEW T \in SUBSET VisibleGroups(s),
           NEW kind \in {"group", "members", "news", "total"}, NEW f \in Facts(kind, T)
    PROVE  Permitted(S, f)
  <1>1. f[1] = kind /\ f[2] \in VisibleGroups(s)
    BY FactIs
  <1>2. \E p \in S : SeesGroup(p[1], f[2])
    BY <1>1, GroupSeen DEF Known
  <1> QED
    BY <1>1, <1>2, PermittedKinds

\* Facts about applications the session allows.
LEMMA AppFacts ==
    ASSUME NEW s, NEW S, Ready(s, S), NEW T \in SUBSET s.apps,
           NEW kind \in {"details", "activity"}, NEW f \in Facts(kind, AllowedOf(s, T))
    PROVE  Permitted(S, f)
  <1>1. f[1] = kind /\ f[2] \in AllowedOf(s, T)
    BY FactIs
  <1>2. Open(S, f[2])
    BY <1>1, AllowedOpen
  <1> QED
    BY <1>1, <1>2, PermittedKinds

\* Facts found under the name of an application the session allows.
LEMMA NameFacts ==
    ASSUME NEW s, NEW S, Ready(s, S), NEW T \in SUBSET s.apps,
           NEW kind \in {"metrics", "costs"}, NEW f \in Facts(kind, Resembling(AllowedOf(s, T)))
    PROVE  Permitted(S, f)
  <1>1. f[1] = kind /\ f[2] \in Resembling(AllowedOf(s, T))
    BY FactIs
  <1>2. PICK a \in AllowedOf(s, T) :
            f[2] \in Apps /\ (f[2] = a \/ <<f[2], a>> \in Alike \/ <<a, f[2]>> \in Alike)
    BY <1>1 DEF Resembling
  <1>3. a \in Apps /\ Open(S, a)
    BY AllowedOpen
  <1>4. a \in Resembling({f[2]})
    BY <1>2, <1>3 DEF Resembling
  <1> QED
    BY <1>1, <1>3, <1>4, PermittedKinds

\* Facts that ask for a role on the application.
LEMMA RoleFacts ==
    ASSUME NEW s, NEW S, Ready(s, S), NEW T \in SUBSET s.apps,
           NEW kind \in {"keys_dev", "keys_prod", "logs", "pods", "pipeline"},
           NEW n \in {1, 2}, kind = "keys_prod" <=> n = 2,
           NEW f \in Facts(kind, {x \in AllowedOf(s, T) : role_for_app(s, x) >= n})
    PROVE  Permitted(S, f)
  <1>1. f[1] = kind /\ f[2] \in AllowedOf(s, T) /\ role_for_app(s, f[2]) >= n
    BY FactIs
  <1>2. f[2] \in Apps /\ Open(S, f[2])
    BY <1>1, AllowedOpen
  <1>3. HadRole(S, f[2], n)
    BY <1>1, <1>2, RoleHeld DEF Ready, Known
  <1> QED
    BY <1>1, <1>2, <1>3, PermittedKinds

-----------------------------------------------------------------------------
(* One call: whatever the tool and its arguments. *)

\* Costs are those of one group, and of applications of that group.
LEMMA CostFacts ==
    ASSUME NEW s, NEW S, Ready(s, S), NEW g, NEW f \in get_costs(s, g)
    PROVE  Permitted(S, f)
  <1>1. TheGroup(s, g) \subseteq VisibleGroups(s)
    BY Resolved
  <1>2. CASE f \in Facts("total", TheGroup(s, g))
    BY <1>1, <1>2, GroupFacts DEF Ready
  <1>3. CASE f \notin Facts("total", TheGroup(s, g))
    <2>1. PICK h \in TheGroup(s, g) :
              f \in Facts("costs", {x \in Resembling(AllowedOf(s, {a \in s.apps : Owner[a] = h})) :
                                        Owner[x] = h})
      BY <1>3 DEF get_costs
    <2>2. f \in Facts("costs", Resembling(AllowedOf(s, {a \in s.apps : Owner[a] = h})))
      BY <2>1 DEF Facts
    <2> QED
      BY <2>2, NameFacts
  <1> QED
    BY <1>2, <1>3

\* The tools that need the applications.
LEMMA AppToolFacts ==
    ASSUME NEW s, NEW S, Ready(s, S), NEW t \in Tools, NEW g, NEW a,
           NEW e \in {"dev", "prod"}, NEW f \in call(s, t, g, a, e)
    PROVE  Permitted(S, f)
  <1>0. /\ resolve_app(s, a) \in SUBSET s.apps /\ GroupScope(s, g) \in SUBSET s.apps
        /\ resolve_group(s, g) \in SUBSET VisibleGroups(s)
        /\ TheGroup(s, g) \in SUBSET VisibleGroups(s)
    BY Resolved
  <1>1. CASE t = "list_my_groups"
    <2>1. f \in Facts("group", VisibleGroups(s))
      BY <1>1 DEF call, list_my_groups
    <2> QED
      BY <2>1, GroupFacts DEF Ready
  <1>2. CASE t = "list_apps"
    <2>1. f \in Facts("status", GroupScope(s, g))
      BY <1>2 DEF call, list_apps
    <2>2. f[1] = "status" /\ f[2] \in s.apps
      BY <1>0, <2>1, FactIs
    <2> QED
      BY <2>2, PermittedKinds DEF Ready
  <1>3. CASE t = "get_app_details"
    <2>1. f \in Facts("details", AllowedOf(s, resolve_app(s, a)))
      BY <1>3 DEF call, get_app_details
    <2> QED
      BY <1>0, <2>1, AppFacts
  <1>4. CASE t = "get_metrics"
    <2>1. f \in get_metrics(s, g, a)
      BY <1>4 DEF call
    <2>2. PICK T \in SUBSET s.apps : f \in Facts("metrics", Resembling(AllowedOf(s, T)))
      BY <1>0, <2>1 DEF get_metrics
    <2> QED
      BY <2>2, NameFacts
  <1>5. CASE t = "get_costs"
    <2>1. f \in get_costs(s, g)
      BY <1>5 DEF call
    <2> QED
      BY <2>1, CostFacts
  <1>6. CASE t = "list_group_members"
    <2>1. f \in Facts("members", TheGroup(s, g))
      BY <1>6 DEF call, list_group_members
    <2> QED
      BY <1>0, <2>1, GroupFacts DEF Ready
  <1>7. CASE t = "get_recent_activity"
    <2>1. f \in get_recent_activity(s, g, a)
      BY <1>7 DEF call
    <2>2. \/ f \in Facts("activity", AllowedOf(s, resolve_app(s, a)))
          \/ f \in Facts("activity", AllowedOf(s, GroupScope(s, g)))
          \/ f \in Facts("news", resolve_group(s, g))
      BY <2>1 DEF get_recent_activity
    <2> QED
      BY <1>0, <2>2, AppFacts, GroupFacts DEF Ready
  <1>8. CASE t = "list_env_var_keys"
    <2>1. f \in list_env_var_keys(s, a, e)
      BY <1>8 DEF call
    <2>2. CASE e = "dev"
      <3>1. f \in Facts("keys_dev",
                        {x \in AllowedOf(s, resolve_app(s, a)) : role_for_app(s, x) >= 1})
        BY <2>1, <2>2 DEF list_env_var_keys
      <3> QED
        BY <1>0, <3>1, RoleFacts
    <2>3. CASE e = "prod"
      <3>1. f \in Facts("keys_prod",
                        {x \in AllowedOf(s, resolve_app(s, a)) : role_for_app(s, x) >= 2})
        BY <2>1, <2>3 DEF list_env_var_keys
      <3> QED
        BY <1>0, <3>1, RoleFacts
    <2> QED
      BY <2>2, <2>3
  <1>9. CASE t = "get_platform_health"
    <2>1. f \in get_platform_health(s)
      BY <1>9 DEF call
    <2>2. s.admin /\ (f = <<"health", None>> \/ f \in Facts("status", s.apps))
      BY <2>1 DEF get_platform_health
    <2>3. CASE f = <<"health", None>>
      <3>1. f[1] = "health"
        BY <2>3
      <3>2. \E p \in S : p[1].admin
        BY <2>2 DEF Ready, Known, ReadFrom
      <3> QED
        BY <3>1, <3>2, PermittedKinds
    <2>4. CASE f \in Facts("status", s.apps)
      <3>1. f[1] = "status" /\ f[2] \in s.apps
        BY <2>4, FactIs
      <3> QED
        BY <3>1, PermittedKinds DEF Ready
    <2> QED
      BY <2>2, <2>3, <2>4
  <1>10. CASE t \in {"get_app_logs", "get_pod_status", "get_ci_failure"}
    <2>1. PICK kind \in {"logs", "pods", "pipeline"} : f \in Facts(kind, diagnosable_app(s, a))
      BY <1>10 DEF call, get_app_logs, get_pod_status, get_ci_failure
    <2>2. f \in Facts(kind, {x \in AllowedOf(s, resolve_app(s, a)) : role_for_app(s, x) >= 1})
      BY <2>1 DEF diagnosable_app
    <2> QED
      BY <1>0, <2>2, RoleFacts
  <1>11. CASE t = "search_platform_docs"
    BY <1>11 DEF call
  <1> QED
    BY <1>1, <1>2, <1>3, <1>4, <1>5, <1>6, <1>7, <1>8, <1>9, <1>10, <1>11 DEF Tools

\* What a round under way knows.
LEMMA RoundIs ==
    ASSUME AssistantInv, NEW r \in Requests, q[r].pc \in {"post", "tools", "hung"}
    PROVE  /\ q[r] \in Rounds /\ q[r].since \in SUBSET (Worlds \X Settings)
           /\ q[r].pc # "post" => q[r].tools
           /\ q[r].tools => /\ Known(q[r].session, q[r].since)
                            /\ <<world, effective_config(row)>> \in q[r].since
  <1>1. q[r] \in Questions
    BY DEF AssistantInv, TypeOK, Questions
  <1>2. q[r] \in Rounds /\ q[r].since \in SUBSET (Worlds \X Settings)
    BY <1>1, QuestionKinds DEF Rounds
  <1>3. RoundCounted(q[r]) /\ SessionFollowed(q[r])
    BY DEF AssistantInv
  <1>4. q[r].tools => Known(q[r].session, q[r].since) /\ q[r].since # {}
    BY <1>2, <1>3 DEF RoundCounted, SessionFollowed, Known, ReadFrom
  <1> QED
    BY <1>2, <1>3, <1>4 DEF RoundCounted, SessionFollowed

\* Whatever the model calls, it is told what was open to the user.
LEMMA ToldFollows ==
    ASSUME AssistantInv
    PROVE  ToldWasPermitted
  <1> SUFFICES ASSUME NEW r \in Requests, NEW t \in Tools, q[r].pc = "tools",
                      NEW g, NEW a, NEW e \in {"dev", "prod"},
                      NEW f \in call(Prepared(r, t), t, g, a, e)
               PROVE  Permitted(q[r].since, f)
    BY DEF ToldWasPermitted
  <1> DEFINE s == q[r].session
             S == q[r].since
  <1>1. Known(s, S) /\ <<world, effective_config(row)>> \in S
    BY RoundIs
  <1>2. s \in Sessions /\ S \in SUBSET (Worlds \X Settings) /\ ReadFrom(s, S)
        /\ \E p \in S : p[1].project = world.project
    BY <1>1 DEF Known
  <1>3. max_role(s) \in Int /\ TOOL_MIN_ROLE[t] \in Int
    BY <1>2, MaxRoleIs DEF TOOL_MIN_ROLE, Admin
  <1>4. CASE max_role(s) < TOOL_MIN_ROLE[t]
    <2>1. Prepared(r, t) = s
      BY <1>3, <1>4 DEF Prepared
    <2> QED
      BY <1>4, <2>1 DEF call
  <1>5. CASE max_role(s) >= TOOL_MIN_ROLE[t] /\ NeedsApps(t)
    <2>1. Prepared(r, t) = WithApps(s, world)
      BY <1>5 DEF Prepared
    <2> HIDE DEF s, S
    <2>2. WithApps(s, world) \in Sessions /\ ReadFrom(WithApps(s, world), S)
      BY <1>2, WithAppsIs, WithAppsFollows
    <2>3. Ready(WithApps(s, world), S)
      BY <1>2, <2>2, AppsSeen DEF Ready, Known
    <2> QED
      BY <2>1, <2>3, AppToolFacts DEF S
  <1>6. CASE max_role(s) >= TOOL_MIN_ROLE[t] /\ ~NeedsApps(t)
    <2>1. Prepared(r, t) = s /\ t \in {"list_group_members", "search_platform_docs"}
      BY <1>6 DEF Prepared, NeedsApps
    <2>2. CASE t = "search_platform_docs"
      BY <2>1, <2>2 DEF call
    <2>3. CASE t = "list_group_members"
      <3>1. f \in Facts("members", TheGroup(s, g)) /\ TheGroup(s, g) \in SUBSET VisibleGroups(s)
        BY <2>1, <2>3, Resolved DEF call, list_group_members
      <3> QED
        BY <1>1, <3>1, GroupFacts
    <2> QED
      BY <2>1, <2>2, <2>3
  <1> QED
    BY <1>3, <1>4, <1>5, <1>6

-----------------------------------------------------------------------------
(* The steps of a question. *)

\* A question about a platform-agent session, or about none, begins its rounds.
LEMMA PromptedIs ==
    ASSUME NEW at \in 0 .. MaxTime, NEW provider \in Providers,
           NEW since \in SUBSET (Worlds \X Settings), NEW session \in {NotRead} \cup Sessions,
           session # NotRead => ReadFrom(session, since),
           since # {} => <<world, effective_config(row)>> \in since
    PROVE  LET x == Prompted(at, provider, since, session)
           IN  x \in Rounds /\ x.pc = "post" /\ x.at = at /\ RoundCounted(x) /\ SessionFollowed(x)
  <1> DEFINE x == Prompted(at, provider, since, session)
  <1>0. MAX_TOOL_ROUNDS \in Nat /\ max_retries \in Nat /\ MaxCalls \in Nat
    BY Bounds
  <1>1. /\ x.pc = "post" /\ x.at = at /\ x.since = since /\ x.session = session
        /\ x.round = 0 /\ x.got = 0
        /\ x.tools <=> session # NotRead /\ 0 < MAX_TOOL_ROUNDS
    BY DEF Prompted, Offers
  <1>2. x \in Rounds
    BY <1>0 DEF Prompted, Offers, Rounds
  <1> HIDE DEF x
  <1>3. RoundCounted(x)
    BY <1>0, <1>1 DEF RoundCounted
  <1>4. x \notin Prompts
    BY <1>1 DEF Prompts
  <1>5. SessionFollowed(x)
    BY <1>1, <1>4 DEF SessionFollowed
  <1> QED
    BY <1>1, <1>2, <1>3, <1>5 DEF x

\* A question without tools has no session to follow.
LEMMA WithoutToolsIs ==
    ASSUME NEW x \in Rounds
    PROVE  /\ WithoutTools(x) \in Rounds /\ WithoutTools(x).pc = x.pc /\ WithoutTools(x).at = x.at
           /\ WithoutTools(x).got = x.got /\ WithoutTools(x).round = x.round
           /\ WithoutTools(x).since = {} /\ ~WithoutTools(x).tools
           /\ SessionFollowed(WithoutTools(x))
  <1> DEFINE y == WithoutTools(x)
  <1>1. /\ y \in Rounds /\ y.pc = x.pc /\ y.at = x.at /\ y.got = x.got /\ y.round = x.round
        /\ y.since = {} /\ ~y.tools
    BY DEF WithoutTools, Rounds
  <1> HIDE DEF y
  <1>2. y \notin Prompts
    BY <1>1 DEF Rounds, Prompts
  <1>3. SessionFollowed(y)
    BY <1>1, <1>2 DEF SessionFollowed
  <1> QED
    BY <1>1, <1>3 DEF y

Sound(x) == x \in Questions /\ RoundCounted(x) /\ SessionFollowed(x)

LEMMA EndSound ==
    /\ Sound(Idle)
    /\ \A x \in Answers : Sound(x)
  <1>1. ASSUME NEW x \in {Idle} \cup Answers PROVE Sound(x)
    <2>1. x \in Questions /\ x.pc \in {"idle", "record"}
      BY DEF Questions, Idle, Answers
    <2>2. x \notin Prompts /\ x \notin Rounds
      BY <2>1, QuestionKinds
    <2> QED
      BY <2>1, <2>2 DEF Sound, RoundCounted, SessionFollowed
  <1> QED
    BY <1>1

\* A round under way, in full.
LEMMA PostIs ==
    ASSUME AssistantInv, NEW r \in Requests, q[r].pc \in {"post", "tools", "hung"}, NEW x, x = q[r]
    PROVE  /\ x \in Rounds /\ Sound(x)
           /\ MAX_TOOL_ROUNDS \in Nat /\ max_retries \in Nat /\ MaxCalls \in Nat \ {0}
           /\ x.round \in 0 .. MAX_TOOL_ROUNDS /\ x.tries \in 0 .. max_retries
           /\ x.calls \in 0 .. MaxCalls /\ x.at \in 0 .. MaxTime /\ x.provider \in Providers
           /\ x.got = x.round + (IF x.pc = "post" THEN 0 ELSE 1)
           /\ x.pc # "post" => x.tools /\ x.calls > 0
           /\ x.tools => x.round < MAX_TOOL_ROUNDS /\ x.session \in Sessions
  <1>1. x \in Rounds /\ Sound(x)
    BY RoundIs DEF AssistantInv, TypeOK, Sound, Questions
  <1> QED
    BY <1>1, Bounds DEF Rounds, Sound, RoundCounted

\* A round that changes its counters within their bounds, and keeps its session.
LEMMA RoundSound ==
    ASSUME NEW x \in Rounds, Sound(x), NEW y \in Rounds,
           y.tools <=> x.tools, y.since = x.since,
           y.tools => y.session = x.session,
           y.got = y.round + (IF y.pc = "post" THEN 0 ELSE 1),
           y.pc # "post" => y.tools /\ y.calls > 0,
           y.tools => y.round < MAX_TOOL_ROUNDS
    PROVE  Sound(y)
  <1>1. y \in Questions /\ y \notin Prompts
    BY DEF Questions, Rounds, Prompts
  <1>2. RoundCounted(y)
    BY DEF RoundCounted, Sound
  <1>3. SessionFollowed(y)
    BY <1>1 DEF SessionFollowed, Sound
  <1> QED
    BY <1>1, <1>2, <1>3 DEF Sound

\* OpenTools.
LEMMA OpenToolsGoes ==
    ASSUME AssistantInv, NEW r \in Requests, OpenTools(r)
    PROVE  \E x : Goes(r, x) /\ Sound(x) /\ x.at = q[r].at
  <1>1. q[r] \in Prompts /\ SessionFollowed(q[r]) /\ TypeOK
    BY QuestionKinds DEF OpenTools, AssistantInv, TypeOK, Questions
  <1>2. Session(r) \in Sessions /\ ReadFrom(Session(r), q[r].since)
    BY <1>1, SessionIs
  <1>3. /\ q[r].at \in 0 .. MaxTime /\ q[r].cfg.provider \in Providers
        /\ q[r].since \in SUBSET (Worlds \X Settings)
    BY <1>1 DEF Prompts, Settings
  <1>4. q[r].since # {} => <<world, effective_config(row)>> \in q[r].since
    BY <1>1 DEF SessionFollowed
  <1> DEFINE x == Prompted(q[r].at, q[r].cfg.provider, q[r].since, Session(r))
  <1>5. x \in Rounds /\ x.at = q[r].at /\ RoundCounted(x) /\ SessionFollowed(x)
    BY <1>2, <1>3, <1>4, PromptedIs
  <1>6. Goes(r, x)
    BY DEF OpenTools
  <1> HIDE DEF x
  <1> QED
    BY <1>5, <1>6 DEF Sound, Questions

\* Completes: an answer, or tool calls.
LEMMA CompletesGoes ==
    ASSUME AssistantInv, NEW r \in Requests, Completes(r)
    PROVE  \E x : Goes(r, x) /\ Sound(x) /\ x.at = q[r].at
  <1>1. PICK o : o = q[r]
    OBVIOUS
  <1>2. o.pc = "post"
    BY <1>1 DEF Completes, Posting
  <1>3. /\ o \in Rounds /\ Sound(o)
        /\ MAX_TOOL_ROUNDS \in Nat /\ max_retries \in Nat /\ MaxCalls \in Nat \ {0}
        /\ o.round \in 0 .. MAX_TOOL_ROUNDS /\ o.at \in 0 .. MaxTime /\ o.provider \in Providers
        /\ o.got = o.round /\ (o.tools => o.round < MAX_TOOL_ROUNDS)
    BY <1>1, <1>2, PostIs
  <1> DEFINE x == [pc |-> "record", provider |-> o.provider, at |-> o.at,
                   since |-> {}, got |-> o.got + 1]
  <1>4. CASE Goes(r, x)
    <2>1. x \in Answers /\ x.at = o.at
      BY <1>3 DEF Answers
    <2> QED
      BY <1>1, <1>4, <2>1, EndSound
  <1>5. CASE ~Goes(r, x)
    <2>1. PICK n \in 1 .. MaxCalls : o.tools /\
              Goes(r, [o EXCEPT !.pc = "tools", !.got = @ + 1, !.tries = 0, !.calls = n])
      BY <1>1, <1>5 DEF Completes
    <2> DEFINE y == [o EXCEPT !.pc = "tools", !.got = @ + 1, !.tries = 0, !.calls = n]
    <2>2. o.got = o.round /\ o.round < MAX_TOOL_ROUNDS
      BY <1>3, <2>1
    <2>3. /\ y.pc = "tools" /\ y.got = o.round + 1 /\ y.round = o.round /\ y.calls = n
          /\ y.tools <=> o.tools
          /\ y.since = o.since /\ y.session = o.session /\ y.at = o.at
      BY <1>3, <2>2 DEF Rounds
    <2>4. y \in Rounds
      <3>1. o.got + 1 \in 0 .. MAX_TOOL_ROUNDS + 1 /\ 0 \in 0 .. max_retries /\ n \in 0 .. MaxCalls
        BY <1>3, <2>2
      <3> QED
        BY <1>3, <3>1 DEF Rounds
    <2> HIDE DEF y
    <2>5. Sound(y)
      BY <1>3, <2>1, <2>2, <2>3, <2>4, RoundSound
    <2> QED
      BY <1>1, <2>1, <2>3, <2>5 DEF y
  <1> QED
    BY <1>4, <1>5

\* Unavailable: tried again, or given up.
LEMMA UnavailableGoes ==
    ASSUME AssistantInv, NEW r \in Requests, Unavailable(r)
    PROVE  \E x : Goes(r, x) /\ Sound(x) /\ (x = Idle \/ x.at = q[r].at)
  <1>1. PICK o : o = q[r]
    OBVIOUS
  <1>2. o.pc = "post"
    BY <1>1 DEF Unavailable, Posting
  <1>3. /\ o \in Rounds /\ Sound(o) /\ max_retries \in Nat /\ o.tries \in 0 .. max_retries
        /\ o.round \in Nat /\ o.got = o.round /\ (o.tools => o.round < MAX_TOOL_ROUNDS)
    BY <1>1, <1>2, PostIs
  <1>4. CASE o.tries < max_retries
    <2> DEFINE y == [o EXCEPT !.tries = @ + 1]
    <2>1. /\ y.pc = "post" /\ y.got = o.got /\ y.round = o.round
          /\ y.tools <=> o.tools
          /\ y.since = o.since /\ y.session = o.session /\ y.at = o.at
      BY <1>2, <1>3 DEF Rounds
    <2>2. y \in Rounds
      <3>1. o.tries + 1 \in 0 .. max_retries
        BY <1>3, <1>4
      <3> QED
        BY <1>3, <3>1 DEF Rounds
    <2>3. Goes(r, y)
      BY <1>1, <1>4 DEF Unavailable
    <2> HIDE DEF y
    <2>4. Sound(y)
      BY <1>2, <1>3, <2>1, <2>2, RoundSound
    <2>5. y.at = q[r].at
      BY <1>1, <2>1
    <2> QED
      BY <2>3, <2>4, <2>5
  <1>5. CASE ~(o.tries < max_retries)
    <2>1. Goes(r, Idle)
      BY <1>1, <1>5 DEF Unavailable
    <2> QED
      BY <2>1, EndSound
  <1> QED
    BY <1>4, <1>5

\* Rejects: asked again without tools, or given up.
LEMMA RejectsGoes ==
    ASSUME AssistantInv, NEW r \in Requests, Rejects(r)
    PROVE  \E x : Goes(r, x) /\ Sound(x) /\ (x = Idle \/ x.at = q[r].at)
  <1>1. PICK o : o = q[r]
    OBVIOUS
  <1>2. o.pc = "post"
    BY <1>1 DEF Rejects, Posting
  <1>3. /\ o \in Rounds /\ Sound(o) /\ max_retries \in Nat /\ o.got = o.round
    BY <1>1, <1>2, PostIs
  <1>4. CASE o.tools
    <2> DEFINE z == [o EXCEPT !.tries = 0]
    <2>1. z \in Rounds /\ z.pc = "post" /\ z.got = o.got /\ z.round = o.round /\ z.at = o.at
      BY <1>2, <1>3 DEF Rounds
    <2>2. Goes(r, WithoutTools(z))
      BY <1>1, <1>4 DEF Rejects, Refused
    <2> HIDE DEF z
    <2>3. PICK y : y = WithoutTools(z)
      OBVIOUS
    <2>4. /\ y \in Rounds /\ y.pc = "post" /\ y.got = y.round /\ y.at = o.at /\ ~y.tools
          /\ SessionFollowed(y)
      BY <1>3, <2>1, <2>3, WithoutToolsIs
    <2>5. RoundCounted(y)
      <3>1. y.round \in Nat
        BY <2>4, Bounds DEF Rounds
      <3> QED
        BY <2>4, <3>1 DEF RoundCounted
    <2> QED
      BY <1>1, <2>2, <2>3, <2>4, <2>5 DEF Sound, Questions
  <1>5. CASE ~o.tools
    <2>1. Goes(r, Idle)
      BY <1>1, <1>5 DEF Rejects
    <2> QED
      BY <2>1, EndSound
  <1> QED
    BY <1>4, <1>5

\* What holds in a round while its tools run.
LEMMA ToolingIs ==
    ASSUME AssistantInv, NEW r \in Requests, q[r].pc \in {"tools", "hung"}, NEW o, o = q[r]
    PROVE  /\ o \in Rounds /\ Sound(o) /\ o.tools /\ o.session \in Sessions
           /\ ReadFrom(o.session, o.since) /\ o.since \in SUBSET (Worlds \X Settings)
           /\ <<world, effective_config(row)>> \in o.since
  <1>1. o \in Rounds /\ Sound(o) /\ o.tools /\ o.session \in Sessions
    BY PostIs
  <1> QED
    BY <1>1, RoundIs DEF Known

\* After a tool call the next one is due, or after the last one a round begins.
LEMMA NextRoundSound ==
    ASSUME NEW x \in Rounds, Sound(x), x.pc = "tools"
    PROVE  Sound(NextRound(x)) /\ NextRound(x).at = x.at
  <1>1. /\ x.tools /\ x.calls \in 0 .. MaxCalls /\ x.calls > 0
        /\ x.got = x.round + 1 /\ x.round < MAX_TOOL_ROUNDS /\ x.round \in Nat
        /\ MAX_TOOL_ROUNDS \in Nat /\ MaxCalls \in Nat
    BY Bounds DEF Sound, RoundCounted, Rounds
  <1>2. CASE x.calls > 1
    <2> DEFINE y == [x EXCEPT !.calls = @ - 1]
    <2>1. /\ y.pc = "tools" /\ y.tools /\ y.calls = x.calls - 1 /\ y.got = x.got
          /\ y.round = x.round /\ y.since = x.since /\ y.session = x.session /\ y.at = x.at
      BY <1>1 DEF Rounds
    <2>2. y \in Rounds
      <3>1. x.calls - 1 \in 0 .. MaxCalls
        BY <1>1
      <3> QED
        BY <3>1 DEF Rounds
    <2>3. NextRound(x) = y
      BY <1>2 DEF NextRound
    <2> HIDE DEF y
    <2>4. Sound(y)
      BY <1>1, <1>2, <2>1, <2>2, RoundSound
    <2> QED
      BY <2>1, <2>3, <2>4
  <1>3. CASE ~(x.calls > 1)
    <2> DEFINE y == [x EXCEPT !.calls = 0, !.round = @ + 1, !.pc = "post"]
    <2>1. /\ y.pc = "post" /\ y.tools /\ y.got = x.got
          /\ y.round = x.round + 1 /\ y.since = x.since /\ y.session = x.session /\ y.at = x.at
      BY <1>1 DEF Rounds
    <2>2. y \in Rounds
      <3>1. x.round + 1 \in 0 .. MAX_TOOL_ROUNDS /\ 0 \in 0 .. MaxCalls
        BY <1>1
      <3> QED
        BY <3>1 DEF Rounds
    <2>3. NextRound(x) = IF Offers(y.round) THEN y ELSE WithoutTools(y)
      BY <1>1, <1>3 DEF NextRound
    <2> HIDE DEF y
    <2>4. CASE Offers(y.round)
      <3>1. y.round < MAX_TOOL_ROUNDS
        BY <2>4 DEF Offers
      <3>2. Sound(y)
        BY <1>1, <2>1, <2>2, <3>1, RoundSound
      <3> QED
        BY <2>1, <2>3, <2>4, <3>2
    <2>5. CASE ~Offers(y.round)
      <3>1. PICK z : z = WithoutTools(y)
        OBVIOUS
      <3>2. /\ z \in Rounds /\ z.pc = "post" /\ z.got = z.round /\ z.at = x.at /\ ~z.tools
            /\ SessionFollowed(z)
        BY <1>1, <2>1, <2>2, <3>1, WithoutToolsIs
      <3>3. RoundCounted(z)
        <4>1. z.round \in Nat
          BY <3>2, Bounds DEF Rounds
        <4> QED
          BY <3>2, <4>1 DEF RoundCounted
      <3> QED
        BY <2>3, <2>5, <3>1, <3>2, <3>3 DEF Sound, Questions
    <2> QED
      BY <2>4, <2>5
  <1> QED
    BY <1>2, <1>3

\* A tool call may read the applications into the session.
Begun(r, t, p) == [q[r] EXCEPT !.session = Prepared(r, t), !.pc = p]

LEMMA BegunSound ==
    ASSUME AssistantInv, NEW r \in Requests, NEW t, q[r].pc = "tools",
           NEW p \in {"tools", "hung"}
    PROVE  /\ Begun(r, t, p) \in Rounds /\ Sound(Begun(r, t, p))
           /\ Begun(r, t, p).pc = p /\ Begun(r, t, p).at = q[r].at
  <1>0. PICK x : x = Begun(r, t, p)
    OBVIOUS
  <1>1. PICK o, s : o = q[r] /\ s = Prepared(r, t)
    OBVIOUS
  <1>2. /\ o \in Rounds /\ Sound(o) /\ o.tools /\ o.session \in Sessions
        /\ ReadFrom(o.session, o.since) /\ o.since \in SUBSET (Worlds \X Settings)
        /\ <<world, effective_config(row)>> \in o.since
    BY <1>1, ToolingIs
  <1>3. s \in Sessions /\ ReadFrom(s, o.since)
    <2>1. s \in {o.session, WithApps(o.session, world)}
      BY <1>1 DEF Prepared
    <2> QED
      BY <1>2, <2>1, WithAppsIs, WithAppsFollows
  <1>4. /\ x \in Rounds /\ x.pc = p /\ x.tools /\ x.calls = o.calls /\ x.got = o.got
        /\ x.round = o.round /\ x.since = o.since /\ x.session = s /\ x.at = o.at
    BY <1>0, <1>1, <1>2, <1>3 DEF Begun, Rounds
  <1>5. x \in Questions /\ x \notin Prompts
    BY <1>4 DEF Questions, Prompts
  <1>6. RoundCounted(x)
    BY <1>1, <1>2, <1>3, <1>4 DEF Sound, RoundCounted
  <1>7. SessionFollowed(x)
    BY <1>2, <1>3, <1>4, <1>5 DEF SessionFollowed
  <1> QED
    BY <1>0, <1>1, <1>4, <1>5, <1>6, <1>7 DEF Sound

\* Calls and Hangs: the session may read its applications first.
LEMMA CallsGoes ==
    ASSUME AssistantInv, NEW r \in Requests, NEW t, Calls(r, t)
    PROVE  \E x : Goes(r, x) /\ Sound(x) /\ x.at = q[r].at
  <1>1. q[r].pc = "tools" /\ q[r] \in Rounds
    BY ToolingIs DEF Calls
  <1>2. Begun(r, t, "tools") = [q[r] EXCEPT !.session = Prepared(r, t)]
    BY <1>1 DEF Begun, Rounds
  <1>3. Goes(r, NextRound(Begun(r, t, "tools")))
    BY <1>2 DEF Calls
  <1> QED
    BY <1>1, <1>3, BegunSound, NextRoundSound

LEMMA HangsGoes ==
    ASSUME AssistantInv, NEW r \in Requests, NEW t, Hangs(r, t)
    PROVE  \E x : Goes(r, x) /\ Sound(x) /\ x.at = q[r].at
  <1>1. q[r].pc = "tools" /\ Goes(r, Begun(r, t, "hung"))
    BY DEF Hangs, Begun
  <1> QED
    BY <1>1, BegunSound

\* Returns: as after a call that did not hang.
LEMMA ReturnsGoes ==
    ASSUME AssistantInv, NEW r \in Requests, Returns(r)
    PROVE  \E x : Goes(r, x) /\ Sound(x) /\ x.at = q[r].at
  <1>1. PICK o : o = q[r]
    OBVIOUS
  <1>2. o.pc = "hung" /\ o \in Rounds /\ Sound(o)
    BY <1>1, ToolingIs DEF Returns
  <1>3. PICK x : x = [o EXCEPT !.pc = "tools"]
    OBVIOUS
  <1>4. /\ x \in Rounds /\ x.pc = "tools" /\ (x.tools <=> o.tools) /\ x.calls = o.calls
        /\ x.got = o.got /\ x.round = o.round /\ x.since = o.since /\ x.session = o.session
        /\ x.at = o.at
    BY <1>2, <1>3 DEF Rounds
  <1>5. Sound(x)
    BY <1>2, <1>4, RoundSound DEF Sound, RoundCounted
  <1>6. Goes(r, NextRound(x))
    BY <1>1, <1>3 DEF Returns
  <1> QED
    BY <1>1, <1>4, <1>5, <1>6, NextRoundSound

\* Ask: the first round, or the prompt of the platform agent.
LEMMA AskGoes ==
    ASSUME AssistantInv, NEW r \in Requests, NEW kind \in Routes, NEW a \in Apps \cup {None},
           NEW page \in Pages, Ask(r, kind, a, page)
    PROVE  \E x : Goes(r, x) /\ Sound(x) /\ x.pc # "idle" /\ x.at = now
  <1>1. PICK cfg : cfg = effective_config(row)
    OBVIOUS
  <1>2. /\ cfg \in Settings /\ cfg.provider \in Providers /\ now \in 0 .. MaxTime
        /\ world \in Worlds /\ world.admin \in BOOLEAN
    <2>1. cfg \in Settings /\ now \in 0 .. MaxTime /\ world \in Worlds
      BY <1>1, ConfigType DEF AssistantInv, TypeOK
    <2> QED
      BY <2>1, AssistantAssumption DEF Settings, Memberships
  <1>3. CASE kind = "platform" /\ cfg.kb
    <2> DEFINE x == [pc |-> "prompt", page |-> page, cfg |-> cfg, admin |-> world.admin,
                     at |-> now, since |-> {<<world, cfg>>}]
    <2>1. Goes(r, x)
      BY <1>1, <1>3 DEF Ask
    <2>2. x \in Prompts /\ x.pc = "prompt" /\ x.at = now
      BY <1>2 DEF Prompts
    <2>3. x.admin <=> world.admin
      OBVIOUS
    <2>4. x.since = {<<world, cfg>>} /\ x.cfg = cfg
      OBVIOUS
    <2> HIDE DEF x
    <2>5. x \in Questions /\ x \notin Rounds
      BY <2>2 DEF Questions, Rounds
    <2>6. SessionFollowed(x) /\ RoundCounted(x)
      BY <1>1, <2>3, <2>4, <2>5 DEF SessionFollowed, RoundCounted
    <2> QED
      BY <2>1, <2>2, <2>5, <2>6 DEF Sound
  <1>4. CASE ~(kind = "platform" /\ cfg.kb)
    <2> DEFINE x == Prompted(now, cfg.provider, {}, NotRead)
    <2>1. Goes(r, x)
      BY <1>1, <1>4 DEF Ask
    <2>2. x \in Rounds /\ x.pc = "post" /\ x.at = now /\ RoundCounted(x) /\ SessionFollowed(x)
      BY <1>2, PromptedIs
    <2> HIDE DEF x
    <2> QED
      BY <2>1, <2>2 DEF Sound, Questions
  <1> QED
    BY <1>3, <1>4

\* Only r has taken a step.
LEMMA GoesSound ==
    ASSUME AssistantInv, NEW r \in Requests, NEW x, Goes(r, x), Sound(x), UNCHANGED <<world, row>>
    PROVE  /\ q' \in [Requests -> Questions]
           /\ \A s \in Requests : RoundCounted(q[s])' /\ SessionFollowed(q[s])'
           /\ q'[r] = x /\ \A s \in Requests : s # r => q'[s] = q[s]
  <1>1. q \in [Requests -> Questions]
    BY DEF AssistantInv, TypeOK, Questions
  <1>2. q' \in [Requests -> Questions] /\ q'[r] = x /\ \A s \in Requests : s # r => q'[s] = q[s]
    BY <1>1 DEF Goes, Sound
  <1>3. ASSUME NEW s \in Requests PROVE RoundCounted(q[s])' /\ SessionFollowed(q[s])'
    <2>1. RoundCounted(q'[s]) /\ SessionFollowed(q'[s])
      BY <1>2 DEF AssistantInv, Sound
    <2>2. RoundCounted(q[s])'
      BY <2>1 DEF RoundCounted
    <2>3. SessionFollowed(q[s])'
      BY <2>1 DEF SessionFollowed
    <2> QED
      BY <2>2, <2>3
  <1> QED
    BY <1>2, <1>3

\* Every question of the platform agent sees a change of memberships or settings.
LEMMA ObservedSound ==
    ASSUME AssistantInv, Observed(world', effective_config(row')),
           world' \in Worlds, row' \in {NoRow} \cup Rows
    PROVE  /\ q' \in [Requests -> Questions]
           /\ \A s \in Requests : /\ RoundCounted(q[s])' /\ SessionFollowed(q[s])'
                                  /\ q'[s].pc = q[s].pc
                                  /\ q[s].pc # "idle" => q'[s].at = q[s].at
  <1>1. PICK c : c = effective_config(row') /\ c \in Settings
    BY ConfigType
  <1>2. ASSUME NEW s \in Requests
        PROVE  /\ q'[s] \in Questions /\ RoundCounted(q[s])' /\ SessionFollowed(q[s])'
               /\ q'[s].pc = q[s].pc /\ (q[s].pc # "idle" => q'[s].at = q[s].at)
    <2>1. PICK o : o = q[s]
      OBVIOUS
    <2>2. o \in Questions /\ RoundCounted(o) /\ SessionFollowed(o)
      BY <2>1 DEF AssistantInv, TypeOK, Questions
    <2>3. q'[s] = IF o.pc # "idle" /\ o.since # {}
                  THEN [o EXCEPT !.since = @ \cup {<<world', c>>}] ELSE o
      BY <1>1, <2>1 DEF Observed, Running
    <2>4. CASE o.pc \notin {"prompt", "post", "tools", "hung"} \/ o.since = {}
      <3>1. q'[s] = o
        <4>1. o.pc \notin {"prompt", "post", "tools", "hung"} => o = Idle \/ o \in Answers
          BY <2>2, QuestionKinds
        <4>2. o \in Answers => o.since = {}
          BY DEF Answers
        <4> QED
          BY <2>2, <2>3, <2>4, <4>1, <4>2, QuestionKinds
      <3>2. o \notin Prompts /\ ~(o \in Rounds /\ o.tools) /\ (o \in Rounds => o.since = {})
        <4>1. o.since = {} => o \notin Prompts /\ ~(o \in Rounds /\ o.tools)
          BY <2>2 DEF SessionFollowed, ReadFrom
        <4> QED
          BY <2>2, <2>4, <4>1, QuestionKinds
      <3>3. RoundCounted(q[s])' /\ SessionFollowed(q[s])'
        BY <2>2, <3>1, <3>2 DEF RoundCounted, SessionFollowed
      <3> QED
        BY <2>1, <2>2, <3>1, <3>3
    <2>5. CASE o.pc \in {"prompt", "post", "tools", "hung"} /\ o.since # {}
      <3>1. PICK T : T = o.since \cup {<<world', c>>}
        OBVIOUS
      <3>2. PICK n : n = [o EXCEPT !.since = T]
        OBVIOUS
      <3>3. q'[s] = n
        BY <2>3, <2>5, <3>1, <3>2
      <3>4. CASE o.pc = "prompt"
        <4>1. o \in Prompts
          BY <2>2, <3>4, QuestionKinds
        <4>2. /\ n \in Prompts /\ n.pc = "prompt" /\ n.since = T /\ n.at = o.at /\ n.cfg = o.cfg
              /\ n.admin <=> o.admin
          BY <1>1, <3>1, <3>2, <4>1 DEF Prompts
        <4>3. n \notin Rounds
          BY <4>2 DEF Rounds
        <4>4. RoundCounted(q[s])'
          BY <3>3, <4>3 DEF RoundCounted
        <4>5. SessionFollowed(q[s])'
          BY <1>1, <2>2, <3>1, <3>3, <4>1, <4>2, <4>3 DEF SessionFollowed
        <4> QED
          BY <2>1, <3>3, <3>4, <4>2, <4>4, <4>5 DEF Questions
      <3>5. CASE o.pc \in {"post", "tools", "hung"}
        <4>1. o \in Rounds
          BY <2>2, <3>5, QuestionKinds
        <4>2. /\ n \in Rounds /\ n.pc = o.pc /\ n.since = T /\ n.at = o.at
              /\ n.session = o.session /\ n.round = o.round /\ n.got = o.got /\ n.calls = o.calls
              /\ n.tools <=> o.tools
          BY <1>1, <3>1, <3>2, <4>1 DEF Rounds
        <4>3. n \notin Prompts
          BY <3>5, <4>2 DEF Prompts
        <4>4. RoundCounted(q[s])'
          BY <2>2, <3>3, <4>1, <4>2 DEF RoundCounted
        <4>5. n.tools => ReadFrom(n.session, T)
          BY <2>2, <3>1, <4>1, <4>2, ReadFromGrows DEF SessionFollowed
        <4>6. SessionFollowed(q[s])'
          BY <1>1, <3>1, <3>3, <4>2, <4>3, <4>5 DEF SessionFollowed
        <4> QED
          BY <2>1, <3>3, <4>2, <4>4, <4>6 DEF Questions
      <3> QED
        BY <2>5, <3>4, <3>5
    <2> QED
      BY <2>4, <2>5
  <1>3. q' \in [Requests -> Questions]
    <2>1. q' = [s \in Requests |-> q'[s]]
      BY DEF Observed
    <2> QED
      BY <1>2, <2>1
  <1> QED
    BY <1>2, <1>3

-----------------------------------------------------------------------------
(* What a step does to the counts: nothing, or a question enters, or one is recorded. *)

Kept == /\ usage' = usage /\ asked' = asked
        /\ \A r \in Requests : Running(r)' => Running(r) /\ q'[r].at = q[r].at
Joined(r) == /\ ~Running(r) /\ check(now) /\ usage' = usage
             /\ asked < MaxAsks /\ asked' = asked + 1
             /\ Running(r)' /\ q'[r].at = now
             /\ \A s \in Requests : s # r => q'[s] = q[s]
Left(r) == /\ q[r] \in Answers /\ Running(r) /\ ~Running(r)'
           /\ usage' = usage \cup {UsageRow(q[r])} /\ asked' = asked
           /\ \A s \in Requests : s # r => q'[s] = q[s]

\* All of the type invariant but the counts.
Rest == /\ now \in 0 .. MaxTime /\ world \in Worlds /\ row \in {NoRow} \cup Rows
        /\ app \in [Apps -> [chat : BOOLEAN, summary : BOOLEAN]]
        /\ q \in [Requests -> Questions] /\ upsets \in 0 .. MaxUpsets
        /\ \A r \in Requests : RoundCounted(q[r]) /\ SessionFollowed(q[r])

LEMMA RestIs ==
    ASSUME AssistantInv
    PROVE  Rest
BY DEF AssistantInv, TypeOK, Rest, Questions

\* A step of a question that keeps its time, or ends.
LEMMA AnsweringKept ==
    ASSUME AssistantInv, NEW r \in Requests, Running(r), NEW x, Goes(r, x), Sound(x),
           x = Idle \/ x.at = q[r].at, UNCHANGED <<now, world, row, app, usage, asked, upsets>>
    PROVE  Rest' /\ Kept
  <1>1. /\ q' \in [Requests -> Questions]
        /\ \A s \in Requests : RoundCounted(q[s])' /\ SessionFollowed(q[s])'
        /\ q'[r] = x /\ \A s \in Requests : s # r => q'[s] = q[s]
    BY GoesSound
  <1>2. Rest'
    BY <1>1, RestIs DEF Rest
  <1>3. ASSUME NEW s \in Requests, Running(s)' PROVE Running(s) /\ q'[s].at = q[s].at
    <2>1. x = Idle => s # r
      BY <1>1, <1>3 DEF Running, Idle
    <2> QED
      BY <1>1, <1>3, <2>1 DEF Running
  <1> QED
    BY <1>2, <1>3 DEF Kept

LEMMA AnsweringStep ==
    ASSUME AssistantInv, NEW r \in Requests, Answering(r)
    PROVE  Rest' /\ (Kept \/ Left(r))
  <1>1. CASE OpenTools(r)
    <2>1. PICK x : Goes(r, x) /\ Sound(x) /\ x.at = q[r].at
      BY <1>1, OpenToolsGoes
    <2>2. Running(r) /\ UNCHANGED <<now, world, row, app, usage, asked, upsets>>
      BY <1>1 DEF OpenTools, Running
    <2> QED
      BY <2>1, <2>2, AnsweringKept
  <1>2. CASE Completes(r)
    <2>1. PICK x : Goes(r, x) /\ Sound(x) /\ x.at = q[r].at
      BY <1>2, CompletesGoes
    <2>2. Running(r) /\ UNCHANGED <<now, world, row, app, usage, asked, upsets>>
      BY <1>2 DEF Completes, Posting, Posted, Running
    <2> QED
      BY <2>1, <2>2, AnsweringKept
  <1>3. CASE Unavailable(r)
    <2>1. PICK x : Goes(r, x) /\ Sound(x) /\ (x = Idle \/ x.at = q[r].at)
      BY <1>3, UnavailableGoes
    <2>2. Running(r) /\ UNCHANGED <<now, world, row, app, usage, asked, upsets>>
      BY <1>3 DEF Unavailable, Posting, Posted, Running
    <2> QED
      BY <2>1, <2>2, AnsweringKept
  <1>4. CASE Rejects(r)
    <2>1. PICK x : Goes(r, x) /\ Sound(x) /\ (x = Idle \/ x.at = q[r].at)
      BY <1>4, RejectsGoes
    <2>2. Running(r) /\ UNCHANGED <<now, world, row, app, usage, asked, upsets>>
      BY <1>4 DEF Rejects, Posting, Posted, Running
    <2> QED
      BY <2>1, <2>2, AnsweringKept
  <1>5. CASE GivesUp(r)
    <2>1. Running(r) /\ Goes(r, Idle) /\ UNCHANGED <<now, world, row, app, usage, asked, upsets>>
      BY <1>5 DEF GivesUp, Posting, Posted, Running
    <2> QED
      BY <2>1, EndSound, AnsweringKept
  <1>6. ASSUME NEW t \in Tools, Calls(r, t) PROVE Rest' /\ Kept
    <2>1. PICK x : Goes(r, x) /\ Sound(x) /\ x.at = q[r].at
      BY <1>6, CallsGoes
    <2>2. Running(r) /\ UNCHANGED <<now, world, row, app, usage, asked, upsets>>
      BY <1>6 DEF Calls, Running
    <2> QED
      BY <2>1, <2>2, AnsweringKept
  <1>7. CASE Records(r)
    <2>1. Goes(r, Idle) /\ UNCHANGED <<now, world, row, app, asked, upsets>>
      BY <1>7 DEF Records
    <2>2. /\ q' \in [Requests -> Questions]
          /\ \A s \in Requests : RoundCounted(q[s])' /\ SessionFollowed(q[s])'
          /\ q'[r] = Idle /\ \A s \in Requests : s # r => q'[s] = q[s]
      BY <2>1, EndSound, GoesSound
    <2>3. Rest'
      BY <2>1, <2>2, RestIs DEF Rest
    <2>4. q[r] \in Answers /\ Running(r) /\ ~Running(r)'
      <3>1. q[r] \in Questions /\ q[r].pc = "record"
        BY <1>7, RestIs DEF Records, Rest
      <3> QED
        BY <2>2, <3>1, QuestionKinds DEF Running, Idle
    <2> QED
      BY <1>7, <2>1, <2>2, <2>3, <2>4 DEF Records, Left
  <1>8. ASSUME NEW t \in Untimed, Hangs(r, t) PROVE Rest' /\ Kept
    <2>1. PICK x : Goes(r, x) /\ Sound(x) /\ x.at = q[r].at
      BY <1>8, HangsGoes
    <2>2. Running(r) /\ UNCHANGED <<now, world, row, app, usage, asked, upsets>>
      BY <1>8 DEF Hangs, Running
    <2> QED
      BY <2>1, <2>2, AnsweringKept
  <1> QED
    BY <1>1, <1>2, <1>3, <1>4, <1>5, <1>6, <1>7, <1>8 DEF Answering

\* A change of memberships or settings keeps every question under way.
LEMMA ObservedKept ==
    ASSUME AssistantInv, Observed(world', effective_config(row')),
           world' \in Worlds, row' \in {NoRow} \cup Rows, Upset, UNCHANGED <<now, app, usage, asked>>
    PROVE  Rest' /\ Kept
  <1>1. /\ q' \in [Requests -> Questions]
        /\ \A s \in Requests : /\ RoundCounted(q[s])' /\ SessionFollowed(q[s])'
                               /\ q'[s].pc = q[s].pc
                               /\ q[s].pc # "idle" => q'[s].at = q[s].at
    BY ObservedSound
  <1>2. upsets' \in 0 .. MaxUpsets
    BY RestIs, Bounds DEF Rest, Upset
  <1>3. Rest'
    BY <1>1, <1>2, RestIs DEF Rest
  <1>4. Kept
    BY <1>1 DEF Kept, Running
  <1> QED
    BY <1>3, <1>4

LEMMA NextStep ==
    ASSUME AssistantInv, Next
    PROVE  Rest' /\ (Kept \/ \E r \in Requests : Joined(r) \/ Left(r))
  <1>0. Rest
    BY RestIs
  <1>1. ASSUME NEW r \in Requests, Answering(r) PROVE Rest' /\ (Kept \/ Left(r))
    BY <1>1, AnsweringStep
  <1>2. ASSUME NEW r \in Requests, NEW kind \in Routes, NEW a \in Apps \cup {None},
               NEW p \in Pages, Ask(r, kind, a, p)
        PROVE  Rest' /\ Joined(r)
    <2>1. PICK x : Goes(r, x) /\ Sound(x) /\ x.pc # "idle" /\ x.at = now
      BY <1>2, AskGoes
    <2>2. /\ ~Running(r) /\ asked < MaxAsks /\ check(now) /\ asked' = asked + 1
          /\ UNCHANGED <<now, world, row, app, usage, upsets>>
      BY <1>2 DEF Ask
    <2>3. /\ q' \in [Requests -> Questions]
          /\ \A s \in Requests : RoundCounted(q[s])' /\ SessionFollowed(q[s])'
          /\ q'[r] = x /\ \A s \in Requests : s # r => q'[s] = q[s]
      BY <2>1, <2>2, GoesSound
    <2>4. Rest'
      BY <1>0, <2>2, <2>3 DEF Rest
    <2>5. Joined(r)
      BY <2>1, <2>2, <2>3 DEF Joined, Running
    <2> QED
      BY <2>4, <2>5
  <1>3. CASE Tick
    <2>1. now' \in 0 .. MaxTime /\ UNCHANGED <<world, row, app, usage, q, asked, upsets>>
      BY <1>0, <1>3, Bounds DEF Tick, Rest
    <2>2. \A s \in Requests : RoundCounted(q[s])' /\ SessionFollowed(q[s])'
      BY <1>0, <2>1 DEF Rest, RoundCounted, SessionFollowed
    <2> QED
      BY <1>0, <2>1, <2>2 DEF Rest, Kept, Running
  <1>4. CASE MembershipsChange
    <2>1. world' \in Worlds /\ row' = row /\ row' \in {NoRow} \cup Rows
      BY <1>0, <1>4 DEF MembershipsChange, Rest
    <2>2. /\ Upset /\ Observed(world', effective_config(row'))
          /\ UNCHANGED <<now, app, usage, asked>>
      BY <1>4, <2>1 DEF MembershipsChange
    <2> QED
      BY <2>1, <2>2, ObservedKept
  <1>5. ASSUME NEW payload \in Payloads, PatchGlobal(payload) PROVE Rest' /\ Kept
    <2>1. PICK old : old = IF row = NoRow THEN DefaultRow ELSE row
      OBVIOUS
    <2>2. old \in Rows
      BY <1>0, <2>1 DEF Rest, DefaultRow, Rows, Providers
    <2>3. row' = Patched(old, payload) /\ row' \in Rows /\ world' = world /\ world' \in Worlds
      BY <1>0, <1>5, <2>1, <2>2, RowPatched DEF PatchGlobal, Rest
    <2>4. /\ Upset /\ Observed(world', effective_config(row'))
          /\ UNCHANGED <<now, app, usage, asked>>
      BY <1>5, <2>3 DEF PatchGlobal
    <2> QED
      BY <2>3, <2>4, ObservedKept
  <1>6. ASSUME NEW a \in Apps, NEW payload \in AppPayloads, PatchApp(a, payload)
        PROVE  Rest' /\ Kept
    <2>1. Upset /\ UNCHANGED <<now, world, row, usage, q, asked>>
      BY <1>6 DEF PatchApp
    <2>2. upsets' \in 0 .. MaxUpsets
      BY <1>0, <2>1, Bounds DEF Rest, Upset
    <2>3. app' \in [Apps -> [chat : BOOLEAN, summary : BOOLEAN]]
      BY <1>0, <1>6, FlagsPatched DEF Rest, PatchApp
    <2>4. \A s \in Requests : RoundCounted(q[s])' /\ SessionFollowed(q[s])'
      BY <1>0, <2>1 DEF Rest, RoundCounted, SessionFollowed
    <2> QED
      BY <1>0, <2>1, <2>2, <2>3, <2>4 DEF Rest, Kept, Running
  <1>7. ASSUME NEW r \in Requests, Returns(r) PROVE Rest' /\ Kept
    <2>1. PICK x : Goes(r, x) /\ Sound(x) /\ x.at = q[r].at
      BY <1>7, ReturnsGoes
    <2>2. Running(r) /\ UNCHANGED <<now, world, row, app, usage, asked, upsets>>
      BY <1>7 DEF Returns, Running
    <2> QED
      BY <2>1, <2>2, AnsweringKept
  <1> QED
    BY <1>1, <1>2, <1>3, <1>4, <1>5, <1>6, <1>7 DEF Next

-----------------------------------------------------------------------------
(* Days. *)

LEMMA Multiples ==
    ASSUME NEW d \in Nat \ {0}, NEW j \in Int, NEW k \in Int, j < k
    PROVE  d * k >= d * j + d
  <1>1. k - j - 1 >= 0
    OBVIOUS
  <1>2. d * (k - j - 1) >= 0
    BY <1>1
  <1>3. d * (k - j - 1) = d * k - d * j - d
    OBVIOUS
  <1> QED
    BY <1>2, <1>3

\* The days do not overlap.
LEMMA SameDay ==
    ASSUME NEW t \in Nat, NEW u \in Nat, u \in DayOf(t)
    PROVE  DayStart(u) = DayStart(t) /\ DayStart(t) \in Int
  <1>0. Day \in Nat \ {0}
    BY Bounds
  <1> DEFINE j == t \div Day
             k == u \div Day
  <1>1. t = Day * j + (t % Day) /\ u = Day * k + (u % Day)
    BY <1>0
  <1>2. t % Day \in 0 .. Day - 1 /\ u % Day \in 0 .. Day - 1
    BY <1>0
  <1>3. j \in Int /\ k \in Int /\ Day * j \in Int /\ Day * k \in Int
    BY <1>0
  <1> HIDE DEF j, k
  <1>4. DayStart(t) = Day * j /\ DayStart(u) = Day * k
    BY <1>0, <1>1, <1>2, <1>3 DEF DayStart
  <1>5. Day * j <= u /\ u < Day * j + Day
    BY <1>0, <1>3, <1>4 DEF DayOf
  <1>6. ~(j < k)
    BY <1>0, <1>1, <1>2, <1>3, <1>5, Multiples
  <1>7. ~(k < j)
    BY <1>0, <1>1, <1>2, <1>3, <1>5, Multiples
  <1> QED
    BY <1>3, <1>4, <1>6, <1>7

-----------------------------------------------------------------------------
(* Counting. *)

LEMMA CountsAre ==
    ASSUME AssistantInv
    PROVE  /\ IsFiniteSet(usage) /\ IsFiniteSet(Requests) /\ Cardinality(Requests) \in Nat
           /\ \A U \in SUBSET usage : IsFiniteSet(U) /\ Cardinality(U) \in Nat
           /\ \A R \in SUBSET Requests : /\ IsFiniteSet(R) /\ Cardinality(R) \in Nat
                                         /\ Cardinality(R) <= Cardinality(Requests)
  <1>1. IsFiniteSet(usage) /\ IsFiniteSet(Requests)
    BY AssistantAssumption DEF AssistantInv, UsageCounted
  <1> QED
    BY <1>1, FS_Subset, FS_CardinalityType

\* The row of an answered question is new, and costs no more than its completions.
LEMMA RowIs ==
    ASSUME AssistantInv, NEW r \in Requests, q[r] \in Answers, Running(r)
    PROVE  /\ UsageRow(q[r]) \notin usage
           /\ UsageRow(q[r]).id = Cardinality(usage) /\ UsageRow(q[r]).at = q[r].at
           /\ UsageRow(q[r]).cost \in 0 .. MAX_TOOL_ROUNDS + 1
           /\ Cardinality(usage) < asked
           /\ UsageRow(q[r]) \in [id : 0 .. MaxAsks, at : 0 .. MaxTime,
                                  cost : 0 .. MAX_TOOL_ROUNDS + 1]
  <1> DEFINE R == {s \in Requests : Running(s)}
             u == UsageRow(q[r])
  <1>1. /\ MAX_TOOL_ROUNDS \in Nat /\ MaxAsks \in Nat /\ asked \in 0 .. MaxAsks
        /\ Cardinality(usage) \in Nat /\ IsFiniteSet(R) /\ Cardinality(R) \in Nat
    BY Bounds, CountsAre DEF AssistantInv, TypeOK
  <1>2. q[r].got \in 1 .. MAX_TOOL_ROUNDS + 1 /\ q[r].at \in 0 .. MaxTime
    BY DEF Answers
  <1>3. /\ u.id = Cardinality(usage) /\ u.at = q[r].at
        /\ u.cost = estimate_cost(q[r].provider, q[r].got)
        /\ u = [id |-> u.id, at |-> u.at, cost |-> u.cost]
    BY DEF UsageRow
  <1>4. u.cost \in 0 .. MAX_TOOL_ROUNDS + 1
    BY <1>1, <1>2, <1>3 DEF estimate_cost
  <1> HIDE DEF u
  <1>5. R # {}
    OBVIOUS
  <1>6. Cardinality(R) # 0
    BY <1>1, <1>5, FS_EmptySet
  <1>7. Cardinality(usage) + Cardinality(R) <= asked
    BY DEF AssistantInv, UsageCounted
  <1> HIDE DEF R
  <1>8. Cardinality(usage) < asked
    BY <1>1, <1>6, <1>7
  <1>9. u \notin usage
    BY <1>1, <1>3 DEF AssistantInv, UsageCounted
  <1>10. u \in [id : 0 .. MaxAsks, at : 0 .. MaxTime, cost : 0 .. MAX_TOOL_ROUNDS + 1]
    <2>1. u.id \in 0 .. MaxAsks
      BY <1>1, <1>3, <1>8
    <2> QED
      BY <1>2, <1>3, <1>4, <2>1
  <1> QED
    BY <1>3, <1>4, <1>8, <1>9, <1>10 DEF u

LEMMA KeptCounts ==
    ASSUME AssistantInv, Kept
    PROVE  UsageCounted' /\ UNCHANGED <<usage, asked>>
  <1> DEFINE R == {s \in Requests : Running(s)}
  <1>1. R' \in SUBSET R /\ usage' = usage /\ asked' = asked
    BY DEF Kept
  <1>2. /\ Cardinality(R') \in Nat /\ Cardinality(R) \in Nat /\ Cardinality(R') <= Cardinality(R)
        /\ Cardinality(usage) \in Nat /\ asked \in Nat
    <2>1. R \in SUBSET Requests /\ R' \in SUBSET Requests
      OBVIOUS
    <2>2. IsFiniteSet(R) /\ Cardinality(R) \in Nat /\ Cardinality(R') \in Nat
      BY <2>1, CountsAre
    <2> HIDE DEF R
    <2>3. Cardinality(R') <= Cardinality(R)
      BY <1>1, <2>2, FS_Subset
    <2> QED
      BY <2>2, <2>3, CountsAre, Bounds DEF AssistantInv, TypeOK
  <1>3. Cardinality(usage) + Cardinality(R) <= asked
    BY DEF AssistantInv, UsageCounted
  <1>4. Cardinality(usage') + Cardinality(R') <= asked'
    <2> HIDE DEF R
    <2> QED
      BY <1>1, <1>2, <1>3
  <1>5. UsageCounted'
    BY <1>1, <1>4 DEF AssistantInv, UsageCounted
  <1> QED
    BY <1>1, <1>5 DEF AssistantInv

LEMMA JoinedCounts ==
    ASSUME AssistantInv, NEW r \in Requests, Joined(r)
    PROVE  UsageCounted' /\ usage' = usage /\ asked' \in 0 .. MaxAsks
  <1> DEFINE R == {s \in Requests : Running(s)}
  <1>1. R' = R \cup {r} /\ usage' = usage /\ asked' = asked + 1
    BY DEF Joined, Running
  <1>2. R \in SUBSET Requests /\ r \notin R
    BY DEF Joined
  <1>3. Cardinality(usage) + Cardinality(R) <= asked
    BY DEF AssistantInv, UsageCounted
  <1>4. /\ IsFiniteSet(R) /\ Cardinality(R) \in Nat /\ Cardinality(usage) \in Nat
        /\ asked \in Nat /\ MaxAsks \in Nat
    BY <1>2, CountsAre, Bounds DEF AssistantInv, TypeOK
  <1>5. Cardinality(usage') + Cardinality(R') <= asked'
    <2> HIDE DEF R
    <2>1. Cardinality(R') = Cardinality(R) + 1
      BY <1>1, <1>2, <1>4, FS_AddElement
    <2> QED
      BY <1>1, <1>3, <1>4, <2>1
  <1>6. UsageCounted'
    BY <1>1, <1>5 DEF AssistantInv, UsageCounted
  <1> QED
    BY <1>1, <1>4, <1>6 DEF Joined

LEMMA LeftCounts ==
    ASSUME AssistantInv, NEW r \in Requests, Left(r)
    PROVE  /\ UsageCounted' /\ asked' = asked
           /\ usage' \subseteq [id : 0 .. MaxAsks, at : 0 .. MaxTime,
                                cost : 0 .. MAX_TOOL_ROUNDS + 1]
  <1> DEFINE R == {s \in Requests : Running(s)}
  <1>1. PICK u : u = UsageRow(q[r])
    OBVIOUS
  <1>2. /\ u \notin usage /\ u.id = Cardinality(usage)
        /\ u \in [id : 0 .. MaxAsks, at : 0 .. MaxTime, cost : 0 .. MAX_TOOL_ROUNDS + 1]
    BY <1>1, RowIs DEF Left
  <1>3. R' = R \ {r} /\ usage' = usage \cup {u} /\ asked' = asked /\ r \in R
    BY <1>1 DEF Left, Running
  <1>4. Cardinality(usage) + Cardinality(R) <= asked
    BY DEF AssistantInv, UsageCounted
  <1>5. /\ IsFiniteSet(R) /\ Cardinality(R) \in Nat /\ Cardinality(usage) \in Nat
        /\ IsFiniteSet(usage) /\ asked \in Nat
    BY CountsAre, Bounds DEF AssistantInv, TypeOK
  <1>6. IsFiniteSet(usage') /\ Cardinality(usage') = Cardinality(usage) + 1
    BY <1>2, <1>3, <1>5, FS_AddElement
  <1>7. Cardinality(usage') + Cardinality(R') <= asked'
    <2> HIDE DEF R
    <2>1. Cardinality(R') = Cardinality(R) - 1
      BY <1>3, <1>5, FS_RemoveElement
    <2> QED
      BY <1>3, <1>4, <1>5, <1>6, <2>1
  <1>8. ASSUME NEW v \in usage' PROVE v.id < Cardinality(usage')
    <2>1. CASE v \in usage
      <3>1. v.id < Cardinality(usage) /\ v.id \in Int
        BY <2>1, Bounds DEF AssistantInv, UsageCounted, TypeOK
      <3> QED
        BY <1>5, <1>6, <3>1
    <2>2. CASE v = u
      BY <1>2, <1>5, <1>6, <2>2
    <2> QED
      BY <1>3, <2>1, <2>2
  <1>9. UsageCounted'
    BY <1>6, <1>7, <1>8 DEF UsageCounted
  <1> QED
    BY <1>2, <1>3, <1>9 DEF AssistantInv, TypeOK

-----------------------------------------------------------------------------
LEMMA AssistantInit ==
    ASSUME Init
    PROVE  AssistantInv
  <1>1. /\ now \in 0 .. MaxTime /\ world \in Worlds /\ row \in {NoRow} \cup Rows
        /\ asked \in 0 .. MaxAsks /\ upsets \in 0 .. MaxUpsets
    <2>1. PICK f \in Firsts : world = f[1] /\ row = f[2]
      BY DEF Init
    <2>2. f \in Worlds \X ({NoRow} \cup Rows)
      BY AssistantAssumption
    <2> QED
      BY <2>1, <2>2, Bounds DEF Init
  <1>2. /\ app \in [Apps -> [chat : BOOLEAN, summary : BOOLEAN]] /\ usage = {}
        /\ q \in [Requests -> Questions] /\ \A r \in Requests : q[r] = Idle
    BY DEF Init, Questions
  <1>3. \A r \in Requests : RoundCounted(q[r]) /\ SessionFollowed(q[r])
    BY <1>2, EndSound DEF Sound
  <1>4. UsageCounted
    <2>1. {r \in Requests : Running(r)} = {}
      BY <1>2 DEF Running, Idle
    <2>2. asked = 0
      BY DEF Init
    <2>3. IsFiniteSet(usage) /\ Cardinality(usage) = 0
          /\ Cardinality({r \in Requests : Running(r)}) = 0
      BY <1>2, <2>1, FS_EmptySet
    <2> QED
      BY <1>2, <2>2, <2>3 DEF UsageCounted
  <1> QED
    BY <1>1, <1>2, <1>3, <1>4 DEF AssistantInv, TypeOK, Questions

LEMMA AssistantStep ==
    ASSUME AssistantInv, [Next]_vars
    PROVE  AssistantInv'
  <1>1. CASE Next
    <2>1. Rest' /\ (Kept \/ \E r \in Requests : Joined(r) \/ Left(r))
      BY <1>1, NextStep
    <2>2. /\ UsageCounted' /\ asked' \in 0 .. MaxAsks
          /\ usage' \subseteq [id : 0 .. MaxAsks, at : 0 .. MaxTime,
                               cost : 0 .. MAX_TOOL_ROUNDS + 1]
      <3>1. /\ asked \in 0 .. MaxAsks
            /\ usage \subseteq [id : 0 .. MaxAsks, at : 0 .. MaxTime,
                                cost : 0 .. MAX_TOOL_ROUNDS + 1]
        BY DEF AssistantInv, TypeOK
      <3>2. CASE Kept
        BY <3>1, <3>2, KeptCounts
      <3>3. ASSUME NEW r \in Requests, Joined(r)
            PROVE  UsageCounted' /\ usage' = usage /\ asked' \in 0 .. MaxAsks
        BY <3>3, JoinedCounts
      <3>4. ASSUME NEW r \in Requests, Left(r)
            PROVE  /\ UsageCounted' /\ asked' = asked
                   /\ usage' \subseteq [id : 0 .. MaxAsks, at : 0 .. MaxTime,
                                        cost : 0 .. MAX_TOOL_ROUNDS + 1]
        BY <3>4, LeftCounts
      <3> QED
        BY <2>1, <3>1, <3>2, <3>3, <3>4
    <2> QED
      BY <2>1, <2>2 DEF Rest, AssistantInv, TypeOK, Questions
  <1>2. CASE UNCHANGED vars
    BY <1>2 DEF vars, AssistantInv, TypeOK, RoundCounted, SessionFollowed, UsageCounted, Running
  <1> QED
    BY <1>1, <1>2

(***************************************************************************)
(* The tool loop of _run ends before its "unreachable" end, whatever the   *)
(* model answers, whatever its provider refuses, and however memberships   *)
(* and settings change meanwhile; no question is recorded twice.           *)
(***************************************************************************)
THEOREM AssistantInvariant == Spec => []AssistantInv
BY AssistantInit, AssistantStep, PTL DEF Spec

(***************************************************************************)
(* For all memberships, settings, pages, tools and arguments: the tools of *)
(* the platform agent, which work on memberships and settings read at      *)
(* different moments and kept for the whole question, tell the model only  *)
(* what the user could see, in an application of the allow-list, with the  *)
(* role the API asks for, at some moment since the question was asked.     *)
(***************************************************************************)
THEOREM ModelToldWhatWasPermitted == Spec => []ToldWasPermitted
BY AssistantInvariant, ToldFollows, PTL

-----------------------------------------------------------------------------
(* Limits. *)

\* How a step changes the questions counted in a window.
LEMMA WindowSteps ==
    ASSUME AssistantInv, NEW W
    PROVE  /\ Kept => RecordedIn(W)' = RecordedIn(W) /\ UnderWayIn(W)' \subseteq UnderWayIn(W)
           /\ \A r \in Requests : Joined(r) =>
                /\ RecordedIn(W)' = RecordedIn(W) /\ UnderWayIn(W)' \subseteq Requests
                /\ now \notin W => UnderWayIn(W)' = UnderWayIn(W)
           /\ \A r \in Requests : Left(r) =>
                \/ /\ RecordedIn(W)' = RecordedIn(W) \cup {UsageRow(q[r])}
                   /\ UnderWayIn(W)' = UnderWayIn(W) \ {r}
                   /\ r \in UnderWayIn(W) /\ UsageRow(q[r]) \notin RecordedIn(W)
                \/ /\ RecordedIn(W)' = RecordedIn(W) /\ UnderWayIn(W)' = UnderWayIn(W)
  <1>1. ASSUME Kept
        PROVE  RecordedIn(W)' = RecordedIn(W) /\ UnderWayIn(W)' \subseteq UnderWayIn(W)
    BY <1>1 DEF Kept, RecordedIn, UnderWayIn
  <1>2. ASSUME NEW r \in Requests, Joined(r)
        PROVE  /\ RecordedIn(W)' = RecordedIn(W) /\ UnderWayIn(W)' \subseteq Requests
               /\ now \notin W => UnderWayIn(W)' = UnderWayIn(W)
    BY <1>2 DEF Joined, RecordedIn, UnderWayIn, Running
  <1>3. ASSUME NEW r \in Requests, Left(r)
        PROVE  \/ /\ RecordedIn(W)' = RecordedIn(W) \cup {UsageRow(q[r])}
                  /\ UnderWayIn(W)' = UnderWayIn(W) \ {r}
                  /\ r \in UnderWayIn(W) /\ UsageRow(q[r]) \notin RecordedIn(W)
               \/ /\ RecordedIn(W)' = RecordedIn(W) /\ UnderWayIn(W)' = UnderWayIn(W)
    <2>1. UsageRow(q[r]) \notin usage /\ UsageRow(q[r]).at = q[r].at
      BY <1>3, RowIs DEF Left
    <2>2. CASE q[r].at \in W
      <3>1. RecordedIn(W)' = RecordedIn(W) \cup {UsageRow(q[r])}
        BY <1>3, <2>1, <2>2 DEF Left, RecordedIn
      <3>2. UnderWayIn(W)' = UnderWayIn(W) \ {r} /\ r \in UnderWayIn(W)
        BY <1>3, <2>2 DEF Left, UnderWayIn, Running
      <3> QED
        BY <2>1, <3>1, <3>2 DEF RecordedIn
    <2>3. CASE q[r].at \notin W
      BY <1>3, <2>1, <2>3 DEF Left, RecordedIn, UnderWayIn, Running
    <2> QED
      BY <2>2, <2>3
  <1> QED
    BY <1>1, <1>2, <1>3

\* A window that keeps its limit: a question only enters it below the limit.
LEMMA WindowHolds ==
    ASSUME AssistantInv, Kept \/ \E r \in Requests : Joined(r) \/ Left(r),
           NEW W, NEW limit \in Nat,
           check(now) /\ now \in W => Cardinality(RecordedIn(W)) < limit,
           Entered(W) <= limit + Overshoot
    PROVE  Entered(W)' <= limit + Overshoot
  <1> DEFINE A == RecordedIn(W)
             B == UnderWayIn(W)
             N == Cardinality(Requests)
  <1>1. /\ IsFiniteSet(A) /\ IsFiniteSet(B) /\ Cardinality(A) \in Nat /\ Cardinality(B) \in Nat
        /\ N \in Nat
    BY CountsAre DEF RecordedIn, UnderWayIn
  <1>2. B' \in SUBSET Requests /\ Cardinality(B') \in Nat /\ Cardinality(B') <= N
    BY CountsAre DEF UnderWayIn
  <1>3. Cardinality(A) + Cardinality(B) <= limit + N - 1
    BY <1>1 DEF Entered, Overshoot
  <1>4. SUFFICES Cardinality(A') + Cardinality(B') <= limit + N - 1
    BY <1>1 DEF Entered, Overshoot
  <1>5. ASSUME Kept PROVE A' = A /\ B' \subseteq B
    BY <1>5, WindowSteps
  <1>6. ASSUME NEW r \in Requests, Joined(r)
        PROVE  A' = A /\ B' \subseteq Requests /\ (now \notin W => B' = B) /\ check(now)
    BY <1>6, WindowSteps DEF Joined
  <1>7. ASSUME NEW r \in Requests, Left(r)
        PROVE  \/ A' = A \cup {UsageRow(q[r])} /\ B' = B \ {r} /\ r \in B /\ UsageRow(q[r]) \notin A
               \/ A' = A /\ B' = B
    BY <1>7, WindowSteps
  <1>8. check(now) /\ now \in W => Cardinality(A) < limit
    OBVIOUS
  <1> HIDE DEF A, B, N
  <1>9. CASE Kept
    BY <1>1, <1>2, <1>3, <1>5, <1>9, FS_Subset
  <1>10. ASSUME NEW r \in Requests, Joined(r)
         PROVE  Cardinality(A') + Cardinality(B') <= limit + N - 1
    BY <1>1, <1>2, <1>3, <1>6, <1>8, <1>10
  <1>11. ASSUME NEW r \in Requests, Left(r)
         PROVE  Cardinality(A') + Cardinality(B') <= limit + N - 1
    <2>1. CASE A' = A /\ B' = B
      BY <1>3, <2>1
    <2>2. CASE A' = A \cup {UsageRow(q[r])} /\ B' = B \ {r} /\ r \in B /\ UsageRow(q[r]) \notin A
      <3>1. Cardinality(A') = Cardinality(A) + 1 /\ Cardinality(B') = Cardinality(B) - 1
        BY <1>1, <2>2, FS_AddElement, FS_RemoveElement
      <3> QED
        BY <1>1, <1>3, <3>1
    <2> QED
      BY <1>7, <1>11, <2>1, <2>2
  <1> QED
    BY <1>9, <1>10, <1>11

\* The rows of a window are among those the check counts, if now is in the window.
LEMMA CheckCounts ==
    ASSUME AssistantInv, NEW t \in 0 .. MaxTime
    PROVE  /\ now \in t .. t + 1 => RecordedIn(t .. t + 1) \subseteq Since(now - 1)
           /\ now \in DayOf(t) => RecordedIn(DayOf(t)) \subseteq Since(DayStart(now))
  <1>1. now \in Nat /\ t \in Nat /\ \A u \in usage : u.at \in Nat
    BY Bounds DEF AssistantInv, TypeOK
  <1>2. ASSUME now \in t .. t + 1, NEW u \in RecordedIn(t .. t + 1) PROVE u \in Since(now - 1)
    BY <1>1, <1>2 DEF RecordedIn, Since
  <1>3. ASSUME now \in DayOf(t), NEW u \in RecordedIn(DayOf(t)) PROVE u \in Since(DayStart(now))
    <2>1. DayStart(now) = DayStart(t) /\ DayStart(t) \in Int
      BY <1>1, <1>3, SameDay
    <2>2. u \in usage /\ u.at >= DayStart(t)
      BY <1>1, <1>3, <2>1, Bounds DEF RecordedIn, DayOf
    <2> QED
      BY <2>1, <2>2 DEF Since
  <1> QED
    BY <1>2, <1>3

LEMMA CheckLimits ==
    ASSUME AssistantInv, check(now), NEW t \in 0 .. MaxTime
    PROVE  /\ PerMinute > 0 /\ now \in t .. t + 1 =>
                Cardinality(RecordedIn(t .. t + 1)) < PerMinute
           /\ PerDay > 0 /\ now \in DayOf(t) => Cardinality(RecordedIn(DayOf(t))) < PerDay
  <1>1. \A U \in SUBSET usage : IsFiniteSet(U) /\ Cardinality(U) \in Nat
    BY CountsAre
  <1>2. /\ Since(now - 1) \in SUBSET usage /\ Since(DayStart(now)) \in SUBSET usage
        /\ RecordedIn(t .. t + 1) \in SUBSET usage /\ RecordedIn(DayOf(t)) \in SUBSET usage
    BY DEF Since, RecordedIn
  <1>3. /\ PerMinute > 0 => Cardinality(Since(now - 1)) < PerMinute
        /\ PerDay > 0 => Cardinality(Since(DayStart(now))) < PerDay
    BY DEF check, Below
  <1>4. ASSUME PerMinute > 0, now \in t .. t + 1
        PROVE  Cardinality(RecordedIn(t .. t + 1)) < PerMinute
    <2>1. Cardinality(RecordedIn(t .. t + 1)) <= Cardinality(Since(now - 1))
      BY <1>1, <1>2, <1>4, CheckCounts, FS_Subset
    <2> QED
      BY <1>1, <1>2, <1>3, <1>4, <2>1, Bounds
  <1>5. ASSUME PerDay > 0, now \in DayOf(t)
        PROVE  Cardinality(RecordedIn(DayOf(t))) < PerDay
    <2>1. Cardinality(RecordedIn(DayOf(t))) <= Cardinality(Since(DayStart(now)))
      BY <1>1, <1>2, <1>5, CheckCounts, FS_Subset
    <2> QED
      BY <1>1, <1>2, <1>3, <1>5, <2>1, Bounds
  <1> QED
    BY <1>4, <1>5

-----------------------------------------------------------------------------
(* Costs. *)

LEMMA UpTo ==
    ASSUME NEW n \in Nat
    PROVE  IsFiniteSet(1 .. n) /\ Cardinality(1 .. n) = n
  <1>1. 1 \in Int /\ n \in Int
    OBVIOUS
  <1>2. IsFiniteSet(1 .. n) /\ Cardinality(1 .. n) = IF 1 > n THEN 0 ELSE n - 1 + 1
    BY <1>1, FS_Interval, Zenon
  <1> QED
    BY <1>2

LEMMA Column ==
    ASSUME NEW u, NEW n \in Nat
    PROVE  IsFiniteSet({u} \X (1 .. n)) /\ Cardinality({u} \X (1 .. n)) = n
  <1>1. PICK S : S = {u}
    OBVIOUS
  <1>2. PICK T : T = 1 .. n
    OBVIOUS
  <1>3. IsFiniteSet(S) /\ Cardinality(S) = 1
    BY <1>1, FS_Singleton
  <1>4. IsFiniteSet(T) /\ Cardinality(T) = n
    BY <1>2, UpTo
  <1>5. IsFiniteSet(S \X T) /\ Cardinality(S \X T) = Cardinality(S) * Cardinality(T)
    BY <1>3, <1>4, FS_Product
  <1>6. Cardinality(S \X T) = n
    BY <1>3, <1>4, <1>5
  <1> QED
    BY <1>1, <1>2, <1>5, <1>6

LEMMA CostIs ==
    ASSUME NEW S, IsFiniteSet(S), NEW m \in Nat, \A u \in S : u.cost \in 0 .. m
    PROVE  IsFiniteSet(Units(S)) /\ CostOf(S) \in Nat
  <1>1. Units(S) \in SUBSET (S \X (1 .. m))
    BY DEF Units
  <1>2. IsFiniteSet(S \X (1 .. m))
    BY UpTo, FS_Product
  <1> QED
    BY <1>1, <1>2, FS_Subset, FS_CardinalityType DEF CostOf

LEMMA CostMonotone ==
    ASSUME NEW T, IsFiniteSet(T), NEW m \in Nat, \A u \in T : u.cost \in 0 .. m,
           NEW S \in SUBSET T
    PROVE  CostOf(S) <= CostOf(T)
  <1>1. Units(S) \in SUBSET Units(T)
    BY DEF Units
  <1> QED
    BY <1>1, CostIs, FS_Subset DEF CostOf

LEMMA CostAdded ==
    ASSUME NEW S, IsFiniteSet(S), NEW m \in Nat, \A v \in S : v.cost \in 0 .. m,
           NEW u, u.cost \in 0 .. m
    PROVE  CostOf(S \cup {u}) \in Nat /\ CostOf(S \cup {u}) <= CostOf(S) + m
  <1> DEFINE P == {u} \X (1 .. u.cost)
             A == Units(S)
  <1>1. Units(S \cup {u}) = A \cup P
    BY DEF Units
  <1>2. IsFiniteSet(P) /\ Cardinality(P) = u.cost
    <2>1. u.cost \in Nat
      OBVIOUS
    <2> QED
      BY <2>1, Column
  <1>3. IsFiniteSet(A) /\ Cardinality(A) \in Nat
    BY CostIs DEF CostOf
  <1> HIDE DEF A, P
  <1>4. /\ IsFiniteSet(A \cup P)
        /\ Cardinality(A \cup P) = Cardinality(A) + Cardinality(P) - Cardinality(A \cap P)
    BY <1>2, <1>3, FS_Union
  <1>5. Cardinality(A \cap P) \in Nat
    BY <1>3, FS_Subset, FS_CardinalityType
  <1>6. Cardinality(A \cup P) \in Nat
    BY <1>4, FS_CardinalityType
  <1>7. Cardinality(A \cup P) <= Cardinality(A) + m
    BY <1>2, <1>3, <1>4, <1>5
  <1>8. CostOf(S) = Cardinality(A) /\ CostOf(S \cup {u}) = Cardinality(A \cup P)
    BY <1>1 DEF CostOf, A
  <1> QED
    BY <1>6, <1>7, <1>8

\* What n questions may cost.
LEMMA MaxCostIs ==
    ASSUME NEW n \in Nat
    PROVE  /\ MaxCost(n) \in Nat /\ MaxCost(n + 1) = MaxCost(n) + MAX_TOOL_ROUNDS + 1
           /\ \A k \in 0 .. n : MaxCost(k) <= MaxCost(n)
  <1>0. MAX_TOOL_ROUNDS \in Nat
    BY Bounds
  <1>1. MaxCost(n) \in Nat
    BY <1>0 DEF MaxCost
  <1>2. MaxCost(n + 1) = MaxCost(n) + MAX_TOOL_ROUNDS + 1
    BY <1>0 DEF MaxCost
  <1>3. ASSUME NEW k \in 0 .. n PROVE MaxCost(k) <= MaxCost(n)
    <2>1. (n - k) * (MAX_TOOL_ROUNDS + 1) >= 0
      <3>1. n - k \in Nat /\ MAX_TOOL_ROUNDS + 1 \in Nat
        BY <1>0
      <3> QED
        BY <3>1
    <2>2. n * (MAX_TOOL_ROUNDS + 1) = k * (MAX_TOOL_ROUNDS + 1) + (n - k) * (MAX_TOOL_ROUNDS + 1)
      BY <1>0
    <2> QED
      BY <1>0, <2>1, <2>2 DEF MaxCost
  <1> QED
    BY <1>1, <1>2, <1>3

\* The cost of a day, with what its questions under way may still add.
LEMMA BudgetHolds ==
    ASSUME AssistantInv, Kept \/ \E r \in Requests : Joined(r) \/ Left(r), Budget > 0,
           NEW t \in 0 .. MaxTime,
           CostOf(RecordedIn(DayOf(t))) + MaxCost(Cardinality(UnderWayIn(DayOf(t))))
               <= Budget - 1 + MaxCost(Cardinality(Requests))
    PROVE  (CostOf(RecordedIn(DayOf(t))) + MaxCost(Cardinality(UnderWayIn(DayOf(t)))))'
               <= Budget - 1 + MaxCost(Cardinality(Requests))
  <1> DEFINE A == RecordedIn(DayOf(t))
             B == UnderWayIn(DayOf(t))
             N == Cardinality(Requests)
             m == MAX_TOOL_ROUNDS + 1
  <1>0. Budget \in Nat /\ m \in Nat
    BY Bounds
  <1>1. /\ IsFiniteSet(A) /\ IsFiniteSet(B) /\ Cardinality(B) \in Nat /\ N \in Nat
        /\ Cardinality(B) <= N
    BY CountsAre DEF RecordedIn, UnderWayIn
  <1>2. B' \in SUBSET Requests /\ Cardinality(B') \in Nat /\ Cardinality(B') <= N
    BY CountsAre DEF UnderWayIn
  <1>3. IsFiniteSet(usage) /\ \A u \in usage : u.cost \in 0 .. m
    BY CountsAre DEF AssistantInv, TypeOK
  <1>4. (\A u \in A : u.cost \in 0 .. m) /\ CostOf(A) \in Nat
    <2>1. \A u \in A : u.cost \in 0 .. m
      BY <1>3 DEF RecordedIn
    <2> HIDE DEF A, m
    <2> QED
      BY <1>0, <1>1, <2>1, CostIs
  <1>5. MaxCost(N) \in Nat /\ MaxCost(Cardinality(B)) \in Nat /\ MaxCost(Cardinality(B')) \in Nat
        /\ MaxCost(Cardinality(B')) <= MaxCost(N)
    BY <1>1, <1>2, MaxCostIs
  <1>6. CostOf(A) + MaxCost(Cardinality(B)) <= Budget - 1 + MaxCost(N)
    OBVIOUS
  <1>7. SUFFICES CostOf(A') + MaxCost(Cardinality(B')) <= Budget - 1 + MaxCost(N)
    BY DEF CostOf, Units, MaxCost
  <1>8. CASE Kept
    <2>1. A' = A /\ B' \in SUBSET B
      BY <1>8, WindowSteps
    <2> HIDE DEF A, B, N
    <2>2. Cardinality(B') <= Cardinality(B)
      BY <1>1, <2>1, FS_Subset
    <2>3. MaxCost(Cardinality(B')) <= MaxCost(Cardinality(B))
      BY <1>1, <1>2, <2>2, MaxCostIs
    <2> QED
      BY <1>0, <1>4, <1>5, <1>6, <2>1, <2>3
  <1>9. ASSUME NEW r \in Requests, Joined(r)
        PROVE  CostOf(A') + MaxCost(Cardinality(B')) <= Budget - 1 + MaxCost(N)
    <2>1. A' = A /\ (now \notin DayOf(t) => B' = B)
      BY <1>9, WindowSteps
    <2>2. CASE now \notin DayOf(t)
      BY <1>6, <2>1, <2>2
    <2>3. CASE now \in DayOf(t)
      <3> DEFINE D == Since(DayStart(now))
      <3>1. A \in SUBSET D /\ D \in SUBSET usage
        BY <2>3, CheckCounts DEF Since
      <3>2. CostOf(D) < Budget
        BY <1>9 DEF Joined, check, Below
      <3>3. IsFiniteSet(D) /\ \A u \in D : u.cost \in 0 .. m
        BY <1>3, <3>1, FS_Subset
      <3> HIDE DEF A, B, D, N, m
      <3>4. CostOf(D) \in Nat /\ CostOf(A) <= CostOf(D)
        BY <1>0, <3>1, <3>3, CostIs, CostMonotone
      <3> QED
        BY <1>0, <1>4, <1>5, <2>1, <3>2, <3>4
    <2> QED
      BY <2>2, <2>3
  <1>10. ASSUME NEW r \in Requests, Left(r)
         PROVE  CostOf(A') + MaxCost(Cardinality(B')) <= Budget - 1 + MaxCost(N)
    <2>1. PICK u : u = UsageRow(q[r])
      OBVIOUS
    <2>2. \/ A' = A \cup {u} /\ B' = B \ {r} /\ r \in B
          \/ A' = A /\ B' = B
      BY <1>10, <2>1, WindowSteps
    <2>3. u.cost \in 0 .. m
      BY <1>10, <2>1, RowIs DEF Left
    <2>4. CASE A' = A /\ B' = B
      BY <1>6, <2>4
    <2>5. CASE A' = A \cup {u} /\ B' = B \ {r} /\ r \in B
      <3> HIDE DEF A, B, N
      <3>1. CostOf(A') \in Nat /\ CostOf(A') <= CostOf(A) + m
        <4> HIDE DEF m
        <4> QED
          BY <1>0, <1>1, <1>4, <2>3, <2>5, CostAdded
      <3>2. Cardinality(B) = Cardinality(B') + 1
        <4>1. Cardinality(B \ {r}) = Cardinality(B) - 1
          BY <1>1, <2>5, FS_RemoveElement
        <4> QED
          BY <1>1, <2>5, <4>1
      <3>3. MaxCost(Cardinality(B)) = MaxCost(Cardinality(B')) + m
        <4>1. PICK n \in Nat : n = Cardinality(B') /\ Cardinality(B) = n + 1
          BY <1>2, <3>2
        <4>2. MaxCost(n) \in Nat /\ MaxCost(n + 1) = MaxCost(n) + MAX_TOOL_ROUNDS + 1
          BY <4>1, MaxCostIs
        <4> QED
          BY <4>1, <4>2, Bounds
      <3> QED
        BY <1>0, <1>4, <1>5, <1>6, <3>1, <3>3
    <2> QED
      BY <2>2, <2>4, <2>5
  <1> QED
    BY <1>8, <1>9, <1>10

LEMMA LimitsInit ==
    ASSUME Init
    PROVE  LimitsHold
  <1>1. /\ Cardinality(Requests) \in Nat /\ PerMinute \in Nat /\ PerDay \in Nat /\ Budget \in Nat
    BY AssistantAssumption, Bounds, FS_CardinalityType
  <1>2. usage = {} /\ \A r \in Requests : ~Running(r)
    BY DEF Init, Running, Idle
  <1>3. \A W : RecordedIn(W) = {} /\ UnderWayIn(W) = {}
    BY <1>2 DEF RecordedIn, UnderWayIn
  <1>4. \A W : Entered(W) = 0
    BY <1>3, FS_EmptySet DEF Entered
  <1>5. CostOf({}) = 0
    BY FS_EmptySet DEF CostOf, Units
  <1>6. MaxCost(0) = 0 /\ MaxCost(Cardinality(Requests)) \in Nat
    <2>1. MaxCost(0) = 0
      BY Bounds DEF MaxCost
    <2> QED
      BY <1>1, <2>1, MaxCostIs
  <1>7. \A W : CostOf(RecordedIn(W)) + MaxCost(Cardinality(UnderWayIn(W))) = 0
    <2>1. ASSUME NEW W PROVE CostOf(RecordedIn(W)) = 0 /\ MaxCost(Cardinality(UnderWayIn(W))) = 0
      <3>1. RecordedIn(W) = {} /\ Cardinality(UnderWayIn(W)) = 0
        BY <1>3, FS_EmptySet
      <3> QED
        BY <1>5, <1>6, <3>1
    <2> QED
      BY <2>1
  <1> QED
    BY <1>1, <1>4, <1>6, <1>7 DEF LimitsHold, Overshoot

LEMMA LimitsStep ==
    ASSUME AssistantInv, LimitsHold, [Next]_vars
    PROVE  LimitsHold'
  <1>1. CASE Next
    <2>0. Kept \/ \E r \in Requests : Joined(r) \/ Left(r)
      BY <1>1, NextStep
    <2> SUFFICES ASSUME NEW t \in 0 .. MaxTime
                 PROVE  /\ PerMinute > 0 => Entered(t .. t + 1)' <= PerMinute + Overshoot
                        /\ PerDay > 0 => Entered(DayOf(t))' <= PerDay + Overshoot
                        /\ Budget > 0 =>
                             (CostOf(RecordedIn(DayOf(t)))
                                 + MaxCost(Cardinality(UnderWayIn(DayOf(t)))))'
                                 <= Budget - 1 + MaxCost(Cardinality(Requests))
      BY DEF LimitsHold, Overshoot, MaxCost
    <2>1. /\ PerMinute > 0 => Entered(t .. t + 1) <= PerMinute + Overshoot
          /\ PerDay > 0 => Entered(DayOf(t)) <= PerDay + Overshoot
          /\ Budget > 0 => CostOf(RecordedIn(DayOf(t)))
                               + MaxCost(Cardinality(UnderWayIn(DayOf(t))))
                               <= Budget - 1 + MaxCost(Cardinality(Requests))
      BY DEF LimitsHold
    <2>2. ASSUME PerMinute > 0 PROVE Entered(t .. t + 1)' <= PerMinute + Overshoot
      <3>1. check(now) /\ now \in t .. t + 1 => Cardinality(RecordedIn(t .. t + 1)) < PerMinute
        BY <2>2, CheckLimits
      <3> QED
        BY <2>0, <2>1, <2>2, <3>1, WindowHolds, Bounds
    <2>3. ASSUME PerDay > 0 PROVE Entered(DayOf(t))' <= PerDay + Overshoot
      <3>1. check(now) /\ now \in DayOf(t) => Cardinality(RecordedIn(DayOf(t))) < PerDay
        BY <2>3, CheckLimits
      <3> QED
        BY <2>0, <2>1, <2>3, <3>1, WindowHolds, Bounds
    <2>4. ASSUME Budget > 0
          PROVE  (CostOf(RecordedIn(DayOf(t))) + MaxCost(Cardinality(UnderWayIn(DayOf(t)))))'
                     <= Budget - 1 + MaxCost(Cardinality(Requests))
      BY <2>0, <2>1, <2>4, BudgetHolds
    <2> QED
      BY <2>2, <2>3, <2>4
  <1>2. CASE UNCHANGED vars
    BY <1>2 DEF vars, LimitsHold, Entered, RecordedIn, UnderWayIn, Running, Overshoot, CostOf,
                Units, MaxCost
  <1> QED
    BY <1>1, <1>2

(***************************************************************************)
(* For all limits and any number of concurrent questions: since usage is   *)
(* counted before a question and recorded after it, the questions of a     *)
(* minute or a day pass the limit by at most one less than the questions   *)
(* that may run at once, and the cost of a day by what these may cost.     *)
(***************************************************************************)
THEOREM LimitsAlwaysHold == Spec => []LimitsHold
<1>1. Init => LimitsHold
  BY LimitsInit
<1>2. AssistantInv /\ LimitsHold /\ [Next]_vars => LimitsHold'
  BY LimitsStep
<1>. QED  BY <1>1, <1>2, AssistantInvariant, PTL DEF Spec

-----------------------------------------------------------------------------
(***************************************************************************)
(* Security scans.                                                         *)
(***************************************************************************)

\* The constant records are well-formed.
LEMMA ScanConstantTypes ==
    /\ SomeScan \in Scans
    /\ NoSummary \in Summaries /\ ~NoSummary.made
    /\ NoCallback \in CallbackStates /\ NoCallback.pc = "new"
    /\ NoAsk \in Asks /\ NoAsk.pc = "idle"
<1>1. SomeScan \in Scans
  BY ScanConstants DEF SomeScan
<1>. QED
  BY <1>1 DEF NoSummary, NoCallback, NoAsk, Terminal, Summaries, CallbackStates, CallbackPcs, Asks

\* What holds of the record of a callback.
LEMMA CallbackFields ==
    ASSUME NEW r \in CallbackStates
    PROVE  /\ r.pc \in CallbackPcs /\ r.s \in Scans /\ r.verdict \in Terminal
           /\ r.critical \in BOOLEAN /\ r.known \in Nat
BY DEF CallbackStates

\* A callback moves on, and is still one of the same scan.
LEMMA CallbackMoves ==
    ASSUME NEW r \in CallbackStates, NEW p \in CallbackPcs, NEW n \in Nat
    PROVE  /\ [r EXCEPT !.pc = p] \in CallbackStates
           /\ [r EXCEPT !.pc = p, !.known = n] \in CallbackStates
BY DEF CallbackStates

(***************************************************************************)
(* What the steps of a callback do to its record, and that they leave the  *)
(* others alone.                                                           *)
(***************************************************************************)
OthersKept(k) == \A j \in Callbacks : j # k => cb'[j] = cb[j]
SameReport(k) == /\ cb'[k].s = cb[k].s /\ cb'[k].verdict = cb[k].verdict
                 /\ cb'[k].critical = cb[k].critical

LEMMA LoadsEffect ==
    ASSUME ScanTypeOK, NEW k \in Callbacks, CallbackLoads(k)
    PROVE  /\ cb' \in [Callbacks -> CallbackStates] /\ OthersKept(k)
           /\ cb[k].pc = "new" /\ cb'[k].pc \in {"loaded", "refused"}
           /\ UNCHANGED <<status, draft, pipeline, findings, events, summary, user>>
<1>1. PICK s \in pipeline, v \in Verdicts, c \in BOOLEAN :
        cb' = [cb EXCEPT ![k] = [pc |-> IF Accepting(s) THEN "loaded" ELSE "refused",
                                 s |-> s, verdict |-> v, critical |-> c, known |-> 0]]
  BY DEF CallbackLoads
<1>2. s \in Scans /\ v \in Terminal
  BY DEF ScanTypeOK, Verdicts
<1>3. [pc |-> IF Accepting(s) THEN "loaded" ELSE "refused", s |-> s, verdict |-> v,
       critical |-> c, known |-> 0] \in CallbackStates
  BY <1>2 DEF CallbackStates, CallbackPcs
<1>4. cb \in [Callbacks -> CallbackStates]
  BY DEF ScanTypeOK
<1>. QED  BY <1>1, <1>3, <1>4 DEF CallbackLoads, OthersKept

LEMMA FlushesEffect ==
    ASSUME ScanTypeOK, NEW k \in Callbacks, CallbackFlushes(k)
    PROVE  /\ cb' \in [Callbacks -> CallbackStates] /\ OthersKept(k) /\ SameReport(k)
           /\ cb[k].pc = "loaded" /\ ~Locked(cb[k].s)
           /\ cb'[k].pc = IF status[cb[k].s] = "absent" THEN "refused" ELSE "locked"
           /\ UNCHANGED <<status, draft, pipeline, findings, events, summary, user>>
<1>. DEFINE p == IF status[cb[k].s] = "absent" THEN "refused" ELSE "locked"
<1>1. cb \in [Callbacks -> CallbackStates] /\ cb[k] \in CallbackStates
  BY DEF ScanTypeOK
<1>2. p \in CallbackPcs
  BY DEF CallbackPcs
<1>3. [cb[k] EXCEPT !.pc = p] \in CallbackStates
  BY <1>1, <1>2, CallbackMoves
<1>4. cb' = [cb EXCEPT ![k] = [cb[k] EXCEPT !.pc = p]]
  BY <1>1 DEF CallbackFlushes
<1>5. cb'[k] = [cb[k] EXCEPT !.pc = p] /\ OthersKept(k)
  BY <1>1, <1>4 DEF OthersKept
<1>6. SameReport(k) /\ cb'[k].pc = p
  BY <1>1, <1>5 DEF SameReport, CallbackStates
<1>. QED  BY <1>1, <1>3, <1>4, <1>5, <1>6 DEF CallbackFlushes, FlushReady

LEMMA LooksUpEffect ==
    ASSUME ScanTypeOK, NEW k \in Callbacks, CallbackLooksUp(k)
    PROVE  /\ cb' \in [Callbacks -> CallbackStates] /\ OthersKept(k) /\ SameReport(k)
           /\ cb[k].pc = "locked" /\ cb'[k].pc = "checked" /\ cb'[k].known = events[cb[k].s]
           /\ UNCHANGED <<status, draft, pipeline, findings, events, summary, user>>
<1>. DEFINE r == [cb[k] EXCEPT !.pc = "checked", !.known = events[cb[k].s]]
<1>1. cb \in [Callbacks -> CallbackStates] /\ cb[k] \in CallbackStates
  BY DEF ScanTypeOK
<1>2. events[cb[k].s] \in Nat
  BY <1>1, CallbackFields DEF ScanTypeOK
<1>3. r \in CallbackStates
  BY <1>1, <1>2, CallbackMoves DEF CallbackPcs
<1>4. cb' = [cb EXCEPT ![k] = r]
  BY <1>1 DEF CallbackLooksUp
<1>5. cb'[k] = r /\ OthersKept(k)
  BY <1>1, <1>4 DEF OthersKept
<1>6. SameReport(k) /\ cb'[k].pc = "checked" /\ cb'[k].known = events[cb[k].s]
  BY <1>1, <1>5 DEF SameReport, CallbackStates
<1>. QED  BY <1>1, <1>3, <1>4, <1>5, <1>6 DEF CallbackLooksUp

LEMMA CommitsEffect ==
    ASSUME ScanTypeOK, NEW k \in Callbacks, CallbackCommits(k)
    PROVE  /\ cb' \in [Callbacks -> CallbackStates] /\ OthersKept(k) /\ SameReport(k)
           /\ cb[k].pc = "checked" /\ cb'[k].pc = "stored" /\ cb[k].s \in Scans
           /\ status' = [status EXCEPT ![cb[k].s] = cb[k].verdict]
           /\ findings' = [findings EXCEPT ![cb[k].s] = @ \cup {k}]
           /\ events' = [events EXCEPT ![cb[k].s] =
                            IF Critical(k) /\ cb[k].known = 0 THEN @ + 1 ELSE @]
           /\ UNCHANGED <<draft, pipeline, summary, user>>
<1>1. cb \in [Callbacks -> CallbackStates] /\ cb[k] \in CallbackStates
  BY DEF ScanTypeOK
<1>2. [cb[k] EXCEPT !.pc = "stored"] \in CallbackStates
  BY <1>1, CallbackMoves DEF CallbackPcs
<1>3. cb' = [cb EXCEPT ![k] = [cb[k] EXCEPT !.pc = "stored"]]
  BY <1>1 DEF CallbackCommits
<1>4. cb'[k] = [cb[k] EXCEPT !.pc = "stored"] /\ OthersKept(k)
  BY <1>1, <1>3 DEF OthersKept
<1>5. SameReport(k) /\ cb'[k].pc = "stored" /\ cb[k].s \in Scans
  BY <1>1, <1>4 DEF SameReport, CallbackStates
<1>. QED  BY <1>1, <1>2, <1>3, <1>4, <1>5 DEF CallbackCommits

LEMMA FailsEffect ==
    ASSUME ScanTypeOK, NEW k \in Callbacks, CallbackFails(k)
    PROVE  /\ cb' \in [Callbacks -> CallbackStates] /\ OthersKept(k) /\ SameReport(k)
           /\ cb[k].pc \in {"locked", "checked"} /\ cb'[k].pc = "refused"
           /\ UNCHANGED <<status, draft, pipeline, findings, events, summary, user>>
<1>1. cb \in [Callbacks -> CallbackStates] /\ cb[k] \in CallbackStates
  BY DEF ScanTypeOK
<1>2. [cb[k] EXCEPT !.pc = "refused"] \in CallbackStates
  BY <1>1, CallbackMoves DEF CallbackPcs
<1>3. cb' = [cb EXCEPT ![k] = [cb[k] EXCEPT !.pc = "refused"]]
  BY <1>1 DEF CallbackFails
<1>4. cb'[k] = [cb[k] EXCEPT !.pc = "refused"] /\ OthersKept(k)
  BY <1>1, <1>3 DEF OthersKept
<1>5. SameReport(k) /\ cb'[k].pc = "refused"
  BY <1>1, <1>4 DEF SameReport, CallbackStates
<1>. QED  BY <1>1, <1>2, <1>3, <1>4, <1>5 DEF CallbackFails

(***************************************************************************)
(* Every step keeps the types.                                             *)
(***************************************************************************)
LEMMA ScanTypeStep == ScanTypeOK /\ [ScanNext]_scanVars => ScanTypeOK'
<1>. SUFFICES ASSUME ScanTypeOK, [ScanNext]_scanVars PROVE ScanTypeOK'
  OBVIOUS
<1>1. ASSUME NEW s \in Scans, CreateFlushes(s)  PROVE ScanTypeOK'
  BY <1>1 DEF CreateFlushes, Triggered, ScanTypeOK, Unfinished
<1>2. ASSUME NEW s \in Scans, CreateCommits(s)  PROVE ScanTypeOK'
  BY <1>2 DEF CreateCommits, ScanTypeOK
<1>3. ASSUME NEW s \in Scans, CreateFails(s)  PROVE ScanTypeOK'
  BY <1>3 DEF CreateFails, ScanTypeOK
<1>4. ASSUME NEW s \in Scans, AppDeleted(s)  PROVE ScanTypeOK'
  BY <1>4, ScanConstantTypes DEF AppDeleted, ScanTypeOK
<1>5. ASSUME NEW k \in Callbacks, CallbackLoads(k)  PROVE ScanTypeOK'
  BY <1>5, LoadsEffect DEF ScanTypeOK
<1>6. ASSUME NEW k \in Callbacks, CallbackFlushes(k)  PROVE ScanTypeOK'
  BY <1>6, FlushesEffect DEF ScanTypeOK
<1>7. ASSUME NEW k \in Callbacks, CallbackLooksUp(k)  PROVE ScanTypeOK'
  BY <1>7, LooksUpEffect DEF ScanTypeOK
<1>8. ASSUME NEW k \in Callbacks, CallbackCommits(k)  PROVE ScanTypeOK'
  <2>1. cb[k].s \in Scans /\ cb[k].verdict \in Terminal
    BY CallbackFields DEF ScanTypeOK
  <2>2. /\ status' \in [Scans -> {"absent"} \cup Unfinished \cup Terminal]
        /\ findings' \in [Scans -> SUBSET Callbacks]
        /\ events' \in [Scans -> Nat]
    BY <1>8, <2>1 DEF CallbackCommits, ScanTypeOK
  <2>. QED  BY <1>8, <2>2, CommitsEffect DEF ScanTypeOK
<1>9. ASSUME NEW k \in Callbacks, CallbackFails(k)  PROVE ScanTypeOK'
  BY <1>9, FailsEffect DEF ScanTypeOK
<1>10. ASSUME NEW u \in Users, SummaryLoads(u)  PROVE ScanTypeOK'
  <2>1. PICK s \in Scans :
          user' = [user EXCEPT ![u] = [pc |-> "asked", s |-> s, about |-> findings[s]]]
    BY <1>10 DEF SummaryLoads
  <2>2. [pc |-> "asked", s |-> s, about |-> findings[s]] \in Asks
    BY DEF ScanTypeOK, Asks
  <2>. QED  BY <1>10, <2>1, <2>2 DEF SummaryLoads, ScanTypeOK
<1>11. ASSUME NEW u \in Users, SummaryEnds(u)  PROVE ScanTypeOK'
  <2>1. user[u].about \in SUBSET Callbacks /\ user[u].s \in Scans
    BY DEF ScanTypeOK, Asks
  <2>2. [about |-> user[u].about, made |-> TRUE] \in Summaries
    BY <2>1 DEF Summaries
  <2>3. summary' \in [Scans -> Summaries]
    BY <1>11, <2>1, <2>2 DEF SummaryEnds, ScanTypeOK
  <2>. QED  BY <1>11, <2>3, ScanConstantTypes DEF SummaryEnds, ScanTypeOK
<1>12. CASE UNCHANGED scanVars
  BY <1>12 DEF scanVars, ScanTypeOK
<1>. QED
  BY <1>1, <1>2, <1>3, <1>4, <1>5, <1>6, <1>7, <1>8, <1>9, <1>10, <1>11, <1>12 DEF ScanNext

(***************************************************************************)
(* Only a callback's commit changes the events, and it holds the lock.     *)
(***************************************************************************)
LEMMA NotifiedStep ==
    ScanTypeOK /\ LockIsExclusive /\ CriticalNotifiedOnce /\ [ScanNext]_scanVars
        => LockIsExclusive' /\ CriticalNotifiedOnce'
<1>. SUFFICES ASSUME ScanTypeOK, LockIsExclusive, CriticalNotifiedOnce, [ScanNext]_scanVars
              PROVE  LockIsExclusive' /\ CriticalNotifiedOnce'
  OBVIOUS
<1>. DEFINE Untouched == UNCHANGED <<cb, events>>
<1>1. ASSUME NEW k \in Callbacks, CallbackLoads(k)
      PROVE  LockIsExclusive' /\ CriticalNotifiedOnce'
  BY <1>1, LoadsEffect
     DEF LockIsExclusive, CriticalNotifiedOnce, Reported, Critical, OthersKept
<1>2. ASSUME NEW k \in Callbacks, CallbackFlushes(k)
      PROVE  LockIsExclusive' /\ CriticalNotifiedOnce'
  BY <1>2, FlushesEffect
     DEF LockIsExclusive, CriticalNotifiedOnce, Reported, Critical, Locked, OthersKept, SameReport
<1>3. ASSUME NEW k \in Callbacks, CallbackLooksUp(k)
      PROVE  LockIsExclusive' /\ CriticalNotifiedOnce'
  BY <1>3, LooksUpEffect
     DEF LockIsExclusive, CriticalNotifiedOnce, Reported, Critical, OthersKept, SameReport
<1>4. ASSUME NEW k \in Callbacks, CallbackCommits(k)
      PROVE  LockIsExclusive' /\ CriticalNotifiedOnce'
  <2>. DEFINE s == cb[k].s
  <2>1. /\ cb[k].pc = "checked" /\ s \in Scans
        /\ cb'[k].pc = "stored" /\ SameReport(k) /\ OthersKept(k)
        /\ events'[s] = IF Critical(k) /\ cb[k].known = 0 THEN events[s] + 1 ELSE events[s]
        /\ \A t \in Scans : t # s => events'[t] = events[t]
    BY <1>4, CommitsEffect DEF ScanTypeOK
  <2>. USE DEF SameReport, OthersKept
  <2>2. LockIsExclusive'
    <3>1. ASSUME NEW j \in Callbacks, cb'[j].pc = "checked"
          PROVE  j # k /\ cb[j].s # s /\ cb[j].s \in Scans
      BY <2>1, <3>1, CallbackFields DEF LockIsExclusive, ScanTypeOK
    <3>. QED  BY <2>1, <3>1 DEF LockIsExclusive
  <2>3. ASSUME NEW t \in Scans
        PROVE  events'[t] = IF Reported(t)' THEN 1 ELSE 0
    <3>0. /\ events[t] = IF Reported(t) THEN 1 ELSE 0
          /\ cb[k].known = events[s]
      BY <2>1 DEF CriticalNotifiedOnce, LockIsExclusive
    <3>1. CASE t # s
      <4>1. Reported(t)' <=> Reported(t)
        BY <2>1, <3>1 DEF Reported, Critical
      <4>. QED  BY <2>1, <3>0, <3>1, <4>1
    <3>2. CASE t = s
      <4>1. Reported(t)' <=> Reported(t) \/ Critical(k)
        BY <2>1, <3>2 DEF Reported, Critical
      <4>2. CASE Critical(k)
        BY <2>1, <3>0, <3>2, <4>1, <4>2
      <4>3. CASE ~Critical(k)
        BY <2>1, <3>0, <3>2, <4>1, <4>3
      <4>. QED  BY <4>2, <4>3
    <3>. QED  BY <3>1, <3>2
  <2>. QED  BY <2>2, <2>3 DEF CriticalNotifiedOnce
<1>5. ASSUME NEW k \in Callbacks, CallbackFails(k)
      PROVE  LockIsExclusive' /\ CriticalNotifiedOnce'
  BY <1>5, FailsEffect
     DEF LockIsExclusive, CriticalNotifiedOnce, Reported, Critical, OthersKept, SameReport
<1>6. CASE Untouched
  BY <1>6 DEF LockIsExclusive, CriticalNotifiedOnce, Reported, Critical
<1>7. /\ \A s \in Scans : CreateFlushes(s) \/ CreateCommits(s) \/ CreateFails(s) => Untouched
      /\ \A s \in Scans : AppDeleted(s) => Untouched
      /\ \A u \in Users : SummaryLoads(u) \/ SummaryEnds(u) => Untouched
      /\ UNCHANGED scanVars => Untouched
  BY DEF CreateFlushes, CreateCommits, CreateFails, AppDeleted, SummaryLoads, SummaryEnds, scanVars
<1>. QED
  BY <1>1, <1>2, <1>3, <1>4, <1>5, <1>6, <1>7 DEF ScanNext

(***************************************************************************)
(* Stored callbacks stay stored, and only a commit stores one.             *)
(***************************************************************************)
LEMMA StoredGrows ==
    ASSUME ScanTypeOK, [ScanNext]_scanVars
    PROVE  /\ \A s \in Scans : StoredFor(s) \subseteq StoredFor(s)'
           /\ \A s \in Scans : TwoStored(s) => TwoStored(s)'
<1>. DEFINE Keeps == \A k \in Callbacks :
                        cb[k].pc = "stored" => cb'[k].pc = "stored" /\ cb'[k].s = cb[k].s
<1>1. Keeps
  <2>1. ASSUME NEW k \in Callbacks,
               \/ CallbackLoads(k) \/ CallbackFlushes(k) \/ CallbackLooksUp(k)
               \/ CallbackCommits(k) \/ CallbackFails(k)
        PROVE  cb[k].pc # "stored" /\ OthersKept(k)
    BY <2>1, LoadsEffect, FlushesEffect, LooksUpEffect, CommitsEffect, FailsEffect
  <2>2. UNCHANGED cb => Keeps
    OBVIOUS
  <2>3. /\ \A s \in Scans : CreateFlushes(s) \/ CreateCommits(s) \/ CreateFails(s) \/ AppDeleted(s)
              => UNCHANGED cb
        /\ \A u \in Users : SummaryLoads(u) \/ SummaryEnds(u) => UNCHANGED cb
        /\ UNCHANGED scanVars => UNCHANGED cb
    BY DEF CreateFlushes, CreateCommits, CreateFails, AppDeleted, SummaryLoads, SummaryEnds,
           scanVars
  <2>. QED  BY <2>1, <2>2, <2>3 DEF ScanNext, OthersKept
<1>. QED  BY <1>1 DEF StoredFor, TwoStored

(***************************************************************************)
(* The row of a scan and the findings stored for it.                       *)
(***************************************************************************)
LEMMA RowsStep == ScanTypeOK /\ RowsFollowed /\ [ScanNext]_scanVars => RowsFollowed'
<1>. SUFFICES ASSUME ScanTypeOK, RowsFollowed, [ScanNext]_scanVars PROVE RowsFollowed'
  OBVIOUS
<1>0. \A s \in Scans : StoredFor(s) \subseteq StoredFor(s)'
  BY StoredGrows
<1>1. ASSUME NEW k \in Callbacks, CallbackLoads(k)  PROVE RowsFollowed'
  BY <1>0, <1>1, LoadsEffect DEF RowsFollowed, OthersKept
<1>2. ASSUME NEW k \in Callbacks, CallbackFlushes(k)  PROVE RowsFollowed'
  BY <1>0, <1>2, FlushesEffect DEF RowsFollowed, OthersKept, SameReport
<1>3. ASSUME NEW k \in Callbacks, CallbackLooksUp(k)  PROVE RowsFollowed'
  BY <1>0, <1>3, LooksUpEffect DEF RowsFollowed, OthersKept, SameReport
<1>4. ASSUME NEW k \in Callbacks, CallbackCommits(k)  PROVE RowsFollowed'
  <2>. DEFINE s == cb[k].s
  <2>1. /\ s \in Scans /\ cb[k].pc = "checked" /\ cb'[k].pc = "stored" /\ cb'[k].s = s
        /\ OthersKept(k) /\ draft' = draft
        /\ status'[s] \in Terminal /\ findings'[s] = findings[s] \cup {k}
        /\ \A t \in Scans : t # s => status'[t] = status[t] /\ findings'[t] = findings[t]
    BY <1>4, CommitsEffect, CallbackFields DEF ScanTypeOK, SameReport
  <2>2. k \in StoredFor(s)' /\ draft[s] = "over"
    BY <2>1 DEF RowsFollowed, StoredFor
  <2>3. \A j \in Callbacks : cb[j].s \in Scans
    BY CallbackFields DEF ScanTypeOK
  <2>. QED  BY <1>0, <2>1, <2>2, <2>3 DEF RowsFollowed, OthersKept, Terminal
<1>5. ASSUME NEW k \in Callbacks, CallbackFails(k)  PROVE RowsFollowed'
  BY <1>0, <1>5, FailsEffect DEF RowsFollowed, OthersKept, SameReport
<1>6. ASSUME NEW s \in Scans, CreateFlushes(s)  PROVE RowsFollowed'
  BY <1>0, <1>6 DEF CreateFlushes, RowsFollowed, ScanTypeOK
<1>7. ASSUME NEW s \in Scans, CreateCommits(s)  PROVE RowsFollowed'
  <2>1. /\ status'[s] \in Unfinished /\ draft'[s] = "over" /\ UNCHANGED <<findings, cb>>
        /\ \A t \in Scans : t # s => status'[t] = status[t] /\ draft'[t] = draft[t]
    BY <1>7 DEF CreateCommits, ScanTypeOK
  <2>2. \A j \in Callbacks : cb[j].s \in Scans
    BY CallbackFields DEF ScanTypeOK
  <2>. QED  BY <1>0, <2>1, <2>2 DEF RowsFollowed, Unfinished
<1>8. ASSUME NEW s \in Scans, CreateFails(s)  PROVE RowsFollowed'
  BY <1>0, <1>8 DEF CreateFails, RowsFollowed, ScanTypeOK
<1>9. ASSUME NEW s \in Scans, AppDeleted(s)  PROVE RowsFollowed'
  <2>1. /\ status'[s] = "absent" /\ findings'[s] = {} /\ UNCHANGED <<draft, cb>> /\ ~Locked(s)
        /\ \A t \in Scans : t # s => status'[t] = status[t] /\ findings'[t] = findings[t]
    BY <1>9 DEF AppDeleted, ScanTypeOK
  <2>2. \A j \in Callbacks : cb[j].s \in Scans
    BY CallbackFields DEF ScanTypeOK
  <2>. QED  BY <1>0, <2>1, <2>2 DEF RowsFollowed, Locked
<1>10. ASSUME UNCHANGED <<status, draft, findings, cb>>  PROVE RowsFollowed'
  BY <1>10 DEF RowsFollowed, StoredFor
<1>11. /\ \A u \in Users : SummaryLoads(u) \/ SummaryEnds(u)
                            => UNCHANGED <<status, draft, findings, cb>>
       /\ UNCHANGED scanVars => UNCHANGED <<status, draft, findings, cb>>
  BY DEF SummaryLoads, SummaryEnds, scanVars
<1>. QED
  BY <1>1, <1>2, <1>3, <1>4, <1>5, <1>6, <1>7, <1>8, <1>9, <1>10, <1>11 DEF ScanNext

(***************************************************************************)
(* Summaries and questions under way stay traceable: what was stored stays *)
(* so, and a callback stored after the question was asked is a second one. *)
(***************************************************************************)
LEMMA AboutStoredKept ==
    ASSUME ScanTypeOK, RowsFollowed, [ScanNext]_scanVars, NEW s \in Scans, NEW A, AboutStored(A, s),
           status'[s] # "absent"
    PROVE  AboutStored(A, s)'
<1>. DEFINE Still == findings'[s] = findings[s]
<1>0. A # {} /\ A \subseteq StoredFor(s)' /\ (A = findings[s] \/ TwoStored(s)')
  BY StoredGrows DEF AboutStored
<1>1. CASE Still
  BY <1>0, <1>1 DEF AboutStored
<1>2. ASSUME NEW k \in Callbacks, CallbackCommits(k), cb[k].s = s  PROVE AboutStored(A, s)'
  <2>1. k \in StoredFor(s)' /\ k \notin StoredFor(s)
    BY <1>2, CommitsEffect DEF StoredFor, SameReport
  <2>2. PICK j \in A : j \in StoredFor(s)
    BY DEF AboutStored
  <2>3. j \in StoredFor(s)' /\ j # k
    BY <1>0, <2>1, <2>2
  <2>. QED  BY <1>0, <2>1, <2>3 DEF AboutStored, TwoStored
<1>3. ASSUME NEW k \in Callbacks, CallbackCommits(k), cb[k].s # s  PROVE Still
  BY <1>3, CommitsEffect DEF ScanTypeOK
<1>4. ASSUME NEW t \in Scans, AppDeleted(t)  PROVE Still
  BY <1>4 DEF AppDeleted, ScanTypeOK
<1>5. /\ \A t \in Scans : CreateFlushes(t) \/ CreateCommits(t) \/ CreateFails(t) => Still
      /\ \A k \in Callbacks : CallbackLoads(k) \/ CallbackFlushes(k) \/ CallbackLooksUp(k)
                                 \/ CallbackFails(k) => Still
      /\ \A u \in Users : SummaryLoads(u) \/ SummaryEnds(u) => Still
      /\ UNCHANGED scanVars => Still
  BY DEF CreateFlushes, CreateCommits, CreateFails, CallbackLoads, CallbackFlushes,
         CallbackLooksUp, CallbackFails, SummaryLoads, SummaryEnds, scanVars
<1>. QED  BY <1>1, <1>2, <1>3, <1>4, <1>5 DEF ScanNext

LEMMA SummariesStep ==
    ScanTypeOK /\ RowsFollowed /\ SummariesFollowed /\ [ScanNext]_scanVars => SummariesFollowed'
<1>. SUFFICES ASSUME ScanTypeOK, RowsFollowed, SummariesFollowed, [ScanNext]_scanVars
              PROVE  SummariesFollowed'
  OBVIOUS
<1>. DEFINE SummariesOf(s) == summary[s].made =>
                          status[s] # "absent" /\ AboutStored(summary[s].about, s)
            AskOf(u) == user[u].pc = "asked" =>
                          /\ draft[user[u].s] = "over"
                          /\ status[user[u].s] # "absent" => AboutStored(user[u].about, user[u].s)
            Grown == \A s \in Scans : /\ draft[s] = "over" => draft'[s] = "over"
                                      /\ draft[s] = "over" /\ status[s] = "absent"
                                            => status'[s] = "absent"
<1>0. Grown
  <2>1. ASSUME NEW t \in Scans,
               CreateFlushes(t) \/ CreateCommits(t) \/ CreateFails(t) \/ AppDeleted(t)
        PROVE  Grown
    BY <2>1 DEF CreateFlushes, CreateCommits, CreateFails, AppDeleted, ScanTypeOK, Unfinished
  <2>2. ASSUME NEW k \in Callbacks, CallbackCommits(k)  PROVE Grown
    BY <2>2, CommitsEffect DEF ScanTypeOK, RowsFollowed
  <2>3. UNCHANGED <<status, draft>> => Grown
    OBVIOUS
  <2>4. /\ \A k \in Callbacks : CallbackLoads(k) \/ CallbackFlushes(k) \/ CallbackLooksUp(k)
                                 \/ CallbackFails(k) => UNCHANGED <<status, draft>>
        /\ \A u \in Users : SummaryLoads(u) \/ SummaryEnds(u) => UNCHANGED <<status, draft>>
        /\ UNCHANGED scanVars => UNCHANGED <<status, draft>>
    BY DEF CallbackLoads, CallbackFlushes, CallbackLooksUp, CallbackFails, SummaryLoads,
           SummaryEnds, scanVars
  <2>. QED  BY <2>1, <2>2, <2>3, <2>4 DEF ScanNext
<1>1. ASSUME NEW s \in Scans, summary'[s] = summary[s], summary[s].made => status'[s] # "absent"
      PROVE  SummariesOf(s)'
  BY <1>1, AboutStoredKept DEF SummariesFollowed
<1>2. ASSUME NEW u \in Users, user'[u] = user[u]  PROVE AskOf(u)'
  <2>. SUFFICES ASSUME user[u].pc = "asked"  PROVE AskOf(u)'
    BY <1>2
  <2>1. user[u].s \in Scans
    BY DEF ScanTypeOK, Asks
  <2>. QED  BY <1>0, <1>2, <2>1, AboutStoredKept DEF SummariesFollowed
<1>3. ASSUME NEW u \in Users, SummaryLoads(u)  PROVE SummariesFollowed'
  <2>1. PICK s \in Scans :
          /\ Summarizable(s)
          /\ user' = [user EXCEPT ![u] = [pc |-> "asked", s |-> s, about |-> findings[s]]]
    BY <1>3 DEF SummaryLoads
  <2>2. UNCHANGED <<status, draft, findings, summary, cb>>
    BY <1>3 DEF SummaryLoads
  <2>3. /\ user'[u] = [pc |-> "asked", s |-> s, about |-> findings[s]]
        /\ \A v \in Users : v # u => user'[v] = user[v]
    BY <2>1 DEF ScanTypeOK
  <2>4. draft[s] = "over" /\ AboutStored(findings[s], s)
    BY <2>1 DEF Summarizable, RowsFollowed, AboutStored
  <2>5. AboutStored(findings[s], s)'
    BY <2>2, <2>4 DEF AboutStored, StoredFor, TwoStored
  <2>6. AskOf(u)'
    BY <2>2, <2>3, <2>4, <2>5
  <2>7. \A t \in Scans : SummariesOf(t)'
    BY <1>1, <2>2 DEF SummariesFollowed
  <2>. QED  BY <1>2, <2>3, <2>6, <2>7 DEF SummariesFollowed
<1>4. ASSUME NEW u \in Users, SummaryEnds(u)  PROVE SummariesFollowed'
  <2>0. PICK s \in Scans, A \in SUBSET Callbacks : s = user[u].s /\ A = user[u].about
    BY DEF ScanTypeOK, Asks
  <2>1. /\ user[u].pc = "asked" /\ UNCHANGED <<status, draft, findings, cb>>
        /\ user'[u] = NoAsk /\ \A v \in Users : v # u => user'[v] = user[v]
    BY <1>4 DEF SummaryEnds, ScanTypeOK
  <2>2. AskOf(u)'
    BY <2>1, ScanConstantTypes
  <2>3. ASSUME NEW t \in Scans  PROVE SummariesOf(t)'
    <3>1. CASE summary'[t] = summary[t]
      BY <1>1, <2>1, <3>1 DEF SummariesFollowed
    <3>2. CASE t = s /\ status[s] # "absent" /\ summary'[s] = [about |-> A, made |-> TRUE]
      <4>1. AboutStored(A, s)
        BY <2>0, <2>1, <3>2 DEF SummariesFollowed
      <4>2. AboutStored(A, s)'
        BY <2>1, <3>2, <4>1, AboutStoredKept
      <4>3. summary'[s].about = A
        BY <3>2
      <4>. QED  BY <2>1, <3>2, <4>2, <4>3
    <3>. QED  BY <1>4, <2>0, <2>1, <3>1, <3>2 DEF SummaryEnds, ScanTypeOK
  <2>. QED  BY <1>2, <2>1, <2>2, <2>3 DEF SummariesFollowed
<1>5. ASSUME NEW s \in Scans, AppDeleted(s)  PROVE SummariesFollowed'
  <2>1. /\ ~summary'[s].made /\ user' = user
        /\ \A t \in Scans : t # s => summary'[t] = summary[t] /\ status'[t] = status[t]
    BY <1>5, ScanConstantTypes DEF AppDeleted, ScanTypeOK
  <2>2. \A t \in Scans : SummariesOf(t)'
    BY <1>1, <2>1 DEF SummariesFollowed
  <2>. QED  BY <1>2, <2>1, <2>2 DEF SummariesFollowed
<1>6. ASSUME UNCHANGED <<summary, user>>,
             \A s \in Scans : status[s] # "absent" => status'[s] # "absent"
      PROVE  SummariesFollowed'
  <2>1. \A t \in Scans : SummariesOf(t)'
    BY <1>1, <1>6 DEF SummariesFollowed
  <2>. QED  BY <1>2, <1>6, <2>1 DEF SummariesFollowed
<1>7. ASSUME NEW s \in Scans, CreateFlushes(s) \/ CreateCommits(s) \/ CreateFails(s)
      PROVE  SummariesFollowed'
  BY <1>6, <1>7 DEF CreateFlushes, CreateCommits, CreateFails, ScanTypeOK, Unfinished
<1>8. ASSUME NEW k \in Callbacks, CallbackCommits(k)  PROVE SummariesFollowed'
  <2>1. cb[k].verdict # "absent"
    BY CallbackFields DEF ScanTypeOK, Terminal
  <2>. QED  BY <1>6, <1>8, <2>1, CommitsEffect DEF ScanTypeOK
<1>9. ASSUME NEW k \in Callbacks,
             CallbackLoads(k) \/ CallbackFlushes(k) \/ CallbackLooksUp(k) \/ CallbackFails(k)
      PROVE  SummariesFollowed'
  BY <1>6, <1>9 DEF CallbackLoads, CallbackFlushes, CallbackLooksUp, CallbackFails
<1>10. CASE UNCHANGED scanVars
  BY <1>6, <1>10 DEF scanVars
<1>. QED
  BY <1>3, <1>4, <1>5, <1>7, <1>8, <1>9, <1>10 DEF ScanNext

(***************************************************************************)
(* The invariant is inductive.                                             *)
(***************************************************************************)
THEOREM ScanInvariant == ScanSpec => []ScanInv
<1>1. ScanInit => ScanInv
  BY ScanConstantTypes
  DEF ScanInit, ScanInv, ScanTypeOK, LockIsExclusive, CriticalNotifiedOnce, Reported, RowsFollowed,
      SummariesFollowed, StoredFor
<1>2. ScanInv /\ [ScanNext]_scanVars => ScanInv'
  BY ScanTypeStep, NotifiedStep, RowsStep, SummariesStep DEF ScanInv
<1>. QED  BY <1>1, <1>2, PTL DEF ScanSpec

(***************************************************************************)
(* A critical result is notified exactly once, whatever callbacks overlap, *)
(* repeat or fail.                                                         *)
(***************************************************************************)
THEOREM CriticalAlwaysNotifiedOnce == ScanSpec => []CriticalNotifiedOnce
<1>1. ScanInv => CriticalNotifiedOnce
  BY DEF ScanInv
<1>. QED  BY <1>1, ScanInvariant, PTL

(***************************************************************************)
(* A stored summary is about all the stored findings, unless two callbacks *)
(* of the scan overlapped.                                                 *)
(***************************************************************************)
THEOREM SummariesAlwaysComplete == ScanSpec => []SummaryIsComplete
<1>1. ScanInv => SummaryIsComplete
  <2>1. \A s \in Scans : TwoStored(s) => Overlapping(s)
    BY DEF TwoStored, StoredFor, Overlapping
  <2>. QED  BY <2>1 DEF ScanInv, SummariesFollowed, AboutStored, SummaryIsComplete
<1>. QED  BY <1>1, ScanInvariant, PTL
=============================================================================
