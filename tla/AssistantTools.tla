---------------------------- MODULE AssistantTools ----------------------------
(***************************************************************************)
(* What the read-only tools of the platform agent tell the language model  *)
(* (backend/services/assistant_tools.py).  A tool's answer is abstracted   *)
(* to the set of facts <<kind, subject>> it is made of; a refusal or an    *)
(* unreadable source is the empty set.  Every tool works on a session:     *)
(* the user as authenticated, the configuration resolved when the question *)
(* was asked, the page, and what the session has read of the memberships.  *)
(***************************************************************************)
EXTENDS Integers, FiniteSets

CONSTANTS
    Apps, Groups,
    Owner,         \* Apps -> Groups, Application.owning_gitlab_group_id
    SystemGroups,  \* groups hidden from users
    Alike,         \* pairs of applications whose slugs contain one another
    NotRead        \* a cache of the session that has not been filled

None == "none"
Levels == {0, 20, 30, 40, 50}   \* 0: no active membership row
Memberships == [admin : BOOLEAN, group : [Groups -> Levels], project : [Apps -> Levels]]

ASSUME ToolsAssumption ==
    /\ Owner \in [Apps -> Groups]
    /\ SystemGroups \subseteq Groups
    /\ Alike \subseteq Apps \X Apps
    /\ None \notin Apps \cup Groups

-----------------------------------------------------------------------------
(* Roles are their rank in ROLE_ORDER: viewer 0 .. owner 3, admin 4. *)

Admin == 4
MaxOf(S) == CHOOSE x \in S : \A y \in S : y <= x
Tier(level) ==
    IF level >= 50 THEN 3 ELSE IF level >= 40 THEN 2 ELSE IF level >= 30 THEN 1 ELSE 0

Tools == {"list_my_groups", "list_apps", "get_app_details", "get_metrics", "get_costs",
          "list_group_members", "get_recent_activity", "get_app_logs", "get_pod_status",
          "get_ci_failure", "list_env_var_keys", "get_platform_health",
          "search_platform_docs"}
TOOL_MIN_ROLE == [t \in Tools |->
    CASE t = "get_platform_health" -> Admin
      [] t \in {"get_app_logs", "get_pod_status", "get_ci_failure", "list_env_var_keys"} -> 1
      [] OTHER -> 0]

\* The API's rule (get_effective_tier), from the memberships as they are.
RoleInAPI(m, a) == IF m.admin THEN Admin ELSE Tier(MaxOf({m.project[a], m.group[Owner[a]]}))
SeesApp(m, a) == m.admin \/ m.project[a] > 0 \/ m.group[Owner[a]] > 0
SeesGroup(m, g) == m.admin \/ m.group[g] > 0

app_allowed(cfg, a) == cfg.from_db => cfg.access /\ a \in cfg.allowed

-----------------------------------------------------------------------------
(* The session: groups and levels are read when the prompt is built, the   *)
(* visible applications when a tool (or the page) first needs them.        *)

NewSession(m, cfg, page) ==
    [admin |-> m.admin, cfg |-> cfg, page |-> page,
     groups |-> [g \in Groups \ SystemGroups |-> m.group[g]],
     levels |-> m.project, apps |-> NotRead]

VisibleGroups(s) == {g \in DOMAIN s.groups : s.admin \/ s.groups[g] > 0}
ReadApps(s, m) ==
    {a \in Apps : s.admin \/ Owner[a] \in VisibleGroups(s) \/ m.project[a] > 0}
WithApps(s, m) == IF s.apps = NotRead THEN [s EXCEPT !.apps = ReadApps(s, m)] ELSE s

GroupLevel(s, a) == IF Owner[a] \in DOMAIN s.groups THEN s.groups[Owner[a]] ELSE 0
max_role(s) ==
    IF s.admin THEN Admin
    ELSE Tier(MaxOf({0} \cup {s.groups[g] : g \in DOMAIN s.groups}
                        \cup {s.levels[a] : a \in Apps}))
RoleAnywhere(s, a) == max_role(s)
role_for_app(s, a) ==
    IF s.admin THEN Admin ELSE Tier(MaxOf({s.levels[a], GroupLevel(s, a)}))
available_definitions(s) == {t \in Tools : TOOL_MIN_ROLE[t] <= max_role(s)}

-----------------------------------------------------------------------------
(* Arguments fall back on the page; what the user cannot see is not found. *)

Or(ref, page) == IF ref = None THEN page ELSE ref
resolve_group(s, g) == {x \in VisibleGroups(s) : x = Or(g, s.page.group)}
resolve_app(s, a) == {x \in s.apps : x = Or(a, s.page.app)}
AllowedOf(s, S) == {a \in S : app_allowed(s.cfg, a)}
GroupScope(s, g) ==
    IF Or(g, s.page.group) = None THEN s.apps
    ELSE {a \in s.apps : Owner[a] \in resolve_group(s, g)}
Facts(kind, S) == {<<kind, x>> : x \in S}
Resembling(S) == {x \in Apps : \E a \in S : x = a \/ <<x, a>> \in Alike \/ <<a, x>> \in Alike}
OnApp(s, g, a) == a # None \/ (s.page.app # None /\ g = None)
TheGroup(s, g) ==
    IF Or(g, s.page.group) # None THEN resolve_group(s, g)
    ELSE {x \in VisibleGroups(s) : VisibleGroups(s) = {x}}

list_my_groups(s) == Facts("group", VisibleGroups(s))
list_apps(s, g) == Facts("status", GroupScope(s, g))
get_app_details(s, a) == Facts("details", AllowedOf(s, resolve_app(s, a)))
\* The series of an application is the first whose name contains its slug, or is part of it.
get_metrics(s, g, a) ==
    Facts("metrics", Resembling(AllowedOf(s, IF OnApp(s, g, a) THEN resolve_app(s, a)
                                                               ELSE GroupScope(s, g))))
get_costs(s, g) ==
    Facts("total", TheGroup(s, g)) \cup
    UNION {Facts("costs", {x \in Resembling(AllowedOf(s, {a \in s.apps : Owner[a] = h})) :
                               Owner[x] = h}) : h \in TheGroup(s, g)}
list_group_members(s, g) == Facts("members", TheGroup(s, g))
get_recent_activity(s, g, a) ==
    IF OnApp(s, g, a) THEN Facts("activity", AllowedOf(s, resolve_app(s, a)))
    ELSE Facts("activity", AllowedOf(s, GroupScope(s, g))) \cup Facts("news", resolve_group(s, g))
list_env_var_keys(s, a, env) ==
    Facts(IF env = "dev" THEN "keys_dev" ELSE "keys_prod",
          {x \in AllowedOf(s, resolve_app(s, a)) :
               role_for_app(s, x) >= IF env = "dev" THEN 1 ELSE 2})
get_platform_health(s) == IF s.admin THEN {<<"health", None>>} \cup Facts("status", s.apps) ELSE {}
diagnosable_app(s, a) == {x \in AllowedOf(s, resolve_app(s, a)) : role_for_app(s, x) >= 1}
get_app_logs(s, a) == Facts("logs", diagnosable_app(s, a))
get_pod_status(s, a) == Facts("pods", diagnosable_app(s, a))
get_ci_failure(s, a) == Facts("pipeline", diagnosable_app(s, a))

\* One call by the model: any tool, any arguments; dispatched only to the roles that may.
call(s, t, g, a, env) ==
    IF max_role(s) < TOOL_MIN_ROLE[t] THEN {}
    ELSE CASE t = "list_my_groups" -> list_my_groups(s)
           [] t = "list_apps" -> list_apps(s, g)
           [] t = "get_app_details" -> get_app_details(s, a)
           [] t = "get_metrics" -> get_metrics(s, g, a)
           [] t = "get_costs" -> get_costs(s, g)
           [] t = "list_group_members" -> list_group_members(s, g)
           [] t = "get_recent_activity" -> get_recent_activity(s, g, a)
           [] t = "list_env_var_keys" -> list_env_var_keys(s, a, env)
           [] t = "get_platform_health" -> get_platform_health(s)
           [] t = "get_app_logs" -> get_app_logs(s, a)
           [] t = "get_pod_status" -> get_pod_status(s, a)
           [] t = "get_ci_failure" -> get_ci_failure(s, a)
           [] OTHER -> {}
=============================================================================
