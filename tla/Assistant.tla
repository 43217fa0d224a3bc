------------------------------ MODULE Assistant ------------------------------
(***************************************************************************)
(* Questions to the AI assistant (backend/api/routes/assistant.py,         *)
(* services/assistant_service.py, ai_limits_service.py,                    *)
(* ai_settings_service.py, ai/factory.py, ai/provider.py, ai/pricing.py).  *)
(* A question passes the gates of its route, is checked against the usage  *)
(* recorded so far, builds its prompt, asks the language model in rounds   *)
(* with tool calls in between, and records its usage once it is answered.  *)
(* Questions of one user run concurrently with each other, with changes of *)
(* the settings and of the user's memberships, and with the clock.         *)
(*                                                                         *)
(* The clock counts minutes.  A usage row carries the time at which its    *)
(* transaction began, which is when the question entered the route.        *)
(***************************************************************************)
EXTENDS AssistantTools

CONSTANTS
    Requests,    \* questions that can run at the same time
    Env,         \* the settings taken from the environment
    Pages,       \* pages of the web console a question may come from
    Worlds,      \* memberships the user may have
    Firsts,      \* memberships and global settings at first
    Payloads,    \* of requests that change them
    AppPayloads, \* of requests that change the settings of an application
    PerMinute, PerDay, Budget,   \* AI_USER_REQUESTS_PER_MINUTE ... AI_DAILY_BUDGET_USD
    MAX_TOOL_ROUNDS, max_retries,
    MaxCalls,    \* tool calls in one answer of the model
    Day,         \* minutes in a day
    MaxTime, MaxAsks, MaxUpsets, \* bounds on the clock, questions, changes
    NoRow        \* ai_global_settings has no row

Providers == {"mock", "deepseek", "mistral"}   \* deepseek is priced, mistral is not
Settings  == [from_db : BOOLEAN, enabled : BOOLEAN, kb : BOOLEAN, access : BOOLEAN,
              allowed : SUBSET Apps, provider : Providers]
Rows      == [enabled : {"null", "on", "off"}, kb : BOOLEAN, access : BOOLEAN,
              allowed : SUBSET Apps, provider : Providers \cup {"null"}]
NoPage    == [group |-> None, app |-> None]
Routes    == {"app", "global", "platform", "summary"}

ASSUME AssistantAssumption ==
    /\ IsFiniteSet(Requests)
    /\ Env \in Settings /\ ~Env.from_db
    /\ NoPage \in Pages /\ Pages \subseteq [group : Groups \cup {None}, app : Apps \cup {None}]
    /\ Worlds \subseteq Memberships /\ Firsts \subseteq Worlds \X ({NoRow} \cup Rows)
    /\ \A p \in Payloads : \E r \in Rows : \A f \in DOMAIN p : f \in DOMAIN r /\ p[f] = r[f]
    /\ AppPayloads \subseteq UNION {[F -> BOOLEAN] : F \in SUBSET {"chat", "summary"}}
    /\ {PerMinute, PerDay, Budget, MAX_TOOL_ROUNDS, max_retries, MaxTime, MaxAsks, MaxUpsets}
           \subseteq Nat
    /\ Day \in Nat \ {0} /\ MaxCalls \in Nat \ {0}

VARIABLES
    now,      \* the clock
    world,    \* the user's role and active memberships
    row,      \* the row of ai_global_settings
    app,      \* Apps -> the flags of ai_app_settings
    usage,    \* rows of ai_usage_records: id, at, cost
    q,        \* Requests -> the question under way
    asked, upsets

vars == <<now, world, row, app, usage, q, asked, upsets>>

-----------------------------------------------------------------------------
(* Settings. *)

effective_config(r) ==
    IF r = NoRow THEN Env
    ELSE [from_db |-> TRUE, kb |-> r.kb, access |-> r.access, allowed |-> r.allowed,
          enabled |-> IF r.enabled = "null" THEN Env.enabled ELSE r.enabled = "on",
          provider |-> IF r.provider = "null" THEN Env.provider ELSE r.provider]

\* get_or_create_row: the columns of a new row have their defaults.
DefaultRow == [enabled |-> "null", kb |-> FALSE, access |-> FALSE, allowed |-> {},
               provider |-> "null"]

-----------------------------------------------------------------------------
(* Limits: counted over the rows that exist now. *)

DayStart(t) == t - (t % Day)
Since(t) == {u \in usage : u.at >= t}
\* The units of cost of the rows of S; their number is the sum of the costs.
Units(S) == UNION {{u} \X (1 .. u.cost) : u \in S}
CostOf(S) == Cardinality(Units(S))
BelowOrAt(limit, n) == limit > 0 => n <= limit
Below(limit, n) == limit > 0 => n < limit
check(t) ==
    /\ Below(PerMinute, Cardinality(Since(t - 1)))
    /\ Below(PerDay, Cardinality(Since(DayStart(t))))
    /\ Below(Budget, CostOf(Since(DayStart(t))))

\* One unit per completion of a model that has a price; NULL counts as nothing.
estimate_cost(provider, n) == IF provider = "deepseek" THEN n ELSE 0

-----------------------------------------------------------------------------
Idle == [pc |-> "idle"]
Running(r) == q[r].pc # "idle"
Goes(r, x) == q' = [q EXCEPT ![r] = x]

\* since, for observation only: the <<memberships, settings>> a question for the platform
\* agent has lived through.
Observed(w, c) == q' = [r \in Requests |->
    IF Running(r) /\ q[r].since # {} THEN [q[r] EXCEPT !.since = @ \cup {<<w, c>>}] ELSE q[r]]

Gates(kind, a, cfg) ==
    /\ cfg.enabled
    /\ kind = "app" => app[a].chat /\ app_allowed(cfg, a)
    /\ kind = "summary" => app[a].summary /\ RoleInAPI(world, a) >= 1

\* The last round has to be answered without tools.
OffersAlways(round) == TRUE
Offers(round) == round < MAX_TOOL_ROUNDS

\* From here on nothing can use the session.
WithoutTools(x) == [x EXCEPT !.tools = FALSE, !.session = NotRead, !.since = {}]

\* The first round of _run.
Prompted(at, provider, since, session) ==
    [pc |-> "post", provider |-> provider, at |-> at, since |-> since, session |-> session,
     tools |-> session # NotRead /\ Offers(0), round |-> 0, tries |-> 0, calls |-> 0, got |-> 0]

\* The route up to the limits, and the prompt.  The context of an application, read from the
\* cluster, is left out: its prompt depends on nothing that changes here.
Ask(r, kind, a, page) ==
    LET cfg == effective_config(row) IN
    /\ ~Running(r) /\ asked < MaxAsks
    /\ kind \in {"app", "summary"} <=> a # None
    /\ kind # "platform" => page = NoPage
    /\ Gates(kind, a, cfg)
    /\ check(now)
    /\ asked' = asked + 1
    /\ Goes(r, IF kind = "platform" /\ cfg.kb
               THEN [pc |-> "prompt", page |-> page, cfg |-> cfg, admin |-> world.admin,
                     at |-> now, since |-> {<<world, cfg>>}]
               ELSE Prompted(now, cfg.provider, {}, NotRead))
    /\ UNCHANGED <<now, world, row, app, usage, upsets>>

\* The platform agent opens its tools: the user was authenticated when the question
\* entered, the memberships are read now.
Session(r) ==
    LET s == NewSession([world EXCEPT !.admin = q[r].admin], q[r].cfg, q[r].page)
    IN IF s.page.app # None /\ ~s.admin THEN WithApps(s, world) ELSE s
OpenTools(r) ==
    /\ q[r].pc = "prompt"
    /\ Goes(r, Prompted(q[r].at, q[r].cfg.provider, q[r].since, Session(r)))
    /\ UNCHANGED <<now, world, row, app, usage, asked, upsets>>

-----------------------------------------------------------------------------
(* One HTTP request of complete(). *)

Posting(r) == q[r].pc = "post"
Real(r) == q[r].provider # "mock"
Posted == UNCHANGED <<now, world, row, app, usage, asked, upsets>>

\* The model answers; tool calls count only if tools were offered.
Completes(r) ==
    /\ Posting(r)
    /\ \/ Goes(r, [pc |-> "record", provider |-> q[r].provider, at |-> q[r].at,
                   since |-> {}, got |-> q[r].got + 1])
       \/ /\ Real(r) /\ q[r].tools
          /\ \E n \in 1 .. MaxCalls :
                Goes(r, [q[r] EXCEPT !.pc = "tools", !.got = @ + 1, !.tries = 0, !.calls = n])
    /\ Posted

\* 429 with a short delay, 5xx, timeouts: tried again a bounded number of times.
Unavailable(r) ==
    /\ Posting(r) /\ Real(r)
    /\ Goes(r, IF q[r].tries < max_retries THEN [q[r] EXCEPT !.tries = @ + 1] ELSE Idle)
    /\ Posted

\* 400 with tools: asked once more without; other errors and a long 429 end the question.
RefusedAgain(x) == [x EXCEPT !.tries = 0]
Refused(x) == WithoutTools([x EXCEPT !.tries = 0])
Rejects(r) ==
    /\ Posting(r) /\ Real(r)
    /\ Goes(r, IF q[r].tools THEN Refused(q[r]) ELSE Idle)
    /\ Posted
GivesUp(r) == Posting(r) /\ Real(r) /\ Goes(r, Idle) /\ Posted

\* A tool call of the answer; after the last one the next round begins.
NextRound(x) ==
    IF x.calls > 1 THEN [x EXCEPT !.calls = @ - 1]
    ELSE IF x.round = MAX_TOOL_ROUNDS THEN [x EXCEPT !.pc = "unreachable"]
    ELSE LET y == [x EXCEPT !.calls = 0, !.round = @ + 1, !.pc = "post"]
         IN IF Offers(y.round) THEN y ELSE WithoutTools(y)
NeedsApps(t) == t \notin {"list_group_members", "search_platform_docs"}
Prepared(r, t) ==
    IF max_role(q[r].session) >= TOOL_MIN_ROLE[t] /\ NeedsApps(t)
    THEN WithApps(q[r].session, world) ELSE q[r].session
\* The arguments decide only what the model is told, call(Prepared(r, t), t, ...).
Calls(r, t) ==
    /\ q[r].pc = "tools"
    /\ Goes(r, NextRound([q[r] EXCEPT !.session = Prepared(r, t)]))
    /\ UNCHANGED <<now, world, row, app, usage, asked, upsets>>

\* The Kubernetes and python-gitlab clients have no timeout: once the tool is not refused,
\* nothing bounds how long it waits for them.
Untimed == {"get_pod_status", "get_ci_failure"}
Hangs(r, t) ==
    /\ q[r].pc = "tools"
    /\ \E a \in Apps \cup {None} : call(Prepared(r, t), t, None, a, "dev") # {}
    /\ Goes(r, [q[r] EXCEPT !.session = Prepared(r, t), !.pc = "hung"])
    /\ UNCHANGED <<now, world, row, app, usage, asked, upsets>>

\* The answer or an error comes after all; both are a result of the tool.
Returns(r) ==
    /\ q[r].pc = "hung"
    /\ Goes(r, NextRound([q[r] EXCEPT !.pc = "tools"]))
    /\ UNCHANGED <<now, world, row, app, usage, asked, upsets>>

UsageRow(x) ==
    [id |-> Cardinality(usage), at |-> x.at, cost |-> estimate_cost(x.provider, x.got)]
\* The audit entry and the usage row, in the transaction that began with the question.
Records(r) ==
    /\ q[r].pc = "record"
    /\ usage' = usage \cup {UsageRow(q[r])}
    /\ Goes(r, Idle)
    /\ UNCHANGED <<now, world, row, app, asked, upsets>>

-----------------------------------------------------------------------------
Tick == /\ now < MaxTime /\ now' = now + 1
        /\ UNCHANGED <<world, row, app, usage, q, asked, upsets>>

Upset == upsets < MaxUpsets /\ upsets' = upsets + 1

\* The mirrored memberships or the role of the user change.
MembershipsChange ==
    /\ Upset
    /\ world' \in Worlds \ {world}
    /\ Observed(world', effective_config(row))
    /\ UNCHANGED <<now, row, app, usage, asked>>

\* Of a PATCH only the fields of the payload are assigned.
Patched(old, payload) ==
    [f \in DOMAIN old |-> IF f \in DOMAIN payload THEN payload[f] ELSE old[f]]

\* PATCH /assistant/global-settings: the fields of the payload.
PatchGlobal(payload) ==
    LET old == IF row = NoRow THEN DefaultRow ELSE row IN
    /\ Upset
    /\ row' = Patched(old, payload)
    /\ Observed(world, effective_config(row'))
    /\ UNCHANGED <<now, world, app, usage, asked>>

\* PATCH /apps/{id}/assistant/settings, refused while the assistant is off.
PatchApp(a, payload) ==
    /\ Upset /\ effective_config(row).enabled
    /\ app' = [app EXCEPT ![a] = Patched(@, payload)]
    /\ UNCHANGED <<now, world, row, usage, q, asked>>

Init ==
    /\ now = 0 /\ \E f \in Firsts : world = f[1] /\ row = f[2]
    /\ app = [a \in Apps |-> [chat |-> TRUE, summary |-> TRUE]]
    /\ usage = {} /\ q = [r \in Requests |-> Idle]
    /\ asked = 0 /\ upsets = 0

Answering(r) ==
    \/ OpenTools(r)
    \/ Completes(r) \/ Unavailable(r) \/ Rejects(r) \/ GivesUp(r)
    \/ \E t \in Tools : Calls(r, t)
    \/ \E t \in Untimed : Hangs(r, t)
    \/ Records(r)

Next ==
    \/ \E r \in Requests : Answering(r) \/ Returns(r)
    \/ \E r \in Requests, kind \in Routes, a \in Apps \cup {None}, p \in Pages :
           Ask(r, kind, a, p)
    \/ Tick \/ MembershipsChange
    \/ \E payload \in Payloads : PatchGlobal(payload)
    \/ \E a \in Apps, payload \in AppPayloads : PatchApp(a, payload)

Spec == Init /\ [][Next]_vars

\* The clients of the language model, Prometheus, Loki, ArgoCD and Vault have timeouts and
\* the database answers.  Nothing makes a call to Kubernetes or GitLab return.
FairSpec == Spec /\ \A r \in Requests : WF_vars(Answering(r))

-----------------------------------------------------------------------------
(* Properties. *)

Prompts == [pc : {"prompt"}, page : Pages, cfg : Settings, admin : BOOLEAN, at : 0 .. MaxTime,
            since : SUBSET (Worlds \X Settings)]
Sessions == [admin : BOOLEAN, cfg : Settings, page : Pages, levels : [Apps -> Levels],
             groups : [Groups \ SystemGroups -> Levels], apps : {NotRead} \cup SUBSET Apps]
Answers == [pc : {"record"}, provider : Providers, at : 0 .. MaxTime, since : {{}},
            got : 1 .. MAX_TOOL_ROUNDS + 1]
Rounds == [pc : {"post", "tools", "hung"}, provider : Providers,
           at : 0 .. MaxTime, since : SUBSET (Worlds \X Settings),
           session : {NotRead} \cup Sessions, tools : BOOLEAN,
           round : 0 .. MAX_TOOL_ROUNDS, tries : 0 .. max_retries, calls : 0 .. MaxCalls,
           got : 0 .. MAX_TOOL_ROUNDS + 1]

\* Every variable has its type.
TypeOK ==
    /\ now \in 0 .. MaxTime /\ world \in Worlds /\ row \in {NoRow} \cup Rows
    /\ app \in [Apps -> [chat : BOOLEAN, summary : BOOLEAN]]
    /\ usage \subseteq [id : 0 .. MaxAsks, at : 0 .. MaxTime, cost : 0 .. MAX_TOOL_ROUNDS + 1]
    /\ q \in [Requests -> {Idle} \cup Prompts \cup Rounds \cup Answers]
    /\ asked \in 0 .. MaxAsks /\ upsets \in 0 .. MaxUpsets

\* One completion per round; a round that offers tools is not the last, and has an open
\* session to run them.
RoundCounted(x) ==
    x \in Rounds =>
        /\ x.got = x.round + (IF x.pc = "post" THEN 0 ELSE 1)
        /\ x.pc # "post" => x.tools /\ x.calls > 0
        /\ x.tools => x.round < MAX_TOOL_ROUNDS /\ x.session \in Sessions

\* What the session s holds was so at some moment in S, not all at the same moment.
ReadFrom(s, S) ==
    /\ s.admin => \E p \in S : p[1].admin
    /\ \E p \in S : p[2] = s.cfg
    /\ \E p \in S : /\ s.levels = p[1].project
                    /\ \A g \in Groups \ SystemGroups : s.groups[g] = p[1].group[g]
    /\ s.apps # NotRead => \A a \in s.apps : \E p \in S : SeesApp(p[1], a)

\* The present moment is among those a question of the platform agent has lived through,
\* and so is every moment its session was read at.
SessionFollowed(x) ==
    /\ x \in Prompts => /\ x.admin => \E p \in x.since : p[1].admin
                        /\ \E p \in x.since : p[2] = x.cfg
    /\ x \in Rounds /\ x.tools => ReadFrom(x.session, x.since)
    /\ x \in Prompts \cup Rounds /\ x.since # {} => <<world, effective_config(row)>> \in x.since

\* Rows are numbered, and every question is recorded at most once.
UsageCounted ==
    /\ IsFiniteSet(usage) /\ \A u \in usage : u.id < Cardinality(usage)
    /\ Cardinality(usage) + Cardinality({r \in Requests : Running(r)}) <= asked

\* The tool loop never falls through ("unreachable" in _run): in its last round no tools are
\* offered, so a question costs at most MAX_TOOL_ROUNDS + 1 completions; and every round
\* in which tools are offered has an open session to run them, whose contents were all so
\* since the question was asked.
AssistantInv ==
    /\ TypeOK
    /\ \A r \in Requests : RoundCounted(q[r]) /\ SessionFollowed(q[r])
    /\ UsageCounted

\* What was recorded, and what is still under way, of the questions entered in W.
RecordedIn(W) == {u \in usage : u.at \in W}
UnderWayIn(W) == {r \in Requests : Running(r) /\ q[r].at \in W}
Entered(W) == Cardinality(RecordedIn(W)) + Cardinality(UnderWayIn(W))
DayOf(t) == DayStart(t) .. DayStart(t) + Day - 1
MaxCost(n) == n * (MAX_TOOL_ROUNDS + 1)
Overshoot == Cardinality(Requests) - 1

\* Usage is counted before and recorded after a question, so concurrent questions pass the
\* last place of a limit together: the questions entered in any minute, or in any day,
\* exceed the limit by at most one less than may run at the same time, and the cost of a
\* day, with what its questions under way may still add, exceeds what lies below the budget
\* by at most the cost of as many questions as may run at the same time.
LimitsHold ==
    \A t \in 0 .. MaxTime :
        /\ PerMinute > 0 => Entered(t .. t + 1) <= PerMinute + Overshoot
        /\ PerDay > 0 => Entered(DayOf(t)) <= PerDay + Overshoot
        /\ Budget > 0 => CostOf(RecordedIn(DayOf(t))) + MaxCost(Cardinality(UnderWayIn(DayOf(t))))
                            <= Budget - 1 + MaxCost(Cardinality(Requests))

\* A fact was open to the user at some moment in S.  Metrics and costs are matched by name.
Open(S, a) == (\E p \in S : SeesApp(p[1], a)) /\ (\E p \in S : app_allowed(p[2], a))
HadRole(S, a, n) == \E p \in S : RoleInAPI(p[1], a) >= n
Permitted(S, f) ==
    CASE f[1] = "status" -> \E p \in S : SeesApp(p[1], f[2])
      [] f[1] \in {"group", "members", "news", "total"} -> \E p \in S : SeesGroup(p[1], f[2])
      [] f[1] \in {"details", "activity"} -> Open(S, f[2])
      [] f[1] \in {"metrics", "costs"} -> \E a \in Resembling({f[2]}) : Open(S, a)
      [] f[1] = "keys_prod" -> Open(S, f[2]) /\ HadRole(S, f[2], 2)
      [] f[1] = "health" -> \E p \in S : p[1].admin
      [] OTHER -> Open(S, f[2]) /\ HadRole(S, f[2], 1)

\* Whatever tool the model calls with whatever arguments, each fact it is told was open to
\* the user at some moment since the question was asked: the application or group visible,
\* its application on the allow-list, the role the API asks for held on that application.
\* Metrics and costs are matched by name: they may be those of an application whose slug
\* contains, or is part of, an open one's.
ToldWasPermitted ==
    \A r \in Requests, t \in Tools : q[r].pc = "tools" =>
        LET s == Prepared(r, t)
            told == UNION {call(s, t, g, a, e) : g \in Groups \cup {None},
                               a \in Apps \cup {None}, e \in {"dev", "prod"}}
        IN \A f \in told : Permitted(q[r].since, f)

\* Every question comes to an end, answered or not: retries, rounds and tool calls are
\* bounded.  The one exception is a call to Kubernetes or GitLab that is never answered.
EveryQuestionEnds ==
    \A r \in Requests : []<>~Running(r) \/ <>[](q[r].pc = "hung")
=============================================================================
