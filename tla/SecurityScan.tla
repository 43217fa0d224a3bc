---------------------------- MODULE SecurityScan ----------------------------
(***************************************************************************)
(* Security scans of an application (services/security_scan_service.py):   *)
(* a scan is created, a CI pipeline is triggered, the pipeline calls back  *)
(* with a verdict and findings, a critical finding is notified, and users  *)
(* ask the assistant for a summary.                                        *)
(*                                                                         *)
(* The pipeline starts before the scan is committed, callbacks may be      *)
(* repeated, and a summary takes as long as the language model needs.      *)
(***************************************************************************)
EXTENDS Naturals, FiniteSets

CONSTANTS
    Scans,      \* scan rows
    Callbacks,  \* callback requests
    Users       \* users asking for a summary

ASSUME ScanConstants == Scans # {} /\ IsFiniteSet(Callbacks)

VARIABLES
    status,    \* Scans -> committed status of the row
    draft,     \* Scans -> status in the open transaction of create_scan
    pipeline,  \* scans a pipeline runs for
    findings,  \* Scans -> callbacks whose findings are stored
    events,    \* Scans -> number of critical events
    summary,   \* Scans -> findings the stored summary is about, or NoSummary
    cb,        \* Callbacks -> where the callback stands
    user       \* Users -> where the summary request stands

scanVars == <<status, draft, pipeline, findings, events, summary, cb, user>>

Unfinished == {"queued", "running"}
Terminal   == {"completed", "failed"}
NoSummary  == [about |-> {}, made |-> FALSE]
SomeScan   == CHOOSE s \in Scans : TRUE
NoCallback == [pc |-> "new", s |-> SomeScan, verdict |-> "failed", critical |-> FALSE,
               known |-> 0]
NoAsk      == [pc |-> "idle", s |-> SomeScan, about |-> {}]

ScanInit ==
    /\ status = [s \in Scans |-> "absent"]
    /\ draft = [s \in Scans |-> "none"]
    /\ pipeline = {}
    /\ findings = [s \in Scans |-> {}]
    /\ events = [s \in Scans |-> 0]
    /\ summary = [s \in Scans |-> NoSummary]
    /\ cb = [k \in Callbacks |-> NoCallback]
    /\ user = [u \in Users |-> NoAsk]

-----------------------------------------------------------------------------
(***************************************************************************)
(* create_scan: the row is flushed, the pipeline triggered (or not asked   *)
(* for, or refused, or triggered with its answer lost), then committed.    *)
(***************************************************************************)

\* _trigger_pipeline: what it leaves in GitLab, with an id to return or none.
Triggered(s, known) ==
    pipeline' \in IF known THEN {pipeline \cup {s}} ELSE {pipeline, pipeline \cup {s}}

CreateFlushes(s) ==
    /\ draft[s] = "none"
    /\ \E known \in BOOLEAN :
          /\ Triggered(s, known)
          /\ draft' = [draft EXCEPT ![s] = IF known THEN "running" ELSE "queued"]
    /\ UNCHANGED <<status, findings, events, summary, cb, user>>

CreateCommits(s) ==
    /\ draft[s] \in Unfinished
    /\ status' = [status EXCEPT ![s] = draft[s]]
    /\ draft' = [draft EXCEPT ![s] = "over"]
    /\ UNCHANGED <<pipeline, findings, events, summary, cb, user>>

\* The commit fails or the process restarts: the pipeline runs all the same.
CreateFails(s) ==
    /\ draft[s] \in Unfinished
    /\ draft' = [draft EXCEPT ![s] = "over"]
    /\ UNCHANGED <<status, pipeline, findings, events, summary, cb, user>>

-----------------------------------------------------------------------------
(***************************************************************************)
(* The callback.  Its first flush locks the row up to the commit.          *)
(***************************************************************************)

\* An absent row is answered by a 404, a terminal one by a 409.
Accepting(s) == status[s] \in Unfinished

\* Verdicts taken as they come.
VerdictsUnchecked == Terminal \cup {"cancelled"}

\* Any other verdict is answered by a 422.
Verdicts == Terminal

CallbackLoads(k) ==
    /\ cb[k].pc = "new"
    /\ \E s \in pipeline, v \in Verdicts, c \in BOOLEAN :
         cb' = [cb EXCEPT ![k] = [pc |-> IF Accepting(s) THEN "loaded" ELSE "refused",
                                  s |-> s, verdict |-> v, critical |-> c,
                                  known |-> 0]]
    /\ UNCHANGED <<status, draft, pipeline, findings, events, summary, user>>

\* A row lock is held from the first flush to the commit.
Locked(s) == \E k \in Callbacks : cb[k].pc \in {"locked", "checked"} /\ cb[k].s = s

\* A callback that looks for the event before its flush.
FlushReadyAtOnce(k) == cb[k].pc = "loaded"

\* The flushed UPDATE waits for the row.
FlushReady(k) == cb[k].pc = "loaded" /\ ~Locked(cb[k].s)

\* Status and findings are flushed; a row deleted meanwhile is an error.
CallbackFlushes(k) ==
    /\ FlushReady(k)
    /\ cb' = [cb EXCEPT ![k].pc = IF status[cb[k].s] = "absent" THEN "refused" ELSE "locked"]
    /\ UNCHANGED <<status, draft, pipeline, findings, events, summary, user>>

\* _notify_critical looks for a committed event with the deduplication key.
CallbackLooksUp(k) ==
    /\ cb[k].pc = "locked"
    /\ cb' = [cb EXCEPT ![k].pc = "checked", ![k].known = events[cb[k].s]]
    /\ UNCHANGED <<status, draft, pipeline, findings, events, summary, user>>

Critical(k) == cb[k].verdict = "completed" /\ cb[k].critical

CallbackCommits(k) ==
    LET s == cb[k].s
    IN  /\ cb[k].pc = "checked"
        /\ status' = [status EXCEPT ![s] = cb[k].verdict]
        /\ findings' = [findings EXCEPT ![s] = @ \cup {k}]
        /\ events' = [events EXCEPT ![s] = IF Critical(k) /\ cb[k].known = 0 THEN @ + 1 ELSE @]
        /\ cb' = [cb EXCEPT ![k].pc = "stored"]
        /\ UNCHANGED <<draft, pipeline, summary, user>>

\* The transaction fails.
CallbackFails(k) ==
    /\ cb[k].pc \in {"locked", "checked"}
    /\ cb' = [cb EXCEPT ![k].pc = "refused"]
    /\ UNCHANGED <<status, draft, pipeline, findings, events, summary, user>>

-----------------------------------------------------------------------------
(***************************************************************************)
(* summarize_security_scan: findings are loaded, the model is asked, the   *)
(* summary is saved on the row that was loaded.                            *)
(***************************************************************************)

\* A summary of any scan.
SummarizableAny(s) == status[s] # "absent"

Summarizable(s) == status[s] = "completed"

SummaryLoads(u) ==
    /\ user[u].pc = "idle"
    /\ \E s \in Scans :
         /\ Summarizable(s)
         /\ user' = [user EXCEPT ![u] = [pc |-> "asked", s |-> s, about |-> findings[s]]]
    /\ UNCHANGED <<status, draft, pipeline, findings, events, summary, cb>>

\* The answer is saved; the model may fail, the row may be gone.
SummaryEnds(u) ==
    LET s == user[u].s
    IN  /\ user[u].pc = "asked"
        /\ \/ /\ status[s] # "absent" /\ ~Locked(s)
              /\ summary' = [summary EXCEPT ![s] = [about |-> user[u].about, made |-> TRUE]]
           \/ UNCHANGED summary
        /\ user' = [user EXCEPT ![u] = NoAsk]
        /\ UNCHANGED <<status, draft, pipeline, findings, events, cb>>

\* The application is deleted, its scans with it; the events stay.
AppDeleted(s) ==
    /\ status[s] # "absent" /\ ~Locked(s)
    /\ status' = [status EXCEPT ![s] = "absent"]
    /\ findings' = [findings EXCEPT ![s] = {}]
    /\ summary' = [summary EXCEPT ![s] = NoSummary]
    /\ UNCHANGED <<draft, pipeline, events, cb, user>>

ScanNext ==
    \/ \E s \in Scans : CreateFlushes(s) \/ CreateCommits(s) \/ CreateFails(s) \/ AppDeleted(s)
    \/ \E k \in Callbacks : \/ CallbackLoads(k) \/ CallbackFlushes(k) \/ CallbackLooksUp(k)
                            \/ CallbackCommits(k) \/ CallbackFails(k)
    \/ \E u \in Users : SummaryLoads(u) \/ SummaryEnds(u)

ScanSpec == ScanInit /\ [][ScanNext]_scanVars

-----------------------------------------------------------------------------
CallbackPcs    == {"new", "loaded", "locked", "checked", "stored", "refused"}
CallbackStates == [pc : CallbackPcs, s : Scans, verdict : Terminal, critical : BOOLEAN,
                   known : Nat]
Asks           == [pc : {"idle", "asked"}, s : Scans, about : SUBSET Callbacks]
Summaries      == [about : SUBSET Callbacks, made : BOOLEAN]

\* Type correctness of the scans, findings and callbacks.
ScanTypeOK ==
    /\ status \in [Scans -> {"absent"} \cup Unfinished \cup Terminal]
    /\ draft \in [Scans -> {"none", "over"} \cup Unfinished]
    /\ pipeline \subseteq Scans
    /\ findings \in [Scans -> SUBSET Callbacks]
    /\ events \in [Scans -> Nat]
    /\ summary \in [Scans -> Summaries]
    /\ cb \in [Callbacks -> CallbackStates]
    /\ user \in [Users -> Asks]

Reported(s) == \E k \in Callbacks : cb[k].pc = "stored" /\ cb[k].s = s /\ Critical(k)

(***************************************************************************)
(* A critical result is notified exactly once, although the deduplication  *)
(* key has no unique constraint: the flush before the look-up orders the   *)
(* callbacks of a scan.                                                    *)
(***************************************************************************)
CriticalNotifiedOnce ==
    \A s \in Scans : events[s] = IF Reported(s) THEN 1 ELSE 0

\* A lock has one holder, and what it looked up still holds.
LockIsExclusive ==
    /\ \A j, k \in Callbacks :
         /\ cb[j].pc \in {"locked", "checked"} /\ cb[k].pc \in {"locked", "checked"}
         /\ cb[j].s = cb[k].s
         => j = k
    /\ \A k \in Callbacks : cb[k].pc = "checked" => cb[k].known = events[cb[k].s]

StoredFor(s) == {k \in Callbacks : cb[k].pc = "stored" /\ cb[k].s = s}

\* Two callbacks of the scan were stored.
TwoStored(s) == \E j, k \in StoredFor(s) : j # k

\* A row comes once, a callback that holds its lock finds it there, findings
\* come from stored callbacks, and a completed scan has some.
RowsFollowed ==
    /\ \A s \in Scans :
         /\ status[s] # "absent" => draft[s] = "over"
         /\ findings[s] \subseteq StoredFor(s)
         /\ status[s] = "completed" => findings[s] # {}
    /\ \A k \in Callbacks :
         cb[k].pc \in {"locked", "checked"} => status[cb[k].s] # "absent"

\* What a summary says, or a question under way was asked about, is what is
\* stored, unless a second callback was stored since.
AboutStored(A, s) == A # {} /\ A \subseteq StoredFor(s) /\ (A = findings[s] \/ TwoStored(s))
SummariesFollowed ==
    /\ \A s \in Scans :
         summary[s].made => status[s] # "absent" /\ AboutStored(summary[s].about, s)
    /\ \A u \in Users : user[u].pc = "asked" =>
         /\ draft[user[u].s] = "over"
         /\ status[user[u].s] # "absent" => AboutStored(user[u].about, user[u].s)

(***************************************************************************)
(* The inductive strengthening: the row lock of the first flush orders the *)
(* callbacks of a scan, so what was looked up under it is not stale, and   *)
(* what a summary is about can be traced to the callbacks stored.          *)
(***************************************************************************)
ScanInv == /\ ScanTypeOK /\ LockIsExclusive /\ CriticalNotifiedOnce
           /\ RowsFollowed /\ SummariesFollowed

Overlapping(s) ==
    \E j, k \in Callbacks : /\ j # k /\ cb[j].s = s /\ cb[k].s = s
                            /\ cb[j].pc \notin {"new", "refused"}
                            /\ cb[k].pc \notin {"new", "refused"}

(***************************************************************************)
(* A stored summary is about all the stored findings of its scan, unless   *)
(* two callbacks of the scan overlapped.                                   *)
(***************************************************************************)
SummaryIsComplete ==
    \A s \in Scans : summary[s].made /\ ~Overlapping(s) => summary[s].about = findings[s]
=============================================================================
