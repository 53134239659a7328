-------------------------------- MODULE Bugfix --------------------------------
(***************************************************************************)
(* The bug-fixing team: the bugfixes table with the tools that change it   *)
(* (internal/mcp/bugfix.go), the spawner of Angela and Darryl (main.go)    *)
(* and the orchestrator that polls the table and nudges Kevin              *)
(* (internal/agent/orchestrator.go).                                       *)
(*                                                                         *)
(* The three agents are external.  They call the tools their prompts tell  *)
(* them to call, whenever they get to it, and may die at any point.  A     *)
(* timestamp column is "null", "fresh" or "old" (at least stuckAfter ago). *)
(***************************************************************************)
EXTENDS Naturals

CONSTANTS
    Ids,         \* the ids of the bugfixes ever inserted
    MaxNudges,   \* bound: nudges for one row under way at the same time
    MaxDarryls   \* bound: executors of one row at the same time

ASSUME BugfixAssumption ==
    /\ MaxNudges \in Nat \ {0} /\ MaxDarryls \in Nat \ {0}

VARIABLES
    rows,     \* the bugfixes table
    angela,   \* whether each row has an assessor that has yet to decide
    darryl,   \* how many executor processes each row has
    kevin,    \* Kevin's calls about a row under way, by kind
    orch,     \* where the orchestrator's loop is
    begun,    \* history: when each row's last round of work began
    said      \* history: when the owner last heard of that round

procs == <<angela, darryl>>
round == <<begun, said>>
vars == <<rows, procs, kevin, orch, round>>

Kinds == {"resume", "review", "stuck"}
Ages == {"null", "fresh", "old"}
Statuses == {"none", "assessing", "running", "review", "stuck", "done", "failed"}

\* The columns the code acts upon; status "none" is a row not inserted yet.
Row == [status : Statuses, pr : BOOLEAN, merged : BOOLEAN,
        human : Ages, started : Ages]

Blank == [status |-> "none", pr |-> FALSE, merged |-> FALSE,
          human |-> "null", started |-> "null"]

Init ==
    /\ rows = [i \in Ids |-> Blank]
    /\ angela = [i \in Ids |-> FALSE] /\ darryl = [i \in Ids |-> 0]
    /\ kevin = [c \in Ids \X Kinds |-> 0]
    /\ orch = "resume"
    /\ begun = [i \in Ids |-> "null"] /\ said = [i \in Ids |-> "null"]

Is(i, S) == rows[i].status \in S

-------------------------------------------------------------------------------
(* The tools.  Each is one statement on one row, and maybe a process.          *)
Write(i, row) == rows' = [rows EXCEPT ![i] = row]

Insert(i, row) == Is(i, {"none"}) /\ Write(i, row)

\* A new round, of which the owner has not heard.
Begins(i) ==
    /\ begun' = [begun EXCEPT ![i] = "fresh"]
    /\ said' = [said EXCEPT ![i] = "null"]

\* bugfix_create: a row to be worked on by whoever creates it.
Create(i) ==
    /\ Insert(i, [Blank EXCEPT !.status = "running", !.started = "fresh"])
    /\ Begins(i)
    /\ UNCHANGED <<procs, kevin, orch>>

\* bugfix_assess: always a new row, and an Angela for it.
Assess(i) ==
    /\ Insert(i, [Blank EXCEPT !.status = "assessing"])
    /\ angela' = [angela EXCEPT ![i] = TRUE]
    /\ UNCHANGED <<darryl, round>>

\* Mutant: started_at is left alone.
StartUnstamped(i) ==
    /\ ~Is(i, {"none"}) /\ darryl[i] < MaxDarryls
    /\ Write(i, [rows[i] EXCEPT !.status = "running"])
    /\ Begins(i)
    /\ darryl' = [darryl EXCEPT ![i] = @ + 1]

\* bugfix_start: the row is running, whatever it was, and has one more Darryl.
Start(i) ==
    /\ ~Is(i, {"none"}) /\ darryl[i] < MaxDarryls
    /\ Write(i, [rows[i] EXCEPT !.status = "running", !.started = "fresh"])
    /\ Begins(i)
    /\ darryl' = [darryl EXCEPT ![i] = @ + 1]

\* bugfix_update, the status it may carry, and the human_update.
SetStatus(i, s) == [rows[i] EXCEPT !.status = s]
Update(i, row) == Write(i, row) /\ UNCHANGED <<darryl, round>>

Tells(i) ==
    /\ Write(i, [rows[i] EXCEPT !.human = "fresh"])
    /\ said' = [said EXCEPT ![i] = "fresh"]
    /\ UNCHANGED <<darryl, begun>>

-------------------------------------------------------------------------------
(* Angela and Darryl, main.go:128-195.  Their exit leaves the status alone; a  *)
(* failed process only writes the error column, which no query reads.          *)
AngelaPasses(i) ==
    /\ angela[i]
    /\ Start(i)
    /\ angela' = [angela EXCEPT ![i] = FALSE]
    /\ UNCHANGED <<kevin, orch>>

AngelaRejects(i) ==
    /\ angela[i]
    /\ Update(i, SetStatus(i, "failed"))
    /\ angela' = [angela EXCEPT ![i] = FALSE]
    /\ UNCHANGED <<kevin, orch>>

\* Nothing makes the PR come before the review: its update may have failed.
DarrylWorks(i) ==
    /\ darryl[i] > 0
    /\ \/ Update(i, [rows[i] EXCEPT !.pr = TRUE])
       \/ Tells(i)
       \/ Update(i, SetStatus(i, "review"))
       \/ Update(i, SetStatus(i, "stuck"))
    /\ UNCHANGED <<angela, kevin, orch>>

AngelaDies(i) ==
    /\ angela[i]
    /\ angela' = [angela EXCEPT ![i] = FALSE]
    /\ UNCHANGED <<rows, darryl, kevin, orch, round>>

DarrylExits(i) ==
    /\ darryl[i] > 0
    /\ darryl' = [darryl EXCEPT ![i] = @ - 1]
    /\ UNCHANGED <<rows, angela, kevin, orch, round>>

-------------------------------------------------------------------------------
(* The orchestrator *)
\* One call of Kevin for every row in S.
Nudge(kind, S) ==
    /\ \A i \in S : kevin[<<i, kind>>] < MaxNudges
    /\ kevin' = [c \in Ids \X Kinds |->
           IF c[1] \in S /\ c[2] = kind THEN kevin[c] + 1 ELSE kevin[c]]

Moves(from, to) == orch = from /\ orch' = to /\ UNCHANGED <<rows, procs, round>>

Unfinished == {i \in Ids : Is(i, {"running", "assessing", "review"})}

\* resumeUnfinishedBugfixes: one call about all of them.
Resume == Moves("resume", "waiting") /\ Nudge("resume", Unfinished)

\* The 30 s before the first poll and the interval between polls.
Wake == Moves("waiting", "reviews") /\ UNCHANGED kevin

\* A query fails: it is logged, and the loop goes on as if nothing waited.
QueryFails ==
    /\ \/ Moves("resume", "waiting")
       \/ Moves("reviews", "runs")
       \/ Moves("runs", "waiting")
    /\ UNCHANGED kevin

\* Mutant: every row with an open PR is polled, whatever its status.
ReviewRowsLoose == {i \in Ids : ~rows[i].merged /\ rows[i].pr}

ReviewRows == {i \in Ids : Is(i, {"review"}) /\ ~rows[i].merged /\ rows[i].pr}

CheckReviewPRs == Moves("reviews", "runs") /\ Nudge("review", ReviewRows)

\* Mutant: only the message to the owner is looked at.
LastUpdateHuman(r) == r.human

\* Mutant: the start of the run is looked at first.
LastUpdateStarted(r) == IF r.started # "null" THEN r.started ELSE r.human

\* COALESCE(last_human_update_at, started_at, created_at): a running row has a
\* start, so its creation is never reached.
LastUpdate(r) == IF r.human # "null" THEN r.human ELSE r.started

StuckRows == {i \in Ids : Is(i, {"running"}) /\ LastUpdate(rows[i]) = "old"}

CheckStuckRuns == Moves("runs", "waiting") /\ Nudge("stuck", StuckRows)

-------------------------------------------------------------------------------
(* Kevin *)
Asked(i, kind) ==
    /\ kevin[<<i, kind>>] > 0
    /\ kevin' = [kevin EXCEPT ![<<i, kind>>] = @ - 1]
    /\ UNCHANGED orch

\* Asked on Slack, he has an issue assessed.
KevinAsked(i) == Assess(i) /\ UNCHANGED <<kevin, orch>>

\* "respawn via bugfix_start or bugfix_assess"; the latter leaves this row as
\* it is and inserts one of its own, which KevinAsked stands for.
KevinRespawns(i) == Asked(i, "resume") /\ Start(i) /\ UNCHANGED angela

\* "Re-dispatch Darryl via bugfix_start", or close the run once it is merged.
KevinReviews(i) ==
    /\ Asked(i, "review")
    /\ Start(i) \/ Update(i, [SetStatus(i, "done") EXCEPT !.merged = TRUE])
    /\ UNCHANGED angela

\* Asked for the status of a silent run he respawns, gives up or reports.
KevinChecks(i) ==
    /\ Asked(i, "stuck")
    /\ \/ Start(i)
       \/ Update(i, SetStatus(i, "stuck"))
       \/ Tells(i)
    /\ UNCHANGED angela

\* HandleMessage fails (ErrBusy, claude) or Kevin leaves it at that; the call
\* of the startup resume is about all its rows at once.
KevinDrops(i, kind) ==
    /\ kevin[<<i, kind>>] > 0
    /\ kevin' = [c \in Ids \X Kinds |->
           IF kind = "resume" /\ c[2] = kind THEN 0
           ELSE IF c = <<i, kind>> THEN kevin[c] - 1 ELSE kevin[c]]
    /\ UNCHANGED <<rows, procs, orch, round>>

-------------------------------------------------------------------------------
Aged(t) == IF t = "fresh" THEN "old" ELSE t

\* stuckAfter goes by.
Tick ==
    /\ rows' = [i \in Ids |->
           [rows[i] EXCEPT !.human = Aged(@), !.started = Aged(@)]]
    /\ begun' = [i \in Ids |-> Aged(begun[i])]
    /\ said' = [i \in Ids |-> Aged(said[i])]
    /\ UNCHANGED <<procs, kevin, orch>>

\* The process is stopped, with its subprocesses, and started again.
Restart ==
    /\ angela' = [i \in Ids |-> FALSE] /\ darryl' = [i \in Ids |-> 0]
    /\ kevin' = [c \in Ids \X Kinds |-> 0]
    /\ orch' = "resume"
    /\ UNCHANGED <<rows, round>>

Agents(i) ==
    \/ Create(i) \/ KevinAsked(i)
    \/ AngelaPasses(i) \/ AngelaRejects(i) \/ AngelaDies(i)
    \/ DarrylWorks(i) \/ DarrylExits(i)
    \/ KevinRespawns(i) \/ KevinReviews(i) \/ KevinChecks(i)
    \/ \E kind \in Kinds : KevinDrops(i, kind)

Orchestrator == Resume \/ Wake \/ CheckReviewPRs \/ CheckStuckRuns \/ QueryFails

Next == Orchestrator \/ Tick \/ Restart
        \/ \E i \in Ids : Agents(i)

Spec == Init /\ [][Next]_vars

\* The loop's goroutine and the clock go on, the database does not fail one
\* query for ever, and no call of Kevin lasts for ever; nothing is assumed of
\* what the agents do.
FairSpec ==
    /\ Spec
    /\ WF_vars(Orchestrator) /\ WF_vars(Tick)
    /\ SF_vars(Resume) /\ SF_vars(CheckReviewPRs) /\ SF_vars(CheckStuckRuns)
    /\ \A i \in Ids, kind \in Kinds : WF_vars(KevinDrops(i, kind))

-------------------------------------------------------------------------------
(* Properties *)

\* Every variable has its type, only inserted rows have processes, and a running
\* row has a start (bugfix.go:81, :354).
TypeOK ==
    /\ rows \in [Ids -> Row]
    /\ \A i \in Ids : Is(i, {"running"}) => rows[i].started # "null"
    /\ \A i \in Ids : Is(i, {"none"}) => ~angela[i] /\ darryl[i] = 0
    /\ angela \in [Ids -> BOOLEAN]
    /\ darryl \in [Ids -> 0..MaxDarryls]
    /\ kevin \in [Ids \X Kinds -> 0..MaxNudges]
    /\ orch \in {"resume", "waiting", "reviews", "runs"}
    /\ begun \in [Ids -> Ages] /\ said \in [Ids -> Ages]

Watched(i) == \E kind \in Kinds : kevin[<<i, kind>>] > 0

\* docs/PLAN.md:148-150: a run whose executor is gone, whatever it wrote
\* before, and a PR in review are brought to Kevin again and again: neither is
\* forgotten because a query failed, a call was refused or the process
\* restarted (orchestrator.go:110-200).
WaitingRowNudged ==
    \A i \in Ids :
        /\ Is(i, {"running"}) /\ darryl[i] = 0
             ~> ~Is(i, {"running"}) \/ darryl[i] > 0 \/ Watched(i)
        /\ i \in ReviewRows ~> i \notin ReviewRows \/ Watched(i)

\* A run is taken for stuck because nothing was heard of its present round for
\* stuckAfter: neither its start nor a message to the owner since is younger,
\* whatever was started again, reported, polled or restarted in between.  With
\* one exception, that of the stale column: bugfix_start leaves
\* last_human_update_at as it is (bugfix.go:354), so the old message of an
\* earlier round hides a start of just now until the owner hears of the new
\* round (orchestrator.go:163).
Hidden(i) == said[i] = "null" /\ rows[i].human = "old"

StuckMeansSilent ==
    [][\A i \in Ids : kevin'[<<i, "stuck">>] > kevin[<<i, "stuck">>] =>
           \/ begun[i] = "old" /\ said[i] # "fresh"
           \/ Hidden(i)]_vars

\* A run that is over, with no process and no nudge left from before, is never
\* touched again: no poll and no restart brings it back
\* (orchestrator.go:72, :116, :162).
Settled(i) ==
    Is(i, {"done", "failed"}) /\ ~angela[i] /\ darryl[i] = 0 /\ ~Watched(i)

SettledStaysSettled ==
    [][\A i \in Ids : Settled(i) => Settled(i)' /\ rows'[i].status = rows[i].status]_vars
===============================================================================
