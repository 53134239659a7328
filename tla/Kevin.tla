--------------------------------- MODULE Kevin --------------------------------
(***************************************************************************)
(* Who calls the agent, and what becomes of a call that finds no slot:     *)
(* Slack messages (main.go:219-267) are dropped, jobs of River             *)
(* (internal/cron/cron.go) are tried again, nudges of the orchestrator     *)
(* (internal/agent/orchestrator.go) come again with the next poll.  The    *)
(* admission itself is modelled in Agent; here it is no more than its      *)
(* guard, which all callers meet, through a start at which the jobs come   *)
(* before the agent.                                                       *)
(*                                                                         *)
(* River is external: it keeps jobs in Postgres, gives each attempt a      *)
(* minute, recovers panics, tries a failed job again until MaxAttempts,    *)
(* stores an outcome some time after the worker has returned, and finds    *)
(* the jobs whose process died.                                            *)
(***************************************************************************)
EXTENDS Naturals, FiniteSets

CONSTANTS
    Messages,       \* the Slack messages Kevin is to handle
    Jobs,           \* the prompt jobs ever scheduled
    Rows,           \* the bugfixes that may wait for Kevin
    MaxConcurrent,  \* the agent's slots
    MaxAttempts,    \* River's attempts for a job (25)
    MaxNudges,      \* bound: goroutines of one row at the same time
    MaxRestarts     \* bound: restarts of the process

ASSUME KevinAssumption ==
    /\ IsFiniteSet(Messages) /\ IsFiniteSet(Jobs) /\ IsFiniteSet(Rows)
    /\ MaxConcurrent \in Nat \ {0} /\ MaxAttempts \in Nat \ {0}
    /\ MaxNudges \in Nat \ {0} /\ MaxRestarts \in Nat

VARIABLES
    ready,       \* whether main.go has made the agent
    restarts,
    msg,         \* what became of each message
    job,         \* River's state of each job, with the place of its worker
    attempt,     \* the attempts begun for each job
    cancelling,  \* the running jobs that were cancelled
    resume,      \* the call about all rows at the start
    waiting,     \* the rows a poll selects
    knocking,    \* per row, nudges that have yet to call the agent
    nudging,     \* per row, nudges that hold a slot
    answers,     \* history: the replies each job's prompt got
    acts,        \* history: the attempts in which Kevin may have acted on it
    cut,         \* history: the jobs an attempt of which acted and got no reply
    interrupted  \* history: the jobs whose worker died with the process

done == <<answers, acts, cut>>
jobs == <<job, attempt, cancelling, done, interrupted>>
nudges == <<resume, waiting, knocking, nudging>>
vars == <<ready, restarts, msg, jobs, nudges>>

\* The calls that hold a slot.
Inside ==
    ({"message"} \X {m \in Messages : msg[m] = "inside"})
    \cup ({"job"} \X {j \in Jobs : job[j] = "inside"})
    \cup (UNION {{<<"nudge", i, n>> : n \in 1..nudging[i]} : i \in Rows})
    \cup {c \in {<<"resume">>} : resume = "inside"}

\* The semaphore of the agent has a place left.
Room == Cardinality(Inside) < MaxConcurrent

\* Jobs of an earlier process may be due when this one starts.
Init ==
    /\ ready = FALSE /\ restarts = 0
    /\ msg = [m \in Messages |-> "unsent"]
    /\ job \in [Jobs -> {"none", "available"}]
    /\ attempt = [j \in Jobs |-> 0] /\ cancelling = {}
    /\ answers = [j \in Jobs |-> 0] /\ acts = [j \in Jobs |-> 0]
    /\ cut = {} /\ interrupted = {}
    /\ resume = "idle" /\ waiting = {}
    /\ knocking = [i \in Rows |-> 0] /\ nudging = [i \in Rows |-> 0]

\* a = agent.New(...), and the orchestrator asks about what it finds, if
\* its query succeeds and finds anything.
Assign ==
    /\ ~ready /\ ready' = TRUE
    /\ resume' \in {"idle", "knocking"}
    /\ UNCHANGED <<restarts, msg, jobs, waiting, knocking, nudging>>

-------------------------------------------------------------------------------
(* Slack messages: ErrBusy is logged, and that is all (main.go:254-257). *)
MsgGoes(m, from, to) ==
    /\ msg[m] = from
    /\ msg' = [msg EXCEPT ![m] = to]
    /\ UNCHANGED <<ready, restarts, jobs, nudges>>

\* Listen is called last.
Arrives(m) == ready /\ MsgGoes(m, "unsent", "knocking")
MsgAdmitted(m) == Room /\ MsgGoes(m, "knocking", "inside")
MsgDropped(m) == ~Room /\ MsgGoes(m, "knocking", "dropped")
MsgEnds(m) == MsgGoes(m, "inside", "answered") \/ MsgGoes(m, "inside", "failed")

-------------------------------------------------------------------------------
(* Jobs *)
JobGoes(j, to) ==
    /\ job' = [job EXCEPT ![j] = to]
    /\ UNCHANGED <<ready, restarts, msg, nudges, interrupted>>

\* cron_schedule and cron_cancel are called by a claude of Kevin.
Schedule(j) ==
    /\ Inside # {} /\ job[j] = "none"
    /\ JobGoes(j, "available")
    /\ UNCHANGED <<attempt, cancelling, done>>

Working(j) == job[j] \in {"knocking", "inside", "returned"}
Final == {"completed", "cancelled", "discarded"}

\* A job that waits is cancelled at once; one that runs has its context
\* cancelled, and is cancelled when it fails of that.
Cancel(j) ==
    /\ Inside # {}
    /\ \/ /\ job[j] \in {"available", "retryable"}
          /\ JobGoes(j, "cancelled")
          /\ UNCHANGED cancelling
       \/ /\ Working(j) \/ job[j] = "stale"
          /\ j \notin cancelling
          /\ cancelling' = cancelling \cup {j}
          /\ JobGoes(j, job[j])
    /\ UNCHANGED <<attempt, done>>

\* A worker takes the job and calls the handler.
Attempt(j) ==
    /\ job[j] \in {"available", "retryable"}
    /\ attempt' = [attempt EXCEPT ![j] = @ + 1]
    /\ JobGoes(j, "knocking")
    /\ UNCHANGED <<cancelling, done>>

\* What River makes of an attempt that failed.
Failure(j) ==
    IF j \in cancelling THEN "cancelled"
    ELSE IF attempt[j] >= MaxAttempts THEN "discarded" ELSE "retryable"

\* Mutant: the handler logs the error and returns nil.
HandlerResultSwallowed(j, replied) == "returned"

\* The handler returns the agent's error, and nil if there is none.
HandlerResult(j, replied) == IF replied THEN "returned" ELSE Failure(j)

\* The handler runs into the agent that is not there yet.
Panics(j) ==
    /\ job[j] = "knocking" /\ ~ready
    /\ JobGoes(j, Failure(j))
    /\ UNCHANGED <<attempt, cancelling, done>>

JobAdmitted(j) ==
    /\ job[j] = "knocking" /\ ready /\ Room
    /\ JobGoes(j, "inside")
    /\ UNCHANGED <<attempt, cancelling, done>>

JobRefused(j) ==
    /\ job[j] = "knocking" /\ ready /\ ~Room
    /\ JobGoes(j, HandlerResult(j, FALSE))
    /\ UNCHANGED <<attempt, cancelling, done>>

\* HandleMessage replies, or claude fails, or is killed when the minute is over
\* or the job was cancelled: before or after it has done what the prompt asks.
JobEnds(j) ==
    /\ job[j] = "inside"
    /\ \E replied, acted \in BOOLEAN :
           /\ replied => acted
           /\ answers' = [answers EXCEPT ![j] = IF replied THEN @ + 1 ELSE @]
           /\ acts' = [acts EXCEPT ![j] = IF acted THEN @ + 1 ELSE @]
           /\ cut' = IF acted /\ ~replied THEN cut \cup {j} ELSE cut
           /\ JobGoes(j, HandlerResult(j, replied))
    /\ UNCHANGED <<attempt, cancelling>>

Stores(j) ==
    /\ job[j] = "returned"
    /\ JobGoes(j, "completed")
    /\ UNCHANGED <<attempt, cancelling, done>>

Rescues(j) ==
    /\ job[j] = "stale"
    /\ JobGoes(j, Failure(j))
    /\ UNCHANGED <<attempt, cancelling, done>>

-------------------------------------------------------------------------------
(* The orchestrator: a refused nudge is logged, and the next poll makes another. *)
RowWaits(i) ==
    /\ i \notin waiting
    /\ waiting' = waiting \cup {i}
    /\ UNCHANGED <<ready, restarts, msg, jobs, resume, knocking, nudging>>

\* A goroutine for every row selected, whether or not those of earlier polls
\* have ended.  Five minutes are enough for them to come to the semaphore.
Poll ==
    /\ ready /\ \A i \in Rows : knocking[i] = 0
    /\ \A i \in waiting : nudging[i] < MaxNudges
    /\ knocking' = [i \in Rows |-> IF i \in waiting THEN 1 ELSE 0]
    /\ UNCHANGED <<ready, restarts, msg, jobs, resume, waiting, nudging>>

Nudge(i) ==
    /\ knocking[i] > 0
    /\ knocking' = [knocking EXCEPT ![i] = @ - 1]
    /\ nudging' = IF Room THEN [nudging EXCEPT ![i] = @ + 1] ELSE nudging
    /\ UNCHANGED <<ready, restarts, msg, jobs, resume, waiting>>

\* Kevin has dealt with the row, or has not.
NudgeEnds(i) ==
    /\ nudging[i] > 0
    /\ nudging' = [nudging EXCEPT ![i] = @ - 1]
    /\ waiting' \in {waiting, waiting \ {i}}
    /\ UNCHANGED <<ready, restarts, msg, jobs, resume, knocking>>

Resume ==
    /\ resume = "knocking"
    /\ resume' = IF Room THEN "inside" ELSE "idle"
    /\ UNCHANGED <<ready, restarts, msg, jobs, waiting, knocking, nudging>>

ResumeEnds ==
    /\ resume = "inside"
    /\ resume' = "idle"
    /\ waiting' \in SUBSET waiting
    /\ UNCHANGED <<ready, restarts, msg, jobs, knocking, nudging>>

-------------------------------------------------------------------------------
\* The process dies and is started again: goroutines and slots are gone, River's
\* jobs and the rows are not.
Restart ==
    /\ restarts < MaxRestarts
    /\ restarts' = restarts + 1
    /\ ready' = FALSE
    /\ msg' = [m \in Messages |->
           IF msg[m] \in {"knocking", "inside"} THEN "lost" ELSE msg[m]]
    /\ job' = [j \in Jobs |-> IF Working(j) THEN "stale" ELSE job[j]]
    /\ interrupted' = interrupted \cup {j \in Jobs : Working(j)}
    /\ acts' = [j \in Jobs |-> IF job[j] = "inside" THEN acts[j] + 1 ELSE acts[j]]
    /\ resume' = "idle"
    /\ knocking' = [i \in Rows |-> 0] /\ nudging' = [i \in Rows |-> 0]
    /\ UNCHANGED <<attempt, cancelling, answers, cut, waiting>>

MsgRuns(m) == MsgAdmitted(m) \/ MsgDropped(m) \/ MsgEnds(m)

JobRuns(j) ==
    \/ Attempt(j) \/ Panics(j) \/ JobAdmitted(j) \/ JobRefused(j) \/ JobEnds(j)
    \/ Stores(j) \/ Rescues(j)

ResumeRuns == Resume \/ ResumeEnds
NudgeRuns(i) == Nudge(i) \/ NudgeEnds(i)

Next ==
    \/ Assign \/ Restart \/ Poll \/ ResumeRuns
    \/ \E m \in Messages : Arrives(m) \/ MsgRuns(m)
    \/ \E j \in Jobs : Schedule(j) \/ Cancel(j) \/ JobRuns(j)
    \/ \E i \in Rows : RowWaits(i) \/ NudgeRuns(i)

Spec == Init /\ [][Next]_vars

-------------------------------------------------------------------------------
(* Properties *)

\* Every variable has its type; whoever has an agent to call was started after
\* it was made, and only a job that runs is being cancelled.
TypeOK ==
    /\ ready \in BOOLEAN /\ restarts \in 0..MaxRestarts
    /\ msg \in [Messages -> {"unsent", "knocking", "inside", "answered", "failed",
                             "dropped", "lost"}]
    /\ job \in [Jobs -> {"none", "available", "knocking", "inside", "returned",
                         "stale", "retryable"} \cup Final]
    /\ attempt \in [Jobs -> 0..MaxAttempts] /\ answers \in [Jobs -> 0..MaxAttempts]
    /\ acts \in [Jobs -> 0..MaxAttempts] /\ cut \subseteq Jobs
    /\ cancelling \subseteq Jobs /\ interrupted \subseteq Jobs
    /\ resume \in {"idle", "knocking", "inside"} /\ waiting \subseteq Rows
    /\ knocking \in [Rows -> 0..1] /\ nudging \in [Rows -> 0..MaxNudges]
    /\ ~ready => Inside = {}

\* A job that counts as completed got its answer: no start at which the agent
\* was missing, no refusal, no minute that ran out and no cancellation passes
\* for one (main.go:67-74, cron.go:118-125).  A prompt that was answered is put
\* to Kevin again only when the process died before River knew; and he acts on
\* one a second time only then, or after an attempt that was ended, by the
\* minute or by claude, when he had acted on it but not yet replied.
AnsweredOnce ==
    \A j \in Jobs :
        /\ job[j] = "completed" => answers[j] > 0
        /\ answers[j] > 1 => j \in interrupted
        /\ acts[j] > 1 => j \in interrupted \cup cut
===============================================================================
