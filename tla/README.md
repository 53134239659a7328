# kevinclaw in TLA+

kevinclaw is a personal assistant: messages from Slack, cron jobs and an
orchestrator all end in calls of one agent, which runs the `claude` CLI as a
subprocess and keeps its conversations in Postgres. Beside the agent "Kevin"
the process spawns "Angela" and "Darryl", who assess and fix bugs, follows them
in a table and shows everything on a live dashboard. This directory holds
models of the parts with state and concurrency, the TLC configurations that
check them, and proofs, checked by TLAPS, of what matters most.

Paths below are relative to the repository; `agent.go` and the like are found
in `internal/` unless another place is given.

## 1. Inventory

### Components

| Component | State | Operations | Talks to |
|---|---|---|---|
| Agent (`agent/agent.go`) | slot semaphore, session store | `HandleMessage`, `GetSession`, `SaveSession`, `ParseResponse` | called by intake, orchestrator, cron, each in its own goroutine; calls the runner and Postgres |
| ClaudeRunner (`agent/claude.go`) | one subprocess, its stdout pipe, the lines read | start, scan, wait | the `claude` CLI; `OnEvent` publishes to the broker |
| Slack intake (`slack/slack.go`, `main.go:219-267`) | the `seen` map, one goroutine per event, `messages` table, eyes reactions, name cache | `Listen`, `dispatch`, `ShouldHandle`, save, fetch history, ask, reply | Slack, Postgres, the agent |
| Bug-fixing team (`mcp/bugfix.go`, `agent/orchestrator.go`, `main.go:127-195`) | `bugfixes` table, processes of Angela and Darryl, nudges under way | `bugfix_create/update/assess/start`, spawn, startup resume, review poll, stuck poll | the agents call the tools; the orchestrator calls the agent |
| SSE broker (`web/server.go`) | subscribers and their channels, an RWMutex | `Subscribe`, `Unsubscribe`, `Publish`, two handlers | every runner publishes; browsers read |
| Dev server tools (`mcp/devtools.go`) | the one remembered command, a mutex | `Start`, `Stop`, a goroutine per start | the dev command, its port |
| Rate limiter (`util/ratelimit.go`) | granted times per key | `Allow` | only its test so far |
| Cron (`cron/cron.go`, `mcp/cron.go`, `main.go:64-75`) | River's one-off jobs in Postgres | `Schedule`, `List`, `Cancel`, `Work` with its handler | Kevin calls the tools; the workers call the agent |
| Memory (`agent/memory.go`) | files of `memory/`, the system prompt | build prompt, rotate the daily log | the agents write the same files |
| Google Calendar (`gcal/gcal.go`, `mcp/gcal.go`) | a cached access token, a mutex | `token`, `do`, the tools that list, ask who is free, create, update and delete | Kevin calls the tools; Google |
| Policy, Home Assistant, Slack tools, debug tools, config, log, dashboard pages, migrations, test support | none that changes | | |

### What is hard

* **Interleaving.** Every message is a goroutine; two of one thread read, run
  claude for minutes and write the same session row. Two events of one mention
  race through the dedup map. Runners publish while handlers unsubscribe. Two
  starts of a dev server overlap. Calendar calls find the token old together.
* **Competition.** Messages, jobs, nudges and the resume of the start share a
  few slots, and each caller does something else when there is none.
* **Failure.** Errors of Postgres and Slack are logged and ignored; claude may
  fail, be killed, print an over-long line or never end; the process restarts,
  also between an answer and the record of it.
* **Ordering and delivery.** Slack delivers twice and in any order. River tries
  a job again. An answer of Google may be lost after Google has acted.
* **Time.** Polls nudge again while the previous nudge still runs; ages of rows
  decide who is taken for stuck; a token's life is counted from the wrong
  moment; the limiter has a boundary.
* **Waiting.** A pipe between runner and claude; a read lock held over sends; a
  mutex held over a `Wait`, and one held over an HTTP request.

The hazards, each at its line, and the properties that would catch them are in
`PROJECT.json`.

### What makes each component correct

* Agent: no slot leaks; refusal only when full; threads never mix; a turn is
  lost from its thread in named ways only.
* Runner: the answer is claude's output, complete and in order; the pipe is read
  as long as claude runs; it returns.
* Intake: a post is handled once; replies go to those who asked, and to all of
  them; no post slips out of sight without an answer; the eyes reaction means
  work; a follow-up knows its thread.
* Team: whoever waits is nudged; a run is taken for stuck only after silence in
  its present round, but for a stale column; what is settled stays settled.
* Callers of the agent: a job counts as completed only when it was answered; it
  is answered again, or acted upon again, for named reasons only.
* Calendar: one call refreshes for all; a token outlives the request it was
  taken for; what is reported as done is done; nobody waits for the mutex for
  ever.
* Broker: no send on a closed channel; order; completeness short of a full
  buffer; no client holds anybody up.
* Dev server: a process is lost track of in one way only; the mutex is kept by
  nobody but who waits for a process that was told to end; nobody waits for
  ever.
* Memory: a log is append-only, exists every day, and what a conversation's
  prompt lacks of the last two is newer than the process.
* Limiter: no window holds more than the limit; nobody is refused below it; the
  memory is exact.

## 2. Modules

| Module | Models | How state and actions correspond |
|---|---|---|
| `Gate` | the promise of admission | abstract: who is inside, who was refused |
| `Agent` | `HandleMessage` | `pc` is the place of a call in the function, `sem` the semaphore's length, `session` the table, `resume` the local `sessionID`; `Admit`/`Refuse` are the two cases of the `select`, `ReadSession` the query, `StartClaude`..`ClaudeFails` the runner, `ReturnError` and `SaveAndReply` what follows, `Release` the deferred receive |
| `Runner` | `ClaudeRunner` | a line goes by its place in the output, and a chunk by its place in its line; the pipe holds chunks, the scanner's buffer counts those of an unfinished line; `Scan` is one turn of the scan loop, `Wait` the rest of the function |
| `SlackIntake` | `Listen` and the goroutine of `main.go:223-266` | `Deliver` is one event through the bot check and `dispatch`; then one action per call that leaves the process: `Save`, `AddEyes`, `Fetch`, `AskAgent`, `RemoveEyes`, `Reply` |
| `Bugfix` | the tools, the spawner, the orchestrator | `rows` is the table with the columns some query acts upon; tools are operators on one row, used by the actions of Angela, Darryl and Kevin; `Resume`, `CheckReviewPRs`, `CheckStuckRuns` are the loop |
| `SSEBroker` | broker and handlers | channels are named by their clients; `PublishBegin`, `SendTo` (one subscriber), `PublishEnd` under the read lock |
| `DevServer` | `devServer` | `CheckPort`, `Setup`, `Launch` are `Start`; `Kill` and `Reap` the two halves of `Stop`, which holds the mutex in between |
| `Memory` | the system prompt's logs and the rotation | a file is the set of its entries; `BuildSystemPrompt` is the startup, `Look` and `CreateLog` the halves of `ensureDailyLog` around `Stat`, `Arm` and `Fire` the goroutine's loop; `Note` is Kevin, `Midnight` the calendar |
| `Kevin` | all callers of the agent: `main.go:64-75`, `:199-267`, `cron.go`, the orchestrator's goroutines | `ready` is whether `a` has been assigned; `msg`, `job`, `resume`, `knocking` and `nudging` say where each call is, `Room` is the guard of the agent's gate; `job` also holds River's state; `Attempt`, `Panics`, `JobAdmitted`, `JobRefused`, `JobEnds` are a worker, `Stores` and `Rescues` River, `Poll` and `Nudge` the two polls, which differ in nothing here |
| `GCal` | `token`, `do` and the tools of the calendar | `lock` is the mutex, `cached` the two fields of the client, `pc` the place of a call, `ticket` the local `token`; `UseCached` and `Refresh` the two sides of the `if`, `Grant` and `Arrive` happen at Google, `Refreshed` and `Answer` when its answer is there |
| `RateLimit` | `Allow` | `Grant` and `Deny`, with the eviction, in one step under the mutex |

`Agent` refines `Gate` (`ImplementsGate`: `inside` is the set of calls in
flight, `refused` those that were answered `ErrBusy`). `SlackIntake` sees the
agent through what `Agent` promises (a call replies or fails and its key's
session remembers its posts), and `Agent` sees the runner through what `Runner`
promises (output or an error). `Kevin` puts the callers of the agent beside each
other, the messages of `SlackIntake`, the nudges of `Bugfix` and the jobs, as
what they are to the agent: calls that come, get in or not, and end. It has no
semaphore of its own: it takes over the guard of `Gate`, which `Agent` is shown
to implement, and asks what each caller makes of a refusal.

Where a property is about the past and the code does not keep it, the model does
in a history variable that no action reads: `begun` and `said` in `Bugfix` (when
a row's present round of work began and when the owner last heard of it, which
the columns mix with earlier rounds), `since` in `Memory` (what was written
after the prompt was built), `answers`, `acts`, `cut` and `interrupted` in
`Kevin` (what became of each attempt), and those of `Agent` and `SlackIntake`.

The theorems are in modules of their own, which extend the modules they are
about: `AgentProofs`, `RunnerProofs`, `SlackIntakeProofs`, `SSEBrokerProofs`,
`KevinProofs` and `GCalProofs` one each, `TeamProofs` both `Bugfix` and
`DevServer` (they launch processes for others), `ClockProofs` both `Memory` and
`RateLimit` (the clock drives them). Of two that are extended together one has
its common names prefixed (`ServerInit`, `ServerSpec`, `LimitInit`, `LimitSpec`
and so on); they share nothing else. The `MC*` modules give the
constants values for TLC. Definitions whose comment begins with "Mutant" are
broken variants of the definition below them; they show that a property notices
the mistake and are used by no specification.

### Abstractions

* A message, a session, a run is a name. A claude conversation is the set of
  calls whose turns it contains. The CLI may answer a resumed run in the same
  conversation or in a new one that contains it; the code stores whatever id
  the result event carries, so both are allowed, as is a result without an id.
* A timestamp column is `"null"`, `"fresh"` or `"old"` (at least `stuckAfter`
  ago); `Tick` ages all of them. `created_at` is left out because a running row
  always has `started_at` (`TypeOK` says so), `error`, `finished_at` and the
  other columns because nothing reads them but people.
* The agents are external: they call the tools their prompts name, in any order
  their prompts allow, and may die at any point. Kevin acts on a row when he
  has been nudged about it. Nobody calls `bugfix_start` with an id that does
  not exist. The loop's 30 s and the poll interval are one action, `Wake`.
* A restart of kevinclaw ends what its agents can do: a `claude` that survives
  as an orphan has lost the MCP servers it was started with
  (`mcp.ServeHTTP` on `localhost:0`), and its orphaned writes to its own
  conversation are not followed.
* Slack acknowledges before it dispatches (`slack.go:102`), so an event is not
  delivered again after a crash; before that Slack may deliver the events
  of the posts in `Twice` a second time.
  One channel of each kind (direct, listened to, other) is enough since nothing
  compares channels beyond equality.
* The RWMutex gives a waiting writer precedence over new readers, as Go's does.
* River is external. It gives an attempt a minute (its default; the code sets
  none), which is one of the ways `JobEnds` comes about, recovers a panic as a
  failure, tries again until `MaxAttempts`, stores an outcome after the worker
  has returned and rescues jobs whose process died. When it does so (backoff,
  the hour before a rescue) is left to the interleaving.
* In `Kevin` a row waits or does not, and Kevin's answer to a nudge may or may
  not settle it; which rows wait, and for how long, is in `Bugfix`. A refused
  nudge is in `Bugfix` a nudge that Kevin drops.
* Google is external. It counts a token's life from the moment it issues it,
  the client from the moment it has the answer; a token is named by the first.
  The calendar is one event that is there and those that are created. The HTTP
  client has no timeout (`http.DefaultClient`, `gcal.go:109`): a call ends
  because the connection does.
* Kevin's append to a log is one step; two calls of his that edit one file at
  the same moment race inside claude's tools. He writes into the file of the
  prompt's date or of the real one.
* SIGTERM ends a dev command (assumed in `ServerFairSpec` only); that a command of
  another port keeps running is not.

## 3. Runs

Passing runs and the question each asks:

| Run | Shows | Bounds and why they are enough |
|---|---|---|
| `agent` | slots are accounted for, threads do not mix, a turn is lost in two ways only, the gate is implemented | 3 calls, 2 keys, 2 slots: two rivals in a thread and a stranger, refusal possible; queries fail, the process restarts |
| `runner` | the answer is the output, the pipe is read while claude runs, and the answer comes | up to 3 lines of 1 to 4 chunks, a 2-chunk buffer, a 2-chunk pipe: every kind of line before and after an over-long one, torn at every chunk |
| `intake` | handled once, answered, invited; nothing slips; the eyes mean work; the map is bounded | a mention in a channel not listened to (2 kinds of event) and a direct message delivered twice, a map of 1 key that the second post clears, every fault and a crash; a mention in a channel he listens to, whose two events both may be handled, is in `OneGoroutine` and `NothingSlipsAlways` (section 4) but makes this run too long |
| `bugfix` | when a run may be taken for stuck; settled rows stay settled; nobody who waits is forgotten | 1 row, since each is polled on its own; 2 nudges of a kind and 2 executors at once, so that a poll meets the nudge of the one before; failing queries, restarts |
| `sse` | closed channels, order, completeness, nobody waits for clients | 2 runners, a page and the dashboard, buffers of 2, 2 events each: a client may be full, nearly full or never so |
| `devserver` | how a process is lost track of; who keeps the mutex, and that it is given back | 3 starts for 2 apps, 1 stop, restarts: a later launch of the same and of the other port |
| `memory` | logs are append-only, there is one each day, a conversation's prompt lacks only what is newer than the process | 2 entries (they differ in nothing), 3 days, the third being the first on which a log drops out of the prompt; every fault, restarts |
| `kevin` | no job is swallowed, or answered or acted upon twice without a reason | 2 slots; 1 message, 2 jobs of 2 attempts, 1 row of up to 2 nudges and the resume of the start, so that a job can be refused on account of every other kind, another job included; 1 restart at any place; the jobs differ in nothing, so that TLC may swap them |
| `gcal` | who refreshes, what a token and a report are worth, and that the mutex is given back | 3 calls: one refreshes, one waits, one already sends; a rename, a deletion and a third that reads, creates or changes another field; life 3, margin 1 and 4 ticks, so that a token grows old, expires on its way and is fetched again |
| `ratelimit` | the window, the refusals and the memory | 2 keys, limit 2, window 2, 6 ticks: three windows |

Runs that TLC ends with a counterexample; each shows a sentence of the
repository that the code does not keep (quoted in `PROJECT.json`):

| Run | What happens |
|---|---|
| `intake_mention` | In a channel Kevin does not listen to, a mention whose `message` event comes first is never answered. |
| `intake_followup` | A follow-up in a thread that Kevin's reply opened finds neither the root's row nor the root's session. |

Some conditions in the properties that hold are there because the code does
less than one may expect. `LostOnlyToRivals`: two messages of one thread
handled at the same time resume the same session, and the later save drops the
earlier turn (`README.md:59` speaks of the full conversation). `HandledOnce`:
the key that fills the dedup map is cleared with it (`slack.go:69-73`), so the
twin of that very event is handled again. `Returns`: after a line over the
scanner's 1 MB claude blocks on a pipe nobody reads, the runner waits for it,
and the agent's slot with it; the idle timeout of `Config` (`agent.go:40`,
`main.go:200`) is read by nothing. This is why nothing says of `Agent` that an
admitted call returns. `StuckMeansSilent`: `bugfix_start` leaves
`last_human_update_at` alone (`bugfix.go:354`), so a run started again a moment
ago is taken for stuck at once when the message of its previous round is old
(`orchestrator.go:163`); that is its exception, `Hidden`. `LostOnlyToLaunch`: of two overlapping starts,
Stop reaches the second process only (`devtools.go:213`). `SettledStaysSettled`
and `WaitingRowNudged` speak of rows without a process, because a row may have
two: `bugfix_start` has no guard (`bugfix.go:352-364`), so that a nudge about a
run that has only been silent starts a second Darryl beside the first, although
`skills/fix-bug/SKILL.md:32` says "Only one executor (Darryl) can run at a
time". `WaitingRowNudged` is about nudges that reach the agent and leaves out a
row whose Angela died, or that was set to review without a PR (see below).
`AnsweredOnce`: a process that dies between Kevin's answer and River's record of
it has the prompt put to Kevin again, and so has an attempt that is killed at
the end of its minute, or fails, when Kevin has acted but not replied
(`interrupted` and `cut`). `TokenOutlivesRequest`: the margin of 30 s covers the time the
token's answer took and the time the request takes, together; a request that is
slower gets a 401, and nothing fetches a token on a 401 (`gcal.go:115`).
`ReportedIsDone` says nothing of what is reported as failed: an answer that is
lost has Kevin told that an event was not created which was. `AppendOnly`: the
rotation empties a file that Kevin makes between its `Stat` and its
`WriteFile`. `TodayHasLog`: `memory.go:75` says "at each midnight", but a
midnight that falls between the look at the date (line 77) and the timer (line
81) is missed. `ConversationRemembers`: the prompt is not "Rebuilt per message"
(`README.md:57`) but once per start (`main.go:198`), so that "loaded at
conversation start" (`docs/memory.md:73`) is true only of what is older than the
process: a conversation some days later finds neither of its last two logs in
its prompt, and Kevin may file its notes under the date of the start.

Three things are left to be told, because the code does nothing that a property
could hold it to:

* A row whose Angela died before `bugfix_start`, or that was set to review
  without a PR, is selected by neither poll (`orchestrator.go:116`, `:162`) but
  only by the query of a start (`orchestrator.go:72`), which is made once and not
  repeated when it fails. `docs/PLAN.md:182` says "Orchestrator catches this".
* A message is dropped, without a word to its author (`main.go:254-257`), when
  it comes while jobs and nudges hold the slots, although `docs/PLAN.md:11` says
  "Kevin stays responsive to Slack at all times."
* Nothing is queued for the agent, and the nudges of one row pile up
  (`orchestrator.go:144`): each poll adds one, whether or not the previous has
  ended. `MaxNudges` bounds that in the models, not in the code. A row is served
  only if its polls find a slot again and again.

Deadlock is checked in the agent, the orchestrator, Kevin, the memory and the
limiter, where something can always happen next or the end is an action of its
own. The other configurations switch it off: their systems end, when every
event has been handled, claude has exited, every client has gone, every start
has been stopped or every calendar call has been answered. The types of
all modules are proved (section 4); the runs check those of `SlackIntake` and
`Bugfix`, which bound the dedup map and give a running row its start.

### Fairness

Goroutines that can run do (weak fairness of their steps). `Agent`, `Memory`,
`Kevin` and `RateLimit` are checked for safety only and have none. `Runner`: claude writes and exits when it can, no kill is assumed.
`SlackIntake`: Slack delivers what it has. `Bugfix`: the loop, the clock, and
that no call of Kevin lasts for ever; nothing of what the agents do. Its three
queries may fail, but not always (strong fairness). `GCal`: HTTP requests end, if only with an error,
although the client sets no timeout of its own; and strong fairness for those
who wait for the mutex. `SSEBroker`: handlers and publishers under way; no
client need read or leave. `DevServer`: a process that was sent SIGTERM ends,
and, as `sync.Mutex` starves nobody, strong fairness for those who wait for it.

## 4. Proofs

All for every value of the constants that satisfies the module's assumption.

### The agent and what feeds it

* `AgentProofs!AdmissionInvariant`, `TypeCorrect`, `SlotsAccountedAlways`: `sem`
  is the number of calls in flight. Alone this is inductive only together with
  the types (`pc` decides who is in flight), so `AdmissionInv == TypeOK /\
  SlotsAccounted`; four lemmas say what a step does to the set of calls in
  flight, and the library's facts on cardinality do the rest.
* `NoCrossTalkAlways`: the sessions of a key, and what a call resumes, hold
  turns of that key only. Inductive with `ThreadInv`, which follows an id
  everywhere it is kept: the table, the local variable, claude's answer, the
  loaded context.
* `TurnsLostOnlyToRivals` (`LostOnlyToRivals`): a call that has yet to save is
  aware of every recorded turn of its thread, or is excused from it (`Aware`,
  `Excused`). `RecordInv` follows that awareness from the row a call reads over
  what claude loads to what it returns (`HoldsTurns`); it needs that calls of a
  thread which are in flight together know of each other (`RivalsMutual`) and
  that a conversation has turns only from its opener's answer on (`Unopened`).
  Excuses, rivals and turns only grow (`Grows`), so that what held before a
  step need not be proved again for the calls that did not move.
  `UndisturbedThreadKeepsAll` follows: a thread whose calls never overlap and
  can all read their session keeps every recorded turn, which is how far
  `README.md:59` is true.
* `AgentImplementsGate`: every step is a step of the gate or leaves it alone;
  that a refused call never comes back needs `BusyInv`.
* `KevinProofs!TypeCorrect`: with the types go what keeps the counters in their
  bounds: an attempt is begun only below `MaxAttempts` (`Attempts`), and nobody
  is inside an agent that is not made (`NotReady`).
* `AnsweredOnceAlways`: a job has its answer from the moment its worker
  returns; no second attempt begins after an answer unless the job was
  interrupted, nor after Kevin has acted unless it was interrupted or cut
  (`JobInv`).
* `RunnerProofs!TypeCorrect`: that the scanner's buffer never overflows needs
  that a scanner that still scans has room for a chunk (`BufferInv`).
* `AnswerIsOutputAlways`: the chunks in the pipe are consecutive chunks of the
  script (`PipeInv`), up to the one claude writes next (`WriterInv`), and the
  scanner has handled all lines before the first of them and holds what it has
  of that one (`ScanInv`). A scanner that stops on an over-long line has met
  one that does not fit; one that stops at the end of the file of a claude that
  exited well has met an empty pipe, and so has read everything.
* `PipeIsReadAlways`: the scanner stops at the end of the file, which does not
  come before claude has gone, or on a line that does not fit, which the script
  then has. This is the safety half of `Returns`.
* `SlackIntakeProofs!TypeCorrect`, `OnlyInvited` (`RepliesInvited`),
  `OneGoroutine` (`HandledOnce`), `EyesMeanWork` (`EyesMeanWorking`), by one
  invariant, `IntakeInv`. An event that is delivered is known and has no
  goroutine yet (`EventsKnown`, `DeliveredOnce`); a goroutine past the routing
  is there by right (`RightPath`); the key of each that ran is in the map or was
  cleared with it (`RanIsSeen`), so that a second one of its post finds the key;
  the eyes on a post are there for a mention some goroutine still works on
  (`MentionWorks`). For any posts and threads, any limit of the map, any faults.
* `NothingSlipsAlways` (`NothingSlips`), the safety half of `ListenedAnswered`:
  a key in the map is that of an event whose goroutine was started (`SeenRan`),
  and one that is done has replied where Kevin listens (`DoneReplied`); so an
  event that is dropped as a duplicate leaves its twin to follow up
  (`FollowInv`).

### What the agents' runs touch

* `SSEBrokerProofs!NoSendOnClosedAlways`: what a Publish has yet to visit is
  still subscribed, what is subscribed is not closed, and only readers have
  anything to visit (`LockInv`); Unsubscribe needs every reader to be gone.
  `TypeCorrect`: an event that is sent has been counted (`CountInv`).
* `OwnRunInOrderAlways`, `NothingMissedAlways`: `StreamInv` says of each client
  what it was sent, read or not. Of a publisher that is no more than the
  publisher has counted, and strictly less while the client is still to be
  visited (`Behind`), so that the next event is always the greatest; and of a
  client that was never full, every event since its Subscribe but the one on
  its way (`Complete`).
* `ClockProofs!AppendOnlyAlways`, `TodayHasLogAlways`: what was found missing
  was never written to, except since (`FilesInv`); a midnight finds the
  goroutine asleep, and then the timer is due, or awake, and then the day is
  excused (`RotationInv`). `ConversationRemembersAlways`: nobody can have written
  a log of a day to come, so of the logs a start finds the last two are those of
  its day and the day before; what any later day adds was written since
  (`SinceInv`). `TypeCorrect`: that a prompt has no more than two logs follows from
  there being no third day among the last two (`PromptInv`).
* `ClockProofs!RollingLimitAlways`, `RemembersTheHourAlways`: `WindowInv` joins
  the two, for the limit holds because what is forgotten is old and what is
  remembered is counted. It contains the module's `LimitTypeOK`.
  `RefusesOnlyFullAlways` follows from it: a list that is still at the limit
  after the eviction had nothing to evict, so its first entry, the oldest of the
  last `Limit` grants, has not expired.

### The tools

* `GCalProofs!TypeCorrect`, `RefreshOnlyWhenStaleAlways`: the mutex is held by
  exactly who refreshes, so nobody else can replace the stale token meanwhile
  (`LockInv`). `TokenOutlivesRequestAlways`: a carried token had more than the
  margin left when it was taken (`TicketInv`); the rest is arithmetic.
  `ReportedIsDoneAlways`: what Google answered with success is in the calendar
  before the answer is on its way, and nothing takes it out (`CalendarInv`).
* `TeamProofs!TypeCorrect`: no row without processes that was not inserted, and
  no run without a start (`TeamInv`), for any number of rows.
  `SettledStaysSettledAlways` follows from it action by action: a settled row is
  in none of the three queries and has nobody left to touch it.
* `StuckMeansSilentAlways`: the columns the poll reads are tied to the history
  of the round by `RoundInv`: `started_at` is the beginning of the present round,
  and once the owner has heard of it `last_human_update_at` is when that was
  (`Truthful`); until then that column may be an earlier round's. It is kept
  by whatever begins a round, tells the owner, ages the table or leaves both
  alone. Only the poll of stuck runs adds to its calls, all others can but end
  (`FewerCalls`), and what it selects (`StuckSelected`) is old by `RoundInv`
  unless the column is an earlier round's.
* `TeamProofs!ServerTypeCorrect`, `LostOnlyToLaunchAlways`: a call that has
  passed the port check had seen nothing on its port, nobody looks twice
  (`Checked`), and what was launched has been called (`LaunchedOnce`); so the
  launch that takes the place of a running process is for another port or looked
  before it was there, and Stop forgets a process only once it has ended.
* `HolderReapsAlways`, the safety half of `WatcherFinishes`, is inductive with
  the types: the mutex is taken only when it is free, in the step that sends
  SIGTERM, and a launch, which would replace the command, waits for it too.

Only model-checked: all liveness, which like `ENABLED` is outside the prover's
reach: `Returns`, `ListenedAnswered`, `WaitingRowNudged`,
`NobodyWaitsForClients`, `WatcherFinishes`, `WaiterServed`. The two violated properties have counterexamples
instead. Every invariant and every action property of the passing runs is
proved.

## 5. Not modelled, and why

* The tool policy (`agent/policy.go`) and the Home Assistant tools: tables,
  looked up without state; their tests enumerate the first, and the second
  validates its input against the table it uses.
* The Slack and debug tools, the MCP transport, the dashboard's pages and its
  list of processes, configuration, logging, the schema and the test support:
  they read, format or forward, and keep nothing that could be found in a wrong
  order.
* Of the intake: the cache of user names (`slack.go:166`), written by the
  goroutines without a lock. Go ends the process when it notices two writes at
  once; the model has that outcome, a `Restart` before the message is saved,
  not the map.
* Of the team: the tools that only read, `triage_start` (an Angela without a
  row), columns no query acts upon, and `bugfix_start` of an id that does not
  exist, which spawns a Darryl without an issue and changes no row.
* Of the dev tools: `upload_screenshot`, two calls of `gh` and no state.
* Of the dashboard: how a run's page puts its log and its stream together. A
  line is published before it is in the log (`main.go:169-171`), and the page
  replaces what the stream has brought by the log it fetches, so a line may be
  missing or be there twice; what is modelled is that the stream itself is in
  order and complete.
* The text of prompts is taken only for which tools an agent may call.

## 6. Plan

Every component with state is modelled, but for the pieces named in section 5,
and the safety that the runs check is proved. What is left:

1. Abstract specifications that are so far told in prose and could be stated
   and proved as `Gate` is: what `SlackIntake` takes for granted of the agent,
   and what `Agent` takes for granted of the runner.
2. The safety half of `WaitingRowNudged`, which says little without the
   fairness. The liveness itself stays with TLC.
