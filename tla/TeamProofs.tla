------------------------------- MODULE TeamProofs ------------------------------
(***************************************************************************)
(* Proofs about the two components that launch processes for others: the   *)
(* bug-fixing team (Bugfix), for any number of rows, and the dev server    *)
(* (DevServer), for any number of calls and any apps.  They share no state *)
(* and no name; each theorem is about the specification of one of them.    *)
(***************************************************************************)
EXTENDS Bugfix, DevServer, TLAPS

-------------------------------------------------------------------------------
(* The bug-fixing team, for any number of rows.                               *)

RowTypes ==
    /\ rows \in [Ids -> Row]
    /\ \A i \in Ids : rows[i].status = "running" => rows[i].started # "null"
ProcTypes ==
    /\ angela \in [Ids -> BOOLEAN] /\ darryl \in [Ids -> 0..MaxDarryls]
    /\ \A i \in Ids : rows[i].status = "none" => ~angela[i] /\ darryl[i] = 0
CallTypes ==
    /\ kevin \in [Ids \X Kinds -> 0..MaxNudges]
    /\ orch \in {"resume", "waiting", "reviews", "runs"}
TeamInv == RowTypes /\ ProcTypes /\ CallTypes

\* Before anything is written a row is blank.
LEMMA BlankRow == Blank \in Row
  BY DEF Blank, Row, Statuses, Ages

\* One statement on one row, as the tools make them: a row that runs has a
\* start, and none is deleted.
OneRow(i, row) ==
    /\ rows' = [rows EXCEPT ![i] = row] /\ row \in Row
    /\ row.status = "running" => row.started # "null"
    /\ row.status = "none" => rows[i].status = "none"

\* What a tool call about row i may do to the rest.
OneProc(i) ==
    /\ angela' \in [Ids -> BOOLEAN] /\ darryl' \in [Ids -> 0..MaxDarryls]
    /\ \A k \in Ids : k # i => angela'[k] = angela[k] /\ darryl'[k] = darryl[k]
    /\ rows'[i].status = "none" => angela'[i] = angela[i] /\ darryl'[i] = darryl[i]

\* Kevin's calls can only become fewer.
FewerCalls ==
    /\ kevin' \in [Ids \X Kinds -> 0..MaxNudges]
    /\ \A c \in Ids \X Kinds : kevin'[c] <= kevin[c]

\* A statement keeps the types of the rows.
LEMMA RowWritten ==
  ASSUME TeamInv, NEW i \in Ids, NEW row, OneRow(i, row)
  PROVE  /\ RowTypes' /\ rows'[i] = row
         /\ \A k \in Ids : k # i => rows'[k] = rows[k]
  BY DEF TeamInv, RowTypes, OneRow

\* And with it those of the processes.
LEMMA RowAndProc ==
  ASSUME TeamInv, NEW i \in Ids, NEW row, OneRow(i, row), OneProc(i)
  PROVE  RowTypes' /\ ProcTypes'
  <1>1. /\ RowTypes' /\ rows'[i] = row
        /\ \A k \in Ids : k # i => rows'[k] = rows[k]
    BY RowWritten
  <1>2. ASSUME NEW k \in Ids, rows'[k].status = "none"
        PROVE  ~angela'[k] /\ darryl'[k] = 0
    <2>1. angela'[k] = angela[k] /\ darryl'[k] = darryl[k]
      BY <1>2 DEF OneProc
    <2>2. rows[k].status = "none"
      BY <1>1, <1>2 DEF OneRow
    <2>3. QED
      BY <2>1, <2>2 DEF TeamInv, ProcTypes
  <1>3. QED
    BY <1>1, <1>2 DEF ProcTypes, OneProc

\* bugfix_start writes a row that runs, and adds a Darryl to it.
LEMMA StartWrites ==
  ASSUME TeamInv, NEW i \in Ids, Start(i)
  PROVE  /\ \E row : OneRow(i, row) /\ row.status = "running"
         /\ darryl' \in [Ids -> 0..MaxDarryls]
         /\ \A k \in Ids : k # i => darryl'[k] = darryl[k]
  <1>1. rows \in [Ids -> Row] /\ darryl \in [Ids -> 0..MaxDarryls]
    BY DEF TeamInv, RowTypes, ProcTypes
  <1> DEFINE row == [rows[i] EXCEPT !.status = "running", !.started = "fresh"]
  <1>2. row \in Row /\ row.status = "running" /\ row.started = "fresh"
    BY <1>1 DEF Row, Statuses, Ages
  <1>3. rows' = [rows EXCEPT ![i] = row]
    BY DEF Start, Write
  <1>4. OneRow(i, row) /\ row.status = "running"
    BY <1>2, <1>3 DEF OneRow
  <1>5. darryl' = [darryl EXCEPT ![i] = @ + 1] /\ darryl[i] < MaxDarryls
    BY DEF Start
  <1>6. darryl' \in [Ids -> 0..MaxDarryls]
    BY <1>1, <1>5, BugfixAssumption
  <1>7. QED
    BY <1>1, <1>4, <1>5, <1>6

\* bugfix_create and bugfix_assess insert a row, and the latter an Angela.
LEMMA InsertTypes ==
  ASSUME TeamInv, NEW i \in Ids, Create(i) \/ KevinAsked(i)
  PROVE  RowTypes' /\ ProcTypes'
  <1> DEFINE created == [Blank EXCEPT !.status = "running", !.started = "fresh"]
             assessed == [Blank EXCEPT !.status = "assessing"]
  <1>1. /\ created \in Row /\ created.status = "running"
        /\ created.started = "fresh"
        /\ assessed \in Row /\ assessed.status = "assessing"
    BY DEF Blank, Row, Statuses, Ages
  <1>2. CASE Create(i)
    <2>1. rows' = [rows EXCEPT ![i] = created] /\ UNCHANGED <<angela, darryl>>
      BY <1>2 DEF Create, Insert, Write, procs
    <2>2. OneRow(i, created) /\ OneProc(i)
      BY <1>1, <2>1 DEF OneRow, OneProc, TeamInv, ProcTypes
    <2>3. QED
      BY <2>2, RowAndProc
  <1>3. CASE KevinAsked(i)
    <2>1. /\ rows' = [rows EXCEPT ![i] = assessed]
          /\ angela' = [angela EXCEPT ![i] = TRUE] /\ UNCHANGED darryl
      BY <1>3 DEF KevinAsked, Assess, Insert, Write
    <2>2. OneRow(i, assessed)
      BY <1>1, <2>1 DEF OneRow
    <2>3. rows'[i] = assessed
      BY <2>2, RowWritten
    <2>4. OneProc(i)
      BY <1>1, <2>1, <2>3 DEF OneProc, TeamInv, ProcTypes
    <2>5. QED
      BY <2>2, <2>4, RowAndProc
  <1>4. QED
    BY <1>2, <1>3

\* bugfix_update with a status, a PR, a merge or a message to the owner.
LEMMA UpdateWrites ==
  ASSUME TeamInv, NEW i \in Ids
  PROVE  /\ \A s \in Statuses \ {"none", "running"} :
                Update(i, SetStatus(i, s)) =>
                    \E row : OneRow(i, row) /\ row.status = s
         /\ Update(i, [rows[i] EXCEPT !.pr = TRUE]) => \E row : OneRow(i, row)
         /\ Tells(i) => \E row : OneRow(i, row)
         /\ Update(i, [SetStatus(i, "done") EXCEPT !.merged = TRUE]) =>
                \E row : OneRow(i, row) /\ row.status = "done"
  <1>1. /\ rows[i] \in Row
        /\ rows[i].status = "running" => rows[i].started # "null"
    BY DEF TeamInv, RowTypes
  <1>2. ASSUME NEW s \in Statuses \ {"none", "running"},
               Update(i, SetStatus(i, s))
        PROVE  \E row : OneRow(i, row) /\ row.status = s
    <2> DEFINE row == [rows[i] EXCEPT !.status = s]
    <2>1. row \in Row /\ row.status = s
      BY <1>1 DEF Row
    <2>2. rows' = [rows EXCEPT ![i] = row]
      BY <1>2 DEF Update, SetStatus, Write
    <2>3. OneRow(i, row)
      BY <2>1, <2>2 DEF OneRow
    <2>4. QED
      BY <2>1, <2>3
  <1>3. ASSUME Update(i, [rows[i] EXCEPT !.pr = TRUE])
        PROVE  \E row : OneRow(i, row)
    <2> DEFINE row == [rows[i] EXCEPT !.pr = TRUE]
    <2>1. row \in Row /\ row.status = rows[i].status /\ row.started = rows[i].started
      BY <1>1 DEF Row
    <2>2. rows' = [rows EXCEPT ![i] = row]
      BY <1>3 DEF Update, Write
    <2>3. OneRow(i, row)
      BY <1>1, <2>1, <2>2 DEF OneRow
    <2>4. QED
      BY <2>3
  <1>4. ASSUME Tells(i)
        PROVE  \E row : OneRow(i, row)
    <2> DEFINE row == [rows[i] EXCEPT !.human = "fresh"]
    <2>1. row \in Row /\ row.status = rows[i].status /\ row.started = rows[i].started
      BY <1>1 DEF Row, Ages
    <2>2. rows' = [rows EXCEPT ![i] = row]
      BY <1>4 DEF Tells, Write
    <2>3. OneRow(i, row)
      BY <1>1, <2>1, <2>2 DEF OneRow
    <2>4. QED
      BY <2>3
  <1>5. ASSUME Update(i, [SetStatus(i, "done") EXCEPT !.merged = TRUE])
        PROVE  \E row : OneRow(i, row) /\ row.status = "done"
    <2> DEFINE closed == [rows[i] EXCEPT !.status = "done"]
               row == [closed EXCEPT !.merged = TRUE]
    <2>1. closed \in Row /\ closed.status = "done"
      BY <1>1 DEF Row, Statuses
    <2>2. rows' = [rows EXCEPT ![i] = row]
      BY <1>5 DEF Update, SetStatus, Write
    <2> HIDE DEF closed
    <2>3. row \in Row /\ row.status = "done"
      BY <2>1 DEF Row
    <2>4. OneRow(i, row)
      BY <2>2, <2>3 DEF OneRow
    <2>5. QED
      BY <2>3, <2>4
  <1>6. QED
    BY <1>2, <1>3, <1>4, <1>5

\* What the agents do by themselves: they update their row, start a Darryl or
\* end, and Kevin is not called.
LEMMA WorkerTypes ==
  ASSUME TeamInv, NEW i \in Ids,
         \/ AngelaPasses(i) \/ AngelaRejects(i) \/ AngelaDies(i)
         \/ DarrylWorks(i) \/ DarrylExits(i)
  PROVE  RowTypes' /\ ProcTypes'
  <1>1. /\ angela \in [Ids -> BOOLEAN] /\ darryl \in [Ids -> 0..MaxDarryls]
        /\ rows[i].status = "none" => ~angela[i] /\ darryl[i] = 0
    BY DEF TeamInv, ProcTypes
  <1>2. CASE AngelaPasses(i)
    <2>1. Start(i) /\ angela' = [angela EXCEPT ![i] = FALSE] /\ angela[i]
      BY <1>2 DEF AngelaPasses
    <2>2. PICK row : OneRow(i, row) /\ row.status = "running"
      BY <2>1, StartWrites
    <2>3. rows'[i] = row
      BY <2>2, RowWritten
    <2>4. OneProc(i)
      BY <1>1, <2>1, <2>2, <2>3, StartWrites DEF OneProc
    <2>5. QED
      BY <2>2, <2>4, RowAndProc
  <1>3. CASE AngelaRejects(i)
    <2>1. /\ Update(i, SetStatus(i, "failed")) /\ UNCHANGED darryl
          /\ angela' = [angela EXCEPT ![i] = FALSE]
      BY <1>3 DEF AngelaRejects, Update
    <2>2. "failed" \in Statuses \ {"none", "running"}
      BY DEF Statuses
    <2>3. PICK row : OneRow(i, row) /\ row.status = "failed"
      BY <2>1, <2>2, UpdateWrites
    <2>4. rows'[i] = row
      BY <2>3, RowWritten
    <2>5. OneProc(i)
      BY <1>1, <2>1, <2>3, <2>4 DEF OneProc
    <2>6. QED
      BY <2>3, <2>5, RowAndProc
  <1>4. CASE DarrylWorks(i)
    <2>1. "review" \in Statuses \ {"none", "running"}
          /\ "stuck" \in Statuses \ {"none", "running"}
      BY DEF Statuses
    <2>2. PICK row : OneRow(i, row)
      BY <1>4, <2>1, UpdateWrites DEF DarrylWorks
    <2>3. UNCHANGED <<angela, darryl>>
      BY <1>4 DEF DarrylWorks, Update, Tells
    <2>4. QED
      BY <1>1, <2>2, <2>3, RowAndProc DEF OneProc
  <1>5. CASE AngelaDies(i) \/ DarrylExits(i)
    <2>1. UNCHANGED rows
      BY <1>5 DEF AngelaDies, DarrylExits
    <2>2. RowTypes'
      BY <2>1 DEF TeamInv, RowTypes
    <2>3. /\ angela' \in [Ids -> BOOLEAN] /\ darryl' \in [Ids -> 0..MaxDarryls]
          /\ \A k \in Ids : angela'[k] => angela[k]
          /\ \A k \in Ids : darryl[k] = 0 => darryl'[k] = 0
      <3>1. CASE AngelaDies(i)
        BY <1>1, <3>1 DEF AngelaDies
      <3>2. CASE DarrylExits(i)
        BY <1>1, <3>2, BugfixAssumption DEF DarrylExits
      <3>3. QED
        BY <1>5, <3>1, <3>2
    <2>4. QED
      BY <2>1, <2>2, <2>3 DEF TeamInv, ProcTypes
  <1>6. QED
    BY <1>2, <1>3, <1>4, <1>5

\* What Kevin does when he is called: a start, an update, or nothing.
LEMMA KevinTypes ==
  ASSUME TeamInv, NEW i \in Ids,
         \/ KevinRespawns(i) \/ KevinReviews(i) \/ KevinChecks(i)
         \/ \E kind \in Kinds : KevinDrops(i, kind)
  PROVE  RowTypes' /\ ProcTypes'
  <1>1. /\ angela \in [Ids -> BOOLEAN] /\ darryl \in [Ids -> 0..MaxDarryls]
        /\ rows[i].status = "none" => ~angela[i] /\ darryl[i] = 0
    BY DEF TeamInv, ProcTypes
  <1>2. ASSUME Start(i), UNCHANGED angela
        PROVE  RowTypes' /\ ProcTypes'
    <2>1. PICK row : OneRow(i, row) /\ row.status = "running"
      BY <1>2, StartWrites
    <2>2. rows'[i] = row
      BY <2>1, RowWritten
    <2>3. OneProc(i)
      BY <1>1, <1>2, <2>1, <2>2, StartWrites DEF OneProc
    <2>4. QED
      BY <2>1, <2>3, RowAndProc
  <1>3. ASSUME NEW row, OneRow(i, row), UNCHANGED <<angela, darryl>>
        PROVE  RowTypes' /\ ProcTypes'
    BY <1>1, <1>3, RowAndProc DEF OneProc
  <1>4. CASE KevinRespawns(i)
    BY <1>2, <1>4 DEF KevinRespawns
  <1>5. CASE KevinReviews(i)
    <2>1. UNCHANGED angela
      BY <1>5 DEF KevinReviews
    <2>2. CASE Start(i)
      BY <1>2, <2>1, <2>2
    <2>3. CASE Update(i, [SetStatus(i, "done") EXCEPT !.merged = TRUE])
      <3>1. PICK row : OneRow(i, row)
        BY <2>3, UpdateWrites
      <3>2. UNCHANGED darryl
        BY <2>3 DEF Update
      <3>3. QED
        BY <1>3, <2>1, <3>1, <3>2
    <2>4. QED
      BY <1>5, <2>2, <2>3 DEF KevinReviews
  <1>6. CASE KevinChecks(i)
    <2>1. UNCHANGED angela
      BY <1>6 DEF KevinChecks
    <2>2. CASE Start(i)
      BY <1>2, <2>1, <2>2
    <2>3. CASE Update(i, SetStatus(i, "stuck")) \/ Tells(i)
      <3>1. "stuck" \in Statuses \ {"none", "running"}
        BY DEF Statuses
      <3>2. PICK row : OneRow(i, row)
        BY <2>3, <3>1, UpdateWrites
      <3>3. UNCHANGED darryl
        BY <2>3 DEF Update, Tells
      <3>4. QED
        BY <1>3, <2>1, <3>2, <3>3
    <2>4. QED
      BY <1>6, <2>2, <2>3 DEF KevinChecks
  <1>7. CASE \E kind \in Kinds : KevinDrops(i, kind)
    <2>1. UNCHANGED <<rows, angela, darryl>>
      BY <1>7 DEF KevinDrops, procs
    <2>2. QED
      BY <2>1 DEF TeamInv, RowTypes, ProcTypes
  <1>8. QED
    BY <1>4, <1>5, <1>6, <1>7

\* An agent's step makes Kevin's calls fewer, if it touches them at all, and
\* only those about its own row, but for the call about all rows at once.
LEMMA AgentCalls ==
  ASSUME TeamInv, NEW i \in Ids, Agents(i)
  PROVE  CallTypes' /\ FewerCalls
  <1>1. kevin \in [Ids \X Kinds -> 0..MaxNudges] /\ MaxNudges \in Nat
    BY BugfixAssumption DEF TeamInv, CallTypes
  <1>2. ASSUME NEW kind \in Kinds, Asked(i, kind)
        PROVE  FewerCalls /\ UNCHANGED orch
    BY <1>1, <1>2 DEF Asked, FewerCalls
  <1>3. ASSUME NEW kind \in Kinds, KevinDrops(i, kind)
        PROVE  FewerCalls /\ UNCHANGED orch
    BY <1>1, <1>3 DEF KevinDrops, FewerCalls
  <1>4. ASSUME UNCHANGED <<kevin, orch>>
        PROVE  FewerCalls /\ UNCHANGED orch
    BY <1>1, <1>4 DEF FewerCalls
  <1>5. "resume" \in Kinds /\ "review" \in Kinds /\ "stuck" \in Kinds
    BY DEF Kinds
  <1>6. FewerCalls /\ UNCHANGED orch
    <2>1. CASE KevinRespawns(i) \/ KevinReviews(i) \/ KevinChecks(i)
      BY <1>2, <1>5, <2>1 DEF KevinRespawns, KevinReviews, KevinChecks
    <2>2. CASE \/ Create(i) \/ KevinAsked(i)
               \/ AngelaPasses(i) \/ AngelaRejects(i) \/ AngelaDies(i)
               \/ DarrylWorks(i) \/ DarrylExits(i)
      BY <1>4, <2>2 DEF Create, KevinAsked, AngelaPasses,
        AngelaRejects, AngelaDies, DarrylWorks, DarrylExits
    <2>3. QED
      BY <1>3, <2>1, <2>2 DEF Agents
  <1>7. QED
    BY <1>6 DEF CallTypes, TeamInv, FewerCalls

\* The orchestrator only makes Kevin's calls more, and for the rows it selects.
LEMMA NudgeTypes ==
  ASSUME TeamInv, NEW kind \in Kinds, NEW S \in SUBSET Ids,
         Nudge(kind, S)
  PROVE  /\ kevin' \in [Ids \X Kinds -> 0..MaxNudges]
         /\ \A i \in Ids, k \in Kinds :
                kevin'[<<i, k>>] # kevin[<<i, k>>] => k = kind /\ i \in S
  <1>1. kevin \in [Ids \X Kinds -> 0..MaxNudges] /\ MaxNudges \in Nat
    BY BugfixAssumption DEF TeamInv, CallTypes
  <1>2. \A c \in Ids \X Kinds :
            kevin'[c] = IF c[1] \in S /\ c[2] = kind THEN kevin[c] + 1 ELSE kevin[c]
    BY DEF Nudge
  <1>3. \A c \in Ids \X Kinds :
            c[1] \in S /\ c[2] = kind => kevin[c] < MaxNudges
    BY DEF Nudge
  <1>4. \A c \in Ids \X Kinds : kevin'[c] \in 0..MaxNudges
    BY <1>1, <1>2, <1>3
  <1>5. kevin' = [c \in Ids \X Kinds |-> kevin'[c]]
    BY DEF Nudge
  <1>6. QED
    BY <1>2, <1>4, <1>5

\* The orchestrator's loop leaves the rows and the processes alone.
LEMMA OrchestratorTypes ==
  ASSUME TeamInv, Orchestrator
  PROVE  TeamInv'
  <1>1. UNCHANGED <<rows, angela, darryl>>
        /\ orch' \in {"resume", "waiting", "reviews", "runs"}
    BY DEF Orchestrator, Resume, Wake, CheckReviewPRs,
      CheckStuckRuns, QueryFails, Moves, procs
  <1>2. \/ UNCHANGED kevin
        \/ Nudge("resume", Unfinished)
        \/ Nudge("review", ReviewRows)
        \/ Nudge("stuck", StuckRows)
    BY DEF Orchestrator, Resume, Wake, CheckReviewPRs,
      CheckStuckRuns, QueryFails
  <1>3. /\ "resume" \in Kinds /\ "review" \in Kinds /\ "stuck" \in Kinds
        /\ Unfinished \subseteq Ids /\ ReviewRows \subseteq Ids
        /\ StuckRows \subseteq Ids
    BY DEF Kinds, Unfinished, ReviewRows, StuckRows
  <1>4. kevin' \in [Ids \X Kinds -> 0..MaxNudges]
    <2>1. CASE UNCHANGED kevin
      BY <2>1 DEF TeamInv, CallTypes
    <2>2. QED
      BY <1>2, <1>3, <2>1, NudgeTypes
  <1>5. QED
    BY <1>1, <1>4 DEF TeamInv, RowTypes, ProcTypes, CallTypes

\* Time only makes timestamps older.
LEMMA TickTypes ==
  ASSUME TeamInv, Tick
  PROVE  TeamInv' /\ \A i \in Ids : rows'[i].status = rows[i].status
  <1>1. UNCHANGED <<angela, darryl, kevin, orch>>
    BY DEF Tick, procs
  <1>2. ASSUME NEW i \in Ids
        PROVE  /\ rows'[i] \in Row /\ rows'[i].status = rows[i].status
               /\ rows[i].started # "null" => rows'[i].started # "null"
    <2> DEFINE older == [rows[i] EXCEPT !.human = Aged(@)]
               aged == [older EXCEPT !.started = Aged(@)]
    <2>1. \A t \in Ages : Aged(t) \in Ages /\ (t # "null" => Aged(t) # "null")
      BY DEF Ages, Aged
    <2>2. rows[i] \in Row
      BY DEF TeamInv, RowTypes
    <2>3. /\ older \in Row /\ older.status = rows[i].status
          /\ older.started = rows[i].started
      BY <2>1, <2>2 DEF Row
    <2>4. rows'[i] = aged
      BY DEF Tick
    <2> HIDE DEF older
    <2>5. /\ aged \in Row /\ aged.status = older.status
          /\ aged.started = Aged(older.started) /\ older.started \in Ages
      BY <2>1, <2>3 DEF Row
    <2>6. QED
      BY <2>1, <2>3, <2>4, <2>5
  <1>3. rows' = [i \in Ids |-> rows'[i]]
    BY DEF Tick
  <1>4. RowTypes'
    BY <1>2, <1>3 DEF TeamInv, RowTypes
  <1>5. QED
    BY <1>1, <1>2, <1>4 DEF TeamInv, ProcTypes, CallTypes

\* A restart leaves the rows, and nobody who works on them.
LEMMA RestartTypes ==
  ASSUME TeamInv, Restart
  PROVE  TeamInv'
  BY BugfixAssumption DEF TeamInv, RowTypes, ProcTypes, CallTypes, Restart

\* Every step keeps the types.
LEMMA TeamNext ==
  ASSUME TeamInv, [Next]_vars
  PROVE  TeamInv'
  <1>1. ASSUME NEW i \in Ids, Agents(i)
        PROVE  TeamInv'
    <2>1. RowTypes' /\ ProcTypes'
      BY <1>1, InsertTypes, WorkerTypes, KevinTypes DEF Agents
    <2>2. QED
      BY <1>1, <2>1, AgentCalls DEF TeamInv
  <1>2. CASE UNCHANGED vars
    BY <1>2 DEF TeamInv, RowTypes, ProcTypes, CallTypes, vars, procs
  <1>3. QED
    BY <1>1, <1>2, OrchestratorTypes, TickTypes, RestartTypes DEF Next

\* There are no rows at first.
LEMMA TeamInit ==
  ASSUME Init
  PROVE  TeamInv
  BY BlankRow, BugfixAssumption DEF TeamInv, RowTypes, ProcTypes, CallTypes, Init, Blank

\* What the columns of a running row say of its present round: when it began,
\* and, once the owner has heard of it, when that was.
Truthful(i) ==
    /\ rows[i].started = begun[i]
    /\ said[i] # "null" => rows[i].human = said[i]
    /\ said[i] = "old" => begun[i] = "old"
RoundInv ==
    /\ begun \in [Ids -> Ages] /\ said \in [Ids -> Ages]
    /\ \A i \in Ids : rows[i].status = "running" => Truthful(i)

\* A step about row i that leaves the history alone keeps RoundInv if the row
\* does not run after it, or its timestamps are what they were.
LEMMA RoundUntold ==
  ASSUME TeamInv, RoundInv, NEW i \in Ids, NEW row, UNCHANGED round,
         rows' = [rows EXCEPT ![i] = row],
         row.status = "running" =>
             /\ rows[i].status = "running"
             /\ row.started = rows[i].started /\ row.human = rows[i].human
  PROVE  RoundInv'
  BY DEF TeamInv, RowTypes, RoundInv, Truthful, round

\* A round that begins is stamped, and nothing was said of it.
LEMMA RoundBegins ==
  ASSUME TeamInv, RoundInv, NEW i \in Ids, NEW row, Begins(i),
         rows' = [rows EXCEPT ![i] = row], row.started = "fresh"
  PROVE  RoundInv'
  BY DEF TeamInv, RowTypes, RoundInv, Truthful, Begins, Ages

\* A message to the owner is stamped.
LEMMA RoundTold ==
  ASSUME TeamInv, RoundInv, NEW i \in Ids, Tells(i)
  PROVE  RoundInv'
  <1> DEFINE row == [rows[i] EXCEPT !.human = "fresh"]
  <1>1. /\ row.human = "fresh" /\ row.started = rows[i].started
        /\ row.status = rows[i].status
    BY DEF TeamInv, RowTypes, Row
  <1>2. /\ rows' = [rows EXCEPT ![i] = row] /\ UNCHANGED begun
        /\ said' = [said EXCEPT ![i] = "fresh"]
    BY DEF Tells, Write
  <1> HIDE DEF row
  <1>3. QED
    BY <1>1, <1>2 DEF TeamInv, RowTypes, RoundInv, Truthful, Ages

\* Time passes for the columns as it does for the round.
LEMMA RoundAges ==
  ASSUME TeamInv, RoundInv, Tick
  PROVE  RoundInv'
  <1>1. ASSUME NEW i \in Ids
        PROVE  /\ rows'[i].status = rows[i].status
               /\ rows'[i].human = Aged(rows[i].human)
               /\ rows'[i].started = Aged(rows[i].started)
    <2> DEFINE older == [rows[i] EXCEPT !.human = Aged(@)]
    <2>1. /\ older.status = rows[i].status /\ older.started = rows[i].started
          /\ older.human = Aged(rows[i].human)
          /\ older \in Row
      BY DEF TeamInv, RowTypes, Row, Aged, Ages
    <2>2. rows'[i] = [older EXCEPT !.started = Aged(older.started)]
      BY <2>1 DEF Tick
    <2> HIDE DEF older
    <2>3. QED
      BY <2>1, <2>2 DEF Row
  <1>2. \A i \in Ids : begun'[i] = Aged(begun[i]) /\ said'[i] = Aged(said[i])
    BY DEF Tick
  <1>3. begun' \in [Ids -> Ages] /\ said' \in [Ids -> Ages]
    BY DEF Tick, RoundInv, Aged, Ages
  <1>4. ASSUME NEW i \in Ids, rows'[i].status = "running" PROVE Truthful(i)'
    <2>1. Truthful(i) /\ rows[i].started # "null" /\ begun[i] \in Ages
      BY <1>1, <1>4 DEF TeamInv, RowTypes, RoundInv
    <2>2. QED
      BY <1>1, <1>2, <2>1 DEF Truthful, Aged, Ages
  <1>5. QED
    BY <1>3, <1>4 DEF RoundInv

\* The agents begin a round, tell the owner, or touch no timestamp.
LEMMA RoundAgents ==
  ASSUME TeamInv, RoundInv, NEW i \in Ids, Agents(i)
  PROVE  RoundInv'
  <1>1. rows[i] \in Row
    BY DEF TeamInv, RowTypes
  <1>2. ASSUME Start(i) PROVE RoundInv'
    <2> DEFINE row == [rows[i] EXCEPT !.status = "running", !.started = "fresh"]
    <2>1. rows' = [rows EXCEPT ![i] = row] /\ Begins(i)
      BY <1>2 DEF Start, Write
    <2>2. row.started = "fresh"
      BY <1>1 DEF Row
    <2>3. QED
      BY <2>1, <2>2, RoundBegins
  <1>3. ASSUME NEW s \in {"failed", "review", "stuck"}, Update(i, SetStatus(i, s))
        PROVE  RoundInv'
    <2> DEFINE row == [rows[i] EXCEPT !.status = s]
    <2>1. rows' = [rows EXCEPT ![i] = row] /\ UNCHANGED round
      BY <1>3 DEF Update, SetStatus, Write
    <2>2. row.status # "running"
      BY <1>1 DEF Row
    <2>3. QED
      BY <2>1, <2>2, RoundUntold
  <1>4. ASSUME Update(i, [rows[i] EXCEPT !.pr = TRUE]) PROVE RoundInv'
    <2> DEFINE row == [rows[i] EXCEPT !.pr = TRUE]
    <2>1. rows' = [rows EXCEPT ![i] = row] /\ UNCHANGED round
      BY <1>4 DEF Update, Write
    <2>2. /\ row.status = rows[i].status /\ row.started = rows[i].started
          /\ row.human = rows[i].human
      BY <1>1 DEF Row
    <2>3. QED
      BY <2>1, <2>2, RoundUntold
  <1>5. ASSUME Update(i, [SetStatus(i, "done") EXCEPT !.merged = TRUE]) PROVE RoundInv'
    <2> DEFINE closed == [rows[i] EXCEPT !.status = "done"]
               row == [closed EXCEPT !.merged = TRUE]
    <2>1. closed \in Row /\ closed.status = "done"
      BY <1>1 DEF Row, Statuses
    <2>2. rows' = [rows EXCEPT ![i] = row] /\ UNCHANGED round
      BY <1>5 DEF Update, SetStatus, Write
    <2> HIDE DEF closed
    <2>3. row.status = "done"
      BY <2>1 DEF Row
    <2>4. QED
      BY <2>2, <2>3, RoundUntold
  <1>6. CASE Create(i)
    <2> DEFINE row == [Blank EXCEPT !.status = "running", !.started = "fresh"]
    <2>1. rows' = [rows EXCEPT ![i] = row] /\ Begins(i)
      BY <1>6 DEF Create, Insert, Write
    <2>2. row.started = "fresh"
      BY DEF Blank
    <2>3. QED
      BY <2>1, <2>2, RoundBegins
  <1>7. CASE KevinAsked(i)
    <2> DEFINE row == [Blank EXCEPT !.status = "assessing"]
    <2>1. rows' = [rows EXCEPT ![i] = row] /\ UNCHANGED round
      BY <1>7 DEF KevinAsked, Assess, Insert, Write
    <2>2. row.status # "running"
      BY DEF Blank
    <2>3. QED
      BY <2>1, <2>2, RoundUntold
  <1>8. CASE AngelaDies(i) \/ DarrylExits(i) \/ \E kind \in Kinds : KevinDrops(i, kind)
    <2>1. UNCHANGED <<rows, begun, said>>
      BY <1>8 DEF AngelaDies, DarrylExits, KevinDrops, round
    <2>2. QED
      BY <2>1 DEF RoundInv, Truthful
  <1>9. CASE AngelaPasses(i) \/ KevinRespawns(i)
    BY <1>2, <1>9 DEF AngelaPasses, KevinRespawns
  <1>10. CASE AngelaRejects(i) \/ DarrylWorks(i)
    BY <1>3, <1>4, <1>10, RoundTold DEF AngelaRejects, DarrylWorks
  <1>11. CASE KevinReviews(i) \/ KevinChecks(i)
    BY <1>2, <1>3, <1>5, <1>11, RoundTold DEF KevinReviews, KevinChecks
  <1>12. QED
    BY <1>6, <1>7, <1>8, <1>9, <1>10, <1>11 DEF Agents

\* Every step keeps the columns truthful.
LEMMA RoundNext ==
  ASSUME TeamInv, RoundInv, [Next]_vars
  PROVE  RoundInv'
  <1>1. CASE Orchestrator \/ Restart \/ UNCHANGED vars
    <2>1. UNCHANGED <<rows, begun, said>>
      BY <1>1 DEF Orchestrator, Resume, Wake, CheckReviewPRs,
        CheckStuckRuns, QueryFails, Moves, Restart, vars, round
    <2>2. QED
      BY <2>1 DEF RoundInv, Truthful
  <1>2. QED
    BY <1>1, RoundAges, RoundAgents DEF Next

\* There is no row and no round at first.
LEMMA RoundInit ==
  ASSUME Init
  PROVE  RoundInv
  BY DEF Init, Blank, RoundInv, Ages

\* Every variable has its type, only a row that was inserted has processes, and
\* one that runs has a start to be measured by (bugfix.go:81, :354).
THEOREM TypeCorrect == Spec => []TypeOK
  <1>1. Init => TeamInv /\ RoundInv
    BY TeamInit, RoundInit
  <1>2. TeamInv /\ RoundInv /\ [Next]_vars => TeamInv' /\ RoundInv'
    BY TeamNext, RoundNext
  <1>3. TeamInv /\ RoundInv => TypeOK
    BY DEF TeamInv, RowTypes, ProcTypes, CallTypes, RoundInv, TypeOK, Is
  <1>4. QED
    BY <1>1, <1>2, <1>3, PTL DEF Spec

\* Only the poll of stuck runs adds to the calls about them, one for each row it
\* selects.
LEMMA StuckSelected ==
  ASSUME TeamInv, Next, NEW i \in Ids,
         kevin'[<<i, "stuck">>] > kevin[<<i, "stuck">>]
  PROVE  i \in StuckRows
  <1>1. "stuck" \in Kinds /\ <<i, "stuck">> \in Ids \X Kinds
    BY DEF Kinds
  <1>2. kevin[<<i, "stuck">>] \in 0..MaxNudges /\ MaxNudges \in Nat
    BY <1>1, BugfixAssumption DEF TeamInv, CallTypes
  <1>3. ~FewerCalls
    <2>1. ASSUME FewerCalls PROVE FALSE
      <3>1. kevin'[<<i, "stuck">>] \in 0..MaxNudges
            /\ kevin'[<<i, "stuck">>] <= kevin[<<i, "stuck">>]
        BY <1>1, <2>1 DEF FewerCalls
      <3>2. QED
        BY <1>2, <3>1
    <2>2. QED
      BY <2>1
  <1>4. ~UNCHANGED kevin
    BY <1>2
  <1>5. kevin' # [c \in Ids \X Kinds |-> 0]
    BY <1>1, <1>2
  <1>6. Orchestrator
    BY <1>3, <1>4, <1>5, AgentCalls DEF Next, Tick, Restart
  <1>7. \/ Nudge("resume", Unfinished)
        \/ Nudge("review", ReviewRows)
        \/ Nudge("stuck", StuckRows)
    BY <1>4, <1>6 DEF Orchestrator, Resume, Wake,
      CheckReviewPRs, CheckStuckRuns, QueryFails
  <1>8. /\ "resume" \in Kinds /\ "review" \in Kinds
        /\ Unfinished \subseteq Ids /\ ReviewRows \subseteq Ids
        /\ StuckRows \subseteq Ids
    BY DEF Kinds, Unfinished, ReviewRows, StuckRows
  <1>9. kevin'[<<i, "stuck">>] # kevin[<<i, "stuck">>]
    BY <1>2
  <1>10. QED
    BY <1>1, <1>7, <1>8, <1>9, NudgeTypes

\* A run is taken for stuck because nothing was heard of its round for
\* stuckAfter, or because the message of an earlier round hides its start,
\* whatever the agents and restarts did in between (orchestrator.go:163).
THEOREM StuckMeansSilentAlways == Spec => StuckMeansSilent
  <1> DEFINE Silent ==
        \A i \in Ids : kevin'[<<i, "stuck">>] > kevin[<<i, "stuck">>] =>
            \/ begun[i] = "old" /\ said[i] # "fresh"
            \/ Hidden(i)
  <1>1. TeamInv /\ RoundInv /\ [Next]_vars => [Silent]_vars
    <2> SUFFICES ASSUME TeamInv, RoundInv, Next, NEW i \in Ids,
                        kevin'[<<i, "stuck">>] > kevin[<<i, "stuck">>]
                 PROVE  \/ begun[i] = "old" /\ said[i] # "fresh"
                        \/ Hidden(i)
      OBVIOUS
    <2>1. rows[i].status = "running" /\ LastUpdate(rows[i]) = "old"
      BY StuckSelected DEF StuckRows, Is
    <2>2. Truthful(i) /\ said[i] \in Ages
      BY <2>1 DEF RoundInv
    <2>3. CASE rows[i].human = "null"
      BY <2>1, <2>2, <2>3 DEF Truthful, LastUpdate
    <2>4. CASE rows[i].human # "null"
      BY <2>1, <2>2, <2>4 DEF Truthful, LastUpdate, Hidden, Ages
    <2>5. QED
      BY <2>3, <2>4
  <1>2. TeamInv /\ RoundInv /\ [Next]_vars => TeamInv' /\ RoundInv'
    BY TeamNext, RoundNext
  <1>3. Init => TeamInv /\ RoundInv
    BY TeamInit, RoundInit
  <1>4. QED
    BY <1>1, <1>2, <1>3, PTL DEF Spec, StuckMeansSilent

\* A run that is over and left alone is not this step's business: the tools
\* reach it by an agent of its own or a call of Kevin about it, and it has none.
LEMMA AgentsElsewhere ==
  ASSUME TeamInv, NEW i \in Ids, Agents(i),
         NEW j \in Ids, Settled(j)
  PROVE  Settled(j)' /\ rows'[j].status = rows[j].status
  <1>1. /\ rows[j].status \in {"done", "failed"} /\ ~angela[j] /\ darryl[j] = 0
        /\ \A kind \in Kinds : ~(kevin[<<j, kind>>] > 0)
    BY DEF Settled, Is, Watched
  <1>2. kevin \in [Ids \X Kinds -> 0..MaxNudges] /\ MaxNudges \in Nat
        /\ darryl \in [Ids -> 0..MaxDarryls] /\ rows \in [Ids -> Row]
        /\ angela \in [Ids -> BOOLEAN]
    BY BugfixAssumption DEF TeamInv, CallTypes, RowTypes, ProcTypes
  <1>3. ~Watched(j)'
    <2>1. FewerCalls
      BY AgentCalls
    <2>2. ASSUME NEW kind \in Kinds
          PROVE  ~(kevin'[<<j, kind>>] > 0)
      <3>1. <<j, kind>> \in Ids \X Kinds
        OBVIOUS
      <3>2. /\ kevin[<<j, kind>>] \in 0..MaxNudges /\ kevin'[<<j, kind>>] \in 0..MaxNudges
            /\ kevin'[<<j, kind>>] <= kevin[<<j, kind>>]
        BY <1>2, <2>1, <3>1 DEF FewerCalls
      <3>3. QED
        BY <1>1, <1>2, <3>2
    <2>3. QED
      BY <2>2 DEF Watched
  <1>4. CASE i = j
    <2>1. \A kind \in Kinds : ~Asked(j, kind)
      BY <1>1 DEF Asked
    <2>2. "resume" \in Kinds /\ "review" \in Kinds /\ "stuck" \in Kinds
      BY DEF Kinds
    <2>3. FALSE
      <3>1. ~Create(j) /\ ~KevinAsked(j)
        BY <1>1 DEF Create, KevinAsked, Assess, Insert, Is
      <3>2. ~AngelaPasses(j) /\ ~AngelaRejects(j) /\ ~AngelaDies(j)
        BY <1>1 DEF AngelaPasses, AngelaRejects, AngelaDies
      <3>3. ~DarrylWorks(j) /\ ~DarrylExits(j)
        BY <1>1 DEF DarrylWorks, DarrylExits
      <3>4. ~KevinRespawns(j) /\ ~KevinReviews(j) /\ ~KevinChecks(j)
        BY <2>1, <2>2 DEF KevinRespawns, KevinReviews, KevinChecks
      <3>5. \A kind \in Kinds : ~KevinDrops(j, kind)
        BY <1>1 DEF KevinDrops
      <3>6. QED
        BY <1>4, <3>1, <3>2, <3>3, <3>4, <3>5 DEF Agents
    <2>4. QED
      BY <2>3
  <1>5. CASE i # j
    <2>1. rows'[j] = rows[j]
      <3>1. UNCHANGED rows \/ \E row : rows' = [rows EXCEPT ![i] = row]
        BY DEF Agents, Create, KevinAsked, Assess, Insert,
          AngelaPasses, AngelaRejects, AngelaDies, DarrylWorks,
          DarrylExits, KevinRespawns, KevinReviews, KevinChecks,
          KevinDrops, Start, Update, Tells, Write
      <3>2. QED
        BY <1>2, <1>5, <3>1
    <2>2. angela'[j] = angela[j]
      <3>1. \/ UNCHANGED angela \/ angela' = [angela EXCEPT ![i] = TRUE]
            \/ angela' = [angela EXCEPT ![i] = FALSE]
        BY DEF Agents, Create, KevinAsked, Assess, procs,
          AngelaPasses, AngelaRejects, AngelaDies, DarrylWorks,
          DarrylExits, KevinRespawns, KevinReviews, KevinChecks,
          KevinDrops
      <3>2. QED
        BY <1>2, <1>5, <3>1
    <2>3. darryl'[j] = darryl[j]
      <3>1. \/ UNCHANGED darryl \/ darryl' = [darryl EXCEPT ![i] = @ + 1]
            \/ darryl' = [darryl EXCEPT ![i] = @ - 1]
        BY DEF Agents, Create, KevinAsked, Assess, procs,
          AngelaPasses, AngelaRejects, AngelaDies, DarrylWorks,
          DarrylExits, KevinRespawns, KevinReviews, KevinChecks,
          KevinDrops, Start, Update, Tells
      <3>2. QED
        BY <1>2, <1>5, <3>1
    <2>4. QED
      BY <1>1, <1>3, <2>1, <2>2, <2>3 DEF Settled, Is
  <1>6. QED
    BY <1>4, <1>5

\* A run that is over, with no process and no call left from before, is never
\* touched again (orchestrator.go:72, :116, :162).
THEOREM SettledStaysSettledAlways == Spec => SettledStaysSettled
  <1> DEFINE Stays == \A i \in Ids : Settled(i) =>
                          Settled(i)' /\ rows'[i].status = rows[i].status
  <1>1. TeamInv /\ [Next]_vars => [Stays]_vars
    <2> SUFFICES ASSUME TeamInv, Next, NEW i \in Ids, Settled(i)
                 PROVE  Settled(i)' /\ rows'[i].status = rows[i].status
      OBVIOUS
    <2>1. CASE \E k \in Ids : Agents(k)
      BY <2>1, AgentsElsewhere
    <2>2. CASE Orchestrator
      <3>1. UNCHANGED <<rows, angela, darryl>>
        BY <2>2 DEF Orchestrator, Resume, Wake, CheckReviewPRs,
          CheckStuckRuns, QueryFails, Moves, procs
      <3>2. \/ UNCHANGED kevin
            \/ Nudge("resume", Unfinished)
            \/ Nudge("review", ReviewRows)
            \/ Nudge("stuck", StuckRows)
        BY <2>2 DEF Orchestrator, Resume, Wake, CheckReviewPRs,
          CheckStuckRuns, QueryFails
      <3>3. /\ i \notin Unfinished /\ i \notin ReviewRows
            /\ i \notin StuckRows
        BY DEF Settled, Is, Unfinished, ReviewRows, StuckRows
      <3>4. /\ "resume" \in Kinds /\ "review" \in Kinds /\ "stuck" \in Kinds
            /\ Unfinished \subseteq Ids /\ ReviewRows \subseteq Ids
            /\ StuckRows \subseteq Ids
        BY DEF Kinds, Unfinished, ReviewRows, StuckRows
      <3>5. \A kind \in Kinds : kevin'[<<i, kind>>] = kevin[<<i, kind>>]
        <4>1. CASE UNCHANGED kevin
          BY <4>1
        <4>2. QED
          BY <3>2, <3>3, <3>4, <4>1, NudgeTypes
      <3>6. QED
        BY <3>1, <3>5 DEF Settled, Is, Watched
    <2>3. CASE Tick
      <3>1. UNCHANGED <<angela, darryl, kevin>>
        BY <2>3 DEF Tick, procs
      <3>2. QED
        BY <2>3, <3>1, TickTypes DEF Settled, Is, Watched
    <2>4. CASE Restart
      <3>1. UNCHANGED rows /\ ~angela'[i] /\ darryl'[i] = 0
        BY <2>4 DEF Restart
      <3>2. \A kind \in Kinds : kevin'[<<i, kind>>] = 0
        BY <2>4 DEF Restart
      <3>3. QED
        BY <3>1, <3>2 DEF Settled, Is, Watched
    <2>5. QED
      BY <2>1, <2>2, <2>3, <2>4 DEF Next
  <1>2. TeamInv /\ [Next]_vars => TeamInv'
    BY TeamNext
  <1>3. Init => TeamInv
    BY TeamInit
  <1>4. QED
    BY <1>1, <1>2, <1>3, PTL DEF Spec, SettledStaysSettled
-------------------------------------------------------------------------------
(* The dev server, for any number of calls and any apps.                       *)

\* A call that passed the port check has not seen any process on its port, and
\* none that was launched looks at the port again.
Checked ==
    \A c \in Starts : pc[c] \in {"setup", "launch"} =>
        \A d \in Starts : PortOf[d] = PortOf[c] => d \in unseen[c]
LaunchedOnce == \A j \in DOMAIN launched : pc[launched[j]] # "idle"

\* The inductive invariant.
ServerInv == ServerTypeOK /\ Checked /\ LaunchedOnce /\ LostOnlyToLaunch

\* The list of launches is one of calls of Start.
LEMMA LaunchList ==
  ASSUME ServerInv
  PROVE  /\ Len(launched) \in Nat /\ DOMAIN launched = 1..Len(launched)
         /\ launched \in Seq(Starts)
         /\ \A j \in 1..Len(launched) : launched[j] \in Starts
  BY DEF ServerInv, ServerTypeOK

\* Nothing runs at first.
LEMMA InitServer ==
  ASSUME ServerInit
  PROVE  ServerInv
  BY DevServerAssumption DEF ServerInv, ServerInit, ServerTypeOK, Checked, LaunchedOnce,
    LostOnlyToLaunch

\* Without a launch the list of what may have been forgotten stays the same,
\* while processes only end and the remembered one is let go only when it has.
LEMMA NobodyForgotten ==
  ASSUME ServerInv, UNCHANGED <<launched>>,
         \A j \in 1..Len(launched) : unseen'[launched[j]] = unseen[launched[j]],
         \A c \in Starts : Alive(c)' => Alive(c),
         cmd' = cmd \/ \A c \in Starts : c = cmd => ~Alive(c)
  PROVE  LostOnlyToLaunch'
  <1> SUFFICES ASSUME NEW i \in 1..Len(launched),
                      Alive(launched[i])', cmd' # launched[i]
               PROVE  \E j \in i + 1..Len(launched) :
                          \/ PortOf[launched[j]] # PortOf[launched[i]]
                          \/ launched[i] \in unseen'[launched[j]]
    BY LaunchList DEF LostOnlyToLaunch
  <1>1. launched[i] \in Starts /\ Len(launched) \in Nat
    BY LaunchList
  <1>2. Alive(launched[i]) /\ cmd # launched[i]
    BY <1>1 DEF Alive
  <1>3. PICK j \in i + 1..Len(launched) :
            \/ PortOf[launched[j]] # PortOf[launched[i]]
            \/ launched[i] \in unseen[launched[j]]
    BY <1>2, LaunchList DEF ServerInv, LostOnlyToLaunch
  <1>4. j \in 1..Len(launched)
    BY <1>1, <1>3
  <1>5. QED
    BY <1>3, <1>4

\* A call of Start before its launch: the port check, the setup, its context.
LEMMA CallSteps ==
  ASSUME ServerInv, NEW c \in Starts,
         CheckPort(c) \/ Setup(c) \/ CtxEnds(c)
  PROVE  ServerInv'
  <1>1. /\ pc \in [Starts \cup Stops -> {"idle", "setup", "launch", "started",
                                            "failed", "waiting", "stopped", "lost"}]
        /\ unseen \in [Starts -> SUBSET Starts] /\ ctx \subseteq Starts
        /\ c \in Starts \cup Stops
    BY DEF ServerInv, ServerTypeOK
  <1>2. UNCHANGED <<watcher, proc, cmd, signalled, lock, launched>>
    BY DEF CheckPort, Setup, CtxEnds, stopping, history
  <1>3. \A k \in Starts : Alive(k)' => Alive(k)
    BY <1>2 DEF Alive
  <1>4. CASE CheckPort(c)
    <2>1. /\ pc[c] = "idle"
          /\ pc' = [pc EXCEPT ![c] =
                 IF Taken(PortOf[c]) THEN "failed" ELSE "setup"]
          /\ unseen' = [unseen EXCEPT ![c] = Starts \ Holding]
          /\ UNCHANGED ctx
      BY <1>4 DEF CheckPort, Goto, Looked
    <2>2. ServerTypeOK'
      BY <1>1, <1>2, <2>1 DEF ServerInv, ServerTypeOK
    <2>3. Checked'
      <3> SUFFICES ASSUME NEW k \in Starts, pc'[k] \in {"setup", "launch"},
                          NEW d \in Starts, PortOf[d] = PortOf[k]
                   PROVE  d \in unseen'[k]
        BY DEF Checked
      <3>1. CASE k = c
        <4>1. ~Taken(PortOf[c])
          BY <1>1, <2>1, <3>1
        <4>2. d \notin Holding
          BY <3>1, <4>1 DEF Taken, Holding
        <4>3. QED
          BY <1>1, <2>1, <3>1, <4>2
      <3>2. CASE k # c
        <4>1. pc[k] \in {"setup", "launch"} /\ unseen'[k] = unseen[k]
          BY <1>1, <2>1, <3>2
        <4>2. QED
          BY <4>1 DEF ServerInv, Checked
      <3>3. QED
        BY <3>1, <3>2
    <2>4. \A j \in 1..Len(launched) : launched[j] # c
      BY <2>1, LaunchList DEF ServerInv, LaunchedOnce
    <2>5. LaunchedOnce'
      BY <1>1, <1>2, <2>1, <2>4, LaunchList DEF ServerInv, LaunchedOnce
    <2>6. \A j \in 1..Len(launched) : unseen'[launched[j]] = unseen[launched[j]]
      BY <1>1, <2>1, <2>4, LaunchList
    <2>7. QED
      BY <1>2, <1>3, <2>2, <2>3, <2>5, <2>6, NobodyForgotten DEF ServerInv
  <1>5. CASE Setup(c) \/ CtxEnds(c)
    <2>1. UNCHANGED unseen
      BY <1>5 DEF Setup, CtxEnds, history
    <2>2. /\ pc' \in [Starts \cup Stops -> {"idle", "setup", "launch", "started",
                                               "failed", "waiting", "stopped", "lost"}]
          /\ \A k \in Starts : pc'[k] \in {"setup", "launch"} =>
                                   pc[k] \in {"setup", "launch"}
          /\ \A k \in Starts : pc'[k] = "idle" => pc[k] = "idle"
          /\ ctx' \subseteq Starts
      BY <1>1, <1>5 DEF Setup, CtxEnds, Goto
    <2>3. ServerTypeOK'
      BY <1>2, <2>1, <2>2 DEF ServerInv, ServerTypeOK
    <2>4. Checked'
      BY <2>1, <2>2 DEF ServerInv, Checked
    <2>5. LaunchedOnce'
      BY <1>2, <2>2, LaunchList DEF ServerInv, LaunchedOnce
    <2>6. QED
      BY <1>2, <1>3, <2>1, <2>3, <2>4, <2>5, NobodyForgotten DEF ServerInv
  <1>6. QED
    BY <1>4, <1>5

\* A launch takes the place of the process before, and is the witness that it
\* may be forgotten: it is for another port, or its check did not see it.
LEMMA LaunchStep ==
  ASSUME ServerInv, NEW c \in Starts, Launch(c)
  PROVE  ServerInv'
  <1>1. /\ pc \in [Starts \cup Stops -> {"idle", "setup", "launch", "started",
                                            "failed", "waiting", "stopped", "lost"}]
        /\ c \in Starts \cup Stops /\ c # NoCmd
        /\ proc \in [Starts -> {"none", "booting", "bound", "dead"}]
        /\ watcher \in [Starts -> {"none", "waiting", "killing", "done"}]
    BY DevServerAssumption DEF ServerInv, ServerTypeOK
  <1>2. UNCHANGED <<ctx, signalled, lock, unseen>> /\ pc[c] = "launch"
    BY DEF Launch, stopping, Goto
  <1>3. CASE UNCHANGED <<proc, watcher, cmd, launched>> /\ pc' = [pc EXCEPT ![c] = "failed"]
    <2>1. /\ pc' \in [Starts \cup Stops -> {"idle", "setup", "launch", "started",
                                               "failed", "waiting", "stopped", "lost"}]
          /\ \A k \in Starts : pc'[k] \in {"setup", "launch"} =>
                                   pc[k] \in {"setup", "launch"}
          /\ \A k \in Starts : pc'[k] = "idle" => pc[k] = "idle"
      BY <1>1, <1>3
    <2>2. ServerTypeOK' /\ Checked'
      BY <1>2, <1>3, <2>1 DEF ServerInv, ServerTypeOK, Checked
    <2>3. LaunchedOnce'
      BY <1>3, <2>1, LaunchList DEF ServerInv, LaunchedOnce
    <2>4. \A k \in Starts : Alive(k)' => Alive(k)
      BY <1>3 DEF Alive
    <2>5. QED
      BY <1>2, <1>3, <2>2, <2>3, <2>4, NobodyForgotten DEF ServerInv
  <1>4. CASE /\ pc' = [pc EXCEPT ![c] = "started"]
             /\ proc' = [proc EXCEPT ![c] = "booting"]
             /\ watcher' = [watcher EXCEPT ![c] = "waiting"]
             /\ cmd' = c
             /\ launched' = Append(launched, c)
    <2>1. /\ Len(launched') = Len(launched) + 1 /\ launched' \in Seq(Starts)
          /\ launched'[Len(launched) + 1] = c
          /\ \A j \in 1..Len(launched) : launched'[j] = launched[j]
          /\ DOMAIN launched' = 1..Len(launched) + 1
      BY <1>4, LaunchList
    <2>2. /\ pc' \in [Starts \cup Stops -> {"idle", "setup", "launch", "started",
                                               "failed", "waiting", "stopped", "lost"}]
          /\ \A k \in Starts : pc'[k] \in {"setup", "launch"} =>
                                   pc[k] \in {"setup", "launch"}
          /\ \A k \in Starts : pc'[k] = "idle" => pc[k] = "idle"
          /\ pc'[c] = "started"
      BY <1>1, <1>4
    <2>3. /\ proc' \in [Starts -> {"none", "booting", "bound", "dead"}]
          /\ watcher' \in [Starts -> {"none", "waiting", "killing", "done"}]
          /\ cmd' \in Starts
      BY <1>1, <1>4
    <2>4. ServerTypeOK'
      BY <1>1, <1>2, <1>4, <2>1, <2>2, <2>3 DEF ServerInv, ServerTypeOK
    <2>5. Checked'
      BY <1>2, <2>2 DEF ServerInv, Checked
    <2>6. LaunchedOnce'
      <3> SUFFICES ASSUME NEW j \in 1..Len(launched) + 1
                   PROVE  pc'[launched'[j]] # "idle"
        BY <2>1 DEF LaunchedOnce
      <3>1. CASE j = Len(launched) + 1
        BY <2>1, <2>2, <3>1
      <3>2. CASE j \in 1..Len(launched)
        BY <2>1, <2>2, <3>2, LaunchList DEF ServerInv, LaunchedOnce
      <3>3. QED
        BY <3>1, <3>2, LaunchList
    <2>7. LostOnlyToLaunch'
      <3> SUFFICES ASSUME NEW i \in 1..Len(launched) + 1, launched'[i] # c
                   PROVE  \E j \in i + 1..Len(launched) + 1 :
                              \/ PortOf[launched'[j]] # PortOf[launched'[i]]
                              \/ launched'[i] \in unseen'[launched'[j]]
        BY <1>4, <2>1 DEF LostOnlyToLaunch
      <3>1. i \in 1..Len(launched) /\ Len(launched) \in Nat
        BY <2>1, LaunchList
      <3>2. Len(launched) + 1 \in i + 1..Len(launched) + 1
        BY ONLY <3>1
      <3>3. launched'[i] \in Starts
        BY <2>1, <3>1, LaunchList
      <3>4. PortOf[c] # PortOf[launched'[i]] \/ launched'[i] \in unseen[c]
        BY <1>2, <3>3 DEF ServerInv, Checked
      <3>5. QED
        BY <1>2, <2>1, <3>2, <3>4
    <2>8. QED
      BY <2>4, <2>5, <2>6, <2>7 DEF ServerInv
  <1>5. QED
    BY <1>3, <1>4 DEF Launch, Goto

\* Stop and the goroutines change neither the calls' checks nor the launches,
\* and let go of a command only once it has ended.
LEMMA StopSteps ==
  ASSUME ServerInv,
         \/ \E s \in Stops : Stop(s)
         \/ \E c \in Starts : Watcher(c)
  PROVE  ServerInv'
  <1> DEFINE Spots == {"idle", "setup", "launch", "started",
                        "failed", "waiting", "stopped", "lost"}
             Watching == {"none", "waiting", "killing", "done"}
  <1>1. /\ pc \in [Starts \cup Stops -> Spots]
        /\ watcher \in [Starts -> Watching]
        /\ cmd \in Starts \cup {NoCmd} /\ signalled \subseteq Starts
        /\ lock \in Starts \cup Stops \cup {NoCmd} /\ (lock # NoCmd => cmd # NoCmd)
    BY DEF ServerInv, ServerTypeOK
  <1>2. UNCHANGED <<proc, ctx, launched, unseen>>
    BY DEF Stop, Watcher, StopBegins, StopEnds,
      WatcherStops, WatcherEnds, Kill, Reap, history
  <1>3. ASSUME NEW who \in Starts \cup Stops, Kill(who)
        PROVE  /\ UNCHANGED cmd /\ signalled' \subseteq Starts
               /\ lock' \in Starts \cup Stops \cup {NoCmd}
               /\ lock' # NoCmd => cmd # NoCmd
    BY <1>1, <1>3 DEF Kill, stopping
  <1>4. ASSUME NEW who \in Starts \cup Stops, Reap(who)
        PROVE  /\ cmd' = NoCmd /\ lock' = NoCmd /\ UNCHANGED signalled
               /\ ~Alive(cmd)
    BY <1>4 DEF Reap
  <1>5. \E who \in Starts \cup Stops : Kill(who) \/ Reap(who)
    BY DEF Stop, Watcher, StopBegins, StopEnds,
      WatcherStops, WatcherEnds
  <1>6. /\ signalled' \subseteq Starts /\ cmd' \in Starts \cup {NoCmd}
        /\ lock' \in Starts \cup Stops \cup {NoCmd} /\ (lock' # NoCmd => cmd' # NoCmd)
        /\ cmd' = cmd \/ \A c \in Starts : c = cmd => ~Alive(c)
    BY <1>1, <1>3, <1>4, <1>5
  <1>7. /\ pc' \in [Starts \cup Stops -> Spots]
        /\ \A k \in Starts : pc'[k] = pc[k]
    <2>1. ASSUME NEW s \in Stops, Stop(s)
          PROVE  /\ pc' \in [Starts \cup Stops -> Spots]
                 /\ \A k \in Starts : pc'[k] = pc[k]
      <3>1. pc' = [pc EXCEPT ![s] = "stopped"] \/ pc' = [pc EXCEPT ![s] = "waiting"]
        BY <2>1 DEF Stop, StopBegins, StopEnds, Goto
      <3>2. \A k \in Starts : k # s
        BY DevServerAssumption
      <3>3. QED
        BY <1>1, <3>1, <3>2
    <2>2. ASSUME NEW c \in Starts, Watcher(c)
          PROVE  UNCHANGED pc
      BY <2>2 DEF Watcher, WatcherStops, WatcherEnds
    <2>3. QED
      BY <1>1, <2>1, <2>2
  <1>8. watcher' \in [Starts -> Watching]
    <2>1. ASSUME NEW s \in Stops, Stop(s)
          PROVE  UNCHANGED watcher
      BY <2>1 DEF Stop, StopBegins, StopEnds
    <2>2. ASSUME NEW c \in Starts, Watcher(c)
          PROVE  watcher' \in [Starts -> Watching]
      BY <1>1, <2>2 DEF Watcher, WatcherStops, WatcherEnds
    <2>3. QED
      BY <1>1, <2>1, <2>2
  <1>9. ServerTypeOK'
    BY <1>2, <1>6, <1>7, <1>8 DEF ServerInv, ServerTypeOK
  <1>10. Checked' /\ LaunchedOnce'
    BY <1>2, <1>7, LaunchList DEF ServerInv, Checked, LaunchedOnce
  <1>11. \A c \in Starts : Alive(c)' => Alive(c)
    BY <1>2 DEF Alive
  <1>12. QED
    BY <1>2, <1>6, <1>9, <1>10, <1>11, NobodyForgotten DEF ServerInv

\* The dev command binds its port or ends; a restart forgets all launches.
LEMMA WorldSteps ==
  ASSUME ServerInv,
         \/ \E c \in Starts : Binds(c) \/ Dies(c)
         \/ ServerRestart \/ UNCHANGED serverVars
  PROVE  ServerInv'
  <1>1. CASE \E c \in Starts : Binds(c) \/ Dies(c)
    <2>1. PICK c \in Starts, to \in {"bound", "dead"} :
              Alive(c) /\ proc' = [proc EXCEPT ![c] = to]
      BY <1>1 DEF Binds, Dies, Alive
    <2>2. UNCHANGED <<pc, ctx, watcher, cmd, signalled, lock, launched, unseen>>
      BY <1>1 DEF Binds, Dies, stopping, history
    <2>3. proc \in [Starts -> {"none", "booting", "bound", "dead"}]
      BY DEF ServerInv, ServerTypeOK
    <2>4. /\ proc' \in [Starts -> {"none", "booting", "bound", "dead"}]
          /\ \A k \in Starts : Alive(k)' => Alive(k)
      BY <2>1, <2>3 DEF Alive
    <2>5. ServerTypeOK' /\ Checked' /\ LaunchedOnce'
      BY <2>2, <2>4 DEF ServerInv, ServerTypeOK, Checked, LaunchedOnce
    <2>6. QED
      BY <2>2, <2>4, <2>5, NobodyForgotten DEF ServerInv
  <1>2. CASE ServerRestart
    <2>1. launched' = <<>> /\ cmd' = NoCmd /\ lock' = NoCmd
          /\ UNCHANGED <<ctx, proc, signalled, unseen>>
          /\ watcher' = [c \in Starts |-> "none"]
          /\ pc' = [c \in Starts \cup Stops |->
                         IF pc[c] = "idle" THEN "idle" ELSE "lost"]
      BY <1>2 DEF ServerRestart
    <2>2. ServerTypeOK'
      BY <2>1 DEF ServerInv, ServerTypeOK
    <2>3. Checked' /\ LaunchedOnce' /\ LostOnlyToLaunch'
      BY <2>1 DEF Checked, LaunchedOnce, LostOnlyToLaunch
    <2>4. QED
      BY <2>2, <2>3 DEF ServerInv
  <1>3. CASE UNCHANGED serverVars
    BY <1>3 DEF serverVars, stopping, history, ServerInv, ServerTypeOK,
      Checked, LaunchedOnce, LostOnlyToLaunch, Alive
  <1>4. QED
    BY <1>1, <1>2, <1>3

\* Every step keeps the invariant.
LEMMA NextServer ==
  ASSUME ServerInv, [ServerNext]_serverVars
  PROVE  ServerInv'
  BY CallSteps, LaunchStep, StopSteps, WorldSteps DEF ServerNext, StartCall

\* Every variable has its type, and whoever holds the lock across a Wait has a
\* command to wait for (devtools.go:226-246).
THEOREM ServerTypeCorrect == ServerSpec => []ServerTypeOK
  <1>1. ServerInv => ServerTypeOK
    BY DEF ServerInv
  <1>2. ServerInv /\ [ServerNext]_serverVars => ServerInv'
    BY NextServer
  <1>3. ServerInit => ServerInv
    BY InitServer
  <1>4. QED
    BY <1>1, <1>2, <1>3, PTL DEF ServerSpec

\* Stop forgets no process that still runs unless a later launch took its
\* place, for another port or after a port check that did not see it
\* (devtools.go:183-191, :226-246).
THEOREM LostOnlyToLaunchAlways == ServerSpec => []LostOnlyToLaunch
  <1>1. ServerInv => LostOnlyToLaunch
    BY DEF ServerInv
  <1>2. ServerInv /\ [ServerNext]_serverVars => ServerInv'
    BY NextServer
  <1>3. ServerInit => ServerInv
    BY InitServer
  <1>4. QED
    BY <1>1, <1>2, <1>3, PTL DEF ServerSpec
\* Until a Stop takes the lock nobody has it, and nobody else can have it after;
\* a launch waits for it, so that the command waited for stays the remembered one.
LEMMA HolderInit ==
  ASSUME ServerInit
  PROVE  HolderReaps
  BY DevServerAssumption DEF ServerInit, HolderReaps

\* The steps of Start, but for the goroutine it leaves, do not touch the lock.
LEMMA StartHolder ==
  ASSUME ServerInv, HolderReaps, NEW c \in Starts,
         StartCall(c) \/ CtxEnds(c) \/ Binds(c) \/ Dies(c)
  PROVE  HolderReaps'
  <1>1. /\ pc \in [Starts \cup Stops -> {"idle", "setup", "launch", "started",
                                         "failed", "waiting", "stopped", "lost"}]
        /\ watcher \in [Starts -> {"none", "waiting", "killing", "done"}]
        /\ \A s \in Stops : s # c
    BY DevServerAssumption DEF ServerInv, ServerTypeOK
  <1>2. UNCHANGED <<lock, signalled>>
    BY DEF StartCall, CheckPort, Setup, Launch, CtxEnds, Binds, Dies, stopping
  <1>3. \A s \in Stops : pc'[s] = pc[s]
    <2>1. UNCHANGED pc \/ \E to : pc' = [pc EXCEPT ![c] = to]
      BY DEF StartCall, CheckPort, Setup, Launch, CtxEnds, Binds, Dies, Goto
    <2>2. QED
      BY <1>1, <2>1
  <1>4. CASE Launch(c)
    <2>1. lock = NoCmd /\ NoCmd \notin Starts
      BY <1>4, DevServerAssumption DEF Launch
    <2>2. UNCHANGED watcher \/ watcher' = [watcher EXCEPT ![c] = "waiting"]
      BY <1>4 DEF Launch
    <2>3. \A k \in Starts : watcher[k] # "killing"
      BY <2>1 DEF HolderReaps
    <2>4. \A k \in Starts : watcher'[k] # "killing"
      BY <1>1, <2>2, <2>3
    <2>5. QED
      BY <1>2, <1>3, <2>1, <2>4 DEF HolderReaps
  <1>5. CASE CheckPort(c) \/ Setup(c) \/ CtxEnds(c) \/ Binds(c) \/ Dies(c)
    <2>1. UNCHANGED <<cmd, watcher>>
      BY <1>5 DEF CheckPort, Setup, CtxEnds, Binds, Dies
    <2>2. QED
      BY <1>2, <1>3, <2>1 DEF HolderReaps
  <1>6. QED
    BY <1>4, <1>5 DEF StartCall

\* Who takes the lock begins to wait, and who has waited lets go of it.
LEMMA StopHolder ==
  ASSUME ServerInv, HolderReaps,
         \/ \E s \in Stops : Stop(s)
         \/ \E c \in Starts : Watcher(c)
  PROVE  HolderReaps'
  <1>1. /\ pc \in [Starts \cup Stops -> {"idle", "setup", "launch", "started",
                                         "failed", "waiting", "stopped", "lost"}]
        /\ watcher \in [Starts -> {"none", "waiting", "killing", "done"}]
        /\ \A s \in Stops, c \in Starts : s # c
        /\ NoCmd \notin Starts /\ NoCmd \notin Stops
    BY DevServerAssumption DEF ServerInv, ServerTypeOK
  <1>2. ASSUME NEW s \in Stops, StopBegins(s) PROVE HolderReaps'
    <2>1. lock = NoCmd /\ UNCHANGED <<cmd, watcher>>
      BY <1>2 DEF StopBegins, Kill
    <2>2. CASE cmd = NoCmd
      <3>1. UNCHANGED <<lock, signalled>> /\ pc' = [pc EXCEPT ![s] = "stopped"]
        BY <1>2, <2>2 DEF StopBegins, Kill, Goto, stopping
      <3>2. QED
        BY <1>1, <2>1, <3>1 DEF HolderReaps
    <2>3. CASE cmd # NoCmd
      <3>1. lock' = s /\ cmd' \in signalled' /\ pc' = [pc EXCEPT ![s] = "waiting"]
        BY <1>2, <2>1, <2>3 DEF StopBegins, Kill, Goto
      <3>2. QED
        BY <1>1, <2>1, <3>1 DEF HolderReaps
    <2>4. QED
      BY <2>2, <2>3
  <1>3. ASSUME NEW s \in Stops, StopEnds(s) PROVE HolderReaps'
    <2>1. /\ lock = s /\ lock' = NoCmd /\ UNCHANGED watcher
          /\ pc' = [pc EXCEPT ![s] = "stopped"]
      BY <1>3 DEF StopEnds, Reap, Goto
    <2>2. QED
      BY <1>1, <2>1 DEF HolderReaps
  <1>4. ASSUME NEW c \in Starts, WatcherStops(c) PROVE HolderReaps'
    <2>1. lock = NoCmd /\ UNCHANGED <<cmd, pc>>
      BY <1>4 DEF WatcherStops, Kill
    <2>2. CASE cmd = NoCmd
      <3>1. UNCHANGED <<lock, signalled>> /\ watcher' = [watcher EXCEPT ![c] = "done"]
        BY <1>4, <2>2 DEF WatcherStops, Kill, stopping
      <3>2. QED
        BY <1>1, <2>1, <3>1 DEF HolderReaps
    <2>3. CASE cmd # NoCmd
      <3>1. lock' = c /\ cmd' \in signalled' /\ watcher' = [watcher EXCEPT ![c] = "killing"]
        BY <1>4, <2>1, <2>3 DEF WatcherStops, Kill
      <3>2. QED
        BY <1>1, <2>1, <3>1 DEF HolderReaps
    <2>4. QED
      BY <2>2, <2>3
  <1>5. ASSUME NEW c \in Starts, WatcherEnds(c) PROVE HolderReaps'
    <2>1. /\ lock = c /\ lock' = NoCmd /\ UNCHANGED pc
          /\ watcher' = [watcher EXCEPT ![c] = "done"]
      BY <1>5 DEF WatcherEnds, Reap
    <2>2. QED
      BY <1>1, <2>1 DEF HolderReaps
  <1>6. QED
    BY <1>2, <1>3, <1>4, <1>5 DEF Stop, Watcher

\* Every step keeps the lock with whoever waits.
LEMMA HolderNext ==
  ASSUME ServerInv, HolderReaps, [ServerNext]_serverVars
  PROVE  HolderReaps'
  <1>1. CASE ServerRestart
    <2>1. NoCmd \notin Starts /\ NoCmd \notin Stops
      BY DevServerAssumption
    <2>2. QED
      BY <1>1, <2>1 DEF ServerRestart, HolderReaps
  <1>2. CASE UNCHANGED serverVars
    BY <1>2 DEF serverVars, stopping, HolderReaps
  <1>3. QED
    BY <1>1, <1>2, StartHolder, StopHolder DEF ServerNext

\* The lock is kept by nobody but a Stop that waits for the remembered command,
\* which was sent SIGTERM, and by every Stop that waits (devtools.go:225-246).
THEOREM HolderReapsAlways == ServerSpec => []HolderReaps
  <1>1. ServerInit => ServerInv /\ HolderReaps
    BY InitServer, HolderInit
  <1>2. ServerInv /\ HolderReaps /\ [ServerNext]_serverVars => (ServerInv /\ HolderReaps)'
    BY NextServer, HolderNext
  <1>3. QED
    BY <1>1, <1>2, PTL DEF ServerSpec
===============================================================================
