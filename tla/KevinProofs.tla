------------------------------ MODULE KevinProofs ------------------------------
(***************************************************************************)
(* Proofs about Kevin for every set of messages, jobs and rows and every   *)
(* bound: what River counts as completed was answered, and what was        *)
(* answered, or acted upon, is asked again only for a reason.              *)
(***************************************************************************)
EXTENDS Kevin, TLAPS

\* Between the answer and River's account of it a job is "returned"; only a
\* crash takes it from there without completing it.  A job that Kevin acted
\* upon, without a crash or an attempt that was cut, is one that he answered.
JobInv ==
    /\ answers \in [Jobs -> Nat] /\ acts \in [Jobs -> Nat] /\ cut \subseteq Jobs
    /\ job \in [Jobs -> {"none", "available", "knocking", "inside", "returned",
                         "stale", "retryable", "completed", "cancelled", "discarded"}]
    /\ \A j \in Jobs :
           /\ job[j] \in {"returned", "completed"} => answers[j] > 0
           /\ j \notin interrupted =>
                  /\ job[j] # "stale"
                  /\ answers[j] <= 1
                  /\ answers[j] = 1 => job[j] \in {"returned", "completed"}
           /\ j \notin interrupted \cup cut =>
                  /\ acts[j] <= 1
                  /\ acts[j] = 1 => job[j] \in {"returned", "completed"}

\* Nothing has been answered at first.
LEMMA InitJobs == Init => JobInv
  BY DEF Init, JobInv

\* Steps of messages, nudges and the start leave the jobs alone.
LEMMA OthersLeaveJobs ==
  ASSUME JobInv, UNCHANGED jobs
  PROVE  JobInv'
  BY DEF JobInv, jobs, done

\* A failure is none of the states in which a job counts as answered.
LEMMA FailureStates ==
  ASSUME NEW j \in Jobs
  PROVE  Failure(j) \in {"cancelled", "discarded", "retryable"}
  BY DEF Failure

\* A job is answered at most once before River has stored the outcome
\* (main.go:67-74, cron.go:118-125).
LEMMA NextJobs == JobInv /\ [Next]_vars => JobInv'
  <1> SUFFICES ASSUME JobInv, [Next]_vars PROVE JobInv'
    OBVIOUS
  <1>1. ASSUME NEW j \in Jobs, Schedule(j) PROVE JobInv'
    BY <1>1 DEF JobInv, Schedule, JobGoes, done
  <1>2. ASSUME NEW j \in Jobs, Cancel(j) PROVE JobInv'
    BY <1>2 DEF JobInv, Cancel, JobGoes, done
  <1>3. ASSUME NEW j \in Jobs, Attempt(j) PROVE JobInv'
    BY <1>3 DEF JobInv, Attempt, JobGoes, done
  <1>4. ASSUME NEW j \in Jobs, Panics(j) PROVE JobInv'
    BY <1>4, FailureStates DEF JobInv, Panics, JobGoes, done
  <1>5. ASSUME NEW j \in Jobs, JobAdmitted(j) PROVE JobInv'
    BY <1>5 DEF JobInv, JobAdmitted, JobGoes, done
  <1>6. ASSUME NEW j \in Jobs, JobRefused(j) PROVE JobInv'
    BY <1>6, FailureStates DEF JobInv, JobRefused, JobGoes, HandlerResult, done
  <1>7. ASSUME NEW j \in Jobs, JobEnds(j) PROVE JobInv'
    <2>1. PICK replied \in BOOLEAN, acted \in BOOLEAN :
            /\ replied => acted
            /\ answers' = [answers EXCEPT ![j] = IF replied THEN @ + 1 ELSE @]
            /\ acts' = [acts EXCEPT ![j] = IF acted THEN @ + 1 ELSE @]
            /\ cut' = IF acted /\ ~replied THEN cut \cup {j} ELSE cut
            /\ JobGoes(j, HandlerResult(j, replied))
      BY <1>7 DEF JobEnds
    <2>2. job[j] = "inside" /\ UNCHANGED interrupted
      BY <1>7, <2>1 DEF JobEnds, JobGoes
    <2>3. CASE replied
      <3>1. /\ job' = [job EXCEPT ![j] = "returned"] /\ UNCHANGED cut
            /\ answers' = [answers EXCEPT ![j] = answers[j] + 1]
            /\ acts' = [acts EXCEPT ![j] = acts[j] + 1]
        BY <2>1, <2>3 DEF JobGoes, HandlerResult
      <3>2. QED
        BY <2>2, <3>1 DEF JobInv
    <2>4. CASE ~replied /\ acted
      <3>1. /\ job' = [job EXCEPT ![j] = Failure(j)] /\ cut' = cut \cup {j}
            /\ answers' = answers
            /\ acts' = [acts EXCEPT ![j] = acts[j] + 1]
        BY <2>1, <2>4 DEF JobGoes, HandlerResult, JobInv
      <3>2. QED
        BY <2>2, <3>1, FailureStates DEF JobInv
    <2>5. CASE ~acted
      <3>1. /\ job' = [job EXCEPT ![j] = Failure(j)]
            /\ cut' = cut /\ answers' = answers /\ acts' = acts
        BY <2>1, <2>5 DEF JobGoes, HandlerResult, JobInv
      <3>2. QED
        BY <2>2, <3>1, FailureStates DEF JobInv
    <2>6. QED
      BY <2>1, <2>3, <2>4, <2>5
  <1>8. ASSUME NEW j \in Jobs, Stores(j) PROVE JobInv'
    BY <1>8 DEF JobInv, Stores, JobGoes, done
  <1>9. ASSUME NEW j \in Jobs, Rescues(j) PROVE JobInv'
    BY <1>9, FailureStates DEF JobInv, Rescues, JobGoes, done
  <1>10. CASE Restart
    BY <1>10 DEF JobInv, Restart, Working
  <1>11. CASE Assign \/ Poll \/ ResumeRuns
    BY <1>11, OthersLeaveJobs DEF Assign, Poll, ResumeRuns, Resume, ResumeEnds, jobs
  <1>12. ASSUME NEW m \in Messages, Arrives(m) \/ MsgRuns(m) PROVE JobInv'
    BY <1>12, OthersLeaveJobs
    DEF Arrives, MsgRuns, MsgAdmitted, MsgDropped, MsgEnds, MsgGoes, jobs
  <1>13. ASSUME NEW i \in Rows, RowWaits(i) \/ NudgeRuns(i) PROVE JobInv'
    BY <1>13, OthersLeaveJobs DEF RowWaits, NudgeRuns, Nudge, NudgeEnds, jobs
  <1>14. CASE UNCHANGED vars
    BY <1>14, OthersLeaveJobs DEF vars, jobs
  <1>15. QED
    BY <1>1, <1>2, <1>3, <1>4, <1>5, <1>6, <1>7, <1>8, <1>9, <1>10, <1>11, <1>12,
       <1>13, <1>14
    DEF Next, JobRuns

\* A job that counts as completed got its answer, a prompt that was answered is
\* put to Kevin again only after a crash, and one he acted upon only after a
\* crash or an attempt that was cut (main.go:67-74, cron.go:118-125).
THEOREM AnsweredOnceAlways == Spec => []AnsweredOnce
  <1>1. JobInv => AnsweredOnce
    BY DEF JobInv, AnsweredOnce
  <1>2. QED
    BY <1>1, InitJobs, NextJobs, PTL DEF Spec
-------------------------------------------------------------------------------
(* Types.  A job gets no attempt beyond its last, since a failure of the last  *)
(* discards it, and no more answers than attempts; a poll starts no nudge that *)
(* would go beyond the bound; and before the agent is made nobody but a job    *)
(* comes near it.                                                              *)
Types ==
    /\ ready \in BOOLEAN /\ restarts \in 0..MaxRestarts
    /\ msg \in [Messages -> {"unsent", "knocking", "inside", "answered", "failed",
                             "dropped", "lost"}]
    /\ job \in [Jobs -> {"none", "available", "knocking", "inside", "returned",
                         "stale", "retryable"} \cup Final]
    /\ attempt \in [Jobs -> Nat] /\ answers \in [Jobs -> Nat]
    /\ acts \in [Jobs -> Nat] /\ cut \subseteq Jobs
    /\ cancelling \subseteq Jobs /\ interrupted \subseteq Jobs
    /\ resume \in {"idle", "knocking", "inside"} /\ waiting \subseteq Rows
    /\ knocking \in [Rows -> 0..1] /\ nudging \in [Rows -> 0..MaxNudges]

Attempts ==
    \A j \in Jobs :
        /\ attempt[j] <= MaxAttempts
        /\ answers[j] <= attempt[j] /\ acts[j] <= attempt[j]
        /\ job[j] \in {"none", "available"} => attempt[j] = 0
        /\ job[j] = "retryable" => attempt[j] < MaxAttempts
        /\ job[j] \in {"knocking", "inside"} =>
               answers[j] < attempt[j] /\ acts[j] < attempt[j]

Nudges == \A i \in Rows : knocking[i] > 0 => nudging[i] < MaxNudges

NotReady ==
    ~ready =>
        /\ \A m \in Messages : msg[m] \notin {"knocking", "inside"}
        /\ \A j \in Jobs : job[j] # "inside"
        /\ resume = "idle"
        /\ \A i \in Rows : knocking[i] = 0 /\ nudging[i] = 0

TypeInv == Types /\ Attempts /\ Nudges /\ NotReady

\* Nobody is inside when no caller, job or nudge is.
LEMMA NobodyInside ==
  ASSUME \A m \in Messages : msg[m] # "inside", \A j \in Jobs : job[j] # "inside",
         resume # "inside", \A i \in Rows : nudging[i] = 0
  PROVE  Inside = {}
  <1>1. \A i \in Rows : {<<"nudge", i, n>> : n \in 1..nudging[i]} = {}
    <2>1. \A i \in Rows : 1..nudging[i] = {}
      OBVIOUS
    <2>2. QED
      BY <2>1
  <1>2. {m \in Messages : msg[m] = "inside"} = {} /\ {j \in Jobs : job[j] = "inside"} = {}
    OBVIOUS
  <1>3. QED
    BY <1>1, <1>2 DEF Inside

\* The invariant gives every variable its type.
LEMMA TypeInvImplies == TypeInv => TypeOK
  <1> SUFFICES ASSUME TypeInv PROVE TypeOK
    OBVIOUS
  <1>1. ~ready => Inside = {}
    <2> SUFFICES ASSUME ~ready PROVE Inside = {}
      OBVIOUS
    <2>1. /\ \A m \in Messages : msg[m] # "inside"
          /\ \A j \in Jobs : job[j] # "inside"
          /\ resume # "inside"
          /\ \A i \in Rows : nudging[i] = 0
      BY DEF TypeInv, NotReady
    <2>2. QED
      BY <2>1, NobodyInside
  <1>2. /\ attempt \in [Jobs -> 0..MaxAttempts] /\ answers \in [Jobs -> 0..MaxAttempts]
        /\ acts \in [Jobs -> 0..MaxAttempts]
    BY KevinAssumption DEF TypeInv, Types, Attempts
  <1>3. QED
    BY <1>1, <1>2 DEF TypeInv, Types, TypeOK

\* Jobs may be due at the start; nothing else is there.
LEMMA InitType == Init => TypeInv
  <1> SUFFICES ASSUME Init PROVE TypeInv
    OBVIOUS
  <1>1. job \in [Jobs -> {"none", "available", "knocking", "inside", "returned",
                         "stale", "retryable"} \cup Final]
    BY DEF Init
  <1>2. Types
    <2>1. /\ ready \in BOOLEAN /\ resume \in {"idle", "knocking", "inside"}
          /\ msg \in [Messages -> {"unsent", "knocking", "inside", "answered",
                                  "failed", "dropped", "lost"}]
          /\ cancelling \subseteq Jobs /\ interrupted \subseteq Jobs /\ waiting \subseteq Rows
          /\ cut \subseteq Jobs /\ acts \in [Jobs -> Nat]
      BY DEF Init
    <2>2. /\ restarts \in 0..MaxRestarts
          /\ attempt \in [Jobs -> Nat] /\ answers \in [Jobs -> Nat]
          /\ knocking \in [Rows -> 0..1] /\ nudging \in [Rows -> 0..MaxNudges]
      BY KevinAssumption DEF Init
    <2>3. QED
      BY <1>1, <2>1, <2>2 DEF Types
  <1>3. Attempts
    BY KevinAssumption DEF Init, Attempts
  <1>4. Nudges /\ NotReady
    BY DEF Init, Nudges, NotReady
  <1>5. QED
    BY <1>2, <1>3, <1>4 DEF TypeInv

\* What a step of a job must do to the job to keep the invariant.
LEMMA JobKeepsTypes ==
  ASSUME TypeInv, NEW j \in Jobs,
         UNCHANGED <<ready, restarts, msg, nudges, interrupted>>,
         cancelling' \subseteq Jobs, cut' \subseteq Jobs,
         job' \in [Jobs -> {"none", "available", "knocking", "inside", "returned",
                            "stale", "retryable"} \cup Final],
         attempt' \in [Jobs -> Nat], answers' \in [Jobs -> Nat], acts' \in [Jobs -> Nat],
         \A k \in Jobs \ {j} : /\ job'[k] = job[k] /\ attempt'[k] = attempt[k]
                             /\ answers'[k] = answers[k] /\ acts'[k] = acts[k],
         attempt'[j] <= MaxAttempts, answers'[j] <= attempt'[j], acts'[j] <= attempt'[j],
         job'[j] \in {"none", "available"} => attempt'[j] = 0,
         job'[j] = "retryable" => attempt'[j] < MaxAttempts,
         job'[j] \in {"knocking", "inside"} =>
             answers'[j] < attempt'[j] /\ acts'[j] < attempt'[j],
         job'[j] = "inside" => ready
  PROVE  TypeInv'
  <1>1. Types'
    BY DEF TypeInv, Types, nudges
  <1>2. Attempts'
    BY DEF TypeInv, Types, Attempts
  <1>3. Nudges' /\ NotReady'
    BY DEF TypeInv, Types, Nudges, NotReady, nudges
  <1>4. QED
    BY <1>1, <1>2, <1>3 DEF TypeInv

\* A job whose last attempt failed is not retried (River's MaxAttempts).
LEMMA FailureTypes ==
  ASSUME TypeInv, NEW j \in Jobs
  PROVE  /\ Failure(j) \in {"cancelled", "discarded", "retryable"}
         /\ Failure(j) = "retryable" => attempt[j] < MaxAttempts
  BY KevinAssumption DEF TypeInv, Types, Failure

\* A step that leaves the counts of a job alone keeps the invariant, if the
\* place it goes to suits them.
LEMMA JobGoesTypes ==
  ASSUME TypeInv, NEW j \in Jobs, NEW to, JobGoes(j, to),
         UNCHANGED <<attempt, done>>, cancelling' \subseteq Jobs,
         \/ to \in {"returned", "cancelled", "discarded", "completed"}
         \/ to = job[j]
         \/ to = "available" /\ job[j] = "none"
         \/ to = "retryable" /\ attempt[j] < MaxAttempts
         \/ to = "inside" /\ job[j] = "knocking" /\ ready
  PROVE  TypeInv'
  <1>1. /\ job' = [job EXCEPT ![j] = to]
        /\ UNCHANGED <<ready, restarts, msg, nudges, interrupted>>
    BY DEF JobGoes
  <1>2. to \in {"none", "available", "knocking", "inside", "returned",
                "stale", "retryable"} \cup Final
    BY DEF Final, TypeInv, Types
  <1>3. /\ job' \in [Jobs -> {"none", "available", "knocking", "inside", "returned",
                             "stale", "retryable"} \cup Final]
        /\ job'[j] = to /\ \A k \in Jobs \ {j} : job'[k] = job[k]
        /\ attempt' \in [Jobs -> Nat] /\ answers' \in [Jobs -> Nat]
        /\ acts' \in [Jobs -> Nat] /\ cut' \subseteq Jobs
        /\ UNCHANGED <<attempt, answers, acts>>
    BY <1>1, <1>2 DEF TypeInv, Types, done
  <1>4. /\ attempt[j] <= MaxAttempts /\ answers[j] <= attempt[j] /\ acts[j] <= attempt[j]
        /\ to \in {"none", "available"} => attempt[j] = 0
        /\ to = "retryable" => attempt[j] < MaxAttempts
        /\ to \in {"knocking", "inside"} =>
               answers[j] < attempt[j] /\ acts[j] < attempt[j]
        /\ to = "inside" => ready
    BY DEF TypeInv, Types, Attempts, NotReady
  <1>5. QED
    BY <1>1, <1>3, <1>4, JobKeepsTypes

\* Every step keeps the types.
LEMMA NextType == TypeInv /\ [Next]_vars => TypeInv'
  <1> SUFFICES ASSUME TypeInv, [Next]_vars PROVE TypeInv'
    OBVIOUS
  <1> USE KevinAssumption
  <1>1. CASE Assign
    BY <1>1 DEF Assign, TypeInv, Types, Attempts, Nudges, NotReady, jobs, done
  <1>2. CASE Restart
    <2>1. Types'
      <3>1. restarts' \in 0..MaxRestarts
        BY <1>2 DEF Restart, TypeInv, Types
      <3>2. msg' \in [Messages -> {"unsent", "knocking", "inside", "answered",
                                  "failed", "dropped", "lost"}]
        BY <1>2 DEF Restart, TypeInv, Types
      <3>3. job' \in [Jobs -> {"none", "available", "knocking", "inside", "returned",
                              "stale", "retryable"} \cup Final]
        BY <1>2 DEF Restart, TypeInv, Types
      <3>4. knocking' \in [Rows -> 0..1] /\ nudging' \in [Rows -> 0..MaxNudges]
        BY <1>2 DEF Restart
      <3>5. acts' \in [Jobs -> Nat] /\ cut' \subseteq Jobs
        BY <1>2 DEF Restart, TypeInv, Types
      <3>6. QED
        BY <1>2, <3>1, <3>2, <3>3, <3>4, <3>5 DEF Restart, TypeInv, Types
    <2>2. Attempts'
      BY <1>2 DEF Restart, TypeInv, Types, Attempts, Working
    <2>3. Nudges' /\ NotReady'
      BY <1>2 DEF Restart, TypeInv, Types, Nudges, NotReady, Working
    <2>4. QED
      BY <2>1, <2>2, <2>3 DEF TypeInv
  <1>3. CASE Poll
    <2>1. Types' /\ Attempts' /\ NotReady'
      BY <1>3 DEF Poll, TypeInv, Types, Attempts, NotReady, jobs, done
    <2>2. Nudges'
      BY <1>3 DEF Poll, TypeInv, Nudges, Types
    <2>3. QED
      BY <2>1, <2>2 DEF TypeInv
  <1>4. CASE ResumeRuns
    BY <1>4 DEF ResumeRuns, Resume, ResumeEnds, TypeInv, Types, Attempts, Nudges,
      NotReady, jobs, done
  <1>5. ASSUME NEW m \in Messages, Arrives(m) \/ MsgRuns(m) PROVE TypeInv'
    <2>1. PICK from \in {"unsent", "knocking", "inside"},
               to \in {"knocking", "inside", "dropped", "answered", "failed"} :
            MsgGoes(m, from, to) /\ (ready \/ from # "unsent")
      BY <1>5 DEF Arrives, MsgRuns, MsgAdmitted, MsgDropped, MsgEnds
    <2>2. ready
      BY <2>1 DEF MsgGoes, TypeInv, NotReady
    <2>3. QED
      BY <2>1, <2>2 DEF MsgGoes, TypeInv, Types, Attempts, Nudges, NotReady, jobs, done, nudges
  <1>6. ASSUME NEW j \in Jobs, Schedule(j) \/ Cancel(j) PROVE TypeInv'
    <2>1. CASE Schedule(j)
      BY <2>1, JobGoesTypes DEF Schedule, TypeInv, Types
    <2>2. CASE Cancel(j)
      BY <2>2, JobGoesTypes DEF Cancel, TypeInv, Types
    <2>3. QED
      BY <1>6, <2>1, <2>2
  <1>7. ASSUME NEW j \in Jobs, Attempt(j) PROVE TypeInv'
    <2>1. /\ attempt[j] \in Nat /\ answers[j] \in Nat
          /\ acts[j] \in Nat /\ acts[j] <= attempt[j]
          /\ attempt[j] < MaxAttempts /\ answers[j] <= attempt[j]
      BY <1>7 DEF Attempt, TypeInv, Types, Attempts
    <2>2. /\ job' = [job EXCEPT ![j] = "knocking"]
          /\ attempt' = [attempt EXCEPT ![j] = attempt[j] + 1]
          /\ UNCHANGED <<ready, restarts, msg, nudges, interrupted, cancelling,
                         answers, acts, cut>>
      BY <1>7 DEF Attempt, JobGoes, done
    <2>3. /\ job' \in [Jobs -> {"none", "available", "knocking", "inside", "returned",
                               "stale", "retryable"} \cup Final]
          /\ attempt' \in [Jobs -> Nat] /\ answers' \in [Jobs -> Nat]
          /\ acts' \in [Jobs -> Nat]
          /\ cancelling' \subseteq Jobs /\ cut' \subseteq Jobs
          /\ job'[j] = "knocking" /\ attempt'[j] = attempt[j] + 1
          /\ \A k \in Jobs \ {j} : job'[k] = job[k] /\ attempt'[k] = attempt[k]
      BY <2>2 DEF TypeInv, Types
    <2>4. /\ attempt'[j] <= MaxAttempts
          /\ answers'[j] < attempt'[j] /\ answers'[j] <= attempt'[j]
          /\ acts'[j] < attempt'[j] /\ acts'[j] <= attempt'[j]
      BY <2>1, <2>2, <2>3
    <2>5. UNCHANGED <<ready, restarts, msg, nudges, interrupted>>
          /\ \A k \in Jobs \ {j} : answers'[k] = answers[k] /\ acts'[k] = acts[k]
      BY <2>2
    <2>6. QED
      BY <2>3, <2>4, <2>5, JobKeepsTypes
  <1>8. ASSUME NEW j \in Jobs,
               Panics(j) \/ JobAdmitted(j) \/ JobRefused(j) \/ Stores(j) \/ Rescues(j)
        PROVE  TypeInv'
    <2>1. cancelling \subseteq Jobs
      BY DEF TypeInv, Types
    <2>2. QED
      BY <1>8, <2>1, FailureTypes, JobGoesTypes
      DEF Panics, JobAdmitted, JobRefused, Stores, Rescues, HandlerResult
  <1>9. ASSUME NEW j \in Jobs, JobEnds(j) PROVE TypeInv'
    <2>1. PICK replied \in BOOLEAN, acted \in BOOLEAN :
            /\ answers' = [answers EXCEPT ![j] = IF replied THEN @ + 1 ELSE @]
            /\ acts' = [acts EXCEPT ![j] = IF acted THEN @ + 1 ELSE @]
            /\ cut' = IF acted /\ ~replied THEN cut \cup {j} ELSE cut
            /\ JobGoes(j, HandlerResult(j, replied))
      BY <1>9 DEF JobEnds
    <2> DEFINE to == HandlerResult(j, replied)
    <2>2. job[j] = "inside" /\ UNCHANGED <<attempt, cancelling>>
      BY <1>9 DEF JobEnds
    <2>3. /\ attempt \in [Jobs -> Nat] /\ answers \in [Jobs -> Nat] /\ acts \in [Jobs -> Nat]
          /\ attempt[j] <= MaxAttempts /\ answers[j] < attempt[j] /\ acts[j] < attempt[j]
      BY <2>2 DEF TypeInv, Types, Attempts
    <2>4. /\ to \in {"returned", "cancelled", "discarded", "retryable"}
          /\ to = "retryable" => attempt[j] < MaxAttempts
      BY FailureTypes DEF HandlerResult
    <2>5. /\ job' = [job EXCEPT ![j] = to]
          /\ UNCHANGED <<ready, restarts, msg, nudges, interrupted>>
      BY <2>1 DEF JobGoes
    <2> HIDE DEF to
    <2>6. /\ job' \in [Jobs -> {"none", "available", "knocking", "inside", "returned",
                               "stale", "retryable"} \cup Final]
          /\ job'[j] = to /\ \A k \in Jobs \ {j} : job'[k] = job[k]
      BY <2>4, <2>5 DEF TypeInv, Types, Final
    <2>7. /\ answers' \in [Jobs -> Nat] /\ answers'[j] <= attempt[j]
          /\ \A k \in Jobs \ {j} : answers'[k] = answers[k]
      BY <2>1, <2>3
    <2>8. /\ acts' \in [Jobs -> Nat] /\ acts'[j] <= attempt[j]
          /\ \A k \in Jobs \ {j} : acts'[k] = acts[k]
      BY <2>1, <2>3
    <2>9. cancelling' \subseteq Jobs /\ cut' \subseteq Jobs
      BY <2>1, <2>2 DEF TypeInv, Types
    <2>10. QED
      BY <2>2, <2>3, <2>4, <2>5, <2>6, <2>7, <2>8, <2>9, JobKeepsTypes
  <1>10. ASSUME NEW i \in Rows, RowWaits(i) PROVE TypeInv'
    BY <1>10 DEF RowWaits, TypeInv, Types, Attempts, Nudges, NotReady, jobs, done
  <1>11. ASSUME NEW i \in Rows, Nudge(i) PROVE TypeInv'
    <2>1. /\ knocking[i] = 1 /\ nudging[i] \in 0..MaxNudges /\ nudging[i] < MaxNudges /\ ready
          /\ knocking' = [knocking EXCEPT ![i] = 0]
      <3>1. knocking[i] > 0 /\ knocking' = [knocking EXCEPT ![i] = knocking[i] - 1]
        BY <1>11 DEF Nudge
      <3>2. knocking[i] \in 0..1 /\ nudging[i] \in 0..MaxNudges
        BY DEF TypeInv, Types
      <3>3. knocking[i] = 1
        BY ONLY <3>1, <3>2
      <3>4. nudging[i] < MaxNudges /\ ready
        BY <3>1, <3>3 DEF TypeInv, Types, Nudges, NotReady
      <3>5. QED
        BY <3>1, <3>2, <3>3, <3>4
    <2>2. nudging' = nudging \/ nudging' = [nudging EXCEPT ![i] = nudging[i] + 1]
      BY <1>11 DEF Nudge
    <2>3. UNCHANGED <<ready, restarts, msg, jobs, resume, waiting>>
      BY <1>11 DEF Nudge
    <2>4. Types' /\ Attempts' /\ NotReady'
      BY <2>1, <2>2, <2>3 DEF TypeInv, Types, Attempts, NotReady, jobs, done
    <2>5. Nudges'
      BY <2>1, <2>2 DEF TypeInv, Types, Nudges
    <2>6. QED
      BY <2>4, <2>5 DEF TypeInv
  <1>12. ASSUME NEW i \in Rows, NudgeEnds(i) PROVE TypeInv'
    <2>1. /\ nudging[i] > 0 /\ nudging' = [nudging EXCEPT ![i] = @ - 1]
          /\ waiting' \subseteq waiting
          /\ UNCHANGED <<ready, restarts, msg, jobs, resume, knocking>>
      BY <1>12 DEF NudgeEnds
    <2>2. QED
      BY <2>1 DEF TypeInv, Types, Attempts, Nudges, NotReady, jobs, done
  <1>13. CASE UNCHANGED vars
    BY <1>13 DEF vars, jobs, done, nudges, TypeInv, Types, Attempts, Nudges, NotReady
  <1>14. QED
    BY <1>1, <1>2, <1>3, <1>4, <1>5, <1>6, <1>7, <1>8, <1>9, <1>10, <1>11, <1>12,
       <1>13 DEF Next, JobRuns, NudgeRuns

\* Every variable has its type: no job is tried more often than MaxAttempts
\* allows, and nobody holds a slot of an agent that is not made yet
\* (main.go:67-74).
THEOREM TypeCorrect == Spec => []TypeOK
  BY InitType, NextType, TypeInvImplies, PTL DEF Spec
===============================================================================
