-------------------------------- MODULE Agent ---------------------------------
(***************************************************************************)
(* The agent: concurrent calls of HandleMessage (internal/agent/agent.go)  *)
(* against the session table in Postgres and the claude subprocess.        *)
(*                                                                         *)
(* A call takes one of MaxConcurrent slots or is refused, reads the        *)
(* session stored under its key, runs claude on it, reads the answer,      *)
(* stores the session claude reports and returns; the deferred release is  *)
(* a step of its own because the slot is held until then.  Two calls may   *)
(* carry the same key: nothing in the code orders them.                    *)
(*                                                                         *)
(* Claude is external.  A conversation is named by the call that opened it *)
(* and is the set of calls whose turns it contains; a run that resumes a   *)
(* conversation either appends its turn to it or answers in a new one.     *)
(***************************************************************************)
EXTENDS Naturals, FiniteSets

CONSTANTS
    Calls,          \* every call ever made, also the name of a conversation
    Keys,           \* session keys
    KeyOf,          \* the key each call is made with
    MaxConcurrent,  \* Config.MaxConcurrent after New's default
    NoSession,      \* the empty session id
    StoreFaults     \* whether Postgres may fail a query

ASSUME AgentAssumption ==
    /\ IsFiniteSet(Calls)
    /\ KeyOf \in [Calls -> Keys]
    /\ MaxConcurrent \in Nat \ {0}
    /\ NoSession \notin Calls
    /\ StoreFaults \in BOOLEAN

VARIABLES
    pc,          \* where each call is in HandleMessage
    sem,         \* len(a.sem): the tokens in the semaphore channel
    session,     \* the sessions table
    resume,      \* the local sessionID of each call
    context,     \* the turns each claude process has loaded
    answer,      \* what each claude process printed before it exited
    transcript,  \* claude's conversations
    outcome,     \* what each call returned
    rivals,      \* history: calls of the same key in flight together with it
    blind,       \* history: calls whose session could not be read
    recorded     \* history: calls whose session was stored

local == <<pc, sem, resume, context, answer, outcome>>
history == <<rivals, blind, recorded>>
vars == <<local, session, transcript, history>>

Sessions == Calls \cup {NoSession}

\* One line of claude's output decides the answer: exit status, then the
\* result event (agent.go:270-278).  sid is the result event's session id.
Answers == [kind : {"none", "exitError", "noResult", "errorResult", "result"},
            sid  : Sessions]
Silent == [kind |-> "none", sid |-> NoSession]

InFlight == {c \in Calls : pc[c] \notin {"idle", "done"}}
SameKey(c) == {d \in Calls : KeyOf[d] = KeyOf[c]}

Init ==
    /\ pc = [c \in Calls |-> "idle"]
    /\ sem = 0
    /\ session = [k \in Keys |-> NoSession]
    /\ resume = [c \in Calls |-> NoSession]
    /\ context = [c \in Calls |-> {}]
    /\ answer = [c \in Calls |-> Silent]
    /\ transcript = [s \in Calls |-> {}]
    /\ outcome = [c \in Calls |-> "none"]
    /\ rivals = [c \in Calls |-> {}]
    /\ blind = {}
    /\ recorded = {}

-------------------------------------------------------------------------------
(* HandleMessage *)

\* case a.sem <- struct{}{}
Admit(c) ==
    /\ pc[c] = "idle"
    /\ sem < MaxConcurrent
    /\ sem' = sem + 1
    /\ pc' = [pc EXCEPT ![c] = "admitted"]
    /\ LET others == (InFlight \cap SameKey(c)) \ {c}
       IN  rivals' = [d \in Calls |->
               IF d = c THEN others
               ELSE IF d \in others THEN rivals[d] \cup {c} ELSE rivals[d]]
    /\ UNCHANGED <<session, resume, context, answer, transcript, outcome,
                   blind, recorded>>

\* Mutant: the last slot is kept free.
RefuseEarly(c) ==
    /\ pc[c] = "idle"
    /\ sem + 1 >= MaxConcurrent
    /\ pc' = [pc EXCEPT ![c] = "done"]
    /\ outcome' = [outcome EXCEPT ![c] = "busy"]
    /\ UNCHANGED <<sem, session, resume, context, answer, transcript, history>>

\* default: return "", ErrBusy
Refuse(c) ==
    /\ pc[c] = "idle"
    /\ sem = MaxConcurrent
    /\ pc' = [pc EXCEPT ![c] = "done"]
    /\ outcome' = [outcome EXCEPT ![c] = "busy"]
    /\ UNCHANGED <<sem, session, resume, context, answer, transcript, history>>

\* Mutant: the query has lost its WHERE clause.
StoredSessionOfAny(k) ==
    LET used == {j \in Keys : session[j] # NoSession}
    IN  IF used = {} THEN NoSession ELSE session[CHOOSE j \in used : TRUE]

\* SELECT claude_session FROM sessions WHERE session_key = $1
StoredSession(k) == session[k]

\* GetSession; its error is ignored, so a failed read looks like a new thread.
ReadSession(c) ==
    /\ pc[c] = "admitted"
    /\ pc' = [pc EXCEPT ![c] = "starting"]
    /\ \/ /\ resume' = [resume EXCEPT ![c] = StoredSession(KeyOf[c])]
          /\ UNCHANGED blind
       \/ /\ StoreFaults
          /\ blind' = blind \cup {c}
          /\ UNCHANGED resume
    /\ UNCHANGED <<sem, session, context, answer, transcript, outcome, rivals,
                   recorded>>

\* The runner starts the subprocess, which loads the conversation it resumes.
StartClaude(c) ==
    /\ pc[c] = "starting"
    /\ pc' = [pc EXCEPT ![c] = "running"]
    /\ context' = [context EXCEPT ![c] =
           IF resume[c] = NoSession THEN {} ELSE transcript[resume[c]]]
    /\ UNCHANGED <<sem, session, resume, answer, transcript, outcome, history>>

\* cmd.Start failed: the runner returns the error.
StartFails(c) ==
    /\ pc[c] = "starting"
    /\ pc' = [pc EXCEPT ![c] = "exited"]
    /\ answer' = [answer EXCEPT ![c] = [kind |-> "exitError", sid |-> NoSession]]
    /\ UNCHANGED <<sem, session, resume, context, transcript, outcome, history>>

\* The runner returns the output of a claude that answered: its turn is now in
\* the resumed conversation or, together with what it had loaded, in a new one,
\* and the result event names that conversation or carries no session id.
ClaudeAnswers(c) ==
    /\ pc[c] = "running"
    /\ pc' = [pc EXCEPT ![c] = "exited"]
    /\ \E home \in {c, resume[c]} \ {NoSession} :
           /\ transcript' = [transcript EXCEPT ![home] =
                  IF home = resume[c] THEN @ \cup {c} ELSE context[c] \cup {c}]
           /\ \E sid \in {home, NoSession} :
                  answer' = [answer EXCEPT ![c] = [kind |-> "result", sid |-> sid]]
    /\ UNCHANGED <<sem, session, resume, context, outcome, history>>

\* The runner returns an error (exit status, killed), or output without a
\* result event, or with an error result; the resumed conversation may hold
\* the failed turn.
ClaudeFails(c) ==
    /\ pc[c] = "running"
    /\ pc' = [pc EXCEPT ![c] = "exited"]
    /\ \E kind \in {"exitError", "noResult", "errorResult"} :
           answer' = [answer EXCEPT ![c] = [kind |-> kind, sid |-> NoSession]]
    /\ \/ UNCHANGED transcript
       \/ /\ resume[c] # NoSession
          /\ transcript' = [transcript EXCEPT ![resume[c]] = @ \cup {c}]
    /\ UNCHANGED <<sem, session, resume, context, outcome, history>>

ClaudeExits(c) == ClaudeAnswers(c) \/ ClaudeFails(c)

Fails(a) == a.kind # "result"

\* Mutant: the error path returns without giving the slot back.
ReturnErrorAndSlotLeaks(c) ==
    /\ pc[c] = "exited"
    /\ Fails(answer[c])
    /\ pc' = [pc EXCEPT ![c] = "done"]
    /\ outcome' = [outcome EXCEPT ![c] = "error"]
    /\ UNCHANGED <<sem, session, resume, context, answer, transcript, history>>

\* runner error, "no result event" or an error result: return the error.
ReturnError(c) ==
    /\ pc[c] = "exited"
    /\ Fails(answer[c])
    /\ pc' = [pc EXCEPT ![c] = "returning"]
    /\ outcome' = [outcome EXCEPT ![c] = "error"]
    /\ UNCHANGED <<sem, session, resume, context, answer, transcript, history>>

\* Mutant: ON CONFLICT DO NOTHING.
InsertOnly(c) ==
    [session EXCEPT ![KeyOf[c]] = IF @ = NoSession THEN answer[c].sid ELSE @]

\* INSERT ... ON CONFLICT (session_key) DO UPDATE SET claude_session = $2
Upsert(c) == [session EXCEPT ![KeyOf[c]] = answer[c].sid]

\* SaveSession when the id is not empty; its error is only logged, and the
\* reply is returned in every case.
SaveAndReply(c) ==
    /\ pc[c] = "exited"
    /\ answer[c].kind = "result"
    /\ pc' = [pc EXCEPT ![c] = "returning"]
    /\ outcome' = [outcome EXCEPT ![c] = "reply"]
    /\ \/ /\ answer[c].sid # NoSession
          /\ session' = Upsert(c)
          /\ recorded' = recorded \cup {c}
       \/ /\ answer[c].sid = NoSession \/ StoreFaults
          /\ UNCHANGED <<session, recorded>>
    /\ UNCHANGED <<sem, resume, context, answer, transcript, rivals, blind>>

\* defer func() { <-a.sem }()
Release(c) ==
    /\ pc[c] = "returning"
    /\ pc' = [pc EXCEPT ![c] = "done"]
    /\ sem' = sem - 1
    /\ UNCHANGED <<session, resume, context, answer, transcript, outcome, history>>

\* The process dies and is started again: the semaphore is new, the calls in
\* flight are lost; Postgres and claude's conversations stay.
Restart ==
    /\ InFlight # {}
    /\ pc' = [c \in Calls |-> IF c \in InFlight THEN "done" ELSE pc[c]]
    /\ outcome' = [c \in Calls |->
           IF c \in InFlight THEN "lost" ELSE outcome[c]]
    /\ sem' = 0
    /\ UNCHANGED <<session, resume, context, answer, transcript, history>>

-------------------------------------------------------------------------------
Handle(c) ==
    \/ Admit(c) \/ Refuse(c) \/ ReadSession(c) \/ StartClaude(c) \/ StartFails(c)
    \/ ClaudeExits(c) \/ ReturnError(c) \/ SaveAndReply(c) \/ Release(c)

\* Every call has returned: the model has no more of them to make.
AllDone == (\A c \in Calls : pc[c] = "done") /\ UNCHANGED vars

Next == Restart \/ AllDone \/ \E c \in Calls : Handle(c)

Spec == Init /\ [][Next]_vars

-------------------------------------------------------------------------------
(* Properties *)

\* Every variable has its type; the calls in "running" and "exited" are the
\* ones that have a subprocess or its output.
TypeOK ==
    /\ pc \in [Calls -> {"idle", "admitted", "starting", "running", "exited",
                         "returning", "done"}]
    /\ sem \in 0..MaxConcurrent
    /\ session \in [Keys -> Sessions]
    /\ resume \in [Calls -> Sessions]
    /\ context \in [Calls -> SUBSET Calls]
    /\ answer \in [Calls -> Answers]
    /\ transcript \in [Calls -> SUBSET Calls]
    /\ outcome \in [Calls -> {"none", "reply", "error", "busy", "lost"}]
    /\ rivals \in [Calls -> SUBSET Calls]
    /\ blind \subseteq Calls
    /\ recorded \subseteq Calls

\* No slot leaks and none is given twice: on every path, early error returns
\* and restarts included, the tokens in the semaphore (agent.go:153-155) are
\* exactly the calls in flight.
SlotsAccounted == sem = Cardinality(InFlight)

\* A thread never sees another thread's conversation: whatever interleaving of
\* reads, forks and saves (agent.go:168-209), the conversation stored under a
\* key, and the one a call of that key resumes, holds turns of that key only.
OwnTurns(s, k) ==
    s # NoSession =>
        transcript[s] # {} /\ \A d \in transcript[s] : KeyOf[d] = k

NoCrossTalk ==
    /\ \A k \in Keys : OwnTurns(session[k], k)
    /\ \A c \in Calls : OwnTurns(resume[c], KeyOf[c])

\* The conversation stored under a key contains every turn recorded for it,
\* except those that were in flight together with another recorded call of the
\* key, or that a call which could not read the session (agent.go:168) has
\* since overwritten.  A turn is never lost in any other way, restarts
\* and save failures included.
Kept(c) == session[KeyOf[c]] # NoSession /\ c \in transcript[session[KeyOf[c]]]

LostOnlyToRivals ==
    \A c \in recorded :
        Kept(c) \/ \E d \in (recorded \cap SameKey(c)) \ {c} :
                       d \in rivals[c] \/ d \in blind

\* Admission as the outside sees it.
AdmissionGate == INSTANCE Gate WITH
    inside <- InFlight,
    refused <- {c \in Calls : outcome[c] = "busy"}

\* The agent implements the gate: at most MaxConcurrent calls in flight, and
\* ErrBusy (agent.go:149-159) only when all the slots are really taken.
ImplementsGate == AdmissionGate!Spec
===============================================================================
