----------------------------- MODULE SlackIntake ------------------------------
(***************************************************************************)
(* From a Slack event to Kevin's reply: the event loop with its            *)
(* deduplication (internal/slack/slack.go, Listen), and the goroutine that *)
(* main.go starts for each event it lets through.                          *)
(*                                                                         *)
(* Slack is external: a post of a user is delivered as a `message` event   *)
(* and, when it names Kevin, also as an `app_mention` event of the same    *)
(* timestamp, in any order and possibly again; Kevin's own replies come    *)
(* back as `message` events with a bot id.  The agent is seen from         *)
(* outside: a call replies or fails, and its key's session remembers the   *)
(* posts it answered.                                                      *)
(***************************************************************************)
EXTENDS Naturals, Sequences, FiniteSets

CONSTANTS
    Posts,         \* user posts; a post is named by its timestamp
    Kind,          \* [Posts -> {"dm", "active", "quiet"}]: the channel's kind
    Mentions,      \* the posts that name Kevin
    Thread,        \* [Posts -> Posts \cup {TopLevel}]: the thread it is in
    TopLevel,      \* the empty thread_ts
    SeenLimit,     \* entries after which the seen map is cleared (1000)
    HistoryLimit,  \* top-level messages of context (GetHistoryLimit)
    Twice,         \* bound: the posts whose events may be delivered twice
    Faults         \* what may fail: "db", "slack", "agent", "crash"

ASSUME IntakeAssumption ==
    /\ IsFiniteSet(Posts)
    /\ Kind \in [Posts -> {"dm", "active", "quiet"}]
    /\ Mentions \subseteq Posts
    /\ Thread \in [Posts -> Posts \cup {TopLevel}] /\ TopLevel \notin Posts
    /\ \A m \in Posts : Thread[m] # TopLevel => Kind[Thread[m]] = Kind[m]
    /\ SeenLimit \in Nat /\ HistoryLimit \in Nat
    /\ Twice \subseteq Posts /\ Faults \subseteq {"db", "slack", "agent", "crash"}

\* An event: which post, how Slack presents it, and which delivery of it.
\* "echo" is the message event of Kevin's own reply to the post.
Events == [post : Posts, source : {"message", "app_mention", "echo"},
           copy : {1, 2}]

VARIABLES
    posted,   \* the posts made
    inbox,    \* events Slack has yet to deliver
    seen,     \* the dedup map of Listen
    task,     \* the goroutine of each event: where it is
    saved,    \* the messages table: the events whose row was inserted, in order
    eyes,     \* posts that carry Kevin's eyes reaction
    history,  \* the posts each goroutine fetched as context
    session,  \* the posts each session key's conversation contains
    replied,  \* events whose reply is posted
    forgot,   \* history: keys the map lost when it was cleared
    kept      \* history: posts whose eyes Slack did not take off

intake == <<posted, inbox, seen, forgot>>
vars == <<intake, task, saved, eyes, history, session, replied, kept>>

Key(e) == <<e.post, e.source = "echo">>   \* channel:ts of the message
IsMention(e) == e.source = "app_mention"

\* One channel of each kind; session keys are channel:thread.
SessionKeys == {"dm", "active", "quiet"} \X (Posts \cup {TopLevel})
SessionKey(e) == <<Kind[e.post], Thread[e.post]>>

\* Mutant: only channels on the list are handled.
ShouldHandleListed(e) == IsMention(e) \/ Kind[e.post] = "active"

ShouldHandle(e) == IsMention(e) \/ Kind[e.post] \in {"dm", "active"}

Init ==
    /\ posted = {} /\ inbox = {} /\ seen = {} /\ forgot = {}
    /\ task = [e \in Events |-> "none"]
    /\ saved = <<>> /\ eyes = {} /\ kept = {}
    /\ history = [e \in Events |-> {}]
    /\ session = [k \in SessionKeys |-> {}]
    /\ replied = {}

-------------------------------------------------------------------------------
(* Slack *)

\* A user writes; in a thread only once Kevin has replied to its root.
Post(m) ==
    /\ m \notin posted
    /\ Thread[m] # TopLevel => \E e \in replied : e.post = Thread[m]
    /\ posted' = posted \cup {m}
    /\ inbox' = inbox \cup
         [post : {m}, copy : IF m \in Twice THEN {1, 2} ELSE {1},
          source : IF m \in Mentions THEN {"message", "app_mention"}
                   ELSE {"message"}]
    /\ UNCHANGED <<seen, forgot, task, saved, eyes, history, session, replied, kept>>

(* Listen *)

\* Mutant: only mentions are remembered.
RememberMentions(e) == IF IsMention(e) THEN seen \cup {Key(e)} ELSE seen

\* Mutant: the map is never cleared.
RememberAll(e) == seen \cup {Key(e)}

\* seen[key] = true, and the map is cleared once it has more than SeenLimit keys.
Overflows(e) == Cardinality(seen \cup {Key(e)}) > SeenLimit
Remember(e) == IF Overflows(e) THEN {} ELSE seen \cup {Key(e)}

\* Mutant: the event that fills the map goes with it.
DispatchIfKept(e) ==
    task' = IF Overflows(e) THEN task ELSE [task EXCEPT ![e] = "started"]

\* The handler starts a goroutine for the event.
Dispatch(e) == task' = [task EXCEPT ![e] = "started"]

\* Mutant: bot messages are not told apart.
FromBotNever(e) == FALSE

FromBot(e) == e.source = "echo"

Deliver(e) ==
    /\ e \in inbox
    /\ inbox' = inbox \ {e}
    /\ \/ /\ FromBot(e) \/ Key(e) \in seen
          /\ UNCHANGED <<seen, forgot, task>>
       \/ /\ ~FromBot(e) /\ Key(e) \notin seen
          /\ seen' = Remember(e)
          /\ forgot' = IF Overflows(e) THEN forgot \cup seen \cup {Key(e)} ELSE forgot
          /\ Dispatch(e)
    /\ UNCHANGED <<posted, saved, eyes, history, session, replied, kept>>

-------------------------------------------------------------------------------
(* The goroutine of an event, main.go:223-266 *)
Goto(e, from, to) == task[e] = from /\ task' = [task EXCEPT ![e] = to]

\* SaveMessage (a failure is only logged), then ShouldHandle.
Save(e) ==
    /\ Goto(e, "started", IF ~ShouldHandle(e) THEN "done"
                          ELSE IF IsMention(e) THEN "eyes" ELSE "history")
    /\ \/ saved' = Append(saved, e)
       \/ "db" \in Faults /\ UNCHANGED saved
    /\ UNCHANGED <<intake, eyes, history, session, replied, kept>>

AddEyes(e) ==
    /\ Goto(e, "eyes", "history")
    /\ \/ eyes' = eyes \cup {e.post}
       \/ "slack" \in Faults /\ UNCHANGED eyes
    /\ UNCHANGED <<intake, saved, history, session, replied, kept>>

\* RecentMessages: a thread's rows, or the last top-level rows of the channel.
Rows(e) == {i \in DOMAIN saved :
    Kind[saved[i].post] = Kind[e.post] /\ Thread[saved[i].post] = Thread[e.post]}
Recent(e) == {saved[i].post : i \in {i \in Rows(e) :
    \/ Thread[e.post] # TopLevel
    \/ Cardinality({j \in Rows(e) : j > i}) < HistoryLimit}}

Fetch(e) ==
    /\ Goto(e, "history", "agent")
    /\ \/ history' = [history EXCEPT ![e] = Recent(e)]
       \/ "db" \in Faults /\ UNCHANGED history
    /\ UNCHANGED <<intake, saved, eyes, session, replied, kept>>

\* Mutant: an error returns before the reaction is removed.
AfterAgentEarly(e, ok) ==
    IF ~ok THEN "failed" ELSE IF IsMention(e) THEN "uneyes" ELSE "reply"

\* The eyes go first, whatever the agent returned.
AfterAgent(e, ok) ==
    IF IsMention(e) THEN IF ok THEN "uneyes" ELSE "uneyesError"
    ELSE IF ok THEN "reply" ELSE "failed"

\* HandleMessage answers, or fails (ErrBusy, a claude error); the history is a
\* local variable that is not used again.
AskAgent(e) ==
    /\ \/ /\ Goto(e, "agent", AfterAgent(e, TRUE))
          /\ session' = [session EXCEPT ![SessionKey(e)] = @ \cup {e.post}]
       \/ /\ "agent" \in Faults
          /\ Goto(e, "agent", AfterAgent(e, FALSE))
          /\ UNCHANGED session
    /\ history' = [history EXCEPT ![e] = {}]
    /\ UNCHANGED <<intake, saved, eyes, replied, kept>>

RemoveEyes(e) ==
    /\ Goto(e, "uneyes", "reply") \/ Goto(e, "uneyesError", "failed")
    /\ \/ eyes' = eyes \ {e.post} /\ UNCHANGED kept
       \/ "slack" \in Faults /\ kept' = kept \cup {e.post} /\ UNCHANGED eyes
    /\ UNCHANGED <<intake, saved, history, session, replied>>

\* SendMessage in the thread of the post, or in the thread it opens; Slack
\* sends the reply back as an event.
Reply(e) ==
    /\ \/ /\ Goto(e, "reply", "done")
          /\ replied' = replied \cup {e}
          /\ inbox' = inbox \cup {[e EXCEPT !.source = "echo"]}
       \/ /\ "slack" \in Faults
          /\ Goto(e, "reply", "failed")
          /\ UNCHANGED <<replied, inbox>>
    /\ UNCHANGED <<posted, seen, forgot, saved, eyes, history, session, kept>>

Handle(e) ==
    \/ Save(e) \/ AddEyes(e) \/ Fetch(e) \/ AskAgent(e) \/ RemoveEyes(e)
    \/ Reply(e)

\* The process dies and is started again: the goroutines and the dedup map are
\* gone; what is acknowledged is not delivered again.
Restart ==
    /\ "crash" \in Faults
    /\ \E e \in Events : task[e] \notin {"none", "done", "failed", "lost"}
    /\ task' = [e \in Events |-> IF task[e] = "none" THEN "none" ELSE "lost"]
    /\ seen' = {} /\ forgot' = {}
    /\ history' = [e \in Events |-> {}]
    /\ UNCHANGED <<posted, inbox, saved, eyes, session, replied, kept>>

Next ==
    \/ Restart
    \/ \E m \in Posts : Post(m)
    \/ \E e \in Events : Deliver(e) \/ Handle(e)

Spec == Init /\ [][Next]_vars

\* The event loop and the goroutines run; Slack delivers every event of a user's
\* post, but none need come a second time.
FairSpec == Spec /\ \A e \in {d \in Events : d.source # "echo"} :
                WF_vars(Handle(e)) /\ WF_vars(e.copy = 1 /\ Deliver(e))

-------------------------------------------------------------------------------
(* Properties *)
Stages == {"none", "started", "eyes", "history", "agent", "uneyes",
           "uneyesError", "reply", "done", "failed", "lost"}

\* Every variable has its type; the dedup map stays bounded (slack.go:70-73).
TypeOK ==
    /\ posted \subseteq Posts
    /\ inbox \subseteq Events
    /\ seen \subseteq Posts \X BOOLEAN /\ Cardinality(seen) <= SeenLimit
    /\ forgot \subseteq Posts \X BOOLEAN
    /\ task \in [Events -> Stages]
    /\ saved \in Seq(Events)
    /\ eyes \subseteq Posts /\ kept \subseteq Posts
    /\ history \in [Events -> SUBSET Posts]
    /\ session \in [SessionKeys -> SUBSET Posts]
    /\ replied \subseteq Events

Invited(m) == m \in Mentions \/ Kind[m] \in {"dm", "active"}

\* Kevin speaks only when spoken to: every reply answers a user's post that
\* names him or is written where he listens, never his own reply come back as
\* an event (slack.go:106-109, 191-204), whatever fails or restarts.
RepliesInvited == \A e \in replied : e.source # "echo" /\ Invited(e.post)

\* A post is handled by one goroutine of the process (slack.go:61-73), however
\* many events Slack makes of it, in whatever order they come, and unless the
\* map was cleared with its key in it.
Ran(e) == task[e] \notin {"none", "lost"}

HandledOnce ==
    \A d, e \in Events :
        Key(d) = Key(e) /\ Ran(d) /\ Ran(e) => d = e \/ Key(e) \in forgot

\* The eyes on a post mean that Kevin is working on it: on every way out of the
\* goroutine, agent errors included, they are taken off first
\* (main.go:233-257), unless Slack refuses or the process dies.
EyesMeanWorking ==
    \A m \in eyes \ kept : \E e \in Events :
        e.post = m /\ task[e] \in {"history", "agent", "uneyes", "uneyesError", "lost"}

\* At no moment has a post written where Kevin listens slipped through, whatever
\* was dropped as a duplicate, cleared from the map or restarted meanwhile
\* (slack.go:61-73, main.go:222-266): Slack still has an event of it, a goroutine
\* works on one, it is answered, or it was lost to a failure or a restart.
FollowedUp(e) ==
    \/ e \in inbox /\ e.copy = 1
    \/ task[e] \notin {"none", "done"}
    \/ e \in replied

NothingSlips ==
    \A m \in posted : Kind[m] # "quiet" =>
        \E e \in Events : e.post = m /\ e.source # "echo" /\ FollowedUp(e)

\* A post written where Kevin listens is answered (main.go:222-266), unless the
\* agent or Slack fails or the process dies at it: no order of events and no
\* cleared map makes it slip through.
ListenedAnswered ==
    \A m \in Posts : Kind[m] # "quiet" =>
        (m \in posted ~> \E e \in Events :
             e.post = m /\ (e \in replied \/ task[e] \in {"failed", "lost"}))

\* routing_test.go:23, "channel, tagged -> reply".  In a channel Kevin does not
\* listen to, the `message` event of a mention may come first: it is dropped by
\* ShouldHandle, and the `app_mention` event is then dropped as a duplicate.
MentionAnswered ==
    \A m \in Mentions : m \in posted ~> \E e \in replied : e.post = m

\* README.md:43, "last 10 channel msgs or full thread": when a follow-up in a
\* thread reaches the agent, the post that opened the thread is in its context
\* or in the conversation it resumes.  The thread query (db.go:56) does not
\* match the root's row, whose thread_ts is NULL, and the root was answered
\* under the session key of the channel (main.go:245).
FollowUpKnowsThread ==
    \A e \in Events :
        task[e] = "agent" /\ Thread[e.post] # TopLevel =>
            Thread[e.post] \in history[e] \cup session[SessionKey(e)]
===============================================================================
