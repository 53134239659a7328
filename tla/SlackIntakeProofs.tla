-------------------------- MODULE SlackIntakeProofs ---------------------------
(***************************************************************************)
(* Proofs about SlackIntake for every set of posts, channels and threads,  *)
(* every size of the dedup map and of the history, and any mix of faults:  *)
(* a post is handled once, a reply was invited, and the eyes on a post     *)
(* mean work.                                                              *)
(***************************************************************************)
EXTENDS SlackIntake, FiniteSetTheorems, TLAPS

Working == {"history", "agent", "uneyes", "uneyesError", "lost"}

\* The types, without the bound on the map.
Types ==
    /\ posted \subseteq Posts
    /\ inbox \subseteq Events
    /\ seen \subseteq Posts \X BOOLEAN
    /\ forgot \subseteq Posts \X BOOLEAN
    /\ task \in [Events -> Stages]
    /\ saved \in Seq(Events)
    /\ eyes \subseteq Posts /\ kept \subseteq Posts
    /\ history \in [Events -> SUBSET Posts]
    /\ session \in [SessionKeys -> SUBSET Posts]
    /\ replied \subseteq Events

\* The dedup map is cleared in time.
MapBounded == Cardinality(seen) <= SeenLimit

\* An event exists only of a post that was made, a mention only of a post that
\* names Kevin.
Known(e) == e.post \in posted /\ (IsMention(e) => e.post \in Mentions)
EventsKnown ==
    /\ \A e \in inbox : Known(e)
    /\ \A e \in Events : task[e] # "none" => Known(e)

\* A reply that comes back starts nothing, and what a goroutine was started for
\* is not delivered a second time: Slack sends another copy instead.
DeliveredOnce ==
    \A e \in Events :
        /\ e.source = "echo" => task[e] = "none"
        /\ e \in inbox => task[e] = "none"

\* A goroutine gets past ShouldHandle only with an event to handle, and deals
\* with eyes only for a mention.
RightPath ==
    \A e \in Events :
        /\ task[e] \in {"eyes", "uneyes", "uneyesError"} => IsMention(e)
        /\ task[e] \in {"eyes", "history", "agent", "uneyes", "uneyesError", "reply"}
             => ShouldHandle(e)

\* The key of a goroutine of this process is in the map, or was cleared with it.
RanIsSeen == \A e \in Events : Ran(e) => Key(e) \in seen \cup forgot

\* The eyes are on a post because of a mention of it that is being worked on.
MentionWorks ==
    \A m \in eyes \ kept : \E e \in Events :
        e.post = m /\ IsMention(e) /\ task[e] \in Working

IntakeInv ==
    /\ Types /\ MapBounded
    /\ EventsKnown /\ DeliveredOnce /\ RightPath
    /\ RepliesInvited
    /\ RanIsSeen /\ HandledOnce
    /\ MentionWorks

\* The map can be counted: its keys are made of posts.
LEMMA KeysFinite == ASSUME NEW K \in SUBSET (Posts \X BOOLEAN)
                    PROVE  IsFiniteSet(K) /\ Cardinality(K) \in Nat
  <1>1. IsFiniteSet(BOOLEAN)
    <2>1. IsFiniteSet({TRUE} \cup {FALSE})
      BY FS_Singleton, FS_Union
    <2>2. BOOLEAN = {TRUE} \cup {FALSE}
      OBVIOUS
    <2>3. QED
      BY <2>1, <2>2
  <1>2. IsFiniteSet(Posts \X BOOLEAN)
    BY <1>1, FS_Product, IntakeAssumption
  <1>3. QED
    BY <1>2, FS_Subset, FS_CardinalityType

\* What a goroutine fetches as context are posts.
LEMMA RecentPosts == ASSUME Types, NEW e \in Events
                     PROVE  Recent(e) \subseteq Posts
  <1>1. ASSUME NEW i \in DOMAIN saved PROVE saved[i].post \in Posts
    <2>1. saved[i] \in Events
      <3>1. saved \in Seq(Events) /\ i \in 1..Len(saved)
        BY DEF Types
      <3>2. QED
        BY <3>1
    <2>2. QED
      BY <2>1 DEF Events
  <1>2. QED
    BY <1>1 DEF Recent, Rows

\* An event's goroutine moves on, and no other does.
LEMMA GotoMoves ==
  ASSUME Types, NEW e \in Events, NEW from, NEW to, Goto(e, from, to)
  PROVE  /\ task[e] = from /\ task'[e] = to
         /\ \A d \in Events : d # e => task'[d] = task[d]
  BY DEF Goto, Types

\* At first nothing was posted and nothing runs.
LEMMA InitIntake == Init => IntakeInv
  <1> SUFFICES ASSUME Init PROVE IntakeInv
    OBVIOUS
  <1>1. Types
    BY DEF Init, Types, Stages
  <1>2. MapBounded
    BY FS_EmptySet, IntakeAssumption DEF Init, MapBounded
  <1>3. EventsKnown /\ DeliveredOnce /\ RightPath
    BY DEF Init, EventsKnown, DeliveredOnce, RightPath
  <1>4. RepliesInvited /\ RanIsSeen /\ HandledOnce /\ MentionWorks
    BY DEF Init, RepliesInvited, RanIsSeen, HandledOnce, MentionWorks, Ran
  <1>5. QED
    BY <1>1, <1>2, <1>3, <1>4 DEF IntakeInv

-------------------------------------------------------------------------------
\* A new post has no goroutine yet: its events are known, and delivered once.
LEMMA PostStep == ASSUME IntakeInv, NEW m \in Posts, Post(m) PROVE IntakeInv'
  <1> USE DEF IntakeInv
  <1>1. /\ posted' = posted \cup {m} /\ m \notin posted
        /\ UNCHANGED <<seen, forgot, task, saved, eyes, history, session, replied, kept>>
    BY DEF Post
  <1>2. ASSUME NEW e \in inbox' \ inbox
        PROVE  /\ e \in Events /\ e.post = m /\ e.source # "echo"
               /\ IsMention(e) => m \in Mentions
    <2>1. e \in [post : {m}, copy : IF m \in Twice THEN {1, 2} ELSE {1},
                 source : IF m \in Mentions THEN {"message", "app_mention"}
                          ELSE {"message"}]
      BY <1>2 DEF Post
    <2>2. QED
      BY <2>1 DEF Events, IsMention
  <1>3. Types'
    BY <1>1, <1>2 DEF Types
  <1>4. EventsKnown'
    BY <1>1, <1>2 DEF EventsKnown, Known, IsMention
  <1>5. DeliveredOnce'
    <2>1. ASSUME NEW e \in Events, e \in inbox' \ inbox PROVE task[e] = "none"
      BY <1>1, <1>2, <2>1 DEF EventsKnown, Known
    <2>2. QED
      BY <1>1, <2>1 DEF DeliveredOnce
  <1>6. MapBounded' /\ RightPath' /\ RepliesInvited' /\ RanIsSeen' /\ HandledOnce'
    BY <1>1 DEF MapBounded, RightPath, RepliesInvited, RanIsSeen, HandledOnce, Ran, ShouldHandle, Invited
  <1>7. MentionWorks'
    BY <1>1 DEF MentionWorks
  <1>8. QED
    BY <1>3, <1>4, <1>5, <1>6, <1>7

\* An event that is let through has a key that no goroutine of this process
\* has, unless the map was cleared; its own goroutine is its first.
LEMMA DeliverStep == ASSUME IntakeInv, NEW e \in Events, Deliver(e) PROVE IntakeInv'
  <1> USE DEF IntakeInv
  <1>1. /\ e \in inbox /\ inbox' = inbox \ {e} /\ task[e] = "none"
        /\ UNCHANGED <<posted, saved, eyes, history, session, replied, kept>>
    BY DEF Deliver, DeliveredOnce
  <1>2. CASE UNCHANGED <<seen, forgot, task>>
    <2>1. Types' /\ MapBounded'
      BY <1>1, <1>2 DEF Types, MapBounded
    <2>2. EventsKnown' /\ DeliveredOnce' /\ RightPath'
      BY <1>1, <1>2 DEF EventsKnown, Known, DeliveredOnce, RightPath
    <2>3. RepliesInvited' /\ RanIsSeen' /\ HandledOnce' /\ MentionWorks'
      BY <1>1, <1>2 DEF RepliesInvited, RanIsSeen, HandledOnce, MentionWorks, Ran
    <2>4. QED
      BY <2>1, <2>2, <2>3
  <1>3. CASE /\ ~FromBot(e) /\ Key(e) \notin seen
             /\ seen' = Remember(e)
             /\ forgot' = IF Overflows(e) THEN forgot \cup seen \cup {Key(e)} ELSE forgot
             /\ Dispatch(e)
    <2>1. task'[e] = "started" /\ \A d \in Events : d # e => task'[d] = task[d]
      BY <1>3 DEF Dispatch, Types
    <2>2. Key(e) \in Posts \X BOOLEAN
      BY DEF Key, Events
    <2>3. seen \cup forgot \cup {Key(e)} \subseteq seen' \cup forgot'
          /\ forgot \subseteq forgot'
      BY <1>3 DEF Remember
    <2>4. Types'
      BY <1>1, <1>3, <2>2 DEF Types, Remember, Dispatch, Stages
    <2>5. MapBounded'
      <3>1. CASE Overflows(e)
        BY <1>3, <3>1, FS_EmptySet, IntakeAssumption DEF Remember, MapBounded
      <3>2. CASE ~Overflows(e)
        <4>1. Cardinality(seen \cup {Key(e)}) \in Nat
          BY <2>2, KeysFinite DEF Types
        <4>2. QED
          BY <1>3, <3>2, <4>1, IntakeAssumption DEF Remember, Overflows, MapBounded
      <3>3. QED
        BY <3>1, <3>2
    <2>6. EventsKnown'
      BY <1>1, <2>1 DEF EventsKnown, Known
    <2>7. DeliveredOnce'
      BY <1>1, <1>3, <2>1 DEF DeliveredOnce, FromBot
    <2>8. RightPath' /\ RepliesInvited'
      BY <1>1, <2>1 DEF RightPath, RepliesInvited
    <2>9. RanIsSeen'
      BY <2>1, <2>3 DEF RanIsSeen, Ran
    <2>10. HandledOnce'
      <3>1. ASSUME NEW d \in Events, d # e, Key(d) = Key(e), Ran(d)
            PROVE  Key(e) \in forgot
        BY <1>3, <3>1 DEF RanIsSeen
      <3>2. QED
        BY <2>1, <2>3, <3>1 DEF HandledOnce, Ran
    <2>11. MentionWorks'
      BY <1>1, <2>1 DEF MentionWorks, Working
    <2>12. QED
      BY <2>4, <2>5, <2>6, <2>7, <2>8, <2>9, <2>10, <2>11
  <1>4. QED
    BY <1>2, <1>3 DEF Deliver

\* What a step of a started goroutine leaves true whatever it does to the rest.
LEMMA GotoKeeps ==
  ASSUME IntakeInv, NEW e \in Events, NEW from \in Stages \ {"none", "lost"},
         NEW to \in Stages \ {"none", "lost"}, Goto(e, from, to),
         UNCHANGED <<posted, seen, forgot>>
  PROVE  /\ task' \in [Events -> Stages]
         /\ MapBounded' /\ RanIsSeen' /\ HandledOnce'
         /\ e.source # "echo" /\ e \notin inbox /\ Known(e)
         /\ \A d \in Events : task'[d] # "none" => Known(d)'
  <1> USE DEF IntakeInv
  <1>1. /\ task[e] = from /\ task'[e] = to
        /\ \A d \in Events : d # e => task'[d] = task[d]
    BY GotoMoves
  <1>2. \A d \in Events : Ran(d)' <=> Ran(d)
    BY <1>1 DEF Ran
  <1>3. MapBounded' /\ RanIsSeen' /\ HandledOnce'
    BY <1>2 DEF MapBounded, RanIsSeen, HandledOnce
  <1>4. e.source # "echo" /\ e \notin inbox /\ Known(e)
    BY <1>1 DEF DeliveredOnce, EventsKnown
  <1>5. \A d \in Events : task'[d] # "none" => Known(d)'
    BY <1>1, <1>4 DEF EventsKnown, Known
  <1>6. task' \in [Events -> Stages]
    BY DEF Goto, Types
  <1>7. QED
    BY <1>3, <1>4, <1>5, <1>6

\* The row is saved; only an event to handle goes on.
LEMMA SaveStep == ASSUME IntakeInv, NEW e \in Events, Save(e) PROVE IntakeInv'
  <1> USE DEF IntakeInv
  <1>1. PICK to \in {"done", "eyes", "history"} :
          /\ Goto(e, "started", to)
          /\ to # "done" => ShouldHandle(e)
          /\ to = "eyes" => IsMention(e)
    BY DEF Save
  <1>2. UNCHANGED <<intake, eyes, history, session, replied, kept>>
    BY DEF Save
  <1>3. /\ task[e] = "started" /\ task'[e] = to
        /\ \A d \in Events : d # e => task'[d] = task[d]
    BY <1>1, GotoMoves
  <1>4. /\ task' \in [Events -> Stages] /\ MapBounded' /\ RanIsSeen' /\ HandledOnce'
        /\ e.source # "echo" /\ e \notin inbox
        /\ \A d \in Events : task'[d] # "none" => Known(d)'
    BY <1>1, <1>2, GotoKeeps DEF intake, Stages
  <1>5. saved' \in Seq(Events)
    BY DEF Save, Types
  <1>6. Types'
    BY <1>2, <1>4, <1>5 DEF Types, intake
  <1>7. EventsKnown' /\ DeliveredOnce'
    BY <1>2, <1>3, <1>4 DEF EventsKnown, DeliveredOnce, Known, intake
  <1>8. RightPath' /\ RepliesInvited'
    BY <1>1, <1>2, <1>3 DEF RightPath, RepliesInvited
  <1>9. MentionWorks'
    BY <1>2, <1>3 DEF MentionWorks, Working
  <1>10. QED
    BY <1>4, <1>6, <1>7, <1>8, <1>9

\* Eyes are put on the post of a mention, which is worked on from here.
LEMMA AddEyesStep == ASSUME IntakeInv, NEW e \in Events, AddEyes(e) PROVE IntakeInv'
  <1> USE DEF IntakeInv
  <1>1. Goto(e, "eyes", "history") /\ UNCHANGED <<intake, saved, history, session, replied, kept>>
    BY DEF AddEyes
  <1>2. /\ task[e] = "eyes" /\ task'[e] = "history"
        /\ \A d \in Events : d # e => task'[d] = task[d]
    BY <1>1, GotoMoves
  <1>3. /\ task' \in [Events -> Stages] /\ MapBounded' /\ RanIsSeen' /\ HandledOnce'
        /\ e.source # "echo" /\ e \notin inbox
        /\ \A d \in Events : task'[d] # "none" => Known(d)'
    BY <1>1, GotoKeeps DEF intake, Stages
  <1>4. eyes' \subseteq eyes \cup {e.post}
    BY DEF AddEyes
  <1>5. Types'
    BY <1>1, <1>3, <1>4 DEF Types, intake, Events
  <1>6. EventsKnown' /\ DeliveredOnce'
    BY <1>1, <1>2, <1>3 DEF EventsKnown, DeliveredOnce, Known, intake
  <1>7. RightPath' /\ RepliesInvited'
    BY <1>1, <1>2 DEF RightPath, RepliesInvited
  <1>8. MentionWorks'
    <2>1. IsMention(e) /\ task'[e] \in Working
      BY <1>2 DEF RightPath, Working
    <2>2. QED
      BY <1>1, <1>2, <1>4, <2>1 DEF MentionWorks, Working
  <1>9. QED
    BY <1>3, <1>5, <1>6, <1>7, <1>8

\* The context fetched is made of posts.
LEMMA FetchStep == ASSUME IntakeInv, NEW e \in Events, Fetch(e) PROVE IntakeInv'
  <1> USE DEF IntakeInv
  <1>1. Goto(e, "history", "agent") /\ UNCHANGED <<intake, saved, eyes, session, replied, kept>>
    BY DEF Fetch
  <1>2. /\ task[e] = "history" /\ task'[e] = "agent"
        /\ \A d \in Events : d # e => task'[d] = task[d]
    BY <1>1, GotoMoves
  <1>3. /\ task' \in [Events -> Stages] /\ MapBounded' /\ RanIsSeen' /\ HandledOnce'
        /\ e.source # "echo" /\ e \notin inbox
        /\ \A d \in Events : task'[d] # "none" => Known(d)'
    BY <1>1, GotoKeeps DEF intake, Stages
  <1>4. history' \in [Events -> SUBSET Posts]
    BY RecentPosts DEF Fetch, Types
  <1>5. Types'
    BY <1>1, <1>3, <1>4 DEF Types, intake
  <1>6. EventsKnown' /\ DeliveredOnce'
    BY <1>1, <1>2, <1>3 DEF EventsKnown, DeliveredOnce, Known, intake
  <1>7. RightPath' /\ RepliesInvited'
    BY <1>1, <1>2 DEF RightPath, RepliesInvited
  <1>8. MentionWorks'
    BY <1>1, <1>2 DEF MentionWorks, Working
  <1>9. QED
    BY <1>3, <1>5, <1>6, <1>7, <1>8

\* Whatever the agent returns, a mention still has its eyes to lose.
LEMMA AskAgentStep == ASSUME IntakeInv, NEW e \in Events, AskAgent(e) PROVE IntakeInv'
  <1> USE DEF IntakeInv
  <1>1. PICK to \in {"uneyes", "uneyesError", "reply", "failed"} :
          /\ Goto(e, "agent", to)
          /\ to \in {"uneyes", "uneyesError"} <=> IsMention(e)
    BY DEF AskAgent, AfterAgent
  <1>2. UNCHANGED <<intake, saved, eyes, replied, kept>>
    BY DEF AskAgent
  <1>3. /\ task[e] = "agent" /\ task'[e] = to
        /\ \A d \in Events : d # e => task'[d] = task[d]
    BY <1>1, GotoMoves
  <1>4. /\ task' \in [Events -> Stages] /\ MapBounded' /\ RanIsSeen' /\ HandledOnce'
        /\ e.source # "echo" /\ e \notin inbox
        /\ \A d \in Events : task'[d] # "none" => Known(d)'
    BY <1>1, <1>2, GotoKeeps DEF intake, Stages
  <1>5. history' \in [Events -> SUBSET Posts] /\ session' \in [SessionKeys -> SUBSET Posts]
    <2>1. e.post \in Posts
      BY DEF Events
    <2>2. QED
      BY <2>1 DEF AskAgent, Types
  <1>6. Types'
    BY <1>2, <1>4, <1>5 DEF Types, intake
  <1>7. EventsKnown' /\ DeliveredOnce'
    BY <1>2, <1>3, <1>4 DEF EventsKnown, DeliveredOnce, Known, intake
  <1>8. RightPath' /\ RepliesInvited'
    BY <1>1, <1>2, <1>3 DEF RightPath, RepliesInvited
  <1>9. MentionWorks'
    BY <1>1, <1>2, <1>3 DEF MentionWorks, Working
  <1>10. QED
    BY <1>4, <1>6, <1>7, <1>8, <1>9

\* The eyes come off, or Slack has kept them on, before the goroutine goes on.
LEMMA RemoveEyesStep == ASSUME IntakeInv, NEW e \in Events, RemoveEyes(e) PROVE IntakeInv'
  <1> USE DEF IntakeInv
  <1>1. PICK from \in {"uneyes", "uneyesError"}, to \in {"reply", "failed"} :
          Goto(e, from, to)
    BY DEF RemoveEyes
  <1>2. UNCHANGED <<intake, saved, history, session, replied>>
    BY DEF RemoveEyes
  <1>3. /\ task[e] = from /\ task'[e] = to
        /\ \A d \in Events : d # e => task'[d] = task[d]
    BY <1>1, GotoMoves
  <1>4. /\ task' \in [Events -> Stages] /\ MapBounded' /\ RanIsSeen' /\ HandledOnce'
        /\ e.source # "echo" /\ e \notin inbox
        /\ \A d \in Events : task'[d] # "none" => Known(d)'
    BY <1>1, <1>2, GotoKeeps DEF intake, Stages
  <1>5. /\ eyes' \subseteq eyes /\ kept \subseteq kept' /\ kept' \subseteq kept \cup {e.post}
        /\ e.post \notin eyes' \ kept'
    BY DEF RemoveEyes
  <1>6. Types'
    BY <1>2, <1>4, <1>5 DEF Types, intake, Events
  <1>7. EventsKnown' /\ DeliveredOnce'
    BY <1>2, <1>3, <1>4 DEF EventsKnown, DeliveredOnce, Known, intake
  <1>8. RightPath' /\ RepliesInvited'
    BY <1>2, <1>3 DEF RightPath, RepliesInvited
  <1>9. MentionWorks'
    BY <1>3, <1>5 DEF MentionWorks
  <1>10. QED
    BY <1>4, <1>6, <1>7, <1>8, <1>9

\* A reply answers an event that was to be handled; it comes back as an echo,
\* which has no goroutine.
LEMMA ReplyStep == ASSUME IntakeInv, NEW e \in Events, Reply(e) PROVE IntakeInv'
  <1> USE DEF IntakeInv
  <1> DEFINE echo == [e EXCEPT !.source = "echo"]
  <1>1. PICK to \in {"done", "failed"} : Goto(e, "reply", to)
    BY DEF Reply
  <1>2. UNCHANGED <<posted, seen, forgot, saved, eyes, history, session, kept>>
    BY DEF Reply
  <1>3. /\ task[e] = "reply" /\ task'[e] = to
        /\ \A d \in Events : d # e => task'[d] = task[d]
    BY <1>1, GotoMoves
  <1>4. /\ task' \in [Events -> Stages] /\ MapBounded' /\ RanIsSeen' /\ HandledOnce'
        /\ e.source # "echo" /\ e \notin inbox /\ Known(e)
        /\ \A d \in Events : task'[d] # "none" => Known(d)'
    BY <1>1, <1>2, GotoKeeps DEF Stages
  <1>5. echo \in Events /\ echo.post = e.post /\ echo.source = "echo"
    BY DEF Events
  <1>6. inbox' \subseteq inbox \cup {echo} /\ replied' \subseteq replied \cup {e}
    BY DEF Reply
  <1> HIDE DEF echo
  <1>7. Types'
    BY <1>2, <1>4, <1>5, <1>6 DEF Types
  <1>8. EventsKnown'
    BY <1>2, <1>4, <1>5, <1>6 DEF EventsKnown, Known, IsMention
  <1>9. DeliveredOnce'
    BY <1>3, <1>4, <1>5, <1>6 DEF DeliveredOnce
  <1>10. RightPath'
    BY <1>3 DEF RightPath
  <1>11. RepliesInvited'
    <2>1. Invited(e.post)
      BY <1>3, <1>4 DEF RightPath, ShouldHandle, Known, Invited
    <2>2. QED
      BY <1>4, <1>6, <2>1 DEF RepliesInvited
  <1>12. MentionWorks'
    BY <1>2, <1>3 DEF MentionWorks, Working
  <1>13. QED
    BY <1>4, <1>7, <1>8, <1>9, <1>10, <1>11, <1>12

\* A restart loses the goroutines and forgets the map with them.
LEMMA RestartStep == ASSUME IntakeInv, Restart PROVE IntakeInv'
  <1> USE DEF IntakeInv
  <1>1. /\ task' = [e \in Events |-> IF task[e] = "none" THEN "none" ELSE "lost"]
        /\ seen' = {} /\ forgot' = {}
        /\ UNCHANGED <<posted, inbox, saved, eyes, session, replied, kept>>
    BY DEF Restart
  <1>2. Types'
    BY <1>1 DEF Restart, Types, Stages
  <1>3. MapBounded'
    BY <1>1, FS_EmptySet, IntakeAssumption DEF MapBounded
  <1>4. EventsKnown' /\ DeliveredOnce' /\ RightPath'
    BY <1>1 DEF EventsKnown, Known, DeliveredOnce, RightPath
  <1>5. RepliesInvited' /\ RanIsSeen' /\ HandledOnce'
    BY <1>1 DEF RepliesInvited, RanIsSeen, HandledOnce, Ran
  <1>6. MentionWorks'
    BY <1>1 DEF MentionWorks, Working
  <1>7. QED
    BY <1>2, <1>3, <1>4, <1>5, <1>6

\* Every step keeps the invariant.
LEMMA IntakeStep == IntakeInv /\ [Next]_vars => IntakeInv'
  <1> SUFFICES ASSUME IntakeInv, [Next]_vars PROVE IntakeInv'
    OBVIOUS
  <1>1. CASE Restart
    BY <1>1, RestartStep
  <1>2. ASSUME NEW m \in Posts, Post(m) PROVE IntakeInv'
    BY <1>2, PostStep
  <1>3. ASSUME NEW e \in Events, Deliver(e) PROVE IntakeInv'
    BY <1>3, DeliverStep
  <1>4. ASSUME NEW e \in Events, Handle(e) PROVE IntakeInv'
    BY <1>4, SaveStep, AddEyesStep, FetchStep, AskAgentStep, RemoveEyesStep,
       ReplyStep DEF Handle
  <1>5. CASE UNCHANGED vars
    <2>1. UNCHANGED <<posted, inbox, seen, forgot, task, saved, eyes, history,
                      session, replied, kept>>
      BY <1>5 DEF vars, intake
    <2>2. Types' /\ MapBounded'
      BY <2>1 DEF IntakeInv, Types, MapBounded
    <2>3. EventsKnown' /\ DeliveredOnce' /\ RightPath'
      BY <2>1 DEF IntakeInv, EventsKnown, Known, DeliveredOnce, RightPath
    <2>4. RepliesInvited' /\ RanIsSeen' /\ HandledOnce' /\ MentionWorks'
      BY <2>1 DEF IntakeInv, RepliesInvited, RanIsSeen, HandledOnce, MentionWorks, Ran
    <2>5. QED
      BY <2>2, <2>3, <2>4 DEF IntakeInv
  <1>6. QED
    BY <1>1, <1>2, <1>3, <1>4, <1>5 DEF Next

\* The invariant holds in every state of every behaviour.
THEOREM IntakeInvariant == Spec => []IntakeInv
  BY InitIntake, IntakeStep, PTL DEF Spec

\* Every variable has its type, and the dedup map never holds more than its
\* limit (slack.go:70-73), whatever the limit.
THEOREM TypeCorrect == Spec => []TypeOK
  <1>1. IntakeInv => TypeOK
    BY DEF IntakeInv, Types, MapBounded, TypeOK
  <1>2. QED
    BY IntakeInvariant, <1>1, PTL

\* Kevin replies only to a post that names him or is written where he listens,
\* never to himself (slack.go:106-109, 191-204), under any faults.
THEOREM OnlyInvited == Spec => []RepliesInvited
  <1>1. IntakeInv => RepliesInvited
    BY DEF IntakeInv
  <1>2. QED
    BY IntakeInvariant, <1>1, PTL

\* One goroutine of a process handles a post, whatever events are made of it
\* and in whatever order, as long as its key was not cleared (slack.go:61-73).
THEOREM OneGoroutine == Spec => []HandledOnce
  <1>1. IntakeInv => HandledOnce
    BY DEF IntakeInv
  <1>2. QED
    BY IntakeInvariant, <1>1, PTL

\* The eyes are on a post only while a goroutine works on it
\* (main.go:233-257), unless Slack refused to take them off or the process died.
THEOREM EyesMeanWork == Spec => []EyesMeanWorking
  <1>1. IntakeInv => EyesMeanWorking
    BY DEF IntakeInv, MentionWorks, EyesMeanWorking, Working
  <1>2. QED
    BY IntakeInvariant, <1>1, PTL

-------------------------------------------------------------------------------
(* No post slips through.  A duplicate is dropped because another event of its *)
(* post was let through, and an event that was let through is answered before  *)
(* it is done with.                                                            *)
SeenRan == \A k \in seen : \E d \in Events :
               Key(d) = k /\ d.source # "echo" /\ task[d] # "none"

DoneReplied == \A d \in Events :
                   task[d] = "done" /\ Kind[d.post] # "quiet" => d \in replied

FollowInv == SeenRan /\ DoneReplied /\ NothingSlips

\* A new post comes with a message event that Slack has yet to deliver.
LEMMA PostFollows ==
  ASSUME FollowInv, NEW m \in Posts, Post(m)
  PROVE  FollowInv'
  <1>1. /\ posted' = posted \cup {m} /\ inbox \subseteq inbox'
        /\ UNCHANGED <<seen, task, replied>>
    BY DEF Post
  <1>2. SeenRan' /\ DoneReplied'
    BY <1>1 DEF FollowInv, SeenRan, DoneReplied
  <1>3. ASSUME NEW p \in posted', Kind[p] # "quiet"
        PROVE  \E e \in Events : e.post = p /\ e.source # "echo" /\ FollowedUp(e)'
    <2>1. CASE p = m
      <3> DEFINE e == [post |-> m, source |-> "message", copy |-> 1]
      <3>1. e \in Events /\ e.post = m /\ e.source # "echo" /\ e.copy = 1
        BY DEF Events
      <3>2. e \in inbox'
        BY DEF Post
      <3> HIDE DEF e
      <3>3. FollowedUp(e)'
        BY <3>1, <3>2 DEF FollowedUp
      <3>4. QED
        BY <2>1, <3>1, <3>3
    <2>2. CASE p # m
      <3>1. PICK e \in Events : e.post = p /\ e.source # "echo" /\ FollowedUp(e)
        BY <1>1, <1>3, <2>2 DEF FollowInv, NothingSlips
      <3>2. FollowedUp(e)'
        BY <1>1, <3>1 DEF FollowedUp
      <3>3. QED
        BY <3>1, <3>2
    <2>3. QED
      BY <2>1, <2>2
  <1>4. QED
    BY <1>2, <1>3 DEF FollowInv, NothingSlips

\* An event that is let through has a goroutine; one that is dropped was a
\* duplicate of one that has.
LEMMA DeliverFollows ==
  ASSUME IntakeInv, FollowInv, NEW e \in Events, Deliver(e)
  PROVE  FollowInv'
  <1>1. /\ e \in inbox /\ inbox' = inbox \ {e} /\ task[e] = "none"
        /\ UNCHANGED <<posted, replied>>
    BY DEF Deliver, IntakeInv, DeliveredOnce
  <1>2. ASSUME NEW p \in posted, Kind[p] # "quiet"
        PROVE  \E d \in Events : d.post = p /\ d.source # "echo" /\ FollowedUp(d)
    BY <1>2 DEF FollowInv, NothingSlips
  <1>3. CASE /\ FromBot(e) \/ Key(e) \in seen
             /\ UNCHANGED <<seen, forgot, task>>
    <2>1. SeenRan' /\ DoneReplied'
      BY <1>1, <1>3 DEF FollowInv, SeenRan, DoneReplied
    <2>2. ASSUME NEW p \in posted, Kind[p] # "quiet"
          PROVE  \E d \in Events : d.post = p /\ d.source # "echo" /\ FollowedUp(d)'
      <3>1. PICK d \in Events : d.post = p /\ d.source # "echo" /\ FollowedUp(d)
        BY <1>2, <2>2
      <3>2. CASE d # e
        <4>1. FollowedUp(d)'
          BY <1>1, <1>3, <3>1, <3>2 DEF FollowedUp
        <4>2. QED
          BY <3>1, <4>1
      <3>3. CASE d = e
        <4>1. Key(e) \in seen
          BY <1>3, <3>1, <3>3 DEF FromBot
        <4>2. PICK f \in Events :
                Key(f) = Key(e) /\ f.source # "echo" /\ task[f] # "none"
          BY <4>1 DEF FollowInv, SeenRan
        <4>3. f.post = p
          BY <3>1, <3>3, <4>2 DEF Key
        <4>4. task[f] = "done" => f \in replied
          BY <2>2, <4>3 DEF FollowInv, DoneReplied
        <4>5. FollowedUp(f)'
          BY <1>1, <1>3, <4>2, <4>4 DEF FollowedUp
        <4>6. QED
          BY <4>2, <4>3, <4>5
      <3>4. QED
        BY <3>2, <3>3
    <2>3. QED
      BY <1>1, <2>1, <2>2 DEF FollowInv, NothingSlips
  <1>4. CASE ~FromBot(e) /\ seen' = Remember(e) /\ Dispatch(e)
    <2>1. task'[e] = "started" /\ \A d \in Events : d # e => task'[d] = task[d]
      BY <1>4 DEF Dispatch, IntakeInv, Types
    <2>2. SeenRan'
      <3>1. seen' \subseteq seen \cup {Key(e)} /\ e.source # "echo"
        BY <1>4 DEF Remember, FromBot
      <3>2. ASSUME NEW k \in seen'
            PROVE  \E d \in Events : Key(d) = k /\ d.source # "echo" /\ task'[d] # "none"
        <4>1. CASE k = Key(e)
          BY <2>1, <3>1, <4>1
        <4>2. CASE k \in seen
          BY <2>1, <4>2 DEF FollowInv, SeenRan
        <4>3. QED
          BY <3>1, <4>1, <4>2
      <3>3. QED
        BY <3>2 DEF SeenRan
    <2>3. DoneReplied'
      BY <1>1, <2>1 DEF FollowInv, DoneReplied
    <2>4. ASSUME NEW p \in posted, Kind[p] # "quiet"
          PROVE  \E d \in Events : d.post = p /\ d.source # "echo" /\ FollowedUp(d)'
      <3>1. PICK d \in Events : d.post = p /\ d.source # "echo" /\ FollowedUp(d)
        BY <1>2, <2>4
      <3>2. FollowedUp(d)'
        BY <1>1, <2>1, <3>1 DEF FollowedUp
      <3>3. QED
        BY <3>1, <3>2
    <2>5. QED
      BY <1>1, <2>2, <2>3, <2>4 DEF FollowInv, NothingSlips
  <1>5. QED
    BY <1>3, <1>4 DEF Deliver

\* A goroutine that goes on still follows up its event, if a reply is what it
\* is done with.
LEMMA GotoFollows ==
  ASSUME IntakeInv, FollowInv, NEW e \in Events,
         NEW from \in Stages \ {"none"}, NEW to \in Stages \ {"none"},
         Goto(e, from, to), UNCHANGED <<posted, seen>>,
         inbox \subseteq inbox', replied \subseteq replied',
         to = "done" /\ Kind[e.post] # "quiet" => e \in replied'
  PROVE  FollowInv'
  <1>1. /\ task[e] = from /\ task'[e] = to
        /\ \A d \in Events : d # e => task'[d] = task[d]
    BY GotoMoves DEF IntakeInv
  <1>2. SeenRan'
    BY <1>1 DEF FollowInv, SeenRan
  <1>3. DoneReplied'
    BY <1>1 DEF FollowInv, DoneReplied
  <1>4. ASSUME NEW p \in posted, Kind[p] # "quiet"
        PROVE  \E d \in Events : d.post = p /\ d.source # "echo" /\ FollowedUp(d)'
    <2>1. PICK d \in Events : d.post = p /\ d.source # "echo" /\ FollowedUp(d)
      BY <1>4 DEF FollowInv, NothingSlips
    <2>2. FollowedUp(d)'
      BY <1>1, <1>4, <2>1 DEF FollowedUp
    <2>3. QED
      BY <2>1, <2>2
  <1>5. QED
    BY <1>2, <1>3, <1>4 DEF FollowInv, NothingSlips

\* Only what is not to be handled is done with unanswered, and where Kevin
\* listens everything is to be handled.
LEMMA HandleFollows ==
  ASSUME IntakeInv, FollowInv, NEW e \in Events, Handle(e)
  PROVE  FollowInv'
  <1>1. CASE Save(e)
    <2>1. PICK to \in {"done", "eyes", "history"} :
            Goto(e, "started", to) /\ (to = "done" => ~ShouldHandle(e))
      BY <1>1 DEF Save
    <2>2. UNCHANGED <<posted, seen, inbox, replied>> /\ e.post \in Posts
      BY <1>1 DEF Save, intake, Events
    <2>3. ~ShouldHandle(e) => Kind[e.post] = "quiet"
      BY <2>2, IntakeAssumption DEF ShouldHandle
    <2>4. QED
      BY <2>1, <2>2, <2>3, GotoFollows DEF Stages
  <1>2. CASE AddEyes(e) \/ Fetch(e)
    <2>1. /\ Goto(e, "eyes", "history") \/ Goto(e, "history", "agent")
          /\ UNCHANGED <<posted, seen, inbox, replied>>
      BY <1>2 DEF AddEyes, Fetch, intake
    <2>2. QED
      BY <2>1, GotoFollows DEF Stages
  <1>3. CASE AskAgent(e)
    <2>1. PICK to \in {"uneyes", "uneyesError", "reply", "failed"} : Goto(e, "agent", to)
      BY <1>3 DEF AskAgent, AfterAgent
    <2>2. UNCHANGED <<posted, seen, inbox, replied>>
      BY <1>3 DEF AskAgent, intake
    <2>3. QED
      BY <2>1, <2>2, GotoFollows DEF Stages
  <1>4. CASE RemoveEyes(e)
    <2>1. /\ Goto(e, "uneyes", "reply") \/ Goto(e, "uneyesError", "failed")
          /\ UNCHANGED <<posted, seen, inbox, replied>>
      BY <1>4 DEF RemoveEyes, intake
    <2>2. QED
      BY <2>1, GotoFollows DEF Stages
  <1>5. CASE Reply(e)
    <2>1. PICK to \in {"done", "failed"} :
            Goto(e, "reply", to) /\ (to = "done" => e \in replied')
      BY <1>5 DEF Reply
    <2>2. /\ UNCHANGED <<posted, seen>>
          /\ inbox \subseteq inbox' /\ replied \subseteq replied'
      BY <1>5 DEF Reply
    <2>3. QED
      BY <2>1, <2>2, GotoFollows DEF Stages
  <1>6. QED
    BY <1>1, <1>2, <1>3, <1>4, <1>5 DEF Handle

\* What a restart interrupts is lost, and what was done with stays answered or
\* is lost as well; the map it empties drops nothing any more.
LEMMA RestartFollows ==
  ASSUME FollowInv, Restart
  PROVE  FollowInv'
  <1>1. /\ task' = [e \in Events |-> IF task[e] = "none" THEN "none" ELSE "lost"]
        /\ seen' = {} /\ UNCHANGED <<posted, inbox, replied>>
    BY DEF Restart
  <1>2. ASSUME NEW e \in Events, FollowedUp(e) PROVE FollowedUp(e)'
    BY <1>1, <1>2 DEF FollowedUp
  <1>3. SeenRan' /\ DoneReplied'
    BY <1>1 DEF SeenRan, DoneReplied
  <1>4. QED
    BY <1>1, <1>2, <1>3 DEF FollowInv, NothingSlips

\* A post written where Kevin listens never slips through (slack.go:61-73,
\* main.go:222-266): whatever the size of the map, the order of the events and
\* the faults, one of its events is on its way, worked on, answered or lost.
THEOREM NothingSlipsAlways == Spec => []NothingSlips
  <1>1. Init => FollowInv
    BY DEF Init, FollowInv, SeenRan, DoneReplied, NothingSlips
  <1>2. IntakeInv /\ FollowInv /\ [Next]_vars => FollowInv'
    <2> SUFFICES ASSUME IntakeInv, FollowInv, [Next]_vars PROVE FollowInv'
      OBVIOUS
    <2>1. CASE UNCHANGED vars
      <3>1. UNCHANGED <<posted, inbox, seen, task, replied>>
        BY <2>1 DEF vars, intake
      <3>2. SeenRan' /\ DoneReplied'
        BY <3>1 DEF FollowInv, SeenRan, DoneReplied
      <3>3. NothingSlips'
        BY <3>1 DEF FollowInv, NothingSlips, FollowedUp
      <3>4. QED
        BY <3>2, <3>3 DEF FollowInv
    <2>2. QED
      BY <2>1, PostFollows, DeliverFollows, HandleFollows, RestartFollows DEF Next
  <1>3. FollowInv => NothingSlips
    BY DEF FollowInv
  <1>4. QED
    BY <1>1, <1>2, <1>3, IntakeInvariant, PTL DEF Spec
===============================================================================
