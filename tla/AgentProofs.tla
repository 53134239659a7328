----------------------------- MODULE AgentProofs ------------------------------
(***************************************************************************)
(* Proofs about Agent for every set of calls, keys, key assignment and     *)
(* number of slots: slots are accounted for, no thread sees another's      *)
(* conversation, a turn is lost to a rival only, and the agent implements  *)
(* the admission gate.                                                     *)
(***************************************************************************)
EXTENDS Agent, FiniteSetTheorems, TLAPS

\* Admission: the type invariant needs the count, since a release is only safe
\* when the channel holds a token.
AdmissionInv == TypeOK /\ SlotsAccounted

\* The calls in flight can be counted.
LEMMA InFlightFinite == IsFiniteSet(InFlight)
  BY AgentAssumption, FS_Subset DEF InFlight

\* A call that is admitted adds one to the calls in flight.
LEMMA InFlightEnter ==
  ASSUME TypeOK, NEW c \in Calls, pc[c] = "idle",
         pc' = [pc EXCEPT ![c] = "admitted"]
  PROVE  /\ InFlight' = InFlight \cup {c}
         /\ Cardinality(InFlight') = Cardinality(InFlight) + 1
  <1>1. InFlight' = InFlight \cup {c} /\ c \notin InFlight
    BY DEF InFlight, TypeOK
  <1>2. QED
    BY <1>1, InFlightFinite, FS_AddElement

\* A call that returns takes one away.
LEMMA InFlightLeave ==
  ASSUME TypeOK, NEW c \in Calls, c \in InFlight,
         pc' = [pc EXCEPT ![c] = "done"]
  PROVE  /\ InFlight' = InFlight \ {c}
         /\ Cardinality(InFlight') = Cardinality(InFlight) - 1
  <1>1. InFlight' = InFlight \ {c}
    BY DEF InFlight, TypeOK
  <1>2. QED
    BY <1>1, InFlightFinite, FS_RemoveElement

\* A call that goes on inside HandleMessage stays in flight.
LEMMA InFlightSame ==
  ASSUME TypeOK, NEW c \in Calls, c \in InFlight,
         NEW p \in {"starting", "running", "exited", "returning"},
         pc' = [pc EXCEPT ![c] = p]
  PROVE  InFlight' = InFlight
  BY DEF InFlight, TypeOK

\* A call that is refused never was in flight.
LEMMA InFlightRefused ==
  ASSUME TypeOK, NEW c \in Calls, pc[c] = "idle",
         pc' = [pc EXCEPT ![c] = "done"]
  PROVE  InFlight' = InFlight
  BY DEF InFlight, TypeOK

-------------------------------------------------------------------------------
\* At first nothing runs and the semaphore is empty.
LEMMA InitAdmission == Init => AdmissionInv
  <1> SUFFICES ASSUME Init PROVE AdmissionInv
    OBVIOUS
  <1>1. TypeOK
    BY AgentAssumption DEF Init, TypeOK, Sessions, Answers, Silent
  <1>2. InFlight = {}
    BY DEF Init, InFlight
  <1>3. QED
    BY <1>1, <1>2, FS_EmptySet DEF Init, AdmissionInv, SlotsAccounted

\* No step of a call, and no restart, leaks a slot or gives one twice.
LEMMA NextAdmission == AdmissionInv /\ [Next]_vars => AdmissionInv'
  <1> SUFFICES ASSUME AdmissionInv, [Next]_vars PROVE AdmissionInv'
    OBVIOUS
  <1> USE AgentAssumption DEF AdmissionInv
  <1>0. IsFiniteSet(InFlight) /\ Cardinality(InFlight) \in Nat
    BY InFlightFinite, FS_CardinalityType
  <1>1. ASSUME NEW c \in Calls, Admit(c) PROVE AdmissionInv'
    <2>1. TypeOK'
      <3>1. rivals' \in [Calls -> SUBSET Calls]
        BY <1>1 DEF Admit, TypeOK, InFlight, SameKey
      <3>2. sem' \in 0..MaxConcurrent
        BY <1>1 DEF Admit, TypeOK
      <3>3. QED
        BY <1>1, <3>1, <3>2 DEF Admit, TypeOK
    <2>2. SlotsAccounted'
      BY <1>1, InFlightEnter DEF Admit, SlotsAccounted
    <2>3. QED
      BY <2>1, <2>2
  <1>2. ASSUME NEW c \in Calls, Refuse(c) PROVE AdmissionInv'
    <2>1. TypeOK'
      BY <1>2 DEF Refuse, TypeOK, history
    <2>2. SlotsAccounted'
      BY <1>2, InFlightRefused DEF Refuse, SlotsAccounted
    <2>3. QED
      BY <2>1, <2>2
  <1>3. ASSUME NEW c \in Calls, ReadSession(c) PROVE AdmissionInv'
    <2>1. TypeOK'
      <3>1. StoredSession(KeyOf[c]) \in Sessions
        BY DEF StoredSession, TypeOK
      <3>2. QED
        BY <1>3, <3>1 DEF ReadSession, TypeOK
    <2>2. SlotsAccounted'
      BY <1>3, InFlightSame DEF ReadSession, SlotsAccounted, InFlight
    <2>3. QED
      BY <2>1, <2>2
  <1>4. ASSUME NEW c \in Calls, StartClaude(c) PROVE AdmissionInv'
    <2>1. TypeOK'
      <3>1. context' \in [Calls -> SUBSET Calls]
        BY <1>4 DEF StartClaude, TypeOK, Sessions
      <3>2. QED
        BY <1>4, <3>1 DEF StartClaude, TypeOK, history
    <2>2. SlotsAccounted'
      BY <1>4, InFlightSame DEF StartClaude, SlotsAccounted, InFlight
    <2>3. QED
      BY <2>1, <2>2
  <1>5. ASSUME NEW c \in Calls, StartFails(c) PROVE AdmissionInv'
    <2>1. TypeOK'
      BY <1>5 DEF StartFails, TypeOK, history, Answers, Sessions
    <2>2. SlotsAccounted'
      BY <1>5, InFlightSame DEF StartFails, SlotsAccounted, InFlight
    <2>3. QED
      BY <2>1, <2>2
  <1>6. ASSUME NEW c \in Calls, ClaudeAnswers(c) PROVE AdmissionInv'
    <2>1. TypeOK'
      <3>1. answer' \in [Calls -> Answers]
        BY <1>6 DEF ClaudeAnswers, TypeOK, Answers, Sessions
      <3>2. transcript' \in [Calls -> SUBSET Calls]
        BY <1>6 DEF ClaudeAnswers, TypeOK, Sessions
      <3>3. QED
        BY <1>6, <3>1, <3>2 DEF ClaudeAnswers, TypeOK, history
    <2>2. SlotsAccounted'
      BY <1>6, InFlightSame DEF ClaudeAnswers, SlotsAccounted, InFlight
    <2>3. QED
      BY <2>1, <2>2
  <1>7. ASSUME NEW c \in Calls, ClaudeFails(c) PROVE AdmissionInv'
    <2>1. TypeOK'
      <3>1. answer' \in [Calls -> Answers]
        BY <1>7 DEF ClaudeFails, TypeOK, Answers, Sessions
      <3>2. transcript' \in [Calls -> SUBSET Calls]
        BY <1>7 DEF ClaudeFails, TypeOK, Sessions
      <3>3. QED
        BY <1>7, <3>1, <3>2 DEF ClaudeFails, TypeOK, history
    <2>2. SlotsAccounted'
      BY <1>7, InFlightSame DEF ClaudeFails, SlotsAccounted, InFlight
    <2>3. QED
      BY <2>1, <2>2
  <1>8. ASSUME NEW c \in Calls, ReturnError(c) PROVE AdmissionInv'
    <2>1. TypeOK'
      BY <1>8 DEF ReturnError, TypeOK, history
    <2>2. SlotsAccounted'
      BY <1>8, InFlightSame DEF ReturnError, SlotsAccounted, InFlight
    <2>3. QED
      BY <2>1, <2>2
  <1>9. ASSUME NEW c \in Calls, SaveAndReply(c) PROVE AdmissionInv'
    <2>1. TypeOK'
      <3>1. Upsert(c) \in [Keys -> Sessions]
        BY DEF Upsert, TypeOK, Answers
      <3>2. QED
        BY <1>9, <3>1 DEF SaveAndReply, TypeOK
    <2>2. SlotsAccounted'
      BY <1>9, InFlightSame DEF SaveAndReply, SlotsAccounted, InFlight
    <2>3. QED
      BY <2>1, <2>2
  <1>10. ASSUME NEW c \in Calls, Release(c) PROVE AdmissionInv'
    <2>1. c \in InFlight
      BY <1>10 DEF Release, InFlight
    <2>2. SlotsAccounted'
      BY <1>10, <2>1, InFlightLeave DEF Release, SlotsAccounted
    <2>3. sem' \in 0..MaxConcurrent
      <3>1. Cardinality(InFlight) # 0
        BY <1>0, <2>1, FS_EmptySet
      <3>2. QED
        BY <1>10, <1>0, <3>1 DEF Release, SlotsAccounted, TypeOK
    <2>4. QED
      BY <1>10, <2>2, <2>3 DEF Release, TypeOK, history
  <1>11. CASE Restart
    <2>1. InFlight' = {}
      BY <1>11 DEF Restart, InFlight, TypeOK
    <2>2. QED
      BY <1>11, <2>1, FS_EmptySet DEF Restart, TypeOK, history, SlotsAccounted
  <1>12. CASE UNCHANGED vars
    BY <1>12 DEF vars, local, history, TypeOK, SlotsAccounted, InFlight
  <1>13. QED
    BY <1>1, <1>2, <1>3, <1>4, <1>5, <1>6, <1>7, <1>8, <1>9, <1>10, <1>11,
       <1>12 DEF Next, AllDone, Handle, ClaudeExits

\* Every variable keeps its type and no slot leaks or is given twice, for any
\* number of calls and slots.
THEOREM AdmissionInvariant == Spec => []AdmissionInv
  BY InitAdmission, NextAdmission, PTL DEF Spec

\* Every variable has its type; the semaphore never holds more tokens than
\* MaxConcurrent, and a release never finds it empty (agent.go:149-162).
THEOREM TypeCorrect == Spec => []TypeOK
  <1>1. AdmissionInv => TypeOK
    BY DEF AdmissionInv
  <1>2. QED
    BY <1>1, AdmissionInvariant, PTL

\* The semaphore of agent.go:153-155 counts exactly the calls in flight.
THEOREM SlotsAccountedAlways == Spec => []SlotsAccounted
  <1>1. AdmissionInv => SlotsAccounted
    BY DEF AdmissionInv
  <1>2. QED
    BY <1>1, AdmissionInvariant, PTL

-------------------------------------------------------------------------------
(* No cross-talk.  A conversation is named by the call that opened it, and     *)
(* every turn in it has that call's key; whatever a key or a call refers to    *)
(* was opened under the same key and is not empty.                             *)
Refers(s, k) == s # NoSession => KeyOf[s] = k /\ transcript[s] # {}

ThreadInv ==
    /\ \A s \in Calls : \A d \in transcript[s] : KeyOf[d] = KeyOf[s]
    /\ \A k \in Keys : Refers(session[k], k)
    /\ \A c \in Calls : Refers(resume[c], KeyOf[c])
    /\ \A c \in Calls : Refers(answer[c].sid, KeyOf[c])
    /\ \A c \in Calls : \A d \in context[c] : KeyOf[d] = KeyOf[c]

\* Records that refer to their own thread keep the threads apart.
LEMMA ThreadInvImplies == TypeOK /\ ThreadInv => NoCrossTalk
  BY AgentAssumption
  DEF ThreadInv, NoCrossTalk, OwnTurns, Refers, TypeOK, Sessions

\* There is no record at first.
LEMMA InitThread == Init => ThreadInv
  BY AgentAssumption DEF Init, ThreadInv, Refers, Silent

\* A session id never crosses from one thread to another (agent.go:168-209).
LEMMA NextThread == TypeOK /\ ThreadInv /\ [Next]_vars => ThreadInv'
  <1> SUFFICES ASSUME TypeOK, ThreadInv, [Next]_vars PROVE ThreadInv'
    OBVIOUS
  <1> USE AgentAssumption
  <1>1. ASSUME NEW c \in Calls, Admit(c) PROVE ThreadInv'
    BY <1>1 DEF Admit, ThreadInv, Refers
  <1>2. ASSUME NEW c \in Calls, Refuse(c) PROVE ThreadInv'
    BY <1>2 DEF Refuse, ThreadInv, Refers
  <1>3. ASSUME NEW c \in Calls, ReadSession(c) PROVE ThreadInv'
    BY <1>3 DEF ReadSession, StoredSession, ThreadInv, Refers, TypeOK
  <1>4. ASSUME NEW c \in Calls, StartClaude(c) PROVE ThreadInv'
    <2>1. \A d \in context'[c] : KeyOf[d] = KeyOf[c]
      BY <1>4 DEF StartClaude, ThreadInv, Refers, TypeOK, Sessions
    <2>2. \A e \in Calls \ {c} : context'[e] = context[e]
      BY <1>4 DEF StartClaude, TypeOK
    <2>3. QED
      BY <1>4, <2>1, <2>2 DEF StartClaude, ThreadInv, Refers
  <1>5. ASSUME NEW c \in Calls, StartFails(c) PROVE ThreadInv'
    BY <1>5 DEF StartFails, ThreadInv, Refers, TypeOK
  <1>6. ASSUME NEW c \in Calls, ClaudeAnswers(c) PROVE ThreadInv'
    <2>1. PICK home \in {c, resume[c]} \ {NoSession} :
            /\ transcript' = [transcript EXCEPT ![home] =
                 IF home = resume[c] THEN @ \cup {c} ELSE context[c] \cup {c}]
            /\ \E sid \in {home, NoSession} :
                 answer' = [answer EXCEPT ![c] = [kind |-> "result", sid |-> sid]]
      BY <1>6 DEF ClaudeAnswers
    <2>2. home \in Calls /\ KeyOf[home] = KeyOf[c]
      BY DEF TypeOK, Sessions, ThreadInv, Refers
    <2>3. \A d \in transcript'[home] : KeyOf[d] = KeyOf[home]
      BY <2>1, <2>2 DEF ThreadInv, TypeOK
    <2>4. \A s \in Calls \ {home} : transcript'[s] = transcript[s]
      BY <2>1 DEF TypeOK
    <2>5. \A s \in Calls : \A d \in transcript'[s] : KeyOf[d] = KeyOf[s]
      BY <2>3, <2>4 DEF ThreadInv
    <2>6. \A s \in Calls : transcript[s] # {} => transcript'[s] # {}
      BY <2>1, <2>2 DEF TypeOK
    <2>7. transcript'[home] # {}
      BY <2>1, <2>2 DEF TypeOK
    <2>8. \A e \in Calls : answer'[e].sid # NoSession =>
             KeyOf[answer'[e].sid] = KeyOf[e] /\ transcript'[answer'[e].sid] # {}
      <3>1. ASSUME NEW e \in Calls, e # c PROVE answer'[e] = answer[e]
        BY <2>1, <3>1 DEF TypeOK
      <3>2. answer'[c].sid \in {home, NoSession}
        BY <2>1 DEF TypeOK
      <3>3. \A e \in Calls : answer[e].sid \in Sessions
        BY DEF TypeOK, Answers
      <3>4. QED
        BY <2>2, <2>6, <2>7, <3>1, <3>2, <3>3 DEF ThreadInv, Refers, Sessions
    <2>9. QED
      BY <1>6, <2>5, <2>6, <2>8
      DEF ClaudeAnswers, ThreadInv, Refers, TypeOK, Sessions
  <1>7. ASSUME NEW c \in Calls, ClaudeFails(c) PROVE ThreadInv'
    <2>1. \A e \in Calls : answer'[e].sid \in {answer[e].sid, NoSession}
      BY <1>7 DEF ClaudeFails, TypeOK
    <2>2. /\ \A s \in Calls : transcript[s] # {} => transcript'[s] # {}
          /\ \A s \in Calls : \A d \in transcript'[s] : KeyOf[d] = KeyOf[s]
      <3>1. CASE UNCHANGED transcript
        BY <3>1 DEF ThreadInv
      <3>2. CASE /\ resume[c] # NoSession
                 /\ transcript' =
                      [transcript EXCEPT ![resume[c]] = @ \cup {c}]
        BY <3>2 DEF ThreadInv, Refers, TypeOK, Sessions
      <3>3. QED
        BY <1>7, <3>1, <3>2 DEF ClaudeFails
    <2>3. \A e \in Calls : answer[e].sid \in Sessions
      BY DEF TypeOK, Answers
    <2>4. UNCHANGED <<session, resume, context>>
      BY <1>7 DEF ClaudeFails
    <2>5. /\ \A k \in Keys : session[k] \in Calls \cup {NoSession}
          /\ \A e \in Calls : resume[e] \in Calls \cup {NoSession}
      BY DEF TypeOK, Sessions
    <2>6. \A k \in Keys : Refers(session[k], k)'
      BY <2>2, <2>4, <2>5 DEF ThreadInv, Refers
    <2>7. \A e \in Calls : Refers(resume[e], KeyOf[e])'
      BY <2>2, <2>4, <2>5 DEF ThreadInv, Refers
    <2>8. \A e \in Calls : Refers(answer[e].sid, KeyOf[e])'
      BY <2>1, <2>2, <2>3 DEF ThreadInv, Refers, Sessions
    <2>9. QED
      BY <2>2, <2>4, <2>6, <2>7, <2>8 DEF ThreadInv
  <1>8. ASSUME NEW c \in Calls, ReturnError(c) PROVE ThreadInv'
    BY <1>8 DEF ReturnError, ThreadInv, Refers
  <1>9. ASSUME NEW c \in Calls, SaveAndReply(c) PROVE ThreadInv'
    <2>1. \A k \in Keys : session'[k] = session[k]
             \/ (k = KeyOf[c] /\ session'[k] = answer[c].sid)
      BY <1>9 DEF SaveAndReply, Upsert, TypeOK
    <2>2. QED
      BY <1>9, <2>1 DEF SaveAndReply, ThreadInv, Refers
  <1>10. ASSUME NEW c \in Calls, Release(c) PROVE ThreadInv'
    BY <1>10 DEF Release, ThreadInv, Refers
  <1>11. CASE Restart
    BY <1>11 DEF Restart, ThreadInv, Refers
  <1>12. CASE UNCHANGED vars
    BY <1>12 DEF vars, local, ThreadInv, Refers
  <1>13. QED
    BY <1>1, <1>2, <1>3, <1>4, <1>5, <1>6, <1>7, <1>8, <1>9, <1>10, <1>11,
       <1>12 DEF Next, AllDone, Handle, ClaudeExits

\* The conversation stored under a key, or resumed by a call of that key, holds
\* turns of that key only (agent.go:168-209), for any number of threads and of
\* calls handled at the same time.
THEOREM NoCrossTalkAlways == Spec => []NoCrossTalk
  <1>1. AdmissionInv => TypeOK
    BY DEF AdmissionInv
  <1>2. QED
    BY <1>1, AdmissionInvariant, InitThread, NextThread, ThreadInvImplies, PTL
    DEF Spec

-------------------------------------------------------------------------------
(* Turns are lost only to rivals.  Whatever a call in flight has loaded holds  *)
(* every turn recorded for its key, with the exceptions the property allows;   *)
(* so that what it stores in the end holds them too.                           *)

\* The exceptions: a rival was recorded, or a call that had read nothing.
Excused(c) == \E d \in (recorded \cap SameKey(c)) \ {c} :
                  d \in rivals[c] \/ d \in blind

\* The turns that call d builds on miss none that it cannot be excused for.
Aware(d, turns) ==
    \A c \in (recorded \cap SameKey(d)) \ {d} :
        c \in turns \/ d \in rivals[c] \/ d \in blind \/ Excused(c)

Loaded(d) == IF resume[d] = NoSession THEN {} ELSE transcript[resume[d]]

\* A call opens its conversation with its answer and not before.
Unopened ==
    \A c \in Calls : pc[c] \in {"idle", "admitted", "starting", "running"}
                         => transcript[c] = {}

RecordedReturned == \A c \in recorded : pc[c] \in {"returning", "done"}

\* Two calls of a key that are in flight together know of each other.
RivalsMutual ==
    \A c, d \in InFlight : KeyOf[c] = KeyOf[d] /\ c # d => d \in rivals[c]

\* What a call in flight holds: the conversation its process loaded only grows
\* under it, the session id in its answer names a conversation with its turn,
\* and it is aware of what was recorded.
HoldsTurns(d) ==
    /\ pc[d] = "starting" => Aware(d, Loaded(d))
    /\ pc[d] = "running" =>
         /\ Aware(d, context[d])
         /\ resume[d] # NoSession => context[d] \subseteq transcript[resume[d]]
    /\ pc[d] = "exited" /\ answer[d].sid # NoSession =>
         /\ Aware(d, transcript[answer[d].sid])
         /\ d \in transcript[answer[d].sid]

RecordInv ==
    /\ Unopened /\ RecordedReturned /\ RivalsMutual
    /\ \A d \in Calls : HoldsTurns(d)
    /\ LostOnlyToRivals

\* Nothing that was said, recorded or noted is taken back.
Grows ==
    /\ \A s \in Calls : transcript[s] \subseteq transcript'[s]
    /\ recorded \subseteq recorded' /\ blind \subseteq blind'
    /\ \A c \in recorded : rivals[c] \subseteq rivals'[c]

\* There is no record at first.
LEMMA InitRecord == Init => RecordInv
  BY DEF Init, RecordInv, Unopened, RecordedReturned, RivalsMutual, InFlight,
    HoldsTurns, LostOnlyToRivals

\* An excuse stays one.
LEMMA ExcusedStays ==
  ASSUME Grows, NEW c \in recorded, Excused(c) PROVE Excused(c)'
  BY DEF Grows, Excused, SameKey

\* A call stays aware when what it builds on grows, and when a call is recorded
\* that knows it as a rival.
LEMMA AwareStays ==
  ASSUME Grows, NEW d \in Calls, NEW turns, NEW more, Aware(d, turns),
         turns \subseteq more,
         \A c \in (recorded' \ recorded) \cap SameKey(d) : c # d => d \in rivals'[c]
  PROVE  \A c \in (recorded' \cap SameKey(d)) \ {d} :
             c \in more \/ d \in rivals'[c] \/ d \in blind' \/ Excused(c)'
  <1> SUFFICES ASSUME NEW c \in (recorded' \cap SameKey(d)) \ {d}
               PROVE  c \in more \/ d \in rivals'[c] \/ d \in blind' \/ Excused(c)'
    OBVIOUS
  <1>1. CASE c \in recorded
    BY <1>1, ExcusedStays DEF Aware, Grows
  <1>2. CASE c \notin recorded
    BY <1>2
  <1>3. QED
    BY <1>1, <1>2

\* A step of one call leaves what the others hold.
LEMMA OthersHold ==
  ASSUME TypeOK, ThreadInv, RecordInv, Grows, NEW x \in Calls, NEW d \in Calls, d # x,
         pc'[d] = pc[d], resume'[d] = resume[d], context'[d] = context[d],
         answer'[d] = answer[d],
         \A c \in (recorded' \ recorded) \cap SameKey(d) :
             d \in InFlight => d \in rivals'[c]
  PROVE  HoldsTurns(d)'
  <1>1. HoldsTurns(d)
    BY DEF RecordInv
  <1>2. resume[d] \in Sessions /\ answer[d].sid \in Sessions
    BY DEF TypeOK, Answers
  <1>3. SameKey(d)' = SameKey(d)
    BY DEF SameKey
  <1>4. CASE pc[d] = "starting"
    <2>1. d \in InFlight /\ Loaded(d) \subseteq Loaded(d)'
      BY <1>2, <1>4 DEF InFlight, Loaded, Sessions, Grows
    <2>2. Aware(d, Loaded(d))'
      BY <1>1, <1>3, <1>4, <2>1, AwareStays DEF HoldsTurns, Aware
    <2>3. QED
      BY <1>4, <2>2 DEF HoldsTurns
  <1>5. CASE pc[d] = "running"
    <2>1. d \in InFlight
      BY <1>5 DEF InFlight
    <2>2. Aware(d, context[d])'
      BY <1>1, <1>3, <1>5, <2>1, AwareStays DEF HoldsTurns, Aware
    <2>3. QED
      BY <1>1, <1>2, <1>5, <2>2 DEF HoldsTurns, Grows, Sessions
  <1>6. CASE pc[d] = "exited" /\ answer[d].sid # NoSession
    <2>1. d \in InFlight /\ transcript[answer[d].sid] \subseteq transcript'[answer[d].sid]
      BY <1>2, <1>6 DEF InFlight, Sessions, Grows
    <2>2. Aware(d, transcript[answer[d].sid])'
      BY <1>1, <1>3, <1>6, <2>1, AwareStays DEF HoldsTurns, Aware
    <2>3. QED
      BY <1>1, <1>6, <2>1, <2>2 DEF HoldsTurns
  <1>7. QED
    BY <1>4, <1>5, <1>6 DEF HoldsTurns

\* As long as the table stays as it is, what it keeps stays kept.
LEMMA LostStays ==
  ASSUME TypeOK, LostOnlyToRivals, Grows, UNCHANGED <<session, recorded>>
  PROVE  LostOnlyToRivals'
  <1> SUFFICES ASSUME NEW c \in recorded PROVE Kept(c)' \/ Excused(c)'
    BY DEF LostOnlyToRivals, Excused, SameKey
  <1>1. CASE Kept(c)
    BY <1>1, AgentAssumption DEF Kept, Grows, TypeOK, Sessions
  <1>2. CASE Excused(c)
    BY <1>2, ExcusedStays
  <1>3. QED
    BY <1>1, <1>2 DEF LostOnlyToRivals, Excused

\* A step after which the conversations, the table and the histories are as
\* they were keeps the invariant, if it does so for the calls it moves.
LEMMA UnrecordedStep ==
  ASSUME TypeOK, ThreadInv, RecordInv, NEW x \in Calls,
         UNCHANGED <<transcript, session, history>>,
         pc' \in [Calls -> {"idle", "admitted", "starting", "running", "exited",
                            "returning", "done"}],
         pc'[x] \notin {"idle", "admitted", "starting", "running"}
           \/ pc[x] \in {"idle", "admitted", "starting", "running"},
         pc[x] \in {"returning", "done"} => pc'[x] \in {"returning", "done"},
         x \in InFlight' => x \in InFlight,
         HoldsTurns(x)',
         \A d \in Calls \ {x} : pc'[d] = pc[d] /\ resume'[d] = resume[d]
                                /\ context'[d] = context[d] /\ answer'[d] = answer[d]
  PROVE  RecordInv'
  <1>1. Grows
    BY DEF Grows, history
  <1>2. InFlight' \subseteq InFlight
    BY DEF InFlight
  <1>3. Unopened' /\ RecordedReturned' /\ RivalsMutual'
    BY <1>2 DEF RecordInv, Unopened, RecordedReturned, RivalsMutual, history, TypeOK
  <1>4. ASSUME NEW d \in Calls PROVE HoldsTurns(d)'
    BY <1>1, OthersHold DEF history
  <1>5. LostOnlyToRivals'
    BY <1>1, LostStays DEF RecordInv, history
  <1>6. QED
    BY <1>3, <1>4, <1>5 DEF RecordInv

\* A call that is admitted and the calls of its key in flight become rivals.
LEMMA AdmitRecord ==
  ASSUME TypeOK, TypeOK', ThreadInv, RecordInv, NEW x \in Calls, Admit(x)
  PROVE  RecordInv'
  <1> DEFINE others == (InFlight \cap SameKey(x)) \ {x}
  <1>1. /\ pc[x] = "idle" /\ pc'[x] = "admitted"
        /\ \A d \in Calls \ {x} : pc'[d] = pc[d]
        /\ UNCHANGED <<session, resume, context, answer, transcript, blind, recorded>>
    BY DEF Admit, TypeOK
  <1>2. \A d \in Calls :
          /\ d = x => rivals'[d] = others
          /\ d # x => rivals'[d] = IF d \in others THEN rivals[d] \cup {x} ELSE rivals[d]
    BY DEF Admit
  <1>3. x \notin recorded /\ recorded \subseteq Calls
    BY <1>1 DEF RecordInv, RecordedReturned, TypeOK
  <1>4. Grows
    BY <1>1, <1>2, <1>3 DEF Grows
  <1>5. Unopened' /\ RecordedReturned'
    BY <1>1, <1>3 DEF RecordInv, Unopened, RecordedReturned
  <1>6. RivalsMutual'
    <2>1. InFlight' = InFlight \cup {x} /\ InFlight \subseteq Calls
      BY <1>1 DEF InFlight
    <2> SUFFICES ASSUME NEW c \in InFlight', NEW d \in InFlight', c # d,
                        KeyOf[c] = KeyOf[d]
                 PROVE  d \in rivals'[c]
      BY DEF RivalsMutual
    <2>2. CASE c = x
      BY <1>2, <2>1, <2>2 DEF SameKey
    <2>3. CASE c # x /\ d = x
      BY <1>2, <2>1, <2>3 DEF SameKey
    <2>4. CASE c # x /\ d # x
      <3>1. d \in rivals[c]
        BY <2>1, <2>4 DEF RecordInv, RivalsMutual
      <3>2. QED
        BY <1>2, <2>1, <2>4, <3>1
    <2>5. QED
      BY <2>2, <2>3, <2>4
  <1>7. ASSUME NEW d \in Calls PROVE HoldsTurns(d)'
    <2>1. CASE d = x
      BY <1>1, <2>1 DEF HoldsTurns
    <2>2. CASE d # x
      BY <1>1, <1>4, <2>2, OthersHold
    <2>3. QED
      BY <2>1, <2>2
  <1>8. LostOnlyToRivals'
    BY <1>1, <1>4, LostStays DEF RecordInv
  <1>9. QED
    BY <1>5, <1>6, <1>7, <1>8 DEF RecordInv

\* A call that reads the table learns of all that is kept; one that could not
\* is noted as blind.
LEMMA ReadSessionRecord ==
  ASSUME TypeOK, ThreadInv, RecordInv, NEW x \in Calls, ReadSession(x)
  PROVE  RecordInv'
  <1>1. /\ pc[x] = "admitted" /\ pc'[x] = "starting"
        /\ \A d \in Calls \ {x} : pc'[d] = pc[d] /\ resume'[d] = resume[d]
        /\ blind' \subseteq Calls /\ blind \subseteq blind'
        /\ UNCHANGED <<session, context, answer, transcript, rivals, recorded>>
    BY DEF ReadSession, TypeOK
  <1>2. Grows
    BY <1>1 DEF Grows
  <1>3. Unopened' /\ RecordedReturned'
    BY <1>1 DEF RecordInv, Unopened, RecordedReturned, TypeOK
  <1>4. RivalsMutual'
    <2>1. InFlight' = InFlight
      BY <1>1 DEF InFlight
    <2>2. QED
      BY <1>1, <2>1 DEF RecordInv, RivalsMutual
  <1>5. HoldsTurns(x)'
    <2>1. CASE blind' = blind \cup {x}
      BY <1>1, <2>1 DEF HoldsTurns, Aware
    <2>2. CASE UNCHANGED blind /\ resume' = [resume EXCEPT ![x] = session[KeyOf[x]]]
      <3>1. ASSUME NEW c \in (recorded \cap SameKey(x)) \ {x}
            PROVE  c \in Loaded(x)' \/ Excused(c)'
        <4>1. Kept(c) => session[KeyOf[x]] # NoSession /\ c \in transcript[session[KeyOf[x]]]
          BY DEF Kept, SameKey
        <4>2. resume'[x] = session[KeyOf[x]]
          BY <2>2 DEF TypeOK
        <4>3. Kept(c) => c \in Loaded(x)'
          BY <1>1, <4>1, <4>2 DEF Loaded
        <4>4. Kept(c) \/ Excused(c)
          BY DEF RecordInv, LostOnlyToRivals, Excused
        <4>5. QED
          BY <1>2, <4>3, <4>4, ExcusedStays
      <3>2. Aware(x, Loaded(x))'
        BY <1>1, <3>1 DEF Aware, SameKey
      <3>3. QED
        BY <1>1, <3>2 DEF HoldsTurns
    <2>3. QED
      BY <2>1, <2>2 DEF ReadSession, StoredSession
  <1>6. ASSUME NEW d \in Calls PROVE HoldsTurns(d)'
    BY <1>1, <1>2, <1>5, OthersHold
  <1>7. LostOnlyToRivals'
    BY <1>1, <1>2, LostStays DEF RecordInv
  <1>8. QED
    BY <1>3, <1>4, <1>6, <1>7 DEF RecordInv

\* The process loads what the call was aware of.
LEMMA StartClaudeRecord ==
  ASSUME TypeOK, ThreadInv, RecordInv, NEW x \in Calls, StartClaude(x)
  PROVE  RecordInv'
  <1>1. /\ pc[x] = "starting" /\ pc'[x] = "running"
        /\ context'[x] = Loaded(x)
        /\ \A d \in Calls \ {x} : pc'[d] = pc[d] /\ context'[d] = context[d]
        /\ UNCHANGED <<session, resume, answer, transcript, history>>
    BY DEF StartClaude, TypeOK, Loaded
  <1>2. HoldsTurns(x)'
    <2>1. Aware(x, Loaded(x))
      BY <1>1 DEF RecordInv, HoldsTurns
    <2>2. Aware(x, context[x])'
      BY <1>1, <2>1 DEF Aware, Excused, SameKey, history
    <2>3. QED
      BY <1>1, <2>2 DEF HoldsTurns, Loaded
  <1>3. pc' \in [Calls -> {"idle", "admitted", "starting", "running", "exited",
                           "returning", "done"}]
    BY DEF StartClaude, TypeOK
  <1>4. x \in InFlight
    BY <1>1 DEF InFlight
  <1>5. QED
    BY <1>1, <1>2, <1>3, <1>4, UnrecordedStep

\* The turn goes where the call will say it is, on top of what was loaded.
LEMMA ClaudeAnswersRecord ==
  ASSUME TypeOK, ThreadInv, RecordInv, NEW x \in Calls, ClaudeAnswers(x)
  PROVE  RecordInv'
  <1> USE AgentAssumption
  <1>1. /\ pc[x] = "running" /\ pc'[x] = "exited"
        /\ \A d \in Calls \ {x} : pc'[d] = pc[d] /\ answer'[d] = answer[d]
        /\ UNCHANGED <<session, resume, context, history>>
    BY DEF ClaudeAnswers, TypeOK
  <1>2. PICK home \in {x, resume[x]} \ {NoSession} :
          /\ transcript' = [transcript EXCEPT ![home] =
               IF home = resume[x] THEN @ \cup {x} ELSE context[x] \cup {x}]
          /\ \E sid \in {home, NoSession} :
               answer' = [answer EXCEPT ![x] = [kind |-> "result", sid |-> sid]]
    BY DEF ClaudeAnswers
  <1>3. home \in Calls /\ answer'[x].sid \in {home, NoSession}
    BY <1>2 DEF TypeOK, Sessions
  <1>4. transcript[x] = {}
    BY <1>1 DEF RecordInv, Unopened
  <1>5. /\ \A s \in Calls \ {home} : transcript'[s] = transcript[s]
        /\ transcript[home] \subseteq transcript'[home]
        /\ context[x] \cup {x} \subseteq transcript'[home]
    <2>1. HoldsTurns(x)
      BY DEF RecordInv
    <2>2. QED
      BY <1>1, <1>2, <1>3, <1>4, <2>1 DEF HoldsTurns, TypeOK
  <1>6. Grows
    BY <1>1, <1>5 DEF Grows, history
  <1>7. Unopened' /\ RecordedReturned'
    <2>1. home = x \/ transcript[home] # {}
      BY DEF ThreadInv, Refers
    <2>2. QED
      BY <1>1, <1>5, <2>1 DEF RecordInv, Unopened, RecordedReturned, history, TypeOK
  <1>8. RivalsMutual'
    <2>1. InFlight' = InFlight
      BY <1>1 DEF InFlight
    <2>2. QED
      BY <1>1, <2>1 DEF RecordInv, RivalsMutual, history
  <1>9. HoldsTurns(x)'
    <2>1. Aware(x, context[x])
      BY <1>1 DEF RecordInv, HoldsTurns
    <2>2. answer'[x].sid # NoSession => Aware(x, transcript[answer[x].sid])'
      BY <1>1, <1>3, <1>5, <2>1 DEF Aware, Excused, SameKey, history
    <2>3. QED
      BY <1>1, <1>3, <1>5, <2>2 DEF HoldsTurns
  <1>10. ASSUME NEW d \in Calls PROVE HoldsTurns(d)'
    BY <1>1, <1>6, <1>9, OthersHold DEF history
  <1>11. LostOnlyToRivals'
    BY <1>1, <1>6, LostStays DEF RecordInv, history
  <1>12. QED
    BY <1>7, <1>8, <1>10, <1>11 DEF RecordInv

\* A process that fails may have added its turn to what it resumed.
LEMMA ClaudeFailsRecord ==
  ASSUME TypeOK, ThreadInv, RecordInv, NEW x \in Calls, ClaudeFails(x)
  PROVE  RecordInv'
  <1> USE AgentAssumption
  <1>1. /\ pc[x] = "running" /\ pc'[x] = "exited" /\ answer'[x].sid = NoSession
        /\ \A d \in Calls \ {x} : pc'[d] = pc[d] /\ answer'[d] = answer[d]
        /\ UNCHANGED <<session, resume, context, history>>
    BY DEF ClaudeFails, TypeOK
  <1>2. \A s \in Calls : /\ transcript[s] \subseteq transcript'[s]
                         /\ transcript[s] = {} => transcript'[s] = {}
    <2>1. CASE UNCHANGED transcript
      BY <2>1
    <2>2. CASE resume[x] # NoSession
               /\ transcript' = [transcript EXCEPT ![resume[x]] = @ \cup {x}]
      BY <2>2 DEF ThreadInv, Refers, TypeOK, Sessions
    <2>3. QED
      BY <2>1, <2>2 DEF ClaudeFails
  <1>3. Grows
    BY <1>1, <1>2 DEF Grows, history
  <1>4. Unopened' /\ RecordedReturned'
    BY <1>1, <1>2 DEF RecordInv, Unopened, RecordedReturned, history, TypeOK
  <1>5. RivalsMutual'
    <2>1. InFlight' = InFlight
      BY <1>1 DEF InFlight
    <2>2. QED
      BY <1>1, <2>1 DEF RecordInv, RivalsMutual, history
  <1>6. ASSUME NEW d \in Calls PROVE HoldsTurns(d)'
    <2>1. CASE d = x
      BY <1>1, <2>1 DEF HoldsTurns
    <2>2. CASE d # x
      BY <1>1, <1>3, <2>2, OthersHold DEF history
    <2>3. QED
      BY <2>1, <2>2
  <1>7. LostOnlyToRivals'
    BY <1>1, <1>3, LostStays DEF RecordInv, history
  <1>8. QED
    BY <1>4, <1>5, <1>6, <1>7 DEF RecordInv

\* A call that stores its conversation excuses every turn that it overwrites;
\* and the calls in flight know it as a rival.
LEMMA SaveAndReplyRecord ==
  ASSUME TypeOK, ThreadInv, RecordInv, NEW x \in Calls, SaveAndReply(x)
  PROVE  RecordInv'
  <1> USE AgentAssumption
  <1>1. /\ pc[x] = "exited" /\ pc'[x] = "returning"
        /\ \A d \in Calls \ {x} : pc'[d] = pc[d]
        /\ UNCHANGED <<resume, context, answer, transcript, rivals, blind>>
        /\ recorded \subseteq recorded' /\ recorded' \subseteq recorded \cup {x}
    BY DEF SaveAndReply, TypeOK
  <1>2. Grows
    BY <1>1 DEF Grows
  <1>3. x \in InFlight /\ InFlight' = InFlight
    BY <1>1 DEF InFlight
  <1>4. Unopened' /\ RecordedReturned' /\ RivalsMutual'
    <2>1. RecordedReturned'
      BY <1>1 DEF RecordInv, RecordedReturned, TypeOK
    <2>2. Unopened' /\ RivalsMutual'
      BY <1>1, <1>3 DEF RecordInv, Unopened, RivalsMutual
    <2>3. QED
      BY <2>1, <2>2
  <1>5. ASSUME NEW d \in Calls PROVE HoldsTurns(d)'
    <2>1. CASE d = x
      BY <1>1, <2>1 DEF HoldsTurns
    <2>2. CASE d # x
      <3>1. \A c \in (recorded' \ recorded) \cap SameKey(d) :
               d \in InFlight => d \in rivals'[c]
        BY <1>1, <1>3, <2>2 DEF RecordInv, RivalsMutual, SameKey
      <3>2. QED
        BY <1>1, <1>2, <2>2, <3>1, OthersHold
    <2>3. QED
      BY <2>1, <2>2
  <1>6. LostOnlyToRivals'
    <2>1. CASE UNCHANGED <<session, recorded>>
      BY <1>2, <2>1, LostStays DEF RecordInv
    <2>2. CASE answer[x].sid # NoSession /\ session' = Upsert(x)
               /\ recorded' = recorded \cup {x}
      <3>1. /\ session'[KeyOf[x]] = answer[x].sid
            /\ \A k \in Keys \ {KeyOf[x]} : session'[k] = session[k]
        BY <2>2 DEF Upsert, TypeOK
      <3>2. /\ Aware(x, transcript[answer[x].sid]) /\ x \in transcript[answer[x].sid]
        BY <1>1, <2>2 DEF RecordInv, HoldsTurns
      <3> SUFFICES ASSUME NEW c \in recorded' PROVE Kept(c)' \/ Excused(c)'
        BY DEF LostOnlyToRivals, Excused, SameKey
      <3>3. c \in Calls
        BY <1>1 DEF TypeOK
      <3>4. CASE c = x
        BY <1>1, <2>2, <3>1, <3>2, <3>4 DEF Kept
      <3>5. CASE c # x /\ KeyOf[c] = KeyOf[x]
        <4>1. c \in (recorded \cap SameKey(x)) \ {x}
          BY <1>1, <3>3, <3>5 DEF SameKey
        <4>2. CASE c \in transcript[answer[x].sid]
          BY <1>1, <2>2, <3>1, <3>5, <4>2 DEF Kept
        <4>3. CASE x \in rivals[c] \/ x \in blind
          BY <1>1, <2>2, <3>5, <4>3 DEF Excused, SameKey
        <4>4. CASE Excused(c)
          BY <1>2, <4>1, <4>4, ExcusedStays
        <4>5. QED
          BY <3>2, <4>1, <4>2, <4>3, <4>4 DEF Aware
      <3>6. CASE KeyOf[c] # KeyOf[x]
        <4>1. c \in recorded /\ KeyOf[c] \in Keys
          BY <1>1, <3>3, <3>6
        <4>2. Kept(c) => Kept(c)'
          BY <1>1, <3>1, <3>6, <4>1 DEF Kept
        <4>3. Kept(c) \/ Excused(c)
          BY <4>1 DEF RecordInv, LostOnlyToRivals, Excused
        <4>4. QED
          BY <1>2, <4>1, <4>2, <4>3, ExcusedStays
      <3>7. QED
        BY <3>4, <3>5, <3>6
    <2>3. QED
      BY <2>1, <2>2 DEF SaveAndReply
  <1>7. QED
    BY <1>4, <1>5, <1>6 DEF RecordInv

\* No step loses a recorded turn but to a rival.
LEMMA NextRecord ==
  TypeOK /\ TypeOK' /\ ThreadInv /\ RecordInv /\ [Next]_vars => RecordInv'
  <1> SUFFICES ASSUME TypeOK, TypeOK', ThreadInv, RecordInv, [Next]_vars
               PROVE  RecordInv'
    OBVIOUS
  <1>1. ASSUME NEW c \in Calls, Refuse(c) PROVE RecordInv'
    <2>1. pc[c] = "idle" /\ pc'[c] = "done" /\ \A d \in Calls \ {c} : pc'[d] = pc[d]
      BY <1>1 DEF Refuse, TypeOK
    <2>2. HoldsTurns(c)' /\ pc' \in [Calls -> {"idle", "admitted", "starting", "running",
                                               "exited", "returning", "done"}]
      BY <2>1 DEF HoldsTurns, TypeOK
    <2>3. c \notin InFlight'
      BY <2>1 DEF InFlight
    <2>4. QED
      BY <1>1, <2>1, <2>2, <2>3, UnrecordedStep DEF Refuse
  <1>2. ASSUME NEW c \in Calls, StartFails(c) PROVE RecordInv'
    <2>1. /\ pc[c] = "starting" /\ pc'[c] = "exited" /\ answer'[c].sid = NoSession
          /\ \A d \in Calls \ {c} : pc'[d] = pc[d] /\ answer'[d] = answer[d]
      BY <1>2 DEF StartFails, TypeOK
    <2>2. HoldsTurns(c)' /\ pc' \in [Calls -> {"idle", "admitted", "starting", "running",
                                               "exited", "returning", "done"}]
      BY <2>1 DEF HoldsTurns, TypeOK
    <2>3. c \in InFlight
      BY <2>1 DEF InFlight
    <2>4. QED
      BY <1>2, <2>1, <2>2, <2>3, UnrecordedStep DEF StartFails
  <1>3. ASSUME NEW c \in Calls, ReturnError(c) PROVE RecordInv'
    <2>1. pc[c] = "exited" /\ pc'[c] = "returning" /\ \A d \in Calls \ {c} : pc'[d] = pc[d]
      BY <1>3 DEF ReturnError, TypeOK
    <2>2. HoldsTurns(c)' /\ pc' \in [Calls -> {"idle", "admitted", "starting", "running",
                                               "exited", "returning", "done"}]
      BY <2>1 DEF HoldsTurns, TypeOK
    <2>3. c \in InFlight
      BY <2>1 DEF InFlight
    <2>4. QED
      BY <1>3, <2>1, <2>2, <2>3, UnrecordedStep DEF ReturnError
  <1>4. ASSUME NEW c \in Calls, Release(c) PROVE RecordInv'
    <2>1. pc[c] = "returning" /\ pc'[c] = "done" /\ \A d \in Calls \ {c} : pc'[d] = pc[d]
      BY <1>4 DEF Release, TypeOK
    <2>2. HoldsTurns(c)' /\ pc' \in [Calls -> {"idle", "admitted", "starting", "running",
                                               "exited", "returning", "done"}]
      BY <2>1 DEF HoldsTurns, TypeOK
    <2>3. c \in InFlight
      BY <2>1 DEF InFlight
    <2>4. QED
      BY <1>4, <2>1, <2>2, <2>3, UnrecordedStep DEF Release
  <1>5. CASE Restart
    <2>1. /\ UNCHANGED <<session, resume, context, answer, transcript, history>>
          /\ \A c \in Calls : pc'[c] = IF c \in InFlight THEN "done" ELSE pc[c]
      BY <1>5 DEF Restart
    <2>2. InFlight' = {}
      BY <2>1 DEF InFlight, TypeOK
    <2>3. Grows
      BY <2>1 DEF Grows, history
    <2>4. Unopened' /\ RecordedReturned' /\ RivalsMutual'
      BY <2>1, <2>2 DEF RecordInv, Unopened, RecordedReturned, RivalsMutual, history, TypeOK
    <2>5. \A d \in Calls : HoldsTurns(d)'
      BY <2>1 DEF HoldsTurns, InFlight
    <2>6. LostOnlyToRivals'
      BY <2>1, <2>3, LostStays DEF RecordInv, history
    <2>7. QED
      BY <2>4, <2>5, <2>6 DEF RecordInv
  <1>6. CASE UNCHANGED vars
    <2>1. UNCHANGED <<pc, session, resume, context, answer, transcript, rivals, blind, recorded>>
      BY <1>6 DEF vars, local, history
    <2>2. Unopened' /\ RecordedReturned' /\ RivalsMutual'
      BY <2>1 DEF RecordInv, Unopened, RecordedReturned, RivalsMutual, InFlight
    <2>3. \A d \in Calls : HoldsTurns(d)'
      BY <2>1 DEF RecordInv, HoldsTurns, Aware, Excused, Loaded, SameKey
    <2>4. LostOnlyToRivals'
      BY <2>1 DEF RecordInv, LostOnlyToRivals, Kept, SameKey
    <2>5. QED
      BY <2>2, <2>3, <2>4 DEF RecordInv
  <1>7. QED
    BY <1>1, <1>2, <1>3, <1>4, <1>5, <1>6, AdmitRecord, ReadSessionRecord,
       StartClaudeRecord, ClaudeAnswersRecord, ClaudeFailsRecord, SaveAndReplyRecord
    DEF Next, AllDone, Handle, ClaudeExits

\* A turn recorded for a thread stays in the conversation stored for it, unless
\* a rival call overwrote it or one that could not read it (agent.go:168-209):
\* for any number of calls and threads, with restarts and failing queries.
THEOREM TurnsLostOnlyToRivals == Spec => []LostOnlyToRivals
  <1>1. AdmissionInv => TypeOK
    BY DEF AdmissionInv
  <1>2. RecordInv => LostOnlyToRivals
    BY DEF RecordInv
  <1>3. QED
    BY <1>1, <1>2, AdmissionInvariant, InitThread, NextThread, InitRecord,
       NextRecord, PTL DEF Spec

\* A thread whose recorded calls never met and could all read their session.
Undisturbed(k) ==
    \A c, d \in recorded :
        KeyOf[c] = k /\ KeyOf[d] = k /\ c # d => d \notin rivals[c] /\ d \notin blind

\* The full conversation is retained within a thread (README.md:59) as long as
\* its calls do not overlap and the session can be read (agent.go:168-209),
\* whatever the other threads do, restarts and failed saves included.
THEOREM UndisturbedThreadKeepsAll ==
  Spec => [](\A k \in Keys : Undisturbed(k) =>
                 \A c \in recorded : KeyOf[c] = k => Kept(c))
  <1>1. LostOnlyToRivals =>
            \A k \in Keys : Undisturbed(k) => \A c \in recorded : KeyOf[c] = k => Kept(c)
    BY DEF LostOnlyToRivals, Undisturbed, SameKey
  <1>2. QED
    BY <1>1, TurnsLostOnlyToRivals, PTL

-------------------------------------------------------------------------------
(* Refinement: every step of the agent is a step of the gate or a stutter.     *)
Busy == {c \in Calls : outcome[c] = "busy"}

\* A call that has not returned yet has not been refused.
BusyInv == \A c \in Calls : pc[c] # "done" => outcome[c] # "busy"

\* Only a refused call carries ErrBusy, and it is done.
LEMMA NextBusy == TypeOK /\ BusyInv /\ [Next]_vars => BusyInv'
  <1> SUFFICES ASSUME TypeOK, BusyInv, [Next]_vars PROVE BusyInv'
    OBVIOUS
  <1> USE DEF BusyInv, TypeOK
  <1>1. ASSUME NEW c \in Calls, Handle(c) PROVE BusyInv'
    BY <1>1 DEF Handle, Admit, Refuse, ReadSession, StartClaude, StartFails,
      ClaudeExits, ClaudeAnswers, ClaudeFails, ReturnError, SaveAndReply, Release
  <1>2. CASE Restart
    BY <1>2 DEF Restart, InFlight
  <1>3. CASE UNCHANGED vars
    BY <1>3 DEF vars, local
  <1>4. QED
    BY <1>1, <1>2, <1>3 DEF Next, AllDone

\* The gate counts with its own instance of FiniteSets.
LEMMA GateCounts == AdmissionGate!Cardinality(InFlight) = Cardinality(InFlight)
  BY DEF Cardinality, AdmissionGate!Cardinality

\* Every step of the agent is a step of the gate or leaves it alone.
LEMMA StepRefines ==
  ASSUME AdmissionInv, BusyInv, [Next]_vars
  PROVE  [AdmissionGate!Next]_(AdmissionGate!vars)
  <1> USE AgentAssumption DEF AdmissionInv, AdmissionGate!vars
  <1>1. ASSUME NEW c \in Calls, Admit(c) PROVE AdmissionGate!Enter(c)
    <2>1. c \notin InFlight \cup Busy /\ Busy' = Busy
      BY <1>1 DEF Admit, InFlight, BusyInv, Busy
    <2>2. Cardinality(InFlight) < MaxConcurrent
      BY <1>1 DEF Admit, SlotsAccounted
    <2>3. InFlight' = InFlight \cup {c}
      BY <1>1, InFlightEnter DEF Admit
    <2>4. QED
      BY <2>1, <2>2, <2>3, GateCounts DEF AdmissionGate!Enter, Busy
  <1>2. ASSUME NEW c \in Calls, Refuse(c) PROVE AdmissionGate!Refuse(c)
    <2>1. c \notin InFlight \cup Busy /\ Busy' = Busy \cup {c}
      BY <1>2 DEF Refuse, InFlight, BusyInv, Busy, TypeOK
    <2>2. Cardinality(InFlight) = MaxConcurrent
      BY <1>2 DEF Refuse, SlotsAccounted
    <2>3. InFlight' = InFlight
      BY <1>2, InFlightRefused DEF Refuse
    <2>4. QED
      BY <2>1, <2>2, <2>3, GateCounts DEF AdmissionGate!Refuse, Busy
  <1>3. ASSUME NEW c \in Calls, Release(c) PROVE AdmissionGate!Leave(c)
    <2>1. c \in InFlight /\ Busy' = Busy
      BY <1>3 DEF Release, InFlight, Busy
    <2>2. InFlight' = InFlight \ {c}
      BY <1>3, <2>1, InFlightLeave DEF Release
    <2>3. QED
      BY <2>1, <2>2 DEF AdmissionGate!Leave, Busy
  <1>4. CASE Restart
    <2>1. InFlight' = {}
      BY <1>4 DEF Restart, InFlight, TypeOK
    <2>2. Busy' = Busy
      BY <1>4 DEF Restart, InFlight, Busy, BusyInv, TypeOK
    <2>3. QED
      BY <2>1, <2>2 DEF AdmissionGate!Next, AdmissionGate!Vacate, Busy
  <1>5. ASSUME NEW c \in Calls,
               ReadSession(c) \/ StartClaude(c) \/ StartFails(c)
               \/ ClaudeExits(c) \/ ReturnError(c) \/ SaveAndReply(c)
        PROVE  InFlight' = InFlight /\ Busy' = Busy
    <2>1. c \in InFlight
      BY <1>5 DEF ReadSession, StartClaude, StartFails, ClaudeExits,
        ClaudeAnswers, ClaudeFails, ReturnError, SaveAndReply, InFlight
    <2>2. InFlight' = InFlight
      BY <1>5, <2>1, InFlightSame DEF ReadSession, StartClaude, StartFails,
        ClaudeExits, ClaudeAnswers, ClaudeFails, ReturnError, SaveAndReply
    <2>3. Busy' = Busy
      BY <1>5, <2>1 DEF ReadSession, StartClaude, StartFails, ClaudeExits,
        ClaudeAnswers, ClaudeFails, ReturnError, SaveAndReply, Busy, BusyInv,
        InFlight, TypeOK
    <2>4. QED
      BY <2>2, <2>3
  <1>6. CASE UNCHANGED vars
    BY <1>6 DEF vars, local, InFlight
  <1>7. QED
    BY <1>1, <1>2, <1>3, <1>4, <1>5, <1>6
    DEF Next, AllDone, Handle, AdmissionGate!Next, Busy

\* The agent implements the gate: at most MaxConcurrent calls are in flight and
\* ErrBusy (agent.go:149-159) is returned only while all the slots are taken.
THEOREM AgentImplementsGate == Spec => ImplementsGate
  <1>1. Init => AdmissionGate!Init
    BY DEF Init, AdmissionGate!Init, InFlight
  <1>2. Init => BusyInv
    BY DEF Init, BusyInv
  <1>3. AdmissionInv => TypeOK
    BY DEF AdmissionInv
  <1>4. AdmissionInv /\ BusyInv /\ [Next]_vars
          => [AdmissionGate!Next]_(AdmissionGate!vars)
    BY StepRefines
  <1>5. QED
    BY <1>1, <1>2, <1>3, <1>4, AdmissionInvariant, NextBusy, PTL
    DEF Spec, ImplementsGate, AdmissionGate!Spec
===============================================================================
