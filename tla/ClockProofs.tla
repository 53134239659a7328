------------------------------ MODULE ClockProofs ------------------------------
(***************************************************************************)
(* Proofs about the two components that only the clock and their callers   *)
(* drive: Memory, for every calendar, set of entries and choice of faults  *)
(* (what the rotation and the restarts do to the logs, and what a prompt   *)
(* holds of them), and RateLimit, for every set of keys, limit and window  *)
(* (whom it grants and whom it refuses).  They share no state and no name; *)
(* each theorem is about the specification of one of them.                 *)
(***************************************************************************)
EXTENDS Memory, RateLimit, FiniteSetTheorems, TLAPS

-------------------------------------------------------------------------------
(* The memory, for every calendar and every choice of faults.                *)

\* The types of the date, the files and their histories.
Types ==
    /\ day \in Days /\ target \in Days /\ due \in Nat
    /\ created \subseteq Days
    /\ log \in [Days -> SUBSET Entries]
    /\ written \in [Days -> SUBSET Entries]
    /\ raced \in [Days -> SUBSET Entries]

\* A file that was found missing has never been written to, except since.
FilesInv ==
    /\ \A d \in Days : d \notin created => written[d] = {}
    /\ pc = "create" => written[target] \subseteq raced[target]
    /\ AppendOnly

\* From the look at the date until the timer is due, today is either the day
\* that was looked at or one that came too late to be.
RotationInv ==
    /\ pc = "create" => day = target \/ day \in excused
    /\ pc = "arm" => day \in created \cup excused
    /\ pc = "asleep" => due <= day + 1
    /\ TodayHasLog

\* The inductive invariant.
MemoryInv == Types /\ FilesInv /\ RotationInv

\* At first there are no files and nothing is written.
LEMMA InitMemory == Init => MemoryInv
  BY MemoryAssumption
  DEF Init, MemoryInv, Types, FilesInv, RotationInv, AppendOnly, TodayHasLog,
      Kept, Days

\* Every step keeps the types of what the other invariants speak of.
LEMMA NextTypes == Types /\ [Next]_vars => Types'
  <1> SUFFICES ASSUME Types, [Next]_vars PROVE Types'
    OBVIOUS
  <1> USE MemoryAssumption DEF Types, Days
  <1>1. CASE BuildSystemPrompt
    BY <1>1 DEF BuildSystemPrompt, kevin
  <1>2. CASE Look
    BY <1>2 DEF Look, kevin
  <1>3. CASE CreateLog
    BY <1>3 DEF CreateLog, kevin
  <1>4. CASE Arm
    BY <1>4 DEF Arm, NextMidnight, kevin
  <1>5. CASE Fire
    BY <1>5 DEF Fire, kevin
  <1>6. CASE Midnight
    BY <1>6 DEF Midnight, kevin
  <1>7. CASE Restart
    BY <1>7 DEF Restart, kevin
  <1>8. ASSUME NEW e \in Entries, NEW d \in Days, Note(e, d) PROVE Types'
    BY <1>8 DEF Note
  <1>9. CASE UNCHANGED vars
    BY <1>9 DEF vars, kevin
  <1>10. QED
    BY <1>1, <1>2, <1>3, <1>4, <1>5, <1>6, <1>7, <1>8, <1>9
    DEF Next, Rotation

\* The rotation empties a file only if there was none when it looked, and then
\* what is in it was written since.
LEMMA NextFiles == Types /\ FilesInv /\ [Next]_vars => FilesInv'
  <1> SUFFICES ASSUME Types, FilesInv, [Next]_vars PROVE FilesInv'
    OBVIOUS
  <1> USE DEF Types, FilesInv, AppendOnly, Kept
  <1>1. CASE BuildSystemPrompt
    BY <1>1 DEF BuildSystemPrompt, kevin
  <1>2. CASE Look
    BY <1>2 DEF Look, Found, kevin
  <1>3. CASE CreateLog
    BY <1>3 DEF CreateLog, kevin
  <1>4. CASE Arm
    BY <1>4 DEF Arm, kevin
  <1>5. CASE Fire
    BY <1>5 DEF Fire, kevin
  <1>6. CASE Midnight
    BY <1>6 DEF Midnight, kevin
  <1>7. CASE Restart
    BY <1>7 DEF Restart, kevin
  <1>8. ASSUME NEW e \in Entries, NEW d \in Days, Note(e, d) PROVE FilesInv'
    BY <1>8 DEF Note
  <1>9. CASE UNCHANGED vars
    BY <1>9 DEF vars, kevin
  <1>10. QED
    BY <1>1, <1>2, <1>3, <1>4, <1>5, <1>6, <1>7, <1>8, <1>9
    DEF Next, Rotation

\* A midnight finds the goroutine asleep, and then the timer is due, or awake,
\* and then the day is excused.
LEMMA NextRotation == Types /\ RotationInv /\ [Next]_vars => RotationInv'
  <1> SUFFICES ASSUME Types, RotationInv, [Next]_vars PROVE RotationInv'
    OBVIOUS
  <1> USE MemoryAssumption DEF Types, Days, RotationInv, TodayHasLog
  <1>1. CASE BuildSystemPrompt
    BY <1>1 DEF BuildSystemPrompt
  <1>2. CASE Look
    BY <1>2 DEF Look, Found
  <1>3. CASE CreateLog
    BY <1>3 DEF CreateLog
  <1>4. CASE Arm
    BY <1>4 DEF Arm, NextMidnight
  <1>5. CASE Fire
    BY <1>5 DEF Fire
  <1>6. CASE Midnight
    BY <1>6 DEF Midnight
  <1>7. CASE Restart
    BY <1>7 DEF Restart
  <1>8. ASSUME NEW e \in Entries, NEW d \in Days, Note(e, d) PROVE RotationInv'
    BY <1>8 DEF Note
  <1>9. CASE UNCHANGED vars
    BY <1>9 DEF vars
  <1>10. QED
    BY <1>1, <1>2, <1>3, <1>4, <1>5, <1>6, <1>7, <1>8, <1>9
    DEF Next, Rotation

\* The invariant of the daily logs holds in every reachable state.
THEOREM MemoryInvariant == Spec => []MemoryInv
  <1>1. MemoryInv /\ [Next]_vars => MemoryInv'
    BY NextTypes, NextFiles, NextRotation DEF MemoryInv
  <1>2. QED
    BY InitMemory, <1>1, PTL DEF Spec

\* No rotation and no restart takes an entry out of a log, except one written
\* into the file between Stat and WriteFile (memory.go:101-104).
THEOREM AppendOnlyAlways == Spec => []AppendOnly
  <1>1. MemoryInv => AppendOnly
    BY DEF MemoryInv, FilesInv
  <1>2. QED
    BY <1>1, MemoryInvariant, PTL

\* While the rotation sleeps until a midnight to come, today has its log, unless
\* it could not be made or came while the rotation was awake (memory.go:77-106).
THEOREM TodayHasLogAlways == Spec => []TodayHasLog
  <1>1. MemoryInv => TodayHasLog
    BY DEF MemoryInv, RotationInv
  <1>2. QED
    BY <1>1, MemoryInvariant, PTL

\* Today's and yesterday's files are among the last two (memory.go:142-146).
LEMMA LastTwo ==
  ASSUME Types, NEW S \in SUBSET Days, NEW d \in S, d = day \/ d = day - 1
  PROVE  d \in Recent(S)
  <1> DEFINE later == {x \in S : d < x /\ x <= day}
  <1>1. day \in Nat /\ d \in Nat /\ S \subseteq Nat
    BY MemoryAssumption DEF Types, Days
  <1>2. later \subseteq {day}
    <2> SUFFICES ASSUME NEW x \in later PROVE x = day
      OBVIOUS
    <2>1. x \in Nat /\ d < x /\ x <= day
      BY <1>1
    <2>2. QED
      BY <1>1, <2>1
  <1>3. IsFiniteSet({day}) /\ Cardinality({day}) = 1
    BY FS_Singleton
  <1>4. Cardinality(later) \in Nat /\ Cardinality(later) <= 1
    BY <1>2, <1>3, FS_Subset, FS_CardinalityType
  <1>5. QED
    BY <1>1, <1>4 DEF Recent

\* Of three files recentDailyLogs takes, the first would have two after it.
LEMMA NoThirdLog ==
  ASSUME day \in Days, NEW S \in SUBSET Days,
         NEW a \in Recent(S), NEW b \in Recent(S), NEW c \in Recent(S),
         a < b, a < c, b # c
  PROVE  FALSE
  <1> DEFINE later == {x \in S : a < x /\ x <= day}
  <1>1. Cardinality(later) < 2
    BY DEF Recent
  <1>2. {b, c} \subseteq later
    BY DEF Recent
  <1>3. IsFiniteSet(later)
    <2>1. later \subseteq 1..LastDay
      BY DEF Days
    <2>2. IsFiniteSet(1..LastDay)
      BY MemoryAssumption, FS_Interval
    <2>3. QED
      BY <2>1, <2>2, FS_Subset
  <1>4. Cardinality({b, c}) = 2
    <2>1. IsFiniteSet({b}) /\ Cardinality({b}) = 1
      BY FS_Singleton
    <2>2. Cardinality({b} \cup {c}) = Cardinality({b}) + 1
      BY <2>1, FS_AddElement
    <2>3. {b, c} = {b} \cup {c}
      OBVIOUS
    <2>4. QED
      BY <2>1, <2>2, <2>3
  <1>5. Cardinality(later) \in Nat /\ 2 <= Cardinality(later)
    BY <1>2, <1>3, <1>4, FS_Subset, FS_CardinalityType
  <1>6. QED
    BY <1>1, <1>5

\* recentDailyLogs returns two files at the most (memory.go:142-146).
LEMMA AtMostTwo ==
  ASSUME day \in Days, NEW S \in SUBSET Days
  PROVE  Cardinality(Recent(S)) <= 2
  <1>1. Recent(S) \subseteq Nat
    <2>1. Days \subseteq Nat
      BY MemoryAssumption DEF Days
    <2>2. Recent(S) \subseteq S
      BY DEF Recent
    <2>3. QED
      BY <2>1, <2>2
  <1>2. \A a, b, c \in Recent(S) : a = b \/ a = c \/ b = c
    <2> SUFFICES ASSUME NEW a \in Recent(S), NEW b \in Recent(S), NEW c \in Recent(S),
                        a # b, a # c, b # c
                 PROVE  FALSE
      OBVIOUS
    <2>1. (a < b /\ a < c) \/ (b < a /\ b < c) \/ (c < a /\ c < b)
      <3>1. a \in Nat /\ b \in Nat /\ c \in Nat
        BY <1>1
      <3>2. QED
        BY ONLY <3>1, a # b, a # c, b # c
    <2>2. QED
      BY <2>1, NoThirdLog
  <1>3. PICK a, b : Recent(S) \subseteq {a, b}
    BY <1>2
  <1>4. IsFiniteSet({a, b}) /\ Cardinality({a, b}) <= 2
    <2>1. IsFiniteSet({a}) /\ Cardinality({a}) = 1
      BY FS_Singleton
    <2>2. /\ IsFiniteSet({a} \cup {b})
          /\ Cardinality({a} \cup {b}) = IF b \in {a} THEN 1 ELSE 1 + 1
      BY <2>1, FS_AddElement
    <2>3. {a, b} = {a} \cup {b}
      OBVIOUS
    <2>4. QED
      BY <2>2, <2>3
  <1>5. QED
    BY <1>3, <1>4, FS_Subset, FS_CardinalityType

\* The rest of the types: a prompt holds no more than two logs, of days there
\* are, and a file that does not exist has no entries.
PromptInv ==
    /\ excused \subseteq Days
    /\ pc \in {"starting", "ensure", "create", "arm", "asleep"}
    /\ prompt.today \in Days /\ prompt.unread \subseteq Days
    /\ DOMAIN prompt.logs \subseteq Days /\ Cardinality(DOMAIN prompt.logs) <= 2
    /\ \A d \in Days \ created : log[d] = {}

\* The first prompt has no logs.
LEMMA InitPrompt == Init => PromptInv
  <1> SUFFICES ASSUME Init PROVE PromptInv
    OBVIOUS
  <1>1. DOMAIN prompt.logs = {} /\ Cardinality({}) = 0
    BY FS_EmptySet DEF Init
  <1>2. QED
    BY <1>1, MemoryAssumption DEF Init, PromptInv, Days

\* Only a start makes another prompt, and every write makes its file.
LEMMA NextPrompt == Types /\ PromptInv /\ [Next]_vars => PromptInv'
  <1> SUFFICES ASSUME Types, PromptInv, [Next]_vars PROVE PromptInv'
    OBVIOUS
  <1>1. CASE BuildSystemPrompt
    <2>1. PICK unread \in SUBSET created :
            prompt' = [today |-> day, unread |-> unread,
                       logs |-> [d \in Recent(created \ unread) |-> log[d]]]
      BY <1>1 DEF BuildSystemPrompt
    <2>2. /\ prompt'.today = day /\ prompt'.unread = unread
          /\ DOMAIN prompt'.logs = Recent(created \ unread)
      BY <2>1
    <2>3. created \ unread \in SUBSET Days /\ day \in Days
      BY DEF Types
    <2>4. Recent(created \ unread) \subseteq Days
      BY <2>3 DEF Recent
    <2>5. Cardinality(Recent(created \ unread)) <= 2
      BY <2>3, AtMostTwo
    <2>6. /\ UNCHANGED <<created, log, excused>> /\ pc' = "ensure"
          /\ unread \subseteq Days
      BY <1>1, <2>1 DEF BuildSystemPrompt, Types
    <2>7. /\ prompt'.today \in Days /\ prompt'.unread \subseteq Days
          /\ DOMAIN prompt'.logs \subseteq Days /\ Cardinality(DOMAIN prompt'.logs) <= 2
      BY <2>2, <2>3, <2>4, <2>5, <2>6
    <2>8. QED
      BY <2>6, <2>7 DEF PromptInv
  <1>2. ASSUME UNCHANGED prompt,
               /\ excused' \subseteq Days
               /\ pc' \in {"starting", "ensure", "create", "arm", "asleep"}
               /\ \A d \in Days \ created' : log'[d] = {}
        PROVE  PromptInv'
    BY <1>2 DEF PromptInv
  <1> USE DEF Types, PromptInv
  <1>3. CASE Look
    BY <1>2, <1>3 DEF Look
  <1>4. CASE CreateLog
    BY <1>2, <1>4 DEF CreateLog
  <1>5. CASE Arm
    BY <1>2, <1>5 DEF Arm
  <1>6. CASE Fire
    BY <1>2, <1>6 DEF Fire
  <1>7. CASE Midnight
    BY <1>2, <1>7, MemoryAssumption DEF Midnight, Days
  <1>8. CASE Restart
    BY <1>2, <1>8 DEF Restart
  <1>9. ASSUME NEW e \in Entries, NEW d \in Days, Note(e, d) PROVE PromptInv'
    BY <1>2, <1>9 DEF Note
  <1>10. CASE UNCHANGED vars
    BY <1>2, <1>10 DEF vars
  <1>11. QED
    BY <1>1, <1>3, <1>4, <1>5, <1>6, <1>7, <1>8, <1>9, <1>10
    DEF Next, Rotation

\* Nothing is written into the log of a day to come.  From the start on the
\* prompt holds what was then in the logs of its day and of the one before, and
\* what is in later logs was written since.
SinceInv ==
    /\ since \subseteq Entries
    /\ \A d \in Days : day < d => written[d] = {}
    /\ pc # "starting" =>
         /\ prompt.today <= day
         /\ \A d \in Days : prompt.today < d => written[d] \subseteq since
         /\ \A d \in ({prompt.today - 1, prompt.today} \cap Days) \ prompt.unread :
                Kept(d) \ since \subseteq Loaded(d)

\* At first nothing is written.
LEMMA InitSince == Init => SinceInv
  BY DEF Init, SinceInv

\* A start loads all that was kept of the logs of its day and of the one before.
LEMMA StartSince ==
  ASSUME Types, FilesInv, PromptInv, SinceInv, BuildSystemPrompt
  PROVE  SinceInv'
  <1>1. PICK unread \in SUBSET created :
          prompt' = [today |-> day, unread |-> unread,
                     logs |-> [x \in Recent(created \ unread) |-> log[x]]]
    BY DEF BuildSystemPrompt
  <1>2. /\ UNCHANGED <<day, written, raced>> /\ since' = {}
        /\ prompt'.today = day /\ prompt'.unread = unread
        /\ prompt'.logs = [x \in Recent(created \ unread) |-> log[x]]
    BY <1>1 DEF BuildSystemPrompt
  <1>3. day \in Nat /\ Days \subseteq Nat
    BY MemoryAssumption DEF Types, Days
  <1>4. ASSUME NEW d \in ({day - 1, day} \cap Days) \ unread
        PROVE  Kept(d) \subseteq Loaded(d)'
    <2>1. CASE d \in created
      <3>1. d \in Recent(created \ unread)
        BY <1>4, <2>1, LastTwo DEF Types
      <3>2. Kept(d) \subseteq log[d]
        BY <1>4 DEF FilesInv, AppendOnly
      <3>3. QED
        BY <1>2, <3>1, <3>2 DEF Loaded
    <2>2. CASE d \notin created
      BY <1>4, <2>2 DEF FilesInv, Kept
    <2>3. QED
      BY <2>1, <2>2
  <1>5. \A d \in Days : Kept(d)' = Kept(d)
    BY <1>2 DEF Kept
  <1>6. \A d \in Days : day' < d => written'[d] = {}
    BY <1>2 DEF SinceInv
  <1>7. \A d \in ({day - 1, day} \cap Days) \ unread : Kept(d)' \subseteq Loaded(d)'
    BY <1>4, <1>5
  <1>8. prompt'.today <= day'
    BY <1>2, <1>3
  <1>9. QED
    BY <1>2, <1>6, <1>7, <1>8 DEF SinceInv

\* What Kevin writes was written since; it is in today's log or in that of the
\* prompt's day, so never in one of a day to come.
LEMMA NoteSince ==
  ASSUME Types, PromptInv, SinceInv, NEW e \in Entries, NEW x \in Days, Note(e, x)
  PROVE  SinceInv'
  <1>1. /\ since' = since \cup {e} /\ UNCHANGED <<day, pc, prompt>>
        /\ written' = [written EXCEPT ![x] = @ \cup {e}]
        /\ x = day \/ x = prompt.today
        /\ pc # "starting"
    BY DEF Note
  <1>2. \A d \in Days : raced[d] \subseteq raced'[d]
    BY DEF Note, Types
  <1>3. prompt.today <= day /\ day \in Nat /\ prompt.today \in Nat /\ Days \subseteq Nat
    BY <1>1, MemoryAssumption DEF SinceInv, PromptInv, Types, Days
  <1>4. ~(day < x)
    BY <1>1, <1>3
  <1>5. \A d \in Days : written'[d] = IF d = x THEN written[d] \cup {e} ELSE written[d]
    BY <1>1 DEF Types
  <1>6. \A d \in Days : day' < d => written'[d] = {}
    BY <1>1, <1>4, <1>5 DEF SinceInv
  <1>7. \A d \in Days : prompt'.today < d => written'[d] \subseteq since'
    BY <1>1, <1>5 DEF SinceInv
  <1>8. \A d \in Days : Kept(d)' \ since' \subseteq Kept(d) \ since
    BY <1>1, <1>2, <1>5 DEF Kept
  <1>9. \A d \in Days : Loaded(d)' = Loaded(d)
    BY <1>1 DEF Loaded
  <1>10. since' \subseteq Entries
    BY <1>1 DEF SinceInv
  <1>11. QED
    BY <1>1, <1>3, <1>6, <1>7, <1>8, <1>9, <1>10 DEF SinceInv

\* Every step keeps this.
LEMMA NextSince ==
  Types /\ FilesInv /\ PromptInv /\ SinceInv /\ [Next]_vars => SinceInv'
  <1> SUFFICES ASSUME Types, FilesInv, PromptInv, SinceInv, [Next]_vars PROVE SinceInv'
    OBVIOUS
  <1>1. day \in Nat /\ prompt.today \in Nat /\ Days \subseteq Nat
    BY MemoryAssumption DEF Types, PromptInv, Days
  <1>2. ASSUME UNCHANGED <<prompt, written, raced, since>>,
               day' = day \/ day' = day + 1,
               pc' # "starting" => pc # "starting"
        PROVE  SinceInv'
    <2>1. \A d \in Days : Kept(d)' = Kept(d) /\ Loaded(d)' = Loaded(d)
      BY <1>2 DEF Kept, Loaded
    <2>2. \A d \in Days : day' < d => day < d
      BY <1>1, <1>2
    <2>3. prompt.today <= day => prompt'.today <= day'
      BY <1>1, <1>2
    <2>4. QED
      BY <1>2, <2>1, <2>2, <2>3 DEF SinceInv
  <1>3. CASE Rotation \/ Midnight \/ Restart \/ UNCHANGED vars
    BY <1>2, <1>3 DEF Rotation, Look, CreateLog, Arm, Fire, Midnight, Restart, kevin, vars
  <1>4. QED
    BY <1>3, StartSince, NoteSince DEF Next

\* Every variable has its type, no prompt holds more than two logs, and only a
\* file that exists has entries (memory.go:101-104, :142-146).
THEOREM TypeCorrect == Spec => []TypeOK
  <1>1. MemoryInv /\ PromptInv /\ SinceInv => TypeOK
    BY DEF MemoryInv, Types, PromptInv, SinceInv, TypeOK
  <1>2. MemoryInv /\ PromptInv /\ SinceInv /\ [Next]_vars => PromptInv' /\ SinceInv'
    BY NextPrompt, NextSince DEF MemoryInv
  <1>3. QED
    BY <1>1, <1>2, InitPrompt, InitSince, MemoryInvariant, PTL DEF Spec

\* Of what Kevin wrote into yesterday's and today's log, whenever a conversation
\* starts, its prompt lacks only what he wrote since the process started, what
\* the rotation may have emptied, and a file that could not be read: the reach of
\* docs/memory.md:73 (memory.go:110-147, main.go:198).
THEOREM ConversationRemembersAlways == Spec => []ConversationRemembers
  <1>1. MemoryInv /\ PromptInv /\ SinceInv => ConversationRemembers
    <2> SUFFICES ASSUME Types, PromptInv, SinceInv, pc # "starting",
                        NEW d \in ({day - 1, day} \cap Days) \ prompt.unread
                 PROVE  Kept(d) \ since \subseteq Loaded(d)
      BY DEF MemoryInv, ConversationRemembers
    <2>1. day \in Nat /\ prompt.today \in Nat /\ d \in Nat /\ prompt.today <= day
      BY MemoryAssumption DEF Types, PromptInv, Days, SinceInv
    <2>2. prompt.today < d \/ d = prompt.today \/ d = prompt.today - 1
      BY <2>1
    <2>3. QED
      BY <2>2 DEF SinceInv, Kept
  <1>2. MemoryInv /\ PromptInv /\ SinceInv /\ [Next]_vars => PromptInv' /\ SinceInv'
    BY NextPrompt, NextSince DEF MemoryInv
  <1>3. QED
    BY <1>1, <1>2, InitPrompt, InitSince, MemoryInvariant, PTL DEF Spec
-------------------------------------------------------------------------------
(* The rate limiter, for every limit, window and set of keys.                *)

\* The limit holds because the forgotten grants are old and the remembered ones
\* are counted, so the two are kept together.
WindowInv == LimitTypeOK /\ RemembersTheHour /\ RollingLimit

\* Nothing is granted or remembered at first.
LEMMA InitWindow == LimitInit => WindowInv
  BY RateAssumption
  DEF LimitInit, WindowInv, LimitTypeOK, RemembersTheHour, Forgotten, RollingLimit

\* What Left(k, i) is: the entries of hits[k] after the i-th.
LEMMA LeftIs ==
  ASSUME LimitTypeOK, NEW k \in Keys, NEW e \in 0..Len(hits[k])
  PROVE  /\ Left(k, e) \in Seq(Nat)
         /\ Len(Left(k, e)) = Len(hits[k]) - e
         /\ \A j \in 1..Len(hits[k]) - e : Left(k, e)[j] = hits[k][e + j]
  BY DEF LimitTypeOK, Left

\* Forgetting expired entries keeps the account of one key.
LEMMA LeftRemembered ==
  ASSUME WindowInv, NEW k \in Keys, NEW e \in 0..Len(hits[k]),
         Evicts(hits[k], e)
  PROVE  /\ Len(granted[k]) - Len(Left(k, e)) = Forgotten(k) + e
         /\ \A j \in 1..Len(Left(k, e)) :
              Left(k, e)[j] = granted[k][Forgotten(k) + e + j]
         /\ \A i \in 1..Forgotten(k) + e : granted[k][i] < now - Hour
  <1>1. LimitTypeOK /\ RemembersTheHour
    BY DEF WindowInv
  <1>2. /\ granted[k] \in Seq(Nat) /\ hits[k] \in Seq(Nat)
        /\ now - Hour \in Int /\ Forgotten(k) \in Nat
        /\ Len(granted[k]) = Forgotten(k) + Len(hits[k])
    BY <1>1, RateAssumption DEF LimitTypeOK, RemembersTheHour, Forgotten
  <1>3. /\ \A j \in 1..Len(hits[k]) : hits[k][j] = granted[k][Forgotten(k) + j]
        /\ \A i \in 1..Forgotten(k) : granted[k][i] < now - Hour
    BY <1>1 DEF RemembersTheHour
  <1>4. \A j \in 1..e : hits[k][j] < now - Hour
    BY DEF Evicts, Expired
  <1>5. /\ Left(k, e) \in Seq(Nat) /\ e \in Nat
        /\ Len(hits[k]) = e + Len(Left(k, e))
        /\ \A j \in 1..Len(Left(k, e)) : Left(k, e)[j] = hits[k][e + j]
    <2>1. /\ Left(k, e) \in Seq(Nat)
          /\ Len(Left(k, e)) = Len(hits[k]) - e
          /\ \A j \in 1..Len(hits[k]) - e : Left(k, e)[j] = hits[k][e + j]
      BY <1>1, LeftIs
    <2>2. e \in Nat /\ e <= Len(hits[k]) /\ Len(hits[k]) \in Nat
      BY <1>2
    <2>3. Len(hits[k]) = e + Len(Left(k, e))
      BY <2>1, <2>2
    <2>4. QED
      BY <2>1, <2>2, <2>3
  <1>6. PICK g \in Seq(Nat), h \in Seq(Nat), l \in Seq(Nat), f \in Nat, n \in Nat,
             cutoff \in Int :
          /\ g = granted[k] /\ h = hits[k] /\ l = Left(k, e)
          /\ f = Forgotten(k) /\ n = e /\ cutoff = now - Hour
    BY <1>2, <1>5
  <1>7. /\ Len(g) = f + Len(h) /\ Len(h) = n + Len(l)
        /\ \A j \in 1..Len(h) : h[j] = g[f + j]
        /\ \A j \in 1..Len(l) : l[j] = h[n + j]
        /\ \A i \in 1..f : g[i] < cutoff
        /\ \A j \in 1..n : h[j] < cutoff
    BY <1>2, <1>3, <1>4, <1>5, <1>6
  <1>8. Len(g) - Len(l) = f + n
    BY <1>7
  <1>9. ASSUME NEW j \in 1..Len(l) PROVE l[j] = g[f + n + j]
    <2>1. n + j \in 1..Len(h) /\ f + (n + j) = f + n + j
      BY <1>7
    <2>2. QED
      BY <1>7, <2>1
  <1>10. ASSUME NEW i \in 1..f + n PROVE g[i] < cutoff
    <2>1. CASE i > f
      <3>1. i - f \in 1..n /\ i - f \in 1..Len(h) /\ f + (i - f) = i
        BY <1>7, <2>1
      <3>2. h[i - f] = g[i]
        BY <1>7, <3>1
      <3>3. QED
        BY <1>7, <3>1, <3>2
    <2>2. QED
      BY <1>7, <2>1
  <1>11. QED
    BY <1>6, <1>8, <1>9, <1>10

\* The only index after the first n of n + 1 is the last.
LEMMA LastIndex ==
  ASSUME NEW a \in Nat, NEW n \in Nat, a > n, a <= n + 1
  PROVE  a = n + 1
  OBVIOUS

\* Every step keeps the account and the limit.
LEMMA NextWindow == WindowInv /\ [LimitNext]_limitVars => WindowInv'
  <1> SUFFICES ASSUME WindowInv, [LimitNext]_limitVars PROVE WindowInv'
    OBVIOUS
  <1> USE RateAssumption
  <1>0. LimitTypeOK /\ RemembersTheHour /\ RollingLimit
    BY DEF WindowInv
  <1>1. CASE Tick
    <2>1. LimitTypeOK'
      BY <1>0, <1>1 DEF Tick, LimitTypeOK
    <2>2. RollingLimit'
      BY <1>0, <1>1 DEF Tick, RollingLimit
    <2>3. RemembersTheHour'
      <3> SUFFICES ASSUME NEW k \in Keys, NEW i \in 1..Forgotten(k)
                   PROVE  granted[k][i] < now' - Hour
        BY <1>0, <1>1 DEF Tick, RemembersTheHour, Forgotten
      <3>1. granted[k][i] \in Nat /\ granted[k][i] < now - Hour
        BY <1>0 DEF LimitTypeOK, RemembersTheHour, Forgotten
      <3>2. QED
        BY <1>0, <1>1, <3>1 DEF Tick, LimitTypeOK
    <2>4. QED
      BY <2>1, <2>2, <2>3 DEF WindowInv
  <1>2. ASSUME NEW k \in Keys, Grant(k) PROVE WindowInv'
    <2>1. PICK e \in 0..Len(hits[k]) :
            /\ Evicts(hits[k], e)
            /\ UnderLimit(Left(k, e))
            /\ hits' = [hits EXCEPT ![k] = Append(Left(k, e), now)]
            /\ granted' = [granted EXCEPT ![k] = Append(@, now)]
            /\ now' = now
      BY <1>2 DEF Grant
    <2>2. /\ Left(k, e) \in Seq(Nat)
          /\ Len(Left(k, e)) = Len(hits[k]) - e
      BY <1>0, LeftIs
    <2>3. /\ Len(granted[k]) - Len(Left(k, e)) = Forgotten(k) + e
          /\ \A j \in 1..Len(Left(k, e)) :
               Left(k, e)[j] = granted[k][Forgotten(k) + e + j]
          /\ \A i \in 1..Forgotten(k) + e : granted[k][i] < now - Hour
      BY <2>1, LeftRemembered
    <2>4. granted[k] \in Seq(Nat) /\ Forgotten(k) + e \in Nat
      BY <1>0 DEF LimitTypeOK, RemembersTheHour, Forgotten
    <2>5. PICK g \in Seq(Nat), l \in Seq(Nat), d \in Nat :
            g = granted[k] /\ l = Left(k, e) /\ d = Forgotten(k) + e
      BY <2>2, <2>4
    <2>6. /\ Len(g) - Len(l) = d
          /\ \A j \in 1..Len(l) : l[j] = g[d + j]
          /\ \A i \in 1..d : g[i] < now - Hour
          /\ now \in Nat /\ Len(l) < Limit
      BY <1>0, <2>1, <2>3, <2>5 DEF LimitTypeOK, UnderLimit
    <2>. Len(g) \in Nat /\ Len(l) \in Nat /\ Len(g) = d + Len(l) /\ Len(l) < Limit
      BY <2>6
    <2>7. /\ hits'[k] = Append(l, now) /\ granted'[k] = Append(g, now)
          /\ \A c \in Keys \ {k} :
               hits'[c] = hits[c] /\ granted'[c] = granted[c]
      BY <1>0, <2>1, <2>5 DEF LimitTypeOK
    <2>8. LimitTypeOK'
      BY <1>0, <2>1, <2>5, <2>6 DEF LimitTypeOK
    <2>9. ASSUME NEW c \in Keys
          PROVE  /\ Forgotten(c)' >= 0
                 /\ \A j \in 1..Len(hits'[c]) :
                      hits'[c][j] = granted'[c][Forgotten(c)' + j]
                 /\ \A i \in 1..Forgotten(c)' : granted'[c][i] < now' - Hour
      <3>1. CASE c # k
        <4>1. hits'[c] = hits[c] /\ granted'[c] = granted[c] /\ now' = now
          BY <2>1, <2>7, <3>1
        <4>2. Forgotten(c)' = Forgotten(c)
          BY <4>1 DEF Forgotten
        <4>3. QED
          BY <1>0, <4>1, <4>2 DEF RemembersTheHour
      <3>2. CASE c = k
        <4>1. /\ Forgotten(c)' = d
              /\ hits'[c] = Append(l, now) /\ granted'[c] = Append(g, now)
          BY <2>6, <2>7, <3>2 DEF Forgotten
        <4>2. ASSUME NEW j \in 1..Len(l) + 1
              PROVE  Append(l, now)[j] = Append(g, now)[d + j]
          <5>1. CASE j = Len(l) + 1
            <6>1. d + j = Len(g) + 1
              BY <2>6, <5>1
            <6>2. QED
              BY <2>6, <5>1, <6>1
          <5>2. CASE j # Len(l) + 1
            <6>1. j \in 1..Len(l) /\ d + j \in 1..Len(g)
              BY <5>2
            <6>2. QED
              BY <2>6, <6>1
          <5>3. QED
            BY <5>1, <5>2
        <4>3. \A i \in 1..d : Append(g, now)[i] < now - Hour
          BY <2>6
        <4>4. ASSUME NEW j \in 1..Len(hits'[c])
              PROVE  hits'[c][j] = granted'[c][Forgotten(c)' + j]
          <5>1. j \in 1..Len(l) + 1
            BY <4>1
          <5>2. QED
            BY <4>1, <4>2, <5>1
        <4>5. \A i \in 1..Forgotten(c)' : granted'[c][i] < now' - Hour
          BY <2>1, <4>1, <4>3
        <4>6. Forgotten(c)' >= 0
          BY <4>1
        <4>7. QED
          BY <4>4, <4>5, <4>6
      <3>3. QED
        BY <3>1, <3>2
    <2>10. ASSUME NEW c \in Keys, NEW i \in 1..Len(granted'[c]) - Limit
           PROVE  granted'[c][i + Limit] - granted'[c][i] > Hour
      <3>1. CASE c # k
        BY <1>0, <2>7, <3>1 DEF RollingLimit
      <3>2. CASE c = k /\ i + Limit <= Len(g)
        <4>1. i \in 1..Len(g) - Limit
          BY <3>2
        <4>2. g[i + Limit] - g[i] > Hour
          BY <1>0, <2>5, <4>1 DEF RollingLimit
        <4>3. granted'[c] = Append(g, now)
          BY <2>7, <3>2
        <4>4. i \in 1..Len(g) /\ i + Limit \in 1..Len(g)
          <5>1. i \in Nat /\ 1 <= i /\ Limit \in Nat
            BY <4>1, RateAssumption
          <5>2. QED
            BY <3>2, <5>1
        <4>5. Append(g, now)[i] = g[i] /\ Append(g, now)[i + Limit] = g[i + Limit]
          BY <2>6, <4>4
        <4>6. QED
          BY <4>2, <4>3, <4>5
      <3>3. CASE c = k /\ i + Limit > Len(g)
        <4>0. granted'[c] = Append(g, now)
          BY <2>7, <3>3
        <4>1. i + Limit = Len(g) + 1 /\ i \in 1..d
          <5>1. Len(granted'[c]) = Len(g) + 1
            BY <4>0
          <5>2. i \in Nat /\ 1 <= i /\ i <= Len(g) + 1 - Limit
            BY <5>1
          <5>3. Limit \in Nat /\ Len(g) \in Nat
            BY RateAssumption
          <5>4. i + Limit = Len(g) + 1
            <6>1. i + Limit <= Len(g) + 1
              BY <5>2, <5>3
            <6>2. i + Limit > Len(g)
              BY <3>3
            <6>3. i + Limit \in Nat
              BY <5>2, <5>3
            <6>4. QED
              BY <5>3, <6>1, <6>2, <6>3, LastIndex
          <5>5. i \in 1..d
            BY <5>2, <5>3, <5>4
          <5>6. QED
            BY <5>4, <5>5
        <4>2. g[i] < now - Hour /\ g[i] \in Nat
          BY <2>6, <4>1
        <4>3. Append(g, now)[i + Limit] = now /\ Append(g, now)[i] = g[i]
          BY <4>1
        <4>4. now \in Nat
          BY <2>6
        <4>5. QED
          BY <4>0, <4>2, <4>3, <4>4
      <3>4. QED
        BY <3>1, <3>2, <3>3
    <2>11. QED
      BY <2>8, <2>9, <2>10 DEF WindowInv, RemembersTheHour, RollingLimit
  <1>3. ASSUME NEW k \in Keys, Deny(k) PROVE WindowInv'
    <2>1. PICK e \in 0..Len(hits[k]) :
            /\ Evicts(hits[k], e)
            /\ hits' = [hits EXCEPT ![k] = Left(k, e)]
            /\ UNCHANGED <<now, granted>>
      BY <1>3 DEF Deny
    <2>2. /\ hits'[k] = Left(k, e)
          /\ \A c \in Keys \ {k} : hits'[c] = hits[c]
      BY <1>0, <2>1 DEF LimitTypeOK
    <2>3. /\ Left(k, e) \in Seq(Nat)
          /\ Len(Left(k, e)) = Len(hits[k]) - e
      BY <1>0, LeftIs
    <2>4. LimitTypeOK'
      BY <1>0, <2>1, <2>2, <2>3 DEF LimitTypeOK
    <2>5. ASSUME NEW c \in Keys
          PROVE  /\ Forgotten(c)' >= 0
                 /\ \A j \in 1..Len(hits'[c]) :
                      hits'[c][j] = granted[c][Forgotten(c)' + j]
                 /\ \A i \in 1..Forgotten(c)' : granted[c][i] < now - Hour
      <3>1. CASE c # k
        <4>1. hits'[c] = hits[c] /\ granted'[c] = granted[c]
          BY <2>1, <2>2, <3>1
        <4>2. Forgotten(c)' = Forgotten(c)
          BY <4>1 DEF Forgotten
        <4>3. QED
          BY <1>0, <4>1, <4>2 DEF RemembersTheHour
      <3>2. CASE c = k
        <4>1. Forgotten(k)' = Len(granted[k]) - Len(Left(k, e))
          BY <2>1, <2>2 DEF Forgotten
        <4>2. /\ Forgotten(k)' = Forgotten(k) + e
              /\ \A j \in 1..Len(Left(k, e)) :
                   Left(k, e)[j] = granted[k][Forgotten(k) + e + j]
              /\ \A i \in 1..Forgotten(k) + e : granted[k][i] < now - Hour
          BY <2>1, <4>1, LeftRemembered
        <4>3. Forgotten(k) + e >= 0
          BY <1>0 DEF LimitTypeOK, RemembersTheHour, Forgotten
        <4>4. QED
          BY <2>2, <3>2, <4>2, <4>3
      <3>3. QED
        BY <3>1, <3>2
    <2>6. QED
      BY <1>0, <2>1, <2>4, <2>5 DEF WindowInv, RemembersTheHour, RollingLimit
  <1>4. CASE UNCHANGED limitVars
    BY <1>0, <1>4
    DEF limitVars, WindowInv, LimitTypeOK, RemembersTheHour, Forgotten, RollingLimit
  <1>5. QED
    BY <1>1, <1>2, <1>3, <1>4 DEF LimitNext

\* No window of an hour holds more than Limit grants of one key
\* (ratelimit.go:26-47), whatever the limit and the traffic.
THEOREM RollingLimitAlways == LimitSpec => []RollingLimit
  <1>1. WindowInv => RollingLimit
    BY DEF WindowInv
  <1>2. QED
    BY <1>1, InitWindow, NextWindow, PTL DEF LimitSpec

\* The limiter remembers the last hour, and never more than Limit times.
THEOREM RemembersTheHourAlways == LimitSpec => [](LimitTypeOK /\ RemembersTheHour)
  <1>1. WindowInv => LimitTypeOK /\ RemembersTheHour
    BY DEF WindowInv
  <1>2. QED
    BY <1>1, InitWindow, NextWindow, PTL DEF LimitSpec
\* A key that is refused remembers Limit grants, and the oldest of them has not
\* expired: nothing can be evicted from a list that is still too long after it.
LEMMA RefusedIsFull == WindowInv => RefusesOnlyFull
  <1> SUFFICES ASSUME WindowInv, NEW k \in Keys, Refuses(k)
               PROVE  /\ Len(granted[k]) >= Limit
                      /\ Limit > 0 => granted[k][Len(granted[k]) - Limit + 1] >= now - Hour
    BY DEF RefusesOnlyFull
  <1>1. /\ hits[k] \in Seq(Nat) /\ Len(hits[k]) \in Nat /\ Len(hits[k]) <= Limit
        /\ Len(granted[k]) \in Nat /\ now \in Nat
        /\ Limit \in Nat /\ Hour \in Nat
    BY RateAssumption DEF WindowInv, LimitTypeOK
  <1>2. PICK e \in 0..Len(hits[k]) : Evicts(hits[k], e) /\ ~UnderLimit(Left(k, e))
    BY DEF Refuses
  <1>3. Len(Left(k, e)) = Len(hits[k]) - e
    BY LeftIs DEF WindowInv
  <1>4. e = 0 /\ Len(hits[k]) = Limit
    <2>1. Len(hits[k]) - e >= Limit
      BY <1>1, <1>2, <1>3 DEF UnderLimit
    <2>2. e \in Nat
      BY <1>1, <1>2
    <2>3. QED
      BY <1>1, <2>1, <2>2
  <1>5. Forgotten(k) \in Nat /\ Len(granted[k]) = Forgotten(k) + Limit
    <2>1. Forgotten(k) >= 0
      BY DEF WindowInv, RemembersTheHour
    <2>2. QED
      BY <1>1, <1>4, <2>1 DEF Forgotten
  <1>6. ASSUME Limit > 0
        PROVE  granted[k][Len(granted[k]) - Limit + 1] >= now - Hour
    <2>1. ~Expired(hits[k][1]) /\ hits[k][1] \in Nat
      BY <1>1, <1>2, <1>4, <1>6 DEF Evicts
    <2>2. hits[k][1] >= now - Hour
      BY <1>1, <2>1 DEF Expired
    <2>3. hits[k][1] = granted[k][Forgotten(k) + 1]
      BY <1>1, <1>4, <1>6 DEF WindowInv, RemembersTheHour
    <2>4. Len(granted[k]) - Limit + 1 = Forgotten(k) + 1
      BY <1>1, <1>5
    <2>5. QED
      BY <2>2, <2>3, <2>4
  <1>7. QED
    BY <1>1, <1>5, <1>6

\* Nobody is refused below the limit (ratelimit.go:32-41), whatever was refused
\* or evicted before.
THEOREM RefusesOnlyFullAlways == LimitSpec => []RefusesOnlyFull
  BY RefusedIsFull, InitWindow, NextWindow, PTL DEF LimitSpec
===============================================================================
