-------------------------------- MODULE Memory --------------------------------
(***************************************************************************)
(* Kevin's daily logs (internal/agent/memory.go): the system prompt that   *)
(* is built from them at startup, the goroutine that makes a new file at   *)
(* midnight, and Kevin, who appends to the files through the tools of      *)
(* claude while all this goes on (external).                               *)
(*                                                                         *)
(* A file is the set of its entries and is named by its day; PREFERENCES   *)
(* and KEVIN.md, which nothing in the code writes, are left out.           *)
(***************************************************************************)
EXTENDS Naturals, FiniteSets

CONSTANTS
    Entries,  \* what Kevin notes, each once
    LastDay,  \* bound: the last day of the calendar
    Faults    \* what may fail: "mkdir", "write", "read"

ASSUME MemoryAssumption ==
    LastDay \in Nat \ {0} /\ Faults \subseteq {"mkdir", "write", "read"}

Days == 1..LastDay

VARIABLES
    day,      \* the date
    created,  \* the days whose file exists
    log,      \* the entries in each day's file
    pc,       \* where the startup, and then the rotation, is
    target,   \* `today` of ensureDailyLog
    due,      \* `next`: the midnight the timer is set to
    prompt,   \* the system prompt: its date and the logs in it
    written,  \* history: the entries Kevin wrote into each file
    raced,    \* history: those he wrote after ensureDailyLog found no file
    since,    \* history: those he wrote since the prompt was built
    excused   \* history: days that came, or whose file could not be made,
              \* after the rotation had looked at the date

kevin == <<written, raced, since>>
vars == <<day, created, log, pc, target, due, prompt, kevin, excused>>

Init ==
    /\ day = 1 /\ created = {} /\ log = [d \in Days |-> {}]
    /\ pc = "starting" /\ target = 1 /\ due = 1
    /\ prompt = [today |-> 1, logs |-> [d \in {} |-> {}], unread |-> {}]
    /\ written = log /\ raced = log /\ since = {} /\ excused = {}

-------------------------------------------------------------------------------
\* Mutant: the first logs are taken.
RecentEarliest(S) == {d \in S : d <= day /\ Cardinality({x \in S : x < d}) < 2}

\* recentDailyLogs: of the files in S, the last two up to and including today.
Recent(S) ==
    {d \in S : d <= day /\ Cardinality({x \in S : d < x /\ x <= day}) < 2}

\* BuildSystemPrompt, once per start; a file that cannot be read is skipped.
BuildSystemPrompt ==
    /\ pc = "starting"
    /\ \E unread \in SUBSET created :
         /\ unread = {} \/ "read" \in Faults
         /\ prompt' = [today |-> day, unread |-> unread,
                       logs |-> [d \in Recent(created \ unread) |-> log[d]]]
    /\ pc' = "ensure" /\ since' = {}
    /\ UNCHANGED <<day, created, log, target, due, written, raced, excused>>

\* Mutant: it is not looked whether there is a file.
FoundNever(d) == FALSE

Found(d) == d \in created

\* ensureDailyLog up to Stat.
Look ==
    /\ pc = "ensure"
    /\ target' = day
    /\ \/ /\ pc' = IF Found(day) THEN "arm" ELSE "create"
          /\ UNCHANGED excused
       \/ /\ "mkdir" \in Faults
          /\ pc' = "arm" /\ excused' = excused \cup {day}
    /\ UNCHANGED <<day, created, log, due, prompt, kevin>>

\* WriteFile makes the file, or empties it.
CreateLog ==
    /\ pc = "create"
    /\ pc' = "arm"
    /\ \/ /\ created' = created \cup {target}
          /\ log' = [log EXCEPT ![target] = {}]
          /\ UNCHANGED excused
       \/ /\ "write" \in Faults
          /\ excused' = excused \cup {target}
          /\ UNCHANGED <<created, log>>
    /\ UNCHANGED <<day, target, due, prompt, kevin>>

\* Mutant: a day more.
NextMidnightLate == day + 2

NextMidnight == day + 1

\* One turn of the goroutine's loop: it sleeps until the next midnight,
Arm ==
    /\ pc = "arm"
    /\ pc' = "asleep" /\ due' = NextMidnight
    /\ UNCHANGED <<day, created, log, target, prompt, kevin, excused>>

\* and makes sure of the new day's file.
Fire ==
    /\ pc = "asleep" /\ day >= due
    /\ pc' = "ensure"
    /\ UNCHANGED <<day, created, log, target, due, prompt, kevin, excused>>

-------------------------------------------------------------------------------
(* The world *)

\* Kevin notes something in the file of today, as his prompt or as a clock has
\* it; he makes the file if there is none.  He can be called from the moment
\* the agent exists, by a cron job even before the rotation starts.
Note(e, d) ==
    /\ pc # "starting"
    /\ d \in {day, prompt.today}
    /\ \A x \in Days : e \notin written[x]
    /\ created' = created \cup {d}
    /\ log' = [log EXCEPT ![d] = @ \cup {e}]
    /\ written' = [written EXCEPT ![d] = @ \cup {e}]
    /\ raced' = IF pc = "create" /\ d = target
                THEN [raced EXCEPT ![d] = @ \cup {e}] ELSE raced
    /\ since' = since \cup {e}
    /\ UNCHANGED <<day, pc, target, due, prompt, excused>>

Midnight ==
    /\ day < LastDay
    /\ day' = day + 1
    /\ excused' = IF pc \in {"create", "arm"} THEN excused \cup {day + 1}
                  ELSE excused
    /\ UNCHANGED <<created, log, pc, target, due, prompt, kevin>>

Restart ==
    /\ pc # "starting"
    /\ pc' = "starting"
    /\ UNCHANGED <<day, created, log, target, due, prompt, kevin, excused>>

Rotation == Look \/ CreateLog \/ Arm \/ Fire

Next ==
    \/ BuildSystemPrompt \/ Rotation \/ Midnight \/ Restart
    \/ \E e \in Entries, d \in Days : Note(e, d)

Spec == Init /\ [][Next]_vars

-------------------------------------------------------------------------------
(* Properties *)
\* What Kevin wrote into a log, but for what the rotation may have emptied.
Kept(d) == written[d] \ raced[d]

\* Every variable has its type; only a file that exists has entries.
TypeOK ==
    /\ day \in Days /\ target \in Days /\ due \in Nat
    /\ created \subseteq Days /\ excused \subseteq Days
    /\ log \in [Days -> SUBSET Entries]
    /\ written \in [Days -> SUBSET Entries]
    /\ raced \in [Days -> SUBSET Entries] /\ since \subseteq Entries
    /\ pc \in {"starting", "ensure", "create", "arm", "asleep"}
    /\ prompt.today \in Days /\ prompt.unread \subseteq Days
    /\ DOMAIN prompt.logs \subseteq Days /\ Cardinality(DOMAIN prompt.logs) <= 2
    /\ \A d \in Days \ created : log[d] = {}

\* docs/memory.md:73, "append-only": the rotation never takes an entry out of a
\* log, at midnight or at a restart (memory.go:101-104), with one way out: the
\* entry was written into a file Kevin made between Stat and WriteFile.
AppendOnly == \A d \in Days : Kept(d) \subseteq log[d]

\* memory.go:75, "creates a new one at each midnight": while the goroutine
\* sleeps until a midnight to come, today has its file.  Not so if the
\* directory or the file could not be made, or if the midnight before came
\* after the date was looked at and before the timer was set
\* (memory.go:77-81): that day has none until Kevin or a restart makes it.
TodayHasLog ==
    pc = "asleep" /\ day < due => day \in created \cup excused

\* What the prompt holds of a day.
Loaded(d) == IF d \in DOMAIN prompt.logs THEN prompt.logs[d] ELSE {}

\* How far "Today's and yesterday's logs are loaded at conversation start"
\* (docs/memory.md:73) is true.  A conversation may start whenever the agent is
\* there, but its prompt was built when the process started (main.go:198), not
\* "Rebuilt per message" (README.md:57).  Of what Kevin wrote into the logs of
\* the day before and the day of the conversation, however many midnights and
\* restarts have passed, the prompt lacks only what he wrote since that start,
\* what the rotation may have emptied, and a file that could not be read.
ConversationRemembers ==
    pc # "starting" =>
        \A d \in ({day - 1, day} \cap Days) \ prompt.unread :
            Kept(d) \ since \subseteq Loaded(d)
===============================================================================
