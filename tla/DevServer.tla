------------------------------- MODULE DevServer -------------------------------
(***************************************************************************)
(* The frontend dev server behind dev_server_start and dev_server_stop     *)
(* (internal/mcp/devtools.go): concurrent calls of Start, each with its    *)
(* context, and of Stop, over the one command the devServer remembers.     *)
(*                                                                         *)
(* The dev command is external: it binds its port some time after it has   *)
(* been started, or ends because the port is taken; it ends when it is     *)
(* killed, and may end by itself.  A process is named by the call of Start *)
(* that launched it.                                                       *)
(***************************************************************************)
EXTENDS Naturals, Sequences, SequencesExt

CONSTANTS
    Starts,   \* calls of dev_server_start
    Stops,    \* calls of dev_server_stop
    PortOf,   \* the port of the app each call of Start is for
    NoCmd,    \* ds.cmd == nil, and nobody
    Crash     \* whether kevinclaw itself may be restarted

ASSUME DevServerAssumption ==
    /\ Starts \cap Stops = {} /\ NoCmd \notin Starts \cup Stops
    /\ Crash \in BOOLEAN

VARIABLES
    pc,        \* where each call of Start and of Stop is
    ctx,       \* the contexts of Start that have ended
    watcher,   \* the goroutine each Start leaves behind
    proc,      \* the process each Start has launched
    signalled, \* the processes that were sent SIGTERM
    cmd,       \* ds.cmd
    lock,      \* who holds ds.mu across a Wait
    launched,  \* history: the launches of this kevinclaw, in order
    unseen     \* history: the processes that held no port at each port check

stopping == <<signalled, lock>>
history == <<launched, unseen>>
serverVars == <<pc, ctx, watcher, proc, cmd, stopping, history>>

Taken(port) == \E c \in Starts : PortOf[c] = port /\ proc[c] = "bound"
Alive(c) == proc[c] \in {"booting", "bound"}

ServerInit ==
    /\ pc = [c \in Starts \cup Stops |-> "idle"]
    /\ ctx = {}
    /\ watcher = [c \in Starts |-> "none"]
    /\ proc = [c \in Starts |-> "none"]
    /\ cmd = NoCmd /\ lock = NoCmd /\ signalled = {}
    /\ launched = <<>> /\ unseen = [c \in Starts |-> {}]

-------------------------------------------------------------------------------
(* Start *)
Goto(c, from, to) == pc[c] = from /\ pc' = [pc EXCEPT ![c] = to]

Holding == {d \in Starts : proc[d] = "bound"}
Looked(c) == unseen' = [unseen EXCEPT ![c] = Starts \ Holding]

\* Mutant: the port is not looked at.
CheckNothing(c) ==
    /\ Goto(c, "idle", "setup")
    /\ Looked(c)
    /\ UNCHANGED <<ctx, watcher, proc, cmd, stopping, launched>>

\* net.Listen on the port, closed at once; ErrPortBusy when it is taken.
CheckPort(c) ==
    /\ Goto(c, "idle", IF Taken(PortOf[c]) THEN "failed" ELSE "setup")
    /\ Looked(c)
    /\ UNCHANGED <<ctx, watcher, proc, cmd, stopping, launched>>

\* The setup commands, one after the other; one that fails ends the call.
Setup(c) ==
    /\ Goto(c, "setup", "launch") \/ Goto(c, "setup", "failed")
    /\ UNCHANGED <<ctx, watcher, proc, cmd, stopping, history>>

\* Under the lock: cmd.Start, ds.cmd = cmd, and the goroutine for the context.
Launch(c) ==
    /\ lock = NoCmd
    /\ \/ /\ Goto(c, "launch", "started")
          /\ proc' = [proc EXCEPT ![c] = "booting"]
          /\ watcher' = [watcher EXCEPT ![c] = "waiting"]
          /\ cmd' = c
          /\ launched' = Append(launched, c)
       \/ /\ Goto(c, "launch", "failed")
          /\ UNCHANGED <<proc, watcher, cmd, launched>>
    /\ UNCHANGED <<ctx, stopping, unseen>>

\* The context of a call may end at any time.
CtxEnds(c) ==
    /\ pc[c] # "idle" /\ c \notin ctx
    /\ ctx' = ctx \cup {c}
    /\ UNCHANGED <<pc, watcher, proc, cmd, stopping, history>>

-------------------------------------------------------------------------------
(* Stop, called by a tool call or by the goroutine of a Start *)

\* Lock, find the process and send SIGTERM to its group; the lock is kept until
\* Wait returns.  With no command there is nothing to do.
Kill(who) ==
    /\ lock = NoCmd
    /\ IF cmd = NoCmd THEN UNCHANGED stopping
       ELSE lock' = who /\ signalled' = signalled \cup {cmd}
    /\ UNCHANGED <<proc, cmd, ctx, history>>

\* Mutant: Stop returns with the lock held.
ReapLocked(who) ==
    /\ lock = who /\ ~Alive(cmd)
    /\ cmd' = NoCmd
    /\ UNCHANGED <<stopping, proc, ctx, history>>

\* Wait returns; ds.cmd = nil, and unlock.
Reap(who) ==
    /\ lock = who /\ ~Alive(cmd)
    /\ cmd' = NoCmd /\ lock' = NoCmd
    /\ UNCHANGED <<signalled, proc, ctx, history>>

StopBegins(s) ==
    /\ Goto(s, "idle", IF cmd = NoCmd THEN "stopped" ELSE "waiting")
    /\ Kill(s)
    /\ UNCHANGED watcher

StopEnds(s) == Goto(s, "waiting", "stopped") /\ Reap(s) /\ UNCHANGED watcher

\* <-ctx.Done(); ds.Stop()
WatcherStops(c) ==
    /\ watcher[c] = "waiting" /\ c \in ctx
    /\ watcher' = [watcher EXCEPT ![c] = IF cmd = NoCmd THEN "done" ELSE "killing"]
    /\ Kill(c)
    /\ UNCHANGED pc

WatcherEnds(c) ==
    /\ watcher[c] = "killing"
    /\ watcher' = [watcher EXCEPT ![c] = "done"]
    /\ Reap(c)
    /\ UNCHANGED pc

-------------------------------------------------------------------------------
(* The dev command *)
Binds(c) ==
    /\ proc[c] = "booting"
    /\ proc' = [proc EXCEPT ![c] = IF Taken(PortOf[c]) THEN "dead" ELSE "bound"]
    /\ UNCHANGED <<pc, ctx, watcher, cmd, stopping, history>>

Dies(c) ==
    /\ Alive(c)
    /\ proc' = [proc EXCEPT ![c] = "dead"]
    /\ UNCHANGED <<pc, ctx, watcher, cmd, stopping, history>>

KilledDies(c) == c \in signalled /\ Dies(c)

\* kevinclaw is restarted: the dev commands are process groups of their own
\* and stay.
ServerRestart ==
    /\ Crash
    /\ pc' = [c \in Starts \cup Stops |-> IF pc[c] = "idle" THEN "idle" ELSE "lost"]
    /\ watcher' = [c \in Starts |-> "none"]
    /\ cmd' = NoCmd /\ lock' = NoCmd /\ launched' = <<>>
    /\ UNCHANGED <<ctx, proc, signalled, unseen>>

StartCall(c) == CheckPort(c) \/ Setup(c) \/ Launch(c)
Watcher(c) == WatcherStops(c) \/ WatcherEnds(c)
Stop(s) == StopBegins(s) \/ StopEnds(s)

ServerNext ==
    \/ ServerRestart
    \/ \E c \in Starts : StartCall(c) \/ CtxEnds(c) \/ Watcher(c) \/ Binds(c) \/ Dies(c)
    \/ \E s \in Stops : Stop(s)

ServerSpec == ServerInit /\ [][ServerNext]_serverVars

\* The goroutines run, mutexes are handed on fairly (sync.Mutex starves nobody),
\* and a process that is sent SIGTERM ends.
ServerFairSpec ==
    /\ ServerSpec
    /\ \A c \in Starts : SF_serverVars(Watcher(c)) /\ WF_serverVars(KilledDies(c))
    /\ \A s \in Stops : WF_serverVars(StopEnds(s))

-------------------------------------------------------------------------------
(* Properties *)

\* Every variable has its type, and whoever holds the lock across a Wait has a
\* command to wait for.
ServerTypeOK ==
    /\ pc \in [Starts \cup Stops -> {"idle", "setup", "launch", "started",
                                     "failed", "waiting", "stopped", "lost"}]
    /\ ctx \subseteq Starts /\ signalled \subseteq Starts
    /\ watcher \in [Starts -> {"none", "waiting", "killing", "done"}]
    /\ proc \in [Starts -> {"none", "booting", "bound", "dead"}]
    /\ cmd \in Starts \cup {NoCmd}
    /\ lock \in Starts \cup Stops \cup {NoCmd} /\ (lock # NoCmd => cmd # NoCmd)
    /\ launched \in Seq(Starts)
    /\ unseen \in [Starts -> SUBSET Starts]

\* The devServer loses sight of a process that still runs only because a later
\* launch took its place, and that one is for another port or looked at the
\* port before the process had it: Stop forgets none (devtools.go:226-246), and
\* the check (:183-191) is good for nothing more, as it is not under the lock.
LostOnlyToLaunch ==
    \A i \in DOMAIN launched :
        LET c == launched[i]
        IN  Alive(c) /\ cmd # c =>
                \E j \in i + 1..Len(launched) :
                    \/ PortOf[launched[j]] # PortOf[c]
                    \/ c \in unseen[launched[j]]

\* The lock is kept by nobody but a Stop that waits for a process, one that was
\* sent SIGTERM and is still the remembered one, and whoever waits so keeps it
\* (devtools.go:225-246): no launch, second Stop or restart comes between.
HolderReaps ==
    /\ lock # NoCmd => cmd \in signalled
    /\ \A s \in Stops : lock = s <=> pc[s] = "waiting"
    /\ \A c \in Starts : lock = c <=> watcher[c] = "killing"

\* Nobody waits for the lock for ever, although Stop keeps it while it waits
\* for a process: once the context of a Start has ended, its goroutine stops
\* what there is to stop and ends (devtools.go:217-246).
WatcherFinishes ==
    \A c \in Starts : c \in ctx /\ watcher[c] = "waiting" ~> watcher[c] \in {"none", "done"}
===============================================================================
