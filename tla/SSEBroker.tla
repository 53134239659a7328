------------------------------- MODULE SSEBroker -------------------------------
(***************************************************************************)
(* The dashboard's live stream: SSEBroker and the two handlers that        *)
(* subscribe to it (web/server.go).  Runners publish under the read lock,  *)
(* so several of them walk the subscribers at the same time; handlers      *)
(* subscribe and unsubscribe under the write lock.                         *)
(*                                                                         *)
(* An event is <<p, n>>, the n-th of publisher p: one runner's OnEvent is  *)
(* called for one line after the other.                                    *)
(***************************************************************************)
EXTENDS Naturals, Sequences

CONSTANTS
    Publishers,  \* the runners
    Clients,     \* the connections to an SSE endpoint
    RunOf,       \* [Publishers -> Nat]: the run id it publishes under
    Follows,     \* [Clients -> Nat]: the run id it subscribes to, 0 for all
    Cap,         \* the buffer of a subscription (50)
    MaxEvents    \* bound: events of one publisher

ASSUME BrokerAssumption ==
    /\ RunOf \in [Publishers -> Nat] /\ Follows \in [Clients -> Nat]
    /\ Cap \in Nat \ {0} /\ MaxEvents \in Nat

VARIABLES
    stage,    \* where each client's handler is
    subs,     \* the channels in the broker's map, named by their clients
    closed,   \* the channels that have been closed
    buf,      \* what each channel holds
    got,      \* what each client was sent
    count,    \* events of each publisher so far
    todo,     \* the subscribers each Publish under way has yet to visit
    reading,  \* the publishers that hold the read lock
    since,    \* history: the counts when each client subscribed
    full      \* history: the channels that were full at some time

vars == <<stage, subs, closed, buf, got, count, todo, reading, since, full>>
publishing == <<count, todo, reading>>

Events == Publishers \X (1..MaxEvents)

Init ==
    /\ stage = [c \in Clients |-> "new"]
    /\ subs = {} /\ closed = {} /\ full = {}
    /\ buf = [c \in Clients |-> <<>>] /\ got = [c \in Clients |-> <<>>]
    /\ count = [p \in Publishers |-> 0]
    /\ todo = [p \in Publishers |-> {}]
    /\ reading = {}
    /\ since = [c \in Clients |-> [p \in Publishers |-> 0]]

-------------------------------------------------------------------------------
(* The lock.  A writer that waits keeps new readers out (sync.RWMutex).        *)
WriterWaits == \E c \in Clients : stage[c] \in {"opening", "closing"}
Readable == ~WriterWaits
Writable == reading = {}

(* The handlers *)

\* A request arrives, and its handler asks for the write lock.
Connect(c) ==
    /\ stage[c] = "new"
    /\ stage' = [stage EXCEPT ![c] = "opening"]
    /\ UNCHANGED <<subs, closed, buf, got, publishing, since, full>>

Subscribe(c) ==
    /\ stage[c] = "opening" /\ Writable
    /\ stage' = [stage EXCEPT ![c] = "open"]
    /\ subs' = subs \cup {c}
    /\ since' = [since EXCEPT ![c] = count]
    /\ UNCHANGED <<closed, buf, got, publishing, full>>

\* case msg := <-ch; the client may be slow to take it.
Receive(c) ==
    /\ stage[c] = "open" /\ buf[c] # <<>>
    /\ got' = [got EXCEPT ![c] = Append(@, Head(buf[c]))]
    /\ buf' = [buf EXCEPT ![c] = Tail(@)]
    /\ UNCHANGED <<stage, subs, closed, publishing, since, full>>

\* case <-r.Context().Done(): the deferred Unsubscribe asks for the write lock.
Disconnect(c) ==
    /\ stage[c] = "open"
    /\ stage' = [stage EXCEPT ![c] = "closing"]
    /\ UNCHANGED <<subs, closed, buf, got, publishing, since, full>>

\* Mutant: the channel is closed without the write lock.
UnsubscribeUnlocked(c) ==
    /\ stage[c] = "closing"
    /\ stage' = [stage EXCEPT ![c] = "gone"]
    /\ subs' = subs \ {c}
    /\ closed' = closed \cup {c}
    /\ UNCHANGED <<buf, got, publishing, since, full>>

Unsubscribe(c) ==
    /\ stage[c] = "closing" /\ Writable
    /\ stage' = [stage EXCEPT ![c] = "gone"]
    /\ subs' = subs \ {c}
    /\ closed' = closed \cup {c}
    /\ UNCHANGED <<buf, got, publishing, since, full>>

(* Publish *)
PublishBegin(p) ==
    /\ p \notin reading /\ count[p] < MaxEvents /\ Readable
    /\ reading' = reading \cup {p}
    /\ count' = [count EXCEPT ![p] = @ + 1]
    /\ todo' = [todo EXCEPT ![p] = subs]
    /\ UNCHANGED <<stage, subs, closed, buf, got, since, full>>

\* Mutant: the comparison with the run is lost.
MatchesAll(c, p) == TRUE

\* s.runID != 0 && s.runID != runID is skipped.
Matches(c, p) == Follows[c] = 0 \/ Follows[c] = RunOf[p]

\* Mutant: the last place of the buffer is never used.
RoomEarly(c) == Len(buf[c]) < Cap - 1

Room(c) == Len(buf[c]) < Cap

\* Mutant: an ordinary send, which waits for room.
SendToBlocking(p, c) ==
    /\ c \in todo[p] /\ Room(c)
    /\ todo' = [todo EXCEPT ![p] = @ \ {c}]
    /\ buf' = [buf EXCEPT ![c] = Append(@, <<p, count[p]>>)]
    /\ full' = IF Len(buf'[c]) = Cap THEN full \cup {c} ELSE full
    /\ UNCHANGED <<stage, subs, closed, got, count, reading, since>>

\* One turn of the loop, over a map: in any order.  A full channel is skipped.
SendTo(p, c) ==
    /\ c \in todo[p]
    /\ todo' = [todo EXCEPT ![p] = @ \ {c}]
    /\ \/ /\ Matches(c, p) /\ Room(c)
          /\ buf' = [buf EXCEPT ![c] = Append(@, <<p, count[p]>>)]
          /\ full' = IF Len(buf'[c]) = Cap THEN full \cup {c} ELSE full
       \/ /\ ~(Matches(c, p) /\ Room(c))
          /\ UNCHANGED <<buf, full>>
    /\ UNCHANGED <<stage, subs, closed, got, count, reading, since>>

PublishEnd(p) ==
    /\ p \in reading /\ todo[p] = {}
    /\ reading' = reading \ {p}
    /\ UNCHANGED <<stage, subs, closed, buf, got, count, todo, since, full>>

-------------------------------------------------------------------------------
Handler(c) == Subscribe(c) \/ Unsubscribe(c)
Publisher(p) == PublishEnd(p) \/ \E c \in Clients : SendTo(p, c)

Next ==
    \/ \E c \in Clients : Connect(c) \/ Receive(c) \/ Disconnect(c) \/ Handler(c)
    \/ \E p \in Publishers : PublishBegin(p) \/ Publisher(p)

Spec == Init /\ [][Next]_vars

\* The goroutines that can go on do; no client need read, and none need leave.
FairSpec == Spec /\ \A c \in Clients : WF_vars(Handler(c))
                 /\ \A p \in Publishers : WF_vars(Publisher(p))

-------------------------------------------------------------------------------
(* Properties *)

\* Every variable has its type and no channel holds more than its buffer.
TypeOK ==
    /\ stage \in [Clients -> {"new", "opening", "open", "closing", "gone"}]
    /\ subs \subseteq Clients /\ closed \subseteq Clients /\ full \subseteq Clients
    /\ buf \in [Clients -> Seq(Events)] /\ \A c \in Clients : Len(buf[c]) <= Cap
    /\ got \in [Clients -> Seq(Events)]
    /\ count \in [Publishers -> 0..MaxEvents]
    /\ todo \in [Publishers -> SUBSET Clients]
    /\ reading \subseteq Publishers
    /\ since \in [Clients -> [Publishers -> 0..MaxEvents]]

\* A send on a closed channel panics, in a select too: no Publish under way has
\* a channel before it that Unsubscribe has closed (server.go:390-394, 399-412).
NoSendOnClosed == \A p \in Publishers : todo[p] \cap closed = {}

Sent(c) == got[c] \o buf[c]

\* A client sees only the run it follows, each publisher's events in their
\* order and none twice, although publishers interleave.
OwnRunInOrder ==
    \A c \in Clients :
        /\ \A i \in DOMAIN Sent(c) : Follows[c] \in {0, RunOf[Sent(c)[i][1]]}
        /\ \A i, j \in DOMAIN Sent(c) :
               i < j /\ Sent(c)[i][1] = Sent(c)[j][1]
                   => Sent(c)[i][2] < Sent(c)[j][2]

\* A client that is never Cap events behind misses nothing published between
\* its Subscribe and its Unsubscribe.
NothingMissed ==
    \A c \in subs \ full, p \in Publishers :
        Follows[c] \in {0, RunOf[p]} =>
            \A n \in since[c][p] + 1..count[p] :
                (n = count[p] /\ c \in todo[p])
                    \/ \E i \in DOMAIN Sent(c) : Sent(c)[i] = <<p, n>>

\* A client that does not read never holds up a runner, and a busy stream never
\* keeps a handler from unsubscribing.
NobodyWaitsForClients ==
    /\ \A p \in Publishers : p \in reading ~> p \notin reading
    /\ \A c \in Clients : stage[c] = "closing" ~> stage[c] = "gone"
===============================================================================
