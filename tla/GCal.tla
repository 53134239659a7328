--------------------------------- MODULE GCal ---------------------------------
(***************************************************************************)
(* The Google Calendar client (internal/gcal/gcal.go) under the concurrent *)
(* tool calls of internal/mcp/gcal.go: one access token, cached under a    *)
(* mutex that is held while a new one is fetched, and requests that carry  *)
(* a copy of it after the mutex is free again.                             *)
(*                                                                         *)
(* Google is external: it counts a token's life from the moment it issues  *)
(* it, the client from the moment the answer is there.  A token is named   *)
(* by the time of its issue.  The calendar has one event that is there     *)
(* already, and those the requests create.                                 *)
(***************************************************************************)
EXTENDS Integers

CONSTANTS
    Requests,   \* the tool calls
    Plans,      \* what they may ask for
    Fields,     \* the fields of an event
    Named,      \* the fields each update gives a value that is not empty
    Nobody,     \* who holds a free mutex
    Lifetime,   \* expires_in (an hour)
    Margin,     \* what a token must have left to be used (30 s)
    MaxTime     \* bound: the clock

Tools == {"read", "create", "update", "delete"}

ASSUME GCalAssumption ==
    /\ Plans \subseteq [Requests -> Tools] /\ Named \in [Requests -> SUBSET Fields]
    /\ Nobody \notin Requests
    /\ Margin \in Nat /\ Lifetime \in Nat /\ Margin < Lifetime
    /\ MaxTime \in Nat

VARIABLES
    now,
    lock,     \* c.mu: its holder
    cached,   \* c.accessToken, c.tokenExpires
    pc,       \* where each request is in token and do
    tool,     \* what each request asks for
    ticket,   \* the token each request carries, and what the cache says of it
    got,      \* history: when each request got its token
    status,   \* Google's answer to each request
    made,     \* the calendar: the events created
    changed,  \* the calendar: the fields of the standing event that were written
    gone      \* the calendar: the standing event is deleted

calendar == <<made, changed, gone>>
vars == <<now, lock, cached, pc, tool, ticket, got, status, calendar>>

NoToken == [issued |-> 0, expires |-> 0]

Init ==
    /\ now = 0 /\ lock = Nobody /\ cached = NoToken
    /\ pc = [r \in Requests |-> "idle"]
    /\ tool \in Plans
    /\ ticket = [r \in Requests |-> NoToken]
    /\ got = [r \in Requests |-> 0]
    /\ status = [r \in Requests |-> "none"]
    /\ made = {} /\ changed = {} /\ gone = FALSE

Goto(r, from, to) == pc[r] = from /\ pc' = [pc EXCEPT ![r] = to]

\* A tool call; Kevin's claude may make several at the same time.
Call(r) ==
    /\ Goto(r, "idle", "locking")
    /\ UNCHANGED <<now, tool, lock, cached, ticket, got, status, calendar>>

-------------------------------------------------------------------------------
(* token *)
\* Mutant: any token that is not over yet.
FreshToTheEnd == now < cached.expires

Fresh == now + Margin < cached.expires

\* The mutex is free and the token fresh: it is taken along.
UseCached(r) ==
    /\ lock = Nobody /\ Fresh
    /\ Goto(r, "locking", "sending")
    /\ ticket' = [ticket EXCEPT ![r] = cached]
    /\ got' = [got EXCEPT ![r] = now]
    /\ UNCHANGED <<now, tool, lock, cached, status, calendar>>

\* Mutant: the mutex is taken after the look at the token.
RefreshUnlocked(r) ==
    /\ ~Fresh
    /\ Goto(r, "locking", "refreshing")
    /\ lock' = r
    /\ UNCHANGED <<now, tool, cached, ticket, got, status, calendar>>

\* The mutex is kept, and a new token requested.
Refresh(r) ==
    /\ lock = Nobody /\ ~Fresh
    /\ Goto(r, "locking", "refreshing")
    /\ lock' = r
    /\ UNCHANGED <<now, tool, cached, ticket, got, status, calendar>>

Grant(r) ==
    /\ Goto(r, "refreshing", "granted")
    /\ ticket' = [ticket EXCEPT ![r] = [issued |-> now, expires |-> 0]]
    /\ UNCHANGED <<now, tool, lock, cached, got, status, calendar>>

\* The answer is read and cached; its life is counted from now.
Refreshed(r) ==
    /\ Goto(r, "granted", "sending")
    /\ cached' = [issued |-> ticket[r].issued, expires |-> now + Lifetime]
    /\ ticket' = [ticket EXCEPT ![r] = cached']
    /\ got' = [got EXCEPT ![r] = now]
    /\ lock' = Nobody
    /\ UNCHANGED <<now, tool, status, calendar>>

\* Mutant: an error return without the unlock.
RefreshFailsLocked(r) ==
    /\ Goto(r, "refreshing", "failed") \/ Goto(r, "granted", "failed")
    /\ ticket' = [ticket EXCEPT ![r] = NoToken]
    /\ UNCHANGED <<now, tool, lock, cached, got, status, calendar>>

\* The request fails, its context ends, or the answer is of no use: the cache is
\* left alone and the tool reports the error.
RefreshFails(r) ==
    /\ Goto(r, "refreshing", "failed") \/ Goto(r, "granted", "failed")
    /\ ticket' = [ticket EXCEPT ![r] = NoToken]
    /\ lock' = Nobody
    /\ UNCHANGED <<now, tool, cached, got, status, calendar>>

-------------------------------------------------------------------------------
(* do, and the tool that called it *)
Valid(t) == now < t.issued + Lifetime
Found(r) == tool[r] \in {"update", "delete"} => ~gone

\* Only what is not empty goes into the PATCH, so no field can be emptied.
Sent(r) == IF tool[r] = "update" THEN Named[r] ELSE {}

\* The request reaches Google, which acts on it or answers 401, 404 or 410.
\* The local copy of the token is not used again.
Arrive(r) ==
    /\ Goto(r, "sending", "answering")
    /\ IF Valid(ticket[r]) /\ Found(r)
       THEN /\ status' = [status EXCEPT ![r] = "ok"]
            /\ made' = IF tool[r] = "create" THEN made \cup {r} ELSE made
            /\ changed' = changed \cup Sent(r)
            /\ gone' = (gone \/ tool[r] = "delete")
       ELSE /\ status' = [status EXCEPT ![r] = "error"]
            /\ UNCHANGED calendar
    /\ ticket' = [ticket EXCEPT ![r] = NoToken]
    /\ got' = [got EXCEPT ![r] = 0]
    /\ UNCHANGED <<now, tool, lock, cached>>

\* Mutant: only a failed connection counts as an error.
AcceptedAlways(s) == TRUE

\* resp.StatusCode < 400
Accepted(s) == s = "ok"

Answer(r) ==
    /\ Goto(r, "answering", IF Accepted(status[r]) THEN "done" ELSE "failed")
    /\ status' = [status EXCEPT ![r] = "none"]
    /\ UNCHANGED <<now, tool, lock, cached, ticket, got, calendar>>

\* The connection fails before the request has arrived or before the answer
\* has: Kevin is told the same.
Lost(r) ==
    /\ Goto(r, "sending", "failed") \/ Goto(r, "answering", "failed")
    /\ ticket' = [ticket EXCEPT ![r] = NoToken]
    /\ got' = [got EXCEPT ![r] = 0]
    /\ status' = [status EXCEPT ![r] = "none"]
    /\ UNCHANGED <<now, tool, lock, cached, calendar>>

Tick ==
    /\ now < MaxTime
    /\ now' = now + 1
    /\ UNCHANGED <<lock, cached, pc, tool, ticket, got, status, calendar>>

Enters(r) == UseCached(r) \/ Refresh(r)
Refreshes(r) == Grant(r) \/ Refreshed(r) \/ RefreshFails(r)
Does(r) == Arrive(r) \/ Answer(r) \/ Lost(r)

Next == \/ Tick
        \/ \E r \in Requests : Call(r) \/ Enters(r) \/ Refreshes(r) \/ Does(r)

Spec == Init /\ [][Next]_vars

\* HTTP requests end, if only with an error, and sync.Mutex starves nobody.
FairSpec ==
    Spec /\ \A r \in Requests :
        SF_vars(Enters(r)) /\ WF_vars(Refreshes(r)) /\ WF_vars(Does(r))

-------------------------------------------------------------------------------
(* Properties *)
Places == {"idle", "locking", "refreshing", "granted", "sending", "answering",
           "done", "failed"}
Tokens == [issued : 0..MaxTime, expires : 0..(MaxTime + Lifetime)]

\* Every variable has its type, and the mutex is held by whoever refreshes.
TypeOK ==
    /\ now \in 0..MaxTime
    /\ cached \in Tokens
    /\ pc \in [Requests -> Places]
    /\ tool \in [Requests -> Tools]
    /\ ticket \in [Requests -> Tokens]
    /\ got \in [Requests -> 0..MaxTime]
    /\ status \in [Requests -> {"none", "ok", "error"}]
    /\ made \subseteq Requests /\ changed \subseteq Fields
    /\ gone \in BOOLEAN
    /\ lock \in Requests \cup {Nobody}
    /\ \A r \in Requests : (lock = r) <=> (pc[r] \in {"refreshing", "granted"})

\* However many calls find the token old at the same time, one of them fetches
\* a new one and the others use that (gcal.go:46-51): nobody fetches a token
\* while a fresh one is cached.
RefreshOnlyWhenStale ==
    \A r \in Requests : pc[r] \in {"refreshing", "granted"} => ~Fresh

\* A request is not refused for its token unless it was slow: the client counts
\* a token's life too long by the time its answer took (gcal.go:81), and uses a
\* copy after the unlock (gcal.go:89-103), but Margin covers the two together
\* (gcal.go:49).
SlowBy(r) == (now - got[r]) + (ticket[r].expires - Lifetime - ticket[r].issued)

TokenOutlivesRequest ==
    \A r \in Requests :
        pc[r] = "sending" /\ SlowBy(r) <= Margin => Valid(ticket[r])

\* What a tool reports as done has been done (gcal.go:115-119,
\* mcp/gcal.go:111-116, :164-169, :190-193): the new event exists, the deleted
\* one does not, and the fields named are written.  Of what it reports as failed
\* nothing is known.
ReportedIsDone ==
    \A r \in Requests : pc[r] = "done" =>
        /\ tool[r] = "create" => r \in made
        /\ tool[r] = "delete" => gone
        /\ tool[r] = "update" => Named[r] \subseteq changed

\* A call that waits for the mutex gets on, whatever becomes of the refresh that
\* holds it (gcal.go:46-83).
WaiterServed ==
    \A r \in Requests : pc[r] = "locking" ~> pc[r] \in {"done", "failed"}
===============================================================================
