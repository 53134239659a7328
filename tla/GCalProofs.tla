------------------------------- MODULE GCalProofs ------------------------------
(***************************************************************************)
(* Proofs about GCal for every set of calls, every plan and every lifetime *)
(* longer than the margin: the mutex, the token each request carries, and  *)
(* what the tools report.                                                  *)
(***************************************************************************)
EXTENDS GCal, TLAPS

\* A call fetches a token only while it holds the mutex and the cached one is
\* old.
LockInv == TypeOK /\ RefreshOnlyWhenStale

\* A token that is carried had more than Margin left, by the client's account,
\* when the call got it.
TicketInv ==
    /\ now \in Nat
    /\ cached \in [issued : Nat, expires : Nat]
    /\ ticket \in [Requests -> [issued : Nat, expires : Nat]]
    /\ got \in [Requests -> Nat]
    /\ pc \in [Requests -> Places]
    /\ \A r \in Requests :
           pc[r] = "sending" => got[r] + Margin < ticket[r].expires

\* What Google has answered with success is in the calendar, and stays there.
Happened(r) ==
    /\ tool[r] = "create" => r \in made
    /\ tool[r] = "delete" => gone
    /\ tool[r] = "update" => Named[r] \subseteq changed

CalendarInv ==
    /\ pc \in [Requests -> Places] /\ status \in [Requests -> {"none", "ok", "error"}]
    /\ \A r \in Requests :
           /\ status[r] = "ok" => Happened(r)
           /\ pc[r] = "done" => Happened(r)

-------------------------------------------------------------------------------
\* The mutex is free at first.
LEMMA InitLock == Init => LockInv
  <1> SUFFICES ASSUME Init PROVE LockInv
    OBVIOUS
  <1>1. NoToken \in Tokens
    BY GCalAssumption DEF Tokens, NoToken
  <1>2. /\ now \in 0..MaxTime /\ got \in [Requests -> 0..MaxTime]
        /\ cached \in Tokens /\ ticket \in [Requests -> Tokens]
    BY <1>1, GCalAssumption DEF Init
  <1>3. /\ tool \in [Requests -> Tools]
        /\ made \subseteq Requests /\ changed \subseteq Fields /\ gone \in BOOLEAN
    BY GCalAssumption DEF Init
  <1>4. /\ pc \in [Requests -> Places]
        /\ status \in [Requests -> {"none", "ok", "error"}]
        /\ lock = Nobody
        /\ \A r \in Requests : pc[r] = "idle"
    BY DEF Init, Places
  <1>5. QED
    BY <1>2, <1>3, <1>4, GCalAssumption DEF LockInv, TypeOK, RefreshOnlyWhenStale

\* Whoever takes the mutex finds it free, and whoever stores a token gives it
\* back (gcal.go:46-83).
LEMMA NextLock == LockInv /\ [Next]_vars => LockInv'
  <1> SUFFICES ASSUME LockInv, [Next]_vars PROVE LockInv'
    OBVIOUS
  <1> USE GCalAssumption DEF LockInv, TypeOK, Tokens, Places, NoToken, RefreshOnlyWhenStale,
      Goto, Fresh, calendar
  <1>1. ASSUME NEW r \in Requests, Call(r) PROVE LockInv'
    BY <1>1 DEF Call
  <1>2. ASSUME NEW r \in Requests, UseCached(r) PROVE LockInv'
    BY <1>2 DEF UseCached
  <1>3. ASSUME NEW r \in Requests, Refresh(r) PROVE LockInv'
    BY <1>3 DEF Refresh
  <1>4. ASSUME NEW r \in Requests, Grant(r) PROVE LockInv'
    BY <1>4 DEF Grant
  <1>5. ASSUME NEW r \in Requests, Refreshed(r) PROVE LockInv'
    <2>1. cached' \in Tokens
      BY <1>5 DEF Refreshed
    <2>2. ticket' \in [Requests -> Tokens]
      BY <1>5, <2>1 DEF Refreshed
    <2>3. /\ pc' \in [Requests -> Places]
          /\ \A q \in Requests : (lock' = q) <=> (pc'[q] \in {"refreshing", "granted"})
          /\ RefreshOnlyWhenStale'
      BY <1>5 DEF Refreshed
    <2>4. QED
      BY <1>5, <2>1, <2>2, <2>3 DEF Refreshed
  <1>6. ASSUME NEW r \in Requests, RefreshFails(r) PROVE LockInv'
    <2>1. NoToken \in Tokens
      OBVIOUS
    <2>2. ticket' \in [Requests -> Tokens]
      BY <1>6, <2>1 DEF RefreshFails
    <2>3. /\ pc' \in [Requests -> Places]
          /\ \A q \in Requests : (lock' = q) <=> (pc'[q] \in {"refreshing", "granted"})
          /\ RefreshOnlyWhenStale'
      BY <1>6 DEF RefreshFails
    <2>4. QED
      BY <1>6, <2>2, <2>3 DEF RefreshFails
  <1>7. ASSUME NEW r \in Requests, Arrive(r) PROVE LockInv'
    <2>1. NoToken \in Tokens /\ Sent(r) \subseteq Fields
      BY DEF Sent
    <2>2. /\ ticket' \in [Requests -> Tokens]
          /\ got' \in [Requests -> 0..MaxTime]
          /\ status' \in [Requests -> {"none", "ok", "error"}]
      BY <1>7, <2>1 DEF Arrive
    <2>3. made' \subseteq Requests /\ changed' \subseteq Fields /\ gone' \in BOOLEAN
      BY <1>7, <2>1 DEF Arrive
    <2>4. /\ pc' \in [Requests -> Places]
          /\ \A q \in Requests : (lock' = q) <=> (pc'[q] \in {"refreshing", "granted"})
          /\ RefreshOnlyWhenStale'
      BY <1>7 DEF Arrive
    <2>5. QED
      BY <1>7, <2>2, <2>3, <2>4 DEF Arrive
  <1>8. ASSUME NEW r \in Requests, Answer(r) PROVE LockInv'
    BY <1>8 DEF Answer
  <1>9. ASSUME NEW r \in Requests, Lost(r) PROVE LockInv'
    <2>1. NoToken \in Tokens
      OBVIOUS
    <2>2. /\ ticket' \in [Requests -> Tokens]
          /\ got' \in [Requests -> 0..MaxTime]
          /\ status' \in [Requests -> {"none", "ok", "error"}]
      BY <1>9, <2>1 DEF Lost
    <2>3. /\ pc' \in [Requests -> Places]
          /\ \A q \in Requests : (lock' = q) <=> (pc'[q] \in {"refreshing", "granted"})
          /\ RefreshOnlyWhenStale'
      BY <1>9 DEF Lost
    <2>4. QED
      BY <1>9, <2>2, <2>3 DEF Lost
  <1>10. CASE Tick
    BY <1>10 DEF Tick
  <1>11. CASE UNCHANGED vars
    BY <1>11 DEF vars
  <1>12. QED
    BY <1>1, <1>2, <1>3, <1>4, <1>5, <1>6, <1>7, <1>8, <1>9, <1>10, <1>11
    DEF Next, Enters, Refreshes, Does

\* Every variable has its type, and the mutex is held by whoever refreshes.
THEOREM TypeCorrect == Spec => []TypeOK
  <1>1. LockInv => TypeOK
    BY DEF LockInv
  <1>2. QED
    BY <1>1, InitLock, NextLock, PTL DEF Spec

\* Nobody fetches a token while a fresh one is cached (gcal.go:46-51), however
\* many calls find the old one old.
THEOREM RefreshOnlyWhenStaleAlways == Spec => []RefreshOnlyWhenStale
  <1>1. LockInv => RefreshOnlyWhenStale
    BY DEF LockInv
  <1>2. QED
    BY <1>1, InitLock, NextLock, PTL DEF Spec

-------------------------------------------------------------------------------
\* Nobody carries a token at first.
LEMMA InitTicket == Init => TicketInv
  BY DEF Init, TicketInv, NoToken, Places

\* A token is taken from the cache with more than Margin left (gcal.go:49), or
\* is new and lives longer than that.
LEMMA NextTicket == TicketInv /\ [Next]_vars => TicketInv'
  <1> SUFFICES ASSUME TicketInv, [Next]_vars PROVE TicketInv'
    OBVIOUS
  <1> USE GCalAssumption DEF TicketInv, Goto, NoToken, Places
  <1>1. ASSUME NEW r \in Requests, Call(r) PROVE TicketInv'
    BY <1>1 DEF Call
  <1>2. ASSUME NEW r \in Requests, UseCached(r) PROVE TicketInv'
    BY <1>2 DEF UseCached, Fresh
  <1>3. ASSUME NEW r \in Requests, Refresh(r) PROVE TicketInv'
    BY <1>3 DEF Refresh
  <1>4. ASSUME NEW r \in Requests, Grant(r) PROVE TicketInv'
    BY <1>4 DEF Grant
  <1>5. ASSUME NEW r \in Requests, Refreshed(r) PROVE TicketInv'
    BY <1>5 DEF Refreshed
  <1>6. ASSUME NEW r \in Requests, RefreshFails(r) PROVE TicketInv'
    BY <1>6 DEF RefreshFails
  <1>7. ASSUME NEW r \in Requests, Arrive(r) PROVE TicketInv'
    BY <1>7 DEF Arrive
  <1>8. ASSUME NEW r \in Requests, Answer(r) PROVE TicketInv'
    BY <1>8 DEF Answer
  <1>9. ASSUME NEW r \in Requests, Lost(r) PROVE TicketInv'
    BY <1>9 DEF Lost
  <1>10. CASE Tick
    BY <1>10 DEF Tick
  <1>11. CASE UNCHANGED vars
    BY <1>11 DEF vars
  <1>12. QED
    BY <1>1, <1>2, <1>3, <1>4, <1>5, <1>6, <1>7, <1>8, <1>9, <1>10, <1>11
    DEF Next, Enters, Refreshes, Does

\* The margin of gcal.go:49 covers what the client counts too long (gcal.go:81)
\* and the time a request takes after the unlock, if the two together are no
\* more than it.
THEOREM TokenOutlivesRequestAlways == Spec => []TokenOutlivesRequest
  <1>1. TicketInv => TokenOutlivesRequest
    BY GCalAssumption DEF TicketInv, TokenOutlivesRequest, SlowBy, Valid
  <1>2. QED
    BY <1>1, InitTicket, NextTicket, PTL DEF Spec

-------------------------------------------------------------------------------
\* Nothing has been answered at first.
LEMMA InitCalendar == Init => CalendarInv
  BY DEF Init, CalendarInv, Places

\* Google acts on a request before it answers with success, and nothing it did
\* is undone by another of the tools.
LEMMA NextCalendar == CalendarInv /\ [Next]_vars => CalendarInv'
  <1> SUFFICES ASSUME CalendarInv, [Next]_vars PROVE CalendarInv'
    OBVIOUS
  <1> USE GCalAssumption DEF CalendarInv, Happened, Goto, calendar,
      Places
  <1>1. ASSUME NEW r \in Requests, Call(r) PROVE CalendarInv'
    BY <1>1 DEF Call
  <1>2. ASSUME NEW r \in Requests, UseCached(r) PROVE CalendarInv'
    BY <1>2 DEF UseCached
  <1>3. ASSUME NEW r \in Requests, Refresh(r) PROVE CalendarInv'
    BY <1>3 DEF Refresh
  <1>4. ASSUME NEW r \in Requests, Grant(r) PROVE CalendarInv'
    BY <1>4 DEF Grant
  <1>5. ASSUME NEW r \in Requests, Refreshed(r) PROVE CalendarInv'
    BY <1>5 DEF Refreshed
  <1>6. ASSUME NEW r \in Requests, RefreshFails(r) PROVE CalendarInv'
    BY <1>6 DEF RefreshFails
  <1>7. ASSUME NEW r \in Requests, Arrive(r) PROVE CalendarInv'
    BY <1>7 DEF Arrive, Sent, Found
  <1>8. ASSUME NEW r \in Requests, Answer(r) PROVE CalendarInv'
    BY <1>8 DEF Answer, Accepted
  <1>9. ASSUME NEW r \in Requests, Lost(r) PROVE CalendarInv'
    BY <1>9 DEF Lost
  <1>10. CASE Tick
    BY <1>10 DEF Tick
  <1>11. CASE UNCHANGED vars
    BY <1>11 DEF vars
  <1>12. QED
    BY <1>1, <1>2, <1>3, <1>4, <1>5, <1>6, <1>7, <1>8, <1>9, <1>10, <1>11
    DEF Next, Enters, Refreshes, Does

\* What a tool reports as done has been done (gcal.go:115-119).
THEOREM ReportedIsDoneAlways == Spec => []ReportedIsDone
  <1>1. CalendarInv => ReportedIsDone
    BY DEF CalendarInv, ReportedIsDone, Happened
  <1>2. QED
    BY <1>1, InitCalendar, NextCalendar, PTL DEF Spec
===============================================================================
