---------------------------- MODULE SSEBrokerProofs ----------------------------
(***************************************************************************)
(* Proofs about SSEBroker for every set of runners and clients and every   *)
(* buffer: a runner never sends on a channel that has been closed, and a   *)
(* client gets the events of its run, in order, and all of them if it was  *)
(* never a buffer behind.                                                  *)
(***************************************************************************)
EXTENDS SSEBroker, SequenceTheorems, TLAPS

\* What the read and the write lock keep: a Publish under way holds the read
\* lock and has only registered channels before it; a registered channel
\* belongs to a handler that has yet to unsubscribe.
LockInv ==
    /\ stage \in [Clients -> {"new", "opening", "open", "closing", "gone"}]
    /\ todo \in [Publishers -> SUBSET Clients]
    /\ subs = {c \in Clients : stage[c] \in {"open", "closing"}}
    /\ closed = {c \in Clients : stage[c] = "gone"}
    /\ \A p \in Publishers : todo[p] \subseteq subs
    /\ \A p \in Publishers : p \notin reading => todo[p] = {}

\* Nothing is subscribed, closed or being published at first.
LEMMA InitLock == Init => LockInv
  BY DEF Init, LockInv

\* No step takes a channel away from under a Publish: Unsubscribe needs every
\* reader to be gone (server.go:390-394).
LEMMA NextLock == LockInv /\ [Next]_vars => LockInv'
  <1> SUFFICES ASSUME LockInv, [Next]_vars PROVE LockInv'
    OBVIOUS
  <1> USE DEF LockInv
  <1>1. ASSUME NEW c \in Clients, Connect(c) PROVE LockInv'
    BY <1>1 DEF Connect, publishing
  <1>2. ASSUME NEW c \in Clients, Subscribe(c) PROVE LockInv'
    BY <1>2 DEF Subscribe, publishing
  <1>3. ASSUME NEW c \in Clients, Receive(c) PROVE LockInv'
    BY <1>3 DEF Receive, publishing
  <1>4. ASSUME NEW c \in Clients, Disconnect(c) PROVE LockInv'
    BY <1>4 DEF Disconnect, publishing
  <1>5. ASSUME NEW c \in Clients, Unsubscribe(c) PROVE LockInv'
    <2>1. \A p \in Publishers : todo'[p] = {}
      BY <1>5 DEF Unsubscribe, publishing, Writable
    <2>2. QED
      BY <1>5, <2>1 DEF Unsubscribe, publishing
  <1>6. ASSUME NEW p \in Publishers, PublishBegin(p) PROVE LockInv'
    BY <1>6 DEF PublishBegin
  <1>7. ASSUME NEW p \in Publishers, NEW c \in Clients, SendTo(p, c)
        PROVE  LockInv'
    <2>1. todo' = [todo EXCEPT ![p] = @ \ {c}]
      BY <1>7 DEF SendTo
    <2>2. UNCHANGED <<stage, subs, closed, reading>>
      BY <1>7 DEF SendTo
    <2>3. QED
      BY <2>1, <2>2
  <1>8. ASSUME NEW p \in Publishers, PublishEnd(p) PROVE LockInv'
    BY <1>8 DEF PublishEnd
  <1>9. CASE UNCHANGED vars
    BY <1>9 DEF vars, publishing
  <1>10. QED
    BY <1>1, <1>2, <1>3, <1>4, <1>5, <1>6, <1>7, <1>8, <1>9
    DEF Next, Handler, Publisher

\* A Publish never has a closed channel before it (server.go:390-412), whatever
\* the number of runners, clients and events.
THEOREM NoSendOnClosedAlways == Spec => []NoSendOnClosed
  <1>1. LockInv => NoSendOnClosed
    BY DEF LockInv, NoSendOnClosed
  <1>2. QED
    BY <1>1, InitLock, NextLock, PTL DEF Spec
-------------------------------------------------------------------------------
\* A Publish under way has counted the event it sends, and visits only clients.
CountInv ==
    /\ TypeOK
    /\ \A p \in Publishers : p \in reading => count[p] >= 1
    /\ \A p \in Publishers : p \notin reading => todo[p] = {}

\* Nothing has been sent at first.
LEMMA InitCount == Init => CountInv
  BY BrokerAssumption DEF Init, CountInv, TypeOK

\* One turn of the loop puts the event of its Publish into a channel with room.
LEMMA SendToCount ==
  ASSUME CountInv, NEW p \in Publishers, NEW c \in Clients, SendTo(p, c)
  PROVE  CountInv'
  <1> USE BrokerAssumption DEF CountInv, TypeOK
  <1>1. todo' \in [Publishers -> SUBSET Clients] /\ p \in reading
    BY DEF SendTo
  <1>2. \A q \in Publishers : q \notin reading => todo'[q] = {}
    BY DEF SendTo
  <1>3. CASE UNCHANGED <<buf, full>>
    BY <1>1, <1>2, <1>3 DEF SendTo
  <1>4. CASE Room(c) /\ buf' = [buf EXCEPT ![c] = Append(@, <<p, count[p]>>)]
             /\ full' \subseteq Clients
    <2>1. <<p, count[p]>> \in Events
      BY <1>1 DEF Events
    <2>2. Append(buf[c], <<p, count[p]>>) \in Seq(Events)
      BY <2>1
    <2>3. Len(Append(buf[c], <<p, count[p]>>)) <= Cap
      BY <1>4, <2>1 DEF Room
    <2> HIDE DEF Events
    <2>4. buf' \in [Clients -> Seq(Events)] /\ \A d \in Clients : Len(buf'[d]) <= Cap
      BY <1>4, <2>2, <2>3
    <2>5. UNCHANGED <<stage, subs, closed, got, count, reading, since>>
      BY DEF SendTo
    <2>6. QED
      BY <1>1, <1>2, <1>4, <2>4, <2>5
  <1>5. QED
    BY <1>3, <1>4 DEF SendTo

\* No other step touches a channel but Receive, which takes its first event out.
LEMMA NextCount == CountInv /\ [Next]_vars => CountInv'
  <1> SUFFICES ASSUME CountInv, [Next]_vars PROVE CountInv'
    OBVIOUS
  <1> USE BrokerAssumption DEF CountInv, TypeOK
  <1>1. ASSUME NEW c \in Clients, Connect(c) PROVE CountInv'
    BY <1>1 DEF Connect, publishing
  <1>2. ASSUME NEW c \in Clients, Subscribe(c) PROVE CountInv'
    BY <1>2 DEF Subscribe, publishing
  <1>3. ASSUME NEW c \in Clients, Receive(c) PROVE CountInv'
    <2> HIDE DEF Events
    <2>1. /\ Head(buf[c]) \in Events /\ Tail(buf[c]) \in Seq(Events)
          /\ Len(Tail(buf[c])) <= Cap
      BY <1>3 DEF Receive
    <2>2. Append(got[c], Head(buf[c])) \in Seq(Events)
      BY <2>1
    <2>3. /\ buf' \in [Clients -> Seq(Events)]
          /\ \A d \in Clients : Len(buf'[d]) <= Cap
          /\ got' \in [Clients -> Seq(Events)]
      BY <1>3, <2>1, <2>2 DEF Receive
    <2>4. UNCHANGED <<stage, subs, closed, count, todo, reading, since, full>>
      BY <1>3 DEF Receive, publishing
    <2>5. QED
      BY <2>3, <2>4
  <1>4. ASSUME NEW c \in Clients, Disconnect(c) PROVE CountInv'
    BY <1>4 DEF Disconnect, publishing
  <1>5. ASSUME NEW c \in Clients, Unsubscribe(c) PROVE CountInv'
    BY <1>5 DEF Unsubscribe, publishing
  <1>6. ASSUME NEW p \in Publishers, PublishBegin(p) PROVE CountInv'
    BY <1>6 DEF PublishBegin
  <1>7. ASSUME NEW p \in Publishers, NEW c \in Clients, SendTo(p, c)
        PROVE  CountInv'
    BY <1>7, SendToCount
  <1>8. ASSUME NEW p \in Publishers, PublishEnd(p) PROVE CountInv'
    BY <1>8 DEF PublishEnd
  <1>9. CASE UNCHANGED vars
    BY <1>9 DEF vars, publishing
  <1>10. QED
    BY <1>1, <1>2, <1>3, <1>4, <1>5, <1>6, <1>7, <1>8, <1>9
    DEF Next, Handler, Publisher

\* Every variable has its type, and no channel ever holds more than its buffer.
THEOREM TypeCorrect == Spec => []TypeOK
  <1>1. CountInv => TypeOK
    BY DEF CountInv
  <1>2. QED
    BY <1>1, InitCount, NextCount, PTL DEF Spec
-------------------------------------------------------------------------------
(* The stream of a client.  An event that a client was sent has been counted,  *)
(* and while a Publish has the client still before it, its event is ahead of   *)
(* all that the client was sent of that publisher.                             *)
OwnRun(c) == \A i \in DOMAIN Sent(c) : Follows[c] \in {0, RunOf[Sent(c)[i][1]]}

InOrder(s) == \A i, j \in DOMAIN s : i < j /\ s[i][1] = s[j][1] => s[i][2] < s[j][2]

Behind(c) ==
    \A i \in DOMAIN Sent(c), p \in Publishers :
        Sent(c)[i][1] = p =>
            /\ Sent(c)[i][2] <= count[p]
            /\ c \in todo[p] => Sent(c)[i][2] < count[p]

\* A channel that is full has been noted.
FullNoted(c) == Len(buf[c]) >= Cap => c \in full

\* What a subscribed client that was never Cap behind has been sent.
Complete(c) ==
    c \in subs \ full =>
        \A p \in Publishers : Follows[c] \in {0, RunOf[p]} =>
            \A n \in since[c][p] + 1..count[p] :
                (n = count[p] /\ c \in todo[p])
                    \/ \E i \in DOMAIN Sent(c) : Sent(c)[i] = <<p, n>>

Stream(c) ==
    OwnRun(c) /\ InOrder(Sent(c)) /\ Behind(c) /\ FullNoted(c) /\ Complete(c)

StreamInv == LockInv /\ CountInv /\ \A c \in Clients : Stream(c)

\* What a client was sent is a sequence of events.
LEMMA SentIsSeq ==
  ASSUME CountInv, NEW c \in Clients
  PROVE  /\ Sent(c) \in Seq(Events)
         /\ Len(Sent(c)) \in Nat /\ DOMAIN Sent(c) = 1..Len(Sent(c))
         /\ \A i \in DOMAIN Sent(c) : Sent(c)[i] \in Events
  <1>1. got[c] \in Seq(Events) /\ buf[c] \in Seq(Events)
    BY DEF CountInv, TypeOK
  <1>2. Sent(c) \in Seq(Events)
    BY <1>1, ConcatProperties DEF Sent
  <1>3. QED
    BY <1>2, LenProperties, ElementOfSeq

\* Taking the first event of the channel changes nothing about what was sent.
LEMMA ReceiveKeepsSent ==
  ASSUME NEW S, NEW g \in Seq(S), NEW b \in Seq(S), b # <<>>
  PROVE  Append(g, Head(b)) \o Tail(b) = g \o b
  <1>1. Head(b) \in S /\ Tail(b) \in Seq(S) /\ Len(Tail(b)) = Len(b) - 1
        /\ \A i \in 1..Len(Tail(b)) : Tail(b)[i] = b[i + 1]
    BY HeadTailProperties
  <1>2. <<Head(b)>> \in Seq(S) /\ Len(<<Head(b)>>) = 1 /\ <<Head(b)>>[1] = b[1]
    BY <1>1
  <1>3. <<Head(b)>> \o Tail(b) = b
    <2> DEFINE s == <<Head(b)>> \o Tail(b)
    <2>1. Len(b) \in Nat /\ Len(b) # 0
      BY EmptySeq
    <2>2. s \in Seq(S) /\ Len(s) = Len(b)
          /\ \A i \in 1..Len(b) : s[i] = IF i <= 1 THEN <<Head(b)>>[i] ELSE Tail(b)[i - 1]
      BY <1>1, <1>2, <2>1, ConcatProperties
    <2>3. \A i \in 1..Len(b) : s[i] = b[i]
      <3> HIDE DEF s
      <3> SUFFICES ASSUME NEW i \in 1..Len(b) PROVE s[i] = b[i]
        OBVIOUS
      <3>1. CASE i = 1
        BY <1>2, <2>1, <2>2, <3>1
      <3>2. CASE i # 1
        <4>1. i - 1 \in 1..Len(Tail(b)) /\ (i - 1) + 1 = i
          BY <1>1, <2>1, <3>2
        <4>2. Tail(b)[i - 1] = b[(i - 1) + 1]
          BY <1>1, <4>1
        <4>3. QED
          BY <2>1, <2>2, <3>2, <4>1, <4>2
      <3>3. QED
        BY <3>1, <3>2
    <2>4. QED
      BY <2>2, <2>3, SeqEqual
  <1>4. Append(g, Head(b)) = g \o <<Head(b)>>
    BY <1>1, AppendIsConcat
  <1>5. (g \o <<Head(b)>>) \o Tail(b) = g \o (<<Head(b)>> \o Tail(b))
    BY <1>1, <1>2, ConcatAssociative
  <1>6. QED
    BY <1>3, <1>4, <1>5

\* An event put into the channel is the last that was sent.
LEMMA SendAppendsSent ==
  ASSUME NEW S, NEW g \in Seq(S), NEW b \in Seq(S), NEW e \in S
  PROVE  g \o Append(b, e) = Append(g \o b, e)
  <1>1. <<e>> \in Seq(S) /\ g \o b \in Seq(S)
    BY ConcatProperties
  <1>2. Append(b, e) = b \o <<e>> /\ Append(g \o b, e) = (g \o b) \o <<e>>
    BY <1>1, AppendIsConcat
  <1>3. QED
    BY <1>1, <1>2, ConcatAssociative

\* A stream in order stays so when an event is added that is ahead of it.
LEMMA InOrderAppend ==
  ASSUME NEW s \in Seq(Events), InOrder(s), NEW e \in Events,
         \A i \in DOMAIN s : s[i][1] = e[1] => s[i][2] < e[2]
  PROVE  InOrder(Append(s, e))
  <1>1. Len(s) \in Nat /\ DOMAIN s = 1..Len(s)
    BY LenProperties
  <1>2. /\ Append(s, e) \in Seq(Events) /\ Len(Append(s, e)) = Len(s) + 1
        /\ \A i \in 1..Len(s) : Append(s, e)[i] = s[i]
        /\ Append(s, e)[Len(s) + 1] = e
    BY AppendProperties
  <1>3. DOMAIN Append(s, e) = 1..Len(s) + 1
    BY <1>2, LenProperties
  <1> DEFINE t == Append(s, e)
  <1> HIDE DEF t
  <1>4. ASSUME NEW i \in 1..Len(s) + 1, NEW j \in 1..Len(s) + 1, i < j,
               t[i][1] = t[j][1]
        PROVE  t[i][2] < t[j][2]
    <2>1. i \in 1..Len(s) /\ t[i] = s[i]
      BY <1>1, <1>2, <1>4 DEF t
    <2>2. CASE j = Len(s) + 1
      BY <1>1, <1>2, <1>4, <2>1, <2>2 DEF t
    <2>3. CASE j # Len(s) + 1
      <3>1. j \in 1..Len(s) /\ t[j] = s[j]
        BY <1>1, <1>2, <2>3 DEF t
      <3>2. QED
        BY <1>1, <1>4, <2>1, <3>1 DEF InOrder
    <2>4. QED
      BY <2>2, <2>3
  <1>5. QED
    BY <1>3, <1>4 DEF InOrder, t

\* At first nothing was sent.
LEMMA InitStream == Init => StreamInv
  <1> SUFFICES ASSUME Init PROVE StreamInv
    OBVIOUS
  <1>1. LockInv /\ CountInv
    BY InitLock, InitCount
  <1>2. ASSUME NEW c \in Clients PROVE Stream(c)
    <2>1. Sent(c) = <<>> /\ Len(buf[c]) = 0
      BY ConcatEmptySeq, EmptySeq DEF Init, Sent
    <2>2. OwnRun(c) /\ InOrder(Sent(c)) /\ Behind(c)
      BY <2>1 DEF OwnRun, InOrder, Behind
    <2>3. FullNoted(c) /\ Complete(c)
      BY <2>1, BrokerAssumption DEF Init, FullNoted, Complete
    <2>4. QED
      BY <2>2, <2>3 DEF Stream
  <1>3. QED
    BY <1>1, <1>2 DEF StreamInv

\* A client's stream is as it was when what it is made of is.
LEMMA SameStream ==
  ASSUME NEW c \in Clients, Stream(c), Sent(c)' = Sent(c), buf'[c] = buf[c],
         UNCHANGED <<count, todo, full>>,
         c \in subs' => c \in subs /\ since'[c] = since[c]
  PROVE  Stream(c)'
  <1>1. OwnRun(c)' /\ InOrder(Sent(c))' /\ Behind(c)'
    BY DEF Stream, OwnRun, InOrder, Behind
  <1>2. FullNoted(c)'
    BY DEF Stream, FullNoted
  <1>3. Complete(c)'
    BY DEF Stream, Complete
  <1>4. QED
    BY <1>1, <1>2, <1>3 DEF Stream

\* A client that has just subscribed has missed nothing yet.
LEMMA SubscribeStream ==
  ASSUME StreamInv, NEW x \in Clients, Subscribe(x), NEW c \in Clients
  PROVE  Stream(c)'
  <1>1. UNCHANGED <<buf, got, count, todo, full>> /\ Sent(c)' = Sent(c)
    BY DEF Subscribe, publishing, Sent
  <1>2. CASE c # x
    <2>1. c \in subs' => c \in subs /\ since'[c] = since[c]
      BY <1>2 DEF Subscribe, StreamInv, CountInv, TypeOK
    <2>2. QED
      BY <1>1, <2>1, SameStream DEF StreamInv
  <1>3. CASE c = x
    <2>1. since'[c] = count
      BY <1>3 DEF Subscribe, StreamInv, CountInv, TypeOK
    <2>2. \A p \in Publishers : count[p] + 1..count[p] = {}
      <3>1. \A p \in Publishers : count[p] \in Nat
        <4>1. count \in [Publishers -> 0..MaxEvents]
          BY DEF StreamInv, CountInv, TypeOK
        <4>2. QED
          BY ONLY <4>1, BrokerAssumption
      <3>2. \A n \in Nat : n + 1..n = {}
        OBVIOUS
      <3>3. QED
        BY <3>1, <3>2
    <2>3. Complete(c)'
      BY <1>1, <2>1, <2>2 DEF Complete
    <2>4. OwnRun(c)' /\ InOrder(Sent(c))' /\ Behind(c)' /\ FullNoted(c)'
      BY <1>1 DEF StreamInv, Stream, OwnRun, InOrder, Behind, FullNoted
    <2>5. QED
      BY <2>3, <2>4 DEF Stream
  <1>4. QED
    BY <1>2, <1>3

\* A client that takes an event has it instead of its channel.
LEMMA ReceiveStream ==
  ASSUME StreamInv, NEW x \in Clients, Receive(x), NEW c \in Clients
  PROVE  Stream(c)'
  <1>1. UNCHANGED <<subs, count, todo, since, full>> /\ buf[x] # <<>>
        /\ buf' = [buf EXCEPT ![x] = Tail(@)]
        /\ got' = [got EXCEPT ![x] = Append(@, Head(buf[x]))]
    BY DEF Receive, publishing
  <1>2. got[x] \in Seq(Events) /\ buf[x] \in Seq(Events)
        /\ got \in [Clients -> Seq(Events)] /\ buf \in [Clients -> Seq(Events)]
    BY DEF StreamInv, CountInv, TypeOK
  <1>3. CASE c # x
    <2>1. buf'[c] = buf[c] /\ got'[c] = got[c]
      BY <1>1, <1>2, <1>3
    <2>2. Sent(c)' = Sent(c)
      BY <2>1 DEF Sent
    <2>3. QED
      BY <1>1, <2>1, <2>2, SameStream DEF StreamInv
  <1>4. CASE c = x
    <2>1. buf'[c] = Tail(buf[c]) /\ got'[c] = Append(got[c], Head(buf[c]))
      BY <1>1, <1>2, <1>4
    <2>2. Sent(c)' = Sent(c)
      BY <1>1, <1>2, <1>4, <2>1, ReceiveKeepsSent DEF Sent
    <2>3. Len(buf'[c]) = Len(buf[c]) - 1 /\ Len(buf[c]) \in Nat
      BY <1>1, <1>2, <1>4, <2>1, HeadTailProperties, LenProperties
    <2>4. FullNoted(c)'
      BY <1>1, <2>3, BrokerAssumption DEF StreamInv, Stream, FullNoted
    <2>5. OwnRun(c)' /\ InOrder(Sent(c))' /\ Behind(c)' /\ Complete(c)'
      BY <1>1, <2>2 DEF StreamInv, Stream, OwnRun, InOrder, Behind, Complete
    <2>6. QED
      BY <2>4, <2>5 DEF Stream
  <1>5. QED
    BY <1>3, <1>4

\* A Publish that begins counts its event, and has every subscribed client
\* before it.
LEMMA PublishBeginStream ==
  ASSUME StreamInv, NEW p \in Publishers, PublishBegin(p), NEW c \in Clients
  PROVE  Stream(c)'
  <1>1. /\ UNCHANGED <<subs, buf, got, since, full>>
        /\ count' = [count EXCEPT ![p] = @ + 1] /\ todo' = [todo EXCEPT ![p] = subs]
    BY DEF PublishBegin
  <1>2. /\ count'[p] = count[p] + 1 /\ todo'[p] = subs /\ todo[p] = {}
        /\ \A q \in Publishers \ {p} : count'[q] = count[q] /\ todo'[q] = todo[q]
        /\ \A q \in Publishers : count[q] \in Nat /\ since[c][q] \in Nat
    BY <1>1, BrokerAssumption DEF StreamInv, CountInv, TypeOK, PublishBegin
  <1>3. Sent(c)' = Sent(c)
    BY <1>1 DEF Sent
  <1>4. \A i \in DOMAIN Sent(c) : Sent(c)[i][2] \in Nat
    BY SentIsSeq DEF Events, StreamInv
  <1>5. OwnRun(c)' /\ InOrder(Sent(c))' /\ FullNoted(c)'
    BY <1>1, <1>3 DEF StreamInv, Stream, OwnRun, InOrder, FullNoted
  <1>6. Behind(c)'
    <2> SUFFICES ASSUME NEW i \in DOMAIN Sent(c), NEW q \in Publishers,
                        Sent(c)[i][1] = q
                 PROVE  /\ Sent(c)[i][2] <= count'[q]
                        /\ c \in todo'[q] => Sent(c)[i][2] < count'[q]
      BY <1>3 DEF Behind
    <2>1. /\ Sent(c)[i][2] <= count[q]
          /\ c \in todo[q] => Sent(c)[i][2] < count[q]
      BY DEF StreamInv, Stream, Behind
    <2>2. CASE q = p
      BY <1>2, <1>4, <2>1, <2>2
    <2>3. CASE q # p
      BY <1>2, <2>1, <2>3
    <2>4. QED
      BY <2>2, <2>3
  <1>7. Complete(c)'
    <2> SUFFICES ASSUME c \in subs \ full, NEW q \in Publishers,
                        Follows[c] \in {0, RunOf[q]},
                        NEW n \in since[c][q] + 1..count'[q]
                 PROVE  (n = count'[q] /\ c \in todo'[q])
                           \/ \E i \in DOMAIN Sent(c) : Sent(c)[i] = <<q, n>>
      BY <1>1, <1>3 DEF Complete
    <2>1. \A m \in since[c][q] + 1..count[q] :
             (m = count[q] /\ c \in todo[q])
                \/ \E i \in DOMAIN Sent(c) : Sent(c)[i] = <<q, m>>
      BY DEF StreamInv, Stream, Complete
    <2>2. CASE q # p
      BY <1>2, <2>1, <2>2
    <2>3. CASE q = p /\ n = count[p] + 1
      BY <1>2, <2>3
    <2>4. CASE q = p /\ n # count[p] + 1
      <3>1. n \in since[c][q] + 1..count[q]
        BY <1>2, <2>4
      <3>2. QED
        BY <1>2, <2>1, <2>4, <3>1
    <2>5. QED
      BY <2>2, <2>3, <2>4
  <1>8. QED
    BY <1>5, <1>6, <1>7 DEF Stream

\* One turn of the loop gives a client the event it still had before it, unless
\* it follows another run or has a full channel.
LEMMA SendToStream ==
  ASSUME StreamInv, NEW p \in Publishers, NEW x \in Clients, SendTo(p, x),
         NEW c \in Clients
  PROVE  Stream(c)'
  <1>1. UNCHANGED <<subs, got, count, since>> /\ x \in todo[p]
        /\ todo' = [todo EXCEPT ![p] = @ \ {x}]
    BY DEF SendTo
  <1>2. /\ todo'[p] = todo[p] \ {x}
        /\ \A q \in Publishers \ {p} : todo'[q] = todo[q]
        /\ \A q \in Publishers : count[q] \in Nat
    BY <1>1, BrokerAssumption DEF StreamInv, CountInv, TypeOK
  <1>3. got[c] \in Seq(Events) /\ buf[c] \in Seq(Events) /\ Len(buf[c]) \in Nat
        /\ Len(buf[c]) <= Cap /\ buf \in [Clients -> Seq(Events)]
    BY LenProperties DEF StreamInv, CountInv, TypeOK
  <1>4. \A i \in DOMAIN Sent(c) : Sent(c)[i][2] \in Nat /\ Sent(c)[i][1] \in Publishers
    BY SentIsSeq DEF Events, StreamInv
  <1>5. Stream(c)
    BY DEF StreamInv
  <1>6. ASSUME buf'[c] = buf[c], full \subseteq full',
               c = x => c \in full' \/ Follows[c] \notin {0, RunOf[p]}
        PROVE  Stream(c)'
    <2>1. Sent(c)' = Sent(c)
      BY <1>1, <1>6 DEF Sent
    <2>2. OwnRun(c)' /\ InOrder(Sent(c))' /\ FullNoted(c)'
      BY <1>5, <1>6, <2>1 DEF Stream, OwnRun, InOrder, FullNoted
    <2>3. Behind(c)'
      BY <1>1, <1>2, <1>5, <2>1 DEF Stream, Behind
    <2>4. Complete(c)'
      BY <1>1, <1>2, <1>5, <1>6, <2>1 DEF Stream, Complete
    <2>5. QED
      BY <2>2, <2>3, <2>4 DEF Stream
  <1>7. CASE ~(Matches(x, p) /\ Room(x)) /\ UNCHANGED <<buf, full>>
    <2>1. c = x => c \in full \/ Follows[c] \notin {0, RunOf[p]}
      BY <1>3, <1>5, <1>7, BrokerAssumption DEF Matches, Room, Stream, FullNoted
    <2>2. QED
      BY <1>6, <1>7, <2>1
  <1>8. CASE /\ Matches(x, p) /\ Room(x)
             /\ buf' = [buf EXCEPT ![x] = Append(@, <<p, count[p]>>)]
             /\ full' = IF Len(buf'[x]) = Cap THEN full \cup {x} ELSE full
    <2>1. CASE c # x
      <3>1. buf'[c] = buf[c] /\ full \subseteq full'
        BY <1>3, <1>8, <2>1
      <3>2. QED
        BY <1>6, <2>1, <3>1
    <2>2. CASE c = x
      <3>1. PICK e \in Events : e = <<p, count[p]>> /\ e[1] = p /\ e[2] = count[p]
        <4>1. p \in reading
          BY <1>1 DEF StreamInv, CountInv
        <4>2. count[p] \in 1..MaxEvents
          BY <4>1, BrokerAssumption DEF StreamInv, CountInv, TypeOK
        <4>3. <<p, count[p]>> \in Events
          BY <4>2 DEF Events
        <4>4. <<p, count[p]>>[1] = p /\ <<p, count[p]>>[2] = count[p]
          OBVIOUS
        <4>5. QED
          BY ONLY <4>3, <4>4, Zenon
      <3>2. buf'[c] = Append(buf[c], e)
        <4>1. buf' = [buf EXCEPT ![c] = Append(buf[c], e)]
          BY <1>8, <2>2, <3>1
        <4>2. QED
          BY <1>3, <4>1
      <3>3. Sent(c)' = Append(Sent(c), e)
        <4>1. Sent(c)' = got[c] \o Append(buf[c], e)
          BY <1>1, <3>2 DEF Sent
        <4>2. got[c] \o Append(buf[c], e) = Append(got[c] \o buf[c], e)
          <5>1. PICK g \in Seq(Events), b \in Seq(Events) : g = got[c] /\ b = buf[c]
            BY <1>3
          <5>2. g \o Append(b, e) = Append(g \o b, e)
            BY SendAppendsSent
          <5>3. QED
            BY <5>1, <5>2
        <4>3. QED
          BY <4>1, <4>2 DEF Sent
      <3>4. /\ Len(Sent(c)) \in Nat /\ DOMAIN Sent(c) = 1..Len(Sent(c))
            /\ DOMAIN Sent(c)' = 1..Len(Sent(c)) + 1
            /\ \A i \in 1..Len(Sent(c)) : Sent(c)'[i] = Sent(c)[i]
            /\ Sent(c)'[Len(Sent(c)) + 1] = e
        <4>1. Sent(c) \in Seq(Events)
          BY SentIsSeq DEF StreamInv
        <4>2. QED
          BY <3>1, <3>3, <4>1, AppendProperties, LenProperties
      <3>5. \A i \in DOMAIN Sent(c)' :
               Sent(c)'[i] = e \/ (i \in DOMAIN Sent(c) /\ Sent(c)'[i] = Sent(c)[i])
        BY ONLY <3>4
      <3>6. OwnRun(c)'
        BY <1>5, <1>8, <2>2, <3>1, <3>5 DEF Stream, OwnRun, Matches
      <3>7. \A i \in DOMAIN Sent(c) : Sent(c)[i][1] = e[1] => Sent(c)[i][2] < e[2]
        BY <1>1, <1>5, <2>2, <3>1 DEF Stream, Behind
      <3>8. InOrder(Sent(c))'
        <4>1. Sent(c) \in Seq(Events)
          BY SentIsSeq DEF StreamInv
        <4>2. InOrder(Append(Sent(c), e))
          BY <1>5, <3>1, <3>7, <4>1, InOrderAppend DEF Stream
        <4>3. QED
          BY <3>3, <4>2 DEF InOrder
      <3>9. Behind(c)'
        <4> SUFFICES ASSUME NEW i \in DOMAIN Sent(c)', NEW q \in Publishers,
                            Sent(c)'[i][1] = q
                     PROVE  /\ Sent(c)'[i][2] <= count[q]
                            /\ c \in todo'[q] => Sent(c)'[i][2] < count[q]
          BY <1>1 DEF Behind
        <4>1. CASE Sent(c)'[i] = e
          BY <1>2, <2>2, <3>1, <4>1
        <4>2. CASE i \in DOMAIN Sent(c) /\ Sent(c)'[i] = Sent(c)[i]
          <5>1. c \in todo'[q] => c \in todo[q]
            BY <1>2
          <5>2. QED
            BY <1>5, <4>2, <5>1 DEF Stream, Behind
        <4>3. QED
          BY <3>5, <4>1, <4>2
      <3>10. FullNoted(c)'
        <4>1. Len(buf'[c]) <= Cap /\ Len(buf'[c]) \in Nat
          BY <1>3, <1>8, <2>2, <3>1, <3>2, AppendProperties, BrokerAssumption DEF Room
        <4>2. QED
          BY <1>8, <2>2, <4>1, BrokerAssumption DEF FullNoted
      <3>11. Complete(c)'
        <4> SUFFICES ASSUME c \in subs \ full', NEW q \in Publishers,
                            Follows[c] \in {0, RunOf[q]},
                            NEW n \in since[c][q] + 1..count[q]
                     PROVE  (n = count[q] /\ c \in todo'[q])
                               \/ \E i \in DOMAIN Sent(c)' : Sent(c)'[i] = <<q, n>>
          BY <1>1 DEF Complete
        <4>1. (n = count[q] /\ c \in todo[q])
                 \/ \E i \in DOMAIN Sent(c) : Sent(c)[i] = <<q, n>>
          BY <1>5, <1>8 DEF Stream, Complete
        <4>2. CASE n = count[q] /\ c \in todo[q]
          <5>1. CASE q = p
            <6>1. Sent(c)'[Len(Sent(c)) + 1] = <<q, n>>
                  /\ Len(Sent(c)) + 1 \in DOMAIN Sent(c)'
              BY <3>1, <3>4, <4>2, <5>1
            <6>2. QED
              BY <6>1
          <5>2. CASE q # p
            BY <1>2, <4>2, <5>2
          <5>3. QED
            BY <5>1, <5>2
        <4>3. CASE \E i \in DOMAIN Sent(c) : Sent(c)[i] = <<q, n>>
          <5>1. PICK i \in DOMAIN Sent(c) : Sent(c)[i] = <<q, n>>
            BY <4>3
          <5>2. i \in DOMAIN Sent(c)' /\ Sent(c)'[i] = <<q, n>>
            BY <3>4, <5>1
          <5>3. QED
            BY <5>2
        <4>4. QED
          BY <4>1, <4>2, <4>3
      <3>12. QED
        BY <3>6, <3>8, <3>9, <3>10, <3>11 DEF Stream
    <2>3. QED
      BY <2>1, <2>2
  <1>9. QED
    BY <1>7, <1>8 DEF SendTo

\* Every step keeps every client's stream.
LEMMA NextStream == StreamInv /\ [Next]_vars => StreamInv'
  <1> SUFFICES ASSUME StreamInv, [Next]_vars PROVE StreamInv'
    OBVIOUS
  <1>1. LockInv' /\ CountInv'
    BY NextLock, NextCount DEF StreamInv
  <1> SUFFICES ASSUME NEW c \in Clients PROVE Stream(c)'
    BY <1>1 DEF StreamInv
  <1>2. Stream(c)
    BY DEF StreamInv
  <1>3. ASSUME UNCHANGED <<buf, got, count, todo, since, full>>, subs' \subseteq subs
        PROVE  Stream(c)'
    BY <1>2, <1>3, SameStream DEF Sent
  <1>4. ASSUME NEW x \in Clients, Connect(x) \/ Disconnect(x) \/ Unsubscribe(x)
        PROVE  Stream(c)'
    BY <1>3, <1>4 DEF Connect, Disconnect, Unsubscribe, publishing
  <1>5. ASSUME NEW p \in Publishers, PublishEnd(p) PROVE Stream(c)'
    BY <1>3, <1>5 DEF PublishEnd
  <1>6. CASE UNCHANGED vars
    BY <1>3, <1>6 DEF vars, publishing
  <1>7. QED
    BY <1>4, <1>5, <1>6, SubscribeStream, ReceiveStream, PublishBeginStream,
       SendToStream DEF Next, Handler, Publisher

\* The streams are right in every state of every behaviour.
THEOREM StreamInvariant == Spec => []StreamInv
  BY InitStream, NextStream, PTL DEF Spec

\* A client sees only the run it follows, and the events of each runner in
\* their order and none twice (server.go:399-412), however many runners publish
\* at the same time.
THEOREM OwnRunInOrderAlways == Spec => []OwnRunInOrder
  <1>1. StreamInv => OwnRunInOrder
    BY DEF StreamInv, Stream, OwnRun, InOrder, OwnRunInOrder
  <1>2. QED
    BY <1>1, StreamInvariant, PTL

\* A client that was never a whole buffer behind misses nothing from its
\* Subscribe to its Unsubscribe (server.go:383-412).
THEOREM NothingMissedAlways == Spec => []NothingMissed
  <1>1. StreamInv => NothingMissed
    BY DEF StreamInv, LockInv, Stream, Complete, NothingMissed
  <1>2. QED
    BY <1>1, StreamInvariant, PTL
===============================================================================
