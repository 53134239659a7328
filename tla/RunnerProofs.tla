------------------------------ MODULE RunnerProofs -----------------------------
(***************************************************************************)
(* Proofs about Runner for every output, buffer and pipe: types and        *)
(* bounds, and that the chunks in the pipe are the next ones of the        *)
(* script, so that what is collected is what was printed.                  *)
(***************************************************************************)
EXTENDS Runner, TLAPS

\* The scanner that still scans has room for one more chunk.
BufferInv == TypeOK /\ (scan = "scanning" => held < MaxToken)

\* Nothing has been read at first.
LEMMA InitBuffer == Init => BufferInv
  <1> SUFFICES ASSUME Init PROVE BufferInv
    OBVIOUS
  <1>1. script \in Seq(Lines)
    BY RunnerAssumption DEF Init, BoundedSeq, SeqOf
  <1>2. QED
    BY <1>1, RunnerAssumption DEF Init, BufferInv, TypeOK

\* What the loop collects stays a list of lines.
LEMMA CollectTypes ==
  ASSUME BufferInv, NEW k \in 0..Len(script), Collect(k)
  PROVE  /\ lines' \in Seq(0..Len(script))
         /\ emitted' \in Seq(0..Len(script))
  <1> DEFINE L == 0..Len(script)
  <1>1. lines \in Seq(L) /\ emitted \in Seq(L) /\ k \in L
    BY DEF BufferInv, TypeOK
  <1> HIDE DEF L
  <1>2. Append(lines, k) \in Seq(L) /\ Append(emitted, k) \in Seq(L)
    BY <1>1
  <1>3. lines' \in Seq(L) /\ emitted' \in Seq(L)
    BY <1>1, <1>2 DEF Collect
  <1>4. QED
    BY <1>3 DEF L

\* A chunk goes into a pipe that is not full, and out of it into a buffer that
\* is not full (claude.go:158-181).
LEMMA NextBuffer == BufferInv /\ [Next]_vars => BufferInv'
  <1> SUFFICES ASSUME BufferInv, [Next]_vars PROVE BufferInv'
    OBVIOUS
  <1> USE RunnerAssumption DEF BufferInv, TypeOK
  <1>1. CASE Start
    BY <1>1 DEF Start
  <1>2. CASE ChildWrites
    <2> DEFINE chunk == <<written[1] + 1, written[2] + 1>>
               Chunks == (1..Len(script)) \X Nat
    <2>1. chunk \in Chunks
      <3>1. written[1] \in Nat /\ written[2] \in Nat /\ written[1] < Len(script)
        BY <1>2 DEF ChildWrites
      <3>2. Len(script) \in Nat
        OBVIOUS
      <3>3. written[1] + 1 \in 1..Len(script) /\ written[2] + 1 \in Nat
        BY ONLY <3>1, <3>2
      <3>4. QED
        BY <3>3
    <2>2. pipe' \in Seq(Chunks) /\ Len(pipe') <= PipeSize
      <3>1. pipe' = Append(pipe, chunk) /\ Len(pipe) \in Nat /\ Len(pipe) < PipeSize
        BY <1>2 DEF ChildWrites
      <3>2. pipe \in Seq(Chunks)
        OBVIOUS
      <3> HIDE DEF Chunks, chunk
      <3>3. Append(pipe, chunk) \in Seq(Chunks) /\ Len(Append(pipe, chunk)) = Len(pipe) + 1
        BY <2>1, <3>2
      <3>4. QED
        BY <3>1, <3>3
    <2>3. written' \in Nat \X Nat
      <3>1. written[1] \in Nat /\ written[2] \in Nat
        OBVIOUS
      <3>2. \/ written' = <<written[1] + 1, 0>>
            \/ written' = <<written[1], written[2] + 1>>
        BY <1>2 DEF ChildWrites
      <3>3. QED
        BY ONLY <3>1, <3>2
    <2>4. QED
      BY <1>2, <2>2, <2>3 DEF ChildWrites
  <1>3. CASE ChildExits
    BY <1>3 DEF ChildExits
  <1>4. CASE ChildKilled
    BY <1>4 DEF ChildKilled
  <1>5. CASE Scan
    <2>1. CASE ReadChunk
      <3>1. /\ Head(pipe)[1] \in 1..Len(script)
            /\ pipe' \in Seq((1..Len(script)) \X Nat) /\ Len(pipe') <= PipeSize
        <4> DEFINE Chunks == (1..Len(script)) \X Nat
        <4>1. pipe \in Seq(Chunks) /\ pipe # <<>> /\ pipe' = Tail(pipe)
          BY <2>1 DEF ReadChunk
        <4>2. Head(pipe) \in Chunks => Head(pipe)[1] \in 1..Len(script)
          OBVIOUS
        <4> HIDE DEF Chunks
        <4>3. Head(pipe) \in Chunks /\ Tail(pipe) \in Seq(Chunks)
              /\ Len(Tail(pipe)) = Len(pipe) - 1 /\ Len(pipe) \in Nat
          BY <4>1
        <4>4. Len(pipe') <= PipeSize
          BY <4>1, <4>3
        <4>5. QED
          BY <4>1, <4>2, <4>3, <4>4 DEF Chunks
      <3> DEFINE Kept == UNCHANGED <<script, child, written, result>>
                 Fill == /\ held' \in 0..MaxToken
                         /\ scan' \in {"scanning", "tooLong", "stopped"}
                         /\ scan' = "scanning" => held' < MaxToken
                 Got == lines' \in Seq(0..Len(script)) /\ emitted' \in Seq(0..Len(script))
      <3>2. CASE ~Ends(Head(pipe))
        <4>1. /\ held' = held + 1 /\ UNCHANGED <<lines, emitted>>
              /\ scan' = IF Overflows(held + 1) THEN "tooLong" ELSE scan
          BY ONLY <2>1, <3>2 DEF ReadChunk
        <4>2. Kept /\ scan = "scanning"
          BY <1>5 DEF Scan
        <4>3. Fill
          BY <4>1, <4>2 DEF Overflows
        <4> HIDE DEF Fill
        <4>4. Got
          BY <4>1
        <4>5. QED
          BY ONLY BufferInv, <3>1, <4>2, <4>3, <4>4 DEF Fill, BufferInv, TypeOK
      <3>3. CASE Ends(Head(pipe))
        <4>1. held' = 0 /\ scan' = scan /\ Collect(Head(pipe)[1])
          BY ONLY <2>1, <3>3 DEF ReadChunk
        <4>2. Kept
          BY <1>5 DEF Scan
        <4>3. Fill
          BY <4>1
        <4> HIDE DEF Fill
        <4>4. Got
          <5>1. Head(pipe)[1] \in 0..Len(script)
            BY ONLY <3>1
          <5>2. QED
            BY ONLY BufferInv, <4>1, <5>1, CollectTypes
        <4>5. QED
          BY ONLY BufferInv, <3>1, <4>2, <4>3, <4>4 DEF Fill, BufferInv, TypeOK
      <3>4. QED
        BY <3>2, <3>3
    <2>2. CASE ReadEnd
      <3>1. /\ lines' \in Seq(0..Len(script))
            /\ emitted' \in Seq(0..Len(script))
        <4>1. CASE held > 0
          BY <2>2, <4>1, CollectTypes DEF ReadEnd, Torn
        <4>2. CASE ~(held > 0)
          BY <2>2, <4>2 DEF ReadEnd
        <4>3. QED
          BY <4>1, <4>2
      <3>2. QED
        BY <1>5, <2>2, <3>1 DEF Scan, ReadEnd
    <2>3. QED
      BY <1>5, <2>1, <2>2 DEF Scan
  <1>6. CASE Wait
    BY <1>6 DEF Wait
  <1>7. CASE UNCHANGED vars
    BY <1>7 DEF vars
  <1>8. QED
    BY <1>1, <1>2, <1>3, <1>4, <1>5, <1>6, <1>7 DEF Next

\* Every variable has its type, and neither the pipe nor the scanner's buffer
\* ever holds more than it can.
THEOREM TypeCorrect == Spec => []TypeOK
  <1>1. BufferInv => TypeOK
    BY DEF BufferInv
  <1>2. QED
    BY <1>1, InitBuffer, NextBuffer, PTL DEF Spec
-------------------------------------------------------------------------------
(* The output.  The chunks in the pipe follow one another as the script has   *)
(* them, from the chunk the scanner needs next to the one before the chunk     *)
(* claude writes next.                                                         *)

ToWrite == <<written[1] + 1, written[2] + 1>>
NextChunk(chunk) ==
    IF Ends(chunk) THEN <<chunk[1] + 1, 1>> ELSE <<chunk[1], chunk[2] + 1>>
ToRead == IF pipe = <<>> THEN ToWrite ELSE pipe[1]

\* claude writes line by line, and ends when it has written all of them.
WriterInv ==
    /\ written[1] <= Len(script)
    /\ written[1] = Len(script) => written[2] = 0
    /\ written[1] < Len(script) => written[2] < script[written[1] + 1].size
    /\ child = "exited" => written[1] = Len(script)

\* Nothing is lost or swapped in the pipe.
PipeInv ==
    /\ \A i \in 1..Len(pipe) : pipe[i][2] <= script[pipe[i][1]].size
    /\ \A i \in 1..Len(pipe) - 1 : pipe[i + 1] = NextChunk(pipe[i])
    /\ pipe # <<>> => ToWrite = NextChunk(pipe[Len(pipe)])

\* While the scanner scans it has dealt with all lines before the one it is in;
\* it stops in front of a line that does not fit, or at the end.
ScanInv ==
    /\ scan = "scanning" => ToRead[2] = held + 1 /\ Handled(ToRead[1] - 1)
    /\ scan = "tooLong" => ~Fits /\ \E n \in 0..Len(script) : Handled(n)
    /\ scan = "stopped" => child \in {"exited", "failed"}
    /\ scan = "stopped" /\ child = "exited" => Handled(Len(script))
    /\ result = "lines" => scan # "scanning" /\ child = "exited"

\* The inductive invariant.
OutputInv == BufferInv /\ WriterInv /\ PipeInv /\ ScanInv

\* Every line has at least the chunk with its newline.
LEMMA Sizes ==
  ASSUME BufferInv, NEW k \in 1..Len(script)
  PROVE  script[k].size \in Nat \ {0} /\ k # Torn
  BY RunnerAssumption DEF BufferInv, TypeOK, Torn

\* A list grows by a number greater than all it has.
LEMMA ListsAppend ==
  ASSUME NEW s, NEW N \in Nat, s \in Seq(0..N), NEW n \in Nat, NEW K \in SUBSET (1..n),
         Lists(s, K)
  PROVE  Lists(Append(s, n + 1), K \cup {n + 1})
  <1> DEFINE t == Append(s, n + 1)
  <1>1. s \in Seq(Nat)
    OBVIOUS
  <1>2. /\ Len(t) = Len(s) + 1 /\ Len(s) \in Nat /\ t[Len(s) + 1] = n + 1
        /\ \A i \in 1..Len(s) : t[i] = s[i]
        /\ DOMAIN t = 1..Len(s) + 1 /\ DOMAIN s = 1..Len(s)
    BY <1>1
  <1> HIDE DEF t
  <1>3. \A i \in 1..Len(s) : s[i] \in K
    BY <1>2 DEF Lists, Range
  <1>4. \A x \in K : \E i \in 1..Len(s) : s[i] = x
    BY <1>2 DEF Lists, Range
  <1>5. Range(t) = K \cup {n + 1}
    <2>1. \A i \in 1..Len(s) + 1 : t[i] \in K \cup {n + 1}
      BY <1>2, <1>3
    <2>2. \A x \in K \cup {n + 1} : \E i \in 1..Len(s) + 1 : t[i] = x
      <3> SUFFICES ASSUME NEW x \in K \cup {n + 1}
                   PROVE  \E i \in 1..Len(s) + 1 : t[i] = x
        OBVIOUS
      <3>1. CASE x = n + 1
        BY <1>2, <3>1
      <3>2. CASE x \in K
        <4>1. PICK i \in 1..Len(s) : s[i] = x
          BY <1>4, <3>2
        <4>2. i \in 1..Len(s) + 1 /\ t[i] = x
          BY <1>2, <4>1
        <4>3. QED
          BY <4>2
      <3>3. QED
        BY <3>1, <3>2
    <2>3. Range(t) = {t[i] : i \in 1..Len(s) + 1}
      BY <1>2 DEF Range
    <2>4. QED
      BY ONLY <2>1, <2>2, <2>3
  <1>6. ASSUME NEW i \in DOMAIN t, NEW j \in DOMAIN t, i < j PROVE t[i] < t[j]
    <2>1. i \in 1..Len(s)
      BY <1>2, <1>6
    <2>2. CASE j \in 1..Len(s)
      BY <1>2, <1>6, <2>1, <2>2 DEF Lists
    <2>3. CASE j = Len(s) + 1
      <3>1. t[i] \in 1..n /\ t[j] = n + 1
        BY <1>2, <1>3, <2>1, <2>3
      <3>2. QED
        BY ONLY <3>1, n \in Nat
    <2>4. QED
      BY <1>2, <2>2, <2>3
  <1>7. QED
    BY <1>5, <1>6 DEF Lists, t

\* The next line is dealt with.
LEMMA CollectNext ==
  ASSUME BufferInv, NEW n \in Nat, n + 1 \in 1..Len(script), Handled(n), Collect(n + 1),
         UNCHANGED script
  PROVE  Handled(n + 1)'
  <1> DEFINE P(k) == Kind(k) # "blank"
             E(k) == Kind(k) \notin {"blank", "noise"}
             Ps == {k \in 1..n : P(k)}
             Es == {k \in 1..n : E(k)}
  <1>1. \A k : Kind(k)' = Kind(k)
    BY DEF Kind
  <1>2. 1..n + 1 = (1..n) \cup {n + 1}
    OBVIOUS
  <1>3. /\ {k \in 1..n + 1 : P(k)} = IF P(n + 1) THEN Ps \cup {n + 1} ELSE Ps
        /\ {k \in 1..n + 1 : E(k)} = IF E(n + 1) THEN Es \cup {n + 1} ELSE Es
    BY <1>2
  <1>4. /\ lines' = IF P(n + 1) THEN Append(lines, n + 1) ELSE lines
        /\ emitted' = IF E(n + 1) THEN Append(emitted, n + 1) ELSE emitted
    BY DEF Collect
  <1>5. Lists(lines, Ps) /\ Lists(emitted, Es)
    BY DEF Handled
  <1>6. /\ Lists(Append(lines, n + 1), Ps \cup {n + 1})
        /\ Lists(Append(emitted, n + 1), Es \cup {n + 1})
    <2>1. Ps \in SUBSET (1..n) /\ Es \in SUBSET (1..n) /\ Len(script) \in Nat
          /\ lines \in Seq(0..Len(script)) /\ emitted \in Seq(0..Len(script))
      BY DEF BufferInv, TypeOK
    <2> HIDE DEF Ps, Es
    <2>2. QED
      BY <1>5, <2>1, ListsAppend
  <1>7. Handled(n + 1)' <=>
          /\ Lists(lines', {k \in 1..n + 1 : P(k)})
          /\ Lists(emitted', {k \in 1..n + 1 : E(k)})
    BY <1>1 DEF Handled, Lists
  <1> HIDE DEF P, E, Ps, Es
  <1>8. QED
    BY <1>3, <1>4, <1>5, <1>6, <1>7

\* What is handled stays so while the lists do.
LEMMA HandledStays ==
  ASSUME NEW n, Handled(n), UNCHANGED <<script, lines, emitted>>
  PROVE  Handled(n)'
  BY DEF Handled, Kind, Lists, Range
\* claude writes what comes after the last chunk in the pipe.
LEMMA WriteStep ==
  ASSUME BufferInv, WriterInv, PipeInv, ScanInv, ChildWrites
  PROVE  WriterInv' /\ PipeInv' /\ ScanInv'
  <1> DEFINE w == ToWrite
             Chunks == (1..Len(script)) \X Nat
  <1>1. /\ written[1] \in Nat /\ written[2] \in Nat /\ Len(script) \in Nat
        /\ written = <<written[1], written[2]>>
    BY DEF BufferInv, TypeOK
  <1>2. /\ pipe' = Append(pipe, w)
        /\ written' = IF Ends(w) THEN <<written[1] + 1, 0>>
                      ELSE <<written[1], written[2] + 1>>
        /\ written[1] < Len(script) /\ child = "alive"
        /\ UNCHANGED <<script, child, held, scan, lines, emitted, result>>
    BY DEF ChildWrites, ToWrite
  <1>3. written[1] + 1 \in 1..Len(script) /\ w[1] = written[1] + 1 /\ w[2] = written[2] + 1
    BY <1>1, <1>2 DEF ToWrite
  <1>4. w[2] <= script[w[1]].size /\ script[w[1]].size \in Nat
    BY <1>1, <1>2, <1>3, Sizes DEF WriterInv
  <1>5. ToWrite' = NextChunk(w)
    BY <1>1, <1>2, <1>3 DEF ToWrite, NextChunk
  <1>6. WriterInv'
    <2>1. CASE Ends(w)
      <3>1. written'[1] = written[1] + 1 /\ written'[2] = 0
        BY <1>2, <2>1
      <3>2. written'[1] < Len(script) => script[written'[1] + 1].size > 0
        BY <1>1, <3>1, Sizes
      <3>3. QED
        BY <1>1, <1>2, <3>1, <3>2 DEF WriterInv
    <2>2. CASE ~Ends(w)
      <3>1. written'[1] = written[1] /\ written'[2] = written[2] + 1
        BY <1>2, <2>2
      <3>2. w[2] < script[w[1]].size
        BY <1>1, <1>3, <1>4, <2>2 DEF Ends
      <3>3. QED
        BY <1>1, <1>2, <1>3, <3>1, <3>2 DEF WriterInv
    <2>3. QED
      BY <2>1, <2>2
  <1>7. /\ Len(pipe') = Len(pipe) + 1 /\ Len(pipe) \in Nat
        /\ pipe'[Len(pipe) + 1] = w /\ pipe' # <<>>
        /\ \A i \in 1..Len(pipe) : pipe'[i] = pipe[i]
        /\ pipe = <<>> <=> Len(pipe) = 0
    <2>1. pipe \in Seq(Chunks)
      BY DEF BufferInv, TypeOK
    <2> HIDE DEF Chunks, w
    <2>2. QED
      BY <1>2, <2>1
  <1> HIDE DEF w
  <1>8. PipeInv'
    <2>1. ASSUME NEW i \in 1..Len(pipe')
          PROVE  pipe'[i][2] <= script'[pipe'[i][1]].size
      BY <1>2, <1>4, <1>7 DEF PipeInv
    <2>2. ASSUME NEW i \in 1..Len(pipe') - 1
          PROVE  pipe'[i + 1] = NextChunk(pipe'[i])
      <3>1. i \in 1..Len(pipe)
        BY <1>7
      <3>2. CASE i = Len(pipe)
        <4>1. pipe # <<>> /\ pipe'[i] = pipe[Len(pipe)] /\ pipe'[i + 1] = w
          BY <1>7, <3>1, <3>2
        <4>2. QED
          BY <4>1 DEF PipeInv, w
      <3>3. CASE i # Len(pipe)
        <4>1. i \in 1..Len(pipe) - 1 /\ i + 1 \in 1..Len(pipe)
          BY <1>7, <3>1, <3>3
        <4>2. QED
          BY <1>7, <3>1, <4>1 DEF PipeInv
      <3>4. QED
        BY <3>2, <3>3
    <2>3. UNCHANGED script
      BY <1>2
    <2>4. ToWrite' = NextChunk(pipe'[Len(pipe')])
      BY <1>5, <1>7
    <2>5. \A i \in 1..Len(pipe') - 1 : pipe'[i + 1] = NextChunk(pipe[i])'
      BY ONLY <2>2, <2>3 DEF NextChunk, Ends
    <2>6. ToWrite' = NextChunk(pipe[Len(pipe)])'
      BY ONLY <2>3, <2>4 DEF NextChunk, Ends
    <2>7. QED
      BY <2>1, <2>5, <2>6 DEF PipeInv
  <1>9. ToRead' = ToRead
    <2>1. CASE pipe = <<>>
      <3>1. pipe'[1] = w /\ ToRead = w
        BY <1>7, <2>1 DEF ToRead, w
      <3>2. QED
        BY <1>7, <3>1 DEF ToRead
    <2>2. CASE pipe # <<>>
      <3>1. pipe'[1] = pipe[1]
        BY <1>7, <2>2
      <3>2. QED
        BY <1>7, <2>2, <3>1 DEF ToRead
    <2>3. QED
      BY <2>1, <2>2
  <1>10. Handled(ToRead[1] - 1) => Handled(ToRead[1] - 1)'
    BY <1>2, <1>9 DEF Handled, Kind, Lists, Range
  <1>11. \A n : Handled(n) => Handled(n)'
    BY <1>2, HandledStays
  <1>12. Fits' = Fits
    BY <1>2 DEF Fits
  <1>13. QED
    BY <1>2, <1>6, <1>8, <1>9, <1>10, <1>11, <1>12 DEF ScanInv
\* The scanner takes the chunk it needs next: the line is complete, and is
\* dealt with, or it goes on, and may have become too long.
LEMMA ReadStep ==
  ASSUME BufferInv, WriterInv, PipeInv, ScanInv, Scan, ReadChunk
  PROVE  WriterInv' /\ PipeInv' /\ ScanInv'
  <1> DEFINE Chunks == (1..Len(script)) \X Nat
  <1>1. /\ pipe # <<>> /\ pipe' = Tail(pipe) /\ scan = "scanning"
        /\ UNCHANGED <<script, child, written, result>>
    BY DEF Scan, ReadChunk
  <1>2. /\ Len(pipe) \in Nat \ {0} /\ Len(pipe') = Len(pipe) - 1
        /\ Head(pipe) = pipe[1] /\ pipe[1] \in Chunks
        /\ \A i \in 1..Len(pipe') : pipe'[i] = pipe[i + 1]
        /\ pipe' = <<>> <=> Len(pipe') = 0
    <2>1. pipe \in Seq(Chunks)
      BY DEF BufferInv, TypeOK
    <2> HIDE DEF Chunks
    <2>2. \A i \in 1..Len(pipe) - 1 : Tail(pipe)[i] = pipe[i + 1]
      BY <1>1, <2>1
    <2>3. Len(pipe) \in Nat \ {0} /\ Len(Tail(pipe)) = Len(pipe) - 1
      BY <1>1, <2>1
    <2>4. Head(pipe) = pipe[1] /\ pipe[1] \in Chunks
      BY <1>1, <2>1, <2>3
    <2>5. Tail(pipe) \in Seq(Chunks)
      BY <1>1, <2>1
    <2>6. Tail(pipe) = <<>> <=> Len(Tail(pipe)) = 0
      <3> DEFINE rest == Tail(pipe)
      <3>1. rest \in Seq(Chunks)
        BY <2>5
      <3> HIDE DEF rest
      <3>2. rest = <<>> <=> Len(rest) = 0
        BY <3>1
      <3>3. QED
        BY <3>2 DEF rest
    <2>7. QED
      BY <1>1, <2>2, <2>3, <2>4, <2>6
  <1>3. PICK k \in 1..Len(script), h \in Nat : pipe[1] = <<k, h>>
    BY <1>2
  <1>3a. Len(script) \in Nat /\ k \in Nat
    BY DEF BufferInv, TypeOK
  <1>4. ToRead = <<k, h>> /\ h = held + 1 /\ Handled(k - 1)
    BY <1>1, <1>3 DEF ToRead, ScanInv
  <1>5. UNCHANGED <<ToWrite, Fits>>
    BY <1>1 DEF ToWrite, Fits
  <1>6. ToRead' = NextChunk(<<k, h>>)
    <2>1. CASE pipe' = <<>>
      <3>1. Len(pipe) = 1
        BY <1>2, <2>1
      <3>2. QED
        BY <1>1, <1>3, <1>5, <2>1, <3>1 DEF ToRead, PipeInv
    <2>2. CASE pipe' # <<>>
      <3>1. 1 \in 1..Len(pipe) - 1 /\ 1 \in 1..Len(pipe')
        BY <1>2, <2>2
      <3>2. pipe'[1] = pipe[1 + 1] /\ pipe[1 + 1] = NextChunk(pipe[1])
        BY <1>2, <3>1 DEF PipeInv
      <3>3. QED
        BY <1>3, <2>2, <3>2 DEF ToRead
    <2>3. QED
      BY <2>1, <2>2
  <1>7. WriterInv'
    BY <1>1 DEF WriterInv
  <1>8. PipeInv'
    <2>1. \A i \in 1..Len(pipe') : i + 1 \in 1..Len(pipe)
      BY <1>2
    <2>2. ASSUME NEW i \in 1..Len(pipe')
          PROVE  pipe'[i][2] <= script'[pipe'[i][1]].size
      BY <1>1, <1>2, <2>1 DEF PipeInv
    <2>3. ASSUME NEW i \in 1..Len(pipe') - 1
          PROVE  pipe'[i + 1] = NextChunk(pipe[i])'
      <3>1. i + 1 \in 1..Len(pipe) - 1 /\ i \in 1..Len(pipe') /\ i + 1 \in 1..Len(pipe')
        BY <1>2
      <3>2. pipe[i + 1 + 1] = NextChunk(pipe[i + 1])
        BY <3>1 DEF PipeInv
      <3>3. pipe'[i] = pipe[i + 1] /\ pipe'[i + 1] = pipe[i + 1 + 1]
        BY <1>2, <3>1
      <3>4. UNCHANGED script
        BY <1>1
      <3>5. QED
        BY ONLY <3>2, <3>3, <3>4 DEF NextChunk, Ends
    <2>4. ASSUME pipe' # <<>>
          PROVE  ToWrite' = NextChunk(pipe[Len(pipe)])'
      <3>1. pipe'[Len(pipe')] = pipe[Len(pipe)]
        BY <1>2, <2>4
      <3>2. ToWrite' = NextChunk(pipe[Len(pipe)]) /\ UNCHANGED script
        BY <1>1, <1>5 DEF PipeInv
      <3>3. QED
        BY ONLY <3>1, <3>2 DEF NextChunk, Ends
    <2>5. QED
      BY <2>2, <2>3, <2>4 DEF PipeInv
  <1>9. script[k].size \in Nat /\ h <= script[k].size /\ held \in Nat
    BY <1>2, <1>3, Sizes DEF PipeInv, BufferInv, TypeOK
  <1>10. CASE Ends(<<k, h>>)
    <2>1. held' = 0 /\ scan' = scan /\ Collect(k)
      <3>1. Head(pipe) = <<k, h>> /\ Head(pipe)[1] = k
        BY <1>2, <1>3
      <3>2. Ends(Head(pipe))
        BY <1>10, <3>1
      <3>3. held' = 0 /\ scan' = scan /\ Collect(Head(pipe)[1])
        BY ONLY ReadChunk, <3>2 DEF ReadChunk
      <3>4. QED
        BY ONLY <3>1, <3>3
    <2>2. ToRead'[1] = k + 1 /\ ToRead'[2] = 1
      BY <1>6, <1>10 DEF NextChunk
    <2>3. Handled(k)'
      <3>1. PICK n \in Nat : n = k - 1
        BY <1>3
      <3>2. n + 1 = k
        BY <1>3a, <3>1
      <3>3. Collect(n + 1) /\ Handled(n) /\ n + 1 \in 1..Len(script)
        BY <1>3, <1>4, <2>1, <3>1, <3>2
      <3>4. Handled(n + 1)'
        BY <1>1, <3>3, CollectNext
      <3>5. QED
        BY <3>2, <3>4
    <2>4. ToRead'[1] - 1 = k /\ result' # "lines"
      BY <1>1, <1>3a, <2>2 DEF ScanInv
    <2>5. Handled(ToRead[1] - 1)'
      BY <2>3, <2>4
    <2>6. QED
      BY <1>1, <1>7, <1>8, <2>1, <2>2, <2>4, <2>5 DEF ScanInv
  <1>11. CASE ~Ends(<<k, h>>)
    <2>1. /\ held' = held + 1 /\ UNCHANGED <<lines, emitted>>
          /\ scan' = IF Overflows(held + 1) THEN "tooLong" ELSE scan
      BY <1>2, <1>3, <1>11 DEF ReadChunk
    <2>2. ToRead'[1] = k /\ ToRead'[2] = h + 1
      BY <1>6, <1>11 DEF NextChunk
    <2>3. \A n : Handled(n) => Handled(n)'
      BY <1>1, <2>1, HandledStays
    <2>4. h < script[k].size
      BY <1>3, <1>9, <1>11 DEF Ends
    <2>5. CASE Overflows(held + 1)
      <3>1. ~Fits
        BY <1>3, <1>4, <1>9, <2>1, <2>4, <2>5, RunnerAssumption DEF Fits, Overflows
      <3>2. k - 1 \in 0..Len(script)
        BY <1>3
      <3>3. \E n \in 0..Len(script') : Handled(n)'
        BY <1>1, <1>4, <2>3, <3>2
      <3>4. scan' = "tooLong" /\ result' # "lines" /\ ~Fits'
        BY <1>1, <1>5, <2>1, <2>5, <3>1 DEF ScanInv
      <3>5. QED
        BY <1>7, <1>8, <3>3, <3>4 DEF ScanInv
    <2>6. CASE ~Overflows(held + 1)
      <3>1. scan' = "scanning" /\ result' # "lines"
        BY <1>1, <2>1, <2>6 DEF ScanInv
      <3>2. ToRead'[2] = held' + 1 /\ Handled(k - 1)'
        BY <1>4, <2>1, <2>2, <2>3
      <3>3. Handled(ToRead[1] - 1)'
        BY <2>2, <3>2
      <3>4. QED
        BY <1>7, <1>8, <3>1, <3>2, <3>3 DEF ScanInv
    <2>7. QED
      BY <2>5, <2>6
  <1>12. QED
    BY <1>10, <1>11
\* At the end of the output of a claude that ended well, everything has been
\* dealt with, and nothing is torn.
LEMMA EndStep ==
  ASSUME BufferInv, WriterInv, PipeInv, ScanInv, Scan, pipe = <<>>, ReadEnd
  PROVE  WriterInv' /\ PipeInv' /\ ScanInv'
  <1>1. /\ scan = "scanning" /\ scan' = "stopped" /\ child \in {"exited", "failed"}
        /\ UNCHANGED <<script, child, written, pipe, held, result>>
    BY DEF Scan, ReadEnd
  <1>2. WriterInv' /\ PipeInv' /\ result' # "lines"
    BY <1>1 DEF WriterInv, PipeInv, ToWrite, NextChunk, Ends, ScanInv
  <1>3. ASSUME child = "exited"
        PROVE  Handled(Len(script))'
    <2>1. written[1] = Len(script) /\ written[2] = 0 /\ Len(script) \in Nat
      BY <1>3 DEF WriterInv, BufferInv, TypeOK
    <2>2. ToRead[1] = Len(script) + 1 /\ ToRead[2] = 1
      BY <2>1 DEF ToRead, ToWrite
    <2>3. held = 0
      BY <1>1, <2>2 DEF ScanInv, BufferInv, TypeOK
    <2>4. Handled(ToRead[1] - 1) /\ ToRead[1] - 1 = Len(script)
      BY <1>1, <2>1, <2>2 DEF ScanInv
    <2>5. UNCHANGED <<script, lines, emitted>>
      BY <1>1, <2>3 DEF ReadEnd
    <2>6. QED
      BY <2>4, <2>5 DEF Handled, Kind, Lists, Range
  <1>4. QED
    BY <1>1, <1>2, <1>3 DEF ScanInv

\* The rest of the steps neither write, nor read, nor collect.
LEMMA QuietStep ==
  ASSUME BufferInv, WriterInv, PipeInv, ScanInv,
         Start \/ ChildExits \/ ChildKilled \/ Wait \/ UNCHANGED vars
  PROVE  WriterInv' /\ PipeInv' /\ ScanInv'
  <1>1. UNCHANGED <<script, written, pipe, held, scan, lines, emitted>>
    BY DEF Start, ChildExits, ChildKilled, Wait, vars
  <1>2. PipeInv' /\ UNCHANGED <<ToRead, Fits>>
    BY <1>1 DEF PipeInv, ToRead, ToWrite, NextChunk, Ends, Fits
  <1>3. WriterInv'
    BY <1>1 DEF WriterInv, Start, ChildExits, ChildKilled, Wait, vars
  <1>4. /\ \A n : Handled(n) => Handled(n)'
        /\ Handled(ToRead[1] - 1) => Handled(ToRead[1] - 1)'
        /\ Handled(Len(script)) => Handled(Len(script))'
    BY <1>1, <1>2 DEF Handled, Kind, Lists, Range
  <1>5. /\ child' = child \/ scan' # "stopped" \/ child \in {"alive", "new"}
        /\ scan = "stopped" => child' = child
    BY <1>1 DEF ScanInv, Start, ChildExits, ChildKilled, Wait, vars
  <1>6. result' = "lines" => scan' # "scanning" /\ child' = "exited"
    BY <1>1 DEF ScanInv, Start, ChildExits, ChildKilled, Wait, vars
  <1>7. QED
    BY <1>1, <1>2, <1>3, <1>4, <1>5, <1>6 DEF ScanInv

\* Nothing is written and nothing is read at first.
LEMMA InitOutput == Init => OutputInv
  <1> SUFFICES ASSUME Init PROVE OutputInv
    OBVIOUS
  <1>1. BufferInv /\ Len(script) \in Nat
    BY InitBuffer DEF BufferInv, TypeOK
  <1>2. WriterInv
    <2>1. 0 < Len(script) => script[1].size > 0
      BY <1>1, Sizes
    <2>2. QED
      BY <1>1, <2>1 DEF Init, WriterInv
  <1>3. PipeInv
    BY DEF Init, PipeInv
  <1>4. Handled(0)
    BY DEF Init, Handled, Lists, Range
  <1>5. ToRead = <<1, 1>>
    BY DEF Init, ToRead, ToWrite
  <1>6. QED
    BY <1>1, <1>2, <1>3, <1>4, <1>5 DEF Init, OutputInv, ScanInv

\* The invariant of the pipe and the lists holds in every reachable state.
THEOREM OutputInvariant == Spec => []OutputInv
  <1>1. OutputInv /\ [Next]_vars => OutputInv'
    <2> SUFFICES ASSUME OutputInv, [Next]_vars PROVE OutputInv'
      OBVIOUS
    <2>1. BufferInv /\ WriterInv /\ PipeInv /\ ScanInv
      BY DEF OutputInv
    <2>2. BufferInv'
      BY <2>1, NextBuffer
    <2>3. CASE ChildWrites
      BY <2>1, <2>2, <2>3, WriteStep DEF OutputInv
    <2>4. CASE Scan
      <3>1. ReadChunk \/ (pipe = <<>> /\ ReadEnd)
        BY <2>4 DEF Scan
      <3>2. QED
        BY <2>1, <2>2, <2>4, <3>1, ReadStep, EndStep DEF OutputInv
    <2>5. CASE Start \/ ChildExits \/ ChildKilled \/ Wait \/ UNCHANGED vars
      BY <2>1, <2>2, <2>5, QuietStep DEF OutputInv
    <2>6. QED
      BY <2>3, <2>4, <2>5 DEF Next
  <1>2. QED
    BY InitOutput, <1>1, PTL DEF Spec

\* While claude runs its pipe is read, unless a line overflowed the scanner's
\* buffer (claude.go:158-181): neither waits for the other to end.
THEOREM PipeIsReadAlways == Spec => []PipeIsRead
  <1>1. OutputInv => PipeIsRead
    BY DEF OutputInv, BufferInv, TypeOK, ScanInv, PipeIsRead
  <1>2. QED
    BY <1>1, OutputInvariant, PTL

\* When the runner returns lines they are what claude printed, in order, each
\* once and none torn, and all of it unless a line overflowed the buffer; OnEvent
\* has got its events (claude.go:158-200).
THEOREM AnswerIsOutputAlways == Spec => []AnswerIsOutput
  <1>1. OutputInv => AnswerIsOutput
    <2> SUFFICES ASSUME OutputInv, result = "lines"
                 PROVE  /\ child = "exited"
                        /\ \E n \in 0..Len(script) :
                               Handled(n) /\ (Fits => n = Len(script))
      BY DEF AnswerIsOutput
    <2>1. child = "exited" /\ scan \in {"tooLong", "stopped"} /\ Len(script) \in Nat
      BY DEF OutputInv, ScanInv, BufferInv, TypeOK
    <2>2. CASE scan = "tooLong"
      BY <2>1, <2>2 DEF OutputInv, ScanInv
    <2>3. CASE scan = "stopped"
      <3>1. Handled(Len(script)) /\ Len(script) \in 0..Len(script)
        BY <2>1, <2>3 DEF OutputInv, ScanInv
      <3>2. QED
        BY <2>1, <3>1
    <2>4. QED
      BY <2>1, <2>2, <2>3
  <1>2. QED
    BY <1>1, OutputInvariant, PTL
===============================================================================
