-------------------------------- MODULE Runner --------------------------------
(***************************************************************************)
(* ClaudeRunner (internal/agent/claude.go): one claude subprocess writing  *)
(* stream-json lines into the stdout pipe, the scanner that reads them and *)
(* hands them to OnEvent, and the Wait that follows.                       *)
(*                                                                         *)
(* Bytes are counted in chunks.  A line of `size` chunks is written chunk  *)
(* by chunk; the pipe holds PipeSize chunks and the scanner's buffer       *)
(* MaxToken chunks.  Both sides block as the operating system makes them.  *)
(* Lines and chunks go by their places in what claude prints.              *)
(***************************************************************************)
EXTENDS Naturals, Sequences, SequencesExt

CONSTANTS
    Lines,      \* what claude may print: records [kind, size]
    MaxLines,   \* bound: the longest output considered
    MaxToken,   \* chunks of one line that fit in the scanner's buffer
    PipeSize    \* chunks the stdout pipe holds

ASSUME RunnerAssumption ==
    /\ Lines \subseteq [kind : {"event", "noise", "blank"}, size : Nat \ {0}]
    /\ MaxLines \in Nat /\ MaxToken \in Nat \ {0} /\ PipeSize \in Nat \ {0}

VARIABLES
    script,   \* all that claude has to print (never changes)
    child,    \* the subprocess
    written,  \* chunks of the script written, as <<whole lines, chunks>>
    pipe,     \* chunks in the stdout pipe, as <<line, place in it>>
    held,     \* chunks of an unfinished line in the scanner's buffer
    scan,     \* the scan loop
    lines,    \* the lines collected, by number
    emitted,  \* the lines handed to OnEvent
    result    \* what the runner returned

vars == <<script, child, written, pipe, held, scan, lines, emitted, result>>

\* A line cut short by end of file, which is none of those to be printed.
Torn == 0

Kind(k) == IF k = Torn THEN "torn" ELSE script[k].kind

\* The chunk has the newline.
Ends(chunk) == chunk[2] = script[chunk[1]].size

Init ==
    /\ script \in BoundedSeq(Lines, MaxLines)
    /\ child = "new" /\ written = <<0, 0>> /\ pipe = <<>>
    /\ held = 0 /\ scan = "scanning" /\ lines = <<>> /\ emitted = <<>>
    /\ result = "none"

\* cmd.Start
Start ==
    /\ child = "new" /\ result = "none"
    /\ \/ child' = "alive" /\ UNCHANGED result
       \/ result' = "error" /\ UNCHANGED child
    /\ UNCHANGED <<script, written, pipe, held, scan, lines, emitted>>

\* claude writes the next chunk; it blocks while the pipe is full.
ChildWrites ==
    /\ child = "alive" /\ written[1] < Len(script) /\ Len(pipe) < PipeSize
    /\ LET chunk == <<written[1] + 1, written[2] + 1>>
       IN  /\ pipe' = Append(pipe, chunk)
           /\ written' = IF Ends(chunk) THEN <<written[1] + 1, 0>>
                         ELSE <<written[1], written[2] + 1>>
    /\ UNCHANGED <<script, child, held, scan, lines, emitted, result>>

\* claude ends by itself once it has written everything.
ChildExits ==
    /\ child = "alive" /\ written[1] = Len(script)
    /\ child' \in {"exited", "failed"}
    /\ UNCHANGED <<script, written, pipe, held, scan, lines, emitted, result>>

\* claude crashes, or exec.CommandContext kills it when the context ends.
ChildKilled ==
    /\ child = "alive"
    /\ child' = "failed"
    /\ UNCHANGED <<script, written, pipe, held, scan, lines, emitted, result>>

\* Blank lines are skipped, rate_limit_event lines are not emitted.
Collect(k) ==
    /\ lines' = IF Kind(k) = "blank" THEN lines ELSE Append(lines, k)
    /\ emitted' = IF Kind(k) \in {"blank", "noise"} THEN emitted
                  ELSE Append(emitted, k)

\* Mutant: the buffer counts as full one chunk early.
OverflowsEarly(n) == n + 1 = MaxToken

\* bufio.ErrTooLong: the buffer is full and holds no newline.
Overflows(n) == n = MaxToken

\* scanner.Scan: a line that overflows the buffer stops the loop for good.
ReadChunk ==
    /\ pipe # <<>>
    /\ pipe' = Tail(pipe)
    /\ \/ /\ ~Ends(Head(pipe))
          /\ held' = held + 1
          /\ scan' = IF Overflows(held + 1) THEN "tooLong" ELSE scan
          /\ UNCHANGED <<lines, emitted>>
       \/ /\ Ends(Head(pipe))
          /\ held' = 0
          /\ Collect(Head(pipe)[1])
          /\ UNCHANGED scan

\* At end of file the unfinished rest of a line counts as a line.
ReadEnd ==
    /\ child \in {"exited", "failed"}
    /\ scan' = "stopped"
    /\ IF held > 0 THEN Collect(Torn) ELSE UNCHANGED <<lines, emitted>>
    /\ UNCHANGED <<pipe, held>>

\* Mutant: the loop ends with the process, whatever is left in the pipe.
ScanUntilExit ==
    /\ scan = "scanning"
    /\ ReadEnd \/ (child = "alive" /\ ReadChunk)
    /\ UNCHANGED <<script, child, written, result>>

\* Mutant: the output is read once the process has ended.
ScanAfterExit ==
    /\ scan = "scanning" /\ child \in {"exited", "failed"}
    /\ ReadChunk \/ (pipe = <<>> /\ ReadEnd)
    /\ UNCHANGED <<script, child, written, result>>

\* The scan loop.
Scan ==
    /\ scan = "scanning"
    /\ ReadChunk \/ (pipe = <<>> /\ ReadEnd)
    /\ UNCHANGED <<script, child, written, result>>

\* cmd.Wait: the process must have exited; its status decides.  A scanner error
\* is only logged.
Wait ==
    /\ scan # "scanning" /\ result = "none" /\ child \in {"exited", "failed"}
    /\ result' = IF child = "exited" THEN "lines" ELSE "error"
    /\ UNCHANGED <<script, child, written, pipe, held, scan, lines, emitted>>

Next == Start \/ ChildWrites \/ ChildExits \/ ChildKilled \/ Scan \/ Wait

Spec == Init /\ [][Next]_vars

\* The runner's goroutine runs, and claude prints what it has to and exits;
\* nothing kills it.
FairSpec == Spec /\ WF_vars(Start) /\ WF_vars(ChildWrites) /\ WF_vars(ChildExits)
                 /\ WF_vars(Scan) /\ WF_vars(Wait)

-------------------------------------------------------------------------------
(* Properties *)

\* The numbers in s are those in K, in order and each once.
Lists(s, K) ==
    Range(s) = K /\ \A i, j \in DOMAIN s : i < j => s[i] < s[j]

\* What is collected, and what is emitted, of the first n lines of the output.
Handled(n) ==
    /\ Lists(lines, {k \in 1..n : Kind(k) # "blank"})
    /\ Lists(emitted, {k \in 1..n : Kind(k) \notin {"blank", "noise"}})

Fits == \A i \in DOMAIN script : script[i].size <= MaxToken

\* Every variable has its type and the pipe never holds more than it can.
TypeOK ==
    /\ script \in Seq(Lines)
    /\ child \in {"new", "alive", "exited", "failed"}
    /\ written \in Nat \X Nat
    /\ pipe \in Seq((1..Len(script)) \X Nat) /\ Len(pipe) <= PipeSize
    /\ held \in 0..MaxToken
    /\ scan \in {"scanning", "tooLong", "stopped"}
    /\ lines \in Seq(0..Len(script))
    /\ emitted \in Seq(0..Len(script))
    /\ result \in {"none", "lines", "error"}

\* What HandleMessage parses is what claude printed: when the runner returns
\* lines, claude ended well and they are its own, in order and each once, none
\* of them torn (claude.go:162-198), and OnEvent has got every event among them;
\* and they are all there were, unless one overflowed the buffer.
AnswerIsOutput ==
    result = "lines" =>
        /\ child = "exited"
        /\ \E n \in 0..Len(script) : Handled(n) /\ (Fits => n = Len(script))

\* While claude runs somebody reads its pipe, unless a line overflowed
\* (claude.go:158-198): a claude that is blocked on a full pipe waits for the
\* next turn of the loop and never for the Wait that waits for it.
PipeIsRead == Fits /\ child = "alive" => scan = "scanning"

\* If every line fits in the scanner's buffer, a started claude is eventually
\* waited for and the runner returns (claude.go:158-198): no cycle between a
\* full pipe and a reader that has gone.
Returns == Fits => (child = "alive" ~> result # "none")
===============================================================================
