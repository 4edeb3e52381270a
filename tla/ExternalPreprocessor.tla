------------------------ MODULE ExternalPreprocessor ------------------------
(***************************************************************************)
(* scan/mod.rs preprocess_external from the spawn of the compiler on: the  *)
(* child process in a group of its own, a descendant it may leave behind   *)
(* with its pipes, the two bounded pipes, the two reader threads that      *)
(* share a byte count and a channel, and the scanning thread that polls,   *)
(* kills, reaps, waits for the streams to close and decides what to report.*)
(*                                                                         *)
(* Bytes are units: `pipe`, `written`, `kept` count them, the readers take *)
(* them in order, so counts say which prefix of a stream was kept.  A      *)
(* deadline of the scanning thread may strike at any moment.               *)
(***************************************************************************)
EXTENDS Naturals

CONSTANTS
  Limit,      \* limits.max_external_output_bytes
  ReadBuffer, \* bytes one read returns at most (8 KiB in the code)
  PipeSize,   \* capacity of a pipe, the operating system's
  MaxWrites,  \* bound: bytes written to one stream
  Faults      \* what the operating system may refuse: subset of {"read", "wait", "kill"}

ASSUME LimitsAssumption ==
  /\ Limit \in Nat
  /\ ReadBuffer \in Nat \ {0}
  /\ PipeSize \in Nat \ {0}
  /\ MaxWrites \in Nat
  /\ Faults \subseteq {"read", "wait", "kill"}

Streams == {"out", "err"}
Procs   == {"child", "descendant"}
Ends    == {"success", "failed", "sigpipe", "killed"}

VARIABLES
  life,       \* per process: "absent", "alive", or how it ended
  holds,      \* the pipes whose write end a process holds
  grouped,    \* processes in the child's process group
  doomed,     \* processes a SIGKILL is on its way to
  groupKill,  \* a /bin/kill of the group was spawned and has not run yet
  unspawned,  \* the last attempt to spawn one failed
  pipe,       \* bytes in a pipe
  written,    \* bytes ever written to a pipe
  reader,     \* where a reader thread is
  got,        \* bytes of its last read, not counted yet
  kept,       \* bytes in its output vector
  result,     \* its result: "ok", "exceeded" or "failed"
  total,      \* the shared AtomicU64
  limitSent,  \* a message is in the limit channel
  main,       \* where the scanning thread is
  clock,      \* external_timeout: "running", then how the child was when it passed
  timedOut, exceeded, forced, status, issues, text,  \* locals of preprocess_external
  warned      \* stderr was not empty

procVars   == <<life, holds, grouped, doomed, groupKill, unspawned>>
readerVars == <<reader, got, kept, result, total, limitSent>>
mainVars   == <<main, timedOut, exceeded, forced, status, issues, text, warned>>
vars == <<procVars, pipe, written, readerVars, mainVars, clock>>

Alive(p)  == life[p] = "alive"
Ended(p)  == life[p] \in Ends
Writers(s) == {p \in Procs : Alive(p) /\ s \in holds[p]}
Finished(s) == reader[s] = "finished"
Closed(s)  == reader[s] \in {"closed", "finished"}   \* the read end is dropped

Init ==
  /\ life = [p \in Procs |-> IF p = "child" THEN "alive" ELSE "absent"]
  /\ holds = [p \in Procs |-> IF p = "child" THEN Streams ELSE {}]
  /\ grouped = {"child"}
  /\ doomed = {}
  /\ groupKill = FALSE /\ unspawned = FALSE
  /\ pipe = [s \in Streams |-> 0]
  /\ written = [s \in Streams |-> 0]
  /\ reader = [s \in Streams |-> "read"]
  /\ got = [s \in Streams |-> 0]
  /\ kept = [s \in Streams |-> 0]
  /\ result = [s \in Streams |-> "ok"]
  /\ total = 0
  /\ limitSent = FALSE
  /\ main = "limit"
  /\ clock = "running"
  /\ timedOut = FALSE /\ exceeded = FALSE /\ forced = FALSE
  /\ status = "none"
  /\ issues = {}
  /\ text = 0
  /\ warned = FALSE

-----------------------------------------------------------------------------
(* The processes: any program, which the code must survive *)

Write(p, s) ==
  /\ Alive(p) /\ s \in holds[p]
  /\ ~Closed(s)
  /\ pipe[s] < PipeSize /\ written[s] < MaxWrites
  /\ pipe' = [pipe EXCEPT ![s] = @ + 1]
  /\ written' = [written EXCEPT ![s] = @ + 1]
  /\ UNCHANGED <<procVars, readerVars, mainVars, clock>>

Die(p, how) ==
  /\ life' = [life EXCEPT ![p] = how]
  /\ holds' = [holds EXCEPT ![p] = {}]
  /\ UNCHANGED <<grouped, doomed, groupKill, unspawned, pipe, written, readerVars, mainVars,
                 clock>>

\* A write to a pipe nobody reads: SIGPIPE.
WriteBroken(p, s) ==
  /\ Alive(p) /\ s \in holds[p]
  /\ Closed(s)
  /\ Die(p, "sigpipe")

Exit(p, how) == Alive(p) /\ how \in {"success", "failed"} /\ Die(p, how)

Killed(p) == Alive(p) /\ p \in doomed /\ Die(p, "killed")

\* The child starts a process that keeps some of its pipes, in its group or,
\* after setsid, outside.  A pending SIGKILL makes fork fail.
Fork(S, inGroup) ==
  /\ Alive("child") /\ "child" \notin doomed /\ life["descendant"] = "absent"
  /\ life' = [life EXCEPT !["descendant"] = "alive"]
  /\ holds' = [holds EXCEPT !["descendant"] = S]
  /\ grouped' = IF inGroup THEN grouped \cup {"descendant"} ELSE grouped
  /\ UNCHANGED <<doomed, groupKill, unspawned, pipe, written, readerVars, mainVars, clock>>

\* The spawned /bin/kill reaches the group, some time after it was spawned.
GroupKill ==
  /\ groupKill
  /\ groupKill' = FALSE
  /\ doomed' = doomed \cup {p \in grouped : Alive(p)}
  /\ UNCHANGED <<life, holds, grouped, unspawned, pipe, written, readerVars, mainVars, clock>>

\* The child may end between the poll's look at it and its look at the clock.
TimeoutPasses ==
  /\ clock = "running"
  /\ clock' = IF Alive("child") THEN "child alive"
              ELSE IF main = "clock" THEN "child ended unseen" ELSE "child ended"
  /\ UNCHANGED <<procVars, pipe, written, readerVars, mainVars>>

-----------------------------------------------------------------------------
(* read_external_stream, one thread per stream *)

\* Mutants of Read: it always takes a full buffer; or one thread reads stderr only
\* after stdout has ended.
ReadFull(s, n) ==
  /\ reader[s] = "read"
  /\ n \in 1..ReadBuffer /\ pipe[s] > 0
  /\ pipe' = [pipe EXCEPT ![s] = @ - ReadBuffer]
  /\ got' = [got EXCEPT ![s] = ReadBuffer]
  /\ reader' = [reader EXCEPT ![s] = "count"]
  /\ UNCHANGED <<procVars, written, kept, result, total, limitSent, mainVars, clock>>

ReadInTurn(s, n) ==
  /\ reader[s] = "read"
  /\ s = "err" => Finished("out")
  /\ n \in 1..ReadBuffer /\ n <= pipe[s]
  /\ pipe' = [pipe EXCEPT ![s] = @ - n]
  /\ got' = [got EXCEPT ![s] = n]
  /\ reader' = [reader EXCEPT ![s] = "count"]
  /\ UNCHANGED <<procVars, written, kept, result, total, limitSent, mainVars, clock>>

Read(s, n) ==
  /\ reader[s] = "read"
  /\ n \in 1..ReadBuffer /\ n <= pipe[s]
  /\ pipe' = [pipe EXCEPT ![s] = @ - n]
  /\ got' = [got EXCEPT ![s] = n]
  /\ reader' = [reader EXCEPT ![s] = "count"]
  /\ UNCHANGED <<procVars, written, kept, result, total, limitSent, mainVars, clock>>

ReadEnd(s) ==
  /\ reader[s] = "read"
  /\ pipe[s] = 0 /\ Writers(s) = {}
  /\ reader' = [reader EXCEPT ![s] = "closed"]
  /\ UNCHANGED <<procVars, pipe, written, got, kept, result, total, limitSent,
                 mainVars, clock>>

ReadFails(s) ==
  /\ "read" \in Faults
  /\ reader[s] = "read"
  /\ reader' = [reader EXCEPT ![s] = "closed"]
  /\ result' = [result EXCEPT ![s] = "failed"]
  /\ UNCHANGED <<procVars, pipe, written, got, kept, total, limitSent, mainVars, clock>>

\* fetch_add, then keep what the limit leaves room for.
Least(m, n) == IF m < n THEN m ELSE n
Remaining(previous) == IF previous < Limit THEN Limit - previous ELSE 0

\* Mutant of Count: each reader compares its own count with the limit.
CountAlone(s) ==
  /\ reader[s] = "count"
  /\ total' = total + got[s]
  /\ LET retained == Least(got[s], Remaining(kept[s])) IN
       /\ kept' = [kept EXCEPT ![s] = @ + retained]
       /\ reader' = [reader EXCEPT ![s] = IF retained < got[s] THEN "send" ELSE "read"]
  /\ got' = [got EXCEPT ![s] = 0]
  /\ UNCHANGED <<procVars, pipe, written, result, limitSent, mainVars, clock>>

Count(s) ==
  /\ reader[s] = "count"
  /\ total' = total + got[s]
  /\ LET retained == Least(got[s], Remaining(total)) IN
       /\ kept' = [kept EXCEPT ![s] = @ + retained]
       /\ reader' = [reader EXCEPT ![s] =
                       IF retained < got[s] \/ total >= Limit THEN "send" ELSE "read"]
  /\ got' = [got EXCEPT ![s] = 0]
  /\ UNCHANGED <<procVars, pipe, written, result, limitSent, mainVars, clock>>

SendLimit(s) ==
  /\ reader[s] = "send"
  /\ limitSent' = TRUE
  /\ result' = [result EXCEPT ![s] = "exceeded"]
  /\ reader' = [reader EXCEPT ![s] = "closed"]
  /\ UNCHANGED <<procVars, pipe, written, got, kept, total, mainVars, clock>>

\* The thread ends after its pipe was dropped.
ThreadEnds(s) ==
  /\ reader[s] = "closed"
  /\ reader' = [reader EXCEPT ![s] = "finished"]
  /\ UNCHANGED <<procVars, pipe, written, got, kept, result, total, limitSent,
                 mainVars, clock>>

-----------------------------------------------------------------------------
(* The scanning thread *)

\* Mutant of Terminate: only the child is killed.
TerminateChild ==
  /\ doomed' = IF Alive("child") THEN doomed \cup {"child"} ELSE doomed
  /\ UNCHANGED <<life, holds, grouped, groupKill, unspawned>>

\* terminate_external_group: that /bin/kill cannot be spawned is ignored, and
\* Child::kill does nothing once the child is reaped.
Terminate ==
  /\ \/ groupKill' = TRUE /\ unspawned' = FALSE
     \/ "kill" \in Faults /\ unspawned' = TRUE /\ UNCHANGED groupKill
  /\ doomed' = IF Alive("child") THEN doomed \cup {"child"} ELSE doomed
  /\ UNCHANGED <<life, holds, grouped>>

PollLimit ==
  /\ main = "limit"
  /\ IF limitSent
     THEN /\ limitSent' = FALSE
          /\ exceeded' = TRUE
          /\ main' = "reap"
          /\ Terminate
     ELSE /\ main' = "wait"
          /\ UNCHANGED <<procVars, limitSent, exceeded>>
  /\ UNCHANGED <<pipe, written, reader, got, kept, result, total, timedOut, forced,
                 status, issues, text, warned, clock>>

PollExited ==
  /\ main = "wait"
  /\ Ended("child")
  /\ status' = life["child"]
  /\ main' = "streams"
  /\ UNCHANGED <<procVars, pipe, written, readerVars, timedOut, exceeded, forced,
                 issues, text, warned, clock>>

\* Mutant of PollAlive: the clock is looked at whatever the child does.
PollUnasked ==
  /\ main = "wait"
  /\ main' = "clock"
  /\ UNCHANGED <<procVars, pipe, written, readerVars, timedOut, exceeded, forced,
                 status, issues, text, warned, clock>>

\* try_wait says that the child runs; the clock is read after that.
PollAlive ==
  /\ main = "wait"
  /\ ~Ended("child")
  /\ main' = "clock"
  /\ UNCHANGED <<procVars, pipe, written, readerVars, timedOut, exceeded, forced,
                 status, issues, text, warned, clock>>

\* Mutant of PollTimeout: the child is given up, not killed.
PollTimeoutNoKill ==
  /\ main = "clock"
  /\ clock # "running"
  /\ timedOut' = TRUE
  /\ main' = "reap"
  /\ UNCHANGED <<procVars, pipe, written, readerVars, exceeded, forced, status,
                 issues, text, warned, clock>>

\* The child is not asked again, though it may have ended by now.
PollTimeout ==
  /\ main = "clock"
  /\ clock # "running"
  /\ timedOut' = TRUE
  /\ main' = "reap"
  /\ Terminate
  /\ UNCHANGED <<pipe, written, readerVars, exceeded, forced, status, issues, text,
                 warned, clock>>

PollAgain ==
  /\ main = "clock"
  /\ clock = "running"
  /\ main' = "limit"
  /\ UNCHANGED <<procVars, pipe, written, readerVars, timedOut, exceeded, forced,
                 status, issues, text, warned, clock>>

\* try_wait fails: the error is returned with the child left as it is.
WaitFails ==
  /\ "wait" \in Faults
  /\ main \in {"wait", "reap"}
  /\ main' = "failed"
  /\ UNCHANGED <<procVars, pipe, written, readerVars, timedOut, exceeded, forced,
                 status, issues, text, warned, clock>>

\* reap_external_child: the status, or none when the deadline strikes first.
Reap ==
  /\ main = "reap"
  /\ status' = IF Ended("child") THEN life["child"] ELSE "none"
  /\ main' = "streams"
  /\ UNCHANGED <<procVars, pipe, written, readerVars, timedOut, exceeded, forced,
                 issues, text, warned, clock>>

BothFinished == \A s \in Streams : Finished(s)

\* Mutant of StreamsWaited: the readers are joined without a deadline.
StreamsJoined ==
  /\ main = "streams"
  /\ BothFinished
  /\ main' = "judge"
  /\ UNCHANGED <<procVars, pipe, written, readerVars, timedOut, exceeded, forced,
                 status, issues, text, warned, clock>>

\* The first wait for the readers ends; whoever still holds a pipe is killed.
StreamsWaited ==
  /\ main = "streams"
  /\ IF BothFinished
     THEN main' = "judge" /\ UNCHANGED <<procVars, forced>>
     ELSE main' = "streams again" /\ forced' = TRUE /\ Terminate
  /\ UNCHANGED <<pipe, written, readerVars, timedOut, exceeded, status, issues, text,
                 warned, clock>>

\* The second wait ends: a reader that is still open is detached.
StreamsWaitedAgain ==
  /\ main = "streams again"
  /\ main' = "judge"
  /\ UNCHANGED <<procVars, pipe, written, readerVars, timedOut, exceeded, forced,
                 status, issues, text, warned, clock>>

\* unpack_external_reader: an open reader is a failed one, with no bytes.
ResultOf(s) == IF BothFinished THEN result[s] ELSE "failed"

\* Mutant of Overrun: only the channel says that the limit was reached.
OverrunByChannel == exceeded

Overrun ==
  exceeded \/ total > Limit \/ \E s \in Streams : ResultOf(s) = "exceeded"

\* Mutant of Unclosed: a reader that never ended is nothing to report.
UnclosedByResult == \E s \in Streams : Finished(s) /\ result[s] = "failed"

Unclosed == forced \/ \E s \in Streams : ResultOf(s) = "failed"

\* Mutant of Verdicts: the status is judged by what the poll loop knew.
VerdictsByPoll ==
  {c \in {"E2210", "E2211", "E2212 streams", "E2212 child", "E2213"} :
     \/ c = "E2210" /\ timedOut
     \/ c = "E2211" /\ Overrun
     \/ c = "E2212 streams" /\ Unclosed
     \/ c = "E2212 child" /\ status = "none"
     \/ c = "E2213" /\ status \notin {"none", "success"} /\ ~timedOut /\ ~exceeded}

Verdicts ==
  {c \in {"E2210", "E2211", "E2212 streams", "E2212 child", "E2213"} :
     \/ c = "E2210" /\ timedOut
     \/ c = "E2211" /\ Overrun
     \/ c = "E2212 streams" /\ Unclosed
     \/ c = "E2212 child" /\ status = "none"
     \/ c = "E2213" /\ status \notin {"none", "success"} /\ ~timedOut /\ ~Overrun}

\* The streams are decoded only when nothing else went wrong.
Judge(utf8) ==
  /\ main = "judge"
  /\ utf8 \/ \E s \in Streams : kept[s] > 0
  /\ main' = "done"
  /\ exceeded' = Overrun
  /\ issues' = IF Verdicts = {} /\ ~utf8 THEN {"E2214"} ELSE Verdicts
  /\ text' = IF issues' = {} THEN kept["out"] ELSE 0
  /\ warned' = (issues' = {} /\ kept["err"] > 0)
  /\ UNCHANGED <<procVars, pipe, written, readerVars, timedOut, forced, status, clock>>

-----------------------------------------------------------------------------
ProcStep(p) ==
  \/ \E s \in Streams : Write(p, s)
  \/ \E s \in Streams : WriteBroken(p, s)
  \/ \E how \in {"success", "failed"} : Exit(p, how)

KernelStep == GroupKill \/ \E p \in Procs : Killed(p)

ReaderWork(s) ==
  \/ \E n \in 1..ReadBuffer : Read(s, n)
  \/ ReadEnd(s)
  \/ Count(s)
  \/ SendLimit(s)
  \/ ThreadEnds(s)

ReaderStep(s) == ReaderWork(s) \/ ReadFails(s)

MainStep ==
  \/ PollLimit
  \/ PollExited
  \/ PollAlive
  \/ PollTimeout
  \/ PollAgain
  \/ WaitFails
  \/ Reap
  \/ StreamsWaited
  \/ StreamsWaitedAgain
  \/ \E utf8 \in BOOLEAN : Judge(utf8)

Next ==
  \/ \E p \in Procs : ProcStep(p)
  \/ \E S \in SUBSET Streams, inGroup \in BOOLEAN : Fork(S, inGroup)
  \/ KernelStep
  \/ TimeoutPasses
  \/ \E s \in Streams : ReaderStep(s)
  \/ MainStep

Spec == Init /\ [][Next]_vars

\* The scanning thread runs and time passes; nothing is assumed of the child,
\* of what it leaves behind, of /bin/kill or even of the reader threads.
MainIsFair == WF_vars(MainStep) /\ WF_vars(TimeoutPasses)

\* The reader threads run; no clock helps, and no read has to fail.
ReadersAreFair == \A s \in Streams : WF_vars(ReaderWork(s))

-----------------------------------------------------------------------------
(* Properties *)

ProcTypeOK ==
  /\ life \in [Procs -> Ends \cup {"absent", "alive"}]
  /\ holds \in [Procs -> SUBSET Streams]
  /\ grouped \subseteq Procs
  /\ doomed \subseteq Procs
  /\ groupKill \in BOOLEAN /\ unspawned \in BOOLEAN

StreamTypeOK ==
  /\ pipe \in [Streams -> 0..PipeSize]
  /\ written \in [Streams -> 0..MaxWrites]
  /\ got \in [Streams -> 0..ReadBuffer]
  /\ kept \in [Streams -> 0..Limit]
  /\ total \in Nat

ReaderTypeOK ==
  /\ reader \in [Streams -> {"read", "count", "send", "closed", "finished"}]
  /\ result \in [Streams -> {"ok", "exceeded", "failed"}]
  /\ limitSent \in BOOLEAN

MainTypeOK ==
  /\ main \in {"limit", "wait", "clock", "reap", "streams", "streams again", "judge",
               "done", "failed"}
  /\ clock \in {"running", "child alive", "child ended unseen", "child ended"}
  /\ timedOut \in BOOLEAN /\ exceeded \in BOOLEAN /\ forced \in BOOLEAN
  /\ status \in Ends \cup {"none"}
  /\ issues \subseteq {"E2210", "E2211", "E2212 streams", "E2212 child", "E2213", "E2214"}
  /\ text \in Nat
  /\ warned \in BOOLEAN

\* Every variable keeps its type; a pipe never holds less than nothing.
TypeOK == ProcTypeOK /\ StreamTypeOK /\ ReaderTypeOK /\ MainTypeOK

\* Text reaches the parser without an issue only when it is all that any
\* process ever wrote to stdout, nobody can still add to it, and the child
\* ended by itself with success.
TextIsWhole ==
  main = "done" /\ issues = {} =>
    /\ text = written["out"]
    /\ warned <=> written["err"] > 0
    /\ \A s \in Streams : Finished(s) /\ Writers(s) = {}
    /\ life["child"] = "success"

\* The two readers race for the same allowance and never keep more than it
\* between them, whoever counts first.
KeptWithinLimit == kept["out"] + kept["err"] <= Limit

\* An overrun is never missed and never invented: output_exceeded found by the
\* poll, by a reader that stopped after the poll loop ended, or by the count.
OverrunIsReported ==
  main = "done" =>
    /\ "E2211" \in issues => total > Limit
    /\ total > Limit /\ "E2212 streams" \notin issues => "E2211" \in issues

\* A child is blamed for its exit status only when it chose it: one that died
\* of our SIGKILL, or of the SIGPIPE of a reader that stopped at the limit, is
\* reported as the timeout or the overrun that it is.
BlamedForItself ==
  main = "done" /\ "E2213" \in issues /\ (\A s \in Streams : result[s] # "failed") =>
    life["child"] = "failed"

\* A child that ended before the timeout passed is never reported as timed out,
\* however late the poll comes to it, unless it ended in between the two looks of
\* one round of the poll, after try_wait and before the clock was read.
TimeoutIsReal == timedOut => clock \in {"child alive", "child ended unseen"}

\* Whatever goes wrong, a return that is not a failed wait leaves no child
\* behind that was not killed.
NoChildLeft == main = "done" => Ended("child") \/ "child" \in doomed

\* When a reader has to be detached, the rest of the group was sent a kill, so
\* far as the last attempt to do so did spawn /bin/kill.
GroupIsKilled ==
  main = "done" /\ ~BothFinished /\ ~unspawned =>
    \A p \in grouped : Alive(p) => p \in doomed \/ groupKill

\* The scan returns, though the child hangs, ignores its pipes or leaves a
\* process that holds them, and even when no reader thread ever runs again.
Returns == MainIsFair => <>(main \in {"done", "failed"})

\* No program blocks for good on one pipe while the other is read: a full pipe
\* is read from or closed by the readers alone, without any timeout.
PipesDrain ==
  ReadersAreFair =>
    \A s \in Streams : pipe[s] = PipeSize ~> pipe[s] < PipeSize \/ Closed(s)

=============================================================================
