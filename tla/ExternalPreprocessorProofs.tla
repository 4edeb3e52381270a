--------------------- MODULE ExternalPreprocessorProofs ---------------------
(***************************************************************************)
(* Proofs about ExternalPreprocessor, for every limit, buffer and pipe     *)
(* size and every fault the operating system may choose.                   *)
(***************************************************************************)
EXTENDS ExternalPreprocessor, TLAPS

\* The readers keep all they count until the limit, and nothing after it.
KeptInv == kept["out"] + kept["err"] = IF total < Limit THEN total ELSE Limit

\* Until the limit no byte is lost between a write and a vector.
FlowInv ==
  total <= Limit => \A s \in Streams : written[s] = kept[s] + got[s] + pipe[s]

\* The child holds both pipes as long as it lives.
HoldInv ==
  /\ life["child"] # "absent"
  /\ Alive("child") => holds["child"] = Streams
  /\ "child" \in grouped

\* What a reader's place and result say of its stream and of the count.
ReaderInv ==
  \A s \in Streams :
    /\ reader[s] = "count" <=> got[s] > 0
    /\ reader[s] # "count" => got[s] = 0
    /\ reader[s] = "send" => total > Limit
    /\ result[s] = "exceeded" => total > Limit /\ Closed(s)
    /\ result[s] = "failed" => Closed(s)
    /\ Closed(s) /\ result[s] = "ok" => pipe[s] = 0 /\ Writers(s) = {}

Polling == main \in {"limit", "wait", "clock"}

\* What the scanning thread knows is so.
MainInv ==
  /\ limitSent => total > Limit
  /\ exceeded => total > Limit
  /\ status # "none" => status = life["child"]
  /\ Polling => ~exceeded /\ ~timedOut
  /\ ~Polling /\ ~exceeded /\ ~timedOut /\ main \notin {"reap", "failed"}
       => status # "none"
  /\ main = "reap" => exceeded \/ timedOut
  /\ main \in {"streams again", "judge", "done"} => forced \/ BothFinished
  /\ main # "done" => issues = {} /\ text = 0 /\ ~warned

\* A child that is in no hurry to die was not killed by the scan.
DoomInv ==
  /\ Polling => ~groupKill /\ doomed = {}
  /\ "child" \in doomed \/ life["child"] = "killed" => exceeded \/ timedOut
  /\ groupKill /\ Alive("child") => "child" \in doomed
  /\ exceeded \/ timedOut => Ended("child") \/ "child" \in doomed
  /\ life["child"] = "sigpipe" =>
       total > Limit \/ \E s \in Streams : result[s] = "failed"

\* Once the readers were not waited for, nobody of the group escapes unless the
\* kill of it could not be spawned.
GroupInv ==
  forced =>
    /\ Ended("child") \/ "child" \in doomed
    /\ ~unspawned => \A p \in grouped : Alive(p) => p \in doomed \/ groupKill

\* The clock remembers how the child was.  A poll that has seen the child run
\* finds no clock that passed over an ended child, but for one that it missed.
ClockInv ==
  /\ timedOut => clock \in {"child alive", "child ended unseen"}
  /\ clock = "child ended" => Ended("child") /\ main # "clock"

\* What the report says once it is made, detached readers or not.
DoneInv ==
  main = "done" =>
    /\ "E2211" \in issues => total > Limit
    /\ "E2212 streams" \notin issues =>
         /\ BothFinished
         /\ \A s \in Streams : result[s] # "failed"
         /\ total > Limit => "E2211" \in issues
    /\ "E2213" \in issues =>
         life["child"] = "failed" \/ \E s \in Streams : result[s] = "failed"
    /\ issues = {} =>
         text = kept["out"] /\ (warned <=> kept["err"] > 0) /\ status = "success"

IInv ==
  /\ ProcTypeOK
  /\ StreamTypeOK
  /\ ReaderTypeOK
  /\ MainTypeOK
  /\ KeptInv
  /\ FlowInv
  /\ HoldInv
  /\ ReaderInv
  /\ MainInv
  /\ DoomInv
  /\ GroupInv
  /\ ClockInv
  /\ DoneInv

LEMMA StreamCases == Streams = {"out", "err"} /\ "out" \in Streams /\ "err" \in Streams
BY DEF Streams

\* Each part of the invariant speaks of some of the variables only.
LEMMA Frame ==
  /\ UNCHANGED <<life, holds, grouped, doomed, groupKill, unspawned>> =>
       (ProcTypeOK => ProcTypeOK') /\ (HoldInv => HoldInv')
  /\ UNCHANGED <<pipe, written, got, kept, total>> =>
       (StreamTypeOK => StreamTypeOK') /\ (FlowInv => FlowInv')
  /\ UNCHANGED <<kept, total>> => (KeptInv => KeptInv')
  /\ UNCHANGED <<reader, result, limitSent>> => (ReaderTypeOK => ReaderTypeOK')
  /\ UNCHANGED <<main, clock, timedOut, exceeded, forced, status, issues, text, warned>> =>
       (MainTypeOK => MainTypeOK')
  /\ UNCHANGED <<life, holds, reader, got, result, pipe, total>> =>
       (ReaderInv => ReaderInv')
  /\ UNCHANGED <<main, timedOut, exceeded, forced, status, issues, text, warned,
                 limitSent, total, reader, life>> =>
       (MainInv => MainInv')
  /\ UNCHANGED <<main, timedOut, exceeded, life, doomed, groupKill, total, result>> =>
       (DoomInv => DoomInv')
  /\ UNCHANGED <<main, issues, total, result, reader, life, text, kept, warned, status>> =>
       (DoneInv => DoneInv')
  /\ UNCHANGED <<timedOut, clock, life, main>> => (ClockInv => ClockInv')
  /\ UNCHANGED <<forced, grouped, doomed, groupKill, unspawned, life>> => (GroupInv => GroupInv')
<1>1. UNCHANGED <<life, holds, grouped, doomed, groupKill, unspawned>> =>
       (ProcTypeOK => ProcTypeOK') /\ (HoldInv => HoldInv')
  BY DEF ProcTypeOK, HoldInv, Alive
<1>2. UNCHANGED <<pipe, written, got, kept, total>> =>
       (StreamTypeOK => StreamTypeOK') /\ (FlowInv => FlowInv')
  BY DEF StreamTypeOK, FlowInv
<1>3. UNCHANGED <<kept, total>> => (KeptInv => KeptInv')
  BY DEF KeptInv
<1>4. UNCHANGED <<reader, result, limitSent>> => (ReaderTypeOK => ReaderTypeOK')
  BY DEF ReaderTypeOK
<1>5. UNCHANGED <<main, clock, timedOut, exceeded, forced, status, issues, text, warned>> =>
       (MainTypeOK => MainTypeOK')
  BY DEF MainTypeOK
<1>6. UNCHANGED <<life, holds, reader, got, result, pipe, total>> =>
       (ReaderInv => ReaderInv')
  BY DEF ReaderInv, Closed, Writers, Alive
<1>7. UNCHANGED <<main, timedOut, exceeded, forced, status, issues, text, warned,
                 limitSent, total, reader, life>> =>
       (MainInv => MainInv')
  <2> SUFFICES ASSUME UNCHANGED <<main, timedOut, exceeded, forced, status, issues, text,
                                  warned, limitSent, total, reader, life>>,
                      MainInv
               PROVE  MainInv'
    OBVIOUS
  <2>1. BothFinished' <=> BothFinished
    BY DEF BothFinished, Finished
  <2> QED BY <2>1 DEF MainInv, Polling
<1>8. UNCHANGED <<main, timedOut, exceeded, life, doomed, groupKill, total, result>> =>
       (DoomInv => DoomInv')
  BY DEF DoomInv, Alive, Ended, Polling
<1>9. UNCHANGED <<main, issues, total, result, reader, life, text, kept, warned, status>> =>
       (DoneInv => DoneInv')
  <2> SUFFICES ASSUME UNCHANGED <<main, issues, total, result, reader, life, text, kept,
                                  warned, status>>,
                      DoneInv
               PROVE  DoneInv'
    OBVIOUS
  <2>1. BothFinished' <=> BothFinished
    BY DEF BothFinished, Finished
  <2> QED BY <2>1 DEF DoneInv
<1>10. UNCHANGED <<timedOut, clock, life, main>> => (ClockInv => ClockInv')
  <2> SUFFICES ASSUME UNCHANGED <<timedOut, clock, life, main>>, ClockInv PROVE ClockInv'
    OBVIOUS
  <2>1. Ended("child")' <=> Ended("child")
    BY DEF Ended
  <2> QED BY <2>1 DEF ClockInv
<1>11. UNCHANGED <<forced, grouped, doomed, groupKill, unspawned, life>> => (GroupInv => GroupInv')
  BY DEF GroupInv, Ended, Alive
<1> QED BY <1>1, <1>2, <1>3, <1>4, <1>5, <1>6, <1>7, <1>8, <1>9, <1>10, <1>11

-----------------------------------------------------------------------------
(* Steps of the processes and of the system *)

LEMMA InitInv == Init => IInv
<1> SUFFICES ASSUME Init PROVE IInv
  OBVIOUS
<1> USE LimitsAssumption
<1>1. ProcTypeOK /\ HoldInv
  BY DEF Init, ProcTypeOK, HoldInv, Procs, Ends, Alive
<1>2. StreamTypeOK
  BY DEF Init, StreamTypeOK
<1>3. ReaderTypeOK /\ MainTypeOK
  BY DEF Init, ReaderTypeOK, MainTypeOK
<1>4. KeptInv /\ FlowInv
  BY StreamCases DEF Init, KeptInv, FlowInv
<1>5. ReaderInv
  BY DEF Init, ReaderInv, Closed
<1>6. MainInv /\ DoomInv /\ DoneInv /\ ClockInv /\ GroupInv
  BY DEF Init, MainInv, DoomInv, DoneInv, ClockInv, GroupInv, Procs, Alive, Polling
<1> QED BY <1>1, <1>2, <1>3, <1>4, <1>5, <1>6 DEF IInv

LEMMA WriteKeeps ==
  ASSUME IInv, NEW p \in Procs, NEW t \in Streams, Write(p, t)
  PROVE  IInv'
<1>1. /\ Alive(p) /\ t \in holds[p] /\ ~Closed(t)
      /\ pipe[t] < PipeSize /\ written[t] < MaxWrites
      /\ pipe' = [pipe EXCEPT ![t] = @ + 1]
      /\ written' = [written EXCEPT ![t] = @ + 1]
  BY DEF Write
<1>2. /\ UNCHANGED <<life, holds, grouped, doomed, groupKill, unspawned>>
      /\ UNCHANGED <<reader, got, kept, result, total, limitSent, clock>>
      /\ UNCHANGED <<main, timedOut, exceeded, forced, status, issues, text, warned>>
  BY DEF Write, procVars, readerVars, mainVars
<1>3. StreamTypeOK'
  BY <1>1, <1>2, LimitsAssumption DEF IInv, StreamTypeOK
<1>4. FlowInv'
  BY <1>1, <1>2 DEF IInv, FlowInv, StreamTypeOK
<1>5. ReaderInv'
  BY <1>1, <1>2 DEF IInv, ReaderInv, Closed, Writers, Alive, StreamTypeOK
<1> QED BY <1>2, <1>3, <1>4, <1>5, Frame DEF IInv

\* A death takes its pipes along; only the child's is told apart.
LEMMA DieKeeps ==
  ASSUME IInv, NEW p \in Procs, NEW how \in Ends, Alive(p), Die(p, how),
         how = "killed" => p \in doomed,
         how = "sigpipe" => \E s \in Streams : Closed(s) /\ s \in holds[p]
  PROVE  IInv'
<1>1. /\ life' = [life EXCEPT ![p] = how]
      /\ holds' = [holds EXCEPT ![p] = {}]
  BY DEF Die
<1>2. /\ UNCHANGED <<grouped, doomed, groupKill, unspawned, pipe, written>>
      /\ UNCHANGED <<reader, got, kept, result, total, limitSent, clock>>
      /\ UNCHANGED <<main, timedOut, exceeded, forced, status, issues, text, warned>>
  BY DEF Die, readerVars, mainVars
<1>3. /\ "child" \in Procs /\ life \in [Procs -> Ends \cup {"absent", "alive"}]
      /\ life[p] = "alive" /\ life'[p] = how /\ how # "alive" /\ how # "absent"
      /\ \A q \in Procs : q # p => life'[q] = life[q] /\ holds'[q] = holds[q]
      /\ holds'[p] = {}
  BY <1>1 DEF IInv, ProcTypeOK, Alive, Ends, Procs
<1>4. ProcTypeOK'
  BY <1>1, <1>2, <1>3 DEF IInv, ProcTypeOK
<1>5. ReaderInv'
  <2>1. \A s \in Streams : Writers(s)' \subseteq Writers(s)
    BY <1>3 DEF Writers, Alive
  <2> QED BY <1>2, <2>1 DEF IInv, ReaderInv, Closed
<1>6. HoldInv'
  BY <1>2, <1>3 DEF IInv, HoldInv, Alive
<1>7. MainInv'
  BY <1>2, <1>3 DEF IInv, MainInv, BothFinished, Finished, MainTypeOK, Ends, Polling
<1>8. DoomInv'
  <2>1. CASE p = "child"
    <3>1. how = "sigpipe" =>
            total > Limit \/ \E s \in Streams : result[s] = "failed"
      BY <1>3, <2>1 DEF IInv, ReaderInv, ReaderTypeOK, Writers, Closed, Alive
    <3> QED BY <1>2, <1>3, <2>1, <3>1 DEF IInv, DoomInv, Alive, Ended, Polling
  <2>2. CASE p # "child"
    BY <1>2, <1>3, <2>2 DEF IInv, DoomInv, Alive, Ended, Polling
  <2> QED BY <2>1, <2>2
<1>9. DoneInv'
  <2>1. life["child"] = "failed" => life'["child"] = "failed"
    BY <1>3
  <2>2. BothFinished' <=> BothFinished
    BY <1>2 DEF BothFinished, Finished
  <2> QED BY <1>2, <2>1, <2>2 DEF IInv, DoneInv
<1>10. ClockInv' /\ GroupInv'
  BY <1>2, <1>3 DEF IInv, ProcTypeOK, ClockInv, GroupInv, Alive, Ended
<1> QED BY <1>2, <1>4, <1>5, <1>6, <1>7, <1>8, <1>9, <1>10, Frame DEF IInv

LEMMA ForkKeeps ==
  ASSUME IInv, NEW S \in SUBSET Streams, NEW inGroup \in BOOLEAN, Fork(S, inGroup)
  PROVE  IInv'
<1>1. /\ Alive("child") /\ "child" \notin doomed /\ life["descendant"] = "absent"
      /\ life' = [life EXCEPT !["descendant"] = "alive"]
      /\ holds' = [holds EXCEPT !["descendant"] = S]
      /\ grouped' = IF inGroup THEN grouped \cup {"descendant"} ELSE grouped
  BY DEF Fork
<1>2. /\ UNCHANGED <<doomed, groupKill, unspawned, pipe, written>>
      /\ UNCHANGED <<reader, got, kept, result, total, limitSent, clock>>
      /\ UNCHANGED <<main, timedOut, exceeded, forced, status, issues, text, warned>>
  BY DEF Fork, readerVars, mainVars
<1>3. ProcTypeOK'
  BY <1>1, <1>2 DEF IInv, ProcTypeOK, Procs
<1>4. life'["child"] = life["child"] /\ holds'["child"] = holds["child"]
  BY <1>1 DEF IInv, ProcTypeOK
<1>5. ReaderInv'
  <2>1. \A s \in Streams : Writers(s) # {}
    BY <1>1 DEF IInv, HoldInv, Writers, Procs
  <2> QED BY <1>2, <2>1 DEF IInv, ReaderInv, ReaderTypeOK, Closed
<1>6. HoldInv'
  BY <1>1, <1>4 DEF IInv, HoldInv, Alive
<1>7. BothFinished' <=> BothFinished
  BY <1>2 DEF BothFinished, Finished
<1>8. MainInv'
  BY <1>2, <1>4, <1>7 DEF IInv, MainInv, Polling
<1>9. DoomInv' /\ ClockInv'
  BY <1>2, <1>4 DEF IInv, DoomInv, ClockInv, Alive, Ended, Polling
<1>10. DoneInv'
  BY <1>2, <1>4, <1>7 DEF IInv, DoneInv
<1>11. GroupInv'
  BY <1>1, <1>2 DEF IInv, GroupInv, Alive, Ended, Ends
<1> QED BY <1>2, <1>3, <1>5, <1>6, <1>8, <1>9, <1>10, <1>11, Frame DEF IInv

LEMMA SystemKeeps ==
  ASSUME IInv, GroupKill \/ TimeoutPasses
  PROVE  IInv'
<1>1. CASE GroupKill
  <2>1. /\ groupKill /\ groupKill' = FALSE
        /\ doomed' = doomed \cup {p \in grouped : Alive(p)}
        /\ UNCHANGED <<life, holds, grouped, unspawned, pipe, written, clock>>
        /\ UNCHANGED <<reader, got, kept, result, total, limitSent>>
        /\ UNCHANGED <<main, timedOut, exceeded, forced, status, issues, text, warned>>
    BY <1>1 DEF GroupKill, readerVars, mainVars
  <2>2. ProcTypeOK' /\ HoldInv'
    BY <2>1 DEF IInv, ProcTypeOK, HoldInv, Alive
  <2>3. DoomInv'
    BY <2>1 DEF IInv, DoomInv, HoldInv, Alive, Ended, Polling
  <2>4. GroupInv'
    BY <2>1 DEF IInv, GroupInv, Alive, Ended
  <2> QED BY <2>1, <2>2, <2>3, <2>4, Frame DEF IInv
<1>2. CASE TimeoutPasses
  <2>1. /\ clock = "running"
        /\ clock' = IF Alive("child") THEN "child alive"
                    ELSE IF main = "clock" THEN "child ended unseen" ELSE "child ended"
        /\ UNCHANGED <<life, holds, grouped, doomed, groupKill, unspawned, pipe, written>>
        /\ UNCHANGED <<reader, got, kept, result, total, limitSent>>
        /\ UNCHANGED <<main, timedOut, exceeded, forced, status, issues, text, warned>>
    BY <1>2 DEF TimeoutPasses, procVars, readerVars, mainVars
  <2>2. MainTypeOK'
    BY <2>1 DEF IInv, MainTypeOK
  <2>3. ClockInv'
    BY <2>1 DEF IInv, ClockInv, HoldInv, ProcTypeOK, Procs, Alive, Ended
  <2> QED BY <2>1, <2>2, <2>3, Frame DEF IInv
<1> QED BY <1>1, <1>2

-----------------------------------------------------------------------------
(* Steps of the readers *)

\* A step of a reader that has not finished leaves what the scanning thread
\* knows: it had not counted on this reader.
LEMMA OpenReader ==
  ASSUME IInv, NEW s \in Streams, ~Finished(s),
         UNCHANGED <<life, holds, grouped, doomed, groupKill, unspawned>>,
         UNCHANGED <<main, timedOut, exceeded, forced, status, issues, text, warned, clock>>,
         total' \in Nat, total' >= total,
         limitSent' => total' > Limit,
         \A q \in Streams : result[q] = "failed" => result'[q] = "failed"
  PROVE  MainInv' /\ DoomInv' /\ DoneInv' /\ ClockInv' /\ GroupInv'
<1>1. ~BothFinished
  BY DEF BothFinished
<1>2. total > Limit => total' > Limit
  BY LimitsAssumption DEF IInv, StreamTypeOK
<1>3. MainInv'
  BY <1>1, <1>2 DEF IInv, MainInv, Polling
<1>4. DoomInv'
  BY <1>2 DEF IInv, DoomInv, Alive, Ended, Polling
<1>5. DoneInv'
  <2>1. main = "done" => "E2212 streams" \in issues
    BY <1>1 DEF IInv, DoneInv
  <2>2. issues' # {} \/ main' # "done"
    BY <2>1
  <2> QED BY <1>2, <2>1, <2>2 DEF IInv, DoneInv
<1> QED BY <1>3, <1>4, <1>5, Frame DEF IInv

LEMMA ReadKeeps ==
  ASSUME IInv, NEW s \in Streams, NEW n \in 1..ReadBuffer, Read(s, n)
  PROVE  IInv'
<1>1. /\ reader[s] = "read" /\ n <= pipe[s]
      /\ pipe' = [pipe EXCEPT ![s] = @ - n]
      /\ got' = [got EXCEPT ![s] = n]
      /\ reader' = [reader EXCEPT ![s] = "count"]
  BY DEF Read
<1>2. /\ UNCHANGED <<life, holds, grouped, doomed, groupKill, unspawned>>
      /\ UNCHANGED <<written, kept, result, total, limitSent, clock>>
      /\ UNCHANGED <<main, timedOut, exceeded, forced, status, issues, text, warned>>
  BY DEF Read, procVars, mainVars
<1>3. StreamTypeOK'
  BY <1>1, <1>2, LimitsAssumption DEF IInv, StreamTypeOK
<1>4. ReaderTypeOK'
  BY <1>1, <1>2 DEF IInv, ReaderTypeOK
<1>5. FlowInv'
  BY <1>1, <1>2 DEF IInv, FlowInv, ReaderInv, StreamTypeOK
<1>6. ReaderInv'
  BY <1>1, <1>2, LimitsAssumption
     DEF IInv, ReaderInv, ReaderTypeOK, StreamTypeOK, Closed, Writers, Alive
<1>7. ~Finished(s) /\ total' \in Nat /\ total' >= total /\ (limitSent' => total' > Limit)
  <2>1. total' \in Nat /\ total' >= total
    BY <1>2 DEF IInv, StreamTypeOK
  <2>2. limitSent' => total' > Limit
    BY <1>2 DEF IInv, MainInv, Polling
  <2> QED BY <1>1, <2>1, <2>2 DEF Finished
<1>8. MainInv' /\ DoomInv' /\ DoneInv' /\ ClockInv' /\ GroupInv'
  BY <1>2, <1>7, OpenReader
<1> QED BY <1>2, <1>3, <1>4, <1>5, <1>6, <1>8, Frame DEF IInv

\* What a reader keeps of its bytes is what the limit leaves of them.
LEMMA CountKeeps ==
  ASSUME IInv, NEW s \in Streams, Count(s)
  PROVE  IInv'
<1> DEFINE r == Least(got[s], Remaining(total))
<1>1. /\ reader[s] = "count"
      /\ total' = total + got[s]
      /\ kept' = [kept EXCEPT ![s] = @ + r]
      /\ reader' = [reader EXCEPT ![s] =
                       IF r < got[s] \/ total >= Limit THEN "send" ELSE "read"]
      /\ got' = [got EXCEPT ![s] = 0]
  BY DEF Count
<1>2. /\ UNCHANGED <<life, holds, grouped, doomed, groupKill, unspawned>>
      /\ UNCHANGED <<pipe, written, result, limitSent, clock>>
      /\ UNCHANGED <<main, timedOut, exceeded, forced, status, issues, text, warned>>
  BY DEF Count, procVars, mainVars
<1>3. /\ got[s] \in Nat /\ got[s] > 0 /\ total \in Nat /\ Limit \in Nat
      /\ kept \in [Streams -> 0..Limit]
  BY <1>1, LimitsAssumption DEF IInv, ReaderInv, StreamTypeOK
<1>4. /\ r \in Nat /\ r <= got[s]
      /\ total <= Limit /\ total + got[s] <= Limit => r = got[s]
      /\ total <= Limit /\ total + got[s] > Limit => r = Limit - total
      /\ total > Limit => r = 0
  BY <1>3 DEF Least, Remaining
<1> HIDE DEF r
<1>5. kept'["out"] + kept'["err"] = kept["out"] + kept["err"] + r
  BY <1>1, <1>3, <1>4, StreamCases
<1>6. KeptInv'
  BY <1>1, <1>3, <1>4, <1>5 DEF IInv, KeptInv
<1>7. kept' \in [Streams -> 0..Limit]
  <2>1. \A q \in Streams : kept'[q] \in Nat
    BY <1>1, <1>3, <1>4
  <2>2. kept'["out"] + kept'["err"] <= Limit
    BY <1>1, <1>3, <1>6 DEF KeptInv
  <2>3. \A q \in Streams : kept'[q] \in 0..Limit
    BY <1>3, <2>1, <2>2, StreamCases
  <2> QED BY <1>1, <1>3, <2>3
<1>8. StreamTypeOK'
  BY <1>1, <1>2, <1>3, <1>7, LimitsAssumption DEF IInv, StreamTypeOK
<1>9. ReaderTypeOK'
  BY <1>1, <1>2 DEF IInv, ReaderTypeOK
<1>10. FlowInv'
  <2> SUFFICES ASSUME total' <= Limit, NEW q \in Streams
               PROVE  written'[q] = kept'[q] + got'[q] + pipe'[q]
    BY DEF FlowInv
  <2>1. total <= Limit /\ r = got[s]
    BY <1>1, <1>3, <1>4
  <2>2. written[q] = kept[q] + got[q] + pipe[q]
    BY <2>1 DEF IInv, FlowInv
  <2> QED BY <1>1, <1>2, <1>3, <2>1, <2>2 DEF IInv, StreamTypeOK
<1>11. total' \in Nat /\ total' >= total /\ (total > Limit => total' > Limit)
  BY <1>1, <1>3
<1>12. ReaderInv'
  <2>1. reader'[s] \in {"send", "read"} /\ got'[s] = 0
    BY <1>1, <1>3 DEF IInv, ReaderTypeOK, StreamTypeOK
  <2>2. reader'[s] = "send" => total' > Limit
    BY <1>1, <1>3, <1>4 DEF IInv, ReaderTypeOK
  <2>3. result[s] = "ok"
    BY <1>1 DEF IInv, ReaderInv, ReaderTypeOK, Closed
  <2>4. \A q \in Streams : q # s => reader'[q] = reader[q] /\ got'[q] = got[q]
    BY <1>1 DEF IInv, ReaderTypeOK, StreamTypeOK
  <2>5. \A q \in Streams : Writers(q)' = Writers(q)
    BY <1>2 DEF Writers, Alive
  <2> QED BY <1>2, <1>11, <2>1, <2>2, <2>3, <2>4, <2>5 DEF IInv, ReaderInv, Closed
<1>13. MainInv' /\ DoomInv' /\ DoneInv' /\ ClockInv' /\ GroupInv'
  BY <1>1, <1>2, <1>11, OpenReader DEF IInv, MainInv, Finished, Polling
<1> QED BY <1>2, <1>6, <1>8, <1>9, <1>10, <1>12, <1>13, Frame DEF IInv

LEMMA EndKeeps ==
  ASSUME IInv, NEW s \in Streams,
         ReadEnd(s) \/ ReadFails(s) \/ SendLimit(s) \/ ThreadEnds(s)
  PROVE  IInv'
<1>1. /\ UNCHANGED <<life, holds, grouped, doomed, groupKill, unspawned>>
      /\ UNCHANGED <<pipe, written, got, kept, total, clock>>
      /\ UNCHANGED <<main, timedOut, exceeded, forced, status, issues, text, warned>>
      /\ \A q \in Streams : Writers(q)' = Writers(q)
  BY DEF ReadEnd, ReadFails, SendLimit, ThreadEnds, procVars, mainVars, Writers, Alive
<1>2. reader[s] \in {"read", "send", "closed"} /\ ~Finished(s)
  BY DEF ReadEnd, ReadFails, SendLimit, ThreadEnds, Finished
<1>3. /\ reader' \in {[reader EXCEPT ![s] = "closed"], [reader EXCEPT ![s] = "finished"]}
      /\ \/ result' = result
         \/ /\ result' = [result EXCEPT ![s] = "failed"]
            /\ reader[s] = "read"
         \/ /\ result' = [result EXCEPT ![s] = "exceeded"]
            /\ reader[s] = "send"
      /\ limitSent' => limitSent \/ reader[s] = "send"
  BY DEF ReadEnd, ReadFails, SendLimit, ThreadEnds
<1>4. ReaderTypeOK'
  <2>1. limitSent' \in BOOLEAN
    BY DEF IInv, ReaderTypeOK, ReadEnd, ReadFails, SendLimit, ThreadEnds
  <2> QED BY <1>3, <2>1 DEF IInv, ReaderTypeOK
<1>5. reader[s] = "send" => total > Limit
  BY DEF IInv, ReaderInv
<1>6. \A q \in Streams : result[q] = "failed" => result'[q] = "failed"
  BY <1>3, <1>5 DEF IInv, ReaderInv, ReaderTypeOK, Closed
<1>7. ReaderInv'
  <2>1. \A q \in Streams : q # s => reader'[q] = reader[q] /\ result'[q] = result[q]
    BY <1>3 DEF IInv, ReaderTypeOK
  <2>2. Closed(s)' /\ reader'[s] # "count" /\ reader'[s] # "send"
    BY <1>3 DEF IInv, ReaderTypeOK, Closed
  <2>3. result'[s] = "exceeded" => total > Limit
    BY <1>3, <1>5 DEF IInv, ReaderInv, ReaderTypeOK
  <2>4. result'[s] = "ok" => pipe[s] = 0 /\ Writers(s) = {}
    BY <1>2 DEF IInv, ReaderInv, ReaderTypeOK, Closed, ReadEnd, ReadFails, SendLimit,
                ThreadEnds
  <2>5. got[s] = 0
    BY <1>2 DEF IInv, ReaderInv
  <2> QED BY <1>1, <2>1, <2>2, <2>3, <2>4, <2>5 DEF IInv, ReaderInv, Closed
<1>8. total' \in Nat /\ total' >= total /\ (limitSent' => total' > Limit)
  <2>1. total' \in Nat /\ total' >= total
    BY <1>1 DEF IInv, StreamTypeOK
  <2>2. limitSent' => total' > Limit
    BY <1>1, <1>3, <1>5 DEF IInv, MainInv, Polling
  <2> QED BY <2>1, <2>2
<1>9. MainInv' /\ DoomInv' /\ DoneInv' /\ ClockInv' /\ GroupInv'
  BY <1>1, <1>2, <1>6, <1>8, OpenReader
<1> QED BY <1>1, <1>4, <1>7, <1>9, Frame DEF IInv

-----------------------------------------------------------------------------
(* Steps of the scanning thread *)

\* terminate_external_group leaves no child that is neither dead nor doomed.
LEMMA Terminates ==
  ASSUME IInv, Terminate
  PROVE  /\ UNCHANGED <<life, holds, grouped>>
         /\ groupKill' \in {groupKill, TRUE}
         /\ ~unspawned' => groupKill' = TRUE
         /\ ProcTypeOK' /\ HoldInv'
         /\ doomed \subseteq doomed' /\ doomed' \subseteq doomed \cup {"child"}
         /\ "child" \in doomed' \ doomed => Alive("child")
         /\ Ended("child") \/ "child" \in doomed'
         /\ Alive("child") => "child" \in doomed'
<1>1. /\ \/ groupKill' = TRUE /\ unspawned' = FALSE
         \/ unspawned' = TRUE /\ groupKill' = groupKill
      /\ doomed' = IF Alive("child") THEN doomed \cup {"child"} ELSE doomed
      /\ UNCHANGED <<life, holds, grouped>>
  BY DEF Terminate
<1>2. "child" \in Procs
  BY DEF Procs
<1>3. ProcTypeOK' /\ HoldInv'
  BY <1>1, <1>2 DEF IInv, ProcTypeOK, HoldInv, Alive
<1>4. Ended("child") \/ Alive("child")
  BY <1>2 DEF IInv, ProcTypeOK, HoldInv, Ended, Alive
<1> QED BY <1>1, <1>3, <1>4

LEMMA PollLimitKeeps == ASSUME IInv, PollLimit PROVE IInv'
<1>1. /\ main = "limit"
      /\ UNCHANGED <<pipe, written, reader, got, kept, result, total, clock>>
      /\ UNCHANGED <<timedOut, forced, status, issues, text, warned>>
  BY DEF PollLimit
<1>2. CASE limitSent
  <2>1. limitSent' = FALSE /\ exceeded' = TRUE /\ main' = "reap" /\ Terminate
    BY <1>2 DEF PollLimit
  <2>2. ReaderTypeOK' /\ MainTypeOK'
    BY <1>1, <2>1 DEF IInv, ReaderTypeOK, MainTypeOK
  <2>3. MainInv'
    BY <1>1, <1>2, <2>1, Terminates DEF IInv, MainInv, Polling
  <2>6. ClockInv'
    BY <1>1, <2>1, Terminates DEF IInv, ClockInv, Ended
  <2>4. DoomInv' /\ GroupInv'
    BY <1>1, <2>1, Terminates DEF IInv, DoomInv, GroupInv, Alive, Ended, Polling
  <2>5. DoneInv'
    BY <2>1 DEF DoneInv
  <2> QED BY <1>1, <2>1, <2>2, <2>3, <2>4, <2>5, <2>6, Terminates, Frame DEF IInv
<1>3. CASE ~limitSent
  <2>1. main' = "wait" /\ UNCHANGED <<life, holds, grouped, doomed, groupKill, unspawned>>
        /\ UNCHANGED <<limitSent, exceeded>>
    BY <1>3 DEF PollLimit, procVars
  <2>2. MainTypeOK' /\ DoneInv'
    BY <1>1, <2>1 DEF IInv, MainTypeOK, DoneInv
  <2>3. MainInv'
    BY <1>1, <2>1 DEF IInv, MainInv, Polling
  <2>4. DoomInv'
    BY <1>1, <2>1 DEF IInv, DoomInv, Alive, Ended, Polling
  <2>5. ClockInv'
    BY <1>1, <2>1 DEF IInv, ClockInv, Ended
  <2> QED BY <1>1, <2>1, <2>2, <2>3, <2>4, <2>5, Frame DEF IInv
<1> QED BY <1>2, <1>3

LEMMA PollTimeoutKeeps == ASSUME IInv, PollTimeout PROVE IInv'
<1>1. /\ main = "clock" /\ clock # "running"
      /\ timedOut' = TRUE /\ main' = "reap" /\ Terminate
      /\ UNCHANGED <<pipe, written, reader, got, kept, result, total, limitSent, clock>>
      /\ UNCHANGED <<exceeded, forced, status, issues, text, warned>>
  BY DEF PollTimeout, readerVars
<1>2. MainTypeOK' /\ DoneInv'
  BY <1>1 DEF IInv, MainTypeOK, DoneInv
<1>3. MainInv'
  BY <1>1, Terminates DEF IInv, MainInv, Polling
<1>4. DoomInv' /\ GroupInv'
  BY <1>1, Terminates DEF IInv, DoomInv, GroupInv, Alive, Ended, Polling
<1>5. ClockInv'
  BY <1>1 DEF IInv, ClockInv, MainTypeOK, Ended
<1> QED BY <1>1, <1>2, <1>3, <1>4, <1>5, Terminates, Frame DEF IInv

LEMMA PollKeeps == ASSUME IInv, PollExited \/ PollAlive \/ PollAgain \/ WaitFails \/ Reap PROVE IInv'
<1>1. /\ UNCHANGED <<life, holds, grouped, doomed, groupKill, unspawned>>
      /\ UNCHANGED <<pipe, written, reader, got, kept, result, total, limitSent, clock>>
      /\ UNCHANGED <<timedOut, exceeded, forced, issues, text, warned>>
  BY DEF PollExited, PollAlive, PollAgain, WaitFails, Reap, procVars, readerVars
<1>2. /\ main \in {"wait", "clock", "reap"}
      /\ main' \in {"streams", "clock", "limit", "failed"}
      /\ main' \in {"clock", "limit"} => Polling
      /\ main' = "clock" => ~Ended("child")
  BY DEF PollExited, PollAlive, PollAgain, WaitFails, Reap, Polling
<1>3. /\ main' = "streams" => \/ (Ended("child") /\ status' = life["child"])
                             \/ (main = "reap" /\ status' = "none")
      /\ main' # "streams" => status' = status
  BY DEF PollExited, PollAlive, PollAgain, WaitFails, Reap
<1>4. MainTypeOK' /\ DoneInv'
  BY <1>1, <1>2, <1>3 DEF IInv, MainTypeOK, DoneInv, Ended
<1>5. MainInv'
  BY <1>1, <1>2, <1>3 DEF IInv, MainInv, Ended, Ends, Polling
<1>6. DoomInv'
  BY <1>1, <1>2 DEF IInv, DoomInv, Alive, Ended, Polling
<1>7. ClockInv'
  BY <1>1, <1>2 DEF IInv, ClockInv, Ended
<1> QED BY <1>1, <1>4, <1>5, <1>6, <1>7, Frame DEF IInv

LEMMA StreamsKeep == ASSUME IInv, StreamsWaited \/ StreamsWaitedAgain PROVE IInv'
<1>1. /\ main \in {"streams", "streams again"}
      /\ main' \in {"streams again", "judge"}
      /\ UNCHANGED <<pipe, written, reader, got, kept, result, total, limitSent, clock>>
      /\ UNCHANGED <<timedOut, exceeded, status, issues, text, warned>>
  BY DEF StreamsWaited, StreamsWaitedAgain, readerVars
<1>2. BothFinished' <=> BothFinished
  BY <1>1 DEF BothFinished, Finished
<1>3. DoneInv'
  BY <1>1 DEF DoneInv
<1>4. ClockInv'
  <2>1. UNCHANGED life
    BY Terminates DEF StreamsWaited, StreamsWaitedAgain, procVars
  <2> QED BY <1>1, <2>1 DEF IInv, ClockInv, Ended
<1>5. CASE UNCHANGED <<life, holds, grouped, doomed, groupKill, unspawned, forced>>
           /\ (BothFinished \/ main = "streams again")
  <2>1. MainTypeOK'
    BY <1>1, <1>5 DEF IInv, MainTypeOK
  <2>2. MainInv'
    BY <1>1, <1>2, <1>5 DEF IInv, MainInv, Polling
  <2>3. DoomInv'
    BY <1>1, <1>5 DEF IInv, DoomInv, Alive, Ended, Polling
  <2> QED BY <1>1, <1>3, <1>4, <1>5, <2>1, <2>2, <2>3, Frame DEF IInv
<1>6. CASE forced' = TRUE /\ Terminate /\ main = "streams"
  <2>1. MainTypeOK'
    BY <1>1, <1>6 DEF IInv, MainTypeOK
  <2>2. MainInv'
    BY <1>1, <1>6, Terminates DEF IInv, MainInv, Polling
  <2>3. Alive("child") => exceeded \/ timedOut
    BY <1>6 DEF IInv, MainInv, MainTypeOK, Alive, Ends, Polling
  <2>4. DoomInv'
    BY <1>1, <1>6, <2>3, Terminates DEF IInv, DoomInv, Alive, Ended, Polling
  <2>5. GroupInv'
    BY <1>6, Terminates DEF GroupInv, Alive, Ended
  <2> QED BY <1>1, <1>3, <1>4, <1>6, <2>1, <2>2, <2>4, <2>5, Terminates, Frame DEF IInv
<1> QED BY <1>5, <1>6 DEF StreamsWaited, StreamsWaitedAgain, procVars

\* The report: what it blames is so, and what it does not blame is well.
LEMMA JudgeKeeps == ASSUME IInv, NEW utf8 \in BOOLEAN, Judge(utf8) PROVE IInv'
<1>1. /\ main = "judge" /\ main' = "done"
      /\ exceeded' = Overrun
      /\ issues' = IF Verdicts = {} /\ ~utf8 THEN {"E2214"} ELSE Verdicts
      /\ text' = IF issues' = {} THEN kept["out"] ELSE 0
      /\ warned' = (issues' = {} /\ kept["err"] > 0)
  BY DEF Judge
<1>2. /\ UNCHANGED <<life, holds, grouped, doomed, groupKill, unspawned>>
      /\ UNCHANGED <<pipe, written, reader, got, kept, result, total, limitSent, clock>>
      /\ UNCHANGED <<timedOut, forced, status>>
  BY DEF Judge, procVars, readerVars
<1>3. BothFinished' <=> BothFinished
  BY <1>2 DEF BothFinished, Finished
<1>4. /\ Verdicts \subseteq {"E2210", "E2211", "E2212 streams", "E2212 child", "E2213"}
      /\ "E2210" \in Verdicts <=> timedOut
      /\ "E2211" \in Verdicts <=> Overrun
      /\ "E2212 streams" \in Verdicts <=> Unclosed
      /\ "E2212 child" \in Verdicts <=> status = "none"
      /\ "E2213" \in Verdicts <=> status \notin {"none", "success"} /\ ~timedOut /\ ~Overrun
  BY DEF Verdicts
<1>5. /\ \A c : c # "E2214" => (c \in issues' <=> c \in Verdicts)
      /\ issues' = {} => Verdicts = {}
      /\ issues' \subseteq Verdicts \cup {"E2214"}
  BY <1>1, <1>4
<1>6. Overrun <=> total > Limit
  <2>1. \A s \in Streams : ResultOf(s) = "exceeded" => total > Limit
    BY DEF ResultOf, IInv, ReaderInv
  <2> QED BY <2>1 DEF Overrun, IInv, MainInv, Polling
<1>7. exceeded => Overrun
  BY DEF Overrun
<1>8. ~Unclosed => BothFinished /\ \A s \in Streams : result[s] # "failed"
  BY <1>1 DEF Unclosed, ResultOf, IInv, MainInv, Polling
<1>9. exceeded' \in BOOLEAN /\ (exceeded' <=> Overrun)
  BY <1>1 DEF Overrun
<1>10. MainTypeOK'
  <2>1. text' \in Nat
    BY <1>1, StreamCases, LimitsAssumption DEF IInv, StreamTypeOK
  <2>2. warned' \in BOOLEAN
    BY <1>1
  <2> QED BY <1>1, <1>2, <1>4, <1>5, <1>9, <2>1, <2>2 DEF IInv, MainTypeOK
<1>11. MainInv'
  BY <1>1, <1>2, <1>3, <1>6, <1>7, <1>9 DEF IInv, MainInv, Polling
<1>12. DoomInv'
  <2>1. Ended("child") \/ "child" \in doomed
    BY <1>1 DEF IInv, MainInv, DoomInv, MainTypeOK, Ended, Polling
  <2> QED BY <1>1, <1>2, <1>7, <1>9, <2>1 DEF IInv, DoomInv, Alive, Ended, Polling
<1>13. DoneInv'
  <2>1. "E2211" \in issues' <=> total > Limit
    BY <1>4, <1>5, <1>6
  <2>2. "E2212 streams" \notin issues' =>
          BothFinished /\ \A s \in Streams : result[s] # "failed"
    BY <1>4, <1>5, <1>8
  <2>3. "E2213" \in issues' =>
          life["child"] = "failed" \/ \E s \in Streams : result[s] = "failed"
    <3>1. "E2213" \in issues' =>
            status \notin {"none", "success"} /\ ~timedOut /\ ~Overrun
      BY <1>4, <1>5
    <3>2. status \notin {"none", "success"} => life["child"] \in {"failed", "sigpipe", "killed"}
      BY DEF IInv, MainInv, MainTypeOK, Ends, Polling
    <3>3. life["child"] = "killed" => exceeded \/ timedOut
      BY DEF IInv, DoomInv, Polling
    <3>4. life["child"] = "sigpipe" =>
            total > Limit \/ \E s \in Streams : result[s] = "failed"
      BY DEF IInv, DoomInv, Polling
    <3> QED BY <1>6, <1>7, <3>1, <3>2, <3>3, <3>4
  <2>4. issues' = {} =>
          text' = kept["out"] /\ (warned' <=> kept["err"] > 0) /\ status = "success"
    BY <1>1, <1>4, <1>5
  <2> QED BY <1>2, <1>3, <2>1, <2>2, <2>3, <2>4 DEF DoneInv
<1>14. ClockInv'
  BY <1>1, <1>2 DEF IInv, ClockInv, Ended
<1> QED BY <1>2, <1>10, <1>11, <1>12, <1>13, <1>14, Frame DEF IInv

-----------------------------------------------------------------------------
(* The invariant and what follows from it *)

LEMMA ProcKeeps == ASSUME IInv, NEW p \in Procs, ProcStep(p) PROVE IInv'
<1>1. ASSUME NEW t \in Streams, Write(p, t) PROVE IInv'
  BY <1>1, WriteKeeps
<1>2. ASSUME NEW t \in Streams, WriteBroken(p, t) PROVE IInv'
  BY <1>2, DieKeeps DEF WriteBroken, Ends
<1>3. ASSUME NEW how \in {"success", "failed"}, Exit(p, how) PROVE IInv'
  BY <1>3, DieKeeps DEF Exit, Ends
<1> QED BY <1>1, <1>2, <1>3 DEF ProcStep

LEMMA StepInv == IInv /\ [Next]_vars => IInv'
<1> SUFFICES ASSUME IInv, [Next]_vars PROVE IInv'
  OBVIOUS
<1>1. ASSUME NEW p \in Procs, ProcStep(p) PROVE IInv'
  BY <1>1, ProcKeeps
<1>2. ASSUME NEW S \in SUBSET Streams, NEW inGroup \in BOOLEAN, Fork(S, inGroup) PROVE IInv'
  BY <1>2, ForkKeeps
<1>3. CASE KernelStep
  <2>1. ASSUME NEW p \in Procs, Killed(p) PROVE IInv'
    BY <2>1, DieKeeps DEF Killed, Ends
  <2> QED BY <1>3, <2>1, SystemKeeps DEF KernelStep
<1>4. CASE TimeoutPasses
  BY <1>4, SystemKeeps
<1>5. ASSUME NEW s \in Streams, ReaderStep(s) PROVE IInv'
  BY <1>5, ReadKeeps, CountKeeps, EndKeeps DEF ReaderStep, ReaderWork
<1>6. CASE MainStep
  BY <1>6, PollLimitKeeps, PollTimeoutKeeps, PollKeeps, StreamsKeep, JudgeKeeps DEF MainStep
<1>7. CASE UNCHANGED vars
  BY <1>7, Frame DEF vars, procVars, readerVars, mainVars, IInv
<1> QED BY <1>1, <1>2, <1>3, <1>4, <1>5, <1>6, <1>7 DEF Next

LEMMA Invariance == Spec => []IInv
BY InitInv, StepInv, PTL DEF Spec

\* Every variable keeps its type, whatever the processes and the system do.
THEOREM TypeCorrect == Spec => []TypeOK
<1>1. IInv => TypeOK
  BY DEF IInv, TypeOK
<1> QED BY <1>1, Invariance, PTL

\* The two reader threads never keep more than the limit between them.
THEOREM WithinLimit == Spec => []KeptWithinLimit
<1>1. IInv => KeptWithinLimit
  BY LimitsAssumption DEF IInv, KeptInv, StreamTypeOK, KeptWithinLimit
<1> QED BY <1>1, Invariance, PTL

\* Text reported without an issue is the whole of a successful child's stdout.
THEOREM WholeText == Spec => []TextIsWhole
<1>1. IInv => TextIsWhole
  <2> SUFFICES ASSUME IInv, main = "done", issues = {}
               PROVE  /\ text = written["out"]
                      /\ warned <=> written["err"] > 0
                      /\ \A s \in Streams : Finished(s) /\ Writers(s) = {}
                      /\ life["child"] = "success"
    BY DEF TextIsWhole
  <2>1. /\ BothFinished /\ \A s \in Streams : result[s] # "failed"
        /\ ~(total > Limit)
        /\ text = kept["out"] /\ (warned <=> kept["err"] > 0) /\ status = "success"
    BY DEF IInv, DoneInv
  <2>2. \A s \in Streams : result[s] = "ok" /\ Finished(s) /\ Closed(s)
    BY <2>1 DEF IInv, ReaderInv, ReaderTypeOK, BothFinished, Finished, Closed
  <2>3. \A s \in Streams : pipe[s] = 0 /\ Writers(s) = {} /\ got[s] = 0
    BY <2>2 DEF IInv, ReaderInv, Finished
  <2>4. total <= Limit
    BY <2>1, LimitsAssumption DEF IInv, StreamTypeOK
  <2>5. \A s \in Streams : written[s] = kept[s]
    BY <2>3, <2>4, LimitsAssumption DEF IInv, FlowInv, StreamTypeOK
  <2>6. life["child"] = "success"
    BY <2>1 DEF IInv, MainInv, Polling
  <2> QED BY <2>1, <2>2, <2>3, <2>5, <2>6, StreamCases
<1> QED BY <1>1, Invariance, PTL

\* An overrun of the limit is reported, and only an overrun is.
THEOREM OverrunReported == Spec => []OverrunIsReported
<1>1. IInv => OverrunIsReported
  BY DEF IInv, DoneInv, OverrunIsReported
<1> QED BY <1>1, Invariance, PTL

\* A child is blamed for its status only when it chose it.
THEOREM BlameIsFair == Spec => []BlamedForItself
<1>1. IInv => BlamedForItself
  BY DEF IInv, DoneInv, BlamedForItself
<1> QED BY <1>1, Invariance, PTL

\* A timeout is reported only of a child that was alive when it passed, or that
\* ended after the same round of the poll had seen it alive.
THEOREM TimeoutReal == Spec => []TimeoutIsReal
<1>1. IInv => TimeoutIsReal
  BY DEF IInv, ClockInv, TimeoutIsReal
<1> QED BY <1>1, Invariance, PTL

\* A scan that returns leaves no child behind that was not killed.
THEOREM ChildEnds == Spec => []NoChildLeft
<1>1. IInv => NoChildLeft
  BY DEF IInv, MainInv, DoomInv, MainTypeOK, Ended, NoChildLeft, Polling
<1> QED BY <1>1, Invariance, PTL

\* A detached reader means that the rest of the group was sent a kill, unless the
\* last attempt to spawn it failed.
THEOREM GroupEnds == Spec => []GroupIsKilled
<1>1. IInv => GroupIsKilled
  BY DEF IInv, MainInv, GroupInv, GroupIsKilled, Polling
<1> QED BY <1>1, Invariance, PTL

=============================================================================
