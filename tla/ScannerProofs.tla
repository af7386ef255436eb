---------------------------- MODULE ScannerProofs ----------------------------
(***************************************************************************)
(* Safety of the scanner, its follow-ups and the recorder they share, for  *)
(* any number of cycles, sizes, buckets and signals, any backlog, either   *)
(* storage mode and whatever breaks.                                       *)
(*                                                                         *)
(* OneWriterPerFile is not a property of the recorder: its lock is given   *)
(* back by a cancelled call whose thread goes on (an orphan).  It holds    *)
(* because of who cancels whom: the scanner's own thread is orphaned only  *)
(* when the scanner is over, and a follow-up's only when no follow-up is   *)
(* left and none can come, so that nobody writes to the orphan's file any  *)
(* more (OrphanOK).   The first part of the module says what each operator *)
(* of the recorder does to calls, threads and orphans; the second, action  *)
(* by action, who may be calling at that moment.                           *)
(*                                                                         *)
(* The later parts rest on that invariant.  "The counters" compares        *)
(* ScanStats with the statuses of the follow-ups, "The verdicts" the       *)
(* verdict of a follow-up with its readings.  The rest follows the lines   *)
(* of one signal: a stage is left to record, is being recorded or has been *)
(* observed (PassedOK), and in compact mode a kept verdict has the signal  *)
(* line on disk or before it in the lock's queue (KeptOK).  Nearly every   *)
(* action ends some calls and begins others that concern no stage          *)
(* (Elsewhere); only a new signal and its next record do more.             *)
(***************************************************************************)
EXTENDS Scanner, FiniteSetTheorems, SequenceTheorems, WellFoundedInduction, TLAPS

Tasks == {Scan} \cup Ids

LineSet == [cat : Categories, id : {0} \cup Ids]

ThreadSet == [by : Tasks, line : LineSet]

CallSet ==
    [by : Tasks, line : LineSet, keep : BOOLEAN,
     append : {"none", "running", "ok", "error"}, ahead : SUBSET Tasks]

RecorderSet ==
    [calls : SUBSET CallSet, threads : SUBSET ThreadSet, lines : SUBSET LineSet,
     observed : SUBSET LineSet, retained : SUBSET ({0} \cup Ids), closed : BOOLEAN]

\* Of two calls one waits for the other; only the first in line may have begun
\* to append, and only when its record is kept.
QueueOK(r) ==
    /\ \A c, d \in r.calls : c # d => c.by # d.by /\ (c.by \in d.ahead \/ d.by \in c.ahead)
    /\ \A c \in r.calls : c.append # "none" => c.ahead = {} /\ c.keep

\* What full mode promises, with what a call that is about to be observed knows.
WrittenOK(r) ==
    /\ \A c \in r.calls : c.append = "ok" => c.line \in r.lines
    /\ StorageMode = "full" =>
        /\ \A c \in r.calls : c.keep
        /\ r.observed \subseteq r.lines

RecorderOK(r) == r \in RecorderSet /\ QueueOK(r) /\ WrittenOK(r)

\* The threads whose calls are gone.
Orphans(r) == {t \in r.threads : \A c \in r.calls : ~Awaits(c, t)}

\* Lines that are written but not observed, and will not be.
Missed(r) ==
    {line \in r.lines \ r.observed :
        \A c \in r.calls : ~(c.ahead = {} /\ c.line = line /\ c.append = "ok")}

-----------------------------------------------------------------------------
\* The recorder

(* There is never more than one holder of the lock.                         *)
LEMMA OneHolder ==
    ASSUME NEW r, QueueOK(r), NEW c \in Holders(r), NEW d \in r.calls,
           d.ahead = {} \/ d.append # "none"
    PROVE  c = d
  BY DEF QueueOK, Holders

(* A new call queues behind those there are.                                *)
LEMMA CalledOK ==
    ASSUME NEW r, RecorderOK(r), NEW by \in Tasks, by \notin Callers(r),
           NEW line \in LineSet, NEW worth, NEW sampled,
           NEW s, s = Called(r, by, line, worth, sampled)
    PROVE  /\ RecorderOK(s)
           /\ \A d \in s.calls : \/ d.by = by /\ d.line = line
                                 \/ \E c \in r.calls : c.by = d.by /\ c.line = d.line
           /\ s.threads = r.threads
           /\ Orphans(s) \subseteq Orphans(r)
           /\ Missed(s) \subseteq Missed(r)
           /\ s.closed = r.closed
<1> DEFINE keep == StorageMode = "full" \/ ShouldPersist(r, line, worth, sampled)
           new == [by |-> by, line |-> line, keep |-> keep, append |-> "none",
                   ahead |-> Callers(r)]
<1>1. r \in RecorderSet /\ QueueOK(r) /\ WrittenOK(r)
  BY DEF RecorderOK
<1>2. keep \in BOOLEAN /\ (StorageMode = "full" => keep)
  BY DEF ShouldPersist
<1>3. Callers(r) \subseteq Tasks
  BY <1>1 DEF RecorderSet, CallSet, Callers
<1>4. new \in CallSet
  BY <1>2, <1>3 DEF CallSet
<1>5. /\ s \in RecorderSet
      /\ s.calls = r.calls \cup {new}
      /\ s.threads = r.threads /\ s.lines = r.lines /\ s.observed = r.observed
      /\ s.closed = r.closed
  <2>1. line.id \in {0} \cup Ids
    BY DEF LineSet
  <2> DEFINE kept == IF StorageMode = "compact" /\ keep /\ line.cat \in Retaining
                     THEN r.retained \cup {line.id} ELSE r.retained
  <2>2. s = [r EXCEPT !.calls = r.calls \cup {new}, !.retained = kept]
    BY <1>1 DEF Called, RecorderSet
  <2>3. kept \subseteq {0} \cup Ids
    BY <1>1, <2>1 DEF RecorderSet
  <2> HIDE DEF new, keep, kept
  <2>4. s.calls = r.calls \cup {new} /\ s.retained = kept
    BY <1>1, <2>2 DEF RecorderSet
  <2>5. /\ s.threads = r.threads /\ s.lines = r.lines /\ s.observed = r.observed
        /\ s.closed = r.closed
    BY <1>1, <2>2 DEF RecorderSet
  <2> QED  BY <1>1, <1>4, <2>2, <2>3, <2>4, <2>5 DEF RecorderSet
<1>6. \A c \in r.calls : c.by \in new.ahead /\ c.by # by
  BY DEF Callers
<1>7. new.append = "none" /\ new.by = by /\ new.line = line /\ new.keep = keep
  OBVIOUS
<1> HIDE DEF new, keep
<1>8. QueueOK(s)
  BY <1>1, <1>5, <1>6, <1>7 DEF QueueOK
<1>9. WrittenOK(s)
  BY <1>1, <1>2, <1>5, <1>7 DEF WrittenOK
<1>10. Orphans(s) \subseteq Orphans(r) /\ Missed(s) \subseteq Missed(r)
  BY <1>5 DEF Orphans, Missed
<1> QED  BY <1>5, <1>7, <1>8, <1>9, <1>10 DEF RecorderOK

(* The holder's append is handed to a thread of its own, which it awaits.   *)
LEMMA SubmittedOK ==
    ASSUME NEW r, RecorderOK(r), NEW c \in Submittable(r),
           NEW s, s = Submitted(r, c)
    PROVE  /\ RecorderOK(s)
           /\ \A d \in s.calls : \E b \in r.calls : b.by = d.by /\ b.line = d.line
           /\ s.threads = r.threads \cup {AppendOf(c)}
           /\ Orphans(s) \subseteq Orphans(r)
           /\ Missed(s) \subseteq Missed(r)
           /\ s.closed = r.closed
<1> DEFINE begun == [c EXCEPT !.append = "running"]
<1>1. r \in RecorderSet /\ QueueOK(r) /\ WrittenOK(r)
  BY DEF RecorderOK
<1>2. c \in r.calls /\ c \in CallSet /\ c.ahead = {} /\ c.keep /\ c.append = "none"
  BY <1>1 DEF Submittable, Holders, RecorderSet
<1>3. /\ begun \in CallSet /\ begun.by = c.by /\ begun.line = c.line
      /\ begun.keep = c.keep /\ begun.ahead = c.ahead /\ begun.append = "running"
  BY <1>2 DEF CallSet
<1>4. AppendOf(c) \in ThreadSet
  BY <1>2 DEF CallSet, ThreadSet, AppendOf
<1> HIDE DEF begun
<1>5. /\ s \in RecorderSet
      /\ s.calls = (r.calls \ {c}) \cup {begun}
      /\ s.threads = r.threads \cup {AppendOf(c)}
      /\ s.lines = r.lines /\ s.observed = r.observed /\ s.closed = r.closed
  BY <1>1, <1>3, <1>4 DEF Submitted, RecorderSet, begun
<1>6. QueueOK(s)
  <2>1. \A b \in r.calls \ {c} : b.by # c.by /\ c.by \in b.ahead /\ b.append = "none"
    BY <1>1, <1>2 DEF QueueOK
  <2>2. ASSUME NEW b \in s.calls, NEW d \in s.calls, b # d
        PROVE  b.by # d.by /\ (b.by \in d.ahead \/ d.by \in b.ahead)
    BY <1>1, <1>3, <1>5, <2>1, <2>2 DEF QueueOK
  <2>3. \A b \in s.calls : b.append # "none" => b.ahead = {} /\ b.keep
    BY <1>2, <1>3, <1>5, <2>1
  <2> QED  BY <2>2, <2>3 DEF QueueOK
<1>7. WrittenOK(s)
  BY <1>1, <1>2, <1>3, <1>5 DEF WrittenOK
<1>8. Awaits(begun, AppendOf(c))
  BY <1>3 DEF Awaits, AppendOf
<1>9. \A t : Awaits(c, t) => Awaits(begun, t)
  BY <1>2 DEF Awaits
<1>10. Orphans(s) \subseteq Orphans(r) /\ Missed(s) \subseteq Missed(r)
  BY <1>2, <1>3, <1>5, <1>8, <1>9 DEF Orphans, Missed
<1> QED  BY <1>1, <1>2, <1>3, <1>5, <1>6, <1>7, <1>10 DEF RecorderOK

(* A thread ends; it was the one of the holder, or an orphan.               *)
LEMMA AppendedOK ==
    ASSUME NEW r, RecorderOK(r), NEW t \in r.threads, NEW ok \in BOOLEAN,
           NEW s, s = Appended(r, t, ok)
    PROVE  /\ RecorderOK(s)
           /\ \A d \in s.calls : \E c \in r.calls : c.by = d.by /\ c.line = d.line
           /\ s.threads \subseteq r.threads
           /\ Orphans(s) \subseteq Orphans(r)
           /\ Missed(s) \subseteq Missed(r) \cup {u.line : u \in Orphans(r)}
           /\ s.closed = r.closed
<1> DEFINE told(c) == IF Awaits(c, t)
                      THEN [c EXCEPT !.append = IF ok THEN "ok" ELSE "error"] ELSE c
<1>1. r \in RecorderSet /\ QueueOK(r) /\ WrittenOK(r)
  BY DEF RecorderOK
<1>2. ASSUME NEW c \in r.calls
      PROVE  /\ told(c) \in CallSet /\ told(c).by = c.by /\ told(c).line = c.line
             /\ told(c).keep = c.keep /\ told(c).ahead = c.ahead
             /\ ~Awaits(c, t) => told(c) = c
             /\ Awaits(c, t) => told(c).append = IF ok THEN "ok" ELSE "error"
  <2>1. c \in CallSet
    BY <1>1 DEF RecorderSet
  <2> QED  BY <2>1 DEF CallSet
<1>3. t.line \in LineSet
  BY <1>1 DEF RecorderSet, ThreadSet
<1>4. /\ s = [r EXCEPT !.calls = {told(c) : c \in r.calls},
                       !.threads = r.threads \ {t},
                       !.lines = IF ok THEN r.lines \cup {t.line} ELSE r.lines]
  BY <1>1 DEF Appended, RecorderSet
<1> HIDE DEF told
<1>5. /\ s.calls = {told(c) : c \in r.calls} /\ s.threads = r.threads \ {t}
      /\ s.lines = IF ok THEN r.lines \cup {t.line} ELSE r.lines
      /\ s.observed = r.observed /\ s.retained = r.retained /\ s.closed = r.closed
  BY <1>1, <1>4 DEF RecorderSet
<1>6. s \in RecorderSet
  <2>1. {told(c) : c \in r.calls} \subseteq CallSet
    BY <1>2
  <2>2. (IF ok THEN r.lines \cup {t.line} ELSE r.lines) \subseteq LineSet
    BY <1>1, <1>3 DEF RecorderSet
  <2> QED  BY <1>1, <1>4, <2>1, <2>2 DEF RecorderSet
<1>7. QueueOK(s)
  <2>1. ASSUME NEW c \in r.calls, NEW d \in r.calls, told(c) # told(d)
        PROVE  /\ told(c).by # told(d).by
               /\ told(c).by \in told(d).ahead \/ told(d).by \in told(c).ahead
    BY <1>1, <1>2, <2>1 DEF QueueOK
  <2>2. ASSUME NEW c \in r.calls, told(c).append # "none"
        PROVE  told(c).ahead = {} /\ told(c).keep
    BY <1>1, <1>2, <2>2 DEF QueueOK, Awaits
  <2> QED  BY <1>5, <2>1, <2>2 DEF QueueOK
<1>8. WrittenOK(s)
  <2>1. ASSUME NEW c \in r.calls, told(c).append = "ok"
        PROVE  told(c).line \in s.lines
    <3>1. CASE Awaits(c, t)
      <4>1. ok /\ c.line = t.line
        BY <1>2, <2>1, <3>1 DEF Awaits, AppendOf
      <4> QED  BY <1>2, <1>5, <4>1
    <3>2. CASE ~Awaits(c, t)
      BY <1>1, <1>2, <1>5, <2>1, <3>2 DEF WrittenOK
    <3> QED  BY <3>1, <3>2
  <2>2. StorageMode = "full" => (\A c \in s.calls : c.keep) /\ s.observed \subseteq s.lines
    BY <1>1, <1>2, <1>5 DEF WrittenOK
  <2> QED  BY <1>5, <2>1, <2>2 DEF WrittenOK
<1>9. Orphans(s) \subseteq Orphans(r)
  <2>1. ASSUME NEW u, u # t, NEW c \in r.calls, Awaits(c, u)
        PROVE  Awaits(told(c), u)
    BY <1>2, <2>1 DEF Awaits
  <2> QED  BY <1>5, <2>1 DEF Orphans
<1>10. Missed(s) \subseteq Missed(r) \cup {u.line : u \in Orphans(r)}
  <2>1. SUFFICES ASSUME NEW line \in Missed(s), line \notin Missed(r)
                 PROVE  \E u \in Orphans(r) : line = u.line
    OBVIOUS
  <2>2. line \notin r.observed /\ line \in s.lines
    BY <1>5, <2>1 DEF Missed
  <2>3. ASSUME NEW c \in r.calls, c.ahead = {}, c.line = line, told(c).append = "ok"
        PROVE  FALSE
    BY <1>2, <1>5, <2>1, <2>3 DEF Missed
  <2>4. line \notin r.lines
    <3>1. SUFFICES ASSUME line \in r.lines PROVE FALSE
      OBVIOUS
    <3>2. PICK c \in r.calls : c.ahead = {} /\ c.line = line /\ c.append = "ok"
      BY <2>1, <2>2, <3>1 DEF Missed
    <3>3. ~Awaits(c, t)
      BY <3>2 DEF Awaits
    <3> QED  BY <1>2, <2>3, <3>2, <3>3
  <2>5. ok /\ line = t.line
    BY <1>5, <2>2, <2>4
  <2>6. t \in Orphans(r)
    <3>1. ASSUME NEW c \in r.calls, Awaits(c, t) PROVE FALSE
      <4>1. c.ahead = {} /\ c.line = line
        BY <1>1, <2>5, <3>1 DEF QueueOK, Awaits, AppendOf
      <4> QED  BY <1>2, <2>3, <2>5, <3>1, <4>1
    <3> QED  BY <3>1 DEF Orphans
  <2> QED  BY <2>5, <2>6
<1> QED  BY <1>1, <1>2, <1>5, <1>6, <1>7, <1>8, <1>9, <1>10 DEF RecorderOK

(* Calls leave the lock and the queue before it.                            *)
LEMMA WithdrawnOK ==
    ASSUME NEW r, RecorderOK(r), NEW callers,
           NEW s, s = Withdrawn(r, callers)
    PROVE  /\ RecorderOK(s)
           /\ \A d \in s.calls : \E c \in r.calls : /\ c.by = d.by /\ c.line = d.line
                                                  /\ d.by \notin callers
           /\ s.threads = r.threads
           /\ \A t \in Orphans(s) : t \in Orphans(r) \/
                  \E c \in r.calls : c.by \in callers /\ Awaits(c, t)
           /\ \A line \in Missed(s) : line \in Missed(r) \/
                  \E c \in r.calls : c.by \in callers /\ c.append = "ok" /\ c.line = line
           /\ s.lines = r.lines /\ s.observed = r.observed /\ s.closed = r.closed
<1> DEFINE rest(c) == [c EXCEPT !.ahead = c.ahead \ callers]
           stay == {c \in r.calls : c.by \notin callers}
<1>1. r \in RecorderSet /\ QueueOK(r) /\ WrittenOK(r)
  BY DEF RecorderOK
<1>2. ASSUME NEW c \in r.calls
      PROVE  /\ rest(c) \in CallSet /\ rest(c).by = c.by /\ rest(c).line = c.line
             /\ rest(c).keep = c.keep /\ rest(c).append = c.append
             /\ rest(c).ahead = c.ahead \ callers
             /\ [c EXCEPT !.ahead = @ \ callers] = rest(c)
  <2>1. c \in CallSet
    BY <1>1 DEF RecorderSet
  <2> QED  BY <2>1 DEF CallSet
<1>3. {[c EXCEPT !.ahead = @ \ callers] : c \in stay} = {rest(c) : c \in stay}
  BY <1>2
<1> HIDE DEF rest
<1>4. s = [r EXCEPT !.calls = {rest(c) : c \in stay}]
  <2>1. s = [r EXCEPT !.calls = {[c EXCEPT !.ahead = @ \ callers] : c \in stay}]
    BY <1>1 DEF Withdrawn, RecorderSet
  <2> HIDE DEF stay
  <2> QED  BY <1>3, <2>1
<1>5. /\ s \in RecorderSet
      /\ s.calls = {rest(c) : c \in stay}
      /\ s.threads = r.threads /\ s.lines = r.lines /\ s.observed = r.observed
      /\ s.closed = r.closed
  <2>1. {rest(c) : c \in stay} \subseteq CallSet
    BY <1>2
  <2> HIDE DEF stay
  <2> QED  BY <1>1, <1>4, <2>1 DEF RecorderSet
<1>6. QueueOK(s)
  <2>1. ASSUME NEW c \in stay, NEW d \in stay, rest(c) # rest(d)
        PROVE  /\ rest(c).by # rest(d).by
               /\ rest(c).by \in rest(d).ahead \/ rest(d).by \in rest(c).ahead
    BY <1>1, <1>2, <2>1 DEF QueueOK
  <2>2. ASSUME NEW c \in stay, rest(c).append # "none"
        PROVE  rest(c).ahead = {} /\ rest(c).keep
    BY <1>1, <1>2, <2>2 DEF QueueOK
  <2> QED  BY <1>5, <2>1, <2>2 DEF QueueOK
<1>7. WrittenOK(s)
  BY <1>1, <1>2, <1>5 DEF WrittenOK
<1>8. ASSUME NEW t \in Orphans(s), \A c \in r.calls : c.by \in callers => ~Awaits(c, t)
      PROVE  t \in Orphans(r)
  <2>1. ASSUME NEW c \in stay, Awaits(c, t) PROVE FALSE
    <3>1. Awaits(rest(c), t)
      BY <1>2, <2>1 DEF Awaits, AppendOf
    <3> QED  BY <1>5, <1>8, <3>1 DEF Orphans
  <2> QED  BY <1>5, <1>8, <2>1 DEF Orphans
<1>9. ASSUME NEW line \in Missed(s),
             \A c \in r.calls : c.by \in callers => ~(c.append = "ok" /\ c.line = line)
      PROVE  line \in Missed(r)
  <2>1. ASSUME NEW c \in stay, c.ahead = {}, c.line = line, c.append = "ok" PROVE FALSE
    <3>1. rest(c) \in s.calls /\ rest(c).ahead = {} /\ rest(c).line = line
      BY <1>2, <1>5, <2>1
    <3> QED  BY <1>2, <1>9, <2>1, <3>1 DEF Missed
  <2> QED  BY <1>5, <1>9, <2>1 DEF Missed
<1>10. \A d \in s.calls : \E c \in r.calls : /\ c.by = d.by /\ c.line = d.line
                                             /\ d.by \notin callers
  BY <1>2, <1>5
<1> QED  BY <1>5, <1>6, <1>7, <1>8, <1>9, <1>10 DEF RecorderOK

(* The holder's record is observed.                                         *)
LEMMA ObservedOK ==
    ASSUME NEW r, RecorderOK(r), NEW c \in Observable(r),
           NEW s, s = Observed(r, c)
    PROVE  /\ RecorderOK(s)
           /\ \A d \in s.calls : \E b \in r.calls : /\ b.by = d.by /\ b.line = d.line
                                                  /\ d.by # c.by
           /\ s.threads = r.threads
           /\ Orphans(s) \subseteq Orphans(r)
           /\ Missed(s) \subseteq Missed(r)
           /\ s.closed = r.closed
<1> DEFINE w == Withdrawn(r, {c.by})
<1>1. r \in RecorderSet /\ QueueOK(r) /\ WrittenOK(r)
  BY DEF RecorderOK
<1>2. c \in r.calls /\ c \in CallSet /\ (IF c.keep THEN c.append = "ok" ELSE TRUE)
  BY <1>1 DEF Observable, Holders, RecorderSet
<1>3. \A d \in r.calls : d.by \in {c.by} => d = c
  BY <1>1, <1>2 DEF QueueOK
<1>4. c.append # "running" /\ \A t : ~Awaits(c, t)
  BY <1>1, <1>2 DEF Awaits, QueueOK
<1>5. /\ RecorderOK(w)
      /\ \A d \in w.calls : \E b \in r.calls : b.by = d.by /\ b.line = d.line /\ d.by # c.by
      /\ w.threads = r.threads
      /\ Orphans(w) \subseteq Orphans(r)
      /\ \A line \in Missed(w) : line \in Missed(r) \/ line = c.line
      /\ w.lines = r.lines /\ w.observed = r.observed /\ w.closed = r.closed
  BY <1>3, <1>4, WithdrawnOK
<1> HIDE DEF w
<1>6. s = [w EXCEPT !.observed = w.observed \cup {c.line}]
  BY <1>5 DEF Observed, w, RecorderOK, RecorderSet
<1>7. c.line \in LineSet
  BY <1>2 DEF CallSet
<1>8. /\ s \in RecorderSet
      /\ s.calls = w.calls /\ s.threads = w.threads /\ s.lines = w.lines
      /\ s.observed = w.observed \cup {c.line} /\ s.closed = w.closed
  BY <1>5, <1>6, <1>7 DEF RecorderOK, RecorderSet
<1>9. QueueOK(s)
  BY <1>5, <1>8 DEF RecorderOK, QueueOK
<1>10. WrittenOK(s)
  <2>1. StorageMode = "full" => c.line \in r.lines
    BY <1>1, <1>2 DEF WrittenOK
  <2> QED  BY <1>5, <1>8, <2>1 DEF RecorderOK, WrittenOK
<1>11. Orphans(s) \subseteq Orphans(r) /\ Missed(s) \subseteq Missed(r)
  BY <1>5, <1>8 DEF Orphans, Missed
<1> QED  BY <1>5, <1>8, <1>9, <1>10, <1>11 DEF RecorderOK

(* The holder's append has failed: nothing was written that it could miss.  *)
LEMMA FailedOK ==
    ASSUME NEW r, RecorderOK(r), NEW c \in FailedCalls(r),
           NEW s, s = Failed(r, c)
    PROVE  /\ RecorderOK(s)
           /\ \A d \in s.calls : \E b \in r.calls : /\ b.by = d.by /\ b.line = d.line
                                                  /\ d.by # c.by
           /\ s.threads = r.threads
           /\ Orphans(s) \subseteq Orphans(r)
           /\ Missed(s) \subseteq Missed(r)
           /\ s.closed = r.closed
<1>1. c \in r.calls /\ c.append = "error"
  BY DEF FailedCalls, Holders
<1>2. \A d \in r.calls : d.by \in {c.by} => d = c
  BY <1>1 DEF RecorderOK, QueueOK
<1>3. \A t : ~Awaits(c, t)
  BY <1>1 DEF Awaits
<1>4. s = Withdrawn(r, {c.by})
  BY DEF Failed
<1> QED  BY <1>1, <1>2, <1>3, <1>4, WithdrawnOK

(* Callers are cancelled: their threads may go on, and the lines of theirs  *)
(* that were written may be missed.                                         *)
LEMMA CancelledOK ==
    ASSUME NEW r, RecorderOK(r), NEW callers,
           NEW s \in Cancellations(r, callers)
    PROVE  /\ RecorderOK(s)
           /\ \A d \in s.calls : \E c \in r.calls : /\ c.by = d.by /\ c.line = d.line
                                                  /\ d.by \notin callers
           /\ s.threads \subseteq r.threads
           /\ \A t \in Orphans(s) : t \in Orphans(r) \/ t.by \in callers
           /\ \A line \in Missed(s) : line \in Missed(r) \/
                  \E c \in r.calls : c.by \in callers /\ c.line = line
           /\ s.closed = r.closed
<1> DEFINE w == Withdrawn(r, callers)
           own == {t \in r.threads : \E c \in r.calls : c.by \in callers /\ Awaits(c, t)}
<1>1. /\ RecorderOK(w)
      /\ \A d \in w.calls : \E c \in r.calls : /\ c.by = d.by /\ c.line = d.line
                                             /\ d.by \notin callers
      /\ w.threads = r.threads
      /\ \A t \in Orphans(w) : t \in Orphans(r) \/
             \E c \in r.calls : c.by \in callers /\ Awaits(c, t)
      /\ \A line \in Missed(w) : line \in Missed(r) \/
             \E c \in r.calls : c.by \in callers /\ c.append = "ok" /\ c.line = line
      /\ w.lines = r.lines /\ w.observed = r.observed /\ w.closed = r.closed
  BY WithdrawnOK
<1>2. s = w \/ s = [w EXCEPT !.threads = w.threads \ own]
  BY <1>1 DEF Cancellations, RecorderOK, RecorderSet
<1>3. \A t \in Orphans(w) : t \in Orphans(r) \/ t.by \in callers
  BY <1>1 DEF Awaits, AppendOf
<1> HIDE DEF w, own
<1>4. /\ s \in RecorderSet
      /\ s.calls = w.calls /\ s.threads \subseteq w.threads /\ s.lines = w.lines
      /\ s.observed = w.observed /\ s.closed = w.closed
  BY <1>1, <1>2 DEF RecorderOK, RecorderSet
<1>5. QueueOK(s) /\ WrittenOK(s)
  BY <1>1, <1>4 DEF RecorderOK, QueueOK, WrittenOK
<1>6. Orphans(s) \subseteq Orphans(w) /\ Missed(s) = Missed(w)
  BY <1>4 DEF Orphans, Missed
<1> QED  BY <1>1, <1>3, <1>4, <1>5, <1>6 DEF RecorderOK

-----------------------------------------------------------------------------
\* The invariant

StageLines == [cat : Categories \ {"latency"}, id : Ids]

\* What the type invariant says of the scanner itself, and that the verdict of
\* a signal is not among the records it makes.
TypesOK ==
    /\ healthy \in [Cycles -> BOOLEAN]
    /\ pc \in Running \cup Ending \cup Ended
    /\ at \in [cycle : 1..(NCycles + 1), size : 1..(NSizes + 1)]
    /\ todo \in Seq(StageLines)
    /\ check \in Seq(Check) /\ Len(check) <= MaxSignals
    /\ pending \subseteq Signals /\ draining \subseteq Signals
    /\ cooling \subseteq Cycles \X Sizes
    /\ stats \in [unique : Nat, completed : Nat, skipped : Nat, errors : Nat]
    /\ stop \in BOOLEAN

\* at.cycle and at.size are past the last one only where nothing uses them.
PlaceOK ==
    /\ pc = "cycle" => at.size = 1
    /\ pc = "size" => at.cycle \in Cycles /\ at.size \in Sizes
    /\ pc = "recording" => at.cycle \in Cycles /\ at.size \in Sizes

\* Where follow-ups may still be running.
FollowUpsOK ==
    /\ With(Alive) \subseteq pending
    /\ pc = "draining" => With(Alive) \subseteq draining
    /\ pc \in {"final", "returned", "raised"} => With(Alive) = {}

\* Who may be calling record(), and for which line.
CallOK(c) ==
    IF c.by = Scan
    THEN c.line.cat # "latency" /\ pc \in {"recording", "health", "final"}
    ELSE c.line = Line("latency", c.by) /\ c.by \in With({"reporting"})

ThreadOK(t) ==
    IF t.by = Scan THEN t.line.cat # "latency" ELSE t.line = Line("latency", t.by)

\* An orphan is the last to write to its file.
OrphanOK(t) ==
    IF t.by = Scan THEN pc \in {"raised", "abandoned"}
    ELSE pc \notin Running /\ With(Alive) = {} /\ t.by \in With({"cancelled"})

MissOK(line) ==
    \/ pc \in {"raised", "abandoned"}
    \/ line.cat = "latency" /\ line.id \in With({"cancelled"})

RecordsOK ==
    /\ RecorderOK(rec)
    /\ \A c \in rec.calls : CallOK(c)
    /\ \A t \in rec.threads : ThreadOK(t)
    /\ \A t \in Orphans(rec) : OrphanOK(t)
    /\ \A line \in Missed(rec) : MissOK(line)
    /\ OneWriterPerFile

IInv == TypesOK /\ PlaceOK /\ FollowUpsOK /\ RecordsOK

(* The inductive invariant implies the properties the runs check.           *)
LEMMA IInvImplies ==
    IInv => /\ TypeOK /\ OneWriterPerFile /\ ObservedOnlyIfWritten
            /\ MissedOnlyWhenCancelled /\ NoFollowUpOutlivesRun
<1> SUFFICES ASSUME IInv
             PROVE  /\ TypeOK /\ OneWriterPerFile /\ ObservedOnlyIfWritten
                    /\ MissedOnlyWhenCancelled /\ NoFollowUpOutlivesRun
  OBVIOUS
<1>1. TypeOK
  <2>1. todo \in Seq([cat : Categories, id : Ids])
    <3>1. todo \in Seq(StageLines)
      BY DEF IInv, TypesOK
    <3>2. StageLines \subseteq [cat : Categories, id : Ids]
      BY DEF StageLines
    <3> QED  BY <3>1, <3>2, SeqMonotonic
  <2>2. Callers(rec) \subseteq {Scan} \cup Signals
    BY DEF IInv, RecordsOK, CallOK, Callers, With
  <2>3. rec.lines \cup rec.observed \subseteq [cat : Categories, id : {0} \cup Ids]
    BY DEF IInv, RecordsOK, RecorderOK, RecorderSet, LineSet
  <2> QED  BY <2>1, <2>2, <2>3 DEF IInv, TypesOK, TypeOK
<1>2. OneWriterPerFile /\ ObservedOnlyIfWritten /\ NoFollowUpOutlivesRun
  BY DEF IInv, RecordsOK, RecorderOK, WrittenOK, FollowUpsOK, ObservedOnlyIfWritten,
         NoFollowUpOutlivesRun
<1>3. MissedOnlyWhenCancelled
  <2>1. ASSUME NEW line \in rec.lines \ rec.observed,
               ~\E c \in Holders(rec) : c.line = line /\ c.append = "ok"
        PROVE  MissOK(line)
    BY <2>1 DEF IInv, RecordsOK, Missed, Holders
  <2> QED  BY <2>1 DEF MissedOnlyWhenCancelled, MissOK, With
<1> QED  BY <1>1, <1>2, <1>3

-----------------------------------------------------------------------------
\* What a step does to signals

(* One follow-up changes.                                                   *)
LEMMA OneChanges ==
    ASSUME TypesOK, NEW id \in Signals, NEW c \in Check,
           check' = [check EXCEPT ![id] = c]
    PROVE  /\ check' \in Seq(Check) /\ Len(check') = Len(check) /\ Signals' = Signals
           /\ \A status : With(status)' =
                  IF c.status \in status THEN With(status) \cup {id} ELSE With(status) \ {id}
<1>1. check' \in Seq(Check) /\ Len(check') = Len(check) /\ Signals' = Signals
  BY DEF TypesOK, Signals
<1>2. check'[id] = c /\ \A i \in Signals \ {id} : check'[i] = check[i]
  BY DEF TypesOK, Signals
<1> QED  BY <1>1, <1>2 DEF With

(* Follow-ups are cancelled.                                                *)
LEMMA SomeCancelled ==
    ASSUME TypesOK, NEW ids, check' = Cancelled(ids)
    PROVE  /\ check' \in Seq(Check) /\ Len(check') = Len(check) /\ Signals' = Signals
           /\ With(Alive)' = With(Alive) \ ids
           /\ With({"cancelled"})' = With({"cancelled"}) \cup StillRunning(ids)
           /\ With({"reporting"})' = With({"reporting"}) \ ids
<1>1. Signals = 1..Len(check) /\ Len(check) \in Nat /\ \A i \in Signals : check[i] \in Check
  BY DEF TypesOK, Signals
<1> DEFINE entry(i) == IF i \in StillRunning(ids)
                       THEN [check[i] EXCEPT !.status = "cancelled"] ELSE check[i]
<1>2. ASSUME NEW i \in Signals
      PROVE  /\ entry(i) \in Check
             /\ entry(i).status = IF i \in StillRunning(ids) THEN "cancelled" ELSE check[i].status
  BY <1>1 DEF Check, Finished
<1>3. check' = [i \in Signals |-> entry(i)]
  BY DEF Cancelled
<1> HIDE DEF entry
<1>4. check' \in [1..Len(check) -> Check]
  BY <1>1, <1>2, <1>3
<1>5. check' \in Seq(Check) /\ Len(check') = Len(check) /\ Signals' = Signals
  BY <1>1, <1>4 DEF Signals
<1>6. \A i \in Signals : check'[i].status =
          IF i \in StillRunning(ids) THEN "cancelled" ELSE check[i].status
  BY <1>2, <1>3
<1> QED  BY <1>5, <1>6 DEF With, StillRunning, Alive

\* What no step undoes: a run that has ended abnormally, the end of the scan, the
\* end of the last follow-up after it, and a cancellation.
Steady ==
    /\ pc \in {"raised", "abandoned"} => pc' \in {"raised", "abandoned"}
    /\ pc \notin Running => pc' \notin Running
    /\ pc \notin Running /\ With(Alive) = {} => With(Alive)' = {}
    /\ With({"cancelled"}) \subseteq With({"cancelled"})'

(* A step keeps the records in order if it starts no thread and if what it  *)
(* adds to calls, orphans and missed lines is in order.                     *)
LEMMA RecordsKept ==
    ASSUME RecordsOK, Steady, RecorderOK(rec'),
           \A c \in rec'.calls : CallOK(c)',
           rec'.threads \subseteq rec.threads,
           \A t \in Orphans(rec') : t \in Orphans(rec) \/ OrphanOK(t)',
           \A line \in Missed(rec') : line \in Missed(rec) \/ MissOK(line)'
    PROVE  RecordsOK'
<1>1. \A t \in Orphans(rec') : OrphanOK(t)'
  BY DEF RecordsOK, Steady, OrphanOK
<1>2. \A line \in Missed(rec') : MissOK(line)'
  BY DEF RecordsOK, Steady, MissOK
<1>3. OneWriterPerFile'
  BY DEF RecordsOK, OneWriterPerFile
<1>4. \A t \in rec'.threads : ThreadOK(t)'
  BY DEF RecordsOK, ThreadOK
<1> QED  BY <1>1, <1>2, <1>3, <1>4 DEF RecordsOK

(* A step that leaves the recorder alone keeps its records in order.        *)
LEMMA RecordsUntouched ==
    ASSUME RecordsOK, Steady, UNCHANGED rec,
           \A c \in rec.calls : CallOK(c)'
    PROVE  RecordsOK'
  BY RecordsKept DEF RecordsOK

(* A step in which a task that is not calling calls record().               *)
LEMMA RecordsCalled ==
    ASSUME RecordsOK, Steady, NEW by \in Tasks, by \notin Callers(rec),
           NEW line \in LineSet, NEW worth, NEW sampled,
           rec' = Called(rec, by, line, worth, sampled),
           \A c : c.by = by /\ c.line = line => CallOK(c)',
           \A c \in rec.calls : CallOK(c)'
    PROVE  RecordsOK'
<1>1. /\ RecorderOK(rec')
      /\ \A d \in rec'.calls : \/ d.by = by /\ d.line = line
                              \/ \E c \in rec.calls : c.by = d.by /\ c.line = d.line
      /\ rec'.threads = rec.threads
      /\ Orphans(rec') \subseteq Orphans(rec)
      /\ Missed(rec') \subseteq Missed(rec)
  BY CalledOK DEF RecordsOK
<1>2. \A d \in rec'.calls : CallOK(d)'
  BY <1>1 DEF CallOK
<1> QED  BY <1>1, <1>2, RecordsKept

(* The scanner calls record() only at these places of run().                *)
LEMMA NoScanCall ==
    ASSUME IInv, pc \notin {"recording", "health", "final"}
    PROVE  Scan \notin Callers(rec)
  BY DEF IInv, RecordsOK, CallOK, Callers

(* A step of the scanner that leaves signals and recorder alone.            *)
LEMMA QuietStep ==
    ASSUME IInv, UNCHANGED <<check, rec>>,
           pc' = pc \/ Scan \notin Callers(rec),
           pc \notin Running => pc' \notin Running,
           pc \in {"raised", "abandoned"} => pc' = pc
    PROVE  RecordsOK'
<1>1. Steady
  BY DEF Steady, With, Signals
<1>2. ASSUME NEW c \in rec.calls PROVE CallOK(c)'
  BY DEF IInv, RecordsOK, CallOK, With, Signals, Callers
<1> QED  BY <1>1, <1>2, RecordsUntouched DEF IInv

(* A step in which the scanner hands a record of its own to the recorder.   *)
LEMMA ScanCalls ==
    ASSUME IInv, Scan \notin Callers(rec),
           NEW line \in LineSet, line.cat # "latency", NEW worth, NEW sampled,
           rec' = Called(rec, Scan, line, worth, sampled),
           pc' \in {"recording", "health", "final"}, Steady,
           With({"reporting"}) \subseteq With({"reporting"})'
    PROVE  RecordsOK'
<1>1. \A c : c.by = Scan /\ c.line = line => CallOK(c)'
  BY DEF CallOK
<1>2. ASSUME NEW c \in rec.calls PROVE CallOK(c)'
  BY DEF IInv, RecordsOK, CallOK, Callers
<1>3. Scan \in Tasks
  BY DEF Tasks
<1> QED  BY <1>1, <1>2, <1>3, RecordsCalled DEF IInv

-----------------------------------------------------------------------------
\* The actions

(* The constants' assumptions in the form the provers want them.            *)
LEMMA ConstantsOK ==
    /\ NCycles \in Nat \ {0} /\ NSizes \in Nat \ {0} /\ NBuckets \in Nat \ {0}
    /\ MaxPending \in Nat \ {0} /\ MaxSignals \in Nat
    /\ Grades \subseteq AllGrades
    /\ \A stage \in Stages : stage.fees \in BOOLEAN /\ stage.pessimistic \in BOOLEAN
  BY ScannerAssumption

(* The environment, and the end of the observer.                            *)
LEMMA EnvironmentOK ==
    ASSUME IInv,
           \/ \E c \in Cycles : BooksChange(c)
           \/ \E pair \in cooling : CooldownPasses(pair)
           \/ Stop
           \/ RecorderCloses
    PROVE  IInv'
<1>1. UNCHANGED <<pc, at, todo, check, pending, draining, stats>>
  BY DEF BooksChange, CooldownPasses, Stop, RecorderCloses
<1>2. healthy' \in [Cycles -> BOOLEAN]
  BY DEF BooksChange, CooldownPasses, Stop, RecorderCloses, IInv, TypesOK
<1>3. cooling' \subseteq cooling /\ stop' \in BOOLEAN
  BY DEF BooksChange, CooldownPasses, Stop, RecorderCloses, IInv, TypesOK
<1>4. TypesOK'
  BY <1>1, <1>2, <1>3 DEF IInv, TypesOK, Signals
<1>5. PlaceOK' /\ FollowUpsOK'
  BY <1>1 DEF IInv, PlaceOK, FollowUpsOK, With, Signals
<1>6. RecordsOK'
  <2>1. CASE UNCHANGED rec
    BY <1>1, <2>1, QuietStep
  <2>2. CASE RecorderCloses
    <3>1. rec' = [rec EXCEPT !.closed = TRUE] /\ rec \in RecorderSet
      BY <2>2 DEF RecorderCloses, Closed, IInv, RecordsOK, RecorderOK
    <3>2. /\ rec' \in RecorderSet
          /\ rec'.calls = rec.calls /\ rec'.threads = rec.threads
          /\ rec'.lines = rec.lines /\ rec'.observed = rec.observed
      BY <3>1 DEF RecorderSet
    <3>3. RecorderOK(rec') /\ Orphans(rec') = Orphans(rec) /\ Missed(rec') = Missed(rec)
      BY <3>2 DEF IInv, RecordsOK, RecorderOK, QueueOK, WrittenOK, Orphans, Missed
    <3>4. Steady /\ \A c \in rec'.calls : CallOK(c)'
      BY <1>1, <3>2 DEF IInv, RecordsOK, Steady, CallOK, With, Signals
    <3> QED  BY <3>2, <3>3, <3>4, RecordsKept DEF IInv
  <2> QED  BY <2>1, <2>2 DEF BooksChange, CooldownPasses, Stop
<1> QED  BY <1>4, <1>5, <1>6 DEF IInv

(* The scan moves on, or the run does, and nothing is recorded.             *)
LEMMA ScanMovesOK ==
    ASSUME IInv,
           \/ ScanStarts \/ CycleDismissed \/ CycleScreened \/ SizeDismissed
           \/ SizeRecorded \/ HealthRecorded \/ RunReturns
    PROVE  IInv'
<1>1. UNCHANGED <<healthy, todo, check, pending, draining, cooling, stop, rec>>
  BY DEF ScanStarts, CycleDismissed, CycleScreened, SizeDismissed, SizeRecorded,
         HealthRecorded, RunReturns
<1>2. Scan \notin Callers(rec)
  BY NoScanCall DEF ScanStarts, CycleDismissed, CycleScreened, SizeDismissed, SizeRecorded,
         HealthRecorded, RunReturns
<1>3. /\ pc \in Running \cup Ending
      /\ \/ pc \in Running /\ pc' \in {"idle", "cycle", "size"}
         \/ pc = "final" /\ pc' = "returned"
  BY DEF ScanStarts, CycleDismissed, CycleScreened, SizeDismissed, SizeRecorded,
         HealthRecorded, RunReturns, NextSize, NextCycle, Running, Ending
<1>4. stats' \in [unique : Nat, completed : Nat, skipped : Nat, errors : Nat]
  <2>1. stats' = stats \/ stats' = [stats EXCEPT !.errors = stats.errors + 1]
    BY DEF ScanStarts, CycleDismissed, CycleScreened, SizeDismissed, SizeRecorded,
           HealthRecorded, RunReturns
  <2> QED  BY <2>1 DEF IInv, TypesOK
<1>5. /\ at' \in [cycle : 1..(NCycles + 1), size : 1..(NSizes + 1)]
      /\ PlaceOK'
  <2> USE ConstantsOK DEF IInv, TypesOK, PlaceOK, Cycles, Sizes
  <2>1. CASE at.cycle \in Cycles /\ NextCycle
    BY <2>1 DEF NextCycle
  <2>2. CASE at.cycle \in Cycles /\ at.size < NSizes /\ pc' = "size"
             /\ at' = [at EXCEPT !.size = @ + 1]
    <3>1. at' = [cycle |-> at.cycle, size |-> at.size + 1]
      BY <2>2
    <3>2. at.size + 1 \in 1..NSizes /\ at.size + 1 \in 1..(NSizes + 1)
      BY <2>2
    <3>3. at.cycle \in 1..NCycles /\ at.cycle \in 1..(NCycles + 1)
      BY <2>2
    <3>4. /\ at' \in [cycle : 1..(NCycles + 1), size : 1..(NSizes + 1)]
          /\ at'.cycle = at.cycle /\ at'.size = at.size + 1
      BY <3>1, <3>2, <3>3
    <3> QED  BY <2>2, <3>2, <3>3, <3>4
  <2>3. CASE ScanStarts
    BY <2>3 DEF ScanStarts
  <2>4. CASE CycleScreened
    BY <2>4 DEF CycleScreened
  <2>5. CASE HealthRecorded \/ RunReturns
    BY <2>5 DEF HealthRecorded, RunReturns
  <2> QED  BY <2>1, <2>2, <2>3, <2>4, <2>5
           DEF CycleDismissed, SizeDismissed, SizeRecorded, NextSize
<1>6. TypesOK'
  BY <1>1, <1>3, <1>4, <1>5 DEF IInv, TypesOK, Signals, Running, Ending, Ended
<1>7. FollowUpsOK'
  BY <1>1, <1>3 DEF IInv, FollowUpsOK, With, Signals
<1>8. RecordsOK'
  BY <1>1, <1>2, <1>3, QuietStep DEF Running, Ending
<1> QED  BY <1>5, <1>6, <1>7, <1>8 DEF IInv

(* The records of a signal are its own, and its verdict is not among them.  *)
LEMMA StagesTyped ==
    ASSUME NEW id \in Ids, NEW c
    PROVE  StagesOf(id, c) \in Seq(StageLines)
<1>1. ASSUME NEW cat \in Categories \ {"latency"}
      PROVE  <<Line(cat, id)>> \in Seq(StageLines)
  <2>1. Line(cat, id) \in StageLines
    BY DEF Line, StageLines
  <2> QED  BY <2>1
<1>2. <<>> \in Seq(StageLines)
  OBVIOUS
<1> DEFINE when(condition, cat) == IF condition THEN <<Line(cat, id)>> ELSE <<>>
<1>3. /\ when(c.fees, "after_fees") \in Seq(StageLines)
      /\ when(Profitable(c.depth), "depth") \in Seq(StageLines)
      /\ <<Line("signal", id)>> \in Seq(StageLines)
      /\ <<Line("pessimistic", id)>> \in Seq(StageLines)
  BY <1>1, <1>2 DEF Categories
<1>4. StagesOf(id, c) = <<Line("signal", id)>> \o when(c.fees, "after_fees")
                          \o when(Profitable(c.depth), "depth") \o <<Line("pessimistic", id)>>
  BY DEF StagesOf
<1> HIDE DEF when
<1>5. <<Line("signal", id)>> \o when(c.fees, "after_fees") \in Seq(StageLines)
  BY <1>3, ConcatProperties
<1>6. <<Line("signal", id)>> \o when(c.fees, "after_fees")
        \o when(Profitable(c.depth), "depth") \in Seq(StageLines)
  BY <1>3, <1>5, ConcatProperties
<1> QED  BY <1>3, <1>4, <1>6, ConcatProperties

(* The lines that the scanner records beside those of a signal's stages.    *)
LEMMA ScanLines ==
    /\ Line("health", 0) \in LineSet /\ Line("health", 0).cat # "latency"
    /\ \A id \in {0} \cup Ids : /\ Line("raw_opportunity", id) \in LineSet
                              /\ Line("raw_opportunity", id).cat # "latency"
                              /\ Line("latency", id) \in LineSet
    /\ \A line \in StageLines : line \in LineSet /\ line.cat # "latency"
  BY DEF Line, LineSet, Categories, StageLines

(* The parts of a line.                                                     *)
LEMMA LineParts == \A cat, id : Line(cat, id).cat = cat /\ Line(cat, id).id = id
  BY DEF Line

(* The scanner records something that begins no signal.                     *)
LEMMA ScanRecordsOK ==
    ASSUME IInv, OpportunityRepeated \/ StageRecorded \/ ScanEnds \/ DrainStarts \/ DrainEnds
    PROVE  IInv'
<1>1. UNCHANGED <<healthy, at, check, pending, cooling, stats, stop>>
  BY DEF OpportunityRepeated, StageRecorded, ScanEnds, DrainStarts, DrainEnds
<1>2. Scan \notin Callers(rec)
  BY NoScanCall DEF OpportunityRepeated, StageRecorded, ScanEnds, DrainStarts, DrainEnds
<1>3. /\ \/ pc \in {"size", "recording"} /\ pc' = "recording" /\ UNCHANGED draining
         \/ pc \in Running /\ pc' \in {"idle", "health"} /\ UNCHANGED draining
         \/ pc \in Running /\ draining' = pending /\ pending # {} /\ pc' = "draining"
         \/ pc \in Running /\ draining' = pending /\ pending = {} /\ pc' = "final"
         \/ /\ pc = "draining" /\ StillRunning(draining) = {} /\ pc' = "final"
            /\ UNCHANGED draining
      /\ pc \in Running \cup {"draining"}
  BY DEF OpportunityRepeated, StageRecorded, ScanEnds, DrainStarts, DrainEnds, Running
<1>4. todo' \in Seq(StageLines)
  <2>1. todo' = todo \/ todo' = <<>> \/ (todo # <<>> /\ todo' = Tail(todo))
    BY DEF OpportunityRepeated, StageRecorded, ScanEnds, DrainStarts, DrainEnds
  <2>2. todo \in Seq(StageLines) /\ <<>> \in Seq(StageLines)
    BY DEF IInv, TypesOK
  <2>3. todo # <<>> => Tail(todo) \in Seq(StageLines)
    BY <2>2, HeadTailProperties
  <2> QED  BY <2>1, <2>2, <2>3
<1>5. TypesOK'
  BY <1>1, <1>3, <1>4 DEF IInv, TypesOK, Signals, Running, Ending, Ended
<1>6. PlaceOK'
  BY <1>1, <1>3 DEF IInv, PlaceOK
<1>7. FollowUpsOK'
  BY <1>1, <1>3 DEF IInv, FollowUpsOK, With, Signals, StillRunning
<1>8. RecordsOK'
  <2>1. Steady
    BY <1>1, <1>3 DEF Steady, With, Signals, Running
  <2>2. With({"reporting"}) \subseteq With({"reporting"})'
    BY <1>1 DEF With, Signals
  <2>3. CASE UNCHANGED rec
    BY <1>1, <1>2, <1>3, <2>3, QuietStep DEF Running
  <2>4. CASE \E sampled : rec' = Called(rec, Scan, Line("raw_opportunity", 0), FALSE, sampled)
             /\ pc' = "recording"
    BY <1>2, <2>1, <2>2, <2>4, ScanLines, ScanCalls
  <2>5. CASE StageRecorded
    <3>1. Head(todo) \in StageLines
      BY <2>5 DEF StageRecorded, IInv, TypesOK
    <3>2. PICK sampled : rec' = Called(rec, Scan, Head(todo), Worth(Head(todo)), sampled)
      BY <2>5 DEF StageRecorded
    <3>3. pc' = "recording"
      BY <2>5 DEF StageRecorded
    <3> QED  BY <1>2, <2>1, <2>2, <3>1, <3>2, <3>3, ScanLines, ScanCalls
  <2>6. CASE rec' = Called(rec, Scan, Line("health", 0), FALSE, FALSE)
             /\ pc' \in {"health", "final"}
    BY <1>2, <2>1, <2>2, <2>6, ScanLines, ScanCalls
  <2> QED  BY <2>3, <2>4, <2>5, <2>6 DEF OpportunityRepeated, ScanEnds, DrainStarts, DrainEnds
<1> QED  BY <1>5, <1>6, <1>7, <1>8 DEF IInv

(* A new signal: the one step after which there is a follow-up more.        *)
LEMMA SignalDetectedOK ==
    ASSUME IInv, SignalDetected
    PROVE  IInv'
<1> DEFINE id == Len(check) + 1
           new(stage, depth) ==
               [cycle |-> at.cycle, depth |-> depth, fees |-> stage.fees,
                pessimistic |-> stage.pessimistic, rechecks |-> <<>>,
                status |-> IF BacklogFull THEN "skipped" ELSE "tracking"]
<1>1. PICK stage \in Stages, depth \in Grades, sampled \in BOOLEAN :
        /\ check' = Append(check, new(stage, depth))
        /\ pending' = IF BacklogFull THEN pending ELSE pending \cup {id}
        /\ stats' = [stats EXCEPT !.unique = @ + 1,
                                  !.skipped = IF BacklogFull THEN @ + 1 ELSE @]
        /\ todo' = StagesOf(id, new(stage, depth))
        /\ rec' = Called(rec, Scan, Line("raw_opportunity", id), FALSE, sampled)
  BY DEF SignalDetected
<1>2. /\ pc = "size" /\ Len(check) < MaxSignals /\ pc' = "recording"
      /\ cooling' = cooling \cup {<<at.cycle, at.size>>}
      /\ UNCHANGED <<healthy, at, draining, stop>>
  BY DEF SignalDetected
<1>3. /\ check \in Seq(Check) /\ Len(check) \in Nat
      /\ at.cycle \in Cycles /\ at.size \in Sizes
  BY <1>2 DEF IInv, TypesOK, PlaceOK
<1>4. id \in Ids /\ id \in Nat /\ id <= MaxSignals /\ id \notin Signals
  BY <1>2, <1>3, ConstantsOK DEF Ids, Signals
<1>5. new(stage, depth) \in Check
  <2>1. depth \in AllGrades /\ stage.fees \in BOOLEAN /\ stage.pessimistic \in BOOLEAN
    BY ConstantsOK
  <2>2. (IF BacklogFull THEN "skipped" ELSE "tracking") \in {"skipped"} \cup Alive \cup Finished
    BY DEF Alive
  <2>3. <<>> \in Seq(AllGrades)
    OBVIOUS
  <2> QED  BY <1>3, <2>1, <2>2, <2>3 DEF Check
<1>6. new(stage, depth).status = IF BacklogFull THEN "skipped" ELSE "tracking"
  OBVIOUS
<1> DEFINE c == new(stage, depth)
<1> HIDE DEF new
<1>7. /\ check' \in Seq(Check) /\ Len(check') = id
      /\ Signals' = Signals \cup {id}
      /\ check'[id] = c /\ \A i \in Signals : check'[i] = check[i]
  BY <1>1, <1>3, <1>5, AppendProperties DEF Signals
<1>8. /\ With({"cancelled"})' = With({"cancelled"})
      /\ With({"reporting"})' = With({"reporting"})
      /\ With(Alive)' = IF BacklogFull THEN With(Alive) ELSE With(Alive) \cup {id}
  BY <1>4, <1>6, <1>7 DEF With, Alive
<1>9. TypesOK'
  <2>1. todo' \in Seq(StageLines)
    BY <1>1, <1>4, StagesTyped
  <2>2. pending' \subseteq Signals' /\ draining' \subseteq Signals'
    BY <1>1, <1>2, <1>7 DEF IInv, TypesOK
  <2>3. stats' \in [unique : Nat, completed : Nat, skipped : Nat, errors : Nat]
    <3>1. stats \in [unique : Nat, completed : Nat, skipped : Nat, errors : Nat]
      BY DEF IInv, TypesOK
    <3>2. stats' = [stats EXCEPT !.unique = stats.unique + 1,
                                 !.skipped = IF BacklogFull THEN stats.skipped + 1
                                             ELSE stats.skipped]
      BY <1>1, <3>1
    <3>3. /\ stats.unique + 1 \in Nat
          /\ (IF BacklogFull THEN stats.skipped + 1 ELSE stats.skipped) \in Nat
      BY <3>1
    <3> QED  BY <3>1, <3>2, <3>3
  <2>4. cooling' \subseteq Cycles \X Sizes
    BY <1>2, <1>3 DEF IInv, TypesOK
  <2>5. pc' \in Running
    BY <1>2 DEF Running
  <2> HIDE DEF id
  <2> QED  BY <1>2, <1>4, <1>7, <2>1, <2>2, <2>3, <2>4, <2>5 DEF IInv, TypesOK
<1>10. PlaceOK' /\ FollowUpsOK'
  BY <1>1, <1>2, <1>3, <1>8 DEF IInv, PlaceOK, FollowUpsOK
<1>11. RecordsOK'
  <2>1. Scan \notin Callers(rec)
    BY <1>2, NoScanCall
  <2>2. Steady
    BY <1>2, <1>8 DEF Steady, Running
  <2> HIDE DEF id
  <2> QED  BY <1>1, <1>2, <1>4, <1>8, <2>1, <2>2, ScanLines, ScanCalls
<1> QED  BY <1>9, <1>10, <1>11 DEF IInv

(* The drain's timeout: from here on no follow-up is left.                  *)
LEMMA DrainTimesOutOK ==
    ASSUME IInv, DrainTimesOut
    PROVE  IInv'
<1>1. /\ pc = "draining" /\ pc' = "final" /\ check' = Cancelled(draining)
      /\ UNCHANGED <<healthy, at, todo, pending, draining, cooling, stats, stop>>
  BY DEF DrainTimesOut
<1>2. PICK ended \in Cancellations(rec, StillRunning(draining)) :
        rec' = Called(ended, Scan, Line("health", 0), FALSE, FALSE)
  BY DEF DrainTimesOut
<1>3. /\ check' \in Seq(Check) /\ Len(check') = Len(check) /\ Signals' = Signals
      /\ With(Alive)' = With(Alive) \ draining
      /\ With({"cancelled"})' = With({"cancelled"}) \cup StillRunning(draining)
      /\ With({"reporting"})' = With({"reporting"}) \ draining
  BY <1>1, SomeCancelled DEF IInv
<1>4. With(Alive)' = {} /\ With({"reporting"})' = {}
  BY <1>1, <1>3 DEF IInv, FollowUpsOK, With, Alive
<1>5. TypesOK' /\ PlaceOK' /\ FollowUpsOK'
  BY <1>1, <1>3, <1>4 DEF IInv, TypesOK, PlaceOK, FollowUpsOK, Ending
<1>6. RecordsOK'
  <2>1. /\ RecorderOK(ended)
        /\ \A d \in ended.calls : \E c \in rec.calls : /\ c.by = d.by /\ c.line = d.line
                                                   /\ d.by \notin StillRunning(draining)
        /\ ended.threads \subseteq rec.threads
        /\ \A t \in Orphans(ended) : t \in Orphans(rec) \/ t.by \in StillRunning(draining)
        /\ \A line \in Missed(ended) : line \in Missed(rec) \/
              \E c \in rec.calls : c.by \in StillRunning(draining) /\ c.line = line
    BY CancelledOK DEF IInv, RecordsOK
  <2>2. \A c \in rec.calls : c.by # Scan /\ c.by \in With({"reporting"})
                              /\ c.line = Line("latency", c.by)
    BY <1>1 DEF IInv, RecordsOK, CallOK
  <2>3. With({"reporting"}) \subseteq StillRunning(draining)
    BY <1>1 DEF IInv, FollowUpsOK, StillRunning, With, Alive
  <2>4. ended.calls = {} /\ Scan \notin Callers(ended) /\ Scan \in Tasks
    BY <2>1, <2>2, <2>3 DEF Callers, Tasks
  <2>5. /\ RecorderOK(rec')
        /\ \A d \in rec'.calls : d.by = Scan /\ d.line = Line("health", 0)
        /\ rec'.threads = ended.threads
        /\ Orphans(rec') \subseteq Orphans(ended)
        /\ Missed(rec') \subseteq Missed(ended)
    <3>1. Line("health", 0) \in LineSet
      BY ScanLines
    <3> DEFINE line == Line("health", 0)
    <3>2. PICK worth, sampled : rec' = Called(ended, Scan, line, worth, sampled)
      BY <1>2
    <3>4. RecorderOK(ended) /\ Scan \notin Callers(ended) /\ Scan \in Tasks
      BY <2>1, <2>4
    <3>5. line \in LineSet
      BY <3>1
    <3> HIDE DEF line
    <3>3. /\ RecorderOK(rec')
          /\ \A d \in rec'.calls : \/ d.by = Scan /\ d.line = line
                                  \/ \E c \in ended.calls : c.by = d.by /\ c.line = d.line
          /\ rec'.threads = ended.threads
          /\ Orphans(rec') \subseteq Orphans(ended)
          /\ Missed(rec') \subseteq Missed(ended)
      BY <3>2, <3>4, <3>5, CalledOK
    <3> QED  BY <2>4, <3>3 DEF line
  <2>6. Steady
    BY <1>1, <1>3, <1>4 DEF Steady, Running
  <2>7. \A c \in rec'.calls : CallOK(c)'
    BY <1>1, <2>5, ScanLines DEF CallOK
  <2>8. ASSUME NEW t \in Orphans(rec'), t \notin Orphans(rec) PROVE OrphanOK(t)'
    <3>1. t.by \in StillRunning(draining)
      BY <2>1, <2>5, <2>8
    <3>2. t.by # Scan
      BY <3>1 DEF StillRunning, With, Signals, Scan, IInv, TypesOK
    <3> QED  BY <1>1, <1>3, <1>4, <3>1, <3>2 DEF OrphanOK, Running
  <2>9. ASSUME NEW line \in Missed(rec'), line \notin Missed(rec) PROVE MissOK(line)'
    <3>1. PICK c \in rec.calls : c.by \in StillRunning(draining) /\ c.line = line
      BY <2>1, <2>5, <2>9
    <3>2. line.cat = "latency" /\ line.id = c.by
      BY <2>2, <3>1, LineParts
    <3> QED  BY <1>3, <3>1, <3>2 DEF MissOK
  <2> QED  BY <2>1, <2>5, <2>6, <2>7, <2>8, <2>9, RecordsKept DEF IInv
<1> QED  BY <1>5, <1>6 DEF IInv

(* Callers are cancelled, none of whom is left calling: their threads and   *)
(* lines are accounted for by where the run is and by who was cancelled.    *)
LEMMA CallersGone ==
    ASSUME RecordsOK, Steady, NEW r, NEW callers, rec' \in Cancellations(r, callers),
           RecorderOK(r),
           \A d \in r.calls : \E c \in rec.calls : c.by = d.by /\ c.line = d.line,
           r.threads \subseteq rec.threads, Orphans(r) \subseteq Orphans(rec),
           Missed(r) \subseteq Missed(rec),
           \A c \in rec.calls : c.by \notin callers => CallOK(c)',
           Scan \in callers => pc' \in {"raised", "abandoned"},
           callers \ {Scan} # {} => pc' \notin Running /\ With(Alive)' = {},
           callers \ {Scan} \subseteq With({"cancelled"})'
    PROVE  RecordsOK'
<1>1. /\ RecorderOK(rec')
      /\ \A d \in rec'.calls : \E c \in r.calls : /\ c.by = d.by /\ c.line = d.line
                                              /\ d.by \notin callers
      /\ rec'.threads \subseteq r.threads
      /\ \A t \in Orphans(rec') : t \in Orphans(r) \/ t.by \in callers
      /\ \A line \in Missed(rec') : line \in Missed(r) \/
            \E c \in r.calls : c.by \in callers /\ c.line = line
  BY CancelledOK
<1>2. ASSUME NEW d \in rec'.calls PROVE CallOK(d)'
  <2>1. PICK b \in r.calls : b.by = d.by /\ b.line = d.line /\ d.by \notin callers
    BY <1>1
  <2>2. PICK c \in rec.calls : c.by = b.by /\ c.line = b.line
    BY <2>1
  <2>3. CallOK(c)'
    BY <2>1, <2>2
  <2> QED  BY <2>1, <2>2, <2>3 DEF CallOK
<1>3. ASSUME NEW t \in Orphans(rec'), t \notin Orphans(rec) PROVE OrphanOK(t)'
  <2>1. t.by \in callers
    BY <1>1, <1>3
  <2> QED  BY <2>1 DEF OrphanOK
<1>4. ASSUME NEW line \in Missed(rec'), line \notin Missed(rec) PROVE MissOK(line)'
  <2>1. PICK b \in r.calls : b.by \in callers /\ b.line = line
    BY <1>1, <1>4
  <2>2. PICK c \in rec.calls : c.by = b.by /\ c.line = b.line
    BY <2>1
  <2>3. c.by # Scan => line.cat = "latency" /\ line.id = c.by
    BY <2>1, <2>2, LineParts DEF RecordsOK, CallOK
  <2> QED  BY <2>1, <2>2, <2>3 DEF MissOK
<1>5. rec'.threads \subseteq rec.threads
  BY <1>1
<1> QED  BY <1>1, <1>2, <1>3, <1>4, <1>5, RecordsKept

(* The run raises: whoever was calling or waiting is cancelled.             *)
LEMMA RaisesOK ==
    ASSUME IInv, NEW r, Raises(r), cooling' \subseteq Cycles \X Sizes,
           RecorderOK(r),
           \A d \in r.calls : \E c \in rec.calls : c.by = d.by /\ c.line = d.line,
           r.threads \subseteq rec.threads, Orphans(r) \subseteq Orphans(rec),
           Missed(r) \subseteq Missed(rec)
    PROVE  IInv'
<1>1. /\ pc \in Running /\ pc' = "raised" /\ check' = Cancelled(pending)
      /\ UNCHANGED <<healthy, at, todo, pending, draining, stats, stop>>
  BY DEF Raises
<1> DEFINE callers == {Scan} \cup StillRunning(pending)
<1>2. rec' \in Cancellations(r, callers)
  BY DEF Raises
<1>3. /\ check' \in Seq(Check) /\ Len(check') = Len(check) /\ Signals' = Signals
      /\ With(Alive)' = With(Alive) \ pending
      /\ With({"cancelled"})' = With({"cancelled"}) \cup StillRunning(pending)
      /\ With({"reporting"})' = With({"reporting"}) \ pending
  BY <1>1, SomeCancelled DEF IInv
<1>4. With(Alive)' = {}
  BY <1>3 DEF IInv, FollowUpsOK
<1>5. TypesOK' /\ PlaceOK' /\ FollowUpsOK'
  BY <1>1, <1>3, <1>4 DEF IInv, TypesOK, PlaceOK, FollowUpsOK, Ended
<1>6. RecordsOK'
  <2>1. Steady
    BY <1>1, <1>3, <1>4 DEF Steady, Running
  <2>2. \A c \in rec.calls : c.by \in callers
    BY DEF IInv, RecordsOK, CallOK, FollowUpsOK, StillRunning, With, Alive
  <2>3. callers \ {Scan} \subseteq With({"cancelled"})'
    BY <1>3
  <2>4. pc' \notin Running
    BY <1>1 DEF Running
  <2> HIDE DEF callers
  <2> QED  BY <1>1, <1>2, <1>4, <2>1, <2>2, <2>3, <2>4, CallersGone DEF IInv
<1> QED  BY <1>5, <1>6 DEF IInv

(* The ways in which the run ends early.                                    *)
LEMMA RunBreaksOK ==
    ASSUME IInv, RunCancelled \/ SignalFails \/ ScanNotRecorded \/ EndingCancelled
    PROVE  IInv'
<1>1. RecorderOK(rec) /\ cooling \subseteq Cycles \X Sizes
  BY DEF IInv, RecordsOK, TypesOK
<1>2. CASE RunCancelled
  BY <1>1, <1>2, RaisesOK DEF RunCancelled
<1>3. CASE SignalFails
  <2>1. cooling' \subseteq Cycles \X Sizes
    BY <1>1, <1>3 DEF SignalFails, IInv, PlaceOK
  <2> QED  BY <1>1, <1>3, <2>1, RaisesOK DEF SignalFails
<1>4. CASE ScanNotRecorded
  <2>1. PICK c \in FailedCalls(rec) :
            /\ c.by = Scan
            /\ \/ Raises(Failed(rec, c)) /\ UNCHANGED cooling
               \/ /\ pc \in Ending /\ pc' = "abandoned" /\ rec' = Failed(rec, c)
                  /\ UNCHANGED <<healthy, at, todo, check, pending, draining, cooling,
                                 stats, stop>>
    BY <1>4 DEF ScanNotRecorded
  <2> DEFINE r == Failed(rec, c)
  <2>2. /\ RecorderOK(r)
        /\ \A d \in r.calls : \E b \in rec.calls : /\ b.by = d.by /\ b.line = d.line
                                                /\ d.by # c.by
        /\ r.threads = rec.threads
        /\ Orphans(r) \subseteq Orphans(rec)
        /\ Missed(r) \subseteq Missed(rec)
    BY <1>1, FailedOK
  <2> HIDE DEF r
  <2>3. CASE Raises(r) /\ UNCHANGED cooling
    BY <1>1, <2>2, <2>3, RaisesOK
  <2>4. CASE /\ pc \in Ending /\ pc' = "abandoned" /\ rec' = r
             /\ UNCHANGED <<healthy, at, todo, check, pending, draining, cooling, stats, stop>>
    <3>1. TypesOK' /\ PlaceOK' /\ FollowUpsOK'
      BY <2>4 DEF IInv, TypesOK, PlaceOK, FollowUpsOK, With, Signals, Ended
    <3>2. Steady
      BY <2>4 DEF Steady, With, Signals, Running
    <3>3. ASSUME NEW d \in rec'.calls PROVE CallOK(d)'
      BY <2>1, <2>2, <2>4, <3>3 DEF IInv, RecordsOK, CallOK, With, Signals
    <3> QED  BY <2>2, <2>4, <3>1, <3>2, <3>3, RecordsKept DEF IInv
  <2> QED  BY <2>1, <2>3, <2>4 DEF r
<1>5. CASE EndingCancelled
  <2>1. /\ pc \in Ending /\ pc' = "abandoned" /\ rec' \in Cancellations(rec, {Scan})
        /\ UNCHANGED <<healthy, at, todo, check, pending, draining, cooling, stats, stop>>
    BY <1>5 DEF EndingCancelled
  <2>2. TypesOK' /\ PlaceOK' /\ FollowUpsOK'
    BY <2>1 DEF IInv, TypesOK, PlaceOK, FollowUpsOK, With, Signals, Ended
  <2>3. Steady
    BY <2>1 DEF Steady, With, Signals, Running
  <2>4. ASSUME NEW c \in rec.calls, c.by \notin {Scan} PROVE CallOK(c)'
    BY <2>1, <2>4 DEF IInv, RecordsOK, CallOK, With, Signals
  <2> QED  BY <1>1, <2>1, <2>2, <2>3, <2>4, CallersGone DEF IInv
<1> QED  BY <1>2, <1>3, <1>4, <1>5

(* asyncio.run cancels the follow-ups that outlived a cancelled run.        *)
LEMMA LoopClosesOK ==
    ASSUME IInv, LoopCloses
    PROVE  IInv'
<1>1. /\ pc \in Ended /\ check' = Cancelled(Signals)
      /\ rec' \in Cancellations(rec, With(Alive))
      /\ UNCHANGED <<healthy, pc, at, todo, pending, draining, cooling, stats, stop>>
  BY DEF LoopCloses
<1>2. /\ check' \in Seq(Check) /\ Len(check') = Len(check) /\ Signals' = Signals
      /\ With(Alive)' = With(Alive) \ Signals
      /\ With({"cancelled"})' = With({"cancelled"}) \cup StillRunning(Signals)
  BY <1>1, SomeCancelled DEF IInv
<1>3. With(Alive)' = {} /\ With(Alive) \subseteq With({"cancelled"})'
  BY <1>2 DEF With, StillRunning
<1>4. TypesOK' /\ PlaceOK' /\ FollowUpsOK'
  BY <1>1, <1>2, <1>3 DEF IInv, TypesOK, PlaceOK, FollowUpsOK
<1>5. RecordsOK'
  <2>1. Steady /\ pc' \notin Running
    BY <1>1, <1>2, <1>3 DEF Steady, Ended, Running
  <2>2. \A c \in rec.calls : c.by \in With(Alive)
    BY <1>1 DEF IInv, RecordsOK, CallOK, With, Alive, Ended
  <2>3. Scan \notin With(Alive)
    BY DEF With, Signals, Scan, IInv, TypesOK
  <2> QED  BY <1>1, <1>3, <2>1, <2>2, <2>3, CallersGone DEF IInv, RecordsOK
<1> QED  BY <1>4, <1>5 DEF IInv

(* A follow-up looks at the books, ends, or is accounted for.               *)
LEMMA FollowUpStepOK ==
    ASSUME IInv, NEW id \in Signals, Rechecked(id) \/ RecheckFails(id) \/ FollowUpDone(id)
    PROVE  IInv'
<1>1. UNCHANGED <<healthy, pc, at, todo, draining, cooling, stop>>
  BY DEF Rechecked, RecheckFails, FollowUpDone
<1>2. /\ check \in Seq(Check) /\ check[id] \in Check /\ id \in Tasks /\ id # Scan /\ id \in Ids
  BY ConstantsOK DEF IInv, TypesOK, Signals, Tasks, Ids, Scan
<1>3. CASE Rechecked(id)
  <2>1. PICK grade \in IF healthy[check[id].cycle] THEN Grades ELSE {"dead"} :
          LET c == [check[id] EXCEPT !.rechecks = Append(@, grade)]
              last == Len(c.rechecks) = NBuckets
              status == IF ~last THEN "tracking" ELSE IF rec.closed THEN "failed" ELSE "reporting"
          IN  /\ check' = [check EXCEPT ![id] = [c EXCEPT !.status = status]]
              /\ rec' = IF status = "reporting"
                        THEN Called(rec, id, Line("latency", id), FALSE, FALSE) ELSE rec
    BY <1>3 DEF Rechecked
  <2> DEFINE c == [check[id] EXCEPT !.rechecks = Append(@, grade)]
             status == IF ~(Len(c.rechecks) = NBuckets) THEN "tracking"
                       ELSE IF rec.closed THEN "failed" ELSE "reporting"
             next == [c EXCEPT !.status = status]
  <2>2. grade \in AllGrades
    BY ConstantsOK DEF AllGrades
  <2>3. c \in Check
    <3>1. Append(check[id].rechecks, grade) \in Seq(AllGrades)
      BY <1>2, <2>2, AppendProperties DEF Check
    <3> QED  BY <1>2, <3>1 DEF Check
  <2>4. status \in {"tracking", "failed", "reporting"}
    OBVIOUS
  <2>5. /\ check' = [check EXCEPT ![id] = next]
        /\ rec' = IF status = "reporting"
                  THEN Called(rec, id, Line("latency", id), FALSE, FALSE) ELSE rec
    BY <2>1
  <2> HIDE DEF c, status
  <2>6. next \in Check /\ next.status = status
    BY <2>3, <2>4 DEF Check, Alive, Finished
  <2> HIDE DEF next
  <2>7. /\ check' \in Seq(Check) /\ Len(check') = Len(check) /\ Signals' = Signals
        /\ \A set : With(set)' =
              IF status \in set THEN With(set) \cup {id} ELSE With(set) \ {id}
    BY <2>5, <2>6, OneChanges DEF IInv
  <2>8. id \in With({"tracking"}) /\ UNCHANGED <<pending, stats>>
    BY <1>3 DEF Rechecked
  <2>9. TypesOK' /\ PlaceOK' /\ FollowUpsOK'
    <3>1. id \in With(Alive)
      BY <2>8 DEF With, Alive
    <3>2. With(Alive)' \subseteq With(Alive)
      BY <2>7, <3>1
    <3> QED  BY <1>1, <2>7, <2>8, <3>2 DEF IInv, TypesOK, PlaceOK, FollowUpsOK
  <2>10. RecordsOK'
    <3>1. id \notin With({"cancelled"}) /\ id \notin With({"reporting"}) /\ id \in With(Alive)
      BY <2>8 DEF With, Alive
    <3>2. Steady
      BY <1>1, <2>4, <2>7, <3>1 DEF Steady
    <3>3. ASSUME NEW d \in rec.calls PROVE CallOK(d)'
      BY <1>1, <2>7, <3>1 DEF IInv, RecordsOK, CallOK
    <3>4. CASE status # "reporting"
      BY <2>5, <3>2, <3>3, <3>4, RecordsUntouched DEF IInv
    <3>5. CASE status = "reporting"
      <4> DEFINE line == Line("latency", id)
      <4>1. line \in LineSet
        BY <1>2, ScanLines
      <4>2. id \notin Callers(rec)
        BY <1>2, <3>1 DEF IInv, RecordsOK, CallOK, Callers
      <4>3. \A d : d.by = id /\ d.line = line => CallOK(d)'
        BY <1>2, <2>7, <3>5 DEF CallOK
      <4>4. PICK worth, sampled : rec' = Called(rec, id, line, worth, sampled)
        BY <2>5, <3>5
      <4> HIDE DEF line
      <4> QED  BY <1>2, <3>2, <3>3, <4>1, <4>2, <4>3, <4>4, RecordsCalled DEF IInv
    <3> QED  BY <3>4, <3>5
  <2> QED  BY <2>9, <2>10 DEF IInv
<1>4. CASE RecheckFails(id)
  <2> DEFINE next == [check[id] EXCEPT !.status = "failed"]
  <2>1. /\ id \in With({"tracking"}) /\ check' = [check EXCEPT ![id] = next]
        /\ UNCHANGED <<pending, stats, rec>>
    BY <1>2, <1>4 DEF RecheckFails
  <2>2. next \in Check /\ next.status = "failed"
    BY <1>2 DEF Check, Finished
  <2> HIDE DEF next
  <2>3. /\ check' \in Seq(Check) /\ Len(check') = Len(check) /\ Signals' = Signals
        /\ \A set : With(set)' =
              IF next.status \in set THEN With(set) \cup {id} ELSE With(set) \ {id}
    BY <2>1, <2>2, OneChanges DEF IInv
  <2>4. /\ With(Alive)' = With(Alive) \ {id}
        /\ With({"reporting"})' = With({"reporting"})
        /\ With({"cancelled"})' = With({"cancelled"})
    <3>1. id \notin With({"reporting"}) /\ id \notin With({"cancelled"})
      BY <2>1 DEF With
    <3>2. "failed" \notin Alive
      BY DEF Alive
    <3> QED  BY <2>2, <2>3, <3>1, <3>2
  <2>5. TypesOK' /\ PlaceOK' /\ FollowUpsOK'
    BY <1>1, <2>1, <2>3, <2>4 DEF IInv, TypesOK, PlaceOK, FollowUpsOK
  <2>6. Steady
    BY <1>1, <2>4 DEF Steady
  <2>7. ASSUME NEW d \in rec.calls PROVE CallOK(d)'
    BY <1>1, <2>4 DEF IInv, RecordsOK, CallOK
  <2> QED  BY <2>1, <2>5, <2>6, <2>7, RecordsUntouched DEF IInv
<1>5. CASE FollowUpDone(id)
  <2>1. /\ id \in With(Finished) /\ pending' = pending \ {id} /\ UNCHANGED <<check, rec>>
        /\ stats' = stats \/ stats' = [stats EXCEPT !.errors = stats.errors + 1]
    <3>1. stats' = [stats EXCEPT !.errors =
                       IF check[id].status = "failed" THEN stats.errors + 1 ELSE stats.errors]
      BY <1>5 DEF FollowUpDone
    <3>2. stats \in [unique : Nat, completed : Nat, skipped : Nat, errors : Nat]
      BY DEF IInv, TypesOK
    <3>3. [stats EXCEPT !.errors = stats.errors] = stats
      BY <3>2
    <3> QED  BY <1>5, <3>1, <3>3 DEF FollowUpDone
  <2>2. stats' \in [unique : Nat, completed : Nat, skipped : Nat, errors : Nat]
    BY <2>1 DEF IInv, TypesOK
  <2>3. TypesOK' /\ PlaceOK'
    BY <1>1, <2>1, <2>2 DEF IInv, TypesOK, PlaceOK, Signals
  <2>4. FollowUpsOK'
    BY <1>1, <2>1 DEF IInv, FollowUpsOK, With, Signals, Alive, Finished
  <2>5. RecordsOK'
    BY <1>1, <2>1, QuietStep
  <2> QED  BY <2>3, <2>4, <2>5 DEF IInv
<1> QED  BY <1>3, <1>4, <1>5

(* The lock holder hands its line to a thread.  No thread has its file: one *)
(* that is awaited would be the holder's, and an orphan of its category has *)
(* nobody after it.                                                         *)
LEMMA LineSubmittedOK ==
    ASSUME IInv, LineSubmitted
    PROVE  IInv'
<1>1. PICK c \in Submittable(rec) : rec' = Submitted(rec, c)
  BY DEF LineSubmitted
<1>2. UNCHANGED <<healthy, pc, at, todo, check, pending, draining, cooling, stats, stop>>
  BY DEF LineSubmitted
<1>3. TypesOK' /\ PlaceOK' /\ FollowUpsOK'
  BY <1>2 DEF IInv, TypesOK, PlaceOK, FollowUpsOK, With, Signals
<1>4. /\ RecorderOK(rec')
      /\ \A d \in rec'.calls : \E b \in rec.calls : b.by = d.by /\ b.line = d.line
      /\ rec'.threads = rec.threads \cup {AppendOf(c)}
      /\ Orphans(rec') \subseteq Orphans(rec)
      /\ Missed(rec') \subseteq Missed(rec)
  BY <1>1, SubmittedOK DEF IInv, RecordsOK
<1>5. c \in rec.calls /\ c \in Holders(rec) /\ c.append = "none" /\ CallOK(c)
  BY DEF Submittable, Holders, IInv, RecordsOK
<1>6. AppendOf(c).by = c.by /\ AppendOf(c).line = c.line
  BY DEF AppendOf
<1>7. ASSUME NEW t \in rec.threads PROVE t.line.cat # c.line.cat
  <2>1. CASE t \in Orphans(rec)
    <3>1. OrphanOK(t) /\ ThreadOK(t)
      BY <2>1 DEF IInv, RecordsOK
    <3>2. CASE c.by = Scan
      BY <1>5, <3>1, <3>2, LineParts DEF OrphanOK, ThreadOK, CallOK
    <3>3. CASE c.by # Scan
      <4>1. c.by \in With(Alive) /\ c.line.cat = "latency"
        BY <1>5, <3>3, LineParts DEF CallOK, With, Alive
      <4> QED  BY <3>1, <4>1 DEF OrphanOK, ThreadOK
    <3> QED  BY <3>2, <3>3
  <2>2. CASE t \notin Orphans(rec)
    <3>1. PICK d \in rec.calls : d.append = "running"
      BY <2>2 DEF Orphans, Awaits
    <3>2. c = d
      BY <1>5, <3>1, OneHolder DEF IInv, RecordsOK, RecorderOK
    <3> QED  BY <1>5, <3>1, <3>2
  <2> QED  BY <2>1, <2>2
<1>8. OneWriterPerFile'
  BY <1>4, <1>6, <1>7 DEF IInv, RecordsOK, OneWriterPerFile
<1>9. \A t \in rec'.threads : ThreadOK(t)'
  <2>1. ThreadOK(AppendOf(c))
    BY <1>5, <1>6 DEF ThreadOK, CallOK
  <2> QED  BY <1>4, <2>1 DEF IInv, RecordsOK, ThreadOK
<1>10. ASSUME NEW d \in rec'.calls PROVE CallOK(d)'
  BY <1>2, <1>4 DEF IInv, RecordsOK, CallOK, With, Signals
<1>11. /\ \A t \in Orphans(rec') : OrphanOK(t)'
       /\ \A line \in Missed(rec') : MissOK(line)'
  BY <1>2, <1>4 DEF IInv, RecordsOK, OrphanOK, MissOK, With, Signals
<1>12. RecordsOK'
  BY <1>4, <1>8, <1>9, <1>10, <1>11 DEF RecordsOK
<1> QED  BY <1>3, <1>12 DEF IInv

(* A thread ends.                                                           *)
LEMMA ThreadEndsOK ==
    ASSUME IInv, NEW t, ThreadEnds(t)
    PROVE  IInv'
<1>1. PICK ok \in BOOLEAN : rec' = Appended(rec, t, ok)
  BY DEF ThreadEnds
<1>2. /\ t \in rec.threads
      /\ UNCHANGED <<healthy, pc, at, todo, check, pending, draining, cooling, stats, stop>>
  BY DEF ThreadEnds
<1>3. TypesOK' /\ PlaceOK' /\ FollowUpsOK'
  BY <1>2 DEF IInv, TypesOK, PlaceOK, FollowUpsOK, With, Signals
<1>4. /\ RecorderOK(rec')
      /\ \A d \in rec'.calls : \E c \in rec.calls : c.by = d.by /\ c.line = d.line
      /\ rec'.threads \subseteq rec.threads
      /\ Orphans(rec') \subseteq Orphans(rec)
      /\ Missed(rec') \subseteq Missed(rec) \cup {u.line : u \in Orphans(rec)}
  BY <1>1, <1>2, AppendedOK DEF IInv, RecordsOK
<1>5. Steady
  BY <1>2 DEF Steady, With, Signals
<1>6. ASSUME NEW d \in rec'.calls PROVE CallOK(d)'
  BY <1>2, <1>4 DEF IInv, RecordsOK, CallOK, With, Signals
<1>7. ASSUME NEW u \in Orphans(rec) PROVE MissOK(u.line)'
  <2>1. OrphanOK(u) /\ ThreadOK(u)
    BY DEF IInv, RecordsOK, Orphans
  <2> QED  BY <1>2, <2>1, LineParts DEF OrphanOK, ThreadOK, MissOK, With, Signals
<1> QED  BY <1>3, <1>4, <1>5, <1>6, <1>7, RecordsKept DEF IInv

(* The lock is given back, the record observed or its append failed.        *)
LEMMA ReleaseOK ==
    ASSUME IInv, RecordObserved \/ FollowUpNotRecorded
    PROVE  IInv'
<1>1. UNCHANGED <<healthy, pc, at, todo, pending, draining, cooling, stop>>
  BY DEF RecordObserved, FollowUpNotRecorded
<1>2. PICK c \in rec.calls, end \in {"completed", "failed"} :
        /\ \/ c \in Observable(rec) /\ rec' = Observed(rec, c)
           \/ c \in FailedCalls(rec) /\ rec' = Failed(rec, c)
        /\ IF c.by = Scan THEN check' = check
           ELSE check' = [check EXCEPT ![c.by].status = end]
        /\ stats' = stats \/ stats' = [stats EXCEPT !.completed = @ + 1]
  BY DEF RecordObserved, FollowUpNotRecorded, Observable, FailedCalls, Holders
<1>3. /\ RecorderOK(rec')
      /\ \A d \in rec'.calls : \E b \in rec.calls : /\ b.by = d.by /\ b.line = d.line
                                                 /\ d.by # c.by
      /\ rec'.threads = rec.threads
      /\ Orphans(rec') \subseteq Orphans(rec)
      /\ Missed(rec') \subseteq Missed(rec)
  BY <1>2, ObservedOK, FailedOK DEF IInv, RecordsOK
<1>4. stats' \in [unique : Nat, completed : Nat, skipped : Nat, errors : Nat]
  <2>1. stats \in [unique : Nat, completed : Nat, skipped : Nat, errors : Nat]
    BY DEF IInv, TypesOK
  <2>2. CASE stats' = stats
    BY <2>1, <2>2
  <2>3. CASE stats' = [stats EXCEPT !.completed = @ + 1]
    BY <2>1, <2>3
  <2> QED  BY <1>2, <2>2, <2>3
<1>5. /\ check' \in Seq(Check) /\ Len(check') = Len(check) /\ Signals' = Signals
      /\ With(Alive)' \subseteq With(Alive)
      /\ With({"reporting"}) \ {c.by} \subseteq With({"reporting"})'
      /\ With({"cancelled"})' = With({"cancelled"})
  <2>1. CASE c.by = Scan
    BY <1>2, <2>1 DEF IInv, TypesOK, With, Signals
  <2>2. CASE c.by # Scan
    <3> DEFINE next == [check[c.by] EXCEPT !.status = end]
    <3>1. c.by \in With({"reporting"}) /\ c.by \in Signals
      BY <2>2 DEF IInv, RecordsOK, CallOK, With
    <3>2. check[c.by] \in Check /\ check' = [check EXCEPT ![c.by] = next]
      BY <1>2, <2>2, <3>1 DEF IInv, TypesOK, Signals
    <3>3. next \in Check /\ next.status = end
      BY <3>2 DEF Check, Finished
    <3> HIDE DEF next
    <3>4. /\ check' \in Seq(Check) /\ Len(check') = Len(check) /\ Signals' = Signals
          /\ \A set : With(set)' =
                IF end \in set THEN With(set) \cup {c.by} ELSE With(set) \ {c.by}
      BY <3>1, <3>2, <3>3, OneChanges DEF IInv
    <3>5. c.by \notin With({"cancelled"}) /\ end \notin Alive
      BY <3>1 DEF With, Alive
    <3> QED  BY <3>4, <3>5
  <2> QED  BY <2>1, <2>2
<1>6. TypesOK' /\ PlaceOK' /\ FollowUpsOK'
  BY <1>1, <1>4, <1>5 DEF IInv, TypesOK, PlaceOK, FollowUpsOK
<1>7. Steady
  BY <1>1, <1>5 DEF Steady
<1>8. ASSUME NEW d \in rec'.calls PROVE CallOK(d)'
  BY <1>1, <1>3, <1>5 DEF IInv, RecordsOK, CallOK
<1> QED  BY <1>3, <1>6, <1>7, <1>8, RecordsKept DEF IInv

-----------------------------------------------------------------------------
(* The initial states satisfy the invariant.                                *)
LEMMA InitOK == Init => IInv
<1> SUFFICES ASSUME Init PROVE IInv
  OBVIOUS
<1>1. TypesOK
  <2>1. stats \in [unique : Nat, completed : Nat, skipped : Nat, errors : Nat]
    BY DEF Init
  <2>2. at \in [cycle : 1..(NCycles + 1), size : 1..(NSizes + 1)]
    BY ConstantsOK DEF Init
  <2>3. /\ todo \in Seq(StageLines) /\ check \in Seq(Check) /\ Len(check) = 0
    BY DEF Init
  <2>4. pc \in Running /\ stop \in BOOLEAN /\ healthy \in [Cycles -> BOOLEAN]
    BY DEF Init, Running
  <2> QED  BY <2>1, <2>2, <2>3, <2>4, ConstantsOK DEF Init, TypesOK
<1>2. PlaceOK /\ FollowUpsOK
  BY <1>1 DEF Init, PlaceOK, FollowUpsOK, With, Signals
<1>3. rec = NewRecorder
  BY DEF Init
<1>4. RecorderOK(rec) /\ rec.calls = {} /\ rec.threads = {} /\ rec.lines = {}
  BY <1>3 DEF NewRecorder, RecorderOK, RecorderSet, QueueOK, WrittenOK
<1>5. RecordsOK
  BY <1>4 DEF RecordsOK, Orphans, Missed, OneWriterPerFile
<1> QED  BY <1>1, <1>2, <1>5 DEF IInv

(* Every step preserves it.                                                 *)
LEMMA StepOK == IInv /\ [Next]_vars => IInv'
<1> SUFFICES ASSUME IInv, [Next]_vars PROVE IInv'
  OBVIOUS
<1>1. CASE UNCHANGED vars
  <2>1. UNCHANGED <<healthy, pc, at, todo, check, pending, draining, cooling, stats, stop, rec>>
    BY <1>1 DEF vars
  <2>2. TypesOK' /\ PlaceOK' /\ FollowUpsOK'
    BY <2>1 DEF IInv, TypesOK, PlaceOK, FollowUpsOK, With, Signals
  <2> QED  BY <2>1, <2>2, QuietStep DEF IInv
<1>2. CASE \/ \E c \in Cycles : BooksChange(c)
           \/ \E pair \in cooling : CooldownPasses(pair)
           \/ Stop \/ RecorderCloses
  BY <1>2, EnvironmentOK
<1>3. CASE ScanStep
  BY <1>3, ScanMovesOK, ScanRecordsOK, SignalDetectedOK, DrainTimesOutOK, RunBreaksOK
  DEF ScanStep
<1>4. CASE RunCancelled \/ EndingCancelled
  BY <1>4, RunBreaksOK
<1>5. CASE \E id \in Signals : Rechecked(id) \/ RecheckFails(id) \/ FollowUpDone(id)
  BY <1>5, FollowUpStepOK
<1>6. CASE LineSubmitted \/ ThreadStep \/ Release \/ LoopCloses
  BY <1>6, LineSubmittedOK, ThreadEndsOK, ReleaseOK, RunBreaksOK, LoopClosesOK
  DEF ThreadStep, Release
<1> QED  BY <1>1, <1>2, <1>3, <1>4, <1>5, <1>6 DEF Next

(* The invariant holds of every reachable state.                            *)
LEMMA Invariant == Spec => []IInv
  BY InitOK, StepOK, PTL DEF Spec

(* The scanner's and the recorder's state is always of its type.            *)
THEOREM ScannerTypeCorrect == Spec => []TypeOK
  BY Invariant, IInvImplies, PTL

(* Two threads never append to the same file (recorder.py:332), whoever is  *)
(* cancelled or fails and however many signals wait for the lock.           *)
THEOREM ScannerOneWriterPerFile == Spec => []OneWriterPerFile
  BY Invariant, IInvImplies, PTL

(* In full mode the accumulator never counts a record that is not on disk   *)
(* (recorder.py:331-337).                                                   *)
THEOREM ScannerObservedOnlyIfWritten == Spec => []ObservedOnlyIfWritten
  BY Invariant, IInvImplies, PTL

(* A written line is missing from the final figures only if its record()    *)
(* call was cancelled.                                                      *)
THEOREM ScannerMissedOnlyWhenCancelled == Spec => []MissedOnlyWhenCancelled
  BY Invariant, IInvImplies, PTL

(* When run() returns or raises, no follow-up is running (scanner.py:547-   *)
(* 553, 564-584).                                                           *)
THEOREM ScannerNoFollowUpOutlivesRun == Spec => []NoFollowUpOutlivesRun
  BY Invariant, IInvImplies, PTL

-----------------------------------------------------------------------------
\* The backlog

BacklogOK == IsFiniteSet(pending) /\ Cardinality(pending) <= MaxPending

(* A step adds a follow-up only to a backlog that is not full.              *)
LEMMA BacklogStep == BacklogOK /\ [Next]_vars => BacklogOK'
<1> SUFFICES ASSUME BacklogOK, [Next]_vars PROVE BacklogOK'
  OBVIOUS
<1>1. CASE UNCHANGED pending
  BY <1>1 DEF BacklogOK
<1>2. CASE SignalDetected
  <2>1. pending' = pending \/ (~BacklogFull /\ pending' = pending \cup {Len(check) + 1})
    BY <1>2 DEF SignalDetected
  <2>2. CASE ~BacklogFull /\ pending' = pending \cup {Len(check) + 1}
    <3>1. Cardinality(pending) \in Nat /\ Cardinality(pending) < MaxPending
      BY <2>2, ConstantsOK, FS_CardinalityType DEF BacklogOK, BacklogFull
    <3>2. /\ IsFiniteSet(pending')
          /\ Cardinality(pending') <= Cardinality(pending) + 1
      <4> DEFINE more == pending \cup {Len(check) + 1}
      <4>1. /\ IsFiniteSet(more)
            /\ \/ Cardinality(more) = Cardinality(pending)
               \/ Cardinality(more) = Cardinality(pending) + 1
        BY FS_AddElement DEF BacklogOK
      <4> HIDE DEF more
      <4>2. pending' = more
        BY <2>2 DEF more
      <4> QED  BY <3>1, <4>1, <4>2
    <3>3. Cardinality(pending') \in Nat
      BY <3>2, FS_CardinalityType
    <3> QED  BY <3>1, <3>2, <3>3, ConstantsOK DEF BacklogOK
  <2> QED  BY <1>1, <2>1, <2>2
<1>3. CASE \E id \in Signals : FollowUpDone(id)
  <2>1. pending' \in SUBSET pending
    BY <1>3 DEF FollowUpDone
  <2>2. IsFiniteSet(pending') /\ Cardinality(pending') <= Cardinality(pending)
    BY <2>1, FS_Subset DEF BacklogOK
  <2>3. Cardinality(pending) \in Nat /\ Cardinality(pending') \in Nat
    BY <2>2, FS_CardinalityType DEF BacklogOK
  <2> QED  BY <2>2, <2>3, ConstantsOK DEF BacklogOK
<1>4. CASE \/ ScanStarts \/ CycleDismissed \/ CycleScreened \/ SizeDismissed
           \/ OpportunityRepeated \/ SignalFails \/ StageRecorded \/ SizeRecorded
           \/ ScanEnds \/ HealthRecorded \/ DrainStarts \/ DrainEnds \/ DrainTimesOut
           \/ RunReturns \/ RunCancelled \/ EndingCancelled \/ ScanNotRecorded
  BY <1>1, <1>4 DEF ScanStarts, CycleDismissed, CycleScreened, SizeDismissed,
     OpportunityRepeated, SignalFails, StageRecorded, SizeRecorded, ScanEnds, HealthRecorded,
     DrainStarts, DrainEnds, DrainTimesOut, RunReturns, RunCancelled, EndingCancelled,
     ScanNotRecorded, Raises
<1>5. CASE \/ \E c \in Cycles : BooksChange(c)
           \/ \E pair \in cooling : CooldownPasses(pair)
           \/ Stop \/ RecorderCloses \/ LoopCloses \/ LineSubmitted \/ ThreadStep
           \/ RecordObserved \/ FollowUpNotRecorded
           \/ \E id \in Signals : Rechecked(id) \/ RecheckFails(id)
  BY <1>1, <1>5 DEF BooksChange, CooldownPasses, Stop, RecorderCloses, LoopCloses,
     LineSubmitted, ThreadStep, ThreadEnds, RecordObserved, FollowUpNotRecorded, Rechecked,
     RecheckFails
<1>6. CASE UNCHANGED vars
  BY <1>1, <1>6 DEF vars
<1> QED  BY <1>2, <1>3, <1>4, <1>5, <1>6 DEF Next, ScanStep, Release

(* The backlog of follow-ups stays within max_pending_latency_checks        *)
(* (scanner.py:422-425).                                                    *)
THEOREM ScannerBacklogBounded == Spec => []BacklogBounded
<1>1. Init => BacklogOK
  BY FS_EmptySet, ConstantsOK DEF Init, BacklogOK
<1>2. BacklogOK => BacklogBounded
  BY DEF BacklogOK, BacklogBounded
<1> QED  BY <1>1, <1>2, BacklogStep, PTL DEF Spec

-----------------------------------------------------------------------------
\* The counters

Failures == With({"failed"}) \ pending

AccountsOK ==
    /\ stats.unique = Len(check)
    /\ stats.skipped = Cardinality(With({"skipped"}))
    /\ stats.completed = Cardinality(With({"completed"}))
    /\ stats.errors >= Cardinality(Failures)

(* There are finitely many signals, so that what is counted is a number.    *)
LEMMA SignalsFinite ==
    ASSUME TypesOK
    PROVE  /\ \A set \in SUBSET Signals : IsFiniteSet(set) /\ Cardinality(set) \in Nat
           /\ \A status : With(status) \subseteq Signals
<1>1. Signals = 1..Len(check) /\ Len(check) \in Nat
  BY DEF TypesOK, Signals
<1>2. IsFiniteSet(1..Len(check))
  BY <1>1, FS_Interval
<1>3. IsFiniteSet(Signals)
  BY <1>1, <1>2
<1> QED  BY <1>3, FS_Subset, FS_CardinalityType DEF With

(* What a cancellation leaves alone.                                        *)
LEMMA OthersNotCancelled ==
    ASSUME TypesOK, NEW ids, check' = Cancelled(ids),
           NEW status, status \cap (Alive \cup {"cancelled"}) = {}
    PROVE  With(status)' = With(status)
<1>1. Signals = 1..Len(check) /\ \A i \in Signals : check[i] \in Check
  BY DEF TypesOK, Signals
<1>2. Signals' = Signals
  BY SomeCancelled
<1>3. ASSUME NEW i \in Signals
      PROVE  check'[i].status \in status <=> check[i].status \in status
  <2>1. CASE i \in StillRunning(ids)
    <3>1. check'[i].status = "cancelled"
      BY <1>1, <2>1 DEF Cancelled, Check
    <3>2. check[i].status \in Alive
      BY <2>1 DEF StillRunning, With
    <3> QED  BY <3>1, <3>2
  <2>2. CASE i \notin StillRunning(ids)
    BY <2>2 DEF Cancelled
  <2> QED  BY <2>1, <2>2
<1> QED  BY <1>2, <1>3 DEF With

(* Signals end up with the accounts when only follow-ups that are counted   *)
(* nowhere change, and every failure among them is still to be reported.    *)
LEMMA AccountsKept ==
    ASSUME TypesOK, TypesOK', AccountsOK,
           UNCHANGED <<pending, stats>>, Len(check') = Len(check),
           With({"skipped"})' = With({"skipped"}),
           With({"completed"})' = With({"completed"}),
           With({"failed"})' \subseteq With({"failed"}) \cup pending
    PROVE  AccountsOK'
<1>1. Failures' \subseteq Failures
  BY DEF Failures
<1>2. Cardinality(Failures') <= Cardinality(Failures)
  BY <1>1, SignalsFinite, FS_Subset DEF Failures
<1>3. /\ Cardinality(Failures) \in Nat /\ Cardinality(Failures') \in Nat
      /\ stats.errors \in Nat
  BY <1>1, SignalsFinite DEF Failures, TypesOK
<1> QED  BY <1>2, <1>3 DEF AccountsOK

(* One more or one fewer.                                                   *)
LEMMA OneMore ==
    ASSUME NEW S, IsFiniteSet(S), NEW x, x \notin S
    PROVE  Cardinality(S \cup {x}) = Cardinality(S) + 1
  BY FS_AddElement

(* The signals are numbered and each has its Check.                         *)
LEMMA SignalsTyped ==
    ASSUME TypesOK
    PROVE  /\ check \in Seq(Check) /\ Len(check) \in Nat
           /\ Signals = 1..Len(check) /\ \A id \in Signals : check[id] \in Check
<1>1. check \in Seq(Check)
  BY DEF TypesOK
<1>2. Len(check) \in Nat /\ DOMAIN check = 1..Len(check)
  BY <1>1
<1>3. \A id \in DOMAIN check : check[id] \in Check
  BY <1>1
<1> QED  BY <1>1, <1>2, <1>3 DEF Signals

(* A new signal is counted, and so is the follow-up that it does not get.   *)
LEMMA AccountsDetected ==
    ASSUME IInv, IInv', AccountsOK, SignalDetected
    PROVE  AccountsOK'
<1> DEFINE id == Len(check) + 1
<1>1. PICK c \in [status : {IF BacklogFull THEN "skipped" ELSE "tracking"}, cycle : {at.cycle},
                  depth : Grades, fees : BOOLEAN, pessimistic : BOOLEAN, rechecks : {<<>>}] :
        /\ check' = Append(check, c)
        /\ pending' = IF BacklogFull THEN pending ELSE pending \cup {id}
        /\ stats' = [stats EXCEPT !.unique = @ + 1,
                                  !.skipped = IF BacklogFull THEN @ + 1 ELSE @]
  <2>1. PICK stage \in Stages, depth \in Grades :
          LET c == [cycle |-> at.cycle, depth |-> depth, fees |-> stage.fees,
                    pessimistic |-> stage.pessimistic, rechecks |-> <<>>,
                    status |-> IF BacklogFull THEN "skipped" ELSE "tracking"]
          IN  /\ check' = Append(check, c)
              /\ pending' = IF BacklogFull THEN pending ELSE pending \cup {id}
              /\ stats' = [stats EXCEPT !.unique = @ + 1,
                                        !.skipped = IF BacklogFull THEN @ + 1 ELSE @]
    BY DEF SignalDetected
  <2>2. stage.fees \in BOOLEAN /\ stage.pessimistic \in BOOLEAN
    BY ConstantsOK
  <2> QED  BY <2>1, <2>2
<1>2. check \in Seq(Check) /\ Len(check) \in Nat /\ id \notin Signals
  BY SignalsTyped DEF IInv
<1>3. /\ Len(check') = id /\ Signals' = Signals \cup {id}
      /\ check'[id] = c /\ \A i \in Signals : check'[i] = check[i]
  BY <1>1, <1>2 DEF Signals
<1>4. /\ With({"completed"})' = With({"completed"})
      /\ With({"failed"})' = With({"failed"})
      /\ With({"skipped"})' = IF BacklogFull THEN With({"skipped"}) \cup {id}
                              ELSE With({"skipped"})
  <2>1. c.status = IF BacklogFull THEN "skipped" ELSE "tracking"
    OBVIOUS
  <2>2. With({"completed"})' = With({"completed"})
    BY <1>2, <1>3, <2>1 DEF With
  <2>3. With({"failed"})' = With({"failed"})
    BY <1>2, <1>3, <2>1 DEF With
  <2>4. CASE BacklogFull
    BY <1>2, <1>3, <2>1, <2>2, <2>3, <2>4 DEF With
  <2>5. CASE ~BacklogFull
    BY <1>2, <1>3, <2>1, <2>2, <2>3, <2>5 DEF With
  <2> QED  BY <2>4, <2>5
<1>5. Failures' = Failures
  BY <1>1, <1>2, <1>4 DEF Failures, With
<1>6. Cardinality(With({"skipped"}) \cup {id}) = Cardinality(With({"skipped"})) + 1
  BY <1>2, SignalsFinite, OneMore DEF IInv
<1>7. /\ stats'.unique = stats.unique + 1
      /\ stats'.skipped = IF BacklogFull THEN stats.skipped + 1 ELSE stats.skipped
      /\ stats'.completed = stats.completed /\ stats'.errors = stats.errors
  BY <1>1 DEF IInv, TypesOK
<1> QED  BY <1>3, <1>4, <1>5, <1>6, <1>7 DEF AccountsOK

(* A record is observed: a follow-up completes, and is counted.             *)
LEMMA AccountsObserved ==
    ASSUME IInv, IInv', AccountsOK, RecordObserved
    PROVE  AccountsOK'
<1>1. PICK c \in Observable(rec) :
        IF c.by = Scan THEN UNCHANGED <<check, stats>>
        ELSE /\ check' = [check EXCEPT ![c.by].status = "completed"]
             /\ stats' = [stats EXCEPT !.completed = @ + 1]
  BY DEF RecordObserved
<1>2. UNCHANGED pending
  BY DEF RecordObserved
<1>3. CASE c.by = Scan
  BY <1>1, <1>2, <1>3, AccountsKept DEF IInv, With, Signals
<1>4. CASE c.by # Scan
  <2> DEFINE next == [check[c.by] EXCEPT !.status = "completed"]
  <2>1. c.by \in With({"reporting"}) /\ c.by \in Signals
    BY <1>4 DEF Observable, Holders, IInv, RecordsOK, CallOK, With
  <2>2. check[c.by] \in Check /\ check' = [check EXCEPT ![c.by] = next]
    BY <1>1, <1>4, <2>1, SignalsTyped DEF IInv
  <2>3. next \in Check /\ next.status = "completed"
    BY <2>2 DEF Check, Finished
  <2> HIDE DEF next
  <2>4. /\ Len(check') = Len(check)
        /\ \A set : With(set)' =
              IF next.status \in set THEN With(set) \cup {c.by} ELSE With(set) \ {c.by}
    <3>1. TypesOK
      BY DEF IInv
    <3> QED  BY <2>1, <2>2, <2>3, <3>1, OneChanges
  <2>5. c.by \notin With({"completed"}) /\ c.by \notin With({"skipped"})
        /\ c.by \notin With({"failed"})
    BY <2>1 DEF With
  <2>6. /\ With({"completed"})' = With({"completed"}) \cup {c.by}
        /\ With({"skipped"})' = With({"skipped"})
        /\ Failures' = Failures
    BY <1>2, <2>3, <2>4, <2>5 DEF Failures
  <2>7. Cardinality(With({"completed"}) \cup {c.by}) = Cardinality(With({"completed"})) + 1
    BY <2>5, SignalsFinite, OneMore DEF IInv
  <2>8. /\ stats'.completed = stats.completed + 1 /\ stats'.unique = stats.unique
        /\ stats'.skipped = stats.skipped /\ stats'.errors = stats.errors
    BY <1>1, <1>4 DEF IInv, TypesOK
  <2> QED  BY <2>4, <2>6, <2>7, <2>8 DEF AccountsOK
<1> QED  BY <1>3, <1>4

(* A follow-up that has ended is forgotten; if it failed, it is counted.    *)
LEMMA AccountsDone ==
    ASSUME IInv, IInv', AccountsOK, NEW id \in Signals, FollowUpDone(id)
    PROVE  AccountsOK'
<1>1. /\ pending' = pending \ {id} /\ UNCHANGED check
      /\ stats' = [stats EXCEPT !.errors = IF check[id].status = "failed" THEN @ + 1 ELSE @]
  BY DEF FollowUpDone
<1>2. /\ stats'.unique = stats.unique /\ stats'.skipped = stats.skipped
      /\ stats'.completed = stats.completed /\ stats.errors \in Nat
      /\ stats'.errors = IF check[id].status = "failed" THEN stats.errors + 1
                         ELSE stats.errors
  BY <1>1 DEF IInv, TypesOK
<1>3. \A status : With(status)' = With(status)
  BY <1>1 DEF With, Signals
<1>4. Failures' = IF check[id].status = "failed" THEN Failures \cup {id} ELSE Failures
  <2>1. CASE check[id].status = "failed"
    <3>1. id \in With({"failed"})
      BY <2>1 DEF With
    <3> QED  BY <1>1, <1>3, <2>1, <3>1 DEF Failures
  <2>2. CASE check[id].status # "failed"
    <3>1. id \notin With({"failed"})
      BY <2>2 DEF With
    <3> QED  BY <1>1, <1>3, <2>2, <3>1 DEF Failures
  <2> QED  BY <2>1, <2>2
<1>5. IsFiniteSet(Failures) /\ Cardinality(Failures) \in Nat
  BY SignalsFinite DEF IInv, Failures
<1>6. /\ Cardinality(Failures \cup {id}) <= Cardinality(Failures) + 1
      /\ Cardinality(Failures \cup {id}) \in Nat
  <2>1. \/ Cardinality(Failures \cup {id}) = Cardinality(Failures)
        \/ Cardinality(Failures \cup {id}) = Cardinality(Failures) + 1
    BY <1>5, FS_AddElement
  <2> QED  BY <1>5, <2>1
<1> QED  BY <1>1, <1>2, <1>3, <1>4, <1>5, <1>6 DEF AccountsOK

(* Follow-ups end without being counted: as yet, or because they were       *)
(* cancelled.                                                               *)
LEMMA AccountsChanged ==
    ASSUME IInv, IInv', AccountsOK,
           \/ \E id \in Signals : Rechecked(id) \/ RecheckFails(id)
           \/ FollowUpNotRecorded \/ ScanNotRecorded \/ DrainTimesOut
           \/ RunCancelled \/ SignalFails \/ LoopCloses
    PROVE  AccountsOK'
<1>1. UNCHANGED <<pending, stats>>
  BY DEF Rechecked, RecheckFails, FollowUpNotRecorded, ScanNotRecorded, DrainTimesOut,
         RunCancelled, SignalFails, LoopCloses, Raises
<1>2. CASE UNCHANGED check
  BY <1>1, <1>2, AccountsKept DEF IInv, With, Signals
<1>3. CASE \E ids : check' = Cancelled(ids)
  BY <1>1, <1>3, SomeCancelled, OthersNotCancelled, AccountsKept DEF IInv, Alive
<1>4. CASE \E id \in With(Alive), c \in Check :
               /\ c.status \in Alive \cup {"failed"}
               /\ check' = [check EXCEPT ![id] = c]
  <2>1. PICK id \in With(Alive), c \in Check :
               /\ c.status \in Alive \cup {"failed"}
               /\ check' = [check EXCEPT ![id] = c]
    BY <1>4
  <2>2. id \in Signals /\ id \in pending
    BY <2>1 DEF With, IInv, FollowUpsOK
  <2>3. /\ Len(check') = Len(check)
        /\ \A set : With(set)' =
              IF c.status \in set THEN With(set) \cup {id} ELSE With(set) \ {id}
    BY <2>1, <2>2, OneChanges DEF IInv
  <2>4. id \notin With({"skipped"}) /\ id \notin With({"completed"})
    BY <2>1 DEF With, Alive
  <2> QED  BY <1>1, <2>1, <2>2, <2>3, <2>4, AccountsKept DEF IInv, Alive
<1>5. ASSUME NEW id \in Signals, Rechecked(id)
      PROVE  \E c \in Check : /\ c.status \in Alive \cup {"failed"}
                              /\ check' = [check EXCEPT ![id] = c]
  <2>0. check[id] \in Check
    BY SignalsTyped DEF IInv
  <2>1. check[id] \in Check /\ check[id].rechecks \in Seq(AllGrades)
    BY <2>0 DEF Check
  <2>2. PICK grade \in Grades \cup {"dead"}, status \in Alive \cup {"failed"} :
          check' = [check EXCEPT ![id] =
              [[check[id] EXCEPT !.rechecks = Append(@, grade)] EXCEPT !.status = status]]
    BY <1>5 DEF Rechecked, Alive
  <2>3. Append(check[id].rechecks, grade) \in Seq(AllGrades)
    BY <2>1, ConstantsOK DEF AllGrades
  <2>4. [[check[id] EXCEPT !.rechecks = Append(@, grade)] EXCEPT !.status = status]
           = [check[id] EXCEPT !.rechecks = Append(check[id].rechecks, grade),
                               !.status = status]
    BY <2>1 DEF Check
  <2>5. status \in {"skipped"} \cup Alive \cup Finished
    BY DEF Finished
  <2> DEFINE c == [check[id] EXCEPT !.rechecks = Append(check[id].rechecks, grade),
                                    !.status = status]
  <2>6. c \in Check /\ c.status = status
    BY <2>1, <2>3, <2>5 DEF Check
  <2> QED  BY <2>2, <2>4, <2>6
<1>6. ASSUME NEW id \in Signals, check' = [check EXCEPT ![id].status = "failed"]
      PROVE  \E c \in Check : /\ c.status \in Alive \cup {"failed"}
                              /\ check' = [check EXCEPT ![id] = c]
  <2>1. check[id] \in Check
    BY SignalsTyped DEF IInv
  <2> DEFINE c == [check[id] EXCEPT !.status = "failed"]
  <2>2. c \in Check /\ c.status = "failed"
    BY <2>1 DEF Check, Finished
  <2> QED  BY <1>6, <2>2
<1>7. CASE \E id \in Signals : Rechecked(id) \/ RecheckFails(id)
  BY <1>4, <1>5, <1>6, <1>7 DEF Rechecked, RecheckFails, With, Alive
<1>8. CASE FollowUpNotRecorded
  <2>1. PICK c \in FailedCalls(rec) :
            c.by # Scan /\ check' = [check EXCEPT ![c.by].status = "failed"]
    BY <1>8 DEF FollowUpNotRecorded
  <2>2. c.by \in With({"reporting"})
    BY <2>1 DEF FailedCalls, Holders, IInv, RecordsOK, CallOK
  <2>3. c.by \in Signals /\ c.by \in With(Alive)
    BY <2>2 DEF With, Alive
  <2> QED  BY <1>4, <1>6, <2>1, <2>3
<1> QED  BY <1>2, <1>3, <1>7, <1>8 DEF ScanNotRecorded, DrainTimesOut, RunCancelled, SignalFails,
            LoopCloses, Raises

(* Every step keeps the accounts.                                           *)
LEMMA AccountsStep == IInv /\ IInv' /\ AccountsOK /\ [Next]_vars => AccountsOK'
<1> SUFFICES ASSUME IInv, IInv', AccountsOK, [Next]_vars PROVE AccountsOK'
  OBVIOUS
<1>1. CASE UNCHANGED <<check, pending, stats>>
  BY <1>1, AccountsKept DEF IInv, With, Signals
<1>2. CASE CycleDismissed \/ SizeDismissed
  <2>1. UNCHANGED <<check, pending>> /\ (UNCHANGED stats \/ stats' = [stats EXCEPT !.errors = @ + 1])
    BY <1>2 DEF CycleDismissed, SizeDismissed
  <2>2. CASE stats' = [stats EXCEPT !.errors = @ + 1]
    <3>1. /\ stats'.unique = stats.unique /\ stats'.skipped = stats.skipped
          /\ stats'.completed = stats.completed /\ stats'.errors = stats.errors + 1
          /\ stats.errors \in Nat
      BY <2>2 DEF IInv, TypesOK
    <3>2. /\ \A status : With(status)' = With(status)
          /\ Failures' = Failures
      BY <2>1 DEF With, Signals, Failures
    <3>3. Cardinality(Failures) \in Nat
      BY SignalsFinite DEF IInv, Failures
    <3> QED  BY <2>1, <3>1, <3>2, <3>3 DEF AccountsOK
  <2> QED  BY <1>1, <2>1, <2>2
<1>3. CASE \/ ScanStarts \/ CycleScreened \/ OpportunityRepeated \/ StageRecorded \/ SizeRecorded
           \/ ScanEnds \/ HealthRecorded \/ DrainStarts \/ DrainEnds \/ RunReturns
           \/ EndingCancelled \/ LineSubmitted \/ ThreadStep \/ RecorderCloses
           \/ \E c \in Cycles : BooksChange(c)
           \/ \E pair \in cooling : CooldownPasses(pair)
           \/ Stop \/ UNCHANGED vars
  BY <1>1, <1>3 DEF ScanStarts, CycleScreened, OpportunityRepeated, StageRecorded, SizeRecorded,
     ScanEnds, HealthRecorded, DrainStarts, DrainEnds, RunReturns, EndingCancelled,
     LineSubmitted, ThreadStep, ThreadEnds, RecorderCloses, BooksChange, CooldownPasses, Stop,
     vars
<1>4. CASE SignalDetected
  BY <1>4, AccountsDetected
<1>5. CASE RecordObserved
  BY <1>5, AccountsObserved
<1>6. CASE \E id \in Signals : FollowUpDone(id)
  BY <1>6, AccountsDone
<1>7. CASE \/ \E id \in Signals : Rechecked(id) \/ RecheckFails(id)
           \/ FollowUpNotRecorded \/ ScanNotRecorded \/ DrainTimesOut
           \/ RunCancelled \/ SignalFails \/ LoopCloses
  BY <1>7, AccountsChanged
<1> QED  BY <1>2, <1>3, <1>4, <1>5, <1>6, <1>7 DEF Next, ScanStep, Release

(* Every unique signal is accounted for by the counters of ScanStats        *)
(* (scanner.py:386-437): skipped, running, or ended in exactly one way, and *)
(* no failure goes uncounted once its task is gone.                         *)
THEOREM ScannerSignalsAccounted == Spec => []SignalsAccounted
<1>1. Init => AccountsOK
  <2> SUFFICES ASSUME Init PROVE AccountsOK
    OBVIOUS
  <2>1. /\ check = <<>> /\ With({"skipped"}) = {} /\ With({"completed"}) = {}
        /\ With({"failed"}) = {}
    BY DEF Init, With, Signals
  <2>2. Cardinality({}) = 0
    BY FS_EmptySet
  <2>3. Failures = {}
    BY <2>1 DEF Failures
  <2>4. /\ stats.unique = 0 /\ stats.skipped = 0 /\ stats.completed = 0 /\ stats.errors = 0
        /\ Len(check) = 0
    BY <2>1 DEF Init
  <2>5. /\ Cardinality(With({"skipped"})) = 0 /\ Cardinality(With({"completed"})) = 0
        /\ Cardinality(Failures) = 0
    BY <2>1, <2>2, <2>3
  <2> QED  BY <2>4, <2>5 DEF AccountsOK
<1>2. IInv /\ AccountsOK => SignalsAccounted
  BY DEF AccountsOK, Failures, SignalsAccounted, IInv, FollowUpsOK
<1> QED  BY <1>1, <1>2, Invariant, AccountsStep, PTL DEF Spec

-----------------------------------------------------------------------------
\* What a step does to a signal

\* What is known of a signal when it is detected never changes.
SameSignal(c, d) ==
    d.cycle = c.cycle /\ d.depth = c.depth /\ d.fees = c.fees /\ d.pessimistic = c.pessimistic

\* How a follow-up goes on, if it does not look at the books again.
GoesOn(c, d) ==
    /\ SameSignal(c, d) /\ d.rechecks = c.rechecks
    /\ \/ d.status = c.status
       \/ c.status \in Alive /\ d.status \in {"failed", "cancelled"}
       \/ c.status = "reporting" /\ d.status = "completed"

(* A new signal is the last one, and its follow-up begins or is skipped.    *)
LEMMA DetectedSignal ==
    ASSUME IInv, SignalDetected
    PROVE  \E c \in Check, sampled \in BOOLEAN :
             LET id == Len(check) + 1 IN
               /\ id \in Ids /\ id \notin Signals /\ id # 0
               /\ Len(check') = id /\ Signals' = Signals \cup {id}
               /\ check'[id] = c /\ \A i \in Signals : check'[i] = check[i]
               /\ c.depth \in Grades /\ c.rechecks = <<>> /\ c.status \in {"skipped", "tracking"}
               /\ todo' = StagesOf(id, c)
               /\ rec' = Called(rec, Scan, Line("raw_opportunity", id), FALSE, sampled)
<1> DEFINE id == Len(check) + 1
           new(stage, depth) ==
               [cycle |-> at.cycle, depth |-> depth, fees |-> stage.fees,
                pessimistic |-> stage.pessimistic, rechecks |-> <<>>,
                status |-> IF BacklogFull THEN "skipped" ELSE "tracking"]
<1>1. PICK stage \in Stages, depth \in Grades, sampled \in BOOLEAN :
        /\ check' = Append(check, new(stage, depth))
        /\ todo' = StagesOf(id, new(stage, depth))
        /\ rec' = Called(rec, Scan, Line("raw_opportunity", id), FALSE, sampled)
  BY DEF SignalDetected
<1>2. pc = "size" /\ Len(check) < MaxSignals
  BY DEF SignalDetected
<1>3. check \in Seq(Check) /\ Len(check) \in Nat /\ at.cycle \in Cycles
  BY <1>2 DEF IInv, TypesOK, PlaceOK
<1>4. id \in Ids /\ id \notin Signals /\ id # 0
  BY <1>2, <1>3, ConstantsOK DEF Ids, Signals
<1>5. new(stage, depth) \in Check
  <2>1. depth \in AllGrades /\ stage.fees \in BOOLEAN /\ stage.pessimistic \in BOOLEAN
    BY ConstantsOK
  <2>2. (IF BacklogFull THEN "skipped" ELSE "tracking") \in {"skipped"} \cup Alive \cup Finished
    BY DEF Alive
  <2>3. <<>> \in Seq(AllGrades)
    OBVIOUS
  <2> QED  BY <1>3, <2>1, <2>2, <2>3 DEF Check
<1>6. /\ new(stage, depth).status \in {"skipped", "tracking"}
      /\ new(stage, depth).rechecks = <<>> /\ new(stage, depth).depth \in Grades
  OBVIOUS
<1> HIDE DEF new
<1>7. /\ Len(check') = id /\ Signals' = Signals \cup {id}
      /\ check'[id] = new(stage, depth) /\ \A i \in Signals : check'[i] = check[i]
  BY <1>1, <1>3, <1>5, AppendProperties DEF Signals
<1> QED  BY <1>1, <1>4, <1>5, <1>6, <1>7

(* One bucket adds one reading, and after the last one the verdict is given *)
(* to the recorder.                                                         *)
LEMMA RecheckedSignal ==
    ASSUME IInv, NEW id \in Signals, Rechecked(id)
    PROVE  /\ Signals' = Signals /\ Len(check') = Len(check)
           /\ \A i \in Signals \ {id} : check'[i] = check[i]
           /\ SameSignal(check[id], check'[id])
           /\ check[id].status = "tracking"
           /\ check'[id].status \in {"tracking", "failed", "reporting"}
           /\ check'[id].status = "tracking" => Len(check'[id].rechecks) # NBuckets
           /\ check'[id].status = "reporting" => Len(check'[id].rechecks) = NBuckets
           /\ Len(check'[id].rechecks) = Len(check[id].rechecks) + 1
           /\ rec' = IF check'[id].status = "reporting"
                     THEN Called(rec, id, Line("latency", id), FALSE, FALSE) ELSE rec
<1>1. check[id] \in Check /\ check \in Seq(Check)
  BY SignalsTyped DEF IInv
<1>2. check[id].rechecks \in Seq(AllGrades)
  BY <1>1 DEF Check
<1>3. PICK grade \in Grades \cup {"dead"} :
        LET c == [check[id] EXCEPT !.rechecks = Append(@, grade)]
            last == Len(c.rechecks) = NBuckets
            status == IF ~last THEN "tracking" ELSE IF rec.closed THEN "failed" ELSE "reporting"
        IN  /\ check' = [check EXCEPT ![id] = [c EXCEPT !.status = status]]
            /\ rec' = IF status = "reporting"
                      THEN Called(rec, id, Line("latency", id), FALSE, FALSE) ELSE rec
  BY DEF Rechecked
<1> DEFINE more == Append(check[id].rechecks, grade)
           c == [check[id] EXCEPT !.rechecks = more]
           status == IF Len(c.rechecks) # NBuckets THEN "tracking"
                     ELSE IF rec.closed THEN "failed" ELSE "reporting"
           next == [c EXCEPT !.status = status]
<1>4. /\ check' = [check EXCEPT ![id] = next]
      /\ rec' = IF status = "reporting"
                THEN Called(rec, id, Line("latency", id), FALSE, FALSE) ELSE rec
  BY <1>1, <1>3 DEF Check
<1>5. more \in Seq(AllGrades) /\ Len(more) = Len(check[id].rechecks) + 1
  BY <1>2, ConstantsOK DEF AllGrades
<1>6. /\ SameSignal(check[id], next) /\ next.rechecks = more
      /\ next.status = IF Len(more) # NBuckets THEN "tracking"
                       ELSE IF rec.closed THEN "failed" ELSE "reporting"
      /\ next.status = status
  <2> HIDE DEF more
  <2> QED  BY <1>1 DEF Check, SameSignal
<1> HIDE DEF next, status, c
<1>7. /\ check'[id] = next /\ \A i \in Signals \ {id} : check'[i] = check[i]
      /\ Signals' = Signals
  BY <1>1, <1>4 DEF Signals
<1>8. Len(check') = Len(check)
  BY <1>1, <1>4
<1>9. check[id].status = "tracking"
  BY DEF Rechecked, With
<1> HIDE DEF more
<1> QED  BY <1>4, <1>5, <1>6, <1>7, <1>8, <1>9

Becomes(id, status) == check' = [check EXCEPT ![id].status = status]

(* The status of one follow-up is set.                                      *)
LEMMA StatusSet ==
    ASSUME TypesOK, NEW id \in Signals, NEW end, Becomes(id, end)
    PROVE  /\ Signals' = Signals /\ Len(check') = Len(check)
           /\ \A i \in Signals \ {id} : check'[i] = check[i]
           /\ SameSignal(check[id], check'[id]) /\ check'[id].rechecks = check[id].rechecks
           /\ check'[id].status = end
<1>1. check[id] \in Check /\ check \in Seq(Check)
  BY DEF TypesOK, Signals
<1> DEFINE next == [check[id] EXCEPT !.status = end]
<1>2. SameSignal(check[id], next) /\ next.rechecks = check[id].rechecks /\ next.status = end
  BY <1>1 DEF Check, SameSignal
<1>3. check' = [check EXCEPT ![id] = next]
  BY DEF Becomes
<1> HIDE DEF next
<1>4. /\ check'[id] = next /\ \A i \in Signals \ {id} : check'[i] = check[i]
      /\ Signals' = Signals /\ Len(check') = Len(check)
  BY <1>1, <1>3 DEF Signals
<1> QED  BY <1>2, <1>4

(* Signals are cancelled, and only those that run.                          *)
LEMMA SignalsCancelled ==
    ASSUME TypesOK, NEW ids, check' = Cancelled(ids)
    PROVE  /\ Signals' = Signals /\ Len(check') = Len(check)
           /\ \A i \in Signals : GoesOn(check[i], check'[i])
           /\ \A i \in Signals : check'[i].status # check[i].status
                => check'[i].status = "cancelled"
<1>1. Signals' = Signals /\ Len(check') = Len(check)
  BY SomeCancelled
<1>2. ASSUME NEW i \in Signals
      PROVE  /\ GoesOn(check[i], check'[i])
             /\ check'[i].status # check[i].status => check'[i].status = "cancelled"
  <2>1. check[i] \in Check
    BY DEF TypesOK, Signals
  <2>2. CASE i \in StillRunning(ids)
    <3>1. check[i].status \in Alive
      BY <2>2 DEF StillRunning, With
    <3>2. check'[i] = [check[i] EXCEPT !.status = "cancelled"]
      BY <2>2 DEF Cancelled
    <3> QED  BY <2>1, <3>1, <3>2 DEF Check, GoesOn, SameSignal
  <2>3. CASE i \notin StillRunning(ids)
    <3>1. check'[i] = check[i]
      BY <2>3 DEF Cancelled
    <3> QED  BY <3>1 DEF GoesOn, SameSignal
  <2> QED  BY <2>2, <2>3
<1> QED  BY <1>1, <1>2

\* Every signal goes on without looking at the books.
AllGoOn ==
    /\ Signals' = Signals /\ Len(check') = Len(check)
    /\ \A id \in Signals : GoesOn(check[id], check'[id])

NoneCompletes ==
    \A id \in Signals : check'[id].status = "completed" => check[id].status = "completed"

(* A step that neither finds a signal nor looks at the books for one; if no *)
(* record is observed, no follow-up completes.                              *)
LEMMA OtherSteps ==
    ASSUME IInv, [Next]_vars, ~SignalDetected, \A id \in Signals : ~Rechecked(id)
    PROVE  AllGoOn /\ (NoneCompletes \/ RecordObserved)
<1>0. TypesOK
  BY DEF IInv
<1>1. CASE UNCHANGED check
  BY <1>1 DEF AllGoOn, NoneCompletes, GoesOn, SameSignal, Signals
<1>2. CASE \E ids : check' = Cancelled(ids)
  BY <1>0, <1>2, SignalsCancelled DEF AllGoOn, NoneCompletes
<1>3. ASSUME NEW id \in Signals, NEW end \in {"failed", "completed"},
             Becomes(id, end),
             \/ check[id].status = "reporting"
             \/ end = "failed" /\ check[id].status \in Alive
      PROVE  AllGoOn /\ (NoneCompletes \/ end = "completed")
  <2>1. /\ Signals' = Signals /\ Len(check') = Len(check)
        /\ \A i \in Signals \ {id} : check'[i] = check[i]
        /\ SameSignal(check[id], check'[id]) /\ check'[id].rechecks = check[id].rechecks
        /\ check'[id].status = end
    BY <1>0, <1>3, StatusSet
  <2>2. \A i \in Signals : GoesOn(check[i], check'[i])
    BY <1>3, <2>1 DEF GoesOn, SameSignal, Alive
  <2> QED  BY <2>1, <2>2 DEF AllGoOn, NoneCompletes
<1>4. ASSUME NEW id \in Signals, RecheckFails(id) PROVE AllGoOn /\ NoneCompletes
  BY <1>3, <1>4 DEF RecheckFails, With, Alive, Becomes
<1>5. CASE RecordObserved \/ FollowUpNotRecorded
  <2>1. ASSUME NEW c \in rec.calls, c.by # Scan PROVE c.by \in With({"reporting"})
    BY <2>1 DEF IInv, RecordsOK, CallOK
  <2>2. ASSUME NEW id \in With({"reporting"}), NEW end \in {"failed", "completed"},
               Becomes(id, end)
        PROVE  AllGoOn /\ (NoneCompletes \/ end = "completed")
    BY <1>3, <2>2 DEF With
  <2>3. CASE RecordObserved
    <3>1. PICK c \in Observable(rec) :
            IF c.by = Scan THEN UNCHANGED <<check, stats>>
            ELSE /\ check' = [check EXCEPT ![c.by].status = "completed"]
                 /\ stats' = [stats EXCEPT !.completed = @ + 1]
      BY <2>3 DEF RecordObserved
    <3>2. c.by # Scan => Becomes(c.by, "completed")
      BY <3>1 DEF Becomes
    <3> QED  BY <1>1, <2>1, <2>2, <2>3, <3>1, <3>2 DEF Observable, Holders
  <2>4. CASE FollowUpNotRecorded
    <3>1. PICK c \in FailedCalls(rec) :
            c.by # Scan /\ check' = [check EXCEPT ![c.by].status = "failed"]
      BY <2>4 DEF FollowUpNotRecorded
    <3>2. Becomes(c.by, "failed")
      BY <3>1 DEF Becomes
    <3> HIDE DEF Becomes
    <3>3. c \in rec.calls /\ c.by # Scan
      BY <3>1 DEF FailedCalls, Holders
    <3> QED  BY <2>1, <2>2, <3>2, <3>3
  <2> QED  BY <1>5, <2>3, <2>4
<1>6. CASE \/ DrainTimesOut \/ RunCancelled \/ SignalFails \/ LoopCloses \/ ScanNotRecorded
  BY <1>1, <1>2, <1>6 DEF DrainTimesOut, RunCancelled, SignalFails, LoopCloses,
     ScanNotRecorded, Raises
<1>7. CASE \/ ScanStarts \/ CycleDismissed \/ CycleScreened \/ SizeDismissed
           \/ OpportunityRepeated \/ StageRecorded \/ SizeRecorded
           \/ ScanEnds \/ HealthRecorded \/ DrainStarts \/ DrainEnds \/ RunReturns
           \/ EndingCancelled \/ LineSubmitted \/ ThreadStep \/ RecorderCloses
           \/ (\E id \in Signals : FollowUpDone(id))
           \/ (\E c \in Cycles : BooksChange(c))
           \/ (\E pair \in cooling : CooldownPasses(pair))
           \/ Stop \/ UNCHANGED vars
  BY <1>1, <1>7 DEF ScanStarts, CycleDismissed, CycleScreened, SizeDismissed,
     OpportunityRepeated, StageRecorded, SizeRecorded, ScanEnds, HealthRecorded, DrainStarts,
     DrainEnds, RunReturns, EndingCancelled, LineSubmitted, ThreadStep, ThreadEnds,
     RecorderCloses, FollowUpDone, BooksChange, CooldownPasses, Stop, vars
<1> QED  BY <1>4, <1>5, <1>6, <1>7 DEF Next, ScanStep, Release

-----------------------------------------------------------------------------
\* The verdicts

\* A follow-up that still looks has a bucket left, one that reports has none.
RechecksOK ==
    \A id \in Signals :
        /\ check[id].depth \in Grades
        /\ check[id].status = "tracking" => Len(check[id].rechecks) < NBuckets
        /\ check[id].status \in {"reporting", "completed"} => Len(check[id].rechecks) = NBuckets

(* Every step keeps the readings of the follow-ups in order.                *)
LEMMA RechecksStep == IInv /\ RechecksOK /\ [Next]_vars => RechecksOK'
<1> SUFFICES ASSUME IInv, RechecksOK, [Next]_vars PROVE RechecksOK'
  OBVIOUS
<1>1. CASE SignalDetected
  <2>1. PICK c \in Check :
          LET id == Len(check) + 1 IN
            /\ Signals' = Signals \cup {id}
            /\ check'[id] = c /\ \A i \in Signals : check'[i] = check[i]
            /\ c.depth \in Grades /\ c.rechecks = <<>> /\ c.status \in {"skipped", "tracking"}
    BY <1>1, DetectedSignal
  <2> QED  BY <2>1, ConstantsOK DEF RechecksOK
<1>2. ASSUME NEW id \in Signals, Rechecked(id) PROVE RechecksOK'
  <2>1. /\ Signals' = Signals /\ \A i \in Signals \ {id} : check'[i] = check[i]
        /\ SameSignal(check[id], check'[id]) /\ check[id].status = "tracking"
        /\ check'[id].status \in {"tracking", "failed", "reporting"}
        /\ check'[id].status = "tracking" => Len(check'[id].rechecks) # NBuckets
        /\ check'[id].status = "reporting" => Len(check'[id].rechecks) = NBuckets
        /\ Len(check'[id].rechecks) = Len(check[id].rechecks) + 1
    BY <1>2, RecheckedSignal
  <2>2. check[id] \in Check
    BY SignalsTyped DEF IInv
  <2>3. Len(check[id].rechecks) \in Nat /\ Len(check[id].rechecks) < NBuckets
    BY <2>1, <2>2 DEF Check, RechecksOK
  <2>4. /\ check'[id].depth \in Grades
        /\ check'[id].status = "tracking" => Len(check'[id].rechecks) < NBuckets
        /\ check'[id].status \in {"reporting", "completed"}
             => Len(check'[id].rechecks) = NBuckets
    BY <2>1, <2>3, ConstantsOK DEF SameSignal, RechecksOK
  <2> QED  BY <2>1, <2>4 DEF RechecksOK
<1>3. CASE AllGoOn
  BY <1>3 DEF AllGoOn, GoesOn, SameSignal, RechecksOK, Alive
<1> QED  BY <1>1, <1>2, <1>3, OtherSteps

Earlier == {pair \in Nat \X Nat : pair[1] < pair[2]}

(* A nonempty set of buckets has a first one.                               *)
LEMMA FirstBucket ==
    ASSUME NEW S \in SUBSET Nat, S # {}
    PROVE  \E b \in S : \A other \in S : b <= other
<1>1. OpToRel(<, Nat) = Earlier
  BY DEF OpToRel, Earlier
<1>2. IsWellFoundedOn(Earlier, Nat)
  BY <1>1, NatLessThanWellFounded, Zenon
<1>3. PICK b \in S : \A other \in S : ~(<<other, b>> \in Earlier)
  BY <1>2, WFMin, Zenon
<1>4. ASSUME NEW other \in S PROVE b <= other
  <2>1. <<other, b>> \notin Earlier /\ <<other, b>> \in Nat \X Nat
    BY <1>3
  <2> QED  BY <2>1 DEF Earlier
<1> QED  BY <1>4

(* What a follow-up reports agrees with what it has seen.                   *)
LEMMA VerdictRight ==
    ASSUME NEW c \in Check, c.depth # "thin",
           Len(c.rechecks) = NBuckets
    PROVE  LET v == Verdict(c)
               gone == {b \in 1..NBuckets : ~AboveThreshold(c.rechecks[b])}
           IN  /\ v.ghost <=> ~Profitable(c.depth) \/ 1 \in gone
               /\ v.disappeared <=> ~Profitable(c.depth) \/ gone # {}
               /\ Profitable(c.depth) =>
                   /\ v.disappeared => v.lifetime \in gone
                   /\ gone \cap 1..(v.lifetime - 1) = {}
<1> DEFINE gone == {b \in 1..NBuckets : ~AboveThreshold(c.rechecks[b])}
           first == CHOOSE b \in gone : \A other \in gone : b <= other
<1>1. c.rechecks \in Seq(AllGrades) /\ c.depth \in AllGrades /\ DOMAIN c.rechecks = 1..NBuckets
  BY DEF Check
<1>2. Profitable(c.depth) <=> AboveThreshold(c.depth) /\ c.depth # "under"
  BY <1>1 DEF AllGrades, Profitable, AboveThreshold
<1>3. gone # {} => first \in gone /\ \A other \in gone : first <= other
  <2>1. gone \in SUBSET Nat
    OBVIOUS
  <2> HIDE DEF gone
  <2> QED  BY <2>1, FirstBucket
<1>4. Verdict(c) =
        IF ~Profitable(c.depth)
        THEN [disappeared |-> TRUE, lifetime |-> 0, ghost |-> TRUE]
        ELSE [disappeared |-> AboveThreshold(c.depth) /\ gone # {},
              lifetime |-> IF AboveThreshold(c.depth) /\ gone # {} THEN first
                           ELSE Len(c.rechecks),
              ghost |-> AboveThreshold(c.depth) /\ gone # {} /\ first = 1]
  BY <1>1 DEF Verdict
<1>5. gone \subseteq 1..NBuckets /\ NBuckets \in Nat
  BY ConstantsOK
<1> HIDE DEF gone, first
<1>6. CASE ~Profitable(c.depth)
  BY <1>4, <1>6 DEF gone
<1>7. CASE Profitable(c.depth)
  <2> DEFINE died == AboveThreshold(c.depth) /\ gone # {}
             ghost == AboveThreshold(c.depth) /\ gone # {} /\ first = 1
             life == IF AboveThreshold(c.depth) /\ gone # {} THEN first ELSE Len(c.rechecks)
  <2>1. Verdict(c) = [disappeared |-> died, lifetime |-> life, ghost |-> ghost]
    BY <1>4, <1>7
  <2>4. Verdict(c).disappeared = died /\ Verdict(c).lifetime = life /\ Verdict(c).ghost = ghost
    <3> HIDE DEF died, ghost, life
    <3> QED  BY <2>1
  <2>5. /\ died <=> gone # {}
        /\ ghost <=> gone # {} /\ first = 1
        /\ life = IF gone # {} THEN first ELSE NBuckets
    BY <1>2, <1>7
  <2> HIDE DEF died, ghost, life
  <2>2. CASE gone = {}
    <3>1. Verdict(c).lifetime = NBuckets /\ ~Verdict(c).disappeared /\ ~Verdict(c).ghost
      BY <2>2, <2>4, <2>5
    <3> QED  BY <1>7, <2>2, <3>1 DEF gone
  <2>3. CASE gone # {}
    <3>1. /\ first \in gone /\ first \in Nat /\ 1 <= first
          /\ \A other \in gone : other \in Nat /\ first <= other /\ 1 <= other
      <4>1. \A other \in gone : other \in Nat /\ 1 <= other
        BY <1>5
      <4> QED  BY <1>3, <2>3, <4>1
    <3>2. first = 1 <=> 1 \in gone
      BY <3>1
    <3>3. gone \cap 1..(first - 1) = {}
      BY <3>1
    <3>4. /\ Verdict(c).lifetime = first /\ Verdict(c).disappeared
          /\ Verdict(c).ghost <=> first = 1
      BY <2>3, <2>4, <2>5
    <3> QED  BY <1>7, <2>3, <3>1, <3>2, <3>3, <3>4 DEF gone
  <2> QED  BY <2>2, <2>3
<1> QED  BY <1>6, <1>7

(* A recorded verdict agrees with what the follow-up saw (latency.py:87-    *)
(* 142), provided that no simulation is profitable without reaching the     *)
(* threshold of the follow-ups.                                             *)
THEOREM ScannerVerdictsTruthful == "thin" \notin Grades => (Spec => []VerdictsTruthful)
<1> SUFFICES ASSUME "thin" \notin Grades PROVE Spec => []VerdictsTruthful
  OBVIOUS
<1>1. Init => RechecksOK
  BY DEF Init, RechecksOK, Signals
<1>2. IInv /\ RechecksOK => VerdictsTruthful
  <2> SUFFICES ASSUME IInv, RechecksOK PROVE VerdictsTruthful
    OBVIOUS
  <2>1. ASSUME NEW id \in With({"reporting", "completed"})
        PROVE  /\ check[id] \in Check /\ check[id].depth # "thin"
               /\ Len(check[id].rechecks) = NBuckets
    <3>1. id \in Signals /\ check[id] \in Check
      BY DEF With, IInv, TypesOK, Signals
    <3> QED  BY <3>1 DEF RechecksOK, With
  <2> QED  BY <2>1, VerdictRight DEF VerdictsTruthful
<1> QED  BY <1>1, <1>2, Invariant, RechecksStep, PTL DEF Spec

-----------------------------------------------------------------------------
\* The records of a signal, in the order they are made

\* The categories of the stages that a signal passed, but for its verdict.
PassedStages(c) ==
    {"raw_opportunity", "signal", "pessimistic"}
        \cup {cat \in {"after_fees"} : c.fees}
        \cup {cat \in {"depth"} : Profitable(c.depth)}

\* line is among the records of s, and the signal line can only be the first.
Among(line, s) == \E i \in DOMAIN s : s[i] = line
SignalFirst(s) == \A i \in DOMAIN s : s[i].cat = "signal" => i = 1

(* Records are added to the ones that follow a signal line.                 *)
LEMMA RecordsJoined ==
    ASSUME NEW S, NEW s \in Seq(S), NEW t \in Seq(S), s # <<>>,
           SignalFirst(s), \A i \in DOMAIN t : t[i].cat # "signal",
           NEW u, u = s \o t
    PROVE  /\ u \in Seq(S) /\ u # <<>> /\ SignalFirst(u)
           /\ \A line : Among(line, u) <=> Among(line, s) \/ Among(line, t)
<1>1. /\ u \in Seq(S) /\ Len(u) = Len(s) + Len(t) /\ Len(s) \in Nat /\ Len(t) \in Nat
      /\ \A i \in 1..Len(u) : u[i] = IF i <= Len(s) THEN s[i] ELSE t[i - Len(s)]
  BY ConcatProperties
<1>2. DOMAIN s = 1..Len(s) /\ DOMAIN t = 1..Len(t) /\ DOMAIN u = 1..Len(u)
  BY <1>1
<1>3. Len(s) > 0 /\ u # <<>>
  BY <1>1
<1>4. \A i \in DOMAIN s : i \in DOMAIN u /\ u[i] = s[i]
  BY <1>1, <1>2
<1>5. \A i \in DOMAIN t : Len(s) + i \in DOMAIN u /\ u[Len(s) + i] = t[i]
  BY <1>1, <1>2
<1>6. ASSUME NEW i \in DOMAIN u
      PROVE  \/ i \in DOMAIN s /\ u[i] = s[i]
             \/ i - Len(s) \in DOMAIN t /\ u[i] = t[i - Len(s)]
  BY <1>1, <1>2
<1>7. SignalFirst(u)
  BY <1>6 DEF SignalFirst
<1>8. ASSUME NEW line PROVE Among(line, u) <=> Among(line, s) \/ Among(line, t)
  <2>1. Among(line, u) => Among(line, s) \/ Among(line, t)
    BY <1>6 DEF Among
  <2>2. Among(line, s) => Among(line, u)
    BY <1>4 DEF Among
  <2>3. Among(line, t) => Among(line, u)
    BY <1>5 DEF Among
  <2> QED  BY <2>1, <2>2, <2>3
<1> QED  BY <1>1, <1>3, <1>7, <1>8

(* The records of a signal: its signal line first, then one for each stage  *)
(* that it passed.                                                          *)
LEMMA StagesParts ==
    ASSUME NEW id \in Ids, NEW c, NEW s, s = StagesOf(id, c)
    PROVE  /\ s \in Seq(StageLines) /\ SignalFirst(s)
           /\ \A line : Among(line, s) <=>
                  \E cat \in PassedStages(c) \ {"raw_opportunity"} : line = Line(cat, id)
<1> DEFINE one(cat) == <<Line(cat, id)>>
           fees == IF c.fees THEN one("after_fees") ELSE <<>>
           depth == IF Profitable(c.depth) THEN one("depth") ELSE <<>>
<1>1. ASSUME NEW cat \in Categories \ {"latency"}
      PROVE  one(cat) \in Seq(StageLines) /\ DOMAIN one(cat) = {1} /\ one(cat)[1] = Line(cat, id)
  <2>1. Line(cat, id) \in StageLines
    BY DEF Line, StageLines
  <2> QED  BY <2>1
<1>2. \A line : ~Among(line, <<>>)
  BY DEF Among
<1>3. \A cat \in Categories \ {"latency"} :
        /\ one(cat) \in Seq(StageLines)
        /\ \A line : Among(line, one(cat)) <=> line = Line(cat, id)
        /\ \A i \in DOMAIN one(cat) : one(cat)[i].cat = cat /\ i = 1
        /\ one(cat) # <<>>
  BY <1>1, LineParts DEF Among
<1> HIDE DEF one
<1>4. /\ fees \in Seq(StageLines) /\ depth \in Seq(StageLines)
      /\ \A i \in DOMAIN fees : fees[i].cat # "signal"
      /\ \A i \in DOMAIN depth : depth[i].cat # "signal"
      /\ \A line : Among(line, fees) <=> c.fees /\ line = Line("after_fees", id)
      /\ \A line : Among(line, depth) <=> Profitable(c.depth) /\ line = Line("depth", id)
  BY <1>2, <1>3 DEF Categories
<1>5. s = one("signal") \o fees \o depth \o one("pessimistic")
  BY DEF StagesOf, one
<1> HIDE DEF fees, depth
<1> DEFINE s1 == one("signal") \o fees
           s2 == s1 \o depth
<1>6. one("signal") \in Seq(StageLines) /\ one("signal") # <<>> /\ SignalFirst(one("signal"))
      /\ \A line : Among(line, one("signal")) <=> line = Line("signal", id)
  BY <1>3 DEF Categories, SignalFirst
<1>7. /\ s1 \in Seq(StageLines) /\ s1 # <<>> /\ SignalFirst(s1)
      /\ \A line : Among(line, s1) <=> Among(line, one("signal")) \/ Among(line, fees)
  BY <1>4, <1>6, RecordsJoined
<1> HIDE DEF s1
<1>8. /\ s2 \in Seq(StageLines) /\ s2 # <<>> /\ SignalFirst(s2)
      /\ \A line : Among(line, s2) <=> Among(line, s1) \/ Among(line, depth)
  BY <1>4, <1>7, RecordsJoined
<1>9. /\ one("pessimistic") \in Seq(StageLines)
      /\ \A i \in DOMAIN one("pessimistic") : one("pessimistic")[i].cat # "signal"
      /\ \A line : Among(line, one("pessimistic")) <=> line = Line("pessimistic", id)
  BY <1>3 DEF Categories
<1>10. s = s2 \o one("pessimistic")
  BY <1>5 DEF s1
<1> HIDE DEF s2
<1> DEFINE last == one("pessimistic")
<1> HIDE DEF last
<1>13. /\ last \in Seq(StageLines) /\ \A i \in DOMAIN last : last[i].cat # "signal"
       /\ s = s2 \o last
  BY <1>9, <1>10 DEF last
<1>11. /\ s \in Seq(StageLines) /\ SignalFirst(s)
       /\ \A line : Among(line, s) <=> Among(line, s2) \/ Among(line, one("pessimistic"))
  <2>1. \A line : Among(line, s) <=> Among(line, s2) \/ Among(line, last)
    BY <1>8, <1>13, RecordsJoined
  <2>2. s \in Seq(StageLines) /\ SignalFirst(s)
    BY <1>8, <1>13, RecordsJoined
  <2> QED  BY <2>1, <2>2 DEF last
<1>12. ASSUME NEW line
       PROVE  Among(line, s) <=>
                \/ line = Line("signal", id) \/ line = Line("pessimistic", id)
                \/ c.fees /\ line = Line("after_fees", id)
                \/ Profitable(c.depth) /\ line = Line("depth", id)
  BY <1>4, <1>6, <1>7, <1>8, <1>9, <1>11
<1>14. \A cat : cat \in PassedStages(c) \ {"raw_opportunity"} <=>
                \/ cat = "signal" \/ cat = "pessimistic"
                \/ c.fees /\ cat = "after_fees"
                \/ Profitable(c.depth) /\ cat = "depth"
  BY DEF PassedStages
<1> QED  BY <1>11, <1>12, <1>14

-----------------------------------------------------------------------------
\* Where the records of a signal are

Sig(id) == Line("signal", id)
Calling(line) == \E c \in rec.calls : c.line = line
KeptCall(line) == \E c \in rec.calls : c.line = line /\ c.keep

\* Nothing is left to record outside "recording"; what is left there belongs to
\* the last signal, and begins with its signal line if that one is left.
TodoOK ==
    /\ pc \notin {"recording", "raised"} => todo = <<>>
    /\ \A i \in DOMAIN todo : todo[i].id = Len(check)
    /\ SignalFirst(todo)

\* Nothing is known of signals that are yet to come.
IdsOK ==
    /\ \A c \in rec.calls : c.by = Scan =>
           \/ c.line.id = 0
           \/ pc = "recording" /\ c.line.id = Len(check)
    /\ \A line \in rec.observed : line.id \in {0} \cup Signals
    /\ rec.retained \subseteq {0} \cup Signals

\* The stages that a signal passed, and no others, have been observed, are being
\* recorded or are left to record.
PassedOK ==
    pc # "raised" =>
        \A id \in Signals, cat \in Categories \ {"latency"} :
            cat \in PassedStages(check[id]) <=>
                \/ Line(cat, id) \in rec.observed
                \/ Calling(Line(cat, id))
                \/ Among(Line(cat, id), todo)

\* The verdicts of completed follow-ups have been observed, and no others.
VerdictsSeen ==
    \A id \in Signals :
        Line("latency", id) \in rec.observed <=> check[id].status = "completed"

StagesOK == TodoOK /\ IdsOK /\ PassedOK /\ VerdictsSeen

\* The signal line of id is on disk, or will be before anything behind it.
Safe(id) == Sig(id) \in rec.lines \/ KeptCall(Sig(id))

\* A kept latency call has the line of its signal on disk or before it.
BehindSignal(c) ==
    \/ Sig(c.by) \in rec.lines
    \/ Scan \in c.ahead /\ KeptCall(Sig(c.by))

KeptOK ==
    /\ pc # "raised" =>
           \A id \in Signals : Worth(Sig(id)) => Among(Sig(id), todo) \/ Safe(id)
    /\ \A id \in rec.retained \cap With(Alive) : Safe(id)
    /\ \A c \in rec.calls : c.by # Scan /\ c.keep => BehindSignal(c)
    /\ \A t \in rec.threads : t.by # Scan => Sig(t.by) \in rec.lines
    /\ \A line \in rec.lines : line.cat = "latency" => Sig(line.id) \in rec.lines

-----------------------------------------------------------------------------
\* What the recorder's operators do to the calls themselves

SameCall(c, d) == d.by = c.by /\ d.line = c.line /\ d.keep = c.keep

\* The calls of s are those of r that are not of gone, and new ones.
Goes(r, s, gone, new) ==
    /\ \A d \in s.calls : d \in new \/
           \E c \in r.calls : /\ SameCall(c, d) /\ c.by \notin gone
                              /\ Scan \in c.ahead /\ Scan \notin gone => Scan \in d.ahead
    /\ \A c \in r.calls : c.by \notin gone => \E d \in s.calls : SameCall(c, d)
    /\ s.retained = r.retained
    /\ r.observed \subseteq s.observed
    /\ r.lines \subseteq s.lines

\* New lines are those of threads, new threads those of lock holders.
Writes(r, s) ==
    /\ \A line \in s.lines \ r.lines : \E t \in r.threads : line = t.line
    /\ \A t \in s.threads \ r.threads :
           \E c \in r.calls : c.ahead = {} /\ c.keep /\ t = AppendOf(c)

\* d is the call that made s of r.
Begun(d, r, by, line, worth, sampled, s) ==
    /\ d.by = by /\ d.line = line /\ d.ahead = Callers(r)
    /\ d.keep <=> StorageMode = "full" \/ ShouldPersist(r, line, worth, sampled)
    /\ s.calls = r.calls \cup {d}
    /\ s.retained = IF StorageMode = "compact" /\ d.keep /\ line.cat \in Retaining
                    THEN r.retained \cup {line.id} ELSE r.retained
    /\ s.threads = r.threads /\ s.lines = r.lines /\ s.observed = r.observed

(* A new call.                                                              *)
LEMMA CalledParts ==
    ASSUME NEW r \in RecorderSet, NEW by \in Tasks, NEW line \in LineSet, NEW worth, NEW sampled,
           NEW s, s = Called(r, by, line, worth, sampled)
    PROVE  \E d \in s.calls : Begun(d, r, by, line, worth, sampled, s)
<1> DEFINE keep == StorageMode = "full" \/ ShouldPersist(r, line, worth, sampled)
           d == [by |-> by, line |-> line, keep |-> keep, append |-> "none",
                 ahead |-> Callers(r)]
           kept == IF StorageMode = "compact" /\ keep /\ line.cat \in Retaining
                   THEN r.retained \cup {line.id} ELSE r.retained
<1>1. s = [r EXCEPT !.calls = r.calls \cup {d}, !.retained = kept]
  BY DEF Called, RecorderSet
<1>2. d.by = by /\ d.line = line /\ d.ahead = Callers(r) /\ d.keep = keep
  OBVIOUS
<1>3. keep \in BOOLEAN
  BY DEF ShouldPersist
<1> HIDE DEF d, keep
<1>4. /\ s.calls = r.calls \cup {d} /\ s.retained = kept
      /\ s.threads = r.threads /\ s.lines = r.lines /\ s.observed = r.observed
  <2> HIDE DEF kept
  <2> QED  BY <1>1 DEF RecorderSet
<1>5. kept = IF StorageMode = "compact" /\ d.keep /\ line.cat \in Retaining
             THEN r.retained \cup {line.id} ELSE r.retained
  BY <1>2
<1>6. d.keep <=> StorageMode = "full" \/ ShouldPersist(r, line, worth, sampled)
  BY <1>2 DEF keep
<1> HIDE DEF kept
<1> QED  BY <1>2, <1>4, <1>5, <1>6 DEF Begun

(* The holder's append is handed to a thread.                               *)
LEMMA SubmittedGoes ==
    ASSUME NEW r \in RecorderSet, NEW c \in Submittable(r), NEW s, s = Submitted(r, c)
    PROVE  Goes(r, s, {}, {}) /\ Writes(r, s) /\ s.observed = r.observed
<1> DEFINE begun == [c EXCEPT !.append = "running"]
<1>1. c \in r.calls /\ c \in CallSet /\ c.ahead = {} /\ c.keep
  BY DEF Submittable, Holders, RecorderSet
<1>2. SameCall(c, begun) /\ begun.ahead = c.ahead
  BY <1>1 DEF CallSet, SameCall
<1> HIDE DEF begun
<1>3. /\ s.calls = (r.calls \ {c}) \cup {begun}
      /\ s.threads = r.threads \cup {AppendOf(c)}
      /\ s.lines = r.lines /\ s.observed = r.observed /\ s.retained = r.retained
  BY DEF Submitted, RecorderSet, begun
<1>4. \A d \in r.calls \ {c} : SameCall(d, d)
  BY DEF SameCall
<1> QED  BY <1>1, <1>2, <1>3, <1>4 DEF Goes, Writes

(* A thread ends.                                                           *)
LEMMA AppendedGoes ==
    ASSUME NEW r \in RecorderSet, NEW t \in r.threads, NEW ok \in BOOLEAN,
           NEW s, s = Appended(r, t, ok)
    PROVE  Goes(r, s, {}, {}) /\ Writes(r, s) /\ s.observed = r.observed
<1> DEFINE told(c) == IF Awaits(c, t)
                      THEN [c EXCEPT !.append = IF ok THEN "ok" ELSE "error"] ELSE c
<1>1. ASSUME NEW c \in r.calls
      PROVE  SameCall(c, told(c)) /\ told(c).ahead = c.ahead
  <2>1. c \in CallSet
    BY DEF RecorderSet
  <2> QED  BY <2>1 DEF CallSet, SameCall
<1>2. s = [r EXCEPT !.calls = {told(c) : c \in r.calls},
                    !.threads = r.threads \ {t},
                    !.lines = IF ok THEN r.lines \cup {t.line} ELSE r.lines]
  BY DEF Appended, RecorderSet
<1> HIDE DEF told
<1>3. /\ s.calls = {told(c) : c \in r.calls} /\ s.threads = r.threads \ {t}
      /\ s.lines = IF ok THEN r.lines \cup {t.line} ELSE r.lines
      /\ s.observed = r.observed /\ s.retained = r.retained
  BY <1>2 DEF RecorderSet
<1>4. Goes(r, s, {}, {})
  BY <1>1, <1>3 DEF Goes
<1>5. Writes(r, s)
  BY <1>3 DEF Writes
<1> QED  BY <1>3, <1>4, <1>5

(* Calls are withdrawn.                                                     *)
LEMMA WithdrawnGoes ==
    ASSUME NEW r \in RecorderSet, NEW gone, NEW s, s = Withdrawn(r, gone)
    PROVE  /\ Goes(r, s, gone, {}) /\ s \in RecorderSet
           /\ s.lines = r.lines /\ s.threads = r.threads /\ s.observed = r.observed
<1> DEFINE rest(c) == [c EXCEPT !.ahead = c.ahead \ gone]
           stay == {c \in r.calls : c.by \notin gone}
<1>1. ASSUME NEW c \in r.calls
      PROVE  /\ rest(c) \in CallSet /\ SameCall(c, rest(c)) /\ rest(c).ahead = c.ahead \ gone
             /\ [c EXCEPT !.ahead = @ \ gone] = rest(c)
  <2>1. c \in CallSet
    BY DEF RecorderSet
  <2> QED  BY <2>1 DEF CallSet, SameCall
<1>2. {[c EXCEPT !.ahead = @ \ gone] : c \in stay} = {rest(c) : c \in stay}
  BY <1>1
<1> HIDE DEF rest
<1>3. s = [r EXCEPT !.calls = {rest(c) : c \in stay}]
  <2>1. s = [r EXCEPT !.calls = {[c EXCEPT !.ahead = @ \ gone] : c \in stay}]
    BY DEF Withdrawn, RecorderSet
  <2> HIDE DEF stay
  <2> QED  BY <1>2, <2>1
<1>4. /\ s.calls = {rest(c) : c \in stay} /\ s \in RecorderSet
      /\ s.threads = r.threads /\ s.lines = r.lines /\ s.observed = r.observed
      /\ s.retained = r.retained
  <2>1. {rest(c) : c \in stay} \subseteq CallSet
    BY <1>1
  <2> HIDE DEF stay
  <2> QED  BY <1>3, <2>1 DEF RecorderSet
<1>5. Goes(r, s, gone, {})
  BY <1>1, <1>4 DEF Goes
<1> QED  BY <1>4, <1>5

(* Callers are cancelled.                                                   *)
LEMMA CancelledGoes ==
    ASSUME NEW r \in RecorderSet, NEW gone, NEW s \in Cancellations(r, gone)
    PROVE  /\ Goes(r, s, gone, {}) /\ Writes(r, s) /\ s.observed = r.observed
           /\ s.lines = r.lines /\ s.threads \subseteq r.threads
<1> DEFINE w == Withdrawn(r, gone)
           own == {t \in r.threads : \E c \in r.calls : c.by \in gone /\ Awaits(c, t)}
<1>1. /\ Goes(r, w, gone, {}) /\ w \in RecorderSet
      /\ w.lines = r.lines /\ w.threads = r.threads /\ w.observed = r.observed
  BY WithdrawnGoes
<1>2. s = w \/ s = [w EXCEPT !.threads = w.threads \ own]
  BY <1>1 DEF Cancellations, RecorderSet
<1> HIDE DEF w, own
<1>3. /\ s.calls = w.calls /\ s.threads \subseteq w.threads /\ s.lines = w.lines
      /\ s.observed = w.observed /\ s.retained = w.retained
  BY <1>1, <1>2 DEF RecorderSet
<1> QED  BY <1>1, <1>3 DEF Goes, Writes

(* A call ends, observed or failed.                                         *)
LEMMA EndedGoes ==
    ASSUME NEW r \in RecorderSet, NEW c \in r.calls, NEW s,
           s = Observed(r, c) \/ s = Failed(r, c)
    PROVE  /\ Goes(r, s, {c.by}, {}) /\ Writes(r, s)
           /\ s = Observed(r, c) => s.observed = r.observed \cup {c.line}
           /\ s = Failed(r, c) => s.observed = r.observed
<1> DEFINE w == Withdrawn(r, {c.by})
<1>1. /\ Goes(r, w, {c.by}, {}) /\ w \in RecorderSet
      /\ w.lines = r.lines /\ w.threads = r.threads /\ w.observed = r.observed
  BY WithdrawnGoes
<1>2. ASSUME s = Failed(r, c)
      PROVE  Goes(r, s, {c.by}, {}) /\ Writes(r, s) /\ s.observed = r.observed
  <2>1. s = w
    BY <1>2 DEF Failed
  <2> HIDE DEF w
  <2> QED  BY <1>1, <2>1 DEF Writes
<1>3. ASSUME s = Observed(r, c)
      PROVE  /\ Goes(r, s, {c.by}, {}) /\ Writes(r, s)
             /\ s.observed = r.observed \cup {c.line}
  <2>1. s = [w EXCEPT !.observed = w.observed \cup {c.line}]
    BY <1>1, <1>3 DEF Observed, RecorderSet
  <2> HIDE DEF w
  <2>2. /\ s.calls = w.calls /\ s.threads = w.threads /\ s.lines = w.lines
        /\ s.observed = r.observed \cup {c.line} /\ s.retained = w.retained
    BY <1>1, <2>1 DEF RecorderSet
  <2> QED  BY <1>1, <2>2 DEF Goes, Writes
<1> QED  BY <1>2, <1>3

-----------------------------------------------------------------------------
\* Steps that record nothing of a signal

SignalsStay ==
    /\ Signals' = Signals /\ Len(check') = Len(check)
    /\ \A id \in Signals :
           /\ SameSignal(check[id], check'[id])
           /\ check'[id].status \in Alive => check[id].status \in Alive

\* A new call is for the health of the books, a repeated opportunity or a verdict,
\* and a kept verdict is behind its signal.
Harmless(d) ==
    /\ d.by = Scan => d.line.id = 0
    /\ d.by # Scan =>
           /\ d.line.cat = "latency"
           /\ StorageMode = "compact" /\ d.keep => BehindSignal(d)'

\* The scanner's call ends with the run, or has been observed and written.
ScanCallKept ==
    pc' # "raised" =>
        \A c \in rec.calls : c.by = Scan /\ c.line.id # 0 =>
            c.line \in rec'.observed /\ (c.keep => c.line \in rec'.lines)

\* Leaving "recording" means to have recorded everything.
Moves ==
    \/ pc' = pc
    \/ pc' = "raised"
    \/ /\ pc # "raised"
       /\ pc = "recording" => todo = <<>> /\ Scan \notin Callers(rec)

Elsewhere(gone, new) ==
    /\ SignalsStay /\ UNCHANGED todo /\ Moves
    /\ Goes(rec, rec', gone, new) /\ Writes(rec, rec')
    /\ \A line \in rec'.observed \ rec.observed : Calling(line)
    /\ rec'.observed = rec.observed \/ RecordObserved
    /\ Scan \in gone => ScanCallKept
    /\ \A d \in new : Harmless(d)

(* A call for a stage is the scanner's, and numbers of signals are not 0.   *)
LEMMA StageCalls ==
    ASSUME IInv
    PROVE  /\ \A c \in rec.calls : c.line.cat # "latency" => c.by = Scan
           /\ \A c \in rec.calls : c.by # Scan => c.by \in Signals /\ c.line = Line("latency", c.by)
           /\ \A id \in Signals : id # 0
           /\ Signals = 1..Len(check) /\ Len(check) \in Nat
<1>1. Signals = 1..Len(check) /\ Len(check) \in Nat
  BY SignalsTyped DEF IInv
<1>2. \A c \in rec.calls : c.by # Scan => c.by \in Signals /\ c.line = Line("latency", c.by)
  BY DEF IInv, RecordsOK, CallOK, With
<1> QED  BY <1>1, <1>2, LineParts

(* What is left to record belongs to the last signal.                       *)
LEMMA ElsewhereTodo ==
    ASSUME IInv, TodoOK, IdsOK, NEW gone, NEW new, Elsewhere(gone, new)
    PROVE  TodoOK'
<1>1. pc' \notin {"recording", "raised"} => todo = <<>>
  BY DEF Elsewhere, Moves, TodoOK
<1> QED  BY <1>1 DEF Elsewhere, SignalsStay, TodoOK, SignalFirst

(* Nothing is recorded of a signal that is yet to come.                     *)
LEMMA ElsewhereIds ==
    ASSUME IInv, IInv', IdsOK, NEW gone, NEW new, Elsewhere(gone, new)
    PROVE  IdsOK'
<1>1. ASSUME NEW d \in rec'.calls, d.by = Scan
      PROVE  \/ d.line.id = 0
             \/ pc' = "recording" /\ d.line.id = Len(check')
  <2>1. pc' # "raised"
    BY <1>1 DEF IInv, RecordsOK, CallOK
  <2>2. CASE d \in new
    BY <1>1, <2>2 DEF Elsewhere, Harmless
  <2>3. CASE \E c \in rec.calls : SameCall(c, d)
    <3>1. PICK c \in rec.calls : SameCall(c, d)
      BY <2>3
    <3>2. c.by = Scan /\ c.line = d.line
      BY <1>1, <3>1 DEF SameCall
    <3>3. \/ c.line.id = 0
          \/ pc = "recording" /\ c.line.id = Len(check)
      BY <3>2 DEF IdsOK
    <3>4. Scan \in Callers(rec)
      BY <3>2 DEF Callers
    <3> QED  BY <2>1, <3>2, <3>3, <3>4 DEF Elsewhere, Moves, SignalsStay
  <2> QED  BY <2>2, <2>3 DEF Elsewhere, Goes
<1>2. ASSUME NEW line \in rec'.observed PROVE line.id \in {0} \cup Signals'
  <2>1. CASE line \in rec.observed
    BY <2>1 DEF IdsOK, Elsewhere, SignalsStay
  <2>2. CASE Calling(line)
    <3>1. PICK c \in rec.calls : c.line = line
      BY <2>2 DEF Calling
    <3>2. CASE c.by = Scan
      <4>1. line.id = 0 \/ line.id = Len(check)
        BY <3>1, <3>2 DEF IdsOK
      <4>2. CASE line.id = Len(check) /\ line.id # 0
        BY <4>2, StageCalls DEF Elsewhere, SignalsStay
      <4> QED  BY <4>1, <4>2
    <3>3. CASE c.by # Scan
      BY <3>1, <3>3, StageCalls, LineParts DEF Elsewhere, SignalsStay
    <3> QED  BY <3>2, <3>3
  <2> QED  BY <2>1, <2>2 DEF Elsewhere
<1>3. rec'.retained \subseteq {0} \cup Signals'
  BY DEF IdsOK, Elsewhere, SignalsStay, Goes
<1> QED  BY <1>1, <1>2, <1>3 DEF IdsOK

(* No stage of a signal is lost on its way to the accumulator, and none is  *)
(* added.                                                                   *)
LEMMA ElsewherePassed ==
    ASSUME IInv, IInv', IdsOK, PassedOK, NEW gone, NEW new, Elsewhere(gone, new)
    PROVE  PassedOK'
<1> SUFFICES ASSUME pc' # "raised", NEW id \in Signals, NEW cat \in Categories \ {"latency"}
             PROVE  cat \in PassedStages(check'[id]) <=>
                      \/ Line(cat, id) \in rec'.observed
                      \/ Calling(Line(cat, id))'
                      \/ Among(Line(cat, id), todo')
  BY DEF PassedOK, Elsewhere, SignalsStay
<1> DEFINE line == Line(cat, id)
<1>1. line.cat # "latency" /\ line.id = id /\ id # 0
  BY LineParts, StageCalls
<1> HIDE DEF line
<1>2. PassedStages(check'[id]) = PassedStages(check[id])
  BY DEF Elsewhere, SignalsStay, SameSignal, PassedStages
<1>3. pc # "raised"
  BY DEF Elsewhere, Moves
<1>4. cat \in PassedStages(check[id]) <=>
          line \in rec.observed \/ Calling(line) \/ Among(line, todo)
  BY <1>3 DEF PassedOK, line
<1>5. Calling(line)' => Calling(line)
  <2>1. ASSUME NEW d \in rec'.calls, d.line = line PROVE Calling(line)
    <3>1. d \notin new
      BY <1>1, <2>1 DEF Elsewhere, Harmless
    <3>2. PICK c \in rec.calls : SameCall(c, d)
      BY <3>1 DEF Elsewhere, Goes
    <3> QED  BY <2>1, <3>2 DEF SameCall, Calling
  <2> QED  BY <2>1 DEF Calling
<1>6. Calling(line) => Calling(line)' \/ line \in rec'.observed
  <2>1. ASSUME NEW c \in rec.calls, c.line = line
        PROVE  Calling(line)' \/ line \in rec'.observed
    <3>1. c.by = Scan
      BY <1>1, <2>1, StageCalls
    <3>2. CASE c.by \in gone
      BY <1>1, <2>1, <3>1, <3>2 DEF Elsewhere, ScanCallKept
    <3>3. CASE c.by \notin gone
      <4>1. PICK d \in rec'.calls : SameCall(c, d)
        BY <3>3 DEF Elsewhere, Goes
      <4> QED  BY <2>1, <4>1 DEF SameCall, Calling
    <3> QED  BY <3>2, <3>3
  <2> QED  BY <2>1 DEF Calling
<1>7. line \in rec'.observed => line \in rec.observed \/ Calling(line)
  BY DEF Elsewhere
<1>8. line \in rec.observed => line \in rec'.observed
  BY DEF Elsewhere, Goes
<1>9. Among(line, todo') = Among(line, todo)
  BY DEF Elsewhere
<1> QED  BY <1>2, <1>4, <1>5, <1>6, <1>7, <1>8, <1>9 DEF line

(* The line of a signal stays safe unless the scan is over.                 *)
LEMMA SafeKept ==
    ASSUME IInv, NEW gone, NEW new, Elsewhere(gone, new), pc' # "raised", NEW id \in Signals,
           Safe(id)
    PROVE  Safe(id)' /\ (KeptCall(Sig(id)) /\ Scan \in gone => Sig(id) \in rec'.lines)
<1>1. Sig(id).cat # "latency" /\ Sig(id).id = id /\ id # 0
  BY LineParts, StageCalls DEF Sig
<1>2. CASE Sig(id) \in rec.lines
  BY <1>2 DEF Elsewhere, Goes, Safe
<1>3. CASE KeptCall(Sig(id))
  <2>1. PICK c \in rec.calls : c.line = Sig(id) /\ c.keep
    BY <1>3 DEF KeptCall
  <2>2. c.by = Scan
    BY <1>1, <2>1, StageCalls
  <2>3. CASE Scan \in gone
    <3>1. Sig(id) \in rec'.lines
      BY <1>1, <2>1, <2>2, <2>3 DEF Elsewhere, ScanCallKept
    <3> QED  BY <3>1 DEF Safe
  <2>4. CASE Scan \notin gone
    <3>1. PICK d \in rec'.calls : SameCall(c, d)
      BY <2>2, <2>4 DEF Elsewhere, Goes
    <3>2. KeptCall(Sig(id))'
      BY <2>1, <3>1 DEF SameCall, KeptCall, Sig
    <3> QED  BY <2>4, <3>2 DEF Safe
  <2> QED  BY <2>3, <2>4
<1> QED  BY <1>2, <1>3 DEF Safe, Elsewhere, Goes

(* No verdict overtakes the line of its signal.                             *)
LEMMA ElsewhereKept ==
    ASSUME IInv, IInv', StorageMode = "compact", KeptOK,
           NEW gone, NEW new, Elsewhere(gone, new)
    PROVE  KeptOK'
<1>0. rec.lines \subseteq rec'.lines /\ Signals' = Signals
  BY DEF Elsewhere, Goes, SignalsStay
<1>1. ASSUME pc' # "raised", NEW id \in Signals, Worth(Sig(id))'
      PROVE  Among(Sig(id), todo') \/ Safe(id)'
  <2>1. Worth(Sig(id))
    BY <1>1, LineParts DEF Elsewhere, SignalsStay, SameSignal, Worth, Sig
  <2>2. Among(Sig(id), todo) \/ Safe(id)
    BY <1>1, <2>1 DEF KeptOK, Elsewhere, Moves
  <2> QED  BY <1>1, <2>2, SafeKept DEF Elsewhere
<1>2. ASSUME NEW id \in rec'.retained \cap With(Alive)'
      PROVE  Safe(id)'
  <2>1. id \in Signals /\ id \in With(Alive)
    BY <1>2 DEF With, Elsewhere, SignalsStay
  <2>2. id \in rec.retained
    BY <1>2 DEF Elsewhere, Goes
  <2>3. pc' # "raised"
    BY <1>2 DEF IInv, FollowUpsOK
  <2> QED  BY <2>1, <2>2, <2>3, SafeKept DEF KeptOK
<1>3. ASSUME NEW d \in rec'.calls, d.by # Scan, d.keep
      PROVE  BehindSignal(d)'
  <2>1. CASE d \in new
    BY <1>3, <2>1 DEF Elsewhere, Harmless
  <2>2. CASE d \notin new
    <3>1. PICK c \in rec.calls : /\ SameCall(c, d) /\ c.by \notin gone
                                 /\ Scan \in c.ahead /\ Scan \notin gone => Scan \in d.ahead
      BY <2>2 DEF Elsewhere, Goes
    <3>2. c.by = d.by /\ c.by # Scan /\ c.keep /\ c.by \in Signals
      BY <1>3, <3>1, StageCalls DEF SameCall
    <3>3. BehindSignal(c)
      BY <3>2 DEF KeptOK
    <3>4. pc' # "raised"
      <4>1. d.by \in With({"reporting"})'
        BY <1>3 DEF IInv, RecordsOK, CallOK
      <4>2. d.by \in With(Alive)'
        BY <4>1 DEF With, Alive
      <4> QED  BY <4>2 DEF IInv, FollowUpsOK
    <3>5. CASE Sig(c.by) \in rec.lines
      BY <1>0, <3>2, <3>5 DEF BehindSignal
    <3>6. CASE Scan \in c.ahead /\ KeptCall(Sig(c.by))
      <4>1. /\ Safe(c.by)'
            /\ Scan \in gone => Sig(c.by) \in rec'.lines
        BY <3>2, <3>4, <3>6, SafeKept DEF Safe
      <4> QED  BY <3>1, <3>2, <3>6, <4>1 DEF BehindSignal, Safe
    <3> QED  BY <3>3, <3>5, <3>6 DEF BehindSignal
  <2> QED  BY <2>1, <2>2
<1>4. ASSUME NEW t \in rec'.threads, t.by # Scan PROVE Sig(t.by) \in rec'.lines
  <2>1. CASE t \in rec.threads
    BY <1>0, <1>4, <2>1 DEF KeptOK
  <2>2. CASE t \notin rec.threads
    <3>1. PICK c \in rec.calls : c.ahead = {} /\ c.keep /\ t = AppendOf(c)
      BY <2>2 DEF Elsewhere, Writes
    <3>2. c.by = t.by
      BY <3>1 DEF AppendOf
    <3>3. BehindSignal(c)
      BY <1>4, <3>1, <3>2 DEF KeptOK
    <3> QED  BY <1>0, <3>1, <3>2, <3>3 DEF BehindSignal
  <2> QED  BY <2>1, <2>2
<1>5. ASSUME NEW line \in rec'.lines, line.cat = "latency" PROVE Sig(line.id) \in rec'.lines
  <2>1. CASE line \in rec.lines
    BY <1>0, <1>5, <2>1 DEF KeptOK
  <2>2. CASE line \notin rec.lines
    <3>1. PICK t \in rec.threads : line = t.line
      BY <2>2 DEF Elsewhere, Writes
    <3>2. t.by # Scan /\ line.id = t.by
      BY <1>5, <3>1, LineParts DEF IInv, RecordsOK, ThreadOK
    <3> QED  BY <1>0, <3>2 DEF KeptOK
  <2> QED  BY <2>1, <2>2
<1> QED  BY <1>0, <1>1, <1>2, <1>3, <1>4, <1>5 DEF KeptOK

-----------------------------------------------------------------------------
\* The actions, seen from the records of the signals

(* Signals stay what they are unless one is detected.                       *)
LEMMA SignalsStayPut ==
    ASSUME IInv, [Next]_vars, ~SignalDetected
    PROVE  SignalsStay
<1>1. CASE AllGoOn
  BY <1>1 DEF AllGoOn, GoesOn, SignalsStay, Alive
<1>2. ASSUME NEW id \in Signals, Rechecked(id) PROVE SignalsStay
  <2>1. /\ Signals' = Signals /\ Len(check') = Len(check)
        /\ \A i \in Signals \ {id} : check'[i] = check[i]
        /\ SameSignal(check[id], check'[id])
        /\ check[id].status = "tracking"
    BY <1>2, RecheckedSignal
  <2> QED  BY <2>1 DEF SignalsStay, SameSignal, Alive
<1> QED  BY <1>1, <1>2, OtherSteps

(* Ends of calls add up.                                                    *)
LEMMA GoesOnAndOn ==
    ASSUME NEW r, NEW s, NEW u, NEW g, NEW h,
           Goes(r, s, g, {}), Goes(s, u, h, {})
    PROVE  Goes(r, u, g \cup h, {})
<1>1. ASSUME NEW d \in u.calls
      PROVE  \E c \in r.calls : /\ SameCall(c, d) /\ c.by \notin g \cup h
                                /\ Scan \in c.ahead /\ Scan \notin g \cup h => Scan \in d.ahead
  <2>1. PICK b \in s.calls : /\ SameCall(b, d) /\ b.by \notin h
                             /\ Scan \in b.ahead /\ Scan \notin h => Scan \in d.ahead
    BY DEF Goes
  <2>2. PICK c \in r.calls : /\ SameCall(c, b) /\ c.by \notin g
                             /\ Scan \in c.ahead /\ Scan \notin g => Scan \in b.ahead
    BY DEF Goes
  <2> QED  BY <2>1, <2>2 DEF SameCall
<1>2. ASSUME NEW c \in r.calls, c.by \notin g \cup h
      PROVE  \E d \in u.calls : SameCall(c, d)
  <2>1. PICK b \in s.calls : SameCall(c, b)
    BY <1>2 DEF Goes
  <2>2. PICK d \in u.calls : SameCall(b, d)
    BY <1>2, <2>1 DEF Goes, SameCall
  <2> QED  BY <2>1, <2>2 DEF SameCall
<1> QED  BY <1>1, <1>2 DEF Goes

(* The recorder as it is.                                                   *)
LEMMA GoesNowhere ==
    ASSUME NEW r, NEW s, s.calls = r.calls, s.threads = r.threads, s.lines = r.lines,
           s.observed = r.observed, s.retained = r.retained
    PROVE  Goes(r, s, {}, {}) /\ Writes(r, s)
  BY DEF Goes, Writes, SameCall

(* A step that makes no record.                                             *)
LEMMA NoRecord ==
    ASSUME SignalsStay, UNCHANGED todo, Moves,
           Goes(rec, rec', {}, {}), Writes(rec, rec'), rec'.observed = rec.observed
    PROVE  Elsewhere({}, {})
  BY DEF Elsewhere

(* A step in which calls of follow-ups end and the scanner then records     *)
(* something that belongs to no signal.                                     *)
LEMMA ScanRecordsNoSignal ==
    ASSUME SignalsStay, UNCHANGED todo, Moves,
           NEW r \in RecorderSet, NEW gone, Scan \notin gone,
           Goes(rec, r, gone, {}), Writes(rec, r), r.observed = rec.observed,
           NEW line \in LineSet, line.id = 0, line.cat \notin Retaining,
           NEW worth, NEW sampled, rec' = Called(r, Scan, line, worth, sampled)
    PROVE  \E new : Elsewhere(gone, new)
<1>1. Scan \in Tasks
  BY DEF Tasks
<1>2. PICK d \in rec'.calls : Begun(d, r, Scan, line, worth, sampled, rec')
  BY <1>1, CalledParts
<1>3. Goes(rec, rec', gone, {d})
  BY <1>2 DEF Begun, Goes
<1>4. Writes(rec, rec')
  BY <1>2 DEF Begun, Writes
<1>5. Harmless(d)
  BY <1>2 DEF Begun, Harmless
<1> QED  BY <1>2, <1>3, <1>4, <1>5 DEF Begun, Elsewhere

\* Some calls end, harmless ones begin.
GoesElsewhere == \E gone, new : Elsewhere(gone, new)

(* The environment and the moves of the scan.                               *)
LEMMA QuietElsewhere ==
    ASSUME IInv, TodoOK, SignalsStay,
           \/ ScanStarts \/ CycleDismissed \/ CycleScreened \/ SizeDismissed
           \/ SizeRecorded \/ HealthRecorded \/ RunReturns \/ RecorderCloses \/ Stop
           \/ \E id \in Signals : RecheckFails(id) \/ FollowUpDone(id)
           \/ \E c \in Cycles : BooksChange(c)
           \/ \E pair \in cooling : CooldownPasses(pair)
           \/ UNCHANGED vars
    PROVE  GoesElsewhere
<1>1. UNCHANGED todo /\ (UNCHANGED rec \/ RecorderCloses)
  BY DEF ScanStarts, CycleDismissed, CycleScreened, SizeDismissed, SizeRecorded, HealthRecorded,
         RunReturns, RecorderCloses, Stop, RecheckFails, FollowUpDone, BooksChange,
         CooldownPasses, vars
<1>2. /\ rec'.calls = rec.calls /\ rec'.threads = rec.threads /\ rec'.lines = rec.lines
      /\ rec'.observed = rec.observed /\ rec'.retained = rec.retained
  <2>1. CASE RecorderCloses
    <3>1. rec' = [rec EXCEPT !.closed = TRUE] /\ rec \in RecorderSet
      BY <2>1 DEF RecorderCloses, Closed, IInv, RecordsOK, RecorderOK
    <3> QED  BY <3>1 DEF RecorderSet
  <2> QED  BY <1>1, <2>1
<1>3. Moves
  BY DEF Moves, ScanStarts, CycleDismissed, CycleScreened, SizeDismissed, SizeRecorded,
         HealthRecorded, RunReturns, RecorderCloses, Stop, RecheckFails, FollowUpDone,
         BooksChange, CooldownPasses, vars, Ended
<1> QED  BY <1>1, <1>2, <1>3, GoesNowhere, NoRecord DEF GoesElsewhere

(* The scanner records the health of the books, or an opportunity again.    *)
LEMMA ScanRecordsElsewhere ==
    ASSUME IInv, TodoOK, SignalsStay,
           OpportunityRepeated \/ ScanEnds \/ DrainStarts \/ DrainEnds \/ DrainTimesOut
    PROVE  GoesElsewhere
<1>1. pc # "recording" /\ pc # "raised" /\ UNCHANGED todo
  BY DEF OpportunityRepeated, ScanEnds, DrainStarts, DrainEnds, DrainTimesOut, TodoOK
<1>2. Moves
  BY <1>1 DEF Moves
<1>3. rec \in RecorderSet
  BY DEF IInv, RecordsOK, RecorderOK
<1>4. Goes(rec, rec, {}, {}) /\ Writes(rec, rec)
  BY GoesNowhere
<1>5. CASE UNCHANGED rec
  BY <1>1, <1>2, <1>4, <1>5, NoRecord DEF GoesElsewhere
<1>6. CASE \E line \in {Line("raw_opportunity", 0), Line("health", 0)}, sampled \in BOOLEAN :
             rec' = Called(rec, Scan, line, FALSE, sampled)
  <2>1. PICK line \in {Line("raw_opportunity", 0), Line("health", 0)}, sampled \in BOOLEAN :
             rec' = Called(rec, Scan, line, FALSE, sampled)
    BY <1>6
  <2>2. line \in LineSet /\ line.id = 0 /\ line.cat \notin Retaining
    BY ScanLines, LineParts DEF Retaining
  <2> QED  BY <1>1, <1>2, <1>3, <1>4, <2>1, <2>2, ScanRecordsNoSignal DEF GoesElsewhere
<1>7. CASE DrainTimesOut
  <2>1. PICK ended \in Cancellations(rec, StillRunning(draining)) :
          rec' = Called(ended, Scan, Line("health", 0), FALSE, FALSE)
    BY <1>7 DEF DrainTimesOut
  <2>2. /\ Goes(rec, ended, StillRunning(draining), {}) /\ Writes(rec, ended)
        /\ ended.observed = rec.observed
    BY <1>3, CancelledGoes
  <2>3. ended \in RecorderSet
    BY CancelledOK DEF IInv, RecordsOK, RecorderOK
  <2>4. Scan \notin StillRunning(draining)
    BY StageCalls DEF StillRunning, With, Scan
  <2>5. Line("health", 0) \in LineSet /\ Line("health", 0).id = 0
        /\ Line("health", 0).cat \notin Retaining
    BY ScanLines, LineParts DEF Retaining
  <2> QED  BY <1>1, <1>2, <2>1, <2>2, <2>3, <2>4, <2>5, ScanRecordsNoSignal DEF GoesElsewhere
<1>8. CASE OpportunityRepeated
  BY <1>6, <1>8 DEF OpportunityRepeated
<1>9. CASE ScanEnds \/ DrainStarts \/ DrainEnds
  BY <1>5, <1>6, <1>9 DEF ScanEnds, DrainStarts, DrainEnds
<1> QED  BY <1>7, <1>8, <1>9

(* The run is cancelled or raises.                                          *)
LEMMA BreaksElsewhere ==
    ASSUME IInv, IdsOK, SignalsStay,
           RunCancelled \/ SignalFails \/ EndingCancelled \/ ScanNotRecorded
    PROVE  GoesElsewhere
<1>1. UNCHANGED todo /\ rec \in RecorderSet
  BY DEF RunCancelled, SignalFails, EndingCancelled, ScanNotRecorded, Raises, IInv, RecordsOK,
         RecorderOK
<1>2. Goes(rec, rec, {}, {}) /\ Writes(rec, rec)
  BY GoesNowhere
<1>3. ASSUME NEW r \in RecorderSet, NEW g, Goes(rec, r, g, {}), Writes(rec, r),
             r.observed = rec.observed, Raises(r)
      PROVE  GoesElsewhere
  <2> DEFINE h == {Scan} \cup StillRunning(pending)
  <2>1. rec' \in Cancellations(r, h) /\ pc' = "raised"
    BY <1>3 DEF Raises
  <2>2. Goes(r, rec', h, {}) /\ Writes(r, rec') /\ rec'.observed = r.observed
    BY <2>1, CancelledGoes
  <2>3. Goes(rec, rec', g \cup h, {})
    BY <1>3, <2>2, GoesOnAndOn
  <2>4. Writes(rec, rec')
    <3>1. rec'.lines = r.lines /\ rec'.threads \subseteq r.threads
      BY <1>3, <2>1, CancelledGoes
    <3> QED  BY <1>3, <3>1 DEF Writes
  <2>5. Moves /\ ScanCallKept
    BY <2>1 DEF Moves, ScanCallKept
  <2> QED  BY <1>1, <1>3, <2>2, <2>3, <2>4, <2>5 DEF Elsewhere, GoesElsewhere
<1>4. CASE RunCancelled \/ SignalFails
  BY <1>1, <1>2, <1>3, <1>4 DEF RunCancelled, SignalFails
<1>5. ASSUME pc \in Ending PROVE Moves /\ ScanCallKept
  BY <1>5 DEF Moves, ScanCallKept, Ending, IdsOK
<1>6. CASE EndingCancelled
  <2>1. pc \in Ending /\ \E outcome \in Cancellations(rec, {Scan}) : rec' = outcome
    BY <1>6 DEF EndingCancelled
  <2>2. Goes(rec, rec', {Scan}, {}) /\ Writes(rec, rec') /\ rec'.observed = rec.observed
    BY <1>1, <2>1, CancelledGoes
  <2> QED  BY <1>1, <1>5, <2>1, <2>2 DEF Elsewhere, GoesElsewhere
<1>7. CASE ScanNotRecorded
  <2>1. PICK c \in FailedCalls(rec) :
          /\ c.by = Scan
          /\ \/ Raises(Failed(rec, c))
             \/ pc \in Ending /\ rec' = Failed(rec, c)
    BY <1>7 DEF ScanNotRecorded
  <2> DEFINE r == Failed(rec, c)
  <2>2. c \in rec.calls
    BY DEF FailedCalls, Holders
  <2>3. /\ Goes(rec, r, {Scan}, {}) /\ Writes(rec, r) /\ r.observed = rec.observed
    BY <1>1, <2>1, <2>2, EndedGoes
  <2>4. r \in RecorderSet
    BY FailedOK DEF IInv, RecordsOK, RecorderOK
  <2> HIDE DEF r
  <2>5. CASE Raises(r)
    BY <1>3, <2>3, <2>4, <2>5
  <2>6. CASE pc \in Ending /\ rec' = r
    BY <1>1, <1>5, <2>3, <2>6 DEF Elsewhere, GoesElsewhere
  <2> QED  BY <2>1, <2>5, <2>6 DEF r
<1> QED  BY <1>4, <1>6, <1>7

(* Calls, threads and follow-ups end.                                       *)
LEMMA RecorderElsewhere ==
    ASSUME IInv, SignalsStay,
           LineSubmitted \/ ThreadStep \/ RecordObserved \/ FollowUpNotRecorded \/ LoopCloses
    PROVE  GoesElsewhere
<1>1. UNCHANGED <<pc, todo>> /\ Moves
  BY DEF LineSubmitted, ThreadStep, ThreadEnds, RecordObserved, FollowUpNotRecorded,
         LoopCloses, Moves
<1>2. rec \in RecorderSet /\ QueueOK(rec) /\ WrittenOK(rec)
  BY DEF IInv, RecordsOK, RecorderOK
<1>3. CASE LineSubmitted
  <2>1. PICK c \in Submittable(rec) : rec' = Submitted(rec, c)
    BY <1>3 DEF LineSubmitted
  <2>2. Goes(rec, rec', {}, {}) /\ Writes(rec, rec') /\ rec'.observed = rec.observed
    BY <1>2, <2>1, SubmittedGoes
  <2> QED  BY <1>1, <2>2, NoRecord DEF GoesElsewhere
<1>4. CASE ThreadStep
  <2>1. PICK t \in rec.threads, ok \in BOOLEAN : rec' = Appended(rec, t, ok)
    BY <1>4 DEF ThreadStep, ThreadEnds
  <2>2. Goes(rec, rec', {}, {}) /\ Writes(rec, rec') /\ rec'.observed = rec.observed
    BY <1>2, <2>1, AppendedGoes
  <2> QED  BY <1>1, <2>2, NoRecord DEF GoesElsewhere
<1>5. CASE RecordObserved
  <2>1. PICK c \in Observable(rec) : rec' = Observed(rec, c)
    BY <1>5 DEF RecordObserved
  <2>2. c \in rec.calls /\ (c.keep => c.append = "ok")
    BY <2>1 DEF Observable, Holders
  <2>3. /\ Goes(rec, rec', {c.by}, {}) /\ Writes(rec, rec')
        /\ rec'.observed = rec.observed \cup {c.line}
    BY <1>2, <2>1, <2>2, EndedGoes
  <2>4. \A d \in rec.calls : d.by = c.by => d = c
    BY <1>2, <2>2 DEF QueueOK
  <2>5. c.keep => c.line \in rec.lines
    BY <1>2, <2>2 DEF WrittenOK
  <2>6. Scan \in {c.by} => ScanCallKept
    BY <2>3, <2>4, <2>5 DEF ScanCallKept, Goes
  <2>7. \A line \in rec'.observed \ rec.observed : Calling(line)
    BY <2>2, <2>3 DEF Calling
  <2> QED  BY <1>1, <1>5, <2>3, <2>6, <2>7 DEF Elsewhere, GoesElsewhere
<1>6. CASE FollowUpNotRecorded
  <2>1. PICK c \in FailedCalls(rec) : c.by # Scan /\ rec' = Failed(rec, c)
    BY <1>6 DEF FollowUpNotRecorded
  <2>2. c \in rec.calls
    BY <2>1 DEF FailedCalls, Holders
  <2>3. Goes(rec, rec', {c.by}, {}) /\ Writes(rec, rec') /\ rec'.observed = rec.observed
    BY <1>2, <2>1, <2>2, EndedGoes
  <2> QED  BY <1>1, <2>1, <2>3 DEF Elsewhere, GoesElsewhere
<1>7. CASE LoopCloses
  <2>1. rec' \in Cancellations(rec, With(Alive))
    BY <1>7 DEF LoopCloses
  <2>2. /\ Goes(rec, rec', With(Alive), {}) /\ Writes(rec, rec')
        /\ rec'.observed = rec.observed
    BY <1>2, <2>1, CancelledGoes
  <2>3. Scan \notin With(Alive)
    BY StageCalls DEF With, Scan
  <2> QED  BY <1>1, <2>2, <2>3 DEF Elsewhere, GoesElsewhere
<1> QED  BY <1>3, <1>4, <1>5, <1>6, <1>7

(* A follow-up looks at the books, and reports after the last bucket.       *)
LEMMA RecheckedElsewhere ==
    ASSUME IInv, StorageMode = "compact" => KeptOK, SignalsStay,
           NEW id \in Signals, Rechecked(id)
    PROVE  GoesElsewhere
<1>1. UNCHANGED <<pc, todo>> /\ Moves /\ rec \in RecorderSet
  BY DEF Rechecked, Moves, IInv, RecordsOK, RecorderOK
<1>2. /\ check[id].status = "tracking"
      /\ UNCHANGED rec \/ rec' = Called(rec, id, Line("latency", id), FALSE, FALSE)
  BY RecheckedSignal
<1>3. CASE UNCHANGED rec
  BY <1>1, <1>3, GoesNowhere, NoRecord DEF GoesElsewhere
<1>4. CASE rec' = Called(rec, id, Line("latency", id), FALSE, FALSE)
  <2> DEFINE line == Line("latency", id)
  <2>1. /\ id \in Tasks /\ id # Scan /\ line \in LineSet
        /\ line.cat = "latency" /\ line.id = id
    <3>1. id \in Ids
      BY StageCalls, ConstantsOK DEF IInv, TypesOK, Ids
    <3> QED  BY <3>1, StageCalls, LineParts DEF Tasks, LineSet, Line, Categories, Scan
  <2> HIDE DEF line
  <2>2. rec' = Called(rec, id, line, FALSE, FALSE)
    BY <1>4 DEF line
  <2>3. PICK d \in rec'.calls : Begun(d, rec, id, line, FALSE, FALSE, rec')
    BY <1>1, <2>1, <2>2, CalledParts
  <2>4. Goes(rec, rec', {}, {d}) /\ Writes(rec, rec') /\ rec'.observed = rec.observed
    BY <2>1, <2>3 DEF Begun, Goes, Writes, SameCall, Retaining
  <2>5. ASSUME StorageMode = "compact", d.keep PROVE BehindSignal(d)'
    <3>1. ShouldPersist(rec, line, FALSE, FALSE)
      BY <2>3, <2>5 DEF Begun
    <3>2. id \in rec.retained
      BY <2>1, <3>1 DEF ShouldPersist
    <3>3. Safe(id)
      BY <1>2, <2>5, <3>2 DEF KeptOK, With, Alive
    <3>4. Sig(id) \in rec.lines => Sig(id) \in rec'.lines
      BY <2>3 DEF Begun
    <3>5. ASSUME KeptCall(Sig(id)) PROVE Scan \in d.ahead /\ KeptCall(Sig(id))'
      <4>1. PICK c \in rec.calls : c.line = Sig(id) /\ c.keep
        BY <3>5 DEF KeptCall
      <4>2. c.by = Scan
        BY <4>1, StageCalls, LineParts DEF Sig
      <4>3. Scan \in d.ahead /\ c \in rec'.calls
        BY <2>3, <4>1, <4>2 DEF Begun, Callers
      <4> QED  BY <4>1, <4>3 DEF KeptCall, Sig
    <3>6. d.by = id
      BY <2>3 DEF Begun
    <3> QED  BY <3>3, <3>4, <3>5, <3>6 DEF Safe, BehindSignal
  <2>6. Harmless(d)
    BY <2>1, <2>3, <2>5 DEF Begun, Harmless
  <2> QED  BY <1>1, <2>4, <2>6 DEF Elsewhere, GoesElsewhere
<1> QED  BY <1>2, <1>3, <1>4

\* u is what is left of s without its first record.
LeavesOf(s, u, S) ==
    /\ SignalFirst(u) /\ \A i \in DOMAIN u : u[i].cat # "signal"
    /\ \A i \in DOMAIN u : \E j \in DOMAIN s : u[i] = s[j]
    /\ \A line : Among(line, s) <=> line = Head(s) \/ Among(line, u)
    /\ Head(s) \in S /\ Among(Head(s), s)

(* The records that are left when the first one has been handed on.         *)
LEMMA RecordsLeft ==
    ASSUME NEW S, NEW s \in Seq(S), s # <<>>, SignalFirst(s)
    PROVE  LeavesOf(s, Tail(s), S)
<1> DEFINE u == Tail(s)
<1>1. /\ u \in Seq(S) /\ Len(u) = Len(s) - 1 /\ Len(s) \in Nat \ {0}
      /\ \A i \in 1..Len(u) : u[i] = s[i + 1]
      /\ Head(s) = s[1]
  BY HeadTailProperties
<1> HIDE DEF u
<1>2. DOMAIN s = 1..Len(s) /\ DOMAIN u = 1..Len(u)
  BY <1>1
<1>3. ASSUME NEW i \in DOMAIN u PROVE i + 1 \in DOMAIN s /\ u[i] = s[i + 1] /\ i + 1 # 1
  BY <1>1, <1>2
<1>4. \A i \in DOMAIN u : u[i].cat # "signal"
  BY <1>3 DEF SignalFirst
<1>5. ASSUME NEW i \in DOMAIN s PROVE i = 1 \/ (i - 1 \in DOMAIN u /\ s[i] = u[i - 1])
  <2>1. CASE i # 1
    <3>1. i - 1 \in DOMAIN u /\ (i - 1) + 1 = i
      BY <1>1, <1>2, <2>1
    <3> QED  BY <1>3, <3>1
  <2> QED  BY <2>1
<1>6. 1 \in DOMAIN s
  BY <1>1, <1>2
<1>7. ASSUME NEW line PROVE Among(line, s) <=> line = Head(s) \/ Among(line, u)
  <2>1. Among(line, s) => line = Head(s) \/ Among(line, u)
    BY <1>1, <1>5 DEF Among
  <2>2. Among(line, u) => Among(line, s)
    BY <1>3 DEF Among
  <2>3. line = Head(s) => Among(line, s)
    BY <1>1, <1>6 DEF Among
  <2> QED  BY <2>1, <2>2, <2>3
<1>8. \A i \in DOMAIN u : \E j \in DOMAIN s : u[i] = s[j]
  BY <1>3
<1>9. Head(s) \in S
  BY <1>1, <1>6
<1> QED  BY <1>4, <1>6, <1>7, <1>8, <1>9 DEF SignalFirst, LeavesOf, u

(* What one new call leaves in place.                                       *)
LEMMA BegunKeeps ==
    ASSUME NEW d \in rec'.calls, NEW by, NEW line, NEW worth, NEW sampled,
           Begun(d, rec, by, line, worth, sampled, rec')
    PROVE  /\ \A x : Calling(x)' <=> Calling(x) \/ x = line
           /\ \A x : KeptCall(x) => KeptCall(x)'
           /\ d.keep => KeptCall(line)'
           /\ \A id : Safe(id) => Safe(id)'
           /\ \A c : BehindSignal(c) => BehindSignal(c)'
<1>1. rec'.calls = rec.calls \cup {d} /\ d.line = line /\ rec'.lines = rec.lines
  BY DEF Begun
<1>2. \A x : KeptCall(x) => KeptCall(x)'
  BY <1>1 DEF KeptCall
<1>3. \A x : Calling(x)' <=> Calling(x) \/ x = line
  BY <1>1 DEF Calling
<1>4. d.keep => KeptCall(line)'
  BY <1>1 DEF KeptCall
<1>5. \A id : Safe(id) => Safe(id)'
  BY <1>1, <1>2 DEF Safe, Sig
<1>6. \A c : BehindSignal(c) => BehindSignal(c)'
  BY <1>1, <1>2 DEF BehindSignal, Sig
<1> QED  BY <1>2, <1>3, <1>4, <1>5, <1>6

(* The scanner hands the next record of a signal to the recorder: the       *)
(* record leaves those to make and enters the calls.                        *)
LEMMA StageRecordedKeeps ==
    ASSUME IInv, StagesOK, StorageMode = "compact" => KeptOK, StageRecorded
    PROVE  StagesOK' /\ (StorageMode = "compact" => KeptOK')
<1>0. PICK line : line = Head(todo)
  OBVIOUS
<1>1. /\ pc = "recording" /\ pc' = pc /\ check' = check /\ Signals' = Signals
      /\ todo # <<>> /\ todo' = Tail(todo) /\ Scan \notin Callers(rec)
  BY DEF StageRecorded, Signals
<1>2. PICK sampled \in BOOLEAN : rec' = Called(rec, Scan, line, Worth(line), sampled)
  BY <1>0 DEF StageRecorded
<1>3. todo \in Seq(StageLines) /\ rec \in RecorderSet /\ Scan \in Tasks
  BY DEF IInv, TypesOK, RecordsOK, RecorderOK, Tasks
<1>4. /\ SignalFirst(todo') /\ \A i \in DOMAIN todo' : todo'[i].cat # "signal"
      /\ \A i \in DOMAIN todo' : \E j \in DOMAIN todo : todo'[i] = todo[j]
      /\ \A x : Among(x, todo) <=> x = line \/ Among(x, todo')
      /\ line \in StageLines /\ Among(line, todo)
  <2>1. SignalFirst(todo)
    BY DEF StagesOK, TodoOK
  <2>2. todo' = Tail(todo) /\ todo # <<>>
    BY <1>1
  <2>3. LeavesOf(todo, Tail(todo), StageLines)
    BY <1>3, <2>1, <2>2, RecordsLeft
  <2> QED  BY <1>0, <2>2, <2>3 DEF LeavesOf
<1>5. line \in LineSet /\ line.id = Len(check) /\ line.id \in Signals /\ line.cat # "latency"
      /\ line.cat \in Categories
  <2>1. line \in LineSet /\ line.cat # "latency" /\ line.id \in Ids /\ line.cat \in Categories
    BY <1>4 DEF StageLines, LineSet
  <2>2. line.id = Len(check)
    BY <1>4 DEF StagesOK, TodoOK, Among
  <2> QED  BY <2>1, <2>2, StageCalls, ConstantsOK DEF Ids
<1>6. PICK d \in rec'.calls : Begun(d, rec, Scan, line, Worth(line), sampled, rec')
  BY <1>2, <1>3, <1>5, CalledParts
<1>7. /\ d.by = Scan /\ d.line = line /\ rec'.calls = rec.calls \cup {d}
      /\ d.keep <=> StorageMode = "full" \/ ShouldPersist(rec, line, Worth(line), sampled)
      /\ rec'.retained \subseteq rec.retained \cup {line.id}
      /\ rec'.threads = rec.threads /\ rec'.lines = rec.lines /\ rec'.observed = rec.observed
  BY <1>6 DEF Begun
<1>8. /\ \A x : Calling(x)' <=> Calling(x) \/ x = line
      /\ d.keep => KeptCall(line)'
      /\ \A id : Safe(id) => Safe(id)'
      /\ \A c : BehindSignal(c) => BehindSignal(c)'
  BY <1>6, BegunKeeps
<1>9. TodoOK'
  BY <1>1, <1>4 DEF StagesOK, TodoOK
<1>10. IdsOK'
  BY <1>1, <1>5, <1>7 DEF StagesOK, IdsOK, Callers
<1>11. PassedOK'
  BY <1>1, <1>4, <1>7, <1>8 DEF StagesOK, PassedOK
<1>12. VerdictsSeen'
  BY <1>1, <1>7 DEF StagesOK, VerdictsSeen
<1>13. ASSUME StorageMode = "compact" PROVE KeptOK'
  <2>1. KeptOK
    BY <1>13
  <2>2. ASSUME NEW id \in Signals, Worth(Sig(id))
        PROVE  Among(Sig(id), todo') \/ Safe(id)'
    <3>1. CASE Safe(id)
      BY <1>8, <3>1
    <3>2. CASE Sig(id) = line
      <4>1. d.keep
        BY <1>7, <2>2, <3>2, LineParts DEF ShouldPersist, Sig
      <4> QED  BY <1>8, <3>2, <4>1 DEF Safe, Sig
    <3>3. Among(Sig(id), todo) \/ Safe(id)
      BY <1>1, <2>1, <2>2 DEF KeptOK
    <3> QED  BY <1>4, <3>1, <3>2, <3>3
  <2>3. \A id \in Signals : Worth(Sig(id))' <=> Worth(Sig(id))
    BY <1>1 DEF Worth, Sig
  <2>4. ASSUME NEW id \in rec'.retained, id \in With(Alive) PROVE Safe(id)'
    <3>1. CASE id \in rec.retained
      BY <1>8, <2>1, <2>4, <3>1 DEF KeptOK
    <3>2. CASE id \notin rec.retained
      <4>1. id = line.id /\ d.keep /\ line.cat \in Retaining
        BY <1>6, <2>4, <3>2 DEF Begun
      <4>2. line = Line(line.cat, id)
        BY <1>4, <4>1 DEF StageLines, Line
      <4>3. CASE line.cat = "signal"
        BY <1>8, <4>1, <4>2, <4>3 DEF Safe, Sig
      <4>4. CASE line.cat # "signal"
        <5>1. line.cat \in PassedStages(check[id])
          BY <1>1, <1>4, <1>5, <4>1, <4>2 DEF StagesOK, PassedOK
        <5>2. line.cat = "pessimistic" => check[id].pessimistic
          BY <1>7, <4>1, <1>13 DEF ShouldPersist, Worth
        <5>3. Worth(Sig(id))
          <6>1. check[id].fees \/ Profitable(check[id].depth) \/ check[id].pessimistic
            BY <4>1, <4>4, <5>1, <5>2 DEF PassedStages, Retaining
          <6> QED  BY <6>1, LineParts DEF Worth, Sig
        <5>4. id \in Signals
          BY <1>5, <4>1
        <5>5. ~Among(Sig(id), todo')
          BY <1>4, LineParts DEF Among, Sig
        <5> QED  BY <2>2, <5>3, <5>4, <5>5
      <4> QED  BY <4>3, <4>4
    <3> QED  BY <3>1, <3>2
  <2>5. With(Alive)' = With(Alive)
    BY <1>1 DEF With
  <2>6. \A c \in rec'.calls : c.by # Scan /\ c.keep => BehindSignal(c)'
    BY <1>7, <1>8, <2>1 DEF KeptOK
  <2>7. \A t \in rec'.threads : t.by # Scan => Sig(t.by) \in rec'.lines
    BY <1>7, <2>1 DEF KeptOK
  <2>8. \A x \in rec'.lines : x.cat = "latency" => Sig(x.id) \in rec'.lines
    BY <1>7, <2>1 DEF KeptOK
  <2> QED  BY <1>1, <2>2, <2>3, <2>4, <2>5, <2>6, <2>7, <2>8 DEF KeptOK, Sig
<1> QED  BY <1>9, <1>10, <1>11, <1>12, <1>13 DEF StagesOK

(* A signal is detected: its raw opportunity is being recorded, and all     *)
(* other stages that it passed are left to record.                          *)
LEMMA SignalDetectedKeeps ==
    ASSUME IInv, StagesOK, StorageMode = "compact" => KeptOK, SignalDetected
    PROVE  StagesOK' /\ (StorageMode = "compact" => KeptOK')
<1>1. PICK c \in Check, sampled \in BOOLEAN :
        LET id == Len(check) + 1 IN
          /\ id \in Ids /\ id \notin Signals /\ id # 0
          /\ Len(check') = id /\ Signals' = Signals \cup {id}
          /\ check'[id] = c /\ \A i \in Signals : check'[i] = check[i]
          /\ c.depth \in Grades /\ c.rechecks = <<>> /\ c.status \in {"skipped", "tracking"}
          /\ todo' = StagesOf(id, c)
          /\ rec' = Called(rec, Scan, Line("raw_opportunity", id), FALSE, sampled)
  BY DetectedSignal
<1>2. PICK id : id = Len(check) + 1
  OBVIOUS
<1>3. PICK line : line = Line("raw_opportunity", id)
  OBVIOUS
<1>4. /\ id \in Ids /\ id \notin Signals /\ id # 0
      /\ Len(check') = id /\ Signals' = Signals \cup {id}
      /\ check'[id] = c /\ \A i \in Signals : check'[i] = check[i]
      /\ c.status \in {"skipped", "tracking"}
      /\ todo' = StagesOf(id, c)
      /\ rec' = Called(rec, Scan, line, FALSE, sampled)
  BY <1>1, <1>2, <1>3
<1>5. /\ line \in LineSet /\ line.id = id /\ line.cat = "raw_opportunity"
      /\ rec \in RecorderSet /\ Scan \in Tasks
  <2>1. rec \in RecorderSet /\ Scan \in Tasks
    BY DEF IInv, RecordsOK, RecorderOK, Tasks
  <2> QED  BY <1>3, <1>4, <2>1 DEF Line, LineSet, Categories
<1>6. PICK d \in rec'.calls : Begun(d, rec, Scan, line, FALSE, sampled, rec')
  BY <1>4, <1>5, CalledParts
<1>7. /\ d.by = Scan /\ d.line = line /\ rec'.calls = rec.calls \cup {d}
      /\ rec'.threads = rec.threads /\ rec'.lines = rec.lines /\ rec'.observed = rec.observed
      /\ rec'.retained = rec.retained
  BY <1>5, <1>6 DEF Begun, Retaining
<1>8. /\ \A x : Calling(x)' <=> Calling(x) \/ x = line
      /\ \A i : Safe(i) => Safe(i)'
      /\ \A b : BehindSignal(b) => BehindSignal(b)'
  BY <1>6, BegunKeeps
<1>9. /\ todo' \in Seq(StageLines) /\ SignalFirst(todo')
      /\ \A x : Among(x, todo') <=>
             \E cat \in PassedStages(c) \ {"raw_opportunity"} : x = Line(cat, id)
  BY <1>4, StagesParts
<1>10. pc = "size" /\ pc' = "recording" /\ todo = <<>> /\ Scan \notin Callers(rec)
  <2>1. pc = "size" /\ pc' = "recording"
    BY DEF SignalDetected
  <2> QED  BY <2>1, NoScanCall DEF StagesOK, TodoOK
<1>11. \A x : ~Among(x, todo)
  BY <1>10 DEF Among
<1>12. \A cat, i : Line(cat, i).cat = cat /\ Line(cat, i).id = i
  BY LineParts
<1>13. TodoOK'
  <2>1. ASSUME NEW i \in DOMAIN todo' PROVE todo'[i].id = id
    <3>1. Among(todo'[i], todo')
      BY DEF Among
    <3> QED  BY <1>9, <1>12, <3>1
  <2> QED  BY <1>4, <1>9, <1>10, <2>1 DEF TodoOK
<1>14. IdsOK'
  BY <1>4, <1>5, <1>7, <1>10 DEF StagesOK, IdsOK, Callers
<1>15. PassedOK'
  <2>1. ASSUME NEW i \in Signals', NEW cat \in Categories \ {"latency"}
        PROVE  cat \in PassedStages(check'[i]) <=>
                 \/ Line(cat, i) \in rec'.observed
                 \/ Calling(Line(cat, i))'
                 \/ Among(Line(cat, i), todo')
    <3>1. CASE i = id
      <4>1. Line(cat, id) \notin rec.observed
        BY <1>4, <1>12 DEF StagesOK, IdsOK
      <4>2. ~Calling(Line(cat, id))
        <5>1. ASSUME NEW b \in rec.calls, b.line = Line(cat, id) PROVE FALSE
          BY <1>10, <1>12, <5>1, StageCalls DEF Callers
        <5> QED  BY <5>1 DEF Calling
      <4>3. Line(cat, id) = line <=> cat = "raw_opportunity"
        BY <1>3, <1>12
      <4>4. Among(Line(cat, id), todo') <=> cat \in PassedStages(c) \ {"raw_opportunity"}
        BY <1>9, <1>12
      <4>5. "raw_opportunity" \in PassedStages(c)
        BY DEF PassedStages
      <4> QED  BY <1>4, <1>7, <1>8, <3>1, <4>1, <4>2, <4>3, <4>4, <4>5
    <3>2. CASE i # id
      <4>1. i \in Signals /\ check'[i] = check[i]
        BY <1>4, <3>2
      <4>2. Line(cat, i) # line /\ ~Among(Line(cat, i), todo')
        BY <1>3, <1>9, <1>12, <3>2
      <4>3. cat \in PassedStages(check[i]) <=>
              Line(cat, i) \in rec.observed \/ Calling(Line(cat, i))
        BY <1>10, <1>11, <4>1 DEF StagesOK, PassedOK
      <4> QED  BY <1>7, <1>8, <4>1, <4>2, <4>3
    <3> QED  BY <3>1, <3>2
  <2> QED  BY <2>1 DEF PassedOK
<1>16. VerdictsSeen'
  <2>1. Line("latency", id) \notin rec.observed
    BY <1>4, <1>12 DEF StagesOK, IdsOK
  <2> QED  BY <1>4, <1>7, <2>1 DEF StagesOK, VerdictsSeen
<1>17. ASSUME StorageMode = "compact" PROVE KeptOK'
  <2>1. KeptOK
    BY <1>17
  <2>2. ASSUME NEW i \in Signals', Worth(Sig(i))'
        PROVE  Among(Sig(i), todo') \/ Safe(i)'
    <3>1. CASE i = id
      <4>1. "signal" \in PassedStages(c) \ {"raw_opportunity"}
        BY DEF PassedStages
      <4> QED  BY <1>9, <3>1, <4>1 DEF Sig
    <3>2. CASE i # id
      <4>1. i \in Signals /\ Worth(Sig(i))
        BY <1>4, <1>12, <2>2, <3>2 DEF Worth, Sig
      <4> QED  BY <1>8, <1>10, <1>11, <2>1, <4>1 DEF KeptOK
    <3> QED  BY <3>1, <3>2
  <2>3. ASSUME NEW i \in rec'.retained, i \in With(Alive)' PROVE Safe(i)'
    <3>1. i \in rec.retained /\ i \in Signals'
      BY <1>7, <2>3 DEF With
    <3>2. i # id
      BY <1>4, <3>1 DEF StagesOK, IdsOK
    <3>3. i \in With(Alive)
      BY <1>4, <2>3, <3>1, <3>2 DEF With
    <3> QED  BY <1>8, <2>1, <3>1, <3>3 DEF KeptOK
  <2>4. \A b \in rec'.calls : b.by # Scan /\ b.keep => BehindSignal(b)'
    BY <1>7, <1>8, <2>1 DEF KeptOK
  <2>5. \A t \in rec'.threads : t.by # Scan => Sig(t.by) \in rec'.lines
    BY <1>7, <2>1 DEF KeptOK
  <2>6. \A x \in rec'.lines : x.cat = "latency" => Sig(x.id) \in rec'.lines
    BY <1>7, <2>1 DEF KeptOK
  <2> QED  BY <2>2, <2>3, <2>4, <2>5, <2>6 DEF KeptOK, Sig
<1> QED  BY <1>13, <1>14, <1>15, <1>16, <1>17 DEF StagesOK

(* A verdict is observed in the step that completes its follow-up.          *)
LEMMA VerdictsStep ==
    ASSUME IInv, VerdictsSeen, [Next]_vars, ~SignalDetected,
           rec'.observed = rec.observed \/ RecordObserved
    PROVE  VerdictsSeen'
<1>1. CASE RecordObserved
  <2>1. PICK c \in Observable(rec) :
          /\ rec' = Observed(rec, c)
          /\ IF c.by = Scan THEN UNCHANGED <<check, stats>>
             ELSE /\ check' = [check EXCEPT ![c.by].status = "completed"]
                  /\ stats' = [stats EXCEPT !.completed = @ + 1]
    BY <1>1 DEF RecordObserved
  <2>2. c \in rec.calls /\ rec \in RecorderSet /\ TypesOK
    BY <2>1 DEF Observable, Holders, IInv, RecordsOK, RecorderOK
  <2>3. /\ Goes(rec, rec', {c.by}, {}) /\ Writes(rec, rec')
        /\ rec'.observed = rec.observed \cup {c.line}
    BY <2>1, <2>2, EndedGoes
  <2>4. CASE c.by = Scan
    <3>1. c.line.cat # "latency"
      BY <2>2, <2>4 DEF IInv, RecordsOK, CallOK
    <3> QED  BY <2>1, <2>3, <2>4, <3>1, LineParts DEF VerdictsSeen, Signals
  <2>5. CASE c.by # Scan
    <3>1. Becomes(c.by, "completed")
      BY <2>1, <2>5 DEF Becomes
    <3>2. c.by \in Signals /\ c.line = Line("latency", c.by)
      BY <2>2, <2>5, StageCalls
    <3>3. /\ Signals' = Signals /\ check'[c.by].status = "completed"
          /\ \A i \in Signals \ {c.by} : check'[i] = check[i]
      BY <2>2, <3>1, <3>2, StatusSet
    <3>4. \A i : Line("latency", i) = c.line <=> i = c.by
      BY <3>2, LineParts
    <3> QED  BY <2>3, <3>2, <3>3, <3>4 DEF VerdictsSeen
  <2> QED  BY <2>4, <2>5
<1>2. CASE rec'.observed = rec.observed /\ ~RecordObserved
  <2>1. /\ Signals' = Signals
        /\ \A i \in Signals : check'[i].status = "completed" <=> check[i].status = "completed"
    <3>1. ASSUME NEW id \in Signals, Rechecked(id)
          PROVE  /\ Signals' = Signals
                 /\ \A i \in Signals : check'[i].status = "completed"
                                         <=> check[i].status = "completed"
      BY <3>1, RecheckedSignal
    <3>2. CASE AllGoOn /\ NoneCompletes
      BY <3>2 DEF AllGoOn, NoneCompletes, GoesOn, Alive
    <3> QED  BY <1>2, <3>1, <3>2, OtherSteps
  <2> QED  BY <1>2, <2>1 DEF VerdictsSeen
<1> QED  BY <1>1, <1>2

(* Every step keeps the records of the signals in order.                    *)
LEMMA StagesStep ==
    ASSUME IInv, IInv', StagesOK, StorageMode = "compact" => KeptOK, [Next]_vars
    PROVE  StagesOK' /\ (StorageMode = "compact" => KeptOK')
<1>1. CASE SignalDetected
  BY <1>1, SignalDetectedKeeps
<1>2. CASE StageRecorded
  BY <1>2, StageRecordedKeeps
<1>3. CASE GoesElsewhere /\ ~SignalDetected
  <2>1. PICK gone, new : Elsewhere(gone, new)
    BY <1>3 DEF GoesElsewhere
  <2>2. TodoOK' /\ IdsOK' /\ PassedOK'
    BY <2>1, ElsewhereTodo, ElsewhereIds, ElsewherePassed DEF StagesOK
  <2>3. VerdictsSeen'
    BY <1>3, <2>1, VerdictsStep DEF StagesOK, Elsewhere
  <2>4. StorageMode = "compact" => KeptOK'
    BY <2>1, ElsewhereKept
  <2> QED  BY <2>2, <2>3, <2>4 DEF StagesOK
<1>4. ASSUME ~SignalDetected, ~StageRecorded PROVE GoesElsewhere
  <2>1. SignalsStay /\ TodoOK /\ IdsOK
    BY <1>4, SignalsStayPut DEF StagesOK
  <2>2. CASE \/ ScanStarts \/ CycleDismissed \/ CycleScreened \/ SizeDismissed
             \/ SizeRecorded \/ HealthRecorded \/ RunReturns \/ RecorderCloses \/ Stop
             \/ \E id \in Signals : RecheckFails(id) \/ FollowUpDone(id)
             \/ \E c \in Cycles : BooksChange(c)
             \/ \E pair \in cooling : CooldownPasses(pair)
             \/ UNCHANGED vars
    BY <2>1, <2>2, QuietElsewhere
  <2>3. CASE OpportunityRepeated \/ ScanEnds \/ DrainStarts \/ DrainEnds \/ DrainTimesOut
    BY <2>1, <2>3, ScanRecordsElsewhere
  <2>4. CASE RunCancelled \/ SignalFails \/ EndingCancelled \/ ScanNotRecorded
    BY <2>1, <2>4, BreaksElsewhere
  <2>5. CASE LineSubmitted \/ ThreadStep \/ RecordObserved \/ FollowUpNotRecorded \/ LoopCloses
    BY <2>1, <2>5, RecorderElsewhere
  <2>6. ASSUME NEW id \in Signals, Rechecked(id) PROVE GoesElsewhere
    BY <2>1, <2>6, RecheckedElsewhere
  <2> QED  BY <1>4, <2>2, <2>3, <2>4, <2>5, <2>6 DEF Next, ScanStep, Release
<1> QED  BY <1>1, <1>2, <1>3, <1>4

-----------------------------------------------------------------------------
\* The theorems

(* In the beginning there is no signal.                                     *)
LEMMA StagesInit == Init => StagesOK /\ (StorageMode = "compact" => KeptOK)
  BY DEF Init, NewRecorder, Signals, With, StagesOK, TodoOK, IdsOK, PassedOK, VerdictsSeen,
         SignalFirst, KeptOK

RecordsOfSignals == StagesOK /\ (StorageMode = "compact" => KeptOK)

(* The records of the signals are in order in every state.                  *)
LEMMA RecordsInvariant == Spec => [](IInv /\ RecordsOfSignals)
<1>1. Init => RecordsOfSignals
  BY StagesInit DEF RecordsOfSignals
<1>2. IInv /\ IInv' /\ RecordsOfSignals /\ [Next]_vars => RecordsOfSignals'
  BY StagesStep DEF RecordsOfSignals
<1> QED  BY <1>1, <1>2, Invariant, PTL DEF Spec

(* In compact mode a latency line on disk has the line of its signal on     *)
(* disk before it (recorder.py:108-150), whatever is cancelled or fails.    *)
THEOREM ScannerLatencyLineHasSignal == Spec => []LatencyLineHasSignal
<1>1. RecordsOfSignals => LatencyLineHasSignal
  BY LineParts DEF RecordsOfSignals, KeptOK, LatencyLineHasSignal, Sig
<1> QED  BY <1>1, RecordsInvariant, PTL

(* The accumulator sees exactly the stages that a signal passed once the    *)
(* scan has left it behind, and its verdict if and only if the follow-up    *)
(* completed (scanner.py:290-420, recorder.py:108-150).                     *)
THEOREM ScannerSignalFullyObserved == Spec => []SignalFullyObserved
<1>1. IInv /\ RecordsOfSignals => SignalFullyObserved
  <2> SUFFICES ASSUME IInv, RecordsOfSignals, NEW id \in Signals,
                      pc # "raised", pc = "recording" => id < Len(check)
               PROVE  {line.cat : line \in {l \in rec.observed : l.id = id}}
                        = {"raw_opportunity", "signal", "pessimistic"}
                            \cup {cat \in {"after_fees"} : check[id].fees}
                            \cup {cat \in {"depth"} : Profitable(check[id].depth)}
                            \cup {cat \in {"latency"} : check[id].status = "completed"}
    BY DEF SignalFullyObserved
  <2>1. StagesOK /\ id # 0 /\ id \in Nat /\ Len(check) \in Nat
    BY StageCalls DEF RecordsOfSignals
  <2>2. ASSUME NEW cat \in Categories \ {"latency"}
        PROVE  cat \in PassedStages(check[id]) <=> Line(cat, id) \in rec.observed
    <3>1. ~Calling(Line(cat, id))
      <4>1. ASSUME NEW c \in rec.calls, c.line = Line(cat, id) PROVE FALSE
        <5>1. c.by = Scan /\ c.line.id = id
          BY <4>1, StageCalls, LineParts
        <5>2. pc = "recording" /\ id = Len(check)
          BY <2>1, <5>1 DEF StagesOK, IdsOK
        <5> QED  BY <2>1, <5>2
      <4> QED  BY <4>1 DEF Calling
    <3>2. ~Among(Line(cat, id), todo)
      <4>1. CASE pc # "recording"
        BY <2>1, <4>1 DEF StagesOK, TodoOK, Among
      <4>2. ASSUME pc = "recording", NEW i \in DOMAIN todo, todo[i] = Line(cat, id) PROVE FALSE
        BY <2>1, <4>2, LineParts DEF StagesOK, TodoOK
      <4> QED  BY <4>1, <4>2 DEF Among
    <3> QED  BY <2>1, <3>1, <3>2 DEF StagesOK, PassedOK
  <2>3. Line("latency", id) \in rec.observed <=> check[id].status = "completed"
    BY <2>1 DEF StagesOK, VerdictsSeen
  <2>4. \A line \in rec.observed : line = Line(line.cat, line.id) /\ line.cat \in Categories
    BY DEF IInv, RecordsOK, RecorderOK, RecorderSet, LineSet, Line
  <2>5. {line.cat : line \in {l \in rec.observed : l.id = id}}
          = {cat \in Categories : Line(cat, id) \in rec.observed}
    BY <2>4, LineParts
  <2> QED  BY <2>2, <2>3, <2>5 DEF PassedStages, Categories
<1> QED  BY <1>1, RecordsInvariant, PTL
=============================================================================
