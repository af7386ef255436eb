------------------------------ MODULE Recorder ------------------------------
(***************************************************************************)
(* src/tri_arb/recorder.py: record() decides whether a record is kept,     *)
(* waits for the asyncio.Lock, has a worker thread append the line, and    *)
(* then shows the record to the report accumulator.  A recorder is a       *)
(* record r; the operators say what one step of a caller, of a worker      *)
(* thread or of a cancellation makes of it.                                *)
(*                                                                         *)
(*   r.calls     calls of record() that are inside "async with self._lock" *)
(*               or wait to enter it                                       *)
(*   r.threads   appends that worker threads are running; the one of a     *)
(*               cancelled call goes on without anybody awaiting it        *)
(*   r.lines     lines appended to the files, one file per category        *)
(*   r.observed  records the accumulator has seen                          *)
(*   r.retained  _retained_signal_ids                                      *)
(*   r.closed    _closed                                                   *)
(*                                                                         *)
(* Serialization, file names, rotation and the bounded top records are     *)
(* abstracted: a line is its category and the signal it belongs to, 0 when *)
(* it belongs to none.                                                     *)
(***************************************************************************)
EXTENDS Naturals

CONSTANT StorageMode    \* "full" or "compact"

ASSUME StorageAssumption == StorageMode \in {"full", "compact"}

Categories ==
    {"raw_opportunity", "signal", "after_fees", "depth", "pessimistic", "latency", "health"}

Line(cat, id) == [cat |-> cat, id |-> id]

NewRecorder ==
    [calls |-> {}, threads |-> {}, lines |-> {}, observed |-> {}, retained |-> {},
     closed |-> FALSE]

-----------------------------------------------------------------------------
\* record(), as seen by a caller

\* Mutated form: forgets that only retained signals keep their latency line.
ShouldPersistAnyLatency(r, line, worth, sampled) ==
    \/ line.cat \in {"after_fees", "depth", "health", "latency"}
    \/ line.cat \in {"raw_opportunity", "signal", "pessimistic"} /\ (worth \/ sampled)

\* _compact_should_persist.  worth: the record is profitable by the test of its
\* category; sampled: it is taken for another reason (near break-even, or drawn).
ShouldPersist(r, line, worth, sampled) ==
    \/ line.cat \in {"after_fees", "depth", "health"}
    \/ line.cat = "raw_opportunity" /\ sampled
    \/ line.cat = "signal" /\ (worth \/ sampled)
    \/ line.cat = "pessimistic" /\ worth
    \/ line.cat = "latency" /\ line.id \in r.retained

\* The categories whose kept records retain their signal id.
Retaining == {"signal", "after_fees", "depth", "pessimistic"}

Callers(r) == {c.by : c \in r.calls}

\* record() up to its wait for the lock, which serves its waiters in order.
\* Only possible while ~r.closed; otherwise it raises.
Called(r, by, line, worth, sampled) ==
    LET keep == StorageMode = "full" \/ ShouldPersist(r, line, worth, sampled) IN
    [r EXCEPT !.calls = @ \cup {[by |-> by, line |-> line, keep |-> keep,
                                 append |-> "none", ahead |-> Callers(r)]},
              !.retained =
                  IF StorageMode = "compact" /\ keep /\ line.cat \in Retaining
                  THEN @ \cup {line.id} ELSE @]

\* The call that holds the lock, if there is one.
Holders(r) == {c \in r.calls : c.ahead = {}}

\* The holder resumes with a record to keep, and hands it to a thread.
Submittable(r) == {c \in Holders(r) : c.keep /\ c.append = "none"}

AppendOf(c) == [by |-> c.by, line |-> c.line]

\* Mutated form: nobody awaits the thread.
SubmittedUnawaited(r, c) ==
    [r EXCEPT !.calls = (@ \ {c}) \cup {[c EXCEPT !.append = "ok"]},
              !.threads = @ \cup {AppendOf(c)}]

Submitted(r, c) ==
    [r EXCEPT !.calls = (@ \ {c}) \cup {[c EXCEPT !.append = "running"]},
              !.threads = @ \cup {AppendOf(c)}]

Awaits(c, thread) == c.append = "running" /\ AppendOf(c) = thread

\* A thread ends, with or without having appended its line; its caller, if it
\* still waits, learns how.
Appended(r, thread, ok) ==
    LET told(c) == IF Awaits(c, thread)
                   THEN [c EXCEPT !.append = IF ok THEN "ok" ELSE "error"] ELSE c IN
    [r EXCEPT !.calls = {told(c) : c \in @},
              !.threads = @ \ {thread},
              !.lines = IF ok THEN @ \cup {thread.line} ELSE @]

\* The holder has its line appended, or had none to append.
Observable(r) == {c \in Holders(r) : IF c.keep THEN c.append = "ok" ELSE TRUE}

FailedCalls(r) == {c \in Holders(r) : c.append = "error"}

\* Calls end, and with them their place in the lock or before it.
Withdrawn(r, callers) ==
    [r EXCEPT !.calls =
        {[c EXCEPT !.ahead = @ \ callers] : c \in {d \in @ : d.by \notin callers}}]

\* Mutated form: the accumulator is left out in full mode.
ObservedInCompactMode(r, c) ==
    [Withdrawn(r, {c.by}) EXCEPT
        !.observed = IF StorageMode = "compact" THEN @ \cup {c.line} ELSE @]

\* The holder shows its record to the accumulator and releases the lock.
Observed(r, c) == [Withdrawn(r, {c.by}) EXCEPT !.observed = @ \cup {c.line}]

\* Mutated form: the exception leaves the lock taken.
FailedKeepingLock(r, c) ==
    [r EXCEPT !.calls = (@ \ {c}) \cup {[c EXCEPT !.append = "lost"]}]

\* The append's exception leaves the "async with".
Failed(r, c) == Withdrawn(r, {c.by})

\* Outcomes of cancelling callers in their await: the append of the lock holder
\* is cancelled in time when its thread has not begun, and goes on otherwise.
Cancellations(r, callers) ==
    LET rest == Withdrawn(r, callers)
        own == {t \in r.threads : \E c \in r.calls : c.by \in callers /\ Awaits(c, t)}
    IN  {rest, [rest EXCEPT !.threads = @ \ own]}

\* close() without its list of top records.
Closed(r) == [r EXCEPT !.closed = TRUE]
=============================================================================
