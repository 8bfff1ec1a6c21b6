------------------------------- MODULE Pool --------------------------------
(***************************************************************************)
(* cmd/simulate's RunMany and RunMatch (driver.go) over opsmetrics         *)
(* (stats.go, heapchurn.go): workers take seed indices from an unbuffered  *)
(* channel and fold matches, each observed into one FoldStats; a sampler   *)
(* goroutine counts heap churn beside them until the run stops it and      *)
(* takes its snapshot.  Any goroutine may be scheduled at any time.        *)
(*                                                                         *)
(* A match allocates one unit of heap; what its fold estimates is one      *)
(* unit too.  How a match ends is the seed's, the same every time:         *)
(* "ok", "invalid" (an error before it is observed) or "telemetry" (one    *)
(* after).  A duration is named by its seed and a reservoir slot drawn at  *)
(* random.                                                                 *)
(***************************************************************************)
EXTENDS Naturals, Sequences, FiniteSets

CONSTANTS Seeds,      \* how many matches
          Workers,    \* --workers
          Capacity,   \* reservoirCapacity
          MaxTicks    \* bound: ticker firings

VARIABLES ends,       \* ends[i]: how the match of seed i ends
          wk,         \* wk[w]: what worker w is at, and its seed
          next,       \* the index the feeder sends next
          closed,     \* the channel is closed
          results, errs,
          main,       \* where the main goroutine is
          answer,     \* what RunMany returned
          mu,         \* who holds FoldStats.mu
          durations, seen, allocBytes, heapChurn,
          heap,       \* the runtime's cumulative allocation metric
          sampler,    \* the sampler goroutine: "run", "stop", "done"
          last,       \* what it read last
          ticks,
          snap        \* the snapshot
stats == <<mu, durations, seen, allocBytes>>
pool == <<wk, next, closed, results, errs>>
churn == <<heapChurn, sampler, last, ticks>>
vars == <<ends, pool, main, answer, stats, heap, churn, snap>>

Ids == 1 .. Workers
None == 0

Init == /\ ends \in [1 .. Seeds -> {"ok", "invalid", "telemetry"}]
        /\ wk = [w \in Ids |-> [at |-> "take", seed |-> None]]
        /\ next = 1 /\ closed = FALSE
        /\ results = [i \in 1 .. Seeds |-> None] /\ errs = [i \in 1 .. Seeds |-> "nil"]
        /\ main = "feed" /\ answer = [kind |-> "none"]
        /\ mu = None /\ durations = <<>> /\ seen = 0 /\ allocBytes = 0
        /\ heapChurn = 0 /\ heap = 0 /\ sampler = "run" /\ last = 0 /\ ticks = 0
        /\ snap = [count |-> 0, drawn |-> <<>>, alloc |-> 0, churn |-> 0, has |-> FALSE]

At(w, a) == wk' = [wk EXCEPT ![w].at = a]

(* ------------------------------- RunMany ------------------------------- *)

\* The feeder and a free worker meet at the channel.
SendIndex(w) ==
  /\ main = "feed" /\ next <= Seeds /\ wk[w].at = "take"
  /\ wk' = [wk EXCEPT ![w] = [at |-> "fold", seed |-> next]]
  /\ next' = next + 1
  /\ UNCHANGED <<ends, closed, results, errs, main, answer, stats, heap, churn, snap>>

CloseIndices ==
  /\ main = "feed" /\ next > Seeds
  /\ closed' = TRUE /\ main' = "wait"
  /\ UNCHANGED <<ends, wk, next, results, errs, answer, stats, heap, churn, snap>>

\* RunMatch up to the end of its fold; only a complete match is observed.
Fold(w) ==
  /\ wk[w].at = "fold"
  /\ heap' = heap + 1
  /\ At(w, IF ends[wk[w].seed] = "invalid" THEN "return" ELSE "observe")
  /\ UNCHANGED <<ends, next, closed, results, errs, main, answer, stats, churn, snap>>

\* Mutant: an error ends its worker, and the feeder waits for nobody.
ReturnAndQuit(w) ==
  LET i == wk[w].seed IN
  /\ wk[w].at = "return"
  /\ IF ends[i] = "ok" THEN results' = [results EXCEPT ![i] = i] /\ UNCHANGED errs
                       ELSE errs' = [errs EXCEPT ![i] = ends[i]] /\ UNCHANGED results
  /\ wk' = [wk EXCEPT ![w] = [at |-> IF ends[i] = "ok" THEN "take" ELSE "gone", seed |-> None]]
  /\ UNCHANGED <<ends, next, closed, main, answer, stats, heap, churn, snap>>

\* Its result goes to the seed's own slot; a telemetry error comes after the
\* observation.
Return(w) ==
  LET i == wk[w].seed IN
  /\ wk[w].at = "return"
  /\ IF ends[i] = "ok" THEN results' = [results EXCEPT ![i] = i] /\ UNCHANGED errs
                       ELSE errs' = [errs EXCEPT ![i] = ends[i]] /\ UNCHANGED results
  /\ wk' = [wk EXCEPT ![w] = [at |-> "take", seed |-> None]]
  /\ UNCHANGED <<ends, next, closed, main, answer, stats, heap, churn, snap>>

\* The range over the channel ends: wg.Done.
Leave(w) ==
  /\ wk[w].at = "take" /\ closed
  /\ At(w, "gone")
  /\ UNCHANGED <<ends, next, closed, results, errs, main, answer, stats, heap, churn, snap>>

\* Mutant: the error that came first in time.
AnyError == IF \A i \in 1 .. Seeds : errs[i] = "nil" THEN None
            ELSE CHOOSE i \in 1 .. Seeds : errs[i] # "nil" /\ \A j \in i + 1 .. Seeds : errs[j] = "nil"

\* The error with the lowest index, whichever came first; no partial results.
FirstError == IF \A i \in 1 .. Seeds : errs[i] = "nil" THEN None
              ELSE CHOOSE i \in 1 .. Seeds : errs[i] # "nil" /\ \A j \in 1 .. i - 1 : errs[j] = "nil"

WaitReturns ==
  /\ main = "wait" /\ \A w \in Ids : wk[w].at = "gone"
  /\ answer' = IF FirstError = None THEN [kind |-> "results", results |-> results]
                                    ELSE [kind |-> "error", seed |-> FirstError]
  /\ main' = "stop"
  /\ UNCHANGED <<ends, pool, stats, heap, churn, snap>>

(* ------------------------------ opsmetrics ------------------------------ *)

\* FoldStats.Observe: the lock, the reservoir and the count, the unlock, and
\* then the bytes.
Lock(w) ==
  /\ wk[w].at = "observe" /\ mu = None
  /\ mu' = w /\ At(w, "locked")
  /\ UNCHANGED <<ends, next, closed, results, errs, main, answer, durations, seen, allocBytes,
                 heap, churn, snap>>

Record(w) ==
  /\ wk[w].at = "locked"
  /\ IF Len(durations) < Capacity
       THEN durations' = Append(durations, wk[w].seed)
       ELSE \E j \in 1 .. seen + 1 :
              durations' = IF j <= Capacity THEN [durations EXCEPT ![j] = wk[w].seed] ELSE durations
  /\ seen' = seen + 1
  /\ mu' = None /\ At(w, "add")
  /\ UNCHANGED <<ends, next, closed, results, errs, main, answer, allocBytes, heap, churn, snap>>

AddBytes(w) ==
  /\ wk[w].at = "add"
  /\ allocBytes' = allocBytes + 1
  /\ At(w, "return")
  /\ UNCHANGED <<ends, next, closed, results, errs, main, answer, mu, durations, seen,
                 heap, churn, snap>>

\* addDelta, on a tick.
AddDelta == /\ heapChurn' = IF heap >= last THEN heapChurn + (heap - last) ELSE heapChurn
            /\ last' = heap

Tick == /\ sampler \in {"run", "stop"} /\ ticks < MaxTicks
        /\ ticks' = ticks + 1
        /\ AddDelta
        /\ UNCHANGED <<ends, pool, main, answer, stats, heap, sampler, snap>>

\* stop: the channel is closed once, and the caller waits for the last sample.
Stop == /\ main = "stop" /\ sampler = "run"
        /\ sampler' = "stop" /\ main' = "stopping"
        /\ UNCHANGED <<ends, pool, answer, stats, heap, heapChurn, last, ticks, snap>>

FinalSample == /\ sampler = "stop"
               /\ AddDelta
               /\ sampler' = "done"
               /\ UNCHANGED <<ends, pool, main, answer, stats, heap, ticks, snap>>

\* Mutant: stop returns without its last sample.
StopReturnsAtOnce == /\ main = "stopping"
                     /\ main' = "snapshot"
                     /\ UNCHANGED <<ends, pool, answer, stats, heap, churn, snap>>

StopReturns == /\ main = "stopping" /\ sampler = "done"
               /\ main' = "snapshot"
               /\ UNCHANGED <<ends, pool, answer, stats, heap, churn, snap>>

\* Snapshot, first under the lock, then the two counters.
Snapshot == /\ main = "snapshot" /\ mu = None
            /\ snap' = [count |-> seen, drawn |-> durations, alloc |-> allocBytes,
                        churn |-> heapChurn, has |-> heapChurn > 0]
            /\ main' = "deferred"
            /\ UNCHANGED <<ends, pool, answer, stats, heap, churn>>

\* The deferred second stop loses the CompareAndSwap and returns at once.
DeferredStop == /\ main = "deferred" /\ sampler # "run"
                /\ main' = "exited"
                /\ UNCHANGED <<ends, pool, answer, stats, heap, churn, snap>>

Step(w) == SendIndex(w) \/ Fold(w) \/ Return(w) \/ Leave(w) \/ Lock(w) \/ Record(w) \/ AddBytes(w)
Main == CloseIndices \/ WaitReturns \/ Stop \/ StopReturns \/ Snapshot \/ DeferredStop
Next == (\E w \in Ids : Step(w)) \/ Main \/ Tick \/ FinalSample

\* The Go scheduler runs every goroutine that can run, and a mutex is fair.
Fairness == /\ \A w \in Ids : WF_vars(Step(w)) /\ SF_vars(Lock(w))
            /\ WF_vars(Main) /\ WF_vars(FinalSample)
Spec == Init /\ [][Next]_vars /\ Fairness

-----------------------------------------------------------------------------
Observed == {i \in 1 .. Seeds : ends[i] # "invalid"}

\* The snapshot a run renders is of every fold and of all the heap they churned,
\* though counts, bytes and churn are written by different goroutines at different
\* times; a reservoir that never filled holds each fold once.
SnapshotIsExact ==
  main \in {"deferred", "exited"} =>
    /\ snap.count = Cardinality(Observed) /\ snap.alloc = snap.count
    /\ snap.churn = heap /\ snap.has = (heap > 0)
    /\ {snap.drawn[k] : k \in 1 .. Len(snap.drawn)} \subseteq Observed
    /\ \A j, k \in 1 .. Len(snap.drawn) : j # k => snap.drawn[j] # snap.drawn[k]
    /\ Len(snap.drawn) = IF snap.count < Capacity THEN snap.count ELSE Capacity

\* RunMany gives every seed its own result or the error of the first seed that
\* failed, whatever the order the workers finish in.
AnswersBySeed ==
  /\ answer.kind = "results" => \A i \in 1 .. Seeds : ends[i] = "ok" /\ answer.results[i] = i
  /\ answer.kind = "error" => /\ ends[answer.seed] # "ok"
                              /\ \A j \in 1 .. answer.seed - 1 : ends[j] = "ok"

\* The feeder, the workers, the wait group and the sampler never wait on each
\* other for good: every run ends.
EveryRunEnds == <>(main = "exited")
=============================================================================
