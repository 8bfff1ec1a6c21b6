-------------------------------- MODULE Services --------------------------------
(***************************************************************************)
(* The program around the game, side by side.  A behaviour boots instances, *)
(* or creates and loads matches, or runs a sweep of cmd/simulate over its    *)
(* files, or one configuration's matches on its workers: the four share no   *)
(* state, and each is constant while another runs.                          *)
(***************************************************************************)
EXTENDS Integers, Sequences, FiniteSets, SequencesExt

CONSTANTS
  Instances, Total, Dsns, AnyDsn, MaxDeaths,      \* Boot; no fewer instances than Workers
  Creators, Loaders, Configs, Rosters, MaxInt, MaxMatches,   \* Matches
  Dims, Sweeps, AnySweep, MaxFaults, MaxRuns,                \* Sweep
  Seeds, Workers, Capacity, MaxTicks              \* Pool

\* A lock that nobody holds is no instance's; a roster is a sequence of seats;
\* a pool has matches and workers.
ASSUME ServicesAssumption ==
  /\ "free" \notin Instances /\ Total \in Nat
  /\ \A r \in Rosters : r \in Seq({r[i] : i \in DOMAIN r})
  /\ Seeds \in Nat /\ Workers \in Nat /\ Capacity \in Nat

VARIABLES
  part,
  db, lock, lingers, bpc, dsn, before, pending, failed, bexit, deaths,
  stored, asked, begun, drawn, creator, loader,
  out, brk, broken, spc, run, done, anyErr, at, sexit, faults, runs,
  ends, wk, next, closed, results, errs, main, answer, mu, durations, seen,
  allocBytes, heapChurn, heap, sampler, last, ticks, snap

B == INSTANCE Boot WITH pc <- bpc, exit <- bexit
M == INSTANCE Matches
S == INSTANCE Sweep WITH Runs <- Sweeps, pc <- spc, exit <- sexit
P == INSTANCE Pool

bootVars  == <<db, lock, lingers, bpc, dsn, before, pending, failed, bexit, deaths>>
matchVars == <<stored, asked, begun, drawn, creator, loader>>
sweepVars == <<out, brk, broken, spc, run, done, anyErr, at, sexit, faults, runs>>
poolVars  == <<ends, wk, next, closed, results, errs, main, answer, mu, durations, seen,
               allocBytes, heapChurn, heap, sampler, last, ticks, snap>>
vars == <<part, bootVars, matchVars, sweepVars, poolVars>>

\* A sweep is a sequence of points with no point twice: parseSweepFlags refuses a
\* field swept twice and a value repeated (sweep_spec.go:80, 105).
ASSUME SweepAssumption == S!Points \in Seq(S!Keys) /\ IsInjective(S!Points)

-------------------------------------------------------------------------------
(* One of the four moves.                                                    *)

\* Where a part is not the one that runs, its inputs are fixed.
Init ==
  /\ part \in {"boot", "matches", "sweep", "pool"}
  /\ B!Init /\ M!Init /\ S!Init /\ P!Init
  /\ part # "boot" => dsn = [i \in Instances |-> AnyDsn]
  /\ part # "sweep" => broken = {} /\ run = AnySweep
  /\ part # "pool" => ends = [i \in 1 .. Seeds |-> "ok"]

InBoot(A)    == part = "boot" /\ A /\ UNCHANGED <<part, matchVars, sweepVars, poolVars>>
InMatches(A) == part = "matches" /\ A /\ UNCHANGED <<part, bootVars, sweepVars, poolVars>>
InSweep(A)   == part = "sweep" /\ A /\ UNCHANGED <<part, bootVars, matchVars, poolVars>>
InPool(A)    == part = "pool" /\ A /\ UNCHANGED <<part, bootVars, matchVars, sweepVars>>

Next == InBoot(B!Next) \/ InMatches(M!Next) \/ InSweep(S!Next) \/ InPool(P!Next)

\* The fairness of Boot and of Pool, each in the behaviours that are its own:
\* part never changes, so a condition on either part's action is one on each.
InOrder == SetToSeq(Instances)
Fairness ==
  \A k \in 1 .. Cardinality(Instances) :
    /\ WF_vars(InBoot(B!Step(InOrder[k])) \/ InPool(k <= Workers /\ P!Step(k)))
    /\ SF_vars(InBoot(B!AcquireLock(InOrder[k])) \/ InPool(k <= Workers /\ P!Lock(k)))
    /\ WF_vars(InBoot(B!Restart(InOrder[k])) \/ InPool(k = 1 /\ P!Main))
    /\ WF_vars(InBoot(B!SessionReaped(InOrder[k])) \/ InPool(k = 1 /\ P!FinalSample))

Spec == Init /\ [][Next]_vars /\ Fairness

-------------------------------------------------------------------------------
(* Properties, each as its module states it.                                 *)

\* Of Boot: the migrations that took effect are a prefix of the list, each once;
\* and a process that reports success leaves them all applied.
AppliedInOrder == B!AppliedInOrder
MigratedInFull == B!SuccessIsComplete

\* Of Matches: a match loads as the one call that created it asked, or not at
\* all, and the tokens that call answered open its seats and no other's.
MatchesAsCreated == M!LoadedAsCreated /\ M!TokensFit

\* Of Sweep: a success has the row of every combination in its file, and the
\* breakdown never has rows the results file lacks; but for what one line that was
\* cut at its end took with it.  What run.go says of the breakdown makes no exception.
SweptInFull == S!SuccessIsComplete
BreakdownWithinOut == S!BreakdownWithinOut
BreakdownNeverAhead == S!BreakdownNeverAhead

\* Of Pool: a snapshot taken once the workers are done counts everything they
\* did; and the error or the results answered are those of the lowest seeds.
SnapshotIsExact == P!SnapshotIsExact
AnswersBySeed == P!AnswersBySeed

\* Every boot of every instance ends for good, and so does every call of RunMany.
EveryRunEnds ==
  \A i \in Instances : <>[](CASE part = "boot" -> B!Ended(i)
                              [] part = "pool" -> main = "exited"
                              [] OTHER -> TRUE)
===============================================================================
