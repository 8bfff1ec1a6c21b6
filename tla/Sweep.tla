------------------------------- MODULE Sweep -------------------------------
(***************************************************************************)
(* cmd/simulate's sweep (run.go, csv_report.go, breakdown_report.go,       *)
(* sweep_spec.go): one run after another over the same --out file, each    *)
(* killed or failing anywhere, each resuming what is there or refusing it. *)
(*                                                                         *)
(* A CSV line is the row it holds and how much of it reached the disk: all *)
(* of it, too little to be read as that line ("short"), enough to be, but  *)
(* without its newline ("open": a row may lack the end of its last field,  *)
(* too), or an open line that the next row was begun on ("joined").  A     *)
(* full disk leaves such lines; a kill does not.                           *)
(***************************************************************************)
EXTENDS Naturals, Sequences, FiniteSets, SequencesExt

CONSTANTS Dims,        \* the swept fields: a sequence of sequences of values
          Runs,        \* what a run may be: [sha, breakdown]
          MaxFaults,   \* bound: kills and failed writes
          MaxRuns      \* bound: runs

Line(kind, key, status, text) == [kind |-> kind, key |-> key, status |-> status, text |-> text]
Absent == <<Line("no file", <<>>, "", "whole")>>

\* expandSweep: the product of the values, the first field varying slowest.
ExpandSweep ==
  LET next(combos, values) ==
        [k \in 1 .. Len(combos) * Len(values) |->
           Append(combos[((k - 1) \div Len(values)) + 1], values[((k - 1) % Len(values)) + 1])]
  IN  FoldLeft(next, <<<<>>>>, Dims)

VARIABLES out,     \* the lines of --out, or Absent
          brk,     \* the lines of --breakdown, or Absent
          broken,  \* the points whose matches fail: the same in every run
          pc, run, \* the current run, and where it is
          done,    \* report.done
          anyErr,  \* anyErr
          at,      \* the point it is at
          exit,    \* what the last run exited with
          faults, runs
vars == <<out, brk, broken, pc, run, done, anyErr, at, exit, faults, runs>>

Points == ExpandSweep
Keys == {Points[k] : k \in 1 .. Len(Points)}

Init == /\ out = Absent /\ brk = Absent
        /\ broken \in SUBSET Keys
        /\ pc = "exited" /\ run \in Runs
        /\ done = {} /\ anyErr = FALSE /\ at = 1
        /\ exit = "failure"
        /\ faults = 0 /\ runs = 0

(* -------------------------------- files -------------------------------- *)

\* Where a failed write may cut a line.
Cuts == {"short", "open"}
Unended(lines) == lines # <<>> /\ Last(lines).text \in Cuts

\* A line lands at the end of the file, on what an earlier cut left there (where it
\* is cut in its first field, an open line is as open as it was).
Put(lines, line) ==
  IF Unended(lines) THEN Append(Front(lines), [Last(lines) EXCEPT !.text = "joined"])
                    ELSE Append(lines, line)

Ended(code) == /\ pc' = "exited" /\ exit' = code
Faulty == faults < MaxFaults /\ faults' = faults + 1

\* How the CSV reader takes a line: a short or joined one has the wrong fields.
Parses(line) == line.text \in {"whole", "open"}

\* existingRowKey of every row.
RowKeys(lines) == [k \in 1 .. Len(lines) - 2 |-> lines[k + 2].key]

\* verifyAndReadExisting: provenance and header verbatim, then rows that parse,
\* one to a configuration.
Verified(lines, sha) ==
  /\ Len(lines) >= 2
  /\ lines[1].kind = "provenance" /\ lines[1].key = <<sha>> /\ lines[1].text = "whole"
  /\ Parses(lines[2])
  /\ \A k \in 3 .. Len(lines) : Parses(lines[k])
  /\ IsInjective(RowKeys(lines))

\* Mutant: only this run's own failures count (run.go:204).
ForgetsErrors(lines) == FALSE

HadPriorError(lines) == \E k \in 3 .. Len(lines) : lines[k].status = "error"

(* --------------------------------- a run -------------------------------- *)

\* runWithDeps starts: flags parsed, points validated.
Start(r) ==
  /\ pc = "exited" /\ runs < MaxRuns
  /\ runs' = runs + 1 /\ run' = r /\ pc' = "report"
  /\ done' = {} /\ anyErr' = FALSE /\ at' = 1
  /\ UNCHANGED <<out, brk, broken, exit, faults>>

\* openReport, a file already there: resume it or refuse it.
ResumeReport ==
  /\ pc = "report" /\ out # Absent
  /\ IF Verified(out, run.sha)
       THEN /\ done' = ToSet(RowKeys(out))
            /\ anyErr' = HadPriorError(out)
            /\ pc' = "breakdown"
            /\ UNCHANGED exit
       ELSE Ended("failure") /\ UNCHANGED <<done, anyErr>>
  /\ UNCHANGED <<out, brk, broken, run, at, faults, runs>>

Provenance == Line("provenance", <<run.sha>>, "", "whole")
Header == Line("header", <<>>, "", "whole")

\* openReport, no file: create it and write its two lines.  A failure may leave
\* any beginning of them.
CreateReport ==
  /\ pc = "report" /\ out = Absent
  /\ \/ /\ out' = <<Provenance, Header>> /\ pc' = "breakdown"
        /\ UNCHANGED <<exit, faults>>
     \/ /\ Faulty /\ Ended("failure")
        /\ \/ out' \in {<<>>, <<Provenance>>}
           \/ \E t \in Cuts : out' \in {<<[Provenance EXCEPT !.text = t]>>,
                                        <<Provenance, [Header EXCEPT !.text = t]>>}
  /\ UNCHANGED <<brk, broken, run, done, anyErr, at, runs>>

\* --breakdown is refused on a resume and over an existing file; a failure to
\* write its lines removes it again.
OpenBreakdown ==
  /\ pc = "breakdown"
  /\ IF run.breakdown /\ (done # {} \/ brk # Absent)
       THEN Ended("failure") /\ UNCHANGED <<brk, faults>>
       ELSE \/ /\ brk' = IF run.breakdown THEN <<Provenance, Header>> ELSE brk
               /\ pc' = "point"
               /\ UNCHANGED <<exit, faults>>
            \/ run.breakdown /\ Faulty /\ Ended("failure") /\ UNCHANGED brk
  /\ UNCHANGED <<out, broken, run, done, anyErr, at, runs>>

\* A configuration already recorded is skipped.
Skip ==
  /\ pc = "point" /\ at <= Len(Points) /\ Points[at] \in done
  /\ at' = at + 1
  /\ UNCHANGED <<out, brk, broken, pc, run, done, anyErr, exit, faults, runs>>

Row(k) == Line("row", Points[k], IF Points[k] \in broken THEN "error" ELSE "ok", "whole")

\* Mutant: the breakdown's rows land first.
WriteRowLast ==
  /\ pc = "point" /\ at <= Len(Points) /\ Points[at] \notin done
  /\ anyErr' = (anyErr \/ Points[at] \in broken)
  /\ brk' = IF run.breakdown THEN Put(brk, Row(at)) ELSE brk
  /\ \/ out' = Put(out, Row(at)) /\ at' = at + 1 /\ UNCHANGED <<pc, exit, faults>>
     \/ Faulty /\ Ended("failure") /\ UNCHANGED <<out, at>>
  /\ UNCHANGED <<broken, run, done, runs>>

\* The matches of one configuration run, and its row is flushed; an error is a
\* row like any other and stays with the exit code.
WriteRow ==
  /\ pc = "point" /\ at <= Len(Points) /\ Points[at] \notin done
  /\ anyErr' = (anyErr \/ Points[at] \in broken)
  /\ \/ /\ out' = Put(out, Row(at))
        /\ IF run.breakdown THEN pc' = "row" /\ at' = at ELSE pc' = pc /\ at' = at + 1
        /\ UNCHANGED <<exit, faults>>
     \/ /\ Faulty /\ Ended("failure")
        /\ out' \in {out} \cup {Put(out, [Row(at) EXCEPT !.text = t]) : t \in Cuts}
        /\ UNCHANGED at
  /\ UNCHANGED <<brk, broken, run, done, runs>>

\* Only then the breakdown's rows of the same configuration.
WriteBreakdown ==
  /\ pc = "row"
  /\ \/ /\ brk' = Put(brk, Row(at))
        /\ pc' = "point" /\ at' = at + 1
        /\ UNCHANGED <<exit, faults>>
     \/ /\ Faulty /\ Ended("failure")
        /\ brk' \in {brk} \cup {Put(brk, [Row(at) EXCEPT !.text = t]) : t \in Cuts}
        /\ UNCHANGED at
  /\ UNCHANGED <<out, broken, run, done, anyErr, runs>>

\* All points done: the exit code says whether any failed, in this run or
\* before; a report that does not close is a failure too.
Finish ==
  /\ pc = "point" /\ at > Len(Points)
  /\ \/ Ended(IF anyErr THEN "failure" ELSE "success") /\ UNCHANGED faults
     \/ Faulty /\ Ended("failure")
  /\ UNCHANGED <<out, brk, broken, run, done, anyErr, at, runs>>

\* Killed between two writes; in CreateReport and openBreakdownReport too.
Kill ==
  /\ pc # "exited" /\ Faulty /\ Ended("failure")
  /\ out' \in {out} \cup (IF pc = "report" /\ out = Absent
                            THEN {<<>>, <<Provenance>>, <<Provenance, Header>>} ELSE {})
  /\ brk' \in {brk} \cup (IF pc = "breakdown" /\ run.breakdown /\ done = {} /\ brk = Absent
                            THEN {<<>>, <<Provenance>>, <<Provenance, Header>>} ELSE {})
  /\ UNCHANGED <<broken, run, done, anyErr, at, runs>>

Next == \/ \E r \in Runs : Start(r)
        \/ ResumeReport \/ CreateReport \/ OpenBreakdown
        \/ Skip \/ WriteRow \/ WriteBreakdown \/ Finish \/ Kill

Spec == Init /\ [][Next]_vars

-----------------------------------------------------------------------------
(* Correctness.                                                              *)

Intact(lines) == \A k \in 1 .. Len(lines) : lines[k].text = "whole"

\* Exit code 0 means that --out holds one whole, successful row of every point, all
\* of one sweep, however many runs and faults it took (resume, skip,
\* hadPriorError, provenance).  A failed write may have left one open line, which a
\* resume takes for a whole one: it costs the point whose row it is and the point
\* after, whose row it is joined with, and no other.
Recorded(p) == \E k \in 3 .. Len(out) : out[k] = Line("row", p, "ok", "whole")
SuccessIsComplete ==
  exit = "success" /\ pc = "exited" =>
    /\ out # Absent /\ out[1] = Line("provenance", <<run.sha>>, "", "whole")
    /\ \A k \in 3 .. Len(out) : out[k].status = "ok"
    /\ \A j, k \in 1 .. Len(out) : out[j].text # "whole" /\ out[k].text # "whole" => j = k
    /\ \A m \in 1 .. Len(Points) :
         \/ Recorded(Points[m])
         \/ \E k \in {m + 1, m + 2} : k <= Len(out) /\ out[k].text # "whole"
    /\ Intact(out) => Len(out) = Len(Points) + 2

\* A configuration is in the breakdown only if it is in the sweep (run.go:302); but
\* for the first, where its row was joined with an open header.
HasRow(p) == \E k \in 3 .. Len(out) : out[k].key = p /\ out[k].text = "whole"
BreakdownWithinOut ==
  brk # Absent => \A k \in 3 .. Len(brk) :
    \/ HasRow(brk[k].key)
    \/ brk[k].key = Points[1] /\ Len(out) >= 2 /\ out[2].text = "joined"

\* As run.go:302 has it, of the first too.
BreakdownNeverAhead == brk # Absent => \A k \in 3 .. Len(brk) : HasRow(brk[k].key)
=============================================================================
