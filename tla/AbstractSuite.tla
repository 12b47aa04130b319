---------------------------- MODULE AbstractSuite ----------------------------
(***************************************************************************)
(* run_tests of src/p1/test_p1a1.py seen from outside Test.run: each call   *)
(* test.run() is one atomic step that decides the case's outcome, "pass"  *)
(* (it returned point_value) or "fail" (it returned 0).  Deadlines, the    *)
(* child process and the reclamation are hidden.  Suite (which has them)   *)
(* implements this specification; MC_AbstractSuite checks it over the      *)
(* whole test table of the file.                                           *)
(***************************************************************************)
EXTENDS Naturals, Sequences, FiniteSets, Folds

CONSTANTS
  Cases,          \* the test classes
  Tests,          \* the sequence handed to run_tests
  point_value     \* point_value[c]

ASSUME Tests \in Seq(Cases) /\ \A j, l \in DOMAIN Tests : j # l => Tests[j] # Tests[l]
ASSUME point_value \in [Cases -> Nat]

VARIABLES
  short_circuit, i, stage, points, succeeded, failed, notrun,
  outcome         \* outcome[c]: "none" until c.run() returned

vars == <<short_circuit, i, stage, points, succeeded, failed, notrun, outcome>>

N == Len(Tests)

\* sum(test.point_value for test in tests)
tot_points == MapThenFoldSet(+, 0, LAMBDA c : point_value[c],
                             LAMBDA S : CHOOSE x \in S : TRUE, {Tests[k] : k \in 1..N})

\* What c.run() returned.
RunValue(c) == IF outcome[c] = "pass" THEN point_value[c] ELSE 0

AbsTypeOK ==
  /\ short_circuit \in BOOLEAN
  /\ i \in 1..N+1
  /\ stage \in {"loop", "call", "after", "finished"}
  /\ points \in 0..tot_points
  /\ succeeded \in 0..N /\ failed \in 0..N /\ notrun \in 0..N
  /\ outcome \in [Cases -> {"none", "pass", "fail"}]

Init ==
  /\ short_circuit \in BOOLEAN
  /\ i = 1 /\ stage = "loop"
  /\ points = 0 /\ succeeded = 0 /\ failed = 0 /\ notrun = 0
  /\ outcome = [c \in Cases |-> "none"]

\* point = test.run(): the case passes or fails.
RunCase ==
  /\ stage = "loop" /\ i <= N
  /\ \E o \in {"pass", "fail"} : outcome' = [outcome EXCEPT ![Tests[i]] = o]
  /\ stage' = "call"
  /\ UNCHANGED <<short_circuit, i, points, succeeded, failed, notrun>>

\* Fault: `succeeded += 1` dedented out of the else branch.
TallySucceededAlways ==
  LET point == RunValue(Tests[i]) IN
  /\ stage = "call"
  /\ succeeded' = succeeded + 1
  /\ failed' = IF point = 0 THEN failed + 1 ELSE failed
  /\ IF point = 0 /\ short_circuit
       THEN stage' = "after" /\ UNCHANGED <<i, points>>
       ELSE stage' = "loop" /\ i' = i + 1 /\ points' = points + point
  /\ UNCHANGED <<short_circuit, notrun, outcome>>

\* if point == 0: failed += 1, break when short_circuit; else succeeded
\* += 1; points += point.
Tally ==
  LET point == RunValue(Tests[i]) IN
  /\ stage = "call"
  /\ IF point = 0
       THEN failed' = failed + 1 /\ UNCHANGED succeeded
       ELSE succeeded' = succeeded + 1 /\ UNCHANGED failed
  /\ IF point = 0 /\ short_circuit
       THEN stage' = "after" /\ UNCHANGED <<i, points>>
       ELSE stage' = "loop" /\ i' = i + 1 /\ points' = points + point
  /\ UNCHANGED <<short_circuit, notrun, outcome>>

EndLoop ==
  /\ stage = "loop" /\ i > N
  /\ stage' = "after"
  /\ UNCHANGED <<short_circuit, i, points, succeeded, failed, notrun, outcome>>

\* Fault: notrun computed one too low.
FinishOffByOne ==
  /\ stage = "after"
  /\ stage' = "finished"
  /\ notrun' = N - succeeded - failed - 1
  /\ UNCHANGED <<short_circuit, i, points, succeeded, failed, outcome>>

\* The clean-up, notrun = len(tests) - succeeded - failed, the summary.
Finish ==
  /\ stage = "after"
  /\ stage' = "finished"
  /\ notrun' = N - succeeded - failed
  /\ UNCHANGED <<short_circuit, i, points, succeeded, failed, outcome>>

Finished ==
  /\ stage = "finished"
  /\ UNCHANGED vars

Next == RunCase \/ Tally \/ EndLoop \/ Finish \/ Finished

Spec == Init /\ [][Next]_vars

\* Every call of test.run() returns, and run_tests goes on until it returns.
FairSpec ==
  /\ Spec
  /\ WF_vars(RunCase) /\ WF_vars(Tally) /\ WF_vars(EndLoop) /\ WF_vars(Finish)

(***************************************************************************)
(* Properties                                                              *)
(***************************************************************************)

\* The report (spec 4.4) is right for the suite as written: succeeded is the
\* number of passing cases, failed the number of failing cases that ran,
\* notrun the cases never started, and the score the points of the passing
\* cases.  The tally classifies by `point == 0`, not by the outcome, so this
\* depends on no class of the table being worth 0 points.
ReportMatchesOutcomes ==
  stage = "finished" =>
    /\ succeeded = Cardinality({c \in Cases : outcome[c] = "pass"})
    /\ failed = Cardinality({c \in Cases : outcome[c] = "fail"})
    /\ notrun = Cardinality({c \in Cases : outcome[c] = "none"})
    /\ points = MapThenFoldSet(+, 0, LAMBDA c : point_value[c],
                               LAMBDA S : CHOOSE x \in S : TRUE,
                               {c \in Cases : outcome[c] = "pass"})

=============================================================================
