-------------------------------- MODULE Suite --------------------------------
(***************************************************************************)
(* run_tests of src/p1/test_p1a1.py: the test classes run one after the    *)
(* other, each through Test.run (module TestFramework), and the return     *)
(* values are tallied into succeeded / failed / points.                    *)
(*                                                                         *)
(* The artifact files of the working directory are state: the fixture     *)
(* the body writes, the file the program writes, and the binary gcc        *)
(* builds; with `cleanup` the suite removes a fixed list of them after the *)
(* loop.  test_p1a1_normal3.py is the same code with os.remove commented   *)
(* out, which the constant RemovesFiles tells apart.                       *)
(***************************************************************************)
EXTENDS TestFramework, Sequences, Folds

CONSTANTS
  Tests,          \* the sequence of test classes handed to run_tests
  point_value,    \* point_value[c]: the class attribute point_value of c
  kind,           \* kind[c]: "compile" (TestCompile), "reverse" (a
                  \* ReverseTest) or "error" (an ExpectErrorTest)
  RemovesFiles    \* the clean-up calls os.remove (FALSE in normal3)

ASSUME Tests \in Seq(Cases) /\ \A i, j \in DOMAIN Tests : i # j => Tests[i] # Tests[j]
ASSUME point_value \in [Cases -> Nat]
ASSUME kind \in [Cases -> {"compile", "reverse", "error"}]
ASSUME RemovesFiles \in BOOLEAN

\* The list the clean-up walks: ['inputfile', 'outputfile', 'reverse',
\* 'reverse.o'].
CleanupFiles == {"inputfile", "outputfile", "reverse", "reverse.o"}

VARIABLES
  short_circuit,  \* the argument short_circuit of run_tests
  cleanup,        \* the argument cleanup of run_tests
  artifacts,      \* the files of CleanupFiles present in the directory
  outputfrom,     \* the case whose program wrote the outputfile present,
                  \* "none" when there is none
  readfrom,       \* history: readfrom[c] is the case whose program wrote
                  \* the outputfile c's check read, "none" before a read
  binfrom,        \* the ./reverse binary present: "none", "stale" (there
                  \* before the suite started) or "gcc" (TestCompile's)
  rc,             \* rc[c]: the exit status of c's program, once it exited
  ran,            \* history: ran[c] is the binary c's ./reverse executed
  i,              \* index in Tests of the `for test in tests` loop
  stage,          \* where run_tests is: "loop", "call", "after", "finished"
  points,
  succeeded,
  failed,
  notrun

suiteVars == <<short_circuit, cleanup, i, stage, points, succeeded, failed, notrun>>
envVars == <<artifacts, outputfrom, readfrom, binfrom, rc, ran>>
vars == <<tfVars, suiteVars, envVars>>

N == Len(Tests)

\* sum(test.point_value for test in tests)
tot_points == MapThenFoldSet(+, 0, LAMBDA c : point_value[c], LAMBDA S : CHOOSE x \in S : TRUE,
                             {Tests[k] : k \in 1..N})

\* What test.run() returned: the point value on success, 0 on failure.
RunValue(c) == IF result[c] = "pass" THEN point_value[c] ELSE 0

SuiteTypeOK ==
  /\ TFTypeOK
  /\ short_circuit \in BOOLEAN /\ cleanup \in BOOLEAN
  /\ artifacts \subseteq CleanupFiles
  /\ outputfrom \in Cases \cup {"none"}
  /\ readfrom \in [Cases -> Cases \cup {"none"}]
  /\ binfrom \in {"none", "stale", "gcc"}
  /\ rc \in [Cases -> {"none", "zero", "nonzero"}]
  /\ ran \in [Cases -> {"none", "stale", "gcc"}]
  /\ i \in 1..N+1
  /\ stage \in {"loop", "call", "after", "finished"}
  /\ points \in 0..tot_points
  /\ succeeded \in 0..N /\ failed \in 0..N /\ notrun \in 0..N

\* run_tests may be called with either value of short_circuit and cleanup
\* (the defaults are True and False; main passes `not testall` and
\* `cleanup`).  The directory may hold a ./reverse binary built before the
\* suite (by the student, or a run without clean-up), and no other file.
Init ==
  /\ TFInit
  /\ short_circuit \in BOOLEAN /\ cleanup \in BOOLEAN
  /\ binfrom \in {"none", "stale"}
  /\ artifacts = IF binfrom = "stale" THEN {"reverse"} ELSE {}
  /\ outputfrom = "none"
  /\ readfrom = [c \in Cases |-> "none"]
  /\ rc = [c \in Cases |-> "none"]
  /\ ran = [c \in Cases |-> "none"]
  /\ i = 1
  /\ stage = "loop"
  /\ points = 0 /\ succeeded = 0 /\ failed = 0 /\ notrun = 0

(***************************************************************************)
(* The bodies of the test classes of test_p1a1.py.                         *)
(***************************************************************************)

\* Fault: the stale outputfile is not removed (lines 46-47 left out).
SetupKeepsOutput(c) ==
  /\ pc[c] = "setup"
  /\ \/ /\ kind[c] = "compile"
        /\ pc' = [pc EXCEPT ![c] = "spawn"]
        /\ UNCHANGED <<alarm, artifacts>>
     \/ /\ kind[c] # "compile"
        /\ pc' = [pc EXCEPT ![c] = "spawn"]
        /\ artifacts' = artifacts \cup {"inputfile"}
        /\ UNCHANGED alarm
     \/ /\ kind[c] # "compile"
        /\ Raise(c)
        /\ \E w \in {{}, {"inputfile"}} : artifacts' = artifacts \cup w
  /\ UNCHANGED <<child, proc, result, logged, returned, outputfrom, readfrom,
                 binfrom, rc, ran>>

\* Fixture setup: TestCompile has none; ReverseTest.test removes a stale
\* outputfile and writes generate_lines() to inputfile, which may fail
\* (IOError) after open() created it.  ExpectErrorTest.test runs the same
\* code through super().
Setup(c) ==
  /\ pc[c] = "setup"
  /\ \/ /\ kind[c] = "compile"
        /\ pc' = [pc EXCEPT ![c] = "spawn"]
        /\ UNCHANGED <<alarm, artifacts, outputfrom>>
     \/ /\ kind[c] # "compile"
        /\ pc' = [pc EXCEPT ![c] = "spawn"]
        /\ artifacts' = (artifacts \ {"outputfile"}) \cup {"inputfile"}
        /\ outputfrom' = "none"
        /\ UNCHANGED alarm
     \/ /\ kind[c] # "compile"
        /\ Raise(c)
        /\ \E w \in {{}, {"inputfile"}} :
             artifacts' = (artifacts \ {"outputfile"}) \cup w
        /\ outputfrom' = "none"
  /\ UNCHANGED <<child, proc, result, logged, returned, readfrom, binfrom, rc, ran>>

\* with open(outputfile, 'r'): fails unless the file is there; the check
\* then compares what the program of outputfrom wrote.
ReadOutput(c) ==
  /\ "outputfile" \in artifacts
  /\ readfrom' = [readfrom EXCEPT ![c] = outputfrom]

\* The checks on the result of popen_as_child.  TestCompile: the exit
\* status (CalledProcessError).  ReverseTest: the ascii decoding may raise,
\* and `assert rc == 0` raises, before anything is read; with status 0
\* outputfile is read and compared with reverse().  ExpectErrorTest runs
\* the same code through super(): it passes only through the AssertionError
\* of a non-zero status (when status, stdout and err_msg are the expected
\* ones) and fails on every status-0 path: the missing file, the mismatch
\* (its AssertionError fails the status assert) or `assert False`.
Check(c) ==
  LET ok == /\ pc' = [pc EXCEPT ![c] = "exit"]
            /\ returned' = [returned EXCEPT ![c] = TRUE]
            /\ UNCHANGED alarm
      ko == Raise(c) /\ UNCHANGED returned
  IN
  /\ pc[c] = "check"
  /\ \/ /\ kind[c] = "compile"
        /\ IF rc[c] = "zero" THEN ok ELSE ko
        /\ UNCHANGED readfrom
     \/ /\ kind[c] # "compile"
        /\ ko
        /\ UNCHANGED readfrom
     \/ /\ kind[c] = "error" /\ rc[c] = "nonzero"
        /\ ok
        /\ UNCHANGED readfrom
     \/ /\ kind[c] # "compile" /\ rc[c] = "zero"
        /\ "outputfile" \notin artifacts
        /\ ko
        /\ UNCHANGED readfrom
     \/ /\ kind[c] # "compile" /\ rc[c] = "zero"
        /\ ReadOutput(c)
        /\ ko \/ (kind[c] = "reverse" /\ ok)
  /\ UNCHANGED <<child, proc, result, logged, artifacts, outputfrom, binfrom, rc, ran>>

\* p = Popen(cmd): gcc is always there; ./reverse is whatever binary the
\* directory holds, and Popen raises (FileNotFoundError) when there is
\* none, before any process exists.
Exec(c) ==
  /\ \/ /\ kind[c] = "compile" \/ binfrom # "none"
        /\ Spawn(c)
        /\ ran' = IF kind[c] = "compile" THEN ran ELSE [ran EXCEPT ![c] = binfrom]
     \/ /\ kind[c] # "compile" /\ binfrom = "none"
        /\ pc[c] = "spawn"
        /\ Raise(c)
        /\ UNCHANGED <<child, proc, result, logged, returned, ran>>
  /\ UNCHANGED <<artifacts, outputfrom, readfrom, binfrom, rc>>

\* point = test.run()
CallRun ==
  /\ stage = "loop"
  /\ i <= N
  /\ Run(Tests[i])
  /\ stage' = "call"
  /\ UNCHANGED <<short_circuit, cleanup, i, points, succeeded, failed, notrun, envVars>>

\* A step inside the running test.
Step ==
  /\ stage = "call"
  /\ \/ Setup(Tests[i])
     \/ Exec(Tests[i])
     \/ Check(Tests[i])
     \/ HarnessStep(Tests[i]) /\ UNCHANGED envVars
  /\ UNCHANGED suiteVars

\* Fault: gcc without `-o reverse`: a successful build leaves the binary in
\* a.out, and ./reverse stays what it was.
GccExitNoOutputName(c, st) ==
  /\ kind[c] = "compile"
  /\ \/ st = "zero" /\ UNCHANGED <<binfrom, artifacts>>
     \/ /\ st = "nonzero"
        /\ \/ UNCHANGED <<binfrom, artifacts>>
           \/ binfrom' = "none" /\ artifacts' = artifacts \ {"reverse"}
  /\ UNCHANGED outputfrom

\* gcc -Wall -Werror -o reverse reverse.c exits: it writes ./reverse exactly
\* when it succeeds; a failed compilation leaves the old file, a failed
\* link removes it.
GccExit(c, st) ==
  /\ kind[c] = "compile"
  /\ \/ /\ st = "zero"
        /\ binfrom' = "gcc"
        /\ artifacts' = artifacts \cup {"reverse"}
     \/ /\ st = "nonzero"
        /\ \/ UNCHANGED <<binfrom, artifacts>>
           \/ binfrom' = "none" /\ artifacts' = artifacts \ {"reverse"}
  /\ UNCHANGED outputfrom

\* ./reverse -i inputfile -o outputfile exits with any status, having
\* written outputfile or not.
ProgramExit(c, st) ==
  /\ kind[c] # "compile"
  /\ \/ /\ artifacts' = artifacts \cup {"outputfile"}
        /\ outputfrom' = c
     \/ UNCHANGED <<artifacts, outputfrom>>
  /\ UNCHANGED binfrom

\* A child process exits: the one of the running case, or one left behind
\* by an earlier case.
ChildStep ==
  /\ \E c \in Cases, st \in {"zero", "nonzero"} :
       /\ ChildExit(c)
       /\ rc' = [rc EXCEPT ![c] = st]
       /\ GccExit(c, st) \/ ProgramExit(c, st)
  /\ UNCHANGED <<suiteVars, readfrom, ran>>

\* Fault: `points += point` indented into the failure branch.
TallyPointsInFailBranch ==
  LET point == RunValue(Tests[i]) IN
  /\ stage = "call"
  /\ pc[Tests[i]] = "done"
  /\ \/ /\ point = 0
        /\ failed' = failed + 1
        /\ UNCHANGED succeeded
     \/ /\ point # 0
        /\ succeeded' = succeeded + 1
        /\ UNCHANGED failed
  /\ IF point = 0 /\ short_circuit
       THEN /\ stage' = "after"
            /\ UNCHANGED <<i, points>>
       ELSE /\ stage' = "loop"
            /\ i' = i + 1
            /\ points' = IF point = 0 THEN points + point ELSE points
  /\ UNCHANGED <<short_circuit, cleanup, notrun, tfVars, envVars>>

\* Fault: the failure branch never breaks out of the loop.
TallyNoBreak ==
  LET point == RunValue(Tests[i]) IN
  /\ stage = "call"
  /\ pc[Tests[i]] = "done"
  /\ \/ /\ point = 0
        /\ failed' = failed + 1
        /\ UNCHANGED succeeded
     \/ /\ point # 0
        /\ succeeded' = succeeded + 1
        /\ UNCHANGED failed
  /\ stage' = "loop"
  /\ i' = i + 1
  /\ points' = points + point
  /\ UNCHANGED <<short_circuit, cleanup, notrun, tfVars, envVars>>

\* test.run() has returned: count it as failed when it returned 0, and
\* break on it when short_circuit; otherwise count it as succeeded; then
\* add the returned points.
Tally ==
  LET point == RunValue(Tests[i]) IN
  /\ stage = "call"
  /\ pc[Tests[i]] = "done"
  /\ \/ /\ point = 0
        /\ failed' = failed + 1
        /\ UNCHANGED succeeded
     \/ /\ point # 0
        /\ succeeded' = succeeded + 1
        /\ UNCHANGED failed
  /\ IF point = 0 /\ short_circuit
       THEN /\ stage' = "after"
            /\ UNCHANGED <<i, points>>
       ELSE /\ stage' = "loop"
            /\ i' = i + 1
            /\ points' = points + point
  /\ UNCHANGED <<short_circuit, cleanup, notrun, tfVars, envVars>>

\* The loop ran out of tests.
EndLoop ==
  /\ stage = "loop"
  /\ i > N
  /\ stage' = "after"
  /\ UNCHANGED <<short_circuit, cleanup, i, points, succeeded, failed, notrun, tfVars, envVars>>

\* Fault: notrun computed one too low.
FinishOffByOne ==
  /\ stage = "after"
  /\ stage' = "finished"
  /\ notrun' = N - succeeded - failed - 1
  /\ artifacts' = IF cleanup /\ RemovesFiles THEN artifacts \ CleanupFiles ELSE artifacts
  /\ outputfrom' = IF cleanup /\ RemovesFiles THEN "none" ELSE outputfrom
  /\ binfrom' = IF cleanup /\ RemovesFiles THEN "none" ELSE binfrom
  /\ UNCHANGED <<short_circuit, cleanup, i, points, succeeded, failed, tfVars, readfrom, rc, ran>>

Finish ==
  /\ stage = "after"
  /\ stage' = "finished"
  /\ notrun' = N - succeeded - failed
  /\ artifacts' = IF cleanup /\ RemovesFiles THEN artifacts \ CleanupFiles ELSE artifacts
  /\ outputfrom' = IF cleanup /\ RemovesFiles THEN "none" ELSE outputfrom
  /\ binfrom' = IF cleanup /\ RemovesFiles THEN "none" ELSE binfrom
  /\ UNCHANGED <<short_circuit, cleanup, i, points, succeeded, failed, tfVars, readfrom, rc, ran>>

\* The suite has returned.
Finished ==
  /\ stage = "finished"
  /\ UNCHANGED vars

Next == CallRun \/ Step \/ ChildStep \/ Tally \/ EndLoop \/ Finish \/ Finished

Spec == Init /\ [][Next]_vars

(***************************************************************************)
(* The interpreter never stops while it can run (weak fairness on its      *)
(* steps), and an armed SIGALRM is eventually delivered (FireTimeout and   *)
(* FireKillTimeout are steps of Step).  The child is not fair: it may hang *)
(* forever and may even survive SIGKILL (uninterruptible sleep).           *)
(***************************************************************************)
FairSpec ==
  /\ Spec
  /\ WF_vars(CallRun) /\ WF_vars(Step) /\ WF_vars(Tally)
  /\ WF_vars(EndLoop) /\ WF_vars(Finish)

(***************************************************************************)
(* Properties                                                              *)
(***************************************************************************)

\* The first test that returned 0, when there is one.
FirstZero ==
  CHOOSE k \in 1..N :
    /\ pc[Tests[k]] = "done" /\ RunValue(Tests[k]) = 0
    /\ \A j \in 1..k-1 : RunValue(Tests[j]) # 0

\* The summary adds up (spec 8): every test is succeeded, failed or not
\* run, and the score is exactly the sum of what the tests' run() returned.
ScoreAccounting ==
  stage = "finished" =>
    /\ succeeded + failed + notrun = N
    /\ points = MapThenFoldSet(+, 0, LAMBDA k : RunValue(Tests[k]),
                               LAMBDA S : CHOOSE x \in S : TRUE, 1..N)

\* With short_circuit, the suite stops at the first test returning 0: no
\* later test is started and all of them are reported as not run.
ShortCircuitStops ==
  stage = "finished" /\ short_circuit /\ failed > 0 =>
    /\ notrun = N - FirstZero
    /\ \A j \in FirstZero+1..N : pc[Tests[j]] = "idle"

StaleBinaryOnlyWithoutBuild ==
  \A c \in Cases :
    ran[c] = "stale" => \A d \in Cases : kind[d] = "compile" => result[d] # "pass"

\* Spec 1 and 5: the harness compiles the submitted program and grades
\* that program; a failed build is reported like any other failing case.
\* So no test passes by running a ./reverse that this suite's gcc did not
\* produce.  In the code, gcc failing (-Werror) keeps the old binary, the
\* later ReverseTests Popen it (line 54) and compare its output.
StaleBinaryNeverGraded ==
  \A c \in Cases : ran[c] = "stale" => result[c] # "pass"

\* A check compares the output of its own program, or, when ReverseTest.test
\* removed the stale outputfile (lines 46-47) and its program exited 0
\* without writing one, the output of an earlier case's program that run()
\* abandoned still running: killed in vain (line 83) or never recorded in
\* cls.child.  Output of a child that run() reaped is never read by a
\* later case.
StaleOutputOnlyFromAbandoned ==
  \A c \in Cases :
    readfrom[c] \notin {"none", c} =>
      /\ pc[readfrom[c]] = "done"
      /\ proc[readfrom[c]] \in {"running", "exited"}

(***************************************************************************)
(* Refinement: Suite implements AbstractSuite.  To the abstract suite the  *)
(* running case is still waiting to be run until its run() has returned,  *)
(* and the outcome of a case is what its run() returned.                   *)
(***************************************************************************)
AbsStage == IF stage = "call" /\ pc[Tests[i]] # "done" THEN "loop" ELSE stage

Abstract == INSTANCE AbstractSuite WITH stage <- AbsStage, outcome <- result

\* Whatever the timer and the child do, each test.run() returns exactly one
\* verdict, decided once, for the case run_tests is running and no other,
\* and run_tests goes on to its summary: the suite behaves as a sequence of
\* atomic pass/fail calls (and so terminates).
SuiteImplementsAbstract == Abstract!FairSpec

=============================================================================
