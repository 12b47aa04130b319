----------------------------- MODULE WisTarSuite -----------------------------
(***************************************************************************)
(* src/p1/test_p1a2.py: WisTarTest.test, ExpectErrorTest.test, TestCompile *)
(* and run_tests, composed with Test.run (module TestFramework).           *)
(*                                                                         *)
(* The working directory is state: the fixture files each body writes and  *)
(* the archive test.tar.  So is the module global cleanup_list, which      *)
(* WisTarTest.test rebinds and run_tests, after every case, removes the   *)
(* files it names without ever emptying it.                                *)
(***************************************************************************)
EXTENDS TestFramework, Sequences, Folds

CONSTANTS
  Tests,          \* the sequence of test classes handed to run_tests
  point_value,    \* point_value[c]
  kind,           \* kind[c]: "compile" (TestCompile), "error" (an
                  \* ExpectErrorTest), "normal" (a WisTarTest),
                  \* "archive_exist" (TestArchiveExist)
  fixtures,       \* fixtures[c]: the file names generate_files() returns
  expected,       \* expected[c]: the archive wistar() computes, abstracted
                  \* to an identifier: equal for classes with equal inputs
  FileNames,      \* all fixture file names
  short_circuit   \* the argument of run_tests (main passes False)

ASSUME Tests \in Seq(Cases) /\ \A j, k \in DOMAIN Tests : j # k => Tests[j] # Tests[k]
ASSUME kind \in [Cases -> {"compile", "error", "normal", "archive_exist"}]
ASSUME fixtures \in [Cases -> Seq(FileNames)]
ASSUME short_circuit \in BOOLEAN

\* outputfile = 'test.tar', the only name that is not a fixture.
Archive == "test.tar"

VARIABLES
  i, stage, points, succeeded, failed, notrun,
  files,          \* the fixture files present in the working directory
  archive,        \* test.tar: "absent", "garbage", or the case whose
                  \* program wrote it
  cleanup_list,   \* the global cleanup_list, as a set of names
  wpc,            \* where WisTarTest.test is in its setup: "rm", "write"
  written,        \* how many fixture files the loop at line 53 has written
  broken,         \* history: the cases whose body raised before line 58
  readfrom        \* history: readfrom[c] is what the archive c's check
                  \* read was ("garbage" or the case whose program wrote
                  \* it), "none" before a read

wtVars == <<i, stage, points, succeeded, failed, notrun, files, archive,
            cleanup_list, wpc, written>>
vars == <<tfVars, wtVars, broken, readfrom>>

N == Len(Tests)

tot_points == MapThenFoldSet(+, 0, LAMBDA c : point_value[c],
                             LAMBDA S : CHOOSE x \in S : TRUE, {Tests[k] : k \in 1..N})

RunValue(c) == IF result[c] = "pass" THEN point_value[c] ELSE 0

\* The archive is what wistar() computes for c's inputs.
Matches(c) == archive \in Cases /\ expected[archive] = expected[c]

WisTarTypeOK ==
  /\ TFTypeOK
  /\ i \in 1..N+1
  /\ stage \in {"loop", "call", "cleanup", "after", "finished"}
  /\ points \in 0..tot_points
  /\ succeeded \in 0..N /\ failed \in 0..N /\ notrun \in 0..N
  /\ files \subseteq FileNames
  /\ archive \in {"absent", "garbage"} \cup Cases
  /\ cleanup_list \subseteq FileNames \cup {Archive}
  /\ wpc \in {"rm", "write"}
  /\ written \in Nat
  /\ stage = "call" => written <= Len(fixtures[Tests[i]])
  /\ broken \subseteq Cases
  /\ readfrom \in [Cases -> {"none", "garbage"} \cup Cases]

Init ==
  /\ TFInit
  /\ i = 1 /\ stage = "loop"
  /\ points = 0 /\ succeeded = 0 /\ failed = 0 /\ notrun = 0
  /\ files = {}
  /\ archive = "absent"
  /\ cleanup_list = {}
  /\ wpc = "rm" /\ written = 0
  /\ broken = {}
  /\ readfrom = [c \in Cases |-> "none"]

(***************************************************************************)
(* The bodies.                                                             *)
(***************************************************************************)

\* TestCompile.test: no fixture, straight to popen_as_child.
CompileSetup(c) ==
  /\ kind[c] = "compile"
  /\ pc[c] = "setup"
  /\ pc' = [pc EXCEPT ![c] = "spawn"]
  /\ UNCHANGED <<alarm, child, proc, result, logged, returned, wtVars>>

\* Fault: the stale test.tar is not removed (lines 48-49 left out).
RemoveArchiveNot(c) ==
  /\ kind[c] # "compile"
  /\ pc[c] = "setup" /\ wpc = "rm"
  /\ wpc' = "write"
  /\ archive' = IF kind[c] = "archive_exist" THEN "garbage" ELSE archive
  /\ UNCHANGED <<tfVars, i, stage, points, succeeded, failed, notrun, files,
                 cleanup_list, written>>

\* Remove a stale test.tar; generate_files() of TestArchiveExist then
\* writes garbage into it.
RemoveArchive(c) ==
  /\ kind[c] # "compile"
  /\ pc[c] = "setup" /\ wpc = "rm"
  /\ wpc' = "write"
  /\ archive' = IF kind[c] = "archive_exist" THEN "garbage" ELSE "absent"
  /\ UNCHANGED <<tfVars, i, stage, points, succeeded, failed, notrun, files,
                 cleanup_list, written>>

\* One iteration of `for filename, content in files`: open and write the
\* file, which may fail (IOError).
WriteFixture(c) ==
  /\ pc[c] = "setup" /\ wpc = "write"
  /\ written < Len(fixtures[c])
  /\ \/ /\ files' = files \cup {fixtures[c][written + 1]}
        /\ written' = written + 1
        /\ UNCHANGED <<pc, alarm>>
     \/ /\ Raise(c)
        \* the deadline or an IOError strikes before open(..., 'wb')
        \* created the file, or after it, while write() fills it
        /\ files' \in {files, files \cup {fixtures[c][written + 1]}}
        /\ UNCHANGED written
  /\ UNCHANGED <<child, proc, result, logged, returned, i, stage, points,
                 succeeded, failed, notrun, archive, cleanup_list, wpc>>

\* cleanup_list = filenames; output_tar = wistar(filenames); build cmd.
Register(c) ==
  /\ pc[c] = "setup" /\ wpc = "write"
  /\ written = Len(fixtures[c])
  /\ cleanup_list' = {fixtures[c][k] : k \in 1..Len(fixtures[c])}
  /\ pc' = [pc EXCEPT ![c] = "spawn"]
  /\ UNCHANGED <<alarm, child, proc, result, logged, returned, i, stage,
                 points, succeeded, failed, notrun, files, archive, wpc, written>>

\* The checks after popen_as_child.  A non-zero status fails the assert
\* (ExpectErrorTest passes there when status, stdout and stderr are the
\* expected ones); with status 0 the archive is read, which fails when
\* there is none, appended to cleanup_list, and compared with wistar().
\* ExpectErrorTest fails on every status-0 path.  TestCompile raises
\* CalledProcessError on a non-zero status.
Check(c) ==
  LET ok == /\ pc' = [pc EXCEPT ![c] = "exit"]
            /\ returned' = [returned EXCEPT ![c] = TRUE]
            /\ UNCHANGED alarm
      ko == Raise(c) /\ UNCHANGED returned
  IN
  /\ pc[c] = "check"
  /\ \/ /\ ko \/ (kind[c] \in {"compile", "error"} /\ ok)
        /\ UNCHANGED <<cleanup_list, readfrom>>
     \/ /\ kind[c] # "compile"
        /\ archive = "absent"
        /\ ko
        /\ UNCHANGED <<cleanup_list, readfrom>>
     \/ /\ kind[c] # "compile"
        /\ archive # "absent"
        /\ readfrom' = [readfrom EXCEPT ![c] = archive]
        /\ cleanup_list' = cleanup_list \cup {Archive}
        /\ IF Matches(c) /\ kind[c] # "error" THEN ok ELSE ko
  /\ UNCHANGED <<child, proc, result, logged, i, stage, points, succeeded,
                 failed, notrun, files, archive, wpc, written>>

\* The program under test exits; ./wis-tar may have written test.tar
\* (TestCompile's gcc writes the binary, not the archive).
ProgramExit(c) ==
  /\ ChildExit(c)
  /\ \/ UNCHANGED archive
     \/ kind[c] # "compile" /\ archive' = c
  /\ UNCHANGED <<i, stage, points, succeeded, failed, notrun, files,
                 cleanup_list, wpc, written>>

(***************************************************************************)
(* run_tests                                                               *)
(***************************************************************************)

\* point = test.run()
CallRun ==
  /\ stage = "loop" /\ i <= N
  /\ Run(Tests[i])
  /\ stage' = "call"
  /\ wpc' = "rm" /\ written' = 0
  /\ UNCHANGED <<i, points, succeeded, failed, notrun, files, archive,
                 cleanup_list, broken, readfrom>>

\* A step inside the running test; `broken` records a body that left its
\* setup by an exception (IOError or the deadline).
Step ==
  /\ stage = "call"
  /\ LET c == Tests[i] IN
       /\ \/ /\ \/ CompileSetup(c) \/ RemoveArchive(c) \/ WriteFixture(c)
                \/ Register(c)
             /\ UNCHANGED readfrom
          \/ Check(c)
          \/ (Spawn(c) \/ HarnessStep(c)) /\ UNCHANGED <<wtVars, readfrom>>
       /\ broken' = IF pc[c] = "setup" /\ pc'[c] = "except"
                      THEN broken \cup {c} ELSE broken

ChildStep == \E c \in Cases : ProgramExit(c) /\ UNCHANGED <<broken, readfrom>>

\* Fault: `succeeded += 1` dedented out of the else branch.
TallySucceededAlways ==
  LET point == RunValue(Tests[i]) IN
  /\ stage = "call"
  /\ pc[Tests[i]] = "done"
  /\ succeeded' = succeeded + 1
  /\ failed' = IF point = 0 THEN failed + 1 ELSE failed
  /\ IF point = 0 /\ short_circuit
       THEN stage' = "after" /\ UNCHANGED points
       ELSE stage' = "cleanup" /\ points' = points + point
  /\ UNCHANGED <<tfVars, i, notrun, files, archive, cleanup_list, wpc, written, broken, readfrom>>

\* The tally; on a 0 with short_circuit the loop breaks before the
\* clean-up of this case.
Tally ==
  LET point == RunValue(Tests[i]) IN
  /\ stage = "call"
  /\ pc[Tests[i]] = "done"
  /\ IF point = 0
       THEN failed' = failed + 1 /\ UNCHANGED succeeded
       ELSE succeeded' = succeeded + 1 /\ UNCHANGED failed
  /\ IF point = 0 /\ short_circuit
       THEN stage' = "after" /\ UNCHANGED points
       ELSE stage' = "cleanup" /\ points' = points + point
  /\ UNCHANGED <<tfVars, i, notrun, files, archive, cleanup_list, wpc, written, broken, readfrom>>

\* Fault: the clean-up prints the names but does not remove them, as in
\* test_p1a1_normal3.py.
CleanupNoRemove ==
  /\ stage = "cleanup"
  /\ stage' = "loop" /\ i' = i + 1
  /\ UNCHANGED <<tfVars, points, succeeded, failed, notrun, files, archive,
                 cleanup_list, wpc, written, broken, readfrom>>

\* if cleanup: for f in cleanup_list: remove f if it is a file.  The list
\* itself is left as it is.
Cleanup ==
  /\ stage = "cleanup"
  /\ files' = files \ cleanup_list
  /\ archive' = IF Archive \in cleanup_list THEN "absent" ELSE archive
  /\ stage' = "loop" /\ i' = i + 1
  /\ UNCHANGED <<tfVars, points, succeeded, failed, notrun, cleanup_list,
                 wpc, written, broken, readfrom>>

EndLoop ==
  /\ stage = "loop" /\ i > N
  /\ stage' = "after"
  /\ UNCHANGED <<tfVars, i, points, succeeded, failed, notrun, files,
                 archive, cleanup_list, wpc, written, broken, readfrom>>

\* Fault: notrun computed one too low.
FinishOffByOne ==
  /\ stage = "after"
  /\ stage' = "finished"
  /\ notrun' = N - succeeded - failed - 1
  /\ UNCHANGED <<tfVars, i, points, succeeded, failed, files, archive,
                 cleanup_list, wpc, written, broken, readfrom>>

\* notrun = len(tests) - succeeded - failed, and the summary.
Finish ==
  /\ stage = "after"
  /\ stage' = "finished"
  /\ notrun' = N - succeeded - failed
  /\ UNCHANGED <<tfVars, i, points, succeeded, failed, files, archive,
                 cleanup_list, wpc, written, broken, readfrom>>

Finished ==
  /\ stage = "finished"
  /\ UNCHANGED vars

Next == CallRun \/ Step \/ ChildStep \/ Tally \/ Cleanup \/ EndLoop \/ Finish \/ Finished

Spec == Init /\ [][Next]_vars

\* As Suite!FairSpec: the interpreter's steps, the timer firing among them,
\* are weakly fair; the programs under test are not.
FairSpec ==
  /\ Spec
  /\ WF_vars(CallRun) /\ WF_vars(Step) /\ WF_vars(Tally) /\ WF_vars(Cleanup)
  /\ WF_vars(EndLoop) /\ WF_vars(Finish)

(***************************************************************************)
(* Properties                                                              *)
(***************************************************************************)

\* All fixture files of the tests that ran.
Generated == UNION {{fixtures[Tests[k]][j] : j \in 1..Len(fixtures[Tests[k]])} : k \in 1..N}

\* Spec 4.4: with cleanup, the generated input files are removed after each
\* case, so none is left when the suite returns.
FixturesRemovedAtEnd ==
  stage = "finished" => files \cap Generated = {}

\* The files left behind when run_tests returns are fixtures of tests whose
\* body raised (IOError or the deadline) before `cleanup_list = filenames`:
\* the list the clean-up then walks is the previous test's.  Every test
\* that got past that line has its files removed.
LeakOnlyFromInterruptedSetup ==
  stage = "finished" =>
    \A f \in files : \E c \in broken : \E j \in 1..Len(fixtures[c]) : fixtures[c][j] = f

\* Spec 4.4: the clean-up removes the generated output files, so no
\* test.tar written by ./wis-tar is left when run_tests returns.  The
\* archive enters cleanup_list only after the program exited 0 and the
\* archive was read back (line 71).
ArchiveRemovedAtEnd ==
  stage = "finished" => archive \notin Cases

\* As StaleOutputOnlyFromAbandoned of Suite: WisTarTest.test removes a stale
\* test.tar (lines 48-49) before its program runs, so an archive its check
\* reads (line 69) and that another case's ./wis-tar wrote comes from a
\* program run() left running: killed in vain (TestFramework.py:83) or
\* never recorded in cls.child.
StaleArchiveOnlyFromAbandoned ==
  \A c \in Cases :
    readfrom[c] \in Cases \ {c} =>
      /\ pc[readfrom[c]] = "done"
      /\ proc[readfrom[c]] \in {"running", "exited"}

(***************************************************************************)
(* Refinement: run_tests of test_p1a2.py implements AbstractSuite as well. *)
(* To the abstract suite a case is still waiting to be run until its run() *)
(* has returned, and the per-case clean-up, which test_p1a1.py does not    *)
(* have, already belongs to the next iteration of the loop.                *)
(***************************************************************************)
AbsStage ==
  CASE stage = "call" /\ pc[Tests[i]] # "done" -> "loop"
    [] stage = "cleanup"                      -> "loop"
    [] OTHER                                  -> stage

AbsI == IF stage = "cleanup" THEN i + 1 ELSE i

Abstract == INSTANCE AbstractSuite
              WITH stage <- AbsStage, i <- AbsI, outcome <- result

\* Whatever the timer, the fixture writes and ./wis-tar do, each
\* test.run() of p1a2 decides one verdict, once, for the running case, the
\* tally counts it as AbstractSuite does, and run_tests reaches its summary
\* although a clean-up runs between every two cases.
WisTarSuiteImplementsAbstract == Abstract!FairSpec

=============================================================================
