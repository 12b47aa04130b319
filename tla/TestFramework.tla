---------------------------- MODULE TestFramework ----------------------------
(***************************************************************************)
(* Test.run, Test.popen_as_child and the Timeout context manager of        *)
(* src/p1/TestFramework.py.                                                *)
(*                                                                         *)
(* The interpreter runs one test class at a time.  Two things happen       *)
(* beside it: the child process it spawned runs and exits on its own       *)
(* schedule, and the single process-wide SIGALRM timer may expire; its     *)
(* Python handler then raises TimeoutException at whatever bytecode        *)
(* boundary the interpreter has reached.  Time is not modelled: the alarm  *)
(* may expire at any point while it is armed, which is what a slow enough  *)
(* body makes happen.                                                      *)
(*                                                                         *)
(* The body cls.test() has the shape shared by ReverseTest.test,          *)
(* WisTarTest.test and TestCompile.test: fixture setup (pc "setup"), one   *)
(* popen_as_child call, and checks on its result (pc "check").  The        *)
(* module of each test file supplies the setup and check steps.            *)
(***************************************************************************)
EXTENDS Naturals, FiniteSets

CONSTANTS
  Cases,        \* the test classes
  timeout,      \* timeout[c]: the class attribute timeout of c, in seconds
  KillTimeout   \* the seconds of Timeout(5) around kill/wait, line 79

ASSUME timeout \in [Cases -> Nat]
ASSUME KillTimeout \in Nat

VARIABLES
  pc,       \* pc[c]: where the interpreter is in c.run()
  alarm,    \* the process-wide SIGALRM timer: "off" or "armed"
  child,    \* child[c]: the class attribute c.child, "None" or "p"
  proc,     \* proc[c]: the OS process c spawned
  result,   \* result[c]: what c.run() returned, point_value ("pass") or 0
  logged,   \* logged[c]: 'Failed to kill child' was printed for c
  returned  \* returned[c]: history, c.test() returned without raising

tfVars == <<pc, alarm, child, proc, result, logged, returned>>

PcValues == {"idle", "setup", "spawn", "record", "communicate", "clear",
             "check", "exit", "except", "kill_enter", "kill", "wait",
             "kill_exit", "kill_failed", "done"}

ProcValues == {"none", "running", "exited", "reaped"}

\* Locations inside `with Timeout(cls.timeout)`, where the handler of the
\* case deadline raises.
BodyRegion == {"setup", "spawn", "record", "communicate", "clear", "check", "exit"}

\* Locations inside `with Timeout(5)` of the except clause.
KillRegion == {"kill", "wait", "kill_exit"}

\* signal.alarm(s): a zero argument cancels instead of arming.
Arm(s) == IF s > 0 THEN "armed" ELSE "off"

\* Timeout(seconds=0): the default of the constructor.
DefaultSeconds == 0

\* Timeout(s).__enter__: install handle_timeout for SIGALRM, then
\* signal.alarm(s).
TimeoutEnter(s) == alarm' = Arm(s)

TFTypeOK ==
  /\ pc \in [Cases -> PcValues]
  /\ alarm \in {"off", "armed"}
  /\ child \in [Cases -> {"None", "p"}]
  /\ proc \in [Cases -> ProcValues]
  /\ result \in [Cases -> {"none", "pass", "fail"}]
  /\ logged \in [Cases -> BOOLEAN]
  /\ returned \in [Cases -> BOOLEAN]

TFInit ==
  /\ pc = [c \in Cases |-> "idle"]
  /\ alarm = "off"
  /\ child = [c \in Cases |-> "None"]
  /\ proc = [c \in Cases |-> "none"]
  /\ result = [c \in Cases |-> "none"]
  /\ logged = [c \in Cases |-> FALSE]
  /\ returned = [c \in Cases |-> FALSE]

Goto(c, from, to) ==
  /\ pc[c] = from
  /\ pc' = [pc EXCEPT ![c] = to]

\* An exception leaves the body: Timeout.__exit__ runs signal.alarm(0) and
\* control reaches `except Exception` of run().
Raise(c) ==
  /\ pc' = [pc EXCEPT ![c] = "except"]
  /\ alarm' = "off"

\* Fault: `with Timeout():` without cls.timeout, which arms nothing.
RunDefaultTimeout(c) ==
  /\ Goto(c, "idle", "setup")
  /\ TimeoutEnter(DefaultSeconds)
  /\ UNCHANGED <<child, proc, result, logged, returned>>

(***************************************************************************)
(* run(): print the header, enter `with Timeout(cls.timeout)`, which       *)
(* installs the handler and arms the alarm, and call cls.test().           *)
(***************************************************************************)
Run(c) ==
  /\ Goto(c, "idle", "setup")
  /\ TimeoutEnter(timeout[c])
  /\ UNCHANGED <<child, proc, result, logged, returned>>

\* p = Popen(cmd, stdout=PIPE, stderr=PIPE)
Spawn(c) ==
  /\ Goto(c, "spawn", "record")
  /\ proc' = [proc EXCEPT ![c] = "running"]
  /\ UNCHANGED <<alarm, child, result, logged, returned>>

\* cls.child = p
Record(c) ==
  /\ Goto(c, "record", "communicate")
  /\ child' = [child EXCEPT ![c] = "p"]
  /\ UNCHANGED <<alarm, proc, result, logged, returned>>

\* stdout, stderr = p.communicate(): blocks until the child has exited,
\* then reaps it.
Communicate(c) ==
  /\ proc[c] = "exited"
  /\ Goto(c, "communicate", "clear")
  /\ proc' = [proc EXCEPT ![c] = "reaped"]
  /\ UNCHANGED <<alarm, child, result, logged, returned>>

\* cls.child = None
Clear(c) ==
  /\ Goto(c, "clear", "check")
  /\ child' = [child EXCEPT ![c] = "None"]
  /\ UNCHANGED <<alarm, proc, result, logged, returned>>

\* Fault: Timeout.__exit__ forgets signal.alarm(0).
ExitDeadlineNoCancel(c) ==
  /\ Goto(c, "exit", "done")
  /\ result' = [result EXCEPT ![c] = "pass"]
  /\ UNCHANGED <<alarm, child, proc, logged, returned>>

\* cls.test() has returned: Timeout.__exit__ cancels the alarm, run()
\* prints success and returns cls.point_value.
ExitDeadline(c) ==
  /\ Goto(c, "exit", "done")
  /\ alarm' = "off"
  /\ result' = [result EXCEPT ![c] = "pass"]
  /\ UNCHANGED <<child, proc, logged, returned>>

\* The case deadline expires: handle_timeout raises TimeoutException where
\* the interpreter is, which leaves the with block.
FireTimeout(c) ==
  /\ alarm = "armed"
  /\ pc[c] \in BodyRegion
  /\ Raise(c)
  /\ UNCHANGED <<child, proc, result, logged, returned>>

\* Fault: the except clause returns 0 without looking at cls.child.
ExceptNoKill(c) ==
  /\ Goto(c, "except", "done")
  /\ result' = [result EXCEPT ![c] = "fail"]
  /\ UNCHANGED <<alarm, child, proc, logged, returned>>

\* except Exception: print the reason; if cls.child is set, reclaim it,
\* otherwise return 0.
Except(c) ==
  /\ pc[c] = "except"
  /\ \/ /\ child[c] = "p"
        /\ pc' = [pc EXCEPT ![c] = "kill_enter"]
        /\ UNCHANGED result
     \/ /\ child[c] = "None"
        /\ pc' = [pc EXCEPT ![c] = "done"]
        /\ result' = [result EXCEPT ![c] = "fail"]
  /\ UNCHANGED <<alarm, child, proc, logged, returned>>

\* Fault: kill and wait are called without the Timeout(5) around them.
KillEnterNoDeadline(c) ==
  /\ Goto(c, "kill_enter", "kill")
  /\ UNCHANGED <<alarm, child, proc, result, logged, returned>>

\* with Timeout(5): arm the reclamation deadline.
KillEnter(c) ==
  /\ Goto(c, "kill_enter", "kill")
  /\ TimeoutEnter(KillTimeout)
  /\ UNCHANGED <<child, proc, result, logged, returned>>

\* cls.child.kill(): sends SIGKILL; the child's death is its own step
\* (ChildExit), and a child in uninterruptible sleep may not die at all.
Kill(c) ==
  /\ Goto(c, "kill", "wait")
  /\ UNCHANGED <<alarm, child, proc, result, logged, returned>>

\* cls.child.wait(): blocks until the child has exited and reaps it.
Wait(c) ==
  /\ proc[c] \in {"exited", "reaped"}
  /\ Goto(c, "wait", "kill_exit")
  /\ proc' = [proc EXCEPT ![c] = "reaped"]
  /\ UNCHANGED <<alarm, child, result, logged, returned>>

\* Timeout(5).__exit__ cancels the alarm; run() returns 0.
KillExit(c) ==
  /\ Goto(c, "kill_exit", "done")
  /\ alarm' = "off"
  /\ result' = [result EXCEPT ![c] = "fail"]
  /\ UNCHANGED <<child, proc, logged, returned>>

\* The reclamation deadline expires inside kill/wait.
FireKillTimeout(c) ==
  /\ alarm = "armed"
  /\ pc[c] \in KillRegion
  /\ pc' = [pc EXCEPT ![c] = "kill_failed"]
  /\ alarm' = "off"
  /\ UNCHANGED <<child, proc, result, logged, returned>>

\* print('Failed to kill child %d' % cls.child.pid); return 0.
KillFailed(c) ==
  /\ Goto(c, "kill_failed", "done")
  /\ logged' = [logged EXCEPT ![c] = TRUE]
  /\ result' = [result EXCEPT ![c] = "fail"]
  /\ UNCHANGED <<alarm, child, proc, returned>>

\* The child process terminates: on its own, or killed by SIGKILL.
ChildExit(c) ==
  /\ proc[c] = "running"
  /\ proc' = [proc EXCEPT ![c] = "exited"]
  /\ UNCHANGED <<pc, alarm, child, result, logged, returned>>

\* Every step of c.run() after Run(c) that is not part of the body's own
\* fixture setup ("setup"), Popen of its command (Spawn, which the body's
\* module guards with what the command needs) or checks ("check"), and the
\* alarm expiring.
HarnessStep(c) ==
  \/ Record(c) \/ Communicate(c) \/ Clear(c)
  \/ ExitDeadline(c) \/ FireTimeout(c) \/ Except(c)
  \/ KillEnter(c) \/ Kill(c) \/ Wait(c) \/ KillExit(c)
  \/ FireKillTimeout(c) \/ KillFailed(c)

(***************************************************************************)
(* Properties                                                              *)
(***************************************************************************)

\* The SIGALRM timer is armed only while some case is inside one of the two
\* `with Timeout(...)` blocks: no exit path of Test.run (normal return,
\* exception, case timeout, kill timeout) leaves an alarm that would raise
\* TimeoutException into a later case or into run_tests.
NoStrayAlarm ==
  alarm = "armed" => \E c \in Cases : pc[c] \in BodyRegion \cup KillRegion

\* When Test.run returns while cls.child still holds the child, that child
\* has been killed and reaped (no zombie), or the failure to do so within
\* Timeout(5) was printed.
RecordedChildReclaimed ==
  \A c \in Cases :
    pc[c] = "done" /\ child[c] = "p" => proc[c] = "reaped" \/ logged[c]

\* No child outlives its case unnoticed: when Test.run returns, the process
\* popen_as_child spawned is reaped, or 'Failed to kill child' was printed
\* (the spec allows a leaked process only if it is logged).
NoSilentLeak ==
  \A c \in Cases :
    pc[c] = "done" /\ proc[c] \in {"running", "exited"} => logged[c]

\* A case whose cls.test() returned without raising scores its point value
\* (spec 4.1: the deadline returns the body's result when the body
\* returned in time).
BodyResultKept ==
  \A c \in Cases : pc[c] = "done" /\ returned[c] => result[c] = "pass"

=============================================================================
