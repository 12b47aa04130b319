-------------------------------- MODULE Main --------------------------------
(***************************************************************************)
(* main() of src/p1/test_p1a1.py (test_p1a2.py and test_p1a1_normal3.py    *)
(* have the same function): the command-line words are scanned for the    *)
(* -a (test all, no short-circuit) and -c (clean up) flags, and run_tests  *)
(* is called with short_circuit = not testall and cleanup = cleanup.       *)
(***************************************************************************)
EXTENDS Naturals, SequencesExt

CONSTANTS
  Words,      \* the command-line words considered
  MaxArgs     \* the longest sys.argv[1:] considered

VARIABLES
  argv,           \* sys.argv[1:]
  k,              \* index of the `for arg in sys.argv[1:]` loop
  testall,
  cleanup,
  called,         \* run_tests has been called
  short_circuit,  \* the arguments run_tests was called with
  cleanup_arg

vars == <<argv, k, testall, cleanup, called, short_circuit, cleanup_arg>>

\* str.startswith
StartsWith(s, p) == Len(s) >= Len(p) /\ SubSeq(s, 1, Len(p)) = p

\* testall = True; cleanup = True.  short_circuit and cleanup_arg are
\* given a value only by the call.
Init ==
  /\ argv \in BoundedSeq(Words, MaxArgs)
  /\ k = 1
  /\ testall = TRUE
  /\ cleanup = TRUE
  /\ called = FALSE
  /\ short_circuit = FALSE /\ cleanup_arg = FALSE

\* if arg.startswith('-a'): testall = True
\* elif arg.startswith('-c'): cleanup = True
ParseArg ==
  LET arg == argv[k] IN
  /\ k <= Len(argv)
  /\ IF StartsWith(arg, "-a") THEN testall' = TRUE /\ UNCHANGED cleanup
     ELSE IF StartsWith(arg, "-c") THEN cleanup' = TRUE /\ UNCHANGED testall
     ELSE UNCHANGED <<testall, cleanup>>
  /\ k' = k + 1
  /\ UNCHANGED <<argv, called, short_circuit, cleanup_arg>>

\* run_tests([...], short_circuit=not testall, cleanup=cleanup)
CallRunTests ==
  /\ k > Len(argv) /\ ~called
  /\ called' = TRUE
  /\ short_circuit' = ~testall
  /\ cleanup_arg' = cleanup
  /\ UNCHANGED <<argv, k, testall, cleanup>>

Done ==
  /\ called
  /\ UNCHANGED vars

Next == ParseArg \/ CallRunTests \/ Done

Spec == Init /\ [][Next]_vars

=============================================================================
