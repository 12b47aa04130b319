----------------------------- MODULE TestTables -----------------------------
(***************************************************************************)
(* The test tables of src/p1/test_p1a1.py and test_p1a1_normal3.py: the   *)
(* classes main() hands to run_tests, in order, with the attributes the    *)
(* harness reads from them.                                                *)
(* Unset attributes come from the defaults of class Test in                *)
(* TestFramework.py.                                                       *)
(***************************************************************************)
EXTENDS Naturals, Sequences

\* Test.point_value and Test.timeout.
DefaultPointValue == 10
DefaultTimeout == 20

\* The list in main().
P1a1Tests ==
  <<"TestCompile", "TestInvalidFile", "TestInvalidArg1", "TestInvalidArg2",
    "TestInvalidArg3", "TestExample", "TestEmptyFile", "TestNormal1",
    "TestNormal2", "TestNormal3", "TestNormal4", "TestNormal5",
    "TestStress1", "TestStress2">>

P1a1Cases == {P1a1Tests[k] : k \in 1..Len(P1a1Tests)}

\* The classes that set point_value = 5; the others keep 10.
P1a1point_value ==
  [c \in P1a1Cases |->
     IF c \in {"TestInvalidArg1", "TestInvalidArg2", "TestInvalidArg3",
               "TestNormal3", "TestNormal4", "TestNormal5",
               "TestStress1", "TestStress2"}
       THEN 5 ELSE DefaultPointValue]

\* TestStress1 sets timeout = 30 and TestStress2 timeout = 60.
P1a1timeout ==
  [c \in P1a1Cases |->
     CASE c = "TestStress1" -> 30
       [] c = "TestStress2" -> 60
       [] OTHER -> DefaultTimeout]

\* The base class of each: TestCompile, an ExpectErrorTest or a ReverseTest.
P1a1kind ==
  [c \in P1a1Cases |->
     CASE c = "TestCompile" -> "compile"
       [] c \in {"TestInvalidFile", "TestInvalidArg1", "TestInvalidArg2",
                 "TestInvalidArg3"} -> "error"
       [] OTHER -> "reverse"]

\* test_p1a1_normal3.py: main() runs the compilation and TestNormal3,
\* which sets point_value = 5 and keeps the default timeout.
Normal3Tests == <<"TestCompile", "TestNormal3">>

Normal3Cases == {Normal3Tests[k] : k \in 1..Len(Normal3Tests)}

Normal3point_value ==
  [c \in Normal3Cases |-> IF c = "TestNormal3" THEN 5 ELSE DefaultPointValue]

Normal3kind ==
  [c \in Normal3Cases |-> IF c = "TestCompile" THEN "compile" ELSE "reverse"]

=============================================================================
