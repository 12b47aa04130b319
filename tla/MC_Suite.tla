------------------------------- MODULE MC_Suite -------------------------------
(* Three test classes, each with the default timeout of 20 seconds. *)
EXTENDS Suite

MC_Cases == {"TestCompile", "TestInvalidArg1", "TestExample"}
MC_Tests == <<"TestCompile", "TestInvalidArg1", "TestExample">>
MC_timeout == [c \in MC_Cases |-> 20]
MC_point_value == [c \in MC_Cases |-> IF c = "TestInvalidArg1" THEN 5 ELSE 10]
MC_kind == [c \in MC_Cases |-> CASE c = "TestCompile" -> "compile"
                                  [] c = "TestInvalidArg1" -> "error"
                                  [] OTHER -> "reverse"]
=============================================================================
