---------------------------- MODULE MC_WisTarSuite ----------------------------
(* The first four classes of test_p1a2.py: the compile test, an argument  *)
(* error, the example (a.txt, b.txt) and the pre-existing archive test,   *)
(* which has the same inputs as the example.                              *)
EXTENDS WisTarSuite

MC_Cases == {"TestCompile", "TestInvalidArg", "TestExample", "TestArchiveExist"}
MC_Tests == <<"TestCompile", "TestInvalidArg", "TestExample", "TestArchiveExist">>
MC_FileNames == {"a.txt", "b.txt"}
MC_timeout == [c \in MC_Cases |-> 20]
MC_point_value == [c \in MC_Cases |-> IF c \in {"TestInvalidArg", "TestArchiveExist"} THEN 5 ELSE 10]
MC_kind == [c \in MC_Cases |-> CASE c = "TestCompile" -> "compile"
                                  [] c = "TestInvalidArg" -> "error"
                                  [] c = "TestExample" -> "normal"
                                  [] OTHER -> "archive_exist"]
MC_fixtures == [c \in MC_Cases |-> IF c \in {"TestExample", "TestArchiveExist"}
                                     THEN <<"a.txt", "b.txt">> ELSE <<>>]
MC_expected == [c \in MC_Cases |-> IF c \in {"TestExample", "TestArchiveExist"}
                                     THEN "example" ELSE c]
=============================================================================
