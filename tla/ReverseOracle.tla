---------------------------- MODULE ReverseOracle ----------------------------
(***************************************************************************)
(* reverse(lines) of src/p1/test_p1a1.py (the same function is copied in   *)
(* test_p1a1_normal3.py): ReverseTest.test compares the program's output  *)
(* file with ''.join(reverse(input_lines)).                                *)
(*                                                                         *)
(* A line is a sequence of characters; the newline is the constant NL.    *)
(* The inputs are what generate_lines() produces: lines that are never     *)
(* empty and end in exactly one newline ('%d\n' padded on the left, or     *)
(* '\n' alone).  The loop of the function is a state machine: one step per *)
(* iteration, then output.reverse().                                       *)
(***************************************************************************)
EXTENDS Naturals, SequencesExt

CONSTANTS
  Letters,    \* the characters other than the newline
  NL,         \* '\n'
  MaxLines,   \* the longest input_lines considered
  MaxLen      \* the most characters before the newline of a line

ASSUME NL \notin Letters

\* A line as generate_lines() builds it.
Lines == {s \o <<NL>> : s \in BoundedSeq(Letters, MaxLen)}

VARIABLES
  lines,      \* input_lines
  k,          \* the index of the `for line in lines` loop
  output,     \* the list `output`
  rpc         \* "loop" inside the for loop, "done" after output.reverse()

vars == <<lines, k, output, rpc>>

ReverseTypeOK ==
  /\ lines \in Seq(Lines) /\ Len(lines) <= MaxLines
  /\ k \in 1..Len(lines) + 1
  /\ output \in Seq(Lines) /\ Len(output) <= MaxLines
  /\ rpc \in {"loop", "done"}

\* output = [] for any input_lines generate_lines() can return.
Init ==
  /\ lines \in BoundedSeq(Lines, MaxLines)
  /\ k = 1
  /\ output = <<>>
  /\ rpc = "loop"

\* Fault: the newline is reversed together with the line (line[::-1]).
AppendLineWhole ==
  LET line == lines[k] IN
  /\ rpc = "loop" /\ k <= Len(lines)
  /\ Last(line) = NL
  /\ output' = Append(output, Reverse(line))
  /\ k' = k + 1
  /\ UNCHANGED <<lines, rpc>>

\* assert line[-1] == '\n'; output.append(line[:-1][::-1] + '\n').  The
\* assertion holds for every line generate_lines() returns, so it is a
\* guard here rather than an error path.
AppendLine ==
  LET line == lines[k] IN
  /\ rpc = "loop" /\ k <= Len(lines)
  /\ Last(line) = NL
  /\ output' = Append(output, Reverse(Front(line)) \o <<NL>>)
  /\ k' = k + 1
  /\ UNCHANGED <<lines, rpc>>

\* The loop is over: output.reverse(); return output.
ReverseOutput ==
  /\ rpc = "loop" /\ k > Len(lines)
  /\ output' = Reverse(output)
  /\ rpc' = "done"
  /\ UNCHANGED <<lines, k>>

Done ==
  /\ rpc = "done"
  /\ UNCHANGED vars

Next == AppendLine \/ ReverseOutput \/ Done

Spec == Init /\ [][Next]_vars

(***************************************************************************)
(* Reference and properties                                                *)
(***************************************************************************)

\* The reference: the whole file read backwards, with the newline that
\* ended the last line moved to the end.  A file of lines that all end in
\* a newline, reversed line by line and in line order, is exactly that.
RECURSIVE Backwards(_)
Backwards(text) ==
  IF text = <<>> THEN <<>> ELSE Backwards(Tail(text)) \o <<Head(text)>>

Reference(text) ==
  IF text = <<>> THEN <<>> ELSE Backwards(Front(text)) \o <<NL>>

\* ''.join(reverse(input_lines)), the text ReverseTest.test expects in the
\* output file, is the input file reversed: the last line first, each line
\* with its characters reversed and still ending in a newline.  It takes
\* the whole loop and the final output.reverse() to establish.
OracleIsReversal ==
  rpc = "done" => FlattenSeq(output) = Reference(FlattenSeq(lines))

=============================================================================
