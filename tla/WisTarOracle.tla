---------------------------- MODULE WisTarOracle ----------------------------
(***************************************************************************)
(* wistar(filenames) of src/p1/test_p1a2.py: the archive WisTarTest.test   *)
(* expects ./wis-tar to write.  For each file, in order: the name padded   *)
(* with NUL bytes to 256 bytes, the size in 8 bytes of the host's byte     *)
(* order, the content, and 8 zero bytes.                                   *)
(*                                                                         *)
(* The widths are constants, scaled down for TLC: names are as much        *)
(* shorter than the name field as the table's longest (255 characters in  *)
(* TestLongfilename) is, and the size field has two digits of a small      *)
(* base so that sizes of more than one digit occur.                        *)
(***************************************************************************)
EXTENDS Naturals, SequencesExt

CONSTANTS
  NameChars,      \* the bytes a file name is made of (never NUL)
  ContentBytes,   \* the bytes of file contents
  NameWidth,      \* 256
  SizeWidth,      \* 8
  TrailerWidth,   \* len(bytes(8))
  Base,           \* 256, the values of one byte
  MaxFiles, MaxContent

NUL == 0

ASSUME NUL \notin NameChars /\ NameChars \cup ContentBytes \subseteq 0..Base-1

\* The files generate_files() returns: distinct names shorter than the
\* name field, and contents of any bytes.
FileRecords ==
  [name : {s \in BoundedSeq(NameChars, NameWidth - 1) : s # <<>>},
   content : BoundedSeq(ContentBytes, MaxContent)]

VARIABLES
  files,          \* the files, in the order of `filenames`
  byteorder,      \* sys.byteorder of the host
  k,              \* index of the `for file in filenames` loop
  output,         \* b''.join(output): the bytes appended so far
  opc             \* "loop", then "done" when wistar returns

vars == <<files, byteorder, k, output, opc>>

WisTarOracleTypeOK ==
  /\ files \in Seq(FileRecords) /\ Len(files) <= MaxFiles
  /\ byteorder \in {"little", "big"}
  /\ k \in 1..Len(files) + 1
  /\ output \in Seq(0..Base-1)
  /\ opc \in {"loop", "done"}

Init ==
  /\ files \in {s \in BoundedSeq(FileRecords, MaxFiles) :
                  \A j, l \in 1..Len(s) : j # l => s[j].name # s[l].name}
  /\ byteorder \in {"little", "big"}
  /\ k = 1
  /\ output = <<>>
  /\ opc = "loop"

\* bytes.ljust(w, b'\0'): pads on the right, never truncates.
Ljust(s, w) == IF Len(s) >= w THEN s ELSE s \o [j \in 1..w - Len(s) |-> NUL]

\* Fault: the digits of int.to_bytes are not reduced modulo a byte.
ToBytesNoMod(n, w) ==
  LET little == [j \in 1..w |-> n \div (Base ^ (j - 1))]
  IN IF byteorder = "little" THEN little ELSE Reverse(little)

\* int.to_bytes(w, sys.byteorder)
ToBytes(n, w) ==
  LET little == [j \in 1..w |-> (n \div (Base ^ (j - 1))) % Base]
  IN IF byteorder = "little" THEN little ELSE Reverse(little)

\* Fault: the 8 zero bytes after the content are left out.
AppendFileNoTrailer ==
  LET f == files[k] IN
  /\ opc = "loop" /\ k <= Len(files)
  /\ output' = output \o Ljust(f.name, NameWidth) \o ToBytes(Len(f.content), SizeWidth)
                      \o f.content
  /\ k' = k + 1
  /\ UNCHANGED <<files, byteorder, opc>>

\* One iteration: name, os.stat(file).st_size, f.read(), bytes(8).
AppendFile ==
  LET f == files[k] IN
  /\ opc = "loop" /\ k <= Len(files)
  /\ output' = output \o Ljust(f.name, NameWidth) \o ToBytes(Len(f.content), SizeWidth)
                      \o f.content \o [j \in 1..TrailerWidth |-> 0]
  /\ k' = k + 1
  /\ UNCHANGED <<files, byteorder, opc>>

\* return b''.join(output)
Return ==
  /\ opc = "loop" /\ k > Len(files)
  /\ opc' = "done"
  /\ UNCHANGED <<files, byteorder, k, output>>

Done ==
  /\ opc = "done"
  /\ UNCHANGED vars

Next == AppendFile \/ Return \/ Done

Spec == Init /\ [][Next]_vars

(***************************************************************************)
(* Reference: a reader of the archive format, and the property.            *)
(***************************************************************************)

\* s[m..n], empty where s is too short.
Slice(s, m, n) == [j \in 1..(IF n > Len(s) THEN Len(s) ELSE n) - m + 1 |-> s[m + j - 1]]

\* The name field up to its first NUL.
RECURSIVE UntilNul(_)
UntilNul(s) == IF s = <<>> \/ Head(s) = NUL THEN <<>> ELSE <<Head(s)>> \o UntilNul(Tail(s))

\* The size field read in the host's byte order.
RECURSIVE FromLittle(_)
FromLittle(b) == IF b = <<>> THEN 0 ELSE Head(b) + Base * FromLittle(Tail(b))

FromBytes(b) == FromLittle(IF byteorder = "little" THEN b ELSE Reverse(b))

\* Read records (name field, size, that many content bytes, the trailer)
\* until the archive is used up.
RECURSIVE Unpack(_)
Unpack(a) ==
  IF a = <<>> THEN <<>>
  ELSE LET size  == FromBytes(Slice(a, NameWidth + 1, NameWidth + SizeWidth))
           start == NameWidth + SizeWidth + 1
           next  == start + size + TrailerWidth
       IN  <<[name |-> UntilNul(Slice(a, 1, NameWidth)),
              content |-> Slice(a, start, start + size - 1)]>>
           \o Unpack(Slice(a, next, Len(a)))

\* The expected archive can be read back: a reader of the fixed-width
\* record format recovers every file, name and content, in order.  This
\* needs the padding, the size field, its byte order and the trailer of
\* every record to agree.
WisTarUnpacks ==
  opc = "done" => Unpack(output) = files

=============================================================================
