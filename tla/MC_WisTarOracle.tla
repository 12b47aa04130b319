--------------------------- MODULE MC_WisTarOracle ---------------------------
EXTENDS WisTarOracle

\* Bytes are 0..2: NUL and two other values.  A name field of 3 holds
\* names of up to 2 bytes (the table's names are at most 255 for 256).  A
\* size field of two base-3 digits shows both byte orders apart once a
\* content has 3 bytes.  Two files show the records following each other.
MC_NameChars == {1, 2}
MC_ContentBytes == {1, 2}

=============================================================================
