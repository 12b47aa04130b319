--------------------------- MODULE MC_ReverseOracle ---------------------------
EXTENDS ReverseOracle

\* Two letters tell a reversed line from an unreversed one; three lines of
\* up to two letters tell a reversed line order from an unreversed one and
\* include the empty line "\n" of TestNormal5.
MC_Letters == {"a", "b"}
MC_NL == "nl"
MC_MaxLines == 3
MC_MaxLen == 2

=============================================================================
