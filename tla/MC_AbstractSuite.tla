-------------------------- MODULE MC_AbstractSuite --------------------------
EXTENDS AbstractSuite, TestTables

=============================================================================
