---------------------------- MODULE MCEnumerableMap ----------------------------
EXTENDS EnumerableMap

\* Every contract of the mocks.
AllTypes == SetTypes \cup MapTypes
=============================================================================
