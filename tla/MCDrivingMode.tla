---------------------------- MODULE MCDrivingMode ----------------------------
EXTENDS DrivingMode, TLC

\* Memory alone, memory with a database beside it, and PostgreSQL.
EveryConfig == {c \in [url : BOOLEAN, postgres : BOOLEAN] : c.postgres => c.url}

Symmetric == Permutations(Handlers)
=============================================================================
