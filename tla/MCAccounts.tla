----------------------------- MODULE MCAccounts -----------------------------
EXTENDS Accounts, TLC

CONSTANT new

\* A change of password, a deactivation, and neither.
SomePatches == {[password |-> new, active |-> Keep], [password |-> Keep, active |-> FALSE]}

Symmetric == Permutations(Handlers)
=============================================================================
