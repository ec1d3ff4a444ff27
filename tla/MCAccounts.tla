----------------------------- MODULE MCAccounts -----------------------------
EXTENDS Accounts, TLC

Symmetry == Permutations(Slots) \cup Permutations(Tokens)
=============================================================================
