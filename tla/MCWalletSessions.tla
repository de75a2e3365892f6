-------------------------- MODULE MCWalletSessions --------------------------
EXTENDS WalletSessions, TLC
CONSTANTS t1, t2, w, v, n1, n2, k1, k2

\* Threads, tokens and nonces only differ by name.
Symmetry == Permutations(Threads) \cup Permutations(Nonces) \cup Permutations(Tokens)
=============================================================================
