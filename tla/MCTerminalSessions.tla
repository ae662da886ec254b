-------------------------- MODULE MCTerminalSessions -------------------------
EXTENDS TerminalSessions, TLC

\* Processes and ids are not told apart.
Symmetry == Permutations(Procs) \cup Permutations(Sessions)
=============================================================================
