--------------------------- MODULE MCRecSession ---------------------------
(* Small instances of RecSession.                                          *)
EXTENDS RecSession, TLC

\* To the session a file that cannot be renamed is a file that cannot be closed.
SomeFaults == {"create", "write", "close"}

AnyConfig == Permutations(Configs)

=============================================================================
