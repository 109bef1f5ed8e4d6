---------------------------- MODULE MCNetServer ----------------------------
(* Instances of NetServer for TLC: the clients by name, as in one of them  *)
(* only c1 cuts its messages and closes or resets when it likes.           *)
EXTENDS NetServer, TLC

CONSTANTS c1, c2

=============================================================================
