-------------------------- MODULE MCStreamHandler --------------------------
(* StreamHandler with two threads that call Cancel or Dispose.             *)
EXTENDS StreamHandler

CONSTANTS c1, c2

Threads == {c1, c2}
=============================================================================
