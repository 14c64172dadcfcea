-------------------------- MODULE MCConsoleProducer --------------------------
(***************************************************************************)
(* Four lines, of which one may be malformed.                              *)
(***************************************************************************)
EXTENDS ConsoleProducer
=============================================================================
