------------------------------ MODULE MCPlugin ------------------------------
(* Two directories around an empty entry, one of them listed twice.         *)
EXTENDS Plugin
MCPath == <<"bin", "", "opt", "bin">>
=============================================================================
