-------------------------- MODULE VersionedRegister -------------------------
(***************************************************************************)
(* What the tenant registry promises of one tenant: every write makes the  *)
(* next version of the record, so that no write is lost under another, and *)
(* a tenant that was deleted starts again at version 1.  Version 0 is no   *)
(* record.                                                                 *)
(***************************************************************************)
EXTENDS Naturals

VARIABLE version

Init == version = 0

Put == version' = version + 1

Remove == version' = 0

Next == Put \/ Remove

Spec == Init /\ [][Next]_version
=============================================================================
