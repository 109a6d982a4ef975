-------------------------- MODULE MCCredentialSync --------------------------
(* One credential and one access time under three remote writes: a row can  *)
(* be written, deleted and written again, and each of two overlapping syncs *)
(* can hold an older row than the other.                                    *)
EXTENDS CredentialSync

MCCodes == {"code"}
MCGroups == {"group"}
=============================================================================
