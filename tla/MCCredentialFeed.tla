-------------------------- MODULE MCCredentialFeed --------------------------
(* Two codes with one mark, two calls of HandleFile at a time and one event *)
(* waiting: a call can hold an older file than another at every step, and   *)
(* can delete what the other has put.                                       *)
EXTENDS CredentialFeed

MCHandlers == {"h1", "h2"}
=============================================================================
