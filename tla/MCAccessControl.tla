-------------------------- MODULE MCAccessControl ---------------------------
(* Two groups and a day of three seconds with every window in it: what      *)
(* matters of three times is their order, and three seconds can take all of *)
(* them.                                                                    *)
EXTENDS AccessControl

MCWindows == [start: TimesOfDay, end: TimesOfDay]
=============================================================================
