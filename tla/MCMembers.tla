----------------------------- MODULE MCMembers ------------------------------
(* Instance for TLC: two people, a batch of one, so that a second round of   *)
(* the purge is needed.                                                      *)
EXTENDS Members

CONSTANTS ann, bob
People == {ann, bob}
=============================================================================
