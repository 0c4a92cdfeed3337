----------------------------- MODULE MCMemStore -----------------------------
(***************************************************************************)
(* An instance of MemStore for TLC.                                        *)
(***************************************************************************)
EXTENDS MemStore

CONSTANTS c1, c2, c3, s1, s2, s3

ThreeCalls    == {c1, c2, c3}
ThreeSessions == {s1, s2, s3}
=============================================================================
