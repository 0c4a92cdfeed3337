---------------------------- MODULE MCRedisStore ----------------------------
(***************************************************************************)
(* An instance of RedisStore for TLC.  There are as many ids as calls, so  *)
(* that BeginSession never runs out of them.                               *)
(***************************************************************************)
EXTENDS RedisStore

CONSTANTS c1, c2, c3, c4, s1, s2, s3, s4

FourCalls     == {c1, c2, c3, c4}
FourSessions  == {s1, s2, s3, s4}
=============================================================================
