----------------------------- MODULE MCDirector -----------------------------
(***************************************************************************)
(* Instances of Director for TLC: two sessions of two users.               *)
(***************************************************************************)
EXTENDS Director, TLC

CONSTANTS r1, r2, r3, s1, s2, alice, bob

ThreeRequests == {r1, r2, r3}
TwoSessions   == {s1, s2}
TwoUsers      == {alice, bob}
OneEach       == s1 :> alice @@ s2 :> bob
=============================================================================
