---------------------------- MODULE MCMessaging ----------------------------
(***************************************************************************)
(* Messaging for TLC: a private channel with two members and a message of  *)
(* one of them, and new requests.                                          *)
(***************************************************************************)
EXTENDS Messaging, TLC

CONSTANTS r1, r2, other, carl

TwoNew == {r1, r2} \cup Past

ThreeUsers == {Founder, Guest, carl}

ThreeNames == {GeneralName, FoundedName, other}

NewSymmetry == Permutations({r1, r2})
=============================================================================
