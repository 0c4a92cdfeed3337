----------------------------- MODULE MCAccounts -----------------------------
(***************************************************************************)
(* Instances of Accounts for TLC.  The sign-ups conflict in the email or   *)
(* in the username.                                                        *)
(***************************************************************************)
EXTENDS Accounts, TLC

CONSTANTS r1, r2, r3, plain, named, ann, bob, secret, other

ThreeRequests == {r1, r2, r3}

Ann      == [email |-> plain, userName |-> ann, password |-> secret]
AnnAgain == [email |-> plain, userName |-> bob, password |-> other]
Bob      == [email |-> named, userName |-> bob, password |-> secret]

ThreeSignUps == {Ann, AnnAgain, Bob}

RequestSymmetry == Permutations(Requests)
=============================================================================
