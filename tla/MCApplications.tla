--------------------------- MODULE MCApplications ---------------------------
(***************************************************************************)
(* Instances of Applications for TLC.  Numbers cover every id that the     *)
(* requests of a run can bring about, and one that stays unused.           *)
(***************************************************************************)
EXTENDS Applications, TLC

CONSTANTS r1, r2, r3

TwoRequests   == {r1, r2}
ThreeRequests == {r1, r2, r3}

\* The runs that look for safety only do not tell the requests apart.
RequestSymmetry == Permutations(Requests)

AllOperations   == Routes
WriteOperations ==
  {"CreateApplication", "PatchApplication", "DeleteApplication",
   "CreateStage", "PatchStage", "DeleteStage"}
=============================================================================
