----------------------------- MODULE MCSummary -----------------------------
(***************************************************************************)
(* Instances of Summary for TLC.                                           *)
(***************************************************************************)
EXTENDS Summary

Titles    == {"Title"}
TextProps == {"Alt"}
NumProps  == {"Width"}
=============================================================================
