---------------------------- MODULE MCContigScan ----------------------------
(* An arena of five pages and one of four, any of them occupied.           *)
EXTENDS ContigScan

MCSizes == <<5, 4>>
=============================================================================
