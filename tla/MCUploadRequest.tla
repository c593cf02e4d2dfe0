-------------------------- MODULE MCUploadRequest --------------------------
(***************************************************************************)
(* Values of the constants of UploadRequest for the runs of TLC.           *)
(***************************************************************************)
EXTENDS UploadRequest

(* Around 0, around the limit, and around the width of Int16Max. *)
MCNumber == {-1, 0, 1, 3, 4, 7, 8, 17}

MCUnitLength == [u \in Unit |-> IF u = "h" THEN 60 ELSE 1440]
=============================================================================
