------------------------------ MODULE MCUpload ------------------------------
(***************************************************************************)
(* The upload of files of up to three blocks.  Three fields is what        *)
(* uploadModel() sets.                                                     *)
(***************************************************************************)
EXTENDS Upload

MCFields == {"a", "name", "group"}
=============================================================================
