--------------------------- MODULE MCTableStorage ---------------------------
(* Instances of TableStorage for TLC. *)
EXTENDS TableStorageProps
=============================================================================
