--------------------------- MODULE MCDatasetSession ---------------------------
(* Two sessions that may overlap, one of them to be left out of training.    *)
EXTENDS DatasetSession
===============================================================================
