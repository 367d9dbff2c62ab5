--------------------------- MODULE MCPreprocessor ----------------------------
(* Preprocessor for TLC. *)
EXTENDS Preprocessor

==============================================================================
