----------------------------- MODULE MCPackager -----------------------------
(* Model of packager.py for TLC: every combination of options, of the     *)
(* developer's prior change and of the tags already present.              *)
EXTENDS Packager
=============================================================================
