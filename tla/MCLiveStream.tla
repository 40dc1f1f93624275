---------------------------- MODULE MCLiveStream ----------------------------
(***************************************************************************)
(* A model-checking instance of LiveStream: a paper run followed by a      *)
(* production run.                                                         *)
(***************************************************************************)
EXTENDS LiveStream

PaperThenProd == <<"live", "prod">>
=============================================================================
