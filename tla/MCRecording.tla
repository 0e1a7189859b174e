---------------------------- MODULE MCRecording ----------------------------
(***************************************************************************)
(* Instances of recording for TLC.                                         *)
(***************************************************************************)
EXTENDS RecordingProperties

CONSTANT person

OnePerson == {person}
=============================================================================
