-------------------------- MODULE MCAudioRetention --------------------------
(* AudioRetention for TLC: one upload from before URLs were recorded, two      *)
(* requests that confirm it, two threads that delete it.                       *)
EXTENDS AudioRetention
=============================================================================
