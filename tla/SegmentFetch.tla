---------------------------- MODULE SegmentFetch ----------------------------
(***************************************************************************)
(* What the adaptive player needs from the system below it: segments come  *)
(* one at a time, each is asked for after the one before it arrived, and   *)
(* the session is over after the last one, not earlier and not never.      *)
(***************************************************************************)
EXTENDS Naturals

CONSTANT Segments   (* the segments of the video *)

VARIABLES asked,    (* segments the player asked for   *)
          got,      (* segments that arrived           *)
          over      (* the player closed the session   *)

fetchVars == <<asked, got, over>>

FetchInit == asked = 0 /\ got = 0 /\ over = FALSE

Ask     == asked = got /\ asked < Segments /\ asked' = asked + 1 /\ UNCHANGED <<got, over>>
Arrive  == got < asked /\ got' = got + 1 /\ UNCHANGED <<asked, over>>
Finish  == got = Segments /\ ~over /\ over' = TRUE /\ UNCHANGED <<asked, got>>

FetchNext == Ask \/ Arrive \/ Finish

Fetch == FetchInit /\ [][FetchNext]_fetchVars /\ WF_fetchVars(FetchNext)
=============================================================================
