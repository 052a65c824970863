--------------------------- MODULE MCParticipant ---------------------------
(* Model checking of module Participant. *)
EXTENDS Participant
=============================================================================
