--------------------------- MODULE MCControlSystem ---------------------------
(* One Controller and one Handle; a request to take over; one message or     *)
(* session lost; two messages under way in each direction.                  *)
EXTENDS ControlSystem
=============================================================================
