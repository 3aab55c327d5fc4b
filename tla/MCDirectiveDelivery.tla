------------------------ MODULE MCDirectiveDelivery ------------------------
(* A small instance of DirectiveDelivery for TLC. *)
EXTENDS DirectiveDelivery
=============================================================================
