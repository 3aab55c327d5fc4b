-------------------------- MODULE MCFederatedClaim --------------------------
(* Two nodes and a session id that is at work on both, for TLC. *)
EXTENDS FederatedClaim

CONSTANTS a, b, n1, n2, main, topic

TwoNodes    == {<<a, n1>>, <<a, n2>>, <<b, n1>>}
AtFirstNode == <<a, n1>>

\* Every session starts on one branch and later works on another.
SwitchesAfterFirst ==
    [s \in TwoNodes |-> [t \in 0..MaxClock |-> IF t = 0 THEN main ELSE topic]]

\* The others make their calls at once, one of them a second later too.
OneCallsLater == [s \in TwoNodes |-> IF s = <<b, n1>> THEN 1 ELSE 0]
=============================================================================
