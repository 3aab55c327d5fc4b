------------------------- MODULE DirectiveContract -------------------------
(***************************************************************************)
(* What the control loop between Ackplane and one supervisor session       *)
(* promises, with the queues, the connection and its failures left out:    *)
(* directives are issued in order, the session decides each of them once,  *)
(* in order, and Ackplane's ledger holds the receipt of each decision once *)
(* and in the same order, however often anything was sent.                 *)
(*                                                                         *)
(* DirectiveDelivery implements this specification.                        *)
(***************************************************************************)
EXTENDS Naturals, Sequences, FiniteSets

CONSTANTS
    MaxDirectives,  \* bound on the directives issued to the session
    Decisions       \* the decisions a session may take

VARIABLES
    issued,         \* how many directives have been issued
    decided,        \* the session's decisions, by directive sequence
    recorded        \* the receipts in Ackplane's ledger

contractVars == <<issued, decided, recorded>>

ContractInit ==
    /\ issued = 0
    /\ decided = << >>
    /\ recorded = {}

IssueOne ==
    /\ issued < MaxDirectives
    /\ issued' = issued + 1
    /\ UNCHANGED <<decided, recorded>>

\* A decision is final: the next one is appended and none is revised.
DecideOne ==
    /\ Len(decided) < issued
    /\ \E d \in Decisions : decided' = Append(decided, d)
    /\ UNCHANGED <<issued, recorded>>

\* The ledger takes the receipts one by one in directive order.
RecordOne ==
    LET n == Cardinality(recorded) + 1
    IN  /\ n <= Len(decided)
        /\ recorded' = recorded \cup {<<n, decided[n]>>}
        /\ UNCHANGED <<issued, decided>>

ContractNext == IssueOne \/ DecideOne \/ RecordOne

ContractSpec == ContractInit /\ [][ContractNext]_contractVars

=============================================================================
