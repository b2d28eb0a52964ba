-------------------------- MODULE MCOutcomeProtocol --------------------------
(* Small instances of OutcomeProtocol for TLC.                             *)
EXTENDS OutcomeProtocol

=============================================================================
