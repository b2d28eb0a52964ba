--------------------------- MODULE MCClientScopes ---------------------------
(* Small instances of ClientScopes for TLC.                                *)
EXTENDS ClientScopes

=============================================================================
