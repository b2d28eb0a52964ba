-------------------------- MODULE MCDestructiveGroup --------------------------
(* DestructiveGroup as TLC checks it; its configurations give the runs and *)
(* the addresses of the closure as model values.                           *)
EXTENDS DestructiveGroup
=============================================================================
