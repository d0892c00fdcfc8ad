------------------------------ MODULE MCEditing ------------------------------
(* A routine without a schedule.                                           *)
EXTENDS Editing

NoPeriods == [c \in {} |-> 1]
=============================================================================
