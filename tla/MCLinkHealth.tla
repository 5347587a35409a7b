----------------------------- MODULE MCLinkHealth -----------------------------
(* Small instances of LinkHealth.                                           *)
EXTENDS LinkHealth

Fast(status) == [status |-> status, slow |-> FALSE]
Slow(status) == [status |-> status, slow |-> TRUE]

FreshSlowMissing == {Fast("Fresh"), Slow("Fresh"), Fast("Missing")}
FreshMissing == {Fast("Fresh"), Fast("Missing")}

=============================================================================
