----------------------------- MODULE MCMonitoring -----------------------------
(* Monitoring with the time ranges its clients ask for in the run. *)
EXTENDS Monitoring

\* Not a number, zero, beyond the retention.
SomeRanges == {-1, 0, 4}

=============================================================================
