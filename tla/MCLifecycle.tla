----------------------------- MODULE MCLifecycle -----------------------------
(* The Corefile the process started with, a good edit of it, one that does *)
(* not parse and one that does not start.                                  *)
EXTENDS Lifecycle
CONSTANTS i1, i2, i3

ThreeSlots == {i1, i2, i3}
AllVersions == {"first", "good", "broken", "failing"}
=============================================================================
