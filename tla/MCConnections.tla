--------------------------- MODULE MCConnections ---------------------------
(* Small instances of Connections. *)
EXTENDS Connections

\* The node is neither the first nor the last member of the settings.
MidOrder == <<"p1", "me", "p2">>

=============================================================================
