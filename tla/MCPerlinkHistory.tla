------------------------ MODULE MCPerlinkHistory ------------------------
(* The small systems of MCPerlink, with the memory of PerlinkHistory. *)
EXTENDS MCPerlink, PerlinkHistory
=============================================================================
