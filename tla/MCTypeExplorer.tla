-------------------------- MODULE MCTypeExplorer --------------------------
(***************************************************************************)
(* A small instance of TypeExplorer for TLC: two window heights and two   *)
(* widths, so that a resize can change either or both, and two mounts, so *)
(* that a help fetch can outlive the explorer that started it.            *)
(***************************************************************************)
EXTENDS TypeExplorer, TLC

MCHeights == {600, 800}
MCWidths == {1000, 1280}

=============================================================================
