---------------------------- MODULE MCPaneRender ----------------------------
(* TLC's instances of PaneRender: the radars are model values, the rest numbers. *)
EXTENDS PaneRender

=============================================================================
