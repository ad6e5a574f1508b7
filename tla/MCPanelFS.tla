------------------------------ MODULE MCPanelFS ------------------------------
(* Two file systems: one in the panel, one in the background.              *)
EXTENDS PanelFS

CONSTANTS f1, f2
=============================================================================
