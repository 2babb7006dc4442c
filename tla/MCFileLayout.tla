---------------------------- MODULE MCFileLayout ----------------------------
(* Two files: one with an index of four blocks, one for what is left.     *)
EXTENDS FileLayout

LayoutSizes == <<23, 0>>

\* Long enough for the index to come to its last block.
LayoutLengths == <<13, 1>>
=============================================================================
