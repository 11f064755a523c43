------------------------------ MODULE MCViewer ------------------------------
(* Three pixels, so that a dirty span may hold an unchanged pixel; two      *)
(* palettes, so that one may come back after another.                       *)
EXTENDS Viewer

MCPictures == {<<1, 1, 1>>, <<2, 1, 2>>, <<1, 1, 2>>}
MCPalettes == {<<"black", "blue">>, <<"black", "red">>}
=============================================================================
