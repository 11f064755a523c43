----------------------------- MODULE MCSession -----------------------------
(* Two browsers, one key and one reset more than either queue holds.        *)
EXTENDS Session

CONSTANTS b1, b2
MCBrowsers == {b1, b2}
=============================================================================
