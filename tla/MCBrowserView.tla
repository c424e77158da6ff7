---------------------------- MODULE MCBrowserView ----------------------------
(***************************************************************************)
(* TLC instances of BrowserView.                                           *)
(***************************************************************************)
EXTENDS BrowserView

CONSTANT c1

MCCollectorOf == [r \in Reader |-> c1]
=============================================================================
