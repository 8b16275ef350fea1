--------------------------- MODULE MCBrowserSession ---------------------------
(***************************************************************************)
(* An instance of BrowserSession for TLC: a tab that may open a second     *)
(* session after its first, with an idle time twice the report gap.        *)
(***************************************************************************)
EXTENDS BrowserSession

CONSTANTS s1, s2
=============================================================================
