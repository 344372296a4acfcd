----------------------------- MODULE StatusPageMC -----------------------------
(****************************************************************************)
(* Two requests at a time: the page's own, and a reset by somebody else or  *)
(* one of the page's whose reply was lost.                                  *)
(****************************************************************************)
EXTENDS StatusPage

MCExchanges == {"one", "other"}
=============================================================================
