------------------------------ MODULE MCWebPage ------------------------------
(***************************************************************************)
(* A small instance of WebPage for TLC.                                    *)
(***************************************************************************)
EXTENDS WebPage

AnyPage == {"modal", "carousel", "accordion", "tooltip", "tabs", "alert"}
AnyTrigger == {"hover", "focus", "click"}
==============================================================================
