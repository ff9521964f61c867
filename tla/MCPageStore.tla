---------------------------- MODULE MCPageStore -----------------------------
(* An instance of PageStore for TLC: what the pages answer. *)
EXTENDS PageStore, TLC

CONSTANTS page1, page2, text, pdf

\* The two pages have the same body; the second may have changed into another
\* kind of content since.
TwoPages == (page1 :> {text}) @@ (page2 :> {text, pdf})
=============================================================================
