------------------------------ MODULE PageKeys ------------------------------
(***************************************************************************)
(* What the tiers of one node have in common: the keys of the pages.       *)
(***************************************************************************)
CONSTANTS
  Keys,   \* the keys pages are published and written under
  NoKey   \* where there is no key: a byte nothing was copied to, an idle writer
=============================================================================
