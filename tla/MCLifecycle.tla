---------------------------- MODULE MCLifecycle ----------------------------
(***************************************************************************)
(* Small instances of Lifecycle.tla for TLC, with pages of eight bytes.    *)
(***************************************************************************)
EXTENDS Lifecycle, TLC

CONSTANTS fresh, full, spilled, long, huge, alice, bob

(* Half a page, exactly a page with its prefix, one byte more, all the     *)
(* pages there are, and more than that.                                    *)
MCLength ==
    (fresh :> 2) @@ (full :> 4) @@ (spilled :> 5) @@ (long :> 20) @@ (huge :> 21)
=============================================================================
