----------------------------- MODULE MCPreview -----------------------------
(***************************************************************************)
(* Small instances of Preview.tla for TLC.                                 *)
(***************************************************************************)
EXTENDS Preview, MCMinter

CONSTANT previewer

(* The rate limit of main binds below its target; savings has a ceiling,   *)
(* and a guarantee above it.                                               *)
PreviewAdds ==
    {[Plain(main, 2) EXCEPT !.rate_limits = Limits(1, 1)],
     [Plain(savings, 1) EXCEPT !.max_balance = 2, !.lifetime_received_minimum = 3]}
PreviewUpdates == {[NoChange EXCEPT !.rate_limits = None]}
PreviewPolicies == {Default}
=============================================================================
