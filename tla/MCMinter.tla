------------------------------ MODULE MCMinter ------------------------------
(***************************************************************************)
(* Small instances of Minter.tla for TLC.                                  *)
(***************************************************************************)
EXTENDS MinterRefinement

CONSTANTS main, savings, timer, admin, key, twin

MCOneWindow == <<1>>
MCTwoWindows == <<1, 2>>

(* The memo keeps the whole key, or cuts both keys to the same prefix. *)
SamePrefix == [k \in Keys |-> k]
OnePrefix == [k \in Keys |-> key]

Default == [minting_enabled |-> TRUE, max_mint_per_operation |-> None]
Stopped == [Default EXCEPT !.minting_enabled = FALSE]
OneEach == [Default EXCEPT !.max_mint_per_operation = 1]

Plain(account, target) ==
    [account |-> account, min_balance |-> 0, target_balance |-> target,
     max_balance |-> None, max_topup_per_rebalance |-> None,
     lifetime_received_minimum |-> None, lifetime_received_maximum |-> None,
     rate_limits |-> None, enabled |-> TRUE, allow_manual_topup |-> TRUE,
     allow_auto_rebalance |-> TRUE]

NoChange ==
    [min_balance |-> Keep, target_balance |-> Keep, max_balance |-> Keep,
     max_topup_per_rebalance |-> Keep, lifetime_received_minimum |-> Keep,
     lifetime_received_maximum |-> Keep, rate_limits |-> Keep, enabled |-> Keep,
     allow_manual_topup |-> Keep, allow_auto_rebalance |-> Keep]

(* Accounting: two reserves that can be disabled, one guaranteed more than *)
(* its target.                                                             *)
CoreAdds ==
    {[Plain(main, 1) EXCEPT !.lifetime_received_minimum = 2], Plain(savings, 1)}
CoreUpdates == {[NoChange EXCEPT !.enabled = FALSE]}
CorePolicies == {Default}

(* Release: one reserve at a time, removed and registered again.           *)
ReleaseAdds == {[Plain(main, 1) EXCEPT !.lifetime_received_minimum = 2]}
ReleaseUpdates == {}
ReleasePolicies == {Default}

(* Faults: ceilings that a mint reaches, and that change under it. *)
FaultAdds ==
    {[Plain(main, 2) EXCEPT !.max_balance = 2, !.lifetime_received_maximum = 3]}
FaultUpdates ==
    {[NoChange EXCEPT !.lifetime_received_maximum = 2, !.target_balance = 1],
     [NoChange EXCEPT !.lifetime_received_maximum = 3, !.max_balance = 1]}
FaultPolicies == {Default}

(* Rate limits: two an hour and three in the largest window, later one and *)
(* two; the limits bind before the target is reached.                      *)
Limits(small, large) == [w \in Windows |-> IF w = 1 THEN small ELSE large]
WindowAdds == {[Plain(main, 3) EXCEPT !.rate_limits = Limits(2, 3)]}
WindowUpdates == {[NoChange EXCEPT !.rate_limits = Limits(None, 2)]}
WindowPolicies == {Default, OneEach}

(* Progress: two reserves, one refilled in two cycles, and both switches   *)
(* that stop a refill.                                                     *)
ProgressAdds ==
    {[Plain(main, 1) EXCEPT !.max_topup_per_rebalance = 1,
                            !.lifetime_received_minimum = 2],
     Plain(savings, 1)}
ProgressUpdates == {[NoChange EXCEPT !.allow_auto_rebalance = FALSE]}
ProgressPolicies == {Default, Stopped}

(* Documentation: a reserve with a threshold, a ceiling and a maximum.     *)
DocAdds ==
    {[Plain(main, 2) EXCEPT !.min_balance = 1, !.max_balance = 2,
                            !.lifetime_received_maximum = 3]}
DocUpdates == {}
DocPolicies == {Default, Stopped}
=============================================================================
