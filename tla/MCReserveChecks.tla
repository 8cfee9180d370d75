-------------------------- MODULE MCReserveChecks --------------------------
(***************************************************************************)
(* A small instance of ReserveChecks.tla for TLC.                          *)
(***************************************************************************)
EXTENDS ReserveChecks

(* Three windows, so that one can be left out between two others. *)
MCThreeWindows == <<1, 2, 4>>

(* Every combination of no mint, a small one and a large one in the first  *)
(* three hours and in the fifth.                                           *)
MCHistories ==
    {events \in [Instants -> {0, 1, 3}] : \A i \in Instants \ {0, 1, 2, 4} : events[i] = 0}
=============================================================================
