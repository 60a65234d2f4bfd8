--------------------------- MODULE MCRmdNodeState ---------------------------
(***************************************************************************)
(* Workloads for RmdNodeState: all cores but one, with MBA and a ratio of  *)
(* 0; one core, with a negative and a too large number.                    *)
(***************************************************************************)
EXTENDS RmdNodeState

Rdt(max, min, percentage, mbps) ==
  [f \in CacheFields \cup MbaFields |->
     CASE f = "max" -> max [] f = "min" -> min [] f = "percentage" -> percentage [] f = "mbps" -> mbps]

Pstate(ratio, monitoring) == [f \in PstateFields |-> IF f = "ratio" THEN ratio ELSE monitoring]

AllButOne == [allCores |-> TRUE, coreIds |-> {1}, reservedCoreIds |-> {0},
              rdt |-> Rdt(2, 0, 7, 0), pstate |-> Pstate(0, 1)]
OneCore == [allCores |-> FALSE, coreIds |-> {1}, reservedCoreIds |-> {1},
            rdt |-> Rdt(-1, 7, 8, 3), pstate |-> Pstate(37, None)]

Two == {AllButOne, OneCore}
=============================================================================
