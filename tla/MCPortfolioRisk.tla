---------------------------- MODULE MCPortfolioRisk ----------------------------
(* One portfolio under the default risk policy, seen two ways: many approvals      *)
(* among direct bets won and lost, and one reader while a direct bet and an         *)
(* approval come and go, pushes included.                                        *)
EXTENDS MCApprovalRisk, PortfolioReads

VARIABLE view

RiskPayout == MCPayout \cup {0}

ViewInit == ReadInit /\ view \in {"risk", "reads"}

ViewNext ==
    /\ UNCHANGED view
    /\ \/ /\ view = "risk"
          /\ Next
          /\ \A b \in DOMAIN bets' : bets'[b].status = "settled" => bets'[b].pnl # 0
          /\ UNCHANGED <<read, run>>
       \/ /\ view = "reads"
          /\ ReadNext
          /\ Cardinality(DOMAIN bets') <= 2
          /\ \A r \in Rec \ {r1} : recs'[r] = recs[r]

ViewSpec == ViewInit /\ [][ViewNext]_<<view, readVars>>
=============================================================================
