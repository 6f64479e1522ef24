---------------------------- MODULE MCTxnWorkloads ----------------------------
(* The clients of one owner either retry keyed placements and settlements or     *)
(* decide about a recommendation; the workload is chosen once.                   *)
EXTENDS MCMutationTxn

VARIABLE workload

AllRequests == KeyedRequests \cup DecisionRequests

LoadInit == TxnInit /\ workload \in {KeyedRequests, DecisionRequests}

LoadNext ==
    /\ TxnNext
    /\ \A s \in Session : req'[s] # req[s] => req'[s] \in workload \cup {NoRequest}
    /\ UNCHANGED workload

LoadSpec == LoadInit /\ [][LoadNext]_<<allVars, workload>>
=============================================================================
