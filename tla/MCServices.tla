------------------------------ MODULE MCServices ------------------------------
(* The market side of the backend, each part on an instance of its own: servers  *)
(* that refresh and decide slates, and sessions that store fetched markets. A      *)
(* behavior exercises one of them and owes its progress to the fairness of that    *)
(* one.                                                                          *)
EXTENDS MCMarketRefresh, MCMarketIngestion

VARIABLE service

servicesVars == <<service, refreshVars, vars>>

ServicesInit ==
    /\ service \in {"refresh", "ingestion"}
    /\ RefreshInit /\ Init

OnlyRefresh == service = "refresh" /\ UNCHANGED <<service, vars>>
OnlyIngestion == service = "ingestion" /\ UNCHANGED <<service, refreshVars>>

ServicesNext ==
    \/ OnlyRefresh /\ RefreshNext
    \/ OnlyIngestion /\ Next

ServicesSpec ==
    /\ ServicesInit /\ [][ServicesNext]_servicesVars
    /\ \A c \in Caller : WF_servicesVars(OnlyRefresh /\ Serve(c))
    /\ \A s \in Session : WF_servicesVars(OnlyIngestion /\ Work(s))

(* Every request and every ingestion ends.                                       *)
ServicesEnd == RequestsEnd /\ IngestionEnds
=============================================================================
