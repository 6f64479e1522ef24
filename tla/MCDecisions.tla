----------------------------- MODULE MCDecisions -----------------------------
(* The four stages of one analysis, each on an instance of its own: the market   *)
(* states a cutoff sees, the prices and consensus of a board, the qualification   *)
(* of a quote and the sizing of what qualified. A behavior exercises one stage.  *)
EXTENDS PricingReplay, MCDecisionEngine, MCConsensus, Qualification

VARIABLE stage

(* Quotes that start poor in every respect but a few.                            *)
MCFirst ==
    {[win |-> w, push |-> p, loss |-> 100 - w - p, odds |-> o, books |-> 1, dispersion |-> d,
      age |-> 240, warned |-> b, uncertainty |-> "high"] :
        w \in {34, 48}, p \in {0, 4}, o \in {-125, 200, 450}, d \in {Unknown, 120},
        b \in BOOLEAN}

AnyQuote == CHOOSE q \in FirstQuotes : TRUE
AnyBook == CHOOSE k \in Book : k.bets = <<>>

DecisionsInit ==
    /\ stage \in {"replay", "board", "quote", "engine"}
    /\ ReplayInit
    /\ ConsensusInit
    /\ IF stage = "quote" THEN QualificationInit ELSE quote = AnyQuote
    /\ EngineInit
    /\ stage # "engine" =>
          [port |-> port, bets |-> paperBets, order |-> paperOrder, cash |-> paperCash] = AnyBook

DecisionsNext ==
    /\ UNCHANGED stage
    /\ \/ stage = "replay" /\ ReplayNext /\ UNCHANGED <<consensusVars, quote, engineVars>>
       \/ stage = "board" /\ ConsensusNext /\ UNCHANGED <<replayVars, quote, engineVars>>
       \/ stage = "quote" /\ QualificationNext /\ UNCHANGED <<replayVars, consensusVars, engineVars>>
       \/ stage = "engine" /\ EngineNext /\ UNCHANGED <<replayVars, consensusVars, quote>>

DecisionsSpec ==
    DecisionsInit /\ [][DecisionsNext]_<<stage, replayVars, consensusVars, quote, engineVars>>
=============================================================================
