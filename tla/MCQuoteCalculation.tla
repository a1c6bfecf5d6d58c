------------------------- MODULE MCQuoteCalculation -------------------------
(* Small instances of the quote calculations. *)
EXTENDS QuoteCalculation, TLC

CONSTANTS i1, x1

\* An import and an explicit call share the facts of a week.
MCFactsOf == [r \in Requests |-> "week"]

MCPlayerOf == [f \in Facts |-> CHOOSE p \in Players : TRUE]

\* The week is worth a quote under version 1 only.
MCPriceOf == [f \in Facts |-> [v \in Versions |-> IF v = 1 THEN 1 ELSE 0]]

MCSymmetry == Permutations(Workers)

=============================================================================
