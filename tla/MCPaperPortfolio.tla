-------------------------- MODULE MCPaperPortfolio --------------------------
(***************************************************************************)
(* A small portfolio for TLC: two decimal units per whole (Scale = 2), so  *)
(* that products and averages round, and little cash, so that every limit  *)
(* is reached.                                                             *)
(***************************************************************************)
EXTENDS PaperPortfolio, TLC

MCSettings ==
  {[minInvestment |-> 1, maxInvestment |-> 6, maxPositions |-> p, maxTrades |-> t,
    stopPct |-> 50, takePct |-> 0] : p \in 1 .. 2, t \in 1 .. 2}

MCDefault ==
  [minInvestment |-> 1, maxInvestment |-> 6, maxPositions |-> 2, maxTrades |-> 2,
   stopPct |-> 0, takePct |-> 40]

MCSymmetry == Permutations(ClientIds) \cup Permutations(Symbols)
=============================================================================
