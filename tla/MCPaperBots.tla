----------------------------- MODULE MCPaperBots -----------------------------
(***************************************************************************)
(* One bot beside its user, who has orders with ids of their own.  An      *)
(* entry at a price of 3 has its stop at 2, so the stop can be reached; an *)
(* entry at 2 takes the default settings' profit at 3.                     *)
(***************************************************************************)
EXTENDS PaperBots, TLC

CONSTANTS UserIds

MCClientIds == UserIds \cup BotIds
MCBotSymbol == [b \in Bots |-> CHOOSE s \in Symbols : TRUE]

MCSettings ==
  {[minInvestment |-> 1, maxInvestment |-> 6, maxPositions |-> 1, maxTrades |-> 1,
    stopPct |-> 50, takePct |-> 0]}

MCDefault ==
  [minInvestment |-> 1, maxInvestment |-> 6, maxPositions |-> 1, maxTrades |-> 2,
   stopPct |-> 0, takePct |-> 40]

MCSymmetry == Permutations(Workers) \cup Permutations(UserIds)
=============================================================================
