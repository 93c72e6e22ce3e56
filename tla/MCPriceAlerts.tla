--------------------------- MODULE MCPriceAlerts ---------------------------
(***************************************************************************)
(* A user with places for two alerts and three to create, on two assets:   *)
(* two evaluators can claim rows in opposite orders.                       *)
(***************************************************************************)
EXTENDS PriceAlerts, TLC

MCUsers == {"ann"}
MCAssets == {"btc", "eth"}
MCOwner == [a \in Alerts |-> "ann"]
MCAssetOf == [a \in Alerts |-> IF a = 2 THEN "eth" ELSE "btc"]
MCDirection == [a \in Alerts |-> IF a = 2 THEN "below" ELSE "above"]
MCLevel == [a \in Alerts |-> a]

\* Both orders of the assets; a quote for one alert of two; an unusable price.
\* With MaxAge = MaxSkew = 0 each is too early or too late at one of the two
\* times.
At(x, p, t) == [asset |-> x, price |-> p, observed |-> t]
MCBatches ==
  {<<At("btc", 3, 0), At("eth", 1, 0)>>, <<At("eth", 1, 0), At("btc", 3, 0)>>,
   <<At("btc", 2, 1)>>, <<At("eth", 0, 1)>>}
MCSymmetry == Permutations(Evaluators) \cup Permutations(Requests)
=============================================================================
