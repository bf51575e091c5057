---------------------------- MODULE LiveFeedsMC ----------------------------
(* Small instances of LiveFeeds.                                           *)
EXTENDS LiveFeeds

TwoSymbols == {"AAPL", "MSFT"}
BothInOne  == [s \in TwoSymbols |-> IF s = "AAPL" THEN 3 ELSE 5]

Setting(feeds, group, start, forever) ==
  [feeds |-> feeds, symbol |-> "AAPL", group |-> group, start |-> start,
   forever |-> forever, minute |-> TRUE, parts |-> Parts,
   balances |-> FALSE, entries |-> 2]

AllSettings ==
  { Setting({"bars"}, TRUE, Latest, FALSE),
    Setting({"bars"}, FALSE, 0, FALSE),
    [Setting({"bars"}, FALSE, Latest, TRUE) EXCEPT !.balances = TRUE,
                                                !.entries = 1],
    [Setting({"bars"}, TRUE, Latest, FALSE) EXCEPT !.minute = FALSE],
    [Setting({"bars"}, TRUE, Latest, FALSE) EXCEPT !.symbol = ""] }

AllShapes == { <<>>, <<"bad", "own">>, <<"other">>, <<"poison">> }
=============================================================================
