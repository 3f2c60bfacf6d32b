------------------------- MODULE MCMarketCollection -------------------------
EXTENDS MarketCollection, TLC
CONSTANTS c1, c2, v1, v2, absent, tradeOnly
MCMarkets == <<"KRX">>
MCCodes == {c1, c2}
MCIds == {v1, v2}
MCClosed == {3}
MCCalendar == 1 .. LastDay
MCBackfillRanges == {<<1, 0>>, <<1, 2>>}
MCSyncDates == {3, 4}
\* What the answers of the dates 1, 2 and 4 say of the two securities: one
\* changes and changes back while the other is left out of an answer; one is
\* listed while the other only trades and is delisted.
Told4(a, b, e) == [d \in 1 .. 4 |-> <<a, b, absent, e>>[d]]
Both(f, g) == [d \in 1 .. 4 |-> [c \in MCCodes |-> IF c = c1 THEN f[d] ELSE g[d]]]
MCHistories ==
    {Both(Told4(v1, v2, v1), Told4(v1, absent, v1)),
     Both(Told4(absent, v1, v1), Told4(v1, tradeOnly, absent))}
=============================================================================
