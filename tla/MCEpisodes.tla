----------------------------- MODULE MCEpisodes -----------------------------
\* Model-checking module: one trader, one asset, small fills.
EXTENDS Episodes, TLC

\* Long and short mirror each other: it is enough that trading begins long.
BeginsLong == trades' # <<>> => trades'[1].size > 0
\* Second sources, crashes and failures in any combination within two fills,
\* a crash or a failure alone within three.
OneFaultInThree ==
    Len(trades') > 2 => repeated' = {} /\ restarts' + failures' <= 1
=============================================================================
