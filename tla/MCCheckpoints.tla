----------------------------- MODULE MCCheckpoints -----------------------------
EXTENDS Checkpoints, TLC

\* Words of five bits.
MCMaxKey == ("History" :> 7) @@ ("Trace224" :> 7) @@ ("Trace160" :> 15)
MCMaxValue == ("History" :> 3) @@ ("Trace224" :> 3) @@ ("Trace160" :> 1)
MCValues == ("History" :> {3, 4}) @@ ("Trace224" :> {0, 3}) @@ ("Trace160" :> {0, 1})
=============================================================================
