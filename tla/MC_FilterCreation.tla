-------------------------- MODULE MC_FilterCreation --------------------------
EXTENDS FilterCreation, TLC

CONSTANTS c1, c2, c3, errorText, noId

MCCalls == {c1, c2, c3}
\* One token a second with a burst of one: three calls of one method within
\* one second exceed what the limiter admits, and a clock of 0..2 leaves a
\* second in which a method can stay idle before the next calls.
MCRate == 1
MCBurst == 1
MCMaxTime == 2
\* eth_newBlockFilter is left out of --rpc.rate-limit-api: its limiter is nil.
MCLimitedApis == {"pending", "logs"}

MCSymmetry == Permutations(MCCalls)
=============================================================================
