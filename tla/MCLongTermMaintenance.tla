------------------------ MODULE MCLongTermMaintenance ------------------------
\* Half a score is left after 200 days: one step of the larger run, two of the
\* one about the slope.
EXTENDS LongTermMaintenance

MCRemaining == [n \in 0..4 |-> 1000 \div (2^n)]
MCRemainingByHundreds ==
    [n \in 0..8 |-> (<<1000, 707, 500, 353, 250, 176, 125, 88, 62>>)[n + 1]]
==============================================================================
