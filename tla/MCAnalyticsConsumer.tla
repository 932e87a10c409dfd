------------------------ MODULE MCAnalyticsConsumer ------------------------
(* Values for the constants of AnalyticsConsumer: a partition of            *)
(* payments.processed and one of the DLQ, over batches of two.              *)
EXTENDS AnalyticsConsumer, TLC

CONSTANTS processed, dlq

MCPartitions == {processed, dlq}

\* Each partition starts with a message that becomes a row; the second is one
\* that toRow rejects, or one that is no JSON.
MCKind == [m \in Messages |->
             IF m[2] # 1 THEN "row" ELSE IF m[1] = processed THEN "badrow" ELSE "malformed"]
=============================================================================
