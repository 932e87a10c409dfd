---------------------------- MODULE MCProcessor ----------------------------
(* Values for the constants of Processor. *)
EXTENDS Processor, TLC

CONSTANTS p1, w1, w2

MCPartitions == {p1}
MCWorkers == {w1, w2}

\* One payment the processor accepts, then one it cannot decode.
MCKind == [m \in MCPartitions \X (0 .. 1) |->
             IF m[2] = 0 THEN "valid" ELSE "malformed"]

\* A payment it accepts, then one it can decode and refuses for good.
MCKindInvalid == [m \in MCPartitions \X (0 .. 1) |->
                    IF m[2] = 0 THEN "valid" ELSE "invalid"]

\* One it cannot decode, whose outcome is a dead letter, then one it accepts.
MCKindMalformedFirst == [m \in MCPartitions \X (0 .. 1) |->
                           IF m[2] = 0 THEN "malformed" ELSE "valid"]
=============================================================================
