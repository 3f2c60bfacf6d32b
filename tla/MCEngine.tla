------------------------------ MODULE MCEngine ------------------------------
(* Instances of Engine for TLC. *)
EXTENDS Engine, TLC

CONSTANTS a, b

MCSymbols == {a, b}
MCEntryDays == {1, 3, 5}

\* a is split in two on the fourth day, two shares of b become one on the fifth.
MCSplit == [s \in Symbols |->
              IF s = a THEN [day |-> 4, times |-> 2, by |-> 1]
                       ELSE [day |-> 5, times |-> 1, by |-> 2]]
=============================================================================
