-------------------------- MODULE MCTfstateSource --------------------------
(* A long content, two short ones, and one that is no JSON.                *)
EXTENDS TfstateSource

CONSTANTS long, short, other, broken
MCContents == {long, short, other, broken}
MCMalformed == {broken}
MCSize == [c \in MCContents |-> IF c = long THEN 2 ELSE 1]
=============================================================================
