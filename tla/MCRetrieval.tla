----------------------------- MODULE MCRetrieval -----------------------------
EXTENDS Retrieval

MCSemantic == {<<>>, <<[page |-> "x", chunk |-> 1], [page |-> "x", chunk |-> 2], [page |-> "y", chunk |-> 1]>>}
MCWeights == <<15, 12, 10, 9, 8, 7, 6, 5, 4>>
=============================================================================
