----------------------------- MODULE MCEmbedder -----------------------------
\* Small instances of the shared embedder for TLC.
EXTENDS Embedder, TLC

CONSTANTS d1, d2, c1, c2, k1, k2, k3, m1, m2

\* All sessions are configured alike; a daemon of another configuration may run.
SameModel == [c \in Client |-> m1]

\* Two calls of one session, one of the other.
Sessions == [k \in Caller |-> IF k = k3 THEN c2 ELSE c1]
=============================================================================
