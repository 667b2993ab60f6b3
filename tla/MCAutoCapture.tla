---------------------------- MODULE MCAutoCapture ----------------------------
\* Two processes in the project of wiki w1.  The first captures settled tasks or
\* commits, and compactions, edits files and goes from one session to another; the
\* second only files what was captured.
EXTENDS AutoCapture

MCHome == [p \in Proc |-> "w1"]
MCCadences == [p1 |-> {"task", "commit"}, p2 |-> {"manual"}]
MCMessages == [p1 |-> 2, p2 |-> 0]
MCEdits == [p1 |-> 1, p2 |-> 0]
MCSessions == [p1 |-> 2, p2 |-> 1]
=============================================================================
