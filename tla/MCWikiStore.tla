---------------------------- MODULE MCWikiStore ----------------------------
\* Small instances of the shared files for TLC.
EXTENDS WikiStore, TLC

\* Every property speaks of the time before a caller's lock is deleted under it.
UntilFirstEviction == ~lost
=============================================================================
