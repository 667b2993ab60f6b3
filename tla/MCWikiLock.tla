----------------------------- MODULE MCWikiLock -----------------------------
\* Small instances of the wiki lock for TLC.
EXTENDS WikiLock, TLC
=============================================================================
