------------------------------ MODULE MCWikiToc ------------------------------
\* Small instances of the table of contents for TLC.
EXTENDS WikiToc, TLC
=============================================================================
