--------------------------- MODULE MCEmailOutbox ---------------------------
EXTENDS EmailOutbox, TLC

\* 1, 5, 15 and 60 minutes, shortened.
MCBackoff == <<1, 2>>

=============================================================================
