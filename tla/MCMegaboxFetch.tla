--------------------------- MODULE MCMegaboxFetch ---------------------------
\* The instance of MegaboxFetch that TLC checks.
EXTENDS MegaboxFetch, TLC

CONSTANT s1

\* A showtime at one o'clock after midnight.
MCStartHour == (s1 :> 25)
=============================================================================
