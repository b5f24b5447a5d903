-------------------------- MODULE MCTraceSections --------------------------
\* TraceSections on small instances, with model values for the phase keys.
EXTENDS TraceSections, TLC

CONSTANTS k1, k2
=============================================================================
