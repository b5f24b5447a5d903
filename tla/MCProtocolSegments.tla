------------------------- MODULE MCProtocolSegments -------------------------
\* Model checking of ProtocolSegments: parallel calls are interchangeable.
EXTENDS ProtocolSegments, TLC

Symmetry == Permutations(Calls)
=============================================================================
