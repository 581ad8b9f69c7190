---------------------------- MODULE MCFrameFlow ----------------------------
EXTENDS FrameFlow, TLC

FlowSymmetry == Permutations(Conns) \cup Permutations(Displays)
=============================================================================
