-------------------------- MODULE MCSandboxTrading --------------------------
EXTENDS SandboxTrading, TLC

MCSymmetry == Permutations(Workers) \cup Permutations(Bots)
=============================================================================
