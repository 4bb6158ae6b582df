----------------------------- MODULE MCCapture -----------------------------
EXTENDS Capture, TLC

Everything == { "stream", "withhold", "truncate", "reshape inside" }
Symmetric  == Permutations(Tables)
=============================================================================
