----------------------------- MODULE MCMiniMac -----------------------------
EXTENDS MiniMac
=============================================================================
