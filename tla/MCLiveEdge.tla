----------------------------- MODULE MCLiveEdge -----------------------------
EXTENDS LiveEdge
=============================================================================
