----------------------------- MODULE MCService -----------------------------
EXTENDS Service
=============================================================================
