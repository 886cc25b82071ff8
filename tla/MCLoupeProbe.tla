---------------------------- MODULE MCLoupeProbe ----------------------------
EXTENDS LoupeProbe
\* Four checks: answers removed, one on its way, and checks to come.
=============================================================================
