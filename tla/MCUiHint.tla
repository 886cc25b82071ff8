------------------------------ MODULE MCUiHint ------------------------------
EXTENDS UiHint
\* Two launches, so that one helper meets what the other one has raised; one
\* pid, which process after process may take.
CONSTANTS h1, h2, p1

MCLaunches == {h1, h2}
MCPids == {p1}
=============================================================================
