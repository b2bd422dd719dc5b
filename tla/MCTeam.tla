------------------------------- MODULE MCTeam -------------------------------
EXTENDS Team

CONSTANTS a, b, c

MCAgents == {a, b, c}
=============================================================================
