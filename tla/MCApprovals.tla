---------------------------- MODULE MCApprovals -----------------------------
EXTENDS Approvals, TLC

CONSTANTS g1, g2, u1, n1, dash, cli

MCCalls == {g1, g2, u1, n1}
MCGated == {g1, g2, n1}
MCPermitted == {g1, g2, u1}
MCTwoCalls == {g1, g2}
MCDeciders == {dash, cli}
MCExternal == {cli}
=============================================================================
