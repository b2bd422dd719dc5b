------------------------------ MODULE MCAgentRun ----------------------------
EXTENDS AgentRun, TLC

CONSTANTS chat, job, agent

MCRuns == {chat, job}
MCOneRun == {job}
MCOneAgentOf == [r \in MCOneRun |-> agent]
MCAgents == {agent}
MCAgentOf == [r \in MCRuns |-> agent]
MCSymmetry == Permutations(MCRuns)
=============================================================================
