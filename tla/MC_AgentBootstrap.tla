------------------------- MODULE MC_AgentBootstrap -------------------------
(* Model values for AgentBootstrap: three attempts against one machine.    *)
EXTENDS AgentBootstrap

CONSTANTS s1, s2, s3

MCSessions == {s1, s2, s3}
\* s3 is a become session with a become user (the legacy upload).
MCLegacy == {s3}
\* s3 also starts the agent through become.
MCBecome == {s3}
=============================================================================
