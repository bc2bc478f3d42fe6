\* Two python module calls on one session: the second is sent after the
\* first timed out, while the first still runs in the agent.
CONSTANTS
    N = 2
SPECIFICATION Spec
INVARIANT CallGetsOwnResult
