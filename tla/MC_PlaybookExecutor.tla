------------------------ MODULE MC_PlaybookExecutor ------------------------
(* Instances of PlaybookExecutor for TLC: two hosts, become users as model *)
(* values, and small playbooks that exercise each branch of the executor. *)
EXTENDS Sequences, PlaybookExecutor

CONSTANTS h1, h2, u1, u2

MCHosts == {h1, h2}
MCUsers == {u1, u2}
MCMethods == {"sudo", "su"}

\* Task shapes.
Mk(kind, become, user, method, loop, facts) ==
    [kind |-> kind, become |-> become, user |-> user, method |-> method,
     loop |-> loop, facts |-> facts]
ModTask == Mk("module", FALSE, u1, "sudo", FALSE, FALSE)
BecomeModTask == Mk("module", TRUE, u1, "sudo", FALSE, FALSE)
BecomeLoopTask == Mk("module", TRUE, u1, "sudo", TRUE, FALSE)
PluginLoopTask == Mk("plugin", FALSE, u1, "sudo", TRUE, FALSE)
SuModTask == Mk("module", TRUE, u1, "su", FALSE, FALSE)
FactModTask == Mk("module", FALSE, u1, "sudo", FALSE, TRUE)
SetFactTask == Mk("plugin", FALSE, u1, "sudo", FALSE, TRUE)

AllHosts == {h1, h2}

\* Two "free" plays over the same become user: the second play must not
\* reuse the sessions the first one closed.
FreePlays ==
    << [hosts |-> AllHosts, strategy |-> "free", tasks |-> <<BecomeLoopTask, ModTask>>],
       [hosts |-> AllHosts, strategy |-> "free", tasks |-> <<BecomeModTask, PluginLoopTask>>] >>

\* A "linear" play of two tasks, a play with no tasks, and a play whose
\* module returns facts.
LinearPlays ==
    << [hosts |-> AllHosts, strategy |-> "linear", tasks |-> <<PluginLoopTask, BecomeModTask>>],
       [hosts |-> {h1}, strategy |-> "linear", tasks |-> << >>],
       [hosts |-> {h1}, strategy |-> "linear", tasks |-> <<FactModTask>>] >>

\* The free plays, then the linear ones.
ExecutorPlays == FreePlays \o LinearPlays

\* A become task by method "sudo", then one by "su" for the same user.
MixedBecomePlays ==
    << [hosts |-> {h1}, strategy |-> "linear", tasks |-> <<BecomeModTask, SuModTask>>] >>

\* A set_fact task.
SetFactPlays ==
    << [hosts |-> {h1}, strategy |-> "linear", tasks |-> <<SetFactTask>>] >>

AllFaults == FaultKinds
HostFaults == {"vars", "connect"}
NoFaults == {}
=============================================================================
