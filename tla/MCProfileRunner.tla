-------------------------- MODULE MCProfileRunner --------------------------
(* ProfileRunner for TLC. *)
EXTENDS ProfileRunner

CONSTANTS a

AgentRequest == [profile |-> "agent", history |-> FALSE, resume |-> FALSE, results |-> TRUE,
                 maxParallel |-> 1, allow |-> {}, require |-> {}, maxUses |-> [k \in {"search", "fetch"} |-> 1],
                 catalog |-> Calls]
SandRequest == [AgentRequest EXCEPT !.profile = "sand", !.maxParallel = 0, !.allow = {"search"}]

\* Serial turns, fresh and resumed; a history request; parallel calls; hosted
\* tools, of which one is required, without a result channel.  For Sand a
\* history request, and turns with one call, fresh and resumed.
MCRequests ==
    {AgentRequest,
     [AgentRequest EXCEPT !.resume = TRUE],
     [AgentRequest EXCEPT !.history = TRUE, !.allow = {"search"}],
     [AgentRequest EXCEPT !.maxParallel = 0],
     [AgentRequest EXCEPT !.results = FALSE, !.allow = {"search", "fetch"}, !.require = {"search"},
                           !.maxUses["fetch"] = 0],
     [SandRequest EXCEPT !.history = TRUE, !.allow = {"search", "fetch"}, !.require = {"any"},
                          !.maxUses["fetch"] = 3],
     [SandRequest EXCEPT !.catalog = {a}],
     [SandRequest EXCEPT !.catalog = {a}, !.resume = TRUE],
     [AgentRequest EXCEPT !.profile = "invalid"]}

\* Sand with two calls in one turn.
ParallelSand == {SandRequest}

\* One serial Agent v1 turn.
SerialAgent == {AgentRequest}
=============================================================================
