----------------------------- MODULE AgentTurn -----------------------------
(***************************************************************************)
(* What the manager may rely on when it starts a run (runEngine): the      *)
(* order of the events one run emits, whichever runner produces them.      *)
(* Runner and SandRunner are shown to implement it.                        *)
(***************************************************************************)
CONSTANTS Calls,   \* ids of caller tool calls
          Hosted   \* ids of hosted web calls

VARIABLES handoff,    \* the turn ends with its tool calls (a history request)
          st,         \* "running", "done" or "failed": how the run returned
          open,       \* EventToolCall without EventToolResultAccepted so far
          told,       \* those of open that an EventTurnEnded covered
          searching   \* EventHostedSearchStarted without its completion

vars == <<handoff, st, open, told, searching>>

Init == /\ handoff \in BOOLEAN
        /\ st = "running"
        /\ open = {} /\ told = {} /\ searching = {}

Running == st = "running" /\ UNCHANGED handoff

\* A tool call, possibly with the turn boundary that hands it to the client.
Call(x) == /\ Running
           /\ open' = open \cup {x}
           /\ told' \in {told, open'}
           /\ UNCHANGED <<st, searching>>

\* A result reached the upstream; a resumed run has calls of an earlier one.
Accept(x) == /\ Running
             /\ open' = open \ {x}
             /\ told' = told \ {x}
             /\ UNCHANGED <<st, searching>>

Boundary == /\ Running
            /\ open # {}
            /\ told' = open
            /\ UNCHANGED <<st, open, searching>>

Search(h) == /\ Running
             /\ searching' \in {searching \cup {h}, searching \ {h}}
             /\ UNCHANGED <<st, open, told>>

\* A completed turn leaves no call unanswered and no search open.
Finish == /\ Running
          /\ open = {} /\ searching = {}
          /\ st' = "done"
          /\ UNCHANGED <<open, told, searching>>

\* A history request ends with the calls that the next request answers.
HandOff == /\ Running
           /\ handoff
           /\ \E x \in Calls : open' = open \cup {x}
           /\ told' \in {told, open'}
           /\ st' = "done"
           /\ UNCHANGED searching

\* A run may still fail after the boundary that ended its turn.
Fail == /\ Running
        /\ st' = "failed"
        /\ told' \in {told, open}
        /\ UNCHANGED <<open, searching>>

Next == \/ \E x \in Calls : Call(x) \/ Accept(x)
        \/ \E h \in Hosted : Search(h)
        \/ Boundary \/ Finish \/ HandOff \/ Fail

Spec == Init /\ [][Next]_vars
=============================================================================
