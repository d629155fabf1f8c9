--------------------------- MODULE ProfileRunner ---------------------------
(***************************************************************************)
(* profileRunner (cursoragentv1/profile_runner.go): the run engine of the  *)
(* manager, which hands a request to the runner of its profile.            *)
(***************************************************************************)
EXTENDS Runner

CONSTANTS MaxSteps, MaxUses   \* see SandRunner

ASSUME ProfileAssumption == MaxSteps \in Nat /\ MaxUses \in Nat

VARIABLE seg

agentVars == <<toolVars, heardVars, hosted, blobVars>>
profileVars == <<vars, seg>>

Sand == INSTANCE SandRunner

\* InitialBlobs are Agent v1's; the other profile clears them.
ProfileInit == /\ Fresh
               /\ req.profile # "agent" => \A b \in Blobs : blobs[b] = 0
               /\ IF req.profile = "sand" THEN Sand!Init ELSE seg = Sand!FirstSegment

Agent(A) == req.profile = "agent" /\ A /\ UNCHANGED seg

\* A profile that is neither.
Invalid == /\ req.profile = "invalid"
           /\ st = "opening"
           /\ Fail("other")
           /\ UNCHANGED <<frames, seg>>

ProfileNext == \/ Agent(Next)
               \/ req.profile = "sand" /\ Sand!Next /\ UNCHANGED agentVars
               \/ Invalid

ProfileSpec == ProfileInit /\ [][ProfileNext]_profileVars

\* The run goroutine is scheduled: it opens the stream, its timer fires and it
\* reads the results it was sent.  Nothing is assumed of the upstream.
FairSpec ==
    /\ ProfileSpec
    /\ WF_profileVars(Agent(Open))
    /\ WF_profileVars(Agent(IdleTimeout))
    /\ \A x \in Calls : WF_profileVars(Agent(TakeResult(x)))

(***************************************************************************)
(* Properties.                                                             *)
(***************************************************************************)
\* A silent upstream does not hold an Agent v1 run: it ends, or waits for a
\* result that the client has not delivered (runner.go:305-310).
SilentRunEnds ==
    (req.profile = "agent" /\ st = "opening")
        ~> [](st # "running" \/ pendingTools \ results # {})

\* A kind of hosted tool is used no more often than the request allows, and in
\* a Sand run no more often than the gateway does: the trackers of both
\* runners count across frames and across segments, each kind for itself.
UsesLimited == \A k \in {"search", "fetch"} :
                  /\ Cardinality(hosted[k]) <= req.maxUses[k]
                  /\ seg[k] <= Sand!Least(MaxUses, req.maxUses[k])

\* Type invariant of a run of either profile: the locals of Runner.Run and of
\* InferenceRunner.Run with their counters within their limits; what Agent v1
\* keeps as pending are the calls the manager has been told of.
ProfileTypeOK == /\ TypeOK
                 /\ Sand!SegmentOK
                 /\ UsesLimited
                 /\ req.profile = "agent" /\ st # "done" => open = pendingTools

\* See SandRunner: a call handed to the client is in the checkpoint.
ToldCallsRecoverable == req.profile = "sand" => Sand!ToldCallsRecoverable
=============================================================================
