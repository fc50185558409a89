---------------------------- MODULE RequestLimits ----------------------------
(***************************************************************************)
(* What a chunk request passes (takanawa-http downloader.rs, fetch_chunk   *)
(* and stream_body_to_writer): it takes a permit of the engine's limiter,  *)
(* keeps it while the body arrives, and throttles every fragment of the    *)
(* body.  So a task sleeps for bandwidth while it holds an I/O slot.       *)
(* Composes IoLimiter with the BandwidthLimiter of one run.                *)
(***************************************************************************)
EXTENDS IoLimiter, BandwidthLimiter

ASSUME SameTasksAssumption == Tasks = Users

limitsVars == <<vars, paceVars>>

LimitsInit == Init /\ PaceInit

\* Mutant: a request dropped in its sleep does not give its permit back.
GiveUpKeepsPermit(u) ==
    /\ GiveUp(u)
    /\ Move(u, "holding", "out")
    /\ UNCHANGED <<max, inflight, token, setting, acquires, sets>>

\* The request is dropped in its sleep, its permit with it: its task is aborted,
\* or the attempt exceeds its total timeout.
GiveUpRequest(u) == GiveUp(u) /\ DropPermit(u)

\* A fragment of the body arrives and is throttled.
Throttle(u) ==
    /\ at[u] = "holding"
    /\ Ask(u) \/ Reserve(u) \/ Wake(u)
    /\ UNCHANGED vars

\* fetch_chunk returns: the body ended, or failed, outside throttle.
EndRequest(u) == pace[u] = "out" /\ DropPermit(u) /\ UNCHANGED paceVars

\* The way to a permit, and from it.
Around(u) ==
    /\ \/ Take(u) \/ MakeNotified(u) \/ PollTakesToken(u) \/ PollRegisters(u)
       \/ Resume(u) \/ NotifyOne(u)
    /\ UNCHANGED paceVars

TimePasses == Tick /\ UNCHANGED vars

Begin(u) == Acquire(u) /\ UNCHANGED paceVars
Leave(u) == Abandon(u) /\ UNCHANGED paceVars
ChangeLimit == SetMax /\ UNCHANGED paceVars
WakeAll == NotifyWaiters /\ UNCHANGED paceVars

LimitsNext ==
    \/ \E u \in Users :
           \/ Begin(u) \/ Around(u) \/ Leave(u)
           \/ Throttle(u) \/ EndRequest(u) \/ GiveUpRequest(u)
    \/ ChangeLimit \/ WakeAll \/ TimePasses

LimitsSpec == LimitsInit /\ [][LimitsNext]_limitsVars

\* A polled task runs, time passes, and a body comes to an end.
LimitsFairSpec ==
    /\ LimitsSpec
    /\ \A u \in Users : WF_limitsVars(Around(u) \/ Throttle(u) \/ EndRequest(u))
    /\ WF_limitsVars(WakeAll)
    /\ WF_limitsVars(TimePasses)

-----------------------------------------------------------------------------
(* Properties                                                              *)

\* A slot is given back, and the next task served, also when its holder sleeps
\* for bandwidth; a task that asks for one gets it, or is aborted.
ServedThroughSleep == \A u \in Users : at[u] = "trying" ~> at[u] \in {"holding", "out"}
=============================================================================
