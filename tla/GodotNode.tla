------------------------------ MODULE GodotNode ------------------------------
(***************************************************************************)
(* The node of the Godot extension (takanawa-gdextension lib.rs).  The     *)
(* threads of a download push events into a bounded channel; the main      *)
(* thread drains it once per frame and emits signals, whose handlers run   *)
(* inside the emission and may call the node's methods.  Every configure   *)
(* makes a handle and a channel of its own; both, and the task of the      *)
(* handle, go with the next configure or close.                            *)
(*                                                                         *)
(* A configuration is a number, and with it its handle and its channel.    *)
(* Of an event is kept whose it is, and whether it ends the download.      *)
(* What a task does is in DownloadHandle, when it reports in Callbacks.    *)
(***************************************************************************)
EXTENDS Naturals, Sequences

CONSTANTS
    Capacity,   \* EVENT_CHANNEL_CAPACITY
    MaxConfigs, \* bound on the calls of configure
    MaxStarts,  \* bound on the accepted starts of a configuration
    MaxReports  \* bound on the events of a run besides its end

ASSUME CapacityAssumption == Capacity \in Nat \ {0, 1}
ASSUME GodotBoundsAssumption == {MaxConfigs, MaxStarts, MaxReports} \subseteq Nat

VARIABLES
    node,       \* the configuration of handle and receiver, 0 for None
    ready,      \* whether the node has been told ready, which a script may delay
    processing, \* set_process: whether its frames run, once it is ready
    configs,    \* configurations made so far
    signalled,  \* terminal_signal_emitted
    channel,    \* per configuration, what its channel holds, the oldest first
    phase,      \* of the node's task: "idle", "running" or "ended"
    starts,     \* accepted starts of the configuration so far
    reports,    \* events of the run so far, besides its end
    sending,    \* per configuration, the events its callbacks are about to send
    batch,      \* the events that drain_events has yet to emit
    drained,    \* the configuration whose channel was drained into batch
    frame,      \* "outside", "draining", or in emit_progress: "terminal"
    signals,    \* history: the configurations whose own end was signalled
    missed      \* history: the configurations whose end was dropped, or has been
                \* taken to be signalled by another's

taskOf == <<phase, starts, reports>>
draining == <<batch, drained, frame>>
scene == <<ready, processing>>
godotVars == <<node, scene, configs, signalled, channel, taskOf, sending, draining, signals, missed>>

Configs == 1 .. MaxConfigs
Event(c, ends) == [of |-> c, ends |-> ends]

GodotInit ==
    /\ node = 0 /\ configs = 0 /\ signalled = FALSE
    /\ ready = FALSE /\ processing = FALSE
    /\ channel = [c \in Configs |-> <<>>]
    /\ phase = "idle" /\ starts = 0 /\ reports = 0
    /\ sending = [c \in Configs |-> {}]
    /\ batch = <<>> /\ drained = 0 /\ frame = "outside"
    /\ signals = {} /\ missed = {}

-----------------------------------------------------------------------------
(* The methods, called by scripts, in a handler or outside of the frame    *)

\* close_task: handle and receiver are dropped.
CloseTask ==
    /\ signalled' = FALSE
    /\ phase' = "idle" /\ starts' = 0 /\ reports' = 0
    /\ UNCHANGED <<ready, sending, draining, signals, missed>>

\* Mutant: the new handle's events go the old channel's way.
ConfigureKeepsChannel ==
    /\ configs < MaxConfigs
    /\ configs' = configs + 1
    /\ node' = configs'
    /\ channel' = [channel EXCEPT ![configs'] = IF node = 0 THEN <<>> ELSE channel[node]]
    /\ processing' = TRUE
    /\ CloseTask

\* configure, with options it accepts.  Each callback is told the state as it is
\* installed.
Configure ==
    /\ configs < MaxConfigs
    /\ configs' = configs + 1
    /\ node' = configs'
    /\ channel' = [c \in Configs |-> IF c = configs'
                                   THEN <<Event(c, FALSE), Event(c, FALSE)>> ELSE <<>>]
    /\ processing' = TRUE
    /\ CloseTask

\* configure, with options it refuses.
Refuse ==
    /\ node' = 0
    /\ channel' = [c \in Configs |-> <<>>]
    /\ CloseTask
    /\ UNCHANGED <<processing, configs>>

CloseNode ==
    /\ node' = 0
    /\ processing' = FALSE
    /\ channel' = [c \in Configs |-> <<>>]
    /\ CloseTask
    /\ UNCHANGED configs

\* The node enters the scene: whatever was configured before, its frames stop.
Ready ==
    /\ ~ready
    /\ ready' = TRUE
    /\ processing' = FALSE
    /\ UNCHANGED <<node, configs, signalled, channel, taskOf, sending, draining, signals, missed>>

\* start, when the handle accepts it: also after the download has ended.
StartNode ==
    /\ node # 0
    /\ phase \in {"idle", "ended"}
    /\ starts < MaxStarts
    /\ phase' = "running"
    /\ starts' = starts + 1
    /\ reports' = 0
    /\ UNCHANGED <<node, scene, configs, signalled, channel, sending, draining, signals, missed>>

-----------------------------------------------------------------------------
(* The threads of a download                                               *)

Sends(event) == sending' = [sending EXCEPT ![node] = @ \cup {event}]

\* A phase that is not terminal, or a speed, is reported.  After the end it can
\* only be a speed.
Reports ==
    /\ node # 0 /\ phase # "idle"
    /\ reports < MaxReports
    /\ reports' = reports + 1
    /\ Sends(Event(node, FALSE))
    /\ UNCHANGED <<node, scene, configs, signalled, channel, phase, starts, draining, signals, missed>>

\* Completed, Cancelled or Failed is.
TaskEnds ==
    /\ node # 0 /\ phase = "running"
    /\ phase' = "ended"
    /\ Sends(Event(node, TRUE))
    /\ UNCHANGED <<node, scene, configs, signalled, channel, starts, reports, draining, signals, missed>>

\* The end may be reported once more, by a callback that was called for an earlier
\* change and took its snapshot late.
EndsAgain ==
    /\ node # 0 /\ phase = "ended"
    /\ reports < MaxReports
    /\ reports' = reports + 1
    /\ Sends(Event(node, TRUE))
    /\ UNCHANGED <<node, scene, configs, signalled, channel, phase, starts, draining, signals, missed>>

\* try_send: without a receiver, or when the channel is full, the event is dropped.
TrySend(c) ==
    \E event \in sending[c] :
        /\ sending' = [sending EXCEPT ![c] = @ \ {event}]
        /\ \/ /\ node = c /\ Len(channel[c]) < Capacity
              /\ channel' = [channel EXCEPT ![c] = Append(@, event)]
              /\ UNCHANGED missed
           \/ /\ node # c \/ Len(channel[c]) >= Capacity
              /\ missed' = IF event.ends THEN missed \cup {c} ELSE missed
              /\ UNCHANGED channel
        /\ UNCHANGED <<node, scene, configs, signalled, taskOf, draining, signals>>

-----------------------------------------------------------------------------
(* process: one frame                                                      *)

\* collect_pending_events: the channel is emptied.
Collect ==
    /\ frame = "outside"
    /\ ready /\ processing
    /\ node # 0 /\ channel[node] # <<>>
    /\ batch' = channel[node]
    /\ drained' = node
    /\ frame' = "draining"
    /\ channel' = [channel EXCEPT ![node] = <<>>]
    /\ UNCHANGED <<node, scene, configs, signalled, taskOf, sending, signals, missed>>

\* emit_speed, or the first half of emit_progress: the handlers of progress and
\* speed are the steps that come next.
EmitEvent ==
    /\ frame = "draining" /\ batch # <<>>
    /\ IF Head(batch).ends THEN frame' = "terminal" /\ UNCHANGED batch
                           ELSE batch' = Tail(batch) /\ UNCHANGED frame
    /\ UNCHANGED <<node, scene, configs, signalled, channel, taskOf, sending, drained, signals, missed>>

\* The node's own end is signalled, or that of the batch's task is for its own.
Signal ==
    IF drained = node THEN signals' = signals \cup {node} /\ UNCHANGED missed
                      ELSE missed' = missed \cup {node} /\ UNCHANGED signals

\* Mutant: the flag is set behind the emission, and its handlers.
EmitTerminalThenSet ==
    /\ \/ /\ frame = "terminal" /\ ~signalled
          /\ Signal
          /\ frame' = "flag"
          /\ UNCHANGED <<signalled, batch>>
       \/ /\ frame = "flag" \/ (frame = "terminal" /\ signalled)
          /\ signalled' = TRUE
          /\ batch' = Tail(batch)
          /\ frame' = "draining"
          /\ UNCHANGED <<signals, missed>>
    /\ UNCHANGED <<node, scene, configs, channel, taskOf, sending, drained>>

\* The second half: completed, cancelled or failed, unless the node has signalled
\* an end.  The flag is set before the emission, whose handlers come next.
EmitTerminal ==
    /\ frame = "terminal"
    /\ signalled' = TRUE
    /\ IF signalled THEN UNCHANGED <<signals, missed>> ELSE Signal
    /\ batch' = Tail(batch)
    /\ frame' = "draining"
    /\ UNCHANGED <<node, scene, configs, channel, taskOf, sending, drained>>

FrameEnds ==
    /\ frame = "draining" /\ batch = <<>>
    /\ frame' = "outside" /\ drained' = 0
    /\ UNCHANGED <<node, scene, configs, signalled, channel, taskOf, sending, batch, signals, missed>>

Frame == Collect \/ EmitEvent \/ EmitTerminal \/ FrameEnds

GodotNext ==
    \/ Configure \/ Refuse \/ CloseNode \/ Ready \/ StartNode
    \/ Reports \/ TaskEnds \/ EndsAgain
    \/ \E c \in Configs : TrySend(c)
    \/ Frame

GodotSpec == GodotInit /\ [][GodotNext]_godotVars

\* Frames go on and callbacks return; scripts and downloads do what they want.
GodotFairness ==
    /\ WF_godotVars(Frame)
    /\ \A c \in Configs : WF_godotVars(TrySend(c))

-----------------------------------------------------------------------------
(* Properties                                                              *)

\* A callback of a closed task may still be on its way when the node is configured
\* anew: what it sends never comes through.  A frame emits the events of one task,
\* and it was the node's when the frame began.
OldTasksSilent == \A i \in DOMAIN batch : batch[i].of = drained

\* The end of a task is signalled, by completed, failed or cancelled, as long as it
\* is the node's, unless the full channel dropped it, or a handler configured the
\* node before the frame was through and the end of the old task was signalled in
\* its place.  A node configured before it is ready has no frames.  Only the first end
\* of a configuration is spoken of: once c is among the signals nothing more is asked,
\* and a task that is started again after it failed or was cancelled ends unsignalled.
EndSignalled ==
    \A c \in Configs :
        (node = c /\ phase = "ended" /\ ready /\ processing)
            ~> (c \in signals \cup missed \/ node # c)

\* What makes the first inductive: only the node's channel holds anything, and what it
\* holds, or is about to be sent to any channel, is its own.
GodotInv ==
    /\ node \in 0 .. MaxConfigs /\ configs \in 0 .. MaxConfigs
    /\ channel \in [Configs -> Seq([of : Configs, ends : BOOLEAN])]
    /\ sending \in [Configs -> SUBSET [of : Configs, ends : BOOLEAN]]
    /\ batch \in Seq([of : Configs, ends : BOOLEAN])
    /\ frame \in {"outside", "draining", "terminal"}
    /\ frame = "terminal" => batch # <<>>
    /\ \A c \in Configs :
          /\ \A i \in DOMAIN channel[c] : channel[c][i].of = c
          /\ \A event \in sending[c] : event.of = c
          /\ c # node => channel[c] = <<>>
    /\ OldTasksSilent
=============================================================================
