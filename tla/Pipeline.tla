------------------------------- MODULE Pipeline -------------------------------
(***************************************************************************)
(* The measurement pipeline: sources, the thread of the transforms, outputs*)
(* and the control loop that starts, watches and stops them.  The inside   *)
(* of a source and of an output is in SourceTask and OutputTask: here a    *)
(* source behaves as a BufferedProducer, and a command is obeyed at once.  *)
(* A message (MeasurementBuffer) is its rank in the channel.               *)
(***************************************************************************)
EXTENDS Naturals, FiniteSets

CONSTANTS
    Sources,        \* measurement sources
    LateSources,    \* those that are created while the pipeline runs
    Outputs,        \* outputs
    LateOutputs,    \* those that are created while the pipeline runs
    Simplified,     \* one output and no transform: sources -> output
    InCapacity,     \* capacity of the channel that the sources write to
    OutCapacity,    \* capacity of the broadcast channel transforms -> outputs
    MaxMade,        \* bound: measurements made by each source
    MaxFaults,      \* bound: fatal errors of the elements
    MaxCommands     \* bound: control requests: commands to the outputs, failures

ASSUME PipelineAssumption ==
    /\ LateSources \subseteq Sources
    /\ LateOutputs \subseteq Outputs
    /\ Sources \intersect Outputs = {}
    /\ "transforms" \notin Sources \union Outputs
    /\ Simplified \in BOOLEAN
    /\ Simplified => Cardinality(Outputs) = 1 /\ LateOutputs = {}
    /\ InCapacity \in Nat \ {0} /\ OutCapacity \in Nat \ {0}
    /\ MaxMade \in Nat /\ MaxFaults \in Nat /\ MaxCommands \in Nat

VARIABLES
    token, ctl,            \* shutdown token, control loop
    joined, lastError,     \* tasks joined by the control loop, its last_error
    src, made, flushed,    \* sources: phase, measurements made and flushed
    insent, inrecv,        \* channel of the sources: messages sent, received
    tr,                    \* the transform thread
    outsent,               \* messages sent by the transforms
    out, mode,             \* outputs: phase, and whether they receive
    next, start,           \* outputs: cursor, and first message they could see
    written, missed,       \* outputs: messages written; lost to a lag or a discard
    faults, cmds

control == <<token, ctl, joined, lastError>>
sources == <<src, made, flushed, insent>>
thread  == <<inrecv, tr, outsent>>
outs    == <<out, mode, next, start, written, missed>>
bounds  == <<faults, cmds>>
vars    == <<control, sources, thread, outs, bounds>>

Thread == "transforms"
Elements == Sources \union Outputs \union {Thread}

SourceEnded == {"ended", "failed", "panicked"}
OutputEnded == {"ended", "failed", "stopped"}
ThreadEnded == {"none", "ended", "failed"}

\* The channel that the outputs read.
Sent == IF Simplified THEN insent ELSE outsent

\* No receiver is ahead of its channel, whatever it lags behind or discards.
TypeOK ==
    /\ token \in BOOLEAN
    /\ ctl \in {"loop", "sources", "transforms", "outputs", "done"}
    /\ joined \subseteq Elements
    /\ lastError \in BOOLEAN
    /\ src \in [Sources -> {"absent", "run", "stopping"} \union SourceEnded]
    /\ made \in [Sources -> 0..MaxMade]
    /\ flushed \in [Sources -> 0..MaxMade]
    /\ insent \in Nat
    /\ inrecv \in 0..insent
    /\ tr \in {"receive", "apply"} \union ThreadEnded
    /\ outsent \in 0..inrecv
    /\ out \in [Outputs -> {"absent", "run", "finish"} \union OutputEnded]
    /\ mode \in [Outputs -> {"run", "pause"}]
    /\ next \in [Outputs -> 1..(Sent + 1)]
    /\ start \in [Outputs -> 1..(Sent + 1)]
    /\ written \in [Outputs -> SUBSET (1..Sent)]
    /\ missed \in [Outputs -> SUBSET (1..Sent)]
    /\ faults \in 0..MaxFaults /\ cmds \in 0..MaxCommands

\* Builder::build: the simplified pipeline has no transform task.
Init ==
    /\ token = FALSE /\ ctl = "loop" /\ joined = {} /\ lastError = FALSE
    /\ src = [s \in Sources |-> IF s \in LateSources THEN "absent" ELSE "run"]
    /\ made = [s \in Sources |-> 0] /\ flushed = [s \in Sources |-> 0]
    /\ insent = 0 /\ inrecv = 0
    /\ tr = IF Simplified THEN "none" ELSE "receive"
    /\ outsent = 0
    /\ out = [o \in Outputs |-> IF o \in LateOutputs THEN "absent" ELSE "run"]
    /\ mode = [o \in Outputs |-> "run"]
    /\ next = [o \in Outputs |-> 1] /\ start = [o \in Outputs |-> 1]
    /\ written = [o \in Outputs |-> {}] /\ missed = [o \in Outputs |-> {}]
    /\ faults = 0 /\ cmds = 0

-------------------------------------------------------------------------------
(* Channels.                                                               *)

Alive(o) == out[o] \in {"run", "finish"}

\* The receiver of the sources' channel is dropped with the task that holds it.
InDropped ==
    IF Simplified THEN \A o \in Outputs : ~Alive(o) ELSE tr \in {"ended", "failed"}

TheOutput == CHOOSE o \in Outputs : TRUE

Received == IF Simplified THEN next[TheOutput] - 1 ELSE inrecv

\* All senders of the sources' channel are dropped: those of the sources, and the
\* one of SourceControl, at the end of its shutdown.
InClosed ==
    /\ ctl \in {"transforms", "outputs", "done"}
    /\ \A s \in Sources : src[s] \in SourceEnded \union {"absent"}

\* The oldest message that the outputs' channel still holds.
Oldest == IF ~Simplified /\ outsent > OutCapacity THEN outsent - OutCapacity + 1 ELSE 1

\* Mutant of OutClosed: the ReceiverProvider keeps no sender.
OutClosedWithThread == IF Simplified THEN InClosed ELSE tr \in ThreadEnded

\* The ReceiverProvider's own sender is dropped by OutputControl::shutdown.
OutClosed == IF Simplified THEN InClosed ELSE tr \in ThreadEnded /\ ctl \in {"outputs", "done"}

-------------------------------------------------------------------------------
(* Sources.                                                                *)

Measure(s) ==
    /\ src[s] \in {"run", "stopping"}
    /\ made[s] < MaxMade
    /\ made' = [made EXCEPT ![s] = @ + 1]
    /\ UNCHANGED <<control, src, flushed, insent, thread, outs, bounds>>

\* A full channel makes the source wait, whatever command it has received.
Flush(s) ==
    /\ src[s] \in {"run", "stopping"}
    /\ flushed[s] < made[s]
    /\ ~InDropped
    /\ insent - Received < InCapacity
    /\ insent' = insent + 1
    /\ flushed' = [flushed EXCEPT ![s] = made[s]]
    /\ UNCHANGED <<control, src, made, thread, outs, bounds>>

\* "source channel should stay open"
SourcePanics(s) ==
    /\ src[s] \in {"run", "stopping"}
    /\ flushed[s] < made[s]
    /\ InDropped
    /\ src' = [src EXCEPT ![s] = "panicked"]
    /\ UNCHANGED <<control, made, flushed, insent, thread, outs, bounds>>

\* Mutant of SourceEnds: the last buffer is not flushed.
SourceEndsUnflushed(s) ==
    /\ src[s] \in {"run", "stopping"}
    /\ src' = [src EXCEPT ![s] = "ended"]
    /\ UNCHANGED <<control, made, flushed, insent, thread, outs, bounds>>

\* A source ends because it was told to, or by itself (PollError::NormalStop); its last
\* buffer is flushed first.
SourceEnds(s) ==
    /\ src[s] \in {"run", "stopping"}
    /\ flushed[s] = made[s]
    /\ src' = [src EXCEPT ![s] = "ended"]
    /\ UNCHANGED <<control, made, flushed, insent, thread, outs, bounds>>

SourceFails(s) ==
    /\ src[s] \in {"run", "stopping"}
    /\ faults < MaxFaults
    /\ faults' = faults + 1
    /\ src' = [src EXCEPT ![s] = "failed"]
    /\ UNCHANGED <<control, made, flushed, insent, thread, outs, cmds>>

-------------------------------------------------------------------------------
(* The transform thread: run_all_in_order.                                 *)

TransformReceives ==
    /\ tr = "receive"
    /\ inrecv < insent
    /\ inrecv' = inrecv + 1
    /\ tr' = "apply"
    /\ UNCHANGED <<control, sources, outsent, outs, bounds>>

\* Mutant of TransformSends: waits for a slot, as the bounded channel does.
TransformWaitsToSend ==
    /\ tr = "apply"
    /\ \A o \in Outputs : Alive(o) => outsent + 1 - next[o] < OutCapacity
    /\ tr' = "receive" /\ outsent' = outsent + 1
    /\ UNCHANGED <<control, sources, inrecv, outs, bounds>>

\* Every enabled transform has been applied; the send fails if no output is left.
TransformSends ==
    /\ tr = "apply"
    /\ IF \E o \in Outputs : Alive(o)
       THEN tr' = "receive" /\ outsent' = outsent + 1
       ELSE tr' = "failed" /\ UNCHANGED outsent
    /\ UNCHANGED <<control, sources, inrecv, outs, bounds>>

\* TransformError::Fatal, when applied or when finished; or a panic.
TransformFails ==
    /\ tr = "apply" \/ (tr = "receive" /\ InClosed /\ inrecv = insent)
    /\ faults < MaxFaults
    /\ faults' = faults + 1
    /\ tr' = "failed"
    /\ UNCHANGED <<control, sources, inrecv, outsent, outs, cmds>>

TransformEnds ==
    /\ tr = "receive"
    /\ InClosed /\ inrecv = insent
    /\ tr' = "ended"
    /\ UNCHANGED <<control, sources, inrecv, outsent, outs, bounds>>

ThreadStep == TransformReceives \/ TransformSends \/ TransformEnds

-------------------------------------------------------------------------------
(* Outputs.                                                                *)

Receiving(o) == out[o] = "finish" \/ (out[o] = "run" /\ mode[o] = "run")

OutputWrites(o) ==
    /\ Receiving(o)
    /\ next[o] <= Sent /\ next[o] >= Oldest
    /\ written' = [written EXCEPT ![o] = @ \union {next[o]}]
    /\ next' = [next EXCEPT ![o] = @ + 1]
    /\ UNCHANGED <<control, sources, thread, out, mode, start, missed, bounds>>

OutputLags(o) ==
    /\ Receiving(o)
    /\ next[o] < Oldest
    /\ missed' = [missed EXCEPT ![o] = @ \union next[o]..(Oldest - 1)]
    /\ next' = [next EXCEPT ![o] = Oldest]
    /\ UNCHANGED <<control, sources, thread, out, mode, start, written, bounds>>

OutputEnds(o) ==
    /\ Receiving(o)
    /\ OutClosed
    /\ next[o] > Sent
    /\ out' = [out EXCEPT ![o] = "ended"]
    /\ UNCHANGED <<control, sources, thread, mode, next, start, written, missed, bounds>>

\* A fatal write error: the receiver is dropped.
OutputFails(o) ==
    /\ Receiving(o)
    /\ next[o] <= Sent
    /\ faults < MaxFaults
    /\ faults' = faults + 1
    /\ out' = [out EXCEPT ![o] = "failed"]
    /\ UNCHANGED <<control, sources, thread, mode, next, start, written, missed, cmds>>

OutputStep(o) == OutputWrites(o) \/ OutputLags(o) \/ OutputEnds(o)

-------------------------------------------------------------------------------
(* The control loop: PipelineControl::run.                                 *)

CreateSource(s) ==
    /\ ctl = "loop"
    /\ src[s] = "absent"
    /\ src' = [src EXCEPT ![s] = "run"]
    /\ UNCHANGED <<control, made, flushed, insent, thread, outs, bounds>>

\* A new output subscribes to the broadcast channel: it sees the messages to come.
CreateOutput(o) ==
    /\ ctl = "loop"
    /\ out[o] = "absent"
    /\ out' = [out EXCEPT ![o] = "run"]
    /\ next' = [next EXCEPT ![o] = Sent + 1]
    /\ start' = [start EXCEPT ![o] = Sent + 1]
    /\ UNCHANGED <<control, sources, thread, mode, written, missed, bounds>>

\* Enable, enable with discard, disable, or stop one output.  An output that is
\* finishing does not look at its commands any more.
SetOutput(o, s) ==
    /\ ctl = "loop"
    /\ out[o] = "run"
    /\ cmds < MaxCommands
    /\ cmds' = cmds + 1
    /\ mode' = [mode EXCEPT ![o] = CASE s \in {"Run", "RunDiscard"} -> "run"
                                     [] s = "Pause" -> "pause"
                                     [] OTHER -> @]
    /\ out' = [out EXCEPT ![o] = CASE s = "StopFinish" -> "finish"
                                   [] s = "StopNow" -> "stopped"
                                   [] OTHER -> @]
    /\ IF s = "RunDiscard"
       THEN /\ missed' = [missed EXCEPT ![o] = @ \union next[o]..Sent]
            /\ next' = [next EXCEPT ![o] = Sent + 1]
       ELSE UNCHANGED <<missed, next>>
    /\ UNCHANGED <<control, sources, thread, start, written, faults>>

Failed(e) ==
    \/ e \in Sources /\ src[e] \in {"failed", "panicked"}
    \/ e \in Outputs /\ out[e] = "failed"
    \/ e = Thread /\ tr = "failed"

Finished(e) ==
    \/ e \in Sources /\ src[e] \in SourceEnded
    \/ e \in Outputs /\ out[e] \in OutputEnded
    \/ e = Thread /\ tr \in {"ended", "failed"}

\* The loop joins any task; each step of the shutdown, those of one kind.
Watched(e) ==
    \/ ctl = "loop"
    \/ ctl = "sources" /\ e \in Sources
    \/ ctl = "transforms" /\ e = Thread
    \/ ctl = "outputs" /\ e \in Outputs

\* Mutant of Join: the last result replaces the error of an earlier one.
JoinForgets(e) ==
    /\ Watched(e)
    /\ e \notin joined
    /\ Finished(e)
    /\ joined' = joined \union {e}
    /\ lastError' = Failed(e)
    /\ UNCHANGED <<token, ctl, sources, thread, outs, bounds>>

\* task_finished
Join(e) ==
    /\ Watched(e)
    /\ e \notin joined
    /\ Finished(e)
    /\ joined' = joined \union {e}
    /\ lastError' = (lastError \/ Failed(e))
    /\ UNCHANGED <<token, ctl, sources, thread, outs, bounds>>

\* A request that cannot be handled, or whose requester does not wait for the
\* response, makes an error too.
RequestFails ==
    /\ ctl = "loop"
    /\ cmds < MaxCommands
    /\ cmds' = cmds + 1
    /\ lastError' = TRUE
    /\ UNCHANGED <<token, ctl, joined, sources, thread, outs, faults>>

\* AnonymousControlHandle::shutdown, or Ctrl+C.
Cancel ==
    /\ ~token
    /\ token' = TRUE
    /\ UNCHANGED <<ctl, joined, lastError, sources, thread, outs, bounds>>

\* SourceControl::shutdown sends Stop to every source...
StopSources ==
    /\ ctl = "loop" /\ token
    /\ ctl' = "sources"
    /\ src' = [s \in Sources |-> IF src[s] = "run" THEN "stopping" ELSE src[s]]
    /\ UNCHANGED <<token, joined, lastError, made, flushed, insent, thread, outs, bounds>>

\* ... waits for all of them and drops its sender.
SourcesStopped ==
    /\ ctl = "sources"
    /\ \A s \in Sources : src[s] = "absent" \/ s \in joined
    /\ ctl' = "transforms"
    /\ UNCHANGED <<token, joined, lastError, sources, thread, outs, bounds>>

\* Mutant of StopOutputs: the outputs are only left to see the channel close.
StopOutputsSilently ==
    /\ ctl = "transforms"
    /\ tr = "none" \/ Thread \in joined
    /\ ctl' = "outputs"
    /\ UNCHANGED <<token, joined, lastError, sources, thread, outs, bounds>>

\* After the transforms, StopFinish to every output, then the channel is closed.
StopOutputs ==
    /\ ctl = "transforms"
    /\ tr = "none" \/ Thread \in joined
    /\ ctl' = "outputs"
    /\ out' = [o \in Outputs |-> IF out[o] = "run" THEN "finish" ELSE out[o]]
    /\ UNCHANGED <<token, joined, lastError, sources, thread, mode, next, start,
                   written, missed, bounds>>

OutputsStopped ==
    /\ ctl = "outputs"
    /\ \A o \in Outputs : out[o] = "absent" \/ o \in joined
    /\ ctl' = "done"
    /\ UNCHANGED <<token, joined, lastError, sources, thread, outs, bounds>>

ShutdownStep == StopSources \/ SourcesStopped \/ StopOutputs \/ OutputsStopped

OutputCommands == {"Run", "RunDiscard", "Pause", "StopFinish", "StopNow"}

Next ==
    \/ \E s \in Sources :
          \/ Measure(s) \/ Flush(s) \/ SourcePanics(s) \/ SourceEnds(s) \/ SourceFails(s)
          \/ CreateSource(s)
    \/ ThreadStep \/ TransformFails
    \/ \E o \in Outputs :
          \/ OutputStep(o) \/ OutputFails(o)
          \/ CreateOutput(o)
          \/ \E c \in OutputCommands : SetOutput(o, c)
    \/ \E e \in Elements : Join(e)
    \/ RequestFails \/ Cancel \/ ShutdownStep

Spec == Init /\ [][Next]_vars

\* The executor runs the sources, and the channel, whose waiting senders are
\* queued, gives every one of them a slot in turn.  A source need not measure, nor end
\* before it is told to.
SourceFairness ==
    \A s \in Sources :
        SF_vars(Flush(s)) /\ WF_vars(SourcePanics(s)) /\ WF_vars(src[s] = "stopping" /\ SourceEnds(s))

\* The outputs may be as slow as they like, and never end.
IsolatedSpec == Spec /\ SourceFairness /\ WF_vars(ThreadStep)

FairSpec ==
    /\ IsolatedSpec
    /\ \A o \in Outputs : WF_vars(OutputStep(o))
    /\ \A e \in Elements : WF_vars(Join(e))
    /\ WF_vars(ShutdownStep)

-------------------------------------------------------------------------------
(* Properties.                                                             *)

\* End to end: if no element failed, then at the end of the shutdown each output
\* that was not stopped at once has written everything the sources have measured
\* since it was created, except for what it lagged behind or discarded.
EndToEnd ==
    (ctl = "done" /\ \A e \in Elements : ~Failed(e)) =>
        /\ \A s \in Sources : flushed[s] = made[s]
        /\ Sent = insent
        /\ \A o \in Outputs : out[o] = "ended" => start[o]..insent = written[o] \union missed[o]

\* An error of any element, at any moment, before or during the shutdown, is not
\* forgotten: the pipeline ends with an error.
ErrorsReported ==
    (ctl = "done" /\ \E e \in Elements : Failed(e)) => lastError

\* The transforms finish after the sources, with nothing left in either channel:
\* what a transform's finish() sees is all there will ever be.
TransformsEndLast ==
    tr = "ended" =>
        /\ \A s \in Sources : src[s] \in SourceEnded \union {"absent"}
        /\ inrecv = insent /\ outsent = insent

\* The phases of Delivery.
PhaseOf(e) ==
    IF e \in Sources
    THEN CASE src[e] \in {"run", "stopping"} -> "active"
           [] src[e] \in {"failed", "panicked"} -> "broken"
           [] OTHER -> src[e]
    ELSE CASE out[e] \in {"run", "finish"} -> "active"
           [] out[e] = "failed" -> "broken"
           [] OTHER -> out[e]

Phases == [e \in Sources \union Outputs |-> PhaseOf(e)]
Pending == [s \in Sources |-> made[s] - flushed[s]]
Broken == \E e \in Elements : Failed(e)
Status == IF ctl # "done" THEN "open" ELSE IF lastError THEN "error" ELSE "ok"

\* The abstract pipeline has a single channel: the position of an output in its own channel is
\* its position in the channel of the sources, which the transforms follow in order.
Promise == INSTANCE Delivery WITH
    phase <- Phases, pending <- Pending, accepted <- insent, position <- next,
    broken <- Broken, status <- Status

\* The two channels, the transform thread and the shutdown in four steps keep the promise: an
\* output ends by itself only after every source, with every buffer, unless an element has
\* failed; and when the pipeline has closed nothing moves, and no failure is hidden.
KeepsPromise == Promise!Spec

\* Outputs are isolated: however slow, paused or blocked they are, every flush of
\* a source gets through, unless the receiver of its channel is gone.
SourcesNeverBlocked ==
    \A s \in Sources :
        (flushed[s] < made[s]) ~> (flushed[s] = made[s] \/ src[s] \in SourceEnded)

\* The shutdown completes, whatever failed before it and whatever is paused.
ShutdownCompletes == token ~> ctl = "done"
===============================================================================
