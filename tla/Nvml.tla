---------------------------------- MODULE Nvml ----------------------------------
(***************************************************************************)
(* The nvidia-nvml plugin.  At its start it asks every GPU for each of its *)
(* functions once, and remembers which ones are supported; its sources     *)
(* then call, at each poll, the functions that are.  The first function    *)
(* that fails ends the poll, and with a fatal error: the source ends and   *)
(* what its buffer holds is dropped with it.                               *)
(*                                                                         *)
(* A GPU is the answers that it gives: "ok", "no" (NotSupported),          *)
(* "nosymbol" (FailedToLoadSymbol: an older driver) or "error".            *)
(***************************************************************************)
EXTENDS Integers

CONSTANTS
    Gpus,         \* the devices found
    GpuAnswers,   \* the answers that a device may give: a set of functions on GpuCalls
    GpuEnergyMax  \* bound: energy counted by a device

VARIABLES
    nvml,         \* "start", "refused", or the mode: "full" or "minimal"
    replies,      \* what each device answers
    nvmlFeatures,     \* the functions found on each device: OptionalFeatures
    gpuSource,    \* "none", "polling", or "ended"
    gpuEnergy,    \* energy counter of each device, and the value last read
    gpuTold,      \* first value read since the last reset (history), and the energy told since:
                  \* in the buffer of the source, and sent
    gpuFault      \* history: devices of which a supported function has failed

nvmlVars == <<nvml, replies, nvmlFeatures, gpuSource, gpuEnergy, gpuTold, gpuFault>>

NoValue == -1

SimpleCalls == {"memory", "energy", "power", "temperature", "utilization", "decoder", "encoder", "stats", "clock"}
GpuCalls == SimpleCalls \union {"compute", "compute_v2", "graphics", "graphics_v2"}

NothingYet == [first |-> NoValue, buffered |-> 0, sent |-> 0]

NvmlInit ==
    /\ nvml = "start"
    /\ replies = [d \in Gpus |-> [c \in GpuCalls |-> "error"]]
    /\ nvmlFeatures = [d \in Gpus |-> {}]
    /\ gpuSource = [d \in Gpus |-> "none"]
    /\ gpuEnergy = [d \in Gpus |-> [now |-> 0, read |-> NoValue]]
    /\ gpuTold = [d \in Gpus |-> NothingYet]
    /\ gpuFault = {}

-------------------------------------------------------------------------------
(* Detection.                                                              *)

\* detect_biversion: the latest version of a function, or else the previous one.
Version(a, latest, v2) ==
    IF a[latest] = "ok" THEN latest
    ELSE IF a[latest] \in {"no", "nosymbol"} /\ a[v2] = "ok" THEN v2 ELSE "none"

CannotTell(a, latest, v2) ==
    \/ a[latest] = "error"
    \/ a[latest] \in {"no", "nosymbol"} /\ a[v2] = "error"

\* OptionalFeatures::detect_on fails: any answer but Ok and NotSupported is an error.
InspectionFails(a) ==
    \/ \E c \in SimpleCalls : a[c] \notin {"ok", "no"}
    \/ CannotTell(a, "compute", "compute_v2")
    \/ CannotTell(a, "graphics", "graphics_v2")

OptionalFeatures(a) ==
    {c \in SimpleCalls : a[c] = "ok"}
        \union ({Version(a, "compute", "compute_v2"), Version(a, "graphics", "graphics_v2")} \ {"none"})

\* has_any does not look at the statistics of processes.
Useful(a) == ~InspectionFails(a) /\ OptionalFeatures(a) \ {"stats"} # {}

\* NvmlPlugin::start, with a mode and a failure strategy.  In minimal mode, a working
\* device without power makes the start fail.
StartNvml(mode, skipFailed, given) ==
    LET working == {d \in Gpus : Useful(given[d])}
        refuses == \/ ~skipFailed /\ \E d \in Gpus : InspectionFails(given[d])
                   \/ working = {}
                   \/ mode = "minimal" /\ \E d \in working : given[d]["power"] # "ok"
    IN /\ nvml = "start"
       /\ nvml' = IF refuses THEN "refused" ELSE mode
       /\ replies' = given
       /\ gpuSource' = [d \in Gpus |-> IF d \in working /\ ~refuses THEN "polling" ELSE "none"]
       /\ nvmlFeatures' = [d \in Gpus |-> IF d \in working THEN OptionalFeatures(given[d]) ELSE {}]
       /\ UNCHANGED <<gpuEnergy, gpuTold, gpuFault>>

-------------------------------------------------------------------------------
(* Polls.                                                                  *)

\* "lists" stands for the calls that list the processes with the versions found.
Lists(f) == IF f \intersect (GpuCalls \ SimpleCalls) = {} THEN {} ELSE {"lists"}

\* Mutant of FullCalls: the processes are always counted with the latest version.
FullCallsLatest(f) == {"memory"} \union f \union Lists(f) \union {"compute", "graphics"}

\* FullSource::poll reads the memory first, whether it is supported or not.
FullCalls(f) == {"memory"} \union f \union Lists(f)

\* The functions that a poll calls; MinimalSource::poll calls one.  Which of them fails
\* first matters for the energy only (EnergyIsRead).
PollCalls(d) == IF nvml = "full" THEN FullCalls(nvmlFeatures[d]) ELSE {"power"}

\* A call answers now as it did during the detection, except the one that fails.
Fails(d, c, broken) == c = broken \/ (c \in GpuCalls /\ replies[d][c] # "ok")

\* The energy is read after the memory, before anything else.
EnergyIsRead(d, broken) ==
    nvml = "full" /\ "energy" \in nvmlFeatures[d] /\ ~Fails(d, "memory", broken) /\ broken # "energy"

\* The difference is pushed as soon as it is read, if there is a value before.
Pushed(d) ==
    LET t == gpuTold[d] IN
    IF gpuEnergy[d].read = NoValue THEN [t EXCEPT !.first = gpuEnergy[d].now]
    ELSE [t EXCEPT !.buffered = @ + (gpuEnergy[d].now - gpuEnergy[d].read)]

\* The task of the source: a fatal error drops the buffer, with what the polls before have
\* pushed; after another poll, the buffer is flushed on some rounds.
AfterGpuPoll(t, fatal, flush) ==
    IF fatal THEN [t EXCEPT !.buffered = 0]
    ELSE IF flush THEN [first |-> t.first, buffered |-> 0, sent |-> t.sent + t.buffered]
    ELSE t

\* Source::poll on one device: broken is the call that fails now, or "none".  The
\* errors of the library become fatal errors of the source.
PollGpu(d, broken, flush) ==
    LET reads == EnergyIsRead(d, broken)
        fatal == \E c \in PollCalls(d) : Fails(d, c, broken)
    IN /\ gpuSource[d] = "polling"
       /\ broken \in PollCalls(d) \union {"none"}
       /\ gpuEnergy' = IF reads THEN [gpuEnergy EXCEPT ![d].read = gpuEnergy[d].now] ELSE gpuEnergy
       /\ gpuTold' = [gpuTold EXCEPT
              ![d] = AfterGpuPoll(IF reads THEN Pushed(d) ELSE gpuTold[d], fatal, flush)]
       /\ gpuSource' = [gpuSource EXCEPT ![d] = IF fatal THEN "ended" ELSE @]
       /\ gpuFault' = gpuFault \union (IF broken \in nvmlFeatures[d] \union {"lists"} THEN {d} ELSE {})
       /\ UNCHANGED <<nvml, replies, nvmlFeatures>>

\* Mutant of AfterReset: the value read before the pause is kept.
AfterResetKept(d) == gpuEnergy[d].read

\* CounterDiff::reset.
AfterReset(d) == NoValue

\* The source is paused and resumed.
ResetGpu(d) ==
    /\ gpuSource[d] = "polling"
    /\ gpuEnergy' = [gpuEnergy EXCEPT ![d].read = AfterReset(d)]
    /\ gpuTold' = [gpuTold EXCEPT ![d] = NothingYet]
    /\ UNCHANGED <<nvml, replies, nvmlFeatures, gpuSource, gpuFault>>

GpuConsumes(d) ==
    /\ gpuSource[d] = "polling"
    /\ gpuEnergy[d].now < GpuEnergyMax
    /\ gpuEnergy' = [gpuEnergy EXCEPT ![d].now = @ + 1]
    /\ UNCHANGED <<nvml, replies, nvmlFeatures, gpuSource, gpuTold, gpuFault>>

NvmlNext ==
    \/ \E mode \in {"full", "minimal"}, skipFailed \in BOOLEAN, given \in [Gpus -> GpuAnswers] :
          StartNvml(mode, skipFailed, given)
    \/ \E d \in Gpus, broken \in GpuCalls \union {"lists", "none"}, flush \in BOOLEAN :
          PollGpu(d, broken, flush)
    \/ \E d \in Gpus : ResetGpu(d) \/ GpuConsumes(d)

NvmlSpec == NvmlInit /\ [][NvmlNext]_nvmlVars

-------------------------------------------------------------------------------
(* Properties.                                                             *)

Counted(first, read) == IF read = NoValue THEN 0 ELSE read - first

(* The energy told since the source started or was resumed, sent or in the  *)
(* buffer, is what the device counted between the first read and the last   *)
(* one.  Only a source that ends with an error loses energy: what its       *)
(* buffer held; what it has sent is never more than what was counted.       *)
GpuEnergyIsTold ==
    \A d \in Gpus :
        LET t == gpuTold[d]
            counted == Counted(t.first, gpuEnergy[d].read)
        IN IF gpuSource[d] = "ended" THEN t.buffered = 0 /\ t.sent =< counted
           ELSE t.sent + t.buffered = counted

\* The detection keeps, for the full mode, a device without memory information.
WithoutMemory(d) == nvml = "full" /\ replies[d]["memory"] # "ok"

(* A source ends because a function that the detection found does not work  *)
(* any more.  There is one exception: a poll of the full mode asks for the  *)
(* memory, found or not, before anything else (probe.rs:128), so that the   *)
(* source of a device without memory information ends at its first poll,    *)
(* and has read nothing.                                                    *)
OnlyFaultsEndGpus ==
    \A d \in Gpus :
        /\ gpuSource[d] = "ended" => d \in gpuFault \/ WithoutMemory(d)
        /\ WithoutMemory(d) => gpuEnergy[d].read = NoValue

===============================================================================
