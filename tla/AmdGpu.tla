--------------------------------- MODULE AmdGpu ---------------------------------
(***************************************************************************)
(* The amd-gpu plugin: one source polls all the devices found at the       *)
(* start, in the order of their identifiers.  An error of a function is    *)
(* ignored, but for one: if a device cannot tell whether its power is      *)
(* managed, the poll ends there and the source with it, and what its       *)
(* buffer holds is dropped.                                                *)
(*                                                                         *)
(* The statuses of the library are those that the detection tells apart:   *)
(* "ok", "no" (any of the statuses meaning unsupported) and "error".       *)
(***************************************************************************)
EXTENDS Integers, Sequences, FiniteSets, SequencesExt, FiniteSetsExt

CONSTANTS
    Processors,    \* the processor handles, in the order of the sockets
    AmdIds,        \* identifiers of devices: numbers, in their order
    AmdAnswers,    \* the answers of a processor: functions on AmdCalls
    AmdEnergyMax   \* bound: energy counted by a device

VARIABLES
    amd,          \* "start", "refused", "polling" or "ended"
    amdDevices,   \* the devices found: identifier -> the functions supported
    amdCounters,  \* energy_counters: the last value read of each device, or none
    amdEnergy,    \* the energy counter of each device
    amdTold       \* the first value read of each device (history), and the energy told: in the
                  \* buffer of the source, and sent

amdVars == <<amd, amdDevices, amdCounters, amdEnergy, amdTold>>

AmdCalls == {"memory", "temperature", "activity", "asic", "energy", "power", "management", "process", "voltage"}
Unseen == -1
NoDevices == [i \in {} |-> {}]

AmdInit ==
    /\ amd = "start"
    /\ amdDevices = NoDevices
    /\ amdCounters = [i \in AmdIds |-> Unseen]
    /\ amdEnergy = [i \in AmdIds |-> 0]
    /\ amdTold = [i \in AmdIds |-> [first |-> Unseen, buffered |-> 0, sent |-> 0]]

Supported(a) == {c \in AmdCalls : a[c] = "ok"}
CannotInspect(a) == \E c \in AmdCalls : a[c] = "error"

\* AmdGpuPlugin::start.  given is the answers of each processor, ids its identifier (0:
\* it has none, and the detection fails whatever the strategy).  Two processors with
\* one identifier are one device, the last one that works.
StartAmd(given, ids, skipFailed) ==
    LET inspected == {p \in DOMAIN Processors : ~CannotInspect(given[p])}
        useful == {p \in inspected : Supported(given[p]) # {}}
        refuses == \/ ~skipFailed /\ inspected # DOMAIN Processors
                   \/ \E p \in inspected : ids[p] = 0
                   \/ useful = {}
        last(i) == Max({p \in useful : ids[p] = i})
    IN /\ amd = "start"
       /\ amd' = IF refuses THEN "refused" ELSE "polling"
       /\ amdDevices' = IF refuses THEN NoDevices
                        ELSE [i \in {ids[p] : p \in useful} |-> Supported(given[last(i)])]
       /\ UNCHANGED <<amdCounters, amdEnergy, amdTold>>

\* is_power_managment_enabled()? ends the poll: it is called on the devices that tell
\* their power, even if the detection found that it is not supported.
EndsPoll(i, failing) ==
    /\ "power" \in amdDevices[i]
    /\ <<i, "management">> \in failing \/ "management" \notin amdDevices[i]

\* The devices whose turn comes in a poll.
Reached(failing) ==
    {i \in DOMAIN amdDevices : \A j \in DOMAIN amdDevices : EndsPoll(j, failing) => i <= j}

EnergyRead(failing) ==
    {i \in Reached(failing) : "energy" \in amdDevices[i] /\ <<i, "energy">> \notin failing}

\* Mutant of Previous: one counter for all the devices.
PreviousOfAny(i) == amdCounters[CHOOSE j \in DOMAIN amdDevices : TRUE]

\* The counter of the device itself.
Previous(i) == amdCounters[i]

AmdDifference(i) == IF Previous(i) = Unseen THEN 0 ELSE amdEnergy[i] - Previous(i)

\* What the devices have told after the loop: the value first read, and the differences
\* pushed into the buffer.
AmdPushed(i, failing) ==
    LET t == amdTold[i] IN
    IF i \notin EnergyRead(failing) THEN t
    ELSE [first |-> IF t.first = Unseen THEN amdEnergy[i] ELSE t.first,
          buffered |-> t.buffered + AmdDifference(i), sent |-> t.sent]

\* The task of the source: a fatal error drops the buffer, with what the polls before have
\* pushed; after another poll, the buffer is flushed on some rounds.
AfterAmdPoll(t, fatal, flush) ==
    IF fatal THEN [t EXCEPT !.buffered = 0]
    ELSE IF flush THEN [first |-> t.first, buffered |-> 0, sent |-> t.sent + t.buffered]
    ELSE t

\* AmdGpuSource::poll: failing is the calls that fail now, a set of <<device, call>>.
PollAmd(failing, flush) ==
    LET fatal == \E i \in DOMAIN amdDevices : EndsPoll(i, failing)
    IN /\ amd = "polling"
       /\ amdCounters' = [i \in AmdIds |-> IF i \in EnergyRead(failing) THEN amdEnergy[i] ELSE amdCounters[i]]
       /\ amdTold' = [i \in AmdIds |-> AfterAmdPoll(AmdPushed(i, failing), fatal, flush)]
       /\ amd' = IF fatal THEN "ended" ELSE amd
       /\ UNCHANGED <<amdDevices, amdEnergy>>

AmdConsumes(i) ==
    /\ amd = "polling"
    /\ amdEnergy[i] < AmdEnergyMax
    /\ amdEnergy' = [amdEnergy EXCEPT ![i] = @ + 1]
    /\ UNCHANGED <<amd, amdDevices, amdCounters, amdTold>>

\* The source has no reset of its own: a pause changes nothing.
AmdNext ==
    \/ \E given \in [DOMAIN Processors -> AmdAnswers], ids \in [DOMAIN Processors -> AmdIds \union {0}],
          skipFailed \in BOOLEAN : StartAmd(given, ids, skipFailed)
    \/ \E failing \in SUBSET (AmdIds \X {"energy", "management"}), flush \in BOOLEAN :
          PollAmd(failing, flush)
    \/ \E i \in AmdIds : AmdConsumes(i)

AmdSpec == AmdInit /\ [][AmdNext]_amdVars

AmdCounted(first, read) == IF read = Unseen THEN 0 ELSE read - first

(* While the source lives, every device's energy is told once, from its      *)
(* first read to its last one, sent or in the buffer, whatever calls fail,   *)
(* on this device or on the ones before it in the poll.  When a device that  *)
(* cannot tell how its power is managed ends the source, what the buffer     *)
(* holds for all the devices is lost, and nothing else.                      *)
AmdEnergyIsTold ==
    \A i \in AmdIds :
        LET t == amdTold[i]
            total == AmdCounted(t.first, amdCounters[i])
        IN IF amd = "ended" THEN t.buffered = 0 /\ t.sent =< total
           ELSE t.sent + t.buffered = total

===============================================================================
