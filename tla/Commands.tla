------------------------------- MODULE Commands -------------------------------
(***************************************************************************)
(* The commands of the socket-control plugin, from a line of text to the   *)
(* elements of the pipeline: parsing of the line and of its selector,      *)
(* requests, and what the control loop does to the elements whose names    *)
(* match (src/plugins/socket-control, pipeline/naming/, pipeline/elements/ *)
(* */control.rs).  The channel between them is that of ControlPlane.       *)
(***************************************************************************)
EXTENDS Integers, Sequences, FiniteSets, SequencesExt

CONSTANTS
    ManagedSources,     \* names of the managed sources at the start
    AutonomousSources,  \* names of the autonomous sources at the start
    LateSources,        \* names of the managed sources created while it runs
    TransformOrder,     \* sequence of the names of the transforms
    OutputNames,        \* names of the outputs
    FlagBits,           \* width of the set of enabled transforms (64 in the code)
    Lines,              \* the lines that clients write
    MaxLines            \* bound: lines of the connection

AnySources == ManagedSources \union AutonomousSources \union LateSources

Texts == Seq(STRING)
AllNames == AnySources \union ToSet(TransformOrder) \union OutputNames

\* "There can be a maximum of 64 transforms for the moment" (TransformControl).
ASSUME CommandsAssumption ==
    /\ AllNames \subseteq Texts \X Texts
    /\ TransformOrder \in Seq(AllNames)
    /\ FlagBits \in Nat \ {0} /\ Len(TransformOrder) =< FlagBits /\ MaxLines \in Nat
    /\ \A line \in Lines :
          Len(line.selector) = 3 => line.selector[2] \in Texts /\ line.selector[3] \in Texts

VARIABLES
    connection,    \* "open", or how it ended: "failed", "panicked"
    outbox,        \* messages of the current line, not dispatched yet
    inbox,         \* control channel
    created,       \* sources that exist
    sourceOrder,   \* atomic state of each source: "Run", "Pause", "Stop"
    stopped,       \* sources whose task has ended
    flags,         \* active_bitset of the transforms
    outputOrder,   \* state of each output: "Run", "Pause", "StopFinish"
    linesRead,     \* number of lines read
    handled        \* history: [line, kind, existing] of the messages handled

commandsVars == <<connection, outbox, inbox, created, sourceOrder, stopped, flags,
                  outputOrder, linesRead, handled>>

-------------------------------------------------------------------------------
(* Names and patterns.  A name is a pair of texts, plugin and element; a text  *)
(* is a sequence of letters, in which Star is the wildcard of the patterns.    *)

Star == "*"

InvalidPattern == [match |-> "invalid", part |-> <<>>]

\* StringPattern::from_str
StringPattern(text) ==
    LET pattern(match, part) ==
            IF Star \in ToSet(part) THEN InvalidPattern ELSE [match |-> match, part |-> part]
    IN CASE text = <<>> -> InvalidPattern
         [] text = <<Star>> -> [match |-> "any", part |-> <<>>]
         [] Len(text) > 0 /\ text # <<Star>> /\ Head(text) = Star -> pattern("end", Tail(text))
         [] Len(text) > 0 /\ Head(text) # Star /\ Last(text) = Star ->
                pattern("start", Front(text))
         [] OTHER -> pattern("exact", text)

\* Mutant of MatchesText: the wildcard at the end is taken for one at the beginning.
MatchesTextSwapped(pattern, name) ==
    CASE pattern.match = "exact" -> pattern.part = name
      [] pattern.match = "start" -> IsSuffix(pattern.part, name)
      [] pattern.match = "end" -> IsSuffix(pattern.part, name)
      [] pattern.match = "any" -> TRUE

\* StringPattern::matches
MatchesText(pattern, name) ==
    CASE pattern.match = "exact" -> pattern.part = name
      [] pattern.match = "start" -> IsPrefix(pattern.part, name)
      [] pattern.match = "end" -> IsSuffix(pattern.part, name)
      [] pattern.match = "any" -> TRUE

MatchesName(pattern, name) ==
    MatchesText(pattern.plugin, name[1]) /\ MatchesText(pattern.element, name[2])

\* The kinds of elements, in the order of the requests of a command for all of them.
Kinds == <<"source", "transform", "output">>

\* parse_kind: the kinds that a word stands for, none if it is unknown.
KindsOf(word) ==
    CASE word \in {"src", "source", "sources"} -> <<"source">>
      [] word \in {"tra", "transform", "transforms"} -> <<"transform">>
      [] word \in {"out", "output", "outputs"} -> <<"output">>
      [] word \in {"*", "all", "any"} -> Kinds
      [] OTHER -> <<>>

AnyName == [plugin |-> StringPattern(<<Star>>), element |-> StringPattern(<<Star>>)]

\* parse_pattern: the fields of the selector are those that '/' separates.
SelectorPattern(selector) ==
    IF Len(selector) = 1 THEN AnyName
    ELSE [plugin |-> StringPattern(selector[2]), element |-> StringPattern(selector[3])]

ValidSelector(selector) ==
    /\ Len(selector) \in {1, 3} /\ KindsOf(selector[1]) # <<>>
    /\ LET pattern == SelectorPattern(selector) IN
       pattern.plugin # InvalidPattern /\ pattern.element # InvalidPattern

-------------------------------------------------------------------------------
(* Lines.                                                                      *)

Synonyms ==
    [word \in {"pause", "disable", "resume", "enable", "stop", "set-period",
               "set-poll-interval", "trigger-now"} |->
        CASE word \in {"pause", "disable"} -> "pause"
          [] word \in {"resume", "enable"} -> "resume"
          [] word \in {"set-period", "set-poll-interval"} -> "set-period"
          [] OTHER -> word]

\* The kinds, alone in the selector, to which an operation can be applied.
Applicable(op) ==
    CASE op \in {"pause", "resume"} ->
             {<<"source">>, <<"transform">>, <<"output">>, Kinds}
      [] op = "stop" -> {<<"source">>, <<"output">>}
      [] op \in {"set-period", "trigger-now"} -> {<<"source">>}

\* The period of a line is "none", "ok", "bad" (not a duration) or "zero", for which
\* TriggerSpec::at_interval panics.
Outcome(line) ==
    IF line.command = "" THEN "panic"
    ELSE IF line.command # "control" \/ ~ValidSelector(line.selector) THEN "error"
    ELSE IF line.op \notin DOMAIN Synonyms THEN "error"
    ELSE LET op == Synonyms[line.op] IN
         IF (op = "set-period") # (line.period # "none") THEN "error"
         ELSE IF KindsOf(line.selector[1]) \notin Applicable(op) THEN "error"
         ELSE IF line.period = "bad" THEN "error"
         ELSE IF line.period = "zero" THEN "panic" ELSE "messages"

\* One request per kind.
Messages(line) ==
    LET kinds == KindsOf(line.selector[1])
    IN [k \in DOMAIN kinds |->
          [kind |-> kinds[k], pattern |-> SelectorPattern(line.selector),
           op |-> Synonyms[line.op], line |-> line]]

-------------------------------------------------------------------------------
(* The connection (handle_socket_connection, Command::run).                    *)

CommandsInit ==
    /\ connection = "open" /\ outbox = <<>> /\ inbox = <<>>
    /\ created = ManagedSources \union AutonomousSources
    /\ sourceOrder = [s \in AnySources |-> "Run"] /\ stopped = {}
    /\ flags = {i - 1 : i \in DOMAIN TransformOrder}
    /\ outputOrder = [o \in OutputNames |-> "Run"]
    /\ linesRead = 0 /\ handled = <<>>

elements == <<created, sourceOrder, stopped, flags, outputOrder, handled>>

\* A line that is not valid ends the connection with its error.
ReadLine(line) ==
    /\ connection = "open" /\ outbox = <<>> /\ linesRead < MaxLines
    /\ linesRead' = linesRead + 1
    /\ CASE Outcome(line) = "error" -> connection' = "failed" /\ outbox' = outbox
         [] Outcome(line) = "panic" -> connection' = "panicked" /\ outbox' = outbox
         [] Outcome(line) = "messages" -> outbox' = Messages(line) /\ connection' = connection
    /\ UNCHANGED <<inbox, elements>>

DispatchMessage ==
    /\ connection = "open" /\ outbox # <<>>
    /\ inbox' = Append(inbox, Head(outbox)) /\ outbox' = Tail(outbox)
    /\ UNCHANGED <<connection, linesRead, elements>>

\* dispatch fails after COMMAND_TIMEOUT: the messages that remain are dropped.
DispatchTimeout ==
    /\ connection = "open" /\ outbox # <<>>
    /\ connection' = "failed" /\ outbox' = <<>>
    /\ UNCHANGED <<inbox, linesRead, elements>>

-------------------------------------------------------------------------------
(* The elements.                                                               *)

StateFor(op) == CASE op = "pause" -> "Pause" [] op = "resume" -> "Run" [] op = "stop" -> "Stop"

\* SingleSourceController::reconfigure: an autonomous source understands Stop only.
\* A new trigger and a manual trigger do not change the state.
ReconfigureSources(message) ==
    sourceOrder' = [s \in AnySources |->
        IF /\ s \in created /\ MatchesName(message.pattern, s)
           /\ message.op \in {"pause", "resume", "stop"}
           /\ s \in AutonomousSources => message.op = "stop"
        THEN StateFor(message.op) ELSE sourceOrder[s]]

Bit(i) == (i - 1) % FlagBits

\* Mutant of WithFlag: clearing the flag of a transform clears the others too.
WithFlagOnly(set, i, on) == IF on THEN set \union {Bit(i)} ELSE {}

WithFlag(set, i, on) == IF on THEN set \union {Bit(i)} ELSE set \ {Bit(i)}

\* TaskManager::reconfigure of the transforms: the bitset is loaded, changed for each
\* name that matches, and stored.
ReconfigureTransforms(message) ==
    flags' = FoldLeftDomain(LAMBDA set, i :
                IF MatchesName(message.pattern, TransformOrder[i])
                THEN WithFlag(set, i, message.op = "resume") ELSE set,
             flags, TransformOrder)

ReconfigureOutputs(message) ==
    outputOrder' = [o \in OutputNames |->
        IF MatchesName(message.pattern, o)
        THEN (IF message.op = "stop" THEN "StopFinish" ELSE StateFor(message.op))
        ELSE outputOrder[o]]

HandleCommand ==
    /\ inbox # <<>>
    /\ LET message == Head(inbox) IN
       /\ CASE message.kind = "source" ->
                   ReconfigureSources(message) /\ UNCHANGED <<flags, outputOrder>>
            [] message.kind = "transform" ->
                   ReconfigureTransforms(message) /\ UNCHANGED <<sourceOrder, outputOrder>>
            [] message.kind = "output" ->
                   ReconfigureOutputs(message) /\ UNCHANGED <<sourceOrder, flags>>
       /\ handled' = Append(handled, [line |-> message.line, kind |-> message.kind,
                                      existing |-> created])
    /\ inbox' = Tail(inbox)
    /\ UNCHANGED <<connection, outbox, linesRead, created, stopped>>

\* Another plugin creates a source; the commands handled before do not concern it.
CreateSource(s) ==
    /\ s \in LateSources \ created
    /\ created' = created \union {s}
    /\ UNCHANGED <<connection, outbox, inbox, linesRead, sourceOrder, stopped, flags,
                   outputOrder, handled>>

\* A task that finds Stop in its state, or its token cancelled, ends.  Its controller
\* stays in the list and later commands have no effect on it.
SourceEnds(s) ==
    /\ s \in created \ stopped /\ sourceOrder[s] = "Stop"
    /\ stopped' = stopped \union {s}
    /\ UNCHANGED <<connection, outbox, inbox, linesRead, created, sourceOrder, flags,
                   outputOrder, handled>>

CommandsNext ==
    \/ \E line \in Lines : ReadLine(line)
    \/ DispatchMessage \/ DispatchTimeout \/ HandleCommand
    \/ \E s \in LateSources : CreateSource(s)
    \/ \E s \in AnySources : SourceEnds(s)

CommandsSpec == CommandsInit /\ [][CommandsNext]_commandsVars

-------------------------------------------------------------------------------
(* Properties.                                                                 *)

\* What a text with wildcards means: the star stands for any text.
Glob(text, name) ==
    \/ text = name
    \/ \E i \in DOMAIN text : text[i] = Star /\
         \E a \in 1..Len(name) + 1, b \in 0..Len(name) :
             /\ a =< b + 1
             /\ SubSeq(text, 1, i - 1) \o SubSeq(name, a, b) \o SubSeq(text, i + 1, Len(text))
                = name

\* The line names the element: its kind, and the texts of its plugin and of itself.
Names(line, kind, name) ==
    /\ kind \in ToSet(KindsOf(line.selector[1]))
    /\ Len(line.selector) = 3 => Glob(line.selector[2], name[1]) /\ Glob(line.selector[3], name[2])

Operation(k) == Synonyms[handled[k].line.op]

\* The messages handled that concern the state of an element.
Heard(kind, name) ==
    {k \in DOMAIN handled :
        /\ handled[k].kind = kind /\ Names(handled[k].line, kind, name)
        /\ Operation(k) \in {"pause", "resume", "stop"}
        /\ kind = "source" =>
              /\ name \in handled[k].existing
              /\ name \in AutonomousSources => Operation(k) = "stop"}

LastTold(kind, name) ==
    IF Heard(kind, name) = {} THEN "resume" ELSE Operation(Max(Heard(kind, name)))

\* Every element is in the state of the last command whose text names it, and of no
\* other, whatever was created, stopped or lost on the way; a source that ended had
\* been named by a stop.  The text is read by its meaning (Glob), not by the parser.
CommandsReachTheNamed ==
    /\ \A s \in created : sourceOrder[s] = StateFor(LastTold("source", s))
    /\ \A s \in stopped : \E k \in Heard("source", s) : Operation(k) = "stop"
    /\ \A i \in DOMAIN TransformOrder :
           (Bit(i) \in flags) = (LastTold("transform", TransformOrder[i]) = "resume")
    /\ \A o \in OutputNames :
           outputOrder[o] = (IF LastTold("output", o) = "stop" THEN "StopFinish"
                             ELSE StateFor(LastTold("output", o)))
================================================================================
