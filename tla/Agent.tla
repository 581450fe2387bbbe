---------------------------------- MODULE Agent ---------------------------------
(***************************************************************************)
(* The life of an agent: from the command line and the configuration to    *)
(* the plugins that are enabled (PluginSet), their start in phases         *)
(* (Builder::build_and_start), the command that is run (run, exec, watch), *)
(* the shutdown (RunningAgent::wait_for_shutdown) and the exit code.       *)
(*                                                                         *)
(* Everything runs on one thread, but any step may fail, and a failure     *)
(* means something else in each phase.                                     *)
(***************************************************************************)
EXTENDS Naturals, Sequences, FiniteSets, SequencesExt

CONSTANTS
    Bundled,    \* plugins of the binary, in the order of static_plugins!
    ConfigFiles,  \* plugins tables that the configuration may hold
    Selections,   \* values of --plugins, NoSelection when it is absent
    NoSelection,
    Behaviours    \* what a plugin registers when it starts

ASSUME AgentAssumption ==
    /\ Bundled \in Seq(ToSet(Bundled)) /\ IsInjective(Bundled)
    /\ \A f \in ConfigFiles : f \in Seq(ToSet(f))
    /\ \A f \in ConfigFiles : \A i, j \in DOMAIN f : f[i].name = f[j].name => i = j
    /\ Behaviours \subseteq [pre : Nat, post : Nat, subscribes : BOOLEAN]

VARIABLES
    stage,      \* where main is
    command,    \* "run", "exec" or "watch"
    selection,  \* the value of --plugins
    set,        \* PluginSet: a sequence of [name, enabled]
    configOrder, \* plugins_config_order: the plugins that the configuration names
    plugins,    \* the plugins to initialize, then the initialized ones
    at,         \* how many of them the current phase has done
    registered, \* registered[p]: what p registered when it started
    pipeline,   \* "none", "running", "ended" or "dropped"
    child,      \* the process that is executed or watched: "none", "running", "ok" or "ko"
    errors,     \* the errors of the shutdown
    exit,       \* the exit code, NoExit before
    calls,      \* history: the hooks and actions that were run, in order
    eventsHeard       \* history: events that each subscriber was given

agentConfig    == <<command, selection, set, configOrder>>
agentVars == <<stage, agentConfig, plugins, at, registered, pipeline, child, errors, exit, calls, eventsHeard>>

NoExit == "running"
PluginNames == ToSet(Bundled)
Nothing == [pre |-> 0, post |-> 0, subscribes |-> FALSE]

AgentInit ==
    /\ stage = "args" /\ command = "run" /\ selection = NoSelection
    /\ set = [i \in DOMAIN Bundled |-> [name |-> Bundled[i], enabled |-> TRUE]]
    /\ configOrder = <<>> /\ plugins = <<>> /\ at = 0
    /\ registered = [p \in PluginNames |-> Nothing]
    /\ pipeline = "none" /\ child = "none" /\ errors = <<>> /\ exit = NoExit
    /\ calls = <<>> /\ eventsHeard = [p \in PluginNames |-> <<>>]

\* The agent ends with this code; what it holds is dropped.
Exit(code) ==
    /\ stage' = "exited"
    /\ exit' = code
    /\ pipeline' = IF pipeline = "none" THEN "none" ELSE "dropped"

-------------------------------------------------------------------------------
(* PluginSet.                                                              *)

EnableOnly(ps, names) == [i \in DOMAIN ps |-> [ps[i] EXCEPT !.enabled = ps[i].name \in names]]

Find(ps, name) == SelectInSeq(ps, LAMBDA info : info.name = name)

\* extract_config, with update_status: a plugin is enabled by its table.
EnableFrom(ps, file) ==
    [i \in DOMAIN ps |->
        [ps[i] EXCEPT !.enabled = \E j \in DOMAIN file : file[j].name = ps[i].name /\ file[j].enabled]]

\* IndexMap::swap_remove: the last entry takes the place of the removed one.
SwapRemove(ps, i) ==
    [j \in 1..(Len(ps) - 1) |-> IF j = i THEN ps[Len(ps)] ELSE ps[j]]

\* One name of the list: the plugin moves from the old map to the new one.
MoveTo(name, maps) ==
    LET i == Find(maps.old, name) IN
    IF i = 0 THEN maps
    ELSE [new |-> Append(maps.new, maps.old[i]), old |-> SwapRemove(maps.old, i)]

\* The maps when the names of the list have been moved, one after the other.
Moved(ps, names) ==
    LET maps[n \in 0..Len(names)] ==
            IF n = 0 THEN [new |-> <<>>, old |-> ps] ELSE MoveTo(names[n], maps[n - 1])
    IN maps[Len(names)]

\* Mutant of ReorderPartial: the plugins that the list names are put at the end.
ReorderLast(ps, names) == Moved(ps, names).old \o Moved(ps, names).new

ReorderPartial(ps, names) == Moved(ps, names).new \o Moved(ps, names).old

\* PluginSet::into_partition: the enabled plugins, in the order of the set.
EnabledOf(ps) ==
    LET chosen[n \in 0..Len(ps)] ==
            IF n = 0 THEN <<>>
            ELSE IF ps[n].enabled THEN Append(chosen[n - 1], ps[n]) ELSE chosen[n - 1]
    IN chosen[Len(ps)]

ParseArgs(c, names) ==
    /\ stage = "args"
    /\ command' = c
    /\ selection' = names
    /\ set' = IF names = NoSelection THEN set ELSE EnableOnly(set, names)
    /\ stage' = "config"
    /\ UNCHANGED <<configOrder, plugins, at, registered, pipeline, child, errors, exit, calls, eventsHeard>>

\* The configuration cannot be read, written, parsed or substituted.
LoadError ==
    /\ stage = "config"
    /\ Exit("failure")
    /\ UNCHANGED <<agentConfig, plugins, at, registered, child, errors, calls, eventsHeard>>

\* extract_config (unknown plugins are an error), then reorder_partial.
LoadConfig(file) ==
    /\ stage = "config"
    /\ IF \E i \in DOMAIN file : file[i].name \notin PluginNames
       THEN Exit("failure") /\ UNCHANGED <<set, configOrder, plugins, at>>
       ELSE LET status == IF selection = NoSelection THEN EnableFrom(set, file) ELSE set
                names == [i \in DOMAIN file |-> file[i].name]
                ordered == ReorderPartial(status, names)
            IN /\ set' = ordered /\ configOrder' = names
               /\ plugins' = EnabledOf(ordered)
               /\ at' = 0
               /\ stage' = "init"
               /\ UNCHANGED <<pipeline, exit>>
    /\ UNCHANGED <<command, selection, registered, child, errors, calls, eventsHeard>>

-------------------------------------------------------------------------------
(* Builder::build_and_start: one phase after the other, in each of them    *)
(* one plugin after the other; the first error ends the start-up.          *)

Current == plugins[at + 1].name

Called(hook) == calls' = Append(calls, <<hook, Current>>)

StepTo(next) ==
    IF at + 1 = Len(plugins) THEN at' = 0 /\ stage' = next ELSE at' = at + 1 /\ stage' = stage

\* Every plugin of this phase is done when there is none.
SkipPhase ==
    /\ plugins = <<>>
    /\ \/ stage = "init" /\ stage' = "start"
       \/ stage = "start" /\ stage' = "pre"
       \/ stage = "pre" /\ stage' = "build"
       \/ stage = "post" /\ stage' = "ready"
       \/ stage = "stop" /\ stage' = "code"
    /\ UNCHANGED <<agentConfig, plugins, at, registered, pipeline, child, errors, exit, calls, eventsHeard>>

InitPlugin ==
    /\ stage = "init" /\ plugins # <<>>
    /\ Called("init")
    /\ \/ StepTo("start") /\ UNCHANGED <<pipeline, exit>>
       \/ Exit("failure") /\ UNCHANGED at
    /\ UNCHANGED <<agentConfig, plugins, registered, child, errors, eventsHeard>>

\* start registers elements, actions and subscriptions, in any number.
StartPlugin(b) ==
    /\ stage = "start" /\ plugins # <<>>
    /\ Called("start")
    /\ \/ registered' = [registered EXCEPT ![Current] = b] /\ StepTo("pre") /\ UNCHANGED <<pipeline, exit>>
       \/ Exit("failure") /\ UNCHANGED <<at, registered>>
    /\ UNCHANGED <<agentConfig, plugins, child, errors, eventsHeard>>

\* The hook, then the actions that this plugin registered, in their order; any of
\* them may return an error.
HookAndActions(hook, action, n, next) ==
    \/ /\ calls' = calls \o <<<<hook, Current>>>> \o [i \in 1..n |-> <<action, Current, i>>]
       /\ StepTo(next)
       /\ UNCHANGED <<pipeline, exit>>
    \/ /\ \E done \in 0..n : calls' = calls \o <<<<hook, Current>>>> \o [i \in 1..done |-> <<action, Current, i>>]
       /\ Exit("failure")
       /\ UNCHANGED at

PreStart ==
    /\ stage = "pre" /\ plugins # <<>>
    /\ HookAndActions("pre", "preAction", registered[Current].pre, "build")
    /\ UNCHANGED <<agentConfig, plugins, registered, child, errors, eventsHeard>>

Build ==
    /\ stage = "build"
    /\ \/ pipeline' = "running" /\ stage' = "post" /\ UNCHANGED exit
       \/ Exit("failure")
    /\ UNCHANGED <<agentConfig, plugins, at, registered, child, errors, calls, eventsHeard>>

\* Mutant of PostStart: an error is logged and the other plugins go on.
PostStartGoesOn ==
    /\ stage = "post" /\ plugins # <<>>
    /\ \E done \in 0..registered[Current].post :
          calls' = calls \o <<<<"post", Current>>>> \o [i \in 1..done |-> <<"postAction", Current, i>>]
    /\ StepTo("ready")
    /\ UNCHANGED <<agentConfig, plugins, registered, pipeline, exit, child, errors, eventsHeard>>

PostStart ==
    /\ stage = "post" /\ plugins # <<>>
    /\ HookAndActions("post", "postAction", registered[Current].post, "ready")
    /\ UNCHANGED <<agentConfig, plugins, registered, child, errors, eventsHeard>>

\* The pipeline may be stopped (Ctrl+C, a command) or fail whatever the agent does.
PipelineEnds ==
    /\ pipeline = "running" /\ stage \notin {"post", "exited"}
    /\ pipeline' = "ended"
    /\ UNCHANGED <<stage, agentConfig, plugins, at, registered, child, errors, exit, calls, eventsHeard>>

-------------------------------------------------------------------------------
(* exec_process and watch_process.  The manual triggers around the process *)
(* only log their errors.                                                  *)

Ready ==
    /\ stage = "ready"
    /\ stage' = IF command = "run" THEN "wait" ELSE "spawn"
    /\ UNCHANGED <<agentConfig, plugins, at, registered, pipeline, child, errors, exit, calls, eventsHeard>>

Subscribers == {p \in PluginNames : registered[p].subscribes}

\* Mutant of PublishEvent: the event stops at the first listener that fails.
PublishUntilError(event) ==
    \E told \in SUBSET Subscribers :
        eventsHeard' = [p \in PluginNames |-> IF p \in told THEN Append(eventsHeard[p], event) ELSE eventsHeard[p]]

\* EventBus::publish: every listener is called, the errors are logged.
PublishEvent(event) ==
    eventsHeard' = [p \in PluginNames |-> IF p \in Subscribers THEN Append(eventsHeard[p], event) ELSE eventsHeard[p]]

\* The child is spawned, or the pid is valid; then the plugins are told.
Spawn ==
    /\ stage = "spawn"
    /\ \/ child' = "running" /\ stage' = "child" /\ PublishEvent("start") /\ UNCHANGED <<pipeline, exit>>
       \/ Exit("panic") /\ UNCHANGED <<child, eventsHeard>>
    /\ UNCHANGED <<agentConfig, plugins, at, registered, errors, calls>>

\* The end of a process that is only watched says nothing of its success.
ChildExits ==
    /\ child = "running"
    /\ child' \in IF command = "exec" THEN {"ok", "ko"} ELSE {"ok"}
    /\ UNCHANGED <<stage, agentConfig, plugins, at, registered, pipeline, errors, exit, calls, eventsHeard>>

\* Wait for it, tell the plugins, shut the pipeline down.
AfterChild ==
    /\ stage = "child" /\ child \in {"ok", "ko"}
    /\ PublishEvent("end")
    /\ stage' = "wait"
    /\ UNCHANGED <<agentConfig, plugins, at, registered, pipeline, child, errors, exit, calls>>

-------------------------------------------------------------------------------
(* RunningAgent::wait_for_shutdown, and the exit code of main.             *)

\* The pipeline has ended, with or without an error, or the timeout has expired
\* (there is none for "run"); it is dropped before any plugin is stopped.
WaitPipeline ==
    /\ stage = "wait"
    /\ \/ pipeline = "ended" /\ errors' \in {<<>>, <<"pipeline">>}
       \/ command # "run" /\ errors' = <<"timeout">>
    /\ pipeline' = "dropped"
    /\ at' = 0 /\ stage' = "stop"
    /\ UNCHANGED <<agentConfig, plugins, registered, child, exit, calls, eventsHeard>>

\* Mutant of StopPlugin: an error ends the shutdown, the next plugins are not stopped.
StopPluginOrLeave ==
    /\ stage = "stop" /\ plugins # <<>>
    /\ Called("stop")
    /\ \/ StepTo("code") /\ UNCHANGED errors
       \/ errors' = Append(errors, Current) /\ stage' = "code" /\ UNCHANGED at
    /\ UNCHANGED <<agentConfig, plugins, registered, pipeline, child, exit, eventsHeard>>

\* An error or a panic is remembered, and the next plugin is stopped.
StopPlugin ==
    /\ stage = "stop" /\ plugins # <<>>
    /\ Called("stop")
    /\ errors' \in {errors, Append(errors, Current)}
    /\ StepTo("code")
    /\ UNCHANGED <<agentConfig, plugins, registered, pipeline, child, exit, eventsHeard>>

\* The errors of an exec are logged only; those of a watch are a panic.
ExitCode ==
    /\ stage = "code"
    /\ \/ command = "run" /\ Exit(IF errors = <<>> THEN "success" ELSE "failure")
       \/ command = "exec" /\ errors # <<>> /\ Exit("success")
       \/ /\ command = "exec" /\ errors = <<>>
          /\ \/ child = "ok" /\ Exit("success")
             \/ child = "ko" /\ \E code \in {"success", "failure", "child"} : Exit(code)
       \/ command = "watch" /\ Exit(IF errors = <<>> THEN "success" ELSE "panic")
    /\ UNCHANGED <<agentConfig, plugins, at, registered, child, errors, calls, eventsHeard>>

AgentNext ==
    \/ \E c \in {"run", "exec", "watch"}, names \in Selections : ParseArgs(c, names)
    \/ LoadError \/ \E f \in ConfigFiles : LoadConfig(f)
    \/ SkipPhase \/ InitPlugin \/ \E b \in Behaviours : StartPlugin(b)
    \/ PreStart \/ Build \/ PostStart \/ PipelineEnds
    \/ Ready \/ Spawn \/ ChildExits \/ AfterChild
    \/ WaitPipeline \/ StopPlugin \/ ExitCode

AgentSpec == AgentInit /\ [][AgentNext]_agentVars

-------------------------------------------------------------------------------
(* Properties.                                                             *)

Enabled == [i \in DOMAIN plugins |-> plugins[i].name]
Phase(f(_)) == FlattenSeq([i \in DOMAIN plugins |-> f(Enabled[i])])
Hook(h) == Phase(LAMBDA p : <<<<h, p>>>>)
WithActions(h, a, n(_)) == Phase(LAMBDA p : <<<<h, p>>>> \o [i \in 1..n(p) |-> <<a, p, i>>])

\* The set begins with the plugins that the configuration names, in its order, every plugin of
\* the binary stays in the set, once, and --plugins overrides the configuration.
SetIsComplete ==
    LET names == [i \in DOMAIN set |-> set[i].name] IN
    /\ Len(set) = Len(Bundled) /\ ToSet(names) = PluginNames
    /\ IsPrefix(configOrder, names)
    /\ selection # NoSelection => \A i \in DOMAIN plugins : plugins[i].name \in selection

\* Whatever fails, what was called is the beginning of the schedule: the phases in
\* order, in each of them the enabled plugins in the order of the set, each of
\* them followed by the actions that it registered itself; and the plugins are
\* stopped once the pipeline has been dropped.  The set itself follows the configuration.
Schedule ==
    /\ SetIsComplete
    /\ IsPrefix(calls, Hook("init") \o Hook("start")
                       \o WithActions("pre", "preAction", LAMBDA p : registered[p].pre)
                       \o WithActions("post", "postAction", LAMBDA p : registered[p].post)
                       \o Hook("stop"))
    /\ (\E i \in DOMAIN calls : calls[i][1] = "stop") => pipeline = "dropped"

Stops(p) == Cardinality({k \in DOMAIN calls : calls[k] = <<"stop", p>>})

\* The start-up has failed, or the process could not be spawned or watched.
FailedEarly == exit \in {"failure", "panic"} /\ errors = <<>> /\ child = "none"

\* At the end of an agent every plugin has been stopped once, even after an error or a panic of
\* another one, and every subscriber has heard of the start and of the end of the process, in
\* this order.  Two agents are the exception, and stop no plugin at all: one whose start-up
\* failed, and one that has started all of its plugins but cannot spawn or watch the process.
StoppedAndTold ==
    stage \in {"code", "exited"} =>
        IF stage = "exited" /\ FailedEarly
        THEN \A i \in DOMAIN plugins : Stops(plugins[i].name) = 0
        ELSE /\ \A i \in DOMAIN plugins : Stops(plugins[i].name) = 1
             /\ \A p \in Subscribers :
                    eventsHeard[p] = IF command = "run" THEN <<>> ELSE <<"start", "end">>

===============================================================================
