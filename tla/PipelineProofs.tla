---------------------------- MODULE PipelineProofs ----------------------------
(***************************************************************************)
(* Proofs about Pipeline, for any sets of sources and outputs, any channel *)
(* capacity, and any number of failures, commands and late creations.      *)
(***************************************************************************)
EXTENDS Pipeline, TLAPS

\* What the transform thread has received, it has sent, except the message it
\* is working on.  The simplified pipeline is the one without a thread.
Accounts ==
    /\ tr \in {"receive", "ended"} => outsent = inrecv
    /\ tr = "apply" => inrecv = outsent + 1
    /\ Simplified <=> tr = "none"

Typed == TypeOK /\ Accounts

\* The types of the variables that range over the length of the outputs' channel
\* are kept when the channel grows.
LEMMA Grow ==
    ASSUME NEW n \in Nat, NEW m \in Nat, n <= m
    PROVE  /\ \A f \in [Outputs -> 1..(n + 1)] : f \in [Outputs -> 1..(m + 1)]
           /\ \A f \in [Outputs -> SUBSET (1..n)] : f \in [Outputs -> SUBSET (1..m)]
<1>1. 1..(n + 1) \subseteq 1..(m + 1) /\ 1..n \subseteq 1..m
  OBVIOUS
<1>2. QED
  BY <1>1

\* The oldest buffer kept by the channel is one sent, or the next.
LEMMA OldestBounds ==
    ASSUME TypeOK
    PROVE  Oldest \in 1..(Sent + 1) /\ Sent \in Nat
BY PipelineAssumption DEF TypeOK, Oldest, Sent

\* The part of TypeOK that an output step may change.
OutputTyped ==
    /\ out \in [Outputs -> {"absent", "run", "finish"} \union OutputEnded]
    /\ mode \in [Outputs -> {"run", "pause"}]
    /\ next \in [Outputs -> 1..(Sent + 1)]
    /\ start \in [Outputs -> 1..(Sent + 1)]
    /\ written \in [Outputs -> SUBSET (1..Sent)]
    /\ missed \in [Outputs -> SUBSET (1..Sent)]

ControlTyped ==
    /\ token \in BOOLEAN
    /\ ctl \in {"loop", "sources", "transforms", "outputs", "done"}
    /\ joined \subseteq Elements
    /\ lastError \in BOOLEAN
    /\ faults \in 0..MaxFaults /\ cmds \in 0..MaxCommands

SourceTyped ==
    /\ src \in [Sources -> {"absent", "run", "stopping"} \union SourceEnded]
    /\ made \in [Sources -> 0..MaxMade]
    /\ flushed \in [Sources -> 0..MaxMade]

ThreadTyped ==
    /\ insent \in Nat
    /\ inrecv \in 0..insent
    /\ tr \in {"receive", "apply"} \union ThreadEnded
    /\ outsent \in 0..inrecv

\* The type invariant, by the part of the pipeline it is about.
LEMMA TypeParts == TypeOK <=> ControlTyped /\ SourceTyped /\ ThreadTyped /\ OutputTyped
BY DEF TypeOK, ControlTyped, SourceTyped, ThreadTyped, OutputTyped

\* The typing holds initially.
LEMMA InitTyped == Init => Typed
<1> SUFFICES ASSUME Init PROVE Typed
  OBVIOUS
<1>1. insent = 0 /\ inrecv = 0 /\ outsent = 0 /\ Sent = 0 /\ tr \in {"none", "receive"}
  BY DEF Init, Sent
<1>2. ThreadTyped /\ Accounts
  BY <1>1 DEF Init, ThreadTyped, ThreadEnded, Accounts
<1>3. SourceTyped
  BY PipelineAssumption DEF Init, SourceTyped
<1>4. ControlTyped
  <2>1. 0 \in 0..MaxFaults /\ 0 \in 0..MaxCommands
    BY PipelineAssumption
  <2>2. QED
    BY <2>1 DEF Init, ControlTyped
<1>5. OutputTyped
  <2>1. 1 \in 1..(Sent + 1)
    BY <1>1
  <2>2. QED
    BY <2>1 DEF Init, OutputTyped
<1>6. QED
  BY <1>2, <1>3, <1>4, <1>5, TypeParts DEF Typed

\* A step that sends nothing, and does not touch the outputs, keeps their types.
LEMMA OutputFrame ==
    ASSUME TypeOK, UNCHANGED outs, NEW n \in Nat, Sent' = n, Sent <= n
    PROVE  OutputTyped'
BY Grow, OldestBounds DEF TypeOK, OutputTyped, outs

\* Every step keeps the typing.
LEMMA StepTyped == Typed /\ [Next]_vars => Typed'
<1> SUFFICES ASSUME Typed, [Next]_vars PROVE Typed'
  OBVIOUS
<1>0. ControlTyped /\ SourceTyped /\ ThreadTyped /\ OutputTyped /\ TypeOK /\ Sent \in Nat
  BY TypeParts, OldestBounds DEF Typed
<1>a. ASSUME UNCHANGED outs, UNCHANGED <<insent, outsent>> PROVE OutputTyped'
  <2>1. Sent' = Sent
    BY <1>a DEF Sent
  <2>2. QED
    BY <1>0, <1>a, <2>1, OutputFrame
<1>b. ASSUME UNCHANGED <<insent, thread>> PROVE ThreadTyped' /\ Accounts' /\ Sent' = Sent
  BY <1>0, <1>b DEF ThreadTyped, Accounts, Typed, thread, Sent
<1>c. ASSUME UNCHANGED <<control, bounds>> PROVE ControlTyped'
  BY <1>0, <1>c DEF ControlTyped, control, bounds
<1>d. ASSUME UNCHANGED <<src, made, flushed>> PROVE SourceTyped'
  BY <1>0, <1>d DEF SourceTyped
<1>e. ControlTyped' /\ SourceTyped' /\ ThreadTyped' /\ OutputTyped' /\ Accounts' => Typed'
  BY DEF Typed, TypeOK, ControlTyped, SourceTyped, ThreadTyped, OutputTyped
<1>1. ASSUME NEW s \in Sources, Measure(s) PROVE Typed'
  <2>1. SourceTyped'
    BY <1>0, <1>1, PipelineAssumption DEF Measure, SourceTyped
  <2>2. QED
    BY <2>1, <1>1, <1>a, <1>b, <1>c, <1>e DEF Measure, thread
<1>2. ASSUME NEW s \in Sources, Flush(s) PROVE Typed'
  <2>1. SourceTyped'
    BY <1>0, <1>2 DEF Flush, SourceTyped
  <2>2. ThreadTyped' /\ Accounts'
    BY <1>0, <1>2 DEF Flush, ThreadTyped, Accounts, Typed, thread
  <2>3. OutputTyped'
    <3>1. Sent' = IF Simplified THEN insent + 1 ELSE outsent
      BY <1>2 DEF Flush, Sent, thread
    <3>2. Sent' \in Nat /\ Sent <= (IF Simplified THEN insent + 1 ELSE outsent)
      BY <1>0, <3>1 DEF ThreadTyped, Sent
    <3>3. QED
      BY <1>0, <1>2, <3>1, <3>2, OutputFrame DEF Flush
  <2>4. QED
    BY <1>2, <2>1, <2>2, <2>3, <1>c, <1>e DEF Flush
<1>3. ASSUME NEW s \in Sources, SourcePanics(s) \/ SourceEnds(s) \/ CreateSource(s) PROVE Typed'
  <2>1. SourceTyped'
    BY <1>0, <1>3 DEF SourcePanics, SourceEnds, CreateSource, SourceTyped, SourceEnded
  <2>2. QED
    BY <2>1, <1>3, <1>a, <1>b, <1>c, <1>e DEF SourcePanics, SourceEnds, CreateSource, thread
<1>4. ASSUME NEW s \in Sources, SourceFails(s) PROVE Typed'
  <2>1. SourceTyped'
    BY <1>0, <1>4 DEF SourceFails, SourceTyped, SourceEnded
  <2>2. ControlTyped'
    BY <1>0, <1>4, PipelineAssumption DEF SourceFails, ControlTyped, control
  <2>3. QED
    BY <2>1, <2>2, <1>4, <1>a, <1>b, <1>e DEF SourceFails, thread
<1>5. CASE TransformReceives
  <2>1. ThreadTyped' /\ Accounts'
    BY <1>0, <1>5 DEF TransformReceives, ThreadTyped, Accounts, Typed, sources
  <2>2. QED
    BY <2>1, <1>5, <1>a, <1>c, <1>d, <1>e DEF TransformReceives, sources
<1>6. CASE TransformSends
  <2>1. ThreadTyped' /\ Accounts'
    BY <1>0, <1>6 DEF TransformSends, ThreadTyped, ThreadEnded, Accounts, Typed, sources
  <2>2. OutputTyped'
    <3>1. Sent' = Sent \/ Sent' = Sent + 1
      BY <1>6 DEF TransformSends, Sent, sources
    <3>2. QED
      BY <1>0, <1>6, <3>1, OutputFrame DEF TransformSends
  <2>3. QED
    BY <2>1, <2>2, <1>6, <1>c, <1>d, <1>e DEF TransformSends, sources
<1>7. CASE TransformFails
  <2>1. ThreadTyped' /\ Accounts'
    BY <1>0, <1>7 DEF TransformFails, ThreadTyped, ThreadEnded, Accounts, Typed, sources
  <2>2. ControlTyped'
    BY <1>0, <1>7, PipelineAssumption DEF TransformFails, ControlTyped, control
  <2>3. QED
    BY <2>1, <2>2, <1>7, <1>a, <1>d, <1>e DEF TransformFails, sources
<1>8. CASE TransformEnds
  <2>1. ThreadTyped' /\ Accounts'
    BY <1>0, <1>8 DEF TransformEnds, ThreadTyped, ThreadEnded, Accounts, Typed, sources
  <2>2. QED
    BY <2>1, <1>8, <1>a, <1>c, <1>d, <1>e DEF TransformEnds, sources
<1>9. ASSUME NEW o \in Outputs, OutputWrites(o) PROVE Typed'
  <2>1. Sent' = Sent /\ ThreadTyped' /\ Accounts'
    BY <1>9, <1>b DEF OutputWrites, sources
  <2>2. next[o] \in 1..Sent /\ next[o] + 1 \in 1..(Sent + 1)
    BY <1>0, <1>9 DEF OutputWrites, OutputTyped
  <2>3. OutputTyped'
    BY <1>0, <1>9, <2>1, <2>2 DEF OutputWrites, OutputTyped
  <2>4. QED
    BY <1>9, <2>1, <2>3, <1>c, <1>d, <1>e DEF OutputWrites, sources
<1>10. ASSUME NEW o \in Outputs, OutputLags(o) PROVE Typed'
  <2>1. Sent' = Sent /\ ThreadTyped' /\ Accounts'
    BY <1>10, <1>b DEF OutputLags, sources
  <2>2. Oldest \in 1..(Sent + 1) /\ next[o]..(Oldest - 1) \subseteq 1..Sent
    BY <1>0, <1>10, OldestBounds DEF OutputTyped
  <2>3. OutputTyped'
    BY <1>0, <1>10, <2>1, <2>2 DEF OutputLags, OutputTyped
  <2>4. QED
    BY <1>10, <2>1, <2>3, <1>c, <1>d, <1>e DEF OutputLags, sources
<1>11. ASSUME NEW o \in Outputs, OutputEnds(o) PROVE Typed'
  <2>1. Sent' = Sent /\ ThreadTyped' /\ Accounts'
    BY <1>11, <1>b DEF OutputEnds, sources
  <2>2. OutputTyped'
    BY <1>0, <1>11, <2>1 DEF OutputEnds, OutputTyped, OutputEnded
  <2>3. QED
    BY <1>11, <2>1, <2>2, <1>c, <1>d, <1>e DEF OutputEnds, sources
<1>12. ASSUME NEW o \in Outputs, OutputFails(o) PROVE Typed'
  <2>1. Sent' = Sent /\ ThreadTyped' /\ Accounts'
    BY <1>12, <1>b DEF OutputFails, sources
  <2>2. OutputTyped'
    BY <1>0, <1>12, <2>1 DEF OutputFails, OutputTyped, OutputEnded
  <2>3. ControlTyped'
    BY <1>0, <1>12, PipelineAssumption DEF OutputFails, ControlTyped, control
  <2>4. QED
    BY <1>12, <2>1, <2>2, <2>3, <1>d, <1>e DEF OutputFails, sources
<1>13. ASSUME NEW o \in Outputs, CreateOutput(o) PROVE Typed'
  <2>1. Sent' = Sent /\ ThreadTyped' /\ Accounts'
    BY <1>13, <1>b DEF CreateOutput, sources
  <2>2. Sent + 1 \in 1..(Sent + 1)
    BY <1>0
  <2>3. OutputTyped'
    BY <1>0, <1>13, <2>1, <2>2 DEF CreateOutput, OutputTyped
  <2>4. QED
    BY <1>13, <2>1, <2>3, <1>c, <1>d, <1>e DEF CreateOutput, sources
<1>14. ASSUME NEW o \in Outputs, NEW c \in OutputCommands, SetOutput(o, c) PROVE Typed'
  <2>1. Sent' = Sent /\ ThreadTyped' /\ Accounts'
    BY <1>14, <1>b DEF SetOutput, sources
  <2>2. Sent + 1 \in 1..(Sent + 1) /\ next[o]..Sent \subseteq 1..Sent
    BY <1>0 DEF OutputTyped
  <2>3. /\ next' \in [Outputs -> 1..(Sent + 1)]
        /\ missed' \in [Outputs -> SUBSET (1..Sent)]
    BY <1>0, <1>14, <2>2 DEF SetOutput, OutputTyped
  <2>4. /\ out' \in [Outputs -> {"absent", "run", "finish"} \union OutputEnded]
        /\ mode' \in [Outputs -> {"run", "pause"}]
    BY <1>0, <1>14 DEF SetOutput, OutputTyped, OutputEnded
  <2>5. OutputTyped'
    BY <1>0, <1>14, <2>1, <2>3, <2>4 DEF SetOutput, OutputTyped
  <2>6. ControlTyped'
    BY <1>0, <1>14, PipelineAssumption DEF SetOutput, ControlTyped, control
  <2>7. QED
    BY <1>14, <2>1, <2>5, <2>6, <1>d, <1>e DEF SetOutput, sources
<1>15. ASSUME NEW e \in Elements, Join(e) PROVE Typed'
  <2>1. joined' \subseteq Elements /\ lastError' \in BOOLEAN
    BY <1>0, <1>15 DEF Join, ControlTyped
  <2>2. ControlTyped'
    BY <1>0, <1>15, <2>1 DEF Join, ControlTyped, bounds
  <2>3. QED
    BY <1>15, <2>2, <1>a, <1>b, <1>d, <1>e DEF Join, sources, thread
<1>16. CASE Cancel \/ SourcesStopped \/ OutputsStopped
  <2>1. ControlTyped'
    BY <1>0, <1>16 DEF Cancel, SourcesStopped, OutputsStopped, ControlTyped, bounds
  <2>2. QED
    BY <1>16, <2>1, <1>a, <1>b, <1>d, <1>e
    DEF Cancel, SourcesStopped, OutputsStopped, sources, thread
<1>17. CASE StopSources
  <2>1. ControlTyped' /\ SourceTyped'
    BY <1>0, <1>17 DEF StopSources, ControlTyped, SourceTyped, bounds
  <2>2. QED
    BY <1>17, <2>1, <1>a, <1>b, <1>e DEF StopSources, thread
<1>18. CASE StopOutputs
  <2>1. Sent' = Sent /\ ThreadTyped' /\ Accounts'
    BY <1>18, <1>b DEF StopOutputs, sources
  <2>2. ControlTyped' /\ OutputTyped'
    BY <1>0, <1>18, <2>1 DEF StopOutputs, ControlTyped, OutputTyped, bounds
  <2>3. QED
    BY <1>18, <2>1, <2>2, <1>d, <1>e DEF StopOutputs, sources
<1>21. CASE RequestFails
  <2>1. ControlTyped'
    BY <1>0, <1>21, PipelineAssumption DEF RequestFails, ControlTyped
  <2>2. QED
    BY <1>21, <2>1, <1>a, <1>b, <1>d, <1>e DEF RequestFails, sources, thread
<1>19. CASE UNCHANGED vars
  BY <1>19, <1>a, <1>b, <1>c, <1>d, <1>e DEF vars, sources, thread
<1>20. QED
  BY <1>1, <1>2, <1>3, <1>4, <1>5, <1>6, <1>7, <1>8, <1>9, <1>10, <1>11, <1>12, <1>13, <1>14,
     <1>15, <1>16, <1>17, <1>18, <1>19, <1>21
  DEF Next, ThreadStep, OutputStep, ShutdownStep

\* The typing holds in every run.
LEMMA TypedInvariant == Spec => []Typed
BY InitTyped, StepTyped, PTL DEF Spec

\* No receiver is ever ahead of its channel, and every variable keeps its type.
THEOREM TypeCorrect == Spec => []TypeOK
<1>1. Typed => TypeOK
  BY DEF Typed
<1>2. QED
  BY <1>1, TypedInvariant, PTL

-------------------------------------------------------------------------------
(* What has ended stays ended, and nothing is created during the shutdown.  *)

LEMMA NothingRestarts ==
    ASSUME Typed, [Next]_vars
    PROVE  /\ \A s \in Sources : src[s] \in SourceEnded => src'[s] = src[s]
           /\ \A o \in Outputs : out[o] \in OutputEnded => out'[o] = out[o]
           /\ tr \in ThreadEnded => tr' = tr
           /\ ctl # "loop" => ctl' # "loop"
           /\ ctl # "loop" => \A s \in Sources : src[s] = "absent" => src'[s] = "absent"
           /\ ctl # "loop" => \A o \in Outputs : out[o] = "absent" => out'[o] = "absent"
<1> DEFINE S == /\ \A s \in Sources : src[s] \in SourceEnded => src'[s] = src[s]
                /\ ctl # "loop" => \A s \in Sources : src[s] = "absent" => src'[s] = "absent"
<1> DEFINE O == /\ \A o \in Outputs : out[o] \in OutputEnded => out'[o] = out[o]
                /\ ctl # "loop" => \A o \in Outputs : out[o] = "absent" => out'[o] = "absent"
<1> DEFINE T == tr \in ThreadEnded => tr' = tr
<1> DEFINE L == ctl # "loop" => ctl' # "loop"
<1> USE DEF Typed
<1>1. ASSUME NEW s \in Sources,
             Measure(s) \/ Flush(s) \/ SourcePanics(s) \/ SourceEnds(s) \/ SourceFails(s) \/ CreateSource(s)
      PROVE  S /\ O /\ T /\ L
  BY <1>1 DEF Measure, Flush, SourcePanics, SourceEnds, SourceFails, CreateSource, SourceEnded,
              TypeOK, control, outs, thread
<1>2. CASE ThreadStep \/ TransformFails
  BY <1>2 DEF ThreadStep, TransformReceives, TransformSends, TransformEnds, TransformFails, ThreadEnded,
              control, sources, outs
<1>3. ASSUME NEW o \in Outputs, OutputStep(o) \/ OutputFails(o) \/ CreateOutput(o) PROVE S /\ O /\ T /\ L
  BY <1>3 DEF OutputStep, OutputWrites, OutputLags, OutputEnds, OutputFails, CreateOutput, Receiving,
              OutputEnded, TypeOK, control, sources, thread
<1>4. ASSUME NEW o \in Outputs, NEW c \in OutputCommands, SetOutput(o, c) PROVE S /\ O /\ T /\ L
  BY <1>4 DEF SetOutput, OutputEnded, TypeOK, control, sources, thread
<1>5. ASSUME NEW e \in Elements, Join(e) PROVE S /\ O /\ T /\ L
  BY <1>5 DEF Join, sources, outs, thread
<1>6. CASE RequestFails \/ Cancel \/ SourcesStopped \/ OutputsStopped
  BY <1>6 DEF RequestFails, Cancel, SourcesStopped, OutputsStopped, sources, outs, thread
<1>7. CASE StopSources
  BY <1>7 DEF StopSources, SourceEnded, outs, thread
<1>8. CASE StopOutputs
  BY <1>8 DEF StopOutputs, OutputEnded, sources, thread
<1>9. CASE UNCHANGED vars
  BY <1>9 DEF vars, control, sources, outs, thread
<1>10. S /\ O /\ T /\ L
  BY <1>1, <1>2, <1>3, <1>4, <1>5, <1>6, <1>7, <1>8, <1>9 DEF Next, ShutdownStep
<1>11. QED
  BY <1>10

-------------------------------------------------------------------------------
(* The control loop and the tasks.                                         *)

\* A joined task has ended, and its error is known; and each step
\* of the shutdown has joined all the tasks of its kind.
Joins ==
    /\ \A e \in joined : Finished(e)
    /\ \A e \in joined : Failed(e) => lastError
    /\ ctl \in {"transforms", "outputs", "done"} =>
          \A s \in Sources : src[s] = "absent" \/ s \in joined
    /\ ctl \in {"outputs", "done"} => tr = "none" \/ Thread \in joined
    /\ ctl = "done" => \A o \in Outputs : out[o] = "absent" \/ o \in joined

\* A task that has ended keeps its result.
LEMMA ResultsAreFinal ==
    ASSUME Typed, [Next]_vars, NEW e \in Elements, Finished(e)
    PROVE  Finished(e)' /\ (Failed(e)' <=> Failed(e))
<1>1. CASE e \in Sources
  <2>1. e \notin Outputs /\ e # Thread /\ src'[e] = src[e]
    BY <1>1, NothingRestarts, PipelineAssumption DEF Finished, Thread
  <2>2. QED
    BY <1>1, <2>1 DEF Finished, Failed
<1>2. CASE e \in Outputs
  <2>1. e \notin Sources /\ e # Thread /\ out'[e] = out[e]
    BY <1>2, NothingRestarts, PipelineAssumption DEF Finished, Thread
  <2>2. QED
    BY <1>2, <2>1 DEF Finished, Failed
<1>3. CASE e = Thread
  <2>1. e \notin Sources /\ e \notin Outputs
    BY <1>3, PipelineAssumption DEF Thread
  <2>2. tr' = tr
    BY <2>1, NothingRestarts DEF Finished, ThreadEnded
  <2>3. QED
    BY <1>3, <2>1, <2>2 DEF Finished, Failed
<1>4. QED
  BY <1>1, <1>2, <1>3 DEF Elements

\* What the control loop waited for has ended, in every run.
LEMMA JoinsInvariant == Spec => []Joins
<1>1. Init => Joins
  BY DEF Init, Joins
<1>2. Typed /\ Joins /\ [Next]_vars => Joins'
  <2> SUFFICES ASSUME Typed, Joins, [Next]_vars PROVE Joins'
    OBVIOUS
  <2>0. joined \subseteq Elements
    BY DEF Typed, TypeOK
  <2>1. CASE UNCHANGED joined /\ (lastError => lastError')
    <3>1. \A e \in joined : Finished(e)' /\ (Failed(e)' <=> Failed(e))
      BY <2>0, ResultsAreFinal DEF Joins
    <3>2. /\ \A e \in joined' : Finished(e)'
          /\ \A e \in joined' : Failed(e)' => lastError'
      BY <2>1, <3>1 DEF Joins
    <3>3. ctl' \in {"transforms", "outputs", "done"} =>
              \A s \in Sources : src'[s] = "absent" \/ s \in joined'
      <4>1. CASE ctl \in {"transforms", "outputs", "done"}
        BY <2>1, <4>1, NothingRestarts DEF Joins
      <4>2. CASE SourcesStopped
        BY <4>2 DEF SourcesStopped, sources
      <4>3. CASE ctl \in {"loop", "sources"} /\ ~SourcesStopped
        BY <4>3 DEF Next, vars, control, ThreadStep, OutputStep, ShutdownStep, Measure, Flush, SourcePanics,
           SourceEnds, SourceFails, CreateSource, TransformReceives, TransformSends, TransformEnds,
           TransformFails, OutputWrites, OutputLags, OutputEnds, OutputFails, CreateOutput, SetOutput,
           Join, RequestFails, Cancel, StopSources, StopOutputs, OutputsStopped
      <4>4. QED
        BY <4>1, <4>2, <4>3 DEF Typed, TypeOK
    <3>4. ctl' \in {"outputs", "done"} => tr' = "none" \/ Thread \in joined'
      <4>1. CASE ctl \in {"outputs", "done"}
        BY <2>1, <4>1, NothingRestarts DEF Joins, ThreadEnded
      <4>2. CASE StopOutputs
        BY <4>2 DEF StopOutputs, thread
      <4>3. CASE ctl \notin {"outputs", "done"} /\ ~StopOutputs
        BY <4>3 DEF Next, vars, control, ThreadStep, OutputStep, ShutdownStep, Measure, Flush, SourcePanics,
           SourceEnds, SourceFails, CreateSource, TransformReceives, TransformSends, TransformEnds,
           TransformFails, OutputWrites, OutputLags, OutputEnds, OutputFails, CreateOutput, SetOutput,
           Join, RequestFails, Cancel, StopSources, SourcesStopped, OutputsStopped
      <4>4. QED
        BY <4>1, <4>2, <4>3
    <3>5. ctl' = "done" => \A o \in Outputs : out'[o] = "absent" \/ o \in joined'
      <4>1. CASE ctl = "done"
        BY <2>1, <4>1, NothingRestarts DEF Joins
      <4>2. CASE OutputsStopped
        BY <4>2 DEF OutputsStopped, outs
      <4>3. CASE ctl # "done" /\ ~OutputsStopped
        BY <4>3 DEF Next, vars, control, ThreadStep, OutputStep, ShutdownStep, Measure, Flush, SourcePanics,
           SourceEnds, SourceFails, CreateSource, TransformReceives, TransformSends, TransformEnds,
           TransformFails, OutputWrites, OutputLags, OutputEnds, OutputFails, CreateOutput, SetOutput,
           Join, RequestFails, Cancel, StopSources, SourcesStopped, StopOutputs
      <4>4. QED
        BY <4>1, <4>2, <4>3
    <3>6. QED
      BY <3>2, <3>3, <3>4, <3>5 DEF Joins
  <2>2. ASSUME NEW e \in Elements, Join(e) PROVE Joins'
    <3>1. /\ joined' = joined \union {e} /\ Finished(e)
          /\ UNCHANGED <<ctl, src, out, tr>>
      BY <2>2 DEF Join, sources, outs, thread
    <3>2. lastError' <=> (lastError \/ Failed(e))
      BY <2>2 DEF Join
    <3>3. \A x : (Finished(x)' <=> Finished(x)) /\ (Failed(x)' <=> Failed(x))
      BY <3>1 DEF Finished, Failed
    <3>4. \A x \in joined' : Finished(x)'
      BY <3>1, <3>3 DEF Joins
    <3>5. \A x \in joined' : Failed(x)' => lastError'
      BY <3>1, <3>2, <3>3 DEF Joins
    <3>6. QED
      BY <3>1, <3>4, <3>5 DEF Joins
  <2>3. QED
    BY <2>1, <2>2 DEF Next, vars, control, ThreadStep, OutputStep, ShutdownStep, Measure, Flush, SourcePanics,
       SourceEnds, SourceFails, CreateSource, TransformReceives, TransformSends, TransformEnds,
       TransformFails, OutputWrites, OutputLags, OutputEnds, OutputFails, CreateOutput, SetOutput,
       RequestFails, Cancel, StopSources, SourcesStopped, StopOutputs, OutputsStopped
<1>3. QED
  BY <1>1, <1>2, TypedInvariant, PTL DEF Spec

\* The pipeline reports an error if one of its elements failed.
THEOREM EveryErrorIsReported == Spec => []ErrorsReported
<1>1. Typed /\ Joins => ErrorsReported
  <2> SUFFICES ASSUME Typed, Joins, ctl = "done", NEW e \in Elements, Failed(e)
               PROVE  lastError
    BY DEF ErrorsReported
  <2>1. e \in joined
    BY PipelineAssumption DEF Joins, Failed, Thread
  <2>2. QED
    BY <2>1 DEF Joins
<1>2. QED
  BY <1>1, TypedInvariant, JoinsInvariant, PTL

-------------------------------------------------------------------------------
(* The measurements.                                                       *)

\* A source that ended normally has flushed everything, and one that does not
\* exist yet has nothing.
SourceDrained ==
    \A s \in Sources : src[s] \in {"ended", "absent"} => flushed[s] = made[s]

\* A source that stopped left nothing behind, in every run.
LEMMA SourceDrainedInvariant == Spec => []SourceDrained
<1>1. Init => SourceDrained
  BY DEF Init, SourceDrained
<1>2. Typed /\ SourceDrained /\ [Next]_vars => SourceDrained'
  <2> SUFFICES ASSUME Typed, SourceDrained, [Next]_vars PROVE SourceDrained'
    OBVIOUS
  <2>1. CASE UNCHANGED <<src, made, flushed>>
    BY <2>1 DEF SourceDrained
  <2>2. ASSUME NEW s \in Sources,
               Measure(s) \/ Flush(s) \/ SourcePanics(s) \/ SourceEnds(s) \/ SourceFails(s) \/ CreateSource(s)
        PROVE  SourceDrained'
    BY <2>2 DEF Measure, Flush, SourcePanics, SourceEnds, SourceFails, CreateSource, SourceDrained, Typed, TypeOK
  <2>3. CASE StopSources
    BY <2>3 DEF StopSources, SourceDrained, Typed, TypeOK
  <2>4. QED
    BY <2>1, <2>2, <2>3 DEF Next, vars, sources, ThreadStep, OutputStep, ShutdownStep, TransformReceives,
       TransformSends, TransformEnds, TransformFails, OutputWrites, OutputLags, OutputEnds, OutputFails,
       CreateOutput, SetOutput, Join, RequestFails, Cancel, SourcesStopped, StopOutputs, OutputsStopped
<1>3. QED
  BY <1>1, <1>2, TypedInvariant, PTL DEF Spec

\* A channel whose senders are gone stays closed, and nothing is sent to it.
LEMMA ClosedIsFinal ==
    ASSUME Typed, [Next]_vars, InClosed
    PROVE  InClosed' /\ insent' = insent
<1>1. ctl' \in {"transforms", "outputs", "done"}
  BY DEF InClosed, Next, vars, control, ThreadStep, OutputStep, ShutdownStep, Measure, Flush, SourcePanics,
         SourceEnds, SourceFails, CreateSource, TransformReceives, TransformSends, TransformEnds,
         TransformFails, OutputWrites, OutputLags, OutputEnds, OutputFails, CreateOutput, SetOutput,
         Join, RequestFails, Cancel, StopSources, SourcesStopped, StopOutputs, OutputsStopped
<1>2. ctl # "loop"
  BY DEF InClosed
<1>3. \A s \in Sources : src'[s] \in SourceEnded \union {"absent"}
  BY <1>2, NothingRestarts DEF InClosed
<1>4. insent' = insent
  <2>1. ASSUME NEW s \in Sources, Flush(s) PROVE FALSE
    BY <2>1 DEF Flush, InClosed, SourceEnded
  <2>2. QED
    BY <2>1 DEF Next, vars, sources, ThreadStep, OutputStep, ShutdownStep, Measure, SourcePanics,
       SourceEnds, SourceFails, CreateSource, TransformReceives, TransformSends, TransformEnds,
       TransformFails, OutputWrites, OutputLags, OutputEnds, OutputFails, CreateOutput, SetOutput,
       Join, RequestFails, Cancel, StopSources, SourcesStopped, StopOutputs, OutputsStopped
<1>5. QED
  BY <1>1, <1>3, <1>4 DEF InClosed

\* The thread ends after everything that was sent to it has been received.
ThreadDrained == tr = "ended" => InClosed /\ inrecv = insent

\* A transform thread that stopped left nothing in its channel, in every run.
LEMMA ThreadDrainedInvariant == Spec => []ThreadDrained
<1>1. Init => ThreadDrained
  BY DEF Init, ThreadDrained
<1>2. Typed /\ ThreadDrained /\ [Next]_vars => ThreadDrained'
  <2> SUFFICES ASSUME Typed, ThreadDrained, [Next]_vars, tr' = "ended" PROVE InClosed' /\ inrecv' = insent'
    BY DEF ThreadDrained
  <2>1. CASE TransformEnds
    BY <2>1, ClosedIsFinal DEF TransformEnds
  <2>2. CASE ~TransformEnds
    <3>1. tr = "ended" /\ inrecv' = inrecv
      BY <2>2 DEF Next, vars, thread, ThreadStep, OutputStep, ShutdownStep, Measure, Flush, SourcePanics,
         SourceEnds, SourceFails, CreateSource, TransformReceives, TransformSends,
         TransformFails, OutputWrites, OutputLags, OutputEnds, OutputFails, CreateOutput, SetOutput,
         Join, RequestFails, Cancel, StopSources, SourcesStopped, StopOutputs, OutputsStopped
    <3>2. QED
      BY <3>1, ClosedIsFinal DEF ThreadDrained
  <2>3. QED
    BY <2>1, <2>2
<1>3. QED
  BY <1>1, <1>2, TypedInvariant, PTL DEF Spec

\* When the transforms finish, no measurement is left behind them.
THEOREM TransformsAreLast == Spec => []TransformsEndLast
<1>1. Typed /\ ThreadDrained => TransformsEndLast
  BY DEF Typed, Accounts, ThreadDrained, InClosed, TransformsEndLast
<1>2. QED
  BY <1>1, TypedInvariant, ThreadDrainedInvariant, PTL

\* What is before the cursor of an output was written, or missed.
Delivered ==
    \A o \in Outputs :
        /\ start[o] <= next[o] /\ start[o]..(next[o] - 1) = written[o] \union missed[o]
        /\ out[o] = "absent" => written[o] = {} /\ missed[o] = {}

\* What is known of the buffers delivered holds in every run.
LEMMA DeliveredInvariant == Spec => []Delivered
<1>1. Init => Delivered
  <2>1. 1..(1 - 1) = {}
    OBVIOUS
  <2>2. QED
    BY <2>1 DEF Init, Delivered
<1>2. Typed /\ Delivered /\ [Next]_vars => Delivered'
  <2> SUFFICES ASSUME Typed, Delivered, [Next]_vars PROVE Delivered'
    OBVIOUS
  <2>0. /\ Sent \in Nat
        /\ next \in [Outputs -> 1..(Sent + 1)] /\ start \in [Outputs -> 1..(Sent + 1)]
        /\ written \in [Outputs -> SUBSET (1..Sent)] /\ missed \in [Outputs -> SUBSET (1..Sent)]
    BY OldestBounds DEF Typed, TypeOK
  <2>a. \A p \in Outputs : out'[p] = "absent" => out[p] = "absent"
    <3> USE DEF Typed, TypeOK
    <3>1. ASSUME NEW o \in Outputs,
                 OutputStep(o) \/ OutputFails(o) \/ CreateOutput(o) \/ \E c \in OutputCommands : SetOutput(o, c)
          PROVE  \A p \in Outputs : out'[p] = "absent" => out[p] = "absent"
      BY <3>1 DEF OutputStep, OutputWrites, OutputLags, OutputEnds, OutputFails, CreateOutput, SetOutput
    <3>2. CASE StopOutputs
      BY <3>2 DEF StopOutputs
    <3>3. CASE UNCHANGED out
      BY <3>3
    <3>4. QED
      BY <3>1, <3>2, <3>3 DEF Next, vars, outs, ThreadStep, ShutdownStep, Measure, Flush,
         SourcePanics, SourceEnds, SourceFails, CreateSource, TransformReceives, TransformSends, TransformEnds,
         TransformFails, Join, RequestFails, Cancel, StopSources, SourcesStopped, OutputsStopped
  <2>1. CASE UNCHANGED <<next, start, written, missed>>
    BY <2>1, <2>a DEF Delivered
  <2>2. ASSUME NEW o \in Outputs, OutputWrites(o) PROVE Delivered'
    <3>1. /\ written' = [written EXCEPT ![o] = @ \union {next[o]}]
          /\ next' = [next EXCEPT ![o] = @ + 1] /\ start' = start /\ missed' = missed
      BY <2>2 DEF OutputWrites
    <3>2. start[o]..next[o] = start[o]..(next[o] - 1) \union {next[o]} /\ start[o] <= next[o] + 1
      BY <2>0 DEF Delivered
    <3>3. (next[o] + 1) - 1 = next[o]
      BY <2>0
    <3>4. /\ next'[o] = next[o] + 1 /\ written'[o] = written[o] \union {next[o]}
          /\ \A p \in Outputs \ {o} : next'[p] = next[p] /\ written'[p] = written[p]
      BY <2>0, <3>1
    <3>5. out[o] # "absent"
      BY <2>2 DEF OutputWrites, Receiving
    <3>6. QED
      BY <2>a, <3>1, <3>2, <3>3, <3>4, <3>5 DEF Delivered
  <2>3. ASSUME NEW o \in Outputs, NEW n \in Nat, next[o] <= n, out[o] # "absent",
               missed' = [missed EXCEPT ![o] = @ \union next[o]..(n - 1)],
               next' = [next EXCEPT ![o] = n],
               UNCHANGED <<start, written>>
        PROVE  Delivered'
    <3>1. start[o]..(n - 1) = start[o]..(next[o] - 1) \union next[o]..(n - 1) /\ start[o] <= n
      BY <2>0, <2>3 DEF Delivered
    <3>2. /\ next'[o] = n /\ missed'[o] = missed[o] \union next[o]..(n - 1)
          /\ \A p \in Outputs \ {o} : next'[p] = next[p] /\ missed'[p] = missed[p]
      BY <2>0, <2>3
    <3>3. QED
      BY <2>3, <2>a, <3>1, <3>2 DEF Delivered
  <2>4. ASSUME NEW o \in Outputs, OutputLags(o) PROVE Delivered'
    <3>1. Oldest \in Nat /\ next[o] <= Oldest
      BY <2>0, <2>4, OldestBounds DEF OutputLags, Typed
    <3>2. QED
      BY <2>3, <2>4, <3>1 DEF OutputLags, Receiving
  <2>5. ASSUME NEW o \in Outputs, NEW c \in OutputCommands, SetOutput(o, c), c = "RunDiscard" PROVE Delivered'
    <3>1. Sent + 1 \in Nat /\ next[o] <= Sent + 1 /\ (Sent + 1) - 1 = Sent
      BY <2>0
    <3>2. QED
      BY <2>3, <2>5, <3>1 DEF SetOutput
  <2>6. ASSUME NEW o \in Outputs, CreateOutput(o) PROVE Delivered'
    <3>1. /\ next'[o] = Sent + 1 /\ start'[o] = Sent + 1
          /\ \A p \in Outputs \ {o} : next'[p] = next[p] /\ start'[p] = start[p]
          /\ UNCHANGED <<written, missed>>
      BY <2>0, <2>6 DEF CreateOutput
    <3>2. written[o] = {} /\ missed[o] = {}
      BY <2>6 DEF CreateOutput, Delivered
    <3>3. (Sent + 1)..((Sent + 1) - 1) = {} /\ Sent + 1 <= Sent + 1
      BY <2>0
    <3>4. out'[o] # "absent"
      BY <2>6 DEF CreateOutput, Typed, TypeOK
    <3>5. QED
      BY <2>a, <3>1, <3>2, <3>3, <3>4 DEF Delivered
  <2>7. QED
    BY <2>1, <2>2, <2>4, <2>5, <2>6 DEF Next, vars, outs, ThreadStep, OutputStep, ShutdownStep, Measure, Flush,
       SourcePanics, SourceEnds, SourceFails, CreateSource, TransformReceives, TransformSends, TransformEnds,
       TransformFails, OutputEnds, OutputFails, SetOutput, Join, RequestFails, Cancel, StopSources, SourcesStopped,
       StopOutputs, OutputsStopped
<1>3. QED
  BY <1>1, <1>2, TypedInvariant, PTL DEF Spec

\* An output that ended has reached the end of a channel that was closed.
OutputDrained ==
    \A o \in Outputs : out[o] = "ended" => OutClosed /\ next[o] > Sent

\* Once the channel of the outputs is closed, nothing more is sent on it.
LEMMA OutClosedIsFinal ==
    ASSUME Typed, [Next]_vars, OutClosed
    PROVE  OutClosed' /\ Sent' = Sent
<1>1. CASE Simplified
  BY <1>1, ClosedIsFinal DEF OutClosed, Sent
<1>2. CASE ~Simplified
  <2>1. tr \in ThreadEnded /\ ctl \in {"outputs", "done"}
    BY <1>2 DEF OutClosed
  <2>2. tr' = tr
    BY <2>1, NothingRestarts
  <2>3. ctl' \in {"outputs", "done"}
    BY <2>1 DEF Next, vars, control, ThreadStep, OutputStep, ShutdownStep, Measure, Flush, SourcePanics,
         SourceEnds, SourceFails, CreateSource, TransformReceives, TransformSends, TransformEnds,
         TransformFails, OutputWrites, OutputLags, OutputEnds, OutputFails, CreateOutput, SetOutput,
         Join, RequestFails, Cancel, StopSources, SourcesStopped, StopOutputs, OutputsStopped
  <2>4. outsent' = outsent
    <3>1. ~TransformSends
      BY <2>1 DEF TransformSends, ThreadEnded
    <3>2. QED
      BY <3>1 DEF Next, vars, thread, ThreadStep, OutputStep, ShutdownStep, Measure, Flush, SourcePanics,
         SourceEnds, SourceFails, CreateSource, TransformReceives, TransformEnds,
         TransformFails, OutputWrites, OutputLags, OutputEnds, OutputFails, CreateOutput, SetOutput,
         Join, RequestFails, Cancel, StopSources, SourcesStopped, StopOutputs, OutputsStopped
  <2>5. QED
    BY <1>2, <2>1, <2>2, <2>3, <2>4 DEF OutClosed, Sent
<1>3. QED
  BY <1>1, <1>2

\* An output that stopped after the channel closed left nothing in it, in every run.
LEMMA OutputDrainedInvariant == Spec => []OutputDrained
<1>1. Init => OutputDrained
  BY DEF Init, OutputDrained
<1>2. Typed /\ OutputDrained /\ [Next]_vars => OutputDrained'
  <2> SUFFICES ASSUME Typed, OutputDrained, [Next]_vars, NEW p \in Outputs, out'[p] = "ended"
               PROVE  OutClosed' /\ next'[p] > Sent'
    BY DEF OutputDrained
  <2>1. OutClosed /\ next[p] > Sent /\ next'[p] = next[p]
    <3> USE DEF Typed, TypeOK
    <3>1. ASSUME NEW o \in Outputs, OutputEnds(o) PROVE OutClosed /\ next[p] > Sent /\ next'[p] = next[p]
      BY <3>1 DEF OutputEnds, OutputDrained
    <3>2. ASSUME NEW o \in Outputs,
                 OutputWrites(o) \/ OutputLags(o) \/ OutputFails(o) \/ CreateOutput(o)
                 \/ \E c \in OutputCommands : SetOutput(o, c)
          PROVE  OutClosed /\ next[p] > Sent /\ next'[p] = next[p]
      BY <3>2 DEF OutputWrites, OutputLags, OutputFails, CreateOutput, SetOutput, Receiving, OutputDrained
    <3>3. CASE StopOutputs
      BY <3>3 DEF StopOutputs, OutputDrained
    <3>4. CASE UNCHANGED <<out, next>>
      BY <3>4 DEF OutputDrained
    <3>5. QED
      BY <3>1, <3>2, <3>3, <3>4 DEF Next, vars, outs, ThreadStep, OutputStep, ShutdownStep, Measure, Flush,
         SourcePanics, SourceEnds, SourceFails, CreateSource, TransformReceives, TransformSends, TransformEnds,
         TransformFails, Join, RequestFails, Cancel, StopSources, SourcesStopped, OutputsStopped
  <2>2. QED
    BY <2>1, OutClosedIsFinal
<1>3. QED
  BY <1>1, <1>2, TypedInvariant, PTL DEF Spec

\* End to end, for any pipeline: without a failure, every measurement reaches
\* every output that ended, or a lag or a discard accounts for it.
THEOREM EverythingArrives == Spec => []EndToEnd
<1>1. Typed /\ Joins /\ SourceDrained /\ ThreadDrained /\ Delivered /\ OutputDrained => EndToEnd
  <2> SUFFICES ASSUME Typed, Joins, SourceDrained, ThreadDrained, Delivered, OutputDrained,
                      ctl = "done", \A e \in Elements : ~Failed(e)
               PROVE  /\ \A s \in Sources : flushed[s] = made[s]
                      /\ Sent = insent
                      /\ \A o \in Outputs : out[o] = "ended" => start[o]..insent = written[o] \union missed[o]
    BY DEF EndToEnd
  <2>1. \A e \in joined : Finished(e) /\ ~Failed(e)
    BY DEF Joins, Typed, TypeOK
  <2>2. \A s \in Sources : src[s] \in {"ended", "absent"}
    <3> TAKE s \in Sources
    <3>1. s \notin Outputs /\ s # Thread
      BY PipelineAssumption DEF Thread
    <3>2. src[s] = "absent" \/ (Finished(s) /\ ~Failed(s))
      BY <2>1 DEF Joins
    <3>3. QED
      BY <3>1, <3>2 DEF Finished, Failed, SourceEnded
  <2>3. \A s \in Sources : flushed[s] = made[s]
    BY <2>2 DEF SourceDrained
  <2>4. tr \in {"none", "ended"}
    <3>1. Thread \notin Sources /\ Thread \notin Outputs
      BY PipelineAssumption DEF Thread
    <3>2. tr = "none" \/ (Finished(Thread) /\ ~Failed(Thread))
      BY <2>1 DEF Joins
    <3>3. QED
      BY <3>1, <3>2 DEF Finished, Failed
  <2>5. Sent = insent
    BY <2>4 DEF Sent, Typed, Accounts, ThreadDrained
  <2>6. ASSUME NEW o \in Outputs, out[o] = "ended" PROVE start[o]..insent = written[o] \union missed[o]
    <3>1. next[o] = insent + 1
      BY <2>5, <2>6 DEF OutputDrained, Typed, TypeOK
    <3>2. QED
      BY <3>1 DEF Delivered, Typed, TypeOK
  <2>7. QED
    BY <2>3, <2>5, <2>6
<1>2. QED
  BY <1>1, TypedInvariant, JoinsInvariant, SourceDrainedInvariant, ThreadDrainedInvariant,
     DeliveredInvariant, OutputDrainedInvariant, PTL

\* The abstract pipeline is broken when a source, an output or the thread has failed.
LEMMA BrokenIs ==
    Broken <=> \/ \E s \in Sources : src[s] \in {"failed", "panicked"}
               \/ \E o \in Outputs : out[o] = "failed"
               \/ tr = "failed"
BY PipelineAssumption DEF Broken, Failed, Elements, Thread

\* The phase of a source depends on its own state only, and that of an output too.
LEMMA PhasesAre ==
    /\ DOMAIN Phases = Sources \union Outputs
    /\ \A s \in Sources : Phases[s] = CASE src[s] \in {"run", "stopping"} -> "active"
                                        [] src[s] \in {"failed", "panicked"} -> "broken"
                                        [] OTHER -> src[s]
    /\ \A o \in Outputs : Phases[o] = CASE out[o] \in {"run", "finish"} -> "active"
                                        [] out[o] = "failed" -> "broken"
                                        [] OTHER -> out[o]
BY PipelineAssumption DEF Phases, PhaseOf

\* Steps that do not move the elements.
LEMMA SamePhases ==
    ASSUME UNCHANGED <<src, out>>
    PROVE  Phases' = Phases
BY DEF Phases, PhaseOf

\* The step of one source, or of one output, to another phase.
LEMMA SourcePhase ==
    ASSUME TypeOK, NEW s \in Sources, NEW v, src' = [src EXCEPT ![s] = v], out' = out,
           NEW p, p = CASE v \in {"run", "stopping"} -> "active"
                        [] v \in {"failed", "panicked"} -> "broken"
                        [] OTHER -> v
    PROVE  Phases' = [Phases EXCEPT ![s] = p]
<1>1. \A e \in Sources \union Outputs : PhaseOf(e)' = IF e = s THEN p ELSE PhaseOf(e)
  BY DEF PhaseOf, TypeOK
<1>2. QED
  BY <1>1 DEF Phases

LEMMA OutputPhase ==
    ASSUME TypeOK, NEW o \in Outputs, NEW v, out' = [out EXCEPT ![o] = v], src' = src,
           NEW p, p = CASE v \in {"run", "finish"} -> "active"
                        [] v = "failed" -> "broken"
                        [] OTHER -> v
    PROVE  Phases' = [Phases EXCEPT ![o] = p]
<1>1. o \notin Sources
  BY PipelineAssumption
<1>2. \A e \in Sources \union Outputs : PhaseOf(e)' = IF e = o THEN p ELSE PhaseOf(e)
  BY <1>1 DEF PhaseOf, TypeOK
<1>3. QED
  BY <1>2 DEF Phases

LEMMA SamePending ==
    ASSUME UNCHANGED <<made, flushed>>
    PROVE  Pending' = Pending
BY DEF Pending

\* A step of the control loop that does not close the pipeline.
LEMMA SameStatus ==
    ASSUME (UNCHANGED <<ctl, lastError>>) \/ (ctl # "done" /\ ctl' # "done")
    PROVE  Status' = Status
BY DEF Status

\* A source has made at least what it has flushed.
FlushedWasMade == \A s \in Sources : flushed[s] <= made[s]

LEMMA FlushedInvariant == Spec => []FlushedWasMade
<1>1. Init => FlushedWasMade
  BY DEF Init, FlushedWasMade
<1>2. Typed /\ FlushedWasMade /\ [Next]_vars => FlushedWasMade'
  <2> SUFFICES ASSUME Typed, FlushedWasMade, [Next]_vars PROVE FlushedWasMade'
    OBVIOUS
  <2>1. ASSUME NEW s \in Sources, Measure(s) \/ Flush(s) PROVE FlushedWasMade'
    BY <2>1 DEF Measure, Flush, FlushedWasMade, Typed, TypeOK
  <2>2. CASE UNCHANGED <<made, flushed>>
    BY <2>2 DEF FlushedWasMade
  <2>3. QED
    BY <2>1, <2>2 DEF Next, vars, sources, ThreadStep, OutputStep, ShutdownStep, SourcePanics,
       SourceEnds, SourceFails, CreateSource, TransformReceives, TransformSends, TransformEnds,
       TransformFails, OutputWrites, OutputLags, OutputEnds, OutputFails, CreateOutput, SetOutput,
       Join, RequestFails, Cancel, StopSources, SourcesStopped, StopOutputs, OutputsStopped
<1>3. QED
  BY <1>1, <1>2, TypedInvariant, PTL DEF Spec

\* Everything that the proofs above know of a state.
PipelineInv ==
    Typed /\ Joins /\ SourceDrained /\ ThreadDrained /\ Delivered /\ OutputDrained /\ FlushedWasMade

\* The position of an output is one of the abstract channel.
LEMMA SentIsAccepted ==
    ASSUME TypeOK
    PROVE  Sent <= insent /\ Sent \in Nat /\ insent \in Nat /\ Oldest \in 1..(Sent + 1)
BY OldestBounds DEF TypeOK, Sent

LEMMA InitPromise == Init => Promise!Init
<1> SUFFICES ASSUME Init PROVE Promise!Init
  OBVIOUS
<1>1. Phases \in [Sources \union Outputs -> {"absent", "active"}]
  BY PipelineAssumption DEF Init, Phases, PhaseOf
<1>2. Pending = [s \in Sources |-> 0]
  BY DEF Init, Pending
<1>3. ~Broken
  BY BrokenIs DEF Init
<1>4. Status = "open"
  BY DEF Init, Status
<1>5. QED
  BY <1>1, <1>2, <1>3, <1>4 DEF Init, Promise!Init

\* The steps of the sources.
LEMMA SourcesKeepPromise ==
    ASSUME PipelineInv, NEW s \in Sources,
           Measure(s) \/ Flush(s) \/ SourcePanics(s) \/ SourceEnds(s) \/ SourceFails(s) \/ CreateSource(s)
    PROVE  [Promise!Next]_(Promise!vars)
<1>0. /\ TypeOK /\ DOMAIN Phases = Sources \union Outputs
      /\ Status' = Status /\ out' = out /\ tr' = tr /\ next' = next /\ written' = written
  BY SameStatus, PhasesAre DEF PipelineInv, Typed, Measure, Flush, SourcePanics, SourceEnds, SourceFails, CreateSource,
     control, outs, thread
<1>1. CASE Measure(s)
  <2>1. Phases[s] = "active"
    BY <1>1, PhasesAre DEF Measure
  <2>2. Phases' = Phases /\ (Broken' <=> Broken)
    BY <1>0, <1>1, SamePhases, BrokenIs DEF Measure, Broken, Failed
  <2>3. Pending' = [Pending EXCEPT ![s] = @ + 1]
    <3>1. \A r \in Sources : Pending'[r] = IF r = s THEN Pending[r] + 1 ELSE Pending[r]
      <4>1. made'[s] = made[s] + 1 /\ made[s] \in Nat /\ flushed[s] \in Nat
        BY <1>0, <1>1, PipelineAssumption DEF Measure, TypeOK
      <4>2. /\ \A r \in Sources \ {s} : made'[r] = made[r]
            /\ flushed' = flushed
        BY <1>0, <1>1 DEF Measure, TypeOK
      <4>3. QED
        BY <4>1, <4>2 DEF Pending
    <3>2. QED
      BY <3>1 DEF Pending
  <2>4. Promise!Make(s)
    BY <1>0, <1>1, <2>1, <2>2, <2>3 DEF Measure, Promise!Make, Promise!outputVars
  <2>5. QED
    BY <2>4 DEF Promise!Next
<1>2. CASE Flush(s)
  <2>1. Phases[s] = "active"
    BY <1>2, PhasesAre DEF Flush
  <2>2. Phases' = Phases /\ (Broken' <=> Broken)
    BY <1>0, <1>2, SamePhases, BrokenIs DEF Flush, Broken, Failed
  <2>3. Pending' = [Pending EXCEPT ![s] = 0]
    <3>1. \A r \in Sources : Pending'[r] = IF r = s THEN 0 ELSE Pending[r]
      <4>1. flushed'[s] = made[s] /\ made' = made /\ made[s] \in Nat
        BY <1>0, <1>2, PipelineAssumption DEF Flush, TypeOK
      <4>2. \A r \in Sources \ {s} : flushed'[r] = flushed[r]
        BY <1>0, <1>2 DEF Flush, TypeOK
      <4>3. QED
        BY <4>1, <4>2 DEF Pending
    <3>2. QED
      BY <3>1 DEF Pending
  <2>4. Promise!HandOver(s)
    BY <1>0, <1>2, <2>1, <2>2, <2>3 DEF Flush, Promise!HandOver, Promise!outputVars
  <2>5. QED
    BY <2>4 DEF Promise!Next
<1>3. CASE SourcePanics(s) \/ SourceFails(s)
  <2>1. /\ Phases[s] = "active" /\ Phases' = [Phases EXCEPT ![s] = "broken"]
        /\ src'[s] \in {"failed", "panicked"}
    <3>1. PICK v \in {"failed", "panicked"} : src' = [src EXCEPT ![s] = v]
      BY <1>3 DEF SourcePanics, SourceFails
    <3>2. Phases' = [Phases EXCEPT ![s] = "broken"]
      BY <1>0, <3>1, SourcePhase
    <3>3. QED
      BY <1>0, <1>3, <3>1, <3>2, PhasesAre DEF SourcePanics, SourceFails, TypeOK
  <2>2. Broken'
    <3>1. \E e \in Elements : Failed(e)'
      BY <2>1 DEF Failed, Elements
    <3>2. QED
      BY <3>1 DEF Broken
  <2>3. Pending' = Pending /\ insent' = insent
    BY <1>3, SamePending DEF SourcePanics, SourceFails
  <2>4. Promise!Break(s)
    BY <1>0, <2>1, <2>2, <2>3 DEF Promise!Break, Promise!Becomes, Promise!outputVars, Promise!sourceVars
  <2>5. QED
    BY <2>4 DEF Promise!Next
<1>4. CASE SourceEnds(s)
  <2>1. Phases[s] = "active" /\ Phases' = [Phases EXCEPT ![s] = "ended"]
    <3>1. src' = [src EXCEPT ![s] = "ended"]
      BY <1>4 DEF SourceEnds
    <3>2. Phases' = [Phases EXCEPT ![s] = "ended"]
      BY <1>0, <3>1, SourcePhase
    <3>3. QED
      BY <1>4, <3>2, PhasesAre DEF SourceEnds
  <2>2. Broken' <=> Broken
    <3>1. \A e \in Elements : Failed(e)' <=> Failed(e)
      BY <1>0, <1>4 DEF SourceEnds, Failed, TypeOK
    <3>2. QED
      BY <3>1 DEF Broken
  <2>3. Pending' = Pending /\ insent' = insent /\ Pending[s] = 0
    BY <1>0, <1>4, SamePending DEF SourceEnds, Pending, TypeOK
  <2>4. Promise!EndSource(s)
    BY <1>0, <2>1, <2>2, <2>3 DEF Promise!EndSource, Promise!Becomes, Promise!outputVars, Promise!sourceVars
  <2>5. QED
    BY <2>4 DEF Promise!Next
<1>5. CASE CreateSource(s)
  <2>1. Phases[s] = "absent" /\ Phases' = [Phases EXCEPT ![s] = "active"] /\ Status = "open"
    <3>1. src' = [src EXCEPT ![s] = "run"]
      BY <1>5 DEF CreateSource
    <3>2. Phases' = [Phases EXCEPT ![s] = "active"]
      BY <1>0, <3>1, SourcePhase
    <3>3. QED
      BY <1>5, <3>2, PhasesAre DEF CreateSource, Status
  <2>2. Broken' <=> Broken
    <3>1. \A e \in Elements : Failed(e)' <=> Failed(e)
      BY <1>0, <1>5 DEF CreateSource, Failed, TypeOK
    <3>2. QED
      BY <3>1 DEF Broken
  <2>3. Pending' = Pending /\ insent' = insent
    BY <1>5, SamePending DEF CreateSource
  <2>4. Promise!CreateSource(s)
    BY <1>0, <2>1, <2>2, <2>3 DEF Promise!CreateSource, Promise!outputVars, Promise!sourceVars
  <2>5. QED
    BY <2>4 DEF Promise!Next
<1>6. QED
  BY <1>1, <1>2, <1>3, <1>4, <1>5

\* The steps of the transform thread: only its failure is seen from outside.
LEMMA ThreadKeepsPromise ==
    ASSUME PipelineInv, ThreadStep \/ TransformFails
    PROVE  [Promise!Next]_(Promise!vars)
<1>1. /\ Phases' = Phases /\ Pending' = Pending /\ Status' = Status
      /\ UNCHANGED <<insent, next, written, src, out, ctl>>
  BY SamePhases, SamePending, SameStatus
  DEF ThreadStep, TransformReceives, TransformSends, TransformEnds, TransformFails, control, sources, outs
<1>2. CASE tr' = "failed"
  <2>1. Status = "open"
    <3>1. tr \notin ThreadEnded
      BY <1>2 DEF ThreadStep, TransformReceives, TransformSends, TransformEnds, TransformFails, ThreadEnded
    <3>2. Thread \notin joined
      BY <3>1, PipelineAssumption DEF PipelineInv, Joins, Finished, Thread, ThreadEnded
    <3>3. QED
      BY <3>1, <3>2 DEF PipelineInv, Joins, ThreadEnded, Status
  <2>2. Broken'
    BY <1>2 DEF Broken, Failed, Elements
  <2>3. Promise!BreakTransforms
    BY <1>1, <2>1, <2>2 DEF Promise!BreakTransforms, Promise!outputVars, Promise!sourceVars
  <2>4. QED
    BY <2>3 DEF Promise!Next
<1>3. CASE tr' # "failed"
  <2>1. tr # "failed"
    BY <1>3 DEF ThreadStep, TransformReceives, TransformSends, TransformEnds, TransformFails
  <2>2. \A e \in Elements : Failed(e)' <=> Failed(e)
    BY <1>1, <1>3, <2>1 DEF Failed
  <2>3. Broken' <=> Broken
    BY <2>2 DEF Broken
  <2>4. QED
    BY <1>1, <2>3 DEF Promise!vars, Promise!outputVars, Promise!sourceVars
<1>4. QED
  BY <1>2, <1>3

\* A step of an output that takes it to a later position of the channel.
LEMMA SkippingKeepsPromise ==
    ASSUME PipelineInv, NEW o \in Outputs, out[o] \in {"run", "finish"}, NEW n \in Nat,
           next[o] <= n, n <= insent + 1, next' = [next EXCEPT ![o] = n],
           Phases' = Phases, Pending' = Pending, Status' = Status, Broken' = Broken,
           UNCHANGED <<insent, written>>
    PROVE  [Promise!Next]_(Promise!vars)
<1>1. next \in [Outputs -> Nat] /\ insent \in Nat
  <2>1. next \in [Outputs -> 1..(Sent + 1)] /\ Sent \in Nat /\ insent \in Nat
    BY SentIsAccepted DEF PipelineInv, Typed, TypeOK
  <2>2. QED
    BY <2>1
<1>2. CASE next[o] = n
  <2>1. next' = next
    BY <1>1, <1>2
  <2>2. QED
    BY <2>1 DEF Promise!vars, Promise!outputVars, Promise!sourceVars
<1>3. CASE next[o] # n
  <2>1. next[o] < n
    BY <1>1, <1>3
  <2>2. Promise!Skip(o, n)
    BY <2>1, PhasesAre DEF Promise!Skip, Promise!sourceVars
  <2>3. n \in 1..(insent + 1)
    <3>1. next[o] \in Nat
      BY <1>1
    <3>2. QED
      BY <1>1, <2>1, <3>1
  <2>4. QED
    BY <2>2, <2>3 DEF Promise!Next
<1>4. QED
  BY <1>2, <1>3

\* The steps that an output takes by itself.
LEMMA OutputsKeepPromise ==
    ASSUME PipelineInv, NEW o \in Outputs, OutputStep(o) \/ OutputFails(o)
    PROVE  [Promise!Next]_(Promise!vars)
<1>0. /\ TypeOK /\ Pending' = Pending /\ Status' = Status
      /\ UNCHANGED <<src, tr, insent, ctl, outsent, inrecv>>
  BY SamePending, SameStatus
  DEF PipelineInv, Typed, OutputStep, OutputWrites, OutputLags, OutputEnds, OutputFails, control, sources, thread
<1>1. out[o] \in {"run", "finish"} /\ Phases[o] = "active"
  BY PhasesAre DEF OutputStep, OutputWrites, OutputLags, OutputEnds, OutputFails, Receiving
<1>a. ASSUME out' = out PROVE Phases' = Phases /\ Broken' = Broken
  BY <1>0, <1>a, SamePhases DEF Broken, Failed
<1>2. CASE OutputWrites(o)
  <2>1. Phases' = Phases /\ Broken' = Broken
    BY <1>2, <1>a DEF OutputWrites
  <2>2. next[o] <= insent
    BY <1>0, <1>2, SentIsAccepted DEF OutputWrites, TypeOK
  <2>3. Promise!Write(o)
    BY <1>0, <1>1, <1>2, <2>1, <2>2 DEF OutputWrites, Promise!Write, Promise!sourceVars
  <2>4. QED
    BY <2>3 DEF Promise!Next
<1>3. CASE OutputLags(o)
  <2>1. Phases' = Phases /\ Broken' = Broken
    BY <1>3, <1>a DEF OutputLags
  <2>2. Oldest \in Nat /\ next[o] <= Oldest /\ Oldest <= insent + 1
    BY <1>0, <1>3, SentIsAccepted DEF OutputLags, TypeOK
  <2>3. QED
    BY <1>0, <1>1, <1>3, <2>1, <2>2, SkippingKeepsPromise DEF OutputLags
<1>4. CASE OutputEnds(o)
  <2>1. Phases' = [Phases EXCEPT ![o] = "ended"]
    BY <1>0, <1>4, OutputPhase DEF OutputEnds
  <2>2. Broken' = Broken
    <3>1. \A e \in Elements : Failed(e)' <=> Failed(e)
      BY <1>0, <1>1, <1>4 DEF OutputEnds, Failed, TypeOK
    <3>2. QED
      BY <3>1 DEF Broken
  <2>3. \A s \in Sources : Phases[s] # "active"
    <3>1. \A s \in Sources : src[s] \in SourceEnded \union {"absent"}
      <4>1. CASE Simplified
        BY <1>4, <4>1 DEF OutputEnds, OutClosed, InClosed
      <4>2. CASE ~Simplified
        <5> TAKE s \in Sources
        <5>1. src[s] = "absent" \/ s \in joined
          BY <1>4, <4>2 DEF OutputEnds, OutClosed, PipelineInv, Joins
        <5>2. s \notin Outputs /\ s # Thread
          BY PipelineAssumption DEF Thread
        <5>3. QED
          BY <5>1, <5>2 DEF PipelineInv, Joins, Finished
      <4>3. QED
        BY <4>1, <4>2
    <3>2. QED
      BY <3>1, PhasesAre DEF SourceEnded
  <2>4. next[o] = insent + 1 \/ Broken
    <3>1. next[o] = Sent + 1
      BY <1>0, <1>4, SentIsAccepted DEF OutputEnds, TypeOK
    <3>2. CASE Simplified
      BY <3>1, <3>2 DEF Sent
    <3>3. CASE ~Simplified
      <4>1. tr \in {"ended", "failed"}
        BY <1>4, <3>3 DEF OutputEnds, OutClosed, ThreadEnded, PipelineInv, Typed, Accounts
      <4>2. CASE tr = "ended"
        BY <3>1, <3>3, <4>2 DEF Sent, PipelineInv, ThreadDrained, Typed, Accounts
      <4>3. CASE tr = "failed"
        BY <4>3 DEF Broken, Failed, Elements
      <4>4. QED
        BY <4>1, <4>2, <4>3
    <3>4. QED
      BY <3>2, <3>3
  <2>5. UNCHANGED <<next, written>>
    BY <1>4 DEF OutputEnds
  <2>6. Promise!EndOutput(o)
    BY <1>0, <1>1, <2>1, <2>2, <2>3, <2>4, <2>5
    DEF Promise!EndOutput, Promise!Becomes, Promise!sourceVars, Promise!outputVars
  <2>7. QED
    BY <2>6 DEF Promise!Next
<1>5. CASE OutputFails(o)
  <2>1. Phases' = [Phases EXCEPT ![o] = "broken"] /\ out'[o] = "failed" /\ UNCHANGED <<next, written>>
    BY <1>0, <1>5, OutputPhase DEF OutputFails, TypeOK
  <2>2. Broken'
    BY <2>1 DEF Broken, Failed, Elements
  <2>3. Promise!Break(o)
    BY <1>0, <1>1, <2>1, <2>2 DEF Promise!Break, Promise!Becomes, Promise!sourceVars, Promise!outputVars
  <2>4. QED
    BY <2>3 DEF Promise!Next
<1>6. QED
  BY <1>2, <1>3, <1>4, <1>5 DEF OutputStep

\* The creation of an output, and the commands that it is given.
LEMMA CommandsKeepPromise ==
    ASSUME PipelineInv, NEW o \in Outputs, CreateOutput(o) \/ \E c \in OutputCommands : SetOutput(o, c)
    PROVE  [Promise!Next]_(Promise!vars)
<1>0. /\ TypeOK /\ Pending' = Pending /\ Status' = Status /\ Status = "open"
      /\ UNCHANGED <<src, tr, insent, ctl, written>>
  BY SamePending, SameStatus
  DEF PipelineInv, Typed, CreateOutput, SetOutput, Status, control, sources, thread
<1>1. out'[o] # "failed" /\ out[o] # "failed" /\ \A p \in Outputs \ {o} : out'[p] = out[p]
  BY <1>0 DEF CreateOutput, SetOutput, TypeOK
<1>2. Broken' = Broken
  <2>1. \A e \in Elements : Failed(e)' <=> Failed(e)
    BY <1>0, <1>1 DEF Failed
  <2>2. QED
    BY <2>1 DEF Broken
<1>3. CASE CreateOutput(o)
  <2>1. Phases[o] = "absent" /\ Phases' = [Phases EXCEPT ![o] = "active"]
    <3>1. out' = [out EXCEPT ![o] = "run"]
      BY <1>3 DEF CreateOutput
    <3>2. Phases' = [Phases EXCEPT ![o] = "active"]
      BY <1>0, <3>1, OutputPhase
    <3>3. QED
      BY <1>3, <3>2, PhasesAre DEF CreateOutput
  <2>2. Sent + 1 \in 1..(insent + 1)
    BY <1>0, SentIsAccepted
  <2>3. Promise!CreateOutput(o, Sent + 1)
    BY <1>0, <1>2, <1>3, <2>1, <2>2 DEF CreateOutput, Promise!CreateOutput, Promise!sourceVars
  <2>4. QED
    BY <2>2, <2>3 DEF Promise!Next
<1>4. ASSUME NEW c \in OutputCommands, SetOutput(o, c) PROVE [Promise!Next]_(Promise!vars)
  <2>1. out[o] = "run" /\ Phases[o] = "active"
    BY <1>4, PhasesAre DEF SetOutput
  <2>2. CASE c = "StopNow"
    <3>1. Phases' = [Phases EXCEPT ![o] = "stopped"] /\ next' = next
      <4>1. out' = [out EXCEPT ![o] = "stopped"] /\ next' = next
        BY <1>4, <2>2 DEF SetOutput
      <4>2. QED
        BY <1>0, <4>1, OutputPhase
    <3>2. Promise!StopOutput(o)
      BY <1>0, <1>2, <2>1, <3>1
      DEF Promise!StopOutput, Promise!Becomes, Promise!sourceVars, Promise!outputVars
    <3>3. QED
      BY <3>2 DEF Promise!Next
  <2>3. CASE c # "StopNow"
    <3>1. Phases' = Phases
      <4>1. CASE c = "StopFinish"
        <5>1. Phases' = [Phases EXCEPT ![o] = "active"]
          <6>1. out' = [out EXCEPT ![o] = "finish"]
            BY <1>4, <4>1 DEF SetOutput
          <6>2. QED
            BY <1>0, <6>1, OutputPhase
        <5>2. Phases = [e \in DOMAIN Phases |-> Phases[e]]
          BY DEF Phases
        <5>3. QED
          BY <5>1, <5>2, <2>1
      <4>2. CASE c # "StopFinish"
        <5>1. out' = out
          BY <1>0, <1>4, <2>3, <4>2 DEF SetOutput, TypeOK
        <5>2. QED
          BY <1>0, <5>1, SamePhases
      <4>3. QED
        BY <4>1, <4>2
    <3>2. CASE c = "RunDiscard"
      <4>1. next' = [next EXCEPT ![o] = Sent + 1]
        BY <1>4, <3>2 DEF SetOutput
      <4>2. Sent + 1 \in Nat /\ next[o] <= Sent + 1 /\ Sent + 1 <= insent + 1
        BY <1>0, SentIsAccepted DEF TypeOK
      <4>3. QED
        BY <1>0, <1>2, <2>1, <3>1, <4>1, <4>2, SkippingKeepsPromise
    <3>3. CASE c # "RunDiscard"
      <4>1. next' = next
        BY <1>4, <3>3 DEF SetOutput
      <4>2. QED
        BY <1>0, <1>2, <3>1, <4>1 DEF Promise!vars, Promise!outputVars, Promise!sourceVars
    <3>4. QED
      BY <3>2, <3>3
  <2>4. QED
    BY <2>2, <2>3
<1>5. QED
  BY <1>3, <1>4

\* The steps of the control loop.  The last one closes the pipeline.
LEMMA ControlKeepsPromise ==
    ASSUME PipelineInv, (\E e \in Elements : Join(e)) \/ RequestFails \/ Cancel \/ ShutdownStep
    PROVE  [Promise!Next]_(Promise!vars)
<1>0. /\ TypeOK /\ Pending' = Pending
      /\ UNCHANGED <<tr, insent, written, next>>
  BY SamePending
  DEF PipelineInv, Typed, Join, RequestFails, Cancel, ShutdownStep, StopSources, SourcesStopped, StopOutputs,
      OutputsStopped, sources, thread, outs
<1>1. Phases' = Phases /\ Broken' = Broken
  <2>1. CASE StopSources
    <3>1. \A e \in Sources \union Outputs : PhaseOf(e)' = PhaseOf(e)
      BY <2>1 DEF StopSources, PhaseOf, outs
    <3>2. \A e \in Elements : Failed(e)' <=> Failed(e)
      BY <2>1, <1>0 DEF StopSources, Failed, outs
    <3>3. QED
      BY <3>1, <3>2 DEF Phases, Broken
  <2>2. CASE StopOutputs
    <3>1. \A e \in Sources \union Outputs : PhaseOf(e)' = PhaseOf(e)
      BY <2>2 DEF StopOutputs, PhaseOf, sources
    <3>2. \A e \in Elements : Failed(e)' <=> Failed(e)
      BY <2>2, <1>0 DEF StopOutputs, Failed, sources
    <3>3. QED
      BY <3>1, <3>2 DEF Phases, Broken
  <2>3. CASE ~StopSources /\ ~StopOutputs
    <3>1. UNCHANGED <<src, out>>
      BY <2>3 DEF Join, RequestFails, Cancel, ShutdownStep, SourcesStopped, OutputsStopped, sources, outs
    <3>2. \A e \in Elements : Failed(e)' <=> Failed(e)
      BY <1>0, <3>1 DEF Failed
    <3>3. QED
      BY <3>1, <3>2, SamePhases DEF Broken
  <2>4. QED
    BY <2>1, <2>2, <2>3
<1>2. CASE ~OutputsStopped
  <2>1. Status' = Status
    BY <1>2, SameStatus DEF Join, Watched, RequestFails, Cancel, ShutdownStep, StopSources, SourcesStopped, StopOutputs
  <2>2. QED
    BY <1>0, <1>1, <2>1 DEF Promise!vars, Promise!outputVars, Promise!sourceVars
<1>3. CASE OutputsStopped
  <2>1. /\ ctl = "outputs" /\ ctl' = "done" /\ lastError' = lastError
        /\ \A o \in Outputs : out[o] = "absent" \/ o \in joined
    BY <1>3 DEF OutputsStopped
  <2>2. \A s \in Sources : src[s] = "absent" \/ s \in joined
    BY <2>1 DEF PipelineInv, Joins
  <2>3. \A e \in joined : Finished(e) /\ (Failed(e) => lastError)
    BY DEF PipelineInv, Joins
  <2>4. \A s \in Sources : src[s] \in SourceEnded \union {"absent"}
    <3> TAKE s \in Sources
    <3>1. s \notin Outputs /\ s # Thread
      BY PipelineAssumption DEF Thread
    <3>2. QED
      BY <2>2, <2>3, <3>1 DEF Finished
  <2>5. \A o \in Outputs : out[o] \in OutputEnded \union {"absent"}
    <3> TAKE o \in Outputs
    <3>1. o \notin Sources /\ o # Thread
      BY PipelineAssumption DEF Thread
    <3>2. QED
      BY <2>1, <2>3, <3>1 DEF Finished
  <2>6. \A e \in Sources \union Outputs : Phases[e] # "active"
    BY <2>4, <2>5, PhasesAre DEF SourceEnded, OutputEnded
  <2>7. Broken => lastError
    <3> SUFFICES ASSUME NEW e \in Elements, Failed(e) PROVE lastError
      BY DEF Broken
    <3>1. e \in joined
      BY <2>1, <2>2, PipelineAssumption DEF PipelineInv, Joins, Failed, Thread
    <3>2. QED
      BY <2>3, <3>1
  <2>8. Status = "open" /\ (Status' = "error" \/ (~Broken /\ Status' = "ok"))
    BY <2>1, <2>7 DEF Status
  <2>9. Promise!Close
    BY <1>0, <1>1, <2>6, <2>8 DEF Promise!Close, Promise!sourceVars, Promise!outputVars
  <2>10. QED
    BY <2>9 DEF Promise!Next
<1>4. QED
  BY <1>2, <1>3

\* Every step of the pipeline is a step of the abstract one, or is not seen from outside.
LEMMA StepPromise == PipelineInv /\ [Next]_vars => [Promise!Next]_(Promise!vars)
<1> SUFFICES ASSUME PipelineInv, [Next]_vars PROVE [Promise!Next]_(Promise!vars)
  OBVIOUS
<1>1. CASE UNCHANGED vars
  <2>1. UNCHANGED <<src, out, tr, made, flushed, insent, next, written, ctl, lastError>>
    BY <1>1 DEF vars, control, sources, thread, outs
  <2>2. Phases' = Phases /\ Pending' = Pending /\ Status' = Status
    BY <2>1, SamePhases, SamePending, SameStatus
  <2>3. Broken' = Broken
    BY <2>1 DEF Broken, Failed
  <2>4. QED
    BY <2>1, <2>2, <2>3 DEF Promise!vars, Promise!outputVars, Promise!sourceVars
<1>2. QED
  BY <1>1, SourcesKeepPromise, ThreadKeepsPromise, OutputsKeepPromise, CommandsKeepPromise, ControlKeepsPromise
  DEF Next

\* The pipeline implements what it promises, for any elements, channels, failures and commands:
\* sources deliver once, outputs follow in order and end after the sources with nothing left,
\* and a pipeline that has closed is at rest, with the failures of its elements told.
THEOREM PipelineKeepsPromise == Spec => KeepsPromise
<1>1. Spec => []PipelineInv
  BY TypedInvariant, JoinsInvariant, SourceDrainedInvariant, ThreadDrainedInvariant,
     DeliveredInvariant, OutputDrainedInvariant, FlushedInvariant, PTL DEF PipelineInv
<1>2. QED
  BY <1>1, InitPromise, StepPromise, PTL DEF Spec, KeepsPromise, Promise!Spec

=============================================================================
