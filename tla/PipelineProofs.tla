--------------------------- MODULE PipelineProofs ---------------------------
(***************************************************************************)
(* The pipeline, for all graphs that the sch_add functions and sch_connect *)
(* can build and whatever the threads do.  Rate control never leaves a     *)
(* decoder without its input: its queue is frozen only while the demuxer   *)
(* that fills it is choked.  It never goes by old decisions, and never     *)
(* stops all sources.  Every thread finds what it needs where it looks     *)
(* (TypeOK), and nobody sends on a stream that was finished for sending    *)
(* (Orderly).                                                              *)
(*                                                                         *)
(* Orderly is not inductive.  A stream is finished for sending by the task *)
(* that sends on it, by mux_init when its end was queued before, or by a   *)
(* task whose send was turned away, which has then still to say so: the    *)
(* invariant relates what a task has yet to do (todo) to what it has       *)
(* recorded as finished, and says in which order the calls may stand.      *)
(* First come the calls that tasks make, one after the other, then the     *)
(* steps of the threads.                                                   *)
(***************************************************************************)
EXTENDS Pipeline, ListProofs, FiniteSetTheorems

-----------------------------------------------------------------------------
(* Rate control                                                            *)

\* The queue of a decoder is frozen only while the demuxer that fills it is choked.  That
\* demuxer may have finished the queue: then its end waits until the demuxer is let go.
FrozenOnlyWhenChoked ==
    \A i \in frozen : \E d \in DOMAIN graph.demux :
        <<"demux", d>> \in choked /\ i \in FrozenBy(graph, d)

\* An update freezes the queues of the demuxers it chokes and frees those of
\* the demuxers it lets go; fr may have fewer queues than are frozen.
LEMMA UpdateKeepsFrozen ==
    ASSUME NEW s, NEW fr, fr \subseteq frozen, FrozenOnlyWhenChoked,
           ScheduleUpdate(s, fr), graph' = graph
    PROVE  FrozenOnlyWhenChoked'
<1> DEFINE Now(S) == UNION {FrozenBy(graph, d) : d \in {x \in DOMAIN graph.demux : <<"demux", x>> \in S}}
<1>1. SUFFICES ASSUME NEW i \in frozen'
               PROVE  \E d \in DOMAIN graph.demux : <<"demux", d>> \in choked' /\ i \in FrozenBy(graph, d)
  BY DEF FrozenOnlyWhenChoked
<1>2. CASE terminate
  <2>1. choked' = choked /\ frozen' = fr
    BY <1>2 DEF ScheduleUpdate
  <2>. QED  BY <2>1 DEF FrozenOnlyWhenChoked
<1>3. CASE ~ terminate
  <2>1. frozen' = (fr \ Now(choked \ choked')) \cup Now(choked' \ choked)
    BY <1>3 DEF ScheduleUpdate, Froze
  <2>2. CASE i \in Now(choked' \ choked)
    BY <2>2
  <2>3. CASE i \in fr \ Now(choked \ choked')
    <3>1. PICK d \in DOMAIN graph.demux : <<"demux", d>> \in choked /\ i \in FrozenBy(graph, d)
      BY <2>3 DEF FrozenOnlyWhenChoked
    <3>2. <<"demux", d>> \in choked'
      BY <2>3, <3>1
    <3>. QED  BY <3>1, <3>2
  <2>. QED  BY <1>1, <2>1, <2>2, <2>3
<1>. QED  BY <1>2, <1>3

\* Steps that leave rate control alone, or only free a queue.
LEMMA OthersKeepFrozen ==
    ASSUME FrozenOnlyWhenChoked, graph' = graph, choked' = choked, frozen' \subseteq frozen
    PROVE  FrozenOnlyWhenChoked'
BY DEF FrozenOnlyWhenChoked

\* The stop frees every queue.
LEMMA StopKeepsFrozen ==
    ASSUME FrozenOnlyWhenChoked, ChokeForStop
    PROVE  FrozenOnlyWhenChoked'
<1>1. frozen' = frozen \ UNION {FrozenBy(graph, d) : d \in DOMAIN graph.demux}
  BY DEF ChokeForStop
<1>2. frozen' = {}
  BY <1>1 DEF FrozenOnlyWhenChoked
<1>. QED  BY <1>2 DEF FrozenOnlyWhenChoked

\* The calls of a task.
LEMMA CallKeepsFrozen ==
    ASSUME FrozenOnlyWhenChoked, NEW t, TaskCall(t)
    PROVE  FrozenOnlyWhenChoked'
<1>1. CASE OpenEncoder(t) \/ SendItem(t) \/ QueueDone(t) \/ TaskReport(t) \/ SendFlush(t)
             \/ AwaitEndTs(t) \/ CloseOutput(t) \/ SyncSend(t) \/ SyncClose(t) \/ SyncHand(t)
  <2>1. UNCHANGED chokingVars
    BY <1>1 DEF OpenEncoder, SendItem, QueueDone, TaskReport, SendFlush, AwaitEndTs, CloseOutput,
                SyncSend, SyncClose, SyncHand
  <2>. QED  BY <2>1, OthersKeepFrozen DEF chokingVars
<1>2. CASE CloseInput(t)
  <2> DEFINE c == Head(task[t].todo)
             s == [sched EXCEPT !.send_finished = @ \cup {c.dst}]
  <2>1. \/ UNCHANGED chokingVars
        \/ ScheduleUpdate(s, frozen) /\ graph' = graph
        \/ graph' = graph /\ choked' = choked /\ frozen' \subseteq frozen
    BY <1>2 DEF CloseInput
  <2>. QED  BY <2>1, OthersKeepFrozen, UpdateKeepsFrozen DEF chokingVars
<1>3. CASE UpdateProgress(t)
  <2>1. graph' = graph /\ \E s : ScheduleUpdate(s, frozen)
    BY <1>3 DEF UpdateProgress
  <2>. QED  BY <2>1, UpdateKeepsFrozen
<1>4. CASE ReceiveFinish(t)
  <2>1. \/ UNCHANGED chokingVars
        \/ graph' = graph /\ \E s : ScheduleUpdate(s, frozen)
    BY <1>4 DEF ReceiveFinish
  <2>. QED  BY <2>1, OthersKeepFrozen, UpdateKeepsFrozen DEF chokingVars
<1>5. CASE TaskExited(t)
  <2>1. graph' = graph /\ \E s : ScheduleUpdate(s, frozen)
    BY <1>5 DEF TaskExited
  <2>. QED  BY <2>1, UpdateKeepsFrozen
<1>6. CASE ChokeInputs(t)
  <2>1. graph' = graph /\ \E s : ScheduleUpdate(s, frozen)
    BY <1>6 DEF ChokeInputs
  <2>. QED  BY <2>1, UpdateKeepsFrozen
<1>. QED  BY <1>1, <1>2, <1>3, <1>4, <1>5, <1>6 DEF TaskCall

\* A task between two calls; of these only a filtergraph updates the schedule.
LEMMA TaskKeepsFrozen ==
    ASSUME FrozenOnlyWhenChoked, NEW t \in AllTasks, TaskNext(t)
    PROVE  FrozenOnlyWhenChoked'
<1>1. CASE TaskCall(t)
  BY <1>1, CallKeepsFrozen
<1>2. CASE Fail(t) \/ FallAsleep(t) \/ Discard(t)
  <2>1. UNCHANGED chokingVars
    BY <1>2 DEF Fail, FallAsleep, Discard
  <2>. QED  BY <2>1, OthersKeepFrozen DEF chokingVars
<1>3. CASE DemuxNext(t[2]) \/ DemuxSend(t[2]) \/ DemuxLoop(t[2]) \/ DemuxDone(t[2])
  <2>1. UNCHANGED chokingVars
    BY <1>3 DEF DemuxNext, DemuxSend, DemuxLoop, DemuxDone
  <2>. QED  BY <2>1, OthersKeepFrozen DEF chokingVars
<1>4. CASE DecRetry(t[2]) \/ DecReceive(t[2]) \/ DecCheck(t[2]) \/ DecDrain(t[2]) \/ DecDone(t[2])
  <2>1. UNCHANGED chokingVars
    BY <1>4 DEF DecRetry, DecReceive, DecCheck, DecDrain, DecDone
  <2>. QED  BY <2>1, OthersKeepFrozen DEF chokingVars
<1>5. CASE EncReceive(t[2]) \/ MuxReceive(t[2])
  <2>1. UNCHANGED chokingVars
    BY <1>5 DEF EncReceive, MuxReceive
  <2>. QED  BY <2>1, OthersKeepFrozen DEF chokingVars
<1>6. CASE FilterWish(t[2])
  <2>1. graph' = graph /\ \E s : ScheduleUpdate(s, frozen)
    BY <1>6 DEF FilterWish
  <2>. QED  BY <2>1, UpdateKeepsFrozen
<1>7. CASE FilterReceive(t[2]) \/ FilterPoll(t[2]) \/ FilterWait(t[2]) \/ ReadFrames(t[2])
             \/ RequestFrame(t[2]) \/ FilterDone(t[2])
  <2>1. UNCHANGED chokingVars
    BY <1>7 DEF FilterReceive, FilterPoll, FilterWait, ReadFrames, RequestFrame, FilterDone
  <2>. QED  BY <2>1, OthersKeepFrozen DEF chokingVars
<1>. QED  BY <1>1, <1>2, <1>3, <1>4, <1>5, <1>6, <1>7 DEF TaskNext

\* Every step of the program.
LEMMA StepKeepsFrozen ==
    ASSUME FrozenOnlyWhenChoked, [Next]_vars
    PROVE  FrozenOnlyWhenChoked'
<1>1. CASE \E t \in AllTasks : TaskNext(t)
  BY <1>1, TaskKeepsFrozen
<1>2. CASE FirstUpdate
  BY <1>2, UpdateKeepsFrozen DEF FirstUpdate
<1>3. CASE ChokeAll
  BY <1>3, StopKeepsFrozen DEF ChokeAll
<1>4. CASE Quit \/ Terminate \/ Join
  BY <1>4, OthersKeepFrozen DEF Quit, Terminate, Join, chokingVars
<1>5. CASE Finished \/ UNCHANGED vars
  BY <1>5, OthersKeepFrozen DEF Finished, vars, chokingVars
<1>. QED  BY <1>1, <1>2, <1>3, <1>4, <1>5 DEF Next, MainNext

\* Rate control (choke_demux) keeps the queue of a decoder frozen only while the demuxer
\* that fills it is choked, whatever else the threads do meanwhile.
THEOREM NoQueueStaysFrozen == Spec => []FrozenOnlyWhenChoked
<1>1. Init => FrozenOnlyWhenChoked
  BY DEF Init, ChokingInit, FrozenOnlyWhenChoked
<1>. QED  BY <1>1, StepKeepsFrozen, PTL DEF Spec
-----------------------------------------------------------------------------
(* What the waiters show                                                   *)

\* The flags of the waiters are what the schedule says now: whatever it reads has not
\* changed since it was last updated.  After the stop only decoders are let go, and
\* no late update lets a source go again.
DecisionsCurrent ==
    /\ ~ terminate /\ main.pc \notin {"start", "refused"} => choked = Waiters(graph) \ Open(graph, sched)
    /\ main.pc \in {"join", "stopped"} => choked = Waiters(graph) \ ({"dec"} \X (1 .. graph.nb_dec))

\* "make sure to unchoke at least one source, if still available" (schedule_update_locked):
\* when no output stream may proceed, a demuxer or filtergraph that has not ended is let
\* go, as long as there is one.
SourceLeft ==
    LET sources == ({"demux"} \X DOMAIN graph.demux) \cup ({"filter"} \X DOMAIN graph.filters)
        stuck == /\ ~ terminate /\ main.pc \notin {"start", "refused"}
                 /\ ~ \E n \in DOMAIN sched.last_dts : MayProceed(sched, n)
    IN  stuck => (sources \subseteq sched.exited \/ \E w \in sources \ sched.exited : w \notin choked)

\* What a step of a task may do to rate control: nothing, or an update.
LEMMA TaskRates ==
    ASSUME NEW t \in AllTasks, TaskNext(t)
    PROVE  /\ graph' = graph /\ terminate' = terminate
           /\ main' = main \/ main' = [main EXCEPT !.failed = TRUE]
           /\ UNCHANGED <<sched, choked>> \/ \E s, fr : ScheduleUpdate(s, fr)
<1>1. CASE TaskCall(t)
  <2>1. CASE OpenEncoder(t) \/ SendItem(t) \/ QueueDone(t) \/ TaskReport(t) \/ SendFlush(t)
               \/ AwaitEndTs(t) \/ CloseOutput(t) \/ SyncSend(t) \/ SyncClose(t) \/ SyncHand(t)
    BY <2>1 DEF OpenEncoder, SendItem, QueueDone, TaskReport, SendFlush, AwaitEndTs, CloseOutput,
                SyncSend, SyncClose, SyncHand, chokingVars
  <2>2. CASE CloseInput(t)
    BY <2>2 DEF CloseInput, chokingVars
  <2>3. CASE UpdateProgress(t) \/ ReceiveFinish(t) \/ TaskExited(t) \/ ChokeInputs(t)
    BY <2>3 DEF UpdateProgress, ReceiveFinish, TaskExited, ChokeInputs, chokingVars
  <2>. QED  BY <1>1, <2>1, <2>2, <2>3 DEF TaskCall
<1>2. CASE Fail(t) \/ FallAsleep(t) \/ Discard(t)
  BY <1>2 DEF Fail, FallAsleep, Discard, chokingVars
<1>3. CASE DemuxNext(t[2]) \/ DemuxSend(t[2]) \/ DemuxLoop(t[2]) \/ DemuxDone(t[2])
  BY <1>3 DEF DemuxNext, DemuxSend, DemuxLoop, DemuxDone, chokingVars
<1>4. CASE DecRetry(t[2]) \/ DecReceive(t[2]) \/ DecCheck(t[2]) \/ DecDrain(t[2]) \/ DecDone(t[2])
  BY <1>4 DEF DecRetry, DecReceive, DecCheck, DecDrain, DecDone, chokingVars
<1>5. CASE EncReceive(t[2]) \/ MuxReceive(t[2])
  BY <1>5 DEF EncReceive, MuxReceive, chokingVars
<1>6. CASE FilterWish(t[2])
  BY <1>6 DEF FilterWish
<1>7. CASE FilterReceive(t[2]) \/ FilterPoll(t[2]) \/ FilterWait(t[2]) \/ ReadFrames(t[2])
             \/ RequestFrame(t[2]) \/ FilterDone(t[2])
  BY <1>7 DEF FilterReceive, FilterPoll, FilterWait, ReadFrames, RequestFrame, FilterDone, chokingVars
<1>. QED  BY <1>1, <1>2, <1>3, <1>4, <1>5, <1>6, <1>7 DEF TaskNext

\* After the first update, which of the main thread's steps have been taken tells whether
\* the program is told to stop.
DecisionInv ==
    /\ DecisionsCurrent
    /\ DOMAIN main = {"pc", "failed", "quit"}
    /\ terminate <=> main.pc \in {"choke", "join", "stopped"}

\* A step of a task keeps DecisionInv.
LEMMA TaskKeepsDecision ==
    ASSUME DecisionInv, NEW t \in AllTasks, TaskNext(t)
    PROVE  DecisionInv'
<1>1. /\ graph' = graph /\ terminate' = terminate
      /\ main' = main \/ main' = [main EXCEPT !.failed = TRUE]
      /\ UNCHANGED <<sched, choked>> \/ \E s, fr : ScheduleUpdate(s, fr)
  BY TaskRates
<1>2. DOMAIN main' = DOMAIN main /\ main'.pc = main.pc
  BY <1>1 DEF DecisionInv
<1>3. CASE UNCHANGED <<sched, choked>>
  BY <1>1, <1>2, <1>3 DEF DecisionInv, DecisionsCurrent
<1>4. ASSUME NEW s, NEW fr, ScheduleUpdate(s, fr) PROVE DecisionInv'
  <2>1. CASE terminate
    BY <1>1, <1>2, <1>4, <2>1 DEF DecisionInv, DecisionsCurrent, ScheduleUpdate
  <2>2. CASE ~ terminate
    <3>1. choked' = Waiters(graph') \ Open(graph', sched')
      BY <1>1, <1>4, <2>2 DEF ScheduleUpdate
    <3>. QED  BY <1>1, <1>2, <2>2, <3>1 DEF DecisionInv, DecisionsCurrent
  <2>. QED  BY <2>1, <2>2
<1>. QED  BY <1>1, <1>3, <1>4

\* Every step keeps it.
LEMMA StepKeepsDecision ==
    ASSUME DecisionInv, [Next]_vars
    PROVE  DecisionInv'
<1>1. CASE \E t \in AllTasks : TaskNext(t)
  BY <1>1, TaskKeepsDecision
<1>2. CASE FirstUpdate
  <2>1. /\ graph' = graph /\ terminate' = terminate /\ main.pc = "start"
        /\ main' = [main EXCEPT !.pc = "wait"]
    BY <1>2 DEF FirstUpdate, MainStep
  <2>2. ~ terminate /\ main'.pc = "wait" /\ DOMAIN main' = DOMAIN main
    BY <2>1 DEF DecisionInv
  <2>3. choked' = Waiters(graph') \ Open(graph', sched')
    BY <1>2, <2>1, <2>2 DEF FirstUpdate, ScheduleUpdate
  <2>. QED  BY <2>1, <2>2, <2>3 DEF DecisionInv, DecisionsCurrent
<1>3. CASE ChokeAll
  <2>1. /\ graph' = graph /\ terminate' = terminate /\ main.pc = "choke"
        /\ main' = [main EXCEPT !.pc = "join"]
        /\ choked' = Waiters(graph) \ ({"dec"} \X (1 .. graph.nb_dec))
    BY <1>3 DEF ChokeAll, ChokeForStop, MainStep
  <2>2. terminate /\ main'.pc = "join" /\ DOMAIN main' = DOMAIN main
    BY <2>1 DEF DecisionInv
  <2>. QED  BY <2>1, <2>2 DEF DecisionInv, DecisionsCurrent
<1>4. CASE Quit
  <2>1. UNCHANGED <<graph, sched, choked, terminate>> /\ main' = [main EXCEPT !.quit = TRUE]
    BY <1>4 DEF Quit, chokingVars
  <2>2. main'.pc = main.pc /\ DOMAIN main' = DOMAIN main
    BY <2>1 DEF DecisionInv
  <2>. QED  BY <2>1, <2>2 DEF DecisionInv, DecisionsCurrent
<1>5. CASE Terminate
  <2>1. terminate' = TRUE /\ main' = [main EXCEPT !.pc = "choke"]
    BY <1>5 DEF Terminate, MainStep
  <2>2. main'.pc = "choke" /\ DOMAIN main' = DOMAIN main
    BY <2>1 DEF DecisionInv
  <2>. QED  BY <2>1, <2>2 DEF DecisionInv, DecisionsCurrent
<1>6. CASE Join
  <2>1. /\ UNCHANGED <<graph, sched, choked, terminate>> /\ main.pc = "join"
        /\ main' = [main EXCEPT !.pc = "stopped"]
    BY <1>6 DEF Join, MainStep, chokingVars
  <2>2. main'.pc = "stopped" /\ DOMAIN main' = DOMAIN main
    BY <2>1 DEF DecisionInv
  <2>. QED  BY <2>1, <2>2 DEF DecisionInv, DecisionsCurrent
<1>7. CASE Finished \/ UNCHANGED vars
  BY <1>7 DEF Finished, vars, pipeVars, chokingVars, DecisionInv, DecisionsCurrent
<1>. QED  BY <1>1, <1>2, <1>3, <1>4, <1>5, <1>6, <1>7 DEF Next, MainNext

\* The flags of the waiters are never old.
THEOREM NoStaleDecision == Spec => []DecisionsCurrent
<1>1. Init => DecisionInv
  <2>1. SUFFICES ASSUME Init PROVE DecisionInv
    OBVIOUS
  <2>2. ~ terminate /\ main.pc \in {"start", "refused"} /\ DOMAIN main = {"pc", "failed", "quit"}
    BY <2>1 DEF Init, ChokingInit
  <2>. QED  BY <2>2 DEF DecisionInv, DecisionsCurrent
<1>2. DecisionInv => DecisionsCurrent
  BY DEF DecisionInv
<1>. QED  BY <1>1, <1>2, StepKeepsDecision, PTL DEF Spec

\* UNCHOKE_ONCE finds a source when there is one.
LEMMA OnceOpens ==
    ASSUME NEW g, Sized(g), NEW s, NEW open,
           NEW w \in ({"demux"} \X DOMAIN g.demux) \cup ({"filter"} \X DOMAIN g.filters), w \notin s.exited
    PROVE  \E x \in ({"demux"} \X DOMAIN g.demux) \cup ({"filter"} \X DOMAIN g.filters) :
              x \notin s.exited /\ x \in UnchokeOnce(g, s, open)
<1> DEFINE d == {i \in 1 .. Len(g.demux) : <<"demux", i>> \notin s.exited}
           f == {i \in 1 .. Len(g.filters) : <<"filter", i>> \notin s.exited}
<1>1. /\ DOMAIN g.demux = 1 .. Len(g.demux) /\ Len(g.demux) \in Nat
      /\ DOMAIN g.filters = 1 .. Len(g.filters) /\ Len(g.filters) \in Nat
  BY DEF Sized
<1>2. d \in SUBSET Nat /\ f \in SUBSET Nat
  BY <1>1
<1>3. d # {} \/ f # {}
  BY <1>1
<1>4. UnchokeOnce(g, s, open) = CASE d # {}             -> open \cup {<<"demux", Min(d)>>}
                                  [] d = {} /\ f # {}   -> open \cup {<<"filter", Min(f)>>}
                                  [] OTHER              -> open
  BY DEF UnchokeOnce
<1> HIDE DEF d, f
<1>5. CASE d # {}
  <2>1. Min(d) \in d
    BY <1>2, <1>5, LeastOf
  <2>2. <<"demux", Min(d)>> \in UnchokeOnce(g, s, open)
    BY <1>4, <1>5
  <2>3. Min(d) \in DOMAIN g.demux /\ <<"demux", Min(d)>> \notin s.exited
    BY <1>1, <2>1 DEF d
  <2>. QED  BY <2>2, <2>3
<1>6. CASE d = {} /\ f # {}
  <2>1. Min(f) \in f
    BY <1>2, <1>6, LeastOf
  <2>2. <<"filter", Min(f)>> \in UnchokeOnce(g, s, open)
    BY <1>4, <1>6
  <2>3. Min(f) \in DOMAIN g.filters /\ <<"filter", Min(f)>> \notin s.exited
    BY <1>1, <2>1 DEF f
  <2>. QED  BY <2>2, <2>3
<1>. QED  BY <1>3, <1>5, <1>6

\* The graph is one of those that were built.
LEMMA GraphStays == Spec => [](graph \in Graphs)
<1>1. Init => graph \in Graphs
  BY DEF Init
<1>2. graph \in Graphs /\ [Next]_vars => (graph \in Graphs)'
  <2>1. CASE \E t \in AllTasks : TaskNext(t)
    BY <2>1, TaskRates
  <2>2. CASE FirstUpdate \/ ChokeAll \/ Quit \/ Terminate \/ Join \/ Finished \/ UNCHANGED vars
    BY <2>2 DEF FirstUpdate, ChokeAll, ChokeForStop, Quit, Terminate, Join, Finished, vars, chokingVars
  <2>. QED  BY <2>1, <2>2 DEF Next, MainNext
<1>. QED  BY <1>1, <1>2, PTL DEF Spec

\* Rate control never stops all sources while one could run.
THEOREM ASourceIsLeft == Spec => []SourceLeft
<1>1. graph \in Graphs /\ DecisionsCurrent => SourceLeft
  <2> DEFINE sources == ({"demux"} \X DOMAIN graph.demux) \cup ({"filter"} \X DOMAIN graph.filters)
  <2>1. SUFFICES ASSUME graph \in Graphs, DecisionsCurrent,
                        ~ terminate, main.pc \notin {"start", "refused"},
                        ~ \E n \in DOMAIN sched.last_dts : MayProceed(sched, n),
                        NEW w \in sources, w \notin sched.exited
                 PROVE  \E x \in sources \ sched.exited : x \notin choked
    BY DEF SourceLeft
  <2>2. Sized(graph)
    BY <2>1, GraphsAssumption DEF WellFormed
  <2>3. PICK open : Open(graph, sched) = UnchokeOnce(graph, sched, open)
    BY <2>1 DEF Open
  <2>4. PICK x \in sources : x \notin sched.exited /\ x \in UnchokeOnce(graph, sched, open)
    BY <2>1, <2>2, OnceOpens
  <2>5. choked = Waiters(graph) \ Open(graph, sched)
    BY <2>1 DEF DecisionsCurrent
  <2>. QED  BY <2>3, <2>4, <2>5
<1>. QED  BY <1>1, GraphStays, NoStaleDecision, PTL

\* A nonempty finite set of integers has a least element.
LEMMA LeastInt ==
    ASSUME NEW T \in SUBSET Int, IsFiniteSet(T), T # {}
    PROVE  Min(T) \in T /\ \A y \in T : Min(T) <= y
<1>1. PICK n \in Nat : ExistsSurjection(1 .. n, T)
  BY FS_NatSurjection
<1>2. PICK h \in [1 .. n -> T] : \A y \in T : \E i \in 1 .. n : h[i] = y
  BY <1>1 DEF ExistsSurjection, Surjection
<1> DEFINE P == {m \in 0 .. n : m = 0 \/ \E j \in 1 .. m : \A i \in 1 .. m : h[j] <= h[i]}
<1>3. 0 \in P
  OBVIOUS
<1>4. ASSUME NEW m \in 1 .. n, m - 1 \in P PROVE m \in P
  <2>1. \A i \in 1 .. m : h[i] \in Int
    <3>1. ASSUME NEW i \in 1 .. m PROVE h[i] \in Int
      <4>1. i \in 1 .. n
        OBVIOUS
      <4>2. h[i] \in T
        BY <1>2, <4>1
      <4>. QED  BY <4>2
    <3>. QED  BY <3>1
  <2>2. CASE m = 1
    BY <2>1, <2>2
  <2>3. CASE m # 1
    <3>1. PICK j \in 1 .. m - 1 : \A i \in 1 .. m - 1 : h[j] <= h[i]
      BY <1>4, <2>3
    <3>2. j \in 1 .. m /\ m \in 1 .. m /\ \A i \in 1 .. m : i = m \/ i \in 1 .. m - 1
      BY <3>1
    <3>3. \A i \in 1 .. m - 1 : h[m] <= h[j] => h[m] <= h[i]
      BY <2>1, <3>1, <3>2
    <3>4. h[m] <= h[j] \/ h[j] <= h[m]
      BY <2>1, <3>2
    <3>. QED  BY <2>1, <3>1, <3>2, <3>3, <3>4
  <2>. QED  BY <2>2, <2>3
<1> HIDE DEF P
<1>5. PICK Q : Q = P
  OBVIOUS
<1>6. n \in P
  BY <1>3, <1>4, <1>5, Induct
<1>7. n # 0
  <2>1. PICK y : y \in T
    OBVIOUS
  <2>2. PICK i \in 1 .. n : h[i] = y
    BY <1>2, <2>1
  <2>. QED  BY <2>2
<1>8. PICK j \in 1 .. n : \A i \in 1 .. n : h[j] <= h[i]
  BY <1>6, <1>7 DEF P
<1>9. h[j] \in T /\ \A y \in T : h[j] <= y
  BY <1>2, <1>8
<1>. QED  BY <1>9 DEF Min

\* While an output stream is not finished there is one that may proceed: those without
\* a timestamp, or the one that is most behind.  (schedule_update_locked and trailing_dts,
\* for any timestamps of finitely many streams.)
THEOREM TrailingProceeds ==
    ASSUME NEW s, IsFiniteSet(DOMAIN s.last_dts), \A n \in DOMAIN s.last_dts : s.last_dts[n] \in Int \cup {NOPTS},
           NEW n \in DOMAIN s.last_dts, n \notin s.source_finished
    PROVE  \E m \in DOMAIN s.last_dts : MayProceed(s, m)
<1>1. PICK T : T = UnfinishedDts(s)
  OBVIOUS
<1>2. T # {} /\ T \subseteq Int \cup {NOPTS} /\ NOPTS \notin Int
  BY <1>1, ToleranceAssumption DEF UnfinishedDts
<1>3. CASE NOPTS \in T
  <2>1. TrailingDts(s) = NOPTS
    BY <1>1, <1>3 DEF TrailingDts
  <2>2. PICK m \in DOMAIN s.last_dts \ s.source_finished : s.last_dts[m] = NOPTS
    BY <1>1, <1>3 DEF UnfinishedDts
  <2>. QED  BY <2>1, <2>2 DEF MayProceed
<1>4. CASE NOPTS \notin T
  <2>1. IsFiniteSet(T)
    <3>1. IsFiniteSet(DOMAIN s.last_dts \ s.source_finished)
      BY FS_Subset
    <3>2. PICK S : S = DOMAIN s.last_dts \ s.source_finished
      OBVIOUS
    <3>3. [m \in S |-> s.last_dts[m]] \in Surjection(S, T)
      BY <1>1, <3>2 DEF UnfinishedDts, Surjection
    <3>. QED  BY <3>1, <3>2, <3>3, FS_Surjection DEF ExistsSurjection
  <2>2. Min(T) \in T
    BY <1>2, <1>4, <2>1, LeastInt
  <2>3. TrailingDts(s) = Min(T) /\ Min(T) \in Int
    BY <1>1, <1>2, <1>4, <2>2 DEF TrailingDts
  <2>4. PICK m \in DOMAIN s.last_dts \ s.source_finished : s.last_dts[m] = Min(T)
    BY <1>1, <2>2 DEF UnfinishedDts
  <2>5. s.last_dts[m] - TrailingDts(s) < Tolerance
    BY <2>3, <2>4, ToleranceAssumption
  <2>. QED  BY <1>2, <2>3, <2>4, <2>5 DEF MayProceed
<1>. QED  BY <1>3, <1>4

-----------------------------------------------------------------------------
(* The invariant                                                           *)

\* Frames and packets; not the EOF of a decoder.
IsMedia(s) == IsSeq(s) /\ \A i \in DOMAIN s : s[i].k # "eof"

\* The task that sends what a source makes.
Owner(src) == <<IF src[1] = "fout" THEN "filter" ELSE src[1], src[2]>>

Link(g, t, c) == c.src \in Sources(g) /\ c.dst \in Sinks(g) /\ g.src[c.dst] = c.src /\ Owner(c.src) = t

SyncedIn(g, dst) == dst[1] = "enc" /\ dst[2] \in g.synced

\* What a task may be asked to do.
IsCall(g, t, c) ==
    /\ c.op \in {"send", "close", "sync_close", "sync", "progress", "source_finished", "exited", "failed",
                 "queue_done", "mux_done", "flush", "end_ts", "receive_finish", "close_output", "choke_inputs"}
    /\ c.op = "send" => /\ c = Send(c.src, c.dst, c.item) /\ Link(g, t, c)
                        /\ c.dst[1] \in {"mux", "enc"} => c.item.k # "eof"
    /\ c.op \in {"close", "sync_close"} => c = [op |-> c.op, src |-> c.src, dst |-> c.dst] /\ Link(g, t, c)
    /\ c.op = "sync" => Link(g, t, c)
    /\ c.op \in {"sync_close", "sync"} => SyncedIn(g, c.dst)
    /\ c.op \in {"progress", "source_finished"} => c.node \in Streams(g, "mux")
    /\ c.op \in {"flush", "end_ts"} => t[1] = "demux" /\ c.node \in Streams(g, "dec")
    /\ c.op = "close_output" => t[1] = "filter" /\ c.node \in Streams(g, "fout") /\ Owner(c.node) = t
    /\ c.op = "choke_inputs" => t[1] = "filter"
    /\ c.op = "mux_done" => t[1] = "mux"

\* Nothing is sent after the call that finishes it; a muxer is counted once.
Follows(c, e) ==
    /\ e.op = "send" => (c.op = "close" => c.dst # e.dst) /\ (c.op = "close_output" => c.node # e.src)
    /\ ~ (c.op = "mux_done" /\ e.op = "mux_done")

IsTodo(g, t, s) ==
    /\ IsSeq(s)
    /\ \A i \in DOMAIN s : IsCall(g, t, s[i])
    /\ \A i, j \in DOMAIN s : i < j => Follows(s[i], s[j])

\* Nothing is sent that was finished.
Fresh(finished, s) == \A i \in DOMAIN s : s[i].op = "send" => <<s[i].src, s[i].dst>> \notin finished

TaskInv ==
    /\ DOMAIN task = Tasks(graph)
    /\ \A t \in Tasks(graph) :
          /\ task[t] = [pc |-> task[t].pc, todo |-> task[t].todo]
          /\ IsTodo(graph, t, task[t].todo)
          /\ Fresh(dst_finished, task[t].todo)
          /\ \A i \in DOMAIN task[t].todo : task[t].todo[i].op = "mux_done" => task[t].pc = "gone"

IsQueue(g, t, s) ==
    /\ IsSeq(s)
    /\ \A i \in DOMAIN s : /\ s[i][1] \in Sinks(g) /\ Queue(s[i][1]) = t
                           /\ s[i][1][1] = "enc" => s[i][2].k # "eof"

QueueInv == DOMAIN q = Tasks(graph) /\ \A t \in Tasks(graph) : IsQueue(graph, t, q[t])

\* What rate control reads.
IsSched(g, s) ==
    /\ s.source_finished \subseteq Streams(g, "mux")
    /\ DOMAIN s.best_input = DOMAIN g.filters
    /\ \A f \in DOMAIN g.filters : s.best_input[f] \in 1 .. NoInput(g, f)

RateInv ==
    /\ graph \in Graphs
    /\ DOMAIN sched = {"last_dts", "source_finished", "best_input", "send_finished", "receive_finished", "exited"}
    /\ IsSched(graph, sched)
    /\ choked \subseteq Waiters(graph) /\ asleep \subseteq Waiters(graph)
    /\ frozen \subseteq 1 .. graph.nb_dec
    /\ opened \subseteq Streams(graph, "enc")

\* A demuxer with something to send knows its stream.
ReaderInv ==
    /\ DOMAIN reader = DOMAIN graph.demux
    /\ \A d \in DOMAIN graph.demux :
          /\ DOMAIN reader[d] = {"pos", "stream", "rest", "sent", "finished", "nb_finished", "loop", "shift"}
          /\ reader[d].pos \in Nat \ {0}
          /\ task[<<"demux", d>>].pc = "send" \/ reader[d].rest # <<>> => reader[d].stream \in 1 .. graph.demux[d]

\* An input without a format is left until the graph is configured.
IsFilter(g, f, x) ==
    /\ DOMAIN x = {"format", "configured", "eof_in", "eof", "next", "got_frame", "made", "ripe", "sink", "buf"}
    /\ x.next \in 1 .. NoInput(g, f)
    /\ x.format \subseteq 1 .. g.filters[f].in
    /\ x.configured \in BOOLEAN
    /\ ~ x.configured => x.format # 1 .. g.filters[f].in
    /\ IsMedia(x.ripe) /\ IsMedia(x.sink)
    /\ DOMAIN x.buf = 1 .. g.filters[f].in
    /\ \A k \in 1 .. g.filters[f].in : IsMedia(x.buf[k])

FltInv == DOMAIN flt = DOMAIN graph.filters /\ \A f \in DOMAIN graph.filters : IsFilter(graph, f, flt[f])

MainInv ==
    /\ DOMAIN main = {"pc", "failed", "quit"}
    /\ main.pc # "refused" => /\ \A src \in Sources(graph) : Dsts(graph, src) # <<>>
                              /\ \A dst \in Sinks(graph) : SrcOf(graph, dst) # NoNode

\* A stream is finished for sending because its sender said so, or was turned away.
EndInv ==
    /\ DOMAIN closed = {"send", "recv"}
    /\ \A dst \in Sinks(graph) : dst \in closed.send /\ ~ SyncedIn(graph, dst) =>
          dst \in closed.recv \/ <<SrcOf(graph, dst), dst>> \in dst_finished

MuxInv ==
    /\ DOMAIN mux = {"started", "pre", "written", "done"}
    /\ DOMAIN mux.pre = Streams(graph, "mux")
    /\ \A n \in Streams(graph, "mux") :
          /\ IsSeq(mux.pre[n])
          /\ \A i \in DOMAIN mux.pre[n] : mux.pre[n][i].k = "eof" => <<SrcOf(graph, n), n>> \in dst_finished

\* Behind a sync queue an encoder is finished when it wants no more, or when all are
\* and the queue has nothing left to give.
SyncInv ==
    /\ DOMAIN sync = {"owner", "finished", "end", "head", "buf"}
    /\ sync.finished \subseteq graph.synced
    /\ DOMAIN sync.buf = graph.synced
    /\ \A j \in graph.synced :
          /\ IsMedia(sync.buf[j])
          /\ Node("enc", j, 1) \in closed.send =>
                \/ Node("enc", j, 1) \in closed.recv
                \/ sync.finished = graph.synced /\ \A l \in graph.synced : ~ SyncReady(sync, l)

\* nb_mux_done counts the muxers that have reported.
Counted(x) == x.pc = "gone" /\ \A i \in DOMAIN x.todo : x.todo[i].op # "mux_done"
CountInv == mux.done = Cardinality({m \in DOMAIN graph.mux : Counted(task[<<"mux", m>>])})

PipeInv ==
    /\ TaskInv /\ QueueInv /\ RateInv /\ ReaderInv /\ FltInv /\ MainInv
    /\ EndInv /\ MuxInv /\ SyncInv /\ CountInv

-----------------------------------------------------------------------------
(* Streams, tasks and queues of a graph                                    *)

\* Who can receive: sch_connect takes decoders, encoders, filtergraph inputs and muxed streams.
LEMMA SinkForms ==
    ASSUME NEW g, NEW n \in Sinks(g)
    PROVE  /\ n = <<n[1], n[2], n[3]>> /\ n[1] \in {"dec", "enc", "fin", "mux"}
           /\ n[1] = "dec" => n \in Streams(g, "dec") /\ n[2] \in 1 .. g.nb_dec /\ n[3] = 1
           /\ n[1] = "enc" => n \in Streams(g, "enc") /\ n[2] \in 1 .. g.nb_enc /\ n[3] = 1
           /\ n[1] = "fin" => n \in Streams(g, "fin") /\ n[2] \in DOMAIN g.filters
                              /\ n[3] \in 1 .. g.filters[n[2]].in
           /\ n[1] = "mux" => n \in Streams(g, "mux") /\ n[2] \in DOMAIN g.mux /\ n[3] \in 1 .. g.mux[n[2]]
<1>1. CASE n \in Streams(g, "dec")
  BY <1>1 DEF Streams, Node
<1>2. CASE n \in Streams(g, "enc")
  BY <1>2 DEF Streams, Node
<1>3. CASE n \in Streams(g, "fin")
  BY <1>3 DEF Streams, Node
<1>4. CASE n \in Streams(g, "mux")
  BY <1>4 DEF Streams, Node
<1>. QED  BY <1>1, <1>2, <1>3, <1>4 DEF Sinks

\* Who can send.
LEMMA SourceForms ==
    ASSUME NEW g, NEW n \in Sources(g)
    PROVE  /\ n = <<n[1], n[2], n[3]>> /\ n[1] \in {"demux", "dec", "enc", "fout"}
           /\ n[1] = "demux" => n[2] \in DOMAIN g.demux
           /\ n[1] = "dec" => n[2] \in 1 .. g.nb_dec
           /\ n[1] = "enc" => n[2] \in 1 .. g.nb_enc
           /\ n[1] = "fout" => n[2] \in DOMAIN g.filters
<1>1. CASE n \in Streams(g, "demux")
  BY <1>1 DEF Streams, Node
<1>2. CASE n \in Streams(g, "dec")
  BY <1>2 DEF Streams, Node
<1>3. CASE n \in Streams(g, "enc")
  BY <1>3 DEF Streams, Node
<1>4. CASE n \in Streams(g, "fout")
  BY <1>4 DEF Streams, Node
<1>. QED  BY <1>1, <1>2, <1>3, <1>4 DEF Sources

\* The nodes of each component.
LEMMA NodeForms ==
    ASSUME NEW g
    PROVE  /\ \A i \in DOMAIN g.demux : \A k \in 1 .. g.demux[i] : Node("demux", i, k) \in Sources(g)
           /\ \A i \in 1 .. g.nb_dec : Node("dec", i, 1) \in Sources(g) /\ Node("dec", i, 1) \in Sinks(g)
           /\ \A i \in 1 .. g.nb_enc : Node("enc", i, 1) \in Sources(g) /\ Node("enc", i, 1) \in Sinks(g)
                                       /\ Node("enc", i, 1) \in Streams(g, "enc")
           /\ \A i \in DOMAIN g.filters : \A k \in 1 .. g.filters[i].in : Node("fin", i, k) \in Sinks(g)
           /\ \A i \in DOMAIN g.filters : \A k \in 1 .. g.filters[i].out :
                 Node("fout", i, k) \in Sources(g) /\ Node("fout", i, k) \in Streams(g, "fout")
           /\ \A i \in DOMAIN g.mux : \A k \in 1 .. g.mux[i] :
                 Node("mux", i, k) \in Sinks(g) /\ Node("mux", i, k) \in Streams(g, "mux")
<1>1. \A i \in DOMAIN g.demux : \A k \in 1 .. g.demux[i] : Node("demux", i, k) \in Streams(g, "demux")
  BY DEF Streams
<1>2. \A i \in 1 .. g.nb_dec : Node("dec", i, 1) \in Streams(g, "dec")
  BY DEF Streams
<1>3. \A i \in 1 .. g.nb_enc : Node("enc", i, 1) \in Streams(g, "enc")
  BY DEF Streams
<1>4. \A i \in DOMAIN g.filters : \A k \in 1 .. g.filters[i].in : Node("fin", i, k) \in Streams(g, "fin")
  BY DEF Streams
<1>5. \A i \in DOMAIN g.filters : \A k \in 1 .. g.filters[i].out : Node("fout", i, k) \in Streams(g, "fout")
  BY DEF Streams
<1>6. \A i \in DOMAIN g.mux : \A k \in 1 .. g.mux[i] : Node("mux", i, k) \in Streams(g, "mux")
  BY DEF Streams
<1>. QED  BY <1>1, <1>2, <1>3, <1>4, <1>5, <1>6 DEF Sources, Sinks

\* A task is one of the five kinds, with an index.
LEMMA TaskForms ==
    ASSUME NEW g, NEW t
    PROVE  t \in Tasks(g) <=> t = <<t[1], t[2]>> /\ t[1] \in Types /\ t[2] \in Indices(g, t[1])
BY DEF Tasks

\* The tasks of a graph, kind by kind.
LEMMA TaskCases ==
    ASSUME NEW g
    PROVE  /\ \A i \in DOMAIN g.demux : <<"demux", i>> \in Tasks(g)
           /\ \A i \in 1 .. g.nb_dec : <<"dec", i>> \in Tasks(g)
           /\ \A i \in DOMAIN g.filters : <<"filter", i>> \in Tasks(g)
           /\ \A i \in 1 .. g.nb_enc : <<"enc", i>> \in Tasks(g)
           /\ \A i \in DOMAIN g.mux : <<"mux", i>> \in Tasks(g)
           /\ \A t \in Tasks(g) : /\ t = <<t[1], t[2]>> /\ t[1] \in Types
                                  /\ t[1] = "demux" => t[2] \in DOMAIN g.demux
                                  /\ t[1] = "dec" => t[2] \in 1 .. g.nb_dec
                                  /\ t[1] = "filter" => t[2] \in DOMAIN g.filters
                                  /\ t[1] = "enc" => t[2] \in 1 .. g.nb_enc
                                  /\ t[1] = "mux" => t[2] \in DOMAIN g.mux
<1>1. ASSUME NEW i \in DOMAIN g.demux PROVE <<"demux", i>> \in Tasks(g)
  BY <1>1 DEF Tasks, Types, Indices
<1>2. ASSUME NEW i \in 1 .. g.nb_dec PROVE <<"dec", i>> \in Tasks(g)
  BY <1>2 DEF Tasks, Types, Indices
<1>3. ASSUME NEW i \in DOMAIN g.filters PROVE <<"filter", i>> \in Tasks(g)
  BY <1>3 DEF Tasks, Types, Indices
<1>4. ASSUME NEW i \in 1 .. g.nb_enc PROVE <<"enc", i>> \in Tasks(g)
  BY <1>4 DEF Tasks, Types, Indices
<1>5. ASSUME NEW i \in DOMAIN g.mux PROVE <<"mux", i>> \in Tasks(g)
  BY <1>5 DEF Tasks, Types, Indices
<1>6. ASSUME NEW t \in Tasks(g)
      PROVE  /\ t = <<t[1], t[2]>> /\ t[1] \in Types
             /\ t[1] = "demux" => t[2] \in DOMAIN g.demux
             /\ t[1] = "dec" => t[2] \in 1 .. g.nb_dec
             /\ t[1] = "filter" => t[2] \in DOMAIN g.filters
             /\ t[1] = "enc" => t[2] \in 1 .. g.nb_enc
             /\ t[1] = "mux" => t[2] \in DOMAIN g.mux
  <2>1. t = <<t[1], t[2]>> /\ t[1] \in Types /\ t[2] \in Indices(g, t[1])
    BY TaskForms
  <2>. QED  BY <2>1 DEF Indices
<1>. QED  BY <1>1, <1>2, <1>3, <1>4, <1>5, <1>6

\* A destination belongs to the queue of a task, and is one of its streams.
LEMMA QueueForms ==
    ASSUME NEW n \in Sinks(graph), Sized(graph)
    PROVE  Queue(n) \in Tasks(graph) /\ n \in QueueStreams(Queue(n)) /\ Queue(n)[1] # "demux"
           /\ (n[1] = "mux" <=> Queue(n)[1] = "mux") /\ (n[1] = "enc" <=> Queue(n)[1] = "enc")
<1>1. CASE n[1] = "dec"
  BY <1>1, SinkForms, TaskCases DEF Queue, QueueStreams, Node
<1>2. CASE n[1] = "enc"
  BY <1>2, SinkForms, TaskCases DEF Queue, QueueStreams, Node
<1>3. CASE n[1] = "fin"
  <2>1. n[2] \in DOMAIN graph.filters /\ n[3] \in 1 .. graph.filters[n[2]].in /\ n = <<"fin", n[2], n[3]>>
    BY <1>3, SinkForms
  <2>2. Queue(n) = <<"filter", n[2]>> /\ Queue(n) \in Tasks(graph)
    BY <1>3, <2>1, TaskCases DEF Queue
  <2>3. graph.filters[n[2]].in \in Nat
    BY <2>1 DEF Sized
  <2>4. n[3] \in 1 .. NoInput(graph, n[2])
    BY <2>1, <2>3 DEF NoInput
  <2>5. QueueStreams(<<"filter", n[2]>>) = {Node("fin", n[2], k) : k \in 1 .. NoInput(graph, n[2])}
    BY DEF QueueStreams
  <2>6. n \in QueueStreams(<<"filter", n[2]>>)
    BY <2>1, <2>4, <2>5 DEF Node
  <2>. QED  BY <1>3, <2>2, <2>6
<1>4. CASE n[1] = "mux"
  BY <1>4, SinkForms, TaskCases DEF Queue, QueueStreams, Node
<1>. QED  BY <1>1, <1>2, <1>3, <1>4, SinkForms

\* Every source has a thread that sends for it.
LEMMA OwnerIsTask ==
    ASSUME NEW g, NEW n \in Sources(g)
    PROVE  Owner(n) \in Tasks(g) /\ Owner(n)[1] # "mux"
BY SourceForms, TaskCases DEF Owner

-----------------------------------------------------------------------------
(* What a task has to do                                                   *)

\* Nothing to do is a list of calls.
LEMMA NoTodo ==
    ASSUME NEW g, NEW t, NEW fin
    PROVE  IsTodo(g, t, <<>>) /\ Fresh(fin, <<>>)
BY NoSeq DEF IsTodo, Fresh

\* So is one call,
LEMMA OneTodo ==
    ASSUME NEW g, NEW t, NEW c, IsCall(g, t, c)
    PROVE  IsTodo(g, t, <<c>>) /\ DOMAIN <<c>> = {1} /\ <<c>>[1] = c
<1>1. IsSeq(<<c>>) /\ DOMAIN <<c>> = {1} /\ <<c>>[1] = c
  BY OneSeq
<1>2. PICK s : s = <<c>>
  OBVIOUS
<1>3. IsTodo(g, t, s)
  BY <1>1, <1>2 DEF IsTodo
<1>. QED  BY <1>1, <1>2, <1>3

\* and two in order.
LEMMA TwoTodo ==
    ASSUME NEW g, NEW t, NEW c, IsCall(g, t, c), NEW e, IsCall(g, t, e), Follows(c, e)
    PROVE  IsTodo(g, t, <<c, e>>) /\ DOMAIN <<c, e>> = {1, 2} /\ <<c, e>>[1] = c /\ <<c, e>>[2] = e
<1>1. IsSeq(<<c, e>>) /\ DOMAIN <<c, e>> = {1, 2} /\ <<c, e>>[1] = c /\ <<c, e>>[2] = e
  BY TwoSeq
<1>2. PICK s : s = <<c, e>>
  OBVIOUS
<1>3. IsTodo(g, t, s)
  BY <1>1, <1>2 DEF IsTodo
<1>. QED  BY <1>1, <1>2, <1>3

\* The rest of a list may follow its head, and sends nothing that was finished.
LEMMA TailTodo ==
    ASSUME NEW g, NEW t, NEW fin, NEW s, IsTodo(g, t, s), Fresh(fin, s), s # <<>>
    PROVE  /\ IsTodo(g, t, Tail(s)) /\ Fresh(fin, Tail(s)) /\ IsCall(g, t, Head(s))
           /\ \A i \in DOMAIN Tail(s) : Follows(Head(s), Tail(s)[i]) /\ i + 1 \in DOMAIN s /\ Tail(s)[i] = s[i + 1]
           /\ 1 \in DOMAIN s /\ Head(s) = s[1]
           /\ Head(s).op = "send" => <<Head(s).src, Head(s).dst>> \notin fin
<1>1. IsSeq(s)
  BY DEF IsTodo
<1>2. PICK r : r = Tail(s)
  OBVIOUS
<1>3. /\ IsSeq(r) /\ 1 \in DOMAIN s /\ Head(s) = s[1]
      /\ DOMAIN r = 1 .. Len(s) - 1
      /\ \A i \in DOMAIN r : i + 1 \in DOMAIN s /\ r[i] = s[i + 1]
  BY <1>1, <1>2, TailSeq
<1>4. DOMAIN s = 1 .. Len(s) /\ Len(s) \in Nat
  BY <1>1, SeqDomain
<1>5. ASSUME NEW i \in DOMAIN r PROVE i \in Nat /\ 1 < i + 1 /\ i + 1 \in DOMAIN s
  BY <1>3, <1>4
<1>6. ASSUME NEW i \in DOMAIN r PROVE IsCall(g, t, r[i]) /\ Follows(s[1], r[i])
  BY <1>3, <1>5 DEF IsTodo
<1>7. ASSUME NEW i \in DOMAIN r, NEW j \in DOMAIN r, i < j PROVE Follows(r[i], r[j])
  <2>1. i + 1 < j + 1
    BY <1>5, <1>7
  <2>. QED  BY <2>1, <1>3, <1>5 DEF IsTodo
<1>8. IsTodo(g, t, r)
  BY <1>3, <1>6, <1>7 DEF IsTodo
<1>9. Fresh(fin, r)
  BY <1>3 DEF Fresh
<1>10. IsCall(g, t, s[1]) /\ (s[1].op = "send" => <<s[1].src, s[1].dst>> \notin fin)
  BY <1>3 DEF IsTodo, Fresh
<1>. QED  BY <1>2, <1>3, <1>6, <1>8, <1>9, <1>10

\* Two lists of which the second may follow the first.
LEMMA ConcatTodo ==
    ASSUME NEW g, NEW t, NEW fin, NEW s, IsTodo(g, t, s), Fresh(fin, s),
           NEW r, IsTodo(g, t, r), Fresh(fin, r),
           \A i \in DOMAIN s : \A j \in DOMAIN r : Follows(s[i], r[j])
    PROVE  /\ IsTodo(g, t, s \o r) /\ Fresh(fin, s \o r)
           /\ \A i \in DOMAIN (s \o r) : \/ \E j \in DOMAIN s : (s \o r)[i] = s[j]
                                         \/ \E j \in DOMAIN r : (s \o r)[i] = r[j]
<1>1. IsSeq(s) /\ IsSeq(r)
  BY DEF IsTodo
<1>2. PICK c : c = s \o r
  OBVIOUS
<1>3. PICK l \in Nat : l = Len(s) /\ DOMAIN s = 1 .. l
  BY <1>1, SeqDomain
<1>4. PICK n \in Nat : n = Len(r) /\ DOMAIN r = 1 .. n
  BY <1>1, SeqDomain
<1>5. /\ IsSeq(c) /\ DOMAIN c = 1 .. l + n
      /\ \A i \in 1 .. l : c[i] = s[i]
      /\ \A i \in 1 .. n : c[l + i] = r[i]
  BY <1>1, <1>2, <1>3, <1>4, ConcatSeq
<1>6. ASSUME NEW i \in 1 .. l + n, i <= l PROVE i \in 1 .. l /\ c[i] = s[i]
  BY <1>5, <1>6
<1>7. ASSUME NEW i \in 1 .. l + n, ~ i <= l PROVE i - l \in 1 .. n /\ c[i] = r[i - l]
  <2>1. i - l \in 1 .. n /\ l + (i - l) = i
    BY <1>7
  <2>. QED  BY <2>1, <1>5
<1>8. ASSUME NEW i \in 1 .. l + n
      PROVE  IsCall(g, t, c[i]) /\ (c[i].op = "send" => <<c[i].src, c[i].dst>> \notin fin)
             /\ ((\E j \in DOMAIN s : c[i] = s[j]) \/ (\E j \in DOMAIN r : c[i] = r[j]))
  BY <1>3, <1>4, <1>6, <1>7 DEF IsTodo, Fresh
<1>9. ASSUME NEW i \in 1 .. l + n, NEW j \in 1 .. l + n, i < j PROVE Follows(c[i], c[j])
  <2>1. CASE j <= l
    <3>1. i <= l
      BY <2>1, <1>9
    <3>2. i \in DOMAIN s /\ j \in DOMAIN s /\ c[i] = s[i] /\ c[j] = s[j]
      BY <2>1, <3>1, <1>3, <1>6
    <3>. QED  BY <3>2, <1>9 DEF IsTodo
  <2>2. CASE i <= l /\ ~ j <= l
    <3>1. i \in DOMAIN s /\ c[i] = s[i] /\ j - l \in DOMAIN r /\ c[j] = r[j - l]
      BY <2>2, <1>3, <1>4, <1>6, <1>7
    <3>. QED  BY <3>1
  <2>3. CASE ~ i <= l /\ ~ j <= l
    <3>1. i - l \in DOMAIN r /\ j - l \in DOMAIN r /\ c[i] = r[i - l] /\ c[j] = r[j - l]
      BY <2>3, <1>4, <1>7
    <3>2. i - l < j - l
      BY <1>9
    <3>. QED  BY <3>1, <3>2 DEF IsTodo
  <2>. QED  BY <2>1, <2>2, <2>3
<1>10. IsTodo(g, t, c) /\ Fresh(fin, c)
  BY <1>5, <1>8, <1>9 DEF IsTodo, Fresh
<1>. QED  BY <1>2, <1>5, <1>8, <1>10

\* Calls may be dropped from a list.
LEMMA KeptTodo ==
    ASSUME NEW g, NEW t, NEW fin, NEW s, IsTodo(g, t, s), Fresh(fin, s), NEW keep
    PROVE  /\ IsTodo(g, t, Kept(s, keep)) /\ Fresh(fin, Kept(s, keep))
           /\ \A i \in DOMAIN Kept(s, keep) : \E j \in DOMAIN s \cap keep : Kept(s, keep)[i] = s[j]
<1>1. IsSeq(s)
  BY DEF IsTodo
<1>2. PICK k : k = Kept(s, keep)
  OBVIOUS
<1>3. IsSeq(k) /\ Chosen(s, keep, k) # {}
  BY <1>1, <1>2, KeptSeq
<1>4. PICK pos \in Chosen(s, keep, k) : TRUE
  BY <1>3
<1>5. /\ \A i \in DOMAIN k : pos[i] \in DOMAIN s \cap keep /\ k[i] = s[pos[i]]
      /\ \A i, j \in DOMAIN k : i < j => pos[i] < pos[j]
  BY <1>4 DEF Chosen
<1>6. IsTodo(g, t, k)
  <2>1. ASSUME NEW i \in DOMAIN k PROVE IsCall(g, t, k[i])
    BY <1>5 DEF IsTodo
  <2>2. ASSUME NEW i \in DOMAIN k, NEW j \in DOMAIN k, i < j PROVE Follows(k[i], k[j])
    <3>1. pos[i] \in DOMAIN s /\ pos[j] \in DOMAIN s /\ pos[i] < pos[j] /\ k[i] = s[pos[i]] /\ k[j] = s[pos[j]]
      BY <1>5, <2>2
    <3>. QED  BY <3>1 DEF IsTodo
  <2>. QED  BY <1>3, <2>1, <2>2 DEF IsTodo
<1>7. Fresh(fin, k)
  BY <1>5 DEF Fresh
<1>. QED  BY <1>2, <1>5, <1>6, <1>7

\* The same of the calls of several lists, one list after the other.
Chained(ss) ==
    \A i, j \in DOMAIN ss : i < j => \A a \in DOMAIN ss[i] : \A b \in DOMAIN ss[j] : Follows(ss[i][a], ss[j][b])

From(ss, r) == \A x \in DOMAIN r : \E i \in DOMAIN ss : \E a \in DOMAIN ss[i] : r[x] = ss[i][a]

\* Lists that may follow each other are one list.
LEMMA FlatTodo ==
    ASSUME NEW g, NEW t, NEW fin, NEW ss, IsSeq(ss),
           \A i \in DOMAIN ss : IsTodo(g, t, ss[i]) /\ Fresh(fin, ss[i]),
           Chained(ss)
    PROVE  IsTodo(g, t, FlattenSeq(ss)) /\ Fresh(fin, FlattenSeq(ss)) /\ From(ss, FlattenSeq(ss))
<1>1. PICK f : f = FlattenSeq(ss)
  OBVIOUS
<1>2. \A i \in DOMAIN ss : IsSeq(ss[i])
  BY DEF IsTodo
<1>3. IsSeq(f) /\ Drawn(ss, f) # {}
  BY <1>1, <1>2, FlatSeq
<1>4. PICK p \in Drawn(ss, f) : TRUE
  BY <1>3
<1>5. /\ \A x \in DOMAIN f : /\ p[x][1] \in DOMAIN ss /\ p[x][2] \in DOMAIN ss[p[x][1]]
                             /\ f[x] = ss[p[x][1]][p[x][2]]
      /\ \A x, y \in DOMAIN f : x < y => \/ p[x][1] < p[y][1]
                                         \/ p[x][1] = p[y][1] /\ p[x][2] < p[y][2]
  BY <1>4 DEF Drawn
<1>6. ASSUME NEW x \in DOMAIN f
      PROVE  IsCall(g, t, f[x]) /\ (f[x].op = "send" => <<f[x].src, f[x].dst>> \notin fin)
  <2>1. PICK i \in DOMAIN ss : \E a \in DOMAIN ss[i] : f[x] = ss[i][a]
    BY <1>5
  <2>. QED  BY <2>1 DEF IsTodo, Fresh
<1>7. ASSUME NEW x \in DOMAIN f, NEW y \in DOMAIN f, x < y PROVE Follows(f[x], f[y])
  <2>1. PICK i, a : i = p[x][1] /\ a = p[x][2]
    OBVIOUS
  <2>2. PICK j, b : j = p[y][1] /\ b = p[y][2]
    OBVIOUS
  <2>3. /\ i \in DOMAIN ss /\ a \in DOMAIN ss[i] /\ f[x] = ss[i][a]
        /\ j \in DOMAIN ss /\ b \in DOMAIN ss[j] /\ f[y] = ss[j][b]
        /\ i < j \/ (i = j /\ a < b)
    BY <1>5, <1>7, <2>1, <2>2
  <2>4. CASE i < j
    BY <2>3, <2>4 DEF Chained
  <2>5. CASE i = j /\ a < b
    <3>1. IsTodo(g, t, ss[i]) /\ b \in DOMAIN ss[i] /\ f[y] = ss[i][b]
      BY <2>3, <2>5
    <3>. QED  BY <2>3, <2>5, <3>1 DEF IsTodo
  <2>. QED  BY <2>3, <2>4, <2>5
<1>8. IsTodo(g, t, f) /\ Fresh(fin, f)
  BY <1>3, <1>6, <1>7 DEF IsTodo, Fresh
<1>9. From(ss, f)
  BY <1>5 DEF From
<1>. QED  BY <1>1, <1>8, <1>9

\* Calls that send nothing and do not count a muxer, may stand anywhere.
Quiet(g, t, s) ==
    IsSeq(s) /\ \A i \in DOMAIN s : IsCall(g, t, s[i]) /\ s[i].op \notin {"send", "mux_done"}

\* A list that sends nothing can stand whatever is finished.
LEMMA QuietTodo ==
    ASSUME NEW g, NEW t, NEW fin, NEW s, Quiet(g, t, s)
    PROVE  IsTodo(g, t, s) /\ Fresh(fin, s)
BY DEF Quiet, IsTodo, Fresh, Follows

\* The empty list is quiet.
LEMMA NoQuiet ==
    ASSUME NEW g, NEW t
    PROVE  Quiet(g, t, <<>>)
BY NoSeq DEF Quiet

\* One call that sends nothing is quiet,
LEMMA OneQuiet ==
    ASSUME NEW g, NEW t, NEW c, IsCall(g, t, c), c.op \notin {"send", "mux_done"}
    PROVE  Quiet(g, t, <<c>>)
<1>1. IsSeq(<<c>>) /\ DOMAIN <<c>> = {1} /\ <<c>>[1] = c
  BY OneSeq
<1>2. PICK s : s = <<c>>
  OBVIOUS
<1>3. Quiet(g, t, s)
  BY <1>1, <1>2 DEF Quiet
<1>. QED  BY <1>2, <1>3

\* two are,
LEMMA TwoQuiet ==
    ASSUME NEW g, NEW t, NEW c, IsCall(g, t, c), c.op \notin {"send", "mux_done"},
           NEW e, IsCall(g, t, e), e.op \notin {"send", "mux_done"}
    PROVE  Quiet(g, t, <<c, e>>)
<1>1. IsSeq(<<c, e>>) /\ DOMAIN <<c, e>> = {1, 2} /\ <<c, e>>[1] = c /\ <<c, e>>[2] = e
  BY TwoSeq
<1>2. PICK s : s = <<c, e>>
  OBVIOUS
<1>3. Quiet(g, t, s)
  BY <1>1, <1>2 DEF Quiet
<1>. QED  BY <1>2, <1>3

\* and quiet lists may be put together.
LEMMA ConcatQuiet ==
    ASSUME NEW g, NEW t, NEW s, Quiet(g, t, s), NEW r, Quiet(g, t, r)
    PROVE  Quiet(g, t, s \o r)
<1>1. IsSeq(s) /\ IsSeq(r)
  BY DEF Quiet
<1>2. PICK c : c = s \o r
  OBVIOUS
<1>3. PICK l \in Nat : l = Len(s) /\ DOMAIN s = 1 .. l
  BY <1>1, SeqDomain
<1>4. PICK n \in Nat : n = Len(r) /\ DOMAIN r = 1 .. n
  BY <1>1, SeqDomain
<1>5. /\ IsSeq(c) /\ DOMAIN c = 1 .. l + n
      /\ \A i \in 1 .. l : c[i] = s[i]
      /\ \A i \in 1 .. n : c[l + i] = r[i]
  BY <1>1, <1>2, <1>3, <1>4, ConcatSeq
<1>6. ASSUME NEW i \in DOMAIN c PROVE IsCall(g, t, c[i]) /\ c[i].op \notin {"send", "mux_done"}
  <2>1. CASE i \in 1 .. l
    BY <2>1, <1>3, <1>5 DEF Quiet
  <2>2. CASE i \notin 1 .. l
    <3>1. i - l \in 1 .. n /\ l + (i - l) = i
      BY <2>2, <1>5
    <3>. QED  BY <3>1, <1>4, <1>5 DEF Quiet
  <2>. QED  BY <2>1, <2>2
<1>. QED  BY <1>2, <1>5, <1>6 DEF Quiet

\* As many as there are.
LEMMA FlatQuiet ==
    ASSUME NEW g, NEW t, NEW ss, IsSeq(ss), \A i \in DOMAIN ss : Quiet(g, t, ss[i])
    PROVE  Quiet(g, t, FlattenSeq(ss))
<1>1. PICK f : f = FlattenSeq(ss)
  OBVIOUS
<1>2. \A i \in DOMAIN ss : IsSeq(ss[i])
  BY DEF Quiet
<1>3. IsSeq(f) /\ Drawn(ss, f) # {}
  BY <1>1, <1>2, FlatSeq
<1>4. PICK p \in Drawn(ss, f) : TRUE
  BY <1>3
<1>5. \A x \in DOMAIN f : /\ p[x][1] \in DOMAIN ss /\ p[x][2] \in DOMAIN ss[p[x][1]]
                          /\ f[x] = ss[p[x][1]][p[x][2]]
  BY <1>4 DEF Drawn
<1>6. ASSUME NEW x \in DOMAIN f PROVE IsCall(g, t, f[x]) /\ f[x].op \notin {"send", "mux_done"}
  <2>1. PICK i \in DOMAIN ss : \E a \in DOMAIN ss[i] : f[x] = ss[i][a]
    BY <1>5
  <2>. QED  BY <2>1 DEF Quiet
<1>. QED  BY <1>1, <1>3, <1>6 DEF Quiet

-----------------------------------------------------------------------------
(* The lists of calls the program makes                                    *)

Dst(src, k) == Unfinished(src)[k]

\* Unfinished(src) lists the destinations of src that are not finished for sending.
LEMMA UnfinishedSeq ==
    ASSUME WellFormed(graph), NEW src \in Sources(graph)
    PROVE  /\ IsSeq(Unfinished(src))
           /\ \A k \in DOMAIN Unfinished(src) :
                 /\ Dst(src, k) \in Sinks(graph) /\ graph.src[Dst(src, k)] = src
                 /\ Compatible(src, Dst(src, k))
                 /\ <<src, Dst(src, k)>> \notin dst_finished
                 /\ \E j \in DOMAIN Dsts(graph, src) : Dst(src, k) = Dsts(graph, src)[j]
<1>1. PICK d : d = Dsts(graph, src)
  OBVIOUS
<1>2. PICK keep : keep = {k \in DOMAIN d : <<src, d[k]>> \notin dst_finished}
  OBVIOUS
<1>3. PICK u : u = Kept(d, keep)
  OBVIOUS
<1>4. u = Unfinished(src)
  BY <1>1, <1>2, <1>3 DEF Unfinished
<1>5. d \in Seq(Sinks(graph)) /\ \A k \in DOMAIN d : graph.src[d[k]] = src /\ Compatible(src, d[k])
  BY <1>1 DEF WellFormed, Dsts
<1>6. IsSeq(d)
  BY <1>5, InSeq
<1>7. IsSeq(u) /\ Chosen(d, keep, u) # {}
  BY <1>3, <1>6, KeptSeq
<1>8. \A k \in DOMAIN u : \E j \in DOMAIN d \cap keep : u[k] = d[j]
  BY <1>7 DEF Chosen
<1>9. \A j \in DOMAIN d : d[j] \in Sinks(graph)
  BY <1>5
<1>10. ASSUME NEW k \in DOMAIN u
       PROVE  /\ u[k] \in Sinks(graph) /\ graph.src[u[k]] = src /\ Compatible(src, u[k])
              /\ <<src, u[k]>> \notin dst_finished /\ \E j \in DOMAIN d : u[k] = d[j]
  BY <1>2, <1>5, <1>8, <1>9
<1>. QED  BY <1>1, <1>4, <1>7, <1>10 DEF Dst

\* dec_done and enc_done close what they feed and send nothing.
LEMMA CloseAllQuiet ==
    ASSUME WellFormed(graph), NEW src \in Sources(graph), NEW t, Owner(src) = t
    PROVE  Quiet(graph, t, CloseAll(src))
<1>1. PICK u : u = Unfinished(src)
  OBVIOUS
<1>2. IsSeq(u) /\ \A k \in DOMAIN u : u[k] \in Sinks(graph) /\ graph.src[u[k]] = src
  BY <1>1, UnfinishedSeq DEF Dst
<1>3. PICK n \in Nat : n = Len(u) /\ DOMAIN u = 1 .. n
  BY <1>2, SeqDomain
<1>4. PICK s : s = CloseAll(src)
  OBVIOUS
<1>5. s = [k \in 1 .. n |-> Close(src, u[k])]
  BY <1>1, <1>3, <1>4 DEF CloseAll
<1>6. IsSeq(s) /\ DOMAIN s = 1 .. n
  BY <1>5, ListSeq
<1>7. ASSUME NEW k \in 1 .. n PROVE IsCall(graph, t, s[k]) /\ s[k].op \notin {"send", "mux_done"}
  <2>1. s[k] = [op |-> "close", src |-> src, dst |-> u[k]]
    BY <1>5 DEF Close
  <2>. QED  BY <2>1, <1>2, <1>3 DEF IsCall, Link
<1>. QED  BY <1>4, <1>6, <1>7 DEF Quiet

\* Only a decoder sends an EOF frame, and only to filtergraphs.
LEMMA SendAllTodo ==
    ASSUME graph \in Graphs, NEW src \in Sources(graph), NEW t, Owner(src) = t,
           NEW item, item.k = "eof" => src[1] = "dec"
    PROVE  /\ IsTodo(graph, t, SendAll(src, item)) /\ Fresh(dst_finished, SendAll(src, item))
           /\ \A i \in DOMAIN SendAll(src, item) : SendAll(src, item)[i].op = "send"
<1>0. WellFormed(graph)
  BY GraphsAssumption
<1>1. PICK u : u = Unfinished(src)
  OBVIOUS
<1>2. /\ IsSeq(u)
      /\ \A k \in DOMAIN u : /\ u[k] \in Sinks(graph) /\ graph.src[u[k]] = src
                             /\ <<src, u[k]>> \notin dst_finished
                             /\ \E j \in DOMAIN Dsts(graph, src) : u[k] = Dsts(graph, src)[j]
  BY <1>0, <1>1, UnfinishedSeq DEF Dst
<1>3. PICK n \in Nat : n = Len(u) /\ DOMAIN u = 1 .. n
  BY <1>2, SeqDomain
<1>4. PICK s : s = SendAll(src, item)
  OBVIOUS
<1>5. s = [k \in 1 .. n |-> Send(src, u[k], item)]
  BY <1>1, <1>3, <1>4 DEF SendAll
<1>6. IsSeq(s) /\ DOMAIN s = 1 .. n
  BY <1>5, ListSeq
<1>7. ASSUME NEW k \in 1 .. n
      PROVE  s[k] = Send(src, u[k], item) /\ s[k].op = "send" /\ s[k].src = src /\ s[k].dst = u[k]
             /\ s[k].item = item
  BY <1>5 DEF Send
<1>8. ASSUME NEW k \in 1 .. n, item.k = "eof" PROVE u[k][1] = "fin"
  <2>1. src[1] = "dec"
    BY <1>8
  <2>2. src \in Streams(graph, "dec")
    BY <2>1 DEF Sources, Streams, Node
  <2>3. \A j \in DOMAIN Dsts(graph, src) : Dsts(graph, src)[j][1] = "fin"
    BY <2>2, GraphsAssumption
  <2>4. PICK j \in DOMAIN Dsts(graph, src) : u[k] = Dsts(graph, src)[j]
    BY <1>2, <1>3
  <2>. QED  BY <2>3, <2>4
<1>9. ASSUME NEW k \in 1 .. n PROVE IsCall(graph, t, s[k])
  <2>1. u[k] \in Sinks(graph) /\ graph.src[u[k]] = src
    BY <1>2, <1>3
  <2>2. Link(graph, t, s[k])
    BY <2>1, <1>7 DEF Link
  <2>. QED  BY <2>2, <1>7, <1>8 DEF IsCall
<1>10. IsTodo(graph, t, s)
  BY <1>6, <1>7, <1>9 DEF IsTodo, Follows
<1>11. Fresh(dst_finished, s)
  BY <1>2, <1>3, <1>6, <1>7 DEF Fresh
<1>. QED  BY <1>4, <1>6, <1>7, <1>10, <1>11

\* Calls that every kind of task may make.
LEMMA CallAnywhere ==
    ASSUME NEW g, NEW t, NEW op \in {"exited", "failed", "queue_done", "receive_finish"}, NEW node
    PROVE  IsCall(g, t, Call(op, node)) /\ Call(op, node).op \notin {"send", "mux_done"}
           /\ Call(op, node).op = op
BY DEF IsCall, Call

\* All a task does when it ends; only a muxer has itself counted.
LEMMA CleanUpTodo ==
    ASSUME WellFormed(graph), NEW t \in Tasks(graph), NEW fin
    PROVE  /\ IsTodo(graph, t, CleanUp(t)) /\ Fresh(fin, CleanUp(t))
           /\ t[1] # "mux" => Quiet(graph, t, CleanUp(t))
           /\ t[1] = "mux" => \E i \in DOMAIN CleanUp(t) : CleanUp(t)[i].op = "mux_done"
<1> DEFINE close(type, n) == FlattenSeq([k \in 1 .. n |-> CloseAll(Node(type, t[2], k))])
<1>1. ASSUME NEW type, NEW n \in Nat, \A k \in 1 .. n : Node(type, t[2], k) \in Sources(graph),
             t = <<IF type = "fout" THEN "filter" ELSE type, t[2]>>
      PROVE  Quiet(graph, t, close(type, n))
  <2>1. PICK ss : ss = [k \in 1 .. n |-> CloseAll(Node(type, t[2], k))]
    OBVIOUS
  <2>2. IsSeq(ss) /\ DOMAIN ss = 1 .. n
    BY <2>1, ListSeq
  <2>3. ASSUME NEW k \in 1 .. n PROVE Quiet(graph, t, ss[k])
    <3>1. PICK src \in Sources(graph) : src = Node(type, t[2], k)
      BY <1>1
    <3>2. Owner(src) = t
      BY <3>1, <1>1 DEF Owner, Node
    <3>3. ss[k] = CloseAll(src)
      BY <2>1, <3>1
    <3>. QED  BY <3>2, <3>3, CloseAllQuiet
  <2>. QED  BY <2>1, <2>2, <2>3, FlatQuiet
<1>2. PICK done : done = Call("queue_done", NoNode)
  OBVIOUS
<1>3. PICK ex : ex = Call("exited", NoNode)
  OBVIOUS
<1>4. Quiet(graph, t, <<done>>) /\ Quiet(graph, t, <<ex>>)
  BY <1>2, <1>3, CallAnywhere, OneQuiet
<1>5. Sized(graph)
  BY DEF WellFormed
<1>6. t = <<t[1], t[2]>> /\ t[1] \in Types
  BY TaskCases
<1>7. CASE t[1] = "demux"
  <2>1. t[2] \in DOMAIN graph.demux /\ graph.demux[t[2]] \in Nat
    BY <1>5, <1>7, TaskCases DEF Sized
  <2>2. \A k \in 1 .. graph.demux[t[2]] : Node("demux", t[2], k) \in Sources(graph)
    BY <2>1, NodeForms
  <2>3. PICK c : c = close("demux", graph.demux[t[2]])
    OBVIOUS
  <2>4. Quiet(graph, t, c)
    BY <1>1, <1>6, <1>7, <2>1, <2>2, <2>3
  <2>5. CleanUp(t) = c \o <<ex>>
    BY <1>3, <1>7, <2>3 DEF CleanUp
  <2>6. Quiet(graph, t, c \o <<ex>>)
    BY <1>4, <2>4, ConcatQuiet
  <2>. QED  BY <1>7, <2>5, <2>6, QuietTodo
<1>8. CASE t[1] \in {"dec", "enc"}
  <2>1. PICK one \in Nat : one = 1
    OBVIOUS
  <2>2. \A k \in 1 .. one : Node(t[1], t[2], k) \in Sources(graph)
    BY <1>8, <2>1, NodeForms, TaskCases
  <2>3. PICK c : c = close(t[1], one)
    OBVIOUS
  <2>4. Quiet(graph, t, c)
    BY <1>1, <1>6, <1>8, <2>2, <2>3
  <2>5. CleanUp(t) = <<done>> \o c
    BY <1>2, <1>8, <2>1, <2>3 DEF CleanUp
  <2>6. Quiet(graph, t, <<done>> \o c)
    BY <1>4, <2>4, ConcatQuiet
  <2>. QED  BY <1>8, <2>5, <2>6, QuietTodo
<1>9. CASE t[1] = "filter"
  <2>1. t[2] \in DOMAIN graph.filters /\ graph.filters[t[2]].out \in Nat
    BY <1>5, <1>9, TaskCases DEF Sized
  <2>2. \A k \in 1 .. graph.filters[t[2]].out : Node("fout", t[2], k) \in Sources(graph)
    BY <2>1, NodeForms
  <2>3. PICK c : c = close("fout", graph.filters[t[2]].out)
    OBVIOUS
  <2>4. Quiet(graph, t, c)
    BY <1>1, <1>6, <1>9, <2>1, <2>2, <2>3
  <2>5. CleanUp(t) = <<done>> \o c \o <<ex>>
    BY <1>2, <1>3, <1>9, <2>3 DEF CleanUp
  <2>6. Quiet(graph, t, (<<done>> \o c) \o <<ex>>)
    <3>1. PICK a : a = <<done>> \o c
      OBVIOUS
    <3>2. Quiet(graph, t, a)
      BY <1>4, <2>4, <3>1, ConcatQuiet
    <3>3. Quiet(graph, t, a \o <<ex>>)
      BY <1>4, <3>2, ConcatQuiet
    <3>. QED  BY <3>1, <3>3
  <2>. QED  BY <1>9, <2>5, <2>6, QuietTodo
<1>10. CASE t[1] = "mux"
  <2>1. PICK m : m = Call("mux_done", NoNode)
    OBVIOUS
  <2>2. m.op = "mux_done" /\ IsCall(graph, t, m)
    BY <1>10, <2>1 DEF Call, IsCall
  <2>3. IsCall(graph, t, ex) /\ ex.op = "exited"
    BY <1>3, CallAnywhere
  <2>4. Follows(ex, m)
    BY <2>2, <2>3 DEF Follows
  <2>5. CleanUp(t) = <<ex, m>>
    BY <1>3, <1>10, <2>1 DEF CleanUp
  <2>6. PICK s : s = <<ex, m>>
    OBVIOUS
  <2>7. IsTodo(graph, t, s) /\ DOMAIN s = {1, 2} /\ s[1] = ex /\ s[2] = m
    BY <2>2, <2>3, <2>4, <2>6, TwoTodo
  <2>8. Fresh(fin, s)
    BY <2>2, <2>3, <2>7 DEF Fresh
  <2>. QED  BY <1>10, <2>2, <2>5, <2>6, <2>7, <2>8
<1>. QED  BY <1>6, <1>7, <1>8, <1>9, <1>10 DEF Types

\* The flush of the decoders between two loops sends nothing on a stream.
LEMMA FlushQuiet ==
    ASSUME WellFormed(graph), NEW d \in DOMAIN graph.demux, NEW t, t = <<"demux", d>>
    PROVE  Quiet(graph, t, FlushCalls(d))
<1> DEFINE decoders(k) == LET open == Unfinished(Node("demux", d, k))
                          IN  Kept(open, {j \in DOMAIN open : open[j][1] = "dec"})
           calls(n)    == <<Call("flush", n)>> \o IF n[2] \in graph.end_ts THEN <<Call("end_ts", n)>> ELSE <<>>
           inner(k)    == FlattenSeq([j \in DOMAIN decoders(k) |-> calls(decoders(k)[j])])
<1>1. ASSUME NEW n \in Streams(graph, "dec") PROVE Quiet(graph, t, calls(n))
  <2>1. PICK fl : fl = Call("flush", n)
    OBVIOUS
  <2>2. PICK en : en = Call("end_ts", n)
    OBVIOUS
  <2>3. IsCall(graph, t, fl) /\ fl.op = "flush" /\ IsCall(graph, t, en) /\ en.op = "end_ts"
    BY <2>1, <2>2 DEF Call, IsCall
  <2>4. Quiet(graph, t, <<fl>>) /\ Quiet(graph, t, <<en>>) /\ Quiet(graph, t, <<>>)
    BY <2>3, OneQuiet, NoQuiet
  <2>5. PICK r : r = IF n[2] \in graph.end_ts THEN <<en>> ELSE <<>>
    OBVIOUS
  <2>6. Quiet(graph, t, r)
    BY <2>4, <2>5
  <2>7. Quiet(graph, t, <<fl>> \o r)
    BY <2>4, <2>6, ConcatQuiet
  <2>. QED  BY <2>1, <2>2, <2>5, <2>7
<1>2. ASSUME NEW k \in 1 .. graph.demux[d] PROVE Quiet(graph, t, inner(k))
  <2>1. PICK src \in Sources(graph) : src = Node("demux", d, k)
    BY NodeForms
  <2>2. PICK open : open = Unfinished(src)
    OBVIOUS
  <2>3. IsSeq(open) /\ \A j \in DOMAIN open : open[j] \in Sinks(graph)
    BY <2>2, UnfinishedSeq DEF Dst
  <2>4. PICK keep : keep = {j \in DOMAIN open : open[j][1] = "dec"}
    OBVIOUS
  <2>5. PICK ds : ds = Kept(open, keep)
    OBVIOUS
  <2>6. IsSeq(ds) /\ Chosen(open, keep, ds) # {}
    BY <2>3, <2>5, KeptSeq
  <2>7. \A j \in DOMAIN ds : \E i \in DOMAIN open \cap keep : ds[j] = open[i]
    BY <2>6 DEF Chosen
  <2>8. ASSUME NEW j \in DOMAIN ds PROVE ds[j] \in Streams(graph, "dec")
    <3>1. PICK i \in DOMAIN open : ds[j] = open[i] /\ open[i][1] = "dec"
      BY <2>4, <2>7
    <3>2. open[i] \in Sinks(graph)
      BY <2>3
    <3>. QED  BY <3>1, <3>2, SinkForms
  <2>9. PICK n \in Nat : DOMAIN ds = 1 .. n
    BY <2>6, SeqDomain
  <2>10. PICK ss : ss = [j \in 1 .. n |-> calls(ds[j])]
    OBVIOUS
  <2>11. IsSeq(ss) /\ DOMAIN ss = 1 .. n
    BY <2>10, ListSeq
  <2>12. \A j \in 1 .. n : Quiet(graph, t, ss[j])
    BY <2>8, <2>9, <2>10, <1>1
  <2>13. Quiet(graph, t, FlattenSeq(ss))
    BY <2>11, <2>12, FlatQuiet
  <2>14. decoders(k) = ds
    BY <2>1, <2>2, <2>4, <2>5
  <2>15. inner(k) = FlattenSeq(ss)
    BY <2>9, <2>10, <2>14
  <2>. QED  BY <2>13, <2>15
<1>3. PICK m \in Nat : m = graph.demux[d]
  BY DEF WellFormed, Sized
<1>4. PICK ss : ss = [k \in 1 .. m |-> inner(k)]
  OBVIOUS
<1>5. IsSeq(ss) /\ DOMAIN ss = 1 .. m
  BY <1>4, ListSeq
<1>6. \A k \in 1 .. m : Quiet(graph, t, ss[k])
  BY <1>2, <1>3, <1>4
<1>7. Quiet(graph, t, FlattenSeq(ss))
  BY <1>5, <1>6, FlatQuiet
<1>8. FlushCalls(d) = FlattenSeq(ss)
  BY <1>3, <1>4 DEF FlushCalls
<1>. QED  BY <1>7, <1>8

\* The outputs filter_thread still works for: each once.
LEMMA LiveSeq ==
    ASSUME WellFormed(graph), NEW f \in DOMAIN graph.filters
    PROVE  /\ IsSeq(LiveOutputs(f))
           /\ \A k \in DOMAIN LiveOutputs(f) :
                 LiveOutputs(f)[k] \in Outputs(f) /\ ~ AllFinished(FOut(f, LiveOutputs(f)[k]))
           /\ \A k, j \in DOMAIN LiveOutputs(f) : k < j => LiveOutputs(f)[k] # LiveOutputs(f)[j]
<1>1. PICK n \in Nat : Outputs(f) = 1 .. n
  BY DEF WellFormed, Sized, Outputs, Lavfi
<1>2. PICK s : s = [o \in 1 .. n |-> o]
  OBVIOUS
<1>3. PICK keep : keep = {o \in Outputs(f) : ~ AllFinished(FOut(f, o))}
  OBVIOUS
<1>4. PICK l : l = Kept(s, keep)
  OBVIOUS
<1>5. LiveOutputs(f) = l
  BY <1>1, <1>2, <1>3, <1>4 DEF LiveOutputs
<1>6. IsSeq(s) /\ DOMAIN s = 1 .. n
  BY <1>2, ListSeq
<1>7. IsSeq(l) /\ Chosen(s, keep, l) # {}
  BY <1>4, <1>6, KeptSeq
<1>8. PICK pos \in Chosen(s, keep, l) : TRUE
  BY <1>7
<1>9. /\ \A k \in DOMAIN l : pos[k] \in 1 .. n /\ pos[k] \in keep /\ l[k] = pos[k]
      /\ \A k, j \in DOMAIN l : k < j => pos[k] < pos[j]
  BY <1>2, <1>6, <1>8 DEF Chosen
<1>10. \A k, j \in DOMAIN l : k < j => l[k] # l[j]
  BY <1>9
<1>. QED  BY <1>1, <1>3, <1>5, <1>7, <1>9, <1>10

\* filter_done closes the outputs and sends nothing.
LEMMA CloseCallsQuiet ==
    ASSUME WellFormed(graph), NEW f \in DOMAIN graph.filters, NEW t, t = <<"filter", f>>
    PROVE  Quiet(graph, t, CloseCalls(f))
<1>1. PICK l : l = LiveOutputs(f)
  OBVIOUS
<1>2. IsSeq(l) /\ \A k \in DOMAIN l : l[k] \in Outputs(f)
  BY <1>1, LiveSeq
<1>3. PICK n \in Nat : DOMAIN l = 1 .. n
  BY <1>2, SeqDomain
<1>4. PICK s : s = [k \in 1 .. n |-> Call("close_output", FOut(f, l[k]))]
  OBVIOUS
<1>5. IsSeq(s) /\ DOMAIN s = 1 .. n
  BY <1>4, ListSeq
<1>6. ASSUME NEW k \in 1 .. n PROVE IsCall(graph, t, s[k]) /\ s[k].op \notin {"send", "mux_done"}
  <2>1. PICK node : node = FOut(f, l[k])
    OBVIOUS
  <2>2. node \in Streams(graph, "fout")
    BY <1>2, <1>3, <2>1, NodeForms DEF FOut, Outputs, Lavfi
  <2>3. Owner(node) = t
    BY <2>1 DEF Owner, FOut, Node
  <2>4. s[k] = Call("close_output", node)
    BY <1>4, <2>1
  <2>. QED  BY <2>2, <2>3, <2>4 DEF IsCall, Call
<1>7. Quiet(graph, t, s)
  BY <1>5, <1>6 DEF Quiet
<1>8. CloseCalls(f) = s
  BY <1>1, <1>3, <1>4 DEF CloseCalls
<1>. QED  BY <1>7, <1>8

\* The destination of a filtergraph output that is not finished.
LEMMA LiveDst ==
    ASSUME WellFormed(graph), NEW src \in Streams(graph, "fout"), ~ AllFinished(src)
    PROVE  /\ src \in Sources(graph) /\ Dsts(graph, src)[1] \in Sinks(graph)
           /\ graph.src[Dsts(graph, src)[1]] = src /\ <<src, Dsts(graph, src)[1]>> \notin dst_finished
<1>1. src \in Sources(graph)
  BY DEF Sources
<1>2. PICK u : u = Unfinished(src)
  OBVIOUS
<1>3. IsSeq(u) /\ u # <<>>
  BY <1>1, <1>2, UnfinishedSeq DEF AllFinished
<1>4. 1 \in DOMAIN u
  BY <1>3, TailSeq
<1>5. /\ u[1] \in Sinks(graph) /\ graph.src[u[1]] = src /\ <<src, u[1]>> \notin dst_finished
      /\ \E j \in DOMAIN Dsts(graph, src) : u[1] = Dsts(graph, src)[j]
  BY <1>1, <1>2, <1>4, UnfinishedSeq DEF Dst
<1>6. Dsts(graph, src) \in Seq(Sinks(graph)) /\ Len(Dsts(graph, src)) <= 1
  BY <1>1 DEF WellFormed, Dsts
<1>7. \A j \in DOMAIN Dsts(graph, src) : j = 1
  BY <1>6
<1>8. u[1] = Dsts(graph, src)[1]
  BY <1>5, <1>7
<1>. QED  BY <1>1, <1>5, <1>8

\* A connected filtergraph output has one destination.
LEMMA OutputDst ==
    ASSUME WellFormed(graph), NEW src \in Streams(graph, "fout"), Dsts(graph, src) # <<>>
    PROVE  /\ src \in Sources(graph) /\ Dsts(graph, src)[1] \in Sinks(graph)
           /\ graph.src[Dsts(graph, src)[1]] = src
<1>1. src \in Sources(graph)
  BY DEF Sources
<1>2. Dsts(graph, src) \in Seq(Sinks(graph)) /\ \A k \in DOMAIN Dsts(graph, src) : graph.src[Dsts(graph, src)[k]] = src
  BY <1>1 DEF WellFormed, Dsts
<1>3. 1 \in DOMAIN Dsts(graph, src)
  BY <1>2
<1>. QED  BY <1>1, <1>2, <1>3

FramesOf(f, o, sink) ==
    IF o \in Lavfi(f).dry THEN <<>>
    ELSE [n \in DOMAIN sink |-> Send(FOut(f, o), Dsts(graph, FOut(f, o))[1], sink[n])]

ReadCalls(f, o, sink, ended) ==
    FramesOf(f, o, sink) \o IF ended THEN <<Call("close_output", FOut(f, o))>> ELSE <<>>

\* read_frames sends the frames of an output and finishes it only after the last.
LEMMA FramesTodo ==
    ASSUME WellFormed(graph), NEW f \in DOMAIN graph.filters, NEW t, t = <<"filter", f>>,
           NEW o \in Outputs(f), ~ AllFinished(FOut(f, o)), NEW sink, IsMedia(sink), NEW ended, NEW c,
           c = ReadCalls(f, o, sink, ended)
    PROVE  /\ IsTodo(graph, t, c) /\ Fresh(dst_finished, c)
           /\ \A i \in DOMAIN c : \/ c[i].op = "send" /\ c[i].src = FOut(f, o)
                                  \/ c[i].op = "close_output" /\ c[i].node = FOut(f, o)
<1>1. PICK src : src = FOut(f, o)
  OBVIOUS
<1>2. src \in Streams(graph, "fout") /\ Owner(src) = t
  BY <1>1, NodeForms DEF Owner, FOut, Node, Outputs, Lavfi
<1>3. PICK dst : dst = Dsts(graph, src)[1]
  OBVIOUS
<1>4. src \in Sources(graph) /\ dst \in Sinks(graph) /\ graph.src[dst] = src /\ <<src, dst>> \notin dst_finished
  BY <1>1, <1>2, <1>3, LiveDst
<1>5. PICK s : s = FramesOf(f, o, sink)
  OBVIOUS
<1>6. /\ IsTodo(graph, t, s) /\ Fresh(dst_finished, s)
      /\ \A i \in DOMAIN s : s[i].op = "send" /\ s[i].src = src
  <2>1. CASE o \in Lavfi(f).dry
    <3>1. s = <<>>
      BY <1>5, <2>1 DEF FramesOf
    <3>2. IsTodo(graph, t, <<>>) /\ Fresh(dst_finished, <<>>)
      BY NoTodo
    <3>. QED  BY <3>1, <3>2, NoSeq
  <2>2. CASE o \notin Lavfi(f).dry
    <3>1. PICK n \in Nat : DOMAIN sink = 1 .. n
      BY SeqDomain DEF IsMedia
    <3>2. s = [i \in 1 .. n |-> Send(src, dst, sink[i])]
      BY <1>1, <1>3, <1>5, <2>2, <3>1 DEF FramesOf
    <3>3. IsSeq(s) /\ DOMAIN s = 1 .. n
      BY <3>2, ListSeq
    <3>4. ASSUME NEW i \in 1 .. n
          PROVE  /\ s[i] = Send(src, dst, sink[i]) /\ s[i].op = "send" /\ s[i].src = src
                 /\ s[i].dst = dst /\ s[i].item = sink[i] /\ sink[i].k # "eof"
      BY <3>1, <3>2 DEF Send, IsMedia
    <3>5. ASSUME NEW i \in 1 .. n PROVE IsCall(graph, t, s[i])
      <4>1. Link(graph, t, s[i])
        BY <1>2, <1>4, <3>4 DEF Link
      <4>. QED  BY <3>4, <4>1 DEF IsCall
    <3>6. IsTodo(graph, t, s)
      BY <3>3, <3>4, <3>5 DEF IsTodo, Follows
    <3>7. Fresh(dst_finished, s)
      BY <1>4, <3>3, <3>4 DEF Fresh
    <3>. QED  BY <3>3, <3>4, <3>6, <3>7
  <2>. QED  BY <2>1, <2>2
<1>7. PICK e : e = Call("close_output", src)
  OBVIOUS
<1>8. IsCall(graph, t, e) /\ e.op = "close_output" /\ e.node = src
  BY <1>2, <1>7 DEF IsCall, Call
<1>9. PICK r : r = IF ended THEN <<e>> ELSE <<>>
  OBVIOUS
<1>10. IsTodo(graph, t, r) /\ Fresh(dst_finished, r) /\ \A i \in DOMAIN r : r[i] = e
  <2>1. CASE ended
    <3>1. r = <<e>>
      BY <1>9, <2>1
    <3>2. IsTodo(graph, t, r) /\ DOMAIN r = {1} /\ r[1] = e
      BY <1>8, <3>1, OneTodo
    <3>. QED  BY <1>8, <3>2 DEF Fresh
  <2>2. CASE ~ ended
    <3>1. r = <<>>
      BY <1>9, <2>2
    <3>. QED  BY <3>1, NoTodo, NoSeq
  <2>. QED  BY <2>1, <2>2
<1>11. \A i \in DOMAIN s : \A j \in DOMAIN r : Follows(s[i], r[j])
  BY <1>6, <1>8, <1>10 DEF Follows
<1>12. c = s \o r
  BY <1>1, <1>5, <1>7, <1>9 DEF ReadCalls
<1>13. /\ IsTodo(graph, t, c) /\ Fresh(dst_finished, c)
       /\ \A i \in DOMAIN c : (\E j \in DOMAIN s : c[i] = s[j]) \/ (\E j \in DOMAIN r : c[i] = r[j])
  BY <1>6, <1>10, <1>11, <1>12, ConcatTodo
<1>14. ASSUME NEW i \in DOMAIN c
       PROVE  \/ c[i].op = "send" /\ c[i].src = FOut(f, o)
              \/ c[i].op = "close_output" /\ c[i].node = FOut(f, o)
  BY <1>1, <1>6, <1>8, <1>10, <1>13
<1>. QED  BY <1>13, <1>14

\* read_frames: an output is not written to after it was closed.
LEMMA ReadTodo ==
    ASSUME WellFormed(graph), NEW f \in DOMAIN graph.filters, NEW t, t = <<"filter", f>>,
           NEW sink, IsMedia(sink), NEW ended, NEW live, live = LiveOutputs(f), NEW s,
           s = FlattenSeq([k \in DOMAIN live |-> ReadCalls(f, live[k], sink, ended)])
    PROVE  IsTodo(graph, t, s) /\ Fresh(dst_finished, s) /\ \A i \in DOMAIN s : s[i].op # "mux_done"
<1>1. /\ IsSeq(live)
      /\ \A k \in DOMAIN live : live[k] \in Outputs(f) /\ ~ AllFinished(FOut(f, live[k]))
      /\ \A k, j \in DOMAIN live : k < j => live[k] # live[j]
  BY LiveSeq
<1>2. PICK n \in Nat : DOMAIN live = 1 .. n
  BY <1>1, SeqDomain
<1>3. PICK ss : ss = [k \in 1 .. n |-> ReadCalls(f, live[k], sink, ended)]
  OBVIOUS
<1>4. IsSeq(ss) /\ DOMAIN ss = 1 .. n
  BY <1>3, ListSeq
<1>5. ASSUME NEW k \in 1 .. n
      PROVE  /\ IsTodo(graph, t, ss[k]) /\ Fresh(dst_finished, ss[k])
             /\ \A i \in DOMAIN ss[k] : \/ ss[k][i].op = "send" /\ ss[k][i].src = FOut(f, live[k])
                                        \/ ss[k][i].op = "close_output" /\ ss[k][i].node = FOut(f, live[k])
  <2>1. PICK o \in Outputs(f) : o = live[k] /\ ~ AllFinished(FOut(f, o))
    BY <1>1, <1>2
  <2>2. PICK c : c = ReadCalls(f, o, sink, ended)
    OBVIOUS
  <2>3. ss[k] = c
    BY <1>3, <2>1, <2>2
  <2>4. /\ IsTodo(graph, t, c) /\ Fresh(dst_finished, c)
        /\ \A i \in DOMAIN c : \/ c[i].op = "send" /\ c[i].src = FOut(f, o)
                               \/ c[i].op = "close_output" /\ c[i].node = FOut(f, o)
    BY <2>1, <2>2, FramesTodo
  <2>. QED  BY <2>1, <2>3, <2>4
<1>6. ASSUME NEW k \in 1 .. n, NEW j \in 1 .. n, k < j, NEW a \in DOMAIN ss[k], NEW b \in DOMAIN ss[j]
      PROVE  Follows(ss[k][a], ss[j][b])
  <2>1. live[k] # live[j]
    BY <1>1, <1>2, <1>6
  <2>2. FOut(f, live[k]) # FOut(f, live[j])
    BY <2>1 DEF FOut, Node
  <2>3. PICK c : c = ss[k][a]
    OBVIOUS
  <2>4. PICK e : e = ss[j][b]
    OBVIOUS
  <2>5. c.op = "send" \/ (c.op = "close_output" /\ c.node = FOut(f, live[k]))
    <3>1. a \in DOMAIN ss[k]
      OBVIOUS
    <3>. QED  BY <3>1, <1>5, <2>3
  <2>6. e.op = "close_output" \/ (e.op = "send" /\ e.src = FOut(f, live[j]))
    <3>1. b \in DOMAIN ss[j]
      OBVIOUS
    <3>. QED  BY <3>1, <1>5, <2>4
  <2>. QED  BY <2>2, <2>3, <2>4, <2>5, <2>6 DEF Follows
<1>7. PICK r : r = FlattenSeq(ss)
  OBVIOUS
<1>8. IsTodo(graph, t, r) /\ Fresh(dst_finished, r) /\ From(ss, r)
  <2>1. \A i \in DOMAIN ss : IsTodo(graph, t, ss[i]) /\ Fresh(dst_finished, ss[i])
    BY <1>4, <1>5
  <2>2. Chained(ss)
    BY <1>4, <1>6 DEF Chained
  <2>. QED  BY <1>4, <1>7, <2>1, <2>2, FlatTodo
<1>9. ASSUME NEW x \in DOMAIN r PROVE r[x].op # "mux_done"
  BY <1>4, <1>5, <1>8 DEF From
<1>10. s = r
  BY <1>2, <1>3, <1>7
<1>. QED  BY <1>8, <1>9, <1>10

-----------------------------------------------------------------------------
(* A step of one task                                                      *)

\* t goes on at pc with s to do; what it finishes is what it sends.
LEMMA TaskPart ==
    ASSUME TaskInv, NEW t \in Tasks(graph), graph' = graph,
           NEW pc, NEW s, task' = [task EXCEPT ![t] = [pc |-> pc, todo |-> s]],
           IsTodo(graph, t, s), Fresh(dst_finished', s),
           \A p \in dst_finished' : p \in dst_finished \/ Owner(p[1]) = t,
           t[1] = "mux" => \A i \in DOMAIN s : s[i].op = "mux_done" => pc = "gone"
    PROVE  TaskInv' /\ task'[t] = [pc |-> pc, todo |-> s] /\ \A u \in Tasks(graph) : u # t => task'[u] = task[u]
<1>1. DOMAIN task = Tasks(graph) /\ DOMAIN task' = Tasks(graph)
  BY DEF TaskInv
<1>2. PICK x : x = [pc |-> pc, todo |-> s]
  OBVIOUS
<1>3. x.pc = pc /\ x.todo = s /\ x = [pc |-> x.pc, todo |-> x.todo]
  BY <1>2
<1>4. task'[t] = x /\ \A u \in Tasks(graph) : u # t => task'[u] = task[u]
  BY <1>1, <1>2
<1>5. ASSUME NEW i \in DOMAIN s, s[i].op = "mux_done" PROVE pc = "gone"
  <2>1. IsCall(graph, t, s[i])
    BY DEF IsTodo
  <2>2. t[1] = "mux"
    BY <1>5, <2>1 DEF IsCall
  <2>. QED  BY <1>5, <2>2
<1>6. ASSUME NEW u \in Tasks(graph), u # t PROVE Fresh(dst_finished', task[u].todo)
  <2>1. PICK r : r = task[u].todo
    OBVIOUS
  <2>2. IsTodo(graph, u, r) /\ Fresh(dst_finished, r)
    BY <2>1 DEF TaskInv
  <2>3. ASSUME NEW i \in DOMAIN r, r[i].op = "send" PROVE <<r[i].src, r[i].dst>> \notin dst_finished'
    <3>1. <<r[i].src, r[i].dst>> \notin dst_finished
      BY <2>2, <2>3 DEF Fresh
    <3>2. IsCall(graph, u, r[i])
      BY <2>2 DEF IsTodo
    <3>3. Owner(r[i].src) = u
      BY <2>3, <3>2 DEF IsCall, Link
    <3>4. <<r[i].src, r[i].dst>>[1] = r[i].src
      OBVIOUS
    <3>. QED  BY <1>6, <3>1, <3>3, <3>4
  <2>. QED  BY <2>1, <2>3 DEF Fresh
<1>7. ASSUME NEW u \in Tasks(graph)
      PROVE  /\ task'[u] = [pc |-> task'[u].pc, todo |-> task'[u].todo]
             /\ IsTodo(graph, u, task'[u].todo)
             /\ Fresh(dst_finished', task'[u].todo)
             /\ \A i \in DOMAIN task'[u].todo : task'[u].todo[i].op = "mux_done" => task'[u].pc = "gone"
  <2>1. CASE u = t
    BY <1>3, <1>4, <1>5, <2>1
  <2>2. CASE u # t
    BY <1>4, <1>6, <2>2 DEF TaskInv
  <2>. QED  BY <2>1, <2>2
<1>8. TaskInv'
  BY <1>1, <1>7 DEF TaskInv
<1>. QED  BY <1>2, <1>4, <1>8

\* The same with the number of muxers that have reported.
LEMMA TaskStep ==
    ASSUME TaskInv, CountInv, NEW t \in Tasks(graph), graph' = graph, mux'.done = mux.done,
           NEW pc, NEW s, task' = [task EXCEPT ![t] = [pc |-> pc, todo |-> s]],
           IsTodo(graph, t, s), Fresh(dst_finished', s),
           \A p \in dst_finished' : p \in dst_finished \/ Owner(p[1]) = t,
           t[1] = "mux" => /\ \A i \in DOMAIN s : s[i].op = "mux_done" => pc = "gone"
                           /\ Counted([pc |-> pc, todo |-> s]) <=> Counted(task[t])
    PROVE  TaskInv' /\ CountInv'
<1>1. TaskInv' /\ task'[t] = [pc |-> pc, todo |-> s] /\ \A u \in Tasks(graph) : u # t => task'[u] = task[u]
  BY TaskPart
<1>2. ASSUME NEW m \in DOMAIN graph.mux PROVE Counted(task'[<<"mux", m>>]) <=> Counted(task[<<"mux", m>>])
  <2>1. PICK u \in Tasks(graph) : u = <<"mux", m>>
    BY TaskCases
  <2>2. CASE u = t
    <3>1. t[1] = "mux"
      BY <2>1, <2>2
    <3>. QED  BY <1>1, <2>1, <2>2, <3>1
  <2>3. CASE u # t
    BY <1>1, <2>1, <2>3
  <2>. QED  BY <2>2, <2>3
<1>3. {m \in DOMAIN graph.mux : Counted(task'[<<"mux", m>>])} = {m \in DOMAIN graph.mux : Counted(task[<<"mux", m>>])}
  BY <1>2
<1>4. CountInv'
  BY <1>3 DEF CountInv
<1>. QED  BY <1>1, <1>4

\* The todo of a task may be changed by itself.
LEMMA TodoStep ==
    ASSUME TaskInv, NEW t \in Tasks(graph), NEW s
    PROVE  [task EXCEPT ![t].todo = s] = [task EXCEPT ![t] = [pc |-> task[t].pc, todo |-> s]]
<1>1. task[t] = [pc |-> task[t].pc, todo |-> task[t].todo]
  BY DEF TaskInv
<1>2. [task[t] EXCEPT !.todo = s] = [pc |-> task[t].pc, todo |-> s]
  BY <1>1
<1>. QED  BY <1>2

\* The first call was carried out.
LEMMA DoneStep ==
    ASSUME TaskInv, CountInv, NEW t \in Tasks(graph), graph' = graph, mux'.done = mux.done,
           dst_finished' = dst_finished, task[t].todo # <<>>, Head(task[t].todo).op # "mux_done", Done(t)
    PROVE  TaskInv' /\ CountInv'
<1>1. PICK td : td = task[t].todo
  OBVIOUS
<1>2. PICK pc : pc = task[t].pc
  OBVIOUS
<1>3. PICK s : s = Tail(td)
  OBVIOUS
<1>4. task' = [task EXCEPT ![t].todo = s]
  BY <1>1, <1>3 DEF Done
<1>5. task' = [task EXCEPT ![t] = [pc |-> pc, todo |-> s]]
  BY <1>2, <1>4, TodoStep
<1>6. /\ IsTodo(graph, t, td) /\ Fresh(dst_finished, td) /\ td # <<>>
      /\ \A i \in DOMAIN td : td[i].op = "mux_done" => pc = "gone"
  BY <1>1, <1>2 DEF TaskInv
<1>7. /\ IsTodo(graph, t, s) /\ Fresh(dst_finished, s)
      /\ \A i \in DOMAIN s : i + 1 \in DOMAIN td /\ s[i] = td[i + 1]
      /\ 1 \in DOMAIN td /\ Head(td) = td[1]
  <2>1. IsTodo(graph, t, Tail(td)) /\ Fresh(dst_finished, Tail(td))
    BY <1>6, TailTodo
  <2>2. IsSeq(td)
    BY <1>6 DEF IsTodo
  <2>3. /\ \A i \in DOMAIN Tail(td) : i + 1 \in DOMAIN td /\ Tail(td)[i] = td[i + 1]
        /\ 1 \in DOMAIN td /\ Head(td) = td[1]
    BY <1>6, <2>2, TailSeq
  <2>. QED  BY <1>3, <2>1, <2>3
<1>8. \A i \in DOMAIN s : s[i].op = "mux_done" => pc = "gone"
  BY <1>6, <1>7
<1>9. \A i \in DOMAIN td : i = 1 \/ (i - 1 \in DOMAIN s /\ td[i] = s[i - 1])
  <2>1. IsSeq(td)
    BY <1>6 DEF IsTodo
  <2>2. PICK l \in Nat : l = Len(td) /\ DOMAIN td = 1 .. l
    BY <2>1, SeqDomain
  <2>3. DOMAIN s = 1 .. l - 1
    BY <1>3, <1>6, <2>1, <2>2, TailSeq
  <2>4. ASSUME NEW i \in 1 .. l, i # 1 PROVE i - 1 \in DOMAIN s /\ td[i] = s[i - 1]
    <3>1. i - 1 \in 1 .. l - 1 /\ (i - 1) + 1 = i
      BY <2>4
    <3>. QED  BY <1>7, <2>3, <3>1
  <2>. QED  BY <2>2, <2>4
<1>10. td[1].op # "mux_done"
  BY <1>1, <1>7
<1>11. (\A i \in DOMAIN s : s[i].op # "mux_done") <=> (\A i \in DOMAIN td : td[i].op # "mux_done")
  BY <1>7, <1>9, <1>10
<1>12. Counted([pc |-> pc, todo |-> s]) <=> Counted(task[t])
  BY <1>1, <1>2, <1>11 DEF Counted
<1>13. \A p \in dst_finished' : p \in dst_finished \/ Owner(p[1]) = t
  OBVIOUS
<1>14. Fresh(dst_finished', s)
  BY <1>7
<1>. QED  BY <1>5, <1>7, <1>8, <1>12, <1>13, <1>14, TaskStep

\* The first call is replaced by others.
LEMMA ReplaceStep ==
    ASSUME TaskInv, CountInv, NEW t \in Tasks(graph), t[1] # "mux", graph' = graph, mux'.done = mux.done,
           NEW td, td = task[t].todo, td # <<>>, NEW ops, Replace(t, ops),
           IsTodo(graph, t, ops), Fresh(dst_finished', ops), Fresh(dst_finished', Tail(td)),
           \A i \in DOMAIN ops : \A j \in DOMAIN Tail(td) : Follows(ops[i], Tail(td)[j]),
           \A p \in dst_finished' : p \in dst_finished \/ Owner(p[1]) = t
    PROVE  TaskInv' /\ CountInv'
<1>1. PICK s : s = ops \o Tail(td)
  OBVIOUS
<1>2. PICK pc : pc = task[t].pc
  OBVIOUS
<1>3. task' = [task EXCEPT ![t].todo = s]
  BY <1>1 DEF Replace
<1>4. task' = [task EXCEPT ![t] = [pc |-> pc, todo |-> s]]
  BY <1>2, <1>3, TodoStep
<1>5. IsTodo(graph, t, td) /\ Fresh(dst_finished, td)
  BY DEF TaskInv
<1>6. PICK r : r = Tail(td)
  OBVIOUS
<1>7. IsTodo(graph, t, r)
  BY <1>5, <1>6, TailTodo
<1>8. Fresh(dst_finished', r) /\ \A i \in DOMAIN ops : \A j \in DOMAIN r : Follows(ops[i], r[j])
  BY <1>6
<1>9. PICK fin : fin = dst_finished'
  OBVIOUS
<1>10. IsTodo(graph, t, ops \o r) /\ Fresh(fin, ops \o r)
  BY <1>7, <1>8, <1>9, ConcatTodo
<1>11. IsTodo(graph, t, s) /\ Fresh(dst_finished', s)
  BY <1>1, <1>6, <1>9, <1>10
<1>. QED  BY <1>4, <1>11, TaskStep

\* The end of a destination: its sender says so next, and sends no more to it.
LEMMA TurnStep ==
    ASSUME TaskInv, CountInv, NEW t \in Tasks(graph), graph' = graph, mux'.done = mux.done,
           dst_finished' = dst_finished, task[t].todo # <<>>, NEW c, c = Head(task[t].todo),
           Link(graph, t, c), TurnAway(t, c.src, c.dst)
    PROVE  TaskInv' /\ CountInv'
<1>1. PICK td : td = task[t].todo
  OBVIOUS
<1>2. PICK r : r = Tail(td)
  OBVIOUS
<1>3. IsTodo(graph, t, td) /\ Fresh(dst_finished, td)
  BY <1>1 DEF TaskInv
<1>4. IsTodo(graph, t, r) /\ Fresh(dst_finished, r)
  BY <1>1, <1>2, <1>3, TailTodo
<1>5. PICK keep : keep = {k \in DOMAIN r : r[k].op # "send" \/ r[k].dst # c.dst}
  OBVIOUS
<1>6. PICK k : k = Kept(r, keep)
  OBVIOUS
<1>7. /\ IsTodo(graph, t, k) /\ Fresh(dst_finished, k)
      /\ \A i \in DOMAIN k : \E j \in DOMAIN r \cap keep : k[i] = r[j]
  BY <1>4, <1>6, KeptTodo
<1>8. PICK e : e = Close(c.src, c.dst)
  OBVIOUS
<1>9. e = [op |-> "close", src |-> c.src, dst |-> c.dst] /\ e.op = "close" /\ e.src = c.src /\ e.dst = c.dst
  BY <1>8 DEF Close
<1>10. IsCall(graph, t, e)
  BY <1>9 DEF IsCall, Link
<1>11. PICK o : o = <<e>>
  OBVIOUS
<1>12. IsTodo(graph, t, o) /\ DOMAIN o = {1} /\ o[1] = e
  BY <1>10, <1>11, OneTodo
<1>13. Fresh(dst_finished, o)
  BY <1>9, <1>12 DEF Fresh
<1>14. ASSUME NEW i \in DOMAIN o, NEW j \in DOMAIN k PROVE Follows(o[i], k[j])
  <2>1. k[j].op # "send" \/ k[j].dst # c.dst
    BY <1>5, <1>7
  <2>. QED  BY <1>9, <1>12, <2>1 DEF Follows
<1>15. PICK s : s = o \o k
  OBVIOUS
<1>16. IsTodo(graph, t, s) /\ Fresh(dst_finished, s)
  BY <1>7, <1>12, <1>13, <1>14, <1>15, ConcatTodo
<1>17. PICK pc : pc = task[t].pc
  OBVIOUS
<1>18. task' = [task EXCEPT ![t].todo = s]
  BY <1>1, <1>2, <1>5, <1>6, <1>8, <1>11, <1>15 DEF TurnAway
<1>19. task' = [task EXCEPT ![t] = [pc |-> pc, todo |-> s]]
  BY <1>17, <1>18, TodoStep
<1>20. t[1] # "mux"
  BY OwnerIsTask DEF Link
<1>21. \A p \in dst_finished' : p \in dst_finished \/ Owner(p[1]) = t
  OBVIOUS
<1>22. Fresh(dst_finished', s)
  BY <1>16
<1>. QED  BY <1>16, <1>19, <1>20, <1>21, <1>22, TaskStep

\* A task goes on elsewhere, with a list of calls.
LEMMA GotoStep ==
    ASSUME TaskInv, CountInv, NEW t \in Tasks(graph), t[1] # "mux", graph' = graph, mux'.done = mux.done,
           dst_finished' = dst_finished, NEW pc, NEW s, Goto(t, pc, s),
           IsTodo(graph, t, s), Fresh(dst_finished, s)
    PROVE  TaskInv' /\ CountInv'
<1>1. task' = [task EXCEPT ![t] = [pc |-> pc, todo |-> s]]
  BY DEF Goto
<1>2. Fresh(dst_finished', s)
  OBVIOUS
<1>3. \A p \in dst_finished' : p \in dst_finished \/ Owner(p[1]) = t
  OBVIOUS
<1>. QED  BY <1>1, <1>2, <1>3, TaskStep

\* The tasks are left alone.
LEMMA TaskStays ==
    ASSUME TaskInv, CountInv, UNCHANGED <<graph, task, dst_finished>>, mux'.done = mux.done
    PROVE  TaskInv' /\ CountInv'
<1>1. TaskInv'
  BY DEF TaskInv
<1>2. CountInv'
  BY DEF CountInv
<1>. QED  BY <1>1, <1>2

-----------------------------------------------------------------------------
(* What a step leaves alone                                                *)

\* No demuxer comes to where it sends.
NoNewSend == \A d \in DOMAIN graph.demux : task'[<<"demux", d>>].pc = "send" => task[<<"demux", d>>].pc = "send"

\* A thread other than that of a demuxer does not come to "send".
LEMMA PcStep ==
    ASSUME TaskInv, NEW t \in Tasks(graph), graph' = graph,
           \/ Done(t)
           \/ \E ops : Replace(t, ops)
           \/ \E src, dst : TurnAway(t, src, dst)
           \/ \E pc, s : Goto(t, pc, s) /\ (t[1] # "demux" \/ pc # "send")
           \/ task' = task
    PROVE  NoNewSend
<1>1. DOMAIN task = Tasks(graph)
  BY DEF TaskInv
<1>2. ASSUME NEW s, task' = [task EXCEPT ![t].todo = s] PROVE NoNewSend
  <2>1. PICK pc : pc = task[t].pc
    OBVIOUS
  <2>2. task' = [task EXCEPT ![t] = [pc |-> pc, todo |-> s]]
    BY <1>2, <2>1, TodoStep
  <2>3. ASSUME NEW u \in Tasks(graph) PROVE task'[u].pc = task[u].pc
    BY <1>1, <2>1, <2>2
  <2>. QED  BY <2>3, TaskCases DEF NoNewSend
<1>3. ASSUME NEW pc, NEW s, Goto(t, pc, s), t[1] # "demux" \/ pc # "send" PROVE NoNewSend
  <2>1. task' = [task EXCEPT ![t] = [pc |-> pc, todo |-> s]]
    BY <1>3 DEF Goto
  <2>2. ASSUME NEW d \in DOMAIN graph.demux, task'[<<"demux", d>>].pc = "send"
        PROVE  task[<<"demux", d>>].pc = "send"
    <3>1. PICK u \in Tasks(graph) : u = <<"demux", d>>
      BY TaskCases
    <3>2. CASE u = t
      BY <1>1, <1>3, <2>1, <2>2, <3>1, <3>2
    <3>3. CASE u # t
      BY <1>1, <2>1, <2>2, <3>1, <3>3
    <3>. QED  BY <3>2, <3>3
  <2>. QED  BY <2>2 DEF NoNewSend
<1>4. CASE Done(t)
  BY <1>2, <1>4 DEF Done
<1>5. CASE \E ops : Replace(t, ops)
  BY <1>2, <1>5 DEF Replace
<1>6. CASE \E src, dst : TurnAway(t, src, dst)
  BY <1>2, <1>6 DEF TurnAway
<1>7. CASE \E pc, s : Goto(t, pc, s) /\ (t[1] # "demux" \/ pc # "send")
  BY <1>3, <1>7
<1>8. CASE task' = task
  BY <1>8 DEF NoNewSend
<1>. QED  BY <1>4, <1>5, <1>6, <1>7, <1>8

\* Each part of the invariant is shown, or what it speaks of has not changed.
LEMMA Rest ==
    ASSUME PipeInv, graph' = graph, TaskInv', CountInv',
           QueueInv' \/ q' = q,
           RateInv' \/ UNCHANGED <<sched, choked, frozen, asleep, opened>>,
           ReaderInv' \/ (reader' = reader /\ NoNewSend),
           FltInv' \/ flt' = flt,
           MainInv' \/ main' = main,
           EndInv' \/ UNCHANGED <<closed, dst_finished>>,
           MuxInv' \/ UNCHANGED <<mux, dst_finished>>,
           SyncInv' \/ UNCHANGED <<sync, closed>>
    PROVE  PipeInv'
<1>1. QueueInv'
  BY DEF PipeInv, QueueInv
<1>2. RateInv'
  BY DEF PipeInv, RateInv
<1>3. ReaderInv'
  BY DEF PipeInv, ReaderInv, NoNewSend
<1>4. FltInv'
  BY DEF PipeInv, FltInv
<1>5. MainInv'
  BY DEF PipeInv, MainInv
<1>6. EndInv'
  BY DEF PipeInv, EndInv
<1>7. MuxInv'
  BY DEF PipeInv, MuxInv
<1>8. SyncInv'
  <2>1. ASSUME UNCHANGED <<sync, closed>> PROVE \A j \in graph.synced : SyncReady(sync, j)' <=> SyncReady(sync, j)
    BY <2>1 DEF SyncReady
  <2>. QED  BY <2>1 DEF PipeInv, SyncInv
<1>. QED  BY <1>1, <1>2, <1>3, <1>4, <1>5, <1>6, <1>7, <1>8 DEF PipeInv

\* The queues a demuxer may freeze are those of decoders.
LEMMA FrozenDecoders ==
    ASSUME WellFormed(graph), MainInv, main.pc # "refused", NEW d \in DOMAIN graph.demux
    PROVE  FrozenBy(graph, d) \subseteq 1 .. graph.nb_dec
<1>1. ASSUME NEW k \in 1 .. graph.demux[d], FirstDsts(graph, d)[k][1] = "dec"
      PROVE  FirstDsts(graph, d)[k][2] \in 1 .. graph.nb_dec
  <2>1. PICK src \in Sources(graph) : src = Node("demux", d, k)
    BY NodeForms
  <2>2. Dsts(graph, src) \in Seq(Sinks(graph)) /\ Dsts(graph, src) # <<>>
    BY DEF WellFormed, MainInv, Dsts
  <2>3. PICK n \in Sinks(graph) : n = Dsts(graph, src)[1]
    BY <2>2
  <2>4. FirstDsts(graph, d)[k] = n
    BY <2>1, <2>3 DEF FirstDsts
  <2>. QED  BY <1>1, <2>4, SinkForms
<1>. QED  BY <1>1 DEF FrozenBy

\* schedule_update_locked keeps the record of rate control well formed.
LEMMA UpdateKeeps ==
    ASSUME WellFormed(graph), RateInv, MainInv, main.pc # "refused", graph' = graph,
           NEW s, DOMAIN s = DOMAIN sched, IsSched(graph, s), NEW fr, fr \subseteq frozen, ScheduleUpdate(s, fr),
           UNCHANGED <<asleep, opened>>
    PROVE  RateInv'
<1>1. sched' = s
  BY DEF ScheduleUpdate
<1>2. choked' \subseteq Waiters(graph)
  BY DEF ScheduleUpdate, RateInv
<1>3. frozen' \subseteq 1 .. graph.nb_dec
  <2>1. CASE terminate
    BY <2>1 DEF ScheduleUpdate, RateInv
  <2>2. CASE ~ terminate
    <3>1. ASSUME NEW i \in frozen' PROVE i \in frozen \/ \E d \in DOMAIN graph.demux : i \in FrozenBy(graph, d)
      <4>1. PICK old, new : old = choked /\ new = choked'
        OBVIOUS
      <4> DEFINE Now(S) == UNION {FrozenBy(graph, d) : d \in {x \in DOMAIN graph.demux : <<"demux", x>> \in S}}
      <4>2. frozen' = (fr \ Now(old \ new)) \cup Now(new \ old)
        BY <2>2, <4>1 DEF ScheduleUpdate, Froze
      <4>3. ASSUME i \in Now(new \ old) PROVE \E d \in DOMAIN graph.demux : i \in FrozenBy(graph, d)
        BY <4>3
      <4>. QED  BY <4>2, <4>3
    <3>. QED  BY <3>1, FrozenDecoders DEF RateInv
  <2>. QED  BY <2>1, <2>2
<1>. QED  BY <1>1, <1>2, <1>3 DEF RateInv, IsSched

\* More streams are finished.
LEMMA EndStep ==
    ASSUME EndInv, graph' = graph, NEW s, NEW r, closed' = [send |-> s, recv |-> r],
           closed.recv \subseteq r, dst_finished \subseteq dst_finished',
           \A dst \in Sinks(graph) : dst \in s /\ ~ SyncedIn(graph, dst) =>
              dst \in closed.send \/ dst \in r \/ <<SrcOf(graph, dst), dst>> \in dst_finished'
    PROVE  EndInv'
<1>1. DOMAIN closed' = {"send", "recv"} /\ closed'.send = s /\ closed'.recv = r
  OBVIOUS
<1>2. ASSUME NEW dst \in Sinks(graph), dst \in s, ~ SyncedIn(graph, dst)
      PROVE  dst \in r \/ <<SrcOf(graph, dst), dst>> \in dst_finished'
  BY <1>2 DEF EndInv
<1>. QED  BY <1>1, <1>2 DEF EndInv

\* The two finished flags of a stream change one at a time.
LEMMA ClosedForm ==
    ASSUME EndInv
    PROVE  /\ \A x : [closed EXCEPT !.send = x] = [send |-> x, recv |-> closed.recv]
           /\ \A x : [closed EXCEPT !.recv = x] = [send |-> closed.send, recv |-> x]
BY DEF EndInv

\* The encoders behind the sync queue are not finished by others.
LEMMA SyncStep ==
    ASSUME SyncInv, UNCHANGED <<graph, sync>>, closed.recv \subseteq closed'.recv,
           \A j \in graph.synced : Node("enc", j, 1) \in closed'.send =>
              Node("enc", j, 1) \in closed.send \/ Node("enc", j, 1) \in closed'.recv
    PROVE  SyncInv'
<1>1. \A j \in graph.synced : SyncReady(sync, j)' <=> SyncReady(sync, j)
  BY DEF SyncReady
<1>. QED  BY <1>1 DEF SyncInv

\* What is finished for sending only grows, so what muxers rely on stays.
LEMMA MuxStep ==
    ASSUME MuxInv, graph' = graph, mux' = mux, dst_finished \subseteq dst_finished'
    PROVE  MuxInv'
BY DEF MuxInv

-----------------------------------------------------------------------------
(* Queues                                                                  *)

\* An empty queue.
LEMMA NoQueue ==
    ASSUME NEW g, NEW t
    PROVE  IsQueue(g, t, <<>>)
BY NoSeq DEF IsQueue

\* Another queue for one task.
LEMMA QueueStep ==
    ASSUME QueueInv, graph' = graph, NEW t \in Tasks(graph), NEW s, IsQueue(graph, t, s), q' = [q EXCEPT ![t] = s]
    PROVE  QueueInv'
BY DEF QueueInv

\* An item at the end of a queue.
LEMMA PutStep ==
    ASSUME QueueInv, graph' = graph, NEW t \in Tasks(graph), NEW n \in Sinks(graph), Queue(n) = t,
           NEW item, n[1] = "enc" => item.k # "eof", q' = [q EXCEPT ![t] = Append(@, <<n, item>>)]
    PROVE  QueueInv'
<1>1. PICK s : s = q[t]
  OBVIOUS
<1>2. IsQueue(graph, t, s)
  BY <1>1 DEF QueueInv
<1>3. PICK e : e = <<n, item>>
  OBVIOUS
<1>4. e[1] = n /\ e[2] = item
  BY <1>3
<1>5. PICK r : r = Append(s, e)
  OBVIOUS
<1>6. PICK l \in Nat : l = Len(s) /\ DOMAIN s = 1 .. l
  BY <1>2, SeqDomain DEF IsQueue
<1>7. /\ IsSeq(r) /\ DOMAIN r = 1 .. l + 1
      /\ \A i \in 1 .. l : r[i] = s[i]
      /\ r[l + 1] = e
  BY <1>2, <1>5, <1>6, AppendSeq DEF IsQueue
<1>8. ASSUME NEW i \in 1 .. l + 1
      PROVE  r[i][1] \in Sinks(graph) /\ Queue(r[i][1]) = t /\ (r[i][1][1] = "enc" => r[i][2].k # "eof")
  <2>1. CASE i \in 1 .. l
    BY <1>2, <1>6, <1>7, <2>1 DEF IsQueue
  <2>2. CASE i = l + 1
    BY <1>4, <1>7, <2>2
  <2>. QED  BY <2>1, <2>2
<1>9. IsQueue(graph, t, r)
  BY <1>7, <1>8 DEF IsQueue
<1>10. q' = [q EXCEPT ![t] = r]
  BY <1>1, <1>3, <1>5
<1>. QED  BY <1>9, <1>10, QueueStep

\* tq_receive: what it takes was in the queue.
LEMMA GetStep ==
    ASSUME QueueInv, graph' = graph, NEW t \in Tasks(graph), TqGet(t)
    PROVE  /\ QueueInv'
           /\ First(t)[1] \in Sinks(graph) /\ Queue(First(t)[1]) = t
           /\ First(t)[1][1] = "enc" => First(t)[2].k # "eof"
<1>1. PICK s : s = q[t]
  OBVIOUS
<1>2. IsQueue(graph, t, s)
  BY <1>1 DEF QueueInv
<1>3. PICK l \in Nat : l = Len(s) /\ DOMAIN s = 1 .. l
  BY <1>2, SeqDomain DEF IsQueue
<1>4. PICK m \in 1 .. l : m = Min(Live(t))
  <2>1. Live(t) \subseteq 1 .. l /\ Live(t) # {}
    BY <1>1, <1>3 DEF Live, TqGet
  <2>2. Live(t) \in SUBSET Nat
    BY <2>1
  <2>. QED  BY <2>1, <2>2, LeastOf
<1>5. PICK r : r = SubSeq(s, m + 1, Len(s))
  OBVIOUS
<1>6. IsSeq(r) /\ \A i \in DOMAIN r : m + i \in DOMAIN s /\ r[i] = s[m + i]
  BY <1>2, <1>3, <1>5, SuffixSeq DEF IsQueue
<1>7. IsQueue(graph, t, r)
  BY <1>2, <1>6 DEF IsQueue
<1>8. q' = [q EXCEPT ![t] = r]
  BY <1>1, <1>4, <1>5 DEF TqGet
<1>9. QueueInv'
  BY <1>7, <1>8, QueueStep
<1>10. First(t) = s[m]
  BY <1>1, <1>4 DEF First
<1>. QED  BY <1>2, <1>3, <1>9, <1>10 DEF IsQueue

\* No queue for one task.
LEMMA EmptyStep ==
    ASSUME QueueInv, graph' = graph, NEW t \in Tasks(graph), q' = [q EXCEPT ![t] = <<>>]
    PROVE  QueueInv'
BY NoQueue, QueueStep

\* The receiver has seen the end of a stream.
LEMMA SeenStep ==
    ASSUME QueueInv, EndInv, SyncInv, UNCHANGED <<graph, dst_finished, sync>>, NEW t \in Tasks(graph), NEW n,
           TqEnd(t, n)
    PROVE  QueueInv' /\ EndInv' /\ SyncInv'
<1>1. QueueInv'
  BY EmptyStep DEF TqEnd
<1>2. closed' = [send |-> closed.send, recv |-> closed.recv \cup {n}]
  BY ClosedForm DEF TqEnd
<1>3. EndInv'
  BY <1>2, EndStep
<1>4. SyncInv'
  BY <1>2, SyncStep
<1>. QED  BY <1>1, <1>3, <1>4

-----------------------------------------------------------------------------
(* The calls of a task                                                     *)

\* The graph is one of Graphs.
LEMMA GraphForm ==
    ASSUME PipeInv
    PROVE  /\ graph \in Graphs /\ WellFormed(graph) /\ Sized(graph)
           /\ graph.synced \subseteq 1 .. graph.nb_enc
<1>1. graph \in Graphs
  BY DEF PipeInv, RateInv
<1>2. WellFormed(graph) /\ graph.synced \subseteq 1 .. graph.nb_enc
  BY <1>1, GraphsAssumption
<1>. QED  BY <1>1, <1>2 DEF WellFormed

\* The call at the head is well formed, and what is after it may follow.
LEMMA CallForm ==
    ASSUME TaskInv, NEW t \in Tasks(graph), NEW op, Doing(t, op)
    PROVE  /\ task[t].todo # <<>> /\ Head(task[t].todo).op = op /\ IsCall(graph, t, Head(task[t].todo))
           /\ IsTodo(graph, t, Tail(task[t].todo)) /\ Fresh(dst_finished, Tail(task[t].todo))
           /\ \A i \in DOMAIN Tail(task[t].todo) : Follows(Head(task[t].todo), Tail(task[t].todo)[i])
           /\ op = "send" => <<Head(task[t].todo).src, Head(task[t].todo).dst>> \notin dst_finished
<1>1. PICK td : td = task[t].todo
  OBVIOUS
<1>2. td # <<>> /\ Head(td).op = op
  BY <1>1 DEF Doing
<1>3. IsTodo(graph, t, td) /\ Fresh(dst_finished, td)
  BY <1>1 DEF TaskInv
<1>4. PICK fin : fin = dst_finished
  OBVIOUS
<1>5. /\ IsTodo(graph, t, Tail(td)) /\ Fresh(fin, Tail(td)) /\ IsCall(graph, t, Head(td))
      /\ \A i \in DOMAIN Tail(td) : Follows(Head(td), Tail(td)[i])
      /\ Head(td).op = "send" => <<Head(td).src, Head(td).dst>> \notin fin
  BY <1>2, <1>3, <1>4, TailTodo
<1>. QED  BY <1>1, <1>2, <1>4, <1>5

\* UpdateProgress keeps the invariant.
LEMMA UpdateProgressKeeps ==
    ASSUME PipeInv, main.pc # "refused", NEW t \in Tasks(graph), UpdateProgress(t)
    PROVE  PipeInv'
<1>0. TaskInv
  BY DEF PipeInv
<1>1. PICK td : td = task[t].todo
  OBVIOUS
<1>2. PICK c : c = Head(td)
  OBVIOUS
<1>3. /\ Done(t) /\ graph' = graph
      /\ UNCHANGED <<q, closed, dst_finished, reader, flt, opened, sync, mux, asleep, main>>
  BY DEF UpdateProgress
<1>4. td # <<>> /\ c.op \in {"progress", "source_finished"} /\ IsCall(graph, t, c)
  <2>1. PICK op \in {"progress", "source_finished"} : Doing(t, op)
    BY DEF UpdateProgress
  <2>. QED  BY <1>0, <1>1, <1>2, <2>1, CallForm
<1>5. c.node \in Streams(graph, "mux")
  BY <1>4 DEF IsCall
<1>6. PICK s : /\ ScheduleUpdate(s, frozen)
               /\ \/ s = [sched EXCEPT !.last_dts[c.node] = c.dts]
                  \/ s = [sched EXCEPT !.source_finished = @ \cup {c.node}]
  BY <1>1, <1>2 DEF UpdateProgress
<1>7. DOMAIN s = DOMAIN sched /\ IsSched(graph, s)
  BY <1>5, <1>6 DEF PipeInv, RateInv, IsSched
<1>8. RateInv'
  BY <1>3, <1>6, <1>7, GraphForm, UpdateKeeps DEF PipeInv
<1>9. TaskInv' /\ CountInv'
  BY <1>1, <1>2, <1>3, <1>4, DoneStep DEF PipeInv
<1>10. NoNewSend
  BY <1>3, PcStep DEF PipeInv
<1>. QED  BY <1>3, <1>8, <1>9, <1>10, Rest

\* ReceiveFinish keeps the invariant.
LEMMA ReceiveFinishKeeps ==
    ASSUME PipeInv, main.pc # "refused", NEW t \in Tasks(graph), ReceiveFinish(t)
    PROVE  PipeInv'
<1>0. TaskInv
  BY DEF PipeInv
<1>1. PICK td : td = task[t].todo
  OBVIOUS
<1>2. PICK c : c = Head(td)
  OBVIOUS
<1>3. /\ Done(t) /\ graph' = graph /\ Doing(t, "receive_finish")
      /\ UNCHANGED <<q, dst_finished, reader, flt, opened, sync, mux, asleep, main>>
  BY DEF ReceiveFinish, chokingVars
<1>4. td # <<>> /\ c.op = "receive_finish"
  BY <1>0, <1>1, <1>2, <1>3, CallForm
<1>5. TaskInv' /\ CountInv'
  BY <1>1, <1>2, <1>3, <1>4, DoneStep DEF PipeInv
<1>6. NoNewSend
  BY <1>3, PcStep DEF PipeInv
<1>7. CASE UNCHANGED <<chokingVars, closed>>
  BY <1>3, <1>5, <1>6, <1>7, Rest DEF chokingVars
<1>8. CASE ~ UNCHANGED <<chokingVars, closed>>
  <2>1. PICK s, r : /\ s = [sched EXCEPT !.receive_finished = @ \cup {c.node}] /\ ScheduleUpdate(s, frozen)
                    /\ closed.recv \subseteq r /\ closed' = [closed EXCEPT !.recv = r]
    BY <1>1, <1>2, <1>8 DEF ReceiveFinish
  <2>2. DOMAIN s = DOMAIN sched /\ IsSched(graph, s)
    BY <2>1 DEF PipeInv, RateInv, IsSched
  <2>3. RateInv'
    BY <1>3, <2>1, <2>2, GraphForm, UpdateKeeps DEF PipeInv
  <2>4. closed' = [send |-> closed.send, recv |-> r]
    BY <2>1, ClosedForm DEF PipeInv
  <2>5. EndInv'
    BY <1>3, <2>1, <2>4, EndStep DEF PipeInv
  <2>6. SyncInv'
    BY <1>3, <2>1, <2>4, SyncStep DEF PipeInv
  <2>. QED  BY <1>3, <1>5, <1>6, <2>3, <2>5, <2>6, Rest
<1>. QED  BY <1>7, <1>8

\* QueueDone keeps the invariant.
LEMMA QueueDoneKeeps ==
    ASSUME PipeInv, NEW t \in Tasks(graph), QueueDone(t)
    PROVE  PipeInv'
<1>0. TaskInv
  BY DEF PipeInv
<1>1. PICK td : td = task[t].todo
  OBVIOUS
<1>2. PICK c : c = Head(td)
  OBVIOUS
<1>3. /\ Done(t) /\ UNCHANGED chokingVars /\ Doing(t, "queue_done")
      /\ UNCHANGED <<q, dst_finished, reader, flt, opened, sync, mux, asleep, main>>
  BY DEF QueueDone
<1>4. td # <<>> /\ c.op = "queue_done"
  BY <1>0, <1>1, <1>2, <1>3, CallForm
<1>5. TaskInv' /\ CountInv'
  BY <1>1, <1>2, <1>3, <1>4, DoneStep DEF PipeInv, chokingVars
<1>6. NoNewSend
  BY <1>3, PcStep DEF PipeInv, chokingVars
<1>7. PICK r : closed.recv \subseteq r /\ closed' = [closed EXCEPT !.recv = r]
  BY DEF QueueDone
<1>8. closed' = [send |-> closed.send, recv |-> r]
  BY <1>7, ClosedForm DEF PipeInv
<1>9. EndInv'
  BY <1>3, <1>7, <1>8, EndStep DEF PipeInv, chokingVars
<1>10. SyncInv'
  BY <1>3, <1>7, <1>8, SyncStep DEF PipeInv, chokingVars
<1>. QED  BY <1>3, <1>5, <1>6, <1>9, <1>10, Rest DEF chokingVars

\* TaskExited keeps the invariant.
LEMMA TaskExitedKeeps ==
    ASSUME PipeInv, main.pc # "refused", NEW t \in Tasks(graph), TaskExited(t)
    PROVE  PipeInv'
<1>0. TaskInv
  BY DEF PipeInv
<1>1. PICK td : td = task[t].todo
  OBVIOUS
<1>2. PICK c : c = Head(td)
  OBVIOUS
<1>3. /\ Done(t) /\ graph' = graph /\ Doing(t, "exited")
      /\ UNCHANGED <<q, dst_finished, reader, flt, opened, sync, mux, asleep, main>>
  BY DEF TaskExited
<1>4. td # <<>> /\ c.op = "exited"
  BY <1>0, <1>1, <1>2, <1>3, CallForm
<1>5. TaskInv' /\ CountInv'
  BY <1>1, <1>2, <1>3, <1>4, DoneStep DEF PipeInv
<1>6. NoNewSend
  BY <1>3, PcStep DEF PipeInv
<1>7. CASE t[1] = "mux"
  <2>1. PICK streams : streams = QueueStreams(t)
    OBVIOUS
  <2>2. streams \subseteq Streams(graph, "mux")
    <3>1. t[2] \in DOMAIN graph.mux
      BY <1>7, TaskCases
    <3>2. streams = {Node("mux", t[2], k) : k \in 1 .. graph.mux[t[2]]}
      BY <1>7, <2>1 DEF QueueStreams
    <3>. QED  BY <3>1, <3>2, NodeForms
  <2>3. PICK s, r : /\ s = [sched EXCEPT !.source_finished = @ \cup streams] /\ ScheduleUpdate(s, frozen)
                    /\ closed.recv \subseteq r /\ closed' = [closed EXCEPT !.recv = r]
    BY <1>7, <2>1 DEF TaskExited
  <2>4. DOMAIN s = DOMAIN sched /\ IsSched(graph, s)
    BY <2>2, <2>3 DEF PipeInv, RateInv, IsSched
  <2>5. RateInv'
    BY <1>3, <2>3, <2>4, GraphForm, UpdateKeeps DEF PipeInv
  <2>6. closed' = [send |-> closed.send, recv |-> r]
    BY <2>3, ClosedForm DEF PipeInv
  <2>7. EndInv'
    BY <1>3, <2>3, <2>6, EndStep DEF PipeInv
  <2>8. SyncInv'
    BY <1>3, <2>3, <2>6, SyncStep DEF PipeInv
  <2>. QED  BY <1>3, <1>5, <1>6, <2>5, <2>7, <2>8, Rest
<1>8. CASE t[1] # "mux"
  <2>1. PICK s : s = [sched EXCEPT !.exited = @ \cup {t}] /\ ScheduleUpdate(s, frozen) /\ closed' = closed
    BY <1>8 DEF TaskExited
  <2>2. DOMAIN s = DOMAIN sched /\ IsSched(graph, s)
    BY <2>1 DEF PipeInv, RateInv, IsSched
  <2>3. RateInv'
    BY <1>3, <2>1, <2>2, GraphForm, UpdateKeeps DEF PipeInv
  <2>. QED  BY <1>3, <1>5, <1>6, <2>1, <2>3, Rest
<1>. QED  BY <1>7, <1>8

\* ChokeInputs keeps the invariant.
LEMMA ChokeInputsKeeps ==
    ASSUME PipeInv, main.pc # "refused", NEW t \in Tasks(graph), ChokeInputs(t)
    PROVE  PipeInv'
<1>0. TaskInv
  BY DEF PipeInv
<1>1. PICK td : td = task[t].todo
  OBVIOUS
<1>2. PICK c : c = Head(td)
  OBVIOUS
<1>3. /\ Done(t) /\ graph' = graph /\ Doing(t, "choke_inputs")
      /\ UNCHANGED <<q, closed, dst_finished, reader, flt, opened, sync, mux, asleep, main>>
  BY DEF ChokeInputs
<1>4. td # <<>> /\ c.op = "choke_inputs" /\ IsCall(graph, t, c)
  BY <1>0, <1>1, <1>2, <1>3, CallForm
<1>5. t[2] \in DOMAIN graph.filters
  BY <1>4, TaskCases DEF IsCall
<1>6. PICK s : s = [sched EXCEPT !.best_input[t[2]] = NoInput(graph, t[2])] /\ ScheduleUpdate(s, frozen)
  BY DEF ChokeInputs
<1>7. NoInput(graph, t[2]) \in 1 .. NoInput(graph, t[2])
  <2>1. graph.filters[t[2]].in \in Nat
    BY <1>5, GraphForm DEF Sized
  <2>. QED  BY <2>1 DEF NoInput
<1>8. DOMAIN s = DOMAIN sched /\ IsSched(graph, s)
  BY <1>5, <1>6, <1>7 DEF PipeInv, RateInv, IsSched
<1>9. RateInv'
  BY <1>3, <1>6, <1>8, GraphForm, UpdateKeeps DEF PipeInv
<1>10. TaskInv' /\ CountInv'
  BY <1>1, <1>2, <1>3, <1>4, DoneStep DEF PipeInv
<1>11. NoNewSend
  BY <1>3, PcStep DEF PipeInv
<1>. QED  BY <1>3, <1>9, <1>10, <1>11, Rest

\* MuxDone keeps the invariant.
LEMMA MuxDoneKeeps ==
    ASSUME PipeInv, NEW t \in Tasks(graph), Doing(t, "mux_done"), Done(t),
           graph' = graph, dst_finished' = dst_finished, mux' = [mux EXCEPT !.done = @ + 1]
    PROVE  TaskInv' /\ CountInv' /\ MuxInv'
<1>0. TaskInv /\ CountInv /\ MuxInv
  BY DEF PipeInv
<1>1. PICK td : td = task[t].todo
  OBVIOUS
<1>2. PICK pc : pc = task[t].pc
  OBVIOUS
<1>3. PICK s : s = Tail(td)
  OBVIOUS
<1>4. PICK c : c = Head(td)
  OBVIOUS
<1>5. /\ td # <<>> /\ c.op = "mux_done" /\ IsCall(graph, t, c)
      /\ IsTodo(graph, t, s) /\ Fresh(dst_finished, s) /\ \A i \in DOMAIN s : Follows(c, s[i])
  BY <1>0, <1>1, <1>3, <1>4, CallForm
<1>6. t[1] = "mux" /\ t[2] \in DOMAIN graph.mux /\ t = <<"mux", t[2]>>
  BY <1>5, TaskCases DEF IsCall
<1>7. \A i \in DOMAIN s : s[i].op # "mux_done"
  BY <1>5 DEF Follows
<1>8. IsSeq(td) /\ \A i \in DOMAIN td : td[i].op = "mux_done" => pc = "gone"
  BY <1>0, <1>1, <1>2 DEF TaskInv, IsTodo
<1>9. 1 \in DOMAIN td /\ td[1] = c
  BY <1>4, <1>5, <1>8, TailSeq
<1>10. pc = "gone" /\ ~ Counted(task[t])
  BY <1>1, <1>5, <1>8, <1>9 DEF Counted
<1>11. task' = [task EXCEPT ![t].todo = s]
  BY <1>1, <1>3 DEF Done
<1>12. task' = [task EXCEPT ![t] = [pc |-> pc, todo |-> s]]
  BY <1>0, <1>2, <1>11, TodoStep
<1>13. Fresh(dst_finished', s) /\ \A p \in dst_finished' : p \in dst_finished \/ Owner(p[1]) = t
  BY <1>5
<1>14. TaskInv' /\ task'[t] = [pc |-> pc, todo |-> s] /\ \A u \in Tasks(graph) : u # t => task'[u] = task[u]
  BY <1>0, <1>5, <1>7, <1>12, <1>13, TaskPart
<1>15. PICK S : S = {m \in DOMAIN graph.mux : Counted(task[<<"mux", m>>])}
  OBVIOUS
<1>16. t[2] \notin S
  BY <1>6, <1>10, <1>15
<1>17. ASSUME NEW m \in DOMAIN graph.mux
       PROVE  Counted(task'[<<"mux", m>>]) <=> m = t[2] \/ Counted(task[<<"mux", m>>])
  <2>1. PICK u \in Tasks(graph) : u = <<"mux", m>>
    BY TaskCases
  <2>2. CASE u = t
    <3>1. Counted([pc |-> pc, todo |-> s])
      BY <1>7, <1>10 DEF Counted
    <3>2. m = t[2]
      BY <1>6, <2>1, <2>2
    <3>. QED  BY <1>14, <2>1, <2>2, <3>1, <3>2
  <2>3. CASE u # t
    <3>1. m # t[2]
      BY <1>6, <2>1, <2>3
    <3>. QED  BY <1>14, <2>1, <2>3, <3>1
  <2>. QED  BY <2>2, <2>3
<1>18. {m \in DOMAIN graph.mux : Counted(task'[<<"mux", m>>])} = S \cup {t[2]}
  BY <1>6, <1>15, <1>17
<1>19. IsFiniteSet(S)
  <2>1. PICK n \in Nat : DOMAIN graph.mux = 1 .. n
    BY GraphForm DEF Sized
  <2>2. IsFiniteSet(1 .. n)
    BY FS_Interval
  <2>. QED  BY <1>15, <2>1, <2>2, FS_Subset
<1>20. Cardinality(S \cup {t[2]}) = Cardinality(S) + 1
  BY <1>16, <1>19, FS_AddElement
<1>21. mux.done = Cardinality(S) /\ mux'.done = mux.done + 1
  BY <1>0, <1>15 DEF CountInv, MuxInv
<1>22. CountInv'
  BY <1>18, <1>20, <1>21 DEF CountInv
<1>23. MuxInv'
  BY <1>0 DEF MuxInv
<1>. QED  BY <1>14, <1>22, <1>23

\* TaskReport keeps the invariant.
LEMMA TaskReportKeeps ==
    ASSUME PipeInv, NEW t \in Tasks(graph), TaskReport(t)
    PROVE  PipeInv'
<1>0. TaskInv /\ CountInv
  BY DEF PipeInv
<1>1. /\ Done(t) /\ graph' = graph /\ UNCHANGED <<sched, choked, frozen, terminate>>
      /\ UNCHANGED <<q, closed, dst_finished, reader, flt, opened, sync, asleep>>
  BY DEF TaskReport, chokingVars
<1>2. NoNewSend
  BY <1>0, <1>1, PcStep
<1>3. CASE Doing(t, "mux_done") /\ mux' = [mux EXCEPT !.done = @ + 1] /\ UNCHANGED main
  <2>1. TaskInv' /\ CountInv' /\ MuxInv'
    BY <1>1, <1>3, MuxDoneKeeps
  <2>. QED  BY <1>1, <1>2, <1>3, <2>1, Rest
<1>4. CASE Doing(t, "failed") /\ main' = [main EXCEPT !.failed = TRUE] /\ UNCHANGED mux
  <2>1. task[t].todo # <<>> /\ Head(task[t].todo).op = "failed"
    BY <1>0, <1>4, CallForm
  <2>2. TaskInv' /\ CountInv'
    BY <1>0, <1>1, <1>4, <2>1, DoneStep
  <2>3. MainInv'
    BY <1>1, <1>4 DEF PipeInv, MainInv
  <2>. QED  BY <1>1, <1>2, <1>4, <2>2, <2>3, Rest
<1>. QED  BY <1>3, <1>4 DEF TaskReport

\* SendFlush keeps the invariant.
LEMMA SendFlushKeeps ==
    ASSUME PipeInv, NEW t \in Tasks(graph), SendFlush(t)
    PROVE  PipeInv'
<1>0. TaskInv /\ CountInv /\ EndInv /\ SyncInv /\ QueueInv
  BY DEF PipeInv
<1>1. /\ graph' = graph /\ UNCHANGED <<sched, choked, frozen, terminate>> /\ Doing(t, "flush")
      /\ UNCHANGED <<dst_finished, reader, flt, opened, sync, mux, asleep, main>>
  BY DEF SendFlush, chokingVars
<1>2. PICK c : c = Head(task[t].todo)
  OBVIOUS
<1>3. task[t].todo # <<>> /\ c.op = "flush" /\ IsCall(graph, t, c)
  BY <1>0, <1>1, <1>2, CallForm
<1>4. PICK n \in Sinks(graph) : n = c.node /\ n[1] = "dec" /\ t[1] = "demux"
  <2>1. c.node \in Streams(graph, "dec") /\ t[1] = "demux"
    BY <1>3 DEF IsCall
  <2>. QED  BY <2>1 DEF Sinks, Streams, Node
<1>5. CASE n \in closed.recv
  <2>1. closed' = [closed EXCEPT !.send = @ \cup {n}] /\ Goto(t, "over", <<>>) /\ UNCHANGED q
    BY <1>2, <1>4, <1>5 DEF SendFlush
  <2>2. closed' = [send |-> closed.send \cup {n}, recv |-> closed.recv]
    BY <1>0, <2>1, ClosedForm
  <2>3. EndInv'
    BY <1>0, <1>1, <1>5, <2>2, EndStep
  <2>4. \A j \in graph.synced : Node("enc", j, 1) # n
    BY <1>4 DEF Node
  <2>5. SyncInv'
    BY <1>0, <1>1, <2>2, <2>4, SyncStep
  <2>6. TaskInv' /\ CountInv'
    <3>1. t[1] # "mux"
      BY <1>4
    <3>. QED  BY <1>0, <1>1, <2>1, <3>1, NoTodo, GotoStep
  <2>7. NoNewSend
    BY <1>0, <1>1, <2>1, PcStep
  <2>. QED  BY <1>1, <2>1, <2>3, <2>5, <2>6, <2>7, Rest
<1>6. CASE n \notin closed.recv
  <2>1. q' = [q EXCEPT ![Queue(n)] = Append(@, <<n, FlushItem>>)] /\ Done(t) /\ UNCHANGED closed
    BY <1>2, <1>4, <1>6 DEF SendFlush
  <2>2. Queue(n) \in Tasks(graph)
    BY GraphForm, QueueForms
  <2>3. QueueInv'
    BY <1>0, <1>1, <1>4, <2>1, <2>2, PutStep
  <2>4. TaskInv' /\ CountInv'
    BY <1>0, <1>1, <1>2, <1>3, <2>1, DoneStep
  <2>5. NoNewSend
    BY <1>0, <1>1, <2>1, PcStep
  <2>. QED  BY <1>1, <2>1, <2>3, <2>4, <2>5, Rest
<1>. QED  BY <1>5, <1>6

\* AwaitEndTs keeps the invariant.
LEMMA AwaitEndTsKeeps ==
    ASSUME PipeInv, NEW t \in Tasks(graph), AwaitEndTs(t)
    PROVE  PipeInv'
<1>0. TaskInv /\ CountInv
  BY DEF PipeInv
<1>1. /\ graph' = graph /\ UNCHANGED <<sched, choked, frozen, terminate>> /\ Doing(t, "end_ts")
      /\ UNCHANGED <<q, closed, dst_finished, reader, flt, opened, sync, mux, asleep, main>>
  BY DEF AwaitEndTs, chokingVars
<1>2. PICK c : c = Head(task[t].todo)
  OBVIOUS
<1>3. task[t].todo # <<>> /\ c.op = "end_ts" /\ IsCall(graph, t, c)
  BY <1>0, <1>1, <1>2, CallForm
<1>4. t[1] # "mux"
  BY <1>3 DEF IsCall
<1>5. Done(t) \/ Goto(t, "over", <<>>)
  BY DEF AwaitEndTs
<1>6. TaskInv' /\ CountInv'
  <2>1. CASE Done(t)
    BY <1>0, <1>1, <1>2, <1>3, <2>1, DoneStep
  <2>2. CASE Goto(t, "over", <<>>)
    BY <1>0, <1>1, <1>4, <2>2, NoTodo, GotoStep
  <2>. QED  BY <1>5, <2>1, <2>2
<1>7. NoNewSend
  BY <1>0, <1>1, <1>5, PcStep
<1>. QED  BY <1>1, <1>6, <1>7, Rest

\* CloseOutput keeps the invariant.
LEMMA CloseOutputKeeps ==
    ASSUME PipeInv, main.pc # "refused", NEW t \in Tasks(graph), CloseOutput(t)
    PROVE  PipeInv'
<1>0. TaskInv /\ CountInv /\ MainInv /\ WellFormed(graph)
  BY GraphForm DEF PipeInv
<1>1. /\ graph' = graph /\ UNCHANGED <<sched, choked, frozen, terminate>> /\ Doing(t, "close_output")
      /\ UNCHANGED <<q, closed, dst_finished, reader, flt, opened, sync, mux, asleep, main>>
  BY DEF CloseOutput, chokingVars
<1>2. PICK td : td = task[t].todo
  OBVIOUS
<1>3. PICK c : c = Head(td)
  OBVIOUS
<1>4. PICK r : r = Tail(td)
  OBVIOUS
<1>5. /\ td # <<>> /\ c.op = "close_output" /\ IsCall(graph, t, c)
      /\ IsTodo(graph, t, r) /\ Fresh(dst_finished, r) /\ \A i \in DOMAIN r : Follows(c, r[i])
  BY <1>0, <1>1, <1>2, <1>3, <1>4, CallForm
<1>6. PICK src : src = c.node
  OBVIOUS
<1>7. src \in Streams(graph, "fout") /\ Owner(src) = t /\ t[1] = "filter"
  BY <1>5, <1>6 DEF IsCall
<1>8. PICK dst : dst = Dsts(graph, src)[1]
  OBVIOUS
<1>9. src \in Sources(graph) /\ dst \in Sinks(graph) /\ graph.src[dst] = src
  <2>1. src \in Sources(graph)
    BY <1>7 DEF Sources
  <2>2. Dsts(graph, src) # <<>>
    BY <1>0, <2>1 DEF MainInv
  <2>. QED  BY <1>0, <1>7, <1>8, <2>2, OutputDst
<1>10. PICK cl : cl = Close(src, dst)
  OBVIOUS
<1>11. IsCall(graph, t, cl) /\ cl.op = "close" /\ cl.dst = dst
  BY <1>7, <1>9, <1>10 DEF IsCall, Link, Close
<1>12. PICK sn : sn = Send(src, dst, InitItem)
  OBVIOUS
<1>13. IsCall(graph, t, sn) /\ sn.op = "send" /\ sn.src = src /\ sn.dst = dst
  <2>1. sn.op = "send" /\ sn.src = src /\ sn.dst = dst /\ sn.item = InitItem /\ sn = Send(sn.src, sn.dst, sn.item)
    BY <1>12 DEF Send
  <2>2. InitItem.k # "eof"
    BY DEF InitItem, Item
  <2>3. Link(graph, t, sn)
    BY <1>7, <1>9, <2>1 DEF Link
  <2>. QED  BY <2>1, <2>2, <2>3 DEF IsCall
\* What is left to do has no frame for this output.
<1>14. ASSUME NEW j \in DOMAIN r PROVE Follows(cl, r[j]) /\ Follows(sn, r[j])
  <2>1. IsCall(graph, t, r[j]) /\ Follows(c, r[j])
    BY <1>5 DEF IsTodo
  <2>2. r[j].op = "send" => r[j].src # src /\ graph.src[r[j].dst] = r[j].src
    BY <1>5, <1>6, <2>1 DEF Follows, IsCall, Link
  <2>3. r[j].op = "send" => r[j].dst # dst
    BY <1>9, <2>2
  <2>. QED  BY <1>11, <1>13, <2>3 DEF Follows
<1>15. ASSUME NEW ops, Replace(t, ops), IsTodo(graph, t, ops), Fresh(dst_finished, ops),
              \A i \in DOMAIN ops : ops[i] \in {cl, sn}
       PROVE  PipeInv'
  <2>1. \A i \in DOMAIN ops : \A j \in DOMAIN Tail(td) : Follows(ops[i], Tail(td)[j])
    BY <1>4, <1>14, <1>15
  <2>2. Fresh(dst_finished', ops) /\ Fresh(dst_finished', Tail(td))
    BY <1>1, <1>4, <1>5, <1>15
  <2>3. \A p \in dst_finished' : p \in dst_finished \/ Owner(p[1]) = t
    BY <1>1
  <2>4. TaskInv' /\ CountInv'
    <3>1. t[1] # "mux" /\ mux'.done = mux.done
      BY <1>1, <1>7
    <3>. QED  BY <1>0, <1>1, <1>2, <1>5, <1>15, <2>1, <2>2, <2>3, <3>1, ReplaceStep
  <2>5. NoNewSend
    BY <1>0, <1>1, <1>15, PcStep
  <2>. QED  BY <1>1, <2>4, <2>5, Rest
<1>16. PICK init : init = IF flt[t[2]].got_frame \/ dst[1] # "enc" THEN <<>> ELSE <<sn>>
  OBVIOUS
<1>17. Replace(t, IF <<src, dst>> \in dst_finished THEN <<>> ELSE init \o <<cl>>)
  BY <1>2, <1>3, <1>6, <1>8, <1>10, <1>12, <1>16 DEF CloseOutput
<1>18. CASE <<src, dst>> \in dst_finished
  <2>1. Replace(t, <<>>)
    BY <1>17, <1>18
  <2>2. \A i \in DOMAIN <<>> : <<>>[i] \in {cl, sn}
    BY NoSeq
  <2>. QED  BY <1>15, <2>1, <2>2, NoTodo
<1>19. CASE <<src, dst>> \notin dst_finished
  <2>1. PICK one : one = <<cl>>
    OBVIOUS
  <2>2. IsTodo(graph, t, one) /\ DOMAIN one = {1} /\ one[1] = cl
    BY <1>11, <2>1, OneTodo
  <2>3. Fresh(dst_finished, one)
    BY <1>11, <2>2 DEF Fresh
  <2>4. IsTodo(graph, t, init) /\ Fresh(dst_finished, init) /\ \A i \in DOMAIN init : init[i] = sn
    <3>1. CASE init = <<>>
      BY <3>1, NoTodo, NoSeq
    <3>2. CASE init = <<sn>>
      <4>1. IsTodo(graph, t, init) /\ DOMAIN init = {1} /\ init[1] = sn
        BY <1>13, <3>2, OneTodo
      <4>2. Fresh(dst_finished, init)
        BY <1>13, <1>19, <4>1 DEF Fresh
      <4>. QED  BY <4>1, <4>2
    <3>. QED  BY <1>16, <3>1, <3>2
  <2>5. \A i \in DOMAIN init : \A j \in DOMAIN one : Follows(init[i], one[j])
    BY <1>11, <1>13, <2>2, <2>4 DEF Follows
  <2>6. PICK ops : ops = init \o one
    OBVIOUS
  <2>7. /\ IsTodo(graph, t, ops) /\ Fresh(dst_finished, ops)
        /\ \A i \in DOMAIN ops : (\E j \in DOMAIN init : ops[i] = init[j]) \/ (\E j \in DOMAIN one : ops[i] = one[j])
    BY <2>2, <2>3, <2>4, <2>5, <2>6, ConcatTodo
  <2>8. \A i \in DOMAIN ops : ops[i] \in {cl, sn}
    BY <2>2, <2>4, <2>7
  <2>9. Replace(t, ops)
    BY <1>17, <1>19, <2>1, <2>6
  <2>. QED  BY <1>15, <2>7, <2>8, <2>9
<1>. QED  BY <1>18, <1>19

\* The first call is followed by what rate control or the sync queue is to be told.
LEMMA ReplaceCalls ==
    ASSUME TaskInv, CountInv, NEW t \in Tasks(graph), t[1] # "mux", graph' = graph, mux'.done = mux.done,
           NEW td, td = task[t].todo, td # <<>>, NEW ops, Replace(t, ops), Quiet(graph, t, ops),
           \A i \in DOMAIN ops : ops[i].op \notin {"close", "close_output"},
           Fresh(dst_finished', Tail(td)),
           \A p \in dst_finished' : p \in dst_finished \/ Owner(p[1]) = t
    PROVE  TaskInv' /\ CountInv' /\ NoNewSend
<1>1. PICK fin : fin = dst_finished'
  OBVIOUS
<1>2. IsTodo(graph, t, ops) /\ Fresh(fin, ops)
  BY QuietTodo
<1>3. \A i \in DOMAIN ops : \A j \in DOMAIN Tail(td) : Follows(ops[i], Tail(td)[j])
  BY DEF Follows, Quiet
<1>4. Fresh(dst_finished', ops)
  BY <1>1, <1>2
<1>5. TaskInv' /\ CountInv'
  BY <1>2, <1>3, <1>4, ReplaceStep
<1>6. NoNewSend
  BY PcStep
<1>. QED  BY <1>5, <1>6

\* Whether a filtergraph has sent a frame does not matter here.
LEMMA GotFrame ==
    ASSUME FltInv, graph' = graph, NEW f, flt' = [flt EXCEPT ![f].got_frame = TRUE]
    PROVE  FltInv'
<1>1. DOMAIN flt' = DOMAIN graph.filters
  BY DEF FltInv
<1>2. ASSUME NEW g \in DOMAIN graph.filters PROVE IsFilter(graph, g, flt'[g])
  <2>1. IsFilter(graph, g, flt[g])
    BY DEF FltInv
  <2>2. CASE g = f
    <3>1. PICK x : x = flt[g]
      OBVIOUS
    <3>2. PICK y : y = [x EXCEPT !.got_frame = TRUE]
      OBVIOUS
    <3>3. flt'[g] = y
      BY <2>2, <3>1, <3>2 DEF FltInv
    <3>4. IsFilter(graph, g, x)
      BY <2>1, <3>1
    <3>5. DOMAIN y = DOMAIN x /\ \A k \in DOMAIN x : k # "got_frame" => y[k] = x[k]
      BY <3>2
    <3>6. /\ y.next = x.next /\ y.format = x.format /\ y.configured = x.configured /\ y.ripe = x.ripe
          /\ y.sink = x.sink /\ y.buf = x.buf
      BY <3>4, <3>5 DEF IsFilter
    <3>. QED  BY <3>3, <3>4, <3>5, <3>6 DEF IsFilter
  <2>3. CASE g # f
    BY <2>1, <2>3 DEF FltInv
  <2>. QED  BY <2>2, <2>3
<1>. QED  BY <1>1, <1>2 DEF FltInv

\* A packet waits for a muxer to start; its end only when it was sent.
LEMMA PreStep ==
    ASSUME MuxInv, graph' = graph, dst_finished \subseteq dst_finished', NEW n \in Streams(graph, "mux"), NEW item,
           item.k = "eof" => <<SrcOf(graph, n), n>> \in dst_finished', mux' = [mux EXCEPT !.pre[n] = Append(@, item)]
    PROVE  MuxInv' /\ mux'.done = mux.done
<1>1. PICK s : s = mux.pre[n]
  OBVIOUS
<1>2. IsSeq(s) /\ \A i \in DOMAIN s : s[i].k = "eof" => <<SrcOf(graph, n), n>> \in dst_finished
  BY <1>1 DEF MuxInv
<1>3. PICK r : r = Append(s, item)
  OBVIOUS
<1>4. PICK l \in Nat : l = Len(s) /\ DOMAIN s = 1 .. l
  BY <1>2, SeqDomain
<1>5. /\ IsSeq(r) /\ DOMAIN r = 1 .. l + 1
      /\ \A i \in 1 .. l : r[i] = s[i]
      /\ r[l + 1] = item
  BY <1>2, <1>3, <1>4, AppendSeq
<1>6. ASSUME NEW i \in 1 .. l + 1, r[i].k = "eof" PROVE <<SrcOf(graph, n), n>> \in dst_finished'
  <2>1. CASE i \in 1 .. l
    BY <1>2, <1>4, <1>5, <1>6, <2>1
  <2>2. CASE i = l + 1
    BY <1>5, <1>6, <2>2
  <2>. QED  BY <2>1, <2>2
<1>7. mux' = [mux EXCEPT !.pre = [mux.pre EXCEPT ![n] = r]]
  BY <1>1, <1>3
<1>8. DOMAIN mux' = DOMAIN mux /\ mux'.done = mux.done /\ mux'.pre = [mux.pre EXCEPT ![n] = r]
  BY <1>7 DEF MuxInv
<1>9. \A o \in Streams(graph, "mux") : mux'.pre[o] = IF o = n THEN r ELSE mux.pre[o]
  BY <1>8 DEF MuxInv
<1>10. DOMAIN mux'.pre = Streams(graph, "mux")
  BY <1>8 DEF MuxInv
<1>11. DOMAIN mux' = {"started", "pre", "written", "done"}
  BY <1>8 DEF MuxInv
<1>12. ASSUME NEW o \in Streams(graph, "mux")
       PROVE  /\ IsSeq(mux'.pre[o])
              /\ \A i \in DOMAIN mux'.pre[o] : mux'.pre[o][i].k = "eof" => <<SrcOf(graph, o), o>> \in dst_finished'
  <2>1. CASE o = n
    BY <1>5, <1>6, <1>9, <2>1
  <2>2. CASE o # n
    BY <1>9, <2>2 DEF MuxInv
  <2>. QED  BY <2>1, <2>2
<1>13. MuxInv'
  BY <1>10, <1>11, <1>12 DEF MuxInv
<1>. QED  BY <1>8, <1>13

\* send_to_mux, tq_send and their like: SendItem.
LEMMA SendItemKeeps ==
    ASSUME PipeInv, NEW t \in Tasks(graph), SendItem(t)
    PROVE  PipeInv'
<1>0. TaskInv /\ CountInv /\ QueueInv /\ EndInv /\ SyncInv /\ MuxInv /\ FltInv
  BY DEF PipeInv
<1>1. /\ graph' = graph /\ UNCHANGED <<sched, choked, frozen, terminate>> /\ Doing(t, "send")
      /\ UNCHANGED <<dst_finished, reader, opened, sync, asleep, main>>
  BY DEF SendItem, chokingVars
<1>2. PICK td : td = task[t].todo
  OBVIOUS
<1>3. PICK c : c = Head(td)
  OBVIOUS
<1>4. td # <<>> /\ c.op = "send" /\ IsCall(graph, t, c) /\ Fresh(dst_finished, Tail(td))
  BY <1>0, <1>1, <1>2, <1>3, CallForm
<1>5. Link(graph, t, c) /\ (c.dst[1] \in {"mux", "enc"} => c.item.k # "eof")
  BY <1>4 DEF IsCall
<1>6. c.dst \in Sinks(graph) /\ ~ Synced(c.dst) /\ t[1] # "mux"
  <2>1. t[1] # "mux" /\ c.dst \in Sinks(graph)
    BY <1>5, OwnerIsTask DEF Link
  <2>. QED  BY <1>2, <1>3, <2>1 DEF SendItem
<1>7. PICK after : after = IF c.dst[1] = "mux" THEN <<Progress(c.dst, c.item.ts)>> ELSE <<>>
  OBVIOUS
<1>8. Quiet(graph, t, after) /\ \A i \in DOMAIN after : after[i].op \notin {"close", "close_output"}
  <2>1. CASE c.dst[1] = "mux"
    <3>1. PICK e : e = Progress(c.dst, c.item.ts)
      OBVIOUS
    <3>2. c.dst \in Streams(graph, "mux")
      BY <1>6, <2>1, SinkForms
    <3>3. IsCall(graph, t, e) /\ e.op = "progress"
      BY <3>1, <3>2 DEF Progress, IsCall
    <3>4. after = <<e>>
      BY <1>7, <2>1, <3>1
    <3>5. Quiet(graph, t, after) /\ DOMAIN after = {1} /\ after[1] = e
      BY <3>3, <3>4, OneQuiet, OneSeq
    <3>. QED  BY <3>3, <3>5
  <2>2. CASE c.dst[1] # "mux"
    BY <1>7, <2>2, NoQuiet, NoSeq
  <2>. QED  BY <2>1, <2>2
<1>9. ASSUME Replace(t, after), mux'.done = mux.done PROVE TaskInv' /\ CountInv' /\ NoNewSend
  <2>1. Fresh(dst_finished', Tail(td)) /\ \A p \in dst_finished' : p \in dst_finished \/ Owner(p[1]) = t
    BY <1>1, <1>4
  <2>. QED  BY <1>0, <1>1, <1>2, <1>4, <1>6, <1>8, <1>9, <2>1, ReplaceCalls
<1>10. CASE c.dst[1] = "mux" /\ c.dst[2] \notin mux.started
  <2>1. mux' = [mux EXCEPT !.pre[c.dst] = Append(@, c.item)] /\ Replace(t, after) /\ UNCHANGED <<q, closed, flt>>
    BY <1>2, <1>3, <1>7, <1>10 DEF SendItem
  <2>2. c.dst \in Streams(graph, "mux")
    BY <1>6, <1>10, SinkForms
  <2>3. MuxInv' /\ mux'.done = mux.done
    <3>0. PICK item : item = c.item
      OBVIOUS
    <3>1. PICK n \in Streams(graph, "mux") : n = c.dst /\ item.k # "eof"
      BY <1>5, <1>10, <2>2, <3>0
    <3>2. mux' = [mux EXCEPT !.pre[n] = Append(@, item)]
      BY <2>1, <3>0, <3>1
    <3>. QED  BY <1>0, <1>1, <3>1, <3>2, PreStep
  <2>. QED  BY <1>1, <1>9, <2>1, <2>3, Rest
<1>11. CASE ~ (c.dst[1] = "mux" /\ c.dst[2] \notin mux.started) /\ c.dst \in closed.recv
  <2>1. /\ closed' = [closed EXCEPT !.send = @ \cup {c.dst}]
        /\ TurnAway(t, c.src, c.dst) /\ UNCHANGED <<q, mux, flt>>
    BY <1>2, <1>3, <1>11 DEF SendItem
  <2>2. closed' = [send |-> closed.send \cup {c.dst}, recv |-> closed.recv]
    BY <1>0, <2>1, ClosedForm
  <2>3. EndInv'
    BY <1>0, <1>1, <1>11, <2>2, EndStep
  <2>4. SyncInv'
    BY <1>0, <1>1, <1>11, <2>2, SyncStep
  <2>5. TaskInv' /\ CountInv'
    BY <1>0, <1>1, <1>2, <1>3, <1>4, <1>5, <2>1, TurnStep
  <2>6. NoNewSend
    BY <1>0, <1>1, <2>1, PcStep
  <2>. QED  BY <1>1, <2>1, <2>3, <2>4, <2>5, <2>6, Rest
<1>12. CASE ~ (c.dst[1] = "mux" /\ c.dst[2] \notin mux.started) /\ c.dst \notin closed.recv
  <2>1. /\ q' = [q EXCEPT ![Queue(c.dst)] = Append(@, <<c.dst, c.item>>)]
        /\ Replace(t, after) /\ UNCHANGED <<closed, mux>>
        /\ flt' = flt \/ flt' = [flt EXCEPT ![t[2]].got_frame = TRUE]
    BY <1>2, <1>3, <1>7, <1>12 DEF SendItem
  <2>2. QueueInv'
    <3>0. PICK item : item = c.item
      OBVIOUS
    <3>1. PICK n \in Sinks(graph) : n = c.dst /\ (n[1] = "enc" => item.k # "eof")
      BY <1>5, <1>6, <3>0
    <3>2. Queue(n) \in Tasks(graph)
      BY GraphForm, QueueForms
    <3>3. q' = [q EXCEPT ![Queue(n)] = Append(@, <<n, item>>)]
      BY <2>1, <3>0, <3>1
    <3>. QED  BY <1>0, <1>1, <3>1, <3>2, <3>3, PutStep
  <2>3. FltInv'
    <3>1. CASE flt' = flt
      BY <1>0, <1>1, <3>1 DEF FltInv
    <3>2. CASE flt' = [flt EXCEPT ![t[2]].got_frame = TRUE]
      BY <1>0, <1>1, <3>2, GotFrame
    <3>. QED  BY <2>1, <3>1, <3>2
  <2>. QED  BY <1>1, <1>9, <2>1, <2>2, <2>3, Rest
<1>. QED  BY <1>10, <1>11, <1>12

\* After the end of a link nothing is left to be sent on it.
LEMMA StaysFresh ==
    ASSUME NEW fin, NEW r, Fresh(fin, r), NEW c, c.op = "close", \A i \in DOMAIN r : Follows(c, r[i])
    PROVE  Fresh(fin \cup {<<c.src, c.dst>>}, r)
<1>1. ASSUME NEW i \in DOMAIN r, r[i].op = "send" PROVE <<r[i].src, r[i].dst>> \notin fin \cup {<<c.src, c.dst>>}
  <2>1. r[i].dst # c.dst
    BY <1>1 DEF Follows
  <2>2. <<r[i].src, r[i].dst>> \notin fin
    BY <1>1 DEF Fresh
  <2>. QED  BY <2>1, <2>2
<1>. QED  BY <1>1 DEF Fresh

\* The end of a stream is recorded where it is finished: CloseInput.
LEMMA CloseInputKeeps ==
    ASSUME PipeInv, main.pc # "refused", NEW t \in Tasks(graph), CloseInput(t)
    PROVE  PipeInv'
<1>0. TaskInv /\ CountInv /\ QueueInv /\ EndInv /\ SyncInv /\ MuxInv /\ FltInv /\ RateInv /\ MainInv /\ WellFormed(graph)
  BY GraphForm DEF PipeInv
<1>1. Doing(t, "close") /\ UNCHANGED <<q, reader, flt, opened, sync, asleep, main>>
  BY DEF CloseInput
<1>2. PICK td : td = task[t].todo
  OBVIOUS
<1>3. PICK c : c = Head(td)
  OBVIOUS
<1>4. PICK r : r = Tail(td)
  OBVIOUS
<1>5. /\ td # <<>> /\ c.op = "close" /\ IsCall(graph, t, c)
      /\ Fresh(dst_finished, r) /\ \A i \in DOMAIN r : Follows(c, r[i])
  BY <1>0, <1>1, <1>2, <1>3, <1>4, CallForm
<1>6. PICK src \in Sources(graph) : src = c.src /\ Owner(src) = t
  BY <1>5 DEF IsCall, Link
<1>7. PICK dst \in Sinks(graph) : dst = c.dst /\ graph.src[dst] = src
  BY <1>5, <1>6 DEF IsCall, Link
<1>8. ~ SyncedIn(graph, dst) /\ t[1] # "mux"
  <2>1. ~ Synced(c.dst)
    BY <1>2, <1>3 DEF CloseInput
  <2>2. ~ SyncedIn(graph, dst)
    BY <1>7, <2>1 DEF Synced, SyncedIn
  <2>. QED  BY <1>6, <2>2, OwnerIsTask
<1>9. PICK after : after = IF dst[1] = "mux" THEN <<Call("source_finished", dst)>> ELSE <<>>
  OBVIOUS
<1>10. Quiet(graph, t, after) /\ \A i \in DOMAIN after : after[i].op \notin {"close", "close_output"}
  <2>1. CASE dst[1] = "mux"
    <3>1. PICK e : e = Call("source_finished", dst)
      OBVIOUS
    <3>2. dst \in Streams(graph, "mux")
      BY <2>1, SinkForms
    <3>3. IsCall(graph, t, e) /\ e.op = "source_finished"
      BY <3>1, <3>2 DEF Call, IsCall
    <3>4. after = <<e>>
      BY <1>9, <2>1, <3>1
    <3>5. Quiet(graph, t, after) /\ DOMAIN after = {1} /\ after[1] = e
      BY <3>3, <3>4, OneQuiet, OneSeq
    <3>. QED  BY <3>3, <3>5
  <2>2. CASE dst[1] # "mux"
    BY <1>9, <2>2, NoQuiet, NoSeq
  <2>. QED  BY <2>1, <2>2
<1>11. PICK s : s = [sched EXCEPT !.send_finished = @ \cup {dst}]
  OBVIOUS
<1>13. /\ dst_finished' = dst_finished \cup {<<src, dst>>} /\ Replace(t, after)
       /\ \/ /\ dst[1] = "mux" /\ mux' = [mux EXCEPT !.pre[dst] = Append(@, EofItem)]
             /\ UNCHANGED <<chokingVars, closed>>
          \/ UNCHANGED <<chokingVars, closed, mux>>
          \/ /\ dst[1] = "fin" /\ graph' = graph /\ mux' = mux /\ ScheduleUpdate(s, frozen)
             /\ closed' = [closed EXCEPT !.send = @ \cup {dst} \cup
                              IF {Node("fin", dst[2], k) : k \in 1 .. graph.filters[dst[2]].in} \subseteq s.send_finished
                              THEN {Control(dst[2])} ELSE {}]
          \/ /\ closed' = [closed EXCEPT !.send = @ \cup {dst}] /\ frozen' \subseteq frozen
             /\ UNCHANGED <<graph, sched, choked, terminate, mux>>
  <2>1. PICK cs, cd : cs = c.src /\ cd = c.dst
    OBVIOUS
  <2>2. cs = src /\ cd = dst
    BY <1>6, <1>7, <2>1
  <2>3. /\ dst_finished' = dst_finished \cup {<<cs, cd>>}
        /\ Replace(t, IF cd[1] = "mux" THEN <<Call("source_finished", cd)>> ELSE <<>>)
        /\ IF cd[1] = "mux" /\ cd[2] \notin mux.started
           THEN mux' = [mux EXCEPT !.pre[cd] = Append(@, EofItem)] /\ UNCHANGED <<chokingVars, closed>>
           ELSE IF cd[1] = "fin"
           THEN IF cd \in sched.send_finished THEN UNCHANGED <<chokingVars, closed, mux>>
                ELSE /\ closed' = [closed EXCEPT !.send = @ \cup {cd} \cup
                              IF {Node("fin", cd[2], k) : k \in 1 .. graph.filters[cd[2]].in}
                                     \subseteq [sched EXCEPT !.send_finished = @ \cup {cd}].send_finished
                              THEN {Control(cd[2])} ELSE {}]
                     /\ ScheduleUpdate([sched EXCEPT !.send_finished = @ \cup {cd}], frozen)
                     /\ UNCHANGED <<graph, terminate, mux>>
           ELSE /\ closed' = [closed EXCEPT !.send = @ \cup {cd}]
                /\ frozen' = IF cd[1] = "dec" THEN frozen \ {cd[2]} ELSE frozen
                /\ UNCHANGED <<graph, sched, choked, terminate, mux>>
    BY <1>2, <1>3, <2>1, ZenonT(60) DEF CloseInput
  <2>4. dst_finished' = dst_finished \cup {<<src, dst>>} /\ Replace(t, after)
    BY <1>9, <2>2, <2>3
  <2>5. CASE dst[1] = "mux" /\ dst[2] \notin mux.started
    BY <2>2, <2>3, <2>4, <2>5
  <2>6. CASE ~ (dst[1] = "mux" /\ dst[2] \notin mux.started) /\ dst[1] = "fin"
    BY <1>11, <2>2, <2>3, <2>4, <2>6
  <2>7. CASE ~ (dst[1] = "mux" /\ dst[2] \notin mux.started) /\ dst[1] # "fin"
    BY <2>2, <2>3, <2>4, <2>7
  <2>. QED  BY <2>5, <2>6, <2>7
<1>14. graph' = graph
  BY <1>13 DEF chokingVars
<1>15. ASSUME mux'.done = mux.done PROVE TaskInv' /\ CountInv' /\ NoNewSend
  <2>1. Fresh(dst_finished', Tail(td))
    <3>1. PICK fin : fin = dst_finished
      OBVIOUS
    <3>2. Fresh(fin \cup {<<c.src, c.dst>>}, r)
      BY <1>5, <3>1, StaysFresh
    <3>. QED  BY <1>4, <1>6, <1>7, <1>13, <3>1, <3>2
  <2>2. \A p \in dst_finished' : p \in dst_finished \/ Owner(p[1]) = t
    BY <1>6, <1>13
  <2>. QED  BY <1>0, <1>2, <1>5, <1>8, <1>10, <1>13, <1>14, <1>15, <2>1, <2>2, ReplaceCalls
<1>16. ASSUME mux' = mux PROVE MuxInv' /\ mux'.done = mux.done
  BY <1>0, <1>13, <1>14, <1>16, MuxStep
\* What is added to the streams finished for sending.
<1>17. ASSUME NEW add, \A n \in add : n = dst \/ (n[1] = "fin" /\ n \notin Sinks(graph)),
              closed' = [closed EXCEPT !.send = @ \cup add]
       PROVE  EndInv' /\ SyncInv'
  <2>1. closed' = [send |-> closed.send \cup add, recv |-> closed.recv]
    BY <1>0, <1>17, ClosedForm
  <2>2. <<SrcOf(graph, dst), dst>> \in dst_finished'
    BY <1>7, <1>13 DEF SrcOf
  <2>3. \A n \in Sinks(graph) : n \in closed.send \cup add => n \in closed.send \/ <<SrcOf(graph, n), n>> \in dst_finished'
    BY <1>17, <2>2
  <2>4. EndInv'
    BY <1>0, <1>13, <1>14, <2>1, <2>3, EndStep
  <2>5. ASSUME NEW j \in graph.synced PROVE Node("enc", j, 1) \notin add
    <3>1. PICK n : n = Node("enc", j, 1)
      OBVIOUS
    <3>2. n[1] = "enc" /\ n[2] = j
      BY <3>1 DEF Node
    <3>3. n # dst
      BY <1>8, <3>2 DEF SyncedIn
    <3>. QED  BY <1>17, <3>1, <3>2, <3>3
  <2>6. SyncInv'
    BY <1>0, <1>1, <1>14, <2>1, <2>5, SyncStep
  <2>. QED  BY <2>4, <2>6
<1>18. ASSUME UNCHANGED closed PROVE EndInv' /\ SyncInv'
  <2>1. DOMAIN closed' = {"send", "recv"} /\ dst_finished \subseteq dst_finished'
    BY <1>0, <1>13, <1>18 DEF EndInv
  <2>2. EndInv'
    BY <1>0, <1>14, <1>18, <2>1 DEF EndInv
  <2>3. SyncInv'
    BY <1>0, <1>1, <1>14, <1>18, SyncStep
  <2>. QED  BY <2>2, <2>3
<1>19. CASE /\ dst[1] = "mux" /\ mux' = [mux EXCEPT !.pre[dst] = Append(@, EofItem)]
            /\ UNCHANGED <<chokingVars, closed>>
  <2>1. dst \in Streams(graph, "mux")
    BY <1>19, SinkForms
  <2>2. <<SrcOf(graph, dst), dst>> \in dst_finished'
    BY <1>7, <1>13 DEF SrcOf
  <2>3. PICK item : item = EofItem
    OBVIOUS
  <2>4. mux' = [mux EXCEPT !.pre[dst] = Append(@, item)] /\ dst_finished \subseteq dst_finished'
    BY <1>13, <1>19, <2>3
  <2>5. MuxInv' /\ mux'.done = mux.done
    BY <1>0, <1>14, <2>1, <2>2, <2>4, PreStep
  <2>. QED  BY <1>1, <1>14, <1>15, <1>18, <1>19, <2>5, Rest DEF chokingVars
<1>20. CASE UNCHANGED <<chokingVars, closed, mux>>
  BY <1>1, <1>14, <1>15, <1>16, <1>18, <1>20, Rest DEF chokingVars
<1>21. CASE /\ dst[1] = "fin" /\ graph' = graph /\ mux' = mux /\ ScheduleUpdate(s, frozen)
            /\ closed' = [closed EXCEPT !.send = @ \cup {dst} \cup
                             IF {Node("fin", dst[2], k) : k \in 1 .. graph.filters[dst[2]].in} \subseteq s.send_finished
                             THEN {Control(dst[2])} ELSE {}]
  <2>1. DOMAIN s = DOMAIN sched /\ IsSched(graph, s)
    BY <1>0, <1>11 DEF RateInv, IsSched
  <2>2. RateInv'
    BY <1>0, <1>1, <1>21, <2>1, UpdateKeeps
  <2>3. PICK ctl : ctl = Control(dst[2])
    OBVIOUS
  <2>4. ctl[1] = "fin" /\ ctl \notin Sinks(graph)
    <3>1. ctl = <<"fin", dst[2], graph.filters[dst[2]].in + 1>>
      BY <2>3 DEF Control, Node, NoInput
    <3>2. dst[2] \in DOMAIN graph.filters
      BY <1>21, SinkForms
    <3>3. graph.filters[dst[2]].in \in Nat
      BY <1>0, <3>2 DEF WellFormed, Sized
    <3>4. ~ graph.filters[dst[2]].in + 1 \in 1 .. graph.filters[dst[2]].in
      BY <3>3
    <3>. QED  BY <3>1, <3>4, SinkForms
  <2>5. PICK add : /\ closed' = [closed EXCEPT !.send = @ \cup add] /\ add \subseteq {dst, ctl}
    <3>1. PICK x : x = IF {Node("fin", dst[2], k) : k \in 1 .. graph.filters[dst[2]].in} \subseteq s.send_finished
                       THEN {Control(dst[2])} ELSE {}
      OBVIOUS
    <3>2. closed' = [closed EXCEPT !.send = (@ \cup {dst}) \cup x]
      BY <1>21, <3>1
    <3>3. closed' = [closed EXCEPT !.send = @ \cup ({dst} \cup x)]
      BY <3>2
    <3>4. {dst} \cup x \subseteq {dst, ctl}
      BY <2>3, <3>1
    <3>. QED  BY <3>3, <3>4
  <2>6. EndInv' /\ SyncInv'
    BY <1>17, <2>4, <2>5
  <2>. QED  BY <1>1, <1>14, <1>15, <1>16, <1>21, <2>2, <2>6, Rest
<1>22. CASE /\ closed' = [closed EXCEPT !.send = @ \cup {dst}] /\ frozen' \subseteq frozen
            /\ UNCHANGED <<graph, sched, choked, terminate, mux>>
  <2>1. EndInv' /\ SyncInv'
    <3>1. PICK add : add = {dst}
      OBVIOUS
    <3>2. closed' = [closed EXCEPT !.send = @ \cup add] /\ \A n \in add : n = dst
      BY <1>22, <3>1
    <3>. QED  BY <1>17, <3>2
  <2>2. RateInv'
    BY <1>0, <1>1, <1>22 DEF RateInv
  <2>. QED  BY <1>1, <1>14, <1>15, <1>16, <1>22, <2>1, <2>2, Rest
<1>. QED  BY <1>13, <1>19, <1>20, <1>21, <1>22

\* mux_init: what waited goes into the queue, and an end that waited was sent.
LEMMA StartStep ==
    ASSUME QueueInv, EndInv, SyncInv, MuxInv, WellFormed(graph), UNCHANGED <<graph, dst_finished, sync>>,
           NEW m \in DOMAIN graph.mux, NEW now, Start(m, now)
    PROVE  QueueInv' /\ EndInv' /\ SyncInv' /\ MuxInv' /\ mux'.done = mux.done
<1> DEFINE early(k) == LET pre == mux.pre[Node("mux", m, k)]
                       IN  Kept(pre, {j \in DOMAIN pre : pre[j].k # "eof"})
<1>1. PICK ended : ended = {n \in QueueStreams(<<"mux", m>>) : \E i \in DOMAIN mux.pre[n] : mux.pre[n][i].k = "eof"}
  OBVIOUS
<1>2. CASE UNCHANGED <<mux, q, closed>>
  <2>1. SyncInv'
    BY <1>2, SyncStep
  <2>. QED  BY <1>2, <2>1 DEF QueueInv, EndInv, MuxInv
<1>3. CASE ~ UNCHANGED <<mux, q, closed>>
  <2>1. PICK n \in Nat : n = graph.mux[m]
    BY DEF WellFormed, Sized
  <2>2. PICK ss : ss = [k \in 1 .. n |-> [j \in DOMAIN early(k) |-> <<Node("mux", m, k), early(k)[j]>>]]
    OBVIOUS
  <2>3. /\ mux' = [mux EXCEPT !.started = @ \cup {m}]
        /\ q' = [q EXCEPT ![<<"mux", m>>] = FlattenSeq(ss)]
        /\ closed' = [closed EXCEPT !.send = @ \cup ended]
    BY <1>1, <1>3, <2>1, <2>2 DEF Start
  <2>4. PICK t \in Tasks(graph) : t = <<"mux", m>>
    BY TaskCases
  <2>5. IsSeq(ss) /\ DOMAIN ss = 1 .. n
    BY <2>2, ListSeq
  <2>6. ASSUME NEW k \in 1 .. n
        PROVE  /\ IsSeq(ss[k])
               /\ \A j \in DOMAIN ss[k] : ss[k][j][1] = Node("mux", m, k)
    <3>1. PICK node \in Streams(graph, "mux") : node = Node("mux", m, k)
      BY <2>1, NodeForms
    <3>2. PICK pre : pre = mux.pre[node] /\ IsSeq(pre)
      BY DEF MuxInv
    <3>3. PICK keep : keep = {j \in DOMAIN pre : pre[j].k # "eof"}
      OBVIOUS
    <3>4. PICK e : e = Kept(pre, keep)
      OBVIOUS
    <3>5. early(k) = e
      BY <3>1, <3>2, <3>3, <3>4
    <3>6. PICK l \in Nat : DOMAIN e = 1 .. l
      BY <3>2, <3>4, KeptSeq, SeqDomain
    <3>7. ss[k] = [j \in 1 .. l |-> <<node, e[j]>>]
      BY <2>2, <3>1, <3>5, <3>6
    <3>8. IsSeq(ss[k]) /\ DOMAIN ss[k] = 1 .. l
      BY <3>7, ListSeq
    <3>9. \A j \in 1 .. l : ss[k][j] = <<node, e[j]>>
      BY <3>7
    <3>. QED  BY <3>1, <3>8, <3>9
  <2>7. PICK f : f = FlattenSeq(ss)
    OBVIOUS
  <2>8. IsSeq(f) /\ Drawn(ss, f) # {}
    BY <2>5, <2>6, <2>7, FlatSeq
  <2>9. PICK p \in Drawn(ss, f) : TRUE
    BY <2>8
  <2>10. \A x \in DOMAIN f : /\ p[x][1] \in DOMAIN ss /\ p[x][2] \in DOMAIN ss[p[x][1]]
                             /\ f[x] = ss[p[x][1]][p[x][2]]
    BY <2>9 DEF Drawn
  <2>11. ASSUME NEW x \in DOMAIN f PROVE f[x][1] \in Sinks(graph) /\ Queue(f[x][1]) = t /\ f[x][1][1] = "mux"
    <3>1. PICK k \in 1 .. n : f[x][1] = Node("mux", m, k)
      BY <2>5, <2>6, <2>10
    <3>2. PICK node : node = Node("mux", m, k)
      OBVIOUS
    <3>3. node \in Sinks(graph) /\ node[1] = "mux" /\ node[2] = m
      BY <2>1, <3>2, NodeForms DEF Node
    <3>. QED  BY <2>4, <3>1, <3>2, <3>3 DEF Queue
  <2>12. IsQueue(graph, t, f)
    BY <2>8, <2>11 DEF IsQueue
  <2>13. QueueInv'
    BY <2>3, <2>4, <2>7, <2>12, QueueStep
  <2>14. \A d \in ended : d[1] = "mux" /\ <<SrcOf(graph, d), d>> \in dst_finished
    <3>1. ASSUME NEW d \in ended PROVE d \in Streams(graph, "mux") /\ d[1] = "mux"
      <4>1. d \in {Node("mux", m, k) : k \in 1 .. graph.mux[m]}
        BY <1>1 DEF QueueStreams
      <4>. QED  BY <4>1, NodeForms DEF Node
    <3>. QED  BY <1>1, <3>1 DEF MuxInv
  <2>15. closed' = [send |-> closed.send \cup ended, recv |-> closed.recv]
    BY <2>3, ClosedForm
  <2>16. EndInv'
    BY <2>14, <2>15, EndStep
  <2>17. ASSUME NEW j \in graph.synced PROVE Node("enc", j, 1) \notin ended
    BY <2>14 DEF Node
  <2>18. SyncInv'
    BY <2>15, <2>17, SyncStep
  <2>19. MuxInv' /\ mux'.done = mux.done
    <3>1. DOMAIN mux' = DOMAIN mux /\ mux'.pre = mux.pre /\ mux'.done = mux.done
      BY <2>3 DEF MuxInv
    <3>. QED  BY <3>1 DEF MuxInv
  <2>. QED  BY <2>13, <2>16, <2>18, <2>19
<1>. QED  BY <1>2, <1>3

\* An element of a sequence.
LEMMA ElementOf ==
    ASSUME NEW S, NEW s \in Seq(S), NEW k \in DOMAIN s
    PROVE  s[k] \in S
OBVIOUS

\* The stream an encoder is for.
LEMMA EncoderMuxes ==
    ASSUME graph \in Graphs, NEW e \in Streams(graph, "enc"), NEW n,
           n = CHOOSE o \in Range(Dsts(graph, e)) : o[1] = "mux"
    PROVE  n \in Streams(graph, "mux") /\ n[2] \in DOMAIN graph.mux
<1>1. e \in Sources(graph)
  BY DEF Sources
<1>2. Dsts(graph, e) \in Seq(Sinks(graph))
  BY <1>1, GraphsAssumption DEF WellFormed, Dsts
<1>3. \E k \in DOMAIN Dsts(graph, e) : Dsts(graph, e)[k][1] = "mux"
  BY GraphsAssumption
<1>4. \E o \in Range(Dsts(graph, e)) : o[1] = "mux"
  BY <1>3 DEF Range
<1>5. n \in Range(Dsts(graph, e)) /\ n[1] = "mux"
  BY <1>4
<1>6. PICK k \in DOMAIN Dsts(graph, e) : n = Dsts(graph, e)[k]
  BY <1>5 DEF Range
<1>7. n \in Sinks(graph)
  <2>1. Dsts(graph, e)[k] \in Sinks(graph)
    BY <1>2, ElementOf
  <2>. QED  BY <1>6, <2>1
<1>. QED  BY <1>5, <1>7, SinkForms

\* OpenEncoder keeps the invariant.
LEMMA OpenEncoderKeeps ==
    ASSUME PipeInv, NEW t \in Tasks(graph), OpenEncoder(t)
    PROVE  PipeInv'
<1>0. TaskInv /\ CountInv /\ QueueInv /\ EndInv /\ SyncInv /\ MuxInv /\ RateInv /\ WellFormed(graph) /\ graph \in Graphs
  BY GraphForm DEF PipeInv
<1>1. /\ Doing(t, "send") /\ graph' = graph /\ UNCHANGED <<sched, choked, frozen, terminate>>
      /\ UNCHANGED <<dst_finished, reader, dec, flt, sync, asleep, main>>
  BY DEF OpenEncoder, chokingVars
<1>2. PICK c : c = Head(task[t].todo)
  OBVIOUS
<1>3. task[t].todo # <<>> /\ c.op = "send" /\ IsCall(graph, t, c)
  BY <1>0, <1>1, <1>2, CallForm
<1>4. c.dst \in Sinks(graph) /\ c.dst[1] = "enc"
  BY <1>2, <1>3 DEF IsCall, Link, OpenEncoder
<1>5. PICK e \in Streams(graph, "enc") : e = c.dst
  BY <1>4, SinkForms
<1>6. PICK now : now = opened'
  OBVIOUS
<1>7. PICK n : n = CHOOSE o \in Range(Dsts(graph, e)) : o[1] = "mux"
  OBVIOUS
<1>8. PICK m \in DOMAIN graph.mux : m = n[2]
  BY <1>0, <1>7, EncoderMuxes
<1>9. Start(m, now)
  BY <1>2, <1>5, <1>6, <1>7, <1>8 DEF OpenEncoder
<1>10. opened' = opened \cup {e} /\ (Done(t) \/ UNCHANGED task)
  BY <1>2, <1>5 DEF OpenEncoder
<1>11. QueueInv' /\ EndInv' /\ SyncInv' /\ MuxInv' /\ mux'.done = mux.done
  BY <1>0, <1>1, <1>9, StartStep
<1>12. RateInv'
  BY <1>0, <1>1, <1>10 DEF RateInv
<1>13. TaskInv' /\ CountInv'
  <2>1. CASE Done(t)
    BY <1>0, <1>1, <1>2, <1>3, <1>11, <2>1, DoneStep
  <2>2. CASE UNCHANGED task
    BY <1>0, <1>1, <1>11, <2>2, TaskStays
  <2>. QED  BY <1>10, <2>1, <2>2
<1>14. NoNewSend
  BY <1>0, <1>1, <1>10, PcStep
<1>. QED  BY <1>1, <1>11, <1>12, <1>13, <1>14, Rest

-----------------------------------------------------------------------------
(* The sync queue                                                          *)

SyncShape(g, y) ==
    /\ DOMAIN y = {"owner", "finished", "end", "head", "buf"}
    /\ y.finished \subseteq g.synced
    /\ DOMAIN y.buf = g.synced
    /\ \A j \in g.synced : IsMedia(y.buf[j])

\* Streams that end leave the frames that wait.
LEMMA FinishForm ==
    ASSUME NEW y, SyncShape(graph, y), NEW j \in graph.synced, NEW z, z = SyncFinish(y, j)
    PROVE  SyncShape(graph, z) /\ y.finished \subseteq z.finished /\ z.buf = y.buf /\ z.head = y.head
<1>1. CASE j \in graph.limiting /\ y.head[j] # 0
  <2>1. PICK end : end = Min({y.head[j]} \cup y.end)
    OBVIOUS
  <2>2. PICK ahead : ahead = {k \in graph.synced : y.head[k] >= end}
    OBVIOUS
  <2>3. z = [y EXCEPT !.end = {end}, !.finished = @ \cup {j} \cup ahead]
    BY <1>1, <2>1, <2>2 DEF SyncFinish
  <2>4. ahead \subseteq graph.synced
    BY <2>2
  <2>5. /\ DOMAIN z = DOMAIN y /\ z.finished = y.finished \cup {j} \cup ahead
        /\ z.buf = y.buf /\ z.head = y.head
    BY <2>3 DEF SyncShape
  <2>. QED  BY <2>4, <2>5 DEF SyncShape
<1>2. CASE ~ (j \in graph.limiting /\ y.head[j] # 0)
  <2>1. z = [y EXCEPT !.finished = @ \cup {j}]
    BY <1>2 DEF SyncFinish
  <2>2. DOMAIN z = DOMAIN y /\ z.finished = y.finished \cup {j} /\ z.buf = y.buf /\ z.head = y.head
    BY <2>1 DEF SyncShape
  <2>. QED  BY <2>2 DEF SyncShape
<1>. QED  BY <1>1, <1>2

\* A frame behind frames.
LEMMA AppendMedia ==
    ASSUME NEW s, IsMedia(s), NEW item, item.k # "eof"
    PROVE  IsMedia(Append(s, item))
<1>1. PICK r : r = Append(s, item)
  OBVIOUS
<1>2. PICK l \in Nat : l = Len(s) /\ DOMAIN s = 1 .. l
  BY SeqDomain DEF IsMedia
<1>3. /\ IsSeq(r) /\ DOMAIN r = 1 .. l + 1
      /\ \A i \in 1 .. l : r[i] = s[i]
      /\ r[l + 1] = item
  BY <1>1, <1>2, AppendSeq DEF IsMedia
<1>4. ASSUME NEW i \in 1 .. l + 1 PROVE r[i].k # "eof"
  <2>1. CASE i \in 1 .. l
    BY <1>2, <1>3, <2>1 DEF IsMedia
  <2>2. CASE i = l + 1
    BY <1>3, <2>2
  <2>. QED  BY <2>1, <2>2
<1>. QED  BY <1>1, <1>3, <1>4 DEF IsMedia

\* Frames behind a frame.
LEMMA TailMedia ==
    ASSUME NEW s, IsMedia(s), s # <<>>
    PROVE  IsMedia(Tail(s)) /\ Head(s).k # "eof"
BY TailSeq DEF IsMedia

\* A frame that is taken waits; it may end streams.
LEMMA TakeForm ==
    ASSUME NEW y, SyncShape(graph, y), NEW j \in graph.synced, NEW item, item.k # "eof",
           NEW z, z = SyncTake(y, j, item)
    PROVE  SyncShape(graph, z)
<1>1. PICK h : h = Max({y.head[j], item.ts + 1})
  OBVIOUS
<1>2. PICK b : b = Append(y.buf[j], item)
  OBVIOUS
<1>3. IsMedia(b)
  BY <1>2, AppendMedia DEF SyncShape
<1>4. PICK x : x = [y EXCEPT !.head[j] = h, !.buf[j] = b]
  OBVIOUS
<1>5. z = (IF \E end \in x.end : x.head[j] >= end THEN SyncFinish(x, j) ELSE x)
  BY <1>1, <1>2, <1>4 DEF SyncTake
<1>6. DOMAIN x = DOMAIN y /\ x.finished = y.finished /\ x.buf = [y.buf EXCEPT ![j] = b]
  BY <1>4 DEF SyncShape
<1>7. SyncShape(graph, x)
  <2>1. DOMAIN x.buf = graph.synced
    BY <1>6 DEF SyncShape
  <2>2. ASSUME NEW k \in graph.synced PROVE IsMedia(x.buf[k])
    <3>1. CASE k = j
      BY <1>3, <1>6, <3>1 DEF SyncShape
    <3>2. CASE k # j
      BY <1>6, <3>2 DEF SyncShape
    <3>. QED  BY <3>1, <3>2
  <2>. QED  BY <1>6, <2>1, <2>2 DEF SyncShape
<1>8. SyncShape(graph, SyncFinish(x, j))
  BY <1>7, FinishForm
<1>. QED  BY <1>5, <1>7, <1>8

\* A frame that goes on.
LEMMA HandForm ==
    ASSUME NEW y, SyncShape(graph, y), NEW j \in graph.synced, y.buf[j] # <<>>,
           NEW z, z = [y EXCEPT !.buf[j] = Tail(@)]
    PROVE  SyncShape(graph, z)
<1>1. PICK b : b = Tail(y.buf[j])
  OBVIOUS
<1>2. IsMedia(b)
  BY <1>1, TailMedia DEF SyncShape
<1>3. z = [y EXCEPT !.buf[j] = b]
  BY <1>1
<1>4. DOMAIN z = DOMAIN y /\ z.finished = y.finished /\ z.buf = [y.buf EXCEPT ![j] = b]
  BY <1>3 DEF SyncShape
<1>5. DOMAIN z.buf = graph.synced
  BY <1>4 DEF SyncShape
<1>6. ASSUME NEW k \in graph.synced PROVE IsMedia(z.buf[k])
  <2>1. CASE k = j
    BY <1>2, <1>4, <2>1 DEF SyncShape
  <2>2. CASE k # j
    BY <1>4, <2>2 DEF SyncShape
  <2>. QED  BY <2>1, <2>2
<1>. QED  BY <1>4, <1>5, <1>6 DEF SyncShape

\* The lock goes to a task.
LEMMA OwnerForm ==
    ASSUME NEW y, SyncShape(graph, y), NEW o, NEW z, z = [y EXCEPT !.owner = o]
    PROVE  SyncShape(graph, z) /\ z.finished = y.finished /\ z.buf = y.buf /\ z.head = y.head
BY DEF SyncShape

\* The sync queue changes; closed encoders have got all that is theirs.
LEMMA SyncChange ==
    ASSUME graph' = graph, NEW z, sync' = z, SyncShape(graph, z),
           \A j \in graph.synced : Node("enc", j, 1) \in closed'.send =>
              \/ Node("enc", j, 1) \in closed'.recv
              \/ z.finished = graph.synced /\ \A l \in graph.synced : ~ SyncReady(z, l)
    PROVE  SyncInv'
BY DEF SyncInv, SyncShape, SyncReady

\* While a stream goes on, or has a frame to give, an encoder that is finished wants no more.
LEMMA SyncOpen ==
    ASSUME SyncInv, NEW l \in graph.synced, l \notin sync.finished \/ SyncReady(sync, l),
           NEW j \in graph.synced, Node("enc", j, 1) \in closed.send
    PROVE  Node("enc", j, 1) \in closed.recv
BY DEF SyncInv

\* An encoder of the sync queue.
LEMMA SyncedForm ==
    ASSUME NEW n \in Sinks(graph), Synced(n)
    PROVE  n[2] \in graph.synced /\ n = Node("enc", n[2], 1)
BY SinkForms DEF Synced, Node

\* SyncSend keeps the invariant.
LEMMA SyncSendKeeps ==
    ASSUME PipeInv, NEW t \in Tasks(graph), SyncSend(t)
    PROVE  PipeInv'
<1>0. TaskInv /\ CountInv /\ SyncInv /\ FltInv
  BY DEF PipeInv
<1>1. /\ Doing(t, "send") /\ graph' = graph /\ UNCHANGED <<sched, choked, frozen, terminate>>
      /\ UNCHANGED <<q, closed, dst_finished, reader, dec, opened, mux, asleep, main>>
  BY DEF SyncSend, chokingVars
<1>2. PICK td : td = task[t].todo
  OBVIOUS
<1>3. PICK c : c = Head(td)
  OBVIOUS
<1>4. td # <<>> /\ c.op = "send" /\ IsCall(graph, t, c) /\ Fresh(dst_finished, Tail(td))
  BY <1>0, <1>1, <1>2, <1>3, CallForm
<1>5. Link(graph, t, c) /\ (c.dst[1] \in {"mux", "enc"} => c.item.k # "eof") /\ c = Send(c.src, c.dst, c.item)
  BY <1>4 DEF IsCall
<1>6. c.dst \in Sinks(graph) /\ Synced(c.dst) /\ t[1] # "mux"
  <2>1. t[1] # "mux" /\ c.dst \in Sinks(graph)
    BY <1>5, OwnerIsTask DEF Link
  <2>. QED  BY <1>2, <1>3, <2>1 DEF SyncSend
<1>7. PICK j \in graph.synced : j = c.dst[2] /\ c.dst = Node("enc", j, 1)
  BY <1>6, SyncedForm
<1>8. CASE j \in sync.finished
  <2>1. TurnAway(t, c.src, c.dst) /\ UNCHANGED <<sync, flt>>
    BY <1>2, <1>3, <1>7, <1>8 DEF SyncSend
  <2>2. TaskInv' /\ CountInv'
    BY <1>0, <1>1, <1>2, <1>3, <1>4, <1>5, <2>1, TurnStep
  <2>3. NoNewSend
    BY <1>0, <1>1, <2>1, PcStep
  <2>. QED  BY <1>1, <2>1, <2>2, <2>3, Rest
<1>9. CASE j \notin sync.finished
  <2>1. PICK e : e = [c EXCEPT !.op = "sync"]
    OBVIOUS
  <2>2. PICK ops : ops = <<e>>
    OBVIOUS
  <2>3. /\ sync' = [SyncTake(sync, j, c.item) EXCEPT !.owner = {t}]
        /\ Replace(t, ops) /\ flt' = [flt EXCEPT ![t[2]].got_frame = TRUE]
    BY <1>2, <1>3, <1>7, <1>9, <2>1, <2>2 DEF SyncSend
  <2>4. e.op = "sync" /\ e.src = c.src /\ e.dst = c.dst
    BY <1>5, <2>1 DEF Send
  <2>5. IsCall(graph, t, e)
    <3>1. Link(graph, t, e)
      BY <1>5, <2>4 DEF Link
    <3>2. SyncedIn(graph, e.dst)
      BY <1>6, <2>4 DEF Synced, SyncedIn
    <3>. QED  BY <2>4, <3>1, <3>2 DEF IsCall
  <2>6. Quiet(graph, t, ops) /\ \A i \in DOMAIN ops : ops[i].op \notin {"close", "close_output"}
    <3>1. Quiet(graph, t, ops) /\ DOMAIN ops = {1} /\ ops[1] = e
      BY <2>2, <2>4, <2>5, OneQuiet, OneSeq
    <3>. QED  BY <2>4, <3>1
  <2>7. Fresh(dst_finished', Tail(td)) /\ \A p \in dst_finished' : p \in dst_finished \/ Owner(p[1]) = t
    BY <1>1, <1>4
  <2>8. TaskInv' /\ CountInv' /\ NoNewSend
    <3>1. mux'.done = mux.done
      BY <1>1
    <3>. QED  BY <1>0, <1>1, <1>2, <1>4, <1>6, <2>3, <2>6, <2>7, <3>1, ReplaceCalls
  <2>9. PICK y : y = sync
    OBVIOUS
  <2>10. SyncShape(graph, y)
    BY <1>0, <2>9 DEF SyncInv, SyncShape
  <2>11. PICK item : item = c.item /\ item.k # "eof"
    BY <1>5, <1>7 DEF Node
  <2>12. PICK x : x = SyncTake(y, j, item)
    OBVIOUS
  <2>13. SyncShape(graph, x)
    BY <2>10, <2>11, <2>12, TakeForm
  <2>14. PICK z : z = [x EXCEPT !.owner = {t}]
    OBVIOUS
  <2>15. sync' = z /\ SyncShape(graph, z)
    BY <2>3, <2>9, <2>11, <2>12, <2>13, <2>14, OwnerForm
  <2>16. \A k \in graph.synced : Node("enc", k, 1) \in closed'.send => Node("enc", k, 1) \in closed'.recv
    BY <1>0, <1>1, <1>9, SyncOpen
  <2>17. SyncInv'
    BY <1>1, <2>15, <2>16, SyncChange
  <2>18. FltInv'
    BY <1>0, <1>1, <2>3, GotFrame
  <2>. QED  BY <1>1, <2>8, <2>17, <2>18, Rest
<1>. QED  BY <1>8, <1>9

\* The end of a stream: the muxed stream first, then the queue.
LEMMA SyncCloseKeeps ==
    ASSUME PipeInv, NEW t \in Tasks(graph), SyncClose(t)
    PROVE  PipeInv'
<1>0. TaskInv /\ CountInv /\ EndInv /\ SyncInv /\ MuxInv /\ graph \in Graphs
  BY GraphForm DEF PipeInv
<1>1. /\ graph' = graph /\ UNCHANGED <<sched, choked, frozen, terminate>>
      /\ UNCHANGED <<q, closed, reader, dec, flt, opened, mux, asleep, main>>
  BY DEF SyncClose, chokingVars
<1>2. PICK td : td = task[t].todo
  OBVIOUS
<1>3. PICK c : c = Head(td)
  OBVIOUS
<1>4. CASE Doing(t, "close")
  <2>1. /\ td # <<>> /\ c.op = "close" /\ IsCall(graph, t, c)
        /\ Fresh(dst_finished, Tail(td)) /\ \A i \in DOMAIN Tail(td) : Follows(c, Tail(td)[i])
    BY <1>0, <1>2, <1>3, <1>4, CallForm
  <2>2. PICK n : n = CHOOSE o \in Range(Dsts(graph, c.dst)) : o[1] = "mux"
    OBVIOUS
  <2>3. PICK b : b = [c EXCEPT !.op = "sync_close"]
    OBVIOUS
  <2>4. PICK a : a = Call("source_finished", n)
    OBVIOUS
  <2>5. PICK ops : ops = <<a, b>>
    OBVIOUS
  <2>6. Head(task[t].todo).op # "sync_close"
    BY <1>2, <1>3, <2>1
  <2>7. /\ Synced(c.dst) /\ sync' = sync
        /\ dst_finished' = dst_finished \cup {<<c.src, c.dst>>} /\ Replace(t, ops)
    BY <1>2, <1>3, <2>2, <2>3, <2>4, <2>5, <2>6 DEF SyncClose, Doing
  <2>8. Link(graph, t, c) /\ c = [op |-> c.op, src |-> c.src, dst |-> c.dst]
    BY <2>1 DEF IsCall
  <2>9. c.dst \in Sinks(graph) /\ Owner(c.src) = t /\ t[1] # "mux" /\ graph.src[c.dst] = c.src
    BY <2>8, OwnerIsTask DEF Link
  <2>10. PICK e \in Streams(graph, "enc") : e = c.dst
    BY <2>7, <2>9, SinkForms DEF Synced
  <2>11. n \in Streams(graph, "mux")
    BY <1>0, <2>2, <2>10, EncoderMuxes
  <2>12. IsCall(graph, t, a) /\ a.op = "source_finished"
    BY <2>4, <2>11 DEF IsCall, Call
  <2>13. b.op = "sync_close" /\ b.src = c.src /\ b.dst = c.dst /\ b = [op |-> b.op, src |-> b.src, dst |-> b.dst]
    BY <2>3, <2>8
  <2>14. IsCall(graph, t, b)
    <3>1. Link(graph, t, b)
      BY <2>8, <2>13 DEF Link
    <3>2. SyncedIn(graph, b.dst)
      BY <2>7, <2>13 DEF Synced, SyncedIn
    <3>. QED  BY <2>13, <3>1, <3>2 DEF IsCall
  <2>15. Quiet(graph, t, ops) /\ \A i \in DOMAIN ops : ops[i].op \notin {"close", "close_output"}
    <3>1. Quiet(graph, t, ops)
      BY <2>5, <2>12, <2>13, <2>14, TwoQuiet
    <3>2. DOMAIN ops = {1, 2} /\ ops[1] = a /\ ops[2] = b
      BY <2>5, TwoSeq
    <3>. QED  BY <2>12, <2>13, <3>1, <3>2
  <2>16. Fresh(dst_finished', Tail(td))
    <3>1. PICK fin : fin = dst_finished
      OBVIOUS
    <3>2. PICK r : r = Tail(td)
      OBVIOUS
    <3>3. Fresh(fin \cup {<<c.src, c.dst>>}, r)
      BY <2>1, <3>1, <3>2, StaysFresh
    <3>. QED  BY <2>7, <3>1, <3>2, <3>3
  <2>17. \A p \in dst_finished' : p \in dst_finished \/ Owner(p[1]) = t
    BY <2>7, <2>9
  <2>18. TaskInv' /\ CountInv' /\ NoNewSend
    <3>1. mux'.done = mux.done
      BY <1>1
    <3>. QED  BY <1>0, <1>1, <1>2, <2>1, <2>7, <2>9, <2>15, <2>16, <2>17, <3>1, ReplaceCalls
  <2>19. dst_finished \subseteq dst_finished'
    BY <2>7
  <2>20. MuxInv'
    BY <1>0, <1>1, <2>19, MuxStep
  <2>21. EndInv'
    BY <1>0, <1>1, <2>19 DEF EndInv
  <2>. QED  BY <1>1, <2>7, <2>18, <2>20, <2>21, Rest
<1>5. CASE Doing(t, "sync_close")
  <2>1. td # <<>> /\ c.op = "sync_close" /\ IsCall(graph, t, c) /\ Fresh(dst_finished, Tail(td))
    BY <1>0, <1>2, <1>3, <1>5, CallForm
  <2>2. PICK e : e = [c EXCEPT !.op = "sync"]
    OBVIOUS
  <2>3. PICK ops : ops = <<e>>
    OBVIOUS
  <2>4. Head(task[t].todo).op # "close"
    BY <1>2, <1>3, <2>1
  <2>5. /\ sync' = [SyncFinish(sync, c.dst[2]) EXCEPT !.owner = {t}] /\ Replace(t, ops)
        /\ dst_finished' = dst_finished
    BY <1>2, <1>3, <2>2, <2>3, <2>4 DEF SyncClose, Doing
  <2>6. Link(graph, t, c) /\ SyncedIn(graph, c.dst) /\ c = [op |-> c.op, src |-> c.src, dst |-> c.dst]
    BY <2>1 DEF IsCall
  <2>7. c.dst \in Sinks(graph) /\ t[1] # "mux"
    BY <2>6, OwnerIsTask DEF Link
  <2>8. PICK j \in graph.synced : j = c.dst[2]
    BY <2>6 DEF SyncedIn
  <2>9. e.op = "sync" /\ e.src = c.src /\ e.dst = c.dst
    BY <2>2, <2>6
  <2>10. IsCall(graph, t, e)
    <3>1. Link(graph, t, e)
      BY <2>6, <2>9 DEF Link
    <3>. QED  BY <2>6, <2>9, <3>1 DEF IsCall
  <2>11. Quiet(graph, t, ops) /\ \A i \in DOMAIN ops : ops[i].op \notin {"close", "close_output"}
    <3>1. Quiet(graph, t, ops) /\ DOMAIN ops = {1} /\ ops[1] = e
      BY <2>3, <2>9, <2>10, OneQuiet, OneSeq
    <3>. QED  BY <2>9, <3>1
  <2>12. Fresh(dst_finished', Tail(td)) /\ \A p \in dst_finished' : p \in dst_finished \/ Owner(p[1]) = t
    BY <2>1, <2>5
  <2>13. TaskInv' /\ CountInv' /\ NoNewSend
    <3>1. mux'.done = mux.done
      BY <1>1
    <3>. QED  BY <1>0, <1>1, <1>2, <2>1, <2>5, <2>7, <2>11, <2>12, <3>1, ReplaceCalls
  <2>14. PICK y : y = sync
    OBVIOUS
  <2>15. SyncShape(graph, y)
    BY <1>0, <2>14 DEF SyncInv, SyncShape
  <2>16. PICK x : x = SyncFinish(y, j)
    OBVIOUS
  <2>17. SyncShape(graph, x) /\ y.finished \subseteq x.finished /\ x.buf = y.buf /\ x.head = y.head
    BY <2>15, <2>16, FinishForm
  <2>18. PICK z : z = [x EXCEPT !.owner = {t}]
    OBVIOUS
  <2>19. sync' = z /\ SyncShape(graph, z) /\ z.finished = x.finished /\ z.buf = y.buf /\ z.head = y.head
    BY <2>5, <2>8, <2>14, <2>16, <2>17, <2>18, OwnerForm
  <2>20. ASSUME NEW k \in graph.synced, Node("enc", k, 1) \in closed'.send
         PROVE  \/ Node("enc", k, 1) \in closed'.recv
                \/ z.finished = graph.synced /\ \A l \in graph.synced : ~ SyncReady(z, l)
    <3>1. \/ Node("enc", k, 1) \in closed.recv
          \/ y.finished = graph.synced /\ \A l \in graph.synced : ~ SyncReady(y, l)
      BY <1>0, <1>1, <2>14, <2>20 DEF SyncInv
    <3>2. \A l \in graph.synced : SyncReady(z, l) = SyncReady(y, l)
      BY <2>19 DEF SyncReady
    <3>3. y.finished = graph.synced => z.finished = graph.synced
      BY <2>17, <2>19 DEF SyncShape
    <3>. QED  BY <1>1, <3>1, <3>2, <3>3
  <2>21. SyncInv'
    BY <1>1, <2>19, <2>20, SyncChange
  <2>. QED  BY <1>1, <2>5, <2>13, <2>21, Rest
<1>. QED  BY <1>4, <1>5 DEF SyncClose

\* A frame goes to its encoder, or the queue is left; at its end all encoders are closed.
LEMMA SyncHandKeeps ==
    ASSUME PipeInv, NEW t \in Tasks(graph), SyncHand(t)
    PROVE  PipeInv'
<1>0. TaskInv /\ CountInv /\ EndInv /\ SyncInv /\ QueueInv /\ graph \in Graphs /\ Sized(graph)
  BY GraphForm DEF PipeInv
<1>1. /\ Doing(t, "sync") /\ graph' = graph /\ UNCHANGED <<sched, choked, frozen, terminate>>
      /\ UNCHANGED <<dst_finished, reader, dec, flt, opened, mux, asleep, main>>
  BY DEF SyncHand, chokingVars
<1>2. PICK td : td = task[t].todo
  OBVIOUS
<1>3. PICK c : c = Head(td)
  OBVIOUS
<1>4. td # <<>> /\ c.op = "sync" /\ IsCall(graph, t, c)
  BY <1>0, <1>1, <1>2, <1>3, CallForm
<1>5. Link(graph, t, c) /\ mux'.done = mux.done
  BY <1>1, <1>4 DEF IsCall
<1>6. PICK ready : ready = {j \in graph.synced : SyncReady(sync, j)}
  OBVIOUS
<1>7. PICK y : y = sync
  OBVIOUS
<1>8. SyncShape(graph, y)
  BY <1>0, <1>7 DEF SyncInv, SyncShape
<1>9. CASE ready # {}
  <2>1. PICK j : j = Min(ready)
    OBVIOUS
  <2>2. j \in graph.synced /\ SyncReady(y, j) /\ j \in 1 .. graph.nb_enc
    <3>1. graph.synced \subseteq 1 .. graph.nb_enc
      BY <1>0, GraphsAssumption
    <3>2. ready \subseteq Nat
      BY <1>6, <3>1
    <3>3. j \in ready
      BY <1>9, <2>1, <3>2, LeastOf
    <3>. QED  BY <1>6, <1>7, <3>1, <3>3
  <2>3. PICK n \in Sinks(graph) : n = Node("enc", j, 1)
    BY <2>2, NodeForms
  <2>4. n[1] = "enc" /\ Queue(n) \in Tasks(graph)
    BY <1>0, <2>3, QueueForms DEF Node
  <2>5. PICK x : x = [y EXCEPT !.buf[j] = Tail(@)]
    OBVIOUS
  <2>6. y.buf[j] # <<>>
    BY <2>2 DEF SyncReady
  <2>7. SyncShape(graph, x)
    BY <1>8, <2>2, <2>5, <2>6, HandForm
  <2>8. PICK item : item = Head(y.buf[j])
    OBVIOUS
  <2>9. item.k # "eof"
    BY <1>8, <2>2, <2>6, <2>8, TailMedia DEF SyncShape
  <2>10. task' = task
    BY <1>6, <1>9 DEF SyncHand
  <2>11. TaskInv' /\ CountInv'
    BY <1>0, <1>1, <1>5, <2>10, TaskStays
  <2>12. NoNewSend
    BY <1>0, <1>1, <2>10, PcStep
  <2>13. \A k \in graph.synced : Node("enc", k, 1) \in closed.send => Node("enc", k, 1) \in closed.recv
    BY <1>0, <1>7, <2>2, SyncOpen
  <2>14. CASE n \in closed.recv
    <3>1. closed' = [closed EXCEPT !.send = @ \cup {n}] /\ sync' = SyncFinish(x, j) /\ q' = q
      BY <1>6, <1>7, <1>9, <2>1, <2>3, <2>5, <2>14 DEF SyncHand
    <3>2. closed' = [send |-> closed.send \cup {n}, recv |-> closed.recv]
      BY <1>0, <3>1, ClosedForm
    <3>3. EndInv'
      BY <1>0, <1>1, <2>14, <3>2, EndStep
    <3>4. PICK z : z = SyncFinish(x, j)
      OBVIOUS
    <3>5. SyncShape(graph, z) /\ sync' = z
      BY <2>2, <2>7, <3>1, <3>4, FinishForm
    <3>6. \A k \in graph.synced : Node("enc", k, 1) \in closed'.send => Node("enc", k, 1) \in closed'.recv
      BY <2>13, <2>14, <3>2
    <3>7. SyncInv'
      BY <1>1, <3>5, <3>6, SyncChange
    <3>. QED  BY <1>1, <2>11, <2>12, <3>1, <3>3, <3>7, Rest
  <2>15. CASE n \notin closed.recv
    <3>1. q' = [q EXCEPT ![Queue(n)] = Append(@, <<n, item>>)] /\ sync' = x /\ closed' = closed
      BY <1>6, <1>7, <1>9, <2>1, <2>3, <2>5, <2>8, <2>15 DEF SyncHand
    <3>2. QueueInv'
      BY <1>0, <1>1, <2>4, <2>9, <3>1, PutStep
    <3>3. SyncInv'
      BY <1>1, <2>7, <2>13, <3>1, SyncChange
    <3>. QED  BY <1>1, <2>11, <2>12, <3>1, <3>2, <3>3, Rest
  <2>. QED  BY <2>14, <2>15
<1>10. CASE ready = {}
  <2>1. PICK z : z = [y EXCEPT !.owner = {}]
    OBVIOUS
  <2>2. SyncShape(graph, z) /\ z.finished = y.finished /\ z.buf = y.buf /\ z.head = y.head
    BY <1>8, <2>1, OwnerForm
  <2>3. sync' = z /\ q' = q
    BY <1>6, <1>7, <1>10, <2>1 DEF SyncHand
  <2>4. \A l \in graph.synced : ~ SyncReady(y, l)
    BY <1>6, <1>7, <1>10
  <2>5. \A l \in graph.synced : ~ SyncReady(z, l)
    BY <2>2, <2>4 DEF SyncReady
  <2>6. Done(t) => TaskInv' /\ CountInv'
    BY <1>0, <1>1, <1>2, <1>3, <1>4, <1>5, DoneStep
  <2>7. TurnAway(t, c.src, c.dst) => TaskInv' /\ CountInv'
    BY <1>0, <1>1, <1>2, <1>3, <1>4, <1>5, TurnStep
  <2>8. Done(t) \/ TurnAway(t, c.src, c.dst)
    BY <1>2, <1>3, <1>6, <1>10 DEF SyncHand
  <2>9. NoNewSend
    BY <1>0, <1>1, <2>8, PcStep
  <2>10. CASE sync.finished = graph.synced
    <3>1. PICK all : all = {Node("enc", k, 1) : k \in graph.synced}
      OBVIOUS
    <3>2. closed' = [closed EXCEPT !.send = @ \cup all]
      BY <1>6, <1>10, <2>10, <3>1 DEF SyncHand
    <3>3. closed' = [send |-> closed.send \cup all, recv |-> closed.recv]
      BY <1>0, <3>2, ClosedForm
    <3>4. \A n \in all : SyncedIn(graph, n)
      BY <3>1 DEF SyncedIn, Node
    <3>5. EndInv'
      BY <1>0, <1>1, <3>3, <3>4, EndStep
    <3>6. SyncInv'
      BY <1>1, <1>7, <2>2, <2>3, <2>5, <2>10, SyncChange
    <3>. QED  BY <1>1, <2>3, <2>6, <2>7, <2>8, <2>9, <3>5, <3>6, Rest
  <2>11. CASE sync.finished # graph.synced
    <3>1. closed' = closed
      BY <1>6, <1>10, <2>11 DEF SyncHand
    <3>2. SyncInv'
      <4>1. \A k \in graph.synced : Node("enc", k, 1) \in closed'.send => Node("enc", k, 1) \in closed'.recv
        BY <1>0, <2>11, <3>1 DEF SyncInv
      <4>. QED  BY <1>1, <2>2, <2>3, <4>1, SyncChange
    <3>. QED  BY <1>1, <2>3, <2>6, <2>7, <2>8, <2>9, <3>1, <3>2, Rest
  <2>. QED  BY <2>10, <2>11
<1>. QED  BY <1>9, <1>10

-----------------------------------------------------------------------------
(* Tasks that wait, fail and end                                           *)

\* Whatever call a task makes, the invariant holds after it.
LEMMA CallKeeps ==
    ASSUME PipeInv, main.pc # "refused", NEW t \in Tasks(graph), TaskCall(t)
    PROVE  PipeInv'
BY OpenEncoderKeeps, SendItemKeeps, CloseInputKeeps, UpdateProgressKeeps, ReceiveFinishKeeps, QueueDoneKeeps,
   TaskExitedKeeps, TaskReportKeeps, SendFlushKeeps, AwaitEndTsKeeps, ChokeInputsKeeps, CloseOutputKeeps,
   SyncSendKeeps, SyncCloseKeeps, SyncHandKeeps DEF TaskCall

\* A task ends: it has not yet been counted.
LEMMA GoneStep ==
    ASSUME TaskInv, CountInv, WellFormed(graph), NEW t \in Tasks(graph), graph' = graph, mux'.done = mux.done,
           dst_finished' = dst_finished, t[1] = "mux" => task[t].pc # "gone",
           NEW report, Quiet(graph, t, report), NEW s, s = CleanUp(t) \/ s = CleanUp(t) \o report,
           Goto(t, "gone", s)
    PROVE  TaskInv' /\ CountInv' /\ NoNewSend
<1>1. PICK fin : fin = dst_finished
  OBVIOUS
<1>2. PICK u : u = CleanUp(t)
  OBVIOUS
<1>3. /\ IsTodo(graph, t, u) /\ Fresh(fin, u)
      /\ t[1] = "mux" => \E i \in DOMAIN u : u[i].op = "mux_done"
  BY <1>2, CleanUpTodo
<1>4. IsTodo(graph, t, report) /\ Fresh(fin, report)
  BY QuietTodo
<1>5. \A i \in DOMAIN u : \A j \in DOMAIN report : Follows(u[i], report[j])
  BY DEF Follows, Quiet
<1>6. IsTodo(graph, t, u \o report) /\ Fresh(fin, u \o report)
  BY <1>3, <1>4, <1>5, ConcatTodo
<1>7. DOMAIN u \subseteq DOMAIN (u \o report) /\ \A i \in DOMAIN u : (u \o report)[i] = u[i]
  <2>1. PICK l \in Nat : l = Len(u) /\ DOMAIN u = 1 .. l
    BY <1>3, SeqDomain DEF IsTodo
  <2>2. PICK k \in Nat : k = Len(report)
    BY <1>4, SeqDomain DEF IsTodo
  <2>3. DOMAIN (u \o report) = 1 .. l + k /\ \A i \in DOMAIN u : (u \o report)[i] = u[i]
    BY <1>3, <1>4, <2>1, <2>2, ConcatSeq DEF IsTodo
  <2>. QED  BY <2>1, <2>3
<1>8. /\ IsTodo(graph, t, s) /\ Fresh(dst_finished', s)
      /\ t[1] = "mux" => \E i \in DOMAIN s : s[i].op = "mux_done"
  <2>1. CASE s = u
    BY <1>1, <1>3, <2>1
  <2>2. CASE s = u \o report
    <3>1. t[1] = "mux" => \E i \in DOMAIN s : s[i].op = "mux_done"
      BY <1>3, <1>7, <2>2
    <3>. QED  BY <1>1, <1>6, <2>2, <3>1
  <2>. QED  BY <1>2, <2>1, <2>2
<1>9. task' = [task EXCEPT ![t] = [pc |-> "gone", todo |-> s]]
  BY DEF Goto
<1>10. t[1] = "mux" => ~ Counted(task[t]) /\ ~ Counted([pc |-> "gone", todo |-> s])
  BY <1>8 DEF Counted
<1>11. \A p \in dst_finished' : p \in dst_finished \/ Owner(p[1]) = t
  OBVIOUS
<1>12. TaskInv' /\ CountInv'
  <2>1. PICK pc : pc = "gone"
    OBVIOUS
  <2>2. /\ task' = [task EXCEPT ![t] = [pc |-> pc, todo |-> s]]
        /\ t[1] = "mux" => /\ \A i \in DOMAIN s : s[i].op = "mux_done" => pc = "gone"
                           /\ Counted([pc |-> pc, todo |-> s]) <=> Counted(task[t])
    BY <1>9, <1>10, <2>1
  <2>. QED  BY <1>8, <1>11, <2>2, TaskStep
<1>13. NoNewSend
  <2>1. "gone" # "send"
    OBVIOUS
  <2>. QED  BY <2>1, PcStep
<1>. QED  BY <1>12, <1>13

\* A failure is reported by one call, which sends nothing.
LEMMA ReportQuiet ==
    ASSUME NEW t
    PROVE  Quiet(graph, t, <<Call("failed", NoNode)>>)
BY CallAnywhere, OneQuiet

\* A task fails (Fail) and cleans up.
LEMMA FailKeeps ==
    ASSUME PipeInv, NEW t \in Tasks(graph), Fail(t)
    PROVE  PipeInv'
<1>0. TaskInv /\ CountInv /\ WellFormed(graph)
  BY GraphForm DEF PipeInv
<1>1. /\ graph' = graph /\ UNCHANGED <<sched, choked, frozen, terminate>>
      /\ UNCHANGED <<q, closed, dst_finished, reader, dec, flt, opened, sync, mux, asleep, main>>
      /\ Goto(t, "gone", CleanUp(t) \o <<Call("failed", NoNode)>>)
  BY DEF Fail, chokingVars
<1>2. t[1] = "mux" => task[t].pc # "gone"
  <2>1. CASE Doing(t, "send")
    <3>1. PICK c : c = Head(task[t].todo)
      OBVIOUS
    <3>2. c.op = "send" /\ IsCall(graph, t, c)
      BY <1>0, <2>1, <3>1, CallForm
    <3>3. c.src \in Sources(graph) /\ Owner(c.src) = t
      BY <3>2 DEF IsCall, Link
    <3>. QED  BY <3>3, OwnerIsTask
  <2>2. CASE ~ Doing(t, "send")
    BY <2>2 DEF Fail, Idle
  <2>. QED  BY <2>1, <2>2
<1>3. TaskInv' /\ CountInv' /\ NoNewSend
  <2>1. PICK report : report = <<Call("failed", NoNode)>>
    OBVIOUS
  <2>2. PICK s : s = CleanUp(t) \o report
    OBVIOUS
  <2>3. Quiet(graph, t, report)
    BY <2>1, ReportQuiet
  <2>4. Goto(t, "gone", s) /\ mux'.done = mux.done /\ dst_finished' = dst_finished
    BY <1>1, <2>1, <2>2
  <2>. QED  BY <1>0, <1>1, <1>2, <2>2, <2>3, <2>4, GoneStep
<1>. QED  BY <1>1, <1>3, Rest

\* A thread goes to sleep on its queue.
LEMMA FallAsleepKeeps ==
    ASSUME PipeInv, NEW t \in Tasks(graph), FallAsleep(t)
    PROVE  PipeInv'
<1>0. TaskInv /\ CountInv /\ RateInv
  BY DEF PipeInv
<1>1. /\ graph' = graph /\ UNCHANGED <<sched, choked, frozen, terminate>>
      /\ UNCHANGED <<q, closed, dst_finished, task, reader, dec, flt, opened, sync, mux, main>>
      /\ t \in choked /\ asleep' = asleep \cup {t}
  BY DEF FallAsleep, chokingVars
<1>2. RateInv'
  BY <1>0, <1>1 DEF RateInv
<1>3. TaskInv' /\ CountInv'
  BY <1>0, <1>1, TaskStays
<1>4. NoNewSend
  BY <1>0, <1>1, PcStep
<1>. QED  BY <1>1, <1>2, <1>3, <1>4, Rest

\* tq_receive drops what comes for a finished stream.
LEMMA DiscardKeeps ==
    ASSUME PipeInv, NEW t \in Tasks(graph), Discard(t)
    PROVE  PipeInv'
<1>0. TaskInv /\ CountInv /\ QueueInv
  BY DEF PipeInv
<1>1. /\ graph' = graph /\ UNCHANGED <<sched, choked, frozen, terminate>>
      /\ UNCHANGED <<closed, dst_finished, task, reader, dec, flt, opened, sync, mux, asleep, main>>
      /\ q' = [q EXCEPT ![t] = <<>>]
  BY DEF Discard, TqEmpty, chokingVars
<1>2. QueueInv'
  BY <1>0, <1>1, EmptyStep
<1>3. TaskInv' /\ CountInv'
  BY <1>0, <1>1, TaskStays
<1>4. NoNewSend
  BY <1>0, <1>1, PcStep
<1>. QED  BY <1>1, <1>2, <1>3, <1>4, Rest

\* A thread that is woken no longer sleeps.
LEMMA WokenStep ==
    ASSUME RateInv, UNCHANGED <<graph, sched, choked, frozen, opened>>, NEW t, NEW stop, Returns(t, stop)
    PROVE  RateInv'
<1>1. asleep' \subseteq asleep
  BY DEF Returns
<1>. QED  BY <1>1 DEF RateInv

-----------------------------------------------------------------------------
(* input_thread                                                            *)

\* A demuxer goes on at pc, with x for what it reads.
LEMMA DemuxStep ==
    ASSUME PipeInv, NEW d \in DOMAIN graph.demux, graph' = graph,
           NEW pc, NEW s, Goto(<<"demux", d>>, pc, s), IsTodo(graph, <<"demux", d>>, s), Fresh(dst_finished, s),
           NEW x, reader' = [reader EXCEPT ![d] = x], DOMAIN x = DOMAIN reader[d], x.pos \in Nat \ {0},
           (pc = "send" \/ x.rest # <<>>) => x.stream \in 1 .. graph.demux[d],
           RateInv' \/ asleep' = asleep,
           UNCHANGED <<sched, choked, frozen, q, closed, dst_finished, flt, opened, sync, mux, main>>
    PROVE  PipeInv'
<1>0. TaskInv /\ CountInv /\ ReaderInv
  BY DEF PipeInv
<1>1. PICK t \in Tasks(graph) : t = <<"demux", d>> /\ t[1] # "mux"
  <2>1. <<"demux", d>> \in Tasks(graph)
    BY TaskCases
  <2>. QED  BY <2>1
<1>2. TaskInv' /\ CountInv'
  <2>1. Goto(t, pc, s) /\ IsTodo(graph, t, s) /\ mux'.done = mux.done /\ dst_finished' = dst_finished
    BY <1>1
  <2>. QED  BY <1>0, <1>1, <2>1, GotoStep
<1>3. /\ task'[<<"demux", d>>].pc = pc
      /\ \A e \in DOMAIN graph.demux : e # d => task'[<<"demux", e>>].pc = task[<<"demux", e>>].pc
  <2>1. task' = [task EXCEPT ![<<"demux", d>>] = [pc |-> pc, todo |-> s]] /\ DOMAIN task = Tasks(graph)
    BY <1>0 DEF Goto, TaskInv
  <2>2. \A e \in DOMAIN graph.demux : <<"demux", e>> \in Tasks(graph)
    BY TaskCases
  <2>. QED  BY <2>1, <2>2
<1>4. ReaderInv'
  <2>1. DOMAIN reader' = DOMAIN graph.demux
    BY <1>0 DEF ReaderInv
  <2>2. \A e \in DOMAIN graph.demux : reader'[e] = IF e = d THEN x ELSE reader[e]
    BY <1>0 DEF ReaderInv
  <2>3. ASSUME NEW e \in DOMAIN graph.demux
        PROVE  /\ DOMAIN reader'[e] = {"pos", "stream", "rest", "sent", "finished", "nb_finished", "loop", "shift"}
               /\ reader'[e].pos \in Nat \ {0}
               /\ (task'[<<"demux", e>>].pc = "send" \/ reader'[e].rest # <<>>) => reader'[e].stream \in 1 .. graph.demux[e]
    <3>1. CASE e = d
      BY <1>0, <1>3, <2>2, <3>1 DEF ReaderInv
    <3>2. CASE e # d
      BY <1>0, <1>3, <2>2, <3>2 DEF ReaderInv
    <3>. QED  BY <3>1, <3>2
  <2>. QED  BY <2>1, <2>3 DEF ReaderInv
<1>. QED  BY <1>2, <1>4, Rest

\* DemuxNext keeps the invariant.
LEMMA DemuxNextKeeps ==
    ASSUME PipeInv, NEW d \in DOMAIN graph.demux, DemuxNext(d)
    PROVE  PipeInv'
<1>0. TaskInv /\ ReaderInv /\ graph \in Graphs
  BY GraphForm DEF PipeInv
<1>1. /\ graph' = graph /\ UNCHANGED <<sched, choked, frozen, terminate>>
      /\ UNCHANGED <<q, closed, dst_finished, dec, flt, opened, sync, mux, asleep, main>>
  BY DEF DemuxNext, chokingVars
<1>2. PICK r : r = reader[d]
  OBVIOUS
<1>3. /\ DOMAIN r = {"pos", "stream", "rest", "sent", "finished", "nb_finished", "loop", "shift"}
      /\ r.pos \in Nat \ {0}
      /\ r.rest # <<>> => r.stream \in 1 .. graph.demux[d]
  BY <1>0, <1>2 DEF ReaderInv
<1>4. PICK eof : eof = (r.sent /\ AllFinished(DemuxStream(d)))
  OBVIOUS
<1>5. PICK gone : gone = IF eof THEN r.finished \cup {r.stream} ELSE r.finished
  OBVIOUS
<1>6. PICK nb : nb = IF eof THEN r.nb_finished + 1 ELSE r.nb_finished
  OBVIOUS
<1>7. PICK left : left = {p \in r.pos .. Len(graph.script[d]) : graph.script[d][p][1] \notin gone}
  OBVIOUS
<1>8. PICK p : p = Min(left)
  OBVIOUS
<1>9. PICK done : done = [r EXCEPT !.sent = FALSE, !.finished = gone, !.nb_finished = nb]
  OBVIOUS
<1>10. DOMAIN done = DOMAIN r /\ done.pos = r.pos /\ done.stream = r.stream /\ done.rest = r.rest
  BY <1>3, <1>9
<1>11. PICK x, pc :
          /\ reader' = [reader EXCEPT ![d] = x] /\ Goto(<<"demux", d>>, pc, <<>>)
          /\ \/ x = done /\ (pc # "send" \/ r.rest # <<>>)
             \/ left # {} /\ x = [done EXCEPT !.pos = p + 1, !.stream = graph.script[d][p][1],
                                              !.rest = graph.script[d][p][2]]
  <2>1. done = [r EXCEPT !.sent = FALSE, !.finished = gone, !.nb_finished = IF eof THEN @ + 1 ELSE @]
    BY <1>6, <1>9
  <2>2. \/ reader' = [reader EXCEPT ![d] = done] /\ Goto(<<"demux", d>>, "over", <<>>)
        \/ r.rest # <<>> /\ reader' = [reader EXCEPT ![d] = done] /\ Goto(<<"demux", d>>, "send", <<>>)
        \/ /\ left # {} /\ Goto(<<"demux", d>>, "send", <<>>)
           /\ reader' = [reader EXCEPT ![d] = [done EXCEPT !.pos = p + 1, !.stream = graph.script[d][p][1],
                                                           !.rest = graph.script[d][p][2]]]
        \/ /\ reader' = [reader EXCEPT ![d] = done]
           /\ Goto(<<"demux", d>>, IF r.loop > 0 THEN "loop" ELSE "over", <<>>)
    BY <1>2, <1>4, <1>5, <1>7, <1>8, <2>1, ZenonT(60) DEF DemuxNext
  <2>3. "over" # "send" /\ "loop" # "send" /\ (IF r.loop > 0 THEN "loop" ELSE "over") # "send"
    OBVIOUS
  <2>. QED  BY <2>2, <2>3
<1>12. IsTodo(graph, <<"demux", d>>, <<>>) /\ Fresh(dst_finished, <<>>)
  <2>1. PICK fin : fin = dst_finished
    OBVIOUS
  <2>. QED  BY <2>1, NoTodo
<1>13. CASE x = done /\ (pc # "send" \/ r.rest # <<>>)
  <2>1. DOMAIN x = DOMAIN reader[d] /\ x.pos \in Nat \ {0} /\ ((pc = "send" \/ x.rest # <<>>) => x.stream \in 1 .. graph.demux[d])
    BY <1>2, <1>3, <1>10, <1>13
  <2>. QED  BY <1>1, <1>11, <1>12, <2>1, DemuxStep
<1>14. CASE left # {} /\ x = [done EXCEPT !.pos = p + 1, !.stream = graph.script[d][p][1], !.rest = graph.script[d][p][2]]
  <2>1. PICK script : script = graph.script[d]
    OBVIOUS
  <2>2. script \in Seq((1 .. graph.demux[d]) \X (Seq(Int) \ {<<>>}))
    BY <1>0, <2>1, GraphsAssumption
  <2>3. left \subseteq 1 .. Len(script) /\ left \subseteq Nat
    BY <1>3, <1>7, <2>1, <2>2
  <2>4. p \in 1 .. Len(script)
    BY <1>8, <1>14, <2>3, LeastOf
  <2>5. script[p] \in (1 .. graph.demux[d]) \X (Seq(Int) \ {<<>>})
    BY <2>2, <2>4
  <2>6. script[p][1] \in 1 .. graph.demux[d]
    BY <2>5
  <2>7. DOMAIN x = DOMAIN reader[d] /\ x.pos \in Nat \ {0} /\ x.stream \in 1 .. graph.demux[d]
    BY <1>2, <1>3, <1>10, <1>14, <2>1, <2>4, <2>6
  <2>. QED  BY <1>1, <1>11, <1>12, <2>7, DemuxStep
<1>. QED  BY <1>11, <1>13, <1>14

\* DemuxSend keeps the invariant.
LEMMA DemuxSendKeeps ==
    ASSUME PipeInv, NEW d \in DOMAIN graph.demux, DemuxSend(d)
    PROVE  PipeInv'
<1>0. TaskInv /\ CountInv /\ ReaderInv /\ RateInv /\ graph \in Graphs /\ WellFormed(graph)
  BY GraphForm DEF PipeInv
<1>1. /\ graph' = graph /\ UNCHANGED <<sched, choked, frozen, terminate>>
      /\ UNCHANGED <<q, closed, dst_finished, dec, flt, opened, sync, mux, main>>
  BY DEF DemuxSend, chokingVars
<1>2. PICK t \in Tasks(graph) : t = <<"demux", d>> /\ t[1] # "mux"
  <2>1. <<"demux", d>> \in Tasks(graph)
    BY TaskCases
  <2>. QED  BY <2>1
<1>3. RateInv'
  <2>1. PICK stop \in BOOLEAN : Returns(t, stop)
    BY <1>2 DEF DemuxSend
  <2>. QED  BY <1>0, <1>1, <2>1, WokenStep
<1>4. PICK fin : fin = dst_finished
  OBVIOUS
<1>5. CASE task[t].pc = "send" /\ reader' # reader
  <2>1. PICK r : r = reader[d]
    OBVIOUS
  <2>2. /\ DOMAIN r = {"pos", "stream", "rest", "sent", "finished", "nb_finished", "loop", "shift"}
        /\ r.pos \in Nat \ {0}
        /\ r.stream \in 1 .. graph.demux[d]
    BY <1>0, <1>2, <1>5, <2>1 DEF ReaderInv
  <2>3. PICK src : src = DemuxStream(d)
    OBVIOUS
  <2>4. PICK item : item = Item("data", r.rest[1] + r.shift, src)
    OBVIOUS
  <2>5. PICK x : x = [r EXCEPT !.rest = Tail(@), !.sent = TRUE]
    OBVIOUS
  <2>6. PICK calls : calls = SendAll(src, item)
    OBVIOUS
  <2>7. Goto(t, "next", calls) /\ reader' = [reader EXCEPT ![d] = x]
    BY <1>2, <1>5, <2>1, <2>3, <2>4, <2>5, <2>6 DEF DemuxSend
  <2>8. src \in Sources(graph) /\ Owner(src) = t
    BY <1>2, <2>1, <2>2, <2>3, NodeForms DEF DemuxStream, Owner, Node
  <2>9. item.k # "eof"
    BY <2>4 DEF Item
  <2>10. IsTodo(graph, t, calls) /\ Fresh(dst_finished, calls)
    BY <1>0, <2>6, <2>8, <2>9, SendAllTodo
  <2>11. DOMAIN x = DOMAIN r /\ x.pos = r.pos /\ x.stream = r.stream
    BY <2>2, <2>5
  <2>. QED  BY <1>1, <1>2, <1>3, <2>1, <2>2, <2>7, <2>10, <2>11, DemuxStep
<1>6. CASE ~ (task[t].pc = "send" /\ reader' # reader)
  <2>1. PICK pc, s : Goto(t, pc, s) /\ IsTodo(graph, t, s) /\ Fresh(fin, s) /\ pc # "send" /\ reader' = reader
    <3>1. CASE Goto(t, "over", <<>>) /\ UNCHANGED reader
      BY <3>1, NoTodo
    <3>2. CASE Goto(t, "flushed", FlushCalls(d)) /\ UNCHANGED reader
      <4>1. PICK s : s = FlushCalls(d)
        OBVIOUS
      <4>2. Quiet(graph, t, s)
        BY <1>0, <1>2, <4>1, FlushQuiet
      <4>3. IsTodo(graph, t, s) /\ Fresh(fin, s)
        BY <4>2, QuietTodo
      <4>4. "flushed" # "send"
        OBVIOUS
      <4>. QED  BY <3>2, <4>1, <4>3, <4>4
    <3>3. CASE /\ task[t].pc = "send"
               /\ Goto(t, "next", SendAll(DemuxStream(d), Item("data", reader[d].rest[1] + reader[d].shift, DemuxStream(d))))
      <4>0. task[t].pc = "send" /\ reader' = reader
        BY <1>6, <3>3
      <4>1. PICK r : r = reader[d]
        OBVIOUS
      <4>2. r.stream \in 1 .. graph.demux[d]
        BY <1>0, <1>2, <4>0, <4>1 DEF ReaderInv
      <4>3. PICK src : src = DemuxStream(d)
        OBVIOUS
      <4>4. PICK item : item = Item("data", r.rest[1] + r.shift, src)
        OBVIOUS
      <4>5. PICK calls : calls = SendAll(src, item)
        OBVIOUS
      <4>6. src \in Sources(graph) /\ Owner(src) = t
        BY <1>2, <4>1, <4>2, <4>3, NodeForms DEF DemuxStream, Owner, Node
      <4>7. item.k # "eof"
        BY <4>4 DEF Item
      <4>8. IsTodo(graph, t, calls) /\ Fresh(fin, calls)
        BY <1>0, <1>4, <4>5, <4>6, <4>7, SendAllTodo
      <4>9. Goto(t, "next", calls) /\ "next" # "send"
        BY <3>3, <4>1, <4>3, <4>4, <4>5
      <4>. QED  BY <4>0, <4>8, <4>9
    <3>. QED  BY <1>2, <3>1, <3>2, <3>3 DEF DemuxSend
  <2>2. TaskInv' /\ CountInv'
    <3>1. Fresh(dst_finished, s) /\ mux'.done = mux.done /\ dst_finished' = dst_finished
      BY <1>1, <1>4, <2>1
    <3>. QED  BY <1>0, <1>1, <1>2, <2>1, <3>1, GotoStep
  <2>3. NoNewSend
    BY <1>0, <1>1, <2>1, PcStep
  <2>. QED  BY <1>1, <1>3, <2>1, <2>2, <2>3, Rest
<1>. QED  BY <1>5, <1>6

\* DemuxLoop keeps the invariant.
LEMMA DemuxLoopKeeps ==
    ASSUME PipeInv, NEW d \in DOMAIN graph.demux, DemuxLoop(d)
    PROVE  PipeInv'
<1>0. TaskInv /\ ReaderInv
  BY DEF PipeInv
<1>1. /\ graph' = graph /\ UNCHANGED <<sched, choked, frozen, terminate>>
      /\ UNCHANGED <<q, closed, dst_finished, dec, flt, opened, sync, mux, asleep, main>>
      /\ Goto(<<"demux", d>>, "next", <<>>)
  BY DEF DemuxLoop, chokingVars
<1>2. PICK r : r = reader[d]
  OBVIOUS
<1>3. /\ DOMAIN r = {"pos", "stream", "rest", "sent", "finished", "nb_finished", "loop", "shift"}
      /\ r.rest # <<>> => r.stream \in 1 .. graph.demux[d]
  BY <1>0, <1>2 DEF ReaderInv
<1>4. PICK x : x = [r EXCEPT !.pos = 1, !.loop = @ - 1, !.shift = @ + graph.period]
  OBVIOUS
<1>5. reader' = [reader EXCEPT ![d] = x]
  BY <1>2, <1>4 DEF DemuxLoop
<1>6. DOMAIN x = DOMAIN reader[d] /\ x.pos \in Nat \ {0} /\ x.rest = r.rest /\ x.stream = r.stream
  BY <1>2, <1>3, <1>4
<1>7. IsTodo(graph, <<"demux", d>>, <<>>) /\ Fresh(dst_finished, <<>>)
  <2>1. PICK fin : fin = dst_finished
    OBVIOUS
  <2>. QED  BY <2>1, NoTodo
<1>8. ("next" = "send" \/ x.rest # <<>>) => x.stream \in 1 .. graph.demux[d]
  BY <1>3, <1>6
<1>. QED  BY <1>1, <1>5, <1>6, <1>7, <1>8, DemuxStep

\* A thread comes to its end of itself.
LEMMA LeaveKeeps ==
    ASSUME PipeInv, NEW t \in Tasks(graph), t[1] # "mux", graph' = graph, Goto(t, "gone", CleanUp(t)),
           UNCHANGED <<sched, choked, frozen>>,
           UNCHANGED <<q, closed, dst_finished, reader, dec, flt, opened, sync, mux, asleep, main>>
    PROVE  PipeInv'
<1>0. TaskInv /\ CountInv /\ WellFormed(graph)
  BY GraphForm DEF PipeInv
<1>1. PICK report : report = <<>>
  OBVIOUS
<1>2. Quiet(graph, t, report)
  BY <1>1, NoQuiet
<1>3. PICK s : s = CleanUp(t)
  OBVIOUS
<1>4. TaskInv' /\ CountInv' /\ NoNewSend
  <2>1. Goto(t, "gone", s) /\ mux'.done = mux.done
    BY <1>3
  <2>. QED  BY <1>0, <1>2, <1>3, <2>1, GoneStep
<1>. QED  BY <1>4, Rest

\* DemuxDone keeps the invariant.
LEMMA DemuxDoneKeeps ==
    ASSUME PipeInv, NEW d \in DOMAIN graph.demux, DemuxDone(d)
    PROVE  PipeInv'
<1>1. PICK t \in Tasks(graph) : t = <<"demux", d>> /\ t[1] # "mux"
  <2>1. <<"demux", d>> \in Tasks(graph)
    BY TaskCases
  <2>. QED  BY <2>1
<1>. QED  BY <1>1, LeaveKeeps DEF DemuxDone, chokingVars

-----------------------------------------------------------------------------
(* decoder_thread and encoder_thread                                       *)

\* A thread goes on at pc with what it then has to do.
LEMMA GoesOn ==
    ASSUME PipeInv, NEW t \in Tasks(graph), t[1] \notin {"mux", "demux"}, graph' = graph,
           NEW pc, NEW s, Goto(t, pc, s), IsTodo(graph, t, s), Fresh(dst_finished, s),
           UNCHANGED <<dst_finished, reader, sync, mux, main>>,
           QueueInv' \/ q' = q,
           RateInv' \/ UNCHANGED <<sched, choked, frozen, asleep, opened>>,
           FltInv' \/ flt' = flt,
           (EndInv' /\ SyncInv') \/ closed' = closed
    PROVE  PipeInv'
<1>0. TaskInv /\ CountInv
  BY DEF PipeInv
<1>1. TaskInv' /\ CountInv'
  <2>1. mux'.done = mux.done
    OBVIOUS
  <2>. QED  BY <1>0, <2>1, GotoStep
<1>2. NoNewSend
  BY <1>0, PcStep
<1>. QED  BY <1>1, <1>2, Rest

\* A task with nothing to do.
LEMMA NothingTodo ==
    ASSUME NEW t
    PROVE  IsTodo(graph, t, <<>>) /\ Fresh(dst_finished, <<>>)
<1>1. PICK fin : fin = dst_finished
  OBVIOUS
<1>. QED  BY <1>1, NoTodo

\* A decoder is a task.
LEMMA DecTask ==
    ASSUME NEW i \in 1 .. graph.nb_dec
    PROVE  <<"dec", i>> \in Tasks(graph) /\ <<"dec", i>>[1] \notin {"mux", "demux"}
<1>1. <<"dec", i>> \in Tasks(graph)
  BY TaskCases
<1>. QED  BY <1>1

\* A decoder sends what it has to all that still take it.
LEMMA DecodeForm ==
    ASSUME graph \in Graphs, NEW i \in 1 .. graph.nb_dec, NEW item, NEW d, Decode(i, item, d)
    PROVE  \E pc, s : Goto(<<"dec", i>>, pc, s) /\ IsTodo(graph, <<"dec", i>>, s) /\ Fresh(dst_finished, s)
<1>1. PICK t : t = <<"dec", i>>
  OBVIOUS
<1>2. PICK src : src = DecOut(i)
  OBVIOUS
<1>3. src \in Sources(graph) /\ Owner(src) = t /\ src[1] = "dec"
  BY <1>1, <1>2, NodeForms DEF DecOut, Owner, Node
<1>4. PICK a : a = SendAll(src, EofItem)
  OBVIOUS
<1>5. PICK b : b = SendAll(src, item)
  OBVIOUS
<1>6. IsTodo(graph, t, a) /\ Fresh(dst_finished, a)
  <2>1. PICK e : e = EofItem
    OBVIOUS
  <2>2. a = SendAll(src, e)
    BY <1>4, <2>1
  <2>. QED  BY <1>3, <2>2, SendAllTodo
<1>7. IsTodo(graph, t, b) /\ Fresh(dst_finished, b)
  BY <1>3, <1>5, SendAllTodo
<1>8. \/ Goto(t, "receive", <<>>) \/ Goto(t, "over", a) \/ Goto(t, "over", <<>>) \/ Goto(t, "receive", b)
  BY <1>1, <1>2, <1>4, <1>5 DEF Decode
<1>9. IsTodo(graph, t, <<>>) /\ Fresh(dst_finished, <<>>)
  BY NothingTodo
<1>. QED  BY <1>1, <1>6, <1>7, <1>8, <1>9

\* DecRetry keeps the invariant.
LEMMA DecRetryKeeps ==
    ASSUME PipeInv, NEW i \in 1 .. graph.nb_dec, DecRetry(i)
    PROVE  PipeInv'
<1>1. /\ graph' = graph /\ UNCHANGED <<sched, choked, frozen, terminate>>
      /\ UNCHANGED <<q, closed, dst_finished, reader, flt, opened, sync, mux, asleep, main>>
  BY DEF DecRetry, chokingVars
<1>2. PICK t \in Tasks(graph) : t = <<"dec", i>> /\ t[1] \notin {"mux", "demux"}
  BY DecTask
<1>3. PICK pc, s : Goto(t, pc, s) /\ IsTodo(graph, t, s) /\ Fresh(dst_finished, s)
  <2>1. \/ Goto(t, "over", <<>>) \/ Goto(t, "queue", <<>>)
        \/ \E item, d : Decode(i, item, d)
    BY <1>2 DEF DecRetry
  <2>. QED  BY <1>2, <2>1, NothingTodo, DecodeForm, GraphForm
<1>. QED  BY <1>1, <1>2, <1>3, GoesOn

\* DecReceive keeps the invariant.
LEMMA DecReceiveKeeps ==
    ASSUME PipeInv, NEW i \in 1 .. graph.nb_dec, DecReceive(i)
    PROVE  PipeInv'
<1>0. QueueInv /\ EndInv /\ SyncInv
  BY DEF PipeInv
<1>1. /\ graph' = graph /\ UNCHANGED <<sched, choked, frozen, terminate>>
      /\ UNCHANGED <<dst_finished, reader, flt, opened, sync, mux, asleep, main>>
  BY DEF DecReceive, chokingVars
<1>2. PICK t \in Tasks(graph) : t = <<"dec", i>> /\ t[1] \notin {"mux", "demux"}
  BY DecTask
<1>3. PICK pc, s : Goto(t, pc, s) /\ IsTodo(graph, t, s) /\ Fresh(dst_finished, s)
  <2>1. \/ Goto(t, "check", <<>>) \/ Goto(t, "drain", <<>>)
        \/ \E item, d : Decode(i, item, d)
    BY <1>2 DEF DecReceive
  <2>. QED  BY <1>2, <2>1, NothingTodo, DecodeForm, GraphForm
<1>4. QueueInv' /\ ((EndInv' /\ SyncInv') \/ closed' = closed)
  <2>1. CASE TqGet(t) /\ UNCHANGED closed
    BY <1>0, <1>1, <2>1, GetStep
  <2>2. CASE TqEnd(t, DecOut(i))
    <3>1. PICK n : n = DecOut(i)
      OBVIOUS
    <3>. QED  BY <1>0, <1>1, <2>2, <3>1, SeenStep
  <2>3. CASE TqOver(t) /\ UNCHANGED closed
    BY <1>0, <1>1, <2>3, EmptyStep DEF TqOver
  <2>. QED  BY <1>2, <2>1, <2>2, <2>3 DEF DecReceive
<1>. QED  BY <1>1, <1>2, <1>3, <1>4, GoesOn

\* DecCheck keeps the invariant.
LEMMA DecCheckKeeps ==
    ASSUME PipeInv, NEW i \in 1 .. graph.nb_dec, DecCheck(i)
    PROVE  PipeInv'
<1>1. /\ graph' = graph /\ UNCHANGED <<sched, choked, frozen, terminate>>
      /\ UNCHANGED <<q, closed, dst_finished, reader, flt, opened, sync, mux, asleep, main>>
  BY DEF DecCheck, chokingVars
<1>2. PICK t \in Tasks(graph) : t = <<"dec", i>> /\ t[1] \notin {"mux", "demux"}
  BY DecTask
<1>3. PICK pc, s : Goto(t, pc, s) /\ IsTodo(graph, t, s) /\ Fresh(dst_finished, s)
  <2>1. Goto(t, "receive", <<>>) \/ \E item, d : Decode(i, item, d)
    BY <1>2 DEF DecCheck
  <2>. QED  BY <1>2, <2>1, NothingTodo, DecodeForm, GraphForm
<1>. QED  BY <1>1, <1>2, <1>3, GoesOn

\* DecDrain keeps the invariant.
LEMMA DecDrainKeeps ==
    ASSUME PipeInv, NEW i \in 1 .. graph.nb_dec, DecDrain(i)
    PROVE  PipeInv'
<1>0. RateInv
  BY DEF PipeInv
<1>1. /\ graph' = graph /\ UNCHANGED <<sched, choked, frozen, terminate>>
      /\ UNCHANGED <<q, closed, dst_finished, reader, flt, opened, sync, mux, main>>
  BY DEF DecDrain, chokingVars
<1>2. PICK t \in Tasks(graph) : t = <<"dec", i>> /\ t[1] \notin {"mux", "demux"}
  BY DecTask
<1>3. PICK pc, s : Goto(t, pc, s) /\ IsTodo(graph, t, s) /\ Fresh(dst_finished, s)
  <2>1. \E item, d : Decode(i, item, d)
    BY DEF DecDrain
  <2>. QED  BY <1>2, <2>1, DecodeForm, GraphForm
<1>4. RateInv'
  <2>1. PICK stop \in BOOLEAN : Returns(t, stop)
    BY <1>2 DEF DecDrain
  <2>. QED  BY <1>0, <1>1, <2>1, WokenStep
<1>. QED  BY <1>1, <1>2, <1>3, <1>4, GoesOn

\* DecDone keeps the invariant.
LEMMA DecDoneKeeps ==
    ASSUME PipeInv, NEW i \in 1 .. graph.nb_dec, DecDone(i)
    PROVE  PipeInv'
<1>1. PICK t \in Tasks(graph) : t = <<"dec", i>> /\ t[1] \notin {"mux", "demux"}
  BY DecTask
<1>. QED  BY <1>1, LeaveKeeps DEF DecDone, chokingVars

\* EncReceive keeps the invariant.
LEMMA EncReceiveKeeps ==
    ASSUME PipeInv, NEW j \in 1 .. graph.nb_enc, EncReceive(j)
    PROVE  PipeInv'
<1>0. QueueInv /\ EndInv /\ SyncInv /\ TaskInv /\ CountInv /\ WellFormed(graph) /\ graph \in Graphs
  BY GraphForm DEF PipeInv
<1>1. /\ graph' = graph /\ UNCHANGED <<sched, choked, frozen, terminate>>
      /\ UNCHANGED <<dst_finished, reader, dec, flt, opened, sync, mux, asleep, main>>
  BY DEF EncReceive, chokingVars
<1>2. PICK t \in Tasks(graph) : t = <<"enc", j>> /\ t[1] \notin {"mux", "demux"}
  <2>1. <<"enc", j>> \in Tasks(graph)
    BY TaskCases
  <2>. QED  BY <2>1
<1>3. PICK src : src = Node("enc", j, 1)
  OBVIOUS
<1>4. src \in Sources(graph) /\ Owner(src) = t
  BY <1>2, <1>3, NodeForms DEF Owner, Node
<1>5. PICK failed : failed = <<Call("failed", NoNode)>>
  OBVIOUS
\* The three ways to the end of the thread.
<1>6. ASSUME NEW report \in {<<>>, failed}, Goto(t, "gone", CleanUp(t) \o report),
             QueueInv', (EndInv' /\ SyncInv') \/ closed' = closed
      PROVE  PipeInv'
  <2>1. Quiet(graph, t, report)
    <3>1. Quiet(graph, t, <<>>)
      BY NoQuiet
    <3>2. Quiet(graph, t, failed)
      BY <1>5, ReportQuiet
    <3>. QED  BY <3>1, <3>2
  <2>2. PICK s : s = CleanUp(t) \o report
    OBVIOUS
  <2>3. TaskInv' /\ CountInv' /\ NoNewSend
    <3>1. Goto(t, "gone", s) /\ mux'.done = mux.done /\ dst_finished' = dst_finished
      BY <1>1, <1>6, <2>2
    <3>. QED  BY <1>0, <1>1, <1>2, <2>1, <2>2, <3>1, GoneStep
  <2>. QED  BY <1>1, <1>6, <2>3, Rest
<1>7. CASE TqGet(t) /\ UNCHANGED closed
  <2>1. /\ QueueInv' /\ First(t)[1] \in Sinks(graph) /\ Queue(First(t)[1]) = t
        /\ First(t)[1][1] = "enc" => First(t)[2].k # "eof"
    BY <1>0, <1>1, <1>7, GetStep
  <2>2. First(t)[1][1] = "enc"
    <3>1. PICK n \in Sinks(graph) : n = First(t)[1] /\ Queue(n) = t
      BY <2>1
    <3>2. Sized(graph)
      BY <1>0 DEF WellFormed
    <3>. QED  BY <1>2, <3>1, <3>2, QueueForms
  <2>3. PICK item : item = First(t)[2] /\ item.k # "eof"
    BY <2>1, <2>2
  <2>4. CASE Goto(t, "receive", SendAll(src, First(t)[2]))
    <3>1. PICK s : s = SendAll(src, item)
      OBVIOUS
    <3>2. IsTodo(graph, t, s) /\ Fresh(dst_finished, s)
      BY <1>0, <1>4, <2>3, <3>1, SendAllTodo
    <3>3. Goto(t, "receive", s)
      BY <2>3, <2>4, <3>1
    <3>. QED  BY <1>1, <1>2, <1>7, <2>1, <3>2, <3>3, GoesOn
  <2>5. CASE Goto(t, "gone", CleanUp(t) \o <<>>)
    BY <1>6, <1>7, <2>1, <2>5
  <2>6. Goto(t, "receive", SendAll(src, First(t)[2])) \/ Goto(t, "gone", CleanUp(t) \o <<>>)
    <3>1. ~ TqOver(t) /\ ~ TqEnd(t, src)
      BY <1>7 DEF TqGet, TqOver, TqEnd
    <3>. QED  BY <1>2, <1>3, <3>1 DEF EncReceive
  <2>. QED  BY <2>4, <2>5, <2>6
<1>8. CASE TqEnd(t, src) \/ (TqOver(t) /\ UNCHANGED closed)
  <2>1. QueueInv' /\ ((EndInv' /\ SyncInv') \/ closed' = closed)
    <3>1. CASE TqEnd(t, src)
      BY <1>0, <1>1, <3>1, SeenStep
    <3>2. CASE TqOver(t) /\ UNCHANGED closed
      BY <1>0, <1>1, <3>2, EmptyStep DEF TqOver
    <3>. QED  BY <1>8, <3>1, <3>2
  <2>2. PICK report \in {<<>>, failed} : Goto(t, "gone", CleanUp(t) \o report)
    <3>1. ~ TqGet(t)
      BY <1>8 DEF TqGet, TqOver, TqEnd
    <3>. QED  BY <1>2, <1>3, <1>5, <3>1 DEF EncReceive
  <2>. QED  BY <1>6, <2>1, <2>2
<1>. QED  BY <1>2, <1>3, <1>7, <1>8 DEF EncReceive

\* MuxReceive keeps the invariant.
LEMMA MuxReceiveKeeps ==
    ASSUME PipeInv, NEW m \in DOMAIN graph.mux, MuxReceive(m)
    PROVE  PipeInv'
<1>0. QueueInv /\ EndInv /\ SyncInv /\ TaskInv /\ CountInv /\ MuxInv /\ WellFormed(graph)
  BY GraphForm DEF PipeInv
<1>1. /\ graph' = graph /\ UNCHANGED <<sched, choked, frozen, terminate>>
      /\ UNCHANGED <<dst_finished, reader, dec, flt, opened, sync, asleep, main>>
  BY DEF MuxReceive, chokingVars
<1>2. PICK t \in Tasks(graph) : t = <<"mux", m>> /\ t[1] = "mux"
  <2>1. <<"mux", m>> \in Tasks(graph)
    BY TaskCases
  <2>. QED  BY <2>1
<1>3. task[t].pc = "receive"
  BY <1>2 DEF MuxReceive, Idle
<1>4. ~ Counted(task[t])
  BY <1>3 DEF Counted
<1>5. ASSUME Goto(t, "gone", CleanUp(t)), mux' = mux, QueueInv', closed' = closed
      PROVE  PipeInv'
  <2>1. PICK report : report = <<>>
    OBVIOUS
  <2>2. Quiet(graph, t, report)
    BY <2>1, NoQuiet
  <2>3. PICK s : s = CleanUp(t)
    OBVIOUS
  <2>4. TaskInv' /\ CountInv' /\ NoNewSend
    <3>1. Goto(t, "gone", s) /\ mux'.done = mux.done /\ dst_finished' = dst_finished /\ task[t].pc # "gone"
      BY <1>1, <1>3, <1>5, <2>3
    <3>. QED  BY <1>0, <1>1, <2>2, <2>3, <3>1, GoneStep
  <2>. QED  BY <1>1, <1>5, <2>4, Rest
<1>6. ASSUME UNCHANGED task, mux'.done = mux.done PROVE TaskInv' /\ CountInv' /\ NoNewSend
  <2>1. TaskInv' /\ CountInv'
    BY <1>0, <1>1, <1>6, TaskStays
  <2>2. NoNewSend
    BY <1>0, <1>1, <1>6, PcStep
  <2>. QED  BY <2>1, <2>2
<1>7. CASE TqGet(t) /\ UNCHANGED closed
  <2>1. QueueInv' /\ First(t)[1] \in Sinks(graph) /\ Queue(First(t)[1]) = t
    BY <1>0, <1>1, <1>7, GetStep
  <2>2. PICK n \in Streams(graph, "mux") : n = First(t)[1]
    <3>1. PICK n \in Sinks(graph) : n = First(t)[1] /\ Queue(n) = t
      BY <2>1
    <3>2. Sized(graph)
      BY <1>0 DEF WellFormed
    <3>3. n[1] = "mux"
      BY <1>2, <3>1, <3>2, QueueForms
    <3>. QED  BY <3>1, <3>3, SinkForms
  <2>3. CASE /\ Goto(t, "receive", <<Call("queue_done", n), Call("source_finished", n)>>)
             /\ UNCHANGED mux
    <3>1. PICK a : a = Call("queue_done", n)
      OBVIOUS
    <3>2. PICK b : b = Call("source_finished", n)
      OBVIOUS
    <3>3. IsCall(graph, t, a) /\ a.op = "queue_done"
      BY <3>1, CallAnywhere
    <3>4. IsCall(graph, t, b) /\ b.op = "source_finished"
      BY <3>2 DEF IsCall, Call
    <3>5. PICK s : s = <<a, b>>
      OBVIOUS
    <3>6. Quiet(graph, t, s)
      BY <3>3, <3>4, <3>5, TwoQuiet
    <3>7. IsTodo(graph, t, s) /\ Fresh(dst_finished', s)
      <4>1. PICK fin : fin = dst_finished'
        OBVIOUS
      <4>2. IsTodo(graph, t, s) /\ Fresh(fin, s)
        BY <3>6, QuietTodo
      <4>. QED  BY <4>1, <4>2
    <3>8. PICK pc : pc = "receive"
      OBVIOUS
    <3>9. task' = [task EXCEPT ![t] = [pc |-> pc, todo |-> s]]
      BY <2>3, <3>1, <3>2, <3>5, <3>8 DEF Goto
    <3>10. \A i \in DOMAIN s : s[i].op # "mux_done"
      BY <3>6 DEF Quiet
    <3>11. Counted([pc |-> pc, todo |-> s]) <=> Counted(task[t])
      BY <1>4, <3>8 DEF Counted
    <3>12. TaskInv' /\ CountInv'
      <4>1. mux'.done = mux.done /\ \A p \in dst_finished' : p \in dst_finished \/ Owner(p[1]) = t
        BY <1>1, <2>3
      <4>. QED  BY <1>0, <1>1, <3>7, <3>9, <3>10, <3>11, <4>1, TaskStep
    <3>13. NoNewSend
      <4>1. Goto(t, pc, s) /\ t[1] # "demux"
        BY <1>2, <3>9 DEF Goto
      <4>. QED  BY <1>0, <1>1, <4>1, PcStep
    <3>. QED  BY <1>1, <1>7, <2>1, <2>3, <3>12, <3>13, Rest
  <2>4. CASE Goto(t, "gone", CleanUp(t)) /\ UNCHANGED mux
    BY <1>5, <1>7, <2>1, <2>4
  <2>5. CASE mux' = [mux EXCEPT !.written[n] = Append(@, First(t)[2])] /\ UNCHANGED task
    <3>1. DOMAIN mux' = DOMAIN mux /\ mux'.pre = mux.pre /\ mux'.done = mux.done
      BY <1>0, <2>5 DEF MuxInv
    <3>2. MuxInv'
      BY <1>0, <1>1, <3>1 DEF MuxInv
    <3>3. TaskInv' /\ CountInv' /\ NoNewSend
      BY <1>6, <2>5, <3>1
    <3>. QED  BY <1>1, <1>7, <2>1, <3>2, <3>3, Rest
  <2>6. \/ Goto(t, "receive", <<Call("queue_done", n), Call("source_finished", n)>>) /\ UNCHANGED mux
        \/ Goto(t, "gone", CleanUp(t)) /\ UNCHANGED mux
        \/ mux' = [mux EXCEPT !.written[n] = Append(@, First(t)[2])] /\ UNCHANGED task
    <3>1. ~ TqOver(t) /\ \A o : ~ TqEnd(t, o)
      BY <1>7 DEF TqGet, TqOver, TqEnd
    <3>. QED  BY <1>2, <2>2, <3>1 DEF MuxReceive
  <2>. QED  BY <2>3, <2>4, <2>5, <2>6
<1>8. CASE (\E n \in QueueStreams(t) : TqEnd(t, n)) /\ UNCHANGED <<task, mux>>
  <2>1. PICK n \in QueueStreams(t) : TqEnd(t, n)
    BY <1>8
  <2>2. QueueInv' /\ EndInv' /\ SyncInv'
    BY <1>0, <1>1, <2>1, SeenStep
  <2>. QED  BY <1>1, <1>6, <1>8, <2>2, Rest
<1>9. CASE TqOver(t) /\ Goto(t, "gone", CleanUp(t)) /\ UNCHANGED <<closed, mux>>
  <2>1. QueueInv'
    BY <1>0, <1>1, <1>9, EmptyStep DEF TqOver
  <2>. QED  BY <1>5, <1>9, <2>1
<1>. QED  BY <1>2, <1>7, <1>8, <1>9 DEF MuxReceive

-----------------------------------------------------------------------------
(* libavfilter and filter_thread                                           *)

\* One filtergraph changes.
LEMMA FltStep ==
    ASSUME FltInv, graph' = graph, NEW f \in DOMAIN graph.filters, NEW x, IsFilter(graph, f, x),
           flt' = [flt EXCEPT ![f] = x]
    PROVE  FltInv'
<1>1. DOMAIN flt' = DOMAIN graph.filters
  BY DEF FltInv
<1>2. ASSUME NEW g \in DOMAIN graph.filters PROVE IsFilter(graph, g, flt'[g])
  <2>1. CASE g = f
    BY <2>1 DEF FltInv
  <2>2. CASE g # f
    BY <2>2 DEF FltInv
  <2>. QED  BY <2>1, <2>2
<1>. QED  BY <1>1, <1>2 DEF FltInv

\* A graph that is fed makes frames of the first of each input.
LEMMA CookForm ==
    ASSUME graph \in Graphs, NEW f \in DOMAIN graph.filters, NEW x, IsFilter(graph, f, x), NEW y, y = Cook(f, x)
    PROVE  IsFilter(graph, f, y)
<1>1. PICK n \in Nat : n = graph.filters[f].in
  BY GraphsAssumption DEF WellFormed, Sized
<1>2. PICK rate \in Nat : rate = graph.filters[f].rate
  BY GraphsAssumption
<1>3. CASE y = x
  BY <1>3
<1>4. CASE y # x
  <2>1. PICK ripe : ripe = [i \in 1 .. rate |-> IF n = 0 THEN Item("data", x.made + 1, Node("fout", f, 1))
                                                ELSE Head(x.buf[1])]
    OBVIOUS
  <2>2. PICK buf : buf = [k \in DOMAIN x.buf |-> Tail(x.buf[k])]
    OBVIOUS
  <2>3. y = [x EXCEPT !.buf = buf, !.made = @ + 1, !.ripe = ripe] /\ Fed(f, x)
    BY <1>1, <1>2, <1>4, <2>1, <2>2 DEF Cook, Lavfi
  <2>4. \A k \in 1 .. n : x.buf[k] # <<>> /\ IsMedia(x.buf[k])
    BY <1>1, <2>3 DEF Fed, Lavfi, IsFilter
  <2>5. DOMAIN buf = 1 .. n /\ \A k \in 1 .. n : IsMedia(buf[k])
    <3>1. DOMAIN x.buf = 1 .. n
      BY <1>1 DEF IsFilter
    <3>2. ASSUME NEW k \in 1 .. n PROVE IsMedia(buf[k])
      <4>1. buf[k] = Tail(x.buf[k])
        BY <2>2, <3>1
      <4>. QED  BY <2>4, <4>1, TailMedia
    <3>. QED  BY <2>2, <3>1, <3>2
  <2>6. IsMedia(ripe)
    <3>1. IsSeq(ripe) /\ DOMAIN ripe = 1 .. rate
      BY <2>1, ListSeq
    <3>2. ASSUME NEW i \in 1 .. rate PROVE ripe[i].k # "eof"
      <4>1. CASE n = 0
        BY <2>1, <4>1 DEF Item
      <4>2. CASE n # 0
        <5>1. 1 \in 1 .. n
          BY <1>1, <4>2
        <5>2. Head(x.buf[1]).k # "eof"
          BY <2>4, <5>1, TailMedia
        <5>3. ripe[i] = Head(x.buf[1])
          BY <2>1, <4>2
        <5>. QED  BY <5>2, <5>3
      <4>. QED  BY <4>1, <4>2
    <3>. QED  BY <3>1, <3>2 DEF IsMedia
  <2>7. /\ DOMAIN y = DOMAIN x /\ y.buf = buf /\ y.ripe = ripe /\ y.sink = x.sink
        /\ y.next = x.next /\ y.format = x.format /\ y.configured = x.configured
    BY <2>3 DEF IsFilter
  <2>. QED  BY <1>1, <2>5, <2>6, <2>7 DEF IsFilter
<1>. QED  BY <1>3, <1>4

\* libavfilter gives its frames to the sinks.
LEMMA EmitForm ==
    ASSUME graph \in Graphs, NEW f \in DOMAIN graph.filters, NEW x, IsFilter(graph, f, x), NEW y, y = Emit(f, x)
    PROVE  IsFilter(graph, f, y)
<1>1. PICK c : c = Cook(f, x)
  OBVIOUS
<1>2. IsFilter(graph, f, c)
  BY <1>1, CookForm
<1>3. CASE c.ripe = <<>>
  BY <1>1, <1>2, <1>3 DEF Emit
<1>4. CASE c.ripe # <<>>
  <2>1. PICK ripe : ripe = Tail(c.ripe)
    OBVIOUS
  <2>2. PICK sink : sink = Append(c.sink, Head(c.ripe))
    OBVIOUS
  <2>3. y = [c EXCEPT !.ripe = ripe, !.sink = sink]
    BY <1>1, <1>4, <2>1, <2>2 DEF Emit
  <2>4. IsMedia(ripe) /\ IsMedia(sink)
    <3>1. IsMedia(c.ripe) /\ IsMedia(c.sink)
      BY <1>2 DEF IsFilter
    <3>2. IsMedia(Tail(c.ripe)) /\ Head(c.ripe).k # "eof"
      BY <1>4, <3>1, TailMedia
    <3>. QED  BY <2>1, <2>2, <3>1, <3>2, AppendMedia
  <2>5. /\ DOMAIN y = DOMAIN c /\ y.buf = c.buf /\ y.ripe = ripe /\ y.sink = sink
        /\ y.next = c.next /\ y.format = c.format /\ y.configured = c.configured
    BY <1>2, <2>3 DEF IsFilter
  <2>. QED  BY <1>2, <2>4, <2>5 DEF IsFilter
<1>. QED  BY <1>3, <1>4

\* A filtergraph is a task.
LEMMA FilterTask ==
    ASSUME NEW f \in DOMAIN graph.filters
    PROVE  <<"filter", f>> \in Tasks(graph) /\ <<"filter", f>>[1] \notin {"mux", "demux"}
<1>1. <<"filter", f>> \in Tasks(graph)
  BY TaskCases
<1>. QED  BY <1>1

\* A frame, or the end of an input.
LEMMA SendFrameForm ==
    ASSUME graph \in Graphs, FltInv, NEW f \in DOMAIN graph.filters, NEW k \in 1 .. graph.filters[f].in,
           NEW item, item.k # "eof", SendFrame(f, k, item)
    PROVE  \E x, pc, s : /\ flt' = [flt EXCEPT ![f] = x] /\ IsFilter(graph, f, x) /\ Goto(<<"filter", f>>, pc, s)
                         /\ IsTodo(graph, <<"filter", f>>, s) /\ Fresh(dst_finished, s)
<1>1. PICK t : t = <<"filter", f>>
  OBVIOUS
<1>2. PICK fl : fl = flt[f]
  OBVIOUS
<1>3. IsFilter(graph, f, fl)
  BY <1>2 DEF FltInv
<1>4. PICK b : b = Append(fl.buf[k], item)
  OBVIOUS
<1>5. IsMedia(b)
  BY <1>3, <1>4, AppendMedia DEF IsFilter
<1>6. PICK with : with = [fl EXCEPT !.format = @ \cup {k}, !.buf[k] = b]
  OBVIOUS
<1>7. /\ DOMAIN with = DOMAIN fl /\ with.format = fl.format \cup {k} /\ with.buf = [fl.buf EXCEPT ![k] = b]
      /\ with.next = fl.next /\ with.configured = fl.configured /\ with.ripe = fl.ripe /\ with.sink = fl.sink
  BY <1>3, <1>6 DEF IsFilter
<1>8. /\ DOMAIN with.buf = 1 .. graph.filters[f].in
      /\ \A i \in 1 .. graph.filters[f].in : IsMedia(with.buf[i])
  <2>1. DOMAIN with.buf = 1 .. graph.filters[f].in
    BY <1>3, <1>7 DEF IsFilter
  <2>2. ASSUME NEW i \in 1 .. graph.filters[f].in PROVE IsMedia(with.buf[i])
    <3>1. CASE i = k
      BY <1>3, <1>5, <1>7, <3>1 DEF IsFilter
    <3>2. CASE i # k
      BY <1>3, <1>7, <3>2 DEF IsFilter
    <3>. QED  BY <3>1, <3>2
  <2>. QED  BY <2>1, <2>2
<1>9. (~ with.configured => with.format # 1 .. graph.filters[f].in) => IsFilter(graph, f, with)
  BY <1>3, <1>7, <1>8 DEF IsFilter
<1>10. PICK conf : conf = [with EXCEPT !.configured = TRUE]
  OBVIOUS
<1>11. IsFilter(graph, f, conf)
  <2>1. /\ DOMAIN conf = DOMAIN with /\ conf.format = with.format /\ conf.buf = with.buf
        /\ conf.next = with.next /\ conf.configured = TRUE /\ conf.ripe = with.ripe /\ conf.sink = with.sink
    BY <1>3, <1>7, <1>10 DEF IsFilter
  <2>. QED  BY <1>3, <1>7, <1>8, <2>1 DEF IsFilter
<1>12. with = [fl EXCEPT !.format = @ \cup {k}, !.buf[k] = Append(@, item)]
  BY <1>4, <1>6
<1>13. IsTodo(graph, t, <<>>) /\ Fresh(dst_finished, <<>>)
  BY NothingTodo
<1>14. CASE fl.configured /\ GraphEnded(f, fl)
  <2>1. PICK c : c = Call("receive_finish", Node("fin", f, k))
    OBVIOUS
  <2>2. PICK s : s = <<c>>
    OBVIOUS
  <2>3. PICK x : x = [fl EXCEPT !.eof = @ \cup {k}]
    OBVIOUS
  <2>4. flt' = [flt EXCEPT ![f] = x] /\ Goto(t, "receive", s)
    BY <1>1, <1>2, <1>14, <2>1, <2>2, <2>3 DEF SendFrame
  <2>5. IsTodo(graph, t, s) /\ Fresh(dst_finished, s)
    <3>1. PICK fin : fin = dst_finished
      OBVIOUS
    <3>2. Quiet(graph, t, s)
      BY <2>1, <2>2, CallAnywhere, OneQuiet
    <3>3. IsTodo(graph, t, s) /\ Fresh(fin, s)
      BY <3>2, QuietTodo
    <3>. QED  BY <3>1, <3>3
  <2>6. IsFilter(graph, f, x)
    <3>1. /\ DOMAIN x = DOMAIN fl /\ x.format = fl.format /\ x.buf = fl.buf
          /\ x.next = fl.next /\ x.configured = fl.configured /\ x.ripe = fl.ripe /\ x.sink = fl.sink
      BY <1>3, <2>3 DEF IsFilter
    <3>. QED  BY <1>3, <3>1 DEF IsFilter
  <2>. QED  BY <1>1, <2>4, <2>5, <2>6
<1>15. CASE fl.configured /\ ~ GraphEnded(f, fl)
  <2>1. PICK x : x = Emit(f, with)
    OBVIOUS
  <2>2. flt' = [flt EXCEPT ![f] = x] /\ Goto(t, "read", <<>>)
    BY <1>1, <1>2, <1>12, <1>15, <2>1 DEF SendFrame
  <2>3. IsFilter(graph, f, x)
    BY <1>7, <1>9, <1>15, <2>1, EmitForm
  <2>. QED  BY <1>1, <1>13, <2>2, <2>3
<1>16. CASE ~ fl.configured /\ with.format = 1 .. graph.filters[f].in
  <2>1. PICK x : x = Emit(f, conf)
    OBVIOUS
  <2>2. PICK c : c = Call("choke_inputs", NoNode)
    OBVIOUS
  <2>3. PICK s : s = <<c>>
    OBVIOUS
  <2>4. flt' = [flt EXCEPT ![f] = x] /\ Goto(t, "read", s)
    BY <1>1, <1>2, <1>10, <1>12, <1>16, <2>1, <2>2, <2>3 DEF SendFrame, Lavfi
  <2>5. IsFilter(graph, f, x)
    BY <1>11, <2>1, EmitForm
  <2>6. IsCall(graph, t, c) /\ c.op = "choke_inputs"
    BY <1>1, <2>2 DEF IsCall, Call
  <2>7. IsTodo(graph, t, s) /\ Fresh(dst_finished, s)
    <3>1. PICK fin : fin = dst_finished
      OBVIOUS
    <3>2. Quiet(graph, t, s)
      BY <2>3, <2>6, OneQuiet
    <3>3. IsTodo(graph, t, s) /\ Fresh(fin, s)
      BY <3>2, QuietTodo
    <3>. QED  BY <3>1, <3>3
  <2>. QED  BY <1>1, <2>4, <2>5, <2>7
<1>17. CASE ~ fl.configured /\ with.format # 1 .. graph.filters[f].in
  <2>1. flt' = [flt EXCEPT ![f] = with] /\ Goto(t, "read", <<>>)
    BY <1>1, <1>2, <1>12, <1>17 DEF SendFrame, Lavfi
  <2>2. IsFilter(graph, f, with)
    BY <1>9, <1>17
  <2>. QED  BY <1>1, <1>13, <2>1, <2>2
<1>. QED  BY <1>14, <1>15, <1>16, <1>17

\* send_eof of an input: the graph stays well formed, and the calls are in order.
LEMMA SendEofForm ==
    ASSUME graph \in Graphs, FltInv, NEW f \in DOMAIN graph.filters, NEW k \in 1 .. graph.filters[f].in,
           SendEof(f, k)
    PROVE  \E x, pc, s : /\ flt' = [flt EXCEPT ![f] = x] /\ IsFilter(graph, f, x) /\ Goto(<<"filter", f>>, pc, s)
                         /\ IsTodo(graph, <<"filter", f>>, s) /\ Fresh(dst_finished, s)
<1>1. PICK t : t = <<"filter", f>>
  OBVIOUS
<1>2. PICK fl : fl = flt[f]
  OBVIOUS
<1>3. IsFilter(graph, f, fl)
  BY <1>2 DEF FltInv
<1>4. PICK with : with = [fl EXCEPT !.eof_in = @ \cup {k}, !.format = @ \cup {k}]
  OBVIOUS
<1>5. /\ DOMAIN with = DOMAIN fl /\ with.format = fl.format \cup {k} /\ with.buf = fl.buf
      /\ with.next = fl.next /\ with.configured = fl.configured /\ with.ripe = fl.ripe /\ with.sink = fl.sink
  BY <1>3, <1>4 DEF IsFilter
<1>6. (~ with.configured => with.format # 1 .. graph.filters[f].in) => IsFilter(graph, f, with)
  BY <1>3, <1>5 DEF IsFilter
<1>7. PICK conf : conf = [with EXCEPT !.configured = TRUE]
  OBVIOUS
<1>8. IsFilter(graph, f, conf)
  <2>1. /\ DOMAIN conf = DOMAIN with /\ conf.format = with.format /\ conf.buf = with.buf
        /\ conf.next = with.next /\ conf.configured = TRUE /\ conf.ripe = with.ripe /\ conf.sink = with.sink
    BY <1>3, <1>5, <1>7 DEF IsFilter
  <2>. QED  BY <1>3, <1>5, <2>1 DEF IsFilter
<1>9. PICK x : x = IF fl.configured THEN with
                   ELSE IF with.format = 1 .. graph.filters[f].in THEN Emit(f, conf) ELSE with
  OBVIOUS
<1>10. flt' = [flt EXCEPT ![f] = x] /\ Goto(t, "read", <<>>)
  BY <1>1, <1>2, <1>4, <1>7, <1>9 DEF SendEof, Lavfi
<1>11. IsFilter(graph, f, x)
  <2>1. IsFilter(graph, f, Emit(f, conf))
    BY <1>8, EmitForm
  <2>. QED  BY <1>5, <1>6, <1>9, <2>1
<1>12. IsTodo(graph, t, <<>>) /\ Fresh(dst_finished, <<>>)
  BY NothingTodo
<1>. QED  BY <1>1, <1>10, <1>11, <1>12

\* The same for whatever a filtergraph receives.
LEMMA FilterInputForm ==
    ASSUME graph \in Graphs, FltInv, NEW f \in DOMAIN graph.filters, NEW m, m[1] \in Sinks(graph),
           Queue(m[1]) = <<"filter", f>>, FilterInput(f, m)
    PROVE  \E x, pc, s : /\ flt' = [flt EXCEPT ![f] = x] /\ IsFilter(graph, f, x) /\ Goto(<<"filter", f>>, pc, s)
                         /\ IsTodo(graph, <<"filter", f>>, s) /\ Fresh(dst_finished, s)
<1>1. PICK n \in Sinks(graph) : n = m[1]
  OBVIOUS
<1>2. n[1] = "fin" /\ n[2] = f
  BY <1>1, SinkForms DEF Queue
<1>3. PICK k \in 1 .. graph.filters[f].in : k = m[1][3]
  BY <1>1, <1>2, SinkForms
<1>4. PICK item : item = m[2]
  OBVIOUS
<1>5. IF item.k = "eof" THEN SendEof(f, k) ELSE SendFrame(f, k, item)
  BY <1>3, <1>4 DEF FilterInput
<1>. QED  BY <1>5, SendEofForm, SendFrameForm

-----------------------------------------------------------------------------
(* The steps of filter_thread                                              *)

\* FilterWish keeps the invariant.
LEMMA FilterWishKeeps ==
    ASSUME PipeInv, main.pc # "refused", NEW f \in DOMAIN graph.filters, FilterWish(f)
    PROVE  PipeInv'
<1>0. TaskInv /\ CountInv /\ RateInv /\ MainInv /\ FltInv /\ WellFormed(graph)
  BY GraphForm DEF PipeInv
<1>1. /\ graph' = graph
      /\ UNCHANGED <<q, closed, dst_finished, task, reader, dec, flt, opened, sync, mux, asleep, main>>
  BY DEF FilterWish
<1>2. PICK t \in Tasks(graph) : t = <<"filter", f>>
  BY FilterTask
<1>3. PICK s : s = [sched EXCEPT !.best_input[f] = flt[f].next]
  OBVIOUS
<1>4. ScheduleUpdate(s, frozen)
  BY <1>3 DEF FilterWish
<1>5. DOMAIN s = DOMAIN sched /\ IsSched(graph, s)
  <2>1. flt[f].next \in 1 .. NoInput(graph, f)
    BY <1>0 DEF FltInv, IsFilter
  <2>2. /\ DOMAIN s = DOMAIN sched /\ s.source_finished = sched.source_finished
        /\ s.best_input = [sched.best_input EXCEPT ![f] = flt[f].next]
    BY <1>0, <1>3 DEF RateInv
  <2>. QED  BY <1>0, <2>1, <2>2 DEF RateInv, IsSched
<1>6. RateInv'
  BY <1>0, <1>1, <1>4, <1>5, UpdateKeeps
<1>7. TaskInv' /\ CountInv'
  BY <1>0, <1>1, TaskStays
<1>8. NoNewSend
  BY <1>0, <1>1, <1>2, PcStep
<1>. QED  BY <1>1, <1>6, <1>7, <1>8, Rest

\* FilterReceive keeps the invariant.
LEMMA FilterReceiveKeeps ==
    ASSUME PipeInv, NEW f \in DOMAIN graph.filters, FilterReceive(f) \/ FilterPoll(f)
    PROVE  PipeInv'
<1>0. QueueInv /\ EndInv /\ SyncInv /\ TaskInv /\ CountInv /\ FltInv /\ graph \in Graphs
  BY GraphForm DEF PipeInv
<1>1. /\ graph' = graph /\ UNCHANGED <<sched, choked, frozen, terminate>>
      /\ UNCHANGED <<dst_finished, reader, dec, opened, sync, mux, asleep, main>>
  BY DEF FilterReceive, FilterPoll, chokingVars
<1>2. PICK t \in Tasks(graph) : t = <<"filter", f>> /\ t[1] \notin {"mux", "demux"}
  BY FilterTask
<1>3. CASE TqGet(t) /\ FilterInput(f, First(t)) /\ UNCHANGED closed
  <2>1. QueueInv' /\ First(t)[1] \in Sinks(graph) /\ Queue(First(t)[1]) = t
    BY <1>0, <1>1, <1>3, GetStep
  <2>2. PICK m : m = First(t)
    OBVIOUS
  <2>3. PICK x, pc, s : /\ flt' = [flt EXCEPT ![f] = x] /\ IsFilter(graph, f, x) /\ Goto(t, pc, s)
                        /\ IsTodo(graph, t, s) /\ Fresh(dst_finished, s)
    <3>1. m[1] \in Sinks(graph) /\ Queue(m[1]) = <<"filter", f>> /\ FilterInput(f, m)
      BY <1>2, <1>3, <2>1, <2>2
    <3>. QED  BY <1>0, <1>2, <3>1, FilterInputForm
  <2>4. FltInv'
    BY <1>0, <1>1, <2>3, FltStep
  <2>. QED  BY <1>1, <1>2, <1>3, <2>1, <2>3, <2>4, GoesOn
<1>4. ASSUME NEW n, TqEnd(t, n) PROVE QueueInv' /\ EndInv' /\ SyncInv'
  BY <1>0, <1>1, <1>4, SeenStep
<1>5. CASE (\E n \in QueueStreams(t) : TqEnd(t, n)) /\ UNCHANGED <<task, flt>>
  <2>1. QueueInv' /\ EndInv' /\ SyncInv'
    BY <1>4, <1>5
  <2>2. TaskInv' /\ CountInv'
    BY <1>0, <1>1, <1>5, TaskStays
  <2>3. NoNewSend
    BY <1>0, <1>1, <1>5, PcStep
  <2>. QED  BY <1>1, <1>5, <2>1, <2>2, <2>3, Rest
<1>6. IsTodo(graph, t, <<>>) /\ Fresh(dst_finished, <<>>)
  BY NothingTodo
<1>7. CASE TqOver(t) /\ Goto(t, "over", <<>>) /\ UNCHANGED <<closed, flt>>
  <2>1. QueueInv'
    BY <1>0, <1>1, <1>7, EmptyStep DEF TqOver
  <2>. QED  BY <1>1, <1>2, <1>6, <1>7, <2>1, GoesOn
<1>8. CASE /\ \/ \E n \in QueueStreams(t) : TqEnd(t, n)
              \/ (TqEmpty(t) \/ TqOver(t)) /\ UNCHANGED closed
           /\ Goto(t, "wait", <<>>) /\ UNCHANGED flt
  <2>1. QueueInv' /\ ((EndInv' /\ SyncInv') \/ closed' = closed)
    <3>1. CASE \E n \in QueueStreams(t) : TqEnd(t, n)
      BY <1>4, <3>1
    <3>2. CASE (TqEmpty(t) \/ TqOver(t)) /\ UNCHANGED closed
      BY <1>0, <1>1, <3>2, EmptyStep DEF TqOver, TqEmpty
    <3>. QED  BY <1>8, <3>1, <3>2
  <2>. QED  BY <1>1, <1>2, <1>6, <1>8, <2>1, GoesOn
<1>9. CASE FilterReceive(f)
  BY <1>2, <1>3, <1>5, <1>7, <1>9 DEF FilterReceive
<1>10. CASE FilterPoll(f)
  BY <1>2, <1>3, <1>8, <1>10 DEF FilterPoll
<1>. QED  BY <1>9, <1>10

\* FilterWait keeps the invariant.
LEMMA FilterWaitKeeps ==
    ASSUME PipeInv, NEW f \in DOMAIN graph.filters, FilterWait(f)
    PROVE  PipeInv'
<1>0. RateInv
  BY DEF PipeInv
<1>1. /\ graph' = graph /\ UNCHANGED <<sched, choked, frozen, terminate>>
      /\ UNCHANGED <<q, closed, dst_finished, reader, dec, flt, opened, sync, mux, main>>
  BY DEF FilterWait, chokingVars
<1>2. PICK t \in Tasks(graph) : t = <<"filter", f>> /\ t[1] \notin {"mux", "demux"}
  BY FilterTask
<1>3. PICK stop \in BOOLEAN : Returns(t, stop) /\ Goto(t, IF stop THEN "over" ELSE "read", <<>>)
  BY <1>2 DEF FilterWait
<1>4. PICK pc : pc = IF stop THEN "over" ELSE "read"
  OBVIOUS
<1>5. Goto(t, pc, <<>>)
  BY <1>3, <1>4
<1>6. IsTodo(graph, t, <<>>) /\ Fresh(dst_finished, <<>>)
  BY NothingTodo
<1>7. RateInv'
  BY <1>0, <1>1, <1>3, WokenStep
<1>. QED  BY <1>1, <1>2, <1>5, <1>6, <1>7, GoesOn

\* ReadFrames keeps the invariant.
LEMMA ReadFramesKeeps ==
    ASSUME PipeInv, NEW f \in DOMAIN graph.filters, ReadFrames(f)
    PROVE  PipeInv'
<1>0. FltInv /\ graph \in Graphs /\ WellFormed(graph) /\ Sized(graph)
  BY GraphForm DEF PipeInv
<1>1. /\ graph' = graph /\ UNCHANGED <<sched, choked, frozen, terminate>>
      /\ UNCHANGED <<q, closed, dst_finished, reader, dec, opened, sync, mux, asleep, main>>
  BY DEF ReadFrames, chokingVars
<1>2. PICK t \in Tasks(graph) : t = <<"filter", f>> /\ t[1] \notin {"mux", "demux"}
  BY FilterTask
<1>3. PICK fl : fl = flt[f]
  OBVIOUS
<1>4. IsFilter(graph, f, fl)
  BY <1>0, <1>3 DEF FltInv
<1>5. PICK in \in Nat : in = graph.filters[f].in
  BY <1>0 DEF Sized
<1>6. IsTodo(graph, t, <<>>) /\ Fresh(dst_finished, <<>>)
  BY NothingTodo
<1>7. PICK live : live = LiveOutputs(f)
  OBVIOUS
<1>8. CASE ~ fl.configured
  <2>1. PICK missing : missing = 1 .. in \ fl.format
    OBVIOUS
  <2>2. PICK k : k = Min(missing)
    OBVIOUS
  <2>3. k \in 1 .. in
    <3>1. missing \subseteq Nat /\ missing # {}
      <4>1. fl.format \subseteq 1 .. in /\ fl.format # 1 .. in
        BY <1>4, <1>5, <1>8 DEF IsFilter
      <4>2. PICK i \in 1 .. in : i \notin fl.format
        BY <4>1
      <4>. QED  BY <2>1, <4>2
    <3>2. k \in missing
      BY <2>2, <3>1, LeastOf
    <3>. QED  BY <2>1, <3>2
  <2>4. PICK x : x = [fl EXCEPT !.next = k]
    OBVIOUS
  <2>5. flt' = [flt EXCEPT ![f] = x] /\ Goto(t, "receive", <<>>)
    BY <1>2, <1>3, <1>5, <1>8, <2>1, <2>2, <2>4 DEF ReadFrames, Lavfi
  <2>6. IsFilter(graph, f, x)
    <3>1. /\ DOMAIN x = DOMAIN fl /\ x.format = fl.format /\ x.buf = fl.buf
          /\ x.next = k /\ x.configured = fl.configured /\ x.ripe = fl.ripe /\ x.sink = fl.sink
      BY <1>4, <2>4 DEF IsFilter
    <3>2. k \in 1 .. NoInput(graph, f)
      BY <1>5, <2>3 DEF NoInput
    <3>. QED  BY <1>4, <3>1, <3>2 DEF IsFilter
  <2>7. FltInv'
    BY <1>0, <1>1, <2>5, <2>6, FltStep
  <2>. QED  BY <1>1, <1>2, <1>6, <2>5, <2>7, GoesOn
<1>9. CASE fl.configured /\ live = <<>>
  <2>1. Goto(t, "over", <<>>) /\ flt' = flt
    BY <1>2, <1>3, <1>7, <1>9 DEF ReadFrames
  <2>. QED  BY <1>1, <1>2, <1>6, <2>1, GoesOn
<1>10. CASE fl.configured /\ live # <<>>
  <2>1. PICK sink : sink = fl.sink
    OBVIOUS
  <2>2. PICK ended : ended = GraphEnded(f, fl)
    OBVIOUS
  <2>3. PICK s : s = FlattenSeq([k \in DOMAIN live |-> ReadCalls(f, live[k], sink, ended)])
    OBVIOUS
  <2>4. PICK x : x = [fl EXCEPT !.sink = <<>>]
    OBVIOUS
  <2>5. flt' = [flt EXCEPT ![f] = x] /\ Goto(t, "request", s)
    BY <1>2, <1>3, <1>7, <1>10, <2>1, <2>2, <2>3, <2>4 DEF ReadFrames, ReadCalls, FramesOf
  <2>6. IsTodo(graph, t, s) /\ Fresh(dst_finished, s)
    <3>1. IsMedia(sink)
      BY <1>4, <2>1 DEF IsFilter
    <3>. QED  BY <1>0, <1>2, <1>7, <2>3, <3>1, ReadTodo
  <2>7. IsFilter(graph, f, x)
    <3>1. /\ DOMAIN x = DOMAIN fl /\ x.format = fl.format /\ x.buf = fl.buf
          /\ x.next = fl.next /\ x.configured = fl.configured /\ x.ripe = fl.ripe /\ x.sink = <<>>
      BY <1>4, <2>4 DEF IsFilter
    <3>2. IsMedia(<<>>)
      BY NoSeq DEF IsMedia
    <3>. QED  BY <1>4, <3>1, <3>2 DEF IsFilter
  <2>8. FltInv'
    BY <1>0, <1>1, <2>5, <2>7, FltStep
  <2>. QED  BY <1>1, <1>2, <2>5, <2>6, <2>8, GoesOn
<1>. QED  BY <1>8, <1>9, <1>10

\* The inputs a filtergraph no longer takes data on.
Shut(f, x) ==
    IF GraphEnded(f, x) THEN Kept([k \in 1 .. Lavfi(f).in |-> k], (1 .. Lavfi(f).in) \ x.eof) ELSE <<>>

\* Inputs that libavfilter closed are finished for receiving; nothing is sent.
LEMMA ShutQuiet ==
    ASSUME Sized(graph), NEW f \in DOMAIN graph.filters, NEW x, NEW t, NEW s,
           s = [k \in DOMAIN Shut(f, x) |-> Call("receive_finish", Node("fin", f, Shut(f, x)[k]))]
    PROVE  Quiet(graph, t, s)
<1>1. PICK in \in Nat : in = graph.filters[f].in
  BY DEF Sized
<1>2. PICK all : all = [k \in 1 .. in |-> k]
  OBVIOUS
<1>3. PICK keep : keep = (1 .. in) \ x.eof
  OBVIOUS
<1>4. PICK r : r = Shut(f, x)
  OBVIOUS
<1>5. r = Kept(all, keep) \/ r = <<>>
  BY <1>1, <1>2, <1>3, <1>4 DEF Shut, Lavfi
<1>6. IsSeq(all)
  <2>1. all = [k \in 1 .. in |-> all[k]]
    BY <1>2
  <2>. QED  BY <2>1, ListSeq
<1>7. IsSeq(r)
  BY <1>5, <1>6, KeptSeq, NoSeq
<1>8. PICK n \in Nat : n = Len(r) /\ DOMAIN r = 1 .. n
  BY <1>7, SeqDomain
<1>9. s = [k \in 1 .. n |-> Call("receive_finish", Node("fin", f, r[k]))]
  BY <1>4, <1>8
<1>10. s = [k \in 1 .. n |-> s[k]]
  BY <1>9
<1>11. IsSeq(s) /\ DOMAIN s = 1 .. n
  BY <1>10, ListSeq
<1>12. ASSUME NEW k \in 1 .. n PROVE IsCall(graph, t, s[k]) /\ s[k].op \notin {"send", "mux_done"}
  <2>1. PICK node : node = Node("fin", f, r[k])
    OBVIOUS
  <2>2. s[k] = Call("receive_finish", node)
    BY <1>9, <2>1
  <2>. QED  BY <2>2, CallAnywhere
<1>. QED  BY <1>11, <1>12 DEF Quiet

\* RequestFrame keeps the invariant.
LEMMA RequestFrameKeeps ==
    ASSUME PipeInv, NEW f \in DOMAIN graph.filters, RequestFrame(f)
    PROVE  PipeInv'
<1>0. FltInv /\ graph \in Graphs /\ WellFormed(graph) /\ Sized(graph)
  BY GraphForm DEF PipeInv
<1>1. /\ graph' = graph /\ UNCHANGED <<sched, choked, frozen, terminate>>
      /\ UNCHANGED <<q, closed, dst_finished, reader, dec, opened, sync, mux, asleep, main>>
  BY DEF RequestFrame, chokingVars
<1>2. PICK t \in Tasks(graph) : t = <<"filter", f>> /\ t[1] \notin {"mux", "demux"}
  BY FilterTask
<1>3. PICK old : old = flt[f]
  OBVIOUS
<1>4. IsFilter(graph, f, old)
  BY <1>0, <1>3 DEF FltInv
<1>5. PICK in \in Nat : in = graph.filters[f].in
  BY <1>0 DEF Sized
<1>6. PICK fl : fl = Cook(f, old)
  OBVIOUS
<1>7. PICK now : now = Emit(f, old)
  OBVIOUS
<1>8. IsFilter(graph, f, fl) /\ IsFilter(graph, f, now)
  BY <1>0, <1>4, <1>6, <1>7, CookForm, EmitForm
\* The inputs are closed, and the next one is chosen.
<1>9. ASSUME NEW b, IsFilter(graph, f, b), NEW next \in 1 .. NoInput(graph, f), NEW x, x = [b EXCEPT !.next = next],
             flt' = [flt EXCEPT ![f] = [x EXCEPT !.eof = @ \cup Range(Shut(f, x))]],
             Goto(t, "receive", [k \in DOMAIN Shut(f, x) |-> Call("receive_finish", Node("fin", f, Shut(f, x)[k]))])
      PROVE  PipeInv'
  <2>1. PICK s : s = [k \in DOMAIN Shut(f, x) |-> Call("receive_finish", Node("fin", f, Shut(f, x)[k]))]
    OBVIOUS
  <2>2. Quiet(graph, t, s)
    BY <1>0, <2>1, ShutQuiet
  <2>3. IsTodo(graph, t, s) /\ Fresh(dst_finished, s)
    <3>1. PICK fin : fin = dst_finished
      OBVIOUS
    <3>2. IsTodo(graph, t, s) /\ Fresh(fin, s)
      BY <2>2, QuietTodo
    <3>. QED  BY <3>1, <3>2
  <2>4. PICK more : more = Range(Shut(f, x))
    OBVIOUS
  <2>5. PICK y : y = [x EXCEPT !.eof = @ \cup more]
    OBVIOUS
  <2>6. flt' = [flt EXCEPT ![f] = y] /\ Goto(t, "receive", s)
    BY <1>9, <2>1, <2>4, <2>5
  <2>7. /\ DOMAIN x = DOMAIN b /\ x.format = b.format /\ x.buf = b.buf
        /\ x.next = next /\ x.configured = b.configured /\ x.ripe = b.ripe /\ x.sink = b.sink
    BY <1>9 DEF IsFilter
  <2>8. /\ DOMAIN y = DOMAIN x /\ y.format = x.format /\ y.buf = x.buf
        /\ y.next = x.next /\ y.configured = x.configured /\ y.ripe = x.ripe /\ y.sink = x.sink
    BY <1>9, <2>5, <2>7 DEF IsFilter
  <2>9. IsFilter(graph, f, y)
    BY <1>9, <2>7, <2>8 DEF IsFilter
  <2>10. FltInv'
    BY <1>0, <1>1, <2>6, <2>9, FltStep
  <2>. QED  BY <1>1, <1>2, <2>3, <2>6, <2>10, GoesOn
<1>10. CASE fl.ripe # <<>>
  <2>1. PICK next \in 1 .. NoInput(graph, f) : next = NoInput(graph, f)
    BY <1>5 DEF NoInput
  <2>2. PICK x : /\ x = [now EXCEPT !.next = next]
                 /\ flt' = [flt EXCEPT ![f] = [x EXCEPT !.eof = @ \cup Range(Shut(f, x))]]
                 /\ Goto(t, "receive", [k \in DOMAIN Shut(f, x) |-> Call("receive_finish", Node("fin", f, Shut(f, x)[k]))])
    BY <1>2, <1>3, <1>5, <1>6, <1>7, <1>10, <2>1 DEF RequestFrame, Shut, Lavfi
  <2>. QED  BY <1>8, <1>9, <2>1, <2>2
<1>11. CASE fl.ripe = <<>> /\ GraphEnded(f, fl)
  <2>1. Goto(t, "over", <<>>) /\ flt' = flt
    BY <1>2, <1>3, <1>6, <1>11 DEF RequestFrame
  <2>. QED  BY <1>1, <1>2, <2>1, NothingTodo, GoesOn
<1>12. CASE fl.ripe = <<>> /\ ~ GraphEnded(f, fl)
  <2>1. PICK next, x :
          /\ next \in 1 .. in
          /\ x = [fl EXCEPT !.next = next]
          /\ flt' = [flt EXCEPT ![f] = [x EXCEPT !.eof = @ \cup Range(Shut(f, x))]]
          /\ Goto(t, "receive", [k \in DOMAIN Shut(f, x) |-> Call("receive_finish", Node("fin", f, Shut(f, x)[k]))])
    BY <1>2, <1>3, <1>5, <1>6, <1>12 DEF RequestFrame, Shut, Lavfi
  <2>2. next \in 1 .. NoInput(graph, f)
    BY <1>5, <2>1 DEF NoInput
  <2>. QED  BY <1>8, <1>9, <2>1, <2>2
<1>. QED  BY <1>10, <1>11, <1>12

\* FilterDone keeps the invariant.
LEMMA FilterDoneKeeps ==
    ASSUME PipeInv, NEW f \in DOMAIN graph.filters, FilterDone(f)
    PROVE  PipeInv'
<1>0. WellFormed(graph)
  BY GraphForm
<1>1. /\ graph' = graph /\ UNCHANGED <<sched, choked, frozen, terminate>>
      /\ UNCHANGED <<q, closed, dst_finished, reader, dec, flt, opened, sync, mux, asleep, main>>
  BY DEF FilterDone, chokingVars
<1>2. PICK t \in Tasks(graph) : t = <<"filter", f>> /\ t[1] \notin {"mux", "demux"}
  BY FilterTask
<1>3. PICK a : a = <<Call("queue_done", NoNode), Call("exited", NoNode)>>
  OBVIOUS
<1>4. PICK b : b = CloseCalls(f)
  OBVIOUS
<1>5. PICK s : s = IF flt[f].configured THEN b \o a ELSE CleanUp(t)
  OBVIOUS
<1>6. Goto(t, "gone", s)
  BY <1>2, <1>3, <1>4, <1>5 DEF FilterDone
<1>7. Quiet(graph, t, s)
  <2>1. Quiet(graph, t, a)
    BY <1>3, CallAnywhere, TwoQuiet
  <2>2. Quiet(graph, t, b)
    BY <1>0, <1>2, <1>4, CloseCallsQuiet
  <2>3. Quiet(graph, t, b \o a)
    BY <2>1, <2>2, ConcatQuiet
  <2>4. Quiet(graph, t, CleanUp(t))
    BY <1>0, <1>2, CleanUpTodo
  <2>. QED  BY <1>5, <2>3, <2>4
<1>8. IsTodo(graph, t, s) /\ Fresh(dst_finished, s)
  <2>1. PICK fin : fin = dst_finished
    OBVIOUS
  <2>2. IsTodo(graph, t, s) /\ Fresh(fin, s)
    BY <1>7, QuietTodo
  <2>. QED  BY <2>1, <2>2
<1>. QED  BY <1>1, <1>2, <1>6, <1>8, GoesOn

-----------------------------------------------------------------------------
(* The main thread                                                         *)

\* The main thread goes on.
LEMMA MainMoves ==
    ASSUME MainInv, main.pc # "refused", graph' = graph, DOMAIN main' = {"pc", "failed", "quit"}
    PROVE  MainInv'
BY DEF MainInv

\* The steps of the main thread keep it.
LEMMA MainKeeps ==
    ASSUME PipeInv, Quit \/ MainNext
    PROVE  PipeInv'
<1>0. TaskInv /\ CountInv /\ MainInv /\ RateInv /\ WellFormed(graph)
  BY GraphForm DEF PipeInv
<1>1. /\ graph' = graph
      /\ UNCHANGED <<q, closed, dst_finished, task, reader, dec, flt, opened, sync, mux, asleep>>
  BY DEF Quit, MainNext, FirstUpdate, Terminate, ChokeAll, Join, ChokeForStop, chokingVars
<1>2. main.pc # "refused"
  BY DEF Quit, MainNext, FirstUpdate, Terminate, ChokeAll, Join, MainStep
<1>3. DOMAIN main' = DOMAIN main
  <2>1. (\E x : main' = [main EXCEPT !.pc = x]) \/ main' = [main EXCEPT !.quit = TRUE]
    BY DEF Quit, MainNext, FirstUpdate, Terminate, ChokeAll, Join, MainStep
  <2>. QED  BY <2>1
<1>4. MainInv'
  <2>1. DOMAIN main' = {"pc", "failed", "quit"}
    BY <1>0, <1>3 DEF MainInv
  <2>. QED  BY <1>0, <1>1, <1>2, <2>1, MainMoves
<1>5. TaskInv' /\ CountInv'
  BY <1>0, <1>1, TaskStays
<1>6. NoNewSend
  BY <1>1 DEF NoNewSend
<1>7. RateInv' \/ UNCHANGED <<sched, choked, frozen, asleep, opened>>
  <2>1. CASE FirstUpdate
    <3>1. PICK s : s = sched
      OBVIOUS
    <3>2. ScheduleUpdate(s, frozen) /\ DOMAIN s = DOMAIN sched /\ IsSched(graph, s)
      BY <1>0, <2>1, <3>1 DEF FirstUpdate, RateInv
    <3>. QED  BY <1>0, <1>1, <1>2, <3>2, UpdateKeeps
  <2>2. CASE ChokeAll
    <3>1. choked' \subseteq Waiters(graph) /\ frozen' \subseteq frozen /\ sched' = sched
      BY <2>2 DEF ChokeAll, ChokeForStop
    <3>. QED  BY <1>0, <1>1, <3>1 DEF RateInv
  <2>3. CASE Quit \/ Terminate \/ Join
    BY <2>3 DEF Quit, Terminate, Join, chokingVars
  <2>. QED  BY <2>1, <2>2, <2>3 DEF MainNext
<1>. QED  BY <1>1, <1>4, <1>5, <1>6, <1>7, Rest

\* A step in which nothing happens.
LEMMA StutterKeeps ==
    ASSUME PipeInv, UNCHANGED vars
    PROVE  PipeInv'
<1>0. TaskInv /\ CountInv
  BY DEF PipeInv
<1>1. /\ graph' = graph /\ UNCHANGED <<sched, choked, frozen, terminate>>
      /\ UNCHANGED <<q, closed, dst_finished, task, reader, dec, flt, opened, sync, mux, asleep, main>>
  BY DEF vars, chokingVars, pipeVars
<1>2. TaskInv' /\ CountInv'
  BY <1>0, <1>1, TaskStays
<1>3. NoNewSend
  BY <1>1 DEF NoNewSend
<1>. QED  BY <1>1, <1>2, <1>3, Rest

-----------------------------------------------------------------------------
(* Every step                                                              *)

\* Every step of a thread keeps the invariant,
LEMMA TaskKeeps ==
    ASSUME PipeInv, NEW t, TaskNext(t)
    PROVE  PipeInv'
<1>0. main.pc # "refused" /\ t \in Tasks(graph)
  BY DEF TaskNext, PipeInv, TaskInv
<1>1. /\ t[1] = "demux" => t[2] \in DOMAIN graph.demux
      /\ t[1] = "dec" => t[2] \in 1 .. graph.nb_dec
      /\ t[1] = "filter" => t[2] \in DOMAIN graph.filters
      /\ t[1] = "enc" => t[2] \in 1 .. graph.nb_enc
      /\ t[1] = "mux" => t[2] \in DOMAIN graph.mux
  BY <1>0, TaskCases
<1>2. CASE TaskCall(t) \/ Fail(t) \/ FallAsleep(t) \/ Discard(t)
  BY <1>0, <1>2, CallKeeps, FailKeeps, FallAsleepKeeps, DiscardKeeps
<1>3. CASE t[1] = "demux" /\ (DemuxNext(t[2]) \/ DemuxSend(t[2]) \/ DemuxLoop(t[2]) \/ DemuxDone(t[2]))
  BY <1>1, <1>3, DemuxNextKeeps, DemuxSendKeeps, DemuxLoopKeeps, DemuxDoneKeeps
<1>4. CASE t[1] = "dec" /\ (DecRetry(t[2]) \/ DecReceive(t[2]) \/ DecCheck(t[2]) \/ DecDrain(t[2])
                              \/ DecDone(t[2]))
  BY <1>1, <1>4, DecRetryKeeps, DecReceiveKeeps, DecCheckKeeps, DecDrainKeeps, DecDoneKeeps
<1>5. CASE t[1] = "enc" /\ EncReceive(t[2])
  BY <1>1, <1>5, EncReceiveKeeps
<1>6. CASE t[1] = "mux" /\ MuxReceive(t[2])
  BY <1>1, <1>6, MuxReceiveKeeps
<1>7. CASE t[1] = "filter" /\ (FilterWish(t[2]) \/ FilterReceive(t[2]) \/ FilterPoll(t[2]) \/ FilterWait(t[2])
                                 \/ ReadFrames(t[2]) \/ RequestFrame(t[2]) \/ FilterDone(t[2]))
  BY <1>0, <1>1, <1>7, FilterWishKeeps, FilterReceiveKeeps, FilterWaitKeeps, ReadFramesKeeps, RequestFrameKeeps,
     FilterDoneKeeps
<1>. QED  BY <1>2, <1>3, <1>4, <1>5, <1>6, <1>7 DEF TaskNext

\* and every step of the program does.
LEMMA StepKeeps ==
    ASSUME PipeInv, [Next]_vars
    PROVE  PipeInv'
<1>1. CASE \E t \in AllTasks : TaskNext(t)
  BY <1>1, TaskKeeps
<1>2. CASE Quit \/ MainNext
  BY <1>2, MainKeeps
<1>3. CASE Finished \/ UNCHANGED vars
  BY <1>3, StutterKeeps DEF Finished
<1>. QED  BY <1>1, <1>2, <1>3 DEF Next

\* At the start nothing is to be done, sent or finished.
LEMMA InitHolds ==
    ASSUME Init
    PROVE  PipeInv
<1>0. graph \in Graphs /\ WellFormed(graph) /\ Sized(graph)
  BY GraphsAssumption DEF Init, WellFormed
<1>1. /\ DOMAIN task = Tasks(graph)
      /\ \A t \in Tasks(graph) : /\ task[t] = [pc |-> IF t[1] = "demux" THEN "next" ELSE "receive", todo |-> <<>>]
                                 /\ task[t].pc = IF t[1] = "demux" THEN "next" ELSE "receive"
                                 /\ task[t].todo = <<>>
  BY DEF Init
<1>2. TaskInv
  <2>1. ASSUME NEW t \in Tasks(graph)
        PROVE  /\ task[t] = [pc |-> task[t].pc, todo |-> task[t].todo]
               /\ IsTodo(graph, t, task[t].todo)
               /\ Fresh(dst_finished, task[t].todo)
               /\ \A i \in DOMAIN task[t].todo : task[t].todo[i].op = "mux_done" => task[t].pc = "gone"
    <3>1. IsTodo(graph, t, <<>>) /\ Fresh(dst_finished, <<>>)
      BY NothingTodo
    <3>2. task[t].todo = <<>> /\ DOMAIN <<>> = {}
      BY <1>1, NoSeq
    <3>3. task[t] = [pc |-> task[t].pc, todo |-> task[t].todo]
      BY <1>1
    <3>. QED  BY <3>1, <3>2, <3>3
  <2>. QED  BY <1>1, <2>1 DEF TaskInv
<1>3. CountInv
  <2>1. ASSUME NEW m \in DOMAIN graph.mux PROVE ~ Counted(task[<<"mux", m>>])
    <3>1. PICK t \in Tasks(graph) : t = <<"mux", m>>
      BY TaskCases
    <3>2. task[t].pc = "next" \/ task[t].pc = "receive"
      BY <1>1
    <3>. QED  BY <3>1, <3>2 DEF Counted
  <2>2. {m \in DOMAIN graph.mux : Counted(task[<<"mux", m>>])} = {}
    BY <2>1
  <2>3. mux.done = 0
    BY DEF Init
  <2>. QED  BY <2>2, <2>3, FS_EmptySet DEF CountInv
<1>4. QueueInv
  BY NoQueue DEF Init, QueueInv
<1>5. RateInv
  <2>1. sched = InitSched(graph) /\ choked = {} /\ frozen = {} /\ asleep = {} /\ opened = {}
    BY DEF Init, ChokingInit
  <2>2. /\ DOMAIN sched = {"last_dts", "source_finished", "best_input", "send_finished", "receive_finished", "exited"}
        /\ sched.source_finished = {} /\ sched.best_input = [f \in DOMAIN graph.filters |-> 1]
    BY <2>1 DEF InitSched
  <2>3. \A f \in DOMAIN graph.filters : 1 \in 1 .. NoInput(graph, f)
    BY <1>0 DEF Sized, NoInput
  <2>. QED  BY <1>0, <2>1, <2>2, <2>3 DEF RateInv, IsSched
<1>6. ReaderInv
  <2>1. ASSUME NEW d \in DOMAIN graph.demux PROVE task[<<"demux", d>>].pc # "send"
    <3>1. PICK t \in Tasks(graph) : t = <<"demux", d>>
      BY TaskCases
    <3>. QED  BY <1>1, <3>1
  <2>2. /\ DOMAIN reader = DOMAIN graph.demux
        /\ \A d \in DOMAIN graph.demux :
              /\ DOMAIN reader[d] = {"pos", "stream", "rest", "sent", "finished", "nb_finished", "loop", "shift"}
              /\ reader[d].pos = 1 /\ reader[d].rest = <<>>
    BY DEF Init
  <2>. QED  BY <2>1, <2>2 DEF ReaderInv
<1>7. FltInv
  <2>1. ASSUME NEW f \in DOMAIN graph.filters PROVE IsFilter(graph, f, flt[f])
    <3>1. PICK n \in Nat : n = graph.filters[f].in
      BY <1>0 DEF Sized
    <3>2. PICK x : x = flt[f]
      OBVIOUS
    <3>3. x = [format |-> {}, configured |-> n = 0, eof_in |-> {}, eof |-> {},
               next |-> 1, got_frame |-> FALSE, made |-> 0, ripe |-> <<>>, sink |-> <<>>,
               buf |-> [k \in 1 .. n |-> <<>>]]
      BY <3>1, <3>2 DEF Init
    <3>4. IsMedia(<<>>)
      BY NoSeq DEF IsMedia
    <3>5. DOMAIN x = {"format", "configured", "eof_in", "eof", "next", "got_frame", "made", "ripe", "sink", "buf"}
      BY <3>3
    <3>6. x.next \in 1 .. NoInput(graph, f) /\ x.format \subseteq 1 .. n /\ x.configured \in BOOLEAN
      BY <3>1, <3>3 DEF NoInput
    <3>7. ~ x.configured => x.format # 1 .. n
      <4>1. n # 0 => 1 \in 1 .. n
        BY <3>1
      <4>. QED  BY <3>3, <4>1
    <3>8. IsMedia(x.ripe) /\ IsMedia(x.sink) /\ DOMAIN x.buf = 1 .. n /\ \A k \in 1 .. n : IsMedia(x.buf[k])
      BY <3>3, <3>4
    <3>. QED  BY <3>1, <3>2, <3>5, <3>6, <3>7, <3>8 DEF IsFilter
  <2>2. DOMAIN flt = DOMAIN graph.filters
    BY DEF Init
  <2>. QED  BY <2>1, <2>2 DEF FltInv
<1>8. MainInv
  BY DEF Init, MainInv, StartPrepare
<1>9. EndInv
  BY DEF Init, EndInv
<1>10. MuxInv
  BY NoSeq DEF Init, MuxInv
<1>11. SyncInv
  <2>1. IsMedia(<<>>)
    BY NoSeq DEF IsMedia
  <2>. QED  BY <2>1 DEF Init, SyncInv
<1>. QED  BY <1>2, <1>3, <1>4, <1>5, <1>6, <1>7, <1>8, <1>9, <1>10, <1>11 DEF PipeInv

\* What is known of the threads, the queues, what is finished and what is still to be
\* done holds of every state of a running program.
THEOREM PipelineInvariant == Spec => []PipeInv
<1>1. Init => PipeInv
  BY InitHolds
<1>2. PipeInv /\ [Next]_vars => PipeInv'
  BY StepKeeps
<1>. QED  BY <1>1, <1>2, PTL DEF Spec

\* The queues hold items of their own streams, rate control knows only what the graph
\* has, and no muxer is counted twice in nb_mux_done.
THEOREM PipelineTypes == Spec => []TypeOK
<1>1. PipeInv => TypeOK
  <2>1. SUFFICES ASSUME PipeInv PROVE TypeOK
    OBVIOUS
  <2>2. RateInv /\ QueueInv /\ CountInv /\ Sized(graph)
    BY <2>1, GraphForm DEF PipeInv
  <2>3. ASSUME NEW t \in DOMAIN q, NEW i \in DOMAIN q[t] PROVE q[t][i][1] \in QueueStreams(t)
    <3>1. PICK n \in Sinks(graph) : n = q[t][i][1] /\ Queue(n) = t
      BY <2>2 DEF QueueInv, IsQueue
    <3>. QED  BY <2>2, <3>1, QueueForms
  <2>4. mux.done \in 0 .. Len(graph.mux)
    <3>1. PICK n \in Nat : n = Len(graph.mux) /\ DOMAIN graph.mux = 1 .. n
      BY <2>2 DEF Sized
    <3>2. PICK S : S = {m \in 1 .. n : Counted(task[<<"mux", m>>])}
      OBVIOUS
    <3>3. IsFiniteSet(1 .. n) /\ Cardinality(1 .. n) = n
      BY FS_Interval
    <3>4. IsFiniteSet(S) /\ Cardinality(S) <= n /\ Cardinality(S) \in Nat
      <4>1. S \subseteq 1 .. n
        BY <3>2
      <4>. QED  BY <3>3, <4>1, FS_Subset, FS_CardinalityType
    <3>5. mux.done = Cardinality(S)
      BY <2>2, <3>1, <3>2 DEF CountInv
    <3>. QED  BY <3>1, <3>4, <3>5
  <2>. QED  BY <2>2, <2>3, <2>4 DEF TypeOK, RateInv, IsSched
<1>. QED  BY <1>1, PipelineInvariant, PTL

\* No thread sends on a stream that was finished for sending, so tq_send never fails
\* with EINVAL: what is finished for sending is no longer wanted, or its sender has
\* recorded it and has nothing more to send there; behind a sync queue, an encoder is
\* finished only when the queue has nothing left for any of them.
THEOREM NothingSentAfterEnd == Spec => []Orderly
<1>1. PipeInv => Orderly
  <2>1. SUFFICES ASSUME PipeInv PROVE Orderly
    OBVIOUS
  <2>2. TaskInv /\ EndInv /\ SyncInv
    BY <2>1 DEF PipeInv
  <2>3. ASSUME NEW t \in DOMAIN task, Doing(t, "send"), NEW c, c = Head(task[t].todo),
               c.dst \in closed.send, ~ Synced(c.dst)
        PROVE  c.dst \in closed.recv /\ <<c.src, c.dst>> \notin dst_finished
    <3>1. t \in Tasks(graph)
      BY <2>2 DEF TaskInv
    <3>2. c.op = "send" /\ IsCall(graph, t, c) /\ <<c.src, c.dst>> \notin dst_finished
      BY <2>2, <2>3, <3>1, CallForm
    <3>3. Link(graph, t, c)
      BY <3>2 DEF IsCall
    <3>4. c.dst \in closed.recv \/ <<SrcOf(graph, c.dst), c.dst>> \in dst_finished
      BY <2>2, <2>3, <3>3 DEF EndInv, Link, Synced, SyncedIn
    <3>. QED  BY <3>2, <3>3, <3>4 DEF Link, SrcOf
  <2>4. \A j \in graph.synced :
           SyncReady(sync, j) /\ Node("enc", j, 1) \in closed.send => Node("enc", j, 1) \in closed.recv
    BY <2>2, SyncOpen
  <2>. QED  BY <2>3, <2>4 DEF Orderly
<1>. QED  BY <1>1, PipelineInvariant, PTL

=============================================================================
