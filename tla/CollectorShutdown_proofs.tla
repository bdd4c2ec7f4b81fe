---------------------- MODULE CollectorShutdown_proofs ----------------------
(***************************************************************************)
(* Theorems about CollectorShutdown, with and without faults.              *)
(***************************************************************************)
EXTENDS CollectorShutdown, TLAPS

\* The tasks async_main spawns last.
Last3 == {"ping", "upload", "signal"}

\* They do not exist before the node runs and its address is known.
LateTasks ==
    pc \in {"build", "connect", "meta", "wait", "address"} =>
        \A t \in Last3 : main_tasks[t] = "none"

\* The signal task neither fails nor panics, and once it has gone on from its select
\* the node is stopped and stays so.
SignalStopsNode ==
    /\ main_tasks["signal"] \in {"none", "idle", "busy", "ok", "aborted"}
    /\ main_tasks["signal"] \in {"busy", "ok"} => ldk = "stopped"

\* Nothing of the JoinSet survives async_main.
NothingRunsAfterExit == pc = "exit" => \A t \in Task : main_tasks[t] \in Ended

ShutIInv ==
    /\ ShutTypeOK
    /\ LateTasks
    /\ SignalStopsNode
    /\ NothingRunsAfterExit
    /\ SuccessIsOrderly
    /\ NodeStoppedUnlessPanic
-----------------------------------------------------------------------------
TaskState == Ended \cup {"barrier", "idle", "busy", "asked", "replied", "check"}

\* A task that changes its state is the only one that does.
LEMMA BecomeOne ==
    ASSUME NEW t \in Task, NEW state \in TaskState,
           main_tasks \in [Task -> TaskState], Become(t, state)
    PROVE  /\ main_tasks' \in [Task -> TaskState]
           /\ main_tasks'[t] = state
           /\ \A u \in Task \ {t} : main_tasks'[u] = main_tasks[u]
BY DEF Become

\* Several tasks that start or are aborted together.
LEMMA BecomeMany ==
    ASSUME NEW tasks, NEW state \in TaskState,
           main_tasks \in [Task -> TaskState], BecomeAll(tasks, state)
    PROVE  /\ main_tasks' \in [Task -> TaskState]
           /\ \A u \in Task : main_tasks'[u] = IF u \in tasks THEN state ELSE main_tasks[u]
BY DEF BecomeAll

\* The initial state satisfies the invariant.
LEMMA ShutIInvInit == ShutInit => ShutIInv
BY DEF ShutInit, ShutIInv, ShutTypeOK, LateTasks, SignalStopsNode, NothingRunsAfterExit,
       SuccessIsOrderly, NodeStoppedUnlessPanic, Last3, Task, Exporters, Ended, Finished

\* A step of a task other than signal keeps the invariant when it leaves the node, the
\* actor and main alone, starts from a state that is not an end and never unsets the token.
LEMMA ShutIInvTask ==
    ASSUME ShutIInv, NEW t \in Task \ {"signal"}, NEW state \in TaskState \ {"none", "aborted"},
           main_tasks[t] \notin Ended, Become(t, state),
           stop_signal' \in BOOLEAN, stop_signal => stop_signal',
           UNCHANGED <<pc, conn_manager, result>>,
           ldk' \in {ldk, "stopped"}
    PROVE  ShutIInv'
<1>t. main_tasks \in [Task -> TaskState]
  BY DEF ShutIInv, ShutTypeOK, TaskState
<1>1. /\ main_tasks' \in [Task -> TaskState]
      /\ main_tasks'[t] = state
      /\ \A u \in Task \ {t} : main_tasks'[u] = main_tasks[u]
  BY <1>t, BecomeOne
<1>2. pc # "exit"
  BY DEF ShutIInv, NothingRunsAfterExit
<1>3. "signal" \in Task
  BY DEF Task
<1>4. ShutTypeOK'
  BY <1>1 DEF ShutIInv, ShutTypeOK, TaskState
<1>5. LateTasks'
  BY <1>1 DEF ShutIInv, LateTasks, Last3, Task, Ended
<1>6. SignalStopsNode'
  BY <1>1, <1>3 DEF ShutIInv, SignalStopsNode
<1> QED BY <1>2, <1>4, <1>5, <1>6 DEF ShutIInv, NothingRunsAfterExit, SuccessIsOrderly,
                                    NodeStoppedUnlessPanic

\* The steps of the tasks keep it.
LEMMA ShutIInvTasks ==
    ASSUME ShutIInv,
           \/ \E t \in Task : Answered(t) \/ Stop(t) \/ ExporterFails(t)
           \/ Ask("monitor") \/ Ask("ping")
           \/ MonitorTick \/ MonitorRotate \/ MonitorCheck
           \/ PingReport \/ UploadTick \/ UploadDone \/ SweeperTick
           \/ GrpcFails \/ GrpcShutdown \/ GrpcCancel
    PROVE  ShutIInv'
<1>s. main_tasks["signal"] \in {"none", "idle", "busy", "ok", "aborted"}
  BY DEF ShutIInv, SignalStopsNode
<1>k. stop_signal \in BOOLEAN
  BY DEF ShutIInv, ShutTypeOK
<1>n. {"ok", "err", "panic", "idle", "busy", "asked", "replied", "check"}
          \subseteq TaskState \ {"none", "aborted"}
  BY DEF TaskState, Ended, Finished
<1>e. {"idle", "busy", "asked", "replied", "check"} \cap Ended = {}
  BY DEF Ended, Finished
<1>t. {"monitor", "ping", "upload", "sweeper", "grpc"} \subseteq Task \ {"signal"}
  BY DEF Task
<1>1. ASSUME NEW t \in Task, Answered(t) PROVE ShutIInv'
  <2>1. PICK state \in {"replied", "panic"} : Become(t, state)
    BY <1>1 DEF Answered
  <2> QED BY <1>1, <2>1, <1>s, <1>k, <1>n, <1>e, ShutIInvTask DEF Answered
<1>2. ASSUME NEW t \in Task, Stop(t) PROVE ShutIInv'
  BY <1>2, <1>k, <1>n, <1>e, ShutIInvTask DEF Stop
<1>3. ASSUME NEW t \in Task, ExporterFails(t) PROVE ShutIInv'
  <2>1. PICK state \in {"err", "panic"} : Become(t, state)
    BY <1>3 DEF ExporterFails
  <2>2. t # "signal"
    BY <1>3 DEF ExporterFails, Exporters
  <2> QED BY <1>3, <2>1, <2>2, <1>n, <1>e, ShutIInvTask DEF ExporterFails
<1>4. ASSUME NEW t \in {"monitor", "ping"}, Ask(t) PROVE ShutIInv'
  <2>1. PICK state \in {"asked", "panic"} : Become(t, state)
    BY <1>4 DEF Ask
  <2>2. main_tasks[t] \in {"idle", "busy"}
    BY <1>4 DEF Ask
  <2> QED BY <1>4, <2>1, <2>2, <1>k, <1>n, <1>e, <1>t, ShutIInvTask DEF Ask
<1>5. CASE MonitorTick
  BY <1>5, <1>k, <1>n, <1>e, <1>t, ShutIInvTask DEF MonitorTick
<1>6. CASE MonitorRotate
  <2>1. PICK state \in {"check", "panic"} : Become("monitor", state)
    BY <1>6 DEF MonitorRotate
  <2> QED BY <1>6, <2>1, <1>k, <1>n, <1>e, <1>t, ShutIInvTask DEF MonitorRotate
<1>7. CASE MonitorCheck
  <2>1. PICK state \in {"ok", "idle", "busy"} : Become("monitor", state)
    BY <1>7 DEF MonitorCheck
  <2> QED BY <1>7, <2>1, <1>k, <1>n, <1>e, <1>t, ShutIInvTask DEF MonitorCheck
<1>8. CASE PingReport
  <2>1. PICK state \in {"idle", "err"} : Become("ping", state)
    BY <1>8 DEF PingReport
  <2> QED BY <1>8, <2>1, <1>k, <1>n, <1>e, <1>t, ShutIInvTask DEF PingReport
<1>9. CASE UploadTick
  BY <1>9, <1>k, <1>n, <1>e, <1>t, ShutIInvTask DEF UploadTick
<1>10. CASE UploadDone
  <2>1. PICK state \in {"idle", "err"} : Become("upload", state)
    BY <1>10 DEF UploadDone
  <2> QED BY <1>10, <2>1, <1>k, <1>n, <1>e, <1>t, ShutIInvTask DEF UploadDone
<1>11. CASE SweeperTick
  BY <1>11, <1>k, <1>n, <1>e, <1>t, ShutIInvTask DEF SweeperTick
<1>12. CASE GrpcFails
  BY <1>12, <1>k, <1>n, <1>e, <1>t, ShutIInvTask DEF GrpcFails
<1>13. CASE GrpcShutdown
  BY <1>13, <1>k, <1>n, <1>e, <1>t, ShutIInvTask DEF GrpcShutdown
<1>14. CASE GrpcCancel
  BY <1>14, <1>k, <1>n, <1>e, <1>t, ShutIInvTask DEF GrpcCancel
<1> QED BY <1>1, <1>2, <1>3, <1>4, <1>5, <1>6, <1>7, <1>8, <1>9, <1>10, <1>11, <1>12,
           <1>13, <1>14

\* The signal task and the actor keep it.
LEMMA ShutIInvSignal ==
    ASSUME ShutIInv, SignalStops \/ SignalCancels \/ ActorStops
    PROVE  ShutIInv'
<1>t. main_tasks \in [Task -> TaskState]
  BY DEF ShutIInv, ShutTypeOK, TaskState
<1>s. "signal" \in Task /\ {"busy", "ok"} \subseteq TaskState
  BY DEF Task, TaskState, Ended, Finished
<1>1. CASE SignalStops \/ SignalCancels
  <2>1. PICK state \in {"busy", "ok"} : Become("signal", state)
    BY <1>1 DEF SignalStops, SignalCancels
  <2>2. /\ main_tasks' \in [Task -> TaskState]
        /\ main_tasks'["signal"] = state
        /\ \A u \in Task \ {"signal"} : main_tasks'[u] = main_tasks[u]
    BY <1>t, <1>s, <2>1, BecomeOne
  <2>3. main_tasks["signal"] \in {"idle", "busy"}
    BY <1>1 DEF SignalStops, SignalCancels
  <2>4. pc # "exit"
    BY <1>s, <2>3 DEF ShutIInv, NothingRunsAfterExit, Ended, Finished
  <2>5. ldk' = "stopped"
    BY <1>1, <2>3 DEF SignalStops, SignalCancels, ShutIInv, SignalStopsNode
  <2>6. UNCHANGED <<pc, conn_manager, result>> /\ (stop_signal => stop_signal')
    BY <1>1 DEF SignalStops, SignalCancels
  <2>7. stop_signal' \in BOOLEAN
    BY <1>1 DEF SignalStops, SignalCancels, ShutIInv, ShutTypeOK
  <2>8. ShutTypeOK'
    BY <2>2, <2>5, <2>6, <2>7 DEF ShutIInv, ShutTypeOK, TaskState
  <2>9. LateTasks'
    BY <2>3, <2>6 DEF ShutIInv, LateTasks, Last3
  <2>10. SignalStopsNode'
    BY <2>2, <2>5 DEF SignalStopsNode
  <2> QED BY <2>4, <2>6, <2>8, <2>9, <2>10 DEF ShutIInv, NothingRunsAfterExit,
             SuccessIsOrderly, NodeStoppedUnlessPanic
<1>2. CASE ActorStops
  BY <1>2 DEF ActorStops, ShutIInv, ShutTypeOK, LateTasks, SignalStopsNode,
              NothingRunsAfterExit, SuccessIsOrderly, NodeStoppedUnlessPanic
<1> QED BY <1>1, <1>2
-----------------------------------------------------------------------------
(* async_main *)

\* Returning aborts what is left and touches nothing that has ended.
LEMMA ReturnAborts ==
    ASSUME NEW res, main_tasks \in [Task -> TaskState], Return(res)
    PROVE  /\ main_tasks' \in [Task -> TaskState]
           /\ \A t \in Task : main_tasks'[t] = IF main_tasks[t] \in Ended THEN main_tasks[t]
                                                ELSE "aborted"
<1>1. "aborted" \in TaskState
  BY DEF TaskState, Ended
<1>2. BecomeAll({t \in Task : main_tasks[t] \notin Ended}, "aborted")
  BY DEF Return
<1> QED BY <1>1, <1>2, BecomeMany

\* A return keeps the invariant if an "ok" follows an orderly end of all tasks, and
\* LDK is stopped, or a task panicked or was never started.
LEMMA ShutIInvReturn ==
    ASSUME ShutIInv, pc # "exit", NEW res \in {"ok", "err", "panic"}, Return(res),
           stop_signal' = stop_signal, UNCHANGED <<conn_manager, ldk>>,
           res = "ok" => \A t \in Task : main_tasks[t] = "ok",
           \/ ldk = "stopped"
           \/ \E t \in Task : main_tasks[t] \in {"none", "panic"}
    PROVE  ShutIInv'
<1>t. main_tasks \in [Task -> TaskState]
  BY DEF ShutIInv, ShutTypeOK, TaskState
<1>1. /\ main_tasks' \in [Task -> TaskState]
      /\ \A t \in Task : main_tasks'[t] = IF main_tasks[t] \in Ended THEN main_tasks[t]
                                           ELSE "aborted"
  BY <1>t, ReturnAborts
<1>2. {"none", "ok", "panic", "aborted"} \subseteq Ended /\ {"idle", "busy"} \cap Ended = {}
  BY DEF Ended, Finished
<1>3. "signal" \in Task
  BY DEF Task
<1>4. pc' = "exit" /\ result' = res
  BY DEF Return
<1>5. ShutTypeOK'
  BY <1>1, <1>4 DEF ShutIInv, ShutTypeOK, TaskState
<1>6. LateTasks' /\ NothingRunsAfterExit'
  BY <1>1, <1>2, <1>4 DEF LateTasks, NothingRunsAfterExit
<1>7. SignalStopsNode'
  BY <1>1, <1>2, <1>3 DEF ShutIInv, SignalStopsNode
<1>8. SuccessIsOrderly'
  <2>1. CASE res = "ok"
    BY <1>1, <1>2, <1>3, <1>4, <2>1 DEF ShutIInv, SignalStopsNode, SuccessIsOrderly
  <2> QED BY <1>4, <2>1 DEF SuccessIsOrderly
<1>9. NodeStoppedUnlessPanic'
  BY <1>1, <1>2 DEF NodeStoppedUnlessPanic
<1> QED BY <1>5, <1>6, <1>7, <1>8, <1>9 DEF ShutIInv

\* Starting tasks, before main joins them, keeps the invariant: the last three are
\* started together, when the node runs.
LEMMA ShutIInvStart ==
    ASSUME ShutIInv, Build \/ StartExporter \/ StartNode \/ NodeRuns \/ SpawnRest
    PROVE  ShutIInv'
<1>t. main_tasks \in [Task -> TaskState] /\ {"idle", "barrier"} \subseteq TaskState
  BY DEF ShutIInv, ShutTypeOK, TaskState
<1>p. pc \in {"build", "connect", "meta", "wait", "address"}
  BY DEF Build, StartExporter, StartNode, NodeRuns, SpawnRest
<1>l. Last3 \subseteq Task /\ "signal" \in Last3
  BY DEF Last3, Task
<1>n. \A t \in Last3 : main_tasks[t] = "none"
  BY <1>p DEF ShutIInv, LateTasks
<1>1. CASE Build \/ StartExporter \/ StartNode \/ NodeRuns
  <2>1. PICK tasks \in SUBSET (Task \ Last3), state \in {"idle", "barrier"} :
            BecomeAll(tasks, state)
    BY <1>1 DEF Build, StartExporter, StartNode, NodeRuns, Exporters, Last3, Task
  <2>2. /\ main_tasks' \in [Task -> TaskState]
        /\ \A t \in Last3 : main_tasks'[t] = "none"
    BY <1>t, <1>l, <1>n, <2>1, BecomeMany
  <2>3. ShutTypeOK'
    BY <1>1, <2>2 DEF Build, StartExporter, StartNode, NodeRuns, ShutIInv, ShutTypeOK, TaskState
  <2>4. pc' # "exit"
    BY <1>1 DEF Build, StartExporter, StartNode, NodeRuns
  <2> QED BY <1>l, <2>2, <2>3, <2>4 DEF ShutIInv, LateTasks, SignalStopsNode,
             NothingRunsAfterExit, SuccessIsOrderly, NodeStoppedUnlessPanic
<1>2. CASE SpawnRest
  <2>1. BecomeAll(Last3, "idle")
    BY <1>2 DEF SpawnRest, Last3
  <2>2. /\ main_tasks' \in [Task -> TaskState]
        /\ \A t \in Last3 : main_tasks'[t] = "idle"
    BY <1>t, <1>l, <2>1, BecomeMany
  <2>3. ShutTypeOK'
    BY <1>2, <2>2 DEF SpawnRest, ShutIInv, ShutTypeOK, TaskState
  <2>4. pc' = "join"
    BY <1>2 DEF SpawnRest
  <2> QED BY <1>l, <2>2, <2>3, <2>4 DEF ShutIInv, LateTasks, SignalStopsNode,
             NothingRunsAfterExit, SuccessIsOrderly, NodeStoppedUnlessPanic
<1> QED BY <1>1, <1>2

\* So does every way in which main ends its own work.
LEMMA ShutIInvEnd ==
    ASSUME ShutIInv, StartupFails \/ (\E t \in Task : JoinNext(t)) \/ JoinAll
    PROVE  ShutIInv'
<1>l. {"ping", "signal"} \subseteq Task /\ "ping" \in Last3
  BY DEF Last3, Task
<1>1. CASE StartupFails
  <2>1. main_tasks["ping"] = "none"
    BY <1>1, <1>l DEF StartupFails, ShutIInv, LateTasks
  <2> QED BY <1>1, <1>l, <2>1, ShutIInvReturn DEF StartupFails
<1>2. ASSUME NEW t \in Task, JoinNext(t) PROVE ShutIInv'
  <2>1. CASE main_tasks[t] = "panic"
    BY <1>2, <2>1, ShutIInvReturn DEF JoinNext
  <2>2. CASE main_tasks[t] # "panic"
    BY <1>2, <2>2 DEF JoinNext, ShutIInv, ShutTypeOK, LateTasks, SignalStopsNode,
                      NothingRunsAfterExit, SuccessIsOrderly, NodeStoppedUnlessPanic
  <2> QED BY <2>1, <2>2
<1>3. CASE JoinAll
  <2>1. CASE \E t \in Task : main_tasks[t] = "panic" /\ Return("panic")
    BY <1>3, <2>1, ShutIInvReturn DEF JoinAll
  <2>2. ASSUME \A t \in Task : main_tasks[t] \in {"ok", "err"},
               Return(IF \E t \in Task : main_tasks[t] = "err" THEN "err" ELSE "ok")
        PROVE  ShutIInv'
    <3>1. ldk = "stopped"
      BY <1>l, <2>2 DEF ShutIInv, SignalStopsNode
    <3> QED BY <1>3, <2>2, <3>1, ShutIInvReturn DEF JoinAll
  <2> QED BY <1>3, <2>1, <2>2 DEF JoinAll
<1> QED BY <1>1, <1>2, <1>3

\* Every step, and a stuttering step, keeps the invariant.
LEMMA ShutIInvNext == ShutIInv /\ [ShutNext]_shutVars => ShutIInv'
<1>1. ASSUME ShutIInv, UNCHANGED shutVars PROVE ShutIInv'
  BY <1>1 DEF ShutIInv, shutVars, ShutTypeOK, LateTasks, SignalStopsNode,
              NothingRunsAfterExit, SuccessIsOrderly, NodeStoppedUnlessPanic
<1>2. ASSUME ShutIInv, NEW t \in Task, Proceed(t) PROVE ShutIInv'
  BY <1>2, ShutIInvTasks, ShutIInvSignal DEF Proceed
<1> QED BY <1>1, <1>2, ShutIInvTasks, ShutIInvSignal, ShutIInvStart, ShutIInvEnd
        DEF ShutNext, Main

\* The reachable states satisfy the invariant; fairness is not needed.
THEOREM ShutInductive == ShutSpec => []ShutIInv
BY ShutIInvInit, ShutIInvNext, PTL DEF ShutSpec

\* The states of the tasks, the actor and the node, and that main drains the JoinSet,
\* and the actor is down, only under a cancelled token.
THEOREM ShutTypeCorrect == ShutSpec => []ShutTypeOK
<1>1. ShutIInv => ShutTypeOK
  BY DEF ShutIInv
<1> QED BY <1>1, ShutInductive, PTL

\* The collector's exit status 0 means an orderly shutdown, whatever fails or panics
\* and wherever: LDK is stopped and every task ended by itself without an error.
THEOREM OrderlyExit == ShutSpec => []SuccessIsOrderly
<1>1. ShutIInv => SuccessIsOrderly
  BY DEF ShutIInv
<1> QED BY <1>1, ShutInductive, PTL

\* After startup, only a panic makes the process leave a running node behind.
THEOREM NodeStopped == ShutSpec => []NodeStoppedUnlessPanic
<1>1. ShutIInv => NodeStoppedUnlessPanic
  BY DEF ShutIInv
<1> QED BY <1>1, ShutInductive, PTL
=============================================================================
