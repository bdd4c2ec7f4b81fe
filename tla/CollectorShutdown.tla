------------------------- MODULE CollectorShutdown -------------------------
(***************************************************************************)
(* The collector's async_main (gossip_collector/src/main.rs): the tasks it *)
(* spawns into a JoinSet, the cancellation token they share, the peer      *)
(* connection manager (an actor that the token stops, spawned outside the  *)
(* set) and the LDK node, from startup to the exit of the process. Of a    *)
(* task only what matters here is kept: when it looks at the token, when   *)
(* it calls the actor, and how it ends.                                    *)
(***************************************************************************)
EXTENDS Naturals, FiniteSets

CONSTANTS
    Faults   \* may startup, a task or an export fail?

Exporters == {"queue", "publish"}
Task == Exporters \cup {"sweeper", "monitor", "grpc", "ping", "upload", "signal"}

VARIABLES
    pc,            \* where async_main is
    main_tasks,    \* the tasks of the JoinSet
    stop_signal,   \* the token
    conn_manager,  \* the actor: none, up or down
    ldk,           \* the node: off, starting, running or stopped
    result         \* what async_main returns

shutVars == <<pc, main_tasks, stop_signal, conn_manager, ldk, result>>

Finished == {"ok", "err", "panic"}
Ended == Finished \cup {"none", "aborted"}

\* The states of the parts, and that main drains the JoinSet, and the actor is down,
\* only under a cancelled token: no arm of the tasks looks at anything else.
ShutTypeOK ==
    /\ pc \in {"build", "connect", "meta", "wait", "address", "join", "drain", "exit"}
    /\ main_tasks \in [Task -> Ended \cup {"barrier", "idle", "busy", "asked", "replied", "check"}]
    /\ stop_signal \in BOOLEAN
    /\ conn_manager \in {"none", "up", "down"}
    /\ ldk \in {"off", "starting", "running", "stopped"}
    /\ result \in {"none", "ok", "err", "panic"}
    /\ pc = "drain" \/ conn_manager = "down" => stop_signal

Become(t, state) == main_tasks' = [main_tasks EXCEPT ![t] = state]

BecomeAll(tasks, state) ==
    main_tasks' = [t \in Task |-> IF t \in tasks THEN state ELSE main_tasks[t]]
-----------------------------------------------------------------------------
(* async_main *)

\* async_main returns or panics: the JoinSet is dropped, which aborts its tasks, and
\* the process exits. (A step a task takes before it notices is one it took before.)
Return(res) ==
    /\ pc' = "exit"
    /\ result' = res
    /\ BecomeAll({t \in Task : main_tasks[t] \notin Ended}, "aborted")

\* An error of the startup is returned as it is: the token is not cancelled, a node
\* that runs is not stopped.
StartupFails ==
    /\ Faults
    /\ pc \in {"build", "connect", "meta", "address"}
    /\ Return("err")
    /\ UNCHANGED <<stop_signal, conn_manager, ldk>>

Build ==
    /\ pc = "build"
    /\ pc' = "connect"
    /\ conn_manager' = "up"
    /\ BecomeAll({"sweeper"}, "idle")
    /\ UNCHANGED <<stop_signal, ldk, result>>

StartExporter ==
    /\ pc = "connect"
    /\ pc' = "meta"
    /\ BecomeAll(Exporters, "barrier")
    /\ UNCHANGED <<stop_signal, conn_manager, ldk, result>>

\* set_export_metadata meets both tasks at the barrier; then the node is started.
\* Nothing cancels the token before that.
StartNode ==
    /\ pc = "meta"
    /\ pc' = "wait"
    /\ BecomeAll(Exporters, "idle")
    /\ ldk' = "starting"
    /\ UNCHANGED <<stop_signal, conn_manager, result>>

\* The loop that waits for LDK does not look at the token.
NodeRuns ==
    /\ pc = "wait"
    /\ pc' = "address"
    /\ ldk' = "running"
    /\ BecomeAll({"monitor", "grpc"}, "idle")
    /\ UNCHANGED <<stop_signal, conn_manager, result>>

SpawnRest ==
    /\ pc = "address"
    /\ pc' = "join"
    /\ BecomeAll({"ping", "upload", "signal"}, "idle")
    /\ UNCHANGED <<stop_signal, conn_manager, ldk, result>>

\* Mutant: main returns the first result and leaves the rest to the drop.
JoinNextOnly(t) ==
    /\ pc = "join"
    /\ main_tasks[t] \in Finished
    /\ stop_signal' = TRUE
    /\ Return(IF main_tasks[t] = "ok" THEN "ok" ELSE "err")
    /\ UNCHANGED <<conn_manager, ldk>>

\* Mutant: main goes on to join_all and leaves the cancelling to the tasks.
JoinNextNoCancel(t) ==
    /\ pc = "join"
    /\ main_tasks[t] \in Finished
    /\ IF main_tasks[t] = "panic"
       THEN Return("err")
       ELSE pc' = "drain" /\ UNCHANGED <<main_tasks, result>>
    /\ UNCHANGED <<stop_signal, conn_manager, ldk>>

\* The first task to end decides: "res?" returns the error of one that panicked at
\* once, otherwise the token is cancelled.
JoinNext(t) ==
    /\ pc = "join"
    /\ main_tasks[t] \in Finished
    /\ IF main_tasks[t] = "panic"
       THEN Return("err") /\ UNCHANGED stop_signal
       ELSE /\ pc' = "drain"
            /\ stop_signal' = TRUE
            /\ UNCHANGED <<main_tasks, result>>
    /\ UNCHANGED <<conn_manager, ldk>>

\* join_all panics as soon as it meets a task that did, and otherwise waits for all.
JoinAll ==
    /\ pc = "drain"
    /\ \/ /\ \E t \in Task : main_tasks[t] = "panic"
          /\ Return("panic")
       \/ /\ \A t \in Task : main_tasks[t] \in {"ok", "err"}
          /\ Return(IF \E t \in Task : main_tasks[t] = "err" THEN "err" ELSE "ok")
    /\ UNCHANGED <<stop_signal, conn_manager, ldk>>
-----------------------------------------------------------------------------
(* The peer connection manager *)

\* run_until_cancelled drops the actor, and with it the mailbox and the replies owed.
ActorStops ==
    /\ stop_signal
    /\ conn_manager = "up"
    /\ conn_manager' = "down"
    /\ UNCHANGED <<pc, main_tasks, stop_signal, ldk, result>>

\* A call (next_eligible_peer, get_eligible_peer_count): send and wait for the answer.
\* Both are unwrapped, so a task that calls a stopped actor panics.
Ask(t) ==
    /\ \/ t = "monitor" /\ main_tasks[t] = "busy"
       \/ t = "ping" /\ main_tasks[t] = "idle"
    /\ Become(t, IF conn_manager = "up" THEN "asked" ELSE "panic")
    /\ UNCHANGED <<pc, stop_signal, conn_manager, ldk, result>>

Answered(t) ==
    /\ main_tasks[t] = "asked"
    /\ Become(t, IF conn_manager = "up" THEN "replied" ELSE "panic")
    /\ UNCHANGED <<pc, stop_signal, conn_manager, ldk, result>>
-----------------------------------------------------------------------------
(* The tasks *)

\* Mutant: the upload task sleeps until its next cron time whatever happens.
StopAllButUpload(t) ==
    /\ stop_signal
    /\ main_tasks[t] = "idle" /\ t \notin {"signal", "upload"}
    /\ Become(t, "ok")
    /\ UNCHANGED <<pc, stop_signal, conn_manager, ldk, result>>

\* At its select, a task takes the arm of the cancelled token. The gRPC server first
\* answers what it is handling.
Stop(t) ==
    /\ stop_signal
    /\ main_tasks[t] = "idle" /\ t # "signal"
    /\ Become(t, "ok")
    /\ UNCHANGED <<pc, stop_signal, conn_manager, ldk, result>>

\* The sweeper's tick may win over the cancelled token; the send to a stopped actor is
\* a panic.
SweeperTick ==
    /\ main_tasks["sweeper"] = "idle"
    /\ conn_manager = "down"
    /\ Become("sweeper", "panic")
    /\ UNCHANGED <<pc, stop_signal, conn_manager, ldk, result>>

\* The monitor is below target: the inner loop waits for the rate limiter, then asks.
MonitorTick ==
    /\ main_tasks["monitor"] = "idle"
    /\ Become("monitor", "busy")
    /\ UNCHANGED <<pc, stop_signal, conn_manager, ldk, result>>

\* After the answer the list is rotated by another send.
MonitorRotate ==
    /\ main_tasks["monitor"] = "replied"
    /\ Become("monitor", IF conn_manager = "up" THEN "check" ELSE "panic")
    /\ UNCHANGED <<pc, stop_signal, conn_manager, ldk, result>>

\* Only here does the inner loop look at the token.
MonitorCheck ==
    /\ main_tasks["monitor"] = "check"
    /\ \E next \in (IF stop_signal THEN {"ok"} ELSE {"idle", "busy"}) : Become("monitor", next)
    /\ UNCHANGED <<pc, stop_signal, conn_manager, ldk, result>>

\* next_address may fail; then the calls to the controller, which may fail too but are
\* only logged.
PingReport ==
    /\ main_tasks["ping"] = "replied"
    /\ \E next \in {"idle"} \cup (IF Faults THEN {"err"} ELSE {}) : Become("ping", next)
    /\ UNCHANGED <<pc, stop_signal, conn_manager, ldk, result>>

\* The cron time has come; the cron expression or the blocking task may fail.
UploadTick ==
    /\ main_tasks["upload"] = "idle"
    /\ Become("upload", "busy")
    /\ UNCHANGED <<pc, stop_signal, conn_manager, ldk, result>>

UploadDone ==
    /\ main_tasks["upload"] = "busy"
    /\ \E next \in {"idle"} \cup (IF Faults THEN {"err"} ELSE {}) : Become("upload", next)
    /\ UNCHANGED <<pc, stop_signal, conn_manager, ldk, result>>

\* The server cannot bind its address, or loses its listener.
GrpcFails ==
    /\ Faults
    /\ main_tasks["grpc"] = "idle"
    /\ Become("grpc", "err")
    /\ UNCHANGED <<pc, stop_signal, conn_manager, ldk, result>>

\* The shutdown request: the node is stopped, then the token cancelled.
GrpcShutdown ==
    /\ main_tasks["grpc"] = "idle" /\ ~stop_signal
    /\ Become("grpc", "busy")
    /\ ldk' = "stopped"
    /\ UNCHANGED <<pc, stop_signal, conn_manager, result>>

GrpcCancel ==
    /\ main_tasks["grpc"] = "busy"
    /\ Become("grpc", "idle")
    /\ stop_signal' = TRUE
    /\ UNCHANGED <<pc, conn_manager, ldk, result>>

\* Mutant: the node is stopped by Ctrl-C only.
SignalStopsCtrlC ==
    /\ main_tasks["signal"] = "idle"
    /\ Become("signal", "busy")
    /\ ldk' = IF stop_signal THEN ldk ELSE "stopped"
    /\ UNCHANGED <<pc, stop_signal, conn_manager, result>>

\* Ctrl-C or the cancelled token: the node is stopped, then the token cancelled.
SignalStops ==
    /\ main_tasks["signal"] = "idle"
    /\ Become("signal", "busy")
    /\ ldk' = "stopped"
    /\ UNCHANGED <<pc, stop_signal, conn_manager, result>>

SignalCancels ==
    /\ main_tasks["signal"] = "busy"
    /\ Become("signal", "ok")
    /\ stop_signal' = TRUE
    /\ UNCHANGED <<pc, conn_manager, ldk, result>>

\* An exporter task ends on an error: its drop guard cancels the token. publish panics
\* when a publish fails; each finds its channel closed once the other has ended, also
\* when the token, cancelled by then, is ready too.
ExporterFails(t) ==
    /\ t \in Exporters /\ main_tasks[t] = "idle"
    /\ \/ Faults /\ Become(t, IF t = "publish" THEN "panic" ELSE "err")
       \/ (\E u \in Exporters \ {t} : main_tasks[u] \in Ended) /\ Become(t, "err")
    /\ stop_signal' = TRUE
    /\ UNCHANGED <<pc, conn_manager, ldk, result>>
-----------------------------------------------------------------------------
ShutInit ==
    /\ pc = "build"
    /\ main_tasks = [t \in Task |-> "none"]
    /\ stop_signal = FALSE
    /\ conn_manager = "none"
    /\ ldk = "off"
    /\ result = "none"

Main ==
    \/ Build \/ StartExporter \/ StartNode \/ NodeRuns \/ SpawnRest
    \/ \E t \in Task : JoinNext(t)
    \/ JoinAll

\* A task that is not at its select comes back to it, ends, or panics.
Proceed(t) ==
    \/ Answered(t)
    \/ t = "monitor" /\ (Ask(t) \/ MonitorRotate \/ MonitorCheck)
    \/ t = "ping" /\ PingReport
    \/ t = "upload" /\ UploadDone
    \/ t = "grpc" /\ GrpcCancel
    \/ t = "signal" /\ (SignalCancels \/ (stop_signal /\ SignalStops))

ShutNext ==
    \/ Main \/ StartupFails
    \/ ActorStops
    \/ \E t \in Task : Proceed(t) \/ Stop(t) \/ ExporterFails(t)
    \/ Ask("ping") \/ SweeperTick \/ MonitorTick \/ UploadTick
    \/ GrpcFails \/ GrpcShutdown \/ SignalStops

\* Main, the actor and the tasks that are not waiting make progress: LDK comes up,
\* calls return. select! polls its arms in random order, so an arm that is ready again
\* and again is taken. One condition for all tasks is enough: a task can only go round
\* through its select.
ShutFairness ==
    /\ WF_shutVars(Main)
    /\ WF_shutVars(ActorStops)
    /\ WF_shutVars(\E t \in Task : Proceed(t))
    /\ SF_shutVars(\E t \in Task : Stop(t))

ShutSpec == ShutInit /\ [][ShutNext]_shutVars /\ ShutFairness
-----------------------------------------------------------------------------
(* Properties *)

\* Status 0 means an orderly shutdown: LDK was stopped, every task ended by itself and
\* without an error, nothing was aborted.
SuccessIsOrderly ==
    pc = "exit" /\ result = "ok" =>
        /\ ldk = "stopped"
        /\ \A t \in Task : main_tasks[t] = "ok"

\* Once all tasks are started, the process leaves a running node behind only if a task
\* panicked; an error of a task, a shutdown request and Ctrl-C all wait until LDK is
\* stopped.
NodeStoppedUnlessPanic ==
    pc = "exit" /\ ldk # "stopped" =>
        \E t \in Task : main_tasks[t] \in {"none", "panic"}

\* Wherever a task ends or the token is cancelled, at startup too, the process exits:
\* no task outlives the token, nobody waits for the stopped actor.
ProcessExits ==
    (stop_signal \/ \E t \in Task : main_tasks[t] \in Finished) ~> (pc = "exit")
=============================================================================
