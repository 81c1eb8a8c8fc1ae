----------------------------- MODULE Simulator -----------------------------
(***************************************************************************)
(* The simulator program (bendy-bus/main.c): it starts a private           *)
(* dbus-daemon, registers the simulated objects on it, and runs the        *)
(* program under test again and again (bendy-bus/program-wrapper.c) until  *)
(* the test runs are over, a timeout is reached, something crashes or it   *)
(* is told to stop.                                                        *)
(*                                                                         *)
(* Everything runs on one main loop, and a callback may call several       *)
(* functions that change MainData one after the other.  So MainData is one *)
(* record, each function is an operator from MainData to MainData, and an  *)
(* action is a callback of the main loop or a step of its environment: the *)
(* program under test, the dbus-daemon, the bus, a signal.  Time is        *)
(* abstract: a timer fires some time after it is armed.                    *)
(***************************************************************************)
EXTENDS Naturals, FiniteSets

CONSTANTS
  NumObjects,     \* length of simulated_objects
  run_iters, run_time, test_timeout,  \* the command line, 0 if not given
  run_infinitely,
  UintMax,        \* bound: (guint) -1
  Signals         \* termination signals that may come, each handled once

ASSUME OptionsAssumption ==
  /\ NumObjects \in Nat \ {0} /\ run_infinitely \in BOOLEAN
  /\ run_iters \in Nat /\ run_time \in Nat /\ test_timeout \in Nat
  /\ UintMax \in Nat \ {0} /\ run_iters <= UintMax

VARIABLES
  data,    \* MainData, with the sources and handlers that belong to it
  daemon   \* the dbus-daemon: "starting", "running" or "dead"

vars == <<data, daemon>>

\* num_test_runs_remaining as main sets it
TestRuns == IF run_infinitely \/ (run_iters = 0 /\ run_time = 0) THEN UintMax ELSE run_iters

Init ==
  /\ data =
       [test_program |-> FALSE,        \* is it not NULL?
        connection |-> "none",         \* NULL unless "open"
        closing |-> FALSE,             \* close of the connection under way
        outstanding |-> 0,             \* outstanding_registration_callbacks
        notifying |-> FALSE,           \* activity handlers connected
        remaining |-> TestRuns,        \* num_test_runs_remaining
        timeout_id |-> 0,              \* test_run_inactivity_timeout_id
        sources |-> {},                \* inactivity sources in the main loop
        heard |-> {},                  \* those older than the last activity
        run_timers |-> 0,              \* simulation_timeout_cb sources
        idles |-> 0,                   \* restart_simulation_idle_cb sources
        spawn_end |-> FALSE,           \* test_program_spawn_end_signal
        process_died |-> "none",       \* callback of ..._process_died_signal
        sigkill |-> FALSE,             \* test_program_sigkill_timeout_id
        exit_signals |-> {},           \* signals handled; exit_signal
        running |-> FALSE,             \* process_is_running of the wrapper
        process |-> "none",            \* the process itself
        sent |-> {},                   \* signals sent to it
        quit |-> FALSE,                \* g_main_loop_quit called
        runs |-> 0,                    \* history: test runs attempted
        stops |-> 0]                   \* history: calls of stop_simulation, to 2
  /\ daemon = "starting"
----------------------------------------------------------------------------
(* The program wrapper. *)

\* dsim_program_wrapper_kill
Kill(d, signal) == IF d.running THEN [d EXCEPT !.sent = @ \cup {signal}] ELSE d

----------------------------------------------------------------------------
(* The inactivity timeout. *)

remove_inactivity_timeout(d) ==
  [d EXCEPT !.sources = @ \ {d.timeout_id}, !.heard = @ \ {d.timeout_id}, !.timeout_id = 0]

UnusedId(d) ==
  CHOOSE s \in 1 .. Cardinality(d.sources) + 2 : s \notin d.sources \cup {d.timeout_id}

\* An id that is set is overwritten and its source stays in the main loop.
set_inactivity_timeout(d) ==
  IF test_timeout = 0 THEN d
  ELSE [d EXCEPT !.sources = @ \cup {UnusedId(d)}, !.timeout_id = UnusedId(d)]

\* simulated_object_dbus_activity_count_notify_cb
NotifyActivity(d) ==
  IF d.notifying /\ d.timeout_id # 0
    THEN set_inactivity_timeout(remove_inactivity_timeout(d)) ELSE d
----------------------------------------------------------------------------
(* Stopping. *)

unregister_objects_and_close_connection(d) ==
  IF d.connection = "open"
    THEN [d EXCEPT !.notifying = FALSE, !.closing = TRUE]
    ELSE [d EXCEPT !.notifying = FALSE, !.quit = TRUE]

\* stop_simulation_test_program_died_cb
TestProgramStopped(d) ==
  unregister_objects_and_close_connection([d EXCEPT !.process_died = "none", !.sigkill = FALSE])

StopHandlers(d) ==
  [remove_inactivity_timeout(d) EXCEPT
     !.spawn_end = FALSE, !.process_died = "none", !.stops = IF @ < 2 THEN @ + 1 ELSE 2]

\* Mutant: SIGTERM is all a stop does about a program that runs.
StopPolitely(d) ==
  LET s == StopHandlers(d) IN
  IF ~s.running THEN TestProgramStopped(s)
  ELSE [Kill(s, "TERM") EXCEPT !.process_died = "stop"]

\* Mutant: the handler for the death of the program is not connected.
StopUnheard(d) ==
  LET s == StopHandlers(d) IN
  IF s.sigkill THEN s
  ELSE IF ~s.running THEN TestProgramStopped(s)
  ELSE Kill(s, "TERM")

\* A second call has already disconnected the callback of the first.
stop_simulation(d) ==
  LET s == StopHandlers(d) IN
  IF s.sigkill THEN s
  ELSE IF ~s.running THEN TestProgramStopped(s)
  ELSE [Kill(s, "TERM") EXCEPT !.process_died = "stop", !.sigkill = TRUE]
----------------------------------------------------------------------------
(* Test runs. *)

test_program_spawn_end_cb(d) ==
  set_inactivity_timeout([d EXCEPT !.run_timers = IF run_time > 0 THEN @ + 1 ELSE @])

\* g_spawn_async_with_pipes, which may fail
Launch(d, ok) ==
  [d EXCEPT !.running = ok, !.process = IF ok THEN "alive" ELSE "none",
            !.sent = {}, !.runs = @ + 1]

\* dsim_program_wrapper_spawn emits spawn-end if the spawn failed too, and
\* does nothing while it has not yet handled the death of the last process.
Spawn(d, ok) ==
  IF d.running THEN d
  ELSE LET s == Launch(d, ok)
       IN  IF s.spawn_end THEN test_program_spawn_end_cb(s) ELSE s

spawn_test_program(d, ok) ==
  LET s == [Spawn(d, ok) EXCEPT !.remaining = IF @ > 0 THEN @ - 1 ELSE 0]
  IN  IF s.running THEN s ELSE stop_simulation(s)

\* Mutant: the test runs are not checked to be over.
RestartAlways(d, ok) == spawn_test_program(NotifyActivity(Kill(d, "TERM")), ok)

\* Mutant: the reset does not notify of the objects' activity counts.
RestartQuietly(d, ok) ==
  IF d.remaining = 0 THEN stop_simulation(d) ELSE spawn_test_program(Kill(d, "TERM"), ok)

\* The reset of the objects notifies of their activity counts.
restart_simulation(d, ok) ==
  IF d.remaining = 0 THEN stop_simulation(d)
  ELSE spawn_test_program(NotifyActivity(Kill(d, "TERM")), ok)

start_simulation(d, ok) ==
  spawn_test_program([d EXCEPT !.spawn_end = TRUE, !.process_died = "restart"], ok)
----------------------------------------------------------------------------
(* The callbacks of the main loop, of which none comes once it has quit. *)

Becomes(d) == ~data.quit /\ data' = d

\* dbus_daemon_notify_bus_address_cb
BusAddress ==
  /\ daemon = "starting"
  /\ daemon' = "running"
  /\ Becomes([data EXCEPT !.test_program = TRUE, !.connection = "connecting"])

\* connection_created_cb: registrations complete from the main loop, so
\* none has when the callback held meanwhile is released.
ConnectionCreated ==
  /\ data.connection = "connecting"
  /\ \/ Becomes([data EXCEPT !.connection = "open", !.notifying = TRUE,
                             !.outstanding = NumObjects])
     \/ Becomes([data EXCEPT !.connection = "none", !.quit = TRUE])
  /\ UNCHANGED daemon

\* object_registered_cb: the last callback starts the simulation, after an
\* error too.
ObjectRegistered ==
  /\ data.outstanding > 0
  /\ \E error, ok \in BOOLEAN :
       LET registered == [data EXCEPT !.outstanding = @ - 1]
           answered == IF error THEN unregister_objects_and_close_connection(registered)
                       ELSE registered
       IN  Becomes(IF answered.outstanding > 0 THEN answered ELSE start_simulation(answered, ok))
  /\ UNCHANGED daemon

\* connection_closed_cb, when the remote peer vanished
ConnectionVanished ==
  /\ data.connection = "open"
  /\ Becomes(stop_simulation([data EXCEPT !.connection = "none"]))
  /\ UNCHANGED daemon

\* connection_close_cb
ConnectionClosed ==
  /\ data.closing
  /\ Becomes([data EXCEPT !.quit = TRUE])
  /\ UNCHANGED daemon

\* What a signal or the death of the daemon does: stop_simulation needs a
\* test program.
StopOrQuit(d) == IF d.test_program THEN stop_simulation(d) ELSE [d EXCEPT !.quit = TRUE]

\* dbus_daemon_died_cb: ignored after a signal.  (What the wrapper makes of it
\* is the subject of Startup.)
DaemonDied ==
  /\ daemon # "dead"
  /\ daemon' = "dead"
  /\ Becomes(IF data.exit_signals = {} THEN StopOrQuit(data) ELSE data)

\* signal_handler; the source of each signal is removed after it.
Signal(signal) ==
  /\ signal \notin data.exit_signals
  /\ Becomes(StopOrQuit([data EXCEPT !.exit_signals = @ \cup {signal}]))
  /\ UNCHANGED daemon

\* test_program_died_cb; the restart waits for the main loop to be idle.
TestProgramDied(d, status) ==
  IF status = "crashed" THEN stop_simulation(d)
  ELSE [d EXCEPT !.idles = IF d.exit_signals = {} THEN @ + 1 ELSE @]

\* child_watch_cb, with the handler of process-died that is connected
ChildWatch ==
  /\ data.process \in {"exited", "crashed"}
  /\ LET d == [data EXCEPT !.running = FALSE, !.process = "none", !.sent = {}]
     IN  Becomes(IF d.process_died = "restart" THEN TestProgramDied(d, data.process)
                 ELSE IF d.process_died = "stop" THEN TestProgramStopped(d)
                 ELSE d)
  /\ UNCHANGED daemon

\* restart_simulation_idle_cb
IdleRestart ==
  /\ data.idles > 0
  /\ \E ok \in BOOLEAN : Becomes(restart_simulation([data EXCEPT !.idles = @ - 1], ok))
  /\ UNCHANGED daemon

\* test_inactivity_timeout_cb: the source that fired goes, its id stays.
InactivityTimeout(s) ==
  /\ s \in data.sources
  /\ \E ok \in BOOLEAN :
       Becomes(restart_simulation([data EXCEPT !.sources = @ \ {s}, !.heard = @ \ {s}], ok))
  /\ UNCHANGED daemon

\* simulation_timeout_cb
SimulationTimeout ==
  /\ data.run_timers > 0
  /\ Becomes(stop_simulation([data EXCEPT !.run_timers = @ - 1]))
  /\ UNCHANGED daemon

\* kill_program_cb
KillProgram ==
  /\ data.sigkill
  /\ LET d == IF data.running THEN Kill(data, "KILL") ELSE TestProgramStopped(data)
     IN  Becomes([d EXCEPT !.sigkill = FALSE])
  /\ UNCHANGED daemon

\* A call of the program's reaches an object, maybe after it died.
Activity ==
  /\ data.notifying /\ data.runs > 0
  /\ LET d == NotifyActivity(data)
     IN  Becomes([d EXCEPT !.heard = d.sources \ {d.timeout_id}])
  /\ UNCHANGED daemon

----------------------------------------------------------------------------
(* The program under test. *)

\* It dies at any time, and may ignore a SIGTERM; WIFEXITED, SIGTERM and SIGINT are "exited".
ProcessDies ==
  /\ data.process = "alive"
  /\ \E how \in {"exited", "crashed"} : Becomes([data EXCEPT !.process = how])
  /\ UNCHANGED daemon

Next ==
  \/ BusAddress \/ ConnectionCreated \/ ObjectRegistered
  \/ ConnectionVanished \/ ConnectionClosed \/ DaemonDied
  \/ \E signal \in Signals : Signal(signal)
  \/ ChildWatch \/ IdleRestart \/ SimulationTimeout \/ KillProgram
  \/ \E s \in data.sources : InactivityTimeout(s)
  \/ Activity \/ ProcessDies

Spec == Init /\ [][Next]_vars

\* The main loop dispatches what is ready, a timer fires, the close of the
\* connection ends, and a process does not survive SIGKILL.
FairSpec ==
  /\ Spec
  /\ WF_vars(ChildWatch) /\ WF_vars(KillProgram) /\ WF_vars(ConnectionClosed)
  /\ WF_vars("KILL" \in data.sent /\ ProcessDies)
----------------------------------------------------------------------------
(* Properties. *)

MainData ==
  [test_program : BOOLEAN, connection : {"none", "connecting", "open"}, closing : BOOLEAN,
   outstanding : 0..NumObjects, notifying : BOOLEAN, remaining : 0..UintMax,
   timeout_id : Nat, sources : SUBSET (Nat \ {0}), heard : SUBSET Nat,
   run_timers : Nat, idles : Nat, spawn_end : BOOLEAN,
   process_died : {"none", "restart", "stop"}, sigkill : BOOLEAN,
   exit_signals : SUBSET Signals, running : BOOLEAN,
   process : {"none", "alive", "exited", "crashed"}, sent : SUBSET {"TERM", "KILL"},
   quit : BOOLEAN, runs : Nat, stops : 0..2]

\* Every field has its type, and the wrapper knows whether it has a process.
TypeOK ==
  /\ data \in MainData /\ daemon \in {"starting", "running", "dead"}
  /\ IsFiniteSet(data.sources) /\ data.heard \subseteq data.sources
  /\ data.running <=> data.process # "none"

\* bendy-bus.page: --run-iters is the maximum number of test runs.  However
\* exits, timeouts and restarts race, no more are started.
RunsBounded == data.runs + data.remaining <= TestRuns + (IF TestRuns = 0 THEN 1 ELSE 0)

\* While test runs go on, the inactivity timeout that activity would re-arm
\* is in the main loop: a program that hangs, even one that ignores the
\* SIGTERM of a restart, is found out.
RunsAreWatched ==
  test_timeout > 0 /\ data.runs > 0 /\ data.stops = 0 /\ data.notifying
    => data.timeout_id \in data.sources

\* The death of a program that runs will be acted on, unless bendy-bus is
\* closing its connection already or has been stopped twice.
DeathIsHeard ==
  data.running /\ ~data.closing /\ data.stops < 2 => data.process_died # "none"

\* Once it is stopped bendy-bus ends, even if the program ignores SIGTERM,
\* unless it is stopped a second time.
StopEnds == data.stops > 0 ~> data.quit \/ data.stops = 2

----------------------------------------------------------------------------
(* What the comments and the manual say and the code does not do. *)

\* stop_simulation: a timer kills a badly behaved program with SIGKILL, and
\* its death disconnects from the bus and quits.
StopAlwaysEnds == data.stops > 0 ~> data.quit

\* start_simulation: a test run is finished when there has been no D-Bus
\* activity for at least test_timeout seconds.
TimeoutMeansInactivity == [][\A s \in data.sources : InactivityTimeout(s) => s \notin data.heard]_vars
=============================================================================
