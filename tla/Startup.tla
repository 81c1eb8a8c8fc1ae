------------------------------- MODULE Startup -------------------------------
(***************************************************************************)
(* What happens before the simulation runs: how main() of bendy-bus        *)
(* (bendy-bus/main.c) loads the description, makes its objects and starts  *)
(* the dbus-daemon (bendy-bus/dbus-daemon.c), how it reads the address of  *)
(* the bus from a pipe, and how another program that uses the library      *)
(* loads the same files asynchronously (dfsm/dfsm-object.c).               *)
(*                                                                         *)
(* The main loop runs one callback at a time.  A callback that reads the   *)
(* pipe does so until its end, and blocks the main loop when nothing is    *)
(* left to read; so each read is a step, and no other callback comes in    *)
(* between.                                                                *)
(***************************************************************************)
EXTENDS Naturals, FiniteSets, SequencesExt

CONSTANTS
    Characters,    \* of addresses
    Addresses,     \* sequences of characters: what the daemon may listen on
    PieceSize,     \* bound: the bytes read at once
    Sources        \* sequences of objects, each with the verdicts of its checks

ASSUME PieceSizeAssumption == PieceSize \in Nat \ {0}

Objects == [initial_check : {"ok", "refused"}, check : {"ok", "refused", "aborted"}]

ASSUME SourcesAssumption == Sources \subseteq Seq(Objects)

Files     == {"code", "xml"}
NoAddress == <<"no address">>
Newline   == "\n"

\* An address is printed as one line.
ASSUME AddressesAssumption ==
    /\ Addresses \subseteq Seq(Characters)
    /\ Newline \notin Characters /\ NoAddress[1] \notin Characters

VARIABLES
    caller,        \* "bendy-bus", or a "client" of the library
    files,         \* of each file: "unread", "loading", "loaded" or "failed"
    idles,         \* complete_in_idle () sources
    error,         \* the GSimpleAsyncResult holds an error
    answers,       \* what the callback of the client got, the last one last
    stage,         \* of main ()
    status,        \* the exit status
    daemon,        \* the process: "none", "alive", "dead" or "reaped"
    line,          \* what the daemon has to write
    pipe,          \* [bytes, writers] of address_pipe
    watched,       \* the main loop has the watch on the pipe
    hungUp,        \* the condition the callback was called with has HUP
    reading,       \* the address as far as it has been read, or NoAddress
    bus_address,   \* of the wrapper
    connected,     \* dbus_daemon_notify_bus_address_cb ()
    dbus_address   \* of main ()

loading == <<files, idles, error, answers>>
reader  == <<watched, hungUp, reading, bus_address, connected, dbus_address>>
vars == <<caller, loading, stage, status, daemon, line, pipe, reader>>

-----------------------------------------------------------------------------
(* dfsm_object_factory_from_data ().                                       *)

\* All objects are checked for the first time before one is for the second;
\* an object may be "ok", "refused" or end the process ("aborted").
factory_from_data(objects) ==
    LET verdicts == [k \in DOMAIN objects |-> objects[k].initial_check]
                      \o [k \in DOMAIN objects |-> objects[k].check]
        faults   == {k \in DOMAIN verdicts : verdicts[k] # "ok"}
    IN  IF faults = {} THEN "objects" ELSE verdicts[Min(faults)]
-----------------------------------------------------------------------------
(* dfsm_object_factory_from_files () and _finish (), for a client.         *)

\* Mutant: one file is enough.
EitherLoaded(now) == \E f \in Files : now[f] = "loaded"

BothLoaded(now) == \A f \in Files : now[f] = "loaded"

\* simulation_code_file_loaded_cb () and introspection_xml_file_loaded_cb ()
FileLoaded(f, ok) ==
    LET now == [files EXCEPT ![f] = IF ok THEN "loaded" ELSE "failed"]
    IN  /\ caller = "client" /\ files[f] = "loading"
        /\ files' = now
        /\ error' = (error \/ ~ok)
        /\ idles' = IF ~ok \/ BothLoaded(now) THEN idles + 1 ELSE idles
        /\ UNCHANGED <<caller, answers, stage, status, daemon, line, pipe, reader>>

\* An error is handed out once: the result stays failed without it.
Completed(objects) ==
    /\ caller = "client" /\ idles > 0 /\ stage # "crashed"
    /\ idles' = idles - 1
    /\ error' = FALSE
    /\ LET failed == \E f \in Files : files[f] = "failed"
           answer == IF error THEN "refused" ELSE IF failed THEN "nothing"
                     ELSE factory_from_data(objects)
       IN  /\ answers' = Append(answers, answer)
           /\ stage' = IF answer = "aborted" THEN "crashed" ELSE stage
    /\ UNCHANGED <<caller, files, status, daemon, line, pipe, reader>>
-----------------------------------------------------------------------------
(* main () up to its main loop.                                            *)

Exit(s) == stage' = "exited" /\ status' = s
Crash   == stage' = "crashed" /\ UNCHANGED status

\* g_file_get_contents (), of one file and then the other
ReadFile(f, next) ==
    /\ stage = f
    /\ \/ files' = [files EXCEPT ![f] = "loaded"] /\ stage' = next /\ UNCHANGED status
       \/ files' = [files EXCEPT ![f] = "failed"] /\ Exit("UNREADABLE_FILE")
    /\ UNCHANGED <<caller, idles, error, answers, daemon, line, pipe, reader>>

CreateObjects(objects) ==
    /\ stage = "objects"
    /\ \/ factory_from_data(objects) = "objects" /\ stage' = "directory" /\ UNCHANGED status
       \/ factory_from_data(objects) = "refused" /\ Exit("INVALID_CODE")
       \/ factory_from_data(objects) = "aborted" /\ Crash
    /\ UNCHANGED <<caller, loading, daemon, line, pipe, reader>>

\* If there is no directory main_data_clear () reads dbus_daemon and
\* dbus_address, which have not been initialized yet.
PrepareDirectory ==
    /\ stage = "directory"
    /\ \/ stage' = "spawn" /\ UNCHANGED status
       \/ Exit("TMP_DIR_ERROR")
       \/ stage' = "crashed" /\ status' = "TMP_DIR_ERROR"
    /\ UNCHANGED <<caller, loading, daemon, line, pipe, reader>>

\* Mutant: the parent keeps its end for writing.
WritersWithParent == {"daemon", "parent"}

\* dsim_dbus_daemon_spawn_end () closes the other one.
Writers == {"daemon"}

\* dsim_program_wrapper_spawn (), with spawn-begin and spawn-end
SpawnDaemon(address) ==
    /\ stage = "spawn"
    /\ connected' = TRUE
    /\ \/ /\ Exit("DAEMON_SPAWN_ERROR")      \* no pipe, or no process
          /\ UNCHANGED <<daemon, line, pipe, watched, bus_address>>
       \/ /\ stage' = "loop" /\ UNCHANGED status
          /\ daemon' = "alive"
          /\ line' = Append(address, Newline)
          /\ pipe' = [bytes |-> <<>>, writers |-> Writers]
          /\ watched' = TRUE /\ bus_address' = NoAddress
    /\ UNCHANGED <<caller, loading, hungUp, reading, dbus_address>>
-----------------------------------------------------------------------------
(* The dbus-daemon.                                                        *)

DaemonWrites ==
    /\ daemon = "alive" /\ line # <<>>
    /\ pipe' = [pipe EXCEPT !.bytes = @ \o line]
    /\ line' = <<>>
    /\ UNCHANGED <<caller, loading, stage, status, daemon, reader>>

DaemonCloses ==
    /\ daemon = "alive" /\ line = <<>> /\ "daemon" \in pipe.writers
    /\ pipe' = [pipe EXCEPT !.writers = @ \ {"daemon"}]
    /\ UNCHANGED <<caller, loading, stage, status, daemon, line, reader>>

DaemonDies ==
    /\ daemon = "alive"
    /\ daemon' = "dead"
    /\ pipe' = [pipe EXCEPT !.writers = @ \ {"daemon"}]
    /\ UNCHANGED <<caller, loading, stage, status, line, reader>>
-----------------------------------------------------------------------------
(* The callbacks of the main loop.                                         *)

Dispatching == stage = "loop" /\ reading = NoAddress

\* Mutant: the handler stays connected.
NotifyAgain(address) ==
    IF ~connected THEN UNCHANGED <<connected, dbus_address, stage>>
    ELSE IF dbus_address # NoAddress
      THEN stage' = "crashed" /\ UNCHANGED <<connected, dbus_address>>
    ELSE /\ dbus_address' = address
         /\ UNCHANGED <<stage, connected>>

\* dbus_daemon_notify_bus_address_cb (): it asserts that there was no address,
\* has the bus connected to, and disconnects itself.
Notify(address) ==
    IF ~connected THEN UNCHANGED <<connected, dbus_address, stage>>
    ELSE IF dbus_address # NoAddress
      THEN stage' = "crashed" /\ UNCHANGED <<connected, dbus_address>>
    ELSE /\ dbus_address' = address
         /\ connected' = FALSE
         /\ UNCHANGED stage

\* address_channel_cb () with something to read
StartReading ==
    /\ Dispatching /\ watched /\ pipe.bytes # <<>>
    /\ reading' = <<>>
    /\ hungUp' = (pipe.writers = {})
    /\ UNCHANGED <<caller, loading, stage, status, daemon, line, pipe, watched, bus_address,
                   connected, dbus_address>>

\* Mutant: the last byte of each piece is taken for the line end.
WithoutLastByte(piece) == Front(piece)

WithoutLineEnd(piece) == IF Last(piece) = Newline THEN Front(piece) ELSE piece

\* (A read of a pipe that fails is left out.)
ReadPiece ==
    LET n == IF Len(pipe.bytes) < PieceSize THEN Len(pipe.bytes) ELSE PieceSize
    IN  /\ reading # NoAddress /\ n > 0
        /\ reading' = reading \o WithoutLineEnd(SubSeq(pipe.bytes, 1, n))
        /\ pipe' = [pipe EXCEPT !.bytes = SubSeq(@, n + 1, Len(@))]
        /\ UNCHANGED <<caller, loading, stage, status, daemon, line, watched, hungUp,
                       bus_address, connected, dbus_address>>

\* It asserts that the wrapper had no address either.
ReadEnd ==
    /\ reading # NoAddress /\ pipe = [bytes |-> <<>>, writers |-> {}]
    /\ reading' = NoAddress
    /\ IF bus_address # NoAddress
         THEN stage' = "crashed" /\ UNCHANGED <<bus_address, connected, dbus_address>>
         ELSE bus_address' = reading /\ Notify(reading)
    /\ watched' = ~hungUp
    /\ UNCHANGED <<caller, loading, status, daemon, line, pipe, hungUp>>

HangUp ==
    /\ Dispatching /\ watched /\ pipe = [bytes |-> <<>>, writers |-> {}]
    /\ watched' = FALSE
    /\ UNCHANGED <<caller, loading, stage, status, daemon, line, pipe, hungUp, reading,
                   bus_address, connected, dbus_address>>

\* child_watch_cb (): dsim_dbus_daemon_process_died () runs after
\* dbus_daemon_died_cb (), which has stopped the main loop.
DaemonDied ==
    /\ Dispatching /\ daemon = "dead"
    /\ daemon' = "reaped"
    /\ watched' = FALSE
    /\ IF bus_address = NoAddress THEN UNCHANGED <<bus_address, connected, dbus_address, stage>>
       ELSE bus_address' = NoAddress /\ Notify(NoAddress)
    /\ UNCHANGED <<caller, loading, status, line, pipe, hungUp, reading>>

\* The main loop has been quit, or the simulation is being stopped.
Ended == daemon = "reaped" \/ stage \in {"exited", "crashed"}
-----------------------------------------------------------------------------
Init ==
    /\ caller \in {"bendy-bus", "client"}
    /\ stage = IF caller = "client" THEN "library" ELSE "code"
    /\ files = [f \in Files |-> IF caller = "client" THEN "loading" ELSE "unread"]
    /\ idles = 0 /\ error = FALSE /\ answers = <<>>
    /\ status = "SUCCESS"
    /\ daemon = "none" /\ line = <<>>
    /\ pipe = [bytes |-> <<>>, writers |-> {}]
    /\ watched = FALSE /\ hungUp = FALSE /\ reading = NoAddress
    /\ bus_address = NoAddress /\ connected = FALSE /\ dbus_address = NoAddress

Next ==
    \/ \E f \in Files, ok \in BOOLEAN : FileLoaded(f, ok)
    \/ \E objects \in Sources : Completed(objects)
    \/ ReadFile("code", "xml") \/ ReadFile("xml", "objects")
    \/ \E objects \in Sources : CreateObjects(objects)
    \/ PrepareDirectory
    \/ \E address \in Addresses : SpawnDaemon(address)
    \/ DaemonWrites \/ DaemonCloses \/ DaemonDies
    \/ StartReading \/ ReadPiece \/ ReadEnd \/ HangUp \/ DaemonDied

Spec == Init /\ [][Next]_vars

\* The main loop dispatches what is ready and a read returns; the daemon
\* closes the pipe when it has printed its address.
FairSpec ==
    /\ Spec
    /\ WF_vars(StartReading) /\ WF_vars(ReadPiece) /\ WF_vars(ReadEnd)
    /\ WF_vars(DaemonDied) /\ WF_vars(DaemonCloses)
-----------------------------------------------------------------------------
(* Properties.                                                             *)

\* dfsm_object_factory_from_files () calls back once, with objects only if
\* both files were loaded and with an error only if something failed.  Only
\* if both files fail does it call back twice, and then the second call may
\* find neither objects nor an error.
CompletesTwiceOnlyIfBothFail ==
    LET failed == {f \in Files : files[f] = "failed"}
    IN  caller = "client" =>
          /\ Len(answers) + idles <= 1 \/ failed = Files
          /\ "nothing" \in ToSet(answers) => failed = Files /\ Len(answers) = 2
          /\ "objects" \in ToSet(answers) => \A f \in Files : files[f] = "loaded"
          /\ (\A f \in Files : files[f] # "loading") => Len(answers) + idles >= 1

\* The address main () connects to is one the daemon may have written, whole
\* and without its line end, however many reads it takes.
AddressIsWhole == dbus_address # NoAddress => dbus_address \in Addresses

\* The assertions on the address never fail: main () and the wrapper are told
\* of it when it has been read and main () again when the daemon dies, in any
\* order with the reads, and it is acted on once.
AddressAssertionsHold == daemon # "none" => stage # "crashed"

\* Once the daemon has written its address the bus is connected to, unless
\* the daemon dies: the callback that reads the pipe to its end does not
\* block the main loop for ever.
AddressReported == (daemon # "none" /\ line = <<>>) ~> (dbus_address # NoAddress \/ Ended)
=============================================================================
