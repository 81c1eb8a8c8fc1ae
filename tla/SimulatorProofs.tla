-------------------------- MODULE SimulatorProofs --------------------------
(***************************************************************************)
(* Proofs about Simulator: the types, the bound on the test runs, that     *)
(* test runs are watched and that the death of the program is heard, for   *)
(* any command line and any number of objects.                             *)
(*                                                                         *)
(* The functions of main.c call each other, so the lemmas are about them:  *)
(* Core holds of MainData between two calls of a callback too, Good only   *)
(* when the main loop is back.                                             *)
(***************************************************************************)
EXTENDS Simulator, FiniteSetTheorems, TLAPS

WellFormed(d) ==
  /\ d \in MainData
  /\ IsFiniteSet(d.sources) /\ d.heard \subseteq d.sources
  /\ d.running <=> d.process # "none"

Bound == TestRuns + (IF TestRuns = 0 THEN 1 ELSE 0)

\* Nothing that restarts is pending before the first run, and the handlers
\* of the simulation stay connected until it is stopped.
Core(d) ==
  /\ WellFormed(d)
  /\ d.running \/ d.sources # {} \/ d.idles > 0 \/ d.timeout_id # 0 => d.runs > 0
  /\ d.outstanding > 0 \/ d.connection = "connecting" => d.runs = 0
  /\ d.outstanding > 0 => d.connection # "connecting"
  /\ d.stops = 0 => ~d.sigkill /\ d.process_died # "stop"
  /\ d.stops = 0 /\ d.runs > 0 => d.process_died = "restart"
  /\ d.runs + d.remaining <= Bound

\* A stop waits for a program that runs, or closes the connection, or quits.
Waiting(d) == d.stops = 1 /\ ~d.closing /\ ~d.quit => d.running /\ d.process_died = "stop"

Heard(d) == d.running /\ ~d.closing /\ d.stops < 2 => d.process_died # "none"

Counting(d) == test_timeout > 0 /\ d.runs > 0 /\ d.stops = 0 /\ d.notifying

Watched(d) == Counting(d) => d.timeout_id \in d.sources

Good(d) == Core(d) /\ Waiting(d) /\ Heard(d) /\ Watched(d)

IInv ==
  /\ Good(data)
  /\ daemon \in {"starting", "running", "dead"}
  /\ daemon = "starting" => data.runs = 0 /\ data.outstanding = 0 /\ data.connection = "none"

\* Two records that differ at most in what the timers and Kill change.
SameButTimers(r, d) ==
  /\ r.connection = d.connection /\ r.closing = d.closing /\ r.outstanding = d.outstanding
  /\ r.notifying = d.notifying /\ r.remaining = d.remaining /\ r.idles = d.idles
  /\ r.spawn_end = d.spawn_end /\ r.process_died = d.process_died
  /\ r.sigkill = d.sigkill /\ r.running = d.running /\ r.quit = d.quit
  /\ r.runs = d.runs /\ r.stops = d.stops
----------------------------------------------------------------------------
LEMMA TestRunsType == TestRuns \in 0..UintMax /\ Bound \in Nat /\ Bound > 0 /\ TestRuns <= Bound
  BY OptionsAssumption DEF TestRuns, Bound

\* Among one id more than there are sources and the id set, one is unused.
LEMMA UnusedIdIsUnused ==
  ASSUME NEW d, WellFormed(d)
  PROVE  /\ UnusedId(d) \in Nat \ {0}
         /\ UnusedId(d) \notin d.sources /\ UnusedId(d) # d.timeout_id
<1> DEFINE n == Cardinality(d.sources)
           used == d.sources \cup {d.timeout_id}
<1>1. IsFiniteSet(d.sources) /\ n \in Nat
  BY FS_CardinalityType DEF WellFormed
<1>2. IsFiniteSet(used) /\ Cardinality(used) \in Nat /\ Cardinality(used) <= n + 1
  <2>1. /\ IsFiniteSet(used)
        /\ Cardinality(used) = IF d.timeout_id \in d.sources THEN n ELSE n + 1
    BY <1>1, FS_AddElement
  <2> QED
    BY <2>1, <1>1
<1>3. IsFiniteSet(1 .. n + 2) /\ Cardinality(1 .. n + 2) = n + 2
  BY <1>1, FS_Interval
<1>4. \E s \in 1 .. n + 2 : s \notin used
  <2> SUFFICES ASSUME 1 .. n + 2 \subseteq used PROVE FALSE
    OBVIOUS
  <2>1. Cardinality(1 .. n + 2) <= Cardinality(used)
    BY <1>2, FS_Subset
  <2> QED
    BY <2>1, <1>1, <1>2, <1>3
<1>5. UnusedId(d) \in 1 .. n + 2 /\ UnusedId(d) \notin used
  BY <1>4 DEF UnusedId
<1> QED
  BY <1>1, <1>5

LEMMA RemoveFacts ==
  ASSUME NEW d, WellFormed(d)
  PROVE  LET r == remove_inactivity_timeout(d) IN
         /\ WellFormed(r)
         /\ SameButTimers(r, d)
         /\ r.timeout_id = 0 /\ r.sources \subseteq d.sources
<1>1. IsFiniteSet(d.sources \ {d.timeout_id})
  BY FS_Subset DEF WellFormed
<1> QED
  BY <1>1 DEF WellFormed, MainData, SameButTimers, remove_inactivity_timeout

LEMMA SetFacts ==
  ASSUME NEW d, WellFormed(d)
  PROVE  LET r == set_inactivity_timeout(d) IN
         /\ WellFormed(r)
         /\ SameButTimers(r, d)
         /\ test_timeout > 0 => r.timeout_id \in r.sources
         /\ test_timeout = 0 => r = d
<1>1. CASE test_timeout = 0
  BY <1>1, OptionsAssumption DEF WellFormed, MainData, SameButTimers, set_inactivity_timeout
<1>2. CASE test_timeout # 0
  <2>1. UnusedId(d) \in Nat \ {0}
    BY UnusedIdIsUnused
  <2>2. IsFiniteSet(d.sources \cup {UnusedId(d)})
    BY FS_AddElement DEF WellFormed
  <2> QED
    BY <1>2, <2>1, <2>2 DEF WellFormed, MainData, SameButTimers, set_inactivity_timeout
<1> QED
  BY <1>1, <1>2

LEMMA NotifyFacts ==
  ASSUME NEW d, WellFormed(d)
  PROVE  LET r == NotifyActivity(d) IN
         /\ WellFormed(r) /\ SameButTimers(r, d)
         /\ d.timeout_id = 0 => r = d
         /\ d.notifying /\ d.timeout_id # 0 /\ test_timeout > 0 => r.timeout_id \in r.sources
         /\ ~(d.notifying /\ d.timeout_id # 0) => r = d
<1> DEFINE c == remove_inactivity_timeout(d)
           r == set_inactivity_timeout(c)
<1>1. WellFormed(c) /\ SameButTimers(c, d)
  BY RemoveFacts
<1>2. WellFormed(r) /\ SameButTimers(r, c) /\ (test_timeout > 0 => r.timeout_id \in r.sources)
  BY <1>1, SetFacts
<1>3. SameButTimers(r, d)
  BY <1>1, <1>2 DEF SameButTimers
<1>4. SameButTimers(d, d)
  BY DEF SameButTimers
<1> HIDE DEF c, r
<1> QED
  BY <1>2, <1>3, <1>4 DEF NotifyActivity, c, r

LEMMA KillFacts ==
  ASSUME NEW d, WellFormed(d), NEW signal \in {"TERM", "KILL"}
  PROVE  LET r == Kill(d, signal) IN
         /\ WellFormed(r) /\ SameButTimers(r, d)
         /\ r.sources = d.sources /\ r.timeout_id = d.timeout_id
BY DEF Kill, WellFormed, MainData, SameButTimers

LEMMA CloseFacts ==
  ASSUME NEW d, WellFormed(d)
  PROVE  LET r == unregister_objects_and_close_connection(d) IN
         /\ WellFormed(r) /\ ~r.notifying /\ (r.closing \/ r.quit)
         /\ r.outstanding = d.outstanding /\ r.runs = d.runs /\ r.connection = d.connection
         /\ r.running = d.running /\ r.sources = d.sources /\ r.idles = d.idles
         /\ r.timeout_id = d.timeout_id /\ r.stops = d.stops /\ r.sigkill = d.sigkill
         /\ r.process_died = d.process_died /\ r.remaining = d.remaining
         /\ (d.closing => r.closing) /\ (d.quit => r.quit)
BY DEF unregister_objects_and_close_connection, WellFormed, MainData

LEMMA ProgramStoppedFacts ==
  ASSUME NEW d, WellFormed(d)
  PROVE  LET r == TestProgramStopped(d) IN
         /\ WellFormed(r)
         /\ r.closing \/ r.quit
         /\ ~r.sigkill /\ r.process_died = "none" /\ ~r.notifying
         /\ r.sources = d.sources /\ r.timeout_id = d.timeout_id
         /\ r.outstanding = d.outstanding /\ r.connection = d.connection
         /\ r.idles = d.idles /\ r.runs = d.runs /\ r.remaining = d.remaining
         /\ r.running = d.running /\ r.stops = d.stops
BY DEF TestProgramStopped, unregister_objects_and_close_connection, WellFormed, MainData

\* Whatever stop_simulation is called upon, it leaves in order.
LEMMA StopFacts ==
  ASSUME NEW d, Core(d)
  PROVE  LET r == stop_simulation(d) IN
         /\ Good(r)
         /\ r.runs = d.runs /\ r.outstanding = d.outstanding /\ r.connection = d.connection
<1> DEFINE c == remove_inactivity_timeout(d)
           s == StopHandlers(d)
<1>1. WellFormed(c) /\ SameButTimers(c, d) /\ c.timeout_id = 0 /\ c.sources \subseteq d.sources
  BY RemoveFacts DEF Core
<1>2. /\ WellFormed(s)
      /\ s.sources = c.sources /\ s.timeout_id = 0 /\ s.process_died = "none"
      /\ s.connection = d.connection /\ s.closing = d.closing /\ s.outstanding = d.outstanding
      /\ s.remaining = d.remaining /\ s.idles = d.idles /\ s.running = d.running
      /\ s.sigkill = d.sigkill /\ s.quit = d.quit /\ s.runs = d.runs
      /\ s.stops = IF d.stops < 2 THEN d.stops + 1 ELSE 2
  <2>1. s = [c EXCEPT !.spawn_end = FALSE, !.process_died = "none",
                      !.stops = IF @ < 2 THEN @ + 1 ELSE 2]
    BY DEF StopHandlers
  <2> HIDE DEF c, s
  <2>2. c \in MainData
    BY <1>1 DEF WellFormed
  <2>3. /\ s.sources = c.sources /\ s.timeout_id = c.timeout_id /\ s.process_died = "none"
        /\ s.connection = c.connection /\ s.closing = c.closing /\ s.outstanding = c.outstanding
        /\ s.remaining = c.remaining /\ s.idles = c.idles /\ s.running = c.running
        /\ s.sigkill = c.sigkill /\ s.quit = c.quit /\ s.runs = c.runs
        /\ s.heard = c.heard /\ s.process = c.process
        /\ s.stops = IF c.stops < 2 THEN c.stops + 1 ELSE 2
    BY <2>1, <2>2 DEF MainData
  <2>4. s \in MainData
    <3>1. (IF c.stops < 2 THEN c.stops + 1 ELSE 2) \in 0..2
      BY <2>2 DEF MainData
    <3> QED
      BY <2>1, <2>2, <3>1 DEF MainData
  <2> QED
    BY <1>1, <2>3, <2>4 DEF WellFormed, SameButTimers
<1>3. d.stops \in 0..2 /\ d.runs \in Nat /\ d.remaining \in Nat /\ d.idles \in Nat
  BY DEF Core, WellFormed, MainData
<1> HIDE DEF c, s
<1>4. CASE s.sigkill
  <2>1. stop_simulation(d) = s
    BY <1>4 DEF stop_simulation, s
  <2>2. s.stops = 2
    BY <1>2, <1>3, <1>4 DEF Core
  <2>3. Core(s)
    BY <1>1, <1>2, <1>3, <2>2 DEF Core
  <2> QED
    BY <2>1, <2>2, <2>3, <1>2 DEF Good, Waiting, Heard, Watched, Counting
<1>5. CASE ~s.sigkill /\ ~s.running
  <2> DEFINE r == TestProgramStopped(s)
  <2>1. stop_simulation(d) = r
    BY <1>5 DEF stop_simulation, s
  <2>2. /\ WellFormed(r) /\ (r.closing \/ r.quit)
        /\ ~r.sigkill /\ r.process_died = "none" /\ ~r.notifying
        /\ r.sources = s.sources /\ r.timeout_id = s.timeout_id
        /\ r.outstanding = s.outstanding /\ r.connection = s.connection
        /\ r.idles = s.idles /\ r.runs = s.runs /\ r.remaining = s.remaining
        /\ r.running = s.running /\ r.stops = s.stops
    BY <1>2, ProgramStoppedFacts
  <2> HIDE DEF r
  <2>3. r.stops > 0
    BY <2>2, <1>2, <1>3
  <2>4. Core(r)
    BY <2>2, <2>3, <1>1, <1>2, <1>3 DEF Core
  <2> QED
    BY <2>1, <2>2, <2>3, <2>4, <1>2, <1>5 DEF Good, Waiting, Heard, Watched, Counting
<1>6. CASE ~s.sigkill /\ s.running
  <2> DEFINE k == Kill(s, "TERM")
             r == [k EXCEPT !.process_died = "stop", !.sigkill = TRUE]
  <2>1. stop_simulation(d) = r
    BY <1>6 DEF stop_simulation, s
  <2>2. WellFormed(k) /\ SameButTimers(k, s) /\ k.sources = s.sources /\ k.timeout_id = s.timeout_id
    BY <1>2, KillFacts
  <2> HIDE DEF k
  <2>3. /\ WellFormed(r)
        /\ r.process_died = "stop" /\ r.running
        /\ r.sources = s.sources /\ r.timeout_id = s.timeout_id
        /\ r.outstanding = s.outstanding /\ r.connection = s.connection
        /\ r.idles = s.idles /\ r.runs = s.runs /\ r.remaining = s.remaining
        /\ r.stops = s.stops
    BY <2>2, <1>6 DEF WellFormed, MainData, SameButTimers
  <2> HIDE DEF r
  <2>4. r.stops > 0
    BY <2>3, <1>2, <1>3
  <2>5. Core(r)
    BY <2>3, <2>4, <1>1, <1>2, <1>3, <1>6 DEF Core
  <2> QED
    BY <2>1, <2>3, <2>4, <2>5, <1>2 DEF Good, Waiting, Heard, Watched, Counting
<1> QED
  BY <1>4, <1>5, <1>6

LEMMA QuitFacts ==
  ASSUME NEW d, Good(d)
  PROVE  LET r == [d EXCEPT !.quit = TRUE] IN
         /\ Good(r)
         /\ r.runs = d.runs /\ r.outstanding = d.outstanding /\ r.connection = d.connection
<1> DEFINE r == [d EXCEPT !.quit = TRUE]
<1>1. /\ WellFormed(r) /\ r.quit /\ r.closing = d.closing
      /\ r.connection = d.connection /\ r.outstanding = d.outstanding
      /\ r.notifying = d.notifying
      /\ r.runs = d.runs /\ r.running = d.running /\ r.sources = d.sources
      /\ r.idles = d.idles /\ r.timeout_id = d.timeout_id
      /\ r.stops = d.stops /\ r.sigkill = d.sigkill
      /\ r.process_died = d.process_died /\ r.remaining = d.remaining
  BY DEF Good, Core, WellFormed, MainData
<1> HIDE DEF r
<1>2. Good(r)
  BY <1>1 DEF Good, Core, Waiting, Heard, Watched, Counting
<1> QED
  BY <1>1, <1>2 DEF r

LEMMA StopOrQuitFacts ==
  ASSUME NEW d, Good(d)
  PROVE  LET r == StopOrQuit(d) IN
         /\ Good(r)
         /\ r.runs = d.runs /\ r.outstanding = d.outstanding /\ r.connection = d.connection
<1>1. Core(d)
  BY DEF Good
<1> QED
  BY <1>1, StopFacts, QuitFacts DEF StopOrQuit

LEMMA SpawnEndFacts ==
  ASSUME NEW d, WellFormed(d)
  PROVE  LET r == test_program_spawn_end_cb(d) IN
         /\ WellFormed(r) /\ SameButTimers(r, d)
         /\ test_timeout > 0 => r.timeout_id \in r.sources
<1> DEFINE c == [d EXCEPT !.run_timers = IF run_time > 0 THEN @ + 1 ELSE @]
<1>1. WellFormed(c) /\ SameButTimers(c, d)
  BY DEF WellFormed, MainData, SameButTimers
<1> HIDE DEF c
<1>2. WellFormed(set_inactivity_timeout(c)) /\ SameButTimers(set_inactivity_timeout(c), c)
      /\ (test_timeout > 0 => set_inactivity_timeout(c).timeout_id \in set_inactivity_timeout(c).sources)
  BY <1>1, SetFacts
<1>3. SameButTimers(set_inactivity_timeout(c), d)
  BY <1>1, <1>2 DEF SameButTimers
<1> QED
  BY <1>2, <1>3 DEF test_program_spawn_end_cb, c

\* The fields that a spawn leaves alone.
SameButSpawned(r, d) ==
  /\ r.connection = d.connection /\ r.closing = d.closing /\ r.outstanding = d.outstanding
  /\ r.notifying = d.notifying /\ r.remaining = d.remaining /\ r.idles = d.idles
  /\ r.process_died = d.process_died /\ r.sigkill = d.sigkill /\ r.quit = d.quit
  /\ r.stops = d.stops

\* A wrapper without a process attempts a run; a failed one has no process.
LEMMA SpawnFacts ==
  ASSUME NEW d, WellFormed(d), NEW ok \in BOOLEAN
  PROVE  LET r == Spawn(d, ok) IN
         /\ WellFormed(r) /\ SameButSpawned(r, d)
         /\ d.running => r = d
         /\ ~d.running => /\ r.running = ok /\ r.runs = d.runs + 1
                          /\ d.timeout_id \in d.sources /\ test_timeout > 0
                               => r.timeout_id \in r.sources
                          /\ test_timeout > 0 /\ d.spawn_end => r.timeout_id \in r.sources
<1>1. CASE d.running
  BY <1>1 DEF Spawn, SameButSpawned
<1>2. CASE ~d.running
  <2> DEFINE s == Launch(d, ok)
             r == Spawn(d, ok)
  <2>1. /\ WellFormed(s) /\ SameButSpawned(s, d)
        /\ s.running = ok /\ s.runs = d.runs + 1 /\ s.spawn_end = d.spawn_end
        /\ s.timeout_id = d.timeout_id /\ s.sources = d.sources
    <3>1. d.runs + 1 \in Nat /\ (IF ok THEN "alive" ELSE "none") \in {"none", "alive"}
      BY DEF WellFormed, MainData
    <3>2. s = [d EXCEPT !.running = ok, !.process = IF ok THEN "alive" ELSE "none",
                        !.sent = {}, !.runs = d.runs + 1]
      BY DEF Launch, WellFormed, MainData
    <3> HIDE DEF s
    <3>3. s \in MainData
      BY <3>1, <3>2 DEF WellFormed, MainData
    <3>4. /\ SameButSpawned(s, d) /\ s.running = ok /\ s.runs = d.runs + 1
          /\ s.spawn_end = d.spawn_end /\ s.timeout_id = d.timeout_id
          /\ s.sources = d.sources /\ s.heard = d.heard
          /\ s.process = IF ok THEN "alive" ELSE "none"
      BY <3>2 DEF WellFormed, MainData, SameButSpawned
    <3> QED
      BY <3>3, <3>4 DEF WellFormed
  <2>2. r = IF s.spawn_end THEN test_program_spawn_end_cb(s) ELSE s
    BY <1>2 DEF Spawn
  <2> HIDE DEF s, r
  <2>3. CASE s.spawn_end
    <3>1. WellFormed(r) /\ SameButTimers(r, s) /\ (test_timeout > 0 => r.timeout_id \in r.sources)
      BY <2>1, <2>2, <2>3, SpawnEndFacts
    <3> QED
      BY <1>2, <2>1, <3>1 DEF SameButTimers, SameButSpawned, r
  <2>4. CASE ~s.spawn_end
    BY <1>2, <2>1, <2>2, <2>4 DEF r
  <2> QED
    BY <2>3, <2>4
<1> QED
  BY <1>1, <1>2

\* What holds when a test run is about to be spawned.
Ready(d) ==
  /\ Core(d) /\ Waiting(d)
  /\ d.remaining > 0 \/ d.runs = 0
  /\ d.outstanding = 0 /\ d.connection # "connecting"
  /\ d.stops = 0 => d.process_died = "restart"
  /\ ~d.closing /\ d.stops < 2 => d.process_died # "none"
  /\ test_timeout > 0 /\ d.stops = 0 /\ d.notifying
       => d.timeout_id \in d.sources \/ (~d.running /\ d.spawn_end)

LEMMA SpawnTestFacts ==
  ASSUME NEW d, Ready(d), NEW ok \in BOOLEAN
  PROVE  LET r == spawn_test_program(d, ok) IN Good(r) /\ r.runs > 0
<1> DEFINE p == Spawn(d, ok)
           left == IF p.remaining > 0 THEN p.remaining - 1 ELSE 0
           s == [p EXCEPT !.remaining = left]
<1>1. Core(d) /\ WellFormed(d)
  BY DEF Ready, Core
<1>2. d.runs \in Nat /\ d.remaining \in 0..UintMax /\ d.stops \in 0..2 /\ d.running \in BOOLEAN
  BY <1>1 DEF WellFormed, MainData
<1>3. /\ WellFormed(p) /\ SameButSpawned(p, d)
      /\ d.running => p = d
      /\ ~d.running => /\ p.running = ok /\ p.runs = d.runs + 1
                       /\ d.timeout_id \in d.sources /\ test_timeout > 0
                            => p.timeout_id \in p.sources
                       /\ test_timeout > 0 /\ d.spawn_end => p.timeout_id \in p.sources
  BY <1>1, SpawnFacts
<1>4. spawn_test_program(d, ok) = IF s.running THEN s ELSE stop_simulation(s)
  <2>1. s = [p EXCEPT !.remaining = IF @ > 0 THEN @ - 1 ELSE 0]
    BY <1>3 DEF WellFormed, MainData
  <2> QED
    BY <2>1 DEF spawn_test_program
<1> HIDE DEF p
<1>5. p.remaining = d.remaining /\ UintMax \in Nat
  BY <1>3, OptionsAssumption DEF SameButSpawned
<1>6. left \in 0..UintMax /\ left = IF d.remaining > 0 THEN d.remaining - 1 ELSE 0
  BY <1>5, <1>2
<1> HIDE DEF left
<1>7. /\ WellFormed(s) /\ s.remaining = left
      /\ s.connection = p.connection /\ s.closing = p.closing /\ s.outstanding = p.outstanding
      /\ s.notifying = p.notifying /\ s.idles = p.idles /\ s.process_died = p.process_died
      /\ s.sigkill = p.sigkill /\ s.quit = p.quit /\ s.stops = p.stops
      /\ s.running = p.running /\ s.runs = p.runs
      /\ s.timeout_id = p.timeout_id /\ s.sources = p.sources
  BY <1>3, <1>6 DEF WellFormed, MainData
<1> HIDE DEF s
<1>8. s.runs \in Nat /\ s.runs > 0 /\ s.runs + s.remaining <= Bound
  <2>1. Bound \in Nat /\ Bound > 0 /\ d.runs + d.remaining <= Bound
    BY <1>1, TestRunsType DEF Core
  <2>2. CASE d.running
    <3>1. d.runs > 0 /\ p.runs = d.runs
      BY <1>1, <1>3, <2>2 DEF Core
    <3> QED
      BY <3>1, <2>1, <1>2, <1>6, <1>7
  <2>3. CASE ~d.running
    <3>1. p.runs = d.runs + 1
      BY <1>3, <2>3
    <3>2. d.remaining > 0 \/ d.runs = 0
      BY DEF Ready
    <3> QED
      BY <3>1, <3>2, <2>1, <1>2, <1>6, <1>7
  <2> QED
    BY <2>2, <2>3
<1>9. Core(s)
  <2>1. s.outstanding = 0 /\ s.connection # "connecting"
    BY <1>3, <1>7 DEF Ready, SameButSpawned
  <2>2. s.stops = 0 => ~s.sigkill /\ s.process_died = "restart"
    BY <1>3, <1>7 DEF Ready, Core, SameButSpawned
  <2> QED
    BY <1>7, <1>8, <2>1, <2>2 DEF Core
<1>10. CASE ~s.running
  BY <1>4, <1>8, <1>9, <1>10, StopFacts
<1>11. CASE s.running
  <2>1. Waiting(s)
    BY <1>3, <1>7, <1>11 DEF Ready, Waiting, SameButSpawned
  <2>2. Heard(s)
    BY <1>3, <1>7 DEF Ready, Heard, SameButSpawned
  <2>3. Watched(s)
    BY <1>3, <1>7 DEF Ready, Watched, Counting, SameButSpawned
  <2> QED
    BY <1>4, <1>8, <1>9, <1>11, <2>1, <2>2, <2>3 DEF Good
<1> QED
  BY <1>10, <1>11

\* A restart in the middle of a timer's callback, so that the inactivity
\* timeout may be the very source that is being dispatched.
LEMMA RestartFacts ==
  ASSUME NEW d, Core(d), Waiting(d), ~d.quit, d.runs > 0, NEW ok \in BOOLEAN,
         Counting(d) => d.timeout_id # 0
  PROVE  Good(restart_simulation(d, ok)) /\ restart_simulation(d, ok).runs > 0
<1> DEFINE k == Kill(d, "TERM")
           n == NotifyActivity(k)
<1>1. d.runs \in Nat /\ d.remaining \in 0..UintMax /\ d.outstanding \in Nat /\ d.stops \in 0..2
  BY OptionsAssumption DEF Core, WellFormed, MainData
<1>2. CASE d.remaining = 0
  BY <1>2, <1>1, StopFacts DEF restart_simulation
<1>3. CASE d.remaining # 0
  <2>1. /\ WellFormed(k) /\ SameButTimers(k, d)
        /\ k.sources = d.sources /\ k.timeout_id = d.timeout_id
    BY KillFacts DEF Core
  <2>2. restart_simulation(d, ok) = spawn_test_program(n, ok)
    BY <1>3 DEF restart_simulation
  <2> HIDE DEF k
  <2>3. /\ WellFormed(n) /\ SameButTimers(n, k)
        /\ k.notifying /\ k.timeout_id # 0 /\ test_timeout > 0 => n.timeout_id \in n.sources
    BY <2>1, NotifyFacts
  <2> HIDE DEF n
  <2>4. SameButTimers(n, d)
    BY <2>1, <2>3 DEF SameButTimers
  <2>5. Core(n)
    BY <2>3, <2>4 DEF Core, SameButTimers
  <2>6. Ready(n)
    <3>1. Waiting(n) /\ n.remaining > 0 /\ n.stops \in 0..2
      BY <2>4, <1>1, <1>3 DEF Waiting, SameButTimers
    <3>2. n.outstanding = 0 /\ n.connection # "connecting" /\ (n.stops = 0 => n.process_died = "restart")
      BY <2>4, <1>1 DEF Core, SameButTimers
    <3>3. ~n.closing /\ n.stops < 2 => n.process_died # "none"
      BY <3>1, <3>2, <2>4 DEF Waiting, SameButTimers
    <3>4. test_timeout > 0 /\ n.stops = 0 /\ n.notifying => n.timeout_id \in n.sources
      BY <2>1, <2>3, <2>4 DEF Counting, SameButTimers
    <3> QED
      BY <2>5, <3>1, <3>2, <3>3, <3>4 DEF Ready
  <2> QED
    BY <2>2, <2>6, SpawnTestFacts
<1> QED
  BY <1>2, <1>3

LEMMA StartFacts ==
  ASSUME NEW d, Core(d), Waiting(d), d.runs = 0, d.outstanding = 0, d.connection # "connecting",
         NEW ok \in BOOLEAN
  PROVE  Good(start_simulation(d, ok)) /\ start_simulation(d, ok).runs > 0
<1> DEFINE s == [d EXCEPT !.spawn_end = TRUE, !.process_died = "restart"]
<1>1. /\ WellFormed(s) /\ s.spawn_end /\ s.process_died = "restart"
      /\ s.connection = d.connection /\ s.closing = d.closing /\ s.outstanding = d.outstanding
      /\ s.remaining = d.remaining /\ s.idles = d.idles /\ s.running = d.running
      /\ s.sigkill = d.sigkill /\ s.quit = d.quit /\ s.runs = d.runs /\ s.stops = d.stops
      /\ s.sources = d.sources /\ s.timeout_id = d.timeout_id
  BY DEF Core, WellFormed, MainData
<1>2. start_simulation(d, ok) = spawn_test_program(s, ok)
  BY DEF start_simulation
<1> HIDE DEF s
<1>3. d.runs \in Nat /\ ~d.running
  BY DEF Core, WellFormed, MainData
<1>4. Core(s)
  BY <1>1 DEF Core
<1>5. Ready(s)
  BY <1>1, <1>3, <1>4 DEF Ready, Waiting
<1> QED
  BY <1>2, <1>5, SpawnTestFacts
----------------------------------------------------------------------------
LEMMA InitIInv == Init => IInv
<1> SUFFICES ASSUME Init PROVE IInv
  OBVIOUS
<1>1. data \in MainData
  BY TestRunsType, OptionsAssumption DEF Init, MainData
<1>2. WellFormed(data)
  BY <1>1, FS_EmptySet DEF Init, WellFormed
<1>3. Core(data)
  BY <1>2, TestRunsType DEF Init, Core
<1> QED
  BY <1>3 DEF Init, IInv, Good, Waiting, Heard, Watched, Counting

LEMMA StepIInv == IInv /\ [Next]_vars => IInv'
<1> SUFFICES ASSUME IInv, [Next]_vars PROVE IInv'
  OBVIOUS
<1> USE DEF Becomes
<1>1. /\ Core(data) /\ Waiting(data) /\ Heard(data) /\ Watched(data)
      /\ WellFormed(data) /\ data \in MainData
  BY DEF IInv, Good, Core, WellFormed
<1>2. /\ data.runs \in Nat /\ data.idles \in Nat /\ data.run_timers \in Nat
      /\ data.outstanding \in 0..NumObjects /\ NumObjects \in Nat
  BY <1>1, OptionsAssumption DEF MainData
<1>3. ASSUME Good(data'), daemon' \in {"starting", "running", "dead"},
             daemon' = "starting" => data'.runs = 0 /\ data'.outstanding = 0 /\ data'.connection = "none"
      PROVE  IInv'
  BY <1>3 DEF IInv
<1>4. daemon = "starting" => data.runs = 0 /\ data.outstanding = 0 /\ data.connection = "none"
  BY DEF IInv
<1>5. daemon \in {"starting", "running", "dead"}
  BY DEF IInv
<1>6. CASE BusAddress
  <2>1. /\ WellFormed(data') /\ data'.runs = 0 /\ data'.outstanding = 0
        /\ data'.running = data.running /\ data'.sources = data.sources
        /\ data'.idles = data.idles /\ data'.timeout_id = data.timeout_id
        /\ data'.stops = data.stops /\ data'.sigkill = data.sigkill
        /\ data'.process_died = data.process_died /\ data'.remaining = data.remaining
        /\ data'.closing = data.closing /\ data'.quit = data.quit
    BY <1>1, <1>4, <1>6 DEF BusAddress, WellFormed, MainData
  <2>2. Good(data')
    BY <1>1, <1>4, <1>6, <2>1 DEF BusAddress, Core, Good, Waiting, Heard, Watched, Counting
  <2> QED
    BY <1>3, <1>6, <2>1, <2>2 DEF BusAddress
<1>7. CASE ConnectionCreated
  <2>1. data.runs = 0 /\ data.outstanding = 0
    BY <1>1, <1>2, <1>7 DEF ConnectionCreated, Core
  <2>2. /\ WellFormed(data') /\ data'.runs = 0 /\ data'.connection # "connecting"
        /\ data'.outstanding \in 0..NumObjects
        /\ data'.running = data.running /\ data'.sources = data.sources
        /\ data'.idles = data.idles /\ data'.timeout_id = data.timeout_id
        /\ data'.stops = data.stops /\ data'.sigkill = data.sigkill
        /\ data'.process_died = data.process_died /\ data'.remaining = data.remaining
        /\ data'.closing = data.closing /\ (data.quit => data'.quit)
    <3>1. CASE data' = [data EXCEPT !.connection = "open", !.notifying = TRUE, !.outstanding = NumObjects]
      <4>1. NumObjects \in 0..NumObjects
        BY <1>2
      <4>2. data' \in MainData
        BY <1>1, <3>1, <4>1 DEF MainData
      <4> QED
        BY <1>1, <2>1, <3>1, <4>1, <4>2 DEF WellFormed, MainData
    <3>2. CASE data' = [data EXCEPT !.connection = "none", !.quit = TRUE]
      BY <1>1, <1>2, <2>1, <3>2 DEF WellFormed, MainData
    <3> QED
      BY <1>7, <3>1, <3>2 DEF ConnectionCreated
  <2>3. Good(data')
    BY <1>1, <2>1, <2>2 DEF Core, Good, Waiting, Heard, Watched, Counting
  <2>4. daemon' # "starting"
    BY <1>4, <1>7 DEF ConnectionCreated
  <2> QED
    BY <1>3, <1>5, <1>7, <2>2, <2>3, <2>4 DEF ConnectionCreated
<1>8. CASE ObjectRegistered
  <2>1. PICK error \in BOOLEAN, ok \in BOOLEAN :
          LET registered == [data EXCEPT !.outstanding = @ - 1]
              answered == IF error THEN unregister_objects_and_close_connection(registered)
                          ELSE registered
          IN  data' = IF answered.outstanding > 0 THEN answered ELSE start_simulation(answered, ok)
    BY <1>8 DEF ObjectRegistered
  <2> DEFINE registered == [data EXCEPT !.outstanding = @ - 1]
             answered == IF error THEN unregister_objects_and_close_connection(registered)
                         ELSE registered
  <2>2. data.runs = 0 /\ data.outstanding > 0 /\ data.connection # "connecting" /\ ~data.running
    BY <1>1, <1>8 DEF ObjectRegistered, Core
  <2>3. /\ WellFormed(registered) /\ registered.outstanding = data.outstanding - 1
        /\ registered = [data EXCEPT !.outstanding = data.outstanding - 1]
    <3>1. data.outstanding - 1 \in 0..NumObjects
      BY <1>2, <2>2
    <3> QED
      BY <1>1, <3>1 DEF WellFormed, MainData
  <2>4. /\ registered.runs = data.runs /\ registered.connection = data.connection
        /\ registered.running = data.running /\ registered.sources = data.sources
        /\ registered.idles = data.idles /\ registered.timeout_id = data.timeout_id
        /\ registered.stops = data.stops /\ registered.sigkill = data.sigkill
        /\ registered.process_died = data.process_died /\ registered.remaining = data.remaining
        /\ registered.closing = data.closing /\ registered.quit = data.quit
    BY <1>1, <2>3 DEF MainData
  <2>5. data' = IF answered.outstanding > 0 THEN answered ELSE start_simulation(answered, ok)
    BY <2>1
  <2>6. /\ answered = IF error THEN unregister_objects_and_close_connection(registered)
                      ELSE registered
        /\ daemon' = daemon
    BY <1>8 DEF ObjectRegistered
  <2> HIDE DEF registered, answered
  <2>7. /\ WellFormed(answered) /\ answered.outstanding = data.outstanding - 1
        /\ answered.runs = 0 /\ answered.connection = data.connection
        /\ answered.running = data.running /\ answered.sources = data.sources
        /\ answered.idles = data.idles /\ answered.timeout_id = data.timeout_id
        /\ answered.stops = data.stops /\ answered.sigkill = data.sigkill
        /\ answered.process_died = data.process_died /\ answered.remaining = data.remaining
        /\ (data.closing => answered.closing) /\ (data.quit => answered.quit)
    <3>1. CASE error
      <4> DEFINE closed == unregister_objects_and_close_connection(registered)
      <4>1. answered = closed
        BY <2>6, <3>1
      <4>2. /\ WellFormed(closed) /\ closed.outstanding = registered.outstanding
            /\ closed.runs = registered.runs /\ closed.connection = registered.connection
            /\ closed.running = registered.running /\ closed.sources = registered.sources
            /\ closed.idles = registered.idles /\ closed.timeout_id = registered.timeout_id
            /\ closed.stops = registered.stops /\ closed.sigkill = registered.sigkill
            /\ closed.process_died = registered.process_died
            /\ closed.remaining = registered.remaining
            /\ (registered.closing => closed.closing) /\ (registered.quit => closed.quit)
        BY <2>3, CloseFacts
      <4> HIDE DEF closed
      <4> QED
        BY <2>2, <2>3, <2>4, <4>1, <4>2
    <3>2. CASE ~error
      BY <2>2, <2>3, <2>4, <2>6, <3>2
    <3> QED
      BY <3>1, <3>2
  <2>8. Core(answered) /\ Waiting(answered)
    BY <1>1, <2>2, <2>7 DEF Core, Waiting
  <2>9. Good(data')
    <3>1. CASE answered.outstanding > 0
      BY <2>2, <2>5, <2>7, <2>8, <3>1 DEF Good, Heard, Watched, Counting
    <3>2. CASE ~(answered.outstanding > 0)
      <4>1. answered.outstanding = 0
        BY <1>2, <2>2, <2>7, <3>2
      <4> QED
        BY <2>2, <2>5, <2>7, <2>8, <3>2, <4>1, StartFacts
    <3> QED
      BY <3>1, <3>2
  <2>10. daemon # "starting"
    BY <1>4, <2>2
  <2> QED
    BY <1>3, <1>5, <2>6, <2>9, <2>10
<1>9. CASE ConnectionVanished
  <2> DEFINE d == [data EXCEPT !.connection = "none"]
  <2>1. /\ WellFormed(d) /\ d.connection = "none" /\ d.outstanding = data.outstanding
        /\ d.runs = data.runs /\ d.running = data.running /\ d.sources = data.sources
        /\ d.idles = data.idles /\ d.timeout_id = data.timeout_id /\ d.stops = data.stops
        /\ d.sigkill = data.sigkill /\ d.process_died = data.process_died
        /\ d.remaining = data.remaining
    BY <1>1 DEF WellFormed, MainData
  <2>2. data' = stop_simulation(d) /\ daemon' = daemon
    BY <1>9 DEF ConnectionVanished
  <2>3. daemon # "starting"
    BY <1>4, <1>9 DEF ConnectionVanished
  <2> HIDE DEF d
  <2>4. Core(d)
    BY <1>1, <2>1 DEF Core
  <2> QED
    BY <1>3, <1>5, <2>2, <2>3, <2>4, StopFacts
<1>10. CASE ConnectionClosed
  <2>1. data' = [data EXCEPT !.quit = TRUE] /\ daemon' = daemon
    BY <1>10 DEF ConnectionClosed
  <2>2. Good(data)
    BY DEF IInv
  <2> QED
    BY <1>3, <1>4, <1>5, <2>1, <2>2, QuitFacts
<1>11. CASE DaemonDied
  <2>1. /\ data' = IF data.exit_signals = {} THEN StopOrQuit(data) ELSE data
        /\ daemon' = "dead"
    BY <1>11 DEF DaemonDied, Becomes
  <2>2. Good(data')
    BY <2>1, StopOrQuitFacts DEF IInv
  <2> QED
    BY <1>3, <2>1, <2>2
<1>12. ASSUME NEW signal \in Signals, Signal(signal) PROVE IInv'
  <2> DEFINE d == [data EXCEPT !.exit_signals = @ \cup {signal}]
  <2>1. data' = StopOrQuit(d) /\ daemon' = daemon
    BY <1>12 DEF Signal
  <2>2. /\ WellFormed(d) /\ d.closing = data.closing /\ d.quit = data.quit
        /\ d.connection = data.connection /\ d.outstanding = data.outstanding
        /\ d.notifying = data.notifying
        /\ d.runs = data.runs /\ d.running = data.running /\ d.sources = data.sources
        /\ d.idles = data.idles /\ d.timeout_id = data.timeout_id
        /\ d.stops = data.stops /\ d.sigkill = data.sigkill
        /\ d.process_died = data.process_died /\ d.remaining = data.remaining
    BY <1>1 DEF WellFormed, MainData
  <2> HIDE DEF d
  <2>3. Good(d)
    BY <1>1, <2>2 DEF Core, Good, Waiting, Heard, Watched, Counting
  <2>4. Good(data') /\ data'.runs = data.runs /\ data'.outstanding = data.outstanding
        /\ data'.connection = data.connection
    BY <2>1, <2>2, <2>3, StopOrQuitFacts
  <2> QED
    BY <1>3, <1>4, <1>5, <2>1, <2>4
<1>13. CASE ChildWatch
  <2> DEFINE d == [data EXCEPT !.running = FALSE, !.process = "none", !.sent = {}]
  <2>1. data' = (IF d.process_died = "restart" THEN TestProgramDied(d, data.process)
                 ELSE IF d.process_died = "stop" THEN TestProgramStopped(d)
                 ELSE d)
        /\ daemon' = daemon /\ ~data.quit
    BY <1>13 DEF ChildWatch
  <2>2. data.running /\ data.runs > 0
    BY <1>1, <1>13 DEF ChildWatch, Core, WellFormed
  <2>3. /\ WellFormed(d) /\ ~d.running /\ d.closing = data.closing /\ d.quit = data.quit
        /\ d.connection = data.connection /\ d.outstanding = data.outstanding
        /\ d.notifying = data.notifying /\ d.runs = data.runs /\ d.sources = data.sources
        /\ d.idles = data.idles /\ d.timeout_id = data.timeout_id
        /\ d.stops = data.stops /\ d.sigkill = data.sigkill
        /\ d.process_died = data.process_died /\ d.remaining = data.remaining
    BY <1>1 DEF WellFormed, MainData
  <2> HIDE DEF d
  <2>4. Core(d)
    BY <1>1, <2>2, <2>3 DEF Core
  <2>5. Good(data')
    <3>1. CASE d.process_died = "restart" /\ data.process = "crashed"
      BY <2>1, <2>4, <3>1, StopFacts DEF TestProgramDied
    <3>2. CASE d.process_died = "restart" /\ data.process # "crashed"
      <4> DEFINE n == IF d.exit_signals = {} THEN d.idles + 1 ELSE d.idles
                 r == [d EXCEPT !.idles = n]
      <4>1. d.idles \in Nat
        BY <2>3 DEF WellFormed, MainData
      <4>2. n \in Nat
        BY <4>1
      <4>3. data' = r
        BY <2>1, <2>3, <3>2 DEF TestProgramDied, WellFormed, MainData
      <4> HIDE DEF n
      <4>4. /\ WellFormed(r) /\ ~r.running /\ r.closing = d.closing /\ r.quit = d.quit
            /\ r.connection = d.connection /\ r.outstanding = d.outstanding
            /\ r.notifying = d.notifying /\ r.runs = d.runs /\ r.sources = d.sources
            /\ r.timeout_id = d.timeout_id /\ r.stops = d.stops /\ r.sigkill = d.sigkill
            /\ r.process_died = d.process_died /\ r.remaining = d.remaining
        BY <2>3, <4>2 DEF WellFormed, MainData
      <4> HIDE DEF r
      <4>5. Core(r)
        BY <2>2, <2>3, <2>4, <4>4 DEF Core
      <4> QED
        BY <1>1, <2>1, <2>3, <3>2, <4>3, <4>4, <4>5 DEF Good, Waiting, Heard, Watched, Counting
    <3>3. CASE d.process_died = "stop"
      <4> DEFINE r == TestProgramStopped(d)
      <4>1. data' = r
        BY <2>1, <3>3
      <4>2. /\ WellFormed(r)
            /\ r.closing \/ r.quit
            /\ ~r.sigkill /\ r.process_died = "none" /\ ~r.notifying
            /\ r.sources = d.sources /\ r.timeout_id = d.timeout_id
            /\ r.outstanding = d.outstanding /\ r.connection = d.connection
            /\ r.idles = d.idles /\ r.runs = d.runs /\ r.remaining = d.remaining
            /\ r.running = d.running /\ r.stops = d.stops
        BY <2>3, ProgramStoppedFacts
      <4> HIDE DEF r
      <4>3. r.stops # 0
        BY <2>4, <3>3, <4>2 DEF Core
      <4>4. Core(r)
        BY <2>2, <2>3, <2>4, <4>2, <4>3 DEF Core
      <4> QED
        BY <2>3, <4>1, <4>2, <4>4 DEF Good, Waiting, Heard, Watched, Counting
    <3>4. CASE d.process_died = "none"
      BY <1>1, <2>1, <2>2, <2>3, <2>4, <3>4 DEF Good, Core, Waiting, Heard, Watched, Counting
    <3> QED
      BY <2>3, <3>1, <3>2, <3>3, <3>4 DEF WellFormed, MainData
  <2>6. daemon # "starting"
    BY <1>2, <1>4, <2>2
  <2> QED
    BY <1>3, <1>5, <2>1, <2>5, <2>6
<1>14. CASE IdleRestart
  <2>1. PICK ok \in BOOLEAN : data' = restart_simulation([data EXCEPT !.idles = @ - 1], ok)
    BY <1>14 DEF IdleRestart
  <2> DEFINE d == [data EXCEPT !.idles = @ - 1]
  <2>2. data.idles > 0 /\ ~data.quit /\ daemon' = daemon
    BY <1>14 DEF IdleRestart
  <2>3. data.runs > 0
    BY <1>1, <2>2 DEF Core
  <2>4. data.idles - 1 \in Nat
    BY <1>2, <2>2
  <2>5. /\ WellFormed(d) /\ d.running = data.running /\ d.closing = data.closing
        /\ d.quit = data.quit /\ d.connection = data.connection
        /\ d.outstanding = data.outstanding /\ d.notifying = data.notifying
        /\ d.runs = data.runs /\ d.sources = data.sources
        /\ d.timeout_id = data.timeout_id /\ d.stops = data.stops /\ d.sigkill = data.sigkill
        /\ d.process_died = data.process_died /\ d.remaining = data.remaining
    BY <1>1, <2>4 DEF WellFormed, MainData
  <2>6. data' = restart_simulation(d, ok)
    BY <2>1
  <2> HIDE DEF d
  <2>7. Core(d) /\ Waiting(d) /\ (Counting(d) => d.timeout_id # 0)
    BY <1>1, <2>3, <2>5 DEF Core, Waiting, Watched, Counting, MainData
  <2>8. Good(data')
    BY <2>2, <2>3, <2>5, <2>6, <2>7, RestartFacts
  <2>9. daemon # "starting"
    BY <1>2, <1>4, <2>3
  <2> QED
    BY <1>3, <1>5, <2>2, <2>8, <2>9
<1>15. ASSUME NEW s \in data.sources, InactivityTimeout(s) PROVE IInv'
  <2>1. PICK ok \in BOOLEAN :
          data' = restart_simulation([data EXCEPT !.sources = @ \ {s}, !.heard = @ \ {s}], ok)
    BY <1>15 DEF InactivityTimeout
  <2> DEFINE d == [data EXCEPT !.sources = @ \ {s}, !.heard = @ \ {s}]
  <2>2. ~data.quit /\ daemon' = daemon
    BY <1>15 DEF InactivityTimeout
  <2>3. data.runs > 0
    BY <1>1, <1>15 DEF Core
  <2>4. IsFiniteSet(data.sources \ {s})
    BY <1>1, FS_Subset DEF WellFormed
  <2>5. /\ WellFormed(d) /\ d.running = data.running /\ d.closing = data.closing
        /\ d.quit = data.quit /\ d.connection = data.connection
        /\ d.outstanding = data.outstanding /\ d.notifying = data.notifying
        /\ d.runs = data.runs /\ d.idles = data.idles
        /\ d.timeout_id = data.timeout_id /\ d.stops = data.stops /\ d.sigkill = data.sigkill
        /\ d.process_died = data.process_died /\ d.remaining = data.remaining
    BY <1>1, <2>4 DEF WellFormed, MainData
  <2>6. data' = restart_simulation(d, ok)
    BY <2>1
  <2> HIDE DEF d
  <2>7. Core(d) /\ Waiting(d) /\ (Counting(d) => d.timeout_id # 0)
    BY <1>1, <2>3, <2>5 DEF Core, Waiting, Watched, Counting, MainData
  <2>8. Good(data')
    BY <2>2, <2>3, <2>5, <2>6, <2>7, RestartFacts
  <2>9. daemon # "starting"
    BY <1>2, <1>4, <2>3
  <2> QED
    BY <1>3, <1>5, <2>2, <2>8, <2>9
<1>16. CASE SimulationTimeout
  <2> DEFINE d == [data EXCEPT !.run_timers = @ - 1]
  <2>1. data' = stop_simulation(d) /\ data.run_timers - 1 \in Nat /\ daemon' = daemon
    BY <1>2, <1>16 DEF SimulationTimeout
  <2>2. /\ WellFormed(d) /\ SameButTimers(d, data)
        /\ d.sources = data.sources /\ d.timeout_id = data.timeout_id
    BY <1>1, <2>1 DEF WellFormed, MainData, SameButTimers
  <2> HIDE DEF d
  <2>3. Core(d)
    BY <1>1, <2>2 DEF Core, SameButTimers
  <2>4. /\ Good(data') /\ data'.runs = data.runs
        /\ data'.outstanding = data.outstanding /\ data'.connection = data.connection
    BY <2>1, <2>2, <2>3, StopFacts DEF SameButTimers
  <2> QED
    BY <1>3, <1>4, <1>5, <2>1, <2>4
<1>17. CASE KillProgram
  <2> DEFINE k == IF data.running THEN Kill(data, "KILL") ELSE TestProgramStopped(data)
             r == [k EXCEPT !.sigkill = FALSE]
  <2>1. data' = r /\ data.sigkill /\ ~data.quit /\ daemon' = daemon
    BY <1>17 DEF KillProgram
  <2>2. data.stops # 0
    BY <1>1, <2>1 DEF Core
  <2>3. /\ WellFormed(k) /\ k.sources = data.sources /\ k.timeout_id = data.timeout_id
        /\ k.outstanding = data.outstanding /\ k.connection = data.connection
        /\ k.idles = data.idles /\ k.runs = data.runs /\ k.remaining = data.remaining
        /\ k.running = data.running /\ k.stops = data.stops
        /\ data.running => k.process_died = data.process_died /\ k.closing = data.closing
        /\ ~data.running => k.closing \/ k.quit
    <3>1. CASE data.running
      BY <1>1, <3>1, KillFacts DEF SameButTimers
    <3>2. CASE ~data.running
      BY <1>1, <3>2, ProgramStoppedFacts
    <3> QED
      BY <3>1, <3>2
  <2> HIDE DEF k
  <2>4. /\ WellFormed(r) /\ r.sources = k.sources /\ r.timeout_id = k.timeout_id
        /\ r.outstanding = k.outstanding /\ r.connection = k.connection
        /\ r.idles = k.idles /\ r.runs = k.runs /\ r.remaining = k.remaining
        /\ r.running = k.running /\ r.stops = k.stops /\ r.process_died = k.process_died
        /\ r.closing = k.closing /\ r.quit = k.quit
    BY <2>3 DEF WellFormed, MainData
  <2> HIDE DEF r
  <2>5. Core(r)
    BY <1>1, <2>2, <2>3, <2>4 DEF Core
  <2>6. Good(r)
    BY <1>1, <2>1, <2>2, <2>3, <2>4, <2>5 DEF Good, Waiting, Heard, Watched, Counting
  <2> QED
    BY <1>3, <1>4, <1>5, <2>1, <2>3, <2>4, <2>6
<1>18. CASE Activity
  <2> DEFINE n == NotifyActivity(data)
             r == [n EXCEPT !.heard = n.sources \ {n.timeout_id}]
  <2>1. data' = r /\ data.notifying /\ data.runs > 0 /\ daemon' = daemon
    BY <1>18 DEF Activity
  <2>2. /\ WellFormed(n) /\ SameButTimers(n, data)
        /\ data.timeout_id = 0 => n = data
        /\ data.notifying /\ data.timeout_id # 0 /\ test_timeout > 0
             => n.timeout_id \in n.sources
    BY <1>1, NotifyFacts
  <2> HIDE DEF n
  <2>3. /\ WellFormed(r) /\ SameButTimers(r, n)
        /\ r.sources = n.sources /\ r.timeout_id = n.timeout_id
    BY <2>2 DEF WellFormed, MainData, SameButTimers
  <2> HIDE DEF r
  <2>4. Core(r)
    BY <1>1, <2>1, <2>2, <2>3 DEF Core, SameButTimers
  <2>5. Watched(r)
    BY <1>1, <2>1, <2>2, <2>3 DEF Watched, Counting, SameButTimers
  <2>6. Good(r)
    BY <1>1, <2>2, <2>3, <2>4, <2>5 DEF Good, Waiting, Heard, SameButTimers
  <2>7. daemon # "starting"
    BY <1>2, <1>4, <2>1
  <2> QED
    BY <1>3, <1>5, <2>1, <2>6, <2>7
<1>19. CASE ProcessDies
  <2>1. PICK how \in {"exited", "crashed"} : data' = [data EXCEPT !.process = how]
    BY <1>19 DEF ProcessDies
  <2>2. data.running /\ daemon' = daemon
    BY <1>1, <1>19 DEF ProcessDies, WellFormed
  <2>3. /\ WellFormed(data') /\ SameButTimers(data', data)
        /\ data'.sources = data.sources /\ data'.timeout_id = data.timeout_id
    BY <1>1, <2>1, <2>2 DEF WellFormed, MainData, SameButTimers
  <2>4. Good(data')
    BY <1>1, <2>3 DEF Good, Core, Waiting, Heard, Watched, Counting, SameButTimers
  <2> QED
    BY <1>3, <1>4, <1>5, <2>2, <2>3, <2>4 DEF SameButTimers
<1>20. CASE UNCHANGED vars
  BY <1>20 DEF vars, IInv
<1> QED
  BY <1>6, <1>7, <1>8, <1>9, <1>10, <1>11, <1>12, <1>13, <1>14, <1>15, <1>16, <1>17,
     <1>18, <1>19, <1>20
  DEF Next
----------------------------------------------------------------------------
LEMMA Invariance == Spec => []IInv
<1>1. Init => IInv
  BY InitIInv
<1>2. IInv /\ [Next]_vars => IInv'
  BY StepIInv
<1> QED
  BY <1>1, <1>2, PTL DEF Spec

\* The types, for any command line, any number of objects and any set of
\* termination signals.
THEOREM TypeCorrect == Spec => []TypeOK
<1>1. IInv => TypeOK
  BY DEF IInv, Good, Core, WellFormed, TypeOK
<1> QED
  BY <1>1, Invariance, PTL

\* No command line lets a race of exits, timeouts and restarts start more
\* test runs than it asks for.
THEOREM RunsBoundedHolds == Spec => []RunsBounded
<1>1. IInv => RunsBounded
  BY DEF IInv, Good, Core, Bound, RunsBounded
<1> QED
  BY <1>1, Invariance, PTL

\* A test run is never without the inactivity timeout that activity re-arms.
THEOREM RunsAreWatchedHolds == Spec => []RunsAreWatched
<1>1. IInv => RunsAreWatched
  BY DEF IInv, Good, Watched, Counting, RunsAreWatched
<1> QED
  BY <1>1, Invariance, PTL

\* The death of the program is acted on as long as there is one stop at most.
THEOREM DeathIsHeardHolds == Spec => []DeathIsHeard
<1>1. IInv => DeathIsHeard
  BY DEF IInv, Good, Heard, DeathIsHeard
<1> QED
  BY <1>1, Invariance, PTL
=============================================================================
