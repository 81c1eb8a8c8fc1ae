# Verification of bendy-bus

bendy-bus simulates D-Bus services described by finite state machines, runs a
program under test against the simulation again and again, and after a while
fuzzes what the simulation does.  This directory holds TLA+ models of it, the
TLC configurations that check them on small instances and proofs, checked by
TLAPS, for all instances.

Run from this directory:

    tlc -config MCMachine.cfg MCMachine      # likewise for the other MC modules
    tlapm MachineProofs.tla                  # likewise for the other *Proofs modules

`PROJECT.json` lists the components, the runs, the source lines each definition
models, one seeded bug (mutant) for every property, the hazards and the theorems.

## The system

Everything is one process on one GLib main loop; the other processes are a
private dbus-daemon and the program under test.

| Part | State it keeps | Operations | Correct when |
|---|---|---|---|
| State machine (`dfsm/dfsm-machine.c`) | current state, transition tables, environment | method call, property set, arbitrary transition, reset | one answer per method call, none otherwise; moves only along an eligible transition; a call that runs none leaves no trace; throws only as a last resort |
| Environment (`dfsm-environment.c`) | variables of the object and local scopes, saved copies | set, look up, save, reset, built-in functions | local scope empty between calls; a variable that was checked to exist exists |
| Transitions, preconditions, statements (`dfsm-ast-transition.c`, `-precondition.c`, `-statement*.c`) | immutable after the checks | check, evaluate preconditions, execute | exactly one answering statement per method transition |
| Reachability (`dfsm-machine.c` from line 739) | queue and result array | pop, relax, break off | marks equal the best path to each state |
| Simulated object (`dfsm-object.c`) | registration, names, timer, connection, status; a count shared by all objects | register, name acquired/lost, unregister, reset, method call, set property, arbitrary transition | starts once, when all names are owned; one timer; every call answered |
| Object factory (`dfsm-object.c` to line 620) | two asynchronous loads, one result | load from data or files | one completion; all objects pass all checks, or none is made |
| Output sequence (`dfsm-dbus-output-sequence.c`) | queue of replies, errors and signals | add, output | in order, up to the first failure |
| Simulator program (`bendy-bus/main.c`) | `MainData` | callbacks of daemon, connection, registration, timers, signals, program | bounded number of test runs, each watched; ends when stopped |
| Program and daemon wrappers (`program-wrapper.c`, `test-program.c`, `dbus-daemon.c`) | pid, running flag, watches, pipes, bus address | spawn, kill, child watch, read address | a death is heard of once |
| Abstract syntax of objects (`dfsm-ast-object.c`) | blocks of the parsed file | numbering of states, checks | names resolve; one starting state |
| Data structures (`dfsm-ast-data-structure.c`) | process-wide fuzzing switch | check, evaluate, fuzz, assign | values, fuzzed or not, keep their type; edited strings stay whole |
| Expressions, variables (`dfsm-ast-expression*.c`, `-variable.c`) | none | type, check, evaluate | what passed the checks can be evaluated; arithmetic saturates |
| Probability distributions (`dfsm-probabilities.c`) | none | draw | every random word selects an interval |
| Parser, lexer, name checks, logging, lint, viz | | | |

How they interact: `main.c` loads the description, which is checked as a whole
before any object exists, then spawns the daemon; when its address has been read
from a pipe it connects and registers the objects; when the last has registered it spawns the
program.  GDBus calls an object for each method call; the object calls its
machine, which fills an output sequence, and then outputs it.  The object
notifies `main.c` of activity, which re-arms the inactivity timeout.  The death
of the program restarts the simulation from an idle source; a restart resets
the objects and spawns the next run.

What is hard: the selection loop starts at a random offset and keeps outcomes
back; preconditions are random when fuzzed and evaluated twice; the fuzzing
switch and the transition count are process-wide; name callbacks are counted
across asynchronous replies; five kinds of timer race with exits, crashes,
signals and each other in `main.c`; the fuzzer edits strings in place with
offsets in bytes and in characters at once; and what the checks of the language
let through ends in an assertion much later.  `PROJECT.json` lists each of these hazards
at its line.

## Modules

| Module | Models | Composed with |
|---|---|---|
| `Machine` | state machine, environment, transitions | |
| `StateGraph` | transition matrix, and what reachable means | |
| `Reachability` | the analysis | extends `StateGraph` |
| `MachineReachability` | the machine against the analysis | extends `Machine`, `StateGraph` |
| `Lifecycle` | abstract: what registration promises | |
| `DfsmObject` | simulated objects and output sequences | refines `Lifecycle`; its outputs are assumed as `Machine` proves them |
| `Simulator` | main program and wrappers, from the bus address on | |
| `Startup` | loading, the daemon and its address, the asynchronous factory | what comes before `Simulator` |
| `Arithmetic` | the numeric operators at any width | |
| `Variants`, `Subtypes` | types and values of D-Bus, subtypes and supertypes | functions on types inside a type are parameters |
| `Nodes` | the virtual functions of expressions, valid names, and verdicts of checks one after the other | |
| `Containers` | what the functions of the language do to arrays and dictionaries, and how they undo one another | extends `Variants` |
| `Builtins` | types and dispatch of the twelve functions of the language | extends `Subtypes`, `Containers` |
| `Expressions` | data structures, operators, variables: checks, types, values, assignment | extends `Builtins`, `Nodes`, `Arithmetic`; implements the parameters of `Nodes` |
| `AstObject` | loading an object and running its transitions, whatever expressions mean | extends `Containers`, `Subtypes`, `Nodes`; expressions are its parameters |
| `Language` | objects whose expressions are those of the language: what can be said only of both | extends `AstObject` and `Expressions` |
| `Fuzzing` | the draw, and how scalar literals are fuzzed | what `Expressions` leaves open as `FuzzedValues` |
| `MC*` | instances for TLC | extend the modules they instantiate |
| `*Proofs` | theorems | extend the modules they are about |

Definitions keep the names of the C code where they can.  Those commented
`Mutant:` are the seeded bugs of `PROJECT.json`; no specification uses them.

### Machine

`transitions`, `machine_state` and the environment (`object`, `locals`) are the
fields of `DfsmMachine` and `DfsmEnvironment`.  A call is many steps: `pc` says
where in `find_and_execute_random_transition` and its callers it is, `offset`,
`i`, `candidate` and `failure` are that function's locals, `running` and
`statement` those of `dfsm_ast_transition_execute`.  `entry` is a history
variable: the state when the call came in, which the properties compare with.

Values, variable names and tables are constants; an expression is a literal, a
fuzzy literal or a variable, and has a *set* of outcomes.  A fuzzy literal has
any value while the switch is on.  A failed assertion of the code is the state
`pc = "aborted"`.  `DescriptionsAssumption` says that the tables have passed
the checks of `dfsm_ast_transition_check`: the models start from a program that
was accepted.  `OtherMachineExecutes` is the rest of the process, which may set
the fuzzing switch between two calls.

### Reachability

`Pop` is one turn of the loop.  `Exact` compares the result with `ReachableBy`,
defined by closed sets and not by the algorithm.  `NeverUnreachable`
(`MachineReachability`) says that the running machine never enters a state that
the analysis calls unreachable.

### DfsmObject and Lifecycle

A handler is one step.  `results` are the asynchronous results waiting in the
main loop; `exported` is what GDBus has, as opposed to what the object thinks
(`registered`).  `sources` counts the live timers apart from `scheduled`
(`timeout_id` is set), so that a leaked timer shows.  `moved` stands for the
machine's state.  `Lifecycle` has no counter: an object starts when all names
are owned.  `DfsmObject` implements it under the mapping `Phase`.

### Simulator

A callback in `main.c` often calls several functions that change `MainData`, so
`data` is a record, each C function is an operator from record to record, and
an action applies the callback's composition.  `sources` are the inactivity
sources in the main loop, apart from `timeout_id`, the one the program knows
of; `heard` are those set before the last activity.  `running` is the wrapper's
flag and `process` the process itself; in between a death is not yet noticed.
`quit` means that the main loop is over.  `runs`, `stops` and `heard` are history.

### Startup

`stage` is where `main()` is; `pipe` is the pipe the daemon prints its address
to, with who holds its write end.  A callback that reads the pipe runs until its
end and blocks the main loop meanwhile, so a read is a step and no other
callback comes between two of them.  `bus_address` is the wrapper's and
`dbus_address` that of `main()`: the death of the daemon clears the first and
notifies, and `main()`, which has disconnected its callback by then
(`main.c:706`), hears nothing.  The same module has the factory for clients of the
library, whose two loads complete in either order.

### Expressions, AstObject and Language

An expression is a nested tuple; a value is a pair of its type and a payload.
Whatever can have more than one outcome (a fuzzed literal, undefined behaviour,
the order of a hash table) is a set of values, and a failed assertion is the
value `Aborts(why)`.

In the code everything that holds an expression calls it through the virtual
functions of `DfsmAstExpression`, and so do expressions themselves for what is
inside them.  `Nodes` has these functions as parameters (`PreCheck`, `Check`,
`CalculateType`, `Evaluate`, `ToVariant`, `IsVariable`, `SetFromVariant`), and
`Subtypes` those of GLib on types.  `Expressions` has the implementations, under the names of the C
functions (`pre_check`, `check`, `calculate_type`, `evaluate`, ...): each does one
level of an expression and calls the parameters for its children.  The
configurations give each parameter its implementation (`Evaluate` is `evaluate`, by
way of `EvaluateOf` in `MCAstObject`), and thereby tie the knot.  No operator is declared recursive, so that theorems
about the definitions TLC evaluates are within the prover's reach.
`is_parsed` says what the parser makes (`dfsm-bison.y`) and how deep it is nested.

`AstObject` is a state machine around expressions, whatever they mean; its theorems
are about every language that keeps the contract `LanguageIsSound`, and
`LanguageProofs` shows that this one does.
`InitialCheck` registers the names
and states, `CheckVariable` checks and initialises one variable at a time in any
order, since the code iterates a hash table, `CheckTransitions` does the rest
and `Execute` runs one transition with arguments chosen by the client.  A first
value is what `ToVariant` makes of the data, as in the code, and not what
`Evaluate` makes of it: `evaluate` asserts that there is a value, and
`CheckVariable` drops the `Null` that GLib gives for a literal it makes nothing
of, so that the variable is declared without a value (`Unset`).  The
checks follow the order of the code, because a check that comes too late turns
an error message into an abort.

### Fuzzing

One evaluation of a literal is many steps: `draw` is the state of
`dfsm_random_nonuniform_distribution` with the random word it drew, `edit` the
branch of `fuzz_string`, and `buffer`, `source`, `i`, `alloc` and `length` are its
locals.  Strings are sequences of bytes and a letter outside ASCII has two, since
the code adds offsets of both kinds.  Integer widths are constants.

## What the runs check

Passing runs; every property has a seeded bug in the modelled code that breaks it.

| Run | Instance | Shows |
|---|---|---|
| `machine` | 2 states, 2 values, 1 variable, 2 interfaces that declare the method with different arguments, every table of up to two out of five method transitions and some of three, with property and arbitrary transitions | the selection, execution and answers of every call, and that it returns |
| `reachability` | every graph of 3 states with at most one transition per pair, and families of 4 states with parallel transitions | exactness, termination |
| `object` | an object with two names and one without | start, timers, the shared count, answers, registration; refinement of `Lifecycle` |
| `simulator` | 2 objects, 3 test runs, both timeouts set, one signal | number of runs, watching, deaths heard, stopping |
| `startup` | descriptions of one and two objects with every pair of verdicts; addresses of one to four characters, two read at once | one completion unless both files fail, the address whole and acted on once, and reported in the end |
| `fuzzing` | 32-bit integers up to 43 and 64-bit ones up to 44 squared less one, each type at a bound or inside; nine strings | integers in range, draws, sanity of edited strings, memory, nothing lost, the end of every walk |
| `language` | eight objects that use every kind of value, statement and function, one of them with variables that have no value, and 61 with one fault each; two transitions run | types of all values, answers, determinism without fuzzing, assignment to tuples, arrays and dictionaries, functions against one another, what an accepted object may rely on, which aborts remain, and that expressions keep their contract (`ExpressionsAreSound`) |

Why the bounds are enough: two transitions show each pair in both orders at
each offset, and the three-transition tables a candidate, a failure and a plain
transition together.  Three states are enough for a detour that beats a direct
transition, four for the order of two of them.  Two names are the least that
can disagree; the object without names takes the path where the callback held
is the only one.  Two registrations can differ in their outcome, and with three
runs a timer of the first can still be live in the third.  An address of three or
four characters takes two reads, and its line end comes alone or with others.  In
`fuzzing` there is a separator at the start, at the end, in the middle, twice and
nowhere, so that blocks are empty, adjacent and whole; the widths leave room for
the small range (-5 to 5) and for words past the last interval.  In `language` every
refusal of a check has an object of its own, and two transitions are enough for
one to leave what another reads.

Bounds: `MaxResults` (results waiting), `unfuzzed_transition_limit`, and
`UintMax`, which stands for `(guint) -1`, the number of runs when they are
infinite.  `stops` counts to two.  `PieceSize` stands for the 127 bytes read at
once, `MaxGenerated` and `MaxPad` for the 256 characters and 5 blanks of a fuzzed
string, and `MaxCalls` is the number of transitions run after loading.  The
twentieths of `Interval` are the code's probabilities, which are all multiples of
0.05.  Deadlock is not checked where the system may
stop: the machine after an abort, the end of the analysis, the end of the main
loop, an object that is refused, a literal whose evaluation aborted.

### Divergences

These runs end in a counterexample on purpose: the property is what a comment,
an assertion or the manual says.

| Run | What happens |
|---|---|
| `one_outcome` | a failing precondition with a throw clause met after a throwing transition leaves both over, and the assertion at `dfsm-machine.c:386` fails |
| `reset_is_initial` | a reset leaves the state of the machine as it is |
| `stop_always_ends` | a second reason to stop disconnects the callback that ends the program |
| `timeout_means_inactivity` | a timer left over from the last run ends a busy one |
| `operands_are_numeric` | a missing `break` in the check of binary expressions lets operands that are not numbers through, which abort when they are evaluated |

Others are visible in the models without a run of their own.

State machine and objects:

* a fuzzy precondition may fail at first and hold the second time, and then the
  call gets no reply (`dfsm-machine.c:374`);
* a method that two interfaces declare with different in-arguments is checked with
  those of the first; called through the second, it uses variables that do not
  exist, and the process ends (`dfsm-ast-variable.c:188`; `VariablesExist` says that
  no other call does);
* an object unregistered before it has started stays exported (`UnregisterOnBus`);
* calls are answered before the simulation has started (`MethodCall`);
* the fuzzing switch is set after the preconditions of the same call have been
  evaluated (`Execute`);
* a method call that finds no transition is answered with the unit tuple where the
  manual (`transitions.page:49-51`) has a generic error (`ReturnMethod`);
* a state that only a throwing transition leads to is marked reachable (`Entry`);
* a signal that fails after the reply was sent is followed by an error for the
  same call (`Output`).

Program:

* with `--run-time` alone there is one test run (`main.c:1135`, `TestRuns`), where the
  help text has 0, the default of `--run-iters`, mean infinitely many;
* a restart by timeout uses up an iteration without a run (`main.c:421`, `508`);
* when both files fail to load, the callback of
  `dfsm_object_factory_from_files` is called twice (`FileLoaded`);
* a working directory that cannot be made leaves `main()` by its error path,
  which frees fields of `MainData` that have not been set (`main.c:932`,
  `1155-1165`; `PrepareDirectory`).

Language:

* `dfsm_ast_object_check` finds the type of a reply before it checks it, so that an
  undeclared variable or function in a reply aborts (`ReplyFault`); so do
  `structHead (())` and a variable declared in two data blocks (`"no type"`,
  `"variable declared twice"`);
* whether a data block in which one variable refers to another is accepted
  depends on the order of a hash table (`CheckVariable`);
* assigning to a dictionary takes the entries by the index of another loop
  (`dfsm-ast-data-structure.c:2450`, `SetEntry`): the process ends unless the value has
  more entries than the left side, and then one entry is assigned, where the
  comment at 2440 has all whose keys are on both sides (`AssignmentStores` says
  what is left); assigning to an array assumes one of equal length (`2365`);
* a variable declared with a type string that is no signature (`@g "*"`) is accepted:
  `g_variant_new_signature ()` gives nothing, the type is set
  (`dfsm-ast-object.c:598`), the missing value is dropped (`dfsm-environment.c:367`), and
  the first use of the variable aborts, unless it is assigned to before
  (`dfsm-environment.c:344`; `CheckVariable`, `Unbuilt` in `MCAstObject`);
* `arrayRemove` with an index past the end removes the last element
  (`dfsm-environment.c:847`, `RemovalLaw`), where `functions.page:43-44` has the array
  unmodified;
* an annotation of the left side hides that the variables in it are of different
  types: `@ai [n, text] = list` passes every check, although the comment at
  `dfsm-ast-data-structure.c:2365` has "that's all been checked before", and fails
  the assertion of `dfsm_environment_set_variable_value` (`"value of another type"`;
  `Mixed` in `MCAstObject`);
  a left side inside another can have an annotation of its own, and the same happens there;
* a mixed array or dictionary with a type annotation passes the check and loses
  elements (`Built`), and `@a{si} [1, "a"]` is an empty dictionary: to the check
  a mixed array is one of anything;
* `dictSet` aborts when the key is in the dictionary twice (`"key found twice"`),
  and `keys` uses its argument after it has released it (`"dictionary freed"`);
  `keys` takes the dictionary itself, not a tuple of one;
* `@t -1` is accepted and becomes the greatest value;
* a signature literal `"*"` passes the checks, but inside an expression its
  evaluation aborts (`"not a signature"`, `dfsm-ast-expression.c:99`);
* the product and the remainder of the least `int32` or `int64` overflow
  (`TimesOverflows`, `ModulusOverflows`); a negative number divided by zero is the
  least value, where the comment says the negated greatest one; the least `int16`
  divided by -1 saturates, and `x == (x / y) * y + x % y` does not hold there;
* preconditions and first values are evaluated with whatever the fuzzing switch was
  left at by another object;
* `data-structures.page` says that variants cannot be fuzzed; the code fuzzes them.

Fuzzing:

* the intervals of a distribution are truncated, so that the topmost random words
  select none of them and fail an assertion (`dfsm-probabilities.c:44-55`,
  `DrawFails`);
* a block that starts the string is never chosen among those that end with a
  separator (`SeparatorsFound`);
* the large range of a signed integer leaves out its greatest value, and the lower
  half of 64 bits is never drawn, since `(-1) - g_random_int ()` is unsigned
  (`ReturnLarge`).

### Fairness

`Machine`: `WF(Step)`, for a call runs synchronously and cannot be left.
`Reachability`: `WF(Next)`, a plain loop.  `DfsmObject`: the bus answers each
request for a name; nothing is assumed of the calls of clients, timers or the
user.  `Simulator`: the main loop dispatches the child watch and the SIGKILL
timer, the close of the connection completes, and a process that was sent
SIGKILL dies.  One that was sent SIGTERM need not, signals need not come, and
timeouts need not fire unless a property is about them.  `Startup`: a read of the
pipe returns, the main loop dispatches what is ready, and the daemon closes the
pipe once it has printed its address; nothing makes a daemon print one.
`Fuzzing`: `WF(Step)`, as for `Machine`.  `AstObject` has safety only.

## What is proved

| Module | Theorems |
|---|---|
| `MachineProofs` | types and all other properties of `machine` but termination, `NeverUnreachable` of `MachineReachability` among them |
| `ReachabilityProofs` | types, `Exact`, `VisitedIsFinal` |
| `DfsmObjectProofs` | types, `Coupled`, `Answered`, the refinement of `Lifecycle` |
| `SimulatorProofs` | types, `RunsBounded`, `RunsAreWatched`, `DeathIsHeard` |
| `FuzzingProofs` | all safety properties of `fuzzing`: `IntegersStayInRange`, `OnlyTopWordsAbort`, `StringsAreWhole`, `BufferIsBigEnough`, `EditsLoseNothing` |
| `StartupProofs` | `CompletesTwiceOnlyIfBothFail`, `AddressIsWhole`, `AddressAssertionsHold` |
| `AstObjectProofs` | `AcceptedObjectsAreMachines`; under the contract of expressions `ValuesAreOfTheirTypes`, `SentAsDeclared`, `OnlyKnownAborts`, `BuiltinsUndoOneAnother`; for all arrays and dictionaries `ArrayLawsHold`, `DictLawsHold` |
| `LanguageProofs` | sums, differences, products and quotients saturate (`UnsignedSaturates`, `SignedSaturates`, `DivisionSaturates`); quotient and remainder restore the dividend (`DivisionRestores`); type soundness of expressions of any depth (`ExpressionsEvaluate`) and of assignments (`AssignmentsStore`); that the language keeps the contract (`LanguageIsSoundHolds`); so `ExpressionsAreSound`, and the four properties of the row above without the contract as hypothesis |

Each holds for every value of the constants that satisfies the named
assumptions of its module; the assumptions say that the inputs passed the
checks of the parser (`DescriptionsAssumption`), that sets of names are finite
and that options are natural numbers.  TLC evaluates them in the passing runs.

Machine.  The properties of the loop speak of the state when the call came in.
`FrozenInv` says that state and environment are those of `entry` until a
transition executes.  `LoopInv` says of each table index visited so far (those
within `i` of `offset`, modulo the length) that its transition was not sure to
pass, or throws and is kept as candidate.  The lemma `Rotation` shows that when
`i` reaches the length every index has been visited, so the result holds for
the whole table and every offset.  `AnswerInv` counts: while a transition runs, the
answers in `output` are those among its statements executed so far.
`ScopeInv` says that the local scope has the names that the call has bound until it
returns, and with the checks in `DescriptionsAssumption` that gives `VariablesExist`.

Reachability.  The invariant says that marks never exceed what paths justify,
that the transitions of visited states are relaxed, and that no state in the
queue is marked better than a visited one.  The set of states marked `k` or better
is then closed under transitions worth `k` when the loop ends, and
`ReachableLeast` gives equality.

Objects.  `Inv` adds to `TypeOK` and `Coupled` the meaning of the counter
(`CountInv`): while a registration is pending and no name was refused,
`outstanding` is the number of names the bus has not answered for.  The
refinement needs this to know that the last callback, without an error before
it, is the one that finds all names owned (`LastCallback`).

Simulator.  `IInv` is a conjunction on the record: `Core` relates the phases of
start-up and the number of runs, `Waiting` says that the first stop is waiting
for a program with its callback connected or is closing, `Heard` that a running
program has a handler, `Watched` that the id is a live source.  One lemma per C
function (`StopFacts`, `SpawnFacts`, `RestartFacts`, ...) says what it
preserves, and the step lemma composes them per callback.

Fuzzing.  The ranges of all seven types follow from two facts about widths: each
is at least as wide as the small range, and each is twice as wide as the one
before.  For `OnlyTopWordsAbort` the invariant says how much of the random word the
intervals passed so far have used up; each interval is at most one short of its
share, so what is left at the end is less than their number.

The edits of strings have one invariant, `TextInv`, with a part for each walk:
how many letters have been written, that the source pointer is between two
characters, and how large the buffer is.  A letter of two bytes that replaces one
of one byte is paid for by the two bytes per letter allocated before, and a
separator by the letter it stands for (`WalkingLetters`); a change of case keeps
each byte up to its case (`ChangingCase`).  What the walks need of strings are
lemmas about `Count`, the number of bytes of a kind: it adds up over the pieces
of a string, which gives that swapping two blocks loses nothing
(`SwappedIsValid`), and counted over the bytes that start a character it is
`CharacterCount`.  The assumptions are those of the code: separators are ASCII
characters, literals have passed the checks of UTF-8 and of object paths, and
an integer type is at least as wide as the small range.

Arithmetic.  One theorem per law, for every `max`; the operators that call
`ABS()` are covered where it does not overflow, which the theorems state as a
hypothesis.  Products need a lemma about division that is proved from the
definition of `\div`.

Startup.  `IInv` says how far the address has come: not printed (`Unwritten`), in the
pipe (`Written`), being read (`BeingRead`), or heard of (`Heard`).  While it is being read, what
was read and what is in the pipe are together the line printed, or the pipe is
empty and what was read is the address (`PieceByPiece`).

For the factory `CompletionInv` counts what is due: two completions if both files
have failed, one if one has or both are loaded, none before that.  The answers
given and the idle sources still to come are always together as many as are due.

Objects and expressions.  `AcceptInv` keeps what each stage of loading has checked,
and gives `AcceptedObjectsAreMachines` whatever expressions mean: the lemmas about
sequences show that `StateNumbers` has every name once and the main state first.
The other properties need that expressions do what their types promise.  That is
the hypothesis `LanguageIsSound`, stated in each theorem: an expression of the
description that has passed its checks, evaluated where all variables but those in
a given set have values of their types, gives a value of the type calculated for it or
one of the known aborts; data in a declaration gives such a value too, or none if it
is a literal of which GLib makes nothing (`DataIsSound`); and an assignment of a value
that fits leaves all variables with values of their types.  The set is `Unset`: the
variables that were declared without a value and have not been assigned to.  An
assignment may make it smaller, nothing makes it larger once an object is loaded,
and only where it is not empty is `"variable without value"` a known abort.
`SoundInv` is what follows from it along the steps that `AstObject` does
model: the order in which variables are initialised, preconditions that stop at the
first failure, statements that see what those before them did, locals that are
bound and unset again.  It adds to `AcceptInv` that variables outside `Unset` have values of
their types, that those in it were declared with such a literal (`IsDeclaredNull`), that what was sent is right for the last transition (`SentBy`) and that
an abort has one of its causes (`AbortIsKnown`).

The language.  `LanguageProofs` discharges that hypothesis: no expression that has
passed its checks evaluates to a value of another type than was calculated for
it, down to the smallest part, however deep it is nested.  Its own hypothesis is
`MethodsAreImplemented`: each virtual function is its implementation
(`\A e, env : Evaluate(e, env) = evaluate(e, env)` and its likes), which is
what the configuration does for TLC.  These equations define the functions, and say nothing
of their results: each calls the others only for what an expression, a type or a value
is made of, so that there are functions that satisfy them.  `ParsedAssumption` says that
the expressions of a description are what the parser makes, no deeper than
`MaxNesting`, which is any number; `IntrospectionAssumption` that introspection
data has no wildcards; `FuzzedAssumption` that fuzzed literals are in the range of
their type.  `FuzzingProofs` shows this of integers, strings, object paths and
booleans; the draws of signatures and doubles are not in `Fuzzing`, and of these it
is taken from the code, which asserts that a fuzzed signature is one
(`dfsm-ast-data-structure.c:1885`), and any double is in the range of doubles.

The argument is by induction on the depth, done once for types and values
(`HasSoundValue`, `ExpressionStep`) and once for assignments (`CanStore`,
`StoreStep`).  Below it there is one lemma for each thing an expression can be: twelve
for the functions (`KeysIsSound`, `ArrayGetIsSound`, ...), that the type calculated
for a call that fits is the type of what the call returns; `OperatorsAreSound`, where
the theorems about arithmetic give that results stay in range; literals, tuples, variants
and variables; and arrays and dictionaries, where `BuiltIsSound` shows that
whatever fuzzing clones, drops and mutates, the builder has let through only what
is of its type.  The induction needs no more of a child that is fuzzed into
something else than that it is a value (`IsResult`), and that is why the code is right
even where an annotation contradicts the elements.  What `ToVariant` makes of
data is a value of its type, an abort, or nothing (`IsMade`), nothing only of a
literal that `is_built` excludes; `AssertedIsSound` turns nothing into the abort of
`evaluate`.  On the way it turned out
what the types rest on: a type that a value can have has no wildcards, and the subtypes of
such a type are itself only (`SameType`), so that the comparisons of the
code, which are all for subtypes, are as strong as equality.

For assignments the type is not enough.  `PlacesFit` says that the variables of a left side
have the types of their places, which the checks do not ask of arrays and dictionaries
with an annotation; `AssignmentsStore` shows that this is the only way to come
to `"value of another type"`, and that otherwise every variable is left with a value
of its type, also where a dictionary is assigned the wrong entry.

Arrays and dictionaries.  `ArrayLawsHold` and `DictLawsHold` are about any array and
any dictionary, where the run has a few short ones.  `ArrayLaws` has a law for each
thing insertions, removals and look-ups do to one another at every index, past the
end included: that a removal there takes the last element away is one of them, being what
the code does (`RemovalLaw`) and not what the manual says.  They rest on lemmas about
`InsertAt` and `RemoveAt`, and on `Without`, the loop that copies a dictionary
without a key: it is a function over the entries copied so far, and induction over
their number is done once (`UpTo`) and not by the library's theorems, whose
operator parameters the provers cannot instantiate.

The type invariants of `Reachability` and `Simulator` and `VisitedIsFinal` are proved and
not run; every invariant their proofs need was checked by TLC first.

Only model-checked: liveness (`CallReturns`, `Terminates`,
`RegistrationCompletes`, `StopEnds`, `AddressReported`, `EvaluationEnds`), which
rests on fairness and is beyond the prover; and two properties of `language`, which hold of the
objects of the run but not of all.  `OnlyFuzzyVaries` allows for overflow only
where a variable has the least value of its type, and an expression may compute
that value too.  `AssignmentStores` compares the number of elements of the outermost
array or tuple only, and in `[[a, b]] = [[1]]` an inner one is too short; what it
says of dictionaries (`EntriesKeepTheirKeys`) is not proved.

## What is abstracted

* GDBus is external.  It is modelled from its use: names are acquired, lost and
  acquired again; signals may fail to be sent, replies not.
* The output sequences of a call in `DfsmObject` are any that satisfy what
  `Machine` proves (`AnsweredOnce`).  A call whose answer is lost by a fuzzy
  precondition is outside it.
* In `Simulator` time is abstract: a timer may fire at any time after it is
  armed.  No callback comes after the main loop was told to quit; in the code
  those that were ready in the same iteration still do.
* The handler of a program's death reads the exit status: a normal exit, SIGTERM
  and SIGINT are `"exited"`, all else `"crashed"`.
* In `AstObject` doubles and strings are sequences of tokens: arithmetic on doubles
  is a formula that is kept, comparison of strings an open choice.  `FuzzedValues`
  gives what a scalar may be fuzzed to; that these are of its type is what
  `Fuzzing` shows of integers, strings, object paths and booleans, and an assumption
  for signatures and doubles.  Integers have three to four bits.
* `Machine` takes every variable of the object to have a value; `AstObject` has
  variables without one.  `AstObject` takes calls to come through the first interface
  that declares the method, the one its checks look up; `Machine` has calls through
  any, and says which of them lack a variable (`VariablesExist`).
* In `Startup` the daemon prints its address in one write, and no read of the pipe
  fails.  Its proofs assume that an address has no line end in it.
* In `Fuzzing` characters have one or two bytes, and the letters put into strings
  are three.  A biased coin is a choice.

## Not modelled

* The parser and lexer are generated from a grammar; `AstObject` has the order
  in which its actions build lists, since the starting state depends on it.
* Name checks are regular expressions without state (a constant set of valid names
  here).  Logging, `bendy-bus-viz` and the output of `bendy-bus-lint` only print.
* Of `main.c`: option parsing, the log files, and what is in the directory of
  machines.  Of the wrappers: forwarding of stdout and stderr, limits on core dumps and
  the set-up of the child between fork and exec.
* Of `dfsm-object.c`: reading a property, which copies a variable, and the
  activity counts (`Simulator` has their effect, a notification at any time).
* The tests and example machines are read for what is expected of the code.

## Plan

Done: 1. `Machine` with its proofs; 2. `Reachability` and
`MachineReachability`; 3. `Lifecycle` and `DfsmObject`; 4. `Simulator`;
5. `Fuzzing` and `Arithmetic` with theirs; 6. `Variants`, `Builtins`, `Expressions`
and `AstObject`; 7. `Startup` with its proofs; 8. the edits of strings in
`FuzzingProofs`, the factory in `StartupProofs`, and `AstObjectProofs`; 9. `LanguageProofs`,
for which the recursion of `Expressions` was moved into `Nodes`.

Next, in this order:

10. `Simulator` with the activity counts of `DfsmObject`: that the abstract
    notification is what the objects do.
11. The forwarding of output by the program wrapper, as far as its watches race
    with the death of the program.
