# TalosOS in TLA+

TalosOS is a ROS1-style robotics runtime (C++ and Python) over the zenoh
transport. This directory holds TLA+ specifications of its concurrent parts,
the TLC configurations that model-check them on small instances, and proofs
that TLAPS checks for every instance. `PROJECT.json` maps every definition to
the source lines it stands for, and lists the runs, the hazards each property
is for, a mutated variant of the code per property, and the theorems.

## 1. The system

| Part | State | Operations | Interacts through | Hard behaviour |
|---|---|---|---|---|
| Action server (`include/talosos/action.h`) | `active` (goal id to cancel flag), `workers` (threads), `shutting_down`, `shared_self` | constructor and `Finalize`, `HandleGoal`, `HandleCancel`, a worker thread per goal, destructor | four topics; `mu`; weak pointers | duplicate goals, a goal during construction or shutdown, threads nobody joins, calls that throw |
| Action client, `GoalHandle` (same file) | `handles`; per goal `has_result`, `result`, `status`, `feedback_cb` | `SendGoal`, `Cancel`, `WaitForResult` (2), `SetFeedbackCallback`, feedback and result callbacks | four topics; two mutexes; a condition variable | repeated results, timeouts racing a result, feedback racing a result, handles that outlive the client |
| Timer (`include/talosos/timer.h`) | `cancelled_`, `thread_`, `oneshot_` | `Run`, `Cancel`, destructor, move assignment | mutex, condition variable, join | cancel racing the deadline, cancel from the callback, several cancels |
| Launcher (`python/talosos/commands/launch.py`) | `procs`, the shutdown event, `_talos_exit_logged`, exit code | `spawn_all`, poll loop, `_terminate_all` | child processes, signals | children that die or ignore signals at any step, failed spawns, signals to the launcher |
| Node, topics (`node.h`, `src/node.cc`) | session, names, counters | create, advertise, subscribe, publish | zenoh `put` and subscribers; liveliness tokens | names and keys, callbacks on transport threads |
| Services (`service.h`, `src/node.cc`) | per call: `done`, `ok`, payload | `CallBytes`, queryable callback | zenoh `get` and queryables | late replies, timeouts, several repliers, failing handlers |
| Process lifecycle (`src/node.cc`) | `g_ok` | `Init`, `Shutdown`, `Ok`, `Spin`, signal handler | signals | a signal before or during `Init` |
| Python runtime (`runtime.py`, `src/python/bindings.cc`) | its `Timer`, lists of entities | wrappers, services, `Timer` | bindings, the interpreter lock | thread that keeps its own object alive, bounded joins |
| Rate, time, logging | next deadline; log level and sinks | `Sleep`; `Log` | clock | overruns |
| CDR (`serialization.h`, `cdr.py`, `_CdrWriter` in `runtime.py`) | the buffer, the reader's position | encode, decode | bytes | alignment, truncated input, three implementations of one format |
| Message schemas (`msgs/*.h`, `messages.py`, `runtime.py`), code generator | none | one layout per message type and side | CDR | layouts written by hand, four times |
| `talosos_tool` (`src/tool/talosos_tool.cc`) | the registry of a listing, `done`; an echo's counters | list, echo, hz, bw, pub, call | liveliness queries, zenoh threads | late replies, timeouts, callbacks on locals |
| Command line (`commands/topic.py`, `service.py`) | an echo's `state`, `done` | list, info, echo, hz, bw, pub, call | `talosos_tool`, the runtime, signals | signals at any time, callbacks that count, names in two conventions |
| Command line (`pkg`, `build`, `run`, `workspace`) | none | build, run, packages | subprocesses | none |
| Viewers (`viz`, `rqt`, `plot`) | widgets | draw | topics | none of the runtime's |
| zenoh-cpp | external | | | loses, reorders, repeats |

A goal travels like this: `SendGoal` registers a handle and publishes on
`goal`; a transport thread of the server runs `HandleGoal`, which enters the id
in `active` and starts a worker; the worker calls the user's `execute`, which
publishes on `feedback`, then publishes on `result` and removes its entry;
transport threads of the client look the handle up, call the feedback callback
or store the result and wake the waiter. A cancel travels on a topic of its own
and sets the flag that `execute` polls. Nothing orders the four topics.

What makes each part correct:

- *Server*: one execution per goal id at a time; a cancel reaches the thread
  that runs; entries do not leak; the destructor returns, having joined every
  thread, and never ends the process.
- *Client*: every handle can still be answered; a result is genuine, final and
  wakes its waiter; feedback stops after the result.
- *Timer*: when `Cancel` returns, the thread is over; at most one callback
  starts after a cancel; `Cancel` and the destructor return.
- *Launcher*: nothing it started survives it, unless a signal or an exception
  ends the launcher itself; signals escalate in order; the exit code tells of a
  failure.
- *Services*: a call returns without needing its timeouts; a call that returns
  true shows an answer to that very request, one that returns false had none.
- *Python timer*: `cancel` stops the thread even when its join gave up; at most
  one more callback starts; a timer nobody refers to stops.
- *CDR and schemas*: what any side writes every side that knows the type reads,
  member by member, up to the conversions that Python makes of numbers and
  texts; a payload that lost its end is refused.
- *Names, discovery, command line*: a listing shows what is there, under the
  names the runtime resolved, and all of it unless it was cut short; an echo
  does its count; a signal or the end of a query ends every command.

## 2. Modules

| Module | Models | Extends |
|---|---|---|
| `ActionNet` | the topics as a set of messages; may lose or repeat them | |
| `ActionServer` | `ActionServer` and the threads that run in it | `ActionNet` |
| `ActionClient` | `ActionClient`, `GoalHandle`, its callbacks and waiters | `ActionNet` |
| `ActionContract` | abstract: goals asked, executions, outcomes | |
| `Action` | server and client joined; refinement mapping to `ActionContract` | both |
| `TimerContract` | abstract: what either timer promises about its callbacks | |
| `Timer` | `talos::Timer`; refinement mapping to `TimerContract` | |
| `LaunchContract` | abstract: children, how insistently each was asked to end, exit codes | |
| `Launch` | `talos launch`; refinement mapping to `LaunchContract` | |
| `CallContract` | abstract: requests, who answered them, what each call returned | |
| `ServiceCall` | `CallBytes`, its callbacks, the queryable callback, the interpreter lock around both; refinement mapping to `CallContract` | |
| `PyTimer` | `talosos.runtime.Timer` and its garbage collection; refinement mapping to `TimerContract` | |
| `Cdr` | a writer, a payload that may be cut short, a reader, for any layouts | |
| `MessageSchemas` | the layout of every message type, C++ and Python, writing and reading, as data | |
| `TopicNames` | `ResolveTopic`, liveliness keys, how the tool splits them, how the command line normalises a name | |
| `Discovery` | publishers and services that nodes declare, with their tokens; `talosos_tool topic-list` and `service-list` | `TopicNames` |
| `TopicCommands` | `talos topic list`, `info`, `service info` and `echo`, with `Init` and the signal handler | `Discovery` |
| `ActionServerProofs`, `ActionProofs`, `TimerProofs`, `LaunchProofs`, `ServiceCallProofs`, `PyTimerProofs`, `CdrProofs`, `TopicProofs` | theorems | the module and `TLAPS` |
| `MC...` | values for TLC | the module |

**Correspondence.** A variable has the name of the member or local it stands
for (`active`, `shutting_down`, `handles`, `cancelled_`, `procs`, `rc`, ...);
program counters (`rpc`, `wpc`, `hpc`, `cpc`, `tpc`, `lpc`) stand for where a
thread is; history variables (marked so) exist for the properties only. An
action is the code between two points where another thread can act: a lock
region, or one atomic access. So `HandleGoal` is four actions (read
`shutting_down`; lock region on `active`; create the thread; lock region on
`workers`), and the result callback is three (take the handle under the
client's mutex; fill it under the handle's; `notify_all`).

Data is abstracted to what the properties tell apart: a goal id is a model
value, the payload of a result is the execution that computed it, a status is a
model value, a deadline is a step that may be taken at any time.

`StateExists` models the `shared_ptr`/`weak_ptr` pair: while the owner or a
thread that locked it holds the state, `weak.lock()` succeeds. Releasing the
last reference is the action `FreeState`, which runs the state's destructor.
The unsynchronised read of `shared_self` (`SpawnWorker`) against its assignment
(`Finalize`) is modelled as either order. A `put` that throws out of `SendGoal` leaves
the handle it registered behind in the map (`PublishGoalThrows`); one that throws out of
`Cancel` changes nothing.

`ServiceCall` keeps one `State` per call, as `CallBytes` does with its
`shared_ptr`: a reply that comes after its call has returned finds the `State`
of that call, not of the thread's next one. `session->get` reaches the services
declared at that moment; the transport ends a query (`OnDrop`) when every
service it reached has answered or is gone (`Finish`), or at `timeout_ms`
(`Expire`), and delivers no reply afterwards; these are its two external
promises. `gil` is the interpreter lock as far as a service call sees it. A
Python caller has it when it comes to the call (`Enter`), gives it up in the
wrapper (`Get`, `GetFails`) and needs it again to return (`Back`). A Python
handler takes it to begin, and may lose it half-way (`Give`: the switch interval,
blocking I/O, a call of its own) and take it again (`Take`), as often as it
comes to that; it has it when it ends. So several Python handlers may be in
progress at once, one of them with the lock. What else holds the lock, other
Python code, is left out: it gives the lock up at the switch interval.

`CallContract` knows neither queries nor replies, locks or timeouts: a request is due at
a service, then answered there once or given up; an answer that has come to its call is
kept, and the call returns what it has kept; a call for which no query could be made
fails (`Refuse`: the client is not valid, or `session->get` throws). `LaunchContract` knows no loops and no
deadlines: it has the children that are up and how insistently each was asked to end
(0 to 3, for no signal, `SIGINT`, `SIGTERM`, `SIGKILL`), and one step, `Escalate`, which
asks one child harder when nobody who is up was asked less. `Launch` maps the position
of the launcher to a phase; after a failed spawn no handlers are installed, which is
how `undoing` differs from `closing`. An exception that `spawn_all` does not catch
(`SpawnRaises`: `Popen` throws something other than `OSError`, or the reader thread
cannot be started) is an `Abandon` like a signal's: the launcher is gone with exit code
1 and the children run on, which is why `NoChildLeftBehind` excepts it.

`TimerContract` has the stage of the timer's thread, whether it was cancelled, and who
was told that it is over. `Timer` maps its mutex, condition variable and join to it,
`PyTimer` its `Event` and a join that may time out: a cancel whose join timed out
has been told nothing, so that both keep the one contract.

In `PyTimer` an action is what one thread does between two points where the
interpreter may switch; `referenced`, `Garbage` and `Delete` model CPython's
reference counting: the thread's bound method, and a running `cancel`, count.

In `Cdr` a message type is its layout: the sequence of primitives its `Write`
function emits, in which a list is a count that unfolds into that many copies of
its element. Writer and reader are cursors over their own layouts and over the
same bytes; a step is one primitive, with its padding. The Python and C++ writers
and readers do the same to the bytes, so they share the actions and differ in
their layouts, which `MessageSchemas` writes out from the headers, `messages.py`
and `runtime.py`, and unfolds nested types. The C++ `Read` of each type visits the
members of the `Write` beside it, so one table stands for both. (The covariances of
`Imu`, which `runtime.py` writes as long as the lists are, stand there with the nine
elements of the message.)

What is published, what the wire carries and what a reader returns are three things
(`src` and `val` in the writer's `trail`, `got`). A number is tried as nine bytes, more
than any member has: C++ members have their width before `Write` sees them, but a
Python int may be wider, and a Python float has more digits than an f32. `WriteWord`
writes its low bytes (the mask, or `struct.pack`'s rounding, with the nearest f32 as
the low bytes and what narrowing drops as the rest); for a number that does not fit,
`Raise` is the alternative, `struct.error` out of `publish`. Which of the two happens
depends on the member (unsigned ones are masked), and a layout knows widths only, so
the model leaves both open. A bool is its truth. The bytes of a `std::string` may be
anything; a Python str has to have a UTF-8 form, or `encode` raises; and a Python
reader decodes with `errors="replace"` (`Decode`), which puts U+FFFD for what is
ill-formed: one mark a byte here, one for the longest start of a character in CPython.

In `TopicNames` a string is the sequence of its pieces (slashes, tildes, words);
`StripLeadingSlash`, `JoinKey`, `ResolveTopic`, `SplitSlash` and `ParseToken` do
to pieces what the code does to characters. In `Discovery` an endpoint goes from
`absent` over `declared` to `live` and back, in the order in which the
constructor and the destructor declare and drop it; a crash leaves its token
behind until the network notices (`Lapse`). The tool's main thread (`tpc`) and
the query's callbacks share `done` and `registry`; once `RunListLiveliness` has
returned, a callback works on dead locals (`Dangling`: it may go well or crash
the tool). `TopicCommands` adds `echo`: the main thread (`epc`), callbacks (`cpc`,
with the read and the write of `state["n"]` apart) and signals. A message that does
not decode is passed over (`SkipMessage`); a type nobody knows, and a node or a
subscription that cannot be made, end the command (`GiveUp`). Callbacks run on after
the loop, until the node is torn down. `list` and `info` read the tool's output once
it has ended.

Definitions commented *Variant with a bug* are not part of a specification:
each replaces one action in a test that the properties are able to fail.

## 3. Runs

| Run | Instance | Checks |
|---|---|---|
| `server` | 2 goals, 2 worker threads, 2 transport threads, repeated delivery, calls that throw | type and inductive invariant; `CancelReachesWorker`, `NoLeakedEntry`, `QuietShutdown`; `DestructorReturns`, `CancelEndsGoal` |
| `action` | 1 goal, 2 executions, 1 server and 2 client transport threads, repeated delivery | `ResultIsGenuine`, `NoOrphanedHandle`, `NoLostWakeup`, `ResultIsFinal`, `FeedbackDriesUp`, and `ImplementsContract` (refinement) |
| `action_live` | 1 goal, a transport that may lose | `GoalIsAnswered`, `ResultReachesWaiter` |
| `action_cancel` | as `action_live`, without loss | violated: `CancelAtAnyTime` |
| `timer` | 3 cancelling threads, the owner, the callback | inductive invariant; `ImplementsContract` (refinement), `CancelReturns` |
| `timer_raii` | 2 cancelling threads | violated: `DestructorJoins` |
| `launch` | 3 nodes, exit codes 0 and 7 | inductive invariant; `NoChildLeftBehind`, `ImplementsContract` (refinement), `SignalEndsLaunch`, `ShutdownConverges` |
| `service` | 1 Python thread, 2 calls, a C++ and a Python service | inductive invariant; `AnswerIsOwn`, `ImplementsContract` (refinement), `CallReturns`, `LockComesFree` |
| `py_timer` | 3 cancelling threads, the callback, `__del__` | inductive invariant; `ImplementsContract` (refinement), `CancelStops` |
| `py_timer_lost` | 1 cancelling thread, everything fair | violated: `DroppedTimerStops` |
| `codec` | every type C++ or Python publishes, to every reader that knows it; short and long strings, in UTF-8 and not; numbers that fit and that do not; empty and longer lists; payloads short by 0, 1, 5 and 12 bytes | `CdrTypeOK`, `InStep`, `WholeOrNothing`, `StandardAlignment` |
| `topics` | 8 command lines; 6 endpoints of 3 nodes, up to 2 at a time; 2 callback threads, 4 messages | `TopicsTypeOK`, `ListedIsKnown`, `CompleteWhenWhole`, `DeniedMeansAbsent`, `EchoDoesItsCount`, `CommandsEnd` |

The parts of an inductive invariant (`JoinedAreCancelled`, `DestructorIsClean`,
`CancelStopsThread`, `EscalationInOrder`, `FailureIsReported`, `CapturedIsReturned`,
`NoSleepOnDone`, `LockIsRunners`, `JoinedIsStopped`) have theorems of their own (section 5) and no run beside the
invariant's. So has what follows from a property that is checked: `OneWorkerPerGoal`
from `CancelReachesWorker`, `AtMostOneLateCallback` from `ImplementsContract`, and
`WaiterIsWoken` from `GoalIsAnswered` and `ResultReachesWaiter`. The 98 C++ types, the Python types
and every pair of sides are all in `codec`: nothing in it is sampled but the
content of the messages.

**Bounds, and why they are enough.** `Workers` bounds how many executions a run
has: two are what it takes to execute one goal twice, or two goals at once, and
one callback each (`Receivers`) to admit them concurrently. With repeated
delivery a message once sent may arrive at any later time, any number of times:
the network needs no other bound, and in `server` every goal and cancel may
arrive from the start. `Callbacks` is two so that two results, or a result and
feedback, overlap. The handles of different goals share nothing but the map, so
one goal suffices there. A third cancelling thread of the timer adds no new
pair of positions; three nodes give a launch a first, a middle and a last one.
The exit codes tell success from failure; 1, 2, 130 and 143 are the launcher's own.
In `service` a thread makes two calls, so that a late reply of the first meets
the second, and two services give a call two answers, or one answer and a query
that stays open. Different threads share nothing but the interpreter lock, for
which the Python service's two handlers and the caller compete as well.
In `codec` a layout with k primitives is walked in k steps, so the content may be
chosen anew at each: `Samples` varies by position, so that a string or list of one
length is followed by words of every width, which is what alignment depends on;
one, five and twelve bytes cut a payload inside a word, a string and behind a
count. In `topics` two endpoints give a topic a second publisher, with and
without a type, in either order; the request tells which two may appear, since
endpoints share nothing but the registry. Two callbacks are what it takes to lose
an update of `state["n"]`, and four messages reach a count of two in spite of it.
The nodes' names cover a namespace, none, and an empty name; the topics an
absolute, a private and a relative name and one that is no key.

**Deadlock** is not checked (`CHECK_DEADLOCK FALSE`): a destroyed server, an
answered goal, a destroyed timer and an ended launcher are all legitimate final
states; that the parts get there is what the liveness properties say.

**Fairness.** Weak fairness of each thread's own steps: the operating system
runs threads that can run. Also: `execute` returns (in `server`, only once its
flag is set; that is the contract `canceling()` documents), the timer's callback
returns, a child dies of `SIGKILL`, a C++ service's handler returns; of the Python handlers
that are given the interpreter lock again and again one comes to its end (CPython hands
the lock over, so that each gets on; this is strong fairness of their ends together); a
Python thread or handler that waits for the lock gets it if it stays free; the transport
delivers the replies it has and ends a query that nobody is left to answer; a set `Event`
wakes its waiter. Not assumed: either
timeout of a service call, the deadline of a timer, an
application that calls anything, a child that obeys `SIGINT` or `SIGTERM`, the
transport delivering what it may lose. `GoalIsAnswered` is
stated for a server and a client that stay up and a goal that is not lost,
since the code retries nothing. For the same reason `action_live` starts from a
finished server (`ServedInit`): a goal published before the subscription exists
reaches nobody. In `topics` only the command's own threads are fair: the tool's main thread, the
command that reads its output, the echo's loop and a callback that has begun.
Neither the query's end nor its timeout is: the loop's own deadline ends the
listing. A signal that comes before `Init` has set `g_ok` is forgotten, so
`CommandsEnd` promises an end for a later one only. `py_timer_lost` assumes more (the deadline comes, the collector
runs, `__del__` cancels), so that its counterexample owes nothing to a thread
that stands still.

## 4. Where code and documentation part

Three properties are violated by what the code does:

- `CancelAtAnyTime`: a `GoalHandle` keeps a raw pointer to its client's
  `cancel_pub`; a handle that outlives the client cancels through freed memory.
  The model stops there (`dangling`).
- `DestructorJoins`: a callback that cancels its own timer sets `cancelled_`
  without a join, so the destructor's `Cancel` returns early and the joinable
  thread is destroyed (`std::terminate`). `DestructorIsClean` shows that this is
  the only way.
- `DroppedTimerStops`: the Python timer's thread is created with a bound method,
  so it keeps its own Timer alive. `__del__` runs only when the thread has ended
  by itself (`JoinedIsStopped` says so too): a periodic timer that its owner
  loses calls back for ever, although docstring and tutorial promise a stop.

Others were met while modelling; they need no interleaving, so no run is spent on
them, and the models have the code's behaviour:

- `docs/wiki/tutorials/action.md` describes `kAccepted` and `kExecuting` on a
  running goal; no message carries them, and the client sets `status` from the
  result only.
- `docs/wiki/tutorials/launch.md` says that every node's exit code is printed;
  children that end during `_terminate_all` are not reported.
- `talos topic echo /hello/chatter` (README.md:159) and `pub` strip the slash and
  resolve the rest as a relative name in their own node (`topic.py:90, 166, 366`):
  the echo subscribes to `talos_echo/hello/chatter`. With `--raw` it does not.
- `echo` without `--type` is to look the type up, but `_collect_list` reads
  `args.timeout_ms`, which `echo` does not define; the exception is swallowed
  (`topic.py:131-134`), and no type is ever found.
- `talosos_tool.cc:247` promises one line per key and type; the registry has one
  entry per key, with the first type it hears of.
- A topic with a chunk `_t` or `_n` is taken apart at that chunk, and listed under
  another name: the theorems exclude it (`Unmarked`).
- A reply after `RunListLiveliness` has returned works on locals that are gone
  (`talosos_tool.cc:315`): `CompleteWhenWhole` says what a listing is worth that
  ended before, and the model lets the others crash the tool.
- `talosos_tool topic-echo` counts a message before it prints it, so that with
  `--count` it may end while the last messages are not yet printed:
  `EchoDoesItsCount` speaks of messages received there, of printed ones otherwise.
- The comment at `node.cc:431` takes `done` to keep a second reply out; `done` is
  set when the query is over. `AnswerIsOwn` shows what remains true.

## 5. What is proved

For every value of the constants that satisfies the modules' assumptions
(`NetAssumption`, `ServerAssumption`, `ActionAssumption`, `TimerAssumption`,
`LaunchAssumption`, `ServiceAssumption`, `PyTimerAssumption`, the four of `Cdr`, the
three of `Discovery` and `TopicCommands`):

- `ActionServerProofs`: `Spec => []IInv`, and from it `OneWorkerPerGoal`,
  `CancelReachesWorker`, `NoLeakedEntry`, `JoinedAreCancelled`, `QuietShutdown`.
- `ActionProofs`: `ActionSpec => []ActionInv`, and from it `ResultIsGenuine`,
  `NoOrphanedHandle`, `NoLostWakeup`, the action properties `ResultIsFinal` and
  `FeedbackDriesUp`, and the refinement `ImplementsContract`.
- `TimerProofs`: `Spec => []IInv`, `CancelStopsThread`, `DestructorIsClean`, the
  action property `AtMostOneLateCallback`, `NoLostWakeup` (a thread that a `Cancel`
  joins does not sleep on), and the refinement of `TimerContract`.
- `LaunchProofs`: `Spec => []IInv`, `NoChildLeftBehind`, `EscalationInOrder`,
  `FailureIsReported`, the action property `ShutdownConverges`, and the refinement of
  `LaunchContract`.
- `ServiceCallProofs`: `Spec => []IInv`, `AnswerIsOwn`, `CapturedIsReturned`,
  `NoSleepOnDone`, `LockIsRunners`, and the refinement of `CallContract`.
- `PyTimerProofs`: `Spec => []IInv`, `JoinedIsStopped`, the action property
  `AtMostOneLateCallback`, and the refinement of `TimerContract`.
- `CdrProofs`: `Spec => []CdrTypeOK` and `StandardAlignment` for any layouts;
  `InStep` and `WholeOrNothing` under `SameLayouts`: where a type is written and
  read, writer and reader have the same layout of it. What comes back is what was
  published up to the conversions that `Arrived` names: a number if its member holds it,
  its low bytes otherwise; the truth of a bool; a text, if it is UTF-8 or its reader
  is C++, and then only. `MCCodec` assumes it of the
  tables in `MessageSchemas`, so that TLC evaluates it on the repository's layouts.
- `TopicProofs`: `TokensParsed`, on names of any length: the tool takes every token
  apart into the topic, type and node that a node put into it, if no piece of a name
  is one of the marks `_t` and `_n` (`Unmarked`). Under the same hypothesis
  `Spec => []TopicsInv`, and from it the five safety properties of `topics`.
  `MCTopics` assumes `Unmarked` of its endpoints; section 4 says what becomes of others.

And, under hypotheses that say who keeps running, these liveness properties:

| Theorem | Says | If these keep running |
|---|---|---|
| `CancelsReturn` (`TimerProofs`) | `CancelReturns` | the timer's thread, its callback, the cancelling threads; no deadline need come |
| `CancelIsHeeded` (`PyTimerProofs`) | `CancelStops` | the timer's thread and its callback |
| `CancelledGoalsEnd` (`ActionServerProofs`) | `CancelEndsGoal` | the workers; an `execute` whose flag is set |
| `JoinedThreadsEnd` (`ActionServerProofs`) | every thread the destructor joins ends | the same |
| `ResultsReachWaiters` (`ActionProofs`) | `ResultReachesWaiter` | the callbacks, inside the client |
| `AnsweredWaitersWake` (`ActionProofs`) | `WaiterIsWoken`, given `GoalIsAnswered` | the same |
| `CommandsComeToAnEnd` (`TopicProofs`) | `CommandsEnd` | the tool's main thread, the command that reads it, the loop of echo |
| `UnansweredCallsReturn` (`ServiceCallProofs`) | a call nobody can answer any more returns, without a timeout | the caller, `Finish`, `Notify` |
| `LockAlwaysComesFree` (`ServiceCallProofs`) | `LockComesFree` | the Python handlers that have the lock (they end or lose it) and the callers that have come to the call |

Each proof has one lemma per action (`SpawnWorkerStep`, ...), which shows that
the action preserves the inductive invariant, part by part; a lemma that puts
them together; and the temporal step.

*Server.* The key is `CancelReachesWorker`: a live worker owns the entry of its
goal. It gives `OneWorkerPerGoal` at once (one entry cannot have two owners),
and makes the destructor's sweep complete. It is not inductive alone: one must
know that a callback between its two lock regions has exactly one worker, not
yet pushed (`ReceiversInv`, `Admitting`); that a live worker is in `workers`, in
`joining`, or still held by such a callback (`WorkersInv`); and that entries
name workers that were born with that goal (`EntriesInv`). `QuietShutdown` needs
`ShutdownInv`: without a racing callback `workers` stays empty after the sweep.

*Timer.* `CancelStopsThread` needs to know that whoever set `cancelled_` is the
one recorded, that it has left the function only by joining (`CancelInv`), and
`AtMostOneLateCallback` that a thread which started late cannot get back to
`due` (`LateInv`).

*Launcher.* `SentInv` says how far each of the three sending loops has got:
every child below `next` that still runs has been sent the signal, and all of
them once the loop is over. `ScanInv` ties `rc` to the children logged so far.

*Service call.* A service that has answered a call stays `answered` for it, so
what is on its way, captured or returned remains a genuine answer
(`AnswersInv`). The calls a thread has not begun have no `State` and no open
query (`BegunInv`), so nothing early can touch them; a captured answer makes
`ok` true (the history variable `captured` grows only while the call has no outcome),
so a call that returns false has none. `WaitingInv` says that a waiting call has
no outcome yet, which keeps its one outcome its own.

*Python timer.* Once `stop` is set, only a thread past its look at the `Event`
starts a callback, and the next look ends it (`StopInv`); a thread that ended
stays ended, so a join that succeeded keeps its word.

*Action.* `MessagesInv` says what a message may be: a result on its way was
published by an execution of its goal, with that execution's outcome and status
(`Genuine`), and a worker that has reported has both. `CallbacksInv` carries that
through the callbacks, which hold a message or a handle between their lock
regions; `HandlesInv` says that a handle without a result is registered or in the
hands of exactly one result callback (`Bringing`), and that a stored result is
genuine. A handle that a callback has taken cannot be taken again, so results are
final. The server's own invariant is taken from `ActionServerProofs`: the client's
steps leave the server's state alone, and the other way round. Each step of the
composition is then a step of `ActionContract` or leaves its variables unchanged.

*CDR.* The writer's history `trail` records value, place and what was left of the
layout after each primitive, in order and without gaps but for padding
(`Written`); the reader, after k primitives, has what the writer had after k
(`InStep`), by one case per kind of primitive: same layout, same padding, and
bytes that read back as they were written (`CountBytes`: a count below 2^32 is the
sum of its four bytes, by arithmetic). What a reader makes of a text is a function of its
bytes (`Returned`), and leaves it alone exactly if every byte is part of a character. A
payload that lost a byte cannot be read
to its end, since the last primitive ends where the whole payload does.

*Topics.* `TokensInv`: a token that was ever in sight is a key and belongs to a
key. `QueryInv` ties the listing's phases together: unless the query expired, what
was answered and is no longer on its way is recorded in the registry; `done`
without a timeout means that everything steady was answered; so what is printed
then has all of it. Registry entries only grow, and a type once known stays.
`EchoInv` counts the callbacks between printing and writing `state["n"]`: the
count, or what such a callback will write, never exceeds the number of printed
messages, however many updates are lost.

*Timer contract.* Each step of either timer is a step of `TimerContract` or leaves
the mapped variables alone (`ContractTimer`, `ContractCancel`, `ContractDestroy`).
A look at `cancelled_` that finds it set maps to `Heed`. A wake-up, a notification or
a join that timed out maps to nothing. That a one-shot is over after one call, and
that nobody is told before the thread has ended, is where `IInv` is needed.

*Launcher, told to stop.* `TurnsLeft` counts the turns of the loops the launcher
still has before it: the loops behind the one it is in, then what is left of that
one. It is a natural number (`TurnsAreNat`), nobody adds to it once `shutdown` is set,
and every step of the launcher takes at least one away (`FewerTurns`). A scan in
progress counts before the check, because the check behind it looks at the event and
leaves the loop. `HandlerInv` is needed: before the handlers are
installed the launcher would have the loop of `Popen` before it, but then no signal
can set the event. `ShutdownConverges` is what `SignalEndsLaunch` rests on; the step
from it to termination is an induction over `TurnsLeft` under temporal operators (see
below).

*Launch contract.* `ContractSpawn`, `ContractPoll`, `ContractTurn`, `ContractLoops` and
the two of the environment map each step. A turn of a sending loop is one `Escalate`, or
nothing for a child that has ended. It is the next step for that child because
`OnceInv` says that no loop has sent its signal behind its position, and nobody who is
up was asked less because `SentInv` says that the loop before has reached everybody
(`LoopBarrier`). `CodeInv` knows that `_terminate_all` runs with both handlers or, after a
failed spawn, with none, so that a signal ends the launcher only there and during the
start, and that the exit code is 0 or that of a child that was reported.

*Call contract.* `Get` maps to `Begin`: its query is new everywhere (`NotAsked`), and every
call before it has returned, because only a thread inside the wait has a call
without outcome (`OnceInv`). A service that goes away maps to `GiveUp`; a handler's end to
`Answer`, which a request allows once; a captured reply to `Keep`, which needs
`AnswersInv`; and whether `CallBytes` finds `done` or runs into its deadline, it maps to
the one `Return`.

*Interpreter lock.* `LockIsRunners`: whoever has the lock is running, a caller that has
come to its call or a handler that has begun and not ended, so that it can give the lock
back; never one that waits for an answer, and a withdrawn service keeps none. It is
inductive once it is known that no service has been asked by a call not yet begun
(`NotAsked`): then a new query cannot meet a handler of its own. That the lock comes free
(`LockAlwaysComesFree`) follows from the progress of those who have it
(`RunnersGoOn`), whatever becomes of the calls and of the services.

*Liveness.* ENABLED is beyond the provers, so these theorems do not start from `WF_vars(A)`
but from formulas of the form `[]<>~G \/ []<><<A>>_vars`, in which the guard `G` of `A`
is written out (`Unblocked`, `CallbacksRun`, `RunnersGoOn`). That is the same
fairness as long as `G` is the enabling condition, which a reader compares with the
action's guard. The argument is the usual chain of leads-to steps, each from three
facts about single steps: a state of the stage stays in it or gets on, the thread's
own step gets on, and in the stage the guard holds. The properties that pick a thread in
mid-run (`ResultReachesWaiter`, `LockComesFree`) take the hypothesis under a box,
which says the same of every later moment and so can be used for whichever
callback or handler it turns out to be.

**Model-checked only.**

- `GoalIsAnswered`, `DestructorReturns`, `CallReturns` and `SignalEndsLaunch`. Each
  waits for several threads, services or children in turn, so its proof is an induction
  over how many are left, under temporal operators; the provers have no rule for that
  (the library's induction theorems are about constant formulas). What can be said of one thread, one call or one step is proved
  beside it: `JoinedThreadsEnd`, `ResultsReachWaiters` (and with it that
  an answered goal wakes its waiter), `UnansweredCallsReturn`, `ConvergesOnShutdown`.
- That `WF_vars(A)` implies the hypotheses above: ENABLED is out of the provers' reach.
- That the layouts of `MessageSchemas` agree: the tables are data, and TLC walks all of
  them.

## 6. Not modelled

- The transport, zenoh-cpp with zenoh-c and zenoh-pico, is vendored: about nine
  tenths of the lines of the repository. What the runtime relies on is modelled as
  external, in `ActionNet`, `ServiceCall` and `Discovery`.
- The viewers draw; `talos_msg_gen.py` turns text into text; adapters convert
  images and clouds without state; `pkg`, `build`, `run` and `workspace` walk
  directories and call programs; logging is left out everywhere.
- `talos topic hz`, `bw` and `pub` and `Rate` are arithmetic on a clock around a
  sleep; `talosos_tool service-call` repeats `CallBytes` with its state in a
  `shared_ptr`, which is what `ServiceCall` models.
- In the launcher, `Event.set` in the signal handler is one atomic step, and `Popen`,
  the start of the reader thread and `procs.append` are one, unless they fail.
- The end of the caller's own process in the middle of a call. A `reply_err` that
  throws out of the queryable callback ends the process (`Crash`, for a C++ service).
- In the codec, the `resize` of a C++ vector to a count that turns out too large: the
  underrun comes after it, and a payload cut short holds no count that was not written.
- The search for a type by a second process in `talos topic echo`, signals to `list` and
  `info`, and exceptions while a message is formatted.
- A `ServiceClient`, `Publisher` or `Subscription` that outlives its node: the
  models take the node to outlive them.
- `ActionServer` is modelled without move assignment (no code moves a running
  server). A second `Init` is left out, like `Shutdown`, which does what a signal
  does.
- Clocks: a deadline is a step that may be taken at any time. A negative timeout
  of a service call becomes a query timeout near 2^64 (`node.cc:426`), which adds
  nothing to a query that may outlive its call anyway.

## 7. What could come next

`Rate` and the samplers of `hz` and `bw` with a clock; a contract for a listing of the
command line, as there is one for actions, timers, service calls and launches; the
induction over sequences that a theorem about the unfolding of nested message types would
need (a least counterexample, as `WFMin` gives one over the natural numbers, takes the
place of the induction theorems). The same detour does not lead to the four liveness
properties that are only model-checked: it needs a set of numbers defined by a
temporal formula, which TLA+ does not have.
