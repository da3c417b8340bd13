# IncRedis in TLA+

IncRedis is a C++ wrapper around hiredis. A program opens a connection
(`Command`, or its facade `IncRedis`), asks it for batches, runs commands
through them from any number of threads and collects the replies. One more
thread, started by the connection, runs the libev event loop that drives
hiredis. This directory holds the models of that machinery, the TLC runs that
check them on small instances and the proofs TLAPS checks for every instance.

## The system

| component | source | state | operations |
|---|---|---|---|
| Batch, ThreadContext | `src/batch.cpp`, `include/incredis/batch.hpp`, `src/thread_context.hpp` | per batch: the reply list, the atomic `local_pending_futures`, the condition variables `free_cmd_slot` and `no_more_pending_futures`; per connection: the atomic `pending_futures` | `run()`, `replies()`, `throw_if_failed()`, `reset()`, `~Batch()`; `hiredis_run_callback()` on the loop thread |
| ReplyList | `src/reply_list.cpp` | a `forward_list`, the insertion iterator, a size | `add()`, `clear()`, iteration |
| AsyncConnection, event loop | `src/async_connection.cpp` | `libev_mutex`, the wakeup watcher, the loop thread, the hiredis context | `wakeup_event_thread()`, `event_mutex()`, the loop's release and acquire callbacks |
| AsyncConnection, life cycle | `src/async_connection.cpp` | `m_conn`, `m_connected`, `m_connection_lost`, `connect_processed`, `disconnect_processed`, `connect_err_msg`, the halt watcher | `connect()`, `wait_for_connect()`, `disconnect()`, `wait_for_disconnect()`, `is_connected()`, `on_connect()`, `on_disconnect()`, the destructor |
| Command | `src/command.cpp` | owns the connection, the script manager and the thread context | `make_batch()`, `make_script()`, `run()` (a batch of one command) |
| ScriptManager, Script | `src/script_manager.cpp`, `src/script.cpp` | the scripts the server was given | `submit_lua_script()`, `Script::run()` |
| ScanIterator | `include/incredis/scan_iterator.inl`, `src/scan_iterator.cpp` | a buffer of values, an index, the cursor | construction, `increment()`, `dereference()`, `equal()` |
| Reply | `src/reply.cpp`, `include/incredis/reply.hpp`, `batch.cpp:58-82` | none | conversion of a hiredis reply, typed access |
| IncRedis, IncRedisBatch | `src/incredis.cpp`, `src/incredis_batch.cpp` | none | one method per Redis command |
| conversions | `include/incredis/int_conv.hpp`, `arg_to_bin_safe.hpp`, `sized_range.hpp` | none | integers and arguments to text and back |

How they interact. `Batch::run_pvt()` counts its command in its batch and in
the thread context, waits if a thousand commands are unanswered, adds a node to
its list, and gives hiredis the command under `libev_mutex`. It then wakes the
loop up through an asynchronous watcher. The loop thread holds `libev_mutex`
whenever it is not blocked in the poll; it writes hiredis's buffer to the
socket, reads answers and calls `hiredis_run_callback()`, which counts the
command off in the thread context, stores the reply through the address of its
node, counts the command off in its batch and notifies whoever waits.

What is hard about it:

* three pieces of state change without a common lock: the two atomic counters,
  the queues inside hiredis under `libev_mutex`, and the lists of nodes, which
  user threads extend and free while callbacks write into them;
* both condition variables are notified without the mutex their waiters hold;
* the wakeup flag of the loop is read outside the mutex it is set under;
* the server may go away at any point, and the callbacks that are left run with
  a null reply, which a build with assertions and one without treat differently;
* objects are destroyed by one thread while another is still in a callback that
  refers to them.

What makes each component correct:

* Batch: counters that match what they count; no more unanswered commands than
  the limit; every command answered and counted off; replies that are complete
  when `replies()` returns; a verdict of `throw_if_failed()` that is the truth;
  no callback that writes into a freed node.
* ReplyList: the nodes in the order of the commands, whatever the calls.
* Event loop: answers that reach the callback of their command; no lost wakeup.
* Life cycle: flags that say what they stand for; waits that end; no use of a context hiredis has freed; a
  destructor that returns.
* ScriptManager: a script that is run is one the server was given; the cache
  does not run ahead of the server.
* ScanIterator: every element of every reply once, in order, and equal
  iterators just where the elements are the same.
* Reply: nested replies keep their structure, no error in them is missed, and
  a typed method returns what the server sent or fails.

## Modules

| module | models |
|---|---|
| `ReplyList` | `redis::ReplyList` as operators on a record: the nodes, the insertion iterator as a position, and the size the class counts apart |
| `EventLoop` | the loop thread of an established connection, `libev_mutex`, the wakeup, and the parts of libev, hiredis and the server it drives |
| `Batch` | composes the two: user threads inside `Batch`'s member functions, the callback, and what the program may call |
| `CommandLog` | what batches promise, without threads, queues and counters; `Batch` implements it |
| `BatchProperties` | the properties of `Batch`, and the refinement mapping to `CommandLog` |
| `BatchInvariant` | the inductive invariant |
| `BatchProofs` | the theorems about counters and flow control, and their proofs |
| `AnswerInvariant` | a second inductive invariant: the way of an answer to the node of its command |
| `AnswerProofs` | the theorems about lists, answers and verdicts, and their proofs |
| `LogProofs` | the proof that `Batch` implements `CommandLog` |
| `MCBatch` | values of the constants for TLC |
| `Connection` | the life cycle of `AsyncConnection`: the thread of its user, the loop thread and a server that accepts, refuses, answers and closes |
| `ConnectionProperties` | its properties |
| `ConnectionInvariant` | its inductive invariant; the runs use this module, whose constants are numbers and switches |
| `ConnectionProofs` | its theorems and their proofs |
| `Scan` | `ScanIterator`: any number of iterators over one scan, each with its buffer, cursor and index |
| `ScanWalk` | what a range of them promises: a walk over the elements; `Scan` implements it |
| `ScanProperties` | the refinement mapping, the inductive invariant and the other properties of `Scan` |
| `ScanProofs` | its theorems and their proofs |
| `MCScan` | the scans TLC considers |
| `Scripts` | `ScriptManager` and `Script` against a server that loads, runs and forgets scripts |
| `ScriptsProperties`, `ScriptsProofs` | its properties and inductive invariant; its theorems and their proofs |
| `Replies` | the conversion of hiredis replies, the search for errors and the decoders, as functions of a reply |
| `RepliesProofs` | what the recursive ones among these functions compute, and the proofs |
| `Facade` | `IncRedis` and `IncRedisBatch`: what each method sends and makes of the reply |
| `FacadeProperties`, `FacadeInvariant` | its properties; its inductive invariant |
| `FacadeProofs` | its theorems and their proofs |
| `MCFacade` | a sorted set and the replies of the server for TLC |

### EventLoop

`phase` is where the loop thread is in one iteration of `ev_run()`: `reify`
(watcher changes reach the kernel, then the release callback unlocks the
mutex), `poll`, `acquire` (the acquire callback locks it) and `dispatch` (the
watchers that fired are served). `ready` holds the watchers still to serve.
`FdReify`, `PollReturns`, `AcquireMutex`, `HandleWakeup` and `EndDispatch` are
the steps of libev. `HandleWrite`, `ReadDone`, `SocketFails` and `FreeContext`
are those of hiredis; `FreeContext` is where `on_disconnect()` runs. A command
travels `obuf` (hiredis's output buffer), `wire` (the server) and `inbuf` (the
socket's input) and is represented by itself throughout; hiredis's list of
callbacks is `callbacks`. The order in which libev serves watchers is left
open, and so is how much one write accepts.

libev, hiredis and the server are not part of the repository. Their actions are
modelled from how `async_connection.cpp` and `batch.cpp` use them and marked
external in the map. Three facts matter: hiredis lists a callback before it
appends the command's bytes; it pairs answers with callbacks in order only; when the connection is
lost it calls every callback left with a null reply and then frees the context.

### Batch

A thread's `pc` is its place in the member function it called, `cur` the batch
and `op` what it does after `replies()`, with which `throw_if_failed()`,
`reset()` and `~Batch()` begin. Each access to shared state is an action:

| action | code in `src/batch.cpp` |
|---|---|
| `BeginRun`, `CountCommand` | the two `fetch_add(1)` of `run_pvt()`, 169-170 |
| `CheckSlot`, `ParkForSlot` | the predicate of `free_cmd_slot.wait()` and the park, 181 |
| `AddNode` | `replies.add()`, 187 |
| `PushCommand`, `AppendAndUnlock` | the two halves of `redisAsyncCommandArgv()` and the critical section around it, 188-193 |
| `PushToFreed` | the same call on a context hiredis has freed |
| `TestWakeup`, `WakeLoop` | `wakeup_event_thread()`, 198 |
| `CallReplies`, `CheckDone`, `ParkForReplies`, `Return...` | `replies()` and the functions that begin with it, 201-243 |
| `StartCallback`, `NotifySlot`, `StoreReply`, `SettleReply`, `NotifyDone` | `hiredis_run_callback()`, 84-109 |

`stage` is a history of each command (`unborn`, `local`, `held`, `hiredis`,
`called`, `settled`, `deleted`) that the code does not keep; the properties
compare the code's counters and lists with it. `value` is the reply stored in
the node of a command: the command itself for its own answer, `None` for the
default reply the node is built with. A command in `ErrorAnswers` is one the
server answers with an error. A failed assertion, a null iterator or the
use of a freed context sets `crashed`, after which nothing moves; `Ndebug` says
whether assertions are compiled in.

Left out in `Batch`: `futures_mutex` and `pending_futures_mutex`, which only the waiter
locks and which therefore exclude nobody; the text of the exception; the
`VERBOSE_HIREDIS_COMM` output; a failing allocation.

`CommandLog` is the view of the caller: a batch lists the commands run through
it (`log`), each command is answered or lost once and after those run before it
(`Settle`), and a verdict is given, or the list cleared, only when all of it is
settled. `BatchProperties` maps `Batch` to it: `log` is the list of nodes,
`result` follows from `stage` and `value`, `verdict` from the control state of
`throw_if_failed()`. All the steps of counting, queueing, waking and notifying
are stutters.

### Connection

`Connection` and `Batch` are two views of the same threads. `Batch` begins with
an established connection and follows each command; `Connection` follows the
connection and knows of commands only how many callbacks hiredis has not run
(`pending`) and how many of them have an answer to read (`answers`).

`pc` is the place of the user's thread, and `destroying` says that the function
it is in was called by the destructor. `phase`, `ready` and `libev_mutex` are
those of `EventLoop`, with `starting` for a thread that has not locked the mutex
yet and `ended` for one that can be joined. `cb` is the place inside
`on_connect()` or `on_disconnect()`, whose stores are steps of their own because
the other thread reads what they write without a lock. `ctx` is the hiredis
context, which `m_conn` may outlive: `m_conn` with `ctx = "freed"` is the
dangling pointer (`Dangling`).

`connect()` tests `m_conn` alone, and `disconnect()` clears it while hiredis still
has replies to hand out. A program that calls `connect()` then has two contexts
in the loop. `orphans` counts those of earlier connects that are still to
disconnect, and `overlap` is a history: there was such a connect. An orphan
shares the flags with the new context and runs `on_disconnect()` on them in the
new loop (the values `orphan_...` of `cb`); when its last answer comes, or its end
of file, is left open. `pending` is about the new context only.

| action | code in `src/async_connection.cpp` |
|---|---|
| `Connect` (with `NewContext`), `ConnectThrows` | `connect()` up to the thread it starts, 131-161; its exception, 143-145 |
| `TestWakeup`, `WakeLoop` | `wakeup_event_thread()`, 206-211 |
| `CallWaitForConnect`, `CheckConnect`, `Park` | `wait_for_connect()`, 166-172 |
| `CallWaitForDisconnect`, `CheckDisconnect`, `Park` | `wait_for_disconnect()`, 188-194 |
| `IsConnected` | `is_connected()`, 196-200: a step only where it ends the program |
| `DisconnectEarly`, `Disconnect`, `SendHaltAndReset`, `ResetFreedContext`, `Join` | `disconnect()`, 174-186, called by the user or by the destructor |
| `Destroy`, `DestroyFails` | the end of the destructor, 126-129 |
| `StoreConnected`, `PublishConnect`, `StoreMessage`, `NotifyConnected` | `on_connect()`, 77-88 |
| `StoreDisconnected`, `PublishDisconnect`, `NotifyDisconnected` | `on_disconnect()`, 90-101 |
| `OnDisconnectFails`, `ResetAsserts` | its assertions, 93-94, on the loop thread and inside of `disconnect()` |
| `HandleOrphan` | hiredis serves the context of an earlier connect (external) |
| `DisconnectContext` | `on_disconnect()` run by `redisAsyncDisconnect()` on the user's own thread, when no callback is pending |
| `StartLoop`, `EndDispatch`, `HandleHalt`, `HandleWakeup` | the lambda of `connect()` and the handlers of the two watchers, 157-161, 32-37 |

Of hiredis the model assumes this: `redisAsyncDisconnect()` frees a connected
context at once when nothing is pending, and marks it otherwise; a context
whose connect failed is freed after `on_connect()`, without `on_disconnect()`; a
context that meets the end of file is freed after `on_disconnect()` with an
error. The use of a freed context ends the program or does nothing.

So after a refused or a lost connection `m_conn` points to a freed context,
which `is_connected()` reads and `disconnect()` hands to hiredis:
`OnlyFailuresCrash` says that nothing else leads there, an overlap aside.

Left out in `Connection`: a context that `redisAsyncConnect()` returns with an
error already set, failures of the three calls that register callbacks, and a
second user thread.

### Scan

An iterator is a record of the members `m_reply`, `m_scan_context` and
`m_curr_index`; the pages of the scan and the size of an element (`step`) stay
fixed in `scan`. A server's cursor is opaque but for 0; here it is the number of
the page it came with.

| action | code in `include/incredis/scan_iterator.inl` |
|---|---|
| `Construct`, `ConstructEnd` | the constructors, 26-64 |
| `StepInReply`, `StepPastLast`, `StartFetch` | the three branches of `increment()`, 76-86 |
| `FetchMore`, `FetchLast` | its loop, once more or ended, 87-107 |
| `FetchThrows` | `Command::run()` throws in the loop: the members keep their values, the local cursor is gone |
| `Copy` | the implicit copy operations |

`ScanWalk` has positions in place of members: `Begin`, `Advance` and `Copy` move
an iterator to the very next element. The mapping reads the page of an iterator
off its cursor (`PageOf`) and its place off its index.

### Scripts

`known` is the cache (`m_known_scripts`, or `m_known_hashes` in a build with
Crypto++), `handles` the `m_sha1` of the `Script` objects, `sent` the commands
under way in their order, `server` and `forgotten` what the server has and had.
`build` chooses one of four builds. A script stands for its text and its SHA1;
`NoSha` is the empty SHA1 of a `Script` that has none.

| action | code |
|---|---|
| `MakeDefault` | `Script::Script()`, `script.cpp:21-25` |
| `MakeEmpty`, `MakeKnown`, `StartLoad` | `add_lua_script_ifn()` up to the blocking `run()`, `script_manager.cpp:47-99` |
| `LoadThrows`, `LoadLost`, `Insert` | what follows it, 79-108 |
| `RunScript` | `Script::run()`, `script.hpp:52-80`, through a batch not waited for |
| `MoveCommand` | `Command (Command&&)`, `command.cpp:51-55` |
| `ScriptFlush`, `Disconnect`, `Reconnect` | the calls of that name |
| `Server...`, `OthersFlush`, `ConnectionLost` | the world outside |

Between `StartLoad` and `Insert` anything may happen outside. One thread makes
scripts: the cache has no lock.

### Replies and Facade

`Replies` translates `make_redis_reply_type()`, `array_throw_if_failed()` and
the decoders of `reply.cpp` and `incredis.cpp`. The first two call themselves for
the elements of an array. They are recursive functions on `RawReplies` and on
`Replies`, the sets of replies whose strings are in `Strings` and whose arrays
are nested up to `MaxNesting` deep; `Variant` and `CountErrors` are one turn of
each, and take the function they belong to as an argument. Every decoder asserts
what `boost::get` would throw for otherwise, so that it either has a value or
fails, and `Facade` decides by `ndebug` what failing means.

`Facade` has the methods of `IncRedis` and `IncRedisBatch` as a table of what
each returns, with `SET` and `ZRANGEBYSCORE` spelled out, since their arguments
are computed; with `WITHSCORES` the server lists each member and the text of its
score after it (`Listing`). A call goes through `CallRun` (`Command::run()`: send, wait, search for errors,
decode), `CallUnchecked` (`set()` and `zrangebyscore()`: the same without the search) or
`CallMakeBatch`, `CallInBatch` and `CallThrowIfFailed` (a batch of the user's). It ends in
`CallThrows`, `CallReturns` or `DecoderFails`. `answers` is a history of what
the server sent and did. `ServerReplies` is what it may say to any command but
the two that are spelled out; `Fits` picks the replies a command can have, which
for a script is every one of them, and an error may come for any command. That replies arrive in the nodes of their commands is
taken from `Batch`. Limits of ranges are whole numbers here, and `Written` is
what an output stream makes of one: six significant digits.

## Runs

The `Batch_...` runs are runs of `MCBatch`. A batch belongs to one thread (`Owner`), as
the class is not meant to be shared: only `hiredis_run_callback()` touches it
from elsewhere. The `Connection_...` runs are runs of `ConnectionInvariant`,
the others of `MCScan`, `ScriptsProperties` and `MCFacade`.

| run | instance | shows |
|---|---|---|
| `Batch_threads` | 2 threads, a batch each, 2 commands per batch, limit 3, link lost or not, assertions, symmetry | all safety properties but the counters |
| `Batch_live` | 1 thread, 3 commands, limit 2, link lost or not, no assertions, fair | types, counters, both inductive invariants, `ImplementsCommandLog`, `EveryCommandCompletes` |
| `Batch_replies_hang` | 1 thread, 1 command, fair | violated: `RepliesReturns` |
| `Batch_slot_hang` | 1 thread, 2 batches of 2 commands, limit 2 | violated: `FreedSlotWakesAWaiter` |
| `Batch_late_callback` | 1 thread, 1 command | violated: `NoCallbackAfterBatch` |
| `Batch_after_reset` | 1 thread, 2 commands | violated: `NoCrash` |
| `Connection_calls` | 2 connects, overlapping or not, 2 pending commands, every failure, assertions, fair | all safety properties, the inductive invariant, `JoinReturns`, `IdleDestructorReturns` |
| `Connection_destroy_hang` | 1 connect, no failure, fair | violated: `DestructorReturns` |
| `Scan_ranges` | 2 iterators, all scans of 1 to 3 pages of 0 to 2 elements, step 1 or 2, fair | `IndInv`, `EqualIsSameElement`, `WalksTheElements`, `IncrementReturns` |
| `Scripts_cache` | 3 scripts and a `Script` of none, 3 commands under way, 2 moves, all builds | all of `ScriptsProperties` |
| `Facade_calls` | every method; batches of 2 commands; both builds; link lost or not | all safety properties of `FacadeProperties`, the inductive invariant |
| `Facade_unchecked` | one command, link lost or not | violated: `ExpectedAlternative` |

The properties, in the order of `BatchProperties` (`IndInv` and `AnswerIndInv` are
explained under Proofs):

* `CountersExact`: both counters equal the commands they stand for.
* `UnansweredBound`: the commands hiredis holds unanswered, with those of the
  threads already let through, stay within the limit.
* `PipelineAligned`, `AnswersReachTheirSlot`: callbacks and answers stay
  aligned, and no node receives another command's answer.
* `StoresFindTheirNode`: a callback that is still to store its reply finds its
  batch alive and its node in the list.
* `RepliesComplete`: `replies()` returns with every reply stored.
* `ListInOrder`: the replies are in the order of the commands.
* `ThrowVerdict`: `throw_if_failed()` throws exactly if a command failed.
* `LoopWillWrite`: a loop that blocks with commands in the buffer has been, or
  is about to be, woken up.
* `ImplementsCommandLog`: `Batch` implements `CommandLog`.
* `EveryCommandCompletes`: what hiredis took is answered and counted off.

And in the order of `ConnectionProperties`:

* `AssertionsHold`: the assertions of `on_connect()` and of `disconnect()`, in any
  order of calls; those of `on_disconnect()` too, while there was no overlap.
* `OnlyFailuresCrash`: nothing ends the program while the server accepts and
  keeps the connection and there was no overlap.
* `OutcomePublished`: `connect_processed` set means `m_connected` is the outcome
  of this connect.
* `MessageComplete`: it also means, outside of the loop's callbacks, that the
  message is the one of this connect.
* `DisconnectedIsOver`: `disconnect_processed` set means the connection is over.
  This and the two before say nothing after an overlap, which can break them.
* `NoLoopLeft`: a loop thread that ended leaves no lock, halt or callback behind.
* `JoinReturns`: the thread `disconnect()` joins ends.
* `IdleDestructorReturns`: so does the destructor, with no reply pending.

Of `Scan`:

* `WalksTheElements`: each element once, in order, past empty pages, and resumed
  after an exception; `Scan` implements `ScanWalk`.
* `EqualIsSameElement`: cursor, index and size tell all positions apart.
* `IncrementReturns`: the loop gets past empty replies.

Of `Scripts`:

* `KnownWasLoaded`: the cache holds what the server has or has dropped.
* `HandlesViewCache`: a `Script` views a node of the cache, or nothing.
* `NoscriptWasForgotten`: the server answers `NOSCRIPT` only for what it dropped,
  and for a `Script` without SHA1.

That `make_script()` returns is no property of the list: it has no loop of its own, and
`Command::run()`, which it waits in, need not return (`Batch_replies_hang`).

Of `Facade`:

* `ErrorsReported`: the exception counts all errors at any depth and quotes the
  first three; values come only from replies without one.
* `DecodesAsSent`: a value is what the server sent for that command. A reply of a
  kind the method is not for, an error first of all, is never returned as one;
  what a script returns has no error at any depth.
* `LostReadsAsZero`: a call returns without all its answers only if assertions are
  compiled out and the connection was lost. What it makes of a missing answer is 0
  from a method that returns a number, false from `expire()` and a default `Reply`
  from a script. So `del()` seems to have found no key: the caller cannot tell. But no
  string, list or status is ever returned: these methods throw `bad_get`.
* `SetAsAsked`: `NX` and `XX` do what they say, and true means stored, false not.
* `RangeAsAsked`: the members between the limits, each included as asked, if six
  digits are enough; with scores, each member's own right after it.
* `FailuresExplained`: a decoder fails for a lost connection, or for an error
  that `set()` or `zrangebyscore()` did not look for, and for nothing else.

### Bounds

The code's limit is 1000 commands; the model's is a constant larger than the
number of threads. 3 for two threads and four commands, or 2 for one thread and
three, makes commands wait for a slot, be let through by an answer, and find
the counter at the limit, just below and just above it. `MaxCommands` bounds
the commands run through one batch; two are enough for a list with an order, a
reset in between and an error among correct replies. Two threads are what the
critical section, the shared counter and the wakeup flag need to be raced for;
the callback is a third party to each race. What does not depend on the bound
is proved.

`MaxConnects` is 2: a connection is made, ended, and made again, so that what
the first leaves in the flags, the watchers and the mutex meets the second.
`MaxPending` is 2, the least with which answers can come for some of the
pending commands and not for others. The switches `CanThrow`, `CanRefuse`,
`CanClose` and `Ndebug` choose failures and the build.

The second connect may overlap the end of the first. A third could only add a
second orphan, and the counter of them is not bounded in the proofs.

Three pages are a first one, one in the middle that may be empty, and a last one
that may be empty too; two elements make an index that matters. Two iterators
compare and copy. `Scripts_cache` has a script of each kind; three commands
under way put a flush between a load and a run. Two commands with up to three
errors each pass the limit of three messages in the middle of a nested array.
The scores lie on a limit, next to it, and beyond six digits. `MaxNesting` is 2,
the least with an error inside of an array inside of an array; `Strings` are the
strings of the instance.

The symmetry of the safety run of `Batch` exchanges threads together with their
batches (`MCSymmetry`); nothing in the module tells two threads apart. The
liveness runs use none.

A thousand threads that wait in `run_pvt()` at once would stop each other for
good, as each counts its own command before it waits. `BatchAssumption` asks
for more slots than threads.

### Fairness

`FairSpec` asks that a thread inside a member function goes on when it can
(`Proceed`), that the loop thread goes on (`RunCallback`, `TurnLoop`) and that
the server answers (`Serve`): weak fairness, which a preemptive scheduler and a
running server give. `Scan` asks that the server answers. Nothing is asked of
`libev_mutex` beyond that.
For `Connection` it is the same: `Proceed`, `Loop` and `Server` go on.
Calls of the program, spurious wakeups and the loss of the
connection are never forced, and no property relies on them: a wait that only a
spurious wakeup would end counts as one that does not end.

### What the violated runs show

* `Batch_replies_hang`: the callback decrements `local_pending_futures` and
  notifies without `pending_futures_mutex`. A thread that found the counter at
  one and has not parked yet misses the only notify, and `replies()` sleeps
  with every reply in place.
* `Batch_slot_hang`: a slot that becomes free is announced on the
  `free_cmd_slot` of the batch that was answered, while the limit is shared by
  all batches. One thread with two batches is enough: it waits in one of them
  and the notify goes to the other.
* `Batch_late_callback`: the counter that lets `reset()` and `~Batch()` return
  reaches zero before the callback notifies through the batch's own condition
  variable.
* `Batch_after_reset`: `ReplyList::clear()` leaves the insertion iterator at
  `begin()` of an empty list, its end, and the next `add()` inserts after it.
* `Connection_destroy_hang`: destroyed before its connect is processed, a
  connection is not disconnected, and its destructor waits for that for good.
* `Facade_unchecked`: `set()` and `zrangebyscore()` hand their reply to a decoder
  without looking for errors first. An error fails the decoder's assertion, or
  throws `boost::bad_get`, where all other methods throw the message.

Five more disagreements were met and have no run of their own.
`wait_for_connect()` can miss its only notify as `replies()` can: `on_connect()`
notifies without `hiredis_mutex`. `is_connected()` asserts that a lost
connection is a connected one, while `on_disconnect()` clears one flag where it
sets the other. Without assertions a command whose connection was lost keeps
the default reply, the number zero, and `throw_if_failed()` takes it for a
success: `dbsize()` returns 0. A `disconnect()` with replies pending followed by a
`connect()` leaves two contexts in the loop: the `on_disconnect()` of the old one
clears `m_connected` and sets `disconnect_processed` for the new one, whose own then
fails line 93 or 94 although the server is healthy. And a `Script` made by
`Script()`, which is public in every build, or in a Crypto++ build from an empty
text, fails the assertion of `run()` (`script.hpp:70`) or sends an empty SHA1.

## Proofs

`BatchProofs` proves, for any sets of threads and batches, any number of
commands, any limit above the number of threads, with or without assertions and
with or without a lost connection:

| theorem | states |
|---|---|
| `Invariance` | `Spec => []IndInv` |
| `TypeCorrect` | `Spec => []TypeOK` |
| `CountersCorrect` | `Spec => []CountersExact` |
| `FlowControl` | `Spec => []UnansweredBound` |

The assumptions are `LoopAssumption` and `BatchAssumption`: threads and batches
are finite sets, the owner of a batch is a thread, and the limit is above the
number of threads (only its being a natural number matters to the proofs of
today).

The argument. Neither the types nor the counters are inductive: that a counter
does not pass below zero needs the command that is about to be counted off to
be among those counted, which needs to be known at the callback, in hiredis's
list before it and in the critical section before that. `IndInv` says who owns
a command at each stage:
`ThreadInv` (a thread in `run_pvt()` owns its batch's last command, at the
stage its `pc` says), `MutexInv` (the holder of the mutex shows in its control
state), `QueueInv` (hiredis's list holds the commands at stage `hiredis`, once
each), `CallbackInv` (the callback under way owns its command and the loop
thread), `StageInv` (commands are numbered in order, and a batch lives as long
as what it counts) and `ListInv` (where a list grows). Each action moves at
most one command by one stage, and the lemmas `StageMoved`, `UnsettledMoved`
and `CountAfter` turn that into a difference of one between cardinalities.
There is one lemma per action; `NextIndInv` collects them.

`FlowControl` is not an invariant that follows from `IndInv` alone: a thread
that overtakes the limit in the counter goes to wait, and how many are let
through depends on the moment each of them tested. The proof shows that a step
either adds nobody to the admitted commands, or leaves the counter within the
limit; and by `AdmittedCounted` the admitted never outnumber the counted.

`AnswerProofs` and `LogProofs` go on from there, for the same constants:

| theorem | states |
|---|---|
| `WakeupReachesLoop` | `Spec => []LoopWillWrite` |
| `ListsInOrder` | `Spec => []ListInOrder` |
| `NodesOutliveCallbacks` | `Spec => []StoresFindTheirNode` |
| `PipelineStaysAligned` | `Spec => []PipelineAligned` |
| `AnswersToTheirCommands` | `Spec => []AnswersReachTheirSlot` |
| `RepliesAreComplete` | `Spec => []RepliesComplete` |
| `VerdictIsRight` | `Spec => []ThrowVerdict`, assuming `~(CanLoseLink /\ Ndebug)` |
| `AnswerInvariance` | `Spec => []AnswerIndInv` |
| `Refinement` | `Spec => ImplementsCommandLog` |

The argument. `event_mutex()` makes listing a callback and appending its command
one step for the loop (`MutexInv`), so that the list of callbacks is what is in
flight, with at most one command more while a thread is in between
(`PipelineAligned`). The first callback is then called with the first answer,
which is its own (`PairInv`); it finds its node, because the node is added
before the command is pushed and stays while the batch counts the command
(`NodeInv`), and stores the answer before the counter goes down (`AnswerInv`).
A thread that finds the counter at zero finds a list with all its commands
(`ListInOrder`) done with, hence answered; and a verdict is of a batch that has
stayed at rest since (`VerdictInv`).

`VerdictIsRight` needs its assumption: without assertions a lost reply leaves the
default `Reply` in the node, and `throw_if_failed()` takes it for a success. The
theorem says that with assertions, or while the server keeps the connection,
nothing else makes the verdict wrong.

`Refinement` needs the order as well: hiredis takes the commands of a batch, and
calls their callbacks, one at a time and in the order they were run
(`OrderInv`), a reply is stored once, and none is once the connection failed
(`ValueInv`). `AddNode` is the log's `Run`, `StoreReply` or, for a lost command,
`SettleReply` its `Settle`, the end of `throw_if_failed()` its `Judge`, that of
`reset()` and the destructor its `Clear`; every other step is hidden or forgets
a verdict. A step that crashes changes nothing of the log.

`ConnectionProofs` proves, for any number of connects and pending commands, with
or without each kind of failure and with or without assertions:

| theorem | states |
|---|---|
| `Invariance` | `Spec => []IndInv` |
| `AssertionsNeverFail` | `Spec => []AssertionsHold` |
| `CrashNeedsFailure` | `Spec => []OnlyFailuresCrash` |
| `OutcomeIsPublished` | `Spec => []OutcomePublished` |
| `MessageIsComplete` | `Spec => []MessageComplete` |
| `DisconnectIsFinal` | `Spec => []DisconnectedIsOver` |
| `LoopLeavesNothing` | `Spec => []NoLoopLeft` |

The only assumption, `ConnectionAssumption`, gives the constants their types.
`OnlyFailuresCrash` speaks of the moment of the crash; that a healthy connection
cannot get there needs to know who owns the context and the thread at each `pc`
(`OwnerInv`), that there is one halt for each join (`HaltInv`), that callbacks
run under the mutex only (`LoopInv`), which callbacks a context may be in
(`ContextInv`) and, while there was no overlap, that no other context is in the loop
(`OrphanInv`), what the flags say of the context at each
step of a callback (`FlagInv`), who still has the message to store (`MessageInv`)
and that a context goes while it is owned only by
a failure (`FailureInv`). `FlagInv` and `MessageInv` hold up to the first
overlap, so what the theorems say of the flags does too; the ownership of the context,
the thread, the halt and the mutex does not depend on it. The other theorems follow from the same invariant
without a further induction.

`ScanProofs` proves, for any set of scans, of any number of pages of any size,
any size of an element and any set of iterators:

| theorem | states |
|---|---|
| `Invariance` | `Spec => []IndInv` |
| `Refinement` | `Spec => WalksTheElements` |
| `EqualTellsPositions` | `Spec => []EqualIsSameElement` |

`ScanAssumption` says that a page is a sequence of strings whose number `step`
divides. The refinement needs to know which page an iterator holds
(`KeepsItsPage`), that a fetch starts from the last element of a page
(`LeavesLastOfPage`) and that the loop has passed over empty pages only
(`SkipsEmptyPages`): then the element `FetchLast` arrives at is the next one.
`EqualTellsPositions` needs that the pages two iterators hold have the same
cursor only if they are the same.

`ScriptsProofs` proves, for any scripts, any number of commands under way and
any number of moves:

| theorem | states |
|---|---|
| `Invariance` | `Spec => []IndInv` |
| `CacheIsHonest` | `Spec => []KnownWasLoaded` |
| `HandlesAreSafe` | `Spec => []HandlesViewCache` |
| `NoscriptMeansForgotten` | `Spec => NoscriptWasForgotten` |

The invariant relates the commands under way to the rest: at most one is a load,
the one the thread waits for, and each run is of a script in `handles`
(`LoadSent`).

`RepliesProofs` and `FacadeProofs` prove, for any set of strings, any depth of
arrays, any replies of the server, any sorted set, any limits and any number of
commands in a batch, in both builds and with or without a lost connection:

| theorem | states |
|---|---|
| `ThrowReportsAll` | `throw_if_failed()` counts every error at any depth and quotes the first three |
| `Invariance` | `Spec => []IndInv` |
| `ErrorsAreReported` | `Spec => []ErrorsReported` |
| `ValuesAreSent` | `Spec => []DecodesAsSent` |
| `LostIsZero` | `Spec => []LostReadsAsZero` |
| `SetDoesAsAsked` | `Spec => []SetAsAsked` |
| `RangeReturnsAsAsked` | `Spec => []RangeAsAsked` |
| `FailuresAreExplained` | `Spec => []FailuresExplained` |

`RepliesAssumption` says that the blank string is a string and that
`MaxNesting` is a natural number. `FacadeAssumption` says that there are arrays at all,
that a reply of the server is a reply, that the sorted set is finite, its
members and the texts of their scores are strings, that scores and limits are whole numbers of up to seven
digits (which is what `Written` is right for), that a batch takes a command, and
that no value of the string is the mark of a missing one.

The argument about replies. A recursive function of TLA+ is some function that
satisfies its equation, if there is one; so that one exists has to be proved
before the equation can be used. The lemmas ending in `Def` do this, by
induction on the depth of a reply or on the length of a sequence: a reply of
depth d+1 is converted, or searched, by a function that is known on depth d, and
what it does there does not depend on the rest of the function (the lemmas
ending in `Local`). The induction is over a set of numbers (`NatSetInduction`,
from the well-foundedness of the natural numbers), and so needs no induction
principle with an operator as its parameter.
`ThrowReportsAll` then compares `array_throw_if_failed()`, which carries a count
of the errors reported so far into each nested array, with `Errors`, the plain list
of all of them. `LoopReports` says that a call that was told of k errors counts
those of its replies and writes the first 3 - k of them. Its induction step is
`FirstConcat`: the first n of two sequences are the first n of one and as many
of the other as are left, also where nothing is left. `Reply()`, which stays in the
nodes of lost commands, counts for no error (`Holds`).

The argument about calls. The properties speak of what a call ended with, after
the step that decided it; `OutcomeInv` ties it to the nodes, which do not change
until the next call: an exception has the errors of these nodes, a value is what
the decoders make of them, and `bad_get` means that one of them fails.
`StoredInv` ties a node to the answer to its command, or to `Reply()` if the
connection was lost before, and `AnswerInv` an answer to its command: of a kind
its decoder expects, or an error, and for `SET` and `ZRANGEBYSCORE` what
the server did. `CrashInv` says how a program came to its end, `ControlInv` that only
`set()` and `zrangebyscore()` leave a reply unsearched (so that a script's is
searched) and that a build with assertions does not outlive a lost answer. With these a
property follows from the decoders alone, one kind of result at a time
(`Decodes`).

Only model-checked: the liveness properties (`EveryCommandCompletes`,
`JoinReturns`, `IdleDestructorReturns`, `IncrementReturns`),
which the prover does not handle. Every invariant and every safety property of a
passing run is a theorem, `ThrowVerdict` under the assumption of `VerdictIsRight`.

## Plan

Done: the batches, the connection, the scans, the scripts and the facade, with
theorems for all safety properties. Left: `Batch` and `Connection` composed, for
what becomes of the commands when `disconnect()` is called with replies pending.

## Not modelled

* `zadd()` and the variadic `set()` of `IncRedisBatch`: they convert a `double`
  with `int_conv<std::string>()`, which exists for integers only, so that no
  program can use them.
* The conversions of integers: the digits are written and read by duckhandy, a
  submodule whose source the repository does not hold. `arg_to_bin_safe.hpp` and
  `sized_range.hpp` keep pointers and sizes together.
* The data of a scan changing under the iterators, and iterators that outlive a
  move of their `Command`.
* Two threads that make scripts at once: a data race on the cache.
* The order in which `Command` destroys its members. A callback uses the counter
  of the thread context before it stores its reply, so that with
  `StoresFindTheirNode` none is left to use it once the batches are gone.
* The build files; the tests, which need a running server.
