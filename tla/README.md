# Kleopatra in TLA+

A verification development for Kleopatra 17.12 and libkleo 17.12, the
certificate manager of KDE and its library. TLA+ modules model the parts of the
program in which something waits, is queued, is cancelled, is retried or is
cached; TLC checks them on small instances; TLAPS proves the most important
facts for every instance.

Paths below are relative to `src/`; `K` is `kleopatra-Applications-17.12/src`
and `L` is `libkleo-Applications-17.12/src`. The tree is a partial checkout:
`main.cpp`, `commands/`, `crypto/controller.cpp`, `crypto/task.cpp` and a few
headers' implementations are not in it, so what they do is known only from how
the code that is there uses them.

## 1. Inventory

Kleopatra is one GUI process. One thread runs the Qt event loop; GpgME jobs,
`KDPipeIODevice` and the smart card monitor add threads of their own, and gpg,
gpgsm, gpg-agent, dirmngr and Assuan clients are other processes. Most of the
difficulty is in that mix: slots that run between two steps of something else,
nested event loops, threads that sleep on conditions, and peers that go away.

| Component | Where | State it keeps | Operations | Talks to |
| --- | --- | --- | --- | --- |
| KDPipeIODevice | `K/utils/kdpipeiodevice.cpp` | two threads (Reader, Writer), each with a ring buffer, flags (cancel, eof, error, consumerBlocksOnUs) and conditions; `triedToStartReader/Writer` | `readData`, `writeData`, `waitForReadyRead`, `waitForBytesWritten`, `atEnd`, `bytesAvailable`, `close`, the run() loops, queued `readyRead()`/`bytesWritten()` | PipeInput, PipeOutput, gpg through a descriptor |
| KeyCache, RefreshKeysJob | `L/models/keycache.cpp` | six sorted indexes of keys, `m_initalized`, the running refresh job, a timer, file system watchers; the job: pending listings, merged keys, `m_canceled` | `reload`, `cancelKeyListing`, `insert`, `remove`, `refresh`, `clear`, `find*`, `addFileSystemWatcher`, `ensureCachePopulated` (a nested event loop) | ListAllKeysJob of QGpgME, FileSystemWatcher, every model and dialog |
| FileSystemWatcher | `L/utils/filesystemwatcher.cpp` | enabled or not, watched and seen paths, cached changes, a single-shot timer | `onFileChanged`, `onDirectoryChanged`, `onTimeout`, `setEnabled`, `addPaths`, `removePaths`, black- and whitelists | KeyCache, ReaderStatus |
| Key list models | `L/models/keylistmodel.cpp` | flat: a sorted vector; hierarchical: keys by fingerprint, children by issuer, subjects without a parent, top levels | `addKeys`, `removeKey`, `clear`, `setKeys`, `useKeyCache`, `topological_sort` | KeyCache signals, tree views |
| Key search | `find*` in `L/models/keycache.cpp` | none | `findSubjects`, `findIssuers`, `findByKeyIDOrFingerprint`, `find_mailbox` | all of the program |
| Assuan server | `K/uiserver/assuanserverconnection.cpp` | per connection: descriptor, current command, backgrounded ("nohup") commands, collected inputs, outputs, senders, recipients, session, flags | the line handlers, `_handle`, `startCommandBottomHalf`, `done`, `canceled`, top and bottom half of the deletion, `reset`, `enableCryptoCommands` | libassuan, UiServer, the commands |
| UiServer | `K/uiserver/uiserver.cpp` | listening or not, connections, `cryptoCommandsEnabled` | `start`, `stop`, `incomingConnection`, `slotConnectionClosed`, `waitForStopped`, `enableCryptoCommands` | connections |
| Session data | `K/uiserver/sessiondata.cpp` | reference count, `ripe` flag and mementos per session; a timer | `enterSession`, `exitSession`, `slotCollectGarbage`, `clear` | connections |
| UI server commands | `K/uiserver/*command*.cpp` | a controller each | `doStart`, `doCanceled` | controllers (absent), AssuanCommand |
| Smart card monitor | `K/smartcard/readerstatus.cpp` | a thread, a queue of transactions, finished ones, card infos | `addTransaction`, `ping`, `stop`, `run`, `slotOneTransactionFinished` | gpg-agent and scdaemon, FileSystemWatcher |
| Cards | `K/smartcard/*card.cpp` | parsed card attributes | parsing, comparison | the monitor |
| Task collection | `K/crypto/taskcollection.cpp` | tasks, number completed, `m_doneEmitted` | `taskStarted`, `taskResult`, `setTasks`, progress | tasks, controllers |
| Decrypt, verify, sign, encrypt tasks | `K/crypto/*task.cpp` | one QGpgME job each | `doStart`, `cancel`, result slots | Input, Output, QGpgME |
| Checksum verification | `K/crypto/verifychecksumscontroller.cpp` | a thread, `files`, `errors`, `canceled` | `start`, `cancel`, `run` | external checksum programs |
| Output | `K/utils/output.cpp` | finalizing, finalized, cancelled flags; a temporary file | `finalize`, `cancel`, `doFinalize`, overwrite policy | commands, tasks, the file system |
| Input, IODeviceLogger | `K/utils/input.cpp`, `K/utils/iodevicelogger.cpp` | a device | `finalize`, wrapping reads and writes | commands, tasks |
| Hex, DN, classify, formatting, checksum and archive definitions, key filters | `K/utils`, `L/kleo`, `L/utils` | none or configuration | pure functions and parsers | all of the program |
| Unique service | `K/utils/kuniqueservice*.cpp` | exit value | forwarding an activation to the first instance | D-Bus |
| Views, dialogs, configuration pages, self tests | `K/view`, `K/dialogs`, `K/conf`, `K/selftest`, `L/ui` | widgets | slots | models, commands |

What is hard, and what has to be true, by component:

* **KDPipeIODevice.** The reader fills its ring buffer without holding the
  mutex while the client empties it under the mutex; both pointers jump to 0
  when the buffer happens to be empty; three different conditions carry the
  wake-ups between the threads, a fourth party (the event loop) delivers
  `readyRead()`, and `close()` may come at any moment. Bytes must arrive in
  order, exactly once; end of file must be reported only at the end; no thread
  may sleep for ever; `close()` must flush and return.
* **KeyCache.** Listings of two protocols run concurrently in other processes;
  a refresh can be cancelled between any two results; callers can be stuck in a
  nested event loop until a signal that only one path emits; the file system
  watchers are switched off during a refresh and on again by the same path. A
  caller must always get out of `ensureCachePopulated()`; a change of the
  keyring must reach the cache; the six indexes must agree.
* **Key list models.** Keys arrive in any order, issuers after subjects, and a
  key can come again with a different issuer. Every key must be in the tree
  exactly once, under its issuer if that is there.
* **Assuan server.** The client can hang up at any point; commands wait for the
  crypto commands to be enabled; commands go to the background and outlive the
  connection. Every command the client is waiting for must be answered once; a
  command that survives the connection must keep it alive; nothing may be left
  behind when it ends.
* **Session data and UI server commands.** A session must live as long as a
  connection is in it; what one command has prepared must be found by the next
  one, ready, once, and never be mixed up with another's recipients.
* **Smart card monitor.** A queue between two threads, with errors that travel
  as a signal beside the queue. Each transaction must be finished once and its
  receiver told the right error; the thread must stop when told.
* **Task collection and tasks.** `done()` when all tasks are through and not
  before, also when tasks are restarted; a result for every task, and a true one.
* **Output.** Finalizing, failing and cancelling in any order must neither lose
  the user's old file nor leave both.
* **Pure functions.** Sizes at their boundaries, cyclic certificate chains.


## 2. Plan

The order follows the weight of what can go wrong: first where bytes can be
lost between threads, then where a caller can be stuck or the program shows
stale keys, then where a command can be lost or done twice.

| Step | Modules | State |
| --- | --- | --- |
| 1. Pipe devices | `KDPipeReader`, `KDPipeWriter`, `KDPipePair` (composes both), `ByteChannel` (abstract) | modelled, checked; safety of both halves and the refinement proved |
| 2. Key cache refresh | `KeyCacheRefresh` | modelled, checked, safety proved |
| 3. Life of an Assuan connection and its commands | `AssuanConnection`, `CommandServer` (abstract) | modelled, checked; safety and the refinement proved |
| 4. Certificate tree | `HierarchicalKeyList` | modelled, checked, safety proved |
| 5. What PREP_ENCRYPT and PREP_SIGN leave for ENCRYPT and SIGN, SESSION and RESET | `EmailSession`, with connections that share sessions | modelled, checked, safety proved |
| 6. Smart card monitor | `ReaderStatus`, `CommandQueue` (abstract) | modelled, checked; safety and the refinement proved |
| 7. Tasks and their collection | `TaskCollection`, on top of `FileOutput` | modelled, checked, safety proved |
| 8. Output files | `FileOutput` | modelled, checked and proved as part of step 7 |
| 9. Key cache indexes, UiServer | | not modelled, see section 9 |

Abstract specifications: `ByteChannel` for the pair of devices,
`CommandServer` for a connection of the UI server, `CommandQueue` for the smart
card monitor. Each is what a user of the component can rely on, in the terms of
that user, and each refinement is a property of a run and a theorem. The other
components promise something that is said better by properties than by another
machine: each task reported once, each certificate in one place.

What is left is what the proof system cannot express: liveness and freedom from
deadlock (section 7).

## 3. Modules and code

Each `MC*` module only names the values a `.cfg` cannot write. `PROJECT.json`
has the lines each definition was translated from.

### KDPipeReader

The Reader thread of `KDPipeIODevice` and the calls of its client
(`K/utils/kdpipeiodevice.cpp`). One action is what a thread does between two
points at which another can get in: while it holds the mutex nobody else moves,
and `::read()`, the lock after it and the condition waits are the places where
others do. The actions of the thread carry the names of what `Reader::run()`
does at that place (`ReaderLoop`, `ReaderCheck`, `ReaderRead`, `ReaderCommits`,
...), `NotifyReadyRead` is `notifyReadyRead()`, `ReadWithoutBlocking`,
`ReadBlocks` and `ReadWoken` are the three ways through `readData()`,
`WaitBlocks` and `WaitEnds` are `waitForReadyRead()`, `CloseCancels` to
`CloseJoins` are `stopThreads()` and `close()`.

* `rptr`, `wptr`, `buffer` are the ring buffer, `Room` and `Contiguous` the
  arithmetic of it. Byte number *k* of the stream is the number *k*, so that a
  lost, repeated or displaced byte shows.
* `rpc` and `cpc` say where the thread and the client are, `rwait` and `cwait`
  on which condition each sleeps. A wake-up sets them to `"none"`; a sleeper
  that was woken has to get the mutex again.
* The queued `readyRead()` is a counter, and the slot it calls an action with a
  beginning and an end, because `readyReadSentCondition` is woken after it.
* `policy` is how the client uses the device: `"any"` makes any call at any
  time, `"events"` reads in its slot until nothing is left, `"blocking"` is a
  thread that only calls `read()`. Peer and descriptor are the environment:
  `PeerWrite`, `PeerClose`, and `::read()` that fails or returns less.

### KDPipeWriter

The Writer thread and `writeData()`, `waitForBytesWritten()`, `close()`, in the
same style. The write buffer is a sequence (the code never wraps it);
`totalWritten` grows within one pass because `::write()` may write a part; the
pipe holds `PipeCapacity` bytes; the peer may read or close.

### KDPipePair and ByteChannel

`KDPipePair` is what `makePairOfConnectedPipes()` returns: the reader's `stream`
is what the writer's thread writes, the reader's `close()` is the peer going
away. `ByteChannel` is what a user expects: bytes in order, an end only at the
end, and nothing else after a failure. The refinement mapping is in
`KDPipePair`. It holds the writing half as an instance (`W`), so the assumptions
about the constants of both halves are repeated there for the pair.

### KeyCacheRefresh

`KeyCache`, `RefreshKeysJob` and the watchers (`L/models/keycache.cpp`,
`L/utils/filesystemwatcher.cpp`). `keyring` is what is on disk, `cached` what
`KeyCache` has. `job` follows the refresh: posted, listing, in
`updateKeyCache()`, finished but not yet deleted, gone. Every protocol has a
listing that reads the keyring at one moment (`ListingReads`) and reports at a
later one (`ResultArrives`). `loops` counts the callers in the nested event loop
of `ensureCachePopulated()`; `notice` and `changeCached` are a change the
operating system has announced and one `FileSystemWatcher` holds back with its
timer. `unread` (changed since the listing was made) and `blind` (changed while
the watchers were off) are history, only read by properties.

The nested loop runs whatever the outer one does. `updateKeyCache()` with all
its signals is one event, in which nothing else is delivered, unless one of its
slots waits in a loop of its own (`SlotWaits`): that is `EventLoopRuns`.

### AssuanConnection

One connection, its client and its commands
(`K/uiserver/assuanserverconnection.cpp`, `K/uiserver/assuancommand.h`).
`current` is `currentCommand`, `nohuped` is `nohupedCommands`, `timers` the
bottom halves that have been posted, `waiting` whether `commandWaitingForCryptoCommandsEnabled`
is set. `conn` is open, closed (top half of the deletion: descriptor gone,
commands in the background go on), deleted (bottom half), or aborted (the
`qFatal()` of `done()`). `outstanding` and `wire` are the client's side: what it
waits for and the line it has sent. The counters `starts`, `answers`,
`finalized` exist to say "once".

Commands themselves are external to this module: `start()` ends at once
(`BottomHalfFinishes`), goes on in the foreground, or in the background, and
ends at any later time (`CurrentDone`, `NohupDone`).

`CommandServer` is the connection without timers, bottom halves, the line, the
slot and the switch: a command that is asked for, an answer, results, the
background, the two ends. The mapping (`Promise`) only renames: what is asked is
`outstanding`, the results are `finalized`. The bottom halves, the switch, and
everything that happens to a command before `done()` are stutters.

### HierarchicalKeyList

`HierarchicalKeyListModel` (`L/models/keylistmodel.cpp`). The sorted vectors
are sets of records with a fingerprint and an issuer. `doAddKeys()` is
`StartAdding` and then one `AddNext` per key, in an order that
`topological_sort()` allows: views and proxies react to the signals in between,
so the states in between count. `view` is what somebody knows who applied every
row signal. `removeKey()` is two actions: with subjects below the certificate
(`RemoveParent`) the model is set anew from all other keys, a leaf
(`RemoveLeaf`) is taken out with one row removed, and the record that is removed
(`Removable`) may be newer than the one in the model. `issuerOf` is the world:
which certificate gpgsm says issued which; it may learn an issuer at any time
(`IssuerFound`). `relisted` is history: since the model was last set, an issuer
has been found for a certificate in it. From then on old and new records of one
certificate may be in different places, and the properties that need one record
for each say so.

### ReaderStatus

The smart card monitor (`K/smartcard/readerstatus.cpp`). The actions of the
thread are the pieces of `ReaderStatusThread::run()` between two points at which
the GUI thread can get at `transactions`, `m_finishedTransactions` or the event
queue: `NewContext`, `Take` or `Sleeps`, `ReadCard`, `StoreCards`,
`AnnounceCards` for an update, `Transact`, `FinishTransaction`, `EmitFinished`
for a command. Putting a transaction into the finished list and sending its
error are two steps, as in the code.

* `events` holds the queued signals in order, `frames` the running calls of
  `slotOneTransactionFinished()`: a receiver may open a message box, whose event
  loop delivers the next signal, so that the slot runs inside itself.
* `told[t]` is the sequence of errors the receiver of `t` was given, each named
  by the transaction it came from: `<<t>>` is the right one. `late` is history:
  the transactions that finished while a signal of another one was queued.
* `context` is `gpgAgent` not being null: without it an update shows an empty
  card, and a command dereferences it (`"crashed"`).
* `CommandQueue` is one queue instead of two lists, a thread, a queue of signals
  and nested slots. The mapping (`Queue`) takes what the thread has in hand at
  `"transact"` for what is begun; taking updates, reading cards, the signals
  and the slot up to the call of the receiver are stutters.
* A card is one value. `Differ` is nondeterministic where two cards are equal,
  because `Card()` leaves `mSlot` uninitialized and the comparison reads it.

### FileOutput and TaskCollection

`FileOutput` is the class of that name in `K/utils/output.cpp`, as a library of
operations: `CreateOutput`, `Finalize` with its renames, its question and its
policy, `Answer` of the topmost message box, `Cancel`. Every call of the file
system may fail (`CallFails`, bounded by `MaxFailures`); a file's content is who
wrote it, in which run. A box has an event loop, so boxes nest and only the
topmost one can be answered.

`TaskCollection` adds the tasks (`K/crypto/decryptverifytask.cpp`,
`K/crypto/signencryptfilestask.cpp`) and the count
(`K/crypto/taskcollection.cpp`). `Start`, `StartFails` and `StartThrows` are the
ends of `doStart()`; `JobFails`, `JobEnds`, `DetachedEnds` and `BoxAnswered` are
`slotResult()`, whose call of `finalize()` can throw or stay inside a box;
`TaskStarted` and `TaskResult` are the two slots of the collection. The kinds of
task differ in what they do with exceptions and with their output when they are
started again, and in whether they can be: only a `DecryptVerifyResult` knows
its task. `Task::start()` is not in the tree. It is taken to emit `started()`
before `doStart()` can report anything; were it the other way round, a restart
that fails at once would leave the count one too high.

`RestartPolicy` says when a task may be started again: `"alone"` only after all
have reported, `"any"` at any time.

### EmailSession

PREP_ENCRYPT, ENCRYPT, PREP_SIGN and SIGN (`K/uiserver/prepencryptcommand.cpp`
and its neighbours) of connections that enter and leave sessions
(`K/uiserver/sessiondata.cpp`). A controller is a record in `controllers`, a
memento its number: with the connection (`mementos`) or with its session
(`sessionMemento`), where `Memento` finds it and `RegisterMemento` and
`RemoveMemento` change it. `MayPrepEncrypt` to `MaySign` are the four
`checkForErrors()`, applied to `Given`: what INPUT, OUTPUT, RECIPIENT, SENDER,
MESSAGE and FILE have left with the connection, so far as their handlers accept
it. A command either finds a prepared controller (`Reuse`) and goes on from a
timer, or makes one and waits for it to resolve. `ControllerEnds` answers every
command connected to a controller, which is what signals and slots do. How a
command is posted, answered or put in the background is `AssuanConnection`;
here that is one step. `HangsUp` is the deletion of a connection, `Resets` is
`reset()`, which forgets the session without leaving it.

`shared`, `spread`, `misled` and `taken` are history. The first two name the
cases in which the code does not keep the promise: two commands that have had
one controller at the same time, and a controller that became the memento of
two.

## 4. Runs

| Run | Instance | Distinct states | Shows |
| --- | --- | --- | --- |
| `pipe_reader` | buffer of 3, reads of 1 and 3, stream of 3, `::read()` may fail; clients that make any call at any time, that read in their slot, that only call `read()` | 474 173 | bytes, end of stream, wake-ups; waiting calls return; who reads on sees the end; no deadlock |
| `pipe_writer` | buffer of 2, writes of 1 and 3, 5 bytes, pipe of 2, `::write()` may fail, peer may go | 15 126 | order, flushing, assertions, wake-ups, calls return |
| `pipe_pair` | read buffer 3, write buffer 2, pipe of 1, 3 bytes | 52 137 | refinement of `ByteChannel`, delivery |
| `keycache_refresh` | two protocols with a key each, 2 changes, 2 failed listings, 1 cancel, 2 callers waiting | 233 456 | watchers, what may be overlooked, faithful refreshes, callers return, cache catches up |
| `keycache_slot` | the same with one change and one caller | | finding 1 |
| `assuan` | 3 commands, 6 switches of the crypto commands | 82 314 | refinement of `CommandServer`, answers, starts, life of the connection |
| `assuan_leaving` | 2 commands | | finding 2 |
| `keylist` | every forest of 4 certificates, issuers found at any time | 36 747 up to symmetry | nothing is lost, tree, row signals, moved rows |
| `smartcard` | 2 commands, 2 changes or updates, 1 receiver deleted, 1 failure | 625 009 | refinement of `CommandQueue`, wake-ups, who is told, the widget catches up |
| `tasks` | 4 tasks, two of them with one target, 3 runs each, 2 failures, restarts after all are through | 159 648 | `done()`, true results, no file replaced unasked, every task reports |
| `tasks_restart` | the same tasks, 2 runs each, 1 failure, restarts at any time | | finding 3 |
| `session` | 2 connections, 1 session, 3 commands, 2 SESSION or RESET lines | 562 608 | whom mail is encrypted for, what mementos give, answers |

Why these bounds are enough to be of interest:

* A ring buffer of 3 holds 2 bytes. With reads that ask for 1 or 3, and 3 bytes
  of stream, both pointers wrap, the buffer is full and empty in turn, a copy is
  cut at the end of the array, and both resets to 0 happen. Bytes are numbers
  that never enter a guard. The proofs cover all sizes.
* A write buffer of 2 with writes of 1 and 3 shows a write that is cut, one that
  finds the buffer partly full, and `::write()` that writes a part because the
  pipe is full or short; 5 bytes make at least three fillings.
* Two protocols are all there are. One key of each tells a listing that has
  seen a change from one that has not; the safety proofs hold for any number of
  keys. Two changes, two failures, one cancel and two callers are the least with
  which each pair of them can overlap.
* Three commands are one in the background, one current and one still to come.
  Six switches are on, off and on again twice over, with an end in either state.
  `StartedOnce` speaks of fewer than three switches: on, off and on again while a
  command waits leaves two bottom halves queued for it, and the second one starts
  it again. The model has these states, and all other properties hold in them.
* With four certificates there are chains of four, two trees of two, and a
  certificate in the middle that comes last. They differ in nothing but their
  names, and no liveness is checked, so states are counted up to permutation.
* Two commands for the card are enough for one to finish while the other one's
  signal is queued, and for a slot inside a slot; two changes are one that is
  seen and one that comes during the update for the first.
* Two tasks with one target fight for it; the third has its own, the fourth has
  no output at all. Three runs are one, its repetition and the repetition of
  that; two failures let a rename fail after a start has.
* Two connections and one session are what sharing takes. Three commands are a
  preparation, one that takes it and one that finds it taken; two switches let
  each connection enter once, or one enter and reset. The safety properties of
  this run have also been checked with four commands (10.3 million states).

Deadlock is checked except where the system really may stop: a connection that
is gone with all commands through (`assuan`, `session`), a monitor that is idle
or gone (`smartcard`), tasks that have all reported (`tasks`). In the pipe
modules the end is an explicit `Terminated` step, so that any other halt is an
error.

## 5. Fairness

* *Pipe devices.* The threads run, and a client that is inside a call goes on
  (`ReaderRuns`, `WriterRuns`, `ClientContinues`): the operating system
  schedules them, and every mutex is held for a bounded time. `::read()` and
  `::write()` failing, the peer writing or closing and a client making a call
  are never forced, except that the client of a policy other than `"any"`
  keeps to its policy: that is what the policy says. In the writer's run the
  peer, if it does not close, reads on. Waits with a timeout may end at any time.
* *Key cache.* The event loop delivers what is queued and gpg comes to an end
  (`JobRuns`), the watcher's notice and timer are delivered (`WatcherRuns`), the
  auto-refresh timer fires (`AutoReload`, only in a run with it). A nested loop
  that was told to quit returns (`LoopReturns`, strong: other events may
  disable it for the moment any number of times, `QEventLoop::exec()` still
  returns after the event at hand). Changes, calls and cancels are not forced.
* *Assuan.* The event loop reads what is on the descriptor and runs bottom
  halves, and commands come to an end. Clients need not send or leave; switching
  the crypto commands is not forced, so `Answered` speaks of runs in which they
  stay enabled in the end.
* *Smart card.* Both threads run, the notice of a watcher is delivered, and
  message boxes are closed in the end (`ThreadRuns`, `GuiRuns`). Nobody has to
  start the monitor, ask for anything or stop it.
* *Tasks.* Every job ends, a queued error is delivered, a message box is answered
  (`Progress` of each task). Starting is not forced. Fairness is per task: a box
  below another one becomes answerable when that one is closed.
* *Sessions.* Timers fire, the user picks certificates or closes the dialog
  (`Advances` of each connection), and a controller comes to an end
  (`ControllersEnd`).
* *Key list.* No liveness is stated: one call of `doAddKeys()` is a loop over a
  finite vector.

## 6. What is proved

All proofs hold for every value of the constants that satisfies the named
assumptions of the module: buffer sizes of at least 2 and 1, finite sets of
certificates, protocols, tasks and connections, session ids and bounds that are
natural numbers, `NoCommand`, `NoIssuer`, `CardError`, `Unknown` and the owners
of old files being none of the values they are told apart from. Whatever is only
proved under a further condition says so below.

* **`KDPipePairProofs`**, the reading half. `TypeCorrect`, then
  `NothingLostOrReordered` (`StreamIsIntact`). `StreamIsIntact` says where each
  undelivered byte is; it is not inductive, because it does not say that
  `::read()`, which runs without the mutex, still has the room it was given when
  it comes back. `DataInv` adds that (`ReadHasRoom`: the room was computed from a
  read pointer that may have moved since, but only away). The arithmetic of the
  ring is in lemmas on `%` that the steps cite. `TheEndIsTheEnd` and
  `NoLostWakeUp` follow from `WaitInv`, which adds two parts. `EndInv`: after end
  of file or an error the thread does not read again, so an empty buffer stays
  empty, which is what the two flags that remember "empty" rely on. `WakeInv`:
  who sleeps on which condition, and that a sleeping consumer for whom something
  is readable has the thread on its way to `notifyReadyRead()`.
* **`KDPipeWriterProofs`.** `TypeCorrect`; `NoAssertionFails` and `NoLostWakeUp`
  from `ControlInv`: how far thread and client have come (`ThreadInv`), that
  there is something in the buffer only while the thread runs and `close()` has
  not come past its wait (`BufferInv`), and who sleeps with what in the buffer
  (`SleepInv`). `NothingLostOrReordered` and `CloseFlushesAll` from `DataInv`:
  what the buffer and the pipe hold, and that, while the mutex is released
  around `::write()`, the part already written is counted neither twice nor not
  at all (`Balance`).
* **`KDPipePairProofs`**, the pair. The lemmas of the reading half are stated for
  a peer that appends to the stream (`PeerAppends`), which covers the free peer
  of `KDPipeReader` as well as `::write()` of the other device's thread;
  the invariant of the writing half comes from an instance of
  `KDPipeWriterProofs`, whose peer may take bytes and close in any way the
  reader does. So each half keeps its own invariant, and `PairInv` joins them
  with the one fact neither has: the writing end closes in `close()` only.
  `PairKeepsBothHalves` is what follows for both devices at once
  (`BothHalves`), `PairImplementsChannel` (`PairIsAChannel`) the refinement:
  what `writeData()` accepts and `readData()` returns are steps of the channel,
  and everything the two threads do in between is a stutter. It needs that no
  end of file is reported before the last byte, which takes `EndInv` of the
  reader and `Balance` of the writer together.
* **`KeyCacheRefreshProofs`.** `TypeCorrect`; `RefreshesAreFaithful` from an
  invariant for each key: whatever a listing has read, or the job gathered,
  differs from the keyring about this key only if it changed since;
  `WatchersAreBack`, whose invariant is that only a canceled job lets go of the
  watchers (it needs `cancels = 0`: after a cancel they may really stay off until
  the next refresh); and `OnlyBlindChangesAreOverlooked`. For that one,
  `RefreshInv` follows a change on its way (`OnItsWay`): from the watcher's
  notice to the delay, from there to a job that has not begun, to a listing that
  has not read; what is nowhere on it happened while the watchers were off.
* **`AssuanConnectionProofs`.** `TypeCorrect` and five properties, four of them
  from one invariant: for each command, that nothing happens to it before it was
  sent (`Fresh`), that what was written out was neither canceled nor delivered
  before (`Delivery`), that it is in at most one of line, slot and background
  (`Line`, `Slot`), and the number of its answers; and `KeptForBackground`.
  Stated per command, each step is checked for the command it is about and for
  any other. `NoneStartedTwice` needs `StartInv`: as long as the crypto commands
  have been switched fewer than three times, either at most one bottom half is
  posted and none once the command has been started (`Posted`), or the second
  switch has turned them off for good (`Off`). `ConnectionKeepsPromise`
  (`KeepsPromise`) is the refinement of `CommandServer`, by cases on the action:
  those that touch nothing the client can see stutter, and for each other one
  the invariant gives the guard of its abstract step.
* **`HierarchicalKeyListProofs`.** `TypeCorrect`, `NothingIsEverLost`,
  `TreeIsAlwaysRight`, `ViewAlwaysFollows`, `MovedRowsAlwaysMatch`, all for
  issuers that are found at any time. `NothingIsLost` is not inductive: it does
  not say what waits in `mKeysByNonExistingParent`. `IInv` does. A record has the
  issuer gpgsm gives now or none (`KeysInv`); subjects are below an issuer that is
  there (`SubjectsInv`); what waits is at the top level and its issuer is not
  there (`WaitingInv`), and nothing else with an issuer is at the top level
  (`TopInv`); every key has a row (`ShownInv`); a record with an issuer is among
  its subjects or waits for it, except for one that came again and that the loop
  has not come to (`AttachedInv`). `StaleInv` says what `relisted` is about, and
  `NoLoop`, from acyclicity, that no two certificates issued each other, which
  keeps the orphans of step 1 from being the issuer of step 2. The work is in
  `AddNextEffect`, which says element by element what one step of the loop leaves
  in each vector; the parts of the invariant and the rows follow from it. So
  types need the whole invariant: that the loop takes no record out of
  `mKeysByFingerprint` rests on what waits being in it.
* **`ReaderStatusProofs`.** `TypeCorrect`; `NoLostWakeUp`, which is inductive
  with the types; `CommandsInOrder` (`OrderInv` adds that no more are taken than
  were started); and `AnsweredOnce`. A command that has been performed travels
  from the thread's hand to the finished list, to the list of one running slot,
  to its receiver. `AnswerInv` says that it is in one of these places only
  (`InHand`, `FinishedInv`, `FramesInv`, `ToldInv`), that nobody has been told
  while it is there, and that its own signal is the first of those queued unless
  it was late (`SignalsInv`, `InTime`). That last part is what makes "the error
  of the signal" the right one. `MonitorServesInOrder` (`ServesInOrder`) is the
  refinement of `CommandQueue`. It needs two facts more: while a command waits
  to be told of, a signal of it or of an earlier one is queued, so that what a
  receiver is told is never about a later command (`EarlierInv`); and between
  `stop()` and the end of the thread the end is the first thing in the queue,
  so that nothing is begun any more (`StopInv`).
* **`TaskCollectionProofs`.** `TypeCorrect`, with the facts about message boxes
  that the types need; `DoneIsRight` from `Counted`, that the count is the number
  of tasks that are through and that both flags say whether these are all.
  `DoneIsRight` assumes `RestartPolicy = "alone"` and that there is a task: with
  `"any"` it is false (finding 3), and a collection without tasks never says
  that it is done. `NeverReplacedUnasked` and `ResultsAreTrue` rest on lemmas
  about what the ends of `finalize()` do to the files (`Wrote`, `Failed`);
  `ResultsAreTrue` needs that a file never holds a later run than the one its
  task is in (`Past`), that a run that has not succeeded has left nothing there
  (`Fresh`), and what a finalized output stands for (`Final`).
* **`EmailSessionProofs`.** `TypeCorrect`; `FoundIsResolved` (`FoundInv`: every
  memento names a controller that is ready, and no step takes that back);
  `OnlyForTheRightPeople` (`OursInv`: a memento of a connection is a controller
  it made itself, one of a session was registered in that session, and
  recipients of a controller never change); `InUseIsReferenced`, which no run
  checks: a session that is in use is never up for collection, however the
  reset leaks references; `SuccessIsOwn` (`AloneInv`: a controller that two
  commands have never shared has one user, and that one is at work when it is);
  `ServesOnce` (`OnceInv`: a controller that has been in one place only is in
  none once it was taken).

## 7. What is only model-checked

Liveness (`CallsReturn`, `ClientFinishes`, `PairDelivers`, `CallersReturn`,
`CacheCatchesUp`, `Answered`, `LeftIsDeleted`, `EveryoneIsTold`,
`DisplayCatchesUp`, `EveryTaskReports`, `EveryCommandEnds`) and freedom from
deadlock are out of the proof system's reach (fairness and `ENABLED`) and stay
with TLC. Every safety property that a passing run checks, the three refinements
included, is also a theorem, some of them under conditions that section 6 names.
`DeliveredOnce`, `InOrder` and `ToldOnce` are proved without a run of their own:
what they say of answers and commands is part of `KeepsPromise` and
`ServesInOrder`.

## 8. Findings

Each of these is shown by the run that checks the sentence of the source it
contradicts; `PROJECT.json` quotes them.

1. `keycache_slot`: a slot of `keysMayHaveChanged()` that reads the cache during
   the first refresh waits in an event loop for its own caller
   (`L/models/keycache.cpp:934`, `1124`). `CertificateSelectionDialog` has one.
2. `assuan_leaving`: a client that hangs up just before its command is done ends
   the server for everybody: `done()` cannot write and calls `qFatal()`
   (`K/uiserver/assuanserverconnection.cpp:1465`).
3. `tasks_restart`: a task that is started again from its result while another
   one still runs is counted twice, which the assertion of `allTasksCompleted()`
   excludes (`K/crypto/taskcollection.cpp:87`).

Seen while modelling; the models have these steps, and the properties name them
as exceptions where they would contradict them:

* `waitForReadyRead()` on a device whose buffer is empty reaches
  `Q_ASSERT(false)`; a release build waits on a condition that nobody will
  signal (`K/utils/kdpipeiodevice.cpp:554`).
* A command that was canceled before its bottom half ran is started afterwards
  if the connection is kept by another one in the background
  (`K/uiserver/assuanserverconnection.cpp:318`).
* Switching the crypto commands on, off and on again while a command waits posts
  two bottom halves for it, and the second one starts it again
  (`K/uiserver/assuanserverconnection.cpp:1083`).
* A certificate without a known issuer that is listed again with one is shown
  twice if that issuer is there, at the top level and below it
  (`L/models/keylistmodel.cpp:782`), and when it is removed only one of the rows
  is announced. `NothingIsLost` and `ViewFollows` say what holds all the same.
* RESET forgets the session without `exitSession()`, a second SESSION overwrites
  the first, and the timer that should collect sessions is connected to nothing:
  sessions and their mementos stay until the program ends
  (`K/uiserver/sessiondata.cpp:82`).
* ENCRYPT without PREP_ENCRYPT always fails with an internal error, although the
  lines after the assertion deal with that case
  (`K/uiserver/encryptcommand.cpp:114`).
* PREP_SIGN with a prepared controller registers it once more, in the session if
  one was entered since: it is then the memento of the connection and of the
  session, and one ENCRYPT does not use it up
  (`K/uiserver/prepsigncommand.cpp:168`).
* Two commands that finish before the first signal is delivered both get the
  first one's error (`K/smartcard/readerstatus.cpp:423`).
* `gpgagent_transact()` dereferences a null pointer when no context could be made
  (`K/smartcard/readerstatus.cpp:165`, `520`).
* A decryption that is started again after it failed reports success without
  having written a file: its output counts as finalized
  (`K/utils/output.cpp:264`).

## 9. What is not modelled

* *UiServer.* A list of connections; its slots run to their end in the one event
  loop. `waitForStopped()` is in the list of hazards.
* *The six indexes of the key cache and the searches in them.* Merges and binary
  searches over sorted vectors in single calls on one thread.
* *Paths, black- and whitelists of FileSystemWatcher.* What `QFileSystemWatcher`
  forgets when a file is replaced is decided outside this repository.
* *The flat key list model.* A sorted vector with one operation at a time.
* *Checksum verification.* One thread that runs external programs and looks at
  one flag.
* *Clipboard, process and pipe outputs, inputs, logging.* Wrappers that have
  nothing to take back.
* Jobs of QGpgME, gpg, gpg-agent, libassuan, D-Bus and the file system: not in
  this tree, or other processes. Where a modelled part uses one it is an
  environment that may answer at any time and may fail.
* The controllers behind the UI server's commands, `Task::start()` and the
  commands of the main window: their sources are not in the tree.
* The Windows branches of `KDPipeIODevice`, `FileOutput` and the server.
* Widgets, dialogs, configuration pages, formatting, parsers, comparison of
  names: most of the tree. They hold no state that survives a call, or state
  that is only shown; what could be wrong in them is a string, not an order of
  events, and a model of them would repeat them line by line. This is why the
  modelled lines are a small share of the whole.
