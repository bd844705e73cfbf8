# A verification development for Haikonnect

TLA+ modules, TLC runs and TLAPS proofs about the remote-access agent in this
repository. Haikonnect is a port of the DWService agent to Haiku: a Python
process (`core/agent.py`) that a service keeps running, that holds a web socket
to a server, opens one more per remote session, loads apps (desktop, shell,
files, ...) that serve those sessions from threads and child processes, and
replaces its own files when the server has a new release.

Everything here is translated from the code. Where a model leaves something out,
the section of its module says so, and the sections *Limits* and *Not modelled*
at the end collect the rest.

## 1. Inventory

| part | code | state | operations | what is hard | what makes it correct |
|---|---|---|---|---|---|
| Web sockets | `communication.py` 1573-2030 | closed and shut-down flags, handlers, two threads | open, shutdown, fire_close | two threads find the end of one socket | on_close runs once; an orderly end is not a loss |
| Connection | `agent.py` 2134-2333 | `_raw`, `_recovering`, `_destroy`, handlers | open, set_events, send, close, recover | recovery against close, loss, senders | every socket is somebody's; every sender comes out; the owner is told once |
| Messages | `agent.py` 2400-2602 | buffer, `_lastreqcnt`, kept responses | on_data_message, _check_recovery_msg, send_response | requests and responses lost with a socket | a request is run once or skipped; a response arrives |
| Task pool | `communication.py` 768-811 | bounded queue, workers | execute, destroy | blocking puts under locks | tasks end |
| Sessions | `agent.py` 1937-2128, 2716-3106 | `_sessions`, update status, apps' state | open, close, close all, request | tasks, readers and main thread | no ghost session; none during an update; apps told once |
| Update | `agent.py` 834-1161, `updater.py`, `dwagupd` | files in four directories, status file | download, publish, apply, undo, finish | stops and failures between moves | nothing lost; one release; the agent comes back |
| IPC streams | `ipc.py` 711-1019 | two rings in shared memory | write, read, close | boundaries, blocking, two processes | bytes in order; an end after all bytes |
| IPC primitives | `ipc.py` 34-678, 1053-1481 | semaphores, waiter counts, lists of names | wait, notify, acquire, name, unlink | lost wake-ups, crashes | a notified waiter wakes; what exists is named |
| IPC processes | `ipc.py` 1483-2578 | config file, status bytes, child, console | start, alive, destroy, follow the console | start against timeout, orphans | no child without a parent; the right user's screen |
| Main loop, files | `agent.py` 60-260, 1160-1850 | configuration, keys, nodes, flags | read, connect, remove key, restart, stop | the listener changes what the loop reads | no removed key presented; files survive crashes |
| Listener, monitor | `listener.py`, `ui/monitor.py` | a mapped mailbox, window and icon | request, answer, poll | two processes, no lock | a request run once, answered to its asker |
| Libraries | `agent.py` 1850-1912 | reference counts, files | load, unload | dependencies, failures, crashes | loaded exactly while counted, of one version |
| Transfers, socket poll | `communication.py` 1013-1571, `agent.py` 3526-3965 | sockets, flags, counters | start, exchange, keep, complete | late answers on kept sockets | a socket has one user, who reads its own answers |
| Proxy | `communication.py` 300-560 | one detected proxy for all threads | detect, connect, give up | threads overlap | the user's choice is kept to |
| Channels, simulated sockets | `communication.py` 2040-2236, `agent.py` 2335-2398, 3108-3965 | connections by id, buffers | get, frame, post, close | pieces cut anywhere, closing | order; one end told; counts taken back |
| Desktop app | `app_desktop/` | capture and encoder processes, pictures, sound, inputs | capture, encode, acknowledge, input | four processes and a slow client | the picture is whole, the client answered |
| Shell and file apps | `app_shell/`, `app_filesystem/` | managers, shells; trees | open, recover, close; copy, move | lost web sockets; failures inside a walk | no orphan; done when told so |
| User interface | `ui/` | pages, windows, focus, text box; the installed files | install, run, configure, edit | threads against event loop; kills | windows come back; what is registered is whole |
| Services | `os_win_service`, `os_haiku`, `os_linux` | pid, start and stop files, status | start, stop, watch | restarts, handlers in other threads | a stop is honoured; the light is right |
| Haiku input | `os_haiku_input/` | pressed buttons and modifiers | events of a request | a queue that refuses | nothing stays pressed |
| Others | other apps, `lib_*`, `make`, macOS | little | | I/O | |

How they interact. A connection's reader thread calls `Message.on_data_message`,
which puts tasks on the agent's pool (50 places, 30 workers); the tasks run
requests, open and close sessions and send. The end of a socket is reported by
its reader or its alive check through `fire_close` to `Connection._on_close`,
which recovers it in that thread or reports the end to the agent or the session,
which puts a close task. The main thread reconnects, updates when no session is
open, and closes all sessions at the end. Apps reach child processes over
`ipc.Stream`s, and their clients over web sockets, simulated ones where web
sockets do not pass, and transfers over HTTP. The user interfaces talk to the
agent by a mapped file and by `config.json`. An update crosses processes by
files: the agent leaves, the service runs `updater.py`, the agent starts.

`PROJECT.json` lists each part with its status, and each hazard at its line with
the properties aimed at it or the reason there is none.

## 2. Plan

Done, the most important behaviour first: the connection and its recovery; the
sessions and the messages; the streams; the update; the primitives and processes
of the IPC; the agent around its sessions; what sessions send beside messages;
the desktop app; shells and files; the user interface; the services and add-ons.
Then the proofs of section 6, the core's safety first.

## 3. Modules

Operators whose comment begins with *mutant* are plausible bugs in the operator
that follows. They are no part of a specification; each property of a passing
run has one that violates it.

A step is what the code does without another thread or process being able to see
the middle of it: a section under a lock, or one assignment that others read.
Crashes, failures and what the network, the server, the user and the operating
system do are actions of their own.

### The agent's core

`WebSocket`, `Connection`. A socket has a reader and an alive thread (`Kinds`),
each in its loop, past it (`stopping`), in `fire_close` (`firing`) or done;
`closed`, `down`, `lost` and `handlers` are the fields of
`communication.WebSocket`; `link` is what the other end does. `Connection` adds
the constructor's thread (`opener`), the thread that calls `close()` (`closer`),
senders, and for each socket the call of `_on_close` that its end made (`cb`):
entering recovery, testing, retrying, assigning, settling, failing, reporting.
`early` records that a socket opened by a recovery was lost, and its `_on_close`
had looked at `_raw`, before it was assigned to `_raw` (`agent.py` 2245). `_raw`
is then still the lost predecessor, both calls recover, and the later assignment
wins: the connection may keep a dead socket and forget a live one.
`NoOrphanSocket` and the liveness properties leave these behaviours out.

`ThreadPool`, `Sessions`. `execute` blocks while the queue is full. A session is
in `sessions` from the end of `open_session` to its close task or
`_close_all_sessions`; its connection is reduced to *up* and *ended* with one
call of its handlers, which is what `Connection` shows. `locked` is TRUE while
`_close_all_sessions` holds the semaphore: it is the only one that blocks while
holding it. `stale` records a request that ran after its session's end was told
to the apps. Nothing prevents it (`invoke_app` does not look at the session), and
what the app then creates stays until the apps are unloaded; `AppStateOwned`
leaves it out. `UpdateEnds` is possible whatever the download did: `Updater` has
the details.

`MessageRecovery`. The connection is reduced to *up*, *lost* and *down*; a loss
keeps a prefix of what is under way in each direction. A message has one frame
or two. The two readers that a recovery may have at a time share one buffer
(`temp`). The server is external: it numbers requests and recovery messages, and
starts a recovered socket with a recovery message whose `cntRequestReceived` is
the end of the contiguous prefix that is answered or skipped. `raced` records
that a reader was at work while the recovery was: the old one when the loss was
noticed by the alive check, or the new one before `_on_recovery` had cleared the
buffer. `on_data_message` has no lock against either, and TLC finds behaviours
where a message is put together of two sockets, run twice, or run and skipped.
`ExecutedOnce` leaves these out, so what it shows is that nothing else breaks it;
`ResponsesKept` does not need to.

`ByteStream`, `StreamIPC`. `pw` and `pr` are the two cursors of each ring, from
its start; `cell` its cells; bytes are told apart by their place in what was
written. `Space`, `Limit`, `Remain`, `Piece1` and `Piece2` are `szspace`,
`szlimit`, `szremain` and the two pieces of an iteration of `write`. The
Condition is a lock kept over the iterations of a loop and given back by a wait
or a return; its waits are for a second, so that nobody depends on a notify.
`OpenFirst` is TRUE where side 1 leaves the stream alone until the other process
has opened it, as the agent's users of streams do; with FALSE
`ImplementsByteStream` is violated (section 7). A stream nobody has opened is not
read in the model: the cursors of its second record are not initialised.

`Updater`. A file is a number, the release it is from; `installed`, `staged` and
`old` are the agent's directory, `update` and `updateOLD`. A package stands for
the files of one zip. Steps are single moves and removals, so that a stop
(`Crash`) may come between any two, and a failure (`ApplyFails` and the others)
instead of one. `hand` is the file between its two moves. `hurt` records a stop
while files were displaced or a failure that was not undone: in those behaviours
files of two releases may stay side by side, for `updateOLD` may keep a file that
a later run puts back over a newer one.

`Monitor`, `ConditionIPC`. A thread is in one operation at a time; the steps of
`wait` and `notify` are cut where they touch `woken` and `wait_semaphore`
without the lock. `Monitor` is what a condition promises: a notification reaches
those who were in a wait when it began.

`Process`, `ActiveConsole`. The parent's `start` with its 15 s timeout, the
manager that looks for dead children, the child's main and its thread, which
talk by the two status bytes, pids and the alive time of `ProcessConfig`; on
Linux, the searches for the display and the authority of the active console's
user, each of which may find what the former did not.

`SharedNames`. `rls` is each process's list of what it created; `emptied` the
processes whose list is open for writing; `life` where a name is between being
listed, created, destroyed and unlisted.

### The agent around its sessions

`JsonFile`: `write_json_file` copies the file to `.bk`, writes it and removes the
copy; `read_json_file` repairs from the copy. `Listener`: the fields of the
mailbox hold the client they belong to. `AgentMain`: the loop of `start` and
`_run_agent`; `loadFlags` are the flags the listener sets under
`_config_semaphore`, `config` the file, `refused` the keys that the server said
are removed. `Libraries`: `calls` is the stack of loads and unloads that a call
makes for dependencies. `Service`: `ServiceMain` and the control handler of the
Windows service, the pid, start and stop files, and an agent that reads them.
`Overwritten` is a STOP handled after the service has said RUNNING and before
ServiceMain sets `bRunning` (`main.cpp` 949-954), which takes the stop back.

`Transfers`: a thread per transfer, from its accept over `get_socket`, the check
of a kept socket, request, body, answer, to `disconnect`, `_on_complete` or
`fire_except`; `idle` is the poll's list; `abandoned` records an exchange that
gave up with part of its answer unread but without an error of the socket, which
goes back to the poll (`AnswersOwned` leaves these out). `ProxyConnect`: the ways
a connection may take, and the detected proxy all threads share. `HttpSocket`:
the long poll, GET and POST in turns. `Channels`: a connection of the pool and
its transfer, from accept to the end that its reader, the session or itself
brings. `lateAccept` records an accept after the loss was told or the connection
closed. `AppSockets`: the two readers of a byte stream cut anywhere; of each byte
(`Cell`) it keeps which of its frame it is, and for the first of a length its
value. `Handed` is what the code hands over of a frame of an older server: the
bytes from the sixth on, as many as the length says, and the sixth as the type, which
is the fifth (`agent.py` 3243-3245).

### The programs beside it

`Capture`, `Desktop`, `DesktopSession`, `Screen`, `SoundRing`, `Inputs` are the
desktop app: the capture process and the thread of the agent that keeps it, the
sessions that share it, one session with its encoder, reader and client, what the
client's picture is made of, the ring of sound, and inputs and clipboard.
In `Screen`, an image that fails is only marked in its slot (`capture.py` 351-369);
the library keeps its last image, so that the mark stays until the screen changes
(`Marked`). In `Shell`, `unnoted` says that a shell whose start failed after the
fork and before its pid was noted has left a process.
`Shell`, `Files` are the apps of those names. `Installer`, `OnFly`, `Configure`,
`Tray`, `Focus`, `TextBox` are `ui/`; `TextBox` (a cursor and two selection ends
that each key moves separately) refines `Editor` (a caret and an anchor).
`HaikuInput` is the input-server add-on, `HaikuService` the service script, its
helper and the Deskbar replicant.

### Instances and proofs

`MCCore`, `MCAgent`, `MCPrograms` and `MCDesktop` put parts that do not touch each
other's state side by side: `part`, chosen in the initial state, says which one
runs, and their `..Spec`s which parts a run has. A part that is proved about is
extended, the others are instantiated: `MCPrograms` extends `TextBox`, `Focus`,
`Shell`, `Installer` and `Files`, `MCAgent` also `Libraries`, `MCDesktop` extends `Capture` (which extends
`Desktop`, `Screen` and `SoundRing`). `CoreProofs` extends `StreamIPC`, `SharedNames`,
`Updater`, `Sessions` (and with it `ThreadPool`), `MessageRecovery` and
`ConditionIPC`; `AgentProofs` extends `Connection`, `ProxyConnect`, `JsonFile`,
`Listener`, `AgentMain`, `Channels` and `Transfers`. The theorems about `Libraries`,
`TextBox` (which extends `Focus` and has its theorem too), `Shell`, `Installer` and
`Files` stand at the end of those modules, those about the desktop app's capture,
sessions, picture and sound at the end of `Capture`.

## 4. Runs

| run | question | bounds | why they are enough |
|---|---|---|---|
| `connection` | safety and progress of recovery | 2 sockets, 1 sender | a socket that recovers and one recovered, lost in turn; the sender waits for either |
| `core` | streams, messages, update, sessions | rings of 3 and 2 cells, 4 bytes a side, writes up to 3; 2 requests, 1 loss; 2 packages, 2 releases, 1 stop, 2 failures; 2 sessions, one of which makes requests; 2 workers, a queue of 3 | each ring is gone around, full, empty, written in two pieces; a gap, a kept response and a recovery message meet; an update, its undoing, one over it; two workers on one session and on two |
| `core_live` | do bytes arrive, does closing all end? | the same rings; 2 sessions, 1 worker | all tasks behind one worker, a place for each close task |
| `ipc` | children, conditions, the console | 2 children sharing an object; 3 threads; 2 consoles, 3 changes | one child dies, closes or starts while the other holds; a waiter, a notifier and one between |
| `agent` | names, mailbox, files, main loop, libraries, service | 2 processes, 3 objects; clients of 2 and 1 requests; 2 values; 2 keys, 1 node, 1 change; 4 libraries, two over one that needs another; 2 services, 2 agents | each race needs two actors and one crash or change |
| `net` | transfers, proxy, simulated sockets, channels | 2 transfers, 2 sockets, 2 pieces; 2 callers, 1 attempt; 2 senders; 2 channels; 3 requests | a socket handed over with an answer still due; a POST and a GET; a cut in each header |
| `desktop` | captures, sessions, frames, pictures, sound | 2 libraries, 3 memories; 3 sessions; 2 encoders, 2 frames; 2 monitors, 3 events; a ring of 5, pieces of 3, 14 bytes | an unload among three sessions; the ring gone around twice |
| `ui` | installer, pages, windows, focus, text | 2 paths, 3 runs, 1 failure; 2 threads; 3 pages; texts of 3 over 2 letters | an uninstallation that fails, an installation over it and one more; every start, middle and end of text and selection |
| `apps` | shells, files, inputs, Haiku | 2 managers; trees up to 3 names deep; 3 acts; 2 buttons; 2 agents | a shell on each side of a recovery; a failure at each place of a walk |
| `stream_stall` | does a write end? | 5 bytes | violated |
| `updater_stopped` | is an OK update complete? | 1 stop | violated |
| `shell_recovery` | do shells wait for their client? | the same | violated |

The values given to instances are in the `INSTANCE ... WITH` of the MC modules.
Deadlock is not checked: every part has an end (a connection closed, a stream
closed, an agent stopped), and where it must not be reached too soon a liveness
property says so.

What each checked property says:

* `connection`: `CloseFiredOnce`, the end of a socket and of the connection is
  reported once; `RecoveringOwned`, a recovery is somebody's to settle;
  `NoOrphanSocket`, an open socket is in use or in hand; `SenderReleased`,
  `OwnerLearns`, a sender comes out and an owner learns of the end.
* `core`: `ResponsesKept`, `ExecutedOnce`, no response is dropped that the server
  needs, no request run twice, or run and skipped, or put together of two;
  `AgentWhole`, no file lost, a complete agent after up to two failures or none and
  a stop, of one release unless `hurt`; `NoGhostSession`,
  sessions are none during an update, closed when ended, told once;
  `EndMeansAll`, `ImplementsByteStream`.
* `core_live`: `BytesArrive`, `CloseAllEnds`.
* `ipc`: `IPCEnds`, a child ends with its parent or when it is told to, and
  `notify` returns; `ImplementsMonitor`; `FollowsConsole`.
* `agent`: `NamesKept`, what exists is named for the next agent and not unlinked
  in use; `RunOnce`, no more requests are run than were made; `SurvivesCrash`, what is read is what the last write wrote or
  one cut off was writing; `RemovedNotPresented`; `LoadedWhenUsed`;
  `StopHonoured`, a stop that reached the handler ends agent and service, unless it
  is `Overwritten`.
* `net`: `AnswersOwned`; `ConnectedAsTold`; `MessagesInOrder`, none is left out,
  overtaken or cut, and an old frame is off by just the one byte;
  `TransferSettled`, what ended is off the list, uncounted and without its file;
  `TransferEnds`.
* `desktop`: `CaptureFollows`, an open capture works on the memory that is shown,
  if no request was refused;
  `CaptureForSessions`, it runs for the sessions there are; `PictureWhole`, what a
  client applies are differences to the picture it has; `SoundWhole`;
  `DesktopAnswers`, a client that acknowledges gets its pictures, or the mark of
  one that failed, with one request at a time and a count of frames under way that does not drift.
* `ui`: `RegisteredWhole`, `CursorGetsKeys`, `WindowsAnswer`, `IsEditor`.
* `apps`: `NoOrphanProcess`, of processes whose pid was noted; `DoneWhenTold`, `InputsWhole`, `LightFollows`.

### What the violated runs show

* `stream_stall`: with the reader's cursor at the second cell and the writer's
  at the last, `write` finds room for a byte and writes none, and repeats that
  with the lock held (`ipc.py` 881). `SpinsForEver` proves that it never ends.
* `updater_stopped`: a stop while files are moved makes the next run put the old
  files back and apply only the rest, with status OK (`updater.py` 222).
* `shell_recovery`: output that cannot be sent between the loss of a web socket
  and its `_on_close` ends the shell that was to wait for its client
  (`shell.py` 289).

## 5. Fairness

Threads and processes that run on their own get weak fairness on their steps once
begun, and block only where the model disables them; what users, servers, the
network and failures do gets none. In particular:

* `Connection`: each socket's reader, alive check and call of `_on_close`, the
  rest of the constructor, a `close()` that has begun or follows a failed
  `set_events`, and each sender. An attempt to reconnect need not ever succeed:
  the retry loop has a timeout. Of the server only this is assumed: once the
  agent has closed a socket it answers, ends the stream or falls silent, and the
  alive check notices silence.
* `Sessions`: strong fairness on each worker, for the semaphore is not fair, but
  who takes it again and again sleeps in between; weak fairness on the readers'
  notifications and on an update, a reconnection and `_close_all_sessions` once
  begun.
* `StreamIPC`: strong fairness on each side's loops, which take the Condition in
  turns, and weak fairness on opening and on starting another read: the agent's
  uses of a stream have a thread that reads it in a loop. None on writes or
  closes.
* `ConditionIPC`, `Process`: each thread's steps within a call; the manager's
  round; the child's thread, which answers until it is killed.
* `AgentMain`, `Service`, `HaikuService`: the loops; the manager of services
  starts nothing by itself.
* `Transfers`, `HttpSocket`, `AppSockets`: the transfer's thread, whose waits all
  have timeouts; the poll's loop; the reader.
* `DesktopSession`, `Screen`, `Capture`: their threads, and a client that goes on
  showing and acknowledging what it gets; `DesktopAnswers` is about such a client.
* `Configure`, `OnFly`, `Tray`: the threads of steps, the loops, and the user's
  click on an error dialog.

A run of several parts states the fairness of each for that part's actions, which
`part` keeps disabled in the others.

## 6. Proofs

TLAPS checks the following for every value of the constants that satisfies the
assumptions named in each module (that `NoSocket` is no socket, that a ring has a cell
and so on), hence for any number of sockets, sessions, workers,
requests, clients, transfers, keys and releases, and any ring sizes. TLC
evaluates the assumptions on every run.

`AgentProofs`, `Connection` (`SocketAssumption`):

* `TypeCorrect`: `Spec => []TypeOK`.
* `ClosesOnce`: `CloseFiredOnce` is not inductive: whether a socket fires twice
  depends on its handlers, and whether the owner is told twice on how many
  calls can get that far. `Relay` says that at most one socket is *live*, that
  is, has its handlers still or a call of `_on_close` that has neither handed
  over to a new socket nor reported; and none once the end is reported.
* `RecoveryOwned`: `RecoveringOwned` follows each call's stages, with `Relay`
  to know that no second call resets what the first one set.
* `NoneOrphaned`: needs `Placed` (what each stage of the opener and of a call
  implies of `_raw`, which sockets are open) and `InHand` (a socket opened and
  not yet assigned is the live one), under `~early`.

`AgentProofs`, the rest of the agent:

* `ProxyKeptToChoice`: which way was tried is tied to the user's choice at each
  place of an attempt, whatever the other threads do to the detected proxy.
* `FileSurvives` (`ValueAssumption`): what the file and its copy hold at each
  place of a write and of a repair.
* `RequestsRunOnce` (`MailboxAssumption`): no more is run for a client than it asked
  for. A request pending in the mailbox, or
  in the server's hands, accounts for one that was asked and not yet run.
* `RemovedKeyKeptAway` (`MainAssumption`): `RemovedNotPresented` says nothing of
  the configuration or of a connection under way; `KeyInv` says at each place of
  the loop in which of memory, file and call a refused key may still be.
* `TransfersAreSettled`, but for an accept that comes too late and an upload its
  session closes (section 7): `LinkInv` ties a channel's place to its link and its
  handlers, `CountInv` its count and file to that.
* `AnswersAreOwned` (`TransferAssumption`): `PlaceInv` says that a socket of the
  poll's list is in it once, open and nobody's, and that a held one is held by
  one; `OweInv` what is still owed on a socket: at most the pieces its holder
  asked for and has not taken, all its own, and nothing on one that changes hands,
  unless it has ended and the check will find it so. Neither half of
  `AnswersOwned` is inductive alone: that an answer is its reader's own needs the
  socket to have had one user since it was clean.

* `MessagesKeepOrder` (`SendSizeAssumption`, `BatchAssumption`): `ReadWhole` says
  nothing of a stream cut in the middle. `Framed` says that what the reader has
  left and what is under way are, together, the frames not yet handed over, one
  after the other: there is an end for each, and a length where it begins. `Partly`
  says for a request which of its four parts the reader is in, and that reader and
  wire together hold the rest of it. `OneByteOff` says which bytes are handed over of
  an old frame: its data without the type, and the first of the next frame if it is
  there. For `HttpSocket`, what the server has, the
  turn and the list are, one after the other, what the app sent.

`CoreProofs`:

* `StreamIPC` (`StreamAssumption`, and `OpenFirst` for what depends on it). The
  rings are treated first as such: `RingOK` relates cursors and cells of one ring
  to the counts written and read, and two lemmas show that adding a piece that
  fits and removing one keep it. `IInv` is `TypeOK`, `RingOK` of both rings,
  `InOrder`, and that nothing is in use before side 2 opens; `InOrder` alone says
  nothing of the bytes still in the ring. From it `TypeCorrect`, `ReadsInOrder`,
  `EndsWhenRead` (an action property) and `IsByteStream`: every step is a step of
  `ByteStream` or a stutter, under `sent <- wrote`, `taken <- got`, and `shut` the
  sides that have closed. `SpinsForEver`: an iteration of `write` that writes
  nothing leaves a state in which it, and nothing that could end it, is possible.
* `NamesAreKept` (`OwnerAssumption`): what exists is in its owner's list, but while
  that is rewritten or for what is about to be destroyed, and is not unlinked in
  use. The invariant: what each stage of a name implies of its list and of the kernel, while its owner runs and after it died.

* `SessionsAreReal` (`PoolAssumption`, `SessAssumption`). `OpenInv`
  follows each open and close task through queue and workers (an ended session in
  `sessions` has a close task to come), `MainInv` the main thread's update and
  closing against `updateStatus`, `ToldInv` whom the apps were told of. The pool's
  lemmas give what `execute`, taking and finishing do to the tasks.
* `UpdateKeepsAgent` (`UpdaterAssumption`): `AgentWhole`, with the conditions it
  names: no file lost in any case, all of them there if nothing failed, or nothing
  stopped and two moves did, one release unless `hurt`. The invariant: which of the directories, and
  `hand`, a file may be in at each place of the programs, and of which release.
* `ResponsesAreKept` (`MsgAssumption`): `NumbersInv`, `HandInv`,
  `TasksInv`, `OutInv`, `SettledInv` say how far each count and each message under
  way may be, so that what `_check_recovery_msg` drops is settled. It holds also
  when readers race.
* `RequestsExecuteOnce`: in addition, under `~raced`, `BufferInv`
  (the buffer holds the head of the message the reader is in), `OrderInv` (counts
  arrive ascending), `FiredInv`, `SkipsInv` and `FreshInv` (who is run or skipped
  is below `_lastreqcnt`, and once).
* `ConditionIsMonitor` (`ConditionAssumption`): the refinement of `Monitor`, each
  step of the semaphores and counters a step of the monitor or a stutter. The
  invariant counts: `sleeping` and the woken that have not seen it yet are the
  threads in a wait, `woken` and the tokens those a call has taken out; and a call
  finds all its sleepers in their wait and only takes them out. `ConditionAsserts`,
  the assertions of `notify` and that no set of an event is missed, follows from it.

In their own modules:

* `TextBox.BoxIsEditor` (`TextAssumption`): the refinement of `Editor`. The cursor
  is always one of the selection's ends, which is what makes two ends and a cursor
  the same as a caret and an anchor; it is the invariant the steps need.
* `Capture.SoundIsWhole` (`RingAssumption`): the cells before the writer hold
  this turn's bytes and those after it the former turn's; the reader's place is in
  this turn, the former one, or has been passed by whole turns.
* `Shell.NoneLeftBehind` (no assumption), of the processes whose pid was noted: one is that of a shell of a manager
  that is listed. `Owned` ties processes to the managers' shells; `EndsAlone` says
  that a manager past its loop has none and is the only one that unlists itself.
* `Installer.RegisteredIsWhole` (`PathAssumption`): `NotRegistered` (while a
  directory is filled or removed, or a page offers to, `/etc/dwagent` names none),
  `Built` (what the directory holds at each step) and `PagesApart` (which pages lead
  to which steps). For how many runs and failures it may be: the attempt to prove it
  found a behaviour of three starts that a run with two did not have, and with it
  the exception in `RegisteredWhole` (section 7).
* `Files.ToldWhenDone` (`FilesAssumption`: above what is in a tree there are
  directories, and a permission is for a path): while no failure was noted, each
  file of the tree is in its new place, or still there and under a name that is
  `Pending`: in a directory the walk is in and not visited yet. `Nested` keeps those
  names apart from the directories the walk has entered, so that what a move removes
  when it leaves a directory is no file that is pending; `NoneMoved`, nothing new in
  the place of a pending name, is what makes it right to leave what exists without
  replace. Rests on lemmas about paths: prefixes, what is below one, the next name.
* `KeysGoToTheCursor`, in `TextBox`, about `Focus`: what was told that it has the focus is the focused
  component or one still to be taken out while a page is taken out.
* `Libraries.LibrariesAreLoaded` (`LibAssumption`: the libraries are finitely many, and
  none depends on itself, through others or not: `load_lib` would call itself without
  end). `LoadedWhenUsed` speaks of the moments between calls; inside one, counts
  and objects are ahead of or behind the references. `CountsOK` counts those: a
  library's `refcount` is the number of its references, `Refs`, those of apps that
  load or hold it and one for each place it has in the dependencies of a library that is
  loaded, being loaded up to there, or being unloaded from there on, and its object is
  there just when the count is positive; after a load that failed the count may only
  be above. `LibInv` has besides the shape of the stack of calls: each call is made by the
  one below for the dependency it has reached, of smaller depth, hence for a library
  with no other call under way. `FilesOK` is what the files are at each step of
  `_init_lib`.
* `Capture.CaptureIsFollowed`, while no request was refused: of the requests under way to the child the last is
  for the memory that is shown, or there is none and the open capture works on it;
  whatever dies, closes or falls back in between.
* `Capture.CapturesServeSessions`: a capture nobody forgot is the current one and
  has sessions.
* `Capture.PictureIsWhole` (`ScreenAssumption`): `PictureWhole` says nothing of
  what is under way. `UnderWay` says that each frame sent is a difference to what
  the client will have when it shows it, `ShownBy`, and that the last image the
  library encoded of a monitor in the view is what the client will have in the end.

Model-checked only:

* Liveness, for which the prover has no rules of fairness and ENABLED:
  `SenderReleased`, `OwnerLearns`, `BytesArrive`, `CloseAllEnds`, `IPCEnds`,
  `FollowsConsole`, `DesktopAnswers`, `StopHonoured`, `TransferEnds`,
  `WindowsAnswer`, `LightFollows`.
* What needs induction over data, which the provers at hand cannot instantiate:
  the counts of `DistanceExact` and the texts of `InputsWhole`.

## 7. Limits

* Connection: an attempt to open that fails stays in the retry loop and is no
  step; the loop's two limits are one nondeterministic end. Connections opened
  with a `ConnectionPool` get no recovery: they are `Channels`.
* Sessions: `open_session` tests `iconntimeout.is_elapsed()` without the `not`
  its comment calls for (`agent.py` 2058): it raises at once while an update is
  in progress, and waits once the time is over. The model does what the code does.
  With requests, or fewer places than close tasks, `CloseAllEnds` is violated:
  `_close_all_sessions` waits for a place in the queue while it holds the
  semaphore that the queued tasks wait for. The code's pool has 50 places and 30
  workers, so that it takes that many close tasks at once. After `destroy` the
  workers take nothing more; a task that is running finishes.
* MessageRecovery: recovery succeeds; no socket is lost while one is going on. A
  SKIP is sent once and not kept: with two losses it can go with the second
  socket. A SKIP that waits for a place in the queue holds `conn._semaphore`, and
  all may wait for each other. Responses are sent in one step, although
  `_send_conn` sends fragments unsynchronised. The server acknowledges what it has
  received; with none of its recovery messages the kept responses only grow.
* StreamIPC: the header's second record, written when the child opens the
  stream, reaches into the first cell of ring 1 (`ipc.py` 838), which
  `OpenFirst` keeps from mattering. A process that dies with the Condition held,
  and `StreamTHC`, are left out.
* Updater: the removal of `updater.status` and its writing are steps of the
  programs that do them, and only the first writing may fail. `updater.py` itself
  and the native `dwagupd` are replaced outside it and not among the files. The
  `_fix_old_*` conversions, the directories and the unpacking are left out.
* AgentMain: `remove_key` deletes whatever key the configuration has, a new one
  installed by the listener too (`agent.py` 1754): `RemovedNotPresented` does not
  forbid it.
* Files: a tree that is copied or moved onto itself, or onto a directory it is in,
  meets what it has put itself and may lose files although it is told to be done;
  `DoneWhenTold` leaves that out. So a directory moved onto itself without replace
  is skipped file by file, each of which exists, and then removed (`filesystem.py`
  394); likewise a move without replace leaves out what exists in the new place, and
  then removes it with its directory. A removal removes all or nothing, links are
  left out, and a request has one name.
* Capture: a second request to start that finds the capture open is refused
  (`capture.py` 161); `CaptureFollows` names that state as its exception.
* Screen: after an image that failed, the client of a screen at rest is not sent the
  picture again: the library reports no change, and the slot keeps its mark
  (`capture.py` 369). `DesktopAnswers` names the mark as its exception.
* Shell: `initialize` notes the pid of the forked process last. What raises before
  that, in the parent (`shell.py` 722-725), leaves a process that `terminate()` does
  not find; `NoOrphanProcess` does not count it.
* AppSockets: frames of an older server are read one byte off (`agent.py` 3243-3245):
  the app is given the first byte of the data as the type, and after the data the
  first byte of the next frame if it has come; `MessagesInOrder` says that it is just this, that frames keep their order, and
  that the next is read from its own beginning.
* Channels: an accept that comes after the loss was told, or after the session closed
  the connection, leaves a transfer that nobody counts off; an upload open when its
  session closes the connection stays open. `TransferSettled` leaves both out.
* Service: an `Overwritten` stop has no effect, and its handler waits until the
  service is killed; `StopHonoured` names it.
* Installer: when an uninstallation cannot remove `/etc/dwagent`,
  `remove_shortcuts` returns FALSE, which nobody looks at (`installer.py` 328), and
  the directory is removed all the same. An installation in that directory is then
  registered before it is there. `stale` records it, and `RegisteredWhole` leaves
  it out.
* HaikuService: an agent started while a TERM is handled before `child_pid` is
  assigned is an orphan; the properties name it.
* Transfers: nothing calls `close()` of one that runs. The server answers in order.

## 8. Not modelled

The `resource`, `logwatch` and `texteditor` apps answer one request at a time from
the operating system and keep little state. Left out in parts that are modelled:
passwords, permissions and access checks of `open_session`; the choice of image
quality, cursor shapes and permissions of the desktop app; layout and drawing of
the user interface; the installer, launchers and tray of macOS and the installer
of Windows; the active console of Windows and macOS; `set_proxy`'s validation.
Native libraries, build scripts and vendored packages are drawing, system calls
or third-party code. Encodings, TLS, the talk with a proxy and HTTP parsing are
left out everywhere.
