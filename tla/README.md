# VedioPlayer: models, checks and proofs

TLA+ modules for the encrypted video player of this repository: a Linux server
(`src/EPlayerServer/EPlayerServer`) that takes logins, and a Qt client
(`src/VideoPlayer`) that logs in and plays media through libvlc. The modules
are translated from the code; line numbers in comments and in `PROJECT.json`
are lines of the files as they stand (most are GB18030-encoded).

## 1. The system

### Server

| part | state | operations | works with |
|---|---|---|---|
| `CSocket`, `CEpoll` (`Socket.h`, `Epoll.cpp`) | descriptor, `m_status` 0..3, parameters | Init, Link (accept or connect), Send, Recv, Close; Create, Add, Del, WaitForEpoll | everything below |
| `Thread` (`Thread.cpp`) | `m_threadId`, `m_IsHover`, the static map of all threads | Start, Stop, Pause, the signal handlers | the pool, the logger |
| `ThreadPool` (`ThreadPool.h/.cpp`) | epoll, `m_server`, `m_pool`; one `thread_local` client socket per submitting thread | Start, AddTask, TaskDispatch, Close | tasks travel as 8-byte pointers through a local stream socket |
| `CProcess` (`Process.h`) | a socket pair, `m_pid` | CreateSubProcess, SendFD/RecvFD, SendSocket/RecvSocket | main, log and business process |
| `CServer` (`CServer.cpp`) | listening socket, epoll, pool, process | Init, Run, ThreadFunc, Close | accepts clients, passes their descriptors on |
| `Logger` (`Logger.cpp`) | listening path `./log/server.sock`, epoll, thread, file; one `thread_local` client per tracing thread | Start, ThreadFunc, Trace, Close | the log process; every other thread |
| `EPlayerServer` (`EPlayerServer.h`) | epoll, pool, database, clients | BusinessProcess, ThreadFunc, Received, HttpParser, MakeResponse | the business process |
| `CHttpParser`, `UrlParser` (`HttpParser.cpp`) | url, headers, body, completeness | Parser | one request |
| `CMysqlClient`, `CSqlite3Client`, `Database.h` | connection, fields, tables | Connect, Exec, transactions, Close | called by the login |

### Client

| part | state | operations | works with |
|---|---|---|---|
| `Widget` (`widget.cpp`) | list of media, `current_play`, button style, timers, full screen | clicks, drops, keys, timers | signals to `QMediaPlayer` |
| `QMediaPlayer` (`qmediaplayer.cpp`) | `stat`, `last`, a 500 ms timer | open, play, pause, stop, seek, volume | slots called by signals of `Widget` |
| `vlchelper` (`vlchelper.cpp`) | `m_player`, `m_isplaying`, `m_ispause` | prepare, play, pause, stop, text, logo | libvlc |
| `LoginForm` (`loginform.cpp`) | widgets, countdown, requests | check_login, the answer, load_config | `RecordFile`, the network, `Widget::on_show` |
| `RecordFile` (`recordfile.cpp`) | `m_config`, the file `edoyun.dat` | constructor, save, destructor | `SslTool` |
| `QStatusCheck` (`qstatuscheck.cpp`) | none | run: ends a process nobody has logged in to | a timer of `Widget` |
| `MediaMP4` (`mediamp4.cpp`), `vlcmedia` | one `QFile`, the place in the key, the path set last | open, read, seek, close | callbacks of libvlc's input thread |
| `SizeHelper` (in `widget.h`) | places and sizes of the widgets, `status` | max_size, full_size, org_size, auto_hide | `Widget`'s modes and timers |
| `SslTool`, message boxes | small | RSA, showing a text | |

### What is hard here, and what correct means

* **Thread pool.** Blocking descriptors shared by all workers through a
  level-triggered epoll; each worker acts on a snapshot others may have made
  stale; Close waits for nobody. Correct: a task that was read is run once and
  by one worker; a pool that is used keeps a worker that can work; what was
  accepted is begun as long as tasks return; nothing freed is used.
* **Threads.** Detached threads whose ids are used again, a static map nobody
  locks, an owner that looks at an id the thread is about to clear, a pause that
  waits inside a signal handler. Correct: an object that has an id has a thread
  of its own; a signal finds its own object, never another's; a stopped thread
  does not stay paused.
* **Processes.** Two forks with inherited descriptors, destructors on every
  error path, ends of socket pairs cleared by one side and used by the other.
  Correct: the log outlives the writers; everything ends; the business process
  gets clients.
* **Log.** Many tracing threads, a log process that can be killed and restarted,
  a path anybody's Close may unlink, writes whose results nobody looks at,
  SIGPIPE. Correct: no holes in a thread's records but those of failed writes; a
  sent record reaches the file if none fails; logging kills nobody; a killed log
  process can be replaced.
* **Playback.** Three layers with an idea of their own of what plays, a libvlc
  that may refuse, a toggle for pause, a timer that samples. Correct: the
  layers agree; a pause silences; a click on play starts something.
* **Window.** Three screen modes and four timers hide and show the same widgets,
  each without a look at the others; a member keeps one timer id, and Qt runs
  every timer until it is killed. Correct: what is shown for a moment has a timer
  and goes away; no timer is forgotten; title, list, places and controls fit the
  mode.
* **Media.** One reader for all media, a key place cut to 16 bits, opens and seeks
  that fail. Correct: libvlc gets the plain bytes of the medium it opened, in
  their places.
* **Login.** Countdown, button and answers in any order; a file truncated
  before it is written. Correct: one request at a time; the user shown is the
  user who logged in; the form comes back; a truncated record does no harm.

## 2. The modules

| module | models | state and actions |
|---|---|---|
| `TaskBag` | abstract: what a caller of AddTask is promised | submitted, started, running, finished; Submit, Start, Finish |
| `ThreadPool` | `ThreadPool.*` with `Socket.h`, `Epoll.cpp` and the parts of `Thread.cpp` it needs | per client: `cli`, `peer`, `sent`, `taken`, `finished`; per worker: `cur`, `snap`, `run`. Start and its failures, AddTaskConnect/Send, ThreadExit, Poll, Dispatch, Accept, AcceptFails, AcceptReset, Read, ReadEnd, ReadFails, TouchDeleted, Finish, Leave, and Close in its three steps |
| `Thread` | `Thread.*`: Start, Stop, Pause, ThreadEntry and the handlers, over ids that are used again | per object `threadId`, `isHover`; the map (`threadMap`, `keys`); per thread `os`, `arg`, `back`; signals `pending`; the `owner`'s call. Start is Create, BeginInsert, EndInsert; Stop is BeginStop, StopForgets, EndStop; Pause is BeginPause, ReadPause, EndPause; ThreadEntry is Enter, Return, ClearId, ClearMap, Exit |
| `Server` | `main.cpp` Main, `CServer::Init`, `CProcess`, the loops of both children | `pc` of the three processes, the set `hold` of open ends of the pairs; forks, failures, destructors, exits |
| `Logger` | `Logger::Start/ThreadFunc/Close/Trace`, kills of the log process | `path`, `log`, the thread (`cur`, `snap`, `data`, `hasFile`), per writer `status`, `conn`, `stream`, `traced`, what was `written` and which of it `failed` |
| `RecordLog` | abstract: what a tracing thread is promised | `link`, `queue`, `traced`, `written`, `failed`; Connect, Trace, Write, Lose |
| `Player` | buttons and list of `Widget`, `QMediaPlayer`, `vlchelper`, libvlc below | `mediaList`, `row`, `current_play`, `button`, `stat`, `last`, the record `vlc`; one action per click, the tick, the moment libvlc has opened a medium, the end of a medium |
| `Login` | `LoginForm`, `RecordFile`, `QStatusCheck` | `disk`, `saving`, `config`, `ui`, `logoButton`, `auto_login`, `enabled`, `requests`, `nick` |
| `Window` | the modes of `SizeHelper`, the title, list, speed and volume widgets of `Widget`, all its hiding timers | `mode`, `controls`, `head`, `list`, `info`, `offset`, `speed`, `volume` and their counts; `running` (what Qt runs) and `named` (what members hold); one action per click, mouse event and timer event |
| `PlainStream` | abstract: what the reader promises libvlc | `medium`, `offset`, `lost`, `got`; Open, Read, Slip, Seek, Refuse, Close |
| `Media` | `mediamp4.cpp`, the callbacks of `vlcmedia`, `vlchelper::prepare` and libvlc's input as their caller | `strPath`, `input`, `offset`, `file`, `pos`, `got`; one action per callback and per failure |
| `...Proofs` | the theorems about the module of that name: `ThreadPool`, `Thread`, `Server`, `Logger`, `Player`, `Login`, `Window`, `Media` | |
| `MC...` | the module a run names | the instance is in the cfg |

Definitions whose comment starts with "Mutant of" are not part of the models:
each is a plausible mistake in the definition it names, kept to show that a
property notices it.

Abstractions worth knowing:

* A byte stream of pointers is two counters; pointer *k* of client *c* is task
  `<<c, k>>`. Log records are numbered per thread, and a read takes any
  non-empty prefix of what has arrived.
* `epoll_wait` times out after a millisecond at most, so the loop condition and
  the wait are one step that is taken when there is something to report.
* A thread that was created but has not reached its loop is a slow thread.
* `ThreadPool` is a pool that is started once; Start after Close begins another
  behaviour of it. The client socket of AddTask is one per thread and
  instantiation of the template, for all pools (ThreadPool.h:46-49); a member of
  `Clients` is such a socket. `ReadsFail` says whether Recv may fail on a live
  connection (ThreadPool.cpp:76-80), which deletes it under its client.
* A write of the log takes its records off the queue whatever fwrite and fflush
  answer; `failed` keeps those of which something did not reach the file. A write
  may fail from any of its records on.
* Using a freed object, or NULL, ends the behaviour with `crash = "uaf"`, which
  is a state to be shown unreachable, not an outcome to be explored further.
* Records, names and passwords are members of small sets. What RSA and the
  trimming loop of `RecordFile` cannot hold is `Unstorable`; a file that cannot
  be parsed is as good as none.
* In `Thread`, glibc stores the id before the new thread runs, so the new thread
  always finds it. A join of a detached thread is refused at once, so Stop never
  sends SIGUSR2 and only clears the id. A pthread_kill or a join that is given 0 or
  the id of a thread that has ended reads memory that may be gone: the model takes
  both outcomes, `crash = "no thread"` and going on. An entry of the map that is
  NULL is as good as none. pthread_create succeeds. Walking the map
  while another thread inserts a key is undefined behaviour and ends the model's
  behaviour with `crash = "race"`. `Overlap` names the objects whose owner starts
  them again while a thread of theirs is alive.
* A byte of a medium is its place in its file and the place in the key it was
  decoded with; `PlainByte` says when the two fit. Byte values do not matter.
* Pixels are left out of `Window`: `offset` counts how often the picture was
  widened by the list's width relative to its rectangle.
* EPOLLERR is left out of `Logger`: the log server never writes to a client, so
  none of its descriptors gets an error to report.

## 3. The runs

| run | question | size of the instance |
|---|---|---|
| `pool_faults` | are tasks conserved under races, failures, ending submitters and Close; is the pool a bag of tasks? | 2 workers, 2 clients, 2 tasks each, 1 failure |
| `pool_one_client` | does the pool survive its races with one submitter, and start every task if tasks return? | 3 workers, 4 tasks |
| `pool_one_worker` | is one worker safe with submitters that come and go, and does it start every task if tasks return? | 1 worker, 2 clients, 2 tasks each |
| `server_life` | do all processes end, the log last? | 2 failures anywhere |
| `server_business` | *violated*: does the business process serve while main lives? | no failure |
| `log_faults` | does a log get a hole other than by a failed write; are backlog, sockets and epoll one queue per thread; does a killed log process come back? | 2 writers, 2 records, 1 failure, 1 kill, pools that close |
| `log_orderly` | is anybody killed, is anything lost, if the log outlives its writers? | 2 writers, 2 records |
| `player_faults` | do the three layers agree, does a pause silence, does a click start something? | 3 media, 2 refusals of libvlc |
| `login_flow` | one request, the right user, a form that comes back when it is answered? | 2 texts, one of them unstorable, 2 starts, no typing during the countdown |
| `window_modes` | does what is shown for a moment go away, is a timer forgotten, do the modes agree with what is shown? | the code's own counts: 20 ticks for the speed buttons, 5 for each timer |
| `thread_life` | do ids, map and signals stay with their objects; does Stop end a pause? | 2 objects, one of them started again early; 2 threads alive |
| `media_reads` | does libvlc get the plain bytes of the right medium? | files of 3 and 9 bytes, a key of 5, a counter of 8 values, reads of up to 4, 3 places past the end, 3 failures |

Why the bounds are enough. A race for a descriptor needs two workers, and a
third shows that the loser of one race does not block those behind it; a second
client lets a stale event compete with fresh work. Send buffers hold one
pointer (`SendCap`), so that AddTask blocks as often as it can. Two records per
writer are what a hole needs; a kill and a start afterwards are what a stale path
needs. Three media distinguish wrapping around from swapping two. Two starts of the client
are one that records and one that reads the record. `Hurried` is FALSE in the
runs: `NickIsAuthenticated` needs a user who does not type during the countdown
(loginform.cpp:96-97 asks for the name in the record, 242-243 then record what the
form shows). In `thread_life` two ids for three or more threads one after the
other make every id be used again, which is when a late signal or a late
clear meets the wrong thread; the object that may be started early is the one
`PauseIsTrue` and `StopEndsPaused` leave out. In `media_reads` the long file
exceeds both the key and the counter, so the key's place wraps both ways; the
short one stays below both. `window_modes` needs no bound: its state space is
finite as it stands. Deadlock is not checked
where the bounded system really stops (all tasks handed in, all processes
ended, a crash, all starts of the client used up); `Player` and `Window` never
stop, and there it is checked.

Fairness. `FairSpec` of the pool and of the logger asks only that the kernel
runs a worker, or the log thread, whose next step stays possible; failures,
submitters, owners and tasks owe nothing: the end of a task (`Finish`) is not
among the steps that are fair. That tasks return is therefore a premise of
`EveryTaskStarts` (`TasksReturn`), a condition on who uses the pool. The program's
own tasks do not meet it: they are endless loops (CServer.cpp:71,
EPlayerServer.h:148), each of which keeps its worker, and with two workers and one
submitting thread the second may lose the race for the listening socket and block
while the first runs for ever. A worker blocked in accept or read has no
enabled step, so fairness does not free it. `AttendedSpec` adds an operator who
starts a log process when there is none. In `Server` each process that can run
does. In `Thread` signals are delivered and the waiting loop of the handler goes
on looking; the functions threads run promise nothing. In `Window` Qt delivers
the events of a timer that runs, and the user owes nothing: `VolumeHides`
therefore excepts a mouse that keeps moving on the slider. `Player` and `Media`
state no liveness. In `Login` a save that has begun goes on, and a request is
answered at last, with an error at worst. The second is an assumption about the
server and the network, not something the code sees to: no transfer timeout is
set (loginform.cpp:229-245), and the form stays disabled by a server that accepts
and says nothing.

## 4. What is proved

`ThreadPoolProofs` proves, for all sets of workers and clients and all bounds,
from `PoolAssumption` alone (the names of descriptors differ, bounds are
natural numbers, a socket buffer holds at least one pointer):

* `TypeCorrect`: `TypeOK`, which is inductive by itself.
* `TasksConserved`: `Conservation`. It is not inductive: nothing in it says that
  a worker that is idle or holds the listening socket runs no task. `PlaceInv`
  adds this (`IdleRunsNothing`) and that no worker exists before Start
  (`OffBeforeStart`, needed because Start would otherwise wipe out a worker in
  the middle of a task). Only Read and Finish move a task (`PlaceRead`,
  `PlaceFinish`); every other step is an instance of `PlaceUnmoved`.
* `OneClientNeverLocksUp`: under the assumption of a single submitting thread,
  that stays, and a pool that stays open, `SomeWorkerFree`. The argument: there
  is never more than one event to report (`OneEvent`), so a snapshot holds at
  most one (`SnapSmall`); the worker that serves it ends the readiness that could
  block others and is itself free (`SomeoneSolid`).
* `OneWorkerIsSafe`: with one worker and no Close, `NoUseAfterFree`, because a
  worker's snapshot only names connections that are open (`HeldOpen`).
* `LongLivedIsSafe`: the other discipline under which `NoUseAfterFree` holds,
  with any number of workers and whatever calls fail but Recv on a live
  connection (`StaysReadable`): submitting threads that outlive the pool and a pool
  that stays open (`LongLived`). No stream ends then,
  so that nothing is deleted that a second worker could still touch
  (`DeletedStep`). `UndisturbedSurvives` adds that with no call failing nothing
  ends the process.
* `OneClientNeverStuck` and `OneWorkerNeverStuck`: a task in a stream always
  finds a worker that is in a task or has a step to take, if no call fails and
  nobody closes the pool (`Undisturbed`), and either the one submitting thread stays or the one
  worker is alone. The first adds `AwakeInv` to the argument for
  `SomeWorkerFree`: whoever is connected found a pool that listens with all its
  workers, and its connection is open until its stream has ended. The second
  needs `HeldReady`: what a lone worker has from epoll_wait stays ready until it
  serves it.
* `PoolImplementsBag`: `Spec => Bag!Spec`. Under `BagInv` (conservation and the
  bound on submissions) AddTaskSend maps to Submit, Read to Start, Finish to
  Finish, and everything else to a stutter.

`PlayerProofs` proves, for lists of any length and any number of refusals, from
`PlayerAssumption` alone (both bounds are natural numbers):

* `PlayerTypes` (`TypeOK`), `LayersStayTogether` (`LayersAgree`) and
  `PauseIsSilence` (`PauseSilences`, an action property), from one inductive
  invariant. What the properties lack is `Sound`: only an existing player is
  flagged as playing, and libvlc is in pause only if the flag says so. Without it a
  click that pauses could toggle libvlc back to sound. `PauseSilences` does not say
  that paused is silent, which is not so: see section 5.
* `ClickPlays` (`ClickStartsPlaying`), an action property. It needs `Obeyed`: as
  long as no call has been refused, a paused player is still there. The property
  is about libvlc as well as the flag: it is opening or playing after the click,
  unless the medium had ended and was flagged as paused. One failing preparation is enough to break that: it takes the player away and leaves the
  flag (vlchelper.cpp:85-89), and the next click resumes nothing.

`LoginProofs` proves, for any texts and any number of starts, from
`LoginAssumption` alone (the empty text is not one the user types):

* `LoginTypes` (`TypeOK`) and `NeverTwoRequests` (`OneRequest`), through
  `Exclusive`: the countdown runs only while nothing is asked and the button
  means "cancel", and a request disables the form.
* `NickIsRight` (`NickIsAuthenticated`) if `~ Hurried`, through `NameInv`: a
  request names the user of the record, and so does the form during the
  countdown. That is the assumption's only use, in the step `Type`.
* `DisabledIsWaiting`: the form is disabled exactly while a request is
  unanswered, so that every answer, and every start, gives it back.

`ServerProofs` proves, for any number of failing calls, from its assumption that
the bound is a natural number:

* `ServerTypes` (`TypeOK`) and `LogIsLast` (`LogOutlivesWriters`). The invariant
  relates each `pc` to the ends of the pairs: `PlaceInv` (the places of each
  process, and that nothing is held before the forks) and `HoldInv` (who holds an
  end of the log's pair at each place). The log's loop ends at the end of its
  stream, when nobody holds the other end; `HoldInv` keeps it that way.
* `ServerNeverStuck` and `StepsRunOut`, the two halves of termination short of
  the scheduler. `EndsInv` adds to the invariant what the ends of the pairs look
  like: a process that has ended or was never forked holds none, the log process
  holds the end it reads. Then no process waits for one that waits for it, but
  for the excepted recvmsg that never succeeds; and `StepsLeft`, the sum of
  the steps before each process, starts at 16 at most and falls with every step.

`LoggerProofs` proves, for any writers, records, kills, restarts and failures:

* `LoggerTypes` (`TypeOK`) and `LogHolesAreFailedWrites`
  (`HolesAreFailedWrites`), which is not inductive: it says nothing of the connections that are closed on one side.
  `FlowInv` does: while a connection is open and the log file is not closed,
  what was written, what the log thread has read but not written and what is in
  the stream are one sequence of numbers without a gap, ending at the last
  record traced. `FailedInv` says that only what was written can have failed.
  `ThreadInv` says when the thread exists and whose data it holds, `ServedInv`
  that what it serves is open and in its snapshot once, and `FreshInv` that a
  writer that never connected has nothing anywhere.
* `LogIsOneQueue`: `Spec => LogSpec`, the refinement of `RecordLog`. A writer's
  link is open while it is connected to a log process that has not begun to
  close (`Linked`), and its queue is what the log thread has read and not
  written, followed by its stream. A
  TraceLinks that finds a server maps to Connect, one that finds none to the
  Trace that loses the thread, TraceSends and TraceSilently to Trace, WriteLog
  to Write; a kill, Close, a failing accept and the end of a thread map to Lose
  of the writers they cut off. Accept and Recv are invisible: a record in the
  backlog or half read is in the queue.
* `TracingIsSafe` (`NoWriterKilled`) under `Discipline`: the log process closes
  after its writers, no call fails and nobody kills it. `LinkedInv` then says
  that a writer that is connected has a server until it ends.
* `LogThreadNeverStuck`, under no assumption: with nothing on its way the log
  thread is in epoll_wait, and a record of a connected writer that has not
  reached the log always finds it with a step to take. `HeldReady` says why: what
  it has from epoll_wait is ready until it is served, since it is the only reader
  and a writer that ends leaves an end of stream behind.

`ThreadProofs` proves, for any objects and any number of threads alive:

* `ThreadTypes` (`TypeOK`), `IdsAreOfThreads` (`ValidMeansAlive`),
  `SignalsFindObjects` (`SignalFindsObject`) and `PausesAreTrue`
  (`PauseIsTrue`). One inductive invariant: a live thread was made for one
  object (`ArgAlive`); signals are pending for live threads only
  (`PendingAlive`); a waiting thread finds its entry (`PausedFinds`); a thread
  that has cleared its id is nobody's (`ClearedForgotten`); the key being
  inserted, or about to be signalled, is still the object's own (`KeyIsOwn`), and
  the latter leads to the object unless its thread has let the entry go
  (`KillFinds`); an object has no id while Stop joins (`JoinForgot`); every started thread is in
  the map under its id (`MapHoldsStarted`); an object outside `Overlap` has one
  thread (`OneThread`). `Overlap \subseteq Objects` is assumed.
* `StopOpensTheHandler`, by `PausedFinds` and the fact that a thread is made for
  one object (`ThreadsAreOfOneObject`): a paused thread whose object is stopped
  finds an exit of the loop at every moment, only its own next step takes it out,
  and that step does. These are the premises of `StopEndsPaused` but for ENABLED.

`WindowProofs` proves, for all counts:

* `WindowTypes` (`TypeOK`: no timer is killed more often than started),
  `NoTimerIsForgotten` (`TimersAreNamed`), `WhatShowsWillHide` (`ShownIsTimed`),
  `ControlsComeBack` (`ControlsFollowMode`) and `LayoutFollowsList`
  (`LayoutMatchesList`). `TitleTimers` ties the named timer of the title to full
  screen, which bounds the one that is lost; `HidersAreNamed` says the same of
  the other three.
* `WhatShowsRunsOut`: what is shown for a moment has its timer with a bounded
  number of ticks left, a tick uses one up or hides, and nothing gives any back
  but the mouse moving on the volume slider.

`MediaProofs` proves, for files, keys and counters of any size:

* `MediaTypes` (`TypeOK`), `FilesFollowInputs` (`FileFollowsInput`) and
  `BytesArePlain`: `Spec => Stream!Spec`, the refinement of `PlainStream`. It
  needs `KeyOfFile` (while a file is open, `pos` is that file's), `NothingLeft`
  (no bytes from the medium before) and `Prepared` (an input starts only on a
  medium that was set). `MediaAssumption` asks for a key that is not empty.

Only model-checked: all liveness (`EveryTaskStarts`, `EverythingEnds`,
`RecordReachesDisk`, `ServerComesBack`, `FormComesBack`, `ControlsHide`,
`SpeedHides`, `VolumeHides`, `StopEndsPaused`), since proofs under fairness and
ENABLED are out of the prover's reach here. Of all but `ServerComesBack` the
safety half is proved, with the guards of the steps written out in place of ENABLED: somebody
always has a step (`OneClientNeverStuck`, `OneWorkerNeverStuck`,
`ServerNeverStuck`, `LogThreadNeverStuck`), the steps run out (`StepsRunOut`), the
form waits only for an answer (`DisabledIsWaiting`), a stopped thread keeps its
way out (`StopOpensTheHandler`), what is shown has its ticks counted
(`WhatShowsRunsOut`). That those steps are taken, and that a task
or a record gets its turn, is TLC's. What a recursively defined function
computes for every input cannot be proved with the installed back ends either;
no module here declares one. Every invariant and every action property of the
passing runs has a theorem.

## 5. Where code and text disagree

One disagreement has a run of its own: `RecvSocket` reads `pipes[0]`, which the
child has closed and set to 0; Process.h:49 says the child uses the second
socket (`server_business`). It is the reason why no client reaches the business
process.

Others were met while modelling and are noted here without a run.

* `CServer::Init` (CServer.cpp:25) calls `Link` on its listening socket without
  a place for the client; `Link` answers -2 and Init -7, before the epoll and
  the pool that the comments announce. `Server` models it so.
* The rules above `on_playButton_clicked` (widget.cpp:541-547) want the button to
  show pause while playing; a pause and a resume within one tick of the status
  timer leave it at play (qmediaplayer.cpp:221).
* The key `remember` of the record is called "remember the password"
  (recordfile.cpp:57); the password is recorded whatever it says.
* libvlc_media.h asks a read callback for 0 at the end of the stream and -1 on
  an error. `MediaMP4::read` answers `QFile::ReadError`, which is 1
  (mediamp4.cpp:83): libvlc takes one byte nobody wrote. `PlainStream` allows
  this as `Slip`, after an end or a failure only.
* The default socket parameters are called non-blocking UDP (Socket.h:27) and are
  blocking TCP, which the model of the pool relies on (a worker that loses a race
  blocks in `read`).
* libvlc_media.h:334 lets a medium be opened several times at once; one MediaMP4
  with one QFile serves all opens. `FileFollowsInput` rests on `QMediaPlayer::open`,
  which stops before it prepares (qmediaplayer.cpp:91), and on one open at a time.
* The floating text is said to move every 5 seconds (qmediaplayer.cpp:240) and
  moves every 500 ms.

Behaviours the models reach, with no statement in the repository to hold them
against:

* with two submitting threads and two workers all workers can block for good
  while tasks are queued (ThreadPool.cpp:60, 75);
* two workers can both delete a connection at its end (ThreadPool.cpp:78-79), and
  Close frees what the threads still use (28-39; Logger.cpp:45);
* `Thread::Pause` can send to a thread that has just cleared its id, or send
  SIGUSR1 before the first thread has installed a handler, which ends the
  process (Thread.cpp:47); an owner that starts an object again before its last
  thread has ended can clear the new thread's id (63). A signal that arrives
  between lines 67 and 70 finds NULL, for which line 82 is there, and the thread
  goes on to its end;
* a record whose fwrite or fflush fails is gone and the next ones are written
  (Logger.cpp:216-217);
* a pause click while libvlc still opens the medium pauses nothing and sets
  `m_ispause` (vlchelper.cpp:149-151): it then plays under the flag, and the button
  says otherwise;
* a medium that ended, was paused and is resumed stays ended: the flags say that it
  plays (vlchelper.cpp:120-128), until the next stop;
* the first full screen starts a second timer for the title and forgets the one
  the constructor started (widget.cpp:163, 1398).

The hazards in `PROJECT.json` list these and others at their lines.

## 6. Not modelled

* **The workers of the business process, HTTP and URL parsing.** The code cannot
  run: the receiving loop ends at its first call (`server_business`), and a
  client that did arrive would be dropped, because `Recv` into an empty `Buffer`
  (EPlayerServer.h:161-162) always ends in -3. A model would need inputs no state
  of the program provides. Reading it showed more of the same kind: `sock` keeps
  its value after a failing receive (104), `m_db` is shared by all workers
  without a lock (236), the comparison with "login" (224) never holds, and
  `UrlParser` leaves `m_port` uninitialised.
* **The databases.** Of `CMysqlClient` only a Connect and the creation of one
  table are reached, in the setup of the business process (`Server` has their
  failures); its queries and transactions are not. `CSqlite3Client` is made by a
  test in main.cpp:135 only. Both hand each call on to their library, one flag
  between connected and not, and what remains is the text of SQL statements. A failed open
  leaves sqlite's `m_db` set, so that IsConnected answers true and the next
  Connect -1; the MySQL client uses the result of mysql_store_result unchecked
  and does not free it.
* **`CServer::Run` and its threads.** Init never succeeds (section 5), so that
  nothing is ever sent over the pair. Deleting a `Thread` object under its thread
  is in `ThreadPool`; a failing pthread_create as well, and `Thread` leaves its
  -4 (Thread.cpp:14-15) out.
* **The log path in `Server`.** The business process's pool is a local server too,
  and its Close unlinks the log server's path (Socket.h:115); `Server` is about who
  ends when and leaves it to `Logger` (`PoolClose`).
* **Volume, seek and rate** hand one value on to libvlc. Pixels, cursors, styles,
  dragging of the window and the texts of message boxes carry no property here.
* **SQL text, HTTP text, log line formatting**: data no property is about.
* **`SslTool`'s big-number arithmetic and all vendored code** (http_parser,
  jsoncpp, sqlite3, OpenSSL, VLC) are taken at their interfaces. They are the
  bulk of the repository by lines: sqlite3.c alone is many times longer than all
  of the program's own files together.
* `src/VedioPlayer` is an empty Qt project.

## 7. Plan

1. Done, server: `TaskBag` and `ThreadPool`, `Thread`, `Server`, `Logger`, and
   proofs about all but the bag.
2. Done, client: `Player`, `Login`, `Window`, `PlainStream` and `Media`, and their
   proofs.
3. Done, abstract specifications: `TaskBag`, `PlainStream` and `RecordLog`, each
   refined by its module with a proof.
4. To prove: that each step of the server's and the pool's queues brings the
   task or record at the head nearer (a measure as `StepsLeft`, for
   `EveryTaskStarts` and `RecordReachesDisk`).
5. `Player` with the slider: seeks by the user against the position the status
   timer reports.
6. `Database.tla`: connection and transaction state of both clients, once
   something that runs uses them.
7. `Business.tla` and `Handoff.tla` (descriptors over a socket pair), once
   RecvSocket reads an end that is open: two endless tasks of a pool as in
   `TaskBag`, the one database connection, the answer; "a client accepted is
   served by at most one process".
