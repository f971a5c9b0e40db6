# PiCameleon in TLA+

PiCameleon is a daemon that shares one Raspberry Pi camera among streams,
recordings and still pictures. This directory holds TLA+ models of its
concurrent parts, the TLC instances that check them, and TLAPS proofs of every
invariant those instances check. Paths below are relative to `src/picameleon/`.

## 1. The system

| Component | State it keeps | Operations | Who calls it |
|---|---|---|---|
| Streamer pool (`streamers/streamer.py`, `streamers/base.py`) | class attributes `_available_ports`, `_picture_port`, `_portmap`, `_streamers`; per instance `port`, `is_running`, `is_recording` | `Streamer(...)`, `start`, `stop`, `take_picture`, `shutdown_streamers` | modes, trigger responses, the signal handler |
| Output holder (`outputs/output_holder.py`) | `outputs`, `outputs_to_add`, `aux_buffer`, `writable`, `rebind_wait`, `output_lock` | `write`, `add_output`, `remove_output`, `prepare_new_output`, `notify_split`, `wait_for_rebind`, `start`/`run`, `stop` | the camera's thread, a streamer, modes |
| Network serving mode (`modes/network_serving.py`, `outputs/client_socket_wrap.py`) | `socket_map`, `socket_to_stream`, `streamer_map`, `_lock`, the clients' connections | `routine`, `cleanup_output`, `_cleanup` | its runner, the writers' workers, the signal handler |
| Trigger responses (`trigger_responses/base.py`, `record_to_file.py`) | `trigger_event`, `detrigger_event`, `is_running`, `listening`, `is_triggered` | `trigger`, `detrigger`, `start_`/`stop_listening_for_trigger`, the listener | modes' runners, mode executors |
| Mode life cycle (`modes/base.py`, `mode_executor/`, `main.py`) | `is_running`, `finish_time`, `runner_thread` | `ModeExecutor.start`, `run`, `shutdown`, start-up loop, `clean_stop` | main, the scheduler's pool, the signal handler |
| Split-frame streamer (`streamers/split_frame.py`) | `stream`, `last_frame`, `event` | `write`, `stream_frames` | the camera's thread, its own |
| Network streaming mode (`modes/network_streaming.py`, `outputs/server_socket_wrap.py`) | `hosts`, `socket_map`, sockets | reconnection routine, `write` | its runner, workers |
| Network trigger mode (`modes/network_trigger.py`) | `is_triggered`, `server_socket` | `routine`, `_trigger`, `_cleanup` | its runner, a delayed thread, `clean_stop` |
| Motion detection (`modes/motion_detection.py`, `photo_motion_detection.py`, `outputs/motion_*.py`) | the detector's event, certainty counters, `motion_detected` | `routine`, `analyze`, `calibrate`, `_cleanup` | its runner, the camera's thread, `clean_stop` |
| Client package (`client/client.py`) | `current_streams`, `current_frames`, `output_holders` | `fetch_stream`, `serve_stream_receiver`, `get_next_frame`, `write_stream_into`, `remove_output_from_stream`, `stop_stream` | programs on other machines |

How they meet:

- A mode asks `Streamer` for an instance by format, resolution and options.
  Equal requests share one instance. `start()` and `stop()` are methods of the
  shared instance, and `stop()` calls the class back to return the port.
- The camera's thread writes into the instance's `WriterOutputHolder`. The
  holder's thread hands each buffer to all outputs through a pool of workers
  while it holds `output_lock`. A client's socket is such an output; when its
  write fails, the worker closes it and calls the mode's `cleanup_output`,
  which takes the mode's `_lock` and may stop the streamer.
- Modes call `trigger()` and `detrigger()` of responses they may share. A
  response's listener thread carries it out; `RecordToFile` holds a streamer of
  its own.
- `main.py` starts modes at start-up and from scheduler jobs, and stops them
  from a signal handler that does not wait for running jobs.

What is hard to test is therefore mostly who runs between two statements:
ports handed back by somebody who no longer owns them, outputs leaving while a
buffer goes out, two locks in two orders, flags tested by one thread and set by
another, and a stop that meets a start. `PROJECT.json` lists each such place
under "hazards", at its line, with the properties that watch it.

## 2. The modules

| Module | Models | Properties |
|---|---|---|
| `PortPool` | abstract: a port is free, leased to a key or reserved for pictures | the specification `StreamerPool` implements |
| `StreamerPool` | the pool, its instances, pictures, shutdown, the camera's encoders | `TypeOK`, `PortPartition`, `RegistryConsistent`, `CameraAgrees`, `RecordersKeepPort`, `PictureKeepsPort`, `ImplementsPortPool` |
| `WriterOutputHolder` | the writer thread and everybody who touches its outputs | `Inv` (`TypeOK`, `NoWriteAfterRemove`, `RoundsInOrder`, `StaysPrepared`), `NoGaps`, `NoLostRebind`, `Drains` |
| `NetworkServing` | runner, writers, workers and shutdown of the serving mode | `Inv` (`TypeOK`, `RunningMapped`, `Numbered`, `Newcomer`, `OneLeft`, `Rounds`), `ClientsServed`, `MapsAgree`, `FailedOutputRemoved` |
| `TriggerResponse` | callers, listeners and executors of one response | `NoResponseAfterCleanup`, `AnswersAreAsked`, `ClaimIsReturned`, `TriggerSeen`, `StopReturns` |
| `TriggerModes` | `TriggerResponse` composed with each of the modes that trigger: network, motion, photo, and one that does what it likes | `ModesInv` (`ModesTypeOK`, `Sessions`, enough `asks`), `DetriggerReaches`, `ShutdownReturns` |
| `ModeLifecycle` | one mode under main, the scheduler and the signal handler | `Inv` (`TypeOK`, `OneRunner`, `Scheduled`, `StartsOnce`, `Stopped`), `FinishOnlyGrows`, `EndsInTime`, `StoppedForGood`, `RunsOnSchedule` |
| `FrameFeed` | abstract: complete frames only, never an older one after a newer | the specification `SplitFrame` implements |
| `SplitFrame` | the camera's thread and the streamer's around `last_frame` and `event` | `Inv` (`TypeOK`, `WholeFrames`, `Lives`, `Assembled`, `HandedInOrder`, `TwiceInAll`), `AtMostTwice`, `TakenUp`, `ImplementsFrameFeed` |
| `NetworkStreaming` | runner, writer and shutdown of the streaming mode, its hosts and their sockets | `Inv` (`TypeOK`, `WriterDropsDead`, `WritesToOutputs`, `SocketsFollowHosts`, `OneHostAtATime`, `Reconnects`, `CleanedUp`), `ConnectedServed`, `NothingLeft`, `UnlistedHostsLeave`, `ReachableHostsConnect`, `ConnectedIsServed` |
| `Client` | reader threads and the program's calls on one stream id | `Inv` (`TypeOK`, `EntryHasReader`, `ReaderHasEntry`), `OwnEntry`, `StopReturns`, `GetReturnsAtEnd` |

The `MC...` modules give each of them the small sets TLC needs. A module also
holds mutants: operators, marked as such, that change one definition the way a
plausible bug would. They are not part of any specification; each property of
a passing run has one that breaks it. `Inv` is a module's type invariant together
with the named ones that make it inductive. The theorems about eight of the
modules are in modules of their own, `StreamerPoolProofs` and so on (section 6).

### How the models correspond to the code

**Granularity.** A method that runs under one lock is one step. Where no lock
is held (`TriggerResponse`, `TriggerModes`, `ModeLifecycle`, `SplitFrame`,
`Client`'s readers, the split handling of `WriterOutputHolder.run`, the
exception path of `NetworkServing.routine`, `NetworkStreaming`'s runner), each
access to shared state that another thread can observe is a step of its own.
A lock held across steps is read off the program counters
(`InstanceLocked`, `LockFree`, `ModeLockFree`).

**StreamerPool.** `Reuse` and `Create` are the two branches of `__new__`;
with no port left the code raises and changes nothing, so no action is needed.
`StopEnter` is `stop()` up to the callback's return and the early return of an
instance that does not run, `StopClose` the rest; between them the port is
already free and the camera still encodes on it. `StartRaises` is any
exception of `start()`, which leaves `is_running` set. `encoder` is the
external camera: who records on each splitter port. `Keepers` are holders that
keep their reference after `stop()` (`RecordToFile`, `BaseMode`); the others
forget it (`NetworkServing`). Either may ask again at any time, as
`RecordToFile` does whenever it starts to listen. `shutdown_streamers` is one step per lookup,
with the `KeyError` of its second one.

**WriterOutputHolder.** `Submit` takes `output_lock`, `Worker` is one pooled
write with its verdict, `Collect` waits for one future and drops the output if
the verdict is false, `EndRound` releases the lock. `got`, `taken` and
`joined` are history variables: what each output received, what was handed out,
and when the output joined. They are kept for registered outputs only, because
nothing is said of one that has left. A split marker is handled without the lock,
one prepared output at a time (`SplitBind`); then `outputs_to_add` is emptied
(`SplitReset`), then the waiting caller is told (`SplitSignal`). `fate` is a
history variable that follows the last rebinding of each id: prepared, its marker
due, bound, or "late" if it was prepared while a marker was being handled.

**NetworkServing.** The writers of `WriterOutputHolder` are reduced to rounds,
and the streams to instances that run or not. What `Streamer(...)` answers is
modelled with its registry: each stream key comes to a port key (`PortKeyOf`), two
of them perhaps to one, as `{}` and `{"format": "h264"}` do. `ServeNew` creates an
instance, `ServeShared` is handed the registered one, which another stream key may
have, and `ServeOld` finds its own key in `streamer_map`. A `stop()` returns the
instance's port and with it the registry entry; of an instance that was stopped
before, the port it remembers may be another's by now, and that one's entry goes
(`Returns`). `Cleanup` is the body of
`cleanup_output`, used by the workers, by `_cleanup` and by the exception path.
"link", "start" and "add" are the runner inside its locked block: about to enter
the client in `socket_to_stream`, to start the stream, to take `output_lock`.
`_cleanup` does not take `_lock`, so its two assignments of empty dictionaries
are two steps, `ForgetSockets` and `ForgetStreams`, which fall anywhere into that
block.

**TriggerResponse.** An `Event` is its flag; `set()` also moves the blocked
waiters on. `cooling` says whether the cooldown has not passed yet; it ends at
any time. `asks` counts the `trigger()` calls and stops that no response has
answered yet, up to `MaxAsks`. `records` never changes: it says whether the
response is `RecordToFile` or one that simply runs, and TLC checks both.
The `while` of `base.py:84` is two steps, the read of `listening` (`LoopTest`) and
the `wait()` (`LoopWait`), because another thread may clear the event in between.
`discarded` is a history variable: the event, when last a `detrigger()` cleared it,
was set, and nobody has set it since.
`Callers` are the threads that call `trigger()` and `detrigger()`, each with a
place of its own in the call (`tpc`): two of them, a mode's own thread and the
executor's.

**TriggerModes.** One response and one mode; `kind` says which. The order of
steps is `BaseMode.run`'s and `BaseMode.shutdown`'s: responses are stopped
first, `_cleanup` next, the runner joined last. `initialize` and `start` are one
step, and so are `finish_time = now` and the first response's
`listening = False`. A mode of the package has one session, because only
`clean_stop` shuts a mode down; "any" stops and starts again as it likes.
Network: `bound` is `server_socket`, `wake` the connection `_cleanup` makes to
bring the runner out of `accept()`, `dpc` the thread that triggers, sleeps and
detriggers. Motion: the camera's frames set and clear `motion` while the detector
is an output of the streamer (`watched`). Photo: a picture "differs" from the
last one in more than `sensitivity` pixels, in exactly that many ("edge") or in
fewer ("same"); a picture that fails changes nothing.

**SplitFrame.** A buffer is the number of its frame, so a frame put together
from two others would show. `write()` is three steps (the assignment of
`last_frame`, the event, the truncation of `stream`) and `stream_frames` five.
`handed` and `copies` are history variables.

**NetworkStreaming.** The writer is `WriterOutputHolder` reduced to rounds,
`SocketWrap` the flag `_is_connected` (`connected`) and whether the connection
really carries data (`link`). `Write` cannot happen while `connect()` holds the
socket's `_lock`. An exception in the routine is caught by `BaseMode.run`: back
to "test". `_cleanup` iterates over `socket_map` itself and raises when its size
has changed. A host that is taken out of the file and put in again gets a new
`SocketWrap`, while the one it had may still be its output: `former` and
`formerLink` say whose output is such a socket, with a flag and a lock of its
own, and which of them still work. An entry of the file that lacks a key, a port number
or a known protocol is in `bad`: `_parse_and_add_host` raises at it, in an update
after some of the other new hosts have got their sockets and before anything is
removed or reconnected (`UpdateRaises`), in `pre_routine` where nobody catches it, so
that the runner is dead from the start ("died"). The runner ends after `shutdown()`
has begun ("ended") or when the schedule's time is up (`ScheduleOver`, "over");
nothing starts it again in the latter case (`RunsOnSchedule` of `ModeLifecycle`).
`raced` and `late` are history variables that name the two races the properties
except, `cut` says whether an update of the hosts, or `pre_routine`, was cut short.

**Client.** `current` is `current_streams[stream_id]`; a `StreamInfo` is named
after the reader thread it was created with. A reader finds its `StreamInfo`
under the id at every access and may therefore find another's. `robbed` and
`replaced` are history variables: readers whose entry another thread deleted or
another call replaced.

**ModeLifecycle.** Crons are sets of instants, `NextIn` is croniter's
`get_next`. The start-up loop and `executor.start` take less than one instant
(a minute); the runner and the jobs may be late by any amount. `pc[t]` is a
thread's place in `ModeExecutor.start` and the `BaseMode` methods it calls.
Creating the runner thread and starting it (`base.py:56-57`) is one step. A
mode's `schedules` contain at most one timed schedule: `main.py` adds every
timed schedule as a job with the mode's own id, which APScheduler accepts once.
`met` is a history variable: was a job inside `executor.start` when
`clean_stop` came? `blocks` never changes: it says whether the mode's routine waits for
a client without a timeout, as the serving and the network trigger mode do
(`network_serving.py:124`, `network_trigger.py:79`). Such a routine need not return
(`Waits`) before a shutdown has come to `_cleanup`.

## 3. The runs

Passing runs:

| Run | Question | Instance |
|---|---|---|
| `pool_any` | Does the pool's bookkeeping survive holders that keep stopped streamers, pictures and a shutdown? | 2 ports, 2 keys, 2 holders, 2 instances |
| `pool_exclusive` | With holders that forget what they stop: is a recording's or a picture's port its own? | the same, 4 instances, one raw stream |
| `holder` | Does every output get every buffer while outputs come, go, fail and are rebound, can a rebinding be lost, or a caller be left waiting for one that is not coming, is the buffer drained? | 2 ids, 3 outputs, 1 buffer and up to 2 markers, callers wait or not |
| `serving` | Do the mode's dictionaries, the streams and the clients agree at all times, and is `max_streams` kept? | 4 clients, 3 stream keys, two of them of one port key, `max_streams` 2, 3 instances, symmetric in the two clients of the first key |
| `trigger` | Do a recording's claim, its clean-up and its listener fit together under every kind of mode and over a restart; is a trigger ever lost while somebody listens, does every recording end, does every shutdown, and with which exceptions? | recording or not, 4 kinds of mode, 2 listeners, 2 stimuli |
| `mode` | One runner, no start that takes time from a running mode, an end in time, and a shutdown that is final? | 4 lists of schedules, 2 windows, 8 instants, a routine that may wait for a client or not |
| `split` | Is what the output gets always one whole frame, never an older one, and is a frame taken up when the camera pauses? | 6 frames of 1 or 2 buffers, 2 starts |
| `streaming` | Do connected hosts get the stream, do dead and unlisted ones go, do reachable ones come back, does a complete shutdown leave nothing? | 2 TCP hosts, one whose entry may be unusable, 4 changes of the world, 2 of a mode that is shut down, a schedule that may end at any time |
| `client` | Is an id ever blocked by a reader that is gone, does a reader ever delete another's entry, do the blocking calls come back? | 2 readers, 2 threads of the program, one of which begins streams |

Runs that find the code at odds with what the repository says of it; each
checks one property and ends in a counterexample:

| Run | What happens |
|---|---|
| `serving_deadlock` | `_lock` then `output_lock` in the runner, `output_lock` then `_lock` through the worker: both stand still, and the failed output is not removed (`output_holder.py:87`). |
| `streaming_lost` | The runner reconnects a host between its failed write and the writer's removal of the output, finds it in `outputs` and adds nothing; the writer then removes it. The host stays connected and is never served again (`network_streaming.py:93`). One TCP and one UDP host, no hosts file, one loss. |
| `mode_schedule` | `is_running` is never reset when a window ends: the next window starts no runner (`README.md:28`). |

### What else the models reach

These behaviours follow from the same actions; no run states a property for
them, and the properties above are worded so as to allow them.

- A stopped and unregistered instance, started again by a holder that kept it,
  records beside the new instance of its key (`streamer.py:60`).
- An output prepared while the writer is handling a marker, between the iteration
  over `outputs_to_add` and its reset, is dropped and never bound; its caller is told
  all the same, by that marker or by its own (`output_holder.py:97-101`): "late" in
  `NoLostRebind`. An event nobody waited for stays set, and lets the next caller of
  `wait_for_rebind` return before its output is bound.
- Two stream keys of one port key share an instance. The last client of one key
  stops it under the other's entry, which stays in `streamer_map`, counts against
  `max_streams` and names a stopped instance: the next client of that key fails to
  be served, since the instance's writer thread cannot be started again, and the `stop()`
  on its exception path hands back a port that may be another instance's by then
  (`network_serving.py:86-89, 105-112, 154-156`, `streamer.py:57-66, 112-119`).
- The last two clients of a stream fail in one round: each callback still sees
  both outputs and neither stops the stream (`network_serving.py:86-87`).
- A client fails between `_cleanup`'s snapshot of `socket_map` and its `close()`:
  the `KeyError` of `cleanup_output` ends `_cleanup` (`network_serving.py:83`).
- `_cleanup` empties `socket_map` and `socket_to_stream` while the runner enters a
  client: that client stays in one of the two only, or in both, its output is
  added to a stream that nothing stops any more, or that was never started
  because `socket_map` was empty when the runner looked
  (`network_serving.py:136-143, 169-170`).
- `stop()` returns the port whoever calls it, and `start()` does not lease it
  again: with holders that keep their streamers (`Keepers`) an instance records
  on a port that is free or leased to another, although "recorders are supposed
  to have a constant hold" (`streamer.py:100-101`). `RecordersKeepPort` is
  violated by the instance of `pool_any`.
- `stop()` between `WriterOutputHolder.start()` and the first line of `run()` is
  overwritten, and the writer never ends (`tests/test_output_holders.py:73-83`
  expects it to).
- The event by which a stop wakes the listener may begin a recording that the
  stop then joins for ever (`trigger_responses/base.py:40-45`): the exception in
  `StopReturns`.
- A stop that never returns: the listener reads `listening`, `stop()` clears it and
  sets the event, a `detrigger()` that is past its test clears the event, and the
  listener waits for ever, with it the stop that joins it
  (`trigger_responses/base.py:44-47, 53, 84`): `discarded` in `StopReturns`. A
  trigger may be discarded in the same way (`TriggerSeen`).
- The connection by which the network mode's `_cleanup` wakes its own runner
  triggers the responses once more (`network_trigger.py:80`); a `_cleanup` that
  comes before the runner has bound its socket raises, `server_socket` being
  `None`.
- `calibrate()` never ends once the detector is no longer an output and its event
  was left set: the runner is then joined for ever (`motion_detection.py`). Two
  modes that share a detector may also remove it twice, a `KeyError`.
- The photo mode's `_cleanup` detriggers after its responses have been stopped
  and joined (`photo_motion_detection.py:96`), so a recording that waits to be
  detriggered makes the shutdown wait for ever; one that goes on when the
  mode's schedule ends is not detriggered by anybody.
- `MIN_CERTAINTY` pictures with motion "in a row" are one more than that, and
  need not be in a row: a picture without motion takes one off.
- A trigger that arrives while a recording ends has its `is_running` reset by
  the end of the loop's body, and the next recording ignores `detrigger()`; one
  answered before `trigger()` sets `is_running` leaves it set, and later
  triggers are ignored (`trigger_responses/base.py:66-69, 96`).
- Not reached, because `TriggerModes` has one mode, but plain from the same lines: two
  listeners of one response may both pass the test of `is_triggered` before either
  sets it (`record_to_file.py:40-41`), although "mutliple modes can use this trigger
  response" (`record_to_file.py:37-38`). No property claims the opposite: with one
  mode it would hold because there is one listener.
- The streaming mode's UDP hosts never become outputs: a datagram socket says it
  is connected, so the runner never connects it (`server_socket_wrap.py:25`).
- A hosts file that cannot be read is one without hosts: every host is dropped
  (`network_streaming.py:40`).
- `remove_output` in the runner comes after the writer's own removal and raises a
  `KeyError`, which ends the routine before the remaining hosts are looked at
  (`network_streaming.py:97`).
- An entry of the hosts file that cannot be used (a missing key, a port that is no
  number, an unsupported protocol, for which `_parse_and_add_host` prints a message and
  goes on to a `KeyError`) aborts every update, and with it the routine, as long as it is
  new: unlisted hosts keep the stream and lost ones are not connected again
  (`network_streaming.py:52-68`): `Follows` in the two liveness properties. The new
  hosts that came before it have a socket and are not in `self.hosts` (next item). If
  such an entry is there at the start, or in the configuration, `pre_routine` raises
  and the runner is gone (`modes/base.py:73`).
- The `KeyError` of `remove_output` inside an update (`network_streaming.py:45-59`) leaves
  `socket_map` changed and `self.hosts` as it was. A new host of that update has
  a socket and is not in `self.hosts`: if it leaves the file before the next
  update, no update ever removes it, and it goes on being sent the stream. A host
  removed before the error has no socket and is still in `self.hosts`: if it comes
  back into the file, no update ever gives it another. `UnlistedHostsLeave` and
  `ReachableHostsConnect` name both; three changes of the world are needed to
  get there, and the proof of `SocketsFollowHosts` is what showed it.
- A host removed from the file and listed again while its earlier socket is still
  an output is reconnected and found among the outputs: the new socket is never
  added, and is lost with the old one (`former` in `ConnectedServed`).
- A runner inside the reconnection routine adds an output after `_cleanup` has
  run: the stream then goes on (`late` in `NothingLeft`); `_cleanup` iterates over
  a dictionary the runner may be changing.
- A client whose server closes in the middle of a frame reads `b''` for ever. A
  `fetch_stream` that fails to connect deletes the entry once more later, which may
  be a new stream's by then. A receiver that cannot bind leaves its entry behind and
  `fetch_stream` refuses the id from then on. A holder stopped by its last
  output's leaving is used again without being started (`client.py:137`).
  `stop_stream` joins whichever reader is under the id by then (`client.py:47`).
- An always schedule listed after a timed one changes nothing while the mode
  runs (`main.py:135`).
- A job inside `executor.start` sets `is_running` after `shutdown()` cleared it
  (`modes/base.py:55`): the exception in `StoppedForGood`.

### Bounds

- `NumPorts = 2` instead of 4: both the empty free list and a port in other
  hands need no more. `MaxStreamers` 2 to 4 allows a port and a key to be used
  again after a stale `stop()`.
- `MaxFrames`, `MaxAdds`, `MaxRebinds` of the output holder: an id that joins
  twice, two markers in the buffer at once. A single camera buffer suffices for
  the gaps, because markers are handed to the outputs too and count as buffers.
- Four clients, two of them of one stream key, one of another that comes to the same
  instance, one of a third: two that fail in a round while a third connects, a stream
  stopped by another key's client, its port given to the third key, and a client
  refused because two keys are in `streamer_map`. Three instances: both port keys have
  one, and one has another after it was stopped. A client that reconnects has a new
  address.
- `MaxListeners = 2`: a restart. `MaxAsks = 3` counts what one listener can have
  before it: an event that is set, the one it was woken by, and a call in progress.
  More are not told apart.
- `MaxStimuli = 2` connections or pictures that differ, `MinCertainty = 1` and
  `DetriggerPics = 2`: enough for two responses in a row, and for a motion that
  begins again while the counters are between their bounds.
- Six frames of at most two buffers: the streamer can be two frames behind the
  camera in each of its steps, and there are frames left after the second start.
- `MaxChanges = 4` in `streaming`: a host that is lost and comes back, a loss and
  three hosts files, an entry that becomes unusable and is corrected. Two changes are
  too few: an update that is cut short, and the file that shows its consequence, need
  three. `MaxStopped = 2` of them for a mode that is shut down: what a shutdown can
  meet is a runner at each of its places with a dead host or two. `Faulty = {h2}`: one
  entry that may be unusable beside one that is not. One loss suffices for
  `streaming_lost`.
- Two readers of the client: one under whose feet the other takes the id. One thread
  of the program begins streams, both watch and stop them.
- The second window of the mode runs begins after the first has ended; a third
  lies beyond `MaxTime`, so that every finish time a job computes is reached.
- `Runners == 1 .. 2` is no bound: that no third runner is started is part of
  `Inv`.

`CHECK_DEADLOCK FALSE` is set throughout: the instances stop at their bounds,
and the system itself comes to rest (a closed mode, a stopped writer). The
deadlock that matters is a liveness property (`FailedOutputRemoved`).

## 4. Fairness

Weak fairness of threads is assumed: a thread that can take a step keeps
being scheduled. A worker's write ends because the socket has a timeout
(`client_socket_wrap.py:19`); a request comes or times out
(`network_serving.py:93`). Strong fairness is assumed once, in
`NetworkStreaming`, for the threads that wait for `output_lock`: the writer gives
it up after every round and sleeps when it has no frame (`output_holder.py:104`).

Nobody has to trigger, detrigger, connect, move or stop a mode, but a call that
began goes on. In `SplitFrame` the camera may pause for ever between two
buffers. In `ModeLifecycle` time passes; a routine returns unless it `Waits` for a client,
who need not come. (The motion mode's calibration, which returns only when nothing
moves for a while, is treated in `TriggerModes`.) In `NetworkStreaming` frames keep coming and a connection attempt ends by its
timeout. In `Client` a receiver's `accept()` and `recv()` have no timeout and no
fairness, `fetch_stream`'s reader has a timeout. `StreamerPool` states no fairness and no
liveness.

## 5. Which properties say what

- `PortPartition`, `RegistryConsistent` and `CameraAgrees` hold for *every* use
  of the streamers, also the misuse by holders that keep what they stopped: a stale `stop()` cannot
  duplicate a port or end somebody else's recording. It can only take a lease
  away; that it cannot when holders forget is `RecordersKeepPort`.
- `MapsAgree`, `RunningMapped` and `ClientsServed` say that the mode's three
  dictionaries may be trusted whenever nobody is inside a step that holds the
  lock, with two exceptions: the client the runner is serving, or taking back on
  the exception path, may be in `socket_map` without being an output yet; and
  once `_cleanup` has emptied two of them one client at most, which was being
  served meanwhile, is left in either, perhaps with a stream that does not run.
- `NoGaps` relates an output's own history to the writer's: no buffer between
  its joining and now is missing, doubled or out of order, except the one in
  flight.
- `ClientsServed` is the reason `cleanup_output` counts outputs: nobody's
  leaving stops a stream that another client is on.
- `AnswersAreAsked` counts the stops' wake-ups as questions: a stop may be
  answered by a response.
- `StopReturns` of the response excepts a listener that waits to be detriggered,
  and `DetriggerReaches` says when that wait ends: whenever the response can hear
  the mode, unless motion goes on, or the photo mode's runner is gone. Together they
  bound how a recording can keep a shutdown from returning.
- `ImplementsFrameFeed` says that frames never go backwards though `last_frame`
  and `event` are set in two steps and read and cleared in two others;
  `AtMostTwice` and `TakenUp` say what those two pairs cost.
- `ConnectedServed` names exactly the hosts that `streaming_lost` is about, and
  those whose earlier socket is still an output; all others that are connected
  are served. `WriterDropsDead` shows that the runner's own removal
  (`network_streaming.py:97`) comes too late, but for such an earlier socket.
- `SocketsFollowHosts` is why an update may compare the file with `self.hosts`
  and change `socket_map`: until one is cut short the two have the same keys.
- `OwnEntry` and `EntryHasReader` say when the client's dictionary may be
  trusted, since readers delete by id and not by what they created.
- `RunningMapped` says when keys share an instance (when they come to one port key)
  and when an entry of `streamer_map` names one that does not run: when the key is
  one that shares. What `Streamer()` would hand out next always runs or is about to.
- `NoLostRebind` follows each rebinding, its caller waiting or gone: prepared until
  bound, with a marker on the way from `notify_split` on. Its only exception is an
  output prepared while a marker is being handled; any other that is dropped unbound,
  by its own marker or another's, violates it.
- `TriggerSeen` excepts a listener that waits to be detriggered, nobody having to
  call `detrigger()`, and an event that a `detrigger()` has cleared before any
  listener saw it. It names the second by `discarded`, which the next `set()` resets,
  so that an event lost in any other way violates it.
- `EndsInTime` excepts a late job, which may prolong a mode whose time is just up,
  and a runner that waits for a client.
- `UnlistedHostsLeave` and `ReachableHostsConnect` speak of a mode that `Follows` its
  hosts: its runner has neither ended nor died, and no new entry of the file makes
  every update raise. What is left once such an entry is corrected is not excepted,
  but for the hosts that a cut update has left in one of the two maps only.

## 6. Proofs

Every invariant of the passing runs is also a theorem, for every value of the
constants, and so are the two refinements and `FinishOnlyGrows`. Each module of
proofs has one lemma for each action or group of actions (a step for each
conjunct it can disturb), puts them together in `StepInvariant`, and draws the
theorems from the inductive invariant. TLC checks that invariant too: it is
what the properties of the run say together, or implied by them.

| Module of proofs | Theorems | Properties |
|---|---|---|
| `StreamerPoolProofs` | `TypeCorrect`, `PortsPartitioned`, `RegistryIsConsistent`, `CameraAgreement`, `Refinement` | the properties of `pool_any` |
| | `RecordersHold`, `PicturesHold` | the properties of `pool_exclusive`, under `Exclusive` |
| `WriterOutputHolderProofs` | `RoundsHold`, `OutputsHaveNoGaps`, `RebindsAreKept` | `Inv`, `NoGaps`, `NoLostRebind` |
| `NetworkServingProofs` | `StreamsCounted`, `ClientsStayServed`, `DictionariesAgree` | `Inv`, `ClientsServed`, `MapsAgree` |
| `TriggerModesProofs` | `ModesInvariant`, `RespondsInitialised`, `AnswersAsked`, `ClaimsReturned` | `ModesInv`, `NoResponseAfterCleanup`, `AnswersAreAsked`, `ClaimIsReturned` |
| `ModeLifecycleProofs` | `RunsOnce`, `StaysStopped`, `FinishGrows` | `Inv`, `StoppedForGood`, `FinishOnlyGrows` |
| `SplitFrameProofs` | `FramesAreWhole`, `NeverThrice`, `FeedImplemented` | `Inv`, `AtMostTwice`, `ImplementsFrameFeed` |
| `NetworkStreamingProofs` | `SocketsHold`, `ConnectedAreServed`, `ShutdownIsComplete` | `Inv`, `ConnectedServed`, `NothingLeft` |
| `ClientProofs` | `EntriesHaveReaders`, `EntriesAreOwn` | `Inv`, `OwnEntry` |

**Assumptions.** Each module's constants have one named assumption, which TLC
evaluates: the sets' shapes, that `None` and its like differ from what they stand
beside, bounds that are natural numbers, and

- `HolderAssumption`, `StreamingAssumption`: finitely many ids and hosts. A
  dictionary is finite; the proofs count the outputs at a marker and the entries
  of `socket_map`.
- `ModeAssumption`: a list of schedules is a sequence, and a cron always has a
  next instant.
- `ModesAssumption`: one mode, two threads that call (its runner and the
  executor), and `MaxAsks >= 3`, as many answers as can be due at once.
- `Exclusive`, the hypothesis of `RecordersHold` and `PicturesHold` alone:
  holders forget a streamer when they stop it, no two of them ask for the same
  key, and `shutdown_streamers` does not run. Network serving uses its streamers
  in this way; for the others the properties are false (section 3).

### The inductive invariants

**StreamerPool.** None of its safety properties is inductive by itself.
`RegistryConsistent` is needed for `PortPartition`, because returning a port
removes the key it finds in `_portmap`. `CameraAgrees` needs to know
what the program counters promise: a thread that is closing refers to an
instance that runs, a capturing thread owns the encoder of its port, a
reserved port is a port. `WellFormed` says this, and
`IInv == TypeOK /\ WellFormed /\ PortPartition /\ RegistryConsistent /\ CameraAgrees`
is inductive. The pool operations rest on `ReturnPortKeepsPool`, which is where
the guard of `_return_port_availability` matters: a port that is neither leased
nor the picture port changes nothing. The refinement maps each port to its owner
(`Owner`): `Create` is a `Lease`, the first `PicReserve` a `Reserve`, every
`ReturnPort` a `Release` or a stutter, and all other steps leave the owners
alone. With exclusive holders `Held` is inductive besides: what a holder refers
to is registered under its key until its own `stop()`, and what records is some
holder's; so a `stop()` gives back its own lease (`OwnLease`).

**WriterOutputHolder.** `NoGaps` needs the round: a buffer in the writer's hands
is the last of `taken`, futures exist only while it collects and only for
registered outputs, and nobody joins later than what was handed out
(`RoundsInOrder`). That no output joins or leaves inside a round is
`output_lock`; `Joining` and `Leaving` are about what may then happen to the
histories, `PartOfAppend` and `PartUpToLast` about parts of sequences. `NoLostRebind` needs that
what was prepared while no marker was being handled stays so until one has bound it
(`StaysPrepared`): a marker at its iteration has the id still before it, because the
iteration began with all that was prepared, and whoever prepares another meanwhile is
"late" or makes the iteration raise, which stops the holder. When the iteration is
over nothing but "late" ones is left for `SplitReset` to drop.

**NetworkServing.** `cleanup_output` may only stop a stream on which nobody else
is. It counts outputs, so the proof has to relate outputs to clients: the client
whose clean-up runs is an output of its stream (`ClientsServed`), and if there
is one output it is that one (`LastIsOnly`, `CleanupKeeps`); the client the
runner is serving is nobody's output yet, and its stream cannot be stopped under
it before `add_output` because the runner holds `_lock` (`Newcomer`). The
failed writes of a round are out of `socket_map` before they are dropped from
`outputs` (`Rounds`). What the runner enters after `_cleanup` has begun to forget is
one client's and no more, because it then finds the mode finished (`OneLeft`). Where keys share an instance its outputs are the clients of both, and a client's
clean-up may stop it only if it is the last of either (`CleanupNewcomer`).
`Numbered` keeps instances apart: one that has been created is registered under its
own port key or under none, and a new one is in nobody's entry, so what the registry
hands out is another key's running stream and no stale one (`RunningMapped`). The
bound of `max_streams` is kept by counting the keys in `streamer_map`, whose set is
finite because it never has more.

**TriggerModes.** The theorems are about the response as the modes drive it.
`StepsOfAMode` says which steps of `TriggerResponse` a mode takes; the rest is
proved of those. `Sessions` relates the executor to the last listener and the
clean-up: there is no older one when a new one starts. `AnswersAreAsked` counts,
and is inductive only with what is still due: a listener on its way to a
response, an event not seen yet or about to be set by a stop, a call of
`trigger()` in progress (`Due`). An event that is set belongs to the listener that
will find it (`Heading`, once it is past the read of `listening`) or is `Pending`, so
that one event is not counted twice.

**ModeLifecycle.** `OneRunner` is what the test of `is_running` is for. It holds
because before `clean_stop` a thread that is between the test and the spawning of
the runner finds none (`StartsOnce`): the jobs begin when the start-up loop is
over (`Scheduled`), and there is one job at a time. `finish_time` grows because
a thread that is about to assign it has compared it (`StartsOnce` once more).
`Stopped` is the progress of `clean_stop`, when it met no job. `NextIn` is a
`CHOOSE` of the smallest instant; that it exists is `Smallest`, from the
well-foundedness of the naturals.

**SplitFrame.** `Assembled` says where the camera's frames are at each point of
`write()`, `HandedInOrder` that the streamer's frame lies between what it handed
out and `last_frame`. For `AtMostTwice` one counts how often `last_frame` may
still be handed out (`Owed`): what the thread has read, an event it will see, one
the camera is about to set; with the copies made they are never more than two.
The refinement maps the number of `last_frame`'s frame to `latest`: `write()`'s
first assignment is `Complete`, the hand-over `Hand`.

**NetworkStreaming.** A dead output is one whose failed write the writer is
about to act upon, or a former socket (`WriterDropsDead`): `write()` clears the flag only in
a round, and in a round what failed stays an output until it has been looked at
(`WritesToOutputs`). What the runner does with the host it is at (`OneHostAtATime`,
`Reconnects`) gives `ConnectedServed`. `SocketsFollowHosts` was first stated
without `cut`; its proof failed in `RemovingHost`, and TLC then found the two
consequences that `UnlistedHostsLeave` and `ReachableHostsConnect` now name. An
update that an unusable entry ends leaves the same two apart (`UpdateRaises`).
`CleanedUp` is how far `_cleanup` has come.

**Client.** `ReaderHasEntry` is the converse of `EntryHasReader` and what makes
`OwnEntry` inductive: as long as nobody failed to connect and nothing was
replaced, a living reader finds its own entry.

**Only model-checked.** All liveness (`Drains`, `TriggerSeen`, `StopReturns`,
`DetriggerReaches`, `ShutdownReturns`, `EndsInTime`, `TakenUp`,
`UnlistedHostsLeave`, `ReachableHostsConnect`, `GetReturnsAtEnd`), which needs
fairness and `ENABLED` and is out of the prover's reach, and that a response
shared by several modes keeps what is proved for one (it need not: section 3). No module
uses `RECURSIVE`.

## 7. Not modelled

Image arithmetic of the motion detectors (numpy, the camera's), HTTP and redis
calls, configuration parsing, the camera's options, the contents of buffers and
files, and `SinglePiCamera`, a wrapper around the external `PiCamera`. The
announcer thread of the network modes only sleeps and writes to redis. Several
modes at once are left out of `ModeLifecycle` and `TriggerModes`: one mode's
`stop()` that raises in `clean_stop` (`main.py:51`), a detector shared by two
motion modes, and the second listener on a shared response. Memory is
unbounded in every model: that `aux_buffer` may grow until it is exhausted is a
hazard without a property.

## 8. Plan

Done: `StreamerPool` with `PortPool` and the proofs; `WriterOutputHolder`;
`NetworkServing`; `TriggerResponse`; `ModeLifecycle`; `SplitFrame` with
`FrameFeed`; `NetworkStreaming`; `TriggerModes`; `Client`. Left:

1. An abstract output holder (every output gets a contiguous run of what was
   captured) that `WriterOutputHolder` implements, and its use by
   `NetworkServing` and `NetworkStreaming` in place of the reduced rounds.
2. Several modes under `clean_stop`, with a shutdown that raises, and a response
   or a detector that they share.
3. Liveness of the serving mode, whose `accept()` blocks without a timeout.

Proofs to add: the abstract output holder's refinement, once it is stated; action
properties of the other modules (a registered output's history only grows, a
lease changes hands only over a free port, a client once closed stays so); the safety
half of the liveness properties, that is, what is true of a state from which
nothing further can happen.
