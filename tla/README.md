# The ffmpeg program of ffmpeg-ci, in TLA+

`ffmpeg-ci` builds FFmpeg for many platforms and carries, under
`src/android/app/cpp/`, the sources of the `ffmpeg` and `ffprobe` programs as
one Android library whose `main()` is called again and again from an
application.  The program is a pipeline of threads: demuxers, decoders,
filtergraphs, encoders and muxers, each written as a loop that receives,
transforms and sends, and a scheduler (`ffmpeg_sched.c`) that connects them with
thread queues, holds back those that run ahead, starts the muxers when all is
known about their streams, and brings everything to an end.  This directory
models that program, checks it with TLC and proves what matters most with
TLAPS.

## The system

File names below are relative to `src/android/app/cpp/`.

| Part | State it keeps | Operations | What is hard | What makes it correct |
|---|---|---|---|---|
| Thread queues, `thread_queue.c` | two FIFOs (items, stream indices), two finished flags per stream, `choked` | `tq_send`, `tq_receive`, `tq_send_finish`, `tq_receive_finish`, `tq_choke` | lost wake-ups, EOF kept beside the FIFO, two producers for a stream, ENOMEM between the two writes | every stream is a reliable channel that ends once, after its items; nobody sleeps with something to do |
| Muxer start, `ffmpeg_sched.c` | readiness counters, `mux_started`, pre-muxing queues, `mux_ready_lock` | `sch_mux_stream_ready`, `mux_init`, `mux_task_start`, `mux_queue_packet`, `send_to_mux`, `sch_mux_receive`, `sch_mux_sub_heartbeat`, `mux_done` | a check without the lock, a blocking flush under the lock, SDP across muxers, queue limits | nothing stranded, order kept, no muxer before its header and the SDP, muxing starts and ends |
| Sync queues, `sync_queue.c` | per stream a FIFO, head, time base, counters; head stream, finished head | `sq_send`, `sq_receive`, `sq_add_stream`, `sq_limit_frames`, `sq_frame_samples` | streams end through one another, heads faked by heartbeats, samples cut into frames | no stream gets ahead of a limiting stream, all end with the shortest, nothing held back without reason, bounded buffering |
| Rate control, `ffmpeg_sched.c` | `choked` of demuxers, decoders and filtergraphs, `last_dts` of muxed streams | `schedule_update_locked`, `waiter_wait`, `waiter_set`, `trailing_dts`, `check_acyclic` | the unchoked set must always contain a source that can feed the trailing stream | the output that trails is always fed; the outputs stay together; never everyone choked |
| Pipeline and termination, `ffmpeg_sched.c` | destinations finished, decoder overflow FIFOs, `best_input`, `terminate`, `task_failed`, `nb_mux_done` | `sch_demux_send`, `sch_dec_receive`, `sch_dec_send`, `sch_filter_receive`, `sch_filter_send`, `sch_enc_receive`, `sch_enc_send`, `sch_wait`, `sch_stop`, `task_wrapper` | EOF and errors travel both ways, decoders go on receiving while choked, loops wait for end timestamps, tasks fail | every item arrives in order, nobody sends what was finished, `sch_stop` joins every thread |
| Demuxers, `ffmpeg_demux.c` | timestamp offsets, last dts, loop counters | `input_thread`, `ts_fixup`, `ts_discontinuity_process`, `readrate_sleep`, `seek_to_start`; `ifile_open` | discontinuities, wrap-around, loops, a clock that stalls | packets are where they belong in time; the rate is kept and caught up with |
| Decoders, `ffmpeg_dec.c` | last frame's timestamps, subtitle frames held back | `decoder_thread`, `packet_decode`, `audio_ts_process`, `fix_sub_duration_heartbeat` | rounding carried from frame to frame, flush, end timestamps, heartbeats | sound without holes, subtitles that end before the next |
| Filtergraphs, `ffmpeg_filter.c` | inputs with queued frames, frame rate conversion, bindings | `filter_thread`, `send_frame`, `video_sync_process`, `sub2video_*`; `fg_create`, `*_bind_*`, `fg_finalise_bindings` | EOF per input, duplication and drops, who binds what first | frames at their time; every input and output bound once |
| Encoders, `ffmpeg_enc.c` | frames encoded, opened or not | `encoder_thread`, `enc_open`, `encode_frame`, `do_subtitle_out` | opening at the first frame, recording time, flush | one open, all frames encoded |
| Muxers, `ffmpeg_mux.c` | `last_mux_dts`, file size, end of streams | `muxer_thread`, `mux_packet_filter`, `mux_fixup_ts`, `write_packet` | timestamps fixed late, size limits, errors | the muxer never has to guess on clean input |
| Output file setup, `ffmpeg_mux_init.c` | output streams, sync queues, metadata | `of_open`, `create_streams`, `setup_sync_queues`, `copy_metadata`, `map_auto_*` | one stream's options decide about the others | what is not refused can be started; no stale tags |
| Options, `cmdutils.c`, `ffmpeg_opt.c` | option groups, global variables | `split_commandline`, `ffmpeg_parse_options`, `check_stream_specifier` | files opened and bound in three passes; globals that outlive a run | an option acts on its file and run |
| Program loop, `ffmpeg.c` | signal counters, `transcode_init_done`, statics | `main`, `transcode`, `sigterm_handler`, `print_report` | signals at any time, repeated runs | a run starts as the first did |
| Android application, `native-lib.cpp`, `FFmpeg.java`, `MainActivity.java` | surface reference, virtual keys, executor | `runCmd`, `setSurface`, `sendKey`, `readVirtualKey` | called from two threads | a run's surface lives as long as the run |
| Hardware devices, `ffmpeg_hw.c` | device list | lookup, creation | | names are unique |
| Object pool, `objpool.c` | a free list | get, release | | unused |
| Text formatters, `textformat/` | section stack, item counters | section and value functions | nesting | separators and nesting match |
| Resource manager, `ffmpeg_resman.c` | unpacked resources | get, free | a mutex around lazy unpacking | unpacked once |
| `ffprobe.c`, graph printing | interval list; none | packet reading; formatting | relative intervals | |
| Build and test scripts | none | run once | | |

How they interact.  Demuxers send packets to decoder queues and, for stream
copies, to muxers; decoders send frames to filtergraphs and encoders;
filtergraphs to encoders; encoders to muxers or, looped back, to decoders.
Every edge is a thread queue, except that encoders may be fed through a sync
queue under a lock, and that packets for a muxer that cannot start yet wait in
pre-muxing queues.  A consumer that is through tells its producers by
`tq_receive_finish`; a muxer thread sends heartbeats back to subtitle decoders;
`schedule_update_locked` runs whenever a muxed timestamp, an end of stream or a
filtergraph's wanted input changes, and chokes demuxers, decoders, filtergraphs
and the thread queues that demuxers feed.

Before all that, and in one thread, the command line is split into groups, files
are opened and their streams selected, filtergraphs bound, and the scheduler's
graph is built by `sch_add_*` and `sch_connect`; `sch_start` checks it and starts
the threads.

PROJECT.json lists what is hard to test in this code, each at its line, with the
properties that are about it.

## The models

| Modules | Level |
|---|---|
| `Lists` | what the models add to the sequences of the community modules |
| `ThreadQueue`, `StreamChannel` | the locks and sleeps of one queue, and what its users may rely on |
| `SyncQueue` | every function of one sync queue |
| `MuxStart` | the start of the muxers, on queues as `StreamChannel` describes them |
| `SchedGraph`, `Choking`, `Pipeline` | all threads of a run and the queues between them; `Pipeline` extends `Choking` extends `SchedGraph` |
| `Timestamps`, `Demuxer`, `Decoder`, `FrameSync`, `Encoder`, `Muxer`, `Media` | the arithmetic of each thread on timestamps; `Media` takes packets through all of them |
| `CommandLine`, `SchedSetup`, `Bindings`, `InputSetup`, `Metadata`, `OutputSetup`, `Setup` | from the words of a command line to the graph; `Setup` uses `SchedGraph`'s `StartPrepare` to start what `SchedSetup` built |
| `MC*` | instances for TLC |
| `*Proofs` | theorems |

They were written in this order, the scheduler first, since everything else
depends on it.  Each level assumes of the one below what that one was shown to
promise: `MuxStart` and `Pipeline` use thread queues as ordered channels with an
end, `Pipeline` takes the start of a muxer and a call of a sync queue as one
step, and `Media` relies on the order that `Pipeline` checks.

`ListProofs` has the lemmas about `Lists`, `Folding` one about folds;
`PipelineProofs` and `BindingProofs` use the first, `BindingProofs` and
`SetupProofs` both, and `SetupProofs` is about `Setup` as `BindingProofs` is about
the modules `Setup` is made of.

What could follow: proofs of `RefusesCycles` and of the rounding in
`AheadIsBounded`; that a graph which was not refused starts, when no loopback decoder
is without a taker; the text formatters, as a model of their section stack;
configuration and reconfiguration of filtergraphs.

## ThreadQueue

`thread_queue.c`.  All functions hold `tq->lock`, so an action is one critical
section, from the lock to the unlock or to the `pthread_cond_wait` that gives
the lock up.  `pc` says which threads are idle, waiting on the condition, woken
or done; `Broadcast` wakes all, `SpuriousWakeup` any one.  `fifo` and
`fifoStreamIndex` are the two FIFOs, kept apart as in the code, `finished` the
flag bits, `choked` the flag of `tq_choke`.  `sent`, `got` and `eofs` are
history variables.

* `Send(p, s)` is `tq_send` up to its return or its first wait, `SendResume` the
  rest after a wake-up; `SendNoMem` is the failure of `av_container_fifo_write`
  after the index was written.
* `Receive` and `ReceiveAgain` are `tq_receive`, blocking, `ReceivePoll` with
  `THREAD_QUEUE_FLAG_NO_BLOCK`; an action drops the items of streams the
  receiver has finished, as `receive_locked` does, and broadcasts if it took
  anything.
* `SendFinish`, `ReceiveFinish`, `Choke` are the functions of those names.

`StreamChannel` is what the users of a queue rely on: for each stream, what was
put comes out in order and once, then one end of stream, unless the receiver
hangs up.

## MuxStart

A producer per muxed stream: `opening` until `sch_mux_stream_ready`, then it
sends.  `SendPacket` and `SendEof` are the unlocked look at `mux_started` in
`send_to_mux`; `PreQueue`, `PreOverflow` and `FallThrough` the locked second
look with `mux_queue_packet`; `DirectPacket` and `DirectEof` the thread queue,
abstracted to a bounded sequence with the two finished flags, as `ThreadQueue`
was shown to behave.  `MuxInit` is `mux_init` by the producer of the last
stream, which then starts its muxer (all muxers with an SDP): `FlushPacket`,
`FlushEof` and `FlushDone` are the turns of `mux_task_start`, which holds
`mux_ready_lock` (`lock`) from `MuxInit` to the last `FlushDone`.  `MuxReceive`,
`MuxReceiveEof`, `MuxBeat`, `MuxDone` are the muxer's thread, where `MuxBeat` is
the `tq_send` of `sch_mux_sub_heartbeat` to the subtitle decoder; what is
between that decoder and the subtitle encoder is abstracted to a number of
frames (`beats`, at most `BeatCapacity`).  Left out: allocation failures, the
sizes of packets (all 1), the schedule update that ends `send_to_mux`, and of the
failures of a start all but that of the header: `print_sdp`
(`ffmpeg_sched.c:1229`), `task_start`, and `mux_init` for a muxer without streams to
wait for (`ffmpeg_sched.c:1785`).  They fail the task that completes the start, or
`sch_start`, and what follows from a failed task is in `Pipeline`.

## SyncQueue

`sq` is a record of the fields that decide (heads, time bases, finished streams,
finished head, head stream), so that `FinishStream`, `QueueHeadUpdate`,
`StreamUpdateTs` and `TbUpdate` are functions of a queue, as in the code.
`Send` and `SendNull` are `sq_send`; then, as both callers do, `sq_receive` is
called until it answers EAGAIN or EOF: `Receive` returns a whole frame,
`ReceiveSamples` and `CopySamples` the loop of `receive_samples`, `Overflow` and
`Heartbeat` the loop of `overflow_heartbeat`, `ReceiveEof`, `ReceiveAgain` and
`RetryAgain` the other returns.  The callers' handling of a returned frame is
`HandOn`, where an encoder that is at its end makes them send NULL.

Timestamps count ticks of their stream's time base; a time base is a number of
common units, so that `av_compare_ts` compares products and `av_rescale_q`
rounds a quotient.  A sample of sound lasts a number of units too, and the duration
of samples, and the shift of a timestamp by those consumed, is rescaled as the code
does it.  Rounding shows in the properties: `HeadIsMin`, `NotAhead` and
`EndsWithShortest` hold up to half a tick for each head that heartbeats moved before
the first frame of its stream told its time base (`Rounding`), and exactly where time
bases divide the initial one.  `NOPTS` is a number below all timestamps that adds up as
`INT64_MIN` does.  Left out: allocation failures, and a frame limit of 0, which
finishes a stream while others are still being added.

## SchedGraph and Choking

A node is `<<type, idx, idx_stream>>` as in `SchedulerNode`; `SchedGraph` holds what
`sch_add_*` and `sch_connect` build, with the asserts of `sch_connect` as
`MayConnect`, and `start_prepare` with the depth-first search of
`check_acyclic_for_output` as a recursive function on its stack and marks.
`Choking` is `schedule_update_locked`: all it reads is protected by
`schedule_lock` and kept in the record `sched`, so a change with the update after
it is one step, `ScheduleUpdate`.  `Unchoke` is the mutual recursion of
`unchoke_for_stream` and `unchoke_downstream`; `frozen` are the thread queues that
`choke_demux` choked.

## Pipeline

A thread is its program counter and `todo`, the calls it has begun and must
finish one at a time; each call takes a lock once and is one step, and what a
handler has read before it is not read again, so that it may be stale.  Tasks
are demuxers (`DemuxNext`, `DemuxSend`, `DemuxLoop`, `DemuxDone`), decoders
(`DecRetry`, `DecReceive`, `DecCheck`, `DecDrain`, `DecDone`: `sch_dec_receive`
with its overflow FIFO), filtergraphs (`FilterWish`, `FilterReceive`,
`FilterPoll`, `FilterWait`, `ReadFrames`, `RequestFrame`, `FilterDone`), encoders,
muxers, and the main thread (`FirstUpdate`, `Quit`, `Terminate`, `ChokeAll`,
`Join`).  libavfilter is external: a graph takes a frame from each input and makes
`rate` frames of it, `limit` times at most.  `TqGet`, `TqEnd`, `TqOver` and
`TqEmpty` are what `tq_receive` may return, `SendItem` and `CloseInput` the sending
side.  `SyncSend`, `SyncClose` and `SyncHand` are `send_to_enc_sq`, which holds the
lock of the sync queue (`sync.owner`) while it hands frames to any of its encoders.
A task of `may_fail` may fail (`Fail`) before its first turn, between two turns, or
when an encoder cannot be opened; `CleanUp` is what `task_cleanup` then does.  Left
out: allocation failures, heartbeats of subtitles, the packet counters, and the
overflow heartbeat of the sync queue, which are in `MuxStart` and `SyncQueue`.

Two kinds of graph are not among those of `MCPipeline`, as the code does not keep
what the properties ask:

* A bitstream filter that makes two packets of one, for a stream whose other end
  has finished: `do_send` counts the stream as finished for each packet
  (`ffmpeg_demux.c:600`), and the demuxer may end before its other streams do.
* A filtergraph with two outputs of which one never has a frame: `got_frame` is one
  flag for all outputs (`ffmpeg_filter.c:2655`), so that the encoder of the dry
  output is closed without having been opened (`PipelineDryOutput` shows it).

A third is not built at all: a decoder that feeds an encoder without a
filtergraph, which only subtitles do.  A loopback decoder that never got a packet
sends no EOF frame; the end of the stream itself still reaches the filtergraph.

## Media

A file is a job of `MCMedia`: streams with a time base, distances between packets
and kinds of packets (key, delta, without timestamp, wrong, not decodable), cuts
with an offset, and what is done with them.  `ReadPacket` chooses the next packet from
the media time it belongs to, which the program does not see, `Cut` and `Stall` jump
in the file and in the wall clock, `FlushEnd` and `EndOfFile` are `seek_to_start` and
the end of `input_thread`; then each component takes what
is first in `work`: demuxer (`ts_fixup`, `ts_discontinuity_process`,
`ist_dts_update`, `readrate_sleep`), decoder (`audio_ts_process`,
`video_frame_process`, subtitles), `FrameSync` (`choose_out_timebase`,
`audio_filter`, `video_sync_process`, `sub2video`), encoder and muxer
(`of_streamcopy`, `mux_fixup_ts`, recording time, file size).  Each operator of the
five modules is one function of its file and takes and returns the struct that
function works on.  The codecs are external: one frame of a packet, one packet of
a frame.  Numbers are `Int`; the thresholds are those of the options.

## Setup

The record `prog` is the state the option code builds, and each operator one of its
functions, from such a record `w` to another; once `w.err` is set, the rest of the
functions leave `w` as it is, as the early returns do.  `CommandLine` splits words into groups and
matches stream specifiers, `InputSetup` opens files and corrects their start
times, `Bindings` creates decoders and binds filtergraphs in the two phases of
`fg_finalise_bindings`, `OutputSetup` is `of_open` with automatic and mapped stream
selection, encoders, sync queues and heartbeats, `Metadata` is `copy_metadata` and
what follows it, `SchedSetup` the `sch_add_*` calls.  `Setup` is `ffmpeg_parse_options`
step by step, and `main` run again in the same process with what
`resetFFmpegGlobal` resets.  What an argument means has been parsed already, and
files are records of what libavformat would find.

A link label that names neither a decoder nor an output is read as the code reads
it: without a number in front it is file 0 (number 1 here), and what is left after a
specifier is ignored, so that `[x]` takes the first stream of the pad's type
(`NamedStreams`).
Left out is the `map=` and `stg=` of IAMF groups (`ffmpeg_mux_init.c:2540-2614`).
An encoder of another type than its pad is refused by libavcodec, as it has no
formats of that type, before `ofilter_bind_enc` asserts the type.

Command lines that are not in `MCSessions`, as the code fails an assertion on them:
two outputs from one file with a grid of tiles, where the second finds the
filtergraph output bound (`ffmpeg_filter.c:824`, as `map_auto_video` does not look);
and an attachment in a file with a heartbeat option that names no stream, for which
`mux_init` (`ffmpeg_mux_init.c:1989`) finds no encoder.

## Runs

| Run | Question | Bounds |
|---|---|---|
| ThreadQueueMain | wake-ups, order, EOF, refinement of `StreamChannel`; finished streams end, sleeping sends return | two producers of one stream, a second stream, queue of 2, two items per stream, spurious wake-ups, choking |
| ThreadQueueNoMem | what still holds when `av_container_fifo_write` fails | the same |
| MuxStart | a stream copy racing a late encoder, a header that fails, overflow, a muxer that stops; two muxers that wait for each other and the SDP, dts order of the flush, heartbeats that find room; muxing starts, and a muxer's thread ends unless the end of a stream was lost | one muxer with two streams, the same with pre-muxing queues that ends do not fit in, two muxers with three streams; one to three packets, queue of 1 |
| MuxStartLostEnd | *violated*: the end of a stream that finds its pre-muxing queue full | one muxer with two streams |
| MuxStartBeatDeadlock | *violated*: heartbeats that find no room | room for one |
| SyncQueue | two limiting streams, one with a number of frames, beside two others of which one is cut into frames of three samples; gaps, long frames, no timestamps, heartbeats, encoders that refuse | four streams of 4 to 6 frames |
| Pipeline | thirteen graphs: nothing lost, swapped or left, no deadlock, outputs kept together, cycles refused | at most two files, two decoders, filtergraphs, encoders and muxers; queue of 1, tolerance of 2, 1 to 6 packets |
| PipelineStops | ten graphs: every thread ends after the last muxer, a quit at any time, or the failure of a task of each type | the same |
| PipelineDryOutput | *violated*: the encoder of a filtergraph output without frames is opened before its end | one file, one filtergraph with two outputs |
| Media | seventeen jobs: packets are where they belong in time, the muxer guesses nothing, sound has no holes, the rate is kept, subtitles do not overlap | 200 to 300 ms, 1.2 s when read at a rate; at most two streams, two cuts, two stalls |
| Setup | 2533 processes: what is not refused can be started, queues where they are asked for, no stale tags | one or two command lines each, over seven files and five outputs |
| SetupFreshStart | *violated*: global options in a second run | the same |

The bounds are chosen so that each queue is full and empty, each stream ends
before and after the others, and each branch of each function is taken; more
items repeat states that differ in numbers only.  The passing runs between them
take every action.  Every property of a passing run is also checked against a
mutation of a definition that models code, named `X_Something` beside the
definition `X` it replaces, and fails there.

*Pipeline.*  A thread queue holds one item (the code has 8 by default), which makes
senders block most often; the tolerance of rate control is 2 units.  `LocalFirst`
is an action constraint that takes steps first which neither read nor write what
another thread does (the choice of the next packet, the calls a decoder or
filtergraph plans in its own memory).  Such a step commutes with every step of
another thread and cannot be disabled by one, and no invariant tells the states
before and after it apart, so every reachable state the properties look at is still
reached, in one order; of several threads with a local step one is picked.  `Paced`
has in each graph a slack for what is under way when a source is choked: one packet
in each queue and task on the way.  Graphs that `sch_start` refuses are among the
initial states, so that `RefusesCycles` is checked in both directions.

*Media.*  A second has 1000 units instead of a million (`AV_TIME_BASE`), frames take
32 or 40 ms, and clocks wrap at 2^10 where a file has 2^33.  `OnTime` allows 5 ms
for rounding, 20 ms where sound is stretched over a loop, 80 ms where pictures are
moved to regular times and 300 ms where subtitles are delayed; a shift lost or
applied twice is at least 80 ms, and in jobs with cuts 20 s or more.

*Setup.*  24617 states, 27 steps in the longest process; about 900 of the processes have
a run that starts, the others are refused for about 30 different reasons, 89 of them
only at the start, for an unused loopback decoder or a cycle.  Deadlock is not
checked: a process that has no further command line is idle.

In all other passing runs deadlock is checked: the final states stutter explicitly
(`Terminated`, `Finished`), so that any other state without a step is an error.

## Fairness

`ThreadQueueMain`: weak fairness for each thread inside a queue function, as a
thread that can take its mutex will.  For the consumer it includes beginning the next
call: every consumer is the loop of a task that calls `tq_receive` again after each
item (`sch_dec_receive`, `sch_filter_receive`, `sch_enc_receive`, `sch_mux_receive`).
Producers need not begin a call, nor end a stream.  The properties speak of queues
that are not choked for ever; rate control owes that, as an output that trails is
fed (`TrailingFed`) and the stop lets everyone go (`Stops`).  `MuxStart`'s `FairSpec`: weak fairness for `sch_start`, for the thread that
starts a muxer, for producers inside `send_to_mux` and for the muxer threads;
producers need not open or send.  `mux_ready_lock` is contended a bounded number
of times, so weak fairness is enough for those who wait for it.

`Pipeline`: weak fairness of the steps of all threads together.  It says only that
some thread that can run does; which one is left open, so nothing is assumed of
the operating system's scheduler.  The user need not quit and tasks need not fail:
`Fail` is one of several steps its thread could take.  `Stops` holds all the same since
the threads have a bounded amount of work.

## Proofs

Checked by TLAPS for every value of the constants:

* `ThreadQueueProofs`.  `TypeCorrect` holds always; the rest when no allocation
  fails.  The inductive invariant says that the two FIFOs have the same length
  and the indices name the items' streams; that for a stream not finished by the
  receiver the queue holds exactly the accepted and undelivered items, in order;
  that a sleeping sender sees a full queue and a sleeping receiver an empty or
  choked one with no end to report.  The type invariant alone does not say why
  the head of the queue is the next item of its stream.  From it follow
  `SendersWakeUp`, `ReceiverWakesUp`, `EofIsLast`, `IndicesMatch` and
  `ImplementsChannel`: every step is a step of `StreamChannel` or changes nothing
  there.
* `SyncQueueProofs`.  Assumed is `ProperSources`: a frame has a timestamp that is
  not negative, or none and then no duration.  Nothing is assumed of the time bases:
  the conversion of a head rounds, and the statements say by how much (`RescaleBounds`: a
  conversion is off by half a tick at most).  The inductive invariant `SafeInv` adds to the properties
  that heads are timestamps, that what is being copied was released, and that a
  heartbeat in progress has a stream; the lemmas show for each function of the
  queue's fields that it keeps the head stream lowest and the ends right, and
  that it only moves time forward (`Later`), from which `NoStreamGetsAhead` and
  `FinishedDoNotMove` follow.  Three further invariants rest on it.  `ReleaseInv`
  (the head stream is determined as soon as every limiting stream has a timestamp;
  the thread goes idle only when nothing is ready; after EOF all streams are
  finished) gives `AllReleased` and `NothingAfterEof`.  `SamplesInv` says that
  `samples_queued` is the number of samples in the FIFO, as some function counts
  them from each frame to the end, and gives `CopiesFindSamples`.  `SizeInv` says
  that a copy is shorter than a frame only if its stream is finished and has no
  other samples, and gives `SizesAreConstant`; it assumes besides that the frames of
  a stream with `frame_samples` have samples (`AudioFrames`).
* `PipelineProofs`.  `NoQueueStaysFrozen`: for every graph, whatever the threads do,
  the queue of a decoder is frozen only while the demuxer that fills it is choked
  (`FrozenOnlyWhenChoked`).  The converse does not hold of the end of a queue:
  `tq_send_finish` thaws it, and `tq_choke` may freeze it again afterwards, so that the
  decoder sees the end when the demuxer is let go.  The lemmas take the three ways `frozen` changes (an update, the
  stop, the end of a queue) and then every step of a task.
  `NoStaleDecision`: the flags of the waiters are at all times what
  `schedule_update_locked` would decide from the present state, though it is called
  at few places; whatever changes the last dts of a stream, what has exited or what
  is finished has to call it under the same lock.  After `sch_stop` only decoders are
  let go, and a late update changes nothing.  The invariant, `DecisionInv`, adds
  that the stop has been asked for exactly when the main thread is past it.
  `ASourceIsLeft` follows with what a search for the first source finds
  (`OnceOpens`): "make sure to unchoke at least one source, if still available", as
  the comment in the code has it.
  `TrailingProceeds` is about the operators, for any timestamps and any finite
  number of streams: while an output is not finished, one may proceed.  It needs
  a positive tolerance (`ToleranceAssumption`; `SCHEDULE_TOLERANCE` is 100 ms), as the
  trailing stream itself is compared with a strict `<`.
* `MuxStartProofs`.  For any muxers, streams, packets and sizes of queues:
  `StartTypeCorrect`, `SdpIsFirst` (no muxer thread runs before its header is
  written, nor before all headers and the SDP when there is one) and
  `NoPacketStranded`.  Neither of the last two is inductive.  `StartInv` adds what
  the counters mean: `nb_streams_ready` counts no stream that is still to be
  opened, so only one stream is the last of its muxer and its header is written
  once; `nb_mux_ready` is the number of headers written, so that reaching
  `nb_mux` means all of them; every muxer in the list of those to be started may
  run; the lock is held only while that list is not empty; and before
  `sch_start` nothing moves.  That the list contains every muxer of a set needs
  a count (`InSequenceLists`).  Assumed is `InstanceAssumption` only.

  Where a packet can be decides its order: waiting before the
  start, in the muxer's queue, in the hands of the muxer's thread while that sends a
  heartbeat, or written.  `OrderedInv` says that along this way the packets of each
  stream go by their numbers, and that as long as the muxer takes the stream there
  is none missing up to the next one to be sent.  It needs two facts about the
  unlocked look at `mux_started`: a producer is on the direct way only when its muxer
  has started, and no muxer is started twice, as a second flush would mix with
  direct packets.  From it follows `StreamsInOrder`, without further assumptions.
  `FlushedByDts` (`FlushInDtsOrder`) assumes `DtsRising`, that the dts of each stream
  do not decrease: `mux_task_start` compares only the first waiting packet of each
  stream.  Encoders and demuxers owe it, as `mux_fixup_ts` comes only after; all
  streams of `MCMuxStart` have it.

  What follows is for every graph that satisfies `GraphsAssumption`.  That
  says what the `sch_add` functions and `sch_connect` build, in the terms of
  `WellFormed`, and three things about their callers: an encoder is made for an
  output stream, sync queues are made of encoders, and decoders feed filtergraphs,
  as subtitles, which go to encoders directly, are not in this model.
  `PipelineTypes` is `TypeOK`, `NothingSentAfterEnd` is `Orderly`.  `Orderly` is not
  inductive: a call may have been planned long before it is made, and a stream may
  be finished for sending by the task that sends on it, by `mux_init` when the end
  waited in the pre-muxing queue, or when a send was turned away, which
  its task has still to record.  `PipeInv` therefore speaks of all that a task has yet to
  do (`todo`): nothing in it is a send on a link that is recorded as finished, and
  no send follows the call that finishes its stream; and of all that is finished
  for sending: it is no longer received, or its sender has recorded it, or, behind
  a sync queue, the queue has nothing left to give.  It also counts: `nb_mux_done`
  is the number of muxers that have reported.
  The module states `PipeInv`, shows that each call keeps it and that the
  lists of calls that the handlers make (`CloseAll`, `FlushCalls`, `CloseCalls`,
  `ReadCalls`, ...) stand in such an order, and then takes the threads step by
  step.
* `ListProofs` has what the others need about sequences: which elements
  `Kept` and `FlattenSeq` keep, and that they keep their order.  As these two are
  recursive, it first shows that a recursion of n steps has a result, by
  well-founded induction over a set of numbers.
* `BindingProofs` and `SetupProofs`, for any command lines, input files, formats,
  encoders and decoders.  Assumed is what libavformat and the parsers owe:
  `InputFilesAssumption`, that the streams, groups and tiles of a file come in lists
  and that a file brings no filtergraph of its own, and `SessionsAssumption`, that
  command lines are lists of words and the open pads of a described filtergraph
  are lists.

  `GraphBuilt`: as long as nothing has failed, the graph is `WellFormed` and every
  encoder in it sends to a muxer.  So the first two things that
  `GraphsAssumption` asks of the graphs of `Pipeline` hold of every graph that the
  program builds.  `QueuesSetUp` is `QueuesAsNeeded`.

  Neither is inductive, and a step is the whole of `of_open` or of `ifile_open`, a long
  row of functions that each leave something for the next.  What holds between them is `Sound(w, e)`: the tables of files and filtergraphs
  are lists (`Usable`), the graph is well formed and has a filtergraph for each in
  the table, no two of which share one (`Grids`), and every encoder but number `e`
  feeds a muxer, where `e` is the one that has just been added (`FedBut`).  The hard
  part is `fg_finalise_bindings`, which takes filtergraphs of tile grids away again
  when nobody needs their output: `Grids` says of such a filtergraph that it is
  connected to nothing until its output is needed.  So taking it away, which gives
  the filtergraphs behind it other numbers in the table and leaves its place in the
  graph without inputs and outputs, cuts no connection.
  Each `sch_add` function, and `sch_connect`, has a lemma that the graph has only grown
  and its ends still agree (`Grown`); what puts streams to use and binds pads is made
  of those (`Moves`, `Binds`).  For an output file, `Ready(w, o)` adds that its streams
  are a list of records with all their fields, `Adding` that whatever adds a
  stream leaves the other files alone.  `SetupInv` says which of these holds at each
  `pc`, and of which output files the queues are already set up.

  The option code is full of loops, which are folds in the models.  Induction over
  data takes an operator as a parameter, which the provers cannot instantiate; but an
  `INSTANCE` can.  `Folding` therefore has a step `Op` and an invariant `Good` as
  constants, shows once that what every step keeps holds of the result, and is
  instantiated for each loop.

Only model-checked:

* `Whole` and `Paced` of the pipeline: the first is about what arrives at the end of a
  finite run, the second has a bound for each graph.  `RefusesCycles` is about the
  result of a recursive search, which would need induction over its stack.
* `AheadIsBounded` of the sync queue, whose bound depends on the instance's rounding.
* Everything about `Media`, whose properties hold for the jobs of `MCMedia` within
  tolerances for rounding, and depend on their data (where packets lie in time),
  which no invariant of the program speaks of.
* `StartsUnlessRefused` and `NoStaleTags` of `Setup`.  The first rests on
  `check_acyclic` as `RefusesCycles` does.  The second is stated of the state after
  `set_dispositions`, while tags go by the specifiers of options before it: one that
  asks for a disposition may match other streams by then, so that it holds of
  command lines without such specifiers, as those of the instance.
* All liveness, since fairness and ENABLED are out of the prover's reach; so is what
  a recursive definition computes for every input.

## Findings

PROJECT.json quotes for each the line that says otherwise:

* The start of a muxer can deadlock with subtitle heartbeats.
* An output of a filtergraph that never has a frame leaves its encoder unopened when
  another output of the graph had one.
* The end of a stream that finds its pre-muxing queue full is lost, and the muxer's
  thread waits for it for ever.
* Global options of one command line stay in force for the next in the same
  process.

Met while modelling, and kept in the models as the code has it, or left out of the
instances where a property would fail:

* Thread queues: `tq_send` leaves an index without an item when an allocation
  fails, after which items come under the wrong stream (`IndexMatchesItem` is
  claimed without such failures only).
* Muxer start: `data_size` of a pre-muxing queue is only ever added to; and `mux_task_start` gives up
  half-way when memory runs out.
* Sync queue: a limit on frames is compared with a rounded-down count when frames
  have a constant size; then also an overflow heartbeat may release nothing; the
  sum of no timestamp and a duration counts as a timestamp; a limiting stream that
  ended before its first timestamp gets no heartbeat, and nothing bounds what the
  others buffer; a faked head is rounded to a time base that need not divide the
  initial one; a limit of 0 finishes a stream while others are being added.
* Pipeline: the two kinds of graph described there.
* Encoders: subtitles that are encoded are not shifted by the start time of the output
  file, as `-ss` for an output shifts everything else.
* Decoder and filters: `fix_sub_duration` never sends the last subtitle it kept at
  the end of the file, and a heartbeat's copy keeps the whole display time;
  `audio_ts_process` takes the number of samples for a duration although the time
  base may be another after a change of rate; after a duplication that is too
  large, constant frame rate conversion goes on skipping.
* Setup: two unlabelled inputs of a filtergraph mark the same output in the first
  phase of binding, so that the second output is refused; a loopback decoder without
  a taker is an error only at the start; `correct_input_start_times` does not look
  at `-seek_timestamp`; metadata can be mapped to the output's chapters and programs
  by its syntax but never by its code.

## Not modelled

* What codecs, formats and filters compute, and what configures them: these are
  calls into libavcodec, libavformat and libavfilter, which are not in this
  repository.  With it goes the reconfiguration of filtergraphs.
* `textformat/`, `ffprobe.c`, `ffmpeg_graphprint.c`, `ffmpeg_resman.c`: sequential
  code from values to text, run by one thread, whose properties are its wording.
* `ffmpeg_hw.c`, and hardware formats in decoders and filtergraphs: what happens
  there is decided by drivers.
* `objpool.c`, which nothing uses.
* The rest of `native-lib.cpp` and the Java code: one executor runs one command
  at a time, virtual keys are written and not read, and the surface is handed to
  the decoders of libavcodec; a model would restate its few assignments.
* Log output, statistics and the report; the keyboard commands; the second and
  third signal, which end the process.
* The tables of options, and the conversion of their values.
* Build and test scripts.
