# Verification project for modern_android_dev

The repository is a collection of twelve Android and Spring programs, most of
them studies of one platform feature. This directory models the parts that carry
logic of their own in TLA+, checks them with TLC on small instances, and proves
the most important results for every value of the constants with TLAPS.

Every definition is translated from the code of the repository, the vendored Asio
headers included. The Android framework, CameraX, ExoPlayer, OpenSL ES, the NDK camera, the
Paging library, POSIX threads and epoll are not in it: their actions are modelled as far as the code relies on them and are marked
`external` in the map of PROJECT.json. The map names the source lines of each
definition; PROJECT.json also lists the components, the hazards, the runs with
one mutant per property, the findings and the theorems.

- [1 Inventory](#1-inventory)
- [2 The models and the code](#2-the-models-and-the-code)
- [3 Runs](#3-runs): what each shows, its bounds and its fairness
- [4 Findings](#4-findings)
- [5 Proofs](#5-proofs)
- [6 What is not modelled](#6-what-is-not-modelled)
- [7 Plan](#7-plan)

## 1 Inventory

### Modelled

| component | code | state | operations | hard because |
|---|---|---|---|---|
| asynchronous conversions | HelloKtorfit `AudioExtractManager`: `pcmToMp3`, `pcmToAac`, `oggToPcm`, `flacToPcm`, `yuvToh264` | two streams, a `MediaCodec`, a continuation | start, the three callbacks, cancellation | callbacks posted by a codec, run later by a looper; a caller that may be gone; faults of the codec |
| video decoding | the same: `decode`, `videoToYuvPcm`, `videoToYuvPcm1`, `h265ToYuvPcm`; `Utils.extractPcm` with a `decode` of its own | one extractor, two decoders, the selected tracks | decode track 0, then track 1, release | the first decoder is still alive while the second reads the same extractor |
| blocking extractors | the same: `extractAudioToPCM`, `extractAudioToPCMV2`, `extractAudioFromVideo`, `extractAudioFromVideo1` | extractor, codec or muxer, file | poll input, poll output, copy | one thread feeds and drains; exceptions anywhere |
| voice recorder | WebViewLearn `VoiceManager`, `VoiceScreen` | `isStart`, the `AudioRecord`, `hello.pcm`, `hello.wav` | start, stop, leave | a button on the main thread, jobs on IO threads, one recorder and two files |
| video capture | WebViewLearn `CaptureManager`, `VideoScreen` | the `recording` field, CameraX's recordings, their rows in the media store | start, stop, hide, finalize event | a field that outlives the recording; a stop before the recording has begun; events delivered later |
| image cropper | ImageCrop `CropActivity`, `CropScreen`, `calculateInSampleSize` | crop rectangle, active corner | drag, exit, confirm, subsample | a long sequence of drags at edges and minimum sizes; rounding; overflow |
| PCM player | OpenSLLearn `openSLESPlayPCM`, `bufferCallback` | engine, mix, player, heap context | set up, prime, callback | the callback destroys what it was called with, while the caller is still using it |
| recorder | OpenSLLearn `OpenSLESRecorder`, `recordCallback` | engine, recorder, context, one buffer, file | construct, callback, destroy | the constructor calls the callback that OpenSL ES also calls; the destructor frees its context |
| file players | OpenSLLearn `OpenSLESPlayer`, `openSLESPlay` | player, position, prefetch status | play, pause, stop, seek, duration | a query that polls and changes the play state; a sleep that wraps |
| camera | OpenSLLearn `NDKCamera`, `MusicScreen` | chain of NDK objects, `yuv.yuv`, the screen's pointer | create, release, frame | steps that fail half way, a listener thread, two cameras on one file |
| photo list | HelloKtorfit `PhotoSource`, `PhotoRepository`, `GreetingScreen` | pages loaded, refresh state, coroutines of the screen | load, refresh, pull, delete by row | rows move between a press and the coroutine that looks them up; pages of two sizes under one numbering |
| thread pools | HelloKtorfit `hello1`, `hello2`, over the vendored Asio scheduler and epoll reactor | queue, outstanding work, mutex and event, reactor, timers; caller, threads, coroutines | build, spawn, wait for the results, release or stop, join | wake-ups between threads of which one sits in `epoll_wait`; one count whose last release stops all; exceptions that unwind through joins |
| audio screen | HelloKtorfit `AudioScreen`, `AudioRecordManager`, `AudioTrackManager` | recorder, PCM file, track, channel, bars | record, stop, play, pause, leave | nothing prevents a second press; a rendezvous channel that drops; short writes to a paused track |
| music service | HelloKtorfit `MusicService`, `ServiceScreen` | player, notification, commands on their way | start, toggle, previous, next, removal, kill, restart | commands decided on arrival, not when pressed; restarts with a null intent; a notification that follows some changes only |

They do not share state with each other, except that the cropper calls
`calculateInSampleSize` twice (module ImageCrop composes the two) and that the
conversions of AudioExtractManager use a codec of the same behaviour.

What makes each one correct, and is checked below:

- A **conversion** writes the units of its source in order and once, touches no
  stream after closing it, answers its caller at most once and only for a
  complete file, and hangs only when the codec left it no other way.
- A **decoder** is given its own track, all of it up to an empty sample, and no released extractor.
- A **blocking extractor** that met no exception has written everything, ends,
  and leaks only what its exits demonstrably leave behind.
- The **microphone** is never on without a reader or behind a button that says
  "start", and a finished WAV file is what its header says, unless the user was
  quicker than a job or a file failed.
- The **crop rectangle** stays in the image and keeps its ratio whatever is
  dragged, and the region decoded lies in the source.
- **Native callbacks** find their objects alive, what is started is destroyed unless its
  construction threw or its screen was left, and files are whole recordings or whole frames.
- A **video recording** that runs is reached by the stop button of its visit, and is finalized
  as a video or without a row in the media store.
- A **thread pool** counts its work exactly, loses no wake-up, neither stops early nor
  runs on, and hands each result over once and not before its second is over.
- On the **audio screen** a microphone that is on is read, the bars show what was measured
  in order, and every call ends.
- The **music service** shows a button that is right and plays what was asked for, but for
  the restarts and crossed presses that are stated.
- The **photo deleted** is the photo pressed, and a list loaded to both ends has
  every photo; where that fails, it fails only in the way that is stated.

### Not modelled

PROJECT.json lists every other component with its sources and the reason; section 6
gives them together.

## 2 The models and the code

| module | models | notes |
|---|---|---|
| `Transcode` | the abstract promise of a conversion | `Deliver` may write on after `Abandon`: cancelling withdraws the caller's interest and nothing else |
| `CodecPipeline` | the five conversions with a callback | refines Transcode |
| `VideoDecode` | the functions over both `decode()` | the codec of CodecPipeline without outputs |
| `SyncExtract` | the four blocking extractors | |
| `VoiceRecorder` | screen, jobs, recorder, files | a chunk is the job that wrote it |
| `VideoCapture` | screen, manager, CameraX's recordings | |
| `CropRect` | arguments, rectangle, drags, confirm | |
| `SampleSize` | both `calculateInSampleSize` | loop step by step, `Int` of `Bits` bits |
| `ImageCrop` | CropRect with its two calls of SampleSize | implements CropRect (proved) |
| `PcmPlayback`, `SlesRecorder`, `SlesPlayer`, `NdkCamera` | the native components | |
| `PhotoPaging` | photo list | |
| `AsioScheduler` | scheduler, event, epoll reactor, timers | the library's part; its operations name the coroutines |
| `AsioPool` | `hello1`, `hello2`, `thread_group`, the coroutines | extends AsioScheduler |
| `AudioRecordManager`, `AudioTrackManager` | one manager each | composed by AudioScreen |
| `AudioScreen` | the screen, the channel, the bars | extends both managers |
| `MusicService` | service, notification, ExoPlayer's states | |
| `CodecPipelineProofs`, `DecodingProofs`, `RecordersProofs`, `CropRectProofs`, `NativePlayersProofs`, `PhotoPagingProofs`, `AsioPoolProofs`, `AudioScreenProofs` | theorems | section 5 |
| `MC*` | instances for TLC | values of the constants; `MCDecoding`, `MCRecorders` and `MCAudioScreen` (with MusicService) put two modules side by side that share nothing, `MCNativePlayers` four: in each behaviour one of them runs and the others stand still in a state they end in, so that one run answers for all |

How state and actions correspond to code, where it is not the name:

**CodecPipeline.** `cont` is the continuation of `suspendCancellableCoroutine`.
`Unsupported`, `Start` and `SetupThrows` are the function's body, `Cancel` is the
caller's job being cancelled (there is no `invokeOnCancellation`, so nothing else
changes), and `OnInput`, `OnOutput`, `OnError` are the callback object's methods,
each with its `?: return` and throwing variant. A unit is one read of the source.
The codec (external) owns `Buffers` input buffers and puts outputs in order; it
posts every callback on one `Handler`, the queue `handler`. It stops offering
input once it has taken an end of stream: that is why callbacks posted before
remain and each queue another end of stream. `flacToPcm` behaves like
`oggToPcm`: the extractor advances only for data. In `yuvToh264` a read counts as
data only if it fills a frame, so a short read in the middle is an end of stream
although later reads still bring data; `Deliverable` says how many units the
caller is promised then. Opening the output comes in the middle of the set-up, so that
`SetupThrows` may leave both streams open, whether the caller is still there or not.

**VideoDecode.** `pc` is the place of the coroutine in the calling function. Both
tracks stay selected, and `Supply` is what `readSampleData` may return: a sample
of any selected track that has one left. `outOpen` of a decoder is closed by its
end-of-stream callback. A sample of no bytes (`empties`) is queued as the end of stream,
wherever it stands; `lost` counts the buffers a null check kept, `missed` the end of stream that
came with another flag or without a buffer, and `crash` the exceptions that leave a callback:
reading a released extractor, or a sample larger than the array it is copied through.

**SyncExtract.** `live` is what has not been released; `LeftByCatch` is what each
function's catch and finally leave behind. Poll timeouts are the case of nothing
ready.

**VoiceRecorder.** `Check` .. `CopyWav` are the phases of `startRecord` on an IO
thread between which the button can act; `hasty` records that a press overtook a
job. The recorder's read returns a chunk, ends after `stop()`, or fails after
`release()`. An exception in a job or a click ends the process.

**VideoCapture.** `recording` is the manager's field, `phase` what CameraX does with each
recording, `posted` the finalize events on their way to the main thread. CameraX (external)
finalizes a recording that was stopped while it was still pending with
`ERROR_NO_VALID_DATA` and `Uri.EMPTY`, and the `delete` of that uri throws. It ends a
recording on its own when its source goes away; nobody resets the field then.

**CropRect.** The code calculates in `Float`s; the model in whole units of the screen,
rounding down where the code divides. What depends on it: `RatioKept` is stated
up to a rounding of one side. `coerceIn` throws when its bounds cross
(`DragThrows`), and where they are equal in whole units the `Float`s may cross by a rounding, so
that it may throw there too (`BoundsMeet`). `Confirm` computes the source region, `Decode` what the region
decoder makes of it.

**ImageCrop.** `Show` is opening with the first sampling, `Done` the confirm click
that starts the second, `Loop` a turn of the loop, `Finish` the decoding. The main
thread is `Busy` in the loop and takes no drag.

**PcmPlayback, SlesRecorder, NdkCamera.** Set-up is a sequence of named steps, each of
which may fail the way the code handles failure (`goto error`, an exception
from the constructor, a plain `return`). Callbacks that consist of several
effects are split where the other thread can come between: in SlesRecorder
between `Enqueue` and `fwrite`, in NdkCamera between planes. The recorder's constructor calls the callback
itself, after the microphone was started: `PrimeFails` is its exception there, which leaves the microphone
on, `CallbackRefused` the same exception on the thread of OpenSL ES, which ends the process. `Leave` is the camera's screen going
away, by navigation or a rotation: the pointer is in a plain `remember`, and no effect disposes of the camera. After a use of freed
memory the models go on with the outcomes the code can have and record it
(`touched`, `late`, `twice`); what follows a second delete is not explored.

**SlesPlayer.** A tick is the unit of time of files, the playback head and `usleep`;
`SleepsFor` multiplies and wraps at `Word`, as the `usleep` argument does. Head and sleep are two
clocks (`Tick`, `SleepTick`): the player may start late or starve, and the sleep may be cut short
(`SleepInterrupted`), which the code only logs. So what `openSLESPlay` promises is how long it waits and not
what is heard (`WaitedForTheFile`).

**PhotoPaging.** `wanted` is a `refresh()` the library has not begun with. `RefreshKeys`
is what `getRefreshKey` can return for the anchor positions a list can have.
Deleting is a coroutine: `PressDelete` launches it with the row, `DeleteCalls`
looks the row up, the server answers, three seconds pass, the list is
refreshed and awaited. `Without` is what the server's list is after a delete; it is written as a recursive
function and not with `SelectSeq`, of which the provers know nothing.

**AsioScheduler, AsioPool.** A critical section is one action; `pthread_cond_signal` comes
after the unlock and is a step of its own (`Signal`), and so is each phase of a
worker outside the mutex (`pc`). `TaskOp` is the reactor's place in the queue,
`interrupter` the event descriptor of `interrupt()`, `alarm` the timer descriptor. A
coroutine's steps, from the registration of its timer service to the release of its work, are those
of the worker that runs it. Which `get()` comes first is not specified by C++: `order`
is any. A constructor of a thread may throw, and `epoll_wait` and the condition variable may
return for nothing (`spurious`).

**AudioScreen.** `Record` .. `RecordThrows` are the phases of `startRecord` on an IO thread,
`Listen` and `Show` the consumer of the channel on the main one; `WriteAndSend` hands its
volume over only if the consumer is waiting, as `trySend` on a rendezvous channel does.
The volumes added up are in `window`, which lives as long as the process. `Hear` is the
track playing what it has room for; a paused track writes short. `Write` and `Read` go to the file at once:
okio's buffer, its flush and the close after the last read are part of them, which no property can tell, as a
file opened over an open call is an exception anyway. Two threads in one `AudioTrack.write` are taken to be serialised chunk by
chunk, and a track to play whatever it has been given, without the minimum it waits for at its start: Android
promises neither.

**MusicService.** `sent` holds the commands the system delivers later, each with what the
button said when it was pressed (a history). `OnIsPlayingChanged` is the listener: it compares
`isPlaying` before and after a step of the player and is part of every such step. `Kill` loses
the process, `Restart` is what `START_STICKY` promises: the same `onStartCommand`, with a null intent.

## 3 Runs

All runs switch the deadlock check off: each of these programs may simply be done,
or a bound be used up. Each property has a mutant in
PROJECT.json, a plausible change of one definition that TLC must find to violate it.

| run | states | what it shows |
|---|---|---|
| `codec_pipeline` | 95,114 | `IInv`, the inductive invariant of the proofs, with the order of the units through all queues and in the file; `NoUseAfterClose`; `Refines`: the pipeline implements Transcode; `HangsOnlyWhenStalled`: the call ends, and its output is closed unless the set-up threw after opening it, the codec failed, all input buffers were lost to the null check or an exception, or the end of stream was not recognised (`Settled`, `Stalled`) |
| `decoding` | 210,859 | `ReadsSafe`: own track only, nothing after release, and all of it, in order, up to a first empty sample; `ResultRight`: what a blocking extractor has written and what is unreleased at each exit (V2's file is always empty); `CallsEnd`: a call ends unless a decoder failed, all its buffers were lost to null checks, its end of stream was not recognised, or an exception in a callback ended the process |
| `recorders` | 322,893 | `MicrophoneExplained`, `WavFaithfulUnlessHasty`, `CrashesExplained` of the voice screen; `CaptureSafe`: the video buttons reach the recording, and deleting throws only after a stop that came too early; `SessionsSettle`: jobs and recordings come to their end |
| `image_crop` | 1,217,429 | `InsideImage`, `RatioKept`, `DragThrowsOnlyIfCramped`: a drag throws only where the bounds of `coerceIn` can cross or meet, `CropInSource`, `LargestSample`, `Returns` |
| `native_players` | 206,797 | `PlayerSafe`: clean ends, stop rewinds, head in the file, waited for as long as it lasts; `PcmSafe`: a callback finds its context, the file is heard in order and to the end; `PlaybackEnds`: every call returns unless it polls a file without data, and what was started is destroyed; `HoldingsSafe`: the camera's listener has its stream, its file is whole frames, what a half built camera holds can be released unless the screen was left; `DestroyEnds`: its destructor ends; `QueueSafe`, `FileFaithfulUnlessOvertaken`, `NoFillAfterFree` of the recorder |
| `photo_paging` | 1,343,276 | `DeletesThePressed`, `LossExplained` |
| `asio_pool` | 309,656 | `WorkCounted`, `NoLostWakeup`, `NoEarlyStop`, `DeliveredOnceInTime`, and `HelloEnds`: the call returns or throws unless it has no thread at all, or the pool could not be built and its threads join each other |
| `audio_screen` | 349,136 | `RecordingSafe`, `BarsRight`, `HeardInOrder`, `CallsEnd`; `MusicSafe` of the music service: the notification's button is right and its song when nothing changed silently; what plays was asked for last, but for a restart or a crossed toggle; `StartIsHeard` |
| `sample_swapped` | | the finding of section 4 |

Many of these properties have the form "right, unless ...". The exception is not a
weakening: it states exactly which accident the code does not survive
(a press that overtakes a job, a chunk recorded over one not yet written, a
refresh that moves the rows), and TLC confirms that there is no other.

### Bounds, and why they are enough

| run | bounds | because |
|---|---|---|
| codec_pipeline | 3 input buffers; sources of up to 3 reads; all faults at once | callbacks for three buffers can be pending when the source is exhausted; a short or empty read comes first, in the middle, and never. The safety part is proved for any number |
| decoding | 2 buffers, tracks of 0 to 2 samples; 2 inputs, 1 output, up to 4 samples | a second callback can be pending when the extractor runs dry; unequal lengths; fewer buffers than samples on both sides, so each side fills |
| recorders | 3 voice jobs, 2 chunks; 2 video recordings, 2 visits | a job overtaken by a stop and by two starts; a file with a hole; a recording that waits for the other's end, or is refused after it |
| image_crop | view 7x6, bitmap 5x6, minimum 2, drags of up to 2, eight ratios and two of mixed sign, four sources, `Int` of 6 bits | corners, edges and minimum are a drag or two apart; ratios free, square, flat, tall and with rounding; sources smaller than, as large as and larger than shown; doubling overflows within 6 turns |
| native_players | 4 calls, files of 2 and 4 ticks, word 11; PCM files of 0 to 5 blocks; 2 cameras, 2 frames each; 4 recorded chunks, 2 queue entries (as in the code) | seek and duration around a stop; one sleep wraps, one does not; PCM ends in the priming call or later; two cameras on one file, a frame after another; a recorder's callback is overtaken more than once |
| asio_pool | up to 2 threads, 2 coroutines (as in the code), 1 spurious wake-up or return | one thread in the reactor and one at the queue or asleep: every hand-over of work between the two roles; the code has one thread per core, all but two of which only sleep |
| audio_screen | 2 presses of record and play in all, 2 visits, 3 chunks a recording, a file of 2 chunks, room for 1 on the track, 2 volumes a bar, 4 bars; 3 songs, 5 commands, 2 kills | two recordings, two playbacks, or one of each; a bar that spans two recordings or two visits; a write that is cut short; bars pushed out on both sides; a first, a middle and a last song, two toggles on their way with a start and a skip, a restart that is killed again |
| photo_paging | page size 1, 4 photos, 2 coroutines (interchangeable), 2 presses, 2 visits | the first page of three and a remainder; a refresh from page 2, where a row can be missing, and past the end |

### Fairness

Only what the scheduler of the code guarantees is assumed fair, always weakly, and
never a user, a fault or a cancellation.

- codec_pipeline: the function's body, the codec's own work, and the looper that
  runs posted callbacks. A codec that failed is not obliged to anything.
- decoding: the coroutine, each decoder and each callback of VideoDecode; the calling
  thread of a blocking extractor, and its decoder when it has input and room.
- recorders: each job's next step, and the end of its reading loop (a recorder that
  was stopped or released may still hand out chunks, but not for ever); CameraX finalizes
  what was stopped, and the main thread delivers what was posted.
- image_crop: the main thread's turn of the loop, which nothing can preempt.
- native_players: a call that has begun, the two clocks (`Tick` of the player, `SleepTick` of
  `usleep`), and prefetching of a readable file; the caller, the player and the callback of PcmPlayback (whose `Destroy` from inside a callback is taken to return); the
  camera's constructor and destructor once begun, and each listener.
- asio_pool: every thread's next step, with it the mutex, which nobody holds for long; a
  `pthread_cond_signal` that is due; the clock. No spurious return and no fault has to come.
- audio_screen: the IO threads' steps, the main thread's consumers, and the track, which
  plays what it has; a player of the music service that buffers has enough in the end or fails.
- photo_paging checks safety only and assumes none, nor does the recorder in native_players.

## 4 Findings

- `sample_swapped`: the `calculateInSampleSize` used for the result (`Utils.kt`, line
  67) binds `(height, width)` to `(imageWidth, imageHeight)`, and compares each side with
  the other's request. A crop 3 wide and 6 high with 2 by 1 requested is halved to a width of 1,
  against the comment on line 75. The run checks `KeepsRequestedSize`; `LargestSample`
  in the passing run shows that the loop is right for the sides as it names them.

The other weaknesses the models show are stated as the exceptions in the properties
above: a codec error leaves the caller suspended for ever; an exception of a conversion's set-up
leaves its streams open; a sample of no bytes in mid-track is taken for the track's end; `extractAudioToPCMV2`
never writes anything; a quick stop leaves the microphone on behind a button that
says "start"; leaving the screen while a job is between its guard and
`startRecording()` ends the process; a flat ratio near an edge makes `coerceIn`
throw, and so may a rounding at the minimum size; `getDuration` may ask a player that was destroyed; `openSLESPlay` stops
the player when its sleep is over, wherever the player is; `recordCallback` gives its buffer back
before it writes it, and leaves the microphone on when it throws in the constructor; a camera runs on, out of reach, when its
screen is left or rotated; a refresh away from the first page hides photos; a video recording stopped
before its first data makes the delete throw; a recording on the audio screen is never stopped by
leaving the screen; a pool whose second thread cannot be created waits for ever in its joins; a
restarted music service starts its list over, although it was paused. `CropActivity` (line 55)
tests its ratio with `any { it >= 0 }` where both are meant: `InsideImage` and `RatioKept` are
stated for ratios that are not negative (`AspectPositive`). No comment
or test of the repository claims otherwise, so they are properties and not findings.

## 5 Proofs

TLAPS checks 16,047 obligations in eight modules. No fact is taken on trust beyond the
named assumptions on constants, which TLC evaluates in the runs. Every theorem below holds
for all values of the constants that satisfy them; the runs show the same properties on the
instances of section 3. Where a property is not inductive the text says what was added;
each inductive invariant was first checked by TLC on the instance of its run.

**CodecPipelineProofs**, from `BuffersAssumption` and `SourcesAssumption` (any
number of buffers, any sources, any set of faults):

- `TypeCorrect`: `Spec => []TypeOK`.
- `NeverUsedAfterClose`: `Spec => []NoUseAfterClose`. The invariant alone is not
  inductive: that a callback finds the streams open depends on what else is in the
  looper's queue. `EosIsLast` adds it: the codec puts out the end of stream
  only when it offers no more input and holds no more output, so that only error
  callbacks can be behind an end-of-stream callback. `DispatchKeeps` and `PostKeeps` say that running the oldest
  callback and posting a new one keep this; each action is one or the other.
- `Invariance`: `Spec => []IInv` (`TypeOK`, `EosIsLast`, `UnitsInOrder`), the invariant the run checks.
  `UnitsInOrder` says that each of the four places a unit passes (queued, held, posted, written) is in reading
  order, and each place is behind the next. `AddFacts` and `DropFacts` say what
  `Append` and `Tail` do to these relations.
- `PipelineImplementsTranscode`: `Spec => Refines`, the conversions implement Transcode under the
  mapping of `CodecPipeline`. `FlowInv` says where the units still missing in the file
  are: each unit read is written, lost or ahead in one of the queues, in the order the queues are worked
  off. From it, when the end of stream is written nothing is underway any more (`EosCompletes`), so that the abstract
  `Complete` is enabled, and a write is one abstract unit (`OutputRefines`). How many units a source delivers is defined by
  `CHOOSE`; `DeliverableEnds` shows that there is one such number, by the least-number
  principle (`Least`, from `WFMin`).

**DecodingProofs**, of VideoDecode for any number of buffers, tracks of any length up to `MaxUnits` and any
faults, from `BuffersAssumption` and `MaxUnitsAssumption`, and of SyncExtract for any sources and buffers, from
`SourcesAssumption` (of `MCDecoding`):

- `TypeCorrect`; `DecodersReadSafely`: `Spec => []ReadsSafe`. The order of the callbacks is what keeps two
  decoders on one extractor apart: `SelectedInv` says that track 1 is selected only when decoder 0 was given
  its end of stream, `DecoderInv` that a decoder which has been given that has been given its whole track, or stands before an
  empty sample, and that one which is done has no callback left that reads, and `ExtractorInv` that an extractor is released when no decoder asks for anything.
- `ExtractionRight`: `Sync!Spec => []ResultRight` of SyncExtract. The invariant follows a sample from the extractor through the
  decoder to the file: `PortInv` says that what is queued are the last samples read, `WrittenInv` that file and decoded
  output together list every sample decoded so far that is not empty, in order and once, and `EosInv` that the end of stream is in one
  place and behind all of them. So nothing is left anywhere when the loop sees it. `CopyInv` says the same of
  the extractors that copy, and `LiveInv` who may have a muxer.

**RecordersProofs**, from `MaxJobsAssumption`, `MaxChunksAssumption` and (of `MCRecorders`) `VideoAssumption`:

- `MicrophoneIsExplained`: `Spec => []MicrophoneExplained`, and `WavIsFaithful`: `Spec => []WavFaithfulUnlessHasty`, for any number
  of jobs and chunks of the voice screen. `AloneInv`: without a hasty press jobs follow one
  another. `PcmInv` and `WavInv` follow one job from its first chunk to the header it writes. `PressInv` is what the
  button shows about a job that has not reached the recorder yet.
- `DeathsAreExplained`: `Spec => CrashesExplained`, the action property, from the same invariant.
- `CaptureIsSafe`: `Video!Spec => []CaptureSafe`, for any number of visits and recordings. `PhasesInv` and `EventInv` say what an event
  on its way still says of its recording, `OwnersInv` that visits to come own none.

**CropRectProofs**, for any view, bitmap, minimum, reach, any length of drag and any
sources, from the assumptions that sizes are positive and the bitmap is at
least a unit wide and high on screen:

- `TypeCorrect`.
- `StaysInside`: `Spec => []InsideImage`. The invariant adds that the rectangle is not negative
  (`Within`). Rounding is what could break it: `ScaledFits` shows that a side fitted to the room
  that is left never exceeds it.
- `DragsThrowOnlyIfCramped`: `Spec => []DragThrowsOnlyIfCramped`. With a ratio of `k` heights to a width the
  rectangle always has room for `k` widths in its height (`Slim`), so one that had the minimum size at first keeps
  it (`Big`), and then the bounds of `coerceIn` never cross, and meet only when it has just that size at an edge (`Tight`). `ScaledByWhole` and `FittedByWhole` carry the
  arithmetic. The inductive invariant `IInv` of this module is the conjunction of the three parts, for accepted arguments.

- `RatioSurvives`: `Spec => []RatioKept`. After a drag that does not throw one side is computed from the other
  (`AnchoredSize`, `ResizedRatio`), and moving changes neither (`TranslatedRatio`).
- `DecodesWithinTheSource`: `Spec => []CropInSource`. `SourceWithin` is about the two roundings from the screen to the
  source; `SourceMisses` says that a crop the decoder would refuse is less than a pixel of a
  source that is smaller than it is shown.
- `ScreenIsCropRect`: `SpecCrop => Spec` (of `ImageCrop`), the screen with its samplings
  implements CropRect (the identity on CropRect's variables; turns of the loop are
  stutters). `ScreenStaysInside` lifts the three invariants to the screen.
- `SampleIsLargest`: `SpecCrop => []LargestSample`, for any width of `Int`, any sources whose sides are `Int`s and any
  `maxResultSize`, from `BitsAssumption`, `MaxResultsAssumption` and `SidesAssumption`. `LoopInv` says that a sample the loop has
  doubled was kept for both sides, and that it is not positive only after an overflow, which needs that nothing
  positive was requested (`DoubledPower`). Then it is 0 after one more turn, and the division throws.
  Halving a side and dividing by the sample is dividing by twice the sample, so that the comparison which ends the loop
  is the one of `Largest`. `RegionInv` carries the confirmed rectangle to the second
  sampling.

**NativePlayersProofs**:

- `PlayerIsSafe`: `Spec => []PlayerSafe` of SlesPlayer, for any files, positions asked for, numbers of calls and words, from
  `MediaAssumption`, `TargetsAssumption`, `CallsAssumption` and `SleepAssumption` (the sleep of an unknown duration fits the word: it is
  three seconds in 32 bits). `OnceInv` says that what was slept and what is left of the sleep add up; `SleepFacts` carries the
  arithmetic of the product that wraps.
- `PcmIsSafe`: `Pcm!Spec => []PcmSafe` of PcmPlayback, for files of any length (`BlocksAssumption`, of `MCNativePlayers`). One token goes
  round (`TokenInv`): the priming call, then the buffer queued, then the callback.
- `CameraIsSafe`: `Camera!Spec => []HoldingsSafe` of NdkCamera, for any number of presses and of frames (`CameraAssumption`, of `MCNativePlayers`).
  `MainInv` says how far construction and destruction are, `ReaderInv` that a listener has its reader and stream,
  `HeldInv` that as long as cameras are made one at a time only the newest holds anything, `LeftInv` that after leaving with a camera
  nothing is in hand until a second one is made, and `PlanesInv` what the file ends with.
- `QueueIsSafe`: `Recorder!Spec => []QueueSafe` of SlesRecorder, for any number of chunks and of buffers of the queue
  (`RecorderAssumption`, of `MCNativePlayers`). The one buffer is a token (`OneBufferOutstanding`): queued, due, or with a callback that has not
  queued it yet. `LateInv` counts the callbacks that can find the context deleted: the one that runs and the one due. `HolderInv` says that
  the microphone is on without a holder only after the constructor's own callback threw, with nothing queued.
- `FileIsTheRecording`: `Recorder!Spec => []FileFaithfulUnlessOvertaken`. `FileInv` relates three counters: what was filled, what callbacks were
  called for and what is in the file; a callback that was not overtaken has the last chunk in its hands.
- `NothingFillsFreedMemory`: `Recorder!Spec => NoFillAfterFree`, the action property.

**AudioScreenProofs**, for any number of visits, recordings, playbacks, chunks and presses, any window and any even
number of bars, from `ManagersAssumption`, `RecordingsAssumption`, `ChunksAssumption`, `TrackAssumption`,
`WindowAssumption` and `BarsAssumption`:

- `RecordingIsSafe`: `Spec => []RecordingSafe`. `WriterInv`: the one call that writes a file not opened over another
  stands at its end, and what is in the file are the last chunks of its microphone. `PutFacts` is about
  writing beyond or within a file, and `MicrophoneStays` about what may end a reader.
- `BarsAreRight`: `Spec => []BarsRight`. `MovedOutwards` is what the loop computes in place: the recursive function has a closed form
  after each turn (it is exhibited, so that the recursion has a solution), and two solutions agree at the least turn at which they
  could differ. `VolumesInv` keeps every volume on its way between the last one shown and the one the call holds.
- `FileIsHeardInOrder`: `Spec => []HeardInOrder`. `GivenInv` adds where each call is in the file, and that without a pause
  every chunk before is in what was given to the track.

- `ServiceIsSafe`: `Music!Spec => []MusicSafe` of MusicService, for any number of songs, commands and kills, from
  `MusicAssumption` (of `MCAudioScreen`). Two parts have to be strengthened. `ShownIsRight` adds to
  `NotificationRight` that a service that is not there has nothing to play, as a late "next" creates one
  without a notification. `AsAsked` adds to `PlaysAsAsked` what is known of the commands still on
  their way: the last of them that decides what plays agrees with what the user asked for last
  (`LastIsAsked`), so that the player does once it has arrived. `PressKeeps`, `SkipKeeps` and `TakeKeeps`
  say what appending and taking a command do to that.

**PhotoPagingProofs**, for any page size, list, set of coroutines, number of presses and visits, from `PageSizeAssumption` and
`BoundsAssumption`:

- `PressedIsDeleted`: `Spec => []DeletesThePressed`. `JobInv` adds to it that the row a coroutine waits with still shows the
  photo seen in it, unless rows moved. It rests on `FlattenAppend`: a page loaded behind the others leaves the
  rows before it where they are.
- `LossIsExplained`: `Spec => []LossExplained`. `PagesInv` says that the pages are numbered one by one, that the number of
  the refresh is among them, and that each holds what the server has under its number, in the large size under that one and in the small size
  under the others. Every place of the list is on some small page (`PageNumber`), so that a photo that is not shown is on the small
  page of that number, or behind the last one loaded if that is the large one (`InvSaysLoss`). `PageFacts` carries the
  products of page numbers and sizes.

**AsioPoolProofs** (both pools on the scheduler), for any finite set of threads and any number of coroutines, from `ActorsAssumption` and
`CoroutinesAssumption`. The four properties speak of queue, reactor, timers and threads at once, and none is inductive
alone; `Invariant` proves one `IInv` of eleven parts, action by action:

- `CallerInv`: what the caller holds and has created at each of its steps; `MutexInv`: who holds the mutex and who sleeps on the event.
- `EventInv`: the event is set while something is queued, but for the thread inside the mutex.
- `ReactorInv`: the reactor's operation is in the queue or with one thread, which takes no work with it into `epoll_wait` that
  another would have to do, and which an interruption reaches there.
- `TokenInv`: a coroutine is in one place at a time (queued, with a thread that runs it, in a thread's private
  queue, armed with a timer, or in the caller's hands), and its frame is held until it is released; `ProgressInv`: what has
  happened to it in each place.
- `TimerInv`: deadlines are distinct, and the alarm is not after the first.
- `WorkCounted`, by cardinalities of sets that change by one element at a time; `StopInv`: who is about to stop the scheduler has
  seen the count at zero; `WakeInv`: somebody is on the way to what is queued.
- From it follow `WorkIsCounted`, `NoWakeupIsLost`, `NothingStopsEarly` (`Spec => []WorkCounted`, `[]NoLostWakeup`, `[]NoEarlyStop`) and
  `SetOnceInTime` (`Spec => DeliveredOnceInTime`, the action property).

Only model-checked:

- all liveness (`HangsOnlyWhenStalled`, both `CallsEnd`, `SessionsSettle`, `Returns`, `DestroyEnds`, `PlaybackEnds`,
  `StartIsHeard`, `HelloEnds`): it needs ENABLED under fairness, which is beyond the prover.

Induction is needed in six places (the number of units a source delivers, the bars, the powers of two, flattened pages, the server's
list after a delete, page numbers). The library's induction theorems take an operator as a parameter, which the provers cannot
instantiate; the proofs use its theorem on well-founded relations instead, whose parameter is a set: every nonempty set of numbers has a
least element (`WFMin`, `LeastNumber`), so that a set that holds 0 and with each number the next is all of `Nat` (`AllNumbers`). What a recursive
function computes follows once a solution of its equation is shown to exist (`Recursion` in PhotoPagingProofs).

No module uses a RECURSIVE operator.

## 6 What is not modelled

- **Data**: samples, pixels, WAV header bytes, ADTS headers, log texts, layout. A
  unit, chunk, block or plane is a number.
- **Floats** of the cropper: see above. Differences below a unit are not seen, but where the bounds of `coerceIn` meet.
- **What follows undefined behaviour**: a camera deleted twice is recorded, and nothing
  after it.
- `TypeOK` is a conjunct of one invariant per module and not a property of its own.
- **Code no screen reaches**: `DownloadService` and `HelloRepository.download`, the native
  `Encoder`, the AAudio and Oboe classes, `workThread`. They have hazards of their own
  (unjoined threads, files opened twice), but no order of calls is one of the program.
- **What the platform keeps**: `HelloProvider` (each operation is one query under SQLite's lock
  and one notification), service binding, the web view's file chooser, DataStore's transactions,
  Media3's session and positions within a song.
- `broadcastAsFlow`: its channel is unlimited, so that sending from the receiver never blocks; the rest is
  one registration and its removal.
- **The rest of Asio**: sockets, strands, buffers, other reactors, which nothing in the program uses.
- `oggToPcm1` (a thread that only logs), `yuv420pToNv21` (a loop over an array),
  `printCameraCapabilities` (logs).
- `PhotoViewModel.photosFlow`, which no screen collects; inserting and updating photos,
  one form post per press.
- Components without state of their own: stateless controllers of the Spring
  programs, start-up initializers, custom views that draw, screens that lay out,
  view models that store one response, generated Room and protobuf code. The native
  `ThreadPool.hpp` is commented out as a whole.

## 7 Plan

Done: the modules of section 2, every component whose code a screen of the programs reaches and
that has state of its own, and the proofs of section 5: each safety and action property of a passing
run is a theorem. Left are

- liveness, which stays with TLC (section 5);
- the components of section 6, for whoever starts to call them: `DownloadService` first, then the native `Encoder`.
