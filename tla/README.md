# A verification project for libxmp

libxmp plays "module" music files: a song is an *order list* of *patterns*; a
pattern is a table of rows with an event per channel (a note, an instrument,
effects). This directory holds TLA+ models of the parts of the library whose
state is hard to keep right, TLC configurations that check them on small
instances, and proofs, checked by TLAPS, that the most important properties
hold for every size.

Paths are relative to the repository (`src/src/virtual.c` is
`src/virtual.c` of libxmp); PROJECT.json maps every definition to the lines it
translates.

## 1. Inventory

libxmp is a sequential library: no threads, no locks. What is hard in it is
*protocol*: redundant tables that are updated by hand in many places, state
that is set by one call and used by a later one, two interpreters of the same
song (the scan and the player) that must agree, the dialects of dozens of
trackers, selected by mode bits that nobody tests in all combinations, and
some eighty readers of foreign files, each with its own error exits.

| Component | State it keeps | Operations | Hard because |
|---|---|---|---|
| **Voice pool** `virtual.c` | voice array (chn, root, vol, act, ins), virtual channel array (map, count), virt_used | setpatch, queuepatch, setvol, setsmp, setnna, pastnote, reset*, check_dct, alloc/free_voice | four records of one relation; a voice is stolen, moved, duplicated, cut; decrements without checks; a search loop without failure exit |
| **Flow control** `flow.c` | struct flow_control: break, jump, line, loop targets and counts, delays | pattern loop, jump, break, line jump | 15 mode bits; several channels in one row act on one record in order |
| **Scan** `scan.c` | row visit counters, sequence of each order, end and entry point of each sequence, time of each order | scan_module, libxmp_scan_sequences | must end for every input; must predict what the player will do |
| **Sequencer** `player.c` | ord, pos, row, frame, sequence, end_point, loop_count, flow | play_frame, next_row, next_order, check_end_of_module | position kept twice; repositioning is noticed by comparison; loop counting depends on the scan's numbers |
| **Position calls, rescans** `control.c load.c` | the same, and the mode bits | next/prev/set position, set_row, stop, restart, seek, rescan, player mode | made at any moment between two frames, before the previous one took effect |
| **Notes** `read_event.c player.c effects.c` | channel_data of every virtual channel: instrument, sample, flags, delays, retrigger, fade, envelope position | one event reader per tracker family, play_channel | a note outlives its row and its channel; delayed events, key offs, note actions and sample swaps act later than they were asked for |
| **Envelopes** `player.c` | position in the envelope | update, value, end, fade | three dialects of sustain and loop points |
| **Mixer** `mixer.c mix_all.c` | position in the sample, loop, anticlick, output | softmixer, setpatch, voicepos | loops, queued samples; ends voices |
| **Sound effects** `smix.c` | sample slots, extra tracks | start, load, play, channel pan, release, end | shares tracks and voices with the song |
| **Buffer reader** `player.c` xmp_play_buffer | consumed, in_size | play_buffer, reset | cuts frames into buffers of any size |
| **Context life cycle** `control.c load.c player.c` | ctx->state, allocations | create, load, scan, start, end, release, free | failing steps must leave a consistent state |
| **Handles and depackers** `hio.c memio.c callbackio.h tempfile.c depackers/` | the handle's file, memory or callbacks; temporary files; the unpacked output | open, reopen, close, decrunch | ownership changes hands on success and on some of the failures |
| **Loaders** `loaders/` | the module, and the loader's own buffers | one per format (53 of them) | counts are read before the tables they promise are allocated; a failure anywhere must leave a module xmp_release_module can free |
| **ProWizard converters** `loaders/prowizard/` | how much of the file a test was given; the output | a test and a converter per format (43) | a test may look at what it asked for only; a reader of the output expects a fixed layout |
| **Extras** `med_extras.c far_extras.c ...` | per channel and instrument | four formats | a small interpreter in MED |
| **Numeric functions** `lfo.c period.c filter.c rng.c mix_*.c` | - | - | floating point and integer arithmetic on one value |

How they interact: `xmp_load_module` opens a handle, unpacks the file and gives it to the
loaders one by one (`Depackers`, `LoadSteps` and the modules of scripts), of which
`pw_load` converts the file first (`SignedConverters`, `UnsignedConverters`). A loader
fills the module; `libxmp_scan_sequences` scans
it (`Scan` using `Flow`) and leaves entry points, ends and sequence numbers to
the player; `xmp_play_frame` advances the position (`Sequencer`), reads a row,
whose events go through the effects to the flow record (`Flow`) and through an event
reader to the channels and the voice pool (`EventReaders`, `VirtualChannels`); it plays
each channel, with its envelope (`Notes`, `Envelope`); the mixer plays the voices
(`MixerVoice`) and gives finished ones back. The caller's position calls and rescans
change the sequencer's state between frames; sound effects (`Smix`) are notes of extra
tracks. `Context` is the frame around all this: which call is allowed when, and who owns
what memory.

What makes each part correct:

* *voice pool*: a channel steers a voice exactly when the voice plays for it;
  counters are the numbers they stand for; a note pushed aside goes to an idle
  channel; only the quietest background note is stolen; a note keeps its owner;
* *scan*: it ends; orders are divided among sequences; a sequence's end is a
  row that can be played; a sequence owns its entry point, and (where each channel counts
  its own loops) none of its orders lies before it;
* *sequencer*: the row that plays exists; playback leaves the row order only
  where a row asks for it; the main song stays in the main sequence; each loop
  of the song is counted;
* *position calls*: the position asked for is the one that is played, and the player waits
  for no more visits of the end than the scan has counted;
* *notes*: a voice plays the sample its channel names; what a row asked for acts in that
  row only; an unreleased note stays at its sustain point; a dying note gives its
  voice back;
* *mixer*: a voice stays in its sample, leaves the sample as it was, swaps samples at the
  end of a loop only, and every tick ends;
* *sound effects*: no voice plays from freed memory, and releasing a slot stops its voices
  only;
* *buffer reader*: the bytes are those of the frames, whole and in order, and of the player
  that runs;
* *context*: each state has the memory its functions use, and no allocation is forgotten,
  whatever fails;
* *loaders, converters, depackers*: no step touches an entry of a table that is not there;
  whatever step fails, what is left can be freed, once, and nothing else is left; what is
  accepted is complete; a converter's output has the layout its reader expects.

The hazards behind these properties, each at its line, are the list "hazards" in
PROJECT.json.

## 2. Modules

| Module | Contents |
|---|---|
| `VirtualChannels` | the voice pool, one action per call of virtual.c |
| `VoicePool` | abstract: which notes sound, in foreground or background, and who owns them |
| `VirtualChannelsRefinement` | `VirtualChannels` implements `VoicePool` |
| `VirtualChannelsProofs` | inductive invariant, what a step may never do, and the refinement (TLAPS) |
| `Flow` | operators over the flow record: flow.c |
| `Scan` | scan_module and libxmp_scan_sequences as a state machine; extends `Flow` |
| `SmallSongs` | families of small songs for the scan |
| `Recursion` | induction over the numbers, and recursive functions, for the proofs of `Flow`, `Scan`, `Smix` and `Notes` (TLAPS) |
| `ScanProofs` | inductive invariant and theorems of `Flow` and `Scan` (TLAPS) |
| `Sequencer` | player and position calls, on the result of the scan; extends `Scan` |
| `MCSequencer` | families of small songs for the sequencer |
| `SequencerProofs` | inductive invariant and theorems, on those of the scan (TLAPS) |
| `Smix` | sound effects: slots, reserved tracks and waiting events, on the pool; extends `VirtualChannels` |
| `SmixProofs` | inductive invariant and theorems, on the lemmas of the pool (TLAPS) |
| `PlayBuffer` | xmp_play_buffer over frames of any size, as a byte stream |
| `Context` | life cycle of a context with failing steps; extends `PlayBuffer` |
| `ContextProofs` | inductive invariants and theorems of both (TLAPS) |
| `MixerVoice` | a voice of the mixer: place, direction, loops, queued samples, the overwritten bytes |
| `MCMixerVoice` | the shapes of samples of the run |
| `MixerVoiceProofs` | inductive invariant and theorems (TLAPS) |
| `Envelope` | volume envelopes: operators over an envelope and a position |
| `EventReaders` | what an event does to its channel: the four readers, on the pool; extends `VirtualChannels` and `Envelope` |
| `Notes` | a frame: row, injected events, each channel in turn, the mixer; extends `EventReaders` |
| `MCNotes` | the eight songs of the run |
| `NotesProofs` | inductive invariant and theorems, on the lemmas of the pool (TLAPS) |
| `LoadSteps` | a loader as a script of steps, load_module around it, and the steps' meaning |
| `TrackerLoaders`, `ChunkLoaders`, `AmigaLoaders`, `MedLoaders` | the scripts of the loaders, by family; extend `LoadSteps` |
| `SignedConverters`, `UnsignedConverters` | the scripts of the ProWizard tests and converters |
| `Depackers` | the scripts of handles, temporary files, depackers, and of the load and test functions around them |
| `MCLoaders` | all scripts together, and the list of known flaws |

### VirtualChannels

The record `virt` is `struct player_data.virt`: `chn`, `root`, `vol`, `act`
and `ins` are the fields of the voices, `map` and `count` those of the virtual
channels, `used` is `virt_used`. A C function that changes the pool is an
operator from pools to pools, or to a set of outcomes (`AllocVoice` is empty
where `alloc_voice` returns -1). A loop over voices or channels is a
set: `FreeVoice` is the least voice of least volume, which is what the loop
finds. `CheckDct` visits the voices one by one in the code; the visits do not
influence each other, so the model cuts the set at once.

`NumTracks` is `num_tracks` (module channels and smix channels), `NumVoc` the
configured number of voices, `Virtual` the quirk when `libxmp_virt_on` ran;
`VirtChannels` and `MaxVoc` are computed from them as that function does.

Abstractions: the sample and key of a voice are not kept, so a note may be a
duplicate of any set of voices of the same instrument (a superset of the
code's outcomes); a channel's mute flag appears as volume 0; setters that change no
mapping are left out. Actions take arguments any event reader could pass.

### Flow, Scan and Sequencer

`Flow` translates the effect handlers. The variable `rules` is the tracker whose rules
are in force: `FlowMode`, the set of FLOW_* bits of m->flow_mode, and `Quirks`. It is
chosen from `Trackers` with the module, and libxmp_set_player_mode may change it. `PatternLoop(f, chn, row, n)` etc. return the new flow record, and
`OverChannels` folds the channels of a row in order.

`Scan` makes a step per round of scan_module's outer loop (an order) and per
row. The record `scan` holds its local variables, `control` is
`sequence_control`, `ends` is `p->scan[]`, `info` is `xxo_info`, `entry` the
entry points. `Sequencer` adds `player` (the position variables of struct
player_data and flow_control) and the calls. Its initial states are those of
the scan: the player starts when the scan has ended, on whatever it computed.

`RESTART` (-1) and `STOPPED` (-2) are the values of `pos` the code uses.
`player.ended` is the -XMP_END of the last frame. `player.stale` and `player.astray` are
history, for the cases the code does not handle (section 3): the rules or the sequence have
changed since end_point was set, and the number of rows is another order's, as the run
`two_moves` shows; nothing but the properties reads them. A frame is one action
(`PlayNothing`, `PlayElsewhere`, `PlayOn`, `PlaySkipping`), the four ways
through xmp_play_frame, including the reading of the row.

Abstractions:

* each channel of a row has one effect (the code has two slots, evaluated
  alike); effect memory and the parameter's encoding are not kept;
* all rows last `Speed` frames, and the scan's times are numbers of rows;
  tempo and global volume effects, tick-delayed events (EDx) and the tempo
  effects of single formats are left out;
* `FX_PATT_DELAY` of OctaMED, which adds up where others replace, is left out;
* the second main scan for VBlank timing is left out (it compares times);
* every track is as long as its pattern (effects beyond a track's end do
  nothing);
* a rescan is atomic for the player: no frame or call comes before its end;
* the player's loop_active_num is not kept: only the scan reads it.

Bounds, each a constant or a named definition: `CountMod` (256 in the code)
is the range of a visit counter, `RowLimit` (1024, or 3200 for MED) the rows
scanned in one order, `OrderLimit` (512) the orders since the last valid one,
`MaxSequences` (255); these are limits of the code, made small so that they
are reached. `TimeCap` stops the scan's clock, which is only compared;
`EndFloor` stops end_point at -1, from where the code needs 2^31 visits to
return to 0. `MaxLoops` is the loop count at which the caller stops, `MaxCalls` the number
of position calls.

### Smix

`slot`, `sptr`, `pending`, `open` and `playing` stand for the data pointers of
the slots, the sample pointers of the mixer's voices, the injected events of
the reserved tracks, "smix is allocated" and XMP_STATE_PLAYING. A block is the
address of a loaded sample: a load takes any block no slot holds, as malloc may.
Voices and slots change together in records `Mix`; `Release` is
xmp_smix_release_sample, `ReleaseAll` repeats it slot by slot, since with empty
slots the order matters. Notes go through `SetPatch` of the pool. A frame's
`inject_event` is one action; what else a frame does to the pool appears as
`SongNote`, `VoiceEnds` and `Reposition`, in any order.

Abstractions: volumes and duplicate checks are left to `VirtualChannels` (all
levels are 0, so the first background voice is stolen); note off and fade
events only set flags; the player is started only while tracks are reserved, so
`NumTracks` is a constant.

### PlayBuffer and Context

A byte is named by the frame it belongs to and its place in it. `buf` is
`p->buffer_data`, `call` the arguments and locals of a call of xmp_play_buffer, which
takes a step for each round of its loop, so that every size of buffer meets every
size of frame; `mixer` is the frame in the mixer's buffer and the number of its player.
What a frame does to the song is left to `Sequencer`: any frame may count a
loop (`loopCount`). Between calls the caller may reset the buffer, stop the song or move
it. `chunk` (the piece handed out last) and `tail` (silence was handed out to callers
of that loop argument) are history, for the properties.

`Context` keeps `state` (`ctx->state`), `held` (allocations that have not been
freed), `lost` (allocations whose pointer was overwritten while they were held)
and `ret`, the last return value. Allocations are grouped by the step that makes
them (`LoadSteps`, `PlayerSteps`): the names of the file, the module by its loader, the
counters and results of the scan; the mixer's two buffers, the voices, the virtual
channels, the loop counts, the channels and their extras. `Failing` is the set of
steps that may fail. A failing call frees what its error path frees, no more:
`Forgetful` are the steps after which something stays behind. A module loaded
from memory has no names.

Bounds: `MaxFrames` frames in a player and `MaxPlayers` starts; two players are the
least for which a byte can outlive one. Sizes of frames and buffers are small numbers that
divide each other and that do not.

### MixerVoice

`voice` is a `struct mixer_voice`, `tick` the locals of libxmp_mixer_softmixer while
it mixes that voice (`size`, `usmp`, `step`, `split`, `loop_data`), and `patched` the
places of the samples that hold something else than the sample, because
init_sample_wraparound wrote there. A round of the inner loop is `MixFrames`, or
`MixNothing` if no frame fits before the end; what follows the frames in the round
(the end of a one-shot, the swap, the turn) is part of the same action, one
disjunct (`AfterFrames`) for each way. `heard` is the range of places the round reads.
The player's calls come between ticks; what they do to the voices around it
is the subject of `VirtualChannels`.

Abstractions: positions are points of an integer grid, where the code has `double`;
all voices have a volume; anticlick, ramps and interpolation read and write
buffers that nothing here depends on, except that an interpolation other than
"nearest" is chosen (with nearest, the bytes around the loop are left alone). The
period of a note gives the step: any of `Steps`, and 0 for a step out of range.
`split`, a flag of the channel, is chosen anew in every tick. Samples of the loaders
only: those of sound effects have no sustain loops and are otherwise alike.

### Envelope, EventReaders and Notes

A frame goes through phases: in `NextFrame` the row is read if the frame is the first of a
row (`Reposition` stands for a position call before), `Inject` reads the events of
xmp_inject_event, `Play` plays one virtual channel after the other, `Mix` is the mixer;
then the frame is `Done`. `xc` is `p->xc_data`, as far as it says which note plays and how
it ends; `voice` is what each voice of the mixer plays, with the sample queued for it;
`virt` is the pool of `VirtualChannels`. The state of the four, s = [virt, voice, xc], goes
through the operators of a reader as the C structures go through its function.

`song` is the module: its reader, quirks, instruments (with subinstruments, key map,
release rate and envelope), its looped samples, and the events that may stand in a row.
Which row comes next is `Sequencer`'s business: here any event may come next. The mixer's
samples reach their ends at any frame.

Songs that are not of the Impulse Tracker run with the same pool; their background channels
are never used.

Abstractions: volumes are `Levels`, chosen anew when the note's volume is set and 0 where
the code forces it; pannings, periods and oscillators are left out (`pitched` says whether the
channel has a period); an effect has one of the two slots; speed effects, the row delay,
multi-retrig's volume, the split channels of Amiga stereo and the MED reader are left out.

Bounds: `Full`, the level a fade starts from (65536), is 2, so that a fade takes one or two
frames; `MaxIdx` (65535) is where the tick counter of an envelope stops, past the last
point of every envelope of the songs; `MaxKeys` (121) is 2, one key that is mapped to a
sample and one that may not be.

### LoadSteps and the scripts

A loader is a script, a sequence of records: `Try` (a read or a test of what was
read, which may fail), `Count(c, S)` (a count is read, one of `S`), `Table(t)` and its
kin (an allocation of as many entries as a count says), `Use(t, x)` (entry x is touched),
`Malloc`, `Free` and `Keep` (a buffer of the loader; a block the module owns from then
on), `OnError(B)` (from here on an error frees `B`: the label the code jumps to),
`Each` (a loop), `Either`, `When`, `IfSet` (branches of the file's data, of a count, of a
flag), `Chunks` (the handlers of libxmp_iff_load, in any order), `Attempt` (a callee
whose failure the caller does not pass on), `LoadAs` (another loader takes over). What a step
does to the module and the loader's variables is `Stored` and `Noted`; what it touches, and
so what has to be there, is `Touched`; a fallible step may `Raise` wherever it stands, and
one that stands for several allocations (the tables of libxmp_init_pattern and
libxmp_init_instrument, a pattern with its tracks, libxmp_realloc_samples) may then have made
the first of them: `HalfDone`.

`mod` is struct xmp_module reduced to what memory there is: the counts `cnt`, the lengths
of the tables (`NULL` if there is none), the entries that are allocated, the number of tracks a
pattern has room for, the subinstruments allocated and promised, the other blocks owned, and
`lost`, what no pointer leads to any more. `local` is what the loader keeps: counters,
flags, live and freed buffers, and the buffers the current error label frees. After the
loader, load_module checks the patterns (`Accept`), and the module goes (`Release`). A loader
that returns an error leaves `refused`; its context may load again (`LoadAgain`), so every
script also starts on what another left.

In the converters, `Request` is PW_REQUEST_DATA, after which `Look` may look no further;
`Within` is the use of an array of fixed size; `Write`, `PadTo`, `Magic` and `Samples` count
the bytes written, whose layout pw_load's reader (mod_load.c) expects. In `Depackers` the
buffers are the handle and its file, memory or callbacks, the temporary file and its name,
and the depackers' own; `HandOn` is the point where load_module tries the loaders.

The code has flaws that the scripts show. `KnownFlaws` names the steps that are wrong,
each name at the step (or, "xtra", in the property) it excuses; `KnownLeaks` says which
loader forgets which buffer, so that a buffer of the same name that another loader forgets is
still found. With any one of them left out of `Flaws` or `Leaks` (module `MCLoaders`) TLC
reports the script and the step. They are listed in section 3.

Abstractions: contents (events, envelopes, sample flags, orders) are left out, so are the test
functions of the loaders (one `Try`). Counts come from small sets, `Bit` (0..1), `Few` (0..2),
`Some` (1..2), or the edges of a byte for the converters; where the format fixes a large count it
is 2. A file has up to three to six chunks, enough for each handler to meet every other
before and after it, itself, and what its flags require; a stream that is unpacked has up to
two blocks. Every allocation may fail; one whose result the code does not look at is `Open`
(it is there) or a known flaw (it is `Trust`ed).

## 3. Runs

"pass" runs:

| Run | Instance | What it shows |
|---|---|---|
| `virtual_nna` | 2 tracks, 3 voices, 2 instruments, actions cut/off | agreement of the tables, idle relocation, stealing, ownership, and refinement of `VoicePool`. Two tracks and three voices are the least pool in which a track fills the background and steals from the other |
| `scan` | 2 channels: five order lists with every filling of a 2-row and a 1-row pattern, and every filling with loops, a jump, a break and a row delay, in the main sequence and behind one; the flow bits of Liquid Tracker, Protracker, Scream Tracker 3.21 and Impulse Tracker 2.10 | the scan ends though loops do not, because each of its steps uses up something that is bounded (`ScanAdvances`); sequences cover the orders, never overlap and own their entry point, which nothing lies before, ends can be played, active loops are counted right |
| `seq_flow` | 3- and 2-row patterns with jumps, breaks and loops; 3 rows in which one channel breaks and the other delays; Scream Tracker 3.21 and Protracker | the first loop of every song is counted; a row follows from the row before, and until the song has looped it is in the main sequence |
| `seq_calls` | 5 order lists, with markers and a pattern that does not exist, of a 2-row and a 3-row pattern with jumps, breaks and loops, Impulse Tracker 2.10 bits; two calls of eight kinds, of which a rescan may make it a Protracker module | the row exists and the position asked for is played, whatever is called when; no more visits of the end are waited for than were counted |
| `notes` | 1 track, 2 voices, so 2 background channels; eight songs, each built around one way a note may live and end; rows of two frames | a voice plays what its channel says; no effect or delayed event outlives its row; the sustain loop holds; every dying note goes. Two voices are the least for which a note is pushed to the background while another is there to be stolen |
| `voice` | two samples out of four shapes, steps from 1 to longer than any loop, two frames a tick, Impulse Tracker's shortened bidirectional loops | the mixer reads nothing before the sample, a loop leaves no voice that plays forwards behind the end, overwritten bytes are restored, a paused voice is silent, a swap happens at the end of the old sample, ticks end. Two frames a tick are the least for which the round without frames is not already the last, and a loop of one place with steps of seven makes it happen many times. Section 4 proves all but the last for every size, and for the players that give a voice back at its sample's end (`ResetAtEnd`) |
| `smix` | 1 song track, 2 reserved tracks, 3 voices, 2 slots, 3 blocks of memory | no voice plays freed memory, only the voices of a released slot stop, the pool stays right. Two reserved tracks and one track of the song compete for the voices, and with three blocks a slot can get new memory while the old block stays unused |
| `context` | frames of several sizes, buffers smaller and larger; two players; the steps fail whose error paths clean up | memory and state agree, nothing is lost, the stream is whole, the end is heard as silence, and no byte survives its player |
| `loaders` | 53 loaders, all converters behind pw_load, eight ways to open and unpack a file; counts up to 2 | no step touches what is not there, nothing is left or freed twice, what is accepted is complete, the layout of converted modules |

A pool without virtual channels (`Virtual = FALSE`, notes that fail for want of
voices) has no run of its own: the theorems of section 4 cover it.

In all sequencer runs a row lasts one frame (`Speed = 1`), so that a call may
fall between any two rows; a pattern delay makes rows of several frames.
Every song of a family is an initial state, and the families are chosen so
that every way of combining the effects named occurs. `seq_flow` uses
`RowLimit = 12`: with 4 the scan gives up on songs whose loops are legitimate,
and the player leaves the main sequence then, as it does in the code for loops
of more than 1024 rows.

Deadlock checking is off in the scan and sequencer runs (a scan ends, and the caller stops
after the loops it waited for) and in `context`, `start_fails` (nothing follows xmp_free_context).

"violation" runs each show a disagreement between the code and its
documentation, one property each; PROJECT.json "findings" quotes the text.

| Run | Disagreement |
|---|---|
| `smix_empty_slot` | releasing an empty slot, loading into a fresh one, or ending sound effects while the player runs counts all voices at rest out of the pool: virt_used becomes negative |
| `two_moves` | two position calls between two frames, away from the order that plays and back, leave it with the other pattern's number of rows: the row heard lies past the end of its pattern |
| `start_fails` | xmp_start_player returns 0 when its last allocation fails, without having started |

The run `smix` therefore takes a caller that releases no empty slot while it plays
(`ReleasesEmpty = FALSE`), and `context` one whose loads and starts fail only at the steps
that clean up.

### Further differences

Met while modelling; they have no run, mostly because no document promises the opposite.

Position and scan:

* `xmp_prev_position` moves to pos - 1 of the order list in whatever sequence
  that order is (control.c:162; docs/libxmp.rst:769-770 says it then does nothing);
* `xmp_set_position` to the order that is playing does not restart it
  (control.c:179, player.c:2100; docs/libxmp.rst:787);
* `xmp_set_row` leaves a pending break, jump or loop, which acts on the row that
  was set (control.c:208), and after `xmp_seek_time` the forced reposition
  overwrites the row (control.c:212);
* where all channels share one loop count, two channels of a row can begin and end a loop at
  once, so that the row is found a second time with no loop active; when it is the first row
  of its sequence, the scan ends there before any time has passed, and the sequence does not
  count (scan.c:771): the order goes to the sequence found after it, whose entry point comes
  later, and `xmp_prev_position` does nothing there (`SequencesArePlayable` excepts it);
* orders of a scan that did not count shall go to the sequence before them (scan.c:805-807),
  but the next scan uses the same number, and when that one counts, they are its own;
* two row delays in one row: the scan adds them, the player takes the first;
* after a pattern delay the scan carries out a break in a way the player does for Protracker
  modules only: it passes the row the player stays in, and when that is the end of the
  song, its loop is never counted, or the player goes on into orders of another sequence
  (scan.c:623, player.c:2150; `LoopsAreCounted` and `MainSequenceClosed` except them by
  `BreaksAreDelayed`);
* the scan goes through a song once, with fresh loop counts; the player starts over with those
  the first pass has left. Where these send it another way the second pass may leave the main
  sequence, or miss the row that counts the loop: in a song of two orders with "loop 0 |
  break 2", "loop 1" and "loop 1 | break 2" it enters order 0 at row 2 for good. Hence
  `MainSequenceClosed` speaks of the first pass and `seq_flow` waits for one loop (`MaxLoops`);
* when the scan's num is 0 (the end row is met first on the way through a loop),
  end_point passes 0 and the second loop of the song is never counted
  (player.c:2078-2079);
* a rescan while the module plays leaves end_point (player.c:2011): if the new rules count fewer
  visits of the end, or the position had been moved out of its sequence, the loop is noticed
  late (`EndPointFits`);
* such a rescan keeps a break, too: one that found nothing to play in the player's sequence is
  carried out when the position is moved within the sequence the rescan has put the player in,
  which then begins at the break's row (`PositionIsPlayed` excepts it by `player.stale`);
* a break keeps `rowdelay`: next_row clears it in its other branch only
  (player.c:1844), so the row after the break is not read although nothing
  delays it (player.c:843-845);
* `xmp_set_position` to an order whose pattern does not exist changes the sequence, but not
  end_point (control.c:96, 103);
* `xmp_set_player` returns an error for XMP_PLAYER_VOICES although it sets it
  (control.c:506), and XMP_PLAYER_MODE to an Impulse Tracker mode sets QUIRK_VIRTUAL of a
  module whose pool was made without it (load_helpers.c:550, virtual.c:540).

Notes:

* in sample mode a note action still moves the old voice, onto the last track
  (virtual.c:540); the theorems of `VirtualChannelsProofs` exclude it;
* NOTE_KEY_CUT is set (read_event.c:1132) and never reset; player.h:69 gives it a meaning;
* libxmp_mixer_queuepatch ignores a request for the sample that plays (mixer.c:914), so that
  a sample queued before it still takes over;
* the event of an unmapped key is cleared ("ignored", read_event.c:987), but the reader's
  `key`, taken before, still acts;
* a key off at the sustain point (SUSEXIT) releases the envelope, not the sample;
* check_dct overwrites the action of a voice of the same instrument that fades already;
* FX_MED_RETRIG in the second slot uses the parameter of the first;
* a paused voice that is asked to play its own sample again and is retriggered
  in the same row stays paused: voicepos forgets the queued sample and hotswaps
  only a different one (mixer.c:797-806; the comment there and
  read_event.c:451-453 say that the new sample takes effect);
* a sample that ends exactly with a tick leaves its voice up to a step behind
  the end; turned round by Play Backward before the next tick, it
  plays from there (mixer.c:630, 983; mixer.c:387 keeps *looped* samples within
  one place of the end). `StaysInSample` therefore speaks of loops, and of voices that play
  forwards: backwards, `next` may lie anywhere before the loop until the next round.

Memory, in error paths (those with a name are in `Flaws` or `Leaks` of `MCLoaders`):

* xmp_start_player frees neither the mixer's buffers nor the voices (player.c:2062): the next
  start overwrites the pointers;
* "dirname": xmp_load_module keeps dirname when get_basename fails (load.c:380);
* "xtra": libxmp_realloc_samples has stored the resized mod->xxs when the realloc of m->xtra
  fails, and returns without setting mod->smp (common.c:96-100, 114). When it was to cut the
  table (xm_load.c:745, imf_load.c:558, rtm_load.c:702, med4_load.c:860), the loader gives up
  and xmp_release_module goes by the old mod->smp past the end of the new table (load.c:543).
  `TablesHold` excuses a mod->xxs that is too short only while it is shorter than m->xtra,
  which is so after that failure and never else; without the excuse TLC reports all four
  loaders;
* "registering": the iff handle when libxmp_iff_register fails (dbm_load.c:589,
  okt_load.c:389, gal4_load.c:425, gal5_load.c:342, dt_load.c:884, masi_load.c:753,
  emod_load.c:250, pt3_load.c:201, mdl_load.c:1186);
* "nt": the second file of flt_load.c:417; "file": mfp_load.c:342 frees the handle but does
  not close it; "buf_xmf": xmf_load.c:354; "annotation": a second annotation of
  med4_load.c:973 overwrites the comment; "p": the pipe of an external depacker
  (depacker.c:190);
* "vol_table": mmd_common.c:523 frees a table that med_extras.c:530 frees again;
  "temp": tempfile.c:159; "empty": what xz unpacks to nothing (unxz.c:87, depacker.c:262);
  "closed twice": a file whose fclose fails (hio.c:500, 525);
* "ptdt": pt3_load.c:145 ignores that a table could not be allocated; "track 0":
  mgt_load.c:337; "liq_tracks": liq_load.c:459; "bd": bunzip2.c:719; "huffman":
  arc_unpack.c:706. Likewise unchecked, and `Open` in the scripts: 669_load.c:144,
  abk_load.c:116, fuchs.c, pp21.c:118, theplayer.c:373, p61a.c:558.

Converters and depackers:

* "fcm": fc-m.c:71 writes as many positions as the file says, "fuchs": a pattern size that is
  not of whole patterns: the output is then refused, or read askew; "eureka": eureka.c:200,
  "heatseek": heatseek.c:203 look beyond what they requested; "sample of another":
  theplayer.c:294 and p61a.c:113 take the sample of the instrument after the last;
* unic.c:350 and 381 ignore a positive result of check_pattern, unic2.c:204 steps by two to a
  bound it can miss, gmc.c:185 uses counters left over from a loop; pw_check has advanced the
  file, but not its own count, after a short read;
* lzx_check_entry forgets that a merge is invalid at the next one (lzx.c:263);
* xmp_test_module_from_file unpacks, xmp_load_module_from_file does not (load.c:188, 442).

### Fairness

`ScanSpec` assumes weak fairness of the scan's next step: it is a function
that nothing interrupts. `FairSpec` assumes weak fairness of `Advance`, the
scan, the start and the frames: the liveness property is about a caller that
keeps asking for frames, as xmp_play_buffer does inside one call. No fairness is
assumed of position calls. `FairNotes` assumes weak fairness of the change of phase: a frame
is one call and goes through its phases, and the caller goes on playing frames; what the
rows hold, and where samples end, is chosen freely. `MixSpec` assumes weak fairness of `Mix`, the rounds of the mixer: it
is one call, and once it has begun a voice nothing but the end of the tick stops it.

## 4. Proofs

`VirtualChannelsProofs` proves, for every `NumTracks`, `NumVoc`, set of
instruments and levels:

* `InvariantHolds`: `Spec => []IInv`;
* `TypeCorrect`, `MapsAlwaysAgree`, `CountsAlwaysAgree`, `RootsAlwaysAgree`, and
  `TablesAlwaysAgree`, which is all of them: the tables' invariant of the run `virtual_nna`;
* `RelocationAlwaysHitsIdle`.

The assumption `NnaNeedsVirtual` (`Virtual \/ Nnas = {CUT}`) excludes exactly
sample mode with note actions (section 3), where the theorems are false.

The invariant `IInv` is the agreement of maps, counts and roots together with
the shape of the record, and `ActsFit`: without virtual channels no voice has
an action other than CUT. None of the three agreements is inductive
alone. `resetvoice` decrements the count of `root` and clears the map of
`chn`, so the maps need the roots (a voice in a track is the track's own) and
the counts need the maps (a voice is given back once). The step that needs an
idea is the relocation in setpatch: that an idle background channel
exists. Maps that agree make "channel is mapped" an injection from background
channels into voices; there are `MaxVoc` background channels and one voice has
just been allocated to a track, so at most `MaxVoc - 1` are taken. The
lemmas about cardinalities (one element more, one less, an injection) come
first, then one lemma per operator (`Unlink`, `ResetVoices`, `AllocVoice`,
`MoveVoice`, `CheckDct`, `SetPatch`), then one step per action.

Of every step it proves, from the same invariant and the same assumption:

* `AlwaysStealsQuietest`: a background note loses its voice to a track as a duplicate of the
  new note, or because every voice is in use and none in the background is quieter;
* `ForegroundAlwaysKept`: a note goes to the background for a new note of its own track only,
  and keeps its owner; no foreground voice changes tracks;
* `PoolImplemented`: every step of the pool is a step of `VoicePool`, or a stutter, under the
  mapping of `VirtualChannelsRefinement`.

The lemmas say what each operator does to one voice and to one channel; a step of the pool
is then a step of the abstract notes voice by voice. That a note pushed aside keeps its
owner is where the agreement of the maps enters again: the channel it is moved to is idle,
so no other note loses its place.

`ContextProofs` proves, for every set of frame and buffer sizes, every bound and
every set `Failing`:

* `EveryStateIsBacked`: a state has the memory its functions use;
* `StreamIsInOrder`: the bytes handed out are those of the frames, in order;
* `BufferIsOfPlayer`: no byte outlives its player;
* `SilenceEndsStream`: once a buffer has been filled up with silence, calls that wait for the
  same loop get no more sound (`SilenceIsEnd`);
* `NothingIsLost`, under the assumption that `Failing` and `Forgetful` are
  disjoint, which excludes the two error paths listed in section 3: with them the
  theorem is false.

`StateIsBacked` is inductive by itself; that nothing is lost is not. `Tidy` adds an upper
bound, what each state may hold at most (`Due`): an allocation loses no memory
only because nothing of a former player or module is held. `StreamInv` says that the next
byte of the buffer follows the last byte handed out (`Follows`), so that a piece goes on
where the last one ended; it needs `SmallestBounds`, that a piece is never empty and
stays in its frame. `Own` (bytes left over belong to the player that runs) needs
`StreamInv`, which bounds what is left over, and that a start clears the buffer. That
silence is the end needs to know why it was: `SilenceInv` says that after it, while the player
runs, nothing is left in the buffer and the player has stopped or reached the loop that was
waited for (`EndsSilent`), which is undone only by what forgets the silence, too. A
start that fails has set the loop count back, but there is no player then.

`MixerVoiceProofs` proves, for samples of every length and shape that the loaders
guarantee, every step, every size of a tick, both ways of turning and with or without
`ResetAtEnd`:

* `AlwaysStaysInSample`: nothing is read before a sample, no tick leaves a loop excessively
  past its end;
* `AlwaysDataRestored`: between ticks no byte of a sample is overwritten;
* `PausedNeverHeard` and `QueuedSwapsAtLoopStart`, of every step;
* `TicksAlwaysAdvance`: each round takes something off `size + usmp`, the frames and the
  rounds without frames a tick has left, so that a tick is over after `2 * TickSize` rounds
  (`TicksAdvance`).

`StaysInSample` is not inductive. `IInv` adds that the ends of a voice lie in its sample,
and, while a tick runs, that they are those of its loop as it is now (`Settled`), that a
voice that plays forwards is not before its sample, and that the tick has saved the bytes
of every place that is overwritten (`WrapOK`). The step that needs arithmetic is the frames
of a round: `Ceiling` says that n = ceil(x / step) steps reach an end x away and n - 1 do
not, so the last frame read lies before the end, and the next position at or behind it,
from where a loop leads back behind its start. `RoundKeeps` is the lemma about the rest of
the round, a case for each disjunct of `AfterFrames`; then there is one lemma per action.

`ScanProofs` proves, for all modules, any number of channels and the rules of every tracker:

* `ScanInvariantHolds`, and from it `ScanStaysInTables`: no row is scanned that does not
  exist, and no counter or table overflows;
* `LoopsAreAlwaysActive`: the count of active loops is right, whatever the channels of a row
  ask for;
* `OrdersAlwaysKept`: sequences do not overlap;
* `SequencesAlwaysCover`: in the end each order has a sequence, and each sequence its entry
  point;
* `SequencesAlwaysPlayable`: no order that can be played lies before its sequence's entry
  point, and each sequence starts over at a row that exists (`SequencesArePlayable`);
* `ScanAlwaysAdvances`: each step brings the scan nearer to its end (`ScanAdvances`).

The lemmas on flow.c come first, one per operator: that `SetCount` turns one loop on or off
is a lemma about cardinalities, and the rest follows by cases. What a row does is a recursive
function over its channels; the library's induction theorems cannot be used with this prover,
so `Recursion` derives induction over the numbers, least elements and the existence of
recursive functions from the well-foundedness of inclusion on finite sets
(`FS_StrictSubsetOrderingWellFounded`), and `ChannelsKeep` uses them. `Shape` is the type of
scan_module's local variables. That the scan never gives up outside the order list needs one
conjunct more: a jump past its end resets the count of orders. `Claims` is what sequences
rest on: the scan's own entry point is its own from its first step, those before it stay
theirs, and while the main sequence, which alone may meet its orders again, is scanned there
is no other to take them from. The correction at the end then keeps every order of a sequence
that counts, because it is itself the greatest known order not behind it. `MaxSequences` may
not exceed 255, the mark of an order that nothing has claimed.

That an order is never before its entry point is no invariant of single steps: a scan claims
orders before it is known to count, and the number of one that does not count goes to the scan
after it, with another entry point. `Books` says what is claimed and counted when, and that
entry points are the first orders nothing had claimed; `Lasts`, that a scan which has claimed an
order it can play counts in the end, because time has passed: the row that would end it at once
is either new or in a loop (which fails where the channels share one loop count, and that is
the exception). `Reaches` says that a scan which has played finds something to play again
before the count of orders gives up, so that each sequence has an end (`EndExists`); this is
where `ListsAssumption` is needed, that the limit (512 in the code) is at least twice the length of an
order list (at most 256). `Founded` gives each sequence an order that
playable orders follow from (`Leads`), which the player needs below.

That each step advances is a matter of four quantities in order: the orders nobody has claimed
never grow; while they stay, the stage (looking, at the end, done) does not go back; while that
stays, no visit counter falls; and while the counters stay, the count of orders since the last
valid one rises. The counters lie below `CountMod` (a row that overflows one ends the scan) and
the count of orders by `OrderLimit + 1`, so nothing can go on for ever, be it a jump to
itself or loops in each other. What needs care is that a row's delay is added to its counter,
too: `EffectCounts` shows that no effect of any channel lets the counter fall below what the visit
has made it (it is saturated, not wrapped), and `OutcomesCount` that this is so for the whole row.
The remaining distance to `ScanTerminates` is fairness alone.

`SequencerProofs` proves, for all modules and trackers, any number of channels, and any calls
and rescans between the frames:

* `RowsAlwaysExist`: the order that plays names a pattern and the row lies in it
  (`RowExists`), with the exception that `two_moves` shows;
* `SequencesCoverWhilePlaying`: a rescan, by whatever rules, ends as the first scan did;
* `JumpsAlwaysComeFromRow`: the order of the rows is left only where the row that plays asks
  for it (`JumpsComeFromRow`), for a caller that makes any calls but `xmp_set_row`
  (`NoSetRow`): that one leaves what the row before has asked for, section 3. The run
  `seq_flow` checks it with no calls at all;
* `TypesAlwaysHold` and `CountInvariantHolds`: positions stay in the order list, and end_point,
  the loop count and the frame in their bounds (`TypeOK`);
* `EndPointsAlwaysFit`, for a caller that does not rescan (`NoRescan`): no more visits of a
  sequence's end are waited for than the scan has counted (`EndPointFits`);
* `PositionsAlwaysReached`: an order of the player's sequence that is asked for is the one the
  next frame plays, for trackers whose channels have loop counts of their own (`NoGlobalCount`;
  for the others the scan may leave an order before its entry point, section 3);
* `PositionsAlwaysPlayed`, under both assumptions: it also begins at its first row, unless a
  time is sought (`PositionIsPlayed`).

The row exists because of three things at once, which `Sound` says of the player between two
frames: nothing is playable (`bad`), and then the last frame said so or none has been played
since; or the order is playable, its number of rows is the one kept, and the row is less. What
`SetRow`, a seek or a move leaves must fit in before the next frame is played, and the case the
code gets wrong is why `astray` is kept: without it `Sound` is not inductive. Every way on
(`NextOrder`, `NextRow`, `CheckEnd`) comes out at such a row (`Arrived`), wherever breaks,
loops and jumps of the row before point to: their rows are numbers, which needs what the
flow lemmas of `ScanProofs` say about every effect, and a loop's target that lies past the
pattern's end moves on to the next order. A move needs that the sequence of the order asked for
is one the player knows, which is the scan's invariant `Settled`; the flow lemmas state the
count of active loops conditionally, as the player does not keep it and a rescan may change
the rules it depends on. For the jumps the invariant is `JumpInv`: a break, a jump or a loop
that is pending was asked for by a row that is playing and has not been left (`Answers`). It
holds because whatever takes the player elsewhere comes to the first frame of a row with
nothing pending (`Placed`) - a call by resetting the flow, `NextRow` by carrying out what is
pending and forgetting it.

`CountInv` adds the bounds (`Bounded`; a frame that skips a row may count two visits) and what the
scan has found (`EntryInv`, which lasts while nothing is scanned and is rebuilt by a rescan).
`PlaceInv` adds that no more visits are waited for than the sequence has (`Fits`), and that
a player which is to go to an order of its sequence has no row pending (`Direct`). `Direct`
is what needs most: a break that
finds nothing to play stays pending, so nothing may be playable then in the whole sequence; a
player that finds nothing from the order it wants and nothing from the entry point must
have passed every order of the sequence, which is `Leading` of the scan (`NextOrderLands`).
`NoRescan` is assumed because the model's second scan by the same rules would have to be shown
to count what the first one did, an induction over the steps of two scans; that a rescan leaves
`Fits` and `Direct` intact is checked by the run `seq_calls`, with rescans.

`SmixProofs` proves, for any number of tracks, voices, slots and blocks of memory, under
`NnaNeedsVirtual` and `~ReleasesEmpty` (the caller releases no empty slot while it plays,
section 3; with `ReleasesEmpty` the run `smix_empty_slot` shows the counters wrong):

* `VoicesAlwaysPlayLoaded`: no voice plays from freed memory, and a voice has a sample
  exactly while it is in use;
* `CountsAgreeWithEffects`: the pool's counters stay right under sound effects;
* `OthersAlwaysPlayOn`: changes of the slots stop the voices that play from them and no
  others.

`SmixInv` takes the pool's part from the lemmas about its operators (`ResetVoicesInv`,
`PlacementsInv`, `PlacementsShape`). Two conjuncts do not follow from the properties. A
released slot is found by its pointer, so no two slots may share their memory
(`SlotsDiffer`). And a slot emptied while no player runs stops no voice, so none may be in
use then (`Still`): the player's end and start give all of them back. One lemma per operator
(`SilenceKeeps`, `ReleaseKeeps`, `LoadedKeeps`, `StartKeeps`, `SmixEventKeeps`) says what it
does to the three records; `ReleaseAllKeeps` and `InjectKeeps` go through the slots and the
reserved tracks by the induction of `Recursion`.

`NotesProofs` proves, for all modules, any number of tracks and voices and any speed, under
`NnaNeedsVirtual`:

* `SampleAlwaysAgrees`: a voice plays the sample its channel says (`SampleAgrees`);
* `BackgroundAlwaysQuiet`: no row works on a note in the background, and one that has ended
  has given its voice back (`BackgroundIsQuiet`);
* `DelaysAlwaysStayInRow`: a delayed event is counted down in its own row (`DelaysStayInRow`);
* `SustainAlwaysHolds`: an Impulse Tracker note that nobody releases does not pass its sustain
  loop (`SustainHolds`);
* `EveryTurnAlwaysFades`: in the turn of its channel a dying note in the background loses a step
  of its fade and goes on dying, or gives its voice back (`EveryTurnFades`).

What a module may be is `SongsAssumption`: note actions and duplicate actions are among those
of the pool, and only a format of Impulse Tracker's reader uses virtual channels, as the
quirk sets in common.h have it. TLC evaluates it on the songs of the run.

None of the first three is inductive. A state s = [virt, voice, xc] is `Good` if the pool is in
order (`PoolInv`), every voice, in the foreground or not, plays what its channel says
(`Agree`), and no channel behind the tracks has work of a row or an ended note (`Quiet`);
outside Impulse Tracker's reader, moreover, every voice acts by CUT, since only that reader
keeps old notes. A row takes a state through hundreds of lines of readers, so the proof does
not go from frame to frame but from piece to piece: each piece of a reader takes a good state
to a good one and leaves the delayed events alone or forgets them (`Legal`, which composes),
and it is one of few things: it changes channel data that no property is about, it silences
voices (`ResetLegal`), or it starts a note. Starting a note is the hard one: for the time
between the pool's move of the old note and the copy of its channel, the new channel disagrees
with its voice, so that `Agree` and `Quiet` have as parameter the channels they hold for. The
lemmas about the operators of the pool tell which voice belongs to the channel that waits to be
copied. The row, the injected events and the mixer's loop are recursive functions, over the
tracks or voices, whose existence `Recursion` provides. A delayed event adds to the invariant
that what is left of the delay and the frames already played make the delay that was asked
for; `PutAside` starts it, in frame 0 only, and a row cannot end before its count does without
the next row setting it anew.

`SustainHolds` is a property of the frame of one virtual channel, so its proof follows
`play_channel` up to the envelope: without a delayed event that comes due, whatever comes
before the envelope leaves the position where it is and takes no release back (`Stands`); and `UpdateIt` moves a position that is at most the loop's end to one that is
(`SustainLoopHolds`). That the loop lies in the envelope is `IsEnvelope`, what check_envelope
leaves when a module is loaded. A loop whose start lies behind its end is left out by the
property: no loader refuses one, and the position then goes to that start.

`EveryTurnFades` is about the same stretch of code. A background channel has no delayed event
and no retrigger (`Quiet`, of the invariant); a key off that comes due may release or fade the note
and the envelope may tell it to fade, but nothing takes back what it was told
(`ToldStill`), so that `FadeStepFades` finds it fading. Where the fade is used up
the note ends, and an ended background note is silenced (`SoundKeeps`).

Model-checked only: `MainSequenceClosed`, which says that the player stays in the rows the scan
has seen and so needs a simulation of one by the other; and the
properties of the loaders, which hold by the data of finitely many finite scripts, so that TLC,
which runs each of them, checks all there is. So is liveness (`ScanTerminates`, `LoopsAreCounted`,
`TicksEnd`, `DyingNotesEnd`), which needs ENABLED and is not reached by the provers. For three of the
four the measures are proved (`ScanAdvances`, `TicksAdvance`, `EveryTurnFades`), so that only
the rule of fairness is taken from TLC; for `DyingNotesEnd` also that nothing between two turns makes
the note louder.

## 5. Plan

Done: 1. `VirtualChannels` with its abstract specification, its proof and that of the refinement;
2. `Flow`, `Scan` and `Sequencer`, with rescans by other rules, and their proofs; `Smix` with its proof; 3. `Context` and
`PlayBuffer` with their proofs; 4. `MixerVoice` with its proof; 5. `Notes` with the readers and envelopes and its proof;
6. the loaders, converters and depackers as scripts.

What would come next:

7. Proofs: `MainSequenceClosed`, whose player would have to follow the scan; that only its own
   turns change the fade of a background note (`DyingNotesEnd`).
8. The MED reader and synth programs; a tick over all voices, which composes `MixerVoice`
   with `Notes`; a song with smix tracks in `Notes`.

## 6. Not modelled, and why

* *Numeric functions*: interpolation, filters, periods, oscillators, volume ramps are
  arithmetic on sample data and on single values; they change no control state.
* *Contents*: what the loaders and converters decode (events, envelopes, names, sample data),
  and the algorithms of the depackers, sequential functions from bytes to bytes; the vendored
  ones (lhasa, miniz, xz-embedded, vorbis) are only models of what they allocate, or left out.
* *Format extras*: per-channel state of four formats; MED's synth programs are a small
  interpreter and the first candidate. The MED reader goes with them.
* *Test functions* of the loaders, path strings, the digest, the platform shims, xfd.c
  (Amiga only), and the converters that are not registered (pm.c, pm01.c, pm20.c, pm40.c,
  pp30.c).
* *Settings* of control.c that are single assignments (volumes, panning, mute): they have no
  invariant to keep. Speed and tempo effects: the scan's and the player's clocks only.
