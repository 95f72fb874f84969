----------------------------- MODULE MixerVoice -----------------------------
(***************************************************************************)
(* A voice of the software mixer, src/src/mixer.c: where in its sample it  *)
(* plays, in which direction, where it turns, and when a queued sample     *)
(* takes its place.  A tick of the mixer is a series of steps, a round of  *)
(* libxmp_mixer_softmixer's inner loop each; the player's calls come       *)
(* between two ticks.                                                      *)
(*                                                                         *)
(* For the interpolation the mixer overwrites the bytes around the loop in *)
(* the sample itself, and restores them later: `patched` are the places    *)
(* that hold something else than the sample.  Positions are numbers of a   *)
(* fine grid, where the code has floating point.                           *)
(***************************************************************************)
EXTENDS Integers

CONSTANTS
    Samples,        \* the samples of the module
    Shapes,         \* lengths and loops a sample may have
    Steps,          \* distances between two frames; 0 is out of range
    Offsets,        \* positions a note, an offset or a retrigger asks for
    TickSize,       \* frames in a tick
    BidirAdjust,    \* 1 with Impulse Tracker's mixer
    ResetAtEnd      \* QUIRK_RSTCHN: the end of the sample gives the voice back

\* What the loaders guarantee (libxmp_load_sample, libxmp_load_epilogue).
ASSUME ShapesAssumption ==
    \A s \in Shapes :
        /\ s.len \in Nat \ {0} /\ {s.lps, s.lpe, s.sus, s.sue} \subseteq Int
        /\ s.loop \in {"off", "forward", "bidir"} /\ s.sustain \in {"off", "forward", "bidir"}
        /\ s.full \in BOOLEAN
        /\ s.full => s.loop # "off" /\ s.lps = 0 /\ s.lpe < s.len
        /\ s.loop # "off" => 0 <= s.lps /\ s.lps < s.lpe /\ s.lpe <= s.len
        /\ s.sustain # "off" => 0 <= s.sus /\ s.sus < s.sue /\ s.sue <= s.len

ASSUME MixerAssumption ==
    /\ Steps \subseteq Nat /\ Offsets \subseteq Nat
    /\ TickSize \in Nat \ {0, 1} /\ BidirAdjust \in {0, 1} /\ ResetAtEnd \in BOOLEAN

NoSample == "none"      \* -1: an invalid instrument was queued
NotQueued == "no"

ASSUME SamplesAssumption == NoSample \notin Samples /\ NotQueued \notin Samples

VARIABLES
    shape,      \* the samples
    voice,      \* struct mixer_voice, or Free
    tick,       \* the locals of the mixer while it mixes the voice
    patched,    \* places of samples that are overwritten
    heard       \* what the last step has read, or Silence

mixVars == <<shape, voice, tick, patched, heard>>

Free    == [used |-> FALSE]
NoWrap  == [active |-> FALSE, places |-> {}, saved |-> {}]
NoTick  == [on |-> FALSE, size |-> 0, usmp |-> 0, step |-> 0, split |-> FALSE, wrap |-> NoWrap]
Silence == [smp |-> NoSample, low |-> 0, high |-> 0]

Smaller(a, b) == IF a <= b THEN a ELSE b

-----------------------------------------------------------------------------
(* Loops                                                                   *)

\* has_active_sustain_loop
SustainLoop(v) == shape[v.smp].sustain # "off" /\ ~v.release

\* has_active_loop
ActiveLoop(v) == shape[v.smp].loop # "off" \/ SustainLoop(v)

\* adjust_voice_end: the ends of the loop that is active, or of the sample.
AdjustEnd(v) ==
    LET s == shape[v.smp]
        Between(a, b, kind) == [v EXCEPT !.start = a, !.end = b, !.bidir = (kind = "bidir")]
    IN  CASE SustainLoop(v) -> Between(s.sus, s.sue, s.sustain)
          [] ~SustainLoop(v) /\ s.loop # "off" /\ s.full /\ ~v.looped ->
                Between(s.lps, s.len, "forward")
          [] ~SustainLoop(v) /\ s.loop # "off" /\ ~(s.full /\ ~v.looped) ->
                Between(s.lps, s.lpe, s.loop)
          [] OTHER -> Between(0, s.len, "forward")

\* Where a loop leads, before the safety check.
Turned(v) ==
    IF ~v.bidir
    THEN [v EXCEPT !.pos = IF v.reverse THEN @ + (v.end - v.start) ELSE @ - (v.end - v.start)]
    ELSE [v EXCEPT !.reverse = ~@,
                   !.pos = IF v.reverse THEN v.start * 2 - @ ELSE v.end * 2 - BidirAdjust - @]

\* Mutant of Reposition: no safety check.
RepositionAnywhere(v) ==
    Turned(IF v.looped THEN v ELSE AdjustEnd([v EXCEPT !.looped = TRUE]))

\* loop_reposition
Reposition(v) ==
    LET w == Turned(IF v.looped THEN v ELSE AdjustEnd([v EXCEPT !.looped = TRUE]))
    IN  [w EXCEPT !.pos = Smaller(@, shape[v.smp].len + 1)]

\* libxmp_mixer_voicepos without a queued sample.
Positioned(v, pos) ==
    LET w == AdjustEnd([v EXCEPT !.pos = pos])
    IN  CASE pos >= w.end ->
               LET atEnd == [w EXCEPT !.pos = w.end]
               IN  IF ~w.reverse /\ ActiveLoop(w) THEN Reposition(atEnd) ELSE atEnd
          [] pos < w.end /\ w.reverse /\ pos = 0 -> [w EXCEPT !.pos = w.end]
          [] OTHER -> w

\* libxmp_mixer_setpatch; the voice keeps what it does not mention.
Patched(v, smp) ==
    Positioned([v EXCEPT !.smp = smp, !.looped = FALSE, !.queued = NotQueued,
                         !.paused = FALSE, !.reverse = FALSE, !.bidir = FALSE,
                         !.active = TRUE], 0)

\* hotswap_sample
HotSwap(v, smp) == [Patched(v, smp) EXCEPT !.looped = TRUE]

\* libxmp_mixer_voicepos: a queued sample takes effect.
VoicePos(v, pos) ==
    CASE v.queued = NotQueued -> Positioned(v, pos)
      [] v.queued = NoSample ->
            Positioned([v EXCEPT !.queued = NotQueued, !.paused = TRUE, !.looped = TRUE], pos)
      [] v.queued = v.smp ->
            Positioned([v EXCEPT !.queued = NotQueued, !.looped = TRUE], pos)
      [] OTHER -> Positioned(HotSwap(v, v.queued), pos)

-----------------------------------------------------------------------------
(* The bytes around the loop                                               *)

\* The places init_sample_wraparound saves, and those of them it overwrites:
\* before the start only if the loop has been passed.
Around(v) == {<<v.smp, "start", v.start>>, <<v.smp, "end", v.end>>}
Overwritten(v) == IF v.looped THEN Around(v) ELSE {<<v.smp, "end", v.end>>}

\* init_sample_wraparound, with an interpolation other than nearest.
WrapOf(v, places) ==
    IF shape[v.smp].loop = "off" THEN NoWrap
    ELSE [active |-> TRUE, places |-> Around(v), saved |-> places \cap Around(v)]

InitWrap(v, places) == IF shape[v.smp].loop = "off" THEN places ELSE places \cup Overwritten(v)

\* Mutant of ResetWrap: only the end is restored.
ResetWrapEnd(wrap, places) ==
    IF wrap.active
    THEN (places \ {p \in wrap.places : p[2] = "end"}) \cup wrap.saved ELSE places

\* reset_sample_wraparound
ResetWrap(wrap, places) ==
    IF wrap.active THEN (places \ wrap.places) \cup wrap.saved ELSE places

-----------------------------------------------------------------------------
(* A tick                                                                  *)

\* The voice is at the end it plays towards.
Stuck(v) == IF v.reverse THEN v.pos <= v.start ELSE v.pos >= v.end

\* Frames until the end is reached or passed, `ceil` in the code.
Frames(v, step) ==
    ((IF v.reverse THEN v.pos - v.start ELSE v.end - v.pos) + step - 1) \div step

\* Mutant of Remaining: the frames are not counted.
RemainingAll(t, n) == t

\* size -= samples
Remaining(t, n) == [t EXCEPT !.size = @ - n]

\* Mutant of Ended: the tick goes on.
EndedOnly(v, t) == [voice |-> [v EXCEPT !.active = FALSE], tick |-> t]

\* set_sample_end, and the end of the voice's tick.
Ended(v, t) ==
    [voice |-> IF ResetAtEnd THEN Free ELSE [v EXCEPT !.active = FALSE],
     tick  |-> [t EXCEPT !.size = 0]]

\* The end of a sample that does not loop.
SampleEnds(v, t) ==
    /\ ~ActiveLoop(v) \/ t.split
    /\ v.queued = NotQueued
    /\ LET e == IF t.size > 0 THEN Ended(v, t) ELSE [voice |-> v, tick |-> t]
       IN  voice' = e.voice /\ tick' = e.tick
    /\ UNCHANGED patched

Loops(v, t) ==
    /\ v.queued # NotQueued \/ (ActiveLoop(v) /\ ~t.split)
    /\ t.size > 0 \/ Stuck(v)

\* Neither the end of the loop nor that of a queued sample's predecessor.
PlaysOn(v, t) ==
    /\ v.queued # NotQueued \/ (ActiveLoop(v) /\ ~t.split)
    /\ ~(t.size > 0 \/ Stuck(v))
    /\ voice' = v /\ tick' = t
    /\ UNCHANGED patched

\* A one-shot is not followed by a one-shot, nor anything by no sample.
Stops(v) ==
    \/ v.queued = NoSample
    \/ v.queued # NoSample /\ ~ActiveLoop(v) /\ shape[v.queued].loop = "off"

QueueStops(v, t) ==
    /\ Loops(v, t) /\ v.queued # NotQueued /\ Stops(v)
    /\ LET e == Ended([v EXCEPT !.queued = NotQueued, !.paused = TRUE], t)
       IN  voice' = e.voice /\ tick' = e.tick
    /\ UNCHANGED patched

\* Mutant of SwappedIn: the new sample starts at its first byte.
SwappedInAtZero(v, smp) == AdjustEnd(HotSwap(v, smp))

\* The new sample, at the start of its loop or at its own.
SwappedIn(v, smp) ==
    LET w == AdjustEnd(HotSwap(v, smp)) IN [w EXCEPT !.pos = w.start]

QueueSwaps(v, t) ==
    /\ Loops(v, t) /\ v.queued # NotQueued /\ ~Stops(v)
    /\ \E w \in {SwappedIn(v, v.queued)}, restored \in {ResetWrap(t.wrap, patched)} :
           /\ voice' = w
           /\ tick' = [t EXCEPT !.wrap = WrapOf(w, restored)]
           /\ patched' = InitWrap(w, restored)

\* The first time, the ends of the loop replace those of the first pass.
LoopTurns(v, t) ==
    /\ Loops(v, t) /\ v.queued = NotQueued
    /\ \E w \in {Reposition(v)}, restored \in {ResetWrap(t.wrap, patched)} :
           /\ voice' = w
           /\ IF v.looped
              THEN tick' = t /\ UNCHANGED patched
              ELSE /\ tick' = [t EXCEPT !.wrap = WrapOf(w, restored)]
                   /\ patched' = InitWrap(w, restored)

AfterFrames(v, t) ==
    \/ SampleEnds(v, t) \/ PlaysOn(v, t)
    \/ QueueStops(v, t) \/ QueueSwaps(v, t) \/ LoopTurns(v, t)

\* Frames are mixed up to the end of the loop or of the tick.
MixFrames ==
    /\ tick.on /\ tick.size > 0 /\ ~Stuck(voice)
    /\ LET n == Smaller(Frames(voice, tick.step), tick.size)
           last == IF voice.reverse THEN voice.pos - (n - 1) * tick.step
                                    ELSE voice.pos + (n - 1) * tick.step
           next == IF voice.reverse THEN last - tick.step ELSE last + tick.step
       IN  /\ heard' = IF n = 0 THEN Silence
                    ELSE [smp |-> voice.smp, low |-> Smaller(voice.pos, last),
                          high |-> IF voice.reverse THEN voice.pos ELSE last]
           /\ \E v \in {[voice EXCEPT !.pos = next]}, t \in {Remaining(tick, n)} :
                 AfterFrames(v, t)
    /\ UNCHANGED shape

\* Nothing can be mixed here; `usmp` bounds how often that happens in a tick.
MixNothing ==
    /\ tick.on /\ tick.size > 0 /\ Stuck(voice)
    /\ heard' = Silence
    /\ IF tick.usmp <= 1
       THEN tick' = [tick EXCEPT !.size = 0] /\ UNCHANGED <<voice, patched>>
       ELSE \E t \in {[tick EXCEPT !.usmp = @ - 1]} : AfterFrames(voice, t)
    /\ UNCHANGED shape

EndTick ==
    /\ tick.on /\ tick.size = 0
    /\ patched' = ResetWrap(tick.wrap, patched)
    /\ tick' = NoTick /\ heard' = Silence
    /\ UNCHANGED <<shape, voice>>

\* "Negative positions can be left over from some loop edge cases."
FromZero(v) == IF v.pos < 0 THEN [v EXCEPT !.pos = 0] ELSE v

\* The mixer comes to the voice: a voice that is paused is passed over, unless a
\* sample waits for it.
BeginTick(step, split) ==
    /\ voice.used /\ ~tick.on
    /\ heard' = Silence
    /\ IF voice.paused /\ voice.queued \notin Samples
       THEN /\ voice' = [FromZero(voice) EXCEPT !.queued = NotQueued]
            /\ UNCHANGED <<tick, patched>>
       ELSE \E w \in {IF voice.paused THEN SwappedIn(voice, voice.queued)
                      ELSE AdjustEnd(FromZero(voice))} :
              /\ voice' = w
              /\ IF step = 0 THEN UNCHANGED <<tick, patched>>
                 ELSE /\ tick' = [on |-> TRUE, size |-> TickSize, usmp |-> TickSize,
                                  step |-> step, split |-> split, wrap |-> WrapOf(w, patched)]
                      /\ patched' = InitWrap(w, patched)
    /\ UNCHANGED shape

-----------------------------------------------------------------------------
(* The player's calls                                                      *)

Blank == [used |-> TRUE, smp |-> NoSample, pos |-> 0, start |-> 0, end |-> 0,
          looped |-> FALSE, queued |-> NotQueued, paused |-> FALSE, reverse |-> FALSE,
          bidir |-> FALSE, release |-> FALSE, active |-> FALSE]

\* A call of the player that changes the voice and nothing else.
Call(v) ==
    /\ ~tick.on
    /\ voice' = v /\ heard' = Silence
    /\ UNCHANGED <<shape, tick, patched>>

\* libxmp_mixer_setpatch on a voice in use or just allocated.
SetPatch(smp) == Call(Patched(IF voice.used THEN voice ELSE Blank, smp))

\* libxmp_mixer_queuepatch
QueuePatch(smp) ==
    /\ voice.used
    /\ smp # voice.smp \/ voice.paused
    /\ Call([voice EXCEPT !.queued = smp])

\* libxmp_mixer_voicepos
SetPos(pos) == voice.used /\ Call(VoicePos(voice, pos))

\* libxmp_virt_setsmp: another sample, the old position.
SetSmp(smp) ==
    /\ voice.used /\ smp # voice.smp
    /\ Call(VoicePos(Patched(voice, smp), voice.pos))

\* libxmp_mixer_release: leaving a sustain loop backwards turns the voice, unless
\* the loop after it is bidirectional.
Release(rel) ==
    /\ voice.used
    /\ Call([voice EXCEPT
                !.release = rel,
                !.reverse = @ /\ ~(rel /\ SustainLoop(voice) /\ shape[voice.smp].loop # "bidir")])

\* libxmp_mixer_reverse
Reverse(rev) ==
    /\ voice.used /\ voice.active
    /\ Call([voice EXCEPT !.reverse = rev])

\* libxmp_virt_resetvoice, by the pool.
ResetVoice == voice.used /\ Call(Free)

-----------------------------------------------------------------------------
MixInit ==
    /\ shape \in [Samples -> Shapes]
    /\ voice = Free /\ tick = NoTick /\ patched = {} /\ heard = Silence

Mix == MixFrames \/ MixNothing \/ EndTick

MixNext ==
    \/ Mix
    \/ \E step \in Steps, split \in BOOLEAN : BeginTick(step, split)
    \/ \E smp \in Samples : SetPatch(smp) \/ SetSmp(smp)
    \/ \E smp \in Samples \cup {NoSample} : QueuePatch(smp)
    \/ \E pos \in Offsets : SetPos(pos)
    \/ \E on \in BOOLEAN : Release(on) \/ Reverse(on)
    \/ ResetVoice

\* The mixer is one call: nothing keeps it from its next step.
MixSpec == MixInit /\ [][MixNext]_mixVars /\ WF_mixVars(Mix)

-----------------------------------------------------------------------------
(* Properties                                                              *)

MixTypeOK ==
    /\ voice.used => /\ voice.smp \in Samples
                     /\ voice.queued \in Samples \cup {NoSample, NotQueued}
                     /\ 0 <= voice.start /\ voice.start < voice.end
                     /\ voice.end <= shape[voice.smp].len
    /\ tick.on /\ tick.size > 0 => voice.used
    /\ tick.size \in 0 .. TickSize /\ tick.usmp \in 0 .. TickSize

\* Whatever the step, the loop and the direction, and however the player moves,
\* turns, swaps or releases the voice, the mixer reads nothing before its sample;
\* and a tick never leaves a voice that loops "excessively past the sample end",
\* where it would read if the player turned it round before the next tick.
StaysInSample ==
    /\ MixTypeOK
    /\ heard # Silence => heard.low >= 0
    /\ tick.on /\ tick.size = 0 /\ voice.used /\ ActiveLoop(voice) /\ ~tick.split
         /\ ~voice.paused /\ ~voice.reverse => voice.pos <= shape[voice.smp].len + 1

\* What the mixer writes into a sample is gone when it leaves the voice, so that
\* no other voice, no backup and no later loop ever sees it.
DataRestored == ~tick.on => patched = {}

\* "it will not play": a voice that is paused is not heard until a sample takes
\* its place.
PausedIsSilent == [][heard' # Silence => ~voice.paused]_mixVars

\* libxmp_mixer_queuepatch's comment: while the mixer plays, a sample gives way
\* to another only at the end, and that one begins "at the start of its loop if
\* it is looped, the start of the sample if it is a one-shot".
SwapsAtLoopStart ==
    [][tick.on /\ voice'.used /\ voice'.smp # voice.smp =>
          LET s == shape[voice'.smp]
          IN  /\ voice'.pos = IF SustainLoop(voice') THEN s.sus
                              ELSE IF s.loop # "off" THEN s.lps ELSE 0
              /\ ActiveLoop(voice) \/ s.loop # "off"]_mixVars

\* Every round mixes a frame, uses one of the `usmp` rounds that mix none or is
\* the tick's last: a tick takes no more than 2 * TickSize rounds.
TicksAdvance ==
    [][tick.on /\ tick'.on => tick'.size + tick'.usmp < tick.size + tick.usmp]_mixVars

\* A tick comes to an end, however small the loop.
TicksEnd == tick.on ~> ~tick.on
=============================================================================
