-------------------------------- MODULE Notes --------------------------------
(***************************************************************************)
(* The life of a note: src/src/player.c from the row to the voice.         *)
(*                                                                         *)
(* xmp_play_frame reads a row in its first frame (read_row), then plays    *)
(* every virtual channel (play_channel): a delayed event comes due, a cut, *)
(* a retrigger or a key off counts down, the envelope moves on, a released *)
(* note fades, and a background note that has ended gives its voice back.  *)
(* The mixer comes last and tells the channel when a sample has run out.   *)
(* Which row comes next is the business of Sequencer; here any event of    *)
(* the song may come next.                                                 *)
(***************************************************************************)
EXTENDS EventReaders

CONSTANTS
    Songs,          \* the modules that are played
    Speed           \* p->speed: frames of a row

ASSUME SpeedAssumption == Speed \in Nat \ {0}

IsEffect(f) == f[2] \in Nat /\ (f[1] = "nna" => f[2] \in Nnas)
IsEvent(e)  ==
    /\ {"note", "ins", "fx", "f2"} \subseteq DOMAIN e
    /\ e.note \in Nat /\ e.ins \in Nat /\ IsEffect(e.fx) /\ IsEffect(e.f2)

IsInstrument(i) ==
    /\ \A k \in Keys : i.map[k] \in Nat
    /\ IsEnvelope(i.env) /\ i.rls \in Int
    /\ Len(i.subs) \in Nat
    /\ \A j \in 1 .. Len(i.subs) : i.subs[j].nna \in Nnas /\ i.subs[j].dca \in Dcas

\* Only the formats of Impulse Tracker's reader use virtual channels (QUIRKS_IT).
IsSong(s) ==
    /\ "VIRTUAL" \in s.quirks => Virtual /\ s.reader = "IT"
    /\ Len(s.instruments) \in Nat
    /\ 0 .. Len(s.instruments) - 1 \subseteq Instruments
    /\ \A i \in 1 .. Len(s.instruments) : IsInstrument(s.instruments[i])
    /\ \A e \in s.events : IsEvent(e)
    /\ s.delays \subseteq Nat

ASSUME SongsAssumption == \A s \in Songs : IsSong(s)

VARIABLES
    voice,          \* what each voice plays (EmptyVoice if none)
    xc,             \* p->xc_data
    frame,          \* p->frame
    ticks,          \* p->speed * (1 + f->delay): frames of this row
    at              \* Injecting, the next channel to play, Mixing, then Done

noteVars == <<virt, song, voice, xc, frame, ticks, at>>

Injecting == -1
Mixing == VirtChannels
Done   == VirtChannels + 1

Here == [virt |-> virt, voice |-> voice, xc |-> xc]

\* reset_channels, and the mixer's zeroed voices.
ResetChannels == [c \in Channels |-> ResetXc]
Silence       == [v \in Voices |-> EmptyVoice]

Becomes(s) == virt' = s.virt /\ voice' = s.voice /\ xc' = s.xc

\* xmp_start_player: no voice plays, and the channels are reset.
NotesInit ==
    /\ song \in Songs
    /\ virt = EmptyPool
    /\ voice = Silence /\ xc = ResetChannels
    /\ ticks = Speed /\ frame = Speed - 1 /\ at = Done

-----------------------------------------------------------------------------
(* The row                                                                 *)

DelayOf(e) == IF e.fx[1] = "delay" THEN e.fx[2]
              ELSE IF e.f2[1] = "delay" THEN e.f2[2] ELSE 0

\* do_delay: the event is put aside, with its instrument number, for
\* play_channel to read.
PutAside(s, c, e) ==
    [s EXCEPT !.xc[c] = [s.xc[c] EXCEPT
        !.delay = DelayOf(e) + 1, !.event = e,
        !.dins  = IF e.ins # 0 THEN e.ins ELSE @,
        !.flags = IF song.reader = "IT" THEN {} ELSE @]]

\* Mutant of ReadChannel: an empty event is not worth reading.
ReadChannelUnlessEmpty(s, c, e) ==
    IF e = NoEvent THEN s
    ELSE IF DelayOf(e) # 0 THEN PutAside(s, c, e) ELSE ReadEvent(s, c, e, FALSE)

\* One channel of read_row, with check_delay.
ReadChannel(s, c, e) ==
    LET t == [s EXCEPT !.xc[c].keyoff = IF song.reader = "FT2" THEN 0 ELSE @]
    IN  IF DelayOf(e) # 0 THEN PutAside(t, c, e) ELSE ReadEvent(t, c, e, FALSE)

\* The key off of the last frame is forgotten (the tracks only).
ForgetKeyOff(s) ==
    [s EXCEPT !.xc = [c \in Channels |->
        IF c \in Tracks THEN [s.xc[c] EXCEPT !.flags = @ \ {"KEY_OFF"}] ELSE s.xc[c]]]

\* read_row: every track gets an event, in order.
ReadRow(s, row) ==
    LET read[n \in 0 .. NumTracks] ==
            IF n = 0 THEN s ELSE ReadChannel(read[n - 1], n - 1, row[n - 1])
    IN  read[NumTracks]

Rows == [Tracks -> song.events \cup {NoEvent}]

\* Injected events come between the row and the channels.
AfterRow == IF song.injects THEN Injecting ELSE 0

\* xmp_play_frame up to the channels.  The frame counter runs through the row
\* as often as a pattern delay says.
NextFrame ==
    /\ at = Done
    /\ at' = AfterRow
    /\ IF frame + 1 < ticks
       THEN /\ frame' = frame + 1
            /\ Becomes(ForgetKeyOff(Here))
            /\ UNCHANGED ticks
       ELSE /\ frame' = 0
            /\ \E d \in song.delays : ticks' = Speed * (1 + d)
            /\ \E row \in Rows : Becomes(ReadRow(ForgetKeyOff(Here), row))
    /\ UNCHANGED song

\* xmp_play_frame after a position call: the pool and the channels are reset,
\* and the row of the new position is read.
Reposition ==
    /\ at = Done
    /\ song.repositions
    /\ frame' = 0 /\ ticks' = Speed /\ at' = AfterRow
    /\ \E row \in Rows :
          Becomes(ReadRow([virt |-> VirtReset(virt), voice |-> Silence,
                           xc   |-> ResetChannels], row))
    /\ UNCHANGED song

\* inject_event: the events that wait in the channels of M are read.
ReadInjected(s, M, row) ==
    LET read[n \in 0 .. NumTracks] ==
            IF n = 0 THEN s
            ELSE IF n - 1 \in M
            THEN ReadEvent(read[n - 1], n - 1, row[n - 1], frame >= Speed)
            ELSE read[n - 1]
    IN  read[NumTracks]

\* The events of xmp_inject_event, at most one for a channel, are read in any
\* frame.
Inject ==
    /\ at = Injecting
    /\ \E M \in SUBSET Tracks, row \in Rows : Becomes(ReadInjected(Here, M, row))
    /\ at' = 0
    /\ UNCHANGED <<song, frame, ticks>>

-----------------------------------------------------------------------------
(* play_channel                                                            *)

Style == IF song.reader = "IT" THEN "IT"
         ELSE IF Quirk("FT2ENV") THEN "XM" ELSE "generic"

\* "Do delay"
DoDelay(s, c) ==
    LET x == s.xc[c]
        t == [s EXCEPT !.xc[c].delay = @ - 1]
    IN  IF x.delay = 0 THEN s
        ELSE IF x.delay > 1 THEN t
        ELSE ReadEvent([t EXCEPT !.xc[c].event = NoEvent], c,
                       x.event, frame >= Speed)

\* "Do cut/retrig": with QUIRK_S3MRTG a count of 0 fires at once, without it
\* only on the way down to 0.
DoRetrig(s, c) ==
    LET old   == s.xc[c].retrig
        on    == "RETRIG" \in s.xc[c].flags
        count == old.count - 1
        fires == IF Quirk("S3MRTG") THEN count <= 0 ELSE count = 0
        t     == IF on /\ fires /\ ~old.cut THEN VoicePos(s, c) ELSE s
        x     == t.xc[c]
        once  == IF old.limit > 0 THEN old.limit - 1 ELSE 0
        y     == [x EXCEPT
                    !.notes  = IF old.cut THEN @ \cup {"END"} ELSE @,
                    !.flags  = IF old.limit = 1 THEN @ \ {"RETRIG"} ELSE @,
                    !.retrig.count = old.val, !.retrig.limit = once]
        z     == [x EXCEPT !.retrig.count = count]
    IN  IF ~on THEN s
        ELSE [t EXCEPT !.xc[c] = IF fires THEN y ELSE z]

\* delayed_keyoff
DelayedKeyoff(x) ==
    IF song.reader # "FT2" THEN [x EXCEPT !.notes = @ \cup RELEASE]
    ELSE IF frame >= Speed THEN x
    ELSE [x EXCEPT !.notes = @ \cup {"FADEOUT"} \cup
             (IF Has(Ins(x.ins).env, "ON") THEN RELEASE ELSE {})]

\* "Do keyoff"
DoKeyoff(s, c) ==
    LET x == s.xc[c]
        y == [x EXCEPT !.keyoff = @ - 1]
    IN  IF x.keyoff = 0 THEN s
        ELSE [s EXCEPT !.xc[c] =
                 IF y.keyoff = 0 THEN DelayedKeyoff(y) ELSE y]

\* Mutant of Fades: a note that was told to fade does not.
FadesReleasedOnly(x, act) == "ENV_RELEASE" \in x.notes \/ act = OFF

\* Whether the note fades in this frame, and whether it falls silent at once.
\* `x` is the channel after its envelope has moved.
Released(x, act) == "ENV_RELEASE" \in x.notes \/ act = OFF

Fades(x, act) ==
    \/ "FADEOUT" \in x.notes \/ act = FADE
    \/ /\ Released(x, act)
       /\ IF Quirk("KEYOFF")
          THEN ~Has(Ins(x.ins).env, "ON") \/ Has(Ins(x.ins).env, "LOOP")
          ELSE song.reader # "FT2"

DropsAtOnce(x) ==
    /\ ~Quirk("KEYOFF") /\ song.reader # "FT2"
    /\ ~Has(Ins(x.ins).env, "ON") /\ "ENV_RELEASE" \in x.notes

\* The envelope is at its new position: at its end the note ends (value 0), or
\* fades (IT).
EnvelopeAt(x, idx) ==
    LET env  == Ins(x.ins).env
        done == CheckEnvelopeEnd(env, idx)
        fade == CheckEnvelopeFade(env, idx)
    IN  [x EXCEPT !.idx = idx, !.notes = @
            \cup (IF done THEN {"ENV_END"} ELSE {})
            \cup (IF fade = -1 \/ (done /\ GetEnvelope(env, idx, 64) = 0)
                  THEN {"END"} ELSE {})
            \cup (IF fade = 1 /\ Quirk("ENVFADE") THEN {"FADEOUT"} ELSE {})]

EnvelopeStep(x, act) ==
    EnvelopeAt(x, IF x.paused THEN x.idx
                  ELSE UpdateEnvelope(Ins(x.ins).env, Style, x.idx, Released(x, act),
                                      "KEY_OFF" \in x.flags))

\* The fade: at level 0 the note ends.
Faded(x, act) ==
    IF ~Fades(x, act) THEN x
    ELSE IF x.fadeout > x.fade THEN [x EXCEPT !.fadeout = @ - x.fade]
    ELSE [x EXCEPT !.fadeout = 0, !.notes = @ \cup {"END"}]

\* The keyoff, envelope and fadeout part of process_volume.
FadeStep(x, act) ==
    Faded(EnvelopeStep([x EXCEPT !.fadeout = IF DropsAtOnce(x) THEN 0 ELSE @], act), act)

\* The rest of process_volume: an ended background note gives its voice back,
\* any other note gets its volume (libxmp_virt_setvol).
Sound(s, c, vol) ==
    LET v == s.virt.map[c]
    IN  IF c \in Background /\ ("END" \in s.xc[c].notes \/ vol = 0)
        THEN ResetChannelOf(s, c)
        ELSE [s EXCEPT !.virt.vol[v] = vol]

\* The volumes of the note; mixing volumes and effects may bring it to 0.
VolumesOf(x) ==
    IF x.fadeout = 0 \/ GetEnvelope(Ins(x.ins).env, x.idx, 64) = 0 THEN {0}
    ELSE Levels

\* libxmp_virt_cstat
ACTIVE == 256
Cstat(s, c) == IF c \in Tracks THEN ACTIVE ELSE s.virt.act[s.virt.map[c]]

\* The volume is set.  A key off that waited at the sustain point releases the
\* envelope from the next frame on.
Sounding(s, c, x) ==
    LET y == [x EXCEPT !.notes = @ \cup (IF "SUSEXIT" \in @ THEN {"ENV_RELEASE"} ELSE {})]
    IN  {Sound([s EXCEPT !.xc[c] = y], c, vol) : vol \in VolumesOf(x)}

\* The part of play_channel behind the early returns.
PlayNote(s, c, act) == Sounding(s, c, FadeStep(s.xc[c], act))

\* play_channel once a delayed event has been read.
PlayVoice(s, c) ==
    LET act == Cstat(s, c)
    IN  IF s.virt.map[c] = FREE THEN {s}
        ELSE IF /\ frame = 0 /\ c \in Background
                /\ ~ValidIns(s.xc[c].ins) \/ act = CUT
        THEN {ResetChannelOf(s, c)}
        ELSE IF ~ValidIns(s.xc[c].ins) THEN {s}
        ELSE PlayNote(DoKeyoff(DoRetrig(s, c), c), c, act)

\* play_channel
PlayChannel(s, c) == PlayVoice(DoDelay(s, c), c)

Play ==
    /\ at \in Channels
    /\ \E s \in PlayChannel(Here, at) : Becomes(s)
    /\ at' = at + 1
    /\ UNCHANGED <<song, frame, ticks>>

-----------------------------------------------------------------------------
(* The mixer: libxmp_mixer_softmixer, one voice after the other.           *)

\* set_sample_end: the channel learns that its sample has run out; with
\* QUIRK_RSTCHN the voice is given back.
SampleEnds(s, v) ==
    LET t == [s EXCEPT !.xc[s.virt.chn[v]].notes = @ \cup {"SAMPLE_END"}]
    IN  IF Quirk("RSTCHN") THEN WithPool(t, ResetVoices(t.virt, {v})) ELSE t

\* A voice that reaches the end of its sample or loop: the queued sample takes
\* over (or, when neither loops, the voice pauses), or the sample is over.
ReachesEnd(s, v) ==
    LET q == s.voice[v].queue
        Loops(smp) == smp \in song.looped
        pause == q < 0 \/ (~Loops(s.voice[v].smp) /\ ~Loops(q))
    IN  IF s.virt.chn[v] = FREE THEN s
        ELSE IF s.voice[v].paused
        THEN IF q >= 0 THEN HotSwap(s, v)
             ELSE [s EXCEPT !.voice[v].queue = NoQueue]
        ELSE IF q = NoQueue
        THEN IF Loops(s.voice[v].smp) THEN s ELSE SampleEnds(s, v)
        ELSE IF ~pause THEN HotSwap(s, v)
        ELSE SampleEnds([s EXCEPT !.voice[v].queue = NoQueue,
                                  !.voice[v].paused = TRUE], v)

\* The voices of E reach an end in this frame, in the order of the mixer's loop.
MixVoices(s, E) ==
    LET mixed[n \in 0 .. MaxVoc] ==
            IF n = 0 THEN s
            ELSE IF n - 1 \in E THEN ReachesEnd(mixed[n - 1], n - 1) ELSE mixed[n - 1]
    IN  mixed[MaxVoc]

\* A paused voice is looked at in every frame; the others reach their end in
\* some frames.
Mix ==
    /\ at = Mixing
    /\ \E E \in SUBSET Voices :
          /\ {v \in Voices : voice[v].paused} \subseteq E
          /\ Becomes(MixVoices(Here, E))
    /\ at' = Done
    /\ UNCHANGED <<song, frame, ticks>>

NotesNext == NextFrame \/ Reposition \/ Inject \/ Play \/ Mix

NotesSpec == NotesInit /\ [][NotesNext]_noteVars

\* The caller goes on playing frames, and a frame goes through its phases.
Phases    == Injecting .. Done
FairNotes == NotesSpec /\ WF_at(at' \in Phases)

-----------------------------------------------------------------------------
(* Properties                                                              *)

Sounds(c) == virt.map[c] # FREE

\* The sample a voice plays is the one its channel says, also for a note that
\* was pushed to the background with a copy of its channel, stolen from, cut
\* as a duplicate or moved.  (Protracker's instrument swap sets the channel's
\* sample when the instrument is asked for.)
SampleAgrees ==
    ~Quirk("PROTRACK") =>
        \A c \in Channels : Sounds(c) => voice[virt.map[c]].smp = xc[c].smp

\* A background note has nothing of a row left to do: no delayed event waits
\* to be read into its channel and no flag of a row's effects works on it;
\* and one that has ended has given its voice back by the end of the frame.
BackgroundIsQuiet ==
    \A c \in Background : Sounds(c) =>
        /\ xc[c].delay = 0 /\ xc[c].flags = {}
        /\ at = Mixing => "END" \notin xc[c].notes

\* A delayed event is counted down in the row it belongs to: no event outlives
\* its row, also when the row is too short for it, is left by a position call
\* or is disturbed by an injected event.
DelaysStayInRow ==
    \A c \in Channels : xc[c].delay > 0 =>
        LET played == frame + (IF at > c THEN 1 ELSE 0)
        IN  /\ DelayOf(xc[c].event) > 0
            /\ xc[c].delay + played = DelayOf(xc[c].event) + 1

\* A background note that fades, or was released and has no envelope to wait
\* for, goes away, whatever is played in the meantime: no voice is kept by a
\* note that nobody can stop any more.
Dying(c) ==
    /\ Sounds(c) /\ c \in Background /\ xc[c].fade > 0
    /\ \/ "FADEOUT" \in xc[c].notes
       \/ "ENV_RELEASE" \in xc[c].notes /\ ~Has(Ins(xc[c].ins).env, "ON")

DyingNotesEnd == \A c \in Background : Dying(c) ~> ~Dying(c)

\* What brings them there: play_channel takes its step off the fade of a dying
\* note, which goes on dying with something left to fade, or gives its voice
\* back; no key off, retrigger or envelope that falls into the same frame keeps
\* the fade where it is.
DyingFades(c) ==
    LET x == xc[c]
    IN  song.reader = "IT" /\ at = c /\ Dying(c) /\ ValidIns(x.ins) /\ Sounds(c)'
        => Dying(c)' /\ xc'[c].fadeout = x.fadeout - x.fade /\ xc'[c].fadeout > 0

EveryTurnFades == [][\A c \in Background : DyingFades(c)]_noteVars

\* Impulse Tracker: a note that nobody releases does not pass its sustain
\* loop (one that leads back): as long as the note plays on, the frame leaves
\* its envelope at or before the loop's end.  (An event may set the position
\* of the envelope.)
StaysInSustain(c) ==
    LET x   == xc[c]
        env == Ins(x.ins).env
        end == TickOf(env, env.sue)
    IN  /\ song.reader = "IT" /\ at = c /\ x.delay # 1 /\ Sounds(c) /\ ValidIns(x.ins)
        /\ {"ON", "SUS"} \subseteq env.flg /\ TickOf(env, env.sus) \in 0 .. end
        /\ Sounds(c)'
        /\ ~Released(x, Cstat(Here, c)) /\ ~Released(xc'[c], Cstat(Here, c)')
        /\ x.idx <= end
        => xc'[c].idx <= end

SustainHolds == [][\A c \in Channels : StaysInSustain(c)]_noteVars
=============================================================================
