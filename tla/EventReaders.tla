----------------------------- MODULE EventReaders -----------------------------
(***************************************************************************)
(* What one event of a pattern does to its channel: src/src/read_event.c   *)
(* and the effects of src/src/effects.c that start, stop or move notes.    *)
(*                                                                         *)
(* Each family of formats has a reader of its own.  The operators take and *)
(* return the record s = [virt, voice, xc]: the voice pool, what each      *)
(* voice plays, and the channel_data of each virtual channel.  Volumes,    *)
(* pannings, periods and the oscillators are left out: `pitched` says that *)
(* the channel has a period.                                               *)
(***************************************************************************)
EXTENDS VirtualChannels, Envelope

CONSTANTS
    Samples,        \* numbers of the module's samples
    Full,           \* 0x10000, the fadeout level a note starts from
    MaxKeys         \* XMP_MAX_KEYS, 121

ASSUME SamplesAssumption == Samples \subseteq Nat
ASSUME FullAssumption == Full \in Nat \ {0}

VARIABLE song       \* [reader, quirks, instruments, looped, events, delays]

Quirk(q) == q \in song.quirks

\* Event notes: 1..MaxKeys are keys (from 1), then the special ones.
KEY_OFF  == 129
KEY_CUT  == 130
KEY_FADE == 131

ASSUME KeysAssumption == MaxKeys \in 1 .. KEY_OFF - 1

Keys         == 0 .. MaxKeys - 1
ValidNote(k) == k \in Keys
ValidIns(i)  == i \in 0 .. Len(song.instruments) - 1
Ins(i)       == song.instruments[i + 1]
Unmapped     == 255

RELEASE == {"ENV_RELEASE", "SAMPLE_RELEASE"}

\* A voice without a swap waiting; -1 is the swap to silence.
NoQueue    == -2
EmptyVoice == [smp |-> 0, key |-> 0, queue |-> NoQueue, paused |-> FALSE]

NoEvent == [note |-> 0, ins |-> 0, fx |-> <<"none", 0>>, f2 |-> <<"none", 0>>]

\* struct channel_data as reset_channels leaves it.
ResetXc ==
    [notes |-> {}, flags |-> {}, key |-> -1, ins |-> -1, old |-> 0, smp |-> 0,
     kmem |-> 0, delay |-> 0, event |-> NoEvent, dins |-> 0, fadeout |-> 0,
     fade |-> 0, idx |-> 0, pitched |-> FALSE, paused |-> FALSE, keyoff |-> 0,
     retrig |-> [count |-> 0, val |-> 0, limit |-> 0, cut |-> FALSE]]

\* No subinstrument: NULL.
NoSub == [sid |-> -2, nna |-> CUT, dct |-> DctOff, dca |-> CUT, low |-> FALSE]

\* get_subinstrument: the one the key is mapped to, or the first one when
\* there is no valid key.
GetSub(ins, key) ==
    IF ~ValidIns(ins) THEN NoSub
    ELSE LET i == IF ValidNote(key) THEN Ins(ins).map[key] ELSE 0
         IN  IF i < Len(Ins(ins).subs) THEN Ins(ins).subs[i + 1] ELSE NoSub

\* The sample of a subinstrument, -1 when the module does not have it.
SampleOf(sub) == IF sub.sid \in Samples THEN sub.sid ELSE -1

-----------------------------------------------------------------------------
(* Calls into the pool and the mixer                                       *)

\* What free voices hold is forgotten.
Settled(pool, voice) ==
    [v \in Voices |-> IF pool.chn[v] = FREE THEN EmptyVoice ELSE voice[v]]

WithPool(s, pool) == [s EXCEPT !.virt = pool, !.voice = Settled(pool, s.voice)]

\* libxmp_virt_resetchannel
ResetChannelOf(s, c) ==
    IF s.virt.map[c] = FREE THEN s
    ELSE WithPool(s, ResetVoices(s.virt, {s.virt.map[c]}))

\* The voices check_dct takes for duplicates of the new note.
MatchingVoices(s, c, in, smp, key, dct) ==
    {v \in OwnedBy(s.virt, c) :
        /\ s.virt.ins[v] = in
        /\ \/ dct = DctInst
           \/ dct = DctSmp  /\ s.voice[v].smp = smp
           \/ dct = DctNote /\ s.voice[v].key = key}

\* The voice of a started note plays its sample from the start, and no longer
\* says that the sample has ended.
VoiceStarted(s, c, r, smp, key) ==
    IF r.voc = FREE THEN WithPool(s, r.pool)
    ELSE [WithPool(s, r.pool) EXCEPT
             !.voice[r.voc] = [EmptyVoice EXCEPT !.smp = smp, !.key = key],
             !.xc[c].notes = @ \ {"SAMPLE_END"}]

PatchFrom(s, c, r, smp, key) ==
    [to |-> r.to, s |-> VoiceStarted(s, c, r, smp, key)]

\* libxmp_virt_setpatch: the state, and the channel the old note moved to, c
\* itself or -1.
PatchResult(s, c, in, smp, key, nna, dct, dca) ==
    PatchFrom(s, c,
              CHOOSE r \in SetPatch(s.virt, c, in, in >= 0 /\ smp >= 0, nna, dct, dca,
                                    MatchingVoices(s, c, in, smp, key, dct)) : TRUE,
              smp, key)

\* set_patch: the readers without new note actions.
Patch(s, c, in, smp) == PatchResult(s, c, in, smp, 0, CUT, DctOff, CUT).s

\* libxmp_mixer_queuepatch
Queued(s, v, smp) ==
    IF smp # s.voice[v].smp \/ s.voice[v].paused
    THEN [s EXCEPT !.voice[v].queue = smp] ELSE s

\* libxmp_virt_queuepatch: on a sounding channel the swap waits for the end
\* of the sample, on a silent one it is a new note.
QueuePatchOf(s, c, in, sid) ==
    LET v   == s.virt.map[c]
        smp == IF in < 0 THEN -1 ELSE sid
        q   == Queued(s, v, smp)
    IN  IF v # FREE
        THEN IF in < 0 THEN q
             ELSE [q EXCEPT !.virt.ins[v] = in]
        ELSE IF smp < 0 THEN s ELSE Patch(s, c, in, smp)

\* hotswap_sample: the voice goes over to the queued sample.
HotSwap(s, v) ==
    [s EXCEPT !.voice[v] = [EmptyVoice EXCEPT
                             !.smp = s.voice[v].queue, !.key = s.voice[v].key],
              !.xc[s.virt.chn[v]].notes = @ \ {"SAMPLE_END"}]

\* libxmp_virt_voicepos: a new position makes a waiting swap happen.
VoicePos(s, c) ==
    LET v == s.virt.map[c]
        q == s.voice[v].queue
    IN  IF v = FREE \/ q = NoQueue THEN s
        ELSE IF q \notin {-1, s.voice[v].smp} THEN HotSwap(s, v)
        ELSE [s EXCEPT !.voice[v].queue = NoQueue,
                       !.voice[v].paused = @ \/ q = -1]

\* libxmp_virt_setnna
SetNnaOf(s, c, nna) ==
    IF s.virt.map[c] = FREE \/ ~Quirk("VIRTUAL") THEN s
    ELSE [s EXCEPT !.virt.act[s.virt.map[c]] = nna]

\* libxmp_virt_pastnote, with libxmp_player_set_release and _set_fadeout.
PastNoteOf(s, c, act) ==
    LET old == {v \in InBackground(s.virt) : s.virt.root[v] = c}
        set == IF act = OFF THEN RELEASE ELSE IF act = FADE THEN {"FADEOUT"} ELSE {}
    IN  IF act = CUT THEN WithPool(s, ResetVoices(s.virt, old))
        ELSE [s EXCEPT !.xc =
                 [d \in Channels |-> IF \E v \in old : s.virt.chn[v] = d
                                     THEN [s.xc[d] EXCEPT !.notes = @ \cup set]
                                     ELSE s.xc[d]]]

-----------------------------------------------------------------------------
(* Effects, and the pieces the readers share                               *)

HasFx(e, name) == e.fx[1] = name \/ e.f2[1] = name
IsPorta(e)     == HasFx(e, "porta")
IsModRetrig(e) == \E f \in {e.fx, e.f2} : f[1] = "retrig" /\ f[2] # 0

\* libxmp_process_fx, as far as notes are concerned: what an effect does to
\* the data of its channel.  The porta effects move the period; a delay was
\* dealt with when the row was read.
ChannelFx(x, fx, p) ==
    CASE fx = "offset" -> [x EXCEPT !.flags = @ \cup {"OFFSET"}]
      [] fx = "retrig" ->
            [x EXCEPT !.flags = @ \cup {"RETRIG"}, !.retrig =
                [count |-> p + 1, val |-> p, cut |-> FALSE,
                 limit |-> IF Quirk("RTONCE") THEN 1 ELSE 0]]
      [] fx = "cut" ->
            [x EXCEPT !.flags = @ \cup {"RETRIG"}, !.notes = @ \cup {"CUT"},
                      !.retrig = [@ EXCEPT !.count = p + 1, !.val = p + 1, !.cut = TRUE]]
      [] fx = "keyoff" -> [x EXCEPT !.keyoff = p + 1]
      [] fx = "envpos" -> [x EXCEPT !.idx = p]
      [] fx = "venv"   -> [x EXCEPT !.paused = (p = 0)]
      [] OTHER -> x

\* ... and to the notes of the pool.
ApplyFx(s, c, f) ==
    CASE f[1] = "past" -> PastNoteOf(s, c, f[2])
      [] f[1] = "nna"  -> SetNnaOf(s, c, f[2])
      [] OTHER -> [s EXCEPT !.xc[c] = ChannelFx(@, f[1], f[2])]

\* reset_envelopes, reset_envelope_volume
ResetEnvelopes(x) ==
    IF ~ValidIns(x.ins) THEN x
    ELSE [x EXCEPT !.notes = @ \ {"ENV_END"}, !.idx = -1]

\* reset_envelopes_carry: an envelope with the carry flag runs on.
ResetEnvelopesCarry(x) ==
    IF ~ValidIns(x.ins) THEN x
    ELSE [x EXCEPT !.notes = @ \ {"ENV_END"},
                   !.idx = IF Has(Ins(x.ins).env, "CARRY") THEN @ ELSE -1]

\* set_period: without a subinstrument only Protracker gets a period.
SetPeriod(x, noted, sub) ==
    [x EXCEPT !.pitched = @ \/ (noted /\ (sub # NoSub \/ Quirk("PROTRACK")))]

\* What an instrument number does in the MOD, ST3 and MED readers.
NewInstrument(x) ==
    [x EXCEPT !.fadeout = Full, !.paused = FALSE,
              !.notes = @ \ (RELEASE \cup {"FADEOUT"})]

WithPeriod(s, c, noted, sub) ==
    [s EXCEPT !.xc[c] = SetPeriod(s.xc[c], noted, sub)]

\* The tail the MOD and ST3 readers share: set_effect_defaults, the envelopes,
\* the second effect, the first one, the period.
Finish(s, c, e, noted) ==
    LET x   == s.xc[c]
        sub == GetSub(x.ins, x.key)
        y   == [x EXCEPT !.delay = 0]
        t   == [s EXCEPT !.xc[c] =
                   IF e.ins # 0 /\ sub # NoSub THEN ResetEnvelopes(y) ELSE y]
    IN  WithPeriod(ApplyFx(ApplyFx(t, c, e.f2), c, e.fx), c, noted, sub)

-----------------------------------------------------------------------------
(* The MOD reader                                                          *)

\* The instrument number.  An invalid one stops the note, or pauses it when
\* its sample ends (Protracker).
ModInstrument(s, c, e) ==
    LET in    == e.ins - 1
        x     == NewInstrument(s.xc[c])
        swaps == GetSub(in, x.key) # NoSub
        takes == ~IsPorta(e) \/ (swaps /\ Quirk("PROTRACK"))
        y     == [x EXCEPT !.ins  = IF takes THEN in ELSE @,
                           !.fade = IF IsPorta(e) THEN @ ELSE Ins(in).rls]
        t     == [s EXCEPT !.xc[c] = x]
    IN  IF e.ins = 0 THEN s
        ELSE IF ValidIns(in) THEN [s EXCEPT !.xc[c] = y]
        ELSE IF Quirk("PROTRACK") /\ ~IsModRetrig(e)
        THEN QueuePatchOf(t, c, -1, -1)
        ELSE ResetChannelOf(t, c)

\* A note on a channel that has its instrument: the sample starts.
StartSample(s, c, smp, noted) ==
    LET t == IF smp < 0 THEN s ELSE Patch(s, c, s.xc[c].ins, smp)
    IN  [t EXCEPT
            !.xc[c].notes = (@ \ {"END"}) \cup (IF noted THEN {"SET"} ELSE {}),
            !.xc[c].smp   = IF smp < 0 THEN @ ELSE smp]

IsInvalid(e) == e.ins # 0 /\ ~ValidIns(e.ins - 1)

\* "Secondary effect is processed first" and the rest: a new position for a
\* note, or for a swapped instrument that is retriggered.
ModFinish(s, c, e, noted, swap) ==
    LET moves == /\ GetSub(s.xc[c].ins, s.xc[c].key) # NoSub
                 /\ \/ noted /\ ~IsInvalid(e)
                    \/ swap /\ IsModRetrig(e) /\ Quirk("PROTRACK")
        Moved(t) == IF moves THEN VoicePos(t, c) ELSE t
    IN  Moved(Finish(s, c, e, noted))

\* Protracker: an instrument number without a note swaps the sample.
ModSwap(s, c, e, sub, noted, swap) ==
    IF swap /\ sub # NoSub /\ Quirk("PROTRACK") /\ "SET" \in s.xc[c].notes
    THEN ModFinish([QueuePatchOf(s, c, e.ins - 1, SampleOf(sub))
                       EXCEPT !.xc[c].smp = sub.sid], c, e, noted, swap)
    ELSE ModFinish(s, c, e, noted, swap)

\* The note, or the key off.
ModNote(s, c, e) ==
    LET x      == s.xc[c]
        insSub == IF e.ins = 0 THEN NoSub ELSE GetSub(e.ins - 1, x.key)
        plays  == ~IsPorta(e) /\ ValidNote(e.note - 1)
        sub    == IF plays THEN GetSub(x.ins, x.key) ELSE insSub
        smp    == IF sub = NoSub \/ IsInvalid(e) THEN -1 ELSE SampleOf(sub)
        noted  == plays /\ ~sub.low
        t      == IF plays THEN StartSample(s, c, smp, noted)
                  ELSE IF e.note = KEY_OFF
                  THEN [s EXCEPT !.xc[c].notes = @ \cup RELEASE] ELSE s
    IN  ModSwap(t, c, e, sub, noted, insSub # NoSub /\ ~(plays /\ smp >= 0))

\* read_event_mod
ReadEventMod(s, c, e) ==
    LET t == [s EXCEPT !.xc[c].flags = {},
                       !.xc[c].key = IF ValidNote(e.note - 1) /\ ~IsPorta(e)
                                     THEN e.note - 1 ELSE @]
    IN  ModNote(ModInstrument(t, c, e), c, e)

-----------------------------------------------------------------------------
(* The Scream Tracker reader                                               *)

\* read_event_st3: a tone portamento on a silent channel is a note.
ReadEventSt3(s0, c, e) ==
    LET in    == e.ins - 1
        x0    == s0.xc[c]
        porta == IsPorta(e) /\ ~(s0.virt.map[c] = FREE /\ x0.ins # in)
        x1    == [x0 EXCEPT !.flags = {},
                            !.key = IF ValidNote(e.note - 1) /\ ~porta
                                    THEN e.note - 1 ELSE @]
        x2    == IF e.ins = 0 THEN x1 ELSE NewInstrument(x1)
        x3    == IF ValidIns(in) /\ x2.ins # in /\ ~porta
                 THEN [x2 EXCEPT !.ins = in, !.fade = Ins(in).rls] ELSE x2
        s1    == [s0 EXCEPT !.xc[c] = x3]
        plays == ~porta /\ ValidNote(e.note - 1)
        sub   == GetSub(x3.ins, x3.key)
        noted == plays /\ sub # NoSub /\ ~sub.low
        s2    == IF e.note = KEY_OFF
                 THEN [s1 EXCEPT !.xc[c].notes = @ \cup RELEASE]
                 ELSE IF plays
                 THEN StartSample(s1, c, SampleOf(sub), FALSE)
                 ELSE s1
    IN  Finish(s2, c, e, noted)

-----------------------------------------------------------------------------
(* The Fast Tracker reader                                                 *)

\* The key an event stands for: a delayed row repeats the last note, and K00
\* is a key off (and no effect).
Ft2Key(x, e) ==
    LET delayed == e.fx[1] = "delay"
        key == IF ~delayed \/ e.note # 0 THEN e.note
               ELSE IF x.kmem # 0 THEN x.kmem ELSE x.key + 1
    IN  IF e.fx = <<"keyoff", 0>> /\ ~IsPorta(e) THEN KEY_OFF ELSE key

\* A note without tone portamento: the channel's instrument and sample become
\* those of the note, unless its transpose takes it out of range.
Ft2Select(x, e, key) ==
    LET in  == (IF e.ins # 0 THEN e.ins ELSE x.old) - 1
        sub == GetSub(in, key - 1)
        y   == [x EXCEPT !.kmem = key,
                         !.fade = IF e.ins = 0 THEN @
                                  ELSE IF ValidIns(in) THEN Ins(in).rls ELSE 1]
    IN  IF sub.low THEN y
        ELSE [y EXCEPT !.key = key - 1, !.smp = SampleOf(sub),
                       !.ins = IF ValidIns(in) THEN in ELSE -1]

\* A key off waits for the next frame at the sustain point; without an
\* envelope the volume is set to 0.
Ft2KeyOff(x) ==
    LET env == Ins(x.ins).env
        set == IF ~ValidIns(x.ins) THEN {}
               ELSE IF SustainCheck(env, x.idx) THEN {"SUSEXIT"}
               ELSE IF Has(env, "ON") THEN RELEASE ELSE {}
    IN  [x EXCEPT !.notes = @ \cup set \cup {"FADEOUT"}]

\* An instrument number (but no key off) or a delay restarts the envelope.
Ft2Restart(x) ==
    LET y == [x EXCEPT !.fadeout = Full,
                       !.notes = @ \ (RELEASE \cup {"FADEOUT", "SUSEXIT"})]
    IN  IF GetSub(x.ins, x.key) = NoSub THEN y ELSE ResetEnvelopes(y)

\* The key off, the restart, and the effects.  With Fast Tracker's bugs a note
\* that starts past the end of its sample is cut.
Ft2Tail(s, c, e, key, noted) ==
    LET sub     == GetSub(s.xc[c].ins, s.xc[c].key)
        x       == IF key = KEY_OFF THEN Ft2KeyOff(s.xc[c]) ELSE s.xc[c]
        restart == (e.ins # 0 /\ key # KEY_OFF) \/ e.fx[1] = "delay"
        t       == [s EXCEPT !.xc[c] =
                       [IF restart THEN Ft2Restart(x) ELSE x EXCEPT !.delay = 0]]
        cut     == /\ noted /\ Quirk("FT2BUGS")
                   /\ \E f \in {e.fx, e.f2} : f = <<"offset", 1>>
        Cut(u)  == IF cut THEN ResetChannelOf(u, c) ELSE u
        Pitched(u) == [u EXCEPT !.xc[c].pitched = @ \/ (noted /\ sub # NoSub)]
    IN  Cut(Pitched(ApplyFx(ApplyFx(t, c, e.f2), c, e.fx)))

\* A note starts its sample; a note out of range is dropped.
Ft2Note(s, c, e, key) ==
    LET x     == s.xc[c]
        plays == ValidNote(key - 1) /\ ~IsPorta(e)
        low   == GetSub((IF e.ins # 0 THEN e.ins ELSE x.old) - 1, key - 1).low
        y     == IF plays THEN Ft2Select(x, e, key) ELSE x
        t     == [s EXCEPT !.xc[c] = y]
    IN  IF plays /\ ~low
        THEN Ft2Tail([Patch(t, c, y.ins, y.smp) EXCEPT !.xc[c].notes = @ \ {"END"}],
                     c, e, key, TRUE)
        ELSE Ft2Tail(t, c, e, IF plays THEN 0 ELSE key, FALSE)

\* read_event_ft2.  `late`: the frame is past the speed (a pattern delay).
ReadEventFt2(s, c, e, late) ==
    LET x == [s.xc[c] EXCEPT !.flags = {}, !.paused = @ /\ e.ins = 0]
    IN  IF late THEN s
        ELSE Ft2Note([s EXCEPT !.xc[c] = x], c,
                     [e EXCEPT !.fx = IF @ = <<"keyoff", 0>> THEN <<"none", 0>> ELSE @],
                     Ft2Key(x, e))

-----------------------------------------------------------------------------
(* The Impulse Tracker reader                                              *)
(*                                                                         *)
(* The stages of read_event_it hand on a record r of its local variables:  *)
(* ev, the event as it is now understood; key; cand, the instrument that   *)
(* will be the channel's; porta; offs, a tone portamento next to an        *)
(* offset; retrig, a key off that restarts the instrument; newIns (not the *)
(* same instrument), newSmp (nor sample); invalid; env and sus, whether    *)
(* envelopes and the sustain loop of the sample are to be reset; release,  *)
(* the note was released before; noted, a note was started; s, the state.  *)

\* check_invalid_sample: the key has no subinstrument.  (The code compares
\* the number of the subinstrument with the number of samples.)
IsUnmapped(in, key) ==
    /\ in < Len(song.instruments)
    /\ LET sub == Ins(in).map[key]
       IN  sub = Unmapped \/ sub >= Cardinality(Samples)

\* is_same_sid: both have a sample, and it is the same one.
IsSameSid(x, in, key) ==
    LET old == GetSub(x.ins, x.key)
        new == GetSub(in, key)
    IN  old # NoSub /\ new # NoSub /\ old.sid = new.sid

\* check_fadeout: no carried volume envelope is left to wait for.
CheckFadeout(x, in) ==
    \/ ~ValidIns(in)
    \/ ~({"ON", "CARRY"} \subseteq Ins(in).env.flg)
    \/ x.fade = 0 \/ x.fadeout <= x.fade

WithXc(r, c, x) == [r EXCEPT !.s.xc[c] = x]

\* The start of read_event_it, down to the tone portamento.  A delayed event
\* leaves its instrument number to the next note of the channel; a note that
\* its instrument does not map is emptied, except for its key.
ItBegin(s, c, e) ==
    LET x  == s.xc[c]
        e1 == IF e.ins = 0 /\ e.note # 0 THEN [e EXCEPT !.ins = x.dins] ELSE e
        in == (IF e1.ins # 0 THEN e1.ins ELSE x.old) - 1
        note     == ValidNote(e1.note - 1)
        unmapped == note /\ ValidIns(in) /\ IsUnmapped(in, e1.note - 1)
        ev       == IF unmapped THEN NoEvent ELSE e1
        porta    == IsPorta(ev) /\ x.pitched /\ "END" \notin x.notes
        offs     == porta /\ ev.fx[1] = "offset"
        y == [x EXCEPT !.flags = {}, !.dins = IF e1.ins # 0 THEN 0 ELSE @,
                       !.notes = IF offs /\ ~Quirk("PRENV")
                                 THEN @ \ {"ENV_END"} ELSE @]
    IN  [s |-> [s EXCEPT !.xc[c] = y],
         ev |-> ev, key |-> e1.note, porta |-> porta, offs |-> offs,
         cand    |-> IF unmapped /\ e1.ins # 0 THEN in ELSE x.ins,
         retrig  |-> /\ Quirk("ITOLDFX") /\ e1.note = KEY_OFF
                     /\ ValidIns(e1.ins - 1),
         release |-> x.notes \cap {"ENV_RELEASE", "FADEOUT"} # {},
         invalid |-> note /\ e1.ins = 0 /\ ~ValidIns(in),
         newIns |-> FALSE, newSmp |-> FALSE, env |-> FALSE, sus |-> FALSE,
         noted |-> FALSE]

\* "Check instrument", for an event that has an instrument number.
ItInstrument(r, c) ==
    LET in     == r.ev.ins - 1
        x0     == r.s.xc[c]
        revive == /\ r.release /\ r.key = 0
                  /\ ~r.porta \/ Quirk("PRENV") \/ "SET" \in x0.notes
        x1     == [(IF revive THEN ResetEnvelopesCarry(x0) ELSE x0)
                      EXCEPT !.paused = FALSE]
        porta  == r.porta /\ ~revive
        again  == porta /\ x1.ins = in /\ ~Quirk("PRENV")
        same   == IsSameSid(x1, in, r.key - 1)
        restart == r.key = 0 /\ "KEY_CUT" \notin x1.notes
        key    == IF restart /\ x1.ins # in THEN x1.key + 1 ELSE r.key
        change == x1.ins # in /\ (~porta \/ ~Quirk("PRENV"))
        r1     == [r EXCEPT !.porta = porta, !.env = ~(again /\ same /\ r.release),
                            !.newIns = again /\ ~same, !.newSmp = again /\ ~same]
    IN  IF r.ev.ins = 0 THEN r
        ELSE IF ~ValidIns(in) THEN WithXc([r1 EXCEPT !.invalid = TRUE], c, x1)
        ELSE WithXc([r1 EXCEPT !.key  = key,
                               !.cand = IF change THEN in ELSE @,
                               !.newIns = @ \/ (change /\ ~IsSameSid(x1, in, key - 1))],
                    c, [x1 EXCEPT !.notes = IF restart THEN @ \ {"SET"} ELSE @])

\* "Check note": the special keys, and the tone portamento that is none.
ItKey(r, c) ==
    LET x == r.s.xc[c]
        y == [x EXCEPT !.notes = @ \cup {"SET"}]
        off == IF ValidIns(x.ins) /\ SustainCheck(Ins(x.ins).env, x.idx)
               THEN {"SUSEXIT"} ELSE RELEASE
        Special(ns, fs) ==
            WithXc([r EXCEPT !.env = FALSE, !.sus = FALSE], c,
                   [y EXCEPT !.notes = @ \cup ns, !.flags = @ \cup fs])
    IN  CASE r.key = 0        -> r
          [] r.key = KEY_FADE -> Special({"FADEOUT"}, {})
          [] r.key = KEY_OFF  -> Special(off, {"KEY_OFF"})
          [] r.key = KEY_CUT  ->
                LET cut == WithXc(r, c, [y EXCEPT !.pitched = FALSE, !.notes =
                                           @ \cup {"END", "CUT", "KEY_CUT"}])
                IN  [cut EXCEPT !.s = ResetChannelOf(cut.s, c)]
          [] r.key \notin {0, KEY_FADE, KEY_OFF, KEY_CUT} ->
                IF r.invalid THEN WithXc(r, c, y)
                ELSE IF ~r.porta
                THEN WithXc([r EXCEPT !.env = TRUE, !.sus = TRUE], c, y)
                ELSE IF r.newIns \/ "END" \in x.notes
                THEN WithXc(r, c, [y EXCEPT !.notes =
                              @ \ {"ENV_RELEASE", "SUSEXIT", "FADEOUT"}])
                ELSE WithXc([r EXCEPT !.key = 0], c, y)

\* Mutant of CopyChannel: the note that was pushed aside is left as it was.
CopyChannelNot(s, to, c) == s

\* copy_channel: the note that was pushed aside takes its channel data along.
\* (The copy needs to > 0; a track is never its own background channel.)
CopyChannel(s, to, c) ==
    IF to = c THEN s
    ELSE [s EXCEPT !.xc[to] = [s.xc[c] EXCEPT !.flags = {}]]

\* What the reader does with the answer of the pool: with no voice for the
\* note it returns (key -1), else the note that was there moves.
ItPatched(r, c, sub, res) ==
    IF res.to < 0 THEN [r EXCEPT !.s = res.s, !.key = -1]
    ELSE [r EXCEPT !.noted = ~sub.low,
                   !.s = [CopyChannel(res.s, res.to, c) EXCEPT !.xc[c].smp =
                             IF SampleOf(sub) < 0 THEN @ ELSE SampleOf(sub)]]

\* Mutant of ItPatch: the delay is cleared only after the copy.
ItPatchDelayed(r, c) ==
    LET key == r.key - 1
        sub == GetSub(r.cand, key)
        s   == [r.s EXCEPT !.xc[c].key = key, !.xc[c].notes = @ \ {"END"}]
    IN  IF ~ValidNote(key) \/ r.invalid THEN r
        ELSE IF sub = NoSub THEN [r EXCEPT !.s = s]
        ELSE ItPatched(r, c, sub, PatchResult(s, c, r.cand, SampleOf(sub), key, sub.nna,
                                              sub.dct, sub.dca))

\* The note: the pool starts it, pushing the old one aside or not.
ItPatch(r, c) ==
    LET key == r.key - 1
        sub == GetSub(r.cand, key)
        x   == [r.s.xc[c] EXCEPT !.key = key, !.notes = @ \ {"END"}]
        s   == WithXc(r, c, [x EXCEPT !.delay = 0]).s
    IN  IF ~ValidNote(key) \/ r.invalid THEN r
        ELSE IF sub = NoSub THEN WithXc(r, c, [x EXCEPT !.flags = {}])
        ELSE ItPatched(r, c, sub,
                       PatchResult(IF r.newSmp THEN SetNnaOf(s, c, CUT) ELSE s, c,
                                   r.cand, SampleOf(sub), key, sub.nna,
                                   IF r.newSmp THEN DctOff ELSE sub.dct, sub.dca))

\* Envelopes that run on or start over with the channel's new instrument.
ItCarry(r, x) ==
    LET x1 == IF (r.porta \/ r.retrig) /\ Quirk("PRENV") /\ r.ev.ins # 0
              THEN ResetEnvelopesCarry(x) ELSE x
        x2 == IF ~ValidIns(r.cand) THEN x1
              ELSE [(IF x1.ins # r.cand THEN ResetEnvelopes(x1) ELSE x1)
                       EXCEPT !.ins = r.cand, !.fade = Ins(r.cand).rls]
    IN  x2

\* Fade and release start over with a new note or instrument, except where a
\* finished envelope was carried.
ItRestart(r, x) ==
    LET ended   == r.ev.ins # 0 /\ "ENV_END" \in x.notes
        carried == ended /\ ~CheckFadeout(x, r.cand)
        env     == r.env /\ ~carried
        again   == r.retrig /\ r.newIns
        y       == IF ended /\ ~carried THEN ResetEnvelopes(x) ELSE x
        dropped == (IF (env /\ r.ev.note # 0) \/ again
                    THEN {"ENV_RELEASE", "SUSEXIT", "FADEOUT"} ELSE {})
                   \cup (IF (r.sus /\ r.ev.note # 0) \/ again
                         THEN {"SAMPLE_RELEASE"} ELSE {})
    IN  [y EXCEPT !.fadeout = IF env \/ again THEN Full ELSE @,
                  !.notes = @ \ dropped]

\* A started note resets the envelopes it does not carry.
ItStarted(r, x, sub) ==
    IF sub = NoSub \/ ~r.noted THEN x
    ELSE [(IF "CUT" \in x.notes THEN ResetEnvelopes(x)
           ELSE IF ~r.offs \/ Quirk("PRENV") THEN ResetEnvelopesCarry(x) ELSE x)
             EXCEPT !.notes = @ \ {"CUT"}]

\* The rest of read_event_it: the effects come in the order of their slots.
ItEffects(r, c, x) ==
    LET sub == GetSub(x.ins, x.key)
        s   == WithXc(r, c, [ItStarted(r, x, sub) EXCEPT !.delay = 0]).s
    IN  WithPeriod(ApplyFx(ApplyFx(s, c, r.ev.fx), c, r.ev.f2), c, r.noted, sub)

ItTail(r, c) ==
    IF r.key = -1 THEN r.s ELSE ItEffects(r, c, ItRestart(r, ItCarry(r, r.s.xc[c])))

\* read_event_it
ReadEventIt(s, c, e) ==
    ItTail(ItPatch(ItKey(ItInstrument(ItBegin(s, c, e), c), c), c), c)

\* libxmp_read_event: the instrument number is remembered, a note whose
\* sample has run out counts as ended, and the reader of the format runs.
ReadEvent(s0, c, e, late) ==
    LET x == s0.xc[c]
        s == [s0 EXCEPT !.xc[c] = [x EXCEPT
                 !.old   = IF e.ins # 0 THEN e.ins ELSE @,
                 !.notes = IF "SAMPLE_END" \in @ THEN @ \cup {"END"} ELSE @]]
    IN  CASE song.reader = "FT2" -> ReadEventFt2(s, c, e, late)
          [] song.reader = "ST3" -> ReadEventSt3(s, c, e)
          [] song.reader = "IT"  -> ReadEventIt(s, c, e)
          [] OTHER -> ReadEventMod(s, c, e)
=============================================================================
