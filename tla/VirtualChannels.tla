--------------------------- MODULE VirtualChannels ---------------------------
(***************************************************************************)
(* The voice pool of the player: src/src/virtual.c.                        *)
(*                                                                         *)
(* A song is played on NumTracks tracks, but with QUIRK_VIRTUAL (Impulse   *)
(* Tracker's "new note actions") a track may keep several notes sounding.  *)
(* The mixer has a fixed array of voices; virtual channels 0..NumTracks-1  *)
(* are the tracks, the others ("background" channels) hold notes that were *)
(* pushed aside by a later note of their track.  Four redundant records    *)
(* are kept by hand: voice -> channel (chn), channel -> voice (map), the   *)
(* number of voices a track owns (count) and the number of voices in use   *)
(* (used).  This module is about their agreement.                          *)
(*                                                                         *)
(* The record `virt` is struct player_data.virt between libxmp_virt_on and *)
(* libxmp_virt_off.  Operators that take a record `s` are the C functions  *)
(* of the same name; one with several possible outcomes returns a set.     *)
(***************************************************************************)
EXTENDS Integers, FiniteSets

CONSTANTS
    NumTracks,      \* p->virt.num_tracks: module channels plus smix channels
    NumVoc,         \* mixer_data.numvoc: voices the mixer was asked for
    Virtual,        \* HAS_QUIRK(QUIRK_VIRTUAL) when libxmp_virt_on ran
    Instruments,    \* instrument numbers
    Levels,         \* volumes a voice can be set to, 0 included
    Nnas,           \* new note actions the instruments and effects use
    Dcas            \* duplicate check actions the instruments use

ASSUME TracksAssumption == NumTracks \in Nat \ {0}
ASSUME VoicesAssumption == NumVoc \in Nat \ {0}
ASSUME VirtualAssumption == Virtual \in BOOLEAN
ASSUME LevelsAssumption == Levels \subseteq Nat /\ 0 \in Levels

FREE == -1

\* XMP_INST_NNA_*, XMP_INST_DCA_* and VIRT_ACTION_* share these values.
CUT  == 0
CONT == 1
OFF  == 2
FADE == 3
Acts == {CUT, CONT, OFF, FADE}

\* XMP_INST_DCT_*: what makes a note a duplicate of an older one.
DctOff  == 0
DctNote == 1
DctSmp  == 2
DctInst == 3

ASSUME NnasAssumption == CUT \in Nnas /\ Nnas \subseteq Acts
ASSUME DcasAssumption == Dcas \subseteq {CUT, OFF, FADE}
ASSUME InstrumentsAssumption == Instruments \subseteq Nat

\* The sizes libxmp_virt_on computes from numvoc and the quirk.
VirtChannels == IF Virtual THEN NumTracks + NumVoc ELSE NumTracks
MaxVoc       == IF ~Virtual /\ NumVoc > NumTracks THEN NumTracks ELSE NumVoc

Tracks     == 0 .. NumTracks - 1
Channels   == 0 .. VirtChannels - 1
Background == Channels \ Tracks
Voices     == 0 .. MaxVoc - 1

VARIABLE virt
vars == virt

-----------------------------------------------------------------------------
(* Operators over the pool                                                 *)

\* Mutant of InBackground: the last track counts as background.
InBackgroundOffByOne(s) == {v \in Voices : s.chn[v] >= NumTracks - 1}

\* Voices in use, and those that play in a background channel.
Used(s)        == {v \in Voices : s.chn[v] # FREE}
InBackground(s) == {v \in Voices : s.chn[v] >= NumTracks}
OwnedBy(s, t)  == {v \in Voices : s.root[v] = t}

EmptyPool ==
    [chn   |-> [v \in Voices |-> FREE],
     root  |-> [v \in Voices |-> FREE],
     vol   |-> [v \in Voices |-> 0],
     act   |-> [v \in Voices |-> CUT],
     ins   |-> [v \in Voices |-> 0],
     map   |-> [c \in Channels |-> FREE],
     count |-> [c \in Channels |-> 0],
     used  |-> 0]

\* The bookkeeping half of libxmp_virt_resetvoice for each voice of R.
Unlink(s, R) ==
    [s EXCEPT
        !.map   = [c \in Channels |-> IF \E v \in R : s.chn[v] = c
                                      THEN FREE ELSE s.map[c]],
        !.count = [c \in Channels |-> s.count[c]
                                        - Cardinality({v \in R : s.root[v] = c})],
        !.used  = s.used - Cardinality(R)]

\* libxmp_virt_resetvoice for each voice of R, in any order: the voice
\* structure is zeroed and marked free.
ResetVoices(s, R) ==
    LET books == Unlink(s, R)
    IN  [chn   |-> [v \in Voices |-> IF v \in R THEN FREE ELSE s.chn[v]],
         root  |-> [v \in Voices |-> IF v \in R THEN FREE ELSE s.root[v]],
         vol   |-> [v \in Voices |-> IF v \in R THEN 0 ELSE s.vol[v]],
         act   |-> [v \in Voices |-> IF v \in R THEN CUT ELSE s.act[v]],
         ins   |-> [v \in Voices |-> IF v \in R THEN 0 ELSE s.ins[v]],
         map   |-> books.map,
         count |-> books.count,
         used  |-> books.used]

\* libxmp_virt_reset: every voice is zeroed, every channel unmapped.
VirtReset(s) ==
    [s EXCEPT !.chn   = [v \in Voices |-> FREE], !.root = [v \in Voices |-> FREE],
              !.vol   = [v \in Voices |-> 0],    !.act  = [v \in Voices |-> CUT],
              !.ins   = [v \in Voices |-> 0],
              !.map   = [c \in Channels |-> FREE],
              !.count = [c \in Channels |-> 0],  !.used = 0]

\* Mutant of FreeVoice: the loudest voice is taken.
FreeVoiceLoudest(s) ==
    {v \in InBackground(s) : \A w \in InBackground(s) :
        s.vol[v] > s.vol[w] \/ (s.vol[v] = s.vol[w] /\ v <= w)}

\* free_voice: the quietest background voice, the first of equals.  (The set
\* is empty when no voice plays in the background: the function's FREE.)
FreeVoice(s) ==
    {v \in InBackground(s) :
        \A w \in InBackground(s) :
            s.vol[v] < s.vol[w] \/ (s.vol[v] = s.vol[w] /\ v <= w)}

\* The tail of alloc_voice: voice i now plays the note of channel c.
Claim(s, i, c) ==
    [s EXCEPT !.chn   = [@ EXCEPT ![i] = c],
              !.root  = [@ EXCEPT ![i] = c],
              !.map   = [@ EXCEPT ![c] = i],
              !.count = [@ EXCEPT ![c] = s.count[c] + 1],
              !.used  = @ + 1]

\* alloc_voice: the first free voice, else a stolen background voice.  The
\* outcomes are pairs of the new pool and the voice; none is the code's -1.
AllocVoice(s, c) ==
    LET unused == Voices \ Used(s)
    IN  IF unused # {}
        THEN {[pool |-> Claim(s, i, c), voc |-> i] :
                 i \in {v \in unused : \A w \in unused : v <= w}}
        ELSE {[pool |-> Claim(Unlink(s, {i}), i, c), voc |-> i] :
                 i \in FreeVoice(s)}

\* Mutant of RelocationTarget: the loop's last `++` is not taken back.
RelocationTargetNotTakenBack(s) ==
    LET idle == {c \in Background : s.map[c] = FREE}
    IN  IF idle = {} THEN {VirtChannels}
                     ELSE {c + 1 : c \in {d \in idle : \A e \in idle : d <= e}}

\* The search loop of libxmp_virt_setpatch for a background channel with no
\* voice.  When none is free, or there are none at all, the loop still ends
\* with `--chn`: the last virtual channel.
RelocationTarget(s) ==
    LET idle == {c \in Background : s.map[c] = FREE}
    IN  IF idle = {} THEN {VirtChannels - 1}
                     ELSE {c \in idle : \A d \in idle : c <= d}

\* Mutants of MoveVoice: the new channel is not mapped; the root moves too.
MoveVoiceUnmapped(s, voc, c) == [s EXCEPT !.chn = [@ EXCEPT ![voc] = c]]
\* The old voice of the track moves to channel c and keeps its root.
MoveVoice(s, voc, c) ==
    [s EXCEPT !.chn = [@ EXCEPT ![voc] = c], !.map = [@ EXCEPT ![c] = voc]]

\* check_dct over all voices, for a note of instrument `in` on channel c.
\* `dups` are the voices that also match the sample or the key.
CheckDct(s, c, in, nna, dca, dups) ==
    LET same  == {v \in OwnedBy(s, c) : s.ins[v] = in}
        reset == IF nna = CUT THEN same
                 ELSE IF dca = CUT THEN dups ELSE {}
        onDup == IF nna = OFF /\ dca = FADE THEN OFF ELSE dca
        acted == [s EXCEPT !.act = [v \in Voices |->
                     IF v \in same THEN IF v \in dups THEN onDup ELSE nna
                                   ELSE s.act[v]]]
    IN  ResetVoices(acted, reset)

\* libxmp_virt_setpatch up to the choice of the voice: reuse the voice of
\* the channel, or push it to the background and allocate, or allocate.
Placements(s, c) ==
    LET voc == s.map[c]
    IN  IF voc = FREE
        THEN {[pool |-> a.pool, voc |-> a.voc, to |-> c] : a \in AllocVoice(s, c)}
        ELSE IF s.act[voc] = CUT
        THEN {[pool |-> s, voc |-> voc, to |-> c]}
        ELSE UNION {{[pool |-> MoveVoice(a.pool, voc, b), voc |-> a.voc, to |-> b] :
                        b \in RelocationTarget(a.pool)} : a \in AllocVoice(s, c)}

\* libxmp_mixer_setpatch and the three assignments after it.
StartNote(s, v, in, nna) ==
    [s EXCEPT !.vol = [@ EXCEPT ![v] = 0], !.act = [@ EXCEPT ![v] = nna],
              !.ins = [@ EXCEPT ![v] = in]]

\* Results of libxmp_virt_setpatch: the pool, the returned channel (-1 on
\* failure) and the voice that starts (FREE for a note with no sample).
SetPatch(s, c, in, sample, nna, dct, dca, dups) ==
    LET checked == IF dct = DctOff THEN s ELSE CheckDct(s, c, in, nna, dca, dups)
        places  == Placements(checked, c)
    IN  IF places = {} THEN {[pool |-> checked, to |-> -1, voc |-> FREE]}
        ELSE IF sample
        THEN {[pool |-> StartNote(p.pool, p.voc, in, nna), to |-> p.to,
               voc  |-> p.voc] : p \in places}
        ELSE {[pool |-> ResetVoices(p.pool, {p.voc}), to |-> p.to,
               voc  |-> FREE] : p \in places}

\* The voices check_dct may find to be duplicates: the sample and the key
\* of a voice are not kept, so any of the same instrument may match.
Duplicates(s, c, in, dct) ==
    LET same == {v \in OwnedBy(s, c) : s.ins[v] = in}
    IN  IF dct = DctInst THEN {same}
        ELSE IF dct = DctOff THEN {{}} ELSE SUBSET same

-----------------------------------------------------------------------------
(* Actions: the calls the player, the event readers and the mixer make     *)

Init == virt = EmptyPool

\* An event reader starts a note; only track channels are given notes.
NoteOn(t, in, sample, nna, dct, dca) ==
    \E dups \in Duplicates(virt, t, in, dct) :
        \E r \in SetPatch(virt, t, in, sample, nna, dct, dca, dups) :
            virt' = r.pool

\* libxmp_virt_queuepatch (Protracker instrument swap).  A negative
\* instrument asks for silence and is FREE here.
QueuePatch(t, in, sample) ==
    IF virt.map[t] # FREE
    THEN virt' = IF in = FREE THEN virt
                 ELSE [virt EXCEPT !.ins = [@ EXCEPT ![virt.map[t]] = in]]
    ELSE /\ in # FREE /\ sample
         /\ \E r \in SetPatch(virt, t, in, TRUE, CUT, DctOff, CUT, {}) :
                virt' = r.pool

\* libxmp_virt_setvol: a silent background note gives its voice back.  A
\* muted root turns any volume into 0, which is one of the levels.
SetVol(c, vol) ==
    LET voc == virt.map[c]
        set == [virt EXCEPT !.vol = [@ EXCEPT ![voc] = vol]]
    IN  /\ voc # FREE
        /\ virt' = IF vol = 0 /\ c >= NumTracks
                   THEN ResetVoices(set, {voc}) ELSE set

\* libxmp_virt_setsmp: the voice changes its sample and falls silent until
\* the volume is set again.
SetSmp(c) ==
    /\ virt.map[c] # FREE
    /\ virt' = [virt EXCEPT !.vol = [@ EXCEPT ![virt.map[c]] = 0]]

\* libxmp_virt_resetchannel: note cut, fade finished, invalid instrument...
ResetChannel(c) ==
    /\ virt.map[c] # FREE
    /\ virt' = ResetVoices(virt, {virt.map[c]})

\* libxmp_virt_resetvoice from the mixer: a voice in use reached its end.
MixerReset(v) ==
    /\ virt.chn[v] # FREE
    /\ virt' = ResetVoices(virt, {v})

\* libxmp_virt_setnna: effects S73..S76 and an ignored tone portamento.
SetNna(t, nna) ==
    /\ Virtual
    /\ virt.map[t] # FREE
    /\ virt' = [virt EXCEPT !.act = [@ EXCEPT ![virt.map[t]] = nna]]

\* libxmp_virt_pastnote with VIRT_ACTION_CUT (effect S70).  The other past
\* note actions set flags of the player's channels and leave the pool alone.
PastNote(t) ==
    /\ \E v \in InBackground(virt) : virt.root[v] = t
    /\ virt' = ResetVoices(virt, {v \in InBackground(virt) : virt.root[v] = t})

\* libxmp_virt_reset: the player was repositioned.
Reset == virt' = VirtReset(virt)

\* Only the Impulse Tracker reader asks for duplicate checks.
\* (To this model a DctSmp check is a DctNote check.)
DuplicateChecks ==
    {<<DctOff, CUT>>} \cup ({DctNote, DctInst} \X Dcas)

Next ==
    \/ \E t \in Tracks, in \in Instruments, sample \in BOOLEAN,
          nna \in Nnas, d \in DuplicateChecks :
          NoteOn(t, in, sample, nna, d[1], d[2])
    \/ \E t \in Tracks, in \in Instruments \cup {FREE}, sample \in BOOLEAN :
          QueuePatch(t, in, sample)
    \/ \E c \in Channels, vol \in Levels : SetVol(c, vol)
    \/ \E c \in Channels : SetSmp(c)
    \/ \E c \in Channels : ResetChannel(c)
    \/ \E v \in Voices : MixerReset(v)
    \/ \E t \in Tracks, nna \in Nnas : SetNna(t, nna)
    \/ \E t \in Tracks : PastNote(t)
    \/ Reset

Spec == Init /\ [][Next]_vars

-----------------------------------------------------------------------------
(* Properties                                                              *)

\* The shape of struct player_data.virt, as far as it is kept here.
PoolType ==
    [chn   : [Voices -> Channels \cup {FREE}],
     root  : [Voices -> Tracks \cup {FREE}],
     vol   : [Voices -> Levels],
     act   : [Voices -> Acts],
     ins   : [Voices -> Instruments \cup {0}],
     map   : [Channels -> Voices \cup {FREE}],
     count : [Channels -> Int],
     used  : Int]

\* The pool keeps its shape, and neither counter leaves the range the number
\* of voices allows.
TypeOK ==
    /\ virt \in PoolType
    /\ \A c \in Channels : virt.count[c] \in 0 .. MaxVoc
    /\ virt.used \in 0 .. MaxVoc

MapsAgreeIn(s) ==
    \A c \in Channels, v \in Voices : s.map[c] = v <=> s.chn[v] = c

\* A voice plays in a channel exactly when the channel is mapped to it: no
\* sounding voice is beyond the reach of every channel (a stuck note), and
\* no channel steers a voice that plays for another one.
MapsAgree == MapsAgreeIn(virt)

CountsAgreeIn(s) ==
    /\ \A c \in Channels : s.count[c] = Cardinality(OwnedBy(s, c))
    /\ s.used = Cardinality(Used(s))

\* The count that resetvoice and free_voice decrement blindly is the number
\* of voices the track owns, and virt_used the number of voices in use.
CountsAgree == CountsAgreeIn(virt)

RootsAgreeIn(s) ==
    \A v \in Voices :
        /\ s.root[v] \in Tracks <=> s.chn[v] # FREE
        /\ s.chn[v] \in Tracks => s.root[v] = s.chn[v]

\* A voice in use belongs to a track, and the voice a track steers is its own:
\* pastnote, mute and check_dct pick their voices by this root.
RootsAgree == RootsAgreeIn(virt)

\* The four tables and the two counters tell the same story, in every order of
\* notes, steals, cuts and mode changes: no stuck note, no channel that steers
\* another's voice, no count that a later free_voice decrements below zero.
TablesAgree == MapsAgree /\ CountsAgree /\ RootsAgree

\* The search for a background channel in setpatch never runs off its end:
\* a note pushed aside lands in a background channel no voice plays in.
RelocationHitsIdle ==
    \A t \in Tracks :
        virt.map[t] # FREE /\ virt.act[virt.map[t]] # CUT =>
            \A a \in AllocVoice(virt, t) : \A b \in RelocationTarget(a.pool) :
                b \in Background /\ a.pool.map[b] = FREE

\* A step that takes a voice away from a background note (the voice plays in
\* a track afterwards) either cut it as a duplicate of the new note, or found
\* every voice in use and took the quietest background one.
StealsQuietest ==
    [][\A v \in InBackground(virt) : virt'.chn[v] \in Tracks =>
          \/ virt.root[v] = virt'.chn[v] /\ virt.ins[v] = virt'.ins[v]
          \/ /\ Used(virt) = Voices
             /\ \A w \in InBackground(virt) : virt.vol[v] <= virt.vol[w]]_vars

\* A note is pushed to the background only by a new note of its own track and
\* only if its action was not "cut"; it keeps its owner.  No step makes the
\* foreground voice of one track play for another.
ForegroundKept ==
    [][\A t \in Tracks : virt.map[t] # FREE /\ virt'.chn[virt.map[t]] \notin {t, FREE} =>
          LET v == virt.map[t]
          IN  /\ virt'.chn[v] \in Background
              /\ virt'.root[v] = t
              /\ virt'.act[v] # CUT
              /\ virt'.map[t] # v
              /\ \A u \in Tracks \ {t} : virt'.map[u] = virt.map[u]]_vars
=============================================================================
