--------------------------------- MODULE Smix ---------------------------------
(***************************************************************************)
(* The sound effect mixer, src/src/smix.c, on top of the voice pool.       *)
(*                                                                         *)
(* A program that plays a song may reserve extra tracks and sample slots   *)
(* for its own sounds.  Slots can be filled, emptied and given up at any   *)
(* time, also while a voice plays from one: the caller frees the memory    *)
(* the mixer reads.  What connects the two is the sample pointer of a      *)
(* voice, compared with that of the slot.                                  *)
(*                                                                         *)
(* The module covers the time a context keeps its song: the player may be  *)
(* started and ended again, always while sound effects are set up, so that *)
(* NumTracks is the same each time.                                        *)
(***************************************************************************)
EXTENDS VirtualChannels

CONSTANTS
    SongTracks,      \* mod->chn; the tracks after them are the reserved ones
    NumSlots,        \* smix->smp
    Blocks,          \* pieces of memory a sample can be loaded to
    NULL,            \* the data of an empty slot and of a voice at rest
    SONG,            \* the data of any sample of the song
    KEY_CUT,         \* an event with note XMP_KEY_CUT
    NoEvent,         \* inject_event[].flag is clear
    ReleasesEmpty    \* whether the caller releases empty slots while it plays

ASSUME SongTracksAssumption == SongTracks \in 0 .. NumTracks - 1
ASSUME SlotsAssumption == NumSlots \in Nat
ASSUME BlocksAssumption == /\ NULL \notin Blocks /\ SONG \notin Blocks
                           /\ NULL # SONG
                           /\ Cardinality(Blocks) >= NumSlots
ASSUME EventsAssumption == {SONG, KEY_CUT, NoEvent} \cap Int = {}
ASSUME ReleasesAssumption == ReleasesEmpty \in BOOLEAN

Slots    == 0 .. NumSlots - 1
Reserved == SongTracks .. NumTracks - 1

VARIABLES
    playing,    \* ctx->state is XMP_STATE_PLAYING
    open,       \* smix->xxs is allocated: chn, ins and smp are not 0
    slot,       \* smix->xxs[n].data (and xxi[n].sub, allocated with it)
    sptr,       \* the sample pointer of every voice
    pending     \* p->inject_event of the reserved tracks

smixVars == <<virt, playing, open, slot, sptr, pending>>

-----------------------------------------------------------------------------
(* The voices and the slots change together                                *)

Mix == [pool |-> virt, sptr |-> sptr, slot |-> slot]

Becomes(m) == virt' = m.pool /\ sptr' = m.sptr /\ slot' = m.slot

\* libxmp_virt_resetvoice zeroes the sample pointer with the rest.
Silence(m, R) ==
    [m EXCEPT !.pool = ResetVoices(m.pool, R),
              !.sptr = [v \in Voices |-> IF v \in R THEN NULL ELSE m.sptr[v]]]

\* Mutant of PlaysFrom: every sound effect is stopped.
PlaysFromReserved(m, n) == {v \in Voices : m.pool.chn[v] \in Reserved}

\* The voices the loop of xmp_smix_release_sample stops.  The data of an
\* empty slot is NULL, and so is the sample pointer of every voice at rest.
PlaysFrom(m, n) ==
    IF playing THEN {v \in Voices : m.sptr[v] = m.slot[n]} ELSE {}

\* Mutant of Release: the voices are not reset.
ReleaseOnly(m, n) == [m EXCEPT !.slot = [@ EXCEPT ![n] = NULL]]

\* xmp_smix_release_sample.
Release(m, n) ==
    [Silence(m, PlaysFrom(m, n)) EXCEPT !.slot = [@ EXCEPT ![n] = NULL]]

\* Memory a sample can be loaded to: what no slot holds.
Unused(m) == {b \in Blocks : \A k \in Slots : m.slot[k] # b}

\* Mutant of Loaded: a failure releases the slot once more.
LoadedReleasingTwice(m, n) ==
    LET r == Release(m, n)
    IN  {Release(r, n)} \cup {[r EXCEPT !.slot = [@ EXCEPT ![n] = b]] : b \in Unused(r)}

\* xmp_smix_load_sample, once the file is open: the slot is released first,
\* and stays empty if the file cannot be read or holds no sample.
Loaded(m, n) ==
    LET r == Release(m, n)
    IN  {r} \cup {[r EXCEPT !.slot = [@ EXCEPT ![n] = b]] : b \in Unused(r)}

\* xmp_end_smix releases the slots one after the other.
ReleaseAll ==
    LET released[k \in 0 .. NumSlots] ==
            IF k = 0 THEN Mix ELSE Release(released[k - 1], k - 1)
    IN  released[NumSlots]

\* A note on channel c that plays `data`, and what it did to the other voices.
Start(m, c, in, nna, data) ==
    {[m EXCEPT !.pool = r.pool,
               !.sptr = [v \in Voices |->
                   IF v = r.voc THEN data
                   ELSE IF r.pool.chn[v] = FREE THEN NULL ELSE m.sptr[v]]] :
        r \in SetPatch(m.pool, c, in, TRUE, nna, DctOff, CUT, {})}

\* read_event_smix.  The instrument's new note action is always "cut".  (Note
\* off and fade only set flags of the channel.)
SmixEvent(m, c, in) ==
    LET e == pending[c]
    IN  IF e = KEY_CUT
        THEN {Silence(m, {m.pool.map[c]} \ {FREE})}
        ELSE IF e = SONG THEN Start(m, c, in, CUT, SONG)
        ELSE IF e \in Slots /\ m.slot[e] # NULL
        THEN Start(m, c, in, CUT, m.slot[e])
        ELSE {m}

\* The event of channel c, whatever those before it have done.
EventOn(S, c) == UNION {SmixEvent(m, c, in) : m \in S, in \in Instruments}

-----------------------------------------------------------------------------
(* Actions                                                                 *)

\* xmp_start_smix was called; the player was not started yet.
SmixInit ==
    /\ Init
    /\ playing = FALSE
    /\ open = TRUE
    /\ slot = [n \in Slots |-> NULL]
    /\ sptr = [v \in Voices |-> NULL]
    /\ pending = [c \in Reserved |-> NoEvent]

\* A caller may be taken to know which slots it filled.
MayRelease(n) == ReleasesEmpty \/ ~playing \/ slot[n] # NULL

\* xmp_start_smix ends the old one first; then its allocations may fail.
StartSmix ==
    /\ ~playing
    /\ open' \in BOOLEAN
    /\ Becomes(ReleaseAll)
    /\ UNCHANGED <<playing, pending>>

\* xmp_end_smix.
EndSmix ==
    /\ open
    /\ \A n \in Slots : MayRelease(n)
    /\ open' = FALSE
    /\ Becomes(ReleaseAll)
    /\ UNCHANGED <<playing, pending>>

\* xmp_smix_load_sample.
LoadSample(n) ==
    /\ open
    /\ MayRelease(n)
    /\ \E m \in Loaded(Mix, n) : Becomes(m)
    /\ UNCHANGED <<playing, open, pending>>

\* xmp_smix_release_sample.
ReleaseSample(n) ==
    /\ open
    /\ MayRelease(n)
    /\ Becomes(Release(Mix, n))
    /\ UNCHANGED <<playing, open, pending>>

\* The sample numbers xmp_smix_play_sample accepts.
ValidSlots == 0 .. NumSlots - 1

\* xmp_smix_play_sample, also of an empty slot, and xmp_smix_play_instrument:
\* the event waits for the next frame and replaces one that waits already.
PlaySmix(c, e) ==
    /\ playing /\ open
    /\ pending' = [pending EXCEPT ![c] = e]
    /\ UNCHANGED <<virt, playing, open, slot, sptr>>

\* xmp_start_player, which ends a player that runs: libxmp_virt_on makes new
\* tables.  Events of the last time are not cleared.
StartPlayer ==
    /\ open
    /\ playing' = TRUE
    /\ virt' = EmptyPool
    /\ sptr' = [v \in Voices |-> NULL]
    /\ UNCHANGED <<open, slot, pending>>

\* xmp_end_player: libxmp_virt_off frees the tables.
EndPlayer ==
    /\ playing
    /\ playing' = FALSE
    /\ virt' = EmptyPool
    /\ sptr' = [v \in Voices |-> NULL]
    /\ UNCHANGED <<open, slot, pending>>

\* inject_event, as far as the reserved tracks: none are left after the end.
InjectEvents ==
    /\ playing /\ open
    /\ LET injected[c \in SongTracks - 1 .. NumTracks - 1] ==
               IF c < SongTracks THEN {Mix}
               ELSE EventOn(injected[c - 1], c)
       IN  \E m \in injected[NumTracks - 1] : Becomes(m)
    /\ pending' = [c \in Reserved |-> NoEvent]
    /\ UNCHANGED <<playing, open>>

\* The song plays a note on one of its tracks.
SongNote(t, in, nna) ==
    /\ playing
    /\ \E m \in Start(Mix, t, in, nna, SONG) : Becomes(m)
    /\ UNCHANGED <<playing, open, pending>>

\* A voice stops: its sample ended, or its note was cut or faded out.
VoiceEnds(v) ==
    /\ playing
    /\ virt.chn[v] # FREE
    /\ Becomes(Silence(Mix, {v}))
    /\ UNCHANGED <<playing, open, pending>>

\* libxmp_virt_reset: the song was repositioned.
Reposition ==
    /\ playing
    /\ virt' = VirtReset(virt)
    /\ sptr' = [v \in Voices |-> NULL]
    /\ UNCHANGED <<playing, open, slot, pending>>

SmixNext ==
    \/ StartSmix
    \/ EndSmix
    \/ \E n \in Slots : LoadSample(n)
    \/ \E n \in Slots : ReleaseSample(n)
    \/ \E c \in Reserved, e \in ValidSlots \cup {SONG, KEY_CUT} : PlaySmix(c, e)
    \/ StartPlayer
    \/ EndPlayer
    \/ InjectEvents
    \/ \E t \in 0 .. SongTracks - 1, in \in Instruments, nna \in Nnas :
          SongNote(t, in, nna)
    \/ \E v \in Voices : VoiceEnds(v)
    \/ Reposition

SmixSpec == SmixInit /\ [][SmixNext]_smixVars

-----------------------------------------------------------------------------
(* Properties                                                              *)

\* The state keeps its shape.  Counters are no part of this: CountsAgree is
\* about them.
SmixTypeOK ==
    /\ virt \in PoolType
    /\ playing \in BOOLEAN /\ open \in BOOLEAN
    /\ slot \in [Slots -> Blocks \cup {NULL}]
    /\ sptr \in [Voices -> Blocks \cup {NULL, SONG}]
    /\ pending \in [Reserved -> Slots \cup {SONG, KEY_CUT, NoEvent}]

\* No voice plays from memory that was freed: what it plays is a sample of
\* the song or the data some slot still holds, whatever was loaded, released
\* or given up while it played (xmp_smix_release_sample stops its voices, which
\* it finds by the pointer: a voice has a sample exactly while it is in use).
VoicesPlayLoaded ==
    /\ SmixTypeOK
    /\ \A v \in Voices : sptr[v] = NULL <=> virt.chn[v] = FREE
    /\ \A v \in Voices : sptr[v] \in Blocks => \E n \in Slots : slot[n] = sptr[v]

\* Loading, releasing or giving up slots stops the voices that play from
\* them and no others: the song and the other sounds go on where they were.
OthersPlayOn ==
    [][slot' # slot =>
          \A v \in Voices :
              /\ sptr[v] # NULL
              /\ sptr[v] \in Blocks =>
                    \E n \in Slots : slot[n] = sptr[v] /\ slot'[n] = slot[n]
              => virt'.chn[v] = virt.chn[v] /\ sptr'[v] = sptr[v]]_smixVars
=============================================================================
