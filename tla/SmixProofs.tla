------------------------------- MODULE SmixProofs ------------------------------
(***************************************************************************)
(* For every number of tracks, voices, slots and pieces of memory: what    *)
(* sound effects do to the voices of the song and to each other.  The      *)
(* caller releases no empty slot while it plays; otherwise the pool's      *)
(* counters are wrong (the run smix_empty_slot).                           *)
(***************************************************************************)
EXTENDS Smix, VirtualChannelsProofs, Recursion

Data     == Blocks \cup {NULL, SONG}
SptrType == [Voices -> Data]
SlotType == [Slots -> Blocks \cup {NULL}]
Events   == Slots \cup {SONG, KEY_CUT, NoEvent}

\* The voices, what they play, and the slots.
MixRec == [pool : PoolType, sptr : SptrType, slot : SlotType]

\* A voice has a sample exactly while it is in use.
UsedPlay(m) == \A v \in Voices : m.sptr[v] = NULL <=> m.pool.chn[v] = FREE

\* What a voice plays from memory is in a slot.
PlayLoaded(m) == \A v \in Voices : m.sptr[v] \in Blocks =>
                    \E n \in Slots : m.slot[n] = m.sptr[v]

\* No two slots share their memory.
SlotsDiffer(m) == \A j, k \in Slots : m.slot[j] = m.slot[k] /\ m.slot[j] # NULL => j = k

MixOK(m) ==
    /\ m \in MixRec
    /\ PoolInv(m.pool) /\ ActsFit(m.pool)
    /\ UsedPlay(m) /\ PlayLoaded(m) /\ SlotsDiffer(m)

\* Nothing is in use while no player runs.
Still(m) == \A v \in Voices : m.pool.chn[v] = FREE

SmixInv ==
    /\ MixOK(Mix)
    /\ playing \in BOOLEAN /\ open \in BOOLEAN
    /\ pending \in [Reserved -> Events]
    /\ ~playing => Still(Mix)

LEMMA MixFields ==
    /\ Mix.pool = virt /\ Mix.sptr = sptr /\ Mix.slot = slot
    /\ NULL \notin Blocks /\ SONG \notin Blocks /\ NULL # SONG
    /\ Reserved \subseteq Tracks /\ \A t \in 0 .. SongTracks - 1 : t \in Tracks
    /\ SongTracks \in Nat /\ SongTracks < NumTracks /\ NumSlots \in Nat
BY BlocksAssumption, SongTracksAssumption, SlotsAssumption, TracksAssumption
DEF Mix, Reserved, Tracks

-----------------------------------------------------------------------------
(* Voices that stop                                                        *)

LEMMA SilenceFields ==
    ASSUME NEW m \in MixRec, NEW R \in SUBSET Voices
    PROVE  LET u == Silence(m, R)
           IN  /\ u \in MixRec /\ u.slot = m.slot
               /\ u.pool = ResetVoices(m.pool, R)
               /\ \A v \in Voices :
                     /\ u.sptr[v] = IF v \in R THEN NULL ELSE m.sptr[v]
                     /\ u.pool.chn[v] = IF v \in R THEN FREE ELSE m.pool.chn[v]
<1> DEFINE u == Silence(m, R)
           pool == ResetVoices(m.pool, R)
           sp == [v \in Voices |-> IF v \in R THEN NULL ELSE m.sptr[v]]
<1>1. u = [m EXCEPT !.pool = pool, !.sptr = sp]
    BY DEF Silence
<1>2. m.pool \in PoolType /\ m.sptr \in SptrType
    BY DEF MixRec
<1>3. pool \in PoolType /\ \A v \in Voices : pool.chn[v] = IF v \in R THEN FREE ELSE m.pool.chn[v]
  <2>1. pool \in PoolType
      BY <1>2, ResetVoicesFields
  <2>2. \A v \in Voices : pool.chn[v] = IF v \in R THEN FREE ELSE m.pool.chn[v]
      BY DEF ResetVoices
  <2> QED  BY <2>1, <2>2
<1>4. sp \in SptrType /\ \A v \in Voices : sp[v] = IF v \in R THEN NULL ELSE m.sptr[v]
    BY <1>2 DEF SptrType, Data
<1> HIDE DEF pool, sp, u
<1>5. u \in MixRec /\ u.slot = m.slot /\ u.pool = pool /\ u.sptr = sp
    BY <1>1, <1>3, <1>4 DEF MixRec
<1> QED  BY <1>3, <1>4, <1>5 DEF pool, u

\* libxmp_virt_resetvoice for voices in use.
LEMMA SilenceKeeps ==
    ASSUME NEW m, MixOK(m), NEW R \in SUBSET Used(m.pool)
    PROVE  MixOK(Silence(m, R))
<1> DEFINE u == Silence(m, R)
<1>1. m \in MixRec /\ R \in SUBSET Voices
    BY DEF MixOK, Used
<1>2. /\ u \in MixRec /\ u.slot = m.slot
      /\ u.pool = ResetVoices(m.pool, R)
      /\ \A v \in Voices :
            /\ u.sptr[v] = IF v \in R THEN NULL ELSE m.sptr[v]
            /\ u.pool.chn[v] = IF v \in R THEN FREE ELSE m.pool.chn[v]
    BY <1>1, SilenceFields
<1> HIDE DEF u
<1>3. PoolInv(u.pool) /\ ActsFit(u.pool)
    BY <1>1, <1>2, ResetVoicesInv, ResetVoicesFit DEF MixOK
<1>4. UsedPlay(u)
    BY <1>2 DEF MixOK, UsedPlay
<1>5. PlayLoaded(u)
    BY <1>2, MixFields DEF MixOK, PlayLoaded
<1>6. SlotsDiffer(u)
    BY <1>2 DEF MixOK, SlotsDiffer
<1> QED  BY <1>2, <1>3, <1>4, <1>5, <1>6 DEF MixOK, u

\* A slot's data changes to none, or to memory that no slot holds.
Refilled(m, n, b) == [m EXCEPT !.slot = [m.slot EXCEPT ![n] = b]]

LEMMA RefilledFields ==
    ASSUME NEW m \in MixRec, NEW n \in Slots, NEW b \in Blocks \cup {NULL}
    PROVE  LET u == Refilled(m, n, b)
           IN  /\ u \in MixRec /\ u.pool = m.pool /\ u.sptr = m.sptr
               /\ \A k \in Slots : u.slot[k] = IF k = n THEN b ELSE m.slot[k]
<1> DEFINE u == Refilled(m, n, b)
           s == [m.slot EXCEPT ![n] = b]
<1>1. s \in SlotType /\ \A k \in Slots : s[k] = IF k = n THEN b ELSE m.slot[k]
  <2>1. m.slot \in SlotType
      BY DEF MixRec
  <2> QED  BY <2>1 DEF SlotType
<1>2. u = [m EXCEPT !.slot = s]
    BY DEF Refilled
<1> HIDE DEF s, u
<1>3. u \in MixRec /\ u.pool = m.pool /\ u.sptr = m.sptr /\ u.slot = s
    BY <1>1, <1>2 DEF MixRec
<1> QED  BY <1>1, <1>3 DEF u

\* xmp_smix_release_sample, of a slot with data when something plays.
Releasable(m, n) == IF playing THEN m.slot[n] # NULL ELSE Still(m)

LEMMA ReleaseKeeps ==
    ASSUME NEW m, MixOK(m), NEW n \in Slots, Releasable(m, n)
    PROVE  LET u == Release(m, n)
           IN  /\ MixOK(u)
               /\ \A k \in Slots : u.slot[k] = IF k = n THEN NULL ELSE m.slot[k]
               /\ \A v \in Voices : m.sptr[v] # m.slot[n] =>
                     u.sptr[v] = m.sptr[v] /\ u.pool.chn[v] = m.pool.chn[v]
               /\ ~playing => Still(u)
<1> DEFINE R == PlaysFrom(m, n)
           w == Silence(m, R)
           u == Release(m, n)
<1>1. m \in MixRec /\ m.slot \in SlotType /\ m.sptr \in SptrType
    BY DEF MixOK, MixRec
<1>2. R \in SUBSET Used(m.pool) /\ R \in SUBSET Voices
      /\ \A v \in Voices : v \in R <=> playing /\ m.sptr[v] = m.slot[n]
  <2>1. \A v \in Voices : v \in R <=> playing /\ m.sptr[v] = m.slot[n]
      BY DEF PlaysFrom
  <2>2. R \in SUBSET Voices
      BY DEF PlaysFrom
  <2> HIDE DEF R
  <2>3. \A v \in R : v \in Used(m.pool)
      BY <2>1, <2>2 DEF MixOK, UsedPlay, Used, Releasable
  <2> QED  BY <2>1, <2>2, <2>3
<1> HIDE DEF R
<1>3. MixOK(w)
    BY <1>2, SilenceKeeps
<1>4. /\ w \in MixRec /\ w.slot = m.slot
      /\ \A v \in Voices :
            /\ w.sptr[v] = IF v \in R THEN NULL ELSE m.sptr[v]
            /\ w.pool.chn[v] = IF v \in R THEN FREE ELSE m.pool.chn[v]
    BY <1>1, <1>2, SilenceFields
<1>5. u = Refilled(w, n, NULL)
    BY DEF Release, R, Refilled
<1> HIDE DEF w, u
<1>6. /\ u \in MixRec /\ u.pool = w.pool /\ u.sptr = w.sptr
      /\ \A k \in Slots : u.slot[k] = IF k = n THEN NULL ELSE w.slot[k]
    BY <1>4, <1>5, RefilledFields
<1>7. UsedPlay(u) /\ PoolInv(u.pool) /\ ActsFit(u.pool)
    BY <1>3, <1>6 DEF MixOK, UsedPlay
<1>8. PlayLoaded(u)
  <2>1. SUFFICES ASSUME NEW v \in Voices, u.sptr[v] \in Blocks
                 PROVE  \E k \in Slots : u.slot[k] = u.sptr[v]
      BY DEF PlayLoaded
  <2>2. v \notin R /\ u.sptr[v] = m.sptr[v] /\ m.sptr[v] \in Blocks /\ m.sptr[v] # NULL
      BY <1>4, <1>6, <2>1, MixFields
  <2>3. PICK k \in Slots : m.slot[k] = m.sptr[v]
      BY <2>2 DEF MixOK, PlayLoaded
  <2>4. playing
      BY <2>2 DEF MixOK, UsedPlay, Releasable, Still
  <2>5. k # n
      BY <1>2, <2>2, <2>3, <2>4
  <2> QED  BY <1>4, <1>6, <2>2, <2>3, <2>5
<1>9. SlotsDiffer(u)
    BY <1>4, <1>6 DEF MixOK, SlotsDiffer
<1>10. ~playing => Still(u)
    BY <1>2, <1>4, <1>6 DEF Releasable, Still
<1> QED  BY <1>2, <1>4, <1>6, <1>7, <1>8, <1>9, <1>10 DEF MixOK, u

\* xmp_smix_load_sample.
LEMMA LoadedKeeps ==
    ASSUME NEW m, MixOK(m), NEW n \in Slots, Releasable(m, n), NEW u \in Loaded(m, n)
    PROVE  /\ MixOK(u)
           /\ \A k \in Slots \ {n} : u.slot[k] = m.slot[k]
           /\ \A v \in Voices : m.sptr[v] # m.slot[n] =>
                 u.sptr[v] = m.sptr[v] /\ u.pool.chn[v] = m.pool.chn[v]
           /\ ~playing => Still(u)
<1> DEFINE r == Release(m, n)
<1>1. /\ MixOK(r)
      /\ \A k \in Slots : r.slot[k] = IF k = n THEN NULL ELSE m.slot[k]
      /\ \A v \in Voices : m.sptr[v] # m.slot[n] =>
            r.sptr[v] = m.sptr[v] /\ r.pool.chn[v] = m.pool.chn[v]
      /\ ~playing => Still(r)
    BY ReleaseKeeps
<1>2. u = r \/ \E b \in Unused(r) : u = Refilled(r, n, b)
    BY DEF Loaded, Refilled
<1> HIDE DEF r
<1>3. CASE u = r
    BY <1>1, <1>3
<1>4. ASSUME NEW b \in Unused(r), u = Refilled(r, n, b)
      PROVE  /\ MixOK(u)
             /\ \A k \in Slots \ {n} : u.slot[k] = m.slot[k]
             /\ \A v \in Voices : m.sptr[v] # m.slot[n] =>
                   u.sptr[v] = m.sptr[v] /\ u.pool.chn[v] = m.pool.chn[v]
             /\ ~playing => Still(u)
  <2>1. b \in Blocks /\ \A k \in Slots : r.slot[k] # b
      BY DEF Unused
  <2>2. /\ u \in MixRec /\ u.pool = r.pool /\ u.sptr = r.sptr
        /\ \A k \in Slots : u.slot[k] = IF k = n THEN b ELSE r.slot[k]
      BY <1>1, <1>4, <2>1, RefilledFields DEF MixOK
  <2>3. PoolInv(u.pool) /\ ActsFit(u.pool) /\ UsedPlay(u)
      BY <1>1, <2>2 DEF MixOK, UsedPlay
  <2>4. PlayLoaded(u)
    <3>1. SUFFICES ASSUME NEW v \in Voices, u.sptr[v] \in Blocks
                   PROVE  \E k \in Slots : u.slot[k] = u.sptr[v]
        BY DEF PlayLoaded
    <3>2. PICK k \in Slots : r.slot[k] = r.sptr[v] /\ r.sptr[v] = u.sptr[v]
        BY <1>1, <2>2, <3>1 DEF MixOK, PlayLoaded
    <3>3. k # n
        BY <1>1, <3>1, <3>2, MixFields
    <3> QED  BY <2>2, <3>2, <3>3
  <2>5. SlotsDiffer(u)
      BY <1>1, <2>1, <2>2 DEF MixOK, SlotsDiffer
  <2>6. ~playing => Still(u)
      BY <1>1, <2>2 DEF Still
  <2> QED  BY <1>1, <2>2, <2>3, <2>4, <2>5, <2>6 DEF MixOK
<1> QED  BY <1>2, <1>3, <1>4

-----------------------------------------------------------------------------
(* Notes that start                                                        *)

\* A note without a duplicate check: the voice it plays on, if any, and what
\* became of the others.
LEMMA NoteFields ==
    ASSUME NEW s, PoolInv(s), ActsFit(s), NnaNeedsVirtual,
           NEW t \in Tracks, NEW in \in Instruments, NEW nna \in Nnas,
           NEW r \in SetPatch(s, t, in, TRUE, nna, DctOff, CUT, {})
    PROVE  /\ PoolInv(r.pool) /\ ActsFit(r.pool)
           /\ \A v \in Voices \ {r.voc} : r.pool.chn[v] = FREE <=> s.chn[v] = FREE
           /\ r.voc \in Voices => r.pool.chn[r.voc] # FREE
<1>1. \/ r.pool = s /\ r.voc = FREE
      \/ \E p \in Placements(s, t) :
            r.pool = StartNote(p.pool, p.voc, in, nna) /\ r.voc = p.voc
  <2> DEFINE places == Placements(s, t)
  <2>1. r \in IF places = {} THEN {[pool |-> s, to |-> -1, voc |-> FREE]}
              ELSE {[pool |-> StartNote(p.pool, p.voc, in, nna), to |-> p.to,
                     voc  |-> p.voc] : p \in places}
      BY DEF SetPatch
  <2> HIDE DEF places
  <2>2. \/ r.pool = s /\ r.voc = FREE
        \/ \E p \in places :
              r.pool = StartNote(p.pool, p.voc, in, nna) /\ r.voc = p.voc
      BY <2>1
  <2> QED  BY <2>2 DEF places
<1>2. CASE r.pool = s /\ r.voc = FREE
    BY <1>2, Sizes
<1>3. ASSUME NEW p \in Placements(s, t),
             r.pool = StartNote(p.pool, p.voc, in, nna), r.voc = p.voc
      PROVE  /\ PoolInv(r.pool) /\ ActsFit(r.pool)
             /\ \A v \in Voices \ {r.voc} : r.pool.chn[v] = FREE <=> s.chn[v] = FREE
             /\ r.voc \in Voices => r.pool.chn[r.voc] # FREE
  <2>1. PoolInv(p.pool) /\ p.pool.act = s.act /\ p.voc \in Voices
        /\ p.pool.chn[p.voc] = t
      BY <1>3, PlacementsInv
  <2>2. ActsFit(p.pool)
      BY <2>1 DEF ActsFit
  <2>3. PoolInv(r.pool) /\ ActsFit(r.pool)
      BY <1>3, <2>1, <2>2, StartNoteInv
  <2>4. Placed(s, p.pool, t, p.voc)
      BY <1>3, PlacementsShape
  <2>5. r.pool.chn = p.pool.chn
    <3>1. p.pool \in PoolType
        BY <2>1 DEF PoolInv
    <3> QED  BY <1>3, <3>1 DEF StartNote, PoolType
  <2>6. ASSUME NEW v \in Voices \ {p.voc}
        PROVE  p.pool.chn[v] = FREE <=> s.chn[v] = FREE
    <3>1. CASE v = s.map[t]
      <4>1. p.pool.chn[v] \in Background
          BY <2>4, <2>6, <3>1 DEF Placed
      <4>2. p.pool.chn[v] # FREE
          BY <4>1, Sizes DEF Background
      <4>3. s.chn[v] = t
          BY <2>6, <3>1, Sizes DEF PoolInv, MapsAgreeIn
      <4> QED  BY <4>2, <4>3, Sizes
    <3>2. CASE v # s.map[t]
        BY <2>4, <2>6, <3>2 DEF Placed
    <3> QED  BY <3>1, <3>2
  <2> QED  BY <1>3, <2>1, <2>3, <2>5, <2>6, Sizes
<1> QED  BY <1>1, <1>2, <1>3

\* A note of the song, or of a sound effect whose data is in a slot.
LEMMA StartKeeps ==
    ASSUME NEW m, MixOK(m), NnaNeedsVirtual,
           NEW c \in Tracks, NEW in \in Instruments, NEW nna \in Nnas,
           NEW d \in Blocks \cup {SONG},
           d \in Blocks => \E n \in Slots : m.slot[n] = d,
           NEW u \in Start(m, c, in, nna, d)
    PROVE  MixOK(u) /\ u.slot = m.slot
<1>1. PICK r \in SetPatch(m.pool, c, in, TRUE, nna, DctOff, CUT, {}) :
         u = [m EXCEPT !.pool = r.pool,
                       !.sptr = [v \in Voices |->
                          IF v = r.voc THEN d
                          ELSE IF r.pool.chn[v] = FREE THEN NULL ELSE m.sptr[v]]]
    BY DEF Start
<1>2. /\ PoolInv(r.pool) /\ ActsFit(r.pool)
      /\ \A v \in Voices \ {r.voc} : r.pool.chn[v] = FREE <=> m.pool.chn[v] = FREE
      /\ r.voc \in Voices => r.pool.chn[r.voc] # FREE
    BY NoteFields DEF MixOK
<1> DEFINE sp == [v \in Voices |->
                    IF v = r.voc THEN d
                    ELSE IF r.pool.chn[v] = FREE THEN NULL ELSE m.sptr[v]]
<1>3. m.sptr \in SptrType /\ m.slot \in SlotType /\ m \in MixRec
    BY DEF MixOK, MixRec
<1>4. sp \in SptrType
      /\ \A v \in Voices :
            sp[v] = IF v = r.voc THEN d
                    ELSE IF r.pool.chn[v] = FREE THEN NULL ELSE m.sptr[v]
    BY <1>3 DEF SptrType, Data
<1>5. u = [m EXCEPT !.pool = r.pool, !.sptr = sp]
    BY <1>1
<1> HIDE DEF sp
<1>6. r.pool \in PoolType
    BY <1>2 DEF PoolInv
<1>7. u \in MixRec /\ u.pool = r.pool /\ u.sptr = sp /\ u.slot = m.slot
    BY <1>3, <1>4, <1>5, <1>6 DEF MixRec
<1>8. UsedPlay(u)
    BY <1>2, <1>4, <1>7, MixFields DEF MixOK, UsedPlay
<1>9. PlayLoaded(u)
    BY <1>2, <1>4, <1>7, MixFields DEF MixOK, PlayLoaded
<1>10. SlotsDiffer(u)
    BY <1>7 DEF MixOK, SlotsDiffer
<1> QED  BY <1>2, <1>7, <1>8, <1>9, <1>10 DEF MixOK

\* read_event_smix, for any event that waits.
LEMMA SmixEventKeeps ==
    ASSUME NEW m, MixOK(m), NnaNeedsVirtual, pending \in [Reserved -> Events],
           NEW c \in Reserved, NEW in \in Instruments, NEW u \in SmixEvent(m, c, in)
    PROVE  MixOK(u) /\ u.slot = m.slot
<1>0. c \in Tracks /\ c \in Channels /\ CUT \in Nnas
    BY MixFields, Sizes, NnasAssumption
<1>1. m \in MixRec /\ m.slot \in SlotType
    BY DEF MixOK, MixRec
<1> DEFINE e == pending[c]
           R == {m.pool.map[c]} \ {FREE}
<1>2. \/ u = Silence(m, R)
      \/ u \in Start(m, c, in, CUT, SONG)
      \/ e \in Slots /\ m.slot[e] # NULL /\ u \in Start(m, c, in, CUT, m.slot[e])
      \/ u = m
    BY DEF SmixEvent
<1>3. CASE u = Silence(m, R)
  <2>1. R \in SUBSET Used(m.pool)
    <3>1. m.pool.map[c] # FREE => m.pool.map[c] \in Used(m.pool)
        BY <1>0, MappedVoices DEF MixOK
    <3> QED  BY <3>1
  <2>2. R \in SUBSET Voices
      BY <2>1 DEF Used
  <2> HIDE DEF R
  <2>3. MixOK(Silence(m, R))
      BY <2>1, SilenceKeeps
  <2>4. Silence(m, R).slot = m.slot
      BY <1>1, <2>2, SilenceFields
  <2> QED  BY <1>3, <2>3, <2>4
<1>4. CASE u \in Start(m, c, in, CUT, SONG)
  <2>1. SONG \in Blocks \cup {SONG} /\ SONG \notin Blocks
      BY MixFields
  <2> QED  BY <1>0, <1>4, <2>1, StartKeeps
<1>5. CASE e \in Slots /\ m.slot[e] # NULL /\ u \in Start(m, c, in, CUT, m.slot[e])
  <2>1. m.slot[e] \in Blocks
      BY <1>1, <1>5 DEF SlotType
  <2>2. m.slot[e] \in Blocks \cup {SONG} /\ \E n \in Slots : m.slot[n] = m.slot[e]
      BY <1>5, <2>1
  <2> QED  BY <1>0, <1>5, <2>2, StartKeeps
<1> QED  BY <1>2, <1>3, <1>4, <1>5

-----------------------------------------------------------------------------
(* All slots given up                                                      *)

\* The slots of xmp_end_smix, one after the other.
Released ==
    CHOOSE f : f = [k \in 0 .. NumSlots |->
        IF k = 0 THEN Mix ELSE Release(f[k - 1], k - 1)]

LEMMA ReleaseType ==
    ASSUME NEW m \in MixRec, NEW n \in Slots
    PROVE  Release(m, n) \in MixRec
<1> DEFINE w == Silence(m, PlaysFrom(m, n))
<1>1. PlaysFrom(m, n) \in SUBSET Voices
    BY DEF PlaysFrom
<1>2. w \in MixRec
    BY <1>1, SilenceFields
<1>3. Release(m, n) = Refilled(w, n, NULL)
    BY DEF Release, Refilled
<1> HIDE DEF w
<1> QED  BY <1>2, <1>3, RefilledFields

LEMMA ReleasedExists ==
    ASSUME Mix \in MixRec
    PROVE  Released = [k \in 0 .. NumSlots |->
               IF k = 0 THEN Mix ELSE Release(Released[k - 1], k - 1)]
<1> DEFINE F == [p \in (0 .. NumSlots) \X MixRec |->
                   IF p[1] < NumSlots THEN Release(p[2], p[1]) ELSE p[2]]
<1>1. NumSlots \in Nat
    BY SlotsAssumption
<1>2. ASSUME NEW n \in 0 .. NumSlots, NEW m \in MixRec, n < NumSlots
      PROVE  Release(m, n) \in MixRec
  <2>1. n \in Slots
      BY <1>1, <1>2 DEF Slots
  <2> QED  BY <2>1, ReleaseType
<1>3. F \in [(0 .. NumSlots) \X MixRec -> MixRec]
    BY <1>2
<1>4. \A n \in 0 .. NumSlots, m \in MixRec : n < NumSlots => F[<<n, m>>] = Release(m, n)
    OBVIOUS
<1>5. PICK g \in [0 .. NumSlots -> MixRec] : Recurs(g, NumSlots, Mix, F)
  <2> HIDE DEF F
  <2> QED  BY <1>1, <1>3, RecursiveFunction
<1>6. g = [k \in 0 .. NumSlots |-> IF k = 0 THEN Mix ELSE Release(g[k - 1], k - 1)]
  <2> HIDE DEF F
  <2>1. ASSUME NEW k \in 0 .. NumSlots, k # 0
        PROVE  F[<<k - 1, g[k - 1]>>] = Release(g[k - 1], k - 1)
    <3>1. k - 1 \in 0 .. NumSlots /\ k - 1 < NumSlots
        BY <1>1, <2>1
    <3>2. g[k - 1] \in MixRec
        BY <1>5, <3>1
    <3> QED  BY <1>4, <3>1, <3>2
  <2>2. \A k \in 0 .. NumSlots :
           g[k] = IF k = 0 THEN Mix ELSE Release(g[k - 1], k - 1)
      BY <1>5, <2>1 DEF Recurs
  <2> QED  BY <1>5, <2>2
<1> QED  BY <1>6 DEF Released

\* What holds when the first k slots were released.
UpToSlot(m, k) ==
    /\ MixOK(m)
    /\ \A j \in Slots : m.slot[j] = IF j < k THEN NULL ELSE slot[j]
    /\ \A v \in Voices : sptr[v] = SONG =>
          m.sptr[v] = sptr[v] /\ m.pool.chn[v] = virt.chn[v]
    /\ ~playing => Still(m)

\* xmp_end_smix, and xmp_start_smix before its allocations.
LEMMA ReleaseAllKeeps ==
    ASSUME SmixInv, playing => \A n \in Slots : slot[n] # NULL
    PROVE  UpToSlot(ReleaseAll, NumSlots)
<1> DEFINE f == Released
           S == {k \in 0 .. NumSlots : UpToSlot(f[k], k)}
<1>1. NumSlots \in Nat /\ MixOK(Mix) /\ Mix \in MixRec
    BY SlotsAssumption DEF SmixInv, MixOK
<1>2. f = [k \in 0 .. NumSlots |-> IF k = 0 THEN Mix ELSE Release(f[k - 1], k - 1)]
    BY <1>1, ReleasedExists
<1> HIDE DEF f
<1>3. 0 \in S
  <2>1. 0 \in 0 .. NumSlots
      BY <1>1
  <2>2. f[0] = Mix
      BY <1>2, <2>1
  <2>3. \A j \in Slots : ~(j < 0)
      BY DEF Slots
  <2>4. UpToSlot(Mix, 0)
      BY <2>3, MixFields DEF UpToSlot, SmixInv
  <2> QED  BY <2>1, <2>2, <2>4
<1>4. ASSUME NEW k \in 0 .. NumSlots - 1, k \in S  PROVE k + 1 \in S
  <2>1. k + 1 \in 0 .. NumSlots /\ k + 1 # 0 /\ (k + 1) - 1 = k /\ k \in Slots
        /\ k \in Int
      BY <1>1 DEF Slots
  <2> DEFINE m == f[k]
             u == f[k + 1]
  <2>2. u = Release(m, k)
      BY <1>2, <2>1
  <2>3. UpToSlot(m, k)
      BY <1>4
  <2> HIDE DEF m, u
  <2>4. m.slot[k] = slot[k]
      BY <2>1, <2>3 DEF UpToSlot
  <2>5. slot[k] # SONG
    <3>1. slot \in SlotType
        BY <1>1, MixFields DEF MixRec
    <3> QED  BY <2>1, <3>1, MixFields DEF SlotType
  <2>6. Releasable(m, k)
      BY <2>1, <2>3, <2>4 DEF Releasable, UpToSlot
  <2>7. /\ MixOK(u)
        /\ \A j \in Slots : u.slot[j] = IF j = k THEN NULL ELSE m.slot[j]
        /\ \A v \in Voices : m.sptr[v] # m.slot[k] =>
              u.sptr[v] = m.sptr[v] /\ u.pool.chn[v] = m.pool.chn[v]
        /\ ~playing => Still(u)
      BY <2>1, <2>2, <2>3, <2>6, ReleaseKeeps DEF UpToSlot
  <2>8. \A j \in Slots : u.slot[j] = IF j < k + 1 THEN NULL ELSE slot[j]
    <3>1. \A j \in Slots : m.slot[j] = IF j < k THEN NULL ELSE slot[j]
        BY <2>3 DEF UpToSlot
    <3>2. \A j \in Slots : j \in Int
        BY DEF Slots
    <3>3. \A j \in Slots : j < k + 1 <=> j = k \/ j < k
        BY <2>1, <3>2
    <3> QED  BY <2>7, <3>1, <3>3
  <2>9. \A v \in Voices : sptr[v] = SONG =>
           u.sptr[v] = sptr[v] /\ u.pool.chn[v] = virt.chn[v]
      BY <2>3, <2>4, <2>5, <2>7 DEF UpToSlot
  <2>10. UpToSlot(u, k + 1)
      BY <2>7, <2>8, <2>9 DEF UpToSlot
  <2> QED  BY <2>1, <2>10 DEF u
<1>5. NumSlots \in S
  <2>1. 0 .. NumSlots \subseteq S
    <3> HIDE DEF S
    <3> QED  BY <1>1, <1>3, <1>4, UpTo
  <2> QED  BY <1>1, <2>1
<1>6. ReleaseAll = f[NumSlots]
    BY DEF ReleaseAll, Released, f
<1> QED  BY <1>5, <1>6

-----------------------------------------------------------------------------
(* The events of a frame                                                   *)

\* inject_event, one reserved track after the other.
Injected ==
    CHOOSE f : f = [c \in SongTracks - 1 .. NumTracks - 1 |->
        IF c < SongTracks THEN {Mix}
        ELSE EventOn(f[c - 1], c)]

\* What the events of all tracks leave: the slots.
Okay == {m \in MixRec : MixOK(m) /\ m.slot = slot}

LEMMA EventOnKeeps ==
    ASSUME NnaNeedsVirtual, pending \in [Reserved -> Events],
           NEW c \in Reserved, NEW S \in SUBSET Okay
    PROVE  EventOn(S, c) \in SUBSET Okay
<1>1. ASSUME NEW m \in S, NEW in \in Instruments, NEW u \in SmixEvent(m, c, in)
      PROVE  u \in Okay
  <2>1. MixOK(m) /\ m.slot = slot
      BY DEF Okay
  <2>2. MixOK(u) /\ u.slot = m.slot
      BY <1>1, <2>1, SmixEventKeeps
  <2> QED  BY <2>1, <2>2 DEF Okay, MixOK
<1> QED  BY <1>1 DEF EventOn

LEMMA InjectedExists ==
    ASSUME NnaNeedsVirtual, SmixInv
    PROVE  Injected = [c \in SongTracks - 1 .. NumTracks - 1 |->
               IF c < SongTracks THEN {Mix} ELSE EventOn(Injected[c - 1], c)]
<1> DEFINE N == NumTracks - SongTracks
           X == SUBSET Okay
           F == [p \in (0 .. N) \X X |->
                   IF p[1] < N THEN EventOn(p[2], p[1] + SongTracks) ELSE p[2]]
<1>1. N \in Nat /\ SongTracks \in Nat /\ NumTracks \in Nat
    BY SongTracksAssumption, TracksAssumption
<1>2. ASSUME NEW n \in 0 .. N, NEW S \in X, n < N
      PROVE  EventOn(S, n + SongTracks) \in X
  <2>1. n + SongTracks \in Reserved
      BY <1>1, <1>2 DEF Reserved
  <2> QED  BY <2>1, EventOnKeeps DEF SmixInv
<1>3. F \in [(0 .. N) \X X -> X]
  <2> HIDE DEF N, X
  <2> QED  BY <1>2
<1>4. \A n \in 0 .. N, S \in X : n < N => F[<<n, S>>] = EventOn(S, n + SongTracks)
  <2> HIDE DEF N, X
  <2> QED  OBVIOUS
<1>5. {Mix} \in X
    BY MixFields DEF Okay, SmixInv, MixOK
<1> HIDE DEF F, X
<1>6. PICK g \in [0 .. N -> X] : Recurs(g, N, {Mix}, F)
  <2> HIDE DEF N
  <2> QED  BY <1>1, <1>3, <1>5, RecursiveFunction
<1>7. \A k \in 0 .. N :
         g[k] = IF k = 0 THEN {Mix} ELSE EventOn(g[k - 1], (k - 1) + SongTracks)
  <2> HIDE DEF N
  <2>1. ASSUME NEW k \in 0 .. N, k # 0
        PROVE  F[<<k - 1, g[k - 1]>>] = EventOn(g[k - 1], (k - 1) + SongTracks)
    <3>1. k - 1 \in 0 .. N /\ k - 1 < N
        BY <1>1, <2>1
    <3>2. g[k - 1] \in X
        BY <1>6, <3>1
    <3> QED  BY <1>4, <3>1, <3>2
  <2> QED  BY <1>6, <2>1 DEF Recurs
<1> DEFINE D == SongTracks - 1 .. NumTracks - 1
           h == [c \in D |-> g[c - (SongTracks - 1)]]
<1>8. ASSUME NEW c \in D
      PROVE  h[c] = IF c < SongTracks THEN {Mix} ELSE EventOn(h[c - 1], c)
  <2>1. CASE c < SongTracks
    <3>1. c - (SongTracks - 1) = 0 /\ 0 \in 0 .. N
        BY <1>1, <2>1
    <3>2. g[0] = {Mix}
        BY <1>7, <3>1
    <3> QED  BY <2>1, <3>1, <3>2
  <2>2. CASE ~(c < SongTracks)
    <3> DEFINE k == c - (SongTracks - 1)
    <3>1. k \in 0 .. N /\ k # 0 /\ (k - 1) + SongTracks = c /\ c - 1 \in D
          /\ (c - 1) - (SongTracks - 1) = k - 1
        BY <1>1, <2>2
    <3>2. h[c] = g[k] /\ h[c - 1] = g[k - 1]
        BY <3>1
    <3> HIDE DEF h, k, N
    <3> QED  BY <1>7, <2>2, <3>1, <3>2
  <2> QED  BY <2>1, <2>2
<1>9. h = [c \in D |-> IF c < SongTracks THEN {Mix} ELSE EventOn(h[c - 1], c)]
  <2>1. h = [c \in D |-> h[c]]
      OBVIOUS
  <2> HIDE DEF h, D
  <2> QED  BY <1>8, <2>1
<1> HIDE DEF h
<1>10. \E f : f = [c \in SongTracks - 1 .. NumTracks - 1 |->
           IF c < SongTracks THEN {Mix} ELSE EventOn(f[c - 1], c)]
    BY <1>9
<1> QED  BY <1>10 DEF Injected

LEMMA InjectKeeps ==
    ASSUME NnaNeedsVirtual, SmixInv, NEW m \in Injected[NumTracks - 1]
    PROVE  MixOK(m) /\ m.slot = slot
<1> DEFINE f == Injected
           N == NumTracks - SongTracks
           S == {k \in 0 .. N : f[k + (SongTracks - 1)] \in SUBSET Okay}
<1>1. N \in Nat /\ SongTracks \in Nat /\ NumTracks \in Nat
    BY SongTracksAssumption, TracksAssumption
<1>2. f = [c \in SongTracks - 1 .. NumTracks - 1 |->
             IF c < SongTracks THEN {Mix} ELSE EventOn(f[c - 1], c)]
    BY InjectedExists
<1> HIDE DEF f
<1>3. 0 \in S
  <2>1. 0 + (SongTracks - 1) \in SongTracks - 1 .. NumTracks - 1
        /\ 0 + (SongTracks - 1) < SongTracks /\ 0 \in 0 .. N
      BY <1>1
  <2>2. f[0 + (SongTracks - 1)] = {Mix}
      BY <1>2, <2>1
  <2>3. Mix \in Okay
      BY MixFields DEF Okay, SmixInv, MixOK
  <2> QED  BY <2>1, <2>2, <2>3
<1>4. ASSUME NEW k \in 0 .. N - 1, k \in S  PROVE k + 1 \in S
  <2> DEFINE c == (k + 1) + (SongTracks - 1)
  <2>1. c \in SongTracks - 1 .. NumTracks - 1 /\ ~(c < SongTracks)
        /\ c - 1 = k + (SongTracks - 1) /\ k + 1 \in 0 .. N /\ c \in Reserved
      BY <1>1 DEF Reserved
  <2>2. f[k + (SongTracks - 1)] \in SUBSET Okay
      BY <1>4
  <2> HIDE DEF c, N
  <2>3. f[c] = EventOn(f[c - 1], c)
      BY <1>2, <2>1
  <2>4. f[c - 1] \in SUBSET Okay
      BY <2>1, <2>2
  <2>5. EventOn(f[c - 1], c) \in SUBSET Okay
      BY <2>1, <2>4, EventOnKeeps DEF SmixInv
  <2> QED  BY <2>1, <2>3, <2>5 DEF c
<1>5. N \in S
  <2>1. 0 .. N \subseteq S
    <3> HIDE DEF S, N
    <3> QED  BY <1>1, <1>3, <1>4, UpTo
  <2> QED  BY <1>1, <2>1
<1>6. N + (SongTracks - 1) = NumTracks - 1
    BY <1>1
<1>7. f[NumTracks - 1] \in SUBSET Okay
    BY <1>5, <1>6
<1> QED  BY <1>7 DEF f, Okay

\* inject_event is as the fold over the reserved tracks says.
LEMMA InjectEventsPicks ==
    ASSUME InjectEvents
    PROVE  /\ \E m \in Injected[NumTracks - 1] : Becomes(m)
           /\ pending' = [c \in Reserved |-> NoEvent]
           /\ playing' = playing /\ open' = open
<1>1. \E m \in Injected[NumTracks - 1] : Becomes(m)
    BY DEF InjectEvents, Injected
<1>2. /\ pending' = [c \in Reserved |-> NoEvent]
      /\ playing' = playing /\ open' = open
    BY DEF InjectEvents
<1> QED  BY <1>1, <1>2

-----------------------------------------------------------------------------
(* The invariant                                                           *)

\* Every action ends with three new records.
LEMMA EndsIn ==
    ASSUME NEW m, MixOK(m), virt' = m.pool, sptr' = m.sptr, slot' = m.slot,
           playing' \in BOOLEAN, open' \in BOOLEAN,
           pending' \in [Reserved -> Events],
           ~playing' => Still(m)
    PROVE  SmixInv'
<1>1. m \in MixRec /\ PoolInv(m.pool) /\ ActsFit(m.pool)
    BY DEF MixOK
<1>2. Mix' = m
    BY <1>1 DEF Mix, MixRec
<1>3. MixOK(Mix')
    BY <1>2
<1>4. MixOK(Mix)'
    BY <1>3 DEF MixOK, MixRec, PoolInv, ActsFit, MapsAgreeIn, CountsAgreeIn,
                RootsAgreeIn, OwnedBy, Used, UsedPlay, PlayLoaded, SlotsDiffer
<1>5. (~playing => Still(Mix))'
    BY <1>2 DEF Still
<1> QED  BY <1>4, <1>5 DEF SmixInv

\* No voice in use: a player that was just started, ended or repositioned.
LEMMA AtRestKeeps ==
    ASSUME SmixInv, virt' = EmptyPool, sptr' = [v \in Voices |-> NULL],
           slot' = slot, playing' \in BOOLEAN, open' \in BOOLEAN,
           pending' \in [Reserved -> Events]
    PROVE  SmixInv'
<1> DEFINE s == EmptyPool
           sp == [v \in Voices |-> NULL]
           m == [pool |-> s, sptr |-> sp, slot |-> slot]
<1>1. PoolInv(s) /\ s \in PoolType
    BY EmptyPoolInv DEF PoolInv
<1>2. ActsFit(s) /\ \A v \in Voices : s.chn[v] = FREE
    BY DEF ActsFit, EmptyPool
<1>3. sp \in SptrType /\ \A v \in Voices : sp[v] = NULL
    BY DEF SptrType, Data
<1>4. slot \in SlotType /\ SlotsDiffer(Mix)
    BY MixFields DEF SmixInv, MixOK, MixRec
<1> HIDE DEF s, sp
<1>5. m.pool = s /\ m.sptr = sp /\ m.slot = slot /\ m \in MixRec
    BY <1>1, <1>3, <1>4 DEF MixRec
<1> HIDE DEF m
<1>6. UsedPlay(m) /\ Still(m)
    BY <1>2, <1>3, <1>5 DEF UsedPlay, Still
<1>7. PlayLoaded(m)
    BY <1>3, <1>5, MixFields DEF PlayLoaded
<1>8. SlotsDiffer(m)
    BY <1>4, <1>5, MixFields DEF SlotsDiffer
<1>9. MixOK(m)
    BY <1>1, <1>2, <1>5, <1>6, <1>7, <1>8 DEF MixOK
<1> QED  BY <1>5, <1>6, <1>9, EndsIn DEF s, sp

\* A caller who knows its slots: what MayRelease allows can be released.
LEMMA MayReleaseFits ==
    ASSUME ~ReleasesEmpty, SmixInv, NEW n \in Slots, MayRelease(n)
    PROVE  Releasable(Mix, n)
BY MixFields DEF MayRelease, Releasable, SmixInv

LEMMA SmixStep ==
    ASSUME NnaNeedsVirtual, ~ReleasesEmpty, SmixInv, [SmixNext]_smixVars
    PROVE  SmixInv'
<1>0. /\ MixOK(Mix) /\ virt \in PoolType /\ playing \in BOOLEAN /\ open \in BOOLEAN
      /\ pending \in [Reserved -> Events] /\ (~playing => Still(Mix))
    BY MixFields DEF SmixInv, MixOK, MixRec
<1>1. ASSUME NEW m, UpToSlot(m, NumSlots), Becomes(m),
             playing' = playing, open' \in BOOLEAN, pending' = pending
      PROVE  SmixInv'
    BY <1>0, <1>1, EndsIn DEF Becomes, UpToSlot
<1>2. CASE StartSmix
  <2>1. UpToSlot(ReleaseAll, NumSlots)
      BY <1>2, ReleaseAllKeeps DEF StartSmix
  <2> QED  BY <1>1, <1>2, <2>1 DEF StartSmix
<1>3. CASE EndSmix
  <2>1. UpToSlot(ReleaseAll, NumSlots)
      BY <1>3, ReleaseAllKeeps DEF EndSmix, MayRelease
  <2> QED  BY <1>1, <1>3, <2>1 DEF EndSmix
<1>4. ASSUME NEW n \in Slots, LoadSample(n)  PROVE SmixInv'
  <2>1. PICK m \in Loaded(Mix, n) : Becomes(m)
      BY <1>4 DEF LoadSample
  <2>2. MixOK(m) /\ (~playing => Still(m))
      BY <1>0, <1>4, <2>1, MayReleaseFits, LoadedKeeps DEF LoadSample
  <2> QED  BY <1>0, <1>4, <2>1, <2>2, EndsIn DEF LoadSample, Becomes
<1>5. ASSUME NEW n \in Slots, ReleaseSample(n)  PROVE SmixInv'
  <2> DEFINE m == Release(Mix, n)
  <2>1. MixOK(m) /\ (~playing => Still(m))
      BY <1>0, <1>5, MayReleaseFits, ReleaseKeeps DEF ReleaseSample
  <2> HIDE DEF m
  <2>2. Becomes(m)
      BY <1>5 DEF ReleaseSample, m
  <2> QED  BY <1>0, <1>5, <2>1, <2>2, EndsIn DEF ReleaseSample, Becomes
<1>6. ASSUME NEW c \in Reserved, NEW e \in ValidSlots \cup {SONG, KEY_CUT},
             PlaySmix(c, e)
      PROVE  SmixInv'
  <2>1. pending' \in [Reserved -> Events]
      BY <1>0, <1>6 DEF PlaySmix, Events, ValidSlots, Slots
  <2> QED  BY <1>0, <1>6, <2>1, MixFields, EndsIn DEF PlaySmix
<1>7. CASE StartPlayer
    BY <1>0, <1>7, AtRestKeeps DEF StartPlayer
<1>8. CASE EndPlayer
    BY <1>0, <1>8, AtRestKeeps DEF EndPlayer
<1>9. CASE InjectEvents
  <2>1. /\ \E m \in Injected[NumTracks - 1] : Becomes(m)
        /\ pending' = [c \in Reserved |-> NoEvent]
        /\ playing' = playing /\ open' = open
      BY <1>9, InjectEventsPicks
  <2>2. PICK m \in Injected[NumTracks - 1] : Becomes(m)
      BY <2>1
  <2>3. MixOK(m) /\ playing
      BY <1>9, <2>2, InjectKeeps DEF InjectEvents
  <2>4. pending' \in [Reserved -> Events]
      BY <2>1 DEF Events
  <2> QED  BY <1>0, <2>1, <2>2, <2>3, <2>4, EndsIn DEF Becomes
<1>10. ASSUME NEW t \in 0 .. SongTracks - 1, NEW in \in Instruments, NEW nna \in Nnas,
              SongNote(t, in, nna)
       PROVE  SmixInv'
  <2>1. PICK m \in Start(Mix, t, in, nna, SONG) : Becomes(m)
      BY <1>10 DEF SongNote
  <2>2. t \in Tracks /\ SONG \in Blocks \cup {SONG} /\ SONG \notin Blocks
      BY MixFields
  <2>3. MixOK(m)
      BY <1>0, <2>1, <2>2, StartKeeps
  <2> QED  BY <1>0, <1>10, <2>1, <2>3, EndsIn DEF SongNote, Becomes
<1>11. ASSUME NEW v \in Voices, VoiceEnds(v)  PROVE SmixInv'
  <2> DEFINE R == {v}
             m == Silence(Mix, R)
  <2>1. R \in SUBSET Used(Mix.pool)
      BY <1>11, MixFields DEF VoiceEnds, Used
  <2>2. Becomes(m)
      BY <1>11 DEF VoiceEnds
  <2> HIDE DEF R
  <2>3. MixOK(m)
      BY <1>0, <2>1, SilenceKeeps
  <2> HIDE DEF m
  <2> QED  BY <1>0, <1>11, <2>2, <2>3, EndsIn DEF VoiceEnds, Becomes
<1>12. CASE Reposition
  <2>1. virt' = EmptyPool
      BY <1>0, <1>12, VirtResetEmpties DEF Reposition
  <2> QED  BY <1>0, <1>12, <2>1, AtRestKeeps DEF Reposition
<1>13. CASE UNCHANGED smixVars
    BY <1>0, <1>13, MixFields, EndsIn DEF smixVars
<1> QED  BY <1>2, <1>3, <1>4, <1>5, <1>6, <1>7, <1>8, <1>9, <1>10, <1>11, <1>12, <1>13
         DEF SmixNext

-----------------------------------------------------------------------------
(* The theorems                                                            *)

\* Voices, what they play and the slots belong together, forever.
THEOREM SmixInvariantHolds ==
    ASSUME NnaNeedsVirtual, ~ReleasesEmpty
    PROVE  SmixSpec => []SmixInv
<1>1. SmixInit => SmixInv
  <2> SUFFICES ASSUME SmixInit  PROVE SmixInv
      OBVIOUS
  <2>1. PoolInv(virt) /\ ActsFit(virt) /\ virt \in PoolType
        /\ \A v \in Voices : virt.chn[v] = FREE
    <3>1. virt = EmptyPool
        BY DEF SmixInit, Init
    <3>2. ActsFit(EmptyPool) /\ \A v \in Voices : EmptyPool.chn[v] = FREE
        BY DEF ActsFit, EmptyPool
    <3> QED  BY <3>1, <3>2, EmptyPoolInv DEF PoolInv
  <2>2. slot \in SlotType /\ sptr \in SptrType
        /\ (\A n \in Slots : slot[n] = NULL) /\ (\A v \in Voices : sptr[v] = NULL)
      BY DEF SmixInit, SlotType, SptrType, Data
  <2>3. Mix \in MixRec
      BY <2>1, <2>2 DEF Mix, MixRec
  <2>4. UsedPlay(Mix) /\ PlayLoaded(Mix) /\ SlotsDiffer(Mix) /\ Still(Mix)
      BY <2>1, <2>2, MixFields DEF UsedPlay, PlayLoaded, SlotsDiffer, Still
  <2>5. pending \in [Reserved -> Events] /\ playing \in BOOLEAN /\ open \in BOOLEAN
      BY DEF SmixInit, Events
  <2> QED  BY <2>1, <2>3, <2>4, <2>5, MixFields DEF SmixInv, MixOK
<1>2. SmixInv /\ [SmixNext]_smixVars => SmixInv'
    BY SmixStep
<1> QED  BY <1>1, <1>2, PTL DEF SmixSpec

\* Whatever is loaded, released or given up, and whenever the player starts or
\* ends: a voice has a sample exactly while it is in use, and that sample was
\* not freed.
THEOREM VoicesAlwaysPlayLoaded ==
    ASSUME NnaNeedsVirtual, ~ReleasesEmpty
    PROVE  SmixSpec => []VoicesPlayLoaded
<1>1. SmixInv => VoicesPlayLoaded
  <2> SUFFICES ASSUME SmixInv  PROVE VoicesPlayLoaded
      OBVIOUS
  <2>1. SmixTypeOK
      BY MixFields DEF SmixInv, MixOK, MixRec, SmixTypeOK, Events, SlotType,
                       SptrType, Data
  <2> QED  BY <2>1, MixFields
           DEF SmixInv, MixOK, UsedPlay, PlayLoaded, VoicesPlayLoaded
<1> QED  BY <1>1, SmixInvariantHolds, PTL

\* The counters of the pool stay right under sound effects, as long as no empty
\* slot is released while the player runs.
THEOREM CountsAgreeWithEffects ==
    ASSUME NnaNeedsVirtual, ~ReleasesEmpty
    PROVE  SmixSpec => []CountsAgree
<1>1. SmixInv => CountsAgree
    BY MixFields DEF SmixInv, MixOK, PoolInv, CountsAgree
<1> QED  BY <1>1, SmixInvariantHolds, PTL

\* Slots that change stop the voices that play from them and no others.
THEOREM OthersAlwaysPlayOn ==
    ASSUME NnaNeedsVirtual, ~ReleasesEmpty
    PROVE  SmixSpec => OthersPlayOn
<1>1. SmixInv /\ [SmixNext]_smixVars =>
        [slot' # slot =>
            \A v \in Voices :
                /\ sptr[v] # NULL
                /\ sptr[v] \in Blocks =>
                      \E n \in Slots : slot[n] = sptr[v] /\ slot'[n] = slot[n]
                => virt'.chn[v] = virt.chn[v] /\ sptr'[v] = sptr[v]]_smixVars
  <2> SUFFICES ASSUME SmixInv, SmixNext, slot' # slot, NEW v \in Voices,
                      sptr[v] # NULL,
                      sptr[v] \in Blocks =>
                         \E n \in Slots : slot[n] = sptr[v] /\ slot'[n] = slot[n]
               PROVE  virt'.chn[v] = virt.chn[v] /\ sptr'[v] = sptr[v]
      BY DEF smixVars
  <2>0. /\ MixOK(Mix) /\ slot \in SlotType /\ sptr[v] \in Data /\ playing
    <3>1. MixOK(Mix) /\ slot \in SlotType /\ sptr \in SptrType
        BY MixFields DEF SmixInv, MixOK, MixRec
    <3>2. playing
        BY MixFields DEF SmixInv, MixOK, UsedPlay, Still
    <3> QED  BY <3>1, <3>2 DEF SptrType
  <2>1. CASE EndSmix
    <3>1. UpToSlot(ReleaseAll, NumSlots)
        BY <2>1, ReleaseAllKeeps DEF EndSmix, MayRelease
    <3>2. slot' = ReleaseAll.slot /\ virt' = ReleaseAll.pool /\ sptr' = ReleaseAll.sptr
        BY <2>1 DEF EndSmix, Becomes
    <3>3. \A n \in Slots : slot'[n] = NULL
      <4>1. \A n \in Slots : n < NumSlots
          BY SlotsAssumption DEF Slots
      <4>2. \A n \in Slots : ReleaseAll.slot[n] = IF n < NumSlots THEN NULL ELSE slot[n]
          BY <3>1 DEF UpToSlot
      <4> QED  BY <3>2, <4>1, <4>2
    <3>4. sptr[v] = SONG
        BY <2>0, <3>3, MixFields DEF Data
    <3> QED  BY <3>1, <3>2, <3>4 DEF UpToSlot
  <2>2. ASSUME NEW n \in Slots, NEW m, Becomes(m), m.slot \in SlotType,
               \A k \in Slots \ {n} : m.slot[k] = slot[k],
               \A w \in Voices : sptr[w] # slot[n] =>
                  m.sptr[w] = sptr[w] /\ m.pool.chn[w] = virt.chn[w]
        PROVE  virt'.chn[v] = virt.chn[v] /\ sptr'[v] = sptr[v]
    <3>1. sptr[v] # slot[n]
      <4>1. SUFFICES ASSUME sptr[v] = slot[n]  PROVE FALSE
          OBVIOUS
      <4>2. slot[n] \in Blocks
          BY <2>0, <4>1 DEF SlotType
      <4>3. PICK k \in Slots : slot[k] = sptr[v] /\ slot'[k] = slot[k]
          BY <4>1, <4>2
      <4>4. k = n
          BY <2>0, <4>1, <4>2, <4>3, MixFields DEF MixOK, SlotsDiffer
      <4>5. \A j \in Slots : slot'[j] = slot[j]
          BY <2>2, <4>3, <4>4 DEF Becomes
      <4> QED  BY <2>0, <2>2, <4>5 DEF SlotType, Becomes
    <3> QED  BY <2>2, <3>1 DEF Becomes
  <2>3. ASSUME NEW n \in Slots, LoadSample(n)
        PROVE  virt'.chn[v] = virt.chn[v] /\ sptr'[v] = sptr[v]
    <3>1. PICK m \in Loaded(Mix, n) : Becomes(m)
        BY <2>3 DEF LoadSample
    <3>2. /\ MixOK(m)
          /\ \A k \in Slots \ {n} : m.slot[k] = Mix.slot[k]
          /\ \A w \in Voices : Mix.sptr[w] # Mix.slot[n] =>
                m.sptr[w] = Mix.sptr[w] /\ m.pool.chn[w] = Mix.pool.chn[w]
        BY <2>0, <2>3, <3>1, MayReleaseFits, LoadedKeeps DEF LoadSample
    <3>3. m.slot \in SlotType
        BY <3>2 DEF MixOK, MixRec
    <3> QED  BY <2>2, <3>1, <3>2, <3>3, MixFields
  <2>4. ASSUME NEW n \in Slots, ReleaseSample(n)
        PROVE  virt'.chn[v] = virt.chn[v] /\ sptr'[v] = sptr[v]
    <3> DEFINE m == Release(Mix, n)
    <3>1. Becomes(m)
        BY <2>4 DEF ReleaseSample
    <3>2. /\ MixOK(m)
          /\ \A k \in Slots : m.slot[k] = IF k = n THEN NULL ELSE Mix.slot[k]
          /\ \A w \in Voices : Mix.sptr[w] # Mix.slot[n] =>
                m.sptr[w] = Mix.sptr[w] /\ m.pool.chn[w] = Mix.pool.chn[w]
        BY <2>0, <2>4, MayReleaseFits, ReleaseKeeps DEF ReleaseSample
    <3> HIDE DEF m
    <3>3. m.slot \in SlotType
        BY <3>2 DEF MixOK, MixRec
    <3> QED  BY <2>2, <3>1, <3>2, <3>3, MixFields
  <2>5. CASE StartSmix
      BY <2>0, <2>5 DEF StartSmix
  <2>6. ASSUME NEW c \in Reserved, NEW e \in ValidSlots \cup {SONG, KEY_CUT},
               PlaySmix(c, e)
        PROVE  FALSE
      BY <2>6 DEF PlaySmix
  <2>7. CASE StartPlayer
      BY <2>7 DEF StartPlayer
  <2>8. CASE EndPlayer
      BY <2>8 DEF EndPlayer
  <2>9. CASE InjectEvents
    <3>1. PICK m \in Injected[NumTracks - 1] : Becomes(m)
        BY <2>9, InjectEventsPicks
    <3>2. m.slot = slot
        BY <3>1, InjectKeeps
    <3> QED  BY <3>1, <3>2 DEF Becomes
  <2>10. ASSUME NEW t \in 0 .. SongTracks - 1, NEW in \in Instruments,
                NEW nna \in Nnas, SongNote(t, in, nna)
         PROVE  FALSE
    <3>1. PICK m \in Start(Mix, t, in, nna, SONG) : Becomes(m)
        BY <2>10 DEF SongNote
    <3>2. t \in Tracks /\ SONG \in Blocks \cup {SONG} /\ SONG \notin Blocks
        BY MixFields
    <3>3. m.slot = Mix.slot
        BY <2>0, <3>1, <3>2, StartKeeps
    <3> QED  BY <3>1, <3>3, MixFields DEF Becomes
  <2>11. ASSUME NEW w \in Voices, VoiceEnds(w)  PROVE FALSE
    <3>1. {w} \in SUBSET Voices /\ Mix \in MixRec
        BY <2>0 DEF MixOK
    <3>2. Silence(Mix, {w}).slot = Mix.slot
        BY <3>1, SilenceFields
    <3> QED  BY <2>11, <3>2, MixFields DEF VoiceEnds, Becomes
  <2>12. CASE Reposition
      BY <2>12 DEF Reposition
  <2> QED  BY <2>1, <2>3, <2>4, <2>5, <2>6, <2>7, <2>8, <2>9, <2>10, <2>11, <2>12
           DEF SmixNext
<1> QED  BY <1>1, SmixInvariantHolds, PTL DEF SmixSpec, OthersPlayOn
=============================================================================
