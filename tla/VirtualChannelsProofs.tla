------------------------ MODULE VirtualChannelsProofs ------------------------
(***************************************************************************)
(* For every number of tracks and voices: the four records of the voice    *)
(* pool agree after every call of the virtual channel manager, provided    *)
(* notes are only pushed aside when there are virtual channels to push     *)
(* them to (NnaNeedsVirtual).  Without that proviso the theorems are       *)
(* false: in sample mode a note action moves the old voice all the same.   *)
(*                                                                         *)
(* The second part is about what one call may do to the notes that sound.  *)
(* Each call either silences some voices (Stopped) or starts one note      *)
(* (Starts): it silences duplicates of the new note, picks a voice that    *)
(* fits (Fits), and leaves the other voices alone but for the track's old  *)
(* one (Placed).  That the quietest note is stolen, that no foreground     *)
(* note is, and that the pool implements VoicePool follow from this shape  *)
(* and the agreement of the records.                                       *)
(***************************************************************************)
EXTENDS VirtualChannelsRefinement, FiniteSetTheorems, TLAPS

\* New note actions are used with virtual channels only.
NnaNeedsVirtual == Virtual \/ Nnas = {CUT}

\* Without virtual channels no voice is marked to be kept.
ActsFit(s) == Virtual \/ \A v \in Voices : s.act[v] = CUT

\* What every call preserves.
PoolInv(s) ==
    /\ s \in PoolType
    /\ MapsAgreeIn(s)
    /\ CountsAgreeIn(s)
    /\ RootsAgreeIn(s)

IInv == PoolInv(virt) /\ ActsFit(virt)

-----------------------------------------------------------------------------
(* Sizes and sets                                                          *)

\* The sizes libxmp_virt_on computes, and where tracks, background channels
\* and voices lie among them.
LEMMA Sizes ==
    /\ MaxVoc \in Nat \ {0}
    /\ VirtChannels \in Nat \ {0}
    /\ NumTracks \in Nat \ {0}
    /\ NumTracks <= VirtChannels
    /\ Tracks \subseteq Channels
    /\ FREE \notin Channels
    /\ FREE \notin Voices
    /\ FREE \notin Tracks
    /\ Voices \subseteq Int
    /\ Channels \subseteq Int
    /\ FREE \in Int
    /\ Virtual => MaxVoc = NumVoc /\ VirtChannels = NumTracks + NumVoc
BY TracksAssumption, VoicesAssumption, VirtualAssumption
   DEF MaxVoc, VirtChannels, Tracks, Channels, Voices, FREE

\* There are MaxVoc voices.
LEMMA VoicesFinite == IsFiniteSet(Voices) /\ Cardinality(Voices) = MaxVoc
<1>1. MaxVoc \in Int /\ MaxVoc - 1 \in Int /\ 0 \in Int /\ MaxVoc > 0
    BY Sizes
<1>2. /\ IsFiniteSet(0 .. MaxVoc - 1)
      /\ Cardinality(0 .. MaxVoc - 1)
           = IF 0 > MaxVoc - 1 THEN 0 ELSE (MaxVoc - 1) - 0 + 1
    BY <1>1, FS_Interval
<1> QED  BY <1>1, <1>2 DEF Voices

\* With virtual channels there are as many background channels as voices.
LEMMA BackgroundSize ==
    ASSUME Virtual
    PROVE  IsFiniteSet(Background) /\ Cardinality(Background) = MaxVoc
<1>1. Background = NumTracks .. VirtChannels - 1
    BY Sizes DEF Background, Channels, Tracks
<1>2. /\ NumTracks \in Int /\ VirtChannels - 1 \in Int
      /\ VirtChannels = NumTracks + MaxVoc /\ MaxVoc \in Nat \ {0}
    BY Sizes
<1>3. /\ IsFiniteSet(NumTracks .. VirtChannels - 1)
      /\ Cardinality(NumTracks .. VirtChannels - 1)
           = IF NumTracks > VirtChannels - 1 THEN 0
             ELSE (VirtChannels - 1) - NumTracks + 1
    BY <1>2, FS_Interval
<1> QED  BY <1>1, <1>2, <1>3

\* A set of voices is finite; taking some away subtracts their number.
LEMMA VoiceSets ==
    ASSUME NEW S \in SUBSET Voices, NEW T \in SUBSET S
    PROVE  /\ IsFiniteSet(S) /\ IsFiniteSet(T)
           /\ Cardinality(S) \in 0 .. MaxVoc
           /\ Cardinality(T) \in Nat
           /\ Cardinality(S \ T) = Cardinality(S) - Cardinality(T)
<1>1. IsFiniteSet(S) /\ Cardinality(S) <= MaxVoc
    BY VoicesFinite, FS_Subset
<1>2. IsFiniteSet(T)
    BY <1>1, FS_Subset
<1>3. Cardinality(S) \in Nat /\ Cardinality(T) \in Nat /\ MaxVoc \in Nat
    BY <1>1, <1>2, FS_CardinalityType, Sizes
<1>4. Cardinality(S \ T) = Cardinality(S) - Cardinality(S \cap T)
    BY <1>1, FS_Difference
<1>5. Cardinality(S \cap T) = Cardinality(T)
  <2>1. S \cap T = T
      OBVIOUS
  <2> QED  BY <2>1
<1>6. Cardinality(S) \in 0 .. MaxVoc
    BY <1>1, <1>3
<1> QED  BY <1>1, <1>2, <1>3, <1>4, <1>5, <1>6

\* Adding a voice to a set of voices.
LEMMA AddVoice ==
    ASSUME NEW S \in SUBSET Voices, NEW v \in Voices, v \notin S
    PROVE  Cardinality(S \cup {v}) = Cardinality(S) + 1
<1>1. IsFiniteSet(S)
    BY VoicesFinite, FS_Subset
<1> QED  BY <1>1, FS_AddElement

-----------------------------------------------------------------------------
(* The building blocks of the calls preserve the invariant                 *)

\* The empty pool, which libxmp_virt_on and libxmp_virt_reset leave behind.
LEMMA EmptyPoolInv == PoolInv(EmptyPool)
<1>1. EmptyPool \in PoolType
    BY Sizes, LevelsAssumption DEF EmptyPool, PoolType, Acts
<1>2. MapsAgreeIn(EmptyPool)
    BY Sizes DEF EmptyPool, MapsAgreeIn
<1>3. \A c \in Channels : OwnedBy(EmptyPool, c) = {}
    BY Sizes DEF EmptyPool, OwnedBy
<1>4. Used(EmptyPool) = {}
    BY DEF EmptyPool, Used
<1>5. CountsAgreeIn(EmptyPool)
    BY <1>3, <1>4, FS_EmptySet DEF EmptyPool, CountsAgreeIn
<1>6. RootsAgreeIn(EmptyPool)
    BY Sizes DEF EmptyPool, RootsAgreeIn
<1> QED  BY <1>1, <1>2, <1>5, <1>6 DEF PoolInv

\* libxmp_virt_reset leaves the pool as libxmp_virt_on made it.
LEMMA VirtResetEmpties ==
    ASSUME NEW s \in PoolType
    PROVE  VirtReset(s) = EmptyPool
<1> DEFINE free == [v \in Voices |-> FREE]
           zero == [v \in Voices |-> 0]
           cut  == [v \in Voices |-> CUT]
           map  == [c \in Channels |-> FREE]
           none == [c \in Channels |-> 0]
<1>1. VirtReset(s) = [s EXCEPT !.chn = free, !.root = free, !.vol = zero, !.act = cut,
                               !.ins = zero, !.map = map, !.count = none, !.used = 0]
    BY DEF VirtReset
<1>2. EmptyPool = [chn |-> free, root |-> free, vol |-> zero, act |-> cut,
                   ins |-> zero, map |-> map, count |-> none, used |-> 0]
    BY DEF EmptyPool
<1> HIDE DEF free, zero, cut, map, none
<1> QED  BY <1>1, <1>2 DEF PoolType

\* A pool that differs from a good one in volumes, instruments and actions
\* only is a good one.
LEMMA SameBooks ==
    ASSUME NEW s, NEW u, PoolInv(s), u \in PoolType,
           u.chn = s.chn, u.root = s.root, u.map = s.map,
           u.count = s.count, u.used = s.used
    PROVE  PoolInv(u)
BY DEF PoolInv, MapsAgreeIn, CountsAgreeIn, RootsAgreeIn, OwnedBy, Used

\* What libxmp_virt_resetvoice leaves of each field.
LEMMA ResetVoicesFields ==
    ASSUME NEW s \in PoolType, NEW R \in SUBSET Voices
    PROVE  LET u == ResetVoices(s, R)
           IN  /\ u \in PoolType
               /\ \A v \in Voices :
                     /\ u.chn[v] = IF v \in R THEN FREE ELSE s.chn[v]
                     /\ u.root[v] = IF v \in R THEN FREE ELSE s.root[v]
                     /\ u.act[v] = IF v \in R THEN CUT ELSE s.act[v]
               /\ \A c \in Channels :
                     /\ u.map[c] = IF \E v \in R : s.chn[v] = c
                                   THEN FREE ELSE s.map[c]
                     /\ u.count[c] = s.count[c]
                                     - Cardinality({v \in R : s.root[v] = c})
               /\ u.used = s.used - Cardinality(R)
<1> DEFINE chn   == [v \in Voices |-> IF v \in R THEN FREE ELSE s.chn[v]]
           root  == [v \in Voices |-> IF v \in R THEN FREE ELSE s.root[v]]
           vol   == [v \in Voices |-> IF v \in R THEN 0 ELSE s.vol[v]]
           act   == [v \in Voices |-> IF v \in R THEN CUT ELSE s.act[v]]
           ins   == [v \in Voices |-> IF v \in R THEN 0 ELSE s.ins[v]]
           map   == [c \in Channels |-> IF \E v \in R : s.chn[v] = c
                                        THEN FREE ELSE s.map[c]]
           count == [c \in Channels |-> s.count[c]
                                - Cardinality({v \in R : s.root[v] = c})]
           used  == s.used - Cardinality(R)
<1>1. ResetVoices(s, R) = [chn |-> chn, root |-> root, vol |-> vol, act |-> act,
                           ins |-> ins, map |-> map, count |-> count,
                           used |-> used]
  <2>1. /\ Unlink(s, R).map = map
        /\ Unlink(s, R).count = count
        /\ Unlink(s, R).used = used
      BY DEF Unlink, PoolType
  <2> QED  BY <2>1 DEF ResetVoices
<1>2. \A T \in SUBSET R : Cardinality(T) \in Int
  <2>1. ASSUME NEW T \in SUBSET R  PROVE Cardinality(T) \in Nat
      BY VoiceSets
  <2> QED  BY <2>1
<1>3. count \in [Channels -> Int] /\ used \in Int
  <2>1. \A c \in Channels : Cardinality({v \in R : s.root[v] = c}) \in Int
      BY <1>2
  <2> QED  BY <2>1, <1>2 DEF PoolType
<1>4. /\ chn \in [Voices -> Channels \cup {FREE}]
      /\ root \in [Voices -> Tracks \cup {FREE}]
      /\ map \in [Channels -> Voices \cup {FREE}]
    BY DEF PoolType
<1>5. /\ vol \in [Voices -> Levels]
      /\ act \in [Voices -> Acts]
      /\ ins \in [Voices -> Instruments \cup {0}]
    BY LevelsAssumption DEF PoolType, Acts
<1> HIDE DEF chn, root, vol, act, ins, map, count, used
<1>6. ResetVoices(s, R) \in PoolType
    BY <1>1, <1>3, <1>4, <1>5 DEF PoolType
<1> QED  BY <1>1, <1>6 DEF chn, root, vol, act, ins, map, count, used

\* Silencing voices in use keeps the four records in agreement.
LEMMA ResetVoicesInv ==
    ASSUME NEW s, PoolInv(s), NEW R \in SUBSET Used(s)
    PROVE  PoolInv(ResetVoices(s, R))
<1> DEFINE u == ResetVoices(s, R)
<1>0. s \in PoolType /\ R \in SUBSET Voices
    BY DEF PoolInv, Used
<1>1. /\ u \in PoolType
      /\ \A v \in Voices :
            /\ u.chn[v] = IF v \in R THEN FREE ELSE s.chn[v]
            /\ u.root[v] = IF v \in R THEN FREE ELSE s.root[v]
            /\ u.act[v] = IF v \in R THEN CUT ELSE s.act[v]
      /\ \A c \in Channels :
            /\ u.map[c] = IF \E v \in R : s.chn[v] = c
                          THEN FREE ELSE s.map[c]
            /\ u.count[c] = s.count[c]
                            - Cardinality({v \in R : s.root[v] = c})
      /\ u.used = s.used - Cardinality(R)
    BY <1>0, ResetVoicesFields
<1> HIDE DEF u
<1>2. MapsAgreeIn(u)
  <2>1. SUFFICES ASSUME NEW c \in Channels, NEW v \in Voices
                 PROVE  u.map[c] = v <=> u.chn[v] = c
      BY DEF MapsAgreeIn
  <2>2. s.map[c] = v <=> s.chn[v] = c
      BY DEF PoolInv, MapsAgreeIn
  <2>3. v # FREE /\ c # FREE
      BY Sizes
  <2>4. u.chn[v] = IF v \in R THEN FREE ELSE s.chn[v]
      BY <1>1
  <2>5. u.map[c] = IF \E r \in R : s.chn[r] = c THEN FREE ELSE s.map[c]
      BY <1>1
  <2>6. ASSUME NEW r \in R, s.chn[r] = c  PROVE s.map[c] = r
      BY <1>0, <2>6 DEF PoolInv, MapsAgreeIn
  <2> QED  BY <2>2, <2>3, <2>4, <2>5, <2>6
<1>3. RootsAgreeIn(u)
  <2>1. \A v \in Voices : /\ u.chn[v] = IF v \in R THEN FREE ELSE s.chn[v]
                         /\ u.root[v] = IF v \in R THEN FREE ELSE s.root[v]
      BY <1>1
  <2> QED  BY <2>1, Sizes DEF PoolInv, RootsAgreeIn
<1>5. CountsAgreeIn(u)
  <2>1. ASSUME NEW c \in Channels
        PROVE  u.count[c] = Cardinality(OwnedBy(u, c))
    <3> DEFINE T == {v \in R : s.root[v] = c}
    <3>1. OwnedBy(u, c) = OwnedBy(s, c) \ T
      <4>1. \A v \in Voices : u.root[v] = IF v \in R THEN FREE ELSE s.root[v]
          BY <1>1
      <4>2. c # FREE
          BY Sizes
      <4> QED  BY <4>1, <4>2 DEF OwnedBy
    <3>2. T \in SUBSET OwnedBy(s, c) /\ OwnedBy(s, c) \in SUBSET Voices
        BY <1>0 DEF OwnedBy
    <3>3. Cardinality(OwnedBy(s, c) \ T) = Cardinality(OwnedBy(s, c)) - Cardinality(T)
        BY <3>2, VoiceSets
    <3>4. s.count[c] = Cardinality(OwnedBy(s, c))
        BY DEF PoolInv, CountsAgreeIn
    <3> QED  BY <1>1, <3>1, <3>3, <3>4
  <2>2. u.used = Cardinality(Used(u))
    <3>1. Used(u) = Used(s) \ R
      <4>1. \A v \in Voices : u.chn[v] = IF v \in R THEN FREE ELSE s.chn[v]
          BY <1>1
      <4> QED  BY <4>1 DEF Used
    <3>2. Used(s) \in SUBSET Voices
        BY DEF Used
    <3>3. Cardinality(Used(s) \ R) = Cardinality(Used(s)) - Cardinality(R)
        BY <3>2, VoiceSets
    <3>4. s.used = Cardinality(Used(s))
        BY DEF PoolInv, CountsAgreeIn
    <3> QED  BY <1>1, <3>1, <3>3, <3>4
  <2> QED  BY <2>1, <2>2 DEF CountsAgreeIn
<1>6. PoolInv(u)
    BY <1>1, <1>2, <1>3, <1>5 DEF PoolInv
<1> QED  BY <1>6 DEF u

\* What giving voice i to track t changes.
LEMMA ClaimFields ==
    ASSUME NEW s \in PoolType, NEW i \in Voices, NEW t \in Tracks
    PROVE  LET u == Claim(s, i, t)
           IN  /\ \A v \in Voices :
                     /\ u.chn[v] = IF v = i THEN t ELSE s.chn[v]
                     /\ u.root[v] = IF v = i THEN t ELSE s.root[v]
               /\ \A c \in Channels :
                     /\ u.map[c] = IF c = t THEN i ELSE s.map[c]
                     /\ u.count[c] = s.count[c] + (IF c = t THEN 1 ELSE 0)
               /\ u.used = s.used + 1
               /\ u.vol = s.vol /\ u.act = s.act /\ u.ins = s.ins
               /\ u \in PoolType
<1> DEFINE u == Claim(s, i, t)
<1> DEFINE chn   == [s.chn EXCEPT ![i] = t]
           root  == [s.root EXCEPT ![i] = t]
           map   == [s.map EXCEPT ![t] = i]
           count == [s.count EXCEPT ![t] = s.count[t] + 1]
           used  == s.used + 1
<1>1. u = [s EXCEPT !.chn = chn, !.root = root, !.map = map,
                    !.count = count, !.used = used]
    BY DEF Claim
<1>2. /\ chn \in [Voices -> Channels \cup {FREE}]
      /\ root \in [Voices -> Tracks \cup {FREE}]
      /\ map \in [Channels -> Voices \cup {FREE}]
      /\ count \in [Channels -> Int]
      /\ used \in Int
    BY Sizes DEF PoolType
<1> HIDE DEF chn, root, map, count, used
<1>3. /\ u.chn = chn /\ u.root = root /\ u.map = map /\ u.count = count
      /\ u.used = used
      /\ u.vol = s.vol /\ u.act = s.act /\ u.ins = s.ins
      /\ u \in PoolType
    BY Sizes, <1>1, <1>2 DEF PoolType
<1> HIDE DEF u
<1>4. \A v \in Voices : /\ chn[v] = IF v = i THEN t ELSE s.chn[v]
                       /\ root[v] = IF v = i THEN t ELSE s.root[v]
    BY DEF chn, root, PoolType
<1>5. \A c \in Channels : /\ map[c] = IF c = t THEN i ELSE s.map[c]
                         /\ count[c] = s.count[c] + (IF c = t THEN 1 ELSE 0)
    BY Sizes DEF map, count, PoolType
<1>6. used = s.used + 1
    BY DEF used
<1> QED  BY <1>3, <1>4, <1>5, <1>6 DEF u

\* Giving a free voice to a track that steers none keeps them in agreement.
LEMMA ClaimInv ==
    ASSUME NEW s, PoolInv(s), NEW i \in Voices, NEW t \in Tracks,
           s.chn[i] = FREE, s.map[t] = FREE
    PROVE  PoolInv(Claim(s, i, t))
<1> DEFINE u == Claim(s, i, t)
<1>0. s \in PoolType /\ t \in Channels
    BY Sizes DEF PoolInv
<1>1. /\ \A v \in Voices :
            /\ u.chn[v] = IF v = i THEN t ELSE s.chn[v]
            /\ u.root[v] = IF v = i THEN t ELSE s.root[v]
      /\ \A c \in Channels :
            /\ u.map[c] = IF c = t THEN i ELSE s.map[c]
            /\ u.count[c] = s.count[c] + (IF c = t THEN 1 ELSE 0)
      /\ u.used = s.used + 1
      /\ u \in PoolType
    BY <1>0, ClaimFields
<1> HIDE DEF u
<1>2. MapsAgreeIn(u)
    BY <1>0, <1>1, Sizes DEF PoolInv, MapsAgreeIn, PoolType
<1>3. RootsAgreeIn(u)
    BY <1>0, <1>1, Sizes DEF PoolInv, RootsAgreeIn, PoolType
<1>5. s.root[i] = FREE
    BY DEF PoolInv, RootsAgreeIn, PoolType
<1>6. CountsAgreeIn(u)
  <2>1. ASSUME NEW c \in Channels
        PROVE  u.count[c] = Cardinality(OwnedBy(u, c))
    <3>0. s.count[c] = Cardinality(OwnedBy(s, c))
        BY DEF PoolInv, CountsAgreeIn
    <3>1. CASE c = t
      <4>1. OwnedBy(u, c) = OwnedBy(s, c) \cup {i}
          BY <1>0, <1>1, <3>1 DEF OwnedBy, PoolType
      <4>2. i \notin OwnedBy(s, c) /\ OwnedBy(s, c) \in SUBSET Voices
          BY <1>5, Sizes DEF OwnedBy
      <4>3. Cardinality(OwnedBy(s, c) \cup {i}) = Cardinality(OwnedBy(s, c)) + 1
          BY <4>2, AddVoice
      <4> QED  BY <1>0, <1>1, <3>0, <3>1, <4>1, <4>3 DEF PoolType
    <3>2. CASE c # t
      <4>1. OwnedBy(u, c) = OwnedBy(s, c)
        <5>1. \A v \in Voices : u.root[v] = IF v = i THEN t ELSE s.root[v]
            BY <1>1
        <5>2. c # FREE /\ c # t /\ s.root[i] = FREE
            BY <1>5, <3>2, Sizes
        <5> QED  BY <5>1, <5>2 DEF OwnedBy
      <4> QED  BY <1>0, <1>1, <3>0, <3>2, <4>1 DEF PoolType
    <3> QED  BY <3>1, <3>2
  <2>2. u.used = Cardinality(Used(u))
    <3>1. Used(u) = Used(s) \cup {i}
      <4>1. \A v \in Voices : u.chn[v] = IF v = i THEN t ELSE s.chn[v]
          BY <1>1
      <4>2. t # FREE
          BY Sizes
      <4> QED  BY <4>1, <4>2 DEF Used
    <3>2. i \notin Used(s) /\ Used(s) \in SUBSET Voices
        BY DEF Used
    <3>3. Cardinality(Used(s) \cup {i}) = Cardinality(Used(s)) + 1
        BY <3>2, AddVoice
    <3>4. s.used = Cardinality(Used(s))
        BY DEF PoolInv, CountsAgreeIn
    <3> QED  BY <1>1, <3>1, <3>3, <3>4
  <2> QED  BY <2>1, <2>2 DEF CountsAgreeIn
<1>7. PoolInv(u)
    BY <1>1, <1>2, <1>3, <1>6 DEF PoolInv
<1> QED  BY <1>7 DEF u

\* The voice a track steers, moved to an idle background channel.
PushedAside(s, t, b) ==
    [s EXCEPT !.chn[s.map[t]] = b,
              !.map = [@ EXCEPT ![b] = s.map[t], ![t] = FREE]]

\* Pushing it aside keeps the records in agreement.
LEMMA PushedAsideInv ==
    ASSUME NEW s, PoolInv(s), NEW t \in Tracks, NEW b \in Background,
           s.map[t] # FREE, s.map[b] = FREE
    PROVE  PoolInv(PushedAside(s, t, b))
<1> DEFINE u == PushedAside(s, t, b)
           voc == s.map[t]
<1>0. s \in PoolType /\ t \in Channels /\ b \in Channels /\ b \notin Tracks /\ t # b
    BY Sizes DEF PoolInv, Background
<1>1. voc \in Voices /\ s.chn[voc] = t /\ s.root[voc] = t
    BY <1>0 DEF PoolInv, MapsAgreeIn, RootsAgreeIn, PoolType
<1>2. /\ u.chn = [s.chn EXCEPT ![voc] = b]
      /\ u.map = [s.map EXCEPT ![b] = voc, ![t] = FREE]
      /\ u.root = s.root /\ u.count = s.count /\ u.used = s.used
      /\ u.act = s.act
      /\ u \in PoolType
    BY <1>0, <1>1 DEF PushedAside, PoolType
<1> HIDE DEF u
<1>3. MapsAgreeIn(u)
    BY <1>0, <1>1, <1>2, Sizes DEF PoolInv, MapsAgreeIn, PoolType
<1>4. RootsAgreeIn(u)
    BY <1>0, <1>1, <1>2, Sizes DEF PoolInv, RootsAgreeIn, PoolType
<1>5. CountsAgreeIn(u)
  <2>1. Used(u) = Used(s)
      BY <1>0, <1>1, <1>2, Sizes DEF Used, PoolType
  <2>2. \A c \in Channels : OwnedBy(u, c) = OwnedBy(s, c)
      BY <1>2 DEF OwnedBy
  <2> QED  BY <1>2, <2>1, <2>2 DEF PoolInv, CountsAgreeIn
<1>7. PoolInv(u)
    BY <1>2, <1>3, <1>4, <1>5 DEF PoolInv
<1> QED  BY <1>7 DEF u

-----------------------------------------------------------------------------
(* Allocation and relocation                                               *)

\* What libxmp_virt_setpatch changes when the old voice moves.
LEMMA MoveVoiceFields ==
    ASSUME NEW s \in PoolType, NEW voc \in Voices, NEW b \in Channels
    PROVE  LET u == MoveVoice(s, voc, b)
           IN  /\ \A v \in Voices : u.chn[v] = IF v = voc THEN b ELSE s.chn[v]
               /\ \A c \in Channels : u.map[c] = IF c = b THEN voc ELSE s.map[c]
               /\ u.root = s.root /\ u.count = s.count /\ u.used = s.used
               /\ u.act = s.act /\ u.vol = s.vol /\ u.ins = s.ins
               /\ u \in PoolType
<1> DEFINE u   == MoveVoice(s, voc, b)
           chn == [s.chn EXCEPT ![voc] = b]
           map == [s.map EXCEPT ![b] = voc]
<1>1. u = [s EXCEPT !.chn = chn, !.map = map]
    BY DEF MoveVoice
<1>2. /\ chn \in [Voices -> Channels \cup {FREE}]
      /\ map \in [Channels -> Voices \cup {FREE}]
      /\ \A v \in Voices : chn[v] = IF v = voc THEN b ELSE s.chn[v]
      /\ \A c \in Channels : map[c] = IF c = b THEN voc ELSE s.map[c]
    BY DEF PoolType
<1> HIDE DEF chn, map
<1>3. /\ u.chn = chn /\ u.map = map
      /\ u.root = s.root /\ u.count = s.count /\ u.used = s.used
      /\ u.act = s.act /\ u.vol = s.vol /\ u.ins = s.ins
      /\ u \in PoolType
    BY <1>1, <1>2 DEF PoolType
<1> HIDE DEF u
<1> QED  BY <1>2, <1>3 DEF u

\* free_voice's bookkeeping for a set of voices.
LEMMA UnlinkFields ==
    ASSUME NEW s \in PoolType, NEW R \in SUBSET Voices
    PROVE  LET u == Unlink(s, R)
               w == ResetVoices(s, R)
           IN  /\ u.map = w.map /\ u.count = w.count /\ u.used = w.used
               /\ u.chn = s.chn /\ u.root = s.root /\ u.act = s.act
               /\ u \in PoolType
<1> DEFINE u     == Unlink(s, R)
           map   == [c \in Channels |-> IF \E v \in R : s.chn[v] = c
                                        THEN FREE ELSE s.map[c]]
           count == [c \in Channels |-> s.count[c]
                                - Cardinality({v \in R : s.root[v] = c})]
           used  == s.used - Cardinality(R)
<1>1. u = [s EXCEPT !.map = map, !.count = count, !.used = used]
    BY DEF Unlink
<1> HIDE DEF map, count, used
<1>2. /\ u.map = map /\ u.count = count /\ u.used = used
      /\ u.chn = s.chn /\ u.root = s.root /\ u.act = s.act
      /\ u.vol = s.vol /\ u.ins = s.ins
    BY <1>1 DEF PoolType
<1>3. /\ ResetVoices(s, R).map = u.map
      /\ ResetVoices(s, R).count = u.count
      /\ ResetVoices(s, R).used = u.used
    BY DEF ResetVoices
<1>4. ResetVoices(s, R) \in PoolType
    BY ResetVoicesFields
<1>5. /\ map \in [Channels -> Voices \cup {FREE}]
      /\ count \in [Channels -> Int]
      /\ used \in Int
    BY <1>2, <1>3, <1>4 DEF PoolType
<1>6. u \in PoolType
    BY <1>1, <1>5 DEF PoolType
<1> QED  BY <1>2, <1>3, <1>6

\* Pool x is pool r but for the fields of voice i itself.
SameBut(x, r, i) ==
    /\ x \in PoolType
    /\ x.map = r.map /\ x.count = r.count /\ x.used = r.used
    /\ \A v \in Voices \ {i} : /\ x.chn[v] = r.chn[v]
                               /\ x.root[v] = r.root[v]
                               /\ x.act[v] = r.act[v]

\* Two pools with the same four records.
SameRecords(x, y) ==
    /\ \A v \in Voices : x.chn[v] = y.chn[v] /\ x.root[v] = y.root[v]
    /\ \A c \in Channels : x.map[c] = y.map[c] /\ x.count[c] = y.count[c]
    /\ x.used = y.used

\* They are both good or neither is.
LEMMA SameRecordsInv ==
    ASSUME NEW x \in PoolType, NEW y, PoolInv(y), SameRecords(x, y)
    PROVE  PoolInv(x)
<1>1. x.chn = y.chn /\ x.root = y.root
    BY DEF SameRecords, PoolInv, PoolType
<1>2. x.map = y.map /\ x.count = y.count /\ x.used = y.used
    BY DEF SameRecords, PoolInv, PoolType
<1> QED  BY <1>1, <1>2, SameBooks

\* alloc_voice gives the track a voice that was free, or that a steal has
\* unlinked: in effect, a voice that libxmp_virt_resetvoice had silenced.
LEMMA AllocCases ==
    ASSUME NEW s, PoolInv(s), NEW t \in Tracks, NEW a \in AllocVoice(s, t)
    PROVE  /\ a.voc \in Voices /\ a.voc # s.map[t]
           /\ \E x, r : /\ a.pool = Claim(x, a.voc, t)
                        /\ SameBut(x, r, a.voc)
                        /\ PoolInv(r) /\ r.chn[a.voc] = FREE
                        /\ r.map[t] = s.map[t]
                        /\ x.act = s.act
<1>0. s \in PoolType /\ t \in Channels
    BY Sizes DEF PoolInv
<1>1. CASE Voices \ Used(s) # {}
  <2>1. PICK i \in Voices \ Used(s) : a = [pool |-> Claim(s, i, t), voc |-> i]
      BY <1>1 DEF AllocVoice
  <2>2. s.chn[i] = FREE /\ i \in Voices
      BY <2>1 DEF Used
  <2>3. i # s.map[t]
      BY <1>0, <2>2, Sizes DEF PoolInv, MapsAgreeIn
  <2>4. SameBut(s, s, i)
      BY <1>0 DEF SameBut
  <2> QED  BY <2>1, <2>2, <2>3, <2>4
<1>2. CASE Voices \ Used(s) = {}
  <2>1. PICK i \in FreeVoice(s) :
                a = [pool |-> Claim(Unlink(s, {i}), i, t), voc |-> i]
      BY <1>2 DEF AllocVoice
  <2> DEFINE x == Unlink(s, {i})
             r == ResetVoices(s, {i})
  <2>2. i \in Voices /\ s.chn[i] >= NumTracks
      BY <2>1 DEF FreeVoice, InBackground
  <2>3. s.chn[i] \notin Tracks /\ s.chn[i] # FREE
      BY <1>2, <2>2, TracksAssumption DEF Tracks, Used
  <2>4. i # s.map[t]
      BY <1>0, <2>2, <2>3 DEF PoolInv, MapsAgreeIn
  <2>5. PoolInv(r)
    <3>1. {i} \in SUBSET Used(s)
        BY <2>2, <2>3 DEF Used
    <3> QED  BY <3>1, ResetVoicesInv
  <2>6. /\ \A v \in Voices : /\ r.chn[v] = IF v = i THEN FREE ELSE s.chn[v]
                             /\ r.root[v] = IF v = i THEN FREE ELSE s.root[v]
                             /\ r.act[v] = IF v = i THEN CUT ELSE s.act[v]
        /\ \A c \in Channels : r.map[c] = IF s.chn[i] = c
                                          THEN FREE ELSE s.map[c]
    <3> DEFINE R == {i}
    <3>1. R \in SUBSET Voices /\ \A v : v \in R <=> v = i
        BY <2>2
    <3> HIDE DEF R
    <3>2. s \in PoolType /\ R \in SUBSET Voices
        BY <1>0, <3>1
    <3> DEFINE w == ResetVoices(s, R)
    <3>3. r = w
        BY DEF R
    <3>4. /\ w \in PoolType
          /\ \A v \in Voices :
                /\ w.chn[v] = IF v \in R THEN FREE ELSE s.chn[v]
                /\ w.root[v] = IF v \in R THEN FREE ELSE s.root[v]
                /\ w.act[v] = IF v \in R THEN CUT ELSE s.act[v]
          /\ \A c \in Channels :
                /\ w.map[c] = IF \E v \in R : s.chn[v] = c
                              THEN FREE ELSE s.map[c]
                /\ w.count[c] = s.count[c]
                                - Cardinality({v \in R : s.root[v] = c})
          /\ w.used = s.used - Cardinality(R)
        BY <3>2, ResetVoicesFields
    <3> HIDE DEF r, w
    <3>5. \A v \in Voices :
             /\ w.chn[v] = IF v = i THEN FREE ELSE s.chn[v]
             /\ w.root[v] = IF v = i THEN FREE ELSE s.root[v]
             /\ w.act[v] = IF v = i THEN CUT ELSE s.act[v]
        BY <3>1, <3>4
    <3>6. \A c \in Channels : w.map[c] = IF s.chn[i] = c THEN FREE ELSE s.map[c]
      <4>1. \A c \in Channels : w.map[c] = IF \E v \in R : s.chn[v] = c
                                          THEN FREE ELSE s.map[c]
          BY <3>4
      <4> QED  BY <3>1, <4>1
    <3> QED  BY <3>3, <3>5, <3>6
  <2>7. /\ x.map = r.map /\ x.count = r.count /\ x.used = r.used
        /\ x.chn = s.chn /\ x.root = s.root /\ x.act = s.act
        /\ x \in PoolType
      BY <1>0, <2>2, UnlinkFields
  <2> HIDE DEF x, r
  <2>8. SameBut(x, r, i)
      BY <2>6, <2>7 DEF SameBut
  <2>9. r.map[t] = s.map[t] /\ r.chn[i] = FREE
      BY <1>0, <2>2, <2>3, <2>6
  <2>10. a.pool = Claim(x, i, t) /\ a.voc = i
      BY <2>1 DEF x
  <2> QED  BY <2>2, <2>4, <2>5, <2>7, <2>8, <2>9, <2>10
<1> QED  BY <1>1, <1>2

\* With virtual channels and a voice to spare, some background channel is idle:
\* there are as many of them as voices, and no voice plays in two.
LEMMA IdleBackground ==
    ASSUME Virtual, NEW r, PoolInv(r), NEW i \in Voices, r.chn[i] = FREE
    PROVE  \E b \in Background : r.map[b] = FREE
<1> SUFFICES ASSUME \A b \in Background : r.map[b] # FREE  PROVE FALSE
    OBVIOUS
<1> DEFINE f == [b \in Background |-> r.map[b]]
           T == Voices \ {i}
<1>1. IsFiniteSet(Background) /\ Cardinality(Background) = MaxVoc
    BY BackgroundSize
<1>2. IsFiniteSet(T) /\ Cardinality(T) = MaxVoc - 1
    BY VoicesFinite, FS_RemoveElement
<1>3. f \in [Background -> T]
  <2>1. ASSUME NEW b \in Background  PROVE r.map[b] \in T
    <3>1. b \in Channels /\ r.map[b] \in Voices
        BY DEF PoolInv, PoolType, Background
    <3>2. r.chn[r.map[b]] = b
        BY <3>1 DEF PoolInv, MapsAgreeIn
    <3> QED  BY <3>1, <3>2, Sizes
  <2> QED  BY <2>1
<1>4. Cardinality(T) < Cardinality(Background)
    BY <1>1, <1>2, Sizes
<1>5. PICK b \in Background, d \in Background : b # d /\ f[b] = f[d]
  <2> HIDE DEF f, T
  <2> QED  BY <1>1, <1>2, <1>3, <1>4, FS_PigeonHole
<1>6. r.map[b] = r.map[d] /\ r.map[b] \in Voices /\ b \in Channels /\ d \in Channels
    BY <1>3, <1>5 DEF Background
<1>7. r.chn[r.map[b]] = b /\ r.chn[r.map[b]] = d
    BY <1>6 DEF PoolInv, MapsAgreeIn
<1> QED  BY <1>5, <1>7

\* A note placed on an idle track: the pool alloc_voice returns is good.
LEMMA AllocIdleInv ==
    ASSUME NEW s, PoolInv(s), NEW t \in Tracks, s.map[t] = FREE,
           NEW a \in AllocVoice(s, t)
    PROVE  PoolInv(a.pool)
<1> DEFINE i == a.voc
<1>1. i \in Voices
    BY AllocCases
<1>2. PICK x, r : /\ a.pool = Claim(x, i, t) /\ SameBut(x, r, i)
                  /\ PoolInv(r) /\ r.chn[i] = FREE /\ r.map[t] = s.map[t]
    BY AllocCases
<1> HIDE DEF i
<1>3. t \in Channels /\ x \in PoolType /\ r \in PoolType
    BY <1>2, Sizes DEF SameBut, PoolInv
<1>4. PoolInv(Claim(r, i, t))
    BY <1>1, <1>2, ClaimInv
<1>5. SameRecords(Claim(x, i, t), Claim(r, i, t)) /\ Claim(x, i, t) \in PoolType
  <2> DEFINE u == Claim(x, i, t)
             w == Claim(r, i, t)
  <2>1. /\ \A v \in Voices : /\ u.chn[v] = IF v = i THEN t ELSE x.chn[v]
                             /\ u.root[v] = IF v = i THEN t ELSE x.root[v]
        /\ \A c \in Channels : /\ u.map[c] = IF c = t THEN i ELSE x.map[c]
                               /\ u.count[c] = x.count[c] + (IF c = t THEN 1 ELSE 0)
        /\ u.used = x.used + 1 /\ u \in PoolType
      BY <1>1, <1>3, ClaimFields
  <2>2. /\ \A v \in Voices : /\ w.chn[v] = IF v = i THEN t ELSE r.chn[v]
                             /\ w.root[v] = IF v = i THEN t ELSE r.root[v]
        /\ \A c \in Channels : /\ w.map[c] = IF c = t THEN i ELSE r.map[c]
                               /\ w.count[c] = r.count[c] + (IF c = t THEN 1 ELSE 0)
        /\ w.used = r.used + 1
      BY <1>1, <1>3, ClaimFields
  <2> HIDE DEF u, w
  <2>3. SameRecords(u, w)
      BY <1>2, <2>1, <2>2 DEF SameRecords, SameBut
  <2> QED  BY <2>1, <2>3 DEF u, w
<1> QED  BY <1>2, <1>4, <1>5, SameRecordsInv

\* A note placed on a track whose old note is kept: the search for a background
\* channel finds an idle one, and the pool is good once the voice has moved.
LEMMA AllocPushInv ==
    ASSUME Virtual, NEW s, PoolInv(s), NEW t \in Tracks, s.map[t] # FREE,
           NEW a \in AllocVoice(s, t), NEW b \in RelocationTarget(a.pool)
    PROVE  /\ b \in Background /\ a.pool.map[b] = FREE
           /\ PoolInv(MoveVoice(a.pool, s.map[t], b))
<1> DEFINE i   == a.voc
           voc == s.map[t]
<1>1. i \in Voices /\ i # voc
    BY AllocCases
<1>2. PICK x, r : /\ a.pool = Claim(x, i, t) /\ SameBut(x, r, i)
                  /\ PoolInv(r) /\ r.chn[i] = FREE /\ r.map[t] = s.map[t]
    BY AllocCases
<1>3. t \in Channels /\ x \in PoolType /\ r \in PoolType /\ voc \in Voices
    BY <1>2, Sizes DEF SameBut, PoolInv, PoolType
<1> HIDE DEF i
<1> DEFINE u == Claim(x, i, t)
<1>4. /\ \A v \in Voices : /\ u.chn[v] = IF v = i THEN t ELSE x.chn[v]
                           /\ u.root[v] = IF v = i THEN t ELSE x.root[v]
      /\ \A c \in Channels : /\ u.map[c] = IF c = t THEN i ELSE x.map[c]
                             /\ u.count[c] = x.count[c] + (IF c = t THEN 1 ELSE 0)
      /\ u.used = x.used + 1 /\ u \in PoolType
    BY <1>1, <1>3, ClaimFields
<1> HIDE DEF u
<1>5. \A c \in Background : u.map[c] = r.map[c] /\ c \in Channels /\ c # t
    BY <1>2, <1>4 DEF SameBut, Background
<1>6. PICK d \in Background : r.map[d] = FREE
    BY <1>1, <1>2, IdleBackground
<1>7. b \in Background /\ u.map[b] = FREE
  <2>1. a.pool = u
      BY <1>2 DEF u
  <2>2. u.map[d] = FREE
      BY <1>5, <1>6
  <2> QED  BY <2>1, <2>2 DEF RelocationTarget
<1>8. r.map[b] = FREE /\ b \in Channels /\ b # t /\ r.map[t] = voc /\ voc # FREE
    BY <1>2, <1>5, <1>7
<1> DEFINE q == PushedAside(r, t, b)
<1>9. PoolInv(q)
    BY <1>2, <1>7, <1>8, PushedAsideInv
<1>10. /\ q.chn = [r.chn EXCEPT ![voc] = b]
       /\ q.map = [r.map EXCEPT ![b] = voc, ![t] = FREE]
       /\ q.root = r.root /\ q.count = r.count /\ q.used = r.used
    BY <1>3, <1>8 DEF PushedAside, PoolType
<1> HIDE DEF q
<1>11. /\ \A v \in Voices : q.chn[v] = IF v = voc THEN b ELSE r.chn[v]
       /\ \A c \in Channels : q.map[c] = IF c = t THEN FREE
                                         ELSE IF c = b THEN voc ELSE r.map[c]
    BY <1>3, <1>8, <1>10 DEF PoolType
<1> DEFINE w == Claim(q, i, t)
           z == MoveVoice(u, voc, b)
<1>12. PoolInv(w)
    BY <1>1, <1>2, <1>3, <1>9, <1>11, ClaimInv
<1>13. /\ \A v \in Voices : /\ w.chn[v] = IF v = i THEN t ELSE q.chn[v]
                            /\ w.root[v] = IF v = i THEN t ELSE q.root[v]
       /\ \A c \in Channels : /\ w.map[c] = IF c = t THEN i ELSE q.map[c]
                              /\ w.count[c] = q.count[c] + (IF c = t THEN 1 ELSE 0)
       /\ w.used = q.used + 1
  <2>1. q \in PoolType
      BY <1>9 DEF PoolInv
  <2> QED  BY <1>1, <2>1, ClaimFields
<1>14. /\ \A v \in Voices : z.chn[v] = IF v = voc THEN b ELSE u.chn[v]
       /\ \A c \in Channels : z.map[c] = IF c = b THEN voc ELSE u.map[c]
       /\ z.root = u.root /\ z.count = u.count /\ z.used = u.used
       /\ z \in PoolType
  <2>1. u \in PoolType /\ voc \in Voices /\ b \in Channels
      BY <1>3, <1>4, <1>8
  <2> HIDE DEF voc
  <2> QED  BY <2>1, MoveVoiceFields
<1> HIDE DEF w, z
<1>15. SameRecords(z, w)
  <2>1. \A v \in Voices : z.chn[v] = w.chn[v] /\ z.root[v] = w.root[v]
      BY <1>1, <1>2, <1>4, <1>10, <1>11, <1>13, <1>14 DEF SameBut
  <2>2. \A c \in Channels : z.map[c] = w.map[c] /\ z.count[c] = w.count[c]
      BY <1>2, <1>4, <1>8, <1>10, <1>11, <1>13, <1>14 DEF SameBut
  <2>3. z.used = w.used
      BY <1>2, <1>4, <1>10, <1>13, <1>14 DEF SameBut
  <2> QED  BY <2>1, <2>2, <2>3 DEF SameRecords
<1>16. PoolInv(z)
    BY <1>12, <1>14, <1>15, SameRecordsInv
<1>17. a.pool = u
    BY <1>2 DEF u
<1> QED  BY <1>7, <1>16, <1>17 DEF z

-----------------------------------------------------------------------------
(* The calls                                                               *)

\* check_dct only silences voices of the track the note is for.
LEMMA CheckDctInv ==
    ASSUME NEW s, PoolInv(s), ActsFit(s), NnaNeedsVirtual,
           NEW t \in Tracks, NEW in, NEW nna \in Nnas,
           NEW dca \in Acts,
           NEW dups \in SUBSET {v \in OwnedBy(s, t) : s.ins[v] = in}
    PROVE  /\ PoolInv(CheckDct(s, t, in, nna, dca, dups))
           /\ ActsFit(CheckDct(s, t, in, nna, dca, dups))
<1> DEFINE same  == {v \in OwnedBy(s, t) : s.ins[v] = in}
           reset == IF nna = CUT THEN same
                    ELSE IF dca = CUT THEN dups ELSE {}
           onDup == IF nna = OFF /\ dca = FADE THEN OFF ELSE dca
           act   == [v \in Voices |->
                        IF v \in same THEN IF v \in dups THEN onDup ELSE nna
                                      ELSE s.act[v]]
           acted == [s EXCEPT !.act = act]
<1>1. CheckDct(s, t, in, nna, dca, dups) = ResetVoices(acted, reset)
    BY DEF CheckDct
<1>2. act \in [Voices -> Acts]
    BY NnasAssumption DEF PoolInv, PoolType, Acts
<1>3. same \in SUBSET Voices /\ reset \in SUBSET same
    BY DEF OwnedBy
<1>4. \A v \in same : s.chn[v] # FREE
  <2>1. t # FREE
      BY Sizes
  <2> QED  BY <2>1 DEF OwnedBy, PoolInv, RootsAgreeIn
<1>5. ~Virtual => nna = CUT /\ \A v \in Voices \ same : act[v] = CUT
    BY DEF NnaNeedsVirtual, ActsFit
<1>6. nna = CUT => reset = same
    OBVIOUS
<1> HIDE DEF act
<1>7. /\ acted \in PoolType /\ acted.act = act
      /\ acted.chn = s.chn /\ acted.root = s.root /\ acted.map = s.map
      /\ acted.count = s.count /\ acted.used = s.used
    BY <1>2 DEF PoolInv, PoolType
<1> HIDE DEF acted, same, reset
<1>8. PoolInv(acted)
    BY <1>7, SameBooks
<1>9. reset \in SUBSET Used(acted)
    BY <1>3, <1>4, <1>7 DEF Used
<1>10. PoolInv(ResetVoices(acted, reset))
    BY <1>8, <1>9, ResetVoicesInv
<1>11. ActsFit(ResetVoices(acted, reset))
  <2> DEFINE u == ResetVoices(acted, reset)
  <2>0. acted \in PoolType /\ reset \in SUBSET Voices
      BY <1>3, <1>7
  <2>1. \A v \in Voices : u.act[v] = IF v \in reset THEN CUT ELSE acted.act[v]
      BY <2>0, ResetVoicesFields
  <2> HIDE DEF u
  <2>2. ASSUME ~Virtual, NEW v \in Voices  PROVE u.act[v] = CUT
      BY <1>5, <1>6, <1>7, <2>1, <2>2
  <2> QED  BY <2>2 DEF ActsFit, u
<1> QED  BY <1>1, <1>10, <1>11

\* The voice of a new note, however it is found.
LEMMA PlacementsInv ==
    ASSUME NEW s, PoolInv(s), ActsFit(s), NEW t \in Tracks,
           NEW p \in Placements(s, t)
    PROVE  /\ PoolInv(p.pool)
           /\ p.pool.act = s.act
           /\ p.voc \in Voices /\ p.pool.chn[p.voc] = t
<1> DEFINE voc == s.map[t]
<1>0. s \in PoolType /\ t \in Channels /\ voc \in Voices \cup {FREE}
    BY Sizes DEF PoolInv, PoolType
<1>1. ASSUME NEW a \in AllocVoice(s, t)
      PROVE  /\ a.voc \in Voices /\ a.voc # voc
             /\ a.pool \in PoolType /\ a.pool.act = s.act
             /\ a.pool.chn[a.voc] = t
  <2> DEFINE i == a.voc
  <2>1. i \in Voices /\ i # voc
      BY <1>1, AllocCases
  <2>2. PICK x, r : /\ a.pool = Claim(x, i, t) /\ SameBut(x, r, i) /\ x.act = s.act
      BY <1>1, AllocCases
  <2> DEFINE u == Claim(x, i, t)
  <2>3. x \in PoolType
      BY <2>2 DEF SameBut
  <2>4. /\ \A v \in Voices : u.chn[v] = IF v = i THEN t ELSE x.chn[v]
        /\ u.vol = x.vol /\ u.act = x.act /\ u.ins = x.ins
        /\ u \in PoolType
    <3> HIDE DEF i
    <3> QED  BY <2>1, <2>3, ClaimFields
  <2> HIDE DEF u
  <2>5. a.pool = u
      BY <2>2 DEF u
  <2> QED  BY <2>1, <2>2, <2>4, <2>5
<1>2. CASE voc = FREE
  <2>1. PICK a \in AllocVoice(s, t) : p = [pool |-> a.pool, voc |-> a.voc, to |-> t]
      BY <1>2 DEF Placements
  <2>2. PoolInv(a.pool)
      BY <1>2, AllocIdleInv
  <2> QED  BY <1>1, <2>1, <2>2
<1>3. CASE voc # FREE /\ s.act[voc] = CUT
  <2>1. p = [pool |-> s, voc |-> voc, to |-> t]
      BY <1>3 DEF Placements
  <2>2. voc \in Voices /\ s.chn[voc] = t
      BY <1>0, <1>3 DEF PoolInv, MapsAgreeIn
  <2> QED  BY <2>1, <2>2
<1>4. CASE voc # FREE /\ s.act[voc] # CUT
  <2>0. Virtual /\ voc \in Voices
      BY <1>0, <1>4 DEF ActsFit
  <2>1. PICK a \in AllocVoice(s, t) : \E b \in RelocationTarget(a.pool) :
                p = [pool |-> MoveVoice(a.pool, voc, b), voc |-> a.voc, to |-> b]
      BY <1>4 DEF Placements
  <2>1a. PICK b \in RelocationTarget(a.pool) :
                p = [pool |-> MoveVoice(a.pool, voc, b), voc |-> a.voc, to |-> b]
      BY <2>1
  <2>2. b \in Channels /\ PoolInv(MoveVoice(a.pool, voc, b))
      BY <1>4, <2>0, AllocPushInv DEF Background
  <2>3. /\ \A v \in Voices : MoveVoice(a.pool, voc, b).chn[v]
                               = IF v = voc THEN b ELSE a.pool.chn[v]
        /\ MoveVoice(a.pool, voc, b).act = a.pool.act
    <3>1. a.pool \in PoolType /\ voc \in Voices /\ b \in Channels
        BY <1>1, <2>0, <2>2
    <3> HIDE DEF voc
    <3> QED  BY <3>1, MoveVoiceFields
  <2> HIDE DEF voc
  <2> QED  BY <1>1, <2>1a, <2>2, <2>3
<1> QED  BY <1>2, <1>3, <1>4

\* The assignments that end libxmp_virt_setpatch leave the records alone.
LEMMA StartNoteInv ==
    ASSUME NEW s, PoolInv(s), ActsFit(s), NnaNeedsVirtual, NEW v \in Voices,
           NEW in \in Instruments, NEW nna \in Nnas
    PROVE  PoolInv(StartNote(s, v, in, nna)) /\ ActsFit(StartNote(s, v, in, nna))
<1> DEFINE u   == StartNote(s, v, in, nna)
           vol == [s.vol EXCEPT ![v] = 0]
           act == [s.act EXCEPT ![v] = nna]
           ins == [s.ins EXCEPT ![v] = in]
<1>1. u = [s EXCEPT !.vol = vol, !.act = act, !.ins = ins]
    BY DEF StartNote
<1>2. /\ vol \in [Voices -> Levels]
      /\ act \in [Voices -> Acts]
      /\ ins \in [Voices -> Instruments \cup {0}]
    BY NnasAssumption, LevelsAssumption DEF PoolInv, PoolType
<1>3. ~Virtual => \A w \in Voices : act[w] = CUT
    BY DEF PoolInv, PoolType, ActsFit, NnaNeedsVirtual
<1> HIDE DEF vol, act, ins
<1>4. /\ u \in PoolType /\ u.act = act
      /\ u.chn = s.chn /\ u.root = s.root /\ u.map = s.map
      /\ u.count = s.count /\ u.used = s.used
    BY <1>1, <1>2 DEF PoolInv, PoolType
<1> HIDE DEF u
<1>5. PoolInv(u)
    BY <1>4, SameBooks
<1>6. ActsFit(u)
    BY <1>3, <1>4 DEF ActsFit
<1> QED  BY <1>5, <1>6 DEF u

\* Silencing voices keeps the actions fit.
LEMMA ResetVoicesFit ==
    ASSUME NEW s, PoolInv(s), ActsFit(s), NEW R \in SUBSET Voices
    PROVE  ActsFit(ResetVoices(s, R))
<1> DEFINE u == ResetVoices(s, R)
<1>1. s \in PoolType
    BY DEF PoolInv
<1>2. \A v \in Voices : u.act[v] = IF v \in R THEN CUT ELSE s.act[v]
    BY <1>1, ResetVoicesFields
<1> HIDE DEF u
<1> QED  BY <1>2 DEF ActsFit, u

\* libxmp_virt_setpatch, whatever note it is asked for.
LEMMA SetPatchInv ==
    ASSUME NEW s, PoolInv(s), ActsFit(s), NnaNeedsVirtual,
           NEW t \in Tracks, NEW in, NEW sample \in BOOLEAN, sample => in \in Instruments,
           NEW nna \in Nnas, NEW dct, NEW dca \in Acts,
           NEW dups \in SUBSET {v \in OwnedBy(s, t) : s.ins[v] = in},
           NEW r \in SetPatch(s, t, in, sample, nna, dct, dca, dups)
    PROVE  PoolInv(r.pool) /\ ActsFit(r.pool)
<1> DEFINE c == IF dct = DctOff THEN s ELSE CheckDct(s, t, in, nna, dca, dups)
<1>1. PoolInv(c) /\ ActsFit(c)
    BY CheckDctInv
<1>2. \/ r.pool = c
      \/ \E p \in Placements(c, t) :
            \/ sample /\ r.pool = StartNote(p.pool, p.voc, in, nna)
            \/ r.pool = ResetVoices(p.pool, {p.voc})
  <2> DEFINE places == Placements(c, t)
  <2>1. r \in IF places = {} THEN {[pool |-> c, to |-> -1, voc |-> FREE]}
              ELSE IF sample
              THEN {[pool |-> StartNote(p.pool, p.voc, in, nna), to |-> p.to,
                     voc  |-> p.voc] : p \in places}
              ELSE {[pool |-> ResetVoices(p.pool, {p.voc}), to |-> p.to,
                     voc  |-> FREE] : p \in places}
      BY DEF SetPatch
  <2> HIDE DEF c, places
  <2>2. \/ r.pool = c
        \/ \E p \in places :
              \/ sample /\ r.pool = StartNote(p.pool, p.voc, in, nna)
              \/ r.pool = ResetVoices(p.pool, {p.voc})
      BY <2>1
  <2> QED  BY <2>2 DEF places
<1> HIDE DEF c
<1>3. ASSUME NEW p \in Placements(c, t)
      PROVE  /\ sample => /\ PoolInv(StartNote(p.pool, p.voc, in, nna))
                          /\ ActsFit(StartNote(p.pool, p.voc, in, nna))
             /\ PoolInv(ResetVoices(p.pool, {p.voc}))
             /\ ActsFit(ResetVoices(p.pool, {p.voc}))
  <2>1. /\ PoolInv(p.pool) /\ p.pool.act = c.act
        /\ p.voc \in Voices /\ p.pool.chn[p.voc] = t
      BY <1>1, <1>3, PlacementsInv
  <2>2. ActsFit(p.pool)
      BY <1>1, <2>1 DEF ActsFit
  <2>3. {p.voc} \in SUBSET Used(p.pool) /\ {p.voc} \in SUBSET Voices
      BY <2>1, Sizes DEF Used
  <2>4. PoolInv(ResetVoices(p.pool, {p.voc})) /\ ActsFit(ResetVoices(p.pool, {p.voc}))
      BY <2>1, <2>2, <2>3, ResetVoicesInv, ResetVoicesFit
  <2>5. sample => /\ PoolInv(StartNote(p.pool, p.voc, in, nna))
                  /\ ActsFit(StartNote(p.pool, p.voc, in, nna))
      BY <2>1, <2>2, StartNoteInv
  <2> QED  BY <2>4, <2>5
<1> QED  BY <1>1, <1>2, <1>3

\* Changing volumes, instruments or actions of voices is harmless.
LEMMA AttributesInv ==
    ASSUME NEW s, PoolInv(s), ActsFit(s),
           NEW vol \in [Voices -> Levels], NEW act \in [Voices -> Acts],
           NEW ins \in [Voices -> Instruments \cup {0}],
           Virtual \/ act = s.act
    PROVE  LET u == [s EXCEPT !.vol = vol, !.act = act, !.ins = ins]
           IN  PoolInv(u) /\ ActsFit(u)
<1> DEFINE u == [s EXCEPT !.vol = vol, !.act = act, !.ins = ins]
<1>1. /\ u \in PoolType /\ u.act = act
      /\ u.chn = s.chn /\ u.root = s.root /\ u.map = s.map
      /\ u.count = s.count /\ u.used = s.used
    BY DEF PoolInv, PoolType
<1> HIDE DEF u
<1>2. PoolInv(u)
    BY <1>1, SameBooks
<1>3. ActsFit(u)
    BY <1>1 DEF ActsFit
<1> QED  BY <1>2, <1>3 DEF u

\* One field of a pool replaced by itself.
LEMMA KeepFields ==
    ASSUME NEW s \in PoolType, NEW x
    PROVE  /\ [s EXCEPT !.vol = x] = [s EXCEPT !.vol = x, !.act = s.act, !.ins = s.ins]
           /\ [s EXCEPT !.act = x] = [s EXCEPT !.vol = s.vol, !.act = x, !.ins = s.ins]
           /\ [s EXCEPT !.ins = x] = [s EXCEPT !.vol = s.vol, !.act = s.act, !.ins = x]
BY DEF PoolType

\* The map of a channel and the voices resetvoice is called for.
LEMMA MappedVoices ==
    ASSUME NEW s, PoolInv(s)
    PROVE  /\ \A c \in Channels : s.map[c] # FREE => s.map[c] \in Used(s)
           /\ \A t \in Tracks :
                 {v \in InBackground(s) : s.root[v] = t} \in SUBSET Used(s)
<1>1. ASSUME NEW c \in Channels, s.map[c] # FREE  PROVE s.map[c] \in Used(s)
  <2>1. s.map[c] \in Voices
      BY <1>1 DEF PoolInv, PoolType
  <2>2. s.chn[s.map[c]] = c
      BY <2>1 DEF PoolInv, MapsAgreeIn
  <2> QED  BY <2>1, <2>2, Sizes DEF Used
<1>2. InBackground(s) \subseteq Used(s)
    BY TracksAssumption DEF InBackground, Used, FREE
<1> QED  BY <1>1, <1>2

\* Every call of the virtual channel manager preserves the invariant.
LEMMA NextInv ==
    ASSUME NnaNeedsVirtual, IInv, [Next]_vars
    PROVE  IInv'
<1> DEFINE s == virt
<1>0. PoolInv(s) /\ ActsFit(s) /\ s \in PoolType
    BY DEF IInv, PoolInv
<1> SUFFICES PoolInv(virt') /\ ActsFit(virt')
    BY DEF IInv, PoolInv, ActsFit, MapsAgreeIn, CountsAgreeIn, RootsAgreeIn,
           OwnedBy, Used
<1>1. ASSUME NEW v, PoolInv(v), ActsFit(v), NEW R \in SUBSET Used(v),
             virt' = ResetVoices(v, R)
      PROVE  PoolInv(virt') /\ ActsFit(virt')
  <2>1. R \in SUBSET Voices
      BY DEF Used
  <2> QED  BY <1>1, <2>1, ResetVoicesInv, ResetVoicesFit
<1>2. ASSUME NEW t \in Tracks, NEW in \in Instruments, NEW sample \in BOOLEAN,
             NEW nna \in Nnas, NEW d \in DuplicateChecks,
             NoteOn(t, in, sample, nna, d[1], d[2])
      PROVE  PoolInv(virt') /\ ActsFit(virt')
  <2>1. d[2] \in Acts
      BY DcasAssumption DEF DuplicateChecks, Acts
  <2>2. PICK dups \in Duplicates(s, t, in, d[1]) :
           \E r \in SetPatch(s, t, in, sample, nna, d[1], d[2], dups) : virt' = r.pool
      BY <1>2 DEF NoteOn
  <2>3. dups \in SUBSET {v \in OwnedBy(s, t) : s.ins[v] = in}
      BY DEF Duplicates
  <2>4. PICK r \in SetPatch(s, t, in, sample, nna, d[1], d[2], dups) : virt' = r.pool
      BY <2>2
  <2>5. PoolInv(r.pool) /\ ActsFit(r.pool)
      BY <1>0, <2>1, <2>3, SetPatchInv
  <2> QED  BY <2>4, <2>5
<1>3. ASSUME NEW t \in Tracks, NEW in \in Instruments \cup {FREE},
             NEW sample \in BOOLEAN, QueuePatch(t, in, sample)
      PROVE  PoolInv(virt') /\ ActsFit(virt')
  <2>1. CASE s.map[t] = FREE
    <3>1. in \in Instruments
        BY <1>3, <2>1 DEF QueuePatch
    <3>2. PICK r \in SetPatch(s, t, in, TRUE, CUT, DctOff, CUT, {}) : virt' = r.pool
        BY <1>3, <2>1 DEF QueuePatch
    <3>3. CUT \in Nnas /\ CUT \in Acts
        BY NnasAssumption DEF Acts
    <3>4. {} \in SUBSET {v \in OwnedBy(s, t) : s.ins[v] = in}
        OBVIOUS
    <3>5. PoolInv(r.pool) /\ ActsFit(r.pool)
        BY <1>0, <3>1, <3>3, <3>4, SetPatchInv
    <3> QED  BY <3>2, <3>5
  <2>2. CASE s.map[t] # FREE /\ in = FREE
    <3>1. virt' = virt
        BY <1>3, <2>2 DEF QueuePatch
    <3> QED  BY <1>0, <3>1
  <2>3. CASE s.map[t] # FREE /\ in # FREE
    <3> DEFINE ins == [s.ins EXCEPT ![s.map[t]] = in]
    <3>1. virt' = [s EXCEPT !.ins = ins]
        BY <1>3, <2>3 DEF QueuePatch
    <3>2. ins \in [Voices -> Instruments \cup {0}]
        BY <1>0, <2>3 DEF PoolType
    <3>3. s.vol \in [Voices -> Levels] /\ s.act \in [Voices -> Acts]
        BY <1>0 DEF PoolType
    <3> HIDE DEF ins
    <3>4. virt' = [s EXCEPT !.vol = s.vol, !.act = s.act, !.ins = ins]
        BY <1>0, <3>1, KeepFields
    <3> QED  BY <1>0, <3>2, <3>3, <3>4, AttributesInv
  <2> QED  BY <2>1, <2>2, <2>3
<1>4. ASSUME NEW c \in Channels, NEW level \in Levels, SetVol(c, level)
      PROVE  PoolInv(virt') /\ ActsFit(virt')
  <2> DEFINE voc == s.map[c]
             vol == [s.vol EXCEPT ![voc] = level]
             set == [s EXCEPT !.vol = vol]
  <2>1. voc # FREE /\ (virt' = set \/ virt' = ResetVoices(set, {voc}))
      BY <1>4 DEF SetVol
  <2>2. vol \in [Voices -> Levels]
      BY <1>0 DEF PoolType
  <2>3. s.act \in [Voices -> Acts] /\ s.ins \in [Voices -> Instruments \cup {0}]
      BY <1>0 DEF PoolType
  <2> HIDE DEF vol
  <2>4. set = [s EXCEPT !.vol = vol, !.act = s.act, !.ins = s.ins]
      BY <1>0, KeepFields
  <2>5. PoolInv(set) /\ ActsFit(set)
    <3>1. Virtual \/ s.act = s.act
        OBVIOUS
    <3> HIDE DEF set
    <3> QED  BY <1>0, <2>2, <2>3, <2>4, <3>1, AttributesInv
  <2>6. set.map = s.map
      BY <1>0 DEF PoolType
  <2> HIDE DEF set
  <2>7. {voc} \in SUBSET Used(set)
      BY <2>1, <2>5, <2>6, MappedVoices
  <2> QED  BY <1>1, <2>1, <2>5, <2>7
<1>5. ASSUME NEW c \in Channels, SetSmp(c)
      PROVE  PoolInv(virt') /\ ActsFit(virt')
  <2> DEFINE vol == [s.vol EXCEPT ![s.map[c]] = 0]
  <2>1. virt' = [s EXCEPT !.vol = vol]
      BY <1>5 DEF SetSmp
  <2>2. vol \in [Voices -> Levels]
      BY <1>0, LevelsAssumption DEF PoolType
  <2>3. s.act \in [Voices -> Acts] /\ s.ins \in [Voices -> Instruments \cup {0}]
      BY <1>0 DEF PoolType
  <2> HIDE DEF vol
  <2>4. virt' = [s EXCEPT !.vol = vol, !.act = s.act, !.ins = s.ins]
      BY <1>0, <2>1, KeepFields
  <2> QED  BY <1>0, <2>2, <2>3, <2>4, AttributesInv
<1>6. ASSUME NEW c \in Channels, ResetChannel(c)
      PROVE  PoolInv(virt') /\ ActsFit(virt')
  <2>1. s.map[c] \in Used(s) /\ virt' = ResetVoices(s, {s.map[c]})
      BY <1>0, <1>6, MappedVoices DEF ResetChannel
  <2>2. {s.map[c]} \in SUBSET Used(s)
      BY <2>1
  <2> QED  BY <1>0, <1>1, <2>1, <2>2
<1>7. ASSUME NEW v \in Voices, MixerReset(v)
      PROVE  PoolInv(virt') /\ ActsFit(virt')
  <2>1. {v} \in SUBSET Used(s) /\ virt' = ResetVoices(s, {v})
      BY <1>7 DEF MixerReset, Used
  <2> QED  BY <1>0, <1>1, <2>1
<1>8. ASSUME NEW t \in Tracks, NEW nna \in Nnas, SetNna(t, nna)
      PROVE  PoolInv(virt') /\ ActsFit(virt')
  <2> DEFINE act == [s.act EXCEPT ![s.map[t]] = nna]
  <2>1. Virtual /\ virt' = [s EXCEPT !.act = act]
      BY <1>8 DEF SetNna
  <2>2. act \in [Voices -> Acts]
      BY <1>0, NnasAssumption DEF PoolType
  <2>3. s.vol \in [Voices -> Levels] /\ s.ins \in [Voices -> Instruments \cup {0}]
      BY <1>0 DEF PoolType
  <2> HIDE DEF act
  <2>4. virt' = [s EXCEPT !.vol = s.vol, !.act = act, !.ins = s.ins]
      BY <1>0, <2>1, KeepFields
  <2>5. Virtual \/ act = s.act
      BY <2>1
  <2> QED  BY <1>0, <2>2, <2>3, <2>4, <2>5, AttributesInv
<1>9. ASSUME NEW t \in Tracks, PastNote(t)
      PROVE  PoolInv(virt') /\ ActsFit(virt')
  <2> DEFINE R == {v \in InBackground(s) : s.root[v] = t}
  <2>1. R \in SUBSET Used(s)
      BY <1>0, MappedVoices
  <2>2. virt' = ResetVoices(s, R)
      BY <1>9 DEF PastNote
  <2> HIDE DEF R
  <2> QED  BY <1>0, <1>1, <2>1, <2>2
<1>10. ASSUME Reset  PROVE PoolInv(virt') /\ ActsFit(virt')
  <2> DEFINE e == EmptyPool
             u == [s EXCEPT !.chn = e.chn, !.root = e.root, !.vol = e.vol,
                            !.act = e.act, !.ins = e.ins, !.map = e.map,
                            !.count = e.count, !.used = e.used]
  <2>1. VirtReset(s) = u
      BY DEF VirtReset, EmptyPool
  <2>2. e \in PoolType /\ PoolInv(e) /\ \A v \in Voices : e.act[v] = CUT
      BY EmptyPoolInv DEF PoolInv, EmptyPool
  <2> HIDE DEF e
  <2>3. /\ u \in PoolType /\ u.act = e.act
        /\ u.chn = e.chn /\ u.root = e.root /\ u.map = e.map
        /\ u.count = e.count /\ u.used = e.used
      BY <1>0, <2>2 DEF PoolType
  <2> HIDE DEF u
  <2>4. PoolInv(u)
      BY <2>2, <2>3, SameBooks
  <2>5. ActsFit(u)
      BY <2>2, <2>3 DEF ActsFit
  <2> QED  BY <1>10, <2>1, <2>4, <2>5 DEF Reset
<1>11. CASE UNCHANGED vars
    BY <1>0, <1>11 DEF vars
<1> QED  BY <1>2, <1>3, <1>4, <1>5, <1>6, <1>7, <1>8, <1>9, <1>10, <1>11 DEF Next

-----------------------------------------------------------------------------
(* The theorems                                                            *)

\* The four records of the pool agree forever, whatever the calls.
THEOREM InvariantHolds ==
    ASSUME NnaNeedsVirtual
    PROVE  Spec => []IInv
<1>1. Init => IInv
  <2>1. ActsFit(EmptyPool)
      BY DEF ActsFit, EmptyPool
  <2> QED  BY <2>1, EmptyPoolInv DEF Init, IInv
<1>2. IInv /\ [Next]_vars => IInv'
    BY NextInv
<1> QED  BY <1>1, <1>2, PTL DEF Spec

\* The pool keeps its shape and its counters stay between zero and the number
\* of voices: virt_used and the counts of channels never go negative.
THEOREM TypeCorrect ==
    ASSUME NnaNeedsVirtual
    PROVE  Spec => []TypeOK
<1>1. IInv => TypeOK
  <2> SUFFICES ASSUME IInv  PROVE TypeOK
      OBVIOUS
  <2>1. \A c \in Channels : virt.count[c] \in 0 .. MaxVoc
    <3>1. ASSUME NEW c \in Channels  PROVE virt.count[c] \in 0 .. MaxVoc
      <4>1. OwnedBy(virt, c) \in SUBSET Voices
          BY DEF OwnedBy
      <4>2. Cardinality(OwnedBy(virt, c)) \in 0 .. MaxVoc
          BY <4>1, VoiceSets
      <4> QED  BY <4>2 DEF IInv, PoolInv, CountsAgreeIn
    <3> QED  BY <3>1
  <2>2. virt.used \in 0 .. MaxVoc
    <3>1. Used(virt) \in SUBSET Voices
        BY DEF Used
    <3>2. Cardinality(Used(virt)) \in 0 .. MaxVoc
        BY <3>1, VoiceSets
    <3> QED  BY <3>2 DEF IInv, PoolInv, CountsAgreeIn
  <2> QED  BY <2>1, <2>2 DEF TypeOK, IInv, PoolInv
<1> QED  BY <1>1, InvariantHolds, PTL

\* Voices and channels are each other's inverse: no stuck notes, no channel
\* that steers a voice of another.
THEOREM MapsAlwaysAgree ==
    ASSUME NnaNeedsVirtual
    PROVE  Spec => []MapsAgree
<1>1. IInv => MapsAgree
    BY DEF IInv, PoolInv, MapsAgree
<1> QED  BY <1>1, InvariantHolds, PTL

\* The counters are the numbers of voices they stand for.
THEOREM CountsAlwaysAgree ==
    ASSUME NnaNeedsVirtual
    PROVE  Spec => []CountsAgree
<1>1. IInv => CountsAgree
    BY DEF IInv, PoolInv, CountsAgree
<1> QED  BY <1>1, InvariantHolds, PTL

\* A voice in use belongs to a track, the voice a track steers to that track.
THEOREM RootsAlwaysAgree ==
    ASSUME NnaNeedsVirtual
    PROVE  Spec => []RootsAgree
<1>1. IInv => RootsAgree
    BY DEF IInv, PoolInv, RootsAgree
<1> QED  BY <1>1, InvariantHolds, PTL

\* Maps, counts and roots agree, in pools of every size.
THEOREM TablesAlwaysAgree ==
    ASSUME NnaNeedsVirtual
    PROVE  Spec => []TablesAgree
<1>1. MapsAgree /\ CountsAgree /\ RootsAgree => TablesAgree
    BY DEF TablesAgree
<1> QED  BY <1>1, MapsAlwaysAgree, CountsAlwaysAgree, RootsAlwaysAgree, PTL

\* The search for a background channel always finds an idle one.
THEOREM RelocationAlwaysHitsIdle ==
    ASSUME NnaNeedsVirtual
    PROVE  Spec => []RelocationHitsIdle
<1>1. IInv => RelocationHitsIdle
  <2> SUFFICES ASSUME IInv,
                      NEW t \in Tracks, virt.map[t] # FREE,
                      virt.act[virt.map[t]] # CUT,
                      NEW a \in AllocVoice(virt, t), NEW b \in RelocationTarget(a.pool)
               PROVE  b \in Background /\ a.pool.map[b] = FREE
      BY DEF RelocationHitsIdle
  <2>1. virt.map[t] \in Voices
      BY Sizes DEF IInv, PoolInv, PoolType
  <2>2. Virtual
      BY <2>1 DEF IInv, ActsFit
  <2> QED  BY <2>2, AllocPushInv DEF IInv
<1> QED  BY <1>1, InvariantHolds, PTL

-----------------------------------------------------------------------------
(* What one call does to the notes that sound                              *)

\* Pool u is pool s with the voices of R silenced.
Stopped(s, u, R) ==
    /\ \A v \in Voices :
          /\ u.chn[v] = IF v \in R THEN FREE ELSE s.chn[v]
          /\ u.root[v] = IF v \in R THEN FREE ELSE s.root[v]
    /\ \A d \in Tracks : u.map[d] = IF s.map[d] \in R THEN FREE ELSE s.map[d]

\* The voices libxmp_virt_setpatch may give to a note of track t.
Fits(s, t, i) ==
    \/ i = s.map[t]
    \/ s.chn[i] = FREE
    \/ Used(s) = Voices /\ i \in FreeVoice(s)

\* The notes other than that of voice i, once track t plays there: all go on
\* as they were, the track's old one in the background if it was to be kept.
Placed(s, u, t, i) ==
    /\ \A v \in Voices \ {i, s.map[t]} : u.chn[v] = s.chn[v]
    /\ s.map[t] \in Voices \ {i} =>
          u.chn[s.map[t]] \in Background /\ u.act[s.map[t]] # CUT
    /\ \A v \in Voices \ {i} : u.root[v] = s.root[v]
    /\ \A d \in Tracks \ {t} : u.map[d] = s.map[d]

\* Voice i plays a note of instrument `in` for track t.
PlaysFor(u, t, i, in) ==
    u.chn[i] = t /\ u.root[i] = t /\ u.map[t] = i /\ u.ins[i] = in

\* The note had no sample: voice i is free and track t steers nothing.
FallsSilent(u, t, i) == u.chn[i] = FREE /\ u.root[i] = FREE /\ u.map[t] = FREE

\* From pool s, track t starts a note of instrument `in` on voice i; c is the
\* pool after the duplicates R have been silenced, u the one at the end.
Starts(s, u, t, in, R, c, i) ==
    /\ PoolInv(c)
    /\ R \subseteq {v \in OwnedBy(s, t) : s.ins[v] = in}
    /\ Stopped(s, c, R)
    /\ \A v \in Voices \ R : c.vol[v] = s.vol[v]
    /\ Fits(c, t, i)
    /\ Placed(c, u, t, i)
    /\ PlaysFor(u, t, i, in) \/ FallsSilent(u, t, i)

\* What a call does to the pool.
CallShape(s, u) ==
    \/ \E R \in SUBSET Used(s) : Stopped(s, u, R)
    \/ \E t \in Tracks, in \in Instruments, R \in SUBSET Voices, i \in Voices :
          \E c : Starts(s, u, t, in, R, c, i)

-----------------------------------------------------------------------------
(* The shape of every call                                                 *)

\* libxmp_virt_resetvoice silences the voices it is called for.
LEMMA ResetVoicesStops ==
    ASSUME NEW s, PoolInv(s), NEW R \in SUBSET Voices
    PROVE  Stopped(s, ResetVoices(s, R), R)
<1> DEFINE u == ResetVoices(s, R)
<1>0. s \in PoolType /\ Tracks \subseteq Channels
    BY Sizes DEF PoolInv
<1>1. /\ u \in PoolType
      /\ \A v \in Voices :
            /\ u.chn[v] = IF v \in R THEN FREE ELSE s.chn[v]
            /\ u.root[v] = IF v \in R THEN FREE ELSE s.root[v]
            /\ u.act[v] = IF v \in R THEN CUT ELSE s.act[v]
      /\ \A c \in Channels :
            /\ u.map[c] = IF \E v \in R : s.chn[v] = c
                          THEN FREE ELSE s.map[c]
            /\ u.count[c] = s.count[c]
                            - Cardinality({v \in R : s.root[v] = c})
      /\ u.used = s.used - Cardinality(R)
    BY <1>0, ResetVoicesFields
<1> HIDE DEF u
<1>2. ASSUME NEW d \in Tracks
      PROVE  u.map[d] = IF s.map[d] \in R THEN FREE ELSE s.map[d]
  <2>1. (\E v \in R : s.chn[v] = d) <=> s.map[d] \in R
      BY <1>0 DEF PoolInv, MapsAgreeIn
  <2>2. u.map[d] = IF \E v \in R : s.chn[v] = d THEN FREE ELSE s.map[d]
      BY <1>0, <1>1
  <2> QED  BY <2>1, <2>2
<1>3. Stopped(s, u, R)
    BY <1>1, <1>2 DEF Stopped
<1> QED  BY <1>3 DEF u

\* The tables of two pools are the same: what stops from one stops from the
\* other.
LEMMA SameTablesStop ==
    ASSUME NEW s, NEW x, NEW u, NEW R, Stopped(x, u, R),
           x.chn = s.chn, x.root = s.root, x.map = s.map
    PROVE  Stopped(s, u, R)
BY DEF Stopped

\* alloc_voice: the voice it finds, and what it changes.
LEMMA AllocFields ==
    ASSUME NEW s, PoolInv(s), NEW t \in Tracks, NEW a \in AllocVoice(s, t)
    PROVE  /\ a.voc \in Voices /\ a.voc # s.map[t] /\ Fits(s, t, a.voc)
           /\ \A v \in Voices :
                 /\ a.pool.chn[v] = IF v = a.voc THEN t ELSE s.chn[v]
                 /\ a.pool.root[v] = IF v = a.voc THEN t ELSE s.root[v]
           /\ \A d \in Tracks : a.pool.map[d] = IF d = t THEN a.voc ELSE s.map[d]
           /\ a.pool.act = s.act
           /\ a.pool \in PoolType
<1>0. s \in PoolType /\ Tracks \subseteq Channels
    BY Sizes DEF PoolInv
<1>1. a.voc \in Voices /\ a.voc # s.map[t]
    BY AllocCases
<1>2. \E x \in PoolType :
         /\ Fits(s, t, a.voc)
         /\ a.pool = Claim(x, a.voc, t)
         /\ x.chn = s.chn /\ x.root = s.root /\ x.act = s.act
         /\ \A d \in Tracks : x.map[d] = s.map[d]
  <2>1. CASE Voices \ Used(s) # {}
    <3>1. PICK i \in Voices \ Used(s) : a = [pool |-> Claim(s, i, t), voc |-> i]
        BY <2>1 DEF AllocVoice
    <3>2. Fits(s, t, i)
        BY <3>1 DEF Fits, Used
    <3> QED  BY <1>0, <3>1, <3>2
  <2>2. CASE Voices \ Used(s) = {}
    <3>1. PICK i \in FreeVoice(s) :
                  a = [pool |-> Claim(Unlink(s, {i}), i, t), voc |-> i]
        BY <2>2 DEF AllocVoice
    <3>2. i \in Voices /\ s.chn[i] \notin Tracks
        BY <3>1, TracksAssumption DEF FreeVoice, InBackground, Tracks
    <3>3. Fits(s, t, i)
        BY <2>2, <3>1 DEF Fits, Used
    <3> DEFINE R == {i}
               x == Unlink(s, R)
               r == ResetVoices(s, R)
    <3>4. R \in SUBSET Voices /\ \A v : v \in R <=> v = i
        BY <3>2
    <3>5. a.pool = Claim(x, i, t) /\ a.voc = i
        BY <3>1
    <3> HIDE DEF R
    <3>6. /\ x.map = r.map /\ x.chn = s.chn /\ x.root = s.root
          /\ x.act = s.act /\ x \in PoolType
        BY <1>0, <3>4, UnlinkFields
    <3>7. Stopped(s, r, R)
        BY <3>4, ResetVoicesStops
    <3> HIDE DEF x, r
    <3>8. \A d \in Tracks : x.map[d] = s.map[d]
      <4>1. ASSUME NEW d \in Tracks  PROVE s.map[d] # i
          BY <1>0, <3>2 DEF PoolInv, MapsAgreeIn
      <4> QED  BY <3>4, <3>6, <3>7, <4>1 DEF Stopped
    <3> QED  BY <3>3, <3>5, <3>6, <3>8
  <2> QED  BY <2>1, <2>2
<1>3. PICK x \in PoolType :
         /\ Fits(s, t, a.voc)
         /\ a.pool = Claim(x, a.voc, t)
         /\ x.chn = s.chn /\ x.root = s.root /\ x.act = s.act
         /\ \A d \in Tracks : x.map[d] = s.map[d]
    BY <1>2
<1> DEFINE i == a.voc
           u == Claim(x, i, t)
<1>4. i \in Voices
    BY <1>1
<1>5. /\ \A v \in Voices : /\ u.chn[v] = IF v = i THEN t ELSE x.chn[v]
                           /\ u.root[v] = IF v = i THEN t ELSE x.root[v]
      /\ \A c \in Channels : u.map[c] = IF c = t THEN i ELSE x.map[c]
      /\ u.act = x.act /\ u \in PoolType
  <2> HIDE DEF i
  <2> QED  BY <1>3, <1>4, ClaimFields
<1>6. a.pool = u
    BY <1>3
<1> HIDE DEF u
<1> QED  BY <1>0, <1>1, <1>3, <1>5, <1>6

\* A voice changes hands when it is zeroed: what resetvoice leaves of the
\* volumes and instruments of the others.
LEMMA ResetVoicesKeeps ==
    ASSUME NEW s, NEW R \in SUBSET Voices, NEW v \in Voices \ R
    PROVE  /\ ResetVoices(s, R).vol[v] = s.vol[v]
           /\ ResetVoices(s, R).ins[v] = s.ins[v]
           /\ ResetVoices(s, R).act[v] = s.act[v]
BY DEF ResetVoices

\* check_dct silences voices of the new note's track and instrument, and
\* changes no volume.
LEMMA CheckDctStops ==
    ASSUME NEW s, PoolInv(s), NnaNeedsVirtual,
           NEW t \in Tracks, NEW in \in Instruments, NEW nna \in Nnas,
           NEW dca \in Acts,
           NEW dups \in SUBSET {v \in OwnedBy(s, t) : s.ins[v] = in}
    PROVE  \E R \in SUBSET {v \in OwnedBy(s, t) : s.ins[v] = in} :
              /\ Stopped(s, CheckDct(s, t, in, nna, dca, dups), R)
              /\ \A v \in Voices \ R :
                    CheckDct(s, t, in, nna, dca, dups).vol[v] = s.vol[v]
<1> DEFINE same  == {v \in OwnedBy(s, t) : s.ins[v] = in}
           reset == IF nna = CUT THEN same
                    ELSE IF dca = CUT THEN dups ELSE {}
           onDup == IF nna = OFF /\ dca = FADE THEN OFF ELSE dca
           act   == [v \in Voices |->
                        IF v \in same THEN IF v \in dups THEN onDup ELSE nna
                                      ELSE s.act[v]]
           acted == [s EXCEPT !.act = act]
<1>1. CheckDct(s, t, in, nna, dca, dups) = ResetVoices(acted, reset)
    BY DEF CheckDct
<1>2. act \in [Voices -> Acts]
    BY NnasAssumption DEF PoolInv, PoolType, Acts
<1>3. same \in SUBSET Voices /\ reset \in SUBSET same
    BY DEF OwnedBy
<1> HIDE DEF act
<1>4. /\ acted \in PoolType
      /\ acted.chn = s.chn /\ acted.root = s.root /\ acted.map = s.map
      /\ acted.count = s.count /\ acted.used = s.used /\ acted.vol = s.vol
    BY <1>2 DEF PoolInv, PoolType
<1> HIDE DEF acted, reset
<1>5. PoolInv(acted)
    BY <1>4, SameBooks
<1>6. Stopped(acted, ResetVoices(acted, reset), reset)
    BY <1>3, <1>5, ResetVoicesStops
<1>7. Stopped(s, ResetVoices(acted, reset), reset)
    BY <1>4, <1>6, SameTablesStop
<1>8. \A v \in Voices \ reset : ResetVoices(acted, reset).vol[v] = s.vol[v]
    BY <1>3, <1>4, ResetVoicesKeeps
<1> QED  BY <1>1, <1>3, <1>7, <1>8

\* Where libxmp_virt_setpatch places a note: the voice fits, plays for the
\* track, and the other notes go on.
LEMMA PlacementsShape ==
    ASSUME NEW s, PoolInv(s), ActsFit(s), NEW t \in Tracks,
           NEW p \in Placements(s, t)
    PROVE  /\ p.voc \in Voices /\ Fits(s, t, p.voc) /\ Placed(s, p.pool, t, p.voc)
           /\ p.pool.chn[p.voc] = t /\ p.pool.root[p.voc] = t
           /\ p.pool.map[t] = p.voc
<1> DEFINE voc == s.map[t]
<1>0. s \in PoolType /\ Tracks \subseteq Channels /\ voc \in Voices \cup {FREE}
    BY Sizes DEF PoolInv, PoolType
<1>1. CASE voc = FREE
  <2>1. PICK a \in AllocVoice(s, t) : p = [pool |-> a.pool, voc |-> a.voc, to |-> t]
      BY <1>1 DEF Placements
  <2>2. /\ a.voc \in Voices /\ a.voc # s.map[t] /\ Fits(s, t, a.voc)
        /\ \A v \in Voices :
              /\ a.pool.chn[v] = IF v = a.voc THEN t ELSE s.chn[v]
              /\ a.pool.root[v] = IF v = a.voc THEN t ELSE s.root[v]
        /\ \A d \in Tracks : a.pool.map[d] = IF d = t THEN a.voc ELSE s.map[d]
      BY <2>1, AllocFields
  <2>3. s.map[t] \notin Voices
      BY <1>1, Sizes
  <2> QED  BY <2>1, <2>2, <2>3 DEF Placed
<1>2. CASE voc # FREE /\ s.act[voc] = CUT
  <2>1. p = [pool |-> s, voc |-> voc, to |-> t]
      BY <1>2 DEF Placements
  <2>2. voc \in Voices /\ s.chn[voc] = t /\ s.root[voc] = t
      BY <1>0, <1>2 DEF PoolInv, MapsAgreeIn, RootsAgreeIn
  <2> QED  BY <2>1, <2>2 DEF Placed, Fits
<1>3. CASE voc # FREE /\ s.act[voc] # CUT
  <2>0. Virtual /\ voc \in Voices
      BY <1>0, <1>3 DEF ActsFit
  <2>1. PICK a \in AllocVoice(s, t) : \E b \in RelocationTarget(a.pool) :
                p = [pool |-> MoveVoice(a.pool, voc, b), voc |-> a.voc, to |-> b]
      BY <1>3 DEF Placements
  <2>2. PICK b \in RelocationTarget(a.pool) :
                p = [pool |-> MoveVoice(a.pool, voc, b), voc |-> a.voc, to |-> b]
      BY <2>1
  <2>3. b \in Background
      BY <1>3, <2>0, AllocPushInv
  <2>4. /\ a.voc \in Voices /\ a.voc # voc /\ Fits(s, t, a.voc)
        /\ \A v \in Voices :
              /\ a.pool.chn[v] = IF v = a.voc THEN t ELSE s.chn[v]
              /\ a.pool.root[v] = IF v = a.voc THEN t ELSE s.root[v]
        /\ \A d \in Tracks : a.pool.map[d] = IF d = t THEN a.voc ELSE s.map[d]
        /\ a.pool.act = s.act
        /\ a.pool \in PoolType
      BY <2>1, AllocFields
  <2>5. b \in Channels /\ b \notin Tracks
      BY <2>3 DEF Background
  <2> DEFINE u == MoveVoice(a.pool, voc, b)
  <2>6. /\ \A v \in Voices : u.chn[v] = IF v = voc THEN b ELSE a.pool.chn[v]
        /\ \A c \in Channels : u.map[c] = IF c = b THEN voc ELSE a.pool.map[c]
        /\ u.root = a.pool.root /\ u.act = a.pool.act
    <3> HIDE DEF voc
    <3> QED  BY <2>0, <2>4, <2>5, MoveVoiceFields
  <2>7. p.pool = u /\ p.voc = a.voc
      BY <2>2
  <2> HIDE DEF u
  <2>8. \A d \in Tracks : u.map[d] = IF d = t THEN a.voc ELSE s.map[d]
      BY <1>0, <2>4, <2>5, <2>6
  <2>9. Placed(s, u, t, a.voc)
      BY <1>3, <2>0, <2>3, <2>4, <2>6, <2>8 DEF Placed
  <2> QED  BY <2>0, <2>4, <2>6, <2>7, <2>8, <2>9
<1> QED  BY <1>0, <1>1, <1>2, <1>3

\* The end of libxmp_virt_setpatch: the note sounds, or has no sample.
LEMMA NoteEnds ==
    ASSUME NEW s, PoolInv(s), ActsFit(s), NEW t \in Tracks,
           NEW p \in Placements(s, t), NEW in \in Instruments, NEW nna \in Nnas,
           NEW u, \/ u = StartNote(p.pool, p.voc, in, nna)
                  \/ u = ResetVoices(p.pool, {p.voc})
    PROVE  /\ p.voc \in Voices /\ Fits(s, t, p.voc)
           /\ Placed(s, u, t, p.voc)
           /\ PlaysFor(u, t, p.voc, in) \/ FallsSilent(u, t, p.voc)
<1> DEFINE i == p.voc
           q == p.pool
<1>1. /\ i \in Voices /\ Fits(s, t, i) /\ Placed(s, q, t, i)
      /\ q.chn[i] = t /\ q.root[i] = t /\ q.map[t] = i
    BY PlacementsShape
<1>2. PoolInv(q) /\ q \in PoolType
    BY PlacementsInv DEF PoolInv
<1> HIDE DEF i, q
<1>3. CASE u = StartNote(q, i, in, nna)
  <2>1. /\ u.chn = q.chn /\ u.root = q.root /\ u.map = q.map
        /\ u.act = [q.act EXCEPT ![i] = nna] /\ u.ins = [q.ins EXCEPT ![i] = in]
      BY <1>2, <1>3 DEF StartNote, PoolType
  <2>2. q.act \in [Voices -> Acts] /\ q.ins \in [Voices -> Instruments \cup {0}]
      BY <1>2 DEF PoolType
  <2>3. u.ins[i] = in /\ \A v \in Voices \ {i} : u.act[v] = q.act[v]
      BY <1>1, <2>1, <2>2
  <2>4. Placed(s, u, t, i)
      BY <1>1, <2>1, <2>3 DEF Placed
  <2>5. PlaysFor(u, t, i, in)
      BY <1>1, <2>1, <2>3 DEF PlaysFor
  <2> QED  BY <1>1, <2>4, <2>5 DEF i
<1>4. CASE u = ResetVoices(q, {i})
  <2>1. Stopped(q, u, {i})
      BY <1>1, <1>2, <1>4, ResetVoicesStops
  <2>2. \A v \in Voices \ {i} : u.act[v] = q.act[v]
    <3>1. {i} \in SUBSET Voices
        BY <1>1
    <3> QED  BY <1>4, <3>1, ResetVoicesKeeps
  <2>3. /\ u.chn[i] = FREE /\ u.root[i] = FREE
        /\ \A v \in Voices \ {i} : u.chn[v] = q.chn[v] /\ u.root[v] = q.root[v]
        /\ \A d \in Tracks : u.map[d] = IF q.map[d] = i THEN FREE ELSE q.map[d]
      BY <1>1, <2>1 DEF Stopped
  <2>4. \A d \in Tracks \ {t} : q.map[d] # i
      BY <1>1, <1>2, Sizes DEF PoolInv, MapsAgreeIn
  <2>5. Placed(s, u, t, i)
      BY <1>1, <2>2, <2>3, <2>4 DEF Placed
  <2>6. FallsSilent(u, t, i)
      BY <1>1, <2>3 DEF FallsSilent
  <2> QED  BY <1>1, <2>5, <2>6 DEF i
<1> QED  BY <1>3, <1>4 DEF i, q

\* libxmp_virt_setpatch, whatever note it is asked for.
LEMMA SetPatchShape ==
    ASSUME NEW s, PoolInv(s), ActsFit(s), NnaNeedsVirtual,
           NEW t \in Tracks, NEW in \in Instruments, NEW sample \in BOOLEAN,
           NEW nna \in Nnas, NEW dct, NEW dca \in Acts,
           NEW dups \in SUBSET {v \in OwnedBy(s, t) : s.ins[v] = in},
           NEW r \in SetPatch(s, t, in, sample, nna, dct, dca, dups)
    PROVE  CallShape(s, r.pool)
<1> DEFINE c == IF dct = DctOff THEN s ELSE CheckDct(s, t, in, nna, dca, dups)
<1>1. PoolInv(c) /\ ActsFit(c)
    BY CheckDctInv
<1>2. PICK R \in SUBSET {v \in OwnedBy(s, t) : s.ins[v] = in} :
         Stopped(s, c, R) /\ \A v \in Voices \ R : c.vol[v] = s.vol[v]
  <2>1. CASE dct = DctOff
    <3>1. Stopped(s, s, {})
        BY DEF Stopped
    <3> QED  BY <2>1, <3>1
  <2>2. CASE dct # DctOff
      BY <2>2, CheckDctStops
  <2> QED  BY <2>1, <2>2
<1>3. \/ r.pool = c
      \/ \E p \in Placements(c, t) :
            \/ r.pool = StartNote(p.pool, p.voc, in, nna)
            \/ r.pool = ResetVoices(p.pool, {p.voc})
  <2> DEFINE places == Placements(c, t)
  <2>1. r \in IF places = {} THEN {[pool |-> c, to |-> -1, voc |-> FREE]}
              ELSE IF sample
              THEN {[pool |-> StartNote(p.pool, p.voc, in, nna), to |-> p.to,
                     voc  |-> p.voc] : p \in places}
              ELSE {[pool |-> ResetVoices(p.pool, {p.voc}), to |-> p.to,
                     voc  |-> FREE] : p \in places}
      BY DEF SetPatch
  <2> HIDE DEF c, places
  <2>2. \/ r.pool = c
        \/ \E p \in places :
              \/ r.pool = StartNote(p.pool, p.voc, in, nna)
              \/ r.pool = ResetVoices(p.pool, {p.voc})
      BY <2>1
  <2> QED  BY <2>2 DEF places
<1> HIDE DEF c
<1>4. R \in SUBSET Voices /\ R \in SUBSET Used(s)
  <2>1. t # FREE
      BY Sizes
  <2> QED  BY <2>1 DEF OwnedBy, Used, PoolInv, RootsAgreeIn
<1>5. CASE r.pool = c
    BY <1>2, <1>4, <1>5 DEF CallShape
<1>6. ASSUME NEW p \in Placements(c, t),
             \/ r.pool = StartNote(p.pool, p.voc, in, nna)
             \/ r.pool = ResetVoices(p.pool, {p.voc})
      PROVE  CallShape(s, r.pool)
  <2>1. /\ p.voc \in Voices /\ Fits(c, t, p.voc)
        /\ Placed(c, r.pool, t, p.voc)
        /\ PlaysFor(r.pool, t, p.voc, in) \/ FallsSilent(r.pool, t, p.voc)
      BY <1>1, <1>6, NoteEnds
  <2>2. Starts(s, r.pool, t, in, R, c, p.voc)
      BY <1>1, <1>2, <2>1 DEF Starts
  <2> QED  BY <1>4, <2>1, <2>2 DEF CallShape
<1> QED  BY <1>3, <1>5, <1>6

\* Every call of the virtual channel manager silences voices or starts a note.
LEMMA NextShape ==
    ASSUME NnaNeedsVirtual, IInv, [Next]_vars
    PROVE  CallShape(virt, virt')
<1> DEFINE s == virt
<1>0. PoolInv(s) /\ ActsFit(s) /\ s \in PoolType
    BY DEF IInv, PoolInv
<1>1. ASSUME NEW x, x.chn = s.chn, x.root = s.root, x.map = s.map,
             PoolInv(x), NEW R \in SUBSET Used(s), virt' = ResetVoices(x, R)
      PROVE  CallShape(s, virt')
  <2>1. Stopped(x, ResetVoices(x, R), R)
    <3>1. R \in SUBSET Voices
        BY DEF Used
    <3> QED  BY <1>1, <3>1, ResetVoicesStops
  <2>2. Stopped(s, ResetVoices(x, R), R)
      BY <1>1, <2>1, SameTablesStop
  <2> QED  BY <1>1, <2>2 DEF CallShape
<1>2. ASSUME NEW x, x.chn = s.chn, x.root = s.root, x.map = s.map, virt' = x
      PROVE  CallShape(s, virt')
  <2>1. Stopped(s, x, {})
      BY <1>2 DEF Stopped
  <2> QED  BY <1>2, <2>1 DEF CallShape
<1>3. ASSUME NEW t \in Tracks, NEW in \in Instruments, NEW sample \in BOOLEAN,
             NEW nna \in Nnas, NEW d \in DuplicateChecks,
             NoteOn(t, in, sample, nna, d[1], d[2])
      PROVE  CallShape(s, virt')
  <2>1. d[2] \in Acts
      BY DcasAssumption DEF DuplicateChecks, Acts
  <2>2. PICK dups \in Duplicates(s, t, in, d[1]) :
           \E r \in SetPatch(s, t, in, sample, nna, d[1], d[2], dups) : virt' = r.pool
      BY <1>3 DEF NoteOn
  <2>3. dups \in SUBSET {v \in OwnedBy(s, t) : s.ins[v] = in}
      BY DEF Duplicates
  <2>4. PICK r \in SetPatch(s, t, in, sample, nna, d[1], d[2], dups) : virt' = r.pool
      BY <2>2
  <2>5. CallShape(s, r.pool)
      BY <1>0, <2>1, <2>3, SetPatchShape
  <2> QED  BY <2>4, <2>5
<1>4. ASSUME NEW t \in Tracks, NEW in \in Instruments \cup {FREE},
             NEW sample \in BOOLEAN, QueuePatch(t, in, sample)
      PROVE  CallShape(s, virt')
  <2>1. CASE s.map[t] = FREE
    <3>1. in \in Instruments
        BY <1>4, <2>1 DEF QueuePatch
    <3>2. PICK r \in SetPatch(s, t, in, TRUE, CUT, DctOff, CUT, {}) : virt' = r.pool
        BY <1>4, <2>1 DEF QueuePatch
    <3>3. CUT \in Nnas /\ CUT \in Acts
        BY NnasAssumption DEF Acts
    <3>4. {} \in SUBSET {v \in OwnedBy(s, t) : s.ins[v] = in}
        OBVIOUS
    <3>5. CallShape(s, r.pool)
        BY <1>0, <3>1, <3>3, <3>4, SetPatchShape
    <3> QED  BY <3>2, <3>5
  <2>2. CASE s.map[t] # FREE
    <3>1. /\ virt'.chn = s.chn /\ virt'.root = s.root /\ virt'.map = s.map
        BY <1>0, <1>4, <2>2 DEF QueuePatch, PoolType
    <3> QED  BY <1>2, <3>1
  <2> QED  BY <2>1, <2>2
<1>5. ASSUME NEW c \in Channels, NEW level \in Levels, SetVol(c, level)
      PROVE  CallShape(s, virt')
  <2> DEFINE voc == s.map[c]
             vol == [s.vol EXCEPT ![voc] = level]
             set == [s EXCEPT !.vol = vol]
  <2>1. voc # FREE /\ (virt' = set \/ virt' = ResetVoices(set, {voc}))
      BY <1>5 DEF SetVol
  <2>2. vol \in [Voices -> Levels]
      BY <1>0 DEF PoolType
  <2> HIDE DEF vol
  <2>3. /\ set.chn = s.chn /\ set.root = s.root /\ set.map = s.map
        /\ set.count = s.count /\ set.used = s.used /\ set \in PoolType
      BY <1>0, <2>2 DEF PoolType
  <2> HIDE DEF set
  <2>4. PoolInv(set)
      BY <1>0, <2>3, SameBooks
  <2>5. {voc} \in SUBSET Used(s)
      BY <1>0, <2>1, MappedVoices
  <2> QED  BY <1>1, <1>2, <2>1, <2>3, <2>4, <2>5
<1>6. ASSUME NEW c \in Channels, SetSmp(c)
      PROVE  CallShape(s, virt')
  <2>1. virt'.chn = s.chn /\ virt'.root = s.root /\ virt'.map = s.map
      BY <1>0, <1>6 DEF SetSmp, PoolType
  <2> QED  BY <1>2, <2>1
<1>7. ASSUME NEW c \in Channels, ResetChannel(c)
      PROVE  CallShape(s, virt')
  <2>1. {s.map[c]} \in SUBSET Used(s) /\ virt' = ResetVoices(s, {s.map[c]})
      BY <1>0, <1>7, MappedVoices DEF ResetChannel
  <2> QED  BY <1>0, <1>1, <2>1
<1>8. ASSUME NEW v \in Voices, MixerReset(v)
      PROVE  CallShape(s, virt')
  <2>1. {v} \in SUBSET Used(s) /\ virt' = ResetVoices(s, {v})
      BY <1>8 DEF MixerReset, Used
  <2> QED  BY <1>0, <1>1, <2>1
<1>9. ASSUME NEW t \in Tracks, NEW nna \in Nnas, SetNna(t, nna)
      PROVE  CallShape(s, virt')
  <2>1. virt'.chn = s.chn /\ virt'.root = s.root /\ virt'.map = s.map
      BY <1>0, <1>9 DEF SetNna, PoolType
  <2> QED  BY <1>2, <2>1
<1>10. ASSUME NEW t \in Tracks, PastNote(t)
      PROVE  CallShape(s, virt')
  <2> DEFINE R == {v \in InBackground(s) : s.root[v] = t}
  <2>1. R \in SUBSET Used(s)
      BY <1>0, MappedVoices
  <2>2. virt' = ResetVoices(s, R)
      BY <1>10 DEF PastNote
  <2> HIDE DEF R
  <2> QED  BY <1>0, <1>1, <2>1, <2>2
<1>11. ASSUME Reset  PROVE CallShape(s, virt')
  <2>1. /\ \A v \in Voices : virt'.chn[v] = FREE /\ virt'.root[v] = FREE
        /\ \A c \in Channels : virt'.map[c] = FREE
      BY <1>0, <1>11 DEF Reset, VirtReset, PoolType
  <2>2. \A v \in Voices \ Used(s) : s.chn[v] = FREE /\ s.root[v] = FREE
      BY <1>0 DEF Used, PoolInv, RootsAgreeIn, PoolType
  <2>3. \A d \in Tracks : s.map[d] # FREE => s.map[d] \in Used(s)
      BY <1>0, MappedVoices, Sizes
  <2>4. Stopped(s, virt', Used(s))
      BY <2>1, <2>2, <2>3, Sizes DEF Stopped, Used
  <2> QED  BY <2>4 DEF CallShape
<1>12. CASE UNCHANGED vars
    BY <1>2, <1>12 DEF vars
<1> QED
    BY <1>3, <1>4, <1>5, <1>6, <1>7, <1>8, <1>9, <1>10, <1>11, <1>12 DEF Next

-----------------------------------------------------------------------------
(* What the shape of a call says of the notes that sound                   *)

\* Pool c is pool s without the notes of R, all of track t and instrument `in`.
OnlyDuplicatesGone(s, c, t, in, R) ==
    /\ \A v \in R : s.root[v] = t /\ s.ins[v] = in /\ s.chn[v] # FREE
    /\ \A v \in Voices : /\ c.chn[v] = IF v \in R THEN FREE ELSE s.chn[v]
                         /\ c.root[v] = IF v \in R THEN FREE ELSE s.root[v]
    /\ \A d \in Tracks \ {t} : c.map[d] = s.map[d]
    /\ c.map[t] = IF s.map[t] \in R THEN FREE ELSE s.map[t]

\* The duplicates a new note silences were in no other track's foreground, and
\* what is left of the pool is as before.
LEMMA DuplicatesOwn ==
    ASSUME NEW s, PoolInv(s), NEW u, NEW t \in Tracks, NEW in \in Instruments,
           NEW R \in SUBSET Voices, NEW c, NEW i \in Voices,
           Starts(s, u, t, in, R, c, i)
    PROVE  OnlyDuplicatesGone(s, c, t, in, R)
<1>1. \A v \in R : s.root[v] = t /\ s.ins[v] = in
    BY DEF Starts, OwnedBy
<1>2. \A v \in R : s.chn[v] # FREE
    BY <1>1 DEF PoolInv, RootsAgreeIn
<1>3. Stopped(s, c, R)
    BY DEF Starts
<1>4. ASSUME NEW d \in Tracks \ {t}  PROVE s.map[d] \notin R
  <2>1. SUFFICES ASSUME s.map[d] \in R  PROVE FALSE
      OBVIOUS
  <2>2. d \in Channels /\ s.map[d] \in Voices
      BY <2>1, Sizes
  <2>3. s.chn[s.map[d]] = d
      BY <2>2 DEF PoolInv, MapsAgreeIn
  <2>4. s.root[s.map[d]] = d
      BY <2>2, <2>3 DEF PoolInv, RootsAgreeIn
  <2> QED  BY <1>1, <2>1, <2>4
<1> QED  BY <1>1, <1>2, <1>3, <1>4 DEF Stopped, OnlyDuplicatesGone

\* The voices that play in the background play for no track, and are in use.
LEMMA BackgroundVoices ==
    ASSUME NEW s, NEW v \in InBackground(s)
    PROVE  v \in Voices /\ s.chn[v] \notin Tracks /\ s.chn[v] # FREE
BY TracksAssumption DEF InBackground, Tracks, FREE

\* A call that gives a background voice to a track has cut a duplicate, or has
\* found every voice in use and taken the quietest.
LEMMA ShapeStealsQuietest ==
    ASSUME NEW s, PoolInv(s), NEW u, CallShape(s, u),
           NEW v \in InBackground(s), u.chn[v] \in Tracks
    PROVE  \/ s.root[v] = u.chn[v] /\ s.ins[v] = u.ins[v]
           \/ /\ Used(s) = Voices
              /\ \A w \in InBackground(s) : s.vol[v] <= s.vol[w]
<1>0. v \in Voices /\ s.chn[v] \notin Tracks /\ s.chn[v] # FREE /\ FREE \notin Tracks
    BY BackgroundVoices, Sizes
<1>1. \A R \in SUBSET Used(s) : ~Stopped(s, u, R)
    BY <1>0 DEF Stopped
<1>2. PICK t \in Tracks, in \in Instruments, R \in SUBSET Voices, i \in Voices :
         \E c : Starts(s, u, t, in, R, c, i)
    BY <1>1 DEF CallShape
<1>3. PICK c : Starts(s, u, t, in, R, c, i)
    BY <1>2
<1>4. /\ \A x \in R : s.root[x] = t /\ s.ins[x] = in /\ s.chn[x] # FREE
      /\ \A x \in Voices : /\ c.chn[x] = IF x \in R THEN FREE ELSE s.chn[x]
                           /\ c.root[x] = IF x \in R THEN FREE ELSE s.root[x]
      /\ \A d \in Tracks \ {t} : c.map[d] = s.map[d]
      /\ c.map[t] = IF s.map[t] \in R THEN FREE ELSE s.map[t]
  <2>1. OnlyDuplicatesGone(s, c, t, in, R)
      BY <1>3, DuplicatesOwn
  <2> QED  BY <2>1 DEF OnlyDuplicatesGone
<1>5. v = i
  <2>1. SUFFICES ASSUME v # i  PROVE FALSE
      OBVIOUS
  <2>2. CASE v = c.map[t]
      BY <1>0, <1>3, <2>1, <2>2 DEF Starts, Placed, Background
  <2>3. CASE v # c.map[t]
      BY <1>0, <1>3, <1>4, <2>1, <2>3 DEF Starts, Placed
  <2> QED  BY <2>2, <2>3
<1>6. PlaysFor(u, t, i, in)
    BY <1>0, <1>3, <1>5, Sizes DEF Starts, FallsSilent
<1>7. CASE i = c.map[t]
  <2>1. c.chn[i] = t
      BY <1>3, <1>7, Sizes DEF Starts, PoolInv, MapsAgreeIn
  <2> QED  BY <1>0, <1>4, <1>5, <2>1, Sizes
<1>8. CASE c.chn[i] = FREE
  <2>1. i \in R
      BY <1>0, <1>4, <1>5, <1>8
  <2> QED  BY <1>4, <1>5, <1>6, <2>1 DEF PlaysFor
<1>9. CASE Used(c) = Voices /\ i \in FreeVoice(c)
  <2>1. R = {}
      BY <1>4, <1>9 DEF Used
  <2>2. \A x \in Voices : c.chn[x] = s.chn[x] /\ c.vol[x] = s.vol[x]
      BY <1>3, <1>4, <2>1 DEF Starts
  <2>3. Used(s) = Voices /\ InBackground(c) = InBackground(s)
      BY <1>9, <2>2 DEF Used, InBackground
  <2>4. \A w \in InBackground(s) : c.vol[i] < c.vol[w] \/ c.vol[i] = c.vol[w]
      BY <1>9, <2>3 DEF FreeVoice
  <2>5. \A w \in InBackground(s) : s.vol[i] < s.vol[w] \/ s.vol[i] = s.vol[w]
      BY <2>2, <2>4 DEF InBackground
  <2>6. \A w \in InBackground(s) : s.vol[w] \in Int
    <3>1. s.vol \in [Voices -> Levels]
        BY DEF PoolInv, PoolType
    <3>2. ASSUME NEW w \in InBackground(s)  PROVE s.vol[w] \in Int
      <4>1. s.vol[w] \in Levels
          BY <3>1 DEF InBackground
      <4>2. s.vol[w] \in Nat
          BY <4>1, LevelsAssumption
      <4> QED  BY <4>2
    <3> QED  BY <3>2
  <2>7. \A w \in InBackground(s) : s.vol[i] <= s.vol[w]
      BY <1>5, <2>5, <2>6
  <2> QED  BY <1>5, <2>3, <2>7
<1> QED  BY <1>3, <1>7, <1>8, <1>9 DEF Starts, Fits

\* A call that takes a track's voice out of it pushed its note aside for a new
\* one of the same track.
LEMMA ShapeKeepsForeground ==
    ASSUME NEW s, PoolInv(s), NEW u, CallShape(s, u),
           NEW d \in Tracks, s.map[d] # FREE, u.chn[s.map[d]] \notin {d, FREE}
    PROVE  /\ u.chn[s.map[d]] \in Background
           /\ u.root[s.map[d]] = d
           /\ u.act[s.map[d]] # CUT
           /\ u.map[d] # s.map[d]
           /\ \A e \in Tracks \ {d} : u.map[e] = s.map[e]
<1> DEFINE v == s.map[d]
<1>0. v \in Voices /\ s.chn[v] = d /\ s.root[v] = d
  <2>1. v \in Voices /\ d \in Channels
      BY Sizes DEF PoolInv, PoolType
  <2>2. s.chn[v] = d
      BY <2>1 DEF PoolInv, MapsAgreeIn
  <2> QED  BY <2>1, <2>2 DEF PoolInv, RootsAgreeIn
<1> HIDE DEF v
<1>a. u.chn[v] \notin {d, FREE}
    BY DEF v
<1>1. \A R \in SUBSET Used(s) : ~Stopped(s, u, R)
    BY <1>0, <1>a DEF Stopped
<1>2. PICK t \in Tracks, in \in Instruments, R \in SUBSET Voices, i \in Voices :
         \E c : Starts(s, u, t, in, R, c, i)
    BY <1>1 DEF CallShape
<1>3. PICK c : Starts(s, u, t, in, R, c, i)
    BY <1>2
<1>4. /\ \A x \in R : s.root[x] = t /\ s.ins[x] = in /\ s.chn[x] # FREE
      /\ \A x \in Voices : /\ c.chn[x] = IF x \in R THEN FREE ELSE s.chn[x]
                           /\ c.root[x] = IF x \in R THEN FREE ELSE s.root[x]
      /\ \A e \in Tracks \ {t} : c.map[e] = s.map[e]
      /\ c.map[t] = IF s.map[t] \in R THEN FREE ELSE s.map[t]
  <2>1. OnlyDuplicatesGone(s, c, t, in, R)
      BY <1>3, DuplicatesOwn
  <2> QED  BY <2>1 DEF OnlyDuplicatesGone
<1>5. PoolInv(c) /\ Fits(c, t, i) /\ Placed(c, u, t, i)
      /\ (PlaysFor(u, t, i, in) \/ FallsSilent(u, t, i))
    BY <1>3 DEF Starts
<1>6. v # i
  <2>1. SUFFICES ASSUME v = i  PROVE FALSE
      OBVIOUS
  <2>2. u.chn[v] = t /\ t # d
      BY <1>5, <1>a, <2>1 DEF PlaysFor, FallsSilent
  <2>3. v \notin R /\ c.chn[v] = d
      BY <1>0, <1>4, <2>2
  <2>4. i # c.map[t]
      BY <1>5, <2>1, <2>2, <2>3, Sizes DEF PoolInv, MapsAgreeIn
  <2>5. c.chn[i] # FREE
      BY <2>1, <2>3, Sizes
  <2>6. i \notin FreeVoice(c)
    <3>1. i \notin InBackground(c)
        BY <2>1, <2>3, BackgroundVoices
    <3> QED  BY <3>1 DEF FreeVoice
  <2> QED  BY <1>5, <2>4, <2>5, <2>6 DEF Fits
<1>7. v = c.map[t] /\ t = d
  <2>1. v \in R => c.chn[v] = FREE
      BY <1>0, <1>4
  <2>2. v \notin R => c.chn[v] = d
      BY <1>0, <1>4
  <2>3. c.chn[v] = u.chn[v] \/ v = c.map[t]
      BY <1>0, <1>5, <1>6 DEF Placed
  <2>4. v = c.map[t]
      BY <1>a, <2>1, <2>2, <2>3
  <2>5. c.chn[v] = t
      BY <1>0, <1>5, <2>4, Sizes DEF PoolInv, MapsAgreeIn
  <2> QED  BY <2>1, <2>2, <2>4, <2>5, Sizes
<1>8. v \notin R
    BY <1>0, <1>4, <1>7, Sizes
<1>9. u.chn[v] \in Background /\ u.act[v] # CUT
    BY <1>0, <1>5, <1>6, <1>7 DEF Placed
<1>10. u.root[v] = d
    BY <1>0, <1>4, <1>5, <1>6, <1>8 DEF Placed
<1>11. u.map[d] # v
    BY <1>0, <1>5, <1>6, <1>7, Sizes DEF PlaysFor, FallsSilent
<1>12. \A e \in Tracks \ {d} : u.map[e] = s.map[e]
    BY <1>4, <1>5, <1>7 DEF Placed
<1> QED  BY <1>9, <1>10, <1>11, <1>12 DEF v

\* Only a quietest background note is ever stolen, and only when no voice is
\* left.
THEOREM AlwaysStealsQuietest ==
    ASSUME NnaNeedsVirtual
    PROVE  Spec => StealsQuietest
<1>1. IInv /\ [Next]_vars =>
        [\A v \in InBackground(virt) : virt'.chn[v] \in Tracks =>
            \/ virt.root[v] = virt'.chn[v] /\ virt.ins[v] = virt'.ins[v]
            \/ /\ Used(virt) = Voices
               /\ \A w \in InBackground(virt) : virt.vol[v] <= virt.vol[w]]_vars
  <2> SUFFICES ASSUME IInv, [Next]_vars, NEW v \in InBackground(virt),
                      virt'.chn[v] \in Tracks
               PROVE  \/ virt.root[v] = virt'.chn[v] /\ virt.ins[v] = virt'.ins[v]
                      \/ /\ Used(virt) = Voices
                         /\ \A w \in InBackground(virt) : virt.vol[v] <= virt.vol[w]
      OBVIOUS
  <2>1. PoolInv(virt) /\ CallShape(virt, virt')
      BY NextShape DEF IInv
  <2> QED  BY <2>1, ShapeStealsQuietest
<1> QED  BY <1>1, InvariantHolds, PTL DEF Spec, StealsQuietest

\* A track's note leaves the foreground only for a new note of that track, and
\* no other track's foreground changes hands.
THEOREM ForegroundAlwaysKept ==
    ASSUME NnaNeedsVirtual
    PROVE  Spec => ForegroundKept
<1>1. IInv /\ [Next]_vars =>
        [\A t \in Tracks :
            virt.map[t] # FREE /\ virt'.chn[virt.map[t]] \notin {t, FREE} =>
              LET v == virt.map[t]
              IN  /\ virt'.chn[v] \in Background
                  /\ virt'.root[v] = t
                  /\ virt'.act[v] # CUT
                  /\ virt'.map[t] # v
                  /\ \A u \in Tracks \ {t} : virt'.map[u] = virt.map[u]]_vars
  <2> SUFFICES ASSUME IInv, [Next]_vars, NEW t \in Tracks, virt.map[t] # FREE,
                      virt'.chn[virt.map[t]] \notin {t, FREE}
               PROVE  /\ virt'.chn[virt.map[t]] \in Background
                      /\ virt'.root[virt.map[t]] = t
                      /\ virt'.act[virt.map[t]] # CUT
                      /\ virt'.map[t] # virt.map[t]
                      /\ \A u \in Tracks \ {t} : virt'.map[u] = virt.map[u]
      OBVIOUS
  <2>1. PoolInv(virt) /\ CallShape(virt, virt')
      BY NextShape DEF IInv
  <2> QED  BY <2>1, ShapeKeepsForeground
<1> QED  BY <1>1, InvariantHolds, PTL DEF Spec, ForegroundKept

-----------------------------------------------------------------------------
(* The pool implements VoicePool                                           *)

\* Silencing voices in use is the abstract Stop.
LEMMA StoppedIsStop ==
    ASSUME IInv, PoolInv(virt'), NEW R \in SUBSET Used(virt),
           Stopped(virt, virt', R)
    PROVE  Pool!Next
<1>1. R \in SUBSET Pool!Sounding
  <2>1. \A v \in Used(virt) : v \in Voices /\ virt.root[v] # FREE
      BY Sizes DEF Used, IInv, PoolInv, RootsAgreeIn
  <2> QED  BY <2>1 DEF Pool!Sounding
<1>2. virt'.root = Pool!OwnerWithout(R)
  <2>1. virt'.root \in [Voices -> Tracks \cup {FREE}]
      BY DEF PoolInv, PoolType
  <2>2. \A v \in Voices : virt'.root[v] = IF v \in R THEN FREE ELSE virt.root[v]
      BY DEF Stopped
  <2> QED  BY <2>1, <2>2 DEF Pool!OwnerWithout
<1>3. [t \in Tracks |-> virt'.map[t]] = Pool!FgWithout(R)
  <2>1. \A d \in Tracks : virt'.map[d] = IF virt.map[d] \in R THEN FREE ELSE virt.map[d]
      BY DEF Stopped
  <2> QED  BY <2>1 DEF Pool!FgWithout
<1>4. Pool!Stop(R)
    BY <1>2, <1>3 DEF Pool!Stop
<1> QED  BY <1>1, <1>4 DEF Pool!Next

\* Starting a note is the abstract Play, or PlaySilence when it had no sample.
LEMMA StartsIsPlay ==
    ASSUME IInv, PoolInv(virt'), NEW t \in Tracks, NEW in \in Instruments,
           NEW R \in SUBSET Voices, NEW i \in Voices, NEW c,
           Starts(virt, virt', t, in, R, c, i)
    PROVE  Pool!Next
<1>0. OnlyDuplicatesGone(virt, c, t, in, R)
    BY DuplicatesOwn DEF IInv
<1>1. R \in SUBSET Pool!OfTrack(t)
    BY DEF Starts, OwnedBy, Pool!OfTrack
<1>2. /\ PoolInv(c) /\ Fits(c, t, i) /\ Placed(c, virt', t, i)
      /\ (PlaysFor(virt', t, i, in) \/ FallsSilent(virt', t, i))
      /\ Stopped(virt, c, R)
    BY DEF Starts
<1>3. \A v \in Voices : Pool!OwnerWithout(R)[v] = c.root[v]
    BY <1>2 DEF Stopped, Pool!OwnerWithout
<1>4. \A d \in Tracks : Pool!FgWithout(R)[d] = c.map[d]
    BY <1>2 DEF Stopped, Pool!FgWithout
<1>5. i \in Pool!Available(t, R)
  <2>1. CASE i = c.map[t]
      BY <1>4, <2>1 DEF Pool!Available
  <2>2. CASE c.chn[i] = FREE
    <3>1. c.root[i] \notin Tracks /\ c.root[i] \in Tracks \cup {FREE}
        BY <1>2, <2>2 DEF PoolInv, RootsAgreeIn, PoolType
    <3> QED  BY <1>3, <3>1 DEF Pool!Available
  <2>3. CASE Used(c) = Voices /\ i \in FreeVoice(c)
    <3>1. \A w \in Voices : c.root[w] # FREE
        BY <1>2, <2>3, Sizes DEF Used, PoolInv, RootsAgreeIn
    <3>2. i \in InBackground(c)
        BY <2>3 DEF FreeVoice
    <3>3. \A d \in Tracks : c.map[d] # i
      <4>1. c.chn[i] \notin Tracks
          BY <3>2, BackgroundVoices
      <4>2. MapsAgreeIn(c)
          BY <1>2 DEF PoolInv
      <4>3. Tracks \subseteq Channels
          BY Sizes
      <4> QED  BY <4>1, <4>2, <4>3 DEF MapsAgreeIn
    <3> QED  BY <1>3, <1>4, <3>1, <3>3 DEF Pool!Available
  <2> QED  BY <1>2, <2>1, <2>2, <2>3 DEF Fits
<1>6. virt'.root \in [Voices -> Tracks \cup {FREE}]
    BY DEF PoolInv, PoolType
<1>7. /\ \A v \in Voices \ {i} : virt'.root[v] = c.root[v]
      /\ \A d \in Tracks \ {t} : virt'.map[d] = c.map[d]
    BY <1>2 DEF Placed
<1>8. CASE PlaysFor(virt', t, i, in)
  <2>1. virt'.root = [Pool!OwnerWithout(R) EXCEPT ![i] = t]
    <3> DEFINE own == Pool!OwnerWithout(R)
    <3>1. own = [v \in Voices |-> own[v]]
        BY DEF Pool!OwnerWithout
    <3>2. \A v \in Voices : virt'.root[v] = IF v = i THEN t ELSE own[v]
        BY <1>3, <1>7, <1>8 DEF PlaysFor
    <3> HIDE DEF own
    <3>3. virt'.root = [own EXCEPT ![i] = t]
        BY <1>6, <3>1, <3>2
    <3> QED  BY <3>3 DEF own
  <2>2. [d \in Tracks |-> virt'.map[d]] = [Pool!FgWithout(R) EXCEPT ![t] = i]
      BY <1>4, <1>7, <1>8 DEF PlaysFor, Pool!FgWithout
  <2>3. Pool!Play(t, R, i)
      BY <1>5, <2>1, <2>2 DEF Pool!Play
  <2> QED  BY <1>1, <2>3 DEF Pool!Next
<1>9. CASE FallsSilent(virt', t, i)
  <2>1. virt'.root = [Pool!OwnerWithout(R) EXCEPT ![i] = FREE]
      BY <1>3, <1>6, <1>7, <1>9 DEF FallsSilent, Pool!OwnerWithout
  <2>2. [d \in Tracks |-> virt'.map[d]] = [Pool!FgWithout(R) EXCEPT ![t] = FREE]
      BY <1>4, <1>7, <1>9 DEF FallsSilent, Pool!FgWithout
  <2>3. Pool!PlaySilence(t, R, i)
      BY <1>5, <2>1, <2>2 DEF Pool!PlaySilence
  <2> QED  BY <1>1, <2>3 DEF Pool!Next
<1> QED  BY <1>2, <1>8, <1>9

\* The pool of virtual.c, of every size, implements the abstract pool: whatever
\* the calls, a sounding voice changes hands in the two ways VoicePool allows.
THEOREM PoolImplemented ==
    ASSUME NnaNeedsVirtual
    PROVE  Spec => ImplementsPool
<1>1. Init => Pool!Init
    BY Sizes DEF Init, EmptyPool, Pool!Init
<1>2. IInv /\ [Next]_vars => [Pool!Next]_(Pool!vars)
  <2> SUFFICES ASSUME IInv, [Next]_vars  PROVE Pool!Next
      OBVIOUS
  <2>1. PoolInv(virt) /\ CallShape(virt, virt')
      BY NextShape DEF IInv
  <2>2. PoolInv(virt')
    <3>1. IInv'
        BY NextInv
    <3> QED  BY <3>1 DEF IInv, PoolInv, MapsAgreeIn, CountsAgreeIn, RootsAgreeIn,
                 OwnedBy, Used
  <2>3. CASE \E R \in SUBSET Used(virt) : Stopped(virt, virt', R)
      BY <2>2, <2>3, StoppedIsStop
  <2>4. CASE \E t \in Tracks, in \in Instruments, R \in SUBSET Voices, i \in Voices :
                \E c : Starts(virt, virt', t, in, R, c, i)
      BY <2>2, <2>4, StartsIsPlay
  <2> QED  BY <2>1, <2>3, <2>4 DEF CallShape
<1> QED  BY <1>1, <1>2, InvariantHolds, PTL DEF Spec, ImplementsPool, Pool!Spec

-----------------------------------------------------------------------------
(* Where the notes are after libxmp_virt_setpatch                          *)

\* From pool s to pool u, track t starts a note on voice i (FREE for a note
\* that is not heard).  The note it played is in channel `to`: a background
\* channel, t itself when that note is gone, -1 when no voice was found.
Moves(s, u, t, to, i) ==
    /\ i \in Voices \cup {FREE}
    /\ to \in Background \cup {t, -1}
    /\ i # FREE => to # -1 /\ u.chn[i] = t
    /\ \A v \in Voices \ {i} :
          /\ \/ u.chn[v] \in {FREE, s.chn[v]}
             \/ to \in Background /\ s.chn[v] = t /\ u.chn[v] = to
          /\ to # -1 => u.chn[v] # t
          /\ to \in Background /\ u.chn[v] = to => s.chn[v] = t

\* The choice of a voice moves the old note of the track at most.
LEMMA PlacementsMove ==
    ASSUME NEW s, PoolInv(s), ActsFit(s), NEW t \in Tracks,
           NEW p \in Placements(s, t)
    PROVE  /\ Moves(s, p.pool, t, p.to, p.voc)
           /\ p.to \in Background \/ p.to = t
           /\ p.voc \in Voices /\ p.pool.chn[p.voc] = t
           /\ p.to \in Background => s.map[t] \in Voices /\ s.act[s.map[t]] # CUT
<1> DEFINE voc == s.map[t]
<1>0. s \in PoolType /\ t \in Channels /\ voc \in Voices \cup {FREE} /\ t # -1 /\ t # FREE
    BY Sizes DEF PoolInv, PoolType, FREE
<1>1. t \notin Background
    BY DEF Background
<1>2. \A v \in Voices : s.chn[v] = t <=> v = voc
    BY <1>0, Sizes DEF PoolInv, MapsAgreeIn
<1>3. CASE voc = FREE
  <2>1. PICK a \in AllocVoice(s, t) : p = [pool |-> a.pool, voc |-> a.voc, to |-> t]
      BY <1>3 DEF Placements
  <2>2. /\ a.voc \in Voices
        /\ \A v \in Voices : a.pool.chn[v] = IF v = a.voc THEN t ELSE s.chn[v]
      BY <2>1, AllocFields
  <2>3. p.pool = a.pool /\ p.voc = a.voc /\ p.to = t
      BY <2>1
  <2>4. FREE \notin Voices
      BY Sizes
  <2> QED  BY <1>0, <1>1, <1>2, <1>3, <2>2, <2>3, <2>4 DEF Moves
<1>4. CASE voc # FREE /\ s.act[voc] = CUT
  <2>1. p.pool = s /\ p.voc = voc /\ p.to = t
      BY <1>4 DEF Placements
  <2> QED  BY <1>0, <1>1, <1>2, <1>4, <2>1 DEF Moves
<1>5. CASE voc # FREE /\ s.act[voc] # CUT
  <2>0. Virtual /\ voc \in Voices
      BY <1>0, <1>5 DEF ActsFit
  <2>1. PICK a \in AllocVoice(s, t) : \E b \in RelocationTarget(a.pool) :
                p = [pool |-> MoveVoice(a.pool, voc, b), voc |-> a.voc, to |-> b]
      BY <1>5 DEF Placements
  <2>2. PICK b \in RelocationTarget(a.pool) :
                p = [pool |-> MoveVoice(a.pool, voc, b), voc |-> a.voc, to |-> b]
      BY <2>1
  <2>3. b \in Background /\ PoolInv(MoveVoice(a.pool, voc, b))
      BY <1>5, <2>0, AllocPushInv
  <2>4. /\ a.voc \in Voices /\ a.voc # voc
        /\ \A v \in Voices : a.pool.chn[v] = IF v = a.voc THEN t ELSE s.chn[v]
        /\ a.pool \in PoolType
      BY <2>1, AllocFields
  <2> DEFINE u == MoveVoice(a.pool, voc, b)
  <2>5. b \in Channels
      BY <2>3 DEF Background
  <2>6. /\ \A v \in Voices : u.chn[v] = IF v = voc THEN b ELSE a.pool.chn[v]
        /\ u.map[b] = voc
    <3> HIDE DEF voc
    <3> QED  BY <2>0, <2>4, <2>5, MoveVoiceFields
  <2>7. \A v \in Voices : u.chn[v] = b => v = voc
      BY <2>0, <2>3, <2>5, <2>6 DEF PoolInv, MapsAgreeIn
  <2>8. p.pool = u /\ p.voc = a.voc /\ p.to = b
      BY <2>2
  <2> HIDE DEF u
  <2>9. ASSUME NEW v \in Voices \ {a.voc}
        PROVE  /\ u.chn[v] \in {FREE, s.chn[v]} \/ (s.chn[v] = t /\ u.chn[v] = b)
               /\ u.chn[v] # t
               /\ u.chn[v] = b => s.chn[v] = t
    <3>1. CASE v = voc
        BY <1>1, <1>2, <2>0, <2>3, <2>6, <3>1
    <3>2. CASE v # voc
        BY <1>2, <2>4, <2>6, <2>7, <3>2
    <3> QED  BY <3>1, <3>2
  <2>10. u.chn[a.voc] = t
      BY <2>4, <2>6
  <2>11. b # -1
      BY <2>5, Sizes DEF FREE
  <2> HIDE DEF voc
  <2> QED  BY <1>5, <2>0, <2>3, <2>4, <2>8, <2>9, <2>10, <2>11 DEF Moves, voc
<1> QED  BY <1>0, <1>3, <1>4, <1>5

\* A track that plays a note no one wants to keep finds a voice.
LEMMA PlacementsExist ==
    ASSUME NEW s, NEW t, s.map[t] # FREE, s.act[s.map[t]] = CUT
    PROVE  Placements(s, t) # {}
BY DEF Placements

\* libxmp_virt_setpatch silences voices and moves the old note of the track.
LEMMA SetPatchMoves ==
    ASSUME NEW s, PoolInv(s), ActsFit(s), NnaNeedsVirtual,
           NEW t \in Tracks, NEW in, NEW sample \in BOOLEAN,
           NEW nna \in Nnas, NEW dct, NEW dca \in Acts,
           dct # DctOff => in \in Instruments,
           NEW dups \in SUBSET {v \in OwnedBy(s, t) : s.ins[v] = in},
           NEW r \in SetPatch(s, t, in, sample, nna, dct, dca, dups)
    PROVE  /\ Moves(s, r.pool, t, r.to, r.voc)
           /\ sample /\ r.to # -1 <=> r.voc # FREE
<1> DEFINE c == IF dct = DctOff THEN s ELSE CheckDct(s, t, in, nna, dca, dups)
           places == Placements(c, t)
<1>1. PoolInv(c) /\ ActsFit(c)
    BY CheckDctInv
<1>2. \A v \in Voices : c.chn[v] \in {FREE, s.chn[v]}
  <2>1. CASE dct = DctOff
      BY <2>1
  <2>2. CASE dct # DctOff
    <3>1. PICK R : Stopped(s, CheckDct(s, t, in, nna, dca, dups), R)
        BY <2>2, CheckDctStops
    <3> QED  BY <2>2, <3>1 DEF Stopped
  <2> QED  BY <2>1, <2>2
<1>3. r \in IF places = {} THEN {[pool |-> c, to |-> -1, voc |-> FREE]}
            ELSE IF sample
            THEN {[pool |-> StartNote(p.pool, p.voc, in, nna), to |-> p.to,
                   voc  |-> p.voc] : p \in places}
            ELSE {[pool |-> ResetVoices(p.pool, {p.voc}), to |-> p.to,
                   voc  |-> FREE] : p \in places}
    BY DEF SetPatch
<1> HIDE DEF c, places
<1>4. t # FREE /\ t # -1 /\ FREE \notin Voices /\ -1 \notin Background
    BY Sizes DEF Background, FREE
<1>5. CASE places = {}
  <2>1. r.pool = c /\ r.to = -1 /\ r.voc = FREE
      BY <1>3, <1>5
  <2> QED  BY <1>2, <1>4, <2>1 DEF Moves
<1>6. ASSUME NEW p \in places,
             \/ /\ sample /\ r.pool = StartNote(p.pool, p.voc, in, nna)
                /\ r.to = p.to /\ r.voc = p.voc
             \/ /\ ~sample /\ r.pool = ResetVoices(p.pool, {p.voc})
                /\ r.to = p.to /\ r.voc = FREE
      PROVE  /\ Moves(s, r.pool, t, r.to, r.voc)
             /\ sample /\ r.to # -1 <=> r.voc # FREE
  <2>1. p \in Placements(c, t)
      BY DEF places
  <2>2. /\ Moves(c, p.pool, t, p.to, p.voc) /\ p.to # -1
        /\ p.voc \in Voices /\ p.pool.chn[p.voc] = t
      BY <1>1, <1>4, <2>1, PlacementsMove
  <2>3. PoolInv(p.pool) /\ p.pool \in PoolType
      BY <1>1, <2>1, PlacementsInv DEF PoolInv
  <2>4. \A v \in Voices \ {p.voc} :
           /\ \/ p.pool.chn[v] \in {FREE, s.chn[v]}
              \/ p.to \in Background /\ s.chn[v] = t /\ p.pool.chn[v] = p.to
           /\ p.pool.chn[v] # t
           /\ p.to \in Background /\ p.pool.chn[v] = p.to => s.chn[v] = t
    <3>1. ASSUME NEW v \in Voices \ {p.voc}
          PROVE  /\ \/ p.pool.chn[v] \in {FREE, s.chn[v]}
                    \/ p.to \in Background /\ s.chn[v] = t /\ p.pool.chn[v] = p.to
                 /\ p.pool.chn[v] # t
                 /\ p.to \in Background /\ p.pool.chn[v] = p.to => s.chn[v] = t
      <4>1. c.chn[v] \in {FREE, s.chn[v]}
          BY <1>2
      <4> QED  BY <1>4, <2>2, <4>1 DEF Moves
    <3> QED  BY <3>1
  <2>5. CASE sample /\ r.voc = p.voc /\ r.pool = StartNote(p.pool, p.voc, in, nna) /\ r.to = p.to
    <3>1. r.pool.chn = p.pool.chn
        BY <2>3, <2>5 DEF StartNote, PoolType
    <3> QED  BY <1>4, <2>2, <2>4, <2>5, <3>1 DEF Moves
  <2>6. CASE ~sample /\ r.voc = FREE /\ r.pool = ResetVoices(p.pool, {p.voc}) /\ r.to = p.to
    <3>1. \A v \in Voices : r.pool.chn[v] = IF v = p.voc THEN FREE ELSE p.pool.chn[v]
        BY <2>6 DEF ResetVoices
    <3>2. Voices \ {FREE} = Voices
        BY <1>4
    <3>3. p.to \in Background => p.to # FREE
        BY <1>4 DEF FREE
    <3> QED  BY <1>4, <2>2, <2>4, <2>6, <3>1, <3>2, <3>3 DEF Moves
  <2> QED  BY <1>6, <2>5, <2>6
<1>7. \/ places = {}
      \/ \E p \in places :
            \/ /\ sample /\ r.pool = StartNote(p.pool, p.voc, in, nna)
               /\ r.to = p.to /\ r.voc = p.voc
            \/ /\ ~sample /\ r.pool = ResetVoices(p.pool, {p.voc})
               /\ r.to = p.to /\ r.voc = FREE
    BY <1>3
<1> QED  BY <1>5, <1>6, <1>7

\* Where no note is to be kept, none is pushed to the background, and a note
\* that finds no voice is one of an idle track.
LEMMA SetPatchCuts ==
    ASSUME NEW s, PoolInv(s), ActsFit(s), NnaNeedsVirtual, \A v \in Voices : s.act[v] = CUT,
           NEW t \in Tracks, NEW in, NEW sample \in BOOLEAN, sample => in \in Instruments,
           NEW r \in SetPatch(s, t, in, sample, CUT, DctOff, CUT, {})
    PROVE  /\ r.to \notin Background
           /\ r.to = -1 => s.map[t] = FREE
           /\ \A v \in Voices : r.pool.act[v] = CUT
<1> DEFINE places == Placements(s, t)
<1>1. r \in IF places = {} THEN {[pool |-> s, to |-> -1, voc |-> FREE]}
            ELSE IF sample
            THEN {[pool |-> StartNote(p.pool, p.voc, in, CUT), to |-> p.to,
                   voc  |-> p.voc] : p \in places}
            ELSE {[pool |-> ResetVoices(p.pool, {p.voc}), to |-> p.to,
                   voc  |-> FREE] : p \in places}
    BY DEF SetPatch
<1> HIDE DEF places
<1>2. s.map[t] \in Voices \cup {FREE} /\ -1 \notin Background /\ t # -1
    BY Sizes DEF PoolInv, PoolType, Background, FREE
<1>3. CASE places = {}
  <2>1. s.map[t] = FREE
      BY <1>2, <1>3, PlacementsExist DEF places
  <2> QED  BY <1>1, <1>2, <1>3, <2>1
<1>4. ASSUME NEW p \in places, r.to = p.to,
             \/ r.pool = StartNote(p.pool, p.voc, in, CUT)
             \/ r.pool = ResetVoices(p.pool, {p.voc})
      PROVE  /\ r.to \notin Background /\ r.to # -1
             /\ \A v \in Voices : r.pool.act[v] = CUT
  <2>1. p \in Placements(s, t)
      BY DEF places
  <2>2. p.to = t
      BY <2>1, PlacementsMove
  <2>3. PoolInv(p.pool) /\ p.pool \in PoolType /\ p.pool.act = s.act
      BY <2>1, PlacementsInv DEF PoolInv
  <2>4. CASE r.pool = StartNote(p.pool, p.voc, in, CUT)
    <3>1. r.pool.act = [p.pool.act EXCEPT ![p.voc] = CUT]
        BY <2>3, <2>4 DEF StartNote, PoolType
    <3>2. p.pool.act \in [Voices -> Acts]
        BY <2>3 DEF PoolType
    <3> QED  BY <1>2, <1>4, <2>2, <2>3, <3>1, <3>2 DEF Background
  <2>5. CASE r.pool = ResetVoices(p.pool, {p.voc})
    <3>1. \A v \in Voices : r.pool.act[v] = IF v \in {p.voc} THEN CUT ELSE p.pool.act[v]
        BY <2>5 DEF ResetVoices
    <3> QED  BY <1>2, <1>4, <2>2, <2>3, <3>1 DEF Background
  <2> QED  BY <1>4, <2>4, <2>5
<1>5. \/ places = {}
      \/ \E p \in places : /\ r.to = p.to
                          /\ \/ r.pool = StartNote(p.pool, p.voc, in, CUT)
                             \/ r.pool = ResetVoices(p.pool, {p.voc})
    BY <1>1
<1>6. places = {} => r.pool = s /\ r.to = -1
    BY <1>1
<1> QED  BY <1>2, <1>3, <1>4, <1>5, <1>6
=============================================================================
