----------------------------- MODULE NotesProofs -----------------------------
(***************************************************************************)
(* What holds of every note of every module, for every number of tracks    *)
(* and voices: a voice plays the sample its channel says, a note in the    *)
(* background has nothing of a row left to do, and a delayed event is      *)
(* counted down in its own row.                                            *)
(*                                                                         *)
(* The readers are long, but each piece of them does one of few things: it *)
(* changes channel data no property is about, it silences voices, or it    *)
(* starts a note.  Every piece takes a good state (Good) to a good one and *)
(* leaves the delayed events of the channels alone or forgets them         *)
(* (Keeps); the proofs below go through them in the order of the code.     *)
(***************************************************************************)
EXTENDS Notes, VirtualChannelsProofs, Recursion

\* What the properties read of a channel is there and makes sense.
XcOK(x) ==
    /\ {"notes", "flags", "key", "ins", "smp", "idx", "delay", "event", "dins",
         "fade", "fadeout"} \subseteq DOMAIN x
    /\ x.delay \in Nat /\ x.dins \in Nat /\ x.idx \in Int
    /\ x.key \in Nat \cup {-1} /\ x.fade \in Int /\ x.fadeout \in Int
    /\ IsEvent(x.event)

\* The pool is in order.  Only Impulse Tracker's reader keeps old notes.
StateOK(s) ==
    /\ {"virt", "voice", "xc"} \subseteq DOMAIN s
    /\ PoolInv(s.virt) /\ ActsFit(s.virt)
    /\ song.reader # "IT" => \A v \in Voices : s.virt.act[v] = CUT
    /\ DOMAIN s.voice = Voices
    /\ \A v \in Voices : {"smp", "queue"} \subseteq DOMAIN s.voice[v]
    /\ DOMAIN s.xc = Channels
    /\ \A c \in Channels : XcOK(s.xc[c])

\* No row works on a background channel, and no note of those in C has ended.
Quiet(s, C) ==
    \A b \in Background :
        /\ s.xc[b].delay = 0 /\ s.xc[b].flags = {}
        /\ b \in C => \A v \in Voices : s.virt.chn[v] = b => "END" \notin s.xc[b].notes

\* The voices of the channels in C play what the channels say, and no swap
\* waits, where samples are not swapped.
Agree(s, C) ==
    ~Quirk("PROTRACK") =>
        \A v \in Voices :
            /\ s.voice[v].queue = NoQueue
            /\ s.virt.chn[v] \in C => s.voice[v].smp = s.xc[s.virt.chn[v]].smp

Good(s) == StateOK(s) /\ Quiet(s, Channels) /\ Agree(s, Channels)

\* A delayed event is as it was, or there is none any more.
Keeps(s, u) ==
    \A d \in Channels :
        \/ u.xc[d].delay = 0
        \/ u.xc[d].delay = s.xc[d].delay /\ u.xc[d].event = s.xc[d].event

Legal(s, u) == Good(u) /\ Keeps(s, u)

\* State u is state s but for the data of channel c.
OnlyXc(s, u, c) ==
    /\ {"virt", "voice", "xc"} \subseteq DOMAIN u
    /\ u.virt = s.virt /\ u.voice = s.voice
    /\ DOMAIN u.xc = Channels
    /\ \A d \in Channels \ {c} : u.xc[d] = s.xc[d]

\* A channel's sample and its delayed event stay.
Same(x, y) ==
    /\ XcOK(y)
    /\ y.smp = x.smp
    /\ y.delay = 0 \/ (y.delay = x.delay /\ y.event = x.event)

-----------------------------------------------------------------------------
(* Steps in general                                                        *)

LEMMA LegalTransitive ==
    ASSUME NEW s, NEW t, NEW u, Legal(s, t), Legal(t, u)
    PROVE  Legal(s, u)
BY DEF Legal, Keeps

LEMMA LegalReflexive ==
    ASSUME NEW s, Good(s)
    PROVE  Legal(s, s)
BY DEF Legal, Keeps

LEMMA SameTransitive ==
    ASSUME NEW x, NEW y, NEW z, Same(x, y), Same(y, z)
    PROVE  Same(x, z)
BY DEF Same

LEMMA SameReflexive ==
    ASSUME NEW x, XcOK(x)
    PROVE  Same(x, x)
BY DEF Same

\* The data of one channel is changed.
LEMMA SetXc ==
    ASSUME NEW s, StateOK(s), NEW c \in Channels, NEW y
    PROVE  /\ OnlyXc(s, [s EXCEPT !.xc[c] = y], c)
           /\ [s EXCEPT !.xc[c] = y].xc[c] = y
BY DEF StateOK, OnlyXc

\* Something else than the sample or the delayed event of a channel changes.
LEMMA ChannelStep ==
    ASSUME NEW s, Good(s), NEW c \in Channels, NEW u, OnlyXc(s, u, c),
           Same(s.xc[c], u.xc[c]), c \in Background => u.xc[c].flags = s.xc[c].flags
    PROVE  /\ StateOK(u) /\ Quiet(u, Channels \ {c}) /\ Agree(u, Channels)
           /\ Keeps(s, u)
<1>1. StateOK(u)
    BY DEF Good, StateOK, OnlyXc, Same
<1>2. \A d \in Channels : u.xc[d].smp = s.xc[d].smp
    BY DEF OnlyXc, Same
<1>3. Agree(u, Channels)
    BY <1>2 DEF Good, Agree, OnlyXc
<1>4. Keeps(s, u)
    BY DEF Keeps, OnlyXc, Same
<1>5. Quiet(u, Channels \ {c})
  <2>1. ASSUME NEW b \in Background
        PROVE  /\ u.xc[b].delay = 0 /\ u.xc[b].flags = {}
               /\ b \in Channels \ {c} => u.xc[b] = s.xc[b]
    <3>1. b \in Channels /\ s.xc[b].delay = 0 /\ s.xc[b].flags = {}
        BY DEF Good, Quiet, Background
    <3> QED  BY <3>1 DEF OnlyXc, Same
  <2> QED  BY <2>1 DEF Good, Quiet, OnlyXc
<1> QED  BY <1>1, <1>3, <1>4, <1>5

\* On a track that is all there is to it.
LEMMA TrackStep ==
    ASSUME NEW s, Good(s), NEW c \in Tracks, NEW u, OnlyXc(s, u, c),
           Same(s.xc[c], u.xc[c])
    PROVE  Legal(s, u)
<1>1. c \in Channels /\ c \notin Background
    BY Sizes DEF Background
<1>2. /\ StateOK(u) /\ Quiet(u, Channels \ {c}) /\ Agree(u, Channels)
      /\ Keeps(s, u)
    BY <1>1, ChannelStep
<1>3. Quiet(u, Channels)
    BY <1>1, <1>2 DEF Quiet, Background
<1> QED  BY <1>2, <1>3 DEF Legal, Good

LEMMA TrackSet ==
    ASSUME NEW s, Good(s), NEW c \in Tracks, NEW y, Same(s.xc[c], y)
    PROVE  Legal(s, [s EXCEPT !.xc[c] = y])
<1> DEFINE u == [s EXCEPT !.xc[c] = y]
<1>1. c \in Channels /\ StateOK(s)
    BY Sizes DEF Good
<1>2. OnlyXc(s, u, c) /\ u.xc[c] = y
    BY <1>1, SetXc
<1> HIDE DEF u
<1>3. Legal(s, u)
    BY <1>2, TrackStep
<1> QED  BY <1>3 DEF u

\* The tables change, and the voices that are freed are forgotten.
LEMMA WithPoolIs ==
    ASSUME NEW s, StateOK(s), NEW pool, PoolInv(pool), ActsFit(pool),
           song.reader # "IT" => \A v \in Voices : pool.act[v] = CUT
    PROVE  LET u == WithPool(s, pool)
           IN  /\ StateOK(u)
               /\ u.virt = pool /\ u.xc = s.xc
               /\ \A v \in Voices : u.voice[v] = IF pool.chn[v] = FREE THEN EmptyVoice
                                                 ELSE s.voice[v]
<1> DEFINE u == WithPool(s, pool)
<1>1. /\ {"virt", "voice", "xc"} \subseteq DOMAIN u
      /\ u.virt = pool /\ u.xc = s.xc /\ u.voice = Settled(pool, s.voice)
    BY DEF WithPool, StateOK
<1>2. {"smp", "queue"} \subseteq DOMAIN EmptyVoice
    BY DEF EmptyVoice
<1> HIDE DEF u
<1>3. /\ DOMAIN u.voice = Voices
      /\ \A v \in Voices : u.voice[v] = IF pool.chn[v] = FREE THEN EmptyVoice
                                        ELSE s.voice[v]
    BY <1>1 DEF Settled
<1>4. StateOK(u)
    BY <1>1, <1>2, <1>3 DEF StateOK
<1> QED  BY <1>1, <1>3, <1>4 DEF u

\* Voices are silenced.
LEMMA ResetStep ==
    ASSUME NEW s, StateOK(s), NEW R \in SUBSET Used(s.virt)
    PROVE  LET u == WithPool(s, ResetVoices(s.virt, R))
           IN  /\ StateOK(u) /\ u.xc = s.xc
               /\ \A v \in Voices : /\ u.virt.chn[v] = IF v \in R THEN FREE ELSE s.virt.chn[v]
                                    /\ u.voice[v] = IF u.virt.chn[v] = FREE THEN EmptyVoice
                                                    ELSE s.voice[v]
<1> DEFINE pool == ResetVoices(s.virt, R)
           u    == WithPool(s, pool)
<1>1. R \in SUBSET Voices /\ s.virt \in PoolType /\ PoolInv(s.virt) /\ ActsFit(s.virt)
    BY DEF StateOK, PoolInv, Used
<1>2. PoolInv(pool) /\ ActsFit(pool)
    BY <1>1, ResetVoicesInv, ResetVoicesFit
<1>3. \A v \in Voices : /\ pool.chn[v] = IF v \in R THEN FREE ELSE s.virt.chn[v]
                        /\ pool.act[v] = IF v \in R THEN CUT ELSE s.virt.act[v]
    BY <1>1, ResetVoicesFields
<1> HIDE DEF pool
<1>4. song.reader # "IT" => \A v \in Voices : pool.act[v] = CUT
    BY <1>3 DEF StateOK
<1>5. /\ StateOK(u) /\ u.virt = pool /\ u.xc = s.xc
      /\ \A v \in Voices : u.voice[v] = IF pool.chn[v] = FREE THEN EmptyVoice
                                        ELSE s.voice[v]
    BY <1>2, <1>4, WithPoolIs
<1> HIDE DEF u
<1>6. /\ StateOK(u) /\ u.xc = s.xc
      /\ \A v \in Voices : /\ u.virt.chn[v] = IF v \in R THEN FREE ELSE s.virt.chn[v]
                           /\ u.voice[v] = IF u.virt.chn[v] = FREE THEN EmptyVoice
                                           ELSE s.voice[v]
    BY <1>3, <1>5
<1> QED  BY <1>6 DEF u, pool

\* The notes that go on are as good as they were.
LEMMA SilencedIsGood ==
    ASSUME NEW s, StateOK(s), NEW C, Quiet(s, C), Agree(s, Channels),
           NEW u, StateOK(u), u.xc = s.xc,
           \A v \in Voices : /\ u.virt.chn[v] \in {FREE, s.virt.chn[v]}
                             /\ u.voice[v] = IF u.virt.chn[v] = FREE THEN EmptyVoice
                                             ELSE s.voice[v]
    PROVE  Quiet(u, C) /\ Agree(u, Channels) /\ Keeps(s, u)
<1>1. \A b \in Background : b # FREE
    BY Sizes DEF Background
<1>2. Quiet(u, C)
    BY <1>1 DEF Quiet
<1>3. Agree(u, Channels)
  <2>1. EmptyVoice.queue = NoQueue /\ FREE \notin Channels
      BY Sizes DEF EmptyVoice
  <2> QED  BY <2>1 DEF Agree
<1>4. Keeps(s, u)
    BY DEF Keeps
<1> QED  BY <1>2, <1>3, <1>4

\* Silencing is legal.
LEMMA ResetLegal ==
    ASSUME NEW s, Good(s), NEW R \in SUBSET Used(s.virt)
    PROVE  /\ Legal(s, WithPool(s, ResetVoices(s.virt, R)))
           /\ WithPool(s, ResetVoices(s.virt, R)).xc = s.xc
<1> DEFINE u == WithPool(s, ResetVoices(s.virt, R))
<1>1. /\ StateOK(u) /\ u.xc = s.xc
      /\ \A v \in Voices : /\ u.virt.chn[v] = IF v \in R THEN FREE ELSE s.virt.chn[v]
                           /\ u.voice[v] = IF u.virt.chn[v] = FREE THEN EmptyVoice
                                           ELSE s.voice[v]
    BY ResetStep DEF Good
<1> HIDE DEF u
<1>2. StateOK(s) /\ Quiet(s, Channels) /\ Agree(s, Channels)
    BY DEF Good
<1>3. \A v \in Voices : u.virt.chn[v] \in {FREE, s.virt.chn[v]}
    BY <1>1
<1>4. Quiet(u, Channels) /\ Agree(u, Channels) /\ Keeps(s, u)
    BY <1>1, <1>2, <1>3, SilencedIsGood
<1>5. Legal(s, u) /\ u.xc = s.xc
    BY <1>1, <1>4 DEF Legal, Good
<1> QED  BY <1>5 DEF u

\* libxmp_virt_resetchannel
LEMMA ResetChannelLegal ==
    ASSUME NEW s, Good(s), NEW c \in Channels
    PROVE  Legal(s, ResetChannelOf(s, c)) /\ ResetChannelOf(s, c).xc = s.xc
<1>1. CASE s.virt.map[c] = FREE
    BY <1>1, LegalReflexive DEF ResetChannelOf
<1>2. CASE s.virt.map[c] # FREE
  <2>1. PoolInv(s.virt)
      BY DEF Good, StateOK
  <2>2. {s.virt.map[c]} \in SUBSET Used(s.virt)
      BY <1>2, <2>1, MappedVoices
  <2>3. ResetChannelOf(s, c) = WithPool(s, ResetVoices(s.virt, {s.virt.map[c]}))
      BY <1>2 DEF ResetChannelOf
  <2> QED  BY <2>2, <2>3, ResetLegal
<1> QED  BY <1>1, <1>2

\* The volume, the instrument or the action of a voice is set.
LEMMA AttributesStep ==
    ASSUME NEW s, StateOK(s), NEW C, Quiet(s, C), Agree(s, Channels),
           NEW u, {"virt", "voice", "xc"} \subseteq DOMAIN u,
           u.voice = s.voice, u.xc = s.xc,
           PoolInv(u.virt), ActsFit(u.virt), u.virt.chn = s.virt.chn,
           song.reader # "IT" => \A v \in Voices : u.virt.act[v] = CUT
    PROVE  StateOK(u) /\ Quiet(u, C) /\ Agree(u, Channels) /\ Keeps(s, u)
<1>1. StateOK(u)
    BY DEF StateOK
<1>2. Quiet(u, C)
    BY DEF Quiet
<1>3. Agree(u, Channels)
    BY DEF Agree
<1>4. Keeps(s, u)
    BY DEF Keeps
<1> QED  BY <1>1, <1>2, <1>3, <1>4

\* libxmp_virt_setnna
LEMMA SetNnaLegal ==
    ASSUME IsSong(song), NEW s, Good(s), NEW c \in Channels, NEW nna \in Nnas
    PROVE  Legal(s, SetNnaOf(s, c, nna)) /\ SetNnaOf(s, c, nna).xc = s.xc
<1>1. CASE s.virt.map[c] = FREE \/ ~Quirk("VIRTUAL")
    BY <1>1, LegalReflexive DEF SetNnaOf
<1>2. CASE ~(s.virt.map[c] = FREE \/ ~Quirk("VIRTUAL"))
  <2> DEFINE v   == s.virt.map[c]
             act == [s.virt.act EXCEPT ![v] = nna]
             p   == [s.virt EXCEPT !.act = act]
             u   == [s EXCEPT !.virt = p]
  <2>1. Virtual /\ song.reader = "IT"
      BY <1>2 DEF IsSong, Quirk
  <2>2. PoolInv(s.virt) /\ ActsFit(s.virt) /\ s.virt \in PoolType
      BY DEF Good, StateOK, PoolInv
  <2>3. act \in [Voices -> Acts] /\ s.virt.vol \in [Voices -> Levels]
        /\ s.virt.ins \in [Voices -> Instruments \cup {0}]
      BY <2>2, NnasAssumption DEF PoolType
  <2> HIDE DEF act, v
  <2>4. p = [s.virt EXCEPT !.vol = s.virt.vol, !.act = act, !.ins = s.virt.ins]
      BY <2>2, KeepFields
  <2>5. PoolInv(p) /\ ActsFit(p)
    <3> HIDE DEF p
    <3> QED  BY <2>1, <2>2, <2>3, <2>4, AttributesInv
  <2>6. p.chn = s.virt.chn
      BY <2>2 DEF PoolType
  <2> HIDE DEF p
  <2>7. /\ {"virt", "voice", "xc"} \subseteq DOMAIN u
        /\ u.voice = s.voice /\ u.xc = s.xc /\ u.virt = p
      BY DEF Good, StateOK
  <2>8. SetNnaOf(s, c, nna) = u
      BY <1>2 DEF SetNnaOf, u, p, act, v
  <2> HIDE DEF u
  <2>9. StateOK(u) /\ Quiet(u, Channels) /\ Agree(u, Channels) /\ Keeps(s, u)
      BY <2>1, <2>5, <2>6, <2>7, AttributesStep DEF Good
  <2> QED  BY <2>7, <2>8, <2>9 DEF Legal, Good
<1> QED  BY <1>1, <1>2

\* libxmp_virt_pastnote
LEMMA PastNoteLegal ==
    ASSUME NEW s, Good(s), NEW c \in Tracks, NEW act
    PROVE  Legal(s, PastNoteOf(s, c, act))
<1> DEFINE old == {v \in InBackground(s.virt) : s.virt.root[v] = c}
           set == IF act = OFF THEN RELEASE ELSE IF act = FADE THEN {"FADEOUT"} ELSE {}
           chs  == [d \in Channels |-> IF \E v \in old : s.virt.chn[v] = d
                                      THEN [s.xc[d] EXCEPT !.notes = @ \cup set]
                                      ELSE s.xc[d]]
           u   == [s EXCEPT !.xc = chs]
<1>1. CASE act = CUT
  <2>1. PoolInv(s.virt)
      BY DEF Good, StateOK
  <2>2. old \in SUBSET Used(s.virt)
      BY <2>1, MappedVoices
  <2>3. PastNoteOf(s, c, act) = WithPool(s, ResetVoices(s.virt, old))
      BY <1>1 DEF PastNoteOf
  <2> QED  BY <2>2, <2>3, ResetLegal
<1>2. CASE act # CUT
  <2>1. PastNoteOf(s, c, act) = u
      BY <1>2 DEF PastNoteOf
  <2>2. "END" \notin set
      BY DEF RELEASE
  <2> HIDE DEF old, set
  <2>3. \A d \in Channels : XcOK(s.xc[d])
      BY DEF Good, StateOK
  <2>4. ASSUME NEW d \in Channels
        PROVE  /\ XcOK(chs[d])
               /\ chs[d].smp = s.xc[d].smp /\ chs[d].flags = s.xc[d].flags
               /\ chs[d].delay = s.xc[d].delay /\ chs[d].event = s.xc[d].event
               /\ "END" \notin s.xc[d].notes => "END" \notin chs[d].notes
    <3> DEFINE x == s.xc[d]
               y == [x EXCEPT !.notes = @ \cup set]
    <3>1. XcOK(x)
        BY <2>3
    <3> HIDE DEF x
    <3>2. /\ XcOK(y) /\ y.smp = x.smp /\ y.flags = x.flags
          /\ y.delay = x.delay /\ y.event = x.event
          /\ "END" \notin x.notes => "END" \notin y.notes
        BY <2>2, <3>1 DEF XcOK
    <3>3. chs[d] = x \/ chs[d] = y
        BY DEF x
    <3> HIDE DEF y, chs
    <3> QED  BY <3>1, <3>2, <3>3 DEF x
  <2>5. DOMAIN chs = Channels
      OBVIOUS
  <2> HIDE DEF chs
  <2>6. /\ {"virt", "voice", "xc"} \subseteq DOMAIN u
        /\ u.virt = s.virt /\ u.voice = s.voice /\ u.xc = chs
      BY DEF Good, StateOK
  <2> HIDE DEF u
  <2>7. StateOK(u)
      BY <2>4, <2>5, <2>6 DEF Good, StateOK
  <2>8. Quiet(u, Channels)
      BY <2>4, <2>6 DEF Good, Quiet, Background
  <2>9. Agree(u, Channels)
      BY <2>4, <2>6 DEF Good, Agree
  <2>10. Keeps(s, u)
      BY <2>4, <2>6 DEF Keeps
  <2> QED  BY <2>1, <2>7, <2>8, <2>9, <2>10 DEF Legal, Good
<1> QED  BY <1>1, <1>2

\* An effect changes neither the sample nor the delayed event of its channel.
LEMMA ChannelFxSame ==
    ASSUME NEW x, XcOK(x), NEW fx, NEW p \in Nat
    PROVE  Same(x, ChannelFx(x, fx, p))
<1>1. CASE fx = "offset"
  <2>1. ChannelFx(x, fx, p) = [x EXCEPT !.flags = @ \cup {"OFFSET"}]
      BY <1>1 DEF ChannelFx
  <2> QED  BY <2>1 DEF Same, XcOK
<1>2. CASE fx = "retrig"
  <2> DEFINE r == [count |-> p + 1, val |-> p, cut |-> FALSE,
                   limit |-> IF Quirk("RTONCE") THEN 1 ELSE 0]
  <2>1. ChannelFx(x, fx, p) = [x EXCEPT !.flags = @ \cup {"RETRIG"}, !.retrig = r]
      BY <1>2 DEF ChannelFx
  <2> HIDE DEF r
  <2> QED  BY <2>1 DEF Same, XcOK
<1>3. CASE fx = "cut"
  <2> DEFINE r == [x.retrig EXCEPT !.count = p + 1, !.val = p + 1, !.cut = TRUE]
  <2>1. ChannelFx(x, fx, p)
          = [x EXCEPT !.flags = @ \cup {"RETRIG"}, !.notes = @ \cup {"CUT"}, !.retrig = r]
      BY <1>3 DEF ChannelFx
  <2> HIDE DEF r
  <2> QED  BY <2>1 DEF Same, XcOK
<1>4. CASE fx = "keyoff"
  <2>1. ChannelFx(x, fx, p) = [x EXCEPT !.keyoff = p + 1]
      BY <1>4 DEF ChannelFx
  <2> QED  BY <2>1 DEF Same, XcOK
<1>5. CASE fx = "envpos"
  <2>1. ChannelFx(x, fx, p) = [x EXCEPT !.idx = p]
      BY <1>5 DEF ChannelFx
  <2> QED  BY <2>1 DEF Same, XcOK
<1>6. CASE fx = "venv"
  <2>1. ChannelFx(x, fx, p) = [x EXCEPT !.paused = (p = 0)]
      BY <1>6 DEF ChannelFx
  <2> QED  BY <2>1 DEF Same, XcOK
<1>7. CASE fx \notin {"offset", "retrig", "cut", "keyoff", "envpos", "venv"}
  <2>1. ChannelFx(x, fx, p) = x
      BY <1>7 DEF ChannelFx
  <2> QED  BY <2>1, SameReflexive
<1> QED  BY <1>1, <1>2, <1>3, <1>4, <1>5, <1>6, <1>7

\* libxmp_process_fx
LEMMA ApplyFxLegal ==
    ASSUME IsSong(song), NEW s, Good(s), NEW c \in Tracks, NEW f, IsEffect(f)
    PROVE  Legal(s, ApplyFx(s, c, f))
<1> DEFINE x == s.xc[c]
           p == f[2]
           y == ChannelFx(x, f[1], p)
<1>1. c \in Channels /\ XcOK(x) /\ StateOK(s) /\ p \in Nat
    BY Sizes DEF Good, StateOK, IsEffect
<1>2. CASE f[1] = "past"
  <2>1. ApplyFx(s, c, f) = PastNoteOf(s, c, p)
      BY <1>2 DEF ApplyFx
  <2> QED  BY <2>1, PastNoteLegal
<1>3. CASE f[1] = "nna"
  <2>1. ApplyFx(s, c, f) = SetNnaOf(s, c, p) /\ p \in Nnas
      BY <1>3 DEF ApplyFx, IsEffect
  <2> HIDE DEF p
  <2> QED  BY <1>1, <2>1, SetNnaLegal
<1>4. CASE f[1] \notin {"past", "nna"}
  <2>1. ApplyFx(s, c, f) = [s EXCEPT !.xc[c] = y]
    <3>1. ApplyFx(s, c, f) = [s EXCEPT !.xc[c] = ChannelFx(s.xc[c], f[1], f[2])]
        BY <1>4 DEF ApplyFx
    <3> QED  BY <3>1
  <2> HIDE DEF x, p
  <2>2. Same(x, y)
      BY <1>1, ChannelFxSame
  <2> HIDE DEF y
  <2> QED  BY <2>1, <2>2, TrackSet DEF x
<1> QED  BY <1>2, <1>3, <1>4

-----------------------------------------------------------------------------
(* A note is started                                                       *)

\* A subinstrument is there only for an instrument the module has, and its
\* actions are among those of the module's instruments.
LEMMA GetSubIs ==
    ASSUME IsSong(song), NEW in, NEW key
    PROVE  /\ GetSub(in, key) # NoSub => ValidIns(in) /\ in \in Instruments
           /\ GetSub(in, key).nna \in Nnas /\ GetSub(in, key).dca \in Acts
<1>1. NoSub.nna \in Nnas /\ NoSub.dca \in Acts /\ Dcas \subseteq Acts
    BY NnasAssumption, DcasAssumption DEF NoSub, Acts
<1>2. CASE ~ValidIns(in)
    BY <1>1, <1>2 DEF GetSub
<1>3. CASE ValidIns(in)
  <2> DEFINE i == IF ValidNote(key) THEN Ins(in).map[key] ELSE 0
  <2>1. in \in Instruments /\ in + 1 \in 1 .. Len(song.instruments)
      BY <1>3 DEF ValidIns, IsSong
  <2>2. IsInstrument(Ins(in))
      BY <2>1 DEF IsSong, Ins
  <2>3. i \in Nat
      BY <2>2 DEF IsInstrument, ValidNote
  <2>4. GetSub(in, key) = IF i < Len(Ins(in).subs) THEN Ins(in).subs[i + 1] ELSE NoSub
      BY <1>3 DEF GetSub
  <2> HIDE DEF i
  <2>5. CASE i < Len(Ins(in).subs)
    <3>1. i + 1 \in 1 .. Len(Ins(in).subs)
        BY <2>2, <2>3, <2>5 DEF IsInstrument
    <3> QED  BY <1>1, <1>3, <2>1, <2>2, <2>4, <2>5, <3>1 DEF IsInstrument
  <2>6. CASE ~(i < Len(Ins(in).subs))
      BY <1>1, <2>4, <2>6
  <2> QED  BY <2>5, <2>6
<1> QED  BY <1>2, <1>3

LEMMA SampleOfIs ==
    ASSUME NEW sub
    PROVE  SampleOf(sub) \in Nat \cup {-1}
BY SamplesAssumption DEF SampleOf

\* State u is state s after voice i (FREE: none) has been given a note of
\* sample smp for track c, whose old note is in channel `to` (see Moves).
Patched(s, c, smp, u, to, i) ==
    /\ StateOK(u)
    /\ Moves(s.virt, u.virt, c, to, i)
    /\ \A v \in Voices \ {i} :
          u.voice[v] = IF u.virt.chn[v] = FREE THEN EmptyVoice ELSE s.voice[v]
    /\ i # FREE => u.voice[i].smp = smp /\ u.voice[i].queue = NoQueue
    /\ \A d \in Channels \ {c} : u.xc[d] = s.xc[d]
    /\ Same(s.xc[c], u.xc[c])
    /\ u.xc[c].notes \subseteq s.xc[c].notes
    /\ u.xc[c].key = s.xc[c].key /\ u.xc[c].delay = s.xc[c].delay

\* The voice that was found plays its sample from the start.
LEMMA VoiceStartedIs ==
    ASSUME NEW s, StateOK(s), NEW c \in Tracks, NEW r, NEW smp, NEW key,
           PoolInv(r.pool), ActsFit(r.pool),
           song.reader # "IT" => \A v \in Voices : r.pool.act[v] = CUT,
           Moves(s.virt, r.pool, c, r.to, r.voc)
    PROVE  Patched(s, c, smp, VoiceStarted(s, c, r, smp, key), r.to, r.voc)
<1> DEFINE w == WithPool(s, r.pool)
           u == VoiceStarted(s, c, r, smp, key)
<1>1. /\ StateOK(w) /\ w.virt = r.pool /\ w.xc = s.xc
      /\ \A v \in Voices : w.voice[v] = IF r.pool.chn[v] = FREE THEN EmptyVoice
                                        ELSE s.voice[v]
    BY WithPoolIs
<1>2. c \in Channels /\ XcOK(s.xc[c]) /\ FREE \notin Voices
    BY Sizes DEF StateOK
<1>3. CASE r.voc = FREE
  <2>1. u = w
      BY <1>3 DEF VoiceStarted
  <2>2. Voices \ {r.voc} = Voices
      BY <1>2, <1>3
  <2>3. Same(s.xc[c], s.xc[c])
      BY <1>2, SameReflexive
  <2> HIDE DEF u, w
  <2>4. Patched(s, c, smp, u, r.to, r.voc)
      BY <1>1, <1>3, <2>1, <2>2, <2>3 DEF Patched
  <2> QED  BY <2>4 DEF u
<1>4. CASE r.voc # FREE
  <2> DEFINE i == r.voc
             x == s.xc[c]
             e == [EmptyVoice EXCEPT !.smp = smp, !.key = key]
             y == [x EXCEPT !.notes = @ \ {"SAMPLE_END"}]
  <2>1. i \in Voices
      BY <1>4 DEF Moves
  <2>2. u = [w EXCEPT !.voice[i] = e, !.xc[c].notes = @ \ {"SAMPLE_END"}]
      BY <1>4 DEF VoiceStarted
  <2>3. {"smp", "queue"} \subseteq DOMAIN e /\ e.smp = smp /\ e.queue = NoQueue
      BY DEF EmptyVoice
  <2>4. /\ XcOK(y) /\ y.smp = x.smp /\ y.key = x.key /\ y.delay = x.delay
        /\ y.event = x.event /\ y.notes \subseteq x.notes /\ y.flags = x.flags
    <3> HIDE DEF x
    <3> QED  BY <1>2 DEF XcOK, x
  <2> HIDE DEF w, e, i
  <2>5. /\ {"virt", "voice", "xc"} \subseteq DOMAIN w
        /\ DOMAIN w.voice = Voices /\ DOMAIN w.xc = Channels
      BY <1>1 DEF StateOK
  <2>6. /\ {"virt", "voice", "xc"} \subseteq DOMAIN u
        /\ u.virt = w.virt
        /\ u.voice = [w.voice EXCEPT ![i] = e]
        /\ u.xc = [w.xc EXCEPT ![c] = y]
    <3>1. w.xc[c] = x
        BY <1>1
    <3> QED  BY <2>2, <2>5, <3>1
  <2> HIDE DEF u, y, x
  <2>7. /\ DOMAIN u.voice = Voices /\ u.voice[i] = e
        /\ \A v \in Voices \ {i} : u.voice[v] = w.voice[v]
      BY <2>1, <2>5, <2>6
  <2>8. /\ DOMAIN u.xc = Channels /\ u.xc[c] = y
        /\ \A d \in Channels \ {c} : u.xc[d] = s.xc[d]
      BY <1>1, <1>2, <2>5, <2>6
  <2>9. StateOK(u)
      BY <1>1, <2>3, <2>4, <2>6, <2>7, <2>8 DEF StateOK
  <2>10. Same(x, y)
      BY <2>4 DEF Same
  <2>11. Patched(s, c, smp, u, r.to, i)
      BY <1>1, <2>3, <2>4, <2>6, <2>7, <2>8, <2>9, <2>10 DEF Patched, i, x
  <2> QED  BY <2>11 DEF i, u
<1> QED  BY <1>3, <1>4

\* libxmp_virt_setpatch always has an answer.
LEMMA SetPatchAnswers ==
    ASSUME NEW s, NEW c, NEW in, NEW sample, NEW nna, NEW dct, NEW dca, NEW dups
    PROVE  SetPatch(s, c, in, sample, nna, dct, dca, dups) # {}
<1> DEFINE k == IF dct = DctOff THEN s ELSE CheckDct(s, c, in, nna, dca, dups)
           places == Placements(k, c)
<1>1. SetPatch(s, c, in, sample, nna, dct, dca, dups)
        = IF places = {} THEN {[pool |-> k, to |-> -1, voc |-> FREE]}
          ELSE IF sample
          THEN {[pool |-> StartNote(p.pool, p.voc, in, nna), to |-> p.to,
                 voc  |-> p.voc] : p \in places}
          ELSE {[pool |-> ResetVoices(p.pool, {p.voc}), to |-> p.to,
                 voc  |-> FREE] : p \in places}
    BY DEF SetPatch
<1> HIDE DEF k, places
<1> QED  BY <1>1

\* libxmp_virt_setpatch, as the readers see it.
LEMMA PatchResultIs ==
    ASSUME NnaNeedsVirtual, NEW s, StateOK(s), NEW c \in Tracks,
           NEW in \in Int, NEW smp \in Int, NEW key, NEW nna \in Nnas, NEW dct,
           NEW dca \in Acts,
           (in >= 0 /\ smp >= 0) \/ dct # DctOff => in \in Instruments,
           song.reader # "IT" => nna = CUT /\ dct = DctOff /\ dca = CUT
    PROVE  LET res == PatchResult(s, c, in, smp, key, nna, dct, dca)
           IN  /\ \E i : /\ Patched(s, c, smp, res.s, res.to, i)
                         /\ in >= 0 /\ smp >= 0 /\ res.to # -1 <=> i # FREE
               /\ song.reader # "IT" => /\ res.to \notin Background
                                        /\ res.to = -1 => s.virt.map[c] = FREE
<1> DEFINE sample == in >= 0 /\ smp >= 0
           dups   == MatchingVoices(s, c, in, smp, key, dct)
           S      == SetPatch(s.virt, c, in, sample, nna, dct, dca, dups)
           r      == CHOOSE r \in S : TRUE
           res    == PatchResult(s, c, in, smp, key, nna, dct, dca)
<1>1. res = [to |-> r.to, s |-> VoiceStarted(s, c, r, smp, key)]
    BY DEF PatchResult, PatchFrom
<1>2. sample \in BOOLEAN /\ (sample => in \in Instruments)
    OBVIOUS
<1>3. dups \in SUBSET {v \in OwnedBy(s.virt, c) : s.virt.ins[v] = in}
    BY DEF MatchingVoices
<1>4. dct = DctOff => dups = {}
    BY DEF MatchingVoices, DctOff, DctInst, DctSmp, DctNote
<1>5. PoolInv(s.virt) /\ ActsFit(s.virt)
    BY DEF StateOK
<1> HIDE DEF sample, dups
<1>6. r \in S
    BY SetPatchAnswers
<1> HIDE DEF r
<1>7. PoolInv(r.pool) /\ ActsFit(r.pool)
  <2> HIDE DEF S
  <2> QED  BY <1>2, <1>3, <1>5, <1>6, SetPatchInv DEF S
<1>8. Moves(s.virt, r.pool, c, r.to, r.voc) /\ (sample /\ r.to # -1 <=> r.voc # FREE)
    BY <1>2, <1>3, <1>5, <1>6, SetPatchMoves DEF S
<1>9. ASSUME song.reader # "IT"
      PROVE  /\ r.to \notin Background
             /\ r.to = -1 => s.virt.map[c] = FREE
             /\ \A v \in Voices : r.pool.act[v] = CUT
  <2>1. r \in SetPatch(s.virt, c, in, sample, CUT, DctOff, CUT, {})
      BY <1>4, <1>6, <1>9
  <2>2. \A v \in Voices : s.virt.act[v] = CUT
      BY <1>9 DEF StateOK
  <2> QED  BY <1>2, <1>5, <2>1, <2>2, SetPatchCuts
<1> HIDE DEF S
<1>10. Patched(s, c, smp, VoiceStarted(s, c, r, smp, key), r.to, r.voc)
    BY <1>7, <1>8, <1>9, VoiceStartedIs
<1>11. res.to = r.to /\ res.s = VoiceStarted(s, c, r, smp, key)
    BY <1>1
<1> HIDE DEF res
<1>12. /\ Patched(s, c, smp, res.s, res.to, r.voc)
       /\ in >= 0 /\ smp >= 0 /\ res.to # -1 <=> r.voc # FREE
    BY <1>8, <1>10, <1>11 DEF sample
<1>13. song.reader # "IT" => /\ res.to \notin Background
                             /\ res.to = -1 => s.virt.map[c] = FREE
    BY <1>9, <1>11
<1> QED  BY <1>12, <1>13 DEF res

\* The sample and the delayed event of the track are as in a good state: the
\* state is good.
LEMMA TrackIsGood ==
    ASSUME NEW s, StateOK(s), Quiet(s, Channels), NEW c \in Tracks,
           Agree(s, Channels \ {c}),
           NEW u, OnlyXc(s, u, c), XcOK(u.xc[c]),
           ~Quirk("PROTRACK") =>
               \A v \in Voices : s.virt.chn[v] = c => s.voice[v].smp = u.xc[c].smp
    PROVE  Good(u)
<1>1. c \in Channels /\ \A b \in Background : b \in Channels \ {c}
    BY Sizes DEF Background
<1>2. StateOK(u)
    BY DEF StateOK, OnlyXc
<1>3. Quiet(u, Channels)
    BY <1>1 DEF Quiet, OnlyXc
<1>4. Agree(u, Channels)
    BY <1>1 DEF Agree, OnlyXc
<1> QED  BY <1>2, <1>3, <1>4 DEF Good

LEMMA KeepsZero ==
    ASSUME NEW s, NEW u, Legal(s, u), NEW d \in Channels, s.xc[d].delay = 0
    PROVE  u.xc[d].delay = 0
BY DEF Legal, Keeps

\* set_patch: the voice of the track plays the new sample, or there is none.
LEMMA PatchIs ==
    ASSUME NnaNeedsVirtual, song.reader # "IT",
           NEW s, StateOK(s), Quiet(s, Channels), NEW c \in Tracks,
           Agree(s, Channels \ {c}), NEW in \in Int, NEW smp \in Int,
           in >= 0 /\ smp >= 0 => in \in Instruments
    PROVE  LET u == Patch(s, c, in, smp)
           IN  /\ StateOK(u) /\ Quiet(u, Channels) /\ Agree(u, Channels \ {c})
               /\ Same(s.xc[c], u.xc[c])
               /\ \A d \in Channels \ {c} : u.xc[d] = s.xc[d]
               /\ \A v \in Voices : u.virt.chn[v] = c => u.voice[v].smp = smp
<1> DEFINE res == PatchResult(s, c, in, smp, 0, CUT, DctOff, CUT)
           u   == Patch(s, c, in, smp)
<1>1. CUT \in Nnas /\ CUT \in Acts
    BY NnasAssumption DEF Acts
<1>2. /\ \E i : Patched(s, c, smp, res.s, res.to, i)
      /\ res.to \notin Background
      /\ res.to = -1 => s.virt.map[c] = FREE
    BY <1>1, PatchResultIs
<1>3. u = res.s
    BY DEF Patch
<1> HIDE DEF u, res
<1>4. PICK i : Patched(s, c, smp, u, res.to, i)
    BY <1>2, <1>3
<1>5. /\ StateOK(u) /\ Moves(s.virt, u.virt, c, res.to, i)
      /\ \A v \in Voices \ {i} :
            u.voice[v] = IF u.virt.chn[v] = FREE THEN EmptyVoice ELSE s.voice[v]
      /\ i # FREE => u.voice[i].smp = smp /\ u.voice[i].queue = NoQueue
      /\ \A d \in Channels \ {c} : u.xc[d] = s.xc[d]
      /\ Same(s.xc[c], u.xc[c])
    BY <1>4 DEF Patched
<1>6. /\ i # FREE => u.virt.chn[i] = c /\ res.to # -1
      /\ \A v \in Voices \ {i} : /\ u.virt.chn[v] \in {FREE, s.virt.chn[v]}
                                 /\ res.to # -1 => u.virt.chn[v] # c
    BY <1>2, <1>5 DEF Moves
<1>7. c # FREE /\ FREE \notin Voices /\ c \in Channels /\ c \notin Background /\ FREE \notin Channels
    BY Sizes DEF Background
<1>8. ASSUME NEW v \in Voices, u.virt.chn[v] = c  PROVE u.voice[v].smp = smp
  <2>1. CASE v = i
      BY <1>5, <1>7, <2>1
  <2>2. CASE v # i
    <3>1. res.to = -1 /\ s.virt.chn[v] = c
        BY <1>6, <1>7, <1>8, <2>2
    <3>2. s.virt.map[c] = v
        BY <1>7, <3>1 DEF StateOK, PoolInv, MapsAgreeIn
    <3> QED  BY <1>2, <1>7, <3>1, <3>2
  <2> QED  BY <2>1, <2>2
<1>9. ASSUME NEW b \in Background
      PROVE  /\ u.xc[b] = s.xc[b] /\ b # FREE
             /\ \A v \in Voices : u.virt.chn[v] = b => s.virt.chn[v] = b
  <2>1. b \in Channels \ {c} /\ b # FREE /\ b # c
      BY <1>7 DEF Background
  <2> QED  BY <1>5, <1>6, <1>7, <2>1
<1>10. Quiet(u, Channels)
    BY <1>9 DEF Quiet
<1>11. Agree(u, Channels \ {c})
  <2>1. EmptyVoice.queue = NoQueue
      BY DEF EmptyVoice
  <2>2. ASSUME ~Quirk("PROTRACK"), NEW v \in Voices
        PROVE  /\ u.voice[v].queue = NoQueue
               /\ u.virt.chn[v] \in Channels \ {c} =>
                     u.voice[v].smp = u.xc[u.virt.chn[v]].smp
    <3>1. CASE v = i
        BY <1>5, <1>6, <1>7, <3>1
    <3>2. CASE v # i
      <4>1. u.voice[v] = IF u.virt.chn[v] = FREE THEN EmptyVoice ELSE s.voice[v]
          BY <1>5, <3>2
      <4>2. /\ s.voice[v].queue = NoQueue
            /\ s.virt.chn[v] \in Channels \ {c} =>
                  s.voice[v].smp = s.xc[s.virt.chn[v]].smp
          BY <2>2 DEF Agree
      <4>3. u.virt.chn[v] \in {FREE, s.virt.chn[v]}
          BY <1>6, <3>2
      <4> QED  BY <1>5, <1>7, <2>1, <4>1, <4>2, <4>3
    <3> QED  BY <3>1, <3>2
  <2> QED  BY <2>2 DEF Agree
<1>12. /\ StateOK(u) /\ Quiet(u, Channels) /\ Agree(u, Channels \ {c})
       /\ Same(s.xc[c], u.xc[c])
       /\ \A d \in Channels \ {c} : u.xc[d] = s.xc[d]
       /\ \A v \in Voices : u.virt.chn[v] = c => u.voice[v].smp = smp
    BY <1>5, <1>8, <1>10, <1>11
<1> QED  BY <1>12 DEF u

\* A note on a channel that has its instrument.
LEMMA StartSampleLegal ==
    ASSUME NnaNeedsVirtual, song.reader # "IT", NEW s, Good(s), NEW c \in Tracks,
           NEW smp \in Nat \cup {-1}, NEW noted,
           smp >= 0 => s.xc[c].ins \in Instruments
    PROVE  Legal(s, StartSample(s, c, smp, noted))
<1> DEFINE t == IF smp < 0 THEN s ELSE Patch(s, c, s.xc[c].ins, smp)
           x == t.xc[c]
           y == [x EXCEPT !.notes = (@ \ {"END"}) \cup (IF noted THEN {"SET"} ELSE {}),
                          !.smp = IF smp < 0 THEN @ ELSE smp]
           u == StartSample(s, c, smp, noted)
<1>1. /\ StateOK(s) /\ Quiet(s, Channels) /\ Agree(s, Channels)
      /\ c \in Channels /\ XcOK(s.xc[c])
    BY Sizes DEF Good, StateOK
<1>2. Agree(s, Channels \ {c})
    BY <1>1 DEF Agree
<1>3. u = [t EXCEPT !.xc[c].notes = (@ \ {"END"}) \cup (IF noted THEN {"SET"} ELSE {}),
                    !.xc[c].smp = IF smp < 0 THEN @ ELSE smp]
    BY DEF StartSample
<1>4. /\ StateOK(t) /\ Quiet(t, Channels) /\ Agree(t, Channels \ {c})
      /\ Same(s.xc[c], x)
      /\ \A d \in Channels \ {c} : t.xc[d] = s.xc[d]
      /\ smp >= 0 => \A v \in Voices : t.virt.chn[v] = c => t.voice[v].smp = smp
      /\ smp < 0 => t = s
  <2>1. CASE smp < 0
      BY <1>1, <1>2, <2>1, SameReflexive
  <2>2. CASE smp >= 0
    <3> DEFINE in == s.xc[c].ins
    <3>1. in \in Instruments
        BY <2>2
    <3> HIDE DEF in
    <3>2. in \in Int
        BY <3>1, InstrumentsAssumption
    <3>3. smp \in Int
        OBVIOUS
    <3>4. t = Patch(s, c, in, smp)
        BY <2>2 DEF in
    <3> HIDE DEF t
    <3>5. /\ StateOK(t) /\ Quiet(t, Channels) /\ Agree(t, Channels \ {c})
          /\ Same(s.xc[c], t.xc[c])
          /\ \A d \in Channels \ {c} : t.xc[d] = s.xc[d]
          /\ \A v \in Voices : t.virt.chn[v] = c => t.voice[v].smp = smp
        BY <1>1, <1>2, <3>1, <3>2, <3>3, <3>4, PatchIs, ZenonT(60)
    <3> QED  BY <2>2, <3>3, <3>5
  <2> QED  BY <2>1, <2>2, SMTT(30)
<1> HIDE DEF t
<1>5. XcOK(x)
    BY <1>4 DEF Same
<1> HIDE DEF x
<1>6. /\ XcOK(y) /\ y.smp = (IF smp < 0 THEN x.smp ELSE smp)
      /\ y.delay = x.delay /\ y.event = x.event
    BY <1>5 DEF XcOK
<1>7. OnlyXc(t, u, c) /\ u.xc[c] = y
  <2>1. /\ {"virt", "voice", "xc"} \subseteq DOMAIN t
        /\ DOMAIN t.xc = Channels /\ t.xc[c] = x
        /\ {"notes", "smp"} \subseteq DOMAIN x
      BY <1>4, <1>5 DEF StateOK, XcOK, x
  <2>2. /\ {"virt", "voice", "xc"} \subseteq DOMAIN u
        /\ u.virt = t.virt /\ u.voice = t.voice
        /\ u.xc = [t.xc EXCEPT ![c] = y]
    <3> HIDE DEF u
    <3> QED  BY <1>1, <1>3, <2>1
  <2> HIDE DEF u, y
  <2> QED  BY <1>1, <2>1, <2>2 DEF OnlyXc
<1> HIDE DEF u, y
<1>8. ~Quirk("PROTRACK") =>
         \A v \in Voices : t.virt.chn[v] = c => t.voice[v].smp = u.xc[c].smp
    BY <1>1, <1>4, <1>6, <1>7 DEF Agree, x
<1>9. Good(u)
    BY <1>4, <1>6, <1>7, <1>8, TrackIsGood
<1>10. Keeps(s, u)
    BY <1>4, <1>6, <1>7 DEF Keeps, OnlyXc, Same
<1> QED  BY <1>9, <1>10 DEF Legal, u

\* A voice changes what it plays, not whom it plays for.
LEMMA VoiceStep ==
    ASSUME NEW s, StateOK(s), NEW C, Quiet(s, C), NEW u,
           {"virt", "voice", "xc"} \subseteq DOMAIN u, u.virt = s.virt,
           DOMAIN u.voice = Voices,
           \A v \in Voices : {"smp", "queue"} \subseteq DOMAIN u.voice[v],
           DOMAIN u.xc = Channels,
           \A d \in Channels :
              /\ XcOK(u.xc[d]) /\ u.xc[d].flags = s.xc[d].flags
              /\ u.xc[d].delay = s.xc[d].delay /\ u.xc[d].event = s.xc[d].event
              /\ "END" \notin s.xc[d].notes => "END" \notin u.xc[d].notes
    PROVE  StateOK(u) /\ Quiet(u, C) /\ Keeps(s, u)
<1>1. StateOK(u)
    BY DEF StateOK
<1>2. Quiet(u, C)
    BY DEF Quiet, Background
<1>3. Keeps(s, u)
    BY DEF Keeps
<1> QED  BY <1>1, <1>2, <1>3

-----------------------------------------------------------------------------
(* Swapped samples                                                         *)

\* hotswap_sample
LEMMA HotSwapIs ==
    ASSUME NEW s, StateOK(s), NEW C, Quiet(s, C), NEW v \in Voices, s.virt.chn[v] \in Channels
    PROVE  /\ StateOK(HotSwap(s, v)) /\ Quiet(HotSwap(s, v), C) /\ Keeps(s, HotSwap(s, v))
           /\ HotSwap(s, v).virt = s.virt
<1> DEFINE c == s.virt.chn[v]
           x == s.xc[c]
           y == [x EXCEPT !.notes = @ \ {"SAMPLE_END"}]
           e == [EmptyVoice EXCEPT !.smp = s.voice[v].queue, !.key = s.voice[v].key]
           u == HotSwap(s, v)
<1>1. u = [s EXCEPT !.voice[v] = e, !.xc[c].notes = @ \ {"SAMPLE_END"}]
    BY DEF HotSwap
<1>2. {"smp", "queue"} \subseteq DOMAIN e
    BY DEF EmptyVoice
<1>3. /\ {"virt", "voice", "xc"} \subseteq DOMAIN s
      /\ DOMAIN s.voice = Voices /\ DOMAIN s.xc = Channels /\ c \in Channels
      /\ \A d \in Channels : XcOK(s.xc[d])
    BY DEF StateOK
<1>4. /\ XcOK(y) /\ y.flags = x.flags /\ y.delay = x.delay /\ y.event = x.event
      /\ "END" \notin x.notes => "END" \notin y.notes
  <2>1. XcOK(x)
      BY <1>3
  <2> HIDE DEF x
  <2> QED  BY <2>1 DEF XcOK
<1> HIDE DEF e, u, c
<1>5. /\ {"virt", "voice", "xc"} \subseteq DOMAIN u
      /\ u.virt = s.virt /\ u.voice = [s.voice EXCEPT ![v] = e]
      /\ u.xc = [s.xc EXCEPT ![c] = y]
    BY <1>1, <1>3
<1> HIDE DEF y
<1>6. /\ DOMAIN u.voice = Voices /\ DOMAIN u.xc = Channels
      /\ \A w \in Voices : u.voice[w] = IF w = v THEN e ELSE s.voice[w]
      /\ \A d \in Channels : u.xc[d] = IF d = c THEN y ELSE s.xc[d]
    BY <1>3, <1>5
<1>7. \A w \in Voices : {"smp", "queue"} \subseteq DOMAIN u.voice[w]
    BY <1>2, <1>6 DEF StateOK
<1>8. \A d \in Channels :
         /\ XcOK(u.xc[d]) /\ u.xc[d].flags = s.xc[d].flags
         /\ u.xc[d].delay = s.xc[d].delay /\ u.xc[d].event = s.xc[d].event
         /\ "END" \notin s.xc[d].notes => "END" \notin u.xc[d].notes
    BY <1>3, <1>4, <1>6
<1>9. StateOK(u) /\ Quiet(u, C) /\ Keeps(s, u)
    BY <1>5, <1>6, <1>7, <1>8, VoiceStep
<1> QED  BY <1>5, <1>9 DEF u

\* The swap that waits for a voice, and whether the voice pauses, are set.
LEMMA SetQueueIs ==
    ASSUME NEW s, StateOK(s), NEW C, Quiet(s, C), NEW v \in Voices, NEW e,
           {"smp", "queue"} \subseteq DOMAIN e,
           NEW u, u = [s EXCEPT !.voice[v] = e]
    PROVE  /\ StateOK(u) /\ Quiet(u, C) /\ Keeps(s, u) /\ u.virt = s.virt /\ u.xc = s.xc
           /\ \A w \in Voices : u.voice[w] = IF w = v THEN e ELSE s.voice[w]
<1>1. /\ {"virt", "voice", "xc"} \subseteq DOMAIN s
      /\ DOMAIN s.voice = Voices /\ DOMAIN s.xc = Channels
      /\ \A d \in Channels : XcOK(s.xc[d])
      /\ \A w \in Voices : {"smp", "queue"} \subseteq DOMAIN s.voice[w]
    BY DEF StateOK
<1>2. /\ {"virt", "voice", "xc"} \subseteq DOMAIN u
      /\ u.virt = s.virt /\ u.voice = [s.voice EXCEPT ![v] = e] /\ u.xc = s.xc
    BY <1>1
<1>3. /\ DOMAIN u.voice = Voices
      /\ \A w \in Voices : u.voice[w] = IF w = v THEN e ELSE s.voice[w]
    BY <1>1, <1>2
<1>4. \A w \in Voices : {"smp", "queue"} \subseteq DOMAIN u.voice[w]
    BY <1>1, <1>3
<1>5. StateOK(u) /\ Quiet(u, C) /\ Keeps(s, u)
    BY <1>1, <1>2, <1>3, <1>4, VoiceStep
<1> QED  BY <1>2, <1>3, <1>5

\* Where samples are swapped, any voice may play any sample.
LEMMA SwappedIsGood ==
    ASSUME Quirk("PROTRACK"), NEW s, NEW u,
           StateOK(u), Quiet(u, Channels), Keeps(s, u)
    PROVE  Legal(s, u)
BY DEF Legal, Good, Agree

\* Only voices that play for a channel are mapped.
LEMMA MappedPlays ==
    ASSUME NEW s, StateOK(s), NEW c \in Channels, s.virt.map[c] # FREE
    PROVE  s.virt.map[c] \in Voices /\ s.virt.chn[s.virt.map[c]] = c
BY DEF StateOK, PoolInv, PoolType, MapsAgreeIn

\* libxmp_virt_voicepos
LEMMA VoicePosLegal ==
    ASSUME NEW s, Good(s), NEW c \in Channels
    PROVE  Legal(s, VoicePos(s, c)) /\ VoicePos(s, c).virt = s.virt
<1> DEFINE v == s.virt.map[c]
           q == s.voice[v].queue
           e == [s.voice[v] EXCEPT !.queue = NoQueue, !.paused = @ \/ q = -1]
<1>0. StateOK(s) /\ Quiet(s, Channels) /\ Agree(s, Channels)
    BY DEF Good
<1>1. CASE v = FREE \/ q = NoQueue
    BY <1>1, LegalReflexive DEF VoicePos
<1>2. CASE ~(v = FREE \/ q = NoQueue)
  <2>1. v \in Voices /\ s.virt.chn[v] = c
      BY <1>0, <1>2, MappedPlays
  <2>2. Quirk("PROTRACK")
      BY <1>0, <1>2, <2>1 DEF Agree
  <2>3. CASE q \notin {-1, s.voice[v].smp}
    <3>1. VoicePos(s, c) = HotSwap(s, v)
        BY <1>2, <2>3 DEF VoicePos
    <3> HIDE DEF v, q
    <3>2. /\ StateOK(HotSwap(s, v)) /\ Quiet(HotSwap(s, v), Channels)
          /\ Keeps(s, HotSwap(s, v)) /\ HotSwap(s, v).virt = s.virt
        BY <1>0, <2>1, HotSwapIs
    <3> QED  BY <2>2, <3>1, <3>2, SwappedIsGood
  <2>4. CASE q \in {-1, s.voice[v].smp}
    <3> DEFINE u == [s EXCEPT !.voice[v] = e]
    <3>1. {"smp", "queue"} \subseteq DOMAIN e
        BY <1>0, <2>1 DEF StateOK
    <3>2. VoicePos(s, c) = [s EXCEPT !.voice[v].queue = NoQueue,
                                     !.voice[v].paused = @ \/ q = -1]
        BY <1>2, <2>4 DEF VoicePos
    <3>3. {"virt", "voice", "xc"} \subseteq DOMAIN s /\ DOMAIN s.voice = Voices
          /\ "queue" \in DOMAIN s.voice[v]
        BY <1>0, <2>1 DEF StateOK
    <3> HIDE DEF q, v
    <3>4. VoicePos(s, c) = u
        BY <2>1, <3>2, <3>3
    <3> HIDE DEF u, e
    <3>5. StateOK(u) /\ Quiet(u, Channels) /\ Keeps(s, u) /\ u.virt = s.virt
        BY <1>0, <2>1, <3>1, SetQueueIs DEF u
    <3> QED  BY <2>2, <3>4, <3>5, SwappedIsGood
  <2> QED  BY <2>3, <2>4
<1> QED  BY <1>1, <1>2

\* Instrument and envelope of a channel stand, and no release is forgotten.
Stands(x, y) ==
    /\ y.ins = x.ins /\ y.idx = x.idx
    /\ "ENV_RELEASE" \in x.notes => "ENV_RELEASE" \in y.notes

\* A new position of the voice, and the swap that goes with it, leave the
\* envelopes of the channels alone.
LEMMA VoicePosStands ==
    ASSUME NEW s, Good(s), NEW c \in Channels, NEW d \in Channels
    PROVE  Stands(s.xc[d], VoicePos(s, c).xc[d])
<1> DEFINE v == s.virt.map[c]
           q == s.voice[v].queue
<1>1. /\ StateOK(s) /\ XcOK(s.xc[d]) /\ {"virt", "voice", "xc"} \subseteq DOMAIN s
      /\ DOMAIN s.xc = Channels
    BY DEF Good, StateOK
<1>2. \/ VoicePos(s, c) = s
      \/ v # FREE /\ VoicePos(s, c) = HotSwap(s, v)
      \/ VoicePos(s, c) = [s EXCEPT !.voice[v].queue = NoQueue,
                                    !.voice[v].paused = @ \/ q = -1]
    BY DEF VoicePos
<1>3. CASE VoicePos(s, c).xc = s.xc
    BY <1>3 DEF Stands
<1>4. CASE v # FREE /\ VoicePos(s, c) = HotSwap(s, v)
  <2> DEFINE x == s.xc[c]
             y == [x EXCEPT !.notes = @ \ {"SAMPLE_END"}]
             e == [EmptyVoice EXCEPT !.smp = s.voice[v].queue, !.key = s.voice[v].key]
  <2>1. v \in Voices /\ s.virt.chn[v] = c
      BY <1>1, <1>4, MappedPlays
  <2>2. HotSwap(s, v) = [s EXCEPT !.voice[v] = e, !.xc[c].notes = @ \ {"SAMPLE_END"}]
      BY <2>1 DEF HotSwap
  <2> HIDE DEF e
  <2>3. HotSwap(s, v).xc = [s.xc EXCEPT ![c] = y]
      BY <1>1, <2>2
  <2>4. Stands(x, y)
    <3>1. XcOK(x)
        BY <1>1 DEF StateOK
    <3> HIDE DEF x
    <3> QED  BY <3>1 DEF XcOK, Stands
  <2> HIDE DEF y
  <2>5. VoicePos(s, c).xc[d] = IF d = c THEN y ELSE s.xc[d]
      BY <1>1, <1>4, <2>3
  <2> QED  BY <2>4, <2>5 DEF Stands
<1> HIDE DEF v, q
<1>5. CASE VoicePos(s, c) = [s EXCEPT !.voice[v].queue = NoQueue,
                                      !.voice[v].paused = @ \/ q = -1]
    BY <1>1, <1>3, <1>5
<1> QED  BY <1>2, <1>3, <1>4, <1>5

\* libxmp_virt_queuepatch
LEMMA QueuePatchLegal ==
    ASSUME NnaNeedsVirtual, song.reader # "IT", Quirk("PROTRACK"),
           NEW s, Good(s), NEW c \in Tracks,
           NEW in \in Int, NEW sid \in Int, in < 0 \/ in \in Instruments
    PROVE  Legal(s, QueuePatchOf(s, c, in, sid))
<1> DEFINE v   == s.virt.map[c]
           smp == IF in < 0 THEN -1 ELSE sid
           e   == [s.voice[v] EXCEPT !.queue = smp]
           q   == Queued(s, v, smp)
           u   == QueuePatchOf(s, c, in, sid)
<1>0. /\ StateOK(s) /\ Quiet(s, Channels) /\ Agree(s, Channels) /\ c \in Channels
      /\ PoolInv(s.virt) /\ ActsFit(s.virt) /\ s.virt \in PoolType
    BY Sizes DEF Good, StateOK, PoolInv
<1>1. CASE v = FREE
  <2>1. CASE smp < 0
      BY <1>1, <2>1, LegalReflexive DEF QueuePatchOf
  <2>2. CASE ~(smp < 0)
    <3>1. u = Patch(s, c, in, smp)
        BY <1>1, <2>2 DEF QueuePatchOf
    <3>2. smp \in Int /\ (in >= 0 /\ smp >= 0 => in \in Instruments)
        OBVIOUS
    <3>3. Agree(s, Channels \ {c})
        BY <1>0 DEF Agree
    <3> HIDE DEF smp, u
    <3>4. /\ StateOK(u) /\ Quiet(u, Channels)
          /\ Same(s.xc[c], u.xc[c])
          /\ \A d \in Channels \ {c} : u.xc[d] = s.xc[d]
        BY <1>0, <3>1, <3>2, <3>3, PatchIs, ZenonT(60)
    <3>5. Keeps(s, u)
        BY <3>4 DEF Keeps, Same
    <3>6. Legal(s, u)
        BY <3>4, <3>5, SwappedIsGood
    <3> QED  BY <3>6 DEF u
  <2> QED  BY <2>1, <2>2
<1>2. CASE v # FREE
  <2>1. v \in Voices
      BY <1>0, <1>2, MappedPlays
  <2>2. /\ StateOK(q) /\ Quiet(q, Channels) /\ Keeps(s, q)
        /\ q.virt = s.virt /\ q.xc = s.xc
    <3>1. CASE q = s
        BY <1>0, <3>1 DEF Keeps
    <3>2. CASE q # s
      <4>1. q = [s EXCEPT !.voice[v].queue = smp]
          BY <3>2 DEF Queued
      <4>2. /\ {"virt", "voice", "xc"} \subseteq DOMAIN s /\ DOMAIN s.voice = Voices
            /\ {"smp", "queue"} \subseteq DOMAIN s.voice[v]
          BY <1>0, <2>1 DEF StateOK
      <4> HIDE DEF v, q, smp
      <4>3. q = [s EXCEPT !.voice[v] = e]
          BY <2>1, <4>1, <4>2
      <4>4. {"smp", "queue"} \subseteq DOMAIN e
          BY <4>2
      <4> HIDE DEF e
      <4> QED  BY <1>0, <2>1, <4>3, <4>4, SetQueueIs
    <3> QED  BY <3>1, <3>2
  <2>3. CASE in < 0
    <3>1. u = q
        BY <1>2, <2>3 DEF QueuePatchOf
    <3> HIDE DEF u, q
    <3> QED  BY <2>2, <3>1, SwappedIsGood DEF u
  <2>4. CASE ~(in < 0)
    <3> DEFINE ins == [s.virt.ins EXCEPT ![v] = in]
               p   == [s.virt EXCEPT !.ins = ins]
    <3>1. u = [q EXCEPT !.virt.ins[v] = in]
        BY <1>2, <2>4 DEF QueuePatchOf
    <3>2. /\ ins \in [Voices -> Instruments \cup {0}] /\ s.virt.vol \in [Voices -> Levels]
          /\ s.virt.act \in [Voices -> Acts]
        BY <1>0, <2>4 DEF PoolType
    <3> HIDE DEF q, u, v, ins
    <3>3. p = [s.virt EXCEPT !.vol = s.virt.vol, !.act = s.virt.act, !.ins = ins]
        BY <1>0, KeepFields
    <3>4. p.chn = s.virt.chn /\ p.act = s.virt.act
        BY <1>0 DEF PoolType
    <3> HIDE DEF p
    <3>5. PoolInv(p) /\ ActsFit(p)
        BY <1>0, <3>2, <3>3, AttributesInv
    <3>6. /\ {"virt", "voice", "xc"} \subseteq DOMAIN u
          /\ u.virt = p /\ u.voice = q.voice /\ u.xc = q.xc
      <4>1. /\ {"virt", "voice", "xc"} \subseteq DOMAIN q /\ "ins" \in DOMAIN q.virt
          BY <1>0, <2>2 DEF StateOK, PoolType
      <4> QED  BY <2>2, <3>1, <4>1 DEF p, ins
    <3>7. song.reader # "IT" => \A w \in Voices : p.act[w] = CUT
        BY <1>0, <3>4 DEF StateOK
    <3>8. Agree(q, Channels)
        BY DEF Agree
    <3>9. StateOK(u) /\ Quiet(u, Channels) /\ Keeps(q, u)
        BY <2>2, <3>4, <3>5, <3>6, <3>7, <3>8, AttributesStep
    <3>10. Keeps(s, u)
        BY <2>2, <3>9 DEF Keeps
    <3>11. Legal(s, u)
        BY <3>9, <3>10, SwappedIsGood
    <3> QED  BY <3>11 DEF u
  <2> QED  BY <2>3, <2>4
<1> QED  BY <1>1, <1>2

-----------------------------------------------------------------------------
(* The pieces the readers share                                            *)

\* The fade of an instrument the module has.
LEMMA ReleaseIs ==
    ASSUME IsSong(song), NEW in, ValidIns(in)
    PROVE  Ins(in).rls \in Int
<1>1. in \in 0 .. Len(song.instruments) - 1
    BY DEF ValidIns
<1>2. in + 1 \in 1 .. Len(song.instruments)
    BY <1>1 DEF IsSong
<1> QED  BY <1>2 DEF IsSong, IsInstrument, Ins

\* Instruments and envelopes are restarted.
LEMMA ChannelFunctions ==
    ASSUME NEW x, XcOK(x), NEW noted, NEW sub
    PROVE  /\ Same(x, ResetEnvelopes(x)) /\ Same(x, ResetEnvelopesCarry(x))
           /\ Same(x, NewInstrument(x)) /\ Same(x, SetPeriod(x, noted, sub))
           /\ ResetEnvelopes(x).delay = x.delay
<1>1. Same(x, ResetEnvelopes(x)) /\ ResetEnvelopes(x).delay = x.delay
    BY DEF XcOK, Same, ResetEnvelopes
<1>2. Same(x, ResetEnvelopesCarry(x))
    BY DEF XcOK, Same, ResetEnvelopesCarry
<1>3. Same(x, NewInstrument(x))
    BY FullAssumption DEF XcOK, Same, NewInstrument
<1>4. Same(x, SetPeriod(x, noted, sub))
    BY DEF XcOK, Same, SetPeriod
<1> QED  BY <1>1, <1>2, <1>3, <1>4

\* The facts a good state gives about a track.
LEMMA TrackFacts ==
    ASSUME NEW s, Good(s), NEW c \in Tracks
    PROVE  /\ c \in Channels /\ XcOK(s.xc[c])
           /\ {"virt", "voice", "xc"} \subseteq DOMAIN s /\ DOMAIN s.xc = Channels
BY Sizes DEF Good, StateOK

\* Two effects and the period.
LEMMA EffectsLegal ==
    ASSUME IsSong(song), NEW s, Good(s), NEW c \in Tracks, NEW f, IsEffect(f),
           NEW g, IsEffect(g), NEW noted, NEW sub
    PROVE  Legal(s, WithPeriod(ApplyFx(ApplyFx(s, c, f), c, g), c, noted, sub))
<1> DEFINE t == ApplyFx(s, c, f)
           w == ApplyFx(t, c, g)
           u == WithPeriod(w, c, noted, sub)
<1>1. Legal(s, t)
    BY ApplyFxLegal
<1>2. Good(t)
    BY <1>1 DEF Legal
<1> HIDE DEF t
<1>3. Legal(t, w)
    BY <1>2, ApplyFxLegal
<1>4. Good(w)
    BY <1>3 DEF Legal
<1> HIDE DEF w
<1>5. Same(w.xc[c], SetPeriod(w.xc[c], noted, sub))
    BY <1>4, TrackFacts, ChannelFunctions
<1>6. Legal(w, u)
    BY <1>4, <1>5, TrackSet DEF WithPeriod
<1> HIDE DEF u
<1>7. Legal(s, u)
    BY <1>1, <1>3, <1>6, LegalTransitive
<1> QED  BY <1>7 DEF u, w, t

\* A track's delayed event is forgotten, whatever else happens to the track.
LEMMA ForgetDelay ==
    ASSUME NEW s, Good(s), NEW c \in Tracks, NEW y, Same(s.xc[c], y), y.delay = 0,
           NEW u, Legal([s EXCEPT !.xc[c] = y], u)
    PROVE  Legal(s, u) /\ u.xc[c].delay = 0
<1> DEFINE t == [s EXCEPT !.xc[c] = y]
<1>1. Legal(s, t)
    BY TrackSet
<1>2. c \in Channels /\ StateOK(s)
    BY TrackFacts DEF Good
<1>3. t.xc[c] = y
    BY <1>2, SetXc
<1> HIDE DEF t
<1>4. Legal(t, u)
    BY DEF t
<1>5. u.xc[c].delay = 0
    BY <1>2, <1>3, <1>4, KeepsZero
<1> QED  BY <1>1, <1>4, <1>5, LegalTransitive

\* The tail of the MOD and ST3 readers.
LEMMA FinishLegal ==
    ASSUME IsSong(song), NEW s, Good(s), NEW c \in Tracks, NEW e, IsEvent(e), NEW noted
    PROVE  Legal(s, Finish(s, c, e, noted)) /\ Finish(s, c, e, noted).xc[c].delay = 0
<1> DEFINE x   == s.xc[c]
           sub == GetSub(x.ins, x.key)
           y   == [x EXCEPT !.delay = 0]
           z   == IF e.ins # 0 /\ sub # NoSub THEN ResetEnvelopes(y) ELSE y
           t   == [s EXCEPT !.xc[c] = z]
           u   == Finish(s, c, e, noted)
<1>1. XcOK(x)
    BY TrackFacts
<1>2. XcOK(y) /\ y.delay = 0 /\ Same(x, y)
  <2> HIDE DEF x
  <2> QED  BY <1>1 DEF XcOK, Same
<1> HIDE DEF y
<1>3. Same(y, z) /\ z.delay = 0
    BY <1>2, ChannelFunctions, SameReflexive
<1>4. u = WithPeriod(ApplyFx(ApplyFx(t, c, e.f2), c, e.fx), c, noted, sub)
    BY DEF Finish, y
<1> HIDE DEF z, x, sub
<1>5. Same(x, z)
    BY <1>2, <1>3, SameTransitive
<1>6. Good(t)
    BY <1>5, TrackSet DEF Legal, x
<1> HIDE DEF t, u
<1>7. Legal(t, u)
    BY <1>4, <1>6, EffectsLegal DEF IsEvent
<1>8. Legal(s, u) /\ u.xc[c].delay = 0
    BY <1>3, <1>5, <1>7, ForgetDelay DEF t, x
<1> QED  BY <1>8 DEF u

-----------------------------------------------------------------------------
(* The MOD reader                                                          *)

\* The instrument number
LEMMA ModInstrumentLegal ==
    ASSUME NnaNeedsVirtual, IsSong(song), song.reader # "IT", NEW s, Good(s),
           NEW c \in Tracks, NEW e
    PROVE  Legal(s, ModInstrument(s, c, e))
<1> DEFINE in    == e.ins - 1
           x     == NewInstrument(s.xc[c])
           takes == ~IsPorta(e) \/ (GetSub(in, x.key) # NoSub /\ Quirk("PROTRACK"))
           y     == [x EXCEPT !.ins  = IF takes THEN in ELSE @,
                              !.fade = IF IsPorta(e) THEN @ ELSE Ins(in).rls]
           t     == [s EXCEPT !.xc[c] = x]
<1>1. XcOK(s.xc[c]) /\ c \in Channels
    BY TrackFacts
<1>2. Same(s.xc[c], x)
    BY <1>1, ChannelFunctions
<1>3. CASE e.ins = 0
    BY <1>3, LegalReflexive DEF ModInstrument
<1>4. CASE e.ins # 0 /\ ValidIns(in)
  <2>1. XcOK(x)
      BY <1>2 DEF Same
  <2>2. Same(x, y)
    <3> HIDE DEF x, takes, in
    <3>1. Ins(in).rls \in Int
        BY <1>4, ReleaseIs
    <3> QED  BY <2>1, <3>1 DEF XcOK, Same
  <2>3. ModInstrument(s, c, e) = [s EXCEPT !.xc[c] = y]
      BY <1>4 DEF ModInstrument
  <2> HIDE DEF y, x
  <2>4. Same(s.xc[c], y)
      BY <1>2, <2>2, SameTransitive
  <2> QED  BY <2>3, <2>4, TrackSet
<1>5. CASE e.ins # 0 /\ ~ValidIns(in)
  <2>1. \/ ModInstrument(s, c, e) = ResetChannelOf(t, c)
        \/ Quirk("PROTRACK") /\ ModInstrument(s, c, e) = QueuePatchOf(t, c, -1, -1)
      BY <1>5 DEF ModInstrument
  <2> HIDE DEF x
  <2>2. Legal(s, t)
      BY <1>2, TrackSet
  <2>3. Good(t)
      BY <2>2 DEF Legal
  <2> HIDE DEF t
  <2>4. Legal(t, ResetChannelOf(t, c))
      BY <1>1, <2>3, ResetChannelLegal
  <2>5. Quirk("PROTRACK") => Legal(t, QueuePatchOf(t, c, -1, -1))
    <3>1. -1 \in Int /\ -1 < 0
        OBVIOUS
    <3> QED  BY <2>3, <3>1, QueuePatchLegal
  <2> QED  BY <2>1, <2>2, <2>4, <2>5, LegalTransitive
<1> QED  BY <1>3, <1>4, <1>5

\* The tail, and the new position.
LEMMA ModFinishLegal ==
    ASSUME IsSong(song), NEW s, Good(s), NEW c \in Tracks, NEW e, IsEvent(e),
           NEW noted, NEW swap
    PROVE  /\ Legal(s, ModFinish(s, c, e, noted, swap))
           /\ ModFinish(s, c, e, noted, swap).xc[c].delay = 0
<1> DEFINE t == Finish(s, c, e, noted)
           u == ModFinish(s, c, e, noted, swap)
<1>1. Legal(s, t) /\ t.xc[c].delay = 0
    BY FinishLegal
<1>2. Good(t) /\ c \in Channels
    BY <1>1, TrackFacts DEF Legal
<1>3. u = t \/ u = VoicePos(t, c)
    BY DEF ModFinish
<1> HIDE DEF t, u
<1>4. Legal(t, u)
    BY <1>2, <1>3, VoicePosLegal, LegalReflexive
<1>5. Legal(s, u) /\ u.xc[c].delay = 0
    BY <1>1, <1>2, <1>4, LegalTransitive, KeepsZero
<1> QED  BY <1>5 DEF u

\* The swap of an instrument number without a note.
LEMMA ModSwapLegal ==
    ASSUME NnaNeedsVirtual, IsSong(song), song.reader # "IT",
           NEW s, Good(s), NEW c \in Tracks, NEW e, IsEvent(e),
           NEW sub, NEW noted, NEW swap,
           swap => e.ins - 1 \in Instruments
    PROVE  /\ Legal(s, ModSwap(s, c, e, sub, noted, swap))
           /\ ModSwap(s, c, e, sub, noted, swap).xc[c].delay = 0
<1>1. CASE swap /\ sub # NoSub /\ Quirk("PROTRACK") /\ "SET" \in s.xc[c].notes
  <2> DEFINE in == e.ins - 1
             q  == QueuePatchOf(s, c, in, SampleOf(sub))
             t  == [q EXCEPT !.xc[c].smp = sub.sid]
             y  == [q.xc[c] EXCEPT !.smp = sub.sid]
  <2>1. in \in Int /\ SampleOf(sub) \in Int
      BY SampleOfIs DEF IsEvent
  <2>2. Legal(s, q)
    <3> HIDE DEF in
    <3> QED  BY <1>1, <2>1, QueuePatchLegal DEF in
  <2>3. Good(q)
      BY <2>2 DEF Legal
  <2> HIDE DEF q
  <2>4. XcOK(q.xc[c]) /\ {"virt", "voice", "xc"} \subseteq DOMAIN q /\ DOMAIN q.xc = Channels
        /\ c \in Channels /\ StateOK(q)
      BY <2>3, TrackFacts DEF Good
  <2>5. XcOK(y) /\ y.delay = q.xc[c].delay /\ y.event = q.xc[c].event
      BY <2>4 DEF XcOK
  <2>6. t = [q EXCEPT !.xc[c] = y]
      BY <2>4
  <2> HIDE DEF t, y
  <2>7. OnlyXc(q, t, c) /\ t.xc[c] = y
      BY <2>4, <2>6, SetXc
  <2>8. Good(t)
    <3>1. Agree(q, Channels \ {c})
        BY <1>1 DEF Agree
    <3> QED  BY <1>1, <2>3, <2>4, <2>5, <2>7, <3>1, TrackIsGood DEF Good
  <2>9. Legal(q, t)
      BY <2>5, <2>7, <2>8 DEF Legal, Keeps, OnlyXc
  <2>10. ModSwap(s, c, e, sub, noted, swap) = ModFinish(t, c, e, noted, swap)
      BY <1>1 DEF ModSwap, t, q, in
  <2>11. /\ Legal(t, ModFinish(t, c, e, noted, swap))
         /\ ModFinish(t, c, e, noted, swap).xc[c].delay = 0
      BY <2>8, ModFinishLegal
  <2> QED  BY <2>2, <2>9, <2>10, <2>11, LegalTransitive
<1>2. CASE ~(swap /\ sub # NoSub /\ Quirk("PROTRACK") /\ "SET" \in s.xc[c].notes)
  <2>1. ModSwap(s, c, e, sub, noted, swap) = ModFinish(s, c, e, noted, swap)
      BY <1>2 DEF ModSwap
  <2> QED  BY <2>1, ModFinishLegal
<1> QED  BY <1>1, <1>2

\* Keys are numbers.
LEMMA KeysAre ==
    ASSUME NEW k, ValidNote(k)
    PROVE  k \in Nat
BY KeysAssumption DEF ValidNote, Keys, KEY_OFF

\* The note, or the key off.
LEMMA ModNoteLegal ==
    ASSUME NnaNeedsVirtual, IsSong(song), song.reader # "IT",
           NEW s, Good(s), NEW c \in Tracks, NEW e, IsEvent(e)
    PROVE  Legal(s, ModNote(s, c, e)) /\ ModNote(s, c, e).xc[c].delay = 0
<1> DEFINE x      == s.xc[c]
           insSub == IF e.ins = 0 THEN NoSub ELSE GetSub(e.ins - 1, x.key)
           plays  == ~IsPorta(e) /\ ValidNote(e.note - 1)
           sub    == IF plays THEN GetSub(x.ins, x.key) ELSE insSub
           smp    == IF sub = NoSub \/ IsInvalid(e) THEN -1 ELSE SampleOf(sub)
           noted  == plays /\ ~sub.low
           y      == [x EXCEPT !.notes = @ \cup RELEASE]
           t      == IF plays THEN StartSample(s, c, smp, noted)
                     ELSE IF e.note = KEY_OFF
                     THEN [s EXCEPT !.xc[c].notes = @ \cup RELEASE] ELSE s
           swap   == insSub # NoSub /\ ~(plays /\ smp >= 0)
           u      == ModNote(s, c, e)
<1>1. u = ModSwap(t, c, e, sub, noted, swap)
    BY DEF ModNote
<1>2. swap => e.ins - 1 \in Instruments
    BY GetSubIs
<1>3. smp \in Nat \cup {-1}
  <2>1. SampleOf(sub) \in Nat \cup {-1}
      BY SampleOfIs
  <2> QED  BY <2>1
<1>4. plays /\ smp >= 0 => s.xc[c].ins \in Instruments
  <2>1. ~(-1 >= 0)
      OBVIOUS
  <2>2. plays /\ smp >= 0 => GetSub(x.ins, x.key) # NoSub
      BY <2>1
  <2> QED  BY <2>2, GetSubIs
<1>5. XcOK(x) /\ {"virt", "voice", "xc"} \subseteq DOMAIN s /\ DOMAIN s.xc = Channels
      /\ c \in Channels
    BY TrackFacts
<1>6. Same(x, y)
  <2> HIDE DEF x
  <2> QED  BY <1>5 DEF XcOK, Same
<1> HIDE DEF sub, smp, noted, swap
<1>7. Legal(s, t)
  <2>1. CASE plays
    <3>1. t = StartSample(s, c, smp, noted)
        BY <2>1
    <3> HIDE DEF t
    <3> QED  BY <1>3, <1>4, <2>1, <3>1, StartSampleLegal
  <2>2. CASE ~plays /\ e.note = KEY_OFF
    <3>1. t = [s EXCEPT !.xc[c].notes = @ \cup RELEASE]
        BY <2>2
    <3> HIDE DEF t
    <3>2. t = [s EXCEPT !.xc[c] = y]
        BY <1>5, <3>1
    <3> HIDE DEF y
    <3> QED  BY <1>6, <3>2, TrackSet
  <2>3. CASE ~plays /\ e.note # KEY_OFF
    <3>1. t = s
        BY <2>3
    <3> QED  BY <3>1, LegalReflexive
  <2> QED  BY <2>1, <2>2, <2>3
<1>8. Good(t)
    BY <1>7 DEF Legal
<1> HIDE DEF t, u
<1>9. Legal(t, u) /\ u.xc[c].delay = 0
    BY <1>1, <1>2, <1>8, ModSwapLegal
<1>10. Legal(s, u) /\ u.xc[c].delay = 0
    BY <1>7, <1>9, LegalTransitive
<1> QED  BY <1>10 DEF u

\* read_event_mod
LEMMA ReadEventModLegal ==
    ASSUME NnaNeedsVirtual, IsSong(song), song.reader # "IT",
           NEW s, Good(s), NEW c \in Tracks, NEW e, IsEvent(e)
    PROVE  Legal(s, ReadEventMod(s, c, e)) /\ ReadEventMod(s, c, e).xc[c].delay = 0
<1> DEFINE x == s.xc[c]
           key == IF ValidNote(e.note - 1) /\ ~IsPorta(e) THEN e.note - 1 ELSE x.key
           y == [x EXCEPT !.flags = {}, !.key = key]
           t == [s EXCEPT !.xc[c].flags = {},
                          !.xc[c].key = IF ValidNote(e.note - 1) /\ ~IsPorta(e)
                                        THEN e.note - 1 ELSE @]
           m == ModInstrument(t, c, e)
           u == ReadEventMod(s, c, e)
<1>1. u = ModNote(m, c, e)
    BY DEF ReadEventMod
<1>2. XcOK(x) /\ {"virt", "voice", "xc"} \subseteq DOMAIN s /\ DOMAIN s.xc = Channels
      /\ c \in Channels
    BY TrackFacts
<1>3. key \in Nat \cup {-1}
    BY <1>2, KeysAre DEF XcOK
<1>4. t = [s EXCEPT !.xc[c] = y]
    BY <1>2 DEF XcOK
<1> HIDE DEF key
<1>5. Same(x, y)
  <2> HIDE DEF x
  <2> QED  BY <1>2, <1>3 DEF XcOK, Same
<1> HIDE DEF y, t
<1>6. Legal(s, t)
    BY <1>4, <1>5, TrackSet
<1>7. Good(t)
    BY <1>6 DEF Legal
<1>8. Legal(t, m)
    BY <1>7, ModInstrumentLegal
<1>9. Good(m)
    BY <1>8 DEF Legal
<1> HIDE DEF m, u
<1>10. Legal(m, u) /\ u.xc[c].delay = 0
    BY <1>1, <1>9, ModNoteLegal
<1>11. Legal(s, u) /\ u.xc[c].delay = 0
    BY <1>6, <1>8, <1>10, LegalTransitive
<1> QED  BY <1>11 DEF u

-----------------------------------------------------------------------------
(* The Scream Tracker reader                                               *)

LEMMA ReadEventSt3Legal ==
    ASSUME NnaNeedsVirtual, IsSong(song), song.reader # "IT",
           NEW s, Good(s), NEW c \in Tracks, NEW e, IsEvent(e)
    PROVE  Legal(s, ReadEventSt3(s, c, e)) /\ ReadEventSt3(s, c, e).xc[c].delay = 0
<1> DEFINE in    == e.ins - 1
           x0    == s.xc[c]
           porta == IsPorta(e) /\ ~(s.virt.map[c] = FREE /\ x0.ins # in)
           key   == IF ValidNote(e.note - 1) /\ ~porta THEN e.note - 1 ELSE x0.key
           x1    == [x0 EXCEPT !.flags = {}, !.key = key]
           x2    == IF e.ins = 0 THEN x1 ELSE NewInstrument(x1)
           x3    == IF ValidIns(in) /\ x2.ins # in /\ ~porta
                    THEN [x2 EXCEPT !.ins = in, !.fade = Ins(in).rls] ELSE x2
           s1    == [s EXCEPT !.xc[c] = x3]
           plays == ~porta /\ ValidNote(e.note - 1)
           sub   == GetSub(x3.ins, x3.key)
           noted == plays /\ sub # NoSub /\ ~sub.low
           y     == [s1.xc[c] EXCEPT !.notes = @ \cup RELEASE]
           s2    == IF e.note = KEY_OFF
                    THEN [s1 EXCEPT !.xc[c].notes = @ \cup RELEASE]
                    ELSE IF plays
                    THEN StartSample(s1, c, SampleOf(sub), FALSE)
                    ELSE s1
           u     == ReadEventSt3(s, c, e)
<1>1. XcOK(x0) /\ c \in Channels /\ StateOK(s)
    BY TrackFacts DEF Good
<1>2. key \in Nat \cup {-1}
    BY <1>1, KeysAre DEF XcOK
<1>3. x1 = [x0 EXCEPT !.flags = {}, !.key = IF ValidNote(e.note - 1) /\ ~porta
                                            THEN e.note - 1 ELSE @]
    BY <1>1 DEF XcOK
<1>4. u = Finish(s2, c, e, noted)
  <2> HIDE DEF x1
  <2> QED  BY <1>3 DEF ReadEventSt3
<1> HIDE DEF key
<1>5. Same(x0, x1)
  <2> HIDE DEF x0
  <2> QED  BY <1>1, <1>2 DEF XcOK, Same
<1>6. Same(x1, x2)
    BY <1>5, ChannelFunctions, SameReflexive DEF Same
<1> HIDE DEF x0, x1, x2
<1>7. Same(x2, x3)
  <2>1. ValidIns(in) => Ins(in).rls \in Int
      BY ReleaseIs
  <2> HIDE DEF in
  <2> QED  BY <1>6, <2>1 DEF XcOK, Same
<1> HIDE DEF x3
<1>8. Legal(s, s1)
  <2>1. Same(x0, x3)
      BY <1>5, <1>6, <1>7, SameTransitive
  <2> QED  BY <2>1, TrackSet DEF x0
<1>9. Good(s1) /\ s1.xc[c] = x3
    BY <1>1, <1>8, SetXc DEF Legal
<1> HIDE DEF s1
<1>10. XcOK(s1.xc[c]) /\ {"virt", "voice", "xc"} \subseteq DOMAIN s1 /\ DOMAIN s1.xc = Channels
    BY <1>9, TrackFacts
<1>11. SampleOf(sub) \in Nat \cup {-1}
    BY SampleOfIs
<1>12. SampleOf(sub) >= 0 => s1.xc[c].ins \in Instruments
  <2>1. SampleOf(sub) >= 0 => sub # NoSub
    <3>1. -2 \notin Samples /\ ~(-1 >= 0)
        BY SamplesAssumption
    <3> QED  BY <3>1 DEF SampleOf, NoSub
  <2> QED  BY <1>9, <2>1, GetSubIs
<1> HIDE DEF sub, noted, plays
<1>13. Legal(s1, s2)
  <2>1. CASE e.note = KEY_OFF
    <3>1. s2 = [s1 EXCEPT !.xc[c].notes = @ \cup RELEASE]
        BY <2>1
    <3> HIDE DEF s2
    <3>2. s2 = [s1 EXCEPT !.xc[c] = y]
        BY <1>1, <1>10, <3>1
    <3>3. Same(s1.xc[c], y)
        BY <1>10 DEF XcOK, Same
    <3> HIDE DEF y
    <3> QED  BY <1>9, <3>2, <3>3, TrackSet
  <2>2. CASE e.note # KEY_OFF /\ plays
    <3>1. s2 = StartSample(s1, c, SampleOf(sub), FALSE)
        BY <2>2
    <3> HIDE DEF s2
    <3> QED  BY <1>9, <1>11, <1>12, <3>1, StartSampleLegal
  <2>3. CASE e.note # KEY_OFF /\ ~plays
    <3>1. s2 = s1
        BY <2>3
    <3> QED  BY <1>9, <3>1, LegalReflexive
  <2> QED  BY <2>1, <2>2, <2>3
<1>14. Good(s2)
    BY <1>13 DEF Legal
<1> HIDE DEF s2, u
<1>15. Legal(s2, u) /\ u.xc[c].delay = 0
    BY <1>4, <1>14, FinishLegal
<1>16. Legal(s, u) /\ u.xc[c].delay = 0
    BY <1>8, <1>13, <1>15, LegalTransitive
<1> QED  BY <1>16 DEF u

-----------------------------------------------------------------------------
(* The Fast Tracker reader                                                 *)

\* The key off, the restart, and the effects.
LEMMA Ft2TailLegal ==
    ASSUME IsSong(song), NEW s, Good(s), NEW c \in Tracks, NEW e, IsEvent(e),
           NEW key, NEW noted
    PROVE  /\ Legal(s, Ft2Tail(s, c, e, key, noted))
           /\ Ft2Tail(s, c, e, key, noted).xc[c].delay = 0
<1> DEFINE x0  == s.xc[c]
           sub == GetSub(x0.ins, x0.key)
           x   == IF key = KEY_OFF THEN Ft2KeyOff(x0) ELSE x0
           restart == (e.ins # 0 /\ key # KEY_OFF) \/ e.fx[1] = "delay"
           z   == IF restart THEN Ft2Restart(x) ELSE x
           y   == [z EXCEPT !.delay = 0]
           t   == [s EXCEPT !.xc[c] = y]
           a   == ApplyFx(t, c, e.f2)
           b   == ApplyFx(a, c, e.fx)
           p   == [b EXCEPT !.xc[c].pitched = @ \/ (noted /\ sub # NoSub)]
           q   == [b.xc[c] EXCEPT !.pitched = @ \/ (noted /\ sub # NoSub)]
           u   == Ft2Tail(s, c, e, key, noted)
<1>1. XcOK(x0) /\ c \in Channels
    BY TrackFacts
<1>2. u = p \/ u = ResetChannelOf(p, c)
  <2> HIDE DEF z, sub
  <2> QED  BY DEF Ft2Tail, z, sub
<1> HIDE DEF x0, sub, restart, u
<1>3. Same(x0, x)
    BY <1>1 DEF XcOK, Same, Ft2KeyOff
<1> HIDE DEF x
<1>4. Same(x, z)
  <2> DEFINE w == [x EXCEPT !.fadeout = Full,
                            !.notes = @ \ (RELEASE \cup {"FADEOUT", "SUSEXIT"})]
  <2>1. XcOK(x)
      BY <1>3 DEF Same
  <2>2. Same(x, w)
      BY <2>1, FullAssumption DEF XcOK, Same
  <2>3. Ft2Restart(x) = w \/ Ft2Restart(x) = ResetEnvelopes(w)
      BY DEF Ft2Restart
  <2> HIDE DEF w
  <2>4. Same(w, ResetEnvelopes(w))
      BY <2>2, ChannelFunctions DEF Same
  <2> QED  BY <2>1, <2>2, <2>3, <2>4, SameTransitive, SameReflexive
<1> HIDE DEF z
<1>5. Same(z, y) /\ y.delay = 0
    BY <1>4 DEF XcOK, Same
<1> HIDE DEF y
<1>6. Same(x0, y)
    BY <1>3, <1>4, <1>5, SameTransitive
<1>7. Good(t)
    BY <1>6, TrackSet DEF x0, Legal
<1> HIDE DEF t
<1>8. Legal(t, a)
    BY <1>7, ApplyFxLegal DEF IsEvent
<1> HIDE DEF a
<1>9. Legal(a, b)
    BY <1>8, ApplyFxLegal DEF IsEvent, Legal
<1> HIDE DEF b
<1>10. Good(b)
    BY <1>9 DEF Legal
<1>11. Legal(b, p)
  <2>1. XcOK(b.xc[c]) /\ {"virt", "voice", "xc"} \subseteq DOMAIN b /\ DOMAIN b.xc = Channels
      BY <1>10, TrackFacts
  <2>2. p = [b EXCEPT !.xc[c] = q]
      BY <1>1, <2>1
  <2>3. Same(b.xc[c], q)
      BY <2>1 DEF XcOK, Same
  <2> HIDE DEF p, q
  <2> QED  BY <1>10, <2>2, <2>3, TrackSet
<1> HIDE DEF p
<1>12. Legal(p, u)
    BY <1>1, <1>2, <1>11, ResetChannelLegal, LegalReflexive DEF Legal
<1>13. Legal(t, u)
    BY <1>8, <1>9, <1>11, <1>12, LegalTransitive
<1>14. Legal(s, u) /\ u.xc[c].delay = 0
    BY <1>5, <1>6, <1>13, ForgetDelay DEF t, x0
<1> QED  BY <1>14 DEF u

\* A note starts its sample; a note out of range is dropped.
LEMMA Ft2NoteLegal ==
    ASSUME NnaNeedsVirtual, IsSong(song), song.reader # "IT",
           NEW s, Good(s), NEW c \in Tracks, NEW e, IsEvent(e), NEW key
    PROVE  /\ Legal(s, Ft2Note(s, c, e, key))
           /\ Ft2Note(s, c, e, key).xc[c].delay = 0
<1> DEFINE x     == s.xc[c]
           plays == ValidNote(key - 1) /\ ~IsPorta(e)
           in    == (IF e.ins # 0 THEN e.ins ELSE x.old) - 1
           sub   == GetSub(in, key - 1)
           w     == [x EXCEPT !.kmem = key,
                              !.fade = IF e.ins = 0 THEN @
                                       ELSE IF ValidIns(in) THEN Ins(in).rls ELSE 1]
           z     == [w EXCEPT !.key = key - 1, !.smp = SampleOf(sub),
                              !.ins = IF ValidIns(in) THEN in ELSE -1]
           y     == IF plays THEN Ft2Select(x, e, key) ELSE x
           t     == [s EXCEPT !.xc[c] = y]
           u     == Ft2Note(s, c, e, key)
<1>0. XcOK(x) /\ c \in Channels /\ StateOK(s) /\ Quiet(s, Channels) /\ Agree(s, Channels)
    BY TrackFacts DEF Good
<1>1. Ft2Select(x, e, key) = IF sub.low THEN w ELSE z
    BY DEF Ft2Select
<1>2. Same(x, w)
  <2> HIDE DEF x, in
  <2>1. ValidIns(in) => Ins(in).rls \in Int
      BY ReleaseIs
  <2> QED  BY <1>0, <2>1 DEF XcOK, Same
<1>3. CASE plays /\ ~sub.low
  <2> DEFINE p == Patch(t, c, y.ins, y.smp)
             v == [p EXCEPT !.xc[c].notes = @ \ {"END"}]
             o == [p.xc[c] EXCEPT !.notes = @ \ {"END"}]
  <2>1. u = Ft2Tail(v, c, e, key, TRUE)
      BY <1>3 DEF Ft2Note
  <2>2. y = z
      BY <1>1, <1>3
  <2>3. SampleOf(sub) \in Nat \cup {-1}
      BY SampleOfIs
  <2>4. key - 1 \in Nat
      BY <1>3, KeysAre
  <2>5. ValidIns(in) => in \in Instruments /\ in \in Int
      BY DEF ValidIns, IsSong
  <2> HIDE DEF w, u
  <2>6. /\ XcOK(z) /\ z.smp = SampleOf(sub) /\ z.delay = w.delay /\ z.event = w.event
        /\ z.ins = IF ValidIns(in) THEN in ELSE -1
    <3> HIDE DEF sub, x, in
    <3> QED  BY <1>2, <2>3, <2>4 DEF XcOK, Same
  <2>7. /\ z.ins \in Int /\ z.smp \in Int
        /\ z.ins >= 0 /\ z.smp >= 0 => z.ins \in Instruments
    <3> HIDE DEF z, sub, in
    <3>1. ~(-1 >= 0) /\ -1 \in Int
        OBVIOUS
    <3>2. CASE ValidIns(in)
        BY <2>3, <2>5, <2>6, <3>2
    <3>3. CASE ~ValidIns(in)
        BY <2>3, <2>6, <3>1, <3>3
    <3> QED  BY <3>2, <3>3
  <2> HIDE DEF z, sub, in
  <2>8. OnlyXc(s, t, c) /\ t.xc[c] = z
      BY <1>0, <2>2, SetXc
  <2> HIDE DEF t, y
  <2>9. /\ StateOK(t) /\ Quiet(t, Channels) /\ Agree(t, Channels \ {c})
    <3>1. \A b \in Background : b \in Channels \ {c}
        BY <1>0 DEF Background
    <3>2. StateOK(t)
        BY <1>0, <2>6, <2>8 DEF StateOK, OnlyXc
    <3>3. Quiet(t, Channels)
        BY <1>0, <2>8, <3>1 DEF Quiet, OnlyXc
    <3>4. Agree(t, Channels \ {c})
        BY <1>0, <2>8 DEF Agree, OnlyXc
    <3> QED  BY <3>2, <3>3, <3>4
  <2>10. /\ StateOK(p) /\ Quiet(p, Channels) /\ Agree(p, Channels \ {c})
         /\ Same(z, p.xc[c])
         /\ \A d \in Channels \ {c} : p.xc[d] = t.xc[d]
         /\ \A k \in Voices : p.virt.chn[k] = c => p.voice[k].smp = z.smp
    <3> DEFINE k == z.ins
               m == z.smp
    <3>1. p = Patch(t, c, k, m)
        BY <2>2
    <3>2. k \in Int /\ m \in Int /\ (k >= 0 /\ m >= 0 => k \in Instruments)
        BY <2>7
    <3>3. t.xc[c] = z
        BY <2>8
    <3> HIDE DEF k, m, p
    <3>4. /\ StateOK(p) /\ Quiet(p, Channels) /\ Agree(p, Channels \ {c})
          /\ Same(t.xc[c], p.xc[c])
          /\ \A d \in Channels \ {c} : p.xc[d] = t.xc[d]
          /\ \A v1 \in Voices : p.virt.chn[v1] = c => p.voice[v1].smp = m
        BY <2>9, <3>1, <3>2, PatchIs, ZenonT(60)
    <3> QED  BY <3>3, <3>4 DEF m
  <2> HIDE DEF p
  <2>11. XcOK(p.xc[c]) /\ {"virt", "voice", "xc"} \subseteq DOMAIN p /\ DOMAIN p.xc = Channels
      BY <2>10 DEF StateOK, Same
  <2>12. v = [p EXCEPT !.xc[c] = o]
      BY <1>0, <2>11
  <2>13. Same(p.xc[c], o)
      BY <2>11 DEF XcOK, Same
  <2> HIDE DEF v, o
  <2>14. OnlyXc(p, v, c) /\ v.xc[c] = o
      BY <1>0, <2>10, <2>12, SetXc
  <2>15. Good(v)
    <3>1. \A k \in Voices : p.virt.chn[k] = c => p.voice[k].smp = v.xc[c].smp
        BY <2>10, <2>13, <2>14 DEF Same
    <3>2. XcOK(v.xc[c])
        BY <2>13, <2>14 DEF Same
    <3> QED  BY <2>10, <2>14, <3>1, <3>2, TrackIsGood
  <2>16. Keeps(s, v)
    <3>1. \A d \in Channels \ {c} : v.xc[d] = s.xc[d]
        BY <2>8, <2>10, <2>14 DEF OnlyXc
    <3>2. v.xc[c].delay = 0 \/ (v.xc[c].delay = x.delay /\ v.xc[c].event = x.event)
        BY <1>2, <2>6, <2>10, <2>13, <2>14 DEF Same
    <3> QED  BY <3>1, <3>2 DEF Keeps
  <2>17. Legal(v, u) /\ u.xc[c].delay = 0
      BY <2>1, <2>15, Ft2TailLegal
  <2> QED  BY <2>15, <2>16, <2>17, LegalTransitive DEF Legal, u
<1>4. CASE ~(plays /\ ~sub.low)
  <2>1. \E k : u = Ft2Tail(t, c, e, k, FALSE)
      BY <1>4 DEF Ft2Note
  <2>2. y = x \/ y = w
      BY <1>1, <1>4
  <2> HIDE DEF w, y, u
  <2>3. Same(x, y)
      BY <1>0, <1>2, <2>2, SameReflexive
  <2>4. Legal(s, t)
      BY <2>3, TrackSet
  <2> HIDE DEF t
  <2>5. Legal(t, u) /\ u.xc[c].delay = 0
      BY <2>1, <2>4, Ft2TailLegal DEF Legal
  <2> QED  BY <2>4, <2>5, LegalTransitive DEF u
<1> QED  BY <1>3, <1>4

\* read_event_ft2
LEMMA ReadEventFt2Legal ==
    ASSUME NnaNeedsVirtual, IsSong(song), song.reader # "IT",
           NEW s, Good(s), NEW c \in Tracks, NEW e, IsEvent(e), NEW late \in BOOLEAN
    PROVE  /\ Legal(s, ReadEventFt2(s, c, e, late))
           /\ ~late => ReadEventFt2(s, c, e, late).xc[c].delay = 0
<1> DEFINE x == s.xc[c]
           y == [x EXCEPT !.flags = {}, !.paused = @ /\ e.ins = 0]
           t == [s EXCEPT !.xc[c] = y]
           f == [e EXCEPT !.fx = IF @ = <<"keyoff", 0>> THEN <<"none", 0>> ELSE @]
           u == ReadEventFt2(s, c, e, late)
<1>1. CASE late
    BY <1>1, LegalReflexive DEF ReadEventFt2
<1>2. CASE ~late
  <2>1. u = Ft2Note(t, c, f, Ft2Key(y, e))
      BY <1>2 DEF ReadEventFt2
  <2>2. XcOK(x)
      BY TrackFacts
  <2>3. Same(x, y)
    <3> HIDE DEF x
    <3> QED  BY <2>2 DEF XcOK, Same
  <2>4. IsEvent(f)
    <3>1. IsEffect(<<"none", 0>>)
        BY DEF IsEffect
    <3> QED  BY <3>1 DEF IsEvent
  <2> HIDE DEF y, f, u
  <2>5. Legal(s, t)
      BY <2>3, TrackSet
  <2> HIDE DEF t
  <2>6. Legal(t, u) /\ u.xc[c].delay = 0
      BY <2>1, <2>4, <2>5, Ft2NoteLegal DEF Legal
  <2> QED  BY <2>5, <2>6, LegalTransitive DEF u
<1> QED  BY <1>1, <1>2

-----------------------------------------------------------------------------
(* The Impulse Tracker reader                                              *)

\* What a stage of the reader hands on.
ItOK(r) ==
    /\ {"s", "ev", "key"} \subseteq DOMAIN r
    /\ Good(r.s) /\ IsEvent(r.ev) /\ r.key \in Nat

\* A stage goes from state s to the one of r.
ItStage(s, r) == ItOK(r) /\ Legal(s, r.s)

LEMMA ItStageTransitive ==
    ASSUME NEW s, NEW q, NEW r, ItStage(s, q), ItStage(q.s, r)
    PROVE  ItStage(s, r)
BY LegalTransitive DEF ItStage

LEMMA ItStageReflexive ==
    ASSUME NEW r, ItOK(r)
    PROVE  ItStage(r.s, r)
BY LegalReflexive DEF ItStage, ItOK

\* The channel's data is changed in the course of a stage.
LEMMA WithXcIs ==
    ASSUME NEW r, ItOK(r), NEW c \in Tracks, NEW y
    PROVE  /\ WithXc(r, c, y).s = [r.s EXCEPT !.xc[c] = y]
           /\ WithXc(r, c, y).ev = r.ev /\ WithXc(r, c, y).key = r.key
           /\ {"s", "ev", "key"} \subseteq DOMAIN WithXc(r, c, y)
BY DEF WithXc, ItOK

LEMMA WithXcStage ==
    ASSUME NEW r, ItOK(r), NEW c \in Tracks, NEW y, Same(r.s.xc[c], y)
    PROVE  ItStage(r.s, WithXc(r, c, y)) /\ WithXc(r, c, y).s.xc[c] = y
<1> DEFINE s == r.s
           q == WithXc(r, c, y)
           u == [s EXCEPT !.xc[c] = y]
<1>1. q.s = u /\ q.ev = r.ev /\ q.key = r.key /\ {"s", "ev", "key"} \subseteq DOMAIN q
    BY WithXcIs
<1>2. Good(s) /\ Same(s.xc[c], y) /\ StateOK(s) /\ c \in Channels
    BY TrackFacts DEF ItOK, Good
<1> HIDE DEF q, s
<1>3. Legal(s, u)
    BY <1>2, TrackSet
<1>4. u.xc[c] = y
    BY <1>2, SetXc
<1> HIDE DEF u
<1>5. ItStage(s, q) /\ q.s.xc[c] = y
    BY <1>1, <1>3, <1>4 DEF ItStage, ItOK, Legal
<1> QED  BY <1>5 DEF s, q

\* The start.
LEMMA ItBeginStage ==
    ASSUME NEW s, Good(s), NEW c \in Tracks, NEW e, IsEvent(e)
    PROVE  ItStage(s, ItBegin(s, c, e))
<1> DEFINE x  == s.xc[c]
           e1 == IF e.ins = 0 /\ e.note # 0 THEN [e EXCEPT !.ins = x.dins] ELSE e
           in == (IF e1.ins # 0 THEN e1.ins ELSE x.old) - 1
           note     == ValidNote(e1.note - 1)
           unmapped == note /\ ValidIns(in) /\ IsUnmapped(in, e1.note - 1)
           ev       == IF unmapped THEN NoEvent ELSE e1
           offs     == (IsPorta(ev) /\ x.pitched /\ "END" \notin x.notes)
                           /\ ev.fx[1] = "offset"
           y == [x EXCEPT !.flags = {}, !.dins = IF e1.ins # 0 THEN 0 ELSE @,
                          !.notes = IF offs /\ ~Quirk("PRENV")
                                    THEN @ \ {"ENV_END"} ELSE @]
           t == [s EXCEPT !.xc[c] = y]
           r == ItBegin(s, c, e)
<1>1. XcOK(x)
    BY TrackFacts
<1>2. IsEvent(e1)
    BY <1>1 DEF IsEvent, XcOK
<1>3. IsEvent(NoEvent)
    BY DEF IsEvent, IsEffect, NoEvent
<1>4. r.s = t /\ r.ev = ev /\ r.key = e1.note /\ {"s", "ev", "key"} \subseteq DOMAIN r
    BY DEF ItBegin
<1> HIDE DEF r, e1
<1>5. IsEvent(ev)
    BY <1>2, <1>3
<1> HIDE DEF unmapped, offs, ev
<1>6. Same(x, y)
  <2> HIDE DEF x
  <2> QED  BY <1>1 DEF XcOK, Same
<1> HIDE DEF y
<1>7. Legal(s, t)
    BY <1>6, TrackSet
<1> HIDE DEF t
<1>8. ItStage(s, r)
    BY <1>2, <1>4, <1>5, <1>7 DEF ItStage, ItOK, Legal, IsEvent
<1> QED  BY <1>8 DEF r

\* The instrument
LEMMA ItInstrumentStage ==
    ASSUME NEW r, ItOK(r), NEW c \in Tracks
    PROVE  ItStage(r.s, ItInstrument(r, c))
<1> DEFINE in     == r.ev.ins - 1
           x0     == r.s.xc[c]
           revive == /\ r.release /\ r.key = 0
                     /\ ~r.porta \/ Quirk("PRENV") \/ "SET" \in x0.notes
           xr     == IF revive THEN ResetEnvelopesCarry(x0) ELSE x0
           x1     == [xr EXCEPT !.paused = FALSE]
           porta  == r.porta /\ ~revive
           again  == porta /\ x1.ins = in /\ ~Quirk("PRENV")
           same   == IsSameSid(x1, in, r.key - 1)
           restart == r.key = 0 /\ "KEY_CUT" \notin x1.notes
           key    == IF restart /\ x1.ins # in THEN x1.key + 1 ELSE r.key
           change == x1.ins # in /\ (~porta \/ ~Quirk("PRENV"))
           r1     == [r EXCEPT !.porta = porta, !.env = ~(again /\ same /\ r.release),
                               !.newIns = again /\ ~same, !.newSmp = again /\ ~same]
           y      == [x1 EXCEPT !.notes = IF restart THEN @ \ {"SET"} ELSE @]
           r2     == [r1 EXCEPT !.invalid = TRUE]
           r3     == [r1 EXCEPT !.key  = key,
                               !.cand = IF change THEN in ELSE @,
                               !.newIns = @ \/ (change /\ ~IsSameSid(x1, in, key - 1))]
           q      == ItInstrument(r, c)
<1>1. \/ q = r
      \/ q = WithXc(r2, c, x1)
      \/ q = WithXc(r3, c, y)
    BY DEF ItInstrument
<1>2. XcOK(x0)
    BY TrackFacts DEF ItOK
<1> HIDE DEF revive, x0
<1>3. Same(x0, xr)
    BY <1>2, ChannelFunctions, SameReflexive
<1> HIDE DEF xr
<1>4. Same(xr, x1)
    BY <1>3 DEF XcOK, Same
<1> HIDE DEF x1, restart
<1>5. Same(x1, y)
    BY <1>4 DEF XcOK, Same
<1>6. key \in Nat
    BY <1>4 DEF XcOK, Same, ItOK
<1> HIDE DEF y, key, change, again, same, porta
<1>7. r1.s = r.s /\ r1.ev = r.ev /\ r1.key = r.key /\ {"s", "ev", "key"} \subseteq DOMAIN r1
    BY DEF ItOK
<1> HIDE DEF r1
<1>8. r2.s = r.s /\ ItOK(r2)
    BY <1>7 DEF ItOK
<1>9. r3.s = r.s /\ ItOK(r3)
    BY <1>6, <1>7 DEF ItOK
<1> HIDE DEF r2, r3, q
<1>10. Same(x0, x1) /\ Same(x0, y)
    BY <1>3, <1>4, <1>5, SameTransitive
<1>11. ItStage(r.s, WithXc(r2, c, x1)) /\ ItStage(r.s, WithXc(r3, c, y))
    BY <1>8, <1>9, <1>10, WithXcStage DEF x0
<1> QED  BY <1>1, <1>11, ItStageReflexive DEF q

\* The note: special keys, and the tone portamento that is none.
LEMMA ItKeyStage ==
    ASSUME NEW r, ItOK(r), NEW c \in Tracks
    PROVE  ItStage(r.s, ItKey(r, c))
<1> DEFINE x == r.s.xc[c]
           y == [x EXCEPT !.notes = @ \cup {"SET"}]
           off == IF ValidIns(x.ins) /\ SustainCheck(Ins(x.ins).env, x.idx)
                  THEN {"SUSEXIT"} ELSE RELEASE
           z(ns, fs) == [y EXCEPT !.notes = @ \cup ns, !.flags = @ \cup fs]
           r0  == [r EXCEPT !.env = FALSE, !.sus = FALSE]
           yc  == [y EXCEPT !.pitched = FALSE, !.notes = @ \cup {"END", "CUT", "KEY_CUT"}]
           cut == WithXc(r, c, yc)
           q   == ItKey(r, c)
<1>1. XcOK(x) /\ c \in Channels
    BY TrackFacts DEF ItOK
<1>2. Same(x, y)
  <2> HIDE DEF x
  <2> QED  BY <1>1 DEF XcOK, Same
<1>3. CASE r.key = 0
    BY <1>3, ItStageReflexive DEF ItKey, KEY_FADE, KEY_OFF, KEY_CUT
<1>4. CASE r.key \in {KEY_FADE, KEY_OFF}
  <2>1. r.key = KEY_FADE => q = WithXc(r0, c, z({"FADEOUT"}, {}))
      BY DEF ItKey, KEY_FADE, KEY_OFF, KEY_CUT
  <2>2. r.key = KEY_OFF => q = WithXc(r0, c, z(off, {"KEY_OFF"}))
      BY DEF ItKey, KEY_FADE, KEY_OFF, KEY_CUT
  <2> HIDE DEF y, q, x, off
  <2>3. ASSUME NEW ns, NEW fs  PROVE Same(y, z(ns, fs))
      BY <1>2 DEF XcOK, Same
  <2>4. r0.s = r.s /\ ItOK(r0)
      BY DEF ItOK
  <2> HIDE DEF z, r0
  <2>5. ASSUME NEW ns, NEW fs  PROVE ItStage(r.s, WithXc(r0, c, z(ns, fs)))
    <3>1. Same(x, z(ns, fs))
        BY <1>2, <2>3, SameTransitive
    <3> QED  BY <2>4, <3>1, WithXcStage DEF x
  <2> QED  BY <1>4, <2>1, <2>2, <2>5 DEF q
<1>5. CASE r.key = KEY_CUT
  <2>1. q = [cut EXCEPT !.s = ResetChannelOf(cut.s, c)]
      BY <1>5 DEF ItKey, KEY_FADE, KEY_OFF, KEY_CUT
  <2> HIDE DEF y, x
  <2>2. Same(y, yc)
      BY <1>2 DEF XcOK, Same
  <2> HIDE DEF yc
  <2>3. Same(x, yc)
      BY <1>2, <2>2, SameTransitive
  <2>4. ItStage(r.s, cut)
      BY <2>3, WithXcStage DEF x
  <2> HIDE DEF cut, q
  <2>5. Legal(cut.s, ResetChannelOf(cut.s, c))
      BY <1>1, <2>4, ResetChannelLegal DEF ItStage, ItOK
  <2>6. ItStage(cut.s, q)
      BY <2>1, <2>4, <2>5 DEF ItStage, ItOK, Legal
  <2> QED  BY <2>4, <2>6, ItStageTransitive DEF q
<1>6. CASE r.key \notin {0, KEY_FADE, KEY_OFF, KEY_CUT}
  <2> DEFINE r1 == [r EXCEPT !.env = TRUE, !.sus = TRUE]
             y1 == [y EXCEPT !.notes = @ \ {"ENV_RELEASE", "SUSEXIT", "FADEOUT"}]
             r2 == [r EXCEPT !.key = 0]
  <2>1. \/ q = WithXc(r, c, y) \/ q = WithXc(r1, c, y)
        \/ q = WithXc(r, c, y1) \/ q = WithXc(r2, c, y)
      BY <1>6 DEF ItKey
  <2> HIDE DEF y, x, q
  <2>2. Same(y, y1)
      BY <1>2 DEF XcOK, Same
  <2>3. ItOK(r1) /\ r1.s = r.s
      BY DEF ItOK
  <2>4. ItOK(r2) /\ r2.s = r.s
      BY DEF ItOK
  <2> HIDE DEF y1, r1, r2
  <2>5. Same(x, y1)
      BY <1>2, <2>2, SameTransitive
  <2>6. /\ ItStage(r.s, WithXc(r, c, y)) /\ ItStage(r.s, WithXc(r1, c, y))
        /\ ItStage(r.s, WithXc(r, c, y1)) /\ ItStage(r.s, WithXc(r2, c, y))
      BY <1>2, <2>3, <2>4, <2>5, WithXcStage DEF x
  <2> QED  BY <2>1, <2>6 DEF q
<1> QED  BY <1>3, <1>4, <1>5, <1>6

\* The pool has no voice for the note: voices may have been cut as duplicates.
LEMMA NoVoiceIsGood ==
    ASSUME NEW s, Good(s), NEW c \in Tracks, NEW smp, NEW i, NEW u,
           Patched(s, c, smp, u, -1, i)
    PROVE  Legal(s, u)
<1>1. /\ StateOK(u) /\ Moves(s.virt, u.virt, c, -1, i)
      /\ \A v \in Voices \ {i} :
            u.voice[v] = IF u.virt.chn[v] = FREE THEN EmptyVoice ELSE s.voice[v]
      /\ \A d \in Channels \ {c} : u.xc[d] = s.xc[d]
      /\ Same(s.xc[c], u.xc[c])
    BY DEF Patched
<1>2. /\ c \in Channels /\ c \notin Background /\ FREE \notin Voices
      /\ FREE \notin Channels /\ -1 \notin Background
    BY Sizes DEF Background, FREE
<1>3. i = FREE /\ \A v \in Voices : u.virt.chn[v] \in {FREE, s.virt.chn[v]}
    BY <1>1, <1>2 DEF Moves
<1>4. Quiet(u, Channels)
  <2>1. \A b \in Background : u.xc[b] = s.xc[b] /\ b # FREE
      BY <1>1, <1>2, Sizes DEF Background
  <2> QED  BY <1>3, <2>1 DEF Good, Quiet
<1>5. Agree(u, Channels)
  <2>1. EmptyVoice.queue = NoQueue
      BY DEF EmptyVoice
  <2>2. \A d \in Channels : u.xc[d].smp = s.xc[d].smp
      BY <1>1 DEF Same
  <2>3. ASSUME ~Quirk("PROTRACK"), NEW v \in Voices
        PROVE  /\ u.voice[v].queue = NoQueue
               /\ u.virt.chn[v] \in Channels =>
                     u.voice[v].smp = u.xc[u.virt.chn[v]].smp
    <3>1. u.voice[v] = IF u.virt.chn[v] = FREE THEN EmptyVoice ELSE s.voice[v]
        BY <1>1, <1>2, <1>3
    <3>2. /\ s.voice[v].queue = NoQueue
          /\ s.virt.chn[v] \in Channels => s.voice[v].smp = s.xc[s.virt.chn[v]].smp
        BY <2>3 DEF Good, Agree
    <3> QED  BY <1>2, <1>3, <2>1, <2>2, <3>1, <3>2
  <2> QED  BY <2>3 DEF Agree
<1>6. Keeps(s, u)
    BY <1>1 DEF Keeps, Same
<1> QED  BY <1>1, <1>4, <1>5, <1>6 DEF Legal, Good

\* The note that was pushed aside plays on in channel `to`, with the data its
\* track had.
LEMMA PushedIsGood ==
    ASSUME NEW s, Good(s), NEW c \in Tracks,
           s.xc[c].delay = 0, "END" \notin s.xc[c].notes,
           NEW smp \in Int, NEW to \in Background \cup {c}, NEW i, NEW u,
           Patched(s, c, smp, u, to, i), smp >= 0 <=> i # FREE,
           NEW w, w = [CopyChannel(u, to, c) EXCEPT
                          !.xc[c].smp = IF smp < 0 THEN @ ELSE smp]
    PROVE  Legal(s, w)
<1> DEFINE x == u.xc[c]
           y == [x EXCEPT !.smp = IF smp < 0 THEN @ ELSE smp]
           z == [x EXCEPT !.flags = {}]
<1>1. /\ StateOK(u) /\ Moves(s.virt, u.virt, c, to, i)
      /\ \A v \in Voices \ {i} :
            u.voice[v] = IF u.virt.chn[v] = FREE THEN EmptyVoice ELSE s.voice[v]
      /\ i # FREE => u.voice[i].smp = smp /\ u.voice[i].queue = NoQueue
      /\ \A d \in Channels \ {c} : u.xc[d] = s.xc[d]
      /\ Same(s.xc[c], x) /\ x.notes \subseteq s.xc[c].notes
      /\ x.delay = s.xc[c].delay
    BY DEF Patched
<1>2. /\ c \in Channels /\ to \in Channels /\ c \notin Background
      /\ FREE \notin Voices /\ FREE \notin Channels /\ to # -1
      /\ Background \subseteq Channels
    BY Sizes DEF Background, FREE
<1>3. /\ {"virt", "voice", "xc"} \subseteq DOMAIN u
      /\ DOMAIN u.xc = Channels /\ DOMAIN u.voice = Voices /\ XcOK(x)
    BY <1>1 DEF StateOK, Same
<1>4. /\ {"virt", "voice", "xc"} \subseteq DOMAIN w
      /\ w.virt = u.virt /\ w.voice = u.voice /\ DOMAIN w.xc = Channels
      /\ \A d \in Channels : w.xc[d] = IF d = c THEN y ELSE IF d = to THEN z ELSE u.xc[d]
  <2>1. CASE to = c
    <3>1. w = [u EXCEPT !.xc[c].smp = IF smp < 0 THEN @ ELSE smp]
        BY <2>1 DEF CopyChannel
    <3> HIDE DEF z
    <3> QED  BY <1>2, <1>3, <2>1, <3>1
  <2>2. CASE to # c
    <3> DEFINE k == [u EXCEPT !.xc[to] = z]
    <3>1. w = [k EXCEPT !.xc[c].smp = IF smp < 0 THEN @ ELSE smp]
        BY <2>2 DEF CopyChannel
    <3> HIDE DEF z
    <3>2. /\ {"virt", "voice", "xc"} \subseteq DOMAIN k
          /\ k.virt = u.virt /\ k.voice = u.voice
          /\ k.xc = [u.xc EXCEPT ![to] = z]
        BY <1>2, <1>3
    <3> HIDE DEF k
    <3>3. DOMAIN k.xc = Channels /\ k.xc[c] = x
          /\ \A d \in Channels : k.xc[d] = IF d = to THEN z ELSE u.xc[d]
        BY <1>2, <1>3, <2>2, <3>2
    <3>4. /\ {"virt", "voice", "xc"} \subseteq DOMAIN w
          /\ w.virt = k.virt /\ w.voice = k.voice
          /\ w.xc = [k.xc EXCEPT ![c] = y]
        BY <1>2, <3>1, <3>2, <3>3
    <3> HIDE DEF y
    <3> QED  BY <1>2, <3>2, <3>3, <3>4
  <2> QED  BY <2>1, <2>2
<1>5. /\ XcOK(y) /\ y.smp = (IF smp < 0 THEN x.smp ELSE smp)
      /\ y.delay = x.delay
  <2> HIDE DEF x
  <2> QED  BY <1>3 DEF XcOK
<1>6. /\ XcOK(z) /\ z.smp = x.smp /\ z.flags = {} /\ z.delay = x.delay
      /\ z.notes = x.notes
  <2> HIDE DEF x
  <2> QED  BY <1>3 DEF XcOK
<1> HIDE DEF y, z, x
<1>7. StateOK(w)
    BY <1>1, <1>4, <1>5, <1>6 DEF StateOK
<1>8. Quiet(w, Channels)
  <2>1. ASSUME NEW b \in Background
        PROVE  /\ w.xc[b].delay = 0 /\ w.xc[b].flags = {}
               /\ \A v \in Voices : w.virt.chn[v] = b => "END" \notin w.xc[b].notes
    <3>1. b \in Channels /\ b # c /\ b # FREE
        BY <1>2
    <3>2. CASE b = to
        BY <1>1, <1>4, <1>6, <3>1, <3>2
    <3>3. CASE b # to
      <4>1. w.xc[b] = s.xc[b]
          BY <1>1, <1>4, <3>1, <3>3
      <4>2. \A v \in Voices : w.virt.chn[v] = b => s.virt.chn[v] = b
        <5>1. ASSUME NEW v \in Voices, u.virt.chn[v] = b  PROVE s.virt.chn[v] = b
          <6>1. v # i
              BY <1>1, <1>2, <3>1, <5>1 DEF Moves
          <6> QED  BY <1>1, <3>1, <3>3, <5>1, <6>1 DEF Moves
        <5> QED  BY <1>4, <5>1
      <4> QED  BY <3>1, <4>1, <4>2 DEF Good, Quiet
    <3> QED  BY <3>2, <3>3
  <2> QED  BY <2>1 DEF Quiet
<1>9. Agree(w, Channels)
  <2>1. EmptyVoice.queue = NoQueue
      BY DEF EmptyVoice
  <2>2. ASSUME ~Quirk("PROTRACK"), NEW v \in Voices
        PROVE  /\ w.voice[v].queue = NoQueue
               /\ w.virt.chn[v] \in Channels =>
                     w.voice[v].smp = w.xc[w.virt.chn[v]].smp
    <3>1. CASE v = i
      <4>1. u.virt.chn[v] = c /\ u.voice[v].smp = smp /\ u.voice[v].queue = NoQueue
            /\ smp >= 0
          BY <1>1, <1>2, <3>1 DEF Moves
      <4> QED  BY <1>2, <1>4, <1>5, <4>1
    <3>2. CASE v # i
      <4>1. u.voice[v] = IF u.virt.chn[v] = FREE THEN EmptyVoice ELSE s.voice[v]
          BY <1>1, <3>2
      <4>2. /\ s.voice[v].queue = NoQueue
            /\ s.virt.chn[v] \in Channels =>
                  s.voice[v].smp = s.xc[s.virt.chn[v]].smp
          BY <2>2 DEF Good, Agree
      <4>3. /\ \/ u.virt.chn[v] \in {FREE, s.virt.chn[v]}
               \/ to \in Background /\ s.virt.chn[v] = c /\ u.virt.chn[v] = to
            /\ u.virt.chn[v] # c
            /\ to \in Background /\ u.virt.chn[v] = to => s.virt.chn[v] = c
          BY <1>1, <1>2, <3>2 DEF Moves
      <4>4. x.smp = s.xc[c].smp
          BY <1>1 DEF Same
      <4>5. CASE u.virt.chn[v] = FREE
          BY <1>2, <1>4, <2>1, <4>1, <4>5
      <4>6. CASE u.virt.chn[v] = to /\ to # c
          BY <1>2, <1>4, <1>6, <4>1, <4>2, <4>3, <4>4, <4>6, SMTT(30)
      <4>7. CASE u.virt.chn[v] \notin {FREE, to, c}
          BY <1>1, <1>2, <1>4, <4>1, <4>2, <4>3, <4>7, SMTT(30)
      <4> QED  BY <4>3, <4>5, <4>6, <4>7
    <3> QED  BY <3>1, <3>2
  <2> QED  BY <2>2 DEF Agree
<1>10. Keeps(s, w)
  <2>1. ASSUME NEW d \in Channels
        PROVE  w.xc[d].delay = 0 \/ w.xc[d] = s.xc[d]
      BY <1>1, <1>4, <1>5, <1>6
  <2> QED  BY <2>1 DEF Keeps
<1> QED  BY <1>7, <1>8, <1>9, <1>10 DEF Legal, Good

\* The note: the state of the reader after it.  The key is -1 when there is
\* no voice for the note, and nothing else of the event is read.
LEMMA ItPatchStage ==
    ASSUME NnaNeedsVirtual, IsSong(song), song.reader = "IT",
           NEW r, ItOK(r), NEW c \in Tracks
    PROVE  LET q == ItPatch(r, c)
           IN  /\ "s" \in DOMAIN q /\ Legal(r.s, q.s) /\ IsEvent(q.ev)
               /\ q.key = -1 => q.s.xc[c].delay = 0
<1> DEFINE key == r.key - 1
           sub == GetSub(r.cand, key)
           x0  == r.s.xc[c]
           x   == [x0 EXCEPT !.key = key, !.notes = @ \ {"END"}]
           xs  == [x EXCEPT !.delay = 0]
           xn  == [x EXCEPT !.flags = {}]
           s   == WithXc(r, c, xs).s
           t   == IF r.newSmp THEN SetNnaOf(s, c, CUT) ELSE s
           dct == IF r.newSmp THEN DctOff ELSE sub.dct
           in  == r.cand
           smp == SampleOf(sub)
           nna == sub.nna
           dca == sub.dca
           res == PatchResult(t, c, in, smp, key, nna, dct, dca)
           q   == ItPatch(r, c)
<1>1. XcOK(x0) /\ c \in Channels /\ c \notin Background
    BY TrackFacts DEF ItOK, Background
<1>2. CASE ~ValidNote(key) \/ r.invalid
  <2>1. q = r
      BY <1>2 DEF ItPatch
  <2>2. r.key # -1
      BY DEF ItOK
  <2> QED  BY <2>1, <2>2, ItStageReflexive DEF ItStage, ItOK
<1>3. CASE ValidNote(key) /\ ~r.invalid
  <2>1. key \in Nat
      BY <1>3, KeysAre
  <2>2. q = IF sub = NoSub THEN WithXc(r, c, xn) ELSE ItPatched(r, c, sub, res)
      BY <1>3 DEF ItPatch
  <2>3. /\ sub # NoSub => in \in Instruments
        /\ sub.nna \in Nnas /\ sub.dca \in Acts
      BY GetSubIs
  <2>4. smp \in Nat \cup {-1}
      BY SampleOfIs
  <2> HIDE DEF key, sub, res, q
  <2>5. Same(x0, x) /\ "END" \notin x.notes
    <3> HIDE DEF x0
    <3> QED  BY <1>1, <2>1 DEF XcOK, Same
  <2> HIDE DEF x, x0
  <2>6. Same(x, xs) /\ xs.delay = 0 /\ xs.notes = x.notes
      BY <2>5 DEF XcOK, Same
  <2>7. Same(x, xn)
      BY <2>5 DEF XcOK, Same
  <2> HIDE DEF xs, xn
  <2>8. Same(x0, xs) /\ Same(x0, xn)
      BY <2>5, <2>6, <2>7, SameTransitive
  <2>9. CASE sub = NoSub
    <3>1. ItStage(r.s, WithXc(r, c, xn))
        BY <2>8, WithXcStage DEF x0
    <3>2. WithXc(r, c, xn).key = r.key
        BY WithXcIs
    <3>3. r.key # -1
        BY DEF ItOK
    <3> QED  BY <2>2, <2>9, <3>1, <3>2, <3>3 DEF ItStage, ItOK, q
  <2>10. CASE sub # NoSub
    <3>1. Legal(r.s, s) /\ s.xc[c] = xs
        BY <2>8, WithXcStage DEF x0, ItStage
    <3> HIDE DEF s
    <3>2. Legal(s, t) /\ t.xc = s.xc
      <4>1. CUT \in Nnas
          BY NnasAssumption
      <4> QED  BY <1>1, <3>1, <4>1, SetNnaLegal, LegalReflexive DEF Legal
    <3> HIDE DEF t
    <3>3. Good(t) /\ StateOK(t) /\ t.xc[c].delay = 0 /\ "END" \notin t.xc[c].notes
        BY <2>5, <2>6, <3>1, <3>2 DEF Legal, Good
    <3>4. Legal(r.s, t)
        BY <3>1, <3>2, LegalTransitive
    <3>5. in \in Instruments /\ in \in Int /\ smp \in Int /\ in >= 0
      <4>1. in \in Instruments
          BY <2>3, <2>10
      <4> HIDE DEF in, smp
      <4>2. in \in Nat
          BY <4>1, InstrumentsAssumption
      <4> QED  BY <2>4, <4>1, <4>2
    <3>6. nna \in Nnas /\ dca \in Acts
        BY <2>3
    <3> HIDE DEF in, smp, nna, dca, dct
    <3>7. \E i : /\ Patched(t, c, smp, res.s, res.to, i)
                 /\ in >= 0 /\ smp >= 0 /\ res.to # -1 <=> i # FREE
        BY <3>3, <3>5, <3>6, PatchResultIs DEF res
    <3>8. PICK i : /\ Patched(t, c, smp, res.s, res.to, i)
                   /\ in >= 0 /\ smp >= 0 /\ res.to # -1 <=> i # FREE
        BY <3>7
    <3>9. res.to \in Background \cup {c, -1}
        BY <3>8 DEF Patched, Moves
    <3>10. Background \subseteq Nat /\ c \in Nat /\ -1 < 0 /\ \A n \in Nat : ~(n < 0)
        BY Sizes DEF Background, Channels, Tracks
    <3>11. q = ItPatched(r, c, sub, res)
        BY <2>2, <2>10
    <3>12. {"s", "ev", "key"} \subseteq DOMAIN r /\ IsEvent(r.ev) /\ r.key # -1
        BY DEF ItOK
    <3>13. CASE res.to = -1
      <4>1. q = [r EXCEPT !.s = res.s, !.key = -1]
          BY <3>10, <3>11, <3>13 DEF ItPatched
      <4>2. q.s = res.s /\ q.ev = r.ev /\ "s" \in DOMAIN q
          BY <3>12, <4>1
      <4>3. Legal(t, res.s)
          BY <3>3, <3>8, <3>13, NoVoiceIsGood
      <4>4. res.s.xc[c].delay = 0
          BY <1>1, <3>3, <4>3, KeepsZero
      <4>5. Legal(r.s, res.s)
          BY <3>4, <4>3, LegalTransitive
      <4> QED  BY <3>12, <4>2, <4>4, <4>5 DEF q
    <3>14. CASE res.to # -1
      <4> DEFINE to == res.to
                 u  == res.s
                 w  == [CopyChannel(u, to, c) EXCEPT
                           !.xc[c].smp = IF smp < 0 THEN @ ELSE smp]
      <4>1. to \in Background \cup {c} /\ ~(to < 0)
          BY <3>9, <3>10, <3>14
      <4>2. q = [r EXCEPT !.noted = ~sub.low, !.s = w]
          BY <3>11, <4>1 DEF ItPatched, smp
      <4>3. Patched(t, c, smp, u, to, i) /\ (smp >= 0 <=> i # FREE)
          BY <3>5, <3>8, <3>14
      <4> HIDE DEF w, to, u
      <4>4. Legal(t, w)
          BY <3>3, <3>5, <4>1, <4>3, PushedIsGood DEF w
      <4>5. q.s = w /\ q.ev = r.ev /\ q.key = r.key /\ "s" \in DOMAIN q
          BY <3>12, <4>2
      <4>6. Legal(r.s, w)
          BY <3>4, <4>4, LegalTransitive
      <4> QED  BY <3>12, <4>5, <4>6 DEF q
    <3> QED  BY <3>13, <3>14
  <2> QED  BY <2>9, <2>10
<1> QED  BY <1>2, <1>3

\* Envelopes run on or start over, fade and release start over.
LEMMA ItChannelFunctions ==
    ASSUME IsSong(song), NEW r, NEW x, XcOK(x), NEW sub
    PROVE  /\ Same(x, ItCarry(r, x)) /\ Same(x, ItRestart(r, x))
           /\ Same(x, ItStarted(r, x, sub))
<1>1. Same(x, ItCarry(r, x))
  <2> DEFINE x1 == IF (r.porta \/ r.retrig) /\ Quirk("PRENV") /\ r.ev.ins # 0
                   THEN ResetEnvelopesCarry(x) ELSE x
             xr == IF x1.ins # r.cand THEN ResetEnvelopes(x1) ELSE x1
             x2 == [xr EXCEPT !.ins = r.cand, !.fade = Ins(r.cand).rls]
  <2>1. ItCarry(r, x) = IF ~ValidIns(r.cand) THEN x1 ELSE x2
      BY DEF ItCarry
  <2>2. Same(x, x1)
      BY ChannelFunctions, SameReflexive
  <2> HIDE DEF x1
  <2>3. Same(x1, xr)
      BY <2>2, ChannelFunctions, SameReflexive DEF Same
  <2> HIDE DEF xr
  <2>4. ValidIns(r.cand) => Same(xr, x2)
      BY <2>3, ReleaseIs DEF XcOK, Same
  <2> HIDE DEF x2
  <2>5. ValidIns(r.cand) => Same(x, x2)
      BY <2>2, <2>3, <2>4, SameTransitive
  <2> QED  BY <2>1, <2>2, <2>5
<1>2. Same(x, ItRestart(r, x))
  <2> DEFINE ended   == r.ev.ins # 0 /\ "ENV_END" \in x.notes
             carried == ended /\ ~CheckFadeout(x, r.cand)
             env     == r.env /\ ~carried
             again   == r.retrig /\ r.newIns
             y       == IF ended /\ ~carried THEN ResetEnvelopes(x) ELSE x
             dropped == (IF (env /\ r.ev.note # 0) \/ again
                         THEN {"ENV_RELEASE", "SUSEXIT", "FADEOUT"} ELSE {})
                        \cup (IF (r.sus /\ r.ev.note # 0) \/ again
                              THEN {"SAMPLE_RELEASE"} ELSE {})
             z       == [y EXCEPT !.fadeout = IF env \/ again THEN Full ELSE @,
                                  !.notes = @ \ dropped]
  <2>1. ItRestart(r, x) = z
      BY DEF ItRestart
  <2>2. Same(x, y)
      BY ChannelFunctions, SameReflexive
  <2> HIDE DEF y, dropped, env, again
  <2>3. Same(y, z)
      BY <2>2, FullAssumption DEF XcOK, Same
  <2> HIDE DEF z
  <2> QED  BY <2>1, <2>2, <2>3, SameTransitive
<1>3. Same(x, ItStarted(r, x, sub))
  <2> DEFINE y == IF "CUT" \in x.notes THEN ResetEnvelopes(x)
                  ELSE IF ~r.offs \/ Quirk("PRENV") THEN ResetEnvelopesCarry(x) ELSE x
             z == [y EXCEPT !.notes = @ \ {"CUT"}]
  <2>1. ItStarted(r, x, sub) = x \/ ItStarted(r, x, sub) = z
      BY DEF ItStarted
  <2>2. Same(x, y)
      BY ChannelFunctions, SameReflexive
  <2> HIDE DEF y
  <2>3. Same(y, z)
      BY <2>2 DEF XcOK, Same
  <2> HIDE DEF z
  <2>4. Same(x, z)
      BY <2>2, <2>3, SameTransitive
  <2> QED  BY <2>1, <2>4, SameReflexive
<1> QED  BY <1>1, <1>2, <1>3

\* The rest of read_event_it
LEMMA ItTailLegal ==
    ASSUME IsSong(song), NEW r, "s" \in DOMAIN r, Good(r.s), IsEvent(r.ev),
           NEW c \in Tracks, r.key = -1 => r.s.xc[c].delay = 0
    PROVE  Legal(r.s, ItTail(r, c)) /\ ItTail(r, c).xc[c].delay = 0
<1> DEFINE s   == r.s
           x0  == s.xc[c]
           x1  == ItCarry(r, x0)
           x   == ItRestart(r, x1)
           sub == GetSub(x.ins, x.key)
           y   == ItStarted(r, x, sub)
           z   == [y EXCEPT !.delay = 0]
           t   == [s EXCEPT !.xc[c] = z]
           u   == ItTail(r, c)
<1>1. CASE r.key = -1
    BY <1>1, LegalReflexive DEF ItTail
<1>2. CASE r.key # -1
  <2>1. WithXc(r, c, z).s = t
      BY DEF WithXc
  <2>2. u = WithPeriod(ApplyFx(ApplyFx(t, c, r.ev.fx), c, r.ev.f2), c, r.noted, sub)
      BY <1>2, <2>1 DEF ItTail, ItEffects
  <2>3. XcOK(x0) /\ Good(s)
      BY TrackFacts
  <2> HIDE DEF x0, u, s
  <2>4. Same(x0, x1)
      BY <2>3, ItChannelFunctions
  <2> HIDE DEF x1
  <2>5. Same(x1, x)
      BY <2>4, ItChannelFunctions DEF Same
  <2> HIDE DEF x
  <2>6. Same(x, y)
      BY <2>5, ItChannelFunctions DEF Same
  <2> HIDE DEF y, sub
  <2>7. Same(y, z) /\ z.delay = 0
      BY <2>6 DEF Same, XcOK
  <2> HIDE DEF z
  <2>8. Same(x0, z)
      BY <2>4, <2>5, <2>6, <2>7, SameTransitive
  <2>9. Good(t)
      BY <2>3, <2>8, TrackSet DEF Legal, x0
  <2> HIDE DEF t
  <2>10. IsEffect(r.ev.fx) /\ IsEffect(r.ev.f2)
      BY DEF IsEvent
  <2> DEFINE f == r.ev.fx
             g == r.ev.f2
             noted == r.noted
  <2> HIDE DEF f, g, noted
  <2>11. Legal(t, u)
      BY <2>2, <2>9, <2>10, EffectsLegal DEF f, g, noted
  <2>12. Legal(s, u) /\ u.xc[c].delay = 0
      BY <2>3, <2>7, <2>8, <2>11, ForgetDelay DEF t, x0
  <2> QED  BY <2>12 DEF u, s
<1> QED  BY <1>1, <1>2

\* read_event_it
LEMMA ReadEventItLegal ==
    ASSUME NnaNeedsVirtual, IsSong(song), song.reader = "IT",
           NEW s, Good(s), NEW c \in Tracks, NEW e, IsEvent(e)
    PROVE  Legal(s, ReadEventIt(s, c, e)) /\ ReadEventIt(s, c, e).xc[c].delay = 0
<1> DEFINE r1 == ItBegin(s, c, e)
           r2 == ItInstrument(r1, c)
           r3 == ItKey(r2, c)
           q  == ItPatch(r3, c)
           u  == ReadEventIt(s, c, e)
<1>1. u = ItTail(q, c)
    BY DEF ReadEventIt
<1> HIDE DEF u
<1>2. ItStage(s, r1)
    BY ItBeginStage
<1> HIDE DEF r1
<1>3. ItStage(r1.s, r2)
    BY <1>2, ItInstrumentStage DEF ItStage
<1> HIDE DEF r2
<1>4. ItStage(r2.s, r3)
    BY <1>3, ItKeyStage DEF ItStage
<1> HIDE DEF r3
<1>5. ItStage(s, r3)
    BY <1>2, <1>3, <1>4, ItStageTransitive
<1>6. /\ "s" \in DOMAIN q /\ Legal(r3.s, q.s) /\ IsEvent(q.ev)
      /\ q.key = -1 => q.s.xc[c].delay = 0
    BY <1>5, ItPatchStage DEF ItStage
<1> HIDE DEF q
<1>7. Good(q.s) /\ Legal(s, q.s)
    BY <1>5, <1>6, LegalTransitive DEF ItStage, Legal
<1>8. Legal(q.s, u) /\ u.xc[c].delay = 0
    BY <1>1, <1>6, <1>7, ItTailLegal
<1> QED  BY <1>7, <1>8, LegalTransitive DEF u

-----------------------------------------------------------------------------
(* Reading an event                                                        *)

\* libxmp_read_event.  A late event (FT2) is not read: it stays delayed.
LEMMA ReadEventLegal ==
    ASSUME NnaNeedsVirtual, IsSong(song), NEW s, Good(s), NEW c \in Tracks,
           NEW e, IsEvent(e), NEW late \in BOOLEAN
    PROVE  /\ Legal(s, ReadEvent(s, c, e, late))
           /\ ~late => ReadEvent(s, c, e, late).xc[c].delay = 0
<1> DEFINE x == s.xc[c]
           y == [x EXCEPT !.old   = IF e.ins # 0 THEN e.ins ELSE @,
                          !.notes = IF "SAMPLE_END" \in @ THEN @ \cup {"END"} ELSE @]
           t == [s EXCEPT !.xc[c] = y]
           u == ReadEvent(s, c, e, late)
<1>1. /\ song.reader = "FT2" => u = ReadEventFt2(t, c, e, late)
      /\ song.reader = "ST3" => u = ReadEventSt3(t, c, e)
      /\ song.reader = "IT"  => u = ReadEventIt(t, c, e)
      /\ song.reader \notin {"FT2", "ST3", "IT"} => u = ReadEventMod(t, c, e)
    BY DEF ReadEvent
<1>2. XcOK(x)
    BY TrackFacts
<1>3. Same(x, y)
  <2> HIDE DEF x
  <2> QED  BY <1>2 DEF XcOK, Same
<1> HIDE DEF y, u
<1>4. Legal(s, t)
    BY <1>3, TrackSet
<1> HIDE DEF t
<1>5. Good(t)
    BY <1>4 DEF Legal
<1>6. Legal(t, u) /\ (~late => u.xc[c].delay = 0)
  <2>1. CASE song.reader = "FT2"
      BY <1>1, <1>5, <2>1, ReadEventFt2Legal
  <2>2. CASE song.reader = "ST3"
      BY <1>1, <1>5, <2>2, ReadEventSt3Legal
  <2>3. CASE song.reader = "IT"
      BY <1>1, <1>5, <2>3, ReadEventItLegal
  <2>4. CASE song.reader \notin {"FT2", "ST3", "IT"}
      BY <1>1, <1>5, <2>4, ReadEventModLegal
  <2> QED  BY <2>1, <2>2, <2>3, <2>4
<1>7. Legal(s, u)
    BY <1>4, <1>6, LegalTransitive
<1> QED  BY <1>6, <1>7 DEF u

-----------------------------------------------------------------------------
(* The row                                                                 *)

\* No delayed event waits in the channel, or none of it has passed yet.
Fresh(x) == x.delay = 0 \/ (DelayOf(x.event) > 0 /\ x.delay = DelayOf(x.event) + 1)

LEMMA DelayOfIs ==
    ASSUME NEW e, IsEvent(e)
    PROVE  DelayOf(e) \in Nat
BY DEF DelayOf, IsEvent, IsEffect

\* One channel of read_row: its event is read, or put aside for later.
LEMMA ReadChannelGood ==
    ASSUME NnaNeedsVirtual, IsSong(song), NEW s, Good(s), NEW c \in Tracks,
           NEW e, IsEvent(e)
    PROVE  LET u == ReadChannel(s, c, e)
           IN  /\ Good(u) /\ Fresh(u.xc[c])
               /\ \A d \in Channels : Fresh(s.xc[d]) => Fresh(u.xc[d])
<1> DEFINE x == s.xc[c]
           y == [x EXCEPT !.keyoff = IF song.reader = "FT2" THEN 0 ELSE @]
           t == [s EXCEPT !.xc[c] = y]
           z == [y EXCEPT !.delay = DelayOf(e) + 1, !.event = e,
                          !.dins  = IF e.ins # 0 THEN e.ins ELSE @,
                          !.flags = IF song.reader = "IT" THEN {} ELSE @]
           u == ReadChannel(s, c, e)
<1>1. XcOK(x) /\ c \in Channels /\ {"virt", "voice", "xc"} \subseteq DOMAIN s
      /\ DOMAIN s.xc = Channels
    BY TrackFacts
<1>2. Same(x, y)
  <2> HIDE DEF x
  <2> QED  BY <1>1 DEF XcOK, Same
<1>3. u = IF DelayOf(e) # 0 THEN PutAside(t, c, e) ELSE ReadEvent(t, c, e, FALSE)
  <2>1. t = [s EXCEPT !.xc[c].keyoff = IF song.reader = "FT2" THEN 0 ELSE @]
      BY <1>1
  <2> HIDE DEF t
  <2> QED  BY <2>1 DEF ReadChannel
<1> HIDE DEF y, u
<1>4. Legal(s, t) /\ t.xc[c] = y
  <2>1. StateOK(s)
      BY DEF Good
  <2> QED  BY <1>1, <1>2, <2>1, TrackSet, SetXc
<1> HIDE DEF t
<1>5. Good(t) /\ \A d \in Channels : Fresh(s.xc[d]) => Fresh(t.xc[d])
    BY <1>4 DEF Legal, Keeps, Fresh
<1>6. CASE DelayOf(e) = 0
  <2>1. Legal(t, u) /\ u.xc[c].delay = 0
    <3>1. u = ReadEvent(t, c, e, FALSE)
        BY <1>3, <1>6
    <3> QED  BY <1>5, <3>1, ReadEventLegal
  <2>2. Good(u) /\ \A d \in Channels : Fresh(t.xc[d]) => Fresh(u.xc[d])
      BY <2>1 DEF Legal, Keeps, Fresh
  <2> QED  BY <1>5, <2>1, <2>2 DEF Fresh, u
<1>7. CASE DelayOf(e) # 0
  <2>1. u = PutAside(t, c, e)
      BY <1>3, <1>7
  <2>2. {"virt", "voice", "xc"} \subseteq DOMAIN t /\ DOMAIN t.xc = Channels /\ XcOK(y)
      BY <1>2, <1>5, TrackFacts DEF Same
  <2>3. u = [t EXCEPT !.xc[c] = z]
    <3> DEFINE q == [t.xc[c] EXCEPT !.delay = DelayOf(e) + 1, !.event = e,
                                    !.dins  = IF e.ins # 0 THEN e.ins ELSE @,
                                    !.flags = IF song.reader = "IT" THEN {} ELSE @]
    <3>1. u = [t EXCEPT !.xc[c] = q]
        BY <2>1 DEF PutAside
    <3>2. q = z
        BY <1>4
    <3> HIDE DEF q, z
    <3> QED  BY <3>1, <3>2
  <2>4. /\ XcOK(z) /\ z.smp = y.smp /\ z.event = e /\ z.delay = DelayOf(e) + 1
        /\ DelayOf(e) \in Nat
    <3>1. DelayOf(e) \in Nat
        BY DelayOfIs
    <3> HIDE DEF u
    <3> QED  BY <2>2, <3>1 DEF XcOK, IsEvent
  <2> HIDE DEF u, z
  <2>5. StateOK(t) /\ Quiet(t, Channels) /\ Agree(t, Channels)
      BY <1>5 DEF Good
  <2>6. OnlyXc(t, u, c) /\ u.xc[c] = z
      BY <1>1, <2>3, <2>5, SetXc
  <2>7. Good(u)
    <3>1. Agree(t, Channels \ {c})
        BY <2>5 DEF Agree
    <3>2. ~Quirk("PROTRACK") =>
             \A v \in Voices : t.virt.chn[v] = c => t.voice[v].smp = u.xc[c].smp
        BY <1>1, <1>4, <2>4, <2>5, <2>6 DEF Agree
    <3> QED  BY <2>4, <2>5, <2>6, <3>1, <3>2, TrackIsGood
  <2>8. Fresh(u.xc[c])
      BY <1>7, <2>4, <2>6 DEF Fresh
  <2>9. \A d \in Channels \ {c} : u.xc[d] = t.xc[d]
      BY <2>6 DEF OnlyXc
  <2> QED  BY <1>5, <2>7, <2>8, <2>9 DEF u
<1> QED  BY <1>6, <1>7

\* The key off of the last frame is forgotten.
LEMMA ForgetKeyOffLegal ==
    ASSUME NEW s, Good(s)
    PROVE  Legal(s, ForgetKeyOff(s))
<1> DEFINE chs == [c \in Channels |->
                    IF c \in Tracks THEN [s.xc[c] EXCEPT !.flags = @ \ {"KEY_OFF"}]
                    ELSE s.xc[c]]
           u  == ForgetKeyOff(s)
<1>1. u = [s EXCEPT !.xc = chs]
    BY DEF ForgetKeyOff
<1>2. StateOK(s) /\ Quiet(s, Channels) /\ Agree(s, Channels)
    BY DEF Good
<1>3. ASSUME NEW d \in Channels
      PROVE  /\ XcOK(chs[d]) /\ chs[d].smp = s.xc[d].smp
             /\ chs[d].delay = s.xc[d].delay /\ chs[d].event = s.xc[d].event
             /\ d \notin Tracks => chs[d] = s.xc[d]
  <2> DEFINE x == s.xc[d]
             y == [x EXCEPT !.flags = @ \ {"KEY_OFF"}]
  <2>1. XcOK(x)
      BY <1>2 DEF StateOK
  <2>2. chs[d] = IF d \in Tracks THEN y ELSE x
      OBVIOUS
  <2> HIDE DEF x
  <2>3. /\ XcOK(y) /\ y.smp = x.smp /\ y.delay = x.delay /\ y.event = x.event
      BY <2>1 DEF XcOK
  <2> HIDE DEF y, chs
  <2> QED  BY <2>1, <2>2, <2>3 DEF x
<1>4. DOMAIN chs = Channels
    OBVIOUS
<1> HIDE DEF chs, u
<1>5. /\ {"virt", "voice", "xc"} \subseteq DOMAIN u
      /\ u.virt = s.virt /\ u.voice = s.voice /\ u.xc = chs
    BY <1>1, <1>2 DEF StateOK
<1>6. StateOK(u)
    BY <1>2, <1>3, <1>4, <1>5 DEF StateOK
<1>7. Quiet(u, Channels)
    BY <1>2, <1>3, <1>5 DEF Quiet, Background
<1>8. Agree(u, Channels)
    BY <1>2, <1>3, <1>5 DEF Agree
<1>9. Keeps(s, u)
    BY <1>3, <1>5 DEF Keeps
<1>10. Legal(s, u)
    BY <1>6, <1>7, <1>8, <1>9 DEF Legal, Good
<1> QED  BY <1>10 DEF u

\* read_row reads one channel after the other.
LEMMA ReadRowRecurs ==
    ASSUME NEW s, NEW row
    PROVE  \E g : /\ g = [n \in 0 .. NumTracks |-> IF n = 0 THEN s
                                           ELSE ReadChannel(g[n - 1], n - 1, row[n - 1])]
                  /\ ReadRow(s, row) = g[NumTracks]
<1> DEFINE N == NumTracks
           After(x, n) == ReadChannel(x, n - 1, row[n - 1])
           Reads(g, k) == g = [n \in 0 .. k |-> IF n = 0 THEN s ELSE After(g[n - 1], n)]
           S == {k \in 0 .. N : \E g : Reads(g, k)}
           read == CHOOSE g : Reads(g, N)
<1>1. N \in Nat
    BY TracksAssumption
<1>2. ReadRow(s, row) = read[N]
    BY DEF ReadRow
<1> HIDE DEF After, N
<1>3. 0 \in S
  <2> DEFINE g == [n \in 0 .. 0 |-> s]
  <2>1. Reads(g, 0)
      OBVIOUS
  <2> HIDE DEF g, Reads
  <2> QED  BY <1>1, <2>1
<1>4. ASSUME NEW k \in 0 .. N - 1, k \in S  PROVE k + 1 \in S
  <2>1. PICK g : Reads(g, k)
      BY <1>4
  <2> DEFINE h == [n \in 0 .. k + 1 |-> IF n = k + 1 THEN After(g[k], k + 1) ELSE g[n]]
             f == [n \in 0 .. k + 1 |-> IF n = 0 THEN s ELSE After(h[n - 1], n)]
  <2>2. k \in Nat /\ k + 1 \in 0 .. N
      BY <1>1
  <2>3. \A n \in 0 .. k : h[n] = g[n]
      BY <2>2
  <2>4. ASSUME NEW n \in 0 .. k + 1  PROVE h[n] = f[n]
    <3>1. CASE n = k + 1
      <4>1. n # 0 /\ n - 1 = k /\ k \in 0 .. k
          BY <2>2, <3>1
      <4> QED  BY <2>3, <3>1, <4>1
    <3>2. CASE n # k + 1
      <4>1. n \in 0 .. k /\ (n # 0 => n - 1 \in 0 .. k)
          BY <2>2, <3>2
      <4>2. g[n] = IF n = 0 THEN s ELSE After(g[n - 1], n)
          BY <2>1, <4>1
      <4> QED  BY <2>3, <3>2, <4>1, <4>2
    <3> QED  BY <3>1, <3>2
  <2>5. h = f
      BY <2>4
  <2>6. Reads(h, k + 1)
      BY <2>5
  <2> HIDE DEF h, Reads
  <2> QED  BY <2>2, <2>6
<1>5. N \in S
  <2> HIDE DEF S
  <2>1. 0 .. N \subseteq S
      BY <1>1, <1>3, <1>4, UpTo
  <2> QED  BY <1>1, <2>1
<1>6. Reads(read, N)
  <2> HIDE DEF Reads
  <2>1. \E g : Reads(g, N)
      BY <1>5
  <2> QED  BY <2>1
<1>7. /\ read = [n \in 0 .. N |-> IF n = 0 THEN s ELSE After(read[n - 1], n)]
      /\ ReadRow(s, row) = read[N]
    BY <1>2, <1>6
<1> HIDE DEF read
<1> QED  BY <1>7 DEF N, After


\* read_row: of the last row nothing is left.
LEMMA ReadRowGood ==
    ASSUME NnaNeedsVirtual, IsSong(song), NEW s, Good(s), NEW row \in Rows
    PROVE  LET u == ReadRow(s, row)
           IN  Good(u) /\ \A d \in Channels : Fresh(u.xc[d])
<1> DEFINE N == NumTracks
           u == ReadRow(s, row)
<1>1. PICK g : /\ g = [n \in 0 .. N |-> IF n = 0 THEN s
                                        ELSE ReadChannel(g[n - 1], n - 1, row[n - 1])]
               /\ u = g[N]
    BY ReadRowRecurs
<1> DEFINE S == {n \in 0 .. N : /\ Good(g[n])
                                /\ \A d \in Channels : d < n => Fresh(g[n].xc[d])}
<1>2. N \in Nat
    BY TracksAssumption
<1>3. 0 \in S
  <2>1. 0 \in 0 .. N /\ \A d \in Channels : ~(d < 0)
      BY <1>2, Sizes DEF Channels
  <2>2. g[0] = s
      BY <1>1, <2>1
  <2> QED  BY <2>1, <2>2
<1>4. ASSUME NEW n \in 0 .. N - 1, n \in S  PROVE n + 1 \in S
  <2> DEFINE t == g[n]
             w == g[n + 1]
             e == row[n]
  <2>1. n \in Tracks /\ n + 1 \in 0 .. N /\ n + 1 # 0 /\ (n + 1) - 1 = n
      BY <1>2 DEF Tracks
  <2>2. w = ReadChannel(t, n, e)
    <3> HIDE DEF N, S
    <3> QED  BY <1>1, <2>1
  <2>3. IsEvent(e)
    <3>1. e \in song.events \cup {NoEvent}
        BY <2>1 DEF Rows
    <3>2. IsEvent(NoEvent)
        BY DEF IsEvent, IsEffect, NoEvent
    <3> HIDE DEF e
    <3> QED  BY <3>1, <3>2 DEF IsSong
  <2>4. Good(t) /\ \A d \in Channels : d < n => Fresh(t.xc[d])
      BY <1>4
  <2> HIDE DEF t, w, e
  <2>5. /\ Good(w) /\ Fresh(w.xc[n])
        /\ \A d \in Channels : Fresh(t.xc[d]) => Fresh(w.xc[d])
      BY <2>1, <2>2, <2>3, <2>4, ReadChannelGood
  <2>6. \A d \in Channels : d < n + 1 => d < n \/ d = n
      BY Sizes DEF Channels
  <2> QED  BY <2>1, <2>4, <2>5, <2>6 DEF w
<1>5. N \in S
  <2> HIDE DEF S, N
  <2>1. 0 .. N \subseteq S
      BY <1>2, <1>3, <1>4, UpTo
  <2> QED  BY <1>2, <2>1
<1>6. Good(u) /\ \A d \in Channels : d < N => Fresh(u.xc[d])
  <2> HIDE DEF u
  <2> QED  BY <1>1, <1>5
<1> HIDE DEF u
<1>7. \A d \in Channels : Fresh(u.xc[d])
  <2>1. \A d \in Channels : ~(d < N) => d \in Background
      BY Sizes DEF Background, Channels, Tracks
  <2> QED  BY <1>6, <2>1 DEF Good, Quiet, Fresh
<1> QED  BY <1>6, <1>7 DEF u

\* inject_event reads the events that wait, one channel after the other.
LEMMA ReadInjectedRecurs ==
    ASSUME NEW s, NEW M, NEW row
    PROVE  \E g : /\ g = [n \in 0 .. NumTracks |-> IF n = 0 THEN s
                                           ELSE IF n - 1 \in M
                                           THEN ReadEvent(g[n - 1], n - 1, row[n - 1], frame >= Speed)
                                           ELSE g[n - 1]]
                  /\ ReadInjected(s, M, row) = g[NumTracks]
<1> DEFINE N == NumTracks
           After(x, n) == IF n - 1 \in M
                           THEN ReadEvent(x, n - 1, row[n - 1], frame >= Speed) ELSE x
           Reads(g, k) == g = [n \in 0 .. k |-> IF n = 0 THEN s ELSE After(g[n - 1], n)]
           S == {k \in 0 .. N : \E g : Reads(g, k)}
           read == CHOOSE g : Reads(g, N)
<1>1. N \in Nat
    BY TracksAssumption
<1>2. ReadInjected(s, M, row) = read[N]
    BY DEF ReadInjected
<1> HIDE DEF After, N
<1>3. 0 \in S
  <2> DEFINE g == [n \in 0 .. 0 |-> s]
  <2>1. Reads(g, 0)
      OBVIOUS
  <2> HIDE DEF g, Reads
  <2> QED  BY <1>1, <2>1
<1>4. ASSUME NEW k \in 0 .. N - 1, k \in S  PROVE k + 1 \in S
  <2>1. PICK g : Reads(g, k)
      BY <1>4
  <2> DEFINE h == [n \in 0 .. k + 1 |-> IF n = k + 1 THEN After(g[k], k + 1) ELSE g[n]]
             f == [n \in 0 .. k + 1 |-> IF n = 0 THEN s ELSE After(h[n - 1], n)]
  <2>2. k \in Nat /\ k + 1 \in 0 .. N
      BY <1>1
  <2>3. \A n \in 0 .. k : h[n] = g[n]
      BY <2>2
  <2>4. ASSUME NEW n \in 0 .. k + 1  PROVE h[n] = f[n]
    <3>1. CASE n = k + 1
      <4>1. n # 0 /\ n - 1 = k /\ k \in 0 .. k
          BY <2>2, <3>1
      <4> QED  BY <2>3, <3>1, <4>1
    <3>2. CASE n # k + 1
      <4>1. n \in 0 .. k /\ (n # 0 => n - 1 \in 0 .. k)
          BY <2>2, <3>2
      <4>2. g[n] = IF n = 0 THEN s ELSE After(g[n - 1], n)
          BY <2>1, <4>1
      <4> QED  BY <2>3, <3>2, <4>1, <4>2
    <3> QED  BY <3>1, <3>2
  <2>5. h = f
      BY <2>4
  <2>6. Reads(h, k + 1)
      BY <2>5
  <2> HIDE DEF h, Reads
  <2> QED  BY <2>2, <2>6
<1>5. N \in S
  <2> HIDE DEF S
  <2>1. 0 .. N \subseteq S
      BY <1>1, <1>3, <1>4, UpTo
  <2> QED  BY <1>1, <2>1
<1>6. Reads(read, N)
  <2> HIDE DEF Reads
  <2>1. \E g : Reads(g, N)
      BY <1>5
  <2> QED  BY <2>1
<1>7. /\ read = [n \in 0 .. N |-> IF n = 0 THEN s ELSE After(read[n - 1], n)]
      /\ ReadInjected(s, M, row) = read[N]
    BY <1>2, <1>6
<1> HIDE DEF read
<1> QED  BY <1>7 DEF N, After


\* inject_event
LEMMA ReadInjectedLegal ==
    ASSUME NnaNeedsVirtual, IsSong(song), frame \in Nat, NEW s, Good(s), NEW M,
           NEW row \in Rows
    PROVE  Legal(s, ReadInjected(s, M, row))
<1> DEFINE N == NumTracks
           u == ReadInjected(s, M, row)
<1>1. PICK g : /\ g = [n \in 0 .. N |-> IF n = 0 THEN s
                                        ELSE IF n - 1 \in M
                                        THEN ReadEvent(g[n - 1], n - 1, row[n - 1], frame >= Speed)
                                        ELSE g[n - 1]]
               /\ u = g[N]
    BY ReadInjectedRecurs
<1> DEFINE S == {n \in 0 .. N : Legal(s, g[n])}
<1>2. N \in Nat
    BY TracksAssumption
<1>3. 0 \in S
  <2>1. 0 \in 0 .. N
      BY <1>2
  <2>2. g[0] = s
      BY <1>1, <2>1
  <2> QED  BY <2>1, <2>2, LegalReflexive
<1>4. ASSUME NEW n \in 0 .. N - 1, n \in S  PROVE n + 1 \in S
  <2> DEFINE t    == g[n]
             w    == g[n + 1]
             e    == row[n]
             late == frame >= Speed
  <2>1. n \in Tracks /\ n + 1 \in 0 .. N /\ n + 1 # 0 /\ (n + 1) - 1 = n
      BY <1>2 DEF Tracks
  <2>2. w = IF n \in M THEN ReadEvent(t, n, e, late) ELSE t
    <3> HIDE DEF N, S
    <3> QED  BY <1>1, <2>1
  <2>3. IsEvent(e)
    <3>1. e \in song.events \cup {NoEvent}
        BY <2>1 DEF Rows
    <3>2. IsEvent(NoEvent)
        BY DEF IsEvent, IsEffect, NoEvent
    <3> HIDE DEF e
    <3> QED  BY <3>1, <3>2 DEF IsSong
  <2>4. Legal(s, t)
      BY <1>4
  <2>5. late \in BOOLEAN
      OBVIOUS
  <2> HIDE DEF t, w, e, late
  <2>6. Legal(t, w)
      BY <2>1, <2>2, <2>3, <2>4, <2>5, ReadEventLegal, LegalReflexive DEF Legal
  <2>7. Legal(s, w)
      BY <2>4, <2>6, LegalTransitive
  <2> QED  BY <2>1, <2>7 DEF w
<1>5. N \in S
  <2> HIDE DEF S, N
  <2>1. 0 .. N \subseteq S
      BY <1>2, <1>3, <1>4, UpTo
  <2> QED  BY <1>2, <2>1
<1> HIDE DEF u
<1>6. Legal(s, u)
    BY <1>1, <1>5
<1> QED  BY <1>6 DEF u

-----------------------------------------------------------------------------
(* play_channel                                                            *)

\* On a track, everything but the sample may change.
LEMMA TrackSetIsGood ==
    ASSUME NEW s, Good(s), NEW c \in Tracks, NEW y, XcOK(y), y.smp = s.xc[c].smp
    PROVE  Good([s EXCEPT !.xc[c] = y])
<1> DEFINE u == [s EXCEPT !.xc[c] = y]
<1>1. StateOK(s) /\ Quiet(s, Channels) /\ Agree(s, Channels) /\ c \in Channels
    BY TrackFacts DEF Good
<1>2. OnlyXc(s, u, c) /\ u.xc[c] = y
    BY <1>1, SetXc
<1> HIDE DEF u
<1>3. Agree(s, Channels \ {c})
    BY <1>1 DEF Agree
<1>4. ~Quirk("PROTRACK") =>
         \A v \in Voices : s.virt.chn[v] = c => s.voice[v].smp = u.xc[c].smp
    BY <1>1, <1>2 DEF Agree
<1>5. Good(u)
    BY <1>1, <1>2, <1>3, <1>4, TrackIsGood
<1> QED  BY <1>5 DEF u

\* A delayed event comes nearer, or is due.
Ticked(s, u, c) ==
    /\ \A d \in Channels \ {c} :
          \/ u.xc[d].delay = 0
          \/ u.xc[d].delay = s.xc[d].delay /\ u.xc[d].event = s.xc[d].event
    /\ \/ u.xc[c].delay = 0
       \/ u.xc[c].delay = s.xc[c].delay - 1 /\ u.xc[c].event = s.xc[c].event

\* "Do delay"
LEMMA DoDelayGood ==
    ASSUME NnaNeedsVirtual, IsSong(song), frame \in Nat, NEW s, Good(s),
           NEW c \in Channels
    PROVE  Good(DoDelay(s, c)) /\ Ticked(s, DoDelay(s, c), c)
<1> DEFINE x == s.xc[c]
           u == DoDelay(s, c)
<1>1. XcOK(x) /\ StateOK(s) /\ {"virt", "voice", "xc"} \subseteq DOMAIN s /\ DOMAIN s.xc = Channels
    BY DEF Good, StateOK
<1>2. CASE x.delay = 0
    BY <1>2 DEF DoDelay, Ticked
<1>3. CASE x.delay # 0
  <2> DEFINE y == [x EXCEPT !.delay = @ - 1]
             z == [y EXCEPT !.event = NoEvent]
             t == [s EXCEPT !.xc[c] = y]
             w == [s EXCEPT !.xc[c] = z]
             late == frame >= Speed
             e == x.event
  <2>1. c \in Tracks
      BY <1>3 DEF Good, Quiet, Background
  <2>2. t = [s EXCEPT !.xc[c].delay = @ - 1]
      BY <1>1
  <2>3. /\ XcOK(y) /\ y.smp = x.smp /\ y.delay = x.delay - 1 /\ y.event = x.event
        /\ IsEvent(e)
    <3> HIDE DEF x
    <3> QED  BY <1>1, <1>3 DEF XcOK, x
  <2>4. OnlyXc(s, t, c) /\ t.xc[c] = y
      BY <1>1, SetXc
  <2>5. w = [t EXCEPT !.xc[c].event = NoEvent]
      BY <1>1
  <2>6. /\ x.delay > 1 => u = t
        /\ ~(x.delay > 1) => u = ReadEvent(w, c, e, late)
    <3>1. \/ x.delay > 1 /\ u = [s EXCEPT !.xc[c].delay = @ - 1]
          \/ /\ ~(x.delay > 1)
             /\ u = ReadEvent([[s EXCEPT !.xc[c].delay = @ - 1]
                                  EXCEPT !.xc[c].event = NoEvent], c, e, late)
        BY <1>3 DEF DoDelay
    <3> HIDE DEF t, w, u, e, late, x
    <3> QED  BY <2>2, <2>5, <3>1
  <2>7. IsEvent(NoEvent)
      BY DEF IsEvent, IsEffect, NoEvent
  <2> HIDE DEF y
  <2>8. XcOK(z) /\ z.smp = x.smp /\ z.delay = x.delay - 1
      BY <2>3, <2>7 DEF XcOK
  <2>9. OnlyXc(s, w, c) /\ w.xc[c] = z
      BY <1>1, SetXc
  <2> HIDE DEF z, x, t, w, u
  <2>10. Good(t)
      BY <2>1, <2>3, TrackSetIsGood DEF t, x
  <2>11. Good(w)
      BY <2>1, <2>8, TrackSetIsGood DEF w, x
  <2>12. CASE x.delay > 1
      BY <2>3, <2>4, <2>6, <2>10, <2>12 DEF Ticked, OnlyXc, u, x
  <2>13. CASE ~(x.delay > 1)
    <3>1. late \in BOOLEAN
        OBVIOUS
    <3> HIDE DEF late, e
    <3>2. Legal(w, u)
        BY <2>1, <2>3, <2>6, <2>11, <2>13, <3>1, ReadEventLegal
    <3>3. w.xc[c].delay = 0
        BY <1>1, <1>3, <2>8, <2>9, <2>13 DEF XcOK
    <3>4. u.xc[c].delay = 0
        BY <3>2, <3>3, KeepsZero
    <3> QED  BY <2>9, <3>2, <3>4 DEF Legal, Keeps, Ticked, OnlyXc, u
  <2> QED  BY <2>12, <2>13
<1> QED  BY <1>2, <1>3

\* A background note is left as quiet as it was.
LEMMA ChannelSet ==
    ASSUME NEW s, Good(s), NEW c \in Channels, NEW y, Same(s.xc[c], y),
           c \in Background => /\ y.flags = s.xc[c].flags
                               /\ "END" \in y.notes => "END" \in s.xc[c].notes
    PROVE  Legal(s, [s EXCEPT !.xc[c] = y])
<1> DEFINE u == [s EXCEPT !.xc[c] = y]
<1>1. OnlyXc(s, u, c) /\ u.xc[c] = y
    BY SetXc DEF Good
<1> HIDE DEF u
<1>2. /\ StateOK(u) /\ Quiet(u, Channels \ {c}) /\ Agree(u, Channels)
      /\ Keeps(s, u)
    BY <1>1, ChannelStep
<1>3. Quiet(u, Channels)
    BY <1>1, <1>2 DEF Good, Quiet, OnlyXc
<1> QED  BY <1>2, <1>3 DEF Legal, Good, u

\* "Do cut/retrig": a background note has no flag to be retriggered by.
LEMMA DoRetrigLegal ==
    ASSUME NEW s, Good(s), NEW c \in Channels
    PROVE  Legal(s, DoRetrig(s, c)) /\ DoRetrig(s, c).virt = s.virt
<1> DEFINE old   == s.xc[c].retrig
           on    == "RETRIG" \in s.xc[c].flags
           count == old.count - 1
           fires == IF Quirk("S3MRTG") THEN count <= 0 ELSE count = 0
           moves == on /\ fires /\ ~old.cut
           t     == IF moves THEN VoicePos(s, c) ELSE s
           x     == t.xc[c]
           once  == IF old.limit > 0 THEN old.limit - 1 ELSE 0
           y     == [x EXCEPT
                       !.notes  = IF old.cut THEN @ \cup {"END"} ELSE @,
                       !.flags  = IF old.limit = 1 THEN @ \ {"RETRIG"} ELSE @,
                       !.retrig.count = old.val, !.retrig.limit = once]
           z     == [x EXCEPT !.retrig.count = count]
           u     == DoRetrig(s, c)
<1>1. u = IF ~on THEN s ELSE [t EXCEPT !.xc[c] = IF fires THEN y ELSE z]
    BY DEF DoRetrig
<1>2. CASE ~on
  <2> HIDE DEF u, on, t
  <2> QED  BY <1>1, <1>2, LegalReflexive DEF u
<1>3. CASE on
  <2>1. c \in Tracks
      BY <1>3 DEF Good, Quiet, Background
  <2>2. Legal(s, t) /\ t.virt = s.virt
    <3> HIDE DEF moves
    <3> QED  BY VoicePosLegal, LegalReflexive
  <2> DEFINE q == IF fires THEN y ELSE z
  <2>3. u = [t EXCEPT !.xc[c] = q]
      BY <1>1, <1>3
  <2> HIDE DEF t, u, old, count, fires, once, on
  <2>4. XcOK(x) /\ {"virt", "voice", "xc"} \subseteq DOMAIN t
      BY <2>1, <2>2, TrackFacts DEF Legal
  <2> HIDE DEF x
  <2>5. Same(x, y)
      BY <2>4 DEF XcOK, Same
  <2>6. Same(x, z)
      BY <2>4 DEF XcOK, Same
  <2> HIDE DEF y, z
  <2>7. Legal(t, u)
      BY <2>1, <2>2, <2>3, <2>5, <2>6, TrackSet DEF Legal, x
  <2>8. u.virt = t.virt
      BY <2>3, <2>4
  <2> QED  BY <2>2, <2>7, <2>8, LegalTransitive DEF u
<1> QED  BY <1>2, <1>3

\* "Do keyoff"
LEMMA DoKeyoffLegal ==
    ASSUME NEW s, Good(s), NEW c \in Channels
    PROVE  Legal(s, DoKeyoff(s, c)) /\ DoKeyoff(s, c).virt = s.virt
<1> DEFINE x == s.xc[c]
           y == [x EXCEPT !.keyoff = @ - 1]
           z == IF y.keyoff = 0 THEN DelayedKeyoff(y) ELSE y
           u == DoKeyoff(s, c)
<1>1. u = IF x.keyoff = 0 THEN s ELSE [s EXCEPT !.xc[c] = z]
    BY DEF DoKeyoff
<1>2. XcOK(x) /\ {"virt", "voice", "xc"} \subseteq DOMAIN s
    BY DEF Good, StateOK
<1> HIDE DEF x
<1>3. Same(x, y) /\ y.flags = x.flags /\ y.notes = x.notes
    BY <1>2 DEF XcOK, Same
<1> HIDE DEF y
<1>4. /\ Same(y, DelayedKeyoff(y)) /\ DelayedKeyoff(y).flags = y.flags
      /\ "END" \in DelayedKeyoff(y).notes => "END" \in y.notes
  <2>1. XcOK(y)
      BY <1>3 DEF Same
  <2> DEFINE k == {"FADEOUT"} \cup (IF Has(Ins(y.ins).env, "ON") THEN RELEASE ELSE {})
  <2>2. "END" \notin RELEASE /\ "END" \notin k
      BY DEF RELEASE
  <2>3. \/ DelayedKeyoff(y) = y
        \/ DelayedKeyoff(y) = [y EXCEPT !.notes = @ \cup RELEASE]
        \/ DelayedKeyoff(y) = [y EXCEPT !.notes = @ \cup k]
    <3>1. [y EXCEPT !.notes = @ \cup k]
            = [y EXCEPT !.notes = @ \cup {"FADEOUT"} \cup
                  (IF Has(Ins(y.ins).env, "ON") THEN RELEASE ELSE {})]
        BY <2>1 DEF XcOK
    <3> HIDE DEF k
    <3> QED  BY <3>1 DEF DelayedKeyoff
  <2> HIDE DEF k
  <2> QED  BY <2>1, <2>2, <2>3 DEF XcOK, Same
<1>5. Same(y, y)
    BY <1>3, SameReflexive DEF Same
<1>6. Same(x, z) /\ z.flags = x.flags /\ ("END" \in z.notes => "END" \in x.notes)
    BY <1>3, <1>4, <1>5, SameTransitive
<1> HIDE DEF z, u
<1>7. Legal(s, [s EXCEPT !.xc[c] = z])
    BY <1>6, ChannelSet DEF x
<1>8. [s EXCEPT !.xc[c] = z].virt = s.virt
    BY <1>2
<1> QED  BY <1>1, <1>7, <1>8, LegalReflexive DEF u

\* The retrigger and the delayed key off leave the envelope of their channel
\* alone.
LEMMA DoRetrigStands ==
    ASSUME NEW s, Good(s), NEW c \in Channels
    PROVE  Stands(s.xc[c], DoRetrig(s, c).xc[c])
<1> DEFINE old   == s.xc[c].retrig
           on    == "RETRIG" \in s.xc[c].flags
           count == old.count - 1
           fires == IF Quirk("S3MRTG") THEN count <= 0 ELSE count = 0
           moves == on /\ fires /\ ~old.cut
           t     == IF moves THEN VoicePos(s, c) ELSE s
           x     == t.xc[c]
           once  == IF old.limit > 0 THEN old.limit - 1 ELSE 0
           y     == [x EXCEPT
                       !.notes  = IF old.cut THEN @ \cup {"END"} ELSE @,
                       !.flags  = IF old.limit = 1 THEN @ \ {"RETRIG"} ELSE @,
                       !.retrig.count = old.val, !.retrig.limit = once]
           z     == [x EXCEPT !.retrig.count = count]
           u     == DoRetrig(s, c)
<1>1. u = IF ~on THEN s ELSE [t EXCEPT !.xc[c] = IF fires THEN y ELSE z]
    BY DEF DoRetrig
<1>2. Stands(s.xc[c], x) /\ StateOK(t)
  <2> HIDE DEF moves
  <2>1. Legal(s, VoicePos(s, c)) /\ Stands(s.xc[c], VoicePos(s, c).xc[c])
      BY VoicePosLegal, VoicePosStands
  <2> QED  BY <2>1 DEF Legal, Good, Stands
<1>3. CASE ~on
  <2> HIDE DEF u, on, t
  <2> QED  BY <1>1, <1>3 DEF Stands, u
<1>4. CASE on
  <2> DEFINE w == IF fires THEN y ELSE z
  <2>1. u = [t EXCEPT !.xc[c] = w]
      BY <1>1, <1>4
  <2> HIDE DEF t, u, old, count, fires, once, on
  <2>2. XcOK(x)
      BY <1>2 DEF StateOK
  <2> HIDE DEF x
  <2>3. Stands(x, y) /\ Stands(x, z)
      BY <2>2 DEF XcOK, Stands
  <2> HIDE DEF y, z
  <2>4. u.xc[c] = w
      BY <1>2, <2>1, SetXc
  <2> QED  BY <1>2, <2>3, <2>4 DEF Stands, u
<1> QED  BY <1>3, <1>4

LEMMA DoKeyoffStands ==
    ASSUME NEW s, Good(s), NEW c \in Channels
    PROVE  Stands(s.xc[c], DoKeyoff(s, c).xc[c])
<1> DEFINE x == s.xc[c]
           y == [x EXCEPT !.keyoff = @ - 1]
           k == {"FADEOUT"} \cup (IF Has(Ins(y.ins).env, "ON") THEN RELEASE ELSE {})
           z == IF y.keyoff = 0 THEN DelayedKeyoff(y) ELSE y
           u == DoKeyoff(s, c)
<1>1. u = IF x.keyoff = 0 THEN s ELSE [s EXCEPT !.xc[c] = z]
    BY DEF DoKeyoff
<1>2. XcOK(x) /\ StateOK(s)
    BY DEF Good, StateOK
<1> HIDE DEF x
<1>3. Stands(x, y) /\ XcOK(y)
    BY <1>2 DEF XcOK, Stands
<1> HIDE DEF y
<1>4. \/ DelayedKeyoff(y) = y
      \/ DelayedKeyoff(y) = [y EXCEPT !.notes = @ \cup RELEASE]
      \/ DelayedKeyoff(y) = [y EXCEPT !.notes = @ \cup k]
  <2>1. [y EXCEPT !.notes = @ \cup k]
          = [y EXCEPT !.notes = @ \cup {"FADEOUT"} \cup
                (IF Has(Ins(y.ins).env, "ON") THEN RELEASE ELSE {})]
      BY <1>3 DEF XcOK
  <2> HIDE DEF k
  <2> QED  BY <2>1 DEF DelayedKeyoff
<1> HIDE DEF k
<1>5. Stands(y, DelayedKeyoff(y))
    BY <1>3, <1>4 DEF XcOK, Stands
<1>6. Stands(x, z)
    BY <1>3, <1>5 DEF Stands
<1> HIDE DEF z, u
<1>7. CASE x.keyoff = 0
    BY <1>1, <1>7 DEF Stands, u, x
<1>8. CASE x.keyoff # 0
  <2>1. u.xc[c] = z
      BY <1>1, <1>2, <1>8, SetXc
  <2> QED  BY <1>6, <2>1 DEF u, x
<1> QED  BY <1>7, <1>8

\* The envelope of an instrument the module has.
LEMMA InstrumentEnvelope ==
    ASSUME IsSong(song), NEW in, ValidIns(in)
    PROVE  IsEnvelope(Ins(in).env)
<1>1. in \in 0 .. Len(song.instruments) - 1
    BY DEF ValidIns
<1>2. in + 1 \in 1 .. Len(song.instruments)
    BY <1>1 DEF IsSong
<1> QED  BY <1>2 DEF IsSong, IsInstrument, Ins

\* The position of an envelope stays a number, in all three styles.
LEMMA EnvelopeMoves ==
    ASSUME NEW env, IsEnvelope(env), NEW style, NEW idx \in Int, NEW release, NEW keyOff
    PROVE  UpdateEnvelope(env, style, idx, release, keyOff) \in Int
<1> DEFINE x == IF idx < MaxIdx THEN idx + 1 ELSE idx
<1>1. x \in Int
    OBVIOUS
<1> HIDE DEF x
<1>2. /\ Has(env, "SUS")  => TickOf(env, env.sus) \in Int /\ TickOf(env, env.sue) \in Int
      /\ Has(env, "LOOP") => TickOf(env, env.lps) \in Int
    BY DEF IsEnvelope
<1>3. UpdateIt(env, x, release, keyOff) \in Int
    BY <1>1, <1>2 DEF UpdateIt
<1>4. ASSUME NEW s, s => Has(env, "SUS"), NEW r
      PROVE  AtSustain(env, x, s, r) \in Int
    BY <1>1, <1>2, <1>4 DEF AtSustain
<1>5. UpdateXm(env, x, release) \in Int
  <2> DEFINE sustained == Has(env, "SUS")
             released  == release \/ (sustained /\ x > TickOf(env, env.sus) + 1)
             y         == AtSustain(env, x, sustained, released)
  <2>1. y \in Int
      BY <1>4
  <2>2. \/ UpdateXm(env, x, release) = TickOf(env, env.lps) /\ Has(env, "LOOP")
        \/ UpdateXm(env, x, release) = y
    <3> HIDE DEF y
    <3> QED  BY DEF UpdateXm, y
  <2> HIDE DEF y
  <2> QED  BY <1>2, <2>1, <2>2
<1>6. UpdateGeneric(env, x, release) \in Int
  <2> DEFINE loops     == Has(env, "LOOP")
             sustained == Has(env, "SUS") /\ ~(loops /\ env.sus = env.lpe /\ ~release)
             released  == \/ release
                          \/ loops /\ x > TickOf(env, env.lpe) + 1
                          \/ sustained /\ x > TickOf(env, env.sus) + 1
             y         == AtSustain(env, x, sustained, released)
  <2>1. y \in Int
      BY <1>4
  <2>2. \/ UpdateGeneric(env, x, release) = TickOf(env, env.lps) /\ Has(env, "LOOP")
        \/ UpdateGeneric(env, x, release) = y
    <3> HIDE DEF y
    <3> QED  BY DEF UpdateGeneric, y
  <2> HIDE DEF y
  <2> QED  BY <1>2, <2>1, <2>2
<1> QED  BY <1>1, <1>3, <1>5, <1>6 DEF UpdateEnvelope, x

\* Impulse Tracker's sustain loop is not passed.
LEMMA SustainLoopHolds ==
    ASSUME NEW env, IsEnvelope(env), Has(env, "ON"), Has(env, "SUS"),
           TickOf(env, env.sus) \in 0 .. TickOf(env, env.sue),
           NEW idx \in Int, idx <= TickOf(env, env.sue), NEW keyOff
    PROVE  UpdateEnvelope(env, "IT", idx, FALSE, keyOff) <= TickOf(env, env.sue)
<1>1. TickOf(env, env.sus) \in Int /\ TickOf(env, env.sue) \in Int
    BY DEF IsEnvelope
<1> DEFINE from == TickOf(env, env.sus)
           end  == TickOf(env, env.sue)
           x    == IF idx < MaxIdx THEN idx + 1 ELSE idx
           moved == UpdateIt(env, x, FALSE, keyOff)
<1>2. env.pts # <<>>
    BY DEF IsEnvelope
<1>3. x \in Int /\ x <= end + 1
    BY <1>1
<1>4. UpdateEnvelope(env, "IT", idx, FALSE, keyOff) = IF x < 0 THEN -1 ELSE moved
  <2> HIDE DEF moved
  <2> QED  BY <1>2 DEF UpdateEnvelope, moved
<1>5. moved = IF x = end + 1 THEN from ELSE x
    BY DEF UpdateIt
<1> HIDE DEF x, moved, from, end
<1>6. (IF x < 0 THEN -1 ELSE moved) <= end
    BY <1>1, <1>3, <1>5 DEF from, end
<1> QED  BY <1>4, <1>6 DEF end

\* The keyoff, envelope and fadeout part of process_volume.
LEMMA FadeStepSame ==
    ASSUME IsSong(song), NEW x, XcOK(x), ValidIns(x.ins), NEW act
    PROVE  Same(x, FadeStep(x, act)) /\ FadeStep(x, act).flags = x.flags
<1> DEFINE y == [x EXCEPT !.fadeout = IF DropsAtOnce(x) THEN 0 ELSE @]
           idx == IF y.paused THEN y.idx
                  ELSE UpdateEnvelope(Ins(y.ins).env, Style, y.idx, Released(y, act),
                                      "KEY_OFF" \in y.flags)
           z == EnvelopeAt(y, idx)
           u == FadeStep(x, act)
<1>1. u = Faded(z, act)
    BY DEF FadeStep, EnvelopeStep
<1>2. Same(x, y) /\ y.flags = x.flags
    BY DEF XcOK, Same
<1> HIDE DEF y, idx, u
<1>3. Same(y, z) /\ z.flags = y.flags
  <2>0. idx \in Int
    <3>1. XcOK(y) /\ ValidIns(y.ins)
        BY <1>2 DEF Same, XcOK, y
    <3>2. IsEnvelope(Ins(y.ins).env) /\ y.idx \in Int
        BY <3>1, InstrumentEnvelope DEF XcOK
    <3> QED  BY <3>2, EnvelopeMoves DEF idx
  <2> DEFINE env  == Ins(y.ins).env
             done == CheckEnvelopeEnd(env, idx)
             fade == CheckEnvelopeFade(env, idx)
             n1   == IF done THEN {"ENV_END"} ELSE {}
             n2   == IF fade = -1 \/ (done /\ GetEnvelope(env, idx, 64) = 0)
                     THEN {"END"} ELSE {}
             n3   == IF fade = 1 /\ Quirk("ENVFADE") THEN {"FADEOUT"} ELSE {}
  <2>1. z = [y EXCEPT !.idx = idx, !.notes = @ \cup n1 \cup n2 \cup n3]
      BY DEF EnvelopeAt
  <2> HIDE DEF n1, n2, n3, z
  <2> QED  BY <1>2, <2>0, <2>1 DEF XcOK, Same
<1> HIDE DEF z
<1>4. Same(z, u) /\ u.flags = z.flags
  <2>1. \/ u = z
        \/ u = [z EXCEPT !.fadeout = @ - z.fade]
        \/ u = [z EXCEPT !.fadeout = 0, !.notes = @ \cup {"END"}]
      BY <1>1 DEF Faded
  <2>2. XcOK(z)
      BY <1>3 DEF Same
  <2>3. CASE u = z
      BY <2>2, <2>3 DEF Same
  <2>4. CASE u = [z EXCEPT !.fadeout = @ - z.fade]
    <3>1. z.fadeout - z.fade \in Int
        BY <2>2 DEF XcOK
    <3>2. u = [z EXCEPT !.fadeout = z.fadeout - z.fade]
        BY <2>4
    <3> DEFINE n == z.fadeout - z.fade
    <3>3. n \in Int /\ u = [z EXCEPT !.fadeout = n]
        BY <3>1, <3>2
    <3> HIDE DEF n
    <3> QED  BY <2>2, <3>3 DEF XcOK, Same
  <2>5. CASE u = [z EXCEPT !.fadeout = 0, !.notes = @ \cup {"END"}]
      BY <2>2, <2>5 DEF XcOK, Same
  <2> QED  BY <2>1, <2>3, <2>4, <2>5
<1>5. Same(x, u) /\ u.flags = x.flags
    BY <1>2, <1>3, <1>4, SameTransitive
<1> QED  BY <1>5 DEF u

\* Without a release the fade step leaves the envelope at or before the end of
\* its sustain loop.
LEMMA FadeStepHolds ==
    ASSUME IsSong(song), song.reader = "IT", NEW x, XcOK(x), ValidIns(x.ins), NEW act,
           NEW env, env = Ins(x.ins).env, Has(env, "ON"), Has(env, "SUS"),
           TickOf(env, env.sus) \in 0 .. TickOf(env, env.sue),
           x.idx <= TickOf(env, env.sue),
           "ENV_RELEASE" \notin FadeStep(x, act).notes, act # OFF
    PROVE  FadeStep(x, act).idx <= TickOf(env, env.sue)
<1> DEFINE y == [x EXCEPT !.fadeout = IF DropsAtOnce(x) THEN 0 ELSE @]
           idx == IF y.paused THEN y.idx
                  ELSE UpdateEnvelope(Ins(y.ins).env, Style, y.idx, Released(y, act),
                                      "KEY_OFF" \in y.flags)
           z == EnvelopeAt(y, idx)
           u == FadeStep(x, act)
<1>1. u = Faded(z, act)
    BY DEF FadeStep, EnvelopeStep
<1>2. y.ins = x.ins /\ y.idx = x.idx /\ y.notes = x.notes /\ XcOK(y)
    BY DEF XcOK
<1> HIDE DEF y, idx, u
<1>3. z.idx = idx /\ y.notes \subseteq z.notes /\ {"idx", "notes"} \subseteq DOMAIN z
  <2> DEFINE e    == Ins(y.ins).env
             done == CheckEnvelopeEnd(e, idx)
             fade == CheckEnvelopeFade(e, idx)
             n1   == IF done THEN {"ENV_END"} ELSE {}
             n2   == IF fade = -1 \/ (done /\ GetEnvelope(e, idx, 64) = 0)
                     THEN {"END"} ELSE {}
             n3   == IF fade = 1 /\ Quirk("ENVFADE") THEN {"FADEOUT"} ELSE {}
  <2>1. z = [y EXCEPT !.idx = idx, !.notes = @ \cup n1 \cup n2 \cup n3]
      BY DEF EnvelopeAt
  <2> HIDE DEF n1, n2, n3, z
  <2> QED  BY <1>2, <2>1 DEF XcOK
<1> HIDE DEF z
<1>4. u.idx = z.idx /\ z.notes \subseteq u.notes
  <2>1. \/ u = z
        \/ u = [z EXCEPT !.fadeout = @ - z.fade]
        \/ u = [z EXCEPT !.fadeout = 0, !.notes = @ \cup {"END"}]
      BY <1>1 DEF Faded
  <2> QED  BY <1>3, <2>1
<1>5. ~Released(y, act)
    BY <1>3, <1>4 DEF Released, u
<1>6. IsEnvelope(env)
    BY InstrumentEnvelope
<1>7. idx <= TickOf(env, env.sue)
  <2>1. CASE y.paused
      BY <1>2, <2>1 DEF idx
  <2>2. CASE ~y.paused
    <3> DEFINE key == "KEY_OFF" \in y.flags
    <3>1. idx = UpdateEnvelope(env, "IT", x.idx, FALSE, key)
      <4>1. Released(y, act) = FALSE
          BY <1>5 DEF Released
      <4>2. Style = "IT"
          BY DEF Style
      <4> HIDE DEF key
      <4> QED  BY <1>2, <2>2, <4>1, <4>2 DEF idx, key
    <3> HIDE DEF key
    <3>2. x.idx \in Int
        BY DEF XcOK
    <3> QED  BY <1>6, <3>1, <3>2, SustainLoopHolds
  <2> QED  BY <2>1, <2>2
<1> QED  BY <1>3, <1>4, <1>7 DEF u

\* libxmp_virt_setvol
LEMMA SetVolLegal ==
    ASSUME NEW s, Good(s), NEW v \in Voices, NEW vol \in Levels
    PROVE  Legal(s, [s EXCEPT !.virt.vol[v] = vol])
<1> DEFINE vols == [s.virt.vol EXCEPT ![v] = vol]
           p    == [s.virt EXCEPT !.vol = vols]
           u    == [s EXCEPT !.virt.vol[v] = vol]
<1>1. /\ StateOK(s) /\ Quiet(s, Channels) /\ Agree(s, Channels)
      /\ PoolInv(s.virt) /\ ActsFit(s.virt) /\ s.virt \in PoolType
    BY DEF Good, StateOK, PoolInv
<1>2. /\ vols \in [Voices -> Levels] /\ s.virt.act \in [Voices -> Acts]
      /\ s.virt.ins \in [Voices -> Instruments \cup {0}]
    BY <1>1 DEF PoolType
<1>3. /\ {"virt", "voice", "xc"} \subseteq DOMAIN u
      /\ u.virt = p /\ u.voice = s.voice /\ u.xc = s.xc
  <2>1. {"virt", "voice", "xc"} \subseteq DOMAIN s /\ "vol" \in DOMAIN s.virt
      BY <1>1 DEF StateOK, PoolType
  <2> QED  BY <2>1
<1> HIDE DEF vols, u
<1>4. p = [s.virt EXCEPT !.vol = vols, !.act = s.virt.act, !.ins = s.virt.ins]
    BY <1>1, KeepFields
<1>5. p.chn = s.virt.chn /\ p.act = s.virt.act
    BY <1>1 DEF PoolType
<1> HIDE DEF p
<1>6. PoolInv(p) /\ ActsFit(p)
    BY <1>1, <1>2, <1>4, AttributesInv
<1>7. song.reader # "IT" => \A w \in Voices : p.act[w] = CUT
    BY <1>1, <1>5 DEF StateOK
<1>8. StateOK(u) /\ Quiet(u, Channels) /\ Agree(u, Channels) /\ Keeps(s, u)
    BY <1>1, <1>3, <1>5, <1>6, <1>7, AttributesStep
<1> QED  BY <1>8 DEF Legal, Good, u

\* The rest of process_volume: a background note that has ended is silenced,
\* any other gets its volume.
LEMMA SoundLegal ==
    ASSUME NEW s, Good(s), NEW c \in Channels, s.virt.map[c] # FREE, NEW y,
           Same(s.xc[c], y), y.flags = s.xc[c].flags, NEW vol \in Levels
    PROVE  Legal(s, Sound([s EXCEPT !.xc[c] = y], c, vol))
<1> DEFINE t == [s EXCEPT !.xc[c] = y]
           v == s.virt.map[c]
           u == Sound(t, c, vol)
<1>1. StateOK(s) /\ Quiet(s, Channels) /\ Agree(s, Channels)
    BY DEF Good
<1>2. OnlyXc(s, t, c) /\ t.xc[c] = y
    BY <1>1, SetXc
<1>3. u = IF c \in Background /\ ("END" \in y.notes \/ vol = 0)
          THEN ResetChannelOf(t, c) ELSE [t EXCEPT !.virt.vol[v] = vol]
    BY <1>2 DEF Sound, OnlyXc
<1>4. v \in Voices
    BY <1>1, MappedPlays
<1> HIDE DEF u, v
<1>5. CASE c \in Background /\ ("END" \in y.notes \/ vol = 0)
  <2> HIDE DEF t
  <2>1. /\ StateOK(t) /\ Quiet(t, Channels \ {c}) /\ Agree(t, Channels)
        /\ Keeps(s, t)
      BY <1>2, ChannelStep
  <2>2. u = WithPool(t, ResetVoices(t.virt, {v})) /\ t.virt.map[c] = v
      BY <1>2, <1>3, <1>5 DEF OnlyXc, ResetChannelOf, v
  <2>3. {v} \in SUBSET Used(t.virt)
      BY <1>2, <2>1, <2>2, MappedVoices DEF StateOK, v, OnlyXc
  <2>4. /\ StateOK(u) /\ u.xc = t.xc
        /\ \A w \in Voices : /\ u.virt.chn[w] = IF w \in {v} THEN FREE ELSE t.virt.chn[w]
                             /\ u.voice[w] = IF u.virt.chn[w] = FREE THEN EmptyVoice
                                             ELSE t.voice[w]
    <3> DEFINE R == {v}
    <3>1. R \in SUBSET Used(t.virt) /\ u = WithPool(t, ResetVoices(t.virt, R))
        BY <2>2, <2>3
    <3> HIDE DEF R
    <3>2. /\ StateOK(u) /\ u.xc = t.xc
          /\ \A w \in Voices : /\ u.virt.chn[w] = IF w \in R THEN FREE ELSE t.virt.chn[w]
                               /\ u.voice[w] = IF u.virt.chn[w] = FREE THEN EmptyVoice
                                               ELSE t.voice[w]
        BY <2>1, <3>1, ResetStep
    <3> QED  BY <3>2 DEF R
  <2>5. \A w \in Voices : u.virt.chn[w] \in {FREE, t.virt.chn[w]}
      BY <2>4
  <2>6. Quiet(u, Channels \ {c}) /\ Agree(u, Channels) /\ Keeps(t, u)
      BY <2>1, <2>4, <2>5, SilencedIsGood
  <2>7. \A w \in Voices : u.virt.chn[w] # c
    <3>1. c # FREE /\ \A w \in Voices : t.virt.chn[w] = c => w = v
        BY <2>1, <2>2, Sizes DEF StateOK, PoolInv, MapsAgreeIn
    <3> QED  BY <2>4, <3>1
  <2>8. Quiet(u, Channels)
      BY <2>6, <2>7 DEF Quiet
  <2>9. Keeps(s, u)
      BY <2>1, <2>6 DEF Keeps
  <2> QED  BY <2>4, <2>6, <2>8, <2>9 DEF Legal, Good, u, t
<1>6. CASE ~(c \in Background /\ ("END" \in y.notes \/ vol = 0))
  <2>1. Legal(s, t)
      BY <1>6, ChannelSet
  <2> HIDE DEF t
  <2>2. u = [t EXCEPT !.virt.vol[v] = vol]
      BY <1>3, <1>6
  <2>3. Legal(t, u)
      BY <1>4, <2>1, <2>2, SetVolLegal DEF Legal
  <2> QED  BY <2>1, <2>3, LegalTransitive DEF u, t
<1> QED  BY <1>5, <1>6

\* play_channel behind the early returns
LEMMA PlayNoteLegal ==
    ASSUME IsSong(song), NEW s, Good(s), NEW c \in Channels, s.virt.map[c] # FREE,
           ValidIns(s.xc[c].ins), NEW act, NEW u \in PlayNote(s, c, act)
    PROVE  Legal(s, u)
<1> DEFINE x0 == s.xc[c]
           x  == FadeStep(x0, act)
           k  == IF "SUSEXIT" \in x.notes THEN {"ENV_RELEASE"} ELSE {}
           y  == [x EXCEPT !.notes = @ \cup k]
<1>1. XcOK(x0) /\ ValidIns(x0.ins)
    BY DEF Good, StateOK
<1>2. PICK vol \in VolumesOf(x) : u = Sound([s EXCEPT !.xc[c] = y], c, vol)
  <2> HIDE DEF x
  <2>1. PlayNote(s, c, act) = {Sound([s EXCEPT !.xc[c] = y], c, vol) : vol \in VolumesOf(x)}
      BY DEF PlayNote, Sounding, x
  <2> QED  BY <2>1
<1> HIDE DEF x0
<1>3. Same(x0, x) /\ x.flags = x0.flags
    BY <1>1, FadeStepSame
<1> HIDE DEF x
<1>4. vol \in Levels
  <2>1. VolumesOf(x) = {0} \/ VolumesOf(x) = Levels
      BY DEF VolumesOf
  <2> QED  BY <2>1, LevelsAssumption
<1>5. Same(x, y) /\ y.flags = x.flags
  <2> HIDE DEF k
  <2> QED  BY <1>3 DEF XcOK, Same
<1> HIDE DEF y
<1>6. Same(x0, y) /\ y.flags = x0.flags
    BY <1>3, <1>5, SameTransitive
<1> QED  BY <1>2, <1>4, <1>6, SoundLegal DEF x0

\* play_channel once a delayed event has been read
LEMMA PlayVoiceLegal ==
    ASSUME IsSong(song), NEW s, Good(s), NEW c \in Channels, NEW u \in PlayVoice(s, c)
    PROVE  Legal(s, u)
<1> DEFINE act == Cstat(s, c)
           t   == DoRetrig(s, c)
           w   == DoKeyoff(t, c)
<1>1. CASE u = s
    BY <1>1, LegalReflexive
<1>2. CASE u = ResetChannelOf(s, c)
    BY <1>2, ResetChannelLegal
<1>3. CASE /\ s.virt.map[c] # FREE /\ ValidIns(s.xc[c].ins)
           /\ u \in PlayNote(w, c, act)
  <2>1. Legal(s, t) /\ t.virt = s.virt /\ Stands(s.xc[c], t.xc[c])
      BY DoRetrigLegal, DoRetrigStands
  <2> HIDE DEF t
  <2>2. Legal(t, w) /\ w.virt = t.virt /\ Stands(t.xc[c], w.xc[c])
      BY <2>1, DoKeyoffLegal, DoKeyoffStands DEF Legal
  <2> HIDE DEF w, act
  <2>3. ValidIns(w.xc[c].ins)
      BY <1>3, <2>1, <2>2 DEF Stands
  <2>4. Legal(w, u)
      BY <1>3, <2>1, <2>2, <2>3, PlayNoteLegal DEF Legal
  <2> QED  BY <2>1, <2>2, <2>4, LegalTransitive
<1>4. \/ u = s \/ u = ResetChannelOf(s, c)
      \/ /\ s.virt.map[c] # FREE /\ ValidIns(s.xc[c].ins)
         /\ u \in PlayNote(w, c, act)
  <2> HIDE DEF w, act
  <2> QED  BY DEF PlayVoice, w, act
<1> QED  BY <1>1, <1>2, <1>3, <1>4

\* play_channel
LEMMA PlayChannelGood ==
    ASSUME NnaNeedsVirtual, IsSong(song), frame \in Nat, NEW s, Good(s),
           NEW c \in Channels, NEW u \in PlayChannel(s, c)
    PROVE  Good(u) /\ Ticked(s, u, c)
<1> DEFINE t == DoDelay(s, c)
<1>1. Good(t) /\ Ticked(s, t, c)
    BY DoDelayGood
<1>2. u \in PlayVoice(t, c)
    BY DEF PlayChannel
<1> HIDE DEF t
<1>3. Legal(t, u)
    BY <1>1, <1>2, PlayVoiceLegal
<1> QED  BY <1>1, <1>3 DEF Legal, Keeps, Ticked

\* What of process_volume comes last leaves the channels' data alone.
LEMMA SoundXc ==
    ASSUME NEW s, StateOK(s), NEW c \in Channels, NEW vol
    PROVE  Sound(s, c, vol).xc = s.xc
<1>1. {"virt", "voice", "xc"} \subseteq DOMAIN s
    BY DEF StateOK
<1>2. ResetChannelOf(s, c).xc = s.xc
    BY <1>1 DEF ResetChannelOf, WithPool
<1> DEFINE v == s.virt.map[c]
<1>3. [s EXCEPT !.virt.vol[v] = vol].xc = s.xc
    BY <1>1
<1>4. \/ Sound(s, c, vol) = ResetChannelOf(s, c)
      \/ Sound(s, c, vol) = [s EXCEPT !.virt.vol[v] = vol]
    BY DEF Sound
<1> HIDE DEF v
<1> QED  BY <1>2, <1>3, <1>4

\* Impulse Tracker: a note that is not released stays in its sustain loop.
LEMMA PlayNoteHolds ==
    ASSUME IsSong(song), song.reader = "IT", NEW s, Good(s), NEW c \in Channels,
           ValidIns(s.xc[c].ins), NEW act, NEW u \in PlayNote(s, c, act),
           NEW env, env = Ins(s.xc[c].ins).env, Has(env, "ON"), Has(env, "SUS"),
           TickOf(env, env.sus) \in 0 .. TickOf(env, env.sue),
           s.xc[c].idx <= TickOf(env, env.sue),
           "ENV_RELEASE" \notin u.xc[c].notes, act # OFF
    PROVE  u.xc[c].idx <= TickOf(env, env.sue)
<1> DEFINE x0 == s.xc[c]
           x  == FadeStep(x0, act)
           k  == IF "SUSEXIT" \in x.notes THEN {"ENV_RELEASE"} ELSE {}
           y  == [x EXCEPT !.notes = @ \cup k]
           t  == [s EXCEPT !.xc[c] = y]
<1>1. XcOK(x0) /\ ValidIns(x0.ins) /\ StateOK(s)
    BY DEF Good, StateOK
<1>2. PICK vol \in VolumesOf(x) : u = Sound(t, c, vol)
  <2> HIDE DEF x
  <2>1. PlayNote(s, c, act) = {Sound([s EXCEPT !.xc[c] = y], c, vol) : vol \in VolumesOf(x)}
      BY DEF PlayNote, Sounding, x
  <2> QED  BY <2>1
<1>3. XcOK(x)
  <2> HIDE DEF x0
  <2> QED  BY <1>1, FadeStepSame DEF Same
<1> HIDE DEF x
<1>4. XcOK(y) /\ y.idx = x.idx /\ x.notes \subseteq y.notes
  <2> HIDE DEF k
  <2> QED  BY <1>3 DEF XcOK
<1> HIDE DEF y, k
<1>5. u.xc[c] = y
  <2>1. OnlyXc(s, t, c) /\ t.xc[c] = y
      BY <1>1, SetXc
  <2> HIDE DEF t
  <2>2. StateOK(t)
      BY <1>1, <1>4, <2>1 DEF StateOK, OnlyXc
  <2> QED  BY <1>2, <2>1, <2>2, SoundXc
<1>6. "ENV_RELEASE" \notin x.notes
    BY <1>4, <1>5
<1>7. x.idx <= TickOf(env, env.sue)
    BY <1>1, <1>6, FadeStepHolds DEF x
<1> QED  BY <1>4, <1>5, <1>7

LEMMA PlayChannelHolds ==
    ASSUME NnaNeedsVirtual, IsSong(song), frame \in Nat, song.reader = "IT",
           NEW s, Good(s), NEW c \in Channels, s.xc[c].delay # 1,
           ValidIns(s.xc[c].ins), NEW u \in PlayChannel(s, c),
           NEW env, env = Ins(s.xc[c].ins).env, Has(env, "ON"), Has(env, "SUS"),
           TickOf(env, env.sus) \in 0 .. TickOf(env, env.sue),
           s.xc[c].idx <= TickOf(env, env.sue),
           "ENV_RELEASE" \notin u.xc[c].notes, Cstat(s, c) # OFF
    PROVE  u.xc[c].idx <= TickOf(env, env.sue)
<1> DEFINE t   == DoDelay(s, c)
           act == Cstat(t, c)
           r   == DoRetrig(t, c)
           w   == DoKeyoff(r, c)
<1>1. Good(t) /\ u \in PlayVoice(t, c)
    BY DoDelayGood DEF PlayChannel
<1>2. /\ t.virt = s.virt
      /\ t.xc[c].ins = s.xc[c].ins /\ t.xc[c].idx = s.xc[c].idx
  <2> DEFINE x == s.xc[c]
             y == [x EXCEPT !.delay = @ - 1]
  <2>1. StateOK(s) /\ XcOK(x)
      BY DEF Good, StateOK
  <2>2. [s EXCEPT !.xc[c].delay = @ - 1] = [s EXCEPT !.xc[c] = y]
      BY <2>1 DEF StateOK
  <2>3. t = s \/ t = [s EXCEPT !.xc[c] = y]
    <3>1. x.delay = 0 \/ x.delay > 1
        BY <2>1 DEF XcOK
    <3>2. t = s \/ t = [s EXCEPT !.xc[c].delay = @ - 1]
        BY <3>1 DEF DoDelay
    <3> QED  BY <2>2, <3>2
  <2> HIDE DEF t, x
  <2>4. y.ins = x.ins /\ y.idx = x.idx
      BY <2>1 DEF XcOK
  <2> HIDE DEF y
  <2>5. OnlyXc(s, [s EXCEPT !.xc[c] = y], c) /\ [s EXCEPT !.xc[c] = y].xc[c] = y
      BY <2>1, SetXc
  <2> QED  BY <2>3, <2>4, <2>5 DEF OnlyXc, x
<1>3. act = Cstat(s, c)
    BY <1>2 DEF Cstat
<1> HIDE DEF t, act
<1>4. \/ u = t \/ u = ResetChannelOf(t, c) \/ u \in PlayNote(w, c, act)
  <2> HIDE DEF w
  <2> QED  BY <1>1 DEF PlayVoice, w, act
<1>5. CASE u = t \/ u = ResetChannelOf(t, c)
  <2>1. {"virt", "voice", "xc"} \subseteq DOMAIN t
      BY <1>1 DEF Good, StateOK
  <2>2. ResetChannelOf(t, c).xc = t.xc
      BY <2>1 DEF ResetChannelOf, WithPool
  <2> QED  BY <1>2, <1>5, <2>2
<1>6. CASE u \in PlayNote(w, c, act)
  <2>1. Good(r) /\ Stands(t.xc[c], r.xc[c])
      BY <1>1, DoRetrigLegal, DoRetrigStands DEF Legal
  <2> HIDE DEF r
  <2>2. Good(w) /\ Stands(r.xc[c], w.xc[c])
      BY <2>1, DoKeyoffLegal, DoKeyoffStands DEF Legal
  <2> HIDE DEF w
  <2>3. w.xc[c].ins = s.xc[c].ins /\ w.xc[c].idx = s.xc[c].idx
      BY <1>2, <2>1, <2>2 DEF Stands
  <2> QED  BY <1>3, <1>6, <2>2, <2>3, PlayNoteHolds
<1> QED  BY <1>4, <1>5, <1>6

-----------------------------------------------------------------------------
(* A dying note: its turn takes the fade down                              *)

\* The note was told to fade, or was released and has no envelope.
Told(x) ==
    /\ x.fade > 0
    /\ \/ "FADEOUT" \in x.notes
       \/ "ENV_RELEASE" \in x.notes /\ ~Has(Ins(x.ins).env, "ON")

\* Nothing takes back what the note was told.
ToldStill(x, y) ==
    /\ y.ins = x.ins /\ y.fade = x.fade
    /\ x.notes \cap {"FADEOUT", "ENV_RELEASE"} \subseteq y.notes

\* The fade has come down, and there is something left of it.
Fallen(x, y) == y.fadeout = x.fadeout - x.fade /\ y.fadeout > 0

LEMMA ToldStays ==
    ASSUME NEW x, Told(x), NEW y, ToldStill(x, y)
    PROVE  Told(y)
BY DEF Told, ToldStill

\* process_volume takes the step off the fade, or ends the note.
LEMMA FadeStepFades ==
    ASSUME song.reader = "IT", NEW x, XcOK(x), Told(x), NEW act
    PROVE  LET u == FadeStep(x, act)
           IN  /\ ToldStill(x, u)
               /\ "END" \in u.notes \/ Fallen(x, u)
<1> DEFINE y == [x EXCEPT !.fadeout = IF DropsAtOnce(x) THEN 0 ELSE @]
           idx == IF y.paused THEN y.idx
                  ELSE UpdateEnvelope(Ins(y.ins).env, Style, y.idx, Released(y, act),
                                      "KEY_OFF" \in y.flags)
           z == EnvelopeAt(y, idx)
           u == FadeStep(x, act)
<1>1. u = Faded(z, act)
    BY DEF FadeStep, EnvelopeStep
<1>2. /\ y.fadeout \in {0, x.fadeout} /\ ToldStill(x, y)
      /\ {"idx", "notes", "fadeout", "fade", "ins"} \subseteq DOMAIN y
    BY DEF XcOK, ToldStill
<1> HIDE DEF y, idx, u
<1>3. /\ z.fadeout = y.fadeout /\ ToldStill(y, z)
      /\ {"notes", "fadeout", "fade", "ins"} \subseteq DOMAIN z
  <2> DEFINE e    == Ins(y.ins).env
             done == CheckEnvelopeEnd(e, idx)
             fade == CheckEnvelopeFade(e, idx)
             n1   == IF done THEN {"ENV_END"} ELSE {}
             n2   == IF fade = -1 \/ (done /\ GetEnvelope(e, idx, 64) = 0)
                     THEN {"END"} ELSE {}
             n3   == IF fade = 1 /\ Quirk("ENVFADE") THEN {"FADEOUT"} ELSE {}
  <2>1. z = [y EXCEPT !.idx = idx, !.notes = @ \cup n1 \cup n2 \cup n3]
      BY DEF EnvelopeAt
  <2> HIDE DEF n1, n2, n3, z
  <2> QED  BY <1>2, <2>1 DEF ToldStill
<1> HIDE DEF z
<1>4. Told(z) /\ ToldStill(x, z)
    BY <1>2, <1>3, ToldStays DEF ToldStill
<1>5. Fades(z, act)
  <2>1. CASE "FADEOUT" \in z.notes
      BY <2>1 DEF Fades
  <2>2. CASE "ENV_RELEASE" \in z.notes /\ ~Has(Ins(z.ins).env, "ON")
    <3>1. song.reader # "FT2"
        OBVIOUS
    <3> QED  BY <2>2, <3>1 DEF Fades, Released
  <2> QED  BY <1>4, <2>1, <2>2 DEF Told
<1>6. CASE z.fadeout > z.fade
  <2>1. u = [z EXCEPT !.fadeout = z.fadeout - z.fade]
      BY <1>1, <1>5, <1>6 DEF Faded
  <2>2. z.fadeout = x.fadeout /\ z.fade = x.fade /\ x.fadeout - x.fade > 0
    <3>1. z.fade \in Int /\ z.fade > 0 /\ z.fade = x.fade
        BY <1>4 DEF Told, ToldStill, XcOK
    <3>2. z.fadeout # 0
        BY <1>6, <3>1
    <3>3. z.fadeout = x.fadeout /\ x.fadeout \in Int
        BY <1>2, <1>3, <3>2 DEF XcOK
    <3> QED  BY <1>6, <3>1, <3>3
  <2> DEFINE n == z.fadeout - z.fade
  <2>3. n = x.fadeout - x.fade /\ n > 0 /\ u = [z EXCEPT !.fadeout = n]
      BY <2>1, <2>2
  <2> HIDE DEF n
  <2>4. u.fadeout = n /\ u.ins = z.ins /\ u.fade = z.fade /\ u.notes = z.notes
      BY <1>3, <2>3
  <2> QED  BY <1>4, <2>3, <2>4 DEF ToldStill, Fallen, u
<1>7. CASE ~(z.fadeout > z.fade)
  <2>1. u = [z EXCEPT !.fadeout = 0, !.notes = @ \cup {"END"}]
      BY <1>1, <1>5, <1>7 DEF Faded
  <2>2. u.ins = z.ins /\ u.fade = z.fade /\ u.notes = z.notes \cup {"END"}
      BY <1>3, <2>1
  <2> QED  BY <1>4, <2>2 DEF ToldStill, u
<1> QED  BY <1>6, <1>7

\* A channel that is reset has no voice.
LEMMA ResetChannelFrees ==
    ASSUME NEW s, StateOK(s), NEW c \in Channels
    PROVE  ResetChannelOf(s, c).virt.map[c] = FREE
<1>1. CASE s.virt.map[c] = FREE
    BY <1>1 DEF ResetChannelOf
<1>2. CASE s.virt.map[c] # FREE
  <2> DEFINE pool == ResetVoices(s.virt, {s.virt.map[c]})
  <2>1. ResetChannelOf(s, c) = WithPool(s, pool)
      BY <1>2 DEF ResetChannelOf
  <2>2. s.virt.chn[s.virt.map[c]] = c
      BY <1>2, MappedPlays
  <2>3. pool.map[c] = FREE
      BY <2>2 DEF ResetVoices, Unlink
  <2> HIDE DEF pool
  <2>4. WithPool(s, pool).virt = pool
      BY DEF WithPool, StateOK
  <2> QED  BY <2>1, <2>3, <2>4
<1> QED  BY <1>1, <1>2

\* What of process_volume comes last keeps the voice of a background note only
\* if the note has not ended.
LEMMA SoundKeeps ==
    ASSUME NEW s, StateOK(s), NEW c \in Background, NEW vol,
           Sound(s, c, vol).virt.map[c] # FREE
    PROVE  "END" \notin s.xc[c].notes
<1>1. c \in Channels
    BY DEF Background
<1> QED  BY <1>1, ResetChannelFrees DEF Sound

LEMMA PlayNoteFades ==
    ASSUME IsSong(song), song.reader = "IT", NEW s, Good(s), NEW c \in Background,
           ValidIns(s.xc[c].ins), Told(s.xc[c]), NEW act,
           NEW u \in PlayNote(s, c, act), u.virt.map[c] # FREE
    PROVE  ToldStill(s.xc[c], u.xc[c]) /\ Fallen(s.xc[c], u.xc[c])
<1> DEFINE x0 == s.xc[c]
           x  == FadeStep(x0, act)
           k  == IF "SUSEXIT" \in x.notes THEN {"ENV_RELEASE"} ELSE {}
           y  == [x EXCEPT !.notes = @ \cup k]
           t  == [s EXCEPT !.xc[c] = y]
<1>1. XcOK(x0) /\ ValidIns(x0.ins) /\ StateOK(s) /\ c \in Channels
    BY DEF Good, StateOK, Background
<1>2. PICK vol \in VolumesOf(x) : u = Sound(t, c, vol)
  <2> HIDE DEF x
  <2>1. PlayNote(s, c, act) = {Sound([s EXCEPT !.xc[c] = y], c, vol) : vol \in VolumesOf(x)}
      BY DEF PlayNote, Sounding, x
  <2> QED  BY <2>1
<1>3. XcOK(x)
  <2> HIDE DEF x0
  <2> QED  BY <1>1, FadeStepSame DEF Same
<1>4. /\ ToldStill(x0, x)
      /\ "END" \in x.notes \/ Fallen(x0, x)
    BY <1>1, FadeStepFades
<1> HIDE DEF x
<1>5. XcOK(y) /\ ToldStill(x, y) /\ y.fadeout = x.fadeout /\ x.notes \subseteq y.notes
  <2> HIDE DEF k
  <2> QED  BY <1>3 DEF XcOK, ToldStill
<1> HIDE DEF y, k
<1>6. StateOK(t) /\ t.xc[c] = y
  <2>1. OnlyXc(s, t, c) /\ t.xc[c] = y
      BY <1>1, SetXc
  <2> HIDE DEF t
  <2> QED  BY <1>1, <1>5, <2>1 DEF StateOK, OnlyXc
<1> HIDE DEF t
<1>7. u.xc[c] = y
    BY <1>1, <1>2, <1>6, SoundXc
<1>8. "END" \notin y.notes
    BY <1>2, <1>6, SoundKeeps
<1>9. Fallen(x0, y)
    BY <1>4, <1>5, <1>8 DEF Fallen
<1>10. ToldStill(x0, y)
    BY <1>4, <1>5 DEF ToldStill
<1> QED  BY <1>7, <1>9, <1>10

\* "Do keyoff" may release or fade a note, and takes neither back.
LEMMA DoKeyoffTold ==
    ASSUME NEW s, Good(s), NEW c \in Channels
    PROVE  /\ ToldStill(s.xc[c], DoKeyoff(s, c).xc[c])
           /\ DoKeyoff(s, c).xc[c].fadeout = s.xc[c].fadeout
<1> DEFINE x == s.xc[c]
           y == [x EXCEPT !.keyoff = @ - 1]
           k == {"FADEOUT"} \cup (IF Has(Ins(y.ins).env, "ON") THEN RELEASE ELSE {})
           z == IF y.keyoff = 0 THEN DelayedKeyoff(y) ELSE y
           u == DoKeyoff(s, c)
           On(a, b) == ToldStill(a, b) /\ b.fadeout = a.fadeout
<1>1. u = IF x.keyoff = 0 THEN s ELSE [s EXCEPT !.xc[c] = z]
    BY DEF DoKeyoff
<1>2. XcOK(x) /\ StateOK(s)
    BY DEF Good, StateOK
<1> HIDE DEF x
<1>3. On(x, y) /\ XcOK(y)
    BY <1>2 DEF XcOK, ToldStill
<1> HIDE DEF y
<1>4. \/ DelayedKeyoff(y) = y
      \/ DelayedKeyoff(y) = [y EXCEPT !.notes = @ \cup RELEASE]
      \/ DelayedKeyoff(y) = [y EXCEPT !.notes = @ \cup k]
  <2>1. [y EXCEPT !.notes = @ \cup k]
          = [y EXCEPT !.notes = @ \cup {"FADEOUT"} \cup
                (IF Has(Ins(y.ins).env, "ON") THEN RELEASE ELSE {})]
      BY <1>3 DEF XcOK
  <2> HIDE DEF k
  <2> QED  BY <2>1 DEF DelayedKeyoff
<1> HIDE DEF k
<1>5. On(y, DelayedKeyoff(y))
    BY <1>3, <1>4 DEF XcOK, ToldStill
<1>6. On(x, z)
    BY <1>3, <1>5 DEF ToldStill
<1> HIDE DEF z, u
<1>7. CASE x.keyoff = 0
    BY <1>1, <1>7 DEF u, x, ToldStill
<1>8. CASE x.keyoff # 0
  <2>1. u.xc[c] = z
      BY <1>1, <1>2, <1>8, SetXc
  <2> QED  BY <1>6, <2>1 DEF u, x
<1> QED  BY <1>7, <1>8

\* play_channel in the turn of a dying note: no delayed event waits for it and
\* no flag of a row works on it, so all that is due is a key off and the fade.
LEMMA PlayChannelFades ==
    ASSUME IsSong(song), song.reader = "IT", NEW s, Good(s), NEW c \in Background,
           s.virt.map[c] # FREE, ValidIns(s.xc[c].ins), Told(s.xc[c]),
           NEW u \in PlayChannel(s, c), u.virt.map[c] # FREE
    PROVE  Told(u.xc[c]) /\ Fallen(s.xc[c], u.xc[c])
<1> DEFINE act == Cstat(s, c)
           w   == DoKeyoff(s, c)
<1>1. c \in Channels /\ StateOK(s) /\ s.xc[c].delay = 0 /\ s.xc[c].flags = {}
    BY DEF Good, Quiet, Background
<1>2. DoDelay(s, c) = s
    BY <1>1 DEF DoDelay
<1>3. DoRetrig(s, c) = s
    BY <1>1 DEF DoRetrig
<1>4. u = ResetChannelOf(s, c) \/ u \in PlayNote(w, c, act)
  <2>1. u \in PlayVoice(s, c)
      BY <1>2 DEF PlayChannel
  <2>2. w = DoKeyoff(DoRetrig(s, c), c)
      BY <1>3
  <2> HIDE DEF w
  <2> QED  BY <2>1, <2>2 DEF PlayVoice, act
<1>5. u \in PlayNote(w, c, act)
    BY <1>1, <1>4, ResetChannelFrees
<1>6. Good(w) /\ ToldStill(s.xc[c], w.xc[c]) /\ w.xc[c].fadeout = s.xc[c].fadeout
    BY <1>1, DoKeyoffLegal, DoKeyoffTold DEF Legal
<1> HIDE DEF w, act
<1>7. Told(w.xc[c]) /\ w.xc[c].ins = s.xc[c].ins /\ w.xc[c].fade = s.xc[c].fade
    BY <1>6, ToldStays DEF ToldStill
<1>8. ToldStill(w.xc[c], u.xc[c]) /\ Fallen(w.xc[c], u.xc[c])
    BY <1>5, <1>6, <1>7, PlayNoteFades
<1> QED  BY <1>6, <1>7, <1>8, ToldStays DEF Fallen

-----------------------------------------------------------------------------
(* The mixer                                                               *)

\* set_sample_end
LEMMA SampleEndsLegal ==
    ASSUME NEW s, Good(s), NEW v \in Voices, s.virt.chn[v] # FREE
    PROVE  Legal(s, SampleEnds(s, v))
<1> DEFINE c == s.virt.chn[v]
           x == s.xc[c]
           y == [x EXCEPT !.notes = @ \cup {"SAMPLE_END"}]
           t == [s EXCEPT !.xc[c] = y]
           u == SampleEnds(s, v)
<1>1. /\ StateOK(s) /\ PoolInv(s.virt) /\ c \in Channels /\ XcOK(x)
      /\ {"virt", "voice", "xc"} \subseteq DOMAIN s /\ DOMAIN s.xc = Channels
    BY DEF Good, StateOK, PoolInv, PoolType
<1>2. t = [s EXCEPT !.xc[c].notes = @ \cup {"SAMPLE_END"}]
    BY <1>1
<1> HIDE DEF t
<1>3. u = IF Quirk("RSTCHN") THEN WithPool(t, ResetVoices(t.virt, {v})) ELSE t
    BY <1>2 DEF SampleEnds
<1> HIDE DEF u, x
<1>4. Same(x, y) /\ y.flags = x.flags /\ ("END" \in y.notes => "END" \in x.notes)
    BY <1>1 DEF XcOK, Same
<1> HIDE DEF y, c
<1>5. Legal(s, t)
    BY <1>1, <1>4, ChannelSet DEF t, x
<1>6. t.virt = s.virt
    BY <1>1 DEF t
<1>7. CASE Quirk("RSTCHN")
  <2> DEFINE R == {v}
  <2>1. R \in SUBSET Used(t.virt)
      BY <1>6 DEF Used
  <2>2. u = WithPool(t, ResetVoices(t.virt, R))
      BY <1>3, <1>7
  <2> HIDE DEF R
  <2>3. Legal(t, u)
      BY <1>5, <2>1, <2>2, ResetLegal DEF Legal
  <2> QED  BY <1>5, <2>3, LegalTransitive DEF u
<1>8. CASE ~Quirk("RSTCHN")
    BY <1>3, <1>5, <1>8 DEF u
<1> QED  BY <1>7, <1>8

\* A voice at the end of its sample: only Protracker's voices have another
\* sample to go over to.
LEMMA ReachesEndLegal ==
    ASSUME NEW s, Good(s), NEW v \in Voices
    PROVE  Legal(s, ReachesEnd(s, v))
<1> DEFINE q  == s.voice[v].queue
           e  == [s.voice[v] EXCEPT !.queue = NoQueue]
           e2 == [s.voice[v] EXCEPT !.queue = NoQueue, !.paused = TRUE]
           t  == [s EXCEPT !.voice[v] = e]
           t2 == [s EXCEPT !.voice[v] = e2]
           u  == ReachesEnd(s, v)
<1>1. /\ StateOK(s) /\ Quiet(s, Channels) /\ Agree(s, Channels)
      /\ {"virt", "voice", "xc"} \subseteq DOMAIN s /\ DOMAIN s.voice = Voices
      /\ {"smp", "queue"} \subseteq DOMAIN s.voice[v]
    BY DEF Good, StateOK
<1>2. t = [s EXCEPT !.voice[v].queue = NoQueue]
    BY <1>1
<1>3. t2 = [s EXCEPT !.voice[v].queue = NoQueue, !.voice[v].paused = TRUE]
    BY <1>1
<1>4. /\ \/ u = s \/ u = t \/ u = SampleEnds(s, v)
         \/ (q >= 0 \/ q # NoQueue) /\ (u = HotSwap(s, v) \/ u = SampleEnds(t2, v))
      /\ s.virt.chn[v] = FREE => u = s
  <2> HIDE DEF t, t2
  <2> QED  BY <1>2, <1>3 DEF ReachesEnd
<1>5. /\ {"smp", "queue"} \subseteq DOMAIN e /\ e.queue = NoQueue /\ e.smp = s.voice[v].smp
      /\ {"smp", "queue"} \subseteq DOMAIN e2
    BY <1>1
<1> HIDE DEF e, e2, u
<1>6. /\ StateOK(t) /\ Quiet(t, Channels) /\ Keeps(s, t) /\ t.virt = s.virt /\ t.xc = s.xc
      /\ \A w \in Voices : t.voice[w] = IF w = v THEN e ELSE s.voice[w]
    BY <1>1, <1>5, SetQueueIs
<1>7. Agree(t, Channels)
    BY <1>1, <1>5, <1>6 DEF Agree
<1>8. Legal(s, t)
    BY <1>6, <1>7 DEF Legal, Good
<1>9. CASE s.virt.chn[v] = FREE
    BY <1>4, <1>9, LegalReflexive DEF u
<1>10. CASE s.virt.chn[v] # FREE
  <2>1. CASE u = s \/ u = t \/ u = SampleEnds(s, v)
      BY <1>8, <1>10, <2>1, SampleEndsLegal, LegalReflexive DEF u
  <2>2. CASE (q >= 0 \/ q # NoQueue) /\ (u = HotSwap(s, v) \/ u = SampleEnds(t2, v))
    <3>1. Quirk("PROTRACK")
      <4>1. ~(NoQueue >= 0)
          BY DEF NoQueue
      <4> QED  BY <1>1, <2>2, <4>1 DEF Agree
    <3>2. s.virt.chn[v] \in Channels
        BY <1>1, <1>10 DEF StateOK, PoolInv, PoolType
    <3>3. /\ StateOK(HotSwap(s, v)) /\ Quiet(HotSwap(s, v), Channels)
          /\ Keeps(s, HotSwap(s, v))
        BY <1>1, <3>2, HotSwapIs
    <3>4. Legal(s, HotSwap(s, v))
        BY <3>1, <3>3, SwappedIsGood
    <3>5. /\ StateOK(t2) /\ Quiet(t2, Channels) /\ Keeps(s, t2) /\ t2.virt = s.virt
        BY <1>1, <1>5, SetQueueIs
    <3> HIDE DEF t2
    <3>6. Legal(s, t2)
        BY <3>1, <3>5, SwappedIsGood
    <3>7. Legal(t2, SampleEnds(t2, v))
        BY <1>10, <3>5, <3>6, SampleEndsLegal DEF Legal
    <3>8. Legal(s, SampleEnds(t2, v))
        BY <3>6, <3>7, LegalTransitive
    <3> QED  BY <2>2, <3>4, <3>8 DEF u
  <2> QED  BY <1>4, <2>1, <2>2
<1> QED  BY <1>9, <1>10

\* libxmp_mixer_softmixer goes through one voice after the other.
LEMMA MixVoicesRecurs ==
    ASSUME NEW s, NEW E
    PROVE  \E g : /\ g = [n \in 0 .. MaxVoc |-> IF n = 0 THEN s
                                           ELSE IF n - 1 \in E
                                           THEN ReachesEnd(g[n - 1], n - 1)
                                           ELSE g[n - 1]]
                  /\ MixVoices(s, E) = g[MaxVoc]
<1> DEFINE N == MaxVoc
           After(x, n) == IF n - 1 \in E THEN ReachesEnd(x, n - 1) ELSE x
           Reads(g, k) == g = [n \in 0 .. k |-> IF n = 0 THEN s ELSE After(g[n - 1], n)]
           S == {k \in 0 .. N : \E g : Reads(g, k)}
           read == CHOOSE g : Reads(g, N)
<1>1. N \in Nat
    BY Sizes
<1>2. MixVoices(s, E) = read[N]
    BY DEF MixVoices
<1> HIDE DEF After, N
<1>3. 0 \in S
  <2> DEFINE g == [n \in 0 .. 0 |-> s]
  <2>1. Reads(g, 0)
      OBVIOUS
  <2> HIDE DEF g, Reads
  <2> QED  BY <1>1, <2>1
<1>4. ASSUME NEW k \in 0 .. N - 1, k \in S  PROVE k + 1 \in S
  <2>1. PICK g : Reads(g, k)
      BY <1>4
  <2> DEFINE h == [n \in 0 .. k + 1 |-> IF n = k + 1 THEN After(g[k], k + 1) ELSE g[n]]
             f == [n \in 0 .. k + 1 |-> IF n = 0 THEN s ELSE After(h[n - 1], n)]
  <2>2. k \in Nat /\ k + 1 \in 0 .. N
      BY <1>1
  <2>3. \A n \in 0 .. k : h[n] = g[n]
      BY <2>2
  <2>4. ASSUME NEW n \in 0 .. k + 1  PROVE h[n] = f[n]
    <3>1. CASE n = k + 1
      <4>1. n # 0 /\ n - 1 = k /\ k \in 0 .. k
          BY <2>2, <3>1
      <4> QED  BY <2>3, <3>1, <4>1
    <3>2. CASE n # k + 1
      <4>1. n \in 0 .. k /\ (n # 0 => n - 1 \in 0 .. k)
          BY <2>2, <3>2
      <4>2. g[n] = IF n = 0 THEN s ELSE After(g[n - 1], n)
          BY <2>1, <4>1
      <4> QED  BY <2>3, <3>2, <4>1, <4>2
    <3> QED  BY <3>1, <3>2
  <2>5. h = f
      BY <2>4
  <2>6. Reads(h, k + 1)
      BY <2>5
  <2> HIDE DEF h, Reads
  <2> QED  BY <2>2, <2>6
<1>5. N \in S
  <2> HIDE DEF S
  <2>1. 0 .. N \subseteq S
      BY <1>1, <1>3, <1>4, UpTo
  <2> QED  BY <1>1, <2>1
<1>6. Reads(read, N)
  <2> HIDE DEF Reads
  <2>1. \E g : Reads(g, N)
      BY <1>5
  <2> QED  BY <2>1
<1>7. /\ read = [n \in 0 .. N |-> IF n = 0 THEN s ELSE After(read[n - 1], n)]
      /\ MixVoices(s, E) = read[N]
    BY <1>2, <1>6
<1> HIDE DEF read
<1> QED  BY <1>7 DEF N, After


\* libxmp_mixer_softmixer
LEMMA MixVoicesLegal ==
    ASSUME NEW s, Good(s), NEW E
    PROVE  Legal(s, MixVoices(s, E))
<1> DEFINE N == MaxVoc
           u == MixVoices(s, E)
<1>1. PICK g : /\ g = [n \in 0 .. N |-> IF n = 0 THEN s
                                        ELSE IF n - 1 \in E
                                        THEN ReachesEnd(g[n - 1], n - 1)
                                        ELSE g[n - 1]]
               /\ u = g[N]
    BY MixVoicesRecurs
<1> DEFINE S == {n \in 0 .. N : Legal(s, g[n])}
<1>2. N \in Nat
    BY Sizes
<1>3. 0 \in S
  <2>1. 0 \in 0 .. N
      BY <1>2
  <2>2. g[0] = s
    <3> HIDE DEF N
    <3> QED  BY <1>1, <2>1
  <2> QED  BY <2>1, <2>2, LegalReflexive
<1>4. ASSUME NEW n \in 0 .. N - 1, n \in S  PROVE n + 1 \in S
  <2> DEFINE t == g[n]
             w == g[n + 1]
  <2>1. n \in Voices /\ n + 1 \in 0 .. N /\ n + 1 # 0 /\ (n + 1) - 1 = n
      BY <1>2 DEF Voices
  <2>2. w = IF n \in E THEN ReachesEnd(t, n) ELSE t
    <3> HIDE DEF N, S
    <3> QED  BY <1>1, <2>1
  <2>3. Legal(s, t)
      BY <1>4
  <2> HIDE DEF t, w
  <2>4. Legal(t, w)
      BY <2>1, <2>2, <2>3, ReachesEndLegal, LegalReflexive DEF Legal
  <2>5. Legal(s, w)
      BY <2>3, <2>4, LegalTransitive
  <2> QED  BY <2>1, <2>5 DEF w
<1>5. N \in S
  <2> HIDE DEF S, N
  <2>1. 0 .. N \subseteq S
      BY <1>2, <1>3, <1>4, UpTo
  <2> QED  BY <1>2, <2>1
<1> HIDE DEF u
<1>6. Legal(s, u)
    BY <1>1, <1>5
<1> QED  BY <1>6 DEF u

-----------------------------------------------------------------------------
(* The invariant                                                           *)

NotesInv ==
    /\ song \in Songs /\ frame \in Nat /\ at \in Phases
    /\ Good(Here) /\ DelaysStayInRow

\* Nothing sounds yet, or any more.
LEMMA SilenceIsGood ==
    LET s == [virt |-> EmptyPool, voice |-> Silence, xc |-> ResetChannels]
    IN  Good(s) /\ \A c \in Channels : s.xc[c].delay = 0
<1> DEFINE s == [virt |-> EmptyPool, voice |-> Silence, xc |-> ResetChannels]
<1>1. PoolInv(EmptyPool) /\ ActsFit(EmptyPool) /\ \A v \in Voices : EmptyPool.act[v] = CUT
    BY EmptyPoolInv DEF ActsFit, EmptyPool
<1>2. \A v \in Voices : EmptyPool.chn[v] = FREE
    BY DEF EmptyPool
<1>3. /\ XcOK(ResetXc) /\ ResetXc.delay = 0 /\ ResetXc.flags = {}
      /\ ResetXc.notes = {}
  <2>1. IsEvent(NoEvent)
      BY DEF IsEvent, IsEffect, NoEvent
  <2> QED  BY <2>1 DEF XcOK, ResetXc
<1>4. /\ {"smp", "queue"} \subseteq DOMAIN EmptyVoice /\ EmptyVoice.queue = NoQueue
    BY DEF EmptyVoice
<1>5. /\ DOMAIN ResetChannels = Channels /\ \A c \in Channels : ResetChannels[c] = ResetXc
      /\ DOMAIN Silence = Voices /\ \A v \in Voices : Silence[v] = EmptyVoice
    BY DEF ResetChannels, Silence
<1>6. /\ {"virt", "voice", "xc"} \subseteq DOMAIN s
      /\ s.virt = EmptyPool /\ s.voice = Silence /\ s.xc = ResetChannels
    OBVIOUS
<1> HIDE DEF s
<1>7. StateOK(s)
    BY <1>1, <1>3, <1>4, <1>5, <1>6 DEF StateOK
<1>8. Quiet(s, Channels)
    BY <1>3, <1>5, <1>6 DEF Quiet, Background
<1>9. Agree(s, Channels)
    BY <1>2, <1>4, <1>5, <1>6, Sizes DEF Agree
<1>10. Good(s) /\ \A c \in Channels : s.xc[c].delay = 0
    BY <1>3, <1>5, <1>6, <1>7, <1>8, <1>9 DEF Good
<1> QED  BY <1>10 DEF s

\* The next state is good when the state it is made of is.
LEMMA BecomesGood ==
    ASSUME NEW u, Good(u), Becomes(u), UNCHANGED song
    PROVE  Good(Here)'
BY DEF Good, StateOK, Quiet, Agree, Quirk, Here, Becomes

\* What the rest of the row has of a delay.
LEMMA PlayedIs ==
    ASSUME at \in Phases
    PROVE  /\ at < 0 \/ at \in Channels \/ at = Mixing \/ at = Done
           /\ \A c \in Channels : c \in Nat /\ ~(Injecting > c) /\ ~(0 > c) /\ Mixing > c /\ Done > c
           /\ Injecting \in Phases /\ 0 \in Phases /\ Mixing \in Phases /\ Done \in Phases
           /\ AfterRow \in Phases /\ \A c \in Channels : ~(AfterRow > c)
           /\ at \in Channels => /\ at + 1 \in Phases /\ ~(at > at) /\ at + 1 > at
                                 /\ \A c \in Channels \ {at} : at > c <=> at + 1 > c
BY Sizes DEF Phases, Injecting, Mixing, Done, Channels, AfterRow

\* At the start of a row every delay is whole.
LEMMA RowStarts ==
    ASSUME NEW u, \A c \in Channels : Fresh(u.xc[c]) /\ XcOK(u.xc[c]), Becomes(u), frame' = 0,
           UNCHANGED song, \A c \in Channels : ~(at' > c)
    PROVE  DelaysStayInRow'
<1>1. ASSUME NEW c \in Channels, xc'[c].delay > 0
      PROVE  /\ DelayOf(xc'[c].event) > 0
             /\ xc'[c].delay + (frame' + (IF at' > c THEN 1 ELSE 0)) = DelayOf(xc'[c].event) + 1
  <2>1. xc'[c] = u.xc[c]
      BY DEF Becomes
  <2>2. xc'[c].delay \in Nat /\ ~(at' > c)
      BY <2>1 DEF XcOK
  <2> QED  BY <1>1, <2>1, <2>2 DEF Fresh
<1> QED  BY <1>1 DEF DelaysStayInRow, DelayOf

\* Within a row a delay that is kept goes on being counted.
LEMMA RowGoesOn ==
    ASSUME NEW u, Keeps(Here, u), \A c \in Channels : XcOK(u.xc[c]), Becomes(u),
           UNCHANGED song, DelaysStayInRow,
           \A c \in Channels : frame' + (IF at' > c THEN 1 ELSE 0)
                                 = frame + (IF at > c THEN 1 ELSE 0)
    PROVE  DelaysStayInRow'
<1>1. ASSUME NEW c \in Channels, xc'[c].delay > 0
      PROVE  /\ DelayOf(xc'[c].event) > 0
             /\ xc'[c].delay + (frame' + (IF at' > c THEN 1 ELSE 0)) = DelayOf(xc'[c].event) + 1
  <2>1. xc'[c] = u.xc[c]
      BY DEF Becomes
  <2>2. xc'[c].delay # 0
      BY <1>1, <2>1 DEF XcOK
  <2>3. xc'[c].delay = xc[c].delay /\ xc'[c].event = xc[c].event
      BY <2>1, <2>2 DEF Keeps, Here
  <2>4. /\ DelayOf(xc[c].event) > 0
        /\ xc[c].delay + (frame + (IF at > c THEN 1 ELSE 0)) = DelayOf(xc[c].event) + 1
      BY <1>1, <2>3 DEF DelaysStayInRow
  <2> QED  BY <2>3, <2>4
<1> QED  BY <1>1 DEF DelaysStayInRow, DelayOf

LEMMA NotesInitGood ==
    ASSUME NotesInit  PROVE NotesInv
<1>1. Good(Here) /\ \A c \in Channels : xc[c].delay = 0
    BY SilenceIsGood DEF NotesInit, Here
<1>2. frame \in Nat
    BY SpeedAssumption DEF NotesInit
<1>3. at \in Phases
    BY Sizes DEF NotesInit, Phases, Done, Injecting
<1> QED  BY <1>1, <1>2, <1>3 DEF NotesInit, NotesInv, DelaysStayInRow

LEMMA NotesStepGood ==
    ASSUME NnaNeedsVirtual, NotesInv, [NotesNext]_noteVars
    PROVE  NotesInv'
<1>1. /\ song \in Songs /\ frame \in Nat /\ at \in Phases /\ Good(Here)
      /\ DelaysStayInRow /\ IsSong(song)
    BY SongsAssumption DEF NotesInv
<1>2. ASSUME NEW u, Good(u)  PROVE \A c \in Channels : XcOK(u.xc[c])
    BY <1>2 DEF Good, StateOK
<1>3. ASSUME NEW u, Legal(Here, u), Becomes(u), UNCHANGED song, frame' \in Nat,
             at' \in Phases,
             \A c \in Channels : frame' + (IF at' > c THEN 1 ELSE 0)
                                   = frame + (IF at > c THEN 1 ELSE 0)
      PROVE  NotesInv'
  <2>1. Good(u) /\ Keeps(Here, u)
      BY <1>3 DEF Legal
  <2> QED  BY <1>1, <1>2, <1>3, <2>1, BecomesGood, RowGoesOn DEF NotesInv
<1>4. ASSUME NEW s, Good(s), NEW row \in Rows, Becomes(ReadRow(s, row)),
             UNCHANGED song, frame' = 0, at' = AfterRow
      PROVE  NotesInv'
  <2> DEFINE u == ReadRow(s, row)
  <2>1. Good(u) /\ \A c \in Channels : Fresh(u.xc[c])
      BY <1>1, <1>4, ReadRowGood
  <2> HIDE DEF u
  <2>2. at' \in Phases /\ \A c \in Channels : ~(at' > c)
      BY <1>1, <1>4, PlayedIs
  <2>3. Good(Here)' /\ DelaysStayInRow'
      BY <1>2, <1>4, <2>1, <2>2, BecomesGood, RowStarts DEF u
  <2> QED  BY <1>1, <1>4, <2>2, <2>3 DEF NotesInv
<1>5. CASE NextFrame
  <2>1. Legal(Here, ForgetKeyOff(Here))
      BY <1>1, ForgetKeyOffLegal
  <2>2. CASE frame + 1 < ticks
    <3>1. /\ Becomes(ForgetKeyOff(Here)) /\ frame' = frame + 1 /\ at' = AfterRow
          /\ at = Done /\ UNCHANGED song
        BY <1>5, <2>2 DEF NextFrame
    <3>2. \A c \in Channels : ~(at' > c) /\ at > c
        BY <1>1, <3>1, PlayedIs
    <3>3. at' \in Phases
        BY <1>1, <3>1, PlayedIs
    <3>4. \A c \in Channels : frame' + (IF at' > c THEN 1 ELSE 0)
                                = frame + (IF at > c THEN 1 ELSE 0)
        BY <1>1, <3>1, <3>2
    <3> QED  BY <1>1, <1>3, <2>1, <3>1, <3>3, <3>4
  <2>3. CASE ~(frame + 1 < ticks)
    <3>1. PICK row \in Rows : Becomes(ReadRow(ForgetKeyOff(Here), row))
        BY <1>5, <2>3 DEF NextFrame
    <3>2. frame' = 0 /\ at' = AfterRow /\ UNCHANGED song
        BY <1>5, <2>3 DEF NextFrame
    <3> QED  BY <1>4, <2>1, <3>1, <3>2 DEF Legal
  <2> QED  BY <2>2, <2>3
<1>6. CASE Reposition
  <2>1. virt \in PoolType
      BY <1>1 DEF Good, StateOK, PoolInv, Here
  <2>2. VirtReset(virt) = EmptyPool
      BY <2>1, VirtResetEmpties
  <2> DEFINE s == [virt |-> EmptyPool, voice |-> Silence, xc |-> ResetChannels]
  <2>3. PICK row \in Rows : Becomes(ReadRow(s, row))
      BY <1>6, <2>2 DEF Reposition
  <2>4. Good(s)
      BY SilenceIsGood
  <2> HIDE DEF s
  <2> QED  BY <1>4, <1>6, <2>3, <2>4 DEF Reposition
<1>7. CASE Inject
  <2>1. PICK M \in SUBSET Tracks, row \in Rows : Becomes(ReadInjected(Here, M, row))
      BY <1>7 DEF Inject
  <2> DEFINE u == ReadInjected(Here, M, row)
  <2>2. Legal(Here, u)
      BY <1>1, ReadInjectedLegal
  <2> HIDE DEF u
  <2>3. at = Injecting /\ at' = 0 /\ UNCHANGED <<song, frame, ticks>>
      BY <1>7 DEF Inject
  <2>4. at' \in Phases /\ \A c \in Channels : ~(at' > c) /\ ~(at > c)
      BY <1>1, <2>3, PlayedIs
  <2> QED  BY <1>1, <1>3, <2>1, <2>2, <2>3, <2>4 DEF u
<1>8. CASE Play
  <2>1. PICK u \in PlayChannel(Here, at) : Becomes(u)
      BY <1>8 DEF Play
  <2>2. at \in Channels /\ at' = at + 1 /\ UNCHANGED <<song, frame, ticks>>
      BY <1>8 DEF Play
  <2>3. Good(u) /\ Ticked(Here, u, at)
    <3> DEFINE c == at
    <3>1. c \in Channels /\ u \in PlayChannel(Here, c)
        BY <2>1, <2>2
    <3> HIDE DEF c
    <3>2. Good(u) /\ Ticked(Here, u, c)
        BY <1>1, <3>1, PlayChannelGood
    <3> QED  BY <3>2 DEF c
  <2>4. at' \in Phases
      BY <1>1, <2>2, PlayedIs
  <2>5. DelaysStayInRow'
    <3>1. ASSUME NEW c \in Channels, xc'[c].delay > 0
          PROVE  /\ DelayOf(xc'[c].event) > 0
                 /\ xc'[c].delay + (frame' + (IF at' > c THEN 1 ELSE 0))
                      = DelayOf(xc'[c].event) + 1
      <4>1. xc'[c] = u.xc[c] /\ XcOK(u.xc[c])
          BY <1>2, <2>1, <2>3 DEF Becomes
      <4>2. xc'[c].delay # 0 /\ XcOK(xc[c])
          BY <1>1, <1>2, <3>1, <4>1 DEF XcOK, Here
      <4>3. /\ xc'[c].event = xc[c].event
            /\ xc'[c].delay = xc[c].delay - (IF c = at THEN 1 ELSE 0)
          BY <2>3, <4>1, <4>2 DEF Ticked, Here, XcOK
      <4>4. xc[c].delay > 0 /\ xc[c].delay \in Nat
          BY <3>1, <4>1, <4>2, <4>3 DEF XcOK
      <4>5. /\ DelayOf(xc[c].event) > 0
            /\ xc[c].delay + (frame + (IF at > c THEN 1 ELSE 0)) = DelayOf(xc[c].event) + 1
          BY <1>1, <4>4 DEF DelaysStayInRow
      <4>6. /\ c = at => ~(at > c) /\ at' > c
            /\ c # at => (at > c <=> at' > c)
          BY <1>1, <2>2, PlayedIs
      <4> QED  BY <1>1, <2>2, <4>3, <4>4, <4>5, <4>6
    <3> QED  BY <2>2, <3>1 DEF DelaysStayInRow, DelayOf
  <2>6. Good(Here)'
      BY <2>1, <2>2, <2>3, BecomesGood
  <2> QED  BY <1>1, <2>2, <2>4, <2>5, <2>6 DEF NotesInv
<1>9. CASE Mix
  <2>1. PICK E \in SUBSET Voices : Becomes(MixVoices(Here, E))
      BY <1>9 DEF Mix
  <2> DEFINE u == MixVoices(Here, E)
  <2>2. Legal(Here, u)
      BY <1>1, MixVoicesLegal
  <2> HIDE DEF u
  <2>3. at = Mixing /\ at' = Done /\ UNCHANGED <<song, frame, ticks>>
      BY <1>9 DEF Mix
  <2>4. at' \in Phases /\ \A c \in Channels : at' > c /\ at > c
      BY <1>1, <2>3, PlayedIs
  <2> QED  BY <1>1, <1>3, <2>1, <2>2, <2>3, <2>4 DEF u
<1>10. CASE UNCHANGED noteVars
  <2>1. Becomes(Here) /\ UNCHANGED <<song, frame, at>>
      BY <1>10 DEF noteVars, Becomes, Here
  <2>2. Legal(Here, Here)
      BY <1>1, LegalReflexive
  <2> QED  BY <1>1, <1>3, <2>1, <2>2
<1> QED  BY <1>5, <1>6, <1>7, <1>8, <1>9, <1>10 DEF NotesNext

LEMMA NotesInvariantHolds ==
    ASSUME NnaNeedsVirtual
    PROVE  NotesSpec => []NotesInv
<1>1. NotesInit => NotesInv
    BY NotesInitGood
<1>2. NotesInv /\ [NotesNext]_noteVars => NotesInv'
    BY NotesStepGood
<1> QED  BY <1>1, <1>2, PTL DEF NotesSpec

-----------------------------------------------------------------------------
(* The theorems                                                            *)

\* A voice plays the sample its channel says, also for a note that was pushed
\* to the background with a copy of its channel, cut as a duplicate, or moved
\* (virt_setpatch, copy_channel): whatever is played, for any module whose
\* samples are not swapped.
THEOREM SampleAlwaysAgrees ==
    ASSUME NnaNeedsVirtual
    PROVE  NotesSpec => []SampleAgrees
<1>1. NotesInv => SampleAgrees
  <2> SUFFICES ASSUME NotesInv, ~Quirk("PROTRACK"), NEW c \in Channels, Sounds(c)
               PROVE  voice[virt.map[c]].smp = xc[c].smp
      BY DEF SampleAgrees
  <2>1. StateOK(Here) /\ Agree(Here, Channels)
      BY DEF NotesInv, Good
  <2>2. virt.map[c] \in Voices /\ virt.chn[virt.map[c]] = c
      BY <2>1, MappedPlays DEF Sounds, Here
  <2> QED  BY <2>1, <2>2 DEF Agree, Here
<1> QED  BY <1>1, NotesInvariantHolds, PTL

\* No row works on a note in the background, and one that has ended has given
\* its voice back when the mixer runs (play_channel, process_volume).
THEOREM BackgroundAlwaysQuiet ==
    ASSUME NnaNeedsVirtual
    PROVE  NotesSpec => []BackgroundIsQuiet
<1>1. NotesInv => BackgroundIsQuiet
  <2> SUFFICES ASSUME NotesInv, NEW c \in Background, Sounds(c)
               PROVE  /\ xc[c].delay = 0 /\ xc[c].flags = {}
                      /\ at = Mixing => "END" \notin xc[c].notes
      BY DEF BackgroundIsQuiet
  <2>1. StateOK(Here) /\ Quiet(Here, Channels) /\ c \in Channels
      BY DEF NotesInv, Good, Background
  <2>2. virt.map[c] \in Voices /\ virt.chn[virt.map[c]] = c
      BY <2>1, MappedPlays DEF Sounds, Here
  <2> QED  BY <2>1, <2>2 DEF Quiet, Here
<1> QED  BY <1>1, NotesInvariantHolds, PTL

\* A delayed event is counted down in the row it belongs to, through pattern
\* delays, position calls and injected events (read_row, play_channel).
THEOREM DelaysAlwaysStayInRow ==
    ASSUME NnaNeedsVirtual
    PROVE  NotesSpec => []DelaysStayInRow
<1>1. NotesInv => DelaysStayInRow
    BY DEF NotesInv
<1> QED  BY <1>1, NotesInvariantHolds, PTL

\* Impulse Tracker: a note that nobody releases does not pass its sustain loop
\* (update_envelope_it), whatever retriggers, cuts and key offs are due.
THEOREM SustainAlwaysHolds ==
    ASSUME NnaNeedsVirtual
    PROVE  NotesSpec => SustainHolds
<1>1. NotesInv /\ [NotesNext]_noteVars => [\A c \in Channels : StaysInSustain(c)]_noteVars
  <2> SUFFICES ASSUME NotesInv, NotesNext, NEW c \in Channels  PROVE StaysInSustain(c)
      OBVIOUS
  <2> DEFINE x   == xc[c]
             env == Ins(x.ins).env
             end == TickOf(env, env.sue)
  <2> SUFFICES ASSUME song.reader = "IT", at = c, x.delay # 1, ValidIns(x.ins),
                      {"ON", "SUS"} \subseteq env.flg, TickOf(env, env.sus) \in 0 .. end,
                      ~Released(x, Cstat(Here, c)), ~Released(xc'[c], Cstat(Here, c)'),
                      x.idx <= end
               PROVE  xc'[c].idx <= end
      BY DEF StaysInSustain
  <2>1. IsSong(song) /\ frame \in Nat /\ Good(Here) /\ at \in Phases
      BY SongsAssumption DEF NotesInv
  <2>2. at # Done /\ at # Injecting /\ at # Mixing
      BY Sizes DEF Injecting, Mixing, Done, Channels
  <2>3. PICK u \in PlayChannel(Here, c) : Becomes(u)
      BY <2>2 DEF NotesNext, NextFrame, Reposition, Inject, Play, Mix
  <2>4. x = Here.xc[c] /\ xc'[c] = u.xc[c]
      BY <2>3 DEF Here, Becomes
  <2>5. "ENV_RELEASE" \notin u.xc[c].notes /\ Cstat(Here, c) # OFF
      BY <2>4 DEF Released
  <2>6. Has(env, "ON") /\ Has(env, "SUS")
      BY DEF Has
  <2> HIDE DEF x, env
  <2>7. env = Ins(Here.xc[c].ins).env
      BY <2>4 DEF env
  <2>8. u.xc[c].idx <= end
      BY <2>1, <2>3, <2>4, <2>5, <2>6, <2>7, PlayChannelHolds
  <2> QED  BY <2>4, <2>8
<1> HIDE DEF StaysInSustain
<1> QED  BY <1>1, NotesInvariantHolds, PTL DEF NotesSpec, SustainHolds

\* A background note that was told to fade, or was released and has no envelope
\* to wait for, loses its step of the fade in each of its turns and has some left,
\* or loses its voice (play_channel, process_volume): dying notes end by this.
THEOREM EveryTurnAlwaysFades ==
    ASSUME NnaNeedsVirtual
    PROVE  NotesSpec => EveryTurnFades
<1>1. NotesInv /\ [NotesNext]_noteVars => [\A c \in Background : DyingFades(c)]_noteVars
  <2> SUFFICES ASSUME NotesInv, NotesNext, NEW c \in Background  PROVE DyingFades(c)
      OBVIOUS
  <2> SUFFICES ASSUME song.reader = "IT", at = c, Dying(c), ValidIns(xc[c].ins), Sounds(c)'
               PROVE  /\ Dying(c)' /\ xc'[c].fadeout = xc[c].fadeout - xc[c].fade
                      /\ xc'[c].fadeout > 0
      BY DEF DyingFades
  <2>1. IsSong(song) /\ Good(Here) /\ at \in Phases /\ c \in Channels
      BY SongsAssumption DEF NotesInv, Background
  <2>2. at # Done /\ at # Injecting /\ at # Mixing
      BY <2>1, Sizes DEF Injecting, Mixing, Done, Channels
  <2>3. PICK u \in PlayChannel(Here, c) : Becomes(u) /\ UNCHANGED song
      BY <2>2 DEF NotesNext, NextFrame, Reposition, Inject, Play, Mix
  <2>4. /\ Here.virt = virt /\ Here.xc = xc
        /\ virt' = u.virt /\ xc' = u.xc
      BY <2>3 DEF Here, Becomes
  <2>5. Here.virt.map[c] # FREE /\ u.virt.map[c] # FREE /\ Told(Here.xc[c])
      BY <2>4 DEF Dying, Sounds, Told
  <2>6. Told(u.xc[c]) /\ Fallen(Here.xc[c], u.xc[c])
      BY <2>1, <2>3, <2>4, <2>5, PlayChannelFades
  <2>7. Dying(c)'
      BY <2>3, <2>4, <2>5, <2>6 DEF Dying, Sounds, Told, Ins
  <2> QED  BY <2>4, <2>6, <2>7 DEF Fallen
<1> HIDE DEF DyingFades
<1> QED  BY <1>1, NotesInvariantHolds, PTL DEF NotesSpec, EveryTurnFades
=============================================================================
