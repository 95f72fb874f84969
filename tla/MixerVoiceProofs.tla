--------------------------- MODULE MixerVoiceProofs ---------------------------
(***************************************************************************)
(* For samples of every length and shape, every step and every size of a   *)
(* tick: the mixer reads nothing before a sample, restores what it writes  *)
(* into one, does not sound a voice that is paused, and swaps samples at   *)
(* the start of a loop.                                                    *)
(***************************************************************************)
EXTENDS MixerVoice, TLAPS

-----------------------------------------------------------------------------
(* The invariant                                                           *)

\* struct mixer_voice, as far as it is kept here.
VoiceRec ==
    [used : {TRUE}, smp : Samples \cup {NoSample}, pos : Int, start : Int, end : Int,
     looped : BOOLEAN, queued : Samples \cup {NoSample, NotQueued}, paused : BOOLEAN,
     reverse : BOOLEAN, bidir : BOOLEAN, release : BOOLEAN, active : BOOLEAN]

\* The ends adjust_voice_end sets.
StartOf(v) ==
    IF SustainLoop(v) THEN shape[v.smp].sus
    ELSE IF shape[v.smp].loop # "off" THEN shape[v.smp].lps ELSE 0
EndOf(v) ==
    IF SustainLoop(v) THEN shape[v.smp].sue
    ELSE IF shape[v.smp].loop # "off" /\ ~(shape[v.smp].full /\ ~v.looped)
    THEN shape[v.smp].lpe ELSE shape[v.smp].len

Settled(v) == v.start = StartOf(v) /\ v.end = EndOf(v)

\* A voice with a sample, its ends within the sample.
HasEnds(v) ==
    /\ v \in VoiceRec
    /\ v.smp \in Samples
    /\ 0 <= v.start /\ v.start < v.end /\ v.end <= shape[v.smp].len

ShapesOK == shape \in [Samples -> Shapes]

-----------------------------------------------------------------------------
(* Numbers                                                                 *)

\* What `ceil` promises: n steps reach the end, one less does not.
LEMMA Ceiling ==
    ASSUME NEW x \in Nat \ {0}, NEW k \in Nat \ {0}
    PROVE  LET n == (x + k - 1) \div k
           IN  n \in Nat \ {0} /\ (n - 1) * k < x /\ x <= n * k
<1> DEFINE n == (x + k - 1) \div k
<1>1. n \in Int /\ k * n <= x + k - 1 /\ x + k - 1 < k * (n + 1)
    OBVIOUS
<1> HIDE DEF n
<1>2. k * n = n * k /\ k * (n + 1) = n * k + k /\ (n - 1) * k = n * k - k
    BY <1>1
<1>3. (n - 1) * k < x /\ x <= n * k
    BY <1>1, <1>2
<1>4. n > 0
    BY <1>1, <1>3
<1> QED  BY <1>1, <1>3, <1>4 DEF n

\* Fewer steps do not go further.
LEMMA Monotone ==
    ASSUME NEW a \in Int, NEW b \in Int, NEW k \in Nat, a <= b
    PROVE  a * k <= b * k
<1>1. b * k - a * k = (b - a) * k /\ b - a \in Nat
    OBVIOUS
<1>2. (b - a) * k \in Nat
    BY <1>1
<1> QED  BY <1>1, <1>2

-----------------------------------------------------------------------------
(* Loops                                                                   *)

\* A shape of the model, its ends within the sample.
LEMMA ShapeFields ==
    ASSUME ShapesOK, NEW smp \in Samples
    PROVE  LET s == shape[smp]
           IN  /\ s.len \in Nat /\ s.len > 0
               /\ s.lps \in Int /\ s.lpe \in Int /\ s.sus \in Int /\ s.sue \in Int
               /\ s.full \in BOOLEAN
               /\ s.full => s.loop # "off" /\ s.lps = 0 /\ s.lpe < s.len
               /\ s.loop # "off" => 0 <= s.lps /\ s.lps < s.lpe /\ s.lpe <= s.len
               /\ s.sustain # "off" => 0 <= s.sus /\ s.sus < s.sue /\ s.sue <= s.len
<1>1. shape[smp] \in Shapes
    BY DEF ShapesOK
<1> QED  BY <1>1, ShapesAssumption

\* The ends lie in the sample.
LEMMA EndsInSample ==
    ASSUME ShapesOK, NEW v \in VoiceRec, v.smp \in Samples
    PROVE  /\ StartOf(v) \in Int /\ EndOf(v) \in Int
           /\ 0 <= StartOf(v) /\ StartOf(v) < EndOf(v) /\ EndOf(v) <= shape[v.smp].len
<1> DEFINE s == shape[v.smp]
<1>1. /\ s.len \in Nat /\ s.len > 0
      /\ s.lps \in Int /\ s.lpe \in Int /\ s.sus \in Int /\ s.sue \in Int
      /\ s.full \in BOOLEAN
      /\ s.full => s.loop # "off" /\ s.lps = 0 /\ s.lpe < s.len
      /\ s.loop # "off" => 0 <= s.lps /\ s.lps < s.lpe /\ s.lpe <= s.len
      /\ s.sustain # "off" => 0 <= s.sus /\ s.sus < s.sue /\ s.sue <= s.len
    BY ShapeFields
<1> QED  BY <1>1 DEF StartOf, EndOf, SustainLoop

\* What adjust_voice_end sets and what it leaves.
LEMMA AdjustEndFields ==
    ASSUME ShapesOK, NEW v \in VoiceRec, v.smp \in Samples
    PROVE  LET w == AdjustEnd(v)
           IN  /\ w \in VoiceRec
               /\ w.smp = v.smp /\ w.pos = v.pos /\ w.looped = v.looped
               /\ w.queued = v.queued /\ w.paused = v.paused
               /\ w.reverse = v.reverse /\ w.release = v.release
               /\ w.active = v.active
               /\ w.start = StartOf(v) /\ w.end = EndOf(v)
               /\ HasEnds(w) /\ Settled(w)
<1> DEFINE w == AdjustEnd(v)
           s == shape[v.smp]
<1>1. \E b \in BOOLEAN :
         w = [v EXCEPT !.start = StartOf(v), !.end = EndOf(v), !.bidir = b]
  <2>1. CASE SustainLoop(v)
      BY <2>1 DEF AdjustEnd, StartOf, EndOf
  <2>2. CASE ~SustainLoop(v) /\ s.loop # "off" /\ s.full /\ ~v.looped
      BY <2>2 DEF AdjustEnd, StartOf, EndOf
  <2>3. CASE ~SustainLoop(v) /\ s.loop # "off" /\ ~(s.full /\ ~v.looped)
      BY <2>3 DEF AdjustEnd, StartOf, EndOf
  <2>4. CASE ~SustainLoop(v) /\ s.loop = "off"
    <3>1. ~(SustainLoop(v) \/ s.loop # "off")
        BY <2>4
    <3> QED  BY <2>4, <3>1 DEF AdjustEnd, StartOf, EndOf
  <2> QED  BY <2>1, <2>2, <2>3, <2>4
<1>2. PICK b \in BOOLEAN :
         w = [v EXCEPT !.start = StartOf(v), !.end = EndOf(v), !.bidir = b]
    BY <1>1
<1>3. /\ StartOf(v) \in Int /\ EndOf(v) \in Int
      /\ 0 <= StartOf(v) /\ StartOf(v) < EndOf(v) /\ EndOf(v) <= shape[v.smp].len
    BY EndsInSample
<1> HIDE DEF w
<1>4. /\ w \in VoiceRec
      /\ w.smp = v.smp /\ w.pos = v.pos /\ w.looped = v.looped
      /\ w.queued = v.queued /\ w.paused = v.paused
      /\ w.reverse = v.reverse /\ w.release = v.release
      /\ w.active = v.active
      /\ w.start = StartOf(v) /\ w.end = EndOf(v)
    BY <1>2, <1>3 DEF VoiceRec
<1>5. HasEnds(w)
    BY <1>3, <1>4 DEF HasEnds
<1>6. StartOf(w) = StartOf(v) /\ EndOf(w) = EndOf(v)
    BY <1>4 DEF StartOf, EndOf, SustainLoop
<1>7. Settled(w)
    BY <1>4, <1>6 DEF Settled
<1> QED  BY <1>4, <1>5, <1>7 DEF w

\* What the loops and positions of a voice do not touch.
Keeps(v, w) ==
    /\ w.smp = v.smp /\ w.queued = v.queued /\ w.paused = v.paused
    /\ w.release = v.release /\ w.active = v.active

\* A loop is turned around at once: the new position is not past the sample's
\* end, and not before its start unless the voice plays backwards.
LEMMA RepositionFields ==
    ASSUME ShapesOK, NEW v, HasEnds(v)
    PROVE  LET w == Reposition(v)
           IN  /\ HasEnds(w) /\ Keeps(v, w)
               /\ w.pos <= shape[w.smp].len + 1
               /\ Settled(v) => Settled(w)
               /\ Settled(v) /\ Stuck(v) /\ ~w.reverse => 0 <= w.pos
<1> DEFINE l == [v EXCEPT !.looped = TRUE]
           u == IF v.looped THEN v ELSE AdjustEnd(l)
           t == Turned(u)
           w == Reposition(v)
           len == shape[v.smp].len
<1>0. v \in VoiceRec /\ v.smp \in Samples
    BY DEF HasEnds
<1>1. l \in VoiceRec /\ l.smp = v.smp /\ l.pos = v.pos /\ l.looped = TRUE
      /\ l.reverse = v.reverse /\ Keeps(v, l)
    BY <1>0 DEF VoiceRec, Keeps
<1>3. w = [t EXCEPT !.pos = Smaller(@, len + 1)]
    BY DEF Reposition
<1> HIDE DEF l
<1>2. /\ u \in VoiceRec /\ HasEnds(u) /\ Keeps(v, u)
      /\ u.pos = v.pos /\ u.reverse = v.reverse
      /\ Settled(v) => Settled(u) /\ u.start = v.start /\ u.end <= v.end
  <2>1. CASE v.looped
    <3>1. u = v
        BY <2>1
    <3>2. v.end \in Int /\ v.end <= v.end
        BY <1>0 DEF VoiceRec
    <3> HIDE DEF u
    <3> QED  BY <1>0, <3>1, <3>2 DEF Keeps
  <2>2. CASE ~v.looped
    <3> DEFINE a == AdjustEnd(l)
    <3>1. /\ a \in VoiceRec
          /\ a.smp = l.smp /\ a.pos = l.pos /\ a.looped = l.looped
          /\ a.queued = l.queued /\ a.paused = l.paused
          /\ a.reverse = l.reverse /\ a.release = l.release
          /\ a.active = l.active
          /\ a.start = StartOf(l) /\ a.end = EndOf(l)
          /\ HasEnds(a) /\ Settled(a)
        BY <1>0, <1>1, AdjustEndFields
    <3>2. StartOf(l) = StartOf(v) /\ EndOf(l) <= EndOf(v)
      <4> DEFINE s == shape[v.smp]
      <4>1. /\ s.len \in Nat /\ s.len > 0
            /\ s.lps \in Int /\ s.lpe \in Int /\ s.sus \in Int /\ s.sue \in Int
            /\ s.full \in BOOLEAN
            /\ s.full => s.loop # "off" /\ s.lps = 0 /\ s.lpe < s.len
            /\ s.loop # "off" => 0 <= s.lps /\ s.lps < s.lpe /\ s.lpe <= s.len
            /\ s.sustain # "off" => 0 <= s.sus /\ s.sus < s.sue /\ s.sue <= s.len
          BY <1>0, ShapeFields
      <4>2. l.release = v.release
          BY <1>1 DEF Keeps
      <4> QED  BY <1>1, <2>2, <4>1, <4>2 DEF StartOf, EndOf, SustainLoop
    <3>3. u = a
        BY <2>2
    <3> HIDE DEF a, u
    <3> QED  BY <1>1, <3>1, <3>2, <3>3 DEF Settled, Keeps
  <2> QED  BY <1>0, <2>1, <2>2 DEF VoiceRec
<1> HIDE DEF u
<1>4. /\ u.pos \in Int /\ u.start \in Int /\ u.end \in Int
      /\ 0 <= u.start /\ u.start < u.end
      /\ u.reverse \in BOOLEAN /\ u.bidir \in BOOLEAN
      /\ v.pos \in Int /\ v.start \in Int /\ v.end \in Int
    BY <1>0, <1>2 DEF HasEnds, VoiceRec
<1>5. \E p \in Int, r \in BOOLEAN :
         /\ t = [u EXCEPT !.reverse = r, !.pos = p]
         /\ Settled(v) /\ Stuck(v) /\ ~r => 0 <= p
  <2>1. CASE ~u.bidir
    <3> DEFINE p == IF u.reverse THEN u.pos + (u.end - u.start)
                                 ELSE u.pos - (u.end - u.start)
    <3>1. t = [u EXCEPT !.reverse = u.reverse, !.pos = p]
        BY <1>2, <2>1 DEF Turned, VoiceRec
    <3>2. p \in Int
        BY <1>4
    <3>3. ASSUME Settled(v), Stuck(v), ~u.reverse  PROVE 0 <= p
        BY <1>2, <1>4, <3>3 DEF Stuck
    <3> QED  BY <1>4, <3>1, <3>2, <3>3
  <2>2. CASE u.bidir
    <3> DEFINE p == IF u.reverse THEN u.start * 2 - u.pos
                                 ELSE u.end * 2 - BidirAdjust - u.pos
    <3>1. t = [u EXCEPT !.reverse = ~u.reverse, !.pos = p]
        BY <1>2, <2>2 DEF Turned, VoiceRec
    <3>2. p \in Int
        BY <1>4, MixerAssumption
    <3>3. ASSUME Settled(v), Stuck(v), u.reverse  PROVE 0 <= p
        BY <1>2, <1>4, <3>3 DEF Stuck
    <3> QED  BY <1>4, <3>1, <3>2, <3>3
  <2> QED  BY <1>4, <2>1, <2>2
<1>6. PICK p \in Int, r \in BOOLEAN :
         /\ t = [u EXCEPT !.reverse = r, !.pos = p]
         /\ Settled(v) /\ Stuck(v) /\ ~r => 0 <= p
    BY <1>5
<1> HIDE DEF t, w
<1>7. len \in Nat
    BY <1>0, ShapeFields
<1> HIDE DEF len
<1>8. /\ w = [u EXCEPT !.reverse = r, !.pos = Smaller(p, len + 1)]
      /\ Smaller(p, len + 1) \in Int /\ Smaller(p, len + 1) <= len + 1
      /\ 0 <= p => 0 <= Smaller(p, len + 1)
  <2>1. t.pos = p
      BY <1>2, <1>6 DEF VoiceRec
  <2>2. w = [t EXCEPT !.pos = Smaller(p, len + 1)]
      BY <1>3, <2>1
  <2>3. w = [u EXCEPT !.reverse = r, !.pos = Smaller(p, len + 1)]
      BY <1>2, <1>6, <2>2 DEF VoiceRec
  <2> QED  BY <1>7, <2>3 DEF Smaller
<1>9. /\ w \in VoiceRec /\ w.smp = u.smp /\ w.queued = u.queued
      /\ w.paused = u.paused /\ w.release = u.release /\ w.active = u.active
      /\ w.start = u.start /\ w.end = u.end /\ w.looped = u.looped
      /\ w.reverse = r /\ w.pos = Smaller(p, len + 1)
    BY <1>2, <1>8 DEF VoiceRec
<1>10. Keeps(v, w) /\ u.smp = v.smp
    BY <1>2, <1>9 DEF Keeps
<1>11. HasEnds(w)
    BY <1>2, <1>9 DEF HasEnds
<1>12. Settled(u) => Settled(w)
    BY <1>9 DEF Settled, StartOf, EndOf, SustainLoop
<1> QED  BY <1>2, <1>6, <1>8, <1>9, <1>10, <1>11, <1>12 DEF w, len

\* libxmp_mixer_voicepos leaves the ends in the sample.
LEMMA PositionedFields ==
    ASSUME ShapesOK, NEW v \in VoiceRec, v.smp \in Samples, NEW pos \in Int
    PROVE  /\ HasEnds(Positioned(v, pos)) /\ Keeps(v, Positioned(v, pos))
           /\ pos = 0 /\ ~v.reverse => ~Positioned(v, pos).reverse
<1> DEFINE x == [v EXCEPT !.pos = pos]
           w == AdjustEnd(x)
           e == [w EXCEPT !.pos = w.end]
           r == Positioned(v, pos)
<1>1. r = CASE pos >= w.end -> IF ~w.reverse /\ ActiveLoop(w) THEN Reposition(e) ELSE e
            [] pos < w.end /\ w.reverse /\ pos = 0 -> e
            [] OTHER -> w
    BY DEF Positioned
<1>2. x \in VoiceRec /\ x.smp \in Samples /\ x.reverse = v.reverse /\ Keeps(v, x)
    BY DEF VoiceRec, Keeps
<1> HIDE DEF x
<1>3. /\ w \in VoiceRec
      /\ w.smp = x.smp /\ w.pos = x.pos /\ w.looped = x.looped
      /\ w.queued = x.queued /\ w.paused = x.paused
      /\ w.reverse = x.reverse /\ w.release = x.release
      /\ w.active = x.active
      /\ w.start = StartOf(x) /\ w.end = EndOf(x)
      /\ HasEnds(w) /\ Settled(w)
    BY <1>2, AdjustEndFields
<1>4. Keeps(v, w) /\ w.reverse = v.reverse
    BY <1>2, <1>3 DEF Keeps
<1> HIDE DEF w, r
<1>5. /\ e \in VoiceRec /\ e.smp = w.smp /\ e.start = w.start /\ e.end = w.end
      /\ e.queued = w.queued /\ e.paused = w.paused /\ e.release = w.release
      /\ e.active = w.active /\ e.reverse = w.reverse
    BY <1>3 DEF VoiceRec
<1> HIDE DEF e
<1>6. HasEnds(e) /\ Keeps(v, e)
    BY <1>3, <1>4, <1>5 DEF HasEnds, Keeps
<1>7. HasEnds(Reposition(e)) /\ Keeps(e, Reposition(e))
    BY <1>6, RepositionFields
<1>8. Keeps(v, Reposition(e))
    BY <1>6, <1>7 DEF Keeps
<1>9. r = w \/ r = e \/ r = Reposition(e)
    BY <1>1
<1>10. 0 < w.end /\ w.end \in Int
    BY <1>3 DEF HasEnds, VoiceRec
<1>11. pos = 0 /\ ~v.reverse => r = w
    BY <1>1, <1>4, <1>10
<1> QED  BY <1>3, <1>4, <1>6, <1>7, <1>8, <1>9, <1>11 DEF r

\* libxmp_mixer_setpatch.
LEMMA PatchedFields ==
    ASSUME ShapesOK, NEW v \in VoiceRec, NEW smp \in Samples
    PROVE  LET w == Patched(v, smp)
           IN  /\ HasEnds(w) /\ w.smp = smp /\ w.queued = NotQueued
               /\ ~w.paused /\ ~w.reverse /\ w.release = v.release
<1> DEFINE x == [v EXCEPT !.smp = smp, !.looped = FALSE, !.queued = NotQueued,
                          !.paused = FALSE, !.reverse = FALSE, !.bidir = FALSE,
                          !.active = TRUE]
<1>1. Patched(v, smp) = Positioned(x, 0)
    BY DEF Patched
<1>2. /\ x \in VoiceRec /\ x.smp = smp /\ x.queued = NotQueued
      /\ x.paused = FALSE /\ x.reverse = FALSE /\ x.release = v.release
    BY DEF VoiceRec
<1> HIDE DEF x
<1>3. /\ HasEnds(Positioned(x, 0)) /\ Keeps(x, Positioned(x, 0))
      /\ 0 = 0 /\ ~x.reverse => ~Positioned(x, 0).reverse
    BY <1>2, PositionedFields
<1> QED  BY <1>1, <1>2, <1>3 DEF Keeps

\* A queued sample takes its place at the start of its loop, or at its own.
LEMMA SwappedInFields ==
    ASSUME ShapesOK, NEW v \in VoiceRec, NEW smp \in Samples
    PROVE  LET w == SwappedIn(v, smp)
           IN  /\ HasEnds(w) /\ Settled(w) /\ w.smp = smp
               /\ w.queued = NotQueued /\ ~w.paused /\ ~w.reverse
               /\ w.release = v.release /\ w.pos = StartOf(w)
<1> DEFINE p == Patched(v, smp)
           h == [p EXCEPT !.looped = TRUE]
           a == AdjustEnd(h)
           w == SwappedIn(v, smp)
<1>1. w = [a EXCEPT !.pos = a.start]
    BY DEF SwappedIn, HotSwap
<1>2. /\ HasEnds(p) /\ p.smp = smp /\ p.queued = NotQueued
      /\ ~p.paused /\ ~p.reverse /\ p.release = v.release
    BY PatchedFields
<1>3. p \in VoiceRec
    BY <1>2 DEF HasEnds
<1> HIDE DEF p
<1>4. /\ h \in VoiceRec /\ h.smp = smp /\ h.queued = NotQueued
      /\ ~h.paused /\ ~h.reverse /\ h.release = v.release
    BY <1>2, <1>3 DEF VoiceRec
<1> HIDE DEF h
<1>5. /\ a \in VoiceRec
      /\ a.smp = h.smp /\ a.pos = h.pos /\ a.looped = h.looped
      /\ a.queued = h.queued /\ a.paused = h.paused
      /\ a.reverse = h.reverse /\ a.release = h.release
      /\ a.active = h.active
      /\ a.start = StartOf(h) /\ a.end = EndOf(h)
      /\ HasEnds(a) /\ Settled(a)
    BY <1>4, AdjustEndFields
<1> HIDE DEF a, w
<1>6. /\ w \in VoiceRec /\ w.smp = a.smp /\ w.start = a.start /\ w.end = a.end
      /\ w.queued = a.queued /\ w.paused = a.paused /\ w.release = a.release
      /\ w.reverse = a.reverse /\ w.looped = a.looped /\ w.pos = a.start
    BY <1>1, <1>5 DEF VoiceRec
<1>7. HasEnds(w)
    BY <1>5, <1>6 DEF HasEnds
<1>8. StartOf(w) = StartOf(a) /\ EndOf(w) = EndOf(a)
    BY <1>6 DEF StartOf, EndOf, SustainLoop
<1>9. Settled(w) /\ w.pos = StartOf(w)
    BY <1>5, <1>6, <1>8 DEF Settled
<1> QED  BY <1>4, <1>5, <1>6, <1>7, <1>9 DEF w

\* libxmp_mixer_voicepos with a queued sample.
LEMMA VoicePosFields ==
    ASSUME ShapesOK, NEW v \in VoiceRec, v.smp \in Samples, NEW pos \in Int
    PROVE  HasEnds(VoicePos(v, pos))
<1>0. /\ NotQueued # NoSample /\ v.smp # NotQueued /\ v.smp # NoSample
    BY SamplesAssumption DEF NotQueued, NoSample
<1>1. CASE v.queued = NotQueued
  <2>1. VoicePos(v, pos) = Positioned(v, pos)
      BY <1>0, <1>1 DEF VoicePos
  <2> QED  BY <2>1, PositionedFields
<1>2. CASE v.queued = NoSample
  <2> DEFINE x == [v EXCEPT !.queued = NotQueued, !.paused = TRUE, !.looped = TRUE]
  <2>1. VoicePos(v, pos) = Positioned(x, pos)
      BY <1>0, <1>2 DEF VoicePos
  <2>2. x \in VoiceRec /\ x.smp \in Samples
      BY DEF VoiceRec
  <2> HIDE DEF x
  <2> QED  BY <2>1, <2>2, PositionedFields
<1>3. CASE v.queued = v.smp
  <2> DEFINE x == [v EXCEPT !.queued = NotQueued, !.looped = TRUE]
  <2>1. VoicePos(v, pos) = Positioned(x, pos)
      BY <1>0, <1>3 DEF VoicePos
  <2>2. x \in VoiceRec /\ x.smp \in Samples
      BY DEF VoiceRec
  <2> HIDE DEF x
  <2> QED  BY <2>1, <2>2, PositionedFields
<1>4. CASE v.queued \notin {NotQueued, NoSample, v.smp}
  <2> DEFINE p == Patched(v, v.queued)
             h == HotSwap(v, v.queued)
  <2>1. VoicePos(v, pos) = Positioned(h, pos)
      BY <1>4 DEF VoicePos
  <2>2. v.queued \in Samples
      BY <1>4 DEF VoiceRec
  <2>3. HasEnds(p)
      BY <2>2, PatchedFields
  <2>4. h = [p EXCEPT !.looped = TRUE]
      BY DEF HotSwap
  <2> HIDE DEF p, h
  <2>5. h \in VoiceRec /\ h.smp \in Samples
      BY <2>3, <2>4 DEF HasEnds, VoiceRec
  <2> QED  BY <2>1, <2>5, PositionedFields
<1> QED  BY <1>1, <1>2, <1>3, <1>4

-----------------------------------------------------------------------------
(* A round of the mixer's loop                                             *)

Places == Samples \X {"start", "end"} \X Int
Wraps  == {NoWrap} \cup [active : {TRUE}, places : SUBSET Places, saved : SUBSET Places]

\* The locals of a tick that runs.
TickRec ==
    [on : {TRUE}, size : 0 .. TickSize, usmp : 1 .. TickSize, step : Steps \ {0},
     split : BOOLEAN, wrap : Wraps]

\* The tick knows every place that is overwritten, and has saved the sample's
\* own bytes.
WrapOK(w, places) ==
    /\ w \in Wraps
    /\ IF w.active THEN w.saved = {} /\ places \subseteq w.places ELSE places = {}

\* The voice of a tick that has frames left.
PlaysIn(v) ==
    /\ v.used /\ Settled(v) /\ ~v.paused
    /\ ~v.reverse => 0 <= v.pos

NotPastEnd(v) == ~v.reverse => v.pos <= shape[v.smp].len + 1

\* What a round leaves behind.
RoundOK(v, t, places) ==
    /\ v = Free \/ HasEnds(v)
    /\ t \in TickRec /\ WrapOK(t.wrap, places)
    /\ t.size > 0 => PlaysIn(v) /\ NotPastEnd(v)
    /\ t.size = 0 /\ v.used /\ ActiveLoop(v) /\ ~t.split /\ ~v.paused => NotPastEnd(v)

\* What a round that swaps the sample does.
SwapOK(v, w) ==
    w.used /\ w.smp # v.smp =>
        /\ w.pos = StartOf(w)
        /\ ActiveLoop(v) \/ shape[w.smp].loop # "off"

\* init_sample_wraparound saves what it is about to overwrite.
LEMMA WrapOfOK ==
    ASSUME ShapesOK, NEW v, HasEnds(v)
    PROVE  WrapOK(WrapOf(v, {}), InitWrap(v, {}))
<1>1. Around(v) \in SUBSET Places
    BY DEF Around, Places, HasEnds, VoiceRec
<1>2. CASE shape[v.smp].loop = "off"
    BY <1>2 DEF WrapOf, InitWrap, WrapOK, Wraps, NoWrap
<1>3. CASE shape[v.smp].loop # "off"
  <2> DEFINE w == [active |-> TRUE, places |-> Around(v), saved |-> {} \cap Around(v)]
  <2>1. WrapOf(v, {}) = w
      BY <1>3 DEF WrapOf
  <2>2. w \in Wraps /\ w.active /\ w.saved = {} /\ w.places = Around(v)
      BY <1>1 DEF Wraps
  <2>3. InitWrap(v, {}) \subseteq Around(v)
      BY <1>3 DEF InitWrap, Overwritten, Around
  <2> HIDE DEF w
  <2> QED  BY <2>1, <2>2, <2>3 DEF WrapOK
<1> QED  BY <1>2, <1>3

\* reset_sample_wraparound restores all of it.
LEMMA ResetWrapRestores ==
    ASSUME NEW w, NEW places, WrapOK(w, places)
    PROVE  ResetWrap(w, places) = {}
BY DEF WrapOK, ResetWrap

\* The end of a sample, which leaves no frames for it.
LEMMA EndedFields ==
    ASSUME NEW v, HasEnds(v), NEW t \in TickRec
    PROVE  LET e == Ended(v, t)
           IN  /\ e.tick \in TickRec /\ e.tick.size = 0
               /\ e.tick.wrap = t.wrap /\ e.tick.split = t.split
               /\ \/ e.voice = Free
                  \/ /\ HasEnds(e.voice) /\ e.voice.smp = v.smp
                     /\ e.voice.release = v.release /\ e.voice.paused = v.paused
<1> DEFINE u == [v EXCEPT !.active = FALSE]
           s == [t EXCEPT !.size = 0]
           e == Ended(v, t)
<1>1. e.tick = s /\ (e.voice = Free \/ e.voice = u)
    BY DEF Ended
<1>2. /\ s \in TickRec /\ s.size = 0 /\ s.wrap = t.wrap /\ s.split = t.split
  <2>1. 0 \in 0 .. TickSize
      BY MixerAssumption
  <2> QED  BY <2>1 DEF TickRec
<1>3. HasEnds(u) /\ u.smp = v.smp /\ u.release = v.release /\ u.paused = v.paused
    BY DEF HasEnds, VoiceRec
<1> HIDE DEF u, s, e
<1> QED  BY <1>1, <1>2, <1>3 DEF e

\* Every round, in whichever of its branches, leaves a voice that can play on or
\* a tick that is over.
LEMMA RoundKeeps ==
    ASSUME ShapesOK, NEW v, HasEnds(v), Settled(v), ~v.paused,
           NEW t \in TickRec, WrapOK(t.wrap, patched),
           t.size > 0 => Stuck(v), AfterFrames(v, t)
    PROVE  RoundOK(voice', tick', patched') /\ SwapOK(v, voice')
<1>0. /\ v \in VoiceRec /\ v.smp \in Samples /\ v.used
      /\ t.size \in 0 .. TickSize /\ TickSize \in Nat
    BY MixerAssumption DEF HasEnds, VoiceRec, TickRec
<1>1. CASE SampleEnds(v, t)
  <2>1. /\ ~ActiveLoop(v) \/ t.split
        /\ patched' = patched
        /\ t.size > 0 => voice' = Ended(v, t).voice /\ tick' = Ended(v, t).tick
        /\ t.size = 0 => voice' = v /\ tick' = t
      BY <1>0, <1>1 DEF SampleEnds
  <2>2. CASE t.size > 0
    <3> DEFINE e == Ended(v, t)
    <3>1. /\ e.tick \in TickRec /\ e.tick.size = 0
          /\ e.tick.wrap = t.wrap /\ e.tick.split = t.split
          /\ \/ e.voice = Free
             \/ /\ HasEnds(e.voice) /\ e.voice.smp = v.smp
                /\ e.voice.release = v.release /\ e.voice.paused = v.paused
        BY EndedFields
    <3>2. voice' = e.voice /\ tick' = e.tick
        BY <2>1, <2>2
    <3> HIDE DEF e
    <3>3. CASE voice' = Free
        BY <2>1, <3>1, <3>2, <3>3 DEF RoundOK, SwapOK, Free
    <3>4. CASE HasEnds(voice') /\ voice'.smp = v.smp /\ voice'.release = v.release
      <4>1. ActiveLoop(voice') <=> ActiveLoop(v)
          BY <3>4 DEF ActiveLoop, SustainLoop
      <4> QED  BY <2>1, <3>1, <3>2, <3>4, <4>1 DEF RoundOK, SwapOK
    <3> QED  BY <3>1, <3>2, <3>3, <3>4
  <2>3. CASE t.size = 0
      BY <2>1, <2>3 DEF RoundOK, SwapOK
  <2> QED  BY <1>0, <2>2, <2>3
<1>2. CASE PlaysOn(v, t)
  <2>1. voice' = v /\ tick' = t /\ patched' = patched /\ t.size = 0 /\ ~Stuck(v)
      BY <1>0, <1>2 DEF PlaysOn
  <2>2. NotPastEnd(v)
    <3>1. v.pos \in Int /\ v.end \in Int /\ v.end <= shape[v.smp].len
        BY DEF HasEnds, VoiceRec
    <3>2. shape[v.smp].len \in Nat
        BY <1>0, ShapeFields
    <3> QED  BY <2>1, <3>1, <3>2 DEF Stuck, NotPastEnd
  <2> QED  BY <2>1, <2>2 DEF RoundOK, SwapOK
<1>3. CASE QueueStops(v, t)
  <2> DEFINE q == [v EXCEPT !.queued = NotQueued, !.paused = TRUE]
             e == Ended(q, t)
  <2>1. voice' = e.voice /\ tick' = e.tick /\ patched' = patched
      BY <1>3 DEF QueueStops
  <2>2. HasEnds(q) /\ q.smp = v.smp /\ q.paused
      BY DEF HasEnds, VoiceRec
  <2> HIDE DEF q
  <2>3. /\ e.tick \in TickRec /\ e.tick.size = 0
        /\ e.tick.wrap = t.wrap /\ e.tick.split = t.split
        /\ \/ e.voice = Free
           \/ /\ HasEnds(e.voice) /\ e.voice.smp = q.smp
              /\ e.voice.release = q.release /\ e.voice.paused = q.paused
      BY <2>2, EndedFields
  <2> HIDE DEF e
  <2>4. CASE voice' = Free
      BY <2>1, <2>3, <2>4 DEF RoundOK, SwapOK, Free
  <2>5. CASE HasEnds(voice') /\ voice'.smp = v.smp /\ voice'.paused
      BY <2>1, <2>3, <2>5 DEF RoundOK, SwapOK
  <2> QED  BY <2>1, <2>2, <2>3, <2>4, <2>5
<1>4. CASE QueueSwaps(v, t)
  <2> DEFINE w == SwappedIn(v, v.queued)
             restored == ResetWrap(t.wrap, patched)
  <2>1. /\ v.queued # NotQueued /\ ~Stops(v)
        /\ voice' = w
        /\ tick' = [t EXCEPT !.wrap = WrapOf(w, restored)]
        /\ patched' = InitWrap(w, restored)
      BY <1>4 DEF QueueSwaps
  <2>2. v.queued \in Samples /\ (ActiveLoop(v) \/ shape[v.queued].loop # "off")
      BY <1>0, <2>1 DEF Stops, VoiceRec
  <2>3. /\ HasEnds(w) /\ Settled(w) /\ w.smp = v.queued
        /\ w.queued = NotQueued /\ ~w.paused /\ ~w.reverse
        /\ w.release = v.release /\ w.pos = StartOf(w)
      BY <1>0, <2>2, SwappedInFields
  <2>4. restored = {}
      BY ResetWrapRestores
  <2> HIDE DEF w, restored
  <2>5. WrapOK(WrapOf(w, restored), InitWrap(w, restored))
      BY <2>3, <2>4, WrapOfOK
  <2>6. tick' \in TickRec /\ WrapOK(tick'.wrap, patched')
      BY <2>1, <2>5 DEF TickRec, WrapOK
  <2>7. PlaysIn(w) /\ NotPastEnd(w)
    <3>1. w \in VoiceRec /\ w.smp \in Samples /\ w.used
        BY <2>3 DEF HasEnds, VoiceRec
    <3>2. /\ StartOf(w) \in Int /\ EndOf(w) \in Int
          /\ 0 <= StartOf(w) /\ StartOf(w) < EndOf(w) /\ EndOf(w) <= shape[w.smp].len
        BY <3>1, EndsInSample
    <3>3. shape[w.smp].len \in Nat
        BY <3>1, ShapeFields
    <3> QED  BY <2>3, <3>1, <3>2, <3>3 DEF PlaysIn, NotPastEnd
  <2> QED  BY <2>1, <2>2, <2>3, <2>6, <2>7 DEF RoundOK, SwapOK
<1>5. CASE LoopTurns(v, t)
  <2> DEFINE w == Reposition(v)
             restored == ResetWrap(t.wrap, patched)
  <2>1. /\ t.size > 0 \/ Stuck(v)
        /\ voice' = w
        /\ \/ tick' = t /\ patched' = patched
           \/ /\ tick' = [t EXCEPT !.wrap = WrapOf(w, restored)]
              /\ patched' = InitWrap(w, restored)
      BY <1>5 DEF LoopTurns, Loops
  <2>2. /\ HasEnds(w) /\ Keeps(v, w)
        /\ w.pos <= shape[w.smp].len + 1
        /\ Settled(v) => Settled(w)
        /\ Settled(v) /\ Stuck(v) /\ ~w.reverse => 0 <= w.pos
      BY RepositionFields
  <2>3. restored = {}
      BY ResetWrapRestores
  <2> HIDE DEF w, restored
  <2>4. WrapOK(WrapOf(w, restored), InitWrap(w, restored))
      BY <2>2, <2>3, WrapOfOK
  <2>5. tick' \in TickRec /\ WrapOK(tick'.wrap, patched')
      BY <2>1, <2>4 DEF TickRec, WrapOK
  <2>6. PlaysIn(w) /\ NotPastEnd(w)
    <3>1. w.used /\ ~w.paused
        BY <2>2 DEF HasEnds, VoiceRec, Keeps
    <3> QED  BY <2>1, <2>2, <3>1 DEF PlaysIn, NotPastEnd
  <2>7. w.smp = v.smp
      BY <2>2 DEF Keeps
  <2> QED  BY <2>1, <2>2, <2>5, <2>6, <2>7 DEF RoundOK, SwapOK
<1> QED  BY <1>1, <1>2, <1>3, <1>4, <1>5 DEF AfterFrames

-----------------------------------------------------------------------------
(* Every step                                                              *)

\* A tick that runs has a voice to play or is over, and owns what is
\* overwritten; between ticks nothing is.
TickOK ==
    IF tick.on
    THEN /\ tick \in TickRec /\ WrapOK(tick.wrap, patched)
         /\ tick.size > 0 => PlaysIn(voice)
         /\ tick.size > 0 /\ tick.usmp < TickSize => NotPastEnd(voice)
         /\ tick.size = 0 /\ voice.used /\ ActiveLoop(voice) /\ ~tick.split
              /\ ~voice.paused => NotPastEnd(voice)
    ELSE tick = NoTick /\ patched = {}

HeardOK == heard = Silence \/ (heard.low \in Int /\ heard.low >= 0)

IInv ==
    /\ ShapesOK
    /\ voice = Free \/ HasEnds(voice)
    /\ TickOK
    /\ HeardOK

\* The first two parts, and what they say of a voice in use.
LEMMA VoiceFields ==
    ASSUME IInv, voice.used
    PROVE  /\ ShapesOK /\ HasEnds(voice) /\ voice \in VoiceRec /\ voice.smp \in Samples
           /\ shape[voice.smp].len \in Nat
<1>1. ShapesOK /\ HasEnds(voice)
    BY DEF IInv, Free
<1> QED  BY <1>1, ShapeFields DEF HasEnds

\* After a round the invariant holds again.
LEMMA RoundInv ==
    ASSUME ShapesOK, shape' = shape, RoundOK(voice', tick', patched'), HeardOK'
    PROVE  IInv'
<1>1. tick'.on
    BY DEF RoundOK, TickRec
<1>2. TickOK'
    BY <1>1 DEF TickOK, RoundOK, WrapOK, PlaysIn, NotPastEnd, Settled, StartOf, EndOf,
                SustainLoop, ActiveLoop
<1> QED  BY <1>2 DEF IInv, RoundOK, ShapesOK, HasEnds

\* The frames libxmp_mixer_softmixer mixes in a round lie behind the sample's
\* start, and where they stop the loop is over or the tick is.
LEMMA MixFramesStep ==
    ASSUME IInv, MixFrames
    PROVE  IInv' /\ SwapOK(voice, voice') /\ ~voice.paused
<1> DEFINE k == tick.step
           x == IF voice.reverse THEN voice.pos - voice.start ELSE voice.end - voice.pos
           f == (x + k - 1) \div k
           n == Smaller(f, tick.size)
           last == IF voice.reverse THEN voice.pos - (n - 1) * k ELSE voice.pos + (n - 1) * k
           next == IF voice.reverse THEN last - k ELSE last + k
           v == [voice EXCEPT !.pos = next]
           t == [tick EXCEPT !.size = tick.size - n]
<1>1. tick.on /\ tick.size > 0 /\ ~Stuck(voice) /\ shape' = shape
    BY DEF MixFrames
<1>2. tick \in TickRec /\ WrapOK(tick.wrap, patched) /\ PlaysIn(voice)
    BY <1>1 DEF IInv, TickOK
<1>3. /\ ShapesOK /\ HasEnds(voice) /\ voice \in VoiceRec /\ voice.smp \in Samples
      /\ shape[voice.smp].len \in Nat
    BY <1>2, VoiceFields DEF PlaysIn
<1>4. /\ k \in Nat \ {0} /\ tick.size \in Nat /\ tick.size <= TickSize /\ TickSize \in Nat
      /\ voice.pos \in Int /\ voice.start \in Int /\ voice.end \in Int
      /\ 0 <= voice.start /\ voice.reverse \in BOOLEAN
  <2>1. k \in Steps \ {0} /\ tick.size \in 0 .. TickSize
      BY <1>2 DEF TickRec
  <2>2. Steps \subseteq Nat /\ TickSize \in Nat
      BY MixerAssumption
  <2>3. voice.pos \in Int /\ voice.start \in Int /\ voice.end \in Int
        /\ 0 <= voice.start /\ voice.reverse \in BOOLEAN
      BY <1>3 DEF HasEnds, VoiceRec
  <2> HIDE DEF k
  <2>4. k \in Nat \ {0}
      BY <2>1, <2>2
  <2>5. tick.size \in Nat /\ tick.size <= TickSize
      BY <2>1, <2>2
  <2> QED  BY <2>2, <2>3, <2>4, <2>5
<1>5. x \in Nat \ {0}
    BY <1>1, <1>4 DEF Stuck
<1>6. f = Frames(voice, k)
    BY DEF Frames
<1>7. /\ heard' = IF n = 0 THEN Silence
                  ELSE [smp |-> voice.smp, low |-> Smaller(voice.pos, last),
                        high |-> IF voice.reverse THEN voice.pos ELSE last]
      /\ AfterFrames(v, t)
  <2> HIDE DEF f, x
  <2>1. n = Smaller(Frames(voice, tick.step), tick.size)
      BY <1>6
  <2> HIDE DEF n
  <2>2. /\ heard' = IF n = 0 THEN Silence
                    ELSE [smp |-> voice.smp, low |-> Smaller(voice.pos, last),
                          high |-> IF voice.reverse THEN voice.pos ELSE last]
        /\ \E w \in {[voice EXCEPT !.pos = next]}, u \in {Remaining(tick, n)} :
              AfterFrames(w, u)
      BY <2>1 DEF MixFrames
  <2>3. Remaining(tick, n) = t
      BY DEF Remaining
  <2> QED  BY <2>2, <2>3
<1> HIDE DEF x
<1>8. f \in Nat \ {0} /\ (f - 1) * k < x /\ x <= f * k
    BY <1>4, <1>5, Ceiling
<1> HIDE DEF k, f
<1>9. n \in Nat \ {0} /\ n <= f /\ n <= tick.size /\ (n < tick.size => n = f)
    BY <1>1, <1>4, <1>8 DEF Smaller
<1> HIDE DEF n
<1>10. (n - 1) * k <= (f - 1) * k /\ 0 <= (n - 1) * k /\ (n - 1) * k \in Int
  <2>1. (n - 1) * k <= (f - 1) * k
      BY <1>4, <1>8, <1>9, Monotone
  <2>2. 0 * k <= (n - 1) * k
      BY <1>4, <1>9, Monotone
  <2> QED  BY <1>4, <1>9, <2>1, <2>2
<1>11. n * k = (n - 1) * k + k
    BY <1>4, <1>9
<1>12. last \in Int /\ last >= 0 /\ next \in Int /\ (voice.pos >= 0)
  <2>1. ~voice.reverse => 0 <= voice.pos
      BY <1>2 DEF PlaysIn
  <2>2. (f - 1) * k \in Int
      BY <1>4, <1>8
  <2>3. (n - 1) * k < x /\ x \in Int
      BY <1>5, <1>8, <1>10, <2>2
  <2>4. CASE voice.reverse
    <3>1. x = voice.pos - voice.start
        BY <2>4 DEF x
    <3> QED  BY <1>4, <1>10, <2>3, <2>4, <3>1
  <2>5. CASE ~voice.reverse
      BY <1>4, <1>10, <2>1, <2>5
  <2> QED  BY <2>4, <2>5
<1>13. HeardOK'
    BY <1>4, <1>7, <1>9, <1>12 DEF HeardOK, Smaller
<1>14. n = f => Stuck(v)
  <2>0. v.pos = next /\ v.start = voice.start /\ v.end = voice.end
        /\ v.reverse = voice.reverse
      BY <1>3 DEF VoiceRec
  <2>1. CASE voice.reverse
    <3>1. x = voice.pos - voice.start
        BY <2>1 DEF x
    <3>2. next = voice.pos - (n - 1) * k - k
        BY <2>1
    <3>3. ASSUME n = f  PROVE next <= voice.start
        BY <1>4, <1>8, <1>10, <1>11, <3>1, <3>2, <3>3
    <3> QED  BY <2>0, <2>1, <3>3 DEF Stuck
  <2>2. CASE ~voice.reverse
    <3>1. x = voice.end - voice.pos
        BY <2>2 DEF x
    <3>2. next = voice.pos + (n - 1) * k + k
        BY <2>2
    <3>3. ASSUME n = f  PROVE next >= voice.end
        BY <1>4, <1>8, <1>10, <1>11, <3>1, <3>2, <3>3
    <3> QED  BY <2>0, <2>2, <3>3 DEF Stuck
  <2> QED  BY <2>1, <2>2
<1> HIDE DEF last, next
<1>15. /\ HasEnds(v) /\ Settled(v) /\ ~v.paused
       /\ v.smp = voice.smp /\ v.release = voice.release
  <2>1. /\ v \in VoiceRec /\ v.smp = voice.smp /\ v.release = voice.release
        /\ v.looped = voice.looped /\ v.paused = voice.paused
        /\ v.start = voice.start /\ v.end = voice.end
      BY <1>3, <1>12 DEF VoiceRec
  <2> HIDE DEF v
  <2>2. HasEnds(v)
      BY <1>3, <2>1 DEF HasEnds
  <2>3. Settled(v)
      BY <1>2, <2>1 DEF PlaysIn, Settled, StartOf, EndOf, SustainLoop
  <2> QED  BY <1>2, <2>1, <2>2, <2>3 DEF PlaysIn
<1>16. /\ t \in TickRec /\ t.wrap = tick.wrap
       /\ t.size > 0 => n = f
  <2>1. tick.size - n \in 0 .. TickSize /\ (tick.size - n > 0 => n = f)
      BY <1>4, <1>9
  <2> QED  BY <1>2, <2>1 DEF TickRec
<1> HIDE DEF v, t
<1>17. t.size > 0 => Stuck(v)
    BY <1>14, <1>16
<1>18. RoundOK(voice', tick', patched') /\ SwapOK(v, voice')
    BY <1>2, <1>3, <1>7, <1>15, <1>16, <1>17, RoundKeeps
<1>19. SwapOK(voice, voice')
    BY <1>15, <1>18 DEF SwapOK, ActiveLoop, SustainLoop
<1> QED  BY <1>1, <1>2, <1>3, <1>13, <1>18, <1>19, RoundInv DEF PlaysIn

\* A round without frames; the last of them ends the tick.
LEMMA MixNothingStep ==
    ASSUME IInv, MixNothing
    PROVE  IInv' /\ SwapOK(voice, voice') /\ heard' = Silence
<1> DEFINE t == [tick EXCEPT !.usmp = tick.usmp - 1]
<1>1. /\ tick.on /\ tick.size > 0 /\ Stuck(voice) /\ shape' = shape /\ heard' = Silence
      /\ IF tick.usmp <= 1
         THEN tick' = [tick EXCEPT !.size = 0] /\ voice' = voice /\ patched' = patched
         ELSE AfterFrames(voice, t)
    BY DEF MixNothing
<1>2. /\ tick \in TickRec /\ WrapOK(tick.wrap, patched) /\ PlaysIn(voice)
      /\ tick.usmp < TickSize => NotPastEnd(voice)
    BY <1>1 DEF IInv, TickOK
<1>3. ShapesOK /\ HasEnds(voice) /\ Settled(voice) /\ ~voice.paused
    BY <1>2, VoiceFields DEF PlaysIn
<1>4. HeardOK'
    BY <1>1 DEF HeardOK
<1>5. tick.usmp \in 1 .. TickSize /\ TickSize \in Nat \ {0, 1}
    BY <1>2, MixerAssumption DEF TickRec
<1>6. RoundOK(voice', tick', patched') /\ SwapOK(voice, voice')
  <2>1. CASE tick.usmp <= 1
    <3>1. 0 \in 0 .. TickSize /\ tick.usmp < TickSize
        BY <1>5, <2>1
    <3>2. tick' \in TickRec /\ tick'.size = 0 /\ tick'.wrap = tick.wrap
        BY <1>1, <1>2, <2>1, <3>1 DEF TickRec
    <3> QED  BY <1>1, <1>2, <1>3, <2>1, <3>1, <3>2 DEF RoundOK, SwapOK
  <2>2. CASE ~(tick.usmp <= 1)
    <3>1. tick.usmp - 1 \in 1 .. TickSize
        BY <1>5, <2>2
    <3>2. t \in TickRec /\ t.wrap = tick.wrap
        BY <1>2, <3>1 DEF TickRec
    <3>3. AfterFrames(voice, t)
        BY <1>1, <2>2
    <3> HIDE DEF t
    <3> QED  BY <1>1, <1>2, <1>3, <3>2, <3>3, RoundKeeps
  <2> QED  BY <2>1, <2>2
<1> QED  BY <1>1, <1>3, <1>4, <1>6, RoundInv

\* The end of a tick restores the sample.
LEMMA EndTickStep ==
    ASSUME IInv, EndTick
    PROVE  IInv' /\ voice' = voice /\ heard' = Silence
<1>1. /\ tick.on /\ patched' = ResetWrap(tick.wrap, patched)
      /\ tick' = NoTick /\ heard' = Silence /\ voice' = voice /\ shape' = shape
    BY DEF EndTick
<1>2. WrapOK(tick.wrap, patched)
    BY <1>1 DEF IInv, TickOK
<1>3. patched' = {}
    BY <1>1, <1>2, ResetWrapRestores
<1>4. ShapesOK' /\ (voice = Free \/ HasEnds(voice))'
    BY <1>1 DEF IInv, ShapesOK, HasEnds
<1> QED  BY <1>1, <1>3, <1>4 DEF IInv, TickOK, HeardOK, NoTick

\* A call of the player that leaves a voice the mixer can play.
LEMMA CallStep ==
    ASSUME IInv, NEW v, v = Free \/ HasEnds(v), Call(v)
    PROVE  IInv' /\ ~tick.on /\ heard' = Silence
<1>1. ~tick.on /\ voice' = v /\ heard' = Silence
      /\ shape' = shape /\ tick' = tick /\ patched' = patched
    BY DEF Call
<1>2. ShapesOK' /\ (voice = Free \/ HasEnds(voice))'
    BY <1>1 DEF IInv, ShapesOK, HasEnds
<1> QED  BY <1>1, <1>2 DEF IInv, TickOK, HeardOK

\* A voice is not left before its sample.
LEMMA FromZeroFields ==
    ASSUME NEW v \in VoiceRec
    PROVE  LET z == FromZero(v)
           IN  /\ z \in VoiceRec /\ z.smp = v.smp /\ z.paused = v.paused
               /\ z.start = v.start /\ z.end = v.end /\ 0 <= z.pos
<1>1. ASSUME NEW n \in Int
      PROVE  LET u == [v EXCEPT !.pos = n]
             IN  /\ u \in VoiceRec /\ u.smp = v.smp /\ u.paused = v.paused
                 /\ u.start = v.start /\ u.end = v.end /\ u.pos = n
    BY DEF VoiceRec
<1>2. v.pos \in Int
    BY DEF VoiceRec
<1>3. CASE v.pos < 0
  <2> DEFINE u == [v EXCEPT !.pos = 0]
  <2>1. FromZero(v) = u
      BY <1>3 DEF FromZero
  <2>2. /\ u \in VoiceRec /\ u.smp = v.smp /\ u.paused = v.paused
        /\ u.start = v.start /\ u.end = v.end /\ u.pos = 0
      BY <1>1
  <2> HIDE DEF u
  <2> QED  BY <2>1, <2>2
<1>4. CASE ~(v.pos < 0)
  <2>1. FromZero(v) = v
      BY <1>4 DEF FromZero
  <2> QED  BY <1>2, <1>4, <2>1
<1> QED  BY <1>3, <1>4

\* The mixer comes to the voice between two ticks, when no byte is overwritten.
LEMMA BeginTickStep ==
    ASSUME IInv, NEW step \in Steps, NEW split \in BOOLEAN, BeginTick(step, split)
    PROVE  IInv' /\ ~tick.on /\ heard' = Silence
<1> DEFINE z == FromZero(voice)
           w == IF voice.paused THEN SwappedIn(voice, voice.queued) ELSE AdjustEnd(z)
<1>1. /\ voice.used /\ ~tick.on /\ heard' = Silence /\ shape' = shape
      /\ IF voice.paused /\ voice.queued \notin Samples
         THEN /\ voice' = [z EXCEPT !.queued = NotQueued]
              /\ tick' = tick /\ patched' = patched
         ELSE /\ voice' = w
              /\ IF step = 0 THEN tick' = tick /\ patched' = patched
                 ELSE /\ tick' = [on |-> TRUE, size |-> TickSize, usmp |-> TickSize,
                                  step |-> step, split |-> split, wrap |-> WrapOf(w, patched)]
                      /\ patched' = InitWrap(w, patched)
    BY DEF BeginTick
<1>2. /\ ShapesOK /\ HasEnds(voice) /\ voice \in VoiceRec /\ voice.smp \in Samples
      /\ shape[voice.smp].len \in Nat
    BY <1>1, VoiceFields
<1>3. tick = NoTick /\ patched = {}
    BY <1>1 DEF IInv, TickOK
<1>4. /\ z \in VoiceRec /\ z.smp = voice.smp /\ z.paused = voice.paused
      /\ z.start = voice.start /\ z.end = voice.end /\ 0 <= z.pos
    BY <1>2, FromZeroFields
<1> HIDE DEF z
<1>5. CASE voice.paused /\ voice.queued \notin Samples
  <2>1. voice' \in VoiceRec /\ voice'.smp = voice.smp
        /\ voice'.start = voice.start /\ voice'.end = voice.end
      BY <1>1, <1>4, <1>5 DEF VoiceRec
  <2>2. HasEnds(voice)' /\ ShapesOK'
      BY <1>1, <1>2, <2>1 DEF HasEnds, ShapesOK
  <2> QED  BY <1>1, <1>3, <1>5, <2>2 DEF IInv, TickOK, HeardOK, NoTick
<1>6. CASE ~(voice.paused /\ voice.queued \notin Samples)
  <2>1. HasEnds(w) /\ PlaysIn(w)
    <3>1. CASE voice.paused
      <4>1. voice.queued \in Samples /\ w = SwappedIn(voice, voice.queued)
          BY <1>6, <3>1
      <4>2. /\ HasEnds(w) /\ Settled(w) /\ w.smp = voice.queued
            /\ w.queued = NotQueued /\ ~w.paused /\ ~w.reverse
            /\ w.release = voice.release /\ w.pos = StartOf(w)
          BY <1>2, <4>1, SwappedInFields
      <4> HIDE DEF w
      <4>3. w \in VoiceRec /\ w.smp \in Samples /\ w.used
          BY <4>2 DEF HasEnds, VoiceRec
      <4>4. 0 <= StartOf(w)
          BY <1>2, <4>3, EndsInSample
      <4> QED  BY <4>2, <4>3, <4>4 DEF PlaysIn
    <3>2. CASE ~voice.paused
      <4>1. w = AdjustEnd(z)
          BY <3>2
      <4> HIDE DEF w
      <4>2. /\ w \in VoiceRec
            /\ w.smp = z.smp /\ w.pos = z.pos /\ w.looped = z.looped
            /\ w.queued = z.queued /\ w.paused = z.paused
            /\ w.reverse = z.reverse /\ w.release = z.release
            /\ w.active = z.active
            /\ w.start = StartOf(z) /\ w.end = EndOf(z)
            /\ HasEnds(w) /\ Settled(w)
          BY <1>2, <1>4, <4>1, AdjustEndFields
      <4>3. w.used
          BY <4>2 DEF VoiceRec
      <4> QED  BY <1>4, <3>2, <4>2, <4>3 DEF PlaysIn
    <3> QED  BY <3>1, <3>2
  <2> HIDE DEF w
  <2>2. /\ voice' = w
        /\ IF step = 0 THEN tick' = tick /\ patched' = patched
           ELSE /\ tick' = [on |-> TRUE, size |-> TickSize, usmp |-> TickSize,
                            step |-> step, split |-> split, wrap |-> WrapOf(w, patched)]
                /\ patched' = InitWrap(w, patched)
      BY <1>1, <1>6
  <2>3. HasEnds(voice)' /\ ShapesOK'
      BY <1>1, <1>2, <2>1, <2>2 DEF HasEnds, ShapesOK
  <2>4. CASE step = 0
      BY <1>1, <1>3, <2>2, <2>3, <2>4 DEF IInv, TickOK, HeardOK, NoTick
  <2>5. CASE step # 0
    <3>1. WrapOK(tick'.wrap, patched')
        BY <1>2, <1>3, <2>1, <2>2, <2>5, WrapOfOK
    <3>2. TickSize \in Nat \ {0, 1} /\ TickSize \in 0 .. TickSize /\ TickSize \in 1 .. TickSize
        BY MixerAssumption
    <3>3. tick'.wrap \in Wraps
        BY <3>1 DEF WrapOK
    <3>4. tick' \in TickRec /\ tick'.on /\ tick'.size = TickSize /\ tick'.usmp = TickSize
      <4> DEFINE wrap == WrapOf(w, patched)
      <4>1. tick' = [on |-> TRUE, size |-> TickSize, usmp |-> TickSize,
                     step |-> step, split |-> split, wrap |-> wrap]
          BY <2>2, <2>5
      <4> HIDE DEF wrap
      <4>2. wrap \in Wraps
          BY <3>3, <4>1
      <4>3. step \in Steps \ {0}
          BY <2>5
      <4> QED  BY <3>2, <4>1, <4>2, <4>3 DEF TickRec
    <3>5. PlaysIn(voice)'
        BY <1>1, <2>1, <2>2 DEF PlaysIn, Settled, StartOf, EndOf, SustainLoop
    <3>6. TickOK'
        BY <3>1, <3>2, <3>4, <3>5 DEF TickOK, WrapOK
    <3> QED  BY <1>1, <2>3, <3>6 DEF IInv, HeardOK
  <2> QED  BY <2>4, <2>5
<1> QED  BY <1>5, <1>6

\* What every step keeps, and what it may do to the sample of a voice.
LEMMA NextStep ==
    ASSUME IInv, [MixNext]_mixVars
    PROVE  /\ IInv'
           /\ heard' = Silence \/ ~voice.paused \/ UNCHANGED mixVars
           /\ tick.on => SwapOK(voice, voice')
<1>1. CASE MixFrames
    BY <1>1, MixFramesStep
<1>2. CASE MixNothing
    BY <1>2, MixNothingStep
<1>3. CASE EndTick
    BY <1>3, EndTickStep DEF SwapOK
<1>4. CASE \E step \in Steps, split \in BOOLEAN : BeginTick(step, split)
    BY <1>4, BeginTickStep
<1>5. CASE \E smp \in Samples : SetPatch(smp)
  <2>1. PICK smp \in Samples : SetPatch(smp)
      BY <1>5
  <2> DEFINE v == IF voice.used THEN voice ELSE Blank
  <2>2. v \in VoiceRec
    <3>1. Blank \in VoiceRec
        BY DEF Blank, VoiceRec
    <3> QED  BY <3>1, VoiceFields
  <2>3. Call(Patched(v, smp))
      BY <2>1 DEF SetPatch
  <2> HIDE DEF v
  <2>4. HasEnds(Patched(v, smp))
      BY <2>2, PatchedFields DEF IInv
  <2> QED  BY <2>3, <2>4, CallStep
<1>6. CASE \E smp \in Samples : SetSmp(smp)
  <2>1. PICK smp \in Samples : SetSmp(smp)
      BY <1>6
  <2>2. voice.used /\ Call(VoicePos(Patched(voice, smp), voice.pos))
      BY <2>1 DEF SetSmp
  <2>3. ShapesOK /\ voice \in VoiceRec /\ voice.pos \in Int
      BY <2>2, VoiceFields DEF VoiceRec
  <2>4. Patched(voice, smp) \in VoiceRec /\ Patched(voice, smp).smp \in Samples
      BY <2>3, PatchedFields DEF HasEnds
  <2>5. HasEnds(VoicePos(Patched(voice, smp), voice.pos))
      BY <2>3, <2>4, VoicePosFields
  <2> QED  BY <2>2, <2>5, CallStep
<1>7. CASE \E smp \in Samples \cup {NoSample} : QueuePatch(smp)
  <2>1. PICK smp \in Samples \cup {NoSample} : QueuePatch(smp)
      BY <1>7
  <2> DEFINE v == [voice EXCEPT !.queued = smp]
  <2>2. voice.used /\ Call(v)
      BY <2>1 DEF QueuePatch
  <2>3. HasEnds(voice)
      BY <2>2, VoiceFields
  <2>4. HasEnds(v)
      BY <2>3 DEF HasEnds, VoiceRec
  <2> QED  BY <2>2, <2>4, CallStep
<1>8. CASE \E pos \in Offsets : SetPos(pos)
  <2>1. PICK pos \in Offsets : SetPos(pos)
      BY <1>8
  <2>2. voice.used /\ Call(VoicePos(voice, pos)) /\ pos \in Int
    <3>1. Offsets \subseteq Nat
        BY MixerAssumption
    <3> QED  BY <2>1, <3>1 DEF SetPos
  <2>3. ShapesOK /\ voice \in VoiceRec /\ voice.smp \in Samples
      BY <2>2, VoiceFields
  <2>4. HasEnds(VoicePos(voice, pos))
      BY <2>2, <2>3, VoicePosFields
  <2> QED  BY <2>2, <2>4, CallStep
<1>9. CASE \E on \in BOOLEAN : Release(on)
  <2>1. PICK on \in BOOLEAN : Release(on)
      BY <1>9
  <2> DEFINE turn == voice.reverse
                       /\ ~(on /\ SustainLoop(voice) /\ shape[voice.smp].loop # "bidir")
             v == [voice EXCEPT !.release = on, !.reverse = turn]
  <2>2. voice.used /\ Call(v)
      BY <2>1 DEF Release
  <2>3. HasEnds(voice)
      BY <2>2, VoiceFields
  <2>4. turn \in BOOLEAN
      OBVIOUS
  <2> HIDE DEF turn
  <2>5. HasEnds(v)
      BY <2>3, <2>4 DEF HasEnds, VoiceRec
  <2> QED  BY <2>2, <2>5, CallStep
<1>10. CASE \E on \in BOOLEAN : Reverse(on)
  <2>1. PICK on \in BOOLEAN : Reverse(on)
      BY <1>10
  <2> DEFINE v == [voice EXCEPT !.reverse = on]
  <2>2. voice.used /\ Call(v)
      BY <2>1 DEF Reverse
  <2>3. HasEnds(voice)
      BY <2>2, VoiceFields
  <2>4. HasEnds(v)
      BY <2>3 DEF HasEnds, VoiceRec
  <2> QED  BY <2>2, <2>4, CallStep
<1>11. CASE ResetVoice
    BY <1>11, CallStep DEF ResetVoice
<1>12. CASE UNCHANGED mixVars
  <2>1. shape' = shape /\ voice' = voice /\ tick' = tick
        /\ patched' = patched /\ heard' = heard
      BY <1>12 DEF mixVars
  <2>2. ShapesOK' /\ (voice = Free \/ HasEnds(voice))'
      BY <2>1 DEF IInv, ShapesOK, HasEnds
  <2>3. TickOK' /\ HeardOK'
      BY <2>1 DEF IInv, TickOK, HeardOK, WrapOK, PlaysIn, NotPastEnd, Settled, StartOf,
                  EndOf, SustainLoop, ActiveLoop
  <2>4. IInv'
      BY <2>2, <2>3 DEF IInv
  <2>5. SwapOK(voice, voice')
      BY <2>1 DEF SwapOK
  <2> QED  BY <1>12, <2>4, <2>5
<1> QED  BY <1>1, <1>2, <1>3, <1>4, <1>5, <1>6, <1>7, <1>8, <1>9, <1>10, <1>11, <1>12
         DEF MixNext, Mix

LEMMA InitInv == MixInit => IInv
BY DEF MixInit, IInv, ShapesOK, TickOK, HeardOK, NoTick

LEMMA Invariance == MixSpec => []IInv
<1>1. IInv /\ [MixNext]_mixVars => IInv'
    BY NextStep
<1> QED  BY InitInv, <1>1, PTL DEF MixSpec

-----------------------------------------------------------------------------
(* Why a tick ends                                                         *)

\* The end of a round takes all the frames that are left, or none.
LEMMA RoundCounts ==
    ASSUME NEW v, NEW t \in TickRec, AfterFrames(v, t)
    PROVE  tick'.size \in {0, t.size} /\ tick'.usmp = t.usmp
<1>1. \A w : Ended(w, t).tick.size = 0 /\ Ended(w, t).tick.usmp = t.usmp
    BY DEF Ended, TickRec
<1>2. CASE SampleEnds(v, t)
    BY <1>1, <1>2 DEF SampleEnds
<1>3. CASE PlaysOn(v, t)
    BY <1>3 DEF PlaysOn
<1>4. CASE QueueStops(v, t)
    BY <1>1, <1>4 DEF QueueStops
<1>5. \A wrap : [t EXCEPT !.wrap = wrap].size = t.size /\ [t EXCEPT !.wrap = wrap].usmp = t.usmp
    BY DEF TickRec
<1>6. CASE QueueSwaps(v, t)
    BY <1>5, <1>6 DEF QueueSwaps
<1>7. CASE LoopTurns(v, t)
    BY <1>5, <1>7 DEF LoopTurns
<1> QED  BY <1>2, <1>3, <1>4, <1>6, <1>7 DEF AfterFrames

\* libxmp_mixer_softmixer's inner loop: `samples` is at least 1 unless nothing
\* can be mixed, and then usmp falls.
LEMMA RoundAdvances ==
    ASSUME IInv, MixFrames \/ MixNothing
    PROVE  tick'.size + tick'.usmp < tick.size + tick.usmp
<1>1. tick.on /\ tick.size > 0 /\ tick \in TickRec /\ PlaysIn(voice)
    BY DEF MixFrames, MixNothing, IInv, TickOK
<1>2. /\ tick.size \in Nat \ {0} /\ tick.size <= TickSize /\ TickSize \in Nat \ {0}
      /\ tick.usmp \in 1 .. TickSize /\ tick.usmp \in Nat \ {0} /\ tick.step \in Nat \ {0}
  <2>1. tick.size \in 0 .. TickSize /\ tick.usmp \in 1 .. TickSize /\ tick.step \in Steps \ {0}
      BY <1>1 DEF TickRec
  <2>2. Steps \subseteq Nat /\ TickSize \in Nat \ {0}
      BY MixerAssumption
  <2>3. tick.step \in Nat \ {0}
      BY <2>1, <2>2
  <2>4. tick.size \in Nat \ {0} /\ tick.size <= TickSize /\ tick.usmp \in Nat \ {0}
      BY <1>1, <2>1, <2>2
  <2> QED  BY <2>1, <2>2, <2>3, <2>4
<1>3. ASSUME NEW t \in TickRec, NEW v, AfterFrames(v, t), t.usmp <= tick.usmp,
             t.size + t.usmp < tick.size + tick.usmp
      PROVE  tick'.size + tick'.usmp < tick.size + tick.usmp
  <2>1. tick'.size \in {0, t.size} /\ tick'.usmp = t.usmp
      BY <1>3, RoundCounts
  <2>2. t.size \in 0 .. TickSize /\ t.usmp \in 1 .. TickSize
      BY DEF TickRec
  <2> QED  BY <1>2, <1>3, <2>1, <2>2
<1>4. CASE MixFrames
  <2> DEFINE n == Smaller(Frames(voice, tick.step), tick.size)
             t == Remaining(tick, n)
  <2>1. \E v : AfterFrames(v, t)
      BY <1>4 DEF MixFrames
  <2>2. n \in 1 .. tick.size
    <3> DEFINE x == IF voice.reverse THEN voice.pos - voice.start ELSE voice.end - voice.pos
               f == (x + tick.step - 1) \div tick.step
    <3>1. x \in Nat \ {0}
      <4>1. voice.pos \in Int /\ voice.start \in Int /\ voice.end \in Int
            /\ voice.reverse \in BOOLEAN
          BY <1>1, VoiceFields DEF PlaysIn, VoiceRec
      <4>2. ~Stuck(voice)
          BY <1>4 DEF MixFrames
      <4> QED  BY <4>1, <4>2 DEF Stuck
    <3>2. f = Frames(voice, tick.step)
        BY DEF Frames
    <3> HIDE DEF x
    <3>3. f \in Nat \ {0}
        BY <1>2, <3>1, Ceiling
    <3>4. n = Smaller(f, tick.size)
        BY <3>2
    <3> HIDE DEF f, n
    <3> QED  BY <1>2, <3>3, <3>4 DEF Smaller
  <2> HIDE DEF n
  <2>3. tick.size - n \in 0 .. TickSize /\ tick.size - n < tick.size
      BY <1>2, <2>2
  <2>4. t \in TickRec /\ t.size = tick.size - n /\ t.usmp = tick.usmp
      BY <1>1, <2>3 DEF Remaining, TickRec
  <2> HIDE DEF t
  <2>5. t.usmp <= tick.usmp /\ t.size + t.usmp < tick.size + tick.usmp
      BY <1>2, <2>3, <2>4
  <2> QED  BY <1>3, <2>1, <2>4, <2>5
<1>5. CASE MixNothing
  <2>1. CASE tick.usmp <= 1
    <3>1. tick' = [tick EXCEPT !.size = 0]
        BY <1>5, <2>1 DEF MixNothing
    <3>2. tick'.size = 0 /\ tick'.usmp = tick.usmp
        BY <1>1, <3>1 DEF TickRec
    <3> QED  BY <1>2, <3>2
  <2>2. CASE ~(tick.usmp <= 1)
    <3> DEFINE t == [tick EXCEPT !.usmp = tick.usmp - 1]
    <3>1. AfterFrames(voice, t)
        BY <1>5, <2>2 DEF MixNothing
    <3>2. tick.usmp - 1 \in 1 .. TickSize
        BY <1>2, <2>2
    <3>3. t \in TickRec /\ t.size = tick.size /\ t.usmp = tick.usmp - 1
        BY <1>1, <3>2 DEF TickRec
    <3> HIDE DEF t
    <3>4. t.usmp <= tick.usmp /\ t.size + t.usmp < tick.size + tick.usmp
        BY <1>2, <3>3
    <3> QED  BY <1>3, <3>1, <3>3, <3>4
  <2> QED  BY <2>1, <2>2
<1> QED  BY <1>4, <1>5

-----------------------------------------------------------------------------
(* The theorems                                                            *)

\* libxmp_mixer_softmixer and loop_reposition: for every sample, loop, step and
\* tick, no frame is read before the sample's start, and a tick leaves no loop
\* excessively past its end.
THEOREM AlwaysStaysInSample == MixSpec => []StaysInSample
<1>1. ASSUME IInv  PROVE MixTypeOK
  <2>1. voice.used => HasEnds(voice)
      BY <1>1, VoiceFields
  <2>2. voice.used => voice.queued \in Samples \cup {NoSample, NotQueued}
      BY <2>1 DEF HasEnds, VoiceRec
  <2>3. tick.on /\ tick.size > 0 => voice.used
      BY <1>1 DEF IInv, TickOK, PlaysIn
  <2>4. tick.size \in 0 .. TickSize /\ tick.usmp \in 0 .. TickSize
    <3>1. TickSize \in Nat
        BY MixerAssumption
    <3>2. CASE tick.on
      <4>1. tick.size \in 0 .. TickSize /\ tick.usmp \in 1 .. TickSize
          BY <1>1, <3>2 DEF IInv, TickOK, TickRec
      <4> QED  BY <3>1, <4>1
    <3>3. CASE ~tick.on
        BY <1>1, <3>1, <3>3 DEF IInv, TickOK, NoTick
    <3> QED  BY <3>2, <3>3
  <2> QED  BY <2>1, <2>2, <2>3, <2>4 DEF MixTypeOK, HasEnds
<1>2. ASSUME IInv  PROVE StaysInSample
  <2>1. tick.on /\ tick.size = 0 /\ voice.used /\ ActiveLoop(voice) /\ ~tick.split
          /\ ~voice.paused /\ ~voice.reverse => voice.pos <= shape[voice.smp].len + 1
      BY <1>2 DEF IInv, TickOK, NotPastEnd
  <2> QED  BY <1>1, <1>2, <2>1 DEF StaysInSample, IInv, HeardOK
<1> QED  BY Invariance, <1>2, PTL

\* reset_sample_wraparound undoes every init_sample_wraparound, whichever
\* samples, loops and swaps a tick passes through.
THEOREM AlwaysDataRestored == MixSpec => []DataRestored
<1>1. IInv => DataRestored
    BY DEF IInv, TickOK, DataRestored
<1> QED  BY Invariance, <1>1, PTL

\* libxmp_mixer_softmixer passes over a voice that is paused.
THEOREM PausedNeverHeard == MixSpec => PausedIsSilent
<1>1. ASSUME IInv, [MixNext]_mixVars
      PROVE  [heard' # Silence => ~voice.paused]_mixVars
    BY <1>1, NextStep
<1> QED  BY Invariance, <1>1, PTL DEF MixSpec, PausedIsSilent

\* libxmp_mixer_queuepatch: the sample that waits begins where its comment says.
THEOREM QueuedSwapsAtLoopStart == MixSpec => SwapsAtLoopStart
<1>1. ASSUME IInv, [MixNext]_mixVars
      PROVE  [tick.on /\ voice'.used /\ voice'.smp # voice.smp =>
                LET s == shape[voice'.smp]
                IN  /\ voice'.pos = IF SustainLoop(voice') THEN s.sus
                                    ELSE IF s.loop # "off" THEN s.lps ELSE 0
                    /\ ActiveLoop(voice) \/ s.loop # "off"]_mixVars
    BY <1>1, NextStep DEF SwapOK, StartOf
<1> QED  BY Invariance, <1>1, PTL DEF MixSpec, SwapsAtLoopStart

\* No loop of libxmp_mixer_softmixer goes round forever: not for a sample that
\* cannot be played at its position, a loop shorter than a step or a sample that
\* is swapped at its end.
THEOREM TicksAlwaysAdvance == MixSpec => TicksAdvance
<1>1. ASSUME IInv, [MixNext]_mixVars
      PROVE  [tick.on /\ tick'.on => tick'.size + tick'.usmp < tick.size + tick.usmp]_mixVars
  <2>1. CASE MixFrames \/ MixNothing
      BY <1>1, <2>1, RoundAdvances
  <2>2. CASE EndTick
      BY <2>2 DEF EndTick, NoTick
  <2>3. CASE UNCHANGED mixVars
      BY <2>3
  <2>4. CASE ~tick.on
      BY <2>4
  <2>5. MixNext => MixFrames \/ MixNothing \/ EndTick \/ ~tick.on
      BY DEF MixNext, Mix, BeginTick, SetPatch, SetSmp, QueuePatch, SetPos, Release, Reverse,
             ResetVoice, Call
  <2> QED  BY <1>1, <2>1, <2>2, <2>3, <2>4, <2>5
<1> QED  BY Invariance, <1>1, PTL DEF MixSpec, TicksAdvance
=============================================================================
