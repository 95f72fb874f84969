---------------------------- MODULE SequencerProofs ---------------------------
(***************************************************************************)
(* For every song, the rules of every tracker, and any position calls and  *)
(* rescans at any moment: what is heard is a row of a pattern that exists, *)
(* and the next frame plays the order the caller has asked for.            *)
(* For any calls but rescans: no more visits of the sequence's end are     *)
(* waited for than the scan has counted, and an order that is asked for    *)
(* begins at its first row.                                                *)
(* For any calls but xmp_set_row: the player leaves the order of the rows  *)
(* only where the row that plays asks for it.                              *)
(***************************************************************************)
EXTENDS Sequencer, ScanProofs

\* The sequencer's part of struct player_data.  (The bounds of end_point and
\* loop_count are Bounded, below.)
Fields ==
    {"playing", "pos", "ord", "row", "frame", "num_rows", "end_point", "loop_count",
     "sequence", "bad", "ended", "force", "flow", "stale", "astray"}
IsPlayer(p) ==
    /\ DOMAIN p = Fields
    /\ p.pos \in {STOPPED, RESTART} \cup Orders /\ p.sequence \in Seqs
    /\ p.ord \in Nat /\ p.row \in Nat /\ p.num_rows \in Nat /\ p.frame \in Int
    /\ p.flow \in FlowRec /\ p.astray \in BOOLEAN /\ p.playing \in BOOLEAN
    /\ p.bad \in BOOLEAN /\ p.ended \in BOOLEAN

\* The player is at a row of an order that can be played.
Here(p) ==
    /\ Playable(p.ord)
    /\ ~p.astray => p.num_rows = Rows(p.ord) /\ p.row < p.num_rows

\* A frame that found something to play is there.
Arrived(p) == IsPlayer(p) /\ p.playing /\ (~p.bad => Here(p))

\* Between two frames; a player that found nothing has said so, or has not
\* been asked yet.
Sound(p) ==
    /\ IsPlayer(p)
    /\ ~p.playing => p.frame < 0
    /\ p.bad => p.ended \/ p.frame < 0
    /\ p.playing /\ ~p.bad => Here(p)

InfoType == [Orders -> [time : Int, row : Nat]]

SeqInv ==
    /\ ScanInv
    /\ entry[0] = 0 /\ info \in InfoType
    /\ Sound(player)

-----------------------------------------------------------------------------
(* Moving on                                                               *)

LEMMA SettleFields ==
    ASSUME SongOK, NEW o \in Int
    PROVE  Settle(o) \in Nat
<1>1. song.len \in Nat
    BY SongFields
<1>2. CASE o >= song.len
    BY <1>1, <1>2 DEF Settle
<1>3. CASE ~(o >= song.len)
  <2> DEFINE low == IF o < 0 THEN 0 ELSE o
             S == {i \in low .. song.len : i = song.len \/ EndMarked(i) \/ Valid(i)}
  <2>1. Settle(o) = Least(S)
      BY <1>3 DEF Settle
  <2>2. low \in Nat /\ low <= song.len
      BY <1>1, <1>3
  <2> HIDE DEF low
  <2>3. song.len \in S /\ S \subseteq Nat
      BY <1>1, <2>2
  <2> HIDE DEF S
  <2> QED  BY <2>1, <2>3, LeastFound
<1> QED  BY <1>2, <1>3

\* A playable order is entered at one of its rows.
LEMMA EnterOrderArrives ==
    ASSUME SongOK, NEW p, IsPlayer(p), p.playing, NEW o, Playable(o)
    PROVE  Arrived(EnterOrder(p, o))
<1> DEFINE row == BreakRow(p, o)
           flow == [ForgetLoops(p.flow) EXCEPT !.jumpline = 0]
           n == Rows(o)
           q == EnterOrder(p, o)
<1>1. q = [p EXCEPT !.ord = o, !.pos = o, !.frame = 0, !.bad = FALSE, !.astray = FALSE,
                    !.num_rows = n, !.row = row, !.flow = flow]
    BY DEF EnterOrder
<1>2. p.flow \in FlowRec /\ p.flow.jumpline \in Nat
    BY DEF IsPlayer, FlowRec
<1>3. o \in Orders /\ o \in Nat /\ n \in Nat \ {0}
    BY SongFields, OrderFacts DEF Playable
<1>4. row \in Nat /\ row < n
    BY <1>2, <1>3 DEF BreakRow
<1>5. flow \in FlowRec
  <2>1. ForgetLoops(p.flow) \in FlowRec
      BY <1>2, ForgetLoopsOK
  <2> QED  BY <2>1 DEF FlowRec
<1>6. n = Rows(o)
    OBVIOUS
<1> HIDE DEF n, row, flow, q
<1>7. 0 \in Int /\ n \in Nat
    BY <1>3
<1>8. /\ IsPlayer(q) /\ q.ord = o /\ q.num_rows = n /\ q.row = row /\ q.playing
    BY <1>1, <1>3, <1>4, <1>5, <1>7 DEF IsPlayer, Fields
<1> QED  BY <1>4, <1>6, <1>8 DEF Arrived, Here, q

LEMMA NextOrderArrives ==
    ASSUME SongOK, entry \in EntryType, NEW p, IsPlayer(p), p.playing, NEW o \in Int
    PROVE  Arrived(NextOrder(p, o))
<1> DEFINE first == Settle(o)
           from  == IF first < entry[p.sequence] THEN entry[p.sequence]
                    ELSE RestartOrder(p.sequence, entry[p.sequence])
           again == Settle(from)
           lost  == [p EXCEPT !.ord = again, !.bad = TRUE]
<1>1. NextOrder(p, o) = IF Playable(first) THEN EnterOrder(p, first)
                        ELSE IF Playable(again) THEN EnterOrder(p, again) ELSE lost
    BY DEF NextOrder
<1>2. from \in Int
  <2>1. entry[p.sequence] \in Orders
      BY DEF IsPlayer, EntryType
  <2>2. RestartOrder(p.sequence, entry[p.sequence]) \in Orders
      BY <2>1, SongFields DEF RestartOrder, Orders
  <2> QED  BY <2>1, <2>2, OrderFacts
<1>3. again \in Nat
    BY <1>2, SettleFields
<1> HIDE DEF first, from, again
<1>4. Arrived(lost)
    BY <1>3 DEF IsPlayer, Fields, Arrived
<1> HIDE DEF lost
<1> QED  BY <1>1, <1>4, EnterOrderArrives

LEMMA FlowFields ==
    ASSUME NEW f \in FlowRec, NEW n \in Int, NEW m \in Int, NEW k \in Int, NEW b \in BOOLEAN
    PROVE  /\ [f EXCEPT !.delay = n, !.loop_param = m, !.loop_dest = k] \in FlowRec
           /\ [f EXCEPT !.rowdelay = n, !.rowdelay_set = b] \in FlowRec
           /\ [f EXCEPT !.delay = n] \in FlowRec
           /\ [f EXCEPT !.loop_active = n] \in FlowRec
<1>1. [f EXCEPT !.delay = n, !.loop_param = m, !.loop_dest = k] \in FlowRec
    BY DEF FlowRec
<1>2. [f EXCEPT !.rowdelay = n, !.rowdelay_set = b] \in FlowRec
    BY DEF FlowRec
<1>3. [f EXCEPT !.delay = n] \in FlowRec
    BY DEF FlowRec
<1>4. [f EXCEPT !.loop_active = n] \in FlowRec
    BY DEF FlowRec
<1> QED  BY <1>1, <1>2, <1>3, <1>4

\* The next row lies in the pattern, or another order is entered.
LEMMA NextRowArrives ==
    ASSUME SongOK, entry \in EntryType, NEW p, IsPlayer(p), p.playing, Here(p)
    PROVE  Arrived(NextRow(p))
<1> DEFINE f == [p.flow EXCEPT !.delay = 0, !.loop_param = NONE, !.loop_dest = NONE]
           row == IF p.flow.loop_dest >= 0 THEN p.flow.loop_dest
                  ELSE IF f.rowdelay = 0 THEN p.row + 1 ELSE p.row
           g == [f EXCEPT !.rowdelay = IF @ = 0 THEN 0 ELSE @ - 1,
                          !.rowdelay_set = @ /\ f.rowdelay # 0]
           stay == [p EXCEPT !.frame = 0, !.row = row, !.flow = g]
           broken == [p EXCEPT !.frame = 0, !.flow = BreakDone(f)]
           to == IF f.jump = NONE THEN p.ord + 1 ELSE f.jump
<1>1. NextRow(p) = IF f.pbreak THEN NextOrder(broken, to)
                   ELSE IF PatternOver(p, row) THEN NextOrder(stay, p.ord + 1) ELSE stay
    BY DEF NextRow
<1>2. p.flow \in FlowRec /\ p.row \in Nat /\ p.ord \in Nat
    BY DEF IsPlayer
<1>0. NONE \in Int
    BY DEF NONE
<1>3. f \in FlowRec
  <2>1. 0 \in Int /\ TRUE \in BOOLEAN
      OBVIOUS
  <2> QED  BY <1>0, <1>2, <2>1, FlowFields
<1>4. row \in Nat
    BY <1>2 DEF FlowRec
<1> HIDE DEF f, row
<1>5. BreakDone(f) \in FlowRec /\ to \in Int
  <2>1. BreakDone(f) \in FlowRec
      BY <1>0, <1>3 DEF BreakDone, FlowRec
  <2>2. f.jump \in Int /\ p.ord + 1 \in Int
      BY <1>2, <1>3 DEF FlowRec
  <2> QED  BY <2>1, <2>2
<1>6. g \in FlowRec
  <2> DEFINE d == IF f.rowdelay = 0 THEN 0 ELSE f.rowdelay - 1
             b == f.rowdelay_set /\ f.rowdelay # 0
  <2>1. d \in Int /\ b \in BOOLEAN
      BY <1>3 DEF FlowRec
  <2>2. g = [f EXCEPT !.rowdelay = d, !.rowdelay_set = b]
      OBVIOUS
  <2> HIDE DEF d, b, g
  <2> QED  BY <1>3, <2>1, <2>2 DEF FlowRec
<1> HIDE DEF g, to
<1> DEFINE h == BreakDone(f)
<1> HIDE DEF h
<1>7. IsPlayer(broken) /\ broken.playing
  <2>1. broken = [p EXCEPT !.frame = 0, !.flow = h]
      BY DEF h
  <2>2. h \in FlowRec
      BY <1>5 DEF h
  <2> HIDE DEF broken
  <2>3. 0 \in Int
      OBVIOUS
  <2> QED  BY <2>1, <2>2, <2>3 DEF IsPlayer, Fields
<1>8. /\ IsPlayer(stay) /\ stay.playing /\ stay.ord = p.ord /\ stay.row = row
      /\ stay.num_rows = p.num_rows /\ stay.astray = p.astray
  <2>1. stay = [p EXCEPT !.frame = 0, !.row = row, !.flow = g]
      OBVIOUS
  <2> HIDE DEF stay
  <2>2. 0 \in Int
      OBVIOUS
  <2> QED  BY <1>4, <1>6, <2>1, <2>2 DEF IsPlayer, Fields
<1> HIDE DEF broken, stay
<1>9. ASSUME ~PatternOver(p, row)  PROVE Arrived(stay)
  <2>1. p.num_rows \in Nat /\ row < p.num_rows
      BY <1>4, <1>9 DEF PatternOver, IsPlayer
  <2> QED  BY <1>8, <2>1 DEF Arrived, Here
<1>10. p.ord + 1 \in Int
    BY <1>2
<1> QED  BY <1>1, <1>5, <1>7, <1>8, <1>9, <1>10, NextOrderArrives

LEMMA CheckEndArrives ==
    ASSUME NEW p, Arrived(p)
    PROVE  Arrived(CheckEnd(p)) /\ CheckEnd(p).bad = p.bad
           /\ CheckEnd(p).ord = p.ord /\ CheckEnd(p).row = p.row
<1>2. ASSUME NEW n, NEW m, CheckEnd(p) = [p EXCEPT !.loop_count = n, !.end_point = m]
      PROVE  Arrived(CheckEnd(p)) /\ CheckEnd(p).bad = p.bad
             /\ CheckEnd(p).ord = p.ord /\ CheckEnd(p).row = p.row
  <2> DEFINE q == CheckEnd(p)
  <2>1. q = [p EXCEPT !.loop_count = n, !.end_point = m]
      BY <1>2
  <2> HIDE DEF q
  <2>2. /\ IsPlayer(q) /\ q.playing = p.playing /\ q.bad = p.bad /\ q.ord = p.ord
        /\ q.row = p.row /\ q.astray = p.astray /\ q.num_rows = p.num_rows
      BY <2>1 DEF Arrived, IsPlayer, Fields
  <2> QED  BY <2>2 DEF Arrived, Here, q
<1> DEFINE left == IF p.end_point = 0 THEN ends[p.sequence].num ELSE p.end_point
           n == IF p.end_point = 0 THEN p.loop_count + 1 ELSE p.loop_count
           m == IF left > EndFloor THEN left - 1 ELSE left
<1>3. CheckEnd(p) = p \/ CheckEnd(p) = [p EXCEPT !.loop_count = n, !.end_point = m]
    BY DEF CheckEnd
<1> HIDE DEF n, m
<1> QED  BY <1>2, <1>3
-----------------------------------------------------------------------------
(* Reading a row                                                           *)

\* The flow record of a row while its channels are looked at.
ReadRec(o, row) == [flow : FlowRec, ord : {o}, row : {row}, first : BOOLEAN]

LEMMA RowEffectKeeps ==
    ASSUME SongOK, NEW o, Playable(o), NEW row \in Nat, NEW x \in ReadRec(o, row),
           NEW chn \in Chns
    PROVE  RowEffect(x, chn) \in ReadRec(o, row)
<1> DEFINE e == Effect(o, row, chn)
           f == x.flow
           delayed == [f EXCEPT !.rowdelay = e.arg, !.rowdelay_set = TRUE]
           d == IF "ST3_DELAY" \in Quirks /\ f.delay # 0 THEN f.delay ELSE e.arg
           held == [f EXCEPT !.delay = d]
           moved == FlowEffect(f, chn, o, row, e)
<1>1. x.ord = o /\ x.row = row /\ f \in FlowRec /\ o \in Int
    BY OrderFacts DEF ReadRec, Playable
<1>2. e.arg \in Nat
    BY SongFields DEF Playable
<1>3. \/ RowEffect(x, chn) = x
      \/ RowEffect(x, chn) = [x EXCEPT !.first = TRUE, !.flow = delayed]
      \/ RowEffect(x, chn) = [x EXCEPT !.flow = held]
      \/ RowEffect(x, chn) = [x EXCEPT !.flow = moved]
    BY <1>1, Zenon DEF RowEffect
<1>4. moved \in FlowRec
    BY <1>1, <1>2, FlowEffectKeeps
<1> HIDE DEF e, f
<1>5. d \in Int
    BY <1>1, <1>2 DEF FlowRec
<1> HIDE DEF d
<1>6. delayed \in FlowRec /\ held \in FlowRec
  <2>1. e.arg \in Int /\ TRUE \in BOOLEAN
      BY <1>2
  <2> QED  BY <1>1, <1>5, <2>1, FlowFields
<1> HIDE DEF delayed, held, moved
<1>7. ASSUME NEW g \in FlowRec, NEW b \in BOOLEAN
      PROVE  /\ [x EXCEPT !.flow = g] \in ReadRec(o, row)
             /\ [x EXCEPT !.first = b, !.flow = g] \in ReadRec(o, row)
    BY DEF ReadRec
<1> QED  BY <1>3, <1>4, <1>6, <1>7

\* The channels of a row, one after the other.
RowAfter(x) ==
    CHOOSE a : a = [n \in 0 .. NumChn |->
        IF n = 0 THEN {x} ELSE {RowEffect(y, n - 1) : y \in a[n - 1]}]

\* A set that each channel keeps to is kept to by the row.
LEMMA ChannelsRead ==
    ASSUME NEW R, NEW x \in R, \A y \in R, chn \in Chns : RowEffect(y, chn) \in R
    PROVE  OverChannels(RowEffect, x) \subseteq R
<1> DEFINE X == SUBSET R
           F == [p \in (0 .. NumChn) \X X |->
                   IF p[1] < NumChn THEN {RowEffect(y, p[1]) : y \in p[2]} ELSE {}]
<1>1. NumChn \in Nat
    BY NumChnAssumption
<1>2. ASSUME NEW n \in 0 .. NumChn, NEW S \in X, n < NumChn
      PROVE  {RowEffect(y, n) : y \in S} \in X
  <2>1. n \in Chns
      BY <1>1, <1>2 DEF Chns
  <2> QED  BY <2>1
<1>3. F \in [(0 .. NumChn) \X X -> X]
    BY <1>2
<1>4. \A n \in 0 .. NumChn, S \in X : n < NumChn => F[<<n, S>>] = {RowEffect(y, n) : y \in S}
    OBVIOUS
<1>5. {x} \in X
    OBVIOUS
<1>6. PICK g \in [0 .. NumChn -> X] : Recurs(g, NumChn, {x}, F)
  <2> HIDE DEF F, X
  <2> QED  BY <1>1, <1>3, <1>5, RecursiveFunction
<1>7. g = [n \in 0 .. NumChn |->
             IF n = 0 THEN {x} ELSE {RowEffect(y, n - 1) : y \in g[n - 1]}]
  <2> HIDE DEF F, X
  <2>1. ASSUME NEW n \in 0 .. NumChn, n # 0
        PROVE  F[<<n - 1, g[n - 1]>>] = {RowEffect(y, n - 1) : y \in g[n - 1]}
    <3>1. n - 1 \in 0 .. NumChn /\ n - 1 < NumChn
        BY <1>1, <2>1
    <3>2. g[n - 1] \in X
        BY <1>6, <3>1
    <3> QED  BY <1>4, <3>1, <3>2
  <2>2. \A n \in 0 .. NumChn :
           g[n] = IF n = 0 THEN {x} ELSE {RowEffect(y, n - 1) : y \in g[n - 1]}
      BY <1>6, <2>1 DEF Recurs
  <2> QED  BY <1>6, <2>2
<1> DEFINE a == RowAfter(x)
<1>8. a = [n \in 0 .. NumChn |->
             IF n = 0 THEN {x} ELSE {RowEffect(y, n - 1) : y \in a[n - 1]}]
    BY <1>7 DEF RowAfter
<1> HIDE DEF a
<1>9. a[NumChn] \in X
  <2> DEFINE S == {n \in 0 .. NumChn : a[n] \in X}
  <2>1. 0 \in S
    <3>1. 0 \in 0 .. NumChn
        BY <1>1
    <3>2. a[0] = {x}
        BY <1>8, <3>1
    <3> QED  BY <1>5, <3>1, <3>2
  <2>2. ASSUME NEW n \in 0 .. NumChn - 1, n \in S  PROVE n + 1 \in S
    <3>1. n \in 0 .. NumChn /\ n < NumChn /\ n + 1 \in 0 .. NumChn /\ n + 1 # 0
          /\ (n + 1) - 1 = n
        BY <1>1
    <3>2. a[n + 1] = {RowEffect(y, n) : y \in a[n]}
        BY <1>8, <3>1
    <3>3. a[n] \in X
        BY <2>2
    <3>4. a[n + 1] \in X
        BY <1>2, <3>1, <3>2, <3>3
    <3> QED  BY <3>1, <3>4
  <2>3. 0 .. NumChn \subseteq S
    <3> HIDE DEF S
    <3> QED  BY <1>1, <2>1, <2>2, UpTo
  <2> QED  BY <1>1, <2>3
<1>10. OverChannels(RowEffect, x) = a[NumChn]
    BY DEF OverChannels, RowAfter, a
<1> QED  BY <1>9, <1>10

\* Reading a row leaves the player at it.
LEMMA ReadArrives ==
    ASSUME SongOK, NEW p, Arrived(p), ~p.bad, NEW q \in Read(p)
    PROVE  Arrived(q) /\ ~q.bad
<1>1. CASE p.frame # 0
    BY <1>1 DEF Read
<1>2. CASE p.frame = 0
  <2> DEFINE c == CheckEnd(p)
             x0 == [flow |-> c.flow, ord |-> c.ord, row |-> c.row, first |-> FALSE]
  <2>1. Arrived(c) /\ ~c.bad
      BY CheckEndArrives
  <2>2. PICK x \in OverChannels(RowEffect, x0) :
             q = [c EXCEPT !.flow = [x.flow EXCEPT !.loop_active = 0]]
    <3>1. q \in ReadRow(c)
        BY <1>2 DEF Read
    <3> QED  BY <3>1 DEF ReadRow
  <2> HIDE DEF c
  <2>3. Playable(c.ord) /\ c.row \in Nat /\ c.flow \in FlowRec
      BY <2>1 DEF Arrived, Here, IsPlayer
  <2>4. x0 \in ReadRec(c.ord, c.row)
      BY <2>3 DEF ReadRec
  <2> HIDE DEF x0
  <2>5. x \in ReadRec(c.ord, c.row)
    <3> DEFINE R == ReadRec(c.ord, c.row)
    <3>1. \A y \in R, chn \in Chns : RowEffect(y, chn) \in R
        BY <2>3, RowEffectKeeps
    <3> HIDE DEF R
    <3> QED  BY <2>2, <2>4, <3>1, ChannelsRead DEF R
  <2> DEFINE f == [x.flow EXCEPT !.loop_active = 0]
  <2>6. f \in FlowRec
    <3>1. x.flow \in FlowRec
        BY <2>5 DEF ReadRec
    <3> QED  BY <3>1 DEF FlowRec
  <2>7. q = [c EXCEPT !.flow = f]
      BY <2>2
  <2> HIDE DEF f
  <2>8. /\ IsPlayer(q) /\ q.playing = c.playing /\ q.bad = c.bad /\ q.ord = c.ord
        /\ q.row = c.row /\ q.astray = c.astray /\ q.num_rows = c.num_rows
      BY <2>1, <2>6, <2>7 DEF Arrived, IsPlayer, Fields
  <2> QED  BY <2>1, <2>8 DEF Arrived, Here
<1> QED  BY <1>1, <1>2

LEMMA ProduceSound ==
    ASSUME SongOK, NEW q, Arrived(q), Produce(q)
    PROVE  Sound(player')
<1>1. CASE q.bad
  <2> DEFINE r == Ended(q)
  <2>1. player' = r /\ r = [q EXCEPT !.ended = TRUE]
      BY <1>1 DEF Produce, Ended
  <2> HIDE DEF r
  <2>2. IsPlayer(r) /\ r.playing = q.playing /\ r.bad = q.bad /\ r.ended
      BY <2>1 DEF Arrived, IsPlayer, Fields
  <2> QED  BY <1>1, <2>1, <2>2 DEF Sound, Arrived
<1>2. CASE ~q.bad
  <2>1. player' \in Read(q)
      BY <1>2 DEF Produce
  <2>2. Arrived(player') /\ ~player'.bad
      BY <1>2, <2>1, ReadArrives
  <2> QED  BY <2>2 DEF Sound, Arrived
<1> QED  BY <1>1, <1>2

-----------------------------------------------------------------------------
(* Position calls                                                          *)

\* A change of what the caller wants leaves the player where it is.
LEMMA StaysSound ==
    ASSUME NEW p, Sound(p), NEW q, IsPlayer(q), q.playing = p.playing, q.bad = p.bad,
           q.ended = p.ended, q.frame = p.frame, q.ord = p.ord, q.row = p.row,
           q.num_rows = p.num_rows, q.astray = p.astray
    PROVE  Sound(q)
BY DEF Sound, Here

\* What a call may touch.
LEMMA PlaceSound ==
    ASSUME NEW p, Sound(p), NEW pos \in {STOPPED, RESTART} \cup Orders, NEW f \in FlowRec, NEW b
    PROVE  Sound([p EXCEPT !.pos = pos, !.flow = f, !.force = b])
<1> DEFINE q == [p EXCEPT !.pos = pos, !.flow = f, !.force = b]
<1>1. IsPlayer(p)
    BY DEF Sound
<1>2. q = [p EXCEPT !.pos = pos, !.flow = f, !.force = b]
    OBVIOUS
<1> HIDE DEF q
<1>3. /\ IsPlayer(q) /\ q.playing = p.playing /\ q.bad = p.bad /\ q.ended = p.ended
      /\ q.frame = p.frame /\ q.ord = p.ord /\ q.row = p.row
      /\ q.num_rows = p.num_rows /\ q.astray = p.astray
    BY <1>1, <1>2 DEF IsPlayer, Fields
<1>4. Sound(q)
    BY <1>3, StaysSound
<1> QED  BY <1>4 DEF q

LEMMA RestartSound ==
    ASSUME NEW p, Sound(p), NEW pos \in {STOPPED, RESTART} \cup Orders, NEW f \in FlowRec, NEW b, NEW n
    PROVE  Sound([p EXCEPT !.pos = pos, !.flow = f, !.force = b, !.loop_count = n])
<1> DEFINE q == [p EXCEPT !.pos = pos, !.flow = f, !.force = b, !.loop_count = n]
<1>1. IsPlayer(p)
    BY DEF Sound
<1>2. q = [p EXCEPT !.pos = pos, !.flow = f, !.force = b, !.loop_count = n]
    OBVIOUS
<1> HIDE DEF q
<1>3. /\ IsPlayer(q) /\ q.playing = p.playing /\ q.bad = p.bad /\ q.ended = p.ended
      /\ q.frame = p.frame /\ q.ord = p.ord /\ q.row = p.row
      /\ q.num_rows = p.num_rows /\ q.astray = p.astray
    BY <1>1, <1>2 DEF IsPlayer, Fields
<1>4. Sound(q)
    BY <1>3, StaysSound
<1> QED  BY <1>4 DEF q

LEMMA SequenceSound ==
    ASSUME NEW p, Sound(p), NEW seq \in Seqs
    PROVE  Sound([p EXCEPT !.sequence = seq])
<1> DEFINE q == [p EXCEPT !.sequence = seq]
<1>1. IsPlayer(p)
    BY DEF Sound
<1>2. q = [p EXCEPT !.sequence = seq]
    OBVIOUS
<1> HIDE DEF q
<1>3. /\ IsPlayer(q) /\ q.playing = p.playing /\ q.bad = p.bad /\ q.ended = p.ended
      /\ q.frame = p.frame /\ q.ord = p.ord /\ q.row = p.row
      /\ q.num_rows = p.num_rows /\ q.astray = p.astray
    BY <1>1, <1>2 DEF IsPlayer, Fields
<1>4. Sound(q)
    BY <1>3, StaysSound
<1> QED  BY <1>4 DEF q

LEMMA FlowSound ==
    ASSUME NEW p, Sound(p), NEW f \in FlowRec, NEW b
    PROVE  Sound([p EXCEPT !.flow = f, !.force = b])
<1> DEFINE q == [p EXCEPT !.flow = f, !.force = b]
<1>1. IsPlayer(p)
    BY DEF Sound
<1>2. q = [p EXCEPT !.flow = f, !.force = b]
    OBVIOUS
<1> HIDE DEF q
<1>3. /\ IsPlayer(q) /\ q.playing = p.playing /\ q.bad = p.bad /\ q.ended = p.ended
      /\ q.frame = p.frame /\ q.ord = p.ord /\ q.row = p.row
      /\ q.num_rows = p.num_rows /\ q.astray = p.astray
    BY <1>1, <1>2 DEF IsPlayer, Fields
<1>4. Sound(q)
    BY <1>3, StaysSound
<1> QED  BY <1>4 DEF q

LEMMA StaleSound ==
    ASSUME NEW p, Sound(p), NEW b
    PROVE  Sound([p EXCEPT !.stale = b])
<1> DEFINE q == [p EXCEPT !.stale = b]
<1>1. IsPlayer(p)
    BY DEF Sound
<1>2. q = [p EXCEPT !.stale = b]
    OBVIOUS
<1> HIDE DEF q
<1>3. /\ IsPlayer(q) /\ q.playing = p.playing /\ q.bad = p.bad /\ q.ended = p.ended
      /\ q.frame = p.frame /\ q.ord = p.ord /\ q.row = p.row
      /\ q.num_rows = p.num_rows /\ q.astray = p.astray
    BY <1>1, <1>2 DEF IsPlayer, Fields
<1>4. Sound(q)
    BY <1>3, StaysSound
<1> QED  BY <1>4 DEF q

LEMMA SequenceStaleSound ==
    ASSUME NEW p, Sound(p), NEW seq \in Seqs, NEW b
    PROVE  Sound([p EXCEPT !.sequence = seq, !.stale = b])
<1> DEFINE q == [p EXCEPT !.sequence = seq, !.stale = b]
<1>1. IsPlayer(p)
    BY DEF Sound
<1>2. q = [p EXCEPT !.sequence = seq, !.stale = b]
    OBVIOUS
<1> HIDE DEF q
<1>3. /\ IsPlayer(q) /\ q.playing = p.playing /\ q.bad = p.bad /\ q.ended = p.ended
      /\ q.frame = p.frame /\ q.ord = p.ord /\ q.row = p.row
      /\ q.num_rows = p.num_rows /\ q.astray = p.astray
    BY <1>1, <1>2 DEF IsPlayer, Fields
<1>4. Sound(q)
    BY <1>3, StaysSound
<1> QED  BY <1>4 DEF q

LEMMA MovedSound ==
    ASSUME NEW p, Sound(p), NEW pos \in {RESTART} \cup Orders
    PROVE  LET q == Moved(p, pos)
           IN  /\ Sound(q) /\ q.ord = p.ord /\ q.row = p.row /\ q.frame = p.frame
               /\ q.num_rows = p.num_rows /\ q.astray = p.astray
               /\ q.playing = p.playing /\ q.bad = p.bad
<1> DEFINE to == IF pos = 0 THEN RESTART ELSE pos
           f == ResetFlow
           q == Moved(p, pos)
<1>1. q = [p EXCEPT !.pos = to, !.flow = f, !.force = FALSE]
    BY DEF Moved
<1>2. to \in {STOPPED, RESTART} \cup Orders /\ f \in FlowRec
    BY ResetFlowOK
<1> HIDE DEF to, f, q
<1>3. Sound(q)
    BY <1>1, <1>2, PlaceSound
<1>4. DOMAIN p = Fields
    BY DEF Sound, IsPlayer
<1>5. /\ q.ord = p.ord /\ q.row = p.row /\ q.frame = p.frame
      /\ q.num_rows = p.num_rows /\ q.astray = p.astray
      /\ q.playing = p.playing /\ q.bad = p.bad
    BY <1>1, <1>4 DEF Fields
<1> QED  BY <1>3, <1>5 DEF q

\* A move to another order leaves the player astray, one to its own gives it
\* back the rows it has.
LEMMA MoveToSound ==
    ASSUME SongOK, NEW p, Sound(p), NEW seq \in Seqs, NEW pos \in {RESTART} \cup Orders
    PROVE  Sound(MoveTo(p, seq, pos))
<1> DEFINE beyond == pos > ends[seq].ord
           m == Moved(p, pos)
           q == [m EXCEPT !.sequence = seq]
           s == q.stale \/ seq # p.sequence
           e == IF beyond THEN 0 ELSE ends[seq].num
           n == IF beyond THEN q.num_rows ELSE Rows(pos)
           a == q.astray \/ (~beyond /\ pos # p.ord)
           r == [q EXCEPT !.stale = FALSE, !.end_point = e, !.num_rows = n, !.astray = a]
<1>1. MoveTo(p, seq, pos) = IF pos \notin Orders \/ ~Valid(pos)
                            THEN [q EXCEPT !.stale = s] ELSE r
    BY DEF MoveTo
<1>2. /\ Sound(m) /\ m.ord = p.ord
    BY MovedSound
<1>3. Sound(q)
  <2> HIDE DEF m
  <2> QED  BY <1>2, SequenceSound
<1>4. q.ord = p.ord
  <2> HIDE DEF m
  <2>1. DOMAIN m = Fields
      BY <1>2 DEF Sound, IsPlayer
  <2> QED  BY <1>2, <2>1 DEF Fields
<1> HIDE DEF q, s, beyond
<1>5. Sound([q EXCEPT !.stale = s])
    BY <1>3, StaleSound
<1>6. ASSUME pos \in Orders, Valid(pos)  PROVE Sound(r)
  <2>1. IsPlayer(q)
      BY <1>3 DEF Sound
  <2>2. Rows(pos) \in Nat
      BY <1>6, SongFields
  <2>3. n \in Nat /\ a \in BOOLEAN
      BY <2>1, <2>2 DEF IsPlayer
  <2>4. /\ beyond => n = q.num_rows
        /\ ~beyond => n = Rows(pos)
        /\ ~a => ~q.astray /\ (beyond \/ pos = q.ord)
      BY <1>4, <2>1 DEF IsPlayer
  <2> HIDE DEF n, a, e
  <2>5. /\ IsPlayer(r) /\ r.playing = q.playing /\ r.bad = q.bad /\ r.ended = q.ended
        /\ r.frame = q.frame /\ r.ord = q.ord /\ r.row = q.row
        /\ r.num_rows = n /\ r.astray = a
      BY <2>1, <2>3 DEF IsPlayer, Fields
  <2> HIDE DEF r
  <2>6. Here(q) => Here(r)
    <3>1. SUFFICES ASSUME Here(q), ~a  PROVE n = Rows(q.ord) /\ q.row < n
        BY <2>5 DEF Here
    <3>2. q.num_rows = Rows(q.ord) /\ q.row < q.num_rows
        BY <2>4, <3>1 DEF Here
    <3> QED  BY <2>4, <3>1, <3>2
  <2> QED  BY <1>3, <2>5, <2>6 DEF Sound
<1> QED  BY <1>1, <1>5, <1>6

\* Passing skip markers stays in the list.
LEMMA UnmarkedFields ==
    ASSUME SongOK, NEW pos, NEW dir
    PROVE  Unmarked(pos, dir) = pos \/ Unmarked(pos, dir) \in Orders
<1> DEFINE skipped(o) ==
               "MARKER" \in Quirks /\ o > 0 /\ o < song.len - 1 /\ song.xxo[o] = SKIP
           Down == {o \in 0 .. pos : ~skipped(o)}
           Up == {o \in pos .. song.len - 1 : ~skipped(o)}
<1>1. Unmarked(pos, dir) = IF pos \notin Orders THEN pos
                           ELSE IF dir < 0 THEN Largest(Down) ELSE Least(Up)
    BY DEF Unmarked
<1>2. SUFFICES ASSUME pos \in Orders  PROVE Largest(Down) \in Orders /\ Least(Up) \in Orders
    BY <1>1
<1>3. song.len \in Nat \ {0} /\ pos \in 0 .. song.len - 1
    BY <1>2, SongFields DEF Orders
<1>4. 0 \in Down /\ Down \subseteq 0 .. pos
    BY <1>3
<1>5. song.len - 1 \in Up /\ Up \subseteq Nat /\ Up \subseteq Orders
    BY <1>3 DEF Orders
<1>6. 0 .. pos \subseteq Orders /\ pos \in Nat
    BY <1>3 DEF Orders
<1> HIDE DEF Down, Up
<1>7. Largest(Down) \in Down
    BY <1>4, <1>6, LargestFound
<1>8. Least(Up) \in Up
    BY <1>5, LeastFound
<1> QED  BY <1>4, <1>5, <1>6, <1>7, <1>8

\* The sequence of an order, once the module is scanned.
LEMMA SequenceFields ==
    ASSUME ScanInv
    PROVE  /\ control \in ControlType /\ entry \in EntryType
           /\ \A n \in Seqs \cup {NO_SEQUENCE} : n < num_seq => n \in Seqs
           /\ Scanned => \A o \in Orders : control[o] \in Seqs
<1>1. /\ control \in ControlType /\ entry \in EntryType /\ num_seq \in 0 .. MaxSequences
      /\ Scanned => Settled(control, entry, num_seq)
    BY DEF ScanInv, Good, Scanned
<1>2. ASSUME NEW n \in Seqs \cup {NO_SEQUENCE}, n < num_seq  PROVE n \in Seqs
    BY <1>1, <1>2, SeqFacts
<1>3. ASSUME Scanned, NEW o \in Orders  PROVE control[o] \in Seqs
  <2>1. control[o] \in Seqs \cup {NO_SEQUENCE} /\ control[o] < num_seq
      BY <1>1, <1>3 DEF ControlType, Settled
  <2> QED  BY <1>2, <2>1
<1> QED  BY <1>1, <1>2, <1>3

LEMMA MovePositionSound ==
    ASSUME ScanInv, NEW p, Sound(p), NEW pos \in {RESTART} \cup Nat, NEW dir
    PROVE  Sound(MovePosition(p, pos, dir))
<1> DEFINE seq == IF dir # 0 THEN p.sequence
                  ELSE IF pos \in Orders THEN control[pos] ELSE NO_SEQUENCE
           o == Unmarked(pos, dir)
<1>1. MovePosition(p, pos, dir) =
         IF seq >= num_seq THEN p
         ELSE IF PastList(o) THEN [p EXCEPT !.sequence = seq] ELSE MoveTo(p, seq, o)
    BY DEF MovePosition
<1>2. SongOK
    BY DEF ScanInv, SongOK
<1>3. seq \in Seqs \cup {NO_SEQUENCE}
    BY SequenceFields DEF Sound, IsPlayer, ControlType
<1> HIDE DEF seq
<1>4. num_seq \in Nat /\ Seqs \cup {NO_SEQUENCE} \subseteq Nat
    BY SeqFacts DEF ScanInv, Good
<1>5. ASSUME ~(seq >= num_seq)  PROVE seq \in Seqs
    BY <1>3, <1>4, <1>5, SequenceFields
<1>6. ASSUME ~PastList(o)  PROVE o \in {RESTART} \cup Orders
  <2>1. o = pos \/ o \in Orders
      BY <1>2, UnmarkedFields
  <2>2. CASE o = pos
      BY <1>2, <1>6, <2>2, SongFields DEF PastList, Orders
  <2> QED  BY <2>1, <2>2
<1> HIDE DEF o
<1>7. ASSUME seq \in Seqs  PROVE Sound([p EXCEPT !.sequence = seq])
    BY <1>7, SequenceSound
<1>8. ASSUME seq \in Seqs, o \in {RESTART} \cup Orders  PROVE Sound(MoveTo(p, seq, o))
    BY <1>2, <1>8, MoveToSound
<1> QED  BY <1>1, <1>5, <1>6, <1>7, <1>8

-----------------------------------------------------------------------------
(* The steps of the player                                                 *)

LEMMA NoPlayerFields ==
    ASSUME SongOK
    PROVE  /\ IsPlayer(NoPlayer) /\ ~NoPlayer.playing /\ NoPlayer.frame = -1
           /\ ~NoPlayer.bad /\ NoPlayer.row = 0
<1>1. 0 \in Orders /\ 0 \in Seqs /\ ResetFlow \in FlowRec
    BY OrderFacts, SeqFacts, ResetFlowOK
<1> DEFINE f == ResetFlow
<1> HIDE DEF f
<1>2. NoPlayer =
         [playing |-> FALSE, pos |-> 0, ord |-> 0, row |-> 0, frame |-> -1,
          num_rows |-> 0, end_point |-> 0, loop_count |-> 0, sequence |-> 0,
          bad |-> FALSE, ended |-> FALSE, force |-> FALSE, flow |-> f,
          stale |-> FALSE, astray |-> FALSE]
    BY DEF NoPlayer, f
<1>3. DOMAIN NoPlayer = Fields
    BY <1>2 DEF Fields
<1>4. /\ NoPlayer.pos = 0 /\ NoPlayer.sequence = 0 /\ NoPlayer.ord = 0 /\ NoPlayer.row = 0
      /\ NoPlayer.num_rows = 0 /\ NoPlayer.frame = -1 /\ NoPlayer.flow = f
      /\ NoPlayer.astray = FALSE /\ NoPlayer.playing = FALSE /\ NoPlayer.bad = FALSE
      /\ NoPlayer.ended = FALSE
    BY <1>2
<1>5. f \in FlowRec /\ 0 \in Nat /\ -1 \in Int
    BY <1>1 DEF f
<1> DEFINE p == NoPlayer
<1> HIDE DEF p
<1>6. IsPlayer(p)
    BY <1>1, <1>3, <1>4, <1>5 DEF IsPlayer, p
<1> QED  BY <1>4, <1>6 DEF p

LEMMA StartSound ==
    ASSUME SongOK, StartPlayer
    PROVE  Sound(player')
<1> DEFINE o == Settle(0)
           n == Rows(o)
           e == ends[0].num
           p == NoPlayer
           q == [p EXCEPT !.playing = TRUE, !.ord = o, !.num_rows = n, !.end_point = e]
           r == [p EXCEPT !.playing = TRUE, !.bad = TRUE]
<1>1. player' = IF Playable(o) THEN q ELSE r
    BY DEF StartPlayer
<1>2. IsPlayer(p) /\ p.frame = -1 /\ ~p.bad /\ p.row = 0
    BY NoPlayerFields
<1> HIDE DEF p, e
<1>3. ASSUME Playable(o)  PROVE Sound(q)
  <2>1. n \in Nat \ {0} /\ o \in Nat
      BY <1>3, SongFields, OrderFacts DEF Playable
  <2>2. n = Rows(o)
      OBVIOUS
  <2> HIDE DEF n, o
  <2>3. n \in Nat
      BY <2>1
  <2> HIDE DEF q
  <2>4. q = [p EXCEPT !.playing = TRUE, !.ord = o, !.num_rows = n, !.end_point = e]
      BY DEF q
  <2>5. /\ IsPlayer(q) /\ q.playing /\ q.bad = p.bad /\ q.row = p.row
        /\ q.ord = o /\ q.num_rows = n
      BY <1>2, <2>1, <2>3, <2>4 DEF IsPlayer, Fields
  <2>6. q.row < q.num_rows
      BY <1>2, <2>1, <2>5
  <2> QED  BY <1>2, <1>3, <2>2, <2>5, <2>6 DEF Sound, Here
<1>4. Sound(r)
  <2> HIDE DEF r
  <2>1. r = [p EXCEPT !.playing = TRUE, !.bad = TRUE]
      BY DEF r
  <2>2. IsPlayer(r) /\ r.playing /\ r.bad /\ r.frame = p.frame
      BY <1>2, <2>1 DEF IsPlayer, Fields
  <2>3. r.frame < 0
      BY <1>2, <2>2
  <2> QED  BY <2>2, <2>3 DEF Sound
<1> QED  BY <1>1, <1>3, <1>4

\* A frame that is not played.
LEMMA EndedSound ==
    ASSUME NEW p, IsPlayer(p), ~p.playing => p.frame < 0, p.playing /\ ~p.bad => Here(p)
    PROVE  Sound(Ended(p))
<1> DEFINE q == Ended(p)
<1>1. q = [p EXCEPT !.ended = TRUE]
    BY DEF Ended
<1> HIDE DEF q
<1>2. /\ IsPlayer(q) /\ q.playing = p.playing /\ q.bad = p.bad /\ q.ended
      /\ q.frame = p.frame /\ q.ord = p.ord /\ q.row = p.row
      /\ q.num_rows = p.num_rows /\ q.astray = p.astray
    BY <1>1 DEF IsPlayer, Fields
<1> QED  BY <1>2 DEF Sound, Here, q

LEMMA NothingSound ==
    ASSUME Sound(player), PlayNothing
    PROVE  Sound(player')
<1> DEFINE p == player
           q == [p EXCEPT !.force = FALSE]
<1>1. player' = Ended(q) \/ player' = Ended(p)
    BY DEF PlayNothing
<1>2. IsPlayer(p) /\ (~p.playing => p.frame < 0) /\ (p.playing /\ ~p.bad => Here(p))
    BY DEF Sound
<1>3. Sound(Ended(p))
    BY <1>2, EndedSound
<1>4. Sound(Ended(q))
  <2> HIDE DEF p
  <2>1. q = [p EXCEPT !.force = FALSE]
      OBVIOUS
  <2> HIDE DEF q
  <2>2. /\ IsPlayer(q) /\ q.playing = p.playing /\ q.bad = p.bad
        /\ q.frame = p.frame /\ q.ord = p.ord /\ q.row = p.row
        /\ q.num_rows = p.num_rows /\ q.astray = p.astray
      BY <1>2, <2>1 DEF IsPlayer, Fields
  <2>3. q.playing /\ ~q.bad => Here(q)
      BY <1>2, <2>2 DEF Here
  <2> QED  BY <1>2, <2>2, <2>3, EndedSound
<1> QED  BY <1>1, <1>3, <1>4

LEMMA ElsewhereSound ==
    ASSUME SongOK, entry \in EntryType, Sound(player), PlayElsewhere
    PROVE  Sound(player')
<1> DEFINE start == entry[player.sequence]
           pos == IF player.pos = RESTART THEN start ELSE player.pos
           f == player.flow
           g == [f EXCEPT !.jump = NONE]
           e == EndPointFrom(player, pos)
           p == [player EXCEPT !.force = FALSE, !.pos = pos, !.ended = FALSE,
                               !.end_point = e, !.flow = g]
           from == IF pos < start THEN start ELSE pos
<1>1. player.playing /\ Produce(NextOrder(p, from))
    BY DEF PlayElsewhere, Playing
<1>2. IsPlayer(player)
    BY DEF Sound
<1>3. start \in Orders /\ player.pos \in {STOPPED, RESTART} \cup Orders /\ f \in FlowRec
    BY <1>2 DEF IsPlayer, EntryType
<1>4. pos \in {STOPPED, RESTART} \cup Orders /\ from \in Int
    BY <1>3, OrderFacts DEF STOPPED, RESTART
<1>5. g \in FlowRec
  <2> HIDE DEF f
  <2>1. NONE \in Int
      BY DEF NONE
  <2> QED  BY <1>3, <2>1 DEF FlowRec
<1> HIDE DEF start, pos, e, g, from
<1>6. IsPlayer(p) /\ p.playing = player.playing
    BY <1>2, <1>4, <1>5 DEF IsPlayer, Fields
<1> HIDE DEF p
<1>7. Arrived(NextOrder(p, from))
    BY <1>1, <1>4, <1>6, NextOrderArrives
<1> QED  BY <1>1, <1>7, ProduceSound

LEMMA TickedArrives ==
    ASSUME Sound(player), player.playing, ~player.bad
    PROVE  Arrived(Ticked) /\ ~Ticked.bad
<1> DEFINE p == player
           n == p.frame + 1
           q == Ticked
<1>1. IsPlayer(p) /\ Here(p)
    BY DEF Sound
<1>2. n \in Int
    BY <1>1 DEF IsPlayer
<1>3. q = [p EXCEPT !.frame = n, !.ended = FALSE]
    BY DEF Ticked
<1> HIDE DEF q, n
<1>4. /\ IsPlayer(q) /\ q.playing = p.playing /\ q.bad = p.bad
      /\ q.ord = p.ord /\ q.row = p.row
      /\ q.num_rows = p.num_rows /\ q.astray = p.astray
  <2> HIDE DEF p
  <2> QED  BY <1>1, <1>2, <1>3 DEF IsPlayer, Fields
<1> QED  BY <1>1, <1>4 DEF Arrived, Here, q

LEMMA PlayOnSound ==
    ASSUME SongOK, entry \in EntryType, Sound(player), PlayOn
    PROVE  Sound(player')
<1>1. player.playing /\ ~player.bad
    BY DEF PlayOn, Playing
<1>2. PICK q \in {IF RowOver THEN NextRow(Ticked) ELSE Ticked} : Produce(q)
    BY DEF PlayOn
<1>3. Arrived(Ticked) /\ ~Ticked.bad
    BY <1>1, TickedArrives
<1>4. IsPlayer(Ticked) /\ Ticked.playing /\ Here(Ticked)
    BY <1>3 DEF Arrived
<1>5. Arrived(NextRow(Ticked))
    BY <1>4, NextRowArrives
<1>6. Arrived(q)
    BY <1>2, <1>3, <1>5
<1> QED  BY <1>2, <1>6, ProduceSound

LEMMA PlaySkippingSound ==
    ASSUME SongOK, entry \in EntryType, Sound(player), PlaySkipping
    PROVE  Sound(player')
<1>1. player.playing /\ ~player.bad
    BY DEF PlaySkipping, Playing
<1> DEFINE first == NextRow(Ticked)
<1>2. IF first.bad THEN player' = Ended(first) ELSE Produce(NextRow(CheckEnd(first)))
    BY DEF PlaySkipping
<1>3. Arrived(first)
  <2>1. IsPlayer(Ticked) /\ Ticked.playing /\ Here(Ticked)
      BY <1>1, TickedArrives DEF Arrived
  <2> QED  BY <2>1, NextRowArrives
<1> HIDE DEF first
<1>4. CASE first.bad
  <2>1. Sound(Ended(first))
      BY <1>3, EndedSound DEF Arrived
  <2> QED  BY <1>2, <1>4, <2>1
<1>5. CASE ~first.bad
  <2> DEFINE c == CheckEnd(first)
  <2>1. IsPlayer(c) /\ c.playing /\ Here(c)
      BY <1>3, <1>5, CheckEndArrives DEF Arrived
  <2> HIDE DEF c
  <2>2. Arrived(NextRow(c))
      BY <2>1, NextRowArrives
  <2> QED  BY <1>2, <1>5, <2>2, ProduceSound DEF c
<1> QED  BY <1>4, <1>5

-----------------------------------------------------------------------------
(* The calls                                                               *)

LEMMA NextSound ==
    ASSUME ScanInv, Sound(player), NextPosition
    PROVE  Sound(player')
<1>1. \/ player' = player
      \/ player' = MovePosition(player, RESTART, 1)
      \/ player.pos >= 0 /\ player' = MovePosition(player, player.pos + 1, 1)
  <2>1. player.pos \in Int
    <3>1. Orders \subseteq Int
        BY OrderFacts DEF ScanInv, SongOK
    <3>2. player.pos \in {STOPPED, RESTART} \cup Orders
        BY DEF Sound, IsPlayer
    <3>3. STOPPED \in Int /\ RESTART \in Int
        BY DEF STOPPED, RESTART
    <3> QED  BY <3>1, <3>2, <3>3
  <2> QED  BY <2>1 DEF NextPosition, Call
<1>2. ASSUME player.pos >= 0  PROVE player.pos + 1 \in Nat
  <2>1. player.pos \in Orders
      BY <1>2 DEF Sound, IsPlayer, STOPPED, RESTART
  <2> QED  BY <2>1, OrderFacts DEF ScanInv, SongOK
<1>3. Sound(MovePosition(player, RESTART, 1))
    BY MovePositionSound
<1> QED  BY <1>1, <1>2, <1>3, MovePositionSound

LEMMA PrevSound ==
    ASSUME ScanInv, Sound(player), PrevPosition
    PROVE  Sound(player')
<1> DEFINE start == entry[player.sequence]
<1>1. \/ player' = player
      \/ player' = MovePosition(player, RESTART, -1)
      \/ player.pos > start /\ player' = MovePosition(player, player.pos - 1, -1)
    BY DEF PrevPosition, Call
<1>2. SongOK
    BY DEF ScanInv, SongOK
<1>3. start \in Nat
  <2>1. entry \in EntryType /\ player.sequence \in Seqs
      BY SequenceFields DEF Sound, IsPlayer
  <2>2. start \in Orders
      BY <2>1 DEF EntryType
  <2> QED  BY <1>2, <2>2, OrderFacts
<1> HIDE DEF start
<1>4. ASSUME player.pos > start  PROVE player.pos - 1 \in Nat
  <2>1. player.pos \in Orders
      BY <1>3, <1>4 DEF Sound, IsPlayer, STOPPED, RESTART
  <2>2. player.pos \in Nat
      BY <1>2, <2>1, OrderFacts
  <2> QED  BY <1>3, <1>4, <2>2
<1>5. Sound(MovePosition(player, RESTART, -1))
    BY MovePositionSound
<1> QED  BY <1>1, <1>4, <1>5, MovePositionSound

LEMMA SetSound ==
    ASSUME ScanInv, Sound(player), NEW pos \in Orders, SetPosition(pos)
    PROVE  Sound(player')
<1>1. player' = MovePosition(player, pos, 0)
    BY DEF SetPosition, Call
<1>2. pos \in {RESTART} \cup Nat
    BY OrderFacts DEF ScanInv, SongOK
<1> QED  BY <1>1, <1>2, MovePositionSound

LEMMA RowSound ==
    ASSUME SongOK, Sound(player), NEW row \in Nat, SetRow(row)
    PROVE  Sound(player')
<1> DEFINE p == player
           o == IF p.pos \in Orders THEN p.pos ELSE 0
           n == Rows(o)
           q == [p EXCEPT !.pos = o, !.ord = o, !.row = row, !.frame = -1,
                          !.bad = FALSE, !.astray = FALSE, !.num_rows = n]
<1>1. player' = q /\ Valid(o) /\ row < n /\ p.playing
    BY DEF SetRow, Call, Playing
<1>2. o \in Orders /\ o \in Nat /\ n \in Nat
    BY <1>1, SongFields, OrderFacts
<1>3. IsPlayer(p) /\ n = Rows(o) /\ -1 \in Int
    BY DEF Sound
<1> HIDE DEF p, o, n
<1>4. player' = q
    BY <1>1
<1> HIDE DEF q
<1>5. q = [p EXCEPT !.pos = o, !.ord = o, !.row = row, !.frame = -1,
                    !.bad = FALSE, !.astray = FALSE, !.num_rows = n]
    BY DEF q
<1>6. IsPlayer(q) /\ q.ord = o /\ q.row = row /\ q.num_rows = n /\ ~q.bad /\ q.playing
    BY <1>1, <1>2, <1>3, <1>5 DEF IsPlayer, Fields
<1> QED  BY <1>1, <1>2, <1>3, <1>4, <1>6 DEF Sound, Here, Playable

LEMMA StopSound ==
    ASSUME Sound(player), StopModule \/ RestartModule
    PROVE  Sound(player')
<1> DEFINE p == player
           f == ResetFlow
           b == FALSE
           q == [p EXCEPT !.pos = STOPPED, !.flow = f, !.force = b]
           r == [p EXCEPT !.pos = RESTART, !.flow = f, !.force = b, !.loop_count = 0]
<1>1. player' = q \/ player' = r
    BY DEF StopModule, RestartModule, Call
<1>2. f \in FlowRec
    BY ResetFlowOK
<1> HIDE DEF p, f, b
<1>3. Sound(p)
    BY DEF p
<1>4. Sound(q)
    BY <1>2, <1>3, PlaceSound
<1>5. Sound(r)
    BY <1>2, <1>3, RestartSound
<1> QED  BY <1>1, <1>4, <1>5

LEMMA SeekSound ==
    ASSUME ScanInv, info \in InfoType, Sound(player), NEW time \in Nat, SeekTime(time)
    PROVE  Sound(player')
<1> DEFINE reached == {o \in Orders : Valid(o) /\ control[o] = player.sequence
                                      /\ time >= info[o].time}
           p == IF reached = {} THEN MovePosition(player, 0, 0)
                ELSE MovePosition(player, Largest(reached), 1)
           o == IF p.pos >= 0 THEN p.pos ELSE entry[p.sequence]
           f == p.flow
           row == info[o].row
           g == [f EXCEPT !.jumpline = row]
           q == [p EXCEPT !.flow = g, !.force = TRUE]
<1>1. player' = q
    BY DEF SeekTime, Call
<1>2. SongOK /\ song.len \in Nat \ {0} /\ Orders \subseteq Nat /\ 0 \in Orders
    BY SongFields, OrderFacts DEF ScanInv, SongOK
<1>3. Sound(p)
  <2>1. ASSUME reached # {}  PROVE Largest(reached) \in Nat
    <3>1. reached \subseteq 0 .. song.len - 1 /\ song.len - 1 \in Nat
        BY <1>2 DEF Orders
    <3> HIDE DEF reached
    <3> DEFINE k == song.len - 1
    <3>2. k \in Nat /\ reached \subseteq 0 .. k
        BY <3>1
    <3> HIDE DEF k
    <3>3. Largest(reached) \in reached
        BY <2>1, <3>2, LargestFound
    <3>4. 0 .. k \subseteq Nat
        OBVIOUS
    <3> QED  BY <3>2, <3>3, <3>4
  <2> HIDE DEF reached
  <2>2. Sound(MovePosition(player, 0, 0))
      BY MovePositionSound
  <2>3. ASSUME reached # {}  PROVE Sound(MovePosition(player, Largest(reached), 1))
      BY <2>1, <2>3, MovePositionSound
  <2> QED  BY <2>2, <2>3
<1> HIDE DEF p
<1>4. o \in Orders /\ f \in FlowRec
  <2>1. /\ p.pos \in {STOPPED, RESTART} \cup Orders /\ p.sequence \in Seqs
        /\ f \in FlowRec /\ entry \in EntryType
      BY <1>3, SequenceFields DEF Sound, IsPlayer
  <2>2. entry[p.sequence] \in Orders
      BY <2>1 DEF EntryType
  <2> QED  BY <2>1, <2>2 DEF STOPPED, RESTART
<1> HIDE DEF o, f
<1>5. row \in Nat
    BY <1>4 DEF InfoType
<1> HIDE DEF row
<1>6. g \in FlowRec
    BY <1>4, <1>5 DEF FlowRec
<1> HIDE DEF g
<1>7. TRUE \in BOOLEAN
    OBVIOUS
<1>8. Sound(q)
    BY <1>3, <1>6, <1>7, FlowSound
<1> QED  BY <1>1, <1>8

-----------------------------------------------------------------------------
(* The invariant                                                           *)

\* The song never changes.
LEMMA SoundStays ==
    ASSUME song' = song, Sound(player')
    PROVE  Sound(player)'
<1>1. Orders' = Orders
    BY DEF Orders
<1>2. \A o : Playable(o)' = Playable(o) /\ Rows(o)' = Rows(o)
    BY <1>1 DEF Playable, Valid, Rows
<1>3. IsPlayer(player)'
    BY <1>1 DEF Sound, IsPlayer
<1> QED  BY <1>2, <1>3 DEF Sound, Here

\* No step of the scan changes the entry point of the main sequence.
LEMMA ScanStepFields ==
    ASSUME ScanInv, ScanNext, info \in InfoType
    PROVE  song' = song /\ entry'[0] = entry[0] /\ info' \in InfoType
<1>1. SongOK /\ Shape(scan) /\ entry \in EntryType
    BY DEF ScanInv, SongOK, Good
<1>2. CASE ScanEnters
  <2> DEFINE o == Upcoming
             row == EntryRow(o)
             i == IF info[o].time < 0 THEN [time |-> scan.time, row |-> row] ELSE info[o]
  <2>1. /\ song' = song /\ entry' = entry
        /\ info' = [info EXCEPT ![o] = i] /\ Valid(o)
      BY <1>2 DEF ScanEnters
  <2>2. scan \in ScanRec
      BY <1>1 DEF Shape
  <2>3. o \in Orders /\ scan.time \in Int
      BY <1>1, <2>2, UpcomingFields DEF ScanRec
  <2>4. row \in Nat
    <3>1. row \in 0 .. Rows(o) - 1
        BY <1>1, <2>1, <2>3, JumplineFields
    <3> QED  BY <3>1
  <2> HIDE DEF o, row
  <2>5. i \in [time : Int, row : Nat]
      BY <2>3, <2>4 DEF InfoType
  <2> HIDE DEF i
  <2>6. info' \in InfoType
      BY <2>1, <2>3, <2>5 DEF InfoType
  <2> QED  BY <2>1, <2>6
<1>3. CASE ScanEnds
  <2> DEFINE n == NextSequence
  <2>1. song' = song /\ info' = info
      BY <1>3 DEF ScanEnds
  <2>2. scan.chain \in Nat
      BY <1>1, SeqFacts DEF Shape, ScanRec
  <2>3. n \in Nat /\ n # 0
      BY <2>2 DEF NextSequence
  <2>4. \/ \E ep : entry' = [entry EXCEPT ![n] = ep]
        \/ entry' = [s \in Seqs |-> IF s < n THEN entry[s] ELSE 0]
      BY <1>3 DEF ScanEnds
  <2> HIDE DEF n
  <2>5. entry'[0] = entry[0]
      BY <1>1, <2>3, <2>4, SeqFacts DEF EntryType
  <2> QED  BY <2>1, <2>5
<1>4. CASE ~ScanEnters /\ ~ScanEnds
  <2>1. song' = song /\ entry' = entry /\ info' = info
      BY <1>4 DEF ScanNext, ScanGivesUp, ScanWrapsToEnd, ScanSkips, ScanMeetsTaken,
                  ScanReturns, ScanFindsEnd, ScanRow, ScanOverflows
  <2> QED  BY <2>1
<1> QED  BY <1>2, <1>3, <1>4

\* The end of a scan gives the player a sequence.
LEMMA ScanStepKeeps ==
    ASSUME SeqInv, ScanStep
    PROVE  SeqInv'
<1>1. ScanInv /\ ScanNext /\ info \in InfoType /\ entry[0] = 0 /\ Sound(player)
    BY DEF SeqInv, ScanStep
<1>2. ScanInv'
    BY <1>1, ScanKeeps
<1>3. song' = song /\ entry'[0] = 0 /\ info' \in InfoType
    BY <1>1, ScanStepFields
<1>4. Orders' = Orders
    BY <1>3 DEF Orders
<1>5. ASSUME Scanned', NEW o \in Orders  PROVE control'[o] \in Seqs
  <2>1. /\ control' \in [Orders -> Seqs \cup {NO_SEQUENCE}] /\ num_seq' \in 0 .. MaxSequences
        /\ control'[o] < num_seq'
      BY <1>2, <1>4, <1>5 DEF ScanInv, Good, Settled, Scanned, ControlType
  <2> QED  BY <2>1, SeqFacts
<1> DEFINE seq == IF player.pos \in Orders THEN control'[player.pos] ELSE 0
           b == player.stale \/ seq # player.sequence
           q == [player EXCEPT !.sequence = seq, !.stale = b]
<1>6. player' = player \/ (Scanned' /\ player' = q)
    BY DEF ScanStep
<1>7. Scanned' => seq \in Seqs
    BY <1>5, SeqFacts
<1> HIDE DEF seq, b
<1>8. Sound(player')
  <2>1. ASSUME Scanned'  PROVE Sound(q)
      BY <1>1, <1>7, <2>1, SequenceStaleSound
  <2> QED  BY <1>1, <1>6, <2>1
<1>9. Sound(player)'
    BY <1>3, <1>8, SoundStays
<1>10. (info \in InfoType)'
    BY <1>3, <1>4 DEF InfoType
<1> QED  BY <1>2, <1>3, <1>9, <1>10 DEF SeqInv

\* A rescan begins anew, whatever rules apply from now on.
LEMMA RescanKeeps ==
    ASSUME SeqInv, Rescan
    PROVE  SeqInv'
<1>1. ScanInv /\ info \in InfoType /\ entry[0] = 0 /\ Sound(player)
    BY DEF SeqInv
<1>2. /\ song' = song /\ entry' = entry /\ num_seq' = num_seq
      /\ scan' = BeginScan(0, 0)
      /\ control' = [o \in Orders |-> NO_SEQUENCE]
      /\ info' = [o \in Orders |-> [info[o] EXCEPT !.time = -1]]
      /\ player' = [player EXCEPT !.stale = @ \/ rules' # rules]
    BY DEF Rescan
<1>3. /\ SongOK /\ song \in Songs /\ entry \in EntryType /\ num_seq \in 0 .. MaxSequences
      /\ 0 \in Orders /\ 0 \in Seqs
    BY <1>1, OrderFacts, SeqFacts DEF ScanInv, SongOK, Good
<1>4. /\ Shape(scan') /\ Begins(scan') /\ scan'.ep = 0 /\ scan'.chain = 0
      /\ scan'.pc = "order"
    BY <1>2, <1>3, BeginScanShape
<1>5. control' \in ControlType
    BY <1>2 DEF ControlType
<1>6. Claims(scan', control', entry')
  <2>1. ~(\E t \in Seqs : t < 0)
      BY SeqFacts
  <2> QED  BY <1>1, <1>2, <1>3, <1>4, <2>1 DEF Claims
<1>7. Good(scan', control', entry', num_seq')
    BY <1>2, <1>3, <1>4, <1>5, <1>6 DEF Good
<1>8. ActiveOK(scan.flow)'
  <2> DEFINE f == scan'.flow
  <2>1. f = ResetFlow
      BY <1>2 DEF BeginScan
  <2>2. f.loop_active = 0 /\ f.loop_count = 0 /\ {c \in Chns : f.loop[c].count # 0} = {}
      BY <2>1 DEF ResetFlow
  <2> HIDE DEF f
  <2>3. ActiveLoops(scan.flow)' = 0
      BY <2>2, FS_EmptySet DEF ActiveLoops, f
  <2> QED  BY <2>2, <2>3 DEF ActiveOK, f
<1>9. ScanInv'
    BY <1>2, <1>3, <1>7, <1>8, TablesStay
<1>10. Sound(player)'
  <2> DEFINE b == player.stale \/ rules' # rules
  <2>1. player' = [player EXCEPT !.stale = b]
      BY <1>2
  <2> HIDE DEF b
  <2>2. Sound(player')
      BY <1>1, <2>1, StaleSound
  <2> QED  BY <1>2, <2>2, SoundStays
<1>11. (info \in InfoType)'
  <2>1. Orders' = Orders
      BY <1>2 DEF Orders
  <2>2. \A o \in Orders : [info[o] EXCEPT !.time = -1] \in [time : Int, row : Nat]
      BY <1>1 DEF InfoType
  <2> QED  BY <1>2, <2>1, <2>2 DEF InfoType
<1> QED  BY <1>1, <1>2, <1>9, <1>10, <1>11 DEF SeqInv

\* A step of the player or of its caller leaves the scan's tables alone.
LEMMA PlayerStepKeeps ==
    ASSUME SeqInv, UNCHANGED <<song, rules, scan, control, info, entry, num_seq>>,
           Sound(player')
    PROVE  SeqInv'
<1>1. ScanInv'
  <2>1. song \in Songs /\ Good(scan', control', entry', num_seq')
      BY DEF SeqInv, ScanInv
  <2> QED  BY <2>1, SongStays
<1>2. Sound(player)'
    BY SoundStays
<1>3. (info \in InfoType)'
    BY DEF SeqInv, InfoType, Orders
<1> QED  BY <1>1, <1>2, <1>3 DEF SeqInv

LEMMA SequencerKeeps ==
    ASSUME SeqInv, [Next]_vars
    PROVE  SeqInv'
<1>1. ScanInv /\ info \in InfoType /\ Sound(player) /\ SongOK /\ entry \in EntryType
    BY DEF SeqInv, ScanInv, SongOK, Good
<1>2. ASSUME UNCHANGED scanVars, Sound(player')  PROVE SeqInv'
    BY <1>2, PlayerStepKeeps DEF scanVars
<1>3. CASE UNCHANGED vars
  <2>1. Sound(player') /\ UNCHANGED scanVars
      BY <1>1, <1>3 DEF vars
  <2> QED  BY <1>2, <2>1
<1>4. CASE ScanStep
    BY <1>4, ScanStepKeeps
<1>5. CASE StartPlayer
  <2>1. UNCHANGED <<song, rules, scan, control, info, entry, num_seq>>
      BY <1>5 DEF StartPlayer
  <2>2. Sound(player')
      BY <1>1, <1>5, StartSound
  <2> QED  BY <2>1, <2>2, PlayerStepKeeps
<1>6. CASE PlayFrame
  <2>1. UNCHANGED scanVars
      BY <1>6 DEF PlayFrame, PlayNothing, PlayElsewhere, PlayOn, PlaySkipping
  <2>2. Sound(player')
      BY <1>1, <1>6, NothingSound, ElsewhereSound, PlayOnSound, PlaySkippingSound
      DEF PlayFrame
  <2> QED  BY <1>2, <2>1, <2>2
<1>7. CASE Rescan
    BY <1>7, RescanKeeps
<1>8. CASE PositionCall /\ ~Rescan
  <2>1. UNCHANGED scanVars
      BY <1>8 DEF PositionCall, NextPosition, PrevPosition, SetPosition, SetRow,
                  StopModule, RestartModule, SeekTime, Call
  <2>2. Sound(player')
    <3>1. ASSUME NEW pos \in Orders, SetPosition(pos)  PROVE Sound(player')
        BY <1>1, <3>1, SetSound
    <3>2. ASSUME NEW row \in UNION {0 .. Rows(o) - 1 : o \in {i \in Orders : Valid(i)}},
                 SetRow(row)
          PROVE  Sound(player')
      <4>1. row \in Nat
          OBVIOUS
      <4> QED  BY <1>1, <3>2, <4>1, RowSound
    <3>3. ASSUME NEW time \in 0 .. RowLimit, SeekTime(time)  PROVE Sound(player')
      <4>1. time \in Nat
          BY LimitsAssumption
      <4> QED  BY <1>1, <3>3, <4>1, SeekSound
    <3> QED  BY <1>1, <1>8, <3>1, <3>2, <3>3, NextSound, PrevSound, StopSound
             DEF PositionCall
  <2> QED  BY <1>2, <2>1, <2>2
<1> QED  BY <1>3, <1>4, <1>5, <1>6, <1>7, <1>8 DEF Next, Advance

LEMMA SequencerInitially == Init => SeqInv
<1>1. SUFFICES ASSUME Init  PROVE SeqInv
    OBVIOUS
<1>2. ScanInv /\ SongOK
    BY <1>1, ScanInitially DEF Init, ScanInv, SongOK
<1>3. entry[0] = 0 /\ info \in InfoType
    BY <1>1, SeqFacts DEF Init, ScanInit, InfoType
<1>4. Sound(player)
  <2> DEFINE p == NoPlayer
  <2>1. player = p /\ IsPlayer(p) /\ ~p.playing /\ p.frame = -1 /\ ~p.bad
      BY <1>1, <1>2, NoPlayerFields DEF Init
  <2> HIDE DEF p
  <2>2. p.frame < 0
      BY <2>1
  <2> QED  BY <2>1, <2>2 DEF Sound
<1> QED  BY <1>2, <1>3, <1>4 DEF SeqInv

-----------------------------------------------------------------------------
(* The theorems                                                            *)

\* The invariant holds of every song that is played, under every tracker's
\* rules, with position calls, seeks and rescans between any two frames.
THEOREM SequencerInvariantHolds == Spec => []SeqInv
<1>1. SeqInv /\ [Next]_vars => SeqInv'
    BY SequencerKeeps
<1> QED  BY <1>1, SequencerInitially, PTL DEF Spec

\* xmp_play_frame reads a row of a pattern that exists, whatever calls of
\* control.c were made between the frames.
THEOREM RowsAlwaysExist == Spec => []RowExists
<1>1. SeqInv => RowExists
  <2>1. SUFFICES ASSUME SeqInv, Sounding
                 PROVE  /\ Playable(player.ord) /\ player.row >= 0
                        /\ player.astray \/ /\ player.num_rows = Rows(player.ord)
                                            /\ player.row < player.num_rows
      BY DEF RowExists
  <2> DEFINE p == player
  <2>2. Sound(p) /\ p.frame >= 0 /\ ~p.ended
      BY <2>1 DEF SeqInv, Sounding
  <2>3. p.frame \in Int /\ p.row \in Nat
      BY <2>2 DEF Sound, IsPlayer
  <2>4. ~(p.frame < 0)
      BY <2>2, <2>3
  <2>5. Here(p)
      BY <2>2, <2>4 DEF Sound
  <2> QED  BY <2>3, <2>5 DEF Here
<1> QED  BY <1>1, SequencerInvariantHolds, PTL

\* Rescans while the module plays, by any rules, end with every order in a
\* sequence the player knows.
THEOREM SequencesCoverWhilePlaying == Spec => []SequencesCoverOrders
<1>1. SeqInv => SequencesCoverOrders
    BY DEF SeqInv, ScanInv, Good, Settled, SequencesCoverOrders, Scanned
<1> QED  BY <1>1, SequencerInvariantHolds, PTL

-----------------------------------------------------------------------------
(* Where the player moves to: only a row that is playing leaves something  *)
(* for its end.  xmp_set_row keeps what the row before has left, and is    *)
(* excluded here.                                                          *)

NoSetRow == "row" \notin Calls

\* A break, a jump or a loop waits for the end of the row.
Pending(f) == f.pbreak \/ f.loop_dest >= 0

Moves == {"jump", "break", "line", "loop"}
Asks(o, row) == \E chn \in Chns : Effect(o, row, chn).fx \in Moves

\* What waits was asked for by the row that plays.
Answers(p) ==
    Pending(p.flow) =>
       ~p.bad /\ p.ord = p.pos /\ ~p.force /\ p.frame >= 0 /\ Asks(p.ord, p.row)

\* At the beginning of a row nothing waits.
Placed(p) == ~Pending(p.flow) /\ (~p.bad => p.ord = p.pos /\ ~p.force /\ p.frame = 0)

JumpInv == SeqInv /\ Answers(player) /\ calls \in Nat

LEMMA QuietFlows ==
    ASSUME NEW f \in FlowRec, NEW n
    PROVE  /\ ~Pending(ResetFlow)
           /\ Pending([f EXCEPT !.jump = n]) <=> Pending(f)
           /\ Pending([f EXCEPT !.jumpline = n]) <=> Pending(f)
           /\ Pending([f EXCEPT !.loop_active = n]) <=> Pending(f)
<1>1. ~Pending(ResetFlow)
    BY DEF Pending, ResetFlow, NONE
<1>2. /\ Pending([f EXCEPT !.jump = n]) <=> Pending(f)
      /\ Pending([f EXCEPT !.jumpline = n]) <=> Pending(f)
      /\ Pending([f EXCEPT !.loop_active = n]) <=> Pending(f)
    BY DEF Pending, FlowRec
<1> QED  BY <1>1, <1>2

LEMMA ForgettingQuiet ==
    ASSUME NEW f \in FlowRec, ~Pending(f)
    PROVE  ~Pending([ForgetLoops(f) EXCEPT !.jumpline = 0])
<1> DEFINE l == [c \in Chns |-> [start |-> 0, count |-> 0]]
           g == [f EXCEPT !.loop_start = NONE, !.loop_count = 0, !.loop = l]
           h == ForgetLoops(f)
<1>1. h = f \/ h = g
    BY DEF ForgetLoops
<1> HIDE DEF l
<1>2. g.pbreak = f.pbreak /\ g.loop_dest = f.loop_dest
    BY DEF FlowRec
<1>3. ~Pending(h)
  <2> HIDE DEF g, h
  <2> QED  BY <1>1, <1>2 DEF Pending
<1>4. h \in FlowRec
    BY ForgetLoopsOK
<1> HIDE DEF h
<1>5. Pending([h EXCEPT !.jumpline = 0]) <=> Pending(h)
    BY <1>4, QuietFlows
<1> QED  BY <1>3, <1>5 DEF h

LEMMA EnterOrderPlaced ==
    ASSUME NEW p, IsPlayer(p), ~p.force, ~Pending(p.flow), NEW o
    PROVE  Placed(EnterOrder(p, o))
<1> DEFINE row == BreakRow(p, o)
           flow == [ForgetLoops(p.flow) EXCEPT !.jumpline = 0]
           n == Rows(o)
           q == EnterOrder(p, o)
<1>1. q = [p EXCEPT !.ord = o, !.pos = o, !.frame = 0, !.bad = FALSE, !.astray = FALSE,
                    !.num_rows = n, !.row = row, !.flow = flow]
    BY DEF EnterOrder
<1>2. ~Pending(flow)
    BY ForgettingQuiet DEF IsPlayer
<1> HIDE DEF n, row, flow, q
<1>3. q.flow = flow /\ q.ord = o /\ q.pos = o /\ q.frame = 0 /\ q.force = p.force
    BY <1>1 DEF IsPlayer, Fields
<1> QED  BY <1>2, <1>3 DEF Placed, q

LEMMA NextOrderPlaced ==
    ASSUME NEW p, IsPlayer(p), ~p.force, ~Pending(p.flow), NEW o
    PROVE  Placed(NextOrder(p, o))
<1> DEFINE first == Settle(o)
           from  == IF first < entry[p.sequence] THEN entry[p.sequence]
                    ELSE RestartOrder(p.sequence, entry[p.sequence])
           again == Settle(from)
           lost  == [p EXCEPT !.ord = again, !.bad = TRUE]
<1>1. NextOrder(p, o) = IF Playable(first) THEN EnterOrder(p, first)
                        ELSE IF Playable(again) THEN EnterOrder(p, again) ELSE lost
    BY DEF NextOrder
<1> HIDE DEF first, from, again
<1>2. lost.flow = p.flow /\ lost.bad
    BY DEF IsPlayer, Fields
<1>3. Placed(lost)
  <2> HIDE DEF lost
  <2> QED  BY <1>2 DEF Placed
<1> HIDE DEF lost
<1> QED  BY <1>1, <1>3, EnterOrderPlaced

\* Whatever the row before has asked for, it is done.
LEMMA NextRowPlaced ==
    ASSUME NEW p, IsPlayer(p), p.ord = p.pos, ~p.force
    PROVE  Placed(NextRow(p))
<1> DEFINE f == [p.flow EXCEPT !.delay = 0, !.loop_param = NONE, !.loop_dest = NONE]
           row == IF p.flow.loop_dest >= 0 THEN p.flow.loop_dest
                  ELSE IF f.rowdelay = 0 THEN p.row + 1 ELSE p.row
           d == IF f.rowdelay = 0 THEN 0 ELSE f.rowdelay - 1
           b == f.rowdelay_set /\ f.rowdelay # 0
           g == [f EXCEPT !.rowdelay = d, !.rowdelay_set = b]
           h == BreakDone(f)
           stay == [p EXCEPT !.frame = 0, !.row = row, !.flow = g]
           broken == [p EXCEPT !.frame = 0, !.flow = h]
           to == IF f.jump = NONE THEN p.ord + 1 ELSE f.jump
<1>1. NextRow(p) = IF f.pbreak THEN NextOrder(broken, to)
                   ELSE IF PatternOver(p, row) THEN NextOrder(stay, p.ord + 1) ELSE stay
    BY DEF NextRow
<1>2. p.flow \in FlowRec /\ p.row \in Nat /\ NONE \in Int /\ 0 \in Int
    BY DEF IsPlayer, NONE
<1>3. f \in FlowRec /\ f.loop_dest = NONE
  <2>1. f \in FlowRec
      BY <1>2, FlowFields
  <2>2. f.loop_dest = NONE
      BY <1>2 DEF FlowRec
  <2> QED  BY <2>1, <2>2
<1>4. row \in Nat
    BY <1>2, <1>3 DEF FlowRec
<1> HIDE DEF f, row, to
<1>5. h \in FlowRec /\ ~Pending(h)
  <2>1. h = [f EXCEPT !.pbreak = FALSE, !.jump = NONE]
      BY DEF BreakDone
  <2> HIDE DEF h
  <2>2. h \in FlowRec /\ h.pbreak = FALSE /\ h.loop_dest = NONE
      BY <1>2, <1>3, <2>1 DEF FlowRec
  <2> QED  BY <2>2 DEF Pending, NONE
<1>6. g \in FlowRec /\ (~f.pbreak => ~Pending(g))
  <2>1. d \in Int /\ b \in BOOLEAN
      BY <1>3 DEF FlowRec
  <2> HIDE DEF d, b
  <2>2. g \in FlowRec
      BY <1>3, <2>1, FlowFields
  <2>3. g.pbreak = f.pbreak /\ g.loop_dest = NONE
      BY <1>3 DEF FlowRec
  <2> HIDE DEF g
  <2> QED  BY <2>2, <2>3 DEF Pending, NONE
<1> HIDE DEF g, h
<1>7. /\ IsPlayer(broken) /\ ~broken.force /\ broken.flow = h
  <2> HIDE DEF broken
  <2>1. broken = [p EXCEPT !.frame = 0, !.flow = h]
      BY DEF broken
  <2> QED  BY <1>2, <1>5, <2>1 DEF IsPlayer, Fields
<1>8. /\ IsPlayer(stay) /\ ~stay.force /\ stay.flow = g /\ stay.ord = stay.pos
      /\ stay.frame = 0
  <2> HIDE DEF stay
  <2>1. stay = [p EXCEPT !.frame = 0, !.row = row, !.flow = g]
      BY DEF stay
  <2> QED  BY <1>2, <1>4, <1>6, <2>1 DEF IsPlayer, Fields
<1> HIDE DEF broken, stay
<1>9. Placed(NextOrder(broken, to))
    BY <1>5, <1>7, NextOrderPlaced
<1>10. ASSUME ~f.pbreak  PROVE Placed(NextOrder(stay, p.ord + 1)) /\ Placed(stay)
  <2>1. ~Pending(stay.flow)
      BY <1>6, <1>8, <1>10
  <2> QED  BY <1>8, <2>1, NextOrderPlaced DEF Placed
<1> QED  BY <1>1, <1>9, <1>10

\* A row whose effects ask for nothing leaves nothing.
LEMMA RowEffectAsks ==
    ASSUME SongOK, NEW o, Playable(o), NEW row \in Nat, NEW x \in ReadRec(o, row),
           NEW chn \in Chns, Pending(x.flow) => Asks(o, row)
    PROVE  Pending(RowEffect(x, chn).flow) => Asks(o, row)
<1> DEFINE e == Effect(o, row, chn)
           f == x.flow
           delayed == [f EXCEPT !.rowdelay = e.arg, !.rowdelay_set = TRUE]
           d == IF "ST3_DELAY" \in Quirks /\ f.delay # 0 THEN f.delay ELSE e.arg
           held == [f EXCEPT !.delay = d]
           moved == FlowEffect(f, chn, o, row, e)
<1>1. CASE e.fx \in Moves
    BY <1>1 DEF Asks
<1>2. CASE e.fx \notin Moves
  <2>1. x.ord = o /\ x.row = row /\ f \in FlowRec
      BY DEF ReadRec
  <2>2. moved = f
      BY <1>2 DEF FlowEffect, Moves
  <2>3. \/ RowEffect(x, chn) = x
        \/ RowEffect(x, chn) = [x EXCEPT !.first = TRUE, !.flow = delayed]
        \/ RowEffect(x, chn) = [x EXCEPT !.flow = held]
        \/ RowEffect(x, chn) = [x EXCEPT !.flow = moved]
      BY <2>1, Zenon DEF RowEffect
  <2> HIDE DEF e, d, moved
  <2>4. (Pending(delayed) <=> Pending(f)) /\ (Pending(held) <=> Pending(f))
    <3> HIDE DEF f
    <3> QED  BY <2>1 DEF Pending, FlowRec
  <2> HIDE DEF delayed, held
  <2>5. \/ RowEffect(x, chn).flow = f \/ RowEffect(x, chn).flow = delayed
        \/ RowEffect(x, chn).flow = held
      BY <2>2, <2>3 DEF ReadRec
  <2> QED  BY <2>4, <2>5
<1> QED  BY <1>1, <1>2

\* The first frame of a row.
LEMMA ReadAnswers ==
    ASSUME SongOK, NEW p, Arrived(p), Placed(p), ~p.bad, NEW q \in Read(p)
    PROVE  Answers(q) /\ q.ord = p.ord /\ q.row = p.row
<1> DEFINE c == CheckEnd(p)
           x0 == [flow |-> c.flow, ord |-> c.ord, row |-> c.row, first |-> FALSE]
<1>1. /\ Arrived(c) /\ ~c.bad /\ c.flow = p.flow /\ c.ord = p.ord /\ c.pos = p.pos
      /\ c.row = p.row /\ c.force = p.force /\ c.frame = p.frame
  <2>1. Arrived(c) /\ ~c.bad
      BY CheckEndArrives
  <2> DEFINE left == IF p.end_point = 0 THEN ends[p.sequence].num ELSE p.end_point
             n == IF p.end_point = 0 THEN p.loop_count + 1 ELSE p.loop_count
             m == IF left > EndFloor THEN left - 1 ELSE left
  <2>2. c = p \/ c = [p EXCEPT !.loop_count = n, !.end_point = m]
      BY DEF CheckEnd
  <2> HIDE DEF n, m, c
  <2> QED  BY <2>1, <2>2 DEF Arrived, IsPlayer, Fields
<1>2. p.frame = 0 /\ p.ord = p.pos /\ ~p.force /\ ~Pending(p.flow)
    BY DEF Placed
<1>3. PICK x \in OverChannels(RowEffect, x0) :
           q = [c EXCEPT !.flow = [x.flow EXCEPT !.loop_active = 0]]
  <2>1. q \in ReadRow(c)
      BY <1>2 DEF Read
  <2> QED  BY <2>1 DEF ReadRow
<1> HIDE DEF c
<1>4. Playable(c.ord) /\ c.row \in Nat /\ c.flow \in FlowRec
    BY <1>1 DEF Arrived, Here, IsPlayer
<1> DEFINE R == {y \in ReadRec(c.ord, c.row) : Pending(y.flow) => Asks(c.ord, c.row)}
<1>5. x0 \in R
  <2>1. x0 \in ReadRec(c.ord, c.row) /\ x0.flow = c.flow
      BY <1>4 DEF ReadRec
  <2> QED  BY <1>1, <1>2, <2>1
<1>6. \A y \in R, chn \in Chns : RowEffect(y, chn) \in R
    BY <1>4, RowEffectKeeps, RowEffectAsks
<1> HIDE DEF x0
<1>7. x \in R
  <2> HIDE DEF R
  <2> QED  BY <1>3, <1>5, <1>6, ChannelsRead
<1> DEFINE f == [x.flow EXCEPT !.loop_active = 0]
<1>8. Pending(f) => Asks(c.ord, c.row)
  <2>1. x.flow \in FlowRec
      BY <1>7 DEF ReadRec
  <2>2. Pending(f) <=> Pending(x.flow)
      BY <2>1, QuietFlows
  <2> QED  BY <1>7, <2>2
<1>9. q = [c EXCEPT !.flow = f]
    BY <1>3
<1> HIDE DEF f
<1>10. /\ q.flow = f /\ q.bad = c.bad /\ q.ord = c.ord /\ q.pos = c.pos /\ q.row = c.row
       /\ q.force = c.force /\ q.frame = c.frame
    BY <1>1, <1>9 DEF Arrived, IsPlayer, Fields
<1>11. q.frame >= 0
    BY <1>1, <1>2, <1>10
<1> QED  BY <1>1, <1>2, <1>8, <1>10, <1>11 DEF Answers

-----------------------------------------------------------------------------
(* Frames and calls                                                        *)

\* A change that leaves the flow record and the place alone.
LEMMA AnswersAsBefore ==
    ASSUME NEW p, Answers(p), NEW q, q.flow = p.flow, q.bad = p.bad, q.ord = p.ord,
           q.pos = p.pos, q.force = p.force, q.row = p.row, q.frame = p.frame
    PROVE  Answers(q)
BY DEF Answers

LEMMA EndedFields ==
    ASSUME NEW p, IsPlayer(p)
    PROVE  LET q == Ended(p)
           IN  /\ q.flow = p.flow /\ q.bad = p.bad /\ q.ord = p.ord /\ q.pos = p.pos
               /\ q.force = p.force /\ q.row = p.row /\ q.frame = p.frame
BY DEF Ended, IsPlayer, Fields

LEMMA NothingAnswers ==
    ASSUME Sound(player), Answers(player), PlayNothing
    PROVE  Answers(player')
<1> DEFINE p == player
           q == [p EXCEPT !.force = FALSE]
<1>0. IsPlayer(p) /\ Answers(p)
    BY DEF Sound
<1>1. (Displaced /\ player' = Ended(q)) \/ player' = Ended(p)
    BY DEF PlayNothing
<1>2. Displaced => ~Pending(p.flow)
    BY DEF Displaced, Answers
<1> HIDE DEF p
<1>3. Answers(Ended(p))
    BY <1>0, EndedFields, AnswersAsBefore
<1>4. IsPlayer(q) /\ q.flow = p.flow
  <2> DEFINE r == q
  <2> HIDE DEF r
  <2>1. r = [p EXCEPT !.force = FALSE]
      BY DEF r
  <2>2. IsPlayer(r) /\ r.flow = p.flow
      BY <1>0, <2>1 DEF IsPlayer, Fields
  <2> QED  BY <2>2 DEF r
<1> HIDE DEF q
<1>5. Displaced => Answers(Ended(q))
  <2>1. Ended(q).flow = q.flow
      BY <1>4, EndedFields
  <2> QED  BY <1>2, <1>4, <2>1 DEF Answers
<1> QED  BY <1>1, <1>3, <1>5

LEMMA ProduceAnswers ==
    ASSUME SongOK, NEW q, Arrived(q), Placed(q), Produce(q)
    PROVE  Answers(player')
<1>1. CASE q.bad
  <2>1. player' = Ended(q) /\ Ended(q).flow = q.flow
      BY <1>1, EndedFields DEF Produce, Arrived
  <2> QED  BY <2>1 DEF Placed, Answers
<1>2. CASE ~q.bad
  <2>1. player' \in Read(q)
      BY <1>2 DEF Produce
  <2> QED  BY <1>2, <2>1, ReadAnswers
<1> QED  BY <1>1, <1>2

LEMMA ElsewhereAnswers ==
    ASSUME SongOK, entry \in EntryType, Sound(player), Answers(player), PlayElsewhere
    PROVE  Answers(player')
<1> DEFINE start == entry[player.sequence]
           pos == IF player.pos = RESTART THEN start ELSE player.pos
           f == player.flow
           g == [f EXCEPT !.jump = NONE]
           e == EndPointFrom(player, pos)
           p == [player EXCEPT !.force = FALSE, !.pos = pos, !.ended = FALSE,
                               !.end_point = e, !.flow = g]
           from == IF pos < start THEN start ELSE pos
<1>1. player.playing /\ Displaced /\ Produce(NextOrder(p, from))
    BY DEF PlayElsewhere, Playing
<1>2. IsPlayer(player)
    BY DEF Sound
<1>3. start \in Orders /\ player.pos \in {STOPPED, RESTART} \cup Orders /\ f \in FlowRec
    BY <1>2 DEF IsPlayer, EntryType
<1>4. pos \in {STOPPED, RESTART} \cup Orders /\ from \in Int
    BY <1>3, OrderFacts DEF STOPPED, RESTART
<1>5. g \in FlowRec /\ ~Pending(g)
  <2>1. ~Pending(f)
      BY <1>1 DEF Displaced, Answers
  <2> HIDE DEF f
  <2>2. Pending(g) <=> Pending(f)
      BY <1>3, QuietFlows
  <2>3. NONE \in Int
      BY DEF NONE
  <2>4. g \in FlowRec
      BY <1>3, <2>3 DEF FlowRec
  <2> QED  BY <2>1, <2>2, <2>4
<1> HIDE DEF start, pos, e, g, from
<1>6. IsPlayer(p) /\ p.playing = player.playing /\ ~p.force /\ p.flow = g
    BY <1>2, <1>4, <1>5 DEF IsPlayer, Fields
<1> HIDE DEF p
<1>7. Arrived(NextOrder(p, from))
    BY <1>1, <1>4, <1>6, NextOrderArrives
<1>8. Placed(NextOrder(p, from))
    BY <1>5, <1>6, NextOrderPlaced
<1> QED  BY <1>1, <1>7, <1>8, ProduceAnswers

\* The frame after a frame of the same row.
LEMMA TickedFields ==
    ASSUME Sound(player)
    PROVE  LET q == Ticked
           IN  /\ IsPlayer(q) /\ q.flow = player.flow /\ q.bad = player.bad
               /\ q.ord = player.ord /\ q.pos = player.pos /\ q.force = player.force
               /\ q.row = player.row /\ q.frame = player.frame + 1
               /\ q.num_rows = player.num_rows
<1> DEFINE p == player
           n == p.frame + 1
           q == Ticked
<1>1. IsPlayer(p)
    BY DEF Sound
<1>2. n \in Int
    BY <1>1 DEF IsPlayer
<1>3. q = [p EXCEPT !.frame = n, !.ended = FALSE]
    BY DEF Ticked
<1> HIDE DEF q, n
<1>4. /\ IsPlayer(q) /\ q.flow = p.flow /\ q.bad = p.bad
      /\ q.ord = p.ord /\ q.pos = p.pos /\ q.force = p.force
      /\ q.row = p.row /\ q.frame = n /\ q.num_rows = p.num_rows
  <2> HIDE DEF p
  <2> QED  BY <1>1, <1>2, <1>3 DEF IsPlayer, Fields
<1> QED  BY <1>4 DEF q, n

LEMMA PlayOnAnswers ==
    ASSUME SongOK, entry \in EntryType, Sound(player), Answers(player), PlayOn
    PROVE  Answers(player')
<1>1. player.playing /\ ~player.bad /\ player.ord = player.pos /\ ~player.force
    BY DEF PlayOn, Playing, Displaced
<1>2. PICK q \in {IF RowOver THEN NextRow(Ticked) ELSE Ticked} : Produce(q)
    BY DEF PlayOn
<1>3. Arrived(Ticked) /\ ~Ticked.bad
    BY <1>1, TickedArrives
<1>4. /\ IsPlayer(Ticked) /\ Ticked.flow = player.flow /\ Ticked.bad = player.bad
      /\ Ticked.ord = player.ord /\ Ticked.pos = player.pos
      /\ Ticked.force = player.force /\ Ticked.row = player.row
      /\ Ticked.frame = player.frame + 1
    BY TickedFields
<1>5. player.frame \in Int
    BY DEF Sound, IsPlayer
<1>6. CASE RowOver
  <2>1. Arrived(NextRow(Ticked))
      BY <1>3, NextRowArrives DEF Arrived
  <2>2. Placed(NextRow(Ticked))
      BY <1>1, <1>4, NextRowPlaced
  <2> QED  BY <1>2, <1>6, <2>1, <2>2, ProduceAnswers
<1>7. CASE ~RowOver /\ Ticked.frame = 0
  <2>1. ~(player.frame >= 0)
      BY <1>4, <1>5, <1>7
  <2>2. Placed(Ticked)
      BY <1>1, <1>4, <1>7, <2>1 DEF Placed, Answers
  <2> QED  BY <1>2, <1>3, <1>7, <2>2, ProduceAnswers
<1>8. CASE ~RowOver /\ Ticked.frame # 0
  <2>1. player' = Ticked
      BY <1>2, <1>3, <1>8 DEF Produce, Read
  <2>2. player.frame >= 0 => Ticked.frame >= 0
      BY <1>4, <1>5
  <2> QED  BY <1>4, <2>1, <2>2 DEF Answers
<1> QED  BY <1>6, <1>7, <1>8

LEMMA PlaySkippingAnswers ==
    ASSUME SongOK, entry \in EntryType, Sound(player), Answers(player), PlaySkipping
    PROVE  Answers(player')
<1>1. player.playing /\ ~player.bad /\ player.ord = player.pos /\ ~player.force
    BY DEF PlaySkipping, Playing, Displaced
<1> DEFINE first == NextRow(Ticked)
<1>2. IF first.bad THEN player' = Ended(first) ELSE Produce(NextRow(CheckEnd(first)))
    BY DEF PlaySkipping
<1>3. Arrived(first) /\ Placed(first)
  <2>1. /\ IsPlayer(Ticked) /\ Ticked.playing /\ Here(Ticked)
        /\ Ticked.ord = Ticked.pos /\ ~Ticked.force
      BY <1>1, TickedArrives, TickedFields DEF Arrived
  <2> QED  BY <2>1, NextRowArrives, NextRowPlaced
<1> HIDE DEF first
<1>4. CASE first.bad
  <2>1. Ended(first).flow = first.flow
      BY <1>3, EndedFields DEF Arrived
  <2> QED  BY <1>2, <1>3, <1>4, <2>1 DEF Placed, Answers
<1>5. CASE ~first.bad
  <2> DEFINE c == CheckEnd(first)
             left == IF first.end_point = 0 THEN ends[first.sequence].num
                     ELSE first.end_point
             n == IF first.end_point = 0 THEN first.loop_count + 1 ELSE first.loop_count
             m == IF left > EndFloor THEN left - 1 ELSE left
  <2>1. IsPlayer(c) /\ c.playing /\ Here(c)
      BY <1>3, <1>5, CheckEndArrives DEF Arrived
  <2>2. c.ord = c.pos /\ ~c.force
    <3>1. c = first \/ c = [first EXCEPT !.loop_count = n, !.end_point = m]
        BY DEF CheckEnd
    <3> HIDE DEF c, n, m
    <3>2. c.ord = first.ord /\ c.pos = first.pos /\ c.force = first.force
        BY <1>3, <3>1 DEF Arrived, IsPlayer, Fields
    <3> QED  BY <1>3, <1>5, <3>2 DEF Placed
  <2> HIDE DEF c
  <2>3. Arrived(NextRow(c)) /\ Placed(NextRow(c))
      BY <2>1, <2>2, NextRowArrives, NextRowPlaced
  <2> QED  BY <1>2, <1>5, <2>3, ProduceAnswers DEF c
<1> QED  BY <1>4, <1>5

\* A move leaves nothing pending.
LEMMA MoveToQuiet ==
    ASSUME NEW p, IsPlayer(p), NEW seq, NEW pos
    PROVE  ~Pending(MoveTo(p, seq, pos).flow)
<1> DEFINE to == IF pos = 0 THEN RESTART ELSE pos
           beyond == pos > ends[seq].ord
           f == ResetFlow
           m == [p EXCEPT !.pos = to, !.flow = f, !.force = FALSE]
           q == [m EXCEPT !.sequence = seq]
           s == q.stale \/ seq # p.sequence
           e == IF beyond THEN 0 ELSE ends[seq].num
           n == IF beyond THEN q.num_rows ELSE Rows(pos)
           a == q.astray \/ (~beyond /\ pos # p.ord)
           r == [q EXCEPT !.stale = FALSE, !.end_point = e, !.num_rows = n, !.astray = a]
<1>1. MoveTo(p, seq, pos) = IF pos \notin Orders \/ ~Valid(pos)
                            THEN [q EXCEPT !.stale = s] ELSE r
    BY DEF MoveTo, Moved
<1> HIDE DEF to, f, e, n, a, s
<1>2. DOMAIN p = Fields
    BY DEF IsPlayer
<1>3. DOMAIN m = Fields /\ m.flow = f
    BY <1>2 DEF Fields
<1> HIDE DEF m
<1>4. DOMAIN q = Fields /\ q.flow = f
    BY <1>3 DEF Fields
<1> HIDE DEF q
<1>5. [q EXCEPT !.stale = s].flow = f /\ r.flow = f
    BY <1>4 DEF Fields
<1>6. ~Pending(f)
  <2>1. ResetFlow \in FlowRec
      BY ResetFlowOK
  <2> QED  BY <2>1, QuietFlows DEF f
<1> HIDE DEF r
<1> QED  BY <1>1, <1>5, <1>6

LEMMA MovePositionAnswers ==
    ASSUME NEW p, IsPlayer(p), Answers(p), NEW pos, NEW dir
    PROVE  Answers(MovePosition(p, pos, dir))
<1> DEFINE seq == IF dir # 0 THEN p.sequence
                  ELSE IF pos \in Orders THEN control[pos] ELSE NO_SEQUENCE
           o == Unmarked(pos, dir)
           q == [p EXCEPT !.sequence = seq]
<1>1. \/ MovePosition(p, pos, dir) = p \/ MovePosition(p, pos, dir) = q
      \/ MovePosition(p, pos, dir) = MoveTo(p, seq, o)
    BY DEF MovePosition
<1> HIDE DEF seq, o
<1>2. Answers(q)
  <2> HIDE DEF q
  <2>1. q = [p EXCEPT !.sequence = seq]
      BY DEF q
  <2>2. /\ q.flow = p.flow /\ q.bad = p.bad /\ q.ord = p.ord /\ q.pos = p.pos
        /\ q.force = p.force /\ q.row = p.row /\ q.frame = p.frame
      BY <2>1 DEF IsPlayer, Fields
  <2> QED  BY <2>2, AnswersAsBefore
<1>3. Answers(MoveTo(p, seq, o))
    BY MoveToQuiet DEF Answers
<1> HIDE DEF q
<1> QED  BY <1>1, <1>2, <1>3

\* A seek always moves: the player may not be asked to reposition with
\* something pending.
LEMMA SeekAnswers ==
    ASSUME ScanInv, Scanned, info \in InfoType, Sound(player), NEW time, SeekTime(time)
    PROVE  Answers(player')
<1> DEFINE reached == {o \in Orders : Valid(o) /\ control[o] = player.sequence
                                      /\ time >= info[o].time}
           p == IF reached = {} THEN MovePosition(player, 0, 0)
                ELSE MovePosition(player, Largest(reached), 1)
           o == IF p.pos >= 0 THEN p.pos ELSE entry[p.sequence]
           f == p.flow
           row == info[o].row
           g == [f EXCEPT !.jumpline = row]
           q == [p EXCEPT !.flow = g, !.force = TRUE]
<1>1. player' = q
    BY DEF SeekTime, Call
<1>2. SongOK /\ song.len \in Nat \ {0} /\ Orders \subseteq Nat /\ 0 \in Orders
    BY SongFields, OrderFacts DEF ScanInv, SongOK
<1>3. /\ \A i \in Orders : control[i] < num_seq
      /\ control \in ControlType /\ num_seq \in Nat
    BY DEF ScanInv, Good, Settled, Scanned
<1>4. ASSUME NEW i \in Orders, NEW dir, NEW seq,
             seq = IF dir # 0 THEN player.sequence ELSE control[i], seq = control[i]
      PROVE  MovePosition(player, i, dir) = MoveTo(player, seq, Unmarked(i, dir))
  <2>1. Unmarked(i, dir) \in Orders
      BY <1>2, UnmarkedFields
  <2>2. ~PastList(Unmarked(i, dir))
      BY <1>2, <2>1 DEF PastList, Orders
  <2>3. ~(seq >= num_seq)
    <3>1. seq \in Nat /\ seq < num_seq
        BY <1>3, <1>4, SeqFacts DEF ControlType
    <3> QED  BY <1>3, <3>1
  <2> QED  BY <1>4, <2>2, <2>3 DEF MovePosition
<1>5. \E seq, to : p = MoveTo(player, seq, to)
  <2>1. CASE reached = {}
    <3>1. MovePosition(player, 0, 0) = MoveTo(player, control[0], Unmarked(0, 0))
        BY <1>2, <1>4
    <3> QED  BY <2>1, <3>1
  <2>2. CASE reached # {}
    <3> DEFINE k == song.len - 1
               i == Largest(reached)
    <3>1. k \in Nat /\ reached \subseteq 0 .. k
        BY <1>2 DEF Orders
    <3>2. i \in reached
      <4> HIDE DEF k, reached
      <4> QED  BY <2>2, <3>1, LargestFound
    <3>3. i \in Orders /\ control[i] = player.sequence
        BY <3>2
    <3> HIDE DEF reached, i
    <3>4. MovePosition(player, i, 1) = MoveTo(player, player.sequence, Unmarked(i, 1))
        BY <1>4, <3>3
    <3> QED  BY <2>2, <3>4 DEF i
  <2> QED  BY <2>1, <2>2
<1>6. IsPlayer(player)
    BY DEF Sound
<1>7. ~Pending(f)
  <2> HIDE DEF p
  <2> QED  BY <1>5, <1>6, MoveToQuiet
<1>8. IsPlayer(p)
  <2>1. CASE reached = {}
      BY <2>1, MovePositionSound DEF Sound
  <2>2. CASE reached # {}
    <3> DEFINE k == song.len - 1
               i == Largest(reached)
    <3>1. k \in Nat /\ reached \subseteq 0 .. k /\ 0 .. k \subseteq Nat
        BY <1>2 DEF Orders
    <3>2. i \in Nat
      <4>1. i \in reached
        <5> HIDE DEF k, reached
        <5> QED  BY <2>2, <3>1, LargestFound
      <4> HIDE DEF k, reached, i
      <4> QED  BY <3>1, <4>1
    <3> HIDE DEF reached, i
    <3>3. Sound(MovePosition(player, i, 1))
        BY <3>2, MovePositionSound
    <3> QED  BY <2>2, <3>3 DEF Sound, i
  <2> QED  BY <2>1, <2>2
<1> HIDE DEF p, row
<1>9. f \in FlowRec
    BY <1>8 DEF IsPlayer
<1>10. ~Pending(g)
  <2> HIDE DEF f
  <2>1. Pending(g) <=> Pending(f)
      BY <1>9, QuietFlows
  <2> QED  BY <1>7, <2>1
<1> HIDE DEF g
<1>11. q.flow = g
    BY <1>8 DEF IsPlayer, Fields
<1> QED  BY <1>1, <1>10, <1>11 DEF Answers

LEMMA StopAnswers ==
    ASSUME Sound(player), StopModule \/ RestartModule
    PROVE  Answers(player')
<1> DEFINE p == player
           f == ResetFlow
           q == [p EXCEPT !.pos = STOPPED, !.flow = f, !.force = FALSE]
           r == [p EXCEPT !.pos = RESTART, !.flow = f, !.force = FALSE, !.loop_count = 0]
<1>1. player' = q \/ player' = r
    BY DEF StopModule, RestartModule, Call
<1>2. ~Pending(f)
  <2>1. ResetFlow \in FlowRec
      BY ResetFlowOK
  <2> QED  BY <2>1, QuietFlows
<1>3. IsPlayer(p)
    BY DEF Sound
<1> HIDE DEF p, f
<1>4. q.flow = f /\ r.flow = f
    BY <1>3 DEF IsPlayer, Fields
<1> HIDE DEF q, r
<1> QED  BY <1>1, <1>2, <1>4 DEF Answers

LEMMA CallsAnswer ==
    ASSUME NoSetRow, SeqInv, Answers(player), PositionCall
    PROVE  Answers(player')
<1>1. ScanInv /\ info \in InfoType /\ Sound(player) /\ IsPlayer(player)
    BY DEF SeqInv, Sound
<1>2. CASE NextPosition \/ PrevPosition \/ \E pos \in Orders : SetPosition(pos)
  <2>1. player' = player \/ \E pos, dir : player' = MovePosition(player, pos, dir)
      BY <1>2 DEF NextPosition, PrevPosition, SetPosition, Call
  <2> QED  BY <1>1, <2>1, MovePositionAnswers
<1>3. ASSUME NEW row, SetRow(row)  PROVE FALSE
    BY <1>3 DEF SetRow, Call, NoSetRow
<1>4. CASE StopModule \/ RestartModule
    BY <1>1, <1>4, StopAnswers
<1>5. ASSUME NEW time \in 0 .. RowLimit, SeekTime(time)  PROVE Answers(player')
  <2>1. Scanned
      BY <1>5 DEF SeekTime, Call, Playing
  <2> QED  BY <1>1, <1>5, <2>1, SeekAnswers
<1>6. CASE Rescan
  <2> DEFINE b == player.stale \/ rules' # rules
  <2>1. player' = [player EXCEPT !.stale = b]
      BY <1>6 DEF Rescan
  <2> HIDE DEF b
  <2> DEFINE q == player'
  <2>2. q = [player EXCEPT !.stale = b]
      BY <2>1
  <2> HIDE DEF q
  <2>3. /\ q.flow = player.flow /\ q.bad = player.bad /\ q.ord = player.ord
        /\ q.pos = player.pos /\ q.force = player.force /\ q.row = player.row
        /\ q.frame = player.frame
      BY <1>1, <2>2 DEF IsPlayer, Fields
  <2>4. Answers(q)
      BY <2>3, AnswersAsBefore
  <2> QED  BY <2>4 DEF q
<1> QED  BY <1>2, <1>3, <1>4, <1>5, <1>6 DEF PositionCall

LEMMA AnswersStay ==
    ASSUME song' = song, Answers(player')
    PROVE  Answers(player)'
BY DEF Answers, Asks, Effect, Rows, Pending

LEMMA NewPlayerAnswers ==
    ASSUME SongOK, StartPlayer
    PROVE  Answers(player')
<1> DEFINE o == Settle(0)
           n == Rows(o)
           e == ends[0].num
           p == NoPlayer
           q == [p EXCEPT !.playing = TRUE, !.ord = o, !.num_rows = n, !.end_point = e]
           r == [p EXCEPT !.playing = TRUE, !.bad = TRUE]
<1>1. player' = q \/ player' = r
    BY DEF StartPlayer
<1>2. IsPlayer(p) /\ p.flow = ResetFlow
    BY NoPlayerFields DEF NoPlayer
<1> HIDE DEF p, o, n, e
<1>3. q.flow = p.flow /\ r.flow = p.flow
    BY <1>2 DEF IsPlayer, Fields
<1>4. ~Pending(ResetFlow)
    BY ResetFlowOK, QuietFlows
<1> HIDE DEF q, r
<1> QED  BY <1>1, <1>2, <1>3, <1>4 DEF Answers

\* The end of a scan changes the player's sequence at most.
LEMMA ScanStepFieldsOfPlayer ==
    ASSUME IsPlayer(player), ScanStep
    PROVE  /\ player'.flow = player.flow /\ player'.bad = player.bad
           /\ player'.ord = player.ord /\ player'.pos = player.pos
           /\ player'.force = player.force /\ player'.row = player.row
           /\ player'.frame = player.frame
<1> DEFINE seq == IF player.pos \in Orders THEN control'[player.pos] ELSE 0
           b == player.stale \/ seq # player.sequence
           q == [player EXCEPT !.sequence = seq, !.stale = b]
<1>1. player' = player \/ player' = q
    BY DEF ScanStep
<1> HIDE DEF seq, b
<1>2. /\ q.flow = player.flow /\ q.bad = player.bad
      /\ q.ord = player.ord /\ q.pos = player.pos
      /\ q.force = player.force /\ q.row = player.row
      /\ q.frame = player.frame
    BY DEF IsPlayer, Fields
<1> HIDE DEF q
<1> QED  BY <1>1, <1>2

\* A position call leaves the song and is counted.
LEMMA CallsAreCounted ==
    ASSUME PositionCall, calls \in Nat
    PROVE  song' = song /\ calls' \in Nat
<1>1. ASSUME NEW name, NEW p, Call(name, p)
      PROVE  song' = song /\ calls' \in Nat
    BY <1>1 DEF Call, scanVars
<1>2. CASE NextPosition
    BY <1>1, <1>2 DEF NextPosition
<1>3. CASE PrevPosition
    BY <1>1, <1>3 DEF PrevPosition
<1>4. ASSUME NEW pos, SetPosition(pos)
      PROVE  song' = song /\ calls' \in Nat
    BY <1>1, <1>4 DEF SetPosition
<1>5. ASSUME NEW row, SetRow(row)
      PROVE  song' = song /\ calls' \in Nat
    BY <1>1, <1>5 DEF SetRow
<1>6. CASE StopModule
    BY <1>1, <1>6 DEF StopModule
<1>7. CASE RestartModule
    BY <1>1, <1>7 DEF RestartModule
<1>8. ASSUME NEW time, SeekTime(time)
      PROVE  song' = song /\ calls' \in Nat
    BY <1>1, <1>8 DEF SeekTime
<1>9. CASE Rescan
    BY <1>9 DEF Rescan
<1> QED  BY <1>2, <1>3, <1>4, <1>5, <1>6, <1>7, <1>8, <1>9 DEF PositionCall

LEMMA JumpsKeep ==
    ASSUME NoSetRow, JumpInv, [Next]_vars
    PROVE  JumpInv'
<1>1. /\ SeqInv /\ Answers(player) /\ calls \in Nat /\ Sound(player) /\ IsPlayer(player)
      /\ SongOK /\ entry \in EntryType
    BY DEF JumpInv, SeqInv, Sound, ScanInv, SongOK, Good
<1>2. SeqInv'
    BY <1>1, SequencerKeeps
<1>3. song' = song /\ calls' \in Nat
  <2>1. CASE ScanStep
    <3>1. song' = song
        BY <1>1, <2>1, ScanStepFields DEF SeqInv, ScanStep
    <3> QED  BY <1>1, <2>1, <3>1 DEF ScanStep
  <2>2. CASE StartPlayer
      BY <1>1, <2>2 DEF StartPlayer
  <2>3. CASE PlayFrame
      BY <1>1, <2>3 DEF PlayFrame, PlayNothing, PlayElsewhere, PlayOn, PlaySkipping, scanVars
  <2>4. CASE PositionCall
      BY <1>1, <2>4, CallsAreCounted
  <2>5. CASE UNCHANGED vars
      BY <1>1, <2>5 DEF vars, scanVars
  <2> QED  BY <2>1, <2>2, <2>3, <2>4, <2>5 DEF Next, Advance
<1>4. Answers(player')
  <2>1. CASE ScanStep
      BY <1>1, <2>1, ScanStepFieldsOfPlayer, AnswersAsBefore
  <2>2. CASE StartPlayer
      BY <1>1, <2>2, NewPlayerAnswers
  <2>3. CASE PlayFrame
      BY <1>1, <2>3, NothingAnswers, ElsewhereAnswers, PlayOnAnswers, PlaySkippingAnswers
      DEF PlayFrame
  <2>4. CASE PositionCall
      BY <1>1, <2>4, CallsAnswer
  <2>5. CASE UNCHANGED vars
      BY <1>1, <2>5 DEF vars
  <2> QED  BY <2>1, <2>2, <2>3, <2>4, <2>5 DEF Next, Advance
<1> QED  BY <1>2, <1>3, <1>4, AnswersStay DEF JumpInv

\* Without anything pending the next row is this one or the one after it.
LEMMA RowByRow ==
    ASSUME JumpInv, PlayOn, ~Pending(player.flow), player.row + 1 < player.num_rows
    PROVE  player'.ord = player.ord /\ player'.row \in {player.row, player.row + 1}
<1>1. SongOK /\ Sound(player) /\ entry \in EntryType
    BY DEF JumpInv, SeqInv, ScanInv, SongOK, Good
<1>2. player.playing /\ ~player.bad /\ player.ord = player.pos /\ ~player.force
    BY DEF PlayOn, Playing, Displaced
<1>3. PICK q \in {IF RowOver THEN NextRow(Ticked) ELSE Ticked} : Produce(q)
    BY DEF PlayOn
<1> DEFINE p == Ticked
<1>4. /\ IsPlayer(p) /\ p.flow = player.flow /\ p.bad = player.bad
      /\ p.ord = player.ord /\ p.pos = player.pos
      /\ p.force = player.force /\ p.row = player.row
      /\ p.num_rows = player.num_rows
    BY <1>1, TickedFields
<1>5. Arrived(p) /\ ~p.bad
    BY <1>1, <1>2, TickedArrives
<1> HIDE DEF p
<1>6. /\ NextRow(p).ord = p.ord /\ NextRow(p).row \in {p.row, p.row + 1}
      /\ ~NextRow(p).bad
  <2> DEFINE f == [p.flow EXCEPT !.delay = 0, !.loop_param = NONE, !.loop_dest = NONE]
             row == IF p.flow.loop_dest >= 0 THEN p.flow.loop_dest
                    ELSE IF f.rowdelay = 0 THEN p.row + 1 ELSE p.row
             g == [f EXCEPT !.rowdelay = IF @ = 0 THEN 0 ELSE @ - 1,
                            !.rowdelay_set = @ /\ f.rowdelay # 0]
             stay == [p EXCEPT !.frame = 0, !.row = row, !.flow = g]
  <2>1. NextRow(p) = IF f.pbreak
                     THEN NextOrder([p EXCEPT !.frame = 0, !.flow = BreakDone(f)],
                                    IF f.jump = NONE THEN p.ord + 1 ELSE f.jump)
                     ELSE IF PatternOver(p, row) THEN NextOrder(stay, p.ord + 1) ELSE stay
      BY DEF NextRow
  <2>2. p.flow \in FlowRec /\ p.row \in Nat /\ p.num_rows \in Nat
      BY <1>4 DEF IsPlayer
  <2>3. ~f.pbreak /\ ~(p.flow.loop_dest >= 0)
      BY <1>4, <2>2 DEF Pending, FlowRec
  <2> HIDE DEF f
  <2>4. row \in {p.row, p.row + 1}
      BY <2>3
  <2> HIDE DEF row
  <2>5. ~PatternOver(p, row)
    <3>1. p.row + 1 < p.num_rows
        BY <1>4
    <3> QED  BY <2>2, <2>4, <3>1 DEF PatternOver
  <2>6. NextRow(p) = stay
      BY <2>1, <2>3, <2>5
  <2> HIDE DEF g
  <2>7. stay.ord = p.ord /\ stay.row = row /\ stay.bad = p.bad
      BY <1>4 DEF IsPlayer, Fields
  <2> HIDE DEF stay
  <2> QED  BY <1>5, <2>4, <2>6, <2>7
<1>7. q = NextRow(p) \/ q = p
    BY <1>3 DEF p
<1>8. ~q.bad /\ q.ord = player.ord /\ q.row \in {player.row, player.row + 1}
    BY <1>4, <1>5, <1>6, <1>7
<1>9. player' \in Read(q)
    BY <1>3, <1>8 DEF Produce
<1>10. CASE q.frame # 0
  <2>1. player' = q
      BY <1>9, <1>10 DEF Read
  <2> QED  BY <1>8, <2>1
<1>11. CASE q.frame = 0
  <2>1. Arrived(q) /\ Placed(q)
    <3>1. Arrived(NextRow(p)) /\ Placed(NextRow(p))
        BY <1>1, <1>2, <1>4, <1>5, NextRowArrives, NextRowPlaced DEF Arrived
    <3>2. q = p => Placed(p)
        BY <1>2, <1>4, <1>11 DEF Placed
    <3> QED  BY <1>5, <1>7, <3>1, <3>2
  <2>2. player'.ord = q.ord /\ player'.row = q.row
      BY <1>1, <1>8, <1>9, <2>1, ReadAnswers
  <2> QED  BY <1>8, <2>2
<1> QED  BY <1>10, <1>11

\* Playback leaves the order of the rows only where the row that plays asks for
\* it: next_row and next_order carry out what a row has left and forget it, and
\* no call but xmp_set_row takes it elsewhere.
THEOREM JumpsAlwaysComeFromRow ==
    ASSUME NoSetRow
    PROVE  Spec => JumpsComeFromRow
<1>1. Init => JumpInv
  <2>1. SUFFICES ASSUME Init  PROVE JumpInv
      OBVIOUS
  <2>2. SeqInv /\ calls = 0
      BY <2>1, SequencerInitially DEF Init
  <2>3. player.flow = ResetFlow
      BY <2>1 DEF Init, NoPlayer
  <2>4. ~Pending(player.flow)
      BY <2>3, ResetFlowOK, QuietFlows
  <2> QED  BY <2>2, <2>4 DEF JumpInv, Answers
<1>2. JumpInv /\ [Next]_vars => JumpInv'
    BY JumpsKeep
<1>3. ASSUME JumpInv, [Next]_vars, Sounding, calls' = calls, player'.frame = 0,
             player.row + 1 < player.num_rows
      PROVE  \/ HasEffect({"jump", "break", "line", "loop"})
             \/ player'.ord = player.ord /\ player'.row \in {player.row, player.row + 1}
  <2>1. /\ SeqInv /\ Answers(player) /\ calls \in Nat /\ Sound(player) /\ IsPlayer(player)
      BY <1>3 DEF JumpInv, SeqInv, Sound
  <2>2. player.frame \in Int /\ player.frame >= 0 /\ ~Displaced
      BY <1>3, <2>1 DEF Sounding, IsPlayer
  <2>3. Pending(player.flow) => HasEffect({"jump", "break", "line", "loop"})
      BY <2>1 DEF Answers, Asks, Moves, HasEffect
  <2>4. CASE ScanStep
      BY <2>1, <2>4, ScanStepFieldsOfPlayer
  <2>5. CASE StartPlayer
    <3>1. player.frame < 0
        BY <2>1, <2>5 DEF StartPlayer, Sound
    <3> QED  BY <2>2, <3>1
  <2>6. CASE PlayNothing
    <3>1. player' = Ended(player)
        BY <2>2, <2>6 DEF PlayNothing
    <3> QED  BY <2>1, <3>1, EndedFields
  <2>7. CASE PlayElsewhere
      BY <2>2, <2>7 DEF PlayElsewhere
  <2>8. CASE PlayOn
      BY <1>3, <2>3, <2>8, RowByRow
  <2>9. CASE PlaySkipping
    <3>1. Pending(player.flow)
        BY <2>9 DEF PlaySkipping, SkipsRow, Pending
    <3> QED  BY <2>3, <3>1
  <2>10. CASE PositionCall
    <3>1. calls' = calls + 1
        BY <2>10 DEF PositionCall, NextPosition, PrevPosition, SetPosition, SetRow,
                     StopModule, RestartModule, SeekTime, Rescan, Call
    <3> QED  BY <1>3, <2>1, <3>1
  <2>11. CASE UNCHANGED vars
      BY <2>11 DEF vars
  <2> QED  BY <1>3, <2>4, <2>5, <2>6, <2>7, <2>8, <2>9, <2>10, <2>11
           DEF Next, Advance, PlayFrame
<1>4. JumpInv /\ [Next]_vars =>
        [Sounding /\ calls' = calls /\ player'.frame = 0 /\ player.row + 1 < player.num_rows =>
          \/ HasEffect({"jump", "break", "line", "loop"})
          \/ player'.ord = player.ord /\ player'.row \in {player.row, player.row + 1}]_vars
    BY <1>3
<1> QED  BY <1>1, <1>2, <1>4, PTL DEF Spec, JumpsComeFromRow
-----------------------------------------------------------------------------
(* What the scan has found stays true while the module plays, and the      *)
(* player's counters stay in their bounds.                                 *)

\* The rules a rescan may bring.
RulesOK == rules \in Trackers \cup Modes

\* The counters of the player; n loops are counted at most.
Bounded(p, n) ==
    /\ p.frame >= -1 /\ p.ord <= song.len
    /\ p.end_point \in EndFloor .. CountMod - 1 /\ p.loop_count \in 0 .. n

\* A frame that skips a row counts twice.
LoopBound == MaxLoops + 1

CountInv ==
    /\ SeqInv /\ EntryInv /\ RulesOK
    /\ calls \in 0 .. MaxCalls /\ Bounded(player, LoopBound)

\* No more visits of the end are waited for than the scan has counted.
Fits(p) == p.stale \/ p.end_point <= ends[p.sequence].num

\* What a step that goes on playing does not touch.
SameCount(p, q) ==
    /\ q.end_point = p.end_point /\ q.loop_count = p.loop_count
    /\ q.sequence = p.sequence /\ q.stale = p.stale /\ q.playing = p.playing

LEMMA SettleStays ==
    ASSUME SongOK, NEW o \in Orders
    PROVE  Settle(o) \in 0 .. song.len
<1> DEFINE S == {i \in o .. song.len : i = song.len \/ EndMarked(i) \/ Valid(i)}
<1>1. song.len \in Nat /\ o \in Nat /\ o < song.len
    BY SongFields DEF Orders
<1>2. Settle(o) = Least(S)
    BY <1>1 DEF Settle
<1>3. song.len \in S /\ S \subseteq Nat /\ S \subseteq 0 .. song.len
    BY <1>1
<1> HIDE DEF S
<1> QED  BY <1>2, <1>3, LeastFound

LEMMA EnterOrderCounts ==
    ASSUME NEW p, IsPlayer(p), NEW o
    PROVE  /\ SameCount(p, EnterOrder(p, o)) /\ EnterOrder(p, o).frame = 0
           /\ EnterOrder(p, o).ord = o /\ EnterOrder(p, o).pos = o
           /\ ~EnterOrder(p, o).bad /\ EnterOrder(p, o).row = BreakRow(p, o)
           /\ EnterOrder(p, o).force = p.force
<1> DEFINE row == BreakRow(p, o)
           flow == [ForgetLoops(p.flow) EXCEPT !.jumpline = 0]
           n == Rows(o)
           q == EnterOrder(p, o)
<1>1. q = [p EXCEPT !.ord = o, !.pos = o, !.frame = 0, !.bad = FALSE, !.astray = FALSE,
                    !.num_rows = n, !.row = row, !.flow = flow]
    BY DEF EnterOrder
<1> HIDE DEF n, row, flow, q
<1>2. SameCount(p, q)
    BY <1>1 DEF SameCount, IsPlayer, Fields
<1>3. /\ q.frame = 0 /\ q.ord = o /\ q.pos = o /\ ~q.bad /\ q.row = row
      /\ q.force = p.force
    BY <1>1 DEF IsPlayer, Fields
<1> QED  BY <1>2, <1>3 DEF q, row

LEMMA NextOrderCounts ==
    ASSUME SongOK, entry \in EntryType, NEW p, IsPlayer(p), NEW o
    PROVE  LET q == NextOrder(p, o)
           IN  SameCount(p, q) /\ q.frame \in {0, p.frame} /\ q.ord <= song.len
<1> DEFINE first == Settle(o)
           from  == IF first < entry[p.sequence] THEN entry[p.sequence]
                    ELSE RestartOrder(p.sequence, entry[p.sequence])
           again == Settle(from)
           lost  == [p EXCEPT !.ord = again, !.bad = TRUE]
<1>1. NextOrder(p, o) = IF Playable(first) THEN EnterOrder(p, first)
                        ELSE IF Playable(again) THEN EnterOrder(p, again) ELSE lost
    BY DEF NextOrder
<1>2. from \in Orders
  <2>1. entry[p.sequence] \in Orders
      BY DEF IsPlayer, EntryType
  <2>2. RestartOrder(p.sequence, entry[p.sequence]) \in Orders
      BY <2>1, SongFields DEF RestartOrder, Orders
  <2> QED  BY <2>1, <2>2
<1>3. again \in Nat /\ again <= song.len
  <2>1. again \in 0 .. song.len
      BY <1>2, SettleStays
  <2> QED  BY <2>1, SongFields
<1> HIDE DEF first, from, again
<1>4. SameCount(p, lost) /\ lost.frame = p.frame /\ lost.ord <= song.len
  <2>1. SameCount(p, lost)
      BY DEF SameCount, IsPlayer, Fields
  <2>2. lost.frame = p.frame /\ lost.ord = again
      BY DEF IsPlayer, Fields
  <2> QED  BY <1>3, <2>1, <2>2
<1>5. ASSUME NEW v, Playable(v)
      PROVE  LET q == EnterOrder(p, v)
             IN  SameCount(p, q) /\ q.frame = 0 /\ q.ord <= song.len
  <2>1. v <= song.len
      BY <1>5, SongFields DEF Playable, Orders
  <2>2. /\ SameCount(p, EnterOrder(p, v)) /\ EnterOrder(p, v).frame = 0
        /\ EnterOrder(p, v).ord = v
      BY EnterOrderCounts
  <2> QED  BY <2>1, <2>2
<1> HIDE DEF lost
<1> QED  BY <1>1, <1>4, <1>5

LEMMA NextRowCounts ==
    ASSUME SongOK, entry \in EntryType, NEW p, IsPlayer(p), p.ord <= song.len
    PROVE  LET q == NextRow(p)
           IN  SameCount(p, q) /\ q.frame = 0 /\ q.ord <= song.len
<1> DEFINE f == [p.flow EXCEPT !.delay = 0, !.loop_param = NONE, !.loop_dest = NONE]
           row == IF p.flow.loop_dest >= 0 THEN p.flow.loop_dest
                  ELSE IF f.rowdelay = 0 THEN p.row + 1 ELSE p.row
           d == IF f.rowdelay = 0 THEN 0 ELSE f.rowdelay - 1
           b == f.rowdelay_set /\ f.rowdelay # 0
           g == [f EXCEPT !.rowdelay = d, !.rowdelay_set = b]
           h == BreakDone(f)
           stay == [p EXCEPT !.frame = 0, !.row = row, !.flow = g]
           broken == [p EXCEPT !.frame = 0, !.flow = h]
           to == IF f.jump = NONE THEN p.ord + 1 ELSE f.jump
<1>1. NextRow(p) = IF f.pbreak THEN NextOrder(broken, to)
                   ELSE IF PatternOver(p, row) THEN NextOrder(stay, p.ord + 1) ELSE stay
    BY DEF NextRow
<1>2. p.flow \in FlowRec /\ p.row \in Nat /\ NONE \in Int /\ 0 \in Int
    BY DEF IsPlayer, NONE
<1>3. f \in FlowRec
    BY <1>2, FlowFields
<1>4. row \in Nat
    BY <1>2, <1>3 DEF FlowRec
<1> HIDE DEF f, row, to
<1>5. h \in FlowRec
  <2>1. h = [f EXCEPT !.pbreak = FALSE, !.jump = NONE]
      BY DEF BreakDone
  <2> HIDE DEF h
  <2> QED  BY <1>2, <1>3, <2>1 DEF FlowRec
<1>6. g \in FlowRec
  <2>1. d \in Int /\ b \in BOOLEAN
      BY <1>3 DEF FlowRec
  <2> HIDE DEF d, b
  <2> QED  BY <1>3, <2>1, FlowFields
<1> HIDE DEF g, h
<1>7. IsPlayer(broken) /\ broken.frame = 0 /\ SameCount(p, broken)
  <2> HIDE DEF broken
  <2>1. broken = [p EXCEPT !.frame = 0, !.flow = h]
      BY DEF broken
  <2>2. IsPlayer(broken) /\ broken.frame = 0
      BY <1>2, <1>5, <2>1 DEF IsPlayer, Fields
  <2>3. SameCount(p, broken)
      BY <2>1 DEF SameCount, IsPlayer, Fields
  <2> QED  BY <2>2, <2>3
<1>8. IsPlayer(stay) /\ stay.frame = 0 /\ stay.ord = p.ord /\ SameCount(p, stay)
  <2> HIDE DEF stay
  <2>1. stay = [p EXCEPT !.frame = 0, !.row = row, !.flow = g]
      BY DEF stay
  <2>2. IsPlayer(stay) /\ stay.frame = 0 /\ stay.ord = p.ord
      BY <1>2, <1>4, <1>6, <2>1 DEF IsPlayer, Fields
  <2>3. SameCount(p, stay)
      BY <2>1 DEF SameCount, IsPlayer, Fields
  <2> QED  BY <2>2, <2>3
<1> HIDE DEF broken, stay
<1>9. ASSUME NEW r, IsPlayer(r), r.frame = 0, SameCount(p, r), NEW o
      PROVE  LET q == NextOrder(r, o)
             IN  SameCount(p, q) /\ q.frame = 0 /\ q.ord <= song.len
    BY <1>9, NextOrderCounts DEF SameCount
<1> QED  BY <1>1, <1>7, <1>8, <1>9

\* A visit of the sequence's end is counted down, and the last one counts.
LEMMA CheckEndCounts ==
    ASSUME ends \in EndsType, NEW p, IsPlayer(p), NEW n \in Nat, Bounded(p, n)
    PROVE  LET q == CheckEnd(p)
           IN  /\ Bounded(q, n + 1) /\ (Fits(p) => Fits(q))
               /\ q.sequence = p.sequence /\ q.stale = p.stale /\ q.playing = p.playing
               /\ q.pos = p.pos /\ q.force = p.force /\ q.flow = p.flow /\ q.frame = p.frame
               /\ q.ord = p.ord
<1> DEFINE num == ends[p.sequence].num
           left == IF p.end_point = 0 THEN num ELSE p.end_point
           k == IF p.end_point = 0 THEN p.loop_count + 1 ELSE p.loop_count
           m == IF left > EndFloor THEN left - 1 ELSE left
           q == CheckEnd(p)
<1>1. q = p \/ q = [p EXCEPT !.loop_count = k, !.end_point = m]
    BY DEF CheckEnd
<1>2. num \in 0 .. CountMod - 1 /\ CountMod \in Nat
    BY LimitsAssumption DEF IsPlayer, EndsType
<1>3. p.end_point \in EndFloor .. CountMod - 1 /\ p.loop_count \in 0 .. n
    BY DEF Bounded
<1> HIDE DEF num
<1>4. m \in EndFloor .. CountMod - 1 /\ (p.end_point <= num => m <= num) /\ k \in 0 .. n + 1
  <2>1. left \in EndFloor .. CountMod - 1 /\ (p.end_point <= num => left <= num)
      BY <1>2, <1>3 DEF EndFloor
  <2> HIDE DEF left
  <2>2. m \in EndFloor .. CountMod - 1 /\ m <= left
      BY <1>2, <2>1 DEF EndFloor
  <2>3. p.end_point <= num => m <= num
    <3>1. left \in Int /\ m \in Int /\ num \in Int
        BY <1>2, <2>1, <2>2 DEF EndFloor
    <3> HIDE DEF m
    <3> QED  BY <2>1, <2>2, <3>1
  <2>4. k \in 0 .. n + 1
      BY <1>3
  <2> QED  BY <2>2, <2>3, <2>4
<1> HIDE DEF k, m, q
<1>5. /\ q.sequence = p.sequence /\ q.stale = p.stale /\ q.playing = p.playing /\ q.pos = p.pos
      /\ q.force = p.force /\ q.flow = p.flow /\ q.frame = p.frame /\ q.ord = p.ord
      /\ (q.end_point = p.end_point \/ q.end_point = m)
      /\ (q.loop_count = p.loop_count \/ q.loop_count = k)
    BY <1>1 DEF IsPlayer, Fields
<1>6. q.end_point \in EndFloor .. CountMod - 1 /\ q.loop_count \in 0 .. n + 1
  <2>1. p.loop_count \in 0 .. n + 1
      BY <1>3
  <2> QED  BY <1>3, <1>4, <1>5, <2>1
<1>7. Fits(p) => Fits(q)
    BY <1>4, <1>5 DEF Fits, num
<1>8. Bounded(q, n + 1)
    BY <1>5, <1>6 DEF Bounded
<1> QED  BY <1>5, <1>7, <1>8 DEF q

\* Reading a row checks for the end first, and a frame inside of it does not.
LEMMA ReadCounts ==
    ASSUME SongOK, ends \in EndsType, NEW p, Arrived(p), ~p.bad, NEW n \in Nat, Bounded(p, n),
           NEW q \in Read(p)
    PROVE  /\ Bounded(q, n + 1) /\ (Fits(p) => Fits(q))
           /\ q.sequence = p.sequence /\ q.stale = p.stale /\ q.playing = p.playing
           /\ q.pos = p.pos /\ q.force = p.force /\ q.ord = p.ord /\ q.row = p.row
           /\ (p.frame # 0 => q.flow = p.flow)
<1>1. IsPlayer(p)
    BY DEF Arrived
<1>2. CASE p.frame # 0
  <2>1. q = p
      BY <1>2 DEF Read
  <2>2. p.loop_count \in 0 .. n + 1
      BY DEF Bounded
  <2>3. Bounded(p, n + 1)
      BY <2>2 DEF Bounded
  <2> QED  BY <2>1, <2>3
<1>3. CASE p.frame = 0
  <2> DEFINE c == CheckEnd(p)
  <2>1. /\ Bounded(c, n + 1) /\ (Fits(p) => Fits(c))
        /\ c.sequence = p.sequence /\ c.stale = p.stale /\ c.playing = p.playing
        /\ c.pos = p.pos /\ c.force = p.force /\ c.ord = p.ord
      BY <1>1, CheckEndCounts
  <2>2. IsPlayer(c) /\ c.row = p.row
      BY CheckEndArrives DEF Arrived
  <2>3. \E f : q = [c EXCEPT !.flow = f]
    <3>1. q \in ReadRow(c)
        BY <1>3 DEF Read
    <3> QED  BY <3>1 DEF ReadRow
  <2> HIDE DEF c
  <2>4. /\ SameCount(c, q) /\ q.pos = c.pos /\ q.force = c.force /\ q.ord = c.ord
        /\ q.row = c.row /\ q.frame = c.frame
    <3>1. PICK f : q = [c EXCEPT !.flow = f]
        BY <2>3
    <3>2. SameCount(c, q)
        BY <2>2, <3>1 DEF SameCount, IsPlayer, Fields
    <3>3. /\ q.pos = c.pos /\ q.force = c.force /\ q.ord = c.ord
          /\ q.row = c.row /\ q.frame = c.frame
        BY <2>2, <3>1 DEF IsPlayer, Fields
    <3> QED  BY <3>2, <3>3
  <2>5. Bounded(q, n + 1) /\ (Fits(c) => Fits(q))
      BY <2>1, <2>4 DEF Bounded, Fits, SameCount
  <2> QED  BY <1>3, <2>1, <2>2, <2>4, <2>5 DEF SameCount
<1> QED  BY <1>2, <1>3

LEMMA EndedCounts ==
    ASSUME NEW p, IsPlayer(p), NEW n, Bounded(p, n)
    PROVE  Bounded(Ended(p), n) /\ (Fits(p) => Fits(Ended(p))) /\ SameCount(p, Ended(p))
<1> DEFINE q == Ended(p)
<1>1. q = [p EXCEPT !.ended = TRUE]
    BY DEF Ended
<1> HIDE DEF q
<1>2. SameCount(p, q)
    BY <1>1 DEF SameCount, IsPlayer, Fields
<1>3. q.frame = p.frame /\ q.ord = p.ord
    BY <1>1 DEF IsPlayer, Fields
<1>4. Bounded(q, n) /\ (Fits(p) => Fits(q))
    BY <1>2, <1>3 DEF Bounded, Fits, SameCount
<1> QED  BY <1>2, <1>4 DEF q

LEMMA MoreLoops ==
    ASSUME NEW p, NEW n \in Nat, Bounded(p, n)
    PROVE  Bounded(p, n + 1)
<1>1. p.loop_count \in 0 .. n + 1
    BY DEF Bounded
<1> QED  BY <1>1 DEF Bounded

LEMMA ProduceCounts ==
    ASSUME SongOK, ends \in EndsType, NEW p, Arrived(p), NEW n \in Nat, Bounded(p, n), Produce(p)
    PROVE  /\ Bounded(player', n + 1) /\ (Fits(p) => Fits(player'))
           /\ player'.sequence = p.sequence /\ player'.stale = p.stale
           /\ player'.playing = p.playing
<1>1. CASE p.bad
  <2>1. player' = Ended(p)
      BY <1>1 DEF Produce
  <2> QED  BY <2>1, EndedCounts, MoreLoops DEF SameCount, Arrived
<1>2. CASE ~p.bad
  <2>1. player' \in Read(p)
      BY <1>2 DEF Produce
  <2> QED  BY <1>2, <2>1, ReadCounts
<1> QED  BY <1>1, <1>2

\* What a frame changes in the player's place goes through these steps; the
\* intermediate player is kept within the bounds.
LEMMA SameCountBounded ==
    ASSUME NEW p, NEW n, Bounded(p, n), NEW q, SameCount(p, q), q.frame >= -1, q.ord <= song.len
    PROVE  Bounded(q, n) /\ (Fits(p) => Fits(q))
BY DEF Bounded, Fits, SameCount

LEMMA NothingCounts ==
    ASSUME Sound(player), NEW n, Bounded(player, n), PlayNothing
    PROVE  /\ Bounded(player', n) /\ (Fits(player) => Fits(player'))
           /\ SameCount(player, player')
<1> DEFINE p == player
           q == [p EXCEPT !.force = FALSE]
<1>1. player' = Ended(q) \/ player' = Ended(p)
    BY DEF PlayNothing
<1>2. IsPlayer(p) /\ Bounded(p, n)
    BY DEF Sound
<1>3. IsPlayer(q) /\ SameCount(p, q) /\ q.frame = p.frame /\ q.ord = p.ord
  <2> HIDE DEF p, q
  <2>1. q = [p EXCEPT !.force = FALSE]
      BY DEF q
  <2>2. IsPlayer(q) /\ q.frame = p.frame /\ q.ord = p.ord
      BY <1>2, <2>1 DEF IsPlayer, Fields
  <2>3. SameCount(p, q)
      BY <1>2, <2>1 DEF SameCount, IsPlayer, Fields
  <2> QED  BY <2>2, <2>3
<1> HIDE DEF q
<1>4. Bounded(q, n) /\ (Fits(p) => Fits(q))
    BY <1>2, <1>3 DEF Bounded, Fits, SameCount
<1> HIDE DEF p
<1>5. /\ Bounded(Ended(p), n) /\ (Fits(p) => Fits(Ended(p))) /\ SameCount(p, Ended(p))
      /\ Bounded(Ended(q), n) /\ (Fits(q) => Fits(Ended(q))) /\ SameCount(q, Ended(q))
    BY <1>2, <1>3, <1>4, EndedCounts
<1>6. SameCount(p, Ended(q))
    BY <1>3, <1>5 DEF SameCount
<1> QED  BY <1>1, <1>4, <1>5, <1>6 DEF p

\* The player that repositions: how often the end has to be reached from there.
LEMMA Repositions ==
    ASSUME SongOK, entry \in EntryType, ends \in EndsType, Sound(player), NEW n,
           Bounded(player, n), PlayElsewhere
    PROVE  \E p, from :
              /\ Produce(NextOrder(p, from)) /\ from \in Int
              /\ from = LET start == entry[player.sequence]
                            pos == IF player.pos = RESTART THEN start ELSE player.pos
                        IN  IF pos < start THEN start ELSE pos
              /\ IsPlayer(p) /\ Bounded(p, n) /\ (Fits(player) => Fits(p))
              /\ p.sequence = player.sequence /\ p.stale = player.stale
              /\ p.playing = player.playing /\ p.flow.jumpline = player.flow.jumpline
              /\ p.loop_count = player.loop_count /\ ~p.force
<1> DEFINE start == entry[player.sequence]
           pos == IF player.pos = RESTART THEN start ELSE player.pos
           f == player.flow
           g == [f EXCEPT !.jump = NONE]
           e == EndPointFrom(player, pos)
           p == [player EXCEPT !.force = FALSE, !.pos = pos, !.ended = FALSE,
                               !.end_point = e, !.flow = g]
           from == IF pos < start THEN start ELSE pos
           num == ends[player.sequence].num
<1>1. Produce(NextOrder(p, from))
    BY DEF PlayElsewhere
<1>2. IsPlayer(player)
    BY DEF Sound
<1>3. start \in Orders /\ player.pos \in {STOPPED, RESTART} \cup Orders /\ f \in FlowRec
    BY <1>2 DEF IsPlayer, EntryType
<1>4. pos \in {STOPPED, RESTART} \cup Orders /\ from \in Int
    BY <1>3, OrderFacts DEF STOPPED, RESTART
<1>5. g \in FlowRec /\ g.jumpline = f.jumpline
  <2> HIDE DEF f
  <2>1. NONE \in Int
      BY DEF NONE
  <2> QED  BY <1>3, <2>1 DEF FlowRec
<1>6. num \in 0 .. CountMod - 1 /\ CountMod \in Nat
    BY <1>2, LimitsAssumption DEF IsPlayer, EndsType
<1>7. e = 0 \/ e = num \/ e = player.end_point
    BY DEF EndPointFrom
<1> HIDE DEF pos, e, g, num
<1>8. e \in EndFloor .. CountMod - 1 /\ (player.end_point <= num => e <= num)
  <2>1. /\ 0 \in EndFloor .. CountMod - 1 /\ num \in EndFloor .. CountMod - 1
        /\ 0 <= num /\ num <= num
      BY <1>6, LimitsAssumption DEF EndFloor
  <2>2. player.end_point \in EndFloor .. CountMod - 1
      BY DEF Bounded
  <2> QED  BY <1>7, <2>1, <2>2
<1>9. /\ IsPlayer(p) /\ p.playing = player.playing /\ p.sequence = player.sequence
      /\ p.stale = player.stale /\ p.flow = g /\ p.end_point = e /\ p.force = FALSE
      /\ p.loop_count = player.loop_count /\ p.frame = player.frame /\ p.ord = player.ord
    BY <1>2, <1>4, <1>5 DEF IsPlayer, Fields
<1> HIDE DEF p
<1>10. Bounded(p, n)
    BY <1>8, <1>9 DEF Bounded
<1>11. Fits(player) => Fits(p)
    BY <1>8, <1>9 DEF Fits, num
<1>12. from = LET s == entry[player.sequence]
                  o == IF player.pos = RESTART THEN s ELSE player.pos
              IN  IF o < s THEN s ELSE o
    BY DEF pos
<1> HIDE DEF from
<1> QED  BY <1>1, <1>4, <1>5, <1>9, <1>10, <1>11, <1>12

LEMMA TickedCounts ==
    ASSUME Sound(player), NEW n, Bounded(player, n)
    PROVE  SameCount(player, Ticked) /\ Bounded(Ticked, n) /\ (Fits(player) => Fits(Ticked))
<1> DEFINE p == player
           k == p.frame + 1
           q == Ticked
<1>1. IsPlayer(p)
    BY DEF Sound
<1>2. q = [p EXCEPT !.frame = k, !.ended = FALSE]
    BY DEF Ticked
<1>3. k >= -1
    BY <1>1 DEF Bounded, IsPlayer
<1> HIDE DEF q, k
<1>4. SameCount(p, q) /\ q.frame = k /\ q.ord = p.ord
  <2> HIDE DEF p
  <2>1. SameCount(p, q)
      BY <1>1, <1>2 DEF SameCount, IsPlayer, Fields
  <2> QED  BY <1>1, <1>2, <2>1 DEF IsPlayer, Fields
<1>5. Bounded(q, n) /\ (Fits(p) => Fits(q))
    BY <1>3, <1>4 DEF Bounded, Fits, SameCount
<1> QED  BY <1>4, <1>5 DEF q

\* A frame leaves the sequence, and counts the visits of its end.
LEMMA FrameCounts ==
    ASSUME SongOK, entry \in EntryType, ends \in EndsType, Sound(player),
           Bounded(player, LoopBound), PlayFrame
    PROVE  /\ Bounded(player', LoopBound) /\ (Fits(player) => Fits(player'))
           /\ player'.sequence = player.sequence /\ player'.stale = player.stale
           /\ player'.playing = player.playing
<1>1. IsPlayer(player) /\ Playing /\ MaxLoops \in Nat
    BY CallerAssumption DEF Sound, PlayFrame, PlayNothing, PlayElsewhere, PlayOn, PlaySkipping
<1> DEFINE n == player.loop_count
<1>2. n \in Nat /\ n + 2 <= LoopBound /\ Bounded(player, n) /\ player.ord <= song.len
  <2>1. n \in 0 .. MaxLoops + 1 /\ n < MaxLoops
      BY <1>1 DEF Bounded, LoopBound, Playing
  <2>2. n \in Nat /\ n + 2 <= LoopBound /\ n \in 0 .. n
      BY <1>1, <2>1 DEF LoopBound
  <2> QED  BY <2>2 DEF Bounded
<1> HIDE DEF n
<1>3. ASSUME NEW q, NEW m \in Nat, m <= n + 2, Bounded(q, m)  PROVE Bounded(q, LoopBound)
  <2>1. LoopBound \in Nat /\ q.loop_count \in 0 .. m
      BY <1>1, <1>3 DEF LoopBound, Bounded
  <2>2. q.loop_count \in 0 .. LoopBound
      BY <1>2, <1>3, <2>1
  <2> QED  BY <1>3, <2>2 DEF Bounded
<1>4. ASSUME NEW p, IsPlayer(p), NEW m \in Nat, Bounded(p, m)
      PROVE  /\ \A o : Bounded(NextOrder(p, o), m) /\ (Fits(p) => Fits(NextOrder(p, o)))
                       /\ SameCount(p, NextOrder(p, o))
             /\ Bounded(NextRow(p), m) /\ (Fits(p) => Fits(NextRow(p)))
             /\ SameCount(p, NextRow(p))
  <2>1. p.frame >= -1 /\ p.frame \in Int /\ p.ord <= song.len
      BY <1>4 DEF Bounded, IsPlayer
  <2>2. ASSUME NEW o
        PROVE  /\ Bounded(NextOrder(p, o), m) /\ (Fits(p) => Fits(NextOrder(p, o)))
               /\ SameCount(p, NextOrder(p, o))
    <3>1. /\ SameCount(p, NextOrder(p, o)) /\ NextOrder(p, o).frame \in {0, p.frame}
          /\ NextOrder(p, o).ord <= song.len
        BY <1>4, NextOrderCounts
    <3>2. NextOrder(p, o).frame >= -1
        BY <2>1, <3>1
    <3> QED  BY <1>4, <3>1, <3>2, SameCountBounded
  <2>3. /\ SameCount(p, NextRow(p)) /\ NextRow(p).frame = 0
        /\ NextRow(p).ord <= song.len
      BY <1>4, <2>1, NextRowCounts
  <2>4. NextRow(p).frame >= -1
      BY <2>3
  <2> QED  BY <1>4, <2>2, <2>3, <2>4, SameCountBounded
<1>5. ASSUME NEW p, Arrived(p), Bounded(p, n), Fits(player) => Fits(p), Produce(p),
             p.sequence = player.sequence, p.stale = player.stale, p.playing = player.playing
      PROVE  /\ Bounded(player', LoopBound) /\ (Fits(player) => Fits(player'))
             /\ player'.sequence = player.sequence /\ player'.stale = player.stale
             /\ player'.playing = player.playing
  <2>1. /\ Bounded(player', n + 1) /\ (Fits(p) => Fits(player'))
        /\ player'.sequence = p.sequence /\ player'.stale = p.stale
        /\ player'.playing = p.playing
      BY <1>2, <1>5, ProduceCounts
  <2>2. n + 1 \in Nat /\ n + 1 <= n + 2
      BY <1>2
  <2> QED  BY <1>3, <1>5, <2>1, <2>2
<1>6. CASE PlayNothing
    BY <1>6, NothingCounts DEF SameCount
<1>7. CASE PlayElsewhere
  <2>1. PICK p, from :
              /\ Produce(NextOrder(p, from)) /\ from \in Int
              /\ IsPlayer(p) /\ Bounded(p, n) /\ (Fits(player) => Fits(p))
              /\ p.sequence = player.sequence /\ p.stale = player.stale
              /\ p.playing = player.playing
      BY <1>2, <1>7, Repositions
  <2>2. Arrived(NextOrder(p, from))
      BY <1>1, <2>1, NextOrderArrives DEF Playing
  <2>3. /\ Bounded(NextOrder(p, from), n) /\ (Fits(p) => Fits(NextOrder(p, from)))
        /\ SameCount(p, NextOrder(p, from))
      BY <1>2, <1>4, <2>1
  <2> QED  BY <1>5, <2>1, <2>2, <2>3 DEF SameCount
<1>8. CASE PlayOn
  <2>1. player.playing /\ ~player.bad
      BY <1>8 DEF PlayOn, Playing
  <2>2. PICK q \in {IF RowOver THEN NextRow(Ticked) ELSE Ticked} : Produce(q)
      BY <1>8 DEF PlayOn
  <2>3. /\ Arrived(Ticked) /\ SameCount(player, Ticked) /\ Bounded(Ticked, n)
        /\ (Fits(player) => Fits(Ticked))
      BY <1>2, <2>1, TickedArrives, TickedCounts
  <2>4. /\ Arrived(NextRow(Ticked)) /\ SameCount(Ticked, NextRow(Ticked))
        /\ Bounded(NextRow(Ticked), n) /\ (Fits(Ticked) => Fits(NextRow(Ticked)))
    <3>1. IsPlayer(Ticked) /\ Ticked.playing /\ Here(Ticked)
        BY <2>1, <2>3, TickedArrives DEF Arrived
    <3> QED  BY <1>2, <1>4, <2>3, <3>1, NextRowArrives
  <2>5. q = NextRow(Ticked) \/ q = Ticked
      BY <2>2
  <2> QED  BY <1>5, <2>2, <2>3, <2>4, <2>5 DEF SameCount
<1>9. CASE PlaySkipping
  <2> DEFINE first == NextRow(Ticked)
             c == CheckEnd(first)
             q == NextRow(c)
  <2>1. player.playing /\ ~player.bad
      BY <1>9 DEF PlaySkipping, Playing
  <2>2. IF first.bad THEN player' = Ended(first) ELSE Produce(q)
      BY <1>9 DEF PlaySkipping
  <2>3. /\ Arrived(Ticked) /\ SameCount(player, Ticked) /\ Bounded(Ticked, n)
        /\ (Fits(player) => Fits(Ticked))
      BY <1>2, <2>1, TickedArrives, TickedCounts
  <2>4. /\ Arrived(first) /\ SameCount(Ticked, first)
        /\ Bounded(first, n) /\ (Fits(Ticked) => Fits(first))
    <3>1. IsPlayer(Ticked) /\ Ticked.playing /\ Here(Ticked)
        BY <2>1, <2>3, TickedArrives DEF Arrived
    <3> QED  BY <1>2, <1>4, <2>3, <3>1, NextRowArrives
  <2> HIDE DEF first
  <2>5. CASE first.bad
    <3>1. IsPlayer(first) /\ player' = Ended(first)
        BY <2>2, <2>4, <2>5 DEF Arrived
    <3>2. Bounded(player', n) /\ (Fits(first) => Fits(player')) /\ SameCount(first, player')
        BY <2>4, <3>1, EndedCounts
    <3>3. n <= n + 2
        BY <1>2
    <3> QED  BY <1>2, <1>3, <2>3, <2>4, <3>2, <3>3 DEF SameCount
  <2>6. CASE ~first.bad
    <3>1. Arrived(c) /\ ~c.bad
        BY <2>4, <2>6, CheckEndArrives
    <3>2. /\ Bounded(c, n + 1) /\ (Fits(first) => Fits(c))
          /\ c.sequence = first.sequence /\ c.stale = first.stale
          /\ c.playing = first.playing
        BY <1>2, <2>4, CheckEndCounts DEF Arrived
    <3> HIDE DEF c
    <3>3. IsPlayer(c) /\ c.playing /\ Here(c) /\ n + 1 \in Nat
        BY <1>2, <3>1 DEF Arrived
    <3>4. /\ Arrived(q) /\ SameCount(c, q) /\ Bounded(q, n + 1) /\ (Fits(c) => Fits(q))
        BY <1>4, <3>2, <3>3, NextRowArrives
    <3> HIDE DEF q
    <3>5. /\ Bounded(player', n + 1 + 1) /\ (Fits(q) => Fits(player'))
          /\ player'.sequence = q.sequence /\ player'.stale = q.stale
          /\ player'.playing = q.playing
        BY <2>2, <2>6, <3>3, <3>4, ProduceCounts
    <3>6. Bounded(player', LoopBound)
      <4>1. n + 1 + 1 \in Nat /\ n + 1 + 1 <= n + 2
          BY <1>2
      <4> QED  BY <1>3, <3>5, <4>1
    <3> QED  BY <2>3, <2>4, <3>2, <3>4, <3>5, <3>6 DEF SameCount
  <2> QED  BY <2>5, <2>6
<1> QED  BY <1>6, <1>7, <1>8, <1>9 DEF PlayFrame

-----------------------------------------------------------------------------
(* Where a frame begins that was asked for by a call                       *)

\* The caller wants to be at an order of the sequence.
Sought(p) == p.pos \in Orders /\ Valid(p.pos) /\ control[p.pos] = p.sequence

\* It is entered at its first row: nothing else is pending.
Direct(p) == p.ord # p.pos /\ ~p.force /\ ~p.stale /\ Sought(p) => p.flow.jumpline = 0

\* What a call leaves true of the player.
Called(p, q) ==
    /\ Bounded(q, LoopBound) /\ q.playing = p.playing
    /\ Fits(p) => Fits(q)
    /\ Direct(p) => Direct(q)

LEMMA MoveToFields ==
    ASSUME NEW p, IsPlayer(p), NEW seq, NEW pos
    PROVE  LET q == MoveTo(p, seq, pos)
           IN  /\ q.frame = p.frame /\ q.ord = p.ord /\ q.loop_count = p.loop_count
               /\ q.sequence = seq /\ q.playing = p.playing /\ q.flow = ResetFlow
               /\ \/ q.end_point = p.end_point /\ (q.stale <=> p.stale \/ seq # p.sequence)
                  \/ q.end_point = 0 \/ q.end_point = ends[seq].num
<1> DEFINE to == IF pos = 0 THEN RESTART ELSE pos
           beyond == pos > ends[seq].ord
           f == ResetFlow
           m == [p EXCEPT !.pos = to, !.flow = f, !.force = FALSE]
           q == [m EXCEPT !.sequence = seq]
           s == q.stale \/ seq # p.sequence
           e == IF beyond THEN 0 ELSE ends[seq].num
           n == IF beyond THEN q.num_rows ELSE Rows(pos)
           a == q.astray \/ (~beyond /\ pos # p.ord)
           r == [q EXCEPT !.stale = FALSE, !.end_point = e, !.num_rows = n, !.astray = a]
           t == [q EXCEPT !.stale = s]
<1>1. MoveTo(p, seq, pos) = IF pos \notin Orders \/ ~Valid(pos) THEN t ELSE r
    BY DEF MoveTo, Moved
<1>2. e = 0 \/ e = ends[seq].num
    OBVIOUS
<1>3. s <=> q.stale \/ seq # p.sequence
    OBVIOUS
<1> HIDE DEF to, f, e, n, a, s
<1>4. DOMAIN p = Fields
    BY DEF IsPlayer
<1>5. /\ DOMAIN m = Fields /\ m.flow = f /\ m.frame = p.frame /\ m.ord = p.ord
      /\ m.loop_count = p.loop_count /\ m.playing = p.playing
      /\ m.end_point = p.end_point /\ m.stale = p.stale
    BY <1>4 DEF Fields
<1> HIDE DEF m
<1>6. /\ DOMAIN q = Fields /\ q.flow = f /\ q.frame = p.frame /\ q.ord = p.ord
      /\ q.loop_count = p.loop_count /\ q.playing = p.playing
      /\ q.end_point = p.end_point /\ q.stale = p.stale /\ q.sequence = seq
    BY <1>4, <1>5 DEF Fields
<1> HIDE DEF q
<1>7. /\ t.flow = f /\ t.frame = p.frame /\ t.ord = p.ord
      /\ t.loop_count = p.loop_count /\ t.playing = p.playing
      /\ t.end_point = p.end_point /\ t.stale = s /\ t.sequence = seq
    BY <1>6 DEF Fields
<1>8. /\ r.flow = f /\ r.frame = p.frame /\ r.ord = p.ord
      /\ r.loop_count = p.loop_count /\ r.playing = p.playing
      /\ r.end_point = e /\ r.sequence = seq
    BY <1>6 DEF Fields
<1>9. t.stale <=> p.stale \/ seq # p.sequence
    BY <1>6, <1>7, <1>3
<1> HIDE DEF t, r
<1> QED  BY <1>2, <1>1, <1>7, <1>8, <1>9 DEF f

LEMMA MoveToCounts ==
    ASSUME ends \in EndsType, NEW p, IsPlayer(p), Bounded(p, LoopBound),
           NEW seq \in Seqs, NEW pos
    PROVE  Called(p, MoveTo(p, seq, pos))
<1> DEFINE q == MoveTo(p, seq, pos)
<1>1. /\ q.frame = p.frame /\ q.ord = p.ord /\ q.loop_count = p.loop_count
      /\ q.sequence = seq /\ q.playing = p.playing /\ q.flow = ResetFlow
      /\ \/ q.end_point = p.end_point /\ (q.stale <=> p.stale \/ seq # p.sequence)
         \/ q.end_point = 0 \/ q.end_point = ends[seq].num
    BY MoveToFields
<1> HIDE DEF q
<1>2. ends[seq].num \in 0 .. CountMod - 1 /\ CountMod \in Nat \ {0, 1}
    BY LimitsAssumption DEF EndsType
<1>3. q.end_point \in EndFloor .. CountMod - 1
  <2>1. p.end_point \in EndFloor .. CountMod - 1
      BY DEF Bounded
  <2>2. 0 \in EndFloor .. CountMod - 1 /\ ends[seq].num \in EndFloor .. CountMod - 1
      BY <1>2 DEF EndFloor
  <2> QED  BY <1>1, <2>1, <2>2
<1>4. Bounded(q, LoopBound)
    BY <1>1, <1>3 DEF Bounded
<1>5. Fits(p) => Fits(q)
  <2>1. 0 <= ends[seq].num /\ ends[seq].num <= ends[seq].num
      BY <1>2
  <2> QED  BY <1>1, <2>1 DEF Fits
<1>6. Direct(q)
  <2>1. q.flow.jumpline = 0
      BY <1>1 DEF ResetFlow
  <2> QED  BY <2>1 DEF Direct
<1> QED  BY <1>1, <1>4, <1>5, <1>6 DEF Called, q

LEMMA MovePositionCounts ==
    ASSUME ScanInv, ends \in EndsType, NEW p, IsPlayer(p), Bounded(p, LoopBound),
           NEW pos, NEW dir, dir # 0 \/ pos \in Orders
    PROVE  Called(p, MovePosition(p, pos, dir))
<1> DEFINE seq == IF dir # 0 THEN p.sequence
                  ELSE IF pos \in Orders THEN control[pos] ELSE NO_SEQUENCE
           o == Unmarked(pos, dir)
           q == [p EXCEPT !.sequence = seq]
<1>1. MovePosition(p, pos, dir) =
         IF seq >= num_seq THEN p ELSE IF PastList(o) THEN q ELSE MoveTo(p, seq, o)
    BY DEF MovePosition
<1>2. SongOK
    BY DEF ScanInv, SongOK
<1>3. seq \in Seqs \cup {NO_SEQUENCE}
    BY SequenceFields DEF IsPlayer, ControlType
<1>4. num_seq \in Nat /\ Seqs \cup {NO_SEQUENCE} \subseteq Nat
    BY SeqFacts DEF ScanInv, Good
<1>5. PastList(o) => seq = p.sequence
  <2>1. CASE dir # 0
      BY <2>1
  <2>2. CASE pos \in Orders
    <3>1. o \in Orders
        BY <1>2, <2>2, UnmarkedFields
    <3>2. ~PastList(o)
        BY <1>2, <3>1, SongFields DEF PastList, Orders
    <3> QED  BY <3>2
  <2> QED  BY <2>1, <2>2
<1> HIDE DEF seq, o
<1>6. ASSUME ~(seq >= num_seq)  PROVE seq \in Seqs
    BY <1>3, <1>4, <1>6, SequenceFields
<1>7. ASSUME seq = p.sequence  PROVE Called(p, q)
  <2> HIDE DEF q
  <2>1. q = [p EXCEPT !.sequence = seq]
      BY DEF q
  <2>2. SameCount(p, q)
      BY <1>7, <2>1 DEF SameCount, IsPlayer, Fields
  <2>3. /\ q.frame = p.frame /\ q.ord = p.ord /\ q.pos = p.pos /\ q.flow = p.flow
        /\ q.force = p.force
      BY <2>1 DEF IsPlayer, Fields
  <2> QED  BY <2>2, <2>3 DEF Called, SameCount, Bounded, Fits, Direct, Sought
<1> HIDE DEF q
<1>8. Called(p, p)
    BY DEF Called
<1> QED  BY <1>1, <1>5, <1>6, <1>7, <1>8, MoveToCounts

LEMMA SeekCounts ==
    ASSUME ScanInv, Scanned, info \in InfoType, ends \in EndsType, Sound(player),
           Bounded(player, LoopBound), NEW time \in Nat, SeekTime(time)
    PROVE  Called(player, player')
<1> DEFINE reached == {o \in Orders : Valid(o) /\ control[o] = player.sequence
                                      /\ time >= info[o].time}
           p == IF reached = {} THEN MovePosition(player, 0, 0)
                ELSE MovePosition(player, Largest(reached), 1)
           o == IF p.pos >= 0 THEN p.pos ELSE entry[p.sequence]
           f == p.flow
           row == info[o].row
           g == [f EXCEPT !.jumpline = row]
           q == [p EXCEPT !.flow = g, !.force = TRUE]
<1>1. player' = q
    BY DEF SeekTime, Call
<1>2. 0 \in Orders /\ SongOK /\ IsPlayer(player) /\ Orders \subseteq Nat /\ song.len \in Nat \ {0}
    BY SongFields, OrderFacts DEF ScanInv, SongOK, Sound
<1>3. Called(player, p)
  <2> HIDE DEF reached
  <2>1. Called(player, MovePosition(player, 0, 0))
      BY <1>2, MovePositionCounts
  <2>2. Called(player, MovePosition(player, Largest(reached), 1))
      BY <1>2, MovePositionCounts
  <2> QED  BY <2>1, <2>2
<1>4. IsPlayer(p)
  <2>1. CASE reached = {}
      BY <2>1, MovePositionSound DEF Sound
  <2>2. CASE reached # {}
    <3> DEFINE k == song.len - 1
               i == Largest(reached)
    <3>1. k \in Nat /\ reached \subseteq 0 .. k /\ 0 .. k \subseteq Nat
        BY <1>2 DEF Orders
    <3>2. i \in Nat
      <4>1. i \in reached
        <5> HIDE DEF k, reached
        <5> QED  BY <2>2, <3>1, LargestFound
      <4> HIDE DEF k, reached, i
      <4> QED  BY <3>1, <4>1
    <3> HIDE DEF reached, i
    <3>3. Sound(MovePosition(player, i, 1))
        BY <3>2, MovePositionSound
    <3> QED  BY <2>2, <3>3 DEF Sound, i
  <2> QED  BY <2>1, <2>2
<1> HIDE DEF p, g
<1>5. SameCount(p, q) /\ q.frame = p.frame /\ q.ord = p.ord /\ q.force
  <2>1. SameCount(p, q)
      BY <1>4 DEF SameCount, IsPlayer, Fields
  <2> QED  BY <1>4, <2>1 DEF IsPlayer, Fields
<1> HIDE DEF q
<1> QED  BY <1>1, <1>3, <1>5 DEF Called, SameCount, Bounded, Fits, Direct

LEMMA StopCounts ==
    ASSUME SongOK, Sound(player), Bounded(player, LoopBound), StopModule \/ RestartModule
    PROVE  Called(player, player')
<1> DEFINE p == player
           f == ResetFlow
           q == [p EXCEPT !.pos = STOPPED, !.flow = f, !.force = FALSE]
           r == [p EXCEPT !.pos = RESTART, !.flow = f, !.force = FALSE, !.loop_count = 0]
<1>1. player' = q \/ player' = r
    BY DEF StopModule, RestartModule, Call
<1>2. IsPlayer(p) /\ Bounded(p, LoopBound)
    BY DEF Sound
<1>3. STOPPED \notin Orders /\ RESTART \notin Orders /\ 0 \in 0 .. LoopBound
  <2>1. LoopBound \in Nat
      BY CallerAssumption DEF LoopBound
  <2> QED  BY <2>1, OrderFacts DEF STOPPED, RESTART
<1> HIDE DEF p, f
<1>4. Called(p, q)
  <2>1. SameCount(p, q)
      BY <1>2 DEF SameCount, IsPlayer, Fields
  <2>2. q.frame = p.frame /\ q.ord = p.ord /\ q.pos = STOPPED
      BY <1>2 DEF IsPlayer, Fields
  <2> HIDE DEF q
  <2> QED  BY <1>2, <1>3, <2>1, <2>2 DEF Called, SameCount, Bounded, Fits, Direct, Sought
<1>5. Called(p, r)
  <2>1. /\ r.end_point = p.end_point /\ r.sequence = p.sequence /\ r.stale = p.stale
        /\ r.playing = p.playing /\ r.loop_count = 0
      BY <1>2 DEF IsPlayer, Fields
  <2>2. r.frame = p.frame /\ r.ord = p.ord /\ r.pos = RESTART
      BY <1>2 DEF IsPlayer, Fields
  <2> HIDE DEF r
  <2> QED  BY <1>2, <1>3, <2>1, <2>2 DEF Called, Bounded, Fits, Direct, Sought
<1> QED  BY <1>1, <1>4, <1>5 DEF p

LEMMA RowCounts ==
    ASSUME SongOK, Sound(player), Bounded(player, LoopBound), NEW row, SetRow(row)
    PROVE  Called(player, player')
<1> DEFINE p == player
           o == IF p.pos \in Orders THEN p.pos ELSE 0
           n == Rows(o)
           m == -1
           q == [p EXCEPT !.pos = o, !.ord = o, !.row = row, !.frame = m,
                          !.bad = FALSE, !.astray = FALSE, !.num_rows = n]
<1>1. player' = q
    BY DEF SetRow, Call
<1>2. IsPlayer(p) /\ Bounded(p, LoopBound)
    BY DEF Sound
<1>3. o <= song.len /\ m >= -1
  <2>1. o \in Orders
      BY OrderFacts
  <2> QED  BY <2>1, SongFields DEF Orders
<1> HIDE DEF p, o, n, m
<1>4. SameCount(p, q)
    BY <1>2 DEF SameCount, IsPlayer, Fields
<1>5. q.frame = m /\ q.ord = o /\ q.pos = o
    BY <1>2 DEF IsPlayer, Fields
<1> HIDE DEF q
<1>6. Called(p, q)
    BY <1>2, <1>3, <1>4, <1>5 DEF Called, SameCount, Bounded, Fits, Direct
<1> QED  BY <1>1, <1>6 DEF p

LEMMA CallsCount ==
    ASSUME SeqInv, ends \in EndsType, Bounded(player, LoopBound), PositionCall, ~Rescan
    PROVE  Called(player, player')
<1>1. /\ ScanInv /\ info \in InfoType /\ Sound(player) /\ IsPlayer(player) /\ SongOK
    BY DEF SeqInv, Sound, ScanInv, SongOK
<1>2. CASE NextPosition
  <2>1. player' = player \/ \E pos : player' = MovePosition(player, pos, 1)
      BY <1>2 DEF NextPosition, Call
  <2>2. \A pos : Called(player, MovePosition(player, pos, 1))
      BY <1>1, MovePositionCounts
  <2> QED  BY <2>1, <2>2 DEF Called
<1>3. CASE PrevPosition
  <2>1. player' = player \/ \E pos : player' = MovePosition(player, pos, -1)
      BY <1>3 DEF PrevPosition, Call
  <2>2. \A pos : Called(player, MovePosition(player, pos, -1))
      BY <1>1, MovePositionCounts
  <2> QED  BY <2>1, <2>2 DEF Called
<1>4. ASSUME NEW pos \in Orders, SetPosition(pos)  PROVE Called(player, player')
  <2>1. player' = MovePosition(player, pos, 0)
      BY <1>4 DEF SetPosition, Call
  <2> QED  BY <1>1, <2>1, MovePositionCounts
<1>5. ASSUME NEW row, SetRow(row)  PROVE Called(player, player')
    BY <1>1, <1>5, RowCounts
<1>6. CASE StopModule \/ RestartModule
    BY <1>1, <1>6, StopCounts
<1>7. ASSUME NEW time \in 0 .. RowLimit, SeekTime(time)  PROVE Called(player, player')
  <2>1. Scanned
      BY <1>7 DEF SeekTime, Call, Playing
  <2>2. time \in Nat
      BY LimitsAssumption
  <2> QED  BY <1>1, <1>7, <2>1, <2>2, SeekCounts
<1> QED  BY <1>2, <1>3, <1>4, <1>5, <1>6, <1>7 DEF PositionCall

-----------------------------------------------------------------------------
(* Counting and types                                                      *)

\* A scan that begins.
ScanBegins ==
    /\ SongOK /\ scan = BeginScan(0, 0) /\ \A o \in Orders : control[o] = NO_SEQUENCE
    /\ entry[0] = 0 /\ ends \in EndsType

LEMMA BeginningEntered == ScanBegins => EntryInv
BY BeginsEntered DEF ScanBegins, EntryInv

\* What the scan has found, while the module plays and is scanned anew.
LEMMA EntryLasts ==
    ASSUME SeqInv, SeqInv', EntryInv, [Next]_vars
    PROVE  EntryInv'
<1>1. ScanInv /\ ScanInv' /\ ends \in EndsType /\ entry[0] = 0
    BY DEF SeqInv, EntryInv, Entered
<1>2. ASSUME [ScanNext]_scanVars  PROVE EntryInv'
    BY <1>1, <1>2, EntryKeeps
<1>3. CASE ScanStep
    BY <1>2, <1>3 DEF ScanStep
<1>4. CASE StartPlayer
  <2>1. /\ song' = song /\ rules' = rules /\ scan' = scan /\ control' = control
        /\ entry' = entry /\ num_seq' = num_seq /\ Scanned
      BY <1>4 DEF StartPlayer
  <2>2. ends' = ends \/ ends' = [ends EXCEPT ![0].ord = 0, ![0].row = 0]
      BY <1>4 DEF StartPlayer
  <2>3. ends' \in EndsType /\ \A t \in Seqs : t # 0 => ends'[t] = ends[t]
      BY <1>1, <2>2, SeqFacts DEF EndsType
  <2>4. num_seq \in 0 .. MaxSequences
      BY <1>1 DEF ScanInv, Good
  <2>5. \A t \in 1 .. num_seq - 1 : t \in Seqs /\ t # 0
      BY <2>4, LimitsAssumption DEF Seqs
  <2>6. \A t \in 1 .. num_seq - 1 : EndExists(ends[t])
      BY <2>1 DEF EntryInv, Entered, Scanned
  <2>7. \A t \in 1 .. num_seq - 1 : EndExists(ends'[t])
      BY <2>3, <2>5, <2>6
  <2>8. Entered(scan', control', entry', ends', num_seq')
      BY <2>1, <2>3, <2>7 DEF EntryInv, Entered, Scanned
  <2> QED  BY <2>1, <2>8, EntryStays
<1>5. CASE PlayFrame
    BY <1>2, <1>5 DEF PlayFrame, PlayNothing, PlayElsewhere, PlayOn, PlaySkipping
<1>6. CASE Rescan
  <2>1. /\ song' = song /\ entry' = entry /\ scan' = BeginScan(0, 0)
        /\ control' = [o \in Orders |-> NO_SEQUENCE] /\ ends' = [ends EXCEPT ![0] = NoEnd]
      BY <1>6 DEF Rescan
  <2>2. Orders' = Orders /\ Seqs' = Seqs /\ EndsType' = EndsType /\ 0 \in Seqs
      BY <2>1, SeqFacts DEF Orders, Seqs, EndsType
  <2>3. ends' \in EndsType
    <3>1. NoEnd \in [ord : Int, row : Nat, num : 0 .. CountMod - 1]
        BY LimitsAssumption DEF NoEnd
    <3> QED  BY <1>1, <2>1, <3>1 DEF EndsType
  <2>4. BeginScan(0, 0)' = BeginScan(0, 0)
      BY <2>1 DEF BeginScan, Orders, Valid, Rows
  <2>5. SongOK'
      BY <1>1 DEF ScanInv, SongOK
  <2>6. ScanBegins'
      BY <1>1, <2>1, <2>2, <2>3, <2>4, <2>5 DEF ScanBegins
  <2>7. ScanBegins' => EntryInv'
      BY BeginningEntered, PTL
  <2> QED  BY <2>6, <2>7
<1>7. CASE PositionCall /\ ~Rescan
  <2>1. UNCHANGED scanVars
      BY <1>7 DEF PositionCall, NextPosition, PrevPosition, SetPosition, SetRow,
                  StopModule, RestartModule, SeekTime, Call
  <2> QED  BY <1>2, <2>1
<1>8. CASE UNCHANGED vars
    BY <1>2, <1>8 DEF vars
<1> QED  BY <1>3, <1>4, <1>5, <1>6, <1>7, <1>8 DEF Next, Advance

LEMMA NewPlayerCounts ==
    ASSUME SongOK, ends \in EndsType, StartPlayer
    PROVE  /\ Bounded(player', LoopBound) /\ player'.sequence = 0 /\ player'.playing
           /\ player'.end_point \in {0, ends[0].num} /\ player'.flow.jumpline = 0
<1> DEFINE o == Settle(0)
           n == Rows(o)
           e == ends[0].num
           p == NoPlayer
           q == [p EXCEPT !.playing = TRUE, !.ord = o, !.num_rows = n, !.end_point = e]
           r == [p EXCEPT !.playing = TRUE, !.bad = TRUE]
<1>1. player' = q \/ player' = r
    BY DEF StartPlayer
<1>2. /\ IsPlayer(p) /\ p.sequence = 0 /\ p.frame = -1 /\ p.loop_count = 0
      /\ p.end_point = 0 /\ p.ord = 0 /\ p.flow.jumpline = 0
    BY NoPlayerFields DEF NoPlayer, ResetFlow
<1>3. o \in Nat /\ o <= song.len /\ song.len \in Nat
  <2>1. o \in 0 .. song.len
      BY SettleStays, OrderFacts
  <2> QED  BY <2>1, SongFields
<1>4. e \in 0 .. CountMod - 1 /\ CountMod \in Nat \ {0, 1}
    BY SeqFacts, LimitsAssumption DEF EndsType
<1>5. /\ e \in EndFloor .. CountMod - 1 /\ 0 \in EndFloor .. CountMod - 1
      /\ 0 \in 0 .. LoopBound
  <2>1. LoopBound \in Nat
      BY CallerAssumption DEF LoopBound
  <2> QED  BY <1>4, <2>1 DEF EndFloor
<1>6. e = ends[0].num
    OBVIOUS
<1> HIDE DEF p, o, n, e
<1>7. /\ q.playing /\ q.ord = o /\ q.end_point = e /\ q.sequence = 0 /\ q.frame = -1
      /\ q.loop_count = 0 /\ q.flow = p.flow
    BY <1>2 DEF IsPlayer, Fields
<1>8. /\ r.playing /\ r.ord = 0 /\ r.end_point = 0 /\ r.sequence = 0 /\ r.frame = -1
      /\ r.loop_count = 0 /\ r.flow = p.flow
    BY <1>2 DEF IsPlayer, Fields
<1> HIDE DEF q, r
<1>9. Bounded(q, LoopBound)
  <2>1. q.frame >= -1
      BY <1>7
  <2> QED  BY <1>3, <1>5, <1>7, <2>1 DEF Bounded
<1>10. Bounded(r, LoopBound)
  <2>1. r.frame >= -1 /\ r.ord <= song.len
      BY <1>3, <1>8
  <2> QED  BY <1>5, <1>8, <2>1 DEF Bounded
<1> QED  BY <1>1, <1>2, <1>6, <1>7, <1>8, <1>9, <1>10

LEMMA StaleCounts ==
    ASSUME IsPlayer(player), NEW n, Bounded(player, n), ScanStep \/ Rescan
    PROVE  Bounded(player', n)
<1> DEFINE p == player
           seq == IF p.pos \in Orders THEN control'[p.pos] ELSE 0
           b == p.stale \/ seq # p.sequence
           c == p.stale \/ rules' # rules
           q == [p EXCEPT !.sequence = seq, !.stale = b]
           r == [p EXCEPT !.stale = c]
<1>1. player' = p \/ player' = q \/ player' = r
    BY DEF ScanStep, Rescan
<1> HIDE DEF p, seq, b, c
<1>2. IsPlayer(p) /\ Bounded(p, n)
    BY DEF p
<1>3. /\ q.frame = p.frame /\ q.ord = p.ord /\ q.end_point = p.end_point
      /\ q.loop_count = p.loop_count
    BY <1>2 DEF IsPlayer, Fields
<1>4. /\ r.frame = p.frame /\ r.ord = p.ord /\ r.end_point = p.end_point
      /\ r.loop_count = p.loop_count
    BY <1>2 DEF IsPlayer, Fields
<1> HIDE DEF q, r
<1> QED  BY <1>1, <1>2, <1>3, <1>4 DEF Bounded

LEMMA CountsKeep ==
    ASSUME CountInv, [Next]_vars
    PROVE  CountInv'
<1>1. /\ SeqInv /\ EntryInv /\ RulesOK /\ calls \in 0 .. MaxCalls
      /\ Bounded(player, LoopBound) /\ MaxCalls \in Nat
    BY CallerAssumption DEF CountInv
<1>2. SeqInv' /\ EntryInv'
    BY <1>1, SequencerKeeps, EntryLasts
<1>3. /\ ScanInv /\ SongOK /\ entry \in EntryType /\ ends \in EndsType /\ Sound(player)
      /\ IsPlayer(player)
    BY <1>1 DEF SeqInv, ScanInv, SongOK, Good, EntryInv, Entered, Sound
<1>4. ASSUME song' = song, rules' = rules, calls' \in 0 .. MaxCalls,
             Bounded(player', LoopBound)
      PROVE  CountInv'
  <2>1. Bounded(player, LoopBound)'
      BY <1>4 DEF Bounded, LoopBound
  <2>2. RulesOK'
      BY <1>1, <1>4 DEF RulesOK
  <2> QED  BY <1>2, <1>4, <2>1, <2>2 DEF CountInv
<1>5. CASE ScanStep
  <2>1. song' = song /\ rules' = rules /\ calls' = calls
      BY <1>5 DEF ScanStep, ScanNext, ScanGivesUp, ScanWrapsToEnd, ScanSkips, ScanMeetsTaken,
                  ScanReturns, ScanEnters, ScanFindsEnd, ScanRow, ScanOverflows, ScanEnds
  <2> QED  BY <1>1, <1>3, <1>4, <1>5, <2>1, StaleCounts
<1>6. CASE StartPlayer
  <2>1. song' = song /\ rules' = rules /\ calls' = calls
      BY <1>6 DEF StartPlayer
  <2> QED  BY <1>1, <1>3, <1>4, <1>6, <2>1, NewPlayerCounts
<1>7. CASE PlayFrame
  <2>1. song' = song /\ rules' = rules /\ calls' = calls
      BY <1>7 DEF PlayFrame, PlayNothing, PlayElsewhere, PlayOn, PlaySkipping, scanVars
  <2> QED  BY <1>1, <1>3, <1>4, <1>7, <2>1, FrameCounts
<1>8. CASE Rescan
  <2>1. song' = song /\ calls' = calls + 1 /\ calls < MaxCalls /\ rules' \in {rules} \cup Modes
      BY <1>8 DEF Rescan
  <2>2. calls' \in 0 .. MaxCalls
      BY <1>1, <2>1
  <2>3. Bounded(player', LoopBound)
      BY <1>1, <1>3, <1>8, StaleCounts
  <2>4. Bounded(player, LoopBound)'
      BY <2>1, <2>3 DEF Bounded, LoopBound
  <2>5. RulesOK'
      BY <1>1, <2>1 DEF RulesOK
  <2> QED  BY <1>2, <2>2, <2>4, <2>5 DEF CountInv
<1>9. CASE PositionCall /\ ~Rescan
  <2>1. UNCHANGED scanVars /\ calls' = calls + 1 /\ calls < MaxCalls
      BY <1>9 DEF PositionCall, NextPosition, PrevPosition, SetPosition, SetRow,
                  StopModule, RestartModule, SeekTime, Call
  <2>2. song' = song /\ rules' = rules /\ calls' \in 0 .. MaxCalls
      BY <1>1, <2>1 DEF scanVars
  <2>3. Called(player, player')
      BY <1>1, <1>3, <1>9, CallsCount
  <2> QED  BY <1>4, <2>2, <2>3 DEF Called
<1>10. CASE UNCHANGED vars
  <2>1. song' = song /\ rules' = rules /\ calls' = calls /\ player' = player
      BY <1>10 DEF vars, scanVars
  <2> QED  BY <1>1, <1>4, <2>1
<1> QED  BY <1>5, <1>6, <1>7, <1>8, <1>9, <1>10 DEF Next, Advance

LEMMA CountsInitially == Init => CountInv
<1>1. SUFFICES ASSUME Init  PROVE CountInv
    OBVIOUS
<1>2. SeqInv /\ calls = 0
    BY <1>1, SequencerInitially DEF Init
<1>3. EntryInv
  <2>1. ends \in EndsType /\ SongOK
      BY <1>1, LimitsAssumption DEF Init, ScanInit, NoEnd, EndsType, SongOK
  <2>2. ScanBegins
      BY <1>1, <2>1, SeqFacts DEF ScanBegins, Init, ScanInit
  <2> QED  BY <2>2, BeginningEntered
<1>4. Bounded(player, LoopBound)
  <2>1. /\ player.frame = -1 /\ player.ord = 0 /\ player.end_point = 0
        /\ player.loop_count = 0
      BY <1>1 DEF Init, NoPlayer
  <2>2. 0 \in EndFloor .. CountMod - 1 /\ 0 \in 0 .. LoopBound
      BY LimitsAssumption, CallerAssumption DEF EndFloor, LoopBound
  <2>3. song.len \in Nat
      BY <1>1, SongFields DEF Init, ScanInit, SongOK
  <2>4. player.frame >= -1 /\ player.ord <= song.len
      BY <2>1, <2>3
  <2> QED  BY <2>1, <2>2, <2>4 DEF Bounded
<1>5. RulesOK
    BY <1>1 DEF Init, ScanInit, RulesOK
<1>6. calls \in 0 .. MaxCalls
    BY <1>2, CallerAssumption
<1> QED  BY <1>2, <1>3, <1>4, <1>5, <1>6 DEF CountInv

\* What the scan has found lasts, and the counters of the player stay in their
\* bounds, whatever calls and rescans are made.
THEOREM CountInvariantHolds == Spec => []CountInv
<1>1. CountInv /\ [Next]_vars => CountInv'
    BY CountsKeep
<1> QED  BY <1>1, CountsInitially, PTL DEF Spec

\* The types of the scan and the player: the position stays in the order list,
\* and end_point between its floor and the visits a scan can count, whatever
\* calls and rescans are made.
THEOREM TypesAlwaysHold == Spec => []TypeOK
<1>1. CountInv => TypeOK
  <2>1. SUFFICES ASSUME CountInv  PROVE TypeOK
      OBVIOUS
  <2>2. /\ ScanTypeOK /\ IsPlayer(player) /\ Bounded(player, LoopBound)
        /\ calls \in 0 .. MaxCalls /\ SongOK
      BY <2>1, ScanTypes DEF CountInv, SeqInv, Sound, ScanInv, SongOK
  <2>3. song.len \in Nat /\ CountMod \in Nat
      BY <2>2, SongFields, LimitsAssumption
  <2>4. /\ player.ord \in Nat /\ player.ord <= song.len
        /\ player.end_point \in EndFloor .. CountMod - 1
        /\ player.loop_count \in 0 .. MaxLoops + 1
      BY <2>2 DEF IsPlayer, Bounded, LoopBound
  <2>5. player.ord \in 0 .. song.len
      BY <2>3, <2>4
  <2>6. player.end_point \in EndFloor .. CountMod
      BY <2>3, <2>4 DEF EndFloor
  <2>7. player.flow.jumpline \in Nat
      BY <2>2 DEF IsPlayer, FlowRec
  <2>8. /\ player.pos \in {STOPPED, RESTART} \cup Orders /\ player.row \in Nat
        /\ player.num_rows \in Nat /\ player.frame \in Int /\ player.frame >= -1
        /\ player.sequence \in Seqs
      BY <2>2 DEF IsPlayer, Bounded
  <2> QED  BY <2>2, <2>4, <2>5, <2>6, <2>7, <2>8 DEF TypeOK
<1> QED  BY <1>1, CountInvariantHolds, PTL

-----------------------------------------------------------------------------
(* Where the player finds an order to play                                 *)

\* The module is not scanned anew.
NoRescan == "rescan" \notin Calls

\* No tracker lets the channels share one loop count.
NoGlobalCount == \A r \in Trackers \cup Modes : "GLOBAL_COUNT" \notin r.flow

LEMMA SettleFinds ==
    ASSUME SongOK, NEW o \in Orders
    PROVE  /\ Valid(o) => Settle(o) = o
           /\ (\E v \in Orders : Leads(o, v)) => Playable(Settle(o))
<1> DEFINE S == {i \in o .. song.len : i = song.len \/ EndMarked(i) \/ Valid(i)}
<1>1. song.len \in Nat /\ o \in Nat /\ o < song.len
    BY SongFields DEF Orders
<1>2. Settle(o) = Least(S)
    BY <1>1 DEF Settle
<1>3. song.len \in S /\ S \subseteq Nat /\ S \subseteq o .. song.len
    BY <1>1
<1>4. /\ Least(S) \in S /\ \A m \in S : Least(S) <= m
  <2> HIDE DEF S
  <2> QED  BY <1>3, LeastFound
<1>5. ASSUME Valid(o)  PROVE Settle(o) = o
  <2>1. o \in S
      BY <1>1, <1>5
  <2>2. Least(S) <= o /\ Least(S) >= o /\ Least(S) \in Nat
      BY <1>1, <1>3, <1>4, <2>1
  <2> HIDE DEF S
  <2> QED  BY <1>1, <1>2, <2>2
<1>6. ASSUME NEW v \in Orders, Leads(o, v)  PROVE Playable(Settle(o))
  <2>1. v \in Nat /\ v < song.len /\ o <= v
      BY <1>1, <1>6 DEF Leads, Orders
  <2>2. v \in S
      BY <1>1, <1>6, <2>1 DEF Leads
  <2> DEFINE l == Least(S)
  <2>3. l \in Nat /\ o <= l /\ l <= v /\ (l = song.len \/ EndMarked(l) \/ Valid(l))
      BY <1>1, <1>3, <1>4, <2>2
  <2> HIDE DEF l
  <2>4. l # song.len /\ l \in Orders
      BY <1>1, <2>1, <2>3 DEF Orders
  <2>5. l < v => ~EndMarked(l)
    <3>1. l < v => l \in o .. v - 1
        BY <1>1, <2>1, <2>3
    <3> QED  BY <1>6, <3>1 DEF Leads
  <2>6. l = v => Valid(l)
      BY <1>6 DEF Leads
  <2>7. Valid(l)
      BY <2>1, <2>3, <2>4, <2>5, <2>6
  <2> QED  BY <1>2, <2>4, <2>7 DEF Playable, l
<1> QED  BY <1>5, <1>6

\* After next_order the player is where the caller wants it, unless nothing in
\* the sequence can be played.
Lands(q) == IF q.bad THEN ~Sought(q) ELSE q.ord = q.pos

LEMMA NextOrderLands ==
    ASSUME SongOK, entry \in EntryType, Leading(control, entry), NEW p, IsPlayer(p), NEW o
    PROVE  Lands(NextOrder(p, o))
<1> DEFINE first == Settle(o)
           start == entry[p.sequence]
           from  == IF first < start THEN start ELSE RestartOrder(p.sequence, start)
           again == Settle(from)
           lost  == [p EXCEPT !.ord = again, !.bad = TRUE]
<1>1. NextOrder(p, o) = IF Playable(first) THEN EnterOrder(p, first)
                        ELSE IF Playable(again) THEN EnterOrder(p, again) ELSE lost
    BY DEF NextOrder
<1>2. Sought(p) => Playable(again)
  <2>1. SUFFICES ASSUME Sought(p)  PROVE Playable(again)
      OBVIOUS
  <2>2. start \in Orders /\ \E v \in Orders : Leads(start, v)
    <3>1. start = entry[control[p.pos]]
        BY <2>1 DEF Sought
    <3> QED  BY <2>1, <3>1 DEF Leading, Sought, IsPlayer, EntryType
  <2>3. from = start \/ (from \in Orders /\ Valid(from))
    <3>1. song.rst < song.len => song.rst \in Orders
        BY SongFields DEF Orders
    <3> QED  BY <3>1 DEF RestartOrder
  <2> HIDE DEF start, from
  <2>4. CASE from = start
      BY <2>2, <2>4, SettleFinds
  <2>5. CASE from \in Orders /\ Valid(from)
      BY <2>5, SettleFinds DEF Playable
  <2> QED  BY <2>3, <2>4, <2>5
<1> HIDE DEF first, again
<1>3. lost.bad /\ lost.pos = p.pos /\ lost.sequence = p.sequence
    BY DEF IsPlayer, Fields
<1> HIDE DEF lost
<1>4. ~Sought(p) => Lands(lost)
    BY <1>3 DEF Lands, Sought
<1>5. \A v : Lands(EnterOrder(p, v))
    BY EnterOrderCounts DEF Lands
<1> QED  BY <1>1, <1>2, <1>4, <1>5

LEMMA NextRowLands ==
    ASSUME SongOK, entry \in EntryType, Leading(control, entry), NEW p, IsPlayer(p),
           ~p.bad, p.ord = p.pos
    PROVE  Lands(NextRow(p))
<1> DEFINE f == [p.flow EXCEPT !.delay = 0, !.loop_param = NONE, !.loop_dest = NONE]
           row == IF p.flow.loop_dest >= 0 THEN p.flow.loop_dest
                  ELSE IF f.rowdelay = 0 THEN p.row + 1 ELSE p.row
           d == IF f.rowdelay = 0 THEN 0 ELSE f.rowdelay - 1
           b == f.rowdelay_set /\ f.rowdelay # 0
           g == [f EXCEPT !.rowdelay = d, !.rowdelay_set = b]
           h == BreakDone(f)
           stay == [p EXCEPT !.frame = 0, !.row = row, !.flow = g]
           broken == [p EXCEPT !.frame = 0, !.flow = h]
           to == IF f.jump = NONE THEN p.ord + 1 ELSE f.jump
<1>1. NextRow(p) = IF f.pbreak THEN NextOrder(broken, to)
                   ELSE IF PatternOver(p, row) THEN NextOrder(stay, p.ord + 1) ELSE stay
    BY DEF NextRow
<1>2. p.flow \in FlowRec /\ p.row \in Nat /\ NONE \in Int /\ 0 \in Int
    BY DEF IsPlayer, NONE
<1>3. f \in FlowRec
    BY <1>2, FlowFields
<1>4. row \in Nat
    BY <1>2, <1>3 DEF FlowRec
<1> HIDE DEF f, row, to
<1>5. h \in FlowRec
  <2>1. h = [f EXCEPT !.pbreak = FALSE, !.jump = NONE]
      BY DEF BreakDone
  <2> HIDE DEF h
  <2> QED  BY <1>2, <1>3, <2>1 DEF FlowRec
<1>6. g \in FlowRec
  <2>1. d \in Int /\ b \in BOOLEAN
      BY <1>3 DEF FlowRec
  <2> HIDE DEF d, b
  <2> QED  BY <1>3, <2>1, FlowFields
<1> HIDE DEF g, h
<1>7. IsPlayer(broken)
  <2> HIDE DEF broken
  <2>1. broken = [p EXCEPT !.frame = 0, !.flow = h]
      BY DEF broken
  <2> QED  BY <1>2, <1>5, <2>1 DEF IsPlayer, Fields
<1>8. IsPlayer(stay) /\ stay.bad = p.bad /\ stay.ord = p.ord /\ stay.pos = p.pos
  <2> HIDE DEF stay
  <2>1. stay = [p EXCEPT !.frame = 0, !.row = row, !.flow = g]
      BY DEF stay
  <2> QED  BY <1>2, <1>4, <1>6, <2>1 DEF IsPlayer, Fields
<1> HIDE DEF broken, stay
<1>9. Lands(stay)
    BY <1>8 DEF Lands
<1> QED  BY <1>1, <1>7, <1>8, <1>9, NextOrderLands

LEMMA EndedLands ==
    ASSUME NEW p, IsPlayer(p)
    PROVE  LET q == Ended(p)
           IN  q.ord = p.ord /\ q.pos = p.pos /\ q.sequence = p.sequence
BY DEF Ended, IsPlayer, Fields

LEMMA ProduceLands ==
    ASSUME SongOK, ends \in EndsType, NEW p, Arrived(p), NEW n \in Nat, Bounded(p, n), Lands(p),
           Produce(p)
    PROVE  Direct(player')
<1>1. CASE p.bad
  <2>1. player' = Ended(p) /\ IsPlayer(p)
      BY <1>1 DEF Produce, Arrived
  <2>2. Sought(player') <=> Sought(p)
      BY <2>1, EndedLands DEF Sought
  <2> QED  BY <1>1, <2>2 DEF Lands, Direct
<1>2. CASE ~p.bad
  <2>1. player' \in Read(p)
      BY <1>2 DEF Produce
  <2>2. player'.ord = p.ord /\ player'.pos = p.pos
      BY <1>2, <2>1, ReadCounts
  <2> QED  BY <1>2, <2>2 DEF Lands, Direct
<1> QED  BY <1>1, <1>2

LEMMA FrameLands ==
    ASSUME SongOK, entry \in EntryType, ends \in EndsType, Leading(control, entry), Sound(player),
           Bounded(player, LoopBound), PlayFrame
    PROVE  Direct(player')
<1> DEFINE n == LoopBound
<1>1. IsPlayer(player) /\ n \in Nat
    BY CallerAssumption DEF Sound, LoopBound
<1> HIDE DEF n
<1>2. Bounded(player, n)
    BY DEF n
<1>3. ASSUME NEW p, NEW m \in Nat, IsPlayer(p), Bounded(p, m)
      PROVE  (\A o : Bounded(NextOrder(p, o), m)) /\ Bounded(NextRow(p), m)
  <2>1. p.frame >= -1 /\ p.frame \in Int /\ p.ord <= song.len
      BY <1>3 DEF Bounded, IsPlayer
  <2>2. ASSUME NEW o  PROVE Bounded(NextOrder(p, o), m)
    <3>1. /\ SameCount(p, NextOrder(p, o)) /\ NextOrder(p, o).frame \in {0, p.frame}
          /\ NextOrder(p, o).ord <= song.len
        BY <1>3, NextOrderCounts
    <3>2. NextOrder(p, o).frame >= -1
        BY <2>1, <3>1
    <3> QED  BY <1>3, <3>1, <3>2, SameCountBounded
  <2>3. /\ SameCount(p, NextRow(p)) /\ NextRow(p).frame = 0
        /\ NextRow(p).ord <= song.len
      BY <1>3, <2>1, NextRowCounts
  <2>4. NextRow(p).frame >= -1
      BY <2>3
  <2> QED  BY <1>3, <2>2, <2>3, <2>4, SameCountBounded
<1>4. CASE PlayNothing
  <2> DEFINE p == player
             q == [p EXCEPT !.force = FALSE]
  <2>1. \/ player' = Ended(q) /\ p.pos = STOPPED
        \/ player' = Ended(p) /\ p.ord = p.pos
      BY <1>4 DEF PlayNothing, Displaced
  <2>2. IsPlayer(q) /\ q.pos = p.pos
    <3> HIDE DEF p, q
    <3>1. q = [p EXCEPT !.force = FALSE]
        BY DEF q
    <3>2. IsPlayer(p)
        BY <1>1 DEF p
    <3> QED  BY <3>1, <3>2 DEF IsPlayer, Fields
  <2>3. STOPPED \notin Orders
      BY OrderFacts DEF STOPPED
  <2> HIDE DEF q
  <2>4. Ended(q).pos = q.pos /\ Ended(p).pos = p.pos /\ Ended(p).ord = p.ord
      BY <1>1, <2>2, EndedLands
  <2> QED  BY <2>1, <2>2, <2>3, <2>4 DEF Direct, Sought
<1>5. CASE PlayElsewhere
  <2>1. PICK p, from :
              /\ Produce(NextOrder(p, from)) /\ from \in Int
              /\ IsPlayer(p) /\ Bounded(p, n) /\ p.playing = player.playing
      BY <1>2, <1>5, Repositions
  <2>2. player.playing
      BY <1>5 DEF PlayElsewhere, Playing
  <2>3. Arrived(NextOrder(p, from)) /\ Lands(NextOrder(p, from)) /\ Bounded(NextOrder(p, from), n)
      BY <1>1, <1>3, <2>1, <2>2, NextOrderArrives, NextOrderLands
  <2> QED  BY <1>1, <2>1, <2>3, ProduceLands
<1>6. CASE PlayOn
  <2>1. player.playing /\ ~player.bad /\ player.ord = player.pos
      BY <1>6 DEF PlayOn, Playing, Displaced
  <2>2. PICK q \in {IF RowOver THEN NextRow(Ticked) ELSE Ticked} : Produce(q)
      BY <1>6 DEF PlayOn
  <2>3. /\ Arrived(Ticked) /\ ~Ticked.bad /\ IsPlayer(Ticked) /\ Ticked.playing /\ Here(Ticked)
      BY <2>1, TickedArrives DEF Arrived
  <2>4. Ticked.ord = Ticked.pos /\ Bounded(Ticked, n)
      BY <1>2, <2>1, TickedFields, TickedCounts
  <2>5. Arrived(NextRow(Ticked)) /\ Lands(NextRow(Ticked)) /\ Bounded(NextRow(Ticked), n)
      BY <1>1, <1>3, <2>3, <2>4, NextRowArrives, NextRowLands
  <2>6. Lands(Ticked)
      BY <2>3, <2>4 DEF Lands
  <2>7. q = NextRow(Ticked) \/ q = Ticked
      BY <2>2
  <2> QED  BY <1>1, <2>2, <2>3, <2>4, <2>5, <2>6, <2>7, ProduceLands
<1>7. CASE PlaySkipping
  <2> DEFINE first == NextRow(Ticked)
             c == CheckEnd(first)
             q == NextRow(c)
  <2>1. player.playing /\ ~player.bad /\ player.ord = player.pos
      BY <1>7 DEF PlaySkipping, Playing, Displaced
  <2>2. IF first.bad THEN player' = Ended(first) ELSE Produce(q)
      BY <1>7 DEF PlaySkipping
  <2>3. /\ Arrived(Ticked) /\ ~Ticked.bad /\ IsPlayer(Ticked) /\ Ticked.playing /\ Here(Ticked)
      BY <2>1, TickedArrives DEF Arrived
  <2>4. Ticked.ord = Ticked.pos /\ Bounded(Ticked, n)
      BY <1>2, <2>1, TickedFields, TickedCounts
  <2>5. Arrived(first) /\ Lands(first) /\ Bounded(first, n)
      BY <1>1, <1>3, <2>3, <2>4, NextRowArrives, NextRowLands
  <2> HIDE DEF first
  <2>6. CASE first.bad
    <3>1. player' = Ended(first) /\ IsPlayer(first) /\ ~Sought(first)
        BY <2>2, <2>5, <2>6 DEF Arrived, Lands
    <3>2. Sought(player') <=> Sought(first)
        BY <3>1, EndedLands DEF Sought
    <3> QED  BY <3>1, <3>2 DEF Direct
  <2>7. CASE ~first.bad
    <3>1. Arrived(c) /\ ~c.bad
        BY <2>5, <2>7, CheckEndArrives
    <3>2. Bounded(c, n + 1) /\ c.pos = first.pos /\ c.ord = first.ord
        BY <1>1, <2>5, CheckEndCounts DEF Arrived
    <3> HIDE DEF c
    <3>3. c.ord = c.pos /\ IsPlayer(c) /\ c.playing /\ Here(c) /\ n + 1 \in Nat
        BY <1>1, <2>5, <2>7, <3>1, <3>2 DEF Arrived, Lands
    <3>4. Arrived(q) /\ Lands(q) /\ Bounded(q, n + 1)
        BY <1>3, <3>1, <3>2, <3>3, NextRowArrives, NextRowLands
    <3> HIDE DEF q
    <3> QED  BY <2>2, <2>7, <3>3, <3>4, ProduceLands
  <2> QED  BY <2>6, <2>7
<1> QED  BY <1>4, <1>5, <1>6, <1>7 DEF PlayFrame

\* A step of the scan ends where nothing is scanned.
LEMMA ScanIsOver ==
    ASSUME Scanned
    PROVE  ~ScanStep
BY DEF Scanned, ScanStep, ScanNext, ScanGivesUp, ScanWrapsToEnd, ScanSkips, ScanMeetsTaken,
       ScanReturns, ScanEnters, ScanFindsEnd, ScanRow, ScanOverflows, ScanEnds

\* While the module plays, the player waits for no more visits than there are,
\* and enters an order at its first row.
PlaceInv ==
    /\ CountInv
    /\ player.playing => Scanned /\ Fits(player) /\ (~Has("GLOBAL_COUNT") => Direct(player))

LEMMA PlacesKeep ==
    ASSUME NoRescan, PlaceInv, [Next]_vars
    PROVE  PlaceInv'
<1>1. CountInv /\ CountInv'
    BY CountsKeep DEF PlaceInv
<1>2. /\ SeqInv /\ SongOK /\ entry \in EntryType /\ ends \in EndsType /\ Sound(player)
      /\ IsPlayer(player) /\ Bounded(player, LoopBound) /\ ScanInv
    BY <1>1 DEF CountInv, SeqInv, ScanInv, SongOK, Good, EntryInv, Entered, Sound
<1>3. ASSUME UNCHANGED <<song, rules, scan, control>>,
             player'.playing => Scanned /\ (Fits(player)' /\ (~Has("GLOBAL_COUNT") => Direct(player')))
      PROVE  PlaceInv'
  <2>1. /\ Scanned' <=> Scanned
        /\ Has("GLOBAL_COUNT")' <=> Has("GLOBAL_COUNT")
        /\ Direct(player)' <=> Direct(player')
      BY <1>3 DEF Scanned, Has, FlowMode, Direct, Sought, Orders, Valid
  <2> QED  BY <1>1, <1>3, <2>1 DEF PlaceInv
<1>4. ASSUME UNCHANGED scanVars, player'.playing = player.playing, Fits(player) => Fits(player'),
             player.playing /\ Scanned /\ ~Has("GLOBAL_COUNT") /\ Direct(player) => Direct(player')
      PROVE  PlaceInv'
  <2>1. Fits(player)' <=> Fits(player')
      BY <1>4 DEF Fits, scanVars
  <2> QED  BY <1>3, <1>4, <2>1 DEF PlaceInv, scanVars
<1>5. CASE ScanStep
  <2>1. ~player.playing
      BY <1>5, ScanIsOver DEF PlaceInv
  <2>2. player' = player
      BY <1>5, <2>1 DEF ScanStep
  <2> QED  BY <1>1, <2>1, <2>2 DEF PlaceInv
<1>6. CASE StartPlayer
  <2>1. /\ Scanned /\ UNCHANGED <<song, rules, scan, control>>
        /\ ends' = ends \/ ends' = [ends EXCEPT ![0].ord = 0, ![0].row = 0]
      BY <1>6 DEF StartPlayer
  <2>2. /\ player'.sequence = 0 /\ player'.end_point \in {0, ends[0].num}
        /\ player'.flow.jumpline = 0
      BY <1>2, <1>6, NewPlayerCounts
  <2>3. ends'[0].num = ends[0].num /\ ends[0].num \in 0 .. CountMod - 1
      BY <1>2, <2>1, SeqFacts DEF EndsType
  <2>4. 0 <= ends[0].num /\ ends[0].num <= ends[0].num
      BY <2>3, LimitsAssumption
  <2>5. Fits(player)'
      BY <2>2, <2>3, <2>4 DEF Fits
  <2>6. Direct(player')
      BY <2>2 DEF Direct
  <2> QED  BY <1>3, <2>1, <2>5, <2>6
<1>7. CASE PlayFrame
  <2>1. UNCHANGED scanVars
      BY <1>7 DEF PlayFrame, PlayNothing, PlayElsewhere, PlayOn, PlaySkipping
  <2>2. player'.playing = player.playing /\ (Fits(player) => Fits(player'))
      BY <1>2, <1>7, FrameCounts
  <2>3. Scanned /\ ~Has("GLOBAL_COUNT") => Leading(control, entry)
      BY <1>1 DEF CountInv, EntryInv, Entered, Scanned
  <2>4. Leading(control, entry) => Direct(player')
      BY <1>2, <1>7, FrameLands
  <2> QED  BY <1>4, <2>1, <2>2, <2>3, <2>4
<1>8. CASE PositionCall
  <2>1. ~Rescan
      BY DEF NoRescan, Rescan
  <2>2. UNCHANGED scanVars
      BY <1>8, <2>1 DEF PositionCall, NextPosition, PrevPosition, SetPosition, SetRow,
                  StopModule, RestartModule, SeekTime, Call
  <2>3. Called(player, player')
      BY <1>2, <1>8, <2>1, CallsCount
  <2> QED  BY <1>4, <2>2, <2>3 DEF Called
<1>9. CASE UNCHANGED vars
    BY <1>4, <1>9 DEF vars
<1> QED  BY <1>5, <1>6, <1>7, <1>8, <1>9 DEF Next, Advance

LEMMA PlacesInitially == Init => PlaceInv
<1>1. SUFFICES ASSUME Init  PROVE PlaceInv
    OBVIOUS
<1>2. ~player.playing
    BY <1>1 DEF Init, NoPlayer
<1> QED  BY <1>1, <1>2, CountsInitially DEF PlaceInv

\* The song's next loop is noticed: wherever next, prev, set, seek, stop and
\* restart have moved the position, no more visits of the sequence's end are
\* waited for than the scan has counted.
THEOREM EndPointsAlwaysFit ==
    ASSUME NoRescan
    PROVE  Spec => []EndPointFits
<1>1. PlaceInv /\ [Next]_vars => PlaceInv'
    BY PlacesKeep
<1>2. PlaceInv => EndPointFits
  <2>1. SUFFICES ASSUME PlaceInv, Sounding, ~player.stale
                 PROVE  player.end_point <= ends[player.sequence].num
      BY DEF EndPointFits
  <2>2. Sound(player) /\ player.frame >= 0 /\ player.frame \in Int
      BY <2>1 DEF PlaceInv, CountInv, SeqInv, Sounding, Sound, IsPlayer
  <2>3. player.playing
      BY <2>2 DEF Sound
  <2> QED  BY <2>1, <2>3 DEF PlaceInv, Fits
<1> QED  BY <1>1, <1>2, PlacesInitially, PTL DEF Spec

-----------------------------------------------------------------------------
(* The position that is played                                             *)

\* The frame after a move to an order of the sequence.
LEMMA FrameReaches ==
    ASSUME CountInv, ~Has("GLOBAL_COUNT"), Scanned, player.playing, Displaced, Sought(player),
           PlayFrame
    PROVE  /\ player'.ord = player.pos /\ player'.pos = player.pos
           /\ player.flow.jumpline = 0 => player'.row = 0
<1>1. /\ SongOK /\ entry \in EntryType /\ ends \in EndsType /\ Sound(player) /\ IsPlayer(player)
      /\ Bounded(player, LoopBound) /\ LoopBound \in Nat
    BY CallerAssumption
    DEF CountInv, SeqInv, ScanInv, SongOK, Good, EntryInv, Entered, Sound, LoopBound
<1>2. NoneBefore(control, entry)
    BY DEF CountInv, EntryInv, Entered, Scanned
<1> DEFINE pos == player.pos
<1>3. /\ pos \in Orders /\ Valid(pos) /\ pos \in Nat /\ pos # STOPPED /\ pos # RESTART
    BY <1>1, OrderFacts DEF Sought, STOPPED, RESTART
<1>4. PlayElsewhere
    BY <1>3 DEF PlayFrame, PlayNothing, PlayOn, PlaySkipping
<1>5. PICK p, from :
         /\ Produce(NextOrder(p, from)) /\ from \in Int
         /\ from = LET start == entry[player.sequence]
                       o == IF player.pos = RESTART THEN start ELSE player.pos
                   IN  IF o < start THEN start ELSE o
         /\ IsPlayer(p) /\ Bounded(p, LoopBound)
         /\ p.playing = player.playing /\ p.flow.jumpline = player.flow.jumpline
    BY <1>1, <1>4, Repositions
<1>6. from = pos
  <2>1. entry[player.sequence] <= pos /\ entry[player.sequence] \in Nat
    <3>1. entry[control[pos]] <= pos
        BY <1>2, <1>3 DEF NoneBefore
    <3>2. entry[player.sequence] \in Orders
        BY <1>1 DEF IsPlayer, EntryType
    <3> QED  BY <1>1, <3>1, <3>2, OrderFacts DEF Sought
  <2> QED  BY <1>3, <1>5, <2>1
<1> DEFINE q == EnterOrder(p, pos)
<1>7. NextOrder(p, from) = q
  <2>1. Settle(pos) = pos /\ Playable(pos)
      BY <1>1, <1>3, SettleFinds DEF Playable
  <2> QED  BY <1>6, <2>1 DEF NextOrder
<1>8. /\ q.ord = pos /\ q.pos = pos /\ ~q.bad /\ q.row = BreakRow(p, pos) /\ SameCount(p, q)
      /\ q.frame = 0
    BY <1>5, EnterOrderCounts
<1>9. Arrived(q)
    BY <1>1, <1>3, <1>5, EnterOrderArrives DEF Playable
<1> HIDE DEF q
<1>10. Bounded(q, LoopBound)
  <2>1. q.frame >= -1 /\ q.ord <= song.len
      BY <1>1, <1>3, <1>8, SongFields DEF Orders
  <2> QED  BY <1>5, <1>8, <2>1, SameCountBounded
<1>11. player' \in Read(q)
    BY <1>5, <1>7, <1>8 DEF Produce
<1>12. player'.ord = q.ord /\ player'.pos = q.pos /\ player'.row = q.row
    BY <1>1, <1>8, <1>9, <1>10, <1>11, ReadCounts
<1>13. player.flow.jumpline = 0 => q.row = 0
    BY <1>5, <1>8 DEF BreakRow
<1> QED  BY <1>8, <1>12, <1>13

\* A call counts itself, so a step that makes none is a frame.
LEMMA FrameSteps ==
    ASSUME CountInv, Scanned, player.playing, [Next]_vars, calls' = calls
    PROVE  PlayFrame \/ UNCHANGED vars
<1>1. calls \in Nat
    BY CallerAssumption DEF CountInv
<1>2. ~PositionCall
  <2>1. PositionCall => calls' = calls + 1
      BY DEF PositionCall, NextPosition, PrevPosition, SetPosition, SetRow,
             StopModule, RestartModule, SeekTime, Rescan, Call
  <2> QED  BY <1>1, <2>1
<1>3. ~ScanStep
    BY ScanIsOver
<1>4. ~StartPlayer
    BY DEF StartPlayer
<1> QED  BY <1>2, <1>3, <1>4 DEF Next, Advance

LEMMA RulesCountApart ==
    ASSUME NoGlobalCount, RulesOK
    PROVE  ~Has("GLOBAL_COUNT")
BY DEF NoGlobalCount, RulesOK, Has, FlowMode

\* Whatever calls are made and however often the module is scanned anew, an
\* order of the sequence that plays is the one the next frame plays: the scan
\* leaves no such order before the sequence's entry point.
PositionIsReached ==
    [][Scanned /\ player.playing /\ calls' = calls /\ Displaced /\ Sought(player) =>
          player'.ord = player.pos /\ player'.pos = player.pos]_vars

THEOREM PositionsAlwaysReached ==
    ASSUME NoGlobalCount
    PROVE  Spec => PositionIsReached
<1>1. ASSUME CountInv, Next, ~UNCHANGED vars, Scanned, player.playing, calls' = calls, Displaced,
             Sought(player)
      PROVE  player'.ord = player.pos /\ player'.pos = player.pos
  <2>1. PlayFrame /\ ~Has("GLOBAL_COUNT")
      BY <1>1, FrameSteps, RulesCountApart DEF CountInv
  <2> QED  BY <1>1, <2>1, FrameReaches
<1>2. CountInv /\ [Next]_vars =>
        [Scanned /\ player.playing /\ calls' = calls /\ Displaced /\ Sought(player) =>
            player'.ord = player.pos /\ player'.pos = player.pos]_vars
    BY <1>1
<1> QED  BY <1>2, CountInvariantHolds, PTL DEF Spec, PositionIsReached

\* ... and it is played from its first row, unless the caller seeks a time: a
\* move forgets what was pending, and a break that found nothing to play is in
\* a sequence that has no order to move to.
THEOREM PositionsAlwaysPlayed ==
    ASSUME NoGlobalCount, NoRescan
    PROVE  Spec => PositionIsPlayed
<1>1. PlaceInv /\ [Next]_vars => PlaceInv'
    BY PlacesKeep
<1>2. ASSUME PlaceInv, Next, ~UNCHANGED vars, Scanned, player.playing, calls' = calls, Displaced,
             Sought(player)
      PROVE  /\ player'.ord = player.pos /\ player'.pos = player.pos
             /\ player.force \/ player.stale \/ player'.row = 0
  <2>1. CountInv
      BY <1>2 DEF PlaceInv
  <2>2. PlayFrame /\ ~Has("GLOBAL_COUNT")
      BY <1>2, <2>1, FrameSteps, RulesCountApart DEF CountInv
  <2>3. /\ player'.ord = player.pos /\ player'.pos = player.pos
        /\ player.flow.jumpline = 0 => player'.row = 0
      BY <1>2, <2>1, <2>2, FrameReaches
  <2>4. player.force \/ player.stale \/ player.flow.jumpline = 0
      BY <1>2, <2>2 DEF PlaceInv, Direct, Displaced
  <2> QED  BY <2>3, <2>4
<1>3. PlaceInv /\ [Next]_vars =>
        [Scanned /\ player.playing /\ calls' = calls /\ Displaced /\ player.pos \in Orders
         /\ Valid(player.pos) /\ control[player.pos] = player.sequence =>
            /\ player'.ord = player.pos /\ player'.pos = player.pos
            /\ player.force \/ player.stale \/ player'.row = 0]_vars
    BY <1>2 DEF Sought
<1> QED  BY <1>1, <1>3, PlacesInitially, PTL DEF Spec, PositionIsPlayed
=============================================================================
