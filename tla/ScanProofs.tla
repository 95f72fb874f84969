------------------------------- MODULE ScanProofs ------------------------------
(***************************************************************************)
(* For every song, every number of channels and the rules of every         *)
(* tracker: the scan stays inside its tables, never takes an order from a  *)
(* sequence, and counts the active loops right.                            *)
(***************************************************************************)
EXTENDS Scan, Recursion

-----------------------------------------------------------------------------
(* Flow control                                                            *)

\* struct flow_control
LoopRec == [start : Int, count : Nat]
FlowRec ==
    [pbreak : BOOLEAN, jump : Int, jumpline : Nat, delay : Int, rowdelay : Int,
     rowdelay_set : BOOLEAN, loop_dest : Int, loop_param : Int, loop_start : Int,
     loop_count : Nat, loop_active : Int, loop : [Chns -> LoopRec]]

\* The two records count the same loops.
SameLoops(f, g) ==
    /\ g.loop_count = f.loop_count /\ g.loop_active = f.loop_active
    /\ \A c \in Chns : g.loop[c].count = f.loop[c].count

\* The loops that have passes left.
Active(f) == {c \in Chns : f.loop[c].count # 0}

\* The count of active loops is right, except for trackers that forget their
\* loops at a position change.
ActiveOK(f) == ~Has("PATTERN_RESET") => f.loop_active = ActiveLoops(f)

LEMMA SameLoopsActive ==
    ASSUME NEW f, NEW g, SameLoops(f, g)
    PROVE  ActiveOK(f) => ActiveOK(g)
<1>1. {c \in Chns : g.loop[c].count # 0} = {c \in Chns : f.loop[c].count # 0}
    BY DEF SameLoops
<1> QED  BY <1>1 DEF ActiveOK, ActiveLoops, SameLoops

\* A loop's target is no part of its count.
LEMMA SetTargetFields ==
    ASSUME NEW f \in FlowRec, NEW chn \in Chns, NEW row \in Int
    PROVE  LET g == SetTarget(f, chn, row)
           IN  /\ g \in FlowRec /\ SameLoops(f, g) /\ LoopTarget(g, chn) = row
               /\ LoopCount(g, chn) = LoopCount(f, chn)
               /\ g.jumpline = f.jumpline /\ g.pbreak = f.pbreak /\ g.jump = f.jump
<1> DEFINE g == SetTarget(f, chn, row)
<1>1. CASE Has("GLOBAL_TARGET")
  <2>1. g = [f EXCEPT !.loop_start = row]
      BY <1>1 DEF SetTarget
  <2> HIDE DEF g
  <2>2. g \in FlowRec /\ g.loop_start = row /\ g.loop = f.loop
        /\ g.loop_count = f.loop_count /\ g.loop_active = f.loop_active
        /\ g.jumpline = f.jumpline /\ g.pbreak = f.pbreak /\ g.jump = f.jump
      BY <2>1 DEF FlowRec
  <2> QED  BY <1>1, <2>2 DEF SameLoops, LoopTarget, LoopCount, g
<1>2. CASE ~Has("GLOBAL_TARGET")
  <2> DEFINE l == [f.loop EXCEPT ![chn].start = row]
  <2>1. g = [f EXCEPT !.loop = l]
      BY <1>2 DEF SetTarget
  <2>2. /\ l \in [Chns -> LoopRec] /\ l[chn].start = row
        /\ \A c \in Chns : l[c].count = f.loop[c].count
    <3>1. f.loop \in [Chns -> LoopRec]
        BY DEF FlowRec
    <3> QED  BY <3>1 DEF LoopRec
  <2> HIDE DEF g, l
  <2>3. g \in FlowRec /\ g.loop = l
        /\ g.loop_count = f.loop_count /\ g.loop_active = f.loop_active
        /\ g.jumpline = f.jumpline /\ g.pbreak = f.pbreak /\ g.jump = f.jump
      BY <2>1, <2>2 DEF FlowRec
  <2> QED  BY <1>2, <2>2, <2>3 DEF SameLoops, LoopTarget, LoopCount, g
<1> QED  BY <1>1, <1>2

\* A count that changes from or to 0 is one loop more or less.
LEMMA SetCountFields ==
    ASSUME NEW f \in FlowRec, NEW chn \in Chns, NEW n \in Nat
    PROVE  LET g == SetCount(f, chn, n)
           IN  /\ g \in FlowRec /\ LoopTarget(g, chn) = LoopTarget(f, chn)
               /\ g.loop_active = f.loop_active
               /\ g.jumpline = f.jumpline /\ g.pbreak = f.pbreak /\ g.jump = f.jump
               /\ (n # 0 <=> LoopCount(f, chn) # 0) => ActiveLoops(g) = ActiveLoops(f)
               /\ n # 0 /\ LoopCount(f, chn) = 0 => ActiveLoops(g) = ActiveLoops(f) + 1
               /\ n = 0 /\ LoopCount(f, chn) # 0 => ActiveLoops(g) = ActiveLoops(f) - 1
<1> DEFINE g == SetCount(f, chn, n)
<1>1. CASE Has("GLOBAL_COUNT")
  <2>1. g = [f EXCEPT !.loop_count = n]
      BY <1>1 DEF SetCount
  <2> HIDE DEF g
  <2>2. g \in FlowRec /\ g.loop_count = n /\ g.loop = f.loop
        /\ g.loop_active = f.loop_active /\ g.loop_start = f.loop_start
        /\ g.jumpline = f.jumpline /\ g.pbreak = f.pbreak /\ g.jump = f.jump
      BY <2>1 DEF FlowRec
  <2> QED  BY <1>1, <2>2 DEF LoopTarget, LoopCount, ActiveLoops, g
<1>2. CASE ~Has("GLOBAL_COUNT")
  <2> DEFINE l == [f.loop EXCEPT ![chn].count = n]
  <2>1. g = [f EXCEPT !.loop = l]
      BY <1>2 DEF SetCount
  <2>2. /\ l \in [Chns -> LoopRec] /\ l[chn].count = n
        /\ \A c \in Chns : l[c].start = f.loop[c].start
        /\ \A c \in Chns \ {chn} : l[c].count = f.loop[c].count
    <3>1. f.loop \in [Chns -> LoopRec]
        BY DEF FlowRec
    <3> QED  BY <3>1 DEF LoopRec
  <2> HIDE DEF g, l
  <2>3. g \in FlowRec /\ g.loop = l
        /\ g.loop_active = f.loop_active /\ g.loop_start = f.loop_start
        /\ g.jumpline = f.jumpline /\ g.pbreak = f.pbreak /\ g.jump = f.jump
      BY <2>1, <2>2 DEF FlowRec
  <2>4. IsFiniteSet(Active(f)) /\ Cardinality(Active(f)) \in Nat
    <3>1. IsFiniteSet(Chns) /\ Active(f) \subseteq Chns
        BY NumChnAssumption, FS_Interval DEF Chns, Active
    <3> QED  BY <3>1, FS_Subset, FS_CardinalityType
  <2>5. LoopCount(f, chn) = f.loop[chn].count /\ LoopTarget(g, chn) = LoopTarget(f, chn)
      BY <1>2, <2>2, <2>3 DEF LoopCount, LoopTarget
  <2>6. /\ ActiveLoops(f) = Cardinality(Active(f))
        /\ ActiveLoops(g) = Cardinality(Active(g))
      BY <1>2 DEF ActiveLoops, Active
  <2>7. CASE n # 0 <=> f.loop[chn].count # 0
    <3>1. Active(g) = Active(f)
        BY <2>2, <2>3, <2>7 DEF Active
    <3>2. ActiveLoops(g) = ActiveLoops(f)
        BY <2>6, <3>1
    <3> QED  BY <2>3, <2>5, <2>7, <3>2 DEF g
  <2>8. CASE n # 0 /\ f.loop[chn].count = 0
    <3>1. Active(g) = Active(f) \cup {chn} /\ chn \notin Active(f)
        BY <2>2, <2>3, <2>8 DEF Active
    <3>2. Cardinality(Active(g)) = Cardinality(Active(f)) + 1
        BY <2>4, <3>1, FS_AddElement
    <3> QED  BY <2>3, <2>5, <2>6, <2>8, <3>2 DEF g
  <2>9. CASE n = 0 /\ f.loop[chn].count # 0
    <3>1. Active(g) = Active(f) \ {chn} /\ chn \in Active(f)
        BY <2>2, <2>3, <2>9 DEF Active
    <3>2. Cardinality(Active(g)) = Cardinality(Active(f)) - 1
        BY <2>4, <3>1, FS_RemoveElement
    <3> QED  BY <2>3, <2>5, <2>6, <2>9, <3>2 DEF g
  <2> QED  BY <2>7, <2>8, <2>9
<1> QED  BY <1>1, <1>2

\* A loop that is taken jumps to a row: the break it takes back shares it.
LEMMA OverrideBreakFields ==
    ASSUME NEW f \in FlowRec, 0 <= f.loop_dest
    PROVE  LET g == OverrideBreak(f) IN g \in FlowRec /\ SameLoops(f, g)
<1> DEFINE unset == IF f.jump = NONE THEN Has("UNSET_BREAK") ELSE Has("UNSET_JUMP")
           g == OverrideBreak(f)
<1>0. f.loop_dest \in Nat /\ f.jumpline \in Nat /\ f.jump \in Int /\ NONE \in Int
    BY DEF FlowRec, NONE
<1>1. CASE ~f.pbreak
    BY <1>1 DEF OverrideBreak, SameLoops
<1>2. CASE f.pbreak
  <2> DEFINE line == IF Has("SHARED_BREAK") THEN f.loop_dest ELSE f.jumpline
             jump == IF unset THEN NONE ELSE f.jump
  <2>1. g = [f EXCEPT !.jumpline = line, !.pbreak = ~unset, !.jump = jump]
      BY <1>2 DEF OverrideBreak
  <2>2. line \in Nat /\ jump \in Int /\ (~unset) \in BOOLEAN
      BY <1>0
  <2> HIDE DEF line, jump, unset, g
  <2>3. g \in FlowRec /\ g.loop = f.loop /\ g.loop_count = f.loop_count
        /\ g.loop_active = f.loop_active
      BY <2>1, <2>2 DEF FlowRec
  <2> QED  BY <2>3 DEF SameLoops, g
<1> QED  BY <1>1, <1>2

\* The first time round a loop is counted, the other times it is.
LEMMA TakeLoopKeeps ==
    ASSUME NEW f \in FlowRec, NEW chn \in Chns, NEW n \in Nat \ {0},
           NEW begins \in BOOLEAN, 0 <= LoopTarget(f, chn),
           begins <=> LoopCount(f, chn) = 0
    PROVE  /\ TakeLoop(f, chn, n, begins) \in FlowRec
           /\ ActiveOK(f) => ActiveOK(TakeLoop(f, chn, n, begins))
<1> DEFINE c == SetCount(f, chn, n)
           a == IF begins THEN c.loop_active + 1 ELSE c.loop_active
           d == LoopTarget(f, chn)
           e == [c EXCEPT !.loop_dest = d, !.loop_active = a]
<1>1. TakeLoop(f, chn, n, begins) = OverrideBreak(e)
    BY DEF TakeLoop
<1>2. /\ c \in FlowRec /\ LoopTarget(c, chn) = LoopTarget(f, chn)
      /\ c.loop_active = f.loop_active
      /\ (n # 0 <=> LoopCount(f, chn) # 0) => ActiveLoops(c) = ActiveLoops(f)
      /\ n # 0 /\ LoopCount(f, chn) = 0 => ActiveLoops(c) = ActiveLoops(f) + 1
    BY SetCountFields
<1>3. d \in Int
    BY DEF LoopTarget, FlowRec, LoopRec
<1> HIDE DEF c
<1>4. c.loop_active \in Int /\ a \in Int
    BY <1>2 DEF FlowRec
<1> HIDE DEF a, d
<1>5. /\ e \in FlowRec /\ e.loop_dest = d /\ e.loop_active = a
      /\ e.loop_count = c.loop_count /\ e.loop = c.loop
    BY <1>2, <1>3, <1>4 DEF FlowRec
<1> HIDE DEF e
<1>6. OverrideBreak(e) \in FlowRec /\ SameLoops(e, OverrideBreak(e))
    BY <1>5, OverrideBreakFields DEF d
<1>7. ActiveLoops(e) = ActiveLoops(c)
    BY <1>5 DEF ActiveLoops
<1>8. ActiveOK(f) => ActiveOK(e)
    BY <1>2, <1>5, <1>7 DEF ActiveOK, a
<1> QED  BY <1>1, <1>6, <1>8, SameLoopsActive

\* The last pass takes the loop out of the count.
LEMMA LeaveLoopKeeps ==
    ASSUME NEW f \in FlowRec, NEW chn \in Chns, NEW row \in Nat,
           LoopCount(f, chn) # 0
    PROVE  /\ LeaveLoop(f, chn, row) \in FlowRec
           /\ ActiveOK(f) => ActiveOK(LeaveLoop(f, chn, row))
<1> DEFINE c == SetCount(f, chn, 0)
           t == IF Has("END_ADVANCES") THEN SetTarget(c, chn, row + 1) ELSE c
           d == IF Has("END_CANCELS") THEN NONE ELSE t.loop_dest
           a == t.loop_active - 1
           g == LeaveLoop(f, chn, row)
<1>1. g = [t EXCEPT !.loop_dest = d, !.loop_active = a]
    BY DEF LeaveLoop
<1>2. /\ c \in FlowRec /\ c.loop_active = f.loop_active
      /\ ActiveLoops(c) = ActiveLoops(f) - 1
  <2>1. /\ c \in FlowRec /\ LoopTarget(c, chn) = LoopTarget(f, chn)
        /\ c.loop_active = f.loop_active
        /\ 0 = 0 /\ LoopCount(f, chn) # 0 => ActiveLoops(c) = ActiveLoops(f) - 1
      BY SetCountFields
  <2> QED  BY <2>1
<1> HIDE DEF c
<1>3. t \in FlowRec /\ SameLoops(c, t)
  <2>1. SetTarget(c, chn, row + 1) \in FlowRec /\ SameLoops(c, SetTarget(c, chn, row + 1))
      BY <1>2, SetTargetFields
  <2>2. SameLoops(c, c)
      BY DEF SameLoops
  <2> QED  BY <1>2, <2>1, <2>2
<1> HIDE DEF t
<1>4. d \in Int /\ a \in Int
    BY <1>3 DEF FlowRec, NONE
<1> HIDE DEF d, a, g
<1>5. /\ g \in FlowRec /\ g.loop_active = a
      /\ g.loop_count = t.loop_count /\ g.loop = t.loop
    BY <1>1, <1>3, <1>4 DEF FlowRec
<1>6. ActiveLoops(g) = ActiveLoops(c)
  <2>1. {x \in Chns : g.loop[x].count # 0} = {x \in Chns : c.loop[x].count # 0}
      BY <1>3, <1>5 DEF SameLoops
  <2> QED  BY <1>3, <1>5, <2>1 DEF ActiveLoops, SameLoops
<1>7. ActiveOK(f) => ActiveOK(g)
    BY <1>2, <1>3, <1>5, <1>6 DEF ActiveOK, SameLoops, a
<1> QED  BY <1>5, <1>7 DEF g

LEMMA EndLoopKeeps ==
    ASSUME NEW f \in FlowRec, NEW chn \in Chns, NEW row \in Nat, NEW n \in Nat \ {0}
    PROVE  /\ EndLoop(f, chn, row, n) \in FlowRec
           /\ ActiveOK(f) => ActiveOK(EndLoop(f, chn, row, n))
<1> DEFINE start == IF LoopTarget(f, chn) >= 0 THEN LoopTarget(f, chn)
                    ELSE IF Has("INIT_SAMEROW") THEN row ELSE 0
           g     == SetTarget(f, chn, start)
           count == LoopCount(f, chn)
           other == \E c \in Chns \ {chn} : f.loop[c].count # 0
<1>1. LoopTarget(f, chn) \in Int /\ count \in Nat
    BY DEF LoopTarget, LoopCount, FlowRec, LoopRec
<1>2. start \in Nat
    BY <1>1
<1> HIDE DEF start
<1>3. /\ g \in FlowRec /\ SameLoops(f, g) /\ LoopTarget(g, chn) = start
      /\ LoopCount(g, chn) = count
    BY <1>2, SetTargetFields
<1>4. EndLoop(f, chn, row, n) =
         IF count > 1 THEN TakeLoop(g, chn, count - 1, FALSE)
         ELSE IF count = 1 THEN LeaveLoop(g, chn, row)
         ELSE IF Has("ONE_AT_A_TIME") /\ other THEN g
         ELSE TakeLoop(g, chn, n, TRUE)
    BY DEF EndLoop, start
<1> HIDE DEF g, count, other
<1>5. ActiveOK(f) => ActiveOK(g)
    BY <1>3, SameLoopsActive
<1>6. CASE count > 1
  <2>1. count - 1 \in Nat \ {0} /\ 0 <= LoopTarget(g, chn) /\ LoopCount(g, chn) # 0
      BY <1>1, <1>2, <1>3, <1>6
  <2>2. EndLoop(f, chn, row, n) = TakeLoop(g, chn, count - 1, FALSE)
      BY <1>4, <1>6
  <2> QED  BY <1>3, <1>5, <2>1, <2>2, TakeLoopKeeps
<1>7. CASE count = 1
  <2>1. EndLoop(f, chn, row, n) = LeaveLoop(g, chn, row)
      BY <1>4, <1>7
  <2> QED  BY <1>3, <1>5, <1>7, <2>1, LeaveLoopKeeps
<1>8. CASE count = 0
  <2>0. ~(count > 1) /\ count # 1
      BY <1>8
  <2>1. EndLoop(f, chn, row, n) = g \/ EndLoop(f, chn, row, n) = TakeLoop(g, chn, n, TRUE)
      BY <1>4, <2>0, Zenon
  <2>2. 0 <= LoopTarget(g, chn) /\ LoopCount(g, chn) = 0
      BY <1>2, <1>3, <1>8
  <2>3. /\ TakeLoop(g, chn, n, TRUE) \in FlowRec
        /\ ActiveOK(g) => ActiveOK(TakeLoop(g, chn, n, TRUE))
      BY <1>3, <1>5, <2>2, TakeLoopKeeps
  <2> QED  BY <1>3, <1>5, <2>1, <2>3
<1> QED  BY <1>1, <1>6, <1>7, <1>8

LEMMA MarkLoopKeeps ==
    ASSUME NEW f \in FlowRec, NEW chn \in Chns, NEW row \in Nat
    PROVE  /\ MarkLoop(f, chn, row) \in FlowRec
           /\ ActiveOK(f) => ActiveOK(MarkLoop(f, chn, row))
<1> DEFINE t == SetTarget(f, chn, row)
           line == IF "FT2BUGS" \in Quirks THEN row ELSE t.jumpline
           g == [t EXCEPT !.jumpline = line]
<1>1. MarkLoop(f, chn, row) = f \/ MarkLoop(f, chn, row) = g
    BY DEF MarkLoop
<1>2. t \in FlowRec /\ SameLoops(f, t)
    BY SetTargetFields
<1> HIDE DEF t
<1>3. line \in Nat
    BY <1>2 DEF FlowRec
<1> HIDE DEF line
<1>4. g \in FlowRec /\ g.loop = t.loop /\ g.loop_count = t.loop_count
      /\ g.loop_active = t.loop_active
    BY <1>2, <1>3 DEF FlowRec
<1>5. SameLoops(f, g)
    BY <1>2, <1>4 DEF SameLoops
<1> HIDE DEF g
<1> QED  BY <1>1, <1>4, <1>5, SameLoopsActive

\* No effect of any tracker loses count of the active loops.
LEMMA FlowEffectKeeps ==
    ASSUME NEW f \in FlowRec, NEW chn \in Chns, NEW ord \in Int,
           NEW row \in Nat, NEW e, e.arg \in Nat
    PROVE  /\ FlowEffect(f, chn, ord, row, e) \in FlowRec
           /\ ActiveOK(f) => ActiveOK(FlowEffect(f, chn, ord, row, e))
<1> DEFINE r == FlowEffect(f, chn, ord, row, e)
<1>1. CASE e.fx = "loop"
  <2> DEFINE g == [f EXCEPT !.loop_param = e.arg]
  <2>1. r = f \/ (e.arg = 0 /\ r = MarkLoop(g, chn, row))
        \/ (e.arg # 0 /\ r = EndLoop(g, chn, row, e.arg))
      BY <1>1 DEF FlowEffect, PatternLoop
  <2>2. g \in FlowRec /\ SameLoops(f, g)
      BY DEF FlowRec, SameLoops
  <2> HIDE DEF g, r
  <2>3. ActiveOK(f) => ActiveOK(g)
      BY <2>2, SameLoopsActive
  <2>4. /\ MarkLoop(g, chn, row) \in FlowRec
        /\ ActiveOK(g) => ActiveOK(MarkLoop(g, chn, row))
      BY <2>2, MarkLoopKeeps
  <2>5. e.arg # 0 => /\ EndLoop(g, chn, row, e.arg) \in FlowRec
                     /\ ActiveOK(g) => ActiveOK(EndLoop(g, chn, row, e.arg))
      BY <2>2, EndLoopKeeps
  <2> QED  BY <2>1, <2>3, <2>4, <2>5 DEF r
<1>2. CASE e.fx # "loop"
  <2>1. r = f \/ \E j \in Int, l \in Nat :
                   r = [f EXCEPT !.pbreak = TRUE, !.jump = j, !.jumpline = l]
    <3>0. f.jump \in Int /\ f.jumpline \in Nat /\ 0 \in Nat /\ e.arg \in Int
        BY DEF FlowRec
    <3>1. CASE e.fx = "jump"
      <4>1. r = PatternJump(f, e.arg)
          BY <1>2, <3>1 DEF FlowEffect
      <4> DEFINE l == IF Has("JUMP_NO_ROW_SET") THEN f.jumpline ELSE 0
      <4>2. r = f \/ r = [f EXCEPT !.pbreak = TRUE, !.jump = e.arg, !.jumpline = l]
          BY <4>1 DEF PatternJump
      <4>3. l \in Nat
          BY <3>0
      <4> HIDE DEF l, r
      <4> QED  BY <3>0, <4>2, <4>3
    <3>2. CASE e.fx = "break"
      <4>1. r = PatternBreak(f, e.arg)
          BY <1>2, <3>2 DEF FlowEffect
      <4>2. r = f \/ r = [f EXCEPT !.pbreak = TRUE, !.jumpline = e.arg]
          BY <4>1 DEF PatternBreak
      <4>3. [f EXCEPT !.pbreak = TRUE, !.jumpline = e.arg]
            = [f EXCEPT !.pbreak = TRUE, !.jump = f.jump, !.jumpline = e.arg]
          BY DEF FlowRec
      <4> HIDE DEF r
      <4> QED  BY <3>0, <4>2, <4>3
    <3>3. CASE e.fx = "line"
      <4>1. r = LineJump(f, ord, e.arg)
          BY <1>2, <3>3 DEF FlowEffect
      <4> DEFINE j == IF f.pbreak THEN f.jump ELSE ord
      <4>2. r = [f EXCEPT !.pbreak = TRUE, !.jump = j, !.jumpline = e.arg]
          BY <4>1 DEF LineJump, FlowRec
      <4>3. j \in Int
          BY <3>0
      <4> HIDE DEF j, r
      <4> QED  BY <4>2, <4>3
    <3>4. CASE e.fx \notin {"jump", "break", "line"}
        BY <1>2, <3>4 DEF FlowEffect
    <3> QED  BY <3>1, <3>2, <3>3, <3>4
  <2> HIDE DEF r
  <2>2. r \in FlowRec /\ SameLoops(f, r)
    <3>1. CASE r = f
        BY <3>1 DEF SameLoops
    <3>2. ASSUME NEW j \in Int, NEW l \in Nat,
                 r = [f EXCEPT !.pbreak = TRUE, !.jump = j, !.jumpline = l]
          PROVE  r \in FlowRec /\ SameLoops(f, r)
        BY <3>2 DEF FlowRec, SameLoops
    <3> QED  BY <2>1, <3>1, <3>2
  <2>3. ActiveOK(f) => ActiveOK(r)
      BY <2>2, SameLoopsActive
  <2> QED  BY <2>2, <2>3 DEF r
<1> QED  BY <1>1, <1>2

-----------------------------------------------------------------------------
(* A row                                                                   *)

\* The order names a pattern, and the row is not before it.
Reading(o, row) == o \in Orders /\ Valid(o) /\ row \in Nat

SongOK == song \in Songs

\* What a song holds: patterns of at least a row, and arguments of effects.
LEMMA SongFields ==
    ASSUME SongOK
    PROVE  /\ IsSong(song) /\ song.len \in Nat \ {0} /\ song.rst \in Nat
           /\ \A o \in Orders : song.xxo[o] \in Nat
           /\ \A o \in Orders : Valid(o) => Rows(o) \in Nat \ {0}
           /\ \A o \in Orders, row \in Nat, chn \in Chns :
                 Valid(o) => Effect(o, row, chn).arg \in Nat
<1>1. IsSong(song)
    BY SongsAssumption DEF SongOK
<1>2. song.len \in Nat \ {0} /\ song.rst \in Nat /\ song.pat \in Nat
    BY <1>1 DEF IsSong
<1>3. ASSUME NEW o \in Orders  PROVE song.xxo[o] \in Nat
  <2>1. song.xxo \in [0 .. song.len - 1 -> 0 .. END]
      BY <1>1 DEF IsSong
  <2>2. song.xxo[o] \in 0 .. END
      BY <2>1 DEF Orders
  <2> QED  BY <2>2
<1>4. ASSUME NEW o \in Orders, Valid(o)  PROVE song.xxo[o] \in 0 .. song.pat - 1
    BY <1>2, <1>3, <1>4 DEF Valid
<1>5. ASSUME NEW o \in Orders, Valid(o)  PROVE Rows(o) \in Nat \ {0}
  <2>1. song.rows \in [0 .. song.pat - 1 -> Nat \ {0}]
      BY <1>1 DEF IsSong
  <2> QED  BY <1>4, <1>5, <2>1 DEF Rows
<1>6. ASSUME NEW o \in Orders, Valid(o), NEW row \in Nat, NEW chn \in Chns
      PROVE  Effect(o, row, chn).arg \in Nat
  <2> DEFINE p == song.xxo[o]
  <2>1. p \in 0 .. song.pat - 1 /\ Rows(o) \in Nat \ {0} /\ Rows(o) = song.rows[p]
      BY <1>4, <1>5, <1>6 DEF Rows
  <2> HIDE DEF p
  <2>2. ASSUME NEW r \in 0 .. song.rows[p] - 1  PROVE song.fx[p][r][chn].arg \in Nat
      BY <1>1, <2>1, <2>2 DEF IsSong
  <2>3. CASE row < Rows(o)
    <3>1. Effect(o, row, chn) = song.fx[p][row][chn]
        BY <2>3 DEF Effect, p
    <3>2. row \in 0 .. song.rows[p] - 1
        BY <2>1, <2>3
    <3> QED  BY <2>2, <3>1, <3>2
  <2>4. CASE ~(row < Rows(o))
      BY <2>4 DEF Effect
  <2> QED  BY <2>3, <2>4
<1> QED  BY <1>1, <1>2, <1>3, <1>5, <1>6

\* What scan_module keeps of a row while it looks at its channels.
RowShape ==
    [flow : FlowRec, delay : Nat, inside : BOOLEAN, count : 0 .. CountMod - 1, time : Int]
RowRec == {x \in RowShape : ActiveOK(x.flow)}

LEMMA ScanEffectKeeps ==
    ASSUME SongOK, Reading(scan.ord, scan.row), NEW x \in RowRec, NEW chn \in Chns
    PROVE  ScanEffect(x, chn) \in RowRec
<1> DEFINE e == Effect(scan.ord, scan.row, chn)
           f == FlowEffect(x.flow, chn, scan.ord, scan.row, e)
           r == ScanEffect(x, chn)
<1>0. /\ x.flow \in FlowRec /\ ActiveOK(x.flow) /\ x.delay \in Nat /\ x.inside \in BOOLEAN
      /\ x.count \in 0 .. CountMod - 1 /\ x.time \in Int /\ CountMod \in Nat \ {0}
    BY LimitsAssumption DEF RowRec, RowShape
<1>1. e.arg \in Nat
    BY SongFields DEF Reading
<1>2. f \in FlowRec /\ ActiveOK(f)
  <2>1. scan.ord \in Int /\ scan.row \in Nat
      BY DEF Reading, Orders
  <2> QED  BY <1>0, <1>1, <2>1, FlowEffectKeeps
<1>3. r = IF e.fx = "rowdelay"
          THEN [x EXCEPT !.count = IF x.count + e.arg < CountMod THEN x.count + e.arg
                                   ELSE CountMod - 1,
                         !.time  = x.time + e.arg]
          ELSE IF e.fx = "delay"
          THEN [x EXCEPT !.delay = IF "ST3_DELAY" \in Quirks /\ x.delay # 0 THEN x.delay
                                   ELSE e.arg]
          ELSE [x EXCEPT
                   !.flow = f,
                   !.inside =
                      IF e.fx = "jump" /\ f.pbreak THEN FALSE
                      ELSE IF e.fx = "loop" /\ e.arg > 0 /\ f.loop_dest < 0 THEN FALSE
                      ELSE IF e.fx = "loop" /\ e.arg = 0 THEN TRUE ELSE x.inside]
    BY DEF ScanEffect
<1> HIDE DEF e, f, r
<1>4. ASSUME e.fx = "rowdelay"  PROVE r \in RowRec
  <2> DEFINE c == IF x.count + e.arg < CountMod THEN x.count + e.arg ELSE CountMod - 1
             t == x.time + e.arg
  <2>1. r = [x EXCEPT !.count = c, !.time = t]
      BY <1>3, <1>4
  <2>2. c \in 0 .. CountMod - 1 /\ t \in Int
      BY <1>0, <1>1
  <2> HIDE DEF c, t
  <2>3. r \in RowShape /\ r.flow = x.flow
      BY <2>1, <2>2 DEF RowRec, RowShape
  <2> QED  BY <1>0, <2>3 DEF RowRec
<1>5. ASSUME e.fx = "delay"  PROVE r \in RowRec
  <2> DEFINE d == IF "ST3_DELAY" \in Quirks /\ x.delay # 0 THEN x.delay ELSE e.arg
  <2>1. r = [x EXCEPT !.delay = d]
      BY <1>3, <1>5
  <2>2. d \in Nat
      BY <1>0, <1>1
  <2> HIDE DEF d
  <2>3. r \in RowShape /\ r.flow = x.flow
      BY <2>1, <2>2 DEF RowRec, RowShape
  <2> QED  BY <1>0, <2>3 DEF RowRec
<1>6. ASSUME e.fx \notin {"rowdelay", "delay"}  PROVE r \in RowRec
  <2> DEFINE i == IF e.fx = "jump" /\ f.pbreak THEN FALSE
                  ELSE IF e.fx = "loop" /\ e.arg > 0 /\ f.loop_dest < 0 THEN FALSE
                  ELSE IF e.fx = "loop" /\ e.arg = 0 THEN TRUE ELSE x.inside
  <2>1. r = [x EXCEPT !.flow = f, !.inside = i]
      BY <1>3, <1>6
  <2>2. i \in BOOLEAN
      BY <1>0
  <2> HIDE DEF i
  <2>3. r \in RowShape /\ r.flow = f
      BY <1>2, <2>1, <2>2 DEF RowRec, RowShape
  <2> QED  BY <1>2, <2>3 DEF RowRec
<1> QED  BY <1>4, <1>5, <1>6 DEF r

\* The channels of a row, one after the other.
After(x) ==
    CHOOSE a : a = [n \in 0 .. NumChn |->
        IF n = 0 THEN {x} ELSE {ScanEffect(y, n - 1) : y \in a[n - 1]}]

\* The channels of a row take x from R[0] to R[NumChn].
LEMMA ChannelsFollow ==
    ASSUME NEW R, NEW x \in R[0],
           \A n \in Chns : \A y \in R[n] : ScanEffect(y, n) \in R[n + 1]
    PROVE  OverChannels(ScanEffect, x) \subseteq R[NumChn]
<1> DEFINE U == UNION {R[n] : n \in 0 .. NumChn}
           X == SUBSET U
           F == [p \in (0 .. NumChn) \X X |->
                   IF p[1] < NumChn THEN {ScanEffect(y, p[1]) : y \in p[2] \cap R[p[1]]} ELSE {}]
<1>1. NumChn \in Nat /\ 0 \in 0 .. NumChn
    BY NumChnAssumption
<1>2. ASSUME NEW n \in 0 .. NumChn, n < NumChn
      PROVE  /\ \A y \in R[n] : ScanEffect(y, n) \in R[n + 1]
             /\ R[n + 1] \subseteq U
  <2>1. n \in Chns /\ n + 1 \in 0 .. NumChn
      BY <1>1, <1>2 DEF Chns
  <2> QED  BY <2>1
<1>3. ASSUME NEW n \in 0 .. NumChn, NEW S \in X, n < NumChn
      PROVE  {ScanEffect(y, n) : y \in S \cap R[n]} \in X
    BY <1>2, <1>3
<1>4. F \in [(0 .. NumChn) \X X -> X]
  <2> HIDE DEF X
  <2>1. {} \in X
      BY DEF X
  <2> QED  BY <1>3, <2>1
<1>5. \A n \in 0 .. NumChn, S \in X :
         n < NumChn => F[<<n, S>>] = {ScanEffect(y, n) : y \in S \cap R[n]}
    OBVIOUS
<1>6. {x} \in X
    BY <1>1
<1>7. PICK g \in [0 .. NumChn -> X] : Recurs(g, NumChn, {x}, F)
  <2> HIDE DEF F, X
  <2> QED  BY <1>1, <1>4, <1>6, RecursiveFunction
<1>8. ASSUME NEW n \in 0 .. NumChn, n # 0, g[n - 1] \subseteq R[n - 1]
      PROVE  g[n] = {ScanEffect(y, n - 1) : y \in g[n - 1]}
  <2> HIDE DEF F, X
  <2>1. n - 1 \in 0 .. NumChn /\ n - 1 < NumChn
      BY <1>1, <1>8
  <2>2. g[n - 1] \in X /\ g[n - 1] \cap R[n - 1] = g[n - 1]
      BY <1>7, <1>8, <2>1
  <2>3. g[n] = F[<<n - 1, g[n - 1]>>]
      BY <1>7, <1>8 DEF Recurs
  <2> QED  BY <1>5, <2>1, <2>2, <2>3
<1>9. ASSUME NEW h, h[0] = {x},
             \A n \in 0 .. NumChn : n # 0 /\ h[n - 1] \subseteq R[n - 1] =>
                h[n] = {ScanEffect(y, n - 1) : y \in h[n - 1]}
      PROVE  \A n \in 0 .. NumChn : h[n] \subseteq R[n]
  <2> DEFINE S == {n \in 0 .. NumChn : h[n] \subseteq R[n]}
  <2>1. 0 \in S
      BY <1>1, <1>9
  <2>2. ASSUME NEW n \in 0 .. NumChn - 1, n \in S  PROVE n + 1 \in S
    <3>1. n \in 0 .. NumChn /\ n < NumChn /\ n + 1 \in 0 .. NumChn /\ n + 1 # 0
          /\ (n + 1) - 1 = n
        BY <1>1
    <3>2. h[n + 1] = {ScanEffect(y, n) : y \in h[n]}
        BY <1>9, <2>2, <3>1
    <3>3. h[n + 1] \subseteq R[n + 1]
        BY <1>2, <2>2, <3>1, <3>2
    <3> QED  BY <3>1, <3>3
  <2>3. 0 .. NumChn \subseteq S
    <3> HIDE DEF S
    <3> QED  BY <1>1, <2>1, <2>2, UpTo
  <2> QED  BY <2>3
<1>10. g = [n \in 0 .. NumChn |->
              IF n = 0 THEN {x} ELSE {ScanEffect(y, n - 1) : y \in g[n - 1]}]
  <2> HIDE DEF F, X
  <2>1. g[0] = {x}
      BY <1>1, <1>7 DEF Recurs
  <2>2. \A n \in 0 .. NumChn : g[n] \subseteq R[n]
      BY <1>8, <1>9, <2>1
  <2>3. ASSUME NEW n \in 0 .. NumChn, n # 0
        PROVE  g[n] = {ScanEffect(y, n - 1) : y \in g[n - 1]}
    <3>1. n - 1 \in 0 .. NumChn
        BY <1>1, <2>3
    <3> QED  BY <1>8, <2>2, <2>3, <3>1
  <2>4. g = [n \in 0 .. NumChn |-> g[n]]
      BY <1>7
  <2> QED  BY <2>1, <2>3, <2>4
<1> DEFINE a == After(x)
<1>11. a = [n \in 0 .. NumChn |->
              IF n = 0 THEN {x} ELSE {ScanEffect(y, n - 1) : y \in a[n - 1]}]
    BY <1>10 DEF After
<1> HIDE DEF a
<1>12. a[NumChn] \subseteq R[NumChn]
  <2>1. a[0] = {x}
      BY <1>1, <1>11
  <2>2. \A n \in 0 .. NumChn : n # 0 /\ a[n - 1] \subseteq R[n - 1] =>
           a[n] = {ScanEffect(y, n - 1) : y \in a[n - 1]}
      BY <1>11
  <2>3. \A n \in 0 .. NumChn : a[n] \subseteq R[n]
      BY <1>9, <2>1, <2>2, Zenon
  <2>4. NumChn \in 0 .. NumChn
      BY <1>1
  <2> QED  BY <2>3, <2>4
<1>13. OverChannels(ScanEffect, x) = a[NumChn]
    BY DEF OverChannels, After, a
<1> QED  BY <1>12, <1>13

\* Whatever the channels ask for, in whichever order.
LEMMA ChannelsKeep ==
    ASSUME SongOK, Reading(scan.ord, scan.row), NEW x \in RowRec
    PROVE  OverChannels(ScanEffect, x) \subseteq RowRec
<1> DEFINE R == [n \in 0 .. NumChn |-> RowRec]
<1>1. 0 \in 0 .. NumChn /\ NumChn \in 0 .. NumChn /\ \A n \in Chns : n \in 0 .. NumChn /\ n + 1 \in 0 .. NumChn
    BY NumChnAssumption DEF Chns
<1>2. \A n \in 0 .. NumChn : R[n] = RowRec
    OBVIOUS
<1> HIDE DEF R
<1>3. \A n \in Chns : \A y \in R[n] : ScanEffect(y, n) \in R[n + 1]
    BY <1>1, <1>2, ScanEffectKeeps
<1>4. x \in R[0]
    BY <1>1, <1>2
<1>5. OverChannels(ScanEffect, x) \subseteq R[NumChn]
    BY <1>3, <1>4, ChannelsFollow
<1> QED  BY <1>1, <1>2, <1>5

-----------------------------------------------------------------------------
(* The invariant                                                           *)

\* The counters of the rows of an order, m->scan_cnt.
Counters(o) == 0 .. (IF Valid(o) THEN Rows(o) - 1 ELSE 0)
CountersOf(o) == [Counters(o) -> 0 .. CountMod - 1]
Tables == {c \in [Orders -> UNION {CountersOf(o) : o \in Orders}] :
             \A o \in Orders : c[o] \in CountersOf(o)}

\* The local variables of scan_module.
ScanRec ==
    [pc : {"order", "row", "end", "done"}, ep : Orders, chain : Seqs,
     ord : {n \in Int : n >= -1}, row : Nat, flow : FlowRec, inside : BOOLEAN,
     orders : Nat, rows : Nat, time : Int, start : Int, valid : BOOLEAN,
     count : Tables]

\* A jump past the end of the list resets the count of orders, so that the
\* scan gives up at an order or at the end.
Shape(s) ==
    /\ s \in ScanRec
    /\ ActiveOK(s.flow)
    /\ s.ep = 0 <=> s.chain = 0
    /\ s.pc # "order" \/ s.orders # 0 => s.ord <= song.len
    /\ s.pc = "row" => Reading(s.ord, s.row) /\ s.row < Rows(s.ord)

ControlType == [Orders -> Seqs \cup {NO_SEQUENCE}]
EntryType   == [Seqs -> Orders]

\* The scan is about to claim its entry point.
Begins(s) == s.pc = "order" /\ s.ord = s.ep - 1 /\ s.orders = 0

\* Until the end every sequence has its entry point, the scan's own as soon as
\* it has taken a step; only the main sequence is there while it is scanned.
Claims(s, ct, en) ==
    /\ en[0] = 0 /\ en[s.chain] = s.ep
    /\ s.chain = 0 => \A o \in Orders : ct[o] \in {0, NO_SEQUENCE}
    /\ \A t \in Seqs : t < s.chain => ct[en[t]] = t
    /\ ct[s.ep] = s.chain \/ (ct[s.ep] = NO_SEQUENCE /\ Begins(s))

\* In the end every order has a sequence.
Settled(ct, en, n) ==
    /\ \A o \in Orders : ct[o] < n
    /\ \A s \in 1 .. n - 1 : ct[en[s]] = s

Good(s, ct, en, n) ==
    /\ Shape(s)
    /\ ct \in ControlType /\ en \in EntryType /\ n \in 0 .. MaxSequences
    /\ s.pc # "done" => Claims(s, ct, en)
    /\ s.pc = "done" => Settled(ct, en, n)

ScanInv ==
    /\ song \in Songs
    /\ Good(scan, control, entry, num_seq)

LEMMA SeqFacts ==
    /\ 0 \in Seqs /\ NO_SEQUENCE \notin Seqs /\ Seqs \subseteq Nat
    /\ MaxSequences \in Nat \ {0} /\ MaxSequences <= NO_SEQUENCE /\ NO_SEQUENCE \in Nat
BY LimitsAssumption DEF Seqs, NO_SEQUENCE

LEMMA OrderFacts ==
    ASSUME SongOK
    PROVE  0 \in Orders /\ Orders \subseteq Nat
BY SongFields DEF Orders

\* A finite set of numbers has a least and a greatest one.
LEMMA LeastFound ==
    ASSUME NEW S, S \subseteq Nat, S # {}
    PROVE  Least(S) \in S /\ \A m \in S : Least(S) <= m
BY LeastNumber DEF Least

LEMMA LargestFound ==
    ASSUME NEW k \in Nat, NEW S, S \subseteq 0 .. k, S # {}
    PROVE  Largest(S) \in S /\ \A m \in S : Largest(S) >= m
<1> DEFINE D == {d \in 0 .. k : k - d \in S}
<1>1. D \subseteq Nat /\ D # {}
  <2>1. PICK m \in S : TRUE
      OBVIOUS
  <2>2. m \in 0 .. k /\ k - m \in 0 .. k /\ k - (k - m) = m
      BY <2>1
  <2>3. k - m \in D
    <3>1. k - (k - m) \in S
        BY <2>1, <2>2
    <3> QED  BY <2>2, <3>1
  <2>4. D \subseteq Nat
      OBVIOUS
  <2> HIDE DEF D
  <2> QED  BY <2>3, <2>4
<1>2. PICK d \in D : \A e \in D : d <= e
  <2> HIDE DEF D
  <2> QED  BY <1>1, LeastNumber
<1>3. ASSUME NEW m \in S  PROVE k - d >= m
  <2>1. m \in 0 .. k /\ k - m \in 0 .. k /\ k - (k - m) = m
      OBVIOUS
  <2>2. k - m \in D
      BY <2>1
  <2>3. d <= k - m /\ d \in 0 .. k
      BY <1>2, <2>2
  <2> QED  BY <2>1, <2>3
<1>4. \E n \in S : \A m \in S : n >= m
    BY <1>2, <1>3
<1> QED  BY <1>4 DEF Largest

\* The restart position or the entry point.
LEMMA UpcomingFields ==
    ASSUME SongOK, scan \in ScanRec
    PROVE  /\ Upcoming \in Orders
           /\ Begins(scan) => Upcoming = scan.ep /\ ~Wraps
<1>1. /\ scan.ep \in Orders /\ scan.ord \in Int /\ scan.ord >= -1
      /\ song.len \in Nat /\ song.rst \in Nat
    BY SongFields DEF ScanRec
<1>2. RestartOrder(scan.chain, scan.ep) \in Orders
    BY <1>1 DEF RestartOrder, Orders
<1> QED  BY <1>1, <1>2 DEF Upcoming, Wraps, Begins, Orders

LEMMA ResetFlowOK == ResetFlow \in FlowRec /\ ActiveOK(ResetFlow)
<1>1. ResetFlow \in FlowRec
    BY DEF ResetFlow, FlowRec, LoopRec, NONE
<1>2. ResetFlow.loop_active = 0 /\ ResetFlow.loop_count = 0
      /\ {c \in Chns : ResetFlow.loop[c].count # 0} = {}
    BY DEF ResetFlow
<1>3. ActiveLoops(ResetFlow) = 0
    BY <1>2, FS_EmptySet DEF ActiveLoops
<1> QED  BY <1>1, <1>2, <1>3 DEF ActiveOK

LEMMA ForgetLoopsOK ==
    ASSUME NEW f \in FlowRec
    PROVE  ForgetLoops(f) \in FlowRec /\ (ActiveOK(f) => ActiveOK(ForgetLoops(f)))
<1>1. CASE Has("PATTERN_RESET")
  <2> DEFINE l == [c \in Chns |-> [start |-> 0, count |-> 0]]
             g == ForgetLoops(f)
  <2>1. g = [f EXCEPT !.loop_start = NONE, !.loop_count = 0, !.loop = l]
      BY <1>1 DEF ForgetLoops
  <2>2. l \in [Chns -> LoopRec] /\ NONE \in Int
      BY DEF LoopRec, NONE
  <2> HIDE DEF l, g
  <2>3. g \in FlowRec
      BY <2>1, <2>2 DEF FlowRec
  <2> QED  BY <1>1, <2>3 DEF ActiveOK, g
<1>2. CASE ~Has("PATTERN_RESET")
    BY <1>2 DEF ForgetLoops
<1> QED  BY <1>1, <1>2

LEMMA BeginScanShape ==
    ASSUME SongOK, NEW ep \in Orders, NEW chain \in Seqs, ep = 0 <=> chain = 0
    PROVE  LET b == BeginScan(ep, chain)
           IN  Shape(b) /\ Begins(b) /\ b.ep = ep /\ b.chain = chain /\ b.pc = "order"
<1> DEFINE b == BeginScan(ep, chain)
           count == [o \in Orders |->
                       [r \in 0 .. (IF Valid(o) THEN Rows(o) - 1 ELSE 0) |-> 0]]
<1>1. count \in Tables
  <2>1. 0 \in 0 .. CountMod - 1
      BY LimitsAssumption
  <2>2. \A o \in Orders : count[o] \in CountersOf(o)
      BY <2>1 DEF CountersOf, Counters
  <2> QED  BY <2>2 DEF Tables
<1>2. ep - 1 \in {n \in Int : n >= -1} /\ ep \in Nat
    BY OrderFacts
<1> HIDE DEF count
<1>3. b = [pc |-> "order", ep |-> ep, chain |-> chain, ord |-> ep - 1, row |-> 0,
           flow |-> ResetFlow, inside |-> FALSE, orders |-> 0, rows |-> 0,
           time |-> 0, start |-> 0, valid |-> FALSE, count |-> count]
    BY DEF BeginScan, count
<1> HIDE DEF b
<1>4. b \in ScanRec
    BY <1>1, <1>2, <1>3, ResetFlowOK DEF ScanRec
<1>5. /\ b.ep = ep /\ b.chain = chain /\ b.ord = ep - 1 /\ b.pc = "order"
      /\ b.orders = 0 /\ b.flow = ResetFlow
    BY <1>3
<1> QED  BY <1>4, <1>5, ResetFlowOK DEF Shape, Begins, b

-----------------------------------------------------------------------------
(* The steps from order to order                                           *)

\* What the order's owner and the entry points keep when the scan's first step
\* takes the entry point.
LEMMA ClaimKeeps ==
    ASSUME SongOK, Good(scan, control, entry, num_seq), scan.pc # "done",
           NEW o \in Orders, NEW ct, NEW s,
           s.ep = scan.ep, s.chain = scan.chain,
           Begins(scan) => o = scan.ep,
           \/ ~Taken(o) /\ ct = [control EXCEPT ![o] = scan.chain]
           \/ ct = control /\ (Taken(o) \/ ~Begins(scan))
    PROVE  /\ ct \in ControlType /\ Claims(s, ct, entry)
           /\ \A p \in Orders : control[p] # NO_SEQUENCE => ct[p] = control[p]
<1>1. /\ scan \in ScanRec /\ control \in ControlType /\ entry \in EntryType
      /\ Claims(scan, control, entry) /\ (scan.ep = 0 <=> scan.chain = 0)
    BY DEF Good, Shape
<1>2. scan.ep \in Orders /\ scan.chain \in Seqs
    BY <1>1 DEF ScanRec
<1>3. CASE ct = control /\ (Taken(o) \/ ~Begins(scan))
  <2>1. control[scan.ep] = scan.chain
    <3>1. CASE Begins(scan)
      <4>1. Taken(scan.ep)
          BY <1>3, <3>1, SeqFacts DEF Taken, ControlType
      <4> QED  BY <1>1, <4>1 DEF Claims, Taken
    <3>2. CASE ~Begins(scan)
        BY <1>1, <3>2 DEF Claims
    <3> QED  BY <3>1, <3>2
  <2> QED  BY <1>1, <1>3, <2>1 DEF Claims
<1>4. CASE ~Taken(o) /\ ct = [control EXCEPT ![o] = scan.chain]
  <2>1. ct \in ControlType
      BY <1>1, <1>2, <1>4 DEF ControlType
  <2>2. ct[o] = scan.chain /\ \A p \in Orders \ {o} : ct[p] = control[p]
      BY <1>1, <1>4 DEF ControlType
  <2>3. ct[scan.ep] = scan.chain
      BY <1>1, <1>2, <2>2 DEF Claims
  <2>4. ASSUME NEW p \in Orders, control[p] # NO_SEQUENCE  PROVE ct[p] = control[p]
    <3>1. CASE p = o
      <4>1. scan.ep = 0
          BY <1>4, <2>4, <3>1 DEF Taken
      <4>2. scan.chain = 0 /\ control[p] = 0
          BY <1>1, <2>4, <4>1 DEF Claims
      <4> QED  BY <2>2, <3>1, <4>2
    <3>2. CASE p # o
        BY <2>2, <3>2
    <3> QED  BY <3>1, <3>2
  <2>5. ASSUME NEW t \in Seqs, t < scan.chain  PROVE ct[entry[t]] = t
    <3>1. control[entry[t]] = t /\ t # NO_SEQUENCE /\ entry[t] \in Orders
        BY <1>1, <2>5, SeqFacts DEF Claims, EntryType
    <3> QED  BY <2>4, <3>1
  <2>6. scan.chain = 0 => \A p \in Orders : ct[p] \in {0, NO_SEQUENCE}
      BY <1>1, <2>2 DEF Claims
  <2> QED  BY <1>1, <2>1, <2>3, <2>4, <2>5, <2>6 DEF Claims
<1> QED  BY <1>3, <1>4

\* The scan stops at an order.
LEMMA StopAtShape ==
    ASSUME SongOK, Shape(scan), NEW o \in {n \in Int : n >= -1}, o <= song.len,
           NEW row \in Nat
    PROVE  LET s == StopAt(o, row)
           IN  Shape(s) /\ s.ep = scan.ep /\ s.chain = scan.chain /\ s.pc = "end"
<1> DEFINE s == StopAt(o, row)
<1>1. s = [scan EXCEPT !.pc = "end", !.ord = o, !.row = row]
    BY DEF StopAt
<1> HIDE DEF s
<1>2. scan \in ScanRec
    BY DEF Shape
<1>3. /\ s \in ScanRec /\ s.pc = "end" /\ s.ord = o /\ s.ep = scan.ep
      /\ s.chain = scan.chain /\ s.flow = scan.flow
    BY <1>1, <1>2 DEF ScanRec
<1> QED  BY <1>3 DEF Shape, s

LEMMA JumplineFields ==
    ASSUME SongOK, Shape(scan)
    PROVE  /\ scan.flow \in FlowRec /\ scan.flow.jumpline \in Nat
           /\ \A o \in Orders : Valid(o) => EntryRow(o) \in 0 .. Rows(o) - 1
<1>1. scan.flow \in FlowRec
    BY DEF Shape, ScanRec
<1>2. scan.flow.jumpline \in Nat
    BY <1>1 DEF FlowRec
<1> QED  BY <1>1, <1>2, SongFields DEF EntryRow

\* What the next step of the whole invariant needs.
Keeps(s, ct) ==
    /\ Good(s, ct, entry, num_seq)
    /\ \A p \in Orders : control[p] # NO_SEQUENCE => ct[p] = control[p]

LEMMA OrderStepKeeps ==
    ASSUME SongOK, Good(scan, control, entry, num_seq), scan.pc = "order",
           NEW ct, NEW s, Shape(s), s.ep = scan.ep, s.chain = scan.chain, s.pc # "done",
           \/ ~Taken(Upcoming) /\ ct = [control EXCEPT ![Upcoming] = scan.chain]
           \/ ct = control /\ (Taken(Upcoming) \/ ~Begins(scan))
    PROVE  Keeps(s, ct)
<1>1. scan \in ScanRec /\ entry \in EntryType /\ num_seq \in 0 .. MaxSequences
    BY DEF Good, Shape
<1>2. Upcoming \in Orders /\ (Begins(scan) => Upcoming = scan.ep)
    BY <1>1, UpcomingFields
<1>3. /\ ct \in ControlType /\ Claims(s, ct, entry)
      /\ \A p \in Orders : control[p] # NO_SEQUENCE => ct[p] = control[p]
  <2> HIDE DEF Upcoming
  <2>1. scan.pc # "done"
      OBVIOUS
  <2> QED  BY <1>2, <2>1, ClaimKeeps
<1> QED  BY <1>1, <1>3 DEF Keeps, Good

LEMMA ScanGivesUpKeeps ==
    ASSUME SongOK, Good(scan, control, entry, num_seq), ScanGivesUp
    PROVE  Keeps(scan', control')
<1>1. scan.pc = "order" /\ scan' = StopAt(scan.ord, scan.flow.jumpline) /\ control' = control
    BY DEF ScanGivesUp
<1>2. Shape(scan) /\ scan \in ScanRec
    BY DEF Good, Shape
<1>3. scan.orders # 0 /\ scan.ord <= song.len
  <2>1. scan.orders > OrderLimit /\ scan.orders \in Nat
      BY <1>2 DEF ScanGivesUp, ScanRec
  <2> QED  BY <1>2, <2>1, LimitsAssumption DEF Shape
<1>4. scan.ord \in {n \in Int : n >= -1} /\ scan.flow.jumpline \in Nat
    BY <1>2, JumplineFields DEF ScanRec
<1> DEFINE s == StopAt(scan.ord, scan.flow.jumpline)
<1>5. Shape(s) /\ s.ep = scan.ep /\ s.chain = scan.chain /\ s.pc = "end"
    BY <1>2, <1>3, <1>4, StopAtShape
<1> HIDE DEF s
<1>6. ~Begins(scan)
    BY <1>3 DEF Begins
<1>7. Keeps(s, control)
    BY <1>1, <1>5, <1>6, OrderStepKeeps
<1> QED  BY <1>1, <1>7 DEF s

LEMMA StopAtUpcoming ==
    ASSUME SongOK, Shape(scan), NEW row \in Nat
    PROVE  LET s == StopAt(Upcoming, row)
           IN  Shape(s) /\ s.ep = scan.ep /\ s.chain = scan.chain /\ s.pc = "end"
<1>1. Upcoming \in Orders
    BY UpcomingFields DEF Shape
<1>2. Upcoming \in {n \in Int : n >= -1} /\ Upcoming <= song.len
    BY <1>1, SongFields DEF Orders
<1> HIDE DEF Upcoming
<1> QED  BY <1>2, StopAtShape

LEMMA ScanWrapsToEndKeeps ==
    ASSUME SongOK, Good(scan, control, entry, num_seq), ScanWrapsToEnd
    PROVE  Keeps(scan', control')
<1>1. /\ scan.pc = "order" /\ scan' = StopAt(Upcoming, scan.flow.jumpline)
      /\ control' = control /\ Wraps
    BY DEF ScanWrapsToEnd
<1>2. Shape(scan) /\ scan \in ScanRec
    BY DEF Good, Shape
<1> DEFINE s == StopAt(Upcoming, scan.flow.jumpline)
<1>3. Shape(s) /\ s.ep = scan.ep /\ s.chain = scan.chain /\ s.pc = "end"
    BY <1>2, JumplineFields, StopAtUpcoming
<1> HIDE DEF s
<1>4. ~Begins(scan)
    BY <1>1, <1>2, UpcomingFields
<1>5. Keeps(s, control)
    BY <1>1, <1>3, <1>4, OrderStepKeeps
<1> QED  BY <1>1, <1>5 DEF s

LEMMA ScanMeetsTakenKeeps ==
    ASSUME SongOK, Good(scan, control, entry, num_seq), ScanMeetsTaken
    PROVE  Keeps(scan', control')
<1>1. /\ scan.pc = "order" /\ scan' = StopAt(Upcoming, scan.flow.jumpline)
      /\ control' = control /\ Taken(Upcoming)
    BY DEF ScanMeetsTaken
<1>2. Shape(scan)
    BY DEF Good
<1> DEFINE s == StopAt(Upcoming, scan.flow.jumpline)
<1>3. Shape(s) /\ s.ep = scan.ep /\ s.chain = scan.chain /\ s.pc = "end"
    BY <1>2, JumplineFields, StopAtUpcoming
<1> HIDE DEF s
<1>4. Keeps(s, control)
    BY <1>1, <1>3, OrderStepKeeps
<1> QED  BY <1>1, <1>4 DEF s

LEMMA ScanReturnsKeeps ==
    ASSUME SongOK, Good(scan, control, entry, num_seq), ScanReturns
    PROVE  Keeps(scan', control')
<1>1. /\ scan.pc = "order" /\ scan' = StopAt(Upcoming, EntryRow(Upcoming))
      /\ control' = [control EXCEPT ![Upcoming] = scan.chain]
      /\ ~Taken(Upcoming) /\ Valid(Upcoming)
    BY DEF ScanReturns
<1>2. Shape(scan) /\ scan \in ScanRec
    BY DEF Good, Shape
<1> DEFINE s == StopAt(Upcoming, EntryRow(Upcoming))
<1>3. EntryRow(Upcoming) \in Nat
  <2>1. Upcoming \in Orders
      BY <1>2, UpcomingFields
  <2> QED  BY <1>1, <1>2, <2>1, JumplineFields
<1>4. Shape(s) /\ s.ep = scan.ep /\ s.chain = scan.chain /\ s.pc = "end"
    BY <1>2, <1>3, StopAtUpcoming
<1> HIDE DEF s
<1>5. Keeps(s, control')
    BY <1>1, <1>4, OrderStepKeeps
<1> QED  BY <1>1, <1>5 DEF s

LEMMA ScanSkipsKeeps ==
    ASSUME SongOK, Good(scan, control, entry, num_seq), ScanSkips
    PROVE  Keeps(scan', control')
<1> DEFINE o == IF EndMarked(Upcoming) THEN song.len ELSE Upcoming
           s == [scan EXCEPT !.orders = scan.orders + 1, !.ord = o]
<1>1. /\ scan.pc = "order" /\ scan' = s
      /\ control' = IF Taken(Upcoming) THEN control
                    ELSE [control EXCEPT ![Upcoming] = scan.chain]
    BY DEF ScanSkips
<1>2. Shape(scan) /\ scan \in ScanRec
    BY DEF Good, Shape
<1>3. o \in {n \in Int : n >= -1} /\ o <= song.len
  <2>1. Upcoming \in Orders
      BY <1>2, UpcomingFields
  <2> QED  BY <2>1, SongFields DEF Orders
<1>4. scan.orders + 1 \in Nat
    BY <1>2 DEF ScanRec
<1> HIDE DEF o
<1>5. /\ s \in ScanRec /\ s.ord = o /\ s.ep = scan.ep /\ s.chain = scan.chain
      /\ s.flow = scan.flow /\ s.pc = scan.pc
    BY <1>2, <1>3, <1>4 DEF ScanRec
<1> HIDE DEF s
<1>6. Shape(s) /\ s.pc # "done"
    BY <1>1, <1>2, <1>3, <1>5 DEF Shape
<1>7. Keeps(s, control')
    BY <1>1, <1>5, <1>6, OrderStepKeeps
<1> QED  BY <1>1, <1>7

LEMMA ScanEntersKeeps ==
    ASSUME SongOK, Good(scan, control, entry, num_seq), ScanEnters
    PROVE  Keeps(scan', control')
<1> DEFINE o == Upcoming
           row == EntryRow(o)
           entered == IF info[o].time < 0 THEN [time |-> scan.time, row |-> row] ELSE info[o]
           start == IF entered.row = 0 /\ o # 0 /\ o = scan.ep THEN scan.time ELSE scan.start
           forgotten == ForgetLoops(scan.flow)
           flow == [forgotten EXCEPT !.jumpline = 0]
           s == [scan EXCEPT !.pc = "row", !.orders = scan.orders + 1, !.ord = o,
                             !.row = row, !.flow = flow, !.start = start]
<1>1. /\ scan.pc = "order" /\ scan' = s /\ Valid(o) /\ ~Taken(o)
      /\ control' = [control EXCEPT ![o] = scan.chain]
    BY DEF ScanEnters
<1>2. Shape(scan) /\ scan \in ScanRec
    BY DEF Good, Shape
<1>3. o \in Orders
    BY <1>2, UpcomingFields
<1> HIDE DEF o
<1>4. /\ o \in {n \in Int : n >= -1} /\ o <= song.len
      /\ row \in Nat /\ row \in 0 .. Rows(o) - 1 /\ Rows(o) \in Nat
    BY <1>1, <1>2, <1>3, SongFields, JumplineFields DEF Orders
<1>5. start \in Int /\ scan.orders + 1 \in Nat
    BY <1>2 DEF ScanRec
<1>6. flow \in FlowRec /\ ActiveOK(flow)
  <2>1. forgotten \in FlowRec /\ ActiveOK(forgotten)
      BY <1>2, JumplineFields, ForgetLoopsOK DEF Shape
  <2> HIDE DEF forgotten
  <2>2. flow \in FlowRec /\ SameLoops(forgotten, flow)
      BY <2>1 DEF FlowRec, SameLoops
  <2> QED  BY <2>1, <2>2, SameLoopsActive
<1> HIDE DEF start, flow, row
<1>7. /\ s \in ScanRec /\ s.ord = o /\ s.row = row /\ s.ep = scan.ep
      /\ s.chain = scan.chain /\ s.flow = flow /\ s.pc = "row"
    BY <1>2, <1>4, <1>5, <1>6 DEF ScanRec
<1> HIDE DEF s
<1>8. Shape(s)
    BY <1>1, <1>2, <1>3, <1>4, <1>6, <1>7 DEF Shape, Reading
<1>9. Keeps(s, control')
    BY <1>1, <1>7, <1>8, OrderStepKeeps DEF o
<1> QED  BY <1>1, <1>9

-----------------------------------------------------------------------------
(* The steps from row to row                                               *)

LEMMA RowStepKeeps ==
    ASSUME SongOK, Good(scan, control, entry, num_seq), scan.pc = "row",
           NEW s, Shape(s), s.ep = scan.ep, s.chain = scan.chain, s.pc # "done"
    PROVE  Keeps(s, control)
<1>1. Claims(scan, control, entry) /\ ~Begins(scan)
    BY DEF Good, Begins
<1>2. Claims(s, control, entry)
    BY <1>1 DEF Claims
<1> QED  BY <1>2 DEF Keeps, Good

\* One row's counter changes.
LEMMA CountKeeps ==
    ASSUME SongOK, Shape(scan), scan.pc = "row", NEW n \in 0 .. CountMod - 1
    PROVE  /\ [scan.count EXCEPT ![scan.ord][scan.row] = n] \in Tables
           /\ scan.count[scan.ord][scan.row] \in 0 .. CountMod - 1
<1> DEFINE o == scan.ord
           r == scan.row
           t == [scan.count EXCEPT ![o][r] = n]
<1>1. scan.count \in Tables /\ o \in Orders /\ Valid(o) /\ r \in Nat /\ r < Rows(o)
    BY DEF Shape, ScanRec, Reading
<1>2. Rows(o) \in Nat
    BY <1>1, SongFields
<1>3. r \in Counters(o)
    BY <1>1, <1>2 DEF Counters
<1> HIDE DEF o, r
<1>4. scan.count[o] \in CountersOf(o)
    BY <1>1 DEF Tables
<1>5. [scan.count[o] EXCEPT ![r] = n] \in CountersOf(o)
    BY <1>3, <1>4 DEF CountersOf
<1>6. t \in Tables
  <2>1. DOMAIN t = Orders /\ t = [p \in Orders |-> t[p]]
      BY <1>1 DEF Tables
  <2>2. t[o] = [scan.count[o] EXCEPT ![r] = n] /\ \A p \in Orders \ {o} : t[p] = scan.count[p]
      BY <1>1 DEF Tables
  <2> HIDE DEF t
  <2>3. \A p \in Orders : t[p] \in CountersOf(p)
      BY <1>1, <1>5, <2>2 DEF Tables
  <2> QED  BY <2>1, <2>3 DEF Tables
<1>7. scan.count[o][r] \in 0 .. CountMod - 1
    BY <1>3, <1>4 DEF CountersOf
<1> QED  BY <1>6, <1>7 DEF o, r

LEMMA ScanFindsEndKeeps ==
    ASSUME SongOK, Good(scan, control, entry, num_seq), ScanFindsEnd
    PROVE  Keeps(scan', control')
<1> DEFINE t == IF scan.rows > RowLimit THEN scan.time ELSE scan.time - 1
           s == [scan EXCEPT !.pc = "end", !.time = t]
<1>1. scan.pc = "row" /\ scan' = s /\ control' = control
    BY DEF ScanFindsEnd
<1>2. Shape(scan) /\ scan \in ScanRec
    BY DEF Good, Shape
<1>3. t \in Int
    BY <1>2 DEF ScanRec
<1> HIDE DEF t
<1>4. /\ s \in ScanRec /\ s.ord = scan.ord /\ s.ep = scan.ep
      /\ s.chain = scan.chain /\ s.flow = scan.flow /\ s.pc = "end"
    BY <1>2, <1>3 DEF ScanRec
<1> HIDE DEF s
<1>5. Shape(s)
    BY <1>1, <1>2, <1>4 DEF Shape
<1>6. Keeps(s, control)
    BY <1>1, <1>4, <1>5, RowStepKeeps
<1> QED  BY <1>1, <1>6

LEMMA ScanOverflowsKeeps ==
    ASSUME SongOK, Good(scan, control, entry, num_seq), ScanOverflows
    PROVE  Keeps(scan', control')
<1> DEFINE c == [scan.count EXCEPT ![scan.ord][scan.row] = 0]
           s == [scan EXCEPT !.pc = "end", !.orders = 0, !.valid = TRUE, !.count = c]
<1>1. scan.pc = "row" /\ scan' = s /\ control' = control
    BY DEF ScanOverflows
<1>2. Shape(scan) /\ scan \in ScanRec
    BY DEF Good, Shape
<1>3. c \in Tables
  <2>1. 0 \in 0 .. CountMod - 1
      BY LimitsAssumption
  <2> QED  BY <1>1, <1>2, <2>1, CountKeeps
<1> HIDE DEF c
<1>4. /\ s \in ScanRec /\ s.ord = scan.ord /\ s.ep = scan.ep
      /\ s.chain = scan.chain /\ s.flow = scan.flow /\ s.pc = "end"
    BY <1>2, <1>3 DEF ScanRec
<1> HIDE DEF s
<1>5. Shape(s)
    BY <1>1, <1>2, <1>4 DEF Shape
<1>6. Keeps(s, control)
    BY <1>1, <1>4, <1>5, RowStepKeeps
<1> QED  BY <1>1, <1>6

\* What the channels make of the row.
LEMMA OutcomesShape ==
    ASSUME SongOK, Shape(scan), scan.pc = "row",
           scan.count[scan.ord][scan.row] < CountMod - 1
    PROVE  RowOutcomes \subseteq RowRec
<1> DEFINE n == scan.count[scan.ord][scan.row] + 1
           x == [flow |-> scan.flow, delay |-> 0, inside |-> scan.inside,
                 count |-> n, time |-> scan.time]
<1>1. n \in 0 .. CountMod - 1
  <2>1. 0 \in 0 .. CountMod - 1 /\ CountMod \in Nat
      BY LimitsAssumption
  <2>2. scan.count[scan.ord][scan.row] \in 0 .. CountMod - 1
      BY <2>1, CountKeeps
  <2> QED  BY <2>1, <2>2
<1>2. /\ scan.flow \in FlowRec /\ ActiveOK(scan.flow) /\ scan.inside \in BOOLEAN
      /\ scan.time \in Int /\ Reading(scan.ord, scan.row)
    BY DEF Shape, ScanRec
<1>3. RowOutcomes = OverChannels(ScanEffect, x)
    BY DEF RowOutcomes
<1> HIDE DEF n
<1>4. x \in RowRec
    BY <1>1, <1>2 DEF RowRec, RowShape
<1> HIDE DEF x
<1>5. OverChannels(ScanEffect, x) \subseteq RowRec
    BY <1>2, <1>4, ChannelsKeep
<1> QED  BY <1>3, <1>5

LEMMA LeavesLoopsAlone ==
    ASSUME NEW f \in FlowRec, ActiveOK(f), NEW b \in BOOLEAN, NEW i \in Int, NEW j \in Int,
           NEW l \in Nat
    PROVE  /\ [f EXCEPT !.pbreak = b, !.loop_param = i, !.loop_dest = j] \in FlowRec
           /\ ActiveOK([f EXCEPT !.pbreak = b, !.loop_param = i, !.loop_dest = j])
           /\ [f EXCEPT !.jump = i, !.jumpline = l] \in FlowRec
           /\ ActiveOK([f EXCEPT !.jump = i, !.jumpline = l])
<1>1. ASSUME NEW g, g = [f EXCEPT !.pbreak = b, !.loop_param = i, !.loop_dest = j]
      PROVE  g \in FlowRec /\ ActiveOK(g)
  <2>1. g \in FlowRec /\ SameLoops(f, g)
      BY <1>1 DEF FlowRec, SameLoops
  <2> QED  BY <2>1, SameLoopsActive
<1>2. ASSUME NEW g, g = [f EXCEPT !.jump = i, !.jumpline = l]
      PROVE  g \in FlowRec /\ ActiveOK(g)
  <2>1. g \in FlowRec /\ SameLoops(f, g)
      BY <1>2 DEF FlowRec, SameLoops
  <2> QED  BY <2>1, SameLoopsActive
<1> QED  BY <1>1, <1>2

\* The row's own part of the flow record is over.
LEMMA AfterRowShape ==
    ASSUME SongOK, Shape(scan), scan.pc = "row", NEW x \in RowRec
    PROVE  LET s == AfterRow(x)
           IN  /\ s \in ScanRec /\ ActiveOK(s.flow) /\ s.ep = scan.ep
               /\ s.chain = scan.chain /\ s.ord = scan.ord /\ s.pc = "row"
               /\ s.orders = 0
<1>0. /\ x.flow \in FlowRec /\ ActiveOK(x.flow) /\ x.delay \in Nat /\ x.inside \in BOOLEAN
      /\ x.count \in 0 .. CountMod - 1 /\ x.time \in Int
    BY DEF RowRec, RowShape
<1> DEFINE c == [scan.count EXCEPT ![scan.ord][scan.row] = x.count]
           t == IF x.time + x.delay < TimeCap THEN x.time + x.delay + 1 ELSE TimeCap
           n == scan.rows + 1
           r == IF x.flow.loop_dest >= 0 THEN x.flow.loop_dest ELSE scan.row + 1
           f == [x.flow EXCEPT !.pbreak = FALSE, !.loop_param = NONE, !.loop_dest = NONE]
           s == AfterRow(x)
<1>1. s = [scan EXCEPT !.orders = 0, !.valid = TRUE, !.inside = x.inside, !.count = c,
                       !.time = t, !.rows = n, !.row = r, !.flow = f]
    BY DEF AfterRow
<1>2. scan \in ScanRec
    BY DEF Shape
<1>3. c \in Tables
    BY <1>0, CountKeeps
<1>4. t \in Int /\ n \in Nat /\ r \in Nat
  <2>1. scan.rows \in Nat /\ scan.row \in Nat /\ x.flow.loop_dest \in Int
      BY <1>0, <1>2 DEF ScanRec, FlowRec
  <2> QED  BY <1>0, <2>1, LimitsAssumption
<1>5. f \in FlowRec /\ ActiveOK(f)
  <2>1. NONE \in Int /\ FALSE \in BOOLEAN /\ 0 \in Nat
      BY DEF NONE
  <2> QED  BY <1>0, <2>1, LeavesLoopsAlone
<1> HIDE DEF c, t, n, r, f, s
<1>6. /\ s \in ScanRec /\ s.flow = f /\ s.ep = scan.ep
      /\ s.chain = scan.chain /\ s.ord = scan.ord /\ s.pc = scan.pc
      /\ s.orders = 0
    BY <1>0, <1>1, <1>2, <1>3, <1>4, <1>5 DEF ScanRec
<1> QED  BY <1>5, <1>6 DEF s

LEMMA ScanRowKeeps ==
    ASSUME SongOK, Good(scan, control, entry, num_seq), ScanRow
    PROVE  Keeps(scan', control')
<1>1. PICK x \in RowOutcomes :
         /\ scan.pc = "row" /\ control' = control
         /\ scan' = IF x.flow.pbreak \/ RowIsOver(AfterRow(x))
                    THEN LeaveOrder(AfterRow(x), x.delay) ELSE AfterRow(x)
    BY DEF ScanRow
<1>2. Shape(scan) /\ scan \in ScanRec
    BY DEF Good, Shape
<1>3. x \in RowRec
  <2>1. scan.count[scan.ord][scan.row] < CountMod - 1
      BY DEF ScanRow
  <2> QED  BY <1>1, <1>2, <2>1, OutcomesShape
<1> DEFINE s == AfterRow(x)
<1>4. /\ s \in ScanRec /\ ActiveOK(s.flow) /\ s.ep = scan.ep
      /\ s.chain = scan.chain /\ s.ord = scan.ord /\ s.pc = "row"
      /\ s.orders = 0
    BY <1>1, <1>2, <1>3, AfterRowShape
<1> HIDE DEF s
<1>5. ASSUME scan' = s, ~RowIsOver(s)  PROVE Keeps(scan', control')
  <2>1. Reading(scan.ord, scan.row) /\ Rows(scan.ord) \in Nat
      BY <1>1, <1>2, SongFields DEF Shape, Reading
  <2>2. s.row \in Nat /\ s.row < Rows(s.ord)
      BY <1>4, <1>5, <2>1 DEF ScanRec, RowIsOver
  <2>3. Shape(s)
      BY <1>1, <1>2, <1>4, <2>1, <2>2 DEF Shape, Reading
  <2>4. Keeps(s, control)
      BY <1>1, <1>4, <2>3, RowStepKeeps
  <2> QED  BY <1>1, <1>5, <2>4
<1>6. ASSUME scan' = LeaveOrder(s, x.delay)  PROVE Keeps(scan', control')
  <2> DEFINE o == OrderLeft(s)
             l == IF s.flow.jumpline # 0 /\ x.delay > 0 THEN s.flow.jumpline + 1
                  ELSE s.flow.jumpline
             f == [s.flow EXCEPT !.jump = NONE, !.jumpline = l]
             e == LeaveOrder(s, x.delay)
  <2>1. e = [s EXCEPT !.pc = "order", !.rows = 0, !.ord = o, !.flow = f]
      BY DEF LeaveOrder
  <2>2. s.flow \in FlowRec /\ s.flow.jump \in Int /\ s.flow.jumpline \in Nat /\ s.ord \in Int
        /\ s.ord >= -1
      BY <1>4 DEF ScanRec, FlowRec
  <2>3. o \in {n \in Int : n >= -1}
      BY <2>2 DEF OrderLeft
  <2>4. l \in Nat
      BY <2>2
  <2> HIDE DEF l, o
  <2>5. f \in FlowRec /\ ActiveOK(f)
    <3>1. NONE \in Int /\ FALSE \in BOOLEAN
        BY DEF NONE
    <3> QED  BY <1>4, <2>2, <2>4, <3>1, LeavesLoopsAlone
  <2> HIDE DEF f, e
  <2>6. /\ e \in ScanRec /\ e.flow = f /\ e.ep = s.ep /\ e.chain = s.chain
        /\ e.pc = "order" /\ e.orders = 0
      BY <1>4, <2>1, <2>3, <2>5 DEF ScanRec
  <2>7. Shape(e)
      BY <1>2, <1>4, <2>5, <2>6 DEF Shape
  <2>8. Keeps(e, control)
      BY <1>1, <1>4, <2>6, <2>7, RowStepKeeps
  <2> QED  BY <1>1, <1>6, <2>8 DEF e
<1> QED  BY <1>1, <1>5, <1>6 DEF s

-----------------------------------------------------------------------------
(* The step from sequence to sequence                                      *)

\* A sequence that counts keeps its orders; every order has one.
LEMMA CorrectedSettles ==
    ASSUME SongOK, control \in ControlType, NEW n \in 1 .. MaxSequences
    PROVE  /\ Corrected(n) \in ControlType
           /\ \A o \in Orders : Corrected(n)[o] < n
           /\ \A o \in Orders : control[o] < n => Corrected(n)[o] = control[o]
<1>1. ASSUME NEW o \in Orders
      PROVE  LET c == Corrected(n)[o]
             IN  c \in Seqs /\ c < n /\ (control[o] < n => c = control[o])
  <2> DEFINE known == {k \in 0 .. o : control[k] < n}
             c == Corrected(n)[o]
  <2>1. c = IF known = {} THEN 0 ELSE control[Largest(known)]
      BY DEF Corrected
  <2>2. o \in Nat /\ 0 .. o \subseteq Orders
      BY SongFields DEF Orders
  <2>3. \A k \in 0 .. o : control[k] \in Nat
      BY <2>2, SeqFacts DEF ControlType
  <2>4. known \subseteq 0 .. o
      OBVIOUS
  <2>5. CASE known = {}
    <3>1. c = 0 /\ ~(control[o] < n)
      <4>1. o \in 0 .. o
          BY <2>2
      <4> QED  BY <2>1, <2>5, <4>1
    <3> QED  BY <3>1, SeqFacts
  <2>6. CASE known # {}
    <3> DEFINE k == Largest(known)
    <3>1. k \in known /\ \A m \in known : k >= m
      <4> HIDE DEF known
      <4> QED  BY <2>2, <2>4, <2>6, LargestFound
    <3>2. c = control[k]
        BY <2>1, <2>6
    <3> HIDE DEF k
    <3>3. control[k] < n /\ k \in 0 .. o
        BY <3>1
    <3>4. c \in Seqs
      <4>1. control[k] \in Nat
          BY <2>3, <3>3
      <4> QED  BY <3>2, <3>3, <4>1, LimitsAssumption DEF Seqs
    <3>5. ASSUME control[o] < n  PROVE k = o
      <4>1. o \in known
          BY <2>2, <3>5
      <4>2. k >= o
          BY <3>1, <4>1
      <4> QED  BY <2>2, <3>3, <4>2
    <3> HIDE DEF known, c
    <3> QED  BY <3>2, <3>3, <3>4, <3>5 DEF c
  <2> QED  BY <2>5, <2>6
<1>2. Corrected(n) = [o \in Orders |-> Corrected(n)[o]]
    BY DEF Corrected
<1> QED  BY <1>1, <1>2 DEF ControlType

LEMMA ScanEndsKeeps ==
    ASSUME SongOK, Good(scan, control, entry, num_seq), ScanEnds
    PROVE  /\ Good(scan', control', entry', num_seq')
           /\ scan'.pc # "done" => control' = control
<1> DEFINE n == NextSequence
           c == scan.chain
<1>1. /\ Shape(scan) /\ scan \in ScanRec /\ control \in ControlType /\ entry \in EntryType
      /\ num_seq \in 0 .. MaxSequences /\ Claims(scan, control, entry)
      /\ scan.pc = "end"
    BY DEF Good, Shape, ScanEnds
<1>2. scan.ep \in Orders /\ c \in Seqs /\ c \in Nat
    BY <1>1, SeqFacts DEF ScanRec
<1>3. control[scan.ep] = c /\ entry[c] = scan.ep
    BY <1>1 DEF Claims, Begins
<1>4. n \in 1 .. MaxSequences /\ n <= c + 1
    BY <1>2, SeqFacts DEF NextSequence, Seqs
<1>5. ASSUME NEW t \in Nat, t < n  PROVE t \in Seqs /\ control[entry[t]] = t
  <2>1. t \in Seqs /\ (t < c \/ t = c)
    <3> HIDE DEF n, c
    <3>1. n \in Int /\ n <= MaxSequences /\ MaxSequences \in Int
        BY <1>4, SeqFacts
    <3> QED  BY <1>2, <1>4, <1>5, <3>1 DEF Seqs
  <2> QED  BY <1>1, <1>3, <2>1 DEF Claims
<1> HIDE DEF n, c
<1>6. CASE Unclaimed # {} /\ n < MaxSequences
  <2> DEFINE ep == NextEntry
             b == BeginScan(ep, n)
  <2>1. /\ entry' = [entry EXCEPT ![n] = ep] /\ scan' = b
        /\ control' = control /\ num_seq' = num_seq
      BY <1>6 DEF ScanEnds, n
  <2>2. ep \in Orders /\ control[ep] = NO_SEQUENCE
    <3>1. Unclaimed \subseteq Nat
        BY OrderFacts DEF Unclaimed
    <3>2. ep \in Unclaimed
        BY <1>6, <3>1, LeastFound DEF NextEntry
    <3> QED  BY <3>2 DEF Unclaimed
  <2>3. n \in Seqs /\ n # 0
      BY <1>4, <1>6, SeqFacts DEF Seqs
  <2>4. ep # 0
    <3>1. control[entry[0]] = 0 /\ entry[0] = 0
        BY <1>1, <1>4, <1>5 DEF Claims
    <3> QED  BY <2>2, <3>1 DEF NO_SEQUENCE
  <2> HIDE DEF ep
  <2>5. Shape(b) /\ Begins(b) /\ b.ep = ep /\ b.chain = n /\ b.pc = "order"
      BY <2>2, <2>3, <2>4, BeginScanShape
  <2> HIDE DEF b
  <2>6. entry' \in EntryType /\ entry'[n] = ep /\ \A t \in Seqs \ {n} : entry'[t] = entry[t]
      BY <1>1, <2>1, <2>2, <2>3 DEF EntryType
  <2>7. Claims(b, control, entry')
    <3>1. entry'[0] = 0
        BY <1>1, <2>3, <2>6, SeqFacts DEF Claims
    <3>2. ASSUME NEW t \in Seqs, t < n  PROVE control[entry'[t]] = t
      <4>1. t \in Nat /\ t # n
          BY <1>4, <3>2, SeqFacts
      <4> QED  BY <1>5, <2>6, <3>2, <4>1
    <3> QED  BY <2>2, <2>3, <2>5, <2>6, <3>1, <3>2 DEF Claims
  <2> QED  BY <1>1, <2>1, <2>5, <2>6, <2>7 DEF Good
<1>7. CASE ~(Unclaimed # {} /\ n < MaxSequences)
  <2> DEFINE d == [scan EXCEPT !.pc = "done"]
  <2>1. /\ entry' = [s \in Seqs |-> IF s < n THEN entry[s] ELSE 0] /\ scan' = d
        /\ control' = Corrected(n) /\ num_seq' = n
      BY <1>7 DEF ScanEnds, n
  <2>2. d \in ScanRec /\ d.pc = "done" /\ d.flow = scan.flow /\ d.ep = scan.ep
        /\ d.chain = scan.chain /\ d.ord = scan.ord /\ d.orders = scan.orders
      BY <1>1 DEF ScanRec
  <2> HIDE DEF d
  <2>3. Shape(d)
      BY <1>1, <2>2 DEF Shape
  <2>4. entry' \in EntryType
      BY <1>1, <2>1, OrderFacts DEF EntryType
  <2>5. /\ control' \in ControlType /\ \A o \in Orders : control'[o] < n
        /\ \A o \in Orders : control[o] < n => control'[o] = control[o]
      BY <1>1, <1>4, <2>1, CorrectedSettles
  <2>6. ASSUME NEW s \in 1 .. n - 1  PROVE control'[entry'[s]] = s
    <3>1. s \in Nat /\ s < n
        BY <1>4
    <3>2. s \in Seqs /\ control[entry[s]] = s
        BY <1>5, <3>1
    <3>3. entry'[s] = entry[s] /\ entry[s] \in Orders
        BY <1>1, <2>1, <3>1, <3>2 DEF EntryType
    <3> QED  BY <2>5, <3>1, <3>2, <3>3
  <2>7. Settled(control', entry', n)
      BY <2>5, <2>6 DEF Settled
  <2>8. n \in 0 .. MaxSequences
      BY <1>4
  <2> QED  BY <2>1, <2>2, <2>3, <2>4, <2>5, <2>7, <2>8 DEF Good
<1> QED  BY <1>6, <1>7

-----------------------------------------------------------------------------
(* The theorems                                                            *)

LEMMA ScanInitially == ScanInit => ScanInv
<1>1. SUFFICES ASSUME ScanInit  PROVE ScanInv
    OBVIOUS
<1>2. SongOK
    BY <1>1 DEF ScanInit, SongOK
<1> DEFINE b == BeginScan(0, 0)
<1>3. /\ scan = b /\ control = [o \in Orders |-> NO_SEQUENCE]
      /\ entry = [s \in Seqs |-> 0] /\ num_seq = 0
    BY <1>1 DEF ScanInit
<1>4. 0 \in Orders /\ 0 \in Seqs
    BY <1>2, OrderFacts, SeqFacts
<1>5. Shape(b) /\ Begins(b) /\ b.ep = 0 /\ b.chain = 0 /\ b.pc = "order"
    BY <1>2, <1>4, BeginScanShape
<1> HIDE DEF b
<1>6. control \in ControlType /\ entry \in EntryType /\ num_seq \in 0 .. MaxSequences
    BY <1>3, <1>4, SeqFacts DEF ControlType, EntryType
<1>7. Claims(b, control, entry)
  <2>1. ~(\E t \in Seqs : t < 0)
      BY SeqFacts
  <2> QED  BY <1>3, <1>4, <1>5, <2>1 DEF Claims
<1>8. b.pc # "done"
    BY <1>5
<1> QED  BY <1>2, <1>3, <1>5, <1>6, <1>7, <1>8 DEF ScanInv, Good, SongOK

\* What is good for the song stays so: it never changes.
LEMMA TablesStay ==
    ASSUME song' = song, song \in Songs, ActiveOK(scan.flow)',
           Good(scan', control', entry', num_seq')
    PROVE  ScanInv'
<1>1. Orders' = Orders
    BY DEF Orders
<1>2. Tables' = Tables
    BY <1>1 DEF Tables, CountersOf, Counters, Valid, Rows
<1>3. ScanRec' = ScanRec
    BY <1>1, <1>2 DEF ScanRec
<1>4. Reading(scan'.ord, scan'.row) /\ scan'.row < Rows(scan'.ord)
      => Reading(scan.ord, scan.row)' /\ (scan.row < Rows(scan.ord))'
    BY <1>1 DEF Reading, Valid, Rows
<1>5. Shape(scan)'
    BY <1>3, <1>4 DEF Good, Shape
<1>6. ControlType' = ControlType /\ EntryType' = EntryType
    BY <1>1 DEF ControlType, EntryType
<1>7. Claims(scan', control', entry') => Claims(scan, control, entry)'
    BY <1>1 DEF Claims, Begins
<1>8. Settled(control', entry', num_seq') => Settled(control, entry, num_seq)'
    BY <1>1 DEF Settled
<1> QED  BY <1>5, <1>6, <1>7, <1>8 DEF ScanInv, Good

\* So does what is good for the rules, unless others apply.
LEMMA SongStays ==
    ASSUME song' = song, rules' = rules, song \in Songs,
           Good(scan', control', entry', num_seq')
    PROVE  ScanInv'
<1>1. ActiveOK(scan'.flow)
    BY DEF Good, Shape
<1>2. ActiveOK(scan.flow)'
    BY <1>1 DEF ActiveOK, ActiveLoops, Has, FlowMode
<1> QED  BY <1>2, TablesStay

LEMMA ScanKeeps ==
    ASSUME ScanInv, [ScanNext]_scanVars
    PROVE  /\ ScanInv'
           /\ scan'.pc # "done" =>
                 \A o \in Orders : control[o] # NO_SEQUENCE => control'[o] = control[o]
<1>1. SongOK /\ song \in Songs /\ Good(scan, control, entry, num_seq)
    BY DEF ScanInv, SongOK
<1>2. CASE UNCHANGED scanVars
  <2>1. /\ song' = song /\ rules' = rules /\ scan' = scan /\ control' = control
        /\ entry' = entry /\ num_seq' = num_seq
      BY <1>2 DEF scanVars
  <2>2. Good(scan', control', entry', num_seq')
      BY <1>1, <2>1
  <2> QED  BY <1>1, <2>1, <2>2, SongStays
<1>3. ASSUME Keeps(scan', control'), song' = song, rules' = rules, entry' = entry,
             num_seq' = num_seq
      PROVE  /\ ScanInv'
             /\ \A o \in Orders : control[o] # NO_SEQUENCE => control'[o] = control[o]
  <2>1. Good(scan', control', entry', num_seq')
      BY <1>3 DEF Keeps
  <2>2. ScanInv'
      BY <1>1, <1>3, <2>1, SongStays
  <2> QED  BY <1>3, <2>2 DEF Keeps
<1>4. CASE ScanGivesUp
  <2>1. song' = song /\ rules' = rules /\ entry' = entry /\ num_seq' = num_seq
      BY <1>4 DEF ScanGivesUp
  <2> QED  BY <1>1, <1>3, <1>4, <2>1, ScanGivesUpKeeps
<1>5. CASE ScanWrapsToEnd
  <2>1. song' = song /\ rules' = rules /\ entry' = entry /\ num_seq' = num_seq
      BY <1>5 DEF ScanWrapsToEnd
  <2> QED  BY <1>1, <1>3, <1>5, <2>1, ScanWrapsToEndKeeps
<1>6. CASE ScanSkips
  <2>1. song' = song /\ rules' = rules /\ entry' = entry /\ num_seq' = num_seq
      BY <1>6 DEF ScanSkips
  <2> QED  BY <1>1, <1>3, <1>6, <2>1, ScanSkipsKeeps
<1>7. CASE ScanMeetsTaken
  <2>1. song' = song /\ rules' = rules /\ entry' = entry /\ num_seq' = num_seq
      BY <1>7 DEF ScanMeetsTaken
  <2> QED  BY <1>1, <1>3, <1>7, <2>1, ScanMeetsTakenKeeps
<1>8. CASE ScanReturns
  <2>1. song' = song /\ rules' = rules /\ entry' = entry /\ num_seq' = num_seq
      BY <1>8 DEF ScanReturns
  <2> QED  BY <1>1, <1>3, <1>8, <2>1, ScanReturnsKeeps
<1>9. CASE ScanEnters
  <2>1. song' = song /\ rules' = rules /\ entry' = entry /\ num_seq' = num_seq
      BY <1>9 DEF ScanEnters
  <2> QED  BY <1>1, <1>3, <1>9, <2>1, ScanEntersKeeps
<1>10. CASE ScanFindsEnd
  <2>1. song' = song /\ rules' = rules /\ entry' = entry /\ num_seq' = num_seq
      BY <1>10 DEF ScanFindsEnd
  <2> QED  BY <1>1, <1>3, <1>10, <2>1, ScanFindsEndKeeps
<1>11. CASE ScanRow
  <2>1. song' = song /\ rules' = rules /\ entry' = entry /\ num_seq' = num_seq
      BY <1>11 DEF ScanRow
  <2> QED  BY <1>1, <1>3, <1>11, <2>1, ScanRowKeeps
<1>12. CASE ScanOverflows
  <2>1. song' = song /\ rules' = rules /\ entry' = entry /\ num_seq' = num_seq
      BY <1>12 DEF ScanOverflows
  <2> QED  BY <1>1, <1>3, <1>12, <2>1, ScanOverflowsKeeps
<1>13. CASE ScanEnds
  <2>1. song' = song /\ rules' = rules
      BY <1>13 DEF ScanEnds
  <2>2. /\ Good(scan', control', entry', num_seq')
        /\ scan'.pc # "done" => control' = control
      BY <1>1, <1>13, ScanEndsKeeps
  <2>3. ScanInv'
      BY <1>1, <2>1, <2>2, SongStays
  <2> QED  BY <2>2, <2>3
<1>14. ScanNext \/ UNCHANGED scanVars
    OBVIOUS
<1> QED
    BY <1>2, <1>4, <1>5, <1>6, <1>7, <1>8, <1>9, <1>10, <1>11, <1>12, <1>13, <1>14
    DEF ScanNext

\* The invariant holds of every scan of every module, whatever its tracker.
THEOREM ScanInvariantHolds == ScanSpec => []ScanInv
<1>1. ScanInv /\ [ScanNext]_scanVars => ScanInv'
    BY ScanKeeps
<1> QED  BY <1>1, ScanInitially, PTL DEF ScanSpec

LEMMA ScanTypes == ScanInv => ScanTypeOK
<1>1. SUFFICES ASSUME ScanInv  PROVE ScanTypeOK
    OBVIOUS
<1>2. SongOK /\ Shape(scan) /\ control \in ControlType /\ entry \in EntryType
      /\ num_seq \in 0 .. MaxSequences
    BY <1>1 DEF ScanInv, Good, SongOK
<1>3. IsSong(song)
    BY <1>2, SongFields
<1>4. scan \in ScanRec /\ scan.pc \in {"order", "row", "end", "done"} /\ scan.ord \in Int
      /\ scan.ord >= -1 /\ scan.count \in Tables /\ song.len \in Int
    BY <1>2, SongFields DEF Shape, ScanRec
<1>5. scan.ord \in -1 .. song.len \/ scan.pc = "order"
    BY <1>2, <1>4 DEF Shape
<1>6. scan.pc = "row" => Valid(scan.ord) /\ scan.row \in 0 .. Rows(scan.ord) - 1
    BY <1>2, SongFields DEF Shape, Reading
<1>7. ASSUME NEW o \in Orders, NEW r \in DOMAIN scan.count[o]
      PROVE  scan.count[o][r] \in 0 .. CountMod - 1
    BY <1>4, <1>7 DEF Tables, CountersOf
<1> QED  BY <1>2, <1>3, <1>4, <1>5, <1>6, <1>7 DEF ScanTypeOK, ControlType, EntryType

\* scan_module and libxmp_scan_sequences stay inside the tables they fill.
THEOREM ScanStaysInTables == ScanSpec => []ScanTypeOK
BY ScanTypes, ScanInvariantHolds, PTL

\* The count of active loops, kept by hand in process_pattern_loop, is right
\* after every effect of every channel.
THEOREM LoopsAreAlwaysActive == ScanSpec => []LoopsAreActive
<1>1. ScanInv => LoopsAreActive
    BY DEF ScanInv, Good, Shape, ActiveOK, LoopsAreActive
<1> QED  BY <1>1, ScanInvariantHolds, PTL

\* libxmp_scan_sequences leaves every order to a sequence the player knows, and
\* every sequence its entry point.
THEOREM SequencesAlwaysCover == ScanSpec => []SequencesCoverOrders
<1>1. ScanInv => SequencesCoverOrders
    BY DEF ScanInv, Good, Settled, SequencesCoverOrders, Scanned
<1> QED  BY <1>1, ScanInvariantHolds, PTL

\* A scan takes no order from another one until the correction at the end.
THEOREM OrdersAlwaysKept == ScanSpec => SequencesKeepOrders
<1>1. ScanInv /\ [ScanNext]_scanVars =>
         [~Scanned' => \A o \in Orders :
             control[o] # NO_SEQUENCE => control'[o] = control[o]]_scanVars
    BY ScanKeeps DEF Scanned
<1> QED  BY <1>1, ScanInvariantHolds, PTL DEF ScanSpec, SequencesKeepOrders

-----------------------------------------------------------------------------
(* Which scans count                                                       *)

\* No row of the order has been scanned.
Uncounted(s, o) == \A r \in Counters(o) : s.count[o][r] = 0

\* Nothing has been scanned yet.
Unscanned(s) ==
    /\ \A o \in Orders : Uncounted(s, o)
    /\ s.rows = 0 /\ s.time = 0
    /\ s.flow.loop_active = 0 /\ s.flow.loop_dest = NONE
    /\ \A c \in Chns : s.flow.loop[c].count = 0

\* An order is counted only once it is claimed, and the entry point of every
\* sequence was the first order unclaimed; a main sequence that has played nothing
\* has claimed nothing to play.
Books(s, ct, en) ==
    /\ s.start = 0
    /\ ~s.valid => Unscanned(s)
    /\ \A o \in Orders : ct[o] = NO_SEQUENCE =>
          Uncounted(s, o) /\ \A t \in 0 .. s.chain : en[t] <= o
    /\ \A o \in Orders : ct[o] = NO_SEQUENCE \/ ct[o] <= s.chain
    /\ s.pc = "row" => ct[s.ord] # NO_SEQUENCE
    /\ ct[s.ep] = NO_SEQUENCE => ~s.valid
    /\ s.chain = 0 /\ ~s.valid /\ s.pc # "row" => \A o \in Orders : Valid(o) => ct[o] # 0

\* A scan that claims an order it can play counts: its time is not 0 at the
\* end.  It would be if the second row ended it, and that row is either new or
\* in a loop.
Lasts(s, ct, en) ==
    /\ \A o \in Orders : Valid(o) /\ ct[o] # NO_SEQUENCE => en[ct[o]] <= o
    /\ s.chain # 0 /\ ~s.valid /\ s.pc # "row" =>
          \A o \in Orders : Valid(o) => ct[o] # s.chain
    /\ s.chain # 0 /\ s.valid =>
          /\ s.time >= 1
          /\ s.pc = "row" /\ s.time = 1 =>
                s.flow.loop_active # 0 \/ s.count[s.ord][s.row] = 0

\* No sequence reaches back before its entry point.
NoneBefore(ct, en) == \A o \in Orders : Valid(o) => en[ct[o]] <= o

\* Before the last step.
Timed(s, ct, en) == Books(s, ct, en) /\ (~Has("GLOBAL_COUNT") => Lasts(s, ct, en))

\* What an order's step leaves alone.
SameScan(s, r) ==
    /\ s.ep = r.ep /\ s.chain = r.chain /\ s.valid = r.valid /\ s.time = r.time
    /\ s.count = r.count /\ s.rows = r.rows /\ s.start = r.start

SameTime(s, r) ==
    /\ SameScan(s, r)
    /\ Unscanned(r) => Unscanned(s)

\* An order that is not taken from another sequence was not claimed, but by the
\* main one.
LEMMA NotTaken ==
    ASSUME SongOK, Good(scan, control, entry, num_seq), scan.pc = "order",
           NEW o \in Orders, ~Taken(o)
    PROVE  scan.chain = 0 \/ control[o] = NO_SEQUENCE
<1>1. scan.ep = 0 <=> scan.chain = 0
    BY DEF Good, Shape
<1> QED  BY <1>1 DEF Taken

\* An order is claimed, or left to its owner.
LEMMA OrderStepTimed ==
    ASSUME SongOK, Good(scan, control, entry, num_seq), scan.pc = "order",
           Timed(scan, control, entry), NEW ct, NEW s, SameTime(s, scan),
           s.pc \in {"order", "row", "end"},
           \/ ct = control
           \/ ~Taken(Upcoming) /\ ct = [control EXCEPT ![Upcoming] = scan.chain],
           \/ /\ s.pc # "row"
              /\ ct = control \/ ~Valid(Upcoming) \/ (scan.chain = 0 /\ scan.valid)
           \/ /\ s.pc = "row" /\ s.ord = Upcoming /\ Valid(Upcoming) /\ ~Taken(Upcoming)
              /\ s.row \in Counters(Upcoming)
              /\ ct = [control EXCEPT ![Upcoming] = scan.chain]
    PROVE  Timed(s, ct, entry)
<1> DEFINE u == Upcoming
           c == scan.chain
<1>1. /\ scan \in ScanRec /\ control \in ControlType /\ entry \in EntryType
      /\ Claims(scan, control, entry) /\ (scan.ep = 0 <=> c = 0)
    BY DEF Good, Shape
<1>2. scan.ep \in Orders /\ c \in Seqs /\ c \in Nat /\ c # NO_SEQUENCE
    BY <1>1, SeqFacts DEF ScanRec
<1>3. u \in Orders /\ (Begins(scan) => u = scan.ep)
    BY <1>1, UpcomingFields
<1>4. Books(scan, control, entry) /\ (~Has("GLOBAL_COUNT") => Lasts(scan, control, entry))
    BY DEF Timed
<1>5. ~Taken(u) => c = 0 \/ control[u] = NO_SEQUENCE
    BY <1>3, NotTaken
<1> HIDE DEF u, c
<1>6. ct = control \/ (~Taken(u) /\ ct = [control EXCEPT ![u] = c])
    BY DEF u, c
<1>7. \A o \in Orders \ {u} : ct[o] = control[o]
    BY <1>1, <1>6 DEF ControlType
<1>8. ct[u] = control[u] \/ (~Taken(u) /\ ct[u] = c)
    BY <1>1, <1>3, <1>6 DEF ControlType
<1>9. SameScan(s, scan) /\ (Unscanned(scan) => Unscanned(s))
    BY DEF SameTime
<1>10. \A o \in Orders : ct[o] = NO_SEQUENCE => control[o] = NO_SEQUENCE
    BY <1>2, <1>5, <1>7, <1>8, <1>1 DEF Claims, c
<1>11. Books(s, ct, entry)
  <2>1. s.start = 0 /\ (~s.valid => Unscanned(s))
      BY <1>4, <1>9 DEF Books, SameScan
  <2>2. ASSUME NEW o \in Orders, ct[o] = NO_SEQUENCE
        PROVE  Uncounted(s, o) /\ \A t \in 0 .. s.chain : entry[t] <= o
    <3>1. control[o] = NO_SEQUENCE
        BY <1>10, <2>2
    <3>2. Uncounted(scan, o) /\ \A t \in 0 .. scan.chain : entry[t] <= o
        BY <1>4, <3>1 DEF Books
    <3> QED  BY <1>9, <3>2 DEF SameScan, Uncounted
  <2>3. ASSUME NEW o \in Orders  PROVE ct[o] = NO_SEQUENCE \/ ct[o] <= s.chain
    <3>1. s.chain = c /\ c <= c
        BY <1>2, <1>9 DEF SameScan, c
    <3>2. control[o] = NO_SEQUENCE \/ control[o] <= c
        BY <1>4 DEF Books, c
    <3> QED  BY <1>7, <1>8, <3>1, <3>2
  <2>4. s.pc = "row" => ct[s.ord] # NO_SEQUENCE
    <3>1. s.pc = "row" => s.ord = u /\ ct = [control EXCEPT ![u] = c]
        BY DEF u, c
    <3> QED  BY <1>1, <1>2, <1>3, <3>1 DEF ControlType
  <2>5. ct[s.ep] = NO_SEQUENCE => ~s.valid
      BY <1>2, <1>4, <1>9, <1>10 DEF Books, SameScan
  <2>6. ASSUME s.chain = 0, ~s.valid, s.pc # "row", NEW o \in Orders, Valid(o)
        PROVE  ct[o] # 0
    <3>1. scan.chain = 0 /\ ~scan.valid
        BY <1>9, <2>6 DEF SameScan
    <3>2. control[o] # 0
        BY <1>4, <2>6, <3>1 DEF Books
    <3>3. ct = control \/ ~Valid(u)
        BY <2>6, <3>1 DEF u
    <3> QED  BY <1>7, <2>6, <3>2, <3>3
  <2> QED  BY <2>1, <2>2, <2>3, <2>4, <2>5, <2>6 DEF Books
<1>12. ASSUME ~Has("GLOBAL_COUNT")  PROVE Lasts(s, ct, entry)
  <2>1. Lasts(scan, control, entry) /\ s.chain = c /\ s.valid = scan.valid /\ s.time = scan.time
        /\ s.count = scan.count
      BY <1>4, <1>9, <1>12 DEF SameScan, c
  <2>2. ASSUME NEW o \in Orders, Valid(o), ct[o] # NO_SEQUENCE  PROVE entry[ct[o]] <= o
    <3>1. CASE ct[o] = control[o]
        BY <2>1, <2>2, <3>1 DEF Lasts
    <3>2. CASE ct[o] # control[o]
      <4>1. o = u /\ ~Taken(u) /\ ct[o] = c
          BY <1>7, <1>8, <3>2
      <4>2. CASE c = 0
          BY <1>1, <4>1, <4>2, OrderFacts DEF Claims
      <4>3. CASE control[u] = NO_SEQUENCE
        <5>1. c \in 0 .. scan.chain
            BY <1>2 DEF c
        <5> QED  BY <1>4, <4>1, <4>3, <5>1 DEF Books
      <4> QED  BY <1>5, <4>1, <4>2, <4>3
    <3> QED  BY <3>1, <3>2
  <2>3. ASSUME s.chain # 0, ~s.valid, s.pc # "row", NEW o \in Orders, Valid(o)
        PROVE  ct[o] # s.chain
    <3>1. control[o] # c
        BY <2>1, <2>3 DEF Lasts, c
    <3>2. ct = control \/ ~Valid(u) \/ c = 0
        BY <2>3 DEF u, c
    <3> QED  BY <1>7, <2>1, <2>3, <3>1, <3>2
  <2>4. ASSUME s.chain # 0, s.valid, s.pc = "row", s.time = 1
        PROVE  s.count[s.ord][s.row] = 0
    <3>1. s.ord = u /\ s.row \in Counters(u) /\ ~Taken(u)
        BY <2>4 DEF u
    <3>2. Uncounted(scan, u)
        BY <1>3, <1>4, <1>5, <2>1, <2>4, <3>1 DEF Books
    <3> QED  BY <2>1, <3>1, <3>2 DEF Uncounted
  <2>5. s.chain # 0 /\ s.valid => s.time >= 1
      BY <2>1 DEF Lasts, c
  <2> QED  BY <2>2, <2>3, <2>4, <2>5 DEF Lasts
<1> QED  BY <1>11, <1>12 DEF Timed

LEMMA FlowSameTime ==
    ASSUME NEW s, SameScan(s, scan), s.flow = scan.flow
    PROVE  SameTime(s, scan)
BY DEF SameTime, Unscanned, Uncounted, SameScan

\* The steps that do not enter an order.
LEMMA PassTimed ==
    ASSUME SongOK, Good(scan, control, entry, num_seq), Timed(scan, control, entry),
           ScanGivesUp \/ ScanWrapsToEnd \/ ScanSkips \/ ScanMeetsTaken \/ ScanReturns
    PROVE  Timed(scan', control', entry')
<1> DEFINE u == Upcoming
           c == scan.chain
<1>1. scan.pc = "order" /\ entry' = entry
    BY DEF ScanGivesUp, ScanWrapsToEnd, ScanSkips, ScanMeetsTaken, ScanReturns
<1>2. Shape(scan) /\ scan \in ScanRec
    BY DEF Good, Shape
<1>3. u \in Orders
    BY <1>2, UpcomingFields
<1>4. /\ SameTime(scan', scan) /\ scan'.pc \in {"order", "end"}
  <2>1. ASSUME NEW o, NEW row  PROVE SameTime(StopAt(o, row), scan) /\ StopAt(o, row).pc = "end"
    <3> DEFINE s == StopAt(o, row)
    <3>1. SameScan(s, scan) /\ s.flow = scan.flow /\ s.pc = "end"
        BY <1>2 DEF StopAt, ScanRec, SameScan
    <3> QED  BY <3>1, FlowSameTime
  <2>2. CASE ScanSkips
    <3>1. SameScan(scan', scan) /\ scan'.flow = scan.flow /\ scan'.pc = "order"
        BY <1>2, <2>2 DEF ScanSkips, ScanRec, SameScan
    <3> QED  BY <3>1, FlowSameTime
  <2>3. CASE ~ScanSkips
    <3>1. \E o, row : scan' = StopAt(o, row)
        BY <2>3 DEF ScanGivesUp, ScanWrapsToEnd, ScanMeetsTaken, ScanReturns
    <3> QED  BY <2>1, <3>1
  <2> QED  BY <2>2, <2>3
<1>5. \/ control' = control
      \/ /\ ~Taken(u) /\ control' = [control EXCEPT ![u] = c]
         /\ ~Valid(u) \/ (c = 0 /\ scan.valid)
  <2>1. CASE ScanReturns
    <3>1. /\ Valid(u) /\ ~Taken(u) /\ Seen(u) /\ control' = [control EXCEPT ![u] = c]
        BY <2>1 DEF ScanReturns
    <3>2. EntryRow(u) \in Counters(u)
        BY <1>2, <1>3, <3>1, JumplineFields DEF Counters
    <3>3. control[u] # NO_SEQUENCE /\ scan.valid
      <4> HIDE DEF u
      <4>1. ~Uncounted(scan, u)
          BY <3>1, <3>2 DEF Uncounted, Seen
      <4> QED  BY <1>2, <1>3, <4>1 DEF Timed, Books, Unscanned, ScanRec
    <3>4. c = 0
        BY <1>1, <1>3, <3>1, <3>3, NotTaken
    <3> QED  BY <3>1, <3>3, <3>4
  <2>2. CASE ~ScanReturns
      BY <2>2 DEF ScanGivesUp, ScanWrapsToEnd, ScanMeetsTaken, ScanSkips
  <2> QED  BY <2>1, <2>2
<1>6. Timed(scan', control', entry)
  <2>1. /\ \/ control' = control
           \/ ~Taken(u) /\ control' = [control EXCEPT ![u] = c]
        /\ scan'.pc # "row"
        /\ control' = control \/ ~Valid(u) \/ (c = 0 /\ scan.valid)
      BY <1>4, <1>5
  <2> QED  BY <1>1, <1>4, <2>1, OrderStepTimed
<1> QED  BY <1>1, <1>6

LEMMA EntersTimed ==
    ASSUME SongOK, Good(scan, control, entry, num_seq), Timed(scan, control, entry), ScanEnters
    PROVE  Timed(scan', control', entry')
<1> DEFINE o == Upcoming
           row == EntryRow(o)
           entered == IF info[o].time < 0 THEN [time |-> scan.time, row |-> row] ELSE info[o]
           start == IF entered.row = 0 /\ o # 0 /\ o = scan.ep THEN scan.time ELSE scan.start
           forgotten == ForgetLoops(scan.flow)
           flow == [forgotten EXCEPT !.jumpline = 0]
           s == [scan EXCEPT !.pc = "row", !.orders = scan.orders + 1, !.ord = o,
                             !.row = row, !.flow = flow, !.start = start]
<1>1. /\ scan.pc = "order" /\ scan' = s /\ Valid(o) /\ ~Taken(o)
      /\ control' = [control EXCEPT ![o] = scan.chain] /\ entry' = entry
    BY DEF ScanEnters
<1>2. Shape(scan) /\ scan \in ScanRec /\ scan.flow \in FlowRec /\ Books(scan, control, entry)
    BY JumplineFields DEF Good, Shape, Timed
<1>3. o \in Orders
    BY <1>2, UpcomingFields
<1> HIDE DEF o
<1>4. row \in Counters(o)
    BY <1>1, <1>2, <1>3, JumplineFields DEF Counters
<1>5. start = scan.start
  <2>1. SUFFICES ASSUME o # 0, o = scan.ep  PROVE scan.time = scan.start
      OBVIOUS
  <2>2. control[scan.ep] = NO_SEQUENCE
      BY <1>1, <2>1 DEF Taken
  <2> QED  BY <1>2, <2>2 DEF Books, Unscanned
<1>6. /\ flow \in FlowRec /\ flow.loop_active = scan.flow.loop_active
      /\ flow.loop_dest = scan.flow.loop_dest
      /\ \A c \in Chns : scan.flow.loop[c].count = 0 => flow.loop[c].count = 0
  <2>1. /\ forgotten \in FlowRec /\ forgotten.loop_active = scan.flow.loop_active
        /\ forgotten.loop_dest = scan.flow.loop_dest
        /\ \A c \in Chns : scan.flow.loop[c].count = 0 => forgotten.loop[c].count = 0
    <3>1. forgotten \in FlowRec
        BY <1>2, ForgetLoopsOK
    <3> DEFINE l == [c \in Chns |-> [start |-> 0, count |-> 0]]
    <3>2. CASE Has("PATTERN_RESET")
      <4>1. forgotten = [scan.flow EXCEPT !.loop_start = NONE, !.loop_count = 0, !.loop = l]
          BY <3>2 DEF ForgetLoops
      <4>2. \A c \in Chns : l[c].count = 0
          OBVIOUS
      <4> HIDE DEF l, forgotten
      <4>3. /\ forgotten.loop_active = scan.flow.loop_active /\ forgotten.loop = l
            /\ forgotten.loop_dest = scan.flow.loop_dest
          BY <1>2, <4>1 DEF FlowRec
      <4> QED  BY <3>1, <4>2, <4>3
    <3>3. CASE ~Has("PATTERN_RESET")
        BY <3>1, <3>3 DEF ForgetLoops
    <3> QED  BY <3>2, <3>3
  <2> HIDE DEF forgotten
  <2> QED  BY <2>1 DEF FlowRec
<1> HIDE DEF start, flow, row
<1>7. /\ SameScan(s, scan) /\ s.flow = flow /\ s.pc = "row" /\ s.ord = o /\ s.row = row
    BY <1>2, <1>5 DEF ScanRec, SameScan
<1> HIDE DEF s
<1>8. SameTime(s, scan)
    BY <1>6, <1>7 DEF SameTime, SameScan, Unscanned, Uncounted
<1>9. Timed(s, control', entry)
    BY <1>1, <1>4, <1>7, <1>8, OrderStepTimed DEF o
<1> QED  BY <1>1, <1>9

\* A row that ends the scan has been scanned.
LEMMA EndIsCounted ==
    ASSUME SongOK, Shape(scan), Books(scan, control, entry), scan.pc = "row",
           scan.rows > RowLimit \/ scan.count[scan.ord][scan.row] # 0
    PROVE  scan.valid
<1>1. SUFFICES ASSUME ~scan.valid  PROVE FALSE
    BY DEF Shape, ScanRec
<1>2. scan.ord \in Orders /\ Valid(scan.ord) /\ scan.row \in Nat /\ scan.row < Rows(scan.ord)
    BY DEF Shape, Reading
<1>3. scan.row \in Counters(scan.ord)
    BY <1>2, SongFields DEF Counters
<1>4. scan.count[scan.ord][scan.row] = 0 /\ scan.rows = 0
    BY <1>1, <1>2, <1>3 DEF Books, Unscanned, Uncounted
<1> QED  BY <1>4, LimitsAssumption

LEMMA FindsEndTimed ==
    ASSUME SongOK, Good(scan, control, entry, num_seq), Timed(scan, control, entry), ScanFindsEnd
    PROVE  Timed(scan', control', entry')
<1> DEFINE t == IF scan.rows > RowLimit THEN scan.time ELSE scan.time - 1
           s == [scan EXCEPT !.pc = "end", !.time = t]
<1>1. scan.pc = "row" /\ scan' = s /\ control' = control /\ entry' = entry
    BY DEF ScanFindsEnd
<1>2. Shape(scan) /\ scan \in ScanRec /\ Books(scan, control, entry) /\ scan.time \in Int
    BY DEF Good, Shape, Timed, ScanRec
<1>3. scan.valid
  <2>1. scan.rows > RowLimit \/ scan.count[scan.ord][scan.row] # 0
      BY DEF ScanFindsEnd, AtEnd
  <2> QED  BY <1>1, <1>2, <2>1, EndIsCounted
<1>4. ASSUME ~Has("GLOBAL_COUNT"), scan.chain # 0  PROVE t >= 1
  <2>1. /\ scan.time >= 1
        /\ scan.time = 1 => scan.flow.loop_active # 0 \/ scan.count[scan.ord][scan.row] = 0
      BY <1>1, <1>3, <1>4 DEF Timed, Lasts
  <2>2. scan.rows > RowLimit \/ scan.time # 1
      BY <2>1 DEF ScanFindsEnd, AtEnd
  <2> QED  BY <1>2, <2>1, <2>2
<1> HIDE DEF t
<1>5. /\ s.start = scan.start /\ s.valid = scan.valid /\ s.chain = scan.chain /\ s.pc = "end"
      /\ s.count = scan.count /\ s.ep = scan.ep /\ s.time = t
    BY <1>2 DEF ScanRec
<1> HIDE DEF s
<1>6. Books(s, control, entry)
  <2>1. control[s.ep] # NO_SEQUENCE
      BY <1>2, <1>3, <1>5 DEF Books
  <2> QED  BY <1>2, <1>3, <1>5, <2>1 DEF Books, Uncounted
<1>7. ~Has("GLOBAL_COUNT") => Lasts(s, control, entry)
    BY <1>3, <1>4, <1>5 DEF Timed, Lasts
<1> QED  BY <1>1, <1>6, <1>7 DEF Timed

LEMMA OverflowsTimed ==
    ASSUME SongOK, Good(scan, control, entry, num_seq), Timed(scan, control, entry),
           ScanOverflows
    PROVE  Timed(scan', control', entry')
<1> DEFINE c == [scan.count EXCEPT ![scan.ord][scan.row] = 0]
           s == [scan EXCEPT !.pc = "end", !.orders = 0, !.valid = TRUE, !.count = c]
<1>1. scan.pc = "row" /\ scan' = s /\ control' = control /\ entry' = entry
    BY DEF ScanOverflows
<1>2. Shape(scan) /\ scan \in ScanRec /\ Books(scan, control, entry)
    BY DEF Good, Shape, Timed
<1>3. scan.valid
  <2>1. scan.count[scan.ord][scan.row] # 0
      BY LimitsAssumption DEF ScanOverflows
  <2> QED  BY <1>1, <1>2, <2>1, EndIsCounted
<1>4. \A o \in Orders \ {scan.ord} : c[o] = scan.count[o]
    BY <1>2 DEF ScanRec, Tables
<1> HIDE DEF c
<1>5. /\ s.start = scan.start /\ s.valid = TRUE /\ s.chain = scan.chain /\ s.pc = "end"
      /\ s.count = c /\ s.ep = scan.ep /\ s.time = scan.time
    BY <1>2 DEF ScanRec
<1> HIDE DEF s
<1>6. Books(s, control, entry)
  <2>1. control[s.ep] # NO_SEQUENCE /\ control[scan.ord] # NO_SEQUENCE
      BY <1>1, <1>2, <1>3, <1>5 DEF Books
  <2> QED  BY <1>2, <1>3, <1>4, <1>5, <2>1 DEF Books, Uncounted
<1>7. ~Has("GLOBAL_COUNT") => Lasts(s, control, entry)
    BY <1>3, <1>5 DEF Timed, Lasts
<1> QED  BY <1>1, <1>6, <1>7 DEF Timed

\* What a channel that has not looped yet makes of the loops: it counts what it
\* takes.
LEMMA FirstLoop ==
    ASSUME NEW f \in FlowRec, NEW chn \in Chns, NEW ord \in Int, NEW row \in Nat,
           NEW e, e.arg \in Nat, ~Has("GLOBAL_COUNT"),
           f.loop[chn].count = 0, f.loop_active >= 0, f.loop_dest >= 0 => f.loop_active >= 1
    PROVE  LET r == FlowEffect(f, chn, ord, row, e)
           IN  /\ r.loop_active >= 0 /\ (r.loop_dest >= 0 => r.loop_active >= 1)
               /\ \A c \in Chns \ {chn} : r.loop[c].count = f.loop[c].count
<1> DEFINE Loops(g) ==
              /\ g.loop_active >= 0 /\ (g.loop_dest >= 0 => g.loop_active >= 1)
              /\ \A c \in Chns \ {chn} : g.loop[c].count = f.loop[c].count
           r == FlowEffect(f, chn, ord, row, e)
           Like(g) == /\ g.loop_active = f.loop_active /\ g.loop_dest = f.loop_dest
                      /\ \A c \in Chns : g.loop[c].count = f.loop[c].count
<1>1. \A g : Like(g) => Loops(g)
    OBVIOUS
<1>2. ASSUME NEW g \in FlowRec, NEW t \in Int
      PROVE  /\ SetTarget(g, chn, t) \in FlowRec
             /\ Like(g) => Like(SetTarget(g, chn, t))
  <2> DEFINE h == SetTarget(g, chn, t)
  <2>1. h \in FlowRec /\ SameLoops(g, h)
      BY SetTargetFields
  <2>2. h.loop_dest = g.loop_dest
      BY DEF SetTarget, FlowRec
  <2> HIDE DEF h
  <2>3. Like(g) => Like(h)
      BY <2>1, <2>2 DEF SameLoops
  <2> QED  BY <2>1, <2>3 DEF h
<1>3. CASE e.fx = "loop"
  <2> DEFINE g == [f EXCEPT !.loop_param = e.arg]
  <2>1. g \in FlowRec /\ Like(g)
      BY DEF FlowRec
  <2>2. r = f \/ r = MarkLoop(g, chn, row) \/ (e.arg # 0 /\ r = EndLoop(g, chn, row, e.arg))
      BY <1>3 DEF FlowEffect, PatternLoop
  <2> HIDE DEF g, r
  <2>3. Like(MarkLoop(g, chn, row))
    <3> DEFINE t == SetTarget(g, chn, row)
               m == [t EXCEPT !.jumpline = IF "FT2BUGS" \in Quirks THEN row ELSE t.jumpline]
    <3>1. MarkLoop(g, chn, row) = g \/ MarkLoop(g, chn, row) = m
        BY DEF MarkLoop
    <3>2. t \in FlowRec /\ Like(t)
        BY <1>2, <2>1
    <3> HIDE DEF t
    <3>3. Like(m)
        BY <3>2 DEF FlowRec
    <3> QED  BY <2>1, <3>1, <3>3
  <2>4. ASSUME e.arg # 0  PROVE Loops(EndLoop(g, chn, row, e.arg))
    <3> DEFINE start == IF LoopTarget(g, chn) >= 0 THEN LoopTarget(g, chn)
                        ELSE IF Has("INIT_SAMEROW") THEN row ELSE 0
               t == SetTarget(g, chn, start)
               n == e.arg
    <3>1. start \in Nat /\ LoopCount(g, chn) = 0 /\ n \in Nat \ {0}
      <4>1. LoopTarget(g, chn) \in Int
          BY <2>1 DEF LoopTarget, FlowRec, LoopRec
      <4> QED  BY <2>1, <2>4, <4>1 DEF LoopCount
    <3>2. EndLoop(g, chn, row, n) = t \/ EndLoop(g, chn, row, n) = TakeLoop(t, chn, n, TRUE)
      <4>1. ~(LoopCount(g, chn) > 1) /\ LoopCount(g, chn) # 1
          BY <3>1
      <4> HIDE DEF start
      <4> QED  BY <4>1, Zenon DEF EndLoop, start
    <3> HIDE DEF start
    <3>3. t \in FlowRec /\ Like(t)
        BY <1>2, <2>1, <3>1
    <3> HIDE DEF t, n
    <3>4. Loops(TakeLoop(t, chn, n, TRUE))
      <4> DEFINE c == SetCount(t, chn, n)
                 x == [c EXCEPT !.loop_dest = LoopTarget(t, chn), !.loop_active = c.loop_active + 1]
      <4>1. c \in FlowRec /\ c.loop_active = t.loop_active
          BY <3>1, <3>3, SetCountFields
      <4>2. \A k \in Chns \ {chn} : c.loop[k].count = t.loop[k].count
          BY <3>3 DEF SetCount, FlowRec
      <4> HIDE DEF c
      <4>3. /\ x.loop_active = t.loop_active + 1 /\ x.loop = c.loop
          BY <4>1 DEF FlowRec
      <4>4. TakeLoop(t, chn, n, TRUE) = OverrideBreak(x)
          BY DEF TakeLoop, c
      <4>5. x \in FlowRec
        <5>1. c.loop_active \in Int /\ LoopTarget(t, chn) \in Int
            BY <3>3, <4>1 DEF FlowRec, LoopTarget, LoopRec
        <5>2. c.loop_active + 1 \in Int
            BY <5>1
        <5> QED  BY <4>1, <5>1, <5>2 DEF FlowRec
      <4> HIDE DEF x
      <4>6. OverrideBreak(x).loop_active = x.loop_active /\ OverrideBreak(x).loop = x.loop
          BY <4>5 DEF OverrideBreak, FlowRec
      <4>7. t.loop_active \in Int
          BY <3>3 DEF FlowRec
      <4>8. t.loop_active >= 0 /\ \A k \in Chns \ {chn} : t.loop[k].count = f.loop[k].count
          BY <3>3
      <4>9. x.loop_active >= 1
          BY <4>3, <4>7, <4>8
      <4> DEFINE y == TakeLoop(t, chn, n, TRUE)
      <4>10. y.loop_active = x.loop_active /\ y.loop = c.loop
          BY <4>3, <4>4, <4>6
      <4> HIDE DEF y
      <4>11. y.loop_active >= 1 /\ y.loop_active >= 0
          BY <4>3, <4>7, <4>9, <4>10
      <4>12. \A k \in Chns \ {chn} : y.loop[k].count = f.loop[k].count
          BY <4>2, <4>8, <4>10
      <4>13. Loops(y)
          BY <4>11, <4>12
      <4> QED  BY <4>13 DEF y
    <3> QED  BY <1>1, <3>2, <3>3, <3>4 DEF n
  <2> QED  BY <1>1, <2>2, <2>3, <2>4 DEF r
<1>4. CASE e.fx # "loop"
  <2>1. Like(r)
      BY <1>4 DEF FlowEffect, PatternJump, PatternBreak, LineJump, FlowRec
  <2> QED  BY <1>1, <2>1
<1> QED  BY <1>3, <1>4

\* What the channels from n on have to work with, and the first row's loops.
Rowed(n) ==
    {x \in RowRec :
        /\ x.time >= scan.time
        /\ ~Has("GLOBAL_COUNT") /\ ~scan.valid =>
              /\ x.flow.loop_active >= 0
              /\ x.flow.loop_dest >= 0 => x.flow.loop_active >= 1
              /\ \A c \in Chns : c >= n => x.flow.loop[c].count = 0}

LEMMA RowedKeeps ==
    ASSUME SongOK, Reading(scan.ord, scan.row), scan.time \in Int, NEW n \in Chns,
           NEW x \in Rowed(n)
    PROVE  ScanEffect(x, n) \in Rowed(n + 1)
<1> DEFINE e == Effect(scan.ord, scan.row, n)
           r == ScanEffect(x, n)
           f == FlowEffect(x.flow, n, scan.ord, scan.row, e)
<1>1. x \in RowRec /\ x \in RowShape /\ x.flow \in FlowRec /\ x.time \in Int
    BY DEF Rowed, RowRec, RowShape
<1>2. r \in RowRec
    BY <1>1, ScanEffectKeeps
<1>3. e.arg \in Nat /\ scan.ord \in Int /\ scan.row \in Nat
    BY SongFields DEF Reading, Orders
<1>4. r.time = x.time \/ r.time = x.time + e.arg
    BY <1>1 DEF ScanEffect, RowShape
<1>5. r.flow = x.flow \/ r.flow = f
    BY <1>1 DEF ScanEffect, RowShape
<1> HIDE DEF r
<1>6. r.time >= scan.time
  <2>1. x.time >= scan.time
      BY DEF Rowed
  <2> QED  BY <1>1, <1>3, <1>4, <2>1
<1>7. ASSUME ~Has("GLOBAL_COUNT"), ~scan.valid
      PROVE  /\ r.flow.loop_active >= 0
             /\ r.flow.loop_dest >= 0 => r.flow.loop_active >= 1
             /\ \A c \in Chns : c >= n + 1 => r.flow.loop[c].count = 0
  <2>1. /\ x.flow.loop_active >= 0
        /\ x.flow.loop_dest >= 0 => x.flow.loop_active >= 1
        /\ \A c \in Chns : c >= n => x.flow.loop[c].count = 0
      BY <1>7 DEF Rowed
  <2>2. \A c \in Chns : c \in Int /\ c >= c /\ n \in Int /\ (c >= n + 1 => c >= n /\ c # n)
      BY NumChnAssumption DEF Chns
  <2>3. x.flow.loop[n].count = 0
      BY <2>1, <2>2
  <2> HIDE DEF e
  <2>4. /\ f.loop_active >= 0 /\ (f.loop_dest >= 0 => f.loop_active >= 1)
        /\ \A c \in Chns \ {n} : f.loop[c].count = x.flow.loop[c].count
      BY <1>1, <1>3, <1>7, <2>1, <2>3, FirstLoop
  <2> HIDE DEF f
  <2>5. ASSUME NEW c \in Chns, c >= n + 1  PROVE r.flow.loop[c].count = 0
    <3>1. c >= n /\ c # n
        BY <2>2, <2>5
    <3> QED  BY <1>5, <2>1, <2>4, <3>1
  <2> QED  BY <1>5, <2>1, <2>4, <2>5
<1> QED  BY <1>2, <1>6, <1>7 DEF Rowed, r

\* A first row that is repeated is in a loop.
LEMMA OutcomesRowed ==
    ASSUME SongOK, Shape(scan), Books(scan, control, entry), scan.pc = "row",
           scan.count[scan.ord][scan.row] < CountMod - 1
    PROVE  RowOutcomes \subseteq Rowed(NumChn)
<1> DEFINE n == scan.count[scan.ord][scan.row] + 1
           x == [flow |-> scan.flow, delay |-> 0, inside |-> scan.inside,
                 count |-> n, time |-> scan.time]
           R == [k \in 0 .. NumChn |-> Rowed(k)]
<1>1. n \in 0 .. CountMod - 1
  <2>1. 0 \in 0 .. CountMod - 1 /\ CountMod \in Nat
      BY LimitsAssumption
  <2>2. scan.count[scan.ord][scan.row] \in 0 .. CountMod - 1
      BY <2>1, CountKeeps
  <2> QED  BY <2>1, <2>2
<1>2. /\ scan.flow \in FlowRec /\ ActiveOK(scan.flow) /\ scan.inside \in BOOLEAN
      /\ scan.time \in Int /\ Reading(scan.ord, scan.row)
    BY DEF Shape, ScanRec
<1>3. RowOutcomes = OverChannels(ScanEffect, x)
    BY DEF RowOutcomes
<1> HIDE DEF n
<1>4. x \in RowRec /\ x.flow = scan.flow /\ x.time = scan.time
    BY <1>1, <1>2 DEF RowRec, RowShape
<1> HIDE DEF x
<1>5. x \in Rowed(0)
  <2>1. ~scan.valid => /\ x.flow.loop_active = 0 /\ x.flow.loop_dest = -1
                       /\ \A c \in Chns : x.flow.loop[c].count = 0
      BY <1>4 DEF Books, Unscanned, NONE
  <2> QED  BY <1>2, <1>4, <2>1 DEF Rowed
<1>6. \A k \in 0 .. NumChn : R[k] = Rowed(k)
    OBVIOUS
<1> HIDE DEF R
<1>7. NumChn \in Nat /\ 0 \in 0 .. NumChn /\ NumChn \in 0 .. NumChn
      /\ \A k \in Chns : k \in 0 .. NumChn /\ k + 1 \in 0 .. NumChn
    BY NumChnAssumption DEF Chns
<1>8. \A k \in Chns : \A y \in R[k] : ScanEffect(y, k) \in R[k + 1]
    BY <1>2, <1>6, <1>7, RowedKeeps
<1>9. x \in R[0]
    BY <1>5, <1>6, <1>7
<1>10. OverChannels(ScanEffect, x) \subseteq R[NumChn]
    BY <1>8, <1>9, ChannelsFollow
<1> QED  BY <1>3, <1>6, <1>7, <1>10

LEMMA RowTimed ==
    ASSUME SongOK, Good(scan, control, entry, num_seq), Timed(scan, control, entry), ScanRow
    PROVE  Timed(scan', control', entry')
<1>1. PICK x \in RowOutcomes :
         /\ scan.pc = "row" /\ control' = control /\ entry' = entry
         /\ scan' = IF x.flow.pbreak \/ RowIsOver(AfterRow(x))
                    THEN LeaveOrder(AfterRow(x), x.delay) ELSE AfterRow(x)
    BY DEF ScanRow
<1>2. Shape(scan) /\ scan \in ScanRec /\ Books(scan, control, entry)
    BY DEF Good, Shape, Timed
<1>3. x \in Rowed(NumChn) /\ x \in RowRec /\ x \in RowShape
  <2>1. scan.count[scan.ord][scan.row] < CountMod - 1
      BY DEF ScanRow
  <2>2. x \in Rowed(NumChn)
      BY <1>1, <1>2, <2>1, OutcomesRowed
  <2> QED  BY <2>2 DEF Rowed, RowRec
<1>4. /\ x.flow \in FlowRec /\ x.delay \in Nat /\ x.time \in Int /\ scan.time \in Int
      /\ scan.row \in Nat /\ scan.ord \in Orders /\ Valid(scan.ord)
    BY <1>1, <1>2, <1>3 DEF RowShape, ScanRec, Shape, Reading
<1> DEFINE c == [scan.count EXCEPT ![scan.ord][scan.row] = x.count]
           t == IF x.time + x.delay < TimeCap THEN x.time + x.delay + 1 ELSE TimeCap
           r == IF x.flow.loop_dest >= 0 THEN x.flow.loop_dest ELSE scan.row + 1
           f == [x.flow EXCEPT !.pbreak = FALSE, !.loop_param = NONE, !.loop_dest = NONE]
           a == AfterRow(x)
<1>5. a = [scan EXCEPT !.orders = 0, !.valid = TRUE, !.inside = x.inside, !.count = c,
                       !.time = t, !.rows = scan.rows + 1, !.row = r, !.flow = f]
    BY DEF AfterRow
<1>6. /\ \A o \in Orders \ {scan.ord} : c[o] = scan.count[o]
      /\ \A k \in Counters(scan.ord) \ {scan.row} : c[scan.ord][k] = scan.count[scan.ord][k]
  <2>1. scan.count \in Tables
      BY <1>2 DEF ScanRec
  <2>2. scan.count[scan.ord] \in CountersOf(scan.ord)
      BY <1>4, <2>1 DEF Tables
  <2> QED  BY <1>4, <2>1, <2>2 DEF Tables, CountersOf
<1>7. r \in Nat /\ t \in Int /\ f.loop_active = x.flow.loop_active
    BY <1>4, LimitsAssumption DEF FlowRec
<1>8. ASSUME scan.chain # 0, ~Has("GLOBAL_COUNT")
      PROVE  /\ t >= 1
             /\ t = 1 /\ r \in Counters(scan.ord) =>
                   x.flow.loop_active # 0 \/ c[scan.ord][r] = 0
  <2>1. CASE scan.valid
    <3>1. scan.time >= 1 /\ x.time >= scan.time
        BY <1>3, <1>8, <2>1 DEF Timed, Lasts, Rowed
    <3>2. t >= 2
        BY <1>4, <3>1, LimitsAssumption
    <3> QED  BY <1>7, <3>2
  <2>2. CASE ~scan.valid
    <3>1. scan.time = 0 /\ x.time >= scan.time /\ Uncounted(scan, scan.ord)
        BY <1>2, <1>3, <1>4, <2>2 DEF Rowed, Books, Unscanned
    <3>2. t >= 1
        BY <1>4, <3>1, LimitsAssumption
    <3>3. CASE r = scan.row
      <4>1. x.flow.loop_dest >= 0
          BY <1>4, <3>3
      <4>2. x.flow.loop_active >= 1 /\ x.flow.loop_active \in Int
          BY <1>3, <1>4, <1>8, <2>2, <4>1 DEF Rowed, FlowRec
      <4> QED  BY <3>2, <4>2
    <3>4. CASE r # scan.row
        BY <1>6, <3>1, <3>2, <3>4 DEF Uncounted
    <3> QED  BY <3>3, <3>4
  <2> QED  BY <1>2, <2>1, <2>2 DEF ScanRec
<1> HIDE DEF c, t, r, f, a
<1>9. /\ a.start = scan.start /\ a.valid = TRUE /\ a.chain = scan.chain /\ a.count = c
      /\ a.ep = scan.ep /\ a.time = t /\ a.pc = "row" /\ a.ord = scan.ord /\ a.row = r
      /\ a.flow = f
    BY <1>1, <1>2, <1>5 DEF ScanRec
<1>10. DOMAIN a = DOMAIN scan
    BY <1>2, <1>5 DEF ScanRec
<1>11. (scan' = a /\ ~RowIsOver(a)) \/ scan' = LeaveOrder(a, x.delay)
    BY <1>1 DEF a
<1>12. /\ scan'.start = scan.start /\ scan'.valid = TRUE /\ scan'.chain = scan.chain
       /\ scan'.count = c /\ scan'.ep = scan.ep /\ scan'.time = t
       /\ \/ scan'.pc = "order"
          \/ /\ scan'.pc = "row" /\ scan'.ord = scan.ord /\ scan'.row = r /\ scan'.flow = f
             /\ r \in Counters(scan.ord)
  <2>1. CASE scan' = a /\ ~RowIsOver(a)
    <3>1. r \in Counters(scan.ord)
        BY <1>4, <1>7, <1>9, <2>1, SongFields DEF RowIsOver, Counters
    <3> QED  BY <1>9, <2>1, <3>1
  <2>2. CASE scan' = LeaveOrder(a, x.delay)
    <3>1. /\ scan'.start = a.start /\ scan'.valid = a.valid /\ scan'.chain = a.chain
          /\ scan'.count = a.count /\ scan'.ep = a.ep /\ scan'.time = a.time
          /\ scan'.pc = "order"
        BY <1>2, <1>10, <2>2 DEF LeaveOrder, ScanRec
    <3> QED  BY <1>9, <3>1
  <2> QED  BY <1>11, <2>1, <2>2
<1>13. control[scan.ord] # NO_SEQUENCE
    BY <1>1, <1>2 DEF Books
<1>14. Books(scan', control, entry)
  <2>1. control[scan.ep] # NO_SEQUENCE
    <3>1. ~Begins(scan) /\ Claims(scan, control, entry) /\ scan.chain \in Seqs
        BY <1>1, <1>2 DEF Begins, Good, ScanRec
    <3> QED  BY <3>1, SeqFacts DEF Claims
  <2> QED  BY <1>2, <1>6, <1>12, <1>13, <2>1 DEF Books, Uncounted
<1>15. ASSUME ~Has("GLOBAL_COUNT")  PROVE Lasts(scan', control, entry)
    BY <1>7, <1>8, <1>12, <1>15 DEF Timed, Lasts
<1> QED  BY <1>1, <1>14, <1>15 DEF Timed

\* libxmp_scan_sequences: the next sequence is entered at the first order
\* unclaimed, or the orders of the last scan go to the sequence before.
LEMMA EndsTimed ==
    ASSUME SongOK, Good(scan, control, entry, num_seq), Timed(scan, control, entry), ScanEnds
    PROVE  /\ scan'.pc # "done" => Timed(scan', control', entry')
           /\ scan'.pc = "done" /\ ~Has("GLOBAL_COUNT") => NoneBefore(control', entry')
<1> DEFINE n == NextSequence
           c == scan.chain
<1>1. /\ Shape(scan) /\ scan \in ScanRec /\ control \in ControlType /\ entry \in EntryType
      /\ Claims(scan, control, entry) /\ scan.pc = "end" /\ Books(scan, control, entry)
    BY DEF Good, Shape, ScanEnds, Timed
<1>2. c \in Seqs /\ c \in Nat /\ scan.time \in Int /\ scan.valid \in BOOLEAN
    BY <1>1, SeqFacts DEF ScanRec
<1>3. n \in 1 .. MaxSequences /\ (n = c \/ n = c + 1) /\ n >= c
    BY <1>2, SeqFacts DEF NextSequence, Seqs
<1>4. ASSUME ~Has("GLOBAL_COUNT"), n = c, NEW o \in Orders, Valid(o)  PROVE control[o] # n
  <2>1. Lasts(scan, control, entry)
      BY <1>4 DEF Timed
  <2>2. c # 0 /\ ~(scan.valid /\ scan.time > scan.start)
      BY <1>2, <1>4 DEF NextSequence
  <2>3. ~scan.valid
      BY <1>1, <1>2, <2>1, <2>2 DEF Lasts, Books
  <2> QED  BY <1>1, <1>4, <2>1, <2>2, <2>3 DEF Lasts
<1>5. ASSUME NEW o \in Orders  PROVE control[o] = NO_SEQUENCE \/ control[o] \in 0 .. c
  <2>1. control[o] = NO_SEQUENCE \/ control[o] <= c
      BY <1>1 DEF Books
  <2>2. control[o] = NO_SEQUENCE \/ control[o] \in Nat
      BY <1>1, SeqFacts DEF ControlType
  <2> HIDE DEF c
  <2> QED  BY <1>2, <2>1, <2>2
<1> HIDE DEF n, c
<1>6. CASE Unclaimed # {} /\ n < MaxSequences
  <2> DEFINE ep == NextEntry
             b == BeginScan(ep, n)
  <2>1. entry' = [entry EXCEPT ![n] = ep] /\ scan' = b /\ control' = control
      BY <1>6 DEF ScanEnds, n
  <2>2. ep \in Orders /\ control[ep] = NO_SEQUENCE
        /\ \A o \in Orders : control[o] = NO_SEQUENCE => ep <= o
    <3>1. Unclaimed \subseteq Nat
        BY OrderFacts DEF Unclaimed
    <3>2. ep \in Unclaimed /\ \A o \in Unclaimed : ep <= o
        BY <1>6, <3>1, LeastFound DEF NextEntry
    <3> QED  BY <3>2 DEF Unclaimed
  <2>3. n \in Seqs /\ n # 0
      BY <1>3, <1>6, SeqFacts DEF Seqs
  <2>4. entry'[n] = ep /\ \A t \in Seqs \ {n} : entry'[t] = entry[t]
      BY <1>1, <2>1, <2>3 DEF EntryType
  <2>5. /\ b.start = 0 /\ b.valid = FALSE /\ b.chain = n /\ b.pc = "order" /\ b.rows = 0
        /\ b.time = 0 /\ b.flow = ResetFlow
        /\ \A o \in Orders : Uncounted(b, o)
      BY DEF BeginScan, Uncounted, Counters
  <2> HIDE DEF b, ep
  <2>6. Unscanned(b)
      BY <2>5 DEF Unscanned, ResetFlow
  <2>7. Books(b, control, entry')
    <3>1. ASSUME NEW o \in Orders, control[o] = NO_SEQUENCE, NEW t \in 0 .. n
          PROVE  entry'[t] <= o
      <4>1. CASE t = n
          BY <2>2, <2>4, <3>1, <4>1
      <4>2. CASE t # n
        <5>1. t \in 0 .. c /\ t \in Seqs
            BY <1>2, <1>3, <2>3, <4>2, SeqFacts DEF Seqs
        <5>2. entry[t] <= o
            BY <1>1, <3>1, <5>1 DEF Books, c
        <5> QED  BY <2>4, <4>2, <5>1, <5>2
      <4> QED  BY <4>1, <4>2
    <3>2. ASSUME NEW o \in Orders  PROVE control[o] = NO_SEQUENCE \/ control[o] <= n
      <4>1. control[o] = NO_SEQUENCE \/ control[o] \in 0 .. c
          BY <1>5
      <4> QED  BY <1>2, <1>3, <4>1
    <3> QED  BY <2>3, <2>5, <2>6, <3>1, <3>2 DEF Books
  <2>8. ASSUME ~Has("GLOBAL_COUNT")  PROVE Lasts(b, control, entry')
    <3>1. ASSUME NEW o \in Orders, Valid(o)  PROVE control[o] # n
      <4>1. CASE n = c
          BY <1>4, <2>8, <3>1, <4>1
      <4>2. CASE n = c + 1
        <5>1. control[o] = NO_SEQUENCE \/ control[o] \in 0 .. c
            BY <1>5
        <5>2. n # NO_SEQUENCE
            BY <2>3, SeqFacts
        <5> QED  BY <1>2, <4>2, <5>1, <5>2
      <4> QED  BY <1>3, <4>1, <4>2
    <3>2. ASSUME NEW o \in Orders, Valid(o), control[o] # NO_SEQUENCE
          PROVE  entry'[control[o]] <= o
      <4>1. control[o] # n /\ control[o] \in Seqs
          BY <1>1, <3>1, <3>2 DEF ControlType
      <4>2. entry[control[o]] <= o
          BY <2>8, <3>2 DEF Timed, Lasts
      <4> QED  BY <2>4, <4>1, <4>2
    <3> QED  BY <2>5, <3>1, <3>2 DEF Lasts
  <2>9. scan'.pc # "done"
      BY <2>1, <2>5
  <2> QED  BY <2>1, <2>7, <2>8, <2>9 DEF Timed
<1>7. CASE ~(Unclaimed # {} /\ n < MaxSequences)
  <2>1. /\ entry' = [s \in Seqs |-> IF s < n THEN entry[s] ELSE 0]
        /\ control' = Corrected(n) /\ scan'.pc = "done"
      BY <1>1, <1>7 DEF ScanEnds, ScanRec, n
  <2>2. ASSUME ~Has("GLOBAL_COUNT"), NEW o \in Orders, Valid(o)
        PROVE  entry'[Corrected(n)[o]] <= o
    <3> DEFINE known == {k \in 0 .. o : control[k] < n}
               s == Corrected(n)[o]
    <3>1. /\ s \in Seqs /\ s < n /\ (control[o] < n => s = control[o])
      <4>1. /\ Corrected(n) \in ControlType
            /\ \A p \in Orders : Corrected(n)[p] < n
            /\ \A p \in Orders : control[p] < n => Corrected(n)[p] = control[p]
          BY <1>1, <1>3, CorrectedSettles
      <4>2. s \in Seqs \cup {NO_SEQUENCE} /\ s < n
          BY <4>1 DEF ControlType
      <4>3. s # NO_SEQUENCE
          BY <1>3, <4>2, SeqFacts
      <4> QED  BY <4>1, <4>2, <4>3
    <3>2. entry'[s] = entry[s]
        BY <2>1, <3>1
    <3>3. s = IF known = {} THEN 0 ELSE control[Largest(known)]
        BY DEF Corrected
    <3>4. o \in Nat /\ 0 .. o \subseteq Orders
        BY SongFields DEF Orders
    <3>5. CASE control[o] < n
      <4>1. control[o] # NO_SEQUENCE /\ s = control[o]
          BY <1>3, <3>1, <3>5, SeqFacts
      <4> HIDE DEF s
      <4>2. entry[s] <= o
          BY <2>2, <4>1 DEF Timed, Lasts
      <4> QED  BY <3>2, <4>2 DEF s
    <3>6. CASE ~(control[o] < n)
      <4>1. control[o] = NO_SEQUENCE
        <5>1. SUFFICES ASSUME control[o] \in 0 .. c  PROVE FALSE
            BY <1>5
        <5>2. n = c /\ control[o] = n
            BY <1>2, <1>3, <3>6, <5>1
        <5> QED  BY <1>4, <2>2, <5>2
      <4>2. CASE known = {}
          BY <1>1, <3>2, <3>3, <3>4, <4>2 DEF Claims
      <4>3. CASE known # {}
        <5>1. Largest(known) \in known
          <6> HIDE DEF known
          <6>1. known \subseteq 0 .. o
              BY DEF known
          <6> QED  BY <3>4, <4>3, <6>1, LargestFound
        <5>2. PICK k \in Orders : control[k] < n /\ s = control[k]
            BY <3>3, <3>4, <4>3, <5>1
        <5> HIDE DEF known, s
        <5>3. s # NO_SEQUENCE
            BY <3>1, SeqFacts
        <5>4. s \in 0 .. c
            BY <1>5, <5>2, <5>3
        <5>5. entry[s] <= o
            BY <1>1, <4>1, <5>4 DEF Books, c
        <5> QED  BY <3>2, <5>5 DEF s
      <4> QED  BY <4>2, <4>3
    <3> QED  BY <3>5, <3>6
  <2> QED  BY <2>1, <2>2 DEF NoneBefore
<1> QED  BY <1>6, <1>7

-----------------------------------------------------------------------------
(* Where sequences end                                                     *)

\* The scan reaches order v from order o, as no end marker lies in between.
Leads(o, v) ==
    v \in Orders /\ Valid(v) /\ o <= v /\ \A k \in o .. v - 1 : ~EndMarked(k)

\* The position can be played.
EndExists(e) == e.ord \in Orders /\ Valid(e.ord) /\ e.row \in Nat /\ e.row < Rows(e.ord)

\* Once something was scanned an order that can be played follows the entry
\* point, so that the scan, which may pass the list twice, finds it before it
\* gives up: up to the end of the list it has counted the orders it has seen,
\* after it those from the entry point on, too.
Reaches(s) ==
    /\ s.pc = "end" /\ s.valid => s.ord \in Orders /\ Valid(s.ord)
    /\ s.pc = "order" /\ ~s.valid => \/ s.ord = song.len
                                     \/ /\ s.ord \in s.ep - 1 .. song.len - 1
                                        /\ \A k \in s.ep .. s.ord : ~EndMarked(k)
    /\ s.valid \/ s.pc = "row" => \E v \in Orders : Leads(s.ep, v)
    /\ s.pc = "order" /\ s.valid =>
          \/ s.orders <= s.ord + 1 /\ s.orders <= song.len
          \/ /\ s.ord >= s.ep /\ s.orders <= song.len + 1 + s.ord - s.ep
             /\ \E v \in Orders : Leads(s.ep, v) /\ s.ord < v

EndsType == [Seqs -> [ord : Int, row : Nat, num : 0 .. CountMod - 1]]

\* Before the last step, es is the table of the ends.
Ending(s, es) ==
    /\ es \in EndsType
    /\ Reaches(s)
    /\ \A t \in 1 .. s.chain - 1 : EndExists(es[t])

\* The restart position and the entry point, once its scan has begun, are the
\* sequence's own: another one than the main may not use them again.
LEMMA WrapsToTaken ==
    ASSUME SongOK, Good(scan, control, entry, num_seq), scan.pc = "order", Wraps
    PROVE  /\ scan.chain # 0 => Taken(Upcoming)
           /\ \/ Upcoming = scan.ep
              \/ Valid(Upcoming) /\ control[Upcoming] = scan.chain
<1>1. /\ scan \in ScanRec /\ Claims(scan, control, entry) /\ (scan.ep = 0 <=> scan.chain = 0)
    BY DEF Good, Shape
<1>2. scan.chain \in Seqs /\ scan.chain # NO_SEQUENCE
    BY <1>1, SeqFacts DEF ScanRec
<1>3. ~Begins(scan)
    BY <1>1, UpcomingFields
<1>4. control[scan.ep] = scan.chain
    BY <1>1, <1>3 DEF Claims
<1>5. Upcoming = scan.ep \/ (Valid(Upcoming) /\ control[Upcoming] = scan.chain)
    BY DEF Upcoming, RestartOrder
<1> QED  BY <1>1, <1>2, <1>4, <1>5 DEF Taken

LEMMA BeginReaches ==
    ASSUME SongOK, NEW ep \in Orders, NEW n
    PROVE  Reaches(BeginScan(ep, n))
<1> DEFINE b == BeginScan(ep, n)
<1>1. b.pc = "order" /\ b.valid = FALSE /\ b.ord = ep - 1 /\ b.ep = ep
    BY DEF BeginScan
<1> HIDE DEF b
<1>2. ep \in 0 .. song.len - 1 /\ song.len \in Nat
    BY SongFields DEF Orders
<1>3. b.ord \in b.ep - 1 .. song.len - 1 /\ \A k \in b.ep .. b.ord : FALSE
    BY <1>1, <1>2
<1> QED  BY <1>1, <1>3 DEF Reaches, b

\* What follows from the shape of a scan.
LEMMA OrderNumbers ==
    ASSUME SongOK, Good(scan, control, entry, num_seq)
    PROVE  /\ scan.ord \in Int /\ scan.ord >= -1 /\ scan.orders \in Nat
           /\ scan.ep \in Nat /\ scan.ep < song.len /\ song.len \in Nat
           /\ scan.valid \in BOOLEAN /\ Upcoming \in Orders
           /\ ~Wraps => Upcoming = scan.ord + 1 /\ scan.ord + 1 < song.len
           /\ Wraps => scan.ord + 1 >= song.len
           /\ OrderLimit \in Nat /\ 2 * song.len <= OrderLimit
<1>1. scan \in ScanRec
    BY DEF Good, Shape
<1>2. song.len \in Nat /\ Upcoming \in Orders
    BY <1>1, SongFields, UpcomingFields
<1>3. scan.ep \in 0 .. song.len - 1
    BY <1>1 DEF ScanRec, Orders
<1>4. /\ scan.ord \in Int /\ scan.ord >= -1 /\ scan.orders \in Nat /\ scan.valid \in BOOLEAN
    BY <1>1 DEF ScanRec
<1>5. ~Wraps => Upcoming = scan.ord + 1 /\ scan.ord + 1 < song.len
    BY <1>2, <1>4 DEF Wraps, Upcoming
<1>6. OrderLimit \in Nat /\ 2 * song.len <= OrderLimit
    BY LimitsAssumption, ListsAssumption DEF SongOK
<1> QED  BY <1>1, <1>2, <1>3, <1>4, <1>5, <1>6 DEF Wraps

\* The scan stops at an order that can be played, or has played none.
LEMMA StopEnding ==
    ASSUME Shape(scan), Ending(scan, ends), NEW o, NEW row,
           scan.valid => o \in Orders /\ Valid(o)
    PROVE  Ending(StopAt(o, row), ends)
<1> DEFINE s == StopAt(o, row)
<1>1. s.pc = "end" /\ s.valid = scan.valid /\ s.chain = scan.chain /\ s.ord = o /\ s.ep = scan.ep
    BY DEF StopAt, Shape, ScanRec
<1> HIDE DEF s
<1>2. Reaches(s)
    BY <1>1 DEF Ending, Reaches
<1> QED  BY <1>1, <1>2 DEF Ending, s

LEMMA StopsEnding ==
    ASSUME SongOK, Good(scan, control, entry, num_seq), Ending(scan, ends),
           ScanGivesUp \/ ScanWrapsToEnd \/ ScanMeetsTaken \/ ScanReturns
    PROVE  Ending(scan', ends')
<1>1. Shape(scan) /\ ends' = ends /\ scan.pc = "order"
    BY DEF Good, ScanGivesUp, ScanWrapsToEnd, ScanMeetsTaken, ScanReturns
<1>2. Upcoming \in Orders
    BY <1>1, UpcomingFields DEF Shape
<1>3. CASE ScanGivesUp
  <2>1. ASSUME scan.valid  PROVE FALSE
    <3>1. Reaches(scan)
        BY <2>1 DEF Ending
    <3>2. scan.orders > OrderLimit
        BY <1>3 DEF ScanGivesUp
    <3>3. \/ scan.orders <= song.len
          \/ /\ scan.orders <= song.len + 1 + scan.ord - scan.ep
             /\ \E v \in Orders : scan.ord < v
        BY <1>1, <2>1, <3>1 DEF Reaches
    <3>4. CASE scan.orders <= song.len
        BY <2>1, <3>2, <3>4, OrderNumbers
    <3>5. ASSUME NEW v \in Orders, scan.ord < v, scan.orders <= song.len + 1 + scan.ord - scan.ep
          PROVE  FALSE
      <4>1. v \in Nat /\ v < song.len
          BY SongFields DEF Orders
      <4>2. scan.orders <= 2 * song.len
          BY <2>1, <3>5, <4>1, OrderNumbers
      <4> QED  BY <2>1, <3>2, <4>2, OrderNumbers
    <3> QED  BY <3>3, <3>4, <3>5
  <2>2. scan' = StopAt(scan.ord, scan.flow.jumpline)
      BY <1>3 DEF ScanGivesUp
  <2> QED  BY <1>1, <2>1, <2>2, StopEnding
<1>4. CASE ScanWrapsToEnd
  <2>1. Wraps /\ EndMarked(Upcoming) /\ scan' = StopAt(Upcoming, scan.flow.jumpline)
      BY <1>4 DEF ScanWrapsToEnd
  <2>2. ASSUME scan.valid  PROVE Valid(Upcoming)
    <3>1. SUFFICES ASSUME Upcoming = scan.ep  PROVE Valid(scan.ep)
        BY <1>1, <2>1, <2>2, WrapsToTaken
    <3>2. PICK v \in Orders : Leads(scan.ep, v)
        BY <2>2 DEF Ending, Reaches
    <3>3. v \in Int /\ scan.ep \in Int /\ scan.ep <= v
        BY <2>2, <3>2, OrderNumbers, SongFields DEF Leads, Orders
    <3>4. CASE scan.ep \in scan.ep .. v - 1
        BY <2>1, <3>1, <3>2, <3>4 DEF Leads
    <3>5. CASE scan.ep = v
        BY <3>2, <3>5 DEF Leads
    <3> QED  BY <3>3, <3>4, <3>5
  <2> QED  BY <1>1, <1>2, <2>1, <2>2, StopEnding
<1>5. CASE ScanMeetsTaken \/ ScanReturns
  <2>1. Valid(Upcoming) /\ \E row : scan' = StopAt(Upcoming, row)
      BY <1>5 DEF ScanMeetsTaken, ScanReturns
  <2> QED  BY <1>1, <1>2, <2>1, StopEnding
<1> QED  BY <1>3, <1>4, <1>5

LEMMA SkipsEnding ==
    ASSUME SongOK, Good(scan, control, entry, num_seq), Ending(scan, ends), ScanSkips
    PROVE  Ending(scan', ends')
<1> DEFINE u == Upcoming
           o == IF EndMarked(u) THEN song.len ELSE u
           s == [scan EXCEPT !.orders = scan.orders + 1, !.ord = o]
<1>1. /\ scan.pc = "order" /\ scan' = s /\ ends' = ends
      /\ ~(Wraps /\ EndMarked(u)) /\ ~Valid(u)
    BY DEF ScanSkips
<1>2. Shape(scan) /\ scan \in ScanRec
    BY DEF Good, Shape
<1> HIDE DEF o
<1>3. /\ s.pc = "order" /\ s.valid = scan.valid /\ s.chain = scan.chain /\ s.ord = o
      /\ s.ep = scan.ep /\ s.orders = scan.orders + 1
    BY <1>1, <1>2 DEF ScanRec
<1> HIDE DEF s
<1>4. Reaches(s)
  <2>1. /\ scan.ord \in Int /\ scan.ord >= -1 /\ scan.orders \in Nat
        /\ scan.ep \in Nat /\ scan.ep < song.len /\ song.len \in Nat
        /\ scan.valid \in BOOLEAN /\ u \in Orders /\ u \in 0 .. song.len - 1
        /\ ~Wraps => u = scan.ord + 1 /\ scan.ord + 1 < song.len
        /\ Wraps => scan.ord + 1 >= song.len
      BY OrderNumbers DEF Orders
  <2>2. Wraps => u = scan.ep
      BY <1>1, WrapsToTaken
  <2>3. Reaches(scan)
      BY DEF Ending
  <2> HIDE DEF u
  <2>4. ASSUME ~scan.valid
        PROVE  \/ s.ord = song.len
               \/ /\ s.ord \in s.ep - 1 .. song.len - 1
                  /\ \A k \in s.ep .. s.ord : ~EndMarked(k)
    <3>1. CASE EndMarked(u)
        BY <1>3, <3>1 DEF o
    <3>2. CASE ~EndMarked(u) /\ Wraps
      <4>1. s.ord = scan.ep /\ s.ep = scan.ep
          BY <1>3, <2>2, <3>2 DEF o
      <4>2. \A k \in s.ep .. s.ord : k = u
          BY <2>1, <2>2, <3>2, <4>1
      <4> QED  BY <2>1, <3>2, <4>1, <4>2
    <3>3. CASE ~EndMarked(u) /\ ~Wraps
      <4>1. s.ord = scan.ord + 1 /\ s.ep = scan.ep /\ u = scan.ord + 1
          BY <1>3, <2>1, <3>3 DEF o
      <4>2. /\ scan.ord \in scan.ep - 1 .. song.len - 1
            /\ \A k \in scan.ep .. scan.ord : ~EndMarked(k)
          BY <1>1, <2>1, <2>3, <2>4, <3>3 DEF Reaches
      <4>3. ASSUME NEW k \in s.ep .. s.ord  PROVE ~EndMarked(k)
        <5>1. k \in scan.ep .. scan.ord \/ k = u
            BY <2>1, <4>1
        <5> QED  BY <3>3, <4>2, <5>1
      <4> QED  BY <2>1, <3>3, <4>1, <4>2, <4>3
    <3> QED  BY <3>1, <3>2, <3>3
  <2>5. ASSUME scan.valid
        PROVE  \/ s.orders <= s.ord + 1 /\ s.orders <= song.len
               \/ /\ s.ord >= s.ep /\ s.orders <= song.len + 1 + s.ord - s.ep
                  /\ \E v \in Orders : Leads(s.ep, v) /\ s.ord < v
    <3>1. CASE scan.orders <= scan.ord + 1 /\ scan.orders <= song.len
      <4>1. CASE Wraps
        <5>1. s.ord = scan.ep /\ u = scan.ep
            BY <1>1, <1>3, <2>2, <4>1 DEF o
        <5>2. PICK v \in Orders : Leads(scan.ep, v)
            BY <2>3, <2>5 DEF Reaches
        <5>3. v # scan.ep /\ v \in Int /\ scan.ep <= v
            BY <1>1, <5>1, <5>2, SongFields DEF Leads, Orders, u
        <5>4. s.ord < v /\ s.orders <= song.len + 1 + s.ord - s.ep /\ s.ord >= s.ep
            BY <1>3, <2>1, <3>1, <5>1, <5>3
        <5> QED  BY <1>3, <5>2, <5>4
      <4>2. CASE ~Wraps
        <5>1. s.ord = scan.ord + 1 \/ s.ord = song.len
            BY <1>3, <2>1, <4>2 DEF o
        <5> QED  BY <1>3, <2>1, <3>1, <4>2, <5>1
      <4> QED  BY <4>1, <4>2
    <3>2. ASSUME scan.ord >= scan.ep, scan.orders <= song.len + 1 + scan.ord - scan.ep,
                 NEW v \in Orders, Leads(scan.ep, v), scan.ord < v
          PROVE  /\ s.ord >= s.ep /\ s.orders <= song.len + 1 + s.ord - s.ep
                 /\ s.ord < v
      <4>1. v \in Int /\ v < song.len /\ Valid(v)
          BY <2>1, <3>2 DEF Leads, Orders
      <4>2. ~Wraps /\ u = scan.ord + 1
          BY <2>1, <3>2, <4>1
      <4>3. u # v
          BY <1>1, <4>1 DEF u
      <4>4. u \in scan.ep .. v - 1
          BY <2>1, <3>2, <4>1, <4>2, <4>3
      <4>5. s.ord = u
          BY <1>3, <3>2, <4>4 DEF Leads, o
      <4> QED  BY <1>3, <2>1, <3>2, <4>1, <4>2, <4>4, <4>5
    <3>3. \/ scan.orders <= scan.ord + 1 /\ scan.orders <= song.len
          \/ /\ scan.ord >= scan.ep /\ scan.orders <= song.len + 1 + scan.ord - scan.ep
             /\ \E v \in Orders : Leads(scan.ep, v) /\ scan.ord < v
        BY <1>1, <2>3, <2>5 DEF Reaches
    <3> QED  BY <1>3, <3>1, <3>2, <3>3
  <2>6. s.valid => \E v \in Orders : Leads(s.ep, v)
      BY <1>3, <2>3 DEF Reaches
  <2> QED  BY <1>3, <2>4, <2>5, <2>6 DEF Reaches
<1> QED  BY <1>1, <1>3, <1>4 DEF Ending

\* An order that is entered follows the entry point.
LEMMA PlaysFrom ==
    ASSUME SongOK, Good(scan, control, entry, num_seq), Timed(scan, control, entry),
           Reaches(scan), scan.pc = "order", Valid(Upcoming), ~Taken(Upcoming)
    PROVE  \E v \in Orders : Leads(scan.ep, v)
<1>1. CASE scan.valid
    BY <1>1 DEF Reaches
<1>2. CASE ~scan.valid /\ Wraps
  <2>1. scan.chain = 0 => control[Upcoming] # 0
      BY <1>2, OrderNumbers DEF Timed, Books
  <2>2. Upcoming = scan.ep
      BY <1>2, <2>1, WrapsToTaken
  <2>3. scan.ep \in Int /\ scan.ep \in Orders
      BY <2>2, OrderNumbers
  <2>4. Leads(scan.ep, scan.ep)
      BY <2>2, <2>3 DEF Leads
  <2> QED  BY <2>3, <2>4
<1>3. CASE ~scan.valid /\ ~Wraps
  <2>1. /\ scan.ord \in Int /\ scan.ep \in Nat /\ Upcoming = scan.ord + 1
        /\ scan.ord + 1 < song.len /\ Upcoming \in Orders /\ song.len \in Nat
      BY <1>3, OrderNumbers
  <2>2. /\ scan.ord \in scan.ep - 1 .. song.len - 1
        /\ \A k \in scan.ep .. scan.ord : ~EndMarked(k)
      BY <1>3, <2>1 DEF Reaches
  <2>3. Leads(scan.ep, Upcoming)
      BY <2>1, <2>2 DEF Leads
  <2> QED  BY <2>1, <2>3
<1> QED  BY <1>1, <1>2, <1>3, OrderNumbers

LEMMA EntersEnding ==
    ASSUME SongOK, Good(scan, control, entry, num_seq), Timed(scan, control, entry),
           Ending(scan, ends), ScanEnters
    PROVE  Ending(scan', ends')
<1>1. /\ scan.pc = "order" /\ ends' = ends /\ Valid(Upcoming) /\ ~Taken(Upcoming)
    BY DEF ScanEnters
<1>2. Shape(scan) /\ scan \in ScanRec
    BY DEF Good, Shape
<1>3. scan'.pc = "row" /\ scan'.valid = scan.valid /\ scan'.chain = scan.chain /\ scan'.ep = scan.ep
    BY <1>2 DEF ScanEnters, ScanRec
<1>4. \E v \in Orders : Leads(scan.ep, v)
    BY <1>1, PlaysFrom DEF Ending
<1>5. Reaches(scan')
    BY <1>3, <1>4 DEF Reaches
<1> QED  BY <1>1, <1>3, <1>5 DEF Ending

LEMMA RowsEnding ==
    ASSUME SongOK, Good(scan, control, entry, num_seq), Good(scan', control', entry', num_seq'),
           Ending(scan, ends), ScanFindsEnd \/ ScanRow \/ ScanOverflows
    PROVE  Ending(scan', ends')
<1>1. Shape(scan) /\ scan \in ScanRec /\ scan' \in ScanRec
    BY DEF Good, Shape
<1>2. scan.pc = "row" /\ ends' = ends /\ scan.ord \in Orders /\ Valid(scan.ord)
    BY <1>1 DEF ScanFindsEnd, ScanRow, ScanOverflows, Shape, Reading
<1>3. /\ scan'.chain = scan.chain /\ scan'.ep = scan.ep
      /\ \/ scan'.pc = "end" /\ scan'.ord = scan.ord
         \/ scan'.pc = "row"
         \/ scan'.pc = "order" /\ scan'.orders = 0
  <2>1. CASE ScanFindsEnd \/ ScanOverflows
      BY <1>1, <2>1 DEF ScanFindsEnd, ScanOverflows, ScanRec
  <2>2. CASE ScanRow
    <3>1. PICK x : scan' = LeaveOrder(AfterRow(x), x.delay) \/ scan' = AfterRow(x)
        BY <2>2 DEF ScanRow
    <3>2. LET a == AfterRow(x) IN a.chain = scan.chain /\ a.ep = scan.ep /\ a.pc = "row"
                                  /\ a.orders = 0
        BY <1>1, <1>2 DEF AfterRow, ScanRec
    <3>3. DOMAIN AfterRow(x) = DOMAIN scan
        BY DEF AfterRow
    <3>4. scan' = LeaveOrder(AfterRow(x), x.delay) =>
             /\ scan'.chain = scan.chain /\ scan'.ep = scan.ep /\ scan'.pc = "order"
             /\ scan'.orders = 0
        BY <1>1, <3>2, <3>3 DEF LeaveOrder, ScanRec
    <3> QED  BY <3>1, <3>2, <3>4
  <2> QED  BY <2>1, <2>2
<1>4. Reaches(scan')
  <2>1. \E v \in Orders : Leads(scan.ep, v)
      BY <1>2 DEF Ending, Reaches
  <2>2. scan'.valid \/ scan'.pc # "order"
    <3>1. CASE ScanFindsEnd \/ ScanOverflows
        BY <1>1, <3>1 DEF ScanFindsEnd, ScanOverflows, ScanRec
    <3>2. CASE ScanRow
      <4>1. PICK x : scan' = LeaveOrder(AfterRow(x), x.delay) \/ scan' = AfterRow(x)
          BY <3>2 DEF ScanRow
      <4>2. AfterRow(x).valid /\ DOMAIN AfterRow(x) = DOMAIN scan
          BY <1>1 DEF AfterRow, ScanRec
      <4>3. LeaveOrder(AfterRow(x), x.delay).valid
          BY <1>1, <4>2 DEF LeaveOrder, ScanRec
      <4> QED  BY <4>1, <4>2, <4>3
    <3> QED  BY <3>1, <3>2
  <2>3. scan'.pc = "order" => scan'.orders <= scan'.ord + 1 /\ scan'.orders <= song.len
    <3>1. scan'.ord \in Int /\ scan'.ord >= -1 /\ song.len \in Nat
        BY <1>1, SongFields DEF ScanRec
    <3> QED  BY <1>3, <3>1
  <2>4. scan'.pc = "end" => scan'.ord \in Orders /\ Valid(scan'.ord)
      BY <1>2, <1>3
  <2> QED  BY <1>1, <1>3, <2>1, <2>2, <2>3, <2>4 DEF Reaches, ScanRec
<1> QED  BY <1>2, <1>3, <1>4 DEF Ending

\* A sequence that counts has an end that can be played.
LEMMA EndsEnding ==
    ASSUME SongOK, Good(scan, control, entry, num_seq), Ending(scan, ends), ScanEnds
    PROVE  /\ scan'.pc # "done" => Ending(scan', ends')
           /\ scan'.pc = "done" => \A t \in 1 .. num_seq' - 1 : EndExists(ends'[t])
           /\ ends' \in EndsType
<1> DEFINE n == NextSequence
           c == scan.chain
<1>1. /\ Shape(scan) /\ scan \in ScanRec /\ scan.pc = "end"
      /\ ends' = IF scan.valid THEN [ends EXCEPT ![c] = EndsHere] ELSE ends
    BY DEF Good, Shape, ScanEnds
<1>2. c \in Seqs /\ c \in Nat /\ ends \in EndsType /\ scan.row \in Nat
    BY <1>1, SeqFacts DEF ScanRec, Ending
<1>3. n \in Nat /\ n <= c + 1 /\ (n = c + 1 => c = 0 \/ scan.valid)
    BY <1>2 DEF NextSequence
<1> HIDE DEF n
<1>4. (scan.valid => ends'[c] = EndsHere) /\ \A t \in Seqs \ {c} : ends'[t] = ends[t]
    BY <1>1, <1>2 DEF EndsType
<1>5. scan.valid => EndExists(EndsHere) /\ EndsHere \in [ord : Int, row : Nat, num : 0 .. CountMod - 1]
  <2>1. SUFFICES ASSUME scan.valid
                 PROVE  EndExists(EndsHere)
                        /\ EndsHere \in [ord : Int, row : Nat, num : 0 .. CountMod - 1]
      OBVIOUS
  <2>2. scan.ord \in Orders /\ Valid(scan.ord) /\ scan.ord \in Int
      BY <1>1, <2>1, OrderFacts DEF Ending, Reaches
  <2>3. Rows(scan.ord) \in Nat \ {0}
      BY <2>2, SongFields
  <2>4. EndRow \in Nat /\ EndRow < Rows(scan.ord)
      BY <1>2, <2>2, <2>3 DEF EndRow
  <2>5. scan.count[scan.ord][EndRow] \in 0 .. CountMod - 1
    <3>1. EndRow \in Counters(scan.ord)
        BY <2>2, <2>3, <2>4 DEF Counters
    <3>2. scan.count[scan.ord] \in CountersOf(scan.ord)
        BY <1>1, <2>2 DEF ScanRec, Tables
    <3> QED  BY <3>1, <3>2 DEF CountersOf
  <2> QED  BY <2>2, <2>4, <2>5 DEF EndExists, EndsHere
<1>9. ends' \in EndsType
    BY <1>1, <1>2, <1>5 DEF EndsType
<1>6. ASSUME NEW t \in 1 .. n - 1  PROVE EndExists(ends'[t])
  <2>1. t \in 1 .. c - 1 \/ (t = c /\ n = c + 1)
      BY <1>2, <1>3, <1>6
  <2>2. CASE t = c /\ n = c + 1
      BY <1>3, <1>4, <1>5, <1>6, <2>2
  <2>3. CASE t \in 1 .. c - 1
    <3>1. t \in Seqs /\ t # c
      <4> HIDE DEF c
      <4>1. c < MaxSequences /\ c \in Nat /\ MaxSequences \in Nat
          BY <1>2, SeqFacts DEF Seqs
      <4> QED  BY <2>3, <4>1 DEF Seqs
    <3> QED  BY <1>4, <2>3, <3>1 DEF Ending
  <2> QED  BY <2>1, <2>2, <2>3
<1>7. CASE Unclaimed # {} /\ n < MaxSequences
  <2> DEFINE ep == NextEntry
             b == BeginScan(ep, n)
  <2>1. scan' = b
      BY <1>7 DEF ScanEnds, n
  <2>2. ep \in Orders
    <3>1. Unclaimed \subseteq Nat
        BY OrderFacts DEF Unclaimed
    <3>2. ep \in Unclaimed
        BY <1>7, <3>1, LeastFound DEF NextEntry
    <3> QED  BY <3>2 DEF Unclaimed
  <2>3. b.pc = "order" /\ b.chain = n
      BY DEF BeginScan
  <2>4. Reaches(b)
      BY <2>2, BeginReaches
  <2> HIDE DEF b, ep
  <2> QED  BY <1>6, <1>9, <2>1, <2>3, <2>4 DEF Ending
<1>8. CASE ~(Unclaimed # {} /\ n < MaxSequences)
  <2>1. scan'.pc = "done" /\ num_seq' = n
      BY <1>1, <1>8 DEF ScanEnds, ScanRec, n
  <2> QED  BY <1>6, <1>9, <2>1
<1> QED  BY <1>7, <1>8

-----------------------------------------------------------------------------
(* Where the player finds the orders                                       *)

\* Nothing can be played in the main sequence, as the scan enters it.
Blank == \A v \in Orders : ~Leads(0, v)

\* An order that can be played follows every entry point, but perhaps the main
\* sequence's: that one has then claimed nothing but the orders up to the first
\* end marker.
Founded(s, ct, en) ==
    /\ \A t \in 1 .. s.chain - 1 : \E v \in Orders : Leads(en[t], v)
    /\ Blank =>
          /\ \A o \in Orders : Valid(o) => ct[o] # 0
          /\ \A j, k \in Orders : k < j /\ ct[j] = 0 => ct[k] = 0
          /\ s.chain = 0 /\ s.pc = "order" /\ s.ord \in Orders => ct[s.ord] = 0

\* An order that can be played is in a sequence where the player finds one.
Leading(ct, en) == \A o \in Orders : Valid(o) => \E v \in Orders : Leads(en[ct[o]], v)

LEMMA OrderFounded ==
    ASSUME SongOK, Good(scan, control, entry, num_seq), Timed(scan, control, entry),
           Reaches(scan), Founded(scan, control, entry),
           ScanGivesUp \/ ScanWrapsToEnd \/ ScanSkips \/ ScanMeetsTaken \/ ScanReturns \/ ScanEnters
    PROVE  Founded(scan', control', entry')
<1> DEFINE u == Upcoming
           c == scan.chain
<1>1. scan.pc = "order" /\ entry' = entry
    BY DEF ScanGivesUp, ScanWrapsToEnd, ScanSkips, ScanMeetsTaken, ScanReturns, ScanEnters
<1>2. /\ Shape(scan) /\ scan \in ScanRec /\ control \in ControlType
      /\ (scan.ep = 0 <=> c = 0)
    BY DEF Good, Shape
<1>3. u \in Orders /\ Orders \subseteq Nat /\ song.len \in Nat /\ c \in Seqs
    BY <1>2, UpcomingFields, OrderFacts, SongFields DEF ScanRec
<1>4. scan'.chain = c
    BY <1>2 DEF ScanGivesUp, ScanWrapsToEnd, ScanSkips, ScanMeetsTaken, ScanReturns, ScanEnters,
                StopAt, ScanRec
<1>5. control' = control \/ (~Taken(u) /\ control' = [control EXCEPT ![u] = c])
    BY DEF ScanGivesUp, ScanWrapsToEnd, ScanSkips, ScanMeetsTaken, ScanReturns, ScanEnters
<1>6. ~Taken(u) => c = 0 \/ control[u] = NO_SEQUENCE
    BY <1>1, <1>3, NotTaken
<1> HIDE DEF u, c
<1>7. ASSUME Blank
      PROVE  /\ \A o \in Orders : Valid(o) => control'[o] # 0
             /\ \A j, k \in Orders : k < j /\ control'[j] = 0 => control'[k] = 0
             /\ scan'.chain = 0 /\ scan'.pc = "order" /\ scan'.ord \in Orders =>
                   control'[scan'.ord] = 0
  <2>1. /\ \A o \in Orders : Valid(o) => control[o] # 0
        /\ \A j, k \in Orders : k < j /\ control[j] = 0 => control[k] = 0
        /\ c = 0 /\ scan.ord \in Orders => control[scan.ord] = 0
      BY <1>1, <1>7 DEF Founded, c
  <2>2. CASE c # 0
    <3>1. \A o \in Orders : control'[o] = 0 <=> control[o] = 0
        BY <1>2, <1>3, <1>5, <1>6, <2>2, SeqFacts DEF ControlType
    <3> QED  BY <1>4, <2>1, <2>2, <3>1
  <2>3. CASE c = 0
    <3>1. ~Taken(u)
        BY <1>2, <2>3 DEF Taken
    <3>2. ~Valid(u)
        BY <1>1, <1>2, <1>7, <2>3, <3>1, PlaysFrom DEF Blank, u
    <3>3. CASE control' = control /\ scan'.pc # "order"
        BY <2>1, <3>3
    <3>4. CASE ScanSkips
      <4>1. control' = [control EXCEPT ![u] = 0]
          BY <2>3, <3>1, <3>4 DEF ScanSkips, u, c
      <4>2. control'[u] = 0 /\ \A o \in Orders \ {u} : control'[o] = control[o]
          BY <1>2, <1>3, <4>1 DEF ControlType
      <4>3. scan'.ord = song.len \/ scan'.ord = u
          BY <1>2, <3>4 DEF ScanSkips, ScanRec, u
      <4>4. song.len \notin Orders
          BY <1>3 DEF Orders
      <4>5. \A k \in Orders : k < u => control[k] = 0
        <5>1. CASE Wraps
          <6>1. u = 0
              BY <1>1, <1>2, <2>3, <3>2, <5>1, WrapsToTaken DEF u
          <6> QED  BY <1>3, <6>1
        <5>2. CASE ~Wraps
          <6>1. u = scan.ord + 1 /\ scan.ord \in Int /\ scan.ord >= -1
              BY <5>2, OrderNumbers DEF u
          <6>2. \A k \in Orders : k < u => k = scan.ord \/ (k < scan.ord /\ scan.ord \in Orders)
            <7> HIDE DEF u
            <7>1. u < song.len
                BY <1>3 DEF Orders
            <7>2. \A k \in Orders : k < u => k <= scan.ord /\ scan.ord \in Orders
                BY <1>3, <6>1, <7>1 DEF Orders
            <7> QED  BY <1>3, <6>1, <7>2
          <6> QED  BY <2>1, <2>3, <6>2
        <5> QED  BY <5>1, <5>2
      <4>6. \A o \in Orders : Valid(o) => control'[o] # 0
          BY <2>1, <3>2, <4>2
      <4>7. \A j, k \in Orders : k < j /\ control'[j] = 0 => control'[k] = 0
          BY <2>1, <4>2, <4>5
      <4> QED  BY <4>2, <4>3, <4>4, <4>6, <4>7
    <3>5. ScanSkips \/ (control' = control /\ scan'.pc # "order")
        BY <1>2, <3>2 DEF ScanGivesUp, ScanWrapsToEnd, ScanMeetsTaken, ScanReturns, ScanEnters,
                          StopAt, ScanRec, u
    <3> QED  BY <3>3, <3>4, <3>5
  <2> QED  BY <2>2, <2>3
<1> QED  BY <1>1, <1>4, <1>7 DEF Founded, c

\* A row that is scanned was entered from the entry point.
LEMMA RowFounded ==
    ASSUME Good(scan, control, entry, num_seq), Reaches(scan), Founded(scan, control, entry),
           ScanFindsEnd \/ ScanRow \/ ScanOverflows, scan'.chain = scan.chain
    PROVE  Founded(scan', control', entry')
<1>1. control' = control /\ entry' = entry /\ scan.pc = "row"
    BY DEF ScanFindsEnd, ScanRow, ScanOverflows
<1>2. Blank => scan.chain # 0
    BY <1>1 DEF Reaches, Blank, Good, Shape
<1> QED  BY <1>1, <1>2 DEF Founded

\* The next scan leaves a sequence that counts, or none that claimed anything.
LEMMA EndsFounded ==
    ASSUME SongOK, Good(scan, control, entry, num_seq), Timed(scan, control, entry),
           Reaches(scan), Founded(scan, control, entry), ScanEnds
    PROVE  /\ scan'.pc # "done" => Founded(scan', control', entry')
           /\ scan'.pc = "done" /\ ~Has("GLOBAL_COUNT") => Leading(control', entry')
<1> DEFINE n == NextSequence
           c == scan.chain
           Found(t) == \E v \in Orders : Leads(entry[t], v)
<1>1. /\ Shape(scan) /\ scan \in ScanRec /\ control \in ControlType /\ entry \in EntryType
      /\ Claims(scan, control, entry) /\ scan.pc = "end" /\ Books(scan, control, entry)
    BY DEF Good, Shape, ScanEnds, Timed
<1>2. c \in Seqs /\ c \in Nat /\ scan.time \in Int /\ scan.valid \in BOOLEAN
    BY <1>1, SeqFacts DEF ScanRec
<1>3. n \in 1 .. MaxSequences /\ (n = c \/ n = c + 1) /\ n >= c
    BY <1>2, SeqFacts DEF NextSequence, Seqs
<1>4. n = c + 1 => c = 0 \/ scan.valid
    BY <1>2 DEF NextSequence
<1>5. scan.valid => Found(c)
    BY <1>1 DEF Reaches, Claims
<1>6. control[scan.ep] = c
    BY <1>1 DEF Claims, Begins
<1> HIDE DEF n, c
<1>7. \A t \in 1 .. n - 1 : Found(t)
  <2>1. \A t \in 1 .. n - 1 : t \in 1 .. c - 1 \/ t = c
      BY <1>2, <1>3
  <2>2. \A t \in 1 .. c - 1 : Found(t)
      BY DEF Founded, c
  <2>3. \A t \in 1 .. n - 1 : t = c => n = c + 1 /\ c # 0
      BY <1>2, <1>3
  <2> QED  BY <1>2, <1>4, <1>5, <2>1, <2>2, <2>3
<1>8. CASE Unclaimed # {} /\ n < MaxSequences
  <2>1. /\ entry' = [entry EXCEPT ![n] = NextEntry] /\ control' = control
        /\ scan'.pc = "order" /\ scan'.chain = n
      BY <1>8 DEF ScanEnds, BeginScan, n
  <2>2. \A t \in 1 .. n - 1 : entry'[t] = entry[t]
    <3>1. MaxSequences \in Nat
        BY LimitsAssumption
    <3>2. \A t \in 1 .. n - 1 : t \in Seqs /\ t # n
        BY <1>3, <3>1 DEF Seqs
    <3> QED  BY <1>1, <2>1, <3>2 DEF EntryType
  <2>3. n # 0
      BY <1>3
  <2> QED  BY <1>7, <2>1, <2>2, <2>3 DEF Founded
<1>9. CASE ~(Unclaimed # {} /\ n < MaxSequences)
  <2>1. /\ entry' = [s \in Seqs |-> IF s < n THEN entry[s] ELSE 0]
        /\ control' = Corrected(n) /\ scan'.pc = "done"
      BY <1>1, <1>9 DEF ScanEnds, ScanRec, n
  <2>2. ASSUME ~Has("GLOBAL_COUNT"), NEW o \in Orders, Valid(o)
        PROVE  \E v \in Orders : Leads(entry'[Corrected(n)[o]], v)
    <3> DEFINE known == {k \in 0 .. o : control[k] < n}
               s == Corrected(n)[o]
    <3>1. /\ s \in Seqs /\ s < n /\ (control[o] < n => s = control[o])
      <4>1. /\ Corrected(n) \in ControlType
            /\ \A p \in Orders : Corrected(n)[p] < n
            /\ \A p \in Orders : control[p] < n => Corrected(n)[p] = control[p]
          BY <1>1, <1>3, CorrectedSettles
      <4>2. s \in Seqs \cup {NO_SEQUENCE} /\ s < n
          BY <4>1 DEF ControlType
      <4>3. s # NO_SEQUENCE
          BY <1>3, <4>2, SeqFacts
      <4> QED  BY <4>1, <4>2, <4>3
    <3>2. entry'[s] = entry[s]
        BY <2>1, <3>1
    <3>3. s = IF known = {} THEN 0 ELSE control[Largest(known)]
        BY DEF Corrected
    <3>4. o \in Nat /\ 0 .. o \subseteq Orders /\ 0 .. o \subseteq Nat
        BY SongFields DEF Orders
    <3> HIDE DEF known, s
    <3>5. SUFFICES Found(s)
        BY <3>2 DEF s
    <3>6. CASE s # 0
      <4>1. s \in 1 .. n - 1
          BY <1>3, <3>1, <3>6, SeqFacts
      <4> QED  BY <1>7, <4>1
    <3>7. CASE s = 0
      <4>1. SUFFICES ASSUME Blank  PROVE FALSE
          BY <1>1, <3>7 DEF Blank, Claims
      <4>2. /\ \A j \in Orders : Valid(j) => control[j] # 0
            /\ \A j, k \in Orders : k < j /\ control[j] = 0 => control[k] = 0
          BY <4>1 DEF Founded
      <4>3. ~(control[o] < n)
          BY <2>2, <3>1, <3>7, <4>2
      <4>4. control[o] = NO_SEQUENCE
        <5>1. control[o] = NO_SEQUENCE \/ (control[o] \in Nat /\ control[o] <= c)
            BY <1>1, SeqFacts DEF ControlType, Books, c
        <5>2. control[o] # NO_SEQUENCE => n = c /\ control[o] = c
            BY <1>2, <1>3, <4>3, <5>1
        <5>3. n = c => control[o] # c
          <6>1. SUFFICES ASSUME n = c  PROVE control[o] # c
              OBVIOUS
          <6>2. c # 0 /\ ~(scan.valid /\ scan.time > scan.start)
              BY <1>2, <1>3, <6>1 DEF NextSequence, n, c
          <6>3. ~scan.valid
              BY <1>1, <1>2, <2>2, <6>2 DEF Lasts, Books, Timed, c
          <6> QED  BY <1>1, <2>2, <6>2, <6>3 DEF Lasts, Timed, c
        <5> QED  BY <5>2, <5>3
      <4>5. n = MaxSequences /\ n >= 2
        <5>1. Unclaimed # {}
            BY <4>4 DEF Unclaimed
        <5> QED  BY <1>3, <1>9, <5>1, LimitsAssumption
      <4>6. 1 \in Seqs /\ 1 \in 0 .. c /\ 1 < n
        <5>1. c >= 1
            BY <1>2, <1>3, <4>5
        <5> QED  BY <1>2, <4>5, <5>1, SeqFacts DEF Seqs
      <4>7. entry[1] \in Orders /\ entry[1] <= o
          BY <1>1, <4>4, <4>6 DEF Books, EntryType, c
      <4>8. control[entry[1]] = 1
        <5>1. CASE c = 1
            BY <1>1, <1>6, <5>1 DEF Claims, c
        <5>2. CASE c # 1
          <6>1. 1 < c
              BY <1>2, <4>6, <5>2
          <6> QED  BY <1>1, <4>6, <6>1 DEF Claims, c
        <5> QED  BY <5>1, <5>2
      <4>9. entry[1] \in known
        <5>1. entry[1] \in 0 .. o
          <6>1. entry[1] \in Nat /\ o \in Nat /\ entry[1] <= o
              BY <4>7, OrderFacts
          <6> QED  BY <6>1
        <5> QED  BY <4>6, <4>8, <5>1 DEF known
      <4>10. Largest(known) \in known /\ entry[1] <= Largest(known)
        <5>1. known \subseteq 0 .. o
            BY DEF known
        <5> QED  BY <3>4, <4>9, <5>1, LargestFound
      <4>11. PICK k \in Orders : control[k] = 0 /\ entry[1] <= k
          BY <3>3, <3>4, <3>7, <4>9, <4>10 DEF known
      <4>12. k # entry[1]
          BY <4>8, <4>11
      <4>13. entry[1] < k
          BY <4>7, <4>11, <4>12, OrderFacts
      <4> QED  BY <4>2, <4>7, <4>8, <4>11, <4>13
    <3> QED  BY <3>6, <3>7
  <2> QED  BY <2>1, <2>2 DEF Leading
<1> QED  BY <1>8, <1>9

-----------------------------------------------------------------------------
(* Every sequence is playable                                              *)

\* In the end no sequence reaches back, the player finds each, and all have an
\* end.
Entered(s, ct, en, es, n) ==
    /\ es \in EndsType
    /\ s.pc = "done" =>
          /\ ~Has("GLOBAL_COUNT") => NoneBefore(ct, en) /\ Leading(ct, en)
          /\ \A t \in 1 .. n - 1 : EndExists(es[t])
    /\ s.pc # "done" => Timed(s, ct, en) /\ Ending(s, es) /\ Founded(s, ct, en)

EntryInv == Entered(scan, control, entry, ends, num_seq)

LEMMA EntryStays ==
    ASSUME song' = song, rules' = rules, Entered(scan', control', entry', ends', num_seq')
    PROVE  EntryInv'
<1>1. Orders' = Orders /\ Seqs' = Seqs /\ Chns' = Chns /\ (Has("GLOBAL_COUNT")' <=> Has("GLOBAL_COUNT"))
    BY DEF Orders, Seqs, Chns, Has, FlowMode
<1>2. \A o : /\ Valid(o)' <=> Valid(o)
             /\ Rows(o)' = Rows(o)
             /\ EndMarked(o)' <=> EndMarked(o)
             /\ Counters(o)' = Counters(o)
    BY DEF Valid, Rows, EndMarked, Counters, Quirks
<1>3. NoneBefore(control', entry') => NoneBefore(control, entry)'
    BY <1>1, <1>2 DEF NoneBefore
<1>4. \A t : EndExists(ends'[t]) => EndExists(ends[t])'
    BY <1>1, <1>2 DEF EndExists
<1>5. Timed(scan', control', entry') => Timed(scan, control, entry)'
  <2>1. \A o : Uncounted(scan', o) <=> Uncounted(scan, o)'
      BY <1>2 DEF Uncounted
  <2>2. Unscanned(scan') => Unscanned(scan)'
      BY <1>1, <2>1 DEF Unscanned
  <2>3. Books(scan', control', entry') => Books(scan, control, entry)'
      BY <1>1, <1>2, <2>1, <2>2 DEF Books
  <2>4. Lasts(scan', control', entry') => Lasts(scan, control, entry)'
      BY <1>1, <1>2 DEF Lasts
  <2> QED  BY <1>1, <2>3, <2>4 DEF Timed
<1>6. \A o, v : Leads(o, v) <=> Leads(o, v)'
    BY <1>1, <1>2 DEF Leads
<1>7. Ending(scan', ends') => Ending(scan, ends)'
  <2>1. Reaches(scan') => Reaches(scan)'
      BY <1>1, <1>2, <1>6 DEF Reaches
  <2> QED  BY <1>1, <1>4, <2>1 DEF Ending
<1>8. Founded(scan', control', entry') => Founded(scan, control, entry)'
    BY <1>1, <1>2, <1>6 DEF Founded, Blank
<1>9. Leading(control', entry') => Leading(control, entry)'
    BY <1>1, <1>2, <1>6 DEF Leading
<1> QED  BY <1>1, <1>3, <1>4, <1>5, <1>7, <1>8, <1>9 DEF EntryInv, Entered

\* The beginning of the first scan, with no order claimed.
LEMMA BeginsEntered ==
    ASSUME SongOK, NEW s, s = BeginScan(0, 0), NEW ct, \A o \in Orders : ct[o] = NO_SEQUENCE,
           NEW en, en[0] = 0, NEW es \in EndsType, NEW n
    PROVE  Entered(s, ct, en, es, n)
<1>1. /\ s.start = 0 /\ s.valid = FALSE /\ s.chain = 0 /\ s.pc = "order" /\ s.rows = 0
      /\ s.time = 0 /\ s.flow = ResetFlow
      /\ \A o \in Orders : Uncounted(s, o)
    BY DEF BeginScan, Uncounted, Counters
<1>2. Unscanned(s)
    BY <1>1 DEF Unscanned, ResetFlow
<1>3. Books(s, ct, en)
    BY <1>1, <1>2, OrderFacts, SeqFacts DEF Books
<1>4. Lasts(s, ct, en)
    BY <1>1 DEF Lasts
<1>5. Ending(s, es)
    BY <1>1, OrderFacts, BeginReaches DEF Ending
<1>6. Founded(s, ct, en)
  <2>1. s.chain = 0 /\ s.ord = -1 /\ s.ord \notin Orders
      BY <1>1, OrderFacts DEF BeginScan
  <2>2. 0 # NO_SEQUENCE
      BY SeqFacts
  <2> QED  BY <2>1, <2>2 DEF Founded
<1> QED  BY <1>1, <1>3, <1>4, <1>5, <1>6 DEF Entered, Timed

LEMMA RowGoesOn ==
    ASSUME Good(scan, control, entry, num_seq), ScanFindsEnd \/ ScanRow \/ ScanOverflows
    PROVE  scan'.pc # "done" /\ scan'.chain = scan.chain
<1>1. scan \in ScanRec
    BY DEF Good, Shape
<1>2. CASE ScanFindsEnd \/ ScanOverflows
    BY <1>1, <1>2 DEF ScanFindsEnd, ScanOverflows, ScanRec
<1>3. CASE ScanRow
  <2>1. PICK x : scan' = LeaveOrder(AfterRow(x), x.delay) \/ scan' = AfterRow(x)
      BY <1>3 DEF ScanRow
  <2>2. AfterRow(x).pc = "row" /\ AfterRow(x).chain = scan.chain /\ DOMAIN AfterRow(x) = DOMAIN scan
      BY <1>1, <1>3 DEF AfterRow, ScanRec, ScanRow
  <2>3. /\ LeaveOrder(AfterRow(x), x.delay).pc = "order"
        /\ LeaveOrder(AfterRow(x), x.delay).chain = scan.chain
      BY <1>1, <2>2 DEF LeaveOrder, ScanRec
  <2> QED  BY <2>1, <2>2, <2>3
<1> QED  BY <1>2, <1>3

LEMMA OrderGoesOn ==
    ASSUME Good(scan, control, entry, num_seq),
           ScanGivesUp \/ ScanWrapsToEnd \/ ScanSkips \/ ScanMeetsTaken \/ ScanReturns \/ ScanEnters
    PROVE  scan'.pc # "done"
<1>1. scan \in ScanRec
    BY DEF Good, Shape
<1> QED  BY <1>1 DEF ScanGivesUp, ScanWrapsToEnd, ScanSkips, ScanMeetsTaken, ScanReturns,
                     ScanEnters, StopAt, ScanRec

LEMMA EntryKeeps ==
    ASSUME ScanInv, ScanInv', EntryInv, [ScanNext]_scanVars
    PROVE  EntryInv'
<1>1. SongOK /\ Good(scan, control, entry, num_seq) /\ Entered(scan, control, entry, ends, num_seq)
    BY DEF ScanInv, SongOK, EntryInv
<1>2. CASE UNCHANGED scanVars
  <2>1. /\ song' = song /\ rules' = rules /\ scan' = scan /\ control' = control
        /\ entry' = entry /\ num_seq' = num_seq /\ ends' = ends
      BY <1>2 DEF scanVars
  <2> QED  BY <1>1, <2>1, EntryStays
<1>3. CASE ScanNext
  <2>1. song' = song /\ rules' = rules /\ scan.pc # "done"
      BY <1>3 DEF ScanNext, ScanGivesUp, ScanWrapsToEnd, ScanSkips, ScanMeetsTaken, ScanReturns,
                  ScanEnters, ScanFindsEnd, ScanRow, ScanOverflows, ScanEnds
  <2>2. /\ Timed(scan, control, entry) /\ Ending(scan, ends) /\ Founded(scan, control, entry)
        /\ Reaches(scan)
      BY <1>1, <2>1 DEF Entered, Ending
  <2>3. CASE ScanFindsEnd \/ ScanRow \/ ScanOverflows
    <3>1. Keeps(scan', control') /\ entry' = entry /\ num_seq' = num_seq
        BY <1>1, <2>3, ScanFindsEndKeeps, ScanRowKeeps, ScanOverflowsKeeps
        DEF ScanFindsEnd, ScanRow, ScanOverflows
    <3>2. Good(scan', control', entry', num_seq')
        BY <3>1 DEF Keeps
    <3>3. Timed(scan', control', entry')
        BY <1>1, <2>2, <2>3, FindsEndTimed, RowTimed, OverflowsTimed
    <3>4. Ending(scan', ends')
        BY <1>1, <2>2, <2>3, <3>2, RowsEnding
    <3>5. scan'.pc # "done" /\ scan'.chain = scan.chain
        BY <1>1, <2>3, RowGoesOn
    <3>6. Founded(scan', control', entry')
        BY <1>1, <2>2, <2>3, <3>5, RowFounded
    <3> QED  BY <2>1, <3>3, <3>4, <3>5, <3>6, EntryStays DEF Entered, Ending
  <2>4. CASE ScanGivesUp \/ ScanWrapsToEnd \/ ScanSkips \/ ScanMeetsTaken \/ ScanReturns \/ ScanEnters
    <3>1. Timed(scan', control', entry')
        BY <1>1, <2>2, <2>4, PassTimed, EntersTimed
    <3>2. Ending(scan', ends')
        BY <1>1, <2>2, <2>4, StopsEnding, SkipsEnding, EntersEnding
    <3>3. scan'.pc # "done"
        BY <1>1, <2>4, OrderGoesOn
    <3>4. Founded(scan', control', entry')
        BY <1>1, <2>2, <2>4, OrderFounded
    <3> QED  BY <2>1, <3>1, <3>2, <3>3, <3>4, EntryStays DEF Entered, Ending
  <2>5. CASE ScanEnds
    <3>1. Entered(scan', control', entry', ends', num_seq')
        BY <1>1, <2>2, <2>5, EndsTimed, EndsEnding, EndsFounded DEF Entered
    <3> QED  BY <2>1, <3>1, EntryStays
  <2> QED  BY <1>3, <2>3, <2>4, <2>5 DEF ScanNext
<1> QED  BY <1>2, <1>3

\* The sequences of a module can be played from their entry points, and end at
\* rows that the player will reach: it can tell that a sequence has looped.
THEOREM SequencesAlwaysPlayable == ScanSpec => []SequencesArePlayable
<1>1. ScanInit => EntryInv
  <2>1. SUFFICES ASSUME ScanInit  PROVE EntryInv
      OBVIOUS
  <2>2. /\ SongOK /\ scan = BeginScan(0, 0) /\ \A o \in Orders : control[o] = NO_SEQUENCE
        /\ entry[0] = 0
      BY <2>1, SeqFacts DEF ScanInit, SongOK
  <2>3. ends \in EndsType
      BY <2>1, LimitsAssumption DEF ScanInit, NoEnd, EndsType
  <2> QED  BY <2>2, <2>3, BeginsEntered DEF EntryInv
<1>2. ScanInv /\ ScanInv' /\ EntryInv /\ [ScanNext]_scanVars => EntryInv'
    BY EntryKeeps
<1>3. EntryInv => SequencesArePlayable
    BY DEF EntryInv, Entered, NoneBefore, EndExists, SequencesArePlayable, Scanned
<1> QED  BY <1>1, <1>2, <1>3, ScanInvariantHolds, PTL DEF ScanSpec

-----------------------------------------------------------------------------
(* Why the scan ends                                                       *)

\* What no step may do to the orders that are left, and what it may do instead.
Advances ==
    /\ Ahead' \subseteq Ahead
    /\ \/ Ahead' # Ahead
       \/ Stage' > Stage
       \/ Stage' = Stage /\ Counted(scan.count, scan'.count)
       \/ /\ Stage' = Stage /\ scan'.count = scan.count /\ scan.pc = "order"
          /\ scan'.pc = "row" \/ scan'.orders \in scan.orders + 1 .. OrderLimit + 1

LEMMA ClaimedStays ==
    ASSUME song' = song, scan'.ep = scan.ep,
           \A p \in Orders : control[p] # NO_SEQUENCE => control'[p] = control[p]
    PROVE  Ahead' \subseteq Ahead
BY DEF Ahead, Unclaimed, Orders

\* The scan stops.
LEMMA StopAdvances ==
    ASSUME Ahead' \subseteq Ahead, scan.pc \in {"order", "row"}, scan'.pc = "end"
    PROVE  Advances
BY DEF Advances, Stage

\* One order that is no pattern.
LEMMA SkipAdvances ==
    ASSUME SongOK, Good(scan, control, entry, num_seq), ScanSkips
    PROVE  Advances
<1> DEFINE o == IF EndMarked(Upcoming) THEN song.len ELSE Upcoming
<1>1. /\ scan.pc = "order" /\ scan.orders <= OrderLimit /\ song' = song
      /\ scan' = [scan EXCEPT !.orders = scan.orders + 1, !.ord = o]
    BY DEF ScanSkips
<1>2. scan \in ScanRec
    BY DEF Good, Shape
<1> HIDE DEF o
<1>3. /\ scan'.pc = "order" /\ scan'.ep = scan.ep /\ scan'.count = scan.count
      /\ scan'.orders = scan.orders + 1 /\ scan.orders \in Nat
    BY <1>1, <1>2 DEF ScanRec
<1>4. Ahead' \subseteq Ahead
  <2>1. Keeps(scan', control')
      BY ScanSkipsKeeps
  <2> QED  BY <1>1, <1>3, <2>1, ClaimedStays DEF Keeps
<1>5. scan.orders + 1 \in scan.orders + 1 .. OrderLimit + 1
    BY <1>1, <1>3, LimitsAssumption
<1> QED  BY <1>1, <1>3, <1>4, <1>5 DEF Advances, Stage

\* One that is.
LEMMA EnterAdvances ==
    ASSUME SongOK, Good(scan, control, entry, num_seq), ScanEnters
    PROVE  Advances
<1>1. scan.pc = "order" /\ song' = song /\ scan \in ScanRec
    BY DEF ScanEnters, Good, Shape
<1>2. scan'.pc = "row" /\ scan'.ep = scan.ep /\ scan'.count = scan.count
    BY <1>1 DEF ScanEnters, ScanRec
<1>3. Ahead' \subseteq Ahead
  <2>1. Keeps(scan', control')
      BY ScanEntersKeeps
  <2> QED  BY <1>1, <1>2, <2>1, ClaimedStays DEF Keeps
<1> QED  BY <1>1, <1>2, <1>3 DEF Advances, Stage

\* A row that is scanned once more: its delay counts, too, but does not wrap.
CountedUp == {x \in RowRec : x.count > scan.count[scan.ord][scan.row]}

LEMMA EffectCounts ==
    ASSUME SongOK, Shape(scan), scan.pc = "row", NEW x \in CountedUp, NEW chn \in Chns
    PROVE  ScanEffect(x, chn) \in CountedUp
<1> DEFINE e == Effect(scan.ord, scan.row, chn)
           r == ScanEffect(x, chn)
           n == scan.count[scan.ord][scan.row]
<1>1. Reading(scan.ord, scan.row)
    BY DEF Shape
<1>2. x \in RowRec /\ x \in RowShape /\ x.count \in 0 .. CountMod - 1 /\ x.count > n
      /\ CountMod \in Nat
    BY LimitsAssumption DEF CountedUp, RowRec, RowShape
<1>3. r \in RowRec
    BY <1>1, <1>2, ScanEffectKeeps
<1>4. e.arg \in Nat
    BY <1>1, SongFields DEF Reading
<1>5. r.count = x.count \/ (r.count = x.count + e.arg)
      \/ (r.count = CountMod - 1)
    BY <1>2 DEF ScanEffect, RowShape
<1>6. n \in 0 .. CountMod - 1
  <2>1. 0 \in 0 .. CountMod - 1
      BY LimitsAssumption
  <2> QED  BY <2>1, CountKeeps
<1> HIDE DEF r, e, n
<1>7. r.count > n
    BY <1>2, <1>4, <1>5, <1>6
<1> QED  BY <1>3, <1>7 DEF CountedUp, r, n

LEMMA OutcomesCount ==
    ASSUME SongOK, Shape(scan), scan.pc = "row",
           scan.count[scan.ord][scan.row] < CountMod - 1
    PROVE  RowOutcomes \subseteq CountedUp
<1> DEFINE k == scan.count[scan.ord][scan.row]
           n == k + 1
           x == [flow |-> scan.flow, delay |-> 0, inside |-> scan.inside,
                 count |-> n, time |-> scan.time]
           R == [i \in 0 .. NumChn |-> CountedUp]
<1>1. n \in 0 .. CountMod - 1 /\ n > k
  <2>1. 0 \in 0 .. CountMod - 1 /\ CountMod \in Nat
      BY LimitsAssumption
  <2>2. scan.count[scan.ord][scan.row] \in 0 .. CountMod - 1
      BY <2>1, CountKeeps
  <2> QED  BY <2>1, <2>2
<1>2. /\ scan.flow \in FlowRec /\ ActiveOK(scan.flow) /\ scan.inside \in BOOLEAN
      /\ scan.time \in Int
    BY DEF Shape, ScanRec
<1>3. RowOutcomes = OverChannels(ScanEffect, x)
    BY DEF RowOutcomes
<1> HIDE DEF n
<1>4. x \in CountedUp
    BY <1>1, <1>2 DEF RowRec, RowShape, CountedUp
<1>5. \A i \in 0 .. NumChn : R[i] = CountedUp
    OBVIOUS
<1> HIDE DEF R, x
<1>6. 0 \in 0 .. NumChn /\ NumChn \in 0 .. NumChn
      /\ \A i \in Chns : i \in 0 .. NumChn /\ i + 1 \in 0 .. NumChn
    BY NumChnAssumption DEF Chns
<1>7. \A i \in Chns : \A y \in R[i] : ScanEffect(y, i) \in R[i + 1]
    BY <1>5, <1>6, EffectCounts
<1>8. x \in R[0]
    BY <1>4, <1>5, <1>6
<1>9. OverChannels(ScanEffect, x) \subseteq R[NumChn]
    BY <1>7, <1>8, ChannelsFollow
<1> QED  BY <1>3, <1>5, <1>6, <1>9

LEMMA RowAdvances ==
    ASSUME SongOK, Good(scan, control, entry, num_seq), ScanRow
    PROVE  Advances
<1>1. PICK x \in RowOutcomes :
         scan' = IF x.flow.pbreak \/ RowIsOver(AfterRow(x))
                 THEN LeaveOrder(AfterRow(x), x.delay) ELSE AfterRow(x)
    BY DEF ScanRow
<1>2. /\ Shape(scan) /\ scan \in ScanRec /\ scan.count \in Tables /\ scan.pc = "row"
      /\ song' = song /\ scan.count[scan.ord][scan.row] < CountMod - 1
    BY DEF Good, Shape, ScanRow, ScanRec
<1>3. x \in CountedUp /\ x \in RowRec /\ x \in RowShape
    BY <1>1, <1>2, OutcomesCount DEF CountedUp, RowRec
<1> DEFINE s == AfterRow(x)
           c == [scan.count EXCEPT ![scan.ord][scan.row] = x.count]
<1>4. s \in ScanRec /\ s.ep = scan.ep /\ s.pc = "row"
    BY <1>2, <1>3, AfterRowShape
<1>5. s.count = c
    BY <1>2 DEF AfterRow, ScanRec
<1> HIDE DEF s
<1>6. \/ scan' = s
      \/ scan' = LeaveOrder(s, x.delay)
    BY <1>1 DEF s
<1>7. scan'.pc \in {"order", "row"} /\ scan'.ep = scan.ep /\ scan'.count = c
  <2>1. CASE scan' = s
      BY <1>4, <1>5, <2>1
  <2>2. CASE scan' = LeaveOrder(s, x.delay)
    <3>1. scan'.pc = "order" /\ scan'.ep = s.ep /\ scan'.count = s.count
        BY <1>4, <2>2 DEF LeaveOrder, ScanRec
    <3> QED  BY <1>4, <1>5, <3>1
  <2> QED  BY <1>6, <2>1, <2>2
<1>8. Counted(scan.count, c)
  <2> DEFINE o == scan.ord
             r == scan.row
  <2>1. o \in Orders /\ r \in Counters(o)
      BY <1>2, SongFields DEF Shape, Reading, Counters
  <2>2. /\ \A p \in Orders : scan.count[p] \in CountersOf(p)
        /\ scan.count \in [Orders -> UNION {CountersOf(p) : p \in Orders}]
      BY <1>2 DEF Tables
  <2> HIDE DEF o, r
  <2>3. c[o] = [scan.count[o] EXCEPT ![r] = x.count] /\ \A p \in Orders \ {o} : c[p] = scan.count[p]
      BY <2>1, <2>2 DEF o, r
  <2>4. c[o][r] = x.count /\ \A q \in Counters(o) \ {r} : c[o][q] = scan.count[o][q]
      BY <2>1, <2>2, <2>3 DEF CountersOf
  <2>5. x.count \in Int /\ x.count > scan.count[o][r]
      BY <1>3 DEF CountedUp, RowShape, o, r
  <2>6. \A p \in Orders : DOMAIN scan.count[p] = Counters(p)
                          /\ \A q \in Counters(p) : scan.count[p][q] \in Int
      BY <2>2 DEF CountersOf
  <2>7. scan.count[o][r] < c[o][r]
      BY <2>1, <2>4, <2>5, <2>6
  <2>8. c # scan.count
      BY <2>1, <2>6, <2>7
  <2> HIDE DEF c
  <2>9. ASSUME NEW p \in Orders, NEW q \in Counters(p)
        PROVE  scan.count[p][q] <= c[p][q]
    <3>1. scan.count[p][q] \in Int
        BY <2>6
    <3>2. CASE p = o /\ q = r
        BY <1>3, <2>4, <2>5, <2>7, <3>1, <3>2
    <3>3. CASE p = o /\ q # r
      <4>1. c[p][q] = scan.count[p][q]
          BY <2>4, <3>3
      <4> QED  BY <3>1, <4>1
    <3>4. CASE p # o
      <4>1. c[p] = scan.count[p]
          BY <2>3, <3>4
      <4> QED  BY <3>1, <4>1
    <3> QED  BY <3>2, <3>3, <3>4
  <2> QED  BY <2>6, <2>8, <2>9 DEF Counted
<1> HIDE DEF c
<1>9. Ahead' \subseteq Ahead
  <2>1. Keeps(scan', control')
      BY ScanRowKeeps
  <2> QED  BY <1>2, <1>7, <2>1, ClaimedStays DEF Keeps
<1>10. Stage' = Stage
    BY <1>2, <1>7 DEF Stage
<1> QED  BY <1>7, <1>8, <1>9, <1>10 DEF Advances

\* The scan that is over has claimed its entry point: the next one starts at
\* an order that is left.
LEMMA EndAdvances ==
    ASSUME SongOK, Good(scan, control, entry, num_seq), ScanEnds
    PROVE  Advances
<1>1. /\ scan \in ScanRec /\ control \in ControlType /\ Claims(scan, control, entry)
      /\ scan.pc = "end" /\ song' = song
    BY DEF Good, Shape, ScanEnds
<1>2. control[scan.ep] = scan.chain /\ scan.ep \notin Unclaimed
  <2>1. scan.chain \in Seqs /\ control[scan.ep] = scan.chain
      BY <1>1 DEF Claims, Begins, ScanRec
  <2> QED  BY <2>1, SeqFacts DEF Unclaimed
<1>3. CASE Unclaimed # {} /\ NextSequence < MaxSequences
  <2> DEFINE b == BeginScan(NextEntry, NextSequence)
  <2>1. control' = control /\ scan' = b
      BY <1>3 DEF ScanEnds
  <2>2. b.ep = NextEntry
      BY DEF BeginScan
  <2>3. NextEntry \in Unclaimed
    <3>1. Unclaimed \subseteq Nat
        BY OrderFacts DEF Unclaimed
    <3> QED  BY <1>3, <3>1, LeastFound DEF NextEntry
  <2>4. Unclaimed' = Unclaimed
      BY <1>1, <2>1 DEF Unclaimed, Orders
  <2> HIDE DEF b
  <2>5. Ahead' = Unclaimed /\ Ahead = Unclaimed \cup {scan.ep}
      BY <2>1, <2>2, <2>3, <2>4 DEF Ahead
  <2> QED  BY <1>2, <2>5 DEF Advances
<1>4. CASE ~(Unclaimed # {} /\ NextSequence < MaxSequences)
  <2>1. scan' = [scan EXCEPT !.pc = "done"] /\ control' = Corrected(NextSequence)
      BY <1>4 DEF ScanEnds
  <2>2. scan'.pc = "done" /\ scan'.ep = scan.ep
      BY <1>1, <2>1 DEF ScanRec
  <2>3. NextSequence \in 1 .. MaxSequences
      BY <1>1, SeqFacts DEF NextSequence, Seqs, ScanRec
  <2>4. \A o \in Orders : control'[o] # NO_SEQUENCE
    <3>1. Corrected(NextSequence) \in ControlType
             /\ \A o \in Orders : Corrected(NextSequence)[o] < NextSequence
        BY <1>1, <2>3, CorrectedSettles
    <3>2. ASSUME NEW o \in Orders  PROVE control'[o] # NO_SEQUENCE
      <4>1. control'[o] < NextSequence
          BY <2>1, <3>1
      <4> HIDE DEF NextSequence
      <4> QED  BY <2>3, <4>1, SeqFacts
    <3> QED  BY <3>2
  <2>5. Ahead' \subseteq Ahead
      BY <1>1, <2>2, <2>4 DEF Ahead, Unclaimed, Orders
  <2> QED  BY <1>1, <2>2, <2>5 DEF Advances, Stage
<1> QED  BY <1>3, <1>4

LEMMA StepAdvances ==
    ASSUME ScanInv, ScanNext
    PROVE  Advances
<1>1. SongOK /\ Good(scan, control, entry, num_seq) /\ scan \in ScanRec
    BY DEF ScanInv, SongOK, Good, Shape
<1>2. ASSUME Keeps(scan', control'), song' = song, scan'.ep = scan.ep,
             scan.pc \in {"order", "row"}, scan'.pc = "end"
      PROVE  Advances
    BY <1>2, ClaimedStays, StopAdvances DEF Keeps
<1>3. \A o, row : StopAt(o, row).pc = "end" /\ StopAt(o, row).ep = scan.ep
    BY <1>1 DEF StopAt, ScanRec
<1>4. CASE ScanGivesUp
    BY <1>1, <1>2, <1>3, <1>4, ScanGivesUpKeeps DEF ScanGivesUp
<1>5. CASE ScanWrapsToEnd
    BY <1>1, <1>2, <1>3, <1>5, ScanWrapsToEndKeeps DEF ScanWrapsToEnd
<1>6. CASE ScanMeetsTaken
    BY <1>1, <1>2, <1>3, <1>6, ScanMeetsTakenKeeps DEF ScanMeetsTaken
<1>7. CASE ScanReturns
    BY <1>1, <1>2, <1>3, <1>7, ScanReturnsKeeps DEF ScanReturns
<1>8. CASE ScanFindsEnd
  <2>1. scan'.pc = "end" /\ scan'.ep = scan.ep
      BY <1>1, <1>8 DEF ScanFindsEnd, ScanRec
  <2> QED  BY <1>1, <1>2, <1>8, <2>1, ScanFindsEndKeeps DEF ScanFindsEnd
<1>9. CASE ScanOverflows
  <2>1. scan'.pc = "end" /\ scan'.ep = scan.ep
      BY <1>1, <1>9 DEF ScanOverflows, ScanRec
  <2> QED  BY <1>1, <1>2, <1>9, <2>1, ScanOverflowsKeeps DEF ScanOverflows
<1> QED
    BY <1>1, <1>4, <1>5, <1>6, <1>7, <1>8, <1>9, SkipAdvances, EnterAdvances, RowAdvances,
       EndAdvances DEF ScanNext

\* Every step of a scan takes it further in an order that has no infinite
\* descent, whatever the song and the tracker's rules: the visit counters and
\* the limits of scan_module and libxmp_scan_sequences stop every loop.
THEOREM ScanAlwaysAdvances == ScanSpec => ScanAdvances
<1>1. ScanInv /\ [ScanNext]_scanVars => [Advances]_scanVars
    BY StepAdvances
<1> QED  BY <1>1, ScanInvariantHolds, PTL DEF ScanSpec, ScanAdvances, Advances
=============================================================================
