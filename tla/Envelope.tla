------------------------------- MODULE Envelope -------------------------------
(***************************************************************************)
(* Volume envelopes: the first functions of src/src/player.c.              *)
(*                                                                         *)
(* An envelope is a record: flg, a subset of {"ON", "SUS", "LOOP",         *)
(* "CARRY"}; pts, its points as a sequence of <<tick, value>>; and the     *)
(* points (counted from 1) of its sustain loop and of its loop, sus..sue   *)
(* and lps..lpe.  A position is a tick; -1 is a note that has not begun.   *)
(***************************************************************************)
EXTENDS Integers, Sequences

CONSTANT MaxIdx     \* 0xffff: the tick counter of an envelope stops there

ASSUME MaxIdxAssumption == MaxIdx \in Nat

Has(env, flag)  == flag \in env.flg
TickOf(env, i)  == env.pts[i][1]
LastTick(env)   == TickOf(env, Len(env.pts))
LastValue(env)  == env.pts[Len(env.pts)][2]

\* check_envelope (load_helpers.c): loops that lie outside the envelope have
\* been switched off.
IsEnvelope(env) ==
    /\ \A i \in 1 .. Len(env.pts) : TickOf(env, i) \in Int
    /\ Has(env, "SUS")  => {env.sus, env.sue} \subseteq 1 .. Len(env.pts)
    /\ Has(env, "LOOP") => {env.lps, env.lpe} \subseteq 1 .. Len(env.pts)

\* check_envelope_end: the position is at or past the last point of an
\* envelope that does not loop.
CheckEnvelopeEnd(env, x) ==
    /\ Has(env, "ON") /\ env.pts # <<>>
    /\ x >= LastTick(env) \/ Len(env.pts) = 1
    /\ ~Has(env, "LOOP")

\* C division truncates towards zero.
Truncated(a, b) == IF a >= 0 THEN a \div b ELSE -((-a) \div b)

\* get_envelope: the value at tick x, interpolated between two points.  The
\* segment starts at the last point (before the end) that is not past x.
GetEnvelope(env, x, def) ==
    IF x < 0 \/ ~Has(env, "ON") \/ env.pts = <<>> THEN def
    ELSE IF x >= LastTick(env) \/ Len(env.pts) = 1 THEN LastValue(env)
    ELSE LET before == {i \in 1 .. Len(env.pts) - 1 : TickOf(env, i) <= x}
             i  == IF before = {} THEN 1
                   ELSE CHOOSE j \in before : \A k \in before : k <= j
             x1 == TickOf(env, i)
             x2 == TickOf(env, i + 1)
             y1 == env.pts[i][2]
             y2 == env.pts[i + 1][2]
         IN  IF x < x1 \/ x2 < x1 THEN y1
             ELSE IF x2 = x1 THEN y2
             ELSE y1 + Truncated((y2 - y1) * (x - x1), x2 - x1)

\* Mutant of UpdateIt: the sustain loop ends one tick late.
UpdateItLate(env, x, release, keyOff) ==
    IF Has(env, "SUS") /\ ~release /\ x = TickOf(env, env.sue) + 2
    THEN TickOf(env, env.sus) ELSE x

\* update_envelope_it: loop between the sustain points until the release,
\* once more on the tick of the key off, then around the loop points.
UpdateIt(env, x, release, keyOff) ==
    IF Has(env, "SUS") /\ x = TickOf(env, env.sue) + 1 /\ (keyOff \/ ~release)
    THEN TickOf(env, env.sus)
    ELSE IF /\ ~Has(env, "SUS") \/ release
            /\ Has(env, "LOOP") /\ x > TickOf(env, env.lpe)
    THEN TickOf(env, env.lps)
    ELSE x

\* The step all XM-like envelopes share: wait at the sustain point.
AtSustain(env, x, sustained, release) ==
    IF sustained /\ ~release /\ x >= TickOf(env, env.sus)
    THEN TickOf(env, env.sus) ELSE x

\* update_envelope_xm: a position past the sustain point counts as released.
UpdateXm(env, x, release) ==
    LET sustained == Has(env, "SUS")
        released  == release \/ (sustained /\ x > TickOf(env, env.sus) + 1)
        y         == AtSustain(env, x, sustained, released)
    IN  IF /\ Has(env, "LOOP") /\ y = TickOf(env, env.lpe)
           /\ ~(released /\ sustained /\ env.sus = env.lpe)
        THEN TickOf(env, env.lps) ELSE y

\* update_envelope_generic: as for XM, but a loop catches every position at
\* or past its end, and a sustain point on the loop end holds only when
\* released.
UpdateGeneric(env, x, release) ==
    LET loops     == Has(env, "LOOP")
        sustained == /\ Has(env, "SUS")
                     /\ ~(loops /\ env.sus = env.lpe /\ ~release)
        released  == \/ release
                     \/ loops /\ x > TickOf(env, env.lpe) + 1
                     \/ sustained /\ x > TickOf(env, env.sus) + 1
        y         == AtSustain(env, x, sustained, released)
    IN  IF /\ loops /\ y >= TickOf(env, env.lpe)
           /\ ~(released /\ sustained /\ env.sus = env.lpe)
        THEN TickOf(env, env.lps) ELSE y

\* update_envelope: one tick on, then the rule of the format.
UpdateEnvelope(env, style, idx, release, keyOff) ==
    LET x == IF idx < MaxIdx THEN idx + 1 ELSE idx
    IN  IF x < 0 THEN -1
        ELSE IF ~Has(env, "ON") \/ env.pts = <<>> THEN x
        ELSE IF style = "IT"  THEN UpdateIt(env, x, release, keyOff)
        ELSE IF style = "XM"  THEN UpdateXm(env, x, release)
        ELSE UpdateGeneric(env, x, release)

\* check_envelope_fade: past the last point, a note ends (-1) when the last
\* value is 0, else it may begin to fade (1).
CheckEnvelopeFade(env, x) ==
    IF ~Has(env, "ON") \/ x <= LastTick(env) THEN 0
    ELSE IF LastValue(env) = 0 THEN -1 ELSE 1

\* sustain_check (read_event.c): the note waits exactly at its sustain point.
SustainCheck(env, idx) ==
    /\ {"ON", "SUS"} \subseteq env.flg /\ ~Has(env, "LOOP")
    /\ idx = TickOf(env, env.sus)
=============================================================================
