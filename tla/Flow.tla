-------------------------------- MODULE Flow ---------------------------------
(***************************************************************************)
(* Flow control effects: src/src/flow.c, shared by the player and the scan.*)
(* Nothing here moves the position: an effect only notes in the record `f` *)
(* (struct flow_control) what the end of the row will do.  The trackers    *)
(* disagree on every detail, so the module's flow mode decides.            *)
(***************************************************************************)
EXTENDS Integers

CONSTANTS
    NumChn,         \* mod->chn
    Trackers        \* the rules a module may have: [flow, quirks]

\* The bits flow.c and the sequencer test, by the ends of their names.
FlowBits == {"GLOBAL_TARGET", "GLOBAL_COUNT", "END_ADVANCES", "END_CANCELS",
             "PATTERN_RESET", "INIT_SAMEROW", "FIRST_EFFECT", "ONE_AT_A_TIME",
             "IGNORE_TARGET", "DELAY_BREAK", "DELAY_JUMP", "UNSET_BREAK",
             "UNSET_JUMP", "SHARED_BREAK", "JUMP_NO_ROW_SET"}

ASSUME NumChnAssumption == NumChn \in Nat
Rules(S) ==
    \A r \in S : /\ r.flow \subseteq FlowBits
                 /\ r.quirks \subseteq {"MARKER", "PROTRACK", "FT2BUGS", "ST3_DELAY"}

ASSUME TrackersAssumption == Rules(Trackers)

\* The rules in force: the bits of m->flow_mode, and the quirks and the event
\* reader the sequencer asks for.
VARIABLE rules
FlowMode == rules.flow
Quirks   == rules.quirks

Chns   == 0 .. NumChn - 1
Has(b) == b \in FlowMode

NONE == -1

\* libxmp_reset_flow.
ResetFlow ==
    [pbreak |-> FALSE, jump |-> NONE, jumpline |-> 0, delay |-> 0,
     rowdelay |-> 0, rowdelay_set |-> FALSE,
     loop_dest |-> NONE, loop_param |-> NONE, loop_start |-> NONE,
     loop_count |-> 0, loop_active |-> 0,
     loop |-> [c \in Chns |-> [start |-> 0, count |-> 0]]]

-----------------------------------------------------------------------------
(* Pattern loops.  The target and the count belong to the channel or to    *)
(* the whole module.                                                       *)

LoopTarget(f, chn) == IF Has("GLOBAL_TARGET") THEN f.loop_start ELSE f.loop[chn].start
LoopCount(f, chn)  == IF Has("GLOBAL_COUNT") THEN f.loop_count ELSE f.loop[chn].count

SetTarget(f, chn, row) ==
    IF Has("GLOBAL_TARGET") THEN [f EXCEPT !.loop_start = row]
                            ELSE [f EXCEPT !.loop[chn].start = row]
SetCount(f, chn, n) ==
    IF Has("GLOBAL_COUNT") THEN [f EXCEPT !.loop_count = n]
                           ELSE [f EXCEPT !.loop[chn].count = n]

\* Parameter 0 marks the row as the loop's target.
MarkLoop(f, chn, row) ==
    IF Has("IGNORE_TARGET") /\ LoopCount(f, chn) >= 1 THEN f
    ELSE [SetTarget(f, chn, row) EXCEPT
             !.jumpline = IF "FT2BUGS" \in Quirks THEN row ELSE @]

\* A loop jump may take back a break or a jump an earlier channel asked for.
OverrideBreak(f) ==
    IF ~f.pbreak THEN f
    ELSE LET unset == IF f.jump = NONE THEN Has("UNSET_BREAK") ELSE Has("UNSET_JUMP")
         IN  [f EXCEPT !.jumpline = IF Has("SHARED_BREAK") THEN f.loop_dest ELSE @,
                       !.pbreak   = ~unset,
                       !.jump     = IF unset THEN NONE ELSE @]

\* The loop is taken again (n passes are left) or for the first time.
TakeLoop(f, chn, n, begins) ==
    OverrideBreak([SetCount(f, chn, n) EXCEPT
                      !.loop_dest   = LoopTarget(f, chn),
                      !.loop_active = IF begins THEN @ + 1 ELSE @])

\* Mutant of LeaveLoop: the count of active loops is not taken back.
LeaveLoopStaysActive(f, chn, row) ==
    LET g == SetCount(f, chn, 0)
    IN  [IF Has("END_ADVANCES") THEN SetTarget(g, chn, row + 1) ELSE g EXCEPT
            !.loop_dest = IF Has("END_CANCELS") THEN NONE ELSE @]

\* The last pass is over.
LeaveLoop(f, chn, row) ==
    LET g == SetCount(f, chn, 0)
    IN  [IF Has("END_ADVANCES") THEN SetTarget(g, chn, row + 1) ELSE g EXCEPT
            !.loop_dest   = IF Has("END_CANCELS") THEN NONE ELSE @,
            !.loop_active = @ - 1]

\* A parameter n > 0 ends the loop's body.
EndLoop(f, chn, row, n) ==
    LET start == IF LoopTarget(f, chn) >= 0 THEN LoopTarget(f, chn)
                 ELSE IF Has("INIT_SAMEROW") THEN row ELSE 0
        g     == SetTarget(f, chn, start)
        count == LoopCount(f, chn)
        other == \E c \in Chns \ {chn} : f.loop[c].count # 0
    IN  IF count > 1 THEN TakeLoop(g, chn, count - 1, FALSE)
        ELSE IF count = 1 THEN LeaveLoop(g, chn, row)
        ELSE IF Has("ONE_AT_A_TIME") /\ other THEN g
        ELSE TakeLoop(g, chn, n, TRUE)

\* libxmp_process_pattern_loop.
PatternLoop(f, chn, row, n) ==
    LET g == [f EXCEPT !.loop_param = n]
    IN  IF Has("FIRST_EFFECT") /\ f.loop_param >= 0 THEN f
        ELSE IF n = 0 THEN MarkLoop(g, chn, row) ELSE EndLoop(g, chn, row, n)

-----------------------------------------------------------------------------
(* Jumps and breaks                                                        *)

\* libxmp_process_pattern_jump.
PatternJump(f, ord) ==
    IF Has("DELAY_JUMP") /\ f.loop_dest >= 0 THEN f
    ELSE [f EXCEPT !.pbreak = TRUE, !.jump = ord,
                   !.jumpline = IF Has("JUMP_NO_ROW_SET") THEN @ ELSE 0]

\* libxmp_process_pattern_break.
PatternBreak(f, row) ==
    IF Has("DELAY_BREAK") /\ f.loop_dest >= 0 THEN f
    ELSE [f EXCEPT !.pbreak = TRUE, !.jumpline = row]

\* libxmp_process_line_jump: to a row of the current position.
LineJump(f, ord, row) ==
    [f EXCEPT !.jump = IF f.pbreak THEN @ ELSE ord,
              !.pbreak = TRUE, !.jumpline = row]

\* What the effect `e` of channel chn in the row asks for.  An effect is a
\* record [fx, arg]; delays are handled by the caller.
FlowEffect(f, chn, ord, row, e) ==
    CASE e.fx = "loop"  -> PatternLoop(f, chn, row, e.arg)
      [] e.fx = "jump"  -> PatternJump(f, e.arg)
      [] e.fx = "break" -> PatternBreak(f, e.arg)
      [] e.fx = "line"  -> LineJump(f, ord, e.arg)
      [] OTHER          -> f

\* A position change forgets the loops of some trackers.
ForgetLoops(f) ==
    IF Has("PATTERN_RESET")
    THEN [f EXCEPT !.loop_start = NONE, !.loop_count = 0,
                   !.loop = [c \in Chns |-> [start |-> 0, count |-> 0]]]
    ELSE f

\* The outcomes, one per outcome of Step, of processing every channel of a
\* row from the first to the last, each by Step(x, chn).
OverChannels(Step(_, _), x) ==
    LET after[n \in 0 .. NumChn] ==
            IF n = 0 THEN {x} ELSE {Step(y, n - 1) : y \in after[n - 1]}
    IN  after[NumChn]
=============================================================================
