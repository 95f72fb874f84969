------------------------------ MODULE Sequencer ------------------------------
(***************************************************************************)
(* The song position of the player: the sequencing half of                 *)
(* src/src/player.c (xmp_start_player, xmp_play_frame, next_row,           *)
(* next_order, check_end_of_module) and the calls of src/src/control.c     *)
(* that move it between two frames.                                        *)
(*                                                                         *)
(* The position is kept twice: `pos` is where the caller wants to be, `ord`*)
(* and `row` what is playing.  A call sets pos; the next frame notices the *)
(* difference and repositions.                                             *)
(*                                                                         *)
(* Speed effects are left out: a row lasts Speed frames.                   *)
(***************************************************************************)
EXTENDS Scan

CONSTANTS
    Speed,          \* p->speed: frames in a row
    MaxLoops,       \* the caller stops when the loop counter reaches this
    MaxCalls,       \* position calls the caller makes
    Calls,          \* which position calls it makes
    Modes           \* the trackers' rules it may ask for (XMP_PLAYER_MODE)

ASSUME SpeedAssumption == Speed \in Nat \ {0}
ASSUME CallerAssumption == MaxLoops \in Nat /\ MaxCalls \in Nat /\ Rules(Modes)

VARIABLES
    player,     \* the sequencer's part of struct player_data; `stale` is history:
                \* a rescan changed the rules or the sequence, or a move the sequence only, and
                \* no move has set end_point since; so is `astray`: a move has set num_rows
                \* for another order, and none was entered since
    calls       \* number of position calls made so far
vars == <<scanVars, player, calls>>

\* Values of `pos` that are not orders.
RESTART == -1
STOPPED == -2

\* Least end_point kept: below zero it never counts again (until 2^31 visits).
EndFloor == -1

-----------------------------------------------------------------------------
(* Moving on                                                               *)

\* skip_invalid_orders: the first order from o that can be played, else the
\* end marker or the end of the list.
Settle(o) ==
    IF o >= song.len THEN o
    ELSE Least({i \in (IF o < 0 THEN 0 ELSE o) .. song.len :
                   i = song.len \/ EndMarked(i) \/ Valid(i)})

Playable(o) == o \in Orders /\ Valid(o)

\* The row of order o at which a break or a jump enters it.
BreakRow(p, o) == IF p.flow.jumpline < Rows(o) THEN p.flow.jumpline ELSE 0

\* The second half of next_order: playback is at order o.
EnterOrder(p, o) ==
    [p EXCEPT !.ord = o, !.pos = o, !.frame = 0, !.bad = FALSE, !.astray = FALSE,
              !.num_rows = Rows(o), !.row = BreakRow(p, o),
              !.flow = [ForgetLoops(@) EXCEPT !.jumpline = 0]]

\* next_order from order o on.  When the list ends, the sequence restarts;
\* `bad` is its failure.
NextOrder(p, o) ==
    LET first == Settle(o)
        again == Settle(IF first < entry[p.sequence] THEN entry[p.sequence]
                        ELSE RestartOrder(p.sequence, entry[p.sequence]))
    IN  IF Playable(first) THEN EnterOrder(p, first)
        ELSE IF Playable(again) THEN EnterOrder(p, again)
        ELSE [p EXCEPT !.ord = again, !.bad = TRUE]

\* Mutants: a pattern has one row too many; a break stays pending.
PatternOverLate(p, row) == row > p.num_rows
BreakStaysPending(f) == [f EXCEPT !.jump = NONE]

\* The row lies past the pattern's last.
PatternOver(p, row) == row >= p.num_rows

\* The break or jump is carried out.
BreakDone(f) == [f EXCEPT !.pbreak = FALSE, !.jump = NONE]

\* next_row: the end of a row.
NextRow(p) ==
    LET f == [p.flow EXCEPT !.delay = 0, !.loop_param = NONE, !.loop_dest = NONE]
        row == IF p.flow.loop_dest >= 0 THEN p.flow.loop_dest
               ELSE IF f.rowdelay = 0 THEN p.row + 1 ELSE p.row
        stay == [p EXCEPT !.frame = 0, !.row = row,
                          !.flow = [f EXCEPT
                              !.rowdelay = IF @ = 0 THEN 0 ELSE @ - 1,
                              !.rowdelay_set = @ /\ f.rowdelay # 0]]
    IN  IF f.pbreak
        THEN NextOrder([p EXCEPT !.frame = 0, !.flow = BreakDone(f)],
                       IF f.jump = NONE THEN p.ord + 1 ELSE f.jump)
        ELSE IF PatternOver(p, row) THEN NextOrder(stay, p.ord + 1) ELSE stay

\* check_end_of_module: at the row where the sequence starts over.
CheckEnd(p) ==
    LET left == IF p.end_point = 0 THEN ends[p.sequence].num ELSE p.end_point
    IN  IF p.ord = ends[p.sequence].ord /\ p.row = ends[p.sequence].row
        THEN [p EXCEPT !.loop_count = IF p.end_point = 0 THEN @ + 1 ELSE @,
                       !.end_point  = IF left > EndFloor THEN left - 1 ELSE left]
        ELSE p

-----------------------------------------------------------------------------
(* Reading a row.  In a row that is being repeated by a row delay, events  *)
(* are not read again; x.first is ROWDELAY_FIRST_FRAME.                    *)

RowEffect(x, chn) ==
    LET f == x.flow
        e == Effect(x.ord, x.row, chn)
    IN  IF f.rowdelay_set /\ ~(x.first /\ f.rowdelay > 0) THEN x
        ELSE IF e.fx = "rowdelay"
        THEN IF f.rowdelay_set THEN x
             ELSE [x EXCEPT !.first = TRUE,
                            !.flow = [f EXCEPT !.rowdelay = e.arg, !.rowdelay_set = TRUE]]
        ELSE IF e.fx = "delay"
        THEN [x EXCEPT !.flow = [f EXCEPT
                 !.delay = IF "ST3_DELAY" \in Quirks /\ @ # 0 THEN @ ELSE e.arg]]
        ELSE [x EXCEPT !.flow = FlowEffect(f, chn, x.ord, x.row, e)]

\* read_row.  (Only the scan reads the number of active loops, so the player's
\* is not kept.)
ReadRow(p) ==
    {[p EXCEPT !.flow = [x.flow EXCEPT !.loop_active = 0]] :
        x \in OverChannels(RowEffect,
                [flow |-> p.flow, ord |-> p.ord, row |-> p.row, first |-> FALSE])}

\* check_end_of_module and read_row, on the first frame of a row.
Read(p) == IF p.frame # 0 THEN {p} ELSE UNION {ReadRow(c) : c \in {CheckEnd(p)}}

-----------------------------------------------------------------------------
(* xmp_start_player and xmp_play_frame                                     *)

NoPlayer ==
    [playing |-> FALSE, pos |-> 0, ord |-> 0, row |-> 0, frame |-> -1,
     num_rows |-> 0, end_point |-> 0, loop_count |-> 0, sequence |-> 0,
     bad |-> FALSE, ended |-> FALSE, force |-> FALSE, flow |-> ResetFlow,
     stale |-> FALSE, astray |-> FALSE]

Init == ScanInit /\ player = NoPlayer /\ calls = 0

\* The end of a rescan looks up the sequence of the player's position.
ScanStep ==
    /\ ScanNext
    /\ \E seq \in {IF player.pos \in Orders THEN control'[player.pos] ELSE 0} :
          player' = IF player.playing /\ Scanned'
                    THEN [player EXCEPT !.sequence = seq,
                                        !.stale = @ \/ seq # player.sequence]
                    ELSE player
    /\ UNCHANGED calls

\* xmp_start_player, once the module is scanned.
StartPlayer ==
    LET o == Settle(0)
    IN  /\ Scanned /\ ~player.playing
        /\ player' =
              IF Playable(o)
              THEN [NoPlayer EXCEPT !.playing = TRUE, !.ord = o,
                                    !.num_rows = Rows(o), !.end_point = ends[0].num]
              ELSE [NoPlayer EXCEPT !.playing = TRUE, !.bad = TRUE]
        /\ ends' = IF Playable(o) THEN ends
                   ELSE [ends EXCEPT ![0].ord = 0, ![0].row = 0]
        /\ UNCHANGED <<song, rules, scan, control, info, entry, num_seq, calls>>

\* The caller plays on until the song has looped often enough.
Playing == Scanned /\ player.playing /\ player.loop_count < MaxLoops

Displaced == player.ord # player.pos \/ player.force

Ended(p) == [p EXCEPT !.ended = TRUE]

\* A frame after xmp_stop_module, or in a sequence where nothing is playable.
PlayNothing ==
    /\ Playing
    /\ \/ /\ Displaced /\ player.pos = STOPPED
          /\ player' = Ended([player EXCEPT !.force = FALSE])
       \/ /\ ~Displaced /\ player.bad
          /\ player' = Ended(player)
    /\ UNCHANGED <<scanVars, calls>>

\* The end of a sequence has to be reached how often from order `pos` on.
EndPointFrom(p, pos) ==
    IF pos > ends[p.sequence].ord THEN 0
    ELSE IF pos = entry[p.sequence] THEN ends[p.sequence].num ELSE p.end_point

\* A frame is produced, unless next_order has failed.
Produce(q) == IF q.bad THEN player' = Ended(q) ELSE player' \in Read(q)

\* The position was moved: continue there, but not before the sequence.
PlayElsewhere ==
    LET start == entry[player.sequence]
        pos   == IF player.pos = RESTART THEN start ELSE player.pos
        p     == [player EXCEPT !.force = FALSE, !.pos = pos, !.ended = FALSE,
                                !.end_point = EndPointFrom(player, pos),
                                !.flow = [@ EXCEPT !.jump = NONE]]
    IN  /\ Playing /\ Displaced /\ player.pos # STOPPED
        /\ \E q \in {NextOrder(p, IF pos < start THEN start ELSE pos)} : Produce(q)
        /\ UNCHANGED <<scanVars, calls>>

Ticked  == [player EXCEPT !.frame = @ + 1, !.ended = FALSE]
RowOver == player.frame + 1 >= Speed * (1 + player.flow.delay)

\* Protracker skips a row when a break falls into a delayed one.
SkipsRow == RowOver /\ "PROTRACK" \in Quirks /\ player.flow.delay > 0 /\ player.flow.pbreak

\* The next frame, or the first frame of the next row.
PlayOn ==
    /\ Playing /\ ~Displaced /\ ~player.bad /\ ~SkipsRow
    /\ \E q \in {IF RowOver THEN NextRow(Ticked) ELSE Ticked} : Produce(q)
    /\ UNCHANGED <<scanVars, calls>>

PlaySkipping ==
    /\ Playing /\ ~Displaced /\ ~player.bad /\ SkipsRow
    /\ \E first \in {NextRow(Ticked)} :
          IF first.bad THEN player' = Ended(first)
          ELSE \E q \in {NextRow(CheckEnd(first))} : Produce(q)
    /\ UNCHANGED <<scanVars, calls>>

PlayFrame == PlayNothing \/ PlayElsewhere \/ PlayOn \/ PlaySkipping

-----------------------------------------------------------------------------
(* Position calls, made between two frames (src/src/control.c)             *)

\* Skip markers are passed in the direction of the move.
Unmarked(pos, dir) ==
    LET skipped(o) == "MARKER" \in Quirks /\ o > 0 /\ o < song.len - 1 /\ song.xxo[o] = SKIP
    IN  IF pos \notin Orders THEN pos
        ELSE IF dir < 0 THEN Largest({o \in 0 .. pos : ~skipped(o)})
        ELSE Least({o \in pos .. song.len - 1 : ~skipped(o)})

\* Mutants: the flow record is left as it is; the end of the list is not seen.
MovedKeepingFlow(p, pos) == [p EXCEPT !.pos = IF pos = 0 THEN RESTART ELSE pos]
PastListLate(o) == o > song.len

\* The caller wants to be at order pos, or at the start: nothing is pending.
Moved(p, pos) ==
    [p EXCEPT !.pos = IF pos = 0 THEN RESTART ELSE pos,
              !.flow = ResetFlow, !.force = FALSE]

\* The move ends behind the order list.
PastList(o) == o >= song.len

\* Mutant: the visits of the end are not counted anew.
MoveToKeepingEnd(p, seq, pos) == [Moved(p, pos) EXCEPT !.sequence = seq]

\* The end of set_position: order pos, or -1, in sequence seq.
MoveTo(p, seq, pos) ==
    LET beyond == pos > ends[seq].ord
        q == [Moved(p, pos) EXCEPT !.sequence = seq]
    IN  IF pos \notin Orders \/ ~Valid(pos)
        THEN [q EXCEPT !.stale = @ \/ seq # p.sequence]
        ELSE [q EXCEPT !.stale     = FALSE,
                       !.end_point = IF beyond THEN 0 ELSE ends[seq].num,
                       !.num_rows  = IF beyond THEN @ ELSE Rows(pos),
                       !.astray    = @ \/ (~beyond /\ pos # p.ord)]

\* set_position: only dir = 0 may change the sequence.
MovePosition(p, pos, dir) ==
    LET seq == IF dir # 0 THEN p.sequence
               ELSE IF pos \in Orders THEN control[pos] ELSE NO_SEQUENCE
        o   == Unmarked(pos, dir)
    IN  IF seq >= num_seq THEN p
        ELSE IF PastList(o) THEN [p EXCEPT !.sequence = seq]
        ELSE MoveTo(p, seq, o)

\* A caller that has not stopped yet makes one more call.
Call(name, p) ==
    /\ name \in Calls /\ Playing /\ calls < MaxCalls
    /\ calls' = calls + 1
    /\ player' = p
    /\ UNCHANGED scanVars

NextPosition ==
    Call("next", IF player.pos < 0 THEN MovePosition(player, RESTART, 1)
                 ELSE IF player.pos < song.len THEN MovePosition(player, player.pos + 1, 1)
                 ELSE player)

PrevPosition ==
    LET start == entry[player.sequence]
    IN  Call("prev", IF player.pos = start THEN MovePosition(player, RESTART, -1)
                     ELSE IF player.pos > start THEN MovePosition(player, player.pos - 1, -1)
                     ELSE player)

SetPosition(pos) == Call("set", MovePosition(player, pos, 0))

\* xmp_set_row, with a row that exists in the pattern.
SetRow(row) ==
    LET o == IF player.pos \in Orders THEN player.pos ELSE 0
    IN  /\ Valid(o) /\ row < Rows(o)
        /\ Call("row", [player EXCEPT !.pos = o, !.ord = o, !.row = row, !.frame = -1,
                                      !.bad = FALSE, !.astray = FALSE,
                                      !.num_rows = Rows(o)])

StopModule == Call("stop", [player EXCEPT !.pos = STOPPED, !.flow = ResetFlow, !.force = FALSE])

RestartModule ==
    Call("restart", [player EXCEPT !.pos = RESTART, !.flow = ResetFlow, !.force = FALSE,
                                   !.loop_count = 0])

\* xmp_seek_time: the last order of the sequence that was entered by then,
\* at the row it was entered.
SeekTime(time) ==
    LET reached == {o \in Orders : Valid(o) /\ control[o] = player.sequence
                                   /\ time >= info[o].time}
        p == IF reached = {} THEN MovePosition(player, 0, 0)
             ELSE MovePosition(player, Largest(reached), 1)
        o == IF p.pos >= 0 THEN p.pos ELSE entry[p.sequence]
    IN  Call("seek", [p EXCEPT !.flow = [@ EXCEPT !.jumpline = info[o].row],
                               !.force = TRUE])

\* libxmp_scan_sequences while playing, by xmp_scan_module or by xmp_set_player,
\* which may let another tracker's rules apply: what the last scan found is
\* replaced, the player goes on from where it is.
Rescan ==
    /\ "rescan" \in Calls /\ Playing /\ calls < MaxCalls
    /\ calls' = calls + 1
    /\ rules' \in {rules} \cup Modes
    /\ scan' = BeginScan(0, 0)
    /\ control' = [o \in Orders |-> NO_SEQUENCE]
    /\ info' = [o \in Orders |-> [info[o] EXCEPT !.time = -1]]
    /\ ends' = [ends EXCEPT ![0] = NoEnd]
    /\ player' = [player EXCEPT !.stale = @ \/ rules' # rules]
    /\ UNCHANGED <<song, entry, num_seq>>

PositionCall ==
    \/ NextPosition
    \/ PrevPosition
    \/ \E pos \in Orders : SetPosition(pos)
    \/ \E row \in UNION {0 .. Rows(o) - 1 : o \in {i \in Orders : Valid(i)}} : SetRow(row)
    \/ StopModule
    \/ RestartModule
    \/ \E time \in 0 .. RowLimit : SeekTime(time)
    \/ Rescan

Advance == ScanStep \/ StartPlayer \/ PlayFrame

Next == Advance \/ PositionCall

\* The scan runs to its end, and the caller, once playing, keeps asking for
\* frames, as the loops of the examples and xmp_play_buffer do.
Fairness == WF_vars(Advance)

Spec == Init /\ [][Next]_vars
FairSpec == Spec /\ Fairness

-----------------------------------------------------------------------------
(* Properties                                                              *)

\* Type invariant of the scan and the player; end_point stays between its floor and the
\* visits a scan can count, and a frame that skips a row may count two loops.
TypeOK ==
    /\ ScanTypeOK
    /\ player.pos \in {STOPPED, RESTART} \cup Orders
    /\ player.ord \in 0 .. song.len
    /\ player.row \in Nat /\ player.num_rows \in Nat
    /\ player.frame \in Int /\ player.frame >= -1
    /\ player.end_point \in EndFloor .. CountMod
    /\ player.loop_count \in 0 .. MaxLoops + 1
    /\ player.sequence \in Seqs
    /\ player.flow.jumpline \in Nat
    /\ calls \in 0 .. MaxCalls

\* A frame was produced, and no call has been made since that moves away.
Sounding == player.frame >= 0 /\ ~player.ended /\ ~Displaced

\* What is heard is a row of the pattern at the current order, whatever calls
\* were made: mod->xxo[ord] indexes the patterns without further checks.  (Two
\* moves between two frames, away and back, leave the number of rows of the
\* order in between: then the row may lie past the pattern's last.)
RowExists ==
    Sounding => /\ Playable(player.ord) /\ player.row >= 0
                /\ player.astray \/ /\ player.num_rows = Rows(player.ord)
                                    /\ player.row < player.num_rows

\* "Current row in pattern" (struct xmp_frame_info, docs/libxmp.rst): what the
\* code does not keep to in that case.
RowInPattern == Sounding => player.row < Rows(player.ord)

\* Scan and player do not agree on breaks in delayed rows: the scan takes all
\* trackers to skip a row then, the player only Protracker modules.
BreaksAreDelayed ==
    /\ "PROTRACK" \notin Quirks
    /\ \E o \in Orders : Valid(o) /\ \E row \in 0 .. Rows(o) - 1 :
          LET fxs == {Effect(o, row, chn).fx : chn \in Chns}
          IN  "delay" \in fxs /\ fxs \cap {"break", "line"} # {}

\* Until the song has looped, and as long as the caller does not interfere, the
\* main sequence is played with orders that the scan gave to it.  (The scan goes
\* through the song once: the loop counts it ends with may lead a second pass
\* elsewhere.)
MainSequenceClosed ==
    Sounding /\ calls = 0 /\ player.loop_count = 0 /\ ~BreaksAreDelayed =>
        player.sequence = 0 /\ control[player.ord] = 0

\* The loop counter gets as far as the caller waits for it to get, unless
\* there is nothing to play: the caller's loop ends.  (One loop; a second pass
\* that goes elsewhere than the first may never reach the row it is counted at.)
LoopsAreCounted ==
    BreaksAreDelayed \/ <>(player.ended \/ player.loop_count = MaxLoops)

\* No more visits of the end are waited for than the scan has counted in the
\* sequence that plays, wherever the position was moved: the song's next loop is
\* noticed.  (A rescan by other rules may find fewer, one after a move past the end
\* of the sequence finds another sequence, a move to an order with no pattern
\* may change the sequence, and all leave end_point.)
EndPointFits ==
    Scanned /\ Sounding /\ ~player.stale => player.end_point <= ends[player.sequence].num

\* A position of the sequence being played is the one the next frame plays,
\* from the start unless the caller seeks a time: staying inside the sub-song
\* never moves it, and no break or jump that was pending does.  (Except after a
\* rescan that changes the sequence: a break that found nothing to play in the
\* sequence before is still pending then.)
PositionIsPlayed ==
    [][Scanned /\ player.playing /\ calls' = calls /\ Displaced /\ player.pos \in Orders
       /\ Valid(player.pos) /\ control[player.pos] = player.sequence =>
          /\ player'.ord = player.pos /\ player'.pos = player.pos
          /\ player.force \/ player.stale \/ player'.row = 0]_vars

\* The effects of the row that is playing.
HasEffect(fxs) ==
    \E chn \in Chns : Effect(player.ord, player.row, chn).fx \in fxs

\* Playback leaves the order of the rows of a pattern only where the row it
\* leaves asks for it.
JumpsComeFromRow ==
    [][Sounding /\ calls' = calls /\ player'.frame = 0 /\ player.row + 1 < player.num_rows =>
          \/ HasEffect({"jump", "break", "line", "loop"})
          \/ player'.ord = player.ord /\ player'.row \in {player.row, player.row + 1}]_vars
=============================================================================
