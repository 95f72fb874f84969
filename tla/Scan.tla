-------------------------------- MODULE Scan ---------------------------------
(***************************************************************************)
(* The scan of a loaded module: src/src/scan.c.  Before anything is played,*)
(* libxmp_scan_sequences follows the order list and the flow effects of    *)
(* every pattern to divide the orders into sequences (sub-songs), and to   *)
(* find, for each, the row at which it starts over: the player knows that  *)
(* a song has looped only because it has reached that row often enough.    *)
(*                                                                         *)
(* Tempo and volume effects are left out: all rows last equally long, and  *)
(* a time is a number of rows.                                             *)
(***************************************************************************)
EXTENDS Flow, FiniteSets

SKIP == 254         \* XMP_MARK_SKIP
END  == 255         \* XMP_MARK_END: both are greater than any pattern number
NO_SEQUENCE == 255

CONSTANTS
    Songs,          \* the modules, see SongType
    MaxSequences,   \* MAX_SEQUENCES
    RowLimit,       \* row_limit: rows scanned within one visit of an order
    OrderLimit,     \* orders visited since the last valid one (512)
    CountMod,       \* scan counters are unsigned chars: 256
    TimeCap         \* bound of the model: the time at which the clock stops

ASSUME LimitsAssumption ==
    /\ MaxSequences \in 2 .. NO_SEQUENCE
    /\ RowLimit \in Nat /\ OrderLimit \in Nat
    /\ CountMod \in Nat \ {0, 1} /\ TimeCap \in Nat \ {0, 1}

\* Smallest element of a set of integers.
Least(S) == CHOOSE n \in S : \A m \in S : n <= m
Largest(S) == CHOOSE n \in S : \A m \in S : n >= m

VARIABLES
    song,       \* the module: it never changes
    scan,       \* the local variables of scan_module
    control,    \* p->sequence_control: the sequence of each order
    info,       \* m->xxo_info: time and row at which each order was entered
    ends,       \* p->scan: where each sequence starts over
    entry,      \* m->seq_data[].entry_point
    num_seq     \* m->num_sequences
scanVars == <<song, rules, scan, control, info, ends, entry, num_seq>>

Orders   == 0 .. song.len - 1
Seqs     == 0 .. MaxSequences - 1
Valid(o) == song.xxo[o] < song.pat
EndMarked(o) == "MARKER" \in Quirks /\ song.xxo[o] = END
Rows(o)  == song.rows[song.xxo[o]]

\* A row beyond the end of the tracks has no events.
Effect(o, row, chn) ==
    IF row < Rows(o) THEN song.fx[song.xxo[o]][row][chn] ELSE [fx |-> "none", arg |-> 0]

\* An order list, patterns of effects, and a restart position.
IsSong(s) ==
    /\ s.len \in Nat \ {0} /\ s.pat \in Nat /\ s.rst \in Nat
    /\ s.xxo \in [0 .. s.len - 1 -> 0 .. END]
    /\ s.rows \in [0 .. s.pat - 1 -> Nat \ {0}]
    /\ \A p \in 0 .. s.pat - 1 :
          DOMAIN s.fx[p] = 0 .. s.rows[p] - 1
          /\ \A r \in 0 .. s.rows[p] - 1 :
                DOMAIN s.fx[p][r] = Chns /\ \A c \in Chns : s.fx[p][r][c].arg \in Nat

ASSUME SongsAssumption == \A s \in Songs : IsSong(s)

\* A scan may pass the whole order list (XMP_MAX_MOD_LENGTH is 256) twice.
ASSUME ListsAssumption == \A s \in Songs : 2 * s.len <= OrderLimit

\* Where the order list continues past its end, for a sequence with entry
\* point ep: the restart position, if it is playable and in the sequence.
\* (A restart position equal to the length passes the code's first test and
\* fails the last: sequence_control holds NO_SEQUENCE there.)
RestartOrder(seq, ep) ==
    IF song.rst < song.len /\ Valid(song.rst) /\ control[song.rst] = seq
    THEN song.rst ELSE ep

-----------------------------------------------------------------------------
(* scan_module: a step per order and per row                               *)

\* The local variables of scan_module(ctx, ep, chain) when its loop begins.
BeginScan(ep, chain) ==
    [pc |-> "order", ep |-> ep, chain |-> chain, ord |-> ep - 1, row |-> 0,
     flow |-> ResetFlow, inside |-> FALSE, orders |-> 0, rows |-> 0,
     time |-> 0, start |-> 0, valid |-> FALSE,
     count |-> [o \in Orders |-> [r \in 0 .. (IF Valid(o) THEN Rows(o) - 1 ELSE 0) |-> 0]]]

NoEnd == [ord |-> 0, row |-> 0, num |-> 0]

ScanInit ==
    /\ song \in Songs /\ rules \in Trackers
    /\ scan = BeginScan(0, 0)
    /\ control = [o \in Orders |-> NO_SEQUENCE]
    /\ info = [o \in Orders |-> [time |-> -1, row |-> 0]]
    /\ ends = [s \in Seqs |-> NoEnd]
    /\ entry = [s \in Seqs |-> 0]
    /\ num_seq = 0

\* The order the next round of the loop looks at.
Wraps   == scan.ord + 1 >= song.len
Upcoming == IF Wraps THEN RestartOrder(scan.chain, scan.ep) ELSE scan.ord + 1

StopAt(ord, row) == [scan EXCEPT !.pc = "end", !.ord = ord, !.row = row]

\* Mutant of Taken: only the orders of this scan are.
TakenByThis(o) == scan.ep # 0 /\ control[o] = scan.chain

\* An order that an earlier sequence, or this one, has already claimed:
\* only the main sequence may use orders more than once.
Taken(o) == scan.ep # 0 /\ control[o] # NO_SEQUENCE

\* The pattern's rows were all seen, and not because of a pattern loop.
EntryRow(o) == IF scan.flow.jumpline >= Rows(o) THEN 0 ELSE scan.flow.jumpline
Seen(o) == scan.count[o][EntryRow(o)] # 0 /\ ~scan.inside

\* Nothing but invalid orders for too long.
ScanGivesUp ==
    /\ scan.pc = "order" /\ scan.orders > OrderLimit
    /\ scan' = StopAt(scan.ord, scan.flow.jumpline)
    /\ UNCHANGED <<song, rules, control, info, ends, entry, num_seq>>

\* The list wraps to an end marker.
ScanWrapsToEnd ==
    /\ scan.pc = "order" /\ scan.orders <= OrderLimit
    /\ Wraps /\ EndMarked(Upcoming)
    /\ scan' = StopAt(Upcoming, scan.flow.jumpline)
    /\ UNCHANGED <<song, rules, control, info, ends, entry, num_seq>>

\* Mutant of ScanSkips: the orders are not counted.
ScanSkipsUncounted ==
    /\ scan.pc = "order" /\ scan.orders <= OrderLimit
    /\ ~(Wraps /\ EndMarked(Upcoming))
    /\ ~Valid(Upcoming)
    /\ scan' = [scan EXCEPT !.ord = IF EndMarked(Upcoming) THEN song.len ELSE Upcoming]
    /\ control' = IF Taken(Upcoming) THEN control
                  ELSE [control EXCEPT ![Upcoming] = scan.chain]
    /\ UNCHANGED <<song, rules, info, ends, entry, num_seq>>

\* A marker or a pattern that does not exist; an end marker ends the list.
ScanSkips ==
    /\ scan.pc = "order" /\ scan.orders <= OrderLimit
    /\ ~(Wraps /\ EndMarked(Upcoming))
    /\ ~Valid(Upcoming)
    /\ scan' = [scan EXCEPT !.orders = @ + 1,
                            !.ord = IF EndMarked(Upcoming) THEN song.len ELSE Upcoming]
    /\ control' = IF Taken(Upcoming) THEN control
                  ELSE [control EXCEPT ![Upcoming] = scan.chain]
    /\ UNCHANGED <<song, rules, info, ends, entry, num_seq>>

\* Mutant of ScanMeetsTaken: a marker ends the sequence, too.
ScanMeetsTakenMarker ==
    /\ scan.pc = "order" /\ scan.orders <= OrderLimit
    /\ Taken(Upcoming)
    /\ scan' = StopAt(Upcoming, scan.flow.jumpline)
    /\ UNCHANGED <<song, rules, control, info, ends, entry, num_seq>>

\* The sequence runs into orders that already belong to one.
ScanMeetsTaken ==
    /\ scan.pc = "order" /\ scan.orders <= OrderLimit
    /\ Valid(Upcoming) /\ Taken(Upcoming)
    /\ scan' = StopAt(Upcoming, scan.flow.jumpline)
    /\ UNCHANGED <<song, rules, control, info, ends, entry, num_seq>>

\* The main sequence is back at a row it has played.
ScanReturns ==
    /\ scan.pc = "order" /\ scan.orders <= OrderLimit
    /\ Valid(Upcoming) /\ ~Taken(Upcoming) /\ Seen(Upcoming)
    /\ scan' = StopAt(Upcoming, EntryRow(Upcoming))
    /\ control' = [control EXCEPT ![Upcoming] = scan.chain]
    /\ UNCHANGED <<song, rules, info, ends, entry, num_seq>>

\* The rows of the order are scanned next.
ScanEnters ==
    LET o     == Upcoming
        row   == EntryRow(o)
        entered == IF info[o].time < 0 THEN [time |-> scan.time, row |-> row] ELSE info[o]
    IN  /\ scan.pc = "order" /\ scan.orders <= OrderLimit
        /\ Valid(o) /\ ~Taken(o) /\ ~Seen(o)
        /\ control' = [control EXCEPT ![o] = scan.chain]
        /\ info' = [info EXCEPT ![o] = entered]
        /\ scan' = [scan EXCEPT
                       !.pc = "row", !.orders = @ + 1, !.ord = o, !.row = row,
                       !.flow = [ForgetLoops(@) EXCEPT !.jumpline = 0],
                       !.start = IF entered.row = 0 /\ o # 0 /\ o = scan.ep
                                 THEN scan.time ELSE @]
        /\ UNCHANGED <<song, rules, ends, entry, num_seq>>

\* Mutant of ScanEffect: a delayed row's counter wraps.
ScanEffectWraps(x, chn) ==
    LET e == Effect(scan.ord, scan.row, chn)
        f == FlowEffect(x.flow, chn, scan.ord, scan.row, e)
    IN  IF e.fx = "rowdelay"
        THEN [x EXCEPT !.count = (@ + e.arg) % CountMod, !.time = @ + e.arg]
        ELSE IF e.fx = "delay"
        THEN [x EXCEPT !.delay = IF "ST3_DELAY" \in Quirks /\ @ # 0 THEN @ ELSE e.arg]
        ELSE [x EXCEPT
                 !.flow = f,
                 !.inside =
                    IF e.fx = "jump" /\ f.pbreak THEN FALSE
                    ELSE IF e.fx = "loop" /\ e.arg > 0 /\ f.loop_dest < 0 THEN FALSE
                    ELSE IF e.fx = "loop" /\ e.arg = 0 THEN TRUE ELSE @]

\* The effects of one channel, on the flow record, the row's delay, the flag
\* that tells loops from repetitions, the row's counter and the time.
ScanEffect(x, chn) ==
    LET e == Effect(scan.ord, scan.row, chn)
        f == FlowEffect(x.flow, chn, scan.ord, scan.row, e)
    IN  IF e.fx = "rowdelay"
        THEN [x EXCEPT !.count = IF @ + e.arg < CountMod THEN @ + e.arg ELSE CountMod - 1,
                       !.time  = @ + e.arg]
        ELSE IF e.fx = "delay"
        THEN [x EXCEPT !.delay = IF "ST3_DELAY" \in Quirks /\ @ # 0 THEN @ ELSE e.arg]
        ELSE [x EXCEPT
                 !.flow = f,
                 !.inside =
                    IF e.fx = "jump" /\ f.pbreak THEN FALSE
                    ELSE IF e.fx = "loop" /\ e.arg > 0 /\ f.loop_dest < 0 THEN FALSE
                    ELSE IF e.fx = "loop" /\ e.arg = 0 THEN TRUE ELSE @]

RowIsOver(s) == s.row >= Rows(s.ord)

\* Mutant of OrderLeft: a jump leads to the order after its target.
OrderLeftPastJump(s) == IF s.flow.jump >= 0 THEN s.flow.jump ELSE s.ord

\* A jump names the order that comes next.
OrderLeft(s) == IF s.flow.jump >= 0 THEN s.flow.jump - 1 ELSE s.ord

\* After the last row: a break out of a delayed row skips a row.
LeaveOrder(s, delay) ==
    LET line == s.flow.jumpline
    IN  [s EXCEPT !.pc = "order", !.rows = 0, !.ord = OrderLeft(s),
                  !.flow = [@ EXCEPT !.jump = NONE,
                                     !.jumpline = IF line # 0 /\ delay > 0
                                                  THEN line + 1 ELSE line]]

\* The row was scanned before and no loop is active: the end of the sequence.
AtEnd ==
    \/ scan.rows > RowLimit
    \/ scan.flow.loop_active = 0 /\ scan.count[scan.ord][scan.row] # 0

ScanFindsEnd ==
    /\ scan.pc = "row" /\ AtEnd
    /\ scan' = [scan EXCEPT !.pc = "end",
                            !.time = IF scan.rows > RowLimit THEN @ ELSE @ - 1]
    /\ UNCHANGED <<song, rules, control, info, ends, entry, num_seq>>

\* The row is counted and its effects are processed.
RowOutcomes ==
    OverChannels(ScanEffect,
        [flow |-> scan.flow, delay |-> 0, inside |-> scan.inside,
         count |-> scan.count[scan.ord][scan.row] + 1, time |-> scan.time])

AfterRow(x) ==
    [scan EXCEPT
        !.orders = 0, !.valid = TRUE, !.inside = x.inside,
        !.count[scan.ord][scan.row] = x.count,
        !.time = IF x.time + x.delay < TimeCap THEN x.time + x.delay + 1 ELSE TimeCap,
        !.rows = @ + 1,
        !.row  = IF x.flow.loop_dest >= 0 THEN x.flow.loop_dest ELSE @ + 1,
        !.flow = [x.flow EXCEPT !.pbreak = FALSE, !.loop_param = NONE,
                                !.loop_dest = NONE]]

ScanRow ==
    /\ scan.pc = "row" /\ ~AtEnd
    /\ scan.count[scan.ord][scan.row] < CountMod - 1
    /\ \E x \in RowOutcomes :
          scan' = IF x.flow.pbreak \/ RowIsOver(AfterRow(x))
                  THEN LeaveOrder(AfterRow(x), x.delay) ELSE AfterRow(x)
    /\ UNCHANGED <<song, rules, control, info, ends, entry, num_seq>>

\* The row's counter overflows: an endless loop.
ScanOverflows ==
    /\ scan.pc = "row" /\ ~AtEnd
    /\ scan.count[scan.ord][scan.row] = CountMod - 1
    /\ scan' = [scan EXCEPT !.pc = "end", !.orders = 0, !.valid = TRUE,
                            !.count[scan.ord][scan.row] = 0]
    /\ UNCHANGED <<song, rules, control, info, ends, entry, num_seq>>

-----------------------------------------------------------------------------
(* libxmp_scan_sequences: one scan after the other                         *)

\* The row the scan stopped at, or the first one if that does not exist.
EndRow == IF Valid(scan.ord) /\ scan.row < Rows(scan.ord) THEN scan.row ELSE 0

EndsHere == [ord |-> scan.ord, row |-> EndRow, num |-> scan.count[scan.ord][EndRow]]

\* The main sequence counts even when nothing in it can be played; another
\* one only if it lasts.
NextSequence ==
    IF scan.chain = 0 THEN 1
    ELSE IF scan.valid /\ scan.time > scan.start THEN scan.chain + 1 ELSE scan.chain

Unclaimed == {o \in Orders : control[o] = NO_SEQUENCE}

\* The first order that no scan has reached.
NextEntry == Least(Unclaimed)

\* Mutant of Corrected: only unscanned orders are corrected.
CorrectedUnscanned(n) ==
    [o \in Orders |->
        LET known == {k \in 0 .. o : control[k] < n}
        IN  IF control[o] # NO_SEQUENCE THEN control[o]
            ELSE IF known = {} THEN 0 ELSE control[Largest(known)]]

\* Orders of scans that did not count go to the sequence before them.
Corrected(n) ==
    [o \in Orders |->
        LET known == {k \in 0 .. o : control[k] < n}
        IN  IF known = {} THEN 0 ELSE control[Largest(known)]]

\* The end of scan_module and what libxmp_scan_sequences does next.
ScanEnds ==
    /\ scan.pc = "end"
    /\ ends' = IF scan.valid THEN [ends EXCEPT ![scan.chain] = EndsHere] ELSE ends
    /\ IF Unclaimed # {} /\ NextSequence < MaxSequences
       THEN /\ entry' = [entry EXCEPT ![NextSequence] = NextEntry]
            /\ scan' = BeginScan(NextEntry, NextSequence)
            /\ UNCHANGED <<control, num_seq>>
       ELSE /\ num_seq' = NextSequence
            /\ entry' = [s \in Seqs |-> IF s < NextSequence THEN entry[s] ELSE 0]
            /\ control' = Corrected(NextSequence)
            /\ scan' = [scan EXCEPT !.pc = "done"]
    /\ UNCHANGED <<song, rules, info>>

ScanNext ==
    \/ ScanGivesUp
    \/ ScanWrapsToEnd
    \/ ScanSkips
    \/ ScanMeetsTaken
    \/ ScanReturns
    \/ ScanEnters
    \/ ScanFindsEnd
    \/ ScanRow
    \/ ScanOverflows
    \/ ScanEnds

\* The scan is a function: nothing interrupts it, so it keeps taking steps.
ScanSpec == ScanInit /\ [][ScanNext]_scanVars /\ WF_scanVars(ScanNext)

-----------------------------------------------------------------------------
(* Properties                                                              *)

Scanned == scan.pc = "done"

\* Type invariant: the scan stays inside the tables it fills.
ScanTypeOK ==
    /\ IsSong(song)
    /\ scan.pc \in {"order", "row", "end", "done"}
    /\ scan.ord \in -1 .. song.len \/ scan.pc = "order"
    /\ scan.pc = "row" => Valid(scan.ord) /\ scan.row \in 0 .. Rows(scan.ord) - 1
    /\ control \in [Orders -> Seqs \cup {NO_SEQUENCE}]
    /\ entry \in [Seqs -> Orders]
    /\ num_seq \in 0 .. MaxSequences
    /\ \A o \in Orders : \A r \in DOMAIN scan.count[o] :
          scan.count[o][r] \in 0 .. CountMod - 1

\* Every module is scanned in the end, whatever its patterns make the player
\* do: the limits and the visit counters stop every loop.
ScanTerminates == <>Scanned

\* Once scanned, every order belongs to a sequence the player knows, and a
\* sequence owns its entry point (the main one is entered at order 0).
SequencesCoverOrders ==
    Scanned =>
        /\ \A o \in Orders : control[o] < num_seq
        /\ \A s \in 1 .. num_seq - 1 : control[entry[s]] = s

\* A sequence has no order that can be played before its entry point: the
\* player goes no further back.  (A marker may lie there: a scan that finds
\* nothing leaves its number to the scan after it.  Where the channels share
\* one loop count, a row that ends a loop can be the end of the scan before
\* any time has passed: that scan leaves its number, too.)  The row at which
\* it starts over can be played: the player compares its own position with it
\* to notice the loop.
SequencesArePlayable ==
    Scanned =>
        /\ ~Has("GLOBAL_COUNT") => \A o \in Orders : Valid(o) => entry[control[o]] <= o
        /\ \A s \in 1 .. num_seq - 1 :
              Valid(ends[s].ord) /\ ends[s].row < Rows(ends[s].ord)

\* The count of active loops, which keeps the scan from taking a repeated row
\* for the end, is the number of loops that have passes left.  (Trackers that
\* forget their loops at a position change are excepted: the count is kept.)
ActiveLoops(f) ==
    IF Has("GLOBAL_COUNT") THEN IF f.loop_count # 0 THEN 1 ELSE 0
    ELSE Cardinality({c \in Chns : f.loop[c].count # 0})
LoopsAreActive == ~Has("PATTERN_RESET") => scan.flow.loop_active = ActiveLoops(scan.flow)

\* The orders that this scan and the ones after it may still claim.
Ahead == Unclaimed \cup {scan.ep}

\* A scan looks at orders and rows, is at its end, is the last one.
Stage == CASE scan.pc = "end" -> 1 [] scan.pc = "done" -> 2 [] OTHER -> 0

\* Some counter rises and none falls.
Counted(before, after) ==
    /\ after # before
    /\ \A o \in Orders : \A r \in DOMAIN before[o] : before[o][r] <= after[o][r]

\* Why the scan ends: every step takes it further.  The orders that are left
\* never grow; as long as they are the same, a scan that is over does not go
\* on; until it is over no row's counter falls, it stays below CountMod, and
\* as long as no counter rises the scan looks at no more than OrderLimit + 1
\* orders before it comes to a row.  (A scan whose row overflows starts the
\* counter over at 0, but it is over.)
ScanAdvances ==
    [][/\ Ahead' \subseteq Ahead
       /\ \/ Ahead' # Ahead
          \/ Stage' > Stage
          \/ Stage' = Stage /\ Counted(scan.count, scan'.count)
          \/ /\ Stage' = Stage /\ scan'.count = scan.count /\ scan.pc = "order"
             /\ scan'.pc = "row" \/ scan'.orders \in scan.orders + 1 .. OrderLimit + 1
      ]_scanVars

\* "Sequences don't overlap": a scan never takes an order another scan has
\* claimed.  (The correction at the end moves orders of scans that do not
\* count.)
SequencesKeepOrders ==
    [][~Scanned' => \A o \in Orders :
          control[o] # NO_SEQUENCE => control'[o] = control[o]]_scanVars
=============================================================================
