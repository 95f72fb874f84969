----------------------------- MODULE SmallSongs ------------------------------
(***************************************************************************)
(* Modules small enough to try every way of filling their patterns with    *)
(* the flow effects of a set.                                              *)
(***************************************************************************)
EXTENDS Scan, Sequences, TLC

\* The rules of a tracker: the bits of FLOW_MODE_* in src/src/common.h, and the
\* quirks.
Mode(quirks, flow) == {[flow |-> flow, quirks |-> quirks]}
Liquid      == Mode({"MARKER"}, {"END_CANCELS", "IGNORE_TARGET", "SHARED_BREAK"})
Protracker  == Mode({"MARKER", "PROTRACK"}, {})
ScreamTracker ==
    Mode({"MARKER"}, {"GLOBAL_TARGET", "GLOBAL_COUNT", "PATTERN_RESET", "END_ADVANCES",
                      "DELAY_BREAK", "DELAY_JUMP", "UNSET_BREAK", "UNSET_JUMP",
                      "JUMP_NO_ROW_SET"})
ImpulseTracker ==
    Mode({"MARKER"}, {"UNSET_BREAK", "UNSET_JUMP", "DELAY_BREAK", "END_ADVANCES",
                      "JUMP_NO_ROW_SET"})

AllRules == Liquid \cup Protracker \cup ScreamTracker \cup ImpulseTracker

NoEffect == [fx |-> "none", arg |-> 0]
Fx(fx, args) == {[fx |-> fx, arg |-> a] : a \in args}

\* Rows of two channels: both act, or the first alone.
Duo(A, B) == {(0 :> a) @@ (1 :> b) : a \in A, b \in B}
Solo(A)   == Duo(A, {NoEffect})

\* All patterns of a number of rows.
Patterns(rows, Row) == [0 .. rows - 1 -> Row]

\* The module with order list `list` and the patterns ps.
SongOf(list, ps) ==
    [len  |-> Len(list), pat |-> Len(ps), rst |-> 0,
     xxo  |-> [o \in 0 .. Len(list) - 1 |-> list[o + 1]],
     rows |-> [p \in 0 .. Len(ps) - 1 |-> Cardinality(DOMAIN ps[p + 1])],
     fx   |-> [p \in 0 .. Len(ps) - 1 |-> ps[p + 1]]]

\* One or two patterns, arranged by the order lists.
OnePattern(Lists, P) == {SongOf(l, <<p>>) : l \in Lists, p \in P}
TwoPatterns(Lists, P, Q) == {SongOf(l, <<p, q>>) : l \in Lists, p \in P, q \in Q}

\* Order lists with markers, orders that come back and orders nothing leads
\* to.
ListSongs ==
    LET Row == Solo({NoEffect} \cup Fx("jump", {0, 1}) \cup Fx("break", {1})
                       \cup Fx("loop", {0, 1}) \cup Fx("rowdelay", {1}))
    IN  TwoPatterns({<<0, 1>>, <<0, SKIP, 1>>, <<1, 0, END, 0>>, <<SKIP, 1, END>>,
                     <<END, SKIP, END>>},
                    Patterns(2, Row), Patterns(1, Row))

\* Loops that interfere with each other, and with breaks, until only the
\* limits stop the scan.
LoopSongs ==
    LET E == {NoEffect} \cup Fx("jump", {1}) \cup Fx("break", {1})
                \cup Fx("loop", {0, 1, 2}) \cup Fx("rowdelay", {1})
    IN  OnePattern({<<0, 0>>}, Patterns(2, Duo(E, E)))

\* The same in a sequence of its own.
LateLoopSongs ==
    LET E == {NoEffect} \cup Fx("jump", {2}) \cup Fx("loop", {0, 1, 2})
    IN  TwoPatterns({<<0, 1, 0>>}, Patterns(1, Solo(Fx("jump", {0}))),
                    Patterns(2, Duo(E, E)))

ScanSongs == ListSongs \cup LoopSongs \cup LateLoopSongs
=============================================================================
