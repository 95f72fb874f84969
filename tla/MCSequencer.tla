----------------------------- MODULE MCSequencer -----------------------------
(* The sequencer playing small modules.                                    *)
EXTENDS Sequencer, SmallSongs

\* Jumps, breaks and loops between patterns of different lengths; a break may
\* lead beyond the end of the shorter one.
JumpSongs ==
    LET Row(fxs) == Solo({NoEffect} \cup Fx("break", {2}) \cup fxs)
    IN  TwoPatterns({<<0, 1, SKIP>>, <<1, END, 0>>},
                    Patterns(3, Row(Fx("jump", {0, 1}) \cup Fx("loop", {0, 1}))),
                    Patterns(2, Row(Fx("jump", {0}) \cup Fx("loop", {1}))))

\* The first channel breaks the rows off, the second delays them, by repeating
\* them or not.
DelaySongs ==
    OnePattern({<<0>>, <<0, 0>>},
        Patterns(3, Duo({NoEffect} \cup Fx("break", {1}),
                        {NoEffect} \cup Fx("delay", {1}) \cup Fx("rowdelay", {1}))))

FlowSongs == JumpSongs \cup DelaySongs
TwoTrackers == ScreamTracker \cup Protracker

\* Many order lists, for the position calls; pattern 7 does not exist.  With
\* loops, trackers disagree on how often the song passes its end.
CallSongs ==
    TwoPatterns({<<0, 1>>, <<0, SKIP, 1>>, <<0, END, 1>>, <<0, 7, 1, 0>>, <<SKIP, 1, 0>>},
                Patterns(2, Solo({NoEffect} \cup Fx("jump", {1}) \cup Fx("break", {2})
                                   \cup Fx("loop", {1}))),
                Patterns(3, Solo({NoEffect} \cup Fx("line", {1}))))

\* Songs with patterns of different lengths in which nothing happens.
PlainSongs ==
    TwoPatterns({<<0, 1>>, <<1, 0>>}, Patterns(3, Solo({NoEffect})), Patterns(2, Solo({NoEffect})))

\* xmp_set_player makes it a Protracker module, which has no markers.
NoMarkers == Mode({"PROTRACK"}, {})
=============================================================================
