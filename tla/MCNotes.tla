------------------------------- MODULE MCNotes -------------------------------
(* Small modules for the model checker: instruments and events of the four *)
(* families of formats, each built around one way a note may live and end. *)
EXTENDS Notes

Flat == [flg |-> {}, pts |-> <<>>, sus |-> 1, sue |-> 1, lps |-> 1, lpe |-> 1]

\* Two ticks to a value of 0, held at the first point until released.
Held == [flg |-> {"ON", "SUS"}, pts |-> <<<<0, 64>>, <<1, 32>>, <<3, 0>>>>,
         sus |-> 1, sue |-> 2, lps |-> 1, lpe |-> 1]

\* Ends loud (the note fades), and is carried from note to note.
Carried == [flg |-> {"ON", "CARRY"}, pts |-> <<<<0, 64>>, <<2, 40>>>>,
            sus |-> 1, sue |-> 1, lps |-> 1, lpe |-> 1]

Looped == [flg |-> {"ON", "LOOP"}, pts |-> <<<<0, 64>>, <<2, 40>>>>,
           sus |-> 1, sue |-> 1, lps |-> 1, lpe |-> 2]

Sub(sid, nna, dct, dca) ==
    [sid |-> sid, nna |-> nna, dct |-> dct, dca |-> dca, low |-> FALSE]

One(sub, rls, env) ==
    [subs |-> <<sub>>, map |-> [k \in 0 .. 1 |-> 0], rls |-> rls, env |-> env]

Fx(f) == <<f, 0>>
Ev(note, ins, fx, f2) == [note |-> note, ins |-> ins, fx |-> fx, f2 |-> f2]
Note(note, ins) == Ev(note, ins, Fx("none"), Fx("none"))

ItQuirks == {"ENVFADE", "KEYOFF", "VIRTUAL", "RSTCHN", "S3MRTG"}

Song(reader, quirks, instruments, events) ==
    [reader |-> reader, quirks |-> quirks, instruments |-> instruments,
     looped |-> {}, events |-> events, delays |-> {0},
     repositions |-> FALSE, injects |-> FALSE]

\* New note actions: old notes fade, are released or go on, and duplicates
\* are looked for; past notes are acted on.
NnaSong ==
    Song("IT", ItQuirks,
         <<One(Sub(0, FADE, DctInst, OFF), 1, Flat), One(Sub(1, CONT, DctNote, CUT), 1, Held)>>,
         {Note(1, 1), Note(2, 2), Ev(0, 0, <<"past", FADE>>, <<"past", OFF>>),
          Ev(1, 2, <<"delay", 2>>, Fx("none"))})

\* Envelopes that are carried, restarted, stopped and moved, under a tone
\* portamento that resets them (compatible Gxx) and one that does not.
CarrySong(quirks, events) ==
    Song("IT", ItQuirks \cup quirks,
         <<One(Sub(0, CONT, DctOff, CUT), 1, Carried), One(Sub(1, CUT, DctOff, CUT), 1, Looped)>>,
         events \cup {Note(1, 1), Ev(2, 2, Fx("porta"), Fx("offset"))})

CutSong    == CarrySong({}, {Note(KEY_CUT, 2)})
LinkedSong == CarrySong({"PRENV", "ITOLDFX"},
                        {Note(KEY_OFF, 2)})

\* A key its instrument does not map, an instrument the module does not have,
\* and a sample that is missing.
OddSong ==
    Song("IT", ItQuirks,
         <<[One(Sub(0, OFF, DctSmp, FADE), 0, Held) EXCEPT !.map[1] = Unmapped],
           One(Sub(7, FADE, DctOff, CUT), 2, Flat)>>,
         {Note(1, 1), Note(2, 1), Note(1, 2), Note(1, 3), Note(KEY_FADE, 0),
          Ev(1, 2, <<"delay", 1>>, Fx("none")), Ev(0, 1, <<"envpos", 2>>, <<"venv", 0>>),
          Ev(0, 0, <<"past", CUT>>, <<"nna", OFF>>)})

\* Protracker: instruments without notes are swapped in at the loop's end.
SwapSong ==
    [Song("MOD", {"PROTRACK"}, <<One(Sub(0, CUT, DctOff, CUT), 0, Flat),
                                 One(Sub(1, CUT, DctOff, CUT), 0, Flat)>>,
          {Note(1, 1), Note(0, 1), Note(0, 2), Note(0, 3), Note(1, 0),
           Ev(0, 2, <<"retrig", 1>>, Fx("none")), Ev(1, 2, Fx("porta"), Fx("none"))})
     EXCEPT !.looped = {0}]

\* Other MOD players, with events injected.
ModSong ==
    [Song("MOD", {"RTONCE"}, <<One(Sub(0, CUT, DctOff, CUT), 1, Flat)>>,
          {Note(1, 1), Note(KEY_OFF, 0), Note(0, 2), Ev(1, 1, <<"cut", 0>>, Fx("none")),
           Ev(1, 1, <<"delay", 3>>, Fx("none"))})
     EXCEPT !.injects = TRUE]

\* Scream Tracker, with position calls.
St3Song ==
    [Song("ST3", {"S3MRTG", "RSTCHN"}, <<One(Sub(0, CUT, DctOff, CUT), 0, Flat),
                                         One(Sub(1, CUT, DctOff, CUT), 0, Flat)>>,
          {Note(1, 1), Ev(2, 2, Fx("porta"), Fx("none")), Note(KEY_OFF, 0), Note(1, 3),
           Ev(1, 1, <<"retrig", 0>>, Fx("none")), Ev(2, 2, <<"cut", 1>>, Fx("none"))})
     EXCEPT !.repositions = TRUE]

\* Fast Tracker, with pattern delays: delayed rows repeat the last note.
Ft2Song ==
    [Song("FT2", {"FT2ENV", "FT2BUGS"},
          <<One(Sub(0, CUT, DctOff, CUT), 1, Held),
            One([Sub(1, CUT, DctOff, CUT) EXCEPT !.low = TRUE], 1, Flat),
            One(Sub(1, CUT, DctOff, CUT), 1, Looped)>>,
          {Note(1, 1), Note(2, 2), Note(2, 3), Note(1, 4),
           Ev(0, 0, <<"keyoff", 0>>, Fx("none")), Ev(0, 0, <<"keyoff", 1>>, Fx("none")),
           Ev(0, 0, <<"delay", 1>>, Fx("none")), Ev(1, 1, <<"offset", 1>>, Fx("none")),
           Ev(2, 3, Fx("porta"), <<"delay", 3>>)})
     EXCEPT !.delays = {0, 1}]

ItSongs == {NnaSong, CutSong, LinkedSong, OddSong}
TrackerSongs == {SwapSong, ModSong, St3Song, Ft2Song}
AllSongs == ItSongs \cup TrackerSongs
=============================================================================
