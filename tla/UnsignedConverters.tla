-------------------------- MODULE UnsignedConverters --------------------------
(***************************************************************************)
(* Converters of src/src/loaders/prowizard for formats without a           *)
(* signature: the tests look at the instruments, the positions and the     *)
(* patterns.  What a converter does not check any more (the number of      *)
(* patterns, of instruments), its test has: n, k and t go from one to the  *)
(* other.                                                                  *)
(***************************************************************************)
EXTENDS SignedConverters

\* XANN Packer
test_xann ==
    <<Request(2048), Look(127 * 4 + 3), Look(519 + 16 * 30), Look(520 + 16 * 30 + 3), Try>>
depack_xann ==
    Headers
    \o <<Count("n", UpTo128), Within("n", 0, 128), Length, Positions, Magic,
         Count("k", {1, 128}), Try, WriteEach("k", 1024), Samples>>

\* Digital Illusions: n instruments; k positions end with 0xff before t.
test_di ==
    <<Request(14), Look(13), Count("n", {0, 31, 32}), When("n", {32}, <<Fail>>),
      RequestEach("n", 8, 14), LookEach("n", 8, 13), Try, Count("t", {3, 388}), Try,
      RequestEach("t", 1, 0), LookEach("t", 1, -1), Count("k", {1, 128}), Try>>
depack_di ==
    HeadersFilled
    \o <<Try, Within("k", 0, 128), Length, Positions, Count("k", UpTo128),
         When("k", {128}, <<Fail>>), Magic, Copy("k", "k", 1), Within("k", 0, 128),
         WriteEach("k", 1024), Samples>>

\* Eureka Packer: n patterns; the tracks are looked at up to the start t of the
\* last, and the byte after.
test_eu ==
    <<Request(1084), Look(30 * 30 + 49), Look(1083), Try, Count("n", {1, 128}),
      RequestEach("n", 8, 1085), LookEach("n", 8, 1083), Try, Count("t", {1092, 65535}),
      RequestEach("t", 1, 0), Maybe(<<LookSumBut(Per("t", 1), 0, "eureka")>>), Try>>
depack_eu ==
    <<Write(1080), Magic, Within("n", 0, 128), WriteEach("n", 1024), Samples>>

\* The Player 4: neither positions nor instruments may be too many.
test_p4x == <<Request(8), Look(3), Try>>
p4x_events == Scratch("tdata", <<Try, WriteEach("k", 1024), Samples>>)
depack_p4x ==
    <<Count("k", UpTo128), When("k", {128}, <<Fail>>), Count("n", {0, 31, 32}),
      When("n", {32}, <<Fail>>), Try>> \o HeadersFilled
    \o <<Try, Length, Positions, Magic, Within("k", 0, 128)>>
    \o p4x_events

\* ProPacker 1.0, 2.1 and 3.0: n tracks, k positions; the table of events (in 3.0
\* of t events) has the length the test found (and the allocation is not checked).
test_pp10 ==
    <<Request(1024), Look(30 * 8 + 7), Look(249), Look(250 + 511), Try,
      Count("k", {1, 127}), Count("n", {1, 256}), RequestEach("n", 256, 762),
      LookEach("n", 256, 758), Try>>
depack_pp10 ==
    <<Write(20), Try, Write(31 * InstrumentBytes), Length, Within("k", 0, 128), Positions,
      Magic, WriteEach("k", 1024), Try, Samples>>
test_pp21 ==
    <<Request(762), Look(30 * 8 + 5), Look(250 + 511), Try, Count("k", {1, 127}),
      Count("n", {1, 256}), RequestEach("n", 128, 766), LookEach("n", 128, 765), Try>>
test_pp30 ==
    test_pp21
    \o <<Count("t", {1, 16383}), RequestSum([n |-> 128, k |-> 0, t |-> 4], 766),
         LookSum([n |-> 128, k |-> 0, t |-> 4], 765), Try>>
depack_pp21_pp30 ==
    Headers
    \o <<Within("k", 0, 128), Length, Within("n", 0, 512), Positions, Magic, Try,
         Open("tab"), OnError({"tab"} \cup pw_files), Try, WriteEach("k", 1024),
         Free("tab"), OnError(pw_files), Samples>>

\* The Player 5 and 6: n instruments, k patterns, samples from t.  An instrument
\* may have the sample of another, even of the one after the last.
theplayer_test ==
    <<Request(4), Look(3), Count("k", {1, 127}), Count("n", {1, 31}),
      RequestEach("n", 6, 4), LookEach("n", 6, 3), Try,
      RequestSum([n |-> 6, k |-> 8, t |-> 0], 4), LookSum([n |-> 6, k |-> 8, t |-> 0], 3),
      Try, RequestSum([n |-> 6, k |-> 8, t |-> 0], 4 + 128),
      LookSum([n |-> 6, k |-> 8, t |-> 0], 4 + 127), Try, Count("t", {20, 65535}),
      RequestEach("t", 1, 1), LookEach("t", 1, 0), Try>>
player_headers ==
    <<Maybe(<<Copy("t", "n", 0), WithinBut("t", 1, 31, "sample of another")>>)>>
    \o HeadersFilled
    \o <<Within("k", 0, 128), Count("t", {1, 127}), Within("t", 0, 128), Length, Positions,
         Magic>>
\* A negative place in the file is an error.
decode_pattern == <<Try>>
theplayer_depack ==
    Scratch("tdata",
        <<Try>> \o player_headers \o decode_pattern \o <<WriteEach("k", 1024)>>)
    \o <<Samples, Open("smp_buffer"), Free("smp_buffer")>>
test_p61a ==
    <<Request(4), Look(3), Count("k", {1, 127}), Count("n", {1, 31}),
      RequestEach("n", 6, 4), LookEach("n", 6, 3), Try,
      RequestSum([n |-> 6, k |-> 8, t |-> 0], 4), LookSum([n |-> 6, k |-> 8, t |-> 0], 3),
      Try, Count("t", {20, 65535}), RequestEach("t", 1, 0), LookEach("t", 1, -1), Try>>
\* An invalid note, or the end of the file, is an error, in an event and in those
\* repeated from before.
p61a_events == <<Try>>
p61a_repeated == Maybe(<<Try>>)
depack_p61a ==
    <<Try>> \o player_headers \o <<Try>> \o p61a_events
    \o <<p61a_repeated, WriteEach("k", 1024), Samples, Open("smp_buffer"), Free("smp_buffer")>>

\* NoiseRunner
test_nru ==
    <<Request(1500), Look(30 * 16 + 11), Look(1083), Try, Count("n", {1, 128}),
      RequestEach("n", 1024, 1084), LookEach("n", 1024, 1083), Try>>
depack_nru == Headers \o <<Length, Positions, Magic, WriteEach("n", 1024), Samples>>

\* NoisePacker 1, 2 and 3: n instruments, k positions, patterns up to number t;
\* which t are too large, and how far beyond the tracks a test looks.
np_header ==
    <<Request(10), Look(7), Count("k", {1, 127}), Count("n", {1, 31}),
      RequestEach("n", 16, 15), LookEach("n", 16, 7), Try,
      RequestSum([n |-> 16, k |-> 2, t |-> 0], 14), LookSum([n |-> 16, k |-> 2, t |-> 0], 11)>>
np_tracks(asked, beyond) ==
    <<RequestSum([n |-> 16, k |-> 2, t |-> 8], 20 + 192 + asked),
      LookSum([n |-> 16, k |-> 2, t |-> 8], 20 + 191 + beyond), Try>>
np_table(tooLarge) ==
    <<Count("t", {0, 127, 128, 129, 255}), When("t", tooLarge, <<Fail>>), Try>>
test_np1 == np_header \o np_table({128, 129, 255}) \o np_tracks(0, -2)
test_np2 == np_header \o np_table({129, 255}) \o np_tracks(16, 2)
test_np3 == np_header \o np_table({128, 129, 255}) \o np_tracks(2, 2)
np_patterns ==
    <<Within("t", 0, 128), Positions, Magic, Try, WriteEach("t", 1024), Samples>>
depack_np1 ==
    HeadersFilled \o <<Length, Within("k", 0, 128), Copy("t", "t", 1)>> \o np_patterns
depack_np2 ==
    HeadersFilled
    \o <<Length, Within("k", 0, 128), Copy("t", "t", 1), When("t", {129}, <<Fail>>)>>
    \o np_patterns
depack_np3 ==
    HeadersFilled \o <<Length, Within("k", 0, 128), Copy("t", "t", 1), Try>> \o np_patterns

\* Zen Packer: n positions, in a table at t.
test_zen ==
    <<Request(9 + 16 * 31), Look(30 * 16 + 9), Look(30 * 16 + 17), Try, Count("n", {1, 127}),
      Count("t", {502, 2163190}), RequestSum([n |-> 4, k |-> 0, t |-> 1], 4),
      LookSum([n |-> 4, k |-> 0, t |-> 1], 3), Try>>
depack_zen ==
    <<Count("k", UpTo128), When("k", {128}, <<Fail>>)>> \o Headers
    \o <<Length, Within("n", 0, 128), Copy("k", "k", 1), Within("k", 0, 128), Positions, Magic,
         Try, WriteEach("k", 1024), Samples>>

\* Unic Tracker 2: of 127 positions the loop misses its end at 128, and leaves at
\* the magic that is not zero.
test_unic2 ==
    <<Request(1084), Look(1083), Look(30 * 30 + 29), Try, Count("n", {1, 126, 127}),
      When("n", {127}, <<Look(1083), Fail>>), Count("n", {1, 128}),
      RequestEach("n", 768, 1062), LookEach("n", 768, 1059), Try>>
depack_unic2 == Headers \o <<Length, Positions, Magic, Try, WriteEach("n", 1024), Samples>>

\* Heatseeker: the test asks for t bytes of patterns, which may end within an
\* event, or for what is left of them.
test_crb ==
    <<Request(378), Look(30 * 8 + 7), Look(250 + 127), Try, Count("n", {1, 128}),
      Count("t", {6, 1024, 131072}), RequestEach("t", 1, 378),
      LookSumBut(Per("t", 1), 379, "heatseek"), Maybe(<<RequestEach("t", 1, 382)>>), Try>>
depack_crb ==
    Headers
    \o <<Length, Positions, Within("n", 0, 128), Magic, Try, WriteEach("n", 1024), Samples>>

\* The Dark Demon: the length, a byte and the positions in one piece; the samples
\* (t bytes) are before the patterns.
test_tdd ==
    <<Request(564), Look(30 * 14 + 143), Try, Count("n", {1, 128}),
      Count("t", {4, 31 * 65535}), RequestSum([n |-> 1024, k |-> 0, t |-> 1], 564),
      LookSum([n |-> 1024, k |-> 0, t |-> 1], 563), Try>>
depack_tdd ==
    Headers \o <<Write(130), Magic, Try, WriteEach("n", 1024), Samples>>

\* Startrekker Packer: n positions; the patterns end at t.
test_starpack ==
    <<Request(788), Look(30 * 8 + 27), Look(787), Try, Count("n", {1, 127}),
      Count("t", {788, 262932}), RequestEach("t", 1, 8), LookEach("t", 1, 6), Try>>
\* The patterns in the order of their addresses, with what lies between them.
starpack_order ==
    <<Within("n", 0, 128), Count("k", {1, 128}), Within("k", 0, 128)>>
depack_starpack ==
    Headers \o starpack_order
    \o <<Length, Positions, Magic, WriteEach("k", 1024), Samples>>

\* Game Music Creator: what is asked for first goes by the last position, k.
test_GMC ==
    <<Request(1024), Look(243), Look(244 + 199), Try, Count("n", {2, 64}), Count("k", {0, 63}),
      RequestEach("k", 1024 * 1024, 444 + 403), RequestEach("n", 1024, 444),
      LookEach("n", 1024, 443), Try>>
depack_GMC ==
    <<Write(20), Write(15 * InstrumentBytes), Write(16 * InstrumentBytes), Length, Positions,
      Magic, WriteEach("n", 1024), Samples>>

\* Titanics Player: n positions end with 0xffff; without any there is a pattern.
test_titanics ==
    <<Request(182), Look(14 * 12 + 11), Try, Count("n", {0, 1, 127}),
      RequestEach("n", 2, 182), LookEach("n", 2, 181), Try>>
depack_titanics ==
    <<Write(20), Write(15 * InstrumentBytes), Write(16 * InstrumentBytes), Within("n", 0, 128),
      Length, Within("n", 1, 128), Positions, Magic, When("n", {0}, <<Copy("n", "n", 1)>>),
      WriteEach("n", 1024), Samples>>
\* pw_check has a buffer, unless the file is in memory, and takes the first format
\* whose test finds nothing wrong; pw_wizardry looks whether all reads went well.
Converts(test, depack) == test \o <<Free("b"), OnError(pw_files)>> \o depack
pw_formats ==
    {Converts(test_ac1d, depack_ac1d), Converts(test_fuchs, depack_fuchs),
     Converts(test_fcm, depack_fcm), Converts(test_fuzz, depack_fuzz),
     Converts(test_hrt, depack_hrt), Converts(test_ksm, depack_ksm),
     Converts(test_mp_id, depack_mp), Converts(test_mp_noid, depack_mp),
     Converts(test_ntp, depack_ntp), Converts(test_p18a, depack_p18a),
     Converts(test_p10c, depack_p10c), Converts(test_pru1, depack_pru1),
     Converts(test_pru2, depack_pru2), Converts(test_pha, depack_pha),
     Converts(test_wn, depack_wn), Converts(test_unic_id, depack_unic),
     Converts(test_unic_emptyid, depack_unic), Converts(test_unic_noid, depack_unic),
     Converts(test_tp23, depack_tp23), Converts(test_tp1, depack_tp1),
     Converts(test_skyt, depack_skyt), Converts(test_xann, depack_xann),
     Converts(test_di, depack_di), Converts(test_eu, depack_eu),
     Converts(test_p4x, depack_p4x), Converts(test_pp21, depack_pp21_pp30),
     Converts(test_pp30, depack_pp21_pp30), Converts(test_pp10, depack_pp10),
     Converts(theplayer_test, theplayer_depack), Converts(test_p61a, depack_p61a),
     Converts(test_nru, depack_nru), Converts(test_np1, depack_np1),
     Converts(test_np2, depack_np2), Converts(test_np3, depack_np3),
     Converts(test_zen, depack_zen), Converts(test_unic2, depack_unic2),
     Converts(test_crb, depack_crb), Converts(test_tdd, depack_tdd),
     Converts(test_starpack, depack_starpack), Converts(test_GMC, depack_GMC),
     Converts(test_titanics, depack_titanics)}
pw_check ==
    <<OnError(pw_files), Maybe(<<Malloc("b"), OnError({"b"} \cup pw_files), Try>>)>>
pw_wizardry ==
    pw_check
    \o <<OneOf(pw_formats), Try, Copy("n", "0", 0), Copy("k", "0", 0), Copy("t", "0", 0)>>
=============================================================================
