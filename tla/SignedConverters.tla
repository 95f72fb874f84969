-------------------------- MODULE SignedConverters --------------------------
(***************************************************************************)
(* Converters of packed modules in src/src/loaders/prowizard that know     *)
(* their format by a signature.  Each has a test, which asks for so much   *)
(* of the file and looks at bytes of it, and a function that writes a      *)
(* Protracker module: a title of 20 bytes, 31 headers of 30, the length, a *)
(* byte, 128 positions, the magic, patterns of 1024 bytes, the samples.    *)
(* Reads past the end of the packed file give ones and are not noticed.    *)
(***************************************************************************)
EXTENDS LoadSteps

\* The buffer of pw_check, and what pw_load frees: the temporary file and its name.
pw_files == {"temp", "temp_name"}
Scratch(b, A) == <<Malloc(b), OnError({b} \cup pw_files)>> \o A \o <<Free(b), OnError(pw_files)>>

\* Values of a byte, and of the numbers of patterns in it, at their edges.
AnyByte == {0, 1, 127, 128, 129, 255}
UpTo128 == {0, 1, 128}
Patterns == {1, 128, 256}

\* Name, size, finetune, volume, loop start and length of an instrument.
InstrumentBytes == 22 + 2 + 1 + 1 + 2 + 2
Headers == <<Write(20), Write(31 * InstrumentBytes)>>
\* The number of positions, and a byte.
Length == Write(1 + 1)
Positions == Write(128)

\* AC1D: the addresses of the patterns end with a zero.
test_ac1d == <<Request(896), Look(3), Look(10 + 8 * 30), Look(768 + 127), Try>>
depack_ac1d ==
    Headers
    \o <<Count("n", UpTo128), When("n", {0}, <<Fail>>), Copy("n", "n", -1), Length, Positions,
         Magic, Within("n", 0, 128), WriteEach("n", 1024), Samples>>

\* Fuchs Tracker: the header in one piece of 1080 bytes; patterns as many as their
\* size says, which need not be whole (and the allocation is not checked).
test_fuchs ==
    <<Request(196), Look(195), Look(13), Look(30 + 78 + 1), Look(39 * 2 + 113), Try>>
depack_fuchs ==
    <<Write(1080), Magic, Count("n", {0, 1, 256, 257, 32768}),
      When("n", {0}, <<Fail>>)>>
    \o <<Open("tmp"), OnError({"tmp"} \cup pw_files), Try, WriteEach("n", 4), Free("tmp"),
         OnError(pw_files), SamplesBut("fuchs")>>

\* Fuzzac: equal positions share a pattern.
test_fuzz == <<Request(2115), Look(3), Look(73 + 30 * 68), Look(2114), Try>>
depack_fuzz ==
    Headers
    \o <<Count("n", AnyByte), When("n", {129, 255}, <<Fail>>), Length, Within("n", 0, 128),
         Copy("k", "n", 0), Within("k", 0, 128), Positions, Magic, WriteEach("k", 1024), Samples>>

\* FC-M writes as many positions as there are, and fills up to 128.
test_fcm == <<Request(37 + 8 * 31), Look(5), Look(37 + 8 * 30), Look(10 + 19), Try>>
depack_fcm ==
    Headers
    \o <<Length, Count("n", AnyByte), WriteEach("n", 1), PadTo(1080), MagicBut("fcm"),
         Count("k", Patterns), WriteEach("k", 1024), SamplesBut("fcm")>>

\* Hornet Packer
test_hrt == <<Request(1084), Look(1083), Look(20 + 30 * 30 + 25), Look(19), Try>>
depack_hrt ==
    <<Write(950), Length, Positions, Magic, Count("n", Patterns), WriteEach("n", 256 * 4), Samples>>

\* Kefrens Sound Machine: 15 instruments; an invalid note is an error.
test_ksm ==
    <<Request(1536), Look(15), Look(54 + 14 * 32), Look(512 + 1023), Try,
      Count("n", {1, 254}), RequestEach("n", 192, 1536 + 64 * 3),
      LookEach("n", 192, 1536 + 63 * 3), Try>>
depack_ksm ==
    <<Write(13), Write(7), Write(15 * InstrumentBytes), Write(16 * 30), Count("n", UpTo128),
      Length, Copy("k", "n", 0), Within("k", 0, 128), Positions, Magic, Try, WriteEach("k", 1024),
      Samples>>

\* Module Protector, with and without its signature.
test_mp_id ==
    <<Request(382), Look(6 + 8 * 30), Look(254 + 127), Try, Count("n", {1, 128}),
      RequestEach("n", 1024, 382), LookEach("n", 1024, 382 - 4), Try>>
test_mp_noid ==
    <<Request(378), Look(30 * 8 + 7), Look(250 + 127), Try, Count("n", {1, 128}),
      RequestEach("n", 1024, 378), LookEach("n", 1024, 378 - 3), Look(30 * 8 + 7), Try>>
depack_mp ==
    Headers \o <<Length, Positions, Magic, Count("n", Patterns), WriteEach("n", 1024), Samples>>

\* Novotrade Packer: t and k are where its two parts lie.
test_ntp ==
    <<Request(64), Look(29), Try, Count("t", {4, 65539}), RequestEach("t", 1, 4),
      LookEach("t", 1, 3), Try, Count("k", {8, 131078}), RequestEach("k", 1, 4),
      LookEach("k", 1, 3), Try>>
depack_ntp ==
    <<Write(16), Write(4), Count("n", UpTo128 \cup {129}), When("n", {129}, <<Fail>>),
      Count("k", UpTo128 \cup {129}), When("k", {129}, <<Fail>>), Write(930), Length, Try,
      Within("k", 0, 1024), Positions, Within("n", 0, 128), Magic, WriteEach("n", 1024), Samples>>

\* Promizer 1.0c and 1.8a: events are indices into a table, as long as the
\* largest; an index or a finetune beyond its table is an error.
pm_patterns ==
    <<Count("n", UpTo128 \cup {129, 16383}), When("n", {129, 16383}, <<Fail>>), Length,
      Within("n", 0, 128), Copy("k", "n", 0), When("k", {0}, <<Copy("k", "1", 0)>>)>>
pm_events == Scratch("reftab", <<Try, Within("k", 0, 128), Try, WriteEach("k", 1024)>>)
test_p18a == <<Request(22), Look(21), Try, Request(4714), Look(4713), Try>>
depack_p18a ==
    <<Try>> \o Headers \o pm_patterns \o <<Try, Positions, Magic, Try>> \o pm_events \o <<Samples>>
test_p10c == <<Request(22), Look(21), Try, Request(4714), Look(4713), Try>>
depack_p10c ==
    Headers \o pm_patterns \o <<Positions, Magic, Try>> \o pm_events \o <<Samples>>

\* Prorunner 1 and 2, and Wanton Packer: an invalid note is an error.
test_pru1 == <<Request(1084), Look(1083), Look(951), Try>>
depack_pru1 ==
    <<Write(950), Write(1), Write(129), Magic, Count("n", Patterns), Try,
      WriteEach("n", 256 * 4), Samples>>
test_pru2 == <<Request(12 + 31 * 8), Look(3), Look(11 + 30 * 8), Try>>
depack_pru2 ==
    Headers
    \o <<Length, Positions, Magic, Count("n", Patterns), Try, WriteEach("n", 256 * 4), Samples>>
test_wn == <<Request(1082), Look(1081), Look(951), Try>>
depack_wn ==
    <<Write(950), Write(1), Write(129), Magic, Count("n", Patterns), Try,
      WriteEach("n", 256 * 4), Samples>>

\* Pha Packer: packed patterns and unpacked ones, as many.
test_pha ==
    <<Request(451 + 128 * 4), Look(11), Look(30 * 14 + 11), Try, Look(448 + 127 * 4 + 3), Try>>
pha_patterns ==
    <<Malloc("pdata"), OnError({"pdata", "pat"} \cup pw_files), Malloc("pat"), Try,
      WriteEach("n", 1024), Free("pdata"), Free("pat"), OnError(pw_files), Samples>>
depack_pha ==
    Headers \o <<Length, Positions, Magic, Count("n", {1, 128})>> \o pha_patterns

\* UNIC Tracker: 1084 bytes with a magic, or 1080 without.  When the file is too
\* short for what check_pattern asks, the callers take the format for recognised.
check_pattern_list_size == <<Look(952 + 127), Count("n", {1, 128})>>
check_pattern(offset) ==
    Maybe(<<RequestEach("n", 768, offset + 2), LookEach("n", 768, offset - 1), Try>>)
check_instruments == <<Look(30 * 30 + 49), Try>>
test_unic_id ==
    <<Request(1084), Look(1083), Look(30 * 30 + 49), Try>> \o check_pattern_list_size
    \o <<RequestEach("n", 768, 1084), LookEach("n", 768, 1081), Try>>
test_unic_emptyid ==
    <<Request(1084), Look(1083)>> \o check_instruments \o check_pattern_list_size
    \o <<check_pattern(1084)>>
test_unic_noid ==
    <<Request(1084), Look(1083)>> \o check_instruments \o check_pattern_list_size
    \o <<check_pattern(1080), Try>>
depack_unic ==
    Headers \o <<Length, Positions, Magic, Try, WriteEach("n", 1024), Samples>>

\* Variant: nothing in place of the instruments up to 31.
HeadersGiven ==
    <<Write(20), Within("n", 0, 31), WriteEach("n", InstrumentBytes)>>

\* n instruments, and empty ones up to 31.
HeadersFilled ==
    <<Write(20), Within("n", 0, 31), WriteEach("n", InstrumentBytes),
      PadTo(20 + 31 * InstrumentBytes)>>

\* Tracker Packer 1, 2 and 3: too many positions or patterns are an error.
test_tp23 ==
    <<Request(1024), Look(29), Count("n", {1, 31}), LookEach("n", 8, 29), Try,
      LookEach("n", 8, 31), Try>>
tp23_tracks == <<Try, WriteEach("k", 1024), Samples>>
depack_tp23 ==
    HeadersFilled
    \o <<Count("k", UpTo128), When("k", {128}, <<Fail>>), Length, Within("k", 0, 128),
         Count("k", {0, 127, 128, 255}), When("k", {128, 255}, <<Fail>>), Copy("k", "k", 1),
         Within("k", 0, 128), Positions, Magic>>
    \o tp23_tracks
test_tp1 ==
    <<Request(1024), Look(7), Look(30 * 8 + 39), Try, Look(281), Count("n", {1, 128, 129}),
      When("n", {129}, <<Fail>>)>>
depack_tp1 ==
    Headers
    \o <<Length, Within("n", 0, 128), Try, Positions, Magic, Try, WriteEach("n", 1024), Try,
         Samples>>

\* SKYT Packer: a pattern for each position.
test_skyt == <<Request(8 * 31 + 12), Look(8 * 30 + 4), Look(259), Try>>
depack_skyt ==
    Headers
    \o <<Count("n", {1, 127, 128, 256}), When("n", {128, 256}, <<Fail>>), Length,
         Within("n", 0, 128), Positions, Magic, Try, WriteEach("n", 1024), Try, Samples>>
=============================================================================
