----------------------------- MODULE MedLoaders -----------------------------
(***************************************************************************)
(* Loaders of MED and OctaMED modules: med2_load.c, med3_load.c,           *)
(* med4_load.c, mmd1_load.c, mmd3_load.c and mmd_common.c in               *)
(* src/src/loaders.  An instrument is a sample, a synthesizer sound with   *)
(* waveforms and two tables, or both (a hybrid); k counts the samples.     *)
(***************************************************************************)
EXTENDS LoadSteps

\* libxmp_med_new_module_extras: m->extra, with tables as long as mod->ins.
NewModuleExtras == <<Try, Keep("extras"), Try, Keep("vol_tables"), Try, Keep("wav_tables")>>
NewInstrumentExtras == <<Try, KeepAt("extra", "i")>>
Subs(n) == <<Nsm("i", n), AllocSub("i", n)>>
\* The next sample of the instrument.
NextSample == <<Use("xxs", "k"), Sample("k"), Copy("k", "k", 1)>>
RoomForSample == IfLess("k", "smp", <<>>, <<Fail>>)

\* A sample in a file of its own, if there is one.
med_load_external_instrument ==
    Maybe(<<Use("sub", "i"), Maybe(<<Open("path"), Free("path"),
            Maybe(<<Open("s"), OnError({"s"}),
                    Maybe(<<Nsm("i", "1"), Sample("i")>>), Free("s"), OnError({})>>)>>)>>)

\* The last of the 32 instruments stays empty.
med2_load ==
    <<Try, Count("ins", {2}), Copy("smp", "ins", 0), InitInstrument,
      Each("i", "1", <<Try, AllocSub("i", "1")>>), Count("chn", {4}), Count("pat", Few), Tracks(0),
      Try, InitPattern, Each("i", "pat", <<PatternTracks("i"), Use("event", "i")>>),
      Each("i", "1", <<med_load_external_instrument>>)>>

\* A block is read into one buffer and unpacked with another.
med3_unpack_block ==
    <<Malloc("patbuf"), OnError({"patbuf", "conv"}), Try, Try, Use("event", "i"),
      Free("patbuf"), OnError({"conv"})>>
med3_load ==
    <<Try, Count("ins", {2}), Copy("smp", "ins", 0), InitInstrument,
      Each("i", "ins", <<AllocSub("i", "1")>>), Count("chn", {4}), Count("pat", Few), Tracks(0),
      Try, InitPattern,
      Each("i", "pat", <<PatternTracks("i"), Malloc("conv"), OnError({"conv"}), Try>>
                       \o med3_unpack_block \o <<Free("conv"), OnError({})>>),
      Each("i", "ins",
           <<Maybe(<<Either(<<med_load_external_instrument>>,
                            <<Nsm("i", "1"), Maybe(<<Nsm("i", "0")>>),
                              Maybe(<<Sample("i")>>)>>)>>)>>)>>

\* Where the tables of a synthesizer sound go; when there is no room for the
\* second, the first is freed, and freed again with the module.
mmd_alloc_tables(others) ==
    <<Try, KeepAt("vol_table", "i"), OnError({"vol_table"} \cup others), Try,
      KeepAt("wav_table", "i"), OnError(others)>>

\* MED 2.10 to 3.22.  How many samples there are is known beforehand unless the
\* instruments are files: then the table grows (by 64), and is cut in the end.
med4_sample_check(n) ==
    <<Copy("t", "k", 0), Add("t", n),
      IfLess("smp", "t", <<Copy("t", "t", 1), Realloc("t")>>, <<>>)>>
med4_load_sampled_instrument ==
    Subs("1") \o med4_sample_check("1") \o NextSample
med4_load_synth_instrument(others) ==
    <<Try,
      Maybe(<<Count("n", Few), Try>> \o NewInstrumentExtras
            \o Subs("n") \o med4_sample_check("n")
            \o <<Each("j", "n", <<RoomForSample, Use("sub", "i")>> \o NextSample)>>
            \o mmd_alloc_tables(others))>>
med4_load_instrument ==
    <<Either(med4_load_sampled_instrument,
             <<Maybe(<<Try, Either(<<>>, med4_load_synth_instrument({}))>>)>>)>>
med4_load_external_instrument ==
    <<Maybe(<<Open("path"), Free("path"),
              Maybe(<<Open("s"), OnError({"s"}),
                      Maybe(<<Either(med4_load_synth_instrument({"s"}),
                                     med4_load_sampled_instrument)>>),
                      Free("s"), OnError({})>>)>>)>>
med4_patterns ==
    <<Count("pat", Few), Try, Count("chn", Few), Try, Tracks(0), InitPattern,
      Each("i", "pat", <<Try, PatternTracks("i"),
                         When("chn", Some, <<Use("event", "i")>>)>>)>>
\* Each annotation takes the place of the one before.
med4_parse_iff == <<Each("i", "2", <<Maybe(<<Keep("annotation")>>)>>)>>
med4_instruments ==
    <<Count("ins", Few)>> \o NewModuleExtras
    \o <<Either(<<Copy("smp", "ins", 0), InitInstrument,
                  Each("i", "ins", <<Maybe(med4_load_external_instrument)>>),
                  IfLess("k", "smp", <<Realloc("k")>>, <<>>)>>,
                <<Try, Count("smp", Few), Try, InitInstrument,
                  Each("i", "ins", <<Maybe(med4_load_instrument)>>)>>)>>
med4_load == <<Try>> \o med4_patterns \o med4_instruments \o med4_parse_iff

\* OctaMED: the four kinds of instruments of mmd_load_instrument.
mmd_load_hybrid_instrument(others) ==
    <<RoomForSample, Count("n", Some), Try>> \o NewInstrumentExtras \o Subs("n")
    \o <<Use("sub", "i")>> \o NextSample
    \o <<EachFrom("j", "1", "n", <<RoomForSample, Use("sub", "i")>> \o NextSample)>>
    \o mmd_alloc_tables(others)
mmd_load_synth_instrument(others) ==
    <<Either(<<Nsm("i", "0")>>,
             <<Count("n", Few), Try>> \o NewInstrumentExtras \o Subs("n")
             \o <<Each("j", "n", <<RoomForSample, Use("sub", "i")>> \o NextSample)>>
             \o mmd_alloc_tables(others))>>
mmd_load_sampled_instrument ==
    <<RoomForSample>> \o NewInstrumentExtras \o Subs("1") \o <<Use("sub", "i")>> \o NextSample
mmd_load_iffoct_instrument ==
    <<Copy("t", "k", 1), IfLess("t", "smp", <<>>, <<Fail>>), Try>>
    \o NewInstrumentExtras \o Subs("2")
    \o <<Each("j", "2", <<Use("sub", "i")>> \o NextSample)>>
mmd_load_instrument(others) ==
    <<Either(<<Either(mmd_load_hybrid_instrument(others), mmd_load_synth_instrument(others))>>,
             <<Either(mmd_load_iffoct_instrument, mmd_load_sampled_instrument), Try>>)>>

\* Counts first: samples of the instruments, channels of the blocks.
mmd_buffers == {"smplarr", "blockarr", "patbuf", "exp_smp"}
mmd_counts ==
    <<Try, Count("pat", Few), Count("ins", Few), Malloc("smplarr"), OnError(mmd_buffers), Try,
      Count("smp", Few), Try, Maybe(<<Try, Maybe(<<Keep("text")>>)>>), Malloc("blockarr"), Try>>
\* Blocks without an address are left out.
mmd_blocks ==
    <<Try, Tracks(0), InitPattern, Malloc("patbuf"),
      Each("i", "pat", <<Maybe(<<Try, PatternTracks("i"),
                                 When("chn", Some, <<Use("event", "i")>>)>>)>>),
      Free("patbuf")>>
mmd_instruments ==
    NewModuleExtras
    \o <<InitInstrument, Malloc("exp_smp"), Maybe(<<Try>>), Maybe(<<Try>>),
         Each("i", "ins", <<Maybe(<<Try>> \o mmd_load_instrument(mmd_buffers))>>),
         Free("exp_smp"), Free("blockarr"), Free("smplarr")>>
mmd1_load == mmd_counts \o <<Count("chn", Few)>> \o mmd_blocks \o mmd_instruments
\* mmd3_load.c takes the same steps; a song without channels is refused.
mmd3_counts == mmd_counts \o <<Count("chn", Some)>>
mmd3_blocks == mmd_blocks
mmd3_instruments == mmd_instruments
mmd3_load == mmd3_counts \o mmd3_blocks \o mmd3_instruments
=============================================================================
