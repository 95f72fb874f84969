---------------------------- MODULE ChunkLoaders ----------------------------
(***************************************************************************)
(* Loaders of formats made of chunks, in src/src/loaders: a handler for    *)
(* each kind, called by libxmp_iff_load (iff.c) in the order of the file.  *)
(* Handlers refuse chunks that come twice, or before what they build on.   *)
(***************************************************************************)
EXTENDS LoadSteps

\* The handle of libxmp_iff_new: until all chunks are registered no error path
\* releases it.
IffNew == <<Malloc("registering"), Try, Free("registering"), Open("handle")>>
\* libxmp_iff_load and libxmp_iff_release: `more` are the buffers an error frees
\* besides the handle.
IffLoad(n, handlers, more) ==
    <<OnError({"handle"} \cup more), Chunks(n, handlers), Free("handle"), OnError(more)>>

mdl_buffers == {"index", "env", "packinfo"}
mdl_get_chunk_in == Once("in", <<Try, Count("chn", Bit), Try>>)
mdl_get_chunk_pa ==
    Need("in", Once("pa",
        <<Count("pat", Bit), Table("xxp"),
          Each("i", "pat", <<AllocPattern("i"), Maybe(<<Index("i", "1")>>)>>)>>))
\* Tracks are allocated with the rows they need, from a copy of the longest.
mdl_get_chunk_tr ==
    Need("pa", Once("tr",
        <<Count("trk", Some), CheckTracks, Table("xxt"), Malloc("track"),
          OnError({"track", "handle"} \cup mdl_buffers),
          Each("i", "trk", <<Try, AllocTrack("i"), Use("track", "i")>>),
          Free("track"), OnError({"handle"} \cup mdl_buffers)>>))
mdl_get_chunk_ii ==
    Once("ii",
        <<Count("ins", Bit), Table("xxi"),
          Each("i", "ins", <<Count("n", Few), Nsm("i", "n"), Try, AllocSub("i", "n"),
                             When("n", Some, <<Use("sub", "i")>>)>>)>>)
mdl_get_chunk_is ==
    Once("is",
        <<Count("smp", Bit), Table("xxs"), Malloc("packinfo"),
          Each("i", "smp", <<Try, Use("xxs", "i")>>)>>)
\* Instruments and samples of the old format are the same.
mdl_get_chunk_i0 ==
    <<IfSet("ii", <<Fail>>, Once("is",
        <<Set("ii"), Count("ins", Bit), Copy("smp", "ins", 0), InitInstrument,
          Malloc("packinfo"),
          Each("i", "ins", <<Nsm("i", "1"), AllocSub("i", "1"), Try>>)>>))>>
mdl_get_chunk_sa ==
    Need("is", Once("sa",
        <<OnError({"smpbuf", "handle"} \cup mdl_buffers),
          Each("i", "smp",
               <<Try, Maybe(<<IfSet("smpbuf", <<Try>>, <<Malloc("smpbuf"), Set("smpbuf")>>)>>),
                 Maybe(<<Malloc("buf"), OnError({"buf", "smpbuf", "handle"} \cup mdl_buffers),
                         Try, Free("buf"),
                         OnError({"smpbuf", "handle"} \cup mdl_buffers)>>),
                 Sample("i")>>),
          Free("smpbuf"), OnError({"handle"} \cup mdl_buffers)>>))
\* VE, PE and FE are alike: an empty chunk does not count.
mdl_get_chunk_env ==
    <<IfSet("env", <<Fail>>, <<Maybe(<<Malloc("env"), Set("env")>>)>>)>>
mdl_chunks ==
    {mdl_get_chunk_in, mdl_get_chunk_tr, mdl_get_chunk_sa, mdl_get_chunk_env}
\* The index tables are asked for after the handle, and only they are freed when
\* there is no room for them.
mdl_load ==
    <<Try, Malloc("registering"), Malloc("index"), Free("registering"), Open("handle"),
      Either(IffLoad(6, mdl_chunks \cup {mdl_get_chunk_ii, mdl_get_chunk_pa, mdl_get_chunk_is},
                     mdl_buffers),
             IffLoad(6, mdl_chunks \cup {mdl_get_chunk_pa, mdl_get_chunk_i0}, mdl_buffers)),
      Each("i", "trk", <<Use("track", "i")>>), Each("i", "ins", <<Use("subs", "i")>>),
      Free("index"), Free("env"), Free("packinfo")>>

\* DigiBooster Pro
dbm_get_info ==
    Once("info", <<Try, Count("ins", Bit), Count("smp", Bit), Count("pat", Few),
                   Count("chn", Bit), Tracks(0), InitInstrument>>)
\* A song that is too short, or the second, is passed over.
dbm_get_song == <<IfSet("song", <<>>, <<Maybe(<<Set("song"), Try>>)>>)>>
dbm_get_inst ==
    Once("inst", <<Try, Each("i", "ins",
        <<Nsm("i", "1"), AllocSub("i", "1"), Try,
          Maybe(<<When("smp", Some, <<Use("xxs", "0"), Use("sub", "i")>>)>>)>>)>>)
dbm_get_patt ==
    Need("info", Once("patt", <<InitPattern,
        Each("i", "pat", <<Try, PatternTracks("i"), Try,
                           When("chn", Some, <<Use("event", "i")>>)>>)>>))
dbm_get_smpl == Need("info", Once("smpl", <<Each("i", "smp", <<Try, Sample("i")>>)>>))
\* VENV and PENV are alike.
dbm_get_venv ==
    Need("info", Once("venv",
        <<Try, When("ins", Some, <<Use("xxi", "0")>>)>>))
dbm_load ==
    <<Try>> \o IffNew
    \o IffLoad(5, {dbm_get_info, dbm_get_song, dbm_get_inst, dbm_get_patt, dbm_get_smpl,
                   dbm_get_venv}, {})

\* Oktalyzer: patterns (t of them so far) and samples (k so far, of n) come one
\* by one; the first pattern allocates the table.
okt_get_cmod == Once("cmod", <<Count("chn", Some)>>)
okt_get_samp ==
    Once("samp", <<Count("ins", {2}), Copy("smp", "ins", 0), InitInstrument,
                   Each("i", "ins", <<AllocSub("i", "1"), Maybe(<<Nsm("i", "1")>>)>>),
                   Count("n", Few)>>)
okt_get_slen == Need("cmod", Once("slen", <<Count("pat", Few), Tracks(0)>>))
okt_get_pbod ==
    Need("cmod", Need("slen",
        <<IfLess("t", "pat",
            <<When("t", {0}, <<InitPattern>>), PatternTracks("t"), Use("event", "t"), Try,
              Copy("t", "t", 1)>>, <<>>)>>))
\* Variant: more sample bodies than instruments.
okt_get_sbod_unbounded ==
    <<Use("sub", "k"), Sample("k"), Copy("k", "k", 1)>>

okt_get_sbod ==
    <<IfLess("k", "n", <<Use("sub", "k"), Sample("k"), Copy("k", "k", 1)>>, <<>>)>>

okt_load ==
    IffNew \o IffLoad(6, {okt_get_cmod, okt_get_samp, okt_get_slen, okt_get_pbod,
                          okt_get_sbod, <<Try>>}, {})

\* Galaxy 4: the chunks are read twice.  The first time counts the patterns, the
\* instruments (k of them, here with n samples each) and the samples.
gal4_get_main == <<Try, Count("chn", Few), Try>>
gal4_get_inst_cnt == <<Try, Add("ins", "1"), Add("smp", "n")>>
gal4_get_patt ==
    <<Try, PatternTracks("i"), Try, When("chn", Some, <<Use("event", "i")>>)>>
gal4_get_inst ==
    <<Nsm("i", "n"), Try, AllocSub("i", "n"),
      Each("j", "n", <<Use("xxs", "k"), Use("sub", "i"), Maybe(<<Sample("k")>>),
                       Copy("k", "k", 1)>>)>>
\* Patterns that did not come are empty.
gal4_load ==
    <<Count("n", Few), Count("t", Few)>> \o IffNew
    \o <<OnError({"handle"}), Maybe(gal4_get_main), Count("pat", Few),
          Each("i", "t", gal4_get_inst_cnt), Free("handle"), OnError({}), Tracks(0),
          InitInstrument, InitPattern>>
    \o IffNew
    \o <<OnError({"handle"}), Each("i", "pat", <<Maybe(gal4_get_patt)>>),
          Each("i", "ins", gal4_get_inst), Free("handle"), OnError({}),
          Each("i", "pat", <<WhenGone("i", <<PatternTracks("i")>>)>>)>>

\* Galaxy 5: one sample for each instrument, whatever the instrument asks for.
gal5_get_inst ==
    <<Count("n", Few), Nsm("i", "n"), Try, AllocSub("i", "n"),
      When("n", Some, <<Use("xxs", "i"), Use("sub", "i"), Try, Maybe(<<Sample("i")>>)>>)>>
gal5_load ==
    IffNew
    \o <<OnError({"handle"}), Maybe(gal4_get_main), Count("pat", Few), Count("ins", Few), Try,
          Free("handle"), OnError({}), Tracks(0), Copy("smp", "ins", 0), InitInstrument,
          InitPattern>>
    \o IffNew
    \o <<OnError({"handle"}), Each("i", "pat", <<Maybe(gal4_get_patt)>>),
          Each("i", "ins", <<Maybe(gal5_get_inst)>>), Free("handle"), OnError({}),
          Each("i", "pat", <<WhenGone("i", <<PatternTracks("i")>>)>>)>>

\* Digital Tracker: the sequence counts the patterns, PATT the channels.  A
\* pattern number skips those before it (t of them are there); k samples so far.
dt_get_s_q_ == <<When("pat", Some, <<Fail>>), Try, Count("pat", Some)>>
dt_get_patt ==
    <<IfSet("pflag", <<Fail>>, <<>>)>>
    \o Once("patt", <<Try, Count("chn", Bit), Tracks(0), Try>>)
dt_get_inst ==
    <<When("ins", Some, <<Fail>>), Count("ins", Bit), Copy("smp", "ins", 0), Try,
      InitInstrument, Each("i", "ins", <<AllocSub("i", "1"), Try, Maybe(<<Nsm("i", "1")>>)>>)>>
dt_get_dapt ==
    Need("patt",
        <<IfSet("pflag", <<>>, <<Set("pflag"), Copy("t", "0", 0), InitPattern>>),
          Count("n", Few), Try,
          IfLess("n", "pat", <<>>, <<Fail>>), IfLess("n", "t", <<Fail>>, <<>>),
          Copy("n", "n", 1), EachFrom("i", "t", "n", <<PatternTracks("i")>>), Copy("t", "n", 0),
          Maybe(<<IfSet("patbuf", <<Try>>, <<Malloc("patbuf"), Set("patbuf")>>)>>), Try,
          When("chn", Some, <<Use("event", "i")>>)>>)
dt_get_dait ==
    <<Maybe(<<IfLess("k", "ins", <<Use("sub", "k"), Sample("k")>>, <<Fail>>)>>),
      Copy("k", "k", 1)>>
dt_get_text == <<IfSet("text", <<Try>>, <<Maybe(<<Keep("comment"), Set("text")>>)>>)>>
dt_load ==
    IffNew
    \o IffLoad(6, {dt_get_s_q_, dt_get_patt, dt_get_inst, dt_get_dapt, dt_get_dait,
                   dt_get_text}, {"patbuf"})
    \o <<Free("patbuf"), OnError({}),
          IfSet("pflag", <<EachFrom("i", "t", "pat", <<PatternTracks("i")>>)>>, <<>>)>>

\* Epic MegaGames MASI: samples and patterns are counted the first time.
masi_get_dsmp == <<Try, AllocSub("i", "1"), Maybe(<<Nsm("i", "1")>>), Sample("i")>>
masi_get_pbod == <<Try, PatternTracks("i"), Try, When("chn", Some, <<Use("event", "i")>>)>>
masi_second ==
    <<OnError({"handle", "pord", "pnam"}), Each("i", "ins", masi_get_dsmp),
      Each("i", "pat", masi_get_pbod), Try, Free("handle"), Free("pord"), Free("pnam")>>
masi_load ==
    IffNew
    \o <<OnError({"handle"}), Count("ins", Few), Copy("smp", "ins", 0), Count("pat", Few), Try,
          Count("chn", Few), Free("handle"), OnError({}), Tracks(0), Malloc("pnam"),
          OnError({"pnam"}), Malloc("pord"), OnError({"pord", "pnam"}), InitInstrument,
          InitPattern>>
    \o IffNew \o masi_second

\* Instruments have numbers; those that come again or not at all are left out.
masi16_patterns ==
    <<InitPattern,
      Each("i", "pat", <<Try, PatternTracks("i"), Try, When("chn", Some, <<Use("event", "i")>>)>>),
      Each("i", "ins", <<Maybe(<<Sample("i")>>)>>)>>
masi16_load ==
    <<Try, Count("pat", Few), Count("chn", Few), Tracks(0), Count("ins", Few), Try,
      Copy("smp", "ins", 0), InitInstrument,
      Each("i", "ins", <<Maybe(<<Try, AllocSub("i", "1"), Try, Maybe(<<Nsm("i", "1")>>)>>)>>)>>
    \o masi16_patterns

\* Archimedes Tracker: the first pattern and the first sample allocate the tables
\* (t patterns and k samples so far).
arch_get_mvox == Once("mvox", <<Count("chn", Bit \ {0})>>)
arch_get_pnum == Once("pnum", <<Count("pat", Some)>>)
arch_get_patt ==
    Need("mvox", Need("pnum",
        <<IfSet("pflag", <<>>, <<Set("pflag"), Tracks(0), InitPattern>>),
          IfLess("t", "pat", <<>>, <<Fail>>), PatternTracks("t"), Use("event", "t"),
          Copy("t", "t", 1)>>))
arch_get_samp ==
    <<IfSet("sflag", <<>>, <<Count("ins", {2}), Copy("smp", "ins", 0), InitInstrument,
                             Set("sflag")>>),
      IfLess("k", "ins",
             <<Nsm("k", "1"), AllocSub("k", "1"), Try, Sample("k"), Copy("k", "k", 1)>>, <<>>)>>
arch_load ==
    <<Malloc("handle")>>
    \o IffLoad(6, {arch_get_mvox, arch_get_pnum, arch_get_patt, arch_get_samp, <<Try>>}, {})

\* Quadra Composer
emod_get_emic ==
    Once("emic", <<Count("ins", Few), Copy("smp", "ins", 0), InitInstrument,
                   Each("i", "ins", <<AllocSub("i", "1"), Try, Nsm("i", "1")>>),
                   Count("pat", Few), Tracks(0), InitPattern,
                   Each("i", "pat", <<PatternTracks("i")>>)>>)
emod_get_patt == Need("emic", Once("patt", <<Each("i", "pat", <<Use("event", "i")>>)>>))
emod_get_8smp == Need("emic", Once("8smp", <<Each("i", "smp", <<Sample("i")>>)>>))
emod_load == IffNew \o IffLoad(4, {emod_get_emic, emod_get_patt, emod_get_8smp}, {})
=============================================================================
