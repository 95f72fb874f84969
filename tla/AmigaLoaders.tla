---------------------------- MODULE AmigaLoaders ----------------------------
(***************************************************************************)
(* Loaders of modules of the Amiga, Atari and Acorn trackers, in           *)
(* src/src/loaders.  A count that the format fixes (31 instruments) has    *)
(* its value where it is small, 2 otherwise.                               *)
(***************************************************************************)
EXTENDS TrackerLoaders, ChunkLoaders, UnsignedConverters

\* Instruments with the samples of the same number.
Instruments == <<InitInstrument, EachInstrument(<<>>)>>
ReadPatterns == <<InitPattern, EachPattern(ReadEvents)>>
\* A pattern refers to any of the tracks.
SharedTracks == <<Index("i", "0"), Maybe(<<Index("i", "trk-1")>>)>>
ReadTracks == Each("i", "trk", <<AllocTrack("i"), Use("track", "i"), Try>>)
\* A handle on a file of its own, which may not be there.
FromFile(A) == Maybe(<<Open("s"), OnError({"s"})>> \o A \o <<Free("s"), OnError({})>>)

\* Every Protracker clone: a header buffer, instruments, patterns, samples.  A
\* "WOW" file turns out to have eight channels.
mod_instruments ==
    <<Malloc("patbuf"), OnError({"patbuf"}), Try, Count("chn", {0, 1}), Try,
      Free("patbuf"), OnError({}), Count("pat", Some)>> \o Instruments
mod_patterns ==
    <<Maybe(<<Try>>), Maybe(<<Count("chn", {2})>>), Try, Tracks(0), InitPattern,
      Malloc("patbuf"), OnError({"patbuf"}),
      Each("i", "pat", <<PatternTracks("i"), Try,
                         When("chn", Some, <<Use("event", "i")>>)>>),
      Free("patbuf"), OnError({})>>
\* A song takes its samples from files of their own.
mod_samples ==
    Either(<<Each("i", "smp", <<FromFile(<<Sample("i")>>)>>)>>,
           <<Each("i", "smp", <<Maybe(<<Try, Sample("i")>>)>>)>>)
mod_load ==
    <<Count("ins", {2}), Copy("smp", "ins", 0)>> \o mod_instruments
    \o mod_patterns \o <<mod_samples>>

\* Startrekker keeps synthesized instruments in a file beside the module.
read_am_instrument ==
    <<Try, Nsm("i", "1"), Try, KeepAt("extra", "i"), Sample("i")>>
flt_load ==
    <<Maybe(<<Open("nt"), Set("nt"), OnError({"nt"}), Try>>), Count("chn", {2, 4}),
      Count("ins", {2}), Copy("smp", "ins", 0), Count("pat", Some), Tracks(0),
      IfSet("nt", <<OnError({}), Maybe(<<Set("am"), Try, Keep("extra_am")>>), OnError({"nt"})>>, <<>>)>>
    \o Instruments \o ReadPatterns
    \o <<Each("i", "smp",
             <<IfSet("am", <<Either(<<Try>> \o read_am_instrument, <<Sample("i")>>)>>,
                     <<Sample("i")>>)>>),
         Free("nt")>>

\* The patterns are as short as the file.
st_load ==
    <<Count("chn", {4}), Count("ins", {2}), Copy("smp", "ins", 0), Try, Count("pat", Some),
      Tracks(0)>> \o Instruments
    \o <<InitPattern, EachPattern(<<Try, Use("event", "i")>>), EachSample>>

\* SoundFX 1.3 has 15 instruments, 2.0 has 31, and the magic after their sizes:
\* both layouts are tried.  (In a model file only one place has the magic.)
sfx_13_20_load(nins) ==
    <<Try, Count("chn", {4}), Count("ins", {nins}), Copy("smp", "ins", 0), Try,
      Count("pat", Some), Tracks(0)>>
    \o Instruments \o ReadPatterns \o <<EachSample>>
sfx_load == <<Either(sfx_13_20_load(1), <<Try>> \o sfx_13_20_load(2))>>

\* Tracks are shared by the positions.
ice_load ==
    <<Count("trk", Few), Count("pat", Few), Try,
      When("trk", {0}, <<When("pat", Some, <<Fail>>)>>),
      Count("ins", {2}), Copy("smp", "ins", 0)>>
    \o Instruments
    \o <<InitPattern, Each("i", "pat", <<AllocPattern("i")>> \o SharedTracks),
         ReadTracks, EachSample>>

digi_load ==
    <<Try, Count("ins", {2}), Copy("smp", "ins", 0), Count("pat", Some),
      Count("chn", Few), Tracks(0)>> \o Instruments
    \o <<InitPattern,
         EachPattern(<<Try, When("chn", Some, <<Use("event", "i")>>)>>),
         Each("i", "ins", <<Sample("i")>>)>>

\* The first n instruments here are "Mupp", with (28) samples of their own that
\* come after the (31) others: k counts them.
hmn_load ==
    <<Count("chn", {4}), Count("ins", {2}), Copy("smp", "ins", 0), Count("n", Few),
      Add("smp", "n"), Add("smp", "n"), Count("pat", Some), Tracks(0), Try,
      Keep("extra_hmn"), InitInstrument,
      Each("i", "ins",
           <<IfLess("i", "n", <<Nsm("i", "2"), Try, KeepAt("extra", "i"), AllocSub("i", "2")>>,
                    <<Nsm("i", "1"), AllocSub("i", "1")>>), Use("sub", "i")>>)>>
    \o ReadPatterns
    \o <<Each("i", "ins", <<Sample("i")>>), Copy("k", "ins", 0),
         Each("i", "n", <<Each("j", "2", <<Use("sub", "i"), Use("xxs", "k"), Sample("k"),
                                           Copy("k", "k", 1)>>)>>)>>
\* AMOS: the instruments pass through a buffer, the playlist comes before the
\* patterns (its allocation is not checked).
abk_load ==
    <<Try, Count("chn", {4}), Count("pat", Few), Try, Tracks(0), Count("ins", Few), Try,
      Copy("smp", "ins", 0), InitInstrument, When("ins", {0}, <<Fail>>),
      Malloc("ci"), OnError({"ci"}), EachInstrument(<<>>), Free("ci"), OnError({}),
      InitPattern, Open("playlist"), OnError({"playlist"}),
      Each("i", "pat", <<PatternTracks("i"), Use("event", "i"), Try>>), Try,
      Free("playlist"), OnError({}), EachSample>>

asylum_load ==
    <<Count("ins", Few), Count("pat", Few), Try, Count("chn", {8}), Copy("smp", "ins", 0),
      Tracks(0), InitInstrument, Each("i", "ins", <<AllocSub("i", "1"), Try>>), InitPattern,
      EachPattern(<<Try, Use("event", "i")>>),
      Each("i", "ins", <<Maybe(<<Sample("i"), Nsm("i", "1")>>)>>)>>

chip_load ==
    <<Malloc("tidx"), OnError({"tidx"}), Try, Count("ins", {2}), Copy("smp", "ins", 0),
      Count("pat", Few), Count("trk", Some)>> \o Instruments
    \o <<InitPattern, Each("i", "pat", <<AllocPattern("i")>> \o SharedTracks),
         ReadTracks, EachSample, Free("tidx")>>

coco_load ==
    <<Count("chn", Few), Count("ins", Few), Copy("smp", "ins", 0), Count("pat", Few),
      Tracks(0), Try, InitInstrument, EachInstrument(<<Try>>), InitPattern, Try,
      EachPattern(<<When("chn", Some, <<Use("event", "i")>>), Try>>), EachSample>>

\* Magnetic Fields Packer: the samples are in another file, and without it the
\* instruments have none.
mfp_tracks ==
    <<Count("pat", Few), Try, Count("trk", Few), Malloc("mapping"), OnError({"mapping"}),
      Malloc("track_offs"), OnError({"mapping", "track_offs"}), InitPattern,
      Each("i", "pat", <<AllocPattern("i")>>),
      When("trk", Some, <<Each("i", "pat", <<Maybe(<<Index("i", "trk-1")>>)>>)>>),
      Free("mapping"), OnError({"track_offs"}), ReadTracks, Free("track_offs"), OnError({})>>
\* An error leaves the file under the handle open: free(s), not hio_close(s).
mfp_samples ==
    <<Open("path"),
      Maybe(<<Free("path"), Each("i", "ins", <<Nsm("i", "0")>>), Return>>),
      Open("s"), Open("file"), Free("path"), OnError({"s"}),
      Each("i", "ins", <<Use("sub", "i"), Sample("i")>>), Free("s"), Free("file")>>
mfp_load ==
    <<Count("chn", {4}), Count("ins", {2}), Copy("smp", "ins", 0)>> \o Instruments
    \o mfp_tracks \o mfp_samples

no_load ==
    <<Try, Count("pat", Some), Count("chn", Few), Tracks(0), Count("ins", {2}),
      Copy("smp", "ins", 0), InitInstrument, EachInstrument(<<Try>>), InitPattern,
      EachPattern(<<When("chn", Some, <<Use("event", "i")>>)>>), EachSample>>

\* Protracker 3: what comes of the PTDT chunk is seen only afterwards, by the
\* samples that are there; their lengths are added up at once.
ptdt_load ==
    <<Try, Count("ins", {2}), Copy("smp", "ins", 0), Count("chn", {4}), Count("pat", Some),
      Tracks(0)>> \o Instruments \o ReadPatterns \o <<EachSample>>
pt3_get_info ==
    <<IfSet("ptdt", <<Fail>>, <<Count("ins", Few), Count("pat", Few), Try>>)>>
pt3_get_ptdt ==
    Once("ptdt", Attempt(ptdt_load, <<>>)
        \o <<Maybe(<<Each("i", "smp", <<Trust("xxs", "i", "ptdt")>>)>>)>>)
pt3_load ==
    <<Try>> \o IffNew \o IffLoad(3, {pt3_get_info, <<>>, pt3_get_ptdt}, {})
    \o <<When("smp", {0}, <<Fail>>)>>

\* What pw_wizardry has converted to a file of its own is read as a module.
pw_load ==
    <<Malloc("temp_name"), OnError({"temp_name"}), Open("temp")>> \o pw_wizardry
    \o <<Free("temp"), OnError({"temp_name"}), Malloc("f"), OnError({"f", "temp_name"}), Try,
      Count("ins", {2}), Copy("smp", "ins", 0), Count("chn", {4}), Count("pat", Some),
      Tracks(0)>>
    \o Instruments \o ReadPatterns
    \o <<Each("i", "smp", <<Sample("i")>>), Free("f"), Free("temp_name")>>

stim_load ==
    <<Try, Count("chn", {4}), Count("pat", Few), Count("ins", Few), Copy("smp", "ins", 0),
      Tracks(0), InitPattern, EachPattern(<<Use("event", "i")>>), InitInstrument,
      Each("i", "ins", <<AllocSub("i", "1"), Maybe(<<Nsm("i", "1"), Sample("i")>>)>>)>>

\* Symphonie: the last track is an empty one.
sym_tracks ==
    <<Copy("trk", "trk", 1), InitPattern, Malloc("buf"), OnError({"buf"}), Try,
      Each("i", "pat", <<AllocPattern("i"),
                         Either(<<Index("i", "trk-1")>>, <<Try, Index("i", "0")>>)>>), Try,
      ReadTracks>>
sym_samples ==
    <<Each("i", "ins", <<Use("sub", "i"), Maybe(<<Try, Sample("i")>>)>>),
      Maybe(<<Keep("comment")>>), Free("buf")>>
sym_load ==
    <<Count("chn", Some), Count("pat", Few), Try, Count("trk", Few), Count("ins", {2}),
      Copy("smp", "ins", 0), InitInstrument, EachInstrument(<<Try>>)>>
    \o sym_tracks \o sym_samples

ims_load ==
    <<Count("chn", {4}), Count("ins", {2}), Copy("smp", "ins", 0), Try, Count("pat", Some),
      Tracks(0)>> \o Instruments
    \o <<InitPattern, EachPattern(<<Use("event", "i")>>), EachSample>>

\* A missing order list is an error that does not go by the label.
xmf_load ==
    <<Try, Malloc("buf_xmf"), OnError({"buf_xmf"}), Try, Count("ins", Few),
      Copy("smp", "ins", 0)>> \o Instruments
    \o <<OnError({}), Try, OnError({"buf_xmf"}), Count("chn", Some), Count("pat", Some), Tracks(0),
         Try, Maybe(<<Try>>), InitPattern, EachPattern(<<Try, Use("event", "i")>>),
         Free("buf_xmf"), OnError({}), Each("i", "ins", <<Sample("i")>>)>>

\* Megatracker: track 0, the empty one, comes last and unchecked.
mgt_tracks ==
    <<InitPattern, Try, EachFrom("i", "1", "trk", <<Try, AllocTrack("i"), Try>>),
      When("trk", Some, Attempt(<<AllocTrack("0")>>, <<>>) \o <<Trust("track", "0", "track 0")>>)>>
\* Tracks count from 1 in the file: a 0 is a track that is not there.
mgt_track == <<IfLess("0", "trk", <<Maybe(<<Index("i", "trk-1")>>)>>, <<Fail>>)>>
mgt_patterns ==
    <<Each("i", "pat", <<AllocPattern("i"), Try,
                         When("chn", Some, <<Try, Either(<<Index("i", "none")>>, mgt_track)>>)>>),
      EachSample>>
mgt_load ==
    <<Count("chn", Few), Count("pat", Few), Count("trk", Few), Count("ins", Few),
      Copy("smp", "ins", 0), Try, Try, InitInstrument, EachInstrument(<<Try>>)>>
    \o mgt_tracks \o mgt_patterns

\* Containers: what is inside is loaded by its own loader.
umx_load == <<Try, LoadAs({"it", "s3m", "xm", "mod"})>>
muse_load ==
    <<Try, Malloc("in"), OnError({"in"}), Try, Malloc("out"), Free("in"), OnError({"out"}),
      Try, Free("out"), OnError({}), LoadAs({"gal5", "gal4"})>>
=============================================================================
