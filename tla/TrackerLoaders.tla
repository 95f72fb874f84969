--------------------------- MODULE TrackerLoaders ---------------------------
(***************************************************************************)
(* Loaders of modules of the PC trackers, in src/src/loaders.  A count     *)
(* that the format fixes has its value where it is small, 2 otherwise.     *)
(***************************************************************************)
EXTENDS LoadSteps

\* One subinstrument each, and a sample for the instruments that have one.
EachInstrument(read) ==
    Each("i", "ins", <<AllocSub("i", "1")>> \o read \o <<Maybe(<<Nsm("i", "1")>>)>>)
EachPattern(read) == Each("i", "pat", <<PatternTracks("i")>> \o read)
EachSample == Each("i", "smp", <<Maybe(<<Sample("i")>>)>>)
ReadEvents == <<Use("event", "i"), Try>>

c669_patterns ==
    <<InitPattern, EachPattern(ReadEvents), EachSample>>
c669_load ==
    <<Count("ins", Few), Count("pat", Few), Try, Count("chn", {8}), Tracks(0),
      Copy("smp", "ins", 0), Keep("comment"), InitInstrument,
      EachInstrument(<<Try>>)>> \o c669_patterns

\* Only the patterns that are stored or played have tracks.
far_patterns ==
    <<InitPattern, Malloc("patbuf"), OnError({"patbuf"}),
      Each("i", "pat",
           <<AllocPattern("i"),
             Maybe(<<Try, TracksIn("i"), Try, Use("event", "i")>>)>>),
      Free("patbuf"), OnError({}),
      Each("i", "pat", <<Maybe(<<WhenBare("i", <<TracksIn("i")>>)>>)>>)>>
far_instruments ==
    <<Try, Count("ins", Few), Copy("smp", "ins", 0), InitInstrument,
      Each("i", "ins",
           <<Maybe(<<AllocSub("i", "1"), Try, Maybe(<<Nsm("i", "1")>>), Sample("i")>>)>>)>>
far_load ==
    <<Try, Maybe(<<Keep("comment")>>), Try, Count("chn", {16}), Count("pat", Few), Tracks(0), Try, Keep("extras")>> \o far_patterns \o far_instruments

fnk_patterns ==
    <<InitPattern, EachPattern(ReadEvents), EachSample>>
fnk_load ==
    <<Try, Count("ins", {2}), Copy("smp", "ins", 0), Count("pat", Some), Try,
      Count("chn", Some), Tracks(0), InitInstrument,
      EachInstrument(<<>>)>> \o fnk_patterns

\* The patterns are read twice, the first time to count the channels.
gdm_patterns ==
    <<Count("chn", {0}), Try, Count("chn", Few), Tracks(0), InitPattern,
      EachPattern(<<Try, When("chn", {1, 2}, <<Use("event", "i")>>)>>),
      Each("i", "ins", <<Sample("i")>>)>>
gdm_load ==
    <<Try, Count("pat", Some), Count("ins", Some),
      Copy("smp", "ins", 0), Try, InitInstrument, EachInstrument(<<Try>>)>> \o gdm_patterns

\* The samples of all instruments in a row, k of them so far; the table, of
\* MAX_SAMPLES at first, grows by half and is cut in the end.
GrowSamples == WhenFull("k", "smp", <<Copy("t", "smp", 1), Realloc("t")>>)
CutSamples == <<Copy("t", "k", 0), Realloc("t")>>

imf_samples ==
    Each("j", "n", <<GrowSamples, Use("xxs", "k"), Use("sub", "i"), Try,
                     Maybe(<<Sample("k")>>), Copy("k", "k", 1)>>)
imf_instruments ==
    <<InitInstrument,
      Each("i", "ins",
           <<Count("n", Few), Try, Nsm("i", "n"), AllocSub("i", "n"), Try, imf_samples>>)>>
    \o <<WhenFull("smp", "k", CutSamples)>>
imf_load ==
    <<Try, Count("ins", Few), Count("smp", {2}), Count("pat", Few),
      Count("chn", Few), Tracks(0), InitPattern,
      EachPattern(<<When("chn", {1, 2}, <<Use("event", "i")>>), Try>>)>> \o imf_instruments

mtm_patterns ==
    <<InitPattern, Each("i", "trk", <<AllocTrack("i"), Use("track", "i"), Try>>),
      Each("i", "pat", <<AllocPattern("i"),
                         Maybe(<<Index("i", "0")>>), Maybe(<<Index("i", "trk-1")>>)>>),
      Maybe(<<Each("i", "pat", <<Use("event", "i")>>)>>),
      Maybe(<<Keep("comment")>>), Each("i", "ins", <<Sample("i")>>)>>
mtm_load ==
    <<Try, Count("trk", Some), Count("pat", Some), Count("ins", Few),
      Copy("smp", "ins", 0), Count("chn", Few), InitInstrument,
      EachInstrument(<<Try>>)>> \o mtm_patterns

\* A pattern without a segment is left out, and the module refused.
ptm_patterns ==
    <<InitPattern,
      Each("i", "pat", <<Maybe(<<PatternTracks("i"), Try,
                                 When("chn", {1, 2}, <<Use("event", "i")>>)>>)>>),
      EachSample>>
ptm_load ==
    <<Try, Count("ins", Few), Count("pat", Few), Count("chn", Few),
      Tracks(0), Copy("smp", "ins", 0), InitInstrument,
      EachInstrument(<<Try>>)>> \o ptm_patterns

rtm_patterns ==
    <<InitPattern,
      Each("i", "pat", <<Try, PatternTracks("i"),
                         When("chn", {1, 2}, <<Use("event", "i")>>), Try>>)>>
rtm_samples ==
    Each("j", "n", <<Try, GrowSamples, Use("xxs", "k"), Use("sub", "i"),
                     Sample("k"), Copy("k", "k", 1)>>)
rtm_instruments ==
    <<Count("smp", {2}), InitInstrument,
      Each("i", "ins",
           <<Try, Count("n", Few), Nsm("i", "n"), AllocSub("i", "n"), rtm_samples>>)>>
    \o CutSamples
rtm_load ==
    <<Try, Count("pat", Few), Count("chn", Few), Tracks(0),
      Count("ins", Few)>> \o rtm_patterns \o rtm_instruments

\* pp_pat is freed with pp_ins only once it is there: err, err3, err2.
s3m_patterns ==
    <<InitPattern,
      EachPattern(<<Maybe(<<Try, When("chn", {1, 2}, <<Use("event", "i")>>)>>)>>)>>
\* An instrument is Adlib or PCM, and a PCM instrument without a sample has none.
s3m_instruments ==
    <<InitInstrument,
      Each("i", "ins",
           <<AllocSub("i", "1"), Try,
             Either(<<Maybe(<<Try, Nsm("i", "1"), Sample("i")>>)>>,
                    <<Try, Maybe(<<Nsm("i", "1")>>), Try, Sample("i")>>)>>),
      Free("pp_pat"), Free("pp_ins")>>
s3m_load ==
    <<Try, Count("ins", Few), Malloc("pp_ins"), OnError({"pp_ins"}), Malloc("pp_pat"),
      OnError({"pp_pat", "pp_ins"}), Count("chn", Few), Try,
      Count("pat", Some), Try, Tracks(0), Copy("smp", "ins", 0)>>
    \o s3m_patterns \o s3m_instruments

\* The blank pattern that stands for those not stored is the last one, and the
\* first to be allocated; a song takes its samples from files of their own.
stm_patterns ==
    <<InitPattern, Each("i", "pat", <<PatternTracks("i"), Try, Use("event", "i")>>)>>
stm_patterns_blank ==
    <<Copy("n", "pat", 0), Copy("pat", "pat", 1), Tracks(0), InitPattern,
      PatternTracks("n"),
      Each("i", "n", <<PatternTracks("i"), Try, Use("event", "i")>>)>>
stm_samples ==
    <<Each("i", "ins",
           <<Either(<<Nsm("i", "0")>>,
                    <<Either(<<Sample("i")>>,
                             <<Maybe(<<Open("s"), OnError({"s"}), Sample("i"),
                                       Free("s"), OnError({})>>)>>)>>)>>)>>
stm_load ==
    <<Try, Count("chn", {4}), Count("pat", Few), Count("ins", Few), Try, Copy("smp", "ins", 0), InitInstrument, EachInstrument(<<>>), Try,
      Either(<<Tracks(0)>> \o stm_patterns, stm_patterns_blank)>> \o stm_samples

stx_patterns ==
    <<InitPattern,
      EachPattern(<<Maybe(<<Try, Use("event", "i")>>)>>),
      Free("pp_ins"), Free("pp_pat"), OnError({}), Each("i", "ins", <<Sample("i")>>)>>
stx_load ==
    <<Try, Count("ins", Few), Count("pat", Few), Tracks(0), Copy("smp", "ins", 0), Malloc("pp_pat"), OnError({"pp_pat"}), Malloc("pp_ins"),
      OnError({"pp_ins", "pp_pat"}), InitInstrument,
      Each("i", "ins", <<AllocSub("i", "1"), Try, Nsm("i", "1")>>)>> \o stx_patterns

ult_patterns ==
    <<Try, Count("chn", Some), Count("pat", Some), Tracks(0), Try,
      InitPattern, EachPattern(<<>>),
      Each("i", "chn", <<Each("j", "pat", <<Try, Use("event", "j")>>)>>),
      EachSample>>
ult_load ==
    <<Maybe(<<Keep("comment"), Try>>), Count("ins", Few), Copy("smp", "ins", 0),
      InitInstrument, EachInstrument(<<Try>>)>> \o ult_patterns

\* XM: the pattern after the last is an empty one that all orders beyond the
\* others share, with one track for all its channels.
xm_load_pattern ==
    <<Try, PatternTracks("i"), Maybe(<<Try, When("chn", {1, 2}, <<Use("event", "i")>>)>>)>>
xm_load_patterns ==
    <<Copy("pat", "pat", 1), InitPattern, Malloc("patbuf"), OnError({"patbuf"}),
      Copy("n", "pat", -1), Each("i", "n", xm_load_pattern),
      AllocPattern("pat-1"), AllocTrack("last"), Index("pat-1", "last"),
      Free("patbuf"), OnError({})>>
\* An Ogg sample: the compressed data, then the decoded data.
xm_oggdec ==
    <<Malloc("data"), OnError({"data"}), Try, Free("data"), OnError({}),
      Open("pcm16"), OnError({"pcm16"}), Try, Sample("k"), Free("pcm16"), OnError({})>>
\* Samples come with their instrument, or, in old files, at the end.
xm_samples(data) ==
    Each("j", "n", <<GrowSamples, Use("xxs", "k"), Use("sub", "i"), Try>> \o data
                   \o <<Copy("k", "k", 1)>>)
xm_instrument(data) ==
    <<Count("n", Few), Try, Nsm("i", "n"), AllocSub("i", "n"), Try, xm_samples(data)>>
xm_load_instruments(data) ==
    <<Count("smp", {2}), InitInstrument,
      Maybe(<<Each("i", "ins", xm_instrument(data))>>)>> \o CutSamples
\* Texts follow; the comment is the first.
xm_texts ==
    <<Maybe(<<Try, Keep("comment")>>)>>
xm_load ==
    <<Try, Count("chn", Few), Count("pat", Few), Count("ins", Few),
      Tracks(1), Try,
      Either(xm_load_instruments(<<>>) \o xm_load_patterns
                 \o <<Each("i", "smp", <<Sample("i")>>)>>,
             xm_load_patterns
                 \o xm_load_instruments(<<Maybe(<<Either(xm_oggdec, <<Sample("k")>>)>>)>>))>>
    \o xm_texts

\* IT: an instrument has as many subinstruments as samples it maps to.
\* Old and new instruments differ in what they store.
it_old_instrument == <<Try, Count("n", Few), Nsm("i", "n"), AllocSub("i", "n")>>
it_new_instrument == <<Try, Try, Count("n", Few), Nsm("i", "n"), AllocSub("i", "n")>>
\* Variant: err4 does not free patbuf.
it_buffers_but_patbuf == {"pp_pat", "pp_smp", "pp_ins"}

it_buffers == {"patbuf", "pp_pat", "pp_smp", "pp_ins"}
\* A sample; in sample mode it is an instrument too.  Compressed data are
\* decoded into a buffer.
it_sample ==
    <<IfSet("sample_mode", <<AllocSub("i", "1")>>, <<>>), Try,
      Maybe(<<Use("xxs", "i"),
              IfSet("sample_mode", <<Maybe(<<Nsm("i", "1")>>)>>, <<>>),
              Each("j", "ins", <<Use("subs", "j")>>),
              Maybe(<<Try, Either(<<Malloc("decbuf"), OnError({"decbuf"} \cup it_buffers),
                                    Sample("i"), Free("decbuf"), OnError(it_buffers)>>,
                                  <<Sample("i")>>)>>)>>)>>
\* The channels are those the patterns use; a pattern that is not stored is empty.
it_pattern == <<TracksIn("i"), Try, Maybe(<<Use("event", "i")>>)>>
it_patterns ==
    <<Try, Count("chn", Some), Tracks(0), InitPattern,
      Each("i", "pat",
           <<AllocPattern("i"),
             Either(<<Each("j", "chn", <<AllocTrack("ij")>>), Index("i", "own")>>,
                    <<Try>> \o it_pattern)>>),
      Free("patbuf"), Free("pp_pat"), Free("pp_smp"), Free("pp_ins"), OnError({}),
      Maybe(<<Keep("comment")>>)>>
it_tables ==
    <<Try, Maybe(<<Keep("midi"), Try>>),
      Maybe(<<Set("sample_mode"), Copy("ins", "smp", 0)>>), InitInstrument,
      IfSet("sample_mode", <<>>,
            <<Each("i", "ins", <<Either(it_old_instrument, it_new_instrument)>>)>>),
      Malloc("patbuf"), Each("i", "smp", it_sample)>>
it_load ==
    <<Try, Count("ins", Few), Count("smp", Few), Count("pat", Few), Try,
      When("ins", Some, <<Malloc("pp_ins")>>), OnError({"pp_ins"}),
      Malloc("pp_smp"), OnError({"pp_smp", "pp_ins"}), Malloc("pp_pat"),
      OnError(it_buffers)>> \o it_tables \o it_patterns

\* The orders of a pattern name its tracks, in the end by way of a table.
amf_instruments ==
    <<InitInstrument, Try, Each("i", "ins", <<AllocSub("i", "1"), Nsm("i", "1"), Try>>)>>
amf_track_map ==
    <<Malloc("trkmap"), Count("trk", Some), Free("trkmap"), Try,
      Each("i", "pat", <<Maybe(<<Index("i", "0")>>), Maybe(<<Index("i", "trk-1")>>)>>)>>
amf_tracks ==
    <<Table("xxt"), Each("i", "trk", <<AllocTrack("i"), Maybe(<<Try, Use("track", "i")>>)>>),
      Each("i", "ins", <<Sample("i")>>)>>
amf_load ==
    <<Try, Count("ins", Some), Count("pat", Some), Count("trk", Some), Count("chn", Some),
      Try, Copy("smp", "ins", 0), Table("xxp"), Each("i", "pat", <<AllocPattern("i"), Try>>)>>
    \o amf_instruments \o amf_track_map \o amf_tracks

\* Whether libxmp_alloc_tracks_in_pattern succeeded is not looked at.
liq_patterns ==
    <<InitPattern,
      Each("i", "pat",
           <<AllocPattern("i"), Try>> \o Attempt(<<TracksIn("i")>>, <<>>)
           \o <<When("chn", {0}, <<Fail>>), Trust("event", "i", "liq_tracks"), Try>>)>>
liq_instruments ==
    <<InitInstrument,
      Each("i", "ins",
           <<AllocSub("i", "1"), Maybe(<<Try, Maybe(<<Nsm("i", "1"), Sample("i")>>)>>)>>)>>
liq_load ==
    <<Try, Count("chn", Few), Count("pat", Few), Count("ins", Few), Copy("smp", "ins", 0),
      Tracks(0), Try>> \o liq_patterns \o liq_instruments
=============================================================================
