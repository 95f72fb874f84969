------------------------------ MODULE MCLoaders ------------------------------
(***************************************************************************)
(* The loaders of all formats, for TLC.                                    *)
(***************************************************************************)
EXTENDS AmigaLoaders, MedLoaders, Depackers

AllLoaders ==
    [c669 |-> c669_load, far |-> far_load, fnk |-> fnk_load, gdm |-> gdm_load,
     imf |-> imf_load, mtm |-> mtm_load, ptm |-> ptm_load, rtm |-> rtm_load,
     s3m |-> s3m_load, stm |-> stm_load, stx |-> stx_load, ult |-> ult_load,
     xm |-> xm_load, it |-> it_load, amf |-> amf_load, liq |-> liq_load,
     mdl |-> mdl_load, dbm |-> dbm_load, okt |-> okt_load, gal4 |-> gal4_load,
     gal5 |-> gal5_load, dt |-> dt_load, masi |-> masi_load, masi16 |-> masi16_load,
     arch |-> arch_load, emod |-> emod_load,
     mod |-> mod_load, flt |-> flt_load, st |-> st_load, sfx |-> sfx_load,
     ice |-> ice_load, digi |-> digi_load, hmn |-> hmn_load, abk |-> abk_load,
     asylum |-> asylum_load, chip |-> chip_load, coco |-> coco_load, mfp |-> mfp_load,
     no |-> no_load, pt3 |-> pt3_load, pw |-> pw_load, stim |-> stim_load,
     sym |-> sym_load, ims |-> ims_load, xmf |-> xmf_load, mgt |-> mgt_load,
     umx |-> umx_load, muse |-> muse_load,
     med2 |-> med2_load, med3 |-> med3_load, med4 |-> med4_load,
     mmd1 |-> mmd1_load, mmd3 |-> mmd3_load,
     test_path |-> xmp_test_module, test_file |-> xmp_test_module_from_file,
     test_memory |-> xmp_test_module_from_memory,
     test_callbacks |-> xmp_test_module_from_callbacks,
     load_path |-> xmp_load_module, load_file |-> xmp_load_module_from_file,
     load_memory |-> xmp_load_module_from_memory,
     load_callbacks |-> xmp_load_module_from_callbacks]

\* What an error leaves: the handle of libxmp_iff_new, flt's second file, the
\* file under mfp's, xmf's buffer, a table of a MED instrument freed twice, the pipe
\* of an external depacker and the directory's name; a second annotation leaves the
\* first.
Leaks ==
    ({"dbm", "okt", "gal4", "gal5", "dt", "masi", "emod", "pt3", "mdl"} \X {"registering"})
    \cup ({"med4", "mmd1", "mmd3"} \X {"vol_table"})
    \cup ({"test_path", "load_path"} \X {"p"})
    \cup {<<"flt", "nt">>, <<"mfp", "file">>, <<"xmf", "buf_xmf">>, <<"med4", "annotation">>,
           <<"load_path", "dirname">>}

\* What is used though it could not be allocated, by pt3, mgt, liq, bzip2 and arc.
\* FC-M writes as many positions as the file says and Fuchs a part of a pattern;
\* Eureka and Heatseeker look a little beyond what they asked for, and The Player
\* takes the sample of the instrument after the last.  A temporary name is freed
\* twice when no file of it can be made, and what xz unpacks when it is nothing; a
\* file that cannot be closed is closed again.  The table of samples is cut, and the
\* cut fails half-way.
Flaws ==
    {"ptdt", "track 0", "liq_tracks", "bd", "huffman", "fcm", "fuchs", "eureka", "heatseek",
     "sample of another", "temp", "empty", "closed twice", "xtra"}
==============================================================================
