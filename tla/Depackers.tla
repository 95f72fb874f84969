----------------------------- MODULE Depackers ------------------------------
(***************************************************************************)
(* What comes before a loader: the handle of the file (src/src/hio.c), and *)
(* the depackers (src/src/depackers), which put the contents of a packed   *)
(* file in its place.                                                      *)
(*                                                                         *)
(* They are scripts of the same steps as the loaders: what they allocate,  *)
(* where they can fail, and what each error path frees.  The data they     *)
(* unpack is left out; `out` is the result, of size 0 if "empty" is set.   *)
(***************************************************************************)
EXTENDS LoadSteps

-----------------------------------------------------------------------------
(* Handles and temporary files                                             *)

hio_open ==
    <<Malloc("handle"), OnError({"handle"}), Malloc("file"),
      OnError({"handle", "file"}), Try, OnError({})>>

\* The caller's file stays the caller's.
hio_open_file ==
    <<Malloc("handle"), OnError({"handle"}), Try, OnError({}), Set("noclose")>>

hio_open_const_mem ==
    <<Malloc("handle"), OnError({"handle"}), Malloc("mfile"), OnError({}), Set("memory")>>

hio_open_callbacks ==
    <<Malloc("cbfile"), OnError({"cbfile"}), Malloc("handle"),
      OnError({"cbfile", "handle"}), Try, OnError({}), Set("callbacks")>>

\* A file that could not be closed is closed again with the handle.
hio_close_internal ==
    <<IfSet("memory", <<Free("out"), Free("mfile")>>,
        <<IfSet("callbacks", <<Free("cbfile")>>,
            <<IfSet("external", <<Free("t")>>, <<FreeBut("file", "closed twice")>>)>>)>>)>>

hio_close == hio_close_internal \o <<Free("handle")>>

\* The file goes as fclose fails, too.
CloseFirst(undo) ==
    <<IfSet("noclose", <<>>, <<Free("file"), Maybe(undo \o <<Fail>>)>>)>>

hio_reopen_mem ==
    <<IfSet("empty", <<Fail>>, <<>>), Malloc("mfile")>>
    \o CloseFirst(<<Free("mfile")>>) \o <<Set("memory")>>

hio_reopen_file == <<Try>> \o CloseFirst(<<>>) \o <<Set("external")>>

\* The name is freed as no file of it can be made, and unlinked all the same.
make_temp_file ==
    <<Malloc("temp"), OneOf({<<Free("temp"), Fail>>, <<Malloc("t")>>})>>

unlink_temp_file == <<FreeBut("temp", "temp")>>

-----------------------------------------------------------------------------
(* depacker.c                                                              *)

\* The pipe's ends fd0 and fd1; p is the stream over fd0.
execute_command ==
    <<Malloc("fd0"), Open("fd1"), OnError({"fd0", "fd1"}), Try,
      Free("fd1"), OnError({"fd0"}), Malloc("p"), Try, OnError({}), Free("fd0"), Free("p")>>

decrunch_command ==
    make_temp_file
    \o Attempt(execute_command \o <<Try>> \o hio_reopen_file, <<Free("t"), Fail>>)

decrunch_internal(depack) ==
    depack \o Attempt(hio_reopen_mem, <<FreeBut("out", "empty"), Fail>>)

-----------------------------------------------------------------------------
(* The depackers                                                           *)

tinfl_decompress_mem_to_heap == <<Malloc("out")>>

decrunch_gzip ==
    <<Try, Malloc("pCmp_data"), OnError({"pCmp_data"}), Try>>
    \o tinfl_decompress_mem_to_heap
    \o <<Free("pCmp_data"), OnError({"out"}), Try, Try, OnError({})>>

\* The output grows by doubling.
flush_bunzip_outbuf == <<Try, IfSet("flushed", <<>>, <<Set("flushed"), Open("out")>>)>>

start_bunzip == <<Malloc("bd"), Try, Malloc("dbuf")>>

\* The error path looks into bd although it may be what failed.
decrunch_bzip2 ==
    LET Clean == <<Deref("bd", "bd"), Free("dbuf"), Free("bd")>>
    IN  Attempt(start_bunzip \o <<Chunks(2, {flush_bunzip_outbuf}), Try>>,
                Clean \o <<Free("out"), Fail>>)
        \o Clean \o <<IfSet("flushed", <<>>, <<Set("empty")>>)>>

xz_dec_init == <<Malloc("xz"), OnError({"xz"}), Malloc("lzma2"), OnError({})>>

\* A block wants a larger dictionary than the last.
xz_dec_lzma2_reset == <<Maybe(<<Free("dict"), Null("dict"), Malloc("dict")>>), Try>>

xz_dec_end == <<Free("dict"), Free("lzma2"), Free("xz")>>

\* At last the buffer is cut to what is in it; if that is nothing, realloc may
\* have freed it.
decrunch_xz ==
    xz_dec_init
    \o Attempt(<<Malloc("out"), Malloc("inbuf"),
                 Chunks(2, {<<Try>> \o xz_dec_lzma2_reset})>>,
               xz_dec_end \o <<Free("out"), Free("inbuf"), Fail>>)
    \o xz_dec_end
    \o <<OneOf({<<>>, <<Set("empty")>>, <<Set("empty"), Free("out")>>}), Free("inbuf")>>

\* The first file whose name is not excluded.
decrunch_zip ==
    <<Malloc("archive"), OnError({"archive"}), Malloc("out"),
      Free("archive"), OnError({}), Maybe(<<Set("empty")>>)>>

decrunch_lha ==
    <<Malloc("stream"), OnError({"stream"}), Malloc("reader"),
      OnError({"stream", "reader"}), Try, Malloc("out"),
      OnError({"stream", "reader", "out"}), Try,
      OnError({}), Free("reader"), Free("stream")>>

decrunch_compress ==
    <<Try, Malloc("out"), OnError({"out"}), Chunks(2, {<<Try>>}), OnError({})>>

ppdepack == <<Try, Malloc("out"), OnError({"packed", "out"}), Try>>

decrunch_pp ==
    <<Try, Malloc("packed"), OnError({"packed"}), Try>>
    \o ppdepack
    \o <<OnError({}), Free("packed")>>

\* The packed chunks, one after the other.
unsqsh == <<Chunks(2, {<<Try>>}), Try>>

decrunch_sqsh ==
    <<Try, Malloc("src"), OnError({"src"}), Malloc("out"), OnError({"src", "out"}), Try>>
    \o unsqsh
    \o <<OnError({}), Free("src"), Maybe(<<Set("empty")>>)>>

decrunch_s404 ==
    <<Try, Malloc("buf"), OnError({"buf"}), Try, Malloc("out"),
      OnError({"buf", "out"}), Try, OnError({}), Free("buf")>>

ice_decrunch == <<Try, Malloc("out"), OnError({"out"}), Try, OnError({})>>

-----------------------------------------------------------------------------
(* Arc, ArcFS, LZX, MMCMP                                                  *)

arc_unpack_init(max_width) ==
    IF max_width = 0 THEN <<>> ELSE <<Try, Malloc("tree")>>

arc_unpack_window == <<Malloc("window")>>

\* Nobody looks whether the tables are there.
arc_huffman_init ==
    <<Try, Maybe(<<Open("huffman_lookup")>>), Maybe(<<Open("huffman_tree")>>),
      Deref("huffman_tree", "huffman"), Try, Deref("huffman_lookup", "huffman")>>

arc_unpack_free ==
    <<Free("window"), Free("tree"), Free("huffman_lookup"), Free("huffman_tree")>>

\* err: the tables go, and the caller sees an error.
ArcData(steps) == Attempt(steps, arc_unpack_free \o <<Fail>>) \o arc_unpack_free

arc_unpack_rle90 == arc_unpack_init(0) \o ArcData(<<Try, Try>>)
arc_unpack_lzw == arc_unpack_init(1) \o ArcData(<<Try, Try>>)
arc_unpack_lzw_rle90 ==
    arc_unpack_init(1) \o ArcData(arc_unpack_window \o <<Chunks(2, {<<Try, Try>>}), Try>>)
arc_unpack_huffman_rle90 ==
    arc_unpack_init(0)
    \o ArcData(arc_unpack_window \o arc_huffman_init \o <<Chunks(2, {<<Try, Try>>}), Try>>)

arc_unpack ==
    <<OneOf({<<Fail>>, arc_unpack_rle90, arc_unpack_lzw, arc_unpack_lzw_rle90,
             arc_unpack_huffman_rle90})>>

\* A member of an archive: packed, or as it is.
Extract(unpack) ==
    <<Malloc("in"), OnError({"in"}), Try,
      Either(<<Malloc("out"), OnError({})>>
             \o Attempt(unpack, <<Free("in"), Free("out"), Fail>>) \o <<Free("in")>>,
             <<OnError({}), Free("in"), Open("out")>>),
      OnError({"out"}), Try, OnError({})>>

\* Entries and directories up to the first file that is wanted.
arc_read_entry == <<Try, Try>>
arc_read ==
    <<Chunks(2, {arc_read_entry, arc_read_entry \o <<Try>>})>>
    \o arc_read_entry \o Extract(arc_unpack) \o <<Maybe(<<Set("empty")>>)>>

arcfs_read_header == <<Try, Try>>
arcfs_read_entry == <<Try>>
arcfs_read ==
    arcfs_read_header
    \o <<Try, Chunks(2, {arcfs_read_entry}), Try>> \o Extract(arc_unpack)
    \o <<Maybe(<<Set("empty")>>)>>

lzx_unpack_init == <<Malloc("lzx"), OnError({"lzx"}), Malloc("lookup"), OnError({})>>
lzx_unpack_free == <<Free("lookup"), Free("lzx")>>
lzx_unpack ==
    lzx_unpack_init
    \o Attempt(<<Chunks(2, {<<Try>>})>>, lzx_unpack_free \o <<Fail>>)
    \o lzx_unpack_free

\* Of a merge, several files packed as one, the selected one is kept.
lzx_read_entry == <<Try, Maybe(<<Try>>), Maybe(<<Try>>)>>
lzx_read ==
    <<Try, Chunks(2, {lzx_read_entry \o <<Try>>})>> \o lzx_read_entry \o Extract(lzx_unpack)

block_unpack == <<Try, Try, Chunks(1, {<<Try>>})>>
block_copy == <<Chunks(2, {<<Try>>})>>

decrunch_mmcmp ==
    LET Block == <<Try, Malloc("sub_block"), OnError({"table", "out", "sub_block"}), Try,
                   Either(block_copy , block_unpack),
                   Free("sub_block"), OnError({"table", "out"})>>
    IN  <<Try, Malloc("table"), OnError({"table"}), Malloc("out"), OnError({"table", "out"}),
          Try, Chunks(2, {Block}), OnError({}), Free("table")>>

-----------------------------------------------------------------------------
(* libxmp_decrunch and its callers                                         *)

depacker_list ==
    {decrunch_zip, decrunch_lha, decrunch_gzip, decrunch_bzip2, decrunch_xz,
     decrunch_compress, decrunch_pp, decrunch_sqsh, arc_read, arcfs_read,
     decrunch_mmcmp, ice_decrunch, lzx_read, decrunch_s404}

\* Not packed, packed, or packed for an external depacker, which needs a path.
libxmp_decrunch ==
    <<Try, OneOf({<<>>, <<IfSet("path", decrunch_command, <<>>)>>}
                 \cup {decrunch_internal(d) : d \in depacker_list})>>

CloseAll == hio_close \o unlink_temp_file
Decrunched == Attempt(libxmp_decrunch, CloseAll \o <<Fail>>)

\* The tests of the loaders leave nothing behind; there is no module in the end.
test_module == CloseAll \o <<Fail>>

xmp_test_module == <<Try>> \o hio_open \o <<Set("path")>> \o Decrunched \o test_module
xmp_test_module_from_file == hio_open_file \o Decrunched \o test_module
xmp_test_module_from_memory == <<Try>> \o hio_open_const_mem \o test_module
xmp_test_module_from_callbacks == hio_open_callbacks \o test_module

\* When the second name cannot be had, the first stays in a context that is not
\* loaded, where nothing will free it.
xmp_load_module ==
    <<Try>> \o hio_open \o <<Set("path")>> \o Decrunched
    \o Attempt(<<Malloc("dirname"), Malloc("basename")>>, CloseAll \o <<Fail>>)
    \o <<HandOn>>

\* The others do not unpack.
xmp_load_module_from_memory == <<Try>> \o hio_open_const_mem \o <<HandOn>>
xmp_load_module_from_file == hio_open_file \o <<HandOn>>
xmp_load_module_from_callbacks == hio_open_callbacks \o <<HandOn>>
=============================================================================
