------------------------------ MODULE LoadSteps ------------------------------
(***************************************************************************)
(* A loader at work: load_module in src/src/load.c, and what the loaders   *)
(* in src/src/loaders have in common (common.c, iff.c, load_helpers.c).    *)
(*                                                                         *)
(* Every loader fills struct xmp_module by the same few steps: it reads    *)
(* counts, allocates tables of as many entries, then the entries, then     *)
(* fills them, with buffers of its own in between; each step may fail.  A  *)
(* loader is a script, a sequence of such steps.  What the file holds is   *)
(* any value of a small set; what is stored in a table, and the orders,    *)
(* are left out.                                                           *)
(***************************************************************************)
EXTENDS Integers, Sequences, FiniteSets, TLC

CONSTANTS
    Loaders,        \* [name of a format -> its script]
    KnownFlaws,     \* the steps known to be wrong, by name: what is used unchecked
                    \* or freed twice
    KnownLeaks,     \* <<format, buffer>>: what that loader is known to forget
    DefaultChn      \* the channels of libxmp_load_prologue (4)

ASSUME DefaultAssumption == DefaultChn \in Nat

VARIABLES
    format,         \* the loader that runs
    phase,          \* "loading", "refused", "returned", "accepted", "released",
                    \* "unpacked"
    todo,           \* the steps it has still to take
    mod,            \* struct xmp_module
    local           \* what the loader keeps for itself

loadVars == <<format, phase, todo, mod, local>>

NULL == -1

\* libxmp_load_prologue: the counts are 0 and no table is there.
\* xxt, xxp, xxi, xxs and xtra (m->xtra) are the lengths of the tables.
\* `patterns`, `tracks` and `data` are the entries that are allocated; an allocated
\* pattern has room for `width` tracks, those in `index`; subs and nsm are the
\* subinstruments allocated and promised; `kept` are the other blocks the module
\* owns; `lost` is what no pointer leads to any more.
EmptyModule ==
    [cnt |-> [pat |-> 0, trk |-> 0, ins |-> 0, smp |-> 0, chn |-> DefaultChn],
     xxt |-> NULL, xxp |-> NULL, xxi |-> NULL, xxs |-> NULL, xtra |-> NULL,
     patterns |-> {}, tracks |-> {}, data |-> {}, index |-> <<>>,
     width |-> <<>>, subs |-> <<>>, nsm |-> <<>>, kept |-> {}, lost |-> {}]

\* The loader's counters n, k and t, its loop variables, the flags it keeps, its
\* buffers, and those the current error label frees; how much of the file a test
\* has been given, and where it writes the module it converts.
EmptyLocal ==
    [n |-> 0, k |-> 0, t |-> 0, i |-> 0, j |-> 0, flags |-> {},
     live |-> {}, freed |-> {}, onerr |-> {}, have |-> 0, out |-> 0]

-----------------------------------------------------------------------------
(* The steps a script is made of                                           *)

\* A read, a test of what was read, or an allocation that may fail.
Try == [op |-> "try"]
\* An error that is certain.
Fail == [op |-> "fail"]
\* The loader returns 0.
Return == [op |-> "return"]
\* A count is read: one of mod's, or n or k.
Count(c, S)   == [op |-> "count", of |-> c, from |-> S]
\* c = (a count) + plus
Copy(c, d, plus) == [op |-> "copy", of |-> c, from |-> d, plus |-> plus]
Add(c, d)     == [op |-> "add", of |-> c, num |-> d]
\* mod->trk = mod->pat * mod->chn + plus
Tracks(plus)  == [op |-> "tracks", plus |-> plus]
InitPattern   == [op |-> "initPattern"]
InitInstrument == [op |-> "initInstrument"]
\* calloc of one of the tables
Table(t)      == [op |-> "table", of |-> t]
Realloc(c)    == [op |-> "realloc", to |-> c]
AllocPattern(x)  == [op |-> "pattern", at |-> x]
AllocTrack(x)    == [op |-> "track", at |-> x]
TracksIn(x)      == [op |-> "tracksIn", at |-> x]
PatternTracks(x) == [op |-> "patternTracks", at |-> x]
\* xxp[x]->index[..] = t for all channels, or the tracks of the pattern.
Index(x, t)   == [op |-> "index", at |-> x, track |-> t]
\* Every pattern is checked to refer to tracks below mod->trk.
CheckTracks   == [op |-> "checkTracks"]
\* libxmp_alloc_subinstrument, and the promise nsm = n.
AllocSub(x, n)   == [op |-> "sub", at |-> x, num |-> n]
Nsm(x, n)     == [op |-> "nsm", at |-> x, num |-> n]
\* libxmp_load_sample
Sample(x)     == [op |-> "sample", at |-> x]
\* Entry x of a table is read or written.
Use(t, x)     == [op |-> "use", table |-> t, at |-> x]
\* The same where the code has not looked whether the allocation succeeded.
Trust(t, x, flaw) == [op |-> "use", table |-> t, at |-> x, flaw |-> flaw]
\* A buffer of the loader (open: it is there for sure), and a block the module
\* owns.
Malloc(b)     == [op |-> "malloc", buf |-> b]
Open(b)       == [op |-> "open", buf |-> b]
FreeBut(b, flaw) == [op |-> "free", buf |-> b, flaw |-> flaw]
Free(b)       == FreeBut(b, "")
\* The pointer to what was freed is reset.
Null(b)       == [op |-> "null", buf |-> b]
\* The buffer is used; it may not be there where nobody has looked.
Deref(b, flaw) == [op |-> "deref", buf |-> b, flaw |-> flaw]
KeepAt(b, x)  == [op |-> "keep", buf |-> b, at |-> x]
Keep(b)       == KeepAt(b, "0")
\* From here on an error frees these buffers.
OnError(B)    == [op |-> "onerror", bufs |-> B]
\* for (x = 0; x < c; x++)
Each(x, c, body) == [op |-> "each", var |-> x, to |-> c, at |-> 0, body |-> body]
\* for (x = c; x < d; x++)
EachFrom(x, c, d, body) == Each(x, d, <<[op |-> "less", of |-> x, than |-> c, then |-> <<>>, else |-> body]>>)
\* The caller goes on after an error in A, with B.
Attempt(A, B) == <<[op |-> "attempt", body |-> A \o <<[op |-> "landing", else |-> B]>>]>>
\* A branch that depends on the file's data.
OneOf(S)      == [op |-> "either", bodies |-> S]
Either(A, B)  == OneOf({A, B})
Maybe(A)      == Either(A, <<>>)
\* The file is of another format: the loader of one of these takes over.
LoadAs(F)     == [op |-> "loadAs", formats |-> F]
\* The file is open and unpacked: load_module tries the loaders on it.
HandOn        == [op |-> "handOn"]
\* A branch that depends on a count or a flag.
When(c, S, A) == [op |-> "when", of |-> c, in |-> S, body |-> A]
WhenGone(x, A) == [op |-> "gone", at |-> x, body |-> A]
WhenBare(x, A) == [op |-> "bare", at |-> x, body |-> A]
IfLess(c, d, A, B) == [op |-> "less", of |-> c, than |-> d, then |-> A, else |-> B]
WhenFull(c, d, A)  == IfLess(c, d, <<>>, A)
Set(f)        == [op |-> "set", flag |-> f]
IfSet(f, A, B) == [op |-> "ifset", flag |-> f, then |-> A, else |-> B]
\* A part of the file that may come once, and one that needs another.
Once(f, A)    == <<IfSet(f, <<Fail>>, <<Set(f)>> \o A)>>
Need(f, A)    == <<IfSet(f, A, <<Fail>>)>>
\* The chunks of a file, in any order, each any number of times (up to n in
\* all); libxmp_iff_load stops at the end of the file.
Chunks(n, H)  == [op |-> "chunks", left |-> n, handlers |-> H]

\* PW_REQUEST_DATA: the test gets so much of the file, n * (per.n) + .. + plus, or
\* gives up; it looks at the byte of such an index.
RequestSum(per, plus)    == [op |-> "request", per |-> per, plus |-> plus]
LookSumBut(per, plus, flaw) == [op |-> "look", per |-> per, plus |-> plus, flaw |-> flaw]
LookSum(per, plus)       == LookSumBut(per, plus, "")
Per(c, unit)             == [x \in {"n", "k", "t"} |-> IF x = c THEN unit ELSE 0]
RequestEach(c, unit, plus) == RequestSum(Per(c, unit), plus)
LookEach(c, unit, plus)    == LookSum(Per(c, unit), plus)
Request(size)            == RequestEach("", 0, size)
Look(at)                 == LookEach("", 0, at)
\* The first c (+ plus) entries of an array of fixed size are used.
WithinBut(c, plus, size, flaw) ==
    [op |-> "within", of |-> c, plus |-> plus, size |-> size, flaw |-> flaw]
Within(c, plus, size)    == WithinBut(c, plus, size, "")
\* A converter writes c * unit bytes, fills up to a place of its output, and puts
\* the magic, or the patterns and the samples, where a reader looks for them.
WriteEach(c, unit) == [op |-> "write", of |-> c, unit |-> unit]
Write(size)        == WriteEach("1", size)
PadTo(to)          == [op |-> "padTo", to |-> to]
MagicBut(flaw)     == [op |-> "magic", flaw |-> flaw]
Magic              == MagicBut("")
SamplesBut(flaw)   == [op |-> "samples", flaw |-> flaw]
Samples            == SamplesBut("")

\* What hio_close, unlink_temp_file and xmp_release_module free.
Closed == {"handle", "file", "mfile", "cbfile", "out", "t", "temp", "dirname", "basename"}

\* How many of a thing a file has: a bound of the model.
Bit  == 0 .. 1
Few  == 0 .. 2
Some == 1 .. 2

-----------------------------------------------------------------------------
(* What a step does                                                        *)

Modules == {"pat", "trk", "ins", "smp", "chn"}
CountOf(c) ==
    CASE c = "0" -> 0
      [] c = "1" -> 1
      [] c = "2" -> 2
      [] c \in Modules -> mod.cnt[c]
      [] OTHER -> local[c]
SizeOf(s) == local.n * s.per.n + local.k * s.per.k + local.t * s.per.t + s.plus

\* Indices: a loop variable, a counter, and what loaders compute from them.
At(x) == CASE x = "0"   -> 0
           [] x = "1"   -> 1
           [] x = "none" -> -1
           [] x = "ij"  -> local.i * mod.cnt.chn + local.j
           [] x = "last" -> (mod.cnt.pat - 1) * mod.cnt.chn
           [] x = "pat-1" -> mod.cnt.pat - 1
           [] x = "trk-1" -> mod.cnt.trk - 1
           [] x \in {"i", "j", "k", "n", "t"} -> local[x]

InTable(size, x) == x \in 0 .. size - 1

\* The tracks of a pattern: as long as none is set, all are track 0.
Refs(x) == IF mod.index[x] = {} THEN {0} ELSE mod.index[x]

\* Pattern x is there, with all the tracks it refers to.
Whole(x) ==
    /\ InTable(mod.xxp, x) /\ x \in mod.patterns
    /\ mod.cnt.chn > 0 => Refs(x) \subseteq mod.tracks

\* Entry x of a table is there to be used.
Present(t, x) ==
    CASE t = "xxt" -> InTable(mod.xxt, x)
      [] t = "xxp" -> InTable(mod.xxp, x)
      [] t = "xxi" -> InTable(mod.xxi, x)
      [] t = "xxs" -> InTable(mod.xxs, x)
      [] t = "track"   -> InTable(mod.xxt, x) /\ x \in mod.tracks
      [] t = "pattern" -> InTable(mod.xxp, x) /\ x \in mod.patterns
      [] t = "event"   -> Whole(x)
      [] t = "sub"     -> InTable(mod.xxi, x) /\ mod.subs[x] > 0
      [] t = "subs"    -> InTable(mod.xxi, x) /\ mod.nsm[x] <= mod.subs[x]

FirstTracks(x, c) == {x * mod.cnt.chn + i : i \in 0 .. c - 1}
OwnTracks(x) == FirstTracks(x, mod.cnt.chn)

\* libxmp_alloc_pattern and libxmp_alloc_track refuse what is out of range or
\* there already, before they look at the table; what the step then touches
\* has to be there.
InRange(c, x) == x \in 0 .. mod.cnt[c] - 1
FreePattern(x) == InRange("pat", x) /\ x \notin mod.patterns
FreeTrack(t)   == InRange("trk", t) /\ t \notin mod.tracks
Touched(s) ==
    CASE s.op \in {"pattern", "patternTracks"} ->
             InRange("pat", At(s.at)) =>
                 /\ InTable(mod.xxp, At(s.at))
                 /\ s.op = "patternTracks" =>
                        \A t \in OwnTracks(At(s.at)) : InRange("trk", t) => InTable(mod.xxt, t)
      [] s.op = "tracksIn" ->
             /\ Present("pattern", At(s.at))
             /\ \A t \in OwnTracks(At(s.at)) : InRange("trk", t) => InTable(mod.xxt, t)
      [] s.op = "track"  -> InRange("trk", At(s.at)) => InTable(mod.xxt, At(s.at))
      [] s.op \in {"index", "bare"} -> Present("pattern", At(s.at))
      [] s.op = "sub"    -> CountOf(s.num) > 0 => Present("xxi", At(s.at))
      [] s.op = "nsm"    -> Present("xxi", At(s.at))
      [] s.op = "sample" -> Present("xxs", At(s.at))
      [] s.op = "use"    -> Present(s.table, At(s.at))
      [] s.op = "free"   -> s.buf \notin local.freed
      [] s.op = "deref"  -> s.buf \in local.live
      [] s.op = "look"   -> SizeOf(s) < local.have
      [] s.op = "within" -> CountOf(s.of) + s.plus <= s.size
      [] OTHER -> TRUE

Trusted(s) == "flaw" \in DOMAIN s /\ s.flaw \in KnownFlaws

\* Steps that may fail (there is nothing to allocate for a count of 0), and those
\* that must.
Fallible == {"try", "table", "initPattern", "initInstrument", "realloc", "pattern", "track",
             "tracksIn", "patternTracks", "sub", "sample", "malloc", "request"}
MayFail(s) ==
    /\ s.op \in Fallible
    /\ s.op = "initInstrument" => mod.cnt.ins > 0 \/ mod.cnt.smp > 0
    /\ s.op = "realloc" => CountOf(s.to) > 0
    /\ s.op = "sub" => CountOf(s.num) > 0

Refused(s) ==
    CASE s.op = "pattern" -> ~FreePattern(At(s.at))
      [] s.op = "track"   -> ~FreeTrack(At(s.at))
      [] s.op = "patternTracks" ->
             ~FreePattern(At(s.at)) \/ \E t \in OwnTracks(At(s.at)) : ~FreeTrack(t)
      [] s.op = "tracksIn" -> \E t \in OwnTracks(At(s.at)) : ~FreeTrack(t)
      [] s.op = "checkTracks" ->
             \E p \in mod.patterns : \E t \in mod.index[p] : ~InRange("trk", t)
      [] s.op = "fail" -> TRUE
      [] OTHER -> FALSE

ForInstruments(v) == [x \in 0 .. mod.cnt.ins - 1 |-> v]

\* A pointer is overwritten: what it led to, table and entries, is lost.
Lost(m, there, what) == IF there THEN [m EXCEPT !.lost = @ \cup {what}] ELSE m

NewTracks(m) == [Lost(m, m.xxt # NULL, "xxt") EXCEPT !.xxt = m.cnt.trk, !.tracks = {}]
NewPatterns(m) ==
    [Lost(m, m.xxp # NULL, "xxp") EXCEPT
        !.xxp = m.cnt.pat, !.patterns = {}, !.index = <<>>]
NewInstruments(m) ==
    [Lost(m, m.xxi # NULL, "xxi") EXCEPT
        !.xxi = m.cnt.ins, !.subs = ForInstruments(0), !.nsm = ForInstruments(0)]
NewSamples(m) == [Lost(m, m.xxs # NULL, "xxs") EXCEPT !.xxs = m.cnt.smp, !.data = {}]
NewExtra(m)   == [Lost(m, m.xtra # NULL, "xtra") EXCEPT !.xtra = m.cnt.smp]
AnyInstruments(m) == IF m.cnt.ins > 0 THEN NewInstruments(m) ELSE m

\* The first half of libxmp_realloc_samples: only mod->xxs has its new length.
Resized(m, n) ==
    [Lost(m, \E x \in m.data : x >= n, "data") EXCEPT
        !.xxs = IF n = 0 THEN NULL ELSE n, !.data = @ \cap (0 .. n - 1)]

Filled(m, x) ==
    [m EXCEPT !.patterns = @ \cup {x}, !.index = (x :> {}) @@ @,
              !.width = (x :> m.cnt.chn) @@ @]
\* The first c tracks of pattern x are there, and the rest of its index is 0.
WithTracks(m, x, c) ==
    [m EXCEPT !.tracks = @ \cup FirstTracks(x, c),
              !.index = (x :> FirstTracks(x, c) \cup IF c < m.cnt.chn THEN {0} ELSE {}) @@ @]

\* Blocks of the module are freed, and it still points to them.
Dangling(m, B) == [m EXCEPT !.lost = @ \cup {k[1] : k \in {q \in m.kept : q[1] \in B}}]

\* The module after step s.
Stored(s) ==
    CASE s.op = "copy" /\ s.of \in Modules ->
             [mod EXCEPT !.cnt[s.of] = CountOf(s.from) + s.plus]
      [] s.op = "add" /\ s.of \in Modules ->
             [mod EXCEPT !.cnt[s.of] = @ + CountOf(s.num)]
      [] s.op = "tracks" -> [mod EXCEPT !.cnt.trk = mod.cnt.pat * mod.cnt.chn + s.plus]
      [] s.op = "initPattern" -> NewPatterns(NewTracks(mod))
      [] s.op = "initInstrument" ->
             IF mod.cnt.smp > 0 THEN NewExtra(NewSamples(AnyInstruments(mod)))
                                ELSE AnyInstruments(mod)
      [] s.op = "table" /\ s.of = "xxt" -> NewTracks(mod)
      [] s.op = "table" /\ s.of = "xxp" -> NewPatterns(mod)
      [] s.op = "table" /\ s.of = "xxi" -> NewInstruments(mod)
      [] s.op = "table" /\ s.of = "xxs" -> NewExtra(NewSamples(mod))
      [] s.op = "realloc" ->
             LET m == Resized(mod, CountOf(s.to))
             IN  [m EXCEPT !.xtra = m.xxs, !.cnt.smp = CountOf(s.to)]
      [] s.op = "pattern" -> Filled(mod, At(s.at))
      [] s.op = "track"   -> [mod EXCEPT !.tracks = @ \cup {At(s.at)}]
      [] s.op = "patternTracks" ->
             WithTracks(Filled(mod, At(s.at)), At(s.at), mod.cnt.chn)
      [] s.op = "tracksIn" -> WithTracks(mod, At(s.at), mod.cnt.chn)
      [] s.op = "index" ->
             [mod EXCEPT !.index = (At(s.at) :> IF s.track = "own" THEN OwnTracks(At(s.at))
                                                ELSE {At(s.track)}) @@ @]
      [] s.op = "sub" /\ CountOf(s.num) > 0 ->
             [Lost(mod, mod.subs[At(s.at)] > 0, "sub") EXCEPT
                 !.subs = (At(s.at) :> CountOf(s.num)) @@ @]
      [] s.op = "nsm" -> [mod EXCEPT !.nsm = (At(s.at) :> CountOf(s.num)) @@ @]
      [] s.op = "sample" ->
             [Lost(mod, At(s.at) \in mod.data, "data") EXCEPT !.data = @ \cup {At(s.at)}]
      [] s.op \in {"malloc", "open"} -> Lost(mod, s.buf \in local.live, s.buf)
      [] s.op = "keep" ->
             [Lost(mod, <<s.buf, At(s.at)>> \in mod.kept, s.buf) EXCEPT
                     !.kept = @ \cup {<<s.buf, At(s.at)>>}]
      [] s.op = "free" -> Dangling(mod, {s.buf})
      [] OTHER -> mod

\* What a step that allocates more than once leaves when it fails half-way.
HalfDone(s) ==
    LET Partly(m, x) ==
            {WithTracks(m, x, c) : c \in {d \in 1 .. mod.cnt.chn - 1 :
                                           \A t \in FirstTracks(x, d) : FreeTrack(t)}}
    IN  CASE s.op = "initPattern" -> {NewTracks(mod)}
          [] s.op = "initInstrument" /\ mod.cnt.smp > 0 ->
                 {AnyInstruments(mod), NewSamples(AnyInstruments(mod))}
          [] s.op = "table" /\ s.of = "xxs" -> {NewSamples(mod)}
          [] s.op = "realloc" -> {Resized(mod, CountOf(s.to))}
          [] s.op = "tracksIn" -> Partly(mod, At(s.at))
          [] s.op = "patternTracks" /\ FreePattern(At(s.at)) ->
                 LET m == Filled(mod, At(s.at)) IN {m} \cup Partly(m, At(s.at))
          [] OTHER -> {}

\* The loader's own variables after step s.
Noted(s) ==
    CASE s.op = "copy" /\ s.of \notin Modules ->
             [local EXCEPT ![s.of] = CountOf(s.from) + s.plus]
      [] s.op = "add" /\ s.of \notin Modules ->
             [local EXCEPT ![s.of] = @ + CountOf(s.num)]
      [] s.op \in {"malloc", "open"} -> [local EXCEPT !.live = @ \cup {s.buf}, !.freed = @ \ {s.buf}]
      [] s.op = "free"   -> [local EXCEPT !.live = @ \ {s.buf},
                                          !.freed = @ \cup ({s.buf} \cap local.live)]
      [] s.op = "null"   -> [local EXCEPT !.freed = @ \ {s.buf}]
      [] s.op = "onerror" -> [local EXCEPT !.onerr = s.bufs]
      [] s.op = "request" -> [local EXCEPT !.have = IF @ < SizeOf(s) THEN SizeOf(s) ELSE @]
      [] s.op = "write"   -> [local EXCEPT !.out = @ + CountOf(s.of) * s.unit]
      [] s.op = "magic"   -> [local EXCEPT !.out = @ + 4]
      [] s.op = "padTo"   -> [local EXCEPT !.out = IF @ < s.to THEN s.to ELSE @]
      [] s.op = "samples" -> [local EXCEPT !.have = 0, !.out = 0]
      [] s.op = "set" -> [local EXCEPT !.flags = @ \cup {s.flag}]
      [] OTHER -> local

-----------------------------------------------------------------------------
(* Loading                                                                 *)

Loading == phase = "loading" /\ todo # <<>>
Doing(op) == Loading /\ Head(todo).op = op

LoadInit ==
    /\ format \in DOMAIN Loaders
    /\ phase = "loading" /\ todo = Loaders[format]
    /\ mod = EmptyModule /\ local = EmptyLocal

\* A step that does what it says.
Do ==
    /\ Loading
    /\ LET s == Head(todo)
       IN  /\ s.op \notin {"fail", "return", "count", "each", "either", "when", "gone", "bare", "less", "ifset",
                          "attempt", "chunks", "loadAs", "handOn"}
           /\ ~Refused(s)
           /\ mod' = Stored(s)
           /\ local' = Noted(s)
    /\ todo' = Tail(todo)
    /\ UNCHANGED <<format, phase>>

\* The loader returns an error, by the label that frees its buffers; in a
\* function whose caller does not look at the result, it goes on there.  The
\* step may have been taken in part.
Landings == {l \in DOMAIN todo : todo[l].op = "landing"}
Raise ==
    /\ Loading
    /\ MayFail(Head(todo)) \/ Refused(Head(todo))
    /\ IF Landings = {}
       THEN phase' = "refused" /\ todo' = <<>>
       ELSE LET l == CHOOSE l \in Landings : \A h \in Landings : l <= h
            IN  /\ todo' = todo[l].else \o SubSeq(todo, l + 1, Len(todo))
                /\ UNCHANGED phase
    /\ local' = [local EXCEPT !.live = @ \ local.onerr, !.onerr = {}]
    /\ \E m \in {mod} \cup HalfDone(Head(todo)) : mod' = Dangling(m, local.onerr)
    /\ UNCHANGED format

\* A count is read.
ReadCount ==
    /\ Doing("count")
    /\ \E v \in Head(todo).from :
          IF Head(todo).of \in Modules
          THEN mod' = [mod EXCEPT !.cnt[Head(todo).of] = v] /\ UNCHANGED local
          ELSE local' = [local EXCEPT ![Head(todo).of] = v] /\ UNCHANGED mod
    /\ todo' = Tail(todo)
    /\ UNCHANGED <<format, phase>>

\* The next turn of a loop, or its end.
Turn ==
    /\ Doing("each")
    /\ LET s == Head(todo)
       IN  IF s.at < CountOf(s.to)
           THEN /\ local' = [local EXCEPT ![s.var] = s.at]
                /\ todo' = s.body \o <<[s EXCEPT !.at = @ + 1]>> \o Tail(todo)
           ELSE todo' = Tail(todo) /\ UNCHANGED local
    /\ UNCHANGED <<format, phase, mod>>

\* The file decides, or a count or a flag does.
Branch ==
    /\ Doing("either")
    /\ \E body \in Head(todo).bodies : todo' = body \o Tail(todo)
    /\ UNCHANGED <<format, phase, mod, local>>

HandOver ==
    /\ Doing("loadAs")
    /\ format' \in Head(todo).formats /\ todo' = Loaders[format']
    /\ UNCHANGED <<phase, mod, local>>

Deliver ==
    /\ Doing("handOn")
    /\ phase' = "unpacked" /\ todo' = <<>>
    /\ UNCHANGED <<format, mod, local>>

Decide ==
    /\ Loading
    /\ LET s == Head(todo)
       IN  \/ /\ s.op = "when"
              /\ todo' = (IF CountOf(s.of) \in s.in THEN s.body ELSE <<>>) \o Tail(todo)
           \/ /\ s.op = "gone"
              /\ todo' = (IF At(s.at) \notin mod.patterns THEN s.body ELSE <<>>) \o Tail(todo)
           \/ /\ s.op = "bare"
              /\ todo' = (IF mod.index[At(s.at)] = {} THEN s.body ELSE <<>>) \o Tail(todo)
           \/ /\ s.op = "less"
              /\ todo' = (IF CountOf(s.of) < CountOf(s.than) THEN s.then ELSE s.else) \o Tail(todo)
           \/ s.op = "attempt" /\ todo' = s.body \o Tail(todo)
           \/ /\ s.op = "ifset"
              /\ todo' = (IF s.flag \in local.flags THEN s.then ELSE s.else) \o Tail(todo)
    /\ UNCHANGED <<format, phase, mod, local>>

\* The next chunk is any of those the loader knows.
NextChunk ==
    /\ Doing("chunks") /\ Head(todo).left > 0
    /\ \E body \in Head(todo).handlers :
          todo' = body \o <<[Head(todo) EXCEPT !.left = @ - 1]>> \o Tail(todo)
    /\ UNCHANGED <<format, phase, mod, local>>

EndOfFile ==
    /\ Doing("chunks")
    /\ todo' = Tail(todo)
    /\ UNCHANGED <<format, phase, mod, local>>

Finish ==
    /\ phase = "loading"
    /\ todo # <<>> => Head(todo).op = "return"
    /\ phase' = "returned" /\ todo' = <<>>
    /\ UNCHANGED <<format, mod, local>>

-----------------------------------------------------------------------------
(* load_module after the loader, and xmp_release_module                    *)

\* Variant: the tracks of the patterns are not checked.
IsSaneShallow == mod.xxp # NULL /\ \A p \in 0 .. mod.cnt.pat - 1 : p \in mod.patterns

\* "Sanity check: patterns"
IsSane ==
    /\ mod.xxp # NULL
    /\ \A p \in 0 .. mod.cnt.pat - 1 :
          /\ p \in mod.patterns
          /\ mod.cnt.chn > 0 => \A t \in Refs(p) : InRange("trk", t) /\ t \in mod.tracks

Accept ==
    /\ phase = "returned"
    /\ phase' = IF IsSane THEN "accepted" ELSE "refused"
    /\ UNCHANGED <<format, todo, mod, local>>

\* The module goes, at once after an error, and its place is free for another.
Release ==
    /\ phase \in {"accepted", "refused"}
    /\ phase' = "released"
    /\ mod' = EmptyModule /\ local' = EmptyLocal
    /\ UNCHANGED <<format, todo>>

\* (The caller of load_module keeps the handle and closes it as after a test.)
LoadAgain ==
    /\ phase \in {"released", "unpacked"}
    /\ format' \in DOMAIN Loaders
    /\ phase' = "loading" /\ todo' = Loaders[format']
    /\ local' = EmptyLocal
    /\ UNCHANGED mod

LoadNext ==
    \/ Do \/ Raise \/ ReadCount \/ Turn \/ Branch \/ HandOver \/ Deliver \/ Decide \/ NextChunk
    \/ EndOfFile \/ Finish \/ Accept \/ Release \/ LoadAgain

LoadSpec == LoadInit /\ [][LoadNext]_loadVars

-----------------------------------------------------------------------------
(* Properties                                                              *)

\* No step of a loader touches an entry that is not there, whatever counts the
\* file has, in whatever order its parts come and whichever step has failed
\* without being noticed; and xmp_release_module, which goes by the counts,
\* finds a table of that length, at whatever step the loader gave up.  (The flaw
\* "xtra": a libxmp_realloc_samples that has cut mod->xxs, and could not cut
\* m->xtra, leaves mod->smp as it was.)
TablesHold ==
    /\ Loading => Touched(Head(todo)) \/ Trusted(Head(todo))
    /\ phase = "returned" => \A p \in mod.patterns : mod.cnt.chn <= mod.width[p]
    /\ phase \in {"refused", "accepted"} =>
          /\ mod.xxt # NULL => mod.cnt.trk <= mod.xxt
          /\ mod.xxp # NULL => mod.cnt.pat <= mod.xxp
          /\ mod.xxi # NULL => mod.cnt.ins <= mod.xxi
          /\ mod.xxs # NULL => \/ mod.cnt.smp <= mod.xxs
                               \/ "xtra" \in KnownFlaws /\ mod.xxs < mod.xtra

\* What load_module accepts is complete: the epilogue, the scan and the player
\* go by the counts and look at no pointer again.
LoadedIsComplete ==
    phase = "accepted" =>
        /\ mod.cnt.ins > 0 => mod.xxi # NULL
        /\ mod.cnt.smp > 0 => mod.xxs # NULL /\ mod.cnt.smp <= mod.xtra
        /\ \A i \in 0 .. mod.cnt.ins - 1 : mod.nsm[i] <= mod.subs[i]
        /\ \A p \in 0 .. mod.cnt.pat - 1 : Whole(p)

\* What a converter writes is laid out as the reader of its output expects: the
\* magic at 1080, then whole patterns, then the samples.
ConvertedIsModule ==
    Loading =>
        LET s == Head(todo)
        IN  /\ s.op = "magic" => local.out = 1080 \/ Trusted(s)
            /\ s.op = "samples" => (local.out - 1084) % 1024 = 0 \/ Trusted(s)

\* When a loader is done, well or not, none of its buffers is left and nothing
\* of the module has been overwritten: xmp_release_module frees all there is.
\* An unpacked file is held by nothing but its handle and its temporary name.
\* (Of what KnownLeaks lists, nothing is asked.)
NothingForgotten ==
    /\ phase \in {"refused", "returned", "accepted"} =>
          \A b \in local.live \cup mod.lost : <<format, b>> \in KnownLeaks
    /\ phase = "unpacked" =>
          \A b \in local.live \ Closed : <<format, b>> \in KnownLeaks
=============================================================================
