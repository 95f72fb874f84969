------------------------------- MODULE Context -------------------------------
(***************************************************************************)
(* The life of a context: src/src/control.c, load.c, player.c, mixer.c,    *)
(* virtual.c.  A context is created, loads modules, plays them and is      *)
(* freed.  Every step allocates memory, in a fixed order, and may fail at  *)
(* each allocation; what is left then has to fit the state the context is  *)
(* in, for the next call goes by ctx->state alone.                         *)
(*                                                                         *)
(* A resource stands for the pointer that holds it.  `held` are those that *)
(* point to memory; an allocation into a pointer that is held loses the    *)
(* old memory.  xmp_play_buffer is a part of the module, because the frame *)
(* it keeps between calls is the memory of the mixer.                      *)
(***************************************************************************)
EXTENDS PlayBuffer, Sequences

CONSTANTS
    Failing,        \* the steps that may fail
    MaxPlayers      \* bound: times the player starts

ASSUME MaxPlayersAssumption == MaxPlayers \in Nat

\* What xmp_start_player allocates, in this order.
PlayerSteps == <<"buffer", "buf32", "voice_array", "virt_channel",
                 "loop", "xc_data", "extras">>

\* What a load does, in this order: the names, the module by its loader, the
\* counters and the results of the scan.
LoadSteps == <<"dirname", "basename", "module", "scan_cnt", "scan">>

Elements(s) == {s[i] : i \in 1 .. Len(s)}
OfPlayer == Elements(PlayerSteps)
OfModule == Elements(LoadSteps)
Resources == OfPlayer \cup OfModule
Names    == {"dirname", "basename"}

ASSUME FailingAssumption == Failing \subseteq Resources \cup {"open"}

\* XMP_STATE_*
UNLOADED == 0
LOADED   == 1
PLAYING  == 2
FREED    == 3       \* the context itself is gone

VARIABLES
    state,      \* ctx->state
    held,       \* pointers that hold memory
    lost,       \* memory nothing points to any more
    ret         \* what the last call told its caller

contextVars == <<state, held, lost, ret>>
allVars == <<contextVars, bufferVars>>

-----------------------------------------------------------------------------
\* The first n steps of a sequence.
Upto(steps, n) == {steps[i] : i \in 1 .. n}

\* xmp_end_player: everything of the player, but only in the playing state.
FreedBy(s) == IF s = PLAYING THEN OfPlayer ELSE {}

\* Mutant of Ended: the state stays.
EndedForgotten(s) == s

\* The state xmp_end_player leaves.
Ended(s) == IF s = PLAYING THEN LOADED ELSE s

\* What the error paths of xmp_start_player give back when step n failed:
\* libxmp_mixer_on and libxmp_virt_on clean up after themselves, a later
\* failure frees the loops and the channels, not the mixer and the voices.
\* The pointer of the step that failed is NULL.
CleanedUp(n) ==
    CASE n = 1 -> {"buffer"}
      [] n = 2 -> {"buffer", "buf32"}
      [] n = 3 -> {"voice_array"}
      [] n = 4 -> {"voice_array", "virt_channel"}
      [] n = 5 -> {"loop"}
      [] OTHER -> {"loop", "xc_data"}

\* Mutant of ClearedBuffer: a new player goes on with the old one's frame.
ClearedBufferNot ==
    /\ loopCount' = 0 /\ chunk' = NoChunk /\ tail' = NoTail
    /\ buf' = buf

\* The call of xmp_play_buffer with NULL in xmp_start_player.
ClearedBuffer ==
    /\ loopCount' = 0 /\ chunk' = NoChunk /\ tail' = NoTail
    /\ buf' = Empty

-----------------------------------------------------------------------------
ContextInit ==
    /\ BufferInit
    /\ state = UNLOADED /\ held = {} /\ lost = {} /\ ret = "none"

\* What xmp_release_module leaves.
Released == held \ (FreedBy(state) \cup OfModule)

\* The loading functions release a module, but only if there is one.
ReleasedBefore == IF state = UNLOADED THEN held ELSE Released

\* Mutant of LoadFailure: a failed scan leaves the module behind.
LoadFailureKeepsModule(n, kept) ==
    IF n <= 2 THEN kept \cup Upto(LoadSteps, n - 1)
              ELSE kept \cup (Upto(LoadSteps, n - 1) \ Names)

\* What a load that fails at step n leaves, with `kept` from before: a missing
\* name returns at once, anything later releases the module.
LoadFailure(n, kept) ==
    IF n <= 2 THEN kept \cup Upto(LoadSteps, n - 1) ELSE kept

\* xmp_load_module.  A file that cannot be opened or unpacked leaves the old
\* module playing.
LoadCannotOpen ==
    /\ state # FREED /\ ~Running
    /\ "open" \in Failing
    /\ ret' = "error"
    /\ UNCHANGED <<state, held, lost, bufferVars>>

\* A file has a name; memory, callbacks and open files have none, and both
\* pointers become NULL.
LoadFails(n, named) ==
    /\ state # FREED /\ ~Running
    /\ LoadSteps[n] \in Failing
    /\ n <= 2 => named
    /\ held' = LoadFailure(n, ReleasedBefore \ Names)
    /\ lost' = lost \cup (ReleasedBefore \cap Upto(LoadSteps, n))
    /\ state' = UNLOADED
    /\ ret' = "error"
    /\ UNCHANGED bufferVars

Load(named) ==
    /\ state # FREED /\ ~Running
    /\ held' = (ReleasedBefore \ Names) \cup
               (IF named THEN OfModule ELSE OfModule \ Names)
    /\ lost' = lost \cup (ReleasedBefore \cap OfModule)
    /\ state' = LOADED
    /\ ret' = "none"
    /\ UNCHANGED bufferVars

\* xmp_release_module.
ReleaseModule ==
    /\ state # FREED /\ ~Running
    /\ held' = Released
    /\ state' = UNLOADED
    /\ ret' = "none"
    /\ UNCHANGED <<lost, bufferVars>>

\* A player of the number that follows.
NewPlayer == [frame |-> 0, size |-> 0, player |-> mixer.player + 1]

\* xmp_start_player, all allocations granted.
Start ==
    /\ state \in {LOADED, PLAYING} /\ ~Running
    /\ mixer.player < MaxPlayers
    /\ LET kept == held \ FreedBy(state)
       IN  /\ held' = kept \cup OfPlayer
           /\ lost' = lost \cup (kept \cap OfPlayer)
    /\ state' = PLAYING
    /\ ret' = "started"
    /\ mixer' = NewPlayer /\ stopped' = FALSE
    /\ ClearedBuffer
    /\ UNCHANGED call

\* xmp_start_player, step n failed.  The last step's failure is reported as
\* success, for `ret` is still 0, and the extras that other channels already
\* had go with the channels.
StartFails(n) ==
    /\ state \in {LOADED, PLAYING} /\ ~Running
    /\ PlayerSteps[n] \in Failing
    /\ LET kept == held \ FreedBy(state)
       IN  /\ held' = (kept \cup Upto(PlayerSteps, n - 1)) \ CleanedUp(n)
           /\ \E more \in {{}, {"extras"}} :
                 /\ more # {} => PlayerSteps[n] = "extras"
                 /\ lost' = lost \cup (kept \cap Upto(PlayerSteps, n)) \cup more
    /\ state' = Ended(state)
    /\ ret' = IF PlayerSteps[n] = "extras" THEN "started" ELSE "error"
    /\ IF PlayerSteps[n] = "extras" THEN ClearedBuffer
       ELSE /\ loopCount' = IF n <= 2 THEN loopCount ELSE 0
            /\ UNCHANGED <<buf, chunk, tail>>
    /\ UNCHANGED <<mixer, stopped, call>>

\* xmp_end_player.
EndPlayer ==
    /\ state # FREED /\ ~Running
    /\ held' = held \ FreedBy(state)
    /\ state' = Ended(state)
    /\ ret' = "none"
    /\ UNCHANGED <<lost, bufferVars>>

\* xmp_free_context: what it does not release is lost with the context.
FreeContext ==
    /\ state # FREED /\ ~Running
    /\ lost' = lost \cup ReleasedBefore
    /\ held' = {}
    /\ state' = FREED
    /\ ret' = "none"
    /\ UNCHANGED bufferVars

\* xmp_play_buffer needs the playing state, except to be reset.
Play ==
    /\ state # FREED
    /\ SyncBuffer \/ (state = PLAYING /\ BufferNext)
    /\ UNCHANGED contextVars

ContextNext ==
    \/ LoadCannotOpen
    \/ \E n \in 1 .. Len(LoadSteps), named \in BOOLEAN : LoadFails(n, named)
    \/ \E named \in BOOLEAN : Load(named)
    \/ ReleaseModule
    \/ Start
    \/ \E n \in 1 .. Len(PlayerSteps) : StartFails(n)
    \/ EndPlayer
    \/ FreeContext
    \/ Play

ContextSpec == ContextInit /\ [][ContextNext]_allVars

-----------------------------------------------------------------------------
(* Properties                                                              *)

\* Every function goes by the state alone: what it may then use is there.
StateIsBacked ==
    /\ state \in {LOADED, PLAYING} => OfModule \ Names \subseteq held
    /\ state = PLAYING => OfPlayer \subseteq held

\* No memory is forgotten, whatever order the calls come in and whichever of
\* the steps in Failing fails.
NothingLost == lost = {}

\* xmp_play_buffer never copies from the buffer of a player that has ended:
\* what it keeps of a frame is of the player that runs.
BufferOfPlayer ==
    state = PLAYING /\ buf.consumed < buf.inSize => buf.player = mixer.player

\* "0 if successful, or a negative error code in case of error": a start that
\* returns 0 has started the player.
StartReports == ret = "started" => state = PLAYING
=============================================================================
