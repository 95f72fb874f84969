----------------------------- MODULE PlayBuffer -----------------------------
(***************************************************************************)
(* xmp_play_buffer, src/src/player.c: frames of the mixer, whose length    *)
(* depends on the tempo, are cut into buffers of the length the caller     *)
(* asks for.  What is left of a frame waits, in the mixer's own buffer,    *)
(* for the next call.                                                      *)
(*                                                                         *)
(* The bytes are named by the frame they belong to and their place in it.  *)
(* A round of the function's loop is a step: Render plays a frame, Copy    *)
(* hands out a piece of it.  When a frame ends the song is up to the       *)
(* Sequencer; here any frame may count a loop.                             *)
(***************************************************************************)
EXTENDS Integers

CONSTANTS
    FrameSizes,     \* sizes of a rendered frame, in bytes
    BufferSizes,    \* sizes a caller asks for
    Loops,          \* loop counts a caller waits for; 0 is "for ever"
    MaxFrames       \* bound: frames rendered by a player

\* libxmp_mixer_get_ticksize never returns less than 1 << ANTICLICK_SHIFT.
ASSUME FrameSizesAssumption == FrameSizes \subseteq Nat \ {0}
ASSUME BufferSizesAssumption == BufferSizes \subseteq Nat
ASSUME LoopsAssumption == Loops \subseteq Nat
ASSUME MaxFramesAssumption == MaxFrames \in Nat

Smallest(a, b) == IF a <= b THEN a ELSE b

VARIABLES
    mixer,      \* the frame in the mixer's buffer: its number, size, player
    loopCount,  \* p->loop_count
    stopped,    \* xmp_play_frame returns -XMP_END
    buf,        \* p->buffer_data: consumed, in_size, player of in_buffer
    call,       \* arguments and locals of the call that runs, or Idle
    chunk,      \* the piece handed out last, or NoChunk since a reset
    tail        \* the loop argument of a call that was filled up with silence,
                \* until a call with another one or a move of the song

bufferVars == <<mixer, loopCount, stopped, buf, call, chunk, tail>>

Idle    == [size |-> -1, loop |-> 0, filled |-> 0]
NoChunk == [frame |-> 0, from |-> 0, to |-> 0, size |-> 0]
NoTail  == -1

Running == call # Idle
Empty   == [consumed |-> 0, inSize |-> 0, player |-> buf.player]

-----------------------------------------------------------------------------
BufferInit ==
    /\ mixer = [frame |-> 0, size |-> 0, player |-> 0]
    /\ loopCount = 0 /\ stopped = FALSE
    /\ buf = [consumed |-> 0, inSize |-> 0, player |-> 0]
    /\ call = Idle /\ chunk = NoChunk /\ tail = NoTail

\* xmp_play_buffer is called, in the state XMP_STATE_PLAYING.
Ask(size, loop) ==
    /\ ~Running
    /\ call' = [size |-> size, loop |-> loop, filled |-> 0]
    /\ tail' = IF loop = tail THEN tail ELSE NoTail
    /\ UNCHANGED <<mixer, loopCount, stopped, buf, chunk>>

\* xmp_play_buffer with no buffer: "Syncs buffer start with frame start".
SyncBuffer ==
    /\ ~Running
    /\ loopCount' = 0
    /\ buf' = Empty
    /\ chunk' = NoChunk /\ tail' = NoTail
    /\ UNCHANGED <<mixer, stopped, call>>

\* Mutant of Consumed: a frame is rendered although bytes are left of it.
ConsumedEarly == buf.consumed + 1 >= buf.inSize

Consumed == buf.consumed = buf.inSize

\* Mutant of LoopReached: only the loop just asked for ends the replay.
LoopReachedExactly(loop, count) == loop > 0 /\ count = loop

LoopReached(loop, count) == loop > 0 /\ count >= loop

\* The end of replay at the start of a buffer is returned, later it fills the
\* buffer with silence.  (What is left of the buffer_data is then nothing.)
EndReplay ==
    /\ call' = Idle
    /\ IF call.filled = 0
       THEN buf' = Empty /\ tail' = tail
       ELSE buf' = buf /\ tail' = call.loop

\* xmp_play_frame succeeds; xmp_get_frame_info then names the mixer's buffer.
Render(size, looped) ==
    /\ Running /\ call.filled < call.size /\ Consumed
    /\ ~stopped
    /\ mixer.frame < MaxFrames
    /\ mixer' = [mixer EXCEPT !.frame = @ + 1, !.size = size]
    /\ loopCount' = loopCount + (IF looped THEN 1 ELSE 0)
    /\ IF LoopReached(call.loop, loopCount')
       THEN EndReplay
       ELSE /\ buf' = [consumed |-> 0, inSize |-> size, player |-> mixer.player]
            /\ UNCHANGED <<call, tail>>
    /\ UNCHANGED <<stopped, chunk>>

\* xmp_play_frame returns -XMP_END and leaves the mixer alone.
RenderStopped ==
    /\ Running /\ call.filled < call.size /\ Consumed
    /\ stopped
    /\ EndReplay
    /\ UNCHANGED <<mixer, loopCount, stopped, chunk>>

\* A piece of the frame goes to the caller.
Copy ==
    /\ Running /\ call.filled < call.size /\ buf.consumed < buf.inSize
    /\ LET n == Smallest(call.size - call.filled, buf.inSize - buf.consumed)
       IN  /\ buf'   = [buf EXCEPT !.consumed = @ + n]
           /\ call'  = [call EXCEPT !.filled = @ + n]
           /\ chunk' = [frame |-> mixer.frame, from |-> buf.consumed,
                        to |-> buf.consumed + n, size |-> buf.inSize]
    /\ UNCHANGED <<mixer, loopCount, stopped, tail>>

Return ==
    /\ Running /\ call.filled >= call.size
    /\ call' = Idle
    /\ UNCHANGED <<mixer, loopCount, stopped, buf, chunk, tail>>

\* xmp_stop_module.
StopSong ==
    /\ ~Running
    /\ stopped' = TRUE
    /\ UNCHANGED <<mixer, loopCount, buf, call, chunk, tail>>

\* The calls that set a position start a stopped song again; xmp_restart_module
\* also begins to count loops anew.
MoveSong ==
    /\ ~Running
    /\ stopped' = FALSE
    /\ loopCount' \in {0, loopCount}
    /\ tail' = NoTail
    /\ UNCHANGED <<mixer, buf, call, chunk>>

BufferNext ==
    \/ \E size \in BufferSizes, loop \in Loops : Ask(size, loop)
    \/ SyncBuffer
    \/ \E size \in FrameSizes, looped \in BOOLEAN : Render(size, looped)
    \/ RenderStopped
    \/ Copy
    \/ Return
    \/ StopSong
    \/ MoveSong

-----------------------------------------------------------------------------
(* Properties                                                              *)

\* The caller gets the frames one after the other, each from its start to its
\* end, however the sizes of frames and buffers fall: a piece goes on where
\* the last one ended, or begins a later frame after one that was handed out
\* whole.  Only a frame at which the end of replay was noticed is skipped:
\* it is never heard.
StreamInOrder ==
    [][chunk' # chunk /\ chunk' # NoChunk /\ chunk # NoChunk =>
          IF chunk'.frame = chunk.frame THEN chunk'.from = chunk.to
          ELSE chunk.frame < chunk'.frame /\ chunk.to = chunk.size /\ chunk'.from = 0]_bufferVars

\* Silence ends the stream: after a buffer that was filled up, the calls that
\* wait for the same loop get no more sound, unless the song was moved or a
\* call that waits for another loop has come in between.
SilenceIsEnd == [][chunk' # chunk /\ chunk' # NoChunk => call.loop # tail]_bufferVars
=============================================================================
