---------------------------- MODULE ContextProofs ----------------------------
(***************************************************************************)
(* Theorems about Context: whichever allocations fail, in whatever order   *)
(* the caller calls, each state has the memory it needs, the buffer of a   *)
(* player that has ended is never read, and the stream of xmp_play_buffer  *)
(* is in order for frames and buffers of every size.  As long as only      *)
(* those steps fail whose error paths clean up, no memory is lost.         *)
(***************************************************************************)
EXTENDS Context, TLAPS

\* Steps whose failure leaves memory behind that no later call frees.
Forgetful == {"basename", "voice_array", "virt_channel", "loop", "xc_data", "extras"}

-----------------------------------------------------------------------------
(* The resources                                                           *)

LEMMA PlayerResources ==
    /\ OfPlayer = {"buffer", "buf32", "voice_array", "virt_channel", "loop",
                   "xc_data", "extras"}
    /\ Len(PlayerSteps) = 7
  BY DEF OfPlayer, Elements, PlayerSteps

LEMMA ModuleResources ==
    /\ OfModule = {"dirname", "basename", "module", "scan_cnt", "scan"}
    /\ Len(LoadSteps) = 5
  BY DEF OfModule, Elements, LoadSteps

\* Nothing belongs to the module and to the player.
LEMMA ResourcesApart == OfPlayer \cap OfModule = {}
  BY PlayerResources, ModuleResources

LEMMA PlayerPrefix ==
    ASSUME NEW n \in 1 .. Len(PlayerSteps)
    PROVE  /\ Upto(PlayerSteps, n) \subseteq OfPlayer
           /\ Upto(PlayerSteps, n - 1) \subseteq OfPlayer
           /\ CleanedUp(n) \subseteq OfPlayer
<1>1. Len(PlayerSteps) = 7
    BY PlayerResources
<1>2. 1 .. n \subseteq 1 .. Len(PlayerSteps) /\ 1 .. n - 1 \subseteq 1 .. Len(PlayerSteps)
    BY <1>1
<1>3. CleanedUp(n) \subseteq OfPlayer
    BY PlayerResources DEF CleanedUp
<1> QED  BY <1>2, <1>3 DEF Upto, OfPlayer, Elements

LEMMA LoadPrefix ==
    ASSUME NEW n \in 1 .. Len(LoadSteps)
    PROVE  /\ Upto(LoadSteps, n) \subseteq OfModule
           /\ Upto(LoadSteps, n - 1) \subseteq OfModule
<1>1. Len(LoadSteps) = 5
    BY ModuleResources
<1>2. 1 .. n \subseteq 1 .. Len(LoadSteps) /\ 1 .. n - 1 \subseteq 1 .. Len(LoadSteps)
    BY <1>1
<1> QED  BY <1>2 DEF Upto, OfModule, Elements

-----------------------------------------------------------------------------
(* The memory of a state                                                   *)

\* xmp_load_module, xmp_release_module, xmp_start_player, xmp_end_player and
\* xmp_free_context, whatever fails: a loaded module has its memory, a player
\* that runs has all of its own.
THEOREM EveryStateIsBacked == ContextSpec => []StateIsBacked
<1>1. ContextInit => StateIsBacked
    BY DEF ContextInit, StateIsBacked, UNLOADED, LOADED, PLAYING
<1>2. StateIsBacked /\ [ContextNext]_allVars => StateIsBacked'
  <2> SUFFICES ASSUME StateIsBacked, [ContextNext]_allVars
               PROVE  StateIsBacked'
      OBVIOUS
  <2> USE DEF UNLOADED, LOADED, PLAYING, FREED
  <2>1. CASE LoadCannotOpen
      BY <2>1 DEF LoadCannotOpen, StateIsBacked
  <2>2. CASE \E n \in 1 .. Len(LoadSteps), named \in BOOLEAN : LoadFails(n, named)
      BY <2>2 DEF LoadFails, StateIsBacked
  <2>3. CASE \E named \in BOOLEAN : Load(named)
      BY <2>3 DEF Load, StateIsBacked
  <2>4. CASE ReleaseModule
      BY <2>4 DEF ReleaseModule, StateIsBacked
  <2>5. CASE Start
      BY <2>5, ResourcesApart DEF Start, StateIsBacked, FreedBy
  <2>6. CASE \E n \in 1 .. Len(PlayerSteps) : StartFails(n)
    <3>1. PICK n \in 1 .. Len(PlayerSteps) : StartFails(n)
        BY <2>6
    <3>2. state' = LOADED
        BY <3>1 DEF StartFails, Ended
    <3>3. held' = ((held \ FreedBy(state)) \cup Upto(PlayerSteps, n - 1)) \ CleanedUp(n)
        BY <3>1 DEF StartFails
    <3>4. FreedBy(state) \cap OfModule = {} /\ CleanedUp(n) \cap OfModule = {}
        BY ResourcesApart, PlayerPrefix DEF FreedBy
    <3>5. OfModule \ Names \subseteq held
        BY <3>1 DEF StartFails, StateIsBacked
    <3> QED  BY <3>2, <3>3, <3>4, <3>5 DEF StateIsBacked
  <2>7. CASE EndPlayer
      BY <2>7, ResourcesApart DEF EndPlayer, StateIsBacked, FreedBy, Ended
  <2>8. CASE FreeContext
      BY <2>8 DEF FreeContext, StateIsBacked
  <2>9. CASE Play
      BY <2>9 DEF Play, StateIsBacked, contextVars
  <2>10. CASE UNCHANGED allVars
      BY <2>10 DEF allVars, contextVars, StateIsBacked
  <2> QED  BY <2>1, <2>2, <2>3, <2>4, <2>5, <2>6, <2>7, <2>8, <2>9, <2>10 DEF ContextNext
<1> QED  BY <1>1, <1>2, PTL DEF ContextSpec

\* What a state may hold at most.
Due(s) == CASE s = PLAYING -> Resources
            [] s = LOADED  -> OfModule
            [] OTHER       -> {}

\* Nothing is lost and nothing is held that the state does not account for.
Tidy ==
    /\ state \in {UNLOADED, LOADED, PLAYING, FREED}
    /\ held \subseteq Due(state)
    /\ lost = {}

LEMMA FreedLeaves ==
    ASSUME Tidy
    PROVE  /\ held \ FreedBy(state) \subseteq OfModule
           /\ Released = {}
           /\ ReleasedBefore = {}
  BY DEF Tidy, Due, Released, ReleasedBefore, FreedBy, Resources,
         UNLOADED, LOADED, PLAYING, FREED

\* No order of calls loses memory, as long as the steps that fail are none of
\* the forgetful ones.
THEOREM NothingIsLost ==
    ASSUME Failing \cap Forgetful = {}
    PROVE  ContextSpec => []NothingLost
<1>1. ContextInit => Tidy
    BY DEF ContextInit, Tidy, Due, UNLOADED, LOADED, PLAYING
<1>2. Tidy /\ [ContextNext]_allVars => Tidy'
  <2> SUFFICES ASSUME Tidy, [ContextNext]_allVars
               PROVE  Tidy'
      OBVIOUS
  <2> USE DEF UNLOADED, LOADED, PLAYING, FREED
  <2>1. CASE LoadCannotOpen
      BY <2>1 DEF LoadCannotOpen, Tidy, Due
  <2>2. CASE \E n \in 1 .. Len(LoadSteps), named \in BOOLEAN : LoadFails(n, named)
    <3>1. PICK n \in 1 .. Len(LoadSteps), named \in BOOLEAN : LoadFails(n, named)
        BY <2>2
    <3>2. n # 2
      <4>1. LoadSteps[2] \in Forgetful
          BY DEF LoadSteps, Forgetful
      <4> QED  BY <3>1, <4>1 DEF LoadFails
    <3>3. n \in 1 .. 5
        BY ModuleResources
    <3>4. LoadFailure(n, {}) = {}
      <4>1. CASE n = 1
          BY <4>1 DEF LoadFailure, Upto
      <4>2. CASE n \in 3 .. 5
          BY <4>2 DEF LoadFailure
      <4> QED  BY <3>2, <3>3, <4>1, <4>2
    <3>5. held' = {} /\ lost' = {} /\ state' = UNLOADED
      <4>1. ReleasedBefore = {} /\ ReleasedBefore \ Names = {}
          BY FreedLeaves
      <4> QED  BY <3>1, <3>4, <4>1 DEF LoadFails, Tidy
    <3> QED  BY <3>5 DEF Tidy, Due
  <2>3. CASE \E named \in BOOLEAN : Load(named)
      BY <2>3, FreedLeaves DEF Load, Tidy, Due
  <2>4. CASE ReleaseModule
      BY <2>4, FreedLeaves DEF ReleaseModule, Tidy, Due
  <2>5. CASE Start
      BY <2>5, FreedLeaves, ResourcesApart DEF Start, Tidy, Due, Resources
  <2>6. CASE \E n \in 1 .. Len(PlayerSteps) : StartFails(n)
    <3>1. PICK n \in 1 .. Len(PlayerSteps) : StartFails(n)
        BY <2>6
    <3>2. n \in {1, 2}
      <4>1. \A i \in 3 .. 7 : PlayerSteps[i] \in Forgetful
          BY DEF PlayerSteps, Forgetful
      <4>2. n \in 1 .. 7
          BY PlayerResources
      <4> QED  BY <3>1, <4>1, <4>2 DEF StartFails
    <3>3. Upto(PlayerSteps, n - 1) \subseteq CleanedUp(n)
        BY <3>2 DEF Upto, PlayerSteps, CleanedUp
    <3>4. held' \subseteq OfModule
      <4>1. held \ FreedBy(state) \subseteq OfModule
          BY FreedLeaves
      <4> QED  BY <3>1, <3>3, <4>1 DEF StartFails
    <3>5. PlayerSteps[n] # "extras"
        BY <3>2 DEF PlayerSteps
    <3>6. lost' = {}
      <4>1. (held \ FreedBy(state)) \cap Upto(PlayerSteps, n) = {}
          BY FreedLeaves, PlayerPrefix, ResourcesApart
      <4> QED  BY <3>1, <3>5, <4>1 DEF StartFails, Tidy
    <3>7. state' = LOADED
        BY <3>1 DEF StartFails, Ended
    <3> QED  BY <3>4, <3>6, <3>7 DEF Tidy, Due
  <2>7. CASE EndPlayer
      BY <2>7, FreedLeaves DEF EndPlayer, Tidy, Due, Ended, FreedBy
  <2>8. CASE FreeContext
      BY <2>8, FreedLeaves DEF FreeContext, Tidy, Due
  <2>9. CASE Play
      BY <2>9 DEF Play, Tidy, Due, contextVars
  <2>10. CASE UNCHANGED allVars
      BY <2>10 DEF allVars, contextVars, Tidy, Due
  <2> QED  BY <2>1, <2>2, <2>3, <2>4, <2>5, <2>6, <2>7, <2>8, <2>9, <2>10 DEF ContextNext
<1>3. Tidy => NothingLost
    BY DEF Tidy, NothingLost
<1> QED  BY <1>1, <1>2, <1>3, PTL DEF ContextSpec

-----------------------------------------------------------------------------
(* The stream                                                              *)

\* Records of numbers.
BufferShape ==
    /\ mixer \in [frame : Nat, size : Nat, player : Nat]
    /\ buf \in [consumed : Nat, inSize : Nat, player : Nat]
    /\ chunk \in [frame : Nat, from : Nat, to : Nat, size : Nat]
    /\ call \in [size : Int, loop : Nat, filled : Nat]

\* The piece handed out last ends where the next one begins, or it was the end
\* of its frame.
Follows ==
    chunk # NoChunk =>
        \/ chunk.frame = mixer.frame /\ chunk.to = buf.consumed /\ chunk.size = buf.inSize
        \/ /\ chunk.to = chunk.size
           /\ chunk.frame < mixer.frame \/ buf.consumed = buf.inSize
           /\ chunk.frame <= mixer.frame
           /\ buf.consumed = 0 \/ buf.consumed = buf.inSize

StreamInv ==
    /\ BufferShape
    /\ buf.consumed <= buf.inSize
    /\ Follows

LEMMA SmallestBounds ==
    ASSUME NEW a \in Nat \ {0}, NEW b \in Nat \ {0}
    PROVE  /\ Smallest(a, b) \in Nat \ {0}
           /\ Smallest(a, b) <= a /\ Smallest(a, b) <= b
  BY DEF Smallest

\* A piece is never empty and stays inside its frame.
LEMMA CopyStep ==
    ASSUME StreamInv, Copy
    PROVE  /\ StreamInv'
           /\ chunk # NoChunk =>
                IF chunk'.frame = chunk.frame THEN chunk'.from = chunk.to
                ELSE chunk.frame < chunk'.frame /\ chunk.to = chunk.size /\ chunk'.from = 0
<1> DEFINE n == Smallest(call.size - call.filled, buf.inSize - buf.consumed)
<1>1. /\ call.size - call.filled \in Nat \ {0}
      /\ buf.inSize - buf.consumed \in Nat \ {0}
    BY DEF Copy, StreamInv, BufferShape
<1>2. n \in Nat \ {0} /\ n <= buf.inSize - buf.consumed
    BY <1>1, SmallestBounds
<1>3. /\ buf' = [buf EXCEPT !.consumed = @ + n]
      /\ call' = [call EXCEPT !.filled = @ + n]
      /\ chunk' = [frame |-> mixer.frame, from |-> buf.consumed,
                   to |-> buf.consumed + n, size |-> buf.inSize]
      /\ mixer' = mixer
    BY DEF Copy
<1> HIDE DEF n
<1>4. BufferShape'
    BY <1>2, <1>3 DEF BufferShape, StreamInv
<1>5. /\ buf'.consumed = buf.consumed + n /\ buf'.inSize = buf.inSize
      /\ chunk'.frame = mixer'.frame /\ chunk'.to = buf'.consumed
      /\ chunk'.size = buf'.inSize /\ chunk'.from = buf.consumed
    BY <1>3 DEF StreamInv, BufferShape
<1>6. StreamInv'
    BY <1>2, <1>4, <1>5 DEF StreamInv, Follows, BufferShape
<1>7. ASSUME chunk # NoChunk
      PROVE  IF chunk'.frame = chunk.frame THEN chunk'.from = chunk.to
             ELSE chunk.frame < chunk'.frame /\ chunk.to = chunk.size /\ chunk'.from = 0
    BY <1>1, <1>5, <1>7, <1>3 DEF StreamInv, Follows, BufferShape
<1> QED  BY <1>6, <1>7

\* A new frame comes when the last one is consumed.
LEMMA RenderStep ==
    ASSUME StreamInv, NEW size \in FrameSizes, NEW looped \in BOOLEAN, Render(size, looped)
    PROVE  StreamInv' /\ chunk' = chunk
<1>1. size \in Nat
    BY FrameSizesAssumption
<1>2. /\ mixer' = [mixer EXCEPT !.frame = @ + 1, !.size = size]
      /\ chunk' = chunk /\ buf.consumed = buf.inSize
    BY DEF Render, Consumed
<1>3. /\ mixer' \in [frame : Nat, size : Nat, player : Nat]
      /\ mixer'.frame = mixer.frame + 1
  <2>1. mixer \in [frame : Nat, size : Nat, player : Nat] /\ mixer.frame \in Nat
      BY DEF StreamInv, BufferShape
  <2>2. mixer' = [frame |-> mixer.frame + 1, size |-> size, player |-> mixer.player]
      BY <1>2, <2>1
  <2> QED  BY <1>1, <2>1, <2>2
<1>4. chunk # NoChunk => chunk.to = chunk.size /\ chunk.frame < mixer'.frame
    BY <1>2, <1>3 DEF StreamInv, Follows, BufferShape
<1>5. CASE LoopReached(call.loop, loopCount')
  <2>1. EndReplay
      BY <1>5 DEF Render
  <2>2. /\ call' = Idle
        /\ buf' = Empty \/ buf' = buf
      BY <2>1 DEF EndReplay
  <2>3. /\ buf' \in [consumed : Nat, inSize : Nat, player : Nat]
        /\ buf'.consumed = buf'.inSize
      BY <2>2, <1>2 DEF Empty, StreamInv, BufferShape
  <2>4. call' \in [size : Int, loop : Nat, filled : Nat]
      BY <2>2 DEF Idle
  <2> QED  BY <1>2, <1>3, <1>4, <2>3, <2>4 DEF StreamInv, BufferShape, Follows
<1>6. CASE ~LoopReached(call.loop, loopCount')
  <2>1. /\ buf' = [consumed |-> 0, inSize |-> size, player |-> mixer.player]
        /\ call' = call
      BY <1>6 DEF Render
  <2>2. /\ buf' \in [consumed : Nat, inSize : Nat, player : Nat]
        /\ buf'.consumed = 0 /\ buf'.inSize = size
      BY <1>1, <2>1 DEF StreamInv, BufferShape
  <2> QED  BY <1>1, <1>2, <1>3, <1>4, <2>1, <2>2 DEF StreamInv, BufferShape, Follows
<1> QED  BY <1>5, <1>6

\* What ends a replay without a frame leaves the stream as it is.
LEMMA RenderStoppedStep ==
    ASSUME StreamInv, RenderStopped
    PROVE  StreamInv' /\ chunk' = chunk
<1>1. /\ call' = Idle
      /\ buf' = Empty \/ buf' = buf
      /\ mixer' = mixer /\ chunk' = chunk /\ buf.consumed = buf.inSize
    BY DEF RenderStopped, EndReplay, Consumed
<1>2. /\ buf' \in [consumed : Nat, inSize : Nat, player : Nat]
      /\ buf'.consumed = buf'.inSize
    BY <1>1 DEF Empty, StreamInv, BufferShape
<1>3. call' \in [size : Int, loop : Nat, filled : Nat]
    BY <1>1 DEF Idle
<1>4. chunk # NoChunk => chunk.to = chunk.size /\ chunk.frame <= mixer.frame
    BY <1>1 DEF StreamInv, Follows, BufferShape
<1> QED  BY <1>1, <1>2, <1>3, <1>4 DEF StreamInv, BufferShape, Follows

\* A reset begins a new stream, of this player or of the next.
LEMMA ResetStep ==
    ASSUME StreamInv, buf' = Empty, chunk' = NoChunk,
           call' = call \/ call' = Idle,
           mixer' = mixer \/ mixer' = NewPlayer
    PROVE  StreamInv'
<1>1. mixer' \in [frame : Nat, size : Nat, player : Nat]
    BY DEF StreamInv, BufferShape, NewPlayer
<1>2. /\ buf' \in [consumed : Nat, inSize : Nat, player : Nat]
      /\ buf'.consumed = buf'.inSize
    BY DEF Empty, StreamInv, BufferShape
<1>3. chunk' \in [frame : Nat, from : Nat, to : Nat, size : Nat]
    BY DEF NoChunk
<1>4. call' \in [size : Int, loop : Nat, filled : Nat]
    BY DEF Idle, StreamInv, BufferShape
<1>5. NoChunk' = NoChunk
    BY DEF NoChunk
<1> QED  BY <1>1, <1>2, <1>3, <1>4, <1>5 DEF StreamInv, BufferShape, Follows

\* Steps that touch neither the frame nor the buffer.
LEMMA StillStep ==
    ASSUME StreamInv, mixer' = mixer, buf' = buf, chunk' = chunk,
           call' \in [size : Int, loop : Nat, filled : Nat]
    PROVE  StreamInv' /\ chunk' = chunk
  BY DEF StreamInv, BufferShape, Follows, NoChunk

\* The piece after a piece is the next of its frame or the first of the next.
Ordered ==
    chunk' # chunk /\ chunk' # NoChunk /\ chunk # NoChunk =>
        IF chunk'.frame = chunk.frame THEN chunk'.from = chunk.to
        ELSE chunk.frame < chunk'.frame /\ chunk.to = chunk.size /\ chunk'.from = 0

LEMMA StreamStep ==
    ASSUME StreamInv, [ContextNext]_allVars
    PROVE  StreamInv' /\ Ordered
<1>still. ASSUME chunk' = chunk PROVE Ordered
    BY <1>still DEF Ordered
<1>reset. ASSUME chunk' = NoChunk PROVE Ordered
    BY <1>reset DEF Ordered
<1>shape. call \in [size : Int, loop : Nat, filled : Nat]
    BY DEF StreamInv, BufferShape
<1>1. CASE UNCHANGED bufferVars
    BY <1>1, <1>shape, <1>still, StillStep DEF bufferVars
<1>2. CASE Start
  <2>1. /\ buf' = Empty /\ chunk' = NoChunk
        /\ call' = call /\ mixer' = NewPlayer
      BY <1>2 DEF Start, ClearedBuffer
  <2> QED  BY <2>1, ResetStep, <1>reset
<1>3. CASE \E n \in 1 .. Len(PlayerSteps) : StartFails(n)
  <2>1. \/ buf' = Empty /\ chunk' = NoChunk /\ call' = call /\ mixer' = mixer
        \/ UNCHANGED <<buf, chunk, call, mixer>>
      BY <1>3 DEF StartFails, ClearedBuffer
  <2>2. CASE buf' = Empty /\ chunk' = NoChunk /\ call' = call /\ mixer' = mixer
      BY <2>2, ResetStep, <1>reset
  <2>3. CASE UNCHANGED <<buf, chunk, call, mixer>>
      BY <2>3, <1>shape, <1>still, StillStep
  <2> QED  BY <2>1, <2>2, <2>3
<1>4. CASE SyncBuffer
    BY <1>4, ResetStep, <1>reset DEF SyncBuffer
<1>5. CASE \E size \in BufferSizes, loop \in Loops : Ask(size, loop)
  <2>1. PICK size \in BufferSizes, loop \in Loops : Ask(size, loop)
      BY <1>5
  <2>2. call' \in [size : Int, loop : Nat, filled : Nat]
      BY <2>1, BufferSizesAssumption, LoopsAssumption DEF Ask
  <2>3. UNCHANGED <<buf, chunk, mixer>>
      BY <2>1 DEF Ask
  <2> QED  BY <2>2, <2>3, <1>still, StillStep
<1>6. CASE \E size \in FrameSizes, looped \in BOOLEAN : Render(size, looped)
    BY <1>6, RenderStep, <1>still
<1>7. CASE RenderStopped
    BY <1>7, RenderStoppedStep, <1>still
<1>8. CASE Copy
    BY <1>8, CopyStep DEF Ordered
<1>9. CASE Return
  <2>1. call' \in [size : Int, loop : Nat, filled : Nat]
      BY <1>9 DEF Return, Idle
  <2>2. UNCHANGED <<buf, chunk, mixer>>
      BY <1>9 DEF Return
  <2> QED  BY <2>1, <2>2, <1>still, StillStep
<1>10. CASE StopSong \/ MoveSong
    BY <1>10, <1>shape, <1>still, StillStep DEF StopSong, MoveSong
<1>11. CASE Play
    BY <1>11, <1>4, <1>5, <1>6, <1>7, <1>8, <1>9, <1>10 DEF Play, BufferNext
<1>12. ASSUME \/ LoadCannotOpen
              \/ \E n \in 1 .. Len(LoadSteps), named \in BOOLEAN : LoadFails(n, named)
              \/ \E named \in BOOLEAN : Load(named)
              \/ ReleaseModule \/ EndPlayer \/ FreeContext
              \/ UNCHANGED allVars
       PROVE  UNCHANGED bufferVars
    BY <1>12 DEF LoadCannotOpen, LoadFails, Load, ReleaseModule, EndPlayer,
                 FreeContext, allVars
<1> QED  BY <1>1, <1>2, <1>3, <1>11, <1>12 DEF ContextNext

LEMMA StreamHolds == ContextSpec => []StreamInv
<1>1. ContextInit => StreamInv
    BY DEF ContextInit, BufferInit, StreamInv, BufferShape, Follows, NoChunk, Idle
<1>2. StreamInv /\ [ContextNext]_allVars => StreamInv'
    BY StreamStep
<1> QED  BY <1>1, <1>2, PTL DEF ContextSpec

\* xmp_play_buffer, src/src/player.c:2206-2261: whatever the sizes of frames
\* and buffers are, the caller gets every frame it hears whole and in order.
THEOREM StreamIsInOrder == ContextSpec => StreamInOrder
<1>1. StreamInv /\ [ContextNext]_allVars => [Ordered]_bufferVars
    BY StreamStep
<1> QED  BY <1>1, StreamHolds, PTL DEF ContextSpec, StreamInOrder, Ordered

\* player.c:2247: the pointer into the mixer's buffer is used only while the
\* player whose buffer it is runs.
THEOREM BufferIsOfPlayer == ContextSpec => []BufferOfPlayer
<1> DEFINE Own == buf.consumed < buf.inSize => buf.player = mixer.player
<1>1. ContextInit => Own
    BY DEF ContextInit, BufferInit
<1>2. StreamInv /\ Own /\ [ContextNext]_allVars => Own'
  <2> SUFFICES ASSUME StreamInv, Own, [ContextNext]_allVars
               PROVE  Own'
      OBVIOUS
  <2>still. ASSUME UNCHANGED <<buf, mixer>> PROVE Own'
      BY <2>still
  <2>reset. ASSUME buf' = Empty PROVE Own'
    <3>1. buf'.consumed = 0 /\ buf'.inSize = 0
        BY <2>reset DEF Empty
    <3> QED  BY <3>1
  <2>1. ASSUME NEW size \in FrameSizes, NEW looped \in BOOLEAN, Render(size, looped)
        PROVE  Own'
    <3>1. CASE LoopReached(call.loop, loopCount')
      <4>1. /\ buf' = Empty \/ buf' = buf
            /\ buf.consumed = buf.inSize
          BY <2>1, <3>1 DEF Render, EndReplay, Consumed
      <4>2. ASSUME buf' = buf PROVE ~(buf'.consumed < buf'.inSize)
          BY <4>1, <4>2 DEF StreamInv, BufferShape
      <4> QED  BY <4>1, <4>2, <2>reset
    <3>2. CASE ~LoopReached(call.loop, loopCount')
      <4>1. buf'.player = mixer.player
          BY <2>1, <3>2 DEF Render
      <4>2. mixer'.player = mixer.player
          BY <2>1 DEF Render
      <4> QED  BY <4>1, <4>2
    <3> QED  BY <3>1, <3>2
  <2>2. CASE RenderStopped
      BY <2>2, <2>reset, <2>still DEF RenderStopped, EndReplay
  <2>3. CASE Copy
    <3>1. /\ buf'.player = buf.player /\ mixer' = mixer
          /\ buf.consumed < buf.inSize
        BY <2>3 DEF Copy
    <3> QED  BY <3>1
  <2>4. CASE Play
      BY <2>4, <2>1, <2>2, <2>3, <2>still, <2>reset
         DEF Play, BufferNext, SyncBuffer, Ask, Return, StopSong, MoveSong
  <2>5. CASE Start
      BY <2>5, <2>reset DEF Start, ClearedBuffer
  <2>6. CASE \E n \in 1 .. Len(PlayerSteps) : StartFails(n)
    <3>1. buf' = Empty \/ UNCHANGED <<buf, mixer>>
        BY <2>6 DEF StartFails, ClearedBuffer
    <3> QED  BY <3>1, <2>reset, <2>still
  <2>7. ASSUME \/ LoadCannotOpen
               \/ \E n \in 1 .. Len(LoadSteps), named \in BOOLEAN : LoadFails(n, named)
               \/ \E named \in BOOLEAN : Load(named)
               \/ ReleaseModule \/ EndPlayer \/ FreeContext
               \/ UNCHANGED allVars
        PROVE  UNCHANGED <<buf, mixer>>
      BY <2>7 DEF LoadCannotOpen, LoadFails, Load, ReleaseModule, EndPlayer,
                  FreeContext, allVars, bufferVars
  <2> QED  BY <2>4, <2>5, <2>6, <2>7, <2>still DEF ContextNext
<1>3. Own => BufferOfPlayer
    BY DEF BufferOfPlayer
<1> QED  BY <1>1, <1>2, <1>3, StreamHolds, PTL DEF ContextSpec

-----------------------------------------------------------------------------
(* The end of the stream                                                   *)

\* A call that runs is one of the player's.  After a buffer that was filled up
\* with silence (`tail`), nothing is left of the last frame, and the next one
\* is refused as well: the song is stopped, or it has looped as often as a call
\* with this loop argument waits for.  A start that fails forgets the loops
\* counted, but not the silence: the player is gone then.
SilenceInv ==
    /\ Running => state = PLAYING
    /\ tail \in {NoTail} \cup Nat
    /\ state = PLAYING /\ tail # NoTail =>
          /\ buf.consumed = buf.inSize
          /\ stopped \/ LoopReached(tail, loopCount)
          /\ Running => call.loop = tail

\* A loop that is counted does not undo the end.
LEMMA LoopsCountUp ==
    ASSUME NEW loop \in Nat, NEW n \in Nat, LoopReached(loop, n), NEW looped
    PROVE  LoopReached(loop, n + (IF looped THEN 1 ELSE 0))
  BY DEF LoopReached

\* The end of a replay.
LEMMA EndsSilent ==
    ASSUME BufferShape, SilenceInv, Running, Consumed, EndReplay,
           state' = state, loopCount' \in Nat,
           stopped' \/ LoopReached(call.loop, loopCount')
    PROVE  SilenceInv'
<1>1. state = PLAYING /\ call' = Idle /\ call.loop \in Nat /\ ~Running'
    BY DEF SilenceInv, EndReplay, Running, BufferShape, Idle
<1>2. CASE call.filled = 0
  <2>1. buf'.consumed = buf'.inSize /\ tail' = tail
      BY <1>2 DEF EndReplay, Empty
  <2>2. tail # NoTail => tail = call.loop
      BY <1>1 DEF SilenceInv
  <2> QED  BY <1>1, <2>1, <2>2 DEF SilenceInv, NoTail
<1>3. CASE call.filled # 0
  <2>1. buf' = buf /\ tail' = call.loop
      BY <1>3 DEF EndReplay
  <2> QED  BY <1>1, <2>1 DEF SilenceInv, Consumed, NoTail
<1> QED  BY <1>2, <1>3

LEMMA SilenceStep ==
    ASSUME StreamInv, loopCount \in Nat, SilenceInv, [ContextNext]_allVars
    PROVE  /\ SilenceInv' /\ loopCount' \in Nat
           /\ chunk' # chunk /\ chunk' # NoChunk => call.loop # tail
<1> USE DEF UNLOADED, LOADED, PLAYING, FREED
<1>shape. BufferShape /\ BufferShape'
    BY StreamStep DEF StreamInv
<1>forgets. ASSUME tail' = NoTail, call' = call, state' = state \/ state' = PLAYING
            PROVE  SilenceInv'
    BY <1>forgets DEF SilenceInv, Running, NoTail, Idle
<1>1. CASE Start
    BY <1>1, <1>forgets DEF Start, ClearedBuffer, NoChunk
<1>2. CASE \E n \in 1 .. Len(PlayerSteps) : StartFails(n)
  <2>1. /\ state' # PLAYING /\ call' = call /\ ~Running
        /\ tail' \in {tail, NoTail} /\ loopCount' \in {0, loopCount}
        /\ chunk' \in {chunk, NoChunk}
      BY <1>2 DEF StartFails, ClearedBuffer, Ended
  <2> QED  BY <2>1 DEF SilenceInv, Running, Idle
<1>3. CASE SyncBuffer /\ state' = state
    BY <1>3, <1>forgets DEF SyncBuffer
<1>4. ASSUME NEW size \in BufferSizes, NEW loop \in Loops, Ask(size, loop),
             state = PLAYING, state' = state
      PROVE  SilenceInv' /\ loopCount' \in Nat /\ chunk' = chunk
  <2>1. call'.loop = loop /\ UNCHANGED <<buf, stopped, loopCount, chunk>>
      BY <1>4 DEF Ask
  <2> QED  BY <1>4, <2>1 DEF Ask, SilenceInv
<1>5. ASSUME NEW size \in FrameSizes, NEW looped \in BOOLEAN, Render(size, looped),
             state = PLAYING, state' = state
      PROVE  SilenceInv' /\ loopCount' \in Nat /\ chunk' = chunk
  <2>1. /\ loopCount' = loopCount + (IF looped THEN 1 ELSE 0)
        /\ ~stopped /\ Running /\ Consumed /\ chunk' = chunk
      BY <1>5 DEF Render
  <2>2. loopCount' \in Nat
      BY <2>1
  <2>3. CASE LoopReached(call.loop, loopCount')
      BY <1>5, <1>shape, <2>1, <2>2, <2>3, EndsSilent DEF Render
  <2>4. CASE ~LoopReached(call.loop, loopCount')
    <3>1. call' = call /\ tail' = tail
        BY <1>5, <2>4 DEF Render
    <3>2. tail = NoTail
      <4>1. SUFFICES ASSUME tail # NoTail  PROVE FALSE
          OBVIOUS
      <4>2. tail \in Nat /\ LoopReached(tail, loopCount) /\ call.loop = tail
          BY <1>5, <2>1, <4>1 DEF SilenceInv
      <4> QED  BY <2>1, <2>4, <4>2, LoopsCountUp
    <3> QED  BY <1>5, <2>1, <2>2, <3>1, <3>2, <1>forgets
  <2> QED  BY <2>3, <2>4, <2>1, <2>2
<1>6. CASE RenderStopped /\ state' = state
    BY <1>6, <1>shape, EndsSilent DEF RenderStopped
<1>7. CASE Copy /\ state = PLAYING /\ state' = state
  <2>1. buf.consumed < buf.inSize /\ Running /\ call.loop \in Nat
      BY <1>7, <1>shape DEF Copy, BufferShape
  <2>2. tail = NoTail
      BY <1>7, <2>1, <1>shape DEF SilenceInv, BufferShape
  <2>3. tail' = NoTail /\ loopCount' = loopCount
      BY <1>7, <2>2 DEF Copy
  <2>4. call.loop # tail
      BY <2>1, <2>2 DEF NoTail
  <2> QED  BY <1>7, <2>3, <2>4 DEF SilenceInv, NoTail
<1>8. CASE (Return \/ StopSong \/ MoveSong) /\ state = PLAYING /\ state' = state
  <2>1. /\ Running' => Running /\ call' = call
        /\ tail' = NoTail \/ (tail' = tail /\ loopCount' = loopCount /\ (stopped => stopped'))
        /\ loopCount' \in Nat /\ chunk' = chunk /\ buf' = buf
      BY <1>8 DEF Return, StopSong, MoveSong, Running
  <2> QED  BY <1>8, <2>1 DEF SilenceInv, NoTail
<1>9. CASE Play
  <2>1. state' = state /\ (SyncBuffer \/ (state = PLAYING /\ BufferNext))
      BY <1>9 DEF Play, contextVars
  <2>2. SyncBuffer => loopCount' \in Nat /\ chunk' = NoChunk
      BY DEF SyncBuffer
  <2>3. RenderStopped \/ Copy => loopCount' \in Nat
      BY DEF RenderStopped, Copy
  <2>4. RenderStopped \/ Return \/ StopSong \/ MoveSong => chunk' = chunk
      BY DEF RenderStopped, Return, StopSong, MoveSong
  <2>5. Return \/ StopSong \/ MoveSong => loopCount' \in Nat
      BY DEF Return, StopSong, MoveSong
  <2> QED  BY <2>1, <2>2, <2>3, <2>4, <2>5, <1>3, <1>4, <1>5, <1>6, <1>7, <1>8 DEF BufferNext
<1>10. ASSUME \/ LoadCannotOpen
              \/ \E n \in 1 .. Len(LoadSteps), named \in BOOLEAN : LoadFails(n, named)
              \/ \E named \in BOOLEAN : Load(named)
              \/ ReleaseModule \/ EndPlayer \/ FreeContext
              \/ UNCHANGED allVars
       PROVE  SilenceInv' /\ loopCount' \in Nat /\ chunk' = chunk
  <2>1. UNCHANGED bufferVars /\ (state' = state \/ (state' # PLAYING /\ ~Running))
      BY <1>10 DEF LoadCannotOpen, LoadFails, Load, ReleaseModule, EndPlayer, Ended,
                   FreeContext, allVars, contextVars
  <2> QED  BY <2>1 DEF SilenceInv, bufferVars, Running, Idle
<1>11. CASE Start \/ \E n \in 1 .. Len(PlayerSteps) : StartFails(n)
  <2>1. loopCount' \in Nat /\ chunk' \in {chunk, NoChunk}
      BY <1>11 DEF Start, StartFails, ClearedBuffer
  <2> QED  BY <2>1, <1>11, <1>1, <1>2
<1> QED  BY <1>9, <1>10, <1>11 DEF ContextNext

\* player.c:2219-2236: after a buffer that ends in silence, a call that waits for
\* the same loop gets nothing more, whatever the sizes are, however often the
\* caller asks, and whatever else is called in between that leaves the song where
\* it is.
THEOREM SilenceEndsStream == ContextSpec => SilenceIsEnd
<1>1. ContextInit => loopCount \in Nat /\ SilenceInv
    BY DEF ContextInit, BufferInit, SilenceInv, Running, PLAYING, UNLOADED
<1>2. StreamInv /\ loopCount \in Nat /\ SilenceInv /\ [ContextNext]_allVars
      => (loopCount \in Nat)' /\ SilenceInv'
    BY SilenceStep
<1>3. StreamInv /\ loopCount \in Nat /\ SilenceInv /\ [ContextNext]_allVars
      => [chunk' # chunk /\ chunk' # NoChunk => call.loop # tail]_bufferVars
    BY SilenceStep
<1> QED  BY <1>1, <1>2, <1>3, StreamHolds, PTL DEF ContextSpec, SilenceIsEnd
=============================================================================
