---------------------------- MODULE MCMixerVoice ----------------------------
(* A voice of the mixer and two samples.                                   *)
EXTENDS MixerVoice

Shape(len, loop, full, lps, lpe, sustain, sus, sue) ==
    [len |-> len, loop |-> loop, full |-> full, lps |-> lps, lpe |-> lpe,
     sustain |-> sustain, sus |-> sus, sue |-> sue]

\* A one-shot, a loop of one place, a loop after a full first pass, and a loop
\* at the end after a sustain loop.
SmallShapes ==
    {Shape(4, "off", FALSE, 0, 0, "off", 0, 0),
     Shape(3, "bidir", FALSE, 1, 2, "off", 0, 0),
     Shape(4, "forward", TRUE, 0, 1, "off", 0, 0),
     Shape(4, "forward", FALSE, 2, 4, "bidir", 0, 2)}
=============================================================================
