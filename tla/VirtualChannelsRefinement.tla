---------------------- MODULE VirtualChannelsRefinement ----------------------
(***************************************************************************)
(* The channel maps and counters of virtual.c implement VoicePool: a voice *)
(* belongs to its root, and a track steers the voice it is mapped to.      *)
(***************************************************************************)
EXTENDS VirtualChannels

Pool == INSTANCE VoicePool
            WITH None  <- FREE,
                 owner <- virt.root,
                 fg    <- [t \in Tracks |-> virt.map[t]]

\* Every call of the virtual channel manager is a step the abstract pool
\* allows: in particular only unsteered voices are ever stolen, and only when
\* no voice is left.
ImplementsPool == Pool!Spec
=============================================================================
