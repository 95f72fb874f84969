------------------------------ MODULE VoicePool ------------------------------
(***************************************************************************)
(* What the voice pool of src/src/virtual.c promises its callers, without  *)
(* channel maps or counters.  A voice belongs to at most one track.  A     *)
(* track steers one of its voices, the foreground one; its others are old  *)
(* notes left to ring.  Notes may stop at any time, but a voice that       *)
(* sounds changes hands in two ways only: the new note of a track replaces *)
(* the track's own note, or, when no voice is left, takes one that no      *)
(* track steers.                                                           *)
(***************************************************************************)
EXTENDS Integers

CONSTANTS
    Tracks,     \* the tracks notes are played on
    Voices,     \* the mixer's voices
    None        \* no track, no voice

VARIABLES
    owner,      \* owner[v]: the track whose note voice v plays, or None
    fg          \* fg[t]: the voice track t steers, or None
vars == <<owner, fg>>

TypeOK == /\ owner \in [Voices -> Tracks \cup {None}]
          /\ fg \in [Tracks -> Voices \cup {None}]

Init == /\ owner = [v \in Voices |-> None]
        /\ fg = [t \in Tracks |-> None]

Sounding   == {v \in Voices : owner[v] # None}
OfTrack(t) == {v \in Voices : owner[v] = t}

\* Ownership and foreground once the voices of R are silenced.
OwnerWithout(R) == [v \in Voices |-> IF v \in R THEN None ELSE owner[v]]
FgWithout(R)    == [t \in Tracks |-> IF fg[t] \in R THEN None ELSE fg[t]]

\* Voices available to a new note of track t after R is silenced.
Available(t, R) ==
    LET own == OwnerWithout(R)
        fgd == FgWithout(R)
    IN  {v \in Voices :
            \/ v = fgd[t]
            \/ own[v] = None
            \/ /\ \A w \in Voices : own[w] # None
               /\ \A u \in Tracks : fgd[u] # v}

\* Voices fall silent: cut, faded out, sample finished, player repositioned.
Stop(R) ==
    /\ owner' = OwnerWithout(R)
    /\ fg' = FgWithout(R)

\* Track t starts a note on voice v; R are older notes of its own that the
\* new one cuts.
Play(t, R, v) ==
    /\ v \in Available(t, R)
    /\ owner' = [OwnerWithout(R) EXCEPT ![v] = t]
    /\ fg' = [FgWithout(R) EXCEPT ![t] = v]

\* The same with a note that has no sample: voice v ends up silent, and the
\* track steers nothing, though its former note may still ring.
PlaySilence(t, R, v) ==
    /\ v \in Available(t, R)
    /\ owner' = [OwnerWithout(R) EXCEPT ![v] = None]
    /\ fg' = [FgWithout(R) EXCEPT ![t] = None]

Next ==
    \/ \E R \in SUBSET Sounding : Stop(R)
    \/ \E t \in Tracks, v \in Voices : \E R \in SUBSET OfTrack(t) :
          Play(t, R, v) \/ PlaySilence(t, R, v)

Spec == Init /\ [][Next]_vars

\* A track steers a voice of its own, and two tracks never steer the same.
ForegroundOwned == \A t \in Tracks : fg[t] # None => owner[fg[t]] = t
=============================================================================
