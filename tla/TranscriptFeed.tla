--------------------------- MODULE TranscriptFeed ---------------------------
(***************************************************************************)
(* What the live transcript promises a viewer, whatever sockets, retries   *)
(* and registries carry it ("subscribed to all future transcript events",  *)
(* backend/telephony/transcript_ws.py): it shows turns of the room it      *)
(* watches and of no other, only turns spoken after it began to watch, in  *)
(* the order they were spoken and each at most once.  A turn may be missed.*)
(***************************************************************************)
EXTENDS Naturals, Sequences

CONSTANTS Rooms,      \* LiveKit rooms
          Keys,       \* names a viewer may ask for: those of Rooms, and others
          Clients,    \* viewers
          MaxTurns,   \* how many turns a viewer keeps
          NoKey       \* no name is watched

VARIABLES said,      \* [Rooms -> how many turns were spoken]
          watching,  \* [Clients -> the name the viewer watches]
          seen,      \* [Clients -> the last turn shown, or spoken before watching]
          shown      \* [Clients -> the turns on its screen]

feedVars == <<said, watching, seen, shown>>

FeedInit ==
    /\ said = [r \in Rooms |-> 0]
    /\ watching = [c \in Clients |-> NoKey]
    /\ seen = [c \in Clients |-> 0]
    /\ shown = [c \in Clients |-> <<>>]

\* How many turns were spoken under a name: none, if it is not a room's.
Spoken(k) == IF k \in Rooms THEN said[k] ELSE 0

\* The last MaxTurns entries.
Window(turns) ==
    IF Len(turns) > MaxTurns
    THEN SubSeq(turns, Len(turns) - MaxTurns + 1, Len(turns))
    ELSE turns

Speak(r) ==
    /\ said' = [said EXCEPT ![r] = @ + 1]
    /\ UNCHANGED <<watching, seen, shown>>

Watch(c, k) ==
    /\ watching' = [watching EXCEPT ![c] = k]
    /\ seen' = [seen EXCEPT ![c] = Spoken(k)]
    /\ shown' = [shown EXCEPT ![c] = <<>>]
    /\ UNCHANGED said

\* The viewer stops watching; what is on the screen may stay.
Leave(c) ==
    /\ watching' = [watching EXCEPT ![c] = NoKey]
    /\ shown' \in {shown, [shown EXCEPT ![c] = <<>>]}
    /\ UNCHANGED <<said, seen>>

Clear(c) ==
    /\ shown' = [shown EXCEPT ![c] = <<>>]
    /\ UNCHANGED <<said, watching, seen>>

Show(c) ==
    /\ watching[c] \in Rooms
    /\ \E k \in (seen[c] + 1)..said[watching[c]] :
          /\ seen' = [seen EXCEPT ![c] = k]
          /\ shown' = [shown EXCEPT ![c] = Window(Append(@, k))]
    /\ UNCHANGED <<said, watching>>

FeedNext ==
    \/ \E r \in Rooms : Speak(r)
    \/ \E c \in Clients : Leave(c) \/ Clear(c) \/ Show(c) \/ \E k \in Keys : Watch(c, k)

FeedSpec == FeedInit /\ [][FeedNext]_feedVars
=============================================================================
