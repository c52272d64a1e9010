----------------------------- MODULE NowPlaying -----------------------------
(***************************************************************************)
(* What a listener may expect of the player's display: it shows the row    *)
(* that is heard.  When the sound moves on by itself the display follows,  *)
(* and until it has followed the sound does not move on again.             *)
(*                                                                         *)
(* The code leaves two races open in which the hand-off is lost.  From     *)
(* such a race to the next start or stop nothing is promised.              *)
(***************************************************************************)

CONSTANTS
    Tracks,     \* the rows
    NoTrack     \* silence, or no row

VARIABLES
    heard,      \* the stream that sounds
    shown,      \* the current row
    due,        \* the sound moved on and the display did not yet
    raced       \* a race was met since the last start

vars == <<heard, shown, due, raced>>

OptTrack == Tracks \union {NoTrack}

Init ==
    /\ heard = NoTrack /\ shown = NoTrack
    /\ due = FALSE /\ raced = FALSE

\* A row is started: it is shown at once, and nothing sounds yet.
Start ==
    /\ shown' \in Tracks
    /\ heard' = NoTrack /\ due' = FALSE /\ raced' = FALSE

\* The sound stops: the player was stopped, or loads the shown row again.
Silence ==
    /\ ~raced' /\ heard' = NoTrack /\ due' = FALSE
    /\ UNCHANGED shown

\* The row that is shown sounds.
Sound ==
    /\ ~raced /\ heard = NoTrack /\ shown # NoTrack
    /\ heard' = shown
    /\ UNCHANGED <<shown, due, raced>>

\* The sound moves on to another row by itself.
HandOver ==
    /\ ~raced /\ heard # NoTrack /\ ~due
    /\ heard' \in Tracks
    /\ due' = TRUE
    /\ UNCHANGED <<shown, raced>>

\* The display follows.
Follow ==
    /\ ~raced /\ due
    /\ shown' = heard
    /\ due' = FALSE
    /\ UNCHANGED <<heard, raced>>

\* A race was met: anything may sound and be shown.
Race ==
    /\ raced' = TRUE /\ due' = FALSE
    /\ heard' \in OptTrack /\ shown' \in OptTrack

Next == Start \/ Silence \/ Sound \/ HandOver \/ Follow \/ Race

Safe == Init /\ [][Next]_vars

\* The display follows, unless the sound is taken back.
Follows == due ~> ~due

Spec == Safe /\ Follows

=============================================================================
