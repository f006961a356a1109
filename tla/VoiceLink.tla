----------------------------- MODULE VoiceLink -----------------------------
(***************************************************************************)
(* What class Client promises to those who ask it about the connection:    *)
(* connections are served one after the other, each of them once, and      *)
(* isIngame() is only ever true while one is being served, never before    *)
(* the first step of its service and never after the last.  Modules        *)
(* Session, Status and Exchange describe what happens inside one service   *)
(* and rely on this order; module Client, with its threads and pointers,   *)
(* implements it.                                                          *)
(***************************************************************************)
CONSTANTS
  Conns,    \* connections
  Null      \* none of them

VARIABLES
  serving,  \* the connection being served
  past,     \* those whose service has ended
  ingame    \* what isIngame() answers

linkVars == <<serving, past, ingame>>

Init == serving = Null /\ past = {} /\ ~ingame

Serve ==
  /\ serving = Null
  /\ serving' \in Conns \ past
  /\ UNCHANGED <<past, ingame>>

\* The handshake succeeds.
Enter ==
  /\ serving # Null /\ ~ingame
  /\ ingame' = TRUE
  /\ UNCHANGED <<serving, past>>

\* The connection is lost, given up, or its handshake is refused.
Leave ==
  /\ ingame
  /\ ingame' = FALSE
  /\ UNCHANGED <<serving, past>>

End ==
  /\ serving # Null
  /\ past' = past \cup {serving}
  /\ serving' = Null
  /\ ingame' = FALSE

Next == Serve \/ Enter \/ Leave \/ End

Spec == Init /\ [][Next]_linkVars
=============================================================================
