----------------------------- MODULE Agreement -----------------------------
(***************************************************************************)
(* What the plugin and the game server promise each other about one client *)
(* during a connection, packets and TeamSpeak left aside.  The versions    *)
(* fit or they do not, for as long as the connection lasts; only if they   *)
(* do may the plugin enter the game; the server counts in only a client    *)
(* that is there; and while it counts, the client stays.  Only the end of  *)
(* the connection takes both away at once.                                 *)
(***************************************************************************)
VARIABLES
  open,     \* the connection is there
  fit,      \* each side has a version that the other takes
  ingame,   \* what isIngame() answers
  counted   \* the server counts the client in

agreementVars == <<open, fit, ingame, counted>>

Init == ~open /\ fit \in BOOLEAN /\ ~ingame /\ ~counted

Connect ==
  /\ ~open
  /\ open' = TRUE
  /\ fit' \in BOOLEAN
  /\ UNCHANGED <<ingame, counted>>

Enter ==
  /\ open /\ fit /\ ~ingame
  /\ ingame' = TRUE
  /\ UNCHANGED <<open, fit, counted>>

\* An invitation to another channel that ends without an id.
Leave ==
  /\ ingame /\ ~counted
  /\ ingame' = FALSE
  /\ UNCHANGED <<open, fit, counted>>

CountIn ==
  /\ ingame /\ ~counted
  /\ counted' = TRUE
  /\ UNCHANGED <<open, fit, ingame>>

\* The server waits for another handshake before it counts again.
Recall ==
  /\ counted
  /\ counted' = FALSE
  /\ UNCHANGED <<open, fit, ingame>>

Disconnect ==
  /\ open
  /\ open' = FALSE /\ ingame' = FALSE /\ counted' = FALSE
  /\ UNCHANGED fit

Next == Connect \/ Enter \/ Leave \/ CountIn \/ Recall \/ Disconnect

Spec == Init /\ [][Next]_agreementVars
=============================================================================
