----------------------------- MODULE OneCaller -----------------------------
(***************************************************************************)
(* What class Client needs of whoever calls its connect(), which has no    *)
(* lock of its own: one call at a time, and none once stop() goes on to    *)
(* delete the client.  Module HttpServer provides it; module Client is     *)
(* written for such a caller.                                              *)
(***************************************************************************)
CONSTANTS
  Calls,    \* the arguments of a call
  Null      \* no call

VARIABLES
  calling,  \* the call in progress
  shut      \* no call will be made any more

callerVars == <<calling, shut>>

Init == calling = Null /\ shut = FALSE

Begin ==
  /\ ~shut /\ calling = Null
  /\ calling' \in Calls
  /\ UNCHANGED shut

End ==
  /\ calling # Null
  /\ calling' = Null
  /\ UNCHANGED shut

Shut ==
  /\ calling = Null /\ ~shut
  /\ shut' = TRUE
  /\ UNCHANGED calling

Next == Begin \/ End \/ Shut

Spec == Init /\ [][Next]_callerVars
=============================================================================
