----------------------------- MODULE LocalScope -----------------------------
(***************************************************************************)
(* What SET, SET LOCAL and the end of a transaction promise about session  *)
(* variables, with no owners, timers or undo logs: SET is durable, SET     *)
(* LOCAL lasts until the transaction ends, and its end brings every value  *)
(* back to the session's at once.  The statement being served is an input: *)
(* nothing but SET may change the session, nothing but SET LOCAL a value   *)
(* of the transaction.                                                     *)
(***************************************************************************)
CONSTANTS Names, Values

VARIABLES request, inTxn, session, current

Init ==
    /\ inTxn = FALSE
    /\ session \in [Names -> Values]
    /\ current = session

Begin ==
    /\ ~inTxn
    /\ inTxn' = TRUE
    /\ UNCHANGED <<session, current>>

Set(v, x) ==
    /\ request = "set"
    /\ session' = [session EXCEPT ![v] = x]
    /\ current' = [current EXCEPT ![v] = x]
    /\ UNCHANGED inTxn

SetLocal(v, x) ==
    /\ request = "setLocal" /\ inTxn
    /\ current' = [current EXCEPT ![v] = x]
    /\ UNCHANGED <<inTxn, session>>

End ==
    /\ inTxn
    /\ inTxn' = FALSE
    /\ current' = session
    /\ UNCHANGED session

Next ==
    \/ Begin \/ End
    \/ \E v \in Names, x \in Values : Set(v, x) \/ SetLocal(v, x)

Spec == Init /\ [][Next]_<<inTxn, session, current>>

=============================================================================
