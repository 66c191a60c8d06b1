-------------------------- MODULE LocalClientRecovery --------------------------
(***************************************************************************)
(* LocalClient in a world that stops misbehaving: from some moment on the  *)
(* device is in range, answers every request and keeps its connections, no *)
(* poll is cancelled and the entry is not unloaded.  What the client owes  *)
(* then is to get its data flowing again, whatever state the faults left   *)
(* it in: a dead retained session, a session marked for closing, a paused  *)
(* charger query, an abandoned connection.                                 *)
(***************************************************************************)
EXTENDS LocalClient

VARIABLES
  healed,  \* no fault happens any more
  spent    \* polls that failed since then; the model stops counting at two

recoveryVars == <<vars, healed, spent>>

RecoveryInit == Init /\ healed = FALSE /\ spent = 0

Heal == /\ ~healed
        /\ healed' = TRUE
        /\ UNCHANGED <<vars, spent>>

Misbehave == ~healed /\ Next /\ UNCHANGED <<healed, spent>>

\* What happens after the faults also counts the polls that fail.
Behave(A) ==
  /\ healed
  /\ A
  /\ spent' = IF FailureRecorded /\ spent < 2 THEN spent + 1 ELSE spent
  /\ UNCHANGED healed

\* The operations of a connection that is gone keep failing.
SeveredFails(t) ==
  /\ task[t].link \in Links \ up
  /\ \E err \in Errors : ChargerFails(t, err) \/ StepRaises(t, err)

Healthy(t) == Behave(Progress(t) \/ SeveredFails(t))

\* The calls go on before and after, as in LocalClient.
GoesOn(t) ==
  \/ Healthy(t)
  \/ ~healed /\ Step(t) /\ UNCHANGED <<healed, spent>>

\* Home Assistant keeps asking for data.
Ask(p) == Behave(Call(p))

\* A connection nobody owns ends by the radio's supervision timeout.
AbandonedDrops == Behave(\E l \in abandoned : LinkDrops(l))

RecoveryNext ==
  \/ Heal
  \/ Misbehave
  \/ \E t \in Tasks : Healthy(t)
  \/ \E p \in Polls : Ask(p)
  \/ AbandonedDrops
  \/ Behave(RetryDelayElapses)

RecoverySpec ==
  /\ RecoveryInit
  /\ [][RecoveryNext]_recoveryVars
  /\ \A t \in Tasks : WF_recoveryVars(GoesOn(t))
  /\ \A p \in Polls : WF_recoveryVars(Ask(p))
  /\ WF_recoveryVars(AbandonedDrops)

-----------------------------------------------------------------------------
\* Once the faults have ended at most one more poll fails: the one under way,
\* or the first that finds the retained session dead (local_client.py:127-150,
\* which closes the session so that the next poll reconnects).
OneMoreFailure == spent <= 1

\* After the faults have ended a poll succeeds (local_client.py:117-205).
Recovers == healed ~> diag.result = "success"
=============================================================================
