----------------------------- MODULE MCIntegration -----------------------------
(***************************************************************************)
(* Integration on small instances, and what the repository's texts say of  *)
(* it that its code does not do.                                           *)
(***************************************************************************)
EXTENDS Integration, TLC

Symmetry == Permutations(Refreshes)

-----------------------------------------------------------------------------
\* local_client.py:474, "Release the persistent proxy/GATT session on unload or
\* reload.": once an entry is unloaded and nothing runs, no session is left.
UnloadReleasesSession ==
  entry = "unloaded" /\ (\A u \in Updates : update[u].pc = "idle") =>
    \A i \in Instances : ~session[i]

\* README.md:302-303, "Open the integration diagnostics and inspect
\* `source_status`" when entities are unavailable: the status tells when it is the
\* local source that has failed.
StatusTellsFailure ==
  runtime # 0 /\ "local" \in sources /\ ~success[runtime]
  /\ result[runtime] = "temporarily_unavailable"
    => Diagnostics.source_status["local"] # "connected"

\* README.md:209, "Realtime EMS values share one response.": a direction code and
\* the magnitude it belongs to, shown together, are of one response.
RealtimeShareResponse ==
  \A i \in Instances :
    AvailableCode(i) /\ AvailableCore(i) =>
      data[i].fields.code = data[i].fields.core
=============================================================================
