----------------------------- MODULE RelayReload -----------------------------
(***************************************************************************)
(* An operator who wants a member revoked while the server runs, and tries *)
(* again until it is done.                                                 *)
(***************************************************************************)
EXTENDS RelayServer

VARIABLE unwanted     \* the members the operator wants revoked

Decide(m) ==
    /\ unwanted' = unwanted \cup {m}
    /\ UNCHANGED allVars

\* `weaver-relay revoke`
Revoke(m) ==
    /\ process = "command" /\ m \in unwanted
    /\ RevokeMember(m)
    /\ process' = "spent"
    /\ UNCHANGED <<founding, recovery, root, allowed, pending, answered, unwanted>>

ReloadNext ==
    \/ RelayNext /\ UNCHANGED unwanted
    \/ \E m \in Member : Decide(m) \/ Revoke(m)

reloadVars == <<allVars, unwanted>>

\* Steps of the processes, which keep at what they are doing.
Runs == (RunCommit \/ RunReadBack) /\ UNCHANGED unwanted
Refreshes == \E t \in pending : Refresh(t) /\ UNCHANGED unwanted
Reloads == Reload /\ UNCHANGED unwanted
Retries == StartCommand /\ UNCHANGED unwanted

\* The tasks of the server run, its reload task on a timer; a command that was
\* started goes on, and the operator starts one whenever the last has ended.
ReloadSpec ==
    /\ RelayInit /\ unwanted = {}
    /\ [][ReloadNext]_reloadVars
    /\ WF_reloadVars(Runs) /\ WF_reloadVars(Refreshes)
    /\ WF_reloadVars(Reloads) /\ WF_reloadVars(Retries)
    /\ \A m \in Member : WF_reloadVars(Revoke(m))

\* The access policy is reloaded after administrative revisions while the
\* server runs (README.md:68-69): a member that is to be revoked does not stay
\* on the list for ever.
LiveReload == \A m \in Member : m \in unwanted /\ m \in allowed ~> m \notin allowed

=============================================================================
