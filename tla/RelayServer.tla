----------------------------- MODULE RelayServer -----------------------------
(***************************************************************************)
(* The weaver-relay binary: the commands that found and administer a       *)
(* network and the server, each a process of its own around an Authority.  *)
(*                                                                         *)
(* Founding a network stages it in a directory with a random name and      *)
(* renames that into place.  From then on every process opens the redb     *)
(* database, which admits one handle at a time: a command for one          *)
(* operation, the server for as long as it runs.  The server redeems       *)
(* invitations, one task per connection, behind a lock around its          *)
(* Authority, and keeps the list of endpoints its relay, its configuration *)
(* and its presence service admit.                                         *)
(***************************************************************************)
EXTENDS Authority

CONSTANT InitRun   \* the runs of `weaver-relay init`

ASSUME RelayServerAssumption == Nobody \notin InitRun \cup [of : InitRun, whole : BOOLEAN]

VARIABLES
    founding,     \* how far each run of init is
    recovery,     \* the recovery root file
    root,         \* the run whose network the data directory holds
    process,      \* what has the database open
    allowed,      \* allowed_members
    pending,      \* the tickets that redemption tasks are about to answer with
    answered      \* history variable: the tickets this server has answered with

relayVars == <<founding, recovery, root, process, allowed, pending, answered>>
serverVars == <<process, allowed, pending, answered>>
allVars == <<vars, relayVars>>

FoundingPhase == {"idle", "staged", "writing", "written", "founded", "over"}

RelayTypeOK ==
    /\ TypeOK
    /\ founding \in [InitRun -> FoundingPhase]
    /\ recovery \in {Nobody} \cup [of : InitRun, whole : BOOLEAN]
    /\ root \in {Nobody} \cup InitRun
    /\ process \in {"none", "command", "spent", "serve"}
    /\ process = "none" <=> memory = Closed
    /\ allowed \subseteq Device
    /\ pending \subseteq tickets /\ answered \subseteq tickets

RelayInit ==
    /\ Init
    /\ founding = [f \in InitRun |-> "idle"]
    /\ recovery = Nobody
    /\ root = Nobody
    /\ process = "none"
    /\ allowed = {}
    /\ pending = {}
    /\ answered = {}

-----------------------------------------------------------------------------
\* Authority::initialize.  A data directory that exists is an error.  The
\* secrets, the records of the genesis and last the manifest go into a staging
\* directory that nobody else reads.
StageNetwork(f) ==
    /\ founding[f] = "idle"
    /\ founding' = [founding EXCEPT ![f] = IF root = Nobody THEN "staged" ELSE "over"]
    /\ UNCHANGED <<vars, recovery, root, serverVars>>

\* write_recovery_root: the file must not exist; it is written and synced ...
CreateRecoveryRoot(f) ==
    /\ founding[f] = "staged"
    /\ IF recovery = Nobody
       THEN /\ recovery' = [of |-> f, whole |-> FALSE]
            /\ founding' = [founding EXCEPT ![f] = "writing"]
       ELSE founding' = [founding EXCEPT ![f] = "over"] /\ UNCHANGED recovery
    /\ UNCHANGED <<vars, root, serverVars>>

WriteRecoveryRoot(f) ==
    /\ founding[f] = "writing"
    /\ recovery' = [recovery EXCEPT !.whole = TRUE]
    /\ founding' = [founding EXCEPT ![f] = "written"]
    /\ UNCHANGED <<vars, root, serverVars>>

\* Mutant: the network is in place before its recovery root is written.
RenameFirst(f) ==
    /\ founding[f] \in {"staged", "written"}
    /\ founding' = [founding EXCEPT ![f] = "founded"]
    /\ root' = IF root = Nobody THEN f ELSE root
    /\ UNCHANGED <<vars, recovery, serverVars>>

\* ... before the staging directory becomes the data directory, unless there
\* is one by now.
RenameStaging(f) ==
    /\ founding[f] = "written"
    /\ founding' = [founding EXCEPT ![f] = IF root = Nobody THEN "founded" ELSE "over"]
    /\ root' = IF root = Nobody THEN f ELSE root
    /\ UNCHANGED <<vars, recovery, serverVars>>

\* An error, or a crash, which leaves the staging directory behind.
FoundingFails(f) ==
    /\ founding[f] \in {"staged", "writing", "written"}
    /\ founding' = [founding EXCEPT ![f] = "over"]
    /\ UNCHANGED <<vars, recovery, root, serverVars>>

\* The operator deletes the file of a network that never came to be.
DiscardRecovery ==
    /\ recovery # Nobody /\ founding[recovery.of] = "over"
    /\ recovery' = Nobody
    /\ UNCHANGED <<vars, founding, root, serverVars>>

-----------------------------------------------------------------------------
\* RedbStateStore::open of a database that another handle has open fails.
StartCommand ==
    /\ root # Nobody /\ process = "none"
    /\ Open
    /\ process' = "command"
    /\ UNCHANGED <<founding, recovery, root, allowed, pending, answered>>

\* The commands invite, invitation_create, invitation_revoke, revoke; ...
MemberOperation ==
    \/ \E q \in Request, roles \in Grants, t \in Expiry : InviteMember(q, roles, t)
    \/ \E i \in Invitation, a \in App, t \in Expiry : CreateInvitation(i, a, t)
    \/ \E i \in Invitation : RevokeInvitation(i)
    \/ \E m \in Member : RevokeMember(m)

\* ... app_register, app_enrollment_install, app_bind; ...
AppOperation ==
    \/ \E a \in App : RegisterApp(a) \/ InstallEnrollmentAppRoot(a)
    \/ \E b \in Bindings : AuthorizeAppBinding(b)

\* ... dns_set, dns_remove, relay_register, relay_remove.
DirectoryOperation ==
    \/ \E d \in DnsRecord : SetVirtualDns(d)
    \/ \E n \in Name : RemoveVirtualDns(n)
    \/ \E r \in Relays : RegisterRelay(r)
    \/ \E m \in Device : RemoveRelay(m)

\* A command is one operation.
RunCommand ==
    /\ process = "command"
    /\ MemberOperation \/ AppOperation \/ DirectoryOperation
    /\ process' = "spent"
    /\ UNCHANGED <<founding, recovery, root, allowed, pending, answered>>

\* A process ends, or is killed at any point.
EndProcess ==
    /\ Stop
    /\ process' = "none"
    /\ allowed' = {} /\ pending' = {} /\ answered' = {}
    /\ UNCHANGED <<founding, recovery, root>>

\* serve
StartServing ==
    /\ root # Nobody /\ process = "none"
    /\ Open
    /\ process' = "serve"
    /\ allowed' = Listed(memory'.config)
    /\ UNCHANGED <<founding, recovery, root, pending, answered>>

\* A task of the bootstrap endpoint has the write lock: it redeems ...
Redeem(i, q) ==
    /\ process = "serve"
    /\ \/ RedeemInvitation(i, q) /\ UNCHANGED pending
       \/ RedeemAgain(i, q) /\ pending' = pending \cup {invitations[i]}
    /\ UNCHANGED <<founding, recovery, root, process, allowed, answered>>

\* ... which goes through the commit and the read-back, or fails at either.
RunCommit ==
    /\ Commit
    /\ UNCHANGED relayVars

RunReadBack ==
    /\ ReadBack
    /\ pending' = IF process = "serve" THEN pending \cup (tickets' \ tickets) ELSE pending
    /\ UNCHANGED <<founding, recovery, root, process, allowed, answered>>

RunFails ==
    /\ op # Idle
    /\ op' = Idle
    /\ UNCHANGED <<durable, now, memory, orphans, tickets, relayVars>>

\* Mutant: the task answers first and refreshes the list afterwards.
RefreshAfterAnswer(t) ==
    /\ op = Idle
    /\ IF t \in answered
       THEN allowed' = Listed(memory.config) /\ pending' = pending \ {t} /\ UNCHANGED answered
       ELSE answered' = answered \cup {t} /\ UNCHANGED <<allowed, pending>>
    /\ UNCHANGED <<vars, founding, recovery, root, process>>

\* Mutant: the task adds whom it answers to the list.
RefreshApplicant(t) ==
    /\ op = Idle
    /\ allowed' = allowed \cup {Applicant[t.request]}
    /\ pending' = pending \ {t}
    /\ answered' \in {answered, answered \cup {t}}
    /\ UNCHANGED <<vars, founding, recovery, root, process>>

\* A redeemed invitation refreshes the list, under the read lock all the while,
\* and then answers; the answer may be lost.
Refresh(t) ==
    /\ op = Idle
    /\ allowed' = Listed(memory.config)
    /\ pending' = pending \ {t}
    /\ answered' \in {answered, answered \cup {t}}
    /\ UNCHANGED <<vars, founding, recovery, root, process>>

\* The reload task opens the database to see whether the head has moved, and
\* goes on if it cannot: the server's own handle has it open.
Reload ==
    /\ process = "serve"
    /\ IF memory # Closed
       THEN UNCHANGED allVars
       ELSE /\ Open
            /\ allowed' = Listed(stored.config)
            /\ UNCHANGED <<founding, recovery, root, process, pending, answered>>

RelayNext ==
    \/ \E f \in InitRun :
          \/ StageNetwork(f) \/ CreateRecoveryRoot(f) \/ WriteRecoveryRoot(f)
          \/ RenameStaging(f) \/ FoundingFails(f)
    \/ DiscardRecovery
    \/ StartCommand \/ RunCommand \/ EndProcess \/ StartServing
    \/ \E i \in Invitation, q \in Request : Redeem(i, q)
    \/ RunCommit \/ RunReadBack \/ RunFails
    \/ \E t \in pending : Refresh(t)
    \/ Reload
    \/ Tick /\ UNCHANGED relayVars

RelaySpec == RelayInit /\ [][RelayNext]_allVars

-----------------------------------------------------------------------------
\* The recovery root of a network that exists is on file, whole, whatever runs
\* of init failed or crashed before and whichever of them came first.
RecoveryRootKept == root # Nobody => recovery = [of |-> root, whole |-> TRUE]

\* Everybody the server's handle lists is on its access list, in whatever order
\* the tasks came to refresh it, or has yet to be answered: no member holds an
\* answer and is kept out.
AnsweredIsAllowed ==
    process = "serve" =>
        \A m \in Listed(memory.config) :
            m \in allowed \/ \E t \in pending \ answered : Applicant[t.request] = m

\* Once all tasks are done the list is the membership the server's handle
\* knows: nobody who was revoked before it started, everybody who has joined.
AccessIsMembership ==
    process = "serve" /\ op = Idle /\ pending = {} => allowed = Listed(memory.config)

=============================================================================
