------------------------------- MODULE Access -------------------------------
(***************************************************************************)
(* The elevation of one supervisor and the invitation that made them one:  *)
(*   - services/delegation.service.ts: a delegation row elevates a          *)
(*     supervisor until it is revoked;                                      *)
(*   - lib/action-utils.ts: each server process answers permission checks   *)
(*     from a cache of its own, filled from the delegation rows, dropped by  *)
(*     the requests that change them, and ending by itself after 30 s;       *)
(*   - services/invitation.service.ts and app/(auth)/accept-invite: the      *)
(*     invitations of the person's email and the role one gives;             *)
(*   - actions/user.actions.ts: an administrator assigns another role.       *)
(* A request's statements are separate steps: none of these handlers runs    *)
(* in a transaction.  Time is abstracted to what it ends: a cache entry's    *)
(* 30 s (Lapse), a link's 7 days (LinkLapses).                              *)
(***************************************************************************)
EXTENDS FiniteSets, Naturals

CONSTANTS Server, Request, Delegation, Invitation,
          InvitedAs   \* the roles an invitation may name

VARIABLES role,        \* the person's role; "none" before they sign up
          cookie,      \* a live session cookie of theirs says "supervisor"
          delegation,  \* each delegation row: absent, active or revoked
          cache,       \* each process's entry for the person as supervisor
          invitation,  \* each invitation row of the person's email
          task,        \* what each request is doing
          changedAt    \* the process that last gave or took the elevation

vars == <<role, cookie, delegation, cache, invitation, task, changedAt>>

Roles == {"unassigned", "loanOfficer", "supervisor"}
ASSUME InvitedAsRoles == InvitedAs \subseteq Roles
Statuses == {"absent", "pending", "expired", "revoked", "accepted"}
Empty == [holds |-> "nothing", overtaken |-> FALSE]
Idle == [op |-> "idle"]

(* `seen' is what the request read; `overtaken' records that the process     *)
(* dropped the person's entries after a lookup had read the delegations.     *)
Lookup(s, pc, seen, overtaken) ==
  [op |-> "lookup", server |-> s, pc |-> pc, seen |-> seen, overtaken |-> overtaken]
Delegating(s, d, pc) == [op |-> "delegate", server |-> s, id |-> d, pc |-> pc]
Invalidating(s) == [op |-> "invalidate", server |-> s]
Inviting(i, given) == [op |-> "invite", id |-> i, role |-> given]
Resending(i, seen) == [op |-> "resend", id |-> i, seen |-> seen]
Expiring(i, seen) == [op |-> "expire", id |-> i, seen |-> seen]
Accepting(s, i, seen, given, left) ==
  [op |-> "accept", server |-> s, id |-> i, seen |-> seen, role |-> given, left |-> left]

Active == {d \in Delegation : delegation[d] = "active"}
Held == IF Active # {} THEN "elevated" ELSE "plain"
Pending == {i \in Invitation : invitation[i].status = "pending"}

Become(r, k) == task' = [task EXCEPT ![r] = k]

Init ==
  /\ role = "none" /\ cookie = FALSE
  /\ delegation = [d \in Delegation |-> "absent"]
  /\ cache = [s \in Server |-> Empty]
  /\ invitation = [i \in Invitation |-> [status |-> "absent", role |-> "unassigned", lapsed |-> FALSE]]
  /\ task = [r \in Request |-> Idle]
  /\ changedAt \in Server

-----------------------------------------------------------------------------
(* Permission checks.                                                        *)

(* A check of a session that says supervisor misses the process's cache (a   *)
(* hit changes nothing).                                                     *)
Miss(r, s) ==
  /\ task[r] = Idle /\ cookie /\ cache[s].holds = "nothing"
  /\ Become(r, Lookup(s, "read", "nothing", FALSE))
  /\ UNCHANGED <<role, cookie, delegation, cache, invitation, changedAt>>

ReadDelegations(r) ==
  /\ task[r].op = "lookup" /\ task[r].pc = "read"
  /\ Become(r, Lookup(task[r].server, "store", Held, FALSE))
  /\ UNCHANGED <<role, cookie, delegation, cache, invitation, changedAt>>

Store(r) ==
  /\ task[r].op = "lookup" /\ task[r].pc = "store"
  /\ cache' = [cache EXCEPT ![task[r].server] =
                 [holds |-> task[r].seen, overtaken |-> task[r].overtaken]]
  /\ Become(r, Idle)
  /\ UNCHANGED <<role, cookie, delegation, invitation, changedAt>>

(* The entry's 30 seconds end, or the process evicts it.                     *)
Lapse(s) ==
  /\ cache[s].holds # "nothing"
  /\ cache' = [cache EXCEPT ![s] = Empty]
  /\ UNCHANGED <<role, cookie, delegation, invitation, task, changedAt>>

(* Mutant of Forget: the sweep drops expired entries only.                   *)
ForgetNothing(s) == cache' = cache

(* invalidateUserPermissions: this process forgets the person's entries;     *)
(* lookups of its own that have read already are overtaken.                  *)
Forget(s) == cache' = [cache EXCEPT ![s] = Empty]

Overtake(s, r, next) ==
  task' = [q \in Request |->
             IF q = r THEN next
             ELSE IF task[q].op = "lookup" /\ task[q].server = s /\ task[q].pc = "store"
             THEN Lookup(s, "store", task[q].seen, TRUE)
             ELSE task[q]]

Invalidate(r) ==
  /\ task[r].op = "invalidate"
  /\ Forget(task[r].server) /\ Overtake(task[r].server, r, Idle)
  /\ UNCHANGED <<role, cookie, delegation, invitation, changedAt>>

-----------------------------------------------------------------------------
(* Delegations.                                                              *)

(* createDelegation: no active row, a supervisor, insert, invalidate.        *)
CheckActive(r, s, d) ==
  /\ task[r] = Idle /\ delegation[d] = "absent" /\ Active = {}
  /\ \A q \in Request : task[q].op = "delegate" => task[q].id # d
  /\ Become(r, Delegating(s, d, "role"))
  /\ UNCHANGED <<role, cookie, delegation, cache, invitation, changedAt>>

CheckSupervisor(r) ==
  /\ task[r].op = "delegate" /\ task[r].pc = "role"
  /\ IF role = "supervisor"
     THEN Become(r, Delegating(task[r].server, task[r].id, "insert"))
     ELSE Become(r, Idle)
  /\ UNCHANGED <<role, cookie, delegation, cache, invitation, changedAt>>

Insert(r) ==
  /\ task[r].op = "delegate" /\ task[r].pc = "insert"
  /\ delegation' = [delegation EXCEPT ![task[r].id] = "active"]
  /\ changedAt' = IF Active = {} THEN task[r].server ELSE changedAt
  /\ Become(r, Invalidating(task[r].server))
  /\ UNCHANGED <<role, cookie, cache, invitation>>

(* revokeDelegation: one guarded update, then invalidate.                    *)
RevokeDelegation(r, s, d) ==
  /\ task[r] = Idle /\ delegation[d] = "active"
  /\ delegation' = [delegation EXCEPT ![d] = "revoked"]
  /\ changedAt' = IF Active = {d} THEN s ELSE changedAt
  /\ Become(r, Invalidating(s))
  /\ UNCHANGED <<role, cookie, cache, invitation>>

-----------------------------------------------------------------------------
(* Roles and sessions.                                                       *)

SignUp ==
  /\ role = "none" /\ role' = "unassigned"
  /\ UNCHANGED <<cookie, delegation, cache, invitation, task, changedAt>>

(* A session keeps the role it was opened with: its cookie is trusted        *)
(* without a query, for some 15 minutes after a change of role.  The model   *)
(* lets it last, which only adds permission checks.                          *)
LogIn ==
  /\ role = "supervisor" /\ ~cookie /\ cookie' = TRUE
  /\ UNCHANGED <<role, delegation, cache, invitation, task, changedAt>>

(* assignRole: set the role, then invalidate; the sessions are revoked, not   *)
(* their cookies, and no delegation is.                                      *)
AssignRole(r, s, given) ==
  /\ task[r] = Idle /\ role # "none" /\ given \in Roles \ {"unassigned", role}
  /\ role' = given
  /\ Become(r, Invalidating(s))
  /\ UNCHANGED <<cookie, delegation, cache, invitation, changedAt>>

-----------------------------------------------------------------------------
(* Invitations.                                                              *)

(* createInvitation: no account, no pending invitation; then insert, which   *)
(* the unique index refuses when another pending row has come.               *)
CheckInvite(r, i, given) ==
  /\ task[r] = Idle /\ invitation[i].status = "absent"
  /\ \A q \in Request : task[q].op = "invite" => task[q].id # i
  /\ role = "none" /\ Pending = {}
  /\ Become(r, Inviting(i, given))
  /\ UNCHANGED <<role, cookie, delegation, cache, invitation, changedAt>>

InsertInvite(r) ==
  /\ task[r].op = "invite"
  /\ invitation' =
       IF Pending # {} THEN invitation
       ELSE [invitation EXCEPT ![task[r].id] =
               [status |-> "pending", role |-> task[r].role, lapsed |-> FALSE]]
  /\ Become(r, Idle)
  /\ UNCHANGED <<role, cookie, delegation, cache, changedAt>>

RevokeInvitation(i) ==
  /\ invitation[i].status = "pending"
  /\ invitation' = [invitation EXCEPT ![i].status = "revoked"]
  /\ UNCHANGED <<role, cookie, delegation, cache, task, changedAt>>

(* A link's date is looked at only while the invitation is not closed.       *)
Followable == Statuses \ {"absent", "revoked", "accepted"}

LinkLapses(i) ==
  /\ invitation[i].status \in Followable /\ ~invitation[i].lapsed
  /\ invitation' = [invitation EXCEPT ![i].lapsed = TRUE]
  /\ UNCHANGED <<role, cookie, delegation, cache, task, changedAt>>

(* Mutant of Resendable: an invitation in any state is sent again.           *)
ResendableAny == Statuses \ {"absent"}

(* resendInvitation: read the status, then update by id alone; the unique    *)
(* index refuses a second pending row.                                       *)
Resendable == {"pending", "expired"}

ReadResend(r, i) ==
  /\ task[r] = Idle /\ invitation[i].status \in Resendable
  /\ Become(r, Resending(i, invitation[i].status))
  /\ UNCHANGED <<role, cookie, delegation, cache, invitation, changedAt>>

Resend(r) ==
  /\ task[r].op = "resend"
  /\ invitation' =
       IF Pending \ {task[r].id} # {} THEN invitation
       ELSE [invitation EXCEPT ![task[r].id].status = "pending",
                               ![task[r].id].lapsed = FALSE]
  /\ Become(r, Idle)
  /\ UNCHANGED <<role, cookie, delegation, cache, changedAt>>

(* validateInviteToken: a revoked or accepted invitation is refused before   *)
(* its date is looked at; a lapsed one is marked expired, by id alone.       *)
FollowLapsed(r, i) ==
  /\ task[r] = Idle /\ invitation[i].status \in Followable /\ invitation[i].lapsed
  /\ Become(r, Expiring(i, invitation[i].status))
  /\ UNCHANGED <<role, cookie, delegation, cache, invitation, changedAt>>

MarkExpired(r) ==
  /\ task[r].op = "expire"
  /\ invitation' = [invitation EXCEPT ![task[r].id].status = "expired"]
  /\ Become(r, Idle)
  /\ UNCHANGED <<role, cookie, delegation, cache, changedAt>>

(* finalizeInviteAcceptance: a valid link and an account; then the role and  *)
(* the invitation's status are written side by side, and the caches dropped. *)
Follow(r, s, i) ==
  /\ task[r] = Idle /\ invitation[i].status = "pending" /\ ~invitation[i].lapsed
  /\ role # "none"
  /\ Become(r, Accepting(s, i, "pending", invitation[i].role, {"role", "status"}))
  /\ UNCHANGED <<role, cookie, delegation, cache, invitation, changedAt>>

WriteRole(r) ==
  /\ task[r].op = "accept" /\ "role" \in task[r].left
  /\ role' = task[r].role
  /\ Become(r, [task[r] EXCEPT !.left = @ \ {"role"}])
  /\ UNCHANGED <<cookie, delegation, cache, invitation, changedAt>>

MarkAccepted(r) ==
  /\ task[r].op = "accept" /\ "status" \in task[r].left
  /\ invitation' = [invitation EXCEPT ![task[r].id].status = "accepted"]
  /\ Become(r, [task[r] EXCEPT !.left = @ \ {"status"}])
  /\ UNCHANGED <<role, cookie, delegation, cache, changedAt>>

Accepted(r) ==
  /\ task[r].op = "accept" /\ task[r].left = {}
  /\ Become(r, Invalidating(task[r].server))
  /\ UNCHANGED <<role, cookie, delegation, cache, invitation, changedAt>>

-----------------------------------------------------------------------------
(* A server process ends and starts again: its cache and the requests that   *)
(* would still touch it are lost.  (Another request that is lost is one that *)
(* takes no further step.)                                                   *)
On(s, k) == k.op \in {"lookup", "delegate", "invalidate", "accept"} /\ k.server = s

Restart(s) ==
  /\ cache[s] # Empty \/ \E r \in Request : On(s, task[r])
  /\ cache' = [cache EXCEPT ![s] = Empty]
  /\ task' = [r \in Request |->
                IF On(s, task[r]) THEN Idle ELSE task[r]]
  /\ UNCHANGED <<role, cookie, delegation, invitation, changedAt>>

(* The next step of a request under way.                                     *)
Step(r) ==
  \/ ReadDelegations(r) \/ Store(r) \/ Invalidate(r)
  \/ CheckSupervisor(r) \/ Insert(r)
  \/ InsertInvite(r) \/ Resend(r) \/ MarkExpired(r)
  \/ WriteRole(r) \/ MarkAccepted(r) \/ Accepted(r)

Begin(r) ==
  \/ \E i \in Invitation :
       \/ \E given \in InvitedAs : CheckInvite(r, i, given)
       \/ ReadResend(r, i) \/ FollowLapsed(r, i)
  \/ \E s \in Server :
       \/ Miss(r, s)
       \/ \E d \in Delegation : CheckActive(r, s, d) \/ RevokeDelegation(r, s, d)
       \/ \E given \in Roles : AssignRole(r, s, given)
       \/ \E i \in Invitation : Follow(r, s, i)

Next ==
  \/ \E r \in Request : Begin(r) \/ Step(r)
  \/ \E s \in Server : Lapse(s) \/ Restart(s)
  \/ \E i \in Invitation : RevokeInvitation(i) \/ LinkLapses(i)
  \/ SignUp \/ LogIn

Spec == Init /\ [][Next]_vars

-----------------------------------------------------------------------------
(* Every variable keeps its type.                                            *)
TypeOK ==
  /\ role \in Roles \union {"none"} /\ cookie \in BOOLEAN
  /\ delegation \in [Delegation -> {"absent", "active", "revoked"}]
  /\ cache \in [Server -> [holds : {"nothing", "plain", "elevated"}, overtaken : BOOLEAN]]
  /\ invitation \in [Invitation -> [status : Statuses, role : Roles, lapsed : BOOLEAN]]
  /\ changedAt \in Server

(* action-utils.ts:74-77 has a change of delegation reach the cache "in real *)
(* time".  It does in the process that made the change, once it has          *)
(* invalidated: what that process still answers wrongly was stored by a      *)
(* lookup that had read the delegations before.                              *)
Stale(s) == cache[s].holds # "nothing" /\ cache[s].holds # Held
Reached(s) ==
  /\ s = changedAt
  /\ \A r \in Request : task[r].op = "invalidate" => task[r].server # s

ChangeReachesItsProcess ==
  \A s \in Server : Stale(s) /\ Reached(s) => cache[s].overtaken

(* A revoked or accepted invitation is taken out of that state only by a     *)
(* request that had read it while it was open: resending, expiring and       *)
(* accepting update the row by id alone.                                     *)
Closed == {"revoked", "accepted"}

ClosedUnlessReadOpen ==
  [][\A i \in Invitation :
       (invitation[i].status \in Closed /\ invitation'[i].status # invitation[i].status)
         => \E r \in Request :
              /\ task[r].op \in {"resend", "expire", "accept"}
              /\ task[r].id = i /\ task[r].seen \notin Closed
              /\ task'[r] # task[r]]_vars
=============================================================================
