---------------------------- MODULE Access_proofs ----------------------------
(***************************************************************************)
(* Access for every set of processes, requests, delegations and            *)
(* invitations: its types, that a change of delegation reaches the process *)
(* that made it, and that only a request which had read an invitation while *)
(* it was open takes it out of a closed state.                             *)
(*                                                                         *)
(* The argument for the first: between the write and the invalidation      *)
(* nothing is claimed of the process (it is not Reached); the invalidation *)
(* empties its cache and marks its lookups that have read; and every later *)
(* lookup of it reads what the delegations say until the next write.        *)
(***************************************************************************)
EXTENDS Access, TLAPS

Answers == {"plain", "elevated"}

\* What a request may be doing.
GoodTask(k) ==
  \/ k = Idle
  \/ \E s \in Server : k = Lookup(s, "read", "nothing", FALSE)
  \/ \E s \in Server, seen \in Answers, o \in BOOLEAN : k = Lookup(s, "store", seen, o)
  \/ \E s \in Server, d \in Delegation, pc \in {"role", "insert"} : k = Delegating(s, d, pc)
  \/ \E s \in Server : k = Invalidating(s)
  \/ \E i \in Invitation, given \in Roles : k = Inviting(i, given)
  \/ \E i \in Invitation, seen \in Resendable : k = Resending(i, seen)
  \/ \E i \in Invitation, seen \in Followable : k = Expiring(i, seen)
  \/ \E s \in Server, i \in Invitation, given \in Roles, left \in SUBSET {"role", "status"} :
       k = Accepting(s, i, "pending", given, left)

Tasks == DOMAIN task = Request /\ \A r \in Request : GoodTask(task[r])

\* What a lookup is about to store in a reached process.
Storing(r) == task[r].op = "lookup" /\ task[r].pc = "store"

LookupsFresh ==
  \A r \in Request :
    (task[r].op = "lookup" /\ task[r].pc = "store" /\ Reached(task[r].server))
      => (task[r].overtaken \/ task[r].seen = Held)

IInv == TypeOK /\ Tasks /\ LookupsFresh /\ ChangeReachesItsProcess

-----------------------------------------------------------------------------
\* The elevation follows from the delegation rows.
LEMMA HeldAnswers == Held \in Answers
  BY DEF Held, Answers

LEMMA HeldSame == ASSUME delegation' = delegation PROVE Held' = Held /\ Active' = Active
  BY DEF Held, Active

\* A request goes from one step to the next; the caches stay, the elevation
\* stays, and what it is about to store it has just read or kept.
LEMMA Moved ==
  ASSUME IInv, TypeOK', NEW r \in Request, NEW next, GoodTask(next), Become(r, next),
         task[r].op # "invalidate", Held' = Held, changedAt' = changedAt, cache' = cache,
         (next.op = "lookup" /\ next.pc = "store") => next.seen = Held
  PROVE  IInv'
<1>1. \A q \in Request : task'[q] = IF q = r THEN next ELSE task[q]
  BY DEF Become, IInv, Tasks
<1>2. Tasks'
  BY <1>1 DEF Become, IInv, Tasks
<1>3. \A s : Reached(s)' => Reached(s)
  BY <1>1 DEF Reached
<1>4. LookupsFresh'
  BY <1>1, <1>3 DEF LookupsFresh, IInv
<1>5. ChangeReachesItsProcess'
  BY <1>3 DEF ChangeReachesItsProcess, IInv, Stale
<1> QED BY <1>2, <1>4, <1>5 DEF IInv

\* The elevation is given or taken: its process has yet to invalidate.
LEMMA Changed ==
  ASSUME IInv, TypeOK', NEW r \in Request, NEW s \in Server, Become(r, Invalidating(s)),
         changedAt' = s
  PROVE  IInv'
<1>1. task'[r] = Invalidating(s) /\ DOMAIN task' = Request
      /\ \A q \in Request \ {r} : task'[q] = task[q]
  BY DEF Become, IInv, Tasks
<1>2. Tasks'
  <2>1. GoodTask(Invalidating(s)) BY DEF GoodTask
  <2> QED BY <1>1, <2>1 DEF IInv, Tasks
<1>3. \A x : ~Reached(x)'
  BY <1>1 DEF Reached, Invalidating
<1> QED BY <1>2, <1>3 DEF IInv, LookupsFresh, ChangeReachesItsProcess

\* What a task that names a step holds.
LEMMA TaskParts ==
  ASSUME NEW k, GoodTask(k)
  PROVE  /\ k.op = "lookup" => k.server \in Server /\ k.overtaken \in BOOLEAN
         /\ k.op = "lookup" /\ k.pc = "store" =>
              k.seen \in Answers /\ \A o \in BOOLEAN : GoodTask(Lookup(k.server, "store", k.seen, o))
         /\ k.op = "delegate" => k.server \in Server /\ k.id \in Delegation
         /\ k.op = "invalidate" => k.server \in Server
         /\ k.op = "invite" => k.id \in Invitation /\ k.role \in Roles
         /\ k.op = "resend" => k.id \in Invitation /\ k.seen \in Resendable
         /\ k.op = "expire" => k.id \in Invitation /\ k.seen \in Followable
         /\ k.op = "accept" =>
              /\ k.server \in Server /\ k.id \in Invitation /\ k.seen = "pending" /\ k.role \in Roles
              /\ \A x : /\ GoodTask([k EXCEPT !.left = @ \ {x}])
                        /\ [k EXCEPT !.left = @ \ {x}].op = "accept"
                        /\ [k EXCEPT !.left = @ \ {x}].id = k.id
                        /\ x \in k.left => [k EXCEPT !.left = @ \ {x}] # k
<1>1. CASE k = Idle BY <1>1 DEF Idle
<1>2. CASE \E s \in Server : k = Lookup(s, "read", "nothing", FALSE) BY <1>2 DEF Lookup
<1>3. CASE \E s \in Server, seen \in Answers, o \in BOOLEAN : k = Lookup(s, "store", seen, o)
  <2>1. PICK s \in Server, seen \in Answers, o \in BOOLEAN : k = Lookup(s, "store", seen, o)
    BY <1>3
  <2>2. k.op = "lookup" /\ k.server = s /\ k.seen = seen /\ k.overtaken = o
    BY <2>1 DEF Lookup
  <2>3. \A b \in BOOLEAN : GoodTask(Lookup(s, "store", seen, b)) BY DEF GoodTask
  <2> QED BY <2>2, <2>3
<1>4. CASE \E s \in Server, d \in Delegation, pc \in {"role", "insert"} : k = Delegating(s, d, pc)
  BY <1>4 DEF Delegating
<1>5. CASE \E s \in Server : k = Invalidating(s) BY <1>5 DEF Invalidating
<1>6. CASE \E i \in Invitation, given \in Roles : k = Inviting(i, given) BY <1>6 DEF Inviting
<1>7. CASE \E i \in Invitation, seen \in Resendable : k = Resending(i, seen) BY <1>7 DEF Resending
<1>8. CASE \E i \in Invitation, seen \in Followable : k = Expiring(i, seen) BY <1>8 DEF Expiring
<1>9. CASE \E s \in Server, i \in Invitation, given \in Roles, left \in SUBSET {"role", "status"} :
             k = Accepting(s, i, "pending", given, left)
  <2>1. PICK s \in Server, i \in Invitation, given \in Roles, left \in SUBSET {"role", "status"} :
               k = Accepting(s, i, "pending", given, left)
    BY <1>9
  <2>2. k.op = "accept" /\ k.server = s /\ k.id = i /\ k.seen = "pending" /\ k.role = given
    BY <2>1 DEF Accepting
  <2>3. ASSUME NEW x
        PROVE  /\ GoodTask([k EXCEPT !.left = @ \ {x}])
               /\ [k EXCEPT !.left = @ \ {x}].op = "accept"
               /\ [k EXCEPT !.left = @ \ {x}].id = k.id
               /\ x \in k.left => [k EXCEPT !.left = @ \ {x}] # k
    <3>1. [k EXCEPT !.left = @ \ {x}] = Accepting(s, i, "pending", given, left \ {x})
      BY <2>1 DEF Accepting
    <3>2. left \ {x} \in SUBSET {"role", "status"} OBVIOUS
    <3>3. GoodTask(Accepting(s, i, "pending", given, left \ {x})) BY <3>2 DEF GoodTask
    <3>4. Accepting(s, i, "pending", given, left \ {x}).op = "accept"
          /\ Accepting(s, i, "pending", given, left \ {x}).id = i
          /\ Accepting(s, i, "pending", given, left \ {x}).left = left \ {x}
          /\ k.left = left
      BY <2>1 DEF Accepting
    <3> QED BY <2>2, <3>1, <3>3, <3>4
  <2> QED BY <2>2, <2>3
<1> QED BY <1>1, <1>2, <1>3, <1>4, <1>5, <1>6, <1>7, <1>8, <1>9 DEF GoodTask

LEMMA InitIInv == Init => IInv
<1> SUFFICES ASSUME Init PROVE IInv OBVIOUS
<1>1. TypeOK BY DEF Init, TypeOK, Empty, Statuses, Roles
<1>2. \A r \in Request : task[r] = Idle /\ task[r].op = "idle" BY DEF Init, Idle
<1>3. Tasks BY <1>2 DEF Init, Tasks, GoodTask
<1>4. LookupsFresh BY <1>2 DEF LookupsFresh
<1>5. ChangeReachesItsProcess BY DEF Init, ChangeReachesItsProcess, Stale, Empty
<1> QED BY <1>1, <1>3, <1>4, <1>5 DEF IInv

-----------------------------------------------------------------------------
\* Steps that only move a request on, one lemma for each way to begin.
Rest == <<role, cookie, delegation, cache, invitation, changedAt>>

LEMMA Kept == ASSUME TypeOK, UNCHANGED Rest PROVE TypeOK' /\ Held' = Held
  BY HeldSame DEF TypeOK, Rest

LEMMA MissStep == ASSUME IInv, NEW r \in Request, NEW s \in Server, Miss(r, s) PROVE IInv'
<1> DEFINE k == Lookup(s, "read", "nothing", FALSE)
<1>1. GoodTask(k) BY DEF GoodTask
<1>2. k.op = "lookup" /\ k.pc = "read" BY DEF Lookup
<1>3. TypeOK' /\ Held' = Held BY Kept DEF Miss, IInv, Rest
<1>4. task[r].op # "invalidate" BY DEF Miss, Idle
<1> QED BY <1>1, <1>2, <1>3, <1>4, Moved DEF Miss

LEMMA CheckActiveStep ==
  ASSUME IInv, NEW r \in Request, NEW s \in Server, NEW d \in Delegation, CheckActive(r, s, d)
  PROVE  IInv'
<1> DEFINE k == Delegating(s, d, "role")
<1>1. GoodTask(k) BY DEF GoodTask
<1>2. k.op = "delegate" BY DEF Delegating
<1>3. TypeOK' /\ Held' = Held BY Kept DEF CheckActive, IInv, Rest
<1>4. task[r].op # "invalidate" BY DEF CheckActive, Idle
<1> QED BY <1>1, <1>2, <1>3, <1>4, Moved DEF CheckActive

LEMMA CheckInviteStep ==
  ASSUME IInv, NEW r \in Request, NEW i \in Invitation, NEW given \in InvitedAs,
         CheckInvite(r, i, given)
  PROVE  IInv'
<1> DEFINE k == Inviting(i, given)
<1>1. GoodTask(k) BY InvitedAsRoles DEF GoodTask
<1>2. k.op = "invite" BY DEF Inviting
<1>3. TypeOK' /\ Held' = Held BY Kept DEF CheckInvite, IInv, Rest
<1>4. task[r].op # "invalidate" BY DEF CheckInvite, Idle
<1> QED BY <1>1, <1>2, <1>3, <1>4, Moved DEF CheckInvite

LEMMA ReadResendStep ==
  ASSUME IInv, NEW r \in Request, NEW i \in Invitation, ReadResend(r, i) PROVE IInv'
<1> DEFINE k == Resending(i, invitation[i].status)
<1>1. GoodTask(k) BY DEF GoodTask, ReadResend
<1>2. k.op = "resend" BY DEF Resending
<1>3. TypeOK' /\ Held' = Held BY Kept DEF ReadResend, IInv, Rest
<1>4. task[r].op # "invalidate" BY DEF ReadResend, Idle
<1> QED BY <1>1, <1>2, <1>3, <1>4, Moved DEF ReadResend

LEMMA FollowLapsedStep ==
  ASSUME IInv, NEW r \in Request, NEW i \in Invitation, FollowLapsed(r, i) PROVE IInv'
<1> DEFINE k == Expiring(i, invitation[i].status)
<1>1. GoodTask(k) BY DEF GoodTask, FollowLapsed
<1>2. k.op = "expire" BY DEF Expiring
<1>3. TypeOK' /\ Held' = Held BY Kept DEF FollowLapsed, IInv, Rest
<1>4. task[r].op # "invalidate" BY DEF FollowLapsed, Idle
<1> QED BY <1>1, <1>2, <1>3, <1>4, Moved DEF FollowLapsed

LEMMA FollowStep ==
  ASSUME IInv, NEW r \in Request, NEW s \in Server, NEW i \in Invitation, Follow(r, s, i)
  PROVE  IInv'
<1> DEFINE k == Accepting(s, i, "pending", invitation[i].role, {"role", "status"})
<1>1. invitation[i].role \in Roles BY DEF IInv, TypeOK
<1>2. GoodTask(k) BY <1>1 DEF GoodTask
<1>3. k.op = "accept" BY DEF Accepting
<1>4. TypeOK' /\ Held' = Held BY Kept DEF Follow, IInv, Rest
<1>5. task[r].op # "invalidate" BY DEF Follow, Idle
<1> QED BY <1>2, <1>3, <1>4, <1>5, Moved DEF Follow

LEMMA AssignRoleStep ==
  ASSUME IInv, NEW r \in Request, NEW s \in Server, NEW given \in Roles, AssignRole(r, s, given)
  PROVE  IInv'
<1> DEFINE k == Invalidating(s)
<1>1. GoodTask(k) BY DEF GoodTask
<1>2. k.op = "invalidate" BY DEF Invalidating
<1>3. TypeOK' BY DEF AssignRole, IInv, TypeOK
<1>4. Held' = Held BY HeldSame DEF AssignRole
<1>5. task[r].op # "invalidate" BY DEF AssignRole, Idle
<1> QED BY <1>1, <1>2, <1>3, <1>4, <1>5, Moved DEF AssignRole

\* Steps under way that only move the request or write the person's role or
\* an invitation.
LEMMA ReadDelegationsStep ==
  ASSUME IInv, NEW r \in Request, ReadDelegations(r) PROVE IInv'
<1> DEFINE k == Lookup(task[r].server, "store", Held, FALSE)
<1>1. GoodTask(k)
  <2>1. task[r].server \in Server BY TaskParts DEF ReadDelegations, IInv, Tasks
  <2> QED BY <2>1, HeldAnswers DEF GoodTask
<1>2. k.seen = Held BY DEF Lookup
<1>3. TypeOK' /\ Held' = Held BY Kept DEF ReadDelegations, IInv, Rest
<1>4. task[r].op # "invalidate" BY DEF ReadDelegations
<1> QED BY <1>1, <1>2, <1>3, <1>4, Moved DEF ReadDelegations

LEMMA CheckSupervisorStep ==
  ASSUME IInv, NEW r \in Request, CheckSupervisor(r) PROVE IInv'
<1>1. task[r].server \in Server /\ task[r].id \in Delegation
  BY TaskParts DEF CheckSupervisor, IInv, Tasks
<1>2. TypeOK' /\ Held' = Held BY Kept DEF CheckSupervisor, IInv, Rest
<1>3. task[r].op # "invalidate" BY DEF CheckSupervisor
<1>4. PICK next : Become(r, next) /\ next \in {Idle, Delegating(task[r].server, task[r].id, "insert")}
  BY DEF CheckSupervisor
<1>5. GoodTask(next) BY <1>1, <1>4 DEF GoodTask
<1>6. next.op # "lookup" BY <1>4 DEF Idle, Delegating
<1> QED BY <1>2, <1>3, <1>4, <1>5, <1>6, Moved DEF CheckSupervisor

LEMMA IdleStep ==
  ASSUME IInv, TypeOK', NEW r \in Request, Become(r, Idle), task[r].op # "invalidate",
         delegation' = delegation, changedAt' = changedAt, cache' = cache
  PROVE  IInv'
<1>1. GoodTask(Idle) BY DEF GoodTask
<1>2. Idle.op = "idle" BY DEF Idle
<1> QED BY <1>1, <1>2, HeldSame, Moved

LEMMA InvitationWritten ==
  ASSUME TypeOK, NEW i \in Invitation, NEW st \in Statuses,
         UNCHANGED <<role, cookie, delegation, cache, changedAt>>,
         \/ invitation' = invitation
         \/ invitation' = [invitation EXCEPT ![i].status = st]
         \/ invitation' = [invitation EXCEPT ![i].status = st, ![i].lapsed = FALSE]
         \/ \E given \in Roles :
              invitation' = [invitation EXCEPT ![i] =
                               [status |-> st, role |-> given, lapsed |-> FALSE]]
  PROVE  TypeOK'
<1> DEFINE Row == [status : Statuses, role : Roles, lapsed : BOOLEAN]
<1>1. invitation \in [Invitation -> Row] BY DEF TypeOK
<1>2. invitation[i] \in Row BY <1>1
<1>3. \E row \in Row : invitation' = [invitation EXCEPT ![i] = row]
  <2>1. CASE invitation' = invitation
    <3>1. invitation' = [invitation EXCEPT ![i] = invitation[i]] BY <1>1, <2>1
    <3> QED BY <1>2, <3>1
  <2>2. CASE invitation' = [invitation EXCEPT ![i].status = st]
    <3>1. [invitation[i] EXCEPT !.status = st] \in Row BY <1>2
    <3> QED BY <2>2, <3>1
  <2>3. CASE invitation' = [invitation EXCEPT ![i].status = st, ![i].lapsed = FALSE]
    <3> DEFINE row == [status |-> st, role |-> invitation[i].role, lapsed |-> FALSE]
    <3>1. row \in Row BY <1>2
    <3>2. invitation' = [invitation EXCEPT ![i] = row] BY <1>1, <1>2, <2>3
    <3> QED BY <3>1, <3>2
  <2>4. CASE \E given \in Roles :
               invitation' = [invitation EXCEPT ![i] =
                                [status |-> st, role |-> given, lapsed |-> FALSE]]
    BY <2>4
  <2> QED BY <2>1, <2>2, <2>3, <2>4
<1>4. invitation' \in [Invitation -> Row] BY <1>1, <1>3
<1> QED BY <1>4 DEF TypeOK

LEMMA InsertInviteStep == ASSUME IInv, NEW r \in Request, InsertInvite(r) PROVE IInv'
<1>1. task[r].id \in Invitation /\ task[r].role \in Roles
  BY TaskParts DEF InsertInvite, IInv, Tasks
<1>2. "pending" \in Statuses BY DEF Statuses
<1>3. TypeOK' BY <1>1, <1>2, InvitationWritten DEF InsertInvite, IInv
<1> QED BY <1>3, IdleStep DEF InsertInvite

LEMMA ResendStep == ASSUME IInv, NEW r \in Request, Resend(r) PROVE IInv'
<1>1. task[r].id \in Invitation BY TaskParts DEF Resend, IInv, Tasks
<1>2. "pending" \in Statuses BY DEF Statuses
<1>3. TypeOK' BY <1>1, <1>2, InvitationWritten DEF Resend, IInv
<1> QED BY <1>3, IdleStep DEF Resend

LEMMA MarkExpiredStep == ASSUME IInv, NEW r \in Request, MarkExpired(r) PROVE IInv'
<1>1. task[r].id \in Invitation BY TaskParts DEF MarkExpired, IInv, Tasks
<1>2. "expired" \in Statuses BY DEF Statuses
<1>3. TypeOK' BY <1>1, <1>2, InvitationWritten DEF MarkExpired, IInv
<1> QED BY <1>3, IdleStep DEF MarkExpired

LEMMA WriteRoleStep == ASSUME IInv, NEW r \in Request, WriteRole(r) PROVE IInv'
<1> DEFINE k == [task[r] EXCEPT !.left = @ \ {"role"}]
<1>1. GoodTask(k) /\ task[r].role \in Roles BY TaskParts DEF WriteRole, IInv, Tasks
<1>2. k.op = "accept" BY TaskParts DEF WriteRole, IInv, Tasks
<1>3. TypeOK' BY <1>1 DEF WriteRole, IInv, TypeOK
<1>4. Held' = Held BY HeldSame DEF WriteRole
<1>5. task[r].op # "invalidate" BY DEF WriteRole
<1> QED BY <1>1, <1>2, <1>3, <1>4, <1>5, Moved DEF WriteRole

LEMMA MarkAcceptedStep == ASSUME IInv, NEW r \in Request, MarkAccepted(r) PROVE IInv'
<1> DEFINE k == [task[r] EXCEPT !.left = @ \ {"status"}]
<1>1. GoodTask(k) /\ task[r].id \in Invitation BY TaskParts DEF MarkAccepted, IInv, Tasks
<1>2. k.op = "accept" BY TaskParts DEF MarkAccepted, IInv, Tasks
<1>3. "accepted" \in Statuses BY DEF Statuses
<1>4. TypeOK' BY <1>1, <1>3, InvitationWritten DEF MarkAccepted, IInv
<1>5. Held' = Held BY HeldSame DEF MarkAccepted
<1>6. task[r].op # "invalidate" BY DEF MarkAccepted
<1> QED BY <1>1, <1>2, <1>4, <1>5, <1>6, Moved DEF MarkAccepted

LEMMA AcceptedStep == ASSUME IInv, NEW r \in Request, Accepted(r) PROVE IInv'
<1> DEFINE k == Invalidating(task[r].server)
<1>1. task[r].server \in Server BY TaskParts DEF Accepted, IInv, Tasks
<1>2. GoodTask(k) BY <1>1 DEF GoodTask
<1>3. k.op = "invalidate" BY DEF Invalidating
<1>4. TypeOK' /\ Held' = Held BY Kept DEF Accepted, IInv, Rest
<1>5. task[r].op # "invalidate" BY DEF Accepted
<1> QED BY <1>2, <1>3, <1>4, <1>5, Moved DEF Accepted

-----------------------------------------------------------------------------
\* The steps that write a cache or a delegation.
LEMMA StoreStep == ASSUME IInv, NEW r \in Request, Store(r) PROVE IInv'
<1> DEFINE s == task[r].server
           entry == [holds |-> task[r].seen, overtaken |-> task[r].overtaken]
<1>1. s \in Server /\ task[r].seen \in Answers /\ task[r].overtaken \in BOOLEAN
  BY TaskParts DEF Store, IInv, Tasks
<1>2. entry \in [holds : {"nothing", "plain", "elevated"}, overtaken : BOOLEAN]
  BY <1>1 DEF Answers
<1>3. cache' = [cache EXCEPT ![s] = entry] BY DEF Store
<1>4. TypeOK' BY <1>1, <1>2, <1>3 DEF Store, IInv, TypeOK
<1>5. task'[r] = Idle /\ DOMAIN task' = Request /\ \A q \in Request \ {r} : task'[q] = task[q]
  BY DEF Store, Become, IInv, Tasks
<1>6. Idle.op = "idle" /\ GoodTask(Idle) BY DEF Idle, GoodTask
<1>7. Tasks' BY <1>5, <1>6 DEF IInv, Tasks
<1>8. Held' = Held BY HeldSame DEF Store
<1>9. \A x : Reached(x)' => Reached(x)
  BY <1>5 DEF Reached, Store
<1>10. LookupsFresh'
  BY <1>5, <1>6, <1>8, <1>9 DEF LookupsFresh, IInv
<1>11. ChangeReachesItsProcess'
  <2> SUFFICES ASSUME NEW x \in Server, Stale(x)', Reached(x)' PROVE cache'[x].overtaken
    BY DEF ChangeReachesItsProcess
  <2>1. Reached(x) BY <1>9
  <2>2. CASE x = s
    <3>1. cache'[x] = entry BY <1>3, <2>2 DEF IInv, TypeOK
    <3>2. task[r].overtaken \/ task[r].seen = Held
      BY <2>1, <2>2 DEF IInv, LookupsFresh, Store
    <3>3. entry.holds # Held BY <1>8, <3>1 DEF Stale
    <3> QED BY <3>1, <3>2, <3>3
  <2>3. CASE x # s
    <3>1. cache'[x] = cache[x] BY <1>3, <2>3 DEF IInv, TypeOK
    <3>2. Stale(x) BY <3>1, <1>8 DEF Stale
    <3> QED BY <2>1, <3>1, <3>2 DEF IInv, ChangeReachesItsProcess
  <2> QED BY <2>2, <2>3
<1> QED BY <1>4, <1>7, <1>10, <1>11 DEF IInv

\* A process whose cache is emptied answers nothing.
LEMMA Emptied ==
  ASSUME TypeOK, NEW s \in Server, cache' = [cache EXCEPT ![s] = Empty],
         UNCHANGED <<role, cookie, delegation, invitation, changedAt>>
  PROVE  /\ TypeOK' /\ ~Stale(s)'
         /\ Held' = Held
         /\ \A x \in Server \ {s} : cache'[x] = cache[x] /\ (Stale(x)' => Stale(x))
<1>1. Empty \in [holds : {"nothing", "plain", "elevated"}, overtaken : BOOLEAN]
      /\ Empty.holds = "nothing"
  BY DEF Empty
<1>2. TypeOK' BY <1>1 DEF TypeOK
<1>3. Held' = Held BY HeldSame
<1>4. cache'[s] = Empty /\ \A x \in Server \ {s} : cache'[x] = cache[x] BY DEF TypeOK
<1> QED BY <1>1, <1>2, <1>3, <1>4 DEF Stale

LEMMA LapseStep == ASSUME IInv, NEW s \in Server, Lapse(s) PROVE IInv'
<1>1. /\ TypeOK' /\ ~Stale(s)' /\ Held' = Held
      /\ \A x \in Server \ {s} : cache'[x] = cache[x] /\ (Stale(x)' => Stale(x))
  BY Emptied DEF Lapse, IInv
<1>2. Tasks' BY DEF Lapse, IInv, Tasks
<1>3. \A x : Reached(x)' => Reached(x) BY DEF Reached, Lapse
<1>4. LookupsFresh' BY <1>1, <1>3 DEF LookupsFresh, IInv, Lapse
<1>5. ChangeReachesItsProcess' BY <1>1, <1>3 DEF ChangeReachesItsProcess, IInv
<1> QED BY <1>1, <1>2, <1>4, <1>5 DEF IInv

LEMMA InvalidateStep == ASSUME IInv, NEW r \in Request, Invalidate(r) PROVE IInv'
<1>1. PICK s \in Server : s = task[r].server BY TaskParts DEF Invalidate, IInv, Tasks
<1> DEFINE Hit(q) == task[q].op = "lookup" /\ task[q].server = s /\ task[q].pc = "store"
<1>2. /\ TypeOK' /\ ~Stale(s)' /\ Held' = Held
      /\ \A x \in Server \ {s} : cache'[x] = cache[x] /\ (Stale(x)' => Stale(x))
  BY <1>1, Emptied DEF Invalidate, Forget, IInv
<1>3. /\ DOMAIN task' = Request /\ task'[r] = Idle
      /\ \A q \in Request \ {r} :
           task'[q] = IF Hit(q) THEN Lookup(s, "store", task[q].seen, TRUE) ELSE task[q]
  BY <1>1 DEF Invalidate, Overtake
<1>4. Idle.op = "idle" /\ GoodTask(Idle) BY DEF Idle, GoodTask
<1>5. \A q \in Request : Hit(q) => GoodTask(Lookup(s, "store", task[q].seen, TRUE))
  BY TaskParts DEF IInv, Tasks
<1>6. Tasks' BY <1>3, <1>4, <1>5 DEF IInv, Tasks
<1>7. \A x \in Server \ {s} : Reached(x)' => Reached(x)
  <2> SUFFICES ASSUME NEW x \in Server \ {s}, Reached(x)', NEW q \in Request,
                      task[q].op = "invalidate", task[q].server = x
               PROVE  FALSE
    BY DEF Reached, Invalidate
  <2>1. q # r /\ ~Hit(q) BY <1>1
  <2>2. task'[q] = task[q] BY <1>3, <2>1
  <2> QED BY <2>2 DEF Reached
<1>8. LookupsFresh'
  <2> SUFFICES ASSUME NEW q \in Request, Storing(q)', Reached(task[q].server)'
               PROVE  task'[q].overtaken \/ task'[q].seen = Held
    BY <1>2 DEF LookupsFresh, Storing
  <2>1. q # r BY <1>3, <1>4 DEF Storing
  <2>2. CASE Hit(q)
    <3>1. task'[q] = Lookup(s, "store", task[q].seen, TRUE) BY <1>3, <2>1, <2>2
    <3> QED BY <3>1 DEF Lookup
  <2>3. CASE ~Hit(q)
    <3>1. task'[q] = task[q] BY <1>3, <2>1, <2>3
    <3>2. PICK x \in Server : x = task[q].server
      BY <3>1, TaskParts DEF IInv, Tasks, Storing
    <3>3. x # s BY <2>3, <3>1, <3>2 DEF Storing
    <3>4. Reached(x)' BY <3>1, <3>2 DEF Reached
    <3>5. Reached(x) BY <3>3, <3>4, <1>7
    <3> QED BY <3>1, <3>2, <3>5 DEF LookupsFresh, IInv, Storing
  <2> QED BY <2>2, <2>3
<1>9. ChangeReachesItsProcess' BY <1>2, <1>7 DEF ChangeReachesItsProcess, IInv
<1> QED BY <1>2, <1>6, <1>8, <1>9 DEF IInv

LEMMA RestartStep == ASSUME IInv, NEW s \in Server, Restart(s) PROVE IInv'
<1>1. /\ TypeOK' /\ ~Stale(s)' /\ Held' = Held
      /\ \A x \in Server \ {s} : cache'[x] = cache[x] /\ (Stale(x)' => Stale(x))
  BY Emptied DEF Restart, IInv
<1>2. DOMAIN task' = Request
      /\ \A q \in Request : task'[q] = IF On(s, task[q]) THEN Idle ELSE task[q]
  BY DEF Restart
<1>3. Idle.op = "idle" /\ GoodTask(Idle) BY DEF Idle, GoodTask
<1>4. Tasks' BY <1>2, <1>3 DEF IInv, Tasks
<1>5. \A x \in Server \ {s} : Reached(x)' => Reached(x)
  <2> SUFFICES ASSUME NEW x \in Server \ {s}, Reached(x)', NEW q \in Request,
                      task[q].op = "invalidate", task[q].server = x
               PROVE  FALSE
    BY DEF Reached, Restart
  <2>1. ~On(s, task[q]) BY DEF On
  <2> QED BY <1>2, <2>1 DEF Reached
<1>6. LookupsFresh'
  <2> SUFFICES ASSUME NEW q \in Request, Storing(q)', Reached(task[q].server)'
               PROVE  task'[q].overtaken \/ task'[q].seen = Held
    BY <1>1 DEF LookupsFresh, Storing
  <2>1. task'[q] = task[q] /\ ~On(s, task[q]) BY <1>2, <1>3 DEF Storing
  <2>2. PICK x \in Server : x = task[q].server
    BY <2>1, TaskParts DEF IInv, Tasks, Storing
  <2>3. x # s BY <2>1, <2>2 DEF On, Storing
  <2>4. Reached(x)' BY <2>1, <2>2 DEF Reached
  <2>5. Reached(x) BY <2>3, <2>4, <1>5
  <2> QED BY <2>1, <2>2, <2>5 DEF LookupsFresh, IInv, Storing
<1>7. ChangeReachesItsProcess' BY <1>1, <1>5 DEF ChangeReachesItsProcess, IInv
<1> QED BY <1>1, <1>4, <1>6, <1>7 DEF IInv

\* Given while another delegation lasts, the elevation is what it was.
LEMMA InsertStep == ASSUME IInv, NEW r \in Request, Insert(r) PROVE IInv'
<1> DEFINE s == task[r].server
           k == Invalidating(s)
<1>1. s \in Server /\ task[r].id \in Delegation BY TaskParts DEF Insert, IInv, Tasks
<1>2. delegation' = [delegation EXCEPT ![task[r].id] = "active"] BY DEF Insert
<1>3. TypeOK' BY <1>1 DEF Insert, IInv, TypeOK
<1>4. CASE Active = {}
  BY <1>1, <1>3, <1>4, Changed DEF Insert
<1>5. CASE Active # {}
  <2>1. Active' # {} BY <1>2, <1>5 DEF Active, IInv, TypeOK
  <2>2. Held' = Held BY <1>5, <2>1 DEF Held
  <2>3. GoodTask(k) BY <1>1 DEF GoodTask
  <2>4. k.op = "invalidate" BY DEF Invalidating
  <2> QED BY <1>3, <1>5, <2>2, <2>3, <2>4, Moved DEF Insert
<1> QED BY <1>4, <1>5

\* Revoking one of two delegations leaves the elevation what it was.
LEMMA RevokeDelegationStep ==
  ASSUME IInv, NEW r \in Request, NEW s \in Server, NEW d \in Delegation, RevokeDelegation(r, s, d)
  PROVE  IInv'
<1> DEFINE k == Invalidating(s)
<1>1. delegation' = [delegation EXCEPT ![d] = "revoked"] BY DEF RevokeDelegation
<1>2. TypeOK' BY DEF RevokeDelegation, IInv, TypeOK
<1>3. CASE Active = {d}
  BY <1>2, <1>3, Changed DEF RevokeDelegation
<1>4. CASE Active # {d}
  <2>1. d \in Active BY DEF Active, RevokeDelegation
  <2>2. PICK e \in Active : e # d BY <1>4, <2>1
  <2>3. e \in Active' BY <1>1, <2>2 DEF Active, IInv, TypeOK
  <2>4. Held' = Held BY <2>1, <2>3 DEF Held
  <2>5. GoodTask(k) BY DEF GoodTask
  <2>6. k.op = "invalidate" BY DEF Invalidating
  <2>7. task[r].op # "invalidate" BY DEF RevokeDelegation, Idle
  <2> QED BY <1>2, <1>4, <2>4, <2>5, <2>6, <2>7, Moved DEF RevokeDelegation
<1> QED BY <1>3, <1>4

\* Steps of nobody's request that touch neither cache nor delegation.
LEMMA Outside ==
  ASSUME IInv, TypeOK', UNCHANGED <<delegation, cache, task, changedAt>>
  PROVE  IInv'
<1>1. Held' = Held BY HeldSame
<1> QED BY <1>1 DEF IInv, Tasks, LookupsFresh, ChangeReachesItsProcess, Reached, Stale

LEMMA RevokeInvitationStep ==
  ASSUME IInv, NEW i \in Invitation, RevokeInvitation(i) PROVE IInv'
<1>1. "revoked" \in Statuses BY DEF Statuses
<1>2. TypeOK' BY <1>1, InvitationWritten DEF RevokeInvitation, IInv
<1> QED BY <1>2, Outside DEF RevokeInvitation

LEMMA LinkLapsesStep == ASSUME IInv, NEW i \in Invitation, LinkLapses(i) PROVE IInv'
<1>1. TypeOK' BY DEF LinkLapses, IInv, TypeOK
<1> QED BY <1>1, Outside DEF LinkLapses

LEMMA SignUpStep == ASSUME IInv, SignUp PROVE IInv'
<1>1. TypeOK' BY DEF SignUp, IInv, TypeOK, Roles
<1> QED BY <1>1, Outside DEF SignUp

LEMMA LogInStep == ASSUME IInv, LogIn PROVE IInv'
<1>1. TypeOK' BY DEF LogIn, IInv, TypeOK
<1> QED BY <1>1, Outside DEF LogIn

LEMMA IInvStep == IInv /\ [Next]_vars => IInv'
<1> SUFFICES ASSUME IInv, [Next]_vars PROVE IInv' OBVIOUS
<1>1. ASSUME NEW r \in Request, Begin(r) PROVE IInv'
  BY <1>1, CheckInviteStep, ReadResendStep, FollowLapsedStep, MissStep, CheckActiveStep,
     RevokeDelegationStep, AssignRoleStep, FollowStep DEF Begin
<1>2. ASSUME NEW r \in Request, Step(r) PROVE IInv'
  BY <1>2, ReadDelegationsStep, StoreStep, InvalidateStep, CheckSupervisorStep, InsertStep,
     InsertInviteStep, ResendStep, MarkExpiredStep, WriteRoleStep, MarkAcceptedStep, AcceptedStep
     DEF Step
<1>3. CASE UNCHANGED vars
  <2>1. TypeOK' BY <1>3 DEF vars, IInv, TypeOK
  <2> QED BY <1>3, <2>1, Outside DEF vars
<1> QED BY <1>1, <1>2, <1>3, LapseStep, RestartStep, RevokeInvitationStep, LinkLapsesStep,
          SignUpStep, LogInStep DEF Next

LEMMA Invariance == Spec => []IInv
BY InitIInv, IInvStep, PTL DEF Spec

(* The types hold whatever the processes, requests and rows are.             *)
THEOREM TypeCorrect == Spec => []TypeOK
<1>1. IInv => TypeOK BY DEF IInv
<1> QED BY <1>1, Invariance, PTL

(* A change of delegation reaches the process that made it as soon as that   *)
(* process has invalidated its cache (delegation.service.ts:38 and 56): what *)
(* it still answers wrongly was read before and stored after.                *)
THEOREM ChangesReachTheirProcess == Spec => []ChangeReachesItsProcess
<1>1. IInv => ChangeReachesItsProcess BY DEF IInv
<1> QED BY <1>1, Invariance, PTL

-----------------------------------------------------------------------------
\* Who wrote a status: a request that had read an open one, or a revocation
\* or an insertion, which find no closed row.
ReadOpen(i) ==
  \E r \in Request :
    /\ task[r].op \in {"resend", "expire", "accept"}
    /\ task[r].id = i /\ task[r].seen \notin Closed
    /\ task'[r] # task[r]

\* An invitation about to be inserted has no row yet and no other request is
\* about to insert it; one about to be written has a row.
Inserting(k) == k.op = "invite"
Writing(k) == k.op \in {"resend", "expire", "accept"}
Absent(i) == invitation[i].status = "absent"

RowsKnown ==
  \A r \in Request :
    /\ Inserting(task[r]) =>
         /\ Absent(task[r].id)
         /\ \A q \in Request \ {r} : Inserting(task[q]) => task[q].id # task[r].id
    /\ Writing(task[r]) => ~Absent(task[r].id)

\* Rows come and go with InsertInvite alone; the others keep what is known.
LEMMA KnownKept ==
  ASSUME RowsKnown, NEW r \in Request,
         \A i \in Invitation : Absent(i)' <=> Absent(i),
         \A q \in Request : task[q].op \in {"invite", "resend", "expire", "accept"} =>
                               task[q].id \in Invitation,
         \A q \in Request \ {r} :
           \/ task'[q] = task[q]
           \/ ~Inserting(task'[q]) /\ ~Writing(task'[q]),
         Inserting(task'[r]) =>
           /\ task'[r].id \in Invitation /\ Absent(task'[r].id)
           /\ \A q \in Request : Inserting(task[q]) => task[q].id # task'[r].id,
         Writing(task'[r]) => task'[r].id \in Invitation /\ ~Absent(task'[r].id)
  PROVE  RowsKnown'
  BY DEF RowsKnown, Inserting, Writing, Absent

LEMMA InitKnown == Init => RowsKnown
  BY DEF Init, RowsKnown, Inserting, Writing, Idle

\* Which invitation a status is written to.
LEMMA StatusAt ==
  ASSUME TypeOK, NEW i \in Invitation, NEW st, NEW l,
         \/ invitation' = [invitation EXCEPT ![i].status = st]
         \/ invitation' = [invitation EXCEPT ![i].status = st, ![i].lapsed = l]
         \/ invitation' = [invitation EXCEPT ![i].lapsed = l]
         \/ \E given : invitation' = [invitation EXCEPT ![i] =
                                       [status |-> st, role |-> given, lapsed |-> l]]
  PROVE  /\ \A j \in Invitation \ {i} : invitation'[j] = invitation[j]
         /\ invitation'[i].status \in {st, invitation[i].status}
         /\ invitation'[i].status = st \/ invitation' = [invitation EXCEPT ![i].lapsed = l]
<1> DEFINE Row == [status : Statuses, role : Roles, lapsed : BOOLEAN]
<1>1. invitation \in [Invitation -> Row] /\ invitation[i] \in Row BY DEF TypeOK
<1>2. CASE invitation' = [invitation EXCEPT ![i].status = st] BY <1>1, <1>2
<1>3. CASE invitation' = [invitation EXCEPT ![i].status = st, ![i].lapsed = l] BY <1>1, <1>3
<1>4. CASE invitation' = [invitation EXCEPT ![i].lapsed = l] BY <1>1, <1>4
<1>5. CASE \E given : invitation' = [invitation EXCEPT ![i] =
                                      [status |-> st, role |-> given, lapsed |-> l]]
  <2>1. PICK given : invitation' = [invitation EXCEPT ![i] =
                                     [status |-> st, role |-> given, lapsed |-> l]]
    BY <1>5
  <2>2. invitation'[i] = [status |-> st, role |-> given, lapsed |-> l] BY <1>1, <2>1
  <2> QED BY <1>1, <2>1, <2>2
<1> QED BY <1>2, <1>3, <1>4, <1>5

LEMMA KnownStep == IInv /\ RowsKnown /\ [Next]_vars => RowsKnown'
<1> SUFFICES ASSUME IInv, RowsKnown, [Next]_vars PROVE RowsKnown' OBVIOUS
<1>1. /\ TypeOK /\ DOMAIN task = Request
      /\ \A q \in Request : task[q].op \in {"invite", "resend", "expire", "accept"} =>
                              task[q].id \in Invitation
  BY TaskParts DEF IInv, Tasks
<1>2. \A r \in Request : \A k : Become(r, k) =>
        task'[r] = k /\ \A q \in Request \ {r} : task'[q] = task[q]
  BY <1>1 DEF Become
<1>3. invitation' = invitation => \A i \in Invitation : Absent(i)' <=> Absent(i)
  BY DEF Absent
<1>4. Idle.op = "idle" BY DEF Idle
<1>5. ASSUME NEW r \in Request, Begin(r) PROVE RowsKnown'
  <2>1. invitation' = invitation
    BY <1>5 DEF Begin, CheckInvite, ReadResend, FollowLapsed, Miss, CheckActive,
       RevokeDelegation, AssignRole, Follow
  <2>2. ASSUME NEW i \in Invitation, NEW given \in InvitedAs, CheckInvite(r, i, given) PROVE RowsKnown'
    <3> DEFINE k == Inviting(i, given)
    <3>1. task'[r] = k /\ \A q \in Request \ {r} : task'[q] = task[q]
      BY <1>2, <2>2 DEF CheckInvite
    <3>2. k.op = "invite" /\ k.id = i BY DEF Inviting
    <3>3. Absent(i) /\ \A q \in Request : Inserting(task[q]) => task[q].id # i
      BY <2>2 DEF CheckInvite, Absent, Inserting
    <3>4. ~Writing(k) BY <3>2 DEF Writing
    <3> QED BY <1>1, <1>3, <2>1, <3>1, <3>2, <3>3, <3>4, KnownKept
  <2>3. ASSUME NEW i \in Invitation, NEW k, Become(r, k), Writing(k), ~Inserting(k), k.id = i, ~Absent(i)
        PROVE  RowsKnown'
    <3>1. task'[r] = k /\ \A q \in Request \ {r} : task'[q] = task[q] BY <1>2, <2>3
    <3> QED BY <1>1, <1>3, <2>1, <2>3, <3>1, KnownKept
  <2>4. ASSUME NEW k, Become(r, k), ~Writing(k), ~Inserting(k) PROVE RowsKnown'
    <3>1. task'[r] = k /\ \A q \in Request \ {r} : task'[q] = task[q] BY <1>2, <2>4
    <3> QED BY <1>1, <1>3, <2>1, <2>4, <3>1, KnownKept
  <2>5. ASSUME NEW i \in Invitation, ReadResend(r, i) PROVE RowsKnown'
    <3> DEFINE k == Resending(i, invitation[i].status)
    <3>1. Writing(k) /\ ~Inserting(k) /\ k.id = i BY DEF Resending, Writing, Inserting
    <3>2. ~Absent(i) BY <2>5 DEF ReadResend, Resendable, Absent
    <3> QED BY <2>3, <2>5, <3>1, <3>2 DEF ReadResend
  <2>6. ASSUME NEW i \in Invitation, FollowLapsed(r, i) PROVE RowsKnown'
    <3> DEFINE k == Expiring(i, invitation[i].status)
    <3>1. Writing(k) /\ ~Inserting(k) /\ k.id = i BY DEF Expiring, Writing, Inserting
    <3>2. ~Absent(i) BY <2>6 DEF FollowLapsed, Followable, Absent
    <3> QED BY <2>3, <2>6, <3>1, <3>2 DEF FollowLapsed
  <2>7. ASSUME NEW s \in Server, NEW i \in Invitation, Follow(r, s, i) PROVE RowsKnown'
    <3> DEFINE k == Accepting(s, i, "pending", invitation[i].role, {"role", "status"})
    <3>1. Writing(k) /\ ~Inserting(k) /\ k.id = i BY DEF Accepting, Writing, Inserting
    <3>2. ~Absent(i) BY <2>7 DEF Follow, Absent
    <3> QED BY <2>3, <2>7, <3>1, <3>2 DEF Follow
  <2>8. ASSUME NEW s \in Server,
               \/ Miss(r, s)
               \/ \E d \in Delegation : CheckActive(r, s, d) \/ RevokeDelegation(r, s, d)
               \/ \E given \in Roles : AssignRole(r, s, given)
        PROVE  RowsKnown'
    <3>1. \E k : Become(r, k) /\ k.op \in {"lookup", "delegate", "invalidate"}
      <4>1. Lookup(s, "read", "nothing", FALSE).op = "lookup" BY DEF Lookup
      <4>2. \A d : Delegating(s, d, "role").op = "delegate" BY DEF Delegating
      <4>3. Invalidating(s).op = "invalidate" BY DEF Invalidating
      <4> QED BY <2>8, <4>1, <4>2, <4>3 DEF Miss, CheckActive, RevokeDelegation, AssignRole
    <3> QED BY <2>4, <3>1 DEF Writing, Inserting
  <2> QED BY <1>5, <2>2, <2>5, <2>6, <2>7, <2>8 DEF Begin
<1>6. ASSUME NEW r \in Request, NEW k, Become(r, k), ~Inserting(k),
             Writing(k) => Writing(task[r]) /\ k.id = task[r].id,
             \A i \in Invitation : Absent(i)' <=> Absent(i)
      PROVE  RowsKnown'
  <2>1. task'[r] = k /\ \A q \in Request \ {r} : task'[q] = task[q] BY <1>2, <1>6
  <2>2. Writing(k) => k.id \in Invitation /\ ~Absent(k.id)
    BY <1>1, <1>6 DEF RowsKnown, Writing
  <2> QED BY <1>1, <1>6, <2>1, <2>2, KnownKept
<1>7. ASSUME NEW r \in Request, Step(r) PROVE RowsKnown'
  <2>1. CASE ReadDelegations(r) \/ Store(r) \/ CheckSupervisor(r) \/ Insert(r) \/ Accepted(r)
    <3>1. invitation' = invitation
      BY <2>1 DEF ReadDelegations, Store, CheckSupervisor, Insert, Accepted
    <3>2. \E k : Become(r, k) /\ k.op \in {"idle", "lookup", "delegate", "invalidate"}
      <4>1. \A s : Lookup(s, "store", Held, FALSE).op = "lookup" BY DEF Lookup
      <4>2. \A s, d : Delegating(s, d, "insert").op = "delegate" BY DEF Delegating
      <4>3. \A s : Invalidating(s).op = "invalidate" BY DEF Invalidating
      <4> QED BY <1>4, <2>1, <4>1, <4>2, <4>3
              DEF ReadDelegations, Store, CheckSupervisor, Insert, Accepted
    <3> QED BY <1>3, <1>6, <3>1, <3>2 DEF Inserting, Writing
  <2>2. CASE Invalidate(r)
    <3>1. invitation' = invitation BY <2>2 DEF Invalidate
    <3>2. \A q \in Request : task'[q] = task[q] \/ task'[q].op \in {"idle", "lookup"}
      <4>1. \A s, x : Lookup(s, "store", x, TRUE).op = "lookup" BY DEF Lookup
      <4> QED BY <1>4, <2>2, <4>1 DEF Invalidate, Overtake
    <3>3. task'[r].op = "idle" BY <1>4, <2>2 DEF Invalidate, Overtake
    <3> QED BY <1>1, <1>3, <3>1, <3>2, <3>3, KnownKept DEF Inserting, Writing
  <2>3. CASE WriteRole(r)
    <3> DEFINE k == [task[r] EXCEPT !.left = @ \ {"role"}]
    <3>1. k.op = "accept" /\ k.id = task[r].id BY <2>3, TaskParts DEF WriteRole, IInv, Tasks
    <3> QED BY <1>3, <1>6, <2>3, <3>1 DEF WriteRole, Inserting, Writing
  <2>4. CASE MarkAccepted(r)
    <3> DEFINE k == [task[r] EXCEPT !.left = @ \ {"status"}]
    <3>1. k.op = "accept" /\ k.id = task[r].id BY <2>4, TaskParts DEF MarkAccepted, IInv, Tasks
    <3>2. task[r].id \in Invitation BY <1>1, <2>4 DEF MarkAccepted
    <3>3. ~Absent(task[r].id) BY <2>4 DEF MarkAccepted, RowsKnown, Writing
    <3>4. \A i \in Invitation : Absent(i)' <=> Absent(i)
      BY <1>1, <2>4, <3>2, <3>3, StatusAt DEF MarkAccepted, Absent
    <3> QED BY <1>6, <2>4, <3>1, <3>4 DEF MarkAccepted, Inserting, Writing
  <2>5. CASE Resend(r)
    <3>2. task[r].id \in Invitation BY <1>1, <2>5 DEF Resend
    <3>3. ~Absent(task[r].id) BY <2>5 DEF Resend, RowsKnown, Writing
    <3>4. \A i \in Invitation : Absent(i)' <=> Absent(i)
      <4> DEFINE j == task[r].id
      <4>1. CASE invitation' = invitation BY <1>3, <4>1
      <4>2. CASE invitation' = [invitation EXCEPT ![j].status = "pending", ![j].lapsed = FALSE]
        <5>1. /\ \A i \in Invitation \ {j} : invitation'[i] = invitation[i]
              /\ invitation'[j].status \in {"pending", invitation[j].status}
          BY <1>1, <3>2, <4>2, StatusAt
        <5> QED BY <3>3, <5>1 DEF Absent
      <4> QED BY <2>5, <4>1, <4>2 DEF Resend
    <3> QED BY <1>4, <1>6, <2>5, <3>4 DEF Resend, Inserting, Writing
  <2>6. CASE MarkExpired(r)
    <3>2. task[r].id \in Invitation BY <1>1, <2>6 DEF MarkExpired
    <3>3. ~Absent(task[r].id) BY <2>6 DEF MarkExpired, RowsKnown, Writing
    <3>4. \A i \in Invitation : Absent(i)' <=> Absent(i)
      BY <1>1, <2>6, <3>2, <3>3, StatusAt DEF MarkExpired, Absent
    <3> QED BY <1>4, <1>6, <2>6, <3>4 DEF MarkExpired, Inserting, Writing
  <2>7. CASE InsertInvite(r)
    <3>1. task[r].id \in Invitation BY <1>1, <2>7 DEF InsertInvite
    <3>2. task'[r] = Idle /\ \A q \in Request \ {r} : task'[q] = task[q]
      BY <1>2, <2>7 DEF InsertInvite
    <3>3. \A i \in Invitation \ {task[r].id} : invitation'[i] = invitation[i]
      BY <1>1, <2>7, <3>1, StatusAt DEF InsertInvite
    <3>4. \A i \in Invitation : ~Absent(i) => ~Absent(i)'
      BY <1>1, <2>7, <3>1, <3>3, StatusAt DEF InsertInvite, Absent
    <3>5. \A q \in Request \ {r} : Inserting(task[q]) => task[q].id # task[r].id
      BY <2>7 DEF InsertInvite, RowsKnown, Inserting
    <3>6. \A q \in Request \ {r} : Inserting(task[q]) => Absent(task[q].id)
      BY DEF RowsKnown
    <3>7. ~Inserting(Idle) /\ ~Writing(Idle) BY <1>4 DEF Inserting, Writing
    <3> QED BY <1>1, <3>2, <3>3, <3>4, <3>5, <3>6, <3>7 DEF RowsKnown, Inserting, Writing, Absent
  <2> QED BY <1>7, <2>1, <2>2, <2>3, <2>4, <2>5, <2>6, <2>7 DEF Step
<1>8. ASSUME NEW s \in Server, Restart(s) PROVE RowsKnown'
  <2>1. \A q \in Request : task'[q] = task[q] \/ task'[q] = Idle
    BY <1>8 DEF Restart
  <2>2. ~Inserting(Idle) /\ ~Writing(Idle) BY <1>4 DEF Inserting, Writing
  <2> QED BY <2>1, <2>2, <1>8 DEF RowsKnown, Restart, Absent
<1>9. ASSUME task' = task, \A i \in Invitation : Absent(i)' <=> Absent(i) PROVE RowsKnown'
  BY <1>1, <1>9 DEF RowsKnown, Inserting, Writing, Absent
<1>10. ASSUME NEW i \in Invitation, RevokeInvitation(i) \/ LinkLapses(i) PROVE RowsKnown'
  <2>1. ~Absent(i) BY <1>10 DEF RevokeInvitation, LinkLapses, Followable, Absent
  <2>2. \A j \in Invitation : Absent(j)' <=> Absent(j)
    <3>1. /\ \A j \in Invitation \ {i} : invitation'[j] = invitation[j]
          /\ invitation'[i].status \in {"revoked", invitation[i].status}
      <4>1. CASE RevokeInvitation(i) BY <1>1, <4>1, StatusAt DEF RevokeInvitation
      <4>2. CASE LinkLapses(i)
        <5>1. invitation' = [invitation EXCEPT ![i].lapsed = TRUE] BY <4>2 DEF LinkLapses
        <5> QED BY <1>1, <5>1, StatusAt
      <4> QED BY <1>10, <4>1, <4>2
    <3> QED BY <2>1, <3>1 DEF Absent
  <2> QED BY <1>9, <1>10, <2>2 DEF RevokeInvitation, LinkLapses
<1>11. CASE UNCHANGED vars BY <1>3, <1>9, <1>11 DEF vars
<1>12. ASSUME SignUp \/ LogIn \/ \E s \in Server : Lapse(s) PROVE RowsKnown'
  BY <1>3, <1>9, <1>12 DEF SignUp, LogIn, Lapse
<1> QED BY <1>5, <1>7, <1>8, <1>10, <1>11, <1>12 DEF Next

LEMMA WritersReadOpen ==
  ASSUME IInv
  PROVE  \A r \in Request : Writing(task[r]) => task[r].seen \notin Closed
  BY TaskParts DEF IInv, Tasks, Closed, Resendable, Followable, Statuses, Writing

LEMMA OnlyReadersWrite ==
  ASSUME IInv, RowsKnown, [Next]_vars, NEW i \in Invitation, invitation[i].status \in Closed,
         invitation'[i].status # invitation[i].status
  PROVE  ReadOpen(i)
<1>1. invitation' # invitation /\ ~Absent(i) BY DEF Absent, Closed
<1>2. TypeOK /\ DOMAIN task = Request BY DEF IInv, Tasks
<1>3. Idle.op = "idle" BY DEF Idle
<1>4. ASSUME NEW r \in Request, Begin(r) PROVE FALSE
  BY <1>1, <1>4 DEF Begin, CheckInvite, ReadResend, FollowLapsed, Miss, CheckActive,
     RevokeDelegation, AssignRole, Follow
<1>5. ASSUME NEW r \in Request, Step(r) PROVE ReadOpen(i)
  <2> DEFINE j == task[r].id
  <2>1. CASE ReadDelegations(r) \/ Store(r) \/ Invalidate(r) \/ CheckSupervisor(r) \/ Insert(r)
             \/ WriteRole(r) \/ Accepted(r)
    BY <1>1, <2>1 DEF ReadDelegations, Store, Invalidate, CheckSupervisor, Insert, WriteRole, Accepted
  <2>2. CASE InsertInvite(r)
    <3>1. j \in Invitation /\ Absent(j)
      BY <2>2, TaskParts DEF InsertInvite, IInv, Tasks, RowsKnown, Inserting
    <3>2. \A x \in Invitation \ {j} : invitation'[x] = invitation[x]
      BY <1>2, <2>2, <3>1, StatusAt DEF InsertInvite
    <3> QED BY <1>1, <3>1, <3>2
  <2>3. CASE Resend(r)
    <3>1. j \in Invitation BY <2>3, TaskParts DEF Resend, IInv, Tasks
    <3>2. invitation' = [invitation EXCEPT ![j].status = "pending", ![j].lapsed = FALSE]
      BY <1>1, <2>3 DEF Resend
    <3>3. j = i BY <1>2, <3>1, <3>2, StatusAt
    <3>4. task'[r] # task[r] BY <1>2, <1>3, <2>3 DEF Resend, Become
    <3>5. Writing(task[r]) BY <2>3 DEF Resend, Writing
    <3> QED BY <3>3, <3>4, <3>5, WritersReadOpen DEF ReadOpen, Writing
  <2>4. CASE MarkExpired(r)
    <3>1. j \in Invitation BY <2>4, TaskParts DEF MarkExpired, IInv, Tasks
    <3>2. invitation' = [invitation EXCEPT ![j].status = "expired"] BY <2>4 DEF MarkExpired
    <3>3. j = i BY <1>2, <3>1, <3>2, StatusAt
    <3>4. task'[r] # task[r] BY <1>2, <1>3, <2>4 DEF MarkExpired, Become
    <3>5. Writing(task[r]) BY <2>4 DEF MarkExpired, Writing
    <3> QED BY <3>3, <3>4, <3>5, WritersReadOpen DEF ReadOpen, Writing
  <2>5. CASE MarkAccepted(r)
    <3>1. j \in Invitation BY <2>5, TaskParts DEF MarkAccepted, IInv, Tasks
    <3>2. invitation' = [invitation EXCEPT ![j].status = "accepted"] BY <2>5 DEF MarkAccepted
    <3>3. j = i BY <1>2, <3>1, <3>2, StatusAt
    <3>4. [task[r] EXCEPT !.left = @ \ {"status"}] # task[r]
      BY <2>5, TaskParts DEF MarkAccepted, IInv, Tasks
    <3>5. task'[r] = [task[r] EXCEPT !.left = @ \ {"status"}]
      BY <1>2, <2>5 DEF MarkAccepted, Become
    <3>6. Writing(task[r]) BY <2>5 DEF MarkAccepted, Writing
    <3> QED BY <3>3, <3>4, <3>5, <3>6, WritersReadOpen DEF ReadOpen, Writing
  <2> QED BY <1>5, <2>1, <2>2, <2>3, <2>4, <2>5 DEF Step
<1>6. ASSUME NEW x \in Invitation, RevokeInvitation(x) PROVE FALSE
  <2>1. \A y \in Invitation \ {x} : invitation'[y] = invitation[y]
    BY <1>2, <1>6, StatusAt DEF RevokeInvitation
  <2>2. x # i BY <1>6 DEF RevokeInvitation, Closed
  <2> QED BY <2>1, <2>2
<1>7. ASSUME NEW x \in Invitation, LinkLapses(x) PROVE FALSE
  <2>1. invitation' = [invitation EXCEPT ![x].lapsed = TRUE] BY <1>7 DEF LinkLapses
  <2>2. invitation'[i].status = invitation[i].status BY <1>2, <2>1 DEF TypeOK
  <2> QED BY <2>2
<1>8. ASSUME SignUp \/ LogIn \/ (\E s \in Server : Lapse(s) \/ Restart(s)) \/ UNCHANGED vars
      PROVE  FALSE
  BY <1>1, <1>8 DEF SignUp, LogIn, Lapse, Restart, vars
<1> QED BY <1>4, <1>5, <1>6, <1>7, <1>8 DEF Next

(* A revoked or accepted invitation leaves that state only by a request that *)
(* had read it open (invitation.service.ts:137, 192 and 228 update by id).   *)
THEOREM ClosedInvitationsStay == Spec => ClosedUnlessReadOpen
<1>1. Spec => []RowsKnown BY InitKnown, KnownStep, Invariance, PTL DEF Spec
<1>2. IInv /\ RowsKnown /\ [Next]_vars =>
        [\A i \in Invitation :
           (invitation[i].status \in Closed /\ invitation'[i].status # invitation[i].status)
             => \E r \in Request :
                  /\ task[r].op \in {"resend", "expire", "accept"}
                  /\ task[r].id = i /\ task[r].seen \notin Closed
                  /\ task'[r] # task[r]]_vars
  BY OnlyReadersWrite DEF ReadOpen
<1> QED BY <1>1, <1>2, Invariance, PTL DEF Spec, ClosedUnlessReadOpen
=============================================================================
